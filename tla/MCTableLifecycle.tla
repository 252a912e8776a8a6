-------------------------- MODULE MCTableLifecycle --------------------------
(***************************************************************************)
(* Small instances of TableLifecycle: create-table commands, one for the   *)
(* column text and one for text and title, and indexers of other files,    *)
(* one for each column.                                                    *)
(***************************************************************************)
EXTENDS TableLifecycle

CONSTANTS w1, w2, c1, c2, f1, f2, text, title

MCJob ==
  [w \in Workers |-> IF w = w1 THEN [files |-> {f1}, column |-> text]
                               ELSE [files |-> {f2}, column |-> title]]

MCColumnsOf ==
  [c \in Creators |-> IF c = c1 THEN {text} ELSE {text, title}]
=============================================================================
