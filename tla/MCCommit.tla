------------------------------ MODULE MCCommit ------------------------------
(***************************************************************************)
(* Small instances of Commit: who indexes what.                            *)
(***************************************************************************)
EXTENDS Commit

CONSTANTS w1, w2, w3, f1, f2, f3, text, title

Job1(files) == [files |-> files, column |-> text]

\* w1 and w2 race with the same batch, w3 brings another one.
SameBatch == [w \in Workers |-> Job1(IF w = w3 THEN {f2} ELSE {f1})]

\* The same files for two columns.
TwoColumns ==
  [w \in Workers |->
     [files |-> {f1}, column |-> IF w = w1 THEN text ELSE title]]
=============================================================================
