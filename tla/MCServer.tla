------------------------------ MODULE MCServer ------------------------------
(***************************************************************************)
(* Small instances of Server: which request names which table and column.  *)
(***************************************************************************)
EXTENDS Server

CONSTANTS h1, h2, g, t1, t2

\* h2 names a table nobody registered, g a column that the second commit adds.
OneTable == [r \in Requests |-> IF r = h2 THEN t2 ELSE t1]
NewColumn == [r \in Requests |-> IF r = g THEN 2 ELSE 1]
=============================================================================
