------------------------------ MODULE TableLog ------------------------------
(***************************************************************************)
(* What the commit protocol promises, without stores, ETags or retries: a  *)
(* log of batches that grows at the end, holds every batch at most once,   *)
(* and worker answers that tell the truth about it.  An error answer says  *)
(* nothing: the batch may be in the log, or may still get there.           *)
(***************************************************************************)
EXTENDS Sequences, SequencesExt

CONSTANTS
  Workers,
  Batch       \* Batch[w]: the batch worker w is to append

VARIABLES
  log,        \* the batches of the table, in commit order
  answer      \* the last answer of each worker: "none" while it works

Answers == {"none", "ok", "error"}

LogInit ==
  /\ log = <<>>
  /\ answer = [w \in Workers |-> "none"]

\* The batch of w takes effect, at one instant, and at most once.
AppendBatch(w) ==
  /\ Batch[w] \notin ToSet(log)
  /\ log' = Append(log, Batch[w])

\* Worker w answers, or starts over; "ok" is said of a batch in the log.
Answer(w) ==
  \E a \in Answers :
    /\ a = "ok" => Batch[w] \in ToSet(log')
    /\ answer' = [answer EXCEPT ![w] = a]

LogNext ==
  \E w \in Workers :
    \/ AppendBatch(w) /\ Answer(w)
    \/ Answer(w) /\ UNCHANGED log

LogSpec == LogInit /\ [][LogNext]_<<log, answer>>
=============================================================================
