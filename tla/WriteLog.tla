------------------------------ MODULE WriteLog ------------------------------
(***************************************************************************)
(* What the database write queue promises: accepted writes are attempted in *)
(* the order in which they were accepted, each once, none passed over; a    *)
(* worker that has ended attempts nothing more.                             *)
(***************************************************************************)
EXTENDS Naturals, Sequences

CONSTANT Writes

VARIABLES log, done, open

logVars == <<log, done, open>>

LogInit == log = <<>> /\ done = <<>> /\ open = TRUE

Accept(w) == log' = Append(log, w) /\ UNCHANGED <<done, open>>

\* The next accepted writes, together.
Attempt ==
  /\ open
  /\ \E n \in Len(done) + 1..Len(log) : done' = SubSeq(log, 1, n)
  /\ UNCHANGED <<log, open>>

End == open' = FALSE /\ UNCHANGED <<log, done>>

\* The attempt with which the worker ends, of its own or at its time limit.
LastAttempt ==
  /\ open /\ open' = FALSE
  /\ \E n \in Len(done) + 1..Len(log) : done' = SubSeq(log, 1, n)
  /\ UNCHANGED log

LogNext == (\E w \in Writes : Accept(w)) \/ Attempt \/ End \/ LastAttempt

LogSpec == LogInit /\ [][LogNext]_logVars
=============================================================================
