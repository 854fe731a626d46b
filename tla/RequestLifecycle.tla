-------------------------- MODULE RequestLifecycle --------------------------
(***************************************************************************)
(* What background processing promises of one request row, whatever number  *)
(* of executions and processes work on it: it is opened by a submission,    *)
(* started, and then either fails without a summary or gets exactly one     *)
(* summary and, after it, the status "success".  Of a row whose executions  *)
(* overlapped or were cut short less is left: its status may be             *)
(* overwritten, but a stored summary stays and "success" is written after   *)
(* it only.                                                                 *)
(***************************************************************************)
CONSTANT Requests

VARIABLES status, summary, disturbed

Init ==
  /\ status = [r \in Requests |-> "absent"]
  /\ summary = [r \in Requests |-> FALSE]
  /\ disturbed = {}

SetStatus(r, s) == status' = [status EXCEPT ![r] = s] /\ UNCHANGED <<summary, disturbed>>

StoreSummary(r) == summary' = [summary EXCEPT ![r] = TRUE] /\ UNCHANGED status

\* A submission creates the row, or opens it again with the summary it has.
Open(r) == SetStatus(r, "pending")

Start(r) == status[r] \in {"pending", "error"} /\ ~summary[r] /\ SetStatus(r, "processing")

AtWork(r) == status[r] \in {"pending", "processing"}

Fail(r) == AtWork(r) /\ ~summary[r] /\ SetStatus(r, "error")

Store(r) == AtWork(r) /\ ~summary[r] /\ StoreSummary(r) /\ UNCHANGED disturbed

Finish(r) == AtWork(r) /\ summary[r] /\ SetStatus(r, "success")

\* A fault of the rows' executions, which leaves the rows as they are.
Disturb(rows) == disturbed' = disturbed \cup rows /\ UNCHANGED <<status, summary>>

\* The summary is stored, and who stored it does not know.
StoreUnanswered(r) == StoreSummary(r) /\ disturbed' = disturbed \cup {r}

\* Executions at once, or the end of one cut short: their statuses in any order.
Irregular(r) ==
  /\ r \in disturbed
  /\ \/ \E s \in {"processing", "error", "cancelled"} : SetStatus(r, s)
     \/ StoreSummary(r) /\ UNCHANGED disturbed
     \/ summary[r] /\ SetStatus(r, "success")

Next ==
  \/ \E r \in Requests :
       \/ Open(r) \/ Start(r) \/ Fail(r) \/ Store(r) \/ Finish(r)
       \/ StoreUnanswered(r) \/ Irregular(r)
  \/ \E rows \in SUBSET Requests : Disturb(rows)

Spec == Init /\ [][Next]_<<status, summary, disturbed>>
=============================================================================
