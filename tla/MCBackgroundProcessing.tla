----------------------- MODULE MCBackgroundProcessing -----------------------
(* Instances of BackgroundProcessing for TLC: executions are model values and  *)
(* interchangeable, users, workers and rows are few.                           *)
EXTENDS BackgroundProcessing, TLC

TaskSymmetry == Permutations(Tasks)

DefaultConfig == {[redis |-> TRUE, required |-> FALSE, skip |-> TRUE]}
LocalConfigs == {[redis |-> FALSE, required |-> FALSE, skip |-> b] : b \in BOOLEAN}
ContestConfigs == DefaultConfig \cup LocalConfigs
AllConfigs == Settings

-----------------------------------------------------------------------------
(* Many executions over one row: with Redis, for all users and with keys that expire      *)
(* early, or without it, for one user and with errors of the database and stops.           *)

ContestBounds ==
  IF config.redis THEN dbFaults = 0 /\ stops = 0
  ELSE \A t \in Tasks : user[t] = CHOOSE u \in Users : TRUE

ContestSpec ==
  /\ Init /\ [][Next /\ ContestBounds']_vars
  /\ \A t \in Tasks : WF_vars(Execution(t))
  /\ \A r \in Requests : WF_vars(KeyExpires(r))
=============================================================================
