------------------------------- MODULE MCTasks -------------------------------
(***************************************************************************)
(* The components that owe something in the end, checked in one run under   *)
(* the fairness of each. They share no state with one another: a behaviour  *)
(* exercises the component it has chosen at its start, and the others stay  *)
(* in their initial states.                                                 *)
(***************************************************************************)
EXTENDS MessageCoalescer, StreamHub, WriteQueue, TaskLock, MediaGroups, SummaryWorkflow,
        CollectionTree

VARIABLE component

Producers == [w \in Writes |-> IF w <= 2 THEN 1 ELSE 2]
BatchKeys == [w \in Writes |-> IF w = 2 THEN NoKey ELSE 1]
Nested == [c \in Collections |-> IF c = 3 THEN 2 ELSE Top]

Components == {"coalescer", "hub", "queue", "lease", "group", "workflow", "tree"}

TasksInit ==
  /\ component \in Components
  /\ Init /\ HubInit /\ QueueInit /\ LeaseInit /\ GroupInit /\ WorkflowInit /\ TreeInit

Acts(c, next, variables) == IF component = c THEN next ELSE UNCHANGED variables

TasksNext ==
  /\ UNCHANGED component
  /\ Acts("coalescer", Next, vars)
  /\ Acts("hub", HubNext, hubVars)
  /\ Acts("queue", QueueNext, queueVars)
  /\ Acts("lease", LeaseNext, leaseVars)
  /\ Acts("group", GroupNext, groupVars)
  /\ Acts("workflow", WorkflowNext, workflowVars)
  /\ Acts("tree", TreeNext, treeVars)

\* The fairness of each component, asked of the one that was chosen.
TasksFairness ==
  /\ WF_vars(component = "coalescer" /\ Dispatch(Drain))
  /\ \A m \in Messages : WF_vars(component = "coalescer" /\ Task(m))
  /\ WF_hubVars(component = "hub" /\ Cleanup)
  /\ \A s \in Subscribers : WF_hubVars(component = "hub" /\ Consume(s))
  /\ WF_queueVars(component = "queue" /\ Worker)
  /\ WF_queueVars(component = "queue" /\ StopResumes)
  /\ WF_queueVars(component = "queue" /\ StopReturns)
  /\ WF_leaseVars(component = "lease" /\ Expire)
  /\ WF_groupVars(component = "group" /\ (SleepsOn \/ Settles))
  /\ \A i \in Items : WF_groupVars(component = "group" /\ WaiterReturns(i))
  /\ \A w \in Workflows : WF_workflowVars(component = "workflow" /\ WorkflowGoesOn(w))
  /\ \A m \in Moves : WF_treeVars(component = "tree" /\ MoveGoesOn(m))

TasksSpec ==
  /\ TasksInit
  /\ [][TasksNext]_<<component, vars, hubVars, queueVars, leaseVars, groupVars, workflowVars, treeVars>>
  /\ TasksFairness

\* The variables of the component that moves keep their types, and its counters their bounds.
TasksTypeOK ==
  CASE component = "coalescer" -> TypeOK [] component = "hub" -> HubTypeOK
    [] component = "queue" -> QueueTypeOK [] component = "lease" -> LeaseTypeOK
    [] component = "group" -> GroupTypeOK
    [] component = "workflow" -> WorkflowTypeOK [] component = "tree" -> TreeTypeOK

\* What the components owe in the end: buffered messages are handed on, streams end,
\* accepted writes are attempted, keys are freed, waiting items return, workflows and moves
\* of collections end.
TasksEnd ==
  /\ BufferedIsHanded /\ TerminalEnds /\ AcceptedIsAttempted /\ KeyIsFreed
  /\ WaitersReturn /\ WorkflowsEnd /\ MovesEnd
=============================================================================
