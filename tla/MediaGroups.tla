---------------------------- MODULE MediaGroups ----------------------------
(***************************************************************************)
(* MediaGroupCollector (adapters/attachment/media_group_collector.py) for   *)
(* the messages of one album. The first call owns the group: it sleeps one  *)
(* settle delay, and again while items came in its sleep, and returns them  *)
(* all; the other calls wait for it and return nothing. No call awaits      *)
(* while it holds the collector's lock, so each stretch is one step.        *)
(***************************************************************************)
EXTENDS Naturals, FiniteSets

CONSTANTS
  Items,
  NoOwner

ASSUME GroupAssumption == NoOwner \notin Items

VARIABLES
  call,       \* of an item's collect(): "new", "asleep", "waiting", "done", "cancelled"
  current,    \* the owner of the group in _states, or NoOwner
  members,    \* the items of each owner's group
  unsettled,  \* an item came since the owner fell asleep
  ended,      \* the owners whose group's event is set
  returned    \* history: what each owner's call returned

groupVars == <<call, current, members, unsettled, ended, returned>>

GroupTypeOK ==
  /\ call \in [Items -> {"new", "asleep", "waiting", "done", "cancelled"}]
  /\ current \in Items \cup {NoOwner}
  /\ {i \in Items : call[i] = "asleep"} = {current} \ {NoOwner}
  /\ members \in [Items -> SUBSET Items] /\ returned \in [Items -> SUBSET Items]
  /\ unsettled \in BOOLEAN
  /\ ended \subseteq Items

GroupInit ==
  /\ call = [i \in Items |-> "new"]
  /\ current = NoOwner
  /\ members = [i \in Items |-> {}] /\ returned = [i \in Items |-> {}]
  /\ unsettled = FALSE
  /\ ended = {}

Call(i, where) == call' = [call EXCEPT ![i] = where]

FirstItem(i) ==
  /\ call[i] = "new" /\ current = NoOwner
  /\ Call(i, "asleep")
  /\ current' = i
  /\ members' = [members EXCEPT ![i] = {i}]
  /\ unsettled' = FALSE
  /\ UNCHANGED <<ended, returned>>

LaterItem(i) ==
  /\ call[i] = "new" /\ current # NoOwner
  /\ Call(i, "waiting")
  /\ members' = [members EXCEPT ![current] = @ \cup {i}]
  /\ unsettled' = TRUE
  /\ UNCHANGED <<current, ended, returned>>

OwnerAsleep == current # NoOwner /\ call[current] = "asleep"

SleepsOn ==
  /\ OwnerAsleep /\ unsettled
  /\ unsettled' = FALSE
  /\ UNCHANGED <<call, current, members, ended, returned>>

\* Faulty variant of Dissolved: the group stays in _states.
DissolvedNot(owner) == ended' = ended \cup {owner} /\ current' = current

\* The finally: the event is set and the group leaves _states.
Dissolved(owner) == ended' = ended \cup {owner} /\ current' = NoOwner

Settles ==
  /\ OwnerAsleep /\ ~unsettled
  /\ Call(current, "done")
  /\ returned' = [returned EXCEPT ![current] = members[current]]
  /\ Dissolved(current)
  /\ UNCHANGED <<members, unsettled>>

\* Faulty variant of OwnerCancelled: the event is set in the normal case only.
OwnerCancelledSilently ==
  /\ OwnerAsleep
  /\ Call(current, "cancelled")
  /\ current' = NoOwner
  /\ UNCHANGED <<members, unsettled, ended, returned>>

OwnerCancelled ==
  /\ OwnerAsleep
  /\ Call(current, "cancelled")
  /\ Dissolved(current)
  /\ UNCHANGED <<members, unsettled, returned>>

WaiterReturns(i) ==
  /\ call[i] = "waiting"
  /\ \E o \in ended : i \in members[o]
  /\ Call(i, "done")
  /\ UNCHANGED <<current, members, unsettled, ended, returned>>

WaiterCancelled(i) ==
  /\ call[i] = "waiting"
  /\ Call(i, "cancelled")
  /\ UNCHANGED <<current, members, unsettled, ended, returned>>

GroupAtRest == (\A i \in Items : call[i] \in {"done", "cancelled"}) /\ UNCHANGED groupVars

GroupNext ==
  \/ \E i \in Items : \/ FirstItem(i) \/ LaterItem(i)
                      \/ WaiterReturns(i) \/ WaiterCancelled(i)
  \/ SleepsOn \/ Settles \/ OwnerCancelled \/ GroupAtRest

GroupSpec == GroupInit /\ [][GroupNext]_groupVars

-----------------------------------------------------------------------------
(* Properties *)

\* An item that has come in is in the group that is still open, in what exactly
\* one owner returned, or in a group whose owner was cancelled: one that comes
\* while the owner settles is neither lost nor returned twice.
ItemGoesOnce ==
  \A i \in Items : call[i] # "new" =>
    Cardinality({o \in Items : \/ i \in returned[o]
                               \/ i \in members[o] /\ call[o] \in {"asleep", "cancelled"}}) = 1

\* Nobody waits for a group that is over, also when its owner was cancelled.
WaitersReturn == []<>(\A i \in Items : call[i] # "waiting")
=============================================================================
