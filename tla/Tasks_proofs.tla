---------------------------- MODULE Tasks_proofs ----------------------------
(***************************************************************************)
(* The lock around scheduled tasks, the collector of media groups, the      *)
(* summary workflows and the tree of collections, for any number of runs,   *)
(* items, workflows, permits, collections and calls; and that the run of    *)
(* all components keeps their types.                                        *)
(***************************************************************************)
EXTENDS MCTasks, MessageCoalescer_proofs, StreamHub_proofs, WriteQueue_proofs, FiniteSetTheorems,
        WellFoundedInduction, TLAPS

-----------------------------------------------------------------------------
(* TaskLock *)

\* A run that came in through the lock owns the key until it lapses.
OwnsItsKey == \A r \in Runs : how[r] = "lock" /\ r \notin lapsed => key = r

\* A run that works under its key has kept its token.
KeepsItsToken == \A r \in Runs : key = r /\ stage[r] = "working" => HasToken(r)

LeaseInv == LeaseTypeOK /\ OwnsItsKey /\ KeepsItsToken /\ KeyNotLeftBehind

\* Nobody has the lock at first.
LEMMA LeaseInvInit == LeaseInit => LeaseInv
BY LeaseAssumption DEF LeaseInit, LeaseInv, LeaseTypeOK, OwnsItsKey, KeepsItsToken, KeyNotLeftBehind, Working

\* Entry, exit, expiry and the death of a run keep the invariant.
LEMMA LeaseInvNext == LeaseInv /\ [LeaseNext]_leaseVars => LeaseInv'
<1> SUFFICES ASSUME LeaseInv, [LeaseNext]_leaseVars PROVE LeaseInv'
  OBVIOUS
<1> USE LeaseAssumption DEF LeaseInv, LeaseTypeOK, OwnsItsKey, KeepsItsToken, KeyNotLeftBehind,
                            Working, HasToken
<1>1. ASSUME NEW r \in Runs, EnterWithoutRedis(r) PROVE LeaseInv'
  BY <1>1 DEF EnterWithoutRedis, ComesIn
<1>2. ASSUME NEW r \in Runs, Enter(r) PROVE LeaseInv'
  BY <1>2 DEF Enter, ComesIn, SetNX
<1>3. ASSUME NEW r \in Runs, EnterRefused(r) PROVE LeaseInv'
  BY <1>3 DEF EnterRefused, SetNX
<1>4. ASSUME NEW r \in Runs, EnterFails(r) PROVE LeaseInv'
  BY <1>4 DEF EnterFails, ComesIn, SetNX
<1>5. ASSUME NEW r \in Runs, EnterCancelled(r) PROVE LeaseInv'
  BY <1>5 DEF EnterCancelled, SetNX
<1>6. ASSUME NEW r \in Runs, LeaveLock(r) PROVE LeaseInv'
  BY <1>6 DEF LeaveLock, GoesOut, Freed
<1>7. ASSUME NEW r \in Runs, LeaveFails(r) PROVE LeaseInv'
  BY <1>7 DEF LeaveFails, GoesOut, Freed
<1>8. ASSUME NEW r \in Runs, Dies(r) PROVE LeaseInv'
  BY <1>8 DEF Dies, GoesOut
<1>9. CASE Expire
  BY <1>9 DEF Expire
<1>10. CASE UNCHANGED leaseVars
  BY <1>10 DEF leaseVars
<1> QED
  BY <1>1, <1>2, <1>3, <1>4, <1>5, <1>6, <1>7, <1>8, <1>9, <1>10 DEF LeaseNext, LeaseAtRest

\* Whoever works under the lock excludes the others until its key lapses, and no key is
\* left behind by a run that could release it.
THEOREM LeaseSafe == LeaseSpec => []LeaseIsSafe
<1>1. LeaseInv => LeaseIsSafe
  BY DEF LeaseInv, LeaseTypeOK, OwnsItsKey, LeaseIsSafe, OverlapHasACause, Working
<1> QED BY LeaseInvInit, LeaseInvNext, <1>1, PTL DEF LeaseSpec

-----------------------------------------------------------------------------
(* MediaGroups *)

\* Only an owner has members, it is one of them, and they are what it returned once it is done.
OwnersReturnMembers ==
  \A o \in Items :
    /\ returned[o] # {} => call[o] = "done" /\ returned[o] = members[o]
    /\ members[o] # {} => \/ call[o] \in {"asleep", "cancelled"}
                          \/ call[o] = "done" /\ returned[o] = members[o]

\* An item joins one group, when it comes in.
InOneGroup ==
  /\ \A i, o \in Items : call[i] = "new" => i \notin members[o]
  /\ \A i \in Items : call[i] # "new" => \E o \in Items : i \in members[o]
  /\ \A i, o, p \in Items : i \in members[o] /\ i \in members[p] => o = p

GroupInv == GroupTypeOK /\ OwnersReturnMembers /\ InOneGroup

\* The group has no items and no owner at first.
LEMMA GroupInvInit == GroupInit => GroupInv
BY GroupAssumption DEF GroupInit, GroupInv, GroupTypeOK, OwnersReturnMembers, InOneGroup

\* Every call, its wait, its cancellation and the hand-over keep the invariant.
LEMMA GroupInvNext == GroupInv /\ [GroupNext]_groupVars => GroupInv'
<1> SUFFICES ASSUME GroupInv, [GroupNext]_groupVars PROVE GroupInv'
  OBVIOUS
<1> USE GroupAssumption DEF GroupInv, GroupTypeOK, OwnersReturnMembers, InOneGroup, Call, OwnerAsleep
<1>1. ASSUME NEW i \in Items, FirstItem(i) PROVE GroupInv'
  <2> USE <1>1 DEF FirstItem
  <2>1. GroupTypeOK'
    <3>1. {j \in Items : call[j] = "asleep"} = {}
      OBVIOUS
    <3>2. \A j \in Items : call'[j] = "asleep" <=> j = i
      BY <3>1
    <3>3. {j \in Items : call'[j] = "asleep"} = {current'} \ {NoOwner}
      BY <3>2
    <3>4. call' \in [Items -> {"new", "asleep", "waiting", "done", "cancelled"}] /\ current' \in Items
      OBVIOUS
    <3>5. members' \in [Items -> SUBSET Items] /\ unsettled' \in BOOLEAN
      OBVIOUS
    <3>6. returned' \in [Items -> SUBSET Items] /\ ended' \subseteq Items
      OBVIOUS
    <3> HIDE <1>1 DEF FirstItem, GroupInv, OwnersReturnMembers, InOneGroup, Call, OwnerAsleep
    <3> QED BY <3>3, <3>4, <3>5, <3>6 DEF GroupTypeOK
  <2>2. OwnersReturnMembers'
    OBVIOUS
  <2>3. InOneGroup'
    OBVIOUS
  <2> QED BY <2>1, <2>2, <2>3
<1>2. ASSUME NEW i \in Items, LaterItem(i) PROVE GroupInv'
  BY <1>2 DEF LaterItem
<1>3. ASSUME NEW i \in Items, WaiterReturns(i) PROVE GroupInv'
  BY <1>3 DEF WaiterReturns
<1>4. ASSUME NEW i \in Items, WaiterCancelled(i) PROVE GroupInv'
  BY <1>4 DEF WaiterCancelled
<1>5. CASE SleepsOn
  BY <1>5 DEF SleepsOn
<1>6. CASE Settles
  BY <1>6 DEF Settles, Dissolved
<1>7. CASE OwnerCancelled
  BY <1>7 DEF OwnerCancelled, Dissolved
<1>8. CASE UNCHANGED groupVars
  BY <1>8 DEF groupVars
<1> QED
  BY <1>1, <1>2, <1>3, <1>4, <1>5, <1>6, <1>7, <1>8 DEF GroupNext, GroupAtRest

\* Every item that has come in is returned by one owner, or is in the open group or in
\* that of a cancelled owner, and in no second one.
THEOREM ItemsGoOnce == GroupSpec => []ItemGoesOnce
<1>1. ASSUME GroupInv PROVE ItemGoesOnce
  <2> SUFFICES ASSUME NEW i \in Items, call[i] # "new"
               PROVE  Cardinality({o \in Items :
                        \/ i \in returned[o]
                        \/ i \in members[o] /\ call[o] \in {"asleep", "cancelled"}}) = 1
    BY DEF ItemGoesOnce
  <2>1. PICK p \in Items : i \in members[p]
    BY <1>1 DEF GroupInv, InOneGroup
  <2>2. {o \in Items : \/ i \in returned[o]
                       \/ i \in members[o] /\ call[o] \in {"asleep", "cancelled"}} = {p}
    BY <1>1, <2>1 DEF GroupInv, GroupTypeOK, OwnersReturnMembers, InOneGroup
  <2> QED BY <2>2, FS_Singleton
<1> QED BY GroupInvInit, GroupInvNext, <1>1, PTL DEF GroupSpec

-----------------------------------------------------------------------------
(* SummaryWorkflow *)

\* The places that a workflow goes on to, but for a call, which takes a permit, and its end.
Stops == {"slot", "record", "recordTimeout", "parse", "callFailed", "repairFailed", "persist", "allFailed"}

\* A workflow goes on to one of them.
GoesOn(w) ==
  /\ \E stop \in Stops : awaits' = [awaits EXCEPT ![w] = stop]
  /\ purpose' \in [Workflows -> {"summary", "repair", "refill", "metadata"}]
  /\ try' \in [Workflows -> 1..MaxTries]
  /\ result' = result

\* Every permit is free or with a call, of which there are finitely many.
PermitsHeld == IsFiniteSet(Calling) /\ PermitsBalanced

\* A workflow whose summary is stored, as it knows, does nothing more.
StoredHasEnded == \A w \in Workflows : w \in summarized => awaits[w] = "ended" \/ w \in doubted

WorkflowInv == WorkflowTypeOK /\ PermitsHeld /\ VerdictIsTrue /\ StoredIsCompleted /\ StoredHasEnded

\* Nothing is requested, recorded or stored at first.
LEMMA WorkflowInvInit == WorkflowInit => WorkflowInv
<1> SUFFICES ASSUME WorkflowInit PROVE WorkflowInv
  OBVIOUS
<1> USE WorkflowAssumption DEF WorkflowInit
<1>1. Calling = {}
  BY DEF Calling
<1>2. PermitsHeld
  BY <1>1, FS_EmptySet DEF PermitsHeld, PermitsBalanced
<1>3. WorkflowTypeOK
  BY DEF WorkflowTypeOK
<1> QED BY <1>2, <1>3 DEF WorkflowInv, VerdictIsTrue, StoredIsCompleted, StoredHasEnded

\* However a workflow decides where to go on, it goes to one of the stops.
LEMMA WaysOn ==
  ASSUME WorkflowTypeOK, NEW w \in Workflows
  PROVE  /\ \A stop \in Stops : GoTo(w, stop) => GoesOn(w)
         /\ NextTry(w) => GoesOn(w)
         /\ Finalize(w) => GoesOn(w)
         /\ Accept(w) => GoesOn(w)
         /\ AfterTimeout(w) => GoesOn(w)
         /\ \A reason \in {"summary", "repair", "refill", "metadata"} : AskFor(w, reason) => GoesOn(w)
<1> USE WorkflowAssumption
<1>1. ASSUME NEW stop \in Stops, GoTo(w, stop) PROVE GoesOn(w)
  BY <1>1 DEF GoTo, GoesOn, WorkflowTypeOK
<1>2. ASSUME NEW reason \in {"summary", "repair", "refill", "metadata"}, AskFor(w, reason)
      PROVE  GoesOn(w)
  BY <1>2 DEF AskFor, GoesOn, WorkflowTypeOK, Stops
<1>3. ASSUME NextTry(w) PROVE GoesOn(w)
  <2>1. CASE try[w] < MaxTries
    <3>1. try[w] + 1 \in 1..MaxTries
      BY <2>1 DEF WorkflowTypeOK
    <3>2. try' \in [Workflows -> 1..MaxTries] /\ purpose' \in [Workflows -> {"summary", "repair", "refill", "metadata"}]
      BY <1>3, <2>1, <3>1 DEF NextTry, WorkflowTypeOK
    <3> QED BY <1>3, <2>1, <3>2 DEF NextTry, GoesOn, Stops
  <2>2. CASE ~(try[w] < MaxTries)
    BY <1>1, <1>3, <2>2 DEF NextTry, Stops
  <2> QED BY <2>1, <2>2
<1>4. Finalize(w) => GoesOn(w)
  BY <1>1, <1>2, <1>3 DEF Finalize, Stops
<1> QED BY <1>1, <1>2, <1>3, <1>4 DEF Accept, AfterTimeout, Stops

\* A workflow that leaves a call gives its permit back, another one has none to give.
LEMMA PermitsKept ==
  ASSUME WorkflowInv, NEW w \in Workflows, NEW stop, stop # "call",
         awaits' = [awaits EXCEPT ![w] = stop], permits' = PermitsAfter(w)
  PROVE  PermitsHeld' /\ permits' \in 0..MaxCalls
<1> USE WorkflowAssumption DEF WorkflowInv
<1>1. IsFiniteSet(Calling) /\ permits + Cardinality(Calling) = MaxCalls /\ permits \in Nat
      /\ Cardinality(Calling) \in Nat
  BY FS_CardinalityType DEF PermitsHeld, PermitsBalanced, WorkflowTypeOK
<1>2. CASE awaits[w] = "call"
  <2>1. Calling' = Calling \ {w} /\ w \in Calling
    BY <1>2 DEF Calling, WorkflowTypeOK
  <2>2. IsFiniteSet(Calling') /\ Cardinality(Calling') = Cardinality(Calling) - 1
    BY <1>1, <2>1, FS_RemoveElement
  <2>3. permits' = permits + 1 /\ Cardinality(Calling') \in Nat
    BY <1>2, <2>2, FS_CardinalityType DEF PermitsAfter
  <2> QED BY <1>1, <2>2, <2>3 DEF PermitsHeld, PermitsBalanced
<1>3. CASE awaits[w] # "call"
  <2>1. Calling' = Calling /\ permits' = permits
    BY <1>3 DEF Calling, PermitsAfter, WorkflowTypeOK
  <2> QED BY <1>1, <2>1 DEF PermitsHeld, PermitsBalanced
<1> QED BY <1>2, <1>3

\* A workflow that goes on and touches neither rows nor messages.
LEMMA GoesOnInv ==
  ASSUME WorkflowInv, NEW w \in Workflows, awaits[w] # "ended", GoesOn(w),
         permits' = PermitsAfter(w), UNCHANGED <<requestRow, Kept, lostWrites>>
  PROVE  WorkflowInv'
<1> USE DEF WorkflowInv, Kept
<1>1. PICK stop \in Stops : awaits' = [awaits EXCEPT ![w] = stop]
  BY DEF GoesOn
<1>2. PermitsHeld' /\ permits' \in 0..MaxCalls
  BY <1>1, PermitsKept DEF Stops
<1>3. WorkflowTypeOK'
  BY <1>1, <1>2 DEF GoesOn, WorkflowTypeOK, Stops
<1>4. VerdictIsTrue' /\ StoredIsCompleted'
  BY DEF GoesOn, VerdictIsTrue, StoredIsCompleted
<1>5. StoredHasEnded'
  BY <1>1 DEF StoredHasEnded, WorkflowTypeOK
<1> QED BY <1>2, <1>3, <1>4, <1>5

\* A workflow that marks its row as an error, or fails to, and goes on.
LEMMA FailsInv ==
  ASSUME WorkflowInv, NEW w \in Workflows, awaits[w] \in {"callFailed", "repairFailed"},
         MarksError(w), NextTry(w), UNCHANGED <<permits, Kept>>
  PROVE  WorkflowInv'
<1> USE WorkflowAssumption DEF WorkflowInv, Kept
<1>0. GoesOn(w)
  BY WaysOn
<1>1. PICK stop \in Stops : awaits' = [awaits EXCEPT ![w] = stop]
  BY <1>0 DEF GoesOn
<1>2. PermitsHeld' /\ permits' \in 0..MaxCalls
  <2>1. permits' = PermitsAfter(w)
    BY DEF PermitsAfter
  <2> QED BY <1>1, <2>1, PermitsKept DEF Stops
<1>3. /\ lostWrites' \in 0..MaxLostWrites
      /\ requestRow' \in {requestRow, [requestRow EXCEPT ![w] = "error"]}
  BY DEF MarksError, WriteRaises, WorkflowTypeOK
<1>4. WorkflowTypeOK'
  BY <1>0, <1>1, <1>2, <1>3 DEF GoesOn, WorkflowTypeOK, Stops
<1>5. VerdictIsTrue'
  BY <1>0, <1>3 DEF GoesOn, VerdictIsTrue, WorkflowTypeOK
<1>6. StoredIsCompleted'
  BY <1>3 DEF StoredIsCompleted, StoredHasEnded, WorkflowTypeOK
<1>7. StoredHasEnded'
  BY <1>1 DEF StoredHasEnded, WorkflowTypeOK
<1> QED BY <1>2, <1>4, <1>5, <1>6, <1>7

\* Every step of the workflow and each of its failures keep the invariant.
LEMMA WorkflowInvNext == WorkflowInv /\ [WorkflowNext]_workflowVars => WorkflowInv'
<1> SUFFICES ASSUME WorkflowInv, [WorkflowNext]_workflowVars PROVE WorkflowInv'
  OBVIOUS
<1> USE WorkflowAssumption DEF WorkflowInv
<1>1. ASSUME NEW w \in Workflows, Start(w) PROVE WorkflowInv'
  BY <1>1, WaysOn, GoesOnInv DEF Start, PermitsAfter
<1>2. ASSUME NEW w \in Workflows, TakePermit(w) PROVE WorkflowInv'
  <2> USE <1>2 DEF TakePermit, GoTo, Kept
  <2>1. Calling' = Calling \cup {w} /\ w \notin Calling
    BY DEF Calling, WorkflowTypeOK
  <2>2. IsFiniteSet(Calling') /\ Cardinality(Calling') = Cardinality(Calling) + 1
        /\ Cardinality(Calling) \in Nat
    BY <2>1, FS_AddElement, FS_CardinalityType DEF PermitsHeld
  <2>3. permits' \in 0..MaxCalls /\ PermitsHeld'
    BY <2>2 DEF PermitsHeld, PermitsBalanced, WorkflowTypeOK
  <2>4. WorkflowTypeOK'
    BY <2>3 DEF WorkflowTypeOK
  <2> QED BY <2>3, <2>4 DEF VerdictIsTrue, StoredIsCompleted, StoredHasEnded, WorkflowTypeOK
<1>3. ASSUME NEW w \in Workflows, SlotTimesOut(w) PROVE WorkflowInv'
  BY <1>3, WaysOn, GoesOnInv DEF SlotTimesOut, PermitsAfter
<1>4. ASSUME NEW w \in Workflows, CallReturns(w) \/ CallTimesOut(w) PROVE WorkflowInv'
  <2>1. awaits[w] = "call" /\ permits' = PermitsAfter(w) /\ UNCHANGED <<requestRow, Kept, lostWrites>>
    BY <1>4 DEF CallReturns, CallTimesOut
  <2>2. GoesOn(w)
    BY <1>4, WaysOn DEF CallReturns, CallTimesOut, Stops
  <2> QED BY <2>1, <2>2, GoesOnInv
<1>5. ASSUME NEW w \in Workflows, CallRaises(w) PROVE WorkflowInv'
  <2>1. awaits[w] = "call" /\ permits' = PermitsAfter(w) /\ UNCHANGED <<requestRow, Kept, lostWrites>>
    BY <1>5 DEF CallRaises
  <2>2. CASE purpose[w] # "summary"
    BY <1>5, <2>1, <2>2, WaysOn, GoesOnInv DEF CallRaises
  <2>3. CASE purpose[w] = "summary"
    <3>1. /\ awaits' = [awaits EXCEPT ![w] = "ended"]
          /\ result' = [result EXCEPT ![w] = "raised"] /\ UNCHANGED <<purpose, try>>
      BY <1>5, <2>3 DEF CallRaises, End
    <3>2. PermitsHeld' /\ permits' \in 0..MaxCalls
      BY <2>1, <3>1, PermitsKept
    <3> QED BY <2>1, <3>1, <3>2 DEF Kept, WorkflowTypeOK, VerdictIsTrue, StoredIsCompleted, StoredHasEnded
  <2> QED BY <2>2, <2>3
<1>6. ASSUME NEW w \in Workflows, Record(w) \/ RecordTimeout(w) \/ Parse(w) PROVE WorkflowInv'
  <2>1. /\ awaits[w] \in {"record", "recordTimeout", "parse"} /\ permits' = PermitsAfter(w)
        /\ UNCHANGED <<requestRow, Kept, lostWrites>>
    BY <1>6 DEF Record, RecordTimeout, Parse, PermitsAfter
  <2>2. GoesOn(w)
    BY <1>6, WaysOn DEF Record, RecordTimeout, Parse, Stops
  <2> QED BY <2>1, <2>2, GoesOnInv
<1>7. ASSUME NEW w \in Workflows, CallFailed(w) PROVE WorkflowInv'
  BY <1>7, FailsInv DEF CallFailed
<1>8. ASSUME NEW w \in Workflows, RepairFailed(w) PROVE WorkflowInv'
  BY <1>8, FailsInv DEF RepairFailed
<1>9. ASSUME NEW w \in Workflows, AllFailed(w) PROVE WorkflowInv'
  <2> USE <1>9 DEF AllFailed, MarksError, WriteRaises, End, Kept
  <2>1. awaits' = [awaits EXCEPT ![w] = "ended"] /\ permits' = PermitsAfter(w)
    BY DEF PermitsAfter
  <2>2. PermitsHeld' /\ permits' \in 0..MaxCalls
    BY <2>1, PermitsKept
  <2>3. \/ /\ requestRow' = [requestRow EXCEPT ![w] = "error"] /\ lostWrites' = lostWrites
           /\ result' = [result EXCEPT ![w] = "nothing"]
        \/ /\ lostWrites' \in 0..MaxLostWrites /\ UNCHANGED requestRow
           /\ result' = [result EXCEPT ![w] = "raised"]
    BY DEF WorkflowTypeOK
  <2>4. WorkflowTypeOK'
    BY <2>1, <2>2, <2>3 DEF WorkflowTypeOK
  <2>5. VerdictIsTrue'
    BY <2>3 DEF VerdictIsTrue, WorkflowTypeOK
  <2>6. StoredIsCompleted' /\ StoredHasEnded'
    BY <2>1, <2>3 DEF StoredIsCompleted, StoredHasEnded, WorkflowTypeOK
  <2> QED BY <2>2, <2>4, <2>5, <2>6
<1>10. ASSUME NEW w \in Workflows, Persist(w) PROVE WorkflowInv'
  <2> USE <1>10 DEF Persist, Stores, End
  <2>1. PermitsHeld' /\ permits' \in 0..MaxCalls
    BY PermitsKept DEF PermitsAfter
  <2>2. WorkflowTypeOK'
    BY <2>1 DEF WorkflowTypeOK
  <2> QED BY <2>1, <2>2 DEF VerdictIsTrue, StoredIsCompleted, StoredHasEnded, WorkflowTypeOK
<1>11. ASSUME NEW w \in Workflows, PersistRaises(w) PROVE WorkflowInv'
  <2> USE <1>11 DEF PersistRaises, WriteRaises, Kept
  <2>0. GoesOn(w)
    BY WaysOn
  <2>1. PICK stop \in Stops : awaits' = [awaits EXCEPT ![w] = stop]
    BY <2>0 DEF GoesOn
  <2>2. PermitsHeld' /\ permits' \in 0..MaxCalls
    BY <2>1, PermitsKept DEF Stops, PermitsAfter
  <2>3. /\ lostWrites' \in 0..MaxLostWrites
        /\ \/ UNCHANGED <<requestRow, summarized, doubted>>
           \/ /\ summarized' = summarized \cup {w} /\ doubted' = doubted \cup {w}
              /\ requestRow' = [requestRow EXCEPT ![w] = "completed"]
    BY DEF Stores, WorkflowTypeOK
  <2>4. WorkflowTypeOK'
    BY <2>0, <2>1, <2>2, <2>3 DEF GoesOn, WorkflowTypeOK, Stops
  <2>5. VerdictIsTrue' /\ StoredIsCompleted'
    BY <2>0, <2>3 DEF GoesOn, VerdictIsTrue, StoredIsCompleted, WorkflowTypeOK
  <2>6. StoredHasEnded'
    BY <2>1, <2>3 DEF StoredHasEnded, WorkflowTypeOK
  <2> QED BY <2>2, <2>4, <2>5, <2>6
<1>12. ASSUME NEW w \in Workflows, Cancelled(w) PROVE WorkflowInv'
  <2> USE <1>12 DEF Cancelled, End
  <2>1. PermitsHeld' /\ permits' \in 0..MaxCalls
    BY PermitsKept
  <2>2. \/ UNCHANGED <<requestRow, summarized>>
        \/ summarized' = summarized \cup {w} /\ requestRow' = [requestRow EXCEPT ![w] = "completed"]
        \/ /\ awaits[w] # "ended" /\ UNCHANGED summarized
           /\ requestRow' = [requestRow EXCEPT ![w] = "error"]
    BY DEF Stores
  <2>3. WorkflowTypeOK'
    BY <2>1, <2>2 DEF WorkflowTypeOK
  <2>4. VerdictIsTrue'
    BY <2>2 DEF VerdictIsTrue, WorkflowTypeOK
  <2>5. StoredIsCompleted' /\ StoredHasEnded'
    BY <2>2 DEF StoredIsCompleted, StoredHasEnded, WorkflowTypeOK
  <2> QED BY <2>1, <2>3, <2>4, <2>5
<1>13. CASE UNCHANGED workflowVars
  BY <1>13 DEF workflowVars, WorkflowTypeOK, PermitsHeld, PermitsBalanced, Calling, VerdictIsTrue,
               StoredIsCompleted, StoredHasEnded
<1> QED
  BY <1>1, <1>2, <1>3, <1>4, <1>5, <1>6, <1>7, <1>8, <1>9, <1>10, <1>11, <1>12, <1>13
  DEF WorkflowNext, WorkflowGoesOn, WorkflowsAtRest

\* However calls end, the semaphore loses no permit; what a workflow returns is what the
\* rows and the message say, and a stored summary keeps its completed row unless the answer
\* of its commit was lost.
THEOREM WorkflowTrue == WorkflowSpec => []WorkflowIsTrue
<1>1. WorkflowInv => WorkflowIsTrue
  BY DEF WorkflowInv, PermitsHeld, WorkflowIsTrue
<1> QED BY WorkflowInvInit, WorkflowInvNext, <1>1, PTL DEF WorkflowSpec

-----------------------------------------------------------------------------
(* CollectionTree *)

\* A set of numbers that holds 0 and with each number the next one holds all.
LEMMA AllNumbers ==
  ASSUME NEW S \in SUBSET Nat, 0 \in S, \A n \in S : n + 1 \in S
  PROVE  S = Nat
<1> DEFINE R == {ss \in Nat \X Nat : ss[1] < ss[2]}
<1>1. SUFFICES ASSUME Nat \ S # {} PROVE FALSE
  OBVIOUS
<1>2. IsWellFoundedOn(R, Nat)
  BY NatLessThanWellFounded DEF OpToRel
<1>3. PICK n \in Nat \ S : \A m \in Nat \ S : <<m, n>> \notin R
  <2> HIDE DEF R
  <2>. QED BY <1>1, <1>2, WFMin
<1>4. n # 0 /\ n - 1 \in Nat /\ <<n - 1, n>> \in R
  BY <1>3
<1>5. n - 1 \in S
  BY <1>3, <1>4
<1>. QED BY <1>3, <1>4, <1>5

\* Where a climb from x stands one level up.
Above(x) == IF x = Top \/ x \in gone THEN Top ELSE parent[x]

\* The ancestors are the steps of a climb.
LEMMA AncestorSteps ==
  ASSUME TreeTypeOK, NEW c \in Collections
  PROVE  /\ Ancestor(c) \in [0..Cardinality(Collections) -> Parents]
         /\ Ancestor(c)[0] = c
         /\ \A n \in 1..Cardinality(Collections) : Ancestor(c)[n] = Above(Ancestor(c)[n - 1])
<1>1. PICK K : K = Cardinality(Collections)
  OBVIOUS
<1>2. K \in Nat
  BY <1>1, TreeAssumption, FS_CardinalityType
<1> DEFINE Climbs(g, k) == /\ g \in [0..k -> Parents] /\ g[0] = c
                           /\ \A n \in 1..k : g[n] = Above(g[n - 1])
           S == {k \in Nat : \E g : Climbs(g, k)}
<1>3. \A x \in Parents : Above(x) \in Parents
  BY DEF Above, Parents, TreeTypeOK
<1>4. 0 \in S
  <2>1. Climbs([n \in 0..0 |-> c], 0)
    BY DEF Parents
  <2>. QED BY <2>1
<1>5. ASSUME NEW k \in S PROVE k + 1 \in S
  <2>1. PICK g : Climbs(g, k)
    OBVIOUS
  <2>2. PICK h : h = [n \in 0..(k + 1) |-> IF n = k + 1 THEN Above(g[k]) ELSE g[n]]
    OBVIOUS
  <2>3. h \in [0..(k + 1) -> Parents]
    BY <1>3, <2>1, <2>2
  <2>4. h[0] = c
    BY <2>1, <2>2
  <2>5. ASSUME NEW n \in 1..(k + 1) PROVE h[n] = Above(h[n - 1])
    <3>1. CASE n = k + 1
      BY <2>2, <3>1
    <3>2. CASE n # k + 1
      <4>1. n \in 1..k /\ n - 1 \in 0..k
        BY <3>2
      <4>2. h[n] = g[n] /\ h[n - 1] = g[n - 1]
        BY <2>2, <4>1
      <4>. QED BY <2>1, <4>1, <4>2
    <3>. QED BY <3>1, <3>2
  <2>. QED BY <2>3, <2>4, <2>5
<1>6. PICK g : Climbs(g, K)
  <2>1. S \in SUBSET Nat
    OBVIOUS
  <2>2. S = Nat
    <3> HIDE DEF S
    <3>. QED BY <1>4, <1>5, <2>1, AllNumbers
  <2>. QED BY <1>2, <2>2
<1> DEFINE Rule(f) == [n \in 0..K |-> IF n = 0 THEN c ELSE Above(f[n - 1])]
<1>7. g = Rule(g)
  BY <1>2, <1>6
<1>8. Ancestor(c) = Rule(Ancestor(c))
  <2>1. Ancestor(c) = CHOOSE f : f = Rule(f)
    BY <1>1 DEF Ancestor, Above
  <2> HIDE DEF Rule
  <2>. QED BY <1>7, <2>1
<1>9. PICK a : a = Ancestor(c)
  OBVIOUS
<1>10. /\ a = [n \in 0..K |-> a[n]] /\ a[0] = c
       /\ \A n \in 1..K : a[n] = Above(a[n - 1])
  BY <1>2, <1>8, <1>9
<1> DEFINE T == {n \in Nat : n <= K => a[n] \in Parents}
<1>11. T = Nat
  <2>1. 0 \in T
    BY <1>10 DEF Parents
  <2>2. ASSUME NEW n \in T PROVE n + 1 \in T
    <3>1. SUFFICES ASSUME n + 1 <= K PROVE a[n + 1] \in Parents
      OBVIOUS
    <3>2. n + 1 \in 1..K /\ a[n] \in Parents /\ (n + 1) - 1 = n
      BY <1>2, <3>1
    <3>. QED BY <1>3, <1>10, <3>2
  <2>3. T \in SUBSET Nat
    OBVIOUS
  <2> HIDE DEF T
  <2>. QED BY <2>1, <2>2, <2>3, AllNumbers
<1>12. \A n \in 0..K : a[n] \in Parents
  BY <1>2, <1>11
<1>. QED BY <1>1, <1>9, <1>10, <1>12

\* A depth that grows along every link that was written in sight of the whole tree.
Deepens(depth) ==
  \A c \in Collections \ (gone \cup unseen) :
    parent[c] = Top \/ parent[c] \in gone \/ depth[parent[c]] < depth[c]

Sighted == \E depth \in [Collections -> Nat] : Deepens(depth)

\* What a move has climbed through: U holds the new parent and not the collection that
\* moves, and leads on within itself, but for the place where the climb stands.
Climbed(U, of, to, at) ==
  /\ to \in U /\ of \notin U
  /\ \A c \in U : c = at \/ parent[c] \in U \cup gone \cup {Top}

\* A move that no other call has disturbed knows the tree it has seen.
MoveFits(m) ==
  /\ relink[m].stage \in {"load", "climb", "write"} => relink[m].of \in Collections
  /\ relink[m].stage = "load" => relink[m].to \in Collections
  /\ relink[m].stage = "climb" /\ m \notin disturbedMoves =>
       /\ relink[m].to \in Collections /\ relink[m].toParent = parent[relink[m].to]
       /\ relink[m].at \in Collections /\ relink[m].above = parent[relink[m].at]
       /\ \E U \in SUBSET Collections :
            relink[m].at \in U /\ Climbed(U, relink[m].of, relink[m].to, relink[m].at)
  /\ relink[m].stage = "write" /\ m \notin disturbedMoves /\ relink[m].to # Top =>
       \E U \in SUBSET Collections : Climbed(U, relink[m].of, relink[m].to, Top)

UpdateFits(u) ==
  relink[u].stage \in {"load", "write"} => relink[u].of \in Collections /\ relink[u].to \in Collections

TreeInv ==
  /\ TreeTypeOK /\ Sighted
  /\ \A m \in Moves : MoveFits(m)
  /\ \A u \in Updates : UpdateFits(u) /\ relink[u].stage # "climb"

\* The tree at the start has a depth.
LEMMA TreeInvInit == TreeInit => TreeInv
<1>. SUFFICES ASSUME TreeInit PROVE TreeInv
  OBVIOUS
<1>1. TreeTypeOK
  <2>1. gone \subseteq Collections /\ Cardinality(gone) <= MaxDeleted
    BY TreeAssumption, FS_EmptySet DEF TreeInit
  <2>. QED BY <2>1, TreeAssumption DEF TreeInit, TreeTypeOK, Undone, Parents
<1>2. Sighted
  <2>1. PICK depth \in [Collections -> 0..Cardinality(Collections)] :
          \A c \in Collections : FirstParents[c] # Top => depth[FirstParents[c]] < depth[c]
    BY TreeAssumption
  <2>2. Cardinality(Collections) \in Nat
    BY TreeAssumption, FS_CardinalityType
  <2>3. depth \in [Collections -> Nat]
    BY <2>1, <2>2
  <2>4. Deepens(depth)
    BY <2>1 DEF TreeInit, Deepens
  <2>. QED BY <2>3, <2>4 DEF Sighted
<1>3. \A c \in Calls : relink[c].stage = "new"
  BY DEF TreeInit, Undone
<1>. QED BY <1>1, <1>2, <1>3 DEF TreeInv, MoveFits, UpdateFits, Calls

\* A link that is out of sight puts no demand on the depth.
LEMMA UnseenLink ==
  ASSUME TreeTypeOK, Sighted, NEW of \in Collections, NEW to \in Parents,
         parent' = [parent EXCEPT ![of] = to], unseen' = unseen \cup {of}, gone' = gone
  PROVE  Sighted'
<1>1. PICK depth \in [Collections -> Nat] : Deepens(depth)
  BY DEF Sighted
<1>2. Deepens(depth)'
  BY <1>1 DEF Deepens, TreeTypeOK
<1>. QED BY <1>2 DEF Sighted

\* A link to a place from where the climb does not come back: what is not above that place
\* is put deeper than it.
LEMMA SeenLink ==
  ASSUME TreeTypeOK, Sighted, NEW of \in Collections, NEW to \in Collections,
         NEW U \in SUBSET Collections, Climbed(U, of, to, Top),
         parent' = [parent EXCEPT ![of] = to], unseen' = unseen \ {of}, gone' = gone
  PROVE  Sighted'
<1>1. PICK depth \in [Collections -> Nat] : Deepens(depth)
  BY DEF Sighted
<1>2. PICK deeper : deeper = [c \in Collections |-> IF c \in U THEN depth[c] ELSE depth[c] + depth[to] + 1]
  OBVIOUS
<1>3. deeper \in [Collections -> Nat]
  BY <1>1, <1>2
<1>4. ASSUME NEW c \in Collections, c \notin gone', c \notin unseen', parent'[c] # Top, parent'[c] \notin gone'
      PROVE  deeper[parent'[c]] < deeper[c]
  <2>1. CASE c = of
    <3>1. parent'[c] = to /\ to \in U /\ of \notin U
      BY <2>1 DEF TreeTypeOK, Climbed
    <3>. QED BY <1>1, <1>2, <2>1, <3>1
  <2>2. CASE c # of
    <3>1. parent'[c] = parent[c] /\ parent[c] \in Collections
      BY <1>4, <2>2 DEF TreeTypeOK, Parents
    <3>2. depth[parent[c]] < depth[c]
      BY <1>1, <1>4, <2>2, <3>1 DEF Deepens
    <3>3. c \in U => parent[c] \in U
      BY <1>4, <3>1, TreeAssumption DEF Climbed
    <3>4. PICK x, y : x = depth[parent[c]] /\ y = depth[c]
      OBVIOUS
    <3>5. x \in Nat /\ y \in Nat /\ depth[to] \in Nat /\ x < y
      BY <1>1, <3>1, <3>2, <3>4
    <3>. QED BY <1>2, <3>1, <3>3, <3>4, <3>5
  <2>. QED BY <2>1, <2>2
<1>5. Deepens(deeper)'
  BY <1>4 DEF Deepens
<1>. QED BY <1>3, <1>5 DEF Sighted

\* A link to the top.
LEMMA TopLink ==
  ASSUME TreeTypeOK, Sighted, NEW of \in Collections,
         parent' = [parent EXCEPT ![of] = Top], unseen' = unseen \ {of}, gone' = gone
  PROVE  Sighted'
<1>1. PICK depth \in [Collections -> Nat] : Deepens(depth)
  BY DEF Sighted
<1>2. Deepens(depth)'
  BY <1>1 DEF Deepens, TreeTypeOK
<1>. QED BY <1>2 DEF Sighted

\* Above a climb: the rest of the tree and the calls that do not move stay as they are.
LEMMA MoveStep ==
  ASSUME TreeInv, NEW m \in Moves, NEW r,
         r \in [stage : {"new", "load", "climb", "write", "done"}, of : Parents, to : Parents,
                ofParent : Parents, toParent : Parents, at : Parents, above : Parents],
         relink' = [relink EXCEPT ![m] = r], UNCHANGED <<parent, gone, unseen>>,
         disturbedMoves' = disturbedMoves \/ disturbedMoves' = disturbedMoves \ {m}, MoveFits(m)'
  PROVE  TreeInv'
<1>1. TreeTypeOK'
  BY DEF TreeInv, TreeTypeOK, Calls
<1>2. Sighted'
  BY DEF TreeInv, Sighted, Deepens
<1>3. ASSUME NEW n \in Moves PROVE MoveFits(n)'
  <2>1. CASE n = m
    BY <2>1
  <2>2. CASE n # m
    <3>1. relink'[n] = relink[n] /\ (n \in disturbedMoves' <=> n \in disturbedMoves)
      BY <2>2 DEF TreeInv, TreeTypeOK, Calls
    <3>. QED BY <3>1 DEF TreeInv, MoveFits, Climbed
  <2>. QED BY <2>1, <2>2
<1>4. ASSUME NEW u \in Updates PROVE (UpdateFits(u) /\ relink[u].stage # "climb")'
  <2>1. u # m /\ relink'[u] = relink[u]
    BY TreeAssumption DEF TreeInv, TreeTypeOK, Calls
  <2>. QED BY <2>1 DEF TreeInv, UpdateFits
<1>. QED BY <1>1, <1>2, <1>3, <1>4 DEF TreeInv

\* The record of a call that has not begun, and of one that is over.
LEMMA CallsTyped ==
  LET MoveCall == [stage : {"new", "load", "climb", "write", "done"}, of : Parents, to : Parents,
               ofParent : Parents, toParent : Parents, at : Parents, above : Parents]
  IN  Undone \in MoveCall /\ [Undone EXCEPT !.stage = "done"] \in MoveCall
  BY DEF Undone, Parents

\* A call that ends has no demands.
LEMMA MoveEnds ==
  ASSUME TreeInv, NEW m \in Moves, Ends(m), UNCHANGED <<parent, gone, unseen>>,
         disturbedMoves' = disturbedMoves \ {m}
  PROVE  TreeInv'
<1>1. PICK r : r = [Undone EXCEPT !.stage = "done"]
  OBVIOUS
<1>2. relink' = [relink EXCEPT ![m] = r] /\ r.stage = "done"
  BY <1>1 DEF Ends, Undone
<1>3. MoveFits(m)'
  BY <1>2 DEF MoveFits, TreeInv, TreeTypeOK, Calls
<1>. QED BY <1>1, <1>2, <1>3, CallsTyped, MoveStep

\* A move begins: it has seen nothing of the tree but its own link.
LEMMA MoveBeginsStep == ASSUME TreeInv, NEW m \in Moves, MoveBegins(m) PROVE TreeInv'
<1>1. PICK of \in Collections \ gone, to \in Parents :
        relink' = [relink EXCEPT ![m] = [Undone EXCEPT !.stage = IF to = Top THEN "write" ELSE "load",
                                                  !.of = of, !.to = to, !.ofParent = parent[of]]]
  BY DEF MoveBegins
<1>2. PICK s : s = IF to = Top THEN "write" ELSE "load"
  OBVIOUS
<1> DEFINE MoveCall == [stage : {"new", "load", "climb", "write", "done"}, of : Parents, to : Parents,
                    ofParent : Parents, toParent : Parents, at : Parents, above : Parents]
<1>3. PICK u \in MoveCall, p \in Parents : u = Undone /\ p = parent[of]
  BY CallsTyped DEF TreeInv, TreeTypeOK
<1>4. PICK r \in MoveCall : r = [u EXCEPT !.stage = s, !.of = of, !.to = to, !.ofParent = p]
  BY <1>2 DEF Parents
<1>5. relink' = [relink EXCEPT ![m] = r] /\ r.stage = s /\ r.of = of /\ r.to = to
  BY <1>1, <1>2, <1>3, <1>4
<1>6. relink'[m] = r
  BY <1>5 DEF TreeInv, TreeTypeOK, Calls
<1>7. MoveFits(m)'
  BY <1>2, <1>5, <1>6 DEF MoveFits, Parents
<1>. QED BY <1>4, <1>5, <1>7, MoveStep DEF MoveBegins, TreeStays, Parents

\* One level of a climb, from above or from the place where the move looked first.
LEMMA ReachesStep ==
  ASSUME TreeInv, NEW m \in Moves, relink[m].of \in Collections, NEW next \in Parents,
         NEW toParent \in Parents, Reaches(m, next, toParent),
         m \notin disturbedMoves /\ next # relink[m].of =>
           /\ relink[m].to \in Collections /\ toParent = parent[relink[m].to]
           /\ next \in Collections \ gone =>
                \E U \in SUBSET Collections :
                  next \in U /\ Climbed(U, relink[m].of, relink[m].to, next)
           /\ next \notin Collections \ gone =>
                \E U \in SUBSET Collections : Climbed(U, relink[m].of, relink[m].to, Top),
         disturbedMoves' = IF relink'[m].stage = "done" THEN disturbedMoves \ {m} ELSE disturbedMoves,
         UNCHANGED <<parent, gone, unseen>>
  PROVE  TreeInv'
<1> DEFINE MoveCall == [stage : {"new", "load", "climb", "write", "done"}, of : Parents, to : Parents,
                    ofParent : Parents, toParent : Parents, at : Parents, above : Parents]
<1>1. relink \in [Calls -> MoveCall] /\ m \in Calls
  BY DEF TreeInv, TreeTypeOK, Calls
<1>2. PICK old \in MoveCall : old = relink[m]
  BY <1>1
<1>3. CASE next = old.of
  <2>1. Ends(m)
    BY <1>2, <1>3 DEF Reaches
  <2>2. relink'[m].stage = "done"
    BY <1>1, <2>1 DEF Ends, Undone
  <2>. QED BY <2>1, <2>2, MoveEnds
<1>4. CASE next # old.of /\ (next = Top \/ next \in gone)
  <2>1. PICK r \in MoveCall : r = [old EXCEPT !.stage = "write", !.toParent = Top, !.at = Top, !.above = Top]
    BY DEF Parents
  <2>2. relink' = [relink EXCEPT ![m] = r]
    BY <1>2, <1>4, <2>1 DEF Reaches
  <2>3. r.stage = "write" /\ r.of = old.of /\ r.to = old.to
    BY <2>1
  <2>4. relink'[m] = r
    BY <1>1, <2>2
  <2>5. disturbedMoves' = disturbedMoves
    BY <2>3, <2>4
  <2>6. next \notin Collections \ gone
    BY <1>4, TreeAssumption
  <2>7. m \notin disturbedMoves => \E U \in SUBSET Collections : Climbed(U, old.of, old.to, Top)
    BY <1>2, <1>4, <2>6
  <2>8. MoveFits(m)'
    BY <1>2, <2>3, <2>4, <2>5, <2>7 DEF MoveFits, Climbed
  <2>. QED BY <2>1, <2>2, <2>5, <2>8, MoveStep
<1>5. CASE next # old.of /\ next # Top /\ next \notin gone
  <2>1. PICK above \in Parents : above = IF next = old.to THEN toParent ELSE parent[next]
    BY <1>5 DEF TreeInv, TreeTypeOK, Parents
  <2>2. PICK r \in MoveCall : r = [old EXCEPT !.stage = "climb", !.toParent = toParent, !.at = next,
                                          !.above = above]
    OBVIOUS
  <2>3. relink' = [relink EXCEPT ![m] = r]
    <3>1. relink' = [relink EXCEPT ![m].stage = "climb", ![m].toParent = toParent, ![m].at = next,
                                   ![m].above = above]
      BY <1>2, <1>5, <2>1 DEF Reaches
    <3>. QED BY <1>1, <1>2, <2>2, <3>1
  <2>4. /\ r.stage = "climb" /\ r.of = old.of /\ r.to = old.to
        /\ r.toParent = toParent /\ r.at = next /\ r.above = above
    BY <2>2
  <2>5. relink'[m] = r
    BY <1>1, <2>3
  <2>6. disturbedMoves' = disturbedMoves
    BY <2>4, <2>5
  <2>7. next \in Collections \ gone
    BY <1>5 DEF Parents
  <2>8. ASSUME m \notin disturbedMoves
        PROVE  /\ old.to \in Collections /\ toParent = parent[old.to] /\ above = parent[next]
               /\ \E U \in SUBSET Collections : next \in U /\ Climbed(U, old.of, old.to, next)
    BY <1>2, <1>5, <2>1, <2>7, <2>8
  <2>9. MoveFits(m)'
    BY <1>2, <2>4, <2>5, <2>6, <2>7, <2>8 DEF MoveFits, Climbed
  <2>. QED BY <2>2, <2>3, <2>6, <2>9, MoveStep
<1>. QED BY <1>3, <1>4, <1>5

\* The new parent is looked up.
LEMMA LoadStep == ASSUME TreeInv, NEW m \in Moves, LoadParent(m) PROVE TreeInv'
<1>1. PICK to \in Collections : to = relink[m].to
  BY DEF TreeInv, MoveFits, LoadParent
<1>2. relink[m].of \in Collections /\ parent[to] \in Parents /\ to \in Parents
  BY DEF TreeInv, MoveFits, LoadParent, TreeTypeOK, Parents
<1>3. CASE to \in gone
  <2>1. Ends(m)
    BY <1>1, <1>3 DEF LoadParent
  <2>2. relink'[m].stage = "done"
    BY <2>1 DEF Ends, Undone, TreeInv, TreeTypeOK, Calls
  <2>. QED BY <2>1, <2>2, MoveEnds DEF LoadParent
<1>4. CASE to \notin gone
  <2>1. Reaches(m, to, parent[to])
    BY <1>1, <1>4 DEF LoadParent
  <2>2. ASSUME to # relink[m].of
        PROVE  to \in {to} /\ Climbed({to}, relink[m].of, to, to)
    BY <2>2 DEF Climbed
  <2>. QED BY <1>1, <1>2, <1>4, <2>1, <2>2, ReachesStep DEF LoadParent
<1>. QED BY <1>3, <1>4

\* The climb goes on.
LEMMA ClimbStep == ASSUME TreeInv, NEW m \in Moves, Climb(m) PROVE TreeInv'
<1>1. PICK of \in Collections, to, at, next \in Parents, toParent \in Parents :
        /\ of = relink[m].of /\ to = relink[m].to /\ at = relink[m].at
        /\ next = relink[m].above /\ toParent = relink[m].toParent
  BY DEF TreeInv, MoveFits, Climb, TreeTypeOK, Calls
<1>2. Reaches(m, next, toParent)
  BY <1>1 DEF Climb
<1>3. ASSUME m \notin disturbedMoves, next # of
      PROVE  /\ to \in Collections /\ toParent = parent[to]
             /\ next \in Collections \ gone =>
                  \E U \in SUBSET Collections : next \in U /\ Climbed(U, of, to, next)
             /\ next \notin Collections \ gone =>
                  \E U \in SUBSET Collections : Climbed(U, of, to, Top)
  <2>1. /\ to \in Collections /\ toParent = parent[to]
        /\ at \in Collections /\ next = parent[at]
    BY <1>1, <1>3 DEF TreeInv, MoveFits, Climb
  <2>2. PICK U \in SUBSET Collections : at \in U /\ Climbed(U, of, to, at)
    BY <1>1, <1>3 DEF TreeInv, MoveFits, Climb
  <2>3. ASSUME next \in Collections \ gone
        PROVE  U \cup {next} \in SUBSET Collections /\ Climbed(U \cup {next}, of, to, next)
    BY <1>3, <2>1, <2>2, <2>3 DEF Climbed
  <2>4. ASSUME next \notin Collections \ gone
        PROVE  Climbed(U, of, to, Top)
    BY <2>1, <2>2, <2>4 DEF Climbed, Parents
  <2>. QED BY <2>1, <2>2, <2>3, <2>4
<1>. QED BY <1>1, <1>2, <1>3, ReachesStep DEF Climb

\* Whoever is under way when a link is written is disturbed, or has no demands yet.
LEMMA LinksDisturb ==
  ASSUME TreeInv, NEW c \in Calls, NEW of \in Collections, NEW to \in Parents, Links(c, of, to),
         Ends(c), gone' = gone, unseen' \subseteq Collections, Sighted'
  PROVE  TreeInv'
<1>1. relink'[c].stage = "done" /\ \A d \in Calls : d # c => relink'[d] = relink[d]
  BY DEF Ends, Undone, TreeInv, TreeTypeOK
<1>2. TreeTypeOK'
  <2>1. relink' \in [Calls -> [stage : {"new", "load", "climb", "write", "done"}, of : Parents,
                               to : Parents, ofParent : Parents, toParent : Parents, at : Parents,
                               above : Parents]]
    BY CallsTyped DEF Ends, TreeInv, TreeTypeOK
  <2>2. parent' \in [Collections -> Parents] /\ disturbedMoves' \subseteq Moves
    BY DEF Links, TreeInv, TreeTypeOK
  <2>. QED BY <2>1, <2>2 DEF TreeInv, TreeTypeOK
<1>3. ASSUME NEW m \in Moves PROVE MoveFits(m)'
  <2>1. CASE m = c
    BY <1>1, <2>1 DEF MoveFits
  <2>2. CASE m # c
    <3>1. relink'[m] = relink[m]
      BY <1>1, <2>2 DEF Calls
    <3>2. relink[m].stage \notin {"new", "done"} => m \in disturbedMoves'
      BY <2>2 DEF Links
    <3>. QED BY <3>1, <3>2 DEF TreeInv, MoveFits
  <2>. QED BY <2>1, <2>2
<1>4. ASSUME NEW u \in Updates PROVE (UpdateFits(u) /\ relink[u].stage # "climb")'
  <2>1. CASE u = c
    BY <1>1, <2>1 DEF UpdateFits
  <2>2. CASE u # c
    BY <1>1, <2>2 DEF Calls, TreeInv, UpdateFits
  <2>. QED BY <2>1, <2>2
<1>. QED BY <1>2, <1>3, <1>4 DEF TreeInv

\* A move writes its link: undisturbed, it has seen the way from the new parent to the top.
LEMMA WriteStep == ASSUME TreeInv, NEW m \in Moves, MoveWrites(m) PROVE TreeInv'
<1>1. PICK of \in Collections, to \in Parents : of = relink[m].of /\ to = relink[m].to
  BY DEF MoveWrites, TreeInv, MoveFits, TreeTypeOK, Calls
<1>2. Ends(m) /\ gone' = gone /\ m \in Calls
  BY DEF MoveWrites, Calls
<1>3. CASE relink[m].ofParent = relink[m].to
  BY <1>2, <1>3, MoveEnds DEF MoveWrites
<1>4. CASE relink[m].ofParent # relink[m].to
  <2>1. /\ Links(m, of, to)
        /\ unseen' = IF m \in disturbedMoves THEN unseen \cup {of} ELSE unseen \ {of}
    BY <1>1, <1>4 DEF MoveWrites
  <2>2. parent' = [parent EXCEPT ![of] = to] /\ unseen' \subseteq Collections
    BY <2>1 DEF Links, TreeInv, TreeTypeOK
  <2>3. Sighted'
    <3>1. CASE m \in disturbedMoves
      BY <1>2, <2>1, <2>2, <3>1, UnseenLink DEF TreeInv
    <3>2. CASE m \notin disturbedMoves /\ to = Top
      BY <1>2, <2>1, <2>2, <3>2, TopLink DEF TreeInv
    <3>3. CASE m \notin disturbedMoves /\ to # Top
      <4>1. to \in Collections
        BY <3>3 DEF Parents
      <4>2. PICK U \in SUBSET Collections : Climbed(U, of, to, Top)
        BY <1>1, <3>3 DEF TreeInv, MoveFits, MoveWrites
      <4>. QED BY <1>2, <2>1, <2>2, <3>3, <4>1, <4>2, SeenLink DEF TreeInv
    <3>. QED BY <3>1, <3>2, <3>3
  <2>. QED BY <1>2, <2>1, <2>2, <2>3, LinksDisturb
<1>. QED BY <1>3, <1>4

\* An update begins, is turned away, or goes on to its write.
LEMMA UpdateMoves ==
  ASSUME TreeInv, NEW u \in Updates, NEW r,
         r \in [stage : {"new", "load", "write", "done"}, of : Parents, to : Parents,
                ofParent : Parents, toParent : Parents, at : Parents, above : Parents],
         r.stage \in {"load", "write"} => r.of \in Collections /\ r.to \in Collections,
         relink' = [relink EXCEPT ![u] = r], TreeStays
  PROVE  TreeInv'
<1>1. u \in Calls /\ relink'[u] = r /\ \A d \in Calls : d # u => relink'[d] = relink[d]
  BY DEF TreeInv, TreeTypeOK, Calls
<1>2. TreeTypeOK'
  BY DEF TreeInv, TreeTypeOK, TreeStays, Calls
<1>3. Sighted'
  BY DEF TreeInv, Sighted, Deepens, TreeStays
<1>4. ASSUME NEW m \in Moves PROVE MoveFits(m)'
  <2>1. m # u /\ relink'[m] = relink[m]
    BY <1>1, TreeAssumption DEF Calls
  <2>. QED BY <2>1 DEF TreeInv, MoveFits, Climbed, TreeStays
<1>5. ASSUME NEW v \in Updates PROVE (UpdateFits(v) /\ relink[v].stage # "climb")'
  <2>1. CASE v = u
    BY <1>1, <2>1 DEF UpdateFits
  <2>2. CASE v # u
    BY <1>1, <2>2 DEF Calls, TreeInv, UpdateFits
  <2>. QED BY <2>1, <2>2
<1>. QED BY <1>2, <1>3, <1>4, <1>5 DEF TreeInv

\* The steps of an update up to its write.
LEMMA UpdateSteps ==
  ASSUME TreeInv, NEW u \in Updates, UpdateBegins(u) \/ UpdateLoads(u)
  PROVE  TreeInv'
<1> DEFINE MoveCall == [stage : {"new", "load", "write", "done"}, of : Parents, to : Parents,
                    ofParent : Parents, toParent : Parents, at : Parents, above : Parents]
<1>1. PICK blank \in MoveCall : blank = Undone
  BY DEF Undone, Parents
<1>2. CASE UpdateBegins(u)
  <2>1. PICK of \in Collections, to \in Collections :
          relink' = [relink EXCEPT ![u] = [Undone EXCEPT !.stage = "load", !.of = of, !.to = to]]
    BY <1>2 DEF UpdateBegins
  <2>2. PICK r \in MoveCall : r = [blank EXCEPT !.stage = "load", !.of = of, !.to = to]
    BY DEF Parents
  <2>3. relink' = [relink EXCEPT ![u] = r] /\ r.of = of /\ r.to = to
    BY <1>1, <2>1, <2>2
  <2>. QED BY <1>2, <2>2, <2>3, UpdateMoves DEF UpdateBegins
<1>3. CASE UpdateLoads(u) /\ relink[u].to \in gone
  <2>1. PICK r \in MoveCall : r = [blank EXCEPT !.stage = "done"]
    OBVIOUS
  <2>2. relink' = [relink EXCEPT ![u] = r] /\ r.stage = "done"
    BY <1>1, <1>3, <2>1 DEF UpdateLoads, Ends
  <2>. QED BY <1>3, <2>1, <2>2, UpdateMoves DEF UpdateLoads
<1>4. CASE UpdateLoads(u) /\ relink[u].to \notin gone
  <2>1. PICK old \in MoveCall : old = relink[u]
    BY <1>4 DEF UpdateLoads, TreeInv, TreeTypeOK, Calls
  <2>2. PICK r \in MoveCall : r = [old EXCEPT !.stage = "write"]
    OBVIOUS
  <2>3. relink' = [relink EXCEPT ![u] = r]
    BY <1>4, <2>1, <2>2 DEF UpdateLoads, TreeInv, TreeTypeOK, Calls
  <2>4. r.of = old.of /\ r.to = old.to
    BY <2>2
  <2>5. old.of \in Collections /\ old.to \in Collections
    BY <1>4, <2>1 DEF UpdateLoads, TreeInv, UpdateFits
  <2>. QED BY <1>4, <2>2, <2>3, <2>4, <2>5, UpdateMoves DEF UpdateLoads
<1>. QED BY <1>2, <1>3, <1>4

\* An update writes its link without a look at the tree.
LEMMA UpdateWriteStep == ASSUME TreeInv, NEW u \in Updates, UpdateWrites(u) PROVE TreeInv'
<1>1. PICK of \in Collections, to \in Collections : of = relink[u].of /\ to = relink[u].to
  BY DEF UpdateWrites, TreeInv, UpdateFits
<1>2. Ends(u) /\ gone' = gone /\ u \in Calls
  BY DEF UpdateWrites, Calls
<1>3. CASE of \in gone
  <2>1. PICK r : r = [Undone EXCEPT !.stage = "done"]
    OBVIOUS
  <2>2. r.stage = "done" /\ relink' = [relink EXCEPT ![u] = r]
    BY <1>2, <2>1 DEF Ends, Undone
  <2>3. r \in [stage : {"new", "load", "write", "done"}, of : Parents, to : Parents,
               ofParent : Parents, toParent : Parents, at : Parents, above : Parents]
    BY <2>1 DEF Undone, Parents
  <2>. QED BY <1>1, <1>3, <2>2, <2>3, UpdateMoves DEF UpdateWrites, TreeStays
<1>4. CASE of \notin gone
  <2>1. Links(u, of, to) /\ unseen' = unseen \cup {of}
    BY <1>1, <1>4 DEF UpdateWrites
  <2>2. unseen' \subseteq Collections /\ parent' = [parent EXCEPT ![of] = to] /\ to \in Parents
    BY <2>1 DEF Links, TreeInv, TreeTypeOK, Parents
  <2>3. Sighted'
    BY <1>2, <2>1, <2>2, UnseenLink DEF TreeInv
  <2>. QED BY <1>2, <2>1, <2>2, <2>3, LinksDisturb
<1>. QED BY <1>3, <1>4

\* A deletion closes no cycle and shortens the ways up.
LEMMA DeleteStep == ASSUME TreeInv, NEW c \in Collections, SoftDelete(c) PROVE TreeInv'
<1>1. gone' = gone \cup {c} /\ UNCHANGED <<parent, relink, unseen, disturbedMoves>>
  BY DEF SoftDelete
<1>2. TreeTypeOK'
  <2>1. IsFiniteSet(gone) /\ Cardinality(gone) \in Nat /\ MaxDeleted \in Nat
    BY TreeAssumption, FS_Subset, FS_CardinalityType DEF TreeInv, TreeTypeOK
  <2>2. Cardinality(gone') = Cardinality(gone) + 1
    BY <1>1, <2>1, FS_AddElement DEF SoftDelete
  <2>3. Cardinality(gone') <= MaxDeleted
    BY <2>1, <2>2 DEF SoftDelete
  <2>. QED BY <1>1, <2>3 DEF TreeInv, TreeTypeOK
<1>3. Sighted'
  BY <1>1 DEF TreeInv, Sighted, Deepens
<1>4. ASSUME NEW m \in Moves PROVE MoveFits(m)'
  <2>1. \A U, of, to, at : Climbed(U, of, to, at) => Climbed(U, of, to, at)'
    BY <1>1 DEF Climbed
  <2>. QED BY <1>1, <2>1 DEF TreeInv, MoveFits
<1>. QED BY <1>1, <1>2, <1>3, <1>4 DEF TreeInv, UpdateFits

\* Every step keeps the tree in the sight of those who have written it.
LEMMA TreeInvNext == TreeInv /\ [TreeNext]_treeVars => TreeInv'
<1>. SUFFICES ASSUME TreeInv, [TreeNext]_treeVars PROVE TreeInv'
  OBVIOUS
<1>1. CASE UNCHANGED treeVars
  BY <1>1 DEF treeVars, TreeInv, TreeTypeOK, Sighted, Deepens, MoveFits, Climbed, UpdateFits
<1>. QED BY <1>1, MoveBeginsStep, LoadStep, ClimbStep, WriteStep, UpdateSteps, UpdateWriteStep,
            DeleteStep
         DEF TreeNext, MoveGoesOn, TreeAtRest

\* On a cycle of links that were all written in sight of the tree the depth would grow for ever.
LEMMA SightedIsSound == ASSUME TreeTypeOK, Sighted PROVE TreeIsSound
<1>1. SUFFICES ASSUME NEW c \in Collections, OnCycle(c),
                      \A n \in 0..Cardinality(Collections) : Ancestor(c)[n] \notin unseen
               PROVE  FALSE
  BY DEF TreeIsSound
<1>2. PICK depth \in [Collections -> Nat] : Deepens(depth)
  BY DEF Sighted
<1>3. PICK K, a : K = Cardinality(Collections) /\ a = Ancestor(c)
  OBVIOUS
<1>4. K \in Nat
  BY <1>3, TreeAssumption, FS_CardinalityType
<1>5. /\ \A n \in 0..K : a[n] \in Parents /\ a[n] \notin unseen
      /\ a[0] = c
      /\ \A n \in 1..K : a[n] = Above(a[n - 1])
  BY <1>1, <1>3, AncestorSteps
<1>6. c \notin gone /\ c # Top
  BY <1>1, TreeAssumption DEF OnCycle
<1>7. PICK k \in 1..K : a[k] = c
  BY <1>1, <1>3 DEF OnCycle
<1> DEFINE Out(n) == a[n] = Top \/ a[n] \in gone
<1>8. ASSUME NEW i \in 0..k, Out(i) PROVE FALSE
  <2> DEFINE S == {j \in Nat : i + j <= k => Out(i + j)}
  <2>1. 0 \in S
    BY <1>8
  <2>2. ASSUME NEW j \in S PROVE j + 1 \in S
    <3>1. SUFFICES ASSUME i + (j + 1) <= k PROVE Out(i + (j + 1))
      OBVIOUS
    <3>2. i + j <= k /\ i + (j + 1) \in 1..K /\ (i + (j + 1)) - 1 = i + j
      BY <1>4, <3>1
    <3>3. Out(i + j)
      BY <3>2
    <3>. QED BY <1>5, <3>2, <3>3 DEF Above
  <2>3. S \in SUBSET Nat
    OBVIOUS
  <2>4. S = Nat
    <3> HIDE DEF S
    <3>. QED BY <2>1, <2>2, <2>3, AllNumbers
  <2>5. k - i \in Nat /\ i + (k - i) = k
    BY <1>4, <1>7
  <2>7. k - i \in S
    <3> HIDE DEF S
    <3>. QED BY <2>4, <2>5
  <2>6. Out(k)
    BY <2>5, <2>7
  <2>. QED BY <1>6, <1>7, <2>6
<1> DEFINE T == {n \in Nat : n <= k => depth[a[n]] + n <= depth[c]}
<1>9. 0 \in T
  BY <1>2, <1>5
<1>10. ASSUME NEW n \in T PROVE n + 1 \in T
  <2>1. SUFFICES ASSUME n + 1 <= k PROVE depth[a[n + 1]] + (n + 1) <= depth[c]
    OBVIOUS
  <2>2. n \in 0..k /\ n + 1 \in 0..k /\ n + 1 \in 1..K /\ n \in 0..K /\ (n + 1) - 1 = n
    BY <1>4, <2>1
  <2>3. ~Out(n) /\ ~Out(n + 1)
    BY <1>8, <2>2
  <2>4. a[n + 1] = parent[a[n]]
    BY <1>5, <2>2, <2>3 DEF Above
  <2>5. a[n] \in Collections /\ a[n + 1] \in Collections /\ a[n] \notin unseen
    BY <1>5, <2>2, <2>3 DEF Parents
  <2>6. depth[a[n + 1]] < depth[a[n]]
    BY <1>2, <2>3, <2>4, <2>5 DEF Deepens
  <2>7. PICK x, y, z \in Nat : x = depth[a[n + 1]] /\ y = depth[a[n]] /\ z = depth[c]
    BY <1>2, <2>5
  <2>8. y + n <= z
    BY <2>2, <2>7
  <2>9. x + (n + 1) <= z
    BY <2>6, <2>7, <2>8
  <2>. QED BY <2>7, <2>9
<1>11. T = Nat
  <2>1. T \in SUBSET Nat
    OBVIOUS
  <2> HIDE DEF T
  <2>. QED BY <1>9, <1>10, <2>1, AllNumbers
<1>12. depth[a[k]] + k <= depth[c] /\ depth[c] \in Nat
  BY <1>2, <1>4, <1>11
<1>. QED BY <1>4, <1>7, <1>12

\* Moves that follow each other close no cycle, however many calls there are: every cycle of
\* collections has a link that was written without sight of the tree.
THEOREM TreeSound == TreeSpec => []TreeIsSound
<1>1. TreeInv => TreeIsSound
  BY SightedIsSound DEF TreeInv
<1>. QED BY <1>1, TreeInvInit, TreeInvNext, PTL DEF TreeSpec

-----------------------------------------------------------------------------
(* MCTasks *)

\* In the run of all components each one, chosen or not, takes the steps of its own
\* specification only.
LEMMA PartsBehave ==
  TasksSpec => /\ Spec /\ HubSpec /\ QueueSpec
               /\ LeaseInit /\ [][LeaseNext]_leaseVars
               /\ GroupInit /\ [][GroupNext]_groupVars
               /\ WorkflowInit /\ [][WorkflowNext]_workflowVars
               /\ TreeInit /\ [][TreeNext]_treeVars
               /\ [](component \in Components)
<1>1. TasksInit => /\ Init /\ HubInit /\ QueueInit /\ LeaseInit /\ GroupInit /\ WorkflowInit /\ TreeInit
                   /\ component \in Components
  BY DEF TasksInit
<1>2. [TasksNext]_<<component, vars, hubVars, queueVars, leaseVars, groupVars, workflowVars, treeVars>>
      => /\ [Next]_vars /\ [HubNext]_hubVars /\ [QueueNext]_queueVars /\ [LeaseNext]_leaseVars
         /\ [GroupNext]_groupVars /\ [WorkflowNext]_workflowVars /\ [TreeNext]_treeVars
         /\ UNCHANGED component
  BY DEF TasksNext, Acts
<1>3. component \in Components /\ UNCHANGED component => (component \in Components)'
  OBVIOUS
<1>. QED BY <1>1, <1>2, <1>3, PTL DEF TasksSpec, Spec, HubSpec, QueueSpec

\* The types of the lock, the collector, the workflows and the tree.
LEMMA FourTypes ==
  TasksSpec => [](LeaseTypeOK /\ GroupTypeOK /\ WorkflowTypeOK /\ TreeTypeOK)
<1>1. LeaseInv /\ GroupInv /\ WorkflowInv /\ TreeInv
      => LeaseTypeOK /\ GroupTypeOK /\ WorkflowTypeOK /\ TreeTypeOK
  BY DEF LeaseInv, GroupInv, WorkflowInv, TreeInv
<1>. QED BY <1>1, PartsBehave, LeaseInvInit, LeaseInvNext, GroupInvInit, GroupInvNext,
            WorkflowInvInit, WorkflowInvNext, TreeInvInit, TreeInvNext, PTL

\* Messages, streams, writes, locks, groups, workflows and collections keep their types, and
\* queues, slots and permits their bounds, in every component, for all constants.
THEOREM TasksTyped == TasksSpec => []TasksTypeOK
<1>1. /\ component \in Components
      /\ TypeOK /\ HubTypeOK /\ QueueTypeOK /\ LeaseTypeOK /\ GroupTypeOK /\ WorkflowTypeOK /\ TreeTypeOK
      => TasksTypeOK
  <2>. SUFFICES ASSUME component \in Components, TypeOK, HubTypeOK, QueueTypeOK, LeaseTypeOK,
                       GroupTypeOK, WorkflowTypeOK, TreeTypeOK
                PROVE  TasksTypeOK
    OBVIOUS
  <2>. QED BY DEF Components, TasksTypeOK
<1>. QED BY <1>1, PartsBehave, TypesAreKept, HubTypeCorrect, QueueTypeCorrect, FourTypes, PTL
=============================================================================
