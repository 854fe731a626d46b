--------------------------- MODULE UrlBatch_proofs ---------------------------
(***************************************************************************)
(* The batch of URLs, for every set of URLs and domains, number of permits, *)
(* retries and faults: its flows stay within the permits, and what it       *)
(* reports, sends and writes is what became of the URLs.                    *)
(***************************************************************************)
EXTENDS UrlBatch, FiniteSetTheorems, TLAPS

PlacedIn(places) == {u \in Urls : pc[u] \in places}
TimedOutIn(d) == {u \in exhausted : domain[u] = d}

\* Every coroutine in the semaphore holds one permit, and those that are done are counted.
PermitsCounted ==
  /\ permits + Cardinality(PlacedIn(InPermit)) = MaxConcurrent
  /\ completed = Cardinality(PlacedIn({"done"}))

\* The timeouts of a domain are those of its URLs, and decide what is given up.
TimeoutsCounted ==
  /\ \A d \in Domains : timeouts[d] = Cardinality(TimedOutIn(d))
  /\ \A d \in failedDomains : timeouts[d] >= FailFastThreshold

\* Where a coroutine can be, given its entry, its flow and what has been sent and written for it.
PlacesFit ==
  \A u \in Urls :
    /\ flow[u] # "none" => pc[u] \in {"wait", "reap", "abort"}
    /\ flow[u] \in {"stored", "ok"} => summary[u]
    /\ pc[u] \in {"deliver", "sending"} => summary[u] /\ entry[u] = "complete"
    /\ pc[u] \in {"writeSkipped", "writeError"} => entry[u] = "failed"
    /\ pc[u] = "sleep" => entry[u] = "cached"
    /\ pc[u] = "done" => entry[u] \in {"cached", "complete", "failed"}
    /\ pc[u] = "backoff" => attempt[u] < MaxRetries
    /\ cards[u] > 0 => pc[u] = "done" /\ summary[u] /\ entry[u] = "complete"
    /\ row[u] = "skipped" => pc[u] = "done" /\ entry[u] = "failed"
    /\ u \in exhausted => pc[u] \in {"writeError", "done", "cancelled"}

\* The phase of the batch and the user's cancellation bound where its coroutines are.
PhasesFit ==
  \A u \in Urls :
    /\ phase = "register" => pc[u] \in {"new", "create", "registered", "cancelled"}
    /\ phase = "over" => pc[u] \in Settled
    /\ cancelled => pc[u] \in {"done", "cancelled", "abort"} \/ u \in swallowed
    /\ ~cancelled => pc[u] \notin {"cancelled", "abort"}

BatchInv ==
  TypeOK /\ PermitsCounted /\ TimeoutsCounted /\ PlacesFit /\ PhasesFit /\ FailureIsRecorded

-----------------------------------------------------------------------------
(* Counting *)

\* The coroutines at some places are finitely many.
LEMMA PlacedFinite ==
  ASSUME NEW places
  PROVE  IsFiniteSet(PlacedIn(places)) /\ Cardinality(PlacedIn(places)) \in Nat
         /\ Cardinality(PlacedIn(places)) <= Cardinality(Urls) /\ Cardinality(Urls) \in Nat
BY BatchAssumption, FS_Subset, FS_CardinalityType DEF PlacedIn

\* A coroutine that goes to another place leaves or joins those that are counted.
LEMMA MoveCounts ==
  ASSUME NEW places, NEW u \in Urls, NEW place, pc' = [pc EXCEPT ![u] = place], pc = [v \in Urls |-> pc[v]]
  PROVE  Cardinality(PlacedIn(places)') =
           Cardinality(PlacedIn(places)) + (IF place \in places THEN 1 ELSE 0)
                                         - (IF pc[u] \in places THEN 1 ELSE 0)
<1> DEFINE A == PlacedIn(places)
<1>1. IsFiniteSet(A) /\ Cardinality(A) \in Nat
  BY PlacedFinite
<1>2. CASE place \in places
  <2>1. A' = A \cup {u}
    BY <1>2 DEF PlacedIn
  <2>2. u \in A <=> pc[u] \in places
    BY DEF PlacedIn
  <2> HIDE DEF A
  <2>3. Cardinality(A') = IF u \in A THEN Cardinality(A) ELSE Cardinality(A) + 1
    BY <2>1, <1>1, FS_AddElement
  <2> QED BY <2>2, <2>3, <1>1, <1>2 DEF A
<1>3. CASE place \notin places
  <2>1. A' = A \ {u}
    BY <1>3 DEF PlacedIn
  <2>2. u \in A <=> pc[u] \in places
    BY DEF PlacedIn
  <2> HIDE DEF A
  <2>3. Cardinality(A') = IF u \in A THEN Cardinality(A) - 1 ELSE Cardinality(A)
    BY <2>1, <1>1, FS_RemoveElement
  <2> QED BY <2>2, <2>3, <1>1, <1>3 DEF A
<1> QED BY <1>2, <1>3

\* Someone who holds a permit has left one less.
LEMMA HolderCounts ==
  ASSUME NEW u \in Urls, pc[u] \in InPermit
  PROVE  Cardinality(PlacedIn(InPermit)) >= 1
<1>1. u \in PlacedIn(InPermit)
  BY DEF PlacedIn
<1>2. Cardinality(PlacedIn(InPermit)) # 0
  BY <1>1, PlacedFinite, FS_EmptySet
<1> QED BY <1>2, PlacedFinite

-----------------------------------------------------------------------------
(* The beginning *)

\* The invariant holds in the beginning.
LEMMA BatchInvInit == Init => BatchInv
<1> SUFFICES ASSUME Init PROVE BatchInv
  OBVIOUS
<1> USE BatchAssumption DEF Init
<1>1. PlacedIn(InPermit) = {} /\ PlacedIn({"done"}) = {} /\ \A d \in Domains : TimedOutIn(d) = {}
  BY DEF PlacedIn, TimedOutIn, InPermit
<1>2. Cardinality({}) = 0 /\ Cardinality(Urls) \in Nat
  BY FS_EmptySet, FS_CardinalityType
<1>3. TypeOK
  <2>1. row \in [Urls -> RowStates] /\ summary \in [Urls -> BOOLEAN] /\ domain \in [Urls -> Domains]
    BY DEF RowStates
  <2>2. permits \in 0..MaxConcurrent /\ completed \in 0..Cardinality(Urls) /\ dbFaults \in 0..MaxDbFaults
    BY <1>2
  <2>3. /\ attempt \in [Urls -> 0..MaxRetries] /\ timeouts \in [Domains -> 0..Cardinality(Urls)]
        /\ cards \in [Urls -> 0..1]
    BY <1>2
  <2>4. deliverer \subseteq Urls /\ Cardinality(deliverer) <= 1
    BY <1>2
  <2>5. /\ phase \in {"register", "running", "over"} /\ registered \subseteq Urls /\ foreign \subseteq Urls
        /\ entry \in [Urls -> EntryStates] /\ pc \in [Urls -> PCs] /\ flow \in [Urls -> FlowStates]
        /\ outcome \in [Urls -> {"none", "skipped", "timeout"}]
        /\ failedDomains \subseteq Domains /\ cancelled \in BOOLEAN
        /\ exhausted \subseteq Urls /\ swallowed \subseteq Urls
    BY DEF EntryStates, FlowStates, PCs
  <2> QED BY <2>1, <2>2, <2>3, <2>4, <2>5 DEF TypeOK
<1>4. PermitsCounted /\ TimeoutsCounted
  <2>1. permits + 0 = MaxConcurrent
    OBVIOUS
  <2>2. \A d \in Domains : timeouts[d] = 0
    OBVIOUS
  <2>3. failedDomains = {} /\ completed = 0
    OBVIOUS
  <2> QED BY ONLY <1>1, <1>2, <2>1, <2>2, <2>3 DEF PermitsCounted, TimeoutsCounted
<1>5. PlacesFit
  BY DEF PlacesFit
<1>6. PhasesFit /\ FailureIsRecorded
  BY DEF PhasesFit, FailureIsRecorded
<1> QED BY <1>3, <1>4, <1>5, <1>6 DEF BatchInv

-----------------------------------------------------------------------------
(* The steps *)

\* A coroutine that moves takes and gives its permit, and is counted, as the counters say.
LEMMA CountersMove ==
  ASSUME TypeOK, PermitsCounted, NEW u \in Urls, NEW place, pc' = [pc EXCEPT ![u] = place],
         permits' = permits + (IF pc[u] \in InPermit THEN 1 ELSE 0) - (IF place \in InPermit THEN 1 ELSE 0),
         completed' = completed + (IF place = "done" THEN 1 ELSE 0) - (IF pc[u] = "done" THEN 1 ELSE 0)
  PROVE  PermitsCounted' /\ permits' <= MaxConcurrent /\ completed' \in 0..Cardinality(Urls)
<1>1. /\ pc = [v \in Urls |-> pc[v]] /\ permits \in Nat /\ completed \in Nat /\ MaxConcurrent \in Nat
      /\ permits + Cardinality(PlacedIn(InPermit)) = MaxConcurrent
      /\ completed = Cardinality(PlacedIn({"done"}))
  BY BatchAssumption, PlacedFinite DEF TypeOK, PermitsCounted
<1>2. /\ Cardinality(PlacedIn(InPermit)') =
           Cardinality(PlacedIn(InPermit)) + (IF place \in InPermit THEN 1 ELSE 0)
                                           - (IF pc[u] \in InPermit THEN 1 ELSE 0)
      /\ Cardinality(PlacedIn({"done"})') =
           Cardinality(PlacedIn({"done"})) + (IF place \in {"done"} THEN 1 ELSE 0)
                                           - (IF pc[u] \in {"done"} THEN 1 ELSE 0)
  BY <1>1, MoveCounts
<1>3. /\ Cardinality(PlacedIn(InPermit)) \in Nat /\ Cardinality(PlacedIn({"done"})) \in Nat
      /\ Cardinality(PlacedIn(InPermit)') \in Nat /\ Cardinality(PlacedIn({"done"})') \in Nat
      /\ Cardinality(PlacedIn({"done"})') <= Cardinality(Urls) /\ Cardinality(Urls) \in Nat
  BY PlacedFinite, BatchAssumption, FS_Subset, FS_CardinalityType DEF PlacedIn
<1>4. permits' + Cardinality(PlacedIn(InPermit)') = MaxConcurrent
  BY ONLY <1>1, <1>2, <1>3,
     permits' = permits + (IF pc[u] \in InPermit THEN 1 ELSE 0) - (IF place \in InPermit THEN 1 ELSE 0)
<1>5. completed' = Cardinality(PlacedIn({"done"})')
  BY ONLY <1>1, <1>2, <1>3,
     completed' = completed + (IF place = "done" THEN 1 ELSE 0) - (IF pc[u] = "done" THEN 1 ELSE 0)
<1>7. permits' \in Int
  BY ONLY <1>1, permits' = permits + (IF pc[u] \in InPermit THEN 1 ELSE 0) - (IF place \in InPermit THEN 1 ELSE 0)
<1>8. permits' <= MaxConcurrent
  BY ONLY <1>1, <1>3, <1>4, <1>7
<1> QED BY <1>3, <1>4, <1>5, <1>8 DEF PermitsCounted

\* Nor does anything else change them.
LEMMA CountersStay ==
  /\ PermitsCounted /\ UNCHANGED <<pc, permits, completed>> => PermitsCounted'
  /\ TimeoutsCounted /\ UNCHANGED <<domain, timeouts, failedDomains, exhausted>> => TimeoutsCounted'
BY DEF PermitsCounted, TimeoutsCounted, PlacedIn, TimedOutIn

\* Every step of the batch, of its coroutines and of their flows keeps the invariant.
LEMMA BatchInvNext == BatchInv /\ [Next]_vars => BatchInv'
<1> SUFFICES ASSUME BatchInv, [Next]_vars PROVE BatchInv'
  OBVIOUS
<1> USE BatchAssumption DEF BatchInv, batchVars, rowVars, domainVars, history, Goto, Mark, Leave, Count, Quiet
<1>1. ASSUME NEW u \in Urls, RegisterCached(u) PROVE BatchInv'
  <2> USE <1>1 DEF RegisterCached, Registering
  <2>1. /\ PermitsCounted' /\ TimeoutsCounted'
        /\ permits' <= MaxConcurrent /\ completed' \in 0..Cardinality(Urls)
    <3> DEFINE place == "registered"
    <3>1. pc' = [pc EXCEPT ![u] = place]
      OBVIOUS
    <3>2. permits' = permits + (IF pc[u] \in InPermit THEN 1 ELSE 0) - (IF place \in InPermit THEN 1 ELSE 0)
      BY DEF TypeOK, InPermit
    <3>3. completed' = completed + (IF place = "done" THEN 1 ELSE 0) - (IF pc[u] = "done" THEN 1 ELSE 0)
      BY DEF TypeOK
    <3>4. TimeoutsCounted'
      BY CountersStay
    <3> HIDE DEF place
    <3> QED BY <3>1, <3>2, <3>3, <3>4, CountersMove
  <2>2. TypeOK'
    BY <2>1 DEF TypeOK, EntryStates, RowStates, FlowStates, PCs, InPermit, Settled
  <2>3. PlacesFit'
    BY DEF PlacesFit, TypeOK
  <2>4. PhasesFit'
    BY DEF PhasesFit, TypeOK, Settled
  <2>5. FailureIsRecorded'
    BY DEF FailureIsRecorded, TypeOK, PlacesFit
  <2> QED BY <2>1, <2>2, <2>3, <2>4, <2>5
<1>2. ASSUME NEW u \in Urls, RegisterSkipped(u) PROVE BatchInv'
  <2> USE <1>2 DEF RegisterSkipped, Registering
  <2>1. /\ PermitsCounted' /\ TimeoutsCounted'
        /\ permits' <= MaxConcurrent /\ completed' \in 0..Cardinality(Urls)
    <3> DEFINE place == "registered"
    <3>1. pc' = [pc EXCEPT ![u] = place]
      OBVIOUS
    <3>2. permits' = permits + (IF pc[u] \in InPermit THEN 1 ELSE 0) - (IF place \in InPermit THEN 1 ELSE 0)
      BY DEF TypeOK, InPermit
    <3>3. completed' = completed + (IF place = "done" THEN 1 ELSE 0) - (IF pc[u] = "done" THEN 1 ELSE 0)
      BY DEF TypeOK
    <3>4. TimeoutsCounted'
      BY CountersStay
    <3> HIDE DEF place
    <3> QED BY <3>1, <3>2, <3>3, <3>4, CountersMove
  <2>2. TypeOK'
    BY <2>1 DEF TypeOK, EntryStates, RowStates, FlowStates, PCs, InPermit, Settled
  <2>3. PlacesFit'
    BY DEF PlacesFit, TypeOK
  <2>4. PhasesFit'
    BY DEF PhasesFit, TypeOK, Settled
  <2>5. FailureIsRecorded'
    BY DEF FailureIsRecorded, TypeOK, PlacesFit
  <2> QED BY <2>1, <2>2, <2>3, <2>4, <2>5
<1>3. ASSUME NEW u \in Urls, RegisterLookup(u) PROVE BatchInv'
  <2> USE <1>3 DEF RegisterLookup, Registering
  <2>1. /\ PermitsCounted' /\ TimeoutsCounted'
        /\ permits' <= MaxConcurrent /\ completed' \in 0..Cardinality(Urls)
    <3> DEFINE place == "create"
    <3>1. pc' = [pc EXCEPT ![u] = place]
      OBVIOUS
    <3>2. permits' = permits + (IF pc[u] \in InPermit THEN 1 ELSE 0) - (IF place \in InPermit THEN 1 ELSE 0)
      BY DEF TypeOK, InPermit
    <3>3. completed' = completed + (IF place = "done" THEN 1 ELSE 0) - (IF pc[u] = "done" THEN 1 ELSE 0)
      BY DEF TypeOK
    <3>4. TimeoutsCounted'
      BY CountersStay
    <3> HIDE DEF place
    <3> QED BY <3>1, <3>2, <3>3, <3>4, CountersMove
  <2>2. TypeOK'
    BY <2>1 DEF TypeOK, EntryStates, RowStates, FlowStates, PCs, InPermit, Settled
  <2>3. PlacesFit'
    BY DEF PlacesFit, TypeOK
  <2>4. PhasesFit'
    BY DEF PhasesFit, TypeOK, Settled
  <2>5. FailureIsRecorded'
    BY DEF FailureIsRecorded, TypeOK, PlacesFit
  <2> QED BY <2>1, <2>2, <2>3, <2>4, <2>5
<1>4. ASSUME NEW u \in Urls, RegisterCreate(u) PROVE BatchInv'
  <2> USE <1>4 DEF RegisterCreate, Registering
  <2>1. /\ PermitsCounted' /\ TimeoutsCounted'
        /\ permits' <= MaxConcurrent /\ completed' \in 0..Cardinality(Urls)
    <3> DEFINE place == "registered"
    <3>1. pc' = [pc EXCEPT ![u] = place]
      OBVIOUS
    <3>2. permits' = permits + (IF pc[u] \in InPermit THEN 1 ELSE 0) - (IF place \in InPermit THEN 1 ELSE 0)
      BY DEF TypeOK, InPermit
    <3>3. completed' = completed + (IF place = "done" THEN 1 ELSE 0) - (IF pc[u] = "done" THEN 1 ELSE 0)
      BY DEF TypeOK
    <3>4. TimeoutsCounted'
      BY CountersStay
    <3> HIDE DEF place
    <3> QED BY <3>1, <3>2, <3>3, <3>4, CountersMove
  <2>2. TypeOK'
    BY <2>1 DEF TypeOK, EntryStates, RowStates, FlowStates, PCs, InPermit, Settled
  <2>3. PlacesFit'
    BY DEF PlacesFit, TypeOK
  <2>4. PhasesFit'
    BY DEF PhasesFit, TypeOK, Settled
  <2>5. FailureIsRecorded'
    BY DEF FailureIsRecorded, TypeOK, PlacesFit
  <2> QED BY <2>1, <2>2, <2>3, <2>4, <2>5
<1>5. ASSUME NEW u \in Urls, CachedCounted(u) PROVE BatchInv'
  <2> USE <1>5 DEF CachedCounted
  <2>1. /\ PermitsCounted' /\ TimeoutsCounted'
        /\ permits' <= MaxConcurrent /\ completed' \in 0..Cardinality(Urls)
    <3> DEFINE place == "done"
    <3>1. pc' = [pc EXCEPT ![u] = place]
      OBVIOUS
    <3>2. permits' = permits + (IF pc[u] \in InPermit THEN 1 ELSE 0) - (IF place \in InPermit THEN 1 ELSE 0)
      BY DEF TypeOK, InPermit
    <3>3. completed' = completed + (IF place = "done" THEN 1 ELSE 0) - (IF pc[u] = "done" THEN 1 ELSE 0)
      BY DEF TypeOK
    <3>4. TimeoutsCounted'
      BY CountersStay
    <3> HIDE DEF place
    <3> QED BY <3>1, <3>2, <3>3, <3>4, CountersMove
  <2>2. TypeOK'
    BY <2>1 DEF TypeOK, EntryStates, RowStates, FlowStates, PCs, InPermit, Settled
  <2>3. PlacesFit'
    BY DEF PlacesFit, TypeOK
  <2>4. PhasesFit'
    BY DEF PhasesFit, TypeOK, Settled
  <2>5. FailureIsRecorded'
    BY DEF FailureIsRecorded, TypeOK, PlacesFit
  <2> QED BY <2>1, <2>2, <2>3, <2>4, <2>5
<1>6. ASSUME NEW u \in Urls, Enter(u) PROVE BatchInv'
  <2> USE <1>6 DEF Enter, GivenUp
  <2>1. /\ PermitsCounted' /\ TimeoutsCounted'
        /\ permits' <= MaxConcurrent /\ completed' \in 0..Cardinality(Urls)
    <3> DEFINE place == IF GivenUp(u) THEN "writeSkipped" ELSE "compute"
    <3>1. pc' = [pc EXCEPT ![u] = place]
      OBVIOUS
    <3>2. permits' = permits + (IF pc[u] \in InPermit THEN 1 ELSE 0) - (IF place \in InPermit THEN 1 ELSE 0)
      BY DEF TypeOK, InPermit
    <3>3. completed' = completed + (IF place = "done" THEN 1 ELSE 0) - (IF pc[u] = "done" THEN 1 ELSE 0)
      BY DEF TypeOK
    <3>4. TimeoutsCounted'
      BY CountersStay
    <3> HIDE DEF place
    <3> QED BY <3>1, <3>2, <3>3, <3>4, CountersMove
  <2>2. TypeOK'
    BY <2>1 DEF TypeOK, EntryStates, RowStates, FlowStates, PCs, InPermit, Settled
  <2>3. PlacesFit'
    BY DEF PlacesFit, TypeOK
  <2>4. PhasesFit'
    BY DEF PhasesFit, TypeOK, Settled
  <2>5. FailureIsRecorded'
    BY DEF FailureIsRecorded, TypeOK, PlacesFit
  <2> QED BY <2>1, <2>2, <2>3, <2>4, <2>5
<1>7. ASSUME NEW u \in Urls, WriteSkipped(u) PROVE BatchInv'
  <2> USE <1>7 DEF WriteSkipped, RecordFailure
  <2>1. /\ PermitsCounted' /\ TimeoutsCounted'
        /\ permits' <= MaxConcurrent /\ completed' \in 0..Cardinality(Urls)
    <3> DEFINE place == "done"
    <3>1. pc' = [pc EXCEPT ![u] = place]
      OBVIOUS
    <3>2. permits' = permits + (IF pc[u] \in InPermit THEN 1 ELSE 0) - (IF place \in InPermit THEN 1 ELSE 0)
      BY DEF TypeOK, InPermit
    <3>3. completed' = completed + (IF place = "done" THEN 1 ELSE 0) - (IF pc[u] = "done" THEN 1 ELSE 0)
      BY DEF TypeOK
    <3>4. TimeoutsCounted'
      BY CountersStay
    <3> HIDE DEF place
    <3> QED BY <3>1, <3>2, <3>3, <3>4, CountersMove
  <2>2. TypeOK'
    BY <2>1 DEF TypeOK, EntryStates, RowStates, FlowStates, PCs, InPermit, Settled
  <2>3. PlacesFit'
    BY DEF PlacesFit, TypeOK
  <2>4. PhasesFit'
    BY DEF PhasesFit, TypeOK, Settled
  <2>5. FailureIsRecorded'
    BY DEF FailureIsRecorded, TypeOK, PlacesFit
  <2> QED BY <2>1, <2>2, <2>3, <2>4, <2>5
<1>8. ASSUME NEW u \in Urls, StartAttempt(u) PROVE BatchInv'
  <2> USE <1>8 DEF StartAttempt, GivenUp
  <2>1. /\ PermitsCounted' /\ TimeoutsCounted'
        /\ permits' <= MaxConcurrent /\ completed' \in 0..Cardinality(Urls)
    <3> DEFINE place == IF GivenUp(u) THEN "reap" ELSE "wait"
    <3>1. pc' = [pc EXCEPT ![u] = place]
      OBVIOUS
    <3>2. permits' = permits + (IF pc[u] \in InPermit THEN 1 ELSE 0) - (IF place \in InPermit THEN 1 ELSE 0)
      BY DEF TypeOK, InPermit
    <3>3. completed' = completed + (IF place = "done" THEN 1 ELSE 0) - (IF pc[u] = "done" THEN 1 ELSE 0)
      BY DEF TypeOK
    <3>4. TimeoutsCounted'
      BY CountersStay
    <3> HIDE DEF place
    <3> QED BY <3>1, <3>2, <3>3, <3>4, CountersMove
  <2>2. TypeOK'
    BY <2>1 DEF TypeOK, EntryStates, RowStates, FlowStates, PCs, InPermit, Settled
  <2>3. PlacesFit'
    BY DEF PlacesFit, TypeOK
  <2>4. PhasesFit'
    BY DEF PhasesFit, TypeOK, Settled
  <2>5. FailureIsRecorded'
    BY DEF FailureIsRecorded, TypeOK, PlacesFit
  <2> QED BY <2>1, <2>2, <2>3, <2>4, <2>5
<1>9. ASSUME NEW u \in Urls, DomainEvent(u) PROVE BatchInv'
  <2> USE <1>9 DEF DomainEvent, WaitEnds
  <2>1. /\ PermitsCounted' /\ TimeoutsCounted'
        /\ permits' <= MaxConcurrent /\ completed' \in 0..Cardinality(Urls)
    <3> DEFINE place == "reap"
    <3>1. pc' = [pc EXCEPT ![u] = place]
      OBVIOUS
    <3>2. permits' = permits + (IF pc[u] \in InPermit THEN 1 ELSE 0) - (IF place \in InPermit THEN 1 ELSE 0)
      BY DEF TypeOK, InPermit
    <3>3. completed' = completed + (IF place = "done" THEN 1 ELSE 0) - (IF pc[u] = "done" THEN 1 ELSE 0)
      BY DEF TypeOK
    <3>4. TimeoutsCounted'
      BY CountersStay
    <3> HIDE DEF place
    <3> QED BY <3>1, <3>2, <3>3, <3>4, CountersMove
  <2>2. TypeOK'
    BY <2>1 DEF TypeOK, EntryStates, RowStates, FlowStates, PCs, InPermit, Settled
  <2>3. PlacesFit'
    BY DEF PlacesFit, TypeOK
  <2>4. PhasesFit'
    BY DEF PhasesFit, TypeOK, Settled
  <2>5. FailureIsRecorded'
    BY DEF FailureIsRecorded, TypeOK, PlacesFit
  <2> QED BY <2>1, <2>2, <2>3, <2>4, <2>5
<1>10. ASSUME NEW u \in Urls, Timeout(u) PROVE BatchInv'
  <2> USE <1>10 DEF Timeout, WaitEnds
  <2>1. /\ PermitsCounted' /\ TimeoutsCounted'
        /\ permits' <= MaxConcurrent /\ completed' \in 0..Cardinality(Urls)
    <3> DEFINE place == "reap"
    <3>1. pc' = [pc EXCEPT ![u] = place]
      OBVIOUS
    <3>2. permits' = permits + (IF pc[u] \in InPermit THEN 1 ELSE 0) - (IF place \in InPermit THEN 1 ELSE 0)
      BY DEF TypeOK, InPermit
    <3>3. completed' = completed + (IF place = "done" THEN 1 ELSE 0) - (IF pc[u] = "done" THEN 1 ELSE 0)
      BY DEF TypeOK
    <3>4. TimeoutsCounted'
      BY CountersStay
    <3> HIDE DEF place
    <3> QED BY <3>1, <3>2, <3>3, <3>4, CountersMove
  <2>2. TypeOK'
    BY <2>1 DEF TypeOK, EntryStates, RowStates, FlowStates, PCs, InPermit, Settled
  <2>3. PlacesFit'
    BY DEF PlacesFit, TypeOK
  <2>4. PhasesFit'
    BY DEF PhasesFit, TypeOK, Settled
  <2>5. FailureIsRecorded'
    BY DEF FailureIsRecorded, TypeOK, PlacesFit
  <2> QED BY <2>1, <2>2, <2>3, <2>4, <2>5
<1>11. ASSUME NEW u \in Urls, ResultArrives(u) PROVE BatchInv'
  <2> USE <1>11 DEF ResultArrives
  <2>1. /\ PermitsCounted' /\ TimeoutsCounted'
        /\ permits' <= MaxConcurrent /\ completed' \in 0..Cardinality(Urls)
    <3> DEFINE place == IF flow[u] = "ok" THEN "deliver" ELSE "done"
    <3>1. pc' = [pc EXCEPT ![u] = place]
      OBVIOUS
    <3>2. permits' = permits + (IF pc[u] \in InPermit THEN 1 ELSE 0) - (IF place \in InPermit THEN 1 ELSE 0)
      BY DEF TypeOK, InPermit
    <3>3. completed' = completed + (IF place = "done" THEN 1 ELSE 0) - (IF pc[u] = "done" THEN 1 ELSE 0)
      BY DEF TypeOK
    <3>4. TimeoutsCounted'
      BY CountersStay
    <3> HIDE DEF place
    <3> QED BY <3>1, <3>2, <3>3, <3>4, CountersMove
  <2>2. TypeOK'
    BY <2>1 DEF TypeOK, EntryStates, RowStates, FlowStates, PCs, InPermit, Settled
  <2>3. PlacesFit'
    BY DEF PlacesFit, TypeOK
  <2>4. PhasesFit'
    BY DEF PhasesFit, TypeOK, Settled
  <2>5. FailureIsRecorded'
    BY DEF FailureIsRecorded, TypeOK, PlacesFit
  <2> QED BY <2>1, <2>2, <2>3, <2>4, <2>5
<1>12. ASSUME NEW u \in Urls, ExceptionArrives(u) PROVE BatchInv'
  <2> USE <1>12 DEF ExceptionArrives, RetryOrFail, GiveUp, MayRetry
  <2>1. /\ PermitsCounted' /\ TimeoutsCounted'
        /\ permits' <= MaxConcurrent /\ completed' \in 0..Cardinality(Urls)
    <3> DEFINE place == IF flow[u] = "transient" /\ MayRetry(u) THEN "backoff" ELSE "writeError"
    <3>1. pc' = [pc EXCEPT ![u] = place]
      OBVIOUS
    <3>2. permits' = permits + (IF pc[u] \in InPermit THEN 1 ELSE 0) - (IF place \in InPermit THEN 1 ELSE 0)
      BY DEF TypeOK, InPermit
    <3>3. completed' = completed + (IF place = "done" THEN 1 ELSE 0) - (IF pc[u] = "done" THEN 1 ELSE 0)
      BY DEF TypeOK
    <3>4. TimeoutsCounted'
      BY CountersStay
    <3> HIDE DEF place
    <3> QED BY <3>1, <3>2, <3>3, <3>4, CountersMove
  <2>2. TypeOK'
    BY <2>1 DEF TypeOK, EntryStates, RowStates, FlowStates, PCs, InPermit, Settled
  <2>3. PlacesFit'
    BY DEF PlacesFit, TypeOK
  <2>4. PhasesFit'
    BY DEF PhasesFit, TypeOK, Settled
  <2>5. FailureIsRecorded'
    BY DEF FailureIsRecorded, TypeOK, PlacesFit
  <2> QED BY <2>1, <2>2, <2>3, <2>4, <2>5
<1>13. ASSUME NEW u \in Urls, Reaped(u) PROVE BatchInv'
  <2> USE <1>13 DEF Reaped, GiveUp, Alive
  <2>1. /\ PermitsCounted' /\ TimeoutsCounted'
        /\ permits' <= MaxConcurrent /\ completed' \in 0..Cardinality(Urls)
    <3> DEFINE place == "writeError"
    <3>1. pc' = [pc EXCEPT ![u] = place]
      OBVIOUS
    <3>2. permits' = permits + (IF pc[u] \in InPermit THEN 1 ELSE 0) - (IF place \in InPermit THEN 1 ELSE 0)
      BY DEF TypeOK, InPermit
    <3>3. completed' = completed + (IF place = "done" THEN 1 ELSE 0) - (IF pc[u] = "done" THEN 1 ELSE 0)
      BY DEF TypeOK
    <3>4. TimeoutsCounted'
      BY CountersStay
    <3> HIDE DEF place
    <3> QED BY <3>1, <3>2, <3>3, <3>4, CountersMove
  <2>2. TypeOK'
    BY <2>1 DEF TypeOK, EntryStates, RowStates, FlowStates, PCs, InPermit, Settled
  <2>3. PlacesFit'
    BY DEF PlacesFit, TypeOK
  <2>4. PhasesFit'
    BY DEF PhasesFit, TypeOK, Settled
  <2>5. FailureIsRecorded'
    BY DEF FailureIsRecorded, TypeOK, PlacesFit
  <2> QED BY <2>1, <2>2, <2>3, <2>4, <2>5
<1>14. ASSUME NEW u \in Urls, TimedOut(u) PROVE BatchInv'
  <2> USE <1>14 DEF TimedOut, RetryOrFail, GiveUp, MayRetry, Alive
  <2>1. PermitsCounted' /\ permits' <= MaxConcurrent /\ completed' \in 0..Cardinality(Urls)
    <3> DEFINE place == IF MayRetry(u) THEN "backoff" ELSE "writeError"
    <3>1. pc' = [pc EXCEPT ![u] = place]
      OBVIOUS
    <3>2. permits' = permits + (IF pc[u] \in InPermit THEN 1 ELSE 0) - (IF place \in InPermit THEN 1 ELSE 0)
      BY DEF TypeOK, InPermit
    <3>3. completed' = completed + (IF place = "done" THEN 1 ELSE 0) - (IF pc[u] = "done" THEN 1 ELSE 0)
      BY DEF TypeOK
    <3> HIDE DEF place
    <3> QED BY <3>1, <3>2, <3>3, CountersMove
  <2>2. TimeoutsCounted' /\ timeouts' \in [Domains -> 0..Cardinality(Urls)]
    <3>1. CASE MayRetry(u)
      BY <3>1, CountersStay DEF TypeOK
    <3>2. CASE ~MayRetry(u)
      <4> DEFINE d == domain[u]
                 n == timeouts[d] + 1
      <4>1. /\ timeouts' = [timeouts EXCEPT ![d] = n]
            /\ failedDomains' = IF GivesUpDomain(n) THEN failedDomains \cup {d} ELSE failedDomains
            /\ exhausted' = exhausted \cup {u} /\ domain' = domain
        BY <3>2
      <4>2. d \in Domains /\ u \notin exhausted /\ exhausted \subseteq Urls
        BY DEF PlacesFit, TypeOK
      <4>3. TimedOutIn(d)' = TimedOutIn(d) \cup {u} /\ u \notin TimedOutIn(d)
        BY <4>1, <4>2 DEF TimedOutIn
      <4>4. \A x \in Domains \ {d} : TimedOutIn(x)' = TimedOutIn(x)
        BY <4>1, <4>2 DEF TimedOutIn
      <4>5. IsFiniteSet(TimedOutIn(d)) /\ IsFiniteSet(TimedOutIn(d)')
        BY <4>1, <4>2, BatchAssumption, FS_Subset DEF TimedOutIn
      <4>6. timeouts[d] = Cardinality(TimedOutIn(d)) /\ timeouts[d] \in Nat
        BY <4>2 DEF TimeoutsCounted, TypeOK
      <4>7. timeouts'[d] = n
        BY <4>1, <4>2 DEF TypeOK
      <4>8. n = Cardinality(TimedOutIn(d)') /\ n <= Cardinality(Urls) /\ n \in Nat /\ Cardinality(Urls) \in Nat
        <5>1. TimedOutIn(d)' \in SUBSET Urls
          BY <4>1, <4>2 DEF TimedOutIn
        <5>2. Cardinality(TimedOutIn(d)') = n
          BY <4>3, <4>5, <4>6, FS_AddElement
        <5>3. Cardinality(TimedOutIn(d)') <= Cardinality(Urls)
          BY <5>1, BatchAssumption, FS_Subset
        <5> QED BY <5>2, <5>3, <4>5, FS_CardinalityType
      <4>9. \A x \in Domains : timeouts'[x] = Cardinality(TimedOutIn(x)')
        <5> SUFFICES ASSUME NEW x \in Domains PROVE timeouts'[x] = Cardinality(TimedOutIn(x)')
          OBVIOUS
        <5>1. CASE x = d
          BY <5>1, <4>7, <4>8
        <5>2. CASE x # d
          <6>1. timeouts'[x] = timeouts[x]
            BY <5>2, <4>1, <4>2 DEF TypeOK
          <6> QED BY <5>2, <6>1, <4>4 DEF TimeoutsCounted
        <5> QED BY <5>1, <5>2
      <4>10. \A x \in failedDomains' : timeouts'[x] >= FailFastThreshold
        <5> SUFFICES ASSUME NEW x \in failedDomains' PROVE timeouts'[x] >= FailFastThreshold
          OBVIOUS
        <5>1. CASE x = d
          <6>1. GivesUpDomain(n) \/ x \in failedDomains
            BY <4>1, <5>1
          <6> QED BY <5>1, <6>1, <4>6, <4>7 DEF GivesUpDomain, TimeoutsCounted, FailFastThreshold
        <5>2. CASE x # d
          <6>1. x \in failedDomains /\ timeouts'[x] = timeouts[x]
            BY <4>1, <4>2, <5>2 DEF TypeOK
          <6> QED BY <6>1 DEF TimeoutsCounted
        <5> QED BY <5>1, <5>2
      <4>11. timeouts' \in [Domains -> 0..Cardinality(Urls)]
        BY <4>1, <4>8 DEF TypeOK
      <4> HIDE DEF n, d
      <4> QED BY <4>9, <4>10, <4>11 DEF TimeoutsCounted
    <3> QED BY <3>1, <3>2
  <2>3. TypeOK'
    <3>1. failedDomains' \subseteq Domains /\ exhausted' \subseteq Urls
      BY DEF TypeOK
    <3>2. UNCHANGED <<phase, domain, registered, row, summary, foreign, attempt, deliverer, cancelled, dbFaults,
                      cards, swallowed>>
      OBVIOUS
    <3>3. /\ pc' \in [Urls -> PCs] /\ entry' \in [Urls -> EntryStates] /\ flow' \in [Urls -> FlowStates]
          /\ outcome' \in [Urls -> {"none", "skipped", "timeout"}]
      BY DEF TypeOK, EntryStates, FlowStates, PCs, InPermit
    <3>4. permits' \in 0..MaxConcurrent
      BY DEF TypeOK
    <3> QED BY ONLY TypeOK, <2>1, <2>2, <3>1, <3>2, <3>3, <3>4 DEF TypeOK
  <2>4. PlacesFit'
    BY DEF PlacesFit, TypeOK
  <2>5. PhasesFit'
    BY DEF PhasesFit, TypeOK, Settled
  <2>6. FailureIsRecorded'
    BY DEF FailureIsRecorded, TypeOK, PlacesFit
  <2> QED BY <2>1, <2>2, <2>3, <2>4, <2>5, <2>6
<1>15. ASSUME NEW u \in Urls, Retry(u) PROVE BatchInv'
  <2> USE <1>15 DEF Retry, GivenUp, GiveUp
  <2>1. /\ PermitsCounted' /\ TimeoutsCounted'
        /\ permits' <= MaxConcurrent /\ completed' \in 0..Cardinality(Urls)
    <3> DEFINE place == IF GivenUp(u) THEN "writeError" ELSE "compute"
    <3>1. pc' = [pc EXCEPT ![u] = place]
      OBVIOUS
    <3>2. permits' = permits + (IF pc[u] \in InPermit THEN 1 ELSE 0) - (IF place \in InPermit THEN 1 ELSE 0)
      BY DEF TypeOK, InPermit
    <3>3. completed' = completed + (IF place = "done" THEN 1 ELSE 0) - (IF pc[u] = "done" THEN 1 ELSE 0)
      BY DEF TypeOK
    <3>4. TimeoutsCounted'
      BY CountersStay
    <3> HIDE DEF place
    <3> QED BY <3>1, <3>2, <3>3, <3>4, CountersMove
  <2>2. TypeOK'
    <3>1. attempt' \in [Urls -> 0..MaxRetries]
      <4>1. attempt[u] \in Nat /\ attempt[u] < MaxRetries /\ MaxRetries \in Nat
        BY DEF PlacesFit, TypeOK
      <4> QED BY <4>1 DEF TypeOK
    <3>2. pc' \in [Urls -> PCs] /\ entry' \in [Urls -> EntryStates]
      BY DEF TypeOK, EntryStates, PCs, InPermit
    <3> QED BY <2>1, <3>1, <3>2 DEF TypeOK
  <2>3. PlacesFit'
    BY DEF PlacesFit, TypeOK
  <2>4. PhasesFit'
    BY DEF PhasesFit, TypeOK, Settled
  <2>5. FailureIsRecorded'
    BY DEF FailureIsRecorded, TypeOK, PlacesFit
  <2> QED BY <2>1, <2>2, <2>3, <2>4, <2>5
<1>16. ASSUME NEW u \in Urls, WriteError(u) PROVE BatchInv'
  <2> USE <1>16 DEF WriteError, RecordFailure
  <2>1. /\ PermitsCounted' /\ TimeoutsCounted'
        /\ permits' <= MaxConcurrent /\ completed' \in 0..Cardinality(Urls)
    <3> DEFINE place == "done"
    <3>1. pc' = [pc EXCEPT ![u] = place]
      OBVIOUS
    <3>2. permits' = permits + (IF pc[u] \in InPermit THEN 1 ELSE 0) - (IF place \in InPermit THEN 1 ELSE 0)
      BY DEF TypeOK, InPermit
    <3>3. completed' = completed + (IF place = "done" THEN 1 ELSE 0) - (IF pc[u] = "done" THEN 1 ELSE 0)
      BY DEF TypeOK
    <3>4. TimeoutsCounted'
      BY CountersStay
    <3> HIDE DEF place
    <3> QED BY <3>1, <3>2, <3>3, <3>4, CountersMove
  <2>2. TypeOK'
    BY <2>1 DEF TypeOK, EntryStates, RowStates, FlowStates, PCs, InPermit, Settled
  <2>3. PlacesFit'
    BY DEF PlacesFit, TypeOK
  <2>4. PhasesFit'
    BY DEF PhasesFit, TypeOK, Settled
  <2>5. FailureIsRecorded'
    BY DEF FailureIsRecorded, TypeOK, PlacesFit
  <2> QED BY <2>1, <2>2, <2>3, <2>4, <2>5
<1>17. ASSUME NEW u \in Urls, TakeDeliveryLock(u) PROVE BatchInv'
  <2> USE <1>17 DEF TakeDeliveryLock
  <2>1. /\ PermitsCounted' /\ TimeoutsCounted'
        /\ permits' <= MaxConcurrent /\ completed' \in 0..Cardinality(Urls)
    <3> DEFINE place == "sending"
    <3>1. pc' = [pc EXCEPT ![u] = place]
      OBVIOUS
    <3>2. permits' = permits + (IF pc[u] \in InPermit THEN 1 ELSE 0) - (IF place \in InPermit THEN 1 ELSE 0)
      BY DEF TypeOK, InPermit
    <3>3. completed' = completed + (IF place = "done" THEN 1 ELSE 0) - (IF pc[u] = "done" THEN 1 ELSE 0)
      BY DEF TypeOK
    <3>4. TimeoutsCounted'
      BY CountersStay
    <3> HIDE DEF place
    <3> QED BY <3>1, <3>2, <3>3, <3>4, CountersMove
  <2>2. TypeOK'
    <3>1. deliverer' \subseteq Urls /\ Cardinality(deliverer') = 1
      BY FS_Singleton
    <3>2. pc' \in [Urls -> PCs]
      BY DEF TypeOK, PCs, InPermit
    <3> QED BY <2>1, <3>1, <3>2 DEF TypeOK
  <2>3. PlacesFit'
    BY DEF PlacesFit, TypeOK
  <2>4. PhasesFit'
    BY DEF PhasesFit, TypeOK, Settled
  <2>5. FailureIsRecorded'
    BY DEF FailureIsRecorded, TypeOK, PlacesFit
  <2> QED BY <2>1, <2>2, <2>3, <2>4, <2>5
<1>18. ASSUME NEW u \in Urls, SendCard(u) PROVE BatchInv'
  <2> USE <1>18 DEF SendCard
  <2>1. /\ PermitsCounted' /\ TimeoutsCounted'
        /\ permits' <= MaxConcurrent /\ completed' \in 0..Cardinality(Urls)
    <3> DEFINE place == "done"
    <3>1. pc' = [pc EXCEPT ![u] = place]
      OBVIOUS
    <3>2. permits' = permits + (IF pc[u] \in InPermit THEN 1 ELSE 0) - (IF place \in InPermit THEN 1 ELSE 0)
      BY DEF TypeOK, InPermit
    <3>3. completed' = completed + (IF place = "done" THEN 1 ELSE 0) - (IF pc[u] = "done" THEN 1 ELSE 0)
      BY DEF TypeOK
    <3>4. TimeoutsCounted'
      BY CountersStay
    <3> HIDE DEF place
    <3> QED BY <3>1, <3>2, <3>3, <3>4, CountersMove
  <2>2. TypeOK'
    BY <2>1, FS_EmptySet DEF TypeOK, EntryStates, RowStates, FlowStates, PCs, InPermit, Settled, PlacesFit
  <2>3. PlacesFit'
    BY DEF PlacesFit, TypeOK
  <2>4. PhasesFit'
    BY DEF PhasesFit, TypeOK, Settled
  <2>5. FailureIsRecorded'
    BY DEF FailureIsRecorded, TypeOK, PlacesFit
  <2> QED BY <2>1, <2>2, <2>3, <2>4, <2>5
<1>19. ASSUME NEW u \in Urls, Aborted(u) PROVE BatchInv'
  <2> USE <1>19 DEF Aborted, Alive
  <2>1. /\ PermitsCounted' /\ TimeoutsCounted'
        /\ permits' <= MaxConcurrent /\ completed' \in 0..Cardinality(Urls)
    <3> DEFINE place == "cancelled"
    <3>1. pc' = [pc EXCEPT ![u] = place]
      OBVIOUS
    <3>2. permits' = permits + (IF pc[u] \in InPermit THEN 1 ELSE 0) - (IF place \in InPermit THEN 1 ELSE 0)
      BY DEF TypeOK, InPermit
    <3>3. completed' = completed + (IF place = "done" THEN 1 ELSE 0) - (IF pc[u] = "done" THEN 1 ELSE 0)
      BY DEF TypeOK
    <3>4. TimeoutsCounted'
      BY CountersStay
    <3> HIDE DEF place
    <3> QED BY <3>1, <3>2, <3>3, <3>4, CountersMove
  <2>2. TypeOK'
    BY <2>1 DEF TypeOK, EntryStates, RowStates, FlowStates, PCs, InPermit, Settled
  <2>3. PlacesFit'
    BY DEF PlacesFit, TypeOK
  <2>4. PhasesFit'
    BY DEF PhasesFit, TypeOK, Settled
  <2>5. FailureIsRecorded'
    BY DEF FailureIsRecorded, TypeOK, PlacesFit
  <2> QED BY <2>1, <2>2, <2>3, <2>4, <2>5
<1>20. ASSUME NEW u \in Urls, FlowBegins(u) PROVE BatchInv'
  <2> USE <1>20 DEF FlowBegins, Undisturbed, FlowStep
  <2>1. PermitsCounted' /\ TimeoutsCounted'
    BY CountersStay
  <2>2. TypeOK'
    BY <2>1 DEF TypeOK, EntryStates, RowStates, FlowStates, PCs, InPermit, Settled
  <2>3. PlacesFit'
    BY DEF PlacesFit, TypeOK
  <2>4. PhasesFit'
    BY DEF PhasesFit, TypeOK, Settled
  <2>5. FailureIsRecorded'
    BY DEF FailureIsRecorded, TypeOK, PlacesFit
  <2> QED BY <2>1, <2>2, <2>3, <2>4, <2>5
<1>21. ASSUME NEW u \in Urls, FlowStores(u) PROVE BatchInv'
  <2> USE <1>21 DEF FlowStores, Undisturbed, FlowStep
  <2>1. PermitsCounted' /\ TimeoutsCounted'
    BY CountersStay
  <2>2. TypeOK'
    BY <2>1 DEF TypeOK, EntryStates, RowStates, FlowStates, PCs, InPermit, Settled
  <2>3. PlacesFit'
    BY DEF PlacesFit, TypeOK
  <2>4. PhasesFit'
    BY DEF PhasesFit, TypeOK, Settled
  <2>5. FailureIsRecorded'
    BY DEF FailureIsRecorded, TypeOK, PlacesFit
  <2> QED BY <2>1, <2>2, <2>3, <2>4, <2>5
<1>22. ASSUME NEW u \in Urls, FlowReturns(u) PROVE BatchInv'
  <2> USE <1>22 DEF FlowReturns, Undisturbed, FlowStep
  <2>1. PermitsCounted' /\ TimeoutsCounted'
    BY CountersStay
  <2>2. TypeOK'
    BY <2>1 DEF TypeOK, EntryStates, RowStates, FlowStates, PCs, InPermit, Settled
  <2>3. PlacesFit'
    BY DEF PlacesFit, TypeOK
  <2>4. PhasesFit'
    BY DEF PhasesFit, TypeOK, Settled
  <2>5. FailureIsRecorded'
    BY DEF FailureIsRecorded, TypeOK, PlacesFit
  <2> QED BY <2>1, <2>2, <2>3, <2>4, <2>5
<1>23. ASSUME NEW u \in Urls, FlowFails(u) PROVE BatchInv'
  <2> USE <1>23 DEF FlowFails, Undisturbed, FlowStep
  <2>1. PermitsCounted' /\ TimeoutsCounted'
    BY CountersStay
  <2>2. TypeOK'
    BY <2>1 DEF TypeOK, EntryStates, RowStates, FlowStates, PCs, InPermit, Settled
  <2>3. PlacesFit'
    BY DEF PlacesFit, TypeOK
  <2>4. PhasesFit'
    BY DEF PhasesFit, TypeOK, Settled
  <2>5. FailureIsRecorded'
    BY DEF FailureIsRecorded, TypeOK, PlacesFit
  <2> QED BY <2>1, <2>2, <2>3, <2>4, <2>5
<1>24. ASSUME NEW u \in Urls, FlowRaises(u) PROVE BatchInv'
  <2> USE <1>24 DEF FlowRaises, Undisturbed, FlowStep
  <2>1. PermitsCounted' /\ TimeoutsCounted'
    BY CountersStay
  <2>2. TypeOK'
    BY <2>1 DEF TypeOK, EntryStates, RowStates, FlowStates, PCs, InPermit, Settled
  <2>3. PlacesFit'
    BY DEF PlacesFit, TypeOK
  <2>4. PhasesFit'
    BY DEF PhasesFit, TypeOK, Settled
  <2>5. FailureIsRecorded'
    BY DEF FailureIsRecorded, TypeOK, PlacesFit
  <2> QED BY <2>1, <2>2, <2>3, <2>4, <2>5
<1>25. ASSUME NEW u \in Urls, FlowCancelled(u) PROVE BatchInv'
  <2> USE <1>25 DEF FlowCancelled, FlowStep, Alive
  <2>1. PermitsCounted' /\ TimeoutsCounted'
    BY CountersStay
  <2>2. TypeOK'
    BY <2>1 DEF TypeOK, EntryStates, RowStates, FlowStates, PCs, InPermit, Settled
  <2>3. PlacesFit'
    BY DEF PlacesFit, TypeOK
  <2>4. PhasesFit'
    BY DEF PhasesFit, TypeOK, Settled
  <2>5. FailureIsRecorded'
    BY DEF FailureIsRecorded, TypeOK, PlacesFit
  <2> QED BY <2>1, <2>2, <2>3, <2>4, <2>5
<1>26. ASSUME NEW u \in Urls, ForeignEnds(u) PROVE BatchInv'
  <2> USE <1>26 DEF ForeignEnds
  <2>1. PermitsCounted' /\ TimeoutsCounted'
    BY CountersStay
  <2>2. TypeOK'
    BY <2>1 DEF TypeOK, EntryStates, RowStates, FlowStates, PCs, InPermit, Settled
  <2>3. PlacesFit'
    BY DEF PlacesFit, TypeOK
  <2>4. PhasesFit'
    BY DEF PhasesFit, TypeOK, Settled
  <2>5. FailureIsRecorded'
    BY DEF FailureIsRecorded, TypeOK, PlacesFit
  <2> QED BY <2>1, <2>2, <2>3, <2>4, <2>5
<1>30. CASE StartAll
  <2> USE <1>30 DEF StartAll
  <2>1. PermitsCounted' /\ TimeoutsCounted'
    <3>1. /\ PlacedIn(InPermit)' = {} /\ PlacedIn(InPermit) = {}
          /\ PlacedIn({"done"})' = {} /\ PlacedIn({"done"}) = {}
      BY DEF PlacedIn, InPermit
    <3> QED BY <3>1, CountersStay DEF PermitsCounted
  <2>2. TypeOK'
    BY DEF TypeOK, PCs
  <2>3. PlacesFit'
    BY DEF PlacesFit, TypeOK
  <2>4. PhasesFit'
    BY DEF PhasesFit, TypeOK, Settled
  <2>5. FailureIsRecorded'
    BY DEF FailureIsRecorded, TypeOK, PlacesFit
  <2> QED BY <2>1, <2>2, <2>3, <2>4, <2>5
<1>31. CASE UserCancels
  <2> USE <1>31 DEF UserCancels, CancelledAt
  <2>1. PermitsCounted' /\ TimeoutsCounted' /\ permits' \in 0..MaxConcurrent
    <3>1. PlacedIn(InPermit)' = PlacedIn(InPermit) \ LeavingNow /\ LeavingNow \subseteq PlacedIn(InPermit)
      BY DEF PlacedIn, LeavingNow, InPermit
    <3>2. PlacedIn({"done"})' = PlacedIn({"done"})
      BY DEF PlacedIn
    <3>3. PlacedIn(InPermit) \cap LeavingNow = LeavingNow
      BY <3>1
    <3>4. /\ Cardinality(PlacedIn(InPermit)') = Cardinality(PlacedIn(InPermit)) - Cardinality(LeavingNow)
          /\ Cardinality(LeavingNow) \in Nat /\ Cardinality(LeavingNow) <= Cardinality(PlacedIn(InPermit))
          /\ Cardinality(PlacedIn(InPermit)) \in Nat
      BY <3>1, <3>3, PlacedFinite, FS_Difference, FS_Subset, FS_CardinalityType
    <3>5. /\ permits \in Nat /\ MaxConcurrent \in Nat /\ permits' = permits + Cardinality(LeavingNow)
          /\ permits + Cardinality(PlacedIn(InPermit)) = MaxConcurrent
      BY DEF TypeOK, PermitsCounted
    <3>6. permits' + Cardinality(PlacedIn(InPermit)') = MaxConcurrent /\ permits' \in 0..MaxConcurrent
      BY ONLY <3>4, <3>5
    <3>7. completed' = Cardinality(PlacedIn({"done"})') /\ TimeoutsCounted'
      BY <3>2, CountersStay DEF PermitsCounted
    <3> QED BY <3>6, <3>7 DEF PermitsCounted
  <2>2. TypeOK'
    <3>1. IsFiniteSet(deliverer) /\ deliverer' \in SUBSET deliverer
      BY FS_Subset DEF TypeOK
    <3>2. Cardinality(deliverer') <= 1
      BY <3>1, FS_Subset, FS_CardinalityType DEF TypeOK
    <3>3. pc' \in [Urls -> PCs]
      BY DEF TypeOK, PCs, Settled, InPermit
    <3> QED BY <2>1, <3>1, <3>2, <3>3 DEF TypeOK
  <2>3. PlacesFit'
    BY DEF PlacesFit, TypeOK, PhasesFit
  <2>4. PhasesFit'
    BY DEF PhasesFit, TypeOK, Settled
  <2>5. FailureIsRecorded'
    BY DEF FailureIsRecorded, TypeOK, PlacesFit
  <2> QED BY <2>1, <2>2, <2>3, <2>4, <2>5
<1>32. CASE BatchEnds
  <2> USE <1>32 DEF BatchEnds
  <2>1. PermitsCounted' /\ TimeoutsCounted'
    BY CountersStay
  <2>2. TypeOK' /\ PlacesFit'
    BY DEF TypeOK, PlacesFit
  <2>3. PhasesFit' /\ FailureIsRecorded'
    BY DEF PhasesFit, FailureIsRecorded
  <2> QED BY <2>1, <2>2, <2>3
<1>33. CASE UNCHANGED vars
  <2> USE <1>33 DEF vars
  <2>1. PermitsCounted' /\ TimeoutsCounted'
    BY CountersStay
  <2>2. TypeOK' /\ PlacesFit' /\ PhasesFit' /\ FailureIsRecorded'
    BY DEF TypeOK, PlacesFit, PhasesFit, FailureIsRecorded
  <2> QED BY <2>1, <2>2
<1> QED
  BY <1>1, <1>2, <1>3, <1>4, <1>5, <1>6, <1>7, <1>8, <1>9, <1>10, <1>11, <1>12, <1>13, <1>14,
      <1>15, <1>16, <1>17, <1>18, <1>19, <1>20, <1>21, <1>22, <1>23, <1>24, <1>25, <1>26,
     <1>30, <1>31, <1>32, <1>33 DEF Next, Register, Coroutine, Flow, Idle

-----------------------------------------------------------------------------
(* The properties *)

\* The variables keep their types and the counters their bounds.
THEOREM BatchTypeCorrect == Spec => []TypeOK
<1>1. BatchInv => TypeOK
  BY DEF BatchInv
<1> QED BY BatchInvInit, BatchInvNext, <1>1, PTL DEF Spec

\* There are never more flows than permits, those being cancelled included, and none is left
\* behind when the batch is over.
THEOREM FlowsStayContained == Spec => []FlowsContained
<1>1. ASSUME BatchInv PROVE FlowsContained
  <2>1. {u \in Urls : Alive(u)} \subseteq PlacedIn(InPermit)
    BY <1>1 DEF BatchInv, PlacesFit, Alive, PlacedIn, InPermit
  <2>2. Cardinality({u \in Urls : Alive(u)}) <= Cardinality(PlacedIn(InPermit))
    BY <2>1, PlacedFinite, FS_Subset
  <2>3. /\ Cardinality(PlacedIn(InPermit)) \in Nat /\ permits \in Nat /\ MaxConcurrent \in Nat
        /\ permits + Cardinality(PlacedIn(InPermit)) = MaxConcurrent
    BY <1>1, PlacedFinite, BatchAssumption DEF BatchInv, TypeOK, PermitsCounted
  <2>4. Cardinality({u \in Urls : Alive(u)}) \in Nat
    BY BatchAssumption, FS_Subset, FS_CardinalityType
  <2>5. FlowsBounded
    BY <2>2, <2>3, <2>4 DEF FlowsBounded
  <2>6. NoFlowOutlivesBatch
    BY <1>1 DEF BatchInv, PlacesFit, PhasesFit, NoFlowOutlivesBatch, Alive, Settled
  <2> QED BY <2>5, <2>6 DEF FlowsContained
<1> QED BY BatchInvInit, BatchInvNext, <1>1, PTL DEF Spec

\* A batch that was not cancelled accounts for every URL once; a domain is given up for cause;
\* a recorded failure stands; a card is of a stored summary.
THEOREM OutcomesTrue == Spec => []OutcomesAreTrue
<1>1. ASSUME BatchInv PROVE OutcomesAreTrue
  <2> USE <1>1 DEF BatchInv
  <2>1. EveryUrlAccounted
    <3> SUFFICES ASSUME phase = "over", ~cancelled
                 PROVE  /\ \A u \in Urls : entry[u] \in {"cached", "complete", "failed"}
                        /\ completed = Cardinality(Urls)
                        /\ permits = MaxConcurrent
      BY DEF EveryUrlAccounted
    <3>1. \A u \in Urls : pc[u] = "done"
      BY DEF PhasesFit, Settled
    <3>2. PlacedIn(InPermit) = {} /\ PlacedIn({"done"}) = Urls
      BY <3>1 DEF PlacedIn, InPermit
    <3>3. completed = Cardinality(Urls) /\ permits = MaxConcurrent
      BY <3>2, FS_EmptySet DEF PermitsCounted, TypeOK
    <3> QED BY <3>1, <3>3 DEF PlacesFit
  <2>2. DomainGivenUpForCause
    BY DEF TimeoutsCounted, TypeOK, DomainGivenUpForCause, TimedOutIn
  <2>3. CardMeansSummary
    BY DEF PlacesFit, CardMeansSummary
  <2> QED BY <2>1, <2>2, <2>3 DEF OutcomesAreTrue
<1> QED BY BatchInvInit, BatchInvNext, <1>1, PTL DEF Spec

\* The flows stay within the batch's permits and its life, and what it reports is true.
THEOREM BatchSound == Spec => []BatchIsSound
BY FlowsStayContained, OutcomesTrue, PTL DEF BatchIsSound

\* After the user's cancellation only a coroutine that swallowed it starts an attempt.
THEOREM CancelStops == Spec => CancelStopsAttempts
<1>1. ASSUME BatchInv, [Next]_vars, NEW u \in Urls, cancelled, flow[u] = "none", flow'[u] = "begun"
      PROVE  u \in swallowed
  <2>1. pc[u] = "compute"
    <3> SUFFICES ASSUME ~StartAttempt(u) PROVE flow'[u] # "begun"
      BY <1>1 DEF StartAttempt
    <3>1. ASSUME NEW v \in Urls, v # u, NEW f, flow' = [flow EXCEPT ![v] = f] PROVE flow'[u] # "begun"
      BY <1>1, <3>1 DEF BatchInv, TypeOK
    <3>2. flow' = flow => flow'[u] # "begun"
      BY <1>1
    <3>3. ASSUME NEW v \in Urls, Register(v) PROVE flow' = flow
      BY <3>3 DEF Register, RegisterCached, RegisterSkipped, RegisterLookup, RegisterCreate, Registering
    <3>4. ASSUME NEW v \in Urls, Coroutine(v) PROVE flow'[u] # "begun"
      <4>1. CASE StartAttempt(v)
        BY <3>1, <4>1, <1>1 DEF StartAttempt
      <4>2. CASE ~StartAttempt(v)
        <5>1. flow' = flow \/ flow' = [flow EXCEPT ![v] = "none"]
          BY <3>4, <4>2 DEF Coroutine, CachedCounted, Enter, WriteSkipped, DomainEvent, Timeout, WaitEnds,
               ResultArrives, ExceptionArrives, Reaped, TimedOut, Retry, WriteError, TakeDeliveryLock,
               SendCard, Aborted
        <5> QED BY <5>1, <1>1 DEF BatchInv, TypeOK
      <4> QED BY <4>1, <4>2
    <3>5. ASSUME NEW v \in Urls, Flow(v) PROVE flow'[u] # "begun"
      <4>1. \E f \in FlowStates \ {"begun"} : flow' = [flow EXCEPT ![v] = f]
        BY <3>5 DEF Flow, FlowBegins, FlowStores, FlowReturns, FlowFails, FlowRaises, FlowStep, FlowStates
      <4> QED BY <4>1, <1>1 DEF BatchInv, TypeOK
    <3>6. ASSUME NEW v \in Urls, FlowCancelled(v) \/ ForeignEnds(v) PROVE flow'[u] # "begun"
      <4>1. flow' = flow \/ flow' = [flow EXCEPT ![v] = "none"]
        BY <3>6 DEF FlowCancelled, ForeignEnds, FlowStep
      <4> QED BY <4>1, <1>1 DEF BatchInv, TypeOK
    <3>7. ASSUME StartAll \/ UserCancels \/ BatchEnds \/ UNCHANGED vars PROVE flow' = flow
      BY <3>7 DEF StartAll, UserCancels, BatchEnds, vars
    <3> QED BY <1>1, <3>2, <3>3, <3>4, <3>5, <3>6, <3>7 DEF Next, Idle
  <2> QED BY <1>1, <2>1 DEF BatchInv, PhasesFit
<1>2. BatchInv /\ [Next]_vars =>
        [\A u \in Urls :
           cancelled /\ flow[u] = "none" /\ flow'[u] = "begun" => u \in swallowed]_vars
  BY <1>1
<1> QED BY BatchInvInit, BatchInvNext, <1>2, PTL DEF Spec, CancelStopsAttempts

-----------------------------------------------------------------------------
(* Nobody waits for ever *)

\* Who holds the delivery lock is sending; who reaps a flow knows why; registration is over
\* when the coroutines run, and a cancellation before that ends them all.
WaitsFit ==
  /\ \A u \in deliverer : pc[u] = "sending"
  /\ \A u \in Urls : pc[u] = "reap" => outcome[u] # "none"
  /\ phase = "running" => \A u \in Urls : pc[u] \notin {"new", "create", "registered"}
  /\ phase = "register" /\ cancelled => \A u \in Urls : pc[u] = "cancelled"

\* A coroutine goes from one place of the running batch to another: it takes the delivery
\* lock to send and gives it back, and has a reason to reap.
MovesOn(u, place) ==
  /\ pc' = [pc EXCEPT ![u] = place] /\ UNCHANGED <<phase, cancelled>>
  /\ {pc[u], place} \cap {"new", "create", "registered"} = {} /\ pc[u] # "cancelled"
  /\ \A v \in Urls \ {u} : outcome'[v] = outcome[v]
  /\ place = "reap" => outcome'[u] # "none"
  /\ pc[u] = "sending" => deliverer' = {}
  /\ pc[u] # "sending" => deliverer' = deliverer \/ (deliverer' = {u} /\ place = "sending")

LEMMA MoveFits ==
  ASSUME BatchInv, WaitsFit, NEW u \in Urls, NEW place, MovesOn(u, place)
  PROVE  WaitsFit'
<1> USE DEF MovesOn
<1>1. \A v \in Urls : pc'[v] = IF v = u THEN place ELSE pc[v]
  BY DEF BatchInv, TypeOK
<1>2. phase # "register"
  BY DEF BatchInv, PhasesFit
<1>3. deliverer \subseteq Urls
  BY DEF BatchInv, TypeOK
<1>4. \A v \in deliverer' : pc'[v] = "sending"
  BY <1>1, <1>3 DEF WaitsFit
<1>5. \A v \in Urls : pc'[v] = "reap" => outcome'[v] # "none"
  BY <1>1 DEF WaitsFit
<1>6. phase' = "running" => \A v \in Urls : pc'[v] \notin {"new", "create", "registered"}
  BY <1>1 DEF WaitsFit
<1> QED BY <1>2, <1>4, <1>5, <1>6 DEF WaitsFit

LEMMA WaitsFitNext == BatchInv /\ WaitsFit /\ [Next]_vars => WaitsFit'
<1> SUFFICES ASSUME BatchInv, WaitsFit, [Next]_vars PROVE WaitsFit'
  OBVIOUS
<1> USE DEF Goto, Leave
<1>1. ASSUME NEW u \in Urls, Register(u) PROVE WaitsFit'
  <2>1. PICK place \in {"create", "registered"} : pc' = [pc EXCEPT ![u] = place]
    BY <1>1 DEF Register, RegisterCached, RegisterSkipped, RegisterLookup, RegisterCreate
  <2>2. /\ UNCHANGED <<phase, cancelled, deliverer, outcome>>
        /\ phase = "register" /\ pc[u] \in {"new", "create"}
    BY <1>1 DEF Register, RegisterCached, RegisterSkipped, RegisterLookup, RegisterCreate, Registering
  <2>3. ~cancelled /\ u \notin deliverer
    BY <2>2 DEF WaitsFit
  <2>4. \A v \in Urls : pc'[v] = IF v = u THEN place ELSE pc[v]
    BY <2>1 DEF BatchInv, TypeOK
  <2>5. deliverer \subseteq Urls
    BY DEF BatchInv, TypeOK
  <2> QED BY <2>1, <2>2, <2>3, <2>4, <2>5 DEF WaitsFit
<1>2. ASSUME NEW u \in Urls, Coroutine(u) PROVE WaitsFit'
  <2>2. CASE CachedCounted(u) \/ WriteSkipped(u) \/ WriteError(u) \/ SendCard(u)
    <3>1. MovesOn(u, "done")
      BY <2>2 DEF CachedCounted, WriteSkipped, WriteError, RecordFailure, SendCard, MovesOn, Quiet, batchVars
    <3> QED BY <3>1, MoveFits
  <2>3. CASE Enter(u)
    <3>1. \E place \in {"writeSkipped", "compute"} : MovesOn(u, place)
      BY <2>3 DEF Enter, MovesOn, Quiet, batchVars
    <3> QED BY <3>1, MoveFits
  <2>4. CASE StartAttempt(u) \/ DomainEvent(u) \/ Timeout(u)
    <3>1. \E place \in {"wait", "reap"} : MovesOn(u, place)
      BY <2>4 DEF StartAttempt, DomainEvent, Timeout, WaitEnds, MovesOn, Quiet, batchVars, BatchInv, TypeOK
    <3> QED BY <3>1, MoveFits
  <2>5. CASE ResultArrives(u)
    <3>1. \E place \in {"deliver", "done"} : MovesOn(u, place)
      BY <2>5 DEF ResultArrives, MovesOn, Quiet, batchVars
    <3> QED BY <3>1, MoveFits
  <2>6. CASE ExceptionArrives(u) \/ Reaped(u) \/ TimedOut(u)
    <3>1. \E place \in {"backoff", "writeError"} : MovesOn(u, place)
      BY <2>6 DEF ExceptionArrives, Reaped, TimedOut, RetryOrFail, GiveUp, MovesOn, Quiet, batchVars,
                  BatchInv, TypeOK
    <3> QED BY <3>1, MoveFits
  <2>7. CASE Retry(u)
    <3>1. \E place \in {"compute", "writeError"} : MovesOn(u, place)
      BY <2>7 DEF Retry, GiveUp, MovesOn, Quiet, batchVars
    <3> QED BY <3>1, MoveFits
  <2>8. CASE TakeDeliveryLock(u)
    <3>1. MovesOn(u, "sending")
      BY <2>8 DEF TakeDeliveryLock, MovesOn, Quiet, batchVars
    <3> QED BY <3>1, MoveFits
  <2>9. CASE Aborted(u)
    <3>1. MovesOn(u, "cancelled")
      BY <2>9 DEF Aborted, MovesOn, Quiet, batchVars
    <3> QED BY <3>1, MoveFits
  <2> QED BY <1>2, <2>2, <2>3, <2>4, <2>5, <2>6, <2>7, <2>8, <2>9 DEF Coroutine
<1>3. ASSUME NEW u \in Urls, Flow(u) \/ FlowCancelled(u) \/ ForeignEnds(u) PROVE WaitsFit'
  <2>1. UNCHANGED <<phase, cancelled, pc, outcome, deliverer>>
    BY <1>3 DEF Flow, FlowBegins, FlowStores, FlowReturns, FlowFails, FlowRaises, FlowCancelled, FlowStep,
                ForeignEnds, batchVars
  <2> QED BY <2>1 DEF WaitsFit
<1>4. CASE StartAll
  <2>1. deliverer = {}
    BY <1>4 DEF StartAll, WaitsFit, BatchInv, TypeOK
  <2> QED BY <1>4, <2>1 DEF StartAll, WaitsFit
<1>5. CASE UserCancels
  <2>1. /\ pc' = [u \in Urls |-> CancelledAt(u)] /\ UNCHANGED <<phase, outcome>>
        /\ deliverer' = deliverer \ LeavingNow
    BY <1>5 DEF UserCancels
  <2>2. deliverer' = {}
    BY <2>1 DEF LeavingNow, CancelledAt, InPermit, WaitsFit, BatchInv, TypeOK
  <2>3. \A u \in Urls : pc'[u] = "reap" => outcome'[u] # "none"
    BY <2>1 DEF CancelledAt, WaitsFit
  <2>4. \A u \in Urls : pc'[u] \notin {"new", "create", "registered"}
    BY <2>1 DEF CancelledAt
  <2>5. phase = "register" => \A u \in Urls : pc'[u] = "cancelled"
    BY <2>1 DEF CancelledAt, BatchInv, PhasesFit
  <2> QED BY <2>1, <2>2, <2>3, <2>4, <2>5 DEF WaitsFit
<1>6. CASE BatchEnds \/ UNCHANGED vars
  BY <1>6 DEF BatchEnds, vars, batchVars, WaitsFit
<1> QED BY <1>1, <1>2, <1>3, <1>4, <1>5, <1>6 DEF Next, Idle

\* At every moment before its end the batch can go on by itself: some coroutine is ready, the
\* registration is complete, or all have ended; for every number of URLs and permits.
THEOREM BatchNeverStuck == Spec => []NeverStuck
<1>1. Init => WaitsFit
  BY DEF Init, WaitsFit
<1>2. ASSUME BatchInv, WaitsFit PROVE NeverStuck
  <2> SUFFICES ASSUME phase # "over", \A u \in Urls : ~Ready(u),
                      ~(phase = "register" /\ \A u \in Urls : pc[u] = "registered")
               PROVE  \A u \in Urls : pc[u] \in Settled
    BY DEF NeverStuck
  <2> USE <1>2
  <2>1. \A u \in Urls : pc[u] \in {"new", "registered", "permit", "deliver"} \cup Settled
    BY DEF Ready, BatchInv, TypeOK, PCs, InPermit, WaitsFit
  <2>2. \A u \in Urls : pc[u] # "new"
    BY <2>1 DEF Ready, Settled
  <2>3. \A u \in Urls : pc[u] # "deliver"
    BY <2>1 DEF Ready, WaitsFit, BatchInv, TypeOK, Settled
  <2>4. \A u \in Urls : pc[u] # "permit"
    <3> SUFFICES ASSUME NEW u \in Urls, pc[u] = "permit" PROVE FALSE
      OBVIOUS
    <3>1. permits = 0
      BY DEF Ready, BatchInv, TypeOK
    <3>2. PlacedIn(InPermit) = {}
      BY <2>1, <2>3 DEF PlacedIn, InPermit, Settled
    <3> QED BY <3>1, <3>2, FS_EmptySet, BatchAssumption DEF BatchInv, PermitsCounted
  <2>5. \A u \in Urls : pc[u] # "registered"
    <3> SUFFICES ASSUME NEW u \in Urls, pc[u] = "registered" PROVE FALSE
      OBVIOUS
    <3>1. phase = "register" /\ ~cancelled
      BY DEF WaitsFit, BatchInv, TypeOK
    <3> QED BY <2>1, <2>2, <2>3, <2>4, <3>1 DEF BatchInv, PhasesFit, Settled
  <2> QED BY <2>1, <2>2, <2>3, <2>4, <2>5
<1> QED BY BatchInvInit, BatchInvNext, WaitsFitNext, <1>1, <1>2, PTL DEF Spec
=============================================================================
