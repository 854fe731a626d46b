------------------------- MODULE Services_proofs -------------------------
(***************************************************************************)
(* Proofs about the components that MCServices checks in one run: for each *)
(* an inductive invariant, from which its properties follow, and at the    *)
(* end the properties of the run.                                          *)
(***************************************************************************)
EXTENDS MCServices, FiniteSetTheorems, WellFoundedInduction, TLAPS

-----------------------------------------------------------------------------
(* The progress tracker *)

\* While there is a processor, the count queued last is in the slot or was given to the
\* formatter.
TrackerInv ==
  /\ settled \in 0..Total /\ counted \in 0..settled /\ displayed \in 0..counted
  /\ shown \in 0..Total /\ drawn \in 0..Total /\ owed \in 0..Total
  /\ slot \in 0..Total \cup {Empty}
  /\ processor # "ended" => IF slot = Empty THEN shown = owed ELSE slot = owed
  /\ LastQueuedIsShown

\* At the start nothing was queued and nothing is shown.
LEMMA TrackerInvInit == TrackerInit => TrackerInv
  BY TrackerAssumption DEF TrackerInit, TrackerInv, Empty, LastQueuedIsShown

\* Every step keeps the last queued count until it is shown.
LEMMA TrackerInvNext == TrackerInv /\ [TrackerNext]_trackerVars => TrackerInv'
<1> SUFFICES ASSUME TrackerInv, [TrackerNext]_trackerVars PROVE TrackerInv'
  OBVIOUS
<1> USE TrackerAssumption DEF TrackerInv, Empty, LastQueuedIsShown
<1>1. CASE Settle
  BY <1>1 DEF Settle
<1>2. CASE IncrementAndUpdate
  <2>1. /\ batch = "urls" /\ counted < settled /\ counted' = counted + 1
        /\ UNCHANGED <<settled, processor, shown, drawn, batch, raced>>
    BY <1>2 DEF IncrementAndUpdate
  <2>2. CASE displayed' = counted' /\ slot' = counted' /\ Owes(counted')
    BY <2>1, <2>2 DEF Owes
  <2>3. CASE UNCHANGED <<displayed, slot, owed>>
    BY <2>1, <2>3
  <2>. QED BY <1>2, <2>2, <2>3 DEF IncrementAndUpdate, Replaced
<1>3. CASE ForceUpdate
  BY <1>3 DEF ForceUpdate, Owes
<1>4. CASE Take
  BY <1>4 DEF Take
<1>5. CASE Formatted
  BY <1>5 DEF Formatted, MayEnd
<1>6. CASE GetTimesOut \/ GetTimesOutLate
  BY <1>6 DEF GetTimesOut, GetTimesOutLate
<1>7. CASE MarkComplete
  BY <1>7 DEF MarkComplete
<1>8. CASE Joined \/ JoinTimesOut
  BY <1>8 DEF Joined, JoinTimesOut, AfterJoin
<1>9. CASE TrackerAtRest \/ UNCHANGED trackerVars
  BY <1>9 DEF TrackerAtRest, trackerVars
<1>. QED
  BY <1>1, <1>2, <1>3, <1>4, <1>5, <1>6, <1>7, <1>8, <1>9 DEF TrackerNext, Processor

\* ProgressTracker: a processor that ends by itself gave the formatter the count queued last
\* in its time, by an increment, the heartbeat or a phase change, whatever the batch's size
\* and the threshold; of what is queued later it says nothing.
THEOREM TrackerShowsLast == TrackerSpec => []LastQueuedIsShown
<1>1. TrackerInv => LastQueuedIsShown
  BY DEF TrackerInv
<1>. QED
  BY <1>1, TrackerInvInit, TrackerInvNext, PTL DEF TrackerSpec

-----------------------------------------------------------------------------
(* The rate limiter of a process *)

Holding == {m \in Messages : route[m] = "holding"}

WindowTypes ==
  /\ now \in Nat /\ cooldown \in Nat /\ slots \in Nat /\ noticedUntil \in Nat
  /\ requests \in Seq(Nat) /\ granted \in Seq(Nat)
  /\ route \in [Messages -> {"new", "granted", "holding", "over"}]
  /\ refusedAt \subseteq Nat /\ notices \subseteq Nat

\* The requests that are kept are the last ones granted; the others are out of the window.
RequestsAreLast ==
  /\ Len(requests) <= Len(granted)
  /\ \A i \in 1..Len(requests) : requests[i] = granted[Len(granted) - Len(requests) + i]
  /\ \A i \in 1..Len(granted) - Len(requests) : granted[i] + WindowLength < now

\* Nothing lies in the future, and a deadline stands until it has passed.
DeadlinesStand ==
  /\ \A i \in 1..Len(granted) : granted[i] <= now
  /\ \A t \in refusedAt : t <= now /\ (now >= t + CooldownLength \/ cooldown >= t + CooldownLength)
  /\ \A t \in notices : t <= now /\ (now >= t + NoticeWindow \/ noticedUntil >= t + NoticeWindow)

WindowInv ==
  WindowTypes /\ RequestsAreLast /\ DeadlinesStand /\ WindowHolds /\ DeadlinesKept /\ SlotsAreHeld

\* The limits are numbers.
LEMMA LimitsAreNumbers ==
  /\ MaxRequests \in Nat \ {0} /\ WindowLength \in Nat /\ NoticeWindow \in Nat
  /\ CooldownLength \in Nat /\ MaxConcurrent \in Nat
  BY WindowAssumption

\* The loop stops: it has taken away requests out of the window only.
LEMMA PoppedProperties ==
  ASSUME requests \in Seq(Nat)
  PROVE  Popped \in 0..Len(requests) /\ \A i \in 1..Popped : ~InWindow(requests[i])
<1> DEFINE Ends(n) == n < Len(requests) => InWindow(requests[n + 1])
           Cuts == {n \in 0..Len(requests) : Ends(n)}
           R == {ss \in Nat \X Nat : ss[1] < ss[2]}
<1>1. Len(requests) \in Cuts /\ Cuts \subseteq Nat
  OBVIOUS
<1>2. IsWellFoundedOn(R, Nat)
  BY NatLessThanWellFounded DEF OpToRel
<1>3. PICK S \in SUBSET Nat : S = Cuts
  BY <1>1
<1>4. PICK n \in S : \A k \in S : <<k, n>> \notin R
  <2>1. S # {}
    BY <1>1, <1>3
  <2> HIDE DEF R, Cuts
  <2>. QED BY <1>2, <2>1, WFMin
<1>5. n \in 0..Len(requests) /\ Ends(n)
  BY <1>3, <1>4
<1>6. ASSUME NEW i \in 1..n PROVE ~InWindow(requests[i])
  <2>1. i - 1 \in Nat /\ i - 1 < n /\ n \in Nat
    BY <1>5, <1>6
  <2>2. <<i - 1, n>> \in R
    BY <2>1
  <2>3. i - 1 \notin Cuts
    BY <1>3, <1>4, <2>2
  <2>4. i - 1 \in 0..Len(requests) /\ (i - 1) + 1 = i
    BY <1>5, <1>6
  <2>. QED BY <2>3, <2>4
<1>. QED BY <1>5, <1>6 DEF Popped

\* What is left of the requests are their last ones, and what is gone was out of the window.
LEMMA PrunedProperties ==
  ASSUME WindowTypes, RequestsAreLast
  PROVE  /\ Pruned \in Seq(Nat) /\ Len(Pruned) <= Len(granted)
         /\ \A i \in 1..Len(Pruned) : Pruned[i] = granted[Len(granted) - Len(Pruned) + i]
         /\ \A i \in 1..Len(granted) - Len(Pruned) : granted[i] + WindowLength < now
<1> USE LimitsAreNumbers DEF WindowTypes
<1>1. Popped \in 0..Len(requests) /\ \A i \in 1..Popped : ~InWindow(requests[i])
  BY PoppedProperties
<1>2. PICK n \in 0..Len(requests) : n = Popped
  BY <1>1
<1>3. /\ Pruned \in Seq(Nat) /\ Len(Pruned) = Len(requests) - n
      /\ \A i \in 1..Len(Pruned) : Pruned[i] = requests[n + i]
  BY <1>2 DEF Pruned
<1>4. ASSUME NEW i \in 1..Len(granted) - Len(Pruned) PROVE granted[i] + WindowLength < now
  <2>1. CASE i <= Len(granted) - Len(requests)
    BY <2>1, <1>4 DEF RequestsAreLast
  <2>2. CASE ~(i <= Len(granted) - Len(requests))
    <3>1. PICK j \in 1..n : i = Len(granted) - Len(requests) + j
      <4>1. i - (Len(granted) - Len(requests)) \in 1..n
        BY <1>2, <1>3, <1>4, <2>2 DEF RequestsAreLast
      <4>2. Len(granted) \in Nat /\ Len(requests) \in Nat /\ i \in Int
        BY <1>4
      <4>3. i = Len(granted) - Len(requests) + (i - (Len(granted) - Len(requests)))
        BY <4>2
      <4>. QED BY <4>1, <4>3
    <3>2. requests[j] = granted[i] /\ granted[i] \in Nat
      BY <1>2, <1>3, <1>4, <3>1, SMTT(30) DEF RequestsAreLast
    <3>3. ~InWindow(requests[j])
      BY <1>1, <1>2, <3>1
    <3>. QED BY <3>2, <3>3 DEF InWindow
  <2>. QED BY <2>1, <2>2
<1>5. ASSUME NEW i \in 1..Len(Pruned) PROVE Pruned[i] = granted[Len(granted) - Len(Pruned) + i]
  <2>1. n + i \in 1..Len(requests)
    BY <1>3
  <2>2. Len(granted) - Len(Pruned) + i = Len(granted) - Len(requests) + (n + i)
    BY <1>3
  <2>. QED BY <1>3, <2>1, <2>2 DEF RequestsAreLast
<1>. QED BY <1>3, <1>4, <1>5 DEF RequestsAreLast

\* The number of holders goes up and down with their set.
LEMMA HoldingCounts ==
  ASSUME WindowTypes, NEW m \in Messages, NEW where \in {"granted", "holding", "over"},
         route' = [route EXCEPT ![m] = where]
  PROVE  /\ Cardinality(Holding) \in Nat
         /\ route' \in [Messages -> {"new", "granted", "holding", "over"}]
         /\ where = "holding" /\ route[m] # "holding" =>
              Cardinality(Holding') = Cardinality(Holding) + 1
         /\ where # "holding" /\ route[m] = "holding" =>
              Cardinality(Holding') = Cardinality(Holding) - 1 /\ Cardinality(Holding) > 0
         /\ where # "holding" /\ route[m] # "holding" => Holding' = Holding
<1> USE DEF WindowTypes, Holding
<1>1. IsFiniteSet(Holding)
  BY WindowAssumption, FS_Subset
<1>2. Cardinality(Holding) \in Nat
  BY <1>1, FS_CardinalityType
<1>3. CASE where = "holding" /\ route[m] # "holding"
  <2>1. Holding' = Holding \cup {m} /\ m \notin Holding
    BY <1>3
  <2>. QED BY <1>1, <1>2, <1>3, <2>1, FS_AddElement
<1>4. CASE where # "holding" /\ route[m] = "holding"
  <2>1. Holding' = Holding \ {m} /\ m \in Holding
    BY <1>4
  <2>2. IsFiniteSet(Holding') /\ Cardinality(Holding') = Cardinality(Holding) - 1
    BY <1>1, <2>1, FS_RemoveElement
  <2>3. Cardinality(Holding') \in Nat
    BY <2>2, FS_CardinalityType
  <2>. QED BY <1>2, <1>4, <2>2, <2>3
<1>5. CASE where # "holding" /\ route[m] # "holding"
  BY <1>2, <1>5
<1>6. CASE where = "holding" /\ route[m] = "holding"
  BY <1>2, <1>6
<1>. QED BY <1>3, <1>4, <1>5, <1>6

\* The limiter starts with nothing granted.
LEMMA WindowInvInit == WindowInit => WindowInv
<1> SUFFICES ASSUME WindowInit PROVE WindowInv
  OBVIOUS
<1>1. {m \in Messages : route[m] = "holding"} = {}
  BY DEF WindowInit
<1>2. SlotsAreHeld
  BY <1>1, FS_EmptySet DEF WindowInit, SlotsAreHeld
<1>. QED BY <1>2 DEF WindowInit, WindowInv, WindowTypes, RequestsAreLast, DeadlinesStand, WindowHolds,
         DeadlinesKept

\* A refusal tells the user when the last notice is old enough.
LEMMA RejectedProperties ==
  ASSUME WindowTypes, DeadlinesStand, DeadlinesKept, Rejected, now' = now
  PROVE  /\ noticedUntil' \in Nat /\ notices' \subseteq Nat
         /\ \A t \in notices' : t <= now /\ (now >= t + NoticeWindow \/ noticedUntil' >= t + NoticeWindow)
         /\ \A s, t \in notices' : s < t => t >= s + NoticeWindow
<1>1. CASE now >= noticedUntil
  <2>1. noticedUntil' = now + NoticeWindow /\ notices' = notices \cup {now}
    BY <1>1 DEF Rejected
  <2>2. now \in Nat /\ NoticeWindow \in Nat /\ noticedUntil \in Nat /\ notices \subseteq Nat
    BY LimitsAreNumbers DEF WindowTypes
  <2>3. \A t \in notices : t <= now /\ now >= t + NoticeWindow
    BY <1>1, <2>2 DEF DeadlinesStand
  <2>4. \A s, t \in notices : s < t => t >= s + NoticeWindow
    BY DEF DeadlinesKept
  <2>. QED BY <2>1, <2>2, <2>3, <2>4
<1>2. CASE ~(now >= noticedUntil)
  <2>1. UNCHANGED <<noticedUntil, notices>>
    BY <1>2 DEF Rejected
  <2>. QED BY <2>1 DEF WindowTypes, DeadlinesStand, DeadlinesKept
<1>. QED BY <1>1, <1>2

\* Every step of the limiter keeps the window, the deadlines and the slots.
LEMMA WindowInvNext == WindowInv /\ [WindowNext]_windowVars => WindowInv'
<1> SUFFICES ASSUME WindowInv, [WindowNext]_windowVars PROVE WindowInv'
  OBVIOUS
<1> USE LimitsAreNumbers DEF WindowInv, Routed
<1>1. ASSUME NEW m \in Messages, CheckInCooldown(m) PROVE WindowInv'
  <2>1. /\ route[m] = "new" /\ route' = [route EXCEPT ![m] = "over"] /\ Rejected
        /\ UNCHANGED <<now, requests, cooldown, slots, granted, refusedAt>>
    BY <1>1 DEF CheckInCooldown
  <2>2. SlotsAreHeld' /\ WindowTypes'
    BY <2>1, HoldingCounts, RejectedProperties DEF WindowTypes, SlotsAreHeld, Holding
  <2>3. RequestsAreLast' /\ DeadlinesStand' /\ WindowHolds' /\ DeadlinesKept'
    BY <2>1, RejectedProperties DEF RequestsAreLast, DeadlinesStand, WindowHolds, DeadlinesKept
  <2>. QED BY <2>2, <2>3
<1>2. ASSUME NEW m \in Messages, CheckOverLoad(m) PROVE WindowInv'
  <2>1. /\ route[m] = "new" /\ route' = [route EXCEPT ![m] = "over"] /\ Rejected /\ now >= cooldown
        /\ requests' = Pruned /\ cooldown' = now + CooldownLength /\ refusedAt' = refusedAt \cup {now}
        /\ UNCHANGED <<now, slots, granted>>
    BY <1>2 DEF CheckOverLoad
  <2>6. Holding' = Holding /\ route' \in [Messages -> {"new", "granted", "holding", "over"}]
    BY <2>1, HoldingCounts
  <2>2. SlotsAreHeld' /\ WindowTypes'
    <3>1. SlotsAreHeld'
      BY <2>1, <2>6 DEF SlotsAreHeld, Holding
    <3>2. refusedAt' \subseteq Nat /\ cooldown' \in Nat /\ requests' \in Seq(Nat)
      BY <2>1, PrunedProperties DEF WindowTypes
    <3>. QED BY <2>1, <2>6, <3>1, <3>2, RejectedProperties DEF WindowTypes
  <2>3. RequestsAreLast' /\ WindowHolds'
    BY <2>1, PrunedProperties DEF RequestsAreLast, WindowHolds
  <2>4. DeadlinesStand'
    BY <2>1, RejectedProperties DEF WindowTypes, DeadlinesStand
  <2>5. DeadlinesKept'
    <3>1. ASSUME NEW i \in DOMAIN granted' PROVE granted'[i] \notin now + 1..now + CooldownLength - 1
      <4>1. DOMAIN granted' = 1..Len(granted) /\ granted[i] \in Nat /\ granted[i] <= now /\ now \in Nat
        BY <2>1 DEF WindowTypes, DeadlinesStand
      <4>. QED BY <2>1, <4>1
    <3>. QED BY <2>1, <3>1, RejectedProperties DEF DeadlinesKept
  <2>. QED BY <2>2, <2>3, <2>4, <2>5
<1>3. ASSUME NEW m \in Messages, CheckTooManyAtOnce(m) PROVE WindowInv'
  <2>1. /\ route[m] = "new" /\ route' = [route EXCEPT ![m] = "over"] /\ Rejected /\ now >= cooldown
        /\ requests' = Pruned /\ cooldown' = 0
        /\ UNCHANGED <<now, slots, granted, refusedAt>>
    BY <1>3 DEF CheckTooManyAtOnce
  <2>2. SlotsAreHeld' /\ WindowTypes'
    BY <2>1, HoldingCounts, RejectedProperties, PrunedProperties DEF WindowTypes, SlotsAreHeld, Holding
  <2>3. RequestsAreLast' /\ WindowHolds' /\ DeadlinesKept'
    BY <2>1, PrunedProperties, RejectedProperties DEF RequestsAreLast, WindowHolds, DeadlinesKept
  <2>4. DeadlinesStand'
    BY <2>1, RejectedProperties DEF WindowTypes, DeadlinesStand
  <2>. QED BY <2>2, <2>3, <2>4
<1>4. ASSUME NEW m \in Messages, CheckGranted(m) PROVE WindowInv'
  <2>1. /\ route[m] = "new" /\ route' = [route EXCEPT ![m] = "granted"] /\ now >= cooldown
        /\ Len(Pruned) + 1 <= MaxRequests
        /\ requests' = Append(Pruned, now) /\ cooldown' = 0 /\ granted' = Append(granted, now)
        /\ UNCHANGED <<now, slots, noticedUntil, refusedAt, notices>>
    BY <1>4 DEF CheckGranted
  <2>2. SlotsAreHeld'
    BY <2>1, HoldingCounts DEF SlotsAreHeld, Holding
  <2>3. /\ granted' \in Seq(Nat) /\ Len(granted') = Len(granted) + 1
        /\ \A i \in 1..Len(granted) : granted'[i] = granted[i]
        /\ granted'[Len(granted) + 1] = now
    BY <2>1 DEF WindowTypes
  <2>4. /\ requests' \in Seq(Nat) /\ Len(requests') = Len(Pruned) + 1
        /\ \A i \in 1..Len(Pruned) : requests'[i] = Pruned[i]
        /\ requests'[Len(Pruned) + 1] = now
    BY <2>1, PrunedProperties DEF WindowTypes
  <2>5. WindowTypes'
    BY <2>1, <2>3, <2>4, HoldingCounts DEF WindowTypes
  <2>6. Len(Pruned) \in Nat /\ Len(granted) \in Nat /\ Len(Pruned) <= Len(granted)
    BY PrunedProperties DEF WindowTypes
  <2>7. RequestsAreLast'
    <3>1. ASSUME NEW i \in 1..Len(requests')
          PROVE  requests'[i] = granted'[Len(granted') - Len(requests') + i]
      <4>1. CASE i = Len(Pruned) + 1
        <5>1. Len(granted') - Len(requests') + i = Len(granted) + 1
          BY <2>3, <2>4, <2>6, <4>1
        <5>. QED BY <2>3, <2>4, <4>1, <5>1
      <4>2. CASE i # Len(Pruned) + 1
        <5>1. i \in 1..Len(Pruned)
          BY <2>4, <2>6, <4>2
        <5>2. /\ Len(granted') - Len(requests') + i = Len(granted) - Len(Pruned) + i
              /\ Len(granted) - Len(Pruned) + i \in 1..Len(granted)
          BY <2>3, <2>4, <2>6, <5>1
        <5>. QED BY <2>3, <2>4, <5>1, <5>2, PrunedProperties
      <4>. QED BY <4>1, <4>2
    <3>2. ASSUME NEW i \in 1..Len(granted') - Len(requests')
          PROVE  granted'[i] + WindowLength < now
      <4>1. i \in 1..Len(granted) - Len(Pruned) /\ i \in 1..Len(granted)
        BY <2>3, <2>4, <2>6
      <4>. QED BY <2>3, <4>1, PrunedProperties
    <3>3. Len(requests') <= Len(granted') /\ now' = now
      BY <2>1, <2>3, <2>4, <2>6
    <3>. QED BY <3>1, <3>2, <3>3 DEF RequestsAreLast
  <2>8. DeadlinesStand'
    BY <2>1, <2>3, <2>6 DEF WindowTypes, DeadlinesStand
  <2>9. WindowHolds'
    <3>1. ASSUME NEW i \in DOMAIN granted', i + MaxRequests <= Len(granted')
          PROVE  granted'[i + MaxRequests] > granted'[i] + WindowLength
      <4>1. i \in 1..Len(granted) /\ i + MaxRequests \in 1..Len(granted) + 1
        BY <2>3, <2>6, <3>1
      <4>2. CASE i + MaxRequests <= Len(granted)
        <5>1. i \in DOMAIN granted /\ i + MaxRequests \in 1..Len(granted)
          BY <2>6, <4>1, <4>2 DEF WindowTypes
        <5>2. granted[i + MaxRequests] > granted[i] + WindowLength
          BY <4>2, <5>1 DEF WindowHolds
        <5>. QED BY <2>3, <4>1, <5>1, <5>2
      <4>3. CASE i + MaxRequests = Len(granted) + 1
        <5>1. i \in 1..Len(granted) - Len(Pruned)
          BY <2>1, <2>6, <4>1, <4>3
        <5>2. granted[i] + WindowLength < now
          BY <5>1, PrunedProperties
        <5>3. granted[i] \in Nat /\ now \in Nat
          BY <4>1 DEF WindowTypes
        <5>. QED BY <2>3, <4>1, <4>3, <5>2, <5>3
      <4>. QED BY <2>6, <4>1, <4>2, <4>3
    <3>. QED BY <3>1 DEF WindowHolds
  <2>10. DeadlinesKept'
    <3>1. ASSUME NEW i \in DOMAIN granted', NEW t \in refusedAt
          PROVE  granted'[i] \notin t + 1..t + CooldownLength - 1
      <4>1. CASE i = Len(granted) + 1
        <5>1. /\ granted'[i] = now /\ now \in Nat /\ t \in Nat /\ cooldown \in Nat /\ now >= cooldown
              /\ now >= t + CooldownLength \/ cooldown >= t + CooldownLength
          BY <2>1, <2>3, <4>1 DEF DeadlinesStand, WindowTypes
        <5>2. now >= t + CooldownLength
          BY <5>1
        <5>. QED BY <5>1, <5>2
      <4>2. CASE i # Len(granted) + 1
        <5>1. i \in 1..Len(granted)
          BY <2>3, <2>6, <4>2
        <5>2. i \in DOMAIN granted /\ granted'[i] = granted[i]
          BY <2>3, <5>1 DEF WindowTypes
        <5>. QED BY <5>2 DEF DeadlinesKept
      <4>. QED BY <4>1, <4>2
    <3>. QED BY <2>1, <3>1 DEF DeadlinesKept
  <2>. QED BY <2>2, <2>5, <2>7, <2>8, <2>9, <2>10
<1>5. ASSUME NEW m \in Messages, Acquire(m) PROVE WindowInv'
  <2>1. /\ route[m] = "granted" /\ route' = [route EXCEPT ![m] = "holding"] /\ slots' = slots + 1
        /\ UNCHANGED <<now, requests, cooldown, noticedUntil, granted, refusedAt, notices>>
    BY <1>5 DEF Acquire, SlotTaken
  <2>3. /\ Cardinality(Holding) \in Nat /\ Cardinality(Holding') = Cardinality(Holding) + 1
        /\ route' \in [Messages -> {"new", "granted", "holding", "over"}]
    BY <2>1, HoldingCounts
  <2>2. SlotsAreHeld' /\ WindowTypes'
    BY <2>1, <2>3 DEF WindowTypes, SlotsAreHeld, Holding
  <2>. QED BY <2>1, <2>2 DEF RequestsAreLast, DeadlinesStand, WindowHolds, DeadlinesKept
<1>6. ASSUME NEW m \in Messages, AcquireRefused(m) PROVE WindowInv'
  <2>1. /\ route[m] = "granted" /\ route' = [route EXCEPT ![m] = "over"]
        /\ UNCHANGED <<now, requests, cooldown, slots, noticedUntil, granted, refusedAt, notices>>
    BY <1>6 DEF AcquireRefused
  <2>2. SlotsAreHeld' /\ WindowTypes'
    BY <2>1, HoldingCounts DEF WindowTypes, SlotsAreHeld, Holding
  <2>. QED BY <2>1, <2>2 DEF RequestsAreLast, DeadlinesStand, WindowHolds, DeadlinesKept
<1>7. ASSUME NEW m \in Messages, Release(m) PROVE WindowInv'
  <2>1. /\ route[m] = "holding" /\ route' = [route EXCEPT ![m] = "over"]
        /\ slots' = IF slots = 0 THEN 0 ELSE slots - 1
        /\ UNCHANGED <<now, requests, cooldown, noticedUntil, granted, refusedAt, notices>>
    BY <1>7 DEF Release
  <2>3. /\ Cardinality(Holding') = Cardinality(Holding) - 1 /\ Cardinality(Holding) > 0
        /\ Cardinality(Holding) \in Nat
        /\ route' \in [Messages -> {"new", "granted", "holding", "over"}]
    BY <2>1, HoldingCounts
  <2>2. SlotsAreHeld' /\ WindowTypes'
    BY <2>1, <2>3 DEF WindowTypes, SlotsAreHeld, Holding
  <2>. QED BY <2>1, <2>2 DEF RequestsAreLast, DeadlinesStand, WindowHolds, DeadlinesKept
<1>8. ASSUME CleanupExpired PROVE WindowInv'
  <2>1. /\ requests' = Pruned
        /\ cooldown' = (IF now >= cooldown THEN 0 ELSE cooldown)
        /\ noticedUntil' = (IF now >= noticedUntil THEN 0 ELSE noticedUntil)
        /\ UNCHANGED <<now, slots, route, granted, refusedAt, notices>>
    BY <1>8 DEF CleanupExpired, AfterCleanup
  <2>2. WindowTypes'
    BY <2>1, PrunedProperties DEF WindowTypes
  <2>3. RequestsAreLast' /\ WindowHolds' /\ DeadlinesKept' /\ SlotsAreHeld'
    BY <2>1, PrunedProperties DEF RequestsAreLast, WindowHolds, DeadlinesKept, SlotsAreHeld
  <2>4. DeadlinesStand'
    BY <2>1 DEF WindowTypes, DeadlinesStand
  <2>. QED BY <2>2, <2>3, <2>4
<1>9. ASSUME ClockTick PROVE WindowInv'
  <2>1. /\ now' = now + 1
        /\ UNCHANGED <<requests, cooldown, slots, route, noticedUntil, granted, refusedAt, notices>>
    BY <1>9 DEF ClockTick
  <2>2. WindowTypes' /\ WindowHolds' /\ DeadlinesKept' /\ SlotsAreHeld'
    BY <2>1 DEF WindowTypes, WindowHolds, DeadlinesKept, SlotsAreHeld
  <2>3. RequestsAreLast'
    BY <2>1 DEF WindowTypes, RequestsAreLast
  <2>4. DeadlinesStand'
    BY <2>1 DEF WindowTypes, DeadlinesStand
  <2>. QED BY <2>2, <2>3, <2>4
<1>10. CASE UNCHANGED windowVars
  BY <1>10 DEF windowVars, WindowTypes, RequestsAreLast, DeadlinesStand, WindowHolds, DeadlinesKept,
     SlotsAreHeld
<1>. QED
  BY <1>1, <1>2, <1>3, <1>4, <1>5, <1>6, <1>7, <1>8, <1>9, <1>10 DEF WindowNext

\* UserRateLimiter: no stretch as long as the window has more than the limit of grants, no
\* deadline is shortened, and the slots are the messages at work.
THEOREM WindowSafe == WindowSpec => []WindowIsSafe
<1>1. WindowInv => WindowIsSafe
  BY DEF WindowInv, WindowIsSafe
<1>. QED
  BY <1>1, WindowInvInit, WindowInvNext, PTL DEF WindowSpec

-----------------------------------------------------------------------------
(* The slots in Redis *)

Admitted == At({"expire", "holding"})

SlotsTypes ==
  /\ place \in [Operations -> Places]
  /\ counter \in Int
  /\ ~present => counter = 0 /\ ~timed

\* The counter is at least the operations between their commands as long as the key has
\* never gone under one of them.
CounterCovers == ~wiped => counter >= Cardinality(Counted)

SlotsInv ==
  SlotsTypes /\ CounterCovers /\ AdmissionBounded /\ CounterBalanced /\ KeyHasExpiry

\* The operations at some places are finitely many, and move one at a time.
LEMMA PlaceCounts ==
  ASSUME place \in [Operations -> Places], NEW o \in Operations, NEW where \in Places,
         place' = [place EXCEPT ![o] = where], NEW places
  PROVE  /\ Cardinality(At(places)) \in Nat
         /\ Cardinality(At(places)') = IF where \in places
                                       THEN IF place[o] \in places THEN Cardinality(At(places))
                                            ELSE Cardinality(At(places)) + 1
                                       ELSE IF place[o] \in places THEN Cardinality(At(places)) - 1
                                            ELSE Cardinality(At(places))
<1> USE DEF At
<1>1. IsFiniteSet(At(places)) /\ Cardinality(At(places)) \in Nat
  BY SlotsAssumption, FS_Subset, FS_CardinalityType
<1>2. CASE where \in places /\ place[o] \notin places
  <2>1. At(places)' = At(places) \cup {o} /\ o \notin At(places)
    BY <1>2
  <2>. QED BY <1>1, <1>2, <2>1, FS_AddElement
<1>3. CASE where \notin places /\ place[o] \in places
  <2>1. At(places)' = At(places) \ {o} /\ o \in At(places)
    BY <1>3
  <2>2. Cardinality(At(places) \ {o}) = Cardinality(At(places)) - 1
    BY <1>1, <2>1, FS_RemoveElement
  <2>3. Cardinality(At(places)') = Cardinality(At(places)) - 1
    BY <2>1, <2>2
  <2>. HIDE DEF At
  <2>. QED BY <1>1, <1>3, <2>3
<1>4. CASE where \in places <=> place[o] \in places
  <2>1. \A p \in Operations : p \in At(places)' <=> p \in At(places)
    BY <1>4
  <2>2. At(places)' = At(places)
    BY <2>1
  <2>3. Cardinality(At(places)') = Cardinality(At(places))
    BY <2>2
  <2>. HIDE DEF At
  <2>. QED BY <1>1, <1>4, <2>3
<1>. QED BY <1>2, <1>3, <1>4

\* No operation is counted before the first command.
LEMMA SlotsInvInit == SlotsInit => SlotsInv
<1> SUFFICES ASSUME SlotsInit PROVE SlotsInv
  OBVIOUS
<1>1. Counted = {} /\ At({"expire", "holding"}) = {}
  BY DEF SlotsInit, Counted, At
<1>2. Cardinality(Counted) = 0 /\ Cardinality(At({"expire", "holding"})) = 0
  BY <1>1, FS_EmptySet
<1>. QED BY <1>2, SlotsAssumption DEF SlotsInit, SlotsInv, SlotsTypes, Places, CounterCovers,
         AdmissionBounded, CounterBalanced, KeyHasExpiry

\* An operation that moves counts itself in and out of the two sets.
LEMMA BothCounts ==
  ASSUME place \in [Operations -> Places], NEW o \in Operations, NEW where \in Places,
         place' = [place EXCEPT ![o] = where]
  PROVE  /\ place' \in [Operations -> Places]
         /\ Cardinality(Counted) \in Nat /\ Cardinality(Admitted) \in Nat
         /\ Cardinality(Counted') = IF where \in {"expire", "undo", "holding"}
                                    THEN IF place[o] \in {"expire", "undo", "holding"}
                                         THEN Cardinality(Counted) ELSE Cardinality(Counted) + 1
                                    ELSE IF place[o] \in {"expire", "undo", "holding"}
                                         THEN Cardinality(Counted) - 1 ELSE Cardinality(Counted)
         /\ Cardinality(Admitted') = IF where \in {"expire", "holding"}
                                     THEN IF place[o] \in {"expire", "holding"}
                                          THEN Cardinality(Admitted) ELSE Cardinality(Admitted) + 1
                                     ELSE IF place[o] \in {"expire", "holding"}
                                          THEN Cardinality(Admitted) - 1 ELSE Cardinality(Admitted)
         /\ Cardinality(Admitted') <= Cardinality(Counted')
         /\ place[o] \in {"expire", "undo", "holding"} => Cardinality(Counted) > 0
         /\ place[o] # "expire" => \A p \in At({"expire"}) : p \in At({"expire"})'
<1>2. place' \in [Operations -> Places]
  OBVIOUS
<1>3. IsFiniteSet(Counted') /\ Admitted' \subseteq Counted'
  BY SlotsAssumption, FS_Subset DEF Counted, Admitted, At
<1>4. Cardinality(Admitted') <= Cardinality(Counted')
  BY <1>3, FS_Subset
<1>5. ASSUME place[o] \in {"expire", "undo", "holding"} PROVE Cardinality(Counted) > 0
  <2>1. IsFiniteSet(Counted) /\ o \in Counted
    BY <1>5, SlotsAssumption, FS_Subset DEF Counted, At
  <2>2. Cardinality(Counted) # 0
    BY <2>1, FS_EmptySet
  <2>. QED BY <2>1, <2>2, FS_CardinalityType
<1>6. place[o] # "expire" => \A p \in At({"expire"}) : p \in At({"expire"})'
  BY DEF At
<1>7. PICK both \in SUBSET Places, inside \in SUBSET Places :
        both = {"expire", "undo", "holding"} /\ inside = {"expire", "holding"}
  BY DEF Places
<1>8. /\ Cardinality(At(both)) \in Nat
      /\ Cardinality(At(both)') = IF where \in both
                                   THEN IF place[o] \in both THEN Cardinality(At(both))
                                        ELSE Cardinality(At(both)) + 1
                                   ELSE IF place[o] \in both THEN Cardinality(At(both)) - 1
                                        ELSE Cardinality(At(both))
  BY PlaceCounts
<1>9. /\ Cardinality(At(inside)) \in Nat
      /\ Cardinality(At(inside)') = IF where \in inside
                                  THEN IF place[o] \in inside THEN Cardinality(At(inside))
                                       ELSE Cardinality(At(inside)) + 1
                                  ELSE IF place[o] \in inside THEN Cardinality(At(inside)) - 1
                                       ELSE Cardinality(At(inside))
  BY PlaceCounts
<1>10. /\ Counted = At(both) /\ Counted' = At(both)' /\ Admitted = At(inside) /\ Admitted' = At(inside)'
  BY <1>7 DEF Counted, Admitted
<1>. QED BY <1>2, <1>4, <1>5, <1>6, <1>7, <1>8, <1>9, <1>10

\* Every command keeps the counter over the counted, and the admitted within the limit.
LEMMA SlotsInvNext == SlotsInv /\ [SlotsNext]_slotsVars => SlotsInv'
<1> SUFFICES ASSUME SlotsInv, [SlotsNext]_slotsVars PROVE SlotsInv'
  OBVIOUS
<1>0. /\ place \in [Operations -> Places] /\ counter \in Int
      /\ ~present => counter = 0 /\ ~timed
      /\ ~wiped => counter >= Cardinality(Counted) /\ Cardinality(Admitted) <= Limit
      /\ ~wiped /\ ~broken => counter = Cardinality(Counted)
      /\ present /\ ~timed => At({"expire"}) # {} \/ wiped \/ broken
      /\ Limit \in Nat /\ Limit > 0
  BY SlotsAssumption DEF SlotsInv, SlotsTypes, CounterCovers, AdmissionBounded, CounterBalanced,
     KeyHasExpiry, Admitted
<1>a. ASSUME place' \in [Operations -> Places], counter' \in Int,
             ~present' => counter' = 0 /\ ~timed',
             ~wiped' => counter' >= Cardinality(Counted') /\ Cardinality(Admitted') <= Limit,
             ~wiped' /\ ~broken' => counter' = Cardinality(Counted'),
             present' /\ ~timed' => At({"expire"})' # {} \/ wiped' \/ broken'
      PROVE  SlotsInv'
  BY <1>a DEF SlotsInv, SlotsTypes, CounterCovers, AdmissionBounded, CounterBalanced,
     KeyHasExpiry, Admitted
<1> USE DEF Goes
<1>1. ASSUME NEW o \in Operations, Incr(o) PROVE SlotsInv'
  <2>1. PICK where \in {"expire", "undo", "holding"} : where = AfterIncr(counter + 1)
    BY DEF AfterIncr
  <2>2. /\ place[o] = "incr" /\ place' = [place EXCEPT ![o] = where]
        /\ present' /\ counter' = counter + 1
        /\ UNCHANGED <<timed, wiped, broken>>
    BY <1>1, <2>1 DEF Incr, Add
  <2>3. where \in Places
    BY DEF Places
  <2>4. where # "undo" => counter + 1 <= Limit
    BY <1>0, <2>1 DEF AfterIncr
  <2>5. counter = 0 => where = "expire"
    BY <2>1 DEF AfterIncr
  <2>6. where = "expire" => At({"expire"})' # {}
    BY <1>0, <2>2 DEF At
  <2>7. present' /\ ~timed' => At({"expire"})' # {} \/ wiped' \/ broken'
    <3>1. CASE At({"expire"}) # {}
      BY <1>0, <2>2, <2>3, <3>1, BothCounts
    <3>2. CASE ~present
      BY <1>0, <2>5, <2>6, <3>2
    <3>. QED BY <1>0, <2>2, <3>1, <3>2
  <2>8. /\ Cardinality(Counted) \in Nat /\ Cardinality(Admitted) \in Nat
        /\ Cardinality(Counted') = Cardinality(Counted) + 1
        /\ Cardinality(Admitted') = IF where = "undo" THEN Cardinality(Admitted) ELSE Cardinality(Admitted) + 1
        /\ Cardinality(Admitted') <= Cardinality(Counted')
        /\ place' \in [Operations -> Places]
    BY <1>0, <2>2, <2>3, BothCounts
  <2>9. ~wiped' => counter' >= Cardinality(Counted') /\ Cardinality(Admitted') <= Limit
    BY <1>0, <2>2, <2>4, <2>8
  <2>. QED BY <1>a, <1>0, <2>2, <2>7, <2>8, <2>9
<1>2. ASSUME NEW o \in Operations, SetExpiry(o) PROVE SlotsInv'
  <2>1. /\ place[o] = "expire" /\ place' = [place EXCEPT ![o] = "holding"]
        /\ timed' = present /\ UNCHANGED <<present, counter, wiped, broken>>
    BY <1>2 DEF SetExpiry
  <2>2. "holding" \in Places
    BY DEF Places
  <2>3. /\ Cardinality(Counted') = Cardinality(Counted) /\ Cardinality(Admitted') = Cardinality(Admitted)
        /\ place' \in [Operations -> Places]
    BY <1>0, <2>1, <2>2, BothCounts
  <2>. QED BY <1>a, <1>0, <2>1, <2>3
<1>3. ASSUME NEW o \in Operations, Undo(o) \/ Decr(o) PROVE SlotsInv'
  <2>1. PICK where \in {"over", "delete"} : place' = [place EXCEPT ![o] = where]
    BY <1>3 DEF Undo, Decr, AfterDecr
  <2>2. /\ place[o] \in {"undo", "holding"} /\ present' /\ counter' = counter - 1
        /\ UNCHANGED <<timed, wiped, broken>>
    BY <1>0, <1>3 DEF Undo, Decr, Add
  <2>3. where \in Places
    BY DEF Places
  <2>4. /\ Cardinality(Counted) \in Nat /\ Cardinality(Admitted) \in Nat
        /\ Cardinality(Counted') = Cardinality(Counted) - 1 /\ Cardinality(Counted) > 0
        /\ Cardinality(Admitted') = IF place[o] = "holding" THEN Cardinality(Admitted) - 1 ELSE Cardinality(Admitted)
        /\ place' \in [Operations -> Places]
    BY <1>0, <2>1, <2>2, <2>3, BothCounts
  <2>5. ~wiped => present
    BY <1>0, <2>4
  <2>6. present' /\ ~timed' => At({"expire"})' # {} \/ wiped' \/ broken'
    BY <1>0, <2>1, <2>2, <2>3, <2>5, BothCounts
  <2>. QED BY <1>a, <1>0, <2>2, <2>4, <2>6
<1>4. ASSUME NEW o \in Operations, place[o] = "delete", KeyGone,
             place' = [place EXCEPT ![o] = "over"], wiped' <=> (wiped \/ Counted # {})
      PROVE SlotsInv'
  <2>1. "over" \in Places
    BY DEF Places
  <2>2. /\ Cardinality(Counted') = Cardinality(Counted) /\ Cardinality(Admitted') = Cardinality(Admitted)
        /\ Cardinality(Admitted) \in Nat /\ place' \in [Operations -> Places]
    BY <1>0, <1>4, <2>1, BothCounts
  <2>3. ~wiped' => ~wiped /\ Cardinality(Counted) = 0
    BY <1>4, FS_EmptySet
  <2>. QED BY <1>a, <1>0, <1>4, <2>2, <2>3 DEF KeyGone
<1>5. ASSUME NEW o \in Operations, Delete(o) PROVE SlotsInv'
  BY <1>4, <1>5 DEF Delete
<1>6. ASSUME NEW o \in Operations, CommandFails(o) PROVE SlotsInv'
  <2>1. /\ place[o] # "over" /\ broken' /\ place' = [place EXCEPT ![o] = "over"]
        /\ wiped' <=> (wiped \/ (place[o] = "delete" /\ Counted # {}))
    BY <1>6 DEF CommandFails
  <2>2. "over" \in Places
    BY DEF Places
  <2>3. /\ Cardinality(Counted) \in Nat /\ Cardinality(Admitted) \in Nat
        /\ Cardinality(Counted') = IF place[o] \in {"expire", "undo", "holding"}
                                   THEN Cardinality(Counted) - 1 ELSE Cardinality(Counted)
        /\ Cardinality(Admitted') = IF place[o] \in {"expire", "holding"}
                                    THEN Cardinality(Admitted) - 1 ELSE Cardinality(Admitted)
        /\ place' \in [Operations -> Places]
    BY <1>0, <2>1, <2>2, BothCounts
  <2>4. ~wiped' => ~wiped
    BY <2>1
  <2>5. CASE UNCHANGED <<present, counter, timed>>
    BY <1>a, <1>0, <2>1, <2>3, <2>4, <2>5
  <2>6. CASE place[o] = "incr" /\ Add(1)
    BY <1>a, <1>0, <2>1, <2>3, <2>4, <2>6 DEF Add
  <2>7. CASE place[o] \in {"undo", "holding"} /\ Add(-1)
    BY <1>a, <1>0, <2>1, <2>3, <2>4, <2>7 DEF Add
  <2>8. CASE place[o] = "expire" /\ timed' = present /\ UNCHANGED <<present, counter>>
    BY <1>a, <1>0, <2>1, <2>3, <2>4, <2>8
  <2>9. CASE place[o] = "delete" /\ KeyGone
    BY <1>4, <2>1, <2>9
  <2>. QED BY <1>6, <2>5, <2>6, <2>7, <2>8, <2>9 DEF CommandFails
<1>7. ASSUME KeyExpires PROVE SlotsInv'
  <2>1. /\ KeyGone /\ wiped' <=> (wiped \/ Counted # {})
        /\ UNCHANGED <<place, broken>>
    BY <1>7 DEF KeyExpires
  <2>2. Counted' = Counted /\ Admitted' = Admitted
    BY <2>1 DEF Counted, Admitted, At
  <2>3. ~wiped' => ~wiped /\ Cardinality(Counted) = 0
    BY <2>1, FS_EmptySet
  <2>4. present' = FALSE /\ counter' = 0 /\ timed' = FALSE /\ place' = place
    BY <1>7 DEF KeyExpires, KeyGone
  <2>5. Cardinality(Counted') = Cardinality(Counted) /\ Cardinality(Admitted') = Cardinality(Admitted)
    BY <2>2
  <2>6. ~wiped' => counter' >= Cardinality(Counted') /\ Cardinality(Admitted') <= Limit
    BY <1>0, <2>3, <2>4, <2>5
  <2>7. ~wiped' /\ ~broken' => counter' = Cardinality(Counted')
    BY <1>0, <2>3, <2>4, <2>5
  <2>8. place' \in [Operations -> Places] /\ counter' \in Int
    BY <1>0, <2>4
  <2>. QED BY <1>a, <2>4, <2>6, <2>7, <2>8
<1>8. CASE SlotsAtRest \/ UNCHANGED slotsVars
  <2>1. UNCHANGED slotsVars
    BY <1>8 DEF SlotsAtRest
  <2>2. Counted' = Counted /\ Admitted' = Admitted /\ At({"expire"})' = At({"expire"})
    BY <2>1 DEF slotsVars, Counted, Admitted, At
  <2>3. UNCHANGED <<place, present, counter, timed, wiped, broken>>
    BY <2>1 DEF slotsVars
  <2>4. present' /\ ~timed' => At({"expire"})' # {} \/ wiped' \/ broken'
    BY <1>0, <2>2, <2>3
  <2>5. Cardinality(Counted') = Cardinality(Counted) /\ Cardinality(Admitted') = Cardinality(Admitted)
    BY <2>2
  <2>6. ~wiped' => counter' >= Cardinality(Counted') /\ Cardinality(Admitted') <= Limit
    BY <1>0, <2>3, <2>5
  <2>7. ~wiped' /\ ~broken' => counter' = Cardinality(Counted')
    BY <1>0, <2>3, <2>5
  <2>8. /\ place' \in [Operations -> Places] /\ counter' \in Int
        /\ ~present' => counter' = 0 /\ ~timed'
    BY <1>0, <2>3
  <2>. QED BY <1>a, <2>4, <2>6, <2>7, <2>8
<1>. QED
  BY <1>1, <1>2, <1>3, <1>5, <1>6, <1>7, <1>8 DEF SlotsNext

\* RedisUserRateLimiter: whatever order the commands of the operations take and whichever raise,
\* no more than the limit are inside in until the key goes under one, and nothing leaks unless one
\* raised.
THEOREM SlotsSafe == SlotsSpec => []SlotsAreSafe
<1>1. SlotsInv => SlotsAreSafe
  BY DEF SlotsInv, SlotsAreSafe
<1>. QED
  BY <1>1, SlotsInvInit, SlotsInvNext, PTL DEF SlotsSpec

-----------------------------------------------------------------------------
(* The webhook dispatcher *)

\* A dispatch past its listing has tried what it has left of its list, the subscription in
\* delivery behind its post included, and has none left at its end.
TriedOrLeft ==
  \A e \in EventIds :
    /\ at[e] = "new" => tried[e] = {} /\ withheld[e] = {}
    /\ at[e] \notin {"new", "cancelled"} => tried[e] \cup withheld[e] \cup left[e] = matched[e]
    /\ at[e] = "over" => left[e] = {}
    /\ at[e] \notin {"new", "post", "over", "cancelled"} => Sub(e) \in tried[e]

\* What an increment has read is still the count, unless another transaction came between.
ReadIsCurrent ==
  \A e \in EventIds :
    at[e] = "write" /\ Sub(e) \notin overlapped => readCount[e] = count[Sub(e)]

DispatchInv ==
  DispatchTypeOK /\ TriedOrLeft /\ ReadIsCurrent /\ CountIsConsecutive /\ FailingIsDisabled

\* The subscription in delivery is one of those left.
LEMMA SubProperties ==
  ASSUME DispatchTypeOK, NEW e \in EventIds, left[e] # {}
  PROVE  Sub(e) \in left[e] /\ Sub(e) \in Subs
<1> DEFINE R == {ss \in Nat \X Nat : ss[1] < ss[2]}
<1>1. IsWellFoundedOn(R, Nat)
  BY NatLessThanWellFounded DEF OpToRel
<1>2. PICK L \in SUBSET Nat : L = left[e]
  BY DispatchAssumption DEF DispatchTypeOK
<1>3. PICK s \in L : \A t \in L : <<t, s>> \notin R
  <2> HIDE DEF R
  <2>. QED BY <1>1, <1>2, WFMin
<1>4. \A t \in L : s <= t
  <2>1. ASSUME NEW t \in L PROVE s <= t
    <3>1. s \in Nat /\ t \in Nat
      BY <1>2
    <3>2. ~(t < s)
      BY <1>3, <3>1
    <3>. QED BY <3>1, <3>2
  <2>. QED BY <2>1
<1>. QED BY <1>2, <1>3, <1>4 DEF Sub, DispatchTypeOK

\* No subscription has been counted, tried or switched off at the start.
LEMMA DispatchInvInit == DispatchInit => DispatchInv
  BY DispatchAssumption DEF DispatchInit, DispatchInv, DispatchTypeOK, TriedOrLeft, ReadIsCurrent,
     CountIsConsecutive, FailingIsDisabled

\* Going on with the next subscription takes the one in delivery from the list, or ends the
\* dispatch, and moves nobody else.
LEMMA NextSubProperties ==
  ASSUME DispatchTypeOK, TriedOrLeft, NEW e \in EventIds,
         at[e] \notin {"new", "over", "cancelled"}, NextSub(e), UNCHANGED <<tried, matched>>,
         withheld' = IF at[e] = "post" THEN [withheld EXCEPT ![e] = @ \cup {Sub(e)}] ELSE withheld
  PROVE  /\ at' \in [EventIds -> {"new", "post", "log", "reset", "read", "write", "disable",
                                  "over", "cancelled"}]
         /\ left' \in [EventIds -> SUBSET Subs]
         /\ success' \in [EventIds -> BOOLEAN] /\ readCount' \in [EventIds -> Nat]
         /\ \A f \in EventIds : at'[f] \notin {"new", "over", "cancelled"} => left'[f] # {}
         /\ at'[e] \in {"over", "post"}
         /\ \A f \in EventIds : f # e => /\ at'[f] = at[f] /\ left'[f] = left[f]
                                         /\ readCount'[f] = readCount[f] /\ Sub(f)' = Sub(f)
         /\ TriedOrLeft' /\ withheld' \in [EventIds -> SUBSET Subs]
<1> USE DEF DispatchTypeOK
<1>1. /\ Sub(e) \in left[e] /\ Sub(e) \in Subs /\ Sub(e) \in tried'[e] \cup withheld'[e]
      /\ withheld' \in [EventIds -> SUBSET Subs]
      /\ withheld'[e] = withheld[e] \/ withheld'[e] = withheld[e] \cup {Sub(e)}
      /\ \A f \in EventIds : f # e => withheld'[f] = withheld[f]
  BY SubProperties DEF TriedOrLeft
<1>2. /\ left' = [left EXCEPT ![e] = @ \ {Sub(e)}]
      /\ at' = [at EXCEPT ![e] = IF left'[e] = {} THEN "over" ELSE "post"]
      /\ success' = [success EXCEPT ![e] = FALSE] /\ readCount' = [readCount EXCEPT ![e] = 0]
  BY DEF NextSub, GoesTo, AfterSub
<1>3. left' \in [EventIds -> SUBSET Subs] /\ left'[e] = left[e] \ {Sub(e)}
  BY <1>2
<1>4. \A f \in EventIds : f # e => /\ at'[f] = at[f] /\ left'[f] = left[f]
                                   /\ readCount'[f] = readCount[f] /\ Sub(f)' = Sub(f)
  BY <1>2 DEF Sub
<1>5. at'[e] = IF left'[e] = {} THEN "over" ELSE "post"
  BY <1>2
<1>6. TriedOrLeft'
  <2>1. ASSUME NEW f \in EventIds
        PROVE  /\ at'[f] = "new" => tried'[f] = {} /\ withheld'[f] = {}
               /\ at'[f] \notin {"new", "cancelled"} => tried'[f] \cup withheld'[f] \cup left'[f] = matched'[f]
               /\ at'[f] = "over" => left'[f] = {}
               /\ at'[f] \notin {"new", "post", "over", "cancelled"} => Sub(f)' \in tried'[f]
    <3>1. CASE f = e
      <4>1. tried[e] \cup withheld[e] \cup left[e] = matched[e]
        BY DEF TriedOrLeft
      <4>. QED BY <1>1, <1>3, <1>5, <3>1, <4>1
    <3>2. CASE f # e
      BY <1>1, <1>4, <3>2 DEF TriedOrLeft
    <3>. QED BY <3>1, <3>2
  <2>. QED BY <2>1 DEF TriedOrLeft
<1>. QED BY <1>1, <1>2, <1>3, <1>4, <1>5, <1>6

\* Every step of a dispatch counts what it has delivered, and for nobody else.
LEMMA DispatchInvNext == DispatchInv /\ [DispatchNext]_dispatchVars => DispatchInv'
<1> SUFFICES ASSUME DispatchInv, [DispatchNext]_dispatchVars PROVE DispatchInv'
  OBVIOUS
<1> USE DEF DispatchInv
<1>0. MaxFailures \in Nat /\ MaxFailures > 0
  BY DispatchAssumption
<1>1. ASSUME NEW e \in EventIds, ListSubs(e) PROVE DispatchInv'
  <2>1. DispatchTypeOK'
    BY <1>1 DEF ListSubs, GoesTo, rowVars, DispatchTypeOK
  <2>2. \A f \in EventIds : f # e => at'[f] = at[f] /\ left'[f] = left[f] /\ Sub(f)' = Sub(f)
    BY <1>1 DEF ListSubs, GoesTo, DispatchTypeOK, Sub
  <2>3. /\ at[e] = "new" /\ at'[e] \in {"over", "post"} /\ (at'[e] = "over" => left'[e] = {})
        /\ left'[e] = matched'[e] /\ \A f \in EventIds : f # e => matched'[f] = matched[f]
        /\ UNCHANGED <<success, readCount, count, enabled, streak, overlapped, excused, tried, withheld>>
    BY <1>1 DEF ListSubs, GoesTo, rowVars, DispatchTypeOK
  <2>4. TriedOrLeft'
    BY <2>2, <2>3 DEF TriedOrLeft
  <2>5. ReadIsCurrent' /\ CountIsConsecutive' /\ FailingIsDisabled'
    BY <2>2, <2>3 DEF ReadIsCurrent, CountIsConsecutive, FailingIsDisabled
  <2>. QED BY <2>1, <2>4, <2>5
<1>2. ASSUME NEW e \in EventIds, Post(e) \/ LogDelivery(e) PROVE DispatchInv'
  <2>1. left[e] # {}
    BY <1>2 DEF Post, LogDelivery, DispatchTypeOK
  <2>2. Sub(e) \in left[e] /\ Sub(e) \in Subs
    BY <2>1, SubProperties
  <2>3. DispatchTypeOK'
    BY <1>2, <2>1, <2>2 DEF Post, LogDelivery, GoesTo, rowVars, DispatchTypeOK
  <2>4. /\ at[e] \in {"post", "log"} /\ at'[e] \in {"log", "reset", "read"}
        /\ \A f \in EventIds : f # e => at'[f] = at[f] /\ tried'[f] = tried[f]
        /\ \A f \in EventIds : Sub(f)' = Sub(f)
        /\ tried'[e] = tried[e] \cup {Sub(e)} \/ (at[e] = "log" /\ tried'[e] = tried[e])
        /\ UNCHANGED <<left, readCount, count, enabled, streak, overlapped, excused, withheld, matched>>
    BY <1>2 DEF Post, LogDelivery, GoesTo, rowVars, DispatchTypeOK, Sub
  <2>5. TriedOrLeft'
    BY <2>2, <2>4 DEF TriedOrLeft
  <2>6. ReadIsCurrent' /\ CountIsConsecutive' /\ FailingIsDisabled'
    BY <2>4 DEF ReadIsCurrent, CountIsConsecutive, FailingIsDisabled
  <2>. QED BY <2>3, <2>5, <2>6
<1>3. ASSUME NEW e \in EventIds, DatabaseFails(e) PROVE DispatchInv'
  <2>1. /\ at[e] \notin {"new", "post", "over", "cancelled"} /\ NextSub(e)
        /\ excused' = excused \cup {Sub(e)}
        /\ UNCHANGED <<count, enabled, streak, overlapped, tried, withheld, matched>>
    BY <1>3 DEF DatabaseFails
  <2>2. left[e] # {}
    BY <2>1 DEF DispatchTypeOK
  <2>3. Sub(e) \in Subs
    BY <2>2, SubProperties
  <2>4. DispatchTypeOK' /\ TriedOrLeft'
    BY <2>1, <2>3, NextSubProperties DEF DispatchTypeOK
  <2>5. ReadIsCurrent' /\ CountIsConsecutive' /\ FailingIsDisabled'
    BY <2>1, <2>3, NextSubProperties DEF ReadIsCurrent, CountIsConsecutive, FailingIsDisabled
  <2>. QED BY <2>4, <2>5
<1>4. ASSUME NEW e \in EventIds, DispatchCancelled(e) PROVE DispatchInv'
  <2>1. left[e] # {}
    BY <1>4 DEF DispatchCancelled, DispatchTypeOK
  <2>2. Sub(e) \in Subs
    BY <2>1, SubProperties
  <2>3. DispatchTypeOK'
    BY <1>4, <2>2 DEF DispatchCancelled, GoesTo, DispatchTypeOK
  <2>4. /\ at'[e] = "cancelled" /\ excused' = excused \cup {Sub(e)}
        /\ \A f \in EventIds : f # e => /\ at'[f] = at[f] /\ left'[f] = left[f]
                                        /\ readCount'[f] = readCount[f] /\ Sub(f)' = Sub(f)
        /\ UNCHANGED <<count, enabled, streak, overlapped, tried, withheld, matched>>
    BY <1>4 DEF DispatchCancelled, GoesTo, DispatchTypeOK, Sub
  <2>5. TriedOrLeft'
    BY <2>4 DEF TriedOrLeft
  <2>6. ReadIsCurrent' /\ CountIsConsecutive' /\ FailingIsDisabled'
    BY <2>4 DEF ReadIsCurrent, CountIsConsecutive, FailingIsDisabled
  <2>. QED BY <2>3, <2>5, <2>6
<1>5. ASSUME NEW e \in EventIds, ResetCount(e) PROVE DispatchInv'
  <2>1. /\ at[e] = "reset" /\ NextSub(e) /\ Overlap(e)
        /\ count' = [count EXCEPT ![Sub(e)] = 0] /\ streak' = [streak EXCEPT ![Sub(e)] = 0]
        /\ UNCHANGED <<enabled, excused, tried, withheld, matched>>
    BY <1>5 DEF ResetCount
  <2>2. left[e] # {}
    BY <2>1 DEF DispatchTypeOK
  <2>3. PICK s0 \in Subs : s0 = Sub(e)
    BY <2>2, SubProperties
  <2>4. /\ overlapped' = IF Counting(s0) \ {e} # {} THEN overlapped \cup {s0} ELSE overlapped
        /\ count'[s0] = 0 /\ streak'[s0] = 0
        /\ \A s \in Subs : s # s0 => count'[s] = count[s] /\ streak'[s] = streak[s]
        /\ count' \in [Subs -> Nat] /\ streak' \in [Subs -> Nat]
    BY <2>1, <2>3 DEF Overlap, DispatchTypeOK
  <2>5. DispatchTypeOK' /\ TriedOrLeft'
    BY <2>1, <2>3, <2>4, NextSubProperties DEF DispatchTypeOK
  <2>6. ReadIsCurrent'
    BY <2>1, <2>3, <2>4, NextSubProperties DEF ReadIsCurrent, Counting, DispatchTypeOK
  <2>7. CountIsConsecutive'
    BY <2>4 DEF CountIsConsecutive
  <2>8. FailingIsDisabled'
    BY <1>0, <2>1, <2>3, <2>4, NextSubProperties DEF FailingIsDisabled
  <2>. QED BY <2>5, <2>6, <2>7, <2>8
<1>6. ASSUME NEW e \in EventIds, ReadCount(e) PROVE DispatchInv'
  <2>1. at[e] = "read" /\ left[e] # {}
    BY <1>6 DEF ReadCount, DispatchTypeOK
  <2>2. Sub(e) \in Subs
    BY <2>1, SubProperties
  <2>3. DispatchTypeOK'
    BY <1>6, <2>1, <2>2 DEF ReadCount, GoesTo, rowVars, DispatchTypeOK
  <2>4. /\ at'[e] = "write" /\ readCount'[e] = count[Sub(e)]
        /\ \A f \in EventIds : f # e => at'[f] = at[f] /\ readCount'[f] = readCount[f]
        /\ \A f \in EventIds : Sub(f)' = Sub(f)
        /\ UNCHANGED <<left, count, enabled, streak, overlapped, excused, tried, withheld, matched>>
    BY <1>6 DEF ReadCount, GoesTo, rowVars, DispatchTypeOK, Sub
  <2>5. TriedOrLeft'
    BY <2>1, <2>4 DEF TriedOrLeft
  <2>6. ReadIsCurrent' /\ CountIsConsecutive' /\ FailingIsDisabled'
    BY <2>1, <2>4 DEF ReadIsCurrent, CountIsConsecutive, FailingIsDisabled
  <2>. QED BY <2>3, <2>5, <2>6
<1>7. ASSUME NEW e \in EventIds, WriteCount(e) PROVE DispatchInv'
  <2>1. /\ at[e] = "write" /\ Overlap(e)
        /\ count' = [count EXCEPT ![Sub(e)] = readCount[e] + 1]
        /\ streak' = [streak EXCEPT ![Sub(e)] = @ + 1]
        /\ excused' = excused \ {Sub(e)}
        /\ UNCHANGED <<enabled, tried, withheld, matched>>
    BY <1>7 DEF WriteCount
  <2>2. left[e] # {}
    BY <2>1 DEF DispatchTypeOK
  <2>3. PICK s0 \in Subs : s0 = Sub(e)
    BY <2>2, SubProperties
  <2>4. /\ overlapped' = IF Counting(s0) \ {e} # {} THEN overlapped \cup {s0} ELSE overlapped
        /\ count'[s0] = readCount[e] + 1 /\ streak'[s0] = streak[s0] + 1
        /\ \A s \in Subs : s # s0 => count'[s] = count[s] /\ streak'[s] = streak[s]
        /\ count' \in [Subs -> Nat] /\ streak' \in [Subs -> Nat] /\ readCount[e] \in Nat
    BY <2>1, <2>3 DEF Overlap, DispatchTypeOK
  <2>5. CountIsConsecutive'
    BY <2>1, <2>3, <2>4 DEF CountIsConsecutive, ReadIsCurrent
  <2>6. CASE Disables(readCount[e] + 1)
    <3>1. GoesTo(e, "disable") /\ UNCHANGED <<left, success, readCount>>
      BY <1>7, <2>6 DEF WriteCount
    <3>2. /\ at'[e] = "disable" /\ \A f \in EventIds : f # e => at'[f] = at[f]
          /\ \A f \in EventIds : Sub(f)' = Sub(f)
      BY <3>1 DEF GoesTo, DispatchTypeOK, Sub
    <3>3. DispatchTypeOK'
      BY <2>1, <2>2, <2>3, <2>4, <3>1 DEF GoesTo, DispatchTypeOK
    <3>4. TriedOrLeft'
      BY <2>1, <3>1, <3>2 DEF TriedOrLeft
    <3>5. ReadIsCurrent'
      BY <2>1, <2>3, <2>4, <3>1, <3>2 DEF ReadIsCurrent, Counting
    <3>6. FailingIsDisabled'
      BY <2>1, <2>3, <2>4, <3>1, <3>2 DEF FailingIsDisabled
    <3>. QED BY <2>5, <3>3, <3>4, <3>5, <3>6
  <2>7. CASE ~Disables(readCount[e] + 1)
    <3>1. NextSub(e) /\ count'[s0] < MaxFailures
      BY <1>0, <1>7, <2>4, <2>7 DEF WriteCount, Disables
    <3>2. DispatchTypeOK' /\ TriedOrLeft'
      BY <2>1, <2>3, <2>4, <3>1, NextSubProperties DEF DispatchTypeOK
    <3>3. ReadIsCurrent'
      BY <2>1, <2>3, <2>4, <3>1, NextSubProperties DEF ReadIsCurrent, Counting
    <3>4. FailingIsDisabled'
      BY <1>0, <2>1, <2>3, <2>4, <3>1, NextSubProperties DEF FailingIsDisabled
    <3>. QED BY <2>5, <3>2, <3>3, <3>4
  <2>. QED BY <2>6, <2>7
<1>8. ASSUME NEW e \in EventIds, Disable(e) PROVE DispatchInv'
  <2>1. /\ at[e] = "disable" /\ NextSub(e) /\ enabled' = [enabled EXCEPT ![Sub(e)] = FALSE]
        /\ UNCHANGED <<count, streak, overlapped, excused, tried, withheld, matched>>
    BY <1>8 DEF Disable
  <2>2. left[e] # {}
    BY <2>1 DEF DispatchTypeOK
  <2>3. Sub(e) \in Subs
    BY <2>2, SubProperties
  <2>4. DispatchTypeOK' /\ TriedOrLeft'
    BY <2>1, <2>3, NextSubProperties DEF DispatchTypeOK
  <2>5. ReadIsCurrent' /\ CountIsConsecutive'
    BY <2>1, NextSubProperties DEF ReadIsCurrent, CountIsConsecutive
  <2>6. FailingIsDisabled'
    BY <2>1, <2>3, NextSubProperties DEF FailingIsDisabled, DispatchTypeOK
  <2>. QED BY <2>4, <2>5, <2>6
<1>9. ASSUME NEW s \in Subs, UserSwitches(s) PROVE DispatchInv'
  <2>1. /\ \A f \in EventIds : Sub(f)' = Sub(f)
        /\ UNCHANGED <<at, left, success, readCount, count, streak, overlapped, tried, withheld, matched>>
    BY <1>9 DEF UserSwitches, Sub
  <2>2. DispatchTypeOK'
    BY <1>9 DEF UserSwitches, DispatchTypeOK
  <2>3. TriedOrLeft' /\ ReadIsCurrent' /\ CountIsConsecutive'
    BY <2>1 DEF TriedOrLeft, ReadIsCurrent, CountIsConsecutive
  <2>4. FailingIsDisabled'
    BY <1>9, <2>1 DEF UserSwitches, FailingIsDisabled, DispatchTypeOK
  <2>. QED BY <2>2, <2>3, <2>4
<1>10. ASSUME NEW e \in EventIds, NotPosted(e) PROVE DispatchInv'
  <2>1. /\ at[e] = "post" /\ NextSub(e) /\ withheld' = [withheld EXCEPT ![e] = @ \cup {Sub(e)}]
        /\ UNCHANGED <<count, enabled, streak, overlapped, excused, tried, matched>>
    BY <1>10 DEF NotPosted, rowVars
  <2>2. left[e] # {}
    BY <2>1 DEF DispatchTypeOK
  <2>3. Sub(e) \in Subs
    BY <2>2, SubProperties
  <2>4. DispatchTypeOK' /\ TriedOrLeft'
    BY <2>1, <2>3, NextSubProperties DEF DispatchTypeOK
  <2>5. /\ at'[e] \in {"over", "post"}
        /\ \A f \in EventIds : f # e => /\ at'[f] = at[f] /\ readCount'[f] = readCount[f]
                                        /\ Sub(f)' = Sub(f)
    BY <2>1, NextSubProperties
  <2>6. ReadIsCurrent' /\ CountIsConsecutive' /\ FailingIsDisabled'
    BY <2>1, <2>5 DEF ReadIsCurrent, CountIsConsecutive, FailingIsDisabled
  <2>. QED BY <2>4, <2>6
<1>11. CASE UNCHANGED dispatchVars
  BY <1>11 DEF dispatchVars, rowVars, DispatchTypeOK, TriedOrLeft, ReadIsCurrent,
     CountIsConsecutive, FailingIsDisabled, Sub
<1>. QED BY <1>1, <1>2, <1>3, <1>4, <1>5, <1>6, <1>7, <1>8, <1>9, <1>10, <1>11 DEF DispatchNext

\* WebhookDispatcher: the failure count is the failures in a row but where two transactions
\* overlapped, a subscription at the limit is disabled, and a dispatch that ends has posted to all
\* it listed but those it left before the post for their own URL or payload.
THEOREM FailuresCounted == DispatchSpec => []FailuresAreCounted
<1>1. DispatchInv => FailuresAreCounted
  <2>. SUFFICES ASSUME DispatchInv PROVE EverySubTried
    BY DEF DispatchInv, FailuresAreCounted
  <2>. QED BY DEF DispatchInv, EverySubTried, TriedOrLeft
<1>. QED
  BY <1>1, DispatchInvInit, DispatchInvNext, PTL DEF DispatchSpec

-----------------------------------------------------------------------------
(* A bundle and its session *)

\* An item the run has done with.
Settled(p) ==
  \/ IsDuplicate(p) /\ itemRow[p] = "duplicate" /\ p \notin succeeded \cup failing
  \/ ~IsDuplicate(p) /\ itemRow[p] = "extracted" /\ p \in succeeded \ failing
  \/ ~IsDuplicate(p) /\ itemRow[p] = "failed" /\ p \in failing

Untouched(p) == p \notin succeeded \cup failing

LateSteps == {"total", "nothing", "synthesize", "failed", "finish", "over"}
CountedSteps == LateSteps \ {"total"}

BundleTypes ==
  /\ step \in {"create", "start", "add", "duplicate", "mark", "extract", "store", "emit", "count",
               "fail", "failcount", "raised"} \cup LateSteps
  /\ position \in Positions /\ succeeded \subseteq Positions /\ failing \subseteq Positions
  /\ itemRow \in [Positions -> {"none", "pending", "processing", "extracted", "failed", "duplicate"}]

\* The item at hand, by the step the run is at.
ItemAtHand ==
  /\ step \in {"create", "start", "add", "mark", "extract", "store"} => Untouched(position)
  /\ step \in {"mark", "extract", "store", "emit", "count", "fail"} => ~IsDuplicate(position)
  /\ step = "emit" => itemRow[position] = "extracted" /\ position \in succeeded \ failing
  /\ step = "fail" => position \in failing
  /\ step \in {"duplicate", "count", "failcount"} \cup LateSteps => Settled(position)

\* The items behind are settled, those ahead untouched.
ItemsInOrder ==
  /\ \A p \in Positions : p < position => Settled(p)
  /\ \A p \in Positions : p > position => Untouched(p)
  /\ step \in LateSteps => position = ItemCount

\* The session's row follows the run.
SessionFits ==
  /\ step \in CountedSteps => counts = Counters(ItemCount)
  /\ Ended <=> step = "over"
  /\ step = "finish" => output /\ extracted # {}
  /\ session \in {"completed", "partial"} => output /\ extracted # {}
  /\ session = "completed" => failing = {}
  /\ session = "partial" => failing # {}

BundleInv ==
  /\ BundleTypes /\ SessionFits
  /\ step # "raised" => ItemAtHand /\ ItemsInOrder

\* A run begins with nothing.
LEMMA BundleInvInit == BundleInit => BundleInv
  BY BundleAssumption DEF BundleInit, BundleInv, BundleTypes, SessionFits, ItemAtHand, ItemsInOrder,
     Positions, Untouched, LateSteps, CountedSteps, Ended

\* Behind an item that is settled the run goes on to the next one, or to the total.
LEMMA NextItemStep == ASSUME BundleInv, PersistCounts PROVE BundleInv'
<1>1. ItemAtHand /\ ItemsInOrder /\ Settled(position)
  BY DEF PersistCounts, BundleInv, ItemAtHand
<1>2. \A p \in Positions : p <= position => Settled(p)
  BY <1>1 DEF ItemsInOrder, BundleInv, BundleTypes, Positions
<1>3. UNCHANGED <<succeeded, failing, extracted, itemRow, session, output>>
  BY DEF PersistCounts, resultVars
<1>4. \A p \in Positions : (Settled(p)' <=> Settled(p)) /\ (Untouched(p)' <=> Untouched(p))
  BY <1>3 DEF Settled, Untouched, IsDuplicate, First
<1>5. CASE position < ItemCount /\ position' = position + 1 /\ step' = "add"
  <2>1. position' \in Positions /\ \A p \in Positions : p < position' => p <= position
    BY <1>5, BundleAssumption DEF BundleInv, BundleTypes, Positions
  <2>2. \A p \in Positions : p >= position' => Untouched(p)
    BY <1>1, <1>5 DEF ItemsInOrder, BundleInv, BundleTypes, Positions
  <2>3. BundleTypes' /\ ItemAtHand' /\ ItemsInOrder'
    BY <1>2, <1>3, <1>4, <1>5, <2>1, <2>2
       DEF BundleInv, BundleTypes, ItemAtHand, ItemsInOrder, LateSteps, Positions
  <2>4. SessionFits'
    BY <1>3, <1>5 DEF PersistCounts, BundleInv, SessionFits, LateSteps, CountedSteps, Ended
  <2>. QED BY <2>3, <2>4, <1>5 DEF BundleInv
<1>6. CASE position >= ItemCount /\ position' = position /\ step' = "total"
  <2>1. position = ItemCount
    BY <1>6, BundleAssumption DEF BundleInv, BundleTypes, Positions
  <2>2. BundleTypes' /\ ItemAtHand' /\ ItemsInOrder'
    BY <1>1, <1>3, <1>4, <1>6, <2>1 DEF BundleInv, BundleTypes, ItemAtHand, ItemsInOrder, LateSteps
  <2>3. SessionFits'
    BY <1>3, <1>6 DEF PersistCounts, BundleInv, SessionFits, LateSteps, CountedSteps, Ended
  <2>. QED BY <2>2, <2>3, <1>6 DEF BundleInv
<1>7. position \in Int /\ ItemCount \in Int
  BY BundleAssumption DEF BundleInv, BundleTypes, Positions
<1>. QED BY <1>5, <1>6, <1>7 DEF PersistCounts, NextItem

\* The steps of an item touch only that item.
LEMMA ItemStep ==
  ASSUME BundleInv, step \notin LateSteps \cup {"raised"}, step' \notin LateSteps \cup {"raised"},
         BundleTypes', SessionFits', position' = position, ItemAtHand',
         \A p \in Positions \ {position} : /\ itemRow'[p] = itemRow[p]
                                           /\ p \in succeeded' <=> p \in succeeded
                                           /\ p \in failing' <=> p \in failing
  PROVE  BundleInv'
<1>1. \A p \in Positions \ {position} : (Settled(p)' <=> Settled(p)) /\ (Untouched(p)' <=> Untouched(p))
  BY DEF Settled, Untouched, IsDuplicate, First
<1>2. ItemsInOrder'
  BY <1>1 DEF BundleInv, BundleTypes, ItemsInOrder, Positions
<1>. QED BY <1>2 DEF BundleInv

\* The steps of the items.
LEMMA ItemSteps ==
  ASSUME BundleInv,
         CreateSession \/ StartSession \/ AddItem \/ MarkProcessing \/ ExtractItem \/ StoreDocument
         \/ EmitExtracted \/ ItemRaises \/ RecordItemFailure
  PROVE  BundleInv'
<1>1. ItemAtHand /\ position' = position /\ position \in Positions
      /\ step \notin LateSteps \cup {"raised"} /\ step' \notin LateSteps \cup {"raised"}
  BY DEF BundleInv, BundleTypes, CreateSession, StartSession, AddItem, MarkProcessing, ExtractItem,
         StoreDocument, EmitExtracted, ItemRaises, RecordItemFailure, LateSteps
<1>2. BundleTypes'
  BY <1>1 DEF BundleInv, BundleTypes, CreateSession, StartSession, AddItem, MarkProcessing, ExtractItem,
         StoreDocument, EmitExtracted, ItemRaises, RecordItemFailure, resultVars, sessionVars
<1>3. \A p \in Positions \ {position} : /\ itemRow'[p] = itemRow[p]
                                        /\ p \in succeeded' <=> p \in succeeded
                                        /\ p \in failing' <=> p \in failing
  BY <1>1 DEF BundleInv, BundleTypes, CreateSession, StartSession, AddItem, MarkProcessing, ExtractItem,
         StoreDocument, EmitExtracted, ItemRaises, RecordItemFailure, resultVars, sessionVars
<1>4. SessionFits'
  <2>1. ~Ended /\ ~Ended'
    BY DEF BundleInv, SessionFits, Ended, CreateSession, StartSession, AddItem, MarkProcessing,
           ExtractItem, StoreDocument, EmitExtracted, ItemRaises, RecordItemFailure, sessionVars
  <2>. QED BY <1>1, <2>1 DEF SessionFits, Ended, LateSteps, CountedSteps
<1>5. ItemAtHand'
  <2>1. IsDuplicate(position)' = IsDuplicate(position)
    BY <1>1 DEF IsDuplicate, First
  <2>. QED BY <1>1, <2>1 DEF BundleInv, BundleTypes, ItemAtHand, Settled, Untouched, LateSteps,
         CreateSession, StartSession, AddItem, MarkProcessing, ExtractItem, StoreDocument,
         EmitExtracted, ItemRaises, RecordItemFailure, resultVars, sessionVars
<1>. QED BY <1>1, <1>2, <1>3, <1>4, <1>5, ItemStep

\* The steps behind the last item leave the items alone.
LEMMA LateStep ==
  ASSUME BundleInv, step \in LateSteps, step' \in LateSteps, SessionFits', position' = position,
         UNCHANGED <<succeeded, failing, itemRow>>
  PROVE  BundleInv'
<1>1. \A p \in Positions : (Settled(p)' <=> Settled(p)) /\ (Untouched(p)' <=> Untouched(p))
  BY DEF Settled, Untouched, IsDuplicate, First
<1>2. ItemAtHand' /\ ItemsInOrder' /\ BundleTypes'
  BY <1>1 DEF BundleInv, BundleTypes, ItemAtHand, ItemsInOrder, LateSteps
<1>. QED BY <1>2 DEF BundleInv

\* The steps behind the last item.
LEMMA LateStepsKeep ==
  ASSUME BundleInv,
         TotalCounts \/ NothingExtracted \/ Synthesize \/ SynthesisFails \/ FailSession \/ FinishSession
  PROVE  BundleInv'
<1>1. /\ step \in LateSteps /\ step' \in LateSteps /\ position' = position
      /\ UNCHANGED <<succeeded, failing, extracted, itemRow>>
  BY DEF LateSteps, TotalCounts, NothingExtracted, Synthesize, SynthesisFails, FailSession, FinishSession,
         resultVars
<1>2. position = ItemCount
  BY <1>1 DEF BundleInv, ItemsInOrder, LateSteps
<1>3. Counters(ItemCount)' = Counters(ItemCount)
  BY <1>1 DEF Counters, IsDuplicate, First
<1>4. SessionFits'
  BY <1>1, <1>2, <1>3 DEF BundleInv, SessionFits, LateSteps, CountedSteps, Ended, OutputStatus,
         TotalCounts, NothingExtracted, Synthesize, SynthesisFails, FailSession, FinishSession
<1>. QED BY <1>1, <1>4, LateStep

\* Every step keeps the invariant.
LEMMA BundleInvNext == ASSUME BundleInv, [BundleNext]_bundleVars PROVE BundleInv'
<1>1. CASE UNCHANGED bundleVars
  BY <1>1 DEF bundleVars, resultVars, sessionVars, BundleInv, BundleTypes, SessionFits, ItemAtHand,
              ItemsInOrder, Settled, Untouched, IsDuplicate, First, Counters, Ended
<1>2. CASE RunRaises
  <2>1. SessionFits' /\ BundleTypes' /\ step' = "raised"
    BY <1>2 DEF RunRaises, resultVars, sessionVars, BundleInv, BundleTypes, SessionFits, Ended,
                LateSteps, CountedSteps
  <2>. QED BY <2>1 DEF BundleInv
<1>. QED BY <1>1, <1>2, NextItemStep, ItemSteps, LateStepsKeep DEF BundleNext, BundleAtRest

\* The first item of a source is one of the items, and no duplicate.
LEMMA FirstIsNone ==
  ASSUME NEW p \in Positions PROVE First(p) \in Positions /\ ~IsDuplicate(First(p))
<1> DEFINE R == {ss \in Nat \X Nat : ss[1] < ss[2]}
           Same == {q \in Positions : SourceOf[q] = SourceOf[p]}
<1>1. IsWellFoundedOn(R, Nat)
  BY NatLessThanWellFounded DEF OpToRel
<1>2. Same \subseteq Nat /\ p \in Same
  BY BundleAssumption DEF Positions
<1>3. PICK q \in Same : \A r \in Same : ~(<<r, q>> \in R)
  BY <1>1, <1>2, WFMin, Zenon
<1>4. /\ q \in Positions /\ SourceOf[q] = SourceOf[p] /\ \A r \in 1..q - 1 : SourceOf[r] # SourceOf[p]
  <2>1. q \in 1..ItemCount /\ ItemCount \in Nat /\ SourceOf[q] = SourceOf[p]
    BY BundleAssumption DEF Positions
  <2>2. ASSUME NEW r \in 1..q - 1 PROVE SourceOf[r] # SourceOf[p]
    <3>1. r \in 1..ItemCount /\ <<r, q>> \in R
      BY <2>1
    <3>. QED BY <3>1, <1>3 DEF Positions
  <2>. QED BY <2>1, <2>2 DEF Positions
<1> DEFINE IsFirst(s, q0) == SourceOf[s] = SourceOf[q0] /\ \A r \in 1..s - 1 : SourceOf[r] # SourceOf[q0]
<1>5. \E s \in Positions : IsFirst(s, p)
  BY <1>4
<1>6. First(p) \in Positions /\ IsFirst(First(p), p)
  BY <1>5 DEF First
<1>7. IsFirst(First(p), First(p))
  BY <1>6
<1>8. First(First(p)) \in Positions /\ IsFirst(First(First(p)), First(p))
  BY <1>6, <1>7 DEF First
<1>9. First(First(p)) = First(p)
  BY <1>6, <1>7, <1>8, BundleAssumption DEF Positions
<1>. QED BY <1>6, <1>9 DEF IsDuplicate

\* Disjoint sets add up.
LEMMA DisjointCard ==
  ASSUME NEW S, IsFiniteSet(S), NEW T, IsFiniteSet(T), S \cap T = {}
  PROVE  Cardinality(S \cup T) = Cardinality(S) + Cardinality(T)
<1>1. Cardinality(S \cup T) = Cardinality(S) + Cardinality(T) - Cardinality(S \cap T)
  BY FS_Union
<1>2. Cardinality(S \cap T) = 0 /\ Cardinality(S) \in Nat /\ Cardinality(T) \in Nat
  BY FS_EmptySet, FS_CardinalityType
<1>. QED BY <1>1, <1>2

\* A run that is over has an ended session whose counts and status are those of its rows.
THEOREM SessionTrue == BundleSpec => []SessionIsTrue
<1>1. ASSUME BundleInv, step = "over" PROVE \A p \in Positions : Settled(p)
  BY <1>1 DEF BundleInv, BundleTypes, ItemAtHand, ItemsInOrder, LateSteps, Positions
<1>2. BundleInv => CountsMatchRows
  <2>1. SUFFICES ASSUME BundleInv, Ended PROVE CountsMatchRows
    BY DEF CountsMatchRows
  <2>2. step = "over" /\ counts = Counters(ItemCount)
    BY <2>1 DEF BundleInv, SessionFits, LateSteps, CountedSteps
  <2>3. \A p \in Positions : Settled(p)
    BY <1>1, <2>1, <2>2
  <2>4. failing = Rows("failed") /\ {q \in 1..ItemCount : IsDuplicate(q)} = Rows("duplicate")
        /\ succeeded = Rows("extracted") \cup (succeeded \cap failing)
        /\ Rows("extracted") \cap (succeeded \cap failing) = {}
    BY <2>1, <2>3 DEF BundleInv, BundleTypes, Rows, Settled, Positions
  <2>5. Cardinality(succeeded) = Cardinality(Rows("extracted")) + Cardinality(succeeded \cap failing)
    <3>1. IsFiniteSet(Rows("extracted")) /\ IsFiniteSet(succeeded \cap failing)
      <4>1. IsFiniteSet(Positions)
        BY BundleAssumption, FS_Interval DEF Positions
      <4>2. Rows("extracted") \subseteq Positions /\ succeeded \cap failing \subseteq Positions
        BY <2>1 DEF Rows, BundleInv, BundleTypes
      <4>. QED BY <4>1, <4>2, FS_Subset
    <3>2. Cardinality(Rows("extracted") \cup (succeeded \cap failing))
            = Cardinality(Rows("extracted")) + Cardinality(succeeded \cap failing)
      BY <3>1, <2>4, DisjointCard
    <3>. QED BY <3>2, <2>4
  <2>. QED BY <2>2, <2>4, <2>5 DEF CountsMatchRows, Counters
<1>3. BundleInv => StatusMatchesRows
  <2>1. SUFFICES ASSUME BundleInv PROVE StatusMatchesRows
    OBVIOUS
  <2>2. Ended => \A p \in Positions : Settled(p)
    BY <1>1, <2>1 DEF BundleInv, SessionFits
  <2>3. ASSUME session = "completed", NEW p \in Positions
        PROVE  itemRow[First(p)] = "extracted" /\ itemRow[p] \in {"extracted", "duplicate"}
    <3>1. failing = {} /\ Settled(p) /\ Settled(First(p)) /\ ~IsDuplicate(First(p))
      BY <2>1, <2>2, <2>3, FirstIsNone DEF BundleInv, SessionFits, Ended
    <3>. QED BY <3>1 DEF Settled
  <2>4. session = "partial" => Rows("failed") # {}
    BY <2>1, <2>2 DEF BundleInv, BundleTypes, SessionFits, Ended, Settled, Rows
  <2>. QED BY <2>1, <2>3, <2>4 DEF BundleInv, SessionFits, StatusMatchesRows
<1>4. BundleInv => SessionEnds
  BY <1>1 DEF BundleInv, SessionFits, SessionEnds, Settled, Rows
<1>. QED BY <1>2, <1>3, <1>4, BundleInvInit, BundleInvNext, PTL DEF BundleSpec, SessionIsTrue

-----------------------------------------------------------------------------
(* Repeated calls of apply_changes *)

RetryTypes ==
  /\ attempt \in [Attempts -> {"new", "read", "write", "answered", "failed"}]
  /\ onWorker \in [Attempts -> Workers \cup {NoWorker}] /\ change \in [Attempts -> Nat]
  /\ results \in [Attempts -> Seq(Statuses)]
  /\ newer \subseteq Changes /\ crossed \subseteq Changes
  /\ cache \in [Workers -> Seq(Statuses)]
  /\ applied \in [Changes -> Nat]
  /\ given \in [Workers -> SUBSET Seq(Statuses)] /\ known \in [Attempts -> SUBSET Seq(Statuses)]

\* An attempt at work is at one of the changes and has a worker; that worker had no answer.
AtWork ==
  \A a \in Attempts :
    /\ change[a] \in Changes
    /\ attempt[a] \in {"read", "write"} => onWorker[a] \in Workers /\ known[a] = {}
    /\ attempt[a] = "new" => known[a] = {}

\* A worker has an answer under the key just when it has given one and not forgotten it.
CacheIsGiven ==
  \A w \in Workers : IF cache[w] = NoAnswer THEN given[w] = {} ELSE cache[w] \in given[w]

\* What is written makes its row newer than the client's, and has found nobody else
\* behind the check, or it counts as crossed.
WrittenIsNewer ==
  \A c \in Changes :
    applied[c] # 0 => c \in newer /\ (c \in crossed \/ Between(c) = {})

RetryInv ==
  RetryTypes /\ AtWork /\ CacheIsGiven /\ WrittenIsNewer /\ AppliedOnce /\ RetryRepeatsAnswer

\* Before the first call nothing is written, given or remembered.
LEMMA RetryInvInit == RetryInit => RetryInv
  BY RetryAssumption DEF RetryInit, RetryInv, RetryTypes, AtWork, CacheIsGiven, WrittenIsNewer,
     AppliedOnce, RetryRepeatsAnswer, Changes, NoWorker, NoAnswer

\* A change is written by at most one of the attempts that have passed its check.
LEMMA WriteOnce ==
  ASSUME RetryTypes, AtWork, WrittenIsNewer, AppliedOnce, NEW a \in Attempts,
         attempt[a] = "write", attempt' = [attempt EXCEPT ![a] = attempt'[a]],
         attempt'[a] # "write",
         \A b \in Attempts : b # a => change'[b] = change[b],
         applied' = [applied EXCEPT ![change[a]] = @ + 1],
         newer' = newer \cup {change[a]},
         crossed' = IF Between(change[a]) = {a} THEN crossed ELSE crossed \cup {change[a]}
  PROVE  WrittenIsNewer' /\ AppliedOnce' /\ applied' \in [Changes -> Nat]
<1>1. PICK c0 \in Changes : c0 = change[a]
  BY DEF AtWork
<1>2. applied' \in [Changes -> Nat]
  BY <1>1 DEF RetryTypes
<1>3. ASSUME NEW c \in Changes, c # c0
      PROVE  applied'[c] = applied[c] /\ (c \in newer => c \in newer') /\ (c \in crossed => c \in crossed')
             /\ (Between(c) = {} => Between(c)' = {})
  BY <1>1, <1>3 DEF RetryTypes, Between
<1>4. a \in Between(c0)
  BY <1>1 DEF Between
<1>5. c0 \notin crossed' => applied[c0] = 0 /\ Between(c0) = {a}
  BY <1>1, <1>4 DEF WrittenIsNewer, RetryTypes
<1>6. Between(c0) = {a} => Between(c0)' = {}
  <2>1. ASSUME NEW b \in Attempts, b \in Between(c0)' PROVE b \in Between(c0) /\ b # a
    <3>1. attempt'[b] = "write" /\ change'[b] = c0
      BY <2>1 DEF Between
    <3>2. b # a
      BY <3>1
    <3>3. attempt'[b] = attempt[b] /\ change'[b] = change[b]
      BY <3>2 DEF RetryTypes
    <3>. QED BY <3>1, <3>2, <3>3 DEF Between
  <2>. QED BY <2>1 DEF Between
<1>7. applied'[c0] = applied[c0] + 1
  BY <1>1 DEF RetryTypes
<1>8. WrittenIsNewer'
  <2>1. ASSUME NEW c \in Changes, applied'[c] # 0
        PROVE  c \in newer' /\ (c \in crossed' \/ Between(c)' = {})
    <3>1. CASE c = c0
      BY <1>1, <1>5, <1>6, <3>1
    <3>2. CASE c # c0
      BY <1>3, <2>1, <3>2 DEF WrittenIsNewer
    <3>. QED BY <3>1, <3>2
  <2>. QED BY <2>1 DEF WrittenIsNewer
<1>9. AppliedOnce'
  <2>1. ASSUME NEW c \in Changes, c \notin crossed' PROVE applied'[c] <= 1
    <3>1. CASE c = c0
      BY <1>5, <1>7, <2>1, <3>1
    <3>2. CASE c # c0
      BY <1>3, <2>1, <3>2 DEF AppliedOnce
    <3>. QED BY <3>1, <3>2
  <2>. QED BY <2>1 DEF AppliedOnce
<1>. QED BY <1>2, <1>8, <1>9

\* A result of an attempt at work keeps what is known of answers.
LEMMA ResultProperties ==
  ASSUME RetryInv, NEW a \in Attempts, NEW answer \in Statuses, Result(a, answer),
         attempt[a] \in {"read", "write"}, UNCHANGED <<onWorker, known>>
  PROVE  /\ attempt' \in [Attempts -> {"new", "read", "write", "answered", "failed"}]
         /\ attempt' = [attempt EXCEPT ![a] = attempt'[a]] /\ attempt'[a] \in {"read", "answered"}
         /\ change' \in [Attempts -> Nat] /\ \A b \in Attempts : b # a => change'[b] = change[b]
         /\ results' \in [Attempts -> Seq(Statuses)]
         /\ cache' \in [Workers -> Seq(Statuses)]
         /\ given' \in [Workers -> SUBSET Seq(Statuses)]
         /\ AtWork' /\ CacheIsGiven' /\ RetryRepeatsAnswer'
<1> USE DEF RetryInv
<1>1. onWorker[a] \in Workers /\ known[a] = {} /\ change[a] \in Changes
  BY DEF AtWork
<1>2. /\ Append(results[a], answer) \in Seq(Statuses)
      /\ Append(results[a], answer) # <<>>
  <2>1. results[a] \in Seq(Statuses)
    BY DEF RetryTypes
  <2>2. \A s \in Seq(Statuses) : /\ Append(s, answer) \in Seq(Statuses)
                                /\ Append(s, answer)[Len(s) + 1] = answer
                                /\ Len(Append(s, answer)) = Len(s) + 1 /\ Len(s) \in Nat
    OBVIOUS
  <2>. QED BY <2>1, <2>2
<1>3. /\ results' \in [Attempts -> Seq(Statuses)]
      /\ results'[a] = Append(results[a], answer)
      /\ \A b \in Attempts : b # a => results'[b] = results[b]
  BY <1>2 DEF RetryTypes, Result
<1>4. CASE change[a] < ChangeCount
  <2>1. /\ change' = [change EXCEPT ![a] = @ + 1]
        /\ attempt' = [attempt EXCEPT ![a] = "read"]
        /\ UNCHANGED <<cache, given>>
    BY <1>4 DEF Result
  <2>2. change[a] + 1 \in Changes
    BY <1>1, <1>4, RetryAssumption DEF Changes
  <2>. QED BY <1>1, <1>3, <2>1, <2>2 DEF RetryTypes, AtWork, CacheIsGiven, RetryRepeatsAnswer, Changes
<1>5. CASE ~(change[a] < ChangeCount)
  <2>1. /\ attempt' = [attempt EXCEPT ![a] = "answered"]
        /\ cache' = [cache EXCEPT ![onWorker[a]] = results'[a]]
        /\ given' = [given EXCEPT ![onWorker[a]] = @ \cup {results'[a]}]
        /\ UNCHANGED change
    BY <1>5 DEF Result, Remembered
  <2>2. /\ cache' \in [Workers -> Seq(Statuses)]
        /\ given' \in [Workers -> SUBSET Seq(Statuses)]
    BY <1>1, <1>2, <1>3, <2>1, ZenonT(60) DEF RetryTypes
  <2>3. CacheIsGiven'
    BY <1>1, <1>2, <1>3, <2>1 DEF RetryTypes, CacheIsGiven, NoAnswer
  <2>4. /\ attempt' \in [Attempts -> {"new", "read", "write", "answered", "failed"}]
        /\ attempt' = [attempt EXCEPT ![a] = attempt'[a]]
        /\ attempt'[a] = "answered" /\ \A b \in Attempts : b # a => attempt'[b] = attempt[b]
        /\ change' = change /\ change \in [Attempts -> Nat]
    BY <2>1 DEF RetryTypes
  <2>5. AtWork'
    BY <1>1, <2>4 DEF AtWork
  <2>6. RetryRepeatsAnswer'
    BY <1>1, <1>3, <2>4 DEF RetryRepeatsAnswer
  <2>. QED BY <1>3, <2>2, <2>3, <2>4, <2>5, <2>6
<1>. QED BY <1>4, <1>5

\* Every step of a retry keeps the rows written once and the answer what it was.
LEMMA RetryInvNext == RetryInv /\ [RetryNext]_retryVars => RetryInv'
<1> SUFFICES ASSUME RetryInv, [RetryNext]_retryVars PROVE RetryInv'
  OBVIOUS
<1> USE DEF RetryInv
<1>1. ASSUME NEW a \in Attempts, NEW w \in Workers, BeginAttempt(a, w) PROVE RetryInv'
  <2>1. RetryTypes'
    BY <1>1, ZenonT(60) DEF BeginAttempt, RetryTypes
  <2>2. AtWork'
    BY <1>1 DEF BeginAttempt, RetryTypes, AtWork, CacheIsGiven
  <2>3. CacheIsGiven'
    BY <1>1 DEF BeginAttempt, CacheIsGiven
  <2>4. WrittenIsNewer' /\ AppliedOnce'
    BY <1>1 DEF BeginAttempt, RetryTypes, WrittenIsNewer, AppliedOnce, Between
  <2>5. RetryRepeatsAnswer'
    BY <1>1 DEF BeginAttempt, RetryTypes, CacheIsGiven, RetryRepeatsAnswer
  <2>. QED BY <2>1, <2>2, <2>3, <2>4, <2>5
<1>2. ASSUME NEW a \in Attempts, ReadRow(a) PROVE RetryInv'
  <2>1. CASE change[a] \in newer
    <3>1. Result(a, "conflict") /\ attempt[a] = "read"
          /\ UNCHANGED <<onWorker, newer, applied, crossed, known>>
      BY <1>2, <2>1 DEF ReadRow, Conflicts
    <3>2. /\ attempt' = [attempt EXCEPT ![a] = attempt'[a]] /\ attempt'[a] \in {"read", "answered"}
          /\ \A b \in Attempts : b # a => change'[b] = change[b]
          /\ RetryTypes' /\ AtWork' /\ CacheIsGiven' /\ RetryRepeatsAnswer'
      BY <3>1, ResultProperties DEF Statuses, RetryTypes
    <3>3. \A c \in Changes : Between(c)' \subseteq Between(c)
      BY <3>1, <3>2 DEF RetryTypes, Between
    <3>4. WrittenIsNewer' /\ AppliedOnce'
      BY <3>1, <3>3 DEF WrittenIsNewer, AppliedOnce
    <3>. QED BY <3>2, <3>4
  <2>2. CASE change[a] \notin newer
    <3>1. /\ attempt[a] = "read" /\ attempt' = [attempt EXCEPT ![a] = "write"]
          /\ UNCHANGED <<onWorker, change, results, newer, cache, applied, crossed, given, known>>
      BY <1>2, <2>2 DEF ReadRow, Conflicts
    <3>2. RetryTypes' /\ AtWork' /\ CacheIsGiven' /\ AppliedOnce' /\ RetryRepeatsAnswer'
      BY <3>1 DEF RetryTypes, AtWork, CacheIsGiven, AppliedOnce, RetryRepeatsAnswer
    <3>3. \A c \in Changes : c # change[a] => Between(c)' = Between(c)
      BY <3>1 DEF RetryTypes, Between
    <3>4. WrittenIsNewer'
      BY <2>2, <3>1, <3>3 DEF WrittenIsNewer
    <3>. QED BY <3>2, <3>4
  <2>. QED BY <2>1, <2>2
<1>3. ASSUME NEW a \in Attempts, WriteRow(a) PROVE RetryInv'
  <2>1. Result(a, "applied") /\ attempt[a] = "write" /\ UNCHANGED <<onWorker, known>>
    BY <1>3 DEF WriteRow
  <2>2. /\ attempt' \in [Attempts -> {"new", "read", "write", "answered", "failed"}]
        /\ attempt' = [attempt EXCEPT ![a] = attempt'[a]] /\ attempt'[a] \in {"read", "answered"}
        /\ change' \in [Attempts -> Nat] /\ \A b \in Attempts : b # a => change'[b] = change[b]
        /\ results' \in [Attempts -> Seq(Statuses)]
        /\ cache' \in [Workers -> Seq(Statuses)]
        /\ given' \in [Workers -> SUBSET Seq(Statuses)]
        /\ AtWork' /\ CacheIsGiven' /\ RetryRepeatsAnswer'
    BY <2>1, ResultProperties DEF Statuses
  <2>3. WrittenIsNewer' /\ AppliedOnce' /\ applied' \in [Changes -> Nat]
    BY <1>3, <2>1, <2>2, WriteOnce DEF WriteRow
  <2>4. change[a] \in Changes
    BY DEF AtWork
  <2>5. newer' \subseteq Changes /\ crossed' \subseteq Changes
    BY <1>3, <2>4 DEF WriteRow, RetryTypes
  <2>. QED BY <2>1, <2>2, <2>3, <2>5 DEF RetryTypes
<1>4. ASSUME NEW a \in Attempts, AttemptFails(a) PROVE RetryInv'
  <2>1. /\ attempt[a] \in {"read", "write"} /\ attempt' = [attempt EXCEPT ![a] = "failed"]
        /\ UNCHANGED <<onWorker, change, results, cache, given, known>>
    BY <1>4 DEF AttemptFails
  <2>2. attempt'[a] = "failed" /\ attempt' = [attempt EXCEPT ![a] = attempt'[a]]
    BY <2>1 DEF RetryTypes
  <2>3. AtWork' /\ CacheIsGiven' /\ RetryRepeatsAnswer'
    BY <2>1 DEF RetryTypes, AtWork, CacheIsGiven, RetryRepeatsAnswer
  <2>4. CASE UNCHANGED <<newer, applied, crossed>>
    <3>1. \A c \in Changes : Between(c)' \subseteq Between(c)
      BY <2>1 DEF RetryTypes, Between
    <3>2. RetryTypes' /\ WrittenIsNewer' /\ AppliedOnce'
      BY <2>1, <2>4, <3>1 DEF RetryTypes, WrittenIsNewer, AppliedOnce
    <3>. QED BY <2>3, <3>2
  <2>5. CASE /\ attempt[a] = "write"
             /\ newer' = newer \cup {change[a]}
             /\ applied' = [applied EXCEPT ![change[a]] = @ + 1]
             /\ crossed' = IF Between(change[a]) = {a} THEN crossed ELSE crossed \cup {change[a]}
    <3>1. WrittenIsNewer' /\ AppliedOnce' /\ applied' \in [Changes -> Nat]
      BY <2>1, <2>2, <2>5, WriteOnce
    <3>2. change[a] \in Changes
      BY DEF AtWork
    <3>3. newer' \subseteq Changes /\ crossed' \subseteq Changes
      BY <2>5, <3>2 DEF RetryTypes
    <3>. QED BY <2>1, <2>3, <3>1, <3>3 DEF RetryTypes
  <2>. QED BY <1>4, <2>4, <2>5 DEF AttemptFails
<1>5. ASSUME NEW c \in Changes, OtherClientWrites(c) PROVE RetryInv'
  BY <1>5 DEF OtherClientWrites, RetryTypes, AtWork, CacheIsGiven, WrittenIsNewer, Between,
     AppliedOnce, RetryRepeatsAnswer
<1>6. ASSUME NEW w \in Workers, Forgets(w) PROVE RetryInv'
  BY <1>6 DEF Forgets, RetryTypes, AtWork, CacheIsGiven, WrittenIsNewer, Between,
     AppliedOnce, RetryRepeatsAnswer, NoAnswer
<1>7. CASE RetryAtRest \/ UNCHANGED retryVars
  BY <1>7 DEF RetryAtRest, retryVars, RetryTypes, AtWork, CacheIsGiven, WrittenIsNewer, Between,
     AppliedOnce, RetryRepeatsAnswer
<1>. QED BY <1>1, <1>2, <1>3, <1>4, <1>5, <1>6, <1>7 DEF RetryNext

\* SyncService.apply_changes: however often, on whichever worker and after whatever failure
\* a client repeats its call, no change is written twice unless two attempts passed its check
\* together, and an answer that a worker still has is the answer.
THEOREM RetrySafe == RetrySpec => []RetryIsSafe
<1>1. RetryInv => RetryIsSafe
  BY DEF RetryInv, RetryIsSafe
<1>. QED
  BY <1>1, RetryInvInit, RetryInvNext, PTL DEF RetrySpec

-----------------------------------------------------------------------------
(* The sync of GitHub stars *)

StarsTypes ==
  /\ starred \subseteq Repos /\ recent \subseteq starred
  /\ row \in [Repos -> {"none", "starred", "unstarred"}]
  /\ analysis \in [Repos -> {"never", "current", "stale"}]
  /\ call \in [Repos -> {"no", "begun", "fresh", "outdated", "gone"}]
  /\ queued \in [Repos -> {"no", "due", "fresh", "outdated", "gone", "lost"}]
  /\ sync \in {"idle", "list", "stamp", "analyze"}
  /\ listing \subseteq Repos /\ seen \subseteq Repos \ listing
  /\ pendingBatch \subseteq Item

\* A batch has one item for each of its repositories, all of them seen and not queued yet; of a
\* row that is still there it says whether it was analysed, and what it will leave stale is due
\* or unlucky. It is empty but while the stars are listed.
BatchIsTrue ==
  /\ \A x, y \in pendingBatch : x.repo = y.repo => x = y
  /\ \A x \in pendingBatch :
       /\ x.repo \in seen /\ queued[x.repo] = "no"
       /\ x.of = "row" => /\ row[x.repo] # "none"
                          /\ x.analysis = "never" <=> analysis[x.repo] = "never"
       /\ x.of = "row" /\ x.drift /\ x.analysis = "stale" => x.needs \/ x.repo \in unlucky
  /\ sync # "list" => pendingBatch = {}

\* What a sync has seen has a row, or the user has deleted it, or the batch will make it.
SeenIsKept ==
  \A r \in seen : row[r] # "none" \/ r \in removed \/ (\E x \in pendingBatch : x.repo = r /\ x.of = "new")

\* What is queued has been seen by this sync.
QueueIsSeen ==
  /\ \A r \in Repos : queued[r] # "no" => r \in seen
  /\ sync = "idle" => seen = {}

StarsInv ==
  /\ StarsTypes /\ BatchIsTrue /\ SeenIsKept /\ QueueIsSeen
  /\ NoStarSkipped /\ BadgeIsTrue /\ StaleIsMarked

\* There are no stars and no rows before the first sync.
LEMMA StarsInvInit == StarsInit => StarsInv
  BY DEF StarsInit, StarsInv, StarsTypes, BatchIsTrue, SeenIsKept, QueueIsSeen, NoStarSkipped,
     BadgeIsTrue, StaleIsMarked

\* A sync that is cleared, with what it had to analyse marked unlucky, loses no mark.
LEMMA ClearedProperties ==
  ASSUME StarsInv, RunCleared, CutOff, UNCHANGED <<githubVars, recordVars, analysis, pending, call>>
  PROVE  StarsInv'
<1> USE DEF StarsInv
<1>1. /\ queued' = [r \in Repos |-> "no"] /\ pendingBatch' = {} /\ seen' = {} /\ listing' = {}
      /\ sync' = "idle"
      /\ UNCHANGED <<starred, recent, late, row, removed, byHand, analysis, pending, call>>
  BY DEF RunCleared, githubVars, recordVars
<1>2. \A r \in Repos : (InAnalysis(r) \/ r \in unlucky) => (InAnalysis(r)' \/ r \in unlucky')
  BY <1>1 DEF CutOff, InAnalysis, StarsTypes, ToLoad, Loaded
<1>3. StarsTypes' /\ BatchIsTrue' /\ SeenIsKept' /\ QueueIsSeen' /\ NoStarSkipped'
  BY <1>1 DEF StarsTypes, BatchIsTrue, SeenIsKept, QueueIsSeen, NoStarSkipped
<1>4. BadgeIsTrue' /\ StaleIsMarked'
  BY <1>1, <1>2 DEF BadgeIsTrue, StaleIsMarked
<1>. QED BY <1>3, <1>4

\* A star that is looked up is seen, with what its row says.
LEMMA TakeItemProperties ==
  ASSUME StarsInv, NEW r \in Repos, TakeItem(r)
  PROVE  StarsInv'
<1> USE DEF StarsInv
<1>1. PICK drift \in BOOLEAN, becomes \in Rewritten(analysis[r]) :
        pendingBatch' = pendingBatch \cup
          {[repo |-> r, of |-> IF row[r] = "none" THEN "new" ELSE "row", drift |-> drift,
            analysis |-> becomes, needs |-> becomes # "current" \/ r \in pending]}
  BY DEF TakeItem
<1>2. /\ sync = "list" /\ r \in listing
      /\ listing' = listing \ {r} /\ seen' = seen \cup {r}
      /\ UNCHANGED <<starred, recent, late, row, removed, byHand, analysis, pending, unlucky, call,
                     queued, sync>>
  BY DEF TakeItem, githubVars, repoVars, recordVars, markVars
<1>3. becomes \in {"never", "current", "stale"} /\ (becomes = "never" <=> analysis[r] = "never")
  BY DEF Rewritten, StarsTypes
<1>4. PICK needs \in BOOLEAN : needs <=> (becomes # "current" \/ r \in pending)
  OBVIOUS
<1>5. PICK item \in Item :
        item = [repo |-> r, of |-> IF row[r] = "none" THEN "new" ELSE "row", drift |-> drift,
                analysis |-> becomes, needs |-> needs]
  <2>1. PICK of \in {"new", "row"} : of = IF row[r] = "none" THEN "new" ELSE "row"
    OBVIOUS
  <2>2. [repo |-> r, of |-> of, drift |-> drift, analysis |-> becomes, needs |-> needs] \in Item
    BY <1>3 DEF Item
  <2>. QED BY <2>1, <2>2
<1>6. /\ item.repo = r /\ item.analysis = becomes /\ item.drift = drift
      /\ item.of = (IF row[r] = "none" THEN "new" ELSE "row")
      /\ becomes = "stale" => item.needs
  BY <1>4, <1>5
<1>7. pendingBatch' = pendingBatch \cup {item}
  BY <1>1, <1>4, <1>5
<1>8. StarsTypes'
  BY <1>2, <1>7 DEF StarsTypes
<1>9. \A x \in pendingBatch : x.repo # r
  BY <1>2 DEF BatchIsTrue, StarsTypes
<1>10. queued[r] = "no"
  BY <1>2 DEF QueueIsSeen, StarsTypes
<1>11. BatchIsTrue'
  <2>1. \A x, y \in pendingBatch' : x.repo = y.repo => x = y
    BY <1>6, <1>7, <1>9 DEF BatchIsTrue
  <2>2. ASSUME NEW x \in pendingBatch'
        PROVE  /\ x.repo \in seen' /\ queued'[x.repo] = "no"
               /\ x.of = "row" => /\ row'[x.repo] # "none"
                                  /\ x.analysis = "never" <=> analysis'[x.repo] = "never"
               /\ x.of = "row" /\ x.drift /\ x.analysis = "stale" => x.needs \/ x.repo \in unlucky'
    <3>1. CASE x = item
      BY <1>2, <1>3, <1>6, <1>10, <3>1
    <3>2. CASE x # item
      BY <1>2, <1>7, <3>2 DEF BatchIsTrue
    <3>. QED BY <3>1, <3>2
  <2>. QED BY <1>2, <2>1, <2>2 DEF BatchIsTrue
<1>12. SeenIsKept'
  <2>1. row'[r] # "none" \/ (\E x \in pendingBatch' : x.repo = r /\ x.of = "new")
    BY <1>2, <1>6, <1>7
  <2>2. ASSUME NEW q \in seen
        PROVE  row'[q] # "none" \/ q \in removed' \/ (\E x \in pendingBatch' : x.repo = q /\ x.of = "new")
    BY <1>2, <1>7 DEF SeenIsKept
  <2>. QED BY <1>2, <2>1, <2>2 DEF SeenIsKept
<1>13. QueueIsSeen' /\ NoStarSkipped'
  BY <1>2 DEF QueueIsSeen, NoStarSkipped
<1>14. BadgeIsTrue' /\ StaleIsMarked'
  BY <1>2 DEF BadgeIsTrue, StaleIsMarked, InAnalysis
<1>. QED BY <1>8, <1>11, <1>12, <1>13, <1>14

\* A batch that is written leaves a mark on whatever it finds new or stale.
LEMMA FlushBatchProperties ==
  ASSUME StarsInv, FlushBatch
  PROVE  StarsInv'
<1> USE DEF StarsInv
<1>1. /\ row' = [r \in Repos |-> IF r \in InBatch({x \in pendingBatch : x.of # "gone"})
                                 THEN "starred" ELSE row[r]]
      /\ removed' = removed \ InBatch({x \in pendingBatch : x.of = "new"})
      /\ analysis' = [r \in Repos |-> IF Writes(r)
                                      THEN (CHOOSE x \in pendingBatch : x.repo = r).analysis
                                      ELSE analysis[r]]
      /\ call' = [r \in Repos |-> IF Writes(r) THEN Overtaken(call[r]) ELSE call[r]]
      /\ pending' = pending \cup InBatch({x \in pendingBatch : x.of = "new"})
      /\ queued' = [r \in Repos |->
               IF \E x \in pendingBatch : x.repo = r /\ x.needs
               THEN IF \E x \in pendingBatch : x.repo = r /\ x.of = "gone" THEN "gone" ELSE "due"
               ELSE queued[r]]
      /\ sync = "list" /\ pendingBatch' = {}
      /\ UNCHANGED <<starred, recent, late, byHand, unlucky, sync, listing, seen>>
  BY DEF FlushBatch, StartsPending, githubVars
<1>2. ASSUME NEW x \in pendingBatch
      PROVE  /\ x.repo \in Repos /\ x.repo \in seen /\ x.drift \in BOOLEAN /\ x.needs \in BOOLEAN
             /\ x.of \in {"new", "row", "gone"} /\ x.analysis \in {"never", "current", "stale"}
             /\ \A y \in pendingBatch : y.repo = x.repo => y = x
             /\ (CHOOSE y \in pendingBatch : y.repo = x.repo) = x
             /\ x.of # "gone" => row'[x.repo] = "starred"
             /\ x.of = "new" => x.repo \in pending'
  <2>1. /\ x.repo \in Repos /\ x.drift \in BOOLEAN /\ x.needs \in BOOLEAN
        /\ x.of \in {"new", "row", "gone"} /\ x.analysis \in {"never", "current", "stale"}
    BY DEF StarsTypes, Item
  <2>2. x.repo \in seen /\ \A y \in pendingBatch : y.repo = x.repo => y = x
    BY DEF BatchIsTrue
  <2>3. (CHOOSE y \in pendingBatch : y.repo = x.repo) = x
    BY <2>2
  <2>4. /\ x.of # "gone" => x.repo \in InBatch({z \in pendingBatch : z.of # "gone"})
        /\ x.of = "new" => x.repo \in InBatch({z \in pendingBatch : z.of = "new"})
    BY DEF InBatch
  <2>. QED BY <1>1, <2>1, <2>2, <2>3, <2>4
<1>3. ASSUME NEW r \in Repos, Writes(r)
      PROVE  \E x \in pendingBatch : /\ x.repo = r /\ x.of = "row" /\ x.drift
                                     /\ analysis'[r] = x.analysis /\ call'[r] = Overtaken(call[r])
  <2>1. PICK x \in pendingBatch : x.repo = r /\ x.of = "row" /\ x.drift
    BY <1>3 DEF Writes
  <2>2. (CHOOSE y \in pendingBatch : y.repo = r) = x
    BY <1>2, <2>1
  <2>. QED BY <1>1, <1>3, <2>1, <2>2
<1>4. ASSUME NEW r \in Repos, ~Writes(r) PROVE analysis'[r] = analysis[r] /\ call'[r] = call[r]
  BY <1>1, <1>4
<1>5. \A r \in Repos : row[r] # "none" => row'[r] # "none"
  BY <1>1
<1>6. \A r \in Repos : /\ call'[r] \in {call[r], Overtaken(call[r])}
                       /\ analysis'[r] \in {"never", "current", "stale"}
  BY <1>2, <1>3, <1>4 DEF StarsTypes
<1>7. StarsTypes'
  <2>1. row' \in [Repos -> {"none", "starred", "unstarred"}]
    BY <1>1 DEF StarsTypes
  <2>2. analysis' \in [Repos -> {"never", "current", "stale"}]
    BY <1>1, <1>6
  <2>3. \A r \in Repos : call'[r] \in {"no", "begun", "fresh", "outdated", "gone"}
    BY <1>6 DEF StarsTypes, Overtaken
  <2>4. call' \in [Repos -> {"no", "begun", "fresh", "outdated", "gone"}]
    BY <1>1, <2>3
  <2>5. queued' \in [Repos -> {"no", "due", "fresh", "outdated", "gone", "lost"}]
    BY <1>1 DEF StarsTypes
  <2>. QED BY <1>1, <2>1, <2>2, <2>4, <2>5 DEF StarsTypes
<1>8. BatchIsTrue'
  BY <1>1 DEF BatchIsTrue
<1>9. SeenIsKept'
  <2>1. ASSUME NEW r \in seen PROVE row'[r] # "none" \/ r \in removed'
    <3>1. CASE \E x \in pendingBatch : x.repo = r /\ x.of = "new"
      BY <1>2, <3>1
    <3>2. CASE ~ \E x \in pendingBatch : x.repo = r /\ x.of = "new"
      <4>1. r \notin InBatch({x \in pendingBatch : x.of = "new"})
        BY <3>2 DEF InBatch
      <4>. QED BY <1>1, <1>5, <3>2, <4>1 DEF SeenIsKept, StarsTypes
    <3>. QED BY <3>1, <3>2
  <2>. QED BY <1>1, <2>1 DEF SeenIsKept
<1>10. QueueIsSeen'
  <2>1. ASSUME NEW r \in Repos, queued'[r] # "no" PROVE r \in seen
    <3>1. CASE \E x \in pendingBatch : x.repo = r
      BY <1>2, <3>1
    <3>2. CASE ~ \E x \in pendingBatch : x.repo = r
      BY <1>1, <2>1, <3>2 DEF QueueIsSeen
    <3>. QED BY <3>1, <3>2
  <2>. QED BY <1>1, <2>1 DEF QueueIsSeen
<1>11. NoStarSkipped'
  <2>1. ASSUME NEW r \in starred \ recent PROVE row'[r] # "none" \/ r \in late \cup removed'
    <3>1. r \in Repos /\ (row[r] # "none" \/ r \in late \cup removed)
      BY DEF NoStarSkipped, StarsTypes
    <3>2. CASE r \in InBatch({x \in pendingBatch : x.of = "new"})
      <4>1. PICK x \in pendingBatch : x.repo = r /\ x.of = "new"
        BY <3>2 DEF InBatch
      <4>. QED BY <1>2, <4>1
    <3>3. CASE r \notin InBatch({x \in pendingBatch : x.of = "new"})
      BY <1>1, <1>5, <3>1, <3>3
    <3>. QED BY <3>2, <3>3
  <2>. QED BY <1>1, <2>1 DEF NoStarSkipped
<1>12. ASSUME NEW r \in Repos PROVE InAnalysis(r) => InAnalysis(r)'
  <2>1. CASE call[r] \in ToLoad \cup Loaded
    BY <1>6, <2>1 DEF InAnalysis, ToLoad, Loaded, Overtaken
  <2>2. CASE queued[r] \in ToLoad \cup Loaded
    <3>1. queued[r] # "no"
      BY <2>2 DEF ToLoad, Loaded
    <3>2. ~ \E x \in pendingBatch : x.repo = r
      BY <3>1 DEF BatchIsTrue
    <3>3. queued'[r] = queued[r]
      BY <1>1, <3>2
    <3>. QED BY <2>2, <3>3 DEF InAnalysis
  <2>3. CASE call[r] \notin ToLoad \cup Loaded /\ queued[r] \notin ToLoad \cup Loaded
    BY <2>3 DEF InAnalysis
  <2>. QED BY <2>1, <2>2, <2>3
<1>13. BadgeIsTrue'
  <2>1. ASSUME NEW r \in Repos, row'[r] # "none", analysis'[r] = "never", r \notin pending'
        PROVE  r \in byHand' /\ (InAnalysis(r)' \/ r \in unlucky')
    <3>1. ~ \E x \in pendingBatch : x.repo = r /\ x.of = "new"
      BY <1>2, <2>1
    <3>2. row[r] # "none"
      <4>1. ASSUME row[r] = "none" PROVE FALSE
        <5>1. r \in InBatch({x \in pendingBatch : x.of # "gone"})
          BY <1>1, <2>1, <4>1
        <5>2. PICK x \in pendingBatch : x.repo = r /\ x.of # "gone"
          BY <5>1 DEF InBatch
        <5>3. x.of = "row"
          BY <1>2, <3>1, <5>2
        <5>. QED BY <4>1, <5>2, <5>3 DEF BatchIsTrue
      <4>. QED BY <4>1
    <3>3. analysis[r] = "never"
      <4>1. CASE Writes(r)
        <5>1. PICK x \in pendingBatch : x.repo = r /\ x.of = "row" /\ analysis'[r] = x.analysis
          BY <1>3, <4>1
        <5>. QED BY <2>1, <5>1 DEF BatchIsTrue
      <4>2. CASE ~Writes(r)
        BY <1>4, <2>1, <4>2
      <4>. QED BY <4>1, <4>2
    <3>4. r \notin pending
      BY <1>1, <2>1
    <3>. QED BY <1>1, <1>12, <3>2, <3>3, <3>4 DEF BadgeIsTrue
  <2>. QED BY <2>1 DEF BadgeIsTrue
<1>14. StaleIsMarked'
  <2>1. ASSUME NEW r \in Repos, analysis'[r] = "stale"
        PROVE  r \in pending' \cup unlucky' \/ InAnalysis(r)'
    <3>1. CASE Writes(r)
      <4>1. PICK x \in pendingBatch : x.repo = r /\ x.of = "row" /\ x.drift /\ analysis'[r] = x.analysis
        BY <1>3, <3>1
      <4>2. x.needs \/ r \in unlucky
        BY <2>1, <4>1 DEF BatchIsTrue
      <4>3. CASE x.needs
        <5>1. ~ \E y \in pendingBatch : y.repo = r /\ y.of = "gone"
          BY <1>2, <4>1
        <5>2. queued'[r] = "due"
          BY <1>1, <4>1, <4>3, <5>1
        <5>. QED BY <5>2 DEF InAnalysis, ToLoad
      <4>4. CASE r \in unlucky
        BY <1>1, <4>4
      <4>. QED BY <4>2, <4>3, <4>4
    <3>2. CASE ~Writes(r)
      BY <1>1, <1>4, <1>12, <2>1, <3>2 DEF StaleIsMarked
    <3>. QED BY <3>1, <3>2
  <2>. QED BY <2>1 DEF StaleIsMarked
<1>. QED BY <1>7, <1>8, <1>9, <1>10, <1>11, <1>13, <1>14

\* A result that is written leaves no row unanalysed, and only what it is not of unlucky.
LEMMA PersistsProperties ==
  ASSUME StarsInv, NEW r \in Repos, NEW reading, Persists(r, reading),
         UNCHANGED <<row, byHand>>,
         \A q \in Repos \ {r} : call'[q] = call[q] /\ queued'[q] = queued[q]
  PROVE  /\ BadgeIsTrue' /\ StaleIsMarked'
         /\ analysis'[r] \in {"current", "stale"} /\ (Writes(r) => r \in unlucky')
         /\ \A q \in Repos \ {r} : analysis'[q] = analysis[q] /\ (q \in unlucky' <=> q \in unlucky)
         /\ analysis' \in [Repos -> {"never", "current", "stale"}]
<1> USE DEF StarsInv
<1>1. PICK a \in {"current", "stale"} :
        /\ reading = "fresh" => a = "current"
        /\ analysis' = [analysis EXCEPT ![r] = a]
  BY DEF Persists
<1>2. /\ pending' = pending \ {r}
      /\ unlucky' = IF reading = "fresh" /\ ~Writes(r) THEN unlucky \ {r} ELSE unlucky \cup {r}
  BY DEF Persists
<1>3. /\ analysis'[r] = a /\ analysis' \in [Repos -> {"never", "current", "stale"}]
      /\ \A q \in Repos \ {r} : analysis'[q] = analysis[q]
  BY <1>1 DEF StarsTypes
<1>4. /\ \A q \in Repos \ {r} : (q \in unlucky' <=> q \in unlucky) /\ (q \in pending' <=> q \in pending)
      /\ Writes(r) => r \in unlucky'
      /\ a = "stale" => r \in unlucky'
  BY <1>1, <1>2
<1>5. \A q \in Repos \ {r} : InAnalysis(q)' <=> InAnalysis(q)
  BY DEF InAnalysis
<1>6. BadgeIsTrue'
  BY <1>3, <1>4, <1>5 DEF BadgeIsTrue
<1>7. StaleIsMarked'
  <2>1. ASSUME NEW q \in Repos, analysis'[q] = "stale"
        PROVE  q \in pending' \cup unlucky' \/ InAnalysis(q)'
    <3>1. CASE q = r
      BY <1>3, <1>4, <2>1, <3>1
    <3>2. CASE q # r
      BY <1>3, <1>4, <1>5, <2>1, <3>2 DEF StaleIsMarked
    <3>. QED BY <3>1, <3>2
  <2>. QED BY <2>1 DEF StaleIsMarked
<1>. QED BY <1>3, <1>4, <1>6, <1>7

\* The calls by hand keep the stars and the marks.
LEMMA ByHandProperties ==
  ASSUME StarsInv, ByHandNext PROVE StarsInv'
<1> USE DEF StarsInv
<1>0. PICK r \in Ingested : \/ Ingest(r) \/ Reanalyze(r) \/ DeleteRow(r)
                            \/ CallLoads(r) \/ CallPersists(r) \/ CallFails(r)
  BY DEF ByHandNext
<1>. r \in Repos
  BY StarsAssumption
<1>1. CASE Ingest(r)
  <2>1. /\ call[r] = "no" /\ call' = [call EXCEPT ![r] = "begun"]
        /\ UNCHANGED <<starred, recent, late, pending, unlucky, sync, listing, seen, pendingBatch>>
    BY <1>1 DEF Ingest, githubVars, markVars
  <2>2. InAnalysis(r)' /\ \A q \in Repos \ {r} : call'[q] = call[q]
    BY <2>1 DEF InAnalysis, ToLoad, StarsTypes
  <2>3. CASE row[r] = "none"
    <3>1. /\ row' = [row EXCEPT ![r] = "unstarred"]
          /\ byHand' = byHand \cup {r} /\ removed' = removed \ {r}
          /\ UNCHANGED <<analysis, queued>>
      BY <1>1, <2>3 DEF Ingest
    <3>2. \A q \in Repos : row[q] # "none" => row'[q] # "none"
      BY <3>1 DEF StarsTypes
    <3>3. StarsTypes' /\ QueueIsSeen'
      BY <2>1, <3>1 DEF StarsTypes, QueueIsSeen
    <3>4. BatchIsTrue'
      BY <2>1, <3>1, <3>2 DEF BatchIsTrue, StarsTypes, Item
    <3>5. SeenIsKept' /\ NoStarSkipped'
      BY <2>1, <3>1 DEF SeenIsKept, NoStarSkipped, StarsTypes
    <3>6. \A q \in Repos \ {r} : (InAnalysis(q)' <=> InAnalysis(q)) /\ row'[q] = row[q]
      BY <2>2, <3>1 DEF InAnalysis, StarsTypes
    <3>7. BadgeIsTrue' /\ StaleIsMarked'
      BY <2>1, <2>2, <3>1, <3>6 DEF BadgeIsTrue, StaleIsMarked
    <3>. QED BY <3>3, <3>4, <3>5, <3>7
  <2>4. CASE row[r] # "none"
    <3>1. PICK a \in Rewritten(analysis[r]) : analysis' = [analysis EXCEPT ![r] = a]
      BY <1>1, <2>4 DEF Ingest
    <3>2. /\ queued' = [queued EXCEPT ![r] = Overtaken(queued[r])]
          /\ UNCHANGED <<row, removed, byHand>>
      BY <1>1, <2>4 DEF Ingest, recordVars
    <3>3. a \in {"never", "current", "stale"} /\ (a = "never" <=> analysis[r] = "never")
      BY <3>1 DEF Rewritten, StarsTypes
    <3>4. \A q \in Repos : /\ analysis'[q] = IF q = r THEN a ELSE analysis[q]
                           /\ queued'[q] = "no" <=> queued[q] = "no"
                           /\ q # r => queued'[q] = queued[q]
      BY <3>1, <3>2 DEF StarsTypes, Overtaken
    <3>5. StarsTypes'
      BY <2>1, <3>1, <3>2, <3>3 DEF StarsTypes, Overtaken
    <3>6. BatchIsTrue'
      <4>1. ASSUME NEW x \in pendingBatch
            PROVE  /\ queued'[x.repo] = "no"
                   /\ analysis'[x.repo] = "never" <=> analysis[x.repo] = "never"
        BY <3>3, <3>4 DEF BatchIsTrue, StarsTypes, Item
      <4>. QED BY <2>1, <3>2, <4>1 DEF BatchIsTrue
    <3>7. SeenIsKept' /\ QueueIsSeen' /\ NoStarSkipped'
      BY <2>1, <3>2, <3>4 DEF SeenIsKept, QueueIsSeen, NoStarSkipped
    <3>8. \A q \in Repos \ {r} : InAnalysis(q)' <=> InAnalysis(q)
      BY <2>2, <3>4 DEF InAnalysis
    <3>9. BadgeIsTrue' /\ StaleIsMarked'
      BY <2>1, <2>2, <3>2, <3>3, <3>4, <3>8 DEF BadgeIsTrue, StaleIsMarked
    <3>. QED BY <3>5, <3>6, <3>7, <3>9
  <2>. QED BY <2>3, <2>4
<1>2. ASSUME Reanalyze(r) \/ CallLoads(r) \/ CallFails(r) PROVE StarsInv'
  <2>1. /\ \E c \in {"no", "fresh"} : call' = [call EXCEPT ![r] = c]
        /\ unlucky' \in {unlucky, unlucky \cup {r}}
        /\ UNCHANGED <<starred, recent, late, row, removed, byHand, analysis, pending, sync, listing,
                       seen, pendingBatch, queued>>
    BY <1>2 DEF Reanalyze, CallLoads, CallFails, githubVars, recordVars, markVars, runVars
  <2>2. \A q \in Repos \ {r} : call'[q] = call[q]
    BY <2>1 DEF StarsTypes
  <2>3. StarsTypes' /\ BatchIsTrue' /\ SeenIsKept' /\ QueueIsSeen' /\ NoStarSkipped'
    BY <2>1 DEF StarsTypes, BatchIsTrue, SeenIsKept, QueueIsSeen, NoStarSkipped
  <2>4. InAnalysis(r) /\ analysis[r] # "current" => InAnalysis(r)' \/ r \in unlucky'
    BY <1>2, <2>1 DEF Reanalyze, CallLoads, CallFails, InAnalysis, ToLoad, Loaded, StarsTypes
  <2>5. \A q \in Repos \ {r} : InAnalysis(q)' <=> InAnalysis(q)
    BY <2>1, <2>2 DEF InAnalysis
  <2>6. BadgeIsTrue' /\ StaleIsMarked'
    BY <2>1, <2>4, <2>5 DEF BadgeIsTrue, StaleIsMarked
  <2>. QED BY <2>3, <2>6
<1>3. CASE CallPersists(r)
  <2>1. /\ Persists(r, call[r]) /\ call' = [call EXCEPT ![r] = "no"]
        /\ UNCHANGED <<starred, recent, late, row, removed, byHand, sync, listing, seen, queued>>
    BY <1>3 DEF CallPersists, githubVars, recordVars
  <2>2. \A q \in Repos \ {r} : call'[q] = call[q] /\ queued'[q] = queued[q]
    BY <2>1 DEF StarsTypes
  <2>3. PICK a \in {"current", "stale"} : pendingBatch' = {Reanalyzed(x, r, a) : x \in pendingBatch}
    BY <1>3 DEF CallPersists
  <2>4. /\ BadgeIsTrue' /\ StaleIsMarked'
        /\ analysis'[r] \in {"current", "stale"} /\ (Writes(r) => r \in unlucky')
        /\ \A q \in Repos \ {r} : analysis'[q] = analysis[q] /\ (q \in unlucky' <=> q \in unlucky)
        /\ analysis' \in [Repos -> {"never", "current", "stale"}]
    BY <2>1, <2>2, PersistsProperties
  <2>5. ASSUME NEW x \in pendingBatch
        PROVE  LET y == Reanalyzed(x, r, a) IN
               /\ y \in Item /\ y.repo = x.repo /\ y.of = x.of /\ y.drift = x.drift /\ y.needs = x.needs
               /\ IF x.repo = r /\ x.of = "row" THEN y.analysis = a ELSE y = x
    <3>1. x \in Item
      BY DEF StarsTypes
    <3>2. CASE x.repo = r /\ x.of = "row"
      <4>1. [x EXCEPT !.analysis = a] \in Item
        BY <3>1 DEF Item
      <4>. QED BY <3>1, <3>2, <4>1 DEF Reanalyzed, Item
    <3>3. CASE ~(x.repo = r /\ x.of = "row")
      <4>1. Reanalyzed(x, r, a) = x
        BY <3>3 DEF Reanalyzed
      <4>. QED BY <3>1, <3>3, <4>1
    <3>. QED BY <3>2, <3>3
  <2>6. StarsTypes'
    <3>1. pendingBatch' \subseteq Item
      BY <2>3, <2>5
    <3>2. call' \in [Repos -> {"no", "begun", "fresh", "outdated", "gone"}]
      BY <2>1 DEF StarsTypes
    <3>. QED BY <2>1, <2>4, <3>1, <3>2 DEF StarsTypes
  <2>7. BatchIsTrue'
    <3>1. ASSUME NEW x \in pendingBatch, NEW y \in pendingBatch,
                 Reanalyzed(x, r, a).repo = Reanalyzed(y, r, a).repo
          PROVE  x = y
      BY <2>5, <3>1 DEF BatchIsTrue
    <3>2. ASSUME NEW x \in pendingBatch
          PROVE  LET y == Reanalyzed(x, r, a) IN
                 /\ y.repo \in seen' /\ queued'[y.repo] = "no"
                 /\ y.of = "row" => /\ row'[y.repo] # "none"
                                    /\ y.analysis = "never" <=> analysis'[y.repo] = "never"
                 /\ y.of = "row" /\ y.drift /\ y.analysis = "stale" => y.needs \/ y.repo \in unlucky'
      <4>1. x.repo \in Repos
        BY DEF StarsTypes, Item
      <4>2. CASE x.repo = r /\ x.of = "row"
        <5>1. x.drift => r \in unlucky'
          BY <2>4, <4>2 DEF Writes
        <5>. QED BY <2>1, <2>4, <2>5, <4>2, <5>1 DEF BatchIsTrue
      <4>3. CASE x.repo = r /\ x.of # "row"
        BY <2>1, <2>5, <4>3 DEF BatchIsTrue
      <4>4. CASE x.repo # r
        BY <2>1, <2>4, <2>5, <4>1, <4>4 DEF BatchIsTrue
      <4>. QED BY <4>2, <4>3, <4>4
    <3>3. sync' # "list" => pendingBatch' = {}
      BY <2>1, <2>3 DEF BatchIsTrue
    <3>. QED BY <2>3, <3>1, <3>2, <3>3 DEF BatchIsTrue
  <2>8. SeenIsKept'
    BY <2>1, <2>3, <2>5 DEF SeenIsKept
  <2>9. QueueIsSeen' /\ NoStarSkipped'
    BY <2>1 DEF QueueIsSeen, NoStarSkipped
  <2>. QED BY <2>4, <2>6, <2>7, <2>8, <2>9
<1>4. CASE DeleteRow(r)
  <2>1. /\ row' = [row EXCEPT ![r] = "none"] /\ analysis' = [analysis EXCEPT ![r] = "never"]
        /\ pending' = pending \ {r} /\ unlucky' = unlucky \ {r}
        /\ removed' = removed \cup {r} /\ byHand' = byHand \ {r}
        /\ call' = [call EXCEPT ![r] = IF call[r] = "no" THEN "no" ELSE "gone"]
        /\ queued' = [queued EXCEPT ![r] = IF queued[r] = "due" THEN "gone"
                                           ELSE IF queued[r] \in Loaded THEN "lost" ELSE queued[r]]
        /\ pendingBatch' = {Orphaned(x, r) : x \in pendingBatch}
        /\ UNCHANGED <<starred, recent, late, sync, listing, seen>>
    BY <1>4 DEF DeleteRow, githubVars
  <2>2. \A q \in Repos : /\ q # r => /\ row'[q] = row[q] /\ analysis'[q] = analysis[q]
                                     /\ call'[q] = call[q] /\ queued'[q] = queued[q]
                         /\ queued'[q] = "no" <=> queued[q] = "no"
    BY <2>1 DEF StarsTypes, Loaded
  <2>3. ASSUME NEW x \in pendingBatch
        PROVE  LET y == Orphaned(x, r) IN
               /\ y \in Item /\ y.repo = x.repo
               /\ IF x.repo = r /\ x.of = "row" THEN y.of = "gone" ELSE y = x
    <3>1. x.drift \in BOOLEAN /\ (row[r] = "unstarred") \in BOOLEAN /\ x \in Item
      BY DEF StarsTypes, Item
    <3>2. PICK d \in BOOLEAN : d <=> (x.drift \/ row[r] = "unstarred")
      OBVIOUS
    <3>3. (x.drift \/ row[r] = "unstarred") = d
      BY <3>2
    <3>4. Orphaned(x, r) = IF x.repo = r /\ x.of = "row"
                           THEN [x EXCEPT !.of = "gone", !.drift = d] ELSE x
      BY <3>3 DEF Orphaned
    <3>. QED BY <3>1, <3>4 DEF Item
  <2>4. StarsTypes'
    BY <2>1, <2>3 DEF StarsTypes, Loaded
  <2>5. BatchIsTrue'
    <3>1. ASSUME NEW x \in pendingBatch, NEW y \in pendingBatch,
                 Orphaned(x, r).repo = Orphaned(y, r).repo
          PROVE  x = y
      BY <2>3, <3>1 DEF BatchIsTrue
    <3>2. ASSUME NEW x \in pendingBatch
          PROVE  LET y == Orphaned(x, r) IN
                 /\ y.repo \in seen' /\ queued'[y.repo] = "no"
                 /\ y.of = "row" => /\ row'[y.repo] # "none"
                                    /\ y.analysis = "never" <=> analysis'[y.repo] = "never"
                 /\ y.of = "row" /\ y.drift /\ y.analysis = "stale" => y.needs \/ y.repo \in unlucky'
      <4>1. x.repo \in Repos
        BY DEF StarsTypes, Item
      <4>2. CASE x.repo = r
        BY <2>1, <2>2, <2>3, <4>1, <4>2 DEF BatchIsTrue
      <4>3. CASE x.repo # r
        BY <2>1, <2>2, <2>3, <4>1, <4>3 DEF BatchIsTrue
      <4>. QED BY <4>2, <4>3
    <3>3. sync' # "list" => pendingBatch' = {}
      BY <2>1 DEF BatchIsTrue
    <3>. QED BY <2>1, <3>1, <3>2, <3>3 DEF BatchIsTrue
  <2>6. SeenIsKept'
    <3>1. ASSUME NEW q \in seen
          PROVE  row'[q] # "none" \/ q \in removed' \/ (\E x \in pendingBatch' : x.repo = q /\ x.of = "new")
      <4>1. CASE q = r
        BY <2>1, <4>1
      <4>2. CASE q # r
        <5>1. q \in Repos /\ row'[q] = row[q]
          BY <2>2, <4>2 DEF StarsTypes
        <5>2. CASE \E x \in pendingBatch : x.repo = q /\ x.of = "new"
          BY <2>1, <2>3, <4>2, <5>2
        <5>3. CASE ~ \E x \in pendingBatch : x.repo = q /\ x.of = "new"
          BY <2>1, <5>1, <5>3 DEF SeenIsKept
        <5>. QED BY <5>2, <5>3
      <4>. QED BY <4>1, <4>2
    <3>. QED BY <2>1, <3>1 DEF SeenIsKept
  <2>7. QueueIsSeen'
    BY <2>1, <2>2 DEF QueueIsSeen
  <2>8. NoStarSkipped'
    <3>1. ASSUME NEW q \in starred \ recent PROVE row'[q] # "none" \/ q \in late \cup removed'
      BY <2>1, <2>2 DEF NoStarSkipped, StarsTypes
    <3>. QED BY <2>1, <3>1 DEF NoStarSkipped
  <2>9. \A q \in Repos \ {r} : InAnalysis(q)' <=> InAnalysis(q)
    BY <2>2 DEF InAnalysis
  <2>10. row'[r] = "none" /\ analysis'[r] = "never"
    BY <2>1 DEF StarsTypes
  <2>11. BadgeIsTrue' /\ StaleIsMarked'
    BY <2>1, <2>2, <2>9, <2>10 DEF BadgeIsTrue, StaleIsMarked
  <2>. QED BY <2>4, <2>5, <2>6, <2>7, <2>8, <2>11
<1>. QED BY <1>0, <1>1, <1>2, <1>3, <1>4

\* Every step of the user and of a sync keeps the stars and the marks.
LEMMA StarsInvNext == StarsInv /\ [StarsNext]_starsVars => StarsInv'
<1> SUFFICES ASSUME StarsInv, [StarsNext]_starsVars PROVE StarsInv'
  OBVIOUS
<1> USE DEF StarsInv
<1>0. ASSUME UNCHANGED <<row, removed, byHand, analysis, pending, unlucky, call, queued>>
      PROVE  BadgeIsTrue' /\ StaleIsMarked'
  BY <1>0 DEF BadgeIsTrue, StaleIsMarked, InAnalysis
<1>1. ASSUME NEW r \in Repos, Star(r) \/ Unstar(r) PROVE StarsInv'
  <2>1. UNCHANGED <<row, removed, byHand, analysis, pending, unlucky, call, queued, sync, listing, seen,
                    pendingBatch>>
    BY <1>1 DEF Star, Unstar, repoVars, recordVars, markVars, runVars
  <2>2. StarsTypes' /\ NoStarSkipped'
    BY <1>1, <2>1 DEF Star, Unstar, StarsTypes, NoStarSkipped
  <2>3. BatchIsTrue' /\ SeenIsKept' /\ QueueIsSeen'
    BY <2>1 DEF BatchIsTrue, SeenIsKept, QueueIsSeen
  <2>. QED BY <1>0, <2>1, <2>2, <2>3
<1>2. ASSUME NEW r \in Repos, Defer(r) \/ AnalysisLoads(r) \/ AnalysisFails(r) PROVE StarsInv'
  <2>1. /\ sync = "analyze" /\ queued[r] # "no"
        /\ \E a \in {"no", "fresh"} : queued' = [queued EXCEPT ![r] = a]
        /\ pending \subseteq pending' /\ unlucky \subseteq unlucky'
        /\ UNCHANGED <<starred, recent, late, row, removed, byHand, analysis, call, sync, listing, seen,
                       pendingBatch>>
    BY <1>2 DEF Defer, AnalysisLoads, AnalysisFails, Leaves, Loaded, githubVars, repoVars, recordVars,
       markVars
  <2>2. r \in seen /\ pendingBatch = {}
    BY <2>1 DEF QueueIsSeen, BatchIsTrue
  <2>3. StarsTypes' /\ SeenIsKept' /\ NoStarSkipped' /\ BatchIsTrue' /\ QueueIsSeen'
    BY <2>1, <2>2 DEF StarsTypes, BatchIsTrue, SeenIsKept, QueueIsSeen, NoStarSkipped
  <2>4. InAnalysis(r) /\ analysis[r] # "current" => InAnalysis(r)' \/ r \in unlucky' \cup pending'
    BY <1>2, <2>1 DEF Defer, AnalysisLoads, AnalysisFails, Leaves, InAnalysis, ToLoad, Loaded, StarsTypes
  <2>5. \A q \in Repos \ {r} : InAnalysis(q)' <=> InAnalysis(q)
    BY <2>1 DEF InAnalysis, StarsTypes
  <2>6. ASSUME NEW q \in Repos, InAnalysis(q), analysis[q] # "current"
        PROVE  InAnalysis(q)' \/ q \in unlucky' \cup pending'
    <3>1. CASE q = r
      BY <2>4, <2>6, <3>1
    <3>2. CASE q # r
      BY <2>5, <2>6, <3>2
    <3>. QED BY <3>1, <3>2
  <2>7. BadgeIsTrue'
    BY <2>1, <2>6 DEF BadgeIsTrue
  <2>8. StaleIsMarked'
    BY <2>1, <2>6 DEF StaleIsMarked
  <2>. QED BY <2>3, <2>7, <2>8
<1>3. ASSUME NEW r \in Repos, AnalysisPersists(r) PROVE StarsInv'
  <2>1. /\ sync = "analyze" /\ Persists(r, queued[r]) /\ queued' = [queued EXCEPT ![r] = "no"]
        /\ UNCHANGED <<starred, recent, late, row, removed, byHand, call, sync, listing, seen, pendingBatch>>
    BY <1>3 DEF AnalysisPersists, Leaves, githubVars, recordVars
  <2>2. \A q \in Repos \ {r} : call'[q] = call[q] /\ queued'[q] = queued[q]
    BY <2>1 DEF StarsTypes
  <2>3. /\ BadgeIsTrue' /\ StaleIsMarked'
        /\ analysis' \in [Repos -> {"never", "current", "stale"}]
    BY <2>1, <2>2, PersistsProperties
  <2>4. pendingBatch = {}
    BY <2>1 DEF BatchIsTrue
  <2>5. StarsTypes' /\ SeenIsKept' /\ NoStarSkipped' /\ BatchIsTrue' /\ QueueIsSeen'
    BY <2>1, <2>3, <2>4 DEF StarsTypes, BatchIsTrue, SeenIsKept, QueueIsSeen, NoStarSkipped
  <2>. QED BY <2>3, <2>5
<1>4. ASSUME Connect \/ Revoke PROVE StarsInv'
  <2>1. /\ UNCHANGED <<starred, late, row, removed, byHand, analysis, pending, unlucky, call, queued, sync,
                       listing, seen, pendingBatch>>
        /\ recent' \in {recent, starred}
    BY <1>4 DEF Connect, Revoke, githubVars, repoVars, recordVars, markVars, runVars
  <2>2. StarsTypes' /\ BatchIsTrue' /\ SeenIsKept' /\ QueueIsSeen' /\ NoStarSkipped'
    BY <2>1 DEF StarsTypes, BatchIsTrue, SeenIsKept, QueueIsSeen, NoStarSkipped
  <2>. QED BY <1>0, <2>1, <2>2
<1>5. ASSUME ListStarred PROVE StarsInv'
  <2>1. /\ sync = "idle" /\ sync' = "list" /\ listing' = recent
        /\ UNCHANGED <<starred, recent, late, row, removed, byHand, analysis, pending, unlucky, call,
                       queued, seen, pendingBatch>>
    BY <1>5 DEF ListStarred, githubVars, repoVars, recordVars, markVars
  <2>2. seen = {} /\ pendingBatch = {}
    BY <2>1 DEF QueueIsSeen, BatchIsTrue
  <2>3. StarsTypes' /\ BatchIsTrue' /\ SeenIsKept' /\ QueueIsSeen' /\ NoStarSkipped'
    BY <2>1, <2>2 DEF StarsTypes, BatchIsTrue, SeenIsKept, QueueIsSeen, NoStarSkipped
  <2>. QED BY <1>0, <2>1, <2>3
<1>6. ASSUME TakeStars PROVE StarsInv'
  <2>1. /\ row' = [r \in Repos |-> IF row[r] = "starred" /\ seen # {} /\ r \notin seen
                                   THEN "unstarred" ELSE row[r]]
        /\ sync' = "stamp" /\ pendingBatch = {}
        /\ UNCHANGED <<starred, recent, late, removed, byHand, analysis, pending, unlucky, call, queued,
                       listing, seen, pendingBatch>>
    BY <1>6 DEF TakeStars, githubVars, markVars
  <2>2. \A r \in Repos : row'[r] = "none" <=> row[r] = "none"
    BY <2>1
  <2>3. StarsTypes'
    BY <2>1 DEF StarsTypes
  <2>4. SeenIsKept' /\ NoStarSkipped'
    BY <2>1, <2>2 DEF StarsTypes, SeenIsKept, NoStarSkipped
  <2>5. BatchIsTrue' /\ QueueIsSeen'
    BY <2>1 DEF BatchIsTrue, QueueIsSeen
  <2>6. BadgeIsTrue' /\ StaleIsMarked'
    BY <2>1, <2>2 DEF BadgeIsTrue, StaleIsMarked, InAnalysis
  <2>. QED BY <2>3, <2>4, <2>5, <2>6
<1>7. ASSUME Stamp PROVE StarsInv'
  <2>1. /\ sync = "stamp" /\ sync' = "analyze"
        /\ UNCHANGED <<starred, row, removed, byHand, analysis, pending, unlucky, call, queued, listing,
                       seen, pendingBatch>>
        /\ UNCHANGED <<recent, late>> \/ (recent' = {} /\ late' = late \cup (recent \ seen))
    BY <1>7 DEF Stamp, Stamped, repoVars, recordVars, markVars
  <2>2. StarsTypes' /\ BatchIsTrue' /\ SeenIsKept' /\ QueueIsSeen' /\ NoStarSkipped'
    BY <2>1 DEF StarsTypes, BatchIsTrue, SeenIsKept, QueueIsSeen, NoStarSkipped
  <2>. QED BY <1>0, <2>1, <2>2
<1>8. ASSUME EndSync PROVE StarsInv'
  <2>1. /\ \A r \in Repos : queued[r] = "no"
        /\ RunCleared
        /\ UNCHANGED <<starred, recent, late, row, removed, byHand, analysis, pending, unlucky, call>>
    BY <1>8 DEF EndSync, githubVars, repoVars, recordVars, markVars
  <2>2. queued' = queued
    BY <2>1 DEF RunCleared, StarsTypes
  <2>3. StarsTypes' /\ BatchIsTrue' /\ SeenIsKept' /\ QueueIsSeen' /\ NoStarSkipped'
    BY <2>1 DEF RunCleared, StarsTypes, BatchIsTrue, SeenIsKept, QueueIsSeen, NoStarSkipped
  <2>. QED BY <1>0, <2>1, <2>2, <2>3
<1>9. ASSUME SyncFails \/ AuthFails PROVE StarsInv'
  BY <1>9, ClearedProperties DEF SyncFails, AuthFails
<1>10. CASE UNCHANGED starsVars
  <2>1. UNCHANGED <<starred, recent, late, row, removed, byHand, analysis, pending, unlucky, call, queued,
                    sync, listing, seen, pendingBatch>>
    BY <1>10 DEF starsVars, githubVars, repoVars, recordVars, markVars, runVars
  <2>2. StarsTypes' /\ BatchIsTrue' /\ SeenIsKept' /\ QueueIsSeen' /\ NoStarSkipped'
    BY <2>1 DEF StarsTypes, BatchIsTrue, SeenIsKept, QueueIsSeen, NoStarSkipped
  <2>. QED BY <1>0, <2>1, <2>2
<1>. QED
  BY <1>1, <1>2, <1>3, <1>4, <1>5, <1>6, <1>7, <1>8, <1>9, <1>10, TakeItemProperties,
     FlushBatchProperties, ByHandProperties DEF StarsNext, SyncNext

\* The daily sync of stars beside what the user does by hand: no star that a sync will not list
\* again is without its row but for one given behind its page and one whose row the user deleted;
\* what was never analysed is marked unless an ingestion made it; and what is stale is marked,
\* being analysed, or has an analysis that failed, was cut off or crossed a write.
THEOREM StarsKept == StarsSpec => []StarsAreKept
<1>1. StarsInv => StarsAreKept
  BY DEF StarsInv, StarsAreKept
<1>. QED
  BY <1>1, StarsInvInit, StarsInvNext, PTL DEF StarsSpec

-----------------------------------------------------------------------------
(* The rotation of refresh tokens *)

\* Rows exist for the tokens held, presented and issued, and for no token to be created.
RotationTypes ==
  /\ tokenRow \in [Tokens -> {"none", "live", "revoked"}]
  /\ held \in Tokens \cup {NoToken}
  /\ refresh \in [Refreshes -> {"new", "lookup", "decide", "retire", "create", "revoke",
                                "answer", "over", "rejected"}]
  /\ presented \in [Refreshes -> Tokens \cup {NoToken}]
  /\ issued \in [Refreshes -> Tokens \cup {NoToken}]
  /\ held # NoToken => tokenRow[held] # "none"
  /\ \A r \in Refreshes :
       /\ presented[r] # NoToken => tokenRow[presented[r]] # "none"
       /\ refresh[r] \in {"lookup", "decide", "retire", "create", "revoke"} => presented[r] # NoToken
       /\ refresh[r] \in {"new", "lookup", "decide", "retire", "create"} => tokenRow[r + 1] = "none"
       /\ refresh[r] = "answer" => issued[r] = r + 1 /\ tokenRow[r + 1] # "none"

\* The right to the login's one valid token: a live token that nobody is about to retire has
\* it, or a request that will retire its token or create the next one.
TokenHasRight(t) == tokenRow[t] = "live" /\ Rotating(t) = {}
RequestHasRight(r) == refresh[r] \in {"retire", "create"}

OneRight ==
  ~doubled =>
    /\ \A t, u \in Tokens : TokenHasRight(t) /\ TokenHasRight(u) => t = u
    /\ \A r, s \in Refreshes : RequestHasRight(r) /\ RequestHasRight(s) => r = s
    /\ \A t \in Tokens, r \in Refreshes : ~(TokenHasRight(t) /\ RequestHasRight(r))

\* An undisturbed client has one request at a time, whose token is live until it is retired
\* or the user ends it.
Steady ==
  ~disturbed =>
    /\ \A r, s \in UnderWay : r = s
    /\ \A r \in Refreshes :
         /\ refresh[r] \in {"lookup", "decide", "retire"} =>
              presented[r] = held /\ (tokenRow[held] = "live" \/ held \in endedTokens)
         /\ refresh[r] = "revoke" => presented[r] = held /\ held \in endedTokens
         /\ refresh[r] = "answer" => tokenRow[r + 1] = "live" \/ r + 1 \in endedTokens
    /\ UnderWay = {} /\ held # NoToken => tokenRow[held] = "live" \/ held \in endedTokens

RotationInv == RotationTypes /\ OneRight /\ Steady

\* The tokens are numbers, the successor of a request's among them, and none is NoToken.
LEMMA TokensAreNumbers ==
  /\ Tokens \subseteq Nat \ {0} /\ 1 \in Tokens
  /\ \A r \in Refreshes : r \in Nat /\ r + 1 \in Tokens /\ r + 1 # 1
  /\ \A r, s \in Refreshes : r + 1 = s + 1 => r = s
  BY RotationAssumption DEF Tokens

\* Behind the login its token has the right.
LEMMA RotationInvInit == RotationInit => RotationInv
<1> SUFFICES ASSUME RotationInit PROVE RotationInv
  OBVIOUS
<1>1. RotationTypes
  BY TokensAreNumbers DEF RotationInit, RotationTypes, NoToken
<1>2. OneRight /\ Steady
  BY TokensAreNumbers DEF RotationInit, OneRight, TokenHasRight, RequestHasRight, Rotating, Steady,
     UnderWay, NoToken
<1>. QED BY <1>1, <1>2 DEF RotationInv

\* Every step of the client and of its requests passes the right on.
LEMMA RotationInvNext == RotationInv /\ [RotationNext]_rotationVars => RotationInv'
<1> SUFFICES ASSUME RotationInv, [RotationNext]_rotationVars PROVE RotationInv'
  OBVIOUS
<1> USE TokensAreNumbers DEF RotationInv, RefreshGoes, NoToken, RequestHasRight
<1>1. ASSUME NEW r \in Refreshes, Present(r) PROVE RotationInv'
  <2>1. RotationTypes'
    BY <1>1 DEF Present, RotationTypes
  <2>2. OneRight'
    BY <1>1 DEF Present, RotationTypes, OneRight, TokenHasRight, Rotating
  <2>3. Steady'
    BY <1>1 DEF Present, RotationTypes, Steady, UnderWay
  <2>. QED BY <2>1, <2>2, <2>3
<1>2. ASSUME NEW r \in Refreshes, Answered(r) \/ AnswerLost(r) PROVE RotationInv'
  <2>1. RotationTypes'
    BY <1>2 DEF Answered, AnswerLost, RotationTypes
  <2>2. OneRight'
    BY <1>2 DEF Answered, AnswerLost, RotationTypes, OneRight, TokenHasRight, Rotating
  <2>3. Steady'
    BY <1>2 DEF Answered, AnswerLost, RotationTypes, Steady, UnderWay
  <2>. QED BY <2>1, <2>2, <2>3
<1>3. ASSUME NEW r \in Refreshes, LookupHit(r) \/ LookupMiss(r) PROVE RotationInv'
  <2>1. RotationTypes'
    BY <1>3 DEF LookupHit, LookupMiss, Rejects, RotationTypes
  <2>2. OneRight'
    BY <1>3 DEF LookupHit, LookupMiss, Rejects, RotationTypes, OneRight, TokenHasRight, Rotating
  <2>3. Steady'
    BY <1>3 DEF LookupHit, LookupMiss, Rejects, RotationTypes, Steady, UnderWay
  <2>. QED BY <2>1, <2>2, <2>3
<1>4. ASSUME NEW r \in Refreshes, Decide(r) PROVE RotationInv'
  <2>1. RotationTypes'
    BY <1>4 DEF Decide, RotationTypes
  <2>2. OneRight'
    <3>1. CASE tokenRow[presented[r]] = "revoked"
      BY <1>4, <3>1 DEF Decide, RotationTypes, OneRight, TokenHasRight, Rotating
    <3>2. CASE tokenRow[presented[r]] # "revoked"
      <4>1. /\ refresh[r] = "decide" /\ refresh' = [refresh EXCEPT ![r] = "retire"]
            /\ doubled' <=> (doubled \/ Rotating(presented[r]) # {})
            /\ UNCHANGED <<tokenRow, cachedTokens, held, presented, issued, disturbed>>
        BY <1>4, <3>2 DEF Decide
      <4>2. PICK t0 \in Tokens : t0 = presented[r] /\ tokenRow[t0] = "live"
        BY <3>2, <4>1 DEF RotationTypes
      <4>3. \A t \in Tokens : t # t0 => Rotating(t)' = Rotating(t)
        BY <4>1, <4>2 DEF RotationTypes, Rotating
      <4>4. r \in Rotating(t0)'
        BY <4>1, <4>2 DEF RotationTypes, Rotating
      <4>5. ~doubled' => ~doubled /\ TokenHasRight(t0)
        BY <4>1, <4>2 DEF TokenHasRight
      <4>6. \A t \in Tokens : TokenHasRight(t)' => t # t0 /\ TokenHasRight(t)
        BY <4>1, <4>3, <4>4 DEF TokenHasRight
      <4>7. \A s \in Refreshes : s # r => refresh'[s] = refresh[s]
        BY <4>1 DEF RotationTypes
      <4>. QED BY <4>5, <4>6, <4>7 DEF OneRight
    <3>. QED BY <3>1, <3>2
  <2>3. Steady'
    BY <1>4 DEF Decide, RotationTypes, Steady, UnderWay
  <2>. QED BY <2>1, <2>2, <2>3
<1>5. ASSUME NEW r \in Refreshes, refresh[r] = "retire", tokenRow' = [tokenRow EXCEPT ![presented[r]] = "revoked"],
             refresh'[r] \in {"create", "over"}, refresh' = [refresh EXCEPT ![r] = refresh'[r]],
             refresh'[r] = "over" => disturbed', refresh'[r] = "create" => disturbed' = disturbed,
             UNCHANGED <<held, presented, issued, endedTokens, doubled>>
      PROVE RotationInv'
  <2>1. PICK t0 \in Tokens : t0 = presented[r] /\ tokenRow[t0] # "none"
    BY <1>5 DEF RotationTypes
  <2>2. /\ tokenRow'[t0] = "revoked" /\ tokenRow' \in [Tokens -> {"none", "live", "revoked"}]
        /\ \A t \in Tokens : t # t0 => tokenRow'[t] = tokenRow[t]
    BY <1>5, <2>1 DEF RotationTypes
  <2>3. /\ \A s \in Refreshes : s # r => refresh'[s] = refresh[s]
        /\ refresh' \in [Refreshes -> {"new", "lookup", "decide", "retire", "create", "revoke",
                                "answer", "over", "rejected"}]
    BY <1>5 DEF RotationTypes
  <2>4. RotationTypes'
    BY <1>5, <2>1, <2>2, <2>3 DEF RotationTypes
  <2>5. \A t \in Tokens : t # t0 => Rotating(t)' = Rotating(t)
    BY <1>5, <2>1, <2>3 DEF Rotating
  <2>6. OneRight'
    BY <1>5, <2>2, <2>3, <2>5 DEF OneRight, TokenHasRight
  <2>7. Steady'
    BY <1>5, <2>1, <2>2, <2>3 DEF RotationTypes, Steady, UnderWay
  <2>. QED BY <2>4, <2>6, <2>7
<1>6. ASSUME NEW r \in Refreshes, Retire(r) PROVE RotationInv'
  <2>1. refresh' = [refresh EXCEPT ![r] = "create"] /\ refresh'[r] = "create"
    BY <1>6 DEF Retire, RotationTypes
  <2>. QED BY <1>5, <1>6, <2>1 DEF Retire
<1>7. ASSUME NEW r \in Refreshes, refresh[r] = "create", tokenRow' = [tokenRow EXCEPT ![r + 1] = "live"],
             refresh'[r] \in {"answer", "over"}, refresh' = [refresh EXCEPT ![r] = refresh'[r]],
             refresh'[r] = "over" => disturbed' /\ issued' = issued,
             refresh'[r] = "answer" => disturbed' = disturbed /\ issued' = [issued EXCEPT ![r] = r + 1],
             UNCHANGED <<held, presented, endedTokens, doubled>>
      PROVE RotationInv'
  <2>1. tokenRow[r + 1] = "none"
    BY <1>7 DEF RotationTypes
  <2>2. /\ tokenRow'[r + 1] = "live" /\ tokenRow' \in [Tokens -> {"none", "live", "revoked"}]
        /\ \A t \in Tokens : t # r + 1 => tokenRow'[t] = tokenRow[t]
    BY <1>7 DEF RotationTypes
  <2>3. /\ \A s \in Refreshes : s # r => refresh'[s] = refresh[s]
        /\ refresh' \in [Refreshes -> {"new", "lookup", "decide", "retire", "create", "revoke",
                                "answer", "over", "rejected"}]
        /\ issued' \in [Refreshes -> Tokens \cup {NoToken}]
        /\ \A s \in Refreshes : s # r => issued'[s] = issued[s]
        /\ refresh'[r] = "answer" => issued'[r] = r + 1
    BY <1>7 DEF RotationTypes
  <2>4. \A s \in Refreshes : s # r => s + 1 # r + 1
    OBVIOUS
  <2>5. RotationTypes'
    <3>1. \A s \in Refreshes : presented[s] # NoToken => tokenRow'[presented[s]] # "none"
      BY <2>1, <2>2 DEF RotationTypes
    <3>2. held # NoToken => tokenRow'[held] # "none"
      BY <2>1, <2>2 DEF RotationTypes
    <3>3. \A s \in Refreshes :
            /\ refresh'[s] \in {"new", "lookup", "decide", "retire", "create"} => tokenRow'[s + 1] = "none"
            /\ refresh'[s] = "answer" => issued'[s] = s + 1 /\ tokenRow'[s + 1] # "none"
            /\ refresh'[s] \in {"lookup", "decide", "retire", "create", "revoke"} => presented[s] # NoToken
      BY <1>7, <2>2, <2>3, <2>4 DEF RotationTypes
    <3>. QED BY <1>7, <2>2, <2>3, <3>1, <3>2, <3>3 DEF RotationTypes
  <2>6. \A t \in Tokens : Rotating(t)' = Rotating(t)
    BY <1>7, <2>3 DEF Rotating
  <2>7. OneRight'
    <3>1. \A t \in Tokens : TokenHasRight(t)' => t = r + 1 \/ TokenHasRight(t)
      BY <2>2, <2>6 DEF TokenHasRight
    <3>. QED BY <1>7, <2>3, <3>1 DEF OneRight
  <2>8. Steady'
    BY <1>7, <2>1, <2>2, <2>3, <2>4 DEF RotationTypes, Steady, UnderWay
  <2>. QED BY <2>5, <2>7, <2>8
<1>8. ASSUME NEW r \in Refreshes, Create(r) PROVE RotationInv'
  <2>1. refresh' = [refresh EXCEPT ![r] = "answer"] /\ refresh'[r] = "answer"
    BY <1>8 DEF Create, RotationTypes
  <2>. QED BY <1>7, <1>8, <2>1 DEF Create
<1>9. ASSUME NEW r \in Refreshes, refresh[r] = "revoke", tokenRow' \in {tokenRow, AllRevoked},
             refresh'[r] \in {"over", "rejected"}, refresh' = [refresh EXCEPT ![r] = refresh'[r]],
             held' \in {held, NoToken}, disturbed' <=> disturbed,
             UNCHANGED <<presented, issued, endedTokens, doubled>>
      PROVE RotationInv'
  <2>1. /\ tokenRow' \in [Tokens -> {"none", "live", "revoked"}]
        /\ \A t \in Tokens : /\ tokenRow'[t] = "none" <=> tokenRow[t] = "none"
                             /\ tokenRow'[t] = "live" => tokenRow[t] = "live"
    BY <1>9 DEF RotationTypes, AllRevoked
  <2>2. /\ \A s \in Refreshes : s # r => refresh'[s] = refresh[s]
        /\ refresh' \in [Refreshes -> {"new", "lookup", "decide", "retire", "create", "revoke",
                                "answer", "over", "rejected"}]
    BY <1>9 DEF RotationTypes
  <2>3. RotationTypes'
    <3>1. /\ held' \in Tokens \cup {NoToken} /\ presented' = presented /\ issued' = issued
          /\ presented \in [Refreshes -> Tokens \cup {NoToken}] /\ issued \in [Refreshes -> Tokens \cup {NoToken}]
      BY <1>9 DEF RotationTypes
    <3>2. held' # NoToken => tokenRow'[held'] # "none"
      BY <1>9, <2>1 DEF RotationTypes
    <3>3. ASSUME NEW s \in Refreshes
          PROVE  /\ presented[s] # NoToken => tokenRow'[presented[s]] # "none"
                 /\ refresh'[s] \in {"lookup", "decide", "retire", "create", "revoke"} => presented[s] # NoToken
                 /\ refresh'[s] \in {"new", "lookup", "decide", "retire", "create"} => tokenRow'[s + 1] = "none"
                 /\ refresh'[s] = "answer" => issued[s] = s + 1 /\ tokenRow'[s + 1] # "none"
      <4>1. /\ presented[s] # NoToken => presented[s] \in Tokens /\ tokenRow[presented[s]] # "none"
            /\ s + 1 \in Tokens
        BY TokensAreNumbers DEF RotationTypes
      <4>2. refresh'[s] = refresh[s] \/ refresh'[s] \in {"over", "rejected"}
        BY <1>9, <2>2
      <4>. QED BY <2>1, <4>1, <4>2 DEF RotationTypes
    <3>. QED BY <2>1, <2>2, <3>1, <3>2, <3>3 DEF RotationTypes
  <2>4. \A t \in Tokens : Rotating(t)' = Rotating(t)
    BY <1>9, <2>2 DEF Rotating
  <2>5. OneRight'
    BY <1>9, <2>1, <2>2, <2>4 DEF OneRight, TokenHasRight
  <2>6. Steady'
    <3>1. ~disturbed' => UnderWay' = {} /\ presented[r] = held /\ held \in endedTokens
      BY <1>9, <2>2 DEF Steady, UnderWay
    <3>. QED BY <1>9, <2>2, <3>1 DEF Steady, UnderWay
  <2>. QED BY <2>3, <2>5, <2>6
<1>10. ASSUME NEW r \in Refreshes, RevokeFamily(r) PROVE RotationInv'
  <2>1. refresh' = [refresh EXCEPT ![r] = "rejected"] /\ refresh'[r] = "rejected"
    BY <1>10 DEF RevokeFamily, Rejects, RotationTypes
  <2>. QED BY <1>9, <1>10, <2>1 DEF RevokeFamily, Rejects
<1>11. ASSUME NEW r \in Refreshes, RefreshFails(r) PROVE RotationInv'
  <2>1. /\ refresh' = [refresh EXCEPT ![r] = "over"] /\ refresh'[r] = "over"
        /\ refresh[r] \in {"lookup", "decide", "retire", "create", "revoke"}
        /\ disturbed' <=> (disturbed \/ refresh[r] \in {"retire", "create"})
        /\ UNCHANGED <<cachedTokens, held, presented, issued, endedTokens, doubled>>
    BY <1>11 DEF RefreshFails, RotationTypes
  <2>2. CASE UNCHANGED tokenRow
    <3>1. RotationTypes'
      BY <2>1, <2>2 DEF RotationTypes
    <3>2. OneRight'
      <4>1. ASSUME NEW t \in Tokens, TokenHasRight(t)' PROVE TokenHasRight(t) \/ (RequestHasRight(r) /\ r \in Rotating(t))
        <5>1. tokenRow[t] = "live" /\ Rotating(t)' = {}
          BY <2>2, <4>1 DEF TokenHasRight
        <5>2. ASSUME NEW s \in Rotating(t) PROVE s = r
          <6>1. s \in Refreshes /\ refresh[s] = "retire" /\ presented[s] = t
            BY DEF Rotating
          <6>2. s \notin Rotating(t)'
            BY <5>1
          <6>3. presented'[s] = t /\ (s # r => refresh'[s] = refresh[s])
            BY <2>1, <6>1 DEF RotationTypes
          <6>. QED BY <6>1, <6>2, <6>3 DEF Rotating
        <5>3. CASE Rotating(t) = {}
          BY <5>1, <5>3 DEF TokenHasRight
        <5>4. CASE Rotating(t) # {}
          <6>1. PICK s \in Rotating(t) : TRUE
            BY <5>4
          <6>2. r \in Rotating(t)
            BY <5>2, <6>1
          <6>. QED BY <6>2 DEF Rotating
        <5>. QED BY <5>3, <5>4
      <4>2. ASSUME NEW t \in Tokens, NEW u \in Tokens, r \in Rotating(t), r \in Rotating(u) PROVE t = u
        BY <4>2 DEF Rotating
      <4>3. \A s \in Refreshes : RequestHasRight(s)' => RequestHasRight(s) /\ s # r
        BY <2>1 DEF RotationTypes
      <4>. QED BY <2>1, <4>1, <4>2, <4>3 DEF OneRight
    <3>3. Steady'
      BY <2>1, <2>2 DEF RotationTypes, Steady, UnderWay
    <3>. QED BY <3>1, <3>2, <3>3
  <2>3. CASE refresh[r] = "retire" /\ tokenRow' = [tokenRow EXCEPT ![presented[r]] = "revoked"]
    BY <1>5, <2>1, <2>3
  <2>4. CASE refresh[r] = "create" /\ tokenRow' = [tokenRow EXCEPT ![r + 1] = "live"]
    BY <1>7, <2>1, <2>4
  <2>5. CASE refresh[r] = "revoke" /\ tokenRow' = AllRevoked
    <3>1. disturbed' <=> disturbed
      BY <2>1, <2>5
    <3>. QED BY <1>9, <2>1, <2>5, <3>1
  <2>. QED BY <1>11, <2>2, <2>3, <2>4, <2>5 DEF RefreshFails
<1>12. ASSUME NEW t \in Tokens, EntryExpires(t) PROVE RotationInv'
  BY <1>12 DEF EntryExpires, RotationTypes, OneRight, TokenHasRight, Rotating, Steady, UnderWay
<1>13. ASSUME SignOut PROVE RotationInv'
  <2>1. RotationTypes'
    BY <1>13 DEF SignOut, RotationTypes
  <2>2. OneRight'
    BY <1>13 DEF SignOut, RotationTypes, OneRight, TokenHasRight, Rotating
  <2>3. Steady'
    BY <1>13 DEF SignOut, RotationTypes, Steady, UnderWay
  <2>. QED BY <2>1, <2>2, <2>3
<1>14. ASSUME NEW t \in Tokens, RevokeSession(t) PROVE RotationInv'
  <2>1. /\ tokenRow'[t] = "revoked" /\ tokenRow[t] = "live" /\ endedTokens' = endedTokens \cup {t}
        /\ tokenRow' \in [Tokens -> {"none", "live", "revoked"}]
        /\ \A u \in Tokens : u # t => tokenRow'[u] = tokenRow[u]
        /\ UNCHANGED <<held, refresh, presented, issued, disturbed, doubled>>
    BY <1>14 DEF RevokeSession, RotationTypes
  <2>5. \A u \in Tokens : tokenRow'[u] = "none" <=> tokenRow[u] = "none"
    BY <2>1
  <2>2. RotationTypes'
    BY <2>1, <2>5 DEF RotationTypes
  <2>3. OneRight'
    BY <2>1 DEF OneRight, TokenHasRight, Rotating
  <2>4. Steady'
    BY <2>1 DEF RotationTypes, Steady, UnderWay
  <2>. QED BY <2>2, <2>3, <2>4
<1>15. ASSUME LogoutAll PROVE RotationInv'
  <2>1. /\ tokenRow' \in [Tokens -> {"none", "live", "revoked"}]
        /\ \A t \in Tokens : /\ tokenRow'[t] = "none" <=> tokenRow[t] = "none"
                             /\ tokenRow'[t] # "live"
                             /\ tokenRow[t] = "live" => t \in endedTokens'
        /\ endedTokens \subseteq endedTokens' /\ held' \in {held, NoToken}
        /\ disturbed' <=> (disturbed \/ (held' # held /\ UnderWay # {}))
        /\ UNCHANGED <<refresh, presented, issued, doubled>>
    BY <1>15 DEF LogoutAll, AllRevoked, Live, RotationTypes
  <2>2. RotationTypes'
    BY <2>1 DEF RotationTypes
  <2>3. OneRight'
    BY <2>1 DEF OneRight, TokenHasRight, Rotating
  <2>4. Steady'
    <3>1. UnderWay' = UnderWay
      BY <2>1 DEF UnderWay
    <3>2. CASE held' = held
      BY <2>1, <3>1, <3>2 DEF RotationTypes, Steady
    <3>3. CASE held' # held
      BY <2>1, <3>1, <3>3 DEF RotationTypes, Steady, UnderWay
    <3>. QED BY <3>2, <3>3
  <2>. QED BY <2>2, <2>3, <2>4
<1>16. CASE RotationAtRest \/ UNCHANGED rotationVars
  BY <1>16 DEF RotationAtRest, rotationVars, RotationTypes, OneRight, TokenHasRight, Rotating,
     Steady, UnderWay
<1>. QED
  BY <1>1, <1>2, <1>3, <1>4, <1>6, <1>8, <1>10, <1>11, <1>12, <1>13, <1>14, <1>15, <1>16 DEF RotationNext

\* POST /auth/refresh: a login has one valid token at most unless two requests rotated one, and
\* a client that asks once at a time and gets its answers is taken for a thief only with a token
\* that its user has revoked from another session or with all.
THEOREM FamilySafe == RotationSpec => []FamilyIsSafe
<1>1. RotationInv => FamilyIsSafe
  <2>. SUFFICES ASSUME RotationInv PROVE OneTokenLives /\ SteadyClientKept
    BY DEF FamilyIsSafe
  <2>1. SteadyClientKept
    BY DEF RotationInv, Steady, SteadyClientKept
  <2>2. ASSUME ~doubled PROVE Cardinality({t \in Tokens : tokenRow[t] = "live"}) <= 1
    <3>1. ASSUME NEW t \in Tokens, NEW u \in Tokens, tokenRow[t] = "live", tokenRow[u] = "live"
          PROVE  t = u
      <4>1. TokenHasRight(t) \/ \E r \in Refreshes : RequestHasRight(r) /\ r \in Rotating(t)
        BY <3>1 DEF TokenHasRight, RequestHasRight, Rotating
      <4>2. TokenHasRight(u) \/ \E r \in Refreshes : RequestHasRight(r) /\ r \in Rotating(u)
        BY <3>1 DEF TokenHasRight, RequestHasRight, Rotating
      <4>3. \A r \in Refreshes : r \in Rotating(t) /\ r \in Rotating(u) => t = u
        BY DEF Rotating
      <4>. QED BY <2>2, <4>1, <4>2, <4>3 DEF RotationInv, OneRight
    <3>2. CASE {t \in Tokens : tokenRow[t] = "live"} = {}
      BY <3>2, FS_EmptySet
    <3>3. CASE \E t \in Tokens : tokenRow[t] = "live"
      <4>1. PICK t \in Tokens : tokenRow[t] = "live"
        BY <3>3
      <4>2. {u \in Tokens : tokenRow[u] = "live"} = {t}
        BY <3>1, <4>1
      <4>3. Cardinality({t}) = 1
        BY FS_Singleton
      <4>. QED BY <4>2, <4>3
    <3>. QED BY <3>2, <3>3
  <2>. QED BY <2>1, <2>2 DEF OneTokenLives, Live
<1>. QED
  BY <1>1, RotationInvInit, RotationInvNext, PTL DEF RotationSpec

-----------------------------------------------------------------------------
(* Polls and deliveries of a feed *)

AllPairs == Users \X ItemIds

Poll == [at : PollPlaces, etag : Int, found : 0..LastItem, own : SUBSET ItemIds, list : SUBSET AllPairs,
         to : [Users -> {"no", "wait", "mark", "done"}], read : Nat]

RssTypes ==
  /\ poll \in [Polls -> Poll] /\ onFeed \in ItemIds /\ etag \in Int
  /\ stored \subseteq ItemIds /\ errors \in Nat /\ failures \in Nat
  /\ sent \in [AllPairs -> Nat] /\ subscribed \subseteq Users /\ deliveries \subseteq AllPairs

\* What a run owns is stored, what it has listed is its own, and of that nothing has been sent
\* but what its places say.
PollFits(p) ==
  /\ poll[p].own \subseteq stored /\ \A d \in poll[p].list : d[2] \in poll[p].own
  /\ poll[p].at \notin {"prepare", "mark", "send"} => poll[p].list = {}
  /\ poll[p].at = "mark" => TargetItem(p) \in skipped
  /\ poll[p].at \in {"fetch", "store", "stored", "failing", "counting", "query"} =>
       \A d \in AllPairs : d[2] \in poll[p].own => sent[d] = 0
  /\ \A d \in poll[p].list : poll[p].at # "send" \/ d \notin Pairs(p) => sent[d] = 0
  /\ poll[p].at = "send" =>
       /\ \A d \in Pairs(p) : /\ poll[p].to[d[1]] # "no"
                              /\ poll[p].to[d[1]] = "wait" => sent[d] = 0
                              /\ poll[p].to[d[1]] = "mark" => sent[d] = 1
       /\ \A u \in Users : poll[p].to[u] # "no" => <<u, TargetItem(p)>> \in Pairs(p)

\* Runs own different items, and what is not stored has not been sent.
OwnApart ==
  /\ \A p, q \in Polls : p # q => poll[p].own \cap poll[q].own = {}
  /\ \A d \in AllPairs : d[2] \notin stored => sent[d] = 0

\* What is due is recorded, given up, or listed by a run that is not done with it.
InProgress(p) ==
  {d \in poll[p].list : ~(poll[p].at = "send" /\ d \in Pairs(p) /\ poll[p].to[d[1]] = "done")}

DueIsKept == \A d \in due : d \in deliveries \cup forgone \/ \E p \in Polls : d \in InProgress(p)

\* The error count is the failures in a row, and what a run has read of it, unless one overtook
\* or a 304 came between.
CountIsTrue ==
  ~overtaken => /\ unmodified \/ errors = failures
                /\ \A p \in Polls : poll[p].at = "counting" => poll[p].read = errors

RssInv ==
  /\ RssTypes /\ OwnApart /\ DueIsKept /\ CountIsTrue /\ SentOnce /\ RecordIsTrue
  /\ \A p \in Polls : PollFits(p)

\* The idle run owns nothing and has nothing to do.
LEMMA IdleIsPoll ==
  ASSUME NEW where \in PollPlaces
  PROVE  IdlePoll \in Poll /\ [IdlePoll EXCEPT !.at = where] \in Poll
  BY RssAssumption DEF IdlePoll, Poll, NoOneYet, PollPlaces

\* Before the first run nothing is stored or sent.
LEMMA RssInvInit == RssInit => RssInv
<1> SUFFICES ASSUME RssInit PROVE RssInv
  OBVIOUS
<1>1. IdlePoll \in Poll
  BY IdleIsPoll DEF PollPlaces
<1>2. \A p \in Polls : poll[p] = IdlePoll
  BY DEF RssInit
<1>3. RssTypes
  BY <1>1, RssAssumption DEF RssInit, RssTypes, AllPairs, ItemIds
<1>4. \A p \in Polls : PollFits(p)
  BY <1>2 DEF RssInit, PollFits, IdlePoll, Pairs
<1>5. OwnApart /\ DueIsKept /\ SentOnce /\ RecordIsTrue
  BY <1>2 DEF RssInit, OwnApart, DueIsKept, SentOnce, RecordIsTrue, IdlePoll, AllPairs
<1>6. CountIsTrue
  BY <1>2 DEF RssInit, CountIsTrue, IdlePoll
<1>. QED BY <1>3, <1>4, <1>5, <1>6 DEF RssInv

\* A run that does not move fits as before, as long as nothing of its own is sent.
LEMMA OtherFits ==
  ASSUME NEW q \in Polls, PollFits(q), RssTypes, poll'[q] = poll[q], stored \subseteq stored',
         skipped \subseteq skipped', \A d \in AllPairs : d[2] \in poll[q].own => sent'[d] = sent[d]
  PROVE  PollFits(q)' /\ InProgress(q)' = InProgress(q)
<1>1. Pairs(q)' = Pairs(q) /\ TargetItem(q)' = TargetItem(q)
  BY DEF Pairs, TargetItem
<1>2. poll[q].list \subseteq AllPairs /\ Pairs(q) \subseteq poll[q].list
  BY DEF RssTypes, Poll, Pairs
<1>3. InProgress(q)' = InProgress(q)
  BY <1>1 DEF InProgress
<1>4. PollFits(q)'
  BY <1>1, <1>2 DEF PollFits
<1>. QED BY <1>3, <1>4

\* A step of one run keeps the invariant when the run fits after it, owns nothing of another's
\* and sends nothing of another's, and drops nothing that is due.
LEMMA RunStep ==
  ASSUME RssInv, NEW p \in Polls, NEW new \in Poll, poll' = [poll EXCEPT ![p] = new],
         PollFits(p)', RssTypes', CountIsTrue', SentOnce', RecordIsTrue',
         \A q \in Polls \ {p} : new.own \cap poll[q].own = {},
         \A q \in Polls \ {p} : \A d \in AllPairs : d[2] \in poll[q].own => sent'[d] = sent[d],
         \A d \in AllPairs : d[2] \notin stored' => sent'[d] = 0,
         stored \subseteq stored', skipped \subseteq skipped',
         deliveries \subseteq deliveries', forgone \subseteq forgone',
         due' \subseteq due \cup deliveries' \cup forgone' \cup InProgress(p)',
         InProgress(p) \subseteq deliveries' \cup forgone' \cup InProgress(p)'
  PROVE  RssInv'
<1>1. poll'[p] = new /\ \A q \in Polls \ {p} : poll'[q] = poll[q]
  BY DEF RssInv, RssTypes
<1>2. ASSUME NEW q \in Polls \ {p} PROVE PollFits(q)' /\ InProgress(q)' = InProgress(q)
  BY <1>1, OtherFits DEF RssInv
<1>3. \A q \in Polls : PollFits(q)'
  BY <1>2
<1>4. OwnApart'
  BY <1>1 DEF OwnApart, RssInv
<1>5. DueIsKept'
  <2>1. SUFFICES ASSUME NEW d \in due'
                 PROVE  d \in deliveries' \cup forgone' \/ \E q \in Polls : d \in InProgress(q)'
    BY DEF DueIsKept
  <2>2. CASE d \in due
    <3>1. d \in deliveries \cup forgone \/ \E q \in Polls : d \in InProgress(q)
      BY <2>2 DEF RssInv, DueIsKept
    <3>. QED BY <3>1, <1>2
  <2>. QED BY <2>1, <2>2
<1>. QED BY <1>3, <1>4, <1>5 DEF RssInv

\* The part of a run before it lists anything, and its end: it leaves the messages alone.
LEMMA QuietStep ==
  ASSUME RssInv, NEW p \in Polls, NEW new \in Poll, poll' = [poll EXCEPT ![p] = new],
         new.list = {}, new.at \notin {"prepare", "mark", "send"},
         new.at \in {"fetch", "store", "stored", "failing", "counting", "query"} =>
            \A d \in AllPairs : d[2] \in new.own => sent[d] = 0,
         new.own \subseteq stored', \A q \in Polls \ {p} : new.own \cap poll[q].own = {},
         RssTypes', CountIsTrue', RecordIsTrue', sent' = sent,
         stored \subseteq stored', skipped \subseteq skipped',
         deliveries \subseteq deliveries', forgone \subseteq forgone',
         due' \subseteq due \cup deliveries' \cup forgone',
         InProgress(p) \subseteq deliveries' \cup forgone'
  PROVE  RssInv'
<1>1. poll'[p] = new
  BY DEF RssInv, RssTypes
<1>2. PollFits(p)'
  BY <1>1 DEF PollFits
<1>3. SentOnce'
  BY DEF RssInv, SentOnce
<1>4. \A d \in AllPairs : d[2] \notin stored' => sent'[d] = 0
  BY DEF RssInv, OwnApart
<1>. QED BY <1>2, <1>3, <1>4, RunStep

\* Before a run lists anything it has nothing in progress.
LEMMA NothingListed ==
  ASSUME RssInv, NEW p \in Polls, poll[p].at \notin {"prepare", "mark", "send"}
  PROVE  InProgress(p) = {} /\ poll[p].list = {}
  BY DEF RssInv, PollFits, InProgress

\* A run changes only the fields of its own record.
LEMMA PollTyped ==
  ASSUME RssInv, NEW p \in Polls
  PROVE  /\ poll[p] \in Poll /\ poll[p].own \subseteq stored /\ poll[p].list \subseteq AllPairs
         /\ \A q \in Polls \ {p} : poll[p].own \cap poll[q].own = {}
  BY DEF RssInv, RssTypes, PollFits, OwnApart, Poll

\* What a run that ends leaves must be recorded or given up.
LEMMA FinishKeeps ==
  ASSUME RssInv, NEW p \in Polls, Finish(p), stored' = stored, sent' = sent,
         onFeed' = onFeed, etag' = etag, errors' = errors,
         \/ failures' = failures /\ unmodified' = unmodified
         \/ failures' = 0 /\ unmodified' = (unmodified \/ failures # 0),
         overtaken' = overtaken, subscribed' = subscribed, skipped' = skipped,
         deliveries \subseteq deliveries', forgone \subseteq forgone', deliveries' \subseteq AllPairs,
         RecordIsTrue', due' \subseteq due \cup deliveries' \cup forgone',
         InProgress(p) \subseteq deliveries' \cup forgone'
  PROVE  RssInv'
<1> DEFINE new == [IdlePoll EXCEPT !.at = "over"]
<1>1. /\ new \in Poll /\ new.list = {} /\ new.own = {} /\ new.at = "over"
  BY IdleIsPoll DEF PollPlaces, IdlePoll
<1>2. poll' = [poll EXCEPT ![p] = new]
  BY DEF Finish
<1> HIDE DEF new
<1>3. RssTypes'
  BY <1>1, <1>2 DEF RssInv, RssTypes
<1>4. CountIsTrue'
  <2>1. CASE failures' = failures /\ unmodified' = unmodified
    BY <1>1, <1>2, <2>1 DEF RssInv, CountIsTrue, RssTypes
  <2>2. CASE failures' = 0 /\ unmodified' = (unmodified \/ failures # 0)
    BY <1>1, <1>2, <2>2 DEF RssInv, CountIsTrue, RssTypes
  <2>. QED BY <2>1, <2>2
<1>. QED BY <1>1, <1>2, <1>3, <1>4, QuietStep

\* Steps of a run over its feed.
LEMMA FeedSteps ==
  ASSUME RssInv, NEW p \in Polls,
         BeginPoll(p) \/ Fetch(p) \/ StoreItems(p) \/ FetchSucceeds(p) \/ FetchFails(p)
         \/ ReadErrors(p) \/ WriteErrors(p)
  PROVE  RssInv'
<1>1. /\ poll[p] \in Poll /\ poll[p].own \subseteq stored
      /\ \A q \in Polls \ {p} : poll[p].own \cap poll[q].own = {}
  BY PollTyped
<1>2. InProgress(p) = {} /\ poll[p].list = {}
  BY NothingListed DEF BeginPoll, Fetch, StoreItems, FetchSucceeds, FetchFails, ReadErrors, WriteErrors
<1>3. poll[p].at \in {"fetch", "store", "stored", "failing", "counting"} =>
        \A d \in AllPairs : d[2] \in poll[p].own => sent[d] = 0
  BY DEF RssInv, PollFits
<1>12. onFeed \in 0..LastItem
  BY RssAssumption DEF RssInv, RssTypes, ItemIds
<1>4. ASSUME sendVars' = sendVars, stored' = stored PROVE RecordIsTrue'
  BY <1>4 DEF sendVars, RssInv, RecordIsTrue
<1>5. CASE BeginPoll(p)
  <2> DEFINE new == [IdlePoll EXCEPT !.at = "fetch", !.etag = etag]
  <2>1. /\ new \in Poll /\ new.list = {} /\ new.own = {} /\ new.at = "fetch"
    <3>1. IdlePoll \in Poll /\ IdlePoll.list = {} /\ IdlePoll.own = {} /\ etag \in Int
      BY IdleIsPoll DEF PollPlaces, IdlePoll, RssInv, RssTypes
    <3>. QED BY <3>1 DEF Poll, PollPlaces
  <2>2. poll' = [poll EXCEPT ![p] = new]
    BY <1>5 DEF BeginPoll
  <2> HIDE DEF new
  <2>3. RssTypes' /\ CountIsTrue'
    BY <1>5, <2>1, <2>2 DEF BeginPoll, RssInv, RssTypes, CountIsTrue, feedVars, sendVars
  <2>. QED BY <1>5, <1>1, <1>2, <1>4, <2>1, <2>2, <2>3, QuietStep DEF BeginPoll, feedVars, sendVars
<1>6. CASE Fetch(p)
  <2>1. CASE poll[p].etag = onFeed
    BY <1>6, <2>1, <1>2, <1>4, FinishKeeps DEF Fetch, feedVars, sendVars, RssInv, RssTypes
  <2>2. CASE poll[p].etag # onFeed
    <3> DEFINE new == [poll[p] EXCEPT !.at = "store", !.found = onFeed]
    <3>1. /\ new \in Poll /\ new.list = {} /\ new.own = poll[p].own /\ new.at = "store"
      BY <1>1, <1>2, <1>12 DEF PollPlaces, Poll
    <3>2. poll' = [poll EXCEPT ![p] = new]
      BY <1>6, <2>2 DEF Fetch
    <3> HIDE DEF new
    <3>4. UNCHANGED <<onFeed, stored, subscribed, etag, errors, active, failures, unmodified, overtaken, sendVars>>
      BY <1>6, <2>2 DEF Fetch
    <3>3. RssTypes' /\ CountIsTrue'
      BY <3>1, <3>2, <3>4 DEF RssInv, RssTypes, CountIsTrue, sendVars
    <3>5. poll[p].at = "fetch" /\ RecordIsTrue'
      BY <1>6, <1>4, <3>4 DEF Fetch
    <3>. QED BY <1>1, <1>2, <1>3, <3>1, <3>2, <3>3, <3>4, <3>5, QuietStep DEF sendVars
  <2>. QED BY <2>1, <2>2
<1>7. CASE StoreItems(p)
  <2>1. PICK rows \in SUBSET Inserted(poll[p].found) :
          /\ stored' = stored \cup rows
          /\ poll' = [poll EXCEPT ![p].own = rows, ![p].at = "stored"]
    BY <1>7 DEF StoreItems
  <2>2. rows \cap stored = {} /\ rows \subseteq ItemIds
    <3>1. poll[p].found \in 0..LastItem
      BY <1>1 DEF Poll
    <3>2. LastItem \in Nat
      BY RssAssumption
    <3>3. 1..poll[p].found \subseteq 1..LastItem
      BY <3>1, <3>2
    <3>. QED BY <3>3 DEF Inserted, ItemIds
  <2> DEFINE new == [poll[p] EXCEPT !.own = rows, !.at = "stored"]
  <2>3. /\ new \in Poll /\ new.list = {} /\ new.own = rows /\ new.at = "stored"
    BY <1>1, <1>2, <2>2 DEF PollPlaces, Poll
  <2>4. poll' = [poll EXCEPT ![p] = new]
    BY <2>1
  <2> HIDE DEF new
  <2>9. UNCHANGED <<onFeed, subscribed, feedVars, sendVars>>
    BY <1>7 DEF StoreItems
  <2>5. RssTypes' /\ CountIsTrue' /\ sendVars' = sendVars
    BY <2>1, <2>2, <2>3, <2>4, <2>9 DEF RssInv, RssTypes, CountIsTrue, feedVars, sendVars
  <2>6. RecordIsTrue' /\ sent' = sent /\ skipped' = skipped /\ deliveries' = deliveries
        /\ forgone' = forgone /\ due' = due
    BY <2>5 DEF sendVars, RssInv, RecordIsTrue
  <2>7. \A d \in AllPairs : d[2] \in rows => sent[d] = 0
    BY <2>2 DEF RssInv, OwnApart
  <2>8. \A q \in Polls \ {p} : rows \cap poll[q].own = {}
    BY <2>2, PollTyped
  <2>. QED BY <1>2, <2>1, <2>3, <2>4, <2>5, <2>6, <2>7, <2>8, QuietStep, ZenonT(30)
<1>8. CASE FetchSucceeds(p)
  <2>1. PICK where \in {ToDelivery(poll[p].own), "failing"} : Step(p, where)
    BY <1>8 DEF FetchSucceeds
  <2> DEFINE new == [poll[p] EXCEPT !.at = where]
  <2>2. /\ new \in Poll /\ new.list = {} /\ new.own = poll[p].own /\ new.at = where
        /\ where \in {"over", "query", "failing"}
    BY <1>1, <1>2 DEF PollPlaces, Poll, ToDelivery
  <2>3. poll' = [poll EXCEPT ![p] = new]
    BY <2>1 DEF Step
  <2> HIDE DEF new
  <2>4. RssTypes'
    BY <1>8, <1>1, <2>2, <2>3, RssAssumption
       DEF FetchSucceeds, RssInv, RssTypes, sendVars, AfterSuccess, Poll, ItemIds
  <2>5. CountIsTrue'
    BY <1>8, <2>2, <2>3 DEF FetchSucceeds, RssInv, RssTypes, CountIsTrue, Overtakes, AfterSuccess
  <2>. QED BY <1>8, <1>1, <1>2, <1>3, <1>4, <2>2, <2>3, <2>4, <2>5, QuietStep
           DEF FetchSucceeds, sendVars
<1>9. CASE FetchFails(p)
  <2> DEFINE new == [poll[p] EXCEPT !.at = "failing"]
  <2>2. /\ new \in Poll /\ new.list = {} /\ new.own = poll[p].own /\ new.at = "failing"
    BY <1>1, <1>2 DEF PollPlaces, Poll
  <2>3. poll' = [poll EXCEPT ![p] = new]
    BY <1>9 DEF FetchFails, Step
  <2> HIDE DEF new
  <2>4. RssTypes' /\ CountIsTrue'
    BY <1>9, <2>2, <2>3 DEF FetchFails, RssInv, RssTypes, CountIsTrue, feedVars, sendVars
  <2>5. \A d \in AllPairs : d[2] \in poll[p].own => sent[d] = 0
    BY <1>9 DEF FetchFails, RssInv, PollFits
  <2>. QED BY <1>9, <1>1, <1>2, <1>4, <2>2, <2>3, <2>4, <2>5, QuietStep
           DEF FetchFails, feedVars, sendVars
<1>10. CASE ReadErrors(p)
  <2> DEFINE new == [poll[p] EXCEPT !.at = "counting", !.read = errors]
  <2>2. /\ new \in Poll /\ new.list = {} /\ new.own = poll[p].own /\ new.at = "counting"
        /\ new.read = errors
    BY <1>1, <1>2 DEF PollPlaces, Poll, RssInv, RssTypes
  <2>3. poll' = [poll EXCEPT ![p] = new]
    BY <1>10 DEF ReadErrors
  <2> HIDE DEF new
  <2>4. RssTypes' /\ CountIsTrue'
    BY <1>10, <2>2, <2>3 DEF ReadErrors, RssInv, RssTypes, CountIsTrue, feedVars, sendVars
  <2>5. UNCHANGED <<stored, sent, skipped, deliveries, forgone, due>> /\ RecordIsTrue'
    BY <1>10 DEF ReadErrors, sendVars, RssInv, RecordIsTrue
  <2>. QED BY <1>1, <1>2, <1>3, <1>10, <2>2, <2>3, <2>4, <2>5, QuietStep, ZenonT(30) DEF ReadErrors
<1>11. CASE WriteErrors(p)
  <2> DEFINE new == [poll[p] EXCEPT !.at = ToDelivery(poll[p].own)]
  <2>2. /\ new \in Poll /\ new.list = {} /\ new.own = poll[p].own /\ new.at \in {"over", "query"}
    BY <1>1, <1>2 DEF PollPlaces, Poll, ToDelivery
  <2>3. poll' = [poll EXCEPT ![p] = new]
    BY <1>11 DEF WriteErrors, Step
  <2> HIDE DEF new
  <2>4. RssTypes'
    BY <1>11, <1>1, <2>2, <2>3 DEF WriteErrors, RssInv, RssTypes, sendVars, Poll
  <2>5. CountIsTrue'
    BY <1>11, <2>2, <2>3 DEF WriteErrors, RssInv, RssTypes, CountIsTrue, Overtakes
  <2>. QED BY <1>11, <1>1, <1>2, <1>3, <1>4, <2>2, <2>3, <2>4, <2>5, QuietStep
           DEF WriteErrors, sendVars
<1>. QED BY <1>5, <1>6, <1>7, <1>8, <1>9, <1>10, <1>11

\* The targets of a run are listed, or given up over the cap.
LEMMA QueryStep == ASSUME RssInv, NEW p \in Polls, QueryTargets(p) PROVE RssInv'
<1> DEFINE all == Targets(p)
           list == Capped(all)
<1>1. /\ poll[p] \in Poll /\ poll[p].own \subseteq stored
      /\ \A q \in Polls \ {p} : poll[p].own \cap poll[q].own = {}
  BY PollTyped
<1>2. InProgress(p) = {}
  BY NothingListed DEF QueryTargets
<1>3. list \subseteq all /\ \A d \in all : d \in AllPairs /\ d[2] \in poll[p].own
  BY <1>1 DEF Targets, Capped, RssInv, RssTypes, Poll, AllPairs
<1>4. /\ forgone' = forgone \cup (all \ list) /\ due' = due \cup all
      /\ UNCHANGED <<onFeed, stored, subscribed, feedVars, deliveries, sent, skipped>>
      /\ list = {} => Finish(p)
      /\ list # {} => poll' = [poll EXCEPT ![p].at = "prepare", ![p].list = list]
  BY DEF QueryTargets
<1>5. \A d \in AllPairs : d[2] \in poll[p].own => sent[d] = 0
  BY DEF QueryTargets, RssInv, PollFits
<1> HIDE DEF all, list
<1>6. RecordIsTrue' /\ SentOnce'
  BY <1>4 DEF RssInv, RecordIsTrue, SentOnce
<1>7. CASE list = {}
  BY <1>7, <1>4, <1>2, <1>6, FinishKeeps DEF feedVars, RssInv, RssTypes
<1>8. CASE list # {}
  <2> DEFINE new == [poll[p] EXCEPT !.at = "prepare", !.list = list]
  <2>1. new \in Poll /\ new.list = list /\ new.own = poll[p].own /\ new.at = "prepare"
    BY <1>1, <1>3 DEF Poll, PollPlaces
  <2>2. poll' = [poll EXCEPT ![p] = new]
    BY <1>4, <1>8
  <2> HIDE DEF new
  <2>3. RssTypes' /\ CountIsTrue' /\ poll'[p] = new
    BY <1>4, <2>1, <2>2 DEF RssInv, RssTypes, CountIsTrue, feedVars
  <2>4. PollFits(p)' /\ InProgress(p)' = list
    BY <1>1, <1>3, <1>4, <1>5, <2>1, <2>3 DEF PollFits, InProgress
  <2>5. \A d \in AllPairs : d[2] \notin stored' => sent'[d] = 0
    BY <1>4 DEF RssInv, OwnApart
  <2>. QED BY <1>1, <1>2, <1>4, <1>6, <2>1, <2>2, <2>3, <2>4, <2>5, RunStep
<1>. QED BY <1>7, <1>8

\* The item at hand is done with: the list goes on with the others, which have not been sent.
LEMMA NextStep ==
  ASSUME RssInv, NEW p \in Polls, poll[p].at \in {"prepare", "mark", "send"}, NextTarget(p),
         stored' = stored, sent' = sent, onFeed' = onFeed, feedVars' = feedVars,
         subscribed' = subscribed, skipped \subseteq skipped', skipped' = skipped, due' = due,
         deliveries \subseteq deliveries', forgone \subseteq forgone', deliveries' \subseteq AllPairs,
         RecordIsTrue', InProgress(p) \cap Pairs(p) \subseteq deliveries' \cup forgone'
  PROVE  RssInv'
<1>1. /\ poll[p] \in Poll /\ poll[p].own \subseteq stored /\ poll[p].list \subseteq AllPairs
      /\ \A q \in Polls \ {p} : poll[p].own \cap poll[q].own = {}
  BY PollTyped
<1>2. InProgress(p) \subseteq poll[p].list /\ Pairs(p) \subseteq poll[p].list
  BY DEF InProgress, Pairs
<1>3. CASE Pairs(p) = poll[p].list
  BY <1>2, <1>3, FinishKeeps DEF NextTarget, feedVars
<1>4. CASE Pairs(p) # poll[p].list
  <2> DEFINE new == [poll[p] EXCEPT !.at = "prepare", !.list = @ \ Pairs(p), !.to = NoOneYet]
  <2>1. new \in Poll /\ new.list = poll[p].list \ Pairs(p) /\ new.own = poll[p].own /\ new.at = "prepare"
    BY <1>1 DEF Poll, PollPlaces, NoOneYet
  <2>2. poll' = [poll EXCEPT ![p] = new]
    BY <1>4 DEF NextTarget
  <2> HIDE DEF new
  <2>3. RssTypes' /\ CountIsTrue' /\ SentOnce' /\ poll'[p] = new
    BY <2>1, <2>2 DEF RssInv, RssTypes, CountIsTrue, feedVars, SentOnce
  <2>4. \A d \in poll[p].list \ Pairs(p) : d[2] \in poll[p].own /\ sent[d] = 0
    BY DEF RssInv, PollFits
  <2>5. PollFits(p)' /\ InProgress(p)' = poll[p].list \ Pairs(p)
    BY <1>1, <2>1, <2>3, <2>4 DEF PollFits, InProgress
  <2>6. \A d \in AllPairs : d[2] \notin stored' => sent'[d] = 0
    BY DEF RssInv, OwnApart
  <2>. QED BY <1>1, <1>2, <2>1, <2>2, <2>3, <2>5, <2>6, RunStep
<1>. QED BY <1>3, <1>4

\* An item is prepared for all it goes to, found too short, or given up.
LEMMA PrepareStep == ASSUME RssInv, NEW p \in Polls, PrepareItem(p) PROVE RssInv'
<1>1. /\ poll[p] \in Poll /\ poll[p].own \subseteq stored /\ poll[p].list \subseteq AllPairs
      /\ \A q \in Polls \ {p} : poll[p].own \cap poll[q].own = {}
  BY PollTyped
<1>2. /\ poll[p].at = "prepare"
      /\ UNCHANGED <<onFeed, stored, subscribed, feedVars, deliveries, sent, due>>
      /\ InProgress(p) = poll[p].list
      /\ \A d \in poll[p].list : d[2] \in poll[p].own /\ sent[d] = 0
  BY DEF PrepareItem, InProgress, RssInv, PollFits
<1>3. Pairs(p) \subseteq poll[p].list /\ \A d \in Pairs(p) : d[2] = TargetItem(p)
  BY DEF Pairs
<1>4. \A d \in AllPairs : d[2] \notin stored' => sent'[d] = 0
  BY <1>2 DEF RssInv, OwnApart
<1>5. CASE /\ poll' = [poll EXCEPT ![p].at = "send",
                        ![p].to = [u \in Users |-> IF u \in Targeted(p) THEN "wait" ELSE "no"]]
           /\ UNCHANGED <<skipped, forgone>>
  <2> DEFINE to == [u \in Users |-> IF u \in Targeted(p) THEN "wait" ELSE "no"]
             new == [poll[p] EXCEPT !.at = "send", !.to = to]
  <2>1. /\ to \in [Users -> {"no", "wait", "mark", "done"}]
        /\ \A u \in Users : /\ to[u] \in {"no", "wait"}
                            /\ to[u] = "wait" <=> u \in Targeted(p)
    OBVIOUS
  <2> HIDE DEF to
  <2>2. /\ new \in Poll /\ new.list = poll[p].list /\ new.own = poll[p].own /\ new.at = "send"
        /\ new.to = to
    BY <1>1, <2>1 DEF Poll, PollPlaces
  <2>3. poll' = [poll EXCEPT ![p] = new]
    BY <1>5 DEF to
  <2> HIDE DEF new
  <2>4. RssTypes' /\ CountIsTrue' /\ SentOnce' /\ RecordIsTrue' /\ poll'[p] = new
    BY <1>2, <1>5, <2>2, <2>3 DEF RssInv, RssTypes, CountIsTrue, feedVars, SentOnce, RecordIsTrue
  <2>5. Pairs(p)' = Pairs(p) /\ TargetItem(p)' = TargetItem(p)
    BY <2>2, <2>4 DEF Pairs, TargetItem
  <2>6. \A d \in Pairs(p) : d[1] \in Users /\ d[1] \in Targeted(p)
    BY <1>1, <1>3 DEF Targeted, AllPairs
  <2>7. \A u \in Targeted(p) : <<u, TargetItem(p)>> \in Pairs(p)
    <3>1. SUFFICES ASSUME NEW d \in Pairs(p) PROVE <<d[1], TargetItem(p)>> \in Pairs(p)
      BY DEF Targeted
    <3>2. d = <<d[1], d[2]>>
      BY <1>1, <1>3 DEF AllPairs
    <3>. QED BY <3>2, <1>3
  <2>8. PollFits(p)'
    BY <1>1, <1>2, <1>3, <2>1, <2>2, <2>4, <2>5, <2>6, <2>7 DEF PollFits
  <2>9. InProgress(p)' = poll[p].list
    BY <1>3, <2>1, <2>2, <2>4, <2>5, <2>6 DEF InProgress
  <2>. QED BY <1>1, <1>2, <1>4, <1>5, <2>2, <2>3, <2>4, <2>8, <2>9, RunStep
<1>6. CASE Step(p, "mark") /\ skipped' = skipped \cup {TargetItem(p)} /\ UNCHANGED forgone
  <2> DEFINE new == [poll[p] EXCEPT !.at = "mark"]
  <2>1. /\ new \in Poll /\ new.list = poll[p].list /\ new.own = poll[p].own /\ new.at = "mark"
    BY <1>1 DEF Poll, PollPlaces
  <2>2. poll' = [poll EXCEPT ![p] = new]
    BY <1>6 DEF Step
  <2> HIDE DEF new
  <2>3. RssTypes' /\ CountIsTrue' /\ SentOnce' /\ RecordIsTrue' /\ poll'[p] = new
    BY <1>2, <1>6, <2>1, <2>2 DEF RssInv, RssTypes, CountIsTrue, feedVars, SentOnce, RecordIsTrue
  <2>4. TargetItem(p)' = TargetItem(p)
    BY <2>1, <2>3 DEF TargetItem
  <2>5. PollFits(p)' /\ InProgress(p)' = poll[p].list
    BY <1>1, <1>2, <1>6, <2>1, <2>3, <2>4 DEF PollFits, InProgress
  <2>. QED BY <1>1, <1>2, <1>4, <1>6, <2>1, <2>2, <2>3, <2>5, RunStep
<1>7. CASE NextTarget(p) /\ forgone' = forgone \cup Pairs(p) /\ UNCHANGED skipped
  <2>1. RecordIsTrue'
    BY <1>2, <1>7 DEF RssInv, RecordIsTrue
  <2>. QED BY <1>2, <1>7, <2>1, NextStep DEF RssInv, RssTypes
<1>. QED BY <1>5, <1>6, <1>7 DEF PrepareItem

\* An item that was too short is recorded for all it goes to, or given up.
LEMMA MarkSkippedStep == ASSUME RssInv, NEW p \in Polls, MarkSkipped(p) PROVE RssInv'
<1>1. poll[p].list \subseteq AllPairs
  BY PollTyped
<1>2. Pairs(p) \subseteq poll[p].list /\ \A d \in Pairs(p) : d[2] = TargetItem(p)
  BY DEF Pairs
<1>3. TargetItem(p) \in skipped
  BY DEF MarkSkipped, RssInv, PollFits
<1>4. RecordIsTrue' /\ deliveries' \subseteq AllPairs
  BY <1>1, <1>2, <1>3 DEF MarkSkipped, RssInv, RssTypes, RecordIsTrue
<1>. QED BY <1>4, NextStep DEF MarkSkipped

\* When all are done with an item it is recorded or given up for each.
LEMMA ItemSentStep == ASSUME RssInv, NEW p \in Polls, ItemSent(p) PROVE RssInv'
<1>1. poll[p].list \subseteq AllPairs
  BY PollTyped
<1>2. InProgress(p) \cap Pairs(p) = {}
  <2>1. SUFFICES ASSUME NEW d \in Pairs(p) PROVE poll[p].to[d[1]] = "done"
    BY DEF InProgress, ItemSent
  <2>2. d[1] \in Users
    BY <1>1 DEF Pairs, AllPairs
  <2>. QED BY <2>2 DEF ItemSent, RssInv, PollFits
<1>3. RecordIsTrue'
  BY DEF ItemSent, sendVars, RssInv, RecordIsTrue
<1>. QED BY <1>2, <1>3, NextStep DEF ItemSent, sendVars, RssInv, RssTypes

\* A message goes to one user, or is given up; a message that went is recorded, or given up.
LEMMA SendSteps ==
  ASSUME RssInv, NEW p \in Polls, NEW u \in Users, Send(p, u) \/ MarkSent(p, u)
  PROVE  RssInv'
<1> DEFINE d == <<u, TargetItem(p)>>
<1>1. /\ poll[p] \in Poll /\ poll[p].own \subseteq stored /\ poll[p].list \subseteq AllPairs
      /\ \A q \in Polls \ {p} : poll[p].own \cap poll[q].own = {}
  BY PollTyped
<1>2. /\ poll[p].at = "send" /\ poll[p].to[u] \in {"wait", "mark"}
      /\ UNCHANGED <<onFeed, stored, subscribed, feedVars, skipped, due>>
  BY DEF Send, MarkSent
<1>3. d \in Pairs(p) /\ d \in poll[p].list /\ d \in AllPairs /\ d[1] = u /\ d[2] = TargetItem(p)
  BY <1>1, <1>2 DEF RssInv, PollFits, Pairs
<1>4. d[2] \in poll[p].own
  BY <1>3 DEF RssInv, PollFits
<1> HIDE DEF d
<1>5. PICK where \in {"mark", "done"} : poll' = [poll EXCEPT ![p].to[u] = where]
  BY DEF Send, MarkSent
<1> DEFINE new == [poll[p] EXCEPT !.to[u] = where]
<1>6. /\ new \in Poll /\ new.list = poll[p].list /\ new.own = poll[p].own /\ new.at = poll[p].at
      /\ new.to = [poll[p].to EXCEPT ![u] = where]
  BY <1>1 DEF Poll
<1>7. poll' = [poll EXCEPT ![p] = new]
  BY <1>5
<1> HIDE DEF new
<1>8. poll'[p] = new /\ CountIsTrue'
  BY <1>2, <1>6, <1>7 DEF RssInv, RssTypes, CountIsTrue, feedVars
<1>9. Pairs(p)' = Pairs(p) /\ TargetItem(p)' = TargetItem(p)
  BY <1>6, <1>8 DEF Pairs, TargetItem
<1>10. /\ new.to[u] = where /\ \A v \in Users \ {u} : new.to[v] = poll[p].to[v]
  BY <1>1, <1>6 DEF Poll
<1>11. \A e \in Pairs(p) : e \in AllPairs /\ e[1] \in Users /\ (e[1] = u => e = d)
  BY <1>1, <1>3 DEF Pairs, AllPairs, d
<1>12. CASE Send(p, u) /\ poll' = [poll EXCEPT ![p].to[u] = "mark"] /\ Sent(p, u) /\ UNCHANGED forgone
  <2>1. poll[p].to[u] = "wait" /\ sent' = [sent EXCEPT ![d] = @ + 1] /\ UNCHANGED deliveries
    BY <1>12 DEF Send, Sent, d
  <2>2. sent[d] = 0
    BY <2>1, <1>2, <1>3 DEF RssInv, PollFits
  <2>3. sent' \in [AllPairs -> Nat] /\ sent'[d] = 1 /\ \A e \in AllPairs \ {d} : sent'[e] = sent[e]
    BY <2>1, <2>2, <1>3 DEF RssInv, RssTypes
  <2>4. new.to[u] = "mark"
    BY <1>12, <1>1, <1>6, <1>7, <1>8 DEF RssInv, RssTypes, Poll
  <2>5. RssTypes' /\ SentOnce' /\ RecordIsTrue'
    <3>1. RssTypes'
      BY <1>2, <1>6, <1>7, <2>1, <2>3 DEF RssInv, RssTypes, feedVars
    <3>2. SentOnce'
      BY <2>3 DEF RssInv, RssTypes, SentOnce
    <3>3. RecordIsTrue'
      BY <1>2, <2>1, <2>2, <2>3 DEF RssInv, RssTypes, RecordIsTrue
    <3>. QED BY <3>1, <3>2, <3>3
  <2>6. \A e \in poll[p].list : e \notin Pairs(p) => sent'[e] = 0
    BY <1>1, <1>3, <2>3 DEF RssInv, PollFits
  <2>7. \A e \in Pairs(p) : /\ new.to[e[1]] # "no"
                            /\ new.to[e[1]] = "wait" => sent'[e] = 0
                            /\ new.to[e[1]] = "mark" => sent'[e] = 1
    <3>1. SUFFICES ASSUME NEW e \in Pairs(p), e # d
                   PROVE  /\ new.to[e[1]] # "no"
                          /\ new.to[e[1]] = "wait" => sent'[e] = 0
                          /\ new.to[e[1]] = "mark" => sent'[e] = 1
      BY <1>3, <2>3, <2>4
    <3>2. e[1] \in Users \ {u} /\ sent'[e] = sent[e] /\ new.to[e[1]] = poll[p].to[e[1]]
      BY <3>1, <1>10, <1>11, <2>3
    <3>. QED BY <3>2, <1>2 DEF RssInv, PollFits
  <2>8. \A v \in Users : new.to[v] # "no" => <<v, TargetItem(p)>> \in Pairs(p)
    BY <1>2, <1>3, <1>10 DEF RssInv, PollFits, d
  <2>9. PollFits(p)'
    <3>1. PollFits(p) /\ poll[p].list \subseteq AllPairs
      BY <1>1 DEF RssInv
    <3>2. /\ poll'[p].own = poll[p].own /\ poll'[p].list = poll[p].list /\ poll'[p].at = "send"
          /\ poll'[p].to = new.to /\ stored' = stored
      BY <1>1, <1>2, <1>4, <1>6, <1>8
    <3>3. Pairs(p)' = Pairs(p) /\ TargetItem(p)' = TargetItem(p)
      BY <1>9
    <3>. QED BY <2>6, <2>7, <2>8, <3>1, <3>2, <3>3 DEF PollFits
  <2>10. InProgress(p) \subseteq InProgress(p)'
    <3>1. SUFFICES ASSUME NEW e \in InProgress(p)
                   PROVE  ~(e \in Pairs(p) /\ new.to[e[1]] = "done")
      BY <1>2, <1>6, <1>8, <1>9 DEF InProgress
    <3>. QED BY <1>2, <1>10, <1>11, <2>4, SMTT(30) DEF InProgress
  <2>11. \A e \in AllPairs : e[2] \notin stored' => sent'[e] = 0
    BY <1>1, <1>2, <1>4, <2>3 DEF RssInv, OwnApart
  <2>12. \A q \in Polls \ {p} : \A e \in AllPairs : e[2] \in poll[q].own => sent'[e] = sent[e]
    BY <1>1, <1>4, <2>3
  <2>. QED BY <1>1, <1>2, <1>6, <1>7, <1>8, <1>12, <2>1, <2>5, <2>9, <2>10, <2>11, <2>12, RunStep, ZenonT(60)
<1>13. CASE /\ poll' = [poll EXCEPT ![p].to[u] = "done"] /\ UNCHANGED sent
            /\ \/ deliveries' = deliveries \cup {d} /\ poll[p].to[u] = "mark" /\ UNCHANGED forgone
               \/ forgone' = forgone \cup {d} /\ UNCHANGED deliveries
  <2>4. new.to[u] = "done"
    BY <1>13, <1>1, <1>6, <1>7, <1>8 DEF RssInv, RssTypes, Poll
  <2>5. RssTypes' /\ SentOnce' /\ RecordIsTrue'
    <3>1. RssTypes'
      BY <1>2, <1>3, <1>6, <1>7, <1>13 DEF RssInv, RssTypes, feedVars
    <3>2. SentOnce'
      BY <1>13 DEF RssInv, SentOnce
    <3>3. poll[p].to[u] = "mark" => sent[d] = 1
      BY <1>2, <1>3 DEF RssInv, PollFits
    <3>4. RecordIsTrue'
      BY <1>2, <1>13, <3>3 DEF RssInv, RecordIsTrue
    <3>. QED BY <3>1, <3>2, <3>4
  <2>7. \A e \in Pairs(p) : /\ new.to[e[1]] # "no"
                            /\ new.to[e[1]] = "wait" => sent'[e] = 0
                            /\ new.to[e[1]] = "mark" => sent'[e] = 1
    <3>1. SUFFICES ASSUME NEW e \in Pairs(p), e # d
                   PROVE  /\ new.to[e[1]] # "no"
                          /\ new.to[e[1]] = "wait" => sent'[e] = 0
                          /\ new.to[e[1]] = "mark" => sent'[e] = 1
      BY <1>3, <2>4
    <3>2. e[1] \in Users \ {u} /\ sent'[e] = sent[e] /\ new.to[e[1]] = poll[p].to[e[1]]
      BY <3>1, <1>10, <1>11, <1>13
    <3>. QED BY <3>2, <1>2 DEF RssInv, PollFits
  <2>8. \A v \in Users : new.to[v] # "no" => <<v, TargetItem(p)>> \in Pairs(p)
    BY <1>2, <1>3, <1>10 DEF RssInv, PollFits, d
  <2>9. PollFits(p)'
    <3>1. \A e \in poll[p].list : e[2] \in poll[p].own /\ (e \notin Pairs(p) => sent'[e] = 0)
      BY <1>13 DEF RssInv, PollFits
    <3>. QED BY <1>1, <1>2, <1>6, <1>8, <1>9, <2>7, <2>8, <3>1 DEF PollFits
  <2>10. InProgress(p) \subseteq deliveries' \cup forgone' \cup InProgress(p)'
    <3>1. SUFFICES ASSUME NEW e \in InProgress(p), e # d
                   PROVE  ~(e \in Pairs(p) /\ new.to[e[1]] = "done")
      BY <1>2, <1>6, <1>8, <1>9, <1>13 DEF InProgress
    <3>. QED BY <3>1, <1>2, <1>10, <1>11 DEF InProgress
  <2>11. \A e \in AllPairs : e[2] \notin stored' => sent'[e] = 0
    BY <1>2, <1>13 DEF RssInv, OwnApart
  <2>. QED BY <1>1, <1>2, <1>6, <1>7, <1>8, <1>13, <2>5, <2>9, <2>10, <2>11, RunStep
<1>. QED BY <1>12, <1>13 DEF Send, MarkSent, d

\* Every step keeps the invariant.
LEMMA RssInvNext == ASSUME RssInv, [RssNext]_rssVars PROVE RssInv'
<1>1. ASSUME UNCHANGED <<stored, poll, errors, failures, unmodified, overtaken, sendVars>>, etag' = etag,
             onFeed' \in ItemIds, subscribed' \subseteq Users
      PROVE  RssInv'
  <2>1. \A p \in Polls : PollFits(p)' /\ InProgress(p)' = InProgress(p)
    BY <1>1, OtherFits DEF RssInv, sendVars
  <2>2. RssTypes' /\ OwnApart' /\ CountIsTrue' /\ SentOnce' /\ RecordIsTrue'
    BY <1>1 DEF RssInv, RssTypes, OwnApart, CountIsTrue, SentOnce, RecordIsTrue, sendVars
  <2>3. DueIsKept'
    BY <1>1, <2>1 DEF RssInv, DueIsKept, sendVars
  <2>. QED BY <2>1, <2>2, <2>3 DEF RssInv
<1>2. CASE PublishItem
  <2>1. onFeed' \in ItemIds
    BY <1>2, RssAssumption DEF PublishItem, RssInv, RssTypes, ItemIds
  <2>. QED BY <1>1, <1>2, <2>1 DEF PublishItem, feedVars, RssInv, RssTypes
<1>3. ASSUME NEW u \in Users, ChangeSubscription(u) PROVE RssInv'
  <2>1. subscribed' \subseteq Users
    BY <1>3 DEF ChangeSubscription, RssInv, RssTypes
  <2>. QED BY <1>1, <1>3, <2>1 DEF ChangeSubscription, feedVars, RssInv, RssTypes
<1>4. ASSUME NEW p \in Polls, PollDies(p) PROVE RssInv'
  <2>1. InProgress(p) \subseteq poll[p].list /\ RecordIsTrue'
    BY <1>4 DEF InProgress, PollDies, RssInv, RecordIsTrue
  <2>. QED BY <1>4, <2>1, FinishKeeps DEF PollDies, feedVars, RssInv, RssTypes
<1>5. CASE UNCHANGED rssVars
  BY <1>1, <1>5 DEF rssVars, feedVars, RssInv, RssTypes
<1>. QED BY <1>2, <1>3, <1>4, <1>5, FeedSteps, QueryStep, PrepareStep, MarkSkippedStep, ItemSentStep,
            SendSteps DEF RssNext

\* A step that switches the feed off writes the count of the failures.
LEMMA SwitchedOff ==
  ASSUME RssInv, [RssNext]_rssVars, active, ~active', ~overtaken', ~unmodified'
  PROVE  failures' >= MaxFetchErrors
<1>1. PICK p \in Polls : WriteErrors(p)
  BY DEF RssNext, rssVars, feedVars, PublishItem, ChangeSubscription, BeginPoll, Fetch, StoreItems,
         FetchSucceeds, FetchFails, ReadErrors, QueryTargets, PrepareItem, MarkSkipped, ItemSent,
         PollDies, Send, MarkSent
<1>2. poll[p].read = failures /\ failures \in Nat
  BY <1>1 DEF WriteErrors, RssInv, CountIsTrue, RssTypes
<1>3. ~(poll[p].read + 1 < MaxFetchErrors) /\ failures' = failures + 1
  BY <1>1 DEF WriteErrors
<1>. QED BY <1>2, <1>3, RssAssumption

\* However runs of the task overlap, fail or die, a user gets an item once at most, a recorded
\* delivery is true, and nothing that was due is dropped but what a run gave up.
THEOREM DeliverySafe == RssSpec => []DeliveryIsTrue
<1>1. RssInv => DeliveryIsTrue
  BY DEF RssInv, DeliveryIsTrue, DueIsDelivered, DueIsKept, InProgress, PollFits
<1>. QED BY <1>1, RssInvInit, RssInvNext, PTL DEF RssSpec

\* A feed is switched off only after MaxFetchErrors failures in a row, but for counts that overlap
\* and rows that a 304 has ended.
THEOREM OffInTime == RssSpec => OffAfterFailures
<1>1. RssInv /\ [RssNext]_rssVars =>
        [active /\ ~active' /\ ~overtaken' /\ ~unmodified' => failures' >= MaxFetchErrors]_rssVars
  BY SwitchedOff
<1>. QED BY <1>1, RssInvInit, RssInvNext, PTL DEF RssSpec, OffAfterFailures

-----------------------------------------------------------------------------
(* The bookmark import *)

Resting == {"off", "read", "ack", "over"}
Crashed == {"crash flush", "crash status"}
TaskPlaces == Resting \cup Crashed \cup {"claim", "import", "flush", "last flush", "last status"}
JobStatuses == {"none", "pending", "processing", "deleted"} \cup Finished
Tally == [processed : Nat, created : Nat, skipped : Nat, failed : Nat]

\* Every bookmark that was processed was created, skipped or failed.
Adds(c) == c.created + c.skipped + c.failed >= c.processed

ImportTypes ==
  /\ status \in [Jobs -> JobStatuses] /\ passes \in [Jobs -> Nat]
  /\ progress \in [Jobs -> Tally] /\ importer \in [Addresses -> Jobs \cup {NoJob, Unanswered}]
  /\ task \in [Tasks -> [at : TaskPlaces, count : Tally]]

FileLength(t) == Len(Bookmarks(TaskOf(t)))

\* An execution's counters, by its place.
RecordFits(r, all) ==
  /\ Adds(r.count) /\ r.count.processed <= all
  /\ r.at \in {"off", "read", "claim"} => r.count.created = 0 /\ r.count.processed = 0
  /\ r.at \in {"claim", "import"} => r.count.processed < all
  /\ r.at \in {"last flush", "last status"} => r.count.processed = all

TaskFits(t) == RecordFits(task[t], FileLength(t))

\* A job that nobody has claimed has imported nothing.
Unclaimed(j) ==
  passes[j] = 0 =>
    /\ Imported(j) = {} /\ progress[j].created = 0 /\ status[j] # "completed"
    /\ \A t \in Tasks : TaskOf(t) = j =>
         task[t].at \in Resting \cup Crashed \cup {"claim"} /\ (task[t].at \in Crashed => task[t].count.created = 0)

\* A job that has been claimed has one execution at work at most, which counts what was imported.
Claimed(j) ==
  passes[j] > 0 =>
    /\ passes[j] = 1 /\ status[j] \notin {"none", "pending"}
    /\ status[j] \in Finished => progress[j].created = Cardinality(Imported(j))
    /\ status[j] = "completed" => progress[j].processed = Len(Bookmarks(j))
    /\ \A t \in Tasks : TaskOf(t) = j /\ task[t].at \notin Resting =>
         /\ \A u \in Tasks \ {t} : TaskOf(u) = j => task[u].at \in Resting
         /\ task[t].at # "claim" /\ status[j] \in {"processing", "deleted"}
         /\ task[t].count.created = Cardinality(Imported(j))
         /\ task[t].at \in {"last status", "crash status"} /\ status[j] # "deleted" =>
              progress[j] = task[t].count

JobFits(j) ==
  /\ IsFiniteSet(Imported(j)) /\ Adds(progress[j])
  /\ j \notin racedJobs => Unclaimed(j) /\ Claimed(j)

ImportInv ==
  /\ ImportTypes /\ ProcessingHasWorker
  /\ \A t \in Tasks : TaskFits(t)
  /\ \A j \in Jobs : JobFits(j)

\* A file has bookmarks.
LEMMA FileTyped ==
  ASSUME NEW j \in Jobs
  PROVE  /\ Len(Bookmarks(j)) \in Nat \ {0} /\ DOMAIN Bookmarks(j) = 1..Len(Bookmarks(j))
         /\ \A n \in 1..Len(Bookmarks(j)) : Bookmarks(j)[n] \in Addresses
<1> DEFINE S == {Bookmarks(j)[n] : n \in DOMAIN Bookmarks(j)}
<1>1. Bookmarks(j) \in Seq(S) /\ Bookmarks(j) # <<>>
  BY ImportAssumption
<1> HIDE DEF S
<1>2. Len(Bookmarks(j)) \in Nat \ {0} /\ DOMAIN Bookmarks(j) = 1..Len(Bookmarks(j))
  BY <1>1
<1>3. \A n \in DOMAIN Bookmarks(j) : Bookmarks(j)[n] \in Addresses
  BY DEF Addresses
<1>. QED BY <1>2, <1>3

\* Nothing is imported at first.
LEMMA ImportInvInit == ImportInit => ImportInv
<1> SUFFICES ASSUME ImportInit PROVE ImportInv
  OBVIOUS
<1>1. NoProgress \in Tally /\ NoProgress.created = 0 /\ NoProgress.processed = 0 /\ Adds(NoProgress)
  BY DEF NoProgress, Tally, Adds
<1>2. \A t \in Tasks : task[t].at = "off" /\ task[t].count = NoProgress
  BY DEF ImportInit
<1>3. ImportTypes
  BY <1>1 DEF ImportInit, ImportTypes, JobStatuses, TaskPlaces, Resting
<1>4. ASSUME NEW t \in Tasks PROVE TaskFits(t)
  <2>1. FileLength(t) \in Nat \ {0}
    BY FileTyped, ImportAssumption DEF FileLength
  <2>2. Adds(task[t].count) /\ task[t].count.processed = 0 /\ task[t].count.created = 0
    BY <1>1, <1>2
  <2>3. task[t].at = "off"
    BY <1>2
  <2>. QED BY <2>1, <2>2, <2>3 DEF TaskFits, RecordFits
<1>5. ASSUME NEW j \in Jobs PROVE JobFits(j)
  <2>1. Imported(j) = {}
    BY ImportAssumption DEF ImportInit, Imported
  <2>2. status[j] = "none" /\ passes[j] = 0 /\ progress[j] = NoProgress
    BY DEF ImportInit
  <2>. QED BY <1>1, <1>2, <2>1, <2>2, FS_EmptySet DEF JobFits, Unclaimed, Claimed, Resting
<1>6. ProcessingHasWorker
  BY DEF ImportInit, ProcessingHasWorker
<1>. QED BY <1>3, <1>4, <1>5, <1>6 DEF ImportInv

\* A job fits as before when neither it nor its executions have moved.
LEMMA JobRests ==
  ASSUME NEW j \in Jobs, JobFits(j), status'[j] = status[j], passes'[j] = passes[j],
         progress'[j] = progress[j], Imported(j)' = Imported(j), j \in racedJobs' <=> j \in racedJobs,
         \A t \in Tasks : TaskOf(t) = j => task'[t] = task[t]
  PROVE  JobFits(j)'
  BY DEF JobFits, Unclaimed, Claimed

\* An execution keeps what the others count on when it moves alone, or over its own job.
LEMMA MoveStep ==
  ASSUME ImportInv, NEW t \in Tasks, NEW new \in [at : TaskPlaces, count : Tally],
         task' = [task EXCEPT ![t] = new], ImportTypes', TaskFits(t)', JobFits(TaskOf(t))',
         \A j \in Jobs \ {TaskOf(t)} :
            /\ status'[j] = status[j] /\ passes'[j] = passes[j] /\ progress'[j] = progress[j]
            /\ Imported(j)' = Imported(j) /\ (j \in racedJobs' <=> j \in racedJobs),
         abandoned \subseteq abandoned',
         new.at \in Resting =>
            TaskOf(t) \in abandoned' \/ task[t].at \in Resting \/ status'[TaskOf(t)] # "processing",
         status'[TaskOf(t)] = "processing" => status[TaskOf(t)] = "processing" \/ new.at \notin Resting
  PROVE  ImportInv'
<1>1. task'[t] = new /\ \A u \in Tasks \ {t} : task'[u] = task[u]
  BY DEF ImportInv, ImportTypes
<1>2. \A u \in Tasks : TaskFits(u)'
  BY <1>1 DEF ImportInv, TaskFits
<1>3. \A j \in Jobs : JobFits(j)'
  BY <1>1, JobRests DEF ImportInv
<1>4. ProcessingHasWorker'
  <2>1. SUFFICES ASSUME NEW j \in Jobs \ abandoned', status'[j] = "processing"
                 PROVE  \E u \in Tasks : TaskOf(u) = j /\ task'[u].at \notin {"off", "read", "ack", "over"}
    BY DEF ProcessingHasWorker
  <2>2. CASE j # TaskOf(t)
    BY <1>1, <2>1, <2>2 DEF ImportInv, ProcessingHasWorker
  <2>3. CASE j = TaskOf(t) /\ new.at \notin Resting
    BY <1>1, <2>3 DEF Resting
  <2>4. CASE j = TaskOf(t) /\ new.at \in Resting
    <3>1. task[t].at \in Resting /\ status[j] = "processing"
      BY <2>1, <2>4
    <3>. QED BY <1>1, <2>1, <2>4, <3>1 DEF ImportInv, ProcessingHasWorker, Resting
  <2>. QED BY <2>2, <2>3, <2>4
<1>. QED BY <1>2, <1>3, <1>4 DEF ImportInv

\* The endpoint creates a job, and a client deletes one.
LEMMA JobSteps ==
  ASSUME ImportInv, NEW j \in Jobs, CreateJob(j) \/ DeleteJob(j)
  PROVE  ImportInv'
<1>1. PICK s \in {"pending", "deleted"} :
        /\ status' = [status EXCEPT ![j] = s]
        /\ UNCHANGED <<progress, importer, task, passes, racedJobs, abandoned>>
        /\ s = "pending" => status[j] = "none"
        /\ s = "deleted" => status[j] # "none"
  BY DEF CreateJob, DeleteJob
<1>2. status'[j] = s /\ \A k \in Jobs \ {j} : status'[k] = status[k]
  BY <1>1 DEF ImportInv, ImportTypes
<1>3. ImportTypes' /\ \A t \in Tasks : TaskFits(t)'
  BY <1>1 DEF ImportInv, ImportTypes, JobStatuses, TaskFits
<1>4. \A k \in Jobs : Imported(k)' = Imported(k)
  BY <1>1 DEF Imported
<1>5. JobFits(j)'
  <2>1. Unclaimed(j) => Unclaimed(j)'
    BY <1>1, <1>2, <1>4 DEF Unclaimed
  <2>2. Claimed(j) => Claimed(j)'
    BY <1>1, <1>2, <1>4 DEF Claimed, Finished
  <2>. QED BY <1>1, <1>4, <2>1, <2>2 DEF ImportInv, JobFits
<1>6. \A k \in Jobs \ {j} : JobFits(k)'
  BY <1>1, <1>2, <1>4, JobRests DEF ImportInv
<1>7. ProcessingHasWorker'
  BY <1>1, <1>2 DEF ImportInv, ProcessingHasWorker
<1>. QED BY <1>3, <1>5, <1>6, <1>7 DEF ImportInv

\* An execution that goes to another place leaves the jobs as they are.
LEMMA PlaceStep ==
  ASSUME ImportInv, NEW t \in Tasks, NEW where \in TaskPlaces, To(t, where),
         UNCHANGED <<status, progress, importer, passes, racedJobs>>, abandoned \subseteq abandoned',
         \/ where \in Resting /\ (task[t].at \in Resting \/ TaskOf(t) \in abandoned')
              /\ (where = "read" => task[t].at \in {"off", "read"}) /\ where # "off"
         \/ where = "claim" /\ task[t].at = "read" /\ status[TaskOf(t)] = "pending"
  PROVE  ImportInv'
<1> DEFINE new == [task[t] EXCEPT !.at = where]
           j == TaskOf(t)
<1>1. task[t] \in [at : TaskPlaces, count : Tally] /\ j \in Jobs /\ TaskFits(t) /\ JobFits(j)
  BY ImportAssumption DEF ImportInv, ImportTypes
<1>2. new \in [at : TaskPlaces, count : Tally] /\ new.at = where /\ new.count = task[t].count
  BY <1>1
<1>3. task' = [task EXCEPT ![t] = new]
  BY DEF To
<1> HIDE DEF new, j
<1>4. task'[t] = new /\ \A u \in Tasks \ {t} : task'[u] = task[u]
  BY <1>3 DEF ImportInv, ImportTypes
<1>5. ImportTypes'
  BY <1>2, <1>3 DEF ImportInv, ImportTypes
<1>6. TaskFits(t)'
  <2>1. FileLength(t) \in Nat \ {0}
    BY <1>1, FileTyped DEF FileLength, j
  <2>2. RecordFits(task[t], FileLength(t))
    BY <1>1 DEF TaskFits
  <2>3. task[t].count.processed \in Nat
    BY <1>1 DEF Tally
  <2>4. new.at = "claim" \/ new.at = "read" => task[t].at \in {"off", "read"}
    BY <1>2 DEF Resting
  <2>5. new.at \in {"read", "claim", "ack", "over"}
    BY <1>2 DEF Resting
  <2>6. Adds(new.count) /\ new.count.processed <= FileLength(t)
        /\ (new.at \in {"read", "claim"} => new.count.created = 0 /\ new.count.processed = 0)
    BY <1>2, <2>2, <2>4 DEF RecordFits
  <2>7. RecordFits(new, FileLength(t))
    <3>1. CASE new.at \in {"ack", "over"}
      BY <2>6, <3>1 DEF RecordFits
    <3>2. CASE new.at = "read"
      BY <2>1, <2>6, <3>2 DEF RecordFits
    <3>3. CASE new.at = "claim"
      BY <2>1, <2>6, <3>3 DEF RecordFits
    <3>. QED BY <2>5, <3>1, <3>2, <3>3
  <2>. QED BY <1>4, <2>1, <2>7 DEF TaskFits
<1>7. \A k \in Jobs : Imported(k)' = Imported(k)
  BY DEF Imported
<1>8. JobFits(j)'
  <2>1. CASE where \in Resting
    <3>1. Unclaimed(j) => Unclaimed(j)'
      BY <1>1, <1>2, <1>4, <1>7, <2>1 DEF Unclaimed, Resting, Crashed
    <3>2. Claimed(j) => Claimed(j)'
      <4>1. \A u \in Tasks : task'[u].at \notin Resting => u # t /\ task'[u] = task[u]
        BY <1>2, <1>4, <2>1
      <4>2. \A u \in Tasks : task[u].at \in Resting => task'[u].at \in Resting
        BY <1>2, <1>4, <2>1
      <4>. QED BY <1>1, <1>7, <4>1, <4>2 DEF Claimed
    <3>. QED BY <1>1, <1>7, <3>1, <3>2 DEF JobFits
  <2>2. CASE where = "claim" /\ status[j] = "pending"
    BY <1>1, <1>2, <1>4, <1>7, <2>2 DEF JobFits, Unclaimed, Claimed, Resting, Crashed
  <2>. QED BY <2>1, <2>2 DEF j, Resting
<1>. QED BY <1>2, <1>3, <1>5, <1>6, <1>7, <1>8, MoveStep DEF j, Resting

\* What an execution knows of itself and of its job.
LEMMA TaskTyped ==
  ASSUME ImportInv, NEW t \in Tasks
  PROVE  /\ task[t] \in [at : TaskPlaces, count : Tally] /\ TaskOf(t) \in Jobs
         /\ RecordFits(task[t], FileLength(t)) /\ FileLength(t) \in Nat \ {0}
         /\ JobFits(TaskOf(t)) /\ task[t].count.processed \in Nat /\ task[t].count.created \in Nat
         /\ status[TaskOf(t)] \in JobStatuses
<1>1. TaskOf(t) \in Jobs /\ task[t] \in [at : TaskPlaces, count : Tally]
  BY ImportAssumption DEF ImportInv, ImportTypes
<1>. QED BY <1>1, FileTyped DEF ImportInv, ImportTypes, TaskFits, FileLength, Tally

\* The first execution that claims a job is the only one at work on it.
LEMMA ClaimStep == ASSUME ImportInv, NEW t \in Tasks, Claim(t) PROVE ImportInv'
<1> DEFINE new == [task[t] EXCEPT !.at = "import"]
           j == TaskOf(t)
<1>1. /\ task[t] \in [at : TaskPlaces, count : Tally] /\ j \in Jobs
      /\ RecordFits(task[t], FileLength(t)) /\ JobFits(j) /\ task[t].at = "claim"
  BY TaskTyped DEF Claim
<1>2. new \in [at : TaskPlaces, count : Tally] /\ new.at = "import" /\ new.count = task[t].count
  BY <1>1 DEF TaskPlaces
<1>3. /\ task' = [task EXCEPT ![t] = new] /\ UNCHANGED <<progress, importer, acked, abandoned>>
      /\ status' = [status EXCEPT ![j] = IF @ = "deleted" THEN @ ELSE "processing"]
      /\ passes' = [passes EXCEPT ![j] = @ + 1]
      /\ racedJobs' = IF Raced(t) THEN racedJobs \cup {j} ELSE racedJobs
  BY DEF Claim, To, SetStatus
<1> HIDE DEF new, j
<1>4. task'[t] = new /\ \A u \in Tasks \ {t} : task'[u] = task[u]
  BY <1>3 DEF ImportInv, ImportTypes
<1>5. status'[j] \in {"processing", "deleted"} /\ \A k \in Jobs \ {j} : status'[k] = status[k] /\ passes'[k] = passes[k]
  BY <1>1, <1>3 DEF ImportInv, ImportTypes
<1>6. ImportTypes'
  <2>1. passes[j] \in Nat /\ passes[j] + 1 \in Nat /\ status'[j] \in JobStatuses
    BY <1>1, <1>5 DEF ImportInv, ImportTypes, JobStatuses
  <2>2. status' \in [Jobs -> JobStatuses]
    BY <1>1, <1>3, <1>5, <2>1 DEF ImportInv, ImportTypes
  <2>3. passes' \in [Jobs -> Nat]
    BY <1>3, <2>1 DEF ImportInv, ImportTypes
  <2>. QED BY <1>2, <1>3, <2>2, <2>3 DEF ImportInv, ImportTypes
<1>7. TaskFits(t)'
  <2>1. RecordFits(new, FileLength(t))
    BY <1>1, <1>2 DEF RecordFits
  <2>. QED BY <1>4, <2>1 DEF TaskFits
<1>8. \A k \in Jobs : Imported(k)' = Imported(k)
  BY <1>3 DEF Imported
<1>9. JobFits(j)'
  <2>1. IsFiniteSet(Imported(j)') /\ Adds(progress'[j])
    BY <1>1, <1>3, <1>8 DEF JobFits
  <2>2. ASSUME j \notin racedJobs' PROVE Unclaimed(j)' /\ Claimed(j)'
    <3>1. j \notin racedJobs /\ ~Raced(t) /\ Unclaimed(j) /\ Claimed(j)
      BY <2>2, <1>1, <1>3 DEF JobFits
    <3>2. passes[j] = 0
      <4>1. passes[j] \in Nat
        BY <1>1 DEF ImportInv, ImportTypes
      <4>2. TaskOf(t) = j /\ task[t].at = "claim" /\ task[t].at \notin Resting
        BY <1>1 DEF j, Resting
      <4>3. ~(passes[j] > 0)
        BY <3>1, <4>2 DEF Claimed
      <4>. QED BY <4>1, <4>3
    <3>3. passes'[j] = 1
      BY <1>1, <1>3, <3>2 DEF ImportInv, ImportTypes
    <3>4. Imported(j)' = {} /\ Cardinality(Imported(j)') = 0
      BY <1>1, <1>8, <3>1, <3>2, FS_EmptySet DEF Unclaimed
    <3>5. \A u \in Tasks \ {t} : TaskOf(u) = j => task'[u].at \in Resting
      <4>1. SUFFICES ASSUME NEW u \in Tasks \ {t}, TaskOf(u) = j PROVE task[u].at \in Resting
        BY <1>4
      <4>2. task[u].at \in Resting \cup Crashed \cup {"claim"}
        BY <4>1, <3>1, <3>2 DEF Unclaimed
      <4>3. task[u].at \notin {"claim", "crash flush", "crash status"}
        BY <4>1, <3>1 DEF Raced, j
      <4>. QED BY <4>2, <4>3 DEF Crashed
    <3>6. new.count.created = 0
      BY <1>1, <1>2 DEF RecordFits
    <3>7. Claimed(j)'
      <4>1. ASSUME NEW u \in Tasks, TaskOf(u) = j, task'[u].at \notin Resting
            PROVE  u = t /\ task'[u] = new
        BY <4>1, <1>4, <3>5
      <4>2. status'[j] \notin {"none", "pending"} /\ status'[j] \notin Finished /\ status'[j] # "completed"
        BY <1>5 DEF Finished
      <4>. QED BY <1>2, <1>5, <3>3, <3>4, <3>5, <3>6, <4>1, <4>2 DEF Claimed
    <3>. QED BY <3>3, <3>7 DEF Unclaimed
  <2>. QED BY <2>1, <2>2 DEF JobFits
<1>10. \A k \in Jobs \ {j} : k \in racedJobs' <=> k \in racedJobs
  BY <1>3
<1>. QED BY <1>2, <1>3, <1>5, <1>6, <1>7, <1>8, <1>9, <1>10, MoveStep DEF j, Resting

\* A step of an execution at work that goes on with its count, or ends in a crash.
LEMMA WorkStep ==
  ASSUME ImportInv, NEW t \in Tasks, NEW new \in [at : TaskPlaces, count : Tally],
         task' = [task EXCEPT ![t] = new], task[t].at \notin Resting,
         new.at \notin Resting \cup {"claim"}, RecordFits(new, FileLength(t)),
         task[t].at = "claim" \/ task[t].at \in Crashed => new.at \in Crashed,
         UNCHANGED <<status, passes, importer, racedJobs, abandoned>>,
         new.count.created = task[t].count.created,
         \A j \in Jobs \ {TaskOf(t)} : progress'[j] = progress[j],
         progress' \in [Jobs -> Tally],
         progress'[TaskOf(t)] \in {progress[TaskOf(t)], task[t].count},
         new.at \in {"last status", "crash status"} /\ status[TaskOf(t)] # "deleted" =>
           progress'[TaskOf(t)] = new.count
  PROVE  ImportInv'
<1> DEFINE j == TaskOf(t)
<1>1. /\ task[t] \in [at : TaskPlaces, count : Tally] /\ j \in Jobs
      /\ RecordFits(task[t], FileLength(t)) /\ JobFits(j)
  BY TaskTyped
<1>2. task'[t] = new /\ \A u \in Tasks \ {t} : task'[u] = task[u]
  BY DEF ImportInv, ImportTypes
<1>3. ImportTypes'
  BY DEF ImportInv, ImportTypes
<1>4. TaskFits(t)'
  BY <1>2 DEF TaskFits
<1>5. \A k \in Jobs : Imported(k)' = Imported(k)
  BY DEF Imported
<1> HIDE DEF j
<1>6. JobFits(j)'
  <2>1. IsFiniteSet(Imported(j)') /\ Adds(progress'[j])
    BY <1>1, <1>5 DEF JobFits, RecordFits, j
  <2>2. ASSUME j \notin racedJobs PROVE Unclaimed(j)' /\ Claimed(j)'
    <3>1. Unclaimed(j) /\ Claimed(j) /\ TaskOf(t) = j
      BY <2>2, <1>1 DEF JobFits, j
    <3>2. Unclaimed(j)'
      <4>1. SUFFICES ASSUME passes[j] = 0
                     PROVE  /\ Imported(j)' = {} /\ progress'[j].created = 0 /\ status'[j] # "completed"
                            /\ \A u \in Tasks : TaskOf(u) = j =>
                                 task'[u].at \in Resting \cup Crashed \cup {"claim"}
                                 /\ (task'[u].at \in Crashed => task'[u].count.created = 0)
        BY DEF Unclaimed
      <4>2. task[t].at \in Crashed \cup {"claim"} /\ (task[t].at \in Crashed => task[t].count.created = 0)
        BY <3>1, <4>1 DEF Unclaimed
      <4>3. task[t].count.created = 0 /\ new.at \in Crashed
        BY <4>2, <1>1 DEF RecordFits
      <4>4. progress'[j].created = 0
        BY <3>1, <4>1, <4>3 DEF Unclaimed
      <4>5. Imported(j)' = {} /\ status'[j] # "completed"
        BY <1>1, <1>5, <3>1, <4>1 DEF Unclaimed
      <4>6. ASSUME NEW u \in Tasks, TaskOf(u) = j
            PROVE  /\ task'[u].at \in Resting \cup Crashed \cup {"claim"}
                   /\ task'[u].at \in Crashed => task'[u].count.created = 0
        <5>1. CASE u = t
          BY <4>3, <5>1, <1>2
        <5>2. CASE u # t
          BY <3>1, <4>1, <4>6, <5>2, <1>2 DEF Unclaimed
        <5>. QED BY <5>1, <5>2
      <4>. QED BY <4>4, <4>5, <4>6
    <3>3. Claimed(j)'
      <4>1. SUFFICES ASSUME passes[j] > 0
                     PROVE  Claimed(j)'
        BY DEF Claimed
      <4>2. /\ passes[j] = 1 /\ status[j] \in {"processing", "deleted"} /\ task[t].at # "claim"
            /\ \A u \in Tasks \ {t} : TaskOf(u) = j => task[u].at \in Resting
            /\ task[t].count.created = Cardinality(Imported(j))
        BY <3>1, <4>1 DEF Claimed
      <4>3. ASSUME NEW u \in Tasks, TaskOf(u) = j, task'[u].at \notin Resting
            PROVE  u = t /\ task'[u] = new
        BY <4>2, <4>3, <1>2
      <4>4. status[j] \notin {"none", "pending"} /\ status[j] \notin Finished /\ status[j] # "completed"
        BY <4>2 DEF Finished
      <4>5. \A u \in Tasks \ {t} : TaskOf(u) = j => task'[u].at \in Resting
        BY <4>2, <1>2
      <4>6. new.at \in {"last status", "crash status"} /\ status[j] # "deleted" => progress'[j] = new.count
        BY DEF j
      <4>7. new.count.created = Cardinality(Imported(j)') /\ new.at # "claim" /\ passes'[j] = 1
            /\ status'[j] = status[j]
        BY <1>1, <1>5, <4>2
      <4>8. ASSUME NEW u \in Tasks, TaskOf(u) = j /\ task'[u].at \notin Resting
            PROVE  /\ \A w \in Tasks \ {u} : TaskOf(w) = j => task'[w].at \in Resting
                   /\ task'[u].at # "claim" /\ status'[j] \in {"processing", "deleted"}
                   /\ task'[u].count.created = Cardinality(Imported(j)')
                   /\ task'[u].at \in {"last status", "crash status"} /\ status'[j] # "deleted" =>
                        progress'[j] = task'[u].count
        <5>1. u = t /\ task'[u] = new
          BY <4>3, <4>8
        <5>2. \A w \in Tasks \ {u} : TaskOf(w) = j => task'[w].at \in Resting
          BY <4>5, <5>1
        <5>. QED BY <4>2, <4>6, <4>7, <5>1, <5>2
      <4>. QED BY <4>4, <4>7, <4>8 DEF Claimed
    <3>. QED BY <3>2, <3>3
  <2>. QED BY <2>1, <2>2 DEF JobFits
<1>. QED BY <1>3, <1>4, <1>5, <1>6, MoveStep DEF j

\* The counters are flushed, at the intervals, at the end and after a crash.
LEMMA FlushStep == ASSUME ImportInv, NEW t \in Tasks, Flush(t) \/ CrashFlush(t) PROVE ImportInv'
<1> DEFINE where == IF task[t].at = "crash flush" THEN "crash status"
                    ELSE IF task[t].at = "last flush" THEN "last status"
                    ELSE IF task[t].count.processed = FileLength(t) THEN "last flush" ELSE "import"
           new == [task[t] EXCEPT !.at = where]
           j == TaskOf(t)
<1>1. /\ task[t] \in [at : TaskPlaces, count : Tally] /\ j \in Jobs /\ task[t].count \in Tally
      /\ RecordFits(task[t], FileLength(t)) /\ FileLength(t) \in Nat \ {0}
      /\ task[t].count.processed \in Nat
  BY TaskTyped
<1>2. task[t].at \in {"flush", "last flush", "crash flush"}
  BY DEF Flush, CrashFlush
<1>3. where \in TaskPlaces /\ where \in {"crash status", "last status", "last flush", "import"}
  BY DEF TaskPlaces, Crashed
<1>4. new \in [at : TaskPlaces, count : Tally] /\ new.at = where /\ new.count = task[t].count
  BY <1>1, <1>3
<1>5. /\ task' = [task EXCEPT ![t] = new] /\ UNCHANGED <<status, importer, acked, passes, racedJobs, abandoned>>
      /\ progress' = [progress EXCEPT ![j] = IF status[j] = "deleted" THEN @ ELSE task[t].count]
  BY DEF Flush, CrashFlush, To, WriteProgress, FileLength
<1>6. RecordFits(new, FileLength(t))
  <2>1. Adds(new.count) /\ new.count.processed <= FileLength(t)
    BY <1>1, <1>4 DEF RecordFits
  <2>2. where = "last status" => task[t].count.processed = FileLength(t)
    BY <1>1, <1>2 DEF RecordFits
  <2>3. where = "last flush" => task[t].count.processed = FileLength(t)
    BY <1>2
  <2>4. where = "import" => task[t].count.processed < FileLength(t)
    <3>1. CASE task[t].at = "flush"
      BY <1>1, <3>1 DEF RecordFits
    <3>. QED BY <1>2, <3>1
  <2>. HIDE DEF where
  <2>. QED BY <1>3, <1>4, <2>1, <2>2, <2>3, <2>4 DEF RecordFits
<1>7. task[t].at = "crash flush" => where = "crash status"
  OBVIOUS
<1>8. where \in {"last status", "crash status"} => task[t].at \in {"last flush", "crash flush"}
  BY <1>2
<1> HIDE DEF where, new, j
<1>9. progress' \in [Jobs -> Tally] /\ \A k \in Jobs \ {j} : progress'[k] = progress[k]
  BY <1>1, <1>5 DEF ImportInv, ImportTypes
<1>10. progress'[j] = IF status[j] = "deleted" THEN progress[j] ELSE task[t].count
  BY <1>1, <1>5 DEF ImportInv, ImportTypes
<1>11. task[t].at \notin Resting /\ task[t].at # "claim" /\ task[t].at # "crash status"
  BY <1>2 DEF Resting
<1>12. new.at \notin Resting \cup {"claim"}
  BY <1>3, <1>4 DEF Resting
<1>13. task[t].at = "claim" \/ task[t].at \in Crashed => new.at \in Crashed
  BY <1>4, <1>7, <1>11 DEF Crashed
<1>14. new.count.created = task[t].count.created
  BY <1>4
<1>15. progress'[j] \in {progress[j], task[t].count}
       /\ (new.at \in {"last status", "crash status"} /\ status[j] # "deleted" => progress'[j] = new.count)
  BY <1>4, <1>10
<1>. QED
  BY <1>4, <1>5, <1>6, <1>9, <1>11, <1>12, <1>13, <1>14, <1>15, WorkStep DEF j

\* A statement outside the bookmarks raises.
LEMMA CrashStep == ASSUME ImportInv, NEW t \in Tasks, Crash(t) PROVE ImportInv'
<1> DEFINE c == task[t].count
           new == [task[t] EXCEPT !.at = "crash flush", !.count.failed = @ + 1]
<1>1. /\ task[t] \in [at : TaskPlaces, count : Tally] /\ TaskOf(t) \in Jobs
      /\ RecordFits(task[t], FileLength(t))
  BY TaskTyped
<1>2. task[t].at \in {"claim", "flush", "last flush", "last status"}
      /\ UNCHANGED <<status, progress, importer, acked, passes, racedJobs, abandoned>>
  BY DEF Crash
<1>3. c \in Tally /\ c.failed \in Nat /\ c.created \in Nat /\ c.skipped \in Nat /\ c.processed \in Nat
  BY <1>1 DEF Tally
<1>4. [c EXCEPT !.failed = @ + 1] \in Tally
  BY <1>3 DEF Tally
<1>5. new \in [at : TaskPlaces, count : Tally] /\ new.at = "crash flush" /\ new.count = [c EXCEPT !.failed = @ + 1]
  BY <1>1, <1>4 DEF TaskPlaces, Crashed
<1>6. new.count.created = c.created /\ new.count.skipped = c.skipped
      /\ new.count.failed = c.failed + 1 /\ new.count.processed = c.processed
  BY <1>3, <1>5 DEF Tally
<1>7. task' = [task EXCEPT ![t] = new]
  BY DEF Crash
<1>8. Adds(c) /\ c.processed <= FileLength(t)
  BY <1>1 DEF RecordFits
<1> HIDE DEF new, c
<1>9. Adds(new.count) /\ new.count.processed <= FileLength(t)
  BY <1>3, <1>6, <1>8 DEF Adds
<1>10. RecordFits(new, FileLength(t))
  BY <1>5, <1>9 DEF RecordFits
<1>11. new.at \notin Resting \cup {"claim"} /\ new.at \in Crashed /\ task[t].at \notin Resting
  BY <1>2, <1>5 DEF Resting, Crashed
<1>12. progress' \in [Jobs -> Tally]
  BY <1>2 DEF ImportInv, ImportTypes
<1>13. new.at \notin {"last status", "crash status"}
  BY <1>5
<1>. QED BY <1>2, <1>5, <1>6, <1>7, <1>10, <1>11, <1>12, <1>13, WorkStep DEF c

\* The last status of an execution is that of what it has flushed.
LEMMA LastStatusStep ==
  ASSUME ImportInv, NEW t \in Tasks, SetFinalStatus(t) \/ CrashStatus(t)
  PROVE  ImportInv'
<1> DEFINE new == [task[t] EXCEPT !.at = "ack"]
           j == TaskOf(t)
<1>1. /\ task[t] \in [at : TaskPlaces, count : Tally] /\ j \in Jobs /\ task[t].count \in Tally
      /\ RecordFits(task[t], FileLength(t)) /\ JobFits(j) /\ status[j] \in JobStatuses
  BY TaskTyped
<1>2. task[t].at \in {"last status", "crash status"}
  BY DEF SetFinalStatus, CrashStatus
<1>3. PICK s \in Finished :
        /\ status' = [status EXCEPT ![j] = IF @ = "deleted" THEN @ ELSE s]
        /\ task' = [task EXCEPT ![t] = new]
        /\ UNCHANGED <<progress, importer, acked, passes, racedJobs, abandoned>>
        /\ s = "completed" => task[t].at = "last status"
  BY DEF SetFinalStatus, CrashStatus, SetStatus, To, FinalStatus, Finished
<1>4. new \in [at : TaskPlaces, count : Tally] /\ new.at = "ack" /\ new.count = task[t].count
  BY <1>1 DEF TaskPlaces, Resting
<1> HIDE DEF new, j
<1>5. task'[t] = new /\ \A u \in Tasks \ {t} : task'[u] = task[u]
  BY <1>3 DEF ImportInv, ImportTypes
<1>6. status'[j] = (IF status[j] = "deleted" THEN status[j] ELSE s) /\ \A k \in Jobs \ {j} : status'[k] = status[k]
  BY <1>1, <1>3 DEF ImportInv, ImportTypes
<1>7. status'[j] \in Finished \cup {"deleted"} /\ (status'[j] # "deleted" => status'[j] = s /\ status[j] # "deleted")
  BY <1>6
<1>8. ImportTypes'
  <2>1. status' \in [Jobs -> JobStatuses]
    BY <1>1, <1>3, <1>6, <1>7 DEF ImportInv, ImportTypes, JobStatuses
  <2>. QED BY <1>3, <1>4, <2>1 DEF ImportInv, ImportTypes
<1>9. RecordFits(new, FileLength(t))
  BY <1>1, <1>4 DEF RecordFits
<1>10. TaskFits(t)'
  BY <1>5, <1>9 DEF TaskFits
<1>11. \A k \in Jobs : Imported(k)' = Imported(k)
  BY <1>3 DEF Imported
<1>12. task[t].at \notin Resting /\ task[t].at # "claim" /\ TaskOf(t) = j
  BY <1>2 DEF Resting, j
<1>13. new.at \in Resting /\ new.at \notin Crashed
  BY <1>4 DEF Resting, Crashed
<1>14. JobFits(j)'
  <2>1. IsFiniteSet(Imported(j)') /\ Adds(progress'[j])
    BY <1>1, <1>3, <1>11 DEF JobFits
  <2>2. ASSUME j \notin racedJobs PROVE Unclaimed(j)' /\ Claimed(j)'
    <3>1. Unclaimed(j) /\ Claimed(j) /\ passes'[j] = passes[j] /\ progress'[j] = progress[j]
      BY <2>2, <1>1, <1>3 DEF JobFits
    <3>2. Unclaimed(j)'
      <4>1. SUFFICES ASSUME passes[j] = 0 PROVE Unclaimed(j)'
        BY <3>1 DEF Unclaimed
      <4>2. task[t].at \in Resting \cup Crashed \cup {"claim"}
        BY <3>1, <4>1, <1>12 DEF Unclaimed
      <4>3. task[t].at # "last status"
        BY <4>2 DEF Resting, Crashed
      <4>4. status'[j] # "completed"
        BY <4>3, <1>3, <1>7
      <4>5. Imported(j)' = {} /\ progress'[j].created = 0
        BY <1>1, <1>11, <3>1, <4>1 DEF Unclaimed
      <4>6. ASSUME NEW u \in Tasks, TaskOf(u) = j
            PROVE  /\ task'[u].at \in Resting \cup Crashed \cup {"claim"}
                   /\ task'[u].at \in Crashed => task'[u].count.created = 0
        <5>1. CASE u = t
          BY <1>5, <1>13, <5>1
        <5>2. CASE u # t
          BY <3>1, <4>1, <4>6, <5>2, <1>5 DEF Unclaimed
        <5>. QED BY <5>1, <5>2
      <4>. QED BY <4>4, <4>5, <4>6 DEF Unclaimed
    <3>3. Claimed(j)'
      <4>1. SUFFICES ASSUME passes[j] > 0 PROVE Claimed(j)'
        BY <3>1 DEF Claimed
      <4>2. /\ passes[j] = 1 /\ \A u \in Tasks \ {t} : TaskOf(u) = j => task[u].at \in Resting
            /\ task[t].count.created = Cardinality(Imported(j))
            /\ status[j] # "deleted" => progress[j] = task[t].count
        BY <3>1, <4>1, <1>2, <1>12 DEF Claimed
      <4>3. \A u \in Tasks : TaskOf(u) = j => task'[u].at \in Resting
        BY <4>2, <1>5, <1>13
      <4>4. status'[j] \in Finished => progress'[j].created = Cardinality(Imported(j)')
        BY <3>1, <4>2, <1>1, <1>7, <1>11 DEF Finished
      <4>5. status'[j] = "completed" => progress'[j].processed = Len(Bookmarks(j))
        <5>1. SUFFICES ASSUME status'[j] = "completed" PROVE progress'[j].processed = Len(Bookmarks(j))
          OBVIOUS
        <5>2. task[t].at = "last status" /\ status[j] # "deleted"
          BY <5>1, <1>3, <1>7
        <5>3. progress'[j].processed = task[t].count.processed
          BY <3>1, <4>2, <5>2
        <5>4. task[t].count.processed = FileLength(t)
          BY <1>1, <5>2 DEF RecordFits
        <5>. QED BY <5>3, <5>4 DEF FileLength, j
      <4>6. status'[j] \notin {"none", "pending"} /\ passes'[j] = 1
        BY <1>7, <3>1, <4>2 DEF Finished
      <4>. QED BY <4>3, <4>4, <4>5, <4>6 DEF Claimed
    <3>. QED BY <3>2, <3>3
  <2>. QED BY <1>3, <2>1, <2>2 DEF JobFits
<1>15. status'[TaskOf(t)] # "processing"
  BY <1>7 DEF Finished, j
<1>. QED BY <1>3, <1>4, <1>6, <1>8, <1>10, <1>11, <1>14, <1>15, MoveStep DEF j

\* A bookmark's outcome is counted once, with the bookmark.
LEMMA OutcomeCounted ==
  ASSUME NEW c \in Tally, NEW n \in Nat, NEW outcome \in {"created", "skipped", "failed"}
  PROVE  LET sums == [c EXCEPT !.processed = n, ![outcome] = @ + 1]
         IN  /\ sums \in Tally /\ sums.processed = n
             /\ sums.created = (IF outcome = "created" THEN c.created + 1 ELSE c.created)
             /\ sums.created + sums.skipped + sums.failed = c.created + c.skipped + c.failed + 1
<1> DEFINE sums == [c EXCEPT !.processed = n, ![outcome] = @ + 1]
<1>1. c.created \in Nat /\ c.skipped \in Nat /\ c.failed \in Nat
  BY DEF Tally
<1>2. /\ outcome = "created" => sums = [c EXCEPT !.processed = n, !.created = @ + 1]
      /\ outcome = "skipped" => sums = [c EXCEPT !.processed = n, !.skipped = @ + 1]
      /\ outcome = "failed" => sums = [c EXCEPT !.processed = n, !.failed = @ + 1]
  BY Zenon
<1>3. /\ sums \in Tally /\ sums.processed = n
      /\ sums.created = (IF outcome = "created" THEN c.created + 1 ELSE c.created)
      /\ sums.created + sums.skipped + sums.failed = c.created + c.skipped + c.failed + 1
  <2> HIDE DEF sums
  <2>1. CASE outcome = "created"
    <3>1. PICK m \in Nat : m = c.created + 1
      BY <1>1
    <3>2. sums = [c EXCEPT !.processed = n, !.created = m]
      BY <1>2, <2>1, <3>1
    <3>3. sums \in Tally
      BY <3>2 DEF Tally
    <3>4. sums.processed = n /\ sums.created = m /\ sums.skipped = c.skipped /\ sums.failed = c.failed
      BY <3>2 DEF Tally
    <3>. QED BY <1>1, <2>1, <3>1, <3>3, <3>4
  <2>2. CASE outcome = "skipped"
    <3>1. PICK m \in Nat : m = c.skipped + 1
      BY <1>1
    <3>2. sums = [c EXCEPT !.processed = n, !.skipped = m]
      BY <1>2, <2>2, <3>1
    <3>3. sums \in Tally
      BY <3>2 DEF Tally
    <3>4. sums.processed = n /\ sums.skipped = m /\ sums.created = c.created /\ sums.failed = c.failed
      BY <3>2 DEF Tally
    <3>. QED BY <1>1, <2>2, <3>1, <3>3, <3>4
  <2>3. CASE outcome = "failed"
    <3>1. PICK m \in Nat : m = c.failed + 1
      BY <1>1
    <3>2. sums = [c EXCEPT !.processed = n, !.failed = m]
      BY <1>2, <2>3, <3>1
    <3>3. sums \in Tally
      BY <3>2 DEF Tally
    <3>4. sums.processed = n /\ sums.failed = m /\ sums.created = c.created /\ sums.skipped = c.skipped
      BY <3>2 DEF Tally
    <3>. QED BY <1>1, <2>3, <3>1, <3>3, <3>4
  <2>. QED BY <2>1, <2>2, <2>3
<1>. QED BY <1>3, Zenon

\* A bookmark is created for an address nobody has, and counted once.
LEMMA BookmarkStep == ASSUME ImportInv, NEW t \in Tasks, ImportBookmark(t) PROVE ImportInv'
<1> DEFINE j == TaskOf(t)
           c == task[t].count
           n == c.processed + 1
           a == Bookmarks(j)[n]
           last == Len(Bookmarks(j))
<1>1. /\ task[t] \in [at : TaskPlaces, count : Tally] /\ j \in Jobs /\ JobFits(j)
      /\ RecordFits(task[t], last) /\ last \in Nat \ {0} /\ task[t].at = "import"
  BY TaskTyped DEF ImportBookmark, FileLength
<1>2. c \in Tally /\ c.processed \in Nat /\ c.created \in Nat /\ c.skipped \in Nat /\ c.failed \in Nat
  BY <1>1 DEF Tally
<1>3. Adds(c) /\ c.processed < last
  BY <1>1 DEF RecordFits
<1>4. PICK outcome \in Outcomes(a) :
        /\ task' = [task EXCEPT ![t] = [at |-> AfterBookmark(n, last),
                                         count |-> [c EXCEPT !.processed = n, ![outcome] = @ + 1]]]
        /\ \/ outcome = "created" /\ importer' = [importer EXCEPT ![a] = j]
           \/ outcome # "created" /\ UNCHANGED importer
           \/ /\ outcome = "failed" /\ importer[a] = NoJob
              /\ importer' = [importer EXCEPT ![a] = Unanswered]
  BY DEF ImportBookmark
<1>5. UNCHANGED <<status, progress, acked, passes, racedJobs, abandoned>>
  BY DEF ImportBookmark
<1>6. outcome \in {"created", "skipped", "failed"} /\ (outcome = "created" => importer[a] = NoJob)
  BY DEF Outcomes
<1> DEFINE sums == [c EXCEPT !.processed = n, ![outcome] = @ + 1]
           new == [at |-> AfterBookmark(n, last), count |-> sums]
<1>7. n \in 1..last /\ a \in Addresses
  <2>1. n \in 1..last
    BY <1>1, <1>2, <1>3
  <2>. QED BY <2>1, <1>1, FileTyped
<1>8. /\ sums \in Tally /\ sums.processed = n
      /\ sums.created = (IF outcome = "created" THEN c.created + 1 ELSE c.created)
      /\ sums.created + sums.skipped + sums.failed = c.created + c.skipped + c.failed + 1
  <2>1. n \in Nat
    BY <1>2
  <2>. QED BY <1>2, <1>6, <2>1, OutcomeCounted, ZenonT(30)
<1>9. new.at = AfterBookmark(n, last) /\ new.count = sums /\ task' = [task EXCEPT ![t] = new]
  <2>1. new.at = AfterBookmark(n, last) /\ new.count = sums
    OBVIOUS
  <2>2. task' = [task EXCEPT ![t] = new]
    BY <1>4, SMT
  <2>. QED BY <2>1, <2>2
<1>10. /\ new.at \in {"flush", "last flush", "import"}
       /\ (new.at = "last flush" => n = last) /\ (new.at = "import" => n # last)
  BY DEF AfterBookmark
<1>11. new \in [at : TaskPlaces, count : Tally]
  <2>1. AfterBookmark(n, last) \in TaskPlaces
    BY DEF AfterBookmark, TaskPlaces
  <2>. HIDE DEF sums
  <2>. QED BY <1>8, <2>1
<1> HIDE DEF new, sums, n, a, j, last, c
<1>12. RecordFits(new, last)
  <2>1. new.count.processed = n /\ n \in 1..last /\ last \in Nat
    BY <1>1, <1>7, <1>8, <1>9
  <2>5. Adds(new.count) /\ new.count.processed <= last
    <3>1. n = c.processed + 1
      BY DEF n
    <3>2. c.created + c.skipped + c.failed >= c.processed
      BY <1>3 DEF Adds
    <3>3. sums.created + sums.skipped + sums.failed >= sums.processed
      BY <1>2, <1>8, <3>1, <3>2
    <3>. QED BY <1>9, <2>1, <3>3 DEF Adds
  <2>2. new.at = "import" => new.count.processed < last
    BY <1>1, <1>7, <1>8, <1>9, <1>10
  <2>3. new.at \notin {"off", "read", "claim", "last status"}
    BY <1>10
  <2>4. new.at = "last flush" => new.count.processed = last
    BY <1>8, <1>9, <1>10
  <2>. QED BY <2>2, <2>3, <2>4, <2>5 DEF RecordFits
<1>13. task'[t] = new /\ \A u \in Tasks \ {t} : task'[u] = task[u]
  BY <1>9 DEF ImportInv, ImportTypes
<1>14. ImportTypes'
  BY <1>1, <1>4, <1>5, <1>7, <1>9, <1>11 DEF ImportInv, ImportTypes
<1>15. TaskFits(t)'
  BY <1>12, <1>13 DEF TaskFits, FileLength, last, j
<1>16. ASSUME NEW k \in Jobs \ {j} PROVE Imported(k)' = Imported(k)
  BY <1>1, <1>4, <1>6, <1>7, ImportAssumption DEF Imported, ImportInv, ImportTypes
<1>17. IF outcome = "created"
         THEN Imported(j)' = Imported(j) \cup {a} /\ a \notin Imported(j)
         ELSE Imported(j)' = Imported(j)
  BY <1>1, <1>4, <1>6, <1>7, ImportAssumption DEF Imported, ImportInv, ImportTypes
<1>18. IsFiniteSet(Imported(j)) /\ Cardinality(Imported(j)) \in Nat
  BY <1>1, FS_CardinalityType DEF JobFits
<1>19. IsFiniteSet(Imported(j)')
       /\ Cardinality(Imported(j)') = Cardinality(Imported(j)) + (IF outcome = "created" THEN 1 ELSE 0)
  <2>1. CASE outcome = "created"
    BY <1>17, <1>18, <2>1, FS_AddElement
  <2>2. CASE outcome # "created"
    BY <1>17, <1>18, <2>2
  <2>. QED BY <2>1, <2>2
<1>20. new.at \notin Resting \cup {"claim", "last status", "crash status"} /\ task[t].at \notin Resting
       /\ task[t].at \notin Crashed \cup {"claim"} /\ TaskOf(t) = j
  BY <1>1, <1>10 DEF Resting, Crashed, j
<1>21. JobFits(j)'
  <2>1. Adds(progress'[j])
    BY <1>1, <1>5 DEF JobFits
  <2>2. ASSUME j \notin racedJobs PROVE Unclaimed(j)' /\ Claimed(j)'
    <3>1. Unclaimed(j) /\ Claimed(j) /\ passes'[j] = passes[j] /\ progress'[j] = progress[j] /\ status'[j] = status[j]
      BY <2>2, <1>1, <1>5 DEF JobFits
    <3>2. passes[j] # 0
      BY <3>1, <1>20 DEF Unclaimed
    <3>3. passes[j] > 0
      BY <3>2, <1>1 DEF ImportInv, ImportTypes
    <3>4. /\ passes[j] = 1 /\ \A u \in Tasks \ {t} : TaskOf(u) = j => task[u].at \in Resting
          /\ task[t].count.created = Cardinality(Imported(j)) /\ status[j] \in {"processing", "deleted"}
      BY <3>1, <3>3, <1>20 DEF Claimed
    <3>5. new.count.created = Cardinality(Imported(j)')
      BY <1>2, <1>8, <1>9, <1>18, <1>19, <3>4 DEF c
    <3>6. status'[j] \notin Finished /\ status'[j] # "completed" /\ status'[j] \notin {"none", "pending"}
      BY <3>1, <3>4 DEF Finished
    <3>7. \A u \in Tasks \ {t} : TaskOf(u) = j => task'[u].at \in Resting
      BY <3>4, <1>13
    <3>8. ASSUME NEW u \in Tasks, TaskOf(u) = j /\ task'[u].at \notin Resting
          PROVE  /\ \A w \in Tasks \ {u} : TaskOf(w) = j => task'[w].at \in Resting
                 /\ task'[u].at # "claim" /\ status'[j] \in {"processing", "deleted"}
                 /\ task'[u].count.created = Cardinality(Imported(j)')
                 /\ task'[u].at \notin {"last status", "crash status"}
      <4>1. u = t /\ task'[u] = new
        BY <3>7, <3>8, <1>13
      <4>2. \A w \in Tasks \ {u} : TaskOf(w) = j => task'[w].at \in Resting
        BY <3>7, <4>1
      <4>. QED BY <3>1, <3>4, <3>5, <4>1, <4>2, <1>20
    <3>9. passes'[j] = 1
      BY <3>1, <3>4
    <3>10. Claimed(j)'
      BY <3>6, <3>8, <3>9 DEF Claimed
    <3>. QED BY <3>9, <3>10 DEF Unclaimed
  <2>. QED BY <1>5, <1>19, <2>1, <2>2 DEF JobFits
<1>22. abandoned \subseteq abandoned' /\ status'[j] = status[j]
       /\ \A k \in Jobs : status'[k] = status[k] /\ passes'[k] = passes[k] /\ progress'[k] = progress[k]
       /\ (k \in racedJobs' <=> k \in racedJobs)
  BY <1>5
<1>. QED BY <1>9, <1>11, <1>14, <1>15, <1>16, <1>20, <1>21, <1>22, MoveStep DEF j

\* Every step of the import keeps the invariant.
LEMMA ImportInvNext == ImportInv /\ [ImportNext]_importVars => ImportInv'
<1> SUFFICES ASSUME ImportInv, [ImportNext]_importVars PROVE ImportInv'
  OBVIOUS
<1>1. CASE UNCHANGED importVars
  <2>1. UNCHANGED <<status, progress, importer, task, passes, racedJobs, abandoned>>
    BY <1>1 DEF importVars
  <2>2. \A j \in Jobs : Imported(j)' = Imported(j)
    BY <2>1 DEF Imported
  <2>3. \A j \in Jobs : JobFits(j)'
    BY <2>1, <2>2, JobRests DEF ImportInv
  <2>4. \A t \in Tasks : TaskFits(t)'
    BY <2>1 DEF ImportInv, TaskFits
  <2>. QED BY <2>1, <2>3, <2>4 DEF ImportInv, ImportTypes, ProcessingHasWorker
<1>2. ASSUME NEW t \in Tasks, DeliverJob(t) \/ Acknowledge(t) PROVE ImportInv'
  <2>1. PICK where \in {"read", "over"} :
          /\ To(t, where) /\ UNCHANGED <<status, progress, importer, passes, racedJobs, abandoned>>
          /\ task[t].at \in {"off", "ack"} /\ (where = "read" => task[t].at = "off")
    BY <1>2 DEF DeliverJob, Acknowledge
  <2>. QED BY <2>1, PlaceStep DEF Resting, TaskPlaces
<1>3. ASSUME NEW t \in Tasks, ReadJob(t) PROVE ImportInv'
  BY <1>3, PlaceStep DEF ReadJob, Passes, Resting, TaskPlaces
<1>4. ASSUME NEW t \in Tasks, TaskFails(t) \/ WorkerDies(t) PROVE ImportInv'
  <2>1. PICK where \in {"ack", "over"} :
          /\ To(t, where) /\ UNCHANGED <<status, progress, importer, passes, racedJobs>>
          /\ abandoned' = abandoned \cup {TaskOf(t)}
    BY <1>4 DEF TaskFails, WorkerDies
  <2>. QED BY <2>1, PlaceStep DEF Resting, TaskPlaces
<1>. QED
  BY <1>1, <1>2, <1>3, <1>4, JobSteps, ClaimStep, BookmarkStep, FlushStep, CrashStep, LastStatusStep
     DEF ImportNext, AllImported

\* A message delivered again does not run the job again, a finished job's counters are
\* those of what it has created, and a job at work has a worker (JobIsTrue).
THEOREM JobTrue == ImportSpec => []JobIsTrue
<1>1. ImportInv => JobIsTrue
  <2> SUFFICES ASSUME ImportInv PROVE JobIsTrue
    OBVIOUS
  <2>1. ASSUME NEW j \in Jobs \ racedJobs
        PROVE  /\ JobFits(j) /\ Unclaimed(j) /\ Claimed(j) /\ passes[j] \in Nat
               /\ progress[j] \in Tally
    BY DEF ImportInv, JobFits, ImportTypes
  <2>2. OnePassPerJob
    <3>1. ASSUME NEW j \in Jobs \ racedJobs PROVE passes[j] <= 1
      <4>1. passes[j] \in Nat /\ (passes[j] > 0 => passes[j] = 1)
        BY <2>1 DEF Claimed
      <4>. QED BY <4>1
    <3>. QED BY <3>1 DEF OnePassPerJob
  <2>3. ProgressIsTrue
    <3>1. SUFFICES ASSUME NEW j \in Jobs \ racedJobs, status[j] \in Finished
                   PROVE  /\ progress[j].created = Cardinality(Imported(j)) /\ Adds(progress[j])
                          /\ status[j] = "completed" => progress[j].processed = Len(Bookmarks(j))
      BY DEF ProgressIsTrue, Adds
    <3>2. Adds(progress[j])
      BY <2>1 DEF JobFits
    <3>3. CASE passes[j] = 0
      BY <2>1, <3>2, <3>3, FS_EmptySet DEF Unclaimed
    <3>4. CASE passes[j] > 0
      BY <2>1, <3>1, <3>2, <3>4 DEF Claimed
    <3>. QED BY <2>1, <3>3, <3>4
  <2>. QED BY <2>2, <2>3 DEF JobIsTrue, ImportInv
<1>. QED BY ImportInvInit, ImportInvNext, <1>1, PTL DEF ImportSpec

-----------------------------------------------------------------------------
(* Collaborators and invitations of a collection *)

Call == [does : {"nothing", "add", "remove", "accept"},
         step : {"new", "write", "count", "commit", "done"}, who : People \cup {Owner},
         by : Invitations \cup {0}, adds : SUBSET People, drops : SUBSET People, count : Nat]

SharingTypes == sharing \in [Sharings -> Call] /\ collaborators \subseteq People

\* The owner is never a row, an acceptance has an invitation, and one that is used up while the
\* call still holds it has been accepted by two calls.
CallFits(r) ==
  /\ r.who = Owner => r.adds = {} /\ r.drops = {} /\ r.step \notin {"write", "count"}
  /\ r.does = "accept" <=> r.by # 0
  /\ r.by # 0 /\ r.by \in spent => r.by \in shared

\* What a call has counted is what its commit makes of the rows, unless another committed.
CountFits(s) ==
  sharing[s].step = "commit" /\ sharing[s].who # Owner /\ s \notin stale =>
    sharing[s].count = Cardinality(WithOwn(s))

Joins(p, i) == <<p, i>> \in joined

InvitationFits(i) ==
  /\ i \notin shared => \A p, q \in People \cup {Owner} : Joins(p, i) /\ Joins(q, i) => p = q
  /\ i \in spent <=> \E p \in People \cup {Owner} : Joins(p, i)

SharingInv ==
  /\ SharingTypes /\ ShareCountMends
  /\ \A s \in Sharings : CallFits(sharing[s]) /\ CountFits(s)
  /\ \A i \in Invitations : InvitationFits(i)

\* The record of a call that has not begun, or is over.
LEMMA NoCallFits ==
  /\ NoCall \in Call /\ NoCall.who = Owner /\ NoCall.by = 0 /\ NoCall.step = "new"
  /\ NoCall.adds = {} /\ NoCall.drops = {} /\ NoCall.does = "nothing"
  BY DEF NoCall, Call

\* Nobody shares a new collection.
LEMMA SharingInvInit == SharingInit => SharingInv
<1> SUFFICES ASSUME SharingInit PROVE SharingInv
  OBVIOUS
<1>1. \A s \in Sharings : sharing[s] = NoCall
  BY DEF SharingInit
<1>2. SharingTypes
  BY NoCallFits DEF SharingInit, SharingTypes
<1>3. ShareCountMends
  BY FS_EmptySet DEF SharingInit, ShareCountMends
<1>4. \A s \in Sharings : CallFits(sharing[s]) /\ CountFits(s)
  BY <1>1, NoCallFits DEF CallFits, CountFits
<1>5. \A i \in Invitations : InvitationFits(i)
  BY DEF SharingInit, InvitationFits, Joins
<1>. QED BY <1>2, <1>3, <1>4, <1>5 DEF SharingInv

\* A call that does not commit leaves what is committed as it is.
LEMMA CallStep ==
  ASSUME SharingInv, NEW s \in Sharings, NEW r \in Call, sharing' = [sharing EXCEPT ![s] = r],
         CallFits(r), UNCHANGED <<collaborators, shareCount, spent, joined, miscounted, shared, stale>>,
         r.step = "commit" /\ r.who # Owner =>
           r.count = Cardinality((collaborators \cup r.adds) \ r.drops)
  PROVE  SharingInv'
<1>1. sharing'[s] = r /\ \A t \in Sharings \ {s} : sharing'[t] = sharing[t]
  BY DEF SharingInv, SharingTypes
<1>2. SharingTypes' /\ ShareCountMends'
  BY DEF SharingInv, SharingTypes, ShareCountMends
<1>3. \A i \in Invitations : InvitationFits(i)'
  BY DEF SharingInv, InvitationFits, Joins
<1>4. ASSUME NEW t \in Sharings PROVE CallFits(sharing[t])' /\ CountFits(t)'
  <2>1. CASE t = s
    BY <1>1, <2>1 DEF CallFits, CountFits, WithOwn
  <2>2. CASE t # s
    BY <1>1, <2>2 DEF SharingInv, CallFits, CountFits, WithOwn
  <2>. QED BY <2>1, <2>2
<1>. QED BY <1>2, <1>3, <1>4 DEF SharingInv

\* A call begins on a collection and an invitation that it finds good.
LEMMA BeginStep == ASSUME SharingInv, NEW s \in Sharings, Begins(s) PROVE SharingInv'
<1>1. UNCHANGED <<collaborators, shareCount, spent, joined, miscounted, shared, stale>>
  BY DEF Begins, SharesAsBefore
<1>2. CASE ReturnsAtOnce(s)
  <2> DEFINE r == [NoCall EXCEPT !.step = "done"]
  <2>1. r \in Call /\ r.step = "done" /\ CallFits(r)
    BY NoCallFits DEF Call, CallFits
  <2>2. sharing' = [sharing EXCEPT ![s] = r]
    BY <1>2 DEF ReturnsAtOnce
  <2> HIDE DEF r
  <2>. QED BY <1>1, <2>1, <2>2, CallStep
<1>3. ASSUME NEW does \in {"add", "remove", "accept"}, NEW who \in People \cup {Owner},
             NEW by \in Invitations \cup {0}, does = "accept" <=> by # 0, by \notin spent,
             sharing' = [sharing EXCEPT ![s] = [NoCall EXCEPT !.does = does, !.who = who, !.by = by,
                                                    !.step = IF who = Owner THEN "commit" ELSE "write"]]
      PROVE  SharingInv'
  <2> DEFINE r == [NoCall EXCEPT !.does = does, !.who = who, !.by = by,
                                 !.step = IF who = Owner THEN "commit" ELSE "write"]
  <2>1. /\ r \in Call /\ r.does = does /\ r.who = who /\ r.by = by /\ r.adds = {} /\ r.drops = {}
        /\ r.step = IF who = Owner THEN "commit" ELSE "write"
    BY NoCallFits DEF Call
  <2>2. sharing' = [sharing EXCEPT ![s] = r]
    BY <1>3
  <2> HIDE DEF r
  <2>3. CallFits(r) /\ ~(r.step = "commit" /\ r.who # Owner)
    BY <2>1, <1>3 DEF CallFits
  <2>. QED BY <1>1, <2>1, <2>2, <2>3, CallStep
<1>. QED BY <1>2, <1>3 DEF Begins

\* A call writes its row, then counts the rows with its own.
LEMMA WorkSteps == ASSUME SharingInv, NEW s \in Sharings, WritesRow(s) \/ Counts(s) PROVE SharingInv'
<1>1. /\ UNCHANGED <<collaborators, shareCount, spent, joined, miscounted, shared, stale>>
      /\ sharing[s] \in Call /\ CallFits(sharing[s]) /\ sharing[s].step \in {"write", "count"}
      /\ sharing[s].who \in People /\ sharing[s].who # Owner
  <2>1. sharing[s] \in Call /\ CallFits(sharing[s]) /\ sharing[s].step \in {"write", "count"}
    BY DEF WritesRow, Counts, SharingInv, SharingTypes
  <2>2. sharing[s].who # Owner
    BY <2>1 DEF CallFits
  <2>. QED BY <2>1, <2>2 DEF WritesRow, Counts, SharesAsBefore, Call
<1>2. ASSUME NEW adds \in SUBSET People, NEW drops \in SUBSET People,
             sharing' = [sharing EXCEPT ![s] = [sharing[s] EXCEPT !.step = "count", !.adds = adds, !.drops = drops]]
      PROVE  SharingInv'
  <2> DEFINE r == [sharing[s] EXCEPT !.step = "count", !.adds = adds, !.drops = drops]
  <2>1. r \in Call /\ r.step = "count" /\ r.who = sharing[s].who /\ r.by = sharing[s].by /\ r.does = sharing[s].does
    BY <1>1 DEF Call
  <2>2. sharing' = [sharing EXCEPT ![s] = r]
    BY <1>2
  <2> HIDE DEF r
  <2>3. CallFits(r)
    BY <1>1, <2>1 DEF CallFits
  <2>. QED BY <1>1, <2>1, <2>2, <2>3, CallStep
<1>3. CASE WritesRow(s)
  <2>1. CASE sharing' = [sharing EXCEPT ![s].step = "count",
                                        ![s].drops = {sharing[s].who} \cap collaborators]
    <3>1. sharing' = [sharing EXCEPT ![s] = [sharing[s] EXCEPT !.step = "count", !.adds = sharing[s].adds,
                                              !.drops = {sharing[s].who} \cap collaborators]]
      BY <1>1, <2>1 DEF Call
    <3>2. {sharing[s].who} \cap collaborators \in SUBSET People /\ sharing[s].adds \in SUBSET People
      BY <1>1 DEF Call
    <3>. QED BY <1>2, <3>1, <3>2
  <2>2. CASE sharing' = [sharing EXCEPT ![s].step = "count", ![s].adds = {sharing[s].who}]
    <3>1. sharing' = [sharing EXCEPT ![s] = [sharing[s] EXCEPT !.step = "count", !.adds = {sharing[s].who},
                                              !.drops = sharing[s].drops]]
      BY <1>1, <2>2 DEF Call
    <3>2. {sharing[s].who} \in SUBSET People /\ sharing[s].drops \in SUBSET People
      BY <1>1 DEF Call
    <3>. QED BY <1>2, <3>1, <3>2
  <2>. QED BY <1>3, <2>1, <2>2 DEF WritesRow
<1>4. CASE Counts(s)
  <2> DEFINE r == [sharing[s] EXCEPT !.step = "commit", !.count = Cardinality(WithOwn(s))]
  <2>1. Cardinality(WithOwn(s)) \in Nat
    <3>1. WithOwn(s) \subseteq People
      BY <1>1 DEF WithOwn, Call, SharingInv, SharingTypes
    <3>2. IsFiniteSet(WithOwn(s))
      BY <3>1, SharingAssumption, FS_Subset
    <3>. QED BY <3>2, FS_CardinalityType
  <2>2. /\ r \in Call /\ r.step = "commit" /\ r.who = sharing[s].who /\ r.by = sharing[s].by
        /\ r.does = sharing[s].does /\ r.adds = sharing[s].adds /\ r.drops = sharing[s].drops
        /\ r.count = Cardinality(WithOwn(s))
    BY <1>1, <2>1 DEF Call
  <2>3. sharing' = [sharing EXCEPT ![s] = r]
    BY <1>4 DEF Counts, Seen
  <2> HIDE DEF r
  <2>4. CallFits(r)
    BY <1>1, <2>2 DEF CallFits
  <2>5. r.count = Cardinality((collaborators \cup r.adds) \ r.drops)
    BY <2>2 DEF WithOwn
  <2>. QED BY <1>1, <2>2, <2>3, <2>4, <2>5, CallStep
<1>. QED BY <1>3, <1>4

\* A commit makes the calls that have counted stale, and its invitation spent.
LEMMA CommitStep == ASSUME SharingInv, NEW s \in Sharings, Commits(s) PROVE SharingInv'
<1>1. /\ sharing[s] \in Call /\ CallFits(sharing[s]) /\ CountFits(s) /\ sharing[s].step = "commit"
  BY DEF Commits, SharingInv, SharingTypes
<1> DEFINE r == [NoCall EXCEPT !.step = "done"]
<1>2. r \in Call /\ r.step = "done" /\ r.who = Owner /\ r.by = 0 /\ r.adds = {} /\ r.drops = {} /\ r.does = "nothing"
  BY NoCallFits DEF Call
<1>3. sharing' = [sharing EXCEPT ![s] = r]
  BY DEF Commits, ReturnsAtOnce
<1> HIDE DEF r
<1>4. sharing'[s] = r /\ \A t \in Sharings \ {s} : sharing'[t] = sharing[t]
  BY <1>3 DEF SharingInv, SharingTypes
<1>5. SharingTypes'
  <2>1. WithOwn(s) \subseteq People
    BY <1>1 DEF WithOwn, Call, SharingInv, SharingTypes
  <2>. QED BY <1>2, <1>3, <2>1 DEF Commits, SharingInv, SharingTypes
<1>6. ShareCountMends'
  <2>1. CASE sharing[s].who = Owner
    <3>1. WithOwn(s) = collaborators
      BY <2>1, <1>1 DEF CallFits, WithOwn
    <3>. QED BY <2>1, <3>1 DEF Commits, SharingInv, ShareCountMends
  <2>2. CASE sharing[s].who # Owner
    BY <2>2, <1>1 DEF Commits, CountFits, ShareCountMends
  <2>. QED BY <2>1, <2>2
<1>7. stale' = {t \in Sharings \ {s} : sharing[t].step = "commit"}
      /\ spent' = spent \cup ({sharing[s].by} \ {0})
      /\ shared' = shared \cup {i \in {sharing[s].by} \ {0} : \E t \in Sharings \ {s} : sharing[t].by = i}
  BY DEF Commits
<1>8. ASSUME NEW t \in Sharings PROVE CallFits(sharing[t])' /\ CountFits(t)'
  <2>1. CASE t = s
    BY <2>1, <1>2, <1>4 DEF CallFits, CountFits
  <2>2. CASE t # s
    <3>1. CountFits(t)'
      BY <2>2, <1>4, <1>7 DEF CountFits
    <3>2. CallFits(sharing[t])
      BY DEF SharingInv
    <3>3. CallFits(sharing[t])'
      BY <2>2, <1>4, <1>7, <3>2 DEF CallFits
    <3>. QED BY <3>1, <3>3
  <2>. QED BY <2>1, <2>2
<1>9. ASSUME NEW i \in Invitations PROVE InvitationFits(i)'
  <2>1. i # 0 /\ InvitationFits(i)
    BY SharingAssumption DEF SharingInv
  <2>2. CASE sharing[s].by # i
    <3>1. \A p : Joins(p, i)' <=> Joins(p, i)
      BY <2>2 DEF Commits, Joins
    <3>2. (i \in spent' <=> i \in spent) /\ shared \subseteq shared'
      BY <2>2, <1>7
    <3>. QED BY <2>1, <3>1, <3>2 DEF InvitationFits
  <2>3. CASE sharing[s].by = i
    <3>1. sharing[s].does = "accept" /\ sharing[s].who \in People \cup {Owner}
      BY <2>1, <2>3, <1>1 DEF CallFits, Call
    <3>2. joined' = joined \cup {<<sharing[s].who, i>>} /\ i \in spent'
      BY <2>1, <2>3, <3>1, <1>7 DEF Commits
    <3>3. \A p : Joins(p, i)' <=> Joins(p, i) \/ p = sharing[s].who
      BY <3>2 DEF Joins
    <3>4. i \notin shared' => i \notin spent
      BY <2>1, <2>3, <1>1, <1>7 DEF CallFits
    <3>. QED BY <2>1, <3>1, <3>2, <3>3, <3>4 DEF InvitationFits
  <2>. QED BY <2>2, <2>3
<1>. QED BY <1>5, <1>6, <1>8, <1>9 DEF SharingInv

\* Every step keeps the invariant.
LEMMA SharingInvNext == ASSUME SharingInv, [SharingNext]_sharingVars PROVE SharingInv'
<1>1. ASSUME UNCHANGED <<collaborators, shareCount, spent, sharing, joined, stale, miscounted, shared>>
      PROVE  SharingInv'
  BY <1>1 DEF SharingInv, SharingTypes, ShareCountMends, CallFits, CountFits, WithOwn, InvitationFits, Joins
<1>. QED BY <1>1, BeginStep, WorkSteps, CommitStep
         DEF SharingNext, CollectionDeleted, SharingAtRest, sharingVars

\* The count that is shown is that of the collaborators unless a stale one was written last, and
\* an invitation lets in one user unless two calls had read it.
THEOREM SharingSafe == SharingSpec => []SharingIsTrue
<1>1. SharingInv => SharingIsTrue
  <2>1. SUFFICES ASSUME SharingInv, NEW i \in Invitations
                 PROVE  /\ Cardinality({p \in People \cup {Owner} : <<p, i>> \in joined}) > 1 => i \in shared
                        /\ i \in spent <=> \E p \in People \cup {Owner} : <<p, i>> \in joined
    BY DEF SharingInv, SharingIsTrue, InvitationsAreSpent
  <2> DEFINE S == {p \in People \cup {Owner} : <<p, i>> \in joined}
  <2>2. InvitationFits(i)
    BY <2>1 DEF SharingInv
  <2>3. ASSUME i \notin shared PROVE Cardinality(S) \in {0, 1}
    <3>1. CASE S = {}
      BY <3>1, FS_EmptySet
    <3>2. CASE S # {}
      <4>1. PICK p : p \in S
        BY <3>2
      <4>2. S = {p}
        BY <4>1, <2>2, <2>3 DEF InvitationFits, Joins
      <4>. QED BY <4>2, FS_Singleton
    <3>. QED BY <3>1, <3>2
  <2>. QED BY <2>2, <2>3 DEF InvitationFits, Joins
<1>. QED BY <1>1, SharingInvInit, SharingInvNext, PTL DEF SharingSpec

-----------------------------------------------------------------------------
(* Digests of channels *)

Handled == {"analyze", "filter", "record"}

DigestRun == [stage : {"new", "list", "fetch", "analyze", "filter", "record", "release", "delete", "done"},
              locked : BOOLEAN, seen : [Channels -> Nat], wanted : SUBSET Channels,
              asks : SUBSET Channels, keeps : SUBSET Channels, ads : SUBSET Channels,
              overlapped : BOOLEAN]

RowsTyped == channelErrors \in [Channels -> Nat] /\ listened \subseteq Channels

DigestTypes == run \in [Digests -> DigestRun] /\ copies \in [Channels -> Nat] /\ RowsTyped

\* The posts a digest may still send.
Posts(r) == IF r.stage = "analyze" THEN r.wanted ELSE r.asks \cup r.keeps

\* What a digest has found to be an ad it does not keep, and it asks about a post once; before
\* it looks up the analyses it keeps nothing.
AdsApart(r) ==
  /\ r.stage # "filter" => r.ads = {}
  /\ r.stage \in {"new", "list", "fetch", "analyze"} => r.keeps = {}
  /\ r.asks \cap (r.keeps \cup r.ads) = {} /\ r.ads \cap r.keeps = {}

\* Two digests that handle posts at the same time both know it.
OverlapsKnown ==
  \A d, e \in Digests :
    d # e /\ run[d].stage \in Handled /\ run[e].stage \in Handled => run[d].overlapped

\* What a digest alone is about to send has not been sent, unless it went unrecorded.
StillUnsent ==
  \A d \in Digests :
    run[d].stage \in {"analyze", "filter"} /\ ~run[d].overlapped =>
      \A c \in Posts(run[d]) : c \in unrecorded \cup together \/ copies[c] = 0

\* What was sent once is recorded, or is being recorded.
SentOnceKept ==
  \A c \in Channels :
    \/ c \in unrecorded \cup together
    \/ copies[c] = 0
    \/ /\ copies[c] = 1
       /\ \/ MessageId[c] \in delivered
          \/ \E d \in Digests : run[d].stage = "record" /\ c \in run[d].keeps

\* A task is between taking its key and giving it back.
InTask(r) == r.stage = "delete" \/ (r.locked /\ r.stage \notin {"new", "done"})

KeyIsHeld == keyExpired \/ \A d \in Digests : InTask(run[d]) => keyHolder = d

DigestInv ==
  /\ DigestTypes /\ OverlapsKnown /\ StillUnsent /\ SentOnceKept /\ KeyIsHeld
  /\ OwnAdsAreLeftOut /\ FailingIsOff /\ \A d \in Digests : AdsApart(run[d])

\* The record of a digest that has not begun, or is over.
LEMMA NotRunTyped ==
  /\ NotRun \in DigestRun /\ NotRun.keeps = {} /\ NotRun.asks = {} /\ NotRun.ads = {}
  /\ NotRun.stage = "new" /\ ~NotRun.locked /\ ~NotRun.overlapped
  BY DEF NotRun, DigestRun

\* Before the first digest nothing is sent.
LEMMA DigestInvInit == DigestInit => DigestInv
<1> SUFFICES ASSUME DigestInit PROVE DigestInv
  OBVIOUS
<1>1. \A d \in Digests : run[d] = NotRun
  BY DEF DigestInit
<1>2. DigestTypes
  <2>1. RowsTyped
    <3>1. channelErrors \in [Channels -> 0..MaxChannelErrors - 1] /\ MaxChannelErrors \in Nat
      BY DigestAssumption DEF DigestInit
    <3>. QED BY <3>1 DEF DigestInit, RowsTyped
  <2>2. run \in [Digests -> DigestRun]
    <3>1. run = [d \in Digests |-> NotRun]
      BY DEF DigestInit
    <3>. QED BY <3>1, NotRunTyped
  <2>3. copies \in [Channels -> Nat]
    BY DEF DigestInit
  <2>. QED BY <2>1, <2>2, <2>3 DEF DigestTypes
<1>3. OverlapsKnown /\ StillUnsent /\ SentOnceKept /\ KeyIsHeld
  BY <1>1, NotRunTyped DEF DigestInit, OverlapsKnown, StillUnsent, SentOnceKept, KeyIsHeld, Handled, InTask
<1>4. OwnAdsAreLeftOut /\ \A d \in Digests : AdsApart(run[d])
  BY <1>1, NotRunTyped DEF DigestInit, OwnAdsAreLeftOut, AdsApart
<1>5. FailingIsOff
  BY DigestAssumption DEF DigestInit, FailingIsOff
<1>. QED BY <1>2, <1>3, <1>4, <1>5 DEF DigestInv

\* A step of one digest that neither begins to handle posts nor sends any.
LEMMA DigestStep ==
  ASSUME DigestInv, NEW d \in Digests, NEW r \in DigestRun, run' = [run EXCEPT ![d] = r],
         r.stage \in Handled => run[d].stage \in Handled /\ (r.overlapped <=> run[d].overlapped),
         r.stage \in {"analyze", "filter"} =>
            run[d].stage \in {"analyze", "filter"} /\ Posts(r) \subseteq Posts(run[d]),
         run[d].stage = "record" =>
            \A c \in run[d].keeps : c \in unrecorded' \/ MessageId[c] \in delivered',
         AdsApart(r), KeyIsHeld', FailingIsOff', RowsTyped',
         copies' = copies, together' = together, adsShown' = adsShown,
         unrecorded \subseteq unrecorded', delivered \subseteq delivered'
  PROVE  DigestInv'
<1>1. run'[d] = r /\ \A e \in Digests \ {d} : run'[e] = run[e]
  BY DEF DigestInv, DigestTypes
<1>2. DigestTypes'
  BY DEF DigestInv, DigestTypes
<1>3. OverlapsKnown'
  BY <1>1 DEF DigestInv, OverlapsKnown
<1>4. StillUnsent'
  <2>1. SUFFICES ASSUME NEW e \in Digests, run'[e].stage \in {"analyze", "filter"}, ~run'[e].overlapped,
                        NEW c \in Posts(run'[e])
                 PROVE  c \in unrecorded' \cup together' \/ copies'[c] = 0
    BY DEF StillUnsent
  <2>2. run[e].stage \in {"analyze", "filter"} /\ ~run[e].overlapped /\ c \in Posts(run[e])
    BY <2>1, <1>1 DEF Handled
  <2>. QED BY <2>2 DEF DigestInv, StillUnsent
<1>5. SentOnceKept'
  BY <1>1 DEF DigestInv, SentOnceKept
<1>6. OwnAdsAreLeftOut' /\ \A e \in Digests : AdsApart(run'[e])
  <2>1. \A e \in Digests : run'[e] \in {r, run[e]}
    BY <1>1
  <2>2. \A e \in Digests : AdsApart(run'[e])
    <3>1. SUFFICES ASSUME NEW e \in Digests PROVE AdsApart(run'[e])
      OBVIOUS
    <3>2. AdsApart(run[e])
      BY DEF DigestInv
    <3>3. CASE run'[e] = r
      BY <3>3
    <3>4. CASE run'[e] = run[e]
      BY <3>2, <3>4
    <3>. QED BY <2>1, <3>3, <3>4
  <2>. QED BY <2>2 DEF DigestInv, OwnAdsAreLeftOut
<1>. QED BY <1>2, <1>3, <1>4, <1>5, <1>6 DEF DigestInv

\* A digest that is in a task after the step was in it before, and the key has not moved.
LEMMA KeyStays ==
  ASSUME DigestInv, NEW d \in Digests, NEW r, run' = [run EXCEPT ![d] = r],
         InTask(r) => InTask(run[d]), UNCHANGED Lock
  PROVE  KeyIsHeld'
  BY DEF DigestInv, DigestTypes, KeyIsHeld, Lock

\* A digest that stops leaves nothing to send, whatever it read before.
LEMMA StopsStep ==
  ASSUME DigestInv, NEW d \in Digests, Stops(d), run[d].stage \notin {"new", "done"}, UNCHANGED Lock,
         run[d].stage = "record" =>
            \A c \in run[d].keeps : c \in unrecorded' \/ MessageId[c] \in delivered',
         FailingIsOff', RowsTyped',
         copies' = copies, together' = together, adsShown' = adsShown,
         unrecorded \subseteq unrecorded', delivered \subseteq delivered'
  PROVE  DigestInv'
<1> DEFINE r == IF run[d].locked THEN [NotRun EXCEPT !.stage = "release", !.locked = TRUE] ELSE RunOver
<1>1. /\ r \in DigestRun /\ r.stage \in {"release", "done"} /\ (r.stage = "release" => run[d].locked)
      /\ r.ads = {} /\ r.asks = {} /\ r.keeps = {}
  BY NotRunTyped DEF RunOver, DigestRun
<1>2. run' = [run EXCEPT ![d] = r]
  BY DEF Stops, DigestInv, DigestTypes
<1> HIDE DEF r
<1>3. AdsApart(r) /\ (InTask(r) => InTask(run[d]))
  BY <1>1 DEF AdsApart, InTask
<1>. QED BY <1>1, <1>2, <1>3, KeyStays, DigestStep DEF Handled

\* The start of a digest, with a key that was free or without one.
LEMMA StartSteps ==
  ASSUME DigestInv, NEW d \in Digests, StartsLocked(d) \/ StartsUnlocked(d)
  PROVE  DigestInv'
<1>1. PICK locked \in BOOLEAN : /\ Starts(d, locked)
                                /\ \/ locked /\ keyHolder = 0 /\ keyHolder' = d /\ UNCHANGED keyExpired
                                   \/ ~locked /\ UNCHANGED Lock
  BY DEF StartsLocked, StartsUnlocked
<1> DEFINE r == [run[d] EXCEPT !.stage = "list", !.locked = locked]
<1>2. run[d] \in DigestRun /\ AdsApart(run[d]) /\ run[d].stage = "new"
  BY <1>1 DEF DigestInv, DigestTypes, Starts
<1>3. /\ r \in DigestRun /\ r.stage = "list" /\ (r.locked <=> locked)
      /\ r.asks = run[d].asks /\ r.keeps = run[d].keeps /\ r.ads = run[d].ads
  BY <1>2 DEF DigestRun
<1>4. run' = [run EXCEPT ![d] = r]
  BY <1>1 DEF Starts
<1> HIDE DEF r
<1>5. AdsApart(r)
  BY <1>2, <1>3 DEF AdsApart
<1>6. KeyIsHeld'
  <2>1. \A e \in Digests \ {d} : run'[e] = run[e]
    BY <1>4 DEF DigestInv, DigestTypes
  <2>2. run'[d] = r
    BY <1>4 DEF DigestInv, DigestTypes
  <2>3. CASE locked /\ keyHolder = 0 /\ keyHolder' = d /\ UNCHANGED keyExpired
    <3>1. keyExpired \/ \A e \in Digests : ~InTask(run[e])
      BY <2>3, DigestAssumption DEF DigestInv, KeyIsHeld
    <3>. QED BY <2>1, <2>3, <3>1 DEF KeyIsHeld
  <2>4. CASE ~locked /\ UNCHANGED Lock
    BY <2>4, <1>3, <1>4, KeyStays DEF InTask
  <2>. QED BY <1>1, <2>3, <2>4
<1>. QED BY <1>1, <1>2, <1>3, <1>4, <1>5, <1>6, DigestStep
         DEF Starts, ChannelRows, Deliveries, Handled, DigestInv, FailingIsOff, DigestTypes, RowsTyped

\* The key is read and given back, or expires.
LEMMA KeySteps ==
  ASSUME DigestInv, DigestKeyExpires \/ \E d \in Digests : ReadsKey(d) \/ DeletesKey(d)
  PROVE  DigestInv'
<1>1. CASE DigestKeyExpires
  <2>1. KeyIsHeld' /\ UNCHANGED <<run, ChannelRows, analyses, Deliveries, mishaps>>
    BY <1>1 DEF DigestKeyExpires, KeyIsHeld
  <2>. QED BY <2>1 DEF DigestInv, DigestTypes, OverlapsKnown, StillUnsent, SentOnceKept, OwnAdsAreLeftOut,
                       FailingIsOff, RowsTyped, ChannelRows, Deliveries
<1>2. /\ RunOver \in DigestRun /\ RunOver.stage = "done" /\ AdsApart(RunOver)
  BY NotRunTyped DEF RunOver, DigestRun, AdsApart
<1>3. ASSUME NEW d \in Digests, ReadsKey(d) PROVE DigestInv'
  <2>1. CASE run' = [run EXCEPT ![d] = RunOver]
    <3>1. KeyIsHeld'
      BY <1>2, <1>3, <2>1, KeyStays DEF ReadsKey, InTask
    <3>. QED BY <1>2, <1>3, <2>1, <3>1, DigestStep
             DEF ReadsKey, ChannelRows, Deliveries, Handled, DigestInv, FailingIsOff, DigestTypes, RowsTyped
  <2>2. CASE keyHolder = d /\ run' = [run EXCEPT ![d].stage = "delete"]
    <3> DEFINE r == [run[d] EXCEPT !.stage = "delete"]
    <3>1. run[d] \in DigestRun /\ AdsApart(run[d]) /\ run[d].stage = "release"
      BY <1>3 DEF ReadsKey, DigestInv, DigestTypes
    <3>2. /\ r \in DigestRun /\ r.stage = "delete"
          /\ r.asks = run[d].asks /\ r.keeps = run[d].keeps /\ r.ads = run[d].ads
      BY <3>1 DEF DigestRun
    <3>3. run' = [run EXCEPT ![d] = r]
      BY <2>2
    <3> HIDE DEF r
    <3>4. AdsApart(r)
      BY <3>1, <3>2 DEF AdsApart
    <3>5. KeyIsHeld'
      <4>1. \A e \in Digests \ {d} : run'[e] = run[e]
        BY <3>3 DEF DigestInv, DigestTypes
      <4>. QED BY <4>1, <2>2, <1>3 DEF ReadsKey, Lock, DigestInv, KeyIsHeld
    <3>. QED BY <1>3, <3>1, <3>2, <3>3, <3>4, <3>5, DigestStep
             DEF ReadsKey, ChannelRows, Deliveries, Handled, DigestInv, FailingIsOff, DigestTypes, RowsTyped
  <2>. QED BY <1>3, <2>1, <2>2 DEF ReadsKey
<1>4. ASSUME NEW d \in Digests, DeletesKey(d) PROVE DigestInv'
  <2>1. run' = [run EXCEPT ![d] = RunOver] /\ run[d].stage = "delete"
    BY <1>4 DEF DeletesKey
  <2>2. KeyIsHeld'
    <3>1. \A e \in Digests : InTask(run'[e]) => e # d /\ run'[e] = run[e]
      BY <1>2, <2>1 DEF DigestInv, DigestTypes, InTask
    <3>2. keyExpired' = keyExpired /\ (keyExpired \/ keyHolder = d)
      BY <1>4, <2>1 DEF DeletesKey, DigestInv, KeyIsHeld, InTask
    <3>. QED BY <3>1, <3>2 DEF DigestInv, KeyIsHeld
  <2>. QED BY <1>4, <1>2, <2>1, <2>2, DigestStep
           DEF DeletesKey, ChannelRows, Deliveries, Handled, DigestInv, FailingIsOff, DigestTypes, RowsTyped
<1>. QED BY <1>1, <1>3, <1>4

\* The channels are listed and fetched.
LEMMA ListStep == ASSUME DigestInv, NEW d \in Digests, ListsChannels(d) PROVE DigestInv'
<1>1. run[d] \in DigestRun /\ AdsApart(run[d]) /\ run[d].stage = "list"
  BY DEF DigestInv, DigestTypes, ListsChannels
<1>2. /\ UNCHANGED <<Lock, ChannelRows, analyses, Deliveries, mishaps>>
      /\ FailingIsOff' /\ RowsTyped'
  BY DEF ListsChannels, ChannelRows, DigestInv, FailingIsOff, DigestTypes, RowsTyped
<1>3. CASE listened = {}
  BY <1>1, <1>2, <1>3, StopsStep DEF ListsChannels, Deliveries
<1>4. CASE listened # {}
  <2> DEFINE r == [run[d] EXCEPT !.stage = "fetch", !.seen = channelErrors, !.asks = listened]
  <2>1. run' = [run EXCEPT ![d] = r]
    BY <1>4 DEF ListsChannels
  <2>2. /\ r \in DigestRun /\ r.stage = "fetch" /\ (r.locked <=> run[d].locked)
        /\ r.keeps = run[d].keeps /\ r.ads = run[d].ads
    BY <1>1 DEF DigestRun, DigestInv, DigestTypes, RowsTyped
  <2> HIDE DEF r
  <2>3. AdsApart(r) /\ (InTask(r) => InTask(run[d]))
    BY <1>1, <2>2 DEF AdsApart, InTask
  <2>4. KeyIsHeld'
    BY <2>1, <2>3, <1>2, KeyStays
  <2>. QED BY <1>1, <1>2, <2>1, <2>2, <2>3, <2>4, DigestStep DEF Handled, Deliveries
<1>. QED BY <1>3, <1>4

\* A channel that fails too often is switched off, unless its count had changed.
LEMMA FetchStep ==
  ASSUME DigestInv, NEW d \in Digests, NEW c \in Channels, FetchesChannel(d, c) PROVE DigestInv'
<1>1. run[d] \in DigestRun /\ AdsApart(run[d]) /\ run[d].stage = "fetch"
  BY DEF DigestInv, DigestTypes, FetchesChannel
<1>2. UNCHANGED <<Lock, analyses, Deliveries, mishaps>>
  BY DEF FetchesChannel
<1>3. MaxChannelErrors \in Nat \ {0} /\ channelErrors \in [Channels -> Nat] /\ listened \subseteq Channels
  BY DigestAssumption DEF DigestInv, DigestTypes, RowsTyped
<1>4. ASSUME NEW wanted \in SUBSET Channels, RowsTyped', FailingIsOff',
             run' = [run EXCEPT ![d] = [run[d] EXCEPT !.asks = run[d].asks \ {c}, !.wanted = wanted]]
      PROVE  DigestInv'
  <2> DEFINE r == [run[d] EXCEPT !.asks = run[d].asks \ {c}, !.wanted = wanted]
  <2>1. run' = [run EXCEPT ![d] = r]
    BY <1>4
  <2>2. /\ r \in DigestRun /\ r.stage = "fetch" /\ (r.locked <=> run[d].locked)
        /\ r.asks = run[d].asks \ {c} /\ r.keeps = run[d].keeps /\ r.ads = run[d].ads
    BY <1>1, <1>4 DEF DigestRun
  <2> HIDE DEF r
  <2>3. AdsApart(r) /\ (InTask(r) => InTask(run[d]))
    BY <1>1, <2>2 DEF AdsApart, InTask
  <2>4. KeyIsHeld'
    BY <2>1, <2>3, <1>2, KeyStays
  <2>. QED BY <1>1, <1>2, <1>4, <2>1, <2>2, <2>3, <2>4, DigestStep DEF Handled, Deliveries
<1>5. CASE channelErrors' = [channelErrors EXCEPT ![c] = 0] /\ UNCHANGED <<listened, outdated>>
           /\ run' = [run EXCEPT ![d].asks = @ \ {c}, ![d].wanted = @ \cup {c}]
  <2>1. run' = [run EXCEPT ![d] = [run[d] EXCEPT !.asks = run[d].asks \ {c}, !.wanted = run[d].wanted \cup {c}]]
    BY <1>5
  <2>2. run[d].wanted \cup {c} \in SUBSET Channels
    BY <1>1 DEF DigestRun
  <2>3. RowsTyped' /\ FailingIsOff'
    BY <1>3, <1>5 DEF RowsTyped, DigestInv, FailingIsOff
  <2>. QED BY <1>4, <2>1, <2>2, <2>3
<1>6. CASE /\ channelErrors' = [channelErrors EXCEPT ![c] = @ + 1]
           /\ listened' = IF SwitchesOff(d, c) THEN listened \ {c} ELSE listened
           /\ outdated' = IF channelErrors[c] # run[d].seen[c] THEN outdated \cup {c} ELSE outdated
           /\ run' = [run EXCEPT ![d].asks = @ \ {c}]
  <2>1. run[d].wanted \in SUBSET Channels
    BY <1>1 DEF DigestRun
  <2>2. run' = [run EXCEPT ![d] = [run[d] EXCEPT !.asks = run[d].asks \ {c}, !.wanted = run[d].wanted]]
    <3>1. [run[d] EXCEPT !.asks = run[d].asks \ {c}] = [run[d] EXCEPT !.asks = run[d].asks \ {c}, !.wanted = run[d].wanted]
      BY <1>1 DEF DigestRun
    <3>. QED BY <1>6, <3>1
  <2>3. RowsTyped'
    BY <1>3, <1>6 DEF RowsTyped
  <2>4. FailingIsOff'
    <3>1. SUFFICES ASSUME NEW b \in Channels, b \notin outdated', b \in listened'
                   PROVE  channelErrors'[b] < MaxChannelErrors
      BY DEF FailingIsOff
    <3>2. b \notin outdated /\ b \in listened
      BY <3>1, <1>6
    <3>3. channelErrors[b] < MaxChannelErrors
      BY <3>2 DEF DigestInv, FailingIsOff
    <3>4. CASE b = c
      <4>1. channelErrors[c] = run[d].seen[c] /\ ~SwitchesOff(d, c) /\ channelErrors'[c] = channelErrors[c] + 1
        BY <3>1, <3>4, <1>3, <1>6
      <4>. QED BY <4>1, <3>4, <1>3 DEF SwitchesOff
    <3>5. CASE b # c
      BY <3>3, <3>5, <1>3, <1>6
    <3>. QED BY <3>4, <3>5
  <2>. QED BY <1>4, <2>1, <2>2, <2>3, <2>4
<1>7. CASE Stops(d) /\ UNCHANGED ChannelRows
  <2>1. RowsTyped' /\ FailingIsOff'
    BY <1>7 DEF ChannelRows, DigestInv, DigestTypes, RowsTyped, FailingIsOff
  <2>. QED BY <1>1, <1>2, <1>7, <2>1, StopsStep DEF Deliveries
<1>. QED BY <1>5, <1>6, <1>7 DEF FetchesChannel

\* A digest that reads the records marks those that handle posts, and is marked by them.
LEMMA ReadStep == ASSUME DigestInv, NEW d \in Digests, ReadsDelivered(d) PROVE DigestInv'
<1>1. run[d] \in DigestRun /\ AdsApart(run[d]) /\ run[d].stage = "fetch" /\ run[d].asks = {} /\ run[d].keeps = {}
  BY DEF DigestInv, DigestTypes, ReadsDelivered, AdsApart
<1>2. /\ UNCHANGED <<Lock, ChannelRows, analyses, Deliveries, mishaps>>
      /\ FailingIsOff' /\ RowsTyped'
  BY DEF ReadsDelivered, ChannelRows, DigestInv, FailingIsOff, DigestTypes, RowsTyped
<1>3. CASE Stops(d)
  BY <1>1, <1>2, <1>3, StopsStep DEF Deliveries
<1>4. CASE run' = [e \in Digests |->
                   IF e = d THEN [run[d] EXCEPT !.stage = "analyze", !.seen = NotRun.seen,
                                                !.wanted = Unread(d),
                                                !.overlapped = \E f \in Digests \ {d} : Handling(f)]
                   ELSE IF Handling(e) THEN [run[e] EXCEPT !.overlapped = TRUE] ELSE run[e]]
  <2> DEFINE over == \E f \in Digests \ {d} : Handling(f)
             r == [run[d] EXCEPT !.stage = "analyze", !.seen = NotRun.seen, !.wanted = Unread(d),
                                 !.overlapped = over]
  <2>1. Unread(d) \subseteq Channels /\ \A c \in Unread(d) : MessageId[c] \notin delivered
    BY <1>1 DEF Unread, DigestRun
  <2>2. over \in BOOLEAN
    OBVIOUS
  <2>3. run'[d] = r
    BY <1>4
  <2> HIDE DEF over
  <2>4. /\ r \in DigestRun /\ r.stage = "analyze" /\ (r.locked <=> run[d].locked)
        /\ r.asks = run[d].asks /\ r.keeps = run[d].keeps /\ r.ads = run[d].ads
        /\ r.wanted = Unread(d) /\ (r.overlapped <=> over)
    <3>1. NotRun.seen \in [Channels -> Nat]
      BY NotRunTyped DEF DigestRun
    <3>. QED BY <1>1, <2>1, <2>2, <3>1 DEF DigestRun
  <2> HIDE DEF r
  <2>5. ASSUME NEW e \in Digests \ {d}
        PROVE  /\ run'[e] \in DigestRun /\ run'[e].stage = run[e].stage /\ run'[e].wanted = run[e].wanted
               /\ run'[e].asks = run[e].asks /\ run'[e].keeps = run[e].keeps /\ run'[e].ads = run[e].ads
               /\ (run'[e].locked <=> run[e].locked)
               /\ run[e].stage \in Handled => run'[e].overlapped
               /\ run[e].stage \notin Handled => run'[e] = run[e]
    <3>1. run[e] \in DigestRun
      BY DEF DigestInv, DigestTypes
    <3>2. run'[e] = IF Handling(e) THEN [run[e] EXCEPT !.overlapped = TRUE] ELSE run[e]
      BY <1>4
    <3>. QED BY <3>1, <3>2 DEF DigestRun, Handling, Handled
  <2>6. DigestTypes'
    <3>1. run' \in [Digests -> DigestRun]
      BY <1>4, <2>3, <2>4, <2>5
    <3>. QED BY <3>1, <1>2 DEF DigestInv, DigestTypes, Deliveries
  <2>7. OverlapsKnown'
    <3>1. \A e \in Digests \ {d} : run[e].stage \in Handled => over
      BY DEF over, Handling, Handled
    <3>. QED BY <2>3, <2>4, <2>5, <3>1 DEF OverlapsKnown, Handled
  <2>8. StillUnsent'
    <3>1. SUFFICES ASSUME NEW e \in Digests, run'[e].stage \in {"analyze", "filter"}, ~run'[e].overlapped,
                          NEW c \in Posts(run'[e])
                   PROVE  c \in unrecorded' \cup together' \/ copies'[c] = 0
      BY DEF StillUnsent
    <3>2. e = d
      BY <3>1, <2>5 DEF Handled
    <3>3. c \in Unread(d) /\ ~over
      BY <3>1, <3>2, <2>3, <2>4 DEF Posts
    <3>4. \A f \in Digests : run[f].stage # "record"
      BY <3>3, <1>1 DEF over, Handling
    <3>. QED BY <3>3, <3>4, <2>1, <1>2 DEF DigestInv, SentOnceKept, Deliveries
  <2>9. SentOnceKept'
    <3>1. \A e \in Digests : run[e].stage = "record" => run'[e].stage = "record" /\ run'[e].keeps = run[e].keeps
      BY <1>1, <2>5
    <3>. QED BY <3>1, <1>2 DEF DigestInv, SentOnceKept, Deliveries
  <2>10. KeyIsHeld'
    <3>1. \A e \in Digests : InTask(run'[e]) => InTask(run[e])
      BY <1>1, <2>3, <2>4, <2>5 DEF InTask
    <3>. QED BY <3>1, <1>2 DEF DigestInv, KeyIsHeld, Lock
  <2>11. \A e \in Digests : AdsApart(run'[e])
    <3>1. AdsApart(r)
      BY <1>1, <2>4 DEF AdsApart
    <3>2. \A e \in Digests \ {d} : AdsApart(run'[e])
      BY <2>5 DEF DigestInv, AdsApart
    <3>. QED BY <3>1, <3>2, <2>3
  <2>12. OwnAdsAreLeftOut'
    BY <1>2 DEF DigestInv, OwnAdsAreLeftOut, Deliveries
  <2>. QED BY <1>2, <2>6, <2>7, <2>8, <2>9, <2>10, <2>11, <2>12 DEF DigestInv
<1>. QED BY <1>3, <1>4 DEF ReadsDelivered

\* What leaves the channels' rows alone leaves them as they were.
LEMMA RowsStay == ASSUME DigestInv, UNCHANGED ChannelRows PROVE FailingIsOff' /\ RowsTyped'
  BY DEF ChannelRows, DigestInv, FailingIsOff, DigestTypes, RowsTyped

\* The posts are looked up together.
LEMMA LookStep == ASSUME DigestInv, NEW d \in Digests, LooksUp(d) PROVE DigestInv'
<1>1. run[d] \in DigestRun /\ AdsApart(run[d]) /\ run[d].stage = "analyze"
  BY DEF DigestInv, DigestTypes, LooksUp
<1> DEFINE found == {c \in run[d].wanted : analyses[c] # "none"}
           keeps == {c \in found : FoundWorthy(analyses[c])}
           asks == run[d].wanted \ found
           r == [run[d] EXCEPT !.stage = "filter", !.wanted = {}, !.keeps = keeps, !.asks = asks]
<1>2. run' = [run EXCEPT ![d] = r] /\ UNCHANGED <<Lock, ChannelRows, analyses, Deliveries, mishaps>>
  BY DEF LooksUp
<1>3. keeps \cap asks = {} /\ keeps \subseteq run[d].wanted /\ asks \subseteq run[d].wanted
  OBVIOUS
<1> HIDE DEF keeps, asks
<1>4. /\ r \in DigestRun /\ r.stage = "filter" /\ (r.locked <=> run[d].locked)
      /\ r.asks = asks /\ r.keeps = keeps /\ r.ads = run[d].ads
      /\ (r.overlapped <=> run[d].overlapped)
  BY <1>1, <1>3 DEF DigestRun
<1> HIDE DEF r
<1>5. AdsApart(r) /\ (InTask(r) => InTask(run[d]))
  BY <1>1, <1>3, <1>4 DEF AdsApart, InTask
<1>6. KeyIsHeld'
  BY <1>2, <1>5, KeyStays
<1>7. Posts(r) \subseteq Posts(run[d])
  BY <1>1, <1>3, <1>4 DEF Posts
<1>8. FailingIsOff' /\ RowsTyped'
  BY <1>2, RowsStay
<1>. QED BY <1>1, <1>2, <1>4, <1>5, <1>6, <1>7, <1>8, DigestStep DEF Handled, Deliveries

\* An answer makes a post kept, an ad or neither.
LEMMA AnalyzeStep ==
  ASSUME DigestInv, NEW d \in Digests, NEW c \in Channels, Analyzes(d, c)
  PROVE  DigestInv'
<1>1. run[d] \in DigestRun /\ AdsApart(run[d]) /\ run[d].stage = "filter" /\ c \in run[d].asks
  BY DEF DigestInv, DigestTypes, Analyzes
<1>2. PICK ads \in {run[d].ads, run[d].ads \cup {c}}, keeps \in {run[d].keeps, run[d].keeps \cup {c}} :
        /\ run' = [run EXCEPT ![d] = [run[d] EXCEPT !.asks = run[d].asks \ {c}, !.ads = ads, !.keeps = keeps]]
        /\ ads = run[d].ads \/ keeps = run[d].keeps
  <2>1. CASE run' = [run EXCEPT ![d].asks = @ \ {c}]
    <3>1. run' = [run EXCEPT ![d] = [run[d] EXCEPT !.asks = run[d].asks \ {c}, !.ads = run[d].ads,
                                                   !.keeps = run[d].keeps]]
      BY <2>1, <1>1 DEF DigestRun
    <3>. QED BY <3>1
  <2>2. ASSUME NEW verdict \in Verdicts,
               run' = [run EXCEPT ![d].asks = @ \ {c},
                                  ![d].ads = IF verdict = "ad" THEN @ \cup {c} ELSE @,
                                  ![d].keeps = IF Worth(verdict) THEN @ \cup {c} ELSE @]
        PROVE  \E ads \in {run[d].ads, run[d].ads \cup {c}}, keeps \in {run[d].keeps, run[d].keeps \cup {c}} :
                 /\ run' = [run EXCEPT ![d] = [run[d] EXCEPT !.asks = run[d].asks \ {c}, !.ads = ads,
                                                             !.keeps = keeps]]
                 /\ ads = run[d].ads \/ keeps = run[d].keeps
    <3> DEFINE ads == IF verdict = "ad" THEN run[d].ads \cup {c} ELSE run[d].ads
               keeps == IF Worth(verdict) THEN run[d].keeps \cup {c} ELSE run[d].keeps
    <3>1. run' = [run EXCEPT ![d] = [run[d] EXCEPT !.asks = run[d].asks \ {c}, !.ads = ads, !.keeps = keeps]]
      BY <2>2
    <3>2. ads = run[d].ads \/ keeps = run[d].keeps
      BY DEF Worth
    <3>3. ads \in {run[d].ads, run[d].ads \cup {c}} /\ keeps \in {run[d].keeps, run[d].keeps \cup {c}}
      OBVIOUS
    <3> HIDE DEF ads, keeps
    <3>. QED BY <3>1, <3>2, <3>3
  <2>. QED BY <2>1, <2>2 DEF Analyzes
<1>3. UNCHANGED <<Lock, ChannelRows, Deliveries, mishaps>>
  BY DEF Analyzes
<1> DEFINE r == [run[d] EXCEPT !.asks = run[d].asks \ {c}, !.ads = ads, !.keeps = keeps]
<1>4. /\ r \in DigestRun /\ r.stage = "filter" /\ (r.locked <=> run[d].locked)
      /\ r.asks = run[d].asks \ {c} /\ r.keeps = keeps /\ r.ads = ads
      /\ (r.overlapped <=> run[d].overlapped)
  BY <1>1 DEF DigestRun
<1>5. run' = [run EXCEPT ![d] = r]
  BY <1>2
<1> HIDE DEF r
<1>6. AdsApart(r) /\ (InTask(r) => InTask(run[d]))
  BY <1>1, <1>2, <1>4 DEF AdsApart, InTask
<1>7. KeyIsHeld'
  BY <1>3, <1>5, <1>6, KeyStays
<1>8. Posts(r) \subseteq Posts(run[d])
  BY <1>1, <1>4 DEF Posts
<1>9. FailingIsOff' /\ RowsTyped'
  BY <1>3, RowsStay
<1>. QED BY <1>1, <1>3, <1>4, <1>5, <1>6, <1>7, <1>8, <1>9, DigestStep DEF Handled, Deliveries

\* What arrives had not been sent, or is sent by digests that read together, and is no ad.
LEMMA SendStep == ASSUME DigestInv, NEW d \in Digests, Sends(d) PROVE DigestInv'
<1>1. run[d] \in DigestRun /\ AdsApart(run[d]) /\ run[d].stage = "filter" /\ run[d].asks = {}
  BY DEF DigestInv, DigestTypes, Sends
<1>2. PICK keeps \in SUBSET run[d].keeps \ {{}} : \E failed \in SUBSET keeps :
        LET arrive == keeps \ failed
        IN /\ IF failed = {} THEN NoMishap ELSE Mishap
           /\ copies' = [c \in Channels |-> IF c \in arrive THEN copies[c] + 1 ELSE copies[c]]
           /\ unrecorded' = unrecorded \cup failed
           /\ together' = IF run[d].overlapped THEN together \cup arrive ELSE together
           /\ adsShown' = adsShown \cup (arrive \cap run[d].ads)
           /\ run' = [run EXCEPT ![d].stage = "record", ![d].keeps = keeps, ![d].ads = {}]
  BY DEF Sends
<1>3. PICK failed \in SUBSET keeps :
           /\ copies' = [c \in Channels |-> IF c \in keeps \ failed THEN copies[c] + 1 ELSE copies[c]]
           /\ unrecorded' = unrecorded \cup failed
           /\ together' = IF run[d].overlapped THEN together \cup (keeps \ failed) ELSE together
           /\ adsShown' = adsShown \cup ((keeps \ failed) \cap run[d].ads)
           /\ run' = [run EXCEPT ![d].stage = "record", ![d].keeps = keeps, ![d].ads = {}]
  BY <1>2
<1>4. UNCHANGED <<Lock, ChannelRows, analyses, delivered>>
  BY DEF Sends
<1>5. keeps \subseteq run[d].keeps /\ keeps \subseteq Channels
  BY <1>1 DEF DigestRun
<1> DEFINE r == [run[d] EXCEPT !.stage = "record", !.keeps = keeps, !.ads = {}]
<1>6. /\ r \in DigestRun /\ r.stage = "record" /\ (r.locked <=> run[d].locked)
      /\ r.asks = {} /\ r.keeps = keeps /\ r.ads = {} /\ (r.overlapped <=> run[d].overlapped)
  BY <1>1, <1>5 DEF DigestRun
<1>7. run' = [run EXCEPT ![d] = r]
  BY <1>3
<1> HIDE DEF r
<1>8. run'[d] = r /\ \A e \in Digests \ {d} : run'[e] = run[e]
  BY <1>7 DEF DigestInv, DigestTypes
<1>9. DigestTypes' /\ FailingIsOff'
  <2>1. copies' \in [Channels -> Nat]
    <3>1. \A c \in Channels : copies[c] \in Nat
      BY DEF DigestInv, DigestTypes
    <3>2. \A c \in Channels : copies[c] + 1 \in Nat
      BY <3>1
    <3>. QED BY <3>1, <3>2, <1>3
  <2>2. run' \in [Digests -> DigestRun]
    BY <1>6, <1>7 DEF DigestInv, DigestTypes
  <2>. QED BY <2>1, <2>2, <1>4, RowsStay DEF DigestTypes
<1>10. OverlapsKnown'
  BY <1>1, <1>6, <1>8 DEF DigestInv, OverlapsKnown, Handled
<1>11. ASSUME NEW e \in Digests \ {d}, run[e].stage \in Handled PROVE run[d].overlapped
  BY <1>1, <1>11 DEF DigestInv, OverlapsKnown, Handled
<1>12. \A c \in Channels : c \in keeps \ failed => c \in unrecorded' \cup together' \/ copies[c] = 0
  <2>1. CASE run[d].overlapped
    BY <2>1, <1>3
  <2>2. CASE ~run[d].overlapped
    <3>1. \A c \in run[d].keeps : c \in unrecorded \cup together \/ copies[c] = 0
      BY <1>1, <2>2 DEF DigestInv, StillUnsent, Posts
    <3>. QED BY <3>1, <2>2, <1>3, <1>5
  <2>. QED BY <2>1, <2>2
<1>13. unrecorded \subseteq unrecorded' /\ together \subseteq together'
  BY <1>3
<1>14. StillUnsent'
  <2>1. SUFFICES ASSUME NEW e \in Digests, run'[e].stage \in {"analyze", "filter"}, ~run'[e].overlapped,
                        NEW c \in Posts(run'[e])
                 PROVE  c \in unrecorded' \cup together' \/ copies'[c] = 0
    BY DEF StillUnsent
  <2>2. e # d /\ run'[e] = run[e]
    BY <2>1, <1>6, <1>8
  <2>3. c \in unrecorded \cup together \/ copies[c] = 0
    BY <2>1, <2>2 DEF DigestInv, StillUnsent
  <2>4. run[d].overlapped
    BY <1>11, <2>1, <2>2 DEF Handled
  <2>5. c \in Channels
    BY <2>2, <2>1 DEF DigestInv, DigestTypes, DigestRun, Posts
  <2>6. CASE c \in keeps \ failed
    BY <2>4, <2>6, <1>3
  <2>7. CASE c \notin keeps \ failed
    BY <2>3, <2>5, <2>7, <1>3, <1>13
  <2>. QED BY <2>6, <2>7
<1>15. SentOnceKept'
  <2>1. SUFFICES ASSUME NEW c \in Channels, c \notin unrecorded' \cup together', copies'[c] # 0
                 PROVE  /\ copies'[c] = 1
                        /\ \/ MessageId[c] \in delivered'
                           \/ \E e \in Digests : run'[e].stage = "record" /\ c \in run'[e].keeps
    BY DEF SentOnceKept
  <2>2. CASE c \in keeps \ failed
    <3>1. copies[c] = 0 /\ copies'[c] = copies[c] + 1
      BY <2>1, <2>2, <1>3, <1>12
    <3>. QED BY <3>1, <2>2, <1>6, <1>8
  <2>3. CASE c \notin keeps \ failed
    <3>1. copies'[c] = copies[c] /\ c \notin unrecorded \cup together
      BY <2>1, <2>3, <1>3, <1>13
    <3>2. /\ copies[c] = 1
          /\ \/ MessageId[c] \in delivered
             \/ \E e \in Digests : run[e].stage = "record" /\ c \in run[e].keeps
      BY <3>1, <2>1 DEF DigestInv, SentOnceKept
    <3>. QED BY <3>1, <3>2, <1>1, <1>4, <1>8
  <2>. QED BY <2>2, <2>3
<1>16. OwnAdsAreLeftOut' /\ \A e \in Digests : AdsApart(run'[e])
  <2>1. (keeps \ failed) \cap run[d].ads = {}
    BY <1>1, <1>5 DEF AdsApart
  <2>2. OwnAdsAreLeftOut'
    BY <2>1, <1>3 DEF DigestInv, OwnAdsAreLeftOut
  <2>3. AdsApart(r)
    BY <1>6 DEF AdsApart
  <2>4. \A e \in Digests \ {d} : AdsApart(run'[e])
    BY <1>8 DEF DigestInv, AdsApart
  <2>. QED BY <2>2, <2>3, <2>4, <1>8
<1>17. KeyIsHeld'
  BY <1>1, <1>4, <1>6, <1>7, KeyStays DEF InTask
<1>. QED BY <1>9, <1>10, <1>14, <1>15, <1>16, <1>17 DEF DigestInv

\* A digest with nothing to send stops; one that has sent records it, or fails to.
LEMMA EndSteps ==
  ASSUME DigestInv, NEW d \in Digests, HasNothingToSend(d) \/ RecordsDelivery(d) PROVE DigestInv'
<1>1. Stops(d) /\ run[d].stage \in {"filter", "record"} /\ UNCHANGED <<Lock, ChannelRows>>
  BY DEF HasNothingToSend, RecordsDelivery
<1>2. FailingIsOff' /\ RowsTyped'
  BY <1>1, RowsStay
<1>3. /\ copies' = copies /\ together' = together /\ adsShown' = adsShown
      /\ unrecorded \subseteq unrecorded' /\ delivered \subseteq delivered'
      /\ run[d].stage = "record" => \A c \in run[d].keeps : c \in unrecorded' \/ MessageId[c] \in delivered'
  BY DEF HasNothingToSend, RecordsDelivery, Deliveries
<1>. QED BY <1>1, <1>2, <1>3, StopsStep

\* A digest that dies leaves the key, and leaves unrecorded what it has sent.
LEMMA DeathStep == ASSUME DigestInv, NEW d \in Digests, DigestDies(d) PROVE DigestInv'
<1>1. /\ RunOver \in DigestRun /\ RunOver.stage = "done" /\ AdsApart(RunOver) /\ ~InTask(RunOver)
  BY NotRunTyped DEF RunOver, DigestRun, AdsApart, InTask
<1>2. run' = [run EXCEPT ![d] = RunOver] /\ UNCHANGED <<Lock, ChannelRows>>
  BY DEF DigestDies
<1>3. FailingIsOff' /\ RowsTyped' /\ KeyIsHeld'
  BY <1>1, <1>2, RowsStay, KeyStays
<1>4. /\ copies' = copies /\ together' = together /\ adsShown' = adsShown
      /\ unrecorded \subseteq unrecorded' /\ delivered \subseteq delivered'
      /\ run[d].stage = "record" => \A c \in run[d].keeps : c \in unrecorded'
  BY DEF DigestDies
<1>. QED BY <1>1, <1>2, <1>3, <1>4, DigestStep DEF Handled

\* Every step keeps the invariant.
LEMMA DigestInvNext == ASSUME DigestInv, [DigestNext]_digestVars PROVE DigestInv'
<1>1. CASE UNCHANGED digestVars
  BY <1>1 DEF digestVars, DigestInv, DigestTypes, RowsTyped, OverlapsKnown, StillUnsent, SentOnceKept,
              KeyIsHeld, OwnAdsAreLeftOut, FailingIsOff
<1>2. CASE DigestNext
  BY <1>1, <1>2, StartSteps, KeySteps, ListStep, FetchStep, ReadStep, LookStep, AnalyzeStep, SendStep,
     EndSteps, DeathStep DEF DigestNext, DigestGoesOn, DigestsAtRest
<1>. QED BY <1>1, <1>2

\* A user gets a post twice only after an unrecorded delivery or digests that overlapped, no
\* digest sends what it found to be an ad, and a channel that keeps failing is switched off.
THEOREM DigestSafe == DigestSpec => []DigestIsTrue
<1>1. DigestInv => OncePerUser
  <2>1. SUFFICES ASSUME DigestInv PROVE OncePerUser
    OBVIOUS
  <2>2. \A c \in Channels : copies[c] > 1 => c \in unrecorded \cup together
    BY <2>1 DEF DigestInv, SentOnceKept
  <2>3. ASSUME NEW d \in Digests, NEW e \in Digests, d # e, {run[d].locked, run[e].locked} = {TRUE},
               ~keyExpired, Handling(d), Handling(e)
        PROVE  FALSE
    <3>1. run[d].locked = TRUE /\ run[e].locked = TRUE
      BY <2>3, Zenon
    <3>2. InTask(run[d]) /\ InTask(run[e])
      BY <2>3, <3>1 DEF InTask, Handling
    <3>. QED BY <2>1, <2>3, <3>2 DEF DigestInv, KeyIsHeld
  <2>. QED BY <2>2, <2>3 DEF OncePerUser
<1>2. DigestInv => DigestIsTrue
  BY <1>1 DEF DigestInv, DigestIsTrue
<1>. QED BY <1>2, DigestInvInit, DigestInvNext, PTL DEF DigestSpec

-----------------------------------------------------------------------------
(* The run over all of them *)

\* Every component of the run behaves as it does alone.
LEMMA ComponentsBehave ==
  ServicesSpec =>
    /\ TrackerSpec /\ WindowSpec /\ SlotsSpec /\ DispatchSpec
    /\ BundleSpec /\ RetrySpec /\ StarsSpec /\ RotationSpec
    /\ RssSpec /\ ImportSpec /\ SharingSpec /\ DigestSpec
<1>1. ServicesInit =>
        /\ TrackerInit /\ WindowInit /\ SlotsInit /\ DispatchInit
        /\ BundleInit /\ RetryInit /\ StarsInit /\ RotationInit
        /\ RssInit /\ ImportInit /\ SharingInit /\ DigestInit
  BY DEF ServicesInit
<1> DEFINE vars == <<component, trackerVars, windowVars, slotsVars, dispatchVars, bundleVars, retryVars,
                     starsVars, rotationVars, rssVars, importVars, sharingVars, digestVars>>
<1>2. UNCHANGED vars =>
        /\ UNCHANGED trackerVars /\ UNCHANGED windowVars /\ UNCHANGED slotsVars /\ UNCHANGED dispatchVars
        /\ UNCHANGED bundleVars /\ UNCHANGED retryVars /\ UNCHANGED starsVars /\ UNCHANGED rotationVars
        /\ UNCHANGED rssVars /\ UNCHANGED importVars /\ UNCHANGED sharingVars /\ UNCHANGED digestVars
  OBVIOUS
<1>3. [ServicesNext]_vars => [TrackerNext]_trackerVars
  BY <1>2 DEF ServicesNext, Acts
<1>4. [ServicesNext]_vars => [WindowNext]_windowVars
  BY <1>2 DEF ServicesNext, Acts
<1>5. [ServicesNext]_vars => [SlotsNext]_slotsVars
  BY <1>2 DEF ServicesNext, Acts
<1>6. [ServicesNext]_vars => [DispatchNext]_dispatchVars
  BY <1>2 DEF ServicesNext, Acts
<1>7. [ServicesNext]_vars => [BundleNext]_bundleVars
  BY <1>2 DEF ServicesNext, Acts
<1>8. [ServicesNext]_vars => [RetryNext]_retryVars
  BY <1>2 DEF ServicesNext, Acts
<1>9. [ServicesNext]_vars => [StarsNext]_starsVars
  <2>1. ServicesNext => SyncNext \/ Revoke \/ ByHandNext \/ UNCHANGED starsVars
    BY DEF ServicesNext
  <2>. QED BY <1>2, <2>1 DEF StarsNext
<1>10. [ServicesNext]_vars => [RotationNext]_rotationVars
  BY <1>2 DEF ServicesNext, Acts
<1>11. [ServicesNext]_vars => [RssNext]_rssVars
  BY <1>2 DEF ServicesNext, Acts
<1>12. [ServicesNext]_vars => [ImportNext]_importVars
  BY <1>2 DEF ServicesNext, Acts
<1>13. [ServicesNext]_vars => [SharingNext]_sharingVars
  BY <1>2 DEF ServicesNext, Acts
<1>14. [ServicesNext]_vars => [DigestNext]_digestVars
  BY <1>2 DEF ServicesNext, Acts
<1>. QED
  BY <1>1, <1>3, <1>4, <1>5, <1>6, <1>7, <1>8, <1>9, <1>10, <1>11, <1>12, <1>13, <1>14, PTL
     DEF ServicesSpec, TrackerSpec, WindowSpec, SlotsSpec, DispatchSpec, BundleSpec, RetrySpec,
         StarsSpec, RotationSpec, RssSpec, ImportSpec, SharingSpec, DigestSpec


\* Both limiters of a user's messages let no more through than they say (LimitsHold).
THEOREM LimitsSafe == ServicesSpec => []LimitsHold
<1>1. WindowIsSafe /\ SlotsAreSafe => LimitsHold
  BY DEF LimitsHold
<1>. QED BY ComponentsBehave, WindowSafe, SlotsSafe, <1>1, PTL

\* A bundle's session and an import's job report what was done (ReportsAreTrue).
THEOREM ReportsTrue == ServicesSpec => []ReportsAreTrue
<1>1. SessionIsTrue /\ JobIsTrue => ReportsAreTrue
  BY DEF ReportsAreTrue
<1>. QED BY ComponentsBehave, SessionTrue, JobTrue, <1>1, PTL

\* A feed's item and a digest are sent once and recorded as they were (DeliveriesAreTrue).
THEOREM DeliveriesTrue == ServicesSpec => []DeliveriesAreTrue
<1>1. DeliveryIsTrue /\ DigestIsTrue => DeliveriesAreTrue
  BY DEF DeliveriesAreTrue
<1>. QED BY ComponentsBehave, DeliverySafe, DigestSafe, <1>1, PTL

-----------------------------------------------------------------------------
(* Types and bounds, component by component *)

\* The counts, the queue's slot and the phases of the tracker.
LEMMA TrackerTyped == TrackerSpec => []TrackerTypeOK
<1> DEFINE Rest == /\ {shutdown, raced} \subseteq BOOLEAN
                   /\ processor \in {"waiting", "formatting", "ended"}
                   /\ batch \in {"urls", "joining", "leaving", "over", "left"}
<1>1. TrackerInit => Rest
  BY DEF TrackerInit
<1>2. Rest /\ [TrackerNext]_trackerVars => Rest'
  <2>. SUFFICES ASSUME Rest, [TrackerNext]_trackerVars PROVE Rest'
    OBVIOUS
  <2>1. CASE IncrementAndUpdate
    <3>1. shutdown' = (shutdown \/ counted' = Total) /\ UNCHANGED <<processor, batch, raced>>
      BY <2>1 DEF IncrementAndUpdate
    <3>. QED BY <3>1
  <2>2. CASE Settle \/ ForceUpdate
    BY <2>2 DEF Settle, ForceUpdate
  <2>3. CASE Take
    BY <2>3 DEF Take
  <2>4. CASE Formatted
    BY <2>4 DEF Formatted
  <2>5. CASE GetTimesOut \/ GetTimesOutLate
    BY <2>5 DEF GetTimesOut, GetTimesOutLate
  <2>6. CASE MarkComplete
    BY <2>6 DEF MarkComplete
  <2>7. CASE Joined \/ JoinTimesOut
    BY <2>7 DEF Joined, JoinTimesOut, AfterJoin
  <2>8. CASE TrackerAtRest \/ UNCHANGED trackerVars
    BY <2>8 DEF TrackerAtRest, trackerVars
  <2>. QED
    BY <2>1, <2>2, <2>3, <2>4, <2>5, <2>6, <2>7, <2>8 DEF TrackerNext, Processor
<1>3. TrackerInv /\ Rest => TrackerTypeOK
  BY TrackerAssumption DEF TrackerInv, TrackerTypeOK
<1>. QED BY <1>1, <1>2, <1>3, TrackerInvInit, TrackerInvNext, PTL DEF TrackerSpec

\* The times of the window are within the clock's bound, and its requests within the limit.
WindowBounds ==
  /\ now \in Times /\ requests \in Seq(Times) /\ Len(requests) <= MaxRequests
  /\ cooldown <= LastTime + CooldownLength /\ noticedUntil <= LastTime + NoticeWindow
  /\ slots <= MaxConcurrent
  /\ granted \in Seq(Times) /\ refusedAt \subseteq Times /\ notices \subseteq Times

\* The user is told at the time of the clock.
LEMMA RejectedBounds ==
  ASSUME WindowTypes, WindowBounds, Rejected
  PROVE  noticedUntil' <= LastTime + NoticeWindow /\ notices' \subseteq Times
<1>1. /\ LastTime \in Nat /\ NoticeWindow \in Nat /\ now \in Nat /\ now <= LastTime
      /\ noticedUntil <= LastTime + NoticeWindow /\ notices \subseteq Times
  BY LimitsAreNumbers, WindowAssumption DEF WindowTypes, WindowBounds, Times
<1>2. CASE now >= noticedUntil
  <2>1. noticedUntil' = now + NoticeWindow /\ notices' = notices \cup {now}
    BY <1>2 DEF Rejected
  <2>. QED BY <1>1, <2>1 DEF Times
<1>3. CASE ~(now >= noticedUntil)
  BY <1>1, <1>3 DEF Rejected
<1>. QED BY <1>2, <1>3

\* What is kept of the requests is within the bounds they had.
LEMMA PrunedBounds ==
  ASSUME WindowTypes, WindowBounds
  PROVE  Pruned \in Seq(Times) /\ Len(Pruned) <= MaxRequests
<1>1. Popped \in 0..Len(requests)
  BY PoppedProperties DEF WindowTypes
<1>2. Len(requests) \in Nat /\ requests \in Seq(Times)
  BY DEF WindowBounds
<1>3. PICK n \in Nat : n = Popped /\ n <= Len(requests)
  BY <1>1, <1>2
<1>4. n + 1 \in 1..Len(requests) + 1
  BY <1>2, <1>3
<1>5. Pruned = SubSeq(requests, n + 1, Len(requests))
  BY <1>3 DEF Pruned
<1>6. Pruned \in Seq(Times) /\ Len(Pruned) <= Len(requests)
  <2>1. \A i \in 1..Len(requests) : requests[i] \in Times
    BY <1>2
  <2>. QED BY <1>2, <1>3, <1>4, <1>5, <2>1
<1>. QED BY <1>6, LimitsAreNumbers DEF WindowBounds

\* The bounds of the window are kept.
LEMMA WindowBoundsNext == WindowTypes /\ WindowBounds /\ [WindowNext]_windowVars => WindowBounds'
<1> SUFFICES ASSUME WindowTypes, WindowBounds, [WindowNext]_windowVars PROVE WindowBounds'
  OBVIOUS
<1>0. /\ LastTime \in Nat /\ CooldownLength \in Nat /\ NoticeWindow \in Nat /\ MaxRequests \in Nat
      /\ now \in Nat /\ now <= LastTime /\ now \in Times
      /\ cooldown \in Nat /\ noticedUntil \in Nat
  BY WindowAssumption DEF WindowTypes, WindowBounds, Times
<1>1. ASSUME NEW m \in Messages, CheckInCooldown(m) PROVE WindowBounds'
  BY <1>0, <1>1, RejectedBounds DEF CheckInCooldown, WindowBounds, Times
<1>2. ASSUME NEW m \in Messages, CheckOverLoad(m) PROVE WindowBounds'
  BY <1>0, <1>2, RejectedBounds, PrunedBounds DEF CheckOverLoad, WindowBounds, Times
<1>3. ASSUME NEW m \in Messages, CheckTooManyAtOnce(m) PROVE WindowBounds'
  BY <1>0, <1>3, RejectedBounds, PrunedBounds DEF CheckTooManyAtOnce, WindowBounds, Times
<1>4. ASSUME NEW m \in Messages, CheckGranted(m) PROVE WindowBounds'
  <2>1. /\ Len(Pruned) + 1 <= MaxRequests /\ requests' = Append(Pruned, now) /\ cooldown' = 0
        /\ granted' = Append(granted, now) /\ UNCHANGED <<now, slots, noticedUntil, refusedAt, notices>>
    BY <1>4 DEF CheckGranted
  <2>2. requests' \in Seq(Times) /\ Len(requests') = Len(Pruned) + 1
    BY <1>0, <2>1, PrunedBounds
  <2>3. granted' \in Seq(Times)
    BY <1>0, <2>1 DEF WindowBounds
  <2>4. 0 <= LastTime + CooldownLength
    BY <1>0
  <2>. QED BY <2>1, <2>2, <2>3, <2>4 DEF WindowBounds, Times
<1>5. ASSUME NEW m \in Messages, Acquire(m) \/ AcquireRefused(m) \/ Release(m) PROVE WindowBounds'
  <2>1. slots' <= MaxConcurrent
    BY <1>5, LimitsAreNumbers DEF Acquire, SlotTaken, AcquireRefused, Release, WindowTypes, WindowBounds
  <2>. QED BY <1>5, <2>1 DEF Acquire, SlotTaken, AcquireRefused, Release, WindowBounds, Times
<1>6. CASE CleanupExpired
  <2>1. /\ requests' = Pruned /\ UNCHANGED <<now, slots, granted, refusedAt, notices>>
        /\ cooldown' = (IF now >= cooldown THEN 0 ELSE cooldown)
        /\ noticedUntil' = (IF now >= noticedUntil THEN 0 ELSE noticedUntil)
    BY <1>6 DEF CleanupExpired, AfterCleanup
  <2>2. cooldown' <= LastTime + CooldownLength /\ noticedUntil' <= LastTime + NoticeWindow
    BY <1>0, <2>1 DEF WindowBounds
  <2>. QED BY <2>1, <2>2, PrunedBounds DEF WindowBounds, Times
<1>7. CASE ClockTick
  BY <1>0, <1>7 DEF ClockTick, WindowBounds, Times
<1>8. CASE UNCHANGED windowVars
  BY <1>8 DEF windowVars, WindowBounds, Times
<1>. QED BY <1>1, <1>2, <1>3, <1>4, <1>5, <1>6, <1>7, <1>8 DEF WindowNext

\* Times, requests, deadlines and slots of the window, within their bounds.
LEMMA WindowTyped == WindowSpec => []WindowTypeOK
<1>1. WindowInit => WindowBounds
  BY WindowAssumption, LimitsAreNumbers DEF WindowInit, WindowBounds, Times
<1>2. WindowInv /\ WindowBounds => WindowTypeOK
  <2>. SUFFICES ASSUME WindowInv, WindowBounds PROVE WindowTypeOK
    OBVIOUS
  <2>1. LastTime + CooldownLength \in Nat /\ LastTime + NoticeWindow \in Nat
    BY LimitsAreNumbers, WindowAssumption
  <2>2. /\ cooldown \in 0..LastTime + CooldownLength /\ noticedUntil \in 0..LastTime + NoticeWindow
        /\ slots \in 0..MaxConcurrent
    BY <2>1, LimitsAreNumbers DEF WindowInv, WindowTypes, WindowBounds
  <2>. QED BY <2>2 DEF WindowInv, WindowTypes, WindowBounds, WindowTypeOK
<1>3. WindowInv => WindowTypes
  BY DEF WindowInv
<1>. QED BY <1>1, <1>2, <1>3, WindowBoundsNext, WindowInvInit, WindowInvNext, PTL DEF WindowSpec

\* Every operation adds one at most, before it gives one back.
Begun == At(Places \ {"incr"})
Through == At({"delete", "over"})

SlotsBounds ==
  /\ {present, timed, wiped, broken} \subseteq BOOLEAN
  /\ counter <= Cardinality(Begun) /\ -counter <= Cardinality(Through)

\* An operation that moves has begun, and may be through.
LEMMA BegunAndThrough ==
  ASSUME place \in [Operations -> Places], NEW o \in Operations, NEW where \in Places \ {"incr"},
         place' = [place EXCEPT ![o] = where]
  PROVE  \E b, t \in Nat :
           /\ b = Cardinality(Begun) /\ t = Cardinality(Through)
           /\ Cardinality(Begun') = IF place[o] = "incr" THEN b + 1 ELSE b
           /\ Cardinality(Through') = IF where \in {"delete", "over"}
                                      THEN IF place[o] \in {"delete", "over"} THEN t ELSE t + 1
                                      ELSE IF place[o] \in {"delete", "over"} THEN t - 1 ELSE t
<1>1. PICK out \in SUBSET Places, done \in SUBSET Places :
        out = Places \ {"incr"} /\ done = {"delete", "over"}
  BY DEF Places
<1>2. /\ Cardinality(At(out)) \in Nat
      /\ Cardinality(At(out)') = IF where \in out
                                 THEN IF place[o] \in out THEN Cardinality(At(out))
                                      ELSE Cardinality(At(out)) + 1
                                 ELSE IF place[o] \in out THEN Cardinality(At(out)) - 1
                                      ELSE Cardinality(At(out))
  BY PlaceCounts
<1>3. /\ Cardinality(At(done)) \in Nat
      /\ Cardinality(At(done)') = IF where \in done
                                  THEN IF place[o] \in done THEN Cardinality(At(done))
                                       ELSE Cardinality(At(done)) + 1
                                  ELSE IF place[o] \in done THEN Cardinality(At(done)) - 1
                                       ELSE Cardinality(At(done))
  BY PlaceCounts
<1>4. Begun = At(out) /\ Begun' = At(out)' /\ Through = At(done) /\ Through' = At(done)'
  BY <1>1 DEF Begun, Through
<1>5. where \in out /\ (place[o] \in out <=> place[o] # "incr")
  BY <1>1
<1>6. Cardinality(Begun') = IF place[o] = "incr" THEN Cardinality(Begun) + 1 ELSE Cardinality(Begun)
  BY <1>2, <1>4, <1>5
<1>. QED BY <1>1, <1>2, <1>3, <1>4, <1>6

\* The counter's bounds are kept.
LEMMA SlotsBoundsNext == SlotsTypes /\ SlotsBounds /\ [SlotsNext]_slotsVars => SlotsBounds'
<1> SUFFICES ASSUME SlotsTypes, SlotsBounds, [SlotsNext]_slotsVars PROVE SlotsBounds'
  OBVIOUS
<1>0. /\ place \in [Operations -> Places] /\ counter \in Int
      /\ ~present => counter = 0 /\ ~timed
      /\ present \in BOOLEAN /\ timed \in BOOLEAN /\ wiped \in BOOLEAN /\ broken \in BOOLEAN
  BY DEF SlotsTypes, SlotsBounds
<1>1. ASSUME NEW o \in Operations, NEW where \in Places \ {"incr"}, Goes(o, where),
             place[o] = "expire" \/ place[o] = "undo" \/ place[o] = "holding" \/ place[o] = "incr"
             \/ place[o] = "delete",
             \/ counter' = counter
             \/ place[o] = "incr" /\ counter' = counter + 1
             \/ place[o] \in {"undo", "holding"} /\ where \in {"delete", "over"} /\ counter' = counter - 1
             \/ counter' = 0,
             place[o] = "delete" => where \in {"delete", "over"},
             {present', timed', wiped', broken'} \subseteq BOOLEAN
      PROVE  SlotsBounds'
  <2>1. PICK b, t \in Nat :
          /\ b = Cardinality(Begun) /\ t = Cardinality(Through)
          /\ Cardinality(Begun') = IF place[o] = "incr" THEN b + 1 ELSE b
          /\ Cardinality(Through') = IF where \in {"delete", "over"}
                                     THEN IF place[o] \in {"delete", "over"} THEN t ELSE t + 1
                                     ELSE IF place[o] \in {"delete", "over"} THEN t - 1 ELSE t
    BY <1>0, <1>1, BegunAndThrough DEF Goes
  <2>2. counter <= b /\ -counter <= t
    BY <2>1 DEF SlotsBounds
  <2>3. PICK b1, t1 \in Nat : b1 = Cardinality(Begun') /\ t1 = Cardinality(Through')
    BY <1>1, <2>1
  <2>4. b1 >= b /\ t1 >= t
    BY <1>1, <2>1, <2>3
  <2>5. counter' <= b1 /\ -counter' <= t1
    BY <1>0, <1>1, <2>1, <2>2, <2>3, <2>4
  <2>. QED BY <1>1, <2>3, <2>5 DEF SlotsBounds
<1>2. Places = {"incr", "expire", "undo", "holding", "delete", "over"}
  BY DEF Places
<1>3. ASSUME NEW o \in Operations, Incr(o) PROVE SlotsBounds'
  <2>1. /\ place[o] = "incr" /\ counter' = counter + 1 /\ Goes(o, AfterIncr(counter + 1))
        /\ present' = TRUE /\ UNCHANGED <<timed, wiped, broken>>
    BY <1>3 DEF Incr, Add
  <2>2. AfterIncr(counter + 1) \in Places \ {"incr"}
    BY <1>2 DEF AfterIncr
  <2>. QED BY <1>0, <1>1, <2>1, <2>2
<1>4. ASSUME NEW o \in Operations, SetExpiry(o) PROVE SlotsBounds'
  <2>1. /\ place[o] = "expire" /\ Goes(o, "holding") /\ timed' = present
        /\ UNCHANGED <<present, counter, wiped, broken>>
    BY <1>4 DEF SetExpiry
  <2>. QED BY <1>0, <1>1, <1>2, <2>1
<1>5. ASSUME NEW o \in Operations, Undo(o) PROVE SlotsBounds'
  <2>1. /\ place[o] = "undo" /\ Goes(o, "over") /\ counter' = counter - 1 /\ present' = TRUE
        /\ UNCHANGED <<timed, wiped, broken>>
    BY <1>0, <1>5 DEF Undo, Add
  <2>. QED BY <1>0, <1>1, <1>2, <2>1
<1>6. ASSUME NEW o \in Operations, Decr(o) PROVE SlotsBounds'
  <2>1. /\ place[o] = "holding" /\ Goes(o, AfterDecr(counter - 1)) /\ counter' = counter - 1
        /\ present' = TRUE /\ UNCHANGED <<timed, wiped, broken>>
    BY <1>0, <1>6 DEF Decr, Add
  <2>2. AfterDecr(counter - 1) \in {"delete", "over"}
    BY DEF AfterDecr
  <2>. QED BY <1>0, <1>1, <1>2, <2>1, <2>2
<1>7. ASSUME NEW o \in Operations, Delete(o) PROVE SlotsBounds'
  <2>1. /\ place[o] = "delete" /\ Goes(o, "over") /\ counter' = 0 /\ present' = FALSE /\ timed' = FALSE
        /\ wiped' \in BOOLEAN /\ UNCHANGED broken
    BY <1>0, <1>7 DEF Delete, KeyGone
  <2>. QED BY <1>0, <1>1, <1>2, <2>1
<1>8. ASSUME NEW o \in Operations, CommandFails(o) PROVE SlotsBounds'
  <2>1. /\ place[o] # "over" /\ Goes(o, "over") /\ broken' = TRUE /\ wiped' \in BOOLEAN
    BY <1>0, <1>8 DEF CommandFails
  <2>2. /\ present' \in BOOLEAN /\ timed' \in BOOLEAN
        /\ \/ counter' = counter
           \/ place[o] = "incr" /\ counter' = counter + 1
           \/ place[o] \in {"undo", "holding"} /\ counter' = counter - 1
           \/ counter' = 0
    BY <1>0, <1>8 DEF CommandFails, Add, KeyGone
  <2>3. place[o] \in Places
    BY <1>0
  <2>. QED BY <1>0, <1>1, <1>2, <2>1, <2>2, <2>3
<1>9. CASE KeyExpires
  <2>1. counter' = 0 /\ Begun' = Begun /\ Through' = Through
        /\ present' = FALSE /\ timed' = FALSE /\ wiped' \in BOOLEAN /\ broken' = broken
    BY <1>9 DEF KeyExpires, KeyGone, Begun, Through, At
  <2>2. Cardinality(Begun) \in Nat /\ Cardinality(Through) \in Nat
    BY SlotsAssumption, FS_Subset, FS_CardinalityType DEF Begun, Through, At
  <2>3. PICK b, t \in Nat : b = Cardinality(Begun) /\ t = Cardinality(Through)
    BY <2>2
  <2>4. Cardinality(Begun') = b /\ Cardinality(Through') = t
    BY <2>1, <2>3
  <2>5. counter' <= b /\ -counter' <= t
    BY <2>1, <2>3
  <2>. QED BY <1>0, <2>1, <2>4, <2>5 DEF SlotsBounds
<1>10. CASE UNCHANGED slotsVars
  BY <1>10 DEF slotsVars, SlotsBounds, Begun, Through, At
<1>. QED BY <1>3, <1>4, <1>5, <1>6, <1>7, <1>8, <1>9, <1>10 DEF SlotsNext, SlotsAtRest

\* The places of the operations, and the counter within the number of operations.
LEMMA SlotsTyped == SlotsSpec => []SlotsTypeOK
<1>1. SlotsInit => SlotsBounds
  <2>. SUFFICES ASSUME SlotsInit PROVE SlotsBounds
    OBVIOUS
  <2>1. Begun = {} /\ Through = {}
    BY DEF SlotsInit, Begun, Through, At
  <2>2. Cardinality(Begun) = 0 /\ Cardinality(Through) = 0
    BY <2>1, FS_EmptySet
  <2>3. counter = 0 /\ counter <= 0 /\ -counter <= 0
    BY DEF SlotsInit
  <2>. QED BY <2>2, <2>3 DEF SlotsInit, SlotsBounds
<1>2. SlotsInv /\ SlotsBounds => SlotsTypeOK
  <2>. SUFFICES ASSUME SlotsInv, SlotsBounds PROVE SlotsTypeOK
    OBVIOUS
  <2>1. Begun \subseteq Operations /\ Through \subseteq Operations
    BY DEF Begun, Through, At
  <2>2. PICK n \in Nat : n = Cardinality(Operations)
    BY SlotsAssumption, FS_CardinalityType
  <2>3. /\ Cardinality(Begun) \in Nat /\ Cardinality(Begun) <= n
        /\ Cardinality(Through) \in Nat /\ Cardinality(Through) <= n
    BY <2>1, <2>2, SlotsAssumption, FS_Subset, FS_CardinalityType
  <2>4. counter \in -n..n
    BY <2>3 DEF SlotsInv, SlotsTypes, SlotsBounds
  <2>. QED BY <2>2, <2>4 DEF SlotsInv, SlotsTypes, SlotsBounds, SlotsTypeOK
<1>3. SlotsInv => SlotsTypes
  BY DEF SlotsInv
<1>. QED BY <1>1, <1>2, <1>3, SlotsBoundsNext, SlotsInvInit, SlotsInvNext, PTL DEF SlotsSpec

\* What is counted of a bundle lies behind, and no count is above the number of items.
BundleBounds ==
  /\ extracted \subseteq succeeded /\ succeeded \subseteq 1..position /\ failing \subseteq 1..position
  /\ session \in {"none", "pending", "processing", "completed", "partial", "failed"}
  /\ counts \in [{"success", "failed", "duplicate"} -> 0..ItemCount]
  /\ output \in BOOLEAN
  /\ step = "emit" => position \in succeeded

\* The counters count items.
LEMMA CountersBounded ==
  ASSUME BundleBounds, position \in Positions
  PROVE  Counters(position) \in [{"success", "failed", "duplicate"} -> 0..ItemCount]
<1>1. /\ succeeded \subseteq Positions /\ failing \subseteq Positions
      /\ {q \in 1..position : IsDuplicate(q)} \subseteq Positions
  BY BundleAssumption DEF BundleBounds, Positions
<1>2. IsFiniteSet(Positions) /\ Cardinality(Positions) = ItemCount /\ ItemCount \in Nat
  <2>1. ItemCount \in Nat
    BY BundleAssumption
  <2>2. 1..ItemCount = Positions /\ (1 > ItemCount => ItemCount = 0) /\ ItemCount - 1 + 1 = ItemCount
    BY <2>1 DEF Positions
  <2>. QED BY <2>1, <2>2, FS_Interval
<1>3. ASSUME NEW S \in SUBSET Positions PROVE Cardinality(S) \in 0..ItemCount
  BY <1>2, FS_Subset, FS_CardinalityType
<1>4. /\ Cardinality(succeeded) \in 0..ItemCount /\ Cardinality(failing) \in 0..ItemCount
      /\ Cardinality({q \in 1..position : IsDuplicate(q)}) \in 0..ItemCount
  BY <1>1, <1>3
<1>. QED BY <1>4 DEF Counters

\* The bounds of a bundle are kept.
LEMMA BundleBoundsNext ==
  ASSUME BundleTypes, BundleBounds, [BundleNext]_bundleVars PROVE BundleBounds'
<1>1. position \in 1..ItemCount /\ ItemCount \in Nat
  BY BundleAssumption DEF BundleTypes, Positions
<1>2. CASE PersistCounts
  <2>1. counts' \in [{"success", "failed", "duplicate"} -> 0..ItemCount]
    BY <1>2, CountersBounded DEF PersistCounts, BundleTypes
  <2>2. position' \in {position, position + 1} /\ step' \in {"add", "total"}
        /\ UNCHANGED <<resultVars, session, output>>
    BY <1>2 DEF PersistCounts, NextItem
  <2>. QED BY <1>1, <2>1, <2>2 DEF BundleBounds, resultVars
<1>3. CASE TotalCounts
  <2>1. counts' \in [{"success", "failed", "duplicate"} -> 0..ItemCount]
    BY <1>3, CountersBounded DEF TotalCounts, BundleTypes
  <2>2. step' # "emit" /\ UNCHANGED <<position, resultVars, session, output>>
    BY <1>3 DEF TotalCounts
  <2>. QED BY <2>1, <2>2 DEF BundleBounds, resultVars
<1>4. CASE StoreDocument
  BY <1>1, <1>4 DEF StoreDocument, BundleBounds
<1>5. CASE EmitExtracted
  BY <1>5 DEF EmitExtracted, BundleBounds, sessionVars
<1>6. CASE ItemRaises
  BY <1>1, <1>6 DEF ItemRaises, BundleBounds
<1>7. CASE Synthesize
  BY <1>7 DEF Synthesize, BundleBounds, resultVars
<1>8. CASE SynthesisFails
  <2>1. output' \in BOOLEAN
    BY <1>8 DEF SynthesisFails, BundleBounds
  <2>. QED BY <1>8, <2>1 DEF SynthesisFails, BundleBounds, resultVars
<1>9. CASE CreateSession \/ StartSession \/ NothingExtracted \/ FailSession
  BY <1>9 DEF CreateSession, StartSession, NothingExtracted, FailSession, BundleBounds, resultVars
<1>10. CASE FinishSession
  BY <1>10 DEF FinishSession, OutputStatus, BundleBounds, resultVars
<1>11. CASE AddItem \/ MarkProcessing \/ RecordItemFailure
  BY <1>11 DEF AddItem, MarkProcessing, RecordItemFailure, BundleBounds, resultVars
<1>12. CASE ExtractItem \/ RunRaises
  BY <1>12 DEF ExtractItem, RunRaises, BundleBounds, resultVars, sessionVars
<1>13. CASE BundleAtRest \/ UNCHANGED bundleVars
  BY <1>13 DEF BundleAtRest, bundleVars, BundleBounds, resultVars, sessionVars
<1>. QED
  BY <1>2, <1>3, <1>4, <1>5, <1>6, <1>7, <1>8, <1>9, <1>10, <1>11, <1>12, <1>13 DEF BundleNext

\* Steps, rows, counts and the session of a bundle.
LEMMA BundleTyped == BundleSpec => []BundleTypeOK
<1>1. BundleInit => BundleBounds
  <2>1. Zero \in [{"success", "failed", "duplicate"} -> 0..ItemCount]
    BY BundleAssumption DEF Zero
  <2>. QED BY <2>1 DEF BundleInit, BundleBounds
<1>2. BundleInv /\ BundleBounds => BundleTypeOK
  BY DEF BundleInv, BundleTypes, BundleBounds, BundleTypeOK, LateSteps
<1>3. BundleTypes /\ BundleBounds /\ [BundleNext]_bundleVars => BundleBounds'
  BY BundleBoundsNext
<1>4. BundleInv /\ [BundleNext]_bundleVars => BundleInv'
  BY BundleInvNext
<1>5. BundleInv => BundleTypes
  BY DEF BundleInv
<1>. QED BY <1>1, <1>2, <1>3, <1>4, <1>5, BundleInvInit, PTL DEF BundleSpec

\* Tokens in the cache have rows.
RotationBounds ==
  /\ \A t \in cachedTokens : t \in Tokens /\ tokenRow[t] # "none"
  /\ endedTokens \subseteq Tokens
  /\ {disturbed, doubled} \subseteq BOOLEAN

\* The cache holds tokens with rows only, since a row is never removed.
LEMMA RotationBoundsNext ==
  ASSUME RotationTypes, RotationBounds, [RotationNext]_rotationVars PROVE RotationBounds'
<1> USE DEF RotationBounds
<1>1. ASSUME NEW r \in Refreshes,
             Present(r) \/ Answered(r) \/ AnswerLost(r) \/ LookupHit(r)
      PROVE  RotationBounds'
  BY <1>1 DEF Present, Answered, AnswerLost, LookupHit, Rejects, RefreshGoes
<1>2. ASSUME NEW r \in Refreshes, LookupMiss(r) PROVE RotationBounds'
  <2>1. presented[r] \in Tokens /\ tokenRow[presented[r]] # "none"
    BY <1>2 DEF LookupMiss, RotationTypes
  <2>2. cachedTokens' \subseteq cachedTokens \cup {presented[r]} /\ UNCHANGED <<tokenRow, disturbed, endedTokens, doubled>>
    BY <1>2 DEF LookupMiss
  <2>. QED BY <2>1, <2>2
<1>3. ASSUME NEW r \in Refreshes, Decide(r) PROVE RotationBounds'
  <2>1. UNCHANGED <<tokenRow, cachedTokens, disturbed, endedTokens>> /\ doubled' \in BOOLEAN
    BY <1>3 DEF Decide
  <2>. QED BY <2>1
<1>4. ASSUME NEW r \in Refreshes, Retire(r) PROVE RotationBounds'
  BY <1>4 DEF Retire, RotationTypes
<1>5. ASSUME NEW r \in Refreshes, Create(r) PROVE RotationBounds'
  <2>1. r + 1 \in Tokens
    BY TokensAreNumbers
  <2>2. /\ cachedTokens' \subseteq cachedTokens \cup {r + 1} /\ UNCHANGED <<disturbed, endedTokens, doubled>>
        /\ tokenRow' = [tokenRow EXCEPT ![r + 1] = "live"]
    BY <1>5 DEF Create
  <2>. QED BY <2>1, <2>2 DEF RotationTypes
<1>6. ASSUME NEW r \in Refreshes, RevokeFamily(r) PROVE RotationBounds'
  BY <1>6 DEF RevokeFamily, AllRevoked, RotationTypes
<1>7. ASSUME NEW r \in Refreshes, RefreshFails(r) PROVE RotationBounds'
  <2>1. UNCHANGED <<cachedTokens, endedTokens, doubled>> /\ disturbed' \in BOOLEAN
    BY <1>7 DEF RefreshFails
  <2>2. \A t \in Tokens : tokenRow[t] # "none" => tokenRow'[t] # "none"
    BY <1>7 DEF RefreshFails, AllRevoked, RotationTypes
  <2>. QED BY <2>1, <2>2
<1>8. ASSUME NEW t \in Tokens, EntryExpires(t) PROVE RotationBounds'
  BY <1>8 DEF EntryExpires
<1>9. CASE SignOut
  <2>1. UNCHANGED <<cachedTokens, endedTokens, doubled>> /\ disturbed' \in BOOLEAN
    BY <1>9 DEF SignOut
  <2>2. \A t \in Tokens : tokenRow[t] # "none" => tokenRow'[t] # "none"
    BY <1>9 DEF SignOut, RotationTypes
  <2>. QED BY <2>1, <2>2
<1>10. ASSUME NEW t \in Tokens, RevokeSession(t) PROVE RotationBounds'
  BY <1>10 DEF RevokeSession, RotationTypes
<1>11. CASE LogoutAll
  <2>1. /\ UNCHANGED <<cachedTokens, doubled>> /\ disturbed' \in BOOLEAN
        /\ endedTokens' = endedTokens \cup Live
    BY <1>11 DEF LogoutAll
  <2>2. \A t \in Tokens : tokenRow[t] # "none" => tokenRow'[t] # "none"
    BY <1>11 DEF LogoutAll, AllRevoked, RotationTypes
  <2>. QED BY <2>1, <2>2 DEF Live
<1>12. CASE UNCHANGED rotationVars
  BY <1>12 DEF rotationVars
<1>. QED
  BY <1>1, <1>2, <1>3, <1>4, <1>5, <1>6, <1>7, <1>8, <1>9, <1>10, <1>11, <1>12 DEF RotationNext, RotationAtRest

\* The tokens' rows, the cache and the requests of a login.
LEMMA RotationTyped == RotationSpec => []RotationTypeOK
<1>1. RotationInit => RotationBounds
  BY DEF RotationInit, RotationBounds, Tokens
<1>2. RotationInv /\ RotationBounds => RotationTypeOK
  BY DEF RotationInv, RotationTypes, RotationBounds, RotationTypeOK
<1>3. RotationInv => RotationTypes
  BY DEF RotationInv
<1>4. RotationTypes /\ RotationBounds /\ [RotationNext]_rotationVars => RotationBounds'
  BY RotationBoundsNext
<1>. QED BY <1>1, <1>2, <1>3, <1>4, RotationInvInit, RotationInvNext, PTL DEF RotationSpec

\* The batch is within its size and the analyses within the budget, and every mark and every
\* analysis under way has a row.
StarsBounds ==
  /\ link \in {"absent", "active", "needs_reauth"}
  /\ pending \subseteq Repos /\ unlucky \subseteq Repos /\ byHand \subseteq Repos /\ removed \subseteq Repos
  /\ \A r \in Repos :
       IF row[r] = "none"
       THEN r \notin pending \cup unlucky \cup byHand /\ ~InAnalysis(r)
       ELSE r \notin removed
  /\ IsFiniteSet(pendingBatch) /\ Cardinality(pendingBatch) <= BatchSize
  /\ made \in 0..Budget /\ replaced \in BOOLEAN
  /\ late \subseteq Repos

\* A batch that is empty, or the same, has its size.
LEMMA EmptyBatch == IsFiniteSet({}) /\ Cardinality({}) <= BatchSize /\ 0 \in 0..Budget
BY FS_EmptySet, StarsAssumption

\* A batch whose items change is not larger.
LEMMA ChangedBatch ==
  ASSUME StarsBounds, NEW f \in [pendingBatch -> Item], pendingBatch' = {f[x] : x \in pendingBatch}
  PROVE  IsFiniteSet(pendingBatch') /\ Cardinality(pendingBatch') <= BatchSize
<1>1. f \in Surjection(pendingBatch, pendingBatch')
  BY DEF Surjection
<1>2. IsFiniteSet(pendingBatch') /\ Cardinality(pendingBatch') <= Cardinality(pendingBatch)
  BY <1>1, FS_Surjection DEF StarsBounds
<1>3. Cardinality(pendingBatch') \in Nat /\ Cardinality(pendingBatch) \in Nat /\ BatchSize \in Nat
  BY <1>2, FS_CardinalityType, StarsAssumption DEF StarsBounds
<1>. QED BY <1>2, <1>3 DEF StarsBounds

\* The calls by hand keep the bounds.
LEMMA ByHandBounds ==
  ASSUME StarsTypes, StarsBounds, ByHandNext PROVE StarsBounds'
<1>0. PICK r \in Ingested : \/ Ingest(r) \/ Reanalyze(r) \/ DeleteRow(r)
                            \/ CallLoads(r) \/ CallPersists(r) \/ CallFails(r)
  BY DEF ByHandNext
<1>. r \in Repos
  BY StarsAssumption
<1>1. CASE Ingest(r)
  <2>1. /\ call' = [call EXCEPT ![r] = "begun"]
        /\ UNCHANGED <<link, pending, unlucky, pendingBatch, made, replaced, late>>
    BY <1>1 DEF Ingest, githubVars, markVars
  <2>2. /\ byHand' \subseteq byHand \cup {r} /\ removed' = removed \ {r}
        /\ row'[r] # "none" /\ r \notin removed'
        /\ \A q \in Repos \ {r} : /\ row'[q] = row[q] /\ call'[q] = call[q] /\ queued'[q] = queued[q]
                                  /\ q \in byHand' <=> q \in byHand
    <3>1. CASE row[r] = "none"
      BY <1>1, <2>1, <3>1 DEF Ingest, StarsTypes
    <3>2. CASE row[r] # "none"
      BY <1>1, <2>1, <3>2 DEF Ingest, recordVars, StarsTypes, StarsBounds
    <3>. QED BY <3>1, <3>2
  <2>. QED BY <2>1, <2>2 DEF StarsBounds, InAnalysis
<1>2. ASSUME Reanalyze(r) \/ CallLoads(r) \/ CallFails(r) PROVE StarsBounds'
  <2>1. /\ \E c \in {"no", "fresh"} : call' = [call EXCEPT ![r] = c]
        /\ unlucky' \in {unlucky, unlucky \cup {r}}
        /\ UNCHANGED <<row, removed, byHand, pending, queued, link, pendingBatch, made, replaced, late>>
    BY <1>2 DEF Reanalyze, CallLoads, CallFails, githubVars, recordVars, markVars, runVars
  <2>2. row[r] = "none" => call[r] \in {"no", "gone"} /\ queued[r] \notin ToLoad \cup Loaded
    BY DEF StarsBounds, InAnalysis, ToLoad, Loaded, StarsTypes
  <2>3. row[r] = "none" => unlucky' = unlucky /\ ~InAnalysis(r)'
    BY <1>2, <2>1, <2>2 DEF Reanalyze, CallLoads, CallFails, InAnalysis, ToLoad, Loaded, StarsTypes, markVars
  <2>4. \A q \in Repos \ {r} : call'[q] = call[q] /\ (q \in unlucky' <=> q \in unlucky)
    BY <2>1 DEF StarsTypes
  <2>. QED BY <2>1, <2>3, <2>4 DEF StarsBounds, InAnalysis
<1>3. CASE CallPersists(r)
  <2>1. /\ Persists(r, call[r]) /\ call' = [call EXCEPT ![r] = "no"]
        /\ UNCHANGED <<row, removed, byHand, queued, link, made, replaced, late>>
    BY <1>3 DEF CallPersists, githubVars, recordVars
  <2>2. row[r] # "none" /\ pending' \subseteq pending /\ unlucky' \subseteq unlucky \cup {r}
    BY <2>1 DEF Persists, StarsBounds, InAnalysis
  <2>3. \A q \in Repos : InAnalysis(q)' => InAnalysis(q)
    BY <2>1 DEF InAnalysis, StarsTypes, ToLoad, Loaded
  <2>4. PICK a \in {"current", "stale"} : pendingBatch' = {Reanalyzed(x, r, a) : x \in pendingBatch}
    BY <1>3 DEF CallPersists
  <2>5. \A x \in pendingBatch : Reanalyzed(x, r, a) \in Item
    BY DEF Reanalyzed, StarsTypes, Item
  <2>6. PICK f \in [pendingBatch -> Item] : \A x \in pendingBatch : f[x] = Reanalyzed(x, r, a)
    <3>1. [x \in pendingBatch |-> Reanalyzed(x, r, a)] \in [pendingBatch -> Item]
      BY <2>5
    <3>. QED BY <3>1
  <2>7. IsFiniteSet(pendingBatch') /\ Cardinality(pendingBatch') <= BatchSize
    BY <2>4, <2>6, ChangedBatch
  <2>. QED BY <2>1, <2>2, <2>3, <2>7 DEF StarsBounds
<1>4. CASE DeleteRow(r)
  <2>1. /\ row' = [row EXCEPT ![r] = "none"]
        /\ pending' = pending \ {r} /\ unlucky' = unlucky \ {r}
        /\ removed' = removed \cup {r} /\ byHand' = byHand \ {r}
        /\ call' = [call EXCEPT ![r] = IF call[r] = "no" THEN "no" ELSE "gone"]
        /\ queued' = [queued EXCEPT ![r] = IF queued[r] = "due" THEN "gone"
                                           ELSE IF queued[r] \in Loaded THEN "lost" ELSE queued[r]]
        /\ pendingBatch' = {Orphaned(x, r) : x \in pendingBatch}
        /\ UNCHANGED <<link, made, replaced, late>>
    BY <1>4 DEF DeleteRow, githubVars
  <2>2. ~InAnalysis(r)'
    BY <2>1 DEF InAnalysis, StarsTypes, ToLoad, Loaded
  <2>3. \A q \in Repos \ {r} : row'[q] = row[q] /\ (InAnalysis(q)' <=> InAnalysis(q))
    BY <2>1 DEF InAnalysis, StarsTypes
  <2>4. ASSUME NEW x \in pendingBatch PROVE Orphaned(x, r) \in Item
    <3>1. x.drift \in BOOLEAN /\ (row[r] = "unstarred") \in BOOLEAN /\ x \in Item
      BY DEF StarsTypes, Item
    <3>2. PICK d \in BOOLEAN : d <=> (x.drift \/ row[r] = "unstarred")
      OBVIOUS
    <3>3. (x.drift \/ row[r] = "unstarred") = d
      BY <3>2
    <3>4. Orphaned(x, r) = IF x.repo = r /\ x.of = "row"
                           THEN [x EXCEPT !.of = "gone", !.drift = d] ELSE x
      BY <3>3 DEF Orphaned
    <3>. QED BY <3>1, <3>4 DEF Item
  <2>5. PICK f \in [pendingBatch -> Item] : \A x \in pendingBatch : f[x] = Orphaned(x, r)
    <3>1. [x \in pendingBatch |-> Orphaned(x, r)] \in [pendingBatch -> Item]
      BY <2>4
    <3>. QED BY <3>1
  <2>6. IsFiniteSet(pendingBatch') /\ Cardinality(pendingBatch') <= BatchSize
    BY <2>1, <2>5, ChangedBatch
  <2>7. row'[r] = "none" /\ r \notin pending' \cup unlucky' \cup byHand'
    BY <2>1 DEF StarsTypes
  <2>. QED BY <2>1, <2>2, <2>3, <2>6, <2>7 DEF StarsBounds
<1>. QED BY <1>0, <1>1, <1>2, <1>3, <1>4

\* The bounds of the sync are kept.
LEMMA StarsBoundsNext ==
  ASSUME StarsInv, StarsBounds, [StarsNext]_starsVars PROVE StarsBounds'
<1>0. StarsTypes
  BY DEF StarsInv
<1>1. ASSUME NEW r \in Repos, Star(r) \/ Unstar(r) PROVE StarsBounds'
  BY <1>1 DEF Star, Unstar, StarsBounds, repoVars, recordVars, markVars, runVars, InAnalysis
<1>2. ASSUME NEW r \in Repos, TakeItem(r) PROVE StarsBounds'
  <2>1. PICK item : pendingBatch' = pendingBatch \cup {item}
    <3>1. PICK drift \in BOOLEAN, becomes \in Rewritten(analysis[r]) :
            pendingBatch' = pendingBatch \cup
              {[repo |-> r, of |-> IF row[r] = "none" THEN "new" ELSE "row", drift |-> drift,
                analysis |-> becomes, needs |-> becomes # "current" \/ r \in pending]}
      BY <1>2 DEF TakeItem
    <3>. QED BY <3>1
  <2>2. Cardinality(pendingBatch) \in Nat /\ BatchSize \in Nat /\ Cardinality(pendingBatch) < BatchSize
    <3>1. Cardinality(pendingBatch) < BatchSize
      BY <1>2 DEF TakeItem
    <3>. QED BY <3>1, FS_CardinalityType, StarsAssumption DEF StarsBounds
  <2>3. IsFiniteSet(pendingBatch') /\ Cardinality(pendingBatch') <= Cardinality(pendingBatch) + 1
    <3>1. IsFiniteSet(pendingBatch)
      BY DEF StarsBounds
    <3>2. IsFiniteSet(pendingBatch \cup {item})
          /\ Cardinality(pendingBatch \cup {item}) = IF item \in pendingBatch THEN Cardinality(pendingBatch)
                                                   ELSE Cardinality(pendingBatch) + 1
      BY <3>1, FS_AddElement
    <3>. QED BY <2>1, <2>2, <3>2
  <2>4. Cardinality(pendingBatch') \in Nat
    BY <2>3, FS_CardinalityType
  <2>5. Cardinality(pendingBatch') <= BatchSize
    BY <2>2, <2>3, <2>4
  <2>6. UNCHANGED <<link, pending, unlucky, row, removed, byHand, call, queued, made, replaced, late>>
    BY <1>2 DEF TakeItem, githubVars, repoVars, recordVars, markVars
  <2>. QED BY <2>3, <2>5, <2>6 DEF StarsBounds, InAnalysis
<1>3. ASSUME NEW r \in Repos, Defer(r) \/ AnalysisLoads(r) \/ AnalysisFails(r) PROVE StarsBounds'
  <2>1. /\ UNCHANGED <<link, row, removed, byHand, call, pendingBatch, replaced, late>>
        /\ pending' \subseteq pending \cup {r} /\ unlucky' \subseteq unlucky \cup {r}
        /\ \E a \in {"no", "fresh"} : queued' = [queued EXCEPT ![r] = a]
    BY <1>3 DEF Defer, AnalysisLoads, AnalysisFails, Leaves, githubVars, repoVars, recordVars, markVars
  <2>2. made' \in 0..Budget
    BY <1>3, StarsAssumption DEF Defer, AnalysisLoads, AnalysisFails, HasBudget, StarsBounds
  <2>3. row[r] = "none" => r \notin pending' \cup unlucky' /\ ~InAnalysis(r)'
    <3>1. ASSUME row[r] = "none" PROVE r \notin pending' \cup unlucky' /\ ~InAnalysis(r)'
      <4>1. /\ call[r] \notin ToLoad \cup Loaded /\ queued[r] \notin {"due", "fresh", "outdated"}
            /\ r \notin pending \cup unlucky
        BY <3>1 DEF StarsBounds, InAnalysis, ToLoad, Loaded
      <4>2. pending' = pending /\ unlucky' = unlucky /\ queued' = [queued EXCEPT ![r] = "no"]
        BY <1>3, <4>1 DEF Defer, AnalysisLoads, AnalysisFails, Leaves, repoVars, markVars, Loaded
      <4>. QED BY <2>1, <4>1, <4>2, <1>0 DEF InAnalysis, ToLoad, Loaded, StarsTypes
    <3>. QED BY <3>1
  <2>4. \A q \in Repos \ {r} : InAnalysis(q)' <=> InAnalysis(q)
    BY <1>0, <2>1 DEF InAnalysis, StarsTypes
  <2>. QED BY <2>1, <2>2, <2>3, <2>4 DEF StarsBounds
<1>4. ASSUME NEW r \in Repos, AnalysisPersists(r) PROVE StarsBounds'
  <2>1. /\ Persists(r, queued[r]) /\ queued' = [queued EXCEPT ![r] = "no"]
        /\ UNCHANGED <<row, removed, byHand, call, pendingBatch, link, made, replaced, late>>
    BY <1>4 DEF AnalysisPersists, Leaves, githubVars, recordVars
  <2>2. row[r] # "none" /\ pending' \subseteq pending /\ unlucky' \subseteq unlucky \cup {r}
    BY <2>1 DEF Persists, StarsBounds, InAnalysis
  <2>3. \A q \in Repos : InAnalysis(q)' => InAnalysis(q)
    BY <1>0, <2>1 DEF InAnalysis, StarsTypes, ToLoad, Loaded
  <2>. QED BY <2>1, <2>2, <2>3 DEF StarsBounds
<1>5. CASE Connect \/ Revoke
  <2>1. UNCHANGED <<row, removed, byHand, pending, unlucky, call, queued, pendingBatch, made, late>>
        /\ link' \in {"active", "absent"} /\ replaced' \in BOOLEAN
    BY <1>5 DEF Connect, Revoke, githubVars, repoVars, recordVars, markVars, runVars, StarsBounds
  <2>. QED BY <2>1 DEF StarsBounds, InAnalysis
<1>6. CASE ListStarred
  BY <1>6 DEF ListStarred, StarsBounds, githubVars, repoVars, recordVars, markVars, InAnalysis
<1>7. CASE FlushBatch
  <2>1. /\ row' = [r \in Repos |-> IF r \in InBatch({x \in pendingBatch : x.of # "gone"})
                                   THEN "starred" ELSE row[r]]
        /\ removed' = removed \ InBatch({x \in pendingBatch : x.of = "new"})
        /\ pending' = pending \cup InBatch({x \in pendingBatch : x.of = "new"})
        /\ call' = [r \in Repos |-> IF Writes(r) THEN Overtaken(call[r]) ELSE call[r]]
        /\ queued' = [r \in Repos |->
             IF \E x \in pendingBatch : x.repo = r /\ x.needs
             THEN IF \E x \in pendingBatch : x.repo = r /\ x.of = "gone" THEN "gone" ELSE "due"
             ELSE queued[r]]
        /\ pendingBatch' = {} /\ UNCHANGED <<link, byHand, unlucky, made, replaced, late>>
    BY <1>7 DEF FlushBatch, StartsPending, githubVars
  <2>2. \A x \in pendingBatch : x.repo \in Repos /\ (x.of = "row" => row[x.repo] # "none")
    BY <1>0 DEF StarsInv, BatchIsTrue, StarsTypes, Item
  <2>3. \A x \in pendingBatch : x.of \in {"new", "row", "gone"}
    BY <1>0 DEF StarsTypes, Item
  <2>4. pending' \subseteq Repos /\ removed' \subseteq Repos
    BY <2>1, <2>2 DEF StarsBounds, InBatch
  <2>5. ASSUME NEW r \in Repos, row'[r] = "none"
        PROVE  r \notin pending' \cup unlucky' \cup byHand' /\ ~InAnalysis(r)'
    <3>1. row[r] = "none" /\ r \notin InBatch({x \in pendingBatch : x.of # "gone"})
      BY <2>1, <2>5
    <3>2. \A x \in pendingBatch : x.repo = r => x.of = "gone"
      BY <3>1 DEF InBatch
    <3>3. r \notin InBatch({x \in pendingBatch : x.of = "new"})
      BY <3>2 DEF InBatch
    <3>4. r \notin pending \cup unlucky \cup byHand /\ ~InAnalysis(r)
      BY <3>1 DEF StarsBounds
    <3>5. call'[r] = call[r]
      BY <2>1, <3>2 DEF Writes
    <3>6. queued'[r] \in {queued[r], "gone"}
      BY <2>1, <3>2
    <3>. QED BY <2>1, <3>3, <3>4, <3>5, <3>6 DEF InAnalysis, ToLoad, Loaded
  <2>6. ASSUME NEW r \in Repos, row'[r] # "none" PROVE r \notin removed'
    <3>1. CASE row[r] # "none"
      BY <2>1, <3>1 DEF StarsBounds
    <3>2. CASE row[r] = "none"
      <4>1. r \in InBatch({x \in pendingBatch : x.of # "gone"})
        BY <2>1, <2>6, <3>2
      <4>2. PICK x \in pendingBatch : x.repo = r /\ x.of # "gone"
        BY <4>1 DEF InBatch
      <4>3. x.of = "new"
        BY <2>2, <2>3, <3>2, <4>2
      <4>4. r \in InBatch({y \in pendingBatch : y.of = "new"})
        BY <4>2, <4>3 DEF InBatch
      <4>. QED BY <2>1, <4>4
    <3>. QED BY <3>1, <3>2
  <2>. QED BY <2>1, <2>4, <2>5, <2>6, EmptyBatch DEF StarsBounds
<1>8. CASE TakeStars
  <2>1. /\ row' = [r \in Repos |-> IF row[r] = "starred" /\ seen # {} /\ r \notin seen
                                   THEN "unstarred" ELSE row[r]]
        /\ UNCHANGED <<link, removed, byHand, pending, unlucky, call, queued, pendingBatch, made, replaced,
                       late>>
    BY <1>8 DEF TakeStars, githubVars, markVars
  <2>2. \A r \in Repos : row'[r] = "none" <=> row[r] = "none"
    BY <2>1
  <2>. QED BY <2>1, <2>2 DEF StarsBounds, InAnalysis
<1>9. CASE Stamp
  <2>1. /\ UNCHANGED <<link, row, removed, byHand, pending, unlucky, call, queued, pendingBatch, made,
                       replaced>>
        /\ late' \subseteq late \cup recent
    BY <1>9 DEF Stamp, Stamped, repoVars, recordVars, markVars
  <2>. QED BY <1>0, <2>1 DEF StarsBounds, InAnalysis, StarsTypes
<1>10. CASE EndSync \/ SyncFails \/ AuthFails
  <2>1. /\ queued' = [r \in Repos |-> "no"] /\ pendingBatch' = {} /\ made' = 0 /\ replaced' = FALSE
        /\ UNCHANGED <<row, removed, byHand, pending, call, late>>
        /\ unlucky' \subseteq unlucky \cup {r \in Repos : queued[r] \in {"due"} \cup Loaded}
        /\ link' \in {link, "needs_reauth"}
    BY <1>10 DEF EndSync, SyncFails, AuthFails, RunCleared, CutOff, githubVars, repoVars, recordVars, markVars
  <2>2. \A r \in Repos : (InAnalysis(r)' => InAnalysis(r)) /\ (r \in unlucky' => r \in unlucky \/ InAnalysis(r))
    BY <2>1 DEF InAnalysis, ToLoad, Loaded
  <2>3. unlucky' \subseteq Repos
    BY <2>1 DEF StarsBounds
  <2>. QED BY <2>1, <2>2, <2>3, EmptyBatch DEF StarsBounds
<1>11. CASE UNCHANGED starsVars
  BY <1>11 DEF starsVars, githubVars, repoVars, recordVars, markVars, runVars, StarsBounds, InAnalysis
<1>. QED
  BY <1>0, <1>1, <1>2, <1>3, <1>4, <1>5, <1>6, <1>7, <1>8, <1>9, <1>10, <1>11, ByHandBounds
     DEF StarsNext, SyncNext

\* Stars, rows, marks, the batch and the budget of a sync.
LEMMA StarsTyped == StarsSpec => []StarsTypeOK
<1>1. StarsInit => StarsBounds
  BY EmptyBatch DEF StarsInit, StarsBounds, InAnalysis, ToLoad, Loaded
<1>2. StarsInv /\ StarsBounds => StarsTypeOK
  <2>1. StarsInv /\ StarsBounds => /\ \A r \in pending \cup unlucky \cup byHand : row[r] # "none"
                                 /\ \A r \in removed : row[r] = "none"
    BY DEF StarsBounds
  <2>. QED BY <2>1 DEF StarsInv, StarsTypes, BatchIsTrue, StarsBounds, StarsTypeOK
<1>3. StarsInv /\ StarsBounds /\ [StarsNext]_starsVars => StarsBounds'
  BY StarsBoundsNext
<1>. QED BY <1>1, <1>2, <1>3, StarsInvInit, StarsInvNext, PTL DEF StarsSpec

\* The attempts that are past a change: each has written it once at most.
PastIt(c) ==
  {a \in Attempts : change[a] > c \/ (change[a] = c /\ attempt[a] \in {"answered", "failed"})}

\* An attempt at work has a result for each change before the one it is at, and who is
\* answered has all of them.
RetryBounds ==
  /\ \A a \in Attempts :
       /\ Len(results[a]) <= ChangeCount
       /\ attempt[a] \in {"new", "read", "write"} => Len(results[a]) = change[a] - 1
       /\ attempt[a] = "answered" => results[a] \in Answers
  /\ cache \in [Workers -> Answers \cup {NoAnswer}]
  /\ given \in [Workers -> SUBSET Answers] /\ known \in [Attempts -> SUBSET Answers]

WritesCounted == \A c \in Changes : applied[c] <= Cardinality(PastIt(c))

\* A sequence of results for all changes is an answer.
LEMMA FullIsAnswer ==
  ASSUME NEW s \in Seq(Statuses), Len(s) = ChangeCount PROVE s \in Answers
BY DEF Answers, Changes

\* The result of a change leaves one for each change up to it.
LEMMA ResultBounds ==
  ASSUME RetryTypes, AtWork, RetryBounds, NEW a \in Attempts, NEW answer \in Statuses,
         Result(a, answer), attempt[a] \in {"read", "write"}, UNCHANGED known
  PROVE  RetryBounds'
<1>1. /\ onWorker[a] \in Workers /\ change[a] \in Changes /\ change[a] \in Nat /\ ChangeCount \in Nat
      /\ change[a] <= ChangeCount
  BY RetryAssumption DEF AtWork, Changes
<1>2. PICK s \in Seq(Statuses) : s = results[a] /\ Len(s) = change[a] - 1
  BY DEF RetryTypes, RetryBounds
<1>3. Append(s, answer) \in Seq(Statuses) /\ Len(Append(s, answer)) = change[a]
  BY <1>1, <1>2
<1>4. results'[a] = Append(s, answer) /\ \A b \in Attempts : b # a => results'[b] = results[b]
  BY <1>2 DEF Result, RetryTypes
<1>5. CASE change[a] < ChangeCount
  <2>1. /\ change' = [change EXCEPT ![a] = @ + 1] /\ attempt' = [attempt EXCEPT ![a] = "read"]
        /\ UNCHANGED <<cache, given>>
    BY <1>5 DEF Result
  <2>2. change'[a] = change[a] + 1 /\ attempt'[a] = "read"
        /\ \A b \in Attempts : b # a => change'[b] = change[b] /\ attempt'[b] = attempt[b]
    BY <2>1 DEF RetryTypes
  <2>3. Len(results'[a]) <= ChangeCount /\ Len(results'[a]) = change'[a] - 1
    BY <1>1, <1>3, <1>4, <2>2
  <2>. QED BY <1>4, <2>1, <2>2, <2>3 DEF RetryBounds
<1>6. CASE ~(change[a] < ChangeCount)
  <2>1. /\ attempt' = [attempt EXCEPT ![a] = "answered"] /\ UNCHANGED change
        /\ cache' = [cache EXCEPT ![onWorker[a]] = results'[a]]
        /\ given' = [given EXCEPT ![onWorker[a]] = @ \cup {results'[a]}]
    BY <1>6 DEF Result, Remembered
  <2>2. Len(results'[a]) = ChangeCount
    BY <1>1, <1>3, <1>4, <1>6
  <2>3. results'[a] \in Answers
    BY <1>3, <1>4, <2>2, FullIsAnswer
  <2>4. cache' \in [Workers -> Answers \cup {NoAnswer}] /\ given' \in [Workers -> SUBSET Answers]
    BY <1>1, <2>1, <2>3 DEF RetryBounds
  <2>5. attempt'[a] = "answered" /\ \A b \in Attempts : b # a => attempt'[b] = attempt[b]
    BY <2>1 DEF RetryTypes
  <2>6. Len(results'[a]) <= ChangeCount
    BY <1>1, <2>2
  <2>. QED BY <1>4, <2>1, <2>3, <2>4, <2>5, <2>6 DEF RetryBounds
<1>. QED BY <1>5, <1>6

\* The results stay within the number of changes.
LEMMA RetryBoundsNext ==
  ASSUME RetryInv, RetryBounds, [RetryNext]_retryVars PROVE RetryBounds'
<1>0. RetryTypes /\ AtWork
  BY DEF RetryInv
<1>1. ASSUME NEW a \in Attempts, NEW w \in Workers, BeginAttempt(a, w) PROVE RetryBounds'
  <2>1. /\ attempt[a] = "new" /\ UNCHANGED <<change, cache, given>>
        /\ known' = [known EXCEPT ![a] = given[w]]
        /\ IF cache[w] # NoAnswer
           THEN attempt' = [attempt EXCEPT ![a] = "answered"] /\ results' = [results EXCEPT ![a] = cache[w]]
           ELSE attempt' = [attempt EXCEPT ![a] = "read"] /\ results' = results
    BY <1>1 DEF BeginAttempt
  <2>2. known' \in [Attempts -> SUBSET Answers]
    BY <2>1 DEF RetryBounds
  <2>3. CASE cache[w] # NoAnswer
    <3>1. cache[w] \in Answers /\ cache[w] \in Seq(Statuses)
      BY <1>0, <2>3 DEF RetryBounds, RetryTypes
    <3>2. Len(cache[w]) = ChangeCount
      BY <3>1, RetryAssumption DEF Answers, Changes
    <3>3. attempt'[a] = "answered" /\ results'[a] = cache[w]
          /\ \A b \in Attempts : b # a => attempt'[b] = attempt[b] /\ results'[b] = results[b]
      BY <1>0, <2>1, <2>3 DEF RetryTypes
    <3>4. Len(results'[a]) <= ChangeCount
      BY <3>2, <3>3, RetryAssumption
    <3>. QED BY <2>1, <2>2, <3>1, <3>3, <3>4 DEF RetryBounds
  <2>4. CASE cache[w] = NoAnswer
    <3>1. results' = results /\ attempt'[a] = "read" /\ \A b \in Attempts : b # a => attempt'[b] = attempt[b]
      BY <1>0, <2>1, <2>4 DEF RetryTypes
    <3>. QED BY <2>1, <2>2, <3>1 DEF RetryBounds
  <2>. QED BY <2>3, <2>4
<1>2. ASSUME NEW a \in Attempts, ReadRow(a) PROVE RetryBounds'
  <2>1. CASE Conflicts(change[a])
    <3>1. Result(a, "conflict") /\ attempt[a] \in {"read", "write"} /\ UNCHANGED known /\ "conflict" \in Statuses
      BY <1>2, <2>1 DEF ReadRow, Statuses
    <3>. QED BY <1>0, <3>1, ResultBounds
  <2>2. CASE ~Conflicts(change[a])
    <3>1. /\ attempt[a] = "read" /\ attempt' = [attempt EXCEPT ![a] = "write"]
          /\ UNCHANGED <<change, results, cache, given, known>>
      BY <1>2, <2>2 DEF ReadRow
    <3>. QED BY <1>0, <3>1 DEF RetryBounds, RetryTypes
  <2>. QED BY <2>1, <2>2
<1>3. ASSUME NEW a \in Attempts, WriteRow(a) PROVE RetryBounds'
  <2>1. Result(a, "applied") /\ attempt[a] \in {"read", "write"} /\ UNCHANGED known /\ "applied" \in Statuses
    BY <1>3 DEF WriteRow, Statuses
  <2>. QED BY <1>0, <2>1, ResultBounds
<1>4. ASSUME NEW a \in Attempts, AttemptFails(a) PROVE RetryBounds'
  <2>1. attempt' = [attempt EXCEPT ![a] = "failed"] /\ UNCHANGED <<change, results, cache, given, known>>
    BY <1>4 DEF AttemptFails
  <2>. QED BY <1>0, <2>1 DEF RetryBounds, RetryTypes
<1>5. ASSUME NEW c \in Changes, OtherClientWrites(c) PROVE RetryBounds'
  BY <1>5 DEF OtherClientWrites, RetryBounds
<1>6. ASSUME NEW w \in Workers, Forgets(w) PROVE RetryBounds'
  <2>1. /\ cache' = [cache EXCEPT ![w] = NoAnswer] /\ given' = [given EXCEPT ![w] = {}]
        /\ UNCHANGED <<attempt, change, results, known>>
    BY <1>6 DEF Forgets
  <2>. QED BY <2>1 DEF RetryBounds
<1>7. CASE RetryAtRest \/ UNCHANGED retryVars
  BY <1>7 DEF RetryAtRest, retryVars, RetryBounds
<1>. QED BY <1>1, <1>2, <1>3, <1>4, <1>5, <1>6, <1>7 DEF RetryNext

\* Who is past a change stays past it.
LEMMA PastStay ==
  ASSUME IsFiniteSet(Attempts), NEW c \in Changes,
         \A b \in PastIt(c) : b \in PastIt(c)'
  PROVE  /\ Cardinality(PastIt(c)) \in Nat /\ Cardinality(PastIt(c)') \in Nat
         /\ Cardinality(PastIt(c)) <= Cardinality(PastIt(c)')
         /\ \A a \in PastIt(c)' \ PastIt(c) : Cardinality(PastIt(c)) + 1 <= Cardinality(PastIt(c)')
<1>1. PastIt(c) \subseteq PastIt(c)' /\ PastIt(c)' \subseteq Attempts
  BY DEF PastIt
<1>2. IsFiniteSet(PastIt(c)') /\ IsFiniteSet(PastIt(c))
  BY <1>1, FS_Subset
<1>3. /\ Cardinality(PastIt(c)) \in Nat /\ Cardinality(PastIt(c)') \in Nat
      /\ Cardinality(PastIt(c)) <= Cardinality(PastIt(c)')
  BY <1>1, <1>2, FS_Subset, FS_CardinalityType
<1>4. ASSUME NEW a \in PastIt(c)' \ PastIt(c)
      PROVE  Cardinality(PastIt(c)) + 1 <= Cardinality(PastIt(c)')
  <2>1. Cardinality(PastIt(c) \cup {a}) = Cardinality(PastIt(c)) + 1
    BY <1>2, FS_AddElement
  <2>2. PastIt(c) \cup {a} \subseteq PastIt(c)'
    BY <1>1
  <2>3. Cardinality(PastIt(c) \cup {a}) <= Cardinality(PastIt(c)')
    BY <1>2, <2>2, FS_Subset
  <2>. QED BY <2>1, <2>3
<1>. QED BY <1>3, <1>4

\* An attempt that writes a change is past it from then on.
LEMMA WritingCounts ==
  ASSUME IsFiniteSet(Attempts), RetryTypes, AtWork, WritesCounted, NEW a \in Attempts,
         attempt[a] = "write", attempt' \in [Attempts -> {"new", "read", "write", "answered", "failed"}],
         attempt'[a] \in {"read", "answered", "failed"},
         attempt'[a] = "read" => change'[a] = change[a] + 1,
         attempt'[a] # "read" => change'[a] = change[a],
         \A b \in Attempts : b # a => attempt'[b] = attempt[b] /\ change'[b] = change[b],
         applied' = applied \/ applied' = [applied EXCEPT ![change[a]] = @ + 1]
  PROVE  WritesCounted'
<1>1. change[a] \in Nat /\ change[a] \in Changes
  BY DEF RetryTypes, AtWork
<1>2. SUFFICES ASSUME NEW c \in Changes PROVE applied'[c] <= Cardinality(PastIt(c)')
  BY DEF WritesCounted
<1>3. c \in Nat /\ applied[c] \in Nat
  <2>1. c \in Nat
    BY RetryAssumption DEF Changes
  <2>. QED BY <2>1 DEF RetryTypes
<1>4. \A b \in PastIt(c) : b \in PastIt(c)'
  <2>. SUFFICES ASSUME NEW b \in PastIt(c) PROVE b \in PastIt(c)'
    OBVIOUS
  <2>1. CASE b = a
    <3>1. c < change[a]
      BY <2>1 DEF PastIt
    <3>2. attempt'[a] = "read" => c < change'[a]
      <4>. SUFFICES ASSUME attempt'[a] = "read" PROVE c < change'[a]
        OBVIOUS
      <4>1. change'[a] = change[a] + 1
        OBVIOUS
      <4>. QED BY <1>1, <1>3, <3>1, <4>1
    <3>3. attempt'[a] # "read" => c < change'[a]
      BY <3>1
    <3>4. c < change'[a]
      BY <3>2, <3>3
    <3>. QED BY <2>1, <3>4 DEF PastIt
  <2>2. CASE b # a
    <3>1. b \in Attempts
      BY DEF PastIt
    <3>. QED BY <2>2, <3>1 DEF PastIt
  <2>. QED BY <2>1, <2>2
<1>5. PICK n, m \in Nat : /\ n = Cardinality(PastIt(c)) /\ m = Cardinality(PastIt(c)') /\ n <= m
                          /\ \A b \in PastIt(c)' \ PastIt(c) : n + 1 <= m
  BY <1>4, PastStay
<1>6. applied[c] <= n
  BY <1>5 DEF WritesCounted
<1>7. CASE applied'[c] = applied[c]
  BY <1>3, <1>5, <1>6, <1>7
<1>8. CASE applied'[c] # applied[c]
  <2>1. c = change[a] /\ applied'[c] = applied[c] + 1
    BY <1>1, <1>3, <1>8 DEF RetryTypes
  <2>2. a \in PastIt(c)' \ PastIt(c)
    BY <1>1, <2>1 DEF PastIt
  <2>3. n + 1 <= m
    BY <1>5, <2>2
  <2>. QED BY <1>3, <1>5, <1>6, <2>1, <2>3
<1>. QED BY <1>7, <1>8

\* A step that writes nothing leaves who is past a change.
LEMMA NoWriteCounts ==
  ASSUME IsFiniteSet(Attempts), RetryTypes, WritesCounted, applied' = applied,
         \A c \in Changes : \A b \in PastIt(c) : b \in PastIt(c)'
  PROVE  WritesCounted'
<1>1. SUFFICES ASSUME NEW c \in Changes PROVE applied'[c] <= Cardinality(PastIt(c)')
  BY DEF WritesCounted
<1>2. PICK n, m \in Nat : n = Cardinality(PastIt(c)) /\ m = Cardinality(PastIt(c)') /\ n <= m
  BY PastStay
<1>3. applied[c] \in Nat /\ applied[c] <= n
  BY <1>2 DEF RetryTypes, WritesCounted
<1>. QED BY <1>2, <1>3

\* What an attempt is at after a result.
LEMMA ResultMoves ==
  ASSUME RetryTypes, AtWork, NEW a \in Attempts, NEW answer, Result(a, answer)
  PROVE  /\ attempt'[a] \in {"read", "answered"}
         /\ attempt' \in [Attempts -> {"new", "read", "write", "answered", "failed"}]
         /\ attempt'[a] = "read" => change'[a] = change[a] + 1
         /\ attempt'[a] # "read" => change'[a] = change[a]
         /\ \A b \in Attempts : b # a => attempt'[b] = attempt[b] /\ change'[b] = change[b]
<1>1. CASE change[a] < ChangeCount
  BY <1>1 DEF Result, RetryTypes
<1>2. CASE ~(change[a] < ChangeCount)
  BY <1>2 DEF Result, RetryTypes
<1>. QED BY <1>1, <1>2

\* No change is written more often than there are attempts past it.
LEMMA WritesCountedNext ==
  ASSUME IsFiniteSet(Attempts), RetryInv, WritesCounted, [RetryNext]_retryVars PROVE WritesCounted'
<1>0. RetryTypes /\ AtWork
  BY DEF RetryInv
<1>1. ASSUME NEW a \in Attempts, NEW w \in Workers, BeginAttempt(a, w) PROVE WritesCounted'
  <2>1. attempt[a] = "new" /\ UNCHANGED <<change, applied>>
        /\ \A b \in Attempts : b # a => attempt'[b] = attempt[b]
    BY <1>0, <1>1 DEF BeginAttempt, RetryTypes
  <2>2. \A c \in Changes : \A b \in PastIt(c) : b \in PastIt(c)'
    BY <2>1 DEF PastIt
  <2>. QED BY <1>0, <2>1, <2>2, NoWriteCounts
<1>2. ASSUME NEW a \in Attempts, ReadRow(a) PROVE WritesCounted'
  <2>1. attempt[a] = "read" /\ applied' = applied
    BY <1>2 DEF ReadRow
  <2>2. CASE Conflicts(change[a])
    <3>1. Result(a, "conflict")
      BY <1>2, <2>2 DEF ReadRow
    <3>2. /\ attempt'[a] = "read" => change'[a] = change[a] + 1
          /\ attempt'[a] # "read" => change'[a] = change[a]
          /\ \A b \in Attempts : b # a => attempt'[b] = attempt[b] /\ change'[b] = change[b]
      BY <1>0, <3>1, ResultMoves
    <3>3. ASSUME NEW c \in Changes, NEW b \in PastIt(c) PROVE b \in PastIt(c)'
      <4>1. b \in Attempts
        BY DEF PastIt
      <4>2. CASE b = a
        <5>1. c \in Nat /\ change[a] \in Nat /\ c < change[a]
          <6>1. c \in Nat
            BY RetryAssumption DEF Changes
          <6>2. c < change[a]
            BY <2>1, <4>2 DEF PastIt
          <6>. QED BY <1>0, <6>1, <6>2 DEF RetryTypes
        <5>2. change'[a] = change[a] + 1 \/ change'[a] = change[a]
          BY <3>2
        <5>3. c < change'[a]
          BY <5>1, <5>2
        <5>. QED BY <4>2, <5>3 DEF PastIt
      <4>3. CASE b # a
        BY <3>2, <4>1, <4>3 DEF PastIt
      <4>. QED BY <4>2, <4>3
    <3>. QED BY <1>0, <2>1, <3>3, NoWriteCounts
  <2>3. CASE ~Conflicts(change[a])
    <3>1. UNCHANGED change /\ \A b \in Attempts : b # a => attempt'[b] = attempt[b]
      BY <1>0, <1>2, <2>3 DEF ReadRow, RetryTypes
    <3>2. \A c \in Changes : \A b \in PastIt(c) : b \in PastIt(c)'
      BY <2>1, <3>1 DEF PastIt
    <3>. QED BY <1>0, <2>1, <3>2, NoWriteCounts
  <2>. QED BY <2>2, <2>3
<1>3. ASSUME NEW a \in Attempts, WriteRow(a) PROVE WritesCounted'
  <2>1. Result(a, "applied") /\ attempt[a] = "write" /\ applied' = [applied EXCEPT ![change[a]] = @ + 1]
    BY <1>3 DEF WriteRow
  <2>. QED BY <1>0, <2>1, ResultMoves, WritingCounts
<1>4. ASSUME NEW a \in Attempts, AttemptFails(a) PROVE WritesCounted'
  <2>1. /\ attempt[a] \in {"read", "write"} /\ attempt' = [attempt EXCEPT ![a] = "failed"] /\ UNCHANGED change
        /\ \/ applied' = applied
           \/ attempt[a] = "write" /\ applied' = [applied EXCEPT ![change[a]] = @ + 1]
    BY <1>4 DEF AttemptFails
  <2>2. /\ attempt' \in [Attempts -> {"new", "read", "write", "answered", "failed"}]
        /\ attempt'[a] = "failed" /\ \A b \in Attempts : b # a => attempt'[b] = attempt[b]
    BY <1>0, <2>1 DEF RetryTypes
  <2>3. CASE attempt[a] = "write"
    BY <1>0, <2>1, <2>2, <2>3, WritingCounts
  <2>4. CASE attempt[a] # "write"
    <3>1. \A c \in Changes : \A b \in PastIt(c) : b \in PastIt(c)'
      BY <2>1, <2>2 DEF PastIt
    <3>. QED BY <1>0, <2>1, <2>4, <3>1, NoWriteCounts
  <2>. QED BY <2>3, <2>4
<1>5. ASSUME NEW c \in Changes, OtherClientWrites(c) PROVE WritesCounted'
  BY <1>5 DEF OtherClientWrites, WritesCounted, PastIt
<1>6. ASSUME NEW w \in Workers, Forgets(w) PROVE WritesCounted'
  BY <1>6 DEF Forgets, WritesCounted, PastIt
<1>7. CASE RetryAtRest \/ UNCHANGED retryVars
  BY <1>7 DEF RetryAtRest, retryVars, WritesCounted, PastIt
<1>. QED BY <1>1, <1>2, <1>3, <1>4, <1>5, <1>6, <1>7 DEF RetryNext

\* The attempts, their results and answers, and how often a change has been written.
LEMMA RetryTyped == ASSUME IsFiniteSet(Attempts) PROVE RetrySpec => []RetryTypeOK
<1>1. RetryInit => RetryBounds /\ WritesCounted
  <2>. SUFFICES ASSUME RetryInit PROVE RetryBounds /\ WritesCounted
    OBVIOUS
  <2>1. RetryBounds
    BY RetryAssumption DEF RetryInit, RetryBounds
  <2>2. ASSUME NEW c \in Changes PROVE applied[c] <= Cardinality(PastIt(c))
    <3>1. PastIt(c) \subseteq Attempts
      BY DEF PastIt
    <3>2. Cardinality(PastIt(c)) \in Nat
      BY <3>1, FS_Subset, FS_CardinalityType
    <3>. QED BY <3>2 DEF RetryInit
  <2>. QED BY <2>1, <2>2 DEF WritesCounted
<1>2. ASSUME RetryInv, RetryBounds, WritesCounted PROVE RetryTypeOK
  <2>0. RetryTypes /\ AtWork
    BY <1>2 DEF RetryInv
  <2>1. change \in [Attempts -> Changes]
    BY <2>0 DEF RetryTypes, AtWork
  <2>2. ASSUME NEW a \in Attempts
        PROVE  results[a] \in UNION {[1..n -> Statuses] : n \in 0..ChangeCount}
    <3>1. PICK s \in Seq(Statuses) : s = results[a] /\ Len(s) <= ChangeCount
      BY <1>2, <2>0 DEF RetryTypes, RetryBounds
    <3>2. s \in [1..Len(s) -> Statuses] /\ Len(s) \in 0..ChangeCount
      BY <3>1, RetryAssumption
    <3>. QED BY <3>1, <3>2
  <2>3. applied \in [Changes -> 0..Cardinality(Attempts)]
    <3>1. ASSUME NEW c \in Changes PROVE applied[c] \in 0..Cardinality(Attempts)
      <4>1. PastIt(c) \subseteq Attempts
        BY DEF PastIt
      <4>2. Cardinality(PastIt(c)) \in Nat /\ Cardinality(Attempts) \in Nat
            /\ Cardinality(PastIt(c)) <= Cardinality(Attempts)
        BY <4>1, FS_Subset, FS_CardinalityType
      <4>3. applied[c] \in Nat /\ applied[c] <= Cardinality(PastIt(c))
        BY <1>2, <2>0 DEF RetryTypes, WritesCounted
      <4>. QED BY <4>2, <4>3
    <3>. QED BY <2>0, <3>1 DEF RetryTypes
  <2>. QED BY <1>2, <2>0, <2>1, <2>2, <2>3 DEF RetryTypes, RetryBounds, RetryTypeOK
<1>3. RetryInv /\ RetryBounds /\ WritesCounted /\ [RetryNext]_retryVars => RetryBounds' /\ WritesCounted'
  BY RetryBoundsNext, WritesCountedNext
<1>. QED BY <1>1, <1>2, <1>3, RetryInvInit, RetryInvNext, PTL DEF RetrySpec

\* A poll's list has items of its own, and no more of them than the cap.
ItemsOf(list) == {d[2] : d \in list}
ListFits(r) ==
  /\ Cardinality(ItemsOf(r.list)) <= MaxItemsPerPoll
  /\ r.at \in {"prepare", "mark", "send"} => r.list # {}

RssBounds ==
  /\ etag \in -1..LastItem /\ active \in BOOLEAN /\ {unmodified, overtaken} \subseteq BOOLEAN
  /\ due \subseteq AllPairs /\ forgone \subseteq AllPairs /\ skipped \subseteq ItemIds
  /\ \A p \in Polls : ListFits(poll[p])

\* Lists of pairs have finitely many items.
LEMMA FewerItems ==
  ASSUME NEW more \in SUBSET AllPairs, NEW less \in SUBSET more
  PROVE  /\ IsFiniteSet(ItemsOf(more)) /\ Cardinality(ItemsOf(more)) \in Nat
         /\ ItemsOf(more) \subseteq ItemIds
         /\ Cardinality(ItemsOf(less)) \in Nat
         /\ Cardinality(ItemsOf(less)) <= Cardinality(ItemsOf(more))
<1>1. ItemsOf(less) \subseteq ItemsOf(more) /\ ItemsOf(more) \subseteq ItemIds
  BY DEF ItemsOf, AllPairs
<1>2. IsFiniteSet(ItemIds)
  BY RssAssumption, FS_Interval DEF ItemIds
<1>3. IsFiniteSet(ItemsOf(more))
  BY <1>1, <1>2, FS_Subset
<1>. QED BY <1>1, <1>3, FS_Subset, FS_CardinalityType

\* A set of items that is not empty has a least and a greatest one.
LEMMA ExtremeItems ==
  ASSUME NEW S \in SUBSET ItemIds, S # {}
  PROVE  /\ \E i \in S : \A j \in S : i <= j
         /\ \E i \in S : \A j \in S : j <= i
<1> DEFINE R == OpToRel(<, Nat)
           D == {LastItem - i : i \in S}
<1>1. IsWellFoundedOn(R, Nat)
  BY NatLessThanWellFounded DEF OpToRel
<1>2. S \subseteq Nat /\ D \subseteq Nat /\ D # {}
  <2>1. \A i \in S : i \in Nat /\ LastItem - i \in Nat
    BY RssAssumption DEF ItemIds
  <2>. QED BY <2>1
<1>3. \A i, j \in Nat : i < j => <<i, j>> \in R
  BY DEF OpToRel
<1> HIDE DEF R, D
<1>4. PICK i \in S : \A j \in S : ~ (<<j, i>> \in R)
  BY <1>1, <1>2, WFMin
<1>5. PICK d \in D : \A e \in D : ~ (<<e, d>> \in R)
  BY <1>1, <1>2, WFMin
<1>6. ASSUME NEW j \in S PROVE i <= j
  <2>1. i \in Nat /\ j \in Nat /\ ~(j < i)
    BY <1>2, <1>3, <1>4
  <2>. QED BY <2>1
<1>7. PICK k \in S : d = LastItem - k
  BY DEF D
<1>8. ASSUME NEW j \in S PROVE j <= k
  <2>1. LastItem - j \in D /\ LastItem - j \in Nat /\ d \in Nat /\ LastItem \in Nat /\ j \in Nat /\ k \in Nat
    BY <1>2, RssAssumption DEF D
  <2>2. ~(LastItem - j < d)
    BY <1>3, <1>5, <2>1
  <2>. QED BY <1>7, <2>1, <2>2
<1>. QED BY <1>6, <1>8

\* deliver_new_items takes the newest items, no more than max_items_per_poll.
LEMMA CapHolds ==
  ASSUME NEW all \in SUBSET AllPairs PROVE Cardinality(ItemsOf(Capped(all))) <= MaxItemsPerPoll
<1> DEFINE T == ItemsOf(Capped(all))
           Newer(i) == {e[2] : e \in {f \in all : f[2] > i}}
<1>1. Capped(all) \subseteq all
  BY DEF Capped
<1>2. IsFiniteSet(ItemsOf(all)) /\ IsFiniteSet(T) /\ Cardinality(T) \in Nat /\ T \subseteq ItemIds
  <2>1. T \subseteq ItemsOf(all)
    BY <1>1 DEF ItemsOf
  <2>2. IsFiniteSet(ItemsOf(all)) /\ ItemsOf(all) \subseteq ItemIds
    BY FewerItems
  <2>3. IsFiniteSet(T)
    BY <2>1, <2>2, FS_Subset
  <2> HIDE DEF T
  <2>. QED BY <2>1, <2>2, <2>3, FS_CardinalityType
<1>3. CASE T = {}
  BY <1>3, FS_EmptySet, RssAssumption
<1>4. CASE T # {}
  <2>1. PICK i \in T : \A j \in T : i <= j
    <3> HIDE DEF T
    <3>. QED BY <1>2, <1>4, ExtremeItems
  <2>2. PICK d \in Capped(all) : d[2] = i
    BY <2>1 DEF ItemsOf
  <2>3. Cardinality(Newer(i)) < MaxItemsPerPoll
    BY <2>2 DEF Capped
  <2>4. Newer(i) \subseteq ItemsOf(all)
    BY DEF ItemsOf
  <2>5. T \ {i} \subseteq Newer(i)
    <3>1. SUFFICES ASSUME NEW j \in T, j # i PROVE j \in Newer(i)
      OBVIOUS
    <3>2. PICK e \in Capped(all) : e[2] = j
      BY <3>1 DEF ItemsOf
    <3>3. j > i
      BY <1>2, <2>1, <3>1, RssAssumption DEF ItemIds
    <3>. QED BY <1>1, <3>2, <3>3
  <2> HIDE DEF T, Newer
  <2>6. IsFiniteSet(Newer(i)) /\ IsFiniteSet(T \ {i})
    BY <1>2, <2>4, <2>5, FS_Subset
  <2>7. Cardinality(T \ {i}) <= Cardinality(Newer(i)) /\ Cardinality(Newer(i)) \in Nat
    BY <2>5, <2>6, FS_Subset, FS_CardinalityType
  <2>8. Cardinality(T \ {i}) = Cardinality(T) - 1
    BY <1>2, <2>1, FS_RemoveElement
  <2>. QED BY <1>2, <2>3, <2>7, <2>8, RssAssumption DEF T
<1>. QED BY <1>3, <1>4

\* The item a run is at is one of its list's.
LEMMA TargetIsListed ==
  ASSUME NEW p \in Polls, poll[p].list \subseteq AllPairs, poll[p].list # {}
  PROVE  TargetItem(p) \in ItemIds
<1> DEFINE S == ItemsOf(poll[p].list)
<1>1. S \subseteq ItemIds /\ S # {}
  BY FewerItems DEF ItemsOf
<1>2. PICK i \in S : \A j \in S : j <= i
  <2> HIDE DEF S
  <2>. QED BY <1>1, ExtremeItems
<1>3. i \in {d[2] : d \in poll[p].list} /\ \A d \in poll[p].list : d[2] <= i
  BY <1>2 DEF ItemsOf
<1>4. TargetItem(p) \in {d[2] : d \in poll[p].list}
  BY <1>3 DEF TargetItem
<1>. QED BY <1>1, <1>4 DEF ItemsOf

\* An empty list has no items.
LEMMA NoItems == Cardinality(ItemsOf({})) <= MaxItemsPerPoll
<1>1. ItemsOf({}) = {}
  BY DEF ItemsOf
<1>. QED BY <1>1, FS_EmptySet, RssAssumption

\* A run whose list only shrinks, and that goes on with it only while it has items.
LEMMA ListShrinks ==
  ASSUME RssTypes, RssBounds, NEW p \in Polls, NEW new, poll' = [poll EXCEPT ![p] = new],
         new.list \subseteq poll[p].list, new.at \in {"prepare", "mark", "send"} => new.list # {}
  PROVE  \A q \in Polls : ListFits(poll'[q])
<1>1. poll'[p] = new /\ \A q \in Polls \ {p} : poll'[q] = poll[q]
  BY DEF RssTypes
<1>2. poll[p].list \subseteq AllPairs
  BY DEF RssTypes, Poll
<1>3. /\ Cardinality(ItemsOf(new.list)) \in Nat /\ Cardinality(ItemsOf(poll[p].list)) \in Nat
      /\ Cardinality(ItemsOf(new.list)) <= Cardinality(ItemsOf(poll[p].list))
  BY <1>2, FewerItems
<1>4. Cardinality(ItemsOf(poll[p].list)) <= MaxItemsPerPoll
  BY DEF RssBounds, ListFits
<1>5. ListFits(new)
  BY <1>3, <1>4, RssAssumption DEF ListFits
<1>. QED BY <1>1, <1>5 DEF RssBounds

\* A run that is over has no list.
LEMMA FinishBounds ==
  ASSUME RssTypes, RssBounds, NEW p \in Polls, Finish(p)
  PROVE  \A q \in Polls : ListFits(poll'[q])
BY ListShrinks DEF Finish, IdlePoll

\* A poll goes on to its next item, or ends, with a list that fits.
LEMMA NextBounds ==
  ASSUME RssTypes, RssBounds, NEW p \in Polls, NextTarget(p)
  PROVE  \A q \in Polls : ListFits(poll'[q])
<1>1. CASE Pairs(p) = poll[p].list
  BY <1>1, FinishBounds DEF NextTarget
<1>2. CASE Pairs(p) # poll[p].list
  <2> DEFINE new == [poll[p] EXCEPT !.at = "prepare", !.list = @ \ Pairs(p), !.to = NoOneYet]
  <2>0. poll[p] \in Poll
    BY DEF RssTypes
  <2>1. /\ new.list = poll[p].list \ Pairs(p) /\ poll' = [poll EXCEPT ![p] = new]
        /\ Pairs(p) \subseteq poll[p].list
    <3>1. new.list = poll[p].list \ Pairs(p)
      BY <2>0 DEF Poll
    <3>2. poll' = [poll EXCEPT ![p] = new]
      BY <1>2 DEF NextTarget
    <3>. QED BY <3>1, <3>2 DEF Pairs
  <2> HIDE DEF new
  <2>. QED BY <1>2, <2>1, ListShrinks
<1>. QED BY <1>1, <1>2

\* Polls, deliveries and subscriptions keep the lists within the cap.
LEMMA RssBoundsNext == RssInv /\ RssBounds /\ [RssNext]_rssVars => RssBounds'
<1> SUFFICES ASSUME RssInv, RssBounds, [RssNext]_rssVars PROVE RssBounds'
  OBVIOUS
<1>0. RssTypes /\ \A p \in Polls : PollFits(p)
  BY DEF RssInv
<1>1. CASE PublishItem \/ (\E u \in Users : ChangeSubscription(u)) \/ UNCHANGED rssVars
  BY <1>1 DEF PublishItem, ChangeSubscription, rssVars, feedVars, sendVars, RssBounds
<1>2. ASSUME NEW p \in Polls,
             BeginPoll(p) \/ Fetch(p) \/ StoreItems(p) \/ FetchSucceeds(p) \/ FetchFails(p)
             \/ ReadErrors(p) \/ WriteErrors(p)
      PROVE  RssBounds'
  <2>1. poll[p] \in Poll /\ poll[p].list = {}
    <3>1. poll[p].at \notin {"prepare", "mark", "send"}
      BY <1>2 DEF BeginPoll, Fetch, StoreItems, FetchSucceeds, FetchFails, ReadErrors, WriteErrors
    <3>. QED BY <1>0, <3>1 DEF PollFits, RssTypes
  <2>2. poll'[p].list = {} /\ poll'[p].at \notin {"prepare", "mark", "send"}
    <3>1. CASE BeginPoll(p) \/ Fetch(p)
      <4>1. \/ poll'[p] = [IdlePoll EXCEPT !.at = "fetch", !.etag = etag]
            \/ poll'[p] = [IdlePoll EXCEPT !.at = "over"]
            \/ poll'[p] = [poll[p] EXCEPT !.at = "store", !.found = onFeed]
        BY <3>1, <1>0 DEF BeginPoll, Fetch, Finish, RssTypes
      <4>. QED BY <2>1, <4>1 DEF IdlePoll, Poll
    <3>2. CASE StoreItems(p)
      BY <3>2, <2>1, <1>0 DEF StoreItems, Poll, RssTypes
    <3>3. CASE FetchSucceeds(p) \/ FetchFails(p) \/ WriteErrors(p)
      <4>1. \E next \in {"over", "query", "failing"} : poll' = [poll EXCEPT ![p].at = next]
        BY <3>3 DEF FetchSucceeds, FetchFails, WriteErrors, Step, ToDelivery
      <4>. QED BY <4>1, <2>1, <1>0 DEF Poll, RssTypes
    <3>4. CASE ReadErrors(p)
      BY <3>4, <2>1, <1>0 DEF ReadErrors, RssTypes, Poll
    <3>. QED BY <1>2, <3>1, <3>2, <3>3, <3>4
  <2>3. \A q \in Polls : ListFits(poll'[q])
    <3>1. \A q \in Polls \ {p} : poll'[q] = poll[q]
      BY <1>2, <1>0 DEF BeginPoll, Fetch, StoreItems, FetchSucceeds, FetchFails, ReadErrors, WriteErrors,
         Finish, Step, RssTypes
    <3>2. ListFits(poll'[p])
      BY <2>2, NoItems DEF ListFits
    <3>. QED BY <3>1, <3>2 DEF RssBounds
  <2>4. poll[p].found \in 0..LastItem
    BY <2>1 DEF Poll
  <2>5. etag' \in -1..LastItem
    <3>1. etag' = etag \/ etag' = poll[p].found
      BY <1>2 DEF BeginPoll, Fetch, StoreItems, FetchSucceeds, FetchFails, ReadErrors, WriteErrors, feedVars
    <3>. QED BY <2>4, <3>1, RssAssumption DEF RssBounds
  <2>6. active' \in BOOLEAN /\ unmodified' \in BOOLEAN /\ overtaken' \in BOOLEAN
    BY <1>2, Zenon DEF BeginPoll, Fetch, StoreItems, FetchSucceeds, FetchFails, ReadErrors, WriteErrors, feedVars,
       RssBounds
  <2>7. UNCHANGED <<due, forgone, skipped>>
    BY <1>2 DEF BeginPoll, Fetch, StoreItems, FetchSucceeds, FetchFails, ReadErrors, WriteErrors, sendVars
  <2>. QED BY <2>3, <2>5, <2>6, <2>7 DEF RssBounds
<1>3. ASSUME NEW p \in Polls, UNCHANGED feedVars, due' \subseteq AllPairs, forgone' \subseteq AllPairs,
             skipped' \subseteq ItemIds, \A q \in Polls : ListFits(poll'[q])
      PROVE  RssBounds'
  BY <1>3 DEF RssBounds, feedVars
<1>4. ASSUME NEW p \in Polls, QueryTargets(p) PROVE RssBounds'
  <2> DEFINE all == Targets(p)
             list == Capped(all)
  <2>1. all \subseteq AllPairs /\ list \subseteq all
    BY <1>0 DEF Targets, Capped, RssTypes, Poll, AllPairs
  <2>2. Cardinality(ItemsOf(list)) <= MaxItemsPerPoll
    BY <2>1, CapHolds
  <2>3. /\ forgone' = forgone \cup (all \ list) /\ due' = due \cup all
        /\ UNCHANGED <<feedVars, skipped>>
        /\ list = {} => Finish(p)
        /\ list # {} => poll' = [poll EXCEPT ![p].at = "prepare", ![p].list = list]
    BY <1>4 DEF QueryTargets
  <2> HIDE DEF all, list
  <2>4. \A q \in Polls : ListFits(poll'[q])
    <3>1. CASE list = {}
      BY <3>1, <2>3, <1>0, FinishBounds
    <3>2. CASE list # {}
      <4>1. poll'[p].list = list /\ \A q \in Polls \ {p} : poll'[q] = poll[q]
        BY <3>2, <2>3, <1>0 DEF RssTypes, Poll
      <4>. QED BY <3>2, <4>1, <2>2 DEF ListFits, RssBounds
    <3>. QED BY <3>1, <3>2
  <2>5. due' \subseteq AllPairs /\ forgone' \subseteq AllPairs /\ skipped' \subseteq ItemIds
    BY <2>1, <2>3 DEF RssBounds
  <2>. QED BY <1>3, <2>3, <2>4, <2>5
<1>5. ASSUME NEW p \in Polls
      PROVE  poll[p] \in Poll /\ poll[p].list \subseteq AllPairs /\ Pairs(p) \subseteq AllPairs
  BY <1>0 DEF RssTypes, Poll, Pairs
<1>6. ASSUME NEW p \in Polls, PrepareItem(p) PROVE RssBounds'
  <2>1. poll[p].at = "prepare" /\ poll[p].list # {} /\ UNCHANGED <<feedVars, due>>
    BY <1>6 DEF PrepareItem, RssBounds, ListFits
  <2>2. TargetItem(p) \in ItemIds
    BY <1>5, <2>1, TargetIsListed
  <2>3. CASE /\ poll' = [poll EXCEPT ![p].at = "send",
                              ![p].to = [u \in Users |-> IF u \in Targeted(p) THEN "wait" ELSE "no"]]
             /\ UNCHANGED <<skipped, forgone>>
    <3> DEFINE new == [poll[p] EXCEPT !.at = "send",
                         !.to = [u \in Users |-> IF u \in Targeted(p) THEN "wait" ELSE "no"]]
    <3>1. new.list = poll[p].list /\ poll' = [poll EXCEPT ![p] = new]
      BY <2>3, <1>5 DEF Poll
    <3> HIDE DEF new
    <3>2. \A q \in Polls : ListFits(poll'[q])
      BY <1>0, <2>1, <3>1, ListShrinks
    <3>. QED BY <1>3, <2>1, <2>3, <3>2 DEF RssBounds
  <2>4. CASE Step(p, "mark") /\ skipped' = skipped \cup {TargetItem(p)} /\ UNCHANGED forgone
    <3> DEFINE new == [poll[p] EXCEPT !.at = "mark"]
    <3>1. new.list = poll[p].list /\ poll' = [poll EXCEPT ![p] = new]
      BY <2>4, <1>5 DEF Poll, Step
    <3> HIDE DEF new
    <3>2. \A q \in Polls : ListFits(poll'[q])
      BY <1>0, <2>1, <3>1, ListShrinks
    <3>3. skipped' \subseteq ItemIds
      BY <2>2, <2>4 DEF RssBounds
    <3>. QED BY <1>3, <2>1, <2>4, <3>2, <3>3 DEF RssBounds
  <2>5. CASE NextTarget(p) /\ forgone' = forgone \cup Pairs(p) /\ UNCHANGED skipped
    <3>1. \A q \in Polls : ListFits(poll'[q])
      BY <1>0, <2>5, NextBounds
    <3>2. forgone' \subseteq AllPairs
      BY <1>5, <2>5 DEF RssBounds
    <3>. QED BY <1>3, <2>1, <2>5, <3>1, <3>2 DEF RssBounds
  <2>. QED BY <1>6, <2>3, <2>4, <2>5 DEF PrepareItem
<1>7. ASSUME NEW p \in Polls, MarkSkipped(p) \/ ItemSent(p) PROVE RssBounds'
  <2>1. NextTarget(p) /\ UNCHANGED <<feedVars, due, skipped>> /\ (forgone' = forgone \/ forgone' = forgone \cup Pairs(p))
    BY <1>7 DEF MarkSkipped, ItemSent, sendVars
  <2>2. \A q \in Polls : ListFits(poll'[q])
    BY <1>0, <2>1, NextBounds
  <2>3. forgone' \subseteq AllPairs
    BY <1>5, <2>1 DEF RssBounds
  <2>. QED BY <1>3, <2>1, <2>2, <2>3 DEF RssBounds
<1>8. ASSUME NEW p \in Polls, PollDies(p) PROVE RssBounds'
  <2>1. Finish(p) /\ UNCHANGED <<feedVars, due, skipped>> /\ forgone' = forgone \cup poll[p].list
    BY <1>8 DEF PollDies
  <2>2. \A q \in Polls : ListFits(poll'[q])
    BY <1>0, <2>1, FinishBounds
  <2>3. forgone' \subseteq AllPairs
    BY <1>5, <2>1 DEF RssBounds
  <2>. QED BY <1>3, <2>1, <2>2, <2>3 DEF RssBounds
<1>9. ASSUME NEW p \in Polls, NEW u \in Users, Send(p, u) \/ MarkSent(p, u) PROVE RssBounds'
  <2>1. /\ poll[p].at = "send" /\ poll[p].to[u] # "no" /\ UNCHANGED <<feedVars, due, skipped>>
        /\ forgone' \subseteq forgone \cup {<<u, TargetItem(p)>>}
        /\ \E done \in {"mark", "done"} : poll' = [poll EXCEPT ![p].to[u] = done]
    BY <1>9 DEF Send, MarkSent
  <2>2. PICK done : poll' = [poll EXCEPT ![p].to[u] = done]
    BY <2>1
  <2> DEFINE new == [poll[p] EXCEPT !.to[u] = done]
  <2>3. new.list = poll[p].list /\ poll' = [poll EXCEPT ![p] = new]
    BY <2>2, <1>5 DEF Poll
  <2> HIDE DEF new
  <2>4. poll[p].list # {}
    BY <2>1 DEF RssBounds, ListFits
  <2>5. \A q \in Polls : ListFits(poll'[q])
    BY <1>0, <2>3, <2>4, ListShrinks
  <2>6. <<u, TargetItem(p)>> \in Pairs(p)
    BY <1>0, <2>1 DEF PollFits
  <2>7. forgone' \subseteq AllPairs
    BY <1>5, <2>1, <2>6 DEF RssBounds
  <2>. QED BY <1>3, <2>1, <2>5, <2>7 DEF RssBounds
<1>. QED BY <1>1, <1>2, <1>4, <1>6, <1>7, <1>8, <1>9 DEF RssNext

\* A run's list keeps to the cap and to what the run has stored itself.
LEMMA RssTyped == RssSpec => []RssTypeOK
<1>1. RssInit => RssBounds
  <2>. SUFFICES ASSUME RssInit PROVE RssBounds
    OBVIOUS
  <2>1. ListFits(IdlePoll)
    BY NoItems DEF ListFits, IdlePoll
  <2>2. \A p \in Polls : poll[p] = IdlePoll
    BY DEF RssInit
  <2>3. etag \in -1..LastItem
    BY RssAssumption DEF RssInit
  <2>. QED BY <2>1, <2>2, <2>3 DEF RssInit, RssBounds
<1>2. ASSUME RssInv, RssBounds PROVE RssTypeOK
  <2>1. RssTypes
    BY <1>2 DEF RssInv
  <2>2. ASSUME NEW p \in Polls
        PROVE  /\ poll[p].at \in PollPlaces
               /\ poll[p].own \subseteq stored
               /\ poll[p].list \subseteq Users \X poll[p].own
               /\ Cardinality({d[2] : d \in poll[p].list}) <= MaxItemsPerPoll
               /\ poll[p].to \in [Users -> {"no", "wait", "mark", "done"}]
               /\ poll[p].at \in {"prepare", "mark", "send"} => poll[p].list # {}
    <3>1. PollFits(p) /\ ListFits(poll[p])
      BY <1>2 DEF RssInv, RssBounds
    <3>2. poll[p] \in Poll
      BY <2>1 DEF RssTypes
    <3>3. poll[p].list \subseteq Users \X poll[p].own
      <4>1. \A d \in poll[p].list : d \in Users \X ItemIds /\ d[2] \in poll[p].own
        BY <3>1, <3>2 DEF PollFits, Poll, AllPairs
      <4>. QED BY <4>1
    <3>. QED BY <3>1, <3>2, <3>3 DEF PollFits, ListFits, ItemsOf, Poll
  <2>3. {deliveries, due, forgone} \subseteq SUBSET (Users \X ItemIds) /\ sent \in [Users \X ItemIds -> Nat]
    BY <1>2, <2>1 DEF RssTypes, RssBounds, AllPairs
  <2>. QED BY <1>2, <2>1, <2>2, <2>3 DEF RssTypeOK, RssTypes, RssBounds
<1>3. RssInv /\ RssBounds => RssTypeOK
  BY <1>2
<1>. QED BY <1>1, <1>3, RssInvInit, RssInvNext, RssBoundsNext, PTL DEF RssSpec

ImportBounds == acked \subseteq Jobs /\ racedJobs \subseteq Jobs /\ abandoned \subseteq Jobs

\* What is acknowledged, raced or abandoned is a job.
LEMMA ImportBoundsNext == ImportBounds /\ [ImportNext]_importVars => ImportBounds'
<1> SUFFICES ASSUME ImportBounds, [ImportNext]_importVars PROVE ImportBounds'
  OBVIOUS
<1> USE DEF ImportBounds
<1>1. CASE AllImported \/ UNCHANGED importVars
  BY <1>1 DEF AllImported, importVars
<1>2. ASSUME NEW j \in Jobs, CreateJob(j) \/ DeleteJob(j) PROVE ImportBounds'
  <2>1. /\ acked' = acked \/ acked' = acked \cup {j}
        /\ UNCHANGED <<racedJobs, abandoned>>
    BY <1>2 DEF CreateJob, DeleteJob
  <2>. QED BY <2>1
<1>3. ASSUME NEW t \in Tasks,
             \/ DeliverJob(t) \/ ReadJob(t) \/ Claim(t) \/ ImportBookmark(t) \/ Flush(t)
             \/ SetFinalStatus(t) \/ Crash(t) \/ CrashFlush(t) \/ CrashStatus(t)
             \/ TaskFails(t) \/ Acknowledge(t) \/ WorkerDies(t)
      PROVE  ImportBounds'
  <2>1. TaskOf(t) \in Jobs
    BY ImportAssumption
  <2>2. /\ acked' = acked \/ acked' = acked \cup {TaskOf(t)}
        /\ racedJobs' = racedJobs \/ racedJobs' = racedJobs \cup {TaskOf(t)}
        /\ abandoned' = abandoned \/ abandoned' = abandoned \cup {TaskOf(t)}
    BY <1>3 DEF DeliverJob, ReadJob, Claim, ImportBookmark, Flush, SetFinalStatus, Crash, CrashFlush,
                CrashStatus, TaskFails, Acknowledge, WorkerDies
  <2>. QED BY <2>1, <2>2
<1>. QED BY <1>1, <1>2, <1>3 DEF ImportNext

\* A record of counters is a function of their names.
LEMMA TallyCounts == ASSUME NEW c \in Tally PROVE c \in JobCounters
<1>1. /\ c = [processed |-> c.processed, created |-> c.created, skipped |-> c.skipped, failed |-> c.failed]
      /\ c.processed \in Nat /\ c.created \in Nat /\ c.skipped \in Nat /\ c.failed \in Nat
  BY DEF Tally
<1>2. c = [x \in {"processed", "created", "skipped", "failed"} |-> c[x]]
  BY <1>1
<1>3. \A x \in {"processed", "created", "skipped", "failed"} : c[x] \in Nat
  BY <1>1
<1>. QED BY <1>2, <1>3 DEF JobCounters

\* Rows and executions of imports keep their types, and no execution counts more than the file.
LEMMA ImportTyped == ImportSpec => []ImportTypeOK
<1>1. ImportInit => ImportBounds
  BY DEF ImportInit, ImportBounds
<1>2. ASSUME ImportInv, ImportBounds PROVE ImportTypeOK
  <2>1. ImportTypes
    BY <1>2 DEF ImportInv
  <2>2. progress \in [Jobs -> JobCounters]
    <3>1. \A j \in Jobs : progress[j] \in JobCounters
      BY <2>1, TallyCounts DEF ImportTypes
    <3>. QED BY <2>1, <3>1 DEF ImportTypes
  <2>3. ASSUME NEW t \in Tasks
        PROVE  /\ task[t].at \in {"off", "read", "claim", "import", "flush", "last flush", "last status",
                                  "crash flush", "crash status", "ack", "over"}
               /\ task[t].count \in JobCounters
               /\ task[t].count.processed <= Len(Bookmarks(TaskOf(t)))
    <3>1. task[t] \in [at : TaskPlaces, count : Tally]
      BY <2>1 DEF ImportTypes
    <3>2. task[t].count \in JobCounters
      BY <3>1, TallyCounts
    <3>3. task[t].count.processed <= Len(Bookmarks(TaskOf(t)))
      BY <1>2 DEF ImportInv, TaskFits, RecordFits, FileLength
    <3>. QED BY <3>1, <3>2, <3>3 DEF TaskPlaces, Resting, Crashed
  <2>. QED BY <1>2, <2>1, <2>2, <2>3 DEF ImportTypes, ImportTypeOK, ImportBounds, JobStatuses
<1>3. ImportInv /\ ImportBounds => ImportTypeOK
  BY <1>2
<1>. QED BY <1>1, <1>3, ImportInvInit, ImportInvNext, ImportBoundsNext, PTL DEF ImportSpec

SharingBounds ==
  /\ shareCount \in 0..Cardinality(People)
  /\ stands \in BOOLEAN /\ miscounted \in BOOLEAN
  /\ spent \subseteq Invitations /\ shared \subseteq Invitations /\ stale \subseteq Sharings
  /\ joined \subseteq (People \cup {Owner}) \X Invitations
  /\ \A s \in Sharings : sharing[s].count \in 0..Cardinality(People)

\* A group of the people is counted within their number.
LEMMA PeopleCounted ==
  ASSUME NEW P \in SUBSET People
  PROVE  Cardinality(P) \in 0..Cardinality(People) /\ 0 \in 0..Cardinality(People)
<1>1. Cardinality(P) \in Nat /\ Cardinality(People) \in Nat /\ Cardinality(P) <= Cardinality(People)
  BY SharingAssumption, FS_Subset, FS_CardinalityType
<1>. QED BY <1>1

\* Every call keeps the counts within the number of people.
LEMMA SharingBoundsNext == SharingInv /\ SharingBounds /\ [SharingNext]_sharingVars => SharingBounds'
<1> SUFFICES ASSUME SharingInv, SharingBounds, [SharingNext]_sharingVars PROVE SharingBounds'
  OBVIOUS
<1>0. SharingTypes /\ \A s \in Sharings : sharing[s] \in Call /\ CallFits(sharing[s])
  BY DEF SharingInv, SharingTypes
<1>1. 0 \in 0..Cardinality(People)
  BY PeopleCounted
<1>2. CASE CollectionDeleted \/ SharingAtRest \/ UNCHANGED sharingVars
  BY <1>2 DEF CollectionDeleted, SharingAtRest, sharingVars, SharingBounds
<1>3. ASSUME NEW s \in Sharings, Begins(s) \/ WritesRow(s) \/ Counts(s) PROVE SharingBounds'
  <2>1. UNCHANGED <<shareCount, stands, miscounted, spent, shared, stale, joined>>
    BY <1>3 DEF Begins, WritesRow, Counts, SharesAsBefore
  <2>2. sharing'[s].count \in 0..Cardinality(People)
    <3>1. CASE Begins(s)
      <4>1. CASE ReturnsAtOnce(s)
        BY <4>1, <1>0, <1>1 DEF ReturnsAtOnce, NoCall, SharingTypes
      <4>2. CASE ~ReturnsAtOnce(s)
        <5>1. PICK does \in {"add", "remove", "accept"}, who \in People \cup {Owner}, by \in Invitations \cup {0} :
                sharing' = [sharing EXCEPT ![s] = [NoCall EXCEPT !.does = does, !.who = who, !.by = by,
                                                     !.step = IF who = Owner THEN "commit" ELSE "write"]]
          BY <3>1, <4>2 DEF Begins
        <5>. QED BY <5>1, <1>0, <1>1 DEF NoCall, SharingTypes
      <4>. QED BY <4>1, <4>2
    <3>2. CASE WritesRow(s)
      <4>1. sharing'[s].count = sharing[s].count
        BY <3>2, <1>0 DEF WritesRow, SharingTypes, Call
      <4>. QED BY <4>1 DEF SharingBounds
    <3>3. CASE Counts(s)
      <4>1. sharing'[s].count = Cardinality(WithOwn(s))
        BY <3>3, <1>0 DEF Counts, Seen, SharingTypes, Call
      <4>2. WithOwn(s) \subseteq People
        BY <1>0 DEF WithOwn, Call, SharingTypes
      <4>. QED BY <4>1, <4>2, PeopleCounted
    <3>. QED BY <1>3, <3>1, <3>2, <3>3
  <2>3. \A t \in Sharings \ {s} : sharing'[t] = sharing[t]
    BY <1>3, <1>0 DEF Begins, ReturnsAtOnce, WritesRow, Counts, SharingTypes
  <2>. QED BY <2>1, <2>2, <2>3 DEF SharingBounds
<1>4. ASSUME NEW s \in Sharings, Commits(s) PROVE SharingBounds'
  <2>1. /\ sharing[s] \in Call /\ sharing[s].by \in Invitations \cup {0}
        /\ sharing[s].who \in People \cup {Owner}
        /\ sharing[s].does = "accept" => sharing[s].by \in Invitations
    BY <1>0 DEF Call, CallFits
  <2>2. sharing'[s].count = 0 /\ \A t \in Sharings \ {s} : sharing'[t] = sharing[t]
    BY <1>4, <1>0 DEF Commits, ReturnsAtOnce, NoCall, SharingTypes
  <2>3. shareCount' \in 0..Cardinality(People)
    BY <1>4 DEF Commits, SharingBounds
  <2>4. miscounted' \in BOOLEAN
    <3>1. CASE sharing[s].who = Owner
      BY <1>4, <3>1, Zenon DEF Commits, SharingBounds
    <3>2. CASE sharing[s].who # Owner
      <4>1. miscounted' = (s \in stale)
        BY <1>4, <3>2, Zenon DEF Commits
      <4>2. CASE s \in stale
        BY <4>1, <4>2
      <4>3. CASE s \notin stale
        BY <4>1, <4>3
      <4>. QED BY <4>2, <4>3
    <3>. QED BY <3>1, <3>2
  <2>5. spent' \subseteq Invitations /\ shared' \subseteq Invitations /\ stale' \subseteq Sharings
    BY <1>4, <2>1 DEF Commits, SharingBounds
  <2>6. joined' \subseteq (People \cup {Owner}) \X Invitations
    <3>1. CASE sharing[s].does = "accept"
      <4>1. joined' = joined \cup {<<sharing[s].who, sharing[s].by>>}
        BY <1>4, <3>1 DEF Commits
      <4>. QED BY <2>1, <3>1, <4>1 DEF SharingBounds
    <3>2. CASE sharing[s].does # "accept"
      BY <1>4, <3>2 DEF Commits, SharingBounds
    <3>. QED BY <3>1, <3>2
  <2>. QED BY <1>1, <1>4, <2>2, <2>3, <2>4, <2>5, <2>6 DEF Commits, SharingBounds
<1>. QED BY <1>2, <1>3, <1>4 DEF SharingNext

\* Counts of a collection stay within the people there are.
LEMMA SharingTyped == SharingSpec => []SharingTypeOK
<1>1. SharingInit => SharingBounds
  <2> SUFFICES ASSUME SharingInit PROVE SharingBounds
    OBVIOUS
  <2>1. \A s \in Sharings : sharing[s].count = 0
    BY DEF SharingInit, NoCall
  <2>2. 0 \in 0..Cardinality(People)
    BY PeopleCounted
  <2>. QED BY <2>1, <2>2 DEF SharingInit, SharingBounds
<1>2. ASSUME SharingInv, SharingBounds PROVE SharingTypeOK
  <2> DEFINE R == [does : {"nothing", "add", "remove", "accept"},
                   step : {"new", "write", "count", "commit", "done"},
                   who : People \cup {Owner}, by : Invitations \cup {0},
                   adds : SUBSET People, drops : SUBSET People, count : 0..Cardinality(People)]
  <2>1. SharingTypes
    BY <1>2 DEF SharingInv
  <2>2. ASSUME NEW s \in Sharings PROVE sharing[s] \in R
    <3>1. sharing[s] \in Call /\ sharing[s].count \in 0..Cardinality(People)
      BY <1>2, <2>1 DEF SharingTypes, SharingBounds
    <3>. QED BY <3>1 DEF Call
  <2>3. sharing \in [Sharings -> R]
    BY <2>1, <2>2 DEF SharingTypes
  <2>. QED BY <1>2, <2>1, <2>3 DEF SharingTypeOK, SharingTypes, SharingBounds
<1>3. SharingInv /\ SharingBounds => SharingTypeOK
  BY <1>2
<1>. QED BY <1>1, <1>3, SharingInvInit, SharingInvNext, SharingBoundsNext, PTL DEF SharingSpec

\* The digests that are done with fetching a channel, and those that have sent, each once.
Unsent == {"new", "list", "fetch", "analyze", "filter"}
ToFetch(r, c) == r.stage \in {"new", "list"} \/ (r.stage = "fetch" /\ c \in r.asks)
HaveFetched(c) == {d \in Digests : ~ToFetch(run[d], c)}
HaveSent == {d \in Digests : run[d].stage \notin Unsent}

CountsFit ==
  /\ \A c \in Channels : channelErrors[c] < MaxChannelErrors + Cardinality(HaveFetched(c))
  /\ \A c \in Channels : copies[c] <= Cardinality(HaveSent)
  /\ \A d \in Digests, c \in Channels : run[d].seen[c] <= ErrorBound

DigestBounds ==
  /\ keyHolder \in Digests \cup {0} /\ keyExpired \in BOOLEAN /\ mishaps \in 0..MaxMishaps
  /\ analyses \in [Channels -> Verdicts \cup {"none"}]
  /\ delivered \subseteq {MessageId[c] : c \in Channels}
  /\ unrecorded \subseteq Channels /\ together \subseteq Channels /\ adsShown \subseteq Channels
  /\ outdated \subseteq Channels

\* A digest goes forward, the others stay.
Moves(d) ==
  /\ \A e \in Digests \ {d} :
       run'[e].stage = run[e].stage /\ run'[e].seen = run[e].seen /\ run'[e].asks = run[e].asks
  /\ run'[d].seen \in {run[d].seen, NotRun.seen, channelErrors}
  /\ \A c \in Channels : ToFetch(run'[d], c) => ToFetch(run[d], c)
  /\ run'[d].stage \in Unsent => run[d].stage \in Unsent

\* A set of digests that grows.
LEMMA DigestsGrow ==
  ASSUME IsFiniteSet(Digests), NEW more \in SUBSET Digests, NEW less \in SUBSET more
  PROVE  /\ Cardinality(less) \in Nat /\ Cardinality(more) \in Nat
         /\ Cardinality(less) <= Cardinality(more) /\ Cardinality(more) <= Cardinality(Digests)
         /\ Cardinality(Digests) \in Nat
         /\ \A d \in more \ less : Cardinality(less) + 1 <= Cardinality(more)
<1>1. IsFiniteSet(more) /\ IsFiniteSet(less)
  BY FS_Subset
<1>2. /\ Cardinality(less) \in Nat /\ Cardinality(more) \in Nat /\ Cardinality(Digests) \in Nat
      /\ Cardinality(less) <= Cardinality(more) /\ Cardinality(more) <= Cardinality(Digests)
  BY <1>1, FS_Subset, FS_CardinalityType
<1>3. ASSUME NEW d \in more \ less PROVE Cardinality(less) + 1 <= Cardinality(more)
  <2>1. Cardinality(less \cup {d}) = Cardinality(less) + 1
    BY <1>1, <1>3, FS_AddElement
  <2>2. less \cup {d} \subseteq more
    BY <1>3
  <2>3. Cardinality(less \cup {d}) <= Cardinality(more)
    BY <1>1, <2>2, FS_Subset
  <2>. QED BY <2>1, <2>3
<1>. QED BY <1>2, <1>3

\* Who has fetched, and who has sent, only becomes more.
LEMMA MovesGrow ==
  ASSUME IsFiniteSet(Digests), NEW d \in Digests, Moves(d)
  PROVE  /\ \A c \in Channels : /\ HaveFetched(c) \subseteq HaveFetched(c)' /\ HaveFetched(c)' \subseteq Digests
                                /\ ToFetch(run[d], c) /\ ~ToFetch(run'[d], c) =>
                                     d \in HaveFetched(c)' \ HaveFetched(c)
         /\ HaveSent \subseteq HaveSent' /\ HaveSent' \subseteq Digests
         /\ run[d].stage \in Unsent /\ run'[d].stage \notin Unsent => d \in HaveSent' \ HaveSent
<1>1. ASSUME NEW e \in Digests
      PROVE  /\ \A c \in Channels : ToFetch(run'[e], c) => ToFetch(run[e], c)
             /\ run'[e].stage \in Unsent => run[e].stage \in Unsent
  BY DEF Moves, ToFetch
<1>. QED BY <1>1 DEF HaveFetched, HaveSent

\* Whoever has fetched a channel, there are no more of them than digests.
LEMMA FetchedCounts ==
  ASSUME IsFiniteSet(Digests), NEW d \in Digests, Moves(d), NEW c \in Channels
  PROVE  /\ Cardinality(HaveFetched(c)) \in Nat /\ Cardinality(HaveFetched(c)') \in Nat
         /\ Cardinality(HaveFetched(c)) <= Cardinality(HaveFetched(c)')
         /\ Cardinality(HaveSent) \in Nat /\ Cardinality(HaveSent') \in Nat
         /\ Cardinality(HaveSent) <= Cardinality(HaveSent')
  BY MovesGrow, DigestsGrow

\* The error counts a digest reads stay within the bound.
LEMMA SeenFits ==
  ASSUME IsFiniteSet(Digests), DigestInv, CountsFit, NEW d \in Digests, Moves(d)
  PROVE  \A e \in Digests, c \in Channels : run'[e].seen[c] <= ErrorBound
<1>1. ASSUME NEW c \in Channels PROVE channelErrors[c] <= ErrorBound /\ NotRun.seen[c] <= ErrorBound
  <2>1. channelErrors[c] \in Nat /\ channelErrors[c] < MaxChannelErrors + Cardinality(HaveFetched(c))
    BY DEF DigestInv, DigestTypes, RowsTyped, CountsFit
  <2>2. NotRun.seen[c] = 0
    BY DEF NotRun
  <2>3. /\ MaxChannelErrors \in Nat /\ Cardinality(HaveFetched(c)) \in Nat /\ Cardinality(Digests) \in Nat
        /\ Cardinality(HaveFetched(c)) <= Cardinality(Digests)
    <3>1. HaveFetched(c) \subseteq Digests
      BY DEF HaveFetched
    <3>. QED BY <3>1, DigestsGrow, DigestAssumption
  <2>. QED BY <2>1, <2>2, <2>3 DEF ErrorBound
<1>2. ASSUME NEW e \in Digests, NEW c \in Channels PROVE run'[e].seen[c] <= ErrorBound
  <2>1. run'[e].seen \in {run[e].seen, NotRun.seen, channelErrors}
    BY DEF Moves
  <2>. QED BY <2>1, <1>1 DEF CountsFit
<1>. QED BY <1>2

\* A step that neither fetches nor sends.
LEMMA QuietCounts ==
  ASSUME IsFiniteSet(Digests), DigestInv, CountsFit, NEW d \in Digests, Moves(d),
         UNCHANGED <<channelErrors, copies>>
  PROVE  CountsFit'
<1>1. ASSUME NEW c \in Channels
      PROVE  channelErrors'[c] < MaxChannelErrors + Cardinality(HaveFetched(c)') /\ copies'[c] <= Cardinality(HaveSent')
  <2>1. /\ channelErrors[c] \in Nat /\ copies[c] \in Nat /\ MaxChannelErrors \in Nat
        /\ channelErrors[c] < MaxChannelErrors + Cardinality(HaveFetched(c)) /\ copies[c] <= Cardinality(HaveSent)
    BY DigestAssumption DEF DigestInv, DigestTypes, RowsTyped, CountsFit
  <2>. QED BY <2>1, FetchedCounts
<1>2. \A e \in Digests, c \in Channels : run'[e].seen[c] <= ErrorBound
  BY SeenFits
<1>. QED BY <1>1, <1>2 DEF CountsFit, ErrorBound

\* A digest that stops has fetched and sent.
LEMMA StopsMoves ==
  ASSUME DigestInv, NEW d \in Digests, Stops(d)
  PROVE  Moves(d) /\ run'[d].stage \notin Unsent
<1>1. run'[d] \in {[NotRun EXCEPT !.stage = "release", !.locked = TRUE], RunOver}
      /\ \A e \in Digests \ {d} : run'[e] = run[e]
  BY DEF Stops, DigestInv, DigestTypes
<1>2. run'[d].seen = NotRun.seen /\ run'[d].stage \in {"release", "done"}
  BY <1>1 DEF RunOver, NotRun
<1>. QED BY <1>1, <1>2 DEF Moves, ToFetch, Unsent

\* A digest that only changes its stage, and what it reads and keeps.
LEMMA GoesOnMoves ==
  ASSUME DigestInv, NEW d \in Digests, NEW r, run' = [run EXCEPT ![d] = r],
         r.seen \in {run[d].seen, NotRun.seen, channelErrors},
         \A c \in Channels : ToFetch(r, c) => ToFetch(run[d], c),
         r.stage \in Unsent => run[d].stage \in Unsent
  PROVE  Moves(d) /\ run'[d].stage = r.stage
BY DEF Moves, DigestInv, DigestTypes

\* The steps that neither fetch nor send.
LEMMA QuietMoves ==
  ASSUME DigestInv, NEW d \in Digests,
         \/ StartsLocked(d) \/ StartsUnlocked(d) \/ DigestDies(d) \/ ReadsKey(d) \/ DeletesKey(d)
         \/ ListsChannels(d) \/ ReadsDelivered(d) \/ LooksUp(d) \/ HasNothingToSend(d) \/ RecordsDelivery(d)
         \/ \E c \in Channels : Analyzes(d, c)
  PROVE  Moves(d) /\ UNCHANGED <<channelErrors, copies>>
<1>0. run[d] \in DigestRun
  BY DEF DigestInv, DigestTypes
<1>1. UNCHANGED <<channelErrors, copies>>
  BY DEF StartsLocked, StartsUnlocked, Starts, DigestDies, ReadsKey, DeletesKey, ListsChannels, ReadsDelivered,
         LooksUp, HasNothingToSend, RecordsDelivery, Analyzes, ChannelRows, Deliveries
<1>2. CASE StartsLocked(d) \/ StartsUnlocked(d)
  <2>1. PICK locked \in BOOLEAN : Starts(d, locked)
    BY <1>2 DEF StartsLocked, StartsUnlocked
  <2> DEFINE r == [run[d] EXCEPT !.stage = "list", !.locked = locked]
  <2>2. run' = [run EXCEPT ![d] = r] /\ run[d].stage = "new" /\ r.stage = "list" /\ r.seen = run[d].seen
    BY <1>0, <2>1 DEF Starts, DigestRun
  <2> HIDE DEF r
  <2>. QED BY <1>1, <2>2, GoesOnMoves DEF ToFetch, Unsent
<1>3. CASE run' = [run EXCEPT ![d] = RunOver]
  <2>2. RunOver.stage = "done" /\ RunOver.seen = NotRun.seen
    BY DEF RunOver, NotRun
  <2>. QED BY <1>1, <1>3, <2>2, GoesOnMoves DEF ToFetch, Unsent
<1>4. CASE Stops(d)
  BY <1>1, <1>4, StopsMoves
<1>5. CASE ListsChannels(d) /\ ~Stops(d)
  <2> DEFINE r == [run[d] EXCEPT !.stage = "fetch", !.seen = channelErrors, !.asks = listened]
  <2>1. run' = [run EXCEPT ![d] = r] /\ run[d].stage = "list" /\ r.stage = "fetch" /\ r.seen = channelErrors
    BY <1>0, <1>5 DEF ListsChannels, DigestRun
  <2> HIDE DEF r
  <2>. QED BY <1>1, <2>1, GoesOnMoves DEF ToFetch, Unsent
<1>6. CASE ReadsDelivered(d) /\ ~Stops(d)
  <2>1. run' = [e \in Digests |->
                   IF e = d THEN [run[d] EXCEPT !.stage = "analyze", !.seen = NotRun.seen,
                                                !.wanted = Unread(d),
                                                !.overlapped = \E f \in Digests \ {d} : Handling(f)]
                   ELSE IF Handling(e) THEN [run[e] EXCEPT !.overlapped = TRUE] ELSE run[e]]
        /\ run[d].stage = "fetch"
    BY <1>6 DEF ReadsDelivered
  <2>2. run'[d].stage = "analyze" /\ run'[d].seen = NotRun.seen
    BY <1>0, <2>1 DEF DigestRun
  <2>3. ASSUME NEW e \in Digests \ {d} PROVE run'[e].stage = run[e].stage /\ run'[e].seen = run[e].seen /\ run'[e].asks = run[e].asks
    <3>1. run[e] \in DigestRun
      BY DEF DigestInv, DigestTypes
    <3>2. run'[e] = [run[e] EXCEPT !.overlapped = TRUE] \/ run'[e] = run[e]
      BY <2>1
    <3>. QED BY <3>1, <3>2 DEF DigestRun
  <2>. QED BY <1>1, <2>1, <2>2, <2>3 DEF Moves, ToFetch, Unsent
<1>7. CASE LooksUp(d)
  <2>1. PICK keeps, asks : run' = [run EXCEPT ![d].stage = "filter", ![d].wanted = {}, ![d].keeps = keeps,
                                              ![d].asks = asks]
    BY <1>7 DEF LooksUp
  <2>2. PICK r : /\ run' = [run EXCEPT ![d] = r]
                 /\ r = [run[d] EXCEPT !.stage = "filter", !.wanted = {}, !.keeps = keeps, !.asks = asks]
    BY <2>1
  <2>3. run[d].stage = "analyze" /\ r.stage = "filter" /\ r.seen = run[d].seen
    BY <1>0, <1>7, <2>2 DEF LooksUp, DigestRun
  <2>4. r.stage \in Unsent => run[d].stage \in Unsent
    BY <2>3 DEF Unsent
  <2>5. \A c \in Channels : ~ToFetch(r, c)
    BY <2>3 DEF ToFetch
  <2>. QED BY <1>1, <2>2, <2>3, <2>4, <2>5, GoesOnMoves
<1>8. ASSUME NEW c \in Channels, Analyzes(d, c) PROVE Moves(d)
  <2>1. PICK asks, ads, keeps : run' = [run EXCEPT ![d] = [run[d] EXCEPT !.asks = asks, !.ads = ads, !.keeps = keeps]]
    <3>1. CASE run' = [run EXCEPT ![d].asks = @ \ {c}]
      <4>1. run' = [run EXCEPT ![d] = [run[d] EXCEPT !.asks = run[d].asks \ {c}, !.ads = run[d].ads,
                                                     !.keeps = run[d].keeps]]
        BY <1>0, <3>1 DEF DigestRun
      <4>. QED BY <4>1
    <3>2. ASSUME NEW verdict \in Verdicts,
                 run' = [run EXCEPT ![d].asks = @ \ {c},
                                ![d].ads = IF verdict = "ad" THEN @ \cup {c} ELSE @,
                                ![d].keeps = IF Worth(verdict) THEN @ \cup {c} ELSE @]
          PROVE  \E asks, ads, keeps : run' = [run EXCEPT ![d] = [run[d] EXCEPT !.asks = asks, !.ads = ads, !.keeps = keeps]]
      <4>1. run' = [run EXCEPT ![d] = [run[d] EXCEPT !.asks = run[d].asks \ {c},
                                         !.ads = IF verdict = "ad" THEN run[d].ads \cup {c} ELSE run[d].ads,
                                         !.keeps = IF Worth(verdict) THEN run[d].keeps \cup {c} ELSE run[d].keeps]]
        BY <3>2
      <4>. QED BY <4>1
    <3>. QED BY <1>8, <3>1, <3>2 DEF Analyzes
  <2> DEFINE r == [run[d] EXCEPT !.asks = asks, !.ads = ads, !.keeps = keeps]
  <2>2. /\ run' = [run EXCEPT ![d] = r] /\ r.stage = run[d].stage /\ r.seen = run[d].seen
        /\ run[d].stage = "filter"
    BY <1>0, <1>8, <2>1 DEF DigestRun, Analyzes
  <2> HIDE DEF r
  <2>. QED BY <2>2, GoesOnMoves DEF ToFetch
<1>9. CASE HasNothingToSend(d) \/ RecordsDelivery(d)
  BY <1>4, <1>9 DEF HasNothingToSend, RecordsDelivery
<1>10. CASE DigestDies(d) \/ DeletesKey(d)
  BY <1>3, <1>10 DEF DigestDies, DeletesKey
<1>11. CASE ReadsKey(d)
  <2>1. CASE run' = [run EXCEPT ![d].stage = "delete"]
    <3> DEFINE r == [run[d] EXCEPT !.stage = "delete"]
    <3>1. run' = [run EXCEPT ![d] = r] /\ r.stage = "delete" /\ r.seen = run[d].seen
      BY <1>0, <2>1 DEF DigestRun
    <3> HIDE DEF r
    <3>. QED BY <1>1, <3>1, GoesOnMoves DEF ToFetch, Unsent
  <2>. QED BY <1>3, <1>11, <2>1 DEF ReadsKey
<1>. QED BY <1>1, <1>2, <1>4, <1>5, <1>6, <1>7, <1>8, <1>9, <1>10, <1>11

\* A failed channel is counted by a digest that has not fetched it before.
LEMMA FetchCounts ==
  ASSUME IsFiniteSet(Digests), DigestInv, CountsFit, NEW d \in Digests, NEW c \in Channels, FetchesChannel(d, c)
  PROVE  CountsFit'
<1>0. run[d] \in DigestRun /\ run[d].stage = "fetch" /\ ToFetch(run[d], c)
  BY DEF DigestInv, DigestTypes, FetchesChannel, ToFetch
<1>1. Moves(d) /\ ~ToFetch(run'[d], c)
  <2>1. CASE Stops(d)
    BY <2>1, StopsMoves DEF Unsent, ToFetch
  <2>2. CASE ~Stops(d)
    <3>1. PICK wanted : run' = [run EXCEPT ![d] = [run[d] EXCEPT !.asks = run[d].asks \ {c}, !.wanted = wanted]]
      <4>1. [run[d] EXCEPT !.asks = run[d].asks \ {c}] = [run[d] EXCEPT !.asks = run[d].asks \ {c}, !.wanted = run[d].wanted]
        BY <1>0 DEF DigestRun
      <4>2. CASE run' = [run EXCEPT ![d].asks = @ \ {c}]
        BY <4>1, <4>2
      <4>3. CASE run' = [run EXCEPT ![d].asks = @ \ {c}, ![d].wanted = @ \cup {c}]
        <5>1. run' = [run EXCEPT ![d] = [run[d] EXCEPT !.asks = run[d].asks \ {c}, !.wanted = run[d].wanted \cup {c}]]
          BY <4>3
        <5>. QED BY <5>1
      <4>. QED BY <2>2, <4>2, <4>3 DEF FetchesChannel
    <3> DEFINE r == [run[d] EXCEPT !.asks = run[d].asks \ {c}, !.wanted = wanted]
    <3>2. run' = [run EXCEPT ![d] = r] /\ r.stage = "fetch" /\ r.seen = run[d].seen /\ r.asks = run[d].asks \ {c}
      BY <1>0, <3>1 DEF DigestRun
    <3> HIDE DEF r
    <3>3. run'[d] = r
      BY <3>2 DEF DigestInv, DigestTypes
    <3>4. Moves(d)
      BY <1>0, <3>2, GoesOnMoves DEF ToFetch, Unsent
    <3>. QED BY <3>2, <3>3, <3>4 DEF ToFetch
  <2>. QED BY <2>1, <2>2
<1>2. HaveFetched(c)' \subseteq Digests /\ HaveFetched(c) \subseteq HaveFetched(c)' /\ d \in HaveFetched(c)' \ HaveFetched(c)
  BY <1>0, <1>1, MovesGrow
<1>3. PICK n, m \in Nat : n = Cardinality(HaveFetched(c)) /\ m = Cardinality(HaveFetched(c)') /\ n + 1 <= m
  BY <1>2, DigestsGrow
<1>4. channelErrors \in [Channels -> Nat] /\ MaxChannelErrors \in Nat \ {0}
  BY DigestAssumption DEF DigestInv, DigestTypes, RowsTyped
<1>5. ASSUME NEW b \in Channels PROVE channelErrors'[b] < MaxChannelErrors + Cardinality(HaveFetched(b)')
  <2>1. channelErrors[b] < MaxChannelErrors + Cardinality(HaveFetched(b))
    BY DEF CountsFit
  <2>2. CASE b = c
    <3>1. channelErrors'[c] \in {channelErrors[c] + 1, 0, channelErrors[c]}
      BY <1>4 DEF FetchesChannel, ChannelRows
    <3>. QED BY <1>3, <1>4, <2>1, <2>2, <3>1
  <2>3. CASE b # c
    <3>1. channelErrors'[b] = channelErrors[b]
      BY <1>4, <2>3 DEF FetchesChannel, ChannelRows
    <3>. QED BY <1>1, <1>4, <2>1, <3>1, FetchedCounts
  <2>. QED BY <2>2, <2>3
<1>6. ASSUME NEW b \in Channels PROVE copies'[b] <= Cardinality(HaveSent')
  <2>1. copies'[b] = copies[b] /\ copies[b] \in Nat /\ copies[b] <= Cardinality(HaveSent)
    BY DEF FetchesChannel, Deliveries, DigestInv, DigestTypes, CountsFit
  <2>. QED BY <1>1, <2>1, FetchedCounts
<1>7. \A e \in Digests, b \in Channels : run'[e].seen[b] <= ErrorBound
  BY <1>1, SeenFits
<1>. QED BY <1>5, <1>6, <1>7 DEF CountsFit, ErrorBound

\* A post is sent by a digest that has not sent before.
LEMMA SendCounts ==
  ASSUME IsFiniteSet(Digests), DigestInv, CountsFit, NEW d \in Digests, Sends(d)
  PROVE  CountsFit'
<1>0. run[d] \in DigestRun /\ run[d].stage = "filter"
  BY DEF DigestInv, DigestTypes, Sends
<1>1. Moves(d) /\ run'[d].stage = "record"
  <2>1. PICK keeps : run' = [run EXCEPT ![d].stage = "record", ![d].keeps = keeps, ![d].ads = {}]
    BY DEF Sends
  <2> DEFINE r == [run[d] EXCEPT !.stage = "record", !.keeps = keeps, !.ads = {}]
  <2>2. run' = [run EXCEPT ![d] = r] /\ r.stage = "record" /\ r.seen = run[d].seen
    BY <1>0, <2>1 DEF DigestRun
  <2> HIDE DEF r
  <2>. QED BY <1>0, <2>2, GoesOnMoves DEF ToFetch, Unsent
<1>2. /\ HaveSent \subseteq HaveSent' /\ HaveSent' \subseteq Digests /\ d \in HaveSent' \ HaveSent
  <2>1. run[d].stage \in Unsent /\ run'[d].stage \notin Unsent
    BY <1>0, <1>1 DEF Unsent
  <2>. QED BY <1>1, <2>1, MovesGrow
<1>3. PICK n, m \in Nat : n = Cardinality(HaveSent) /\ m = Cardinality(HaveSent') /\ n + 1 <= m
  BY <1>2, DigestsGrow
<1>4. ASSUME NEW c \in Channels PROVE copies'[c] <= m
  <2>1. copies[c] \in Nat /\ copies[c] <= n
    BY <1>3 DEF DigestInv, DigestTypes, CountsFit
  <2>2. copies'[c] \in {copies[c] + 1, copies[c]}
    BY DEF Sends
  <2>. QED BY <1>3, <2>1, <2>2
<1>5. ASSUME NEW c \in Channels PROVE channelErrors'[c] < MaxChannelErrors + Cardinality(HaveFetched(c)')
  <2>1. /\ channelErrors'[c] = channelErrors[c] /\ channelErrors[c] \in Nat /\ MaxChannelErrors \in Nat
        /\ channelErrors[c] < MaxChannelErrors + Cardinality(HaveFetched(c))
    BY DigestAssumption DEF Sends, ChannelRows, DigestInv, DigestTypes, RowsTyped, CountsFit
  <2>. QED BY <1>1, <2>1, FetchedCounts
<1>6. \A e \in Digests, c \in Channels : run'[e].seen[c] <= ErrorBound
  BY <1>1, SeenFits
<1>. QED BY <1>3, <1>4, <1>5, <1>6 DEF CountsFit, ErrorBound

\* A step of a digest adds one failure and one copy at most, and is counted with it.
LEMMA CountsFitNext ==
  ASSUME IsFiniteSet(Digests), DigestInv, CountsFit, [DigestNext]_digestVars
  PROVE  CountsFit'
<1>1. CASE DigestKeyExpires \/ DigestsAtRest \/ UNCHANGED digestVars
  <2>1. UNCHANGED <<run, channelErrors, copies>>
    BY <1>1 DEF DigestKeyExpires, DigestsAtRest, digestVars, ChannelRows, Deliveries
  <2>. QED BY <2>1 DEF CountsFit, HaveFetched, HaveSent, ErrorBound
<1>2. ASSUME NEW d \in Digests, NEW c \in Channels, FetchesChannel(d, c) PROVE CountsFit'
  BY <1>2, FetchCounts
<1>3. ASSUME NEW d \in Digests, Sends(d) PROVE CountsFit'
  BY <1>3, SendCounts
<1>4. ASSUME NEW d \in Digests,
             \/ StartsLocked(d) \/ StartsUnlocked(d) \/ DigestDies(d) \/ ReadsKey(d) \/ DeletesKey(d)
             \/ ListsChannels(d) \/ ReadsDelivered(d) \/ LooksUp(d) \/ HasNothingToSend(d) \/ RecordsDelivery(d)
             \/ \E c \in Channels : Analyzes(d, c)
      PROVE  CountsFit'
  BY <1>4, QuietMoves, QuietCounts
<1>. QED BY <1>1, <1>2, <1>3, <1>4 DEF DigestNext, DigestGoesOn

\* Channels, posts and mishaps stay what they are through every step of a digest.
LEMMA DigestBoundsNext == DigestInv /\ DigestBounds /\ [DigestNext]_digestVars => DigestBounds'
<1> SUFFICES ASSUME DigestInv, DigestBounds, [DigestNext]_digestVars PROVE DigestBounds'
  OBVIOUS
<1>0. \A d \in Digests : run[d] \in DigestRun
  BY DEF DigestInv, DigestTypes
<1>1. CASE DigestKeyExpires \/ DigestsAtRest \/ UNCHANGED digestVars
  BY <1>1 DEF DigestKeyExpires, DigestsAtRest, digestVars, ChannelRows, Deliveries, DigestBounds
<1>2. ASSUME NEW d \in Digests, DigestDies(d) \/ RecordsDelivery(d) \/ Sends(d) PROVE DigestBounds'
  <2>1. run[d].keeps \subseteq Channels /\ run[d].ads \subseteq Channels
    BY <1>0 DEF DigestRun
  <2>2. mishaps' \in 0..MaxMishaps
    <3>1. mishaps' = mishaps \/ (mishaps < MaxMishaps /\ mishaps' = mishaps + 1)
      BY <1>2 DEF DigestDies, RecordsDelivery, Sends, Mishap, NoMishap
    <3>. QED BY <3>1, DigestAssumption DEF DigestBounds
  <2>3. unrecorded' \subseteq Channels
    BY <1>2, <2>1 DEF DigestDies, RecordsDelivery, Sends, DigestBounds
  <2>4. together' \subseteq Channels /\ adsShown' \subseteq Channels
    BY <1>2, <2>1 DEF DigestDies, RecordsDelivery, Sends, DigestBounds
  <2>5. delivered' \subseteq {MessageId[c] : c \in Channels}
    <3>1. delivered' = delivered \/ delivered' = delivered \cup {MessageId[c] : c \in run[d].keeps}
      BY <1>2 DEF DigestDies, RecordsDelivery, Sends
    <3>2. {MessageId[c] : c \in run[d].keeps} \subseteq {MessageId[c] : c \in Channels}
      BY <2>1
    <3>. QED BY <3>1, <3>2 DEF DigestBounds
  <2>6. UNCHANGED <<keyHolder, keyExpired, outdated, analyses>>
    BY <1>2 DEF DigestDies, RecordsDelivery, Sends, Lock, ChannelRows
  <2>. QED BY <2>2, <2>3, <2>4, <2>5, <2>6 DEF DigestBounds
<1>3. ASSUME NEW d \in Digests, StartsLocked(d) \/ StartsUnlocked(d) \/ ReadsKey(d) \/ DeletesKey(d)
      PROVE  DigestBounds'
  BY <1>3 DEF StartsLocked, StartsUnlocked, Starts, ReadsKey, DeletesKey, Lock, ChannelRows, Deliveries, DigestBounds
<1>4. ASSUME NEW d \in Digests, ListsChannels(d) \/ ReadsDelivered(d) \/ LooksUp(d) \/ HasNothingToSend(d)
      PROVE  DigestBounds'
  BY <1>4 DEF ListsChannels, ReadsDelivered, LooksUp, HasNothingToSend, Lock, ChannelRows, Deliveries,
              DigestBounds
<1>5. ASSUME NEW d \in Digests, NEW c \in Channels, FetchesChannel(d, c) PROVE DigestBounds'
  <2>1. outdated' \in {outdated, outdated \cup {c}}
    BY <1>5 DEF FetchesChannel, ChannelRows
  <2>2. UNCHANGED <<keyHolder, keyExpired, mishaps, analyses, delivered, unrecorded, together, adsShown>>
    BY <1>5 DEF FetchesChannel, Lock, Deliveries
  <2>. QED BY <2>1, <2>2 DEF DigestBounds
<1>6. ASSUME NEW d \in Digests, NEW c \in Channels, Analyzes(d, c) PROVE DigestBounds'
  <2>1. analyses' \in [Channels -> Verdicts \cup {"none"}]
    BY <1>6 DEF Analyzes, DigestBounds
  <2>2. UNCHANGED <<keyHolder, keyExpired, mishaps, outdated, delivered, unrecorded, together, adsShown>>
    BY <1>6 DEF Analyzes, Lock, ChannelRows, Deliveries
  <2>. QED BY <2>1, <2>2 DEF DigestBounds
<1>. QED BY <1>1, <1>2, <1>3, <1>4, <1>5, <1>6 DEF DigestNext, DigestGoesOn

\* A channel's failures are counted by different digests, and its post is sent by different ones.
LEMMA DigestTyped == ASSUME IsFiniteSet(Digests) PROVE DigestSpec => []DigestTypeOK
<1>1. ASSUME DigestInit PROVE DigestBounds /\ CountsFit
  <2>1. \A d \in Digests : run[d] = NotRun /\ run[d].stage = "new" /\ run[d].seen = [c \in Channels |-> 0]
    BY <1>1 DEF DigestInit, NotRun
  <2>2. HaveSent = {} /\ \A c \in Channels : HaveFetched(c) = {}
    BY <2>1 DEF HaveFetched, HaveSent, ToFetch, Unsent
  <2>3. DigestBounds
    <3>1. mishaps \in 0..MaxMishaps
      BY <1>1, DigestAssumption DEF DigestInit
    <3>2. analyses \in [Channels -> Verdicts \cup {"none"}]
      BY <1>1 DEF DigestInit
    <3>3. keyHolder \in Digests \cup {0} /\ keyExpired \in BOOLEAN
      BY <1>1 DEF DigestInit
    <3>4. /\ delivered \subseteq {MessageId[c] : c \in Channels} /\ unrecorded \subseteq Channels
          /\ together \subseteq Channels /\ adsShown \subseteq Channels /\ outdated \subseteq Channels
      BY <1>1 DEF DigestInit
    <3>. QED BY <3>1, <3>2, <3>3, <3>4 DEF DigestBounds
  <2>4. ErrorBound \in Nat /\ MaxChannelErrors \in Nat
    BY DigestAssumption, FS_CardinalityType DEF ErrorBound
  <2>5. CountsFit
    <3>1. \A c \in Channels : channelErrors[c] \in 0..MaxChannelErrors - 1 /\ copies[c] = 0
      BY <1>1 DEF DigestInit
    <3>. QED BY <2>1, <2>2, <2>4, <3>1, FS_EmptySet DEF CountsFit
  <2>. QED BY <2>3, <2>5
<1>2. ASSUME DigestInv, DigestBounds, CountsFit PROVE DigestTypeOK
  <2> DEFINE R == [stage : {"new", "list", "fetch", "analyze", "filter", "record",
                                   "release", "delete", "done"},
                   locked : BOOLEAN, seen : [Channels -> 0..ErrorBound],
                   wanted : SUBSET Channels, asks : SUBSET Channels,
                   keeps : SUBSET Channels, ads : SUBSET Channels, overlapped : BOOLEAN]
  <2>1. DigestTypes
    BY <1>2 DEF DigestInv
  <2>2. ErrorBound \in Nat /\ MaxChannelErrors \in Nat /\ Cardinality(Digests) \in Nat
    BY DigestAssumption, FS_CardinalityType DEF ErrorBound
  <2>3. ASSUME NEW d \in Digests PROVE run[d] \in R
    <3>1. run[d] \in DigestRun /\ \A c \in Channels : run[d].seen[c] <= ErrorBound
      BY <1>2, <2>1 DEF DigestTypes, CountsFit
    <3>2. run[d].seen \in [Channels -> 0..ErrorBound]
      BY <2>2, <3>1 DEF DigestRun
    <3>. QED BY <3>1, <3>2 DEF DigestRun
  <2>4. run \in [Digests -> R]
    BY <2>1, <2>3 DEF DigestTypes
  <2>6. ASSUME NEW c \in Channels PROVE channelErrors[c] \in 0..ErrorBound /\ copies[c] \in 0..Cardinality(Digests)
    <3>1. /\ channelErrors[c] \in Nat /\ copies[c] \in Nat
          /\ channelErrors[c] < MaxChannelErrors + Cardinality(HaveFetched(c)) /\ copies[c] <= Cardinality(HaveSent)
      BY <1>2, <2>1 DEF DigestTypes, RowsTyped, CountsFit
    <3>2. /\ Cardinality(HaveFetched(c)) \in Nat /\ Cardinality(HaveFetched(c)) <= Cardinality(Digests)
          /\ Cardinality(HaveSent) \in Nat /\ Cardinality(HaveSent) <= Cardinality(Digests)
      <4>1. HaveFetched(c) \subseteq Digests /\ HaveSent \subseteq Digests
        BY DEF HaveFetched, HaveSent
      <4>. QED BY <4>1, DigestsGrow
    <3>. QED BY <2>2, <3>1, <3>2 DEF ErrorBound
  <2>7. channelErrors \in [Channels -> 0..ErrorBound] /\ copies \in [Channels -> 0..Cardinality(Digests)]
    BY <2>1, <2>6 DEF DigestTypes, RowsTyped
  <2>. QED BY <1>2, <2>1, <2>4, <2>7 DEF DigestTypeOK, DigestBounds, DigestTypes, RowsTyped
<1>3. DigestInv /\ DigestBounds /\ CountsFit /\ [DigestNext]_digestVars => CountsFit'
  BY CountsFitNext
<1>4. DigestInv /\ DigestBounds /\ CountsFit => DigestTypeOK
  BY <1>2
<1>5. DigestInit => DigestBounds /\ CountsFit
  BY <1>1
<1>. QED BY <1>3, <1>4, <1>5, DigestInvInit, DigestInvNext, DigestBoundsNext, PTL DEF DigestSpec

\* The component of the run is one of those there are, and stays it.
LEMMA ComponentStays == ServicesSpec => [](component \in Components)
<1>1. ServicesInit => component \in Components
  BY DEF ServicesInit
<1>2. component \in Components /\ [ServicesNext]_<<component, trackerVars, windowVars, slotsVars,
        dispatchVars, bundleVars, retryVars, starsVars, rotationVars, rssVars, importVars, sharingVars,
        digestVars>> => (component \in Components)'
  BY DEF ServicesNext
<1>. QED BY <1>1, <1>2, PTL DEF ServicesSpec

\* Every component keeps its types, and its counters, caches and lists their bounds, for any
\* finite number of repeated calls and of digests (ServicesTypeOK).
THEOREM ServicesTyped ==
  ASSUME IsFiniteSet(Attempts), IsFiniteSet(Digests) PROVE ServicesSpec => []ServicesTypeOK
<1>1. RetrySpec => []RetryTypeOK
  BY RetryTyped
<1>2. DigestSpec => []DigestTypeOK
  BY DigestTyped
<1>3. DispatchInv => DispatchTypeOK
  BY DEF DispatchInv
<1>4. DispatchSpec => []DispatchTypeOK
  BY <1>3, DispatchInvInit, DispatchInvNext, PTL DEF DispatchSpec
<1>5. /\ component \in Components
      /\ TrackerTypeOK /\ WindowTypeOK /\ SlotsTypeOK /\ DispatchTypeOK /\ BundleTypeOK /\ RetryTypeOK
      /\ StarsTypeOK /\ RotationTypeOK /\ RssTypeOK /\ ImportTypeOK /\ SharingTypeOK /\ DigestTypeOK
      => ServicesTypeOK
  <2>. SUFFICES ASSUME component \in Components,
                       TrackerTypeOK, WindowTypeOK, SlotsTypeOK, DispatchTypeOK, BundleTypeOK, RetryTypeOK,
                       StarsTypeOK, RotationTypeOK, RssTypeOK, ImportTypeOK, SharingTypeOK, DigestTypeOK
                PROVE  ServicesTypeOK
    OBVIOUS
  <2>. QED BY DEF Components, ServicesTypeOK
<1>. QED BY ComponentsBehave, ComponentStays, TrackerTyped, WindowTyped, SlotsTyped, <1>4, BundleTyped, <1>1,
            StarsTyped, RotationTyped, RssTyped, ImportTyped, SharingTyped, <1>2, <1>5, PTL
=============================================================================
