------------------------- MODULE WriteQueue_proofs -------------------------
(***************************************************************************)
(* The database write queue, for every set of writes, producers, batch keys *)
(* and capacity: no write is reordered or lost, stop() drains what it       *)
(* promised, and the queue implements the log of WriteLog.                  *)
(***************************************************************************)
EXTENDS WriteQueue, FiniteSetTheorems, SequenceTheorems, TLAPS

\* The queue never holds more than there are writes, so that the sentinel's place is
\* never mistaken for NoSentinel.
Counted ==
  /\ Len(accepted) = Cardinality({w \in Writes : offer[w] = "accepted"})
  /\ Len(queued) <= Len(accepted)

\* What the worker has in its hands where it stands.
WorkerHolds ==
  /\ worker \in {"execute", "drain"} => snapshot # <<>>
  /\ worker \in {"get", "ended"} => snapshot = <<>>
  /\ worker = "get" => ~stopAfter

\* How far stop() and the worker can be apart.
StopInStep ==
  /\ cutOff => worker = "ended" /\ stopper = "stopped"
  /\ stopper \in {"idle", "putting"} =>
       sentinel = NoSentinel /\ ~stopAfter /\ worker \in {"get", "execute"}
  /\ worker = "ended" /\ ~cutOff => sentinel = NoSentinel /\ stopper \in {"waiting", "stopped"}
  /\ stopper = "stopped" => worker = "ended"

\* The writes that stop() promised are attempted, in the worker's hands, or in front
\* of the sentinel.
PromiseKept ==
  /\ sentinel # NoSentinel /\ ~cutOff =>
       /\ stopper = "waiting" /\ ~stopAfter /\ worker \in {"get", "execute"}
       /\ promised = Len(attempted) + Len(snapshot) + sentinel
  /\ sentinel = NoSentinel /\ stopper \in {"waiting", "stopped"} /\ ~cutOff =>
       promised <= Len(attempted) + Len(snapshot)

QueueInv == QueueTypeOK /\ Counted /\ WorkerHolds /\ StopInStep /\ PromiseKept /\ FirstInFirstOut

-----------------------------------------------------------------------------
(* Sequences and sets of the queue *)

\* Concatenation of the queue's sequences is associative, in the form of a quantified fact.
LEMMA AssociativeIn ==
  \A s, t, u \in Seq(Writes) : (s \o t) \o u = s \o (t \o u)
BY ConcatAssociative

\* NoSentinel is a number above every length that the queue can have.
LEMMA NoSentinelAbove ==
  ASSUME QueueTypeOK, Counted
  PROVE  NoSentinel \in Nat /\ Len(queued) < NoSentinel /\ Len(queued) \in Nat
<1>1. /\ IsFiniteSet({w \in Writes : offer[w] = "accepted"})
      /\ Cardinality({w \in Writes : offer[w] = "accepted"}) <= Cardinality(Writes)
  <2>1. {w \in Writes : offer[w] = "accepted"} \in SUBSET Writes
    OBVIOUS
  <2> QED BY <2>1, FS_Subset, QueueAssumption
<1>2. Cardinality(Writes) \in Nat
  BY FS_CardinalityType, QueueAssumption
<1>3. Len(queued) \in Nat /\ Len(accepted) \in Nat
  BY LenProperties DEF QueueTypeOK
<1> QED BY <1>1, <1>2, <1>3 DEF NoSentinel, Counted

\* A call of the worker takes at least one write of its snapshot and at most all of them.
LEMMA SpanBounds ==
  ASSUME snapshot \in Seq(Writes), snapshot # <<>>
  PROVE  BatchSpan \in 1..Len(snapshot)
<1> DEFINE B == {i \in DOMAIN snapshot : \A j \in 1..i : SameBatch(j)}
<1>1. Len(snapshot) \in Nat \ {0} /\ DOMAIN snapshot = 1..Len(snapshot)
  BY EmptySeq, LenProperties
<1>2. IsFiniteSet(1..Len(snapshot)) /\ Cardinality(1..Len(snapshot)) = Len(snapshot)
  BY <1>1, FS_Interval
<1>3. IsFiniteSet(B) /\ Cardinality(B) <= Len(snapshot)
  <2>1. B \in SUBSET (1..Len(snapshot))
    BY <1>1
  <2> HIDE DEF B
  <2> QED BY <1>2, <2>1, FS_Subset
<1>4. 1 \in B
  <2>1. \A j \in 1..1 : j = 1
    OBVIOUS
  <2> QED BY <1>1, <2>1 DEF SameBatch
<1>5. Cardinality(B) \in 1..Len(snapshot)
  <2> HIDE DEF B
  <2>1. Cardinality(B) \in Nat
    BY <1>3, FS_CardinalityType
  <2>2. Cardinality(B) # 0
    BY <1>3, <1>4, FS_EmptySet
  <2> QED BY <1>1, <1>3, <2>1, <2>2
<1> QED BY <1>1, <1>5 DEF BatchSpan

\* What a call attempts and what it leaves make up the snapshot.
LEMMA SpanSplits ==
  ASSUME snapshot \in Seq(Writes), snapshot # <<>>
  PROVE  LET span == SubSeq(snapshot, 1, BatchSpan)
             rest == SubSeq(snapshot, BatchSpan + 1, Len(snapshot))
         IN /\ span \in Seq(Writes) /\ rest \in Seq(Writes)
            /\ span \o rest = snapshot
            /\ Len(span) = BatchSpan /\ Len(rest) = Len(snapshot) - BatchSpan
<1> DEFINE b == BatchSpan
           n == Len(snapshot)
<1>1. n \in Nat \ {0} /\ b \in 1..n
  BY SpanBounds, EmptySeq
<1> HIDE DEF b
<1>2. \A i \in 1..n : snapshot[i] \in Writes
  BY ElementOfSeq
<1>3. SubSeq(snapshot, 1, b) \in Seq(Writes) /\ Len(SubSeq(snapshot, 1, b)) = b
  BY <1>1, <1>2, SubSeqProperties
<1>4. SubSeq(snapshot, b + 1, n) \in Seq(Writes) /\ Len(SubSeq(snapshot, b + 1, n)) = n - b
  BY <1>1, <1>2, SubSeqProperties
<1>5. SubSeq(snapshot, 1, b) \o SubSeq(snapshot, b + 1, n) = snapshot
  <2>1. /\ 1 \in 1..n + 1 /\ b \in 1 - 1..n /\ n \in b..n
    BY <1>1
  <2>2. SubSeq(snapshot, 1, b) \o SubSeq(snapshot, b + 1, n) = SubSeq(snapshot, 1, n)
    BY <2>1, ConcatAdjacentSubSeq
  <2> QED BY <2>2, SubSeqFull
<1> QED BY <1>3, <1>4, <1>5 DEF b

-----------------------------------------------------------------------------
(* The inductive invariant *)

\* An empty queue satisfies the invariant.
LEMMA QueueInvInit == QueueInit => QueueInv
<1> SUFFICES ASSUME QueueInit PROVE QueueInv
  OBVIOUS
<1> USE DEF QueueInit
<1>1. <<>> \in Seq(Writes) /\ Len(<<>>) = 0
  BY EmptySeq
<1>2. {w \in Writes : offer[w] = "accepted"} = {}
  OBVIOUS
<1>3. QueueTypeOK
  <2>1. offer \in [Writes -> {"new", "blocked", "accepted", "given_up"}]
    OBVIOUS
  <2>2. {queued, snapshot, accepted, attempted} \subseteq Seq(Writes)
    BY <1>1
  <2>3. promised \in 0..Len(accepted) /\ Len(queued) + 0 <= Capacity
    BY <1>1, QueueAssumption
  <2> QED BY <2>1, <2>2, <2>3 DEF QueueTypeOK
<1>4. Counted
  BY <1>1, <1>2, FS_EmptySet DEF Counted
<1>5. FirstInFirstOut
  BY <1>1, ConcatEmptySeq DEF FirstInFirstOut
<1>6. WorkerHolds /\ StopInStep /\ PromiseKept
  BY DEF WorkerHolds, StopInStep, PromiseKept
<1> QED BY <1>3, <1>4, <1>5, <1>6 DEF QueueInv

\* A put that goes through.
LEMMA PutWriteInv ==
  ASSUME QueueInv, NEW w \in Writes, offer[w] \in {"new", "blocked"}, ~Full, PutWrite(w)
  PROVE  QueueInv'
<1> USE DEF QueueInv
<1>1. /\ queued' \in Seq(Writes) /\ Len(queued') = Len(queued) + 1
      /\ accepted' \in Seq(Writes) /\ Len(accepted') = Len(accepted) + 1
  BY AppendProperties DEF PutWrite, QueueTypeOK
<1>2. NoSentinel \in Nat /\ Len(queued) \in Nat /\ Len(accepted) \in Nat /\ NoSentinel' = NoSentinel
  BY NoSentinelAbove, LenProperties DEF QueueTypeOK, NoSentinel
<1>3. QueueTypeOK'
  BY <1>1, <1>2, QueueAssumption DEF QueueTypeOK, PutWrite, workerVars, stopVars, Full
<1>4. Counted'
  <2> DEFINE A == {v \in Writes : offer[v] = "accepted"}
  <2>1. IsFiniteSet(A)
    BY QueueAssumption, FS_Subset
  <2>2. A' = A \cup {w} /\ w \notin A
    BY DEF PutWrite, QueueTypeOK
  <2>3. Cardinality(A') = Cardinality(A) + 1
    <3> HIDE DEF A
    <3> QED BY <2>1, <2>2, FS_AddElement
  <2> QED BY <1>1, <1>2, <2>3 DEF Counted
<1>5. WorkerHolds' /\ StopInStep' /\ PromiseKept'
  BY <1>2 DEF WorkerHolds, StopInStep, PromiseKept, PutWrite, workerVars, stopVars
<1>6. FirstInFirstOut'
  <2> SUFFICES ASSUME ~cutOff PROVE accepted' = attempted \o snapshot \o queued'
    BY DEF FirstInFirstOut, PutWrite, workerVars, stopVars
  <2> DEFINE a == attempted \o snapshot
  <2>0. attempted \in Seq(Writes) /\ snapshot \in Seq(Writes)
      /\ queued \in Seq(Writes) /\ accepted \in Seq(Writes)
    BY DEF QueueTypeOK
  <2>1. a \in Seq(Writes) /\ <<w>> \in Seq(Writes)
    BY <2>0, ConcatProperties
  <2>2. accepted = a \o queued
    BY DEF FirstInFirstOut
  <2> HIDE DEF a
  <2>3. accepted' = (a \o queued) \o <<w>>
    BY <2>0, <2>2, AppendIsConcat DEF PutWrite
  <2>4. queued' = queued \o <<w>>
    BY <2>0, AppendIsConcat DEF PutWrite
  <2>5. accepted' = a \o queued'
    BY <2>0, <2>1, <2>3, <2>4, ConcatAssociative, SMTT(30)
  <2> QED BY <2>5 DEF a
<1> QED BY <1>3, <1>4, <1>5, <1>6

\* What the worker takes: all of the queue, or what is in front of the sentinel.
LEMMA NextItemsInv ==
  ASSUME QueueInv, NextItems
  PROVE  QueueInv'
<1> USE DEF QueueInv
<1>0. attempted \in Seq(Writes) /\ snapshot \in Seq(Writes)
      /\ queued \in Seq(Writes) /\ accepted \in Seq(Writes) /\ snapshot = <<>> /\ worker = "get"
  BY DEF QueueTypeOK, WorkerHolds, NextItems
<1>1. /\ NoSentinel \in Nat /\ Len(queued) < NoSentinel /\ Len(queued) \in Nat
      /\ Len(accepted) \in Nat /\ Len(attempted) \in Nat /\ Len(snapshot) = 0
  BY <1>0, NoSentinelAbove, LenProperties, EmptySeq
<1>2. \A i \in 1..Len(queued) : queued[i] \in Writes
  BY <1>0, ElementOfSeq
<1>3. NoSentinel' = NoSentinel
  BY DEF NoSentinel
<1>4. /\ <<>> \in Seq(Writes) /\ Len(<<>>) = 0
      /\ \A s \in Seq(Writes) : Len(s) = 0 => s = <<>>
  BY EmptySeq
<1>c. ~cutOff
  BY <1>0 DEF StopInStep
<1>5. CASE sentinel = 0
  <2>1. /\ snapshot' = queued /\ queued' = <<>> /\ sentinel' = NoSentinel
        /\ worker' = (IF queued = <<>> THEN "ended" ELSE "drain")
        /\ UNCHANGED <<stopAfter, offer, accepted, stopper, promised, cutOff, attempted>>
    BY <1>5 DEF NextItems, Drained, producerVars, stopVars
  <2>2. QueueTypeOK'
    BY <1>0, <1>1, <1>3, <1>4, <2>1, QueueAssumption DEF QueueTypeOK
  <2>3. Counted' /\ WorkerHolds'
    BY <1>0, <1>1, <1>4, <2>1 DEF Counted, WorkerHolds
  <2>4. StopInStep' /\ PromiseKept'
    <3>1. sentinel # NoSentinel
      BY <1>1, <1>5
    <3> QED BY <1>0, <1>1, <1>3, <1>5, <1>c, <2>1, <3>1 DEF StopInStep, PromiseKept
  <2>5. FirstInFirstOut'
    <3>1. attempted \o <<>> = attempted
      BY <1>0, ConcatEmptySeq
    <3>2. accepted = attempted \o queued
      BY <1>0, <1>c, <3>1 DEF FirstInFirstOut
    <3>3. attempted \o queued \in Seq(Writes)
      BY <1>0, ConcatProperties
    <3>4. (attempted \o queued) \o <<>> = attempted \o queued
      BY <3>3, ConcatEmptySeq
    <3> QED BY <2>1, <3>2, <3>4 DEF FirstInFirstOut
  <2> QED BY <2>2, <2>3, <2>4, <2>5
<1>6. CASE sentinel # 0
  <2> DEFINE n == IF sentinel = NoSentinel THEN Len(queued) ELSE sentinel
  <2>1. /\ snapshot' = SubSeq(queued, 1, n)
        /\ queued' = SubSeq(queued, n + 1, Len(queued))
        /\ stopAfter' = (sentinel # NoSentinel)
        /\ sentinel' = NoSentinel /\ worker' = "execute"
        /\ UNCHANGED <<offer, accepted, stopper, promised, cutOff, attempted>>
    BY <1>6 DEF NextItems, producerVars, stopVars
  <2>2. queued # <<>>
    BY <1>6 DEF NextItems
  <2>3. n \in 1..Len(queued) /\ n \in Nat
    <3>1. Len(queued) # 0
      BY <1>0, <1>4, <2>2
    <3> QED BY <1>1, <1>6, <3>1 DEF QueueTypeOK
  <2>4. sentinel # NoSentinel => n = sentinel
    OBVIOUS
  <2> HIDE DEF n
  <2>5. snapshot' \in Seq(Writes) /\ Len(snapshot') = n
    BY <1>1, <1>2, <2>1, <2>3, SubSeqProperties
  <2>6. queued' \in Seq(Writes) /\ Len(queued') = Len(queued) - n
    BY <1>1, <1>2, <2>1, <2>3, SubSeqProperties
  <2>7. snapshot' \o queued' = queued
    <3>1. 1 \in 1..Len(queued) + 1 /\ n \in 1 - 1..Len(queued) /\ Len(queued) \in n..Len(queued)
      BY <1>1, <2>3
    <3>2. SubSeq(queued, 1, n) \o SubSeq(queued, n + 1, Len(queued)) = SubSeq(queued, 1, Len(queued))
      BY <1>0, <3>1, ConcatAdjacentSubSeq
    <3> QED BY <1>0, <2>1, <3>2, SubSeqFull
  <2>8. QueueTypeOK'
    BY <1>0, <1>1, <1>3, <2>1, <2>3, <2>5, <2>6, QueueAssumption DEF QueueTypeOK
  <2>9. Counted' /\ WorkerHolds'
    <3>1. Len(queued') <= Len(accepted')
      BY <1>1, <2>1, <2>3, <2>6 DEF Counted
    <3>2. snapshot' # <<>>
      BY <1>4, <2>3, <2>5
    <3> QED BY <2>1, <3>1, <3>2 DEF Counted, WorkerHolds
  <2>10. StopInStep' /\ PromiseKept'
    BY <1>0, <1>1, <1>3, <1>c, <2>1, <2>3, <2>4, <2>5 DEF StopInStep, PromiseKept, QueueTypeOK
  <2>11. FirstInFirstOut'
    <3>1. attempted \o <<>> = attempted
      BY <1>0, ConcatEmptySeq
    <3>2. accepted = attempted \o queued
      BY <1>0, <1>c, <3>1 DEF FirstInFirstOut
    <3>3. (attempted \o snapshot') \o queued' = attempted \o (snapshot' \o queued')
      <4>1. attempted \in Seq(Writes) /\ snapshot' \in Seq(Writes) /\ queued' \in Seq(Writes)
        BY <1>0, <2>5, <2>6
      <4> QED BY ONLY <4>1, AssociativeIn, Zenon
    <3> QED BY <2>1, <2>7, <3>2, <3>3 DEF FirstInFirstOut
  <2> QED BY <2>8, <2>9, <2>10, <2>11
<1> QED BY <1>5, <1>6

\* One call of the worker, and the drain behind the last one.
LEMMA ExecuteSpanInv ==
  ASSUME QueueInv, ExecuteSpan
  PROVE  QueueInv'
<1> USE DEF QueueInv
<1> DEFINE span == SubSeq(snapshot, 1, BatchSpan)
           rest == SubSeq(snapshot, BatchSpan + 1, Len(snapshot))
           drains == rest = <<>> /\ worker = "execute" /\ stopAfter
<1>0. /\ attempted \in Seq(Writes) /\ snapshot \in Seq(Writes)
      /\ queued \in Seq(Writes) /\ accepted \in Seq(Writes)
      /\ worker \in {"execute", "drain"} /\ snapshot # <<>>
  BY DEF QueueTypeOK, ExecuteSpan
<1>1. /\ span \in Seq(Writes) /\ rest \in Seq(Writes) /\ span \o rest = snapshot
      /\ Len(span) \in Nat /\ Len(rest) \in Nat
      /\ Len(span) + Len(rest) = Len(snapshot) /\ Len(span) >= 1
  <2>1. BatchSpan \in 1..Len(snapshot) /\ Len(snapshot) \in Nat
    BY <1>0, SpanBounds, LenProperties
  <2> QED BY <1>0, <2>1, SpanSplits
<1>2. /\ attempted' = attempted \o span
      /\ snapshot' = (IF drains THEN queued ELSE rest)
      /\ queued' = (IF drains THEN <<>> ELSE queued)
      /\ worker' = AfterSpan(rest, drains)
      /\ UNCHANGED <<offer, accepted, stopper, promised, cutOff, stopAfter, sentinel>>
  BY DEF ExecuteSpan, Drained, producerVars, stopVars
<1> HIDE DEF span, rest
<1>3. /\ NoSentinel \in Nat /\ Len(queued) < NoSentinel /\ Len(queued) \in Nat
      /\ Len(accepted) \in Nat /\ Len(attempted) \in Nat /\ NoSentinel' = NoSentinel
  BY <1>0, NoSentinelAbove, LenProperties DEF NoSentinel
<1>4. attempted' \in Seq(Writes) /\ Len(attempted') = Len(attempted) + Len(span)
  BY <1>0, <1>1, <1>2, ConcatProperties
<1>5. /\ <<>> \in Seq(Writes) /\ Len(<<>>) = 0
      /\ \A s \in Seq(Writes) : Len(s) = 0 => s = <<>>
  BY EmptySeq
<1>6. ~cutOff /\ (drains => sentinel = NoSentinel)
  BY <1>0 DEF StopInStep, PromiseKept
<1>7. /\ worker' \in {"get", "execute", "drain", "ended"}
      /\ worker' \in {"execute", "drain"} <=> snapshot' # <<>>
      /\ worker' = "get" => worker = "execute" /\ ~stopAfter
      /\ worker' = "ended" => stopAfter \/ worker = "drain"
      /\ worker' = "drain" => worker = "drain" \/ stopAfter
      /\ worker' = "execute" => worker = "execute"
  <2>1. CASE rest # <<>>
    BY <1>0, <1>2, <2>1 DEF AfterSpan
  <2>2. CASE drains /\ queued # <<>>
    BY <1>0, <1>2, <2>2 DEF AfterSpan
  <2>3. CASE drains /\ queued = <<>>
    BY <1>0, <1>2, <2>3 DEF AfterSpan
  <2>4. CASE rest = <<>> /\ ~drains
    BY <1>0, <1>2, <2>4 DEF AfterSpan
  <2> QED BY <2>1, <2>2, <2>3, <2>4
<1>8. QueueTypeOK'
  <2>1. snapshot' \in Seq(Writes) /\ queued' \in Seq(Writes)
    BY <1>0, <1>1, <1>2, <1>5
  <2>2. \/ queued' = queued /\ sentinel' = sentinel
        \/ sentinel' = NoSentinel /\ Len(queued') = 0
    BY <1>2, <1>5, <1>6
  <2>3. sentinel' \in 0..Len(queued') \cup {NoSentinel'}
    BY <1>3, <2>2 DEF QueueTypeOK
  <2>4. Len(queued') + (IF sentinel' = NoSentinel' THEN 0 ELSE 1) <= Capacity
    BY <1>3, <2>2, QueueAssumption DEF QueueTypeOK
  <2> QED BY <1>2, <1>4, <1>7, <2>1, <2>3, <2>4 DEF QueueTypeOK
<1>9. Counted'
  BY <1>2, <1>3, <1>5 DEF Counted
<1>10. WorkerHolds'
  BY <1>2, <1>7 DEF WorkerHolds
<1>11. StopInStep'
  BY <1>0, <1>2, <1>3, <1>6, <1>7 DEF StopInStep, PromiseKept, QueueTypeOK
<1>12. PromiseKept'
  <2>3. Len(attempted') \in Nat /\ Len(snapshot') \in Nat
    BY <1>1, <1>2, <1>3, <1>4
  <2>5. ASSUME drains
        PROVE  /\ Len(attempted') + Len(snapshot') >= Len(attempted) + Len(snapshot)
               /\ sentinel = NoSentinel
    <3>1. Len(rest) = 0 /\ sentinel = NoSentinel
      BY <1>5, <1>6, <2>5
    <3> QED BY <1>1, <1>3, <1>4, <2>3, <3>1
  <2>6. ASSUME ~drains
        PROVE  Len(attempted') + Len(snapshot') = Len(attempted) + Len(snapshot)
    <3>1. Len(snapshot') = Len(rest)
      BY <1>2, <2>6
    <3>2. /\ Len(attempted) \in Nat /\ Len(span) \in Nat /\ Len(rest) \in Nat
          /\ Len(snapshot) = Len(span) + Len(rest)
          /\ Len(attempted') = Len(attempted) + Len(span)
      BY <1>1, <1>3, <1>4
    <3> QED BY ONLY <3>1, <3>2
  <2>1. Len(attempted') + Len(snapshot') >= Len(attempted) + Len(snapshot)
    BY <1>1, <1>3, <1>4, <2>3, <2>5, <2>6
  <2>2. sentinel # NoSentinel => Len(attempted') + Len(snapshot') = Len(attempted) + Len(snapshot)
    BY <2>5, <2>6
  <2>4. sentinel # NoSentinel => worker' \in {"get", "execute"}
    BY <1>0, <1>2, <1>6, <1>7 DEF PromiseKept
  <2>7. promised \in Nat /\ Len(attempted) + Len(snapshot) \in Nat
    BY <1>1, <1>3 DEF QueueTypeOK
  <2>8. CASE sentinel # NoSentinel
    BY <1>2, <1>3, <1>6, <2>2, <2>4, <2>8 DEF PromiseKept
  <2>9. CASE sentinel = NoSentinel
    <3>1. stopper \in {"waiting", "stopped"} => promised <= Len(attempted) + Len(snapshot)
      BY <1>6, <2>9 DEF PromiseKept
    <3>2. stopper \in {"waiting", "stopped"} => promised <= Len(attempted') + Len(snapshot')
      BY <2>1, <2>3, <2>7, <3>1
    <3> QED BY <1>2, <1>3, <2>9, <3>2 DEF PromiseKept
  <2> QED BY <2>8, <2>9
<1>13. FirstInFirstOut'
  <2>1. attempted \o snapshot = attempted' \o rest
    BY ONLY <1>0, <1>1, <1>2, AssociativeIn, ZenonT(30)
  <2>2. accepted = (attempted' \o rest) \o queued
    BY <1>6, <2>1 DEF FirstInFirstOut
  <2>3. CASE drains
    <3>1. rest = <<>> /\ snapshot' = queued /\ queued' = <<>>
      BY <1>2, <2>3
    <3>2. attempted' \o <<>> = attempted'
      BY <1>4, ConcatEmptySeq
    <3>3. attempted' \o queued \in Seq(Writes)
      BY <1>0, <1>4, ConcatProperties
    <3>4. (attempted' \o queued) \o <<>> = attempted' \o queued
      BY <3>3, ConcatEmptySeq
    <3> QED BY <1>2, <2>2, <3>1, <3>2, <3>4 DEF FirstInFirstOut
  <2>4. CASE ~drains
    BY <1>2, <2>2, <2>4 DEF FirstInFirstOut
  <2> QED BY <2>3, <2>4
<1> QED BY <1>8, <1>9, <1>10, <1>11, <1>12, <1>13

\* The sentinel goes behind what is in the queue.
LEMMA PutSentinelInv ==
  ASSUME QueueInv, stopper \in {"idle", "putting"}, ~Full, PutSentinel
  PROVE  QueueInv'
<1> USE DEF QueueInv
<1>0. /\ attempted \in Seq(Writes) /\ snapshot \in Seq(Writes)
      /\ queued \in Seq(Writes) /\ accepted \in Seq(Writes)
      /\ ~cutOff /\ sentinel = NoSentinel /\ ~stopAfter /\ worker \in {"get", "execute"}
  BY DEF QueueTypeOK, StopInStep
<1>1. /\ NoSentinel \in Nat /\ Len(queued) < NoSentinel /\ Len(queued) \in Nat
      /\ Len(accepted) \in Nat /\ NoSentinel' = NoSentinel
      /\ Len(attempted) \in Nat /\ Len(snapshot) \in Nat
  BY <1>0, NoSentinelAbove, LenProperties DEF NoSentinel
<1>2. Len(accepted) = Len(attempted) + Len(snapshot) + Len(queued)
  <2>1. attempted \o snapshot \in Seq(Writes) /\ Len(attempted \o snapshot) = Len(attempted) + Len(snapshot)
    BY <1>0, ConcatProperties
  <2>2. Len((attempted \o snapshot) \o queued) = Len(attempted \o snapshot) + Len(queued)
    BY <1>0, <2>1, ConcatProperties
  <2> QED BY <1>0, <2>1, <2>2 DEF FirstInFirstOut
<1> USE <1>0, <1>1 DEF PutSentinel, producerVars, workerVars
<1>3. QueueTypeOK'
  BY QueueAssumption DEF QueueTypeOK, Full
<1>4. Counted' /\ WorkerHolds' /\ StopInStep' /\ FirstInFirstOut'
  BY DEF Counted, WorkerHolds, StopInStep, FirstInFirstOut
<1>5. PromiseKept'
  BY <1>2 DEF PromiseKept
<1> QED BY <1>3, <1>4, <1>5

\* The worker is cancelled: it leaves the rest of its snapshot and of the queue.
LEMMA StopTimesOutInv ==
  ASSUME QueueInv, StopTimesOut
  PROVE  QueueInv'
<1> USE DEF QueueInv, StopTimesOut, producerVars
<1>1. <<>> \in Seq(Writes)
  BY EmptySeq
<1>2. attempted' \in Seq(Writes)
  <2>1. CASE UNCHANGED attempted
    BY <2>1 DEF QueueTypeOK
  <2>2. CASE snapshot # <<>> /\ attempted' = attempted \o SubSeq(snapshot, 1, BatchSpan)
    <3>1. attempted \in Seq(Writes) /\ SubSeq(snapshot, 1, BatchSpan) \in Seq(Writes)
      BY <2>2, SpanSplits DEF QueueTypeOK
    <3> HIDE DEF QueueInv, StopTimesOut
    <3> QED BY <2>2, <3>1, ConcatProperties
  <2> QED BY <2>1, <2>2
<1>3. NoSentinel' = NoSentinel
  BY DEF NoSentinel
<1>4. QueueTypeOK'
  BY <1>1, <1>2, <1>3 DEF QueueTypeOK
<1>5. Counted' /\ WorkerHolds' /\ StopInStep' /\ PromiseKept' /\ FirstInFirstOut'
  BY <1>3 DEF Counted, WorkerHolds, StopInStep, PromiseKept, FirstInFirstOut
<1> QED BY <1>4, <1>5

\* A step that moves neither a write nor the sentinel: a producer that waits or gives up.
LEMMA OfferOnlyInv ==
  ASSUME QueueInv, NEW w \in Writes, offer[w] \in {"new", "blocked"},
         NEW where \in {"blocked", "given_up"},
         offer' = [offer EXCEPT ![w] = where],
         UNCHANGED <<workerVars, stopVars, queued, sentinel, accepted>>
  PROVE  QueueInv'
<1> USE DEF QueueInv, workerVars, stopVars
<1>1. {v \in Writes : offer'[v] = "accepted"} = {v \in Writes : offer[v] = "accepted"}
  BY DEF QueueTypeOK
<1>2. NoSentinel' = NoSentinel
  BY DEF NoSentinel
<1>3. QueueTypeOK'
  BY <1>2 DEF QueueTypeOK
<1>4. Counted'
  BY <1>1 DEF Counted
<1>5. WorkerHolds' /\ StopInStep' /\ PromiseKept' /\ FirstInFirstOut'
  BY <1>2 DEF WorkerHolds, StopInStep, PromiseKept, FirstInFirstOut
<1> QED BY <1>3, <1>4, <1>5

\* Every step of callers, worker and stop keeps the invariant.
LEMMA QueueInvNext == QueueInv /\ [QueueNext]_queueVars => QueueInv'
<1> SUFFICES ASSUME QueueInv, [QueueNext]_queueVars PROVE QueueInv'
  OBVIOUS
<1>1. ASSUME NEW w \in Writes, Enqueue(w) PROVE QueueInv'
  BY <1>1, PutWriteInv DEF Enqueue
<1>2. ASSUME NEW w \in Writes, EnqueueBlocks(w) PROVE QueueInv'
  BY <1>2, OfferOnlyInv DEF EnqueueBlocks
<1>3. ASSUME NEW w \in Writes, EnqueueResumes(w) PROVE QueueInv'
  BY <1>3, PutWriteInv DEF EnqueueResumes
<1>4. ASSUME NEW w \in Writes, EnqueueCancelled(w) PROVE QueueInv'
  BY <1>4, OfferOnlyInv DEF EnqueueCancelled
<1>5. CASE NextItems
  BY <1>5, NextItemsInv
<1>6. CASE ExecuteSpan
  BY <1>6, ExecuteSpanInv
<1>7. CASE Stop
  BY <1>7, PutSentinelInv DEF Stop
<1>8. CASE StopBlocks
  BY <1>8 DEF StopBlocks, producerVars, workerVars, QueueInv, QueueTypeOK, Counted, WorkerHolds,
              StopInStep, PromiseKept, FirstInFirstOut, NoSentinel
<1>9. CASE StopResumes
  BY <1>9, PutSentinelInv DEF StopResumes
<1>10. CASE StopTimesOut
  BY <1>10, StopTimesOutInv
<1>11. CASE StopReturns
  BY <1>11 DEF StopReturns, producerVars, workerVars, QueueInv, QueueTypeOK, Counted, WorkerHolds,
               StopInStep, PromiseKept, FirstInFirstOut, NoSentinel
<1>12. CASE UNCHANGED queueVars
  BY <1>12 DEF queueVars, producerVars, workerVars, stopVars, QueueInv, QueueTypeOK, Counted,
               WorkerHolds, StopInStep, PromiseKept, FirstInFirstOut, NoSentinel
<1> QED
  BY <1>1, <1>2, <1>3, <1>4, <1>5, <1>6, <1>7, <1>8, <1>9, <1>10, <1>11, <1>12
  DEF QueueNext, Producer, Worker, Stopper, QueueAtRest

-----------------------------------------------------------------------------
(* Results *)

\* db/write_queue.py: the queue, its worker and its callers keep their types, and the queue
\* its bound (QueueTypeOK).
THEOREM QueueTypeCorrect == QueueSpec => []QueueTypeOK
<1>1. QueueInv => QueueTypeOK
  BY DEF QueueInv
<1> QED BY QueueInvInit, QueueInvNext, <1>1, PTL DEF QueueSpec

\* What has been put is attempted, in the worker's hands or in the queue, in the order of
\* its put, until the worker is cut off; a stop() that returns in time has drained what was
\* in front of its sentinel.
THEOREM WritesKept == QueueSpec => []QueueKeepsWrites
<1>1. ASSUME QueueInv PROVE QueueKeepsWrites
  <2> USE <1>1 DEF QueueInv
  <2>1. StopDrains
    <3> SUFFICES ASSUME stopper = "stopped", ~cutOff PROVE Len(attempted) >= promised
      BY DEF StopDrains
    <3>1. worker = "ended" /\ sentinel = NoSentinel /\ snapshot = <<>>
      BY DEF StopInStep, WorkerHolds
    <3>2. Len(snapshot) = 0 /\ Len(attempted) \in Nat /\ promised \in Nat
      BY <3>1, EmptySeq, LenProperties DEF QueueTypeOK
    <3> QED BY <3>1, <3>2 DEF PromiseKept
  <2> QED BY <2>1 DEF QueueKeepsWrites
<1> QED BY QueueInvInit, QueueInvNext, <1>1, PTL DEF QueueSpec

-----------------------------------------------------------------------------
(* The log *)

\* A call of the worker attempts the next writes of the log.
LEMMA SpanIsNext ==
  ASSUME QueueInv, worker # "ended", snapshot # <<>>,
         attempted' = attempted \o SubSeq(snapshot, 1, BatchSpan)
  PROVE  \E n \in Len(attempted) + 1..Len(accepted) : attempted' = SubSeq(accepted, 1, n)
<1> USE DEF QueueInv
<1> DEFINE span == SubSeq(snapshot, 1, BatchSpan)
           rest == SubSeq(snapshot, BatchSpan + 1, Len(snapshot))
           t == rest \o queued
<1>0. attempted \in Seq(Writes) /\ snapshot \in Seq(Writes)
      /\ queued \in Seq(Writes) /\ accepted \in Seq(Writes) /\ ~cutOff
  BY DEF QueueTypeOK, StopInStep
<1>1. /\ span \in Seq(Writes) /\ rest \in Seq(Writes) /\ span \o rest = snapshot
      /\ Len(span) \in Nat /\ Len(span) >= 1
  <2>1. BatchSpan \in 1..Len(snapshot) /\ Len(snapshot) \in Nat
    BY <1>0, SpanBounds, LenProperties
  <2> QED BY <1>0, <2>1, SpanSplits
<1>2. attempted' = attempted \o span
  OBVIOUS
<1> HIDE DEF span, rest
<1>3. /\ attempted' \in Seq(Writes) /\ Len(attempted') = Len(attempted) + Len(span)
      /\ t \in Seq(Writes) /\ Len(attempted) \in Nat /\ Len(t) \in Nat
  <2>1. attempted' \in Seq(Writes) /\ Len(attempted') = Len(attempted) + Len(span)
    BY ONLY <1>0, <1>1, <1>2, ConcatProperties
  <2>2. t \in Seq(Writes)
    BY ONLY <1>0, <1>1, ConcatProperties
  <2> QED BY <1>0, <2>1, <2>2, LenProperties
<1>4. accepted = attempted' \o t
  <2>1. attempted \o snapshot = attempted' \o rest
    BY ONLY <1>0, <1>1, <1>2, AssociativeIn, ZenonT(30)
  <2>2. accepted = (attempted' \o rest) \o queued
    BY <1>0, <2>1 DEF FirstInFirstOut
  <2>3. (attempted' \o rest) \o queued = attempted' \o (rest \o queued)
    <3>1. attempted' \in Seq(Writes) /\ rest \in Seq(Writes) /\ queued \in Seq(Writes)
      BY <1>0, <1>1, <1>3
    <3> QED BY ONLY <3>1, AssociativeIn, Zenon
  <2> QED BY <2>2, <2>3
<1> HIDE DEF t
<1>5. Len(accepted) = Len(attempted') + Len(t)
  BY <1>3, <1>4, ConcatProperties
<1>6. 1 \in 1..Len(attempted') /\ Len(attempted') \in 1..Len(attempted')
  BY <1>1, <1>3
<1>7. SubSeq(attempted' \o t, 1, Len(attempted')) = SubSeq(attempted', 1, Len(attempted'))
  BY <1>3, <1>6, SubSeqOfConcat1
<1>8. attempted' = SubSeq(accepted, 1, Len(attempted'))
  BY <1>3, <1>4, <1>7, SubSeqFull
<1>9. Len(attempted') \in Len(attempted) + 1..Len(accepted)
  BY <1>1, <1>3, <1>5
<1> QED BY <1>8, <1>9

\* A step of the queue is a step of the log that it promises, or none the log can see.
LEMMA LogSteps == QueueInv /\ [QueueNext]_queueVars => [Log!LogNext]_(Log!logVars)
<1> SUFFICES ASSUME QueueInv, [QueueNext]_queueVars PROVE [Log!LogNext]_(Log!logVars)
  OBVIOUS
<1> USE DEF Log!LogNext, Log!logVars
<1>1. ASSUME NEW w \in Writes, PutWrite(w) PROVE Log!Accept(w)
  BY <1>1 DEF PutWrite, Log!Accept, workerVars
<1>2. ASSUME NEW w \in Writes, EnqueueBlocks(w) \/ EnqueueCancelled(w) PROVE UNCHANGED Log!logVars
  BY <1>2 DEF EnqueueBlocks, EnqueueCancelled, workerVars
<1>3. CASE NextItems
  <2>1. UNCHANGED <<accepted, attempted>>
    BY <1>3 DEF NextItems, producerVars
  <2>2. CASE worker' = "ended"
    BY <2>1, <2>2 DEF Log!End
  <2>3. CASE worker' # "ended"
    <3>1. worker = "get"
      BY <1>3 DEF NextItems
    <3> QED BY <2>1, <2>3, <3>1
  <2> QED BY <2>2, <2>3
<1>4. CASE ExecuteSpan
  <2>1. worker # "ended" /\ UNCHANGED accepted
    BY <1>4 DEF ExecuteSpan, producerVars
  <2>2. \E n \in Len(attempted) + 1..Len(accepted) : attempted' = SubSeq(accepted, 1, n)
    BY <1>4, <2>1, SpanIsNext DEF ExecuteSpan
  <2> QED BY <2>1, <2>2 DEF Log!Attempt, Log!LastAttempt
<1>5. CASE Stop \/ StopBlocks \/ StopResumes \/ StopReturns
  BY <1>5 DEF Stop, StopBlocks, StopResumes, StopReturns, PutSentinel, producerVars, workerVars
<1>6. CASE StopTimesOut
  <2>1. worker # "ended" /\ worker' = "ended" /\ UNCHANGED accepted
    BY <1>6 DEF StopTimesOut, producerVars
  <2>2. CASE UNCHANGED attempted
    BY <2>1, <2>2 DEF Log!End
  <2>3. CASE snapshot # <<>> /\ attempted' = attempted \o SubSeq(snapshot, 1, BatchSpan)
    BY <2>1, <2>3, SpanIsNext DEF Log!LastAttempt
  <2> QED BY <1>6, <2>2, <2>3 DEF StopTimesOut
<1>7. CASE UNCHANGED queueVars
  BY <1>7 DEF queueVars, producerVars, workerVars
<1> QED
  BY <1>1, <1>2, <1>3, <1>4, <1>5, <1>6, <1>7
  DEF QueueNext, Producer, Enqueue, EnqueueResumes, Worker, Stopper, QueueAtRest

\* The queue, its snapshots, batches, drain and time limit seen from outside: a log whose
\* writes are attempted in order and at most once, and not after the worker has ended.
THEOREM QueueImplementsLog == QueueSpec => ImplementsWriteLog
<1>1. QueueInit => Log!LogInit
  BY DEF QueueInit, Log!LogInit
<1> QED BY <1>1, QueueInvInit, QueueInvNext, LogSteps, PTL
        DEF QueueSpec, ImplementsWriteLog, Log!LogSpec
=============================================================================
