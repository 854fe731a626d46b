-------------------------- MODULE StreamHub_proofs --------------------------
(***************************************************************************)
(* The stream hub, for every set of subscribers, size of the ring and of    *)
(* the queues, and number of events: what a reader gets is in order, has no *)
(* silent gap and ends with its terminal event.                             *)
(***************************************************************************)
EXTENDS StreamHub, SequenceTheorems, WellFoundedInduction, TLAPS

Sorted(q) == \A i, j \in 1..Len(q) : i < j => q[i].n < q[j].n
Below(p, q) == \A i \in 1..Len(p), j \in 1..Len(q) : p[i].n < q[j].n
UpTo(q, m) == \A i \in 1..Len(q) : q[i].n <= m
Shows(q, n) == \E i \in 1..Len(q) : q[i].n = n
Terminal(q) == \E i \in 1..Len(q) : IsTerminal(q[i])

\* Where a subscriber can be while its generator is in each phase.
Places ==
  \A s \in Subscribers :
    /\ s \in registered => phase[s] \in {"replay", "live"}
    /\ phase[s] \in {"replay", "live"} => s \in registered \cup cut
    /\ phase[s] = "live" => backlog[s] = <<>>
    /\ phase[s] = "idle" => received[s] = <<>> /\ backlog[s] = <<>> /\ queue[s] = <<>>
    /\ start[s] <= published

\* Every part of a stream is in publication order, and so are the parts.
PartsInOrder ==
  /\ Sorted(buffer) /\ UpTo(buffer, published)
  /\ \A s \in Subscribers :
       /\ Sorted(received[s]) /\ Sorted(backlog[s]) /\ Sorted(queue[s])
       /\ Below(received[s], backlog[s]) /\ Below(received[s], queue[s]) /\ Below(backlog[s], queue[s])
       /\ UpTo(received[s], published) /\ UpTo(backlog[s], published) /\ UpTo(queue[s], published)

\* An event since the subscription is in one of the parts or among the lost.
PartsWithoutGap ==
  \A s \in Subscribers : s \notin cut /\ phase[s] \in {"replay", "live"} =>
    \A n \in (start[s] + 1)..published :
      \/ Shows(received[s], n) \/ Shows(backlog[s], n) \/ Shows(queue[s], n)
      \/ \E e \in lost[s] : e.n = n

\* Where a terminal event was lost another one is held.
PartsHoldTerminal ==
  \A s \in Subscribers : \A e \in lost[s] : IsTerminal(e) =>
    Terminal(received[s]) \/ Terminal(backlog[s]) \/ Terminal(queue[s])

HubInv ==
  /\ HubTypeOK /\ Places /\ PartsInOrder /\ PartsWithoutGap /\ PartsHoldTerminal
  /\ NothingAfterTerminal

-----------------------------------------------------------------------------
(* Queues *)

\* A set of numbers that is not empty has a least one.
LEMMA LeastOf ==
  ASSUME NEW T \in SUBSET Nat, T # {}
  PROVE  \E x \in T : \A y \in T : x <= y
<1> DEFINE R == {ss \in Nat \X Nat : ss[1] < ss[2]}
<1>1. IsWellFoundedOn(R, Nat)
  BY NatLessThanWellFounded DEF OpToRel
<1>2. PICK x \in T : \A y \in T : <<y, x>> \notin R
  <2> HIDE DEF R
  <2> QED BY <1>1, WFMin
<1>3. \A y \in T : x <= y
  <2> TAKE y \in T
  <2>1. <<y, x>> \in Nat \X Nat /\ ~(y < x)
    BY <1>2
  <2> QED BY <2>1
<1> QED BY <1>3

\* What is left of a queue without its i-th event.
LEMMA RemoveAtProperties ==
  ASSUME NEW q \in Seq(Events), NEW i \in 1..Len(q)
  PROVE  /\ RemoveAt(q, i) \in Seq(Events) /\ Len(RemoveAt(q, i)) = Len(q) - 1
         /\ \A k \in 1..Len(q) - 1 : RemoveAt(q, i)[k] = IF k < i THEN q[k] ELSE q[k + 1]
<1> DEFINE a == SubSeq(q, 1, i - 1)
           b == SubSeq(q, i + 1, Len(q))
<1>1. Len(q) \in Nat /\ \A k \in 1..Len(q) : q[k] \in Events
  BY LenProperties, ElementOfSeq
<1>2. /\ a \in Seq(Events) /\ Len(a) = i - 1
      /\ \A k \in 1..i - 1 : a[k] = q[k]
  <2>1. \A k \in 1..i - 1 : q[k] \in Events
    BY <1>1
  <2>2. /\ a \in Seq(Events) /\ Len(a) = IF 1 <= i - 1 THEN (i - 1) - 1 + 1 ELSE 0
        /\ \A k \in 1..(i - 1) - 1 + 1 : a[k] = q[1 + k - 1]
    BY <1>1, <2>1, SubSeqProperties
  <2> QED BY <1>1, <2>2
<1>3. /\ b \in Seq(Events) /\ Len(b) = Len(q) - i
      /\ \A k \in 1..Len(q) - i : b[k] = q[i + k]
  <2>1. \A k \in i + 1..Len(q) : q[k] \in Events
    BY <1>1
  <2>2. /\ b \in Seq(Events) /\ Len(b) = IF i + 1 <= Len(q) THEN Len(q) - (i + 1) + 1 ELSE 0
        /\ \A k \in 1..Len(q) - (i + 1) + 1 : b[k] = q[(i + 1) + k - 1]
    BY <1>1, <2>1, SubSeqProperties
  <2> QED BY <1>1, <2>2
<1> HIDE DEF a, b
<1>4. /\ a \o b \in Seq(Events) /\ Len(a \o b) = Len(a) + Len(b)
      /\ \A k \in 1..Len(a) + Len(b) : (a \o b)[k] = IF k <= Len(a) THEN a[k] ELSE b[k - Len(a)]
  BY <1>2, <1>3, ConcatProperties
<1>5. RemoveAt(q, i) = a \o b
  BY DEF RemoveAt, a, b
<1>6. ASSUME NEW k \in 1..Len(q) - 1
      PROVE  (a \o b)[k] = IF k < i THEN q[k] ELSE q[k + 1]
  <2>1. k \in 1..Len(a) + Len(b)
    BY <1>1, <1>2, <1>3
  <2>2. CASE k < i
    BY <1>1, <1>2, <1>4, <2>1, <2>2
  <2>3. CASE ~(k < i)
    <3>1. (a \o b)[k] = b[k - Len(a)]
      BY <1>1, <1>2, <1>4, <2>1, <2>3
    <3>2. k - Len(a) \in 1..Len(q) - i /\ i + (k - Len(a)) = k + 1
      BY <1>1, <1>2, <2>3
    <3> QED BY <1>3, <2>3, <3>1, <3>2
  <2> QED BY <2>2, <2>3
<1> QED BY <1>1, <1>2, <1>3, <1>4, <1>5, <1>6

\* The index that _drop_oldest_non_terminal finds.
LEMMA DropIndexProperties ==
  ASSUME NEW q \in Seq(Events)
  PROVE  /\ DropIndex(q) \in 0..Len(q)
         /\ DropIndex(q) > 0 => ~IsTerminal(q[DropIndex(q)])
         /\ DropIndex(q) = 0 => \A i \in 1..Len(q) : IsTerminal(q[i])
<1> DEFINE D == {i \in 1..Len(q) : ~IsTerminal(q[i])}
<1>1. Len(q) \in Nat
  BY LenProperties
<1>2. CASE D = {}
  BY <1>1, <1>2 DEF DropIndex
<1>3. CASE D # {}
  <2>1. D \in SUBSET Nat
    BY <1>1
  <2>2. \E x \in D : \A y \in D : x <= y
    <3> HIDE DEF D
    <3> QED BY <1>3, <2>1, LeastOf
  <2>3. DropIndex(q) \in D
    BY <1>3, <2>2 DEF DropIndex
  <2> QED BY <1>1, <2>3
<1> QED BY <1>2, <1>3

\* _put_event: the queue stays within its bound, in order, and keeps its terminal events;
\* what it loses is counted, and a terminal event is lost only to a queue of such.
LEMMA PutProperties ==
  ASSUME NEW q \in Seq(Events), Len(q) <= QueueSize, NEW e \in Events
  PROVE  LET p == Put(q, e)
         IN /\ p.q \in Seq(Events) /\ Len(p.q) <= QueueSize /\ p.out \in SUBSET Events
            /\ \A i \in 1..Len(q) : (\E k \in 1..Len(p.q) : p.q[k] = q[i]) \/ q[i] \in p.out
            /\ (\E k \in 1..Len(p.q) : p.q[k] = e) \/ e \in p.out
            /\ \A k \in 1..Len(p.q) : p.q[k] = e \/ \E i \in 1..Len(q) : p.q[k] = q[i]
            /\ \A x \in p.out : IsTerminal(x) => Terminal(p.q)
            /\ Terminal(q) => Terminal(p.q)
            /\ Sorted(q) /\ (\A i \in 1..Len(q) : q[i].n < e.n) => Sorted(p.q)
<1>0. Len(q) \in Nat /\ QueueSize \in Nat \ {0} /\ \A i \in 1..Len(q) : q[i] \in Events
  BY LenProperties, ElementOfSeq, HubAssumption
<1>n. \A x \in Events : x.n \in Nat
  BY HubAssumption DEF Events
<1>1. CASE Len(q) < QueueSize
  <2> DEFINE a == Append(q, e)
  <2>1. Put(q, e).q = a /\ Put(q, e).out = {}
    BY <1>1 DEF Put
  <2>2. /\ a \in Seq(Events) /\ Len(a) = Len(q) + 1 /\ a[Len(q) + 1] = e
        /\ \A i \in 1..Len(q) : a[i] = q[i]
    BY AppendProperties
  <2> HIDE DEF a
  <2>3. Sorted(q) /\ (\A i \in 1..Len(q) : q[i].n < e.n) => Sorted(a)
    BY <1>0, <2>2 DEF Sorted
  <2>4. \A i \in 1..Len(q) : i \in 1..Len(a)
    BY <1>0, <2>2
  <2>5. Len(q) + 1 \in 1..Len(a)
    BY <1>0, <2>2
  <2>6. \A k \in 1..Len(a) : k = Len(q) + 1 \/ k \in 1..Len(q)
    BY <1>0, <2>2
  <2> QED BY <1>0, <1>1, <2>1, <2>2, <2>3, <2>4, <2>5, <2>6 DEF Terminal
<1>2. CASE Len(q) >= QueueSize /\ DropIndex(q) > 0
  <2> DEFINE i == DropIndex(q)
             r == RemoveAt(q, i)
             a == Append(r, e)
  <2>0. i \in 1..Len(q) /\ ~IsTerminal(q[i])
    BY <1>0, <1>2, DropIndexProperties
  <2>1. Put(q, e).q = a /\ Put(q, e).out = {q[i]}
    BY <1>0, <1>2 DEF Put
  <2> HIDE DEF i
  <2>2. /\ r \in Seq(Events) /\ Len(r) = Len(q) - 1
        /\ \A k \in 1..Len(q) - 1 : r[k] = IF k < i THEN q[k] ELSE q[k + 1]
    BY <2>0, RemoveAtProperties
  <2> HIDE DEF r
  <2>3. /\ a \in Seq(Events) /\ Len(a) = Len(r) + 1 /\ a[Len(r) + 1] = e
        /\ \A k \in 1..Len(r) : a[k] = r[k]
    BY <2>2, AppendProperties
  <2> HIDE DEF a
  <2>4. /\ Len(a) = Len(q) /\ a[Len(q)] = e
        /\ \A k \in 1..Len(q) - 1 : a[k] = IF k < i THEN q[k] ELSE q[k + 1]
    BY <1>0, <2>2, <2>3
  <2>5. ASSUME NEW j \in 1..Len(q), j # i
        PROVE  \E k \in 1..Len(a) : a[k] = q[j]
    <3>1. CASE j < i
      BY <1>0, <2>0, <2>4, <3>1
    <3>2. CASE j > i
      <4>1. j - 1 \in 1..Len(q) - 1 /\ ~(j - 1 < i) /\ (j - 1) + 1 = j
        BY <1>0, <2>0, <3>2
      <4>2. a[j - 1] = q[j]
        BY <2>4, <4>1
      <4> QED BY <1>0, <2>4, <4>1, <4>2
    <3> QED BY <1>0, <2>0, <2>5, <3>1, <3>2
  <2>6. ASSUME NEW k \in 1..Len(a)
        PROVE  a[k] = e \/ \E j \in 1..Len(q) : a[k] = q[j]
    <3>1. CASE k = Len(q)
      BY <2>4, <3>1
    <3>2. CASE k # Len(q)
      <4>1. k \in 1..Len(q) - 1 /\ k \in 1..Len(q) /\ k + 1 \in 1..Len(q)
        BY <1>0, <2>4, <3>2
      <4> QED BY <2>4, <4>1
    <3> QED BY <3>1, <3>2
  <2>7. ASSUME Sorted(q), \A j \in 1..Len(q) : q[j].n < e.n PROVE Sorted(a)
    <3> SUFFICES ASSUME NEW k \in 1..Len(a), NEW l \in 1..Len(a), k < l PROVE a[k].n < a[l].n
      BY DEF Sorted
    <3>1. k \in 1..Len(q) - 1 /\ k \in 1..Len(q) /\ k + 1 \in 1..Len(q)
      BY <1>0, <2>4
    <3>2. CASE l = Len(q)
      BY <2>4, <2>7, <3>1, <3>2
    <3>3. CASE l # Len(q)
      <4>1. l \in 1..Len(q) - 1 /\ l \in 1..Len(q) /\ l + 1 \in 1..Len(q)
        BY <1>0, <2>4, <3>3
      <4>2. /\ a[k] = IF k < i THEN q[k] ELSE q[k + 1]
            /\ a[l] = IF l < i THEN q[l] ELSE q[l + 1]
        BY <2>4, <3>1, <4>1
      <4>3. /\ q[k].n < q[l].n /\ q[k].n < q[l + 1].n /\ q[k + 1].n < q[l + 1].n
        BY <1>0, <2>7, <3>1, <4>1 DEF Sorted
      <4> QED BY <1>0, <2>0, <3>1, <4>1, <4>2, <4>3
    <3> QED BY <3>2, <3>3
  <2>8. Terminal(q) => Terminal(a)
    BY <2>0, <2>5 DEF Terminal
  <2>9. Len(q) \in 1..Len(a)
    BY <1>0, <1>2, <2>4
  <2> QED BY <1>0, <1>2, <2>0, <2>1, <2>3, <2>4, <2>5, <2>6, <2>7, <2>8, <2>9
<1>3. CASE Len(q) >= QueueSize /\ DropIndex(q) = 0
  <2>1. Put(q, e).q = q /\ Put(q, e).out = {e}
    BY <1>0, <1>3 DEF Put
  <2>2. \A i \in 1..Len(q) : IsTerminal(q[i])
    BY <1>3, DropIndexProperties
  <2>3. 1 \in 1..Len(q)
    BY <1>0, <1>3
  <2>4. Terminal(q)
    BY <2>2, <2>3 DEF Terminal
  <2> QED BY <2>1, <2>4
<1> QED BY <1>0, <1>1, <1>2, <1>3, DropIndexProperties

\* The ring keeps the latest events, in order and within its bound.
LEMMA RingProperties ==
  ASSUME NEW b \in Seq(Events), Len(b) <= RingSize, NEW e \in Events,
         Sorted(b), \A i \in 1..Len(b) : b[i].n < e.n
  PROVE  /\ RingAppend(b, e) \in Seq(Events) /\ Len(RingAppend(b, e)) <= RingSize
         /\ Sorted(RingAppend(b, e)) /\ UpTo(RingAppend(b, e), e.n)
<1>0. Len(b) \in Nat /\ RingSize \in Nat \ {0} /\ e.n \in Nat
  BY LenProperties, HubAssumption DEF Events
<1>1. ASSUME NEW c \in Seq(Events), Sorted(c), \A i \in 1..Len(c) : c[i].n < e.n
      PROVE  /\ Append(c, e) \in Seq(Events) /\ Len(Append(c, e)) = Len(c) + 1
             /\ Sorted(Append(c, e)) /\ UpTo(Append(c, e), e.n)
  <2> DEFINE a == Append(c, e)
  <2>1. a \in Seq(Events) /\ Len(a) = Len(c) + 1 /\ a[Len(c) + 1] = e /\ \A i \in 1..Len(c) : a[i] = c[i]
    BY AppendProperties
  <2> HIDE DEF a
  <2>2. Len(c) \in Nat /\ \A i \in 1..Len(c) : c[i].n \in Nat
    <3>1. \A x \in Events : x.n \in Nat
      BY HubAssumption DEF Events
    <3> QED BY <3>1, LenProperties, ElementOfSeq
  <2>5. \A i \in 1..Len(a) : i \in 1..Len(c) \/ i = Len(c) + 1
    BY <2>1, <2>2
  <2>3. Sorted(a)
    BY <1>1, <2>1, <2>2, <2>5 DEF Sorted
  <2>4. UpTo(a, e.n)
    BY <1>0, <1>1, <2>1, <2>2, <2>5 DEF UpTo
  <2> QED BY <2>1, <2>3, <2>4 DEF a
<1>2. CASE Len(b) < RingSize
  BY <1>0, <1>1, <1>2 DEF RingAppend
<1>3. CASE Len(b) >= RingSize
  <2>1. b # <<>>
    BY <1>0, <1>3, EmptySeq
  <2>2. /\ Tail(b) \in Seq(Events) /\ Len(Tail(b)) = Len(b) - 1
        /\ \A i \in 1..Len(Tail(b)) : Tail(b)[i] = b[i + 1]
    BY <2>1, HeadTailProperties
  <2>3. Sorted(Tail(b)) /\ \A i \in 1..Len(Tail(b)) : Tail(b)[i].n < e.n
    BY <1>0, <2>2 DEF Sorted
  <2>4. RingAppend(b, e) = Append(Tail(b), e)
    BY <1>0, <1>3 DEF RingAppend
  <2>5. Len(Append(Tail(b), e)) = Len(b)
    BY <1>0, <1>1, <2>2, <2>3
  <2> QED BY <1>1, <2>2, <2>3, <2>4, <2>5
<1> QED BY <1>0, <1>2, <1>3

\* The first event of a part moves to the end of what was received: nothing else changes.
LEMMA MoveProperties ==
  ASSUME NEW r \in Seq(Events), NEW q \in Seq(Events), q # <<>>
  PROVE  /\ Head(q) \in Events /\ Head(q) = q[1] /\ 1 \in 1..Len(q)
         /\ Append(r, Head(q)) \in Seq(Events) /\ Tail(q) \in Seq(Events)
         /\ Len(Append(r, Head(q))) = Len(r) + 1 /\ Len(Tail(q)) = Len(q) - 1
         /\ Len(r) \in Nat /\ Len(q) \in Nat
         /\ Append(r, Head(q))[Len(r) + 1] = q[1]
         /\ \A i \in 1..Len(r) : Append(r, Head(q))[i] = r[i]
         /\ \A i \in 1..Len(q) - 1 : Tail(q)[i] = q[i + 1]
<1>1. Len(r) \in Nat /\ Len(q) \in Nat \ {0}
  BY LenProperties, EmptySeq
<1>2. /\ Head(q) \in Events /\ Tail(q) \in Seq(Events) /\ Len(Tail(q)) = Len(q) - 1
      /\ \A i \in 1..Len(Tail(q)) : Tail(q)[i] = q[i + 1]
  BY HeadTailProperties
<1>3. Head(q) = q[1]
  BY <1>1
<1>4. /\ Append(r, Head(q)) \in Seq(Events) /\ Len(Append(r, Head(q))) = Len(r) + 1
      /\ Append(r, Head(q))[Len(r) + 1] = Head(q)
      /\ \A i \in 1..Len(r) : Append(r, Head(q))[i] = r[i]
  BY <1>2, AppendProperties
<1> QED BY <1>1, <1>2, <1>3, <1>4

-----------------------------------------------------------------------------
(* The inductive invariant *)

\* A hub without streams satisfies the invariant.
LEMMA HubInvInit == HubInit => HubInv
<1> SUFFICES ASSUME HubInit PROVE HubInv
  OBVIOUS
<1> USE DEF HubInit
<1>1. <<>> \in Seq(Events) /\ Len(<<>>) = 0
  BY EmptySeq
<1>2. HubTypeOK
  <2>1. buffer \in Seq(Events) /\ Len(buffer) <= RingSize
    BY <1>1, HubAssumption
  <2>2. queue \in [Subscribers -> Seq(Events)] /\ \A s \in Subscribers : Len(queue[s]) <= QueueSize
    BY <1>1, HubAssumption
  <2>3. start \in [Subscribers -> 0..MaxEvents] /\ published \in 0..MaxEvents /\ timers \in Nat
    BY HubAssumption
  <2> QED BY <1>1, <2>1, <2>2, <2>3 DEF HubTypeOK
<1>3. PartsInOrder
  BY <1>1 DEF PartsInOrder, Sorted, Below, UpTo
<1>4. Places /\ PartsWithoutGap /\ PartsHoldTerminal /\ NothingAfterTerminal
  BY <1>1 DEF Places, PartsWithoutGap, PartsHoldTerminal, NothingAfterTerminal
<1> QED BY <1>2, <1>3, <1>4 DEF HubInv

\* An event is published: every registered queue gets it, by way of _put_event.
LEMMA PublishInv ==
  ASSUME HubInv, NEW kind \in Kinds, Publish(kind)
  PROVE  HubInv'
<1> DEFINE e == [kind |-> kind, n |-> published + 1]
           p(s) == Put(queue[s], e)
<1> USE DEF HubInv
<1>0. /\ published \in Nat /\ published + 1 \in 1..MaxEvents /\ MaxEvents \in Nat /\ timers \in Nat
      /\ \A x \in Events : x.n \in Nat
  BY HubAssumption DEF HubTypeOK, Publish, Events
<1>1. e \in Events /\ e.n = published + 1
  BY <1>0 DEF Events
<1>2. /\ published' = published + 1 /\ buffer' = RingAppend(buffer, e)
      /\ queue' = [s \in Subscribers |-> IF s \in registered THEN p(s).q ELSE queue[s]]
      /\ lost' = [s \in Subscribers |-> IF s \in registered THEN lost[s] \cup p(s).out ELSE lost[s]]
      /\ timers' \in {timers, timers + 1}
      /\ UNCHANGED <<registered, backlog, phase, received, start, cut>>
  BY DEF Publish
<1>3. /\ buffer \in Seq(Events) /\ Len(buffer) <= RingSize
      /\ \A s \in Subscribers : /\ queue[s] \in Seq(Events) /\ Len(queue[s]) <= QueueSize
                               /\ backlog[s] \in Seq(Events) /\ received[s] \in Seq(Events)
                               /\ lost[s] \in SUBSET Events
  BY DEF HubTypeOK
<1> HIDE DEF e
<1>4. \A s \in Subscribers :
        /\ p(s).q \in Seq(Events) /\ Len(p(s).q) <= QueueSize /\ p(s).out \in SUBSET Events
        /\ \A i \in 1..Len(queue[s]) :
             (\E k \in 1..Len(p(s).q) : p(s).q[k] = queue[s][i]) \/ queue[s][i] \in p(s).out
        /\ (\E k \in 1..Len(p(s).q) : p(s).q[k] = e) \/ e \in p(s).out
        /\ \A k \in 1..Len(p(s).q) : p(s).q[k] = e \/ \E i \in 1..Len(queue[s]) : p(s).q[k] = queue[s][i]
        /\ \A x \in p(s).out : IsTerminal(x) => Terminal(p(s).q)
        /\ Terminal(queue[s]) => Terminal(p(s).q)
        /\ Sorted(queue[s]) /\ (\A i \in 1..Len(queue[s]) : queue[s][i].n < e.n) => Sorted(p(s).q)
  BY <1>1, <1>3, PutProperties
<1> HIDE DEF p
<1>5. ASSUME NEW q \in Seq(Events), UpTo(q, published)
      PROVE  (\A i \in 1..Len(q) : q[i].n < e.n) /\ UpTo(q, published')
  <2>1. \A i \in 1..Len(q) : q[i].n \in Nat
    BY <1>0, ElementOfSeq
  <2> QED BY <1>0, <1>1, <1>2, <1>5, <2>1 DEF UpTo
<1>6. HubTypeOK'
  <2>1. buffer' \in Seq(Events) /\ Len(buffer') <= RingSize
    BY <1>1, <1>2, <1>3, <1>5, RingProperties DEF PartsInOrder
  <2>2. queue' \in [Subscribers -> Seq(Events)] /\ \A s \in Subscribers : Len(queue'[s]) <= QueueSize
    BY <1>2, <1>3, <1>4
  <2>3. lost' \in [Subscribers -> SUBSET Events]
    BY <1>2, <1>3, <1>4
  <2>4. timers' \in Nat /\ published' \in 0..MaxEvents
    BY <1>0, <1>2
  <2> QED BY <1>2, <2>1, <2>2, <2>3, <2>4 DEF HubTypeOK
<1>7. Places'
  <2> SUFFICES ASSUME NEW s \in Subscribers
               PROVE  /\ s \in registered => phase[s] \in {"replay", "live"}
                      /\ phase[s] \in {"replay", "live"} => s \in registered \cup cut
                      /\ phase[s] = "live" => backlog[s] = <<>>
                      /\ phase[s] = "idle" => received[s] = <<>> /\ backlog[s] = <<>> /\ queue'[s] = <<>>
                      /\ start[s] <= published'
    BY <1>2 DEF Places
  <2>1. start[s] \in Nat
    BY DEF HubTypeOK
  <2>2. phase[s] = "idle" => queue'[s] = queue[s]
    BY <1>2 DEF Places
  <2> QED BY <1>0, <1>2, <2>1, <2>2 DEF Places
<1>8. PartsInOrder'
  <2>1. Sorted(buffer') /\ UpTo(buffer', published')
    BY <1>1, <1>2, <1>3, <1>5, RingProperties DEF PartsInOrder
  <2> SUFFICES ASSUME NEW s \in Subscribers
               PROVE  /\ Sorted(received[s]) /\ Sorted(backlog[s]) /\ Sorted(queue'[s])
                      /\ Below(received[s], backlog[s]) /\ Below(received[s], queue'[s])
                      /\ Below(backlog[s], queue'[s])
                      /\ UpTo(received[s], published') /\ UpTo(backlog[s], published')
                      /\ UpTo(queue'[s], published')
    BY <1>2, <2>1 DEF PartsInOrder
  <2>2. /\ UpTo(received[s], published') /\ UpTo(backlog[s], published') /\ UpTo(queue[s], published')
        /\ \A i \in 1..Len(received[s]) : received[s][i].n < e.n
        /\ \A i \in 1..Len(backlog[s]) : backlog[s][i].n < e.n
        /\ \A i \in 1..Len(queue[s]) : queue[s][i].n < e.n
    BY <1>3, <1>5 DEF PartsInOrder
  <2>3. CASE s \in registered
    <3>1. queue'[s] = p(s).q
      BY <1>2, <2>3
    <3>2. Sorted(p(s).q)
      BY <1>4, <2>2 DEF PartsInOrder
    <3>3. \A k \in 1..Len(p(s).q) : p(s).q[k] = e \/ \E i \in 1..Len(queue[s]) : p(s).q[k] = queue[s][i]
      BY <1>4
    <3>4. Below(received[s], p(s).q) /\ Below(backlog[s], p(s).q)
      BY <2>2, <3>3 DEF PartsInOrder, Below
    <3>5. UpTo(p(s).q, published')
      BY <1>0, <1>1, <1>2, <2>2, <3>3 DEF UpTo
    <3> QED BY <2>2, <3>1, <3>2, <3>4, <3>5 DEF PartsInOrder
  <2>4. CASE s \notin registered
    BY <1>2, <2>2, <2>4 DEF PartsInOrder
  <2> QED BY <2>3, <2>4
<1>9. PartsWithoutGap'
  <2> SUFFICES ASSUME NEW s \in Subscribers, s \notin cut, phase[s] \in {"replay", "live"},
                      NEW n \in (start[s] + 1)..published'
               PROVE  \/ Shows(received[s], n) \/ Shows(backlog[s], n) \/ Shows(queue'[s], n)
                      \/ \E x \in lost'[s] : x.n = n
    BY <1>2 DEF PartsWithoutGap
  <2>1. s \in registered /\ start[s] \in Nat
    BY DEF Places, HubTypeOK
  <2>2. queue'[s] = p(s).q /\ lost'[s] = lost[s] \cup p(s).out
    BY <1>2, <2>1
  <2>3. CASE n = published + 1
    BY <1>1, <1>4, <2>2, <2>3 DEF Shows
  <2>4. CASE n # published + 1
    <3>1. n \in (start[s] + 1)..published
      BY <1>0, <1>2, <2>1, <2>4
    <3>2. \/ Shows(received[s], n) \/ Shows(backlog[s], n) \/ Shows(queue[s], n)
          \/ \E x \in lost[s] : x.n = n
      BY <3>1 DEF PartsWithoutGap
    <3>3. ASSUME Shows(queue[s], n)
          PROVE  Shows(queue'[s], n) \/ \E x \in lost'[s] : x.n = n
      BY <1>4, <2>2, <3>3 DEF Shows
    <3> QED BY <2>2, <3>2, <3>3
  <2> QED BY <2>3, <2>4
<1>10. PartsHoldTerminal'
  <2> SUFFICES ASSUME NEW s \in Subscribers, NEW x \in lost'[s], IsTerminal(x)
               PROVE  Terminal(received[s]) \/ Terminal(backlog[s]) \/ Terminal(queue'[s])
    BY <1>2 DEF PartsHoldTerminal
  <2>1. CASE s \in registered
    BY <1>2, <1>4, <2>1 DEF PartsHoldTerminal
  <2>2. CASE s \notin registered
    BY <1>2, <2>2 DEF PartsHoldTerminal
  <2> QED BY <2>1, <2>2
<1>11. NothingAfterTerminal'
  BY <1>2 DEF NothingAfterTerminal
<1> QED BY <1>6, <1>7, <1>8, <1>9, <1>10, <1>11

\* The snapshot and the registration are one step: what is published from here on comes
\* to the queue.
LEMMA SubscribeInv ==
  ASSUME HubInv, NEW s \in Subscribers, Subscribe(s)
  PROVE  HubInv'
<1> USE DEF HubInv
<1>0. /\ phase[s] = "idle" /\ received[s] = <<>> /\ queue[s] = <<>>
      /\ backlog' = [backlog EXCEPT ![s] = buffer]
      /\ registered' = registered \cup {s}
      /\ start' = [start EXCEPT ![s] = published]
      /\ phase' = [phase EXCEPT ![s] = "replay"]
      /\ UNCHANGED <<buffer, timers, published, queue, received, lost, cut>>
  BY DEF Subscribe, Places
<1>1. published \in Nat /\ Len(<<>>) = 0
  BY EmptySeq DEF HubTypeOK
<1>2. HubTypeOK'
  BY <1>0 DEF HubTypeOK
<1>3. Places'
  BY <1>0, <1>1 DEF Places, HubTypeOK
<1>4. PartsInOrder'
  <2>1. \A q : Sorted(<<>>) /\ Below(<<>>, q) /\ Below(q, <<>>) /\ UpTo(<<>>, published)
    BY <1>1 DEF Sorted, Below, UpTo
  <2>2. ASSUME NEW t \in Subscribers, t # s
        PROVE  UNCHANGED <<received[t], backlog[t], queue[t]>>
    BY <1>0, <2>2 DEF HubTypeOK
  <2>3. backlog'[s] = buffer
    BY <1>0 DEF HubTypeOK
  <2> QED BY <1>0, <2>1, <2>2, <2>3 DEF PartsInOrder
<1>5. PartsWithoutGap'
  <2>1. start'[s] = published /\ \A n \in published + 1..published : FALSE
    BY <1>0, <1>1 DEF HubTypeOK
  <2>2. ASSUME NEW t \in Subscribers, t # s
        PROVE  UNCHANGED <<received[t], backlog[t], queue[t], start[t], phase[t], lost[t]>>
    BY <1>0, <2>2 DEF HubTypeOK
  <2>3. ASSUME NEW t \in Subscribers, t \notin cut', phase'[t] \in {"replay", "live"},
               NEW n \in (start'[t] + 1)..published'
        PROVE  \/ Shows(received'[t], n) \/ Shows(backlog'[t], n) \/ Shows(queue'[t], n)
               \/ \E e \in lost'[t] : e.n = n
    <3>1. t # s
      BY <1>0, <2>1, <2>3
    <3> QED BY <1>0, <2>2, <2>3, <3>1 DEF PartsWithoutGap
  <2> QED BY <2>3 DEF PartsWithoutGap
<1>6. PartsHoldTerminal'
  <2>1. ASSUME NEW t \in Subscribers PROVE Terminal(backlog[t]) => Terminal(backlog'[t])
    <3>1. CASE t = s
      <4>1. backlog[s] = <<>>
        BY <1>0 DEF Places
      <4> QED BY <1>1, <3>1, <4>1 DEF Terminal
    <3>2. CASE t # s
      BY <1>0, <3>2 DEF HubTypeOK
    <3> QED BY <3>1, <3>2
  <2> QED BY <1>0, <2>1 DEF PartsHoldTerminal
<1>7. NothingAfterTerminal'
  BY <1>0, <1>1 DEF NothingAfterTerminal, HubTypeOK
<1> QED BY <1>2, <1>3, <1>4, <1>5, <1>6, <1>7

\* What a reader takes leaves its part of the stream and is the last it has received; a
\* terminal event closes the stream.
LEMMA YieldInv ==
  ASSUME HubInv, NEW s \in Subscribers, Replay(s) \/ Deliver(s)
  PROVE  HubInv'
<1> USE DEF HubInv
<1> DEFINE live == phase[s] = "live"
           part == IF live THEN queue[s] ELSE backlog[s]
           other == IF live THEN backlog[s] ELSE queue[s]
           part2 == IF live THEN queue'[s] ELSE backlog'[s]
           e == Head(part)
<1>0. /\ received \in [Subscribers -> Seq(Events)] /\ queue \in [Subscribers -> Seq(Events)]
      /\ backlog \in [Subscribers -> Seq(Events)]
      /\ phase \in [Subscribers -> {"idle", "replay", "live", "closed"}]
      /\ registered \subseteq Subscribers
  BY DEF HubTypeOK
<1>1. /\ phase[s] \in {"replay", "live"} /\ part # <<>> /\ part2 = Tail(part)
      /\ received' = [received EXCEPT ![s] = Append(received[s], e)]
      /\ live => backlog[s] = <<>> /\ backlog' = backlog /\ queue' = [queue EXCEPT ![s] = Tail(queue[s])]
      /\ ~live => queue' = queue /\ backlog' = [backlog EXCEPT ![s] = Tail(backlog[s])]
      /\ UNCHANGED <<buffer, timers, published, lost, start, cut>>
      /\ IF IsTerminal(e)
         THEN phase' = [phase EXCEPT ![s] = "closed"] /\ registered' = registered \ {s}
         ELSE UNCHANGED <<phase, registered>>
  <2>1. CASE Replay(s)
    BY <1>0, <2>1 DEF Replay, Yield, Leave
  <2>2. CASE Deliver(s)
    BY <1>0, <2>2 DEF Deliver, Yield, Leave, Places
  <2> QED BY <2>1, <2>2
<1>2. \A t \in Subscribers : t # s =>
        /\ received'[t] = received[t] /\ queue'[t] = queue[t] /\ backlog'[t] = backlog[t]
        /\ phase'[t] = phase[t] /\ lost'[t] = lost[t] /\ start'[t] = start[t]
        /\ t \in registered' <=> t \in registered
  BY <1>0, <1>1
<1>3. part \in Seq(Events) /\ received[s] \in Seq(Events) /\ other \in Seq(Events)
  BY <1>0
<1>4. /\ phase'[s] = (IF IsTerminal(e) THEN "closed" ELSE phase[s])
      /\ s \in registered' <=> s \in registered /\ ~IsTerminal(e)
      /\ received'[s] = Append(received[s], e)
      /\ lost'[s] = lost[s] /\ start'[s] = start[s] /\ cut' = cut /\ published' = published
      /\ buffer' = buffer
      /\ IF live THEN queue'[s] = part2 /\ backlog'[s] = other ELSE queue'[s] = other /\ backlog'[s] = part2
      /\ IF live THEN queue[s] = part /\ backlog[s] = other ELSE queue[s] = other /\ backlog[s] = part
  BY <1>0, <1>1
<1> HIDE DEF live, part, other, part2
<1>5. /\ e \in Events /\ e = part[1] /\ 1 \in 1..Len(part)
      /\ received'[s] \in Seq(Events) /\ part2 \in Seq(Events)
      /\ Len(received'[s]) = Len(received[s]) + 1 /\ Len(part2) = Len(part) - 1
      /\ Len(received[s]) \in Nat /\ Len(part) \in Nat
      /\ received'[s][Len(received[s]) + 1] = e
      /\ \A i \in 1..Len(received[s]) : received'[s][i] = received[s][i]
      /\ \A i \in 1..Len(part) - 1 : part2[i] = part[i + 1]
  BY <1>1, <1>3, <1>4, MoveProperties
<1> HIDE DEF e
<1>6. \A i \in 1..Len(received'[s]) : i = Len(received[s]) + 1 \/ i \in 1..Len(received[s])
  BY <1>5
<1>7. \A i \in 1..Len(part2) : i \in 1..Len(part) /\ i + 1 \in 1..Len(part) /\ part2[i] = part[i + 1]
  BY <1>5
<1>8. \A x \in Events : x.n \in Nat
  BY HubAssumption DEF Events
<1>9. \A q \in Seq(Events) : \A i \in 1..Len(q) : q[i] \in Events
  BY ElementOfSeq
<1>10. HubTypeOK'
  <2>1. received' \in [Subscribers -> Seq(Events)]
    BY <1>0, <1>1, <1>4, <1>5
  <2>2. queue' \in [Subscribers -> Seq(Events)] /\ \A t \in Subscribers : Len(queue'[t]) <= QueueSize
    <3>1. Len(queue'[s]) <= QueueSize
      BY <1>0, <1>4, <1>5, HubAssumption DEF HubTypeOK
    <3> QED BY <1>0, <1>1, <1>2, <1>4, <1>5, <3>1 DEF HubTypeOK, part
  <2>3. backlog' \in [Subscribers -> Seq(Events)]
    BY <1>0, <1>1, <1>4, <1>5 DEF part
  <2>4. phase' \in [Subscribers -> {"idle", "replay", "live", "closed"}] /\ registered' \subseteq Subscribers
    BY <1>0, <1>1
  <2> QED BY <1>1, <2>1, <2>2, <2>3, <2>4 DEF HubTypeOK
<1>11. Places'
  <2> SUFFICES ASSUME NEW t \in Subscribers
               PROVE  /\ t \in registered' => phase'[t] \in {"replay", "live"}
                      /\ phase'[t] \in {"replay", "live"} => t \in registered' \cup cut'
                      /\ phase'[t] = "live" => backlog'[t] = <<>>
                      /\ phase'[t] = "idle" => received'[t] = <<>> /\ backlog'[t] = <<>> /\ queue'[t] = <<>>
                      /\ start'[t] <= published'
    BY DEF Places
  <2>1. CASE t = s
    BY <1>1, <1>4, <2>1 DEF Places, live
  <2>2. CASE t # s
    BY <1>1, <1>2, <2>2 DEF Places
  <2> QED BY <2>1, <2>2
<1>12. PartsInOrder'
  <2>1. /\ Sorted(received[s]) /\ Sorted(part) /\ Sorted(other)
        /\ Below(received[s], part) /\ Below(received[s], other)
        /\ IF live THEN Below(other, part) ELSE Below(part, other)
        /\ UpTo(received[s], published) /\ UpTo(part, published) /\ UpTo(other, published)
    BY <1>4 DEF PartsInOrder
  <2>2. Sorted(received'[s])
    <3> SUFFICES ASSUME NEW i \in 1..Len(received'[s]), NEW j \in 1..Len(received'[s]), i < j
                 PROVE  received'[s][i].n < received'[s][j].n
      BY DEF Sorted
    <3>1. i \in 1..Len(received[s]) /\ received'[s][i] = received[s][i]
      BY <1>5, <1>6
    <3>2. CASE j \in 1..Len(received[s])
      BY <1>5, <2>1, <3>1, <3>2 DEF Sorted
    <3>3. CASE j = Len(received[s]) + 1
      <4>1. received[s][i].n < part[1].n
        BY <1>5, <2>1, <3>1 DEF Below
      <4> QED BY <1>5, <3>1, <3>3, <4>1
    <3> QED BY <1>6, <3>2, <3>3
  <2>3. Sorted(part2)
    BY <1>5, <1>7, <2>1 DEF Sorted
  <2>4. Below(received'[s], part2)
    <3> SUFFICES ASSUME NEW i \in 1..Len(received'[s]), NEW j \in 1..Len(part2)
                 PROVE  received'[s][i].n < part2[j].n
      BY DEF Below
    <3>1. j \in 1..Len(part) /\ j + 1 \in 1..Len(part) /\ part2[j] = part[j + 1] /\ 1 < j + 1
      BY <1>5, <1>7
    <3>2. CASE i \in 1..Len(received[s])
      BY <1>5, <2>1, <3>1, <3>2 DEF Below
    <3>3. CASE i = Len(received[s]) + 1
      BY <1>5, <2>1, <3>1, <3>3 DEF Sorted
    <3> QED BY <1>6, <3>2, <3>3
  <2>5. live => Len(other) = 0
    <3>1. live => other = <<>>
      BY <1>1, <1>4
    <3> QED BY <3>1, EmptySeq
  <2>6. Below(received'[s], other)
    <3> SUFFICES ASSUME NEW i \in 1..Len(received'[s]), NEW j \in 1..Len(other)
                 PROVE  received'[s][i].n < other[j].n
      BY DEF Below
    <3>1. CASE i \in 1..Len(received[s])
      BY <1>5, <2>1, <3>1 DEF Below
    <3>2. CASE i = Len(received[s]) + 1
      <4>1. ~live
        BY <2>5
      <4>2. part[1].n < other[j].n
        BY <1>5, <2>1, <4>1 DEF Below
      <4> QED BY <1>5, <3>2, <4>2
    <3> QED BY <1>6, <3>1, <3>2
  <2>7. IF live THEN Below(other, part2) ELSE Below(part2, other)
    BY <1>7, <2>1, <2>5 DEF Below
  <2>8. UpTo(received'[s], published) /\ UpTo(part2, published)
    BY <1>5, <1>6, <1>7, <2>1 DEF UpTo
  <2> SUFFICES ASSUME NEW t \in Subscribers
               PROVE  /\ Sorted(received'[t]) /\ Sorted(backlog'[t]) /\ Sorted(queue'[t])
                      /\ Below(received'[t], backlog'[t]) /\ Below(received'[t], queue'[t])
                      /\ Below(backlog'[t], queue'[t])
                      /\ UpTo(received'[t], published) /\ UpTo(backlog'[t], published)
                      /\ UpTo(queue'[t], published)
    BY <1>4 DEF PartsInOrder
  <2>9. CASE t = s
    BY <1>4, <2>1, <2>2, <2>3, <2>4, <2>6, <2>7, <2>8, <2>9
  <2>10. CASE t # s
    BY <1>2, <2>10 DEF PartsInOrder
  <2> QED BY <2>9, <2>10
<1>13. \A i \in 1..Len(part) :
         \/ \E k \in 1..Len(received'[s]) : received'[s][k] = part[i]
         \/ \E k \in 1..Len(part2) : part2[k] = part[i]
  <2> TAKE i \in 1..Len(part)
  <2>1. CASE i = 1
    <3>1. Len(received[s]) + 1 \in 1..Len(received'[s])
      BY <1>5
    <3> QED BY <1>5, <2>1, <3>1
  <2>2. CASE i # 1
    <3>1. i - 1 \in 1..Len(part2) /\ i - 1 \in 1..Len(part) - 1 /\ (i - 1) + 1 = i
      BY <1>5, <2>2
    <3>2. part2[i - 1] = part[i]
      BY <1>5, <3>1
    <3> QED BY <3>1, <3>2
  <2> QED BY <2>1, <2>2
<1>14. \A i \in 1..Len(received[s]) : \E k \in 1..Len(received'[s]) : received'[s][k] = received[s][i]
  BY <1>5
<1>15. PartsWithoutGap'
  <2> SUFFICES ASSUME NEW t \in Subscribers, t \notin cut, phase'[t] \in {"replay", "live"},
                      NEW n \in (start'[t] + 1)..published
               PROVE  \/ Shows(received'[t], n) \/ Shows(backlog'[t], n) \/ Shows(queue'[t], n)
                      \/ \E x \in lost'[t] : x.n = n
    BY <1>4 DEF PartsWithoutGap
  <2>1. CASE t = s
    <3>1. \/ Shows(received[s], n) \/ Shows(part, n) \/ Shows(other, n) \/ \E x \in lost[s] : x.n = n
      BY <1>1, <1>4, <2>1 DEF PartsWithoutGap
    <3>2. Shows(received[s], n) => Shows(received'[s], n)
      BY <1>14 DEF Shows
    <3>3. Shows(part, n) => Shows(received'[s], n) \/ Shows(part2, n)
      BY <1>13 DEF Shows
    <3> QED BY <1>4, <2>1, <3>1, <3>2, <3>3
  <2>2. CASE t # s
    BY <1>2, <2>2 DEF PartsWithoutGap
  <2> QED BY <2>1, <2>2
<1>16. PartsHoldTerminal'
  <2> SUFFICES ASSUME NEW t \in Subscribers, NEW x \in lost'[t], IsTerminal(x)
               PROVE  Terminal(received'[t]) \/ Terminal(backlog'[t]) \/ Terminal(queue'[t])
    BY DEF PartsHoldTerminal
  <2>1. CASE t = s
    <3>1. Terminal(received[s]) \/ Terminal(part) \/ Terminal(other)
      BY <1>4, <2>1 DEF PartsHoldTerminal
    <3>2. Terminal(received[s]) => Terminal(received'[s])
      BY <1>14 DEF Terminal
    <3>3. Terminal(part) => Terminal(received'[s]) \/ Terminal(part2)
      BY <1>13 DEF Terminal
    <3> QED BY <1>4, <2>1, <3>1, <3>2, <3>3
  <2>2. CASE t # s
    BY <1>2, <2>2 DEF PartsHoldTerminal
  <2> QED BY <2>1, <2>2
<1>17. NothingAfterTerminal'
  <2> SUFFICES ASSUME NEW t \in Subscribers, NEW i \in 1..Len(received'[t]), IsTerminal(received'[t][i])
               PROVE  i = Len(received'[t]) /\ phase'[t] = "closed"
    BY DEF NothingAfterTerminal
  <2>1. CASE t = s
    <3>1. ~(i \in 1..Len(received[s]))
      BY <1>1, <1>5, <2>1 DEF NothingAfterTerminal
    <3> QED BY <1>4, <1>5, <1>6, <2>1, <3>1
  <2>2. CASE t # s
    BY <1>2, <2>2 DEF NothingAfterTerminal
  <2> QED BY <2>1, <2>2
<1> QED BY <1>10, <1>11, <1>12, <1>15, <1>16, <1>17

\* Every step of publishers, subscribers and cleanup keeps the invariant.
LEMMA HubInvNext == HubInv /\ [HubNext]_hubVars => HubInv'
<1> SUFFICES ASSUME HubInv, [HubNext]_hubVars PROVE HubInv'
  OBVIOUS
<1> USE DEF HubInv
<1>1. ASSUME NEW kind \in Kinds, Publish(kind) PROVE HubInv'
  BY <1>1, PublishInv
<1>2. ASSUME NEW s \in Subscribers, Subscribe(s) PROVE HubInv'
  BY <1>2, SubscribeInv
<1>3. ASSUME NEW s \in Subscribers, Replay(s) \/ Deliver(s) PROVE HubInv'
  BY <1>3, YieldInv
<1>4. ASSUME NEW s \in Subscribers, GoLive(s) PROVE HubInv'
  <2> USE <1>4 DEF GoLive
  <2>1. HubTypeOK' /\ Places'
    BY DEF HubTypeOK, Places
  <2>2. PartsInOrder' /\ PartsWithoutGap' /\ PartsHoldTerminal'
    BY DEF HubTypeOK, PartsInOrder, PartsWithoutGap, PartsHoldTerminal
  <2>3. NothingAfterTerminal'
    BY DEF HubTypeOK, NothingAfterTerminal
  <2> QED BY <2>1, <2>2, <2>3
<1>5. ASSUME NEW s \in Subscribers, Disconnect(s) PROVE HubInv'
  <2> USE <1>5 DEF Disconnect, Leave
  <2>1. HubTypeOK' /\ Places'
    BY DEF HubTypeOK, Places
  <2>2. PartsInOrder' /\ PartsWithoutGap' /\ PartsHoldTerminal'
    BY DEF HubTypeOK, PartsInOrder, PartsWithoutGap, PartsHoldTerminal
  <2>3. NothingAfterTerminal'
    BY DEF HubTypeOK, NothingAfterTerminal
  <2> QED BY <2>1, <2>2, <2>3
<1>6. CASE Cleanup
  <2> USE <1>6 DEF Cleanup, subVars
  <2>1. <<>> \in Seq(Events) /\ Len(<<>>) = 0
    BY EmptySeq
  <2>2. HubTypeOK' /\ Places'
    BY <2>1, HubAssumption DEF HubTypeOK, Places
  <2>5. Sorted(<<>>) /\ UpTo(<<>>, published)
    BY <2>1 DEF Sorted, UpTo
  <2>3. PartsInOrder'
    BY <2>5 DEF PartsInOrder
  <2>4. PartsWithoutGap' /\ PartsHoldTerminal' /\ NothingAfterTerminal'
    BY DEF PartsWithoutGap, PartsHoldTerminal, NothingAfterTerminal
  <2> QED BY <2>2, <2>3, <2>4
<1>7. CASE UNCHANGED hubVars
  BY <1>7 DEF hubVars, subVars, HubTypeOK, Places, PartsInOrder, PartsWithoutGap, PartsHoldTerminal,
              NothingAfterTerminal
<1> QED
  BY <1>1, <1>2, <1>3, <1>4, <1>5, <1>6, <1>7 DEF HubNext, Consume, HubIdle

-----------------------------------------------------------------------------
(* Results *)

\* The places of the parts within a stream.
LEMMA StreamParts ==
  ASSUME HubTypeOK, NEW s \in Subscribers
  PROVE  LET r == received[s]
             b == backlog[s]
             q == queue[s]
         IN /\ Len(r) \in Nat /\ Len(b) \in Nat /\ Len(q) \in Nat
            /\ Len(Stream(s)) = Len(r) + Len(b) + Len(q)
            /\ \A i \in 1..Len(r) : Stream(s)[i] = r[i]
            /\ \A i \in 1..Len(b) : Stream(s)[Len(r) + i] = b[i]
            /\ \A i \in 1..Len(q) : Stream(s)[Len(r) + Len(b) + i] = q[i]
<1> DEFINE r == received[s]
           b == backlog[s]
           q == queue[s]
           c == r \o b
<1>1. r \in Seq(Events) /\ b \in Seq(Events) /\ q \in Seq(Events)
  BY DEF HubTypeOK
<1>2. Stream(s) = c \o q
  BY DEF Stream
<1>3. Len(r) \in Nat /\ Len(b) \in Nat /\ Len(q) \in Nat
  BY <1>1, LenProperties
<1> HIDE DEF r, b, q
<1>4. /\ c \in Seq(Events) /\ Len(c) = Len(r) + Len(b)
      /\ \A i \in 1..Len(r) + Len(b) : c[i] = IF i <= Len(r) THEN r[i] ELSE b[i - Len(r)]
  BY <1>1, ConcatProperties
<1> HIDE DEF c
<1>5. /\ Len(c \o q) = Len(c) + Len(q)
      /\ \A i \in 1..Len(c) + Len(q) : (c \o q)[i] = IF i <= Len(c) THEN c[i] ELSE q[i - Len(c)]
  <2>1. c \in Seq(Events) /\ q \in Seq(Events)
    BY <1>1, <1>4
  <2> QED BY ONLY <2>1, ConcatProperties
<1>6. ASSUME NEW i \in 1..Len(r) PROVE (c \o q)[i] = r[i]
  BY <1>3, <1>4, <1>5
<1>7. ASSUME NEW i \in 1..Len(b) PROVE (c \o q)[Len(r) + i] = b[i]
  <2>1. /\ Len(r) + i \in 1..Len(r) + Len(b) /\ ~(Len(r) + i <= Len(r)) /\ (Len(r) + i) - Len(r) = i
        /\ Len(r) + i \in 1..Len(c) + Len(q) /\ Len(r) + i <= Len(c)
    BY <1>3, <1>4
  <2> QED BY <1>4, <1>5, <2>1
<1>8. ASSUME NEW i \in 1..Len(q) PROVE (c \o q)[Len(r) + Len(b) + i] = q[i]
  <2>1. /\ Len(c) + i \in 1..Len(c) + Len(q) /\ ~(Len(c) + i <= Len(c)) /\ (Len(c) + i) - Len(c) = i
    BY <1>3, <1>4
  <2>2. (c \o q)[Len(c) + i] = q[i]
    BY <1>5, <2>1
  <2> QED BY <1>4, <2>2
<1> QED BY <1>2, <1>3, <1>4, <1>5, <1>6, <1>7, <1>8 DEF r, b, q

\* stream_hub.py: streams, queues and subscribers keep their types,
\* and no queue grows beyond its bound (HubTypeOK).
THEOREM HubTypeCorrect == HubSpec => []HubTypeOK
<1>1. HubInv => HubTypeOK
  BY DEF HubInv
<1> QED BY HubInvInit, HubInvNext, <1>1, PTL DEF HubSpec

\* However a reader comes and goes and however slow it is: what it has got and still holds
\* is in publication order over the seam of replay and live queue, lacks no event since its
\* subscription but those dropped for the bound of its queue, holds a terminal event where
\* one was dropped, and ends with its first terminal event.
THEOREM StreamFaithful == HubSpec => []StreamIsFaithful
<1>1. ASSUME HubInv PROVE StreamIsFaithful
  <2> USE <1>1 DEF HubInv
  <2>1. InOrder
    <3> SUFFICES ASSUME NEW s \in Subscribers, NEW i \in 1..Len(Stream(s)), NEW j \in 1..Len(Stream(s)), i < j
                 PROVE  Stream(s)[i].n < Stream(s)[j].n
      BY DEF InOrder
    <3> DEFINE r == received[s]
               b == backlog[s]
               q == queue[s]
    <3>1. /\ Sorted(r) /\ Sorted(b) /\ Sorted(q) /\ Below(r, b) /\ Below(r, q) /\ Below(b, q)
      BY DEF PartsInOrder
    <3>2. /\ Len(r) \in Nat /\ Len(b) \in Nat /\ Len(q) \in Nat
          /\ Len(Stream(s)) = Len(r) + Len(b) + Len(q)
          /\ \A k \in 1..Len(r) : Stream(s)[k] = r[k]
          /\ \A k \in 1..Len(b) : Stream(s)[Len(r) + k] = b[k]
          /\ \A k \in 1..Len(q) : Stream(s)[Len(r) + Len(b) + k] = q[k]
      BY StreamParts
    <3> HIDE DEF r, b, q
    <3>3. ASSUME NEW k \in 1..Len(Stream(s))
          PROVE  \/ k \in 1..Len(r)
                 \/ k - Len(r) \in 1..Len(b) /\ Len(r) + (k - Len(r)) = k
                 \/ k - Len(r) - Len(b) \in 1..Len(q) /\ Len(r) + Len(b) + (k - Len(r) - Len(b)) = k
      BY <3>2
    <3>4. CASE i \in 1..Len(r)
      <4>1. CASE j \in 1..Len(r)
        BY <3>1, <3>2, <3>4, <4>1 DEF Sorted
      <4>2. ASSUME NEW k \in 1..Len(b), j = Len(r) + k PROVE Stream(s)[i].n < Stream(s)[j].n
        BY <3>1, <3>2, <3>4, <4>2 DEF Below
      <4>3. ASSUME NEW k \in 1..Len(q), j = Len(r) + Len(b) + k PROVE Stream(s)[i].n < Stream(s)[j].n
        BY <3>1, <3>2, <3>4, <4>3 DEF Below
      <4> QED BY <3>3, <4>1, <4>2, <4>3
    <3>5. ASSUME NEW l \in 1..Len(b), i = Len(r) + l PROVE Stream(s)[i].n < Stream(s)[j].n
      <4>1. ~(j \in 1..Len(r))
        BY <3>2, <3>5
      <4>2. ASSUME NEW k \in 1..Len(b), j = Len(r) + k PROVE Stream(s)[i].n < Stream(s)[j].n
        <5>1. l < k
          BY <3>2, <3>5, <4>2
        <5> QED BY <3>1, <3>2, <3>5, <4>2, <5>1 DEF Sorted
      <4>3. ASSUME NEW k \in 1..Len(q), j = Len(r) + Len(b) + k PROVE Stream(s)[i].n < Stream(s)[j].n
        BY <3>1, <3>2, <3>5, <4>3 DEF Below
      <4> QED BY <3>3, <4>1, <4>2, <4>3
    <3>6. ASSUME NEW l \in 1..Len(q), i = Len(r) + Len(b) + l PROVE Stream(s)[i].n < Stream(s)[j].n
      <4>1. j > Len(r) + Len(b)
        BY <3>2, <3>6
      <4> DEFINE k == j - Len(r) - Len(b)
      <4>2. k \in 1..Len(q) /\ j = Len(r) + Len(b) + k
        BY <3>2, <4>1
      <4> HIDE DEF k
      <4>3. l < k
        BY <3>2, <3>6, <4>2
      <4> QED BY <3>1, <3>2, <3>6, <4>2, <4>3 DEF Sorted
    <3> QED BY <3>3, <3>4, <3>5, <3>6
  <2>2. ASSUME NEW s \in Subscribers
        PROVE  /\ \A k \in 1..Len(received[s]) : \E i \in 1..Len(Stream(s)) : Stream(s)[i] = received[s][k]
               /\ \A k \in 1..Len(backlog[s]) : \E i \in 1..Len(Stream(s)) : Stream(s)[i] = backlog[s][k]
               /\ \A k \in 1..Len(queue[s]) : \E i \in 1..Len(Stream(s)) : Stream(s)[i] = queue[s][k]
    <3> DEFINE r == received[s]
               b == backlog[s]
               q == queue[s]
    <3>1. /\ Len(r) \in Nat /\ Len(b) \in Nat /\ Len(q) \in Nat
          /\ Len(Stream(s)) = Len(r) + Len(b) + Len(q)
          /\ \A k \in 1..Len(r) : Stream(s)[k] = r[k]
          /\ \A k \in 1..Len(b) : Stream(s)[Len(r) + k] = b[k]
          /\ \A k \in 1..Len(q) : Stream(s)[Len(r) + Len(b) + k] = q[k]
      BY StreamParts
    <3> HIDE DEF r, b, q
    <3>2. ASSUME NEW k \in 1..Len(r) PROVE \E i \in 1..Len(Stream(s)) : Stream(s)[i] = r[k]
      BY <3>1
    <3>3. ASSUME NEW k \in 1..Len(b) PROVE \E i \in 1..Len(Stream(s)) : Stream(s)[i] = b[k]
      <4>1. Len(r) + k \in 1..Len(Stream(s))
        BY <3>1
      <4> QED BY <3>1, <4>1
    <3>4. ASSUME NEW k \in 1..Len(q) PROVE \E i \in 1..Len(Stream(s)) : Stream(s)[i] = q[k]
      <4>1. Len(r) + Len(b) + k \in 1..Len(Stream(s))
        BY <3>1
      <4> QED BY <3>1, <4>1
    <3> QED BY <3>2, <3>3, <3>4 DEF r, b, q
  <2>3. NoGap
    <3> SUFFICES ASSUME NEW s \in Subscribers \ cut, phase[s] \in {"replay", "live"},
                        NEW n \in (start[s] + 1)..published
                 PROVE  \/ \E i \in 1..Len(Stream(s)) : Stream(s)[i].n = n
                        \/ \E e \in lost[s] : e.n = n
      BY DEF NoGap
    <3>1. \/ Shows(received[s], n) \/ Shows(backlog[s], n) \/ Shows(queue[s], n)
          \/ \E e \in lost[s] : e.n = n
      BY DEF PartsWithoutGap
    <3>2. CASE Shows(received[s], n)
      <4>1. PICK k \in 1..Len(received[s]) : received[s][k].n = n
        BY <3>2 DEF Shows
      <4>2. PICK i \in 1..Len(Stream(s)) : Stream(s)[i] = received[s][k]
        BY <2>2
      <4> QED BY <4>1, <4>2
    <3>3. CASE Shows(backlog[s], n)
      <4>1. PICK k \in 1..Len(backlog[s]) : backlog[s][k].n = n
        BY <3>3 DEF Shows
      <4>2. PICK i \in 1..Len(Stream(s)) : Stream(s)[i] = backlog[s][k]
        BY <2>2
      <4> QED BY <4>1, <4>2
    <3>4. CASE Shows(queue[s], n)
      <4>1. PICK k \in 1..Len(queue[s]) : queue[s][k].n = n
        BY <3>4 DEF Shows
      <4>2. PICK i \in 1..Len(Stream(s)) : Stream(s)[i] = queue[s][k]
        BY <2>2
      <4> QED BY <4>1, <4>2
    <3> QED BY <3>1, <3>2, <3>3, <3>4
  <2>4. TerminalKept
    <3> SUFFICES ASSUME NEW s \in Subscribers, NEW e \in lost[s], IsTerminal(e)
                 PROVE  \E i \in 1..Len(Stream(s)) : IsTerminal(Stream(s)[i])
      BY DEF TerminalKept
    <3>1. Terminal(received[s]) \/ Terminal(backlog[s]) \/ Terminal(queue[s])
      BY DEF PartsHoldTerminal
    <3>2. CASE Terminal(received[s])
      <4>1. PICK k \in 1..Len(received[s]) : IsTerminal(received[s][k])
        BY <3>2 DEF Terminal
      <4>2. PICK i \in 1..Len(Stream(s)) : Stream(s)[i] = received[s][k]
        BY <2>2
      <4> QED BY <4>1, <4>2
    <3>3. CASE Terminal(backlog[s])
      <4>1. PICK k \in 1..Len(backlog[s]) : IsTerminal(backlog[s][k])
        BY <3>3 DEF Terminal
      <4>2. PICK i \in 1..Len(Stream(s)) : Stream(s)[i] = backlog[s][k]
        BY <2>2
      <4> QED BY <4>1, <4>2
    <3>4. CASE Terminal(queue[s])
      <4>1. PICK k \in 1..Len(queue[s]) : IsTerminal(queue[s][k])
        BY <3>4 DEF Terminal
      <4>2. PICK i \in 1..Len(Stream(s)) : Stream(s)[i] = queue[s][k]
        BY <2>2
      <4> QED BY <4>1, <4>2
    <3> QED BY <3>1, <3>2, <3>3, <3>4
  <2> QED BY <2>1, <2>3, <2>4 DEF StreamIsFaithful
<1> QED BY HubInvInit, HubInvNext, <1>1, PTL DEF HubSpec
=============================================================================
