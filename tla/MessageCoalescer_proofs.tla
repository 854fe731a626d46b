----------------------- MODULE MessageCoalescer_proofs -----------------------
(***************************************************************************)
(* The idle timers of MessageCoalescer, for any number of messages, any     *)
(* limit of the limiter and any number of its failures: a bucket always has *)
(* a running timer, and only the timer of its newest message flushes it; no *)
(* message is lost or handed on twice, and no slot of the limiter leaks but *)
(* for the limiter's own exceptions and what a /cancel cuts off.            *)
(***************************************************************************)
EXTENDS MessageCoalescer, FiniteSetTheorems, TLAPS

\* The types the argument uses.
TimerTypes ==
  /\ handler \in [Messages -> HandlerStates]
  /\ bucket \in [msgs : Seq(Messages), timer : Messages \cup {0}]
  /\ lock \in Messages \cup {0}
  /\ timer \in [Messages -> TimerStates]

\* Only the handler whose message came last keeps the lock, and only while the
\* bucket's timer is not yet its own.
LockInv ==
  /\ \A m \in Messages : handler[m] = "typing" => lock = m
  /\ lock # 0 => bucket.msgs # <<>> /\ Last(bucket.msgs) = lock

\* No timer runs but the bucket's; with the lock free, it runs and belongs to the
\* newest message.
TimerInv ==
  /\ \A t \in Messages : Alive(t) => bucket.timer = t
  /\ lock = 0 /\ bucket # NoBucket =>
       /\ Alive(bucket.timer)
       /\ bucket.msgs # <<>> /\ Last(bucket.msgs) = bucket.timer

Inv == TimerTypes /\ LockInv /\ TimerInv

-----------------------------------------------------------------------------

\* The newest message of a sequence is the one appended last.
LEMMA LastOfAppend ==
  ASSUME NEW s \in Seq(Messages), NEW m \in Messages
  PROVE  /\ Append(s, m) \in Seq(Messages)
         /\ Append(s, m) # <<>>
         /\ Last(Append(s, m)) = m
  BY DEF Last

\* Message numbers are not the 0 of "no message".
LEMMA MessagesNotZero == 0 \notin Messages
  BY CoalescerAssumption DEF Messages

\* Claiming the bucket leaves no timer running and no bucket.
LEMMA ClaimKeepsInv ==
  ASSUME Inv, lock = 0, lock' = lock, bucket' = NoBucket,
         handler' \in [Messages -> HandlerStates],
         \A m \in Messages : handler'[m] = "typing" => handler[m] = "typing",
         timer' \in [Messages -> TimerStates],
         \A t \in Messages : timer'[t] \in {"sleep", "awake"} =>
            timer[t] \in {"sleep", "awake"} /\ t # bucket.timer
  PROVE  Inv'
<1>1. TimerTypes'
  BY DEF Inv, TimerTypes, NoBucket
<1>2. LockInv'
  BY MessagesNotZero DEF Inv, LockInv
<1>3. TimerInv'
  <2>1. \A t \in Messages : timer'[t] \notin {"sleep", "awake"}
    BY MessagesNotZero DEF Inv, TimerInv, Alive
  <2> QED BY <2>1, MessagesNotZero DEF TimerInv, Alive, NoBucket
<1> QED BY <1>1, <1>2, <1>3 DEF Inv

\* A step that leaves bucket, lock and running timers alone.
LEMMA OthersKeepInv ==
  ASSUME Inv, UNCHANGED <<bucket, lock>>,
         handler' \in [Messages -> HandlerStates],
         \A m \in Messages : handler'[m] = "typing" => handler[m] = "typing",
         timer' \in [Messages -> TimerStates],
         \A t \in Messages : timer'[t] \in {"sleep", "awake"} <=> timer[t] \in {"sleep", "awake"}
  PROVE  Inv'
<1>1. TimerTypes'
  BY DEF Inv, TimerTypes
<1>2. LockInv'
  BY DEF Inv, LockInv
<1>3. \A t \in Messages \cup {0} : Alive(t)' <=> Alive(t)
  BY MessagesNotZero DEF Alive
<1>4. TimerInv'
  BY <1>3 DEF Inv, TimerInv, TimerTypes, Alive, NoBucket
<1> QED BY <1>1, <1>2, <1>4 DEF Inv

-----------------------------------------------------------------------------
(* Every action keeps the invariant. *)

\* Cancelling the bucket's timer leaves no other running.
LEMMA CancelLeavesNoTimer ==
  ASSUME Inv
  PROVE  /\ TimersCancelled \in [Messages -> TimerStates]
         /\ \A u \in Messages : TimersCancelled[u] \in {"sleep", "awake"}
              => timer[u] \in {"sleep", "awake"} /\ u # bucket.timer
BY DEF Inv, TimerTypes, TimersCancelled, TimerStates, Alive

\* A message is appended with the lock held, its handler about to reset the timer.
LEMMA BufferKeepsInv ==
  ASSUME Inv, NEW m \in Messages, Buffer(m)
  PROVE  Inv'
<1> USE DEF Inv, Buffer, Goto
<1>1. /\ Append(bucket.msgs, m) \in Seq(Messages)
      /\ Append(bucket.msgs, m) # <<>>
      /\ Last(Append(bucket.msgs, m)) = m
  BY LastOfAppend DEF TimerTypes
<1>2. bucket'.msgs = Append(bucket.msgs, m) /\ bucket'.timer = bucket.timer
  BY DEF TimerTypes
<1>3. TimerTypes'
  BY <1>1 DEF TimerTypes, HandlerStates
<1>4. LockInv'
  BY <1>1, <1>2, MessagesNotZero DEF LockInv, TimerTypes
<1>5. TimerInv'
  BY <1>2, MessagesNotZero DEF TimerInv, Alive
<1> QED BY <1>3, <1>4, <1>5

\* The handler replaces the timer by its message's own and gives the lock back.
LEMMA BufferedKeepsInv ==
  ASSUME Inv, NEW m \in Messages, Buffered(m)
  PROVE  Inv'
<1> USE DEF Inv, Buffered, ResetTimer, Goto
<1>1. lock = m /\ bucket.msgs # <<>> /\ Last(bucket.msgs) = m
  BY MessagesNotZero DEF LockInv
<1>2. bucket'.msgs = bucket.msgs /\ bucket'.timer = m
  BY DEF TimerTypes
<1>3. timer'[m] = "sleep" /\ \A t \in Messages \ {m} : timer'[t] \notin {"sleep", "awake"}
  BY CancelLeavesNoTimer, MessagesNotZero DEF TimerInv, Alive
<1>4. TimerTypes'
  <2>1. timer' \in [Messages -> TimerStates]
    BY CancelLeavesNoTimer DEF TimerStates
  <2> QED BY <2>1 DEF TimerTypes, HandlerStates
<1>5. LockInv'
  BY <1>1, MessagesNotZero DEF LockInv, TimerTypes
<1>6. TimerInv'
  BY <1>1, <1>2, <1>3, MessagesNotZero DEF TimerInv, Alive
<1> QED BY <1>4, <1>5, <1>6

\* The timer that finds its bucket claims it whole.
LEMMA TimerFlushKeepsInv ==
  ASSUME Inv, NEW t \in Messages, TimerFlush(t)
  PROVE  Inv'
<1>1. CASE Claim(t, [TimersCancelled EXCEPT ![t] = "dispatch"])
  <2>1. timer' \in [Messages -> TimerStates]
    BY <1>1, CancelLeavesNoTimer DEF Claim, TimerStates
  <2>2. \A u \in Messages : timer'[u] \in {"sleep", "awake"}
          => timer[u] \in {"sleep", "awake"} /\ u # bucket.timer
    BY <1>1, CancelLeavesNoTimer DEF Claim
  <2> QED BY <1>1, <2>1, <2>2, ClaimKeepsInv DEF TimerFlush, Claim, Inv, TimerTypes
<1>2. CASE ~Claimable
  BY <1>2, MessagesNotZero DEF TimerFlush, Claimable, Claim, Inv, TimerInv, Alive, NoBucket
<1> QED BY <1>1, <1>2 DEF TimerFlush

\* A command claims the bucket whole and cancels the timer.
LEMMA FlushNowKeepsInv ==
  ASSUME Inv, NEW m \in Messages, FlushNow(m)
  PROVE  Inv'
<1>1. handler' \in [Messages -> HandlerStates]
      /\ \A k \in Messages : handler'[k] = "typing" => handler[k] = "typing"
  BY DEF FlushNow, Goto, Inv, TimerTypes, HandlerStates
<1>2. CASE Claim(m, TimersCancelled)
  BY <1>1, <1>2, CancelLeavesNoTimer, ClaimKeepsInv DEF FlushNow, Claim
<1>3. CASE ~Claimable
  BY <1>1, <1>3, OthersKeepInv DEF FlushNow, Claim, Inv, TimerTypes
<1> QED BY <1>2, <1>3 DEF FlushNow

\* Shutdown claims the bucket whole.
LEMMA DrainBucketKeepsInv ==
  ASSUME Inv, DrainBucket
  PROVE  Inv'
<1>1. CASE Claim(Drain, TimersCancelled)
  BY <1>1, CancelLeavesNoTimer, ClaimKeepsInv DEF DrainBucket, Claim, Inv, TimerTypes
<1>2. CASE ~Claimable
  BY <1>2, OthersKeepInv DEF DrainBucket, Claim, Inv, TimerTypes
<1> QED BY <1>1, <1>2 DEF DrainBucket

\* The end of a dispatch changes no running timer and no handler that types.
LEMMA ReturnKeepsInv ==
  ASSUME Inv, NEW w \in Workers, Return(w), UNCHANGED <<bucket, lock>>
  PROVE  Inv'
<1>1. timer' \in [Messages -> TimerStates]
  BY DEF Return, Inv, TimerTypes, TimerStates
<1>2. handler' \in [Messages -> HandlerStates]
  BY DEF Return, Inv, TimerTypes, HandlerStates
<1>3. \A t \in Messages : timer'[t] \in {"sleep", "awake"} <=> timer[t] \in {"sleep", "awake"}
  BY DEF Return, Inv, TimerTypes
<1>4. \A m \in Messages : handler'[m] = "typing" => handler[m] = "typing"
  BY DEF Return, Inv, TimerTypes
<1> QED BY <1>1, <1>2, <1>3, <1>4, OthersKeepInv

\* A dispatch goes on behind the bucket that was claimed.
LEMMA DispatchKeepsInv ==
  ASSUME Inv, NEW w \in Workers, Dispatch(w)
  PROVE  Inv'
<1> USE DEF Inv, TimerTypes
<1>1. CASE StopTyping(w) \/ Gate(w) \/ AcquireSlot(w)
  BY <1>1, OthersKeepInv DEF StopTyping, Gate, AcquireSlot
<1>2. CASE Routed(w)
  BY <1>2, OthersKeepInv, ReturnKeepsInv DEF Routed, HandOn
<1>3. CASE AcquireRaises(w)
  BY <1>3, ReturnKeepsInv DEF AcquireRaises
<1>4. CASE ReleaseRaises(w)
  BY <1>4, ReturnKeepsInv DEF ReleaseRaises, HandOn
<1> QED BY <1>1, <1>2, <1>3, <1>4 DEF Dispatch

\* A handler goes on outside the lock.
LEMMA HandlerStepKeepsInv ==
  ASSUME Inv, NEW m \in Messages, Arrive(m) \/ Probe(m) \/ TakeSlot(m) \/ Finish(m)
  PROVE  Inv'
<1>1. handler' \in [Messages -> HandlerStates]
      /\ \A k \in Messages : handler'[k] = "typing" => handler[k] = "typing"
  BY DEF Arrive, Probe, TakeSlot, Finish, Goto, Inv, TimerTypes, HandlerStates
<1> QED BY <1>1, OthersKeepInv DEF Arrive, Probe, TakeSlot, Finish, Inv, TimerTypes

\* A cancelled command touches neither lock nor bucket nor timer.
LEMMA CancelKeepsInv ==
  ASSUME Inv, NEW c \in Messages, NEW m \in Messages, CancelTracked(c, m)
  PROVE  Inv'
<1>1. handler' \in [Messages -> HandlerStates]
      /\ \A k \in Messages : handler'[k] = "typing" => handler[k] = "typing"
  BY DEF CancelTracked, Goto, Inv, TimerTypes, HandlerStates
<1> QED BY <1>1, OthersKeepInv DEF CancelTracked, Inv, TimerTypes

\* The end of the window wakes the timer, which still owns the bucket.
LEMMA WakeKeepsInv ==
  ASSUME Inv, NEW t \in Messages, Wake(t)
  PROVE  Inv'
BY OthersKeepInv DEF Wake, Inv, TimerTypes, TimerStates

\* There is neither bucket nor timer at first.
LEMMA InitInv == Init => Inv
BY MessagesNotZero DEF Init, Inv, TimerTypes, LockInv, TimerInv, Alive, NoBucket,
   HandlerStates, TimerStates

\* Every step of handlers, timers, commands and shutdown keeps the invariant.
LEMMA NextKeepsInv == Inv /\ [Next]_vars => Inv'
<1> SUFFICES ASSUME Inv, [Next]_vars PROVE Inv'
  OBVIOUS
<1>1. CASE \E m \in Messages : Arrive(m) \/ Handle(m) \/ Time(m)
  BY <1>1, BufferKeepsInv, BufferedKeepsInv, FlushNowKeepsInv, HandlerStepKeepsInv,
     WakeKeepsInv, TimerFlushKeepsInv DEF Handle, Time
<1>2. CASE \E w \in Workers : Dispatch(w)
  BY <1>2, DispatchKeepsInv
<1>3. CASE Shutdown \/ ListBuckets
  BY <1>3, OthersKeepInv DEF Shutdown, ListBuckets, Inv, TimerTypes
<1>4. CASE DrainBucket
  BY <1>4, DrainBucketKeepsInv
<1>5. CASE Idle \/ UNCHANGED vars
  BY <1>5, OthersKeepInv DEF Idle, vars, Inv, TimerTypes
<1>6. CASE \E c, m \in Messages : CancelTracked(c, m)
  BY <1>6, CancelKeepsInv
<1> QED BY <1>1, <1>2, <1>3, <1>4, <1>5, <1>6 DEF Next

-----------------------------------------------------------------------------

\* coalescer.py, _reset_timer and _claim_bucket: whenever the lock is free, a
\* buffered message has a running timer that will hand it on.
THEOREM BucketsAreTimed == Spec => []BucketHasTimer
<1>1. Inv => BucketHasTimer
  BY DEF Inv, TimerInv, BucketHasTimer
<1> QED BY <1>1, InitInv, NextKeepsInv, PTL DEF Spec

\* coalescer.py, _sleep_and_flush: the timer that flushes a bucket is the one
\* that its newest message started, so its window has passed in silence.
THEOREM WindowsArePassed == Spec => NoEarlyFlush
<1> DEFINE Early(t) == timer[t] = "awake" /\ timer'[t] = "dispatch"
<1>1. Inv /\ [Next]_vars =>
        \A t \in Messages : Early(t) => Last(bucket.msgs) = t
  <2> SUFFICES ASSUME Inv, [Next]_vars, NEW t \in Messages, Early(t)
               PROVE  Last(bucket.msgs) = t
    OBVIOUS
  <2>1. TimerFlush(t)
    <3>1. \A m \in Messages : Handle(m) \/ Arrive(m) => timer'[t] # "dispatch"
      BY DEF Handle, Arrive, Probe, Buffer, Buffered, ResetTimer, TakeSlot, FlushNow, Claim,
             TimersCancelled, Finish, Inv, TimerTypes
    <3>2. \A m \in Messages : Time(m) /\ m # t => timer'[t] # "dispatch"
      BY DEF Time, Wake, TimerFlush, Claim, TimersCancelled, Inv, TimerTypes
    <3>3. \A w \in Workers : ~Dispatch(w)
      BY DEF Dispatch, StopTyping, Gate, AcquireSlot, Routed, AcquireRaises, ReleaseRaises, Return
    <3>4. ~(Shutdown \/ ListBuckets \/ DrainBucket \/ Idle \/ UNCHANGED vars)
      BY DEF Shutdown, ListBuckets, DrainBucket, Claim, TimersCancelled, Idle, vars, Inv, TimerTypes
    <3>5. ~Wake(t)
      BY DEF Wake, Inv, TimerTypes
    <3>6. \A c, m \in Messages : ~CancelTracked(c, m)
      BY DEF CancelTracked
    <3> QED BY <3>1, <3>2, <3>3, <3>4, <3>5, <3>6 DEF Next, Time
  <2>2. Alive(t)
    BY MessagesNotZero DEF Alive
  <2>3. lock = 0 /\ bucket # NoBucket
    BY <2>1, <2>2, MessagesNotZero DEF TimerFlush, Claim, Claimable, Inv, TimerTypes
  <2> QED BY <2>2, <2>3 DEF Inv, TimerInv
<1>2. Inv /\ [Next]_vars => [\A t \in Messages : Early(t) => Last(bucket.msgs) = t]_vars
  BY <1>1
<1> QED BY <1>2, InitInv, NextKeepsInv, PTL DEF Spec, NoEarlyFlush


-----------------------------------------------------------------------------
(* Messages and slots on their way: the dispatches belong to tasks that wait  *)
(* for them, and each message and each slot is in one place.                  *)

JobTypes ==
  /\ arrived \subseteq Messages /\ shuttingDown \in BOOLEAN
  /\ job \in [Workers -> [stage : Stages, msgs : Seq(Messages), slot : BOOLEAN]]
  /\ slots \in 0..(MaxConcurrent + failures) /\ failures \in 0..MaxFailures
  /\ drain \in {"off", "list", "claim", "dispatch", "done"}
  /\ handed \in [Messages -> Nat] /\ dropped \subseteq Messages

\* The task that runs w's dispatch.
AtWork(w) ==
  IF w = Drain THEN drain = "dispatch" ELSE timer[w] = "dispatch" \/ handler[w] = "flushing"

\* A dispatch has messages and a task; it takes its slot when it routes.
JobsOwned ==
  /\ \A m \in Messages : timer[m] # "none" => handler[m] = "buffered"
  /\ \A w \in Workers :
       /\ job[w].stage = "none" => job[w] = NoJob
       /\ job[w].stage # "none" => job[w].msgs # <<>> /\ AtWork(w)
       /\ job[w].slot => job[w].stage \in {"route one", "route bundle"}

Once(s) == \A i, k \in 1..Len(s) : s[i] = s[k] => i = k

InBucket(m) == m \in ToSet(bucket.msgs)
Nowhere(m) == ~InBucket(m) /\ \A w \in Workers : ~InJob(w, m)

\* In the bucket, in one dispatch, handed on, or dropped.
OnePlace(m) ==
  \/ InBucket(m) /\ (\A w \in Workers : ~InJob(w, m)) /\ m \notin dropped /\ handed[m] = 0
  \/ /\ \E w \in Workers : InJob(w, m) /\ \A u \in Workers \ {w} : ~InJob(u, m)
     /\ ~InBucket(m) /\ m \notin dropped /\ handed[m] = 0
  \/ Nowhere(m) /\ m \in dropped /\ handed[m] = 0
  \/ Nowhere(m) /\ m \notin dropped /\ handed[m] = 1

Taken(m) == handler[m] \in {"typing", "buffered"}
Early == {"none", "probe", "lock"}

PlaceInv ==
  /\ Once(bucket.msgs) /\ \A w \in Workers : Once(job[w].msgs)
  /\ \A m \in Messages : /\ Taken(m) => OnePlace(m)
                         /\ ~Taken(m) => Nowhere(m) /\ m \notin dropped
                         /\ handler[m] \in Early => handed[m] = 0

InlineSlots == {m \in Messages : handler[m] \in {"route", "flushing", "run", "ending"}}
JobSlots == {w \in Workers : job[w].slot}

SlotInv ==
  /\ Cardinality(InlineSlots) + Cardinality(JobSlots) <= slots
  /\ slots <= Cardinality(InlineSlots) + Cardinality(JobSlots) + failures

WayInv == JobTypes /\ JobsOwned /\ PlaceInv /\ SlotInv

\* Messages and tasks are finitely many, and the task of shutdown is not that of a message.
LEMMA Finitely ==
  /\ IsFiniteSet(Messages) /\ IsFiniteSet(Workers) /\ Drain \notin Messages
  /\ \A S \in SUBSET Messages : IsFiniteSet(S) /\ Cardinality(S) \in Nat
  /\ \A S \in SUBSET Workers : IsFiniteSet(S) /\ Cardinality(S) \in Nat
<1>1. IsFiniteSet(Messages)
  BY CoalescerAssumption, FS_Interval DEF Messages
<1>2. IsFiniteSet(Workers)
  BY <1>1, FS_AddElement DEF Workers
<1>. QED BY <1>1, <1>2, FS_Subset, FS_CardinalityType, CoalescerAssumption

\* A message appended to others comes once when it was not among them.
LEMMA OnceAppend ==
  ASSUME NEW s \in Seq(Messages), NEW m \in Messages
  PROVE  /\ ToSet(Append(s, m)) = ToSet(s) \cup {m}
         /\ Once(s) /\ m \notin ToSet(s) => Once(Append(s, m))
<1>1. /\ Len(Append(s, m)) = Len(s) + 1 /\ Len(s) \in Nat
      /\ \A i \in 1..Len(s) : Append(s, m)[i] = s[i]
      /\ Append(s, m)[Len(s) + 1] = m /\ Append(s, m) \in Seq(Messages)
  OBVIOUS
<1>2. ToSet(s) = {s[i] : i \in 1..Len(s)}
      /\ ToSet(Append(s, m)) = {Append(s, m)[i] : i \in 1..(Len(s) + 1)}
  BY <1>1 DEF ToSet
<1>3. 1..(Len(s) + 1) = (1..Len(s)) \cup {Len(s) + 1}
  BY <1>1
<1>4. ToSet(Append(s, m)) = ToSet(s) \cup {m}
  BY <1>1, <1>2, <1>3
<1>5. ASSUME Once(s), m \notin ToSet(s) PROVE Once(Append(s, m))
  BY <1>1, <1>2, <1>5 DEF Once
<1>. QED BY <1>4, <1>5

\* The first message of others that come once is not among the rest.
LEMMA OnceTail ==
  ASSUME NEW s \in Seq(Messages), s # <<>>
  PROVE  /\ ToSet(s) = {Head(s)} \cup ToSet(Tail(s)) /\ Head(s) \in Messages /\ Tail(s) \in Seq(Messages)
         /\ Once(s) => Once(Tail(s)) /\ Head(s) \notin ToSet(Tail(s))
<1>1. /\ Len(s) \in Nat \ {0} /\ Len(Tail(s)) = Len(s) - 1 /\ Head(s) = s[1]
      /\ \A i \in 1..(Len(s) - 1) : Tail(s)[i] = s[i + 1]
      /\ Tail(s) \in Seq(Messages) /\ s[1] \in Messages
  OBVIOUS
<1>2. ToSet(s) = {s[i] : i \in 1..Len(s)} /\ ToSet(Tail(s)) = {Tail(s)[i] : i \in 1..(Len(s) - 1)}
  <2>1. \A z \in Seq(Messages) : ToSet(z) = {z[i] : i \in 1..Len(z)}
    BY DEF ToSet
  <2>2. ToSet(Tail(s)) = {Tail(s)[i] : i \in 1..Len(Tail(s))}
    BY <1>1, <2>1
  <2>. QED BY <1>1, <2>1, <2>2
<1>3. \A x : x \in ToSet(s) <=> x = s[1] \/ x \in ToSet(Tail(s))
  <2>1. ASSUME NEW x, x \in ToSet(s) PROVE x = s[1] \/ x \in ToSet(Tail(s))
    <3>1. PICK i \in 1..Len(s) : x = s[i]
      BY <1>2, <2>1
    <3>2. CASE i # 1
      <4>1. i - 1 \in 1..(Len(s) - 1) /\ s[i] = Tail(s)[i - 1]
        BY <1>1, <3>2
      <4>. QED BY <1>2, <3>1, <4>1
    <3>. QED BY <3>1, <3>2
  <2>2. ASSUME NEW x, x = s[1] \/ x \in ToSet(Tail(s)) PROVE x \in ToSet(s)
    <3>1. CASE x = s[1]
      BY <1>1, <1>2, <3>1
    <3>2. CASE x \in ToSet(Tail(s))
      <4>1. PICK i \in 1..(Len(s) - 1) : x = Tail(s)[i]
        BY <1>2, <3>2
      <4>2. i + 1 \in 1..Len(s) /\ x = s[i + 1]
        BY <1>1, <4>1
      <4>. QED BY <1>2, <4>2
    <3>. QED BY <2>2, <3>1, <3>2
  <2>. QED BY <2>1, <2>2
<1>4. ASSUME Once(s) PROVE Once(Tail(s)) /\ Head(s) \notin ToSet(Tail(s))
  <2>1. Once(Tail(s))
    BY <1>1, <1>4 DEF Once
  <2>2. Head(s) \notin ToSet(Tail(s))
    <3>1. ASSUME NEW i \in 1..(Len(s) - 1), s[1] = Tail(s)[i] PROVE FALSE
      <4>1. i + 1 \in 1..Len(s) /\ 1 \in 1..Len(s) /\ s[1] = s[i + 1] /\ i + 1 # 1
        BY <1>1, <3>1
      <4>. QED BY <1>4, <4>1 DEF Once
    <3>. QED BY <1>1, <1>2, <3>1
  <2>. QED BY <2>1, <2>2
<1>. QED BY <1>1, <1>3, <1>4

\* No messages, and one.
LEMMA OnceFew ==
  /\ ToSet(<<>>) = {} /\ Once(<<>>)
  /\ \A m : ToSet(<<m>>) = {m}
  BY DEF ToSet, Once

\* A step that moves no message that was taken.
LEMMA PlaceRests ==
  ASSUME PlaceInv, UNCHANGED <<dropped, handed>>, bucket'.msgs = bucket.msgs,
         \A w \in Workers : job'[w].msgs = job[w].msgs,
         \A m \in Messages : Taken(m)' <=> Taken(m),
         \A m \in Messages : handler'[m] \in Early => handler[m] \in Early
  PROVE  PlaceInv'
<1>1. \A m \in Messages : InBucket(m)' <=> InBucket(m)
  BY DEF InBucket
<1>2. \A m \in Messages, w \in Workers : InJob(w, m)' <=> InJob(w, m)
  BY DEF InJob
<1>3. \A m \in Messages : (Nowhere(m)' <=> Nowhere(m)) /\ (OnePlace(m)' <=> OnePlace(m))
  BY <1>1, <1>2 DEF Nowhere, OnePlace
<1>. QED BY <1>3 DEF PlaceInv

\* A dispatch hands messages on, drops some, keeps the rest.
LEMMA PlaceMoves ==
  ASSUME PlaceInv, handed \in [Messages -> Nat], NEW w \in Workers,
         NEW K, NEW R, NEW L, ToSet(job[w].msgs) = K \cup R \cup L,
         K \cap R = {}, K \cap L = {}, R \cap L = {},
         ToSet(job'[w].msgs) = R, Once(job'[w].msgs),
         \A u \in Workers \ {w} : job'[u].msgs = job[u].msgs,
         bucket'.msgs = bucket.msgs, dropped' = dropped \cup L,
         handed' = [m \in Messages |-> IF m \in K THEN handed[m] + 1 ELSE handed[m]],
         \A m \in Messages : Taken(m)' <=> Taken(m),
         \A m \in Messages : handler'[m] \in Early => handler[m] \in Early /\ ~Taken(m)
  PROVE  PlaceInv'
<1>1. \A m \in Messages : InBucket(m)' <=> InBucket(m)
  BY DEF InBucket
<1>2. \A m \in Messages, u \in Workers \ {w} : InJob(u, m)' <=> InJob(u, m)
  BY DEF InJob
<1>3. \A m \in Messages : (InJob(w, m) <=> m \in K \cup R \cup L) /\ (InJob(w, m)' <=> m \in R)
  BY DEF InJob
<1>4. Once(bucket'.msgs) /\ \A u \in Workers : Once(job'[u].msgs)
  BY DEF PlaceInv
<1>5. ASSUME NEW m \in Messages
      PROVE  /\ Taken(m)' => OnePlace(m)'
             /\ ~Taken(m)' => Nowhere(m)' /\ m \notin dropped'
             /\ handler'[m] \in Early => handed'[m] = 0
  <2>1. handed'[m] = IF m \in K THEN handed[m] + 1 ELSE handed[m]
    OBVIOUS
  <2>2. CASE ~Taken(m)
    <3>1. Nowhere(m) /\ m \notin dropped /\ ~InJob(w, m)
      BY <2>2 DEF PlaceInv, Nowhere
    <3>2. m \notin K /\ m \notin R /\ m \notin L
      BY <1>3, <3>1
    <3>3. Nowhere(m)' /\ m \notin dropped'
      BY <1>1, <1>2, <1>3, <3>1, <3>2 DEF Nowhere
    <3>4. handler'[m] \in Early => handed'[m] = 0
      BY <2>1, <3>2 DEF PlaceInv
    <3>. QED BY <2>2, <3>3, <3>4
  <2>3. CASE Taken(m)
    <3>1. OnePlace(m)
      BY <2>3 DEF PlaceInv
    <3>2. OnePlace(m)'
      <4>1. CASE InJob(w, m)
        <5>1. ~InBucket(m) /\ m \notin dropped /\ handed[m] = 0 /\ \A u \in Workers \ {w} : ~InJob(u, m)
          BY <3>1, <4>1 DEF OnePlace, Nowhere
        <5>2. ~InBucket(m)' /\ \A u \in Workers \ {w} : ~InJob(u, m)'
          BY <1>1, <1>2, <5>1
        <5>3. CASE m \in K
          BY <1>3, <2>1, <5>1, <5>2, <5>3 DEF OnePlace, Nowhere
        <5>4. CASE m \in R
          <6>1. m \notin K /\ m \notin L /\ InJob(w, m)'
            BY <1>3, <5>4
          <6>. QED BY <2>1, <5>1, <5>2, <6>1 DEF OnePlace
        <5>5. CASE m \in L
          BY <1>3, <2>1, <5>1, <5>2, <5>5 DEF OnePlace, Nowhere
        <5>. QED BY <1>3, <4>1, <5>3, <5>4, <5>5
      <4>2. CASE ~InJob(w, m)
        <5>1. m \notin K /\ m \notin R /\ m \notin L
          BY <1>3, <4>2
        <5>2. handed'[m] = handed[m] /\ (m \in dropped' <=> m \in dropped)
          BY <2>1, <5>1
        <5>3. \A u \in Workers : InJob(u, m)' <=> InJob(u, m)
          BY <1>2, <1>3, <4>2, <5>1
        <5>. QED BY <1>1, <3>1, <5>2, <5>3 DEF OnePlace, Nowhere
      <4>. QED BY <4>1, <4>2
    <3>. QED BY <2>3, <3>2
  <2>. QED BY <2>2, <2>3
<1>. QED BY <1>4, <1>5 DEF PlaceInv

\* A claim takes all of the bucket's messages to a dispatch that has none.
LEMMA PlaceClaims ==
  ASSUME PlaceInv, NEW w \in Workers, job[w].msgs = <<>>, job'[w].msgs = bucket.msgs,
         bucket'.msgs = <<>>, \A u \in Workers \ {w} : job'[u].msgs = job[u].msgs,
         UNCHANGED <<dropped, handed>>,
         \A m \in Messages : Taken(m)' <=> Taken(m),
         \A m \in Messages : handler'[m] \in Early => handler[m] \in Early
  PROVE  PlaceInv'
<1>1. \A m \in Messages : ~InBucket(m)' /\ ~InJob(w, m) /\ (InJob(w, m)' <=> InBucket(m))
  BY OnceFew DEF InBucket, InJob
<1>2. \A m \in Messages, u \in Workers \ {w} : InJob(u, m)' <=> InJob(u, m)
  BY DEF InJob
<1>3. Once(bucket'.msgs) /\ \A u \in Workers : Once(job'[u].msgs)
  BY OnceFew DEF PlaceInv
<1>4. ASSUME NEW m \in Messages PROVE (OnePlace(m) => OnePlace(m)') /\ (Nowhere(m) => Nowhere(m)')
  <2>1. Nowhere(m) => Nowhere(m)'
    BY <1>1, <1>2 DEF Nowhere
  <2>2. CASE InBucket(m)
    BY <1>1, <1>2, <2>2 DEF OnePlace, Nowhere
  <2>3. CASE ~InBucket(m)
    <3>1. \A u \in Workers : InJob(u, m)' <=> InJob(u, m)
      BY <1>1, <1>2, <2>3
    <3>. QED BY <1>1, <2>3, <3>1 DEF OnePlace, Nowhere
  <2>. QED BY <2>1, <2>2, <2>3
<1>. QED BY <1>3, <1>4 DEF PlaceInv

\* What a task knows of its dispatch.
LEMMA JobTyped ==
  ASSUME WayInv, NEW w \in Workers
  PROVE  /\ job[w] \in [stage : Stages, msgs : Seq(Messages), slot : BOOLEAN]
         /\ job[w].stage \in Stages /\ job[w].msgs \in Seq(Messages) /\ job[w].slot \in BOOLEAN
         /\ job[w].stage = "none" => job[w].msgs = <<>> /\ ~job[w].slot
         /\ job[w].stage \notin {"route one", "route bundle"} => ~job[w].slot
<1>1. job[w] \in [stage : Stages, msgs : Seq(Messages), slot : BOOLEAN]
  BY DEF WayInv, JobTypes
<1>2. job[w].stage \in Stages /\ job[w].msgs \in Seq(Messages) /\ job[w].slot \in BOOLEAN
  BY <1>1
<1>3. job[w].slot => job[w].stage \in {"route one", "route bundle"}
  BY DEF WayInv, JobsOwned
<1>4. job[w].stage = "none" => job[w].msgs = <<>>
  <2>1. ASSUME job[w].stage = "none" PROVE job[w].msgs = <<>>
    <3>1. job[w] = NoJob
      BY <2>1 DEF WayInv, JobsOwned
    <3>. QED BY <3>1 DEF NoJob
  <2>. QED BY <2>1
<1>. QED BY <1>1, <1>2, <1>3, <1>4

\* A task whose dispatch is over goes on, the others do not notice.
LEMMA ReturnFacts ==
  ASSUME Inv, WayInv, NEW w \in Workers, Return(w)
  PROVE  /\ \A m \in Messages : timer'[m] # "none" => handler'[m] = "buffered"
         /\ \A m \in Messages : (Taken(m)' <=> Taken(m)) /\ (handler'[m] \in Early => handler[m] \in Early)
         /\ InlineSlots' = InlineSlots /\ drain' \in {"off", "list", "claim", "dispatch", "done"}
         /\ \A u \in Workers \ {w} : AtWork(u) => AtWork(u)'
<1>1. /\ \A m \in Messages : timer'[m] = IF m = w /\ timer[m] = "dispatch" THEN "done" ELSE timer[m]
      /\ \A m \in Messages : handler'[m] = IF m = w /\ handler[m] = "flushing" THEN "run" ELSE handler[m]
      /\ drain' = IF w = Drain THEN "done" ELSE drain
  BY DEF Return
<1>2. \A m \in Messages : timer'[m] # "none" => handler'[m] = "buffered"
  BY <1>1 DEF WayInv, JobsOwned
<1>3. \A m \in Messages : (Taken(m)' <=> Taken(m)) /\ (handler'[m] \in Early => handler[m] \in Early)
  BY <1>1 DEF Taken, Early
<1>4. InlineSlots' = InlineSlots
  BY <1>1 DEF InlineSlots
<1>5. ASSUME NEW u \in Workers \ {w}, AtWork(u) PROVE AtWork(u)'
  <2>1. CASE u = Drain
    BY <1>1, <1>5, <2>1 DEF AtWork
  <2>2. CASE u # Drain
    BY <1>1, <1>5, <2>2 DEF AtWork, Workers
  <2>. QED BY <2>1, <2>2
<1>. QED BY <1>1, <1>2, <1>3, <1>4, <1>5 DEF WayInv, JobTypes

\* A task without a slot after the step: one slot fewer is held if it had one.
LEMMA SlotFreed ==
  ASSUME NEW w \in Workers, ~job'[w].slot, \A u \in Workers \ {w} : job'[u] = job[u]
  PROVE  /\ Cardinality(JobSlots) \in Nat /\ Cardinality(JobSlots') \in Nat
         /\ job[w].slot => Cardinality(JobSlots) = Cardinality(JobSlots') + 1
         /\ ~job[w].slot => Cardinality(JobSlots') = Cardinality(JobSlots)
<1>1. /\ JobSlots \in SUBSET Workers /\ JobSlots' \in SUBSET Workers
      /\ JobSlots' = JobSlots \ {w} /\ (w \in JobSlots <=> job[w].slot)
  BY DEF JobSlots
<1>2. /\ IsFiniteSet(JobSlots) /\ Cardinality(JobSlots) \in Nat /\ Cardinality(JobSlots') \in Nat
  BY <1>1, Finitely
<1>3. ASSUME job[w].slot PROVE Cardinality(JobSlots) = Cardinality(JobSlots') + 1
  <2>1. w \in JobSlots
    BY <1>1, <1>3
  <2>2. Cardinality(JobSlots \ {w}) = Cardinality(JobSlots) - 1
    BY <1>2, <2>1, FS_RemoveElement
  <2>. QED BY <1>1, <1>2, <2>2
<1>4. ASSUME ~job[w].slot PROVE Cardinality(JobSlots') = Cardinality(JobSlots)
  <2>1. JobSlots' = JobSlots
    BY <1>1, <1>4
  <2>. QED BY <2>1
<1>. QED BY <1>2, <1>3, <1>4

\* A task that had no slot: one slot more is held if it was given one.
LEMMA SlotGiven ==
  ASSUME NEW w \in Workers, ~job[w].slot, \A u \in Workers \ {w} : job'[u] = job[u]
  PROVE  /\ Cardinality(JobSlots) \in Nat /\ Cardinality(JobSlots') \in Nat
         /\ job'[w].slot => Cardinality(JobSlots') = Cardinality(JobSlots) + 1
         /\ ~job'[w].slot => Cardinality(JobSlots') = Cardinality(JobSlots)
<1>1. /\ JobSlots \in SUBSET Workers /\ JobSlots' \in SUBSET Workers /\ w \notin JobSlots
  BY DEF JobSlots
<1>2. IsFiniteSet(JobSlots) /\ Cardinality(JobSlots) \in Nat /\ Cardinality(JobSlots') \in Nat
  BY <1>1, Finitely
<1>3. ASSUME job'[w].slot PROVE Cardinality(JobSlots') = Cardinality(JobSlots) + 1
  <2>1. JobSlots' = JobSlots \cup {w}
    BY <1>3 DEF JobSlots
  <2>2. Cardinality(JobSlots \cup {w}) = Cardinality(JobSlots) + 1
    BY <1>1, <1>2, FS_AddElement
  <2>. QED BY <2>1, <2>2
<1>4. ASSUME ~job'[w].slot PROVE Cardinality(JobSlots') = Cardinality(JobSlots)
  <2>1. JobSlots' = JobSlots
    BY <1>4 DEF JobSlots
  <2>. QED BY <2>1
<1>. QED BY <1>2, <1>3, <1>4

\* The counts are numbers, and a held slot is counted.
LEMMA SlotCounts ==
  ASSUME WayInv
  PROVE  /\ Cardinality(InlineSlots) \in Nat /\ Cardinality(JobSlots) \in Nat
         /\ slots \in Nat /\ failures \in Nat /\ MaxConcurrent \in Nat /\ MaxFailures \in Nat
         /\ slots <= MaxConcurrent + failures /\ failures <= MaxFailures
         /\ \A w \in Workers : job[w].slot => slots >= 1
<1>1. Cardinality(InlineSlots) \in Nat /\ Cardinality(JobSlots) \in Nat
  BY Finitely DEF InlineSlots, JobSlots
<1>2. /\ slots \in Nat /\ failures \in Nat /\ MaxConcurrent \in Nat /\ MaxFailures \in Nat
      /\ slots <= MaxConcurrent + failures /\ failures <= MaxFailures
  BY CoalescerAssumption DEF WayInv, JobTypes
<1>3. ASSUME NEW w \in Workers, job[w].slot PROVE slots >= 1
  <2>1. Cardinality(JobSlots) # 0
    <3>1. w \in JobSlots /\ IsFiniteSet(JobSlots)
      BY <1>3, Finitely DEF JobSlots
    <3>. QED BY <3>1, FS_EmptySet
  <2>2. Cardinality(InlineSlots) + Cardinality(JobSlots) <= slots
    BY DEF WayInv, SlotInv
  <2>. QED BY <1>1, <1>2, <2>1, <2>2
<1>. QED BY <1>1, <1>2, <1>3

\* The messages of a dispatch are handed on or dropped, and it is over.
LEMMA OverKeepsWay ==
  ASSUME WayInv, NEW w \in Workers, job' = [job EXCEPT ![w] = NoJob],
         NEW K \in SUBSET Messages, NEW L \in SUBSET Messages,
         ToSet(job[w].msgs) = K \cup L, K \cap L = {},
         handed' = [m \in Messages |-> IF m \in K THEN handed[m] + 1 ELSE handed[m]],
         dropped' = dropped \cup L, UNCHANGED <<arrived, bucket, shuttingDown>>,
         slots' \in 0..(MaxConcurrent + failures'), failures' \in 0..MaxFailures,
         \A m \in Messages : timer'[m] # "none" => handler'[m] = "buffered",
         \A m \in Messages : (Taken(m)' <=> Taken(m)) /\ (handler'[m] \in Early => handler[m] \in Early),
         drain' \in {"off", "list", "claim", "dispatch", "done"},
         \A u \in Workers \ {w} : AtWork(u) => AtWork(u)'
  PROVE  JobTypes' /\ JobsOwned' /\ PlaceInv'
<1>2. job'[w] = NoJob /\ \A u \in Workers \ {w} : job'[u] = job[u]
  BY DEF WayInv, JobTypes
<1>3. NoJob.stage = "none" /\ NoJob.msgs = <<>> /\ ~NoJob.slot
      /\ NoJob \in [stage : Stages, msgs : Seq(Messages), slot : BOOLEAN]
  BY DEF NoJob, Stages
<1>4. JobTypes'
  <2>1. job' \in [Workers -> [stage : Stages, msgs : Seq(Messages), slot : BOOLEAN]]
    BY <1>3 DEF WayInv, JobTypes
  <2>3. handed' \in [Messages -> Nat] /\ dropped' \subseteq Messages
    BY DEF WayInv, JobTypes
  <2>. QED BY <2>1, <2>3 DEF WayInv, JobTypes
<1>5. JobsOwned'
  <2>1. ASSUME NEW u \in Workers
        PROVE  /\ job'[u].stage = "none" => job'[u] = NoJob
               /\ job'[u].stage # "none" => job'[u].msgs # <<>> /\ AtWork(u)'
               /\ job'[u].slot => job'[u].stage \in {"route one", "route bundle"}
    BY <1>2, <1>3 DEF WayInv, JobsOwned
  <2>. QED BY <2>1 DEF JobsOwned, NoJob
<1>6. PlaceInv'
  <2>1. \A m \in Messages : handler'[m] \in Early => handler[m] \in Early /\ ~Taken(m)
    BY DEF Early, Taken
  <2>2. ToSet(job'[w].msgs) = {} /\ Once(job'[w].msgs)
    BY <1>2, <1>3, OnceFew
  <2>3. handed \in [Messages -> Nat] /\ PlaceInv
    BY DEF WayInv, JobTypes
  <2>4. PICK R : R = {}
    OBVIOUS
  <2>5. /\ ToSet(job[w].msgs) = K \cup R \cup L /\ K \cap R = {} /\ R \cap L = {} /\ K \cap L = {}
        /\ ToSet(job'[w].msgs) = R
    BY <2>2, <2>4
  <2>6. bucket'.msgs = bucket.msgs /\ \A u \in Workers \ {w} : job'[u].msgs = job[u].msgs
    BY <1>2
  <2>7. /\ handed' = [m \in Messages |-> IF m \in K THEN handed[m] + 1 ELSE handed[m]]
        /\ dropped' = dropped \cup L
    OBVIOUS
  <2>8. \A m \in Messages : Taken(m)' <=> Taken(m)
    OBVIOUS
  <2>. QED BY <2>1, <2>2, <2>3, <2>5, <2>6, <2>7, <2>8, PlaceMoves
<1>. QED BY <1>4, <1>5, <1>6

\* A dispatch ends, and its task goes on.
LEMMA EndKeepsWay ==
  ASSUME Inv, WayInv, NEW w \in Workers, Return(w), job' = [job EXCEPT ![w] = NoJob],
         NEW K \in SUBSET Messages, NEW L \in SUBSET Messages,
         ToSet(job[w].msgs) = K \cup L, K \cap L = {},
         handed' = [m \in Messages |-> IF m \in K THEN handed[m] + 1 ELSE handed[m]],
         dropped' = dropped \cup L, UNCHANGED <<arrived, bucket, shuttingDown>>,
         slots' \in 0..(MaxConcurrent + failures'), failures' \in 0..MaxFailures
  PROVE  JobTypes' /\ JobsOwned' /\ PlaceInv'
<1>1. /\ \A m \in Messages : timer'[m] # "none" => handler'[m] = "buffered"
      /\ \A m \in Messages : (Taken(m)' <=> Taken(m)) /\ (handler'[m] \in Early => handler[m] \in Early)
      /\ drain' \in {"off", "list", "claim", "dispatch", "done"}
      /\ \A u \in Workers \ {w} : AtWork(u) => AtWork(u)'
  BY ReturnFacts
<1>. QED BY <1>1, OverKeepsWay

\* A count of the messages handed on is a number, whichever are handed on.
LEMMA HandedTyped ==
  ASSUME handed \in [Messages -> Nat], NEW K
  PROVE  [m \in Messages |-> IF m \in K THEN handed[m] + 1 ELSE handed[m]] \in [Messages -> Nat]
  OBVIOUS

\* A step that hands nothing on.
LEMMA NothingHanded ==
  ASSUME handed \in [Messages -> Nat], UNCHANGED handed
  PROVE  handed' = [m \in Messages |-> IF m \in {} THEN handed[m] + 1 ELSE handed[m]]
  OBVIOUS

\* A dispatch hands messages on and keeps the rest.
LEMMA PlaceGoesOn ==
  ASSUME PlaceInv, handed \in [Messages -> Nat], NEW w \in Workers, NEW K,
         ToSet(job[w].msgs) = K \cup ToSet(job'[w].msgs), K \cap ToSet(job'[w].msgs) = {},
         Once(job'[w].msgs),
         \A u \in Workers \ {w} : job'[u].msgs = job[u].msgs,
         bucket'.msgs = bucket.msgs, UNCHANGED <<dropped, handler>>,
         handed' = [m \in Messages |-> IF m \in K THEN handed[m] + 1 ELSE handed[m]]
  PROVE  PlaceInv'
<1>1. \A m \in Messages : handler'[m] \in Early => handler[m] \in Early /\ ~Taken(m)
  BY DEF Early, Taken
<1>2. \A m \in Messages : Taken(m)' <=> Taken(m)
  BY DEF Taken
<1>3. PICK R : R = ToSet(job'[w].msgs)
  OBVIOUS
<1>4. PICK L : L = {}
  OBVIOUS
<1>5. /\ ToSet(job[w].msgs) = K \cup R \cup L /\ K \cap R = {} /\ K \cap L = {} /\ R \cap L = {}
      /\ ToSet(job'[w].msgs) = R /\ dropped' = dropped \cup L
  BY <1>3, <1>4
<1>. QED BY <1>1, <1>2, <1>5, PlaceMoves

\* A dispatch goes on at another stage, with messages left.
LEMMA StageKeepsWay ==
  ASSUME Inv, WayInv, NEW w \in Workers,
         NEW new \in [stage : Stages, msgs : Seq(Messages), slot : BOOLEAN],
         job' = [job EXCEPT ![w] = new], job[w].stage # "none", new.stage # "none", new.msgs # <<>>,
         new.slot => new.stage \in {"route one", "route bundle"},
         NEW K \in SUBSET Messages, ToSet(job[w].msgs) = K \cup ToSet(new.msgs), K \cap ToSet(new.msgs) = {},
         Once(new.msgs),
         handed' = [m \in Messages |-> IF m \in K THEN handed[m] + 1 ELSE handed[m]],
         UNCHANGED <<arrived, handler, timer, bucket, shuttingDown, drain, dropped, failures>>,
         slots' \in 0..(MaxConcurrent + failures')
  PROVE  JobTypes' /\ JobsOwned' /\ PlaceInv'
<1>2. job'[w] = new /\ \A u \in Workers \ {w} : job'[u] = job[u]
  BY DEF WayInv, JobTypes
<1>4. JobTypes'
  <2>1. job' \in [Workers -> [stage : Stages, msgs : Seq(Messages), slot : BOOLEAN]]
    BY DEF WayInv, JobTypes
  <2>2. handed \in [Messages -> Nat]
    BY DEF WayInv, JobTypes
  <2>3. handed' \in [Messages -> Nat]
    BY <2>2, HandedTyped
  <2>. QED BY <2>1, <2>3 DEF WayInv, JobTypes
<1>5. JobsOwned'
  <2>1. \A u \in Workers : AtWork(u)' <=> AtWork(u)
    BY DEF AtWork
  <2>2. ASSUME NEW u \in Workers
        PROVE  /\ job'[u].stage = "none" => job'[u] = NoJob
               /\ job'[u].stage # "none" => job'[u].msgs # <<>> /\ AtWork(u)'
               /\ job'[u].slot => job'[u].stage \in {"route one", "route bundle"}
    BY <1>2, <2>1 DEF WayInv, JobsOwned
  <2>. QED BY <2>2 DEF WayInv, JobsOwned, NoJob
<1>6. PlaceInv'
  <2>1. handed \in [Messages -> Nat] /\ PlaceInv
    BY DEF WayInv, JobTypes
  <2>2. /\ ToSet(job[w].msgs) = K \cup ToSet(job'[w].msgs) /\ K \cap ToSet(job'[w].msgs) = {}
        /\ Once(job'[w].msgs)
    BY <1>2
  <2>3. bucket'.msgs = bucket.msgs /\ \A u \in Workers \ {w} : job'[u].msgs = job[u].msgs
    BY <1>2
  <2>. QED BY <2>1, <2>2, <2>3, PlaceGoesOn
<1>. QED BY <1>4, <1>5, <1>6

\* A dispatch goes on without a slot.
LEMMA StopKeepsWay ==
  ASSUME Inv, WayInv, NEW w \in Workers, StopTyping(w) \/ Gate(w)
  PROVE  WayInv'
<1>1. job[w].stage \in {"stop", "gate"}
  BY DEF StopTyping, Gate
<1>2. PICK next \in {"each", "gate", "bundle"} : job' = [job EXCEPT ![w].stage = next]
  BY DEF StopTyping, Gate
<1>3. /\ UNCHANGED <<arrived, handler, bucket, lock, timer, slots, shuttingDown, drain, handed, dropped, failures>>
  BY DEF StopTyping, Gate
<1>4. /\ job[w] \in [stage : Stages, msgs : Seq(Messages), slot : BOOLEAN] /\ job[w].msgs \in Seq(Messages)
      /\ ~job[w].slot
  BY <1>1, JobTyped
<1>5. PICK new : new = [job[w] EXCEPT !.stage = next]
  OBVIOUS
<1>6. /\ new \in [stage : Stages, msgs : Seq(Messages), slot : BOOLEAN]
      /\ new.stage = next /\ new.msgs = job[w].msgs /\ ~new.slot
  BY <1>4, <1>5 DEF Stages
<1>7. job' = [job EXCEPT ![w] = new]
  BY <1>2, <1>5 DEF WayInv, JobTypes
<1>8. Once(job[w].msgs) /\ job[w].msgs # <<>> /\ slots \in 0..(MaxConcurrent + failures) /\ handed \in [Messages -> Nat]
  BY <1>1 DEF WayInv, PlaceInv, JobsOwned, JobTypes
<1>9. handed' = [m \in Messages |-> IF m \in {} THEN handed[m] + 1 ELSE handed[m]]
  BY <1>3, <1>8, NothingHanded
<1>10. JobTypes' /\ JobsOwned' /\ PlaceInv'
  <2>1. new.stage # "none" /\ job[w].stage # "none" /\ new.msgs # <<>> /\ Once(new.msgs)
    BY <1>1, <1>6, <1>8
  <2>2. /\ {} \in SUBSET Messages /\ ToSet(job[w].msgs) = {} \cup ToSet(new.msgs)
        /\ {} \cap ToSet(new.msgs) = {} /\ slots' \in 0..(MaxConcurrent + failures')
    BY <1>3, <1>6, <1>8
  <2>. QED BY <1>3, <1>6, <1>7, <1>9, <2>1, <2>2, StageKeepsWay
<1>11. SlotInv'
  <2>1. job'[w].slot <=> job[w].slot
    BY <1>4, <1>6, <1>7 DEF WayInv, JobTypes
  <2>2. JobSlots' = JobSlots /\ InlineSlots' = InlineSlots
    BY <1>3, <1>7, <2>1 DEF JobSlots, InlineSlots, WayInv, JobTypes
  <2>. QED BY <1>3, <2>2 DEF SlotInv, WayInv
<1>. QED BY <1>10, <1>11 DEF WayInv

\* A slot is given only while the limit leaves one.
LEMMA SlotsStay ==
  ASSUME WayInv, slots' = IF SlotFree THEN slots + 1 ELSE slots, failures' = failures
  PROVE  slots' \in 0..(MaxConcurrent + failures')
  BY SlotCounts DEF SlotFree

\* Whether a slot is free is true or false.
LEMMA SlotFreeIsTruth ==
  ASSUME WayInv
  PROVE  SlotFree = TRUE \/ SlotFree = FALSE
<1>1. slots \in Nat /\ MaxConcurrent \in Nat
  BY SlotCounts
<1>. QED BY <1>1 DEF SlotFree

\* What a dispatch becomes that is given a slot, or goes on without one.
LEMMA AcquireGoesOn ==
  ASSUME Inv, WayInv, NEW w \in Workers, AcquireSlot(w)
  PROVE  /\ JobTypes' /\ JobsOwned' /\ PlaceInv' /\ job[w].stage # "none" /\ ~job[w].slot
         /\ job'[w].slot <=> SlotFree
         /\ \A u \in Workers \ {w} : job'[u] = job[u]
<1>1. PICK kind \in {"each", "bundle"} :
        /\ job[w].stage = kind
        /\ job' = [job EXCEPT ![w].stage = IF kind = "each" THEN "route one" ELSE "route bundle",
                              ![w].slot = SlotFree]
  BY DEF AcquireSlot
<1>2. UNCHANGED <<arrived, handler, bucket, lock, timer, shuttingDown, drain, handed, dropped, failures>>
  BY DEF AcquireSlot
<1>3. PICK next \in {"route one", "route bundle"} : next = IF kind = "each" THEN "route one" ELSE "route bundle"
  OBVIOUS
<1>4. /\ job[w] \in [stage : Stages, msgs : Seq(Messages), slot : BOOLEAN] /\ job[w].msgs \in Seq(Messages)
      /\ ~job[w].slot
  BY <1>1, JobTyped
<1>5. Once(job[w].msgs) /\ job[w].msgs # <<>> /\ handed \in [Messages -> Nat]
  BY <1>1 DEF WayInv, PlaceInv, JobsOwned, JobTypes
<1>6. handed' = [m \in Messages |-> IF m \in {} THEN handed[m] + 1 ELSE handed[m]]
  BY <1>2, <1>5, NothingHanded
<1>7. slots' \in 0..(MaxConcurrent + failures')
  BY SlotsStay DEF AcquireSlot
<1>8. ASSUME NEW new \in [stage : Stages, msgs : Seq(Messages), slot : BOOLEAN], new.stage = next,
             new.msgs = job[w].msgs, job' = [job EXCEPT ![w] = new]
      PROVE  JobTypes' /\ JobsOwned' /\ PlaceInv'
  <2>1. /\ new.stage # "none" /\ job[w].stage # "none" /\ new.msgs # <<>> /\ Once(new.msgs)
        /\ new.stage \in {"route one", "route bundle"}
    BY <1>1, <1>5, <1>8
  <2>2. /\ {} \in SUBSET Messages /\ ToSet(job[w].msgs) = {} \cup ToSet(new.msgs)
        /\ {} \cap ToSet(new.msgs) = {}
    BY <1>8
  <2>. QED BY <1>2, <1>6, <1>7, <1>8, <2>1, <2>2, StageKeepsWay
<1>9. job[w].stage # "none" /\ \A u \in Workers \ {w} : job'[u] = job[u]
  BY <1>1 DEF WayInv, JobTypes
<1>10. ASSUME NEW given \in BOOLEAN, SlotFree <=> given,
              job' = [job EXCEPT ![w] = [@ EXCEPT !.stage = next, !.slot = given]]
       PROVE  JobTypes' /\ JobsOwned' /\ PlaceInv' /\ (job'[w].slot <=> SlotFree)
  <2>1. PICK new : new = [job[w] EXCEPT !.stage = next, !.slot = given]
    OBVIOUS
  <2>2. /\ new \in [stage : Stages, msgs : Seq(Messages), slot : BOOLEAN]
        /\ new.stage = next /\ new.msgs = job[w].msgs /\ new.slot = given
    BY <1>4, <2>1 DEF Stages
  <2>3. job' = [job EXCEPT ![w] = new] /\ job'[w] = new
    BY <1>10, <2>1 DEF WayInv, JobTypes
  <2>4. JobTypes' /\ JobsOwned' /\ PlaceInv'
    BY <1>8, <2>2, <2>3
  <2>. QED BY <1>10, <2>2, <2>3, <2>4
<1>11. CASE SlotFree
  <2>1. SlotFree = TRUE
    BY <1>11, SlotFreeIsTruth
  <2>2. job' = [job EXCEPT ![w] = [@ EXCEPT !.stage = next, !.slot = TRUE]]
    BY <1>1, <1>3, <2>1 DEF WayInv, JobTypes
  <2>. QED BY <1>4, <1>9, <1>10, <1>11, <2>2
<1>12. CASE ~SlotFree
  <2>1. SlotFree = FALSE
    BY <1>12, SlotFreeIsTruth
  <2>2. job' = [job EXCEPT ![w] = [@ EXCEPT !.stage = next, !.slot = FALSE]]
    BY <1>1, <1>3, <2>1 DEF WayInv, JobTypes
  <2>. QED BY <1>4, <1>9, <1>10, <1>12, <2>2
<1>. QED BY <1>11, <1>12

\* A dispatch takes a slot when there is one, and goes on in any case.
LEMMA AcquireKeepsWay ==
  ASSUME Inv, WayInv, NEW w \in Workers, AcquireSlot(w)
  PROVE  WayInv'
<1>1. /\ JobTypes' /\ JobsOwned' /\ PlaceInv' /\ ~job[w].slot
      /\ job'[w].slot <=> SlotFree
      /\ \A u \in Workers \ {w} : job'[u] = job[u]
  BY AcquireGoesOn
<1>2. /\ Cardinality(JobSlots) \in Nat /\ Cardinality(JobSlots') \in Nat
      /\ SlotFree => Cardinality(JobSlots') = Cardinality(JobSlots) + 1
      /\ ~SlotFree => Cardinality(JobSlots') = Cardinality(JobSlots)
  BY <1>1, SlotGiven
<1>3. InlineSlots' = InlineSlots /\ failures' = failures
  BY DEF AcquireSlot, InlineSlots
<1>4. slots' = IF SlotFree THEN slots + 1 ELSE slots
  BY DEF AcquireSlot
<1>5. Cardinality(InlineSlots) \in Nat /\ failures \in Nat /\ slots \in Nat
  BY SlotCounts
<1>6. /\ Cardinality(InlineSlots) + Cardinality(JobSlots) <= slots
      /\ slots <= Cardinality(InlineSlots) + Cardinality(JobSlots) + failures
  BY DEF WayInv, SlotInv
<1>7. SlotInv'
  BY <1>2, <1>3, <1>4, <1>5, <1>6 DEF SlotInv
<1>. QED BY <1>1, <1>7 DEF WayInv

\* What a dispatch hands on and what it keeps make up its messages.
LEMMA BatchAndRest ==
  ASSUME WayInv, NEW w \in Workers, job[w].stage # "none"
  PROVE  /\ ToSet(Batch(w)) \in SUBSET Messages /\ ToSet(Rest(w)) \in SUBSET Messages
         /\ ToSet(job[w].msgs) = ToSet(Batch(w)) \cup ToSet(Rest(w))
         /\ ToSet(Batch(w)) \cap ToSet(Rest(w)) = {}
         /\ Rest(w) \in Seq(Messages) /\ Once(Rest(w))
<1>1. job[w].msgs \in Seq(Messages) /\ job[w].msgs # <<>> /\ Once(job[w].msgs)
  BY JobTyped DEF WayInv, JobsOwned, PlaceInv
<1>2. PICK s : s = job[w].msgs
  OBVIOUS
<1>3. s \in Seq(Messages) /\ s # <<>> /\ Once(s)
  BY <1>1, <1>2
<1>4. /\ ToSet(s) = {Head(s)} \cup ToSet(Tail(s)) /\ Head(s) \in Messages /\ Tail(s) \in Seq(Messages)
      /\ Once(Tail(s)) /\ Head(s) \notin ToSet(Tail(s))
  BY <1>3, OnceTail
<1>5. \A z \in Seq(Messages) : ToSet(z) \in SUBSET Messages
  BY DEF ToSet
<1>6. CASE job[w].stage = "route one"
  <2>1. Batch(w) = <<Head(s)>> /\ Rest(w) = Tail(s)
    BY <1>2, <1>6 DEF Batch, Rest
  <2>2. ToSet(Batch(w)) = {Head(s)}
    BY <2>1, OnceFew
  <2>. QED BY <1>2, <1>4, <1>5, <2>1, <2>2
<1>7. CASE job[w].stage # "route one"
  <2>1. Batch(w) = s /\ Rest(w) = <<>>
    BY <1>2, <1>7 DEF Batch, Rest
  <2>2. ToSet(Rest(w)) = {} /\ Once(Rest(w)) /\ Rest(w) \in Seq(Messages)
    BY <2>1, OnceFew
  <2>3. ToSet(s) \in SUBSET Messages
    BY <1>3, <1>5
  <2>. QED BY <1>2, <2>1, <2>2, <2>3
<1>. QED BY <1>6, <1>7

\* The slot of a dispatch goes back, if it had one.
LEMMA ReleasedFacts ==
  ASSUME WayInv, NEW w \in Workers
  PROVE  /\ Released(w) \in 0..(MaxConcurrent + failures)
         /\ job[w].slot => Released(w) = slots - 1
         /\ ~job[w].slot => Released(w) = slots
<1>1. /\ slots \in Nat /\ MaxConcurrent \in Nat /\ failures \in Nat /\ slots <= MaxConcurrent + failures
      /\ job[w].slot => slots >= 1
  BY SlotCounts
<1>2. CASE job[w].slot
  <2>1. Released(w) = slots - 1
    BY <1>2 DEF Released
  <2>. QED BY <1>1, <1>2, <2>1
<1>3. CASE ~job[w].slot
  <2>1. Released(w) = slots
    BY <1>3 DEF Released
  <2>. QED BY <1>1, <1>3, <2>1
<1>. QED BY <1>2, <1>3

\* A slot that goes back leaves the count balanced; so does one that an exception leaks.
LEMMA FreedKeepsSlots ==
  ASSUME WayInv, NEW w \in Workers, ~job'[w].slot, \A u \in Workers \ {w} : job'[u] = job[u],
         InlineSlots' = InlineSlots,
         \/ /\ failures' = failures
            /\ slots' = Released(w)
         \/ /\ failures' = failures + 1 /\ job[w].slot
            /\ slots' \in {slots, slots - 1}
         \/ /\ failures' = failures + 1 /\ ~job[w].slot
            /\ slots' \in {slots, slots + 1}
  PROVE  SlotInv'
<1>1. /\ Cardinality(JobSlots) \in Nat /\ Cardinality(JobSlots') \in Nat
      /\ job[w].slot => Cardinality(JobSlots) = Cardinality(JobSlots') + 1
      /\ ~job[w].slot => Cardinality(JobSlots') = Cardinality(JobSlots)
  BY SlotFreed
<1>2. Cardinality(InlineSlots) \in Nat /\ failures \in Nat /\ slots \in Nat
  BY SlotCounts
<1>3. /\ Cardinality(InlineSlots) + Cardinality(JobSlots) <= slots
      /\ slots <= Cardinality(InlineSlots) + Cardinality(JobSlots) + failures
  BY DEF WayInv, SlotInv
<1>4. (job[w].slot => Released(w) = slots - 1) /\ (~job[w].slot => Released(w) = slots)
  BY ReleasedFacts
<1>5. \/ /\ failures' = failures /\ job[w].slot /\ slots' = slots - 1
      \/ /\ failures' = failures /\ ~job[w].slot /\ slots' = slots
      \/ /\ failures' = failures + 1 /\ job[w].slot /\ slots' = slots
      \/ /\ failures' = failures + 1 /\ job[w].slot /\ slots' = slots - 1
      \/ /\ failures' = failures + 1 /\ ~job[w].slot /\ slots' = slots
      \/ /\ failures' = failures + 1 /\ ~job[w].slot /\ slots' = slots + 1
  BY <1>4
<1>. QED BY <1>1, <1>2, <1>3, <1>5 DEF SlotInv

\* Messages are handed on; the dispatch goes on with the rest, or is over.
LEMMA RoutedKeepsWay ==
  ASSUME Inv, WayInv, NEW w \in Workers, Routed(w)
  PROVE  WayInv'
<1>1. /\ job[w].stage \in {"route one", "route bundle"}
      /\ handed' = [m \in Messages |-> IF m \in ToSet(Batch(w)) THEN handed[m] + 1 ELSE handed[m]]
      /\ UNCHANGED <<arrived, bucket, lock, shuttingDown, dropped, failures>>
      /\ slots' = Released(w)
  BY DEF Routed, HandOn
<1>2. /\ ToSet(Batch(w)) \in SUBSET Messages
      /\ ToSet(job[w].msgs) = ToSet(Batch(w)) \cup ToSet(Rest(w))
      /\ ToSet(Batch(w)) \cap ToSet(Rest(w)) = {}
      /\ Rest(w) \in Seq(Messages) /\ Once(Rest(w)) /\ job[w].stage # "none"
  BY <1>1, BatchAndRest
<1>3. slots' \in 0..(MaxConcurrent + failures')
  BY <1>1, ReleasedFacts
<1>4. CASE /\ Rest(w) # <<>>
           /\ job' = [job EXCEPT ![w] = [stage |-> "each", msgs |-> Rest(w), slot |-> FALSE]]
           /\ UNCHANGED <<handler, timer, drain>>
  <2>1. PICK new : new = [stage |-> "each", msgs |-> Rest(w), slot |-> FALSE]
    OBVIOUS
  <2>2. /\ new.stage = "each" /\ new.msgs = Rest(w) /\ ~new.slot
        /\ new \in [stage : Stages, msgs : Seq(Messages), slot : BOOLEAN]
    BY <1>2, <2>1 DEF Stages
  <2>3. job' = [job EXCEPT ![w] = new] /\ new.msgs # <<>> /\ new.stage # "none"
    BY <1>4, <2>1, <2>2
  <2>4. ToSet(job[w].msgs) = ToSet(Batch(w)) \cup ToSet(new.msgs) /\ Once(new.msgs)
        /\ ToSet(Batch(w)) \cap ToSet(new.msgs) = {}
    BY <1>2, <2>2
  <2>5. UNCHANGED <<arrived, handler, timer, bucket, shuttingDown, drain, dropped, failures>>
    BY <1>1, <1>4
  <2>6. JobTypes' /\ JobsOwned' /\ PlaceInv'
    BY <1>1, <1>2, <1>3, <2>2, <2>3, <2>4, <2>5, StageKeepsWay
  <2>7. job'[w] = new /\ \A u \in Workers \ {w} : job'[u] = job[u]
    BY <2>3 DEF WayInv, JobTypes
  <2>8. ~job'[w].slot /\ InlineSlots' = InlineSlots /\ failures' = failures
    BY <2>2, <2>5, <2>7 DEF InlineSlots
  <2>9. SlotInv'
    BY <1>1, <2>7, <2>8, FreedKeepsSlots
  <2>. QED BY <2>6, <2>9 DEF WayInv
<1>5. CASE Rest(w) = <<>> /\ job' = [job EXCEPT ![w] = NoJob] /\ Return(w)
  <2>1. dropped' = dropped \cup {} /\ failures' \in 0..MaxFailures
    BY <1>1 DEF WayInv, JobTypes
  <2>2. ToSet(job[w].msgs) = ToSet(Batch(w)) \cup {}
    BY <1>2, <1>5, OnceFew
  <2>3. /\ {} \in SUBSET Messages /\ ToSet(Batch(w)) \cap {} = {}
        /\ UNCHANGED <<arrived, bucket, shuttingDown>>
    BY <1>1
  <2>4. JobTypes' /\ JobsOwned' /\ PlaceInv'
    BY <1>1, <1>2, <1>3, <1>5, <2>1, <2>2, <2>3, EndKeepsWay
  <2>5. job'[w] = NoJob /\ \A u \in Workers \ {w} : job'[u] = job[u]
    BY <1>5 DEF WayInv, JobTypes
  <2>6. ~job'[w].slot
    BY <2>5 DEF NoJob
  <2>7. InlineSlots' = InlineSlots
    BY <1>5, ReturnFacts
  <2>8. failures' = failures /\ slots' = Released(w)
    BY <1>1
  <2>9. SlotInv'
    BY <2>5, <2>6, <2>7, <2>8, FreedKeepsSlots
  <2>. QED BY <2>4, <2>9 DEF WayInv
<1>. QED BY <1>4, <1>5 DEF Routed

\* The limiter raises before the messages' turn: they are dropped, and a slot may be taken.
LEMMA AcquireRaisesKeepsWay ==
  ASSUME Inv, WayInv, NEW w \in Workers, AcquireRaises(w)
  PROVE  WayInv'
<1>1. /\ job[w].stage \in {"each", "bundle"} /\ failures < MaxFailures /\ failures' = failures + 1
      /\ dropped' = dropped \cup ToSet(job[w].msgs)
      /\ job' = [job EXCEPT ![w] = NoJob] /\ Return(w) /\ slots' \in {slots, slots + 1}
      /\ UNCHANGED <<arrived, bucket, lock, shuttingDown, handed>>
  BY DEF AcquireRaises, Fails
<1>2. slots' \in 0..(MaxConcurrent + failures') /\ failures' \in 0..MaxFailures
  BY <1>1, SlotCounts
<1>3. handed' = [m \in Messages |-> IF m \in {} THEN handed[m] + 1 ELSE handed[m]]
  BY <1>1, NothingHanded DEF WayInv, JobTypes
<1>4. ToSet(job[w].msgs) \in SUBSET Messages
  <2>1. job[w].msgs \in Seq(Messages)
    BY JobTyped
  <2>. QED BY <2>1 DEF ToSet
<1>5. JobTypes' /\ JobsOwned' /\ PlaceInv'
  <2>1. /\ {} \in SUBSET Messages /\ {} \cap ToSet(job[w].msgs) = {}
        /\ ToSet(job[w].msgs) = {} \cup ToSet(job[w].msgs)
        /\ UNCHANGED <<arrived, bucket, shuttingDown>>
    BY <1>1
  <2>. QED BY <1>1, <1>2, <1>3, <1>4, <2>1, EndKeepsWay
<1>6. job'[w] = NoJob /\ \A u \in Workers \ {w} : job'[u] = job[u]
  BY <1>1 DEF WayInv, JobTypes
<1>7. ~job'[w].slot
  BY <1>6 DEF NoJob
<1>8. ~job[w].slot
  BY <1>1, JobTyped
<1>9. InlineSlots' = InlineSlots
  BY <1>1, ReturnFacts
<1>10. SlotInv'
  BY <1>1, <1>6, <1>7, <1>8, <1>9, FreedKeepsSlots
<1>. QED BY <1>5, <1>10 DEF WayInv

\* It raises as the slot goes back: the messages left are dropped, the slot may stay taken.
LEMMA ReleaseRaisesKeepsWay ==
  ASSUME Inv, WayInv, NEW w \in Workers, ReleaseRaises(w)
  PROVE  WayInv'
<1>1. /\ job[w].stage \in {"route one", "route bundle"} /\ job[w].slot
      /\ handed' = [m \in Messages |-> IF m \in ToSet(Batch(w)) THEN handed[m] + 1 ELSE handed[m]]
      /\ UNCHANGED <<arrived, bucket, lock, shuttingDown>>
      /\ failures < MaxFailures /\ failures' = failures + 1
      /\ slots' \in {slots, slots - 1}
      /\ dropped' = dropped \cup ToSet(Rest(w))
      /\ job' = [job EXCEPT ![w] = NoJob] /\ Return(w)
  BY DEF ReleaseRaises, HandOn, Fails
<1>2. slots' \in 0..(MaxConcurrent + failures') /\ failures' \in 0..MaxFailures
  <2>1. /\ slots \in Nat /\ slots >= 1 /\ slots <= MaxConcurrent + failures /\ MaxConcurrent \in Nat
        /\ failures \in Nat /\ MaxFailures \in Nat
    BY <1>1, SlotCounts
  <2>2. (slots' = slots \/ slots' = slots - 1) /\ failures < MaxFailures /\ failures' = failures + 1
    BY <1>1
  <2>. QED BY <2>1, <2>2
<1>3. /\ ToSet(Batch(w)) \in SUBSET Messages /\ ToSet(Rest(w)) \in SUBSET Messages
      /\ ToSet(job[w].msgs) = ToSet(Batch(w)) \cup ToSet(Rest(w))
      /\ ToSet(Batch(w)) \cap ToSet(Rest(w)) = {}
  BY <1>1, BatchAndRest
<1>4. UNCHANGED <<arrived, bucket, shuttingDown>>
  BY <1>1
<1>5. JobTypes' /\ JobsOwned' /\ PlaceInv'
  BY <1>1, <1>2, <1>3, <1>4, EndKeepsWay
<1>6. job'[w] = NoJob /\ \A u \in Workers \ {w} : job'[u] = job[u]
  BY <1>1 DEF WayInv, JobTypes
<1>7. ~job'[w].slot
  BY <1>6 DEF NoJob
<1>8. InlineSlots' = InlineSlots
  BY <1>1, ReturnFacts
<1>9. SlotInv'
  BY <1>1, <1>6, <1>7, <1>8, FreedKeepsSlots
<1>. QED BY <1>5, <1>9 DEF WayInv

\* A step of a dispatch.
LEMMA DispatchKeepsWay ==
  ASSUME Inv, WayInv, NEW w \in Workers, Dispatch(w)
  PROVE  WayInv'
  BY StopKeepsWay, AcquireKeepsWay, RoutedKeepsWay, AcquireRaisesKeepsWay, ReleaseRaisesKeepsWay DEF Dispatch

\* A task claims the bucket, and waits for the dispatch it starts.
LEMMA ClaimKeepsWay ==
  ASSUME Inv, WayInv, NEW w \in Workers, job[w].stage = "none", Claimable, bucket' = NoBucket,
         job' = [job EXCEPT ![w] = [NoJob EXCEPT !.stage = "stop", !.msgs = bucket.msgs]],
         UNCHANGED <<arrived, slots, shuttingDown, handed, dropped, failures>>,
         drain' \in {"off", "list", "claim", "dispatch", "done"}, AtWork(w)',
         \A u \in Workers \ {w} : AtWork(u) => AtWork(u)',
         \A m \in Messages : timer'[m] # "none" => handler'[m] = "buffered",
         \A m \in Messages : (Taken(m)' <=> Taken(m)) /\ (handler'[m] \in Early => handler[m] \in Early),
         InlineSlots' = InlineSlots
  PROVE  WayInv'
<1>1. bucket.msgs \in Seq(Messages) /\ bucket.msgs # <<>>
  BY DEF Inv, TimerTypes, TimerInv, LockInv, Claimable, NoBucket
<1>2. PICK new : new = [NoJob EXCEPT !.stage = "stop", !.msgs = bucket.msgs]
  OBVIOUS
<1>3. /\ new.stage = "stop" /\ new.msgs = bucket.msgs /\ ~new.slot
      /\ new \in [stage : Stages, msgs : Seq(Messages), slot : BOOLEAN]
  BY <1>1, <1>2 DEF NoJob, Stages
<1>4. job' = [job EXCEPT ![w] = new]
  BY <1>2
<1>5. job'[w] = new /\ \A u \in Workers \ {w} : job'[u] = job[u]
  BY <1>4 DEF WayInv, JobTypes
<1>6. job[w].msgs = <<>> /\ ~job[w].slot
  BY JobTyped
<1>7. JobTypes'
  <2>1. job' \in [Workers -> [stage : Stages, msgs : Seq(Messages), slot : BOOLEAN]]
    BY <1>3, <1>4 DEF WayInv, JobTypes
  <2>. QED BY <2>1 DEF WayInv, JobTypes
<1>8. JobsOwned'
  <2>1. ASSUME NEW u \in Workers
        PROVE  /\ job'[u].stage = "none" => job'[u] = NoJob
               /\ job'[u].stage # "none" => job'[u].msgs # <<>> /\ AtWork(u)'
               /\ job'[u].slot => job'[u].stage \in {"route one", "route bundle"}
    BY <1>1, <1>3, <1>5 DEF WayInv, JobsOwned
  <2>. QED BY <2>1 DEF JobsOwned, NoJob
<1>9. PlaceInv'
  <2>1. bucket'.msgs = <<>> /\ job'[w].msgs = bucket.msgs /\ \A u \in Workers \ {w} : job'[u].msgs = job[u].msgs
    BY <1>3, <1>5 DEF NoBucket
  <2>2. PlaceInv
    BY DEF WayInv
  <2>. QED BY <1>6, <2>1, <2>2, PlaceClaims
<1>10. SlotInv'
  <2>1. \A u \in Workers : job'[u].slot <=> job[u].slot
    BY <1>3, <1>5, <1>6
  <2>2. JobSlots' = JobSlots
    BY <2>1 DEF JobSlots
  <2>. QED BY <2>2 DEF SlotInv, WayInv
<1>. QED BY <1>7, <1>8, <1>9, <1>10 DEF WayInv

\* A step that leaves the dispatches, the places and the slots alone.
LEMMA QuietKeepsWay ==
  ASSUME Inv, WayInv, UNCHANGED <<job, slots, failures, handed, dropped>>, bucket'.msgs = bucket.msgs,
         arrived' \subseteq Messages, shuttingDown' \in BOOLEAN,
         drain' \in {"off", "list", "claim", "dispatch", "done"},
         \A u \in Workers : AtWork(u) => AtWork(u)',
         \A m \in Messages : timer'[m] # "none" => handler'[m] = "buffered",
         \A m \in Messages : (Taken(m)' <=> Taken(m)) /\ (handler'[m] \in Early => handler[m] \in Early),
         InlineSlots' = InlineSlots
  PROVE  WayInv'
<1>1. JobTypes'
  BY DEF WayInv, JobTypes
<1>2. JobsOwned'
  BY DEF WayInv, JobsOwned, NoJob
<1>3. PlaceInv'
  <2>1. PlaceInv /\ \A w \in Workers : job'[w].msgs = job[w].msgs
    BY DEF WayInv
  <2>. QED BY <2>1, PlaceRests
<1>4. SlotInv'
  <2>1. JobSlots' = JobSlots
    BY DEF JobSlots
  <2>. QED BY <2>1 DEF WayInv, SlotInv
<1>. QED BY <1>1, <1>2, <1>3, <1>4 DEF WayInv

\* The timers that a claim cancels or leaves: only live ones end, none starts.
LEMMA CancelledFacts ==
  ASSUME Inv, NEW t \in Messages
  PROVE  /\ TimersCancelled[t] \in {timer[t], "cancelled"}
         /\ TimersCancelled[t] # "none" <=> timer[t] # "none"
         /\ TimersCancelled[t] = "dispatch" <=> timer[t] = "dispatch"
  BY DEF TimersCancelled, Alive, Inv, TimerTypes

\* A task whose timer waits, or whose message is routed, has no dispatch.
LEMMA IdleTask ==
  ASSUME Inv, WayInv, NEW t \in Messages, timer[t] = "awake" \/ handler[t] = "route"
  PROVE  job[t].stage = "none" /\ t # Drain /\ t \in Workers
<1>1. t # Drain /\ t \in Workers
  BY CoalescerAssumption DEF Workers
<1>2. ~AtWork(t)
  BY <1>1 DEF AtWork, WayInv, JobsOwned
<1>. QED BY <1>1, <1>2 DEF WayInv, JobsOwned

\* The timer of the bucket claims it; a timer that finds nothing to claim ends.
LEMMA TimerFlushKeepsWay ==
  ASSUME Inv, WayInv, NEW t \in Messages, TimerFlush(t)
  PROVE  WayInv'
<1>1. /\ timer[t] = "awake" /\ lock = 0 /\ timer \in [Messages -> TimerStates]
      /\ UNCHANGED <<arrived, handler, lock, slots, shuttingDown, drain, handed, dropped, failures>>
  BY DEF TimerFlush, Inv, TimerTypes
<1>2. job[t].stage = "none" /\ t # Drain /\ t \in Workers
  BY <1>1, IdleTask
<1>3. /\ \A m \in Messages : (Taken(m)' <=> Taken(m)) /\ (handler'[m] \in Early => handler[m] \in Early)
      /\ InlineSlots' = InlineSlots /\ drain' \in {"off", "list", "claim", "dispatch", "done"}
  BY <1>1 DEF Taken, InlineSlots, WayInv, JobTypes
<1>4. CASE Claim(t, [TimersCancelled EXCEPT ![t] = "dispatch"])
  <2>1. /\ Claimable /\ bucket' = NoBucket
        /\ job' = [job EXCEPT ![t] = [NoJob EXCEPT !.stage = "stop", !.msgs = bucket.msgs]]
        /\ timer' = [TimersCancelled EXCEPT ![t] = "dispatch"]
    BY <1>4 DEF Claim
  <2>2. timer'[t] = "dispatch" /\ \A m \in Messages \ {t} : timer'[m] = TimersCancelled[m]
    BY <2>1 DEF TimersCancelled
  <2>3. AtWork(t)'
    BY <1>2, <2>2 DEF AtWork
  <2>4. ASSUME NEW u \in Workers \ {t}, AtWork(u) PROVE AtWork(u)'
    <3>1. CASE u = Drain
      BY <1>1, <2>4, <3>1 DEF AtWork
    <3>2. CASE u # Drain
      <4>1. u \in Messages \ {t}
        BY <3>2 DEF Workers
      <4>2. timer[u] = "dispatch" => timer'[u] = "dispatch"
        BY <2>2, <4>1, CancelledFacts
      <4>. QED BY <1>1, <2>4, <3>2, <4>2 DEF AtWork
    <3>. QED BY <3>1, <3>2
  <2>5. ASSUME NEW m \in Messages, timer'[m] # "none" PROVE handler'[m] = "buffered"
    <3>1. timer[m] # "none"
      BY <1>1, <2>2, <2>5, CancelledFacts
    <3>. QED BY <1>1, <3>1 DEF WayInv, JobsOwned
  <2>. QED BY <1>1, <1>2, <1>3, <2>1, <2>3, <2>4, <2>5, ClaimKeepsWay
<1>5. CASE ~Claimable /\ timer' = [timer EXCEPT ![t] = "done"] /\ UNCHANGED <<bucket, job>>
  <2>1. \A m \in Messages : timer'[m] = IF m = t THEN "done" ELSE timer[m]
    BY <1>1, <1>5
  <2>2. ASSUME NEW u \in Workers, AtWork(u) PROVE AtWork(u)'
    <3>1. CASE u = Drain
      BY <1>1, <2>2, <3>1 DEF AtWork
    <3>2. CASE u # Drain
      <4>1. u \in Messages
        BY <3>2 DEF Workers
      <4>. QED BY <1>1, <2>1, <2>2, <3>2, <4>1 DEF AtWork
    <3>. QED BY <3>1, <3>2
  <2>3. ASSUME NEW m \in Messages, timer'[m] # "none" PROVE handler'[m] = "buffered"
    <3>1. timer[m] # "none"
      BY <1>1, <2>1, <2>3
    <3>. QED BY <1>1, <3>1 DEF WayInv, JobsOwned
  <2>4. arrived' \subseteq Messages /\ shuttingDown' \in BOOLEAN /\ bucket'.msgs = bucket.msgs
    BY <1>1, <1>5 DEF WayInv, JobTypes
  <2>. QED BY <1>1, <1>3, <1>5, <2>2, <2>3, <2>4, QuietKeepsWay
<1>. QED BY <1>4, <1>5 DEF TimerFlush

\* A window is over.
LEMMA WakeKeepsWay ==
  ASSUME Inv, WayInv, NEW t \in Messages, Wake(t)
  PROVE  WayInv'
<1>1. /\ timer[t] = "sleep" /\ timer' = [timer EXCEPT ![t] = "awake"] /\ timer \in [Messages -> TimerStates]
      /\ UNCHANGED <<arrived, handler, bucket, lock, job, slots, shuttingDown, drain, handed, dropped, failures>>
  BY DEF Wake, Inv, TimerTypes
<1>2. \A m \in Messages : timer'[m] = IF m = t THEN "awake" ELSE timer[m]
  BY <1>1
<1>3. ASSUME NEW u \in Workers, AtWork(u) PROVE AtWork(u)'
  BY <1>1, <1>2, <1>3 DEF AtWork, Workers
<1>4. ASSUME NEW m \in Messages, timer'[m] # "none" PROVE handler'[m] = "buffered"
  BY <1>1, <1>2, <1>4 DEF WayInv, JobsOwned
<1>5. /\ \A m \in Messages : (Taken(m)' <=> Taken(m)) /\ (handler'[m] \in Early => handler[m] \in Early)
      /\ InlineSlots' = InlineSlots /\ drain' \in {"off", "list", "claim", "dispatch", "done"}
      /\ arrived' \subseteq Messages /\ shuttingDown' \in BOOLEAN /\ bucket'.msgs = bucket.msgs
  BY <1>1 DEF Taken, InlineSlots, WayInv, JobTypes
<1>. QED BY <1>1, <1>3, <1>4, <1>5, QuietKeepsWay

\* A command claims the bucket before it runs, or finds nothing to claim.
LEMMA FlushNowKeepsWay ==
  ASSUME Inv, WayInv, NEW m \in Messages, FlushNow(m)
  PROVE  WayInv'
<1>1. /\ handler[m] = "route" /\ lock = 0 /\ timer \in [Messages -> TimerStates]
      /\ handler \in [Messages -> HandlerStates]
      /\ UNCHANGED <<arrived, lock, slots, shuttingDown, drain, handed, dropped, failures>>
  BY DEF FlushNow, Inv, TimerTypes
<1>2. job[m].stage = "none" /\ m # Drain /\ m \in Workers
  BY <1>1, IdleTask
<1>3. ASSUME NEW place \in {"flushing", "run"}, handler' = [handler EXCEPT ![m] = place]
      PROVE  /\ \A k \in Messages : (Taken(k)' <=> Taken(k)) /\ (handler'[k] \in Early => handler[k] \in Early)
             /\ InlineSlots' = InlineSlots
             /\ \A k \in Messages : handler[k] = "buffered" => handler'[k] = "buffered"
             /\ \A k \in Messages : handler[k] = "flushing" => handler'[k] = "flushing"
  <2>1. \A k \in Messages : handler'[k] = IF k = m THEN place ELSE handler[k]
    BY <1>1, <1>3
  <2>. QED BY <1>1, <2>1 DEF Taken, InlineSlots, Early
<1>4. drain' \in {"off", "list", "claim", "dispatch", "done"} /\ arrived' \subseteq Messages
      /\ shuttingDown' \in BOOLEAN
  BY <1>1 DEF WayInv, JobTypes
<1>5. CASE Claim(m, TimersCancelled) /\ Goto(m, "flushing")
  <2>1. /\ Claimable /\ bucket' = NoBucket
        /\ job' = [job EXCEPT ![m] = [NoJob EXCEPT !.stage = "stop", !.msgs = bucket.msgs]]
        /\ timer' = TimersCancelled
        /\ handler' = [handler EXCEPT ![m] = "flushing"]
    BY <1>5 DEF Claim, Goto
  <2>2. /\ \A k \in Messages : (Taken(k)' <=> Taken(k)) /\ (handler'[k] \in Early => handler[k] \in Early)
        /\ InlineSlots' = InlineSlots
        /\ \A k \in Messages : handler[k] = "buffered" => handler'[k] = "buffered"
        /\ \A k \in Messages : handler[k] = "flushing" => handler'[k] = "flushing"
    BY <1>3, <2>1
  <2>3. AtWork(m)'
    BY <1>1, <1>2, <2>1 DEF AtWork
  <2>4. ASSUME NEW u \in Workers \ {m}, AtWork(u) PROVE AtWork(u)'
    <3>1. CASE u = Drain
      BY <1>1, <2>4, <3>1 DEF AtWork
    <3>2. CASE u # Drain
      <4>1. u \in Messages
        BY <3>2 DEF Workers
      <4>2. timer[u] = "dispatch" => timer'[u] = "dispatch"
        BY <2>1, <4>1, CancelledFacts
      <4>. QED BY <2>2, <2>4, <3>2, <4>1, <4>2 DEF AtWork
    <3>. QED BY <3>1, <3>2
  <2>5. ASSUME NEW k \in Messages, timer'[k] # "none" PROVE handler'[k] = "buffered"
    <3>1. timer[k] # "none"
      BY <2>1, <2>5, CancelledFacts
    <3>. QED BY <2>2, <3>1 DEF WayInv, JobsOwned
  <2>. QED BY <1>1, <1>2, <1>4, <2>1, <2>2, <2>3, <2>4, <2>5, ClaimKeepsWay
<1>6. CASE ~Claimable /\ Goto(m, "run") /\ UNCHANGED <<bucket, timer, job>>
  <2>1. handler' = [handler EXCEPT ![m] = "run"] /\ UNCHANGED <<bucket, timer, job>>
    BY <1>6 DEF Goto
  <2>2. /\ \A k \in Messages : (Taken(k)' <=> Taken(k)) /\ (handler'[k] \in Early => handler[k] \in Early)
        /\ InlineSlots' = InlineSlots
        /\ \A k \in Messages : handler[k] = "buffered" => handler'[k] = "buffered"
        /\ \A k \in Messages : handler[k] = "flushing" => handler'[k] = "flushing"
    BY <1>3, <2>1
  <2>3. \A u \in Workers : AtWork(u) => AtWork(u)'
    BY <1>1, <2>1, <2>2 DEF AtWork, Workers
  <2>4. \A k \in Messages : timer'[k] # "none" => handler'[k] = "buffered"
    BY <2>1, <2>2 DEF WayInv, JobsOwned
  <2>. QED BY <1>1, <1>4, <2>1, <2>2, <2>3, <2>4, QuietKeepsWay
<1>. QED BY <1>5, <1>6 DEF FlushNow

\* Shutdown claims the bucket, or finds nothing to claim.
LEMMA DrainKeepsWay ==
  ASSUME Inv, WayInv, Shutdown \/ ListBuckets \/ DrainBucket
  PROVE  WayInv'
<1>1. /\ drain \in {"off", "list", "claim"} /\ UNCHANGED <<arrived, handler, lock, slots, handed, dropped, failures>>
      /\ drain' \in {"list", "claim", "dispatch", "done"} /\ shuttingDown' \in BOOLEAN
      /\ arrived' \subseteq Messages
  BY DEF Shutdown, ListBuckets, DrainBucket, WayInv, JobTypes
<1>2. /\ \A m \in Messages : (Taken(m)' <=> Taken(m)) /\ (handler'[m] \in Early => handler[m] \in Early)
      /\ InlineSlots' = InlineSlots
  BY <1>1 DEF Taken, InlineSlots
<1>3. Drain \in Workers /\ Drain \notin Messages
  BY CoalescerAssumption DEF Workers
<1>4. CASE Claim(Drain, TimersCancelled) /\ drain = "claim" /\ drain' = "dispatch" /\ UNCHANGED shuttingDown
  <2>1. /\ Claimable /\ bucket' = NoBucket
        /\ job' = [job EXCEPT ![Drain] = [NoJob EXCEPT !.stage = "stop", !.msgs = bucket.msgs]]
        /\ timer' = TimersCancelled
    BY <1>4 DEF Claim
  <2>2. job[Drain].stage = "none"
    BY <1>3, <1>4 DEF WayInv, JobsOwned, AtWork
  <2>3. AtWork(Drain)'
    BY <1>4 DEF AtWork
  <2>4. ASSUME NEW u \in Workers \ {Drain}, AtWork(u) PROVE AtWork(u)'
    <3>1. u \in Messages /\ u # Drain
      BY DEF Workers
    <3>2. timer[u] = "dispatch" => timer'[u] = "dispatch"
      BY <2>1, <3>1, CancelledFacts
    <3>. QED BY <1>1, <2>4, <3>1, <3>2 DEF AtWork
  <2>5. ASSUME NEW m \in Messages, timer'[m] # "none" PROVE handler'[m] = "buffered"
    <3>1. timer[m] # "none"
      BY <2>1, <2>5, CancelledFacts
    <3>. QED BY <1>1, <3>1 DEF WayInv, JobsOwned
  <2>. QED BY <1>1, <1>2, <1>3, <1>4, <2>1, <2>2, <2>3, <2>4, <2>5, ClaimKeepsWay
<1>5. CASE UNCHANGED <<bucket, timer, job>>
  <2>1. \A u \in Workers : AtWork(u) => AtWork(u)'
    BY <1>1, <1>5 DEF AtWork, Workers
  <2>2. \A m \in Messages : timer'[m] # "none" => handler'[m] = "buffered"
    BY <1>1, <1>5 DEF WayInv, JobsOwned
  <2>3. bucket'.msgs = bucket.msgs /\ drain' \in {"off", "list", "claim", "dispatch", "done"}
    BY <1>1, <1>5
  <2>. QED BY <1>1, <1>2, <1>5, <2>1, <2>2, <2>3, QuietKeepsWay
<1>. QED BY <1>4, <1>5 DEF Shutdown, ListBuckets, DrainBucket

\* A handler that goes on before its message is taken, without a slot before or after.
LEMMA ArriveKeepsWay ==
  ASSUME Inv, WayInv, NEW m \in Messages, Arrive(m) \/ Probe(m), handler[m] \in {"none", "probe"}
  PROVE  WayInv'
<1>1. /\ UNCHANGED <<bucket, timer, job, slots, shuttingDown, drain, handed, dropped, failures>>
      /\ arrived' \subseteq Messages /\ handler \in [Messages -> HandlerStates]
  BY DEF Arrive, Probe, Inv, TimerTypes, WayInv, JobTypes
<1>2. PICK place \in {"probe", "lock", "slot", "done"} : handler' = [handler EXCEPT ![m] = place]
  BY DEF Arrive, Probe, Goto
<1>3. \A k \in Messages : handler'[k] = IF k = m THEN place ELSE handler[k]
  BY <1>1, <1>2
<1>4. /\ \A k \in Messages : (Taken(k)' <=> Taken(k)) /\ (handler'[k] \in Early => handler[k] \in Early)
      /\ InlineSlots' = InlineSlots
      /\ \A k \in Messages : handler[k] = "buffered" => handler'[k] = "buffered"
      /\ \A k \in Messages : handler[k] = "flushing" => handler'[k] = "flushing"
  BY <1>3 DEF Taken, InlineSlots, Early
<1>5. \A u \in Workers : AtWork(u) => AtWork(u)'
  BY <1>1, <1>4 DEF AtWork, Workers
<1>6. \A k \in Messages : timer'[k] # "none" => handler'[k] = "buffered"
  BY <1>1, <1>4 DEF WayInv, JobsOwned
<1>7. /\ shuttingDown' \in BOOLEAN /\ drain' \in {"off", "list", "claim", "dispatch", "done"}
      /\ bucket'.msgs = bucket.msgs
  BY <1>1 DEF WayInv, JobTypes
<1>. QED BY <1>1, <1>4, <1>5, <1>6, <1>7, QuietKeepsWay

\* A message that was taken starts its timer.
LEMMA BufferedKeepsWay ==
  ASSUME Inv, WayInv, NEW m \in Messages, Buffered(m)
  PROVE  WayInv'
<1>1. /\ handler[m] = "typing" /\ ResetTimer(m) /\ handler' = [handler EXCEPT ![m] = "buffered"]
      /\ UNCHANGED <<arrived, job, slots, shuttingDown, drain, handed, dropped, failures>>
  BY DEF Buffered, Goto
<1>2. bucket \in [msgs : Seq(Messages), timer : Messages \cup {0}] /\ handler \in [Messages -> HandlerStates]
  BY DEF Inv, TimerTypes
<1>3. bucket'.msgs = bucket.msgs
  BY <1>1, <1>2 DEF ResetTimer
<1>4. timer'[m] = "sleep" /\ \A k \in Messages \ {m} : timer'[k] = TimersCancelled[k]
  BY <1>1 DEF ResetTimer, TimersCancelled
<1>5. \A k \in Messages : handler'[k] = IF k = m THEN "buffered" ELSE handler[k]
  BY <1>1, <1>2
<1>6. /\ \A k \in Messages : (Taken(k)' <=> Taken(k)) /\ (handler'[k] \in Early => handler[k] \in Early)
      /\ InlineSlots' = InlineSlots
      /\ \A k \in Messages : handler[k] = "buffered" => handler'[k] = "buffered"
      /\ \A k \in Messages : handler[k] = "flushing" => handler'[k] = "flushing"
  BY <1>1, <1>5 DEF Taken, InlineSlots, Early
<1>7. timer[m] = "none"
  BY <1>1 DEF WayInv, JobsOwned
<1>8. ASSUME NEW u \in Workers, AtWork(u) PROVE AtWork(u)'
  <2>1. CASE u = Drain
    BY <1>1, <1>8, <2>1 DEF AtWork
  <2>2. CASE u # Drain
    <3>1. u \in Messages
      BY <2>2 DEF Workers
    <3>2. timer[u] = "dispatch" => timer'[u] = "dispatch"
      BY <1>4, <1>7, <3>1, CancelledFacts
    <3>. QED BY <1>6, <1>8, <2>2, <3>1, <3>2 DEF AtWork
  <2>. QED BY <2>1, <2>2
<1>9. ASSUME NEW k \in Messages, timer'[k] # "none" PROVE handler'[k] = "buffered"
  <2>1. k = m \/ timer[k] # "none"
    BY <1>4, <1>9, CancelledFacts
  <2>. QED BY <1>5, <1>6, <2>1 DEF WayInv, JobsOwned
<1>10. /\ shuttingDown' \in BOOLEAN /\ drain' \in {"off", "list", "claim", "dispatch", "done"}
       /\ arrived' \subseteq Messages
  BY <1>1 DEF WayInv, JobTypes
<1>. QED BY <1>1, <1>3, <1>6, <1>8, <1>9, <1>10, QuietKeepsWay

\* A message that is taken is in the bucket, and nowhere else.
LEMMA BufferKeepsWay ==
  ASSUME Inv, WayInv, NEW m \in Messages, Buffer(m)
  PROVE  WayInv'
<1>1. /\ handler[m] = "lock" /\ handler' = [handler EXCEPT ![m] = "typing"]
      /\ bucket' = [bucket EXCEPT !.msgs = Append(bucket.msgs, m)]
      /\ UNCHANGED <<arrived, timer, job, slots, shuttingDown, drain, handed, dropped, failures>>
  BY DEF Buffer, Goto
<1>2. bucket \in [msgs : Seq(Messages), timer : Messages \cup {0}] /\ handler \in [Messages -> HandlerStates]
  BY DEF Inv, TimerTypes
<1>3. bucket'.msgs = Append(bucket.msgs, m) /\ bucket.msgs \in Seq(Messages)
  BY <1>1, <1>2
<1>4. \A k \in Messages : handler'[k] = IF k = m THEN "typing" ELSE handler[k]
  BY <1>1, <1>2
<1>5. /\ Nowhere(m) /\ m \notin dropped /\ handed[m] = 0 /\ Once(bucket.msgs)
      /\ \A w \in Workers : Once(job[w].msgs)
  BY <1>1 DEF WayInv, PlaceInv, Taken, Early
<1>6. Once(bucket'.msgs) /\ ToSet(bucket'.msgs) = ToSet(bucket.msgs) \cup {m}
  BY <1>3, <1>5, OnceAppend DEF Nowhere, InBucket
<1>7. JobTypes'
  BY <1>1 DEF WayInv, JobTypes
<1>8. JobsOwned'
  <2>1. \A u \in Workers : AtWork(u) => AtWork(u)'
    BY <1>1, <1>4 DEF AtWork, Workers
  <2>2. \A k \in Messages : timer'[k] # "none" => handler'[k] = "buffered"
    BY <1>1, <1>4 DEF WayInv, JobsOwned
  <2>. QED BY <1>1, <2>1, <2>2 DEF WayInv, JobsOwned, NoJob
<1>9. PlaceInv'
  <2>1. ASSUME NEW k \in Messages
        PROVE  /\ Taken(k)' => OnePlace(k)'
               /\ ~Taken(k)' => Nowhere(k)' /\ k \notin dropped'
               /\ handler'[k] \in Early => handed'[k] = 0
    <3>1. \A w \in Workers : InJob(w, k)' <=> InJob(w, k)
      BY <1>1 DEF InJob
    <3>2. CASE k = m
      <4>1. InBucket(m)' /\ \A w \in Workers : ~InJob(w, m)'
        BY <1>5, <1>6, <3>1, <3>2 DEF InBucket, Nowhere
      <4>2. OnePlace(m)'
        BY <1>1, <1>5, <4>1 DEF OnePlace
      <4>3. Taken(m)' /\ handler'[m] \notin Early
        BY <1>4 DEF Taken, Early
      <4>. QED BY <3>2, <4>2, <4>3
    <3>3. CASE k # m
      <4>1. InBucket(k)' <=> InBucket(k)
        BY <1>6, <3>3 DEF InBucket
      <4>2. (OnePlace(k)' <=> OnePlace(k)) /\ (Nowhere(k)' <=> Nowhere(k))
        BY <1>1, <3>1, <4>1 DEF OnePlace, Nowhere
      <4>3. (Taken(k)' <=> Taken(k)) /\ handler'[k] = handler[k]
        BY <1>4, <3>3 DEF Taken
      <4>. QED BY <1>1, <4>2, <4>3 DEF WayInv, PlaceInv
    <3>. QED BY <3>2, <3>3
  <2>. QED BY <1>1, <1>5, <1>6, <2>1 DEF PlaceInv
<1>10. SlotInv'
  <2>1. InlineSlots' = InlineSlots
    BY <1>1, <1>4 DEF InlineSlots
  <2>2. JobSlots' = JobSlots
    BY <1>1 DEF JobSlots
  <2>. QED BY <1>1, <2>1, <2>2 DEF WayInv, SlotInv
<1>. QED BY <1>7, <1>8, <1>9, <1>10 DEF WayInv

\* A message routed inline goes on or ends: messages that were taken do not notice.
LEMMA InlineMoves ==
  ASSUME Inv, WayInv, NEW m \in Messages, handler[m] \in {"slot", "run", "ending"},
         NEW place \in {"route", "run", "done"}, handler' = [handler EXCEPT ![m] = place],
         UNCHANGED <<arrived, bucket, lock, timer, job, shuttingDown, drain, dropped>>,
         handed' \in [Messages -> Nat], \A k \in Messages \ {m} : handed'[k] = handed[k],
         slots' \in 0..(MaxConcurrent + failures'), failures' \in 0..MaxFailures
  PROVE  JobTypes' /\ JobsOwned' /\ PlaceInv'
<1>1. \A k \in Messages : handler'[k] = IF k = m THEN place ELSE handler[k]
  BY DEF Inv, TimerTypes
<1>2. JobTypes'
  BY DEF WayInv, JobTypes
<1>3. JobsOwned'
  <2>1. \A u \in Workers : AtWork(u) => AtWork(u)'
    BY <1>1 DEF AtWork, Workers
  <2>2. \A k \in Messages : timer'[k] # "none" => handler'[k] = "buffered"
    BY <1>1 DEF WayInv, JobsOwned
  <2>. QED BY <2>1, <2>2 DEF WayInv, JobsOwned, NoJob
<1>4. PlaceInv'
  <2>1. ASSUME NEW k \in Messages
        PROVE  /\ Taken(k)' => OnePlace(k)'
               /\ ~Taken(k)' => Nowhere(k)' /\ k \notin dropped'
               /\ handler'[k] \in Early => handed'[k] = 0
    <3>1. Nowhere(k)' <=> Nowhere(k)
      BY DEF InJob, InBucket, Nowhere
    <3>2. CASE k = m
      BY <1>1, <3>1, <3>2 DEF Taken, Early, WayInv, PlaceInv
    <3>3. CASE k # m
      <4>1. OnePlace(k)' <=> OnePlace(k)
        BY <3>3 DEF OnePlace, Nowhere, InJob, InBucket
      <4>2. (Taken(k)' <=> Taken(k)) /\ handler'[k] = handler[k] /\ handed'[k] = handed[k]
        BY <1>1, <3>3 DEF Taken
      <4>. QED BY <3>1, <4>1, <4>2 DEF WayInv, PlaceInv
    <3>. QED BY <3>2, <3>3
  <2>. QED BY <2>1 DEF WayInv, PlaceInv
<1>. QED BY <1>2, <1>3, <1>4

\* How many slots are held inline before and after.
LEMMA InlineCount ==
  ASSUME Inv, NEW m \in Messages, NEW place, handler' = [handler EXCEPT ![m] = place]
  PROVE  /\ Cardinality(InlineSlots) \in Nat /\ Cardinality(InlineSlots') \in Nat
         /\ m \in InlineSlots /\ place \notin {"route", "flushing", "run", "ending"} =>
              Cardinality(InlineSlots) = Cardinality(InlineSlots') + 1
         /\ m \notin InlineSlots /\ place \in {"route", "flushing", "run", "ending"} =>
              Cardinality(InlineSlots') = Cardinality(InlineSlots) + 1
         /\ m \notin InlineSlots /\ place \notin {"route", "flushing", "run", "ending"} =>
              Cardinality(InlineSlots') = Cardinality(InlineSlots)
<1>1. \A k \in Messages : handler'[k] = IF k = m THEN place ELSE handler[k]
  BY DEF Inv, TimerTypes
<1>2. /\ InlineSlots \in SUBSET Messages /\ InlineSlots' \in SUBSET Messages
      /\ IsFiniteSet(InlineSlots) /\ Cardinality(InlineSlots) \in Nat /\ Cardinality(InlineSlots') \in Nat
  BY Finitely DEF InlineSlots
<1>3. ASSUME m \in InlineSlots, place \notin {"route", "flushing", "run", "ending"}
      PROVE  Cardinality(InlineSlots) = Cardinality(InlineSlots') + 1
  <2>1. InlineSlots' = InlineSlots \ {m}
    BY <1>1, <1>3 DEF InlineSlots
  <2>2. Cardinality(InlineSlots \ {m}) = Cardinality(InlineSlots) - 1
    BY <1>2, <1>3, FS_RemoveElement
  <2>. QED BY <1>2, <2>1, <2>2
<1>4. ASSUME m \notin InlineSlots, place \in {"route", "flushing", "run", "ending"}
      PROVE  Cardinality(InlineSlots') = Cardinality(InlineSlots) + 1
  <2>1. InlineSlots' = InlineSlots \cup {m}
    BY <1>1, <1>4 DEF InlineSlots
  <2>2. Cardinality(InlineSlots \cup {m}) = Cardinality(InlineSlots) + 1
    BY <1>2, <1>4, FS_AddElement
  <2>. QED BY <2>1, <2>2
<1>5. ASSUME m \notin InlineSlots, place \notin {"route", "flushing", "run", "ending"}
      PROVE  Cardinality(InlineSlots') = Cardinality(InlineSlots)
  <2>1. InlineSlots' = InlineSlots
    BY <1>1, <1>5 DEF InlineSlots
  <2>. QED BY <2>1
<1>. QED BY <1>2, <1>3, <1>4, <1>5

\* A message routed inline takes a slot, is turned away, or meets an exception.
LEMMA TakeSlotKeepsWay ==
  ASSUME Inv, WayInv, NEW m \in Messages, TakeSlot(m)
  PROVE  WayInv'
<1>1. /\ handler[m] = "slot" /\ handed \in [Messages -> Nat]
      /\ UNCHANGED <<arrived, bucket, lock, timer, job, shuttingDown, drain, handed, dropped>>
  BY DEF TakeSlot, WayInv, JobTypes
<1>2. m \notin InlineSlots
  BY <1>1 DEF InlineSlots
<1>3. /\ slots \in Nat /\ slots <= MaxConcurrent + failures /\ MaxConcurrent \in Nat
      /\ failures \in Nat /\ failures <= MaxFailures /\ MaxFailures \in Nat
      /\ Cardinality(InlineSlots) \in Nat /\ Cardinality(JobSlots) \in Nat
  BY SlotCounts
<1>4. /\ Cardinality(InlineSlots) + Cardinality(JobSlots) <= slots
      /\ slots <= Cardinality(InlineSlots) + Cardinality(JobSlots) + failures
  BY DEF WayInv, SlotInv
<1>5. JobSlots' = JobSlots
  BY <1>1 DEF JobSlots
<1>6. ASSUME NEW place \in {"route", "run", "done"}, handler' = [handler EXCEPT ![m] = place],
             slots' \in 0..(MaxConcurrent + failures'), failures' \in 0..MaxFailures
      PROVE  JobTypes' /\ JobsOwned' /\ PlaceInv'
  <2>1. handed' \in [Messages -> Nat] /\ \A k \in Messages \ {m} : handed'[k] = handed[k]
    BY <1>1
  <2>. QED BY <1>1, <1>6, <2>1, InlineMoves
<1>7. CASE /\ SlotFree /\ slots' = slots + 1
           /\ Goto(m, IF m \in Commands THEN "route" ELSE "run") /\ UNCHANGED failures
  <2>1. PICK place \in {"route", "run"} : handler' = [handler EXCEPT ![m] = place]
    BY <1>7 DEF Goto
  <2>2. slots < MaxConcurrent /\ slots' = slots + 1 /\ failures' = failures
    BY <1>7 DEF SlotFree
  <2>3. slots' \in 0..(MaxConcurrent + failures') /\ failures' \in 0..MaxFailures
    BY <1>3, <2>2
  <2>4. JobTypes' /\ JobsOwned' /\ PlaceInv'
    BY <1>6, <2>1, <2>3
  <2>5. Cardinality(InlineSlots') = Cardinality(InlineSlots) + 1
    BY <1>2, <2>1, InlineCount
  <2>6. SlotInv'
    BY <1>3, <1>4, <1>5, <2>2, <2>5 DEF SlotInv
  <2>. QED BY <2>4, <2>6 DEF WayInv
<1>8. CASE /\ Goto(m, "done")
           /\ \/ failures' = failures /\ slots' = slots
              \/ failures < MaxFailures /\ failures' = failures + 1 /\ slots' \in {slots, slots + 1}
  <2>1. handler' = [handler EXCEPT ![m] = "done"]
    BY <1>8 DEF Goto
  <2>2. slots' \in 0..(MaxConcurrent + failures') /\ failures' \in 0..MaxFailures
    BY <1>3, <1>8
  <2>3. JobTypes' /\ JobsOwned' /\ PlaceInv'
    BY <1>6, <2>1, <2>2
  <2>4. Cardinality(InlineSlots') = Cardinality(InlineSlots)
    <3>1. "done" \notin {"route", "flushing", "run", "ending"}
      OBVIOUS
    <3>. QED BY <1>2, <2>1, <3>1, InlineCount
  <2>5. \/ slots' = slots /\ failures' = failures
        \/ failures' = failures + 1 /\ (slots' = slots \/ slots' = slots + 1)
    BY <1>8
  <2>6. SlotInv'
    BY <1>3, <1>4, <1>5, <2>4, <2>5 DEF SlotInv
  <2>. QED BY <2>3, <2>6 DEF WayInv
<1>. QED BY <1>7, <1>8 DEF TakeSlot, Fails

\* A message routed inline is done, and gives its slot back or leaks it.
LEMMA FinishKeepsWay ==
  ASSUME Inv, WayInv, NEW m \in Messages, Finish(m)
  PROVE  WayInv'
<1>1. /\ handler[m] \in {"run", "ending"} /\ handler' = [handler EXCEPT ![m] = "done"]
      /\ handed' \in {handed, [handed EXCEPT ![m] = @ + 1]} /\ handed \in [Messages -> Nat]
      /\ UNCHANGED <<arrived, bucket, lock, timer, job, shuttingDown, drain, dropped>>
  BY DEF Finish, Goto, WayInv, JobTypes
<1>2. m \in InlineSlots
  BY <1>1 DEF InlineSlots
<1>3. /\ slots \in Nat /\ slots <= MaxConcurrent + failures /\ MaxConcurrent \in Nat
      /\ failures \in Nat /\ failures <= MaxFailures /\ MaxFailures \in Nat
      /\ Cardinality(InlineSlots) \in Nat /\ Cardinality(JobSlots) \in Nat
  BY SlotCounts
<1>4. /\ Cardinality(InlineSlots) + Cardinality(JobSlots) <= slots
      /\ slots <= Cardinality(InlineSlots) + Cardinality(JobSlots) + failures
  BY DEF WayInv, SlotInv
<1>5. JobSlots' = JobSlots
  BY <1>1 DEF JobSlots
<1>6. Cardinality(InlineSlots') \in Nat /\ Cardinality(InlineSlots) = Cardinality(InlineSlots') + 1
  <2>1. "done" \notin {"route", "flushing", "run", "ending"} /\ handler' = [handler EXCEPT ![m] = "done"]
    BY <1>1
  <2>. QED BY <1>2, <2>1, InlineCount
<1>7. \/ /\ slots' = slots - 1 /\ failures' = failures
      \/ /\ slots' \in {slots, slots - 1} /\ failures < MaxFailures /\ failures' = failures + 1
  BY DEF Finish, Fails
<1>8. slots' \in 0..(MaxConcurrent + failures') /\ failures' \in 0..MaxFailures
  BY <1>3, <1>4, <1>6, <1>7
<1>9. JobTypes' /\ JobsOwned' /\ PlaceInv'
  <2>1. handed' \in [Messages -> Nat] /\ \A k \in Messages \ {m} : handed'[k] = handed[k]
    BY <1>1
  <2>. QED BY <1>1, <1>8, <2>1, InlineMoves
<1>10. SlotInv'
  BY <1>3, <1>4, <1>5, <1>6, <1>7 DEF SlotInv
<1>. QED BY <1>9, <1>10 DEF WayInv

\* A command is cancelled: what its dispatch had in hand is handed on, the rest is dropped, and
\* the command keeps its own slot until its handler ends.
LEMMA CancelKeepsWay ==
  ASSUME Inv, WayInv, NEW c \in Messages, NEW m \in Messages, CancelTracked(c, m)
  PROVE  WayInv'
<1>1. /\ handler[m] \in {"route", "flushing"} /\ handler' = [handler EXCEPT ![m] = "ending"]
      /\ handed' = [k \in Messages |-> IF k \in InHand(m) THEN handed[k] + 1 ELSE handed[k]]
      /\ dropped' = dropped \cup (ToSet(job[m].msgs) \ InHand(m))
      /\ SlotsCut(m) /\ job' = [job EXCEPT ![m] = NoJob]
      /\ UNCHANGED <<arrived, bucket, lock, timer, shuttingDown, drain>>
  BY DEF CancelTracked, Goto
<1>2. m \in Workers /\ m # Drain /\ handler \in [Messages -> HandlerStates]
  BY CoalescerAssumption DEF Workers, Inv, TimerTypes
<1>3. \A k \in Messages : handler'[k] = IF k = m THEN "ending" ELSE handler[k]
  BY <1>1, <1>2
<1>4. job'[m] = NoJob /\ ~job'[m].slot /\ \A u \in Workers \ {m} : job'[u] = job[u]
  BY <1>1, <1>2 DEF WayInv, JobTypes, NoJob
<1>5. /\ \A k \in Messages : timer'[k] # "none" => handler'[k] = "buffered"
      /\ \A k \in Messages : (Taken(k)' <=> Taken(k)) /\ (handler'[k] \in Early => handler[k] \in Early)
      /\ drain' \in {"off", "list", "claim", "dispatch", "done"}
      /\ InlineSlots' = InlineSlots
  <2>1. \A k \in Messages : timer'[k] # "none" => handler'[k] = "buffered"
    BY <1>1, <1>3 DEF WayInv, JobsOwned
  <2>2. \A k \in Messages : (Taken(k)' <=> Taken(k)) /\ (handler'[k] \in Early => handler[k] \in Early)
    BY <1>1, <1>3 DEF Taken, Early
  <2>3. InlineSlots' = InlineSlots
    BY <1>1, <1>3 DEF InlineSlots
  <2>. QED BY <1>1, <2>1, <2>2, <2>3 DEF WayInv, JobTypes
<1>6. ASSUME NEW u \in Workers \ {m}, AtWork(u) PROVE AtWork(u)'
  BY <1>1, <1>3, <1>6 DEF AtWork, Workers
<1>7. /\ job[m].msgs \in Seq(Messages) /\ (job[m].stage \in {"each", "bundle"} => ~job[m].slot)
      /\ ToSet(job[m].msgs) \in SUBSET Messages
  <2>1. job[m].msgs \in Seq(Messages) /\ (job[m].stage \in {"each", "bundle"} => ~job[m].slot)
    BY <1>2, JobTyped
  <2>. QED BY <2>1 DEF ToSet
<1>8. InHand(m) \in SUBSET ToSet(job[m].msgs)
  <2>1. CASE job[m].stage \in {"route one", "route bundle"}
    BY <1>2, <2>1, BatchAndRest DEF InHand
  <2>2. CASE job[m].stage \notin {"route one", "route bundle"}
    BY <2>2 DEF InHand
  <2>. QED BY <2>1, <2>2
<1>9. \/ failures' = failures /\ slots' = Released(m)
      \/ /\ failures < MaxFailures /\ failures' = failures + 1
         /\ \/ job[m].slot /\ slots' = slots
            \/ ~job[m].slot /\ slots' = slots + 1
  BY <1>1, <1>7 DEF SlotsCut, Fails
<1>10. slots' \in 0..(MaxConcurrent + failures') /\ failures' \in 0..MaxFailures
  <2>1. /\ slots \in Nat /\ slots <= MaxConcurrent + failures /\ MaxConcurrent \in Nat
        /\ failures \in Nat /\ failures <= MaxFailures /\ MaxFailures \in Nat
    BY SlotCounts
  <2>2. Released(m) \in 0..(MaxConcurrent + failures)
    BY <1>2, ReleasedFacts
  <2>. QED BY <1>9, <2>1, <2>2
<1>11. JobTypes' /\ JobsOwned' /\ PlaceInv'
  <2>1. PICK L : L = ToSet(job[m].msgs) \ InHand(m)
    OBVIOUS
  <2>2. /\ InHand(m) \in SUBSET Messages /\ L \in SUBSET Messages
        /\ ToSet(job[m].msgs) = InHand(m) \cup L /\ InHand(m) \cap L = {}
        /\ dropped' = dropped \cup L
    BY <1>1, <1>7, <1>8, <2>1
  <2>. QED BY <1>1, <1>2, <1>5, <1>6, <1>10, <2>2, OverKeepsWay
<1>12. SlotInv'
  BY <1>2, <1>4, <1>5, <1>9, FreedKeepsSlots
<1>. QED BY <1>11, <1>12 DEF WayInv

\* The start: nothing has arrived.
LEMMA InitWay == Init => WayInv
<1>. SUFFICES ASSUME Init PROVE WayInv
  OBVIOUS
<1>1. NoJob \in [stage : Stages, msgs : Seq(Messages), slot : BOOLEAN]
  BY DEF NoJob, Stages
<1>2. \A w \in Workers : job[w] = NoJob
  BY DEF Init
<1>3. JobTypes
  <2>1. slots \in 0..(MaxConcurrent + failures) /\ failures \in 0..MaxFailures
    BY CoalescerAssumption DEF Init
  <2>2. job \in [Workers -> [stage : Stages, msgs : Seq(Messages), slot : BOOLEAN]]
    BY <1>1 DEF Init
  <2>3. handed \in [Messages -> Nat]
    BY DEF Init
  <2>. QED BY <2>1, <2>2, <2>3 DEF JobTypes, Init
<1>4. JobsOwned
  BY <1>2 DEF JobsOwned, NoJob, Init
<1>5. PlaceInv
  <2>1. bucket.msgs = <<>> /\ \A w \in Workers : job[w].msgs = <<>>
    BY <1>2 DEF NoJob, NoBucket, Init
  <2>2. \A m \in Messages : Nowhere(m)
    BY <2>1, OnceFew DEF Nowhere, InBucket, InJob
  <2>. QED BY <2>1, <2>2, OnceFew DEF PlaceInv, Taken, Early, Init
<1>6. SlotInv
  <2>1. InlineSlots = {} /\ JobSlots = {}
    BY <1>2 DEF InlineSlots, JobSlots, NoJob, Init
  <2>2. Cardinality(InlineSlots) = 0 /\ Cardinality(JobSlots) = 0
    BY <2>1, FS_EmptySet
  <2>. QED BY <2>2 DEF SlotInv, Init
<1>. QED BY <1>3, <1>4, <1>5, <1>6 DEF WayInv

\* A message that has not arrived has no handler.
Unarrived == \A m \in Messages : m \notin arrived => handler[m] = "none"

\* Handlers move only once their message has arrived.
LEMMA NextKeepsUnarrived == Inv /\ Unarrived /\ [Next]_vars => Unarrived'
<1>. SUFFICES ASSUME Inv, Unarrived, [Next]_vars PROVE Unarrived'
  OBVIOUS
<1>1. handler \in [Messages -> HandlerStates]
  BY DEF Inv, TimerTypes
<1>2. ASSUME NEW m \in Messages, NEW place, handler' = [handler EXCEPT ![m] = place],
             \/ arrived' = arrived \cup {m}
             \/ arrived' = arrived /\ handler[m] # "none"
      PROVE  Unarrived'
  <2>1. \A k \in Messages : handler'[k] = IF k = m THEN place ELSE handler[k]
    BY <1>1, <1>2
  <2>. QED BY <1>2, <2>1 DEF Unarrived
<1>3. ASSUME NEW m \in Messages, Arrive(m) PROVE Unarrived'
  <2>1. PICK place : handler' = [handler EXCEPT ![m] = place]
    BY <1>3 DEF Arrive, Goto
  <2>2. arrived' = arrived \cup {m}
    BY <1>3 DEF Arrive
  <2>. QED BY <1>2, <2>1, <2>2
<1>4. ASSUME NEW m \in Messages, Handle(m) PROVE Unarrived'
  <2>1. PICK place : handler' = [handler EXCEPT ![m] = place]
    BY <1>4 DEF Handle, Probe, Buffer, Buffered, TakeSlot, FlushNow, Finish, Goto
  <2>2. arrived' = arrived /\ handler[m] # "none"
    BY <1>4 DEF Handle, Probe, Buffer, Buffered, TakeSlot, FlushNow, Finish
  <2>. QED BY <1>2, <2>1, <2>2
<1>5. ASSUME NEW m \in Messages, Time(m) PROVE Unarrived'
  BY <1>5 DEF Time, Wake, TimerFlush, Unarrived
<1>6. ASSUME NEW w \in Workers, Dispatch(w) PROVE Unarrived'
  <2>1. arrived' = arrived
    BY <1>6 DEF Dispatch, StopTyping, Gate, AcquireSlot, Routed, AcquireRaises, ReleaseRaises, HandOn
  <2>2. CASE handler' = handler
    BY <2>1, <2>2 DEF Unarrived
  <2>3. CASE Return(w)
    <3>1. \A k \in Messages : handler[k] = "none" => handler'[k] = "none"
      BY <2>3 DEF Return
    <3>. QED BY <2>1, <3>1 DEF Unarrived
  <2>. QED BY <1>6, <2>2, <2>3 DEF Dispatch, StopTyping, Gate, AcquireSlot, Routed, AcquireRaises, ReleaseRaises
<1>7. CASE Shutdown \/ ListBuckets \/ DrainBucket \/ UNCHANGED vars
  BY <1>7 DEF Shutdown, ListBuckets, DrainBucket, vars, Unarrived
<1>8. ASSUME NEW c \in Messages, NEW m \in Messages, CancelTracked(c, m) PROVE Unarrived'
  <2>1. /\ handler' = [handler EXCEPT ![m] = "ending"] /\ arrived' = arrived
        /\ handler[m] \in {"route", "flushing"}
    BY <1>8 DEF CancelTracked, Goto
  <2>. QED BY <1>2, <2>1
<1>. QED BY <1>3, <1>4, <1>5, <1>6, <1>7, <1>8 DEF Next, Idle

\* Messages and slots keep to their way, whatever step is taken.
LEMMA NextKeepsWay == Inv /\ WayInv /\ Unarrived /\ [Next]_vars => WayInv'
<1>. SUFFICES ASSUME Inv, WayInv, Unarrived, [Next]_vars PROVE WayInv'
  OBVIOUS
<1>1. ASSUME NEW m \in Messages, Arrive(m) PROVE WayInv'
  <2>1. handler[m] = "none"
    BY <1>1 DEF Arrive, Unarrived
  <2>. QED BY <1>1, <2>1, ArriveKeepsWay
<1>2. ASSUME NEW m \in Messages, Handle(m) PROVE WayInv'
  <2>1. CASE Probe(m)
    BY <2>1, ArriveKeepsWay DEF Probe
  <2>. QED BY <1>2, <2>1, BufferKeepsWay, BufferedKeepsWay, TakeSlotKeepsWay, FlushNowKeepsWay,
              FinishKeepsWay DEF Handle
<1>3. ASSUME NEW m \in Messages, Time(m) PROVE WayInv'
  BY <1>3, WakeKeepsWay, TimerFlushKeepsWay DEF Time
<1>4. ASSUME NEW w \in Workers, Dispatch(w) PROVE WayInv'
  BY <1>4, DispatchKeepsWay
<1>5. CASE Shutdown \/ ListBuckets \/ DrainBucket
  BY <1>5, DrainKeepsWay
<1>6. CASE UNCHANGED vars
  <2>1. /\ UNCHANGED <<arrived, handler, bucket, timer, job, slots, shuttingDown, drain, handed, dropped, failures>>
    BY <1>6 DEF vars
  <2>2. /\ \A u \in Workers : AtWork(u) => AtWork(u)'
        /\ \A m \in Messages : timer'[m] # "none" => handler'[m] = "buffered"
        /\ \A m \in Messages : (Taken(m)' <=> Taken(m)) /\ (handler'[m] \in Early => handler[m] \in Early)
        /\ InlineSlots' = InlineSlots
    BY <2>1 DEF AtWork, Taken, InlineSlots, WayInv, JobsOwned
  <2>3. /\ arrived' \subseteq Messages /\ shuttingDown' \in BOOLEAN /\ bucket'.msgs = bucket.msgs
        /\ drain' \in {"off", "list", "claim", "dispatch", "done"}
    BY <2>1 DEF WayInv, JobTypes
  <2>. QED BY <2>1, <2>2, <2>3, QuietKeepsWay
<1>7. ASSUME NEW c \in Messages, NEW m \in Messages, CancelTracked(c, m) PROVE WayInv'
  BY <1>7, CancelKeepsWay
<1>. QED BY <1>1, <1>2, <1>3, <1>4, <1>5, <1>6, <1>7 DEF Next, Idle

\* A dropped message has its cause, and the causes stay: failures are only added, and a
\* /cancel that runs comes to its end.
LEMMA NextKeepsCause ==
  Inv /\ WayInv /\ Unarrived /\ DroppedForCause /\ [Next]_vars => DroppedForCause'
<1>. SUFFICES ASSUME Inv, WayInv, Unarrived, DroppedForCause, [Next]_vars PROVE DroppedForCause'
  OBVIOUS
<1> DEFINE Ran(c) == handler[c] \in {"run", "done"}
<1>1. handler \in [Messages -> HandlerStates] /\ failures \in Nat /\ Cancels \subseteq Messages
      /\ Cancels \subseteq Commands
  BY SlotCounts, CoalescerAssumption DEF Inv, TimerTypes
<1>2. ASSUME dropped' = dropped, failures' = failures \/ failures' = failures + 1,
             \A c \in Cancels : Ran(c) => Ran(c)'
      PROVE  DroppedForCause'
  BY <1>1, <1>2 DEF DroppedForCause
<1>3. ASSUME failures' = failures + 1 PROVE DroppedForCause'
  BY <1>1, <1>3 DEF DroppedForCause
<1>4. ASSUME NEW m \in Messages, Arrive(m) PROVE DroppedForCause'
  <2>1. dropped' = dropped /\ failures' = failures /\ handler[m] = "none"
    BY <1>4 DEF Arrive, Unarrived
  <2>2. \A c \in Cancels : Ran(c) => Ran(c)'
    BY <1>1, <1>4, <2>1 DEF Arrive, Goto
  <2>. QED BY <1>2, <2>1, <2>2
<1>5. ASSUME NEW m \in Messages, Handle(m) PROVE DroppedForCause'
  <2>1. dropped' = dropped /\ (failures' = failures \/ failures' = failures + 1)
    BY <1>5 DEF Handle, Probe, Buffer, Buffered, TakeSlot, FlushNow, Finish, Fails
  <2>2. \A c \in Cancels : Ran(c) => Ran(c)'
    BY <1>1, <1>5 DEF Handle, Probe, Buffer, Buffered, TakeSlot, FlushNow, Finish, Goto
  <2>. QED BY <1>2, <2>1, <2>2
<1>6. ASSUME NEW m \in Messages, Time(m) PROVE DroppedForCause'
  BY <1>2, <1>6 DEF Time, Wake, TimerFlush
<1>7. ASSUME NEW w \in Workers, Dispatch(w) PROVE DroppedForCause'
  <2>1. CASE AcquireRaises(w) \/ ReleaseRaises(w)
    BY <1>3, <2>1 DEF AcquireRaises, ReleaseRaises, Fails
  <2>2. CASE StopTyping(w) \/ Gate(w) \/ AcquireSlot(w)
    BY <1>2, <2>2 DEF StopTyping, Gate, AcquireSlot
  <2>3. CASE Routed(w)
    <3>1. dropped' = dropped /\ failures' = failures /\ (handler' = handler \/ Return(w))
      BY <2>3 DEF Routed
    <3>2. \A c \in Cancels : Ran(c) => Ran(c)'
      BY <1>1, <3>1 DEF Return
    <3>. QED BY <1>2, <3>1, <3>2
  <2>. QED BY <1>7, <2>1, <2>2, <2>3 DEF Dispatch
<1>8. ASSUME NEW c \in Messages, NEW m \in Messages, CancelTracked(c, m) PROVE DroppedForCause'
  <2>1. c \in Cancels /\ handler[c] = "run" /\ m \notin Cancels /\ handler' = [handler EXCEPT ![m] = "ending"]
    BY <1>8 DEF CancelTracked, Goto
  <2>2. handler'[c] = "run"
    BY <1>1, <2>1
  <2>. QED BY <2>1, <2>2 DEF DroppedForCause
<1>9. CASE Shutdown \/ ListBuckets \/ DrainBucket \/ UNCHANGED vars
  BY <1>2, <1>9 DEF Shutdown, ListBuckets, DrainBucket, vars
<1>. QED BY <1>4, <1>5, <1>6, <1>7, <1>8, <1>9 DEF Next, Idle

\* What an execution keeps.
LEMMA WayIsKept == Spec => [](Inv /\ WayInv /\ Unarrived /\ DroppedForCause)
<1>1. Init => Inv /\ WayInv /\ Unarrived /\ DroppedForCause
  BY InitInv, InitWay DEF Init, Unarrived, DroppedForCause
<1>2. Inv /\ WayInv /\ Unarrived /\ DroppedForCause /\ [Next]_vars
        => (Inv /\ WayInv /\ Unarrived /\ DroppedForCause)'
  BY NextKeepsInv, NextKeepsWay, NextKeepsUnarrived, NextKeepsCause
<1>. QED BY <1>1, <1>2, PTL DEF Spec

\* A message that was taken is in one place.
LEMMA OnePlaceIsOne ==
  ASSUME WayInv, NEW m \in Messages, OnePlace(m)
  PROVE  Cardinality({w \in Workers : InJob(w, m)})
           + (IF m \in ToSet(bucket.msgs) THEN 1 ELSE 0)
           + (IF m \in dropped THEN 1 ELSE 0) + handed[m] = 1
<1>1. PICK S : S = {w \in Workers : InJob(w, m)}
  OBVIOUS
<1>2. InBucket(m) <=> m \in ToSet(bucket.msgs)
  BY DEF InBucket
<1>3. (\A w \in Workers : ~InJob(w, m)) => Cardinality(S) = 0
  <2>1. (\A w \in Workers : ~InJob(w, m)) => S = {}
    BY <1>1
  <2>. QED BY <2>1, FS_EmptySet
<1>4. CASE InBucket(m) /\ (\A w \in Workers : ~InJob(w, m)) /\ m \notin dropped /\ handed[m] = 0
  BY <1>1, <1>2, <1>3, <1>4
<1>5. CASE /\ \E w \in Workers : InJob(w, m) /\ \A u \in Workers \ {w} : ~InJob(u, m)
           /\ ~InBucket(m) /\ m \notin dropped /\ handed[m] = 0
  <2>1. PICK w \in Workers : InJob(w, m) /\ \A u \in Workers \ {w} : ~InJob(u, m)
    BY <1>5
  <2>2. S = {w}
    BY <1>1, <2>1
  <2>3. Cardinality(S) = 1
    BY <2>2, FS_Singleton
  <2>. QED BY <1>1, <1>2, <1>5, <2>3
<1>6. CASE Nowhere(m) /\ m \in dropped /\ handed[m] = 0
  BY <1>1, <1>2, <1>3, <1>6 DEF Nowhere
<1>7. CASE Nowhere(m) /\ m \notin dropped /\ handed[m] = 1
  BY <1>1, <1>2, <1>3, <1>7 DEF Nowhere
<1>. QED BY <1>4, <1>5, <1>6, <1>7 DEF OnePlace

\* A message that try_buffer took is in one bucket, in one dispatch, handed on once
\* or dropped, by an exception of the limiter or by a /cancel and for no other cause; and
\* the limiter's count of operations is the slots that tasks hold, but for what calls of
\* it that raise or are cut off leak.
THEOREM WayIsSafe == Spec => []NothingLostOrLeaked
<1>1. WayInv /\ DroppedForCause => NothingLostOrLeaked
  <2>. SUFFICES ASSUME WayInv, DroppedForCause PROVE ExactlyOnePlace /\ DroppedForCause /\ SlotsBalanced
    BY DEF NothingLostOrLeaked
  <2>1. ExactlyOnePlace
    <3>1. ASSUME NEW m \in Contents, handler[m] \in {"typing", "buffered"}
          PROVE  m \in Messages /\ OnePlace(m)
      BY <3>1 DEF Contents, WayInv, PlaceInv, Taken
    <3>. QED BY <3>1, OnePlaceIsOne DEF ExactlyOnePlace
  <2>2. SlotsBalanced
    BY DEF WayInv, SlotInv, SlotsBalanced, InlineSlots, JobSlots
  <2>. QED BY <2>1, <2>2
<1>. QED BY <1>1, WayIsKept, PTL

\* What try_buffer took is held once, accounted for, and has a timer to hand it on.
THEOREM BufferSafe == Spec => []BufferIsSafe
BY WayIsSafe, BucketsAreTimed, PTL DEF BufferIsSafe

\* The variables keep their types.
THEOREM TypesAreKept == Spec => []TypeOK
<1>1. Inv /\ WayInv => TypeOK
  BY DEF Inv, TimerTypes, WayInv, JobTypes, TypeOK
<1>. QED BY <1>1, WayIsKept, PTL
=============================================================================
