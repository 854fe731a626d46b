-------------------------- MODULE MessageCoalescer --------------------------
(***************************************************************************)
(* adapters/telegram/coalescer.py: messages that one user sends to one chat *)
(* within an idle window are buffered and handed on together.  The callers  *)
(* are modelled with it: the message router, whose handlers run as one      *)
(* concurrent task per message, the command path that flushes first, the    *)
(* limiter of concurrent operations per user, and /cancel, which cancels    *)
(* the tracked tasks of the user's other commands.                          *)
(*                                                                          *)
(* Asyncio tasks interleave at awaits only.  A buffered message starts one  *)
(* timer task, so a timer is known by its message; so is a command's flush. *)
(* Drain is the task that runs shutdown().                                  *)
(***************************************************************************)
EXTENDS Naturals, FiniteSets, SequencesExt

CONSTANTS
  LastMessage,     \* bound: messages 1..LastMessage arrive, in this order
  Commands,        \* those of them that start with "/"
  Cancels,         \* those of the commands that are /cancel
  MaxConcurrent,   \* operations per user that the limiter admits
  MaxFailures,     \* bound: calls of the limiter that raise or are cut off
  Drain

Messages == 1..LastMessage
Workers == Messages \cup {Drain}
Contents == Messages \ Commands

ASSUME CoalescerAssumption ==
  /\ {LastMessage, MaxFailures} \subseteq Nat /\ MaxConcurrent \in Nat \ {0}
  /\ Cancels \subseteq Commands /\ Commands \subseteq Messages
  /\ Drain \notin Messages

VARIABLES
  arrived,       \* the messages whose handler has started
  handler,       \* where the router's task of each message is
  bucket,        \* [msgs, timer] of the chat; timer 0: none.  msgs empty: no bucket
  lock,          \* the handler that holds self._lock across an await, or 0
  timer,         \* the timer task of each message
  job,           \* [stage, msgs, slot] of every dispatch
  slots,         \* the limiter's count of the user's operations
  shuttingDown,
  drain,         \* where shutdown() is
  handed,        \* history: how often each message was handed on
  dropped,       \* history: messages lost to an exception of the limiter or to /cancel
  failures       \* how often a call of the limiter has raised or was cut off

vars == <<arrived, handler, bucket, lock, timer, job, slots, shuttingDown, drain,
          handed, dropped, failures>>

NoBucket == [msgs |-> <<>>, timer |-> 0]
NoJob == [stage |-> "none", msgs |-> <<>>, slot |-> FALSE]

HandlerStates == {"none", "probe", "lock", "typing", "buffered", "slot", "route",
                  "flushing", "run", "ending", "done"}
TimerStates == {"none", "sleep", "awake", "cancelled", "dispatch", "done"}
Stages == {"none", "stop", "gate", "each", "bundle", "route one", "route bundle"}

TypeOK ==
  /\ arrived \subseteq Messages
  /\ handler \in [Messages -> HandlerStates]
  /\ bucket.msgs \in Seq(Messages) /\ bucket.timer \in Messages \cup {0}
  /\ lock \in Messages \cup {0}
  /\ timer \in [Messages -> TimerStates]
  /\ \A w \in Workers : /\ job[w].stage \in Stages /\ job[w].slot \in BOOLEAN
                        /\ job[w].msgs \in Seq(Messages)
  /\ slots \in 0..(MaxConcurrent + failures)
  /\ shuttingDown \in BOOLEAN
  /\ drain \in {"off", "list", "claim", "dispatch", "done"}
  /\ handed \in [Messages -> Nat]
  /\ dropped \subseteq Messages
  /\ failures \in 0..MaxFailures

Init ==
  /\ arrived = {}
  /\ handler = [m \in Messages |-> "none"]
  /\ bucket = NoBucket
  /\ lock = 0
  /\ timer = [m \in Messages |-> "none"]
  /\ job = [w \in Workers |-> NoJob]
  /\ slots = 0
  /\ shuttingDown = FALSE
  /\ drain = "off"
  /\ handed = [m \in Messages |-> 0]
  /\ dropped = {}
  /\ failures = 0

\* Faulty variant of SlotFree: one operation too many.
SlotFreeOneMore == slots <= MaxConcurrent

SlotFree == slots < MaxConcurrent
Goto(m, place) == handler' = [handler EXCEPT ![m] = place]

-----------------------------------------------------------------------------
(* Buffering *)

\* route_message up to try_buffer: the in-process limiter turns a message away
\* while all slots are taken, that of Redis does not; a command, or anything during shutdown, is routed inline.
Arrive(m) ==
  /\ m \notin arrived /\ \A k \in 1..(m - 1) : k \in arrived
  /\ arrived' = arrived \cup {m}
  /\ \/ ~SlotFree /\ Goto(m, "done")
     \/ Goto(m, IF m \in Commands \/ shuttingDown THEN "slot" ELSE "probe")
  /\ UNCHANGED <<bucket, lock, timer, job, slots, shuttingDown, drain, handed, dropped, failures>>

\* _is_eligible: a pending follow-up or an awaited URL keeps a message out.
Probe(m) ==
  /\ handler[m] = "probe"
  /\ Goto(m, "lock") \/ Goto(m, "slot")
  /\ UNCHANGED <<arrived, bucket, lock, timer, job, slots, shuttingDown, drain, handed, dropped, failures>>

\* try_buffer appends under the lock, and keeps it while typing starts.
Buffer(m) ==
  /\ handler[m] = "lock" /\ lock = 0
  /\ lock' = m
  /\ bucket' = [bucket EXCEPT !.msgs = Append(@, m)]
  /\ Goto(m, "typing")
  /\ UNCHANGED <<arrived, timer, job, slots, shuttingDown, drain, handed, dropped, failures>>

Alive(t) == t # 0 /\ timer[t] \in {"sleep", "awake"}

TimersCancelled ==
  [t \in Messages |-> IF t = bucket.timer /\ Alive(t) THEN "cancelled" ELSE timer[t]]

\* Faulty variants of ResetTimer: the old timer is left running; it is cancelled
\* and no new one started.
ResetTimerKeepsOld(m) ==
  /\ timer' = [timer EXCEPT ![m] = "sleep"]
  /\ bucket' = [bucket EXCEPT !.timer = m]
ResetTimerCancelOnly(m) ==
  /\ timer' = IF bucket.timer = 0 THEN [timer EXCEPT ![m] = "sleep"] ELSE TimersCancelled
  /\ bucket' = [bucket EXCEPT !.timer = m]

ResetTimer(m) ==
  /\ timer' = [TimersCancelled EXCEPT ![m] = "sleep"]
  /\ bucket' = [bucket EXCEPT !.timer = m]

Buffered(m) ==
  /\ handler[m] = "typing"
  /\ ResetTimer(m)
  /\ lock' = 0
  /\ Goto(m, "buffered")
  /\ UNCHANGED <<arrived, job, slots, shuttingDown, drain, handed, dropped, failures>>

-----------------------------------------------------------------------------
(* Claiming the bucket: by its timer, by a command, by shutdown *)

Claimable == lock = 0 /\ bucket # NoBucket

\* Faulty variant of Claim: the bucket stays where a later claim finds it.
ClaimLeavesBucket(w, timers) ==
  /\ Claimable
  /\ job' = [job EXCEPT ![w] = [NoJob EXCEPT !.stage = "stop", !.msgs = bucket.msgs]]
  /\ timer' = timers
  /\ bucket' = bucket

\* _claim_bucket takes the bucket whole, timers being what it leaves of them.
Claim(w, timers) ==
  /\ Claimable
  /\ job' = [job EXCEPT ![w] = [NoJob EXCEPT !.stage = "stop", !.msgs = bucket.msgs]]
  /\ timer' = timers
  /\ bucket' = NoBucket

\* The window is over; the task may have to wait for the lock.
Wake(t) ==
  /\ timer[t] = "sleep"
  /\ timer' = [timer EXCEPT ![t] = "awake"]
  /\ UNCHANGED <<arrived, handler, bucket, lock, job, slots, shuttingDown, drain, handed, dropped, failures>>

TimerFlush(t) ==
  /\ timer[t] = "awake" /\ lock = 0
  /\ \/ Claim(t, [TimersCancelled EXCEPT ![t] = "dispatch"])
     \/ /\ ~Claimable
        /\ timer' = [timer EXCEPT ![t] = "done"]
        /\ UNCHANGED <<bucket, job>>
  /\ UNCHANGED <<arrived, handler, lock, slots, shuttingDown, drain, handed, dropped, failures>>

\* flush_now, which a command calls before it runs.
FlushNow(m) ==
  /\ m \in Commands /\ handler[m] = "route" /\ lock = 0
  /\ \/ Claim(m, TimersCancelled) /\ Goto(m, "flushing")
     \/ /\ ~Claimable /\ Goto(m, "run")
        /\ UNCHANGED <<bucket, timer, job>>
  /\ UNCHANGED <<arrived, lock, slots, shuttingDown, drain, handed, dropped, failures>>

Shutdown ==
  /\ drain = "off" /\ drain' = "list" /\ shuttingDown' = TRUE
  /\ UNCHANGED <<arrived, handler, bucket, lock, timer, job, slots, handed, dropped, failures>>

ListBuckets ==
  /\ drain = "list" /\ lock = 0
  /\ drain' = IF bucket = NoBucket THEN "done" ELSE "claim"
  /\ UNCHANGED <<arrived, handler, bucket, lock, timer, job, slots, shuttingDown, handed, dropped, failures>>

DrainBucket ==
  /\ drain = "claim" /\ lock = 0
  /\ \/ Claim(Drain, TimersCancelled) /\ drain' = "dispatch"
     \/ ~Claimable /\ drain' = "done" /\ UNCHANGED <<bucket, timer, job>>
  /\ UNCHANGED <<arrived, handler, lock, slots, shuttingDown, handed, dropped, failures>>

-----------------------------------------------------------------------------
(* Dispatching what was claimed *)

\* What follows the end of w's dispatch, in the task that ran it.
Return(w) ==
  /\ timer' = [t \in Messages |-> IF t = w /\ timer[t] = "dispatch" THEN "done" ELSE timer[t]]
  /\ handler' = [m \in Messages |-> IF m = w /\ handler[m] = "flushing" THEN "run" ELSE handler[m]]
  /\ drain' = IF w = Drain THEN "done" ELSE drain

StopTyping(w) ==
  /\ job[w].stage = "stop"
  /\ job' = [job EXCEPT ![w].stage = IF Len(job[w].msgs) = 1 THEN "each" ELSE "gate"]
  /\ UNCHANGED <<arrived, handler, bucket, lock, timer, slots, shuttingDown, drain, handed, dropped, failures>>

\* A bundle, or each message by itself: no aggregation handler, rollout off, or
\* fewer than two sources in all.
Gate(w) ==
  /\ job[w].stage = "gate"
  /\ \E next \in {"bundle", "each"} : job' = [job EXCEPT ![w].stage = next]
  /\ UNCHANGED <<arrived, handler, bucket, lock, timer, slots, shuttingDown, drain, handed, dropped, failures>>

\* A dispatch goes on whether or not it is given a slot.
AcquireSlot(w) ==
  /\ \E kind \in {"each", "bundle"} :
       /\ job[w].stage = kind
       /\ job' = [job EXCEPT ![w].stage = IF kind = "each" THEN "route one" ELSE "route bundle",
                             ![w].slot = SlotFree]
  /\ slots' = IF SlotFree THEN slots + 1 ELSE slots
  /\ UNCHANGED <<arrived, handler, bucket, lock, timer, shuttingDown, drain, handed, dropped, failures>>

\* Faulty variant of Released: a slot that was not given is given back.
ReleasedAlways(w) == slots - 1

Released(w) == IF job[w].slot THEN slots - 1 ELSE slots

Fails == failures < MaxFailures /\ failures' = failures + 1

\* Routing a message, or aggregating the bundle, is over; an exception of it is
\* logged, and the slot goes back.
Batch(w) == IF job[w].stage = "route one" THEN <<Head(job[w].msgs)>> ELSE job[w].msgs
Rest(w) == IF job[w].stage = "route one" THEN Tail(job[w].msgs) ELSE <<>>

HandOn(w) ==
  /\ job[w].stage \in {"route one", "route bundle"}
  /\ handed' = [m \in Messages |-> IF m \in ToSet(Batch(w)) THEN handed[m] + 1 ELSE handed[m]]
  /\ UNCHANGED <<arrived, bucket, lock, shuttingDown>>

Routed(w) ==
  /\ HandOn(w)
  /\ slots' = Released(w)
  /\ \/ /\ Rest(w) # <<>>
        /\ job' = [job EXCEPT ![w] = [stage |-> "each", msgs |-> Rest(w), slot |-> FALSE]]
        /\ UNCHANGED <<handler, timer, drain>>
     \/ Rest(w) = <<>> /\ job' = [job EXCEPT ![w] = NoJob] /\ Return(w)
  /\ UNCHANGED <<dropped, failures>>

\* Redis raises in the limiter, before or after the count has changed: the dispatch
\* ends, its callers log it, and what it had not handed on is gone.
AcquireRaises(w) ==
  /\ job[w].stage \in {"each", "bundle"} /\ Fails
  /\ slots' \in {slots, slots + 1}
  /\ dropped' = dropped \cup ToSet(job[w].msgs)
  /\ job' = [job EXCEPT ![w] = NoJob] /\ Return(w)
  /\ UNCHANGED <<arrived, bucket, lock, shuttingDown, handed>>

ReleaseRaises(w) ==
  /\ HandOn(w) /\ job[w].slot /\ Fails
  /\ slots' \in {slots, slots - 1}
  /\ dropped' = dropped \cup ToSet(Rest(w))
  /\ job' = [job EXCEPT ![w] = NoJob] /\ Return(w)

-----------------------------------------------------------------------------
(* Messages routed inline *)

TakeSlot(m) ==
  /\ handler[m] = "slot"
  /\ \/ /\ SlotFree /\ slots' = slots + 1
        /\ Goto(m, IF m \in Commands THEN "route" ELSE "run") /\ UNCHANGED failures
     \/ ~SlotFree /\ Goto(m, "done") /\ UNCHANGED <<slots, failures>>
     \/ Fails /\ Goto(m, "done") /\ slots' \in {slots, slots + 1}
  /\ UNCHANGED <<arrived, bucket, lock, timer, job, shuttingDown, drain, handed, dropped>>

Finish(m) ==
  /\ handler[m] \in {"run", "ending"}
  /\ \/ slots' = slots - 1 /\ UNCHANGED failures
     \/ Fails /\ slots' \in {slots, slots - 1}
  /\ handed' = IF handler[m] = "run" THEN [handed EXCEPT ![m] = @ + 1] ELSE handed
  /\ Goto(m, "done")
  /\ UNCHANGED <<arrived, bucket, lock, timer, job, shuttingDown, drain, dropped>>

\* What m's dispatch has begun to hand on when it is cut off.
InHand(m) == IF job[m].stage \in {"route one", "route bundle"} THEN ToSet(Batch(m)) ELSE {}

\* The limiter's call under way is cut off too: a slot that was being taken may be taken,
\* one that was being given back may stay taken.
SlotsCut(m) ==
  \/ slots' = Released(m) /\ UNCHANGED failures
  \/ /\ Fails
     /\ \/ job[m].stage \in {"each", "bundle"} /\ slots' = slots + 1
        \/ job[m].slot /\ slots' = slots

\* /cancel: TaskManager.cancel on the task of another command, which may be waiting for the
\* lock or in the dispatch of what it has flushed.  Nothing catches the CancelledError:
\* the messages that it has claimed and not yet handed on are gone.  A content is tracked
\* while it runs inline, where a cancellation leads to Finish as any other end does.
CancelTracked(c, m) ==
  /\ c \in Cancels /\ handler[c] = "run"
  /\ m \in Commands \ Cancels /\ handler[m] \in {"route", "flushing"}
  /\ handed' = [k \in Messages |-> IF k \in InHand(m) THEN handed[k] + 1 ELSE handed[k]]
  /\ dropped' = dropped \cup (ToSet(job[m].msgs) \ InHand(m))
  /\ SlotsCut(m)
  /\ job' = [job EXCEPT ![m] = NoJob]
  /\ Goto(m, "ending")
  /\ UNCHANGED <<arrived, bucket, lock, timer, shuttingDown, drain>>

-----------------------------------------------------------------------------

Handle(m) ==
  \/ Probe(m) \/ Buffer(m) \/ Buffered(m) \/ TakeSlot(m) \/ FlushNow(m) \/ Finish(m)

Time(t) == Wake(t) \/ TimerFlush(t)

Dispatch(w) ==
  StopTyping(w) \/ Gate(w) \/ AcquireSlot(w) \/ Routed(w) \/ AcquireRaises(w) \/ ReleaseRaises(w)

\* Every task has ended and no message is to come: the loop idles.
Idle ==
  /\ arrived = Messages
  /\ \A m \in Messages : handler[m] \in {"buffered", "done"} /\ ~Alive(m)
  /\ \A w \in Workers : job[w] = NoJob
  /\ drain = "done"
  /\ UNCHANGED vars

Next ==
  \/ \E m \in Messages : Arrive(m) \/ Handle(m) \/ Time(m)
  \/ \E w \in Workers : Dispatch(w)
  \/ \E c, m \in Messages : CancelTracked(c, m)
  \/ Shutdown \/ ListBuckets \/ DrainBucket
  \/ Idle

Spec == Init /\ [][Next]_vars

\* The event loop runs every task that can run, and each id has at most one: its
\* handler, then the timer it started, or the flush it awaits.
Task(m) == Handle(m) \/ Time(m) \/ Dispatch(m)

FairSpec == Spec /\ WF_vars(Dispatch(Drain)) /\ \A m \in Messages : WF_vars(Task(m))

-----------------------------------------------------------------------------
(* Properties *)

InJob(w, m) == m \in ToSet(job[w].msgs)

\* A message that try_buffer took is in exactly one place: in the bucket, in one
\* dispatch, handed on once, or dropped by an exception of the limiter or by /cancel.  No
\* interleaving of timers, commands and shutdown loses it or hands it on twice.
ExactlyOnePlace ==
  \A m \in Contents : handler[m] \in {"typing", "buffered"} =>
    Cardinality({w \in Workers : InJob(w, m)})
      + (IF m \in ToSet(bucket.msgs) THEN 1 ELSE 0)
      + (IF m \in dropped THEN 1 ELSE 0) + handed[m] = 1

\* Whenever the lock is free, a bucket's timer runs: its messages do not depend
\* on a later message to be handed on.
BucketHasTimer == lock = 0 /\ bucket # NoBucket => Alive(bucket.timer)

\* "Once the user stops typing for the idle window": a timer flushes a bucket
\* only if no message was added since that timer started.
NoEarlyFlush ==
  [][\A t \in Messages :
       timer[t] = "awake" /\ timer'[t] = "dispatch" => Last(bucket.msgs) = t]_vars

\* A message is dropped for one of two causes: a call of the limiter that raised or was cut
\* off, or a command cancelled by a /cancel in the middle of its flush.
DroppedForCause ==
  dropped # {} => failures > 0 \/ \E c \in Cancels : handler[c] \in {"run", "done"}

\* The limiter's count is the number of tasks that hold a slot: no refusal, exception or
\* cancellation of a message leaks one or gives one back twice; each call of the limiter
\* that raises or is cut off leaks one at most.
SlotsBalanced ==
  LET held == Cardinality({m \in Messages : handler[m] \in {"route", "flushing", "run", "ending"}})
                + Cardinality({w \in Workers : job[w].slot})
  IN held <= slots /\ slots <= held + failures

\* No message and no slot is lost, or counted twice, on its way to the handlers, but for
\* the two causes above.
NothingLostOrLeaked == ExactlyOnePlace /\ DroppedForCause /\ SlotsBalanced

\* What the coalescer holds it holds once, accounts for, and hands on by itself.
BufferIsSafe == NothingLostOrLeaked /\ BucketHasTimer

\* A buffered message is handed on, unless the limiter raised, or /cancel cut the flush that
\* had claimed it, before its turn.
BufferedIsHanded ==
  []<>(\A m \in Contents : handler[m] = "buffered" => handed[m] > 0 \/ m \in dropped)
=============================================================================
