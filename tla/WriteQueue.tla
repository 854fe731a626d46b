----------------------------- MODULE WriteQueue -----------------------------
(***************************************************************************)
(* DbWriteQueue (db/write_queue.py): producers put writes into a bounded    *)
(* asyncio.Queue, one worker takes what is there as a snapshot and executes *)
(* it, consecutive writes with one batch key as one call; stop() puts a     *)
(* sentinel, waits for the worker to drain the queue, and cancels it when   *)
(* it takes too long.                                                       *)
(*                                                                          *)
(* The sentinel is kept as the number of writes in front of it.             *)
(***************************************************************************)
EXTENDS Naturals, Sequences, FiniteSets

CONSTANTS
  Writes,       \* numbers; a producer offers its writes in ascending order
  ProducerOf,
  BatchKeyOf,   \* the batch key of a write, or NoKey
  NoKey,
  Capacity      \* maxsize

ASSUME QueueAssumption ==
  /\ Writes \subseteq Nat /\ IsFiniteSet(Writes)
  /\ Capacity \in Nat \ {0}

VARIABLES
  offer,       \* where each write is: "new", "blocked" in put(), "accepted", "given_up"
  queued,      \* the queue's writes
  sentinel,    \* how many of them are in front of the sentinel, or NoSentinel
  snapshot,    \* what the worker has taken and not executed yet
  worker,
  stopAfter,   \* the snapshot ended at the sentinel
  stopper,     \* where stop() is
  accepted,    \* history: the writes in the order of their put
  attempted,   \* history: those executed, with or without success
  promised,    \* history: how many were accepted when the sentinel was put
  cutOff       \* history: the worker was cancelled

producerVars == <<offer, accepted>>
workerVars == <<snapshot, worker, stopAfter, attempted>>
stopVars == <<stopper, promised, cutOff>>
queueVars == <<producerVars, workerVars, stopVars, queued, sentinel>>

NoSentinel == Cardinality(Writes) + 1

QueueTypeOK ==
  /\ offer \in [Writes -> {"new", "blocked", "accepted", "given_up"}]
  /\ {queued, snapshot, accepted, attempted} \subseteq Seq(Writes)
  /\ sentinel \in 0..Len(queued) \cup {NoSentinel}
  /\ worker \in {"get", "execute", "drain", "ended"}
  /\ stopper \in {"idle", "putting", "waiting", "stopped"}
  /\ {stopAfter, cutOff} \subseteq BOOLEAN
  /\ promised \in 0..Len(accepted)
  /\ Len(queued) + (IF sentinel = NoSentinel THEN 0 ELSE 1) <= Capacity

QueueInit ==
  /\ offer = [w \in Writes |-> "new"]
  /\ queued = <<>> /\ snapshot = <<>> /\ accepted = <<>> /\ attempted = <<>>
  /\ sentinel = NoSentinel
  /\ worker = "get" /\ stopper = "idle"
  /\ stopAfter = FALSE /\ cutOff = FALSE /\ promised = 0

\* Queue.full()
Full == Len(queued) + (IF sentinel = NoSentinel THEN 0 ELSE 1) >= Capacity

-----------------------------------------------------------------------------
(* enqueue, enqueue_batch *)

\* Faulty variant of PutWrite: the newest write first.
PutWriteFirst(w) ==
  /\ queued' = <<w>> \o queued
  /\ accepted' = Append(accepted, w)
  /\ offer' = [offer EXCEPT ![w] = "accepted"]
  /\ UNCHANGED <<workerVars, stopVars, sentinel>>

PutWrite(w) ==
  /\ queued' = Append(queued, w)
  /\ accepted' = Append(accepted, w)
  /\ offer' = [offer EXCEPT ![w] = "accepted"]
  /\ UNCHANGED <<workerVars, stopVars, sentinel>>

\* A producer's earlier calls have returned, or were cancelled.
Turn(w) == \A v \in Writes :
             ProducerOf[v] = ProducerOf[w] /\ v < w => offer[v] \in {"accepted", "given_up"}

Enqueue(w) == offer[w] = "new" /\ Turn(w) /\ ~Full /\ PutWrite(w)

EnqueueBlocks(w) ==
  /\ offer[w] = "new" /\ Turn(w) /\ Full
  /\ offer' = [offer EXCEPT ![w] = "blocked"]
  /\ UNCHANGED <<workerVars, stopVars, queued, sentinel, accepted>>

\* A blocked put that finds room; which of them, and whether a new one is
\* faster, is open.
EnqueueResumes(w) == offer[w] = "blocked" /\ ~Full /\ PutWrite(w)

\* The producer is cancelled in put().
EnqueueCancelled(w) ==
  /\ offer[w] = "blocked"
  /\ offer' = [offer EXCEPT ![w] = "given_up"]
  /\ UNCHANGED <<workerVars, stopVars, queued, sentinel, accepted>>

-----------------------------------------------------------------------------
(* _worker *)

\* Faulty variant of Drained: only the first element.
DrainedOne(q) == IF q = <<>> THEN q ELSE <<Head(q)>>

\* _drain takes everything, as nothing can be put in between.
Drained(q) == q

\* _next_items, and _drain at once when the sentinel came first.
NextItems ==
  /\ worker = "get" /\ (queued # <<>> \/ sentinel = 0)
  /\ IF sentinel = 0
     THEN /\ snapshot' = Drained(queued)
          /\ worker' = IF queued = <<>> THEN "ended" ELSE "drain"
          /\ queued' = <<>> /\ sentinel' = NoSentinel
          /\ UNCHANGED stopAfter
     ELSE LET n == IF sentinel = NoSentinel THEN Len(queued) ELSE sentinel
          IN /\ snapshot' = SubSeq(queued, 1, n)
             /\ queued' = SubSeq(queued, n + 1, Len(queued))
             /\ stopAfter' = (sentinel # NoSentinel)
             /\ sentinel' = NoSentinel
             /\ worker' = "execute"
  /\ UNCHANGED <<producerVars, stopVars, attempted>>

SameBatch(i) == BatchKeyOf[snapshot[i]] = BatchKeyOf[snapshot[1]]

\* _batch_span: the writes at the front that have the first one's key.
BatchSpan ==
  IF BatchKeyOf[snapshot[1]] = NoKey THEN 1
  ELSE Cardinality({i \in DOMAIN snapshot : \A j \in 1..i : SameBatch(j)})

\* Faulty variant of AfterSpan: the worker does not loop.
AfterSpanEnds(rest, drains) == IF rest # <<>> THEN worker ELSE "ended"

\* Behind the last call of a snapshot the worker goes on to the queue, to _drain,
\* or ends, without a further await.
AfterSpan(rest, drains) ==
  IF rest # <<>> THEN worker
  ELSE IF drains /\ queued # <<>> THEN "drain"
  ELSE IF worker = "execute" /\ ~stopAfter THEN "get" ELSE "ended"

\* One call, whether it raises or not.
ExecuteSpan ==
  /\ worker \in {"execute", "drain"} /\ snapshot # <<>>
  /\ LET rest == SubSeq(snapshot, BatchSpan + 1, Len(snapshot))
         drains == rest = <<>> /\ worker = "execute" /\ stopAfter
     IN /\ attempted' = attempted \o SubSeq(snapshot, 1, BatchSpan)
        /\ snapshot' = IF drains THEN Drained(queued) ELSE rest
        /\ queued' = IF drains THEN <<>> ELSE queued
        /\ worker' = AfterSpan(rest, drains)
  /\ UNCHANGED <<producerVars, stopVars, stopAfter, sentinel>>

-----------------------------------------------------------------------------
(* stop() *)

PutSentinel ==
  /\ sentinel' = Len(queued)
  /\ stopper' = "waiting"
  /\ promised' = Len(accepted)
  /\ UNCHANGED <<producerVars, workerVars, queued, cutOff>>

Stop == stopper = "idle" /\ ~Full /\ PutSentinel

StopBlocks ==
  /\ stopper = "idle" /\ Full
  /\ stopper' = "putting"
  /\ UNCHANGED <<producerVars, workerVars, queued, sentinel, promised, cutOff>>

StopResumes == stopper = "putting" /\ ~Full /\ PutSentinel

\* The time limit; the call in progress may have reached the database.
StopTimesOut ==
  /\ stopper = "waiting" /\ worker # "ended"
  /\ worker' = "ended" /\ cutOff' = TRUE /\ stopper' = "stopped"
  /\ \/ UNCHANGED attempted
     \/ snapshot # <<>> /\ attempted' = attempted \o SubSeq(snapshot, 1, BatchSpan)
  /\ snapshot' = <<>>
  /\ UNCHANGED <<producerVars, stopAfter, queued, sentinel, promised>>

\* Faulty variant of StopReturns: the worker is not waited for.
StopReturnsAtOnce ==
  /\ stopper = "waiting"
  /\ stopper' = "stopped"
  /\ UNCHANGED <<producerVars, workerVars, queued, sentinel, promised, cutOff>>

StopReturns ==
  /\ stopper = "waiting" /\ worker = "ended"
  /\ stopper' = "stopped"
  /\ UNCHANGED <<producerVars, workerVars, queued, sentinel, promised, cutOff>>

Producer(w) == Enqueue(w) \/ EnqueueBlocks(w) \/ EnqueueResumes(w)
Worker == NextItems \/ ExecuteSpan
Stopper == Stop \/ StopBlocks \/ StopResumes \/ StopTimesOut \/ StopReturns

QueueAtRest ==
  /\ worker = "ended" /\ stopper = "stopped"
  /\ \A w \in Writes : offer[w] \in {"accepted", "given_up"}
  /\ UNCHANGED queueVars

QueueNext ==
  \/ \E w \in Writes : Producer(w) \/ EnqueueCancelled(w)
  \/ Worker \/ Stopper \/ QueueAtRest

QueueSpec == QueueInit /\ [][QueueNext]_queueVars

\* The database answers and the loop resumes the worker and stop().
QueueFairness == WF_queueVars(Worker) /\ WF_queueVars(StopResumes) /\ WF_queueVars(StopReturns)

-----------------------------------------------------------------------------
(* Properties *)

\* First in, first out, through snapshots, batches and the drain: what was put
\* is attempted, in the worker's hands or in the queue, in this order.
FirstInFirstOut == ~cutOff => accepted = attempted \o snapshot \o queued

\* When stop() returns within its time, every write that was in the queue before
\* the sentinel has been attempted.
StopDrains == stopper = "stopped" /\ ~cutOff => Len(attempted) >= promised

\* Neither full queues, batches nor a stop in the middle of them reorder or lose
\* a write that the queue has taken.
QueueKeepsWrites == FirstInFirstOut /\ StopDrains

\* Every write that is in the queue is attempted, unless the worker is stopped:
\* the writes being finite, the worker comes to have none left.
AcceptedIsAttempted == <>[](stopper # "idle" \/ Len(attempted) = Len(accepted))

Log == INSTANCE WriteLog WITH log <- accepted, done <- attempted, open <- worker # "ended"

\* The queue is a log whose writes are attempted in order and at most once.
ImplementsWriteLog == Log!LogSpec
=============================================================================
