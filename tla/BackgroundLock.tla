--------------------------- MODULE BackgroundLock ---------------------------
(***************************************************************************)
(* BackgroundLockManager (src/app/api/background/locking.py): the lock an   *)
(* execution takes on a request before it processes it.  With Redis the     *)
(* lock is a key written by SET NX PX and removed by a compare-and-delete   *)
(* script; without it, it is an asyncio.Lock of the worker process, kept in *)
(* a dictionary from request ids to lock objects.                           *)
(*                                                                          *)
(* An execution is named by a member of Tasks: the token it writes in Redis *)
(* and the asyncio.Lock object it creates are named by it too.              *)
(***************************************************************************)
EXTENDS Naturals, Sequences, FiniteSets

CONSTANTS
  Requests,      \* ids of request rows
  Workers,       \* API processes; each has its own dictionary of locks
  Tasks,         \* executions of execute(), each used at most once
  NoTask,        \* "no key", "no lock object"
  Configs        \* the settings the processes may be started with

\* redis: cfg.background.redis_lock_enabled and a Redis client; required, skip:
\* cfg.background.redis_lock_required and lock_skip_on_held.
Settings == [redis : BOOLEAN, required : BOOLEAN, skip : BOOLEAN]

ASSUME LockAssumption ==
  /\ NoTask \notin Tasks
  /\ Configs \subseteq Settings

VARIABLES
  config,      \* the settings of this deployment, fixed when it starts
  redisKey,    \* the token stored under the request's key in Redis
  localLocks,  \* _local_locks of each worker: request id -> lock object
  lockOwner,   \* the execution that holds each lock object (NoTask: unlocked)
  lockQueue,   \* the executions waiting in acquire() of each lock object
  source,      \* LockHandle.source of each execution, "none" before and after
  lockObj,     \* LockHandle.local_lock, set from the moment it waits for it
  lapsed       \* history: the execution's Redis key expired under it

lockVars == <<config, redisKey, localLocks, lockOwner, lockQueue, source, lockObj, lapsed>>

Sources == {"none", "redis", "local"}

LockTypeOK ==
  /\ config \in Configs
  /\ redisKey \in [Requests -> Tasks \cup {NoTask}]
  /\ localLocks \in [Workers -> [Requests -> Tasks \cup {NoTask}]]
  /\ lockOwner \in [Tasks -> Tasks \cup {NoTask}]
  /\ lockQueue \in [Tasks -> Seq(Tasks)]
  /\ source \in [Tasks -> Sources]
  /\ lockObj \in [Tasks -> Tasks \cup {NoTask}]
  /\ lapsed \in [Tasks -> BOOLEAN]

LockInit ==
  /\ config \in Configs
  /\ redisKey = [r \in Requests |-> NoTask]
  /\ localLocks = [w \in Workers |-> [r \in Requests |-> NoTask]]
  /\ lockOwner = [t \in Tasks |-> NoTask]
  /\ lockQueue = [t \in Tasks |-> <<>>]
  /\ source = [t \in Tasks |-> "none"]
  /\ lockObj = [t \in Tasks |-> NoTask]
  /\ lapsed = [t \in Tasks |-> FALSE]

localVars == <<localLocks, lockOwner, lockQueue, lockObj>>

-----------------------------------------------------------------------------
(* Redis *)

\* Faulty variant of RedisAcquire: SET without NX.
RedisOverwrite(t, r) ==
  /\ config.redis
  /\ redisKey' = [redisKey EXCEPT ![r] = t]
  /\ source' = [source EXCEPT ![t] = "redis"]
  /\ UNCHANGED <<config, localVars, lapsed>>

\* SET key token NX PX ttl answered "OK".
RedisAcquire(t, r) ==
  /\ config.redis
  /\ redisKey[r] = NoTask
  /\ redisKey' = [redisKey EXCEPT ![r] = t]
  /\ source' = [source EXCEPT ![t] = "redis"]
  /\ UNCHANGED <<config, localVars, lapsed>>

\* SET key token NX PX ttl answered "not set": another execution holds it.
RedisHeld(r) ==
  /\ config.redis
  /\ redisKey[r] # NoTask
  /\ UNCHANGED lockVars

\* The call raised: the command never reached Redis, or its answer was lost.
RedisRaises(t, r) ==
  /\ config.redis
  /\ \/ UNCHANGED redisKey
     \/ redisKey[r] = NoTask /\ redisKey' = [redisKey EXCEPT ![r] = t]
  /\ UNCHANGED <<config, localVars, source, lapsed>>

\* The TTL of the key runs out, whether or not its owner is still at work.
RedisExpire(r) ==
  /\ redisKey[r] # NoTask
  /\ redisKey' = [redisKey EXCEPT ![r] = NoTask]
  /\ lapsed' = [lapsed EXCEPT ![redisKey[r]] = TRUE]
  /\ UNCHANGED <<config, localVars, source>>

\* Faulty variant of RedisRelease: DEL without comparing the token.
RedisDelete(t, r) ==
  /\ source[t] = "redis"
  /\ source' = [source EXCEPT ![t] = "none"]
  /\ redisKey' = [redisKey EXCEPT ![r] = NoTask]
  /\ UNCHANGED <<config, localVars, lapsed>>

\* The Lua script: delete the key only when it still holds our token.
RedisRelease(t, r) ==
  /\ source[t] = "redis"
  /\ source' = [source EXCEPT ![t] = "none"]
  /\ redisKey' = IF redisKey[r] = t THEN [redisKey EXCEPT ![r] = NoTask] ELSE redisKey
  /\ UNCHANGED <<config, localVars, lapsed>>

\* The script's call raised before Redis ran it: the key stays until its TTL.
RedisReleaseRaises(t) ==
  /\ source[t] = "redis"
  /\ source' = [source EXCEPT ![t] = "none"]
  /\ UNCHANGED <<config, redisKey, localVars, lapsed>>

-----------------------------------------------------------------------------
(* The asyncio.Lock of the process.  Lock.acquire() takes the lock at once   *)
(* only when it is unlocked and nobody waits; release() unlocks it and wakes *)
(* the first waiter, which takes it when the loop runs it.                   *)

\* Faulty variant of LocalObject: a new lock object every time.
LocalObjectFresh(t, w, r) == t

\* setdefault(request_id, asyncio.Lock()): the object already there, or a new one.
LocalObject(t, w, r) == IF localLocks[w][r] = NoTask THEN t ELSE localLocks[w][r]

Locked(l) == lockOwner[l] # NoTask

LocalAcquire(t, w, r) ==
  LET l == LocalObject(t, w, r) IN
  /\ ~Locked(l) /\ lockQueue[l] = <<>>
  /\ localLocks' = [localLocks EXCEPT ![w][r] = l]
  /\ lockOwner' = [lockOwner EXCEPT ![l] = t]
  /\ lockObj' = [lockObj EXCEPT ![t] = l]
  /\ source' = [source EXCEPT ![t] = "local"]
  /\ UNCHANGED <<config, redisKey, lockQueue, lapsed>>

LocalHeld(w, r) ==
  /\ localLocks[w][r] # NoTask /\ Locked(localLocks[w][r])
  /\ config.skip
  /\ UNCHANGED lockVars

LocalWait(t, w, r) ==
  LET l == LocalObject(t, w, r) IN
  /\ ~config.skip
  /\ Locked(l) \/ lockQueue[l] # <<>>
  /\ lockQueue' = [lockQueue EXCEPT ![l] = Append(@, t)]
  /\ lockObj' = [lockObj EXCEPT ![t] = l]
  /\ UNCHANGED <<config, redisKey, localLocks, lockOwner, source, lapsed>>

\* The woken waiter takes the lock it waited for.
LocalGrant(t) ==
  LET l == lockObj[t] IN
  /\ ~Locked(l) /\ lockQueue[l] # <<>> /\ Head(lockQueue[l]) = t
  /\ lockOwner' = [lockOwner EXCEPT ![l] = t]
  /\ lockQueue' = [lockQueue EXCEPT ![l] = Tail(@)]
  /\ source' = [source EXCEPT ![t] = "local"]
  /\ UNCHANGED <<config, redisKey, localLocks, lockObj, lapsed>>

\* Faulty variants of LocalRelease: the entry stays in the dictionary; the lock
\* object is not unlocked.
LocalReleaseKeepsEntry(t, w, r) ==
  /\ source[t] = "local"
  /\ lockOwner' = [lockOwner EXCEPT ![lockObj[t]] = NoTask]
  /\ source' = [source EXCEPT ![t] = "none"]
  /\ lockObj' = [lockObj EXCEPT ![t] = NoTask]
  /\ UNCHANGED <<config, redisKey, localLocks, lockQueue, lapsed>>

LocalReleaseStaysLocked(t, w, r) ==
  /\ source[t] = "local"
  /\ source' = [source EXCEPT ![t] = "none"]
  /\ lockObj' = [lockObj EXCEPT ![t] = NoTask]
  /\ UNCHANGED <<config, redisKey, localLocks, lockOwner, lockQueue, lapsed>>

\* release(): unlock, then drop the dictionary's entry when what it holds now
\* for the request (this object or a newer one) is not locked.
LocalRelease(t, w, r) ==
  LET owner == [lockOwner EXCEPT ![lockObj[t]] = NoTask]
      entry == localLocks[w][r]
  IN /\ source[t] = "local"
     /\ lockOwner' = owner
     /\ localLocks' = IF entry # NoTask /\ owner[entry] = NoTask
                      THEN [localLocks EXCEPT ![w][r] = NoTask] ELSE localLocks
     /\ source' = [source EXCEPT ![t] = "none"]
     /\ lockObj' = [lockObj EXCEPT ![t] = NoTask]
     /\ UNCHANGED <<config, redisKey, lockQueue, lapsed>>

-----------------------------------------------------------------------------
(* The end of a process whose executions are `own': its asyncio objects are  *)
(* gone, its Redis keys stay.                                                *)

\* CancelledError in Lock.acquire(): the waiters leave their queues.
WaitersLeave(own) ==
  /\ lockQueue' = [l \in Tasks |-> IF l \in own THEN <<>> ELSE lockQueue[l]]
  /\ lockObj' = [t \in Tasks |-> IF t \in own /\ source[t] # "local"
                                 THEN NoTask ELSE lockObj[t]]
  /\ UNCHANGED <<config, redisKey, localLocks, lockOwner, source, lapsed>>

ProcessEnds(w, own) ==
  /\ localLocks' = [localLocks EXCEPT ![w] = [r \in Requests |-> NoTask]]
  /\ lockOwner' = [l \in Tasks |-> IF l \in own THEN NoTask ELSE lockOwner[l]]
  /\ lockQueue' = [l \in Tasks |-> IF l \in own THEN <<>> ELSE lockQueue[l]]
  /\ source' = [t \in Tasks |-> IF t \in own THEN "none" ELSE source[t]]
  /\ lockObj' = [t \in Tasks |-> IF t \in own THEN NoTask ELSE lockObj[t]]
  /\ UNCHANGED <<config, redisKey, lapsed>>
=============================================================================
