------------------------------ MODULE TaskLock ------------------------------
(***************************************************************************)
(* RedisDistributedLock (infrastructure/locks/redis_lock.py) around a       *)
(* scheduled task: runs of the task, each with a token of its own, take one *)
(* key with SET NX EX, work, and release it by compare-and-delete. Redis    *)
(* may be switched off for a run, a command may raise with or without its   *)
(* effect, a run may be cancelled or die, and the key expires.              *)
(***************************************************************************)
EXTENDS Naturals

CONSTANTS
  Runs,       \* runs of the task, in one worker or in several
  NoRun

ASSUME LeaseAssumption == NoRun \notin Runs

VARIABLES
  stage,      \* "idle", "working", "skipped" or "done"
  how,        \* how a run came in: "lock", "error" of Redis, "off", or "out"
  key,        \* the run whose token is the key's value, or NoRun
  lapsed,     \* history: runs whose key expired while they worked
  faulty      \* history: runs whose cancellation, death or release left things open

leaseVars == <<stage, how, key, lapsed, faulty>>

Working == {r \in Runs : stage[r] = "working"}

LeaseTypeOK ==
  /\ stage \in [Runs -> {"idle", "working", "skipped", "done"}]
  /\ how \in [Runs -> {"lock", "error", "off", "out"}]
  /\ \A r \in Runs : how[r] # "out" <=> r \in Working
  /\ key \in Runs \cup {NoRun}
  /\ key # NoRun => stage[key] \in {"working", "done"}
  /\ lapsed \subseteq Runs /\ faulty \subseteq Runs

LeaseInit ==
  /\ stage = [r \in Runs |-> "idle"]
  /\ how = [r \in Runs |-> "out"]
  /\ key = NoRun
  /\ lapsed = {} /\ faulty = {}

ComesIn(r, way) ==
  /\ stage' = [stage EXCEPT ![r] = "working"]
  /\ how' = [how EXCEPT ![r] = way]

-----------------------------------------------------------------------------
(* __aenter__ *)

\* Without a client the lock is always acquired.
EnterWithoutRedis(r) ==
  /\ stage[r] = "idle"
  /\ ComesIn(r, "off")
  /\ UNCHANGED <<key, lapsed, faulty>>

\* The key's value after SET NX of r's token.
SetNX(r) == IF key = NoRun THEN r ELSE key

Enter(r) ==
  /\ stage[r] = "idle" /\ SetNX(r) = r
  /\ ComesIn(r, "lock")
  /\ key' = r
  /\ UNCHANGED <<lapsed, faulty>>

EnterRefused(r) ==
  /\ stage[r] = "idle" /\ SetNX(r) # r
  /\ stage' = [stage EXCEPT ![r] = "skipped"]
  /\ UNCHANGED <<how, key, lapsed, faulty>>

\* SET raises, before or after Redis has done it: the run goes on without a lock.
EnterFails(r) ==
  /\ stage[r] = "idle"
  /\ ComesIn(r, "error")
  /\ key' \in {key, SetNX(r)}
  /\ UNCHANGED <<lapsed, faulty>>

\* Cancelled in SET: __aexit__ does not run.
EnterCancelled(r) ==
  /\ stage[r] = "idle"
  /\ stage' = [stage EXCEPT ![r] = "done"]
  /\ key' \in {key, SetNX(r)}
  /\ faulty' = faulty \cup {r}
  /\ UNCHANGED <<how, lapsed>>

-----------------------------------------------------------------------------
(* __aexit__ *)

GoesOut(r) ==
  /\ stage' = [stage EXCEPT ![r] = "done"]
  /\ how' = [how EXCEPT ![r] = "out"]

\* Faulty variant of HasToken: the token is dropped when SET raises.
HasTokenOfLock(r) == how[r] = "lock"

\* With a client, the token is kept after an error too.
HasToken(r) == how[r] \in {"lock", "error"}

\* Faulty variant of Freed: a plain DEL.
FreedPlain(r) == NoRun

\* The key's value after _RELEASE_SCRIPT.
Freed(r) == IF key = r THEN NoRun ELSE key

LeaveLock(r) ==
  /\ r \in Working
  /\ GoesOut(r)
  /\ key' = IF HasToken(r) THEN Freed(r) ELSE key
  /\ UNCHANGED <<lapsed, faulty>>

\* The script raises, or its caller is cancelled.
LeaveFails(r) ==
  /\ r \in Working /\ HasToken(r)
  /\ GoesOut(r)
  /\ key' \in {key, Freed(r)}
  /\ faulty' = faulty \cup {r}
  /\ UNCHANGED lapsed

\* The worker dies.
Dies(r) ==
  /\ r \in Working
  /\ GoesOut(r)
  /\ faulty' = faulty \cup {r}
  /\ UNCHANGED <<key, lapsed>>

\* Faulty variant of Expire: the key has no time to live.
ExpireNever == FALSE /\ UNCHANGED leaseVars

Expire ==
  /\ key # NoRun
  /\ key' = NoRun
  /\ lapsed' = lapsed \cup (Working \cap {key})
  /\ UNCHANGED <<stage, how, faulty>>

LeaseAtRest == (\A r \in Runs : stage[r] \in {"skipped", "done"}) /\ UNCHANGED leaseVars

LeaseNext ==
  \/ \E r \in Runs : \/ EnterWithoutRedis(r) \/ Enter(r) \/ EnterRefused(r)
                     \/ EnterFails(r) \/ EnterCancelled(r)
                     \/ LeaveLock(r) \/ LeaveFails(r) \/ Dies(r)
  \/ Expire \/ LeaseAtRest

LeaseSpec == LeaseInit /\ [][LeaseNext]_leaseVars

-----------------------------------------------------------------------------
(* Properties *)

\* Two runs that came in through the lock work at the same time only when the key
\* of one of them expired under it; a slow run's release does not let a third in.
OverlapHasACause ==
  \A r, s \in Working : r # s /\ how[r] = "lock" /\ how[s] = "lock" => r \in lapsed \/ s \in lapsed

\* The key of a run that is over stays only where the run was cancelled, died or
\* could not release it; a run that went on after an error cleans up as well.
KeyNotLeftBehind == key # NoRun /\ stage[key] = "done" => key \in faulty

\* A run's key keeps others out while the run works and no longer, through every
\* failure of Redis that the lock tolerates.
LeaseIsSafe == OverlapHasACause /\ KeyNotLeftBehind

\* Whatever became of a run, its key does not keep the next ones out for ever.
KeyIsFreed == []<>(key = NoRun)
=============================================================================
