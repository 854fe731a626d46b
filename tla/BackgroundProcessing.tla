------------------------ MODULE BackgroundProcessing ------------------------
(***************************************************************************)
(* The background processing of summary requests: the API handlers that     *)
(* create a request row and schedule an execution (submit_request,          *)
(* retry_request), BackgroundRequestExecutor.execute with its URL and       *)
(* forward handlers, the retry loop around every stage, the failure         *)
(* handler, and the lock of BackgroundLock taken around it all.             *)
(*                                                                          *)
(* Every step of an execution is one await of the code; between two of them *)
(* the other executions, of the same process or of another, take theirs.    *)
(***************************************************************************)
EXTENDS BackgroundLock

CONSTANTS
  UrlRequests,   \* the rows that are found by the dedupe_hash of a URL
  Users,
  Attempts,      \* cfg.background.retry_attempts
  MaxRedisFaults,  \* bound: calls of Redis that raise
  MaxDbFaults,     \* bound: calls of the database that raise
  MaxExpiries,   \* bound: keys that expire under an execution still at work
  MaxStops       \* bound: shutdowns and crashes of worker processes

ASSUME ProcessingAssumption ==
  /\ UrlRequests \subseteq Requests
  /\ Requests # {} /\ Workers # {} /\ Users # {}
  /\ Attempts \in Nat \ {0}
  /\ {MaxRedisFaults, MaxDbFaults, MaxExpiries, MaxStops} \subseteq Nat

VARIABLES
  status,    \* requests.status; "absent" before the row exists
  owner,     \* requests.user_id
  kind,      \* requests.type
  summary,   \* the request has a row in summaries
  event,     \* the last status published on processing:request:<id> since the row was
             \* scheduled last: PUBLISH retains nothing, so who follows from then on
             \* has heard no other
  pc,        \* where each execution is
  req, worker, user,   \* what it works on, where it runs, who submitted it
  loaded,    \* `request' is bound in execute()
  attempt,   \* the attempt of run_with_backoff
  stopping,  \* the process got its shutdown signal
  redisFaults, dbFaults, expiries, stops,  \* counters of the bounded events
  overlapped,  \* history: rows that two executions were at the same time midway through
  cutShort     \* history: rows an execution of which got no answer from the database or
               \* was stopped midway

rowVars == <<status, owner, kind, summary, event>>
jobVars == <<req, worker, user>>
faults == <<redisFaults, dbFaults, cutShort>>
envVars == <<stopping, faults, expiries, stops, overlapped>>
vars == <<lockVars, rowVars, pc, jobVars, loaded, attempt, envVars>>

Statuses == {"absent", "pending", "processing", "success", "error", "cancelled"}
Events == {"NONE", "PROCESSING", "COMPLETED", "FAILED", "CANCELLED"}
Kinds == {"url", "forward"}

Stages == {"extraction", "summarization", "validation"}
Scheduled == {"checked", "queued", "local", "waiting"}
TryBody == Stages \cup {"load", "check", "start", "save", "markSuccess",
                        "announceDone", "announceExisting"}
Handlers == {"persistError", "markError", "announceError",
             "markCancelled", "announceCancelled"}
Section == TryBody \cup Handlers \cup {"release"}
PCs == {"idle", "done"} \cup Scheduled \cup Section

TypeOK ==
  /\ LockTypeOK
  /\ status \in [Requests -> Statuses]
  /\ owner \in [Requests -> Users]
  /\ kind \in [Requests -> Kinds]
  /\ summary \in [Requests -> BOOLEAN]
  /\ event \in [Requests -> Events]
  /\ pc \in [Tasks -> PCs]
  /\ req \in [Tasks -> Requests]
  /\ worker \in [Tasks -> Workers]
  /\ user \in [Tasks -> Users]
  /\ loaded \in [Tasks -> BOOLEAN]
  /\ attempt \in [Tasks -> 1..Attempts]
  /\ stopping \in [Workers -> BOOLEAN]
  /\ redisFaults \in 0..MaxRedisFaults
  /\ dbFaults \in 0..MaxDbFaults
  /\ expiries \in 0..MaxExpiries
  /\ stops \in 0..MaxStops
  /\ overlapped \subseteq Requests /\ cutShort \subseteq Requests

Init ==
  /\ LockInit
  /\ status = [r \in Requests |-> "absent"]
  /\ owner = [r \in Requests |-> CHOOSE u \in Users : TRUE]
  /\ kind = [r \in Requests |-> "url"]
  /\ summary = [r \in Requests |-> FALSE]
  /\ event = [r \in Requests |-> "NONE"]
  /\ pc = [t \in Tasks |-> "idle"]
  /\ req = [t \in Tasks |-> CHOOSE r \in Requests : TRUE]
  /\ worker = [t \in Tasks |-> CHOOSE w \in Workers : TRUE]
  /\ user = [t \in Tasks |-> CHOOSE u \in Users : TRUE]
  /\ loaded = [t \in Tasks |-> FALSE]
  /\ attempt = [t \in Tasks |-> 1]
  /\ stopping = [w \in Workers |-> FALSE]
  /\ redisFaults = 0 /\ dbFaults = 0 /\ expiries = 0 /\ stops = 0
  /\ overlapped = {} /\ cutShort = {}

-----------------------------------------------------------------------------
(* Helpers *)

Goto(t, place) == pc' = [pc EXCEPT ![t] = place]
NoFault == UNCHANGED faults
RedisFault ==
  /\ redisFaults < MaxRedisFaults /\ redisFaults' = redisFaults + 1
  /\ UNCHANGED <<dbFaults, cutShort>>
\* A call of the database raises in an execution for row r.
DbFault(r) ==
  /\ dbFaults < MaxDbFaults /\ dbFaults' = dbFaults + 1
  /\ cutShort' = cutShort \cup {r}
  /\ UNCHANGED redisFaults
Own(w) == {t \in Tasks : pc[t] # "idle" /\ worker[t] = w}
Midway(t) == pc[t] \in TryBody \cup Handlers
MidwayIn(w) == {req[t] : t \in {x \in Own(w) : Midway(x)}}

\* _mark_status and persist_request_failure write requests.status and swallow
\* the database's exception: the write happens, or the old status stays.
WriteStatus(r, s) ==
  \/ status' = [status EXCEPT ![r] = s] /\ NoFault
  \/ UNCHANGED status /\ DbFault(r)

\* BackgroundProgressPublisher.publish swallows the exception of Redis.
Publish(r, e) ==
  \/ event' = [event EXCEPT ![r] = e] /\ NoFault
  \/ UNCHANGED event /\ RedisFault

\* A job of user u for row r is taken by process w.
Assign(t, u, w, r) ==
  /\ pc[t] = "idle" /\ ~stopping[w]
  /\ req' = [req EXCEPT ![t] = r]
  /\ worker' = [worker EXCEPT ![t] = w]
  /\ user' = [user EXCEPT ![t] = u]

\* A step of the section that touches neither the lock nor the job.
Quiet == UNCHANGED <<lockVars, owner, kind, jobVars, stopping, expiries, stops, overlapped>>

-----------------------------------------------------------------------------
(* The API handlers *)

\* check_duplicate_url: no row with this dedupe_hash, or one of another user.
CheckDuplicate(t, u, w, r) ==
  /\ Assign(t, u, w, r)
  /\ r \in UrlRequests
  /\ status[r] = "absent" \/ owner[r] # u
  /\ Goto(t, "checked")
  /\ UNCHANGED <<lockVars, rowVars, loaded, attempt, envVars>>

\* async_create_request: INSERT .. ON CONFLICT (dedupe_hash) DO UPDATE of every
\* column; then the background task is scheduled, and its follower has heard nothing.
CreateUrlRequest(t) ==
  /\ pc[t] = "checked"
  /\ status' = [status EXCEPT ![req[t]] = "pending"]
  /\ owner' = [owner EXCEPT ![req[t]] = user[t]]
  /\ kind' = [kind EXCEPT ![req[t]] = "url"]
  /\ event' = [event EXCEPT ![req[t]] = "NONE"]
  /\ Goto(t, "queued")
  /\ UNCHANGED <<lockVars, summary, jobVars, loaded, attempt, envVars>>

\* A row without dedupe_hash is always a new one.
NewRow(t, u, w, r, k) ==
  /\ Assign(t, u, w, r)
  /\ r \notin UrlRequests /\ status[r] = "absent"
  /\ status' = [status EXCEPT ![r] = "pending"]
  /\ owner' = [owner EXCEPT ![r] = u]
  /\ kind' = [kind EXCEPT ![r] = k]
  /\ Goto(t, "queued")
  /\ UNCHANGED <<lockVars, summary, event, loaded, attempt, envVars>>

CreateForwardRequest(t, u, w, r) == NewRow(t, u, w, r, "forward")

\* retry_failed_request's test of the original row.
RetryAccepted(r) == status[r] = "error"

RetryFailedRequest(t, w, original, r) ==
  /\ RetryAccepted(original)
  /\ NewRow(t, owner[original], w, r, kind[original])

-----------------------------------------------------------------------------
(* acquire(), before the try of execute(): an exception ends the execution *)

LockAcquired(t) ==
  /\ Goto(t, "load")
  /\ overlapped' = IF \E x \in Tasks : Midway(x) /\ req[x] = req[t]
                   THEN overlapped \cup {req[t]} ELSE overlapped
  /\ UNCHANGED <<rowVars, jobVars, loaded, attempt, stopping, faults, expiries, stops>>

AcquireRedis(t) ==
  /\ pc[t] = "queued"
  /\ RedisAcquire(t, req[t])
  /\ LockAcquired(t)

AcquireRedisHeld(t) ==
  /\ pc[t] = "queued"
  /\ RedisHeld(req[t])
  /\ Goto(t, IF config.skip THEN "done" ELSE "local")
  /\ UNCHANGED <<rowVars, jobVars, loaded, attempt, envVars>>

\* The exception becomes StageError("lock"), or counts as "not acquired".
AcquireRedisRaises(t) ==
  /\ pc[t] = "queued"
  /\ RedisRaises(t, req[t])
  /\ RedisFault
  /\ Goto(t, IF config.required \/ config.skip THEN "done" ELSE "local")
  /\ UNCHANGED <<rowVars, jobVars, loaded, attempt, stopping, expiries, stops, overlapped>>

AtLocal(t) == pc[t] = "local" \/ (pc[t] = "queued" /\ ~config.redis)

AcquireLocal(t) ==
  /\ AtLocal(t)
  /\ LocalAcquire(t, worker[t], req[t])
  /\ LockAcquired(t)

AcquireLocalHeld(t) ==
  /\ AtLocal(t)
  /\ LocalHeld(worker[t], req[t])
  /\ Goto(t, "done")
  /\ UNCHANGED <<rowVars, jobVars, loaded, attempt, envVars>>

WaitLocal(t) ==
  /\ AtLocal(t)
  /\ LocalWait(t, worker[t], req[t])
  /\ Goto(t, "waiting")
  /\ UNCHANGED <<rowVars, jobVars, loaded, attempt, envVars>>

GrantLocal(t) ==
  /\ pc[t] = "waiting"
  /\ LocalGrant(t)
  /\ LockAcquired(t)

-----------------------------------------------------------------------------
(* The body of execute() *)

\* async_get_request_by_id; a database error goes to the unexpected-error
\* handler with `request' still None.
Load(t) ==
  /\ pc[t] = "load"
  /\ \/ /\ loaded' = [loaded EXCEPT ![t] = TRUE]
        /\ Goto(t, "check") /\ NoFault
     \/ DbFault(req[t]) /\ Goto(t, "persistError") /\ UNCHANGED loaded
  /\ Quiet /\ UNCHANGED <<status, summary, event, attempt>>

\* Faulty variants of CheckSummary: the result is ignored; an exception counts
\* as "already summarized".
CheckSummaryIgnored(t) ==
  /\ pc[t] = "check"
  /\ Goto(t, "start") /\ NoFault
  /\ Quiet /\ UNCHANGED <<status, summary, event, loaded, attempt>>

CheckSummaryFailsOpen(t) ==
  /\ pc[t] = "check"
  /\ \/ Goto(t, IF summary[req[t]] THEN "announceExisting" ELSE "start") /\ NoFault
     \/ DbFault(req[t]) /\ Goto(t, "announceExisting")
  /\ Quiet /\ UNCHANGED <<status, summary, event, loaded, attempt>>

\* _has_existing_summary: an exception counts as "no summary".
CheckSummary(t) ==
  /\ pc[t] = "check"
  /\ \/ Goto(t, IF summary[req[t]] THEN "announceExisting" ELSE "start") /\ NoFault
     \/ DbFault(req[t]) /\ Goto(t, "start")
  /\ Quiet /\ UNCHANGED <<status, summary, event, loaded, attempt>>

\* "Already summarized": COMPLETED is published and the status left as it is.
AnnounceExisting(t) ==
  /\ pc[t] = "announceExisting"
  /\ Publish(req[t], "COMPLETED")
  /\ Goto(t, "release")
  /\ Quiet /\ UNCHANGED <<status, summary, loaded, attempt>>

FirstStage(k) == IF k = "url" THEN "extraction" ELSE "summarization"

\* Faulty variant of StageAfter: the summary is not saved before the status.
StageAfterUnsaved(k, s) ==
  CASE s = "extraction" -> "summarization"
    [] s = "summarization" /\ k = "url" -> "validation"
    [] OTHER -> "markSuccess"

StageAfter(k, s) ==
  CASE s = "extraction" -> "summarization"
    [] s = "summarization" /\ k = "url" -> "validation"
    [] OTHER -> "save"

MarkProcessing(t) ==
  /\ pc[t] = "start"
  /\ WriteStatus(req[t], "processing")
  /\ event' = [event EXCEPT ![req[t]] = "PROCESSING"]
  /\ Goto(t, FirstStage(kind[req[t]]))
  /\ Quiet /\ UNCHANGED <<summary, loaded, attempt>>

\* run_with_backoff returns a result and the handler goes on to the next stage.
StageSucceeds(t) ==
  /\ pc[t] \in Stages
  /\ event' = [event EXCEPT ![req[t]] = "PROCESSING"]
  /\ Goto(t, StageAfter(kind[req[t]], pc[t]))
  /\ attempt' = [attempt EXCEPT ![t] = 1]
  /\ Quiet /\ UNCHANGED <<status, summary, loaded, faults>>

\* The extractor or the model answered with nothing: StageError, no retry.
StageEmpty(t) ==
  /\ pc[t] \in {"extraction", "summarization"}
  /\ Goto(t, "persistError")
  /\ attempt' = [attempt EXCEPT ![t] = 1]
  /\ Quiet /\ UNCHANGED <<status, summary, event, loaded, faults>>

\* Faulty variant of StageRetries: one attempt too many.
StageRetriesOnceMore(t) ==
  /\ pc[t] \in Stages
  /\ attempt[t] <= Attempts
  /\ attempt' = [attempt EXCEPT ![t] = @ + 1]
  /\ Quiet /\ UNCHANGED <<pc, status, summary, event, loaded, faults>>

StageRetries(t) ==
  /\ pc[t] \in Stages
  /\ attempt[t] < Attempts
  /\ attempt' = [attempt EXCEPT ![t] = @ + 1]
  /\ Quiet /\ UNCHANGED <<pc, status, summary, event, loaded, faults>>

\* Faulty variant of StageFails: the failure is announced and not written.
StageFailsUnmarked(t) ==
  /\ pc[t] \in Stages
  /\ attempt[t] >= Attempts
  /\ Goto(t, "announceError")
  /\ attempt' = [attempt EXCEPT ![t] = 1]
  /\ Quiet /\ UNCHANGED <<status, summary, event, loaded, faults>>

StageFails(t) ==
  /\ pc[t] \in Stages
  /\ attempt[t] >= Attempts
  /\ Goto(t, "persistError")
  /\ attempt' = [attempt EXCEPT ![t] = 1]
  /\ Quiet /\ UNCHANGED <<status, summary, event, loaded, faults>>

\* async_upsert_summary commits, or raises with or without having committed.
SaveSummary(t) ==
  /\ pc[t] = "save"
  /\ \/ /\ summary' = [summary EXCEPT ![req[t]] = TRUE]
        /\ Goto(t, "markSuccess") /\ NoFault
     \/ /\ summary' \in {summary, [summary EXCEPT ![req[t]] = TRUE]}
        /\ Goto(t, "persistError") /\ DbFault(req[t])
  /\ Quiet /\ UNCHANGED <<status, event, loaded, attempt>>

MarkSuccess(t) ==
  /\ pc[t] = "markSuccess"
  /\ WriteStatus(req[t], "success")
  /\ Goto(t, "announceDone")
  /\ Quiet /\ UNCHANGED <<summary, event, loaded, attempt>>

AnnounceDone(t) ==
  /\ pc[t] = "announceDone"
  /\ Publish(req[t], "COMPLETED")
  /\ Goto(t, "release")
  /\ Quiet /\ UNCHANGED <<status, summary, loaded, attempt>>

-----------------------------------------------------------------------------
(* handle_stage_error, handle_unexpected_error and handle_cancelled *)

PersistFailure(t) ==
  /\ pc[t] = "persistError"
  /\ WriteStatus(req[t], "error")
  /\ Goto(t, IF loaded[t] THEN "markError" ELSE "announceError")
  /\ Quiet /\ UNCHANGED <<summary, event, loaded, attempt>>

\* Faulty variant of MarkError: nothing is published after it.
MarkErrorUnannounced(t) ==
  /\ pc[t] = "markError"
  /\ WriteStatus(req[t], "error")
  /\ Goto(t, "release")
  /\ Quiet /\ UNCHANGED <<summary, event, loaded, attempt>>

MarkError(t) ==
  /\ pc[t] = "markError"
  /\ WriteStatus(req[t], "error")
  /\ Goto(t, "announceError")
  /\ Quiet /\ UNCHANGED <<summary, event, loaded, attempt>>

AnnounceError(t) ==
  /\ pc[t] = "announceError"
  /\ Publish(req[t], "FAILED")
  /\ Goto(t, "release")
  /\ Quiet /\ UNCHANGED <<status, summary, loaded, attempt>>

MarkCancelled(t) ==
  /\ pc[t] = "markCancelled"
  /\ WriteStatus(req[t], "cancelled")
  /\ Goto(t, "announceCancelled")
  /\ Quiet /\ UNCHANGED <<summary, event, loaded, attempt>>

AnnounceCancelled(t) ==
  /\ pc[t] = "announceCancelled"
  /\ Publish(req[t], "CANCELLED")
  /\ Goto(t, "release")
  /\ Quiet /\ UNCHANGED <<status, summary, loaded, attempt>>

\* The finally: the lock is released on every way out of the try.
Release(t) ==
  /\ pc[t] = "release"
  /\ \/ RedisRelease(t, req[t]) /\ NoFault
     \/ RedisReleaseRaises(t) /\ RedisFault
     \/ LocalRelease(t, worker[t], req[t]) /\ NoFault
  /\ Goto(t, "done")
  /\ loaded' = [loaded EXCEPT ![t] = FALSE]
  /\ UNCHANGED <<rowVars, jobVars, attempt, stopping, expiries, stops, overlapped>>

-----------------------------------------------------------------------------
(* The environment *)

\* lock_ttl_ms after SET: an execution still at work may outlast its key.
KeyExpiresEarly(r) ==
  /\ RedisExpire(r)
  /\ pc[redisKey[r]] # "done"
  /\ expiries < MaxExpiries /\ expiries' = expiries + 1
  /\ UNCHANGED <<rowVars, pc, jobVars, loaded, attempt, stopping, faults, stops, overlapped>>

\* A key left behind by an execution that is gone.
KeyExpires(r) ==
  /\ RedisExpire(r)
  /\ pc[redisKey[r]] = "done"
  /\ UNCHANGED <<rowVars, pc, jobVars, loaded, attempt, envVars>>

\* Shutdown of the event loop: every task of the process gets CancelledError at
\* its await.  In the try it is handled, in a handler only `finally' still runs.
CancelledAt(t) ==
  CASE pc[t] \in Scheduled -> "done"
    [] pc[t] \in TryBody -> IF loaded[t] THEN "markCancelled" ELSE "announceCancelled"
    [] pc[t] \in Handlers -> "release"
    [] OTHER -> pc[t]

Shutdown(w) ==
  /\ ~stopping[w] /\ stops < MaxStops
  /\ stopping' = [stopping EXCEPT ![w] = TRUE]
  /\ stops' = stops + 1
  /\ pc' = [t \in Tasks |-> IF t \in Own(w) THEN CancelledAt(t) ELSE pc[t]]
  /\ attempt' = [t \in Tasks |-> IF t \in Own(w) THEN 1 ELSE attempt[t]]
  /\ WaitersLeave(Own(w))
  /\ cutShort' = cutShort \cup MidwayIn(w)
  /\ UNCHANGED <<rowVars, jobVars, loaded, redisFaults, dbFaults, expiries, overlapped>>

\* The process is killed: nothing more of it runs.
Crash(w) ==
  /\ stops < MaxStops /\ stops' = stops + 1
  /\ stopping' = [stopping EXCEPT ![w] = FALSE]
  /\ pc' = [t \in Tasks |-> IF t \in Own(w) THEN "done" ELSE pc[t]]
  /\ loaded' = [t \in Tasks |-> IF t \in Own(w) THEN FALSE ELSE loaded[t]]
  /\ attempt' = [t \in Tasks |-> IF t \in Own(w) THEN 1 ELSE attempt[t]]
  /\ ProcessEnds(w, Own(w))
  /\ cutShort' = cutShort \cup MidwayIn(w)
  /\ UNCHANGED <<rowVars, jobVars, redisFaults, dbFaults, expiries, overlapped>>

\* The stopped process is replaced; no code looks for the rows it left behind.
Restart(w) ==
  /\ stopping[w] /\ \A t \in Own(w) : pc[t] = "done"
  /\ stopping' = [stopping EXCEPT ![w] = FALSE]
  /\ ProcessEnds(w, Own(w))
  /\ UNCHANGED <<rowVars, pc, jobVars, loaded, attempt, faults, expiries, stops, overlapped>>

-----------------------------------------------------------------------------

Submission(t) ==
  \/ \E u \in Users, w \in Workers, r \in Requests :
       \/ CheckDuplicate(t, u, w, r)
       \/ CreateForwardRequest(t, u, w, r)
  \/ \E w \in Workers, original, r \in Requests : RetryFailedRequest(t, w, original, r)

Acquisition(t) ==
  \/ AcquireRedis(t) \/ AcquireRedisHeld(t) \/ AcquireRedisRaises(t)
  \/ AcquireLocal(t) \/ AcquireLocalHeld(t) \/ WaitLocal(t) \/ GrantLocal(t)

Processing(t) ==
  \/ Load(t) \/ CheckSummary(t) \/ AnnounceExisting(t) \/ MarkProcessing(t)
  \/ StageSucceeds(t) \/ StageEmpty(t) \/ StageRetries(t) \/ StageFails(t)
  \/ SaveSummary(t) \/ MarkSuccess(t) \/ AnnounceDone(t)

Conclusion(t) ==
  \/ PersistFailure(t) \/ MarkError(t) \/ AnnounceError(t)
  \/ MarkCancelled(t) \/ AnnounceCancelled(t) \/ Release(t)

Execution(t) == CreateUrlRequest(t) \/ Acquisition(t) \/ Processing(t) \/ Conclusion(t)

Environment ==
  \/ \E r \in Requests : KeyExpiresEarly(r) \/ KeyExpires(r)
  \/ \E w \in Workers : Shutdown(w) \/ Crash(w) \/ Restart(w)

\* Between requests the API waits for the next one.
Idle == (\A t \in Tasks : pc[t] \in {"idle", "done"}) /\ UNCHANGED vars

Next == (\E t \in Tasks : Submission(t) \/ Execution(t)) \/ Environment \/ Idle

Spec == Init /\ [][Next]_vars

\* The event loop resumes every task whose await is over, and every await of an
\* execution ends (calls have timeouts); Redis drops the keys of dead owners.
FairSpec ==
  /\ Spec
  /\ \A t \in Tasks : WF_vars(Execution(t))
  /\ \A r \in Requests : WF_vars(KeyExpires(r))

-----------------------------------------------------------------------------
(* Properties *)

Inside(t) == pc[t] \in Section

\* Executions that the lock is meant to keep apart: same row, and under the
\* process-local lock also the same process.
Compete(t1, t2) ==
  /\ t1 # t2 /\ req[t1] = req[t2]
  /\ config.redis \/ worker[t1] = worker[t2]

\* Where a held lock means "skip" (the default), at most one execution works on a
\* request, unless the key of one of the two expired under it (locking.py acquire
\* and release).
MutualExclusion ==
  config.skip => \A t1, t2 \in Tasks :
    Inside(t1) /\ Inside(t2) /\ Compete(t1, t2) => lapsed[t1] \/ lapsed[t2]

\* A row says "success" only when its summary is stored, whatever fails, is
\* cancelled, crashes or runs twice (executor.py marks after the handler saved).
SuccessHasSummary == \A r \in Requests : status[r] = "success" => summary[r]

\* Subscribers are told COMPLETED only of a request whose summary is stored.
CompletedHasSummary == \A r \in Requests : event[r] = "COMPLETED" => summary[r]

\* Neither the row nor the event channel announces a success without a stored summary.
FinishedHasSummary == SuccessHasSummary /\ CompletedHasSummary

\* No lock object stays in _local_locks after its holder left: an entry of the
\* dictionary is a lock that an execution of that process holds for that row.
NoLocalLeak ==
  \A w \in Workers, r \in Requests :
    LET l == localLocks[w][r] IN
    l # NoTask => /\ Locked(l)
                  /\ Inside(lockOwner[l])
                  /\ req[lockOwner[l]] = r /\ worker[lockOwner[l]] = w

\* The process-local lock, when Redis is off: it excludes and it is given back.
LocalLockIsSafe == MutualExclusion /\ NoLocalLeak

\* Rows on which something went wrong under an execution.
Disturbed == overlapped \cup cutShort

\* The rows whose lock expired under an execution.
LostLocks == {req[t] : t \in {x \in Tasks : lapsed[x]}}

\* Where every execution of a row asks for the same lock and leaves when it is held,
\* two are midway at the same time only after the row's key expired under one: no Redis
\* error, crash, restart or cancellation lets a second one in (locking.py).
OnlyExpiryOverlaps ==
  config.skip /\ (config.redis \/ \A v, w \in Workers : v = w) => overlapped \subseteq LostLocks

\* The stages run at most once per request: a summary that is stored is never
\* stored again, except for a row with overlapping or interrupted executions.
SavedOnce ==
  [][\A t \in Tasks :
       pc[t] = "save" /\ pc'[t] = "markSuccess" => ~summary[req[t]] \/ req[t] \in Disturbed]_vars

\* A finished request is only ever reopened by a new submission of its URL: no
\* late or second execution turns "success" into something else, with the same exception.
SuccessIsFinal ==
  [][\A r \in Requests :
       status[r] = "success" /\ status'[r] # "success"
         => \/ \E t \in Tasks : pc[t] = "checked" /\ pc'[t] = "queued" /\ req[t] = r
            \/ r \in Disturbed]_vars

\* What one execution has achieved no other execution repeats or undoes.
ResultsStand == SavedOnce /\ SuccessIsFinal

\* The executions between "processing" and the end of the handler.
Working == Stages \cup {"save", "persistError", "markSuccess"}

\* A row that says "processing" is being processed, or an execution of it was cut short:
\* errors, overlaps and lost locks alone leave no row behind, which nobody would look for
\* (executor.py marks it, and retry_failed_request accepts "error" only).
ProcessingIsTended ==
  \A r \in Requests :
    status[r] = "processing" => r \in cutShort \/ \E t \in Tasks : pc[t] \in Working /\ req[t] = r

\* A finished row or event has its summary, and an unfinished row has somebody at work.
RowsAreTrue == FinishedHasSummary /\ ProcessingIsTended

\* Every scheduled execution comes to its end: it is skipped, or it gets the
\* lock, finishes and gives it back.
EveryExecutionEnds == \A t \in Tasks : pc[t] = "queued" ~> pc[t] = "done"

Terminal == {"success", "error", "cancelled"}

Told(r) == event[r] \in {"COMPLETED", "FAILED"}

\* A follower of row r is to hear of it: from its own execution, which has the lock, or from
\* the one that is midway when its own is scheduled.
Awaited(r) ==
  \E t \in Tasks :
    /\ req[t] = r
    /\ pc[t] = "load" \/ (pc[t] = "queued" /\ \E s \in Tasks : Midway(s) /\ req[s] = r)

\* Whoever follows a scheduled request hears how it ends, whatever fails in the database,
\* unless its process is stopped: from its own execution if that gets the lock, and else
\* from the one that keeps it out, if that one is still midway: an execution that has
\* announced its end and only has its lock to release may keep out a second one as well,
\* whose follower hears nothing.
SubscribersTold == \A r \in Requests : Awaited(r) ~> Told(r) \/ stops > 0

\* The polling lifecycle of the web client: a pending request ends in a final status.
PendingSettles ==
  \A r \in Requests : status[r] = "pending" ~> status[r] \in Terminal

\* Any number of executions in any number of processes, under every setting of the lock
\* and whatever fails, keep the lifecycle of RequestLifecycle; a row that was disturbed, and
\* no other, falls back to the weaker promise.
Lifecycle == INSTANCE RequestLifecycle
               WITH status <- status, summary <- summary, disturbed <- Disturbed
ImplementsLifecycle == Lifecycle!Spec

=============================================================================
