--------------------- MODULE BackgroundProcessing_proofs ---------------------
(***************************************************************************)
(* Theorems about BackgroundProcessing for every number of rows, processes, *)
(* executions and faults, and for every setting of the lock:                *)
(*   - every variable keeps its type;                                       *)
(*   - success and COMPLETED imply a stored summary;                        *)
(*   - where a held lock means "skip", executions of one row exclude each   *)
(*     other unless a Redis key expired under one of them;                  *)
(*   - no lock object of a process stays in its dictionary unheld;          *)
(*   - where one lock covers all executions of a row, only an expired key   *)
(*     lets two of them overlap;                                            *)
(*   - no execution repeats or overwrites what another achieved, and the    *)
(*     executions implement the lifecycle of RequestLifecycle, but on the   *)
(*     rows whose executions overlapped or were cut short;                  *)
(*   - a row that says "processing" is being processed, or was cut short.   *)
(***************************************************************************)
EXTENDS BackgroundProcessing, SequenceTheorems, TLAPS

-----------------------------------------------------------------------------
(* The operations of the lock keep the lock's types. *)

\* The key of a row is taken, found held, lost or given back.
LEMMA RedisTypes ==
  ASSUME LockTypeOK, NEW t \in Tasks, NEW r \in Requests,
         \/ RedisAcquire(t, r) \/ RedisHeld(r) \/ RedisRaises(t, r)
         \/ RedisExpire(r) \/ RedisRelease(t, r) \/ RedisReleaseRaises(t)
  PROVE  LockTypeOK'
<1> USE DEF LockTypeOK, localVars, Sources
<1>1. CASE RedisAcquire(t, r)
  BY <1>1 DEF RedisAcquire
<1>2. CASE RedisHeld(r)
  BY <1>2 DEF RedisHeld, lockVars
<1>3. CASE RedisRaises(t, r)
  BY <1>3 DEF RedisRaises
<1>4. CASE RedisExpire(r)
  BY <1>4 DEF RedisExpire
<1>5. CASE RedisRelease(t, r)
  BY <1>5 DEF RedisRelease
<1>6. CASE RedisReleaseRaises(t)
  BY <1>6 DEF RedisReleaseRaises
<1> QED BY <1>1, <1>2, <1>3, <1>4, <1>5, <1>6

\* A process-local lock is taken, found held or given back.
LEMMA LocalTypes ==
  ASSUME LockTypeOK, NEW t \in Tasks, NEW w \in Workers, NEW r \in Requests,
         LocalAcquire(t, w, r) \/ LocalHeld(w, r) \/ LocalRelease(t, w, r)
  PROVE  LockTypeOK'
<1> USE DEF LockTypeOK, Sources
<1>1. CASE LocalAcquire(t, w, r)
  <2>1. LocalObject(t, w, r) \in Tasks
    BY DEF LocalObject
  <2>2. localLocks' \in [Workers -> [Requests -> Tasks \cup {NoTask}]]
    BY <1>1, <2>1 DEF LocalAcquire
  <2> QED BY <1>1, <2>1, <2>2 DEF LocalAcquire
<1>2. CASE LocalHeld(w, r)
  BY <1>2 DEF LocalHeld, lockVars
<1>3. CASE LocalRelease(t, w, r)
  <2>1. localLocks' \in [Workers -> [Requests -> Tasks \cup {NoTask}]]
    BY <1>3 DEF LocalRelease
  <2> QED BY <1>3, <2>1 DEF LocalRelease
<1> QED BY <1>1, <1>2, <1>3

\* An execution that finds the lock object locked joins its waiters.
LEMMA WaitTypes ==
  ASSUME LockTypeOK, NEW t \in Tasks, NEW w \in Workers, NEW r \in Requests,
         LocalWait(t, w, r)
  PROVE  LockTypeOK'
<1> DEFINE l == LocalObject(t, w, r)
<1>1. l \in Tasks
  BY DEF LockTypeOK, LocalObject
<1>2. Append(lockQueue[l], t) \in Seq(Tasks)
  BY <1>1 DEF LockTypeOK
<1>3. lockQueue' \in [Tasks -> Seq(Tasks)]
  BY <1>1, <1>2 DEF LockTypeOK, LocalWait
<1> QED BY <1>1, <1>3 DEF LockTypeOK, LocalWait

\* The first waiter is given the lock object.
LEMMA GrantTypes ==
  ASSUME LockTypeOK, NEW t \in Tasks, LocalGrant(t)
  PROVE  LockTypeOK'
<1> DEFINE l == lockObj[t]
<1>1. l \in Tasks \cup {NoTask}
  BY DEF LockTypeOK
<1>2. lockQueue' \in [Tasks -> Seq(Tasks)]
  <2>1. CASE l \in Tasks
    <3>1. lockQueue[l] \in Seq(Tasks) /\ lockQueue[l] # <<>>
      BY <2>1 DEF LockTypeOK, LocalGrant
    <3>2. Tail(lockQueue[l]) \in Seq(Tasks)
      BY <3>1, HeadTailProperties
    <3> QED BY <3>2 DEF LockTypeOK, LocalGrant
  <2>2. CASE l \notin Tasks
    BY <2>2 DEF LockTypeOK, LocalGrant
  <2> QED BY <2>1, <2>2
<1> QED BY <1>2 DEF LockTypeOK, LocalGrant, Sources

\* The executions of a process that ended hold and await nothing.
LEMMA EndTypes ==
  ASSUME LockTypeOK, NEW w \in Workers, NEW own \in SUBSET Tasks,
         WaitersLeave(own) \/ ProcessEnds(w, own)
  PROVE  LockTypeOK'
<1>1. lockQueue' \in [Tasks -> Seq(Tasks)]
  BY EmptySeq, ZenonT(30) DEF LockTypeOK, WaitersLeave, ProcessEnds
<1>2. CASE WaitersLeave(own)
  BY <1>1, <1>2 DEF LockTypeOK, WaitersLeave
<1>3. CASE ProcessEnds(w, own)
  <2>1. localLocks' \in [Workers -> [Requests -> Tasks \cup {NoTask}]]
    BY <1>3 DEF LockTypeOK, ProcessEnds
  <2> QED BY <1>1, <1>3, <2>1 DEF LockTypeOK, Sources, ProcessEnds
<1> QED BY <1>2, <1>3

-----------------------------------------------------------------------------
(* Every step keeps the types of the other variables. *)

\* A submission keeps the types, from the duplicate check to the enqueued task.
LEMMA SubmissionTypes ==
  ASSUME TypeOK, NEW t \in Tasks, Submission(t)
  PROVE  TypeOK'
<1> USE DEF TypeOK, Statuses, Kinds, PCs, Scheduled
<1>1. CASE \E u \in Users, w \in Workers, r \in Requests : CheckDuplicate(t, u, w, r)
  BY <1>1 DEF CheckDuplicate, Assign, Goto, lockVars, LockTypeOK, rowVars, envVars, faults
<1>2. ASSUME NEW u \in Users, NEW w \in Workers, NEW r \in Requests, NEW k \in Kinds,
             NewRow(t, u, w, r, k)
      PROVE  TypeOK'
  BY <1>2 DEF NewRow, Assign, Goto, lockVars, LockTypeOK, envVars, faults
<1>3. CASE \E u \in Users, w \in Workers, r \in Requests : CreateForwardRequest(t, u, w, r)
  BY <1>2, <1>3 DEF CreateForwardRequest
<1>4. CASE \E w \in Workers, original, r \in Requests : RetryFailedRequest(t, w, original, r)
  <2>1. PICK w \in Workers, original \in Requests, r \in Requests : RetryFailedRequest(t, w, original, r)
    BY <1>4
  <2>2. owner[original] \in Users /\ kind[original] \in Kinds
    OBVIOUS
  <2>3. NewRow(t, owner[original], w, r, kind[original])
    BY <2>1 DEF RetryFailedRequest
  <2>. QED BY <1>2, <2>2, <2>3
<1> QED BY <1>1, <1>3, <1>4 DEF Submission

\* Asking for the lock keeps the types, whatever the answer.
LEMMA AcquisitionTypes ==
  ASSUME TypeOK, NEW t \in Tasks, Acquisition(t)
  PROVE  TypeOK'
<1>1. LockTypeOK' /\ pc' \in [Tasks -> PCs]
  <2> USE DEF TypeOK, PCs, Scheduled, Section, TryBody, LockAcquired, Goto
  <2>1. CASE AcquireRedis(t)
    BY <2>1, RedisTypes DEF AcquireRedis
  <2>2. CASE AcquireRedisHeld(t)
    BY <2>2, RedisTypes DEF AcquireRedisHeld
  <2>3. CASE AcquireRedisRaises(t)
    BY <2>3, RedisTypes DEF AcquireRedisRaises
  <2>4. CASE AcquireLocal(t)
    BY <2>4, LocalTypes DEF AcquireLocal
  <2>5. CASE AcquireLocalHeld(t)
    BY <2>5, LocalTypes DEF AcquireLocalHeld
  <2>6. CASE WaitLocal(t)
    BY <2>6, WaitTypes DEF WaitLocal
  <2>7. CASE GrantLocal(t)
    BY <2>7, GrantTypes DEF GrantLocal
  <2> QED BY <2>1, <2>2, <2>3, <2>4, <2>5, <2>6, <2>7 DEF Acquisition
<1>2. /\ redisFaults' \in 0..MaxRedisFaults
      /\ UNCHANGED <<rowVars, jobVars, loaded, attempt, stopping, dbFaults, cutShort, expiries, stops>>
  BY ProcessingAssumption
     DEF TypeOK, Acquisition, AcquireRedis, AcquireRedisHeld, AcquireRedisRaises, AcquireLocal,
         AcquireLocalHeld, WaitLocal, GrantLocal, LockAcquired, RedisFault, envVars, faults
<1>3. overlapped' \subseteq overlapped \cup {req[t]}
  BY DEF Acquisition, AcquireRedis, AcquireRedisHeld, AcquireRedisRaises, AcquireLocal,
         AcquireLocalHeld, WaitLocal, GrantLocal, LockAcquired, envVars
<1> QED BY <1>1, <1>2, <1>3 DEF TypeOK, rowVars, jobVars

\* A step away from the locks keeps their types.
LEMMA QuietTypes == ASSUME LockTypeOK, UNCHANGED lockVars PROVE LockTypeOK'
BY DEF LockTypeOK, lockVars

\* The faults stay within their bounds.
LEMMA FaultTypes ==
  ASSUME TypeOK, NEW r \in Requests, NoFault \/ RedisFault \/ DbFault(r)
  PROVE  /\ redisFaults' \in 0..MaxRedisFaults /\ dbFaults' \in 0..MaxDbFaults
         /\ cutShort' \subseteq Requests
BY ProcessingAssumption DEF TypeOK, NoFault, RedisFault, DbFault, faults

\* The stages of the work keep the types, with their retries.
LEMMA ProcessingTypes ==
  ASSUME TypeOK, NEW t \in Tasks, Processing(t)
  PROVE  TypeOK'
<1> USE QuietTypes, FaultTypes
    DEF TypeOK, Statuses, Events, PCs, Section, TryBody, Handlers, Stages, Goto, Quiet,
        WriteStatus, Publish, jobVars
<1>1. CASE Load(t)
  BY <1>1 DEF Load
<1>2. CASE CheckSummary(t)
  BY <1>2 DEF CheckSummary
<1>3. CASE AnnounceExisting(t)
  BY <1>3 DEF AnnounceExisting
<1>4. CASE MarkProcessing(t)
  BY <1>4 DEF MarkProcessing, FirstStage
<1>5. CASE StageSucceeds(t)
  BY <1>5, ProcessingAssumption DEF StageSucceeds, StageAfter, NoFault
<1>6. CASE StageEmpty(t)
  BY <1>6, ProcessingAssumption DEF StageEmpty, NoFault
<1>7. CASE StageRetries(t)
  BY <1>7, ProcessingAssumption DEF StageRetries, NoFault
<1>8. CASE StageFails(t)
  BY <1>8, ProcessingAssumption DEF StageFails, NoFault
<1>9. CASE SaveSummary(t)
  BY <1>9 DEF SaveSummary
<1>10. CASE MarkSuccess(t)
  BY <1>10 DEF MarkSuccess
<1>11. CASE AnnounceDone(t)
  BY <1>11 DEF AnnounceDone
<1> QED BY <1>1, <1>2, <1>3, <1>4, <1>5, <1>6, <1>7, <1>8, <1>9, <1>10, <1>11 DEF Processing

\* The end of an execution keeps the types: status, event and release.
LEMMA ConclusionTypes ==
  ASSUME TypeOK, NEW t \in Tasks, Conclusion(t)
  PROVE  TypeOK'
<1> USE FaultTypes DEF TypeOK, Statuses, Events, PCs, Section, Handlers, Goto
<1>1. CASE PersistFailure(t)
  BY <1>1, QuietTypes DEF PersistFailure, WriteStatus, Quiet, jobVars
<1>2. CASE MarkError(t)
  BY <1>2, QuietTypes DEF MarkError, WriteStatus, Quiet, jobVars
<1>3. CASE AnnounceError(t)
  BY <1>3, QuietTypes DEF AnnounceError, Publish, Quiet, jobVars
<1>4. CASE MarkCancelled(t)
  BY <1>4, QuietTypes DEF MarkCancelled, WriteStatus, Quiet, jobVars
<1>5. CASE AnnounceCancelled(t)
  BY <1>5, QuietTypes DEF AnnounceCancelled, Publish, Quiet, jobVars
<1>6. CASE Release(t)
  <2>1. LockTypeOK'
    BY <1>6, RedisTypes, LocalTypes DEF Release
  <2> QED BY <1>6, <2>1 DEF Release, rowVars, jobVars
<1> QED BY <1>1, <1>2, <1>3, <1>4, <1>5, <1>6 DEF Conclusion

\* Expiry, crash, restart, shutdown and retry requests keep the types.
LEMMA EnvironmentTypes ==
  ASSUME TypeOK, Environment
  PROVE  TypeOK'
<1> USE ProcessingAssumption
    DEF TypeOK, PCs, Section, TryBody, Handlers, Stages, rowVars, jobVars, envVars, faults
<1>1. CASE \E r \in Requests : KeyExpiresEarly(r) \/ KeyExpires(r)
  <2> PICK r \in Requests : KeyExpiresEarly(r) \/ KeyExpires(r)
    BY <1>1
  <2>1. LockTypeOK'
    BY DEF KeyExpiresEarly, KeyExpires, RedisExpire, LockTypeOK, localVars
  <2> QED BY <2>1 DEF KeyExpiresEarly, KeyExpires
<1>2. ASSUME NEW w \in Workers, Shutdown(w)
      PROVE  TypeOK'
  <2>1. LockTypeOK'
    BY <1>2, EndTypes DEF Shutdown, Own
  <2>2. \A t \in Tasks : CancelledAt(t) \in PCs
    BY DEF CancelledAt
  <2>3. pc' \in [Tasks -> PCs]
    BY <1>2, <2>2 DEF Shutdown
  <2>4. cutShort' \subseteq Requests
    BY <1>2 DEF Shutdown, MidwayIn, Own
  <2> QED BY <1>2, <2>1, <2>3, <2>4 DEF Shutdown
<1>3. ASSUME NEW w \in Workers, Crash(w)
      PROVE  TypeOK'
  <2>1. LockTypeOK'
    BY <1>3, EndTypes DEF Crash, Own
  <2>2. pc' \in [Tasks -> PCs]
    BY <1>3 DEF Crash
  <2>3. loaded' \in [Tasks -> BOOLEAN]
    BY <1>3 DEF Crash
  <2>4. attempt' \in [Tasks -> 1..Attempts]
    BY <1>3 DEF Crash
  <2>5. stops' \in 0..MaxStops /\ stopping' \in [Workers -> BOOLEAN]
    BY <1>3 DEF Crash
  <2>6. cutShort' \subseteq Requests
    BY <1>3 DEF Crash, MidwayIn, Own
  <2> QED BY <1>3, <2>1, <2>2, <2>3, <2>4, <2>5, <2>6 DEF Crash
<1>4. ASSUME NEW w \in Workers, Restart(w)
      PROVE  TypeOK'
  <2>1. LockTypeOK'
    BY <1>4, EndTypes DEF Restart, Own
  <2> QED BY <1>4, <2>1 DEF Restart
<1> QED BY <1>1, <1>2, <1>3, <1>4 DEF Environment

\* Every variable keeps its type: no step of an execution, of a submission or of
\* the environment leaves a row, a lock or a counter in a state the code has no
\* name for, and the budget of retries of a stage is never exceeded.
THEOREM TypeCorrect == Spec => []TypeOK
<1>1. Init => TypeOK
  <2> SUFFICES ASSUME Init PROVE TypeOK
    OBVIOUS
  <2>1. LockTypeOK
    BY EmptySeq DEF Init, LockInit, LockTypeOK, Sources
  <2> QED BY <2>1, ProcessingAssumption
          DEF Init, TypeOK, Statuses, Events, Kinds, PCs
<1>2. TypeOK /\ [Next]_vars => TypeOK'
  <2> SUFFICES ASSUME TypeOK, [Next]_vars PROVE TypeOK'
    OBVIOUS
  <2>1. CASE \E t \in Tasks : Submission(t)
    BY <2>1, SubmissionTypes
  <2>2. CASE \E t \in Tasks : CreateUrlRequest(t)
    BY <2>2, QuietTypes
       DEF CreateUrlRequest, TypeOK, Statuses, Events, Kinds, PCs, Scheduled, Goto, jobVars, envVars, faults
  <2>3. CASE \E t \in Tasks : Acquisition(t) \/ Processing(t) \/ Conclusion(t)
    BY <2>3, AcquisitionTypes, ProcessingTypes, ConclusionTypes
  <2>4. CASE Environment
    BY <2>4, EnvironmentTypes
  <2>5. CASE UNCHANGED vars
    BY <2>5, QuietTypes DEF vars, rowVars, jobVars, envVars, faults, TypeOK
  <2> QED BY <2>1, <2>2, <2>3, <2>4, <2>5 DEF Next, Execution, Idle
<1> QED BY <1>1, <1>2, PTL DEF Spec

-----------------------------------------------------------------------------
(* A status or an event that says "done" is written only by an execution     *)
(* that has seen the summary stored, and summaries are never deleted.        *)

Vouches == {"markSuccess", "announceDone", "announceExisting"}

\* The executions about to write "success" or COMPLETED know of a summary.
VouchedFor == \A t \in Tasks : pc[t] \in Vouches => summary[req[t]]

SummaryInv == VouchedFor /\ SuccessHasSummary /\ CompletedHasSummary

\* No step deletes a summary.
LEMMA SummariesStay ==
  ASSUME TypeOK, Next
  PROVE  \A r \in Requests : summary[r] => summary'[r]
<1> USE DEF rowVars
<1>1. CASE \E t \in Tasks : Submission(t) \/ CreateUrlRequest(t) \/ Acquisition(t)
  BY <1>1 DEF Submission, CheckDuplicate, CreateForwardRequest, RetryFailedRequest, NewRow,
              CreateUrlRequest, Acquisition, AcquireRedis, AcquireRedisHeld,
              AcquireRedisRaises, AcquireLocal, AcquireLocalHeld, WaitLocal, GrantLocal,
              LockAcquired
<1>2. ASSUME NEW t \in Tasks, Processing(t)
      PROVE  \A r \in Requests : summary[r] => summary'[r]
  <2>1. CASE SaveSummary(t)
    BY <2>1 DEF SaveSummary, TypeOK
  <2>2. CASE ~SaveSummary(t)
    BY <1>2, <2>2 DEF Processing, Load, CheckSummary, AnnounceExisting, MarkProcessing,
              StageSucceeds, StageEmpty, StageRetries, StageFails, MarkSuccess, AnnounceDone
  <2> QED BY <2>1, <2>2
<1>3. CASE \E t \in Tasks : Conclusion(t)
  BY <1>3 DEF Conclusion, PersistFailure, MarkError, AnnounceError, MarkCancelled,
              AnnounceCancelled, Release
<1>4. CASE Environment \/ Idle
  BY <1>4 DEF Environment, KeyExpiresEarly, KeyExpires, Shutdown, Crash, Restart, Idle, vars
<1> QED BY <1>1, <1>2, <1>3, <1>4 DEF Next, Execution

\* Who comes to vouch for a summary has stored it, or has found it.
LEMMA VouchedForStep ==
  ASSUME TypeOK, VouchedFor, Next
  PROVE  VouchedFor'
<1> SUFFICES ASSUME NEW t \in Tasks, pc'[t] \in Vouches PROVE summary'[req'[t]]
  BY DEF VouchedFor
<1> USE DEF TypeOK, Vouches, Goto
<1>1. CASE \E x \in Tasks : Submission(x)
  BY <1>1 DEF VouchedFor, Submission, CheckDuplicate, CreateForwardRequest,
              RetryFailedRequest, NewRow, Assign, rowVars
<1>2. CASE \E x \in Tasks : CreateUrlRequest(x) \/ Acquisition(x)
  BY <1>2 DEF VouchedFor, CreateUrlRequest, Acquisition, AcquireRedis, AcquireRedisHeld,
              AcquireRedisRaises, AcquireLocal, AcquireLocalHeld, WaitLocal, GrantLocal,
              LockAcquired, rowVars, jobVars
<1>3. ASSUME NEW x \in Tasks, Processing(x)
      PROVE  summary'[req'[t]]
  <2>1. req' = req
    BY <1>3 DEF Processing, Load, CheckSummary, AnnounceExisting, MarkProcessing,
                StageSucceeds, StageEmpty, StageRetries, StageFails, SaveSummary,
                MarkSuccess, AnnounceDone, Quiet, jobVars
  <2>2. CASE CheckSummary(x)
    BY <2>1, <2>2 DEF VouchedFor, CheckSummary
  <2>3. CASE StageSucceeds(x)
    BY <2>1, <2>3 DEF VouchedFor, StageSucceeds, StageAfter
  <2>4. CASE SaveSummary(x)
    BY <2>1, <2>4 DEF VouchedFor, SaveSummary
  <2>5. CASE \/ Load(x) \/ AnnounceExisting(x) \/ MarkProcessing(x) \/ StageEmpty(x)
             \/ StageRetries(x) \/ StageFails(x) \/ MarkSuccess(x) \/ AnnounceDone(x)
    BY <2>1, <2>5
       DEF VouchedFor, Load, AnnounceExisting, MarkProcessing, FirstStage, StageEmpty,
           StageRetries, StageFails, MarkSuccess, AnnounceDone
  <2> QED BY <1>3, <2>2, <2>3, <2>4, <2>5 DEF Processing
<1>4. ASSUME NEW x \in Tasks, Conclusion(x)
      PROVE  summary'[req'[t]]
  <2>1. req' = req /\ summary' = summary
    BY <1>4 DEF Conclusion, PersistFailure, MarkError, AnnounceError, MarkCancelled,
                AnnounceCancelled, Release, Quiet, rowVars, jobVars
  <2>2. pc[t] \in Vouches
    BY <1>4 DEF Conclusion, PersistFailure, MarkError, AnnounceError, MarkCancelled,
                AnnounceCancelled, Release
  <2> QED BY <2>1, <2>2 DEF VouchedFor
<1>5. CASE Environment
  <2>1. req' = req /\ summary' = summary
    BY <1>5 DEF Environment, KeyExpiresEarly, KeyExpires, Shutdown, Crash, Restart, rowVars,
                jobVars
  <2>2. pc'[t] \in {pc[t], CancelledAt(t), "done"}
    BY <1>5 DEF Environment, KeyExpiresEarly, KeyExpires, Shutdown, Crash, Restart
  <2>3. pc'[t] = pc[t]
    BY <2>2 DEF CancelledAt
  <2> QED BY <2>1, <2>3 DEF VouchedFor
<1>6. CASE Idle
  BY <1>6 DEF VouchedFor, Idle, vars, rowVars, jobVars
<1> QED BY <1>1, <1>2, <1>3, <1>4, <1>5, <1>6 DEF Next, Execution

\* Where the row or its subscribers come to be told "done".
LEMMA OnlyVouchedSaysDone ==
  ASSUME TypeOK, Next, NEW r \in Requests
  PROVE  \/ \E t \in Tasks : pc[t] \in Vouches /\ req[t] = r /\ summary' = summary
         \/ /\ status'[r] = "success" => status[r] = "success"
            /\ event'[r] = "COMPLETED" => event[r] = "COMPLETED"
<1> USE DEF TypeOK, Vouches, rowVars
<1>1. CASE \E x \in Tasks : Submission(x) \/ CreateUrlRequest(x) \/ Acquisition(x)
  BY <1>1 DEF Submission, CheckDuplicate, CreateForwardRequest, RetryFailedRequest, NewRow,
              CreateUrlRequest, Acquisition, AcquireRedis, AcquireRedisHeld,
              AcquireRedisRaises, AcquireLocal, AcquireLocalHeld, WaitLocal, GrantLocal,
              LockAcquired
<1>2. CASE \E x \in Tasks : Processing(x)
  BY <1>2 DEF Processing, Load, CheckSummary, AnnounceExisting, MarkProcessing,
              StageSucceeds, StageEmpty, StageRetries, StageFails, SaveSummary,
              MarkSuccess, AnnounceDone, WriteStatus, Publish
<1>3. CASE \E x \in Tasks : Conclusion(x)
  BY <1>3 DEF Conclusion, PersistFailure, MarkError, AnnounceError, MarkCancelled,
              AnnounceCancelled, Release, WriteStatus, Publish
<1>4. CASE Environment \/ Idle
  BY <1>4 DEF Environment, KeyExpiresEarly, KeyExpires, Shutdown, Crash, Restart, Idle, vars
<1> QED BY <1>1, <1>2, <1>3, <1>4 DEF Next, Execution

\* The executions vouch for stored summaries only, in every reachable state.
LEMMA SummaryInvariant == Spec => []SummaryInv
<1> USE DEF SummaryInv, SuccessHasSummary, CompletedHasSummary
<1>1. Init => SummaryInv
  BY DEF Init, VouchedFor, Vouches
<1>2. TypeOK /\ SummaryInv /\ [Next]_vars => SummaryInv'
  <2> SUFFICES ASSUME TypeOK, SummaryInv, [Next]_vars PROVE SummaryInv'
    OBVIOUS
  <2>1. CASE Next
    BY <2>1, VouchedForStep, OnlyVouchedSaysDone, SummariesStay DEF VouchedFor
  <2>2. CASE UNCHANGED vars
    BY <2>2 DEF vars, rowVars, jobVars, VouchedFor
  <2> QED BY <2>1, <2>2
<1> QED BY <1>1, <1>2, TypeCorrect, PTL DEF Spec

\* Whatever fails, is cancelled, crashes, expires or runs twice: a row says
\* "success" only when its summary is stored.
THEOREM SuccessIsBacked == Spec => []SuccessHasSummary
BY SummaryInvariant, PTL DEF SummaryInv

\* ... and COMPLETED is published only for a request whose summary is stored.
THEOREM CompletedIsBacked == Spec => []CompletedHasSummary
BY SummaryInvariant, PTL DEF SummaryInv

\* Both together: nothing a reader of the row or a follower of the request sees
\* announces a success without a stored summary.
THEOREM FinishedIsBacked == Spec => []FinishedHasSummary
BY SummaryInvariant, PTL DEF SummaryInv, FinishedHasSummary

-----------------------------------------------------------------------------
(* Mutual exclusion, where a held lock means "skip".  With Redis, whoever is  *)
(* inside owns the key of its row or has lost it to the TTL.  Without it,     *)
(* whoever is inside owns the lock object that its process's dictionary names *)
(* for the row; lock objects are named by the execution that created them, so *)
(* no other row or process can refer to them.                                 *)

\* Nobody waits for a lock.
NobodyWaits == \A t \in Tasks : pc[t] # "local" /\ pc[t] # "waiting"

OwnsKey(t) == source[t] = "redis" /\ (redisKey[req[t]] = t \/ lapsed[t])
KeyInv == \A t \in Tasks : Inside(t) => OwnsKey(t)

\* An execution that has not asked for a lock yet.
Young(t) == pc[t] \in {"idle", "checked", "queued"}

EntryOK(w, r) == localLocks[w][r] # NoTask =>
                   ~Young(localLocks[w][r]) /\ worker[localLocks[w][r]] = w
EntriesOK == \A w \in Workers, r \in Requests : EntryOK(w, r)

OwnsLock(t) ==
  /\ source[t] = "local"
  /\ lockObj[t] \in Tasks
  /\ lockOwner[lockObj[t]] = t
  /\ localLocks[worker[t]][req[t]] = lockObj[t]
LocalInv == EntriesOK /\ \A t \in Tasks : Inside(t) => OwnsLock(t)

LockInv ==
  config.skip => /\ NobodyWaits
                 /\ config.redis => KeyInv
                 /\ ~config.redis => LocalInv

\* The bookkeeping of who holds what excludes a second holder.
LEMMA LockInvExcludes ==
  ASSUME TypeOK, LockInv
  PROVE  MutualExclusion
<1> SUFFICES ASSUME config.skip, NEW t1 \in Tasks, NEW t2 \in Tasks,
                    Inside(t1), Inside(t2), Compete(t1, t2)
             PROVE  lapsed[t1] \/ lapsed[t2]
  BY DEF MutualExclusion
<1>1. CASE config.redis
  BY <1>1 DEF LockInv, KeyInv, OwnsKey, Compete
<1>2. CASE ~config.redis
  BY <1>2 DEF LockInv, LocalInv, OwnsLock, Compete
<1> QED BY <1>1, <1>2

\* A step that leaves the locks alone, takes nobody into the section and brings
\* nobody back to its beginning.
LEMMA LockUntouched ==
  ASSUME TypeOK, LockInv, UNCHANGED lockVars,
         config.skip => \A t \in Tasks : pc'[t] = pc[t] \/ pc'[t] \notin {"local", "waiting"},
         \A t \in Tasks : Inside(t)' => Inside(t) /\ req'[t] = req[t] /\ worker'[t] = worker[t],
         \A t \in Tasks : ~Young(t) => ~Young(t)' /\ worker'[t] = worker[t]
  PROVE  LockInv'
<1> SUFFICES ASSUME config.skip
             PROVE  NobodyWaits' /\ (config.redis => KeyInv') /\ (~config.redis => LocalInv')
  BY DEF LockInv, lockVars
<1>1. NobodyWaits'
  BY DEF LockInv, NobodyWaits
<1>2. ASSUME config.redis PROVE KeyInv'
  BY <1>2 DEF LockInv, KeyInv, OwnsKey, lockVars
<1>3. ASSUME ~config.redis PROVE LocalInv'
  <2>1. EntriesOK'
    <3> SUFFICES ASSUME NEW w \in Workers, NEW r \in Requests PROVE EntryOK(w, r)'
      BY DEF EntriesOK
    <3>1. EntryOK(w, r) /\ localLocks' = localLocks /\ localLocks[w][r] \in Tasks \cup {NoTask}
      BY <1>3 DEF LockInv, LocalInv, EntriesOK, lockVars, TypeOK, LockTypeOK
    <3> QED BY <3>1 DEF EntryOK
  <2>2. \A t \in Tasks : Inside(t)' => OwnsLock(t)'
    BY <1>3 DEF LockInv, LocalInv, OwnsLock, lockVars
  <2> QED BY <2>1, <2>2 DEF LocalInv
<1> QED BY <1>1, <1>2, <1>3

\* A submission, or a new row, takes no lock.
LEMMA SubmissionLock ==
  ASSUME TypeOK, LockInv, NEW t \in Tasks, Submission(t) \/ CreateUrlRequest(t)
  PROVE  LockInv'
<1>1. UNCHANGED lockVars
  BY DEF Submission, CheckDuplicate, CreateForwardRequest, RetryFailedRequest, NewRow,
         CreateUrlRequest
<1>2. /\ pc[t] \in {"idle", "checked"}
      /\ \E place \in {"checked", "queued"} : pc' = [pc EXCEPT ![t] = place]
      /\ \A x \in Tasks : x # t => req'[x] = req[x] /\ worker'[x] = worker[x]
  BY DEF Submission, CheckDuplicate, CreateForwardRequest, RetryFailedRequest, NewRow, Assign,
         CreateUrlRequest, Goto, jobVars, TypeOK
<1>3. /\ \A x \in Tasks : pc'[x] = pc[x] \/ pc'[x] \notin {"local", "waiting"}
      /\ \A x \in Tasks : Inside(x)' =>
           Inside(x) /\ req'[x] = req[x] /\ worker'[x] = worker[x]
      /\ \A x \in Tasks : ~Young(x) => ~Young(x)' /\ worker'[x] = worker[x]
  BY <1>2 DEF TypeOK, Inside, Section, TryBody, Handlers, Stages, Young
<1> QED BY <1>1, <1>3, LockUntouched

\* The steps inside the section, but for the release of the lock.
LEMMA SectionLock ==
  ASSUME TypeOK, LockInv, NEW t \in Tasks, Processing(t) \/ (Conclusion(t) /\ ~Release(t))
  PROVE  LockInv'
<1>1. UNCHANGED <<lockVars, jobVars>> /\ pc[t] \in Section
  <2>1. CASE Processing(t)
    <3>1. Quiet
      BY <2>1 DEF Processing, Load, CheckSummary, AnnounceExisting, MarkProcessing, StageSucceeds,
                  StageEmpty, StageRetries, StageFails, SaveSummary, MarkSuccess, AnnounceDone
    <3>2. pc[t] \in TryBody
      BY <2>1
         DEF Processing, Load, CheckSummary, AnnounceExisting, MarkProcessing, StageSucceeds,
             StageEmpty, StageRetries, StageFails, SaveSummary, MarkSuccess, AnnounceDone,
             TryBody, Stages
    <3> QED BY <3>1, <3>2 DEF Quiet, Section
  <2>2. CASE Conclusion(t) /\ ~Release(t)
    BY <2>2 DEF Conclusion, PersistFailure, MarkError, AnnounceError, MarkCancelled,
                AnnounceCancelled, Quiet, Section, Handlers
  <2> QED BY <2>1, <2>2
<1>2. \E place \in Section : pc' = [pc EXCEPT ![t] = place]
  <2> USE DEF Section, TryBody, Handlers, Stages, Goto
  <2>1. CASE Processing(t) /\ ~StageRetries(t)
    BY <2>1 DEF Processing, Load, CheckSummary, AnnounceExisting, MarkProcessing, FirstStage,
                StageSucceeds, StageAfter, StageEmpty, StageFails, SaveSummary,
                MarkSuccess, AnnounceDone
  <2>2. CASE StageRetries(t)
    BY <2>2 DEF StageRetries, TypeOK
  <2>3. CASE Conclusion(t) /\ ~Release(t)
    BY <2>3 DEF Conclusion, PersistFailure, MarkError, AnnounceError, MarkCancelled,
                AnnounceCancelled
  <2> QED BY <2>1, <2>2, <2>3
<1>3. /\ \A x \in Tasks : pc'[x] = pc[x] \/ pc'[x] \notin {"local", "waiting"}
      /\ \A x \in Tasks : Inside(x)' => Inside(x)
      /\ \A x \in Tasks : ~Young(x) => ~Young(x)'
  BY <1>1, <1>2 DEF TypeOK, Inside, Section, TryBody, Handlers, Stages, Young
<1> QED BY <1>1, <1>3, LockUntouched DEF jobVars

\* Who asks for the lock enters with it, waits for it or is turned away.
LEMMA AcquisitionLock ==
  ASSUME TypeOK, LockInv, NEW t \in Tasks, Acquisition(t)
  PROVE  LockInv'
<1>1. config' = config /\ UNCHANGED jobVars
  BY DEF Acquisition, AcquireRedis, RedisAcquire, AcquireRedisHeld, RedisHeld,
         AcquireRedisRaises, RedisRaises, AcquireLocal, LocalAcquire, AcquireLocalHeld,
         LocalHeld, WaitLocal, LocalWait, GrantLocal, LocalGrant, LockAcquired, lockVars
<1> SUFFICES ASSUME config.skip
             PROVE  NobodyWaits' /\ (config.redis => KeyInv') /\ (~config.redis => LocalInv')
  BY <1>1 DEF LockInv
<1>2. NobodyWaits
  BY DEF LockInv
<1>3. CASE AcquireRedisHeld(t) \/ AcquireLocalHeld(t)
  <2>1. UNCHANGED lockVars /\ pc' = [pc EXCEPT ![t] = "done"]
    BY <1>3 DEF AcquireRedisHeld, AcquireLocalHeld, RedisHeld, LocalHeld, Goto
  <2>2. /\ \A x \in Tasks : pc'[x] = pc[x] \/ pc'[x] \notin {"local", "waiting"}
        /\ \A x \in Tasks : Inside(x)' => Inside(x)
        /\ \A x \in Tasks : ~Young(x) => ~Young(x)'
    BY <2>1 DEF TypeOK, Inside, Section, TryBody, Handlers, Stages, Young
  <2>3. LockInv'
    BY <1>1, <2>1, <2>2, LockUntouched DEF jobVars
  <2> QED BY <1>1, <2>3 DEF LockInv
<1>4. CASE AcquireRedis(t)
  <2>1. config.redis /\ pc' = [pc EXCEPT ![t] = "load"] /\ redisKey[req[t]] = NoTask
    BY <1>4 DEF AcquireRedis, RedisAcquire, LockAcquired, Goto
  <2>2. NobodyWaits'
    BY <1>2, <2>1 DEF NobodyWaits, TypeOK
  <2>3. ASSUME NEW x \in Tasks, Inside(x)' PROVE OwnsKey(x)'
    <3>1. CASE x = t
      BY <1>1, <1>4, <3>1 DEF AcquireRedis, RedisAcquire, OwnsKey, TypeOK, LockTypeOK, jobVars
    <3>2. CASE x # t
      <4>1. Inside(x) /\ OwnsKey(x)
        BY <2>1, <2>3, <3>2 DEF Inside, TypeOK, LockInv, KeyInv
      <4> QED BY <1>1, <1>4, <2>1, <3>2, <4>1, LockAssumption
              DEF AcquireRedis, RedisAcquire, OwnsKey, TypeOK, LockTypeOK, jobVars
    <3> QED BY <3>1, <3>2
  <2> QED BY <2>1, <2>2, <2>3 DEF KeyInv
<1>5. CASE AcquireRedisRaises(t)
  <2>1. config.redis /\ pc' = [pc EXCEPT ![t] = "done"]
    BY <1>5 DEF AcquireRedisRaises, RedisRaises, Goto
  <2>2. NobodyWaits'
    BY <1>2, <2>1 DEF NobodyWaits, TypeOK
  <2>3. ASSUME NEW x \in Tasks, Inside(x)' PROVE OwnsKey(x)'
    <3>1. x # t /\ Inside(x) /\ OwnsKey(x)
      BY <2>1, <2>3 DEF Inside, Section, TryBody, Stages, Handlers, TypeOK, LockInv, KeyInv
    <3> QED BY <1>1, <1>5, <3>1, LockAssumption
            DEF AcquireRedisRaises, RedisRaises, OwnsKey, TypeOK, LockTypeOK, jobVars
  <2> QED BY <2>1, <2>2, <2>3 DEF KeyInv
<1>6. CASE AcquireLocal(t)
  <2> DEFINE w == worker[t]
             r == req[t]
             l == LocalObject(t, w, r)
  <2>1. /\ ~config.redis /\ pc[t] = "queued" /\ pc' = [pc EXCEPT ![t] = "load"]
        /\ w \in Workers /\ r \in Requests
    BY <1>2, <1>6 DEF AcquireLocal, AtLocal, LockAcquired, Goto, NobodyWaits, TypeOK
  <2>2. /\ LocalInv /\ l \in Tasks /\ lockOwner[l] = NoTask
        /\ localLocks' = [localLocks EXCEPT ![w][r] = l]
        /\ lockOwner' = [lockOwner EXCEPT ![l] = t]
        /\ lockObj' = [lockObj EXCEPT ![t] = l]
        /\ source' = [source EXCEPT ![t] = "local"]
    BY <1>6, <2>1
       DEF AcquireLocal, LocalAcquire, Locked, LocalObject, LockInv, TypeOK, LockTypeOK
  <2>3. NobodyWaits'
    BY <1>2, <2>1 DEF NobodyWaits, TypeOK
  <2>4. pc'[l] \notin {"idle", "checked", "queued"} /\ worker'[l] = w
    BY <1>1, <2>1, <2>2
       DEF LocalInv, EntriesOK, EntryOK, LocalObject, Young, jobVars, TypeOK
  <2>5. EntriesOK'
    <3> SUFFICES ASSUME NEW w1 \in Workers, NEW r1 \in Requests PROVE EntryOK(w1, r1)'
      BY DEF EntriesOK
    <3>1. CASE w1 = w /\ r1 = r
      <4>1. localLocks'[w1][r1] = l
        BY <2>1, <2>2, <3>1 DEF TypeOK, LockTypeOK
      <4> QED BY <2>4, <3>1, <4>1 DEF EntryOK, Young
    <3>2. CASE ~(w1 = w /\ r1 = r)
      <4>1. localLocks'[w1][r1] = localLocks[w1][r1]
        BY <2>1, <2>2, <3>2 DEF TypeOK, LockTypeOK
      <4>2. localLocks[w1][r1] \in Tasks \cup {NoTask} /\ EntryOK(w1, r1)
        BY <2>2 DEF LocalInv, EntriesOK, TypeOK, LockTypeOK
      <4>3. \A x \in Tasks : ~Young(x) => ~Young(x)'
        BY <2>1 DEF Young, TypeOK
      <4> QED BY <1>1, <4>1, <4>2, <4>3 DEF EntryOK, jobVars
    <3> QED BY <3>1, <3>2
  <2>6. ASSUME NEW x \in Tasks, Inside(x)' PROVE OwnsLock(x)'
    <3>1. CASE x = t
      BY <1>1, <2>1, <2>2, <3>1 DEF OwnsLock, TypeOK, LockTypeOK, jobVars
    <3>2. CASE x # t
      <4>1. Inside(x) /\ OwnsLock(x)
        BY <2>1, <2>2, <2>6, <3>2 DEF Inside, TypeOK, LocalInv
      <4>2. worker[x] \in Workers /\ req[x] \in Requests /\ EntryOK(worker[x], req[x])
        BY <2>2 DEF TypeOK, LocalInv, EntriesOK
      <4>3. lockObj[x] # l
        BY <2>2, <4>1, LockAssumption DEF OwnsLock
      <4>4. ~(worker[x] = w /\ req[x] = r)
        BY <4>1, <4>3, LockAssumption DEF OwnsLock, LocalObject
      <4>5. localLocks'[worker[x]][req[x]] = localLocks[worker[x]][req[x]]
        BY <2>1, <2>2, <4>2, <4>4 DEF TypeOK, LockTypeOK
      <4> QED BY <1>1, <2>2, <3>2, <4>1, <4>3, <4>5
              DEF OwnsLock, TypeOK, LockTypeOK, jobVars
    <3> QED BY <3>1, <3>2
  <2> QED BY <2>1, <2>3, <2>5, <2>6 DEF LocalInv
<1>7. CASE WaitLocal(t) \/ GrantLocal(t)
  BY <1>2, <1>7 DEF WaitLocal, LocalWait, GrantLocal, NobodyWaits
<1> QED BY <1>3, <1>4, <1>5, <1>6, <1>7 DEF Acquisition

\* Who leaves the section gives back its own lock, and no other.
LEMMA ReleaseLock ==
  ASSUME TypeOK, LockInv, NEW t \in Tasks, Release(t)
  PROVE  LockInv'
<1>1. /\ UNCHANGED <<config, jobVars>>
      /\ pc[t] = "release" /\ pc' = [pc EXCEPT ![t] = "done"] /\ Inside(t)
  BY DEF Release, RedisRelease, RedisReleaseRaises, LocalRelease, Goto, Inside, Section
<1> SUFFICES ASSUME config.skip
             PROVE  NobodyWaits' /\ (config.redis => KeyInv') /\ (~config.redis => LocalInv')
  BY <1>1 DEF LockInv
<1>2. NobodyWaits'
  BY <1>1 DEF LockInv, NobodyWaits, TypeOK
<1>3. \A x \in Tasks : Inside(x)' => x # t /\ Inside(x)
  BY <1>1 DEF Inside, Section, TryBody, Stages, Handlers, TypeOK
<1>4. ASSUME config.redis PROVE KeyInv'
  <2>1. RedisRelease(t, req[t]) \/ RedisReleaseRaises(t)
    BY <1>1, <1>4 DEF LockInv, KeyInv, OwnsKey, Release, LocalRelease
  <2>2. \A x \in Tasks : x # t /\ OwnsKey(x) => OwnsKey(x)'
    BY <1>1, <2>1, LockAssumption
       DEF RedisRelease, RedisReleaseRaises, OwnsKey, TypeOK, LockTypeOK, jobVars
  <2> QED BY <1>3, <1>4, <2>2 DEF LockInv, KeyInv
<1>5. ASSUME ~config.redis PROVE LocalInv'
  <2> DEFINE w == worker[t]
             r == req[t]
  <2>1. LocalInv /\ OwnsLock(t) /\ LocalRelease(t, w, r) /\ w \in Workers /\ r \in Requests
    BY <1>1, <1>5
       DEF LockInv, LocalInv, OwnsLock, Release, RedisRelease, RedisReleaseRaises, TypeOK
  <2>2. /\ lockOwner' = [lockOwner EXCEPT ![lockObj[t]] = NoTask]
        /\ source' = [source EXCEPT ![t] = "none"]
        /\ lockObj' = [lockObj EXCEPT ![t] = NoTask]
    BY <2>1 DEF LocalRelease
  <2>3. localLocks' = [localLocks EXCEPT ![w][r] = NoTask]
    BY <2>1, LockAssumption DEF LocalRelease, OwnsLock, TypeOK, LockTypeOK
  <2>4. EntriesOK'
    <3> SUFFICES ASSUME NEW w1 \in Workers, NEW r1 \in Requests PROVE EntryOK(w1, r1)'
      BY DEF EntriesOK
    <3>1. localLocks'[w1][r1] \in {NoTask, localLocks[w1][r1]}
      BY <2>1, <2>3 DEF TypeOK, LockTypeOK
    <3>2. localLocks[w1][r1] \in Tasks \cup {NoTask} /\ EntryOK(w1, r1)
      BY <2>1 DEF LocalInv, EntriesOK, TypeOK, LockTypeOK
    <3>3. \A x \in Tasks : ~Young(x) => ~Young(x)'
      BY <1>1 DEF Young, TypeOK
    <3> QED BY <1>1, <3>1, <3>2, <3>3 DEF EntryOK, jobVars
  <2>5. ASSUME NEW x \in Tasks, Inside(x)' PROVE OwnsLock(x)'
    <3>1. x # t /\ OwnsLock(x) /\ worker[x] \in Workers /\ req[x] \in Requests
      BY <1>3, <2>1, <2>5 DEF LocalInv, TypeOK
    <3>2. lockObj[x] # lockObj[t]
      BY <2>1, <3>1 DEF OwnsLock
    <3>3. localLocks'[worker[x]][req[x]] = localLocks[worker[x]][req[x]]
      BY <2>1, <2>3, <3>1, <3>2 DEF OwnsLock, TypeOK, LockTypeOK
    <3> QED BY <1>1, <2>2, <3>1, <3>2, <3>3 DEF OwnsLock, TypeOK, LockTypeOK, jobVars
  <2> QED BY <2>4, <2>5 DEF LocalInv
<1> QED BY <1>2, <1>4, <1>5

\* An expired key leaves its holder on record as expired.
LEMMA ExpiryLock ==
  ASSUME TypeOK, LockInv, NEW r \in Requests, KeyExpiresEarly(r) \/ KeyExpires(r)
  PROVE  LockInv'
<1>1. UNCHANGED <<config, localVars, source, pc, jobVars>> /\ RedisExpire(r)
  BY DEF KeyExpiresEarly, KeyExpires, RedisExpire
<1>2. NobodyWaits' <=> NobodyWaits
  BY <1>1 DEF NobodyWaits
<1>3. KeyInv => KeyInv'
  BY <1>1, LockAssumption
     DEF RedisExpire, KeyInv, OwnsKey, Inside, TypeOK, LockTypeOK, jobVars
<1>4. LocalInv => LocalInv'
  BY <1>1 DEF LocalInv, EntriesOK, EntryOK, Young, OwnsLock, Inside, localVars, jobVars
<1> QED BY <1>1, <1>2, <1>3, <1>4 DEF LockInv

\* A shutdown leaves the locks with those that hold them.
LEMMA ShutdownLock ==
  ASSUME TypeOK, LockInv, NEW w \in Workers, Shutdown(w)
  PROVE  LockInv'
<1>1. /\ UNCHANGED <<config, redisKey, localLocks, lockOwner, source, lapsed, jobVars>>
      /\ \A x \in Tasks : source[x] = "local" => lockObj'[x] = lockObj[x]
  BY DEF Shutdown, WaitersLeave, TypeOK, LockTypeOK
<1>2. \A x \in Tasks : pc'[x] \in {pc[x], CancelledAt(x)}
  BY DEF Shutdown
<1>3. /\ \A x \in Tasks : Inside(x)' => Inside(x)
      /\ \A x \in Tasks : ~Young(x) => ~Young(x)'
      /\ NobodyWaits => NobodyWaits'
  BY <1>2
     DEF CancelledAt, Inside, Section, TryBody, Stages, Handlers, Scheduled, Young, NobodyWaits
<1>4. KeyInv => KeyInv'
  BY <1>1, <1>3 DEF KeyInv, OwnsKey, jobVars
<1>5. LocalInv => LocalInv'
  <2> SUFFICES ASSUME LocalInv PROVE LocalInv'
    OBVIOUS
  <2>1. ASSUME NEW v \in Workers, NEW r \in Requests PROVE EntryOK(v, r)'
    <3>1. localLocks[v][r] \in Tasks \cup {NoTask} /\ EntryOK(v, r)
      BY DEF LocalInv, EntriesOK, TypeOK, LockTypeOK
    <3> QED BY <1>1, <1>3, <3>1 DEF EntryOK, jobVars
  <2>2. \A x \in Tasks : Inside(x)' => OwnsLock(x)'
    BY <1>1, <1>3 DEF LocalInv, OwnsLock, jobVars
  <2> QED BY <2>1, <2>2 DEF LocalInv, EntriesOK
<1> QED BY <1>1, <1>3, <1>4, <1>5 DEF LockInv

\* Crash and Restart: the executions of the process are over.
LEMMA EndLock ==
  ASSUME TypeOK, LockInv, NEW w \in Workers, Crash(w) \/ Restart(w)
  PROVE  LockInv'
<1>1. UNCHANGED <<config, redisKey, lapsed, jobVars>> /\ ProcessEnds(w, Own(w))
  BY DEF Crash, Restart, ProcessEnds
<1>2. \A x \in Tasks : pc'[x] = IF x \in Own(w) THEN "done" ELSE pc[x]
  BY DEF Crash, Restart, TypeOK
<1>3. /\ \A x \in Tasks : Inside(x)' => Inside(x) /\ x \notin Own(w)
      /\ \A x \in Tasks : ~Young(x) => ~Young(x)'
      /\ NobodyWaits => NobodyWaits'
  BY <1>2 DEF Inside, Section, TryBody, Stages, Handlers, Young, NobodyWaits
<1>4. KeyInv => KeyInv'
  BY <1>1, <1>3 DEF KeyInv, OwnsKey, ProcessEnds, jobVars
<1>5. LocalInv => LocalInv'
  <2> SUFFICES ASSUME LocalInv PROVE LocalInv'
    OBVIOUS
  <2>1. ASSUME NEW v \in Workers, NEW r \in Requests PROVE EntryOK(v, r)'
    <3>1. localLocks[v][r] \in Tasks \cup {NoTask} /\ EntryOK(v, r)
      BY DEF LocalInv, EntriesOK, TypeOK, LockTypeOK
    <3>2. localLocks'[v][r] \in {NoTask, localLocks[v][r]}
      BY <1>1 DEF ProcessEnds, TypeOK, LockTypeOK
    <3> QED BY <1>1, <1>3, <3>1, <3>2 DEF EntryOK, jobVars
  <2>2. ASSUME NEW x \in Tasks, Inside(x)' PROVE OwnsLock(x)'
    <3>1. Inside(x) /\ x \notin Own(w) /\ OwnsLock(x) /\ worker[x] \in Workers
      BY <1>3, <2>2 DEF LocalInv, TypeOK
    <3>2. worker[x] # w
      BY <3>1 DEF Own, Inside, Section, TryBody, Stages, Handlers
    <3>3. lockObj[x] \notin Own(w)
      <4>1. req[x] \in Requests /\ EntryOK(worker[x], req[x])
        BY DEF LocalInv, EntriesOK, TypeOK
      <4> QED BY <3>1, <3>2, <4>1, LockAssumption DEF OwnsLock, EntryOK, Own
    <3> QED BY <1>1, <3>1, <3>2, <3>3
            DEF ProcessEnds, OwnsLock, TypeOK, LockTypeOK, jobVars
  <2> QED BY <2>1, <2>2 DEF LocalInv, EntriesOK
<1> QED BY <1>1, <1>3, <1>4, <1>5 DEF LockInv

\* The bookkeeping of the locks is right in every reachable state.
LEMMA LockInvariant == Spec => []LockInv
<1>1. Init => LockInv
  BY DEF Init, LockInit, LockInv, NobodyWaits, KeyInv, LocalInv, EntriesOK, EntryOK, Inside,
         Section, TryBody, Stages, Handlers
<1>2. TypeOK /\ LockInv /\ [Next]_vars => LockInv'
  <2> SUFFICES ASSUME TypeOK, LockInv, [Next]_vars PROVE LockInv'
    OBVIOUS
  <2>1. CASE \E t \in Tasks : Submission(t) \/ CreateUrlRequest(t)
    BY <2>1, SubmissionLock
  <2>2. CASE \E t \in Tasks : Acquisition(t)
    BY <2>2, AcquisitionLock
  <2>3. CASE \E t \in Tasks : Processing(t) \/ Conclusion(t)
    BY <2>3, SectionLock, ReleaseLock
  <2>4. CASE Environment
    BY <2>4, ExpiryLock, ShutdownLock, EndLock DEF Environment
  <2>5. CASE UNCHANGED vars
    BY <2>5, LockUntouched DEF vars, jobVars, Inside, Young
  <2> QED BY <2>1, <2>2, <2>3, <2>4, <2>5 DEF Next, Execution, Idle
<1> QED BY <1>1, <1>2, TypeCorrect, PTL DEF Spec

\* With skip_on_held on, the default, two executions of one row (and, without
\* Redis, of one process) are never both inside the locked section, unless the
\* TTL of the key ran out under one of them: no interleaving of submissions,
\* failures, cancellations, crashes and restarts breaks the lock.
THEOREM LockExcludes == Spec => []MutualExclusion
BY TypeCorrect, LockInvariant, LockInvExcludes, PTL

-----------------------------------------------------------------------------
(* No lock object stays behind, for every setting: an entry of the dictionary *)
(* is the lock object that an execution inside holds.                         *)

\* Whoever holds a process-local lock is inside, and owns the object it knows.
HoldsObject(t) == Inside(t) /\ lockObj[t] \in Tasks /\ lockOwner[lockObj[t]] = t

\* The object was created by an execution of the same process.
ObjectOfProcess(t) ==
  lockObj[t] \in Tasks /\ worker[lockObj[t]] = worker[t] /\ pc[lockObj[t]] # "idle"

EntryHeld(w, r) ==
  localLocks[w][r] # NoTask =>
    LET o == lockOwner[localLocks[w][r]] IN
    /\ o \in Tasks /\ source[o] = "local" /\ lockObj[o] = localLocks[w][r]
    /\ req[o] = r /\ worker[o] = w

LeakInv ==
  /\ \A t \in Tasks : source[t] = "local" => HoldsObject(t)
  /\ \A t \in Tasks : source[t] = "local" \/ pc[t] = "waiting" => ObjectOfProcess(t)
  /\ \A w \in Workers, r \in Requests : EntryHeld(w, r)

\* Every entry of the dictionary is held by an execution that is inside.
LEMMA LeakInvIsEnough == LeakInv => NoLocalLeak
<1>. SUFFICES ASSUME LeakInv, NEW w \in Workers, NEW r \in Requests, localLocks[w][r] # NoTask
              PROVE  LET l == localLocks[w][r] IN
                     /\ Locked(l) /\ Inside(lockOwner[l])
                     /\ req[lockOwner[l]] = r /\ worker[lockOwner[l]] = w
  BY DEF NoLocalLeak
<1>1. EntryHeld(w, r)
  BY DEF LeakInv
<1>. QED BY <1>1, LockAssumption DEF LeakInv, EntryHeld, HoldsObject, Locked

\* A step that leaves the locks alone and nobody who holds one outside.
LEMMA LeakUntouched ==
  ASSUME TypeOK, LeakInv, UNCHANGED <<localVars, source>>,
         \A t \in Tasks : source[t] = "local" /\ Inside(t) => Inside(t)' /\ req'[t] = req[t],
         \A t \in Tasks : pc[t] # "idle" => pc'[t] # "idle" /\ worker'[t] = worker[t],
         \A t \in Tasks : pc'[t] = "waiting" => pc[t] = "waiting"
  PROVE  LeakInv'
<1>1. \A t \in Tasks : source[t] = "local" =>
        pc[t] # "idle" /\ req'[t] = req[t] /\ worker'[t] = worker[t]
  BY DEF LeakInv, HoldsObject, Inside, Section, TryBody, Stages, Handlers
<1>2. ASSUME NEW t \in Tasks, source'[t] = "local" PROVE HoldsObject(t)'
  BY <1>2 DEF LeakInv, HoldsObject, localVars
<1>3. ASSUME NEW t \in Tasks, source'[t] = "local" \/ pc'[t] = "waiting" PROVE ObjectOfProcess(t)'
  <2>1. ObjectOfProcess(t) /\ pc[t] # "idle"
    BY <1>1, <1>3 DEF LeakInv
  <2>. QED BY <2>1 DEF ObjectOfProcess, localVars
<1>4. ASSUME NEW w \in Workers, NEW r \in Requests PROVE EntryHeld(w, r)'
  <2>1. EntryHeld(w, r)
    BY DEF LeakInv
  <2>. QED BY <1>1, <2>1 DEF EntryHeld, localVars
<1>. QED BY <1>2, <1>3, <1>4 DEF LeakInv

\* Who was idle, or was in a step of its own, is not moved out of the section.
LEMMA LeakMoves ==
  ASSUME TypeOK, LeakInv, NEW t \in Tasks, NEW place \in PCs, pc' = [pc EXCEPT ![t] = place],
         UNCHANGED <<localVars, source>>, place \notin {"idle", "waiting"},
         Inside(t) => place \in Section,
         \A x \in Tasks \ {t} : req'[x] = req[x] /\ worker'[x] = worker[x],
         pc[t] # "idle" => req'[t] = req[t] /\ worker'[t] = worker[t]
  PROVE  LeakInv'
<1>1. pc'[t] = place /\ \A x \in Tasks \ {t} : pc'[x] = pc[x]
  BY DEF TypeOK
<1>2. "idle" \notin Section
  BY DEF Section, TryBody, Stages, Handlers
<1>3. \A x \in Tasks : source[x] = "local" /\ Inside(x) => Inside(x)' /\ req'[x] = req[x]
  BY <1>1, <1>2 DEF Inside
<1>4. \A x \in Tasks : pc[x] # "idle" => pc'[x] # "idle" /\ worker'[x] = worker[x]
  BY <1>1
<1>5. \A x \in Tasks : pc'[x] = "waiting" => pc[x] = "waiting"
  BY <1>1
<1>. QED BY <1>3, <1>4, <1>5, LeakUntouched

\* Submissions and the steps of the section, but for the lock's own.
LEMMA OtherStepsLeak ==
  ASSUME TypeOK, LeakInv, NEW t \in Tasks,
         \/ Submission(t) \/ CreateUrlRequest(t) \/ Processing(t)
         \/ Conclusion(t) /\ ~Release(t)
  PROVE  LeakInv'
<1>1. CASE Submission(t) \/ CreateUrlRequest(t)
  <2>1. UNCHANGED <<localVars, source>>
    BY <1>1 DEF Submission, CheckDuplicate, CreateForwardRequest, RetryFailedRequest, NewRow,
           CreateUrlRequest, lockVars, localVars
  <2>2. /\ pc[t] \in {"idle", "checked"}
        /\ \E place \in {"checked", "queued"} : pc' = [pc EXCEPT ![t] = place]
        /\ \A x \in Tasks \ {t} : req'[x] = req[x] /\ worker'[x] = worker[x]
        /\ pc[t] # "idle" => req'[t] = req[t] /\ worker'[t] = worker[t]
    BY <1>1 DEF Submission, CheckDuplicate, CreateForwardRequest, RetryFailedRequest, NewRow, Assign,
           CreateUrlRequest, Goto, jobVars, TypeOK
  <2>3. ~Inside(t)
    BY <2>2 DEF Inside, Section, TryBody, Stages, Handlers
  <2>4. {"checked", "queued"} \subseteq PCs
    BY DEF PCs, Scheduled
  <2>. QED BY <2>1, <2>2, <2>3, <2>4, LeakMoves
<1>2. CASE Processing(t) \/ (Conclusion(t) /\ ~Release(t))
  <2>1. UNCHANGED <<lockVars, jobVars>> /\ pc[t] \in Section
    <3>1. CASE Processing(t)
      <4>1. Quiet
        BY <3>1 DEF Processing, Load, CheckSummary, AnnounceExisting, MarkProcessing, StageSucceeds,
                    StageEmpty, StageRetries, StageFails, SaveSummary, MarkSuccess, AnnounceDone
      <4>2. pc[t] \in TryBody
        BY <3>1
           DEF Processing, Load, CheckSummary, AnnounceExisting, MarkProcessing, StageSucceeds,
               StageEmpty, StageRetries, StageFails, SaveSummary, MarkSuccess, AnnounceDone,
               TryBody, Stages
      <4>. QED BY <4>1, <4>2 DEF Quiet, Section
    <3>2. CASE Conclusion(t) /\ ~Release(t)
      BY <3>2 DEF Conclusion, PersistFailure, MarkError, AnnounceError, MarkCancelled,
                  AnnounceCancelled, Quiet, Section, Handlers
    <3>. QED BY <1>2, <3>1, <3>2
  <2>2. \E place \in Section : pc' = [pc EXCEPT ![t] = place]
    <3> USE DEF Section, TryBody, Handlers, Stages, Goto
    <3>1. CASE Processing(t) /\ ~StageRetries(t)
      BY <3>1 DEF Processing, Load, CheckSummary, AnnounceExisting, MarkProcessing, FirstStage,
                  StageSucceeds, StageAfter, StageEmpty, StageFails, SaveSummary,
                  MarkSuccess, AnnounceDone
    <3>2. CASE StageRetries(t)
      BY <3>2 DEF StageRetries, TypeOK
    <3>3. CASE Conclusion(t) /\ ~Release(t)
      BY <3>3 DEF Conclusion, PersistFailure, MarkError, AnnounceError, MarkCancelled,
                  AnnounceCancelled
    <3>. QED BY <1>2, <3>1, <3>2, <3>3
  <2>3. \A place \in Section : place \in PCs /\ place \notin {"idle", "waiting"}
    BY DEF PCs, Section, TryBody, Stages, Handlers
  <2>4. UNCHANGED <<localVars, source>> /\ UNCHANGED jobVars
    BY <2>1 DEF lockVars, localVars
  <2>. QED BY <2>2, <2>3, <2>4, LeakMoves DEF jobVars
<1>. QED BY <1>1, <1>2

\* Who takes a free object puts it in the dictionary and is inside.
LEMMA AcquireLocalLeak ==
  ASSUME TypeOK, LeakInv, NEW t \in Tasks, AcquireLocal(t)
  PROVE  LeakInv'
<1>. DEFINE w == worker[t]
            r == req[t]
            l == LocalObject(t, w, r)
<1>1. /\ pc[t] \in {"local", "queued"} /\ pc' = [pc EXCEPT ![t] = "load"] /\ UNCHANGED jobVars
      /\ w \in Workers /\ r \in Requests
  BY DEF AcquireLocal, AtLocal, LockAcquired, Goto, TypeOK
<1>2. /\ l \in Tasks /\ lockOwner[l] = NoTask
      /\ localLocks' = [localLocks EXCEPT ![w][r] = l]
      /\ lockOwner' = [lockOwner EXCEPT ![l] = t]
      /\ lockObj' = [lockObj EXCEPT ![t] = l]
      /\ source' = [source EXCEPT ![t] = "local"]
  BY <1>1 DEF AcquireLocal, LocalAcquire, Locked, LocalObject, TypeOK, LockTypeOK
<1>3. pc'[t] = "load" /\ \A x \in Tasks \ {t} : pc'[x] = pc[x]
  BY <1>1 DEF TypeOK
<1>4. source[t] # "local"
  BY <1>1 DEF LeakInv, HoldsObject, Inside, Section, TryBody, Stages, Handlers
<1>5. EntryHeld(w, r) /\ worker' = worker /\ req' = req
  BY <1>1 DEF LeakInv, jobVars
<1>6. l = t
  <2>1. CASE localLocks[w][r] = NoTask
    BY <2>1 DEF LocalObject
  <2>2. CASE localLocks[w][r] # NoTask
    <3>1. l = localLocks[w][r]
      BY <2>2 DEF LocalObject
    <3>. QED BY <1>2, <1>5, <2>2, <3>1, LockAssumption DEF EntryHeld
  <2>. QED BY <2>1, <2>2
<1>. HIDE DEF l, w, r
<1>7. /\ source'[t] = "local" /\ lockObj'[t] = t /\ lockOwner'[t] = t
      /\ \A x \in Tasks \ {t} :
           source'[x] = source[x] /\ lockObj'[x] = lockObj[x] /\ lockOwner'[x] = lockOwner[x]
  BY <1>2, <1>6 DEF TypeOK, LockTypeOK
<1>8. ASSUME NEW x \in Tasks, source'[x] = "local" PROVE HoldsObject(x)'
  <2>1. CASE x = t
    BY <1>3, <1>7, <2>1 DEF HoldsObject, Inside, Section, TryBody
  <2>2. CASE x # t
    <3>1. HoldsObject(x) /\ lockObj[x] # t
      BY <1>2, <1>6, <1>7, <1>8, <2>2, LockAssumption DEF LeakInv, HoldsObject
    <3>. QED BY <1>3, <1>7, <2>2, <3>1 DEF HoldsObject, Inside
  <2>. QED BY <2>1, <2>2
<1>9. ASSUME NEW x \in Tasks, source'[x] = "local" \/ pc'[x] = "waiting" PROVE ObjectOfProcess(x)'
  <2>1. CASE x = t
    BY <1>3, <1>5, <1>7, <2>1 DEF ObjectOfProcess
  <2>2. CASE x # t
    <3>1. ObjectOfProcess(x)
      BY <1>3, <1>7, <1>9, <2>2 DEF LeakInv
    <3>. QED BY <1>3, <1>5, <1>7, <2>2, <3>1 DEF ObjectOfProcess
  <2>. QED BY <2>1, <2>2
<1>10. ASSUME NEW v \in Workers, NEW q \in Requests PROVE EntryHeld(v, q)'
  <2>1. CASE v = w /\ q = r
    <3>1. localLocks'[v][q] = t
      BY <1>1, <1>2, <1>6, <2>1 DEF TypeOK, LockTypeOK
    <3>2. worker[t] = w /\ req[t] = r
      BY DEF w, r
    <3>. QED BY <1>5, <1>7, <2>1, <3>1, <3>2 DEF EntryHeld
  <2>2. CASE ~(v = w /\ q = r)
    <3>1. localLocks'[v][q] = localLocks[v][q] /\ localLocks[v][q] \in Tasks \cup {NoTask}
      BY <1>1, <1>2, <2>2 DEF TypeOK, LockTypeOK
    <3>2. EntryHeld(v, q)
      BY DEF LeakInv
    <3>3. CASE localLocks[v][q] # NoTask
      <4>1. localLocks[v][q] # t
        BY <1>2, <1>6, <3>2, <3>3, LockAssumption DEF EntryHeld
      <4>2. lockOwner[localLocks[v][q]] # t
        BY <1>4, <3>2, <3>3 DEF EntryHeld
      <4>. QED BY <1>5, <1>7, <3>1, <3>2, <3>3, <4>1, <4>2 DEF EntryHeld
    <3>. QED BY <3>1, <3>3 DEF EntryHeld
  <2>. QED BY <2>1, <2>2
<1>. QED BY <1>8, <1>9, <1>10 DEF LeakInv

\* Who finds the object locked waits for it; the woken waiter takes it.
LEMMA WaitersLeak ==
  ASSUME TypeOK, LeakInv, NEW t \in Tasks, WaitLocal(t) \/ GrantLocal(t)
  PROVE  LeakInv'
<1>1. worker' = worker /\ req' = req /\ localLocks' = localLocks /\ pc[t] # "idle" /\ ~Inside(t)
  BY DEF WaitLocal, LocalWait, GrantLocal, LocalGrant, LockAcquired, jobVars, AtLocal, Inside, Section,
         TryBody, Stages, Handlers
<1>2. source[t] # "local"
  BY <1>1 DEF LeakInv, HoldsObject
<1>3. CASE WaitLocal(t)
  <2>1. PICK l : l = LocalObject(t, worker[t], req[t])
    OBVIOUS
  <2>2. /\ lockObj' = [lockObj EXCEPT ![t] = l] /\ pc' = [pc EXCEPT ![t] = "waiting"]
        /\ UNCHANGED <<lockOwner, source>>
    BY <1>3, <2>1 DEF WaitLocal, LocalWait, Goto
  <2>3. l \in Tasks /\ worker[l] = worker[t] /\ pc[l] # "idle"
    <3>1. CASE localLocks[worker[t]][req[t]] = NoTask
      BY <1>1, <2>1, <3>1 DEF LocalObject
    <3>2. CASE localLocks[worker[t]][req[t]] # NoTask
      <4>1. l = localLocks[worker[t]][req[t]] /\ EntryHeld(worker[t], req[t])
        BY <2>1, <3>2 DEF LocalObject, LeakInv, TypeOK
      <4>2. PICK o \in Tasks : source[o] = "local" /\ lockObj[o] = l /\ worker[o] = worker[t]
        BY <3>2, <4>1 DEF EntryHeld
      <4>. QED BY <4>2 DEF LeakInv, ObjectOfProcess
    <3>. QED BY <3>1, <3>2
  <2>4. /\ lockObj'[t] = l /\ pc'[t] = "waiting"
        /\ \A x \in Tasks \ {t} : lockObj'[x] = lockObj[x] /\ pc'[x] = pc[x]
    BY <2>2 DEF TypeOK, LockTypeOK
  <2>5. ASSUME NEW x \in Tasks, source'[x] = "local" PROVE HoldsObject(x)'
    <3>1. x # t /\ HoldsObject(x)
      BY <1>2, <2>2, <2>5 DEF LeakInv
    <3>. QED BY <2>2, <2>4, <3>1 DEF HoldsObject, Inside
  <2>6. ASSUME NEW x \in Tasks, source'[x] = "local" \/ pc'[x] = "waiting" PROVE ObjectOfProcess(x)'
    <3>1. CASE x = t
      BY <1>1, <2>3, <2>4, <3>1 DEF ObjectOfProcess
    <3>2. CASE x # t
      <4>1. ObjectOfProcess(x)
        BY <2>2, <2>4, <2>6, <3>2 DEF LeakInv
      <4>. QED BY <1>1, <2>4, <3>2, <4>1 DEF ObjectOfProcess
    <3>. QED BY <3>1, <3>2
  <2>7. ASSUME NEW v \in Workers, NEW q \in Requests PROVE EntryHeld(v, q)'
    <3>1. EntryHeld(v, q)
      BY DEF LeakInv
    <3>. QED BY <1>1, <1>2, <2>2, <2>4, <3>1 DEF EntryHeld
  <2>. QED BY <2>5, <2>6, <2>7 DEF LeakInv
<1>4. CASE GrantLocal(t)
  <2>1. PICK l : l = lockObj[t]
    OBVIOUS
  <2>2. /\ lockOwner[l] = NoTask /\ lockOwner' = [lockOwner EXCEPT ![l] = t] /\ lockObj' = lockObj
        /\ source' = [source EXCEPT ![t] = "local"]
        /\ pc' = [pc EXCEPT ![t] = "load"] /\ pc[t] = "waiting"
    BY <1>4, <2>1 DEF GrantLocal, LocalGrant, LockAcquired, Goto, Locked
  <2>3. ObjectOfProcess(t) /\ l \in Tasks
    BY <2>1, <2>2 DEF LeakInv, ObjectOfProcess
  <2>4. /\ source'[t] = "local" /\ pc'[t] = "load" /\ lockOwner'[l] = t
        /\ \A x \in Tasks \ {t} : source'[x] = source[x] /\ pc'[x] = pc[x]
        /\ \A x \in Tasks \ {l} : lockOwner'[x] = lockOwner[x]
    BY <2>2, <2>3 DEF TypeOK, LockTypeOK
  <2>5. ASSUME NEW x \in Tasks, source'[x] = "local" PROVE HoldsObject(x)'
    <3>1. CASE x = t
      BY <2>1, <2>2, <2>3, <2>4, <3>1 DEF HoldsObject, Inside, Section, TryBody
    <3>2. CASE x # t
      <4>1. HoldsObject(x) /\ lockObj[x] # l
        BY <2>2, <2>4, <2>5, <3>2, LockAssumption DEF LeakInv, HoldsObject
      <4>. QED BY <2>2, <2>4, <3>2, <4>1 DEF HoldsObject, Inside
    <3>. QED BY <3>1, <3>2
  <2>6. ASSUME NEW x \in Tasks, source'[x] = "local" \/ pc'[x] = "waiting" PROVE ObjectOfProcess(x)'
    <3>1. ObjectOfProcess(x)
      BY <2>3, <2>4, <2>6 DEF LeakInv
    <3>. QED BY <1>1, <2>2, <2>4, <3>1 DEF ObjectOfProcess
  <2>7. ASSUME NEW v \in Workers, NEW q \in Requests PROVE EntryHeld(v, q)'
    <3>1. EntryHeld(v, q) /\ localLocks[v][q] \in Tasks \cup {NoTask}
      BY DEF LeakInv, TypeOK, LockTypeOK
    <3>2. CASE localLocks[v][q] # NoTask
      <4>1. localLocks[v][q] # l
        BY <2>2, <3>1, <3>2, LockAssumption DEF EntryHeld
      <4>2. lockOwner[localLocks[v][q]] # t
        BY <1>2, <3>1, <3>2 DEF EntryHeld
      <4>. QED BY <1>1, <2>2, <2>4, <3>1, <3>2, <4>1, <4>2 DEF EntryHeld
    <3>. QED BY <1>1, <3>2 DEF EntryHeld
  <2>. QED BY <2>5, <2>6, <2>7 DEF LeakInv
<1>. QED BY <1>3, <1>4

\* Redis gives the lock, refuses it or raises; or the local lock is found held.
LEMMA RedisLeak ==
  ASSUME TypeOK, LeakInv, NEW t \in Tasks,
         AcquireRedis(t) \/ AcquireRedisHeld(t) \/ AcquireRedisRaises(t) \/ AcquireLocalHeld(t)
  PROVE  LeakInv'
<1>1. /\ UNCHANGED <<localVars, jobVars>> /\ pc[t] \in {"queued", "local"}
      /\ \E place \in {"load", "done", "local"} : pc' = [pc EXCEPT ![t] = place]
  BY DEF AcquireRedis, AcquireRedisHeld, AcquireRedisRaises, AcquireLocalHeld, RedisAcquire, RedisHeld,
         RedisRaises, LocalHeld, LockAcquired, Goto, lockVars, localVars, AtLocal
<1>2. PICK place \in {"load", "done", "local"} : pc' = [pc EXCEPT ![t] = place]
  BY <1>1
<1>3. pc'[t] = place /\ \A x \in Tasks \ {t} : pc'[x] = pc[x]
  BY <1>2 DEF TypeOK
<1>4. ~Inside(t) /\ source[t] # "local"
  BY <1>1 DEF LeakInv, HoldsObject, Inside, Section, TryBody, Stages, Handlers
<1>5. source'[t] # "local" /\ \A x \in Tasks \ {t} : source'[x] = source[x]
  BY <1>4 DEF AcquireRedis, AcquireRedisHeld, AcquireRedisRaises, AcquireLocalHeld, RedisAcquire, RedisHeld,
         RedisRaises, LocalHeld, lockVars, TypeOK, LockTypeOK
<1>6. /\ lockObj' = lockObj /\ lockOwner' = lockOwner /\ localLocks' = localLocks
      /\ worker' = worker /\ req' = req
  BY <1>1 DEF localVars, jobVars
<1>7. ASSUME NEW x \in Tasks, source'[x] = "local" PROVE HoldsObject(x)'
  <2>1. x # t /\ HoldsObject(x)
    BY <1>5, <1>7 DEF LeakInv
  <2>. QED BY <1>3, <1>6, <2>1 DEF HoldsObject, Inside
<1>8. ASSUME NEW x \in Tasks, source'[x] = "local" \/ pc'[x] = "waiting" PROVE ObjectOfProcess(x)'
  <2>1. ObjectOfProcess(x)
    BY <1>3, <1>5, <1>8 DEF LeakInv
  <2>. QED BY <1>3, <1>6, <2>1 DEF ObjectOfProcess
<1>9. ASSUME NEW v \in Workers, NEW q \in Requests PROVE EntryHeld(v, q)'
  <2>1. EntryHeld(v, q)
    BY DEF LeakInv
  <2>. QED BY <1>4, <1>5, <1>6, <2>1 DEF EntryHeld
<1>. QED BY <1>7, <1>8, <1>9 DEF LeakInv

\* Who gives its object back takes its entry with it, if the entry names that object.
LEMMA ReleaseLeak ==
  ASSUME TypeOK, LeakInv, NEW t \in Tasks, Release(t)
  PROVE  LeakInv'
<1>1. /\ UNCHANGED jobVars /\ pc[t] = "release" /\ pc' = [pc EXCEPT ![t] = "done"]
      /\ source' = [source EXCEPT ![t] = "none"]
  BY DEF Release, RedisRelease, RedisReleaseRaises, LocalRelease, Goto
<1>2. /\ worker' = worker /\ req' = req /\ pc'[t] = "done" /\ source'[t] = "none"
      /\ \A x \in Tasks \ {t} : pc'[x] = pc[x] /\ source'[x] = source[x]
  BY <1>1 DEF TypeOK, LockTypeOK, jobVars
<1>3. CASE RedisRelease(t, req[t]) \/ RedisReleaseRaises(t)
  <2>1. source[t] = "redis" /\ lockObj' = lockObj /\ lockOwner' = lockOwner /\ localLocks' = localLocks
    BY <1>3 DEF RedisRelease, RedisReleaseRaises, localVars
  <2>2. ASSUME NEW x \in Tasks, source'[x] = "local" PROVE HoldsObject(x)'
    <3>1. x # t /\ HoldsObject(x)
      BY <1>2, <2>2 DEF LeakInv
    <3>. QED BY <1>2, <2>1, <3>1 DEF HoldsObject, Inside
  <2>3. ASSUME NEW x \in Tasks, source'[x] = "local" \/ pc'[x] = "waiting" PROVE ObjectOfProcess(x)'
    <3>1. ObjectOfProcess(x)
      BY <1>2, <2>3 DEF LeakInv
    <3>. QED BY <1>2, <2>1, <3>1 DEF ObjectOfProcess
  <2>4. ASSUME NEW v \in Workers, NEW q \in Requests PROVE EntryHeld(v, q)'
    <3>1. EntryHeld(v, q)
      BY DEF LeakInv
    <3>. QED BY <1>2, <2>1, <3>1 DEF EntryHeld
  <2>. QED BY <2>2, <2>3, <2>4 DEF LeakInv
<1>4. CASE LocalRelease(t, worker[t], req[t])
  <2>1. PICK l : l = lockObj[t]
    OBVIOUS
  <2>2. /\ source[t] = "local" /\ lockOwner' = [lockOwner EXCEPT ![l] = NoTask]
        /\ localLocks' = IF /\ localLocks[worker[t]][req[t]] # NoTask
                            /\ [lockOwner EXCEPT ![l] = NoTask][localLocks[worker[t]][req[t]]] = NoTask
                         THEN [localLocks EXCEPT ![worker[t]][req[t]] = NoTask] ELSE localLocks
        /\ lockObj' = [lockObj EXCEPT ![t] = NoTask]
    BY <1>4, <2>1 DEF LocalRelease
  <2>3. HoldsObject(t) /\ l \in Tasks /\ lockOwner[l] = t
    BY <2>1, <2>2 DEF LeakInv, HoldsObject
  <2>4. /\ \A x \in Tasks \ {t} : lockObj'[x] = lockObj[x]
        /\ lockOwner'[l] = NoTask /\ \A x \in Tasks \ {l} : lockOwner'[x] = lockOwner[x]
    BY <2>2, <2>3 DEF TypeOK, LockTypeOK
  <2>5. ASSUME NEW x \in Tasks, source'[x] = "local" PROVE HoldsObject(x)'
    <3>1. x # t /\ HoldsObject(x)
      BY <1>2, <2>5 DEF LeakInv
    <3>2. lockObj[x] # l
      BY <2>3, <3>1 DEF HoldsObject
    <3>. QED BY <1>2, <2>4, <3>1, <3>2 DEF HoldsObject, Inside
  <2>6. ASSUME NEW x \in Tasks, source'[x] = "local" \/ pc'[x] = "waiting" PROVE ObjectOfProcess(x)'
    <3>1. x # t /\ ObjectOfProcess(x)
      BY <1>2, <2>6 DEF LeakInv
    <3>. QED BY <1>2, <2>4, <3>1 DEF ObjectOfProcess
  <2>7. ASSUME NEW v \in Workers, NEW q \in Requests PROVE EntryHeld(v, q)'
    <3>1. EntryHeld(v, q) /\ localLocks[v][q] \in Tasks \cup {NoTask}
      BY DEF LeakInv, TypeOK, LockTypeOK
    <3>2. worker[t] \in Workers /\ req[t] \in Requests
      BY DEF TypeOK
    <3>3. localLocks'[v][q] \in {NoTask, localLocks[v][q]}
      BY <2>2, <3>2 DEF TypeOK, LockTypeOK
    <3>4. CASE localLocks[v][q] = l /\ l # NoTask
      <4>1. worker[t] = v /\ req[t] = q
        BY <2>3, <3>1, <3>4 DEF EntryHeld
      <4>2. [lockOwner EXCEPT ![l] = NoTask][localLocks[worker[t]][req[t]]] = NoTask
        BY <2>3, <3>4, <4>1 DEF TypeOK, LockTypeOK
      <4>3. localLocks' = [localLocks EXCEPT ![worker[t]][req[t]] = NoTask]
        BY <2>2, <3>4, <4>1, <4>2
      <4>4. localLocks'[v][q] = NoTask
        BY <3>2, <4>1, <4>3 DEF TypeOK, LockTypeOK
      <4>. QED BY <4>4 DEF EntryHeld
    <3>5. CASE localLocks'[v][q] # NoTask /\ localLocks[v][q] # l
      <4>1. localLocks'[v][q] = localLocks[v][q] /\ localLocks[v][q] \in Tasks
        BY <3>1, <3>3, <3>5
      <4>2. PICK o \in Tasks : /\ lockOwner[localLocks[v][q]] = o /\ source[o] = "local"
                               /\ lockObj[o] = localLocks[v][q] /\ req[o] = q /\ worker[o] = v
        BY <3>1, <3>3, <3>5 DEF EntryHeld
      <4>3. o # t
        BY <2>1, <3>5, <4>2
      <4>4. lockOwner'[localLocks'[v][q]] = o
        BY <2>4, <3>5, <4>1, <4>2
      <4>. QED BY <1>2, <2>4, <4>1, <4>2, <4>3, <4>4 DEF EntryHeld
    <3>. QED BY <3>3, <3>4, <3>5 DEF EntryHeld
  <2>. QED BY <2>5, <2>6, <2>7 DEF LeakInv
<1>. QED BY <1>3, <1>4 DEF Release

\* A key expires; a shutdown: those who hold a lock stay inside.
LEMMA ShutdownLeak ==
  ASSUME TypeOK, LeakInv, NEW w \in Workers, Shutdown(w)
  PROVE  LeakInv'
<1>1. /\ UNCHANGED <<localLocks, lockOwner, source, jobVars>>
      /\ \A x \in Tasks : source[x] = "local" => lockObj'[x] = lockObj[x]
      /\ \A x \in Tasks :
           lockObj'[x] = IF x \in Own(w) /\ source[x] # "local" THEN NoTask ELSE lockObj[x]
      /\ \A x \in Tasks : pc'[x] = IF x \in Own(w) THEN CancelledAt(x) ELSE pc[x]
  BY DEF Shutdown, WaitersLeave, TypeOK, LockTypeOK
<1>2. \A x \in Tasks : (Inside(x) => Inside(x)') /\ (pc[x] # "idle" => pc'[x] # "idle")
  BY <1>1 DEF CancelledAt, Inside, Section, TryBody, Stages, Handlers, Scheduled, Own
<1>3. \A x \in Tasks : pc'[x] = "waiting" => pc[x] = "waiting" /\ x \notin Own(w)
  BY <1>1 DEF CancelledAt, Section, TryBody, Stages, Handlers, Scheduled
<1>4. ASSUME NEW x \in Tasks, source'[x] = "local" PROVE HoldsObject(x)'
  <2>1. HoldsObject(x) /\ lockObj'[x] = lockObj[x]
    BY <1>1, <1>4 DEF LeakInv
  <2>. QED BY <1>1, <1>2, <2>1 DEF HoldsObject
<1>5. ASSUME NEW x \in Tasks, source'[x] = "local" \/ pc'[x] = "waiting" PROVE ObjectOfProcess(x)'
  <2>1. ObjectOfProcess(x) /\ lockObj'[x] = lockObj[x]
    BY <1>1, <1>3, <1>5 DEF LeakInv
  <2>. QED BY <1>1, <1>2, <2>1 DEF ObjectOfProcess, jobVars
<1>6. ASSUME NEW v \in Workers, NEW q \in Requests PROVE EntryHeld(v, q)'
  <2>1. EntryHeld(v, q)
    BY DEF LeakInv
  <2>. QED BY <1>1, <2>1 DEF EntryHeld, jobVars
<1>. QED BY <1>4, <1>5, <1>6 DEF LeakInv

\* The process is over: its entries, its objects and its holders go together.
LEMMA EndLeak ==
  ASSUME TypeOK, LeakInv, NEW w \in Workers, Crash(w) \/ Restart(w)
  PROVE  LeakInv'
<1>1. ProcessEnds(w, Own(w)) /\ worker' = worker /\ req' = req
  BY DEF Crash, Restart, jobVars
<1>2. \A x \in Tasks : pc'[x] = IF x \in Own(w) THEN "done" ELSE pc[x]
  BY DEF Crash, Restart, TypeOK
<1>3. /\ \A x \in Tasks : source'[x] = IF x \in Own(w) THEN "none" ELSE source[x]
      /\ \A x \in Tasks : lockObj'[x] = IF x \in Own(w) THEN NoTask ELSE lockObj[x]
      /\ \A x \in Tasks : lockOwner'[x] = IF x \in Own(w) THEN NoTask ELSE lockOwner[x]
      /\ localLocks' = [localLocks EXCEPT ![w] = [r \in Requests |-> NoTask]]
  BY <1>1 DEF ProcessEnds
<1>4. \A x \in Tasks : x \in Own(w) <=> pc[x] # "idle" /\ worker[x] = w
  BY DEF Own
<1>5. ASSUME NEW x \in Tasks, source'[x] = "local" PROVE HoldsObject(x)'
  <2>1. x \notin Own(w) /\ HoldsObject(x) /\ ObjectOfProcess(x) /\ lockObj[x] \in Tasks
    BY <1>3, <1>5 DEF LeakInv, HoldsObject
  <2>2. lockObj[x] \notin Own(w)
    BY <1>4, <2>1 DEF ObjectOfProcess, HoldsObject, Inside, Section, TryBody, Stages, Handlers
  <2>. QED BY <1>2, <1>3, <2>1, <2>2 DEF HoldsObject, Inside
<1>6. ASSUME NEW x \in Tasks, source'[x] = "local" \/ pc'[x] = "waiting" PROVE ObjectOfProcess(x)'
  <2>1. x \notin Own(w) /\ ObjectOfProcess(x)
    BY <1>2, <1>3, <1>6 DEF LeakInv
  <2>. QED BY <1>1, <1>2, <1>3, <2>1 DEF ObjectOfProcess
<1>7. ASSUME NEW v \in Workers, NEW q \in Requests PROVE EntryHeld(v, q)'
  <2>1. EntryHeld(v, q) /\ localLocks[v][q] \in Tasks \cup {NoTask}
    BY DEF LeakInv, TypeOK, LockTypeOK
  <2>2. CASE v = w
    BY <1>3, <2>2 DEF EntryHeld, TypeOK, LockTypeOK
  <2>3. CASE v # w /\ localLocks[v][q] # NoTask
    <3>1. localLocks'[v][q] = localLocks[v][q] /\ localLocks[v][q] \in Tasks
      BY <1>3, <2>1, <2>3 DEF TypeOK, LockTypeOK
    <3>2. PICK o \in Tasks : /\ lockOwner[localLocks[v][q]] = o /\ source[o] = "local"
                             /\ lockObj[o] = localLocks[v][q] /\ req[o] = q /\ worker[o] = v
      BY <2>1, <2>3 DEF EntryHeld
    <3>3. o \notin Own(w) /\ localLocks[v][q] \notin Own(w)
      BY <1>4, <2>3, <3>1, <3>2 DEF LeakInv, ObjectOfProcess
    <3>. QED BY <1>1, <1>3, <3>1, <3>2, <3>3 DEF EntryHeld
  <2>4. CASE v # w /\ localLocks[v][q] = NoTask
    BY <1>3, <2>4 DEF EntryHeld, TypeOK, LockTypeOK
  <2>. QED BY <2>2, <2>3, <2>4
<1>. QED BY <1>5, <1>6, <1>7 DEF LeakInv

\* The entries are those of executions inside in every reachable state.
LEMMA LeakInvariant == Spec => []LeakInv
<1>1. Init => LeakInv
  BY DEF Init, LockInit, LeakInv, EntryHeld
<1>2. TypeOK /\ LeakInv /\ [Next]_vars => LeakInv'
  <2> SUFFICES ASSUME TypeOK, LeakInv, [Next]_vars PROVE LeakInv'
    OBVIOUS
  <2>1. CASE \E t \in Tasks : \/ Submission(t) \/ CreateUrlRequest(t) \/ Processing(t)
                              \/ Conclusion(t) /\ ~Release(t)
    BY <2>1, OtherStepsLeak
  <2>2. CASE \E t \in Tasks : Acquisition(t)
    BY <2>2, RedisLeak, AcquireLocalLeak, WaitersLeak DEF Acquisition
  <2>3. CASE \E t \in Tasks : Release(t)
    BY <2>3, ReleaseLeak
  <2>4. CASE \E r \in Requests : KeyExpiresEarly(r) \/ KeyExpires(r)
    <3>1. UNCHANGED <<localVars, source, pc, jobVars>>
      BY <2>4 DEF KeyExpiresEarly, KeyExpires, RedisExpire
    <3>. QED BY <3>1, LeakUntouched DEF jobVars, Inside
  <2>5. CASE \E w \in Workers : Shutdown(w) \/ Crash(w) \/ Restart(w)
    BY <2>5, ShutdownLeak, EndLeak
  <2>6. CASE UNCHANGED vars
    <3>1. UNCHANGED <<localVars, source, pc, jobVars>>
      BY <2>6 DEF vars, lockVars, localVars
    <3>. QED BY <3>1, LeakUntouched DEF jobVars, Inside
  <2> QED BY <2>1, <2>2, <2>3, <2>4, <2>5, <2>6 DEF Next, Execution, Environment, Idle
<1> QED BY <1>1, <1>2, TypeCorrect, PTL DEF Spec

\* The process-local lock excludes, where a held lock means "skip", and in every
\* setting no lock object stays in the dictionary once its holder has left.
THEOREM LocalLockHolds == Spec => []LocalLockIsSafe
<1>1. MutualExclusion /\ LeakInv => LocalLockIsSafe
  BY LeakInvIsEnough DEF LocalLockIsSafe
<1>. QED BY <1>1, LockExcludes, LeakInvariant, PTL

-----------------------------------------------------------------------------
(* What is on record of a row: lost locks, overlaps, interruptions *)

\* The key of row r expired under one of its executions.
Lost(r) == \E x \in Tasks : lapsed[x] /\ req[x] = r

\* Who owns a key, or has lost it, has a job.
KeysKnown ==
  /\ \A r \in Requests : redisKey[r] # NoTask => pc[redisKey[r]] # "idle"
  /\ \A t \in Tasks : lapsed[t] => pc[t] # "idle"

\* An execution keeps its job.
LEMMA JobsStay ==
  ASSUME TypeOK, Next, NEW t \in Tasks, pc[t] # "idle"
  PROVE  pc'[t] # "idle" /\ req'[t] = req[t] /\ worker'[t] = worker[t]
<1> USE DEF TypeOK, Goto, jobVars
<1>1. CASE \E x \in Tasks : Submission(x) \/ CreateUrlRequest(x)
  BY <1>1 DEF Submission, CheckDuplicate, CreateForwardRequest, RetryFailedRequest, NewRow, Assign,
              CreateUrlRequest
<1>2. CASE \E x \in Tasks : Acquisition(x)
  BY <1>2 DEF Acquisition, AcquireRedis, AcquireRedisHeld, AcquireRedisRaises, AcquireLocal,
              AcquireLocalHeld, WaitLocal, GrantLocal, LockAcquired
<1>3. ASSUME NEW x \in Tasks, Processing(x) \/ Conclusion(x)
      PROVE  pc'[t] # "idle" /\ req'[t] = req[t] /\ worker'[t] = worker[t]
  <2>1. req' = req /\ worker' = worker
    BY <1>3 DEF Processing, Load, CheckSummary, AnnounceExisting, MarkProcessing,
                StageSucceeds, StageEmpty, StageRetries, StageFails, SaveSummary,
                MarkSuccess, AnnounceDone, Conclusion, PersistFailure, MarkError, AnnounceError,
                MarkCancelled, AnnounceCancelled, Release, Quiet
  <2>2. pc'[t] # "idle"
    BY <1>3 DEF Processing, Load, CheckSummary, AnnounceExisting, MarkProcessing, FirstStage,
                StageSucceeds, StageAfter, StageEmpty, StageRetries, StageFails, SaveSummary,
                MarkSuccess, AnnounceDone, Conclusion, PersistFailure, MarkError, AnnounceError,
                MarkCancelled, AnnounceCancelled, Release
  <2>. QED BY <2>1, <2>2
<1>4. CASE Environment \/ Idle
  BY <1>4 DEF Environment, KeyExpiresEarly, KeyExpires, Shutdown, Crash, Restart, CancelledAt, Idle,
              vars
<1> QED BY <1>1, <1>2, <1>3, <1>4 DEF Next, Execution

\* Keys are taken by executions that ask for them.
LEMMA KeyTaken ==
  ASSUME TypeOK, Next, NEW r \in Requests
  PROVE  \/ redisKey'[r] = redisKey[r] \/ redisKey'[r] = NoTask
         \/ redisKey'[r] \in Tasks /\ pc[redisKey'[r]] = "queued"
<1> USE DEF TypeOK, LockTypeOK
<1>1. CASE \E t \in Tasks : Acquisition(t)
  BY <1>1 DEF Acquisition, AcquireRedis, RedisAcquire, AcquireRedisHeld, RedisHeld,
              AcquireRedisRaises, RedisRaises, AcquireLocal, LocalAcquire, AcquireLocalHeld,
              LocalHeld, WaitLocal, LocalWait, GrantLocal, LocalGrant, lockVars
<1>2. CASE \E t \in Tasks : Release(t)
  BY <1>2 DEF Release, RedisRelease, RedisReleaseRaises, LocalRelease
<1>3. CASE \E q \in Requests : KeyExpiresEarly(q) \/ KeyExpires(q)
  BY <1>3 DEF KeyExpiresEarly, KeyExpires, RedisExpire
<1>4. CASE \E w \in Workers : Shutdown(w) \/ Crash(w) \/ Restart(w)
  BY <1>4 DEF Shutdown, Crash, Restart, WaitersLeave, ProcessEnds
<1>5. CASE \E t \in Tasks : Submission(t) \/ CreateUrlRequest(t)
  BY <1>5 DEF Submission, CheckDuplicate, CreateForwardRequest, RetryFailedRequest, NewRow,
              CreateUrlRequest, lockVars
<1>6. CASE \E t \in Tasks : Processing(t) \/ (Conclusion(t) /\ ~Release(t))
  BY <1>6 DEF Processing, Load, CheckSummary, AnnounceExisting, MarkProcessing,
              StageSucceeds, StageEmpty, StageRetries, StageFails, SaveSummary,
              MarkSuccess, AnnounceDone, Conclusion, PersistFailure, MarkError, AnnounceError,
              MarkCancelled, AnnounceCancelled, Quiet, lockVars
<1>7. CASE Idle
  BY <1>7 DEF Idle, vars, lockVars
<1> QED BY <1>1, <1>2, <1>3, <1>4, <1>5, <1>6, <1>7 DEF Next, Execution, Environment

\* A key expires in one kind of step only, under the execution that owns it.
LEMMA KeyExpiry ==
  ASSUME TypeOK, Next
  PROVE  \/ lapsed' = lapsed
         \/ \E r \in Requests : RedisExpire(r) /\ UNCHANGED <<rowVars, pc, jobVars>>
<1> USE DEF TypeOK, LockTypeOK
<1>1. CASE \E t \in Tasks : Acquisition(t)
  BY <1>1 DEF Acquisition, AcquireRedis, RedisAcquire, AcquireRedisHeld, RedisHeld,
              AcquireRedisRaises, RedisRaises, AcquireLocal, LocalAcquire, AcquireLocalHeld,
              LocalHeld, WaitLocal, LocalWait, GrantLocal, LocalGrant, lockVars
<1>2. CASE \E t \in Tasks : Release(t)
  BY <1>2 DEF Release, RedisRelease, RedisReleaseRaises, LocalRelease
<1>3. CASE \E q \in Requests : KeyExpiresEarly(q) \/ KeyExpires(q)
  BY <1>3 DEF KeyExpiresEarly, KeyExpires, RedisExpire
<1>4. CASE \E w \in Workers : Shutdown(w) \/ Crash(w) \/ Restart(w)
  BY <1>4 DEF Shutdown, Crash, Restart, WaitersLeave, ProcessEnds
<1>5. CASE \E t \in Tasks : Submission(t) \/ CreateUrlRequest(t)
  BY <1>5 DEF Submission, CheckDuplicate, CreateForwardRequest, RetryFailedRequest, NewRow,
              CreateUrlRequest, lockVars
<1>6. CASE \E t \in Tasks : Processing(t) \/ (Conclusion(t) /\ ~Release(t))
  BY <1>6 DEF Processing, Load, CheckSummary, AnnounceExisting, MarkProcessing,
              StageSucceeds, StageEmpty, StageRetries, StageFails, SaveSummary,
              MarkSuccess, AnnounceDone, Conclusion, PersistFailure, MarkError, AnnounceError,
              MarkCancelled, AnnounceCancelled, Quiet, lockVars
<1>7. CASE Idle
  BY <1>7 DEF Idle, vars, lockVars
<1> QED BY <1>1, <1>2, <1>3, <1>4, <1>5, <1>6, <1>7 DEF Next, Execution, Environment

\* Only owners lose a key, and the loss stays on record.
LEMMA KeyLost ==
  ASSUME TypeOK, Next, NEW t \in Tasks
  PROVE  /\ lapsed[t] => lapsed'[t]
         /\ lapsed'[t] => lapsed[t] \/ \E r \in Requests : redisKey[r] = t
<1>1. CASE lapsed' = lapsed
  BY <1>1
<1>2. CASE \E r \in Requests : RedisExpire(r)
  BY <1>2 DEF RedisExpire, TypeOK, LockTypeOK
<1>. QED BY <1>1, <1>2, KeyExpiry

\* A key expires under executions that have a job, in every reachable state.
LEMMA KeysInvariant == Spec => []KeysKnown
<1>1. Init => KeysKnown
  BY DEF Init, LockInit, KeysKnown
<1>2. TypeOK /\ KeysKnown /\ [Next]_vars => KeysKnown'
  <2>. SUFFICES ASSUME TypeOK, KeysKnown, [Next]_vars PROVE KeysKnown'
    OBVIOUS
  <2>1. CASE Next
    <3>1. ASSUME NEW r \in Requests, redisKey'[r] # NoTask PROVE pc'[redisKey'[r]] # "idle"
      <4>1. redisKey'[r] \in Tasks /\ pc[redisKey'[r]] # "idle"
        BY <2>1, <3>1, KeyTaken DEF KeysKnown, TypeOK, LockTypeOK
      <4>. QED BY <2>1, <4>1, JobsStay
    <3>2. ASSUME NEW t \in Tasks, lapsed'[t] PROVE pc'[t] # "idle"
      <4>1. lapsed[t] \/ \E r \in Requests : redisKey[r] = t
        BY <2>1, <3>2, KeyLost
      <4>2. pc[t] # "idle"
        BY <4>1, LockAssumption DEF KeysKnown
      <4>. QED BY <2>1, <4>2, JobsStay
    <3>. QED BY <3>1, <3>2 DEF KeysKnown
  <2>2. CASE UNCHANGED vars
    BY <2>2 DEF vars, lockVars, KeysKnown
  <2>. QED BY <2>1, <2>2
<1>. QED BY <1>1, <1>2, TypeCorrect, PTL DEF Spec

\* A lost lock stays on record.
LEMMA LostStays ==
  ASSUME TypeOK, KeysKnown, Next, NEW r \in Requests, Lost(r)
  PROVE  \E x \in Tasks : lapsed'[x] /\ req'[x] = r
<1>1. PICK x \in Tasks : lapsed[x] /\ req[x] = r
  BY DEF Lost
<1>2. lapsed'[x] /\ req'[x] = r
  BY <1>1, JobsStay, KeyLost DEF KeysKnown
<1>. QED BY <1>2

\* A row is among the lost ones exactly when its key expired under an execution.
LEMMA LostIsLocks == \A r : Lost(r) <=> r \in LostLocks
BY DEF Lost, LostLocks

\* The execution comes in; whoever is midway for its row goes on record with it.
Enters(t) == pc[t] \in {"queued", "local", "waiting"} /\ LockAcquired(t)

\* The settings stay, and an overlap is put on record by who comes in.
LEMMA OverlapsRecorded ==
  ASSUME TypeOK, Next
  PROVE  config' = config /\ (overlapped' = overlapped \/ \E t \in Tasks : Enters(t))
<1>1. CASE \E t \in Tasks : Acquisition(t)
  <2>1. config' = config
    BY <1>1 DEF Acquisition, AcquireRedis, RedisAcquire, AcquireRedisHeld, RedisHeld,
              AcquireRedisRaises, RedisRaises, AcquireLocal, LocalAcquire, AcquireLocalHeld,
              LocalHeld, WaitLocal, LocalWait, GrantLocal, LocalGrant, lockVars
  <2>2. overlapped' = overlapped \/ \E t \in Tasks : Enters(t)
    BY <1>1 DEF Acquisition, AcquireRedis, AcquireRedisHeld, AcquireRedisRaises, AcquireLocal,
              AcquireLocalHeld, WaitLocal, GrantLocal, AtLocal, Enters, envVars
  <2>. QED BY <2>1, <2>2
<1>2. CASE \E t \in Tasks : Release(t)
  BY <1>2 DEF Release, RedisRelease, RedisReleaseRaises, LocalRelease
<1>3. CASE \E q \in Requests : KeyExpiresEarly(q) \/ KeyExpires(q)
  BY <1>3 DEF KeyExpiresEarly, KeyExpires, RedisExpire, envVars
<1>4. CASE \E w \in Workers : Shutdown(w) \/ Crash(w) \/ Restart(w)
  BY <1>4 DEF Shutdown, Crash, Restart, WaitersLeave, ProcessEnds
<1>5. CASE \E t \in Tasks : Submission(t) \/ CreateUrlRequest(t)
  BY <1>5 DEF Submission, CheckDuplicate, CreateForwardRequest, RetryFailedRequest, NewRow,
              CreateUrlRequest, lockVars, envVars
<1>6. CASE \E t \in Tasks : Processing(t) \/ (Conclusion(t) /\ ~Release(t))
  BY <1>6 DEF Processing, Load, CheckSummary, AnnounceExisting, MarkProcessing,
              StageSucceeds, StageEmpty, StageRetries, StageFails, SaveSummary,
              MarkSuccess, AnnounceDone, Conclusion, PersistFailure, MarkError, AnnounceError,
              MarkCancelled, AnnounceCancelled, Quiet, lockVars
<1>7. CASE Idle
  BY <1>7 DEF Idle, vars, lockVars, envVars
<1> QED BY <1>1, <1>2, <1>3, <1>4, <1>5, <1>6, <1>7 DEF Next, Execution, Environment

\* What is on record of a row stays on record.
LEMMA RecordsGrow ==
  ASSUME TypeOK, Next
  PROVE  overlapped \subseteq overlapped' /\ cutShort \subseteq cutShort'
<1>1. overlapped \subseteq overlapped'
  BY OverlapsRecorded DEF Enters, LockAcquired
<1>2. cutShort \subseteq cutShort'
  <2>. USE DEF faults, NoFault, RedisFault, DbFault
  <2>1. CASE \E t \in Tasks : Submission(t) \/ CreateUrlRequest(t)
    BY <2>1 DEF Submission, CheckDuplicate, CreateForwardRequest, RetryFailedRequest, NewRow,
                CreateUrlRequest, envVars
  <2>2. CASE \E t \in Tasks : Acquisition(t)
    BY <2>2 DEF Acquisition, AcquireRedis, AcquireRedisHeld, AcquireRedisRaises, AcquireLocal,
                AcquireLocalHeld, WaitLocal, GrantLocal, LockAcquired, envVars
  <2>3. CASE \E t \in Tasks : Processing(t)
    BY <2>3 DEF Processing, Load, CheckSummary, AnnounceExisting, MarkProcessing,
                StageSucceeds, StageEmpty, StageRetries, StageFails, SaveSummary,
                MarkSuccess, AnnounceDone, WriteStatus, Publish
  <2>4. CASE \E t \in Tasks : Conclusion(t)
    BY <2>4 DEF Conclusion, PersistFailure, MarkError, AnnounceError, MarkCancelled,
                AnnounceCancelled, Release, WriteStatus, Publish
  <2>5. CASE Environment \/ Idle
    BY <2>5 DEF Environment, KeyExpiresEarly, KeyExpires, Shutdown, Crash, Restart, Idle, vars, envVars
  <2>. QED BY <2>1, <2>2, <2>3, <2>4, <2>5 DEF Next, Execution
<1>. QED BY <1>1, <1>2

\* The way midway leads over the lock.
LEMMA MidwayEntered ==
  ASSUME TypeOK, Next, NEW t \in Tasks, Midway(t)'
  PROVE  Midway(t) \/ Enters(t)
<1> USE DEF TypeOK, Midway, TryBody, Handlers, Stages, Goto
<1>1. CASE \E x \in Tasks : Submission(x) \/ CreateUrlRequest(x)
  BY <1>1 DEF Submission, CheckDuplicate, CreateForwardRequest, RetryFailedRequest, NewRow,
              CreateUrlRequest
<1>2. ASSUME NEW x \in Tasks, Acquisition(x) PROVE Midway(t) \/ Enters(t)
  <2>1. CASE AcquireRedis(x) \/ AcquireLocal(x) \/ GrantLocal(x)
    BY <2>1 DEF AcquireRedis, AcquireLocal, GrantLocal, AtLocal, Enters, LockAcquired
  <2>2. CASE AcquireRedisHeld(x) \/ AcquireRedisRaises(x) \/ AcquireLocalHeld(x) \/ WaitLocal(x)
    BY <2>2 DEF AcquireRedisHeld, AcquireRedisRaises, AcquireLocalHeld, WaitLocal
  <2>. QED BY <1>2, <2>1, <2>2 DEF Acquisition
<1>3. CASE \E x \in Tasks : Processing(x)
  BY <1>3 DEF Processing, Load, CheckSummary, AnnounceExisting, MarkProcessing, FirstStage,
              StageSucceeds, StageAfter, StageEmpty, StageRetries, StageFails, SaveSummary,
              MarkSuccess, AnnounceDone
<1>4. CASE \E x \in Tasks : Conclusion(x)
  BY <1>4 DEF Conclusion, PersistFailure, MarkError, AnnounceError, MarkCancelled,
              AnnounceCancelled, Release
<1>5. CASE Environment \/ Idle
  BY <1>5, ZenonT(30) DEF Environment, KeyExpiresEarly, KeyExpires, Shutdown, Crash, Restart, CancelledAt,
              Scheduled, Idle, vars
<1> QED BY <1>1, <1>2, <1>3, <1>4, <1>5 DEF Next, Execution

\* Two executions that are midway for one row are on record.
Alone ==
  \A t, x \in Tasks : t # x /\ Midway(t) /\ Midway(x) /\ req[t] = req[x] => req[t] \in overlapped

\* Who is midway stays at its row.
LEMMA MidwayStays ==
  ASSUME TypeOK, Next, NEW t \in Tasks, Midway(t)
  PROVE  req'[t] = req[t] /\ worker'[t] = worker[t]
BY JobsStay DEF Midway, TryBody, Handlers, Stages

\* No overlap goes unrecorded, in every reachable state.
LEMMA AloneInvariant == Spec => []Alone
<1>1. Init => Alone
  BY DEF Init, Alone, Midway, TryBody, Handlers, Stages
<1>2. TypeOK /\ Alone /\ [Next]_vars => Alone'
  <2>. SUFFICES ASSUME TypeOK, Alone, [Next]_vars PROVE Alone'
    OBVIOUS
  <2>1. ASSUME Next, NEW t \in Tasks, NEW x \in Tasks, t # x, Midway(t)', Midway(x)', req'[t] = req'[x]
        PROVE  req'[t] \in overlapped'
    <3>1. CASE Midway(t) /\ Midway(x)
      BY <2>1, <3>1, MidwayStays, RecordsGrow DEF Alone
    <3>2. ASSUME NEW a \in Tasks, NEW b \in Tasks, a # b, Enters(a), Midway(b)', req'[a] = req'[b]
          PROVE  req'[a] \in overlapped'
      <4>1. pc'[b] = pc[b] /\ req' = req
        BY <3>2 DEF Enters, LockAcquired, Goto, jobVars, TypeOK
      <4>. QED BY <3>2, <4>1 DEF Enters, LockAcquired, Midway
    <3>. QED BY <2>1, <3>1, <3>2, MidwayEntered
  <2>2. CASE UNCHANGED vars
    BY <2>2 DEF vars, rowVars, jobVars, envVars, Alone, Midway
  <2>. QED BY <2>1, <2>2 DEF Alone
<1>. QED BY <1>1, <1>2, TypeCorrect, PTL DEF Spec

\* Where every execution of a row asks for one lock and leaves when it is held, only the
\* expiry of the row's key lets a second one in: for every number of errors, crashes,
\* restarts and cancellations.
THEOREM ExpiryOverlaps == Spec => []OnlyExpiryOverlaps
<1>1. Init => OnlyExpiryOverlaps
  BY DEF Init, OnlyExpiryOverlaps
<1>2. TypeOK /\ KeysKnown /\ MutualExclusion' /\ OnlyExpiryOverlaps /\ [Next]_vars => OnlyExpiryOverlaps'
  <2>. SUFFICES ASSUME TypeOK, KeysKnown, MutualExclusion', OnlyExpiryOverlaps, [Next]_vars
                PROVE  OnlyExpiryOverlaps'
    OBVIOUS
  <2>1. CASE Next
    <3>. SUFFICES ASSUME config'.skip, config'.redis \/ \A v, w \in Workers : v = w,
                         NEW r \in overlapped'
                  PROVE  r \in LostLocks'
      BY DEF OnlyExpiryOverlaps
    <3>1. config' = config /\ (overlapped' = overlapped \/ \E t \in Tasks : Enters(t))
      BY <2>1, OverlapsRecorded
    <3>2. CASE r \in overlapped
      <4>1. r \in Requests /\ Lost(r)
        BY <3>1, <3>2, LostIsLocks DEF OnlyExpiryOverlaps, TypeOK
      <4>2. \E x \in Tasks : lapsed'[x] /\ req'[x] = r
        BY <2>1, <4>1, LostStays
      <4>. QED BY <4>2 DEF LostLocks
    <3>3. CASE r \notin overlapped
      <4>1. PICK t \in Tasks : Enters(t)
        BY <3>1, <3>3
      <4>2. PICK x \in Tasks : Midway(x) /\ req[x] = req[t] /\ r = req[t]
        BY <3>3, <4>1 DEF Enters, LockAcquired
      <4>3. x # t
        BY <4>1, <4>2 DEF Enters, Midway, TryBody, Handlers, Stages
      <4>4. Inside(x)' /\ Inside(t)'
        BY <4>1, <4>2, <4>3 DEF Enters, LockAcquired, Goto, Inside, Section, Midway, TryBody, TypeOK
      <4>5. req' = req /\ worker' = worker /\ worker[t] \in Workers /\ worker[x] \in Workers
        BY <4>1 DEF Enters, LockAcquired, jobVars, TypeOK
      <4>6. Compete(t, x)'
        BY <4>2, <4>3, <4>5 DEF Compete
      <4>7. lapsed'[t] \/ lapsed'[x]
        BY <4>4, <4>6 DEF MutualExclusion
      <4>. QED BY <4>2, <4>5, <4>7 DEF LostLocks
    <3>. QED BY <3>2, <3>3
  <2>2. CASE UNCHANGED vars
    BY <2>2 DEF vars, lockVars, jobVars, envVars, OnlyExpiryOverlaps, LostLocks
  <2>. QED BY <2>1, <2>2
<1>. QED BY <1>1, <1>2, TypeCorrect, KeysInvariant, LockExcludes, PTL DEF Spec

-----------------------------------------------------------------------------
(* Results stand: no execution stores or overwrites what another stored, but  *)
(* for rows on record.                                                        *)

\* The executions that found no summary and have stored none.
Fresh == Stages \cup {"start", "save", "persistError", "markError"}
UnsavedInv == \A t \in Tasks : pc[t] \in Fresh => ~summary[req[t]] \/ req[t] \in Disturbed

\* Who comes to work on a row found no summary of it, or got no answer.
LEMMA FreshEntered ==
  ASSUME TypeOK, Next, NEW t \in Tasks, pc'[t] \in Fresh
  PROVE  \/ pc[t] \in Fresh
         \/ pc[t] = "check" /\ ~summary[req[t]] /\ summary' = summary
         \/ pc[t] # "idle" /\ req[t] \in cutShort'
<1> USE DEF TypeOK, Fresh, Stages, Goto
<1>1. CASE \E x \in Tasks : Submission(x) \/ CreateUrlRequest(x)
  BY <1>1 DEF Submission, CheckDuplicate, CreateForwardRequest, RetryFailedRequest, NewRow,
              CreateUrlRequest
<1>2. CASE \E x \in Tasks : Acquisition(x)
  BY <1>2 DEF Acquisition, AcquireRedis, AcquireRedisHeld, AcquireRedisRaises, AcquireLocal,
              AcquireLocalHeld, WaitLocal, GrantLocal, LockAcquired
<1>3. CASE \E x \in Tasks : Processing(x)
  BY <1>3 DEF Processing, Load, CheckSummary, AnnounceExisting, MarkProcessing, FirstStage,
              StageSucceeds, StageAfter, StageEmpty, StageRetries, StageFails, SaveSummary,
              MarkSuccess, AnnounceDone, Quiet, DbFault
<1>4. CASE \E x \in Tasks : Conclusion(x)
  BY <1>4 DEF Conclusion, PersistFailure, MarkError, AnnounceError, MarkCancelled,
              AnnounceCancelled, Release
<1>5. CASE Environment \/ Idle
  BY <1>5, ZenonT(30) DEF Environment, KeyExpiresEarly, KeyExpires, Shutdown, Crash, Restart, CancelledAt,
              Idle, vars
<1> QED BY <1>1, <1>2, <1>3, <1>4, <1>5 DEF Next, Execution

\* A summary is stored by an execution at "save" and by no other.
LEMMA SummaryGrows ==
  ASSUME TypeOK, Next, NEW r \in Requests, summary'[r], ~summary[r]
  PROVE  \E x \in Tasks : pc[x] = "save" /\ req[x] = r /\ (pc'[x] = "markSuccess" \/ r \in cutShort')
<1> USE DEF rowVars
<1>1. CASE \E t \in Tasks : Submission(t) \/ CreateUrlRequest(t) \/ Acquisition(t)
  BY <1>1 DEF Submission, CheckDuplicate, CreateForwardRequest, RetryFailedRequest, NewRow,
              CreateUrlRequest, Acquisition, AcquireRedis, AcquireRedisHeld,
              AcquireRedisRaises, AcquireLocal, AcquireLocalHeld, WaitLocal, GrantLocal,
              LockAcquired
<1>2. ASSUME NEW t \in Tasks, Processing(t)
      PROVE  \E x \in Tasks : pc[x] = "save" /\ req[x] = r /\ (pc'[x] = "markSuccess" \/ r \in cutShort')
  <2>1. CASE SaveSummary(t)
    BY <2>1 DEF SaveSummary, TypeOK, Goto, DbFault
  <2>2. CASE ~SaveSummary(t)
    BY <1>2, <2>2 DEF Processing, Load, CheckSummary, AnnounceExisting, MarkProcessing,
              StageSucceeds, StageEmpty, StageRetries, StageFails, MarkSuccess, AnnounceDone
  <2> QED BY <2>1, <2>2
<1>3. CASE \E t \in Tasks : Conclusion(t)
  BY <1>3 DEF Conclusion, PersistFailure, MarkError, AnnounceError, MarkCancelled,
              AnnounceCancelled, Release
<1>4. CASE Environment \/ Idle
  BY <1>4 DEF Environment, KeyExpiresEarly, KeyExpires, Shutdown, Crash, Restart, Idle, vars
<1> QED BY <1>1, <1>2, <1>3, <1>4 DEF Next, Execution

\* Executions at work have no summary to repeat, unless the row is on record.
LEMMA UnsavedInvariant == Spec => []UnsavedInv
<1>1. Init => UnsavedInv
  BY DEF Init, UnsavedInv, Fresh, Stages
<1>2. TypeOK /\ Alone /\ UnsavedInv /\ [Next]_vars => UnsavedInv'
  <2>. SUFFICES ASSUME TypeOK, Alone, UnsavedInv, [Next]_vars
                PROVE  UnsavedInv'
    OBVIOUS
  <2>1. CASE Next
    <3>0. SUFFICES ASSUME NEW t \in Tasks, pc'[t] \in Fresh, summary'[req'[t]], req'[t] \notin cutShort'
                  PROVE  req'[t] \in overlapped'
      BY DEF UnsavedInv, Disturbed
    <3>1. \/ pc[t] \in Fresh
          \/ pc[t] = "check" /\ ~summary[req[t]] /\ summary' = summary
          \/ pc[t] # "idle" /\ req[t] \in cutShort'
      BY <2>1, <3>0, FreshEntered
    <3>2. pc[t] # "idle"
      BY <3>1 DEF Fresh, Stages
    <3>3. req'[t] = req[t] /\ req[t] \in Requests
      BY <2>1, <3>0, <3>2, JobsStay DEF TypeOK
    <3>4. Midway(t) /\ (pc[t] \in Fresh \/ (~summary[req[t]] /\ summary' = summary))
      BY <3>0, <3>1, <3>3 DEF Fresh, Stages, Midway, TryBody, Handlers
    <3>5. overlapped \subseteq overlapped' /\ cutShort \subseteq cutShort'
      BY <2>1, RecordsGrow
    <3>6. CASE summary[req[t]]
      BY <3>0, <3>3, <3>4, <3>5, <3>6 DEF UnsavedInv, Disturbed
    <3>7. CASE ~summary[req[t]]
      <4>1. PICK x \in Tasks : pc[x] = "save" /\ req[x] = req[t] /\ pc'[x] = "markSuccess"
        BY <2>1, <3>0, <3>3, <3>7, SummaryGrows
      <4>2. x # t /\ Midway(x)
        BY <3>0, <4>1 DEF Fresh, Stages, Midway, TryBody
      <4>. QED BY <3>0, <3>3, <3>4, <3>5, <4>1, <4>2 DEF Alone
    <3>. QED BY <3>6, <3>7
  <2>2. CASE UNCHANGED vars
    BY <2>2 DEF vars, rowVars, jobVars, envVars, faults, UnsavedInv, Disturbed
  <2>. QED BY <2>1, <2>2
<1>. QED BY <1>1, <1>2, TypeCorrect, AloneInvariant, PTL DEF Spec

\* Whatever is cancelled, crashes or fails, and under every setting of the lock: a stored
\* summary is never stored again, unless executions of that row overlapped or were cut short.
THEOREM StagesRunOnce == Spec => SavedOnce
<1>1. UnsavedInv /\ [Next]_vars =>
        [\A t \in Tasks : pc[t] = "save" /\ pc'[t] = "markSuccess"
           => ~summary[req[t]] \/ req[t] \in Disturbed]_vars
  BY DEF UnsavedInv, Fresh
<1>. QED BY <1>1, UnsavedInvariant, PTL DEF Spec, SavedOnce

-----------------------------------------------------------------------------
(* The lifecycle of a row: every step of the executions is a step of          *)
(* RequestLifecycle, or leaves its row alone.                                 *)

\* An execution moves on, the others stay where they are.
Moves(t, from, to) == pc[t] = from /\ pc' = [pc EXCEPT ![t] = to]

\* The steps that write the row of an execution.
OpensRow(t) ==
  /\ Moves(t, "checked", "queued")
  /\ status' = [status EXCEPT ![req[t]] = "pending"] /\ UNCHANGED summary
StartsRow(t) ==
  /\ Moves(t, "start", "extraction") \/ Moves(t, "start", "summarization")
  /\ status' = [status EXCEPT ![req[t]] = "processing"] /\ UNCHANGED summary
StoresRow(t) ==
  /\ Moves(t, "save", "markSuccess")
  /\ summary' = [summary EXCEPT ![req[t]] = TRUE] /\ UNCHANGED status
FinishesRow(t) ==
  /\ Moves(t, "markSuccess", "announceDone")
  /\ status' = [status EXCEPT ![req[t]] = "success"] /\ UNCHANGED summary
FailsRow(t) ==
  /\ \/ Moves(t, "persistError", "markError") \/ Moves(t, "persistError", "announceError")
     \/ Moves(t, "markError", "announceError")
  /\ status' = [status EXCEPT ![req[t]] = "error"] /\ UNCHANGED summary
CancelsRow(t) ==
  /\ Moves(t, "markCancelled", "announceCancelled")
  /\ status' = [status EXCEPT ![req[t]] = "cancelled"] /\ UNCHANGED summary
WritesRow(t) ==
  /\ OpensRow(t) \/ StartsRow(t) \/ StoresRow(t) \/ FinishesRow(t) \/ FailsRow(t) \/ CancelsRow(t)
  /\ UNCHANGED <<req, overlapped, cutShort>>

\* A new row for an execution that had no job.
CreatesRow(t, r) ==
  /\ Moves(t, "idle", "queued") /\ req' = [req EXCEPT ![t] = r]
  /\ status[r] = "absent"
  /\ status' = [status EXCEPT ![r] = "pending"] /\ UNCHANGED <<summary, overlapped, cutShort>>

NoWork == {"idle", "checked", "done"}

\* A step that writes no status: who comes to work, leaves it or is to mark its row
\* otherwise than by writing the status has been cut short.
KeepsStatus ==
  /\ UNCHANGED status
  /\ \A t \in Tasks : /\ pc[t] \in Working /\ pc'[t] \notin Working => req[t] \in cutShort'
                      /\ pc'[t] \in Working => pc[t] \in Working \/ req'[t] \in cutShort'
                      /\ pc'[t] = "markError" => pc[t] = "markError" \/ req'[t] \in cutShort'
                      /\ pc'[t] = "markCancelled" => pc[t] = "markCancelled" \/ req'[t] \in cutShort'
                      /\ pc[t] \in NoWork => pc'[t] \in NoWork

\* The summary is stored and the answer lost.
StoresUnanswered(t) ==
  /\ summary' = [summary EXCEPT ![req[t]] = TRUE]
  /\ cutShort' = cutShort \cup {req[t]} /\ UNCHANGED overlapped

\* What a step does to the rows.
LEMMA RowSteps ==
  ASSUME TypeOK, Next
  PROVE  \/ \E t \in Tasks : WritesRow(t)
         \/ \E t \in Tasks, r \in Requests : CreatesRow(t, r)
         \/ KeepsStatus /\ (UNCHANGED summary \/ \E t \in Tasks : StoresUnanswered(t))
<1> USE DEF TypeOK, Goto, rowVars
<1>1. CASE \E t \in Tasks, u \in Users, w \in Workers, r \in Requests :
              CheckDuplicate(t, u, w, r)
  <2>1. PICK t \in Tasks : pc[t] = "idle" /\ pc' = [pc EXCEPT ![t] = "checked"]
    BY <1>1 DEF CheckDuplicate, Assign
  <2>2. UNCHANGED <<status, summary>>
    BY <1>1 DEF CheckDuplicate
  <2>. QED BY <2>1, <2>2 DEF KeepsStatus, NoWork, Working, Stages
<1>2. CASE \E t \in Tasks, u \in Users, w \in Workers, r \in Requests, k \in Kinds :
              NewRow(t, u, w, r, k)
  BY <1>2 DEF NewRow, Assign, CreatesRow, Moves, envVars, faults
<1>3. CASE \E t \in Tasks : CreateUrlRequest(t)
  BY <1>3 DEF CreateUrlRequest, WritesRow, OpensRow, Moves, jobVars, envVars, faults
<1>4. CASE \E t \in Tasks : Acquisition(t)
  <2>1. PICK t \in Tasks : /\ pc[t] \in {"queued", "local", "waiting"}
                           /\ \E to \in {"load", "done", "local", "waiting"} :
                                pc' = [pc EXCEPT ![t] = to]
    BY <1>4 DEF Acquisition, AcquireRedis, AcquireRedisHeld, AcquireRedisRaises, AcquireLocal,
                AcquireLocalHeld, WaitLocal, GrantLocal, LockAcquired, AtLocal
  <2>2. UNCHANGED <<status, summary>>
    BY <1>4 DEF Acquisition, AcquireRedis, AcquireRedisHeld, AcquireRedisRaises, AcquireLocal,
                AcquireLocalHeld, WaitLocal, GrantLocal, LockAcquired
  <2>. QED BY <2>1, <2>2 DEF KeepsStatus, NoWork, Working, Stages
<1>5. ASSUME NEW t \in Tasks, Processing(t) \/ Conclusion(t)
      PROVE  \/ WritesRow(t)
             \/ KeepsStatus /\ (UNCHANGED summary \/ StoresUnanswered(t))
  <2>. DEFINE Calm == KeepsStatus /\ UNCHANGED summary
  <2>0. req' = req
    BY <1>5 DEF Processing, Load, CheckSummary, AnnounceExisting, MarkProcessing,
                StageSucceeds, StageEmpty, StageRetries, StageFails, SaveSummary,
                MarkSuccess, AnnounceDone, Conclusion, PersistFailure, MarkError, AnnounceError,
                MarkCancelled, AnnounceCancelled, Release, Quiet, jobVars
  <2>. USE <2>0 DEF KeepsStatus, NoWork, Working, Stages
  <2>1. CASE Load(t)
    BY <2>1 DEF Load, DbFault
  <2>2. CASE CheckSummary(t) \/ AnnounceExisting(t) \/ AnnounceDone(t)
    BY <2>2 DEF CheckSummary, AnnounceExisting, AnnounceDone
  <2>3. CASE StageSucceeds(t)
    <3>1. pc[t] \in Stages /\ pc' = [pc EXCEPT ![t] = StageAfter(kind[req[t]], pc[t])]
      BY <2>3 DEF StageSucceeds
    <3>2. StageAfter(kind[req[t]], pc[t]) \in Stages \cup {"save"}
      BY DEF StageAfter
    <3>3. UNCHANGED <<status, summary>>
      BY <2>3 DEF StageSucceeds
    <3>. QED BY <3>1, <3>2, <3>3
  <2>4. CASE StageEmpty(t) \/ StageFails(t)
    <3>1. pc[t] \in Stages /\ pc' = [pc EXCEPT ![t] = "persistError"] /\ UNCHANGED <<status, summary>>
      BY <2>4 DEF StageEmpty, StageFails
    <3>2. Calm
      BY <3>1
    <3>. QED BY <3>2
  <2>12. CASE StageRetries(t)
    BY <2>12 DEF StageRetries
  <2>5. CASE SaveSummary(t)
    <3>1. CASE NoFault
      BY <2>5, <3>1 DEF SaveSummary, NoFault, DbFault, faults, WritesRow, StoresRow, Moves, Quiet
    <3>2. CASE DbFault(req[t])
      BY <2>5, <3>2 DEF SaveSummary, DbFault, StoresUnanswered, Quiet
    <3>. QED BY <2>5, <3>1, <3>2 DEF SaveSummary
  <2>6. ASSUME NEW s \in Statuses, WriteStatus(req[t], s), UNCHANGED <<summary, overlapped>>,
               NEW from \in PCs, NEW to \in PCs \ NoWork, pc[t] = from, from \notin NoWork,
               pc' = [pc EXCEPT ![t] = to], to # "markCancelled"
        PROVE  \/ Calm
               \/ status' = [status EXCEPT ![req[t]] = s] /\ UNCHANGED cutShort
    BY <2>6 DEF WriteStatus, NoFault, DbFault, faults
  <2>7. CASE MarkProcessing(t)
    <3>1. PICK to \in {"extraction", "summarization"} :
            /\ pc[t] = "start" /\ pc' = [pc EXCEPT ![t] = to] /\ UNCHANGED <<summary, overlapped>>
            /\ WriteStatus(req[t], "processing")
      BY <2>7 DEF MarkProcessing, FirstStage, Quiet
    <3>2. \/ Calm
          \/ status' = [status EXCEPT ![req[t]] = "processing"] /\ UNCHANGED cutShort
      BY <2>6, <3>1 DEF Statuses, PCs, Section, TryBody
    <3>. QED BY <3>1, <3>2 DEF WritesRow, StartsRow, Moves
  <2>8. CASE MarkSuccess(t)
    <3>1. /\ pc[t] = "markSuccess" /\ pc' = [pc EXCEPT ![t] = "announceDone"]
          /\ UNCHANGED <<summary, overlapped>> /\ WriteStatus(req[t], "success")
      BY <2>8 DEF MarkSuccess, Quiet
    <3>2. \/ Calm
          \/ status' = [status EXCEPT ![req[t]] = "success"] /\ UNCHANGED cutShort
      BY <2>6, <3>1 DEF Statuses, PCs, Section, TryBody
    <3>. QED BY <3>1, <3>2 DEF WritesRow, FinishesRow, Moves
  <2>9. CASE PersistFailure(t) \/ MarkError(t)
    <3>1. PICK to \in {"markError", "announceError"} :
            /\ pc[t] = "persistError" \/ (pc[t] = "markError" /\ to = "announceError")
            /\ pc' = [pc EXCEPT ![t] = to] /\ UNCHANGED <<summary, overlapped>>
            /\ WriteStatus(req[t], "error")
      BY <2>9 DEF PersistFailure, MarkError, Quiet
    <3>2. \/ Calm
          \/ status' = [status EXCEPT ![req[t]] = "error"] /\ UNCHANGED cutShort
      BY <2>6, <3>1 DEF Statuses, PCs, Section, Handlers
    <3>. QED BY <3>1, <3>2 DEF WritesRow, FailsRow, Moves
  <2>10. CASE MarkCancelled(t)
    <3>1. /\ pc[t] = "markCancelled" /\ pc' = [pc EXCEPT ![t] = "announceCancelled"]
          /\ UNCHANGED <<summary, overlapped>> /\ WriteStatus(req[t], "cancelled")
      BY <2>10 DEF MarkCancelled, Quiet
    <3>2. \/ Calm
          \/ status' = [status EXCEPT ![req[t]] = "cancelled"] /\ UNCHANGED cutShort
      BY <2>6, <3>1 DEF Statuses, PCs, Section, Handlers
    <3>. QED BY <3>1, <3>2 DEF WritesRow, CancelsRow, Moves
  <2>11. CASE AnnounceError(t) \/ AnnounceCancelled(t) \/ Release(t)
    BY <2>11 DEF AnnounceError, AnnounceCancelled, Release
  <2>. QED BY <1>5, <2>1, <2>2, <2>3, <2>4, <2>5, <2>7, <2>8, <2>9, <2>10, <2>11, <2>12 DEF Processing, Conclusion
<1>6. CASE \/ \E r \in Requests : KeyExpiresEarly(r) \/ KeyExpires(r)
           \/ \E w \in Workers : Restart(w)
           \/ Idle
  BY <1>6 DEF KeyExpiresEarly, KeyExpires, Restart, Idle, vars, KeepsStatus
<1>7. CASE \E t \in Tasks : Submission(t)
  BY <1>1, <1>2, <1>7 DEF Submission, CreateForwardRequest, RetryFailedRequest, Kinds
<1>8. ASSUME NEW w \in Workers, Shutdown(w) \/ Crash(w)
      PROVE  KeepsStatus /\ UNCHANGED summary
  <2>1. /\ UNCHANGED <<status, summary, req>> /\ cutShort' = cutShort \cup MidwayIn(w)
        /\ \A t \in Tasks : pc'[t] \in IF t \in Own(w) THEN {CancelledAt(t), "done"} ELSE {pc[t]}
    BY <1>8 DEF Shutdown, Crash, jobVars
  <2>2. ASSUME NEW t \in Tasks PROVE \/ Midway(t) /\ req'[t] = req[t] /\ req[t] \in cutShort'
                                     \/ pc'[t] = pc[t]
                                     \/ ~Midway(t) /\ pc'[t] = "done"
    <3>1. CASE t \in Own(w) /\ Midway(t)
      BY <2>1, <3>1 DEF MidwayIn
    <3>2. CASE t \in Own(w) /\ ~Midway(t)
      BY <2>1, <3>2 DEF Midway, CancelledAt
    <3>3. CASE t \notin Own(w)
      BY <2>1, <3>3
    <3>. QED BY <3>1, <3>2, <3>3
  <2>. QED BY <2>1, <2>2
       DEF KeepsStatus, NoWork, Working, Stages, Midway, TryBody, Handlers
<1>. QED BY <1>3, <1>4, <1>5, <1>6, <1>7, <1>8 DEF Next, Execution, Environment

\* What the rows look like: an execution at work finds its row pending or processing, one
\* about to mark an error finds it pending or marked, "processing" means that someone is at
\* work, and who marks a row cancelled was cut short; but for rows on record.
HasRow(t) == pc[t] \notin NoWork => status[req[t]] # "absent"
WorksOnOpen(t) ==
  pc[t] \in Working => req[t] \in Disturbed \/ status[req[t]] \in {"pending", "processing"}
MarksFailed(t) ==
  pc[t] = "markError" => req[t] \in Disturbed \/ status[req[t]] \in {"pending", "error"}
CutBefore(t) == pc[t] = "markCancelled" => req[t] \in cutShort

Tended(r) ==
  status[r] = "processing" => r \in cutShort \/ \E t \in Tasks : pc[t] \in Working /\ req[t] = r
CancelledCut(r) == status[r] = "cancelled" => r \in cutShort

LifeInv ==
  /\ \A r \in Requests : Tended(r) /\ CancelledCut(r)
  /\ \A t \in Tasks : HasRow(t) /\ WorksOnOpen(t) /\ MarksFailed(t) /\ CutBefore(t)

\* A disturbed row stays disturbed.
LEMMA DisturbedGrows ==
  ASSUME TypeOK, Next
  PROVE  Disturbed \subseteq Disturbed' /\ cutShort \subseteq cutShort'
BY RecordsGrow DEF Disturbed

\* A step that writes no status.
LEMMA KeepsLife ==
  ASSUME TypeOK, LifeInv, Next, KeepsStatus
  PROVE  LifeInv'
<1>1. \A t \in Tasks : pc[t] # "idle" => req'[t] = req[t]
  BY JobsStay
<1>2. Disturbed \subseteq Disturbed' /\ cutShort \subseteq cutShort' /\ status' = status
  BY DisturbedGrows DEF KeepsStatus
<1>3. ASSUME NEW r \in Requests PROVE (Tended(r) /\ CancelledCut(r))'
  <2>1. CASE \E t \in Tasks : pc[t] \in Working /\ req[t] = r
    <3>1. PICK t \in Tasks : pc[t] \in Working /\ req[t] = r
      BY <2>1
    <3>2. req'[t] = r
      BY <1>1, <3>1 DEF Working, Stages
    <3>3. pc'[t] \in Working \/ r \in cutShort'
      BY <3>1 DEF KeepsStatus
    <3>. QED BY <1>2, <3>1, <3>2, <3>3 DEF LifeInv, Tended, CancelledCut
  <2>2. CASE ~ \E t \in Tasks : pc[t] \in Working /\ req[t] = r
    BY <1>2, <2>2 DEF LifeInv, Tended, CancelledCut
  <2>. QED BY <2>1, <2>2
<1>4. ASSUME NEW t \in Tasks
      PROVE  (HasRow(t) /\ WorksOnOpen(t) /\ MarksFailed(t) /\ CutBefore(t))'
  <2>1. CASE pc[t] \in NoWork
    <3>1. pc'[t] \in NoWork
      BY <2>1 DEF KeepsStatus
    <3>. QED BY <3>1 DEF HasRow, WorksOnOpen, MarksFailed, CutBefore, Working, Stages, NoWork
  <2>2. CASE pc[t] \notin NoWork
    <3>1. req'[t] = req[t] /\ req[t] \in Requests
      BY <1>1, <2>2 DEF TypeOK, NoWork
    <3>2. HasRow(t)'
      BY <1>2, <2>2, <3>1 DEF LifeInv, HasRow
    <3>3. WorksOnOpen(t)'
      BY <1>2, <3>1 DEF LifeInv, WorksOnOpen, KeepsStatus, Disturbed
    <3>4. MarksFailed(t)'
      BY <1>2, <3>1 DEF LifeInv, MarksFailed, KeepsStatus, Disturbed
    <3>5. CutBefore(t)'
      BY <1>2, <3>1 DEF LifeInv, CutBefore, KeepsStatus
    <3>. QED BY <3>2, <3>3, <3>4, <3>5
  <2>. QED BY <2>1, <2>2
<1>. QED BY <1>3, <1>4 DEF LifeInv

\* A new row is pending, and nobody works on it.
LEMMA CreatesLife ==
  ASSUME TypeOK, LifeInv, Next, NEW x \in Tasks, NEW q \in Requests, CreatesRow(x, q)
  PROVE  LifeInv'
<1>1. /\ pc[x] = "idle" /\ pc' = [pc EXCEPT ![x] = "queued"]
      /\ req' = [req EXCEPT ![x] = q]
      /\ status[q] = "absent" /\ status' = [status EXCEPT ![q] = "pending"]
  BY DEF CreatesRow, Moves
<1>2. Disturbed' = Disturbed /\ cutShort' = cutShort
  BY DEF CreatesRow, Disturbed
<1>3. ASSUME NEW r \in Requests PROVE (Tended(r) /\ CancelledCut(r))'
  <2>1. CASE r = q
    BY <1>1, <2>1 DEF Tended, CancelledCut, TypeOK
  <2>2. CASE r # q
    <3>1. status'[r] = status[r]
      BY <1>1, <2>2 DEF TypeOK
    <3>2. ASSUME NEW t \in Tasks, pc[t] \in Working, req[t] = r
          PROVE  pc'[t] \in Working /\ req'[t] = r
      BY <1>1, <3>2 DEF Working, Stages, TypeOK
    <3>. QED BY <1>2, <3>1, <3>2 DEF LifeInv, Tended, CancelledCut
  <2>. QED BY <2>1, <2>2
<1>4. ASSUME NEW t \in Tasks
      PROVE  (HasRow(t) /\ WorksOnOpen(t) /\ MarksFailed(t) /\ CutBefore(t))'
  <2>1. CASE t = x
    <3>1. pc'[t] = "queued" /\ req'[t] = q /\ status'[q] = "pending"
      BY <1>1, <2>1 DEF TypeOK
    <3>. QED BY <3>1 DEF HasRow, WorksOnOpen, MarksFailed, CutBefore, Working, Stages
  <2>2. CASE t # x
    <3>1. pc'[t] = pc[t] /\ req'[t] = req[t] /\ req[t] \in Requests
      BY <1>1, <2>2 DEF TypeOK
    <3>2. status'[req[t]] = status[req[t]] \/ status'[req[t]] = "pending"
      BY <1>1, <3>1 DEF TypeOK
    <3>3. HasRow(t)'
      BY <3>1, <3>2 DEF LifeInv, HasRow
    <3>4. WorksOnOpen(t)' /\ MarksFailed(t)' /\ CutBefore(t)'
      BY <1>2, <3>1, <3>2 DEF LifeInv, WorksOnOpen, MarksFailed, CutBefore
    <3>. QED BY <3>3, <3>4
  <2>. QED BY <2>1, <2>2
<1>. QED BY <1>3, <1>4 DEF LifeInv

\* An execution that writes its row.  Whoever else is midway for that row overlaps with it,
\* so the row is on record.
LEMMA WritesLife ==
  ASSUME TypeOK, Alone, LifeInv, Next, NEW x \in Tasks, WritesRow(x)
  PROVE  LifeInv'
<1>1. req' = req /\ Disturbed' = Disturbed /\ cutShort' = cutShort
  BY DEF WritesRow, Disturbed
<1>2. PICK to \in {"queued", "extraction", "summarization", "markSuccess", "announceDone",
                   "markError", "announceError", "announceCancelled"} : pc' = [pc EXCEPT ![x] = to]
  BY DEF WritesRow, OpensRow, StartsRow, StoresRow, FinishesRow, FailsRow, CancelsRow, Moves
<1>3. /\ \A r \in Requests : r # req[x] => status'[r] = status[r]
      /\ status'[req[x]] \in {status[req[x]], "pending", "processing", "success", "error", "cancelled"}
      /\ status'[req[x]] = "cancelled" => status[req[x]] = "cancelled" \/ pc[x] = "markCancelled"
  BY DEF WritesRow, OpensRow, StartsRow, StoresRow, FinishesRow, FailsRow, CancelsRow, Moves, TypeOK
<1>4. pc[x] # "checked" => Midway(x)
  BY DEF WritesRow, OpensRow, StartsRow, StoresRow, FinishesRow, FailsRow, CancelsRow, Moves, Midway,
         TryBody, Handlers, Stages
<1>5. ASSUME NEW r \in Requests PROVE (Tended(r) /\ CancelledCut(r))'
  <2>1. CancelledCut(r)'
    BY <1>1, <1>3 DEF LifeInv, CancelledCut, CutBefore
  <2>2. ASSUME status'[r] = "processing", r \notin cutShort
        PROVE  \E t \in Tasks : pc'[t] \in Working /\ req'[t] = r
    <3>1. CASE StartsRow(x) /\ r = req[x]
      <4>1. pc'[x] \in Stages
        BY <3>1 DEF StartsRow, Moves, TypeOK, Stages
      <4>. QED BY <1>1, <3>1, <4>1 DEF Working
    <3>2. CASE ~(StartsRow(x) /\ r = req[x])
      <4>1. status[r] = "processing"
        BY <2>2, <3>2 DEF WritesRow, OpensRow, StartsRow, StoresRow, FinishesRow, FailsRow, CancelsRow,
                          TypeOK
      <4>2. PICK t \in Tasks : pc[t] \in Working /\ req[t] = r
        BY <2>2, <4>1 DEF LifeInv, Tended
      <4>3. CASE t # x
        BY <1>1, <1>2, <4>2, <4>3 DEF TypeOK
      <4>4. CASE t = x
        <5>1. pc'[x] \in Working
          <6>1. CASE StartsRow(x) \/ StoresRow(x)
            BY <6>1 DEF StartsRow, StoresRow, Moves, Working, Stages, TypeOK
          <6>2. CASE OpensRow(x) \/ CancelsRow(x)
            BY <4>2, <4>4, <6>2 DEF OpensRow, CancelsRow, Moves, Working, Stages
          <6>3. CASE FinishesRow(x) \/ FailsRow(x)
            BY <2>2, <4>2, <4>4, <6>3 DEF FinishesRow, FailsRow, TypeOK
          <6>. QED BY <6>1, <6>2, <6>3 DEF WritesRow
        <5>. QED BY <1>1, <4>2, <4>4, <5>1
      <4>. QED BY <4>3, <4>4
    <3>. QED BY <3>1, <3>2
  <2>3. Tended(r)'
    BY <1>1, <2>2 DEF Tended
  <2>. QED BY <2>1, <2>3
<1>6. ASSUME NEW t \in Tasks
      PROVE  (HasRow(t) /\ WorksOnOpen(t) /\ MarksFailed(t) /\ CutBefore(t))'
  <2>1. CASE t = x
    <3>1. pc'[x] = to /\ req[x] \in Requests
      BY <1>2 DEF TypeOK
    <3>2. HasRow(x)'
      <4>1. CASE StoresRow(x)
        BY <1>1, <4>1 DEF HasRow, LifeInv, StoresRow, Moves, NoWork
      <4>2. CASE ~StoresRow(x)
        BY <1>1, <3>1, <4>2 DEF HasRow, WritesRow, OpensRow, StartsRow, FinishesRow, FailsRow,
                                CancelsRow, TypeOK
      <4>. QED BY <4>1, <4>2
    <3>3. WorksOnOpen(x)'
      <4>1. CASE StartsRow(x)
        BY <1>1, <3>1, <4>1 DEF StartsRow, WorksOnOpen, TypeOK
      <4>2. CASE StoresRow(x)
        <5>1. req[x] \in Disturbed \/ status[req[x]] \in {"pending", "processing"}
          BY <4>2 DEF StoresRow, Moves, LifeInv, WorksOnOpen, Working
        <5>. QED BY <1>1, <4>2, <5>1 DEF StoresRow, WorksOnOpen
      <4>3. CASE OpensRow(x) \/ FinishesRow(x) \/ FailsRow(x) \/ CancelsRow(x)
        BY <4>3 DEF OpensRow, FinishesRow, FailsRow, CancelsRow, Moves, WorksOnOpen, Working, Stages,
                    TypeOK
      <4>. QED BY <4>1, <4>2, <4>3 DEF WritesRow
    <3>4. MarksFailed(x)'
      <4>1. CASE FailsRow(x)
        BY <1>1, <3>1, <4>1 DEF FailsRow, MarksFailed, TypeOK
      <4>2. CASE ~FailsRow(x)
        BY <4>2 DEF WritesRow, OpensRow, StartsRow, StoresRow, FinishesRow, CancelsRow, Moves,
                    MarksFailed, TypeOK
      <4>. QED BY <4>1, <4>2
    <3>5. CutBefore(x)'
      BY <1>2, <3>1 DEF CutBefore
    <3>. QED BY <2>1, <3>2, <3>3, <3>4, <3>5
  <2>2. CASE t # x
    <3>1. pc'[t] = pc[t] /\ req'[t] = req[t] /\ req[t] \in Requests
      BY <1>1, <1>2, <2>2 DEF TypeOK
    <3>2. \/ status'[req[t]] = status[req[t]] \/ status'[req[t]] = "pending"
          \/ req[t] = req[x] /\ Midway(x) /\ status'[req[t]] # "absent"
      <4>1. CASE req[t] # req[x]
        BY <1>3, <3>1, <4>1
      <4>2. CASE OpensRow(x) \/ StoresRow(x)
        BY <3>1, <4>2 DEF OpensRow, StoresRow, TypeOK
      <4>3. CASE req[t] = req[x] /\ (StartsRow(x) \/ FinishesRow(x) \/ FailsRow(x) \/ CancelsRow(x))
        <5>1. Midway(x)
          BY <1>4, <4>3 DEF StartsRow, FinishesRow, FailsRow, CancelsRow, Moves
        <5>. QED BY <3>1, <4>3, <5>1 DEF StartsRow, FinishesRow, FailsRow, CancelsRow, TypeOK
      <4>. QED BY <4>1, <4>2, <4>3 DEF WritesRow
    <3>3. HasRow(t)'
      BY <3>1, <3>2 DEF LifeInv, HasRow
    <3>4. Midway(t) => req[t] \in Disturbed \/ status'[req[t]] \in {status[req[t]], "pending"}
      BY <2>2, <3>2 DEF Alone, Disturbed
    <3>5. WorksOnOpen(t)'
      <4>1. pc[t] \in Working => Midway(t)
        BY DEF Working, Midway, TryBody, Handlers
      <4>. QED BY <1>1, <3>1, <3>4, <4>1 DEF LifeInv, WorksOnOpen
    <3>6. MarksFailed(t)'
      <4>1. pc[t] = "markError" => Midway(t)
        BY DEF Midway, Handlers
      <4>. QED BY <1>1, <3>1, <3>4, <4>1 DEF LifeInv, MarksFailed
    <3>7. CutBefore(t)'
      BY <1>1, <3>1 DEF LifeInv, CutBefore
    <3>. QED BY <3>3, <3>5, <3>6, <3>7
  <2>. QED BY <2>1, <2>2
<1>. QED BY <1>5, <1>6 DEF LifeInv

\* The rows look as described in every reachable state.
LEMMA LifeInvariant == Spec => []LifeInv
<1>1. Init => LifeInv
  BY DEF Init, LifeInv, Tended, CancelledCut, HasRow, WorksOnOpen, MarksFailed, CutBefore, Working,
         Stages, NoWork
<1>2. TypeOK /\ Alone /\ LifeInv /\ [Next]_vars => LifeInv'
  <2>. SUFFICES ASSUME TypeOK, Alone, LifeInv, [Next]_vars PROVE LifeInv'
    OBVIOUS
  <2>1. CASE Next
    BY <2>1, RowSteps, WritesLife, CreatesLife, KeepsLife
  <2>2. CASE UNCHANGED vars
    BY <2>2 DEF vars, rowVars, jobVars, envVars, faults, LifeInv, Tended, CancelledCut, HasRow,
                WorksOnOpen, MarksFailed, CutBefore, Disturbed
  <2>. QED BY <2>1, <2>2
<1>. QED BY <1>1, <1>2, TypeCorrect, AloneInvariant, PTL DEF Spec

\* A row that says "processing" is being processed, or an execution of it was cut short: for
\* every number of executions, Redis errors, lost keys and restarts.
THEOREM ProcessingTended == Spec => []ProcessingIsTended
<1>1. LifeInv => ProcessingIsTended
  BY DEF LifeInv, Tended, ProcessingIsTended
<1>. QED BY <1>1, LifeInvariant, PTL

\* A row or event that says it is finished has its summary, and a row that says "processing"
\* has somebody at work on it or was cut short.
THEOREM RowsTrue == Spec => []RowsAreTrue
BY FinishedIsBacked, ProcessingTended, PTL DEF RowsAreTrue

\* No late or second execution overwrites "success", unless executions of that row overlapped
\* or were cut short; only a new submission of its URL reopens it.
THEOREM SuccessStays == Spec => SuccessIsFinal
<1>1. TypeOK /\ UnsavedInv /\ SuccessHasSummary /\ LifeInv /\ [Next]_vars =>
        [\A r \in Requests :
           status[r] = "success" /\ status'[r] # "success"
             => \/ \E t \in Tasks : pc[t] = "checked" /\ pc'[t] = "queued" /\ req[t] = r
                \/ r \in Disturbed]_vars
  <2>. SUFFICES ASSUME TypeOK, UnsavedInv, SuccessHasSummary, LifeInv, Next,
                       NEW r \in Requests, status[r] = "success", status'[r] # "success"
                PROVE  \/ \E t \in Tasks : pc[t] = "checked" /\ pc'[t] = "queued" /\ req[t] = r
                       \/ r \in Disturbed
    OBVIOUS
  <2>1. PICK t \in Tasks : WritesRow(t)
    <3>1. ~ \E t \in Tasks, q \in Requests : CreatesRow(t, q)
      BY DEF CreatesRow, TypeOK
    <3>2. ~KeepsStatus
      BY DEF KeepsStatus
    <3>. QED BY <3>1, <3>2, RowSteps
  <2>2. CASE OpensRow(t)
    BY <2>2 DEF OpensRow, Moves, TypeOK
  <2>3. CASE StartsRow(t) \/ FailsRow(t)
    <3>1. req[t] = r /\ pc[t] \in Fresh
      BY <2>3 DEF StartsRow, FailsRow, Moves, Fresh, TypeOK
    <3>. QED BY <3>1 DEF UnsavedInv, SuccessHasSummary
  <2>4. CASE StoresRow(t) \/ FinishesRow(t)
    BY <2>4 DEF StoresRow, FinishesRow, TypeOK
  <2>5. CASE CancelsRow(t)
    <3>1. req[t] = r /\ pc[t] = "markCancelled"
      BY <2>5 DEF CancelsRow, Moves, TypeOK
    <3>. QED BY <3>1 DEF LifeInv, CutBefore, Disturbed
  <2>. QED BY <2>1, <2>2, <2>3, <2>4, <2>5 DEF WritesRow
<1>. QED BY <1>1, TypeCorrect, UnsavedInvariant, SuccessIsBacked, LifeInvariant, PTL
         DEF Spec, SuccessIsFinal

\* What one execution has achieved no other execution repeats or undoes, whatever fails in
\* Redis or the database, crashes or is cancelled, but on the rows where it did.
THEOREM ResultsHold == Spec => ResultsStand
BY StagesRunOnce, SuccessStays DEF ResultsStand

\* An execution that writes its row takes a step of the row's lifecycle.
LEMMA WritesLifecycle ==
  ASSUME TypeOK, Alone, UnsavedInv, SummaryInv, LifeInv, NEW t \in Tasks, WritesRow(t)
  PROVE  Lifecycle!Next \/ UNCHANGED <<status, summary, Disturbed>>
<1>1. req[t] \in Requests /\ Disturbed' = Disturbed
  BY DEF TypeOK, WritesRow, Disturbed
<1>2. CASE OpensRow(t)
  <2>1. Lifecycle!Open(req[t])
    BY <1>1, <1>2 DEF OpensRow, Lifecycle!Open, Lifecycle!SetStatus
  <2>. QED BY <1>1, <2>1 DEF Lifecycle!Next
<1>3. CASE req[t] \in Disturbed /\ ~OpensRow(t)
  <2>1. CASE StartsRow(t) \/ FailsRow(t) \/ CancelsRow(t)
    <3>1. \E s \in {"processing", "error", "cancelled"} : Lifecycle!SetStatus(req[t], s)
      BY <1>1, <2>1 DEF StartsRow, FailsRow, CancelsRow, Lifecycle!SetStatus
    <3>. QED BY <1>1, <1>3, <3>1 DEF Lifecycle!Irregular, Lifecycle!Next
  <2>2. CASE StoresRow(t)
    <3>1. Lifecycle!StoreSummary(req[t])
      BY <2>2 DEF StoresRow, Lifecycle!StoreSummary
    <3>. QED BY <1>1, <1>3, <3>1 DEF Lifecycle!Irregular, Lifecycle!Next
  <2>3. CASE FinishesRow(t)
    <3>1. Lifecycle!SetStatus(req[t], "success")
      BY <1>1, <2>3 DEF FinishesRow, Lifecycle!SetStatus
    <3>2. summary[req[t]]
      BY <2>3 DEF FinishesRow, Moves, SummaryInv, VouchedFor, Vouches
    <3>. QED BY <1>1, <1>3, <3>1, <3>2 DEF Lifecycle!Irregular, Lifecycle!Next
  <2>. QED BY <1>3, <2>1, <2>2, <2>3 DEF WritesRow
<1>4. CASE req[t] \notin Disturbed /\ StartsRow(t)
  <2>1. Lifecycle!SetStatus(req[t], "processing")
    BY <1>1, <1>4 DEF StartsRow, Lifecycle!SetStatus
  <2>2. pc[t] = "start" /\ ~summary[req[t]]
    BY <1>4 DEF StartsRow, Moves, UnsavedInv, Fresh
  <2>3. status[req[t]] \notin {"absent", "cancelled", "success"}
    BY <1>1, <1>4, <2>2 DEF LifeInv, HasRow, NoWork, CancelledCut, Disturbed, SummaryInv, SuccessHasSummary
  <2>4. status[req[t]] # "processing"
    <3>. SUFFICES ASSUME status[req[t]] = "processing" PROVE FALSE
      OBVIOUS
    <3>1. PICK x \in Tasks : pc[x] \in Working /\ req[x] = req[t]
      BY <1>1, <1>4 DEF LifeInv, Tended, Disturbed
    <3>2. x # t /\ Midway(x) /\ Midway(t)
      BY <2>2, <3>1 DEF Working, Stages, Midway, TryBody, Handlers
    <3>. QED BY <1>4, <3>1, <3>2 DEF Alone, Disturbed
  <2>5. status[req[t]] \in {"pending", "error"}
    BY <1>1, <2>3, <2>4 DEF TypeOK, Statuses
  <2>6. Lifecycle!Start(req[t])
    BY <2>1, <2>2, <2>5 DEF Lifecycle!Start
  <2>. QED BY <1>1, <2>6 DEF Lifecycle!Next
<1>5. CASE req[t] \notin Disturbed /\ StoresRow(t)
  <2>1. pc[t] = "save"
    BY <1>5 DEF StoresRow, Moves
  <2>2. ~summary[req[t]] /\ status[req[t]] \in {"pending", "processing"}
    BY <1>5, <2>1 DEF UnsavedInv, Fresh, LifeInv, WorksOnOpen, Working
  <2>3. Lifecycle!Store(req[t])
    BY <1>1, <1>5, <2>2 DEF StoresRow, Lifecycle!Store, Lifecycle!StoreSummary, Lifecycle!AtWork
  <2>. QED BY <1>1, <2>3 DEF Lifecycle!Next
<1>6. CASE req[t] \notin Disturbed /\ FinishesRow(t)
  <2>1. pc[t] = "markSuccess" /\ summary[req[t]]
    BY <1>6 DEF FinishesRow, Moves, SummaryInv, VouchedFor, Vouches
  <2>2. status[req[t]] \in {"pending", "processing"}
    BY <1>6, <2>1 DEF LifeInv, WorksOnOpen, Working
  <2>3. Lifecycle!Finish(req[t])
    BY <1>1, <1>6, <2>1, <2>2 DEF FinishesRow, Lifecycle!Finish, Lifecycle!AtWork, Lifecycle!SetStatus
  <2>. QED BY <1>1, <2>3 DEF Lifecycle!Next
<1>7. CASE req[t] \notin Disturbed /\ FailsRow(t)
  <2>1. pc[t] \in {"persistError", "markError"} /\ ~summary[req[t]]
    BY <1>7 DEF FailsRow, Moves, UnsavedInv, Fresh
  <2>2. status[req[t]] \in {"pending", "processing", "error"}
    BY <1>7, <2>1 DEF LifeInv, WorksOnOpen, MarksFailed, Working
  <2>3. CASE status[req[t]] = "error"
    BY <1>1, <1>7, <2>3 DEF FailsRow, TypeOK
  <2>4. CASE status[req[t]] # "error"
    <3>1. Lifecycle!Fail(req[t])
      BY <1>1, <1>7, <2>1, <2>2, <2>4 DEF FailsRow, Lifecycle!Fail, Lifecycle!AtWork, Lifecycle!SetStatus
    <3>. QED BY <1>1, <3>1 DEF Lifecycle!Next
  <2>. QED BY <2>3, <2>4
<1>8. CASE req[t] \notin Disturbed /\ CancelsRow(t)
  BY <1>8 DEF CancelsRow, Moves, LifeInv, CutBefore, Disturbed
<1>. QED BY <1>2, <1>3, <1>4, <1>5, <1>6, <1>7, <1>8 DEF WritesRow

\* A step that writes no status is a disturbance of its rows, or stores a summary unanswered.
LEMMA KeepsLifecycle ==
  ASSUME TypeOK, TypeOK', Next, KeepsStatus,
         UNCHANGED summary \/ \E t \in Tasks : StoresUnanswered(t)
  PROVE  Lifecycle!Next
<1>1. CASE UNCHANGED summary
  <2>1. Disturbed' = Disturbed \cup Disturbed' /\ Disturbed' \in SUBSET Requests
    BY DisturbedGrows DEF TypeOK, Disturbed
  <2>2. Lifecycle!Disturb(Disturbed')
    BY <1>1, <2>1 DEF KeepsStatus, Lifecycle!Disturb
  <2>. QED BY <2>1, <2>2 DEF Lifecycle!Next
<1>2. CASE \E t \in Tasks : StoresUnanswered(t)
  <2>1. PICK t \in Tasks : StoresUnanswered(t)
    BY <1>2
  <2>2. Lifecycle!StoreUnanswered(req[t])
    BY <2>1 DEF StoresUnanswered, KeepsStatus, Lifecycle!StoreUnanswered, Lifecycle!StoreSummary, Disturbed
  <2>. QED BY <2>2 DEF Lifecycle!Next, TypeOK
<1>. QED BY <1>1, <1>2

\* Any number of executions in any number of processes, seen at their rows: the lifecycle that
\* RequestLifecycle promises, under every setting of the lock and whatever fails, crashes or
\* is cancelled; a row that was disturbed, and no other, falls back to the weaker promise.
THEOREM RowsFollowLifecycle == Spec => ImplementsLifecycle
<1>1. Init => Lifecycle!Init
  BY DEF Init, Lifecycle!Init, Disturbed
<1>2. /\ TypeOK /\ TypeOK' /\ Alone /\ UnsavedInv /\ SummaryInv /\ LifeInv
      /\ [Next]_vars
      => [Lifecycle!Next]_<<status, summary, Disturbed>>
  <2>. SUFFICES ASSUME TypeOK, TypeOK', Alone, UnsavedInv, SummaryInv, LifeInv, [Next]_vars
                PROVE  Lifecycle!Next \/ UNCHANGED <<status, summary, Disturbed>>
    OBVIOUS
  <2>1. CASE UNCHANGED vars
    BY <2>1 DEF vars, rowVars, envVars, faults, Disturbed
  <2>2. CASE Next
    <3>1. CASE \E t \in Tasks, r \in Requests : CreatesRow(t, r)
      <4>1. PICK r \in Requests : status' = [status EXCEPT ![r] = "pending"]
                                  /\ UNCHANGED <<summary, overlapped, cutShort>>
        BY <3>1 DEF CreatesRow
      <4>2. Lifecycle!Open(r)
        BY <4>1 DEF Lifecycle!Open, Lifecycle!SetStatus, Disturbed
      <4>. QED BY <4>2 DEF Lifecycle!Next
    <3>2. CASE \E t \in Tasks : WritesRow(t)
      BY <3>2, WritesLifecycle
    <3>3. CASE KeepsStatus /\ (UNCHANGED summary \/ \E t \in Tasks : StoresUnanswered(t))
      BY <2>2, <3>3, KeepsLifecycle
    <3>. QED BY <2>2, <3>1, <3>2, <3>3, RowSteps
  <2>. QED BY <2>1, <2>2
<1>. QED BY <1>1, <1>2, TypeCorrect, AloneInvariant, UnsavedInvariant, SummaryInvariant,
            LifeInvariant, PTL
         DEF Spec, ImplementsLifecycle, Lifecycle!Spec

\* An execution is put on record as cut short by an error of the database or a stop.
CutCounted == cutShort # {} => dbFaults > 0 \/ stops > 0

LEMMA CutsCounted ==
  ASSUME TypeOK, Next
  PROVE  \/ UNCHANGED <<cutShort, dbFaults, stops>>
         \/ dbFaults' = dbFaults + 1 /\ UNCHANGED stops
         \/ stops' = stops + 1 /\ UNCHANGED dbFaults
<1>. USE DEF faults, NoFault, RedisFault, DbFault, Quiet
<1>1. CASE \E t \in Tasks : Submission(t) \/ CreateUrlRequest(t)
  BY <1>1 DEF Submission, CheckDuplicate, CreateForwardRequest, RetryFailedRequest, NewRow,
              CreateUrlRequest, envVars
<1>2. CASE \E t \in Tasks : Acquisition(t)
  BY <1>2 DEF Acquisition, AcquireRedis, AcquireRedisHeld, AcquireRedisRaises, AcquireLocal,
              AcquireLocalHeld, WaitLocal, GrantLocal, LockAcquired, envVars
<1>3. CASE \E t \in Tasks : Processing(t)
  BY <1>3 DEF Processing, Load, CheckSummary, AnnounceExisting, MarkProcessing,
              StageSucceeds, StageEmpty, StageRetries, StageFails, SaveSummary,
              MarkSuccess, AnnounceDone, WriteStatus, Publish
<1>4. CASE \E t \in Tasks : Conclusion(t)
  BY <1>4 DEF Conclusion, PersistFailure, MarkError, AnnounceError, MarkCancelled,
              AnnounceCancelled, Release, WriteStatus, Publish
<1>5. CASE Environment \/ Idle
  BY <1>5 DEF Environment, KeyExpiresEarly, KeyExpires, Shutdown, Crash, Restart, Idle, vars, envVars
<1>. QED BY <1>1, <1>2, <1>3, <1>4, <1>5 DEF Next, Execution

LEMMA CutCountedInvariant == Spec => []CutCounted
<1>1. Init => CutCounted
  BY DEF Init, CutCounted
<1>2. TypeOK /\ CutCounted /\ [Next]_vars => CutCounted'
  <2>. SUFFICES ASSUME TypeOK, CutCounted, [Next]_vars PROVE CutCounted'
    OBVIOUS
  <2>1. dbFaults \in Nat /\ stops \in Nat
    BY ProcessingAssumption DEF TypeOK
  <2>2. CASE Next
    BY <2>1, <2>2, CutsCounted DEF CutCounted
  <2>3. CASE UNCHANGED vars
    BY <2>3 DEF vars, envVars, faults, CutCounted
  <2>. QED BY <2>2, <2>3
<1>. QED BY <1>1, <1>2, TypeCorrect, PTL DEF Spec

\* Nothing but the expiry of its key disturbs a row as long as the database answers and no
\* process stops, under settings that give all executions of a row one lock they leave when
\* it is held: there the exceptions in ResultsStand and ImplementsLifecycle are the rows
\* of lost keys, however many calls of Redis raise.
THEOREM OnlyExpiryDisturbs ==
  Spec => [](/\ config.skip /\ (config.redis \/ \A v, w \in Workers : v = w)
             /\ dbFaults = 0 /\ stops = 0
             => Disturbed \subseteq LostLocks)
<1>1. TypeOK /\ CutCounted /\ OnlyExpiryOverlaps
        => (/\ config.skip /\ (config.redis \/ \A v, w \in Workers : v = w)
            /\ dbFaults = 0 /\ stops = 0
            => Disturbed \subseteq LostLocks)
  BY DEF CutCounted, OnlyExpiryOverlaps, Disturbed, TypeOK
<1>. QED BY <1>1, TypeCorrect, CutCountedInvariant, ExpiryOverlaps, PTL
=============================================================================
