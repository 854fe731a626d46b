------------------------------ MODULE UrlBatch ------------------------------
(***************************************************************************)
(* URLBatchProcessor.execute_batch (adapters/telegram/url_batch_processor): *)
(* the URLs of one message are registered, then processed by one coroutine  *)
(* each under a semaphore.  A coroutine races the URL's flow (a task of its *)
(* own) against a timeout and against the event that another URL of the     *)
(* same domain sets when it gives the domain up; it retries, delivers the   *)
(* summary card, and records failures in the URL's request row.  The user   *)
(* may cancel the batch at any await (UserTaskManager).                     *)
(*                                                                          *)
(* A URL stands for its row too: rows are unique by dedupe hash.            *)
(***************************************************************************)
EXTENDS Naturals, FiniteSets

CONSTANTS
  Urls,
  KnownUrls,       \* those whose rows may be there from earlier
  Domains,
  Placements,      \* the domains the URLs of a batch may have
  MaxConcurrent,   \* permits of the semaphore
  MaxRetries,      \* attempts after the first
  MaxDbFaults      \* bound: writes of the failure status that raise

FailFastThreshold == 2   \* _DOMAIN_FAILFAST_THRESHOLD

ASSUME BatchAssumption ==
  /\ MaxConcurrent \in Nat \ {0} /\ {MaxRetries, MaxDbFaults} \subseteq Nat
  /\ IsFiniteSet(Urls) /\ KnownUrls \subseteq Urls
  /\ Placements \subseteq [Urls -> Domains]

VARIABLES
  phase,      \* "register", "running", "over"
  domain,     \* entry.domain of each URL, fixed
  entry,      \* URLStatusEntry.status, the phases of active work as one
  registered, \* the URLs in url_to_request_id
  row,        \* requests.status
  summary,    \* the row has a summary
  foreign,    \* rows that a flow outside the batch is working on
  pc,         \* where _process_single_url is for each URL
  attempt,    \* its attempt, from 0
  flow,       \* the processing task of the attempt
  outcome,    \* how asyncio.wait ended, while the coroutine reaps the flow
  permits,
  timeouts,   \* domain_failure_counts
  failedDomains,
  deliverer,  \* who holds the delivery lock, {} or {u}
  completed,  \* ProgressTracker._completed
  cancelled,  \* the user has cancelled the batch
  dbFaults,
  cards,      \* history: summary cards sent for each URL
  exhausted,  \* history: URLs whose last attempt timed out
  swallowed   \* history: URLs whose coroutine swallowed the cancellation

batchVars == <<phase, domain, registered, cancelled, dbFaults>>
rowVars == <<row, summary, foreign>>
domainVars == <<timeouts, failedDomains>>
history == <<cards, exhausted, swallowed>>
vars == <<batchVars, rowVars, domainVars, history, entry, pc, attempt, flow,
          outcome, permits, deliverer, completed>>

EntryStates == {"pending", "cached", "active", "complete", "failed"}
RowStates == {"absent", "pending", "ok", "error", "skipped"}
FlowStates == {"none", "begun", "working", "stored", "ok", "failed", "transient", "fatal"}
Settled == {"done", "cancelled"}
InPermit == {"writeSkipped", "compute", "wait", "reap", "abort", "backoff",
             "deliver", "sending", "writeError"}
PCs == {"new", "create", "registered", "sleep", "permit"} \cup InPermit \cup Settled

TypeOK ==
  /\ phase \in {"register", "running", "over"}
  /\ domain \in [Urls -> Domains]
  /\ entry \in [Urls -> EntryStates]
  /\ registered \subseteq Urls
  /\ row \in [Urls -> RowStates]
  /\ summary \in [Urls -> BOOLEAN]
  /\ foreign \subseteq Urls
  /\ pc \in [Urls -> PCs]
  /\ attempt \in [Urls -> 0..MaxRetries]
  /\ flow \in [Urls -> FlowStates]
  /\ outcome \in [Urls -> {"none", "skipped", "timeout"}]
  /\ permits \in 0..MaxConcurrent
  /\ timeouts \in [Domains -> 0..Cardinality(Urls)]
  /\ failedDomains \subseteq Domains
  /\ deliverer \subseteq Urls /\ Cardinality(deliverer) <= 1
  /\ completed \in 0..Cardinality(Urls)
  /\ cancelled \in BOOLEAN
  /\ dbFaults \in 0..MaxDbFaults
  /\ cards \in [Urls -> 0..1]
  /\ exhausted \subseteq Urls /\ swallowed \subseteq Urls

\* Rows may be there from earlier: finished, failed, or in the hands of another
\* flow.
Init ==
  /\ phase = "register"
  /\ domain \in Placements
  /\ entry = [u \in Urls |-> "pending"]
  /\ registered = {}
  /\ row \in {f \in [Urls -> {"absent", "pending", "ok", "error"}] :
               \A u \in Urls \ KnownUrls : f[u] = "absent"}
  /\ summary = [u \in Urls |-> row[u] = "ok"]
  /\ foreign = {u \in Urls : row[u] = "pending"}
  /\ pc = [u \in Urls |-> "new"]
  /\ attempt = [u \in Urls |-> 0]
  /\ flow = [u \in Urls |-> "none"]
  /\ outcome = [u \in Urls |-> "none"]
  /\ permits = MaxConcurrent
  /\ timeouts = [d \in Domains |-> 0]
  /\ failedDomains = {}
  /\ deliverer = {}
  /\ completed = 0
  /\ cancelled = FALSE /\ dbFaults = 0
  /\ cards = [u \in Urls |-> 0]
  /\ exhausted = {} /\ swallowed = {}

Goto(u, place) == pc' = [pc EXCEPT ![u] = place]
Mark(u, s) == entry' = [entry EXCEPT ![u] = s]
GivenUp(u) == domain[u] \in failedDomains

-----------------------------------------------------------------------------
(* _pre_register_urls: one URL after the other *)

Registering(u, place) ==
  /\ phase = "register" /\ pc[u] = place
  /\ \A v \in Urls \ {u} : pc[v] # "create"
  /\ UNCHANGED <<phase, domain, cancelled, dbFaults, summary, foreign, domainVars, history,
                 attempt, flow, outcome, permits, deliverer, completed>>

\* _load_cached_summary: a finished row with its summary.
RegisterCached(u) ==
  /\ Registering(u, "new")
  /\ row[u] = "ok" /\ summary[u]
  /\ Mark(u, "cached")
  /\ registered' = registered \cup {u}
  /\ Goto(u, "registered")
  /\ UNCHANGED row

\* A row in flight, or failed within the grace period, is not registered: the
\* URL is processed all the same.
RegisterSkipped(u) ==
  /\ Registering(u, "new")
  /\ row[u] \in {"pending", "error"}
  /\ Goto(u, "registered")
  /\ UNCHANGED <<entry, registered, row>>

RegisterLookup(u) ==
  /\ Registering(u, "new")
  /\ row[u] # "pending" /\ ~(row[u] = "ok" /\ summary[u])
  /\ Goto(u, "create")
  /\ UNCHANGED <<entry, registered, row>>

\* async_create_minimal_request: ON CONFLICT DO NOTHING.
RegisterCreate(u) ==
  /\ Registering(u, "create")
  /\ row' = IF row[u] = "absent" THEN [row EXCEPT ![u] = "pending"] ELSE row
  /\ registered' = registered \cup {u}
  /\ Goto(u, "registered")
  /\ UNCHANGED entry

\* asyncio.gather starts a coroutine for every URL.
StartAll ==
  /\ phase = "register" /\ \A u \in Urls : pc[u] = "registered"
  /\ phase' = "running"
  /\ pc' = [u \in Urls |-> IF entry[u] = "cached" THEN "sleep" ELSE "permit"]
  /\ UNCHANGED <<domain, registered, cancelled, dbFaults, rowVars, domainVars, history, entry,
                 attempt, flow, outcome, permits, deliverer, completed>>

-----------------------------------------------------------------------------
(* _process_single_url *)

\* A step that leaves the rows, the flow and the batch alone.
Quiet == UNCHANGED <<batchVars, rowVars>>

\* increment_and_update and the way out of the semaphore.
Count == completed' = completed + 1
Leave(u, place) == Goto(u, place) /\ permits' = permits + 1

CachedCounted(u) ==
  /\ pc[u] = "sleep"
  /\ Goto(u, "done") /\ Count
  /\ Quiet
  /\ UNCHANGED <<domainVars, history, entry, attempt, flow, outcome, permits, deliverer>>

\* The permit is taken and the domain looked at in one step of the event loop.
Enter(u) ==
  /\ pc[u] = "permit" /\ permits > 0
  /\ permits' = permits - 1
  /\ IF GivenUp(u) THEN Mark(u, "failed") /\ Goto(u, "writeSkipped")
                   ELSE Mark(u, "active") /\ Goto(u, "compute")
  /\ Quiet
  /\ UNCHANGED <<domainVars, history, attempt, flow, outcome, deliverer, completed>>

\* _update_request_error, an exception of the database swallowed; only for a
\* registered URL.
RecordFailure(u, s) ==
  /\ \/ u \in registered /\ row' = [row EXCEPT ![u] = s] /\ UNCHANGED dbFaults
     \/ u \in registered /\ dbFaults < MaxDbFaults /\ dbFaults' = dbFaults + 1 /\ UNCHANGED row
     \/ u \notin registered /\ UNCHANGED <<row, dbFaults>>
  /\ UNCHANGED <<phase, domain, registered, cancelled, summary, foreign>>

\* Faulty variant of WriteSkipped: the URL is not counted.
WriteSkippedUncounted(u) ==
  /\ pc[u] = "writeSkipped"
  /\ RecordFailure(u, "skipped")
  /\ Leave(u, "done")
  /\ UNCHANGED <<domainVars, history, entry, attempt, flow, outcome, deliverer, completed>>

WriteSkipped(u) ==
  /\ pc[u] = "writeSkipped"
  /\ RecordFailure(u, "skipped")
  /\ Leave(u, "done") /\ Count
  /\ UNCHANGED <<domainVars, history, entry, attempt, flow, outcome, deliverer>>

\* compute_timeout has answered; the flow becomes a task.  When the domain was
\* given up in the meantime the wait ends at once.
StartAttempt(u) ==
  /\ pc[u] = "compute"
  /\ flow' = [flow EXCEPT ![u] = "begun"]
  /\ IF GivenUp(u)
     THEN Goto(u, "reap") /\ outcome' = [outcome EXCEPT ![u] = "skipped"]
     ELSE Goto(u, "wait") /\ UNCHANGED outcome
  /\ Quiet
  /\ UNCHANGED <<domainVars, history, entry, attempt, permits, deliverer, completed>>

Finished(u) == flow[u] \in {"ok", "failed", "transient", "fatal"}
Alive(u) == flow[u] \in {"begun", "working", "stored"}

WaitEnds(u, how) ==
  /\ pc[u] = "wait"
  /\ Goto(u, "reap")
  /\ outcome' = [outcome EXCEPT ![u] = how]
  /\ Quiet
  /\ UNCHANGED <<domainVars, history, entry, attempt, flow, permits, deliverer, completed>>

\* The domain's event is set; a result that came in the same turn is dropped.
DomainEvent(u) == GivenUp(u) /\ WaitEnds(u, "skipped")

Timeout(u) == ~Finished(u) /\ ~GivenUp(u) /\ WaitEnds(u, "timeout")

\* Faulty variant of ResultArrives: a failed result is delivered as well.
ResultArrivesDelivers(u) ==
  /\ pc[u] = "wait" /\ flow[u] \in {"ok", "failed"}
  /\ Mark(u, "complete")
  /\ flow' = [flow EXCEPT ![u] = "none"]
  /\ Goto(u, "deliver")
  /\ Quiet
  /\ UNCHANGED <<permits, completed, domainVars, history, attempt, outcome, deliverer>>

\* Back from asyncio.wait with a result: whatever it says, the URL is complete;
\* a card is sent when there is a summary.
ResultArrives(u) ==
  /\ pc[u] = "wait" /\ flow[u] \in {"ok", "failed"}
  /\ Mark(u, "complete")
  /\ flow' = [flow EXCEPT ![u] = "none"]
  /\ IF flow[u] = "ok" THEN Goto(u, "deliver") /\ UNCHANGED <<permits, completed>>
                       ELSE Leave(u, "done") /\ Count
  /\ Quiet
  /\ UNCHANGED <<domainVars, history, attempt, outcome, deliverer>>

\* Faulty variant of MayRetry: one attempt too many.
MayRetryOnceMore(u) == attempt[u] <= MaxRetries

MayRetry(u) == attempt[u] < MaxRetries

\* Every way to the lines after the loop.
GiveUp(u) == Mark(u, "failed") /\ Goto(u, "writeError")

RetryOrFail(u, again) ==
  IF again THEN Goto(u, "backoff") /\ UNCHANGED entry ELSE GiveUp(u)

\* Faulty variant of ExceptionArrives: only what can be retried is caught.
ExceptionArrivesTransient(u) ==
  /\ pc[u] = "wait" /\ flow[u] = "transient"
  /\ flow' = [flow EXCEPT ![u] = "none"]
  /\ RetryOrFail(u, MayRetry(u))
  /\ Quiet
  /\ UNCHANGED <<domainVars, history, attempt, outcome, permits, deliverer, completed>>

ExceptionArrives(u) ==
  /\ pc[u] = "wait" /\ flow[u] \in {"transient", "fatal"}
  /\ flow' = [flow EXCEPT ![u] = "none"]
  /\ RetryOrFail(u, flow[u] = "transient" /\ MayRetry(u))
  /\ Quiet
  /\ UNCHANGED <<domainVars, history, attempt, outcome, permits, deliverer, completed>>

\* Faulty variant of Reaped: the way out that forgets the row.
ReapedUnwritten(u) ==
  /\ pc[u] = "reap" /\ ~Alive(u) /\ outcome[u] = "skipped"
  /\ flow' = [flow EXCEPT ![u] = "none"]
  /\ outcome' = [outcome EXCEPT ![u] = "none"]
  /\ Mark(u, "failed") /\ Leave(u, "done") /\ Count
  /\ Quiet
  /\ UNCHANGED <<domainVars, history, attempt, deliverer>>

\* _cancel_pending_tasks has seen the flow end.
Reaped(u) ==
  /\ pc[u] = "reap" /\ ~Alive(u) /\ outcome[u] = "skipped"
  /\ flow' = [flow EXCEPT ![u] = "none"]
  /\ outcome' = [outcome EXCEPT ![u] = "none"]
  /\ GiveUp(u)
  /\ Quiet
  /\ UNCHANGED <<domainVars, history, attempt, permits, deliverer, completed>>

\* Faulty variant of GivesUpDomain: the first timeout is enough.
GivesUpDomainAtOnce(n) == n >= 1

GivesUpDomain(n) == n >= FailFastThreshold

\* Faulty variant of TimedOut: the cancelled flow is not waited for.
TimedOutUnwaited(u) ==
  LET d == domain[u]
      n == timeouts[d] + 1
  IN /\ pc[u] = "reap" /\ outcome[u] = "timeout"
     /\ outcome' = [outcome EXCEPT ![u] = "none"]
     /\ RetryOrFail(u, MayRetry(u))
     /\ IF MayRetry(u) THEN UNCHANGED <<domainVars, exhausted>>
        ELSE /\ timeouts' = [timeouts EXCEPT ![d] = n]
             /\ failedDomains' = IF GivesUpDomain(n) THEN failedDomains \cup {d} ELSE failedDomains
             /\ exhausted' = exhausted \cup {u}
     /\ Quiet
     /\ UNCHANGED <<flow, cards, swallowed, attempt, permits, deliverer, completed>>

\* _record_domain_timeout, after the last attempt only.
TimedOut(u) ==
  LET d == domain[u]
      n == timeouts[d] + 1
  IN /\ pc[u] = "reap" /\ ~Alive(u) /\ outcome[u] = "timeout"
     /\ flow' = [flow EXCEPT ![u] = "none"]
     /\ outcome' = [outcome EXCEPT ![u] = "none"]
     /\ RetryOrFail(u, MayRetry(u))
     /\ IF MayRetry(u) THEN UNCHANGED <<domainVars, exhausted>>
        ELSE /\ timeouts' = [timeouts EXCEPT ![d] = n]
             /\ failedDomains' = IF GivesUpDomain(n) THEN failedDomains \cup {d} ELSE failedDomains
             /\ exhausted' = exhausted \cup {u}
     /\ Quiet
     /\ UNCHANGED <<cards, swallowed, attempt, permits, deliverer, completed>>

\* The backoff is over.
Retry(u) ==
  /\ pc[u] = "backoff"
  /\ IF GivenUp(u) THEN GiveUp(u) /\ UNCHANGED attempt
     ELSE /\ attempt' = [attempt EXCEPT ![u] = @ + 1]
          /\ Goto(u, "compute") /\ UNCHANGED entry
  /\ Quiet
  /\ UNCHANGED <<domainVars, history, flow, outcome, permits, deliverer, completed>>

WriteError(u) ==
  /\ pc[u] = "writeError"
  /\ RecordFailure(u, "error")
  /\ Leave(u, "done") /\ Count
  /\ UNCHANGED <<domainVars, history, entry, attempt, flow, outcome, deliverer>>

TakeDeliveryLock(u) ==
  /\ pc[u] = "deliver" /\ deliverer = {}
  /\ deliverer' = {u}
  /\ Goto(u, "sending")
  /\ Quiet
  /\ UNCHANGED <<domainVars, history, entry, attempt, flow, outcome, permits, completed>>

\* Faulty variant of SendCard: an exception leaves the lock taken.
SendCardKeepsLock(u) ==
  /\ pc[u] = "sending"
  /\ \/ cards' = [cards EXCEPT ![u] = @ + 1] /\ deliverer' = {}
     \/ UNCHANGED <<cards, deliverer>>
  /\ Leave(u, "done") /\ Count
  /\ Quiet
  /\ UNCHANGED <<domainVars, exhausted, swallowed, entry, attempt, flow, outcome>>

\* The card is sent, or its exception is swallowed.
SendCard(u) ==
  /\ pc[u] = "sending"
  /\ cards' \in {cards, [cards EXCEPT ![u] = @ + 1]}
  /\ deliverer' = {}
  /\ Leave(u, "done") /\ Count
  /\ Quiet
  /\ UNCHANGED <<domainVars, exhausted, swallowed, entry, attempt, flow, outcome>>

-----------------------------------------------------------------------------
(* The flow of a URL, handle_url_flow: a task of its own *)

FlowStep(u, f) ==
  /\ flow' = [flow EXCEPT ![u] = f]
  /\ UNCHANGED <<batchVars, foreign, domainVars, history, entry, pc, attempt, outcome, permits,
                 deliverer, completed>>

\* A flow told to stop takes no further step of its own.
Undisturbed(u) == pc[u] = "wait"

\* A stored summary is returned at once; otherwise the row is upserted as pending.
FlowBegins(u) ==
  /\ Undisturbed(u) /\ flow[u] = "begun"
  /\ IF summary[u] THEN FlowStep(u, "ok") /\ UNCHANGED row
     ELSE FlowStep(u, "working") /\ row' = [row EXCEPT ![u] = "pending"]
  /\ UNCHANGED summary

\* async_finalize_request_summary: summary and status in one transaction.
FlowStores(u) ==
  /\ Undisturbed(u) /\ flow[u] = "working"
  /\ FlowStep(u, "stored")
  /\ summary' = [summary EXCEPT ![u] = TRUE]
  /\ row' = [row EXCEPT ![u] = "ok"]

FlowReturns(u) ==
  /\ Undisturbed(u) /\ flow[u] = "stored"
  /\ FlowStep(u, "ok")
  /\ UNCHANGED <<row, summary>>

\* Extraction or the model fails, or storing raises: URLProcessingFlowResult
\* with success=False.  The row is marked, unless the exception left extraction
\* before there was a context to take the row's id from.
FlowFails(u) ==
  /\ Undisturbed(u)
  /\ \/ flow[u] \in {"working", "stored"} /\ row' = [row EXCEPT ![u] = "error"]
     \/ flow[u] \in {"begun", "working"} /\ UNCHANGED row
  /\ FlowStep(u, "failed")
  /\ UNCHANGED summary

\* What escapes the flow's own handler: the typing indicator around it.
FlowRaises(u) ==
  /\ Undisturbed(u) /\ flow[u] = "begun"
  /\ \E f \in {"transient", "fatal"} : FlowStep(u, f)
  /\ UNCHANGED <<row, summary>>

\* CancelledError at its await; a transaction in flight may still commit.
FlowCancelled(u) ==
  /\ pc[u] \in {"reap", "abort"} /\ Alive(u)
  /\ FlowStep(u, "none")
  /\ \/ UNCHANGED <<row, summary>>
     \/ flow[u] = "working" /\ summary' = [summary EXCEPT ![u] = TRUE] /\ row' = [row EXCEPT ![u] = "ok"]
     \/ flow[u] = "begun" /\ ~summary[u] /\ row' = [row EXCEPT ![u] = "pending"] /\ UNCHANGED summary

\* A flow outside the batch that works on the same row concludes it.
ForeignEnds(u) ==
  /\ u \in foreign
  /\ foreign' = foreign \ {u}
  /\ \/ summary' = [summary EXCEPT ![u] = TRUE] /\ row' = [row EXCEPT ![u] = "ok"]
     \/ row' = [row EXCEPT ![u] = "error"] /\ UNCHANGED summary
  /\ UNCHANGED <<batchVars, domainVars, history, entry, pc, attempt, flow, outcome, permits,
                 deliverer, completed>>

-----------------------------------------------------------------------------
(* Cancellation by the user, and the end *)

\* Faulty variant of CancelledAt: a coroutine that backs off does not hear it.
CancelledAtUnheard(u) ==
  CASE pc[u] \in {"done", "reap", "backoff"} -> pc[u]
    [] pc[u] = "wait" -> "abort"
    [] OTHER -> "cancelled"

\* Faulty variant of CancelledAt: the flow is left to itself.
CancelledAtOnce(u) ==
  CASE pc[u] \in {"done", "reap"} -> pc[u]
    [] OTHER -> "cancelled"

\* Where CancelledError finds each coroutine.  A coroutine that waits for its
\* flow cancels it first; one that is reaping a flow suppresses the error.
CancelledAt(u) ==
  CASE pc[u] \in {"done", "reap"} -> pc[u]
    [] pc[u] = "wait" -> "abort"
    [] OTHER -> "cancelled"

LeavingNow == {u \in Urls : pc[u] \in InPermit /\ CancelledAt(u) = "cancelled"}

UserCancels ==
  /\ phase # "over" /\ ~cancelled
  /\ cancelled' = TRUE
  /\ pc' = [u \in Urls |-> CancelledAt(u)]
  /\ permits' = permits + Cardinality(LeavingNow)
  /\ deliverer' = deliverer \ LeavingNow
  /\ swallowed' = {u \in Urls : pc[u] = "reap"}
  /\ UNCHANGED <<phase, domain, registered, dbFaults, rowVars, domainVars, cards, exhausted, entry,
                 attempt, flow, outcome, completed>>

Aborted(u) ==
  /\ pc[u] = "abort" /\ ~Alive(u)
  /\ flow' = [flow EXCEPT ![u] = "none"]
  /\ Leave(u, "cancelled")
  /\ Quiet
  /\ UNCHANGED <<domainVars, history, entry, attempt, outcome, deliverer, completed>>

\* gather returns when every coroutine has ended; then the completion message,
\* unless the batch was cancelled.
BatchEnds ==
  /\ phase # "over" /\ \A u \in Urls : pc[u] \in Settled
  /\ phase' = "over"
  /\ UNCHANGED <<domain, registered, cancelled, dbFaults, rowVars, domainVars, history, entry, pc,
                 attempt, flow, outcome, permits, deliverer, completed>>

Idle == phase = "over" /\ foreign = {} /\ UNCHANGED vars

Register(u) == RegisterCached(u) \/ RegisterSkipped(u) \/ RegisterLookup(u) \/ RegisterCreate(u)

Coroutine(u) ==
  \/ CachedCounted(u) \/ Enter(u) \/ WriteSkipped(u) \/ StartAttempt(u)
  \/ DomainEvent(u) \/ Timeout(u) \/ ResultArrives(u) \/ ExceptionArrives(u)
  \/ Reaped(u) \/ TimedOut(u) \/ Retry(u) \/ WriteError(u)
  \/ TakeDeliveryLock(u) \/ SendCard(u) \/ Aborted(u)

Flow(u) ==
  \/ FlowBegins(u) \/ FlowStores(u) \/ FlowReturns(u) \/ FlowFails(u) \/ FlowRaises(u)

Next ==
  \/ \E u \in Urls :
       Register(u) \/ Coroutine(u) \/ Flow(u) \/ FlowCancelled(u) \/ ForeignEnds(u)
  \/ StartAll \/ UserCancels \/ BatchEnds \/ Idle

Spec == Init /\ [][Next]_vars

-----------------------------------------------------------------------------
(* Properties *)

\* No more flows run at once than the semaphore admits, those that are being
\* cancelled included.
FlowsBounded == Cardinality({u \in Urls : Alive(u)}) <= MaxConcurrent

\* A batch that was not cancelled ends with a final status for every URL, each
\* counted once.
EveryUrlAccounted ==
  phase = "over" /\ ~cancelled =>
    /\ \A u \in Urls : entry[u] \in {"cached", "complete", "failed"}
    /\ completed = Cardinality(Urls)
    /\ permits = MaxConcurrent

\* A domain is given up only after two of its URLs have used up their attempts,
\* and URLs of other domains are not affected by it.
DomainGivenUpForCause ==
  \A d \in failedDomains :
    Cardinality({u \in exhausted : domain[u] = d}) >= FailFastThreshold

\* The row of a registered URL that is reported failed does not stay pending: no
\* flow of the batch writes to it any more once the failure is recorded.
FailureIsRecorded ==
  \A u \in registered :
    pc[u] = "done" /\ entry[u] = "failed" /\ dbFaults = 0 /\ u \notin foreign
      => row[u] # "pending"

\* A card is sent for a stored summary only, and its URL is not reported failed.
CardMeansSummary ==
  \A u \in Urls : cards[u] > 0 => summary[u] /\ entry[u] = "complete" /\ row[u] # "skipped"

\* When the batch is over no flow of it is left behind, cancelled or not.
NoFlowOutlivesBatch == phase = "over" => \A u \in Urls : ~Alive(u)

\* At no time are there more flows than permits, and none after the batch.
FlowsContained == FlowsBounded /\ NoFlowOutlivesBatch

\* What the batch reports of its URLs, sends and writes is what became of them.
OutcomesAreTrue ==
  EveryUrlAccounted /\ DomainGivenUpForCause /\ FailureIsRecorded /\ CardMeansSummary

\* The batch keeps its flows within its limits and its word about their outcomes.
BatchIsSound == FlowsContained /\ OutcomesAreTrue

\* After the user's cancellation no further attempt starts, except by a URL that
\* was reaping a timed-out flow when it came: that coroutine swallows it.
CancelStopsAttempts ==
  [][\A u \in Urls :
       cancelled /\ flow[u] = "none" /\ flow'[u] = "begun" => u \in swallowed]_vars

\* The next step of the URL's coroutine, or of the flow it reaps, waits for nobody.
Ready(u) ==
  \/ pc[u] = "new" /\ \A v \in Urls : pc[v] # "create"
  \/ pc[u] \in {"create", "sleep", "writeSkipped", "compute", "wait", "abort", "backoff",
               "sending", "writeError"}
  \/ pc[u] = "reap" /\ (Alive(u) \/ outcome[u] # "none")
  \/ pc[u] = "permit" /\ permits > 0
  \/ pc[u] = "deliver" /\ deliverer = {}

\* The batch can always go on by itself, although its flows may hang and rows
\* are in other hands: nobody waits for a permit, the delivery lock or a flow
\* that will never come.
NeverStuck ==
  phase # "over" =>
    \/ \E u \in Urls : Ready(u)
    \/ phase = "register" /\ \A u \in Urls : pc[u] = "registered"
    \/ \A u \in Urls : pc[u] \in Settled

\* A coroutine is held up by nothing else: whatever its flow did, when the domain is given
\* up and when the user cancels, there is a step for it exactly if it is ready.
NothingElseHolds ==
  \A u \in Urls : Ready(u) <=> ENABLED (Register(u) \/ Coroutine(u) \/ FlowCancelled(u))
=============================================================================
