-------------------------- MODULE SummaryWorkflow --------------------------
(***************************************************************************)
(* LLMResponseWorkflow.execute_summary_workflow (adapters/content/          *)
(* llm_response_workflow*.py) for several requests at a time. A workflow    *)
(* tries its list of model requests in order until one gives a summary: it  *)
(* takes a slot of the semaphore that all model calls share, calls, records *)
(* the call, parses, asks the model to repair what it cannot parse or what  *)
(* is empty, fills in metadata, and stores summary and status together.     *)
(* A step is what runs between two awaits; what a call returns, a timeout,  *)
(* a database error and a cancellation are choices. Messages to the user    *)
(* are left out: a workflow may be run without them, and one that cannot    *)
(* be sent is logged and changes nothing.                                   *)
(***************************************************************************)
EXTENDS Naturals, FiniteSets

CONSTANTS
  Workflows,    \* requests with a workflow of their own
  MaxTries,     \* length of the list of model requests
  MaxCalls,     \* max_concurrent_calls, the semaphore's permits
  MaxLostWrites \* bound on database errors

ASSUME WorkflowAssumption ==
  /\ MaxTries \in Nat \ {0} /\ MaxCalls \in Nat \ {0}
  /\ MaxLostWrites \in Nat

VARIABLES
  awaits,       \* the await a workflow is at, see WorkflowTypeOK
  purpose,      \* what its current or last model call is for
  try,          \* the number of the model request it is at
  permits,      \* free permits of the semaphore
  requestRow,   \* the status of the request's row
  summarized,   \* the requests whose summary is stored
  result,       \* what execute_summary_workflow returned
  doubted,      \* history: requests whose commit raised after it was carried out
  lostWrites    \* database errors so far

workflowVars == <<awaits, purpose, try, permits, requestRow, summarized, result, doubted, lostWrites>>

Calling == {w \in Workflows : awaits[w] = "call"}

WorkflowTypeOK ==
  /\ awaits \in [Workflows -> {"new", "slot", "call", "record", "recordTimeout", "parse",
                               "callFailed", "repairFailed", "persist", "allFailed", "ended"}]
  /\ purpose \in [Workflows -> {"summary", "repair", "refill", "metadata"}]
  /\ try \in [Workflows -> 1..MaxTries]
  /\ permits \in 0..MaxCalls
  /\ requestRow \in [Workflows -> {"open", "error", "completed"}]
  /\ summarized \subseteq Workflows /\ doubted \subseteq Workflows
  /\ result \in [Workflows -> {"none", "summary", "nothing", "raised", "cancelled"}]
  /\ \A w \in Workflows : result[w] # "none" <=> awaits[w] = "ended"
  /\ lostWrites \in 0..MaxLostWrites

WorkflowInit ==
  /\ awaits = [w \in Workflows |-> "new"]
  /\ purpose = [w \in Workflows |-> "summary"]
  /\ try = [w \in Workflows |-> 1]
  /\ permits = MaxCalls
  /\ requestRow = [w \in Workflows |-> "open"]
  /\ summarized = {} /\ doubted = {}
  /\ result = [w \in Workflows |-> "none"]
  /\ lostWrites = 0

-----------------------------------------------------------------------------
(* Where a workflow goes on *)

GoTo(w, there) == awaits' = [awaits EXCEPT ![w] = there] /\ UNCHANGED <<purpose, try, result>>

AskFor(w, reason) ==
  /\ awaits' = [awaits EXCEPT ![w] = "slot"]
  /\ purpose' = [purpose EXCEPT ![w] = reason]
  /\ UNCHANGED <<try, result>>

\* The attempt has given no summary.
NextTry(w) ==
  IF try[w] < MaxTries
  THEN /\ awaits' = [awaits EXCEPT ![w] = "slot"]
       /\ purpose' = [purpose EXCEPT ![w] = "summary"]
       /\ try' = [try EXCEPT ![w] = @ + 1]
       /\ UNCHANGED result
  ELSE GoTo(w, "allFailed")

End(w, value) ==
  /\ awaits' = [awaits EXCEPT ![w] = "ended"]
  /\ result' = [result EXCEPT ![w] = value]
  /\ UNCHANGED <<purpose, try>>

\* finalize_success: ensure_summary may ask the model for missing metadata, or raise.
Finalize(w) == AskFor(w, "metadata") \/ GoTo(w, "persist") \/ NextTry(w)

\* A parsed summary without any of the required texts is sent back once.
Accept(w) == Finalize(w) \/ AskFor(w, "refill")

WriteRaises == lostWrites < MaxLostWrites /\ lostWrites' = lostWrites + 1

Kept == <<summarized, doubted>>

-----------------------------------------------------------------------------
(* Model calls. asyncio.Semaphore serves waiters in turn; any order is allowed here. *)

Start(w) ==
  /\ awaits[w] = "new"
  /\ AskFor(w, "summary")
  /\ UNCHANGED <<permits, requestRow, Kept, lostWrites>>

TakePermit(w) ==
  /\ awaits[w] = "slot" /\ permits > 0
  /\ permits' = permits - 1
  /\ GoTo(w, "call")
  /\ UNCHANGED <<requestRow, Kept, lostWrites>>

\* Where a call that gave no answer leads: a timed-out summary call is an error answer
\* and is recorded as one, a repair has failed, and metadata is optional.
AfterTimeout(w) ==
  \/ purpose[w] = "summary" /\ GoTo(w, "recordTimeout")
  \/ purpose[w] \in {"repair", "refill"} /\ GoTo(w, "repairFailed")
  \/ purpose[w] = "metadata" /\ GoTo(w, "persist")

\* semaphore_acquire_timeout_sec; the call for metadata waits without a bound.
SlotTimesOut(w) ==
  /\ awaits[w] = "slot" /\ purpose[w] # "metadata"
  /\ AfterTimeout(w)
  /\ UNCHANGED <<permits, requestRow, Kept, lostWrites>>

\* The finally around the call, and Semaphore.acquire undone in a cancelled wait.
PermitsAfter(w) == IF awaits[w] = "call" THEN permits + 1 ELSE permits

CallReturns(w) ==
  /\ awaits[w] = "call"
  /\ permits' = PermitsAfter(w)
  /\ GoTo(w, "record")
  /\ UNCHANGED <<requestRow, Kept, lostWrites>>

CallTimesOut(w) ==
  /\ awaits[w] = "call"
  /\ permits' = PermitsAfter(w)
  /\ AfterTimeout(w)
  /\ UNCHANGED <<requestRow, Kept, lostWrites>>

\* The client has been closed: nothing around a summary call catches it.
CallRaises(w) ==
  /\ awaits[w] = "call"
  /\ permits' = PermitsAfter(w)
  /\ IF purpose[w] = "summary" THEN End(w, "raised") ELSE AfterTimeout(w)
  /\ UNCHANGED <<requestRow, Kept, lostWrites>>

\* The call is in llm_calls, or an exception of the database was swallowed; either way
\* the answer decides. An answer that broke the schema may be salvaged.
Record(w) ==
  /\ awaits[w] = "record"
  /\ \/ /\ purpose[w] = "summary"
        /\ GoTo(w, "parse") \/ GoTo(w, "callFailed") \/ Finalize(w)
     \/ /\ purpose[w] = "repair"
        /\ Accept(w) \/ GoTo(w, "repairFailed")
     \/ /\ purpose[w] = "refill"
        /\ Finalize(w) \/ GoTo(w, "repairFailed")
     \/ purpose[w] = "metadata" /\ GoTo(w, "persist")
  /\ UNCHANGED <<permits, requestRow, Kept, lostWrites>>

RecordTimeout(w) ==
  /\ awaits[w] = "recordTimeout"
  /\ GoTo(w, "callFailed")
  /\ UNCHANGED <<permits, requestRow, Kept, lostWrites>>

\* parse_summary_response in a thread; it may time out.
Parse(w) ==
  /\ awaits[w] = "parse"
  /\ Accept(w) \/ AskFor(w, "repair") \/ NextTry(w)
  /\ UNCHANGED <<permits, requestRow, Kept, lostWrites>>

-----------------------------------------------------------------------------
(* Failures *)

\* The row says ERROR, or the write raises.
MarksError(w) ==
  \/ requestRow' = [requestRow EXCEPT ![w] = "error"] /\ UNCHANGED lostWrites
  \/ WriteRaises /\ UNCHANGED requestRow

CallFailed(w) ==
  /\ awaits[w] = "callFailed"
  /\ MarksError(w)
  /\ NextTry(w)
  /\ UNCHANGED <<permits, Kept>>

RepairFailed(w) ==
  /\ awaits[w] = "repairFailed"
  /\ MarksError(w)
  /\ NextTry(w)
  /\ UNCHANGED <<permits, Kept>>

AllFailed(w) ==
  /\ awaits[w] = "allFailed"
  /\ MarksError(w)
  /\ IF lostWrites' = lostWrites THEN End(w, "nothing") ELSE End(w, "raised")
  /\ UNCHANGED <<permits, Kept>>

-----------------------------------------------------------------------------
(* The summary *)

\* async_finalize_request_summary: summary and COMPLETED in one transaction.
Stores(w) ==
  /\ summarized' = summarized \cup {w}
  /\ requestRow' = [requestRow EXCEPT ![w] = "completed"]

Persist(w) ==
  /\ awaits[w] = "persist"
  /\ Stores(w)
  /\ End(w, "summary")
  /\ UNCHANGED <<permits, doubted, lostWrites>>

\* Faulty variant of PersistRaises: the exception is swallowed like those of the records.
PersistRaisesUnseen(w) ==
  /\ awaits[w] = "persist" /\ WriteRaises
  /\ End(w, "summary")
  /\ UNCHANGED <<permits, requestRow, Kept>>

\* The transaction raises, before or after its commit: the attempt has failed.
PersistRaises(w) ==
  /\ awaits[w] = "persist" /\ WriteRaises
  /\ \/ UNCHANGED <<requestRow, Kept>>
     \/ Stores(w) /\ doubted' = doubted \cup {w}
  /\ NextTry(w)
  /\ UNCHANGED permits

\* The task of the flow is cancelled: no handler catches it, the permit is given back.
\* A write that is under way may have been carried out.
Cancelled(w) ==
  /\ awaits[w] \notin {"new", "ended"}
  /\ permits' = PermitsAfter(w)
  /\ End(w, "cancelled")
  /\ \/ UNCHANGED <<requestRow, summarized>>
     \/ awaits[w] = "persist" /\ Stores(w)
     \/ /\ awaits[w] \in {"callFailed", "repairFailed", "allFailed"}
        /\ requestRow' = [requestRow EXCEPT ![w] = "error"] /\ UNCHANGED summarized
  /\ UNCHANGED <<doubted, lostWrites>>

WorkflowGoesOn(w) ==
  \/ TakePermit(w) \/ SlotTimesOut(w) \/ CallReturns(w) \/ CallTimesOut(w) \/ CallRaises(w)
  \/ Record(w) \/ RecordTimeout(w) \/ Parse(w) \/ CallFailed(w) \/ RepairFailed(w) \/ AllFailed(w)
  \/ Persist(w) \/ PersistRaises(w)

WorkflowsAtRest ==
  /\ \A w \in Workflows : awaits[w] \in {"new", "ended"}
  /\ UNCHANGED workflowVars

WorkflowNext ==
  \/ \E w \in Workflows : Start(w) \/ WorkflowGoesOn(w) \/ Cancelled(w)
  \/ WorkflowsAtRest

\* Calls, slots, parsing and the database answer or time out.
WorkflowFairness == \A w \in Workflows : WF_workflowVars(WorkflowGoesOn(w))

WorkflowSpec == WorkflowInit /\ [][WorkflowNext]_workflowVars /\ WorkflowFairness

-----------------------------------------------------------------------------
(* Properties *)

\* However calls end, by an answer, a timeout, an exception or a cancellation, at any of
\* three places, every permit is free or with a call that is under way.
PermitsBalanced == permits + Cardinality(Calling) = MaxCalls

\* What a workflow returns is what the database says, whichever attempts failed before and
\* whichever writes raised: a summary stands for a stored one and a completed row, nothing
\* for a row in error, which is what the caller and the status endpoint rely on.
VerdictIsTrue ==
  \A w \in Workflows :
    /\ result[w] = "summary" => w \in summarized /\ requestRow[w] = "completed"
    /\ result[w] = "nothing" => requestRow[w] = "error"

\* A stored summary has a completed row, however many attempts failed before it; only a
\* commit whose answer was lost lets a later attempt mark the row an error.
StoredIsCompleted ==
  \A w \in Workflows :
    /\ requestRow[w] = "completed" => w \in summarized
    /\ w \in summarized => requestRow[w] = "completed" \/ w \in doubted

\* No slot leaks and every verdict of a workflow agrees with the rows.
WorkflowIsTrue == PermitsBalanced /\ VerdictIsTrue /\ StoredIsCompleted

\* Every workflow comes to its end, also one that waits for a slot without a bound.
WorkflowsEnd == []<>(\A w \in Workflows : awaits[w] \in {"new", "ended"})
=============================================================================
