----------------------------- MODULE ApplyRetry -----------------------------
(***************************************************************************)
(* SyncService.apply_changes (api/services/sync_service.py) called several  *)
(* times with one idempotency key: a client that has no answer repeats its  *)
(* changes, while the first attempt runs, after it, or after its worker has *)
(* restarted. Each worker remembers the answer under the key for a time.    *)
(* Other clients change the same rows. A row's version counts only as newer *)
(* than the one the client has seen, or not.                                *)
(***************************************************************************)
EXTENDS Naturals, Sequences, FiniteSets

CONSTANTS
  Attempts,     \* numbered in the order in which the client makes them
  Workers,
  ChangeCount   \* changes 1..ChangeCount, of one summary each

ASSUME RetryAssumption == Attempts \subseteq Nat /\ ChangeCount \in Nat \ {0}

VARIABLES
  attempt,        \* of an attempt: "new", "read", "write", "answered", "failed"
  onWorker,
  change,       \* the change it is at
  results,      \* what it has found so far, or the answer from the cache
  newer,        \* the rows with a version above the client's
  cache,        \* _apply_dedup_cache under the key, or NoAnswer
  applied,      \* history: how often each change has been written
  crossed,      \* history: changes written between another attempt's check and write
  given,        \* history: the answers a worker has worked out and not forgotten
  known         \* history: per attempt, those of its worker when it began

retryVars == <<attempt, onWorker, change, results, newer, cache, applied, crossed, given, known>>

Changes == 1..ChangeCount
NoAnswer == <<>>
NoWorker == "none"
Statuses == {"applied", "conflict"}
Answers == [Changes -> Statuses]

RetryTypeOK ==
  /\ attempt \in [Attempts -> {"new", "read", "write", "answered", "failed"}]
  /\ onWorker \in [Attempts -> Workers \cup {NoWorker}] /\ change \in [Attempts -> Changes]
  /\ \A a \in Attempts : results[a] \in UNION {[1..n -> Statuses] : n \in 0..ChangeCount}
  /\ \A a \in Attempts : attempt[a] = "answered" => results[a] \in Answers
  /\ newer \subseteq Changes /\ crossed \subseteq Changes
  /\ cache \in [Workers -> Answers \cup {NoAnswer}]
  /\ applied \in [Changes -> 0..Cardinality(Attempts)]
  /\ given \in [Workers -> SUBSET Answers] /\ known \in [Attempts -> SUBSET Answers]

RetryInit ==
  /\ attempt = [a \in Attempts |-> "new"]
  /\ onWorker = [a \in Attempts |-> NoWorker]
  /\ change = [a \in Attempts |-> 1]
  /\ results = [a \in Attempts |-> <<>>]
  /\ newer = {}
  /\ cache = [w \in Workers |-> NoAnswer]
  /\ applied = [c \in Changes |-> 0]
  /\ crossed = {}
  /\ given = [w \in Workers |-> {}] /\ known = [a \in Attempts |-> {}]

\* _lookup_apply_dedup_cache; without an answer there the changes are begun.
BeginAttempt(a, w) ==
  /\ attempt[a] = "new"
  /\ \A b \in Attempts : b < a => attempt[b] # "new"
  /\ onWorker' = [onWorker EXCEPT ![a] = w]
  /\ known' = [known EXCEPT ![a] = given[w]]
  /\ IF cache[w] # NoAnswer
     THEN /\ attempt' = [attempt EXCEPT ![a] = "answered"]
          /\ results' = [results EXCEPT ![a] = cache[w]]
     ELSE attempt' = [attempt EXCEPT ![a] = "read"] /\ UNCHANGED results
  /\ UNCHANGED <<change, newer, cache, applied, crossed, given>>

\* Faulty variant of Remembered: an answer with a conflict is not kept.
RememberedIfApplied(answer) ==
  IF \A c \in Changes : answer[c] = "applied" THEN answer ELSE NoAnswer

\* _store_apply_dedup_cache
Remembered(answer) == answer

\* One change has its result; behind the last one the answer is stored and given.
Result(a, status) ==
  /\ results' = [results EXCEPT ![a] = Append(@, status)]
  /\ IF change[a] < ChangeCount
     THEN /\ change' = [change EXCEPT ![a] = @ + 1]
          /\ attempt' = [attempt EXCEPT ![a] = "read"]
          /\ UNCHANGED <<cache, given>>
     ELSE /\ attempt' = [attempt EXCEPT ![a] = "answered"]
          /\ cache' = [cache EXCEPT ![onWorker[a]] = Remembered(results'[a])]
          /\ given' = [given EXCEPT ![onWorker[a]] = @ \cup {results'[a]}]
          /\ UNCHANGED change

\* Faulty variant of Conflicts: the version is not compared.
ConflictsNever(c) == FALSE

Conflicts(c) == c \in newer

\* async_get_summary_for_sync_apply and the comparison of versions.
ReadRow(a) ==
  /\ attempt[a] = "read"
  /\ IF Conflicts(change[a])
     THEN Result(a, "conflict")
     ELSE attempt' = [attempt EXCEPT ![a] = "write"] /\ UNCHANGED <<change, results, cache, given>>
  /\ UNCHANGED <<onWorker, newer, applied, crossed, known>>

\* Attempts that have compared the version of c's row and not written it.
Between(c) == {a \in Attempts : attempt[a] = "write" /\ change[a] = c}

\* async_apply_sync_change
WriteRow(a) ==
  /\ attempt[a] = "write"
  /\ newer' = newer \cup {change[a]}
  /\ applied' = [applied EXCEPT ![change[a]] = @ + 1]
  /\ crossed' = IF Between(change[a]) = {a} THEN crossed ELSE crossed \cup {change[a]}
  /\ Result(a, "applied")
  /\ UNCHANGED <<onWorker, known>>

OtherClientWrites(c) ==
  /\ newer' = newer \cup {c}
  /\ UNCHANGED <<attempt, onWorker, change, results, cache, applied, crossed, given, known>>

\* A query raises, or the request is cut off; what is written stays.
AttemptFails(a) ==
  /\ attempt[a] \in {"read", "write"}
  /\ attempt' = [attempt EXCEPT ![a] = "failed"]
  /\ \/ UNCHANGED <<newer, applied, crossed>>
     \/ /\ attempt[a] = "write"
        /\ newer' = newer \cup {change[a]}
        /\ applied' = [applied EXCEPT ![change[a]] = @ + 1]
        /\ crossed' = IF Between(change[a]) = {a} THEN crossed ELSE crossed \cup {change[a]}
  /\ UNCHANGED <<onWorker, change, results, cache, given, known>>

\* The answer's time to live ends, or the worker restarts.
Forgets(w) ==
  /\ given[w] # {}
  /\ cache' = [cache EXCEPT ![w] = NoAnswer]
  /\ given' = [given EXCEPT ![w] = {}]
  /\ UNCHANGED <<attempt, onWorker, change, results, newer, applied, crossed, known>>

RetryAtRest ==
  /\ \A a \in Attempts : attempt[a] \in {"answered", "failed"}
  /\ UNCHANGED retryVars

RetryNext ==
  \/ \E a \in Attempts, w \in Workers : BeginAttempt(a, w)
  \/ \E a \in Attempts : ReadRow(a) \/ WriteRow(a) \/ AttemptFails(a)
  \/ \E c \in Changes : OtherClientWrites(c)
  \/ \E w \in Workers : Forgets(w)
  \/ RetryAtRest

RetrySpec == RetryInit /\ [][RetryNext]_retryVars

-----------------------------------------------------------------------------
(* Properties *)

\* However often the client repeats a change, on whichever worker, after failures
\* half way and after the cache is gone, it is written once, unless two attempts
\* passed the version's check before either wrote.
AppliedOnce == \A c \in Changes : c \notin crossed => applied[c] <= 1

\* A retry that begins when its worker has an answer under the key gets such an
\* answer, conflicts included, whatever has become of the rows.
RetryRepeatsAnswer ==
  \A a \in Attempts : attempt[a] = "answered" /\ known[a] # {} => results[a] \in known[a]

\* Repeating a call is safe: its changes are not made again, its answer stays.
RetryIsSafe == AppliedOnce /\ RetryRepeatsAnswer
=============================================================================
