------------------------- MODULE BundleAggregation -------------------------
(***************************************************************************)
(* One run of MultiSourceAggregationService.aggregate over                  *)
(* MultiSourceExtractionAgent, MultiSourceAggregationAgent and the session  *)
(* and item rows: the items of a bundle are extracted one after the other,  *)
(* a failed one is recorded and passed over, the extracted ones are         *)
(* synthesized. Every database call, progress callback and extraction may   *)
(* raise, and the run may be cancelled or die anywhere.                     *)
(***************************************************************************)
EXTENDS Naturals, FiniteSets

CONSTANTS
  ItemCount,
  SourceOf        \* the stable id of an item's source

ASSUME BundleAssumption == ItemCount \in Nat \ {0} /\ DOMAIN SourceOf = 1..ItemCount

VARIABLES
  step,
  position,
  succeeded,    \* items counted in successful_count
  failing,      \* items counted in failed_count
  extracted,    \* item_results with status EXTRACTED
  itemRow,      \* status of an item's row
  session,      \* status of the session's row
  counts,       \* its three counts
  output        \* it has an aggregation output

resultVars == <<succeeded, failing, extracted>>
sessionVars == <<itemRow, session, counts, output>>
bundleVars == <<step, position, resultVars, sessionVars>>

Positions == 1..ItemCount

Zero == [success |-> 0, failed |-> 0, duplicate |-> 0]

BundleTypeOK ==
  /\ step \in {"create", "start", "add", "duplicate", "mark", "extract", "store", "emit",
               "count", "fail", "failcount", "total", "nothing", "synthesize", "failed",
               "finish", "over", "raised"}
  /\ position \in Positions
  /\ extracted \subseteq succeeded /\ succeeded \subseteq 1..position /\ failing \subseteq 1..position
  /\ itemRow \in [Positions -> {"none", "pending", "processing", "extracted", "failed", "duplicate"}]
  /\ session \in {"none", "pending", "processing", "completed", "partial", "failed"}
  /\ counts \in [{"success", "failed", "duplicate"} -> 0..ItemCount]
  /\ output \in BOOLEAN

BundleInit ==
  /\ step = "create" /\ position = 1
  /\ succeeded = {} /\ failing = {} /\ extracted = {}
  /\ itemRow = [p \in Positions |-> "none"]
  /\ session = "none" /\ counts = Zero /\ output = FALSE

\* first_positions_by_source_id
First(p) == CHOOSE q \in Positions :
  SourceOf[q] = SourceOf[p] /\ \A r \in 1..q - 1 : SourceOf[r] # SourceOf[p]

IsDuplicate(p) == First(p) # p

Rows(status) == {p \in Positions : itemRow[p] = status}

\* The three counters of the loop, behind the item at p.
Counters(p) == [success |-> Cardinality(succeeded), failed |-> Cardinality(failing),
                duplicate |-> Cardinality({q \in 1..p : IsDuplicate(q)})]

NextItem ==
  IF position < ItemCount
  THEN position' = position + 1 /\ step' = "add"
  ELSE step' = "total" /\ UNCHANGED position

-----------------------------------------------------------------------------
(* MultiSourceExtractionAgent.execute *)

CreateSession ==
  /\ step = "create"
  /\ session' = "pending" /\ step' = "start"
  /\ UNCHANGED <<position, resultVars, itemRow, counts, output>>

StartSession ==
  /\ step = "start"
  /\ session' = "processing" /\ step' = "add"
  /\ UNCHANGED <<position, resultVars, itemRow, counts, output>>

AddItem ==
  /\ step = "add"
  /\ itemRow' = [itemRow EXCEPT ![position] = IF IsDuplicate(position) THEN "duplicate" ELSE "pending"]
  /\ step' = IF IsDuplicate(position) THEN "duplicate" ELSE "mark"
  /\ UNCHANGED <<position, resultVars, session, counts, output>>

\* _persist_counts after a duplicate, an extraction, a failure.
PersistCounts ==
  /\ step \in {"duplicate", "count", "failcount"}
  /\ counts' = Counters(position)
  /\ NextItem
  /\ UNCHANGED <<resultVars, itemRow, session, output>>

MarkProcessing ==
  /\ step = "mark"
  /\ itemRow' = [itemRow EXCEPT ![position] = "processing"]
  /\ step' = "extract"
  /\ UNCHANGED <<position, resultVars, session, counts, output>>

ExtractItem ==
  /\ step = "extract"
  /\ step' = "store"
  /\ UNCHANGED <<position, resultVars, sessionVars>>

StoreDocument ==
  /\ step = "store"
  /\ itemRow' = [itemRow EXCEPT ![position] = "extracted"]
  /\ succeeded' = succeeded \cup {position}
  /\ step' = "emit"
  /\ UNCHANGED <<position, failing, extracted, session, counts, output>>

\* The progress callback has returned.
EmitExtracted ==
  /\ step = "emit"
  /\ extracted' = extracted \cup {position}
  /\ step' = "count"
  /\ UNCHANGED <<position, succeeded, failing, sessionVars>>

\* What the try of an item encloses raises; the row may be written all the same.
ItemRaises ==
  /\ step \in {"extract", "store", "emit", "count"}
  /\ failing' = failing \cup {position}
  /\ step' = "fail"
  /\ \/ UNCHANGED itemRow
     \/ step = "store" /\ itemRow' = [itemRow EXCEPT ![position] = "extracted"]
  /\ UNCHANGED <<position, succeeded, extracted, session, counts, output>>

\* Faulty variant of RecordItemFailure: an item that has been extracted stays so.
RecordItemFailureOnce ==
  /\ step = "fail"
  /\ itemRow' = IF position \in succeeded THEN itemRow ELSE [itemRow EXCEPT ![position] = "failed"]
  /\ step' = "failcount"
  /\ UNCHANGED <<position, resultVars, session, counts, output>>

RecordItemFailure ==
  /\ step = "fail"
  /\ itemRow' = [itemRow EXCEPT ![position] = "failed"]
  /\ step' = "failcount"
  /\ UNCHANGED <<position, resultVars, session, counts, output>>

TotalCounts ==
  /\ step = "total"
  /\ counts' = Counters(position)
  /\ step' = IF succeeded = {} THEN "nothing" ELSE "synthesize"
  /\ UNCHANGED <<position, resultVars, itemRow, session, output>>

NothingExtracted ==
  /\ step = "nothing"
  /\ session' = "failed" /\ step' = "over"
  /\ UNCHANGED <<position, resultVars, itemRow, counts, output>>

-----------------------------------------------------------------------------
(* MultiSourceAggregationAgent.execute and the rest of aggregate *)

\* Only the items among the results with status EXTRACTED take part.
Synthesize ==
  /\ step = "synthesize" /\ extracted # {}
  /\ output' = TRUE /\ step' = "finish"
  /\ UNCHANGED <<position, resultVars, itemRow, session, counts>>

\* Faulty variant of SynthesisFails: the error is raised at once.
SynthesisFailsAtOnce ==
  /\ step = "synthesize"
  /\ step' = "over"
  /\ output' \in {output, extracted # {}}
  /\ UNCHANGED <<position, resultVars, itemRow, session, counts>>

\* There are none, or the synthesis or its output's update raises.
SynthesisFails ==
  /\ step = "synthesize"
  /\ step' = "failed"
  /\ output' \in {output, extracted # {}}
  /\ UNCHANGED <<position, resultVars, itemRow, session, counts>>

FailSession ==
  /\ step = "failed"
  /\ session' = "failed" /\ step' = "over"
  /\ UNCHANGED <<position, resultVars, itemRow, counts, output>>

\* _resolve_output_status
OutputStatus == IF failing # {} THEN "partial" ELSE "completed"

FinishSession ==
  /\ step = "finish"
  /\ session' = OutputStatus /\ step' = "over"
  /\ UNCHANGED <<position, resultVars, itemRow, counts, output>>

\* Outside the try of an item, or cancelled or dead anywhere: nothing is cleaned up.
RunRaises ==
  /\ step \notin {"over", "raised"}
  /\ step' = "raised"
  /\ UNCHANGED <<position, resultVars, sessionVars>>

BundleAtRest == step \in {"over", "raised"} /\ UNCHANGED bundleVars

BundleNext ==
  \/ CreateSession \/ StartSession \/ AddItem \/ PersistCounts \/ MarkProcessing
  \/ ExtractItem \/ StoreDocument \/ EmitExtracted \/ ItemRaises \/ RecordItemFailure
  \/ TotalCounts \/ NothingExtracted \/ Synthesize \/ SynthesisFails \/ FailSession
  \/ FinishSession \/ RunRaises \/ BundleAtRest

BundleSpec == BundleInit /\ [][BundleNext]_bundleVars

-----------------------------------------------------------------------------
(* Properties *)

Ended == session \in {"completed", "partial", "failed"}

\* The counts of an ended session are those of its rows, but that an item whose
\* progress callback or count raised after it was stored is counted as a success
\* and as a failure.
CountsMatchRows ==
  Ended => counts = [success |-> Cardinality(Rows("extracted")) + Cardinality(succeeded \cap failing),
                     failed |-> Cardinality(Rows("failed")),
                     duplicate |-> Cardinality(Rows("duplicate"))]

\* A session is completed only when every row is extracted or a duplicate of one
\* that is, and completed or partial only with an output.
StatusMatchesRows ==
  /\ session = "completed" =>
       \A p \in Positions : /\ itemRow[First(p)] = "extracted"
                            /\ itemRow[p] \in {"extracted", "duplicate"}
  /\ session = "partial" => Rows("failed") # {}
  /\ session \in {"completed", "partial"} => output /\ extracted # {}

\* A run that returns or reports its failure leaves an ended session; one that is
\* interrupted leaves it, if anything, in progress for ever.
SessionEnds == step = "over" => Ended /\ Rows("pending") = {} /\ Rows("processing") = {}

\* What a client reads of a run that is over is what the run has done.
SessionIsTrue == CountsMatchRows /\ StatusMatchesRows /\ SessionEnds
=============================================================================
