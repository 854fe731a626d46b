-------------------------- MODULE ProgressTracker --------------------------
(***************************************************************************)
(* ProgressTracker (utils/progress_tracker.py) as execute_batch drives it:  *)
(* coroutines count finished URLs and put the count into a queue of one     *)
(* slot, a processor takes it and edits the message, a heartbeat and phase  *)
(* changes force updates, and the batch waits for the processor at the end. *)
(* The batch's formatter ignores the count it is given and draws the list   *)
(* of URLs as it is at that moment.                                         *)
(***************************************************************************)
EXTENDS Naturals

CONSTANTS
  Total,          \* URLs of the batch
  Percentage      \* progress_threshold_percentage

ASSUME TrackerAssumption == Total \in Nat \ {0} /\ Percentage \in 0..100

VARIABLES
  settled,    \* URLs with their final entry in the batch's list
  counted,    \* _completed
  displayed,  \* _last_displayed, the last count that was queued as progress
  slot,       \* the queue: a count or Empty
  shutdown,   \* _shutdown_event
  processor,  \* "waiting" in get(), "formatting" or "ended"
  shown,      \* the count that the processor gave to the formatter last
  drawn,      \* the URLs that were settled when it did
  batch,      \* of execute_batch: "urls", "joining" or, cancelled, "leaving", and then
              \* "over" or "left"
  owed,       \* history: the count queued last while there was a processor
  raced       \* history: the processor left without looking at the queue

trackerVars == <<settled, counted, displayed, slot, shutdown, processor, shown, drawn, batch, owed, raced>>

Empty == Total + 1

TrackerTypeOK ==
  /\ {settled, counted, displayed, shown, drawn, owed} \subseteq 0..Total
  /\ slot \in 0..Total \cup {Empty}
  /\ {shutdown, raced} \subseteq BOOLEAN
  /\ processor \in {"waiting", "formatting", "ended"}
  /\ batch \in {"urls", "joining", "leaving", "over", "left"}

TrackerInit ==
  /\ settled = 0 /\ counted = 0 /\ displayed = 0 /\ shown = 0 /\ drawn = 0 /\ owed = 0
  /\ slot = Empty
  /\ processor = "waiting" /\ batch = "urls"
  /\ shutdown = FALSE /\ raced = FALSE

\* max(1, int(total * percentage / 100))
Threshold == LET t == (Total * Percentage) \div 100 IN IF t = 0 THEN 1 ELSE t

\* Faulty variant of Replaced: the oldest update is kept.
ReplacedOldest(old, new) == IF old = Empty THEN new ELSE old

\* put_nowait, or the oldest update dropped for the new one.
Replaced(old, new) == new

\* What a processor that is still there has to show.
Owes(count) == owed' = IF processor = "ended" THEN owed ELSE count

\* mark_complete or mark_failed of a URL's entry, before the URL is counted.
Settle ==
  /\ batch = "urls" /\ settled < Total
  /\ settled' = settled + 1
  /\ UNCHANGED <<counted, displayed, slot, shutdown, processor, shown, drawn, batch, owed, raced>>

\* increment_and_update: the count is queued when it is Threshold ahead of the
\* last one, or when update_interval has passed.
IncrementAndUpdate ==
  /\ batch = "urls" /\ counted < settled
  /\ counted' = counted + 1
  /\ \/ /\ displayed' = counted' /\ slot' = Replaced(slot, counted')
        /\ Owes(counted')
     \/ counted' - displayed < Threshold /\ UNCHANGED <<displayed, slot, owed>>
  /\ shutdown' = (shutdown \/ counted' = Total)
  /\ UNCHANGED <<settled, processor, shown, drawn, batch, raced>>

\* By the heartbeat or a phase change.
ForceUpdate ==
  /\ batch = "urls"
  /\ slot' = counted /\ Owes(counted)
  /\ UNCHANGED <<settled, counted, displayed, shutdown, processor, shown, drawn, batch, raced>>

Take ==
  /\ processor = "waiting" /\ slot # Empty
  /\ shown' = slot /\ drawn' = settled /\ slot' = Empty
  /\ processor' = "formatting"
  /\ UNCHANGED <<settled, counted, displayed, shutdown, batch, owed, raced>>

\* Faulty variant of MayEnd: the queue is not looked at.
MayEndAtOnce == shutdown

\* The test at the top of the loop.
MayEnd == shutdown /\ slot = Empty

\* The message is edited, or the formatter skips it or raises.
Formatted ==
  /\ processor = "formatting"
  /\ processor' = IF MayEnd THEN "ended" ELSE "waiting"
  /\ UNCHANGED <<settled, counted, displayed, slot, shutdown, shown, drawn, batch, owed, raced>>

\* Half a second without an update.
GetTimesOut ==
  /\ processor = "waiting" /\ slot = Empty /\ shutdown
  /\ processor' = "ended"
  /\ UNCHANGED <<settled, counted, displayed, slot, shutdown, shown, drawn, batch, owed, raced>>

\* The timeout fires in the turn in which an update is queued.
GetTimesOutLate ==
  /\ processor = "waiting" /\ slot # Empty /\ shutdown
  /\ processor' = "ended" /\ raced' = TRUE
  /\ UNCHANGED <<settled, counted, displayed, slot, shutdown, shown, drawn, batch, owed>>

\* mark_complete of the tracker: every URL has returned, or raised without being
\* counted, or the batch was cancelled.
MarkComplete ==
  /\ batch = "urls"
  /\ batch' \in {"joining", "leaving"} /\ shutdown' = TRUE
  /\ UNCHANGED <<settled, counted, displayed, slot, processor, shown, drawn, owed, raced>>

\* After the wait for the processor the batch forces one last update, unless a
\* cancellation takes it away.
AfterJoin ==
  \/ batch = "joining" /\ batch' = "over" /\ slot' = counted
  \/ batch = "leaving" /\ batch' = "left" /\ slot' = slot

Joined ==
  /\ processor = "ended"
  /\ AfterJoin
  /\ UNCHANGED <<settled, counted, displayed, shutdown, processor, shown, drawn, owed, raced>>

\* After ten seconds, or by a cancellation in the wait, the processor is cancelled.
JoinTimesOut ==
  /\ processor # "ended"
  /\ AfterJoin
  /\ processor' = "ended" /\ raced' = TRUE
  /\ UNCHANGED <<settled, counted, displayed, shutdown, shown, drawn, owed>>

TrackerAtRest == batch \in {"over", "left"} /\ UNCHANGED trackerVars

Processor == Take \/ Formatted \/ GetTimesOut

TrackerNext ==
  \/ Settle \/ IncrementAndUpdate \/ ForceUpdate \/ Processor \/ GetTimesOutLate
  \/ MarkComplete \/ Joined \/ JoinTimesOut \/ TrackerAtRest

TrackerSpec == TrackerInit /\ [][TrackerNext]_trackerVars

\* The event loop runs the processor's task, also while the batch sleeps after its
\* last forced update.
TrackerFairSpec == TrackerSpec /\ WF_trackerVars(Processor)

-----------------------------------------------------------------------------
(* Properties *)

\* A processor that has ended by itself gave the formatter the count that was queued last
\* while it was there, by an increment, the heartbeat or a phase change; what is queued
\* after its end is given to nobody.
LastQueuedIsShown == processor = "ended" /\ ~raced => shown = owed

\* "Force one last progress edit showing final state before completion message": once all
\* URLs are counted and the last update is forced, the message comes to show them all, if
\* the processor was not cut off.
FinalStateIsShown == batch = "over" /\ counted = Total /\ ~raced ~> drawn = settled
=============================================================================
