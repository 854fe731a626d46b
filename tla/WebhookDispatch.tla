-------------------------- MODULE WebhookDispatch --------------------------
(***************************************************************************)
(* WebhookDispatcher (infrastructure/messaging/handlers/                    *)
(* webhook_dispatcher.py) over webhook_repository.py: each event is sent to *)
(* the user's subscriptions one after the other, a failed delivery is       *)
(* counted by a read and a write in one transaction, a success resets the   *)
(* count, and a subscription is disabled at MaxFailures. Several events are *)
(* dispatched at once, and the user switches subscriptions off and on.      *)
(***************************************************************************)
EXTENDS Naturals, FiniteSets

CONSTANTS
  EventIds,
  Subs,           \* subscriptions, numbered in the order of the list
  Listens,        \* pairs <<event, subscription>>
  MaxFailures

ASSUME DispatchAssumption ==
  /\ Subs \subseteq Nat /\ Listens \subseteq EventIds \X Subs
  /\ IsFiniteSet(EventIds) /\ MaxFailures \in Nat \ {0}

VARIABLES
  at,         \* where a dispatch is
  left,       \* its subscriptions from the one in delivery on
  success,    \* of the delivery in progress
  readCount,  \* what its increment has read
  count,      \* failure_count
  enabled,
  streak,     \* history: failures in a row, in the order of their writes
  overlapped, \* history: subscriptions counted by two transactions at a time
  excused,    \* history: those enabled by the user, or left by a cancelled
              \* dispatch, since their last counted failure
  tried,      \* history: the subscriptions an event was posted to
  withheld,   \* history: those left before the post
  matched     \* history: those of its list that listen to it

rowVars == <<count, enabled, streak, overlapped, excused>>
dispatchVars == <<at, left, success, readCount, rowVars, tried, withheld, matched>>

DispatchTypeOK ==
  /\ at \in [EventIds -> {"new", "post", "log", "reset", "read", "write", "disable", "over",
                   "cancelled"}]
  /\ left \in [EventIds -> SUBSET Subs]
  /\ \A e \in EventIds : at[e] \notin {"new", "over", "cancelled"} => left[e] # {}
  /\ success \in [EventIds -> BOOLEAN]
  /\ count \in [Subs -> Nat] /\ readCount \in [EventIds -> Nat] /\ streak \in [Subs -> Nat]
  /\ enabled \in [Subs -> BOOLEAN]
  /\ overlapped \subseteq Subs /\ excused \subseteq Subs
  /\ {tried, withheld} \subseteq [EventIds -> SUBSET Subs] /\ matched \in [EventIds -> SUBSET Subs]

DispatchInit ==
  /\ at = [e \in EventIds |-> "new"]
  /\ left = [e \in EventIds |-> {}]
  /\ success = [e \in EventIds |-> FALSE] /\ readCount = [e \in EventIds |-> 0]
  /\ count = [s \in Subs |-> 0] /\ streak = [s \in Subs |-> 0]
  /\ enabled = [s \in Subs |-> TRUE]
  /\ overlapped = {} /\ excused = {}
  /\ tried = [e \in EventIds |-> {}] /\ withheld = [e \in EventIds |-> {}]
  /\ matched = [e \in EventIds |-> {}]

\* The subscription in delivery.
Sub(e) == CHOOSE s \in left[e] : \A t \in left[e] : s <= t

GoesTo(e, place) == at' = [at EXCEPT ![e] = place]

AfterSub(rest) == IF rest = {} THEN "over" ELSE "post"

NextSub(e) ==
  /\ left' = [left EXCEPT ![e] = @ \ {Sub(e)}]
  /\ GoesTo(e, AfterSub(left'[e]))
  /\ success' = [success EXCEPT ![e] = FALSE]
  /\ readCount' = [readCount EXCEPT ![e] = 0]

-----------------------------------------------------------------------------
(* dispatch *)

\* The enabled subscriptions, and of these the ones that listen.
ListSubs(e) ==
  /\ at[e] = "new"
  /\ LET listening == {s \in Subs : enabled[s] /\ <<e, s>> \in Listens}
     IN /\ left' = [left EXCEPT ![e] = listening]
        /\ matched' = [matched EXCEPT ![e] = listening]
        /\ GoesTo(e, IF listening = {} THEN "over" ELSE "post")
  /\ UNCHANGED <<success, readCount, rowVars, tried, withheld>>

\* The answer, an error status, a timeout or an exception.
Post(e) ==
  /\ at[e] = "post"
  /\ \E ok \in BOOLEAN : success' = [success EXCEPT ![e] = ok]
  /\ tried' = [tried EXCEPT ![e] = @ \cup {Sub(e)}]
  /\ GoesTo(e, "log")
  /\ UNCHANGED <<left, readCount, rowVars, withheld, matched>>

\* The URL is not safe any more, or the payload cannot be built: no post, no log, no count.
NotPosted(e) ==
  /\ at[e] = "post"
  /\ withheld' = [withheld EXCEPT ![e] = @ \cup {Sub(e)}]
  /\ NextSub(e)
  /\ UNCHANGED <<rowVars, tried, matched>>

LogDelivery(e) ==
  /\ at[e] = "log"
  /\ GoesTo(e, IF success[e] THEN "reset" ELSE "read")
  /\ UNCHANGED <<left, success, readCount, rowVars, tried, withheld, matched>>

\* Faulty variant of DatabaseFails: the exception ends the dispatch.
DatabaseFailsForAll(e) ==
  /\ at[e] \in {"log", "reset", "read", "write", "disable"}
  /\ GoesTo(e, "over")
  /\ excused' = excused \cup {Sub(e)}
  /\ UNCHANGED <<left, success, readCount, count, enabled, streak, overlapped, tried, withheld, matched>>

\* A transaction raises; dispatch goes on with the next subscription.
DatabaseFails(e) ==
  /\ at[e] \in {"log", "reset", "read", "write", "disable"}
  /\ NextSub(e)
  /\ excused' = excused \cup {Sub(e)}
  /\ UNCHANGED <<count, enabled, streak, overlapped, tried, withheld, matched>>

DispatchCancelled(e) ==
  /\ at[e] \notin {"new", "over", "cancelled"}
  /\ excused' = excused \cup {Sub(e)}
  /\ left' = [left EXCEPT ![e] = {}]
  /\ success' = [success EXCEPT ![e] = FALSE]
  /\ readCount' = [readCount EXCEPT ![e] = 0]
  /\ GoesTo(e, "cancelled")
  /\ UNCHANGED <<count, enabled, streak, overlapped, tried, withheld, matched>>

-----------------------------------------------------------------------------
(* The counter *)

\* Dispatches whose increment has read the count of s and not written it.
Counting(s) == {e \in EventIds : at[e] = "write" /\ Sub(e) = s}

Overlap(e) == overlapped' = IF Counting(Sub(e)) \ {e} # {} THEN overlapped \cup {Sub(e)} ELSE overlapped

\* Faulty variant of ResetCount: success is not counted.
ResetCountNot(e) ==
  /\ at[e] = "reset"
  /\ streak' = [streak EXCEPT ![Sub(e)] = 0]
  /\ NextSub(e) /\ Overlap(e)
  /\ UNCHANGED <<count, enabled, excused, tried, withheld, matched>>

\* async_reset_failure_count
ResetCount(e) ==
  /\ at[e] = "reset"
  /\ count' = [count EXCEPT ![Sub(e)] = 0]
  /\ streak' = [streak EXCEPT ![Sub(e)] = 0]
  /\ NextSub(e) /\ Overlap(e)
  /\ UNCHANGED <<enabled, excused, tried, withheld, matched>>

ReadCount(e) ==
  /\ at[e] = "read"
  /\ readCount' = [readCount EXCEPT ![e] = count[Sub(e)]]
  /\ GoesTo(e, "write")
  /\ UNCHANGED <<left, success, rowVars, tried, withheld, matched>>

\* Faulty variant of Disables: the limit is met exactly.
DisablesExactly(n) == n = MaxFailures

Disables(n) == n >= MaxFailures

WriteCount(e) ==
  /\ at[e] = "write"
  /\ count' = [count EXCEPT ![Sub(e)] = readCount[e] + 1]
  /\ streak' = [streak EXCEPT ![Sub(e)] = @ + 1]
  /\ Overlap(e)
  /\ excused' = excused \ {Sub(e)}
  /\ IF Disables(readCount[e] + 1)
     THEN GoesTo(e, "disable") /\ UNCHANGED <<left, success, readCount>>
     ELSE NextSub(e)
  /\ UNCHANGED <<enabled, tried, withheld, matched>>

Disable(e) ==
  /\ at[e] = "disable"
  /\ enabled' = [enabled EXCEPT ![Sub(e)] = FALSE]
  /\ NextSub(e)
  /\ UNCHANGED <<count, streak, overlapped, excused, tried, withheld, matched>>

\* PATCH of the subscription; the count stays.
UserSwitches(s) ==
  /\ enabled' = [enabled EXCEPT ![s] = ~@]
  /\ excused' = IF enabled[s] THEN excused ELSE excused \cup {s}
  /\ UNCHANGED <<at, left, success, readCount, count, streak, overlapped, tried, withheld, matched>>

DispatchNext ==
  \/ \E e \in EventIds : \/ ListSubs(e) \/ Post(e) \/ NotPosted(e) \/ LogDelivery(e)
                       \/ DatabaseFails(e) \/ DispatchCancelled(e)
                       \/ ResetCount(e) \/ ReadCount(e) \/ WriteCount(e) \/ Disable(e)
  \/ \E s \in Subs : UserSwitches(s)

DispatchSpec == DispatchInit /\ [][DispatchNext]_dispatchVars

-----------------------------------------------------------------------------
(* Properties *)

\* The count is the number of failures since the last success, but where one
\* transaction has counted between the read and the write of another.
CountIsConsecutive == \A s \in Subs : s \notin overlapped => count[s] = streak[s]

\* A subscription at the limit that nobody is about to disable is disabled; the
\* next failure makes up for a dispatch that was cancelled before that, and
\* for a count the user's switching on has left.
FailingIsDisabled ==
  \A s \in Subs :
    /\ count[s] >= MaxFailures /\ s \notin excused
    /\ \A e \in EventIds : at[e] = "disable" => Sub(e) # s
    => ~enabled[s]

\* A dispatch that comes to its end has posted to every listening subscription of its
\* list but those whose own URL or payload stopped it before the post: what happens to
\* one does not keep the others from the event.
EverySubTried ==
  \A e \in EventIds : at[e] = "over" => tried[e] \cup withheld[e] = matched[e]

\* Failures are counted, act on the subscription they are counted for, and on no
\* other.
FailuresAreCounted == CountIsConsecutive /\ FailingIsDisabled /\ EverySubTried
=============================================================================
