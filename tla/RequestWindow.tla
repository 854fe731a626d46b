--------------------------- MODULE RequestWindow ---------------------------
(***************************************************************************)
(* UserRateLimiter (security/rate_limiter.py), the limiter in memory, for   *)
(* one user: messages are checked against a sliding window of requests and  *)
(* a cooldown, then take one of a few slots and give it back; the bot's     *)
(* maintenance loop cleans up. Every method runs under the lock without an  *)
(* await and is one step. Time is counted in units of the clock.            *)
(***************************************************************************)
EXTENDS Naturals, Sequences, FiniteSets

CONSTANTS
  Messages,
  MaxRequests,      \* max_requests
  WindowLength,     \* window_seconds
  CooldownLength,   \* window_seconds * cooldown_multiplier
  MaxConcurrent,    \* max_concurrent
  NoticeWindow,     \* _rate_limit_notice_window
  LastTime          \* bound: the clock stops here

ASSUME WindowAssumption ==
  /\ IsFiniteSet(Messages)
  /\ {MaxRequests, WindowLength, MaxConcurrent, NoticeWindow} \subseteq Nat \ {0}
  /\ {CooldownLength, LastTime} \subseteq Nat

VARIABLES
  now,
  requests,       \* _user_requests[user]: the times of the granted requests, oldest first
  cooldown,       \* _user_cooldowns[user], or 0 when there is none
  slots,          \* _user_concurrent[user]
  route,          \* of a message: "new", "granted", "holding" a slot, "over"
  noticedUntil,   \* _rate_limit_notified_until[user]
  granted,        \* history: the times of all granted requests
  refusedAt,      \* history: the times at which the load was too high
  notices         \* history: the times at which the user was told

windowVars == <<now, requests, cooldown, slots, route, noticedUntil, granted, refusedAt, notices>>

Times == 0..LastTime

WindowTypeOK ==
  /\ now \in Times
  /\ requests \in Seq(Times) /\ Len(requests) <= MaxRequests
  /\ cooldown \in 0..LastTime + CooldownLength
  /\ slots \in 0..MaxConcurrent
  /\ route \in [Messages -> {"new", "granted", "holding", "over"}]
  /\ noticedUntil \in 0..LastTime + NoticeWindow
  /\ granted \in Seq(Times) /\ refusedAt \subseteq Times /\ notices \subseteq Times

WindowInit ==
  /\ now = 0 /\ cooldown = 0 /\ slots = 0 /\ noticedUntil = 0
  /\ requests = <<>> /\ granted = <<>>
  /\ route = [m \in Messages |-> "new"]
  /\ refusedAt = {} /\ notices = {}

\* Faulty variant of InWindow: a request that is exactly one window old is dropped.
InWindowStrict(t) == t + WindowLength > now

\* Not (t < now - window_seconds).
InWindow(t) == t + WindowLength >= now

\* The requests the loop over the oldest ones takes away: up to the first in the window.
Popped == CHOOSE n \in 0..Len(requests) :
  /\ \A i \in 1..n : ~InWindow(requests[i])
  /\ n < Len(requests) => InWindow(requests[n + 1])

Pruned == SubSeq(requests, Popped + 1, Len(requests))

Routed(m, place) == route' = [route EXCEPT ![m] = place]

\* handle_rate_limit_rejection: the user is told once per NoticeWindow.
Rejected ==
  IF now >= noticedUntil
  THEN noticedUntil' = now + NoticeWindow /\ notices' = notices \cup {now}
  ELSE UNCHANGED <<noticedUntil, notices>>

-----------------------------------------------------------------------------
(* check_and_record, with a cost of one *)

CheckInCooldown(m) ==
  /\ route[m] = "new" /\ now < cooldown
  /\ Routed(m, "over") /\ Rejected
  /\ UNCHANGED <<now, requests, cooldown, slots, granted, refusedAt>>

CheckOverLoad(m) ==
  /\ route[m] = "new" /\ now >= cooldown
  /\ Len(Pruned) + 1 > MaxRequests
  /\ requests' = Pruned
  /\ cooldown' = now + CooldownLength
  /\ refusedAt' = refusedAt \cup {now}
  /\ Routed(m, "over") /\ Rejected
  /\ UNCHANGED <<now, slots, granted>>

CheckTooManyAtOnce(m) ==
  /\ route[m] = "new" /\ now >= cooldown
  /\ Len(Pruned) + 1 <= MaxRequests /\ slots >= MaxConcurrent
  /\ requests' = Pruned /\ cooldown' = 0
  /\ Routed(m, "over") /\ Rejected
  /\ UNCHANGED <<now, slots, granted, refusedAt>>

CheckGranted(m) ==
  /\ route[m] = "new" /\ now >= cooldown
  /\ Len(Pruned) + 1 <= MaxRequests /\ slots < MaxConcurrent
  /\ requests' = Append(Pruned, now) /\ cooldown' = 0
  /\ granted' = Append(granted, now)
  /\ Routed(m, "granted")
  /\ UNCHANGED <<now, slots, noticedUntil, refusedAt, notices>>

-----------------------------------------------------------------------------
(* The slots *)

SlotTaken(m) ==
  /\ slots' = slots + 1
  /\ Routed(m, "holding")
  /\ UNCHANGED <<now, requests, cooldown, noticedUntil, granted, refusedAt, notices>>

\* Faulty variant of Acquire: the check before is relied on.
AcquireUnchecked(m) == route[m] = "granted" /\ SlotTaken(m)

Acquire(m) == route[m] = "granted" /\ slots < MaxConcurrent /\ SlotTaken(m)

AcquireRefused(m) ==
  /\ route[m] = "granted" /\ slots >= MaxConcurrent
  /\ Routed(m, "over")
  /\ UNCHANGED <<now, requests, cooldown, slots, noticedUntil, granted, refusedAt, notices>>

\* Faulty variant of Release: the user's entry is deleted.
ReleaseAll(m) ==
  /\ route[m] = "holding"
  /\ slots' = 0
  /\ Routed(m, "over")
  /\ UNCHANGED <<now, requests, cooldown, noticedUntil, granted, refusedAt, notices>>

\* In a finally: however the message's work ends.
Release(m) ==
  /\ route[m] = "holding"
  /\ slots' = IF slots = 0 THEN 0 ELSE slots - 1
  /\ Routed(m, "over")
  /\ UNCHANGED <<now, requests, cooldown, noticedUntil, granted, refusedAt, notices>>

-----------------------------------------------------------------------------
(* Maintenance *)

\* Faulty variant of AfterCleanup: the deadline is not looked at.
AfterCleanupAll(deadline) == 0

\* A deadline is kept until it has passed.
AfterCleanup(deadline) == IF now >= deadline THEN 0 ELSE deadline

\* cleanup_expired, and the coordinator's cleanup around it.
CleanupExpired ==
  /\ requests' = Pruned
  /\ cooldown' = AfterCleanup(cooldown)
  /\ noticedUntil' = AfterCleanup(noticedUntil)
  /\ UNCHANGED <<now, slots, route, granted, refusedAt, notices>>

ClockTick ==
  /\ now < LastTime /\ now' = now + 1
  /\ UNCHANGED <<requests, cooldown, slots, route, noticedUntil, granted, refusedAt, notices>>

WindowNext ==
  \/ \E m \in Messages : \/ CheckInCooldown(m) \/ CheckOverLoad(m)
                         \/ CheckTooManyAtOnce(m) \/ CheckGranted(m)
                         \/ Acquire(m) \/ AcquireRefused(m) \/ Release(m)
  \/ CleanupExpired \/ ClockTick

WindowSpec == WindowInit /\ [][WindowNext]_windowVars

-----------------------------------------------------------------------------
(* Properties *)

\* However checks, refusals and cleanups are spread, no stretch of time as long as
\* the window, both ends included, has more than MaxRequests granted requests.
WindowHolds ==
  \A i \in DOMAIN granted :
    i + MaxRequests <= Len(granted) => granted[i + MaxRequests] > granted[i] + WindowLength

\* Nothing is granted from a refusal for the load until its cooldown is over, and
\* the user is not told twice within one notice window; maintenance shortens
\* neither.
DeadlinesKept ==
  /\ \A i \in DOMAIN granted, t \in refusedAt : granted[i] \notin t + 1..t + CooldownLength - 1
  /\ \A s, t \in notices : s < t => t >= s + NoticeWindow

\* The counter is the number of messages at work, so that every message's end
\* frees what it took and no more.
SlotsAreHeld == slots = Cardinality({m \in Messages : route[m] = "holding"})

\* The limiter of one process, under checks, refusals, slots and maintenance.
WindowIsSafe == WindowHolds /\ DeadlinesKept /\ SlotsAreHeld
=============================================================================
