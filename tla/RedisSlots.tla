----------------------------- MODULE RedisSlots -----------------------------
(***************************************************************************)
(* The concurrency counter of RedisUserRateLimiter                          *)
(* (security/rate_limiter.py) for one user: INCR, then EXPIRE for the first *)
(* or DECR for the one too many; DECR at the end, then DELETE of an empty   *)
(* counter. Each command is an await of its own between operations of one   *)
(* or several workers; it may raise with or without its effect; and the key *)
(* expires a fixed time after EXPIRE, however long the operations take.     *)
(***************************************************************************)
EXTENDS Integers, FiniteSets

CONSTANTS
  Operations,
  Limit        \* max_concurrent

ASSUME SlotsAssumption == IsFiniteSet(Operations) /\ Limit \in Nat \ {0}

VARIABLES
  place,      \* of an operation: the command it is at, "holding" or "over"
  present,    \* the key exists
  counter,    \* its value, 0 when it does not
  timed,      \* it has a time to live
  wiped,      \* history: the key went while an operation was counted in it
  broken      \* history: a command raised

slotsVars == <<place, present, counter, timed, wiped, broken>>

Places == {"incr", "expire", "undo", "holding", "delete", "over"}
At(places) == {o \in Operations : place[o] \in places}
Counted == At({"expire", "undo", "holding"})

SlotsTypeOK ==
  /\ place \in [Operations -> Places]
  /\ {present, timed, wiped, broken} \subseteq BOOLEAN
  /\ counter \in -Cardinality(Operations)..Cardinality(Operations)
  /\ ~present => counter = 0 /\ ~timed

SlotsInit ==
  /\ place = [o \in Operations |-> "incr"]
  /\ present = FALSE /\ counter = 0 /\ timed = FALSE
  /\ wiped = FALSE /\ broken = FALSE

Goes(o, where) == place' = [place EXCEPT ![o] = where]

\* INCR and DECR create the key, without a time to live.
Add(n) == present' = TRUE /\ counter' = counter + n /\ UNCHANGED timed

KeyGone == present' = FALSE /\ counter' = 0 /\ timed' = FALSE

-----------------------------------------------------------------------------
(* acquire_concurrent_slot *)

\* Faulty variant of AfterIncr: one too many is let in.
AfterIncrOneMore(n) == IF n = 1 THEN "expire" ELSE IF n > Limit + 1 THEN "undo" ELSE "holding"

\* Faulty variant of AfterIncr: the key gets its time to live with the refusal.
AfterIncrLate(n) == IF n > Limit THEN "expire" ELSE "holding"

AfterIncr(n) == IF n = 1 THEN "expire" ELSE IF n > Limit THEN "undo" ELSE "holding"

Incr(o) ==
  /\ place[o] = "incr"
  /\ Add(1)
  /\ Goes(o, AfterIncr(counter + 1))
  /\ UNCHANGED <<wiped, broken>>

\* EXPIRE of a key that is gone does nothing.
SetExpiry(o) ==
  /\ place[o] = "expire"
  /\ timed' = present
  /\ Goes(o, "holding")
  /\ UNCHANGED <<present, counter, wiped, broken>>

\* Faulty variant of Undo: the refused operation stays counted.
UndoNothing(o) ==
  /\ place[o] = "undo"
  /\ Goes(o, "over")
  /\ UNCHANGED <<present, counter, timed, wiped, broken>>

Undo(o) ==
  /\ place[o] = "undo"
  /\ Add(-1)
  /\ Goes(o, "over")
  /\ UNCHANGED <<wiped, broken>>

-----------------------------------------------------------------------------
(* release_concurrent_slot *)

AfterDecr(n) == IF n <= 0 THEN "delete" ELSE "over"

Decr(o) ==
  /\ place[o] = "holding"
  /\ Add(-1)
  /\ Goes(o, AfterDecr(counter - 1))
  /\ UNCHANGED <<wiped, broken>>

\* A DELETE in the time in which another operation's INCR has made it one again.
Delete(o) ==
  /\ place[o] = "delete"
  /\ KeyGone
  /\ Goes(o, "over")
  /\ wiped' = (wiped \/ Counted # {})
  /\ UNCHANGED broken

-----------------------------------------------------------------------------

\* A command raises, before or after Redis has done it; nothing is undone.
CommandFails(o) ==
  /\ place[o] # "over"
  /\ broken' = TRUE
  /\ Goes(o, "over")
  /\ \/ UNCHANGED <<present, counter, timed>>
     \/ place[o] = "incr" /\ Add(1)
     \/ place[o] \in {"undo", "holding"} /\ Add(-1)
     \/ place[o] = "expire" /\ timed' = present /\ UNCHANGED <<present, counter>>
     \/ place[o] = "delete" /\ KeyGone
  /\ wiped' = (wiped \/ (place[o] = "delete" /\ Counted # {}))

KeyExpires ==
  /\ present /\ timed
  /\ KeyGone
  /\ wiped' = (wiped \/ Counted # {})
  /\ UNCHANGED <<place, broken>>

SlotsAtRest == At({"over"}) = Operations /\ UNCHANGED slotsVars

SlotsNext ==
  \/ \E o \in Operations : \/ Incr(o) \/ SetExpiry(o) \/ Undo(o)
                           \/ Decr(o) \/ Delete(o) \/ CommandFails(o)
  \/ KeyExpires \/ SlotsAtRest

SlotsSpec == SlotsInit /\ [][SlotsNext]_slotsVars

-----------------------------------------------------------------------------
(* Properties *)

\* As long as the key has never gone under a counted operation, commands that
\* raise and commands that overtake one another let in no more than Limit.
AdmissionBounded == ~wiped => Cardinality(At({"expire", "holding"})) <= Limit

\* Without either, the counter is the number of operations between their INCR and
\* their DECR: none is left counted, whatever the order of the commands.
CounterBalanced == ~wiped /\ ~broken => counter = Cardinality(Counted)

\* A key that would stay for ever, with what was leaked into it, takes a command
\* that raised or a key that went: INCR, EXPIRE and DELETE of several operations
\* do not leave one by themselves.
KeyHasExpiry == present /\ ~timed => At({"expire"}) # {} \/ wiped \/ broken

\* The slots in Redis, under commands that fail and operations that interleave.
SlotsAreSafe == AdmissionBounded /\ CounterBalanced /\ KeyHasExpiry
=============================================================================
