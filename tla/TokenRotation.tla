--------------------------- MODULE TokenRotation ---------------------------
(***************************************************************************)
(* POST /auth/refresh (api/routers/auth/endpoints_sessions.py) over the     *)
(* refresh-token rows of one login, the cache in front of them              *)
(* (auth_token_cache.py) and token_family_policy.py. A client presents the  *)
(* token it holds and gets its successor; it may lose an answer and ask     *)
(* again, also while the first request is still at work. Its user may end   *)
(* the login from another session. A cache entry holds no family id, so     *)
(* that of an entry only its presence matters.                              *)
(***************************************************************************)
EXTENDS Naturals, FiniteSets

CONSTANT
  Refreshes    \* the client's requests, numbered in their order

ASSUME RotationAssumption == Refreshes \subseteq Nat \ {0} /\ IsFiniteSet(Refreshes)

VARIABLES
  tokenRow,     \* of each token, the row: "none", "live" or "revoked"
  cachedTokens, \* tokens with an entry in the cache
  held,         \* the client's token, NoToken when it is signed out
  refresh,      \* where a request is
  presented,    \* its token
  issued,       \* the token it has created, or NoToken
  disturbed,    \* history: an answer was lost, a rotation broke off, or requests overlapped
  endedTokens,  \* history: live tokens that the user revoked from a list of sessions or with all
  doubled       \* history: two requests decided to rotate one token

rotationVars == <<tokenRow, cachedTokens, held, refresh, presented, issued, disturbed, endedTokens, doubled>>

\* Token 1 is the login's, token r + 1 the one that request r creates.
NoToken == 0
Tokens == {1} \cup {r + 1 : r \in Refreshes}

RotationTypeOK ==
  /\ tokenRow \in [Tokens -> {"none", "live", "revoked"}]
  /\ \A t \in cachedTokens : t \in Tokens /\ tokenRow[t] # "none"
  /\ held \in Tokens \cup {NoToken}
  /\ refresh \in [Refreshes -> {"new", "lookup", "decide", "retire", "create", "revoke",
                                "answer", "over", "rejected"}]
  /\ presented \in [Refreshes -> Tokens \cup {NoToken}]
  /\ issued \in [Refreshes -> Tokens \cup {NoToken}]
  /\ endedTokens \subseteq Tokens
  /\ {disturbed, doubled} \subseteq BOOLEAN

\* After a login; its token may have been cached.
RotationInit ==
  /\ tokenRow = [t \in Tokens |-> IF t = 1 THEN "live" ELSE "none"]
  /\ cachedTokens = {1} /\ held = 1
  /\ refresh = [r \in Refreshes |-> "new"]
  /\ presented = [r \in Refreshes |-> NoToken] /\ issued = [r \in Refreshes |-> NoToken]
  /\ disturbed = FALSE /\ endedTokens = {} /\ doubled = FALSE

RefreshGoes(r, where) == refresh' = [refresh EXCEPT ![r] = where]

UnderWay == {r \in Refreshes : refresh[r] \notin {"new", "over", "rejected"}}

-----------------------------------------------------------------------------
(* The client *)

\* When it has given up on an earlier request, this one overlaps it.
Present(r) ==
  /\ refresh[r] = "new" /\ held # NoToken
  /\ \A s \in Refreshes : s < r => refresh[s] # "new"
  /\ RefreshGoes(r, "lookup")
  /\ presented' = [presented EXCEPT ![r] = held]
  /\ disturbed' = (disturbed \/ UnderWay # {})
  /\ UNCHANGED <<tokenRow, cachedTokens, held, issued, endedTokens, doubled>>

\* Faulty variant of Answered: the new cookie is not set.
AnsweredWithout(r) ==
  /\ refresh[r] = "answer"
  /\ RefreshGoes(r, "over")
  /\ UNCHANGED <<tokenRow, cachedTokens, held, presented, issued, disturbed, endedTokens, doubled>>

Answered(r) ==
  /\ refresh[r] = "answer"
  /\ held' = issued[r]
  /\ RefreshGoes(r, "over")
  /\ UNCHANGED <<tokenRow, cachedTokens, presented, issued, disturbed, endedTokens, doubled>>

AnswerLost(r) ==
  /\ refresh[r] = "answer"
  /\ disturbed' = TRUE
  /\ RefreshGoes(r, "over")
  /\ UNCHANGED <<tokenRow, cachedTokens, held, presented, issued, endedTokens, doubled>>

\* logout: the row of the client's token is revoked, whatever is under way.
SignOut ==
  /\ held # NoToken
  /\ held' = NoToken
  /\ tokenRow' = [tokenRow EXCEPT ![held] = "revoked"]
  /\ disturbed' = (disturbed \/ UnderWay # {})
  /\ UNCHANGED <<cachedTokens, refresh, presented, issued, endedTokens, doubled>>

AllRevoked == [t \in Tokens |-> IF tokenRow[t] = "live" THEN "revoked" ELSE tokenRow[t]]

Live == {t \in Tokens : tokenRow[t] = "live"}

\* DELETE /sessions/{id}: the row of a listed session is revoked, the client's own as well.
RevokeSession(t) ==
  /\ tokenRow[t] = "live"
  /\ tokenRow' = [tokenRow EXCEPT ![t] = "revoked"]
  /\ endedTokens' = endedTokens \cup {t}
  /\ UNCHANGED <<cachedTokens, held, refresh, presented, issued, disturbed, doubled>>

\* logout-all, of another session or of the client, whose cookie it clears. It has listed
\* the login's family earlier, when a token was live.
LogoutAll ==
  /\ tokenRow' = AllRevoked
  /\ endedTokens' = endedTokens \cup Live
  /\ held' \in {held, NoToken}
  /\ disturbed' = (disturbed \/ (held' # held /\ UnderWay # {}))
  /\ UNCHANGED <<cachedTokens, refresh, presented, issued, doubled>>

-----------------------------------------------------------------------------
(* refresh_access_token *)

\* A 401 that clears the cookie.
Rejects(r) == RefreshGoes(r, "rejected") /\ held' = NoToken

\* async_get_refresh_token_by_hash finds an entry, which has no family_id.
LookupHit(r) ==
  /\ refresh[r] = "lookup" /\ presented[r] \in cachedTokens
  /\ Rejects(r)
  /\ UNCHANGED <<tokenRow, cachedTokens, presented, issued, disturbed, endedTokens, doubled>>

\* It finds none, or the cache cannot be read; the row may be put into it.
LookupMiss(r) ==
  /\ refresh[r] = "lookup"
  /\ RefreshGoes(r, "decide")
  /\ cachedTokens' \in {cachedTokens, cachedTokens \cup {presented[r]}}
  /\ UNCHANGED <<tokenRow, held, presented, issued, disturbed, endedTokens, doubled>>

Rotating(t) == {r \in Refreshes : refresh[r] = "retire" /\ presented[r] = t}

\* The family's rows are read, and TokenFamilyPolicy.decide.
Decide(r) ==
  /\ refresh[r] = "decide"
  /\ IF tokenRow[presented[r]] = "revoked"
     THEN RefreshGoes(r, "revoke") /\ UNCHANGED doubled
     ELSE /\ RefreshGoes(r, "retire")
          /\ doubled' = (doubled \/ Rotating(presented[r]) # {})
  /\ UNCHANGED <<tokenRow, cachedTokens, held, presented, issued, disturbed, endedTokens>>

\* Faulty variant of Retire: the old token stays.
RetireNot(r) ==
  /\ refresh[r] = "retire"
  /\ RefreshGoes(r, "create")
  /\ UNCHANGED <<tokenRow, cachedTokens, held, presented, issued, disturbed, endedTokens, doubled>>

Retire(r) ==
  /\ refresh[r] = "retire"
  /\ tokenRow' = [tokenRow EXCEPT ![presented[r]] = "revoked"]
  /\ RefreshGoes(r, "create")
  /\ UNCHANGED <<cachedTokens, held, presented, issued, disturbed, endedTokens, doubled>>

\* create_refresh_token; its entry may fail to reach the cache.
Create(r) ==
  /\ refresh[r] = "create"
  /\ tokenRow' = [tokenRow EXCEPT ![r + 1] = "live"]
  /\ issued' = [issued EXCEPT ![r] = r + 1]
  /\ cachedTokens' \in {cachedTokens, cachedTokens \cup {r + 1}}
  /\ RefreshGoes(r, "answer")
  /\ UNCHANGED <<held, presented, disturbed, endedTokens, doubled>>

RevokeFamily(r) ==
  /\ refresh[r] = "revoke"
  /\ tokenRow' = AllRevoked
  /\ Rejects(r)
  /\ UNCHANGED <<cachedTokens, presented, issued, disturbed, endedTokens, doubled>>

\* A query raises, with or without its effect: the client keeps its token.
RefreshFails(r) ==
  /\ refresh[r] \in {"lookup", "decide", "retire", "create", "revoke"}
  /\ RefreshGoes(r, "over")
  /\ \/ UNCHANGED tokenRow
     \/ refresh[r] = "retire" /\ tokenRow' = [tokenRow EXCEPT ![presented[r]] = "revoked"]
     \/ refresh[r] = "create" /\ tokenRow' = [tokenRow EXCEPT ![r + 1] = "live"]
     \/ refresh[r] = "revoke" /\ tokenRow' = AllRevoked
  /\ disturbed' = (disturbed \/ refresh[r] \in {"retire", "create"})
  /\ UNCHANGED <<cachedTokens, held, presented, issued, endedTokens, doubled>>

\* The entry's time to live, seven days by default, ends before the token's.
EntryExpires(t) ==
  /\ t \in cachedTokens
  /\ cachedTokens' = cachedTokens \ {t}
  /\ UNCHANGED <<tokenRow, held, refresh, presented, issued, disturbed, endedTokens, doubled>>

RotationAtRest ==
  /\ UnderWay = {}
  /\ held = NoToken \/ \A r \in Refreshes : refresh[r] # "new"
  /\ UNCHANGED rotationVars

RotationNext ==
  \/ \E r \in Refreshes : \/ Present(r) \/ Answered(r) \/ AnswerLost(r)
                          \/ LookupHit(r) \/ LookupMiss(r) \/ Decide(r)
                          \/ Retire(r) \/ Create(r) \/ RevokeFamily(r) \/ RefreshFails(r)
  \/ \E t \in Tokens : EntryExpires(t) \/ RevokeSession(t)
  \/ SignOut \/ LogoutAll \/ RotationAtRest

RotationSpec == RotationInit /\ [][RotationNext]_rotationVars

-----------------------------------------------------------------------------
(* Properties *)

\* A login has one token that is valid, however often it is refreshed, retried or
\* broken off, unless two requests read the rows before either retired its token.
OneTokenLives == ~doubled => Cardinality(Live) <= 1

\* A client that gets its answers and asks once at a time is taken for one that replays an
\* old token, and its family revoked, only with a token that its user has revoked elsewhere.
SteadyClientKept ==
  ~disturbed => \A r \in Refreshes : refresh[r] = "revoke" => presented[r] \in endedTokens

\* A login keeps one token, and keeps it.
FamilyIsSafe == OneTokenLives /\ SteadyClientKept

\* Such a client's newest token is accepted while the user ends nothing: the family is to
\* be read from the database, as "the cached get_refresh_token_by_hash may omit family_id"
\* (endpoints_sessions.py).
NewestIsAccepted ==
  ~disturbed /\ endedTokens = {} => \A r \in Refreshes : refresh[r] # "rejected"
=============================================================================
