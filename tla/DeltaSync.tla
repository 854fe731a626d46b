----------------------------- MODULE DeltaSync -----------------------------
(***************************************************************************)
(* Offline sync of the mobile API: the delta endpoint (routers/sync.py and  *)
(* the record collector) hands each client the rows whose server_version is *)
(* above its cursor, page by page; the apply endpoint takes a client's      *)
(* change when the client has seen the row's current version; and the rest  *)
(* of the program writes the same rows, with or without a new version.      *)
(*                                                                          *)
(* A client is one device with one call at a time.  Every database read or  *)
(* write of a handler is a step.  What a row contains is abstracted to the  *)
(* number of edits made to it.                                              *)
(***************************************************************************)
EXTENDS Naturals, FiniteSets, FiniteSetsExt

CONSTANTS
  Clients,
  Requests, Summaries, Highlights,   \* the rows of three tables; a row's number
                                     \* stands for str(id) in the sort key
  Limit,       \* the resolved page limit
  MaxClock,    \* bound: milliseconds that pass
  MaxEdits     \* bound: edits of all rows together

Rows == Requests \cup Summaries \cup Highlights

ASSUME SyncAssumption ==
  /\ Rows \subseteq Nat
  /\ Requests \cap Summaries = {} /\ Requests \cap Highlights = {}
  /\ Summaries \cap Highlights = {}
  /\ IsFiniteSet(Rows)
  /\ Limit \in Nat \ {0} /\ {MaxClock, MaxEdits} \subseteq Nat

VARIABLES
  clock,   \* _next_server_version(): UTC in milliseconds
  row,     \* [v, e] of every row: server_version (0: absent) and edits made
  draft,   \* the write of the server that has its version and no commit yet
  pc,      \* where the call of each client is
  since,   \* the client's cursor
  copy,    \* [v, e] of every row as the client has it
  more,    \* has_more of the client's last page
  etag,    \* the version in the client's last ETag, 0 before the first
  maxSv,   \* max_sv of the delta call, first over one table, then over both
  seen,    \* [v, e] of the rows the delta call has collected
  item,    \* the row of the apply call
  stamp,   \* new version of the apply call, drawn before its transaction
  due,     \* history: the rows above the cursor when the delta call began
  missed   \* history: <<c, r>> where an edit of r escaped c, see NoSilentLoss

serverVars == <<clock, row, draft>>
clientVars == <<since, copy, more, etag>>
callVars == <<pc, maxSv, seen, item, stamp>>
history == <<due, missed>>
vars == <<serverVars, clientVars, callVars, history>>

Absent == [v |-> 0, e |-> 0]
Nothing == [r \in Rows |-> Absent]
NoDraft == [rows |-> {}, v |-> 0]
Versions == 0..(MaxClock + MaxEdits)
\* Writes begin below MaxEdits; those begun by then are still carried out.
Edits == 0..(MaxEdits + Cardinality(Clients) + 1)
EditsMade == {x \in Rows \X (1..MaxEdits) : x[2] <= row[x[1]].e}
MayWrite == Cardinality(EditsMade) < MaxEdits

Collecting == {"requests", "summaries", "highlights"}
MaxLeft == {"max_requests", "max_summaries"}
Calls == {"idle", "check", "stamp", "write"} \cup MaxLeft \cup Collecting

TypeOK ==
  /\ clock \in 1..MaxClock
  /\ row \in [Rows -> [v : Versions, e : Edits]]
  /\ draft \in [rows : SUBSET Rows, v : Versions]
  /\ pc \in [Clients -> Calls]
  /\ since \in [Clients -> Versions]
  /\ copy \in [Clients -> [Rows -> [v : Versions, e : Edits]]]
  /\ more \in [Clients -> BOOLEAN]
  /\ etag \in [Clients -> Versions]
  /\ maxSv \in [Clients -> Versions]
  /\ seen \in [Clients -> [Rows -> [v : Versions, e : Edits]]]
  /\ item \in [Clients -> Rows]
  /\ stamp \in [Clients -> Versions]
  /\ due \in [Clients -> SUBSET Rows]
  /\ missed \subseteq Clients \X Rows

Init ==
  /\ clock = 1
  /\ row = [r \in Rows |-> Absent]
  /\ draft = NoDraft
  /\ pc = [c \in Clients |-> "idle"]
  /\ since = [c \in Clients |-> 0]
  /\ copy = [c \in Clients |-> Nothing]
  /\ more = [c \in Clients |-> TRUE]
  /\ etag = [c \in Clients |-> 0]
  /\ maxSv = [c \in Clients |-> 0]
  /\ seen = [c \in Clients |-> Nothing]
  /\ item = [c \in Clients |-> CHOOSE r \in Rows : TRUE]
  /\ stamp = [c \in Clients |-> 0]
  /\ due = [c \in Clients |-> {}]
  /\ missed = {}

-----------------------------------------------------------------------------
(* Writes.  A version is drawn before the transaction that stores it, so     *)
(* commits need not come in the order of their versions.                     *)

Exists(r) == row[r].v > 0

\* A transaction holds the locks of the rows it has written.
Locked(r) == r \in draft.rows

\* The rows a collection in flight has already read.
AlreadyRead(c) ==
  CASE pc[c] = "summaries"  -> Requests
    [] pc[c] = "highlights" -> Requests \cup Summaries
    [] OTHER                -> {}

\* What a delta call in flight, or the cursor, is already past.
HighWater(c) ==
  IF pc[c] \in Collecting
  THEN Max({since[c]} \cup {seen[c][r].v : r \in Rows}) ELSE since[c]

\* A commit of version v to row r escapes client c.
Escapes(c, r, v) == v <= HighWater(c) \/ v <= copy[c][r].v \/ r \in AlreadyRead(c)

Missing(rs, v) == missed \cup {m \in Clients \X rs : Escapes(m[1], m[2], v)}

Tick ==
  /\ clock < MaxClock /\ clock' = clock + 1
  /\ UNCHANGED <<row, draft, clientVars, callVars, history>>

Draw(rs, v) ==
  /\ draft = NoDraft /\ MayWrite
  /\ draft' = [rows |-> rs, v |-> v]
  /\ UNCHANGED <<clock, row, clientVars, callVars, history>>

\* A bookmark import stamps the request and the summary with one version.
ImportBookmark(q, s) ==
  /\ ~Exists(q) /\ ~Exists(s)
  /\ Draw({q, s}, clock)

\* An INSERT: server_version defaults to the time of the statement.  A summary
\* belongs to a request, a highlight to a summary.
InsertRow(r) ==
  /\ ~Exists(r)
  /\ r \in Summaries => \E q \in Requests : Exists(q)
  /\ r \in Highlights => \E s \in Summaries : Exists(s)
  /\ Draw({r}, clock)

\* The before_update hook of the ORM (toggling a favourite): above the old one.
OrmUpdate(r) ==
  /\ Exists(r)
  /\ Draw({r}, Max({clock, row[r].v + 1}))

RollBackDraft ==
  /\ draft # NoDraft /\ draft' = NoDraft
  /\ UNCHANGED <<clock, row, clientVars, callVars, history>>

CommitDraft ==
  /\ draft # NoDraft
  /\ row' = [r \in Rows |-> IF r \in draft.rows THEN [v |-> draft.v, e |-> row[r].e + 1]
                                                 ELSE row[r]]
  /\ missed' = Missing(draft.rows, draft.v)
  /\ draft' = NoDraft
  /\ UNCHANGED <<clock, clientVars, callVars, due>>

\* UPDATE statements outside the ORM's unit of work leave server_version alone:
\* request statuses, the upsert of a summary, read marks, tags, highlights.
CoreUpdate(r) ==
  /\ MayWrite /\ Exists(r) /\ ~Locked(r)
  /\ row' = [row EXCEPT ![r].e = @ + 1]
  /\ missed' = Missing({r}, row[r].v)
  /\ UNCHANGED <<clock, draft, clientVars, callVars, due>>

-----------------------------------------------------------------------------
(* GET /sync/delta *)

Goto(c, place) == pc' = [pc EXCEPT ![c] = place]
MaxVersion(rs) == Max({0} \cup {row[r].v : r \in rs})

\* get_max_server_version: one query per table, all at once, so in any order;
\* highlights and tags have none.
ReadMaxFirst(c) ==
  /\ pc[c] = "idle"
  /\ \/ maxSv' = [maxSv EXCEPT ![c] = MaxVersion(Requests)] /\ Goto(c, "max_summaries")
     \/ maxSv' = [maxSv EXCEPT ![c] = MaxVersion(Summaries)] /\ Goto(c, "max_requests")
  /\ due' = [due EXCEPT ![c] = {r \in Rows : row[r].v > since[c]}]
  /\ UNCHANGED <<serverVars, clientVars, seen, item, stamp, missed>>

\* max_sv once the second query has answered.
BothMax(c) ==
  Max({maxSv[c], IF pc[c] = "max_requests" THEN MaxVersion(Requests) ELSE MaxVersion(Summaries)})

\* Faulty variant of Matches: an older tag matches as well.
MatchesOlder(c) == ~more[c] /\ etag[c] # 0 /\ etag[c] <= BothMax(c)

\* A client that has paged to the end sends its ETag back.
Matches(c) == ~more[c] /\ etag[c] # 0 /\ etag[c] = BothMax(c)

\* The answer ends the call, and with it what the handler knew.
Answer(c) ==
  /\ Goto(c, "idle")
  /\ maxSv' = [maxSv EXCEPT ![c] = 0]
  /\ due' = [due EXCEPT ![c] = {}]

NotModified(c) ==
  /\ pc[c] \in MaxLeft /\ Matches(c)
  /\ Answer(c)
  /\ UNCHANGED <<serverVars, clientVars, seen, item, stamp, missed>>

Modified(c) ==
  /\ pc[c] \in MaxLeft /\ ~Matches(c)
  /\ maxSv' = [maxSv EXCEPT ![c] = BothMax(c)]
  /\ Goto(c, "requests")
  /\ UNCHANGED <<serverVars, clientVars, seen, item, stamp, history>>

\* The records of one table more; those of the last are paginated at once.
Collected(c, rs) == [r \in Rows |-> IF r \in rs THEN row[r] ELSE seen[c][r]]

Collect(c, rs, next) ==
  /\ seen' = [seen EXCEPT ![c] = Collected(c, rs)]
  /\ Goto(c, next)
  /\ UNCHANGED <<serverVars, clientVars, maxSv, item, stamp, history>>

CollectRecords(c) ==
  \/ pc[c] = "requests" /\ Collect(c, Requests, "summaries")
  \/ pc[c] = "summaries" /\ Collect(c, Summaries, "highlights")

\* Faulty variant of Before: the records are not sorted by version.
BeforeById(s, q, r) == q < r

\* The sort key (server_version, str(id)).
Before(s, q, r) == s[q].v < s[r].v \/ (s[q].v = s[r].v /\ q < r)

\* Faulty variant of Filtered: the cursor's own version is sent again.
FilteredInclusive(s, cursor) == {r \in Rows : s[r].v > 0 /\ s[r].v >= cursor}

Filtered(s, cursor) == {r \in Rows : s[r].v > cursor}

Page(s, cursor) ==
  LET F == Filtered(s, cursor) IN
  {r \in F : Cardinality({q \in F : Before(s, q, r)}) < Limit}

\* Faulty variant of HasMore: every page is taken for the last one.
HasMoreNever(s, cursor) == FALSE

NextSince(s, cursor) == Max({cursor} \cup {s[r].v : r \in Page(s, cursor)})
HasMore(s, cursor) == Cardinality(Filtered(s, cursor)) > Limit

\* paginate_records and the response; the client stores what it is sent.
PaginateRecords(c) ==
  LET s == Collected(c, Highlights)
      page == Page(s, since[c])
      next == NextSince(s, since[c])
      cut == {r \in Filtered(s, since[c]) \ page : \E q \in page : s[q].v = s[r].v}
  IN /\ pc[c] = "highlights"
     /\ copy' = [copy EXCEPT ![c] = [r \in Rows |-> IF r \in page THEN s[r] ELSE @[r]]]
     /\ since' = [since EXCEPT ![c] = next]
     /\ more' = [more EXCEPT ![c] = HasMore(s, since[c])]
     /\ etag' = [etag EXCEPT ![c] = maxSv[c]]
     /\ missed' = (missed \ {<<c, r>> : r \in {x \in page : s[x] = row[x]}})
                    \cup {<<c, r>> : r \in {x \in cut : s[x].v <= next}}
     /\ Answer(c)
     /\ seen' = [seen EXCEPT ![c] = Nothing]
     /\ UNCHANGED <<serverVars, item, stamp>>

-----------------------------------------------------------------------------
(* POST /sync/apply, one change of a summary *)

\* A client changes a summary it has; last_seen_version is its copy's version.
SendChange(c, r) ==
  /\ pc[c] = "idle" /\ copy[c][r].v > 0 /\ MayWrite
  /\ item' = [item EXCEPT ![c] = r]
  /\ Goto(c, "check")
  /\ UNCHANGED <<serverVars, clientVars, maxSv, seen, stamp, history>>

\* Faulty variant of Conflict: one version behind is taken for current.
ConflictOffByOne(c) == copy[c][item[c]].v + 1 < row[item[c]].v

Conflict(c) == copy[c][item[c]].v < row[item[c]].v

\* The conflict answer carries the server's row, which the client takes over.
RefuseChange(c) ==
  /\ pc[c] = "check" /\ Conflict(c)
  /\ copy' = [copy EXCEPT ![c][item[c]] = row[item[c]]]
  /\ missed' = missed \ {<<c, item[c]>>}
  /\ Goto(c, "idle")
  /\ UNCHANGED <<serverVars, since, more, etag, maxSv, seen, item, stamp, due>>

AcceptChange(c) ==
  /\ pc[c] = "check" /\ ~Conflict(c)
  /\ Goto(c, "stamp")
  /\ UNCHANGED <<serverVars, clientVars, maxSv, seen, item, stamp, history>>

\* Faulty variant of DrawStamp: microseconds.
DrawStampMicros(c) ==
  /\ pc[c] = "stamp"
  /\ stamp' = [stamp EXCEPT ![c] = 1000 * clock]
  /\ Goto(c, "write")
  /\ UNCHANGED <<serverVars, clientVars, maxSv, seen, item, history>>

\* async_apply_sync_change draws the version, then opens its transaction.
DrawStamp(c) ==
  /\ pc[c] = "stamp"
  /\ stamp' = [stamp EXCEPT ![c] = clock]
  /\ Goto(c, "write")
  /\ UNCHANGED <<serverVars, clientVars, maxSv, seen, item, history>>

\* The answer carries the new version only: a client that did not know the
\* row's last edit still does not.
ApplyChange(c) ==
  LET r == item[c]
      upToDate == copy[c][r].e = row[r].e
  IN /\ pc[c] = "write" /\ ~Locked(r)
     /\ row' = [row EXCEPT ![r] = [v |-> stamp[c], e |-> @.e + 1]]
     /\ copy' = [copy EXCEPT ![c][r] = [v |-> stamp[c], e |-> IF upToDate THEN @.e + 1 ELSE @.e]]
     /\ missed' = Missing({r}, stamp[c]) \cup (IF upToDate THEN {} ELSE {<<c, r>>})
     /\ Goto(c, "idle")
     /\ stamp' = [stamp EXCEPT ![c] = 0]
     /\ UNCHANGED <<clock, draft, since, more, etag, maxSv, seen, item, due>>

-----------------------------------------------------------------------------

ServerWrite ==
  \/ \E q \in Requests, s \in Summaries : ImportBookmark(q, s)
  \/ \E r \in Rows : InsertRow(r) \/ OrmUpdate(r) \/ CoreUpdate(r)
  \/ CommitDraft \/ RollBackDraft

Delta(c) ==
  \/ ReadMaxFirst(c) \/ NotModified(c) \/ Modified(c)
  \/ CollectRecords(c) \/ PaginateRecords(c)

Apply(c) == RefuseChange(c) \/ AcceptChange(c) \/ DrawStamp(c) \/ ApplyChange(c)

Next ==
  \/ Tick \/ ServerWrite
  \/ \E c \in Clients : Delta(c) \/ Apply(c) \/ \E r \in Summaries : SendChange(c, r)

Spec == Init /\ [][Next]_vars

-----------------------------------------------------------------------------
(* Properties *)

\* Delta sync loses an edit in four ways only, each recorded in `missed': it was
\* committed with a version the cursor, or the copy, is already past, or into a table that a
\* collection in flight had read; it tied with the last row of a full page; or
\* the client's own change was accepted before it and written after it.
NoSilentLoss ==
  \A c \in Clients, r \in Rows :
    row[r].v <= since[c] /\ <<c, r>> \notin missed => copy[c][r].e = row[r].e

\* The last page is the last: after has_more = false nothing that the call saw
\* is left above the new cursor.
LastPageIsLast ==
  [][\A c \in Clients :
       pc[c] = "highlights" /\ pc'[c] = "idle" /\ ~more'[c]
         => \A r \in Rows : Collected(c, Highlights)[r].v <= since'[c]]_vars

\* A 304 hides no request and no summary that was above the client's cursor when the call
\* began, although the maxima of the tables are not one snapshot; but for an edit that has
\* escaped the client, its row's version set back, and unless the tag is above the cursor:
\* its row's version was then set back between the maxima and the collection, and any row
\* may come to have the version of the tag.
NotModifiedIsSound ==
  [][\A c \in Clients :
       pc[c] \in MaxLeft /\ pc'[c] = "idle" /\ etag[c] <= since[c]
         => \A r \in due[c] \ Highlights : <<c, r>> \in missed]_vars

\* A change based on an outdated row is refused, unless the edit it does not
\* know of has escaped the client.
StaleChangeRefused ==
  [][\A c \in Clients :
       pc[c] = "check" /\ pc'[c] = "stamp"
         => copy[c][item[c]].e = row[item[c]].e \/ <<c, item[c]>> \in missed]_vars

\* What an answer says besides its records: that nothing is new, that this is all,
\* that a change was based on the current row.
AnswersAreSound == LastPageIsLast /\ NotModifiedIsSound /\ StaleChangeRefused

\* A page that is not the last moves the cursor, also when writes and changes of
\* the client's own came between its pages: following has_more cannot circle.
PagesAdvance ==
  [][\A c \in Clients :
       pc[c] = "highlights" /\ pc'[c] = "idle" /\ more'[c] => since'[c] > since[c]]_vars

\* "Other clients calling /v1/sync/delta since their last cursor will observe
\* the row as updated": an applied change, even one whose version is above the
\* row's last, is above every other client's cursor.
AppliedIsVisible ==
  [][\A c \in Clients :
       pc[c] = "write" /\ pc'[c] = "idle" /\ row[item[c]].v < row'[item[c]].v
         => \A d \in Clients \ {c} : since[d] < row'[item[c]].v]_vars
=============================================================================
