---------------------------- MODULE GithubStars ----------------------------
(***************************************************************************)
(* The daily sync of one user's GitHub stars (tasks/github_sync.py) with    *)
(* the integration row (manage_github_integration.py). A sync lists the     *)
(* stars not older than the last one, newest first, writes the rows in      *)
(* batches, takes the star from every row it has not seen, stamps the       *)
(* integration with the time, and analyses what needs it within a budget.   *)
(* It may fail anywhere. Time is kept as the stars not older than the       *)
(* integration's last_synced_at. The user ingests, analyses again and       *)
(* deletes repositories by hand meanwhile (platform_extractor.py,           *)
(* routers/github/repositories.py), one call to a repository at a time.     *)
(***************************************************************************)
EXTENDS Naturals, FiniteSets

CONSTANTS
  Repos,
  Ingested,     \* those the user also ingests, analyses or deletes by hand
  BatchSize,    \* sync_batch_size
  Budget        \* llm_daily_budget: of a run

ASSUME StarsAssumption ==
  IsFiniteSet(Repos) /\ Ingested \subseteq Repos /\ BatchSize \in Nat \ {0} /\ Budget \in Nat

VARIABLES
  starred,      \* GitHub: the user's stars
  recent,       \* those with starred_at >= last_synced_at, all before the first sync
  link,         \* the integration: "absent", "active" or "needs_reauth"
  row,          \* of a repository: "none", "starred" or "unstarred" (is_starred)
  analysis,     \* of its row's content: "never", "current" or "stale"
  pending,      \* rows with pending_analysis
  call,         \* of a repository: the user's call, before ("begun") and in its analysis
  sync,         \* where the sync is
  listing,      \* of the first page, what has not been taken yet
  seen,         \* seen_github_ids
  pendingBatch, \* pending_batch
  queued,       \* of a repository: its place in repos_to_analyze ("due"), its analysis
  made,         \* llm_calls_made
  replaced,     \* the integration row was deleted during the sync
  late,         \* history: stars that became old without having been listed
  removed,      \* history: rows the user deleted and nothing has made again
  byHand,       \* history: rows an ingestion has made
  unlucky       \* history: rows with no analysis carried through since one failed, was
                \* cut off, or crossed a write of the content

githubVars == <<starred, recent, late>>
markVars == <<pending, unlucky>>
recordVars == <<row, removed, byHand>>
runVars == <<sync, listing, seen, pendingBatch, queued, made, replaced>>
repoVars == <<recordVars, analysis, markVars, call>>
starsVars == <<githubVars, repoVars, runVars, link>>

\* Of an item of a batch: what it is of, whether there is an update to send (of content, or
\* of the flag to a row that has gone), and what the row's analysis is to its content.
Item == [repo : Repos, of : {"new", "row", "gone"}, drift : BOOLEAN,
         analysis : {"never", "current", "stale"}, needs : BOOLEAN]

ToLoad == {"due", "begun"}
Loaded == {"fresh", "outdated"}

StarsTypeOK ==
  /\ recent \subseteq starred /\ starred \subseteq Repos
  /\ link \in {"absent", "active", "needs_reauth"}
  /\ row \in [Repos -> {"none", "starred", "unstarred"}]
  /\ analysis \in [Repos -> {"never", "current", "stale"}]
  /\ call \in [Repos -> {"no", "begun", "fresh", "outdated", "gone"}]
  /\ \A r \in pending \cup unlucky \cup byHand : row[r] # "none"
  /\ \A r \in removed : row[r] = "none"
  /\ sync \in {"idle", "list", "stamp", "analyze"}
  /\ listing \subseteq Repos /\ seen \subseteq Repos \ listing
  /\ pendingBatch \subseteq Item /\ Cardinality(pendingBatch) <= BatchSize
  /\ \A x, y \in pendingBatch : x.repo = y.repo => x = y
  /\ queued \in [Repos -> {"no", "due", "fresh", "outdated", "gone", "lost"}]
  /\ made \in 0..Budget
  /\ replaced \in BOOLEAN
  /\ late \subseteq Repos

StarsInit ==
  /\ starred = {} /\ recent = {} /\ late = {}
  /\ link = "active"
  /\ row = [r \in Repos |-> "none"] /\ analysis = [r \in Repos |-> "never"]
  /\ pending = {} /\ unlucky = {} /\ removed = {} /\ byHand = {}
  /\ call = [r \in Repos |-> "no"]
  /\ sync = "idle" /\ listing = {} /\ seen = {} /\ pendingBatch = {}
  /\ queued = [r \in Repos |-> "no"]
  /\ made = 0 /\ replaced = FALSE

-----------------------------------------------------------------------------
(* The user *)

Star(r) ==
  /\ r \notin starred
  /\ starred' = starred \cup {r} /\ recent' = recent \cup {r}
  /\ late' = late \ {r}
  /\ UNCHANGED <<repoVars, runVars, link>>

Unstar(r) ==
  /\ r \in starred
  /\ starred' = starred \ {r} /\ recent' = recent \ {r}
  /\ late' = late \ {r}
  /\ UNCHANGED <<repoVars, runVars, link>>

\* validate_and_store: a new row has no last_synced_at, an old one keeps it.
Connect ==
  /\ link # "active" /\ link' = "active"
  /\ recent' = IF link = "absent" THEN starred ELSE recent
  /\ UNCHANGED <<starred, late, repoVars, runVars>>

Revoke ==
  /\ link # "absent" /\ link' = "absent"
  /\ replaced' = (sync # "idle")
  /\ UNCHANGED <<githubVars, repoVars, sync, listing, seen, pendingBatch, queued, made>>

-----------------------------------------------------------------------------
(* An analysis, and a call by hand *)

\* The analysis a row may have after a write of its content.
Rewritten(a) == IF a = "never" THEN {"never"} ELSE {"current", "stale"}

\* What an analysis that has read the content before a write of it has become.
Overtaken(a) == IF a = "fresh" THEN "outdated" ELSE a

InBatch(items) == {x.repo : x \in items}

\* A batch waits to write other content to the row.
Writes(r) == \E x \in pendingBatch : x.repo = r /\ x.of = "row" /\ x.drift

\* _persist_analysis: the result with the hash of the content that was read.
Persists(r, reading) ==
  /\ reading \in Loaded
  /\ \E a \in {"current", "stale"} :
       /\ reading = "fresh" => a = "current"
       /\ analysis' = [analysis EXCEPT ![r] = a]
  /\ pending' = pending \ {r}
  /\ unlucky' = IF reading = "fresh" /\ ~Writes(r) THEN unlucky \ {r} ELSE unlucky \cup {r}

\* The upsert of an ingestion: a new row has no star, no mark and no analysis.
Ingest(r) ==
  /\ link = "active" /\ call[r] = "no"
  /\ call' = [call EXCEPT ![r] = "begun"]
  /\ IF row[r] = "none"
     THEN /\ row' = [row EXCEPT ![r] = "unstarred"]
          /\ byHand' = byHand \cup {r} /\ removed' = removed \ {r}
          /\ UNCHANGED <<analysis, queued>>
     ELSE /\ \E a \in Rewritten(analysis[r]) : analysis' = [analysis EXCEPT ![r] = a]
          /\ queued' = [queued EXCEPT ![r] = Overtaken(queued[r])]
          /\ UNCHANGED recordVars
  /\ UNCHANGED <<githubVars, markVars, link, sync, listing, seen, pendingBatch, made, replaced>>

\* reanalyze_repository: the analysis is forced.
Reanalyze(r) ==
  /\ row[r] # "none" /\ call[r] = "no"
  /\ call' = [call EXCEPT ![r] = "fresh"]
  /\ UNCHANGED <<githubVars, recordVars, analysis, markVars, runVars, link>>

\* The ingestion's analysis: the content hash of what was analysed is a hit.
CallLoads(r) ==
  /\ call[r] = "begun"
  /\ call' = [call EXCEPT ![r] = IF analysis[r] = "current" THEN "no" ELSE "fresh"]
  /\ UNCHANGED <<githubVars, recordVars, analysis, markVars, runVars, link>>

\* To an item of the row that waits in a batch the row's analysis is another one now.
Reanalyzed(x, r, a) == IF x.repo = r /\ x.of = "row" THEN [x EXCEPT !.analysis = a] ELSE x

CallPersists(r) ==
  /\ Persists(r, call[r])
  /\ call' = [call EXCEPT ![r] = "no"]
  /\ \E a \in {"current", "stale"} :
       pendingBatch' = {Reanalyzed(x, r, a) : x \in pendingBatch}
  /\ UNCHANGED <<githubVars, recordVars, link, sync, listing, seen, queued, made, replaced>>

\* The agent returns nothing, something raises, or the call is cut off.
CallFails(r) ==
  /\ call[r] # "no"
  /\ call' = [call EXCEPT ![r] = "no"]
  /\ unlucky' = IF call[r] = "gone" THEN unlucky ELSE unlucky \cup {r}
  /\ UNCHANGED <<githubVars, recordVars, analysis, pending, runVars, link>>

\* An item of a row that has gone; a flag to set is an update too.
Orphaned(x, r) ==
  IF x.repo = r /\ x.of = "row"
  THEN [x EXCEPT !.of = "gone", !.drift = @ \/ row[r] = "unstarred"]
  ELSE x

\* delete_repository. What a sync and a call hold of the row has no row any more.
DeleteRow(r) ==
  /\ row[r] # "none"
  /\ row' = [row EXCEPT ![r] = "none"] /\ analysis' = [analysis EXCEPT ![r] = "never"]
  /\ pending' = pending \ {r} /\ unlucky' = unlucky \ {r}
  /\ removed' = removed \cup {r} /\ byHand' = byHand \ {r}
  /\ call' = [call EXCEPT ![r] = IF @ = "no" THEN "no" ELSE "gone"]
  /\ queued' = [queued EXCEPT ![r] = IF @ = "due" THEN "gone"
                                    ELSE IF @ \in Loaded THEN "lost" ELSE @]
  /\ pendingBatch' = {Orphaned(x, r) : x \in pendingBatch}
  /\ UNCHANGED <<githubVars, link, sync, listing, seen, made, replaced>>

-----------------------------------------------------------------------------
(* _sync_one_integration *)

\* list_starred(since=last_synced_at); the stars fit on one page.
ListStarred ==
  /\ sync = "idle" /\ link = "active"
  /\ sync' = "list" /\ listing' = recent
  /\ UNCHANGED <<githubVars, link, repoVars, seen, pendingBatch, queued, made, replaced>>

\* A new row is created with pending_analysis.
StartsPending(item) == item.of = "new"

\* A star is looked up; the content of a known one may have changed.
TakeItem(r) ==
  /\ sync = "list" /\ r \in listing /\ Cardinality(pendingBatch) < BatchSize
  /\ listing' = listing \ {r} /\ seen' = seen \cup {r}
  /\ \E drift \in BOOLEAN, now \in Rewritten(analysis[r]) :
       /\ IF drift THEN row[r] # "none" ELSE now = analysis[r]
       /\ pendingBatch' = pendingBatch \cup
            {[repo |-> r, of |-> IF row[r] = "none" THEN "new" ELSE "row", drift |-> drift,
              analysis |-> now, needs |-> now # "current" \/ r \in pending]}
  /\ UNCHANGED <<githubVars, repoVars, link, sync, queued, made, replaced>>

\* A row was inserted or deleted meanwhile, and the transaction is rolled back.
Collides(x) == (x.of = "new" /\ row[x.repo] # "none") \/ (x.of = "gone" /\ x.drift)

\* _flush_batch of a full batch or of the last one; its transaction succeeds. Of a
\* deleted row nothing is sent, if nothing of it differs.
FlushBatch ==
  /\ sync = "list" /\ pendingBatch # {}
  /\ Cardinality(pendingBatch) = BatchSize \/ listing = {}
  /\ \A x \in pendingBatch : ~Collides(x)
  /\ row' = [r \in Repos |-> IF r \in InBatch({x \in pendingBatch : x.of # "gone"})
                             THEN "starred" ELSE row[r]]
  /\ removed' = removed \ InBatch({x \in pendingBatch : x.of = "new"})
  /\ analysis' = [r \in Repos |-> IF Writes(r)
                                  THEN (CHOOSE x \in pendingBatch : x.repo = r).analysis
                                  ELSE analysis[r]]
  /\ call' = [r \in Repos |-> IF Writes(r) THEN Overtaken(call[r]) ELSE call[r]]
  /\ pending' = pending \cup InBatch({x \in pendingBatch : StartsPending(x)})
  /\ queued' = [r \in Repos |->
               IF \E x \in pendingBatch : x.repo = r /\ x.needs
               THEN IF \E x \in pendingBatch : x.repo = r /\ x.of = "gone" THEN "gone" ELSE "due"
               ELSE queued[r]]
  /\ pendingBatch' = {}
  /\ UNCHANGED <<githubVars, byHand, unlucky, link, sync, listing, seen, made, replaced>>

\* The list has come to its end: every row that has not been seen loses its star,
\* unless nothing has been seen.
TakeStars ==
  /\ sync = "list" /\ listing = {} /\ pendingBatch = {}
  /\ sync' = "stamp"
  /\ row' = [r \in Repos |-> IF row[r] = "starred" /\ seen # {} /\ r \notin seen
                             THEN "unstarred" ELSE row[r]]
  /\ UNCHANGED <<githubVars, removed, byHand, analysis, markVars, call, link, listing, seen,
                 pendingBatch, queued, made, replaced>>

\* last_synced_at is the time after the listing.
Stamped == recent' = {} /\ late' = late \cup (recent \ seen)

Stamp ==
  /\ sync = "stamp" /\ sync' = "analyze"
  /\ IF replaced THEN UNCHANGED <<recent, late>> ELSE Stamped
  /\ UNCHANGED <<starred, repoVars, link, listing, seen, pendingBatch, queued, made, replaced>>

-----------------------------------------------------------------------------
(* _analyze_pending, AnalyzeRepositoryUseCase.analyze *)

HasBudget == made < Budget

Leaves(r) == queued' = [queued EXCEPT ![r] = "no"]

\* A row that has gone is not marked.
Defer(r) ==
  /\ sync = "analyze" /\ queued[r] \in {"due", "gone"} /\ ~HasBudget
  /\ Leaves(r)
  /\ pending' = IF queued[r] = "due" THEN pending \cup {r} ELSE pending
  /\ UNCHANGED <<githubVars, recordVars, analysis, unlucky, call, link, sync, listing, seen,
                 pendingBatch, made, replaced>>

\* The content hash of what was analysed is a hit, which leaves pending_analysis alone; a
\* row that has gone is not found.
AnalysisLoads(r) ==
  /\ sync = "analyze" /\ queued[r] \in {"due", "gone"} /\ HasBudget
  /\ made' = made + 1
  /\ queued' = [queued EXCEPT ![r] = IF @ = "gone" \/ analysis[r] = "current" THEN "no" ELSE "fresh"]
  /\ UNCHANGED <<githubVars, repoVars, link, sync, listing, seen, pendingBatch, replaced>>

AnalysisPersists(r) ==
  /\ sync = "analyze" /\ Persists(r, queued[r])
  /\ Leaves(r)
  /\ UNCHANGED <<githubVars, recordVars, call, link, sync, listing, seen, pendingBatch, made, replaced>>

\* The agent returns nothing, something raises, or the row is not there any more.
AnalysisFails(r) ==
  /\ sync = "analyze" /\ queued[r] \in Loaded \cup {"lost"}
  /\ Leaves(r)
  /\ unlucky' = IF queued[r] = "lost" THEN unlucky ELSE unlucky \cup {r}
  /\ UNCHANGED <<githubVars, recordVars, analysis, pending, call, link, sync, listing, seen,
                 pendingBatch, made, replaced>>

RunCleared ==
  /\ sync' = "idle" /\ listing' = {} /\ seen' = {} /\ pendingBatch' = {}
  /\ queued' = [r \in Repos |-> "no"]
  /\ made' = 0 /\ replaced' = FALSE

\* What was to be analysed has not been.
CutOff == unlucky' = unlucky \cup {r \in Repos : queued[r] \in {"due"} \cup Loaded}

EndSync ==
  /\ sync = "analyze" /\ \A r \in Repos : queued[r] = "no"
  /\ RunCleared
  /\ UNCHANGED <<githubVars, repoVars, link>>

\* Faulty variant of SyncFails: the time is stamped in a finally.
SyncFailsStamped ==
  /\ sync # "idle"
  /\ RunCleared /\ Stamped /\ CutOff
  /\ UNCHANGED <<starred, recordVars, analysis, pending, call, link>>

\* A rate limit, an error of GitHub or the database, or the worker's death.
SyncFails ==
  /\ sync # "idle"
  /\ RunCleared /\ CutOff
  /\ UNCHANGED <<githubVars, recordVars, analysis, pending, call, link>>

\* A 401 while listing; the row may have a new token by now.
AuthFails ==
  /\ sync = "list"
  /\ RunCleared /\ CutOff
  /\ link' = IF replaced THEN link ELSE "needs_reauth"
  /\ UNCHANGED <<githubVars, recordVars, analysis, pending, call>>

SyncNext ==
  \/ \E r \in Repos :
       \/ Star(r) \/ Unstar(r) \/ TakeItem(r)
       \/ Defer(r) \/ AnalysisLoads(r) \/ AnalysisPersists(r) \/ AnalysisFails(r)
  \/ Connect
  \/ ListStarred \/ FlushBatch \/ TakeStars \/ Stamp \/ EndSync
  \/ SyncFails \/ AuthFails

ByHandNext ==
  \E r \in Ingested :
    \/ Ingest(r) \/ Reanalyze(r) \/ DeleteRow(r)
    \/ CallLoads(r) \/ CallPersists(r) \/ CallFails(r)

StarsNext == SyncNext \/ Revoke \/ ByHandNext

StarsSpec == StarsInit /\ [][StarsNext]_starsVars

-----------------------------------------------------------------------------
(* Properties *)

\* A star that the next sync will not list any more has its row, wherever syncs
\* have failed in between: but for one given between a sync's page and its time,
\* and one whose row the user has deleted.
NoStarSkipped ==
  \A r \in starred \ recent : row[r] # "none" \/ r \in late \cup removed

\* An analysis is under way that will end with the row's, or is to come of this sync.
InAnalysis(r) == {call[r], queued[r]} \cap (ToLoad \cup Loaded) # {}

\* A row of a sync that was never analysed is marked as pending, from its first
\* commit on, through failures, deferral and death of the sync. A row that an
\* ingestion has made is marked, is being analysed, or its analysis has failed.
BadgeIsTrue ==
  \A r \in Repos : row[r] # "none" /\ analysis[r] = "never" /\ r \notin pending =>
                     r \in byHand /\ (InAnalysis(r) \/ r \in unlucky)

\* What is stale is pending or is being analysed, or an analysis of it has failed, was
\* cut off with its call or its sync, or has crossed a write of the content: a flush, a
\* crossing deletion and the budget drop nothing else without a mark.
StaleIsMarked ==
  \A r \in Repos : analysis[r] = "stale" => r \in pending \cup unlucky \/ InAnalysis(r)

\* No star and no analysis is lost without a mark, but for what the three name.
StarsAreKept == NoStarSkipped /\ BadgeIsTrue /\ StaleIsMarked

\* The flag of a row is "True when this repo is currently in the user's GitHub
\* stars" (docs/explanation/github-repository-ingestion.md): at least a sync that has
\* gone through its listing leaves it to a star that is as old as the last sync and
\* whose row is its own.
FlagIsCurrent ==
  sync = "stamp" => \A r \in starred \ (recent \cup late \cup byHand) : row[r] # "unstarred"
=============================================================================
