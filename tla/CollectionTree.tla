--------------------------- MODULE CollectionTree ---------------------------
(***************************************************************************)
(* The tree of collections (api/services/collection_service.py and the      *)
(* repository it calls, infrastructure/persistence/repositories/            *)
(* collection_repository.py). A collection names its parent. /move climbs   *)
(* from the new parent to the top, one SELECT per level, and refuses a move *)
(* below itself; an update of the parent does not look; a deletion marks    *)
(* one row and leaves the children where they are. A step is one statement  *)
(* of PostgreSQL under READ COMMITTED; a transaction's writes are one step. *)
(* Positions among siblings and roles are left out.                         *)
(***************************************************************************)
EXTENDS Naturals, FiniteSets

CONSTANTS
  Collections,   \* collections of one user, who owns them all
  Top,           \* parent_id of a collection without a parent
  FirstParents,  \* the tree at the start
  Moves,         \* calls of move_collection, numbered in the order they begin
  Updates,       \* calls of update_collection that give a parent
  MaxDeleted     \* bound on deletions

ASSUME TreeAssumption ==
  /\ IsFiniteSet(Collections) /\ Top \notin Collections
  /\ FirstParents \in [Collections -> Collections \cup {Top}]
  /\ \E depth \in [Collections -> 0..Cardinality(Collections)] :   \* a tree
       \A c \in Collections : FirstParents[c] # Top => depth[FirstParents[c]] < depth[c]
  /\ Moves \subseteq Nat /\ Updates \subseteq Nat /\ Moves \cap Updates = {}
  /\ MaxDeleted \in Nat

VARIABLES
  parent,     \* parent_id of the rows
  gone,       \* rows with is_deleted
  relink,     \* what a call has read, see TreeTypeOK
  unseen,     \* history: collections whose link was written without sight of the whole tree
  disturbedMoves  \* history: running moves since whose start a link has changed

treeVars == <<parent, gone, relink, unseen, disturbedMoves>>

Calls == Moves \cup Updates
Parents == Collections \cup {Top}
Undone == [stage |-> "new", of |-> Top, to |-> Top, ofParent |-> Top, toParent |-> Top, at |-> Top, above |-> Top]

TreeTypeOK ==
  /\ parent \in [Collections -> Parents]
  /\ gone \subseteq Collections /\ Cardinality(gone) <= MaxDeleted
  /\ relink \in [Calls -> [stage : {"new", "load", "climb", "write", "done"}, of : Parents, to : Parents,
                         ofParent : Parents, toParent : Parents, at : Parents, above : Parents]]
  /\ unseen \subseteq Collections /\ disturbedMoves \subseteq Moves

TreeInit ==
  /\ parent = FirstParents
  /\ gone = {}
  /\ relink = [c \in Calls |-> Undone]
  /\ unseen = {} /\ disturbedMoves = {}

TreeStays == UNCHANGED <<parent, gone, unseen, disturbedMoves>>

Ends(c) == relink' = [relink EXCEPT ![c] = [Undone EXCEPT !.stage = "done"]]

\* A link is written: whoever is under way has not seen it.
Links(c, of, to) ==
  /\ parent' = [parent EXCEPT ![of] = to]
  /\ disturbedMoves' = (disturbedMoves \cup {m \in Moves : relink[m].stage \notin {"new", "done"}}) \ {c}

-----------------------------------------------------------------------------
(* move_collection *)

MoveBegins(m) ==
  /\ relink[m].stage = "new" /\ \A n \in Moves : n < m => relink[n].stage # "new"
  /\ \E of \in Collections \ gone, to \in Parents :
       relink' = [relink EXCEPT ![m] = [Undone EXCEPT !.stage = IF to = Top THEN "write" ELSE "load",
                                                  !.of = of, !.to = to, !.ofParent = parent[of]]]
  /\ TreeStays

\* The loop stops with a refusal at the collection itself, and with a success above the top
\* or at a deleted ancestor. A row that the session already holds keeps what was read first.
Reaches(m, next, toParent) ==
  IF next = relink[m].of THEN Ends(m)
  ELSE IF next = Top \/ next \in gone
  THEN relink' = [relink EXCEPT ![m] = [@ EXCEPT !.stage = "write", !.toParent = Top, !.at = Top, !.above = Top]]
  ELSE relink' = [relink EXCEPT ![m].stage = "climb", ![m].toParent = toParent, ![m].at = next,
                            ![m].above = IF next = relink[m].to THEN toParent ELSE parent[next]]

LoadParent(m) ==
  /\ relink[m].stage = "load"
  /\ IF relink[m].to \in gone THEN Ends(m) ELSE Reaches(m, relink[m].to, parent[relink[m].to])
  /\ disturbedMoves' = IF relink'[m].stage = "done" THEN disturbedMoves \ {m} ELSE disturbedMoves
  /\ UNCHANGED <<parent, gone, unseen>>

\* Faulty variant of Climb: only the new parent is compared with the collection.
ClimbNot(m) ==
  /\ relink[m].stage = "climb"
  /\ relink' = [relink EXCEPT ![m].stage = "write"]
  /\ TreeStays

Climb(m) ==
  /\ relink[m].stage = "climb"
  /\ Reaches(m, relink[m].above, relink[m].toParent)
  /\ disturbedMoves' = IF relink'[m].stage = "done" THEN disturbedMoves \ {m} ELSE disturbedMoves
  /\ UNCHANGED <<parent, gone, unseen>>

\* The flush writes parent_id if it differs from what was loaded, deleted or not.
MoveWrites(m) ==
  /\ relink[m].stage = "write"
  /\ IF relink[m].ofParent = relink[m].to
     THEN disturbedMoves' = disturbedMoves \ {m} /\ UNCHANGED <<parent, unseen>>
     ELSE /\ Links(m, relink[m].of, relink[m].to)
          /\ unseen' = IF m \in disturbedMoves THEN unseen \cup {relink[m].of} ELSE unseen \ {relink[m].of}
  /\ Ends(m)
  /\ UNCHANGED gone

-----------------------------------------------------------------------------
(* update_collection with a parent, and delete_collection *)

UpdateBegins(u) ==
  /\ relink[u].stage = "new"
  /\ \E of \in Collections \ gone, to \in Collections :
       /\ to # of /\ to # parent[of]
       /\ relink' = [relink EXCEPT ![u] = [Undone EXCEPT !.stage = "load", !.of = of, !.to = to]]
  /\ TreeStays

UpdateLoads(u) ==
  /\ relink[u].stage = "load"
  /\ IF relink[u].to \in gone
     THEN Ends(u)
     ELSE relink' = [relink EXCEPT ![u].stage = "write"]
  /\ TreeStays

UpdateWrites(u) ==
  /\ relink[u].stage = "write"
  /\ IF relink[u].of \in gone
     THEN UNCHANGED <<parent, unseen, disturbedMoves>>
     ELSE Links(u, relink[u].of, relink[u].to) /\ unseen' = unseen \cup {relink[u].of}
  /\ Ends(u)
  /\ UNCHANGED gone

SoftDelete(c) ==
  /\ c \notin gone /\ Cardinality(gone) < MaxDeleted
  /\ gone' = gone \cup {c}
  /\ UNCHANGED <<parent, relink, unseen, disturbedMoves>>

MoveGoesOn(m) == LoadParent(m) \/ Climb(m) \/ MoveWrites(m)

TreeAtRest == (\A c \in Calls : relink[c].stage = "done") /\ UNCHANGED treeVars

TreeNext ==
  \/ \E m \in Moves : MoveBegins(m) \/ MoveGoesOn(m)
  \/ \E u \in Updates : UpdateBegins(u) \/ UpdateLoads(u) \/ UpdateWrites(u)
  \/ \E c \in Collections : SoftDelete(c)
  \/ TreeAtRest

\* The statements of a transaction are answered.
TreeFairness == \A m \in Moves : WF_treeVars(MoveGoesOn(m))

TreeSpec == TreeInit /\ [][TreeNext]_treeVars /\ TreeFairness

-----------------------------------------------------------------------------
(* Properties *)

\* The n-th ancestor of a collection, Top from a deleted one on.
Ancestor(c) ==
  LET up[n \in 0..Cardinality(Collections)] ==
        IF n = 0 THEN c
        ELSE IF up[n - 1] = Top \/ up[n - 1] \in gone THEN Top ELSE parent[up[n - 1]]
  IN up

OnCycle(c) ==
  c \notin gone /\ \E n \in 1..Cardinality(Collections) : Ancestor(c)[n] = c

\* No cycle of collections that are still shown is closed by moves that follow each other:
\* every cycle has a link from an update, or from a move whose climb another call disturbed.
TreeIsSound ==
  \A c \in Collections :
    OnCycle(c) => \E n \in 0..Cardinality(Collections) : Ancestor(c)[n] \in unseen

\* No move climbs for ever, unless it has met a cycle or the tree changed as it climbed.
MovesEnd ==
  []<>(\A m \in Moves : \/ relink[m].stage # "climb" \/ m \in disturbedMoves
                         \/ \E c \in Collections : OnCycle(c))
=============================================================================
