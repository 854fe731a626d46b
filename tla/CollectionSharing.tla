-------------------------- MODULE CollectionSharing --------------------------
(***************************************************************************)
(* Who shares a collection (api/services/collection_service.py and          *)
(* infrastructure/persistence/repositories/collection_repository.py): its   *)
(* owner adds and removes collaborators, and an invitation can be accepted. *)
(* Each is a transaction under READ COMMITTED that reads, writes the row of *)
(* the collaborator and holds its lock, counts the rows it can see and      *)
(* writes the count to the collection; the last write and the commit are    *)
(* one step. Roles are left out.                                            *)
(***************************************************************************)
EXTENDS Naturals, FiniteSets

CONSTANTS
  People,      \* users other than the owner
  Sharings,    \* calls, numbered in the order they begin
  Invitations  \* tokens

ASSUME SharingAssumption ==
  /\ IsFiniteSet(People) /\ 0 \notin People \cup Invitations
  /\ Sharings \subseteq Nat

VARIABLES
  collaborators,  \* committed rows of the collection
  shareCount,     \* collections.share_count
  spent,          \* invitations whose row says used
  stands,         \* the collection is not deleted
  sharing,        \* the transactions, see SharingTypeOK
  joined,         \* history: who came in by which invitation
  stale,          \* history: calls that counted before the last commit
  miscounted,     \* history: the last count written was a stale one
  shared          \* history: invitations that two calls accepted at the same time

sharingVars == <<collaborators, shareCount, spent, stands, sharing, joined, stale, miscounted, shared>>

Owner == 0
NoCall == [does |-> "nothing", step |-> "new", who |-> Owner, by |-> 0, adds |-> {}, drops |-> {}, count |-> 0]

SharingTypeOK ==
  /\ collaborators \subseteq People
  /\ shareCount \in 0..Cardinality(People)
  /\ spent \subseteq Invitations /\ stands \in BOOLEAN
  /\ sharing \in [Sharings -> [does : {"nothing", "add", "remove", "accept"},
                               step : {"new", "write", "count", "commit", "done"},
                               who : People \cup {Owner}, by : Invitations \cup {0},
                               adds : SUBSET People, drops : SUBSET People,
                               count : 0..Cardinality(People)]]
  /\ joined \subseteq (People \cup {Owner}) \X Invitations /\ stale \subseteq Sharings
  /\ miscounted \in BOOLEAN /\ shared \subseteq Invitations

SharingInit ==
  /\ collaborators = {} /\ shareCount = 0 /\ spent = {} /\ stands = TRUE
  /\ sharing = [s \in Sharings |-> NoCall]
  /\ joined = {} /\ stale = {} /\ shared = {} /\ miscounted = FALSE

SharesAsBefore == UNCHANGED <<collaborators, shareCount, spent, stands, joined, miscounted, shared>>

ReturnsAtOnce(s) == sharing' = [sharing EXCEPT ![s] = [NoCall EXCEPT !.step = "done"]]

\* The collection, and for an acceptance its invitation, are read first. The owner may
\* accept an invitation too; as a collaborator he is neither added nor removed.
Begins(s) ==
  /\ sharing[s].step = "new" /\ \A t \in Sharings : t < s => sharing[t].step # "new"
  /\ \E does \in {"add", "remove", "accept"}, who \in People \cup {Owner}, by \in Invitations \cup {0} :
       /\ does = "accept" <=> by # 0
       /\ IF stands /\ by \notin spent /\ (who = Owner => does = "accept")
          THEN sharing' = [sharing EXCEPT ![s] = [NoCall EXCEPT !.does = does, !.who = who, !.by = by,
                                                    !.step = IF who = Owner THEN "commit" ELSE "write"]]
          ELSE ReturnsAtOnce(s)
  /\ SharesAsBefore /\ UNCHANGED stale

\* A row that another transaction has written stays locked until that one ends.
Locked(who) == \E t \in Sharings : who \in sharing[t].adds \cup sharing[t].drops

\* INSERT ... ON CONFLICT DO UPDATE, or DELETE, which passes over a row not yet committed.
WritesRow(s) ==
  /\ sharing[s].step = "write"
  /\ LET who == {sharing[s].who}
         removed == who \cap collaborators
     IN IF sharing[s].does = "remove"
        THEN /\ removed # {} => ~Locked(sharing[s].who)
             /\ sharing' = [sharing EXCEPT ![s].step = "count", ![s].drops = removed]
        ELSE /\ ~Locked(sharing[s].who)
             /\ sharing' = [sharing EXCEPT ![s].step = "count", ![s].adds = who]
  /\ SharesAsBefore /\ UNCHANGED stale

\* The rows with the transaction's own changes.
WithOwn(s) == (collaborators \cup sharing[s].adds) \ sharing[s].drops

\* Faulty variant of Seen: the call's own row is not flushed before the count.
SeenCommitted(s) == collaborators

\* Another transaction's rows are seen once it has committed.
Seen(s) == WithOwn(s)

Counts(s) ==
  /\ sharing[s].step = "count"
  /\ sharing' = [sharing EXCEPT ![s].step = "commit", ![s].count = Cardinality(Seen(s))]
  /\ SharesAsBefore /\ UNCHANGED stale

\* An acceptance by the owner leaves the rows and the count alone.
Commits(s) ==
  /\ sharing[s].step = "commit"
  /\ collaborators' = WithOwn(s)
  /\ shareCount' = IF sharing[s].who = Owner THEN shareCount ELSE sharing[s].count
  /\ spent' = spent \cup ({sharing[s].by} \ {0})
  /\ joined' = IF sharing[s].does = "accept" THEN joined \cup {<<sharing[s].who, sharing[s].by>>} ELSE joined
  /\ miscounted' = IF sharing[s].who = Owner THEN miscounted ELSE s \in stale
  /\ stale' = {t \in Sharings \ {s} : sharing[t].step = "commit"}
  /\ shared' = shared \cup {i \in {sharing[s].by} \ {0} : \E t \in Sharings \ {s} : sharing[t].by = i}
  /\ ReturnsAtOnce(s)
  /\ UNCHANGED stands

\* delete_collection, by another call.
CollectionDeleted ==
  /\ stands /\ stands' = FALSE
  /\ UNCHANGED <<collaborators, shareCount, spent, sharing, joined, stale, miscounted, shared>>

SharingAtRest == (\A s \in Sharings : sharing[s].step = "done") /\ UNCHANGED sharingVars

SharingNext ==
  \/ \E s \in Sharings : Begins(s) \/ WritesRow(s) \/ Counts(s) \/ Commits(s)
  \/ CollectionDeleted
  \/ SharingAtRest

SharingSpec == SharingInit /\ [][SharingNext]_sharingVars
-----------------------------------------------------------------------------
(* Properties *)

\* share_count, which the answers show, counts the collaborators unless the last call that
\* wrote it had counted before another one committed: the next call on its own mends it.
ShareCountMends == miscounted \/ shareCount = Cardinality(collaborators)

\* An invitation lets one user in, unless two calls read it before either had used it up.
InvitationsAreSpent ==
  \A i \in Invitations :
    /\ Cardinality({p \in People \cup {Owner} : <<p, i>> \in joined}) > 1 => i \in shared
    /\ i \in spent <=> \E p \in People \cup {Owner} : <<p, i>> \in joined

SharingIsTrue == ShareCountMends /\ InvitationsAreSpent
=============================================================================
