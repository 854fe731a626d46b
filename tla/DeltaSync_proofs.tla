-------------------------- MODULE DeltaSync_proofs --------------------------
(***************************************************************************)
(* Delta sync for every set of clients and rows, page limit and number of   *)
(* edits: an edit that a client never sees has escaped it in a known way,   *)
(* and neither a 304, a last page nor a conflict check hides any other; and *)
(* versions and edits keep their bounds.                                    *)
(***************************************************************************)
EXTENDS DeltaSync, FiniteSetTheorems, WellFoundedInduction, TLAPS

Record == [v : Nat, e : Nat]

-----------------------------------------------------------------------------
(* Greatest elements *)

\* A finite set of numbers that is not empty has a greatest element, which Max returns.
LEMMA MaxProperties ==
  ASSUME NEW S, S \subseteq Nat, IsFiniteSet(S), S # {}
  PROVE  Max(S) \in S /\ \A y \in S : y <= Max(S)
<1> DEFINE HasMax(T) == \E x \in T : \A y \in T : x >= y
           Sizes == {n \in Nat : \E T \in SUBSET S : T # {} /\ Cardinality(T) = n /\ ~HasMax(T)}
           R == {ss \in Nat \X Nat : ss[1] < ss[2]}
<1>1. ASSUME Sizes # {} PROVE FALSE
  <2>1. IsWellFoundedOn(R, Nat)
    BY NatLessThanWellFounded DEF OpToRel
  <2>2. PICK n \in Sizes : \A m \in Sizes : <<m, n>> \notin R
    <3>1. Sizes \in SUBSET Nat
      OBVIOUS
    <3> HIDE DEF R, Sizes
    <3> QED BY <1>1, <2>1, <3>1, WFMin
  <2>3. PICK T \in SUBSET S : T # {} /\ Cardinality(T) = n /\ ~HasMax(T)
    OBVIOUS
  <2>4. IsFiniteSet(T)
    BY FS_Subset
  <2>5. PICK x \in T : TRUE
    BY <2>3
  <2>6. /\ IsFiniteSet(T \ {x})
        /\ Cardinality(T \ {x}) = n - 1
    BY <2>3, <2>4, <2>5, FS_RemoveElement
  <2>7. T \ {x} # {}
    BY <2>3, <2>5
  <2>8. HasMax(T \ {x})
    <3>1. n - 1 \in Nat
      BY <2>6, FS_CardinalityType
    <3>2. n - 1 \notin Sizes
      <4>1. <<n - 1, n>> \in R
        BY <3>1
      <4> QED BY <4>1, <2>2
    <3> QED BY <3>1, <3>2, <2>6, <2>7
  <2>9. PICK m \in T \ {x} : \A y \in T \ {x} : m >= y
    BY <2>8
  <2>10. HasMax(T)
    <3>1. m \in Nat /\ x \in Nat /\ T \subseteq Nat
      BY <2>5, <2>9
    <3>2. CASE m >= x
      BY <3>1, <3>2, <2>9
    <3>3. CASE x >= m
      BY <3>1, <3>3, <2>9, <2>5
    <3> QED BY <3>1, <3>2, <3>3
  <2> QED BY <2>3, <2>10
<1>2. HasMax(S)
  <2>1. Cardinality(S) \in Nat
    BY FS_CardinalityType
  <2> QED BY <2>1, <1>1
<1>3. Max(S) \in S /\ \A y \in S : Max(S) >= y
  BY <1>2 DEF Max
<1> QED BY <1>3

\* So has the set of the versions of some rows together with another number.
LEMMA VersionsProperties ==
  ASSUME NEW s \in [Rows -> Record], NEW Q \in SUBSET Rows, NEW n \in Nat
  PROVE  LET m == Max({n} \cup {s[r].v : r \in Q})
         IN  /\ m \in Nat /\ n <= m
             /\ \A r \in Q : s[r].v <= m
             /\ m = n \/ \E r \in Q : m = s[r].v
<1> DEFINE V == {s[r].v : r \in Q}
<1>1. IsFiniteSet(V)
  <2> DEFINE f == [r \in Q |-> s[r].v]
  <2>1. f \in Surjection(Q, V)
    BY DEF Surjection
  <2>2. IsFiniteSet(Q)
    BY SyncAssumption, FS_Subset
  <2> HIDE DEF f, V
  <2> QED BY <2>1, <2>2, FS_Surjection
<1>2. V \subseteq Nat
  BY DEF Record
<1> HIDE DEF V
<1>3. IsFiniteSet({n} \cup V)
  BY <1>1, FS_AddElement
<1>4. Max({n} \cup V) \in {n} \cup V /\ \A y \in {n} \cup V : y <= Max({n} \cup V)
  BY <1>2, <1>3, MaxProperties
<1> QED BY <1>2, <1>4 DEF V

-----------------------------------------------------------------------------
(* Pages *)

\* Before is a strict order of rows with different numbers.
LEMMA BeforeOrders ==
  ASSUME NEW s \in [Rows -> Record], NEW q \in Rows, NEW r \in Rows
  PROVE  /\ q = r \/ Before(s, q, r) \/ Before(s, r, q)
         /\ ~Before(s, q, q)
         /\ Before(s, q, r) => s[q].v <= s[r].v
         /\ \A x \in Rows : Before(s, x, q) /\ Before(s, q, r) => Before(s, x, r)
BY SyncAssumption DEF Before, Record

\* A page is the beginning of the filtered rows in the order of Before; it is all of them when
\* they fit, and it is not empty when they are not.
LEMMA PageProperties ==
  ASSUME NEW s \in [Rows -> Record], NEW cursor \in Nat
  PROVE  LET F == Filtered(s, cursor)
             P == Page(s, cursor)
         IN  /\ P \subseteq F /\ F \subseteq Rows
             /\ \A q \in P, r \in F \ P : s[q].v <= s[r].v
             /\ ~HasMore(s, cursor) => P = F
             /\ F # {} => P # {}
<1> DEFINE F == Filtered(s, cursor)
           P == Page(s, cursor)
           Preds(r) == {q \in F : Before(s, q, r)}
<1>1. P = {r \in F : Cardinality(Preds(r)) < Limit} /\ F \subseteq Rows
  BY DEF Page, Filtered
<1>2. IsFiniteSet(F)
  BY <1>1, SyncAssumption, FS_Subset
<1>3. ASSUME NEW r \in F PROVE IsFiniteSet(Preds(r)) /\ Cardinality(Preds(r)) \in Nat
  BY <1>2, FS_Subset, FS_CardinalityType
<1>4. ASSUME NEW q \in F, NEW r \in F, Before(s, q, r)
      PROVE  Cardinality(Preds(q)) < Cardinality(Preds(r))
  <2>1. Preds(q) \subseteq Preds(r) /\ Preds(q) # Preds(r)
    BY <1>1, <1>4, BeforeOrders
  <2> HIDE DEF Preds
  <2> QED BY <2>1, <1>3, FS_Subset
<1> HIDE DEF F, P
<1>5. ASSUME NEW q \in P, NEW r \in F \ P PROVE s[q].v <= s[r].v
  <2>1. q \in F /\ r \in F /\ q # r
    BY <1>1, <1>5
  <2>2. ~Before(s, r, q)
    <3>1. Cardinality(Preds(q)) < Limit /\ ~(Cardinality(Preds(r)) < Limit)
      BY <1>1, <1>5
    <3> HIDE DEF Preds
    <3> QED BY <2>1, <3>1, <1>3, <1>4, SyncAssumption
  <2> QED BY <2>1, <2>2, <1>1, BeforeOrders
<1>6. ASSUME ~HasMore(s, cursor) PROVE P = F
  <2>1. Cardinality(F) \in Nat /\ Cardinality(F) <= Limit
    BY <1>2, <1>6, FS_CardinalityType, SyncAssumption DEF HasMore, F
  <2>2. ASSUME NEW r \in F PROVE Cardinality(Preds(r)) < Limit
    <3>1. Preds(r) \subseteq F /\ Preds(r) # F
      BY <1>1, BeforeOrders
    <3>2. Cardinality(Preds(r)) < Cardinality(F)
      BY <3>1, <1>2, <1>3, <2>1, FS_Subset
    <3> HIDE DEF Preds
    <3> QED BY <3>2, <2>1, <1>3, SyncAssumption
  <2> QED BY <1>1, <2>2
<1>7. ASSUME F # {} PROVE P # {}
  <2> DEFINE Sizes == {Cardinality(Preds(r)) : r \in F}
             R == {ss \in Nat \X Nat : ss[1] < ss[2]}
  <2>1. IsWellFoundedOn(R, Nat)
    BY NatLessThanWellFounded DEF OpToRel
  <2>2. Sizes \in SUBSET Nat /\ Sizes # {}
    <3> HIDE DEF Preds
    <3> QED BY <1>3, <1>7
  <2>3. PICK n \in Sizes : \A m \in Sizes : <<m, n>> \notin R
    <3> HIDE DEF R, Sizes
    <3> QED BY <2>1, <2>2, WFMin
  <2>4. PICK r \in F : n = Cardinality(Preds(r))
    OBVIOUS
  <2>5. Preds(r) = {}
    <3>1. SUFFICES ASSUME NEW q \in Preds(r) PROVE FALSE
      OBVIOUS
    <3>2. q \in F /\ Before(s, q, r)
      BY <3>1
    <3> HIDE DEF Preds
    <3>3. Cardinality(Preds(q)) < n /\ Cardinality(Preds(q)) \in Nat /\ n \in Nat
      BY <3>2, <2>4, <1>3, <1>4
    <3>4. <<Cardinality(Preds(q)), n>> \in R
      BY <3>3
    <3>5. Cardinality(Preds(q)) \in Sizes
      BY <3>2
    <3> QED BY <2>3, <3>4, <3>5
  <2>6. Cardinality(Preds(r)) = 0
    BY <2>5, FS_EmptySet
  <2> QED BY <2>6, <1>1, SyncAssumption
<1> QED BY <1>1, <1>5, <1>6, <1>7 DEF F, P

-----------------------------------------------------------------------------
(* The invariant *)

\* The types, without the bounds that the number of edits gives to versions and edits.
SyncTypes ==
  /\ clock \in Nat
  /\ row \in [Rows -> Record]
  /\ draft \in [rows : SUBSET Rows, v : Nat]
  /\ pc \in [Clients -> Calls]
  /\ since \in [Clients -> Nat] /\ etag \in [Clients -> Nat]
  /\ maxSv \in [Clients -> Nat] /\ stamp \in [Clients -> Nat]
  /\ more \in [Clients -> BOOLEAN]
  /\ copy \in [Clients -> [Rows -> Record]] /\ seen \in [Clients -> [Rows -> Record]]
  /\ item = [c \in Clients |-> item[c]]
  /\ \A c \in Clients : pc[c] \in {"check", "stamp", "write"} => item[c] \in Rows
  /\ due \in [Clients -> SUBSET Rows]
  /\ missed \subseteq Clients \X Rows

\* The edits of a row are those of the copy whose version is not below the row's.
CopyIsCurrent ==
  \A c \in Clients, r \in Rows :
    row[r].v <= copy[c][r].v /\ <<c, r>> \notin missed => copy[c][r].e = row[r].e

\* What a collection in flight has read still stands.
ReadRowsStand ==
  \A c \in Clients : \A r \in AlreadyRead(c) : seen[c][r] = row[r] \/ <<c, r>> \in missed

\* What was due when the call began still is, and the maximum read first says so.
DueRowsStand ==
  \A c \in Clients : pc[c] \in MaxLeft =>
    \A r \in due[c] :
      /\ row[r].v > since[c] \/ <<c, r>> \in missed
      /\ r \in Requests /\ pc[c] = "max_summaries" => maxSv[c] > since[c]
      /\ r \in Summaries /\ pc[c] = "max_requests" => maxSv[c] > since[c]

SyncInv == SyncTypes /\ NoSilentLoss /\ CopyIsCurrent /\ ReadRowsStand /\ DueRowsStand

\* The invariant holds in the beginning.
LEMMA SyncInvInit == Init => SyncInv
BY SyncAssumption DEF Init, SyncInv, SyncTypes, NoSilentLoss, CopyIsCurrent, ReadRowsStand, DueRowsStand,
   AlreadyRead, Nothing, Absent, NoDraft, Record, Calls, Collecting, MaxLeft

-----------------------------------------------------------------------------
(* Writes *)

\* The greater of two numbers.
LEMMA MaxOfTwo ==
  ASSUME NEW a \in Nat, NEW b \in Nat
  PROVE  Max({a, b}) \in Nat /\ a <= Max({a, b}) /\ b <= Max({a, b}) /\ Max({a, b}) \in {a, b}
<1>1. IsFiniteSet({a} \cup {b})
  BY FS_Singleton, FS_AddElement
<1>2. {a, b} = {a} \cup {b}
  OBVIOUS
<1> QED BY <1>1, <1>2, MaxProperties

\* Whatever a client's cursor and copy are past at a commit, the commit escapes it.
LEMMA EscapesProperties ==
  ASSUME SyncTypes, NEW c \in Clients, NEW r \in Rows, NEW v \in Nat
  PROVE  /\ v <= since[c] => Escapes(c, r, v)
         /\ v <= copy[c][r].v => Escapes(c, r, v)
         /\ r \in AlreadyRead(c) => Escapes(c, r, v)
<1>1. since[c] \in Nat /\ HighWater(c) \in Nat /\ since[c] <= HighWater(c)
  <2>1. since[c] \in Nat /\ seen[c] \in [Rows -> Record] /\ Rows \in SUBSET Rows
    BY DEF SyncTypes
  <2>2. /\ Max({since[c]} \cup {seen[c][q].v : q \in Rows}) \in Nat
        /\ since[c] <= Max({since[c]} \cup {seen[c][q].v : q \in Rows})
    BY <2>1, VersionsProperties
  <2> QED BY <2>1, <2>2 DEF HighWater
<1> QED BY <1>1 DEF Escapes

\* A write of rows, with a version of its own or the one they had; what the writer knows of
\* its own rows afterwards is what they are, or the edit has escaped it.
LEMMA WriteProperties ==
  ASSUME SyncInv, NEW rs \in SUBSET Rows, NEW v \in Nat,
         row' \in [Rows -> Record],
         \A r \in Rows \ rs : row'[r] = row[r],
         \A r \in rs : row'[r].v = v,
         Missing(rs, v) \subseteq missed',
         \A c \in Clients, r \in Rows \ rs : copy'[c][r] = copy[c][r],
         \A c \in Clients, r \in rs :
           copy'[c][r] = copy[c][r] \/ <<c, r>> \in missed' \/ copy'[c][r].e = row'[r].e,
         \A c \in Clients :
           pc'[c] = pc[c] \/ {pc[c], pc'[c]} \cap (MaxLeft \cup Collecting) = {},
         UNCHANGED <<since, seen, maxSv, due>>
  PROVE  NoSilentLoss' /\ ReadRowsStand' /\ DueRowsStand' /\ CopyIsCurrent'
<1> USE DEF SyncInv
<1>1. ASSUME NEW c \in Clients, NEW r \in rs,
             v <= since[c] \/ v <= copy[c][r].v \/ r \in AlreadyRead(c)
      PROVE  <<c, r>> \in missed'
  BY <1>1, EscapesProperties DEF Missing
<1>2. missed \subseteq missed'
  BY DEF Missing
<1>3. \A c \in Clients : AlreadyRead(c)' = AlreadyRead(c) /\ AlreadyRead(c) \subseteq Rows
  BY DEF AlreadyRead, Rows, Collecting
<1>4. NoSilentLoss'
  <2> SUFFICES ASSUME NEW c \in Clients, NEW r \in Rows, row'[r].v <= since[c], <<c, r>> \notin missed'
               PROVE  copy'[c][r].e = row'[r].e
    BY DEF NoSilentLoss
  <2>1. CASE r \in rs
    BY <2>1, <1>1
  <2>2. CASE r \notin rs
    BY <2>2, <1>2 DEF NoSilentLoss
  <2> QED BY <2>1, <2>2
<1>5. CopyIsCurrent'
  <2> SUFFICES ASSUME NEW c \in Clients, NEW r \in Rows, row'[r].v <= copy'[c][r].v,
                      <<c, r>> \notin missed'
               PROVE  copy'[c][r].e = row'[r].e
    BY DEF CopyIsCurrent
  <2>1. CASE r \in rs
    BY <2>1, <1>1
  <2>2. CASE r \notin rs
    BY <2>2, <1>2 DEF CopyIsCurrent
  <2> QED BY <2>1, <2>2
<1>6. ReadRowsStand'
  <2> SUFFICES ASSUME NEW c \in Clients, NEW r \in AlreadyRead(c)
               PROVE  seen[c][r] = row'[r] \/ <<c, r>> \in missed'
    BY <1>3 DEF ReadRowsStand
  <2> QED BY <1>1, <1>2, <1>3 DEF ReadRowsStand
<1>7. DueRowsStand'
  <2>1. \A c \in Clients : pc'[c] \in MaxLeft => pc'[c] = pc[c]
    OBVIOUS
  <2> SUFFICES ASSUME NEW c \in Clients, pc[c] \in MaxLeft, NEW r \in due[c]
               PROVE  row'[r].v > since[c] \/ <<c, r>> \in missed'
    BY <2>1 DEF DueRowsStand
  <2>2. r \in Rows /\ row'[r].v \in Nat /\ since[c] \in Nat
    BY DEF SyncTypes, Record
  <2> QED BY <2>2, <1>1, <1>2 DEF DueRowsStand
<1> QED BY <1>4, <1>5, <1>6, <1>7

-----------------------------------------------------------------------------
(* The steps *)

\* Every step of the server and of a client's call keeps the invariant.
LEMMA SyncInvNext == SyncInv /\ [Next]_vars => SyncInv'
<1> SUFFICES ASSUME SyncInv, [Next]_vars PROVE SyncInv'
  OBVIOUS
<1> USE DEF SyncInv
<1>0. ASSUME UNCHANGED <<since, copy, pc, seen, maxSv, due, row, missed>>
      PROVE  NoSilentLoss' /\ ReadRowsStand' /\ DueRowsStand' /\ CopyIsCurrent'
  BY <1>0 DEF NoSilentLoss, ReadRowsStand, DueRowsStand, CopyIsCurrent, AlreadyRead
<1>1. CASE Tick
  BY <1>0, <1>1 DEF Tick, SyncTypes, clientVars, callVars, history
<1>2. ASSUME NEW rs \in SUBSET Rows, NEW v \in Nat, Draw(rs, v) PROVE SyncInv'
  BY <1>0, <1>2 DEF Draw, SyncTypes, clientVars, callVars, history
<1>3. ASSUME NEW q \in Requests, NEW s \in Summaries, ImportBookmark(q, s) PROVE SyncInv'
  <2>1. {q, s} \in SUBSET Rows /\ clock \in Nat
    BY DEF Rows, SyncTypes
  <2> QED BY <1>2, <1>3, <2>1 DEF ImportBookmark
<1>4. ASSUME NEW r \in Rows, InsertRow(r) PROVE SyncInv'
  <2>1. {r} \in SUBSET Rows /\ clock \in Nat
    BY DEF SyncTypes
  <2> QED BY <1>2, <1>4, <2>1 DEF InsertRow
<1>5. ASSUME NEW r \in Rows, OrmUpdate(r) PROVE SyncInv'
  <2>1. {r} \in SUBSET Rows /\ clock \in Nat /\ row[r].v + 1 \in Nat
    BY DEF SyncTypes, Record
  <2>2. Max({clock, row[r].v + 1}) \in Nat
    BY <2>1, MaxOfTwo
  <2> QED BY <1>2, <1>5, <2>1, <2>2 DEF OrmUpdate
<1>6. CASE RollBackDraft
  BY <1>0, <1>6 DEF RollBackDraft, NoDraft, SyncTypes, clientVars, callVars, history
<1>7. CASE CommitDraft
  <2> USE <1>7 DEF CommitDraft, clientVars, callVars
  <2>1. draft.rows \in SUBSET Rows /\ draft.v \in Nat
    BY DEF SyncTypes
  <2>2. row' \in [Rows -> Record]
    BY <2>1 DEF SyncTypes, Record
  <2>3. missed' \subseteq Clients \X Rows
    BY <2>1 DEF SyncTypes, Missing
  <2>4. SyncTypes'
    BY <2>2, <2>3 DEF SyncTypes, NoDraft
  <2>5. (\A r \in Rows \ draft.rows : row'[r] = row[r]) /\ \A r \in draft.rows : row'[r].v = draft.v
    BY <2>1
  <2> QED BY <2>1, <2>2, <2>4, <2>5, WriteProperties
<1>8. ASSUME NEW r \in Rows, CoreUpdate(r) PROVE SyncInv'
  <2> USE <1>8 DEF CoreUpdate, clientVars, callVars
  <2>1. {r} \in SUBSET Rows /\ row[r].v \in Nat
    BY DEF SyncTypes, Record
  <2>2. row' \in [Rows -> Record]
    <3>1. row[r] \in Record
      BY DEF SyncTypes
    <3>2. [row[r] EXCEPT !.e = @ + 1] \in Record
      BY <3>1 DEF Record
    <3>3. row' = [row EXCEPT ![r] = [row[r] EXCEPT !.e = @ + 1]]
      BY DEF SyncTypes
    <3> QED BY <3>2, <3>3 DEF SyncTypes
  <2>3. missed' \subseteq Clients \X Rows
    BY <2>1 DEF SyncTypes, Missing
  <2>4. SyncTypes'
    BY <2>2, <2>3 DEF SyncTypes
  <2>5. (\A x \in Rows \ {r} : row'[x] = row[x]) /\ \A x \in {r} : row'[x].v = row[r].v
    BY DEF SyncTypes, Record
  <2> QED BY <2>1, <2>2, <2>4, <2>5, WriteProperties
<1>9. ASSUME NEW c \in Clients, ReadMaxFirst(c) PROVE SyncInv'
  <2> USE <1>9 DEF ReadMaxFirst, serverVars, clientVars
  <2>1. ASSUME NEW Q \in SUBSET Rows
        PROVE  MaxVersion(Q) \in Nat /\ \A r \in Q : row[r].v <= MaxVersion(Q)
    BY VersionsProperties DEF MaxVersion, SyncTypes
  <2>2. Requests \in SUBSET Rows /\ Summaries \in SUBSET Rows
    BY DEF Rows
  <2>3. SyncTypes'
    <3>1. MaxVersion(Requests) \in Nat /\ MaxVersion(Summaries) \in Nat
      BY <2>1, <2>2
    <3>2. due' \in [Clients -> SUBSET Rows]
      BY DEF SyncTypes
    <3>3. maxSv' \in [Clients -> Nat]
      BY <3>1 DEF SyncTypes
    <3> QED BY <3>2, <3>3 DEF SyncTypes, Goto, Calls, MaxLeft
  <2>4. NoSilentLoss' /\ CopyIsCurrent'
    BY DEF NoSilentLoss, CopyIsCurrent
  <2>5. ReadRowsStand'
    BY DEF ReadRowsStand, AlreadyRead, Goto, SyncTypes
  <2>6. DueRowsStand'
    <3> SUFFICES ASSUME NEW d \in Clients, pc'[d] \in MaxLeft, NEW r \in due'[d]
                 PROVE  /\ row[r].v > since[d] \/ <<d, r>> \in missed
                        /\ r \in Requests /\ pc'[d] = "max_summaries" => maxSv'[d] > since[d]
                        /\ r \in Summaries /\ pc'[d] = "max_requests" => maxSv'[d] > since[d]
      BY DEF DueRowsStand
    <3>1. CASE d # c
      BY <3>1 DEF DueRowsStand, Goto, SyncTypes
    <3>2. CASE d = c
      <4>1. r \in Rows /\ row[r].v > since[c] /\ row[r].v \in Nat /\ since[c] \in Nat
        BY <3>2 DEF SyncTypes, Record
      <4>2. ASSUME r \in Requests, pc'[c] = "max_summaries" PROVE maxSv'[c] > since[c]
        <5>1. maxSv'[c] = MaxVersion(Requests)
          BY <4>2 DEF Goto, SyncTypes
        <5> QED BY <4>1, <4>2, <5>1, <2>1, <2>2
      <4>3. ASSUME r \in Summaries, pc'[c] = "max_requests" PROVE maxSv'[c] > since[c]
        <5>1. maxSv'[c] = MaxVersion(Summaries)
          BY <4>3 DEF Goto, SyncTypes
        <5> QED BY <4>1, <4>3, <5>1, <2>1, <2>2
      <4> QED BY <3>2, <4>1, <4>2, <4>3
    <3> QED BY <3>1, <3>2
  <2> QED BY <2>3, <2>4, <2>5, <2>6
<1>10. ASSUME NEW c \in Clients, NotModified(c) PROVE SyncInv'
  <2> USE <1>10 DEF NotModified, Answer, Goto, serverVars, clientVars
  <2>1. SyncTypes'
    BY DEF SyncTypes, Calls
  <2>2. NoSilentLoss' /\ CopyIsCurrent'
    BY DEF NoSilentLoss, CopyIsCurrent
  <2>3. ReadRowsStand'
    BY DEF ReadRowsStand, AlreadyRead, SyncTypes
  <2>4. DueRowsStand'
    BY DEF DueRowsStand, SyncTypes, MaxLeft
  <2> QED BY <2>1, <2>2, <2>3, <2>4
<1>11. ASSUME NEW c \in Clients, Modified(c) PROVE SyncInv'
  <2> USE <1>11 DEF Modified, Goto, serverVars, clientVars, history
  <2>1. BothMax(c) \in Nat
    <3>1. ASSUME NEW Q \in SUBSET Rows PROVE MaxVersion(Q) \in Nat
      BY VersionsProperties DEF MaxVersion, SyncTypes
    <3>2. Requests \in SUBSET Rows /\ Summaries \in SUBSET Rows /\ maxSv[c] \in Nat
      BY DEF Rows, SyncTypes
    <3> QED BY <3>1, <3>2, MaxOfTwo DEF BothMax
  <2>2. SyncTypes'
    BY <2>1 DEF SyncTypes, Calls, Collecting
  <2>3. NoSilentLoss' /\ CopyIsCurrent'
    BY DEF NoSilentLoss, CopyIsCurrent
  <2>4. ReadRowsStand'
    BY DEF ReadRowsStand, AlreadyRead, SyncTypes
  <2>5. DueRowsStand'
    BY DEF DueRowsStand, SyncTypes, MaxLeft
  <2> QED BY <2>2, <2>3, <2>4, <2>5
<1>12. ASSUME NEW c \in Clients, CollectRecords(c) PROVE SyncInv'
  <2> USE <1>12 DEF CollectRecords, Collect, Goto, serverVars, clientVars, history
  <2>1. SyncTypes'
    <3>1. Collected(c, Requests) \in [Rows -> Record] /\ Collected(c, Summaries) \in [Rows -> Record]
      BY DEF Collected, SyncTypes
    <3>2. seen' \in [Clients -> [Rows -> Record]]
      BY <3>1 DEF SyncTypes
    <3> QED BY <3>2 DEF SyncTypes, Calls, Collecting
  <2>2. NoSilentLoss' /\ CopyIsCurrent'
    BY DEF NoSilentLoss, CopyIsCurrent
  <2>3. ReadRowsStand'
    <3> SUFFICES ASSUME NEW d \in Clients, NEW r \in AlreadyRead(d)'
                 PROVE  seen'[d][r] = row[r] \/ <<d, r>> \in missed
      BY DEF ReadRowsStand
    <3>1. CASE d # c
      <4>1. r \in AlreadyRead(d) /\ seen'[d] = seen[d]
        BY <3>1 DEF AlreadyRead, SyncTypes
      <4> QED BY <4>1 DEF ReadRowsStand
    <3>2. CASE d = c /\ pc[c] = "requests"
      <4>1. r \in Requests /\ seen'[c] = Collected(c, Requests)
        BY <3>2 DEF AlreadyRead, SyncTypes
      <4> QED BY <4>1, <3>2 DEF Collected, Rows
    <3>3. CASE d = c /\ pc[c] = "summaries"
      <4>1. r \in Requests \cup Summaries /\ seen'[c] = Collected(c, Summaries)
        BY <3>3 DEF AlreadyRead, SyncTypes
      <4>2. r \in Requests => r \in AlreadyRead(c)
        BY <3>3 DEF AlreadyRead
      <4> QED BY <4>1, <4>2, <3>3 DEF Collected, Rows, ReadRowsStand
    <3> QED BY <3>1, <3>2, <3>3
  <2>4. DueRowsStand'
    BY DEF DueRowsStand, SyncTypes, MaxLeft
  <2> QED BY <2>1, <2>2, <2>3, <2>4
<1>13. ASSUME NEW c \in Clients, PaginateRecords(c) PROVE SyncInv'
  <2> DEFINE s == Collected(c, Highlights)
             F == Filtered(s, since[c])
             P == Page(s, since[c])
             next == NextSince(s, since[c])
             cut == {r \in F \ P : \E q \in P : s[q].v = s[r].v}
  <2>1. /\ pc[c] = "highlights"
        /\ copy' = [copy EXCEPT ![c] = [r \in Rows |-> IF r \in P THEN s[r] ELSE @[r]]]
        /\ since' = [since EXCEPT ![c] = next]
        /\ more' = [more EXCEPT ![c] = HasMore(s, since[c])]
        /\ etag' = [etag EXCEPT ![c] = maxSv[c]]
        /\ missed' = (missed \ {<<c, r>> : r \in {x \in P : s[x] = row[x]}})
                       \cup {<<c, r>> : r \in {x \in cut : s[x].v <= next}}
        /\ Answer(c)
        /\ seen' = [seen EXCEPT ![c] = Nothing]
        /\ UNCHANGED <<serverVars, item, stamp>>
    BY <1>13 DEF PaginateRecords
  <2>2. s \in [Rows -> Record] /\ since[c] \in Nat
    BY DEF SyncTypes, Collected
  <2>3. \A r \in Rows : s[r] = row[r] \/ <<c, r>> \in missed
    BY <2>1 DEF ReadRowsStand, AlreadyRead, Collected, Rows
  <2>4. /\ P \subseteq F /\ F \subseteq Rows
        /\ \A q \in P, r \in F \ P : s[q].v <= s[r].v
    <3> HIDE DEF s
    <3> QED BY <2>2, PageProperties
  <2>5. /\ next \in Nat /\ since[c] <= next
        /\ \A r \in P : s[r].v <= next
        /\ next = since[c] \/ \E r \in P : next = s[r].v
    <3> HIDE DEF s
    <3> QED BY <2>2, <2>4, VersionsProperties DEF NextSince
  <2>6. \A r \in Rows : r \in F <=> s[r].v > since[c]
    BY DEF Filtered
  <2>7. ASSUME NEW r \in Rows, <<c, r>> \notin missed', r \notin P PROVE <<c, r>> \notin missed
    BY <2>1, <2>7
  <2> HIDE DEF s, F, P, next
  <2>8. \A r \in Rows : s[r].v \in Nat /\ row[r].v \in Nat
    BY <2>2 DEF SyncTypes, Record
  <2>9. SyncTypes'
    <3>1. [r \in Rows |-> IF r \in P THEN s[r] ELSE copy[c][r]] \in [Rows -> Record]
      BY <2>2 DEF SyncTypes
    <3>2. copy' \in [Clients -> [Rows -> Record]]
      BY <2>1, <3>1 DEF SyncTypes
    <3>3. seen' \in [Clients -> [Rows -> Record]]
      BY <2>1 DEF SyncTypes, Nothing, Absent, Record
    <3>4. missed' \subseteq Clients \X Rows
      BY <2>1, <2>4 DEF SyncTypes
    <3>5. HasMore(s, since[c]) \in BOOLEAN
      BY DEF HasMore
    <3> QED BY <2>1, <2>5, <3>2, <3>3, <3>4, <3>5 DEF SyncTypes, Answer, Goto, Calls, serverVars
  <2>10. \A d \in Clients, r \in Rows :
           copy'[d][r] = IF d = c /\ r \in P THEN s[r] ELSE copy[d][r]
    BY <2>1 DEF SyncTypes
  <2>11. \A d \in Clients, r \in Rows : d # c => (<<d, r>> \in missed' <=> <<d, r>> \in missed)
    BY <2>1
  <2>12. ASSUME NEW r \in P, <<c, r>> \notin missed' PROVE copy'[c][r] = row[r]
    <3>1. s[r] = row[r]
      BY <2>1, <2>3, <2>4, <2>12
    <3> QED BY <3>1, <2>4, <2>10
  <2>13. NoSilentLoss'
    <3> SUFFICES ASSUME NEW d \in Clients, NEW r \in Rows, row[r].v <= since'[d], <<d, r>> \notin missed'
                 PROVE  copy'[d][r].e = row[r].e
      BY <2>1 DEF NoSilentLoss, serverVars
    <3>1. CASE d # c
      BY <3>1, <2>1, <2>10, <2>11 DEF NoSilentLoss, SyncTypes
    <3>2. CASE d = c /\ r \in P
      BY <3>2, <2>12
    <3>3. CASE d = c /\ r \notin P
      <4>1. <<c, r>> \notin missed /\ s[r] = row[r] /\ copy'[c][r] = copy[c][r]
        BY <3>3, <2>3, <2>7, <2>10
      <4>2. since'[c] = next
        BY <2>1 DEF SyncTypes
      <4>3. r \notin F
        <5> SUFFICES ASSUME r \in F PROVE FALSE
          OBVIOUS
        <5>1. s[r].v <= next /\ s[r].v > since[c]
          BY <3>3, <4>1, <4>2, <2>6
        <5>2. PICK q \in P : next = s[q].v
          BY <5>1, <2>5, <2>8, <2>2
        <5>3. s[q].v = s[r].v
          BY <5>1, <5>2, <3>3, <2>4, <2>5, <2>8
        <5>4. r \in cut
          BY <5>3, <3>3
        <5> QED BY <5>1, <5>4, <2>1, <3>3
      <4>4. row[r].v <= since[c]
        BY <4>1, <4>3, <2>2, <2>6, <2>8
      <4> QED BY <3>3, <4>1, <4>4 DEF NoSilentLoss
    <3> QED BY <3>1, <3>2, <3>3
  <2>14. CopyIsCurrent'
    <3> SUFFICES ASSUME NEW d \in Clients, NEW r \in Rows, row[r].v <= copy'[d][r].v,
                        <<d, r>> \notin missed'
                 PROVE  copy'[d][r].e = row[r].e
      BY <2>1 DEF CopyIsCurrent, serverVars
    <3>1. CASE d # c
      BY <3>1, <2>10, <2>11 DEF CopyIsCurrent
    <3>2. CASE d = c /\ r \in P
      BY <3>2, <2>12
    <3>3. CASE d = c /\ r \notin P
      BY <3>3, <2>7, <2>10 DEF CopyIsCurrent
    <3> QED BY <3>1, <3>2, <3>3
  <2>15. ReadRowsStand'
    <3> SUFFICES ASSUME NEW d \in Clients, NEW r \in AlreadyRead(d)'
                 PROVE  seen'[d][r] = row[r] \/ <<d, r>> \in missed'
      BY <2>1 DEF ReadRowsStand, serverVars
    <3>1. d # c
      BY <2>1 DEF AlreadyRead, Answer, Goto, SyncTypes
    <3>2. r \in AlreadyRead(d) /\ seen'[d] = seen[d] /\ r \in Rows
      BY <3>1, <2>1 DEF AlreadyRead, Answer, Goto, SyncTypes, Rows
    <3> QED BY <3>1, <3>2, <2>11 DEF ReadRowsStand
  <2>16. DueRowsStand'
    <3> SUFFICES ASSUME NEW d \in Clients, pc'[d] \in MaxLeft, NEW r \in due'[d]
                 PROVE  /\ row[r].v > since'[d] \/ <<d, r>> \in missed'
                        /\ r \in Requests /\ pc'[d] = "max_summaries" => maxSv'[d] > since'[d]
                        /\ r \in Summaries /\ pc'[d] = "max_requests" => maxSv'[d] > since'[d]
      BY <2>1 DEF DueRowsStand, serverVars
    <3>1. d # c
      BY <2>1 DEF Answer, Goto, SyncTypes, MaxLeft
    <3>2. /\ pc'[d] = pc[d] /\ due'[d] = due[d] /\ maxSv'[d] = maxSv[d] /\ since'[d] = since[d]
          /\ r \in Rows
      BY <3>1, <2>1 DEF Answer, Goto, SyncTypes
    <3> QED BY <3>1, <3>2, <2>11 DEF DueRowsStand
  <2> QED BY <2>9, <2>13, <2>14, <2>15, <2>16
<1>14. ASSUME NEW c \in Clients, NEW r \in Summaries, SendChange(c, r) PROVE SyncInv'
  <2> USE <1>14 DEF SendChange, Goto, serverVars, clientVars, history
  <2>1. SyncTypes'
    BY DEF SyncTypes, Calls, Rows
  <2>2. NoSilentLoss' /\ CopyIsCurrent'
    BY DEF NoSilentLoss, CopyIsCurrent
  <2>3. ReadRowsStand'
    BY DEF ReadRowsStand, AlreadyRead, SyncTypes
  <2>4. DueRowsStand'
    BY DEF DueRowsStand, SyncTypes, MaxLeft
  <2> QED BY <2>1, <2>2, <2>3, <2>4
<1>15. ASSUME NEW c \in Clients, RefuseChange(c) PROVE SyncInv'
  <2> USE <1>15 DEF RefuseChange, Goto, serverVars
  <2>1. item[c] \in Rows
    BY DEF SyncTypes
  <2>2. SyncTypes'
    BY <2>1 DEF SyncTypes, Calls
  <2>3. /\ \A d \in Clients, x \in Rows :
             copy'[d][x] = IF d = c /\ x = item[c] THEN row[x] ELSE copy[d][x]
        /\ \A d \in Clients, x \in Rows : <<d, x>> # <<c, item[c]>> =>
             (<<d, x>> \in missed' <=> <<d, x>> \in missed)
    BY <2>1 DEF SyncTypes
  <2>4. NoSilentLoss' /\ CopyIsCurrent'
    BY <2>3 DEF NoSilentLoss, CopyIsCurrent
  <2>5. ReadRowsStand'
    BY DEF ReadRowsStand, AlreadyRead, SyncTypes
  <2>6. DueRowsStand'
    BY DEF DueRowsStand, SyncTypes, MaxLeft
  <2> QED BY <2>2, <2>4, <2>5, <2>6
<1>16. ASSUME NEW c \in Clients, AcceptChange(c) \/ DrawStamp(c) PROVE SyncInv'
  <2> USE <1>16 DEF AcceptChange, DrawStamp, Goto, serverVars, clientVars, history
  <2>1. SyncTypes'
    <3>1. CASE AcceptChange(c)
      BY <3>1 DEF SyncTypes, Calls
    <3>2. CASE DrawStamp(c)
      BY <3>2 DEF SyncTypes, Calls
    <3> QED BY <3>1, <3>2
  <2>2. NoSilentLoss' /\ CopyIsCurrent'
    BY DEF NoSilentLoss, CopyIsCurrent
  <2>3. ReadRowsStand'
    BY DEF ReadRowsStand, AlreadyRead, SyncTypes
  <2>4. DueRowsStand'
    BY DEF DueRowsStand, SyncTypes, MaxLeft
  <2> QED BY <2>1, <2>2, <2>3, <2>4
<1>17. ASSUME NEW c \in Clients, ApplyChange(c) PROVE SyncInv'
  <2> DEFINE r == item[c]
             upToDate == copy[c][r].e = row[r].e
             known == [v |-> stamp[c], e |-> IF upToDate THEN copy[c][r].e + 1 ELSE copy[c][r].e]
  <2>1. /\ pc[c] = "write"
        /\ row' = [row EXCEPT ![r] = [v |-> stamp[c], e |-> @.e + 1]]
        /\ copy' = [copy EXCEPT ![c][r] = known]
        /\ missed' = Missing({r}, stamp[c]) \cup (IF upToDate THEN {} ELSE {<<c, r>>})
        /\ Goto(c, "idle")
        /\ stamp' = [stamp EXCEPT ![c] = 0]
        /\ UNCHANGED <<clock, draft, since, more, etag, maxSv, seen, item, due>>
    BY <1>17 DEF ApplyChange, SyncTypes
  <2>2. r \in Rows /\ stamp[c] \in Nat /\ row[r] \in Record /\ copy[c][r] \in Record
    BY <2>1 DEF SyncTypes
  <2>3. row' \in [Rows -> Record] /\ known \in Record
    BY <2>1, <2>2 DEF SyncTypes, Record
  <2>4. missed' \subseteq Clients \X Rows
    BY <2>1, <2>2 DEF SyncTypes, Missing
  <2>5. SyncTypes'
    <3>1. copy' \in [Clients -> [Rows -> Record]]
      BY <2>1, <2>2, <2>3 DEF SyncTypes
    <3> QED BY <2>1, <2>3, <2>4, <3>1 DEF SyncTypes, Goto, Calls
  <2>6. /\ \A x \in Rows \ {r} : row'[x] = row[x]
        /\ row'[r] = [v |-> stamp[c], e |-> row[r].e + 1]
    BY <2>1, <2>2 DEF SyncTypes
  <2>7. \A d \in Clients, x \in Rows :
          copy'[d][x] = IF d = c /\ x = r THEN known ELSE copy[d][x]
    BY <2>1, <2>2 DEF SyncTypes
  <2>8. <<c, r>> \in missed' \/ copy'[c][r].e = row'[r].e
    BY <2>1, <2>2, <2>6, <2>7
  <2>9. \A d \in Clients :
          pc'[d] = pc[d] \/ {pc[d], pc'[d]} \cap (MaxLeft \cup Collecting) = {}
    BY <2>1 DEF Goto, SyncTypes, MaxLeft, Collecting
  <2>10. Missing({r}, stamp[c]) \subseteq missed'
    BY <2>1
  <2> HIDE DEF r, known, upToDate
  <2>12. {r} \in SUBSET Rows /\ \A x \in {r} : row'[x].v = stamp[c]
    BY <2>2, <2>6
  <2>13. \A d \in Clients, x \in Rows \ {r} : copy'[d][x] = copy[d][x]
    BY <2>7
  <2>14. \A d \in Clients, x \in {r} :
           copy'[d][x] = copy[d][x] \/ <<d, x>> \in missed' \/ copy'[d][x].e = row'[x].e
    BY <2>2, <2>7, <2>8
  <2>11. NoSilentLoss' /\ ReadRowsStand' /\ DueRowsStand' /\ CopyIsCurrent'
    <3>1. UNCHANGED <<since, seen, maxSv, due>>
      BY <2>1
    <3>2. PICK rs \in SUBSET Rows : rs = {r}
      BY <2>12
    <3>3. PICK v \in Nat : v = stamp[c]
      BY <2>2
    <3>4. row' \in [Rows -> Record]
      BY <2>3
    <3>5. \A x \in Rows \ rs : row'[x] = row[x]
      BY <2>6, <3>2
    <3>6. \A x \in rs : row'[x].v = v
      BY <2>12, <3>2, <3>3
    <3>7. Missing(rs, v) \subseteq missed'
      BY <2>10, <3>2, <3>3
    <3>8. \A d \in Clients, x \in Rows \ rs : copy'[d][x] = copy[d][x]
      BY <2>13, <3>2
    <3>9. \A d \in Clients, x \in rs :
            copy'[d][x] = copy[d][x] \/ <<d, x>> \in missed' \/ copy'[d][x].e = row'[x].e
      BY <2>14, <3>2
    <3> QED BY ONLY SyncInv, <3>1, <3>2, <3>3, <3>4, <3>5, <3>6, <3>7, <3>8, <3>9, <2>9, WriteProperties
  <2> QED BY <2>5, <2>11
<1>18. CASE UNCHANGED vars
  BY <1>0, <1>18 DEF vars, serverVars, clientVars, callVars, history, SyncTypes
<1> QED
  BY <1>1, <1>3, <1>4, <1>5, <1>6, <1>7, <1>8, <1>9, <1>10, <1>11, <1>12, <1>13, <1>14, <1>15,
     <1>16, <1>17, <1>18 DEF Next, ServerWrite, Delta, Apply

-----------------------------------------------------------------------------
(* The properties *)

\* Delta sync loses an edit only in the ways that are recorded in missed, whatever the order of
\* versions, commits, pages and changes.
THEOREM NothingLostSilently == Spec => []NoSilentLoss
<1>1. SyncInv => NoSilentLoss
  BY DEF SyncInv
<1> QED BY SyncInvInit, SyncInvNext, <1>1, PTL DEF Spec

\* Only a client's own steps move its call.
LEMMA CallSteps ==
  ASSUME SyncTypes, [Next]_vars, NEW c \in Clients, pc'[c] # pc[c]
  PROVE  Delta(c) \/ Apply(c) \/ \E r \in Summaries : SendChange(c, r)
<1> SUFFICES ASSUME ~(Delta(c) \/ Apply(c) \/ \E r \in Summaries : SendChange(c, r)) PROVE pc'[c] = pc[c]
  OBVIOUS
<1>1. CASE UNCHANGED vars
  BY <1>1 DEF vars, callVars
<1>2. CASE Tick \/ ServerWrite
  BY <1>2 DEF Tick, ServerWrite, ImportBookmark, InsertRow, OrmUpdate, CoreUpdate, CommitDraft,
              RollBackDraft, Draw, callVars
<1>3. ASSUME NEW d \in Clients, Delta(d) \/ Apply(d) \/ \E r \in Summaries : SendChange(d, r)
      PROVE  pc'[c] = pc[c]
  <2>1. d # c
    BY <1>3
  <2>2. \E place : pc' = [pc EXCEPT ![d] = place]
    <3>1. CASE Delta(d)
      BY <3>1 DEF Delta, ReadMaxFirst, NotModified, Modified, CollectRecords, Collect, PaginateRecords,
                  Answer, Goto
    <3>2. CASE Apply(d)
      BY <3>2 DEF Apply, RefuseChange, AcceptChange, DrawStamp, ApplyChange, Goto
    <3>3. CASE \E r \in Summaries : SendChange(d, r)
      BY <3>3 DEF SendChange, Goto
    <3> QED BY <1>3, <3>1, <3>2, <3>3
  <2> QED BY <2>1, <2>2 DEF SyncTypes
<1> QED BY <1>1, <1>2, <1>3 DEF Next

\* A collection ends with its page, a call that has read its maxima with a 304, a check with
\* the change accepted.
LEMMA CallEnds ==
  ASSUME SyncTypes, [Next]_vars, NEW c \in Clients
  PROVE  /\ pc[c] = "highlights" /\ pc'[c] = "idle" => PaginateRecords(c)
         /\ pc[c] \in MaxLeft /\ pc'[c] = "idle" => NotModified(c)
         /\ pc[c] = "check" /\ pc'[c] = "stamp" => AcceptChange(c)
<1> SUFFICES ASSUME pc'[c] # pc[c]
             PROVE  /\ pc[c] = "highlights" /\ pc'[c] = "idle" => PaginateRecords(c)
                    /\ pc[c] \in MaxLeft /\ pc'[c] = "idle" => NotModified(c)
                    /\ pc[c] = "check" /\ pc'[c] = "stamp" => AcceptChange(c)
  BY DEF MaxLeft
<1>1. pc[c] \in Calls /\ \A place : Goto(c, place) => pc'[c] = place
  BY DEF SyncTypes, Goto
<1>2. ReadMaxFirst(c) => pc[c] = "idle"
  BY DEF ReadMaxFirst
<1>3. Modified(c) => pc'[c] = "requests"
  BY <1>1 DEF Modified
<1>4. CollectRecords(c) => pc'[c] \in Collecting
  BY <1>1 DEF CollectRecords, Collect, Collecting
<1>5. NotModified(c) => pc[c] \in MaxLeft
  BY DEF NotModified
<1>6. PaginateRecords(c) => pc[c] = "highlights"
  BY DEF PaginateRecords
<1>7. RefuseChange(c) => pc'[c] = "idle" /\ pc[c] = "check"
  BY <1>1 DEF RefuseChange
<1>8. AcceptChange(c) => pc[c] = "check"
  BY DEF AcceptChange
<1>9. DrawStamp(c) => pc[c] = "stamp"
  BY DEF DrawStamp
<1>10. ApplyChange(c) => pc[c] = "write"
  BY DEF ApplyChange
<1>11. (\E r \in Summaries : SendChange(c, r)) => pc[c] = "idle"
  BY DEF SendChange
<1> QED BY CallSteps, <1>2, <1>3, <1>4, <1>5, <1>6, <1>7, <1>8, <1>9, <1>10, <1>11
        DEF Delta, Apply, MaxLeft, Collecting

\* After has_more = false nothing that the call saw is left above the cursor; a 304 hides
\* nothing that was due but what has escaped; a change is accepted only on the current row.
THEOREM AnswersSound == Spec => AnswersAreSound
<1>1. ASSUME SyncInv, [Next]_vars, NEW c \in Clients,
             pc[c] = "highlights", pc'[c] = "idle", ~more'[c], NEW r \in Rows
      PROVE  Collected(c, Highlights)[r].v <= since'[c]
  <2> DEFINE s == Collected(c, Highlights)
  <2>1. s \in [Rows -> Record] /\ since[c] \in Nat
    BY <1>1 DEF SyncInv, SyncTypes, Collected
  <2>2. /\ since' = [since EXCEPT ![c] = NextSince(s, since[c])]
        /\ more' = [more EXCEPT ![c] = HasMore(s, since[c])]
    BY <1>1, CallEnds DEF PaginateRecords, SyncInv
  <2>3. since'[c] = NextSince(s, since[c]) /\ ~HasMore(s, since[c])
    BY <2>2, <1>1 DEF SyncInv, SyncTypes
  <2> HIDE DEF s
  <2>4. Page(s, since[c]) = Filtered(s, since[c]) /\ Page(s, since[c]) \in SUBSET Rows
    BY <2>1, <2>3, PageProperties
  <2>5. /\ NextSince(s, since[c]) \in Nat /\ since[c] <= NextSince(s, since[c])
        /\ \A x \in Page(s, since[c]) : s[x].v <= NextSince(s, since[c])
    BY <2>1, <2>4, VersionsProperties DEF NextSince
  <2>6. s[r].v <= since'[c]
    <3>1. s[r].v \in Nat
      BY <2>1 DEF Record
    <3>2. CASE s[r].v > since[c]
      BY <3>2, <2>3, <2>4, <2>5 DEF Filtered
    <3>3. CASE s[r].v <= since[c]
      BY <3>1, <3>3, <2>1, <2>3, <2>5
    <3> QED BY <3>1, <3>2, <3>3, <2>1
  <2> QED BY <2>6 DEF s
<1>2. ASSUME SyncInv, [Next]_vars, NEW c \in Clients,
             pc[c] \in MaxLeft, pc'[c] = "idle", etag[c] <= since[c], NEW r \in due[c] \ Highlights
      PROVE  <<c, r>> \in missed
  <2>1. Matches(c)
    BY <1>2, CallEnds DEF NotModified, SyncInv
  <2>2. ASSUME NEW Q \in SUBSET Rows
        PROVE  MaxVersion(Q) \in Nat /\ \A x \in Q : row[x].v <= MaxVersion(Q)
    BY <1>2, VersionsProperties DEF MaxVersion, SyncInv, SyncTypes
  <2>3. r \in Requests \cup Summaries /\ r \in Rows
    BY <1>2 DEF SyncInv, SyncTypes, Rows
  <2>4. /\ maxSv[c] \in Nat /\ since[c] \in Nat /\ etag[c] \in Nat /\ row[r].v \in Nat
        /\ MaxVersion(Requests) \in Nat /\ MaxVersion(Summaries) \in Nat
        /\ \A x \in Requests : row[x].v <= MaxVersion(Requests)
        /\ \A x \in Summaries : row[x].v <= MaxVersion(Summaries)
    BY <1>2, <2>2, <2>3 DEF SyncInv, SyncTypes, Record, Rows
  <2>5. /\ row[r].v > since[c] \/ <<c, r>> \in missed
        /\ r \in Requests /\ pc[c] = "max_summaries" => maxSv[c] > since[c]
        /\ r \in Summaries /\ pc[c] = "max_requests" => maxSv[c] > since[c]
    BY <1>2 DEF SyncInv, DueRowsStand
  <2>6. CASE pc[c] = "max_requests"
    <3>1. MaxVersion(Requests) <= since[c] /\ maxSv[c] <= since[c]
      BY <2>1, <2>4, <2>6, <1>2, MaxOfTwo DEF Matches, BothMax
    <3> QED BY <3>1, <2>3, <2>4, <2>5, <2>6
  <2>7. CASE pc[c] = "max_summaries"
    <3>1. MaxVersion(Summaries) <= since[c] /\ maxSv[c] <= since[c]
      BY <2>1, <2>4, <2>7, <1>2, MaxOfTwo DEF Matches, BothMax
    <3> QED BY <3>1, <2>3, <2>4, <2>5, <2>7
  <2> QED BY <1>2, <2>6, <2>7 DEF MaxLeft
<1>3. ASSUME SyncInv, [Next]_vars, NEW c \in Clients, pc[c] = "check", pc'[c] = "stamp"
      PROVE  copy[c][item[c]].e = row[item[c]].e \/ <<c, item[c]>> \in missed
  <2>1. ~Conflict(c)
    BY <1>3, CallEnds DEF AcceptChange, SyncInv
  <2>2. item[c] \in Rows /\ row[item[c]].v \in Nat /\ copy[c][item[c]].v \in Nat
    BY <1>3 DEF SyncInv, SyncTypes, Record
  <2> QED BY <2>1, <2>2, <1>3 DEF Conflict, SyncInv, CopyIsCurrent
<1>4. SyncInv /\ [Next]_vars =>
        [\A c \in Clients :
           pc[c] = "highlights" /\ pc'[c] = "idle" /\ ~more'[c]
             => \A r \in Rows : Collected(c, Highlights)[r].v <= since'[c]]_vars
  BY <1>1
<1>5. SyncInv /\ [Next]_vars =>
        [\A c \in Clients :
           pc[c] \in MaxLeft /\ pc'[c] = "idle" /\ etag[c] <= since[c]
             => \A r \in due[c] \ Highlights : <<c, r>> \in missed]_vars
  BY <1>2
<1>6. SyncInv /\ [Next]_vars =>
        [\A c \in Clients :
           pc[c] = "check" /\ pc'[c] = "stamp"
             => copy[c][item[c]].e = row[item[c]].e \/ <<c, item[c]>> \in missed]_vars
  BY <1>3
<1> QED BY SyncInvInit, SyncInvNext, <1>4, <1>5, <1>6, PTL
        DEF Spec, AnswersAreSound, LastPageIsLast, NotModifiedIsSound, StaleChangeRefused

\* Each page that is not the last moves the cursor.
THEOREM PagesMoveOn == Spec => PagesAdvance
<1>1. ASSUME SyncInv, [Next]_vars, NEW c \in Clients,
             pc[c] = "highlights", pc'[c] = "idle", more'[c]
      PROVE  since'[c] > since[c]
  <2> DEFINE s == Collected(c, Highlights)
  <2>1. s \in [Rows -> Record] /\ since[c] \in Nat
    BY <1>1 DEF SyncInv, SyncTypes, Collected
  <2>2. /\ since' = [since EXCEPT ![c] = NextSince(s, since[c])]
        /\ more' = [more EXCEPT ![c] = HasMore(s, since[c])]
    BY <1>1, CallEnds DEF PaginateRecords, SyncInv
  <2>3. since'[c] = NextSince(s, since[c]) /\ HasMore(s, since[c])
    BY <2>2, <1>1 DEF SyncInv, SyncTypes
  <2> HIDE DEF s
  <2>4. Filtered(s, since[c]) # {}
    BY <2>3, FS_EmptySet, SyncAssumption DEF HasMore
  <2>5. PICK x \in Page(s, since[c]) : TRUE
    BY <2>1, <2>4, PageProperties
  <2>6. x \in Filtered(s, since[c]) /\ Page(s, since[c]) \in SUBSET Rows
    BY <2>1, <2>5, PageProperties
  <2>7. NextSince(s, since[c]) \in Nat /\ s[x].v <= NextSince(s, since[c])
    BY <2>1, <2>5, <2>6, VersionsProperties DEF NextSince
  <2>8. s[x].v \in Nat /\ s[x].v > since[c]
    BY <2>1, <2>6 DEF Filtered, Record
  <2> QED BY <2>1, <2>3, <2>7, <2>8
<1>2. SyncInv /\ [Next]_vars =>
        [\A c \in Clients :
           pc[c] = "highlights" /\ pc'[c] = "idle" /\ more'[c] => since'[c] > since[c]]_vars
  BY <1>1
<1> QED BY SyncInvInit, SyncInvNext, <1>2, PTL DEF Spec, PagesAdvance

-----------------------------------------------------------------------------
(* The bounds of versions and edits *)

\* The clients that are about to change a row.
ChangesOf(r) == {c \in Clients : pc[c] \in {"check", "stamp", "write"} /\ item[c] = r}
Drafted(r) == IF r \in draft.rows THEN 1 ELSE 0
Highest == MaxClock + MaxEdits

\* The edits made and those begun: what is begun may still be carried out.
EditsFit ==
  \A r \in Rows :
    row[r].e + Cardinality(ChangesOf(r)) + Drafted(r) <= MaxEdits + Cardinality(Clients) + 1

\* A version is the clock's, or that of an earlier edit and one more.
VersionsFit ==
  /\ clock \in 1..MaxClock /\ draft.v <= Highest
  /\ \A r \in Rows : row[r].v <= MaxClock + row[r].e /\ row[r].v <= Highest
  /\ \A r \in draft.rows : draft.v <= MaxClock + row[r].e + 1
  /\ \A c \in Clients : stamp[c] <= MaxClock

\* What calls and clients know of versions and edits is within the same bounds.
BoundRecord == [v : Versions, e : Edits]
CallsFit ==
  /\ since \in [Clients -> Versions] /\ etag \in [Clients -> Versions]
  /\ maxSv \in [Clients -> Versions] /\ item \in [Clients -> Rows]
  /\ copy \in [Clients -> [Rows -> BoundRecord]] /\ seen \in [Clients -> [Rows -> BoundRecord]]

\* An edit begins only where fewer than MaxEdits have been made.
LEMMA BeginsBelow ==
  ASSUME SyncTypes, MayWrite, NEW r \in Rows
  PROVE  row[r].e + 1 <= MaxEdits
<1> SUFFICES ASSUME ~(row[r].e + 1 <= MaxEdits) PROVE FALSE
  OBVIOUS
<1>1. MaxEdits \in Nat /\ row[r].e \in Nat
  BY SyncAssumption DEF SyncTypes, Record
<1>2. \A n \in 1..MaxEdits : n <= row[r].e
  BY <1>1
<1>3. {r} \X (1..MaxEdits) \in SUBSET EditsMade
  BY <1>2 DEF EditsMade
<1>4. IsFiniteSet(1..MaxEdits) /\ Cardinality(1..MaxEdits) = MaxEdits
  BY <1>1, FS_Interval
<1>5. IsFiniteSet(EditsMade)
  <2>1. IsFiniteSet(Rows \X (1..MaxEdits))
    BY <1>4, SyncAssumption, FS_Product
  <2>2. EditsMade \in SUBSET (Rows \X (1..MaxEdits))
    BY DEF EditsMade
  <2> QED BY <2>1, <2>2, FS_Subset
<1>6. Cardinality({r} \X (1..MaxEdits)) = MaxEdits
  <2>1. IsFiniteSet({r}) /\ Cardinality({r}) = 1
    BY FS_Singleton
  <2>2. PICK T : T = 1..MaxEdits /\ IsFiniteSet(T) /\ Cardinality(T) = MaxEdits
    BY <1>4
  <2>3. Cardinality({r} \X T) = Cardinality({r}) * Cardinality(T)
    BY <2>1, <2>2, FS_Product
  <2>4. Cardinality({r} \X T) = MaxEdits
    BY <2>1, <2>2, <2>3, <1>1
  <2> QED BY <2>2, <2>4
<1>7. Cardinality(EditsMade) \in Nat /\ MaxEdits <= Cardinality(EditsMade)
  BY <1>3, <1>5, <1>6, FS_Subset, FS_CardinalityType
<1> QED BY <1>1, <1>7 DEF MayWrite

\* The clients at a row are finitely many, and come and go one at a time.
LEMMA ChangesCounted ==
  ASSUME IsFiniteSet(Clients), NEW r
  PROVE  /\ Cardinality(Clients) \in Nat /\ Cardinality(ChangesOf(r)) \in Nat
         /\ Cardinality(ChangesOf(r)) <= Cardinality(Clients)
         /\ IsFiniteSet(ChangesOf(r))
<1>1. ChangesOf(r) \in SUBSET Clients
  BY DEF ChangesOf
<1> QED BY <1>1, FS_Subset, FS_CardinalityType

\* The clients that keep their place at a row, or leave it, are no more than before.
LEMMA ChangesShrink ==
  ASSUME IsFiniteSet(Clients), NEW r, ChangesOf(r)' \subseteq ChangesOf(r)
  PROVE  /\ Cardinality(ChangesOf(r)') \in Nat
         /\ Cardinality(ChangesOf(r)') <= Cardinality(ChangesOf(r))
BY ChangesCounted, FS_Subset, FS_CardinalityType

\* Every edit is carried out once at most for each time that it was begun.
LEMMA EditsFitNext ==
  ASSUME IsFiniteSet(Clients), SyncTypes, EditsFit, [Next]_vars PROVE EditsFit'
<1> DEFINE Bound == MaxEdits + Cardinality(Clients) + 1
           n(r) == Cardinality(ChangesOf(r))
<1>0. /\ MaxEdits \in Nat /\ Cardinality(Clients) \in Nat
      /\ \A r \in Rows : row[r].e \in Nat /\ Drafted(r) \in 0..1
      /\ \A r : n(r) \in Nat /\ n(r) <= Cardinality(Clients)
  BY SyncAssumption, ChangesCounted DEF SyncTypes, Record, Drafted
<1>1. ASSUME \A r \in Rows : row'[r].e = row[r].e, \A r : ChangesOf(r)' \subseteq ChangesOf(r),
             draft' = draft
      PROVE  EditsFit'
  <2> SUFFICES ASSUME NEW r \in Rows
               PROVE  row'[r].e + Cardinality(ChangesOf(r)') + Drafted(r)' <= Bound
    BY DEF EditsFit
  <2>1. row[r].e + n(r) + Drafted(r) <= Bound
    BY DEF EditsFit
  <2>2. Cardinality(ChangesOf(r)') \in Nat /\ Cardinality(ChangesOf(r)') <= n(r)
    BY <1>1, ChangesShrink
  <2>3. row'[r].e = row[r].e /\ Drafted(r)' = Drafted(r)
    BY <1>1 DEF Drafted
  <2> HIDE DEF n
  <2> QED BY <1>0, <2>1, <2>2, <2>3
<1>2. ASSUME NEW rs \in SUBSET Rows, NEW v \in Nat, Draw(rs, v) PROVE EditsFit'
  <2> SUFFICES ASSUME NEW r \in Rows
               PROVE  row'[r].e + Cardinality(ChangesOf(r)') + Drafted(r)' <= Bound
    BY DEF EditsFit
  <2>1. row' = row /\ ChangesOf(r)' = ChangesOf(r) /\ Drafted(r)' \in 0..1
    BY <1>2 DEF Draw, ChangesOf, callVars, Drafted
  <2>2. row[r].e + 1 <= MaxEdits
    BY <1>2, BeginsBelow DEF Draw
  <2>3. Cardinality(ChangesOf(r)') = n(r)
    BY <2>1
  <2> HIDE DEF n
  <2> QED BY <1>0, <2>1, <2>2, <2>3
<1>3. ASSUME NEW q \in Requests, NEW s \in Summaries, ImportBookmark(q, s) PROVE EditsFit'
  <2>1. {q, s} \in SUBSET Rows /\ clock \in Nat
    BY DEF Rows, SyncTypes
  <2> QED BY <1>2, <1>3, <2>1 DEF ImportBookmark
<1>4. ASSUME NEW r \in Rows, InsertRow(r) PROVE EditsFit'
  <2>1. {r} \in SUBSET Rows /\ clock \in Nat
    BY DEF SyncTypes
  <2> QED BY <1>2, <1>4, <2>1 DEF InsertRow
<1>5. ASSUME NEW r \in Rows, OrmUpdate(r) PROVE EditsFit'
  <2>1. {r} \in SUBSET Rows /\ clock \in Nat /\ row[r].v + 1 \in Nat
    BY DEF SyncTypes, Record
  <2>2. Max({clock, row[r].v + 1}) \in Nat
    BY <2>1, MaxOfTwo
  <2> QED BY <1>2, <1>5, <2>1, <2>2 DEF OrmUpdate
<1>6. CASE RollBackDraft \/ CommitDraft
  <2> SUFFICES ASSUME NEW r \in Rows
               PROVE  row'[r].e + Cardinality(ChangesOf(r)') + Drafted(r)' <= Bound
    BY DEF EditsFit
  <2>1. row[r].e + n(r) + Drafted(r) <= Bound
    BY DEF EditsFit
  <2>2. ChangesOf(r)' = ChangesOf(r)
    BY <1>6 DEF RollBackDraft, CommitDraft, ChangesOf, callVars
  <2>3. Drafted(r)' = 0
    BY <1>6 DEF RollBackDraft, CommitDraft, Drafted, NoDraft
  <2>4. row'[r].e = row[r].e \/ row'[r].e = row[r].e + Drafted(r)
    <3>1. CASE RollBackDraft
      BY <3>1 DEF RollBackDraft
    <3>2. CASE CommitDraft
      BY <3>2, <1>0 DEF CommitDraft, Drafted
    <3> QED BY <1>6, <3>1, <3>2
  <2>5. Cardinality(ChangesOf(r)') = n(r)
    BY <2>2
  <2> HIDE DEF n
  <2> QED BY <1>0, <2>1, <2>3, <2>4, <2>5
<1>7. ASSUME NEW q \in Rows, CoreUpdate(q) PROVE EditsFit'
  <2> SUFFICES ASSUME NEW r \in Rows
               PROVE  row'[r].e + Cardinality(ChangesOf(r)') + Drafted(r)' <= Bound
    BY DEF EditsFit
  <2>1. ChangesOf(r)' = ChangesOf(r) /\ Drafted(r)' = Drafted(r)
    BY <1>7 DEF CoreUpdate, ChangesOf, callVars, Drafted
  <2>2. row[r].e + 1 <= MaxEdits
    BY <1>7, BeginsBelow DEF CoreUpdate
  <2>3. row'[r].e = row[r].e \/ row'[r].e = row[r].e + 1
    BY <1>7 DEF CoreUpdate, SyncTypes, Record
  <2>4. Cardinality(ChangesOf(r)') = n(r)
    BY <2>1
  <2> HIDE DEF n
  <2> QED BY <1>0, <2>1, <2>2, <2>3, <2>4
<1>8. ASSUME NEW c \in Clients, Delta(c) \/ RefuseChange(c) \/ AcceptChange(c) \/ DrawStamp(c) PROVE EditsFit'
  <2>1. UNCHANGED <<row, draft, item>>
    BY <1>8 DEF Delta, ReadMaxFirst, NotModified, Modified, CollectRecords, Collect, PaginateRecords,
                RefuseChange, AcceptChange, DrawStamp, serverVars
  <2>2. \E place : /\ pc' = [pc EXCEPT ![c] = place]
                   /\ place \in {"check", "stamp", "write"} => pc[c] \in {"check", "stamp", "write"}
    BY <1>8 DEF Delta, ReadMaxFirst, NotModified, Modified, CollectRecords, Collect, PaginateRecords,
                RefuseChange, AcceptChange, DrawStamp, Goto, Answer
  <2>3. \A d \in Clients \ {c} : pc'[d] = pc[d]
    BY <2>2 DEF SyncTypes
  <2>4. pc'[c] \in {"check", "stamp", "write"} => pc[c] \in {"check", "stamp", "write"}
    BY <2>2 DEF SyncTypes
  <2>5. \A r : ChangesOf(r)' \subseteq ChangesOf(r)
    BY <2>1, <2>3, <2>4 DEF ChangesOf
  <2> QED BY <1>1, <2>1, <2>5
<1>9. ASSUME NEW c \in Clients, ApplyChange(c) PROVE EditsFit'
  <2> SUFFICES ASSUME NEW r \in Rows
               PROVE  row'[r].e + Cardinality(ChangesOf(r)') + Drafted(r)' <= Bound
    BY DEF EditsFit
  <2>1. /\ pc[c] = "write" /\ pc' = [pc EXCEPT ![c] = "idle"] /\ item[c] \in Rows
        /\ row' = [row EXCEPT ![item[c]] = [v |-> stamp[c], e |-> @.e + 1]]
        /\ UNCHANGED <<draft, item>>
    BY <1>9 DEF ApplyChange, Goto, SyncTypes
  <2>2. row[r].e + n(r) + Drafted(r) <= Bound /\ Drafted(r)' = Drafted(r)
    BY <2>1 DEF EditsFit, Drafted
  <2>3. CASE r # item[c]
    <3>1. row'[r].e = row[r].e /\ ChangesOf(r)' = ChangesOf(r)
      BY <2>1, <2>3 DEF ChangesOf, SyncTypes
    <3>2. Cardinality(ChangesOf(r)') = n(r)
      BY <3>1
    <3> HIDE DEF n
    <3> QED BY <1>0, <2>2, <3>1, <3>2
  <2>4. CASE r = item[c]
    <3>1. c \in ChangesOf(r) /\ ChangesOf(r)' = ChangesOf(r) \ {c}
      BY <2>1, <2>4 DEF ChangesOf, SyncTypes
    <3>2. Cardinality(ChangesOf(r)') = n(r) - 1
      <4>1. PICK S : S = ChangesOf(r) /\ IsFiniteSet(S)
        BY ChangesCounted
      <4>2. Cardinality(S \ {c}) = Cardinality(S) - 1
        BY <3>1, <4>1, FS_RemoveElement
      <4> QED BY <3>1, <4>1, <4>2
    <3>3. row'[r].e = row[r].e + 1
      BY <2>1, <2>4 DEF SyncTypes
    <3> HIDE DEF n
    <3> QED BY <1>0, <2>2, <3>2, <3>3
  <2> QED BY <2>3, <2>4
<1>10. ASSUME NEW c \in Clients, NEW s \in Summaries, SendChange(c, s) PROVE EditsFit'
  <2> SUFFICES ASSUME NEW r \in Rows
               PROVE  row'[r].e + Cardinality(ChangesOf(r)') + Drafted(r)' <= Bound
    BY DEF EditsFit
  <2>1. row' = row /\ Drafted(r)' = Drafted(r)
    BY <1>10 DEF SendChange, serverVars, Drafted
  <2>2. row[r].e + 1 <= MaxEdits
    BY <1>10, BeginsBelow DEF SendChange
  <2>3. Cardinality(ChangesOf(r)') \in Nat /\ Cardinality(ChangesOf(r)') <= Cardinality(Clients)
    <3>1. ChangesOf(r)' \in SUBSET Clients
      BY DEF ChangesOf
    <3> QED BY <3>1, FS_Subset, FS_CardinalityType
  <2> QED BY <1>0, <2>1, <2>2, <2>3
<1>11. CASE UNCHANGED vars \/ Tick
  <2>1. UNCHANGED <<row, draft, pc, item>>
    BY <1>11 DEF vars, Tick, serverVars, callVars
  <2>2. \A r : ChangesOf(r)' \subseteq ChangesOf(r)
    BY <2>1 DEF ChangesOf
  <2> QED BY <1>1, <2>1, <2>2
<1> QED BY <1>3, <1>4, <1>5, <1>6, <1>7, <1>8, <1>9, <1>10, <1>11 DEF Next, ServerWrite, Apply

\* A version is drawn from the clock or is one more than that of an earlier edit.
LEMMA VersionsFitNext ==
  ASSUME MaxClock \in Nat \ {0}, SyncTypes, VersionsFit, [Next]_vars PROVE VersionsFit'
<1>0. /\ MaxEdits \in Nat /\ MaxClock \in Nat /\ clock \in Nat
      /\ \A r \in Rows : row[r].e \in Nat /\ row[r].v \in Nat
      /\ \A c \in Clients : stamp[c] \in Nat
  BY SyncAssumption DEF SyncTypes, Record
<1>1. ASSUME UNCHANGED <<clock, row, draft, stamp>> PROVE VersionsFit'
  BY <1>1 DEF VersionsFit
<1>2. ASSUME NEW rs \in SUBSET Rows, NEW v \in Nat, Draw(rs, v), v <= Highest,
             \A r \in rs : v <= MaxClock + row[r].e + 1
      PROVE  VersionsFit'
  BY <1>2 DEF Draw, VersionsFit, callVars
<1>3. ASSUME NEW rs \in SUBSET Rows, Draw(rs, clock) PROVE VersionsFit'
  <2>1. clock <= Highest /\ \A r \in rs : clock <= MaxClock + row[r].e + 1
    BY <1>0 DEF VersionsFit, Highest
  <2> QED BY <1>0, <1>2, <1>3, <2>1
<1>4. ASSUME NEW r \in Rows, OrmUpdate(r) PROVE VersionsFit'
  <2> DEFINE v == Max({clock, row[r].v + 1})
  <2>1. v \in Nat /\ v \in {clock, row[r].v + 1}
    BY <1>0, MaxOfTwo
  <2>2. Draw({r}, v)
    BY <1>4 DEF OrmUpdate
  <2>3. row[r].e + 1 <= MaxEdits
    BY <2>2, BeginsBelow DEF Draw
  <2>4. clock <= MaxClock /\ row[r].v <= MaxClock + row[r].e
    BY DEF VersionsFit
  <2> HIDE DEF v
  <2>5. v <= Highest /\ v <= MaxClock + row[r].e + 1
    BY <1>0, <2>1, <2>3, <2>4 DEF Highest
  <2> QED BY <1>2, <2>1, <2>2, <2>5
<1>5. CASE RollBackDraft
  BY <1>0, <1>5 DEF RollBackDraft, NoDraft, VersionsFit, Highest, callVars
<1>6. CASE CommitDraft
  <2>1. /\ row' = [r \in Rows |-> IF r \in draft.rows THEN [v |-> draft.v, e |-> row[r].e + 1] ELSE row[r]]
        /\ draft' = NoDraft /\ UNCHANGED <<clock, stamp>>
    BY <1>6 DEF CommitDraft, callVars
  <2>2. \A r \in Rows : row'[r].v <= MaxClock + row'[r].e /\ row'[r].v <= Highest
    <3> SUFFICES ASSUME NEW r \in Rows PROVE row'[r].v <= MaxClock + row'[r].e /\ row'[r].v <= Highest
      OBVIOUS
    <3>1. CASE r \in draft.rows
      <4>1. row'[r].v = draft.v /\ row'[r].e = row[r].e + 1 /\ draft.v \in Nat
        BY <2>1, <3>1 DEF SyncTypes
      <4> QED BY <4>1, <3>1, <1>0 DEF VersionsFit
    <3>2. CASE r \notin draft.rows
      BY <3>2, <2>1 DEF VersionsFit
    <3> QED BY <3>1, <3>2
  <2>3. draft'.v = 0 /\ draft'.rows = {}
    BY <2>1 DEF NoDraft
  <2> QED BY <1>0, <2>1, <2>2, <2>3 DEF VersionsFit, Highest
<1>7. ASSUME NEW r \in Rows, CoreUpdate(r) PROVE VersionsFit'
  <2>1. /\ \A q \in Rows : row'[q].v = row[q].v /\ row'[q].e \in {row[q].e, row[q].e + 1}
        /\ UNCHANGED <<clock, draft, stamp>>
    BY <1>7 DEF CoreUpdate, SyncTypes, Record, callVars
  <2>2. draft.v \in Nat /\ draft.rows \subseteq Rows
    BY DEF SyncTypes
  <2>3. \A q \in Rows : row[q].e <= row'[q].e /\ row'[q].e \in Nat
    BY <1>0, <2>1
  <2>4. \A q \in Rows : row'[q].v <= MaxClock + row'[q].e /\ row'[q].v <= Highest
    BY <1>0, <2>1, <2>3 DEF VersionsFit
  <2>5. \A q \in draft'.rows : draft'.v <= MaxClock + row'[q].e + 1
    BY <1>0, <2>1, <2>2, <2>3 DEF VersionsFit
  <2> QED BY <2>1, <2>4, <2>5 DEF VersionsFit
<1>8. CASE Tick
  <2>1. clock' \in 1..MaxClock /\ UNCHANGED <<row, draft, stamp>>
    BY <1>0, <1>8 DEF Tick, callVars, VersionsFit
  <2> QED BY <2>1 DEF VersionsFit
<1>9. ASSUME NEW c \in Clients, DrawStamp(c) PROVE VersionsFit'
  BY <1>9 DEF DrawStamp, serverVars, VersionsFit, SyncTypes
<1>10. ASSUME NEW c \in Clients, ApplyChange(c) PROVE VersionsFit'
  <2> DEFINE r == item[c]
  <2>1. /\ row' = [row EXCEPT ![r] = [v |-> stamp[c], e |-> @.e + 1]] /\ r \in Rows
        /\ ~Locked(r) /\ stamp' = [stamp EXCEPT ![c] = 0] /\ UNCHANGED <<clock, draft>>
    BY <1>10 DEF ApplyChange, SyncTypes
  <2> HIDE DEF r
  <2>2. /\ \A q \in Rows \ {r} : row'[q] = row[q]
        /\ row'[r].v = stamp[c] /\ row'[r].e = row[r].e + 1
    BY <2>1 DEF SyncTypes
  <2>3. \A d \in Clients : stamp'[d] <= MaxClock
    BY <1>0, <2>1 DEF VersionsFit, SyncTypes
  <2>4. row'[r].v <= MaxClock + row'[r].e /\ row'[r].v <= Highest
    BY <1>0, <2>1, <2>2 DEF VersionsFit, Highest
  <2>5. \A q \in draft.rows : q # r /\ row'[q] = row[q]
    BY <2>1, <2>2 DEF Locked, SyncTypes
  <2> QED BY <2>1, <2>2, <2>3, <2>4, <2>5 DEF VersionsFit
<1>11. ASSUME NEW c \in Clients, Delta(c) \/ RefuseChange(c) \/ AcceptChange(c) \/ \E s \in Summaries : SendChange(c, s)
       PROVE  VersionsFit'
  BY <1>1, <1>11 DEF Delta, ReadMaxFirst, NotModified, Modified, CollectRecords, Collect, PaginateRecords,
                     RefuseChange, AcceptChange, SendChange, serverVars
<1>12. CASE UNCHANGED vars
  BY <1>1, <1>12 DEF vars, serverVars, callVars
<1>13. ASSUME NEW q \in Requests, NEW s \in Summaries, ImportBookmark(q, s) PROVE VersionsFit'
  BY <1>3, <1>13 DEF ImportBookmark, Rows
<1>14. ASSUME NEW r \in Rows, InsertRow(r) PROVE VersionsFit'
  BY <1>3, <1>14 DEF InsertRow
<1> QED BY <1>4, <1>5, <1>6, <1>7, <1>8, <1>9, <1>10, <1>11, <1>12, <1>13, <1>14 DEF Next, ServerWrite, Apply

\* The rows' versions and edits are within the bounds.
LEMMA RowsFit ==
  ASSUME IsFiniteSet(Clients), MaxClock \in Nat, SyncTypes, EditsFit, VersionsFit
  PROVE  row \in [Rows -> BoundRecord] /\ stamp \in [Clients -> Versions] /\ draft.v \in Versions
<1>0. MaxEdits \in Nat /\ Cardinality(Clients) \in Nat /\ \A r \in Rows : row[r] \in Record
  BY SyncAssumption, FS_CardinalityType DEF SyncTypes
<1>1. ASSUME NEW r \in Rows PROVE row[r] \in BoundRecord
  <2>1. /\ row[r].e + Cardinality(ChangesOf(r)) + Drafted(r) <= MaxEdits + Cardinality(Clients) + 1
        /\ Cardinality(ChangesOf(r)) \in Nat /\ Drafted(r) \in Nat
    BY ChangesCounted DEF EditsFit, Drafted
  <2>2. row[r].e \in Nat /\ row[r].v \in Nat /\ row[r].v <= MaxClock + MaxEdits
    BY <1>0 DEF Record, VersionsFit, Highest
  <2>3. row[r].e \in Edits /\ row[r].v \in Versions
    BY <1>0, <2>1, <2>2 DEF Edits, Versions
  <2> QED BY <1>0, <2>3 DEF Record, BoundRecord
<1>2. \A c \in Clients : stamp[c] \in Versions
  BY <1>0 DEF VersionsFit, SyncTypes, Versions
<1>3. draft.v \in Versions
  BY <1>0 DEF VersionsFit, SyncTypes, Versions, Highest
<1> QED BY <1>1, <1>2, <1>3 DEF SyncTypes

\* The greatest of some rows' versions is one of them.
LEMMA GreatestFits ==
  ASSUME NEW s \in [Rows -> BoundRecord], NEW Q \in SUBSET Rows, NEW n \in Versions
  PROVE  Max({n} \cup {s[r].v : r \in Q}) \in Versions
<1>1. s \in [Rows -> Record] /\ n \in Nat
  BY SyncAssumption DEF BoundRecord, Record, Versions, Edits
<1>2. Max({n} \cup {s[r].v : r \in Q}) = n \/ \E q \in Q : Max({n} \cup {s[r].v : r \in Q}) = s[q].v
  BY <1>1, VersionsProperties
<1> QED BY <1>2 DEF BoundRecord

\* A call reads rows, and a client stores what it reads.
LEMMA CallsFitNext ==
  ASSUME IsFiniteSet(Clients), SyncInv, CallsFit, [Next]_vars,
         MaxClock \in Nat, row \in [Rows -> BoundRecord], row' \in [Rows -> BoundRecord],
         stamp \in [Clients -> Versions]
  PROVE  CallsFit'
<1>0. 0 \in Versions /\ 0 \in Edits /\ Nothing \in [Rows -> BoundRecord] /\ Versions \subseteq Nat
  <2>1. MaxClock + MaxEdits \in Nat
    BY SyncAssumption
  <2>2. 0 \in Versions /\ Versions \subseteq Nat
    BY <2>1 DEF Versions
  <2>3. 0 \in Edits
    BY SyncAssumption, FS_CardinalityType DEF Edits
  <2> QED BY <2>2, <2>3 DEF Nothing, Absent, BoundRecord
<1>1. ASSUME UNCHANGED <<clientVars, maxSv, seen, item>> PROVE CallsFit'
  BY <1>1 DEF CallsFit, clientVars
<1>2. CASE Tick \/ ServerWrite
  <2>1. UNCHANGED <<clientVars, maxSv, seen, item>>
    BY <1>2 DEF Tick, ServerWrite, ImportBookmark, InsertRow, OrmUpdate, Draw, CoreUpdate, CommitDraft,
                RollBackDraft, callVars
  <2> QED BY <1>1, <2>1
<1>3. ASSUME NEW Q \in SUBSET Rows PROVE MaxVersion(Q) \in Versions
  BY <1>0, GreatestFits DEF MaxVersion
<1>4. Requests \in SUBSET Rows /\ Summaries \in SUBSET Rows
  BY DEF Rows
<1>5. ASSUME NEW c \in Clients, ReadMaxFirst(c) PROVE CallsFit'
  <2>1. maxSv' \in [Clients -> Versions]
    BY <1>3, <1>4, <1>5 DEF ReadMaxFirst, CallsFit
  <2> QED BY <1>5, <2>1 DEF ReadMaxFirst, CallsFit, clientVars
<1>6. ASSUME NEW c \in Clients, NotModified(c) PROVE CallsFit'
  BY <1>0, <1>6 DEF NotModified, Answer, CallsFit, clientVars
<1>7. ASSUME NEW c \in Clients, Modified(c) PROVE CallsFit'
  <2>1. BothMax(c) \in Versions
    <3>1. maxSv[c] \in Versions /\ MaxVersion(Requests) \in Versions /\ MaxVersion(Summaries) \in Versions
      BY <1>3, <1>4 DEF CallsFit
    <3>2. PICK a \in Versions, b \in Versions : BothMax(c) = Max({a, b})
      BY <3>1 DEF BothMax
    <3>3. Max({a, b}) \in {a, b}
      BY <1>0, MaxOfTwo
    <3> QED BY <3>2, <3>3
  <2> QED BY <1>7, <2>1 DEF Modified, CallsFit, clientVars
<1>8. ASSUME NEW c \in Clients, NEW Q PROVE Collected(c, Q) \in [Rows -> BoundRecord]
  BY DEF Collected, CallsFit
<1>9. ASSUME NEW c \in Clients, CollectRecords(c) PROVE CallsFit'
  <2>1. \E Q : seen' = [seen EXCEPT ![c] = Collected(c, Q)]
    BY <1>9 DEF CollectRecords, Collect
  <2>2. seen' \in [Clients -> [Rows -> BoundRecord]]
    BY <2>1, <1>8 DEF CallsFit
  <2> QED BY <1>9, <2>2 DEF CollectRecords, Collect, CallsFit, clientVars
<1>10. ASSUME NEW c \in Clients, PaginateRecords(c) PROVE CallsFit'
  <2> DEFINE s == Collected(c, Highlights)
             P == Page(s, since[c])
             next == NextSince(s, since[c])
  <2>1. /\ copy' = [copy EXCEPT ![c] = [r \in Rows |-> IF r \in P THEN s[r] ELSE @[r]]]
        /\ since' = [since EXCEPT ![c] = next]
        /\ etag' = [etag EXCEPT ![c] = maxSv[c]]
        /\ Answer(c) /\ seen' = [seen EXCEPT ![c] = Nothing] /\ item' = item
    BY <1>10 DEF PaginateRecords
  <2>2. s \in [Rows -> BoundRecord] /\ since[c] \in Versions
    BY <1>8 DEF CallsFit
  <2> HIDE DEF s
  <2>3. P \in SUBSET Rows
    BY DEF Page, Filtered
  <2>4. next \in Versions
    BY <2>2, <2>3, GreatestFits DEF NextSince
  <2> HIDE DEF P, next
  <2>5. [r \in Rows |-> IF r \in P THEN s[r] ELSE copy[c][r]] \in [Rows -> BoundRecord]
    BY <2>2 DEF CallsFit
  <2>6. copy' \in [Clients -> [Rows -> BoundRecord]]
    BY <2>1, <2>5 DEF CallsFit
  <2>7. seen' \in [Clients -> [Rows -> BoundRecord]] /\ maxSv' \in [Clients -> Versions]
    BY <1>0, <2>1 DEF CallsFit, Answer
  <2>8. since' \in [Clients -> Versions] /\ etag' \in [Clients -> Versions]
    BY <2>1, <2>4 DEF CallsFit
  <2> QED BY <2>1, <2>6, <2>7, <2>8 DEF CallsFit
<1>11. ASSUME NEW c \in Clients, NEW r \in Summaries, SendChange(c, r) PROVE CallsFit'
  BY <1>4, <1>11 DEF SendChange, CallsFit, clientVars
<1>12. ASSUME NEW c \in Clients, RefuseChange(c) PROVE CallsFit'
  <2>1. item[c] \in Rows /\ copy' = [copy EXCEPT ![c][item[c]] = row[item[c]]]
        /\ UNCHANGED <<since, etag, maxSv, seen, item>>
    BY <1>12 DEF RefuseChange, CallsFit
  <2>2. copy' \in [Clients -> [Rows -> BoundRecord]]
    BY <2>1 DEF CallsFit
  <2> QED BY <2>1, <2>2 DEF CallsFit
<1>13. ASSUME NEW c \in Clients, AcceptChange(c) \/ DrawStamp(c) PROVE CallsFit'
  BY <1>1, <1>13 DEF AcceptChange, DrawStamp
<1>14. ASSUME NEW c \in Clients, ApplyChange(c) PROVE CallsFit'
  <2> DEFINE r == item[c]
             known == [v |-> stamp[c], e |-> IF copy[c][r].e = row[r].e THEN copy[c][r].e + 1 ELSE copy[c][r].e]
  <2>1. /\ row' = [row EXCEPT ![r] = [v |-> stamp[c], e |-> @.e + 1]]
        /\ copy' = [copy EXCEPT ![c][r] = known]
        /\ UNCHANGED <<since, etag, maxSv, seen, item>>
    BY <1>14 DEF ApplyChange, CallsFit
  <2>2. r \in Rows /\ copy[c][r] \in BoundRecord /\ row'[r] \in BoundRecord /\ stamp[c] \in Versions
    BY DEF CallsFit
  <2>3. row'[r].e = row[r].e + 1
    BY <2>1, <2>2
  <2>4. row'[r].e \in Edits /\ copy[c][r].e \in Edits
    BY <2>2 DEF BoundRecord
  <2>5. (IF copy[c][r].e = row[r].e THEN copy[c][r].e + 1 ELSE copy[c][r].e) \in Edits
    BY <2>3, <2>4
  <2>6. known \in BoundRecord
    BY <2>2, <2>5 DEF BoundRecord
  <2> HIDE DEF known, r
  <2>7. copy' \in [Clients -> [Rows -> BoundRecord]]
    BY <2>1, <2>2, <2>6 DEF CallsFit
  <2> QED BY <2>1, <2>7 DEF CallsFit
<1>15. CASE UNCHANGED vars
  BY <1>1, <1>15 DEF vars, callVars
<1> QED BY <1>2, <1>5, <1>6, <1>7, <1>9, <1>10, <1>11, <1>12, <1>13, <1>14, <1>15 DEF Next, Delta, Apply

\* Versions and edits stay within their bounds wherever they are kept, for any finite number of
\* clients and at least one row and one millisecond.
THEOREM SyncTypeCorrect ==
  ASSUME IsFiniteSet(Clients), Rows # {}, MaxClock # 0 PROVE Spec => []TypeOK
<1> DEFINE I == SyncInv /\ EditsFit /\ VersionsFit /\ CallsFit
<1>0. MaxClock \in Nat \ {0} /\ MaxEdits \in Nat /\ Cardinality(Clients) \in Nat
  BY SyncAssumption, FS_CardinalityType
<1>4. SyncTypes /\ EditsFit /\ VersionsFit => row \in [Rows -> BoundRecord]
  BY <1>0, RowsFit
<1>5. (SyncTypes /\ EditsFit /\ VersionsFit => row \in [Rows -> BoundRecord])'
  BY <1>4, PTL
<1>1. ASSUME Init PROVE I
  <2>1. SyncInv
    BY <1>1, SyncInvInit
  <2>2. \A r \in Rows : /\ row[r].e = 0 /\ row[r].v = 0 /\ Drafted(r) = 0
                        /\ Cardinality(ChangesOf(r)) \in Nat /\ Cardinality(ChangesOf(r)) <= Cardinality(Clients)
    BY <1>1, ChangesCounted DEF Init, Absent, Drafted, NoDraft
  <2>3. EditsFit
    BY <1>0, <2>2 DEF EditsFit
  <2>4. VersionsFit
    BY <1>0, <1>1, <2>2 DEF Init, VersionsFit, NoDraft, Highest
  <2>5. Nothing \in [Rows -> BoundRecord] /\ 0 \in Versions
    BY <1>0 DEF Nothing, Absent, BoundRecord, Versions, Edits
  <2>6. CallsFit
    <3>1. (CHOOSE r \in Rows : TRUE) \in Rows
      OBVIOUS
    <3> QED BY <1>1, <2>5, <3>1 DEF Init, CallsFit
  <2> QED BY <2>1, <2>3, <2>4, <2>6
<1>2. ASSUME I, [Next]_vars PROVE I'
  <2>1. SyncInv' /\ SyncTypes /\ SyncTypes'
    BY <1>2, SyncInvNext DEF SyncInv
  <2>2. EditsFit'
    BY <1>2, <2>1, EditsFitNext
  <2>3. VersionsFit'
    BY <1>0, <1>2, <2>1, VersionsFitNext
  <2>4. row \in [Rows -> BoundRecord] /\ stamp \in [Clients -> Versions]
    BY <1>0, <1>2, <2>1, RowsFit
  <2>5. row' \in [Rows -> BoundRecord]
    BY <1>2, <2>1, <2>2, <2>3, <1>5
  <2>6. CallsFit'
    BY <1>0, <1>2, <2>4, <2>5, CallsFitNext
  <2> QED BY <2>1, <2>2, <2>3, <2>6
<1>3. ASSUME I PROVE TypeOK
  <2>1. SyncTypes
    BY <1>3 DEF SyncInv
  <2>2. row \in [Rows -> BoundRecord] /\ stamp \in [Clients -> Versions] /\ draft.v \in Versions
    BY <1>0, <1>3, <2>1, RowsFit
  <2>3. draft \in [rows : SUBSET Rows, v : Versions]
    BY <2>1, <2>2 DEF SyncTypes
  <2>4. clock \in 1..MaxClock
    BY <1>3 DEF VersionsFit
  <2> QED BY <1>3, <2>1, <2>2, <2>3, <2>4 DEF SyncTypes, CallsFit, BoundRecord, TypeOK
<1> QED BY <1>1, <1>2, <1>3, PTL DEF Spec
=============================================================================
