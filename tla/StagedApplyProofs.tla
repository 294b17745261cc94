------------------------- MODULE StagedApplyProofs -------------------------
(***************************************************************************)
(* Theorems about StagedApply, for every Table, every Engine and any       *)
(* number of Sessions and Staged Changes.  The module goes from what the   *)
(* operators return, over type correctness, to the inductive invariant     *)
(* that a running transaction keeps, and to what that says of its commit.  *)
(***************************************************************************)
EXTENDS StagedApply, SequenceTheorems, TLAPS

-----------------------------------------------------------------------------
(* What the operators return.                                              *)

\* A column set the grids show is a set of columns.
LEMMA ProjectionColumns == \A C \in Projections : C \subseteq Col
BY BoundsAssumption

\* A row is a partial row of every set of columns it is cut to.
LEMMA PartialRowOf ==
  ASSUME NEW C \in SUBSET Col, NEW f \in [C -> Val]
  PROVE  f \in PartialRow
BY DEF PartialRow

\* unstage leaves a bag a sequence of Staged Changes.
LEMMA WithoutType ==
  ASSUME NEW S, NEW bag \in Seq(S), NEW id
  PROVE  Without(bag, id) \in Seq(S)
<1>1. CASE ~ \E i \in DOMAIN bag : bag[i].id = id
  BY <1>1 DEF Without
<1>2. CASE \E i \in DOMAIN bag : bag[i].id = id
  <2>. DEFINE i == CHOOSE j \in DOMAIN bag : bag[j].id = id
  <2>1. i \in 1..Len(bag)
    BY <1>2
  <2>. HIDE DEF i
  <2>2. SubSeq(bag, 1, i - 1) \in Seq(S) /\ SubSeq(bag, i + 1, Len(bag)) \in Seq(S)
    BY <2>1, SubSeqProperties
  <2>3. SubSeq(bag, 1, i - 1) \o SubSeq(bag, i + 1, Len(bag)) \in Seq(S)
    BY <2>2, ConcatProperties
  <2>. QED  BY <1>2, <2>3 DEF Without, i
<1>. QED  BY <1>1, <1>2

\* The Row Identities of a Staged Change.
LEMMA TargetsType ==
  ASSUME NEW ch \in StagedChange
  PROVE  Targets(ch) \subseteq Key
BY DEF Targets, StagedChange, Insert, Update, Delete

\* An edited row is a row.
LEMMA AssignType ==
  ASSUME NEW row \in Row, NEW set \in PartialRow
  PROVE  Assign(row, set) \in Row
BY DEF Assign, Row, PartialRow

\* A statement that succeeds leaves a Table.
LEMMA ApplyChangeType ==
  ASSUME NEW ch \in StagedChange, NEW table \in Table, Succeeds(ch, table)
  PROVE  ApplyChange(ch, table) \in Table
<1>1. CASE ch \in Insert
  BY <1>1 DEF ApplyChange, Insert, Table, Slot
<1>2. CASE ch \in Delete
  BY <1>2 DEF ApplyChange, Delete, Table, Slot
<1>3. CASE ch \in Update
  <2>1. table[ch.key] \in Row /\ ch.set \in PartialRow /\ ch.to \in Key /\ ch.op = "update"
    BY <1>3 DEF Succeeds, AffectsOneRow, RowPredicate, Update, Table, Slot
  <2>2. Assign(table[ch.key], ch.set) \in Slot
    BY <2>1, AssignType DEF Slot
  <2>. QED  BY <2>1, <2>2 DEF ApplyChange, Table, Slot
<1>. QED  BY <1>1, <1>2, <1>3 DEF StagedChange


\* What the running transaction sees is a Table.
LEMMA ViewType ==
  ASSUME TypeOK
  PROVE  View \in Table
BY DEF View, TypeOK, Table

\* The Staged Change that Apply executes next is one.
LEMMA CurrentType ==
  ASSUME TypeOK, Sent
  PROVE  Current \in StagedChange /\ Targets(Current) \subseteq Key
<1>1. who \in SessionId /\ done + 1 \in 1..Len(staged[who])
  BY DEF TypeOK, Sent
<1>2. Current \in StagedChange
  BY <1>1, ElementOfSeq DEF TypeOK, Current
<1>. QED  BY <1>2, TargetsType

\* The ids in a bag are numbers.
LEMMA IdsType ==
  ASSUME TypeOK, NEW s \in SessionId
  PROVE  Ids(s) \subseteq Nat
<1>1. staged[s] \in Seq(StagedChange)
  BY DEF TypeOK
<1>2. \A ch \in StagedChange : ch.id \in Nat
  BY DEF StagedChange, Insert, Update, Delete
<1>. QED  BY <1>1, <1>2, ElementOfSeq DEF Ids

-----------------------------------------------------------------------------
(* Type correctness.                                                       *)

\* An empty Table is a Table.
LEMMA EmptyType == Empty \in Table
BY DEF Empty, Table, Slot

LEMMA InitTypeOK == Init => TypeOK
<1>. SUFFICES ASSUME Init PROVE TypeOK
  OBVIOUS
<1>1. staged \in [SessionId -> Seq(StagedChange)]
  BY EmptySeq DEF Init
<1>2. alive \in [SessionId -> BOOLEAN]
  BY Zenon DEF Init
<1>3. /\ next_id \in 1..(MaxSessions + 1)
      /\ next_change_id \in [SessionId -> 1..(MaxChanges + 1)]
  BY BoundsAssumption DEF Init
<1>. QED  BY <1>1, <1>2, <1>3, EmptyType DEF Init, TypeOK

\* What it takes for the components a window changes to stay typed: a bag that
\* a window pushed to, from the fields of the pushed change.
LEMMA PushTypeOK ==
  ASSUME TypeOK, NEW s \in SessionId, NEW ch \in StagedChange, Push(s, ch)
  PROVE  TypeOK'
<1>1. Append(staged[s], ch) \in Seq(StagedChange)
  BY AppendProperties DEF TypeOK
<1>2. next_change_id[s] + 1 \in 1..(MaxChanges + 1)
  BY BoundsAssumption DEF TypeOK, Push
<1>3. staged' \in [SessionId -> Seq(StagedChange)]
  BY <1>1 DEF TypeOK, Push
<1>4. next_change_id' \in [SessionId -> 1..(MaxChanges + 1)]
  BY <1>2 DEF TypeOK, Push
<1>. QED
  BY <1>3, <1>4 DEF TypeOK, Push, clientVars, viewVars, uiVars, txVars, dbVars, history

LEMMA DropTypeOK ==
  ASSUME TypeOK, NEW s \in SessionId, Drop(s), at' = "idle",
         UNCHANGED <<next_id, next_change_id, txVars, dbVars, committed>>,
         closing' \in BOOLEAN
  PROVE  TypeOK'
<1>1. <<>> \in Seq(StagedChange)
  BY EmptySeq
<1>2. /\ staged' \in [SessionId -> Seq(StagedChange)]
      /\ alive' \in [SessionId -> BOOLEAN]
      /\ grid' \in [SessionId -> Table]
      /\ unseen' \in [SessionId -> SUBSET Key]
  BY <1>1, EmptyType DEF Drop, TypeOK
<1>3. /\ sessions' \subseteq SessionId
      /\ windows' \subseteq sessions'
      /\ prompt' \subseteq windows'
  BY DEF Drop, TypeOK
<1>. QED  BY <1>2, <1>3 DEF TypeOK, txVars, dbVars

\* The columns of a row a grid shows.
LEMMA SeenType ==
  ASSUME TypeOK, NEW s \in SessionId, NEW k \in Key, NEW C \in Projections,
         grid[s][k] # Absent
  PROVE  Seen(s, k, C) \in PartialRow
<1>1. C \in SUBSET Col
  BY ProjectionColumns
<1>2. grid[s][k] \in Row
  BY DEF TypeOK, Table, Slot
<1>3. Seen(s, k, C) \in [C -> Val]
  BY <1>1, <1>2 DEF Seen, Row
<1>. QED  BY <1>1, <1>3, PartialRowOf

\* What a read leaves in the grid and the history.
LEMMA LoadGridType ==
  ASSUME TypeOK, NEW s \in SessionId, LoadGrid(s)
  PROVE  /\ grid' \in [SessionId -> Table]
         /\ unseen' \in [SessionId -> SUBSET Key]
BY EmptyType DEF LoadGrid, TypeOK

\* What a failed Apply leaves behind.
LEMMA FailTypeOK ==
  ASSUME TypeOK, Fail, alive' \in [SessionId -> BOOLEAN],
         db' \in Table, held' \subseteq Key,
         committed' \subseteq SessionId \X Nat,
         unseen' \in [SessionId -> SUBSET Key]
  PROVE  TypeOK'
BY EmptyType DEF Fail, EndTransaction, Return, TypeOK, clientVars, viewVars

\* The Table a commit leaves and the history it writes.
LEMMA CommitType ==
  ASSUME TypeOK, Commit
  PROVE  /\ db' \in Table /\ held' \subseteq Key
         /\ committed' \subseteq SessionId \X Nat
         /\ unseen' \in [SessionId -> SUBSET Key]
<1>1. who \in SessionId
  BY DEF TypeOK, Commit
<1>2. Ids(who) \subseteq Nat
  BY <1>1, IdsType
<1>3. committed' \subseteq SessionId \X Nat
  BY <1>1, <1>2 DEF Commit, TypeOK
<1>4. unseen' \in [SessionId -> SUBSET Key]
  BY <1>1 DEF Commit, TypeOK
<1>. QED  BY <1>3, <1>4, ViewType DEF Commit, TypeOK

LEMMA NextTypeOK == TypeOK /\ [Next]_vars => TypeOK'
<1>. SUFFICES ASSUME TypeOK, [Next]_vars PROVE TypeOK'
  OBVIOUS
<1>. USE DEF clientVars, viewVars, uiVars, txVars, dbVars, history
<1>1. ASSUME NEW opens \in BOOLEAN, OpenSession(opens)
      PROVE  TypeOK'
  <2>1. alive' \in [SessionId -> BOOLEAN]
    BY <1>1, Zenon DEF OpenSession, TypeOK
  <2>2. next_id' \in 1..(MaxSessions + 1)
    BY <1>1, BoundsAssumption DEF OpenSession, SessionId
  <2>3. /\ sessions' \subseteq SessionId
        /\ windows' \subseteq sessions' /\ prompt' \subseteq windows'
    BY <1>1 DEF OpenSession, TypeOK
  <2>. QED  BY <1>1, <2>1, <2>2, <2>3 DEF OpenSession, TypeOK
<1>2. ASSUME NEW s \in SessionId, CloseClean(s)
      PROVE  TypeOK'
  BY <1>2, DropTypeOK DEF CloseClean, TypeOK
<1>3. ASSUME NEW s \in SessionId, CloseDirty(s)
      PROVE  TypeOK'
  BY <1>3 DEF CloseDirty, Free, TypeOK
<1>4. ASSUME NEW s \in SessionId, PromptDiscard(s)
      PROVE  TypeOK'
  BY <1>4, DropTypeOK DEF PromptDiscard, TypeOK
<1>5. ASSUME NEW s \in SessionId, PromptCancel(s)
      PROVE  TypeOK'
  BY <1>5 DEF PromptCancel, TypeOK
<1>6. ASSUME NEW s \in SessionId, Reload(s)
      PROVE  TypeOK'
  BY <1>6, LoadGridType DEF Reload, TypeOK
<1>7. ASSUME NEW s \in SessionId, NEW k \in Key, NEW row \in Row,
             StageInsert(s, k, row)
      PROVE  TypeOK'
  <2>1. [op |-> "insert", id |-> next_change_id[s], key |-> k, values |-> row]
          \in StagedChange
    BY DEF StagedChange, Insert, TypeOK
  <2>. QED  BY <1>7, <2>1, PushTypeOK DEF StageInsert
<1>8. ASSUME NEW s \in SessionId, NEW k \in Key, NEW C \in Projections,
             NEW c \in Col, NEW v \in Val, StageUpdate(s, k, C, c, v)
      PROVE  TypeOK'
  <2>1. Seen(s, k, C) \in PartialRow
    BY <1>8, SeenType DEF StageUpdate
  <2>2. [x \in {c} |-> v] \in PartialRow
    BY PartialRowOf
  <2>3. [op |-> "update", id |-> next_change_id[s], key |-> k,
         seen |-> Seen(s, k, C), to |-> k, set |-> [x \in {c} |-> v]]
          \in StagedChange
    BY <2>1, <2>2 DEF StagedChange, Update, TypeOK
  <2>. QED  BY <1>8, <2>3, PushTypeOK DEF StageUpdate
<1>9. ASSUME NEW s \in SessionId, NEW k \in Key, NEW C \in Projections,
             NEW to \in Key, StageRekey(s, k, C, to)
      PROVE  TypeOK'
  <2>1. Seen(s, k, C) \in PartialRow
    BY <1>9, SeenType DEF StageRekey
  <2>2. [x \in {} |-> 0] \in PartialRow
    <3>1. [x \in {} |-> 0] \in [{} -> Val]
      OBVIOUS
    <3>. QED  BY <3>1, PartialRowOf
  <2>3. [op |-> "update", id |-> next_change_id[s], key |-> k,
         seen |-> Seen(s, k, C), to |-> to, set |-> [x \in {} |-> 0]]
          \in StagedChange
    BY <2>1, <2>2 DEF StagedChange, Update, TypeOK
  <2>. QED  BY <1>9, <2>3, PushTypeOK DEF StageRekey
<1>10. ASSUME NEW s \in SessionId, NEW k \in Key, NEW C \in Projections,
              StageDelete(s, k, C)
       PROVE  TypeOK'
  <2>1. Seen(s, k, C) \in PartialRow
    BY <1>10, SeenType DEF StageDelete
  <2>2. [op |-> "delete", id |-> next_change_id[s], key |-> k,
         seen |-> Seen(s, k, C)] \in StagedChange
    BY <2>1 DEF StagedChange, Delete, TypeOK
  <2>. QED  BY <1>10, <2>2, PushTypeOK DEF StageDelete
<1>11. ASSUME NEW s \in SessionId, NEW id \in 1..MaxChanges, Unstage(s, id)
       PROVE  TypeOK'
  <2>1. Without(staged[s], id) \in Seq(StagedChange)
    BY WithoutType DEF TypeOK
  <2>. QED  BY <1>11, <2>1 DEF Unstage, TypeOK
<1>12. ASSUME NEW s \in SessionId, Discard(s)
       PROVE  TypeOK'
  BY <1>12, EmptySeq DEF Discard, TypeOK
<1>13. ASSUME NEW s \in SessionId, NEW k \in Key, NEW slot \in Slot,
              ExecuteMutating(s, k, slot)
       PROVE  TypeOK'
  BY <1>13 DEF ExecuteMutating, Free, Call, TypeOK, Table
<1>14. ASSUME NEW s \in SessionId, ExecuteSchemaChange(s)
       PROVE  TypeOK'
  BY <1>14 DEF ExecuteSchemaChange, Free, Call, TypeOK
<1>15. ASSUME NEW s \in SessionId, BeginApply(s)
       PROVE  TypeOK'
  BY <1>15 DEF BeginApply, Call, TypeOK
<1>16. CASE ApplyWait
  BY <1>16 DEF ApplyWait, TypeOK
<1>17. CASE ApplyStatement
  <2>1. Sent /\ Succeeds(Current, View)
    BY <1>17 DEF ApplyStatement, Executing
  <2>2. Current \in StagedChange /\ touched' \subseteq Key
    BY <1>17, <2>1, CurrentType DEF ApplyStatement, TypeOK
  <2>3. ApplyChange(Current, View) \in Table
    BY <2>1, <2>2, ViewType, ApplyChangeType
  <2>4. work' \in Table
    BY <1>17, <2>3 DEF ApplyStatement, Table, Slot
  <2>5. done' \in Nat /\ waiting' \in BOOLEAN
    <3>1. done' = done + 1 /\ waiting' = FALSE
      BY <1>17 DEF ApplyStatement
    <3>2. done' \in Nat
      BY <3>1 DEF TypeOK
    <3>3. waiting' \in BOOLEAN
      BY <3>1, Zenon
    <3>. QED  BY <3>2, <3>3
  <2>6. UNCHANGED <<clientVars, alive, viewVars, uiVars, dbVars, history>>
    BY <1>17 DEF ApplyStatement
  <2>. QED  BY <2>2, <2>4, <2>5, <2>6 DEF TypeOK
<1>18. CASE ApplyConflict
  BY <1>18, FailTypeOK DEF ApplyConflict, TypeOK
<1>19. CASE ApplyRefused
  BY <1>19, FailTypeOK DEF ApplyRefused, TypeOK
<1>20. ASSUME NEW lost \in BOOLEAN, ApplyError(lost)
       PROVE  TypeOK'
  <2>1. alive' \in [SessionId -> BOOLEAN]
    BY <1>20, Zenon DEF ApplyError, TypeOK
  <2>. QED  BY <1>20, <2>1, FailTypeOK DEF ApplyError, TypeOK
<1>21. CASE ApplyCommit
  <2>1. staged' \in [SessionId -> Seq(StagedChange)]
    BY <1>21, EmptySeq DEF ApplyCommit, TypeOK
  <2>2. who \in windows
    BY <1>21 DEF ApplyCommit, Commit, TypeOK
  <2>. QED
    BY <1>21, <2>1, <2>2, CommitType, EmptyType
       DEF ApplyCommit, EndTransaction, Call, TypeOK
<1>22. CASE ApplyCommitUnknown
  <2>1. alive' \in [SessionId -> BOOLEAN]
    BY <1>22, Zenon DEF ApplyCommitUnknown, TypeOK
  <2>. QED  BY <1>22, <2>1, CommitType, FailTypeOK DEF ApplyCommitUnknown
<1>23. CASE ReloadAfterWrite
  <2>1. who \in SessionId
    BY <1>23 DEF ReloadAfterWrite, TypeOK
  <2>2. CASE closing
    BY <1>23, <2>1, <2>2, DropTypeOK DEF ReloadAfterWrite, Return
  <2>3. CASE ~closing
    BY <1>23, <2>1, <2>3, LoadGridType DEF ReloadAfterWrite, Return, TypeOK
  <2>. QED  BY <2>2, <2>3
<1>24. ASSUME NEW k \in Key, ExternalLock(k)
       PROVE  TypeOK'
  BY <1>24 DEF ExternalLock, Locks, TypeOK
<1>25. ASSUME NEW k \in Key, NEW slot \in Slot, ExternalCommit(k, slot)
       PROVE  TypeOK'
  BY <1>25 DEF ExternalCommit, TypeOK, Table
<1>26. CASE UNCHANGED vars
  BY <1>26 DEF vars, TypeOK
<1>. QED
  BY <1>1, <1>2, <1>3, <1>4, <1>5, <1>6, <1>7, <1>8, <1>9, <1>10, <1>11, <1>12,
     <1>13, <1>14, <1>15, <1>16, <1>17, <1>18, <1>19, <1>20, <1>21, <1>22,
     <1>23, <1>24, <1>25, <1>26
     DEF Next, WindowNext, ApplyNext, ExternalEnd

\* The types of StagedApply hold in every reachable state.
THEOREM TypeCorrect == Spec => []TypeOK
BY InitTypeOK, NextTypeOK, PTL DEF Spec

-----------------------------------------------------------------------------
(* Optimistic Apply.  TouchedAsStaged is not inductive: it needs that the  *)
(* rows a transaction has touched are locked against the other programs.   *)

\* A transaction exists only while Apply runs, it has executed a prefix of the
\* bag, and what it touched is locked and still as its changes were staged.
TransactionInv ==
  /\ at # "apply" => done = 0 /\ touched = {}
  /\ at = "apply" => done <= Len(staged[who])
  /\ held \cap Locks(touched) = {}
  /\ TouchedAsStaged

\* Locks of nothing, of two sets, and of a row itself.
LEMMA LocksFacts ==
  /\ Locks({}) = {}
  /\ \A A, B : Locks(A \cup B) = Locks(A) \cup Locks(B)
  /\ \A A \in SUBSET Key : A \subseteq Locks(A)
BY DEF Locks

LEMMA InitTransactionInv == Init => TransactionInv
BY LocksFacts DEF Init, TransactionInv, TouchedAsStaged

\* Outside Apply nothing is touched.
LEMMA OutsideApply ==
  ASSUME at' # "apply", done' = 0, touched' = {}
  PROVE  TransactionInv'
<1>1. Locks({})' = {}
  BY DEF Locks
<1>. QED  BY <1>1 DEF TransactionInv, TouchedAsStaged, Locks

\* A statement executed without a Conflict or a violation found every row it
\* reads or writes as its Staged Change expects it.
LEMMA SucceedsCovers ==
  ASSUME NEW ch \in StagedChange, NEW table, Succeeds(ch, table),
         NEW k \in Targets(ch)
  PROVE  Covers(ch, k, table[k])
<1>1. CASE ch \in Insert
  BY <1>1 DEF Succeeds, ViolatesIdentity, Targets, Covers, Insert
<1>2. CASE ch \in Delete
  BY <1>2 DEF Succeeds, AffectsOneRow, RowPredicate, Targets, Covers, AsRead, Delete
<1>3. CASE ch \in Update
  <2>1. ch.op = "update"
    BY <1>3 DEF Update
  <2>2. AsRead(table[ch.key], ch.seen)
    BY <2>1 DEF Succeeds, AffectsOneRow, RowPredicate, AsRead
  <2>3. ch.to # ch.key => table[ch.to] = Absent
    BY <2>1 DEF Succeeds, ViolatesIdentity
  <2>4. k = ch.key \/ k = ch.to
    BY <2>1 DEF Targets
  <2>. QED  BY <2>1, <2>2, <2>3, <2>4 DEF Covers
<1>. QED  BY <1>1, <1>2, <1>3 DEF StagedChange

\* One more statement: its rows get locked and are as staged.
LEMMA StatementTransactionInv ==
  ASSUME TypeOK, TransactionInv, ApplyStatement
  PROVE  TransactionInv'
<1>1. /\ at = "apply" /\ at' = at /\ who' = who /\ staged' = staged
      /\ db' = db /\ held' = held
      /\ done' = done + 1 /\ done < Len(staged[who])
      /\ touched' = touched \cup Targets(Current)
      /\ Locks(Targets(Current)) \cap held = {}
      /\ Succeeds(Current, View)
  BY DEF ApplyStatement, Executing, Sent, clientVars, uiVars, dbVars
<1>2. Current \in StagedChange /\ Targets(Current) \subseteq Key
  BY CurrentType DEF ApplyStatement, Executing
<1>3. held' \cap Locks(touched') = {}
  BY <1>1, LocksFacts DEF TransactionInv
<1>4. done' <= Len(staged'[who'])
  <2>1. Len(staged[who]) \in Nat /\ done \in Nat
    BY <1>1, LenProperties DEF TypeOK
  <2>. QED  BY <1>1, <2>1
<1>5. ASSUME NEW k \in touched'
      PROVE  \E i \in 1..done' : Covers(staged[who][i], k, db[k])
  <2>1. done \in Nat
    BY DEF TypeOK
  <2>2. CASE k \in touched
    BY <1>1, <2>1, <2>2 DEF TransactionInv, TouchedAsStaged
  <2>3. CASE k \notin touched
    <3>1. k \in Targets(Current) /\ k \in Key /\ View[k] = db[k]
      BY <1>1, <1>2, <1>5, <2>3 DEF View
    <3>2. Covers(staged[who][done + 1], k, db[k])
      BY <1>1, <1>2, <3>1, SucceedsCovers DEF Current
    <3>. QED  BY <1>1, <2>1, <3>2
  <2>. QED  BY <2>2, <2>3
<1>6. TouchedAsStaged'
  BY <1>1, <1>5 DEF TouchedAsStaged, Covers, AsRead
<1>. QED  BY <1>1, <1>3, <1>4, <1>6 DEF TransactionInv, Locks

LEMMA NextTransactionInv ==
  TypeOK /\ TransactionInv /\ [Next]_vars => TransactionInv'
<1>. SUFFICES ASSUME TypeOK, TransactionInv, [Next]_vars
              PROVE  TransactionInv'
  OBVIOUS
<1>. USE DEF clientVars, viewVars, uiVars, txVars, dbVars, history
<1>1. ASSUME NEW opens \in BOOLEAN, OpenSession(opens)
      PROVE  TransactionInv'
  BY <1>1, OutsideApply DEF OpenSession, TransactionInv
<1>2. ASSUME NEW s \in SessionId, CloseClean(s) \/ PromptDiscard(s)
      PROVE  TransactionInv'
  BY <1>2, OutsideApply DEF CloseClean, PromptDiscard, TransactionInv
<1>3. ASSUME NEW s \in SessionId, CloseDirty(s) \/ PromptCancel(s)
      PROVE  TransactionInv'
  BY <1>3, OutsideApply DEF CloseDirty, PromptCancel, Free, TransactionInv
<1>4. ASSUME NEW s \in SessionId, Reload(s)
      PROVE  TransactionInv'
  BY <1>4, OutsideApply DEF Reload, Free, TransactionInv
<1>5. ASSUME NEW s \in SessionId, NEW ch, Push(s, ch), at = "idle"
      PROVE  TransactionInv'
  BY <1>5, OutsideApply DEF Push, TransactionInv
<1>6. ASSUME NEW s \in SessionId, NEW id, Unstage(s, id)
      PROVE  TransactionInv'
  BY <1>6, OutsideApply DEF Unstage, Free, TransactionInv
<1>7. ASSUME NEW s \in SessionId, Discard(s)
      PROVE  TransactionInv'
  BY <1>7, OutsideApply DEF Discard, Free, TransactionInv
<1>8. ASSUME NEW s \in SessionId, NEW k, NEW slot, ExecuteMutating(s, k, slot)
      PROVE  TransactionInv'
  BY <1>8, OutsideApply DEF ExecuteMutating, Free, Call, TransactionInv
<1>9. ASSUME NEW s \in SessionId, ExecuteSchemaChange(s)
      PROVE  TransactionInv'
  BY <1>9, OutsideApply DEF ExecuteSchemaChange, Free, Call, TransactionInv
<1>10. ASSUME NEW s \in SessionId, BeginApply(s)
       PROVE  TransactionInv'
  <2>1. /\ at = "idle" /\ at' = "apply" /\ who' = s /\ staged' = staged
        /\ held' = held /\ done' = 0 /\ touched' = {}
    BY <1>10 DEF BeginApply, Call, TransactionInv
  <2>2. Len(staged[s]) \in Nat
    BY LenProperties DEF TypeOK
  <2>. QED  BY <2>1, <2>2 DEF TransactionInv, TouchedAsStaged, Locks
<1>11. CASE ApplyWait
  BY <1>11 DEF ApplyWait, TransactionInv, TouchedAsStaged, Covers, AsRead, Locks
<1>12. CASE ApplyStatement
  BY <1>12, StatementTransactionInv
<1>13. CASE ApplyConflict \/ ApplyRefused \/ ApplyCommitUnknown
  BY <1>13, OutsideApply
     DEF ApplyConflict, ApplyRefused, ApplyCommitUnknown, Fail, EndTransaction, Return
<1>14. ASSUME NEW lost \in BOOLEAN, ApplyError(lost)
       PROVE  TransactionInv'
  BY <1>14, OutsideApply DEF ApplyError, Fail, EndTransaction, Return
<1>15. CASE ApplyCommit
  BY <1>15, OutsideApply DEF ApplyCommit, EndTransaction, Call
<1>16. CASE ReloadAfterWrite
  BY <1>16, OutsideApply DEF ReloadAfterWrite, Return, TransactionInv
<1>17. ASSUME NEW k \in Key, ExternalLock(k)
       PROVE  TransactionInv'
  <2>1. held' \cap Locks(touched) = {}
    BY <1>17 DEF ExternalLock, TransactionInv
  <2>. QED
    BY <1>17, <2>1
       DEF ExternalLock, TransactionInv, TouchedAsStaged, Covers, AsRead, Locks
<1>18. ASSUME NEW k \in Key, NEW slot \in Slot, ExternalCommit(k, slot)
       PROVE  TransactionInv'
  <2>1. held' \cap Locks(touched) = {}
    BY <1>18 DEF ExternalCommit, TransactionInv
  <2>2. k \notin touched
    BY <1>18, LocksFacts DEF ExternalCommit, TransactionInv, TypeOK
  <2>3. \A j \in touched : db'[j] = db[j]
    BY <1>18, <2>2 DEF ExternalCommit, TypeOK, Table
  <2>4. TouchedAsStaged'
    BY <1>18, <2>3
       DEF ExternalCommit, TransactionInv, TouchedAsStaged, Covers, AsRead
  <2>. QED  BY <1>18, <2>1, <2>4 DEF ExternalCommit, TransactionInv, Locks
<1>19. CASE UNCHANGED vars
  BY <1>19 DEF vars, TransactionInv, TouchedAsStaged, Covers, AsRead, Locks
<1>20. ASSUME NEW s \in SessionId, WindowNext(s)
       PROVE  TransactionInv'
  BY <1>20, <1>2, <1>3, <1>4, <1>5, <1>6, <1>7, <1>8, <1>9, <1>10
     DEF WindowNext, StageInsert, StageUpdate, StageRekey, StageDelete, Free
<1>. QED
  BY <1>1, <1>11, <1>12, <1>13, <1>14, <1>15, <1>16, <1>17, <1>18, <1>19, <1>20
     DEF Next, ApplyNext, ExternalEnd

\* The rows a running Apply has touched are as they were staged, in every
\* reachable state.
THEOREM TouchedStaysAsStaged == Spec => []TouchedAsStaged
<1>1. TransactionInv => TouchedAsStaged
  BY DEF TransactionInv
<1>. QED
  BY <1>1, InitTypeOK, NextTypeOK, InitTransactionInv, NextTransactionInv, PTL DEF Spec

\* The step that ends Apply writes a row only over one that a Staged Change of
\* the Session was staged against.
CommitCovered ==
  ApplyTakesEffect =>
    \A k \in Key : db'[k] # db[k] =>
      \E i \in DOMAIN staged[who] : Covers(staged[who][i], k, db[k])

\* A commit installs what the transaction touched and nothing else.
LEMMA CommitIsCovered ==
  ASSUME TypeOK, TransactionInv, Commit
  PROVE  CommitCovered
<1>. SUFFICES ASSUME NEW k \in Key, db'[k] # db[k]
              PROVE  \E i \in DOMAIN staged[who] : Covers(staged[who][i], k, db[k])
  BY DEF CommitCovered
<1>1. k \in touched
  BY DEF Commit, View
<1>2. PICK i \in 1..done : Covers(staged[who][i], k, db[k])
  BY <1>1 DEF Commit, TransactionInv, TouchedAsStaged
<1>3. i \in DOMAIN staged[who]
  BY DEF Commit, TypeOK
<1>. QED  BY <1>2, <1>3

\* Only a commit takes effect.
LEMMA OnlyCommitTakesEffect ==
  ASSUME [Next]_vars, ApplyTakesEffect, ~Commit
  PROVE  db' = db
<1>. USE DEF uiVars, dbVars, ApplyTakesEffect
<1>1. CASE ApplyCommit \/ ApplyCommitUnknown
  BY <1>1 DEF ApplyCommit, ApplyCommitUnknown
<1>2. CASE ApplyConflict \/ ApplyRefused \/ \E lost \in BOOLEAN : ApplyError(lost)
  BY <1>2 DEF ApplyConflict, ApplyRefused, ApplyError
<1>3. CASE ApplyWait \/ ApplyStatement
  BY <1>3 DEF ApplyWait, ApplyStatement
<1>4. CASE ReloadAfterWrite \/ \E opens \in BOOLEAN : OpenSession(opens)
  BY <1>4 DEF ReloadAfterWrite, OpenSession
<1>5. CASE \E k \in Key : ExternalLock(k) \/ ExternalEnd(k)
  BY <1>5 DEF ExternalLock, ExternalEnd, ExternalCommit
<1>6. CASE \E s \in SessionId : WindowNext(s)
  BY <1>6 DEF WindowNext, CloseClean, CloseDirty, PromptDiscard, PromptCancel,
       Reload, StageInsert, StageUpdate, StageRekey, StageDelete, Unstage,
       Discard, ExecuteMutating, ExecuteSchemaChange, BeginApply, Free
<1>7. CASE UNCHANGED vars
  BY <1>7 DEF vars
<1>. QED
  BY <1>1, <1>2, <1>3, <1>4, <1>5, <1>6, <1>7 DEF Next, ApplyNext

LEMMA StepCommitCovered ==
  ASSUME TypeOK, TransactionInv, [Next]_vars
  PROVE  CommitCovered
<1>1. CASE Commit
  BY <1>1, CommitIsCovered
<1>2. CASE ~Commit
  BY <1>2, OnlyCommitTakesEffect DEF CommitCovered
<1>. QED  BY <1>1, <1>2

\* No Apply overwrites what another program wrote since the grid was read.
THEOREM OptimisticApply == Spec => NoLostUpdate
<1>1. TypeOK /\ TransactionInv /\ [Next]_vars => [CommitCovered]_vars
  BY StepCommitCovered
<1>2. [CommitCovered]_vars <=>
        [ApplyTakesEffect =>
           \A k \in Key : db'[k] # db[k] =>
             \E i \in DOMAIN staged[who] : Covers(staged[who][i], k, db[k])]_vars
  BY DEF CommitCovered
<1>. QED
  BY <1>1, <1>2, InitTypeOK, NextTypeOK, InitTransactionInv, NextTransactionInv, PTL
     DEF Spec, NoLostUpdate

-----------------------------------------------------------------------------
(* At most once.  NothingAppliedTwice and StagedIdsInOrder lean on each    *)
(* other: an id is never given again, so a change that took effect can     *)
(* only come back if its bag is kept, and then the connection is gone.     *)

\* A Session that is not open has nothing, ids in a bag and in the history are
\* below the next id, and no usable Session holds a change that took effect.
HistoryInv ==
  /\ \A s \in sessions : s < next_id
  /\ \A s \in SessionId \ sessions : ~alive[s] /\ staged[s] = <<>>
  /\ StagedIdsInOrder
  /\ \A s \in SessionId, id \in Nat :
       <<s, id>> \in committed => id < next_change_id[s]
  /\ NothingAppliedTwice

LEMMA InitHistoryInv == Init => HistoryInv
BY DEF Init, HistoryInv, StagedIdsInOrder, NothingAppliedTwice, Ids

\* An appended change with the next id keeps a bag in order.
LEMMA AppendIds ==
  ASSUME NEW bag \in Seq(StagedChange), NEW ch \in StagedChange, NEW n \in Nat,
         ch.id = n,
         \A i, j \in DOMAIN bag : i < j => bag[i].id < bag[j].id,
         \A i \in DOMAIN bag : bag[i].id < n
  PROVE  /\ \A i, j \in DOMAIN Append(bag, ch) :
              i < j => Append(bag, ch)[i].id < Append(bag, ch)[j].id
         /\ \A i \in DOMAIN Append(bag, ch) : Append(bag, ch)[i].id < n + 1
         /\ \A i \in DOMAIN Append(bag, ch) :
              Append(bag, ch)[i].id = n \/ \E j \in DOMAIN bag : bag[j].id = Append(bag, ch)[i].id
<1>1. \A i \in DOMAIN bag : bag[i].id \in Nat
  BY ElementOfSeq DEF StagedChange, Insert, Update, Delete
<1>. QED  BY <1>1, AppendProperties

\* The bag rest is a bag of m changes without its n-th.
IsBagWithout(rest, bag, m, n) ==
  /\ n \in 1..m /\ DOMAIN bag = 1..m /\ DOMAIN rest = 1..(m - 1)
  /\ \A i \in 1..(m - 1) : i < n => rest[i] = bag[i]
  /\ \A i \in 1..(m - 1) : i >= n => rest[i] = bag[i + 1]

\* unstage shifts the changes behind the one it removes.
LEMMA WithoutShifts ==
  ASSUME NEW bag \in Seq(StagedChange), NEW id,
         \E i \in DOMAIN bag : bag[i].id = id
  PROVE  \E m \in Nat : \E n \in 1..m :
           IsBagWithout(Without(bag, id), bag, m, n) /\ bag[n].id = id
<1>. DEFINE n == CHOOSE j \in DOMAIN bag : bag[j].id = id
            front == SubSeq(bag, 1, n - 1)
            back == SubSeq(bag, n + 1, Len(bag))
            rest == front \o back
<1>1. n \in 1..Len(bag) /\ Len(bag) \in Nat /\ bag[n].id = id
  BY LenProperties
<1>2. Without(bag, id) = rest
  BY DEF Without
<1>. HIDE DEF n
<1>3. /\ front \in Seq(StagedChange) /\ back \in Seq(StagedChange)
      /\ Len(front) = n - 1 /\ Len(back) = Len(bag) - n
      /\ \A i \in 1..(n - 1) : front[i] = bag[i]
      /\ \A i \in 1..(Len(bag) - n) : back[i] = bag[n + i]
  BY <1>1, SubSeqProperties
<1>. HIDE DEF front, back
<1>4. /\ rest \in Seq(StagedChange)
      /\ Len(rest) = Len(front) + Len(back)
      /\ \A i \in 1..(Len(front) + Len(back)) :
           rest[i] = IF i <= Len(front) THEN front[i] ELSE back[i - Len(front)]
  BY <1>3, ConcatProperties
<1>. HIDE DEF rest
<1>5. PICK m \in Nat : m = Len(bag)
  BY <1>1
<1>6. n \in 1..m /\ Len(rest) = m - 1
  BY <1>1, <1>3, <1>4, <1>5
<1>7. \A i \in 1..(m - 1) : i < n => rest[i] = bag[i]
  <2>1. \A i \in 1..(m - 1) : i < n => i <= n - 1 /\ i \in 1..(n - 1)
    BY <1>6
  <2>2. \A i \in 1..(m - 1) : i <= n - 1 => rest[i] = front[i]
    BY <1>3, <1>4, <1>5, <1>6
  <2>. QED  BY <1>3, <2>1, <2>2
<1>8. \A i \in 1..(m - 1) : i >= n => rest[i] = bag[i + 1]
  <2>1. ASSUME NEW i \in 1..(m - 1), i >= n
        PROVE  rest[i] = bag[i + 1]
    <3>1. PICK d \in 1..(m - n) : d = i - (n - 1)
      BY <1>6, <2>1
    <3>2. rest[i] = back[d]
      <4>1. Len(front) = n - 1 /\ Len(back) = m - n
        BY <1>3, <1>5
      <4>2. i \in 1..(Len(front) + Len(back)) /\ ~(i <= Len(front))
        BY <1>6, <2>1, <4>1
      <4>3. rest[i] = back[i - Len(front)]
        BY <1>4, <4>2
      <4>4. i - Len(front) = d
        BY <3>1, <4>1
      <4>. QED  BY <4>3, <4>4
    <3>3. back[d] = bag[n + d]
      BY <1>3, <1>5, <3>1
    <3>4. n + d = i + 1
      BY <1>6, <2>1, <3>1
    <3>. QED  BY <3>2, <3>3, <3>4
  <2>. QED  BY <2>1
<1>9. DOMAIN bag = 1..m /\ DOMAIN rest = 1..(m - 1)
  BY <1>4, <1>5, <1>6, LenProperties
<1>10. IsBagWithout(Without(bag, id), bag, m, n)
  BY <1>2, <1>6, <1>7, <1>8, <1>9 DEF IsBagWithout
<1>. QED  BY <1>1, <1>6, <1>10

\* Removing a change keeps the order of the others and brings none.
LEMMA WithoutIds ==
  ASSUME NEW bag \in Seq(StagedChange), NEW id,
         \A i, j \in DOMAIN bag : i < j => bag[i].id < bag[j].id
  PROVE  /\ \A i, j \in DOMAIN Without(bag, id) :
              i < j => Without(bag, id)[i].id < Without(bag, id)[j].id
         /\ \A i \in DOMAIN Without(bag, id) :
              \E j \in DOMAIN bag : Without(bag, id)[i] = bag[j]
<1>1. CASE ~ \E i \in DOMAIN bag : bag[i].id = id
  BY <1>1 DEF Without
<1>2. CASE \E i \in DOMAIN bag : bag[i].id = id
  <2>. DEFINE rest == Without(bag, id)
  <2>. HIDE DEF rest
  <2>0. PICK m \in Nat : \E n \in 1..m : IsBagWithout(rest, bag, m, n)
    BY <1>2, WithoutShifts DEF rest
  <2>1. PICK n \in 1..m :
          /\ DOMAIN bag = 1..m /\ DOMAIN rest = 1..(m - 1)
          /\ \A i \in 1..(m - 1) : i < n => rest[i] = bag[i]
          /\ \A i \in 1..(m - 1) : i >= n => rest[i] = bag[i + 1]
    BY <2>0 DEF IsBagWithout
  <2>2. ASSUME NEW i \in 1..(m - 1)
        PROVE  \E j \in 1..m : /\ rest[i] = bag[j]
                               /\ i < n => j = i
                               /\ i >= n => j = i + 1
    <3>1. i \in 1..m /\ i + 1 \in 1..m /\ (i < n \/ i >= n) /\ ~(i < n /\ i >= n)
      OBVIOUS
    <3>. QED  BY <2>1, <3>1
  <2>3. ASSUME NEW i \in 1..(m - 1), NEW j \in 1..(m - 1), i < j
        PROVE  rest[i].id < rest[j].id
    <3>1. PICK a \in 1..m : rest[i] = bag[a] /\ (i < n => a = i) /\ (i >= n => a = i + 1)
      BY <2>2
    <3>2. PICK b \in 1..m : rest[j] = bag[b] /\ (j < n => b = j) /\ (j >= n => b = j + 1)
      BY <2>2
    <3>3. a < b
      BY <2>3, <3>1, <3>2
    <3>. QED  BY <2>1, <3>1, <3>2, <3>3
  <2>. QED  BY <2>1, <2>2, <2>3 DEF rest
<1>. QED  BY <1>1, <1>2

\* Removing a change leaves every change with another id.
LEMMA WithoutKeeps ==
  ASSUME NEW bag \in Seq(StagedChange), NEW id, NEW i \in DOMAIN bag, bag[i].id # id
  PROVE  \E j \in DOMAIN Without(bag, id) : Without(bag, id)[j] = bag[i]
<1>1. CASE ~ \E j \in DOMAIN bag : bag[j].id = id
  BY <1>1 DEF Without
<1>2. CASE \E j \in DOMAIN bag : bag[j].id = id
  <2>. DEFINE rest == Without(bag, id)
  <2>. HIDE DEF rest
  <2>0. PICK m \in Nat : \E n \in 1..m : IsBagWithout(rest, bag, m, n) /\ bag[n].id = id
    BY <1>2, WithoutShifts DEF rest
  <2>1. PICK n \in 1..m :
          /\ DOMAIN bag = 1..m /\ bag[n].id = id /\ DOMAIN rest = 1..(m - 1)
          /\ \A j \in 1..(m - 1) : j < n => rest[j] = bag[j]
          /\ \A j \in 1..(m - 1) : j >= n => rest[j] = bag[j + 1]
    BY <2>0 DEF IsBagWithout
  <2>2. i \in 1..m /\ i # n
    BY <2>1
  <2>3. CASE i < n
    <3>1. i \in 1..(m - 1)
      BY <2>2, <2>3
    <3>. QED  BY <2>1, <2>3, <3>1 DEF rest
  <2>4. CASE i > n
    <3>1. i - 1 \in 1..(m - 1) /\ i - 1 >= n /\ (i - 1) + 1 = i
      BY <2>2, <2>4
    <3>2. rest[i - 1] = bag[(i - 1) + 1]
      BY <2>1, <3>1
    <3>. QED  BY <2>1, <3>1, <3>2 DEF rest
  <2>. QED  BY <2>2, <2>3, <2>4
<1>. QED  BY <1>1, <1>2

\* The parts of HistoryInv that a step on one bag has to restore.
LEMMA OneBag ==
  ASSUME TypeOK, HistoryInv, NEW s \in sessions, NEW bag \in Seq(StagedChange),
         staged' = [staged EXCEPT ![s] = bag],
         \A i, j \in DOMAIN bag : i < j => bag[i].id < bag[j].id,
         \A i \in DOMAIN bag : bag[i].id \in Ids(s),
         UNCHANGED <<sessions, next_id, next_change_id, alive, committed>>
  PROVE  HistoryInv'
<1>1. s \in SessionId
  BY DEF TypeOK
<1>2. staged'[s] = bag /\ \A r \in SessionId \ {s} : staged'[r] = staged[r]
  BY <1>1 DEF TypeOK
<1>3. \A r \in SessionId : \A i \in DOMAIN staged'[r] : staged'[r][i].id \in Ids(r)
  BY <1>2 DEF Ids
<1>4. StagedIdsInOrder'
  BY <1>1, <1>2, <1>3 DEF StagedIdsInOrder, HistoryInv, Ids
<1>5. NothingAppliedTwice'
  BY <1>1, <1>2, <1>3 DEF NothingAppliedTwice, HistoryInv, Ids
<1>. QED  BY <1>1, <1>2, <1>4, <1>5 DEF HistoryInv

LEMMA PushHistoryInv ==
  ASSUME TypeOK, HistoryInv, NEW s \in SessionId, NEW ch \in StagedChange,
         ch.id = next_change_id[s], Push(s, ch)
  PROVE  HistoryInv'
<1>. DEFINE bag == staged[s]
            n == next_change_id[s]
<1>1. bag \in Seq(StagedChange) /\ n \in Nat
  BY DEF TypeOK
<1>2. /\ staged' = [staged EXCEPT ![s] = Append(bag, ch)]
      /\ next_change_id' = [next_change_id EXCEPT ![s] = n + 1]
      /\ s \in sessions
      /\ UNCHANGED <<sessions, next_id, alive, committed>>
  BY DEF Push, history
<1>3. /\ staged'[s] = Append(bag, ch) /\ next_change_id'[s] = n + 1
      /\ \A r \in SessionId \ {s} : /\ staged'[r] = staged[r]
                                    /\ next_change_id'[r] = next_change_id[r]
  BY <1>2 DEF TypeOK
<1>4. /\ \A i, j \in DOMAIN bag : i < j => bag[i].id < bag[j].id
      /\ \A i \in DOMAIN bag : bag[i].id < n
  BY DEF HistoryInv, StagedIdsInOrder, Ids
<1>. HIDE DEF bag, n
<1>5. /\ \A i, j \in DOMAIN Append(bag, ch) :
           i < j => Append(bag, ch)[i].id < Append(bag, ch)[j].id
      /\ \A i \in DOMAIN Append(bag, ch) : Append(bag, ch)[i].id < n + 1
      /\ \A i \in DOMAIN Append(bag, ch) :
           \/ Append(bag, ch)[i].id = n
           \/ \E j \in DOMAIN bag : bag[j].id = Append(bag, ch)[i].id
  BY <1>1, <1>4, AppendIds DEF n
<1>6. StagedIdsInOrder'
  <2>1. ASSUME NEW r \in SessionId
        PROVE  /\ \A i, j \in DOMAIN staged'[r] :
                    i < j => staged'[r][i].id < staged'[r][j].id
               /\ \A i \in DOMAIN staged'[r] :
                    staged'[r][i].id < next_change_id'[r]
    <3>1. CASE r = s
      BY <1>3, <1>5, <3>1
    <3>2. CASE r # s
      BY <1>3, <3>2 DEF StagedIdsInOrder, HistoryInv, Ids
    <3>. QED  BY <3>1, <3>2
  <2>. QED  BY <2>1 DEF StagedIdsInOrder, Ids
<1>7. \A r \in SessionId, id \in Nat :
        <<r, id>> \in committed' => id < next_change_id'[r]
  BY <1>1, <1>2, <1>3 DEF HistoryInv, n
<1>8. <<s, n>> \notin committed
  BY <1>1 DEF HistoryInv, n
<1>9. NothingAppliedTwice'
  BY <1>2, <1>3, <1>5, <1>8 DEF NothingAppliedTwice, HistoryInv, Ids, bag
<1>10. \A r \in SessionId \ sessions' : ~alive'[r] /\ staged'[r] = <<>>
  BY <1>2, <1>3 DEF HistoryInv
<1>. QED  BY <1>2, <1>6, <1>7, <1>9, <1>10 DEF HistoryInv

LEMMA DropHistoryInv ==
  ASSUME TypeOK, HistoryInv, NEW s \in SessionId, Drop(s),
         UNCHANGED <<next_id, next_change_id, committed>>
  PROVE  HistoryInv'
<1>1. /\ staged'[s] = <<>> /\ alive'[s] = FALSE
      /\ \A r \in SessionId \ {s} : staged'[r] = staged[r] /\ alive'[r] = alive[r]
  BY DEF Drop, TypeOK
<1>2. StagedIdsInOrder'
  BY <1>1 DEF StagedIdsInOrder, HistoryInv, Ids
<1>3. NothingAppliedTwice'
  BY <1>1 DEF NothingAppliedTwice, HistoryInv, Ids
<1>4. \A r \in SessionId \ sessions' : ~alive'[r] /\ staged'[r] = <<>>
  BY <1>1 DEF Drop, HistoryInv
<1>. QED  BY <1>2, <1>3, <1>4 DEF HistoryInv, Drop

\* A step that keeps the bags and the history, and opens no connection.
LEMMA SameHistory ==
  ASSUME HistoryInv, \A s \in SessionId : alive'[s] => alive[s],
         UNCHANGED <<sessions, next_id, staged, next_change_id, committed>>
  PROVE  HistoryInv'
BY DEF HistoryInv, StagedIdsInOrder, NothingAppliedTwice, Ids

\* What a commit adds to the history.
LEMMA CommitHistory ==
  ASSUME TypeOK, HistoryInv, Commit
  PROVE  /\ who \in sessions /\ who \in SessionId
         /\ \A s \in SessionId, id \in Nat :
              <<s, id>> \in committed' => id < next_change_id[s]
         /\ \A s \in SessionId \ {who} : \A id :
              <<s, id>> \in committed' => <<s, id>> \in committed
BY DEF Commit, TypeOK, HistoryInv, StagedIdsInOrder

LEMMA NextHistoryInv ==
  TypeOK /\ HistoryInv /\ [Next]_vars => HistoryInv'
<1>. SUFFICES ASSUME TypeOK, HistoryInv, [Next]_vars
              PROVE  HistoryInv'
  OBVIOUS
<1>. USE DEF clientVars, viewVars, uiVars, txVars, dbVars, history
<1>1. ASSUME NEW opens \in BOOLEAN, OpenSession(opens)
      PROVE  HistoryInv'
  <2>1. next_id \in SessionId /\ next_id \notin sessions
    BY <1>1 DEF OpenSession, HistoryInv, TypeOK
  <2>2. staged[next_id] = <<>> /\ Ids(next_id) = {}
    BY <2>1 DEF HistoryInv, Ids
  <2>3. \A s \in SessionId : Ids(s)' = Ids(s)
    BY <1>1 DEF OpenSession, Ids
  <2>4. \A s \in SessionId \ {next_id} : alive'[s] = alive[s]
    BY <1>1 DEF OpenSession, TypeOK
  <2>5. NothingAppliedTwice'
    BY <1>1, <2>2, <2>3, <2>4 DEF OpenSession, NothingAppliedTwice, HistoryInv
  <2>6. StagedIdsInOrder'
    BY <1>1 DEF OpenSession, StagedIdsInOrder, HistoryInv, Ids
  <2>7. \A s \in SessionId \ sessions' : ~alive'[s] /\ staged'[s] = <<>>
    BY <1>1, <2>4 DEF OpenSession, HistoryInv
  <2>8. \A s \in sessions' : s < next_id'
    BY <1>1 DEF OpenSession, HistoryInv, TypeOK, SessionId
  <2>. QED  BY <1>1, <2>5, <2>6, <2>7, <2>8 DEF OpenSession, HistoryInv
<1>2. ASSUME NEW s \in SessionId, CloseClean(s) \/ PromptDiscard(s)
      PROVE  HistoryInv'
  BY <1>2, DropHistoryInv DEF CloseClean, PromptDiscard
<1>3. ASSUME NEW s \in SessionId, CloseDirty(s) \/ PromptCancel(s)
      PROVE  HistoryInv'
  BY <1>3, SameHistory DEF CloseDirty, PromptCancel
<1>4. ASSUME NEW s \in SessionId, Reload(s)
      PROVE  HistoryInv'
  BY <1>4, SameHistory DEF Reload
<1>5. ASSUME NEW s \in SessionId, NEW k \in Key, NEW row \in Row,
             StageInsert(s, k, row)
      PROVE  HistoryInv'
  <2>. DEFINE ch == [op |-> "insert", id |-> next_change_id[s], key |-> k,
                     values |-> row]
  <2>1. ch \in StagedChange /\ ch.id = next_change_id[s]
    BY DEF StagedChange, Insert, TypeOK
  <2>. QED  BY <1>5, <2>1, PushHistoryInv DEF StageInsert
<1>6. ASSUME NEW s \in SessionId, NEW k \in Key, NEW C \in Projections,
             NEW c \in Col, NEW v \in Val, StageUpdate(s, k, C, c, v)
      PROVE  HistoryInv'
  <2>. DEFINE ch == [op |-> "update", id |-> next_change_id[s], key |-> k,
                     seen |-> Seen(s, k, C), to |-> k, set |-> [x \in {c} |-> v]]
  <2>1. Seen(s, k, C) \in PartialRow /\ [x \in {c} |-> v] \in PartialRow
    BY <1>6, SeenType, PartialRowOf DEF StageUpdate
  <2>2. ch \in StagedChange /\ ch.id = next_change_id[s]
    BY <2>1 DEF StagedChange, Update, TypeOK
  <2>. QED  BY <1>6, <2>2, PushHistoryInv DEF StageUpdate
<1>7. ASSUME NEW s \in SessionId, NEW k \in Key, NEW C \in Projections,
             NEW to \in Key, StageRekey(s, k, C, to)
      PROVE  HistoryInv'
  <2>. DEFINE ch == [op |-> "update", id |-> next_change_id[s], key |-> k,
                     seen |-> Seen(s, k, C), to |-> to, set |-> [x \in {} |-> 0]]
  <2>1. Seen(s, k, C) \in PartialRow
    BY <1>7, SeenType DEF StageRekey
  <2>2. [x \in {} |-> 0] \in PartialRow
    <3>1. [x \in {} |-> 0] \in [{} -> Val]
      OBVIOUS
    <3>. QED  BY <3>1, PartialRowOf
  <2>3. ch \in StagedChange /\ ch.id = next_change_id[s]
    BY <2>1, <2>2 DEF StagedChange, Update, TypeOK
  <2>. QED  BY <1>7, <2>3, PushHistoryInv DEF StageRekey
<1>8. ASSUME NEW s \in SessionId, NEW k \in Key, NEW C \in Projections,
             StageDelete(s, k, C)
      PROVE  HistoryInv'
  <2>. DEFINE ch == [op |-> "delete", id |-> next_change_id[s], key |-> k,
                     seen |-> Seen(s, k, C)]
  <2>1. Seen(s, k, C) \in PartialRow
    BY <1>8, SeenType DEF StageDelete
  <2>2. ch \in StagedChange /\ ch.id = next_change_id[s]
    BY <2>1 DEF StagedChange, Delete, TypeOK
  <2>. QED  BY <1>8, <2>2, PushHistoryInv DEF StageDelete
<1>9. ASSUME NEW s \in SessionId, NEW id, Unstage(s, id)
      PROVE  HistoryInv'
  <2>1. s \in sessions /\ staged[s] \in Seq(StagedChange)
    BY <1>9 DEF Unstage, Free, TypeOK
  <2>2. \A i, j \in DOMAIN staged[s] : i < j => staged[s][i].id < staged[s][j].id
    BY DEF HistoryInv, StagedIdsInOrder
  <2>3. Without(staged[s], id) \in Seq(StagedChange)
    BY <2>1, WithoutType
  <2>4. /\ \A i, j \in DOMAIN Without(staged[s], id) :
             i < j => Without(staged[s], id)[i].id < Without(staged[s], id)[j].id
        /\ \A i \in DOMAIN Without(staged[s], id) :
             Without(staged[s], id)[i].id \in Ids(s)
    BY <2>1, <2>2, WithoutIds DEF Ids
  <2>. QED  BY <1>9, <2>1, <2>3, <2>4, OneBag DEF Unstage
<1>10. ASSUME NEW s \in SessionId, Discard(s)
       PROVE  HistoryInv'
  <2>1. s \in sessions
    BY <1>10 DEF Discard, Free, TypeOK
  <2>2. <<>> \in Seq(StagedChange) /\ \A i \in DOMAIN <<>> : FALSE
    BY EmptySeq
  <2>3. /\ staged' = [staged EXCEPT ![s] = <<>>]
        /\ UNCHANGED <<sessions, next_id, next_change_id, alive, committed>>
    BY <1>10 DEF Discard
  <2>. QED  BY <2>1, <2>2, <2>3, OneBag
<1>11. ASSUME NEW s \in SessionId, NEW k, NEW slot, ExecuteMutating(s, k, slot)
       PROVE  HistoryInv'
  BY <1>11, SameHistory DEF ExecuteMutating
<1>12. ASSUME NEW s \in SessionId, ExecuteSchemaChange(s) \/ BeginApply(s)
       PROVE  HistoryInv'
  BY <1>12, SameHistory DEF ExecuteSchemaChange, BeginApply
<1>13. CASE ApplyWait \/ ApplyStatement
  BY <1>13, SameHistory DEF ApplyWait, ApplyStatement
<1>14. CASE ApplyConflict \/ ApplyRefused
  BY <1>14, SameHistory DEF ApplyConflict, ApplyRefused, Fail
<1>15. ASSUME NEW lost \in BOOLEAN, ApplyError(lost)
       PROVE  HistoryInv'
  <2>1. \A s \in SessionId : alive'[s] => alive[s]
    BY <1>15 DEF ApplyError, TypeOK
  <2>. QED  BY <1>15, <2>1, SameHistory DEF ApplyError, Fail
<1>16. CASE ApplyCommit
  <2>1. /\ who \in SessionId /\ who \in sessions /\ staged'[who] = <<>>
        /\ \A s \in SessionId \ {who} : staged'[s] = staged[s]
    BY <1>16, CommitHistory DEF ApplyCommit, TypeOK
  <2>2. StagedIdsInOrder'
    BY <1>16, <2>1 DEF ApplyCommit, StagedIdsInOrder, HistoryInv, Ids
  <2>3. NothingAppliedTwice'
    BY <1>16, <2>1, CommitHistory
       DEF ApplyCommit, NothingAppliedTwice, HistoryInv, Ids
  <2>. QED
    BY <1>16, <2>1, <2>2, <2>3, CommitHistory DEF ApplyCommit, HistoryInv
<1>17. CASE ApplyCommitUnknown
  <2>1. /\ who \in SessionId /\ who \in sessions /\ ~alive'[who]
        /\ \A s \in SessionId \ {who} : alive'[s] = alive[s]
    BY <1>17, CommitHistory DEF ApplyCommitUnknown, TypeOK
  <2>2. StagedIdsInOrder'
    BY <1>17 DEF ApplyCommitUnknown, Fail, StagedIdsInOrder, HistoryInv, Ids
  <2>3. NothingAppliedTwice'
    BY <1>17, <2>1, CommitHistory
       DEF ApplyCommitUnknown, Fail, NothingAppliedTwice, HistoryInv, Ids
  <2>. QED
    BY <1>17, <2>1, <2>2, <2>3, CommitHistory
       DEF ApplyCommitUnknown, Fail, HistoryInv
<1>18. CASE ReloadAfterWrite
  <2>1. who \in SessionId
    BY <1>18 DEF ReloadAfterWrite, TypeOK
  <2>2. CASE closing
    BY <1>18, <2>1, <2>2, DropHistoryInv DEF ReloadAfterWrite
  <2>3. CASE ~closing
    BY <1>18, <2>3, SameHistory DEF ReloadAfterWrite
  <2>. QED  BY <2>2, <2>3
<1>19. ASSUME NEW k \in Key, ExternalLock(k) \/ ExternalEnd(k)
       PROVE  HistoryInv'
  BY <1>19, SameHistory DEF ExternalLock, ExternalEnd, ExternalCommit
<1>20. CASE UNCHANGED vars
  BY <1>20, SameHistory DEF vars
<1>21. ASSUME NEW s \in SessionId, WindowNext(s)
       PROVE  HistoryInv'
  BY <1>21, <1>2, <1>3, <1>4, <1>5, <1>6, <1>7, <1>8, <1>9, <1>10, <1>11, <1>12
     DEF WindowNext
<1>. QED
  BY <1>1, <1>13, <1>14, <1>15, <1>16, <1>17, <1>18, <1>19, <1>20, <1>21
     DEF Next, ApplyNext

\* A Staged Change that took effect never waits in a Session that could apply
\* it again, in every reachable state.
THEOREM AtMostOnce == Spec => []NothingAppliedTwice
<1>1. HistoryInv => NothingAppliedTwice
  BY DEF HistoryInv
<1>. QED
  BY <1>1, InitTypeOK, NextTypeOK, InitHistoryInv, NextHistoryInv, PTL DEF Spec

\* The ids of a bag grow and are never given twice, in every reachable state.
THEOREM IdsInOrder == Spec => []StagedIdsInOrder
<1>1. HistoryInv => StagedIdsInOrder
  BY DEF HistoryInv
<1>. QED
  BY <1>1, InitTypeOK, NextTypeOK, InitHistoryInv, NextHistoryInv, PTL DEF Spec

-----------------------------------------------------------------------------
(* Own writes.  Between a write of a Session and the reload that ends the  *)
(* handler its bag is empty and no window takes an event.                  *)

OwnWritesInv ==
  /\ \A s \in SessionId \ sessions : unseen[s] = {}
  /\ \A s \in SessionId :
       alive[s] /\ unseen[s] # {} => at = "reload" /\ who = s /\ staged[s] = <<>>

LEMMA InitOwnWritesInv == Init => OwnWritesInv
BY DEF Init, OwnWritesInv

\* A step outside the reload that wakes no connection and writes no row.
LEMMA SameUnseen ==
  ASSUME OwnWritesInv, at # "reload", sessions' = sessions, unseen' = unseen,
         \A s \in SessionId : alive'[s] => alive[s]
  PROVE  OwnWritesInv'
BY DEF OwnWritesInv

\* A read of the grids.
LEMMA LoadUnseen ==
  ASSUME TypeOK, OwnWritesInv, NEW s \in SessionId, LoadGrid(s),
         at = "idle" \/ (at = "reload" /\ who = s),
         UNCHANGED <<sessions, staged, alive>>
  PROVE  OwnWritesInv'
<1>1. unseen'[s] = IF staged[s] = <<>> THEN {} ELSE unseen[s]
  BY DEF LoadGrid, TypeOK
<1>2. \A r \in SessionId \ {s} : unseen'[r] = unseen[r]
  BY DEF LoadGrid, TypeOK
<1>3. \A r \in SessionId : ~(alive'[r] /\ unseen'[r] # {})
  BY <1>1, <1>2 DEF OwnWritesInv
<1>. QED  BY <1>1, <1>2, <1>3 DEF OwnWritesInv

LEMMA DropUnseen ==
  ASSUME TypeOK, OwnWritesInv, NEW s \in SessionId, Drop(s),
         at = "idle" \/ (at = "reload" /\ who = s)
  PROVE  OwnWritesInv'
<1>1. /\ alive'[s] = FALSE /\ unseen'[s] = {}
      /\ \A r \in SessionId \ {s} : unseen'[r] = unseen[r] /\ alive'[r] = alive[r]
  BY DEF Drop, TypeOK
<1>2. \A r \in SessionId : ~(alive'[r] /\ unseen'[r] # {})
  BY <1>1 DEF OwnWritesInv
<1>. QED  BY <1>1, <1>2 DEF OwnWritesInv, Drop

LEMMA NextOwnWritesInv ==
  TypeOK /\ HistoryInv /\ OwnWritesInv /\ [Next]_vars => OwnWritesInv'
<1>. SUFFICES ASSUME TypeOK, HistoryInv, OwnWritesInv, [Next]_vars
              PROVE  OwnWritesInv'
  OBVIOUS
<1>. USE DEF clientVars, viewVars, uiVars, txVars, dbVars, history
<1>1. ASSUME NEW opens \in BOOLEAN, OpenSession(opens)
      PROVE  OwnWritesInv'
  <2>1. next_id \in SessionId \ sessions
    BY <1>1 DEF OpenSession, HistoryInv, TypeOK
  <2>2. unseen[next_id] = {} /\ \A s \in SessionId \ {next_id} : alive'[s] = alive[s]
    BY <1>1, <2>1 DEF OpenSession, OwnWritesInv, TypeOK
  <2>. QED  BY <1>1, <2>1, <2>2 DEF OpenSession, OwnWritesInv
<1>2. ASSUME NEW s \in SessionId, CloseClean(s) \/ PromptDiscard(s)
      PROVE  OwnWritesInv'
  BY <1>2, DropUnseen DEF CloseClean, PromptDiscard
<1>3. ASSUME NEW s \in SessionId, CloseDirty(s) \/ PromptCancel(s)
      PROVE  OwnWritesInv'
  BY <1>3, SameUnseen DEF CloseDirty, PromptCancel, Free
<1>4. ASSUME NEW s \in SessionId, Reload(s)
      PROVE  OwnWritesInv'
  BY <1>4, LoadUnseen DEF Reload, Free
<1>5. ASSUME NEW s \in SessionId, NEW ch, Push(s, ch), at = "idle"
      PROVE  OwnWritesInv'
  BY <1>5, SameUnseen DEF Push
<1>6. ASSUME NEW s \in SessionId, NEW id, Unstage(s, id) \/ Discard(s)
      PROVE  OwnWritesInv'
  BY <1>6, SameUnseen DEF Unstage, Discard, Free
<1>7. ASSUME NEW s \in SessionId, NEW k, NEW slot, ExecuteMutating(s, k, slot)
      PROVE  OwnWritesInv'
  <2>1. /\ at = "idle" /\ at' = "reload" /\ who' = s /\ staged'[s] = <<>>
        /\ s \in sessions
        /\ \A r \in SessionId \ {s} : unseen'[r] = unseen[r]
        /\ UNCHANGED <<sessions, staged, alive>>
    BY <1>7 DEF ExecuteMutating, Free, Call, TypeOK
  <2>. QED  BY <2>1 DEF OwnWritesInv
<1>8. ASSUME NEW s \in SessionId, ExecuteSchemaChange(s) \/ BeginApply(s)
      PROVE  OwnWritesInv'
  BY <1>8, SameUnseen DEF ExecuteSchemaChange, BeginApply, Free
<1>9. CASE ApplyWait \/ ApplyStatement
  BY <1>9, SameUnseen DEF ApplyWait, ApplyStatement, Executing, Sent
<1>10. CASE ApplyConflict \/ ApplyRefused
  BY <1>10, SameUnseen DEF ApplyConflict, ApplyRefused, Executing, Sent, Fail
<1>11. ASSUME NEW lost \in BOOLEAN, ApplyError(lost)
       PROVE  OwnWritesInv'
  <2>1. \A s \in SessionId : alive'[s] => alive[s]
    BY <1>11 DEF ApplyError, TypeOK
  <2>. QED  BY <1>11, <2>1, SameUnseen DEF ApplyError, Fail
<1>12. CASE ApplyCommit
  <2>1. /\ at = "apply" /\ at' = "reload" /\ who' = who /\ staged'[who] = <<>>
        /\ who \in sessions
        /\ \A r \in SessionId \ {who} : unseen'[r] = unseen[r]
        /\ UNCHANGED <<sessions, alive>>
    BY <1>12 DEF ApplyCommit, Commit, Call, TypeOK
  <2>. QED  BY <2>1 DEF OwnWritesInv
<1>13. CASE ApplyCommitUnknown
  <2>1. /\ at = "apply" /\ ~alive'[who] /\ who \in sessions
        /\ \A r \in SessionId \ {who} :
             unseen'[r] = unseen[r] /\ alive'[r] = alive[r]
        /\ sessions' = sessions
    BY <1>13 DEF ApplyCommitUnknown, Commit, Fail, TypeOK
  <2>. QED  BY <2>1 DEF OwnWritesInv
<1>14. CASE ReloadAfterWrite
  <2>1. at = "reload" /\ who \in SessionId
    BY <1>14 DEF ReloadAfterWrite, TypeOK
  <2>2. CASE closing
    BY <1>14, <2>1, <2>2, DropUnseen DEF ReloadAfterWrite
  <2>3. CASE ~closing
    BY <1>14, <2>1, <2>3, LoadUnseen DEF ReloadAfterWrite
  <2>. QED  BY <2>2, <2>3
<1>15. ASSUME NEW k \in Key, ExternalLock(k) \/ ExternalEnd(k)
       PROVE  OwnWritesInv'
  BY <1>15 DEF ExternalLock, ExternalEnd, ExternalCommit, OwnWritesInv
<1>16. CASE UNCHANGED vars
  BY <1>16 DEF vars, OwnWritesInv
<1>17. ASSUME NEW s \in SessionId, WindowNext(s)
       PROVE  OwnWritesInv'
  BY <1>17, <1>2, <1>3, <1>4, <1>5, <1>6, <1>7, <1>8
     DEF WindowNext, StageInsert, StageUpdate, StageRekey, StageDelete, Free
<1>. QED
  BY <1>1, <1>9, <1>10, <1>11, <1>12, <1>13, <1>14, <1>15, <1>16, <1>17
     DEF Next, ApplyNext

\* The Staged Changes of a usable Session come from grids that show everything
\* the Session wrote, in every reachable state.
THEOREM StagedAfterOwnWrites == Spec => []OwnWritesSeen
<1>1. OwnWritesInv => OwnWritesSeen
  BY DEF OwnWritesInv, OwnWritesSeen
<1>. QED
  BY <1>1, InitTypeOK, NextTypeOK, InitHistoryInv, NextHistoryInv,
     InitOwnWritesInv, NextOwnWritesInv, PTL DEF Spec

-----------------------------------------------------------------------------
(* A Staged Change is never lost.  The one place that drops a bag without  *)
(* asking is the reload of a close prompt's Apply, and there it is empty.  *)

\* The handler that reloads has nothing staged.
ReloadInv == at = "reload" => staged[who] = <<>>

LEMMA InitReloadInv == Init => ReloadInv
BY DEF Init, ReloadInv

LEMMA NextReloadInv == TypeOK /\ ReloadInv /\ [Next]_vars => ReloadInv'
<1>. SUFFICES ASSUME TypeOK, ReloadInv, [Next]_vars  PROVE ReloadInv'
  OBVIOUS
<1>. USE DEF clientVars, viewVars, uiVars, txVars, dbVars, history
<1>1. ASSUME at' # "reload"  PROVE ReloadInv'
  BY <1>1 DEF ReloadInv
<1>2. ASSUME UNCHANGED <<at, who, staged>>  PROVE ReloadInv'
  BY <1>2 DEF ReloadInv
<1>3. ASSUME NEW s \in SessionId, NEW k, NEW slot, ExecuteMutating(s, k, slot)
      PROVE  ReloadInv'
  BY <1>3 DEF ExecuteMutating, Call, ReloadInv
<1>4. ASSUME NEW s \in SessionId, ExecuteSchemaChange(s)
      PROVE  ReloadInv'
  BY <1>4 DEF ExecuteSchemaChange, Call, ReloadInv
<1>5. ASSUME NEW s \in SessionId, WindowNext(s)
      PROVE  ReloadInv'
  BY <1>1, <1>3, <1>4, <1>5 DEF WindowNext, CloseClean, CloseDirty, PromptDiscard,
     PromptCancel, Reload, StageInsert, StageUpdate, StageRekey, StageDelete,
     Push, Unstage, Discard, BeginApply, Free, Call
<1>6. CASE ApplyCommit
  BY <1>6 DEF ApplyCommit, Commit, Call, ReloadInv, TypeOK
<1>7. CASE ApplyConflict \/ ApplyRefused \/ ApplyCommitUnknown \/ ReloadAfterWrite
  BY <1>1, <1>7 DEF ApplyConflict, ApplyRefused, ApplyCommitUnknown,
     ReloadAfterWrite, Fail, Return
<1>8. CASE \E lost \in BOOLEAN : ApplyError(lost)
  BY <1>1, <1>8 DEF ApplyError, Fail, Return
<1>9. CASE ApplyWait \/ ApplyStatement
  BY <1>2, <1>9 DEF ApplyWait, ApplyStatement
<1>10. CASE \E k \in Key : ExternalLock(k) \/ ExternalEnd(k)
  BY <1>2, <1>10 DEF ExternalLock, ExternalEnd, ExternalCommit
<1>11. CASE (\E opens \in BOOLEAN : OpenSession(opens)) \/ UNCHANGED vars
  BY <1>1, <1>2, <1>11 DEF OpenSession, vars
<1>. QED
  BY <1>5, <1>6, <1>7, <1>8, <1>9, <1>10, <1>11 DEF Next, ApplyNext

\* What a step may take from the bag of a Session, as StagedLeavesOnlyBy says it.
LeavesRightly(s) ==
  \A id \in Ids(s) \ {staged'[s][i].id : i \in DOMAIN staged'[s]} :
    <<s, id>> \in committed' \/ Unstage(s, id) \/ Discard(s) \/ PromptDiscard(s)

\* A bag that stays loses nothing, nor does an empty one.
LEMMA NothingLeaves ==
  ASSUME NEW s, staged'[s] = staged[s] \/ staged[s] = <<>>
  PROVE  LeavesRightly(s)
BY DEF LeavesRightly, Ids

LEMMA PushLeaves ==
  ASSUME TypeOK, NEW r \in SessionId, NEW s \in SessionId, NEW ch, Push(r, ch)
  PROVE  LeavesRightly(s)
<1>1. CASE s # r
  BY <1>1, NothingLeaves DEF Push, TypeOK
<1>2. CASE s = r
  <2>1. staged'[s] = Append(staged[s], ch) /\ staged[s] \in Seq(StagedChange)
    BY <1>2 DEF Push, TypeOK
  <2>2. \A i \in DOMAIN staged[s] :
          i \in DOMAIN Append(staged[s], ch) /\ Append(staged[s], ch)[i] = staged[s][i]
    BY <2>1
  <2>. QED  BY <2>1, <2>2 DEF LeavesRightly, Ids
<1>. QED  BY <1>1, <1>2

LEMMA UnstageLeaves ==
  ASSUME TypeOK, NEW r \in SessionId, NEW s \in SessionId, NEW id, Unstage(r, id)
  PROVE  LeavesRightly(s)
<1>1. CASE s # r
  BY <1>1, NothingLeaves DEF Unstage, TypeOK
<1>2. CASE s = r
  <2>1. staged'[s] = Without(staged[s], id) /\ staged[s] \in Seq(StagedChange)
    BY <1>2 DEF Unstage, TypeOK
  <2>2. ASSUME NEW i \in DOMAIN staged[s], staged[s][i].id # id
        PROVE  \E j \in DOMAIN staged'[s] : staged'[s][j] = staged[s][i]
    BY <2>1, <2>2, WithoutKeeps
  <2>3. \A other \in Ids(s) \ {staged'[s][i].id : i \in DOMAIN staged'[s]} : other = id
    BY <2>2 DEF Ids
  <2>. QED  BY <1>2, <2>3 DEF LeavesRightly
<1>. QED  BY <1>1, <1>2

LEMMA DropLeaves ==
  ASSUME TypeOK, NEW r \in SessionId, NEW s \in SessionId, Drop(r),
         staged[r] = <<>> \/ PromptDiscard(r)
  PROVE  LeavesRightly(s)
<1>1. CASE s # r
  BY <1>1, NothingLeaves DEF Drop, TypeOK
<1>2. CASE s = r
  BY <1>2, NothingLeaves DEF LeavesRightly
<1>. QED  BY <1>1, <1>2

LEMMA StepLeaves ==
  ASSUME TypeOK, ReloadInv, [Next]_vars, NEW s \in SessionId
  PROVE  LeavesRightly(s)
<1>. USE DEF clientVars, viewVars, uiVars, txVars, dbVars, history
<1>1. ASSUME staged' = staged  PROVE LeavesRightly(s)
  BY <1>1, NothingLeaves
<1>2. ASSUME NEW r \in SessionId, CloseClean(r) \/ PromptDiscard(r)
      PROVE  LeavesRightly(s)
  BY <1>2, DropLeaves DEF CloseClean, PromptDiscard
<1>3. ASSUME NEW r \in SessionId, NEW ch, Push(r, ch)
      PROVE  LeavesRightly(s)
  BY <1>3, PushLeaves
<1>4. ASSUME NEW r \in SessionId, NEW id, Unstage(r, id)
      PROVE  LeavesRightly(s)
  BY <1>4, UnstageLeaves
<1>5. ASSUME NEW r \in SessionId, Discard(r)
      PROVE  LeavesRightly(s)
  <2>1. CASE s # r
    BY <1>5, <2>1, NothingLeaves DEF Discard, TypeOK
  <2>2. CASE s = r
    BY <1>5, <2>2 DEF LeavesRightly
  <2>. QED  BY <2>1, <2>2
<1>6. ASSUME NEW r \in SessionId, WindowNext(r)
      PROVE  LeavesRightly(s)
  BY <1>1, <1>2, <1>3, <1>4, <1>5, <1>6
     DEF WindowNext, CloseDirty, PromptCancel, Reload, StageInsert, StageUpdate,
         StageRekey, StageDelete, ExecuteMutating, ExecuteSchemaChange, BeginApply
<1>7. CASE ApplyCommit
  <2>1. committed' = committed \cup ({who} \X Ids(who)) /\ who \in SessionId
    BY <1>7 DEF ApplyCommit, Commit, TypeOK
  <2>2. CASE s = who
    BY <2>1, <2>2 DEF LeavesRightly
  <2>3. CASE s # who
    BY <1>7, <2>1, <2>3, NothingLeaves DEF ApplyCommit, TypeOK
  <2>. QED  BY <2>2, <2>3
<1>8. CASE ReloadAfterWrite
  <2>1. at = "reload" /\ who \in SessionId /\ staged[who] = <<>>
    BY <1>8 DEF ReloadAfterWrite, ReloadInv, TypeOK
  <2>2. CASE closing
    BY <1>8, <2>1, <2>2, DropLeaves DEF ReloadAfterWrite
  <2>3. CASE ~closing
    BY <1>1, <1>8, <2>3 DEF ReloadAfterWrite
  <2>. QED  BY <2>2, <2>3
<1>9. CASE ApplyConflict \/ ApplyRefused \/ ApplyCommitUnknown
  BY <1>1, <1>9 DEF ApplyConflict, ApplyRefused, ApplyCommitUnknown, Fail
<1>10. CASE \E lost \in BOOLEAN : ApplyError(lost)
  BY <1>1, <1>10 DEF ApplyError, Fail
<1>11. CASE ApplyWait \/ ApplyStatement
  BY <1>1, <1>11 DEF ApplyWait, ApplyStatement
<1>12. CASE \E k \in Key : ExternalLock(k) \/ ExternalEnd(k)
  BY <1>1, <1>12 DEF ExternalLock, ExternalEnd, ExternalCommit
<1>13. CASE (\E opens \in BOOLEAN : OpenSession(opens)) \/ UNCHANGED vars
  BY <1>1, <1>13 DEF OpenSession, vars
<1>. QED
  BY <1>6, <1>7, <1>8, <1>9, <1>10, <1>11, <1>12, <1>13 DEF Next, ApplyNext

\* A Staged Change leaves its bag because it took effect or because the user
\* let it go, and for no other reason.
THEOREM NoStagedChangeLost == Spec => StagedLeavesOnlyBy
<1>1. TypeOK /\ ReloadInv /\ [Next]_vars => [\A s \in SessionId : LeavesRightly(s)]_vars
  BY StepLeaves
<1>2. [\A s \in SessionId : LeavesRightly(s)]_vars <=>
        [\A s \in SessionId : \A id \in Ids(s) \ {staged'[s][i].id : i \in DOMAIN staged'[s]} :
           \/ <<s, id>> \in committed'
           \/ Unstage(s, id) \/ Discard(s) \/ PromptDiscard(s)]_vars
  BY DEF LeavesRightly
<1>. QED
  BY <1>1, <1>2, InitTypeOK, NextTypeOK, InitReloadInv, NextReloadInv, PTL
     DEF Spec, StagedLeavesOnlyBy
=============================================================================
