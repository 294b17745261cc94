----------------------- MODULE ApplyRefinementProofs -----------------------
(***************************************************************************)
(* StagedApply implements AtomicApply, for every Table, Engine and bag:    *)
(* each step is a step of AtomicApply or changes nothing there.  Only the  *)
(* commit needs an invariant: the transaction is a run of the bag on the   *)
(* Table as it is now, not as it was when the statements were executed.    *)
(***************************************************************************)
EXTENDS ApplyRefinement, StagedApplyProofs, IndexFacts

\* tables[i] is the Table after the first i changes of a bag, none of which
\* fails, starting from a given Table.
Run(tables, table, bag, n) ==
  /\ tables[0] = table
  /\ \A i \in 1..n : /\ Succeeds(bag[i], tables[i - 1])
                     /\ tables[i] = ApplyChange(bag[i], tables[i - 1])

\* What the transaction sees is what such a run of the executed changes leaves,
\* and the run stays within the rows it has touched.
RunInv ==
  at = "apply" =>
    /\ \A i \in 1..done : Targets(staged[who][i]) \subseteq touched
    /\ \E tables \in [0..done -> Table] : Run(tables, db, staged[who], done) /\ tables[done] = View

-----------------------------------------------------------------------------
(* A statement reads and writes its own rows only.                         *)

\* A row that is no target can be written before or after.
LEMMA WriteElsewhere ==
  ASSUME NEW ch \in StagedChange, NEW table \in Table, NEW k \in Key, NEW slot \in Slot,
         k \notin Targets(ch), Succeeds(ch, table)
  PROVE  LET other == [table EXCEPT ![k] = slot]
         IN  /\ Succeeds(ch, other)
             /\ ApplyChange(ch, other) = [ApplyChange(ch, table) EXCEPT ![k] = slot]
<1>. DEFINE other == [table EXCEPT ![k] = slot]
<1>1. other \in Table /\ \A j \in Key \ {k} : other[j] = table[j]
  BY DEF Table
<1>2. CASE ch \in Insert
  BY <1>1, <1>2 DEF Insert, Targets, Succeeds, AffectsOneRow, ViolatesIdentity, ApplyChange, Table
<1>3. CASE ch \in Delete
  BY <1>1, <1>3 DEF Delete, Targets, Succeeds, AffectsOneRow, ViolatesIdentity, ApplyChange, Table
<1>4. CASE ch \in Update
  <2>1. ch.op = "update" /\ ch.key \in Key \ {k} /\ ch.to \in Key \ {k}
    BY <1>4 DEF Update, Targets
  <2>2. other[ch.key] = table[ch.key] /\ other[ch.to] = table[ch.to]
    BY <1>1, <2>1
  <2>3. Succeeds(ch, other)
    BY <2>1, <2>2 DEF Succeeds, AffectsOneRow, ViolatesIdentity
  <2>4. ApplyChange(ch, other) = [ApplyChange(ch, table) EXCEPT ![k] = slot]
    <3>. DEFINE row == Assign(table[ch.key], ch.set)
    <3>1. /\ ApplyChange(ch, other) = [other EXCEPT ![ch.key] = Absent, ![ch.to] = row]
          /\ ApplyChange(ch, table) = [table EXCEPT ![ch.key] = Absent, ![ch.to] = row]
      BY <2>1, <2>2 DEF ApplyChange
    <3>. HIDE DEF row
    <3>. QED  BY <2>1, <3>1 DEF Table
  <2>. QED  BY <2>3, <2>4
<1>. QED  BY <1>2, <1>3, <1>4 DEF StagedChange

\* A statement leaves every row that is no target.
LEMMA OnlyTargets ==
  ASSUME NEW ch \in StagedChange, NEW table \in Table, NEW k \in Key, k \notin Targets(ch)
  PROVE  ApplyChange(ch, table)[k] = table[k]
BY DEF StagedChange, Insert, Update, Delete, Targets, ApplyChange, Table

-----------------------------------------------------------------------------
(* The invariant of the running transaction.                               *)

LEMMA InitRunInv == Init => RunInv
BY DEF Init, RunInv

\* A step that keeps the transaction and what is committed keeps the run.
LEMMA SameRun ==
  ASSUME RunInv, UNCHANGED <<at, who, done, touched, work, staged, db>>
  PROVE  RunInv'
BY DEF RunInv, Run, View, Table

\* The next statement prolongs the run by one change.
LEMMA StatementRunInv ==
  ASSUME TypeOK, TransactionInv, RunInv, ApplyStatement
  PROVE  RunInv'
<1>. DEFINE bag == staged[who]
            now == ApplyChange(Current, View)
<1>1. /\ at = "apply" /\ at' = at /\ who' = who /\ staged' = staged /\ db' = db
      /\ done' = done + 1 /\ done \in Nat
      /\ touched' = touched \cup Targets(Current) /\ touched \subseteq Key
      /\ Succeeds(Current, View)
  BY DEF ApplyStatement, Executing, Sent, clientVars, uiVars, dbVars, TypeOK
<1>2. Current \in StagedChange /\ Current = bag[done + 1]
  BY CurrentType DEF ApplyStatement, Executing, Current
<1>3. View \in Table /\ now \in Table
  BY <1>1, <1>2, ViewType, ApplyChangeType
<1>4. View' = now
  <2>1. ASSUME NEW k \in Key, k \notin touched'
        PROVE  now[k] = db[k]
    BY <1>1, <1>2, <1>3, <2>1, OnlyTargets DEF View
  <2>2. work' = [k \in Key |-> IF k \in touched' THEN now[k] ELSE Absent]
    BY DEF ApplyStatement
  <2>. HIDE DEF now
  <2>3. View' = [k \in Key |-> now[k]]
    BY <1>1, <2>1, <2>2 DEF View
  <2>. QED  BY <1>3, <2>3 DEF Table
<1>5. PICK tables \in [0..done -> Table] :
        Run(tables, db, bag, done) /\ tables[done] = View
  BY <1>1 DEF RunInv
<1>6. \A i \in 1..done : Targets(bag[i]) \subseteq touched
  BY <1>1 DEF RunInv
<1>. DEFINE longer == [i \in 0..(done + 1) |-> IF i = done + 1 THEN now ELSE tables[i]]
<1>7. longer \in [0..(done + 1) -> Table]
  <2>. HIDE DEF now
  <2>. QED  BY <1>1, <1>3
<1>8. /\ longer[0] = db
      /\ \A i \in 1..(done + 1) : /\ Succeeds(bag[i], longer[i - 1])
                                  /\ longer[i] = ApplyChange(bag[i], longer[i - 1])
      /\ longer[done + 1] = View'
  <2>1. ASSUME NEW i \in 1..(done + 1)
        PROVE  /\ Succeeds(bag[i], longer[i - 1])
               /\ longer[i] = ApplyChange(bag[i], longer[i - 1])
    <3>1. CASE i = done + 1
      <4>1. longer[i - 1] = View /\ longer[i] = now
        <5>. HIDE DEF now
        <5>. QED  BY <1>1, <1>5, <3>1
      <4>. HIDE DEF longer
      <4>. QED  BY <1>1, <1>2, <3>1, <4>1
    <3>2. CASE i # done + 1
      <4>1. /\ i \in 1..done
            /\ longer[i - 1] = tables[i - 1] /\ longer[i] = tables[i]
        <5>. HIDE DEF now
        <5>. QED  BY <1>1, <3>2
      <4>. HIDE DEF longer
      <4>. QED  BY <1>5, <4>1 DEF Run
    <3>. QED  BY <3>1, <3>2
  <2>2. longer[0] = db
    <3>. HIDE DEF now
    <3>. QED  BY <1>1, <1>5 DEF Run
  <2>3. longer[done + 1] = View'
    <3>. HIDE DEF now
    <3>. QED  BY <1>1, <1>4
  <2>. HIDE DEF longer, now
  <2>. QED  BY <2>1, <2>2, <2>3
<1>9. \A i \in 1..(done + 1) : Targets(bag[i]) \subseteq touched'
  <2>1. \A i \in 1..(done + 1) : i = done + 1 \/ i \in 1..done
    BY <1>1
  <2>. HIDE DEF bag
  <2>. QED  BY <1>1, <1>2, <1>6, <2>1
<1>. HIDE DEF longer, now
<1>10. Run(longer, db, bag, done + 1)
  BY <1>1, <1>8 DEF Run
<1>. QED  BY <1>1, <1>7, <1>8, <1>9, <1>10 DEF RunInv, Table

\* Another program writes a row that no executed change reads or writes, so
\* the run would have done the same on the Table it leaves.
LEMMA ExternalRunInv ==
  ASSUME TypeOK, TransactionInv, RunInv, NEW k \in Key, NEW slot \in Slot,
         ExternalCommit(k, slot)
  PROVE  RunInv'
<1>. SUFFICES ASSUME at = "apply"  PROVE RunInv'
  BY DEF RunInv, ExternalCommit, uiVars
<1>. DEFINE bag == staged[who]
            With(table) == [table EXCEPT ![k] = slot]
<1>1. /\ UNCHANGED <<at, who, staged, done, touched, work>>
      /\ k \in held /\ db' = With(db)
      /\ done \in Nat /\ db \in Table /\ touched \subseteq Key
  BY DEF ExternalCommit, clientVars, uiVars, txVars, TypeOK
<1>2. k \notin touched
  BY <1>1, LocksFacts DEF TransactionInv
<1>3. PICK tables \in [0..done -> Table] :
        Run(tables, db, bag, done) /\ tables[done] = View
  BY DEF RunInv
<1>4. \A i \in 1..done : Targets(bag[i]) \subseteq touched
  BY DEF RunInv
<1>5. \A i \in 1..done : bag[i] \in StagedChange
  <2>1. bag \in Seq(StagedChange) /\ done <= Len(bag)
    BY DEF TypeOK, TransactionInv
  <2>2. \A i \in 1..done : i \in 1..Len(bag)
    BY <1>1, <2>1
  <2>. HIDE DEF bag
  <2>. QED  BY <2>1, <2>2, ElementOfSeq
<1>6. \A table \in Table : With(table) \in Table
  BY DEF Table
<1>7. View' = With(View)
  BY <1>1, <1>2 DEF View, Table
<1>. HIDE DEF With
<1>. DEFINE other == [i \in 0..done |-> With(tables[i])]
<1>8. other \in [0..done -> Table]
  BY <1>6
<1>9. ASSUME NEW i \in 1..done
      PROVE  /\ Succeeds(bag[i], other[i - 1])
             /\ other[i] = ApplyChange(bag[i], other[i - 1])
  <2>1. /\ i \in 0..done /\ i - 1 \in 0..done
        /\ other[i] = With(tables[i]) /\ other[i - 1] = With(tables[i - 1])
    BY <1>1
  <2>2. tables[i - 1] \in Table /\ bag[i] \in StagedChange /\ k \notin Targets(bag[i])
    BY <1>2, <1>4, <1>5, <2>1
  <2>3. Succeeds(bag[i], tables[i - 1]) /\ tables[i] = ApplyChange(bag[i], tables[i - 1])
    BY <1>3 DEF Run
  <2>. HIDE DEF bag, other
  <2>4. /\ Succeeds(bag[i], With(tables[i - 1]))
        /\ ApplyChange(bag[i], With(tables[i - 1])) = With(ApplyChange(bag[i], tables[i - 1]))
    BY <2>2, <2>3, WriteElsewhere DEF With
  <2>. QED  BY <2>1, <2>3, <2>4
<1>10. other[0] = db' /\ other[done] = View'
  BY <1>1, <1>3, <1>7 DEF Run
<1>. HIDE DEF other
<1>11. Run(other, db', bag, done)
  BY <1>1, <1>9, <1>10 DEF Run
<1>. QED  BY <1>1, <1>4, <1>8, <1>10, <1>11 DEF RunInv, Table

LEMMA NextRunInv ==
  TypeOK /\ TransactionInv /\ RunInv /\ [Next]_vars => RunInv'
<1>. SUFFICES ASSUME TypeOK, TransactionInv, RunInv, [Next]_vars
              PROVE  RunInv'
  OBVIOUS
<1>. USE DEF clientVars, viewVars, uiVars, txVars, dbVars, history
<1>1. ASSUME at' # "apply"  PROVE RunInv'
  BY <1>1 DEF RunInv
<1>2. CASE \E opens \in BOOLEAN : OpenSession(opens)
  BY <1>1, <1>2 DEF OpenSession
<1>3. ASSUME NEW s \in SessionId, BeginApply(s)
      PROVE  RunInv'
  <2>1. /\ done' = 0 /\ touched' = {} /\ db' = db /\ db \in Table
    BY <1>3 DEF BeginApply, TransactionInv, TypeOK
  <2>. DEFINE tables == [i \in 0..0 |-> db]
  <2>2. tables \in [0..0 -> Table] /\ tables[0] = db
    BY <2>1
  <2>3. View' = db
    BY <2>1 DEF View, Table
  <2>. HIDE DEF tables
  <2>. QED  BY <2>1, <2>2, <2>3 DEF RunInv, Run
<1>4. ASSUME NEW s \in SessionId, WindowNext(s)
      PROVE  RunInv'
  BY <1>1, <1>3, <1>4 DEF WindowNext, CloseClean, CloseDirty, PromptDiscard,
     PromptCancel, Reload, StageInsert, StageUpdate, StageRekey, StageDelete,
     Push, Unstage, Discard, ExecuteMutating, ExecuteSchemaChange, Free, Call
<1>5. CASE ApplyWait
  BY <1>5, SameRun DEF ApplyWait
<1>6. CASE ApplyStatement
  BY <1>6, StatementRunInv
<1>7. CASE ApplyConflict \/ ApplyRefused \/ ApplyCommitUnknown
  BY <1>1, <1>7 DEF ApplyConflict, ApplyRefused, ApplyCommitUnknown, Fail, Return
<1>8. CASE \E lost \in BOOLEAN : ApplyError(lost)
  BY <1>1, <1>8 DEF ApplyError, Fail, Return
<1>9. CASE ApplyCommit \/ ReloadAfterWrite
  BY <1>1, <1>9 DEF ApplyCommit, ReloadAfterWrite, Call, Return
<1>10. CASE \E k \in Key : ExternalLock(k)
  BY <1>10, SameRun DEF ExternalLock
<1>11. CASE \E k \in Key : ExternalEnd(k)
  BY <1>11, ExternalRunInv DEF ExternalEnd
<1>12. CASE UNCHANGED vars
  BY <1>12, SameRun DEF vars
<1>. QED
  BY <1>2, <1>4, <1>5, <1>6, <1>7, <1>8, <1>9, <1>10, <1>11, <1>12
     DEF Next, ApplyNext

-----------------------------------------------------------------------------
(* The commit: After, the recursion of AtomicApply, is that run.           *)

\* The statements of AtomicApply are those of StagedApply.
LEMMA SameStatements ==
  \A ch, table : /\ Atomic!Succeeds(ch, table) <=> Succeeds(ch, table)
                 /\ Atomic!ApplyChange(ch, table) = ApplyChange(ch, table)
BY DEF Atomic!Succeeds, Atomic!AffectsOneRow, Atomic!RowPredicate, Atomic!Assign,
       Atomic!ViolatesIdentity, Atomic!ApplyChange,
       Succeeds, AffectsOneRow, RowPredicate, Assign, ViolatesIdentity, ApplyChange

\* A run of a whole bag is what the recursion computes.
LEMMA AfterIsTheRun ==
  ASSUME NEW bag, NEW n \in Nat, Len(bag) = n,
         NEW tables \in [0..n -> Table], Run(tables, db, bag, n)
  PROVE  Atomic!After(bag) = tables
<1>. DEFINE Step(f) == [i \in 0..n |-> IF i = 0 THEN db
                                       ELSE ApplyChange(bag[i], f[i - 1])]
<1>1. tables = Step(tables)
  <2>1. \A i \in 0..n : tables[i] = Step(tables)[i]
    <3>1. ASSUME NEW i \in 0..n  PROVE tables[i] = Step(tables)[i]
      <4>1. CASE i = 0
        BY <4>1 DEF Run
      <4>2. CASE i # 0
        BY <4>2 DEF Run
      <4>. QED  BY <4>1, <4>2
    <3>. QED  BY <3>1
  <2>. QED  BY <2>1
<1>2. ASSUME NEW f, f = Step(f)
      PROVE  f = tables
  <2>. DEFINE Differ == {i \in 0..n : f[i] # tables[i]}
  <2>1. f = [i \in 0..n |-> f[i]] /\ tables = [i \in 0..n |-> tables[i]]
    BY <1>2
  <2>2. Differ = {}
    <3>. SUFFICES ASSUME Differ # {}  PROVE FALSE
      OBVIOUS
    <3>1. PICK m \in Differ : \A i \in Differ : m <= i
      BY LeastMember
    <3>2. m \in 0..n /\ f[m] # tables[m] /\ \A i \in 0..n : i < m => f[i] = tables[i]
      BY <3>1
    <3>3. f[m] = Step(f)[m] /\ tables[m] = Step(tables)[m]
      <4>. HIDE DEF Step
      <4>. QED  BY <1>1, <1>2
    <3>4. m # 0 => m - 1 \in 0..n /\ m - 1 < m
      BY <3>2
    <3>5. m # 0 => f[m - 1] = tables[m - 1]
      BY <3>2, <3>4
    <3>6. Step(f)[m] = Step(tables)[m]
      BY <3>2, <3>5
    <3>. QED  BY <3>2, <3>3, <3>6
  <2>3. \A i \in 0..n : f[i] = tables[i]
    BY <2>2
  <2>. QED  BY <2>1, <2>3
<1>3. Atomic!After(bag) = CHOOSE f : f = Step(f)
  BY SameStatements DEF Atomic!After
<1>. HIDE DEF Step
<1>. QED  BY <1>1, <1>2, <1>3

\* A Session that can reach the Database and whose bag has a run to the Table
\* committed next applies it in one step of AtomicApply.
LEMMA BagApplies ==
  ASSUME TypeOK, NEW s \in SessionId, s \in sessions, alive[s],
         NEW tables \in [0..Len(staged[s]) -> Table],
         Run(tables, db, staged[s], Len(staged[s])), db' = tables[Len(staged[s])],
         held' = held, NEW learns \in BOOLEAN,
         IF learns
           THEN /\ staged' = [staged EXCEPT ![s] = <<>>]
                /\ at' = "reload" /\ who' = s
                /\ sessions' = sessions /\ alive' = alive
           ELSE /\ sessions' = sessions /\ alive' = [alive EXCEPT ![s] = FALSE]
                /\ at # "reload" /\ at' # "reload" /\ staged' = staged
  PROVE  Atomic!ApplyBag(s, learns)
<1>. DEFINE bag == staged[s]
<1>1. Len(bag) \in Nat
  BY LenProperties DEF TypeOK
<1>2. Atomic!After(bag) = tables
  BY <1>1, AfterIsTheRun
<1>3. \A i \in 1..Len(bag) : Atomic!Succeeds(bag[i], Atomic!After(bag)[i - 1])
  BY <1>2, SameStatements DEF Run
<1>4. db' = Atomic!After(bag)[Len(bag)]
  BY <1>2
<1>5. ~learns => {r \in sessions' : alive'[r]} = {r \in sessions : alive[r]} \ {s}
  BY DEF TypeOK
<1>. QED  BY <1>3, <1>4, <1>5 DEF Atomic!ApplyBag

-----------------------------------------------------------------------------
(* Step simulation.                                                        *)

\* A step of AtomicApply, or none.
AtomicStep == Atomic!Next \/ UNCHANGED Atomic!avars

\* Which disjunct of Atomic!Next a step is.
LEMMA IsAtomicStep ==
  ASSUME \/ UNCHANGED Atomic!avars
         \/ Atomic!OtherLock(held' \ held)
         \/ \E k \in Key : Atomic!OtherEnd(k, db'[k], held \ held')
         \/ \E s \in SessionId : \/ Atomic!Stage(s, staged'[s])
                                 \/ Atomic!Open(s) \/ Atomic!Close(s)
                                 \/ Atomic!Lose(s) \/ Atomic!Reread(s)
         \/ \E s \in SessionId, k \in Key : Atomic!RunSql(s, k, db'[k])
         \/ \E s \in SessionId, learns \in BOOLEAN : Atomic!ApplyBag(s, learns)
  PROVE  AtomicStep
BY DEF AtomicStep, Atomic!Next

\* A handler that changes nothing the abstract specification has.
LEMMA Stutters ==
  ASSUME UNCHANGED <<sessions, alive, staged, held, db>>, at # "reload", at' # "reload"
  PROVE  AtomicStep
<1>1. {s \in sessions : alive[s]}' = {s \in sessions : alive[s]}
  OBVIOUS
<1>. QED  BY <1>1 DEF AtomicStep, Atomic!avars

\* A Session that closes.
LEMMA DropSimulated ==
  ASSUME TypeOK, NEW s \in SessionId, Drop(s), UNCHANGED <<held, db>>,
         at' = "idle", at = "idle" \/ (at = "reload" /\ who = s)
  PROVE  AtomicStep
<1>1. {r \in sessions' : alive'[r]} = {r \in sessions : alive[r]} \ {s}
  BY DEF Drop, TypeOK
<1>2. Atomic!Close(s)
  BY <1>1 DEF Atomic!Close, Drop
<1>. QED  BY <1>2, IsAtomicStep

\* A bag that changes while no handler runs.
LEMMA BagSimulated ==
  ASSUME TypeOK, NEW s \in SessionId, NEW bag, staged' = [staged EXCEPT ![s] = bag],
         at = "idle", at' = "idle", UNCHANGED <<sessions, alive, held, db>>
  PROVE  AtomicStep
<1>1. staged' = [staged EXCEPT ![s] = staged'[s]]
  BY DEF TypeOK
<1>2. {r \in sessions : alive[r]}' = {r \in sessions : alive[r]}
  OBVIOUS
<1>3. Atomic!Stage(s, staged'[s])
  BY <1>1, <1>2 DEF Atomic!Stage
<1>. QED  BY <1>3, IsAtomicStep

\* A failed Apply loses the connection, or nothing.
LEMMA ErrorSimulated ==
  ASSUME TypeOK, NEW lost \in BOOLEAN, ApplyError(lost)
  PROVE  AtomicStep
<1>1. /\ who \in SessionId /\ at = "apply" /\ at' = "idle"
      /\ alive' = [alive EXCEPT ![who] = alive[who] /\ ~lost]
      /\ UNCHANGED <<sessions, staged, held, db>>
  BY DEF ApplyError, Fail, Return, TypeOK, clientVars, dbVars
<1>2. CASE lost
  <2>1. {r \in sessions' : alive'[r]} = {r \in sessions : alive[r]} \ {who}
    BY <1>1, <1>2 DEF TypeOK
  <2>2. PICK s \in SessionId : s = who
    BY <1>1
  <2>3. Atomic!Lose(s)
    BY <1>1, <2>1, <2>2 DEF Atomic!Lose
  <2>. QED  BY <2>3, IsAtomicStep
<1>3. CASE ~lost
  <2>1. \A s \in SessionId : alive'[s] = alive[s]
    BY <1>1, <1>3 DEF TypeOK
  <2>2. alive' = alive
    BY <1>1, <2>1 DEF TypeOK
  <2>. QED  BY <1>1, <2>2, Stutters
<1>. QED  BY <1>2, <1>3

\* The commit installs the whole bag, whether or not the answer arrives.
LEMMA CommitSimulated ==
  ASSUME TypeOK, RunInv, ApplyCommit \/ ApplyCommitUnknown
  PROVE  AtomicStep
<1>1. /\ at = "apply" /\ alive[who] /\ who \in sessions /\ who \in SessionId
      /\ done = Len(staged[who]) /\ db' = View /\ held' = held
  BY DEF ApplyCommit, ApplyCommitUnknown, Commit, TypeOK
<1>2. PICK tables \in [0..done -> Table] :
        Run(tables, db, staged[who], done) /\ tables[done] = View
  BY <1>1 DEF RunInv
<1>3. CASE ApplyCommit
  <2>1. /\ staged' = [staged EXCEPT ![who] = <<>>]
        /\ at' = "reload" /\ who' = who /\ sessions' = sessions /\ alive' = alive
    BY <1>3 DEF ApplyCommit, Call
  <2>2. Atomic!ApplyBag(who, TRUE)
    BY <1>1, <1>2, <2>1, BagApplies
  <2>. QED  BY <1>1, <2>2, IsAtomicStep
<1>4. CASE ApplyCommitUnknown
  <2>1. /\ alive' = [alive EXCEPT ![who] = FALSE] /\ sessions' = sessions
        /\ at # "reload" /\ at' # "reload" /\ staged' = staged
    BY <1>1, <1>4 DEF ApplyCommitUnknown, Fail, Return, clientVars
  <2>2. Atomic!ApplyBag(who, FALSE)
    BY <1>1, <1>2, <2>1, BagApplies
  <2>. QED  BY <1>1, <2>2, IsAtomicStep
<1>. QED  BY <1>3, <1>4

\* SQL and Schema Changes run outside any bag: the one is RunSql, the other
\* the Apply of an empty bag, which leaves the Table and makes the grids stale.
LEMMA MutatingSimulated ==
  ASSUME TypeOK, NEW s \in SessionId, NEW k \in Key, NEW slot \in Slot,
         ExecuteMutating(s, k, slot)
  PROVE  AtomicStep
<1>1. /\ at = "idle" /\ at' = "reload" /\ who' = s /\ s \in sessions
      /\ staged[s] = <<>> /\ alive[s] /\ db' = [db EXCEPT ![k] = slot]
      /\ UNCHANGED <<sessions, alive, staged, held>>
  BY DEF ExecuteMutating, Free, Call, TypeOK, clientVars
<1>2. k \notin held
  BY LocksFacts DEF ExecuteMutating
<1>3. db' = [db EXCEPT ![k] = db'[k]]
  BY <1>1 DEF TypeOK, Table
<1>4. {r \in sessions : alive[r]}' = {r \in sessions : alive[r]}
  BY <1>1
<1>5. Atomic!RunSql(s, k, db'[k])
  BY <1>1, <1>2, <1>3, <1>4 DEF Atomic!RunSql
<1>. QED  BY <1>5, IsAtomicStep

LEMMA SchemaChangeSimulated ==
  ASSUME TypeOK, NEW s \in SessionId, ExecuteSchemaChange(s)
  PROVE  AtomicStep
<1>1. /\ at' = "reload" /\ who' = s /\ s \in sessions /\ alive[s]
      /\ staged[s] = <<>> /\ db \in Table
      /\ UNCHANGED <<sessions, alive, staged, held, db>>
  BY DEF ExecuteSchemaChange, Free, Call, TypeOK, clientVars, dbVars
<1>2. staged' = [staged EXCEPT ![s] = <<>>]
  BY <1>1 DEF TypeOK
<1>3. Len(staged[s]) = 0
  BY <1>1
<1>. DEFINE tables == [i \in 0..0 |-> db]
<1>4. /\ tables \in [0..Len(staged[s]) -> Table]
      /\ Run(tables, db, staged[s], Len(staged[s]))
      /\ db' = tables[Len(staged[s])]
  BY <1>1, <1>3 DEF Run
<1>. HIDE DEF tables
<1>5. Atomic!ApplyBag(s, TRUE)
  BY <1>1, <1>2, <1>4, BagApplies
<1>. QED  BY <1>5, IsAtomicStep

\* The reload that ends a handler.
LEMMA ReloadSimulated ==
  ASSUME TypeOK, ReloadAfterWrite
  PROVE  AtomicStep
<1>1. at = "reload" /\ at' = "idle" /\ who \in SessionId /\ UNCHANGED <<held, db>>
  BY DEF ReloadAfterWrite, Return, TypeOK, dbVars
<1>2. CASE closing
  BY <1>1, <1>2, DropSimulated DEF ReloadAfterWrite
<1>3. CASE ~closing
  <2>1. UNCHANGED <<sessions, alive, staged>>
    BY <1>3 DEF ReloadAfterWrite
  <2>2. {r \in sessions : alive[r]}' = {r \in sessions : alive[r]}
    BY <2>1
  <2>3. Atomic!Reread(who)
    BY <1>1, <2>1, <2>2 DEF Atomic!Reread
  <2>. QED  BY <1>1, <2>3, IsAtomicStep
<1>. QED  BY <1>2, <1>3

\* Other programs are the same in both specifications.
LEMMA ExternalSimulated ==
  ASSUME TypeOK, NEW k \in Key, ExternalLock(k) \/ ExternalEnd(k)
  PROVE  AtomicStep
<1>1. /\ UNCHANGED <<sessions, alive, staged, at, who>>
      /\ {s \in sessions : alive[s]}' = {s \in sessions : alive[s]}
  BY DEF ExternalLock, ExternalEnd, ExternalCommit, clientVars, uiVars
<1>2. CASE ExternalLock(k)
  <2>1. Atomic!OtherLock(held' \ held)
    BY <1>1, <1>2 DEF ExternalLock, Atomic!OtherLock
  <2>. QED  BY <2>1, IsAtomicStep
<1>3. CASE ExternalEnd(k)
  <2>1. PICK slot \in Slot : ExternalCommit(k, slot)
    BY <1>3 DEF ExternalEnd
  <2>2. /\ k \in held /\ k \in Locks({k})
        /\ db' = [db EXCEPT ![k] = db'[k]] /\ held' = held \ Locks({k})
    BY <2>1, LocksFacts DEF ExternalCommit, TypeOK, Table
  <2>3. Atomic!OtherEnd(k, db'[k], held \ held')
    BY <1>1, <2>2 DEF Atomic!OtherEnd
  <2>. QED  BY <2>3, IsAtomicStep
<1>. QED  BY <1>2, <1>3

\* Every step is a step of AtomicApply, or none.
LEMMA StepSimulated ==
  TypeOK /\ RunInv /\ [Next]_vars => [Atomic!Next]_(Atomic!avars)
<1>. SUFFICES ASSUME TypeOK, RunInv, [Next]_vars  PROVE AtomicStep
  BY DEF AtomicStep
<1>. USE DEF clientVars, viewVars, uiVars, txVars, dbVars, history
<1>1. ASSUME NEW opens \in BOOLEAN, OpenSession(opens)
      PROVE  AtomicStep
  <2>1. {r \in sessions' : alive'[r]} = {r \in sessions : alive[r]} \cup {next_id}
    BY <1>1 DEF OpenSession, TypeOK
  <2>2. PICK s \in SessionId : s = next_id
    BY <1>1 DEF OpenSession
  <2>3. Atomic!Open(s)
    BY <1>1, <2>1, <2>2 DEF OpenSession, Atomic!Open
  <2>. QED  BY <2>3, IsAtomicStep
<1>2. ASSUME NEW s \in SessionId, CloseClean(s) \/ PromptDiscard(s)
      PROVE  AtomicStep
  BY <1>2, DropSimulated DEF CloseClean, PromptDiscard
<1>3. ASSUME NEW s \in SessionId, CloseDirty(s) \/ PromptCancel(s)
      PROVE  AtomicStep
  BY <1>3, Stutters DEF CloseDirty, PromptCancel, Free
<1>4. ASSUME NEW s \in SessionId, Reload(s)
      PROVE  AtomicStep
  BY <1>4, Stutters DEF Reload, Free
<1>5. ASSUME NEW s \in SessionId, NEW ch, Push(s, ch), at = "idle"
      PROVE  AtomicStep
  BY <1>5, BagSimulated DEF Push
<1>6. ASSUME NEW s \in SessionId, NEW id, Unstage(s, id)
      PROVE  AtomicStep
  BY <1>6, BagSimulated DEF Unstage, Free
<1>7. ASSUME NEW s \in SessionId, Discard(s)
      PROVE  AtomicStep
  BY <1>7, BagSimulated DEF Discard, Free
<1>8. ASSUME NEW s \in SessionId, NEW k \in Key, NEW slot \in Slot,
             ExecuteMutating(s, k, slot)
      PROVE  AtomicStep
  BY <1>8, MutatingSimulated
<1>9. ASSUME NEW s \in SessionId, ExecuteSchemaChange(s)
      PROVE  AtomicStep
  BY <1>9, SchemaChangeSimulated
<1>10. ASSUME NEW s \in SessionId, BeginApply(s)
       PROVE  AtomicStep
  BY <1>10, Stutters DEF BeginApply, Call
<1>11. ASSUME NEW s \in SessionId, WindowNext(s)
       PROVE  AtomicStep
  BY <1>11, <1>2, <1>3, <1>4, <1>5, <1>6, <1>7, <1>8, <1>9, <1>10
     DEF WindowNext, StageInsert, StageUpdate, StageRekey, StageDelete, Free
<1>12. CASE ApplyWait \/ ApplyStatement
  BY <1>12, Stutters DEF ApplyWait, ApplyStatement, Executing, Sent
<1>13. CASE ApplyConflict \/ ApplyRefused
  BY <1>13, Stutters DEF ApplyConflict, ApplyRefused, Executing, Sent, Fail, Return
<1>14. ASSUME NEW lost \in BOOLEAN, ApplyError(lost)
       PROVE  AtomicStep
  BY <1>14, ErrorSimulated
<1>15. CASE ApplyCommit \/ ApplyCommitUnknown
  BY <1>15, CommitSimulated
<1>16. CASE ReloadAfterWrite
  BY <1>16, ReloadSimulated
<1>17. ASSUME NEW k \in Key, ExternalLock(k) \/ ExternalEnd(k)
       PROVE  AtomicStep
  BY <1>17, ExternalSimulated
<1>18. CASE UNCHANGED vars
  <2>1. {s \in sessions : alive[s]}' = {s \in sessions : alive[s]}
    BY <1>18 DEF vars
  <2>. QED  BY <1>18, <2>1 DEF vars, AtomicStep, Atomic!avars
<1>. QED
  BY <1>1, <1>11, <1>12, <1>13, <1>14, <1>15, <1>16, <1>17, <1>18
     DEF Next, ApplyNext

LEMMA InitSimulated == Init => Atomic!Init
BY DEF Init, Atomic!Init, Table, Slot, Row, Atomic!Slot, Atomic!Row

\* Apply is atomic: a bag takes effect together or not at all, in one step that
\* empties it, wherever other programs and failures come between its statements.
THEOREM ApplyIsAtomic == Spec => ImplementsAtomicApply
BY InitSimulated, StepSimulated, InitTypeOK, NextTypeOK,
   InitTransactionInv, NextTransactionInv, InitRunInv, NextRunInv, PTL
   DEF Spec, ImplementsAtomicApply, Atomic!Spec

-----------------------------------------------------------------------------
(* The same run says which cells Apply leaves alone.                       *)

\* A change that writes the cell c of the row k, or puts the row k there.
Edits(ch, k, c) ==
  \/ ch.op = "insert" /\ ch.key = k
  \/ ch.op = "update" /\ ch.to = k /\ ch.key # k
  \/ ch.op = "update" /\ ch.to = k /\ c \in DOMAIN ch.set

\* A statement that does not edit a cell leaves it or removes its row.
LEMMA StatementKeepsCell ==
  ASSUME NEW ch \in StagedChange, NEW table \in Table, Succeeds(ch, table),
         NEW k \in Key, NEW c \in Col, ~Edits(ch, k, c)
  PROVE  LET now == ApplyChange(ch, table)
         IN  now[k] = Absent \/ (table[k] # Absent /\ now[k][c] = table[k][c])
             \/ now[k] = table[k]
<1>1. CASE ch \in Insert
  BY <1>1 DEF Insert, Edits, ApplyChange, Table
<1>2. CASE ch \in Delete
  BY <1>2 DEF Delete, ApplyChange, Table
<1>3. CASE ch \in Update
  <2>1. ch.op = "update" /\ ch.key \in Key /\ ch.to \in Key
    BY <1>3 DEF Update
  <2>. DEFINE row == Assign(table[ch.key], ch.set)
  <2>2. ApplyChange(ch, table) = [table EXCEPT ![ch.key] = Absent, ![ch.to] = row]
    BY <2>1 DEF ApplyChange
  <2>3. CASE ch.to # k
    <3>. HIDE DEF row
    <3>. QED  BY <2>1, <2>2, <2>3 DEF Table
  <2>4. CASE ch.to = k
    <3>1. ch.key = k /\ c \notin DOMAIN ch.set
      BY <2>1, <2>4 DEF Edits
    <3>2. table[k] # Absent
      BY <2>1, <3>1 DEF Succeeds, AffectsOneRow, RowPredicate
    <3>3. row[c] = table[k][c]
      BY <3>1 DEF Assign
    <3>. HIDE DEF row
    <3>4. ApplyChange(ch, table)[k] = row
      BY <2>1, <2>2, <2>4 DEF Table
    <3>. QED  BY <3>2, <3>3, <3>4
  <2>. QED  BY <2>3, <2>4
<1>. QED  BY <1>1, <1>2, <1>3 DEF StagedChange

\* A run that never edits a cell ends with the cell it began with, or without
\* its row.
LEMMA RunKeepsCell ==
  ASSUME NEW bag, NEW n \in Nat, \A i \in 1..n : bag[i] \in StagedChange,
         NEW tables \in [0..n -> Table], Run(tables, db, bag, n),
         NEW k \in Key, NEW c \in Col, \A i \in 1..n : ~Edits(bag[i], k, c)
  PROVE  tables[n][k] = Absent \/ tables[n][k] = db[k] \/ tables[n][k][c] = db[k][c]
<1>. DEFINE Kept(i) == \/ tables[i][k] = Absent \/ tables[i][k] = db[k]
                       \/ tables[i][k][c] = db[k][c]
            Lost == {i \in 0..n : ~Kept(i)}
<1>1. Kept(0)
  BY DEF Run
<1>2. ASSUME NEW i \in 1..n, Kept(i - 1)
      PROVE  Kept(i)
  <2>1. /\ bag[i] \in StagedChange /\ tables[i - 1] \in Table /\ ~Edits(bag[i], k, c)
        /\ Succeeds(bag[i], tables[i - 1]) /\ tables[i] = ApplyChange(bag[i], tables[i - 1])
    BY DEF Run
  <2>2. \/ tables[i][k] = Absent
        \/ tables[i - 1][k] # Absent /\ tables[i][k][c] = tables[i - 1][k][c]
        \/ tables[i][k] = tables[i - 1][k]
    BY <2>1, StatementKeepsCell
  <2>. QED  BY <1>2, <2>2
<1>3. Lost = {}
  <2>. SUFFICES ASSUME Lost # {}  PROVE FALSE
    OBVIOUS
  <2>1. PICK m \in Lost : \A i \in Lost : m <= i
    BY LeastMember
  <2>2. m \in 0..n /\ ~Kept(m) /\ \A i \in 0..n : i < m => Kept(i)
    BY <2>1
  <2>. HIDE DEF Kept, Lost
  <2>3. m # 0
    BY <1>1, <2>2
  <2>4. m \in 1..n /\ m - 1 \in 0..n /\ m - 1 < m
    BY <2>2, <2>3
  <2>. QED  BY <1>2, <2>2, <2>4
<1>. QED  BY <1>3

\* The step that ends Apply changes only edited cells of the rows that stay.
CommitEdits ==
  ApplyTakesEffect =>
    \A k \in Key, c \in Col :
      (db[k] # Absent /\ db'[k] # Absent /\ db'[k][c] # db[k][c]) =>
        \E i \in DOMAIN staged[who] : Edits(staged[who][i], k, c)

LEMMA CommitEditsOnly ==
  ASSUME TypeOK, RunInv, Commit
  PROVE  CommitEdits
<1>. SUFFICES ASSUME NEW k \in Key, NEW c \in Col,
                     db[k] # Absent, db'[k] # Absent, db'[k][c] # db[k][c]
              PROVE  \E i \in DOMAIN staged[who] : Edits(staged[who][i], k, c)
  BY DEF CommitEdits
<1>1. /\ at = "apply" /\ done = Len(staged[who]) /\ done \in Nat /\ db' = View
      /\ staged[who] \in Seq(StagedChange)
  BY DEF Commit, TypeOK
<1>2. PICK tables \in [0..done -> Table] :
        Run(tables, db, staged[who], done) /\ tables[done] = View
  BY <1>1 DEF RunInv
<1>3. \A i \in 1..done : staged[who][i] \in StagedChange /\ i \in DOMAIN staged[who]
  BY <1>1, ElementOfSeq
<1>4. SUFFICES ASSUME \A i \in 1..done : ~Edits(staged[who][i], k, c)  PROVE FALSE
  BY <1>3
<1>5. \/ tables[done][k] = Absent \/ tables[done][k] = db[k]
      \/ tables[done][k][c] = db[k][c]
  BY <1>1, <1>2, <1>3, <1>4, RunKeepsCell
<1>. QED  BY <1>1, <1>2, <1>5

\* Apply changes no cell the user did not edit.
THEOREM OnlyEditedCells == Spec => EditedCellsOnly
<1>1. TypeOK /\ RunInv /\ [Next]_vars => [CommitEdits]_vars
  <2>. SUFFICES ASSUME TypeOK, RunInv, [Next]_vars  PROVE CommitEdits
    OBVIOUS
  <2>1. CASE Commit
    BY <2>1, CommitEditsOnly
  <2>2. CASE ~Commit
    BY <2>2, OnlyCommitTakesEffect DEF CommitEdits
  <2>. QED  BY <2>1, <2>2
<1>2. [CommitEdits]_vars <=>
        [ApplyTakesEffect =>
           \A k \in Key, c \in Col :
             (db[k] # Absent /\ db'[k] # Absent /\ db'[k][c] # db[k][c]) =>
               \E i \in DOMAIN staged[who] :
                 LET ch == staged[who][i]
                 IN  \/ ch.op = "insert" /\ ch.key = k
                     \/ ch.op = "update" /\ ch.to = k /\ ch.key # k
                     \/ ch.op = "update" /\ ch.to = k /\ c \in DOMAIN ch.set]_vars
  BY DEF CommitEdits, Edits
<1>. QED
  BY <1>1, <1>2, InitTypeOK, NextTypeOK, InitTransactionInv, NextTransactionInv,
     InitRunInv, NextRunInv, PTL
     DEF Spec, EditedCellsOnly
=============================================================================
