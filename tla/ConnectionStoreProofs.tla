----------------------- MODULE ConnectionStoreProofs -----------------------
(***************************************************************************)
(* Theorems about ConnectionStore, for any Connection Strings, any bundles *)
(* and lists of any length.  The loop of merge is a fold; its steps are    *)
(* recovered first, and what it keeps is shown for the first step that     *)
(* would lose it.                                                          *)
(***************************************************************************)
EXTENDS ConnectionStore, IndexFacts, SequenceTheorems

-----------------------------------------------------------------------------
(* What add, merge and a bundle return.                                    *)

\* merge is done one add at a time: after[i] has what the first i of the other
\* list brought.
Adding == INSTANCE FoldFacts WITH Step <- add

MergeSteps(after, items, other, n) ==
  /\ after[0] = items
  /\ \A i \in 1..n : after[i] = add(after[i - 1], other[i])
  /\ merge(items, other) = after[n]

LEMMA MergeStepByStep ==
  ASSUME NEW items, NEW other, NEW n \in Nat, DOMAIN other = 1..n
  PROVE  \E after : MergeSteps(after, items, other, n)
<1>1. PICK after : Adding!FoldSteps(after, items, other, n)
  BY Adding!FoldStepByStep
<1>2. MergeSteps(after, items, other, n)
  BY <1>1 DEF Adding!FoldSteps, MergeSteps, merge, FoldLeft, MapThenFoldSet,
     Max, Adding!FoldLeft, Adding!MapThenFoldSet, Adding!Max
<1>. QED  BY <1>2

\* One list is the beginning of another.
Begins(items, after) ==
  /\ Len(items) <= Len(after)
  /\ \A i \in 1..Len(items) : after[i] = items[i]

LEMMA BeginsIsPrefix ==
  ASSUME NEW S, NEW items \in Seq(S), NEW after \in Seq(S), Begins(items, after)
  PROVE  IsPrefix(items, after)
<1>. DEFINE n == Len(items)
<1>1. n \in Nat /\ Len(after) \in Nat /\ n <= Len(after)
  BY LenProperties DEF Begins
<1>2. \A i \in 1..n : SubSeq(after, 1, n)[i] = SubSeq(items, 1, n)[i]
  BY <1>1 DEF Begins
<1>3. /\ Len(SubSeq(items, 1, n)) = n /\ Len(SubSeq(after, 1, n)) = n
      /\ SubSeq(items, 1, n) \in Seq(S) /\ SubSeq(after, 1, n) \in Seq(S)
  BY <1>1, SubSeqProperties
<1>4. SubSeq(items, 1, n) = SubSeq(after, 1, n)
  BY <1>2, <1>3, SeqEqual
<1>. QED  BY <1>1, <1>4 DEF IsPrefix

\* What a list keeps when others are added to it.
Extends(items, after) ==
  /\ Len(items) <= Len(after)
  /\ \A i \in 1..Len(items) : after[i] = items[i]
  /\ IsInjective(items) => IsInjective(after)

\* add appends what is not on the list, and nothing else.
LEMMA AddExtends ==
  ASSUME NEW S, NEW items \in Seq(S), NEW s \in S
  PROVE  /\ add(items, s) \in Seq(S)
         /\ Extends(items, add(items, s))
         /\ \E i \in 1..Len(add(items, s)) : add(items, s)[i] = s
<1>1. CASE Contains(items, s)
  BY <1>1 DEF add, Extends, Contains
<1>2. CASE ~Contains(items, s)
  <2>. DEFINE new == Append(items, s)
  <2>1. /\ add(items, s) = new /\ new \in Seq(S) /\ Len(new) = Len(items) + 1
        /\ \A i \in 1..Len(items) : new[i] = items[i]
        /\ new[Len(items) + 1] = s
        /\ \A i \in 1..Len(items) : items[i] # s
    BY <1>2, AppendProperties DEF add, Contains
  <2>. HIDE DEF new
  <2>2. Len(items) \in Nat /\ DOMAIN new = 1..(Len(items) + 1) /\ DOMAIN items = 1..Len(items)
    BY <2>1, LenProperties
  <2>3. ASSUME IsInjective(items), NEW i \in DOMAIN new, NEW j \in DOMAIN new, new[i] = new[j]
        PROVE  i = j
    BY <2>1, <2>2, <2>3 DEF IsInjective
  <2>4. IsInjective(items) => IsInjective(new)
    BY <2>3 DEF IsInjective
  <2>5. Len(items) + 1 \in 1..Len(new)
    BY <2>1, <2>2
  <2>. QED  BY <2>1, <2>2, <2>4, <2>5 DEF Extends
<1>. QED  BY <1>1, <1>2

\* So does merge, whatever is merged, and all of it is then on the list.
LEMMA MergeExtends ==
  ASSUME NEW S, NEW items \in Seq(S), NEW other \in Seq(S)
  PROVE  /\ merge(items, other) \in Seq(S)
         /\ Extends(items, merge(items, other))
         /\ ToSet(other) \subseteq ToSet(merge(items, other))
<1>. DEFINE n == Len(other)
<1>1. n \in Nat /\ DOMAIN other = 1..n /\ \A i \in 1..n : other[i] \in S
  BY LenProperties, ElementOfSeq
<1>. HIDE DEF n
<1>2. PICK after : /\ after[0] = items
                   /\ \A i \in 1..n : after[i] = add(after[i - 1], other[i])
                   /\ merge(items, other) = after[n]
  <2>1. \E after : MergeSteps(after, items, other, n)
    BY <1>1, MergeStepByStep
  <2>. QED  BY <2>1 DEF MergeSteps
<1>. DEFINE Kept(i) == /\ after[i] \in Seq(S)
                       /\ Extends(items, after[i])
                       /\ \A j \in 1..i : \E k \in 1..Len(after[i]) : after[i][k] = other[j]
            Lost == {i \in 0..n : ~Kept(i)}
<1>3. Kept(0)
  BY <1>2 DEF Extends
<1>4. ASSUME NEW i \in 1..n, Kept(i - 1)
      PROVE  Kept(i)
  <2>. DEFINE before == after[i - 1]
              now    == after[i]
              s      == other[i]
  <2>1. now = add(before, s) /\ before \in Seq(S) /\ s \in S
    BY <1>1, <1>2, <1>4
  <2>2. /\ now \in Seq(S) /\ Extends(before, now)
        /\ \E k \in 1..Len(now) : now[k] = s
    <3>. HIDE DEF before, now, s
    <3>. QED  BY <2>1, AddExtends, Zenon
  <2>3. Len(items) \in Nat /\ Len(before) \in Nat /\ Len(now) \in Nat
    BY <2>1, <2>2, LenProperties
  <2>4. Extends(items, before) /\ \A j \in 1..(i - 1) : \E k \in 1..Len(before) : before[k] = other[j]
    BY <1>4
  <2>. HIDE DEF before, now
  <2>5. Extends(items, now)
    BY <2>2, <2>3, <2>4 DEF Extends
  <2>6. ASSUME NEW j \in 1..i
        PROVE  \E k \in 1..Len(now) : now[k] = other[j]
    <3>1. CASE j = i
      BY <2>2, <3>1
    <3>2. CASE j # i
      <4>1. j \in 1..(i - 1)
        BY <1>1, <3>2
      <4>2. PICK k \in 1..Len(before) : before[k] = other[j]
        BY <2>4, <4>1
      <4>3. k \in 1..Len(now) /\ now[k] = before[k]
        BY <2>2, <2>3 DEF Extends
      <4>. QED  BY <4>2, <4>3
    <3>. QED  BY <3>1, <3>2
  <2>. QED  BY <2>2, <2>5, <2>6 DEF now
<1>5. Lost = {}
  <2>1. SUFFICES ASSUME Lost # {} PROVE FALSE
    OBVIOUS
  <2>. HIDE DEF Kept
  <2>2. PICK i \in Lost : \A j \in Lost : i <= j
    <3>1. Lost \in SUBSET (0..n)
      OBVIOUS
    <3>. HIDE DEF Lost
    <3>. QED  BY <1>1, <2>1, <3>1, LeastMember
  <2>3. i \in 1..n /\ i - 1 \in 0..n
    BY <1>1, <1>3, <2>2
  <2>4. i - 1 \notin Lost
    <3>. HIDE DEF Lost
    <3>. QED  BY <2>2, <2>3
  <2>5. Kept(i - 1)
    BY <2>3, <2>4
  <2>. QED  BY <1>4, <2>2, <2>3, <2>5
<1>6. Kept(n)
  <2>. HIDE DEF Kept
  <2>. QED  BY <1>1, <1>5
<1>7. ASSUME NEW x \in ToSet(other)
      PROVE  x \in ToSet(merge(items, other))
  <2>1. PICK j \in 1..n : x = other[j]
    BY <1>1 DEF ToSet
  <2>2. PICK k \in 1..Len(after[n]) : after[n][k] = other[j]
    BY <1>6, <2>1
  <2>3. k \in DOMAIN after[n]
    BY <1>6, <2>2, LenProperties
  <2>. QED  BY <1>2, <2>1, <2>2, <2>3 DEF ToSet
<1>. QED  BY <1>2, <1>6, <1>7

\* A file or a bundle that parses is read into a list without duplicates that
\* has every Connection of it.
LEMMA BundleType ==
  ASSUME NEW S, NEW bundle \in Seq(S)
  PROVE  /\ from_bundle_json(bundle) \in Seq(S)
         /\ IsInjective(from_bundle_json(bundle))
         /\ ToSet(bundle) \subseteq ToSet(from_bundle_json(bundle))
<1>1. << >> \in Seq(S) /\ IsInjective(<< >>)
  BY DEF IsInjective
<1>2. from_bundle_json(bundle) = merge(<< >>, bundle)
  BY DEF from_bundle_json, merge
<1>. QED  BY <1>1, <1>2, MergeExtends DEF Extends

\* A list without duplicates, as a save writes it, is read as it is.
LEMMA LoadsAsSaved ==
  ASSUME NEW S, NEW items \in Seq(S), IsInjective(items)
  PROVE  from_bundle_json(items) = items
<1>. DEFINE n == Len(items)
<1>1. n \in Nat /\ DOMAIN items = 1..n /\ \A i \in 1..n : items[i] \in S
  BY LenProperties, ElementOfSeq
<1>2. from_bundle_json(items) = merge(<< >>, items)
  BY DEF from_bundle_json, merge
<1>. HIDE DEF n
<1>3. PICK after : /\ after[0] = << >>
                   /\ \A i \in 1..n : after[i] = add(after[i - 1], items[i])
                   /\ merge(<< >>, items) = after[n]
  <2>1. \E after : MergeSteps(after, << >>, items, n)
    BY <1>1, MergeStepByStep
  <2>. QED  BY <2>1 DEF MergeSteps
<1>. DEFINE First(i) == /\ after[i] \in Seq(S) /\ Len(after[i]) = i
                        /\ \A j \in 1..i : after[i][j] = items[j]
            Missed == {i \in 0..n : ~First(i)}
<1>4. First(0)
  BY <1>3
<1>5. ASSUME NEW i \in 1..n, First(i - 1)
      PROVE  First(i)
  <2>. DEFINE before == after[i - 1]
              now    == Append(before, items[i])
  <2>1. /\ before \in Seq(S) /\ Len(before) = i - 1 /\ items[i] \in S
        /\ \A j \in 1..(i - 1) : before[j] = items[j]
    BY <1>1, <1>5
  <2>2. \A j \in 1..(i - 1) : before[j] # items[i]
    <3>1. \A j \in 1..(i - 1) : j \in DOMAIN items /\ i \in DOMAIN items /\ j # i
      BY <1>1
    <3>. QED  BY <2>1, <3>1 DEF IsInjective
  <2>3. after[i] = now
    <3>1. ~Contains(before, items[i])
      BY <2>1, <2>2 DEF Contains
    <3>. QED  BY <1>3, <3>1 DEF add
  <2>4. /\ now \in Seq(S) /\ Len(now) = i /\ now[i] = items[i]
        /\ \A j \in 1..(i - 1) : now[j] = before[j]
    BY <2>1, AppendProperties
  <2>. HIDE DEF before, now
  <2>. QED  BY <2>1, <2>3, <2>4
<1>6. Missed = {}
  <2>1. SUFFICES ASSUME Missed # {} PROVE FALSE
    OBVIOUS
  <2>. HIDE DEF First
  <2>2. PICK i \in Missed : \A j \in Missed : i <= j
    <3>1. Missed \in SUBSET (0..n)
      OBVIOUS
    <3>. HIDE DEF Missed
    <3>. QED  BY <1>1, <2>1, <3>1, LeastMember
  <2>3. i \in 1..n /\ i - 1 \in 0..n
    BY <1>1, <1>4, <2>2
  <2>4. i - 1 \notin Missed
    <3>. HIDE DEF Missed
    <3>. QED  BY <2>2, <2>3
  <2>5. First(i - 1)
    BY <2>3, <2>4
  <2>. QED  BY <1>5, <2>2, <2>3, <2>5
<1>7. First(n)
  <2>. HIDE DEF First
  <2>. QED  BY <1>1, <1>6
<1>8. after[n] = items
  <2>1. Len(items) = n
    BY DEF n
  <2>. QED  BY <1>7, <2>1, SeqEqual
<1>. QED  BY <1>2, <1>3, <1>8

-----------------------------------------------------------------------------
(* The inductive invariant.                                                *)

\* No file holds half a text but the temporary one, which holds the list once it
\* is written; the list file is removed on Windows only.
SaveInv ==
  /\ file # Torn
  /\ step \in {"remove", "rename"} => tmp = list
  /\ step = "remove" => platform = "windows"

StoreInv == TypeOK /\ OneConnectionPerString /\ SaveInv

\* The list before anything is added.
LEMMA NoConnections == << >> \in Seq(String) /\ IsInjective(<< >>) /\ Len(<< >>) = 0
BY DEF IsInjective

LEMMA InitStoreInv == Init => StoreInv
<1>1. ASSUME Init PROVE TypeOK
  <2>1. list \in Seq(String) /\ selected \in 0..Len(list)
    BY <1>1, NoConnections DEF Init
  <2>. QED  BY <1>1, <2>1, StoreAssumption DEF Init, TypeOK
<1>2. ASSUME Init PROVE OneConnectionPerString
  BY <1>2, NoConnections, Zenon DEF Init, OneConnectionPerString
<1>3. ASSUME Init PROVE SaveInv
  BY <1>3, StoreAssumption DEF Init, SaveInv
<1>. QED  BY <1>1, <1>2, <1>3 DEF StoreInv

\* Every row that is shown is a row of the list.
LEMMA RowsOfList ==
  ASSUME list \in Seq(String), NEW F
  PROVE  Rows(F) \in SUBSET (1..Len(list)) /\ Rows(F) \in SUBSET (0..Len(list))
BY LenProperties DEF Rows

\* Launch reads a list of Connections, each once, or starts with none.
LEMMA LaunchInv ==
  ASSUME StoreInv, NEW readable, Launch(readable)
  PROVE  StoreInv'
<1>1. list' \in Seq(String) /\ IsInjective(list')
  <2>1. file \notin {Missing, Torn} => file \in Seq(String)
    BY DEF StoreInv, TypeOK
  <2>. QED  BY <2>1, NoConnections, BundleType DEF Launch
<1>2. selected' \in 0..Len(list')
  <2>1. list' # << >> => Len(list') \in Nat /\ Len(list') # 0
    BY <1>1, EmptySeq, LenProperties
  <2>2. Len(list') \in Nat
    BY <1>1, LenProperties
  <2>. QED  BY <2>1, <2>2 DEF Launch
<1>. QED
  BY <1>1, <1>2 DEF Launch, StoreInv, TypeOK, OneConnectionPerString, SaveInv

\* A list that is extended keeps the rows it had.
LEMMA ExtendedInv ==
  ASSUME StoreInv, list' \in Seq(String), Extends(list, list'),
         selected' = selected, step' = "create", adding' \in BOOLEAN,
         UNCHANGED <<platform, file, tmp, filter, saved>>
  PROVE  StoreInv'
<1>1. Len(list) \in Nat /\ Len(list') \in Nat /\ Len(list) <= Len(list')
  BY LenProperties DEF StoreInv, TypeOK, Extends
<1>2. selected' \in 0..Len(list')
  BY <1>1 DEF StoreInv, TypeOK
<1>. QED
  BY <1>2 DEF StoreInv, TypeOK, OneConnectionPerString, SaveInv, Extends

LEMMA AddInv ==
  ASSUME StoreInv, NEW s \in String, Add(s)
  PROVE  StoreInv' /\ Extends(list, list')
<1>1. list' \in Seq(String) /\ Extends(list, list')
  BY AddExtends DEF StoreInv, TypeOK, Add
<1>. QED  BY <1>1, ExtendedInv DEF Add

LEMMA ImportInv ==
  ASSUME StoreInv, NEW bundle \in Bundles, Import(bundle)
  PROVE  StoreInv' /\ Extends(list, list')
<1>1. bundle \in Seq(String)
  <2>1. bundle \in Seq(String \cup BadString) /\ ToSet(bundle) \cap BadString = {}
    BY StoreAssumption DEF Import, Parses
  <2>2. \A i \in 1..Len(bundle) : bundle[i] \in String
    BY <2>1 DEF ToSet
  <2>. QED  BY <2>1, <2>2
<1>2. from_bundle_json(bundle) \in Seq(String)
  BY <1>1, BundleType
<1>3. list' \in Seq(String) /\ Extends(list, list')
  BY <1>2, MergeExtends DEF StoreInv, TypeOK, Import
<1>. QED  BY <1>3, ExtendedInv DEF Import

\* A save that renames has put the whole list on the file.
LEMMA RenameInv ==
  ASSUME StoreInv, Rename
  PROVE  StoreInv'
<1>1. file' = list /\ list \in Seq(String) /\ list' = list
  BY DEF StoreInv, SaveInv, TypeOK, Rename
<1>2. file' \notin {Missing, Torn} /\ Len(list) \in 0..Len(list)
  BY <1>1, StoreAssumption, LenProperties
<1>3. ToSet(list) \subseteq String
  BY <1>1 DEF ToSet
<1>. QED
  BY <1>1, <1>2, <1>3 DEF Rename, StoreInv, TypeOK, OneConnectionPerString, SaveInv

\* The selection moves among the rows that are shown.
LEMMA SelectionInv ==
  ASSUME StoreInv,
         \/ \E F \in SUBSET String : ChangeFilter(F)
         \/ select_prev \/ select_next
  PROVE  StoreInv'
<1>1. list \in Seq(String) /\ Len(list) \in Nat
  BY LenProperties DEF StoreInv, TypeOK
<1>2. ASSUME NEW S \in SUBSET (0..Len(list)), S # {}
      PROVE  Min(S) \in 0..Len(list) /\ Max(S) \in 0..Len(list)
  BY <1>1, <1>2, MinMax
<1>3. \A F : Rows(F) \in SUBSET (0..Len(list))
  BY <1>1, RowsOfList
<1>4. selected' \in 0..Len(list)
  <2>1. ASSUME NEW F \in SUBSET String, ChangeFilter(F)  PROVE selected' \in 0..Len(list)
    BY <1>1, <1>2, <1>3, <2>1 DEF ChangeFilter
  <2>2. CASE select_prev
    <3>. DEFINE above == IF selected \in filtered_indices
                           THEN {i \in filtered_indices : i < selected} ELSE {}
                S     == IF above = {} THEN filtered_indices ELSE above
    <3>1. S \in SUBSET (0..Len(list)) /\ S # {}
      BY <1>3, <2>2 DEF select_prev, filtered_indices
    <3>2. selected' = Max(S)
      BY <2>2 DEF select_prev
    <3>. HIDE DEF S
    <3>. QED  BY <1>2, <3>1, <3>2
  <2>3. CASE select_next
    <3>. DEFINE below == IF selected \in filtered_indices
                           THEN {i \in filtered_indices : i > selected} ELSE {}
                S     == IF below = {} THEN filtered_indices ELSE below
    <3>1. S \in SUBSET (0..Len(list)) /\ S # {}
      BY <1>3, <2>3 DEF select_next, filtered_indices
    <3>2. selected' = Min(S)
      BY <2>3 DEF select_next
    <3>. HIDE DEF S
    <3>. QED  BY <1>2, <3>1, <3>2
  <2>. QED  BY <2>1, <2>2, <2>3
<1>5. filter' \subseteq String /\ UNCHANGED <<platform, file, tmp, list, step, adding, saved>>
  BY DEF StoreInv, TypeOK, ChangeFilter, select_prev, select_next
<1>. QED
  BY <1>4, <1>5 DEF StoreInv, TypeOK, OneConnectionPerString, SaveInv

LEMMA NextStoreInv == StoreInv /\ [Next]_vars => StoreInv'
<1>1. SUFFICES ASSUME StoreInv, [Next]_vars PROVE StoreInv'
  OBVIOUS
<1>2. ASSUME NEW readable \in BOOLEAN, Launch(readable)  PROVE StoreInv'
  BY <1>1, <1>2, LaunchInv
<1>3. CASE Exit
  <2>1. TypeOK'
    <3>1. list' \in Seq(String) /\ selected' \in 0..Len(list')
      BY <1>3, NoConnections DEF Exit
    <3>. QED  BY <1>1, <1>3, <3>1 DEF Exit, StoreInv, TypeOK
  <2>2. OneConnectionPerString'
    BY <1>1, <1>3, NoConnections, Zenon DEF Exit, StoreInv, OneConnectionPerString
  <2>3. SaveInv'
    BY <1>1, <1>3 DEF Exit, StoreInv, SaveInv
  <2>. QED  BY <2>1, <2>2, <2>3 DEF StoreInv
<1>4. ASSUME NEW s \in String, Add(s)  PROVE StoreInv'
  BY <1>1, <1>4, AddInv
<1>5. ASSUME NEW bundle \in Bundles, Import(bundle)  PROVE StoreInv'
  BY <1>1, <1>5, ImportInv
<1>6. CASE CreateTmp
  BY <1>1, <1>6 DEF CreateTmp, StoreInv, TypeOK, OneConnectionPerString, SaveInv
<1>7. CASE WriteTmp
  BY <1>1, <1>7 DEF WriteTmp, StoreInv, TypeOK, OneConnectionPerString, SaveInv
<1>8. CASE RemoveFile
  BY <1>1, <1>8, StoreAssumption
     DEF RemoveFile, StoreInv, TypeOK, OneConnectionPerString, SaveInv
<1>9. CASE Rename
  BY <1>1, <1>9, RenameInv
<1>10. CASE SaveFails
  BY <1>1, <1>10 DEF SaveFails, StoreInv, TypeOK, OneConnectionPerString, SaveInv
<1>11. CASE (\E F \in SUBSET String : ChangeFilter(F)) \/ select_prev \/ select_next
  BY <1>1, <1>11, SelectionInv
<1>12. CASE UNCHANGED vars
  BY <1>1, <1>12 DEF vars, StoreInv, TypeOK, OneConnectionPerString, SaveInv
<1>. QED
  BY <1>1, <1>2, <1>3, <1>4, <1>5, <1>6, <1>7, <1>8, <1>9, <1>10, <1>11, <1>12 DEF Next

LEMMA StoreInvariant == Spec => []StoreInv
BY InitStoreInv, NextStoreInv, PTL DEF Spec

\* The files, the list and the selection have their types (list.rs, main.rs:
\* open_selected indexes the list without a check).
THEOREM StoreTypeCorrect == Spec => []TypeOK
<1>1. StoreInv => TypeOK
  BY DEF StoreInv
<1>. QED  BY <1>1, StoreInvariant, PTL

\* One Connection per string, in memory and on the file, after any adds, imports
\* and launches (list.rs, add and merge).
THEOREM OneConnection == Spec => []OneConnectionPerString
<1>1. StoreInv => OneConnectionPerString
  BY DEF StoreInv
<1>. QED  BY <1>1, StoreInvariant, PTL

\* No handler but a launch moves a Connection to another row.
THEOREM RowsStay == Spec => RowIndexStable
<1>1. StoreInv /\ [Next]_vars => [step' # "down" /\ step # "down" => IsPrefix(list, list')]_vars
  <2>1. SUFFICES ASSUME StoreInv, [Next]_vars, step' # "down", step # "down"
                 PROVE  IsPrefix(list, list')
    OBVIOUS
  <2>2. list \in Seq(String) /\ list' \in Seq(String)
    BY <2>1, NextStoreInv DEF StoreInv, TypeOK
  <2>3. ASSUME Extends(list, list')  PROVE IsPrefix(list, list')
    BY <2>2, <2>3, BeginsIsPrefix DEF Extends, Begins
  <2>4. list' = list => Extends(list, list')
    BY <2>2, LenProperties DEF Extends
  <2>5. CASE \E s \in String : Add(s)
    BY <2>1, <2>3, <2>5, AddInv
  <2>6. CASE \E bundle \in Bundles : Import(bundle)
    BY <2>1, <2>3, <2>6, ImportInv
  <2>7. CASE list' = list
    BY <2>3, <2>4, <2>7
  <2>. QED
    BY <2>1, <2>5, <2>6, <2>7
       DEF Next, vars, Launch, Exit, CreateTmp, WriteTmp, RemoveFile, Rename, SaveFails,
           ChangeFilter, select_prev, select_next
<1>. QED  BY <1>1, StoreInvariant, PTL DEF Spec, RowIndexStable

-----------------------------------------------------------------------------
(* What is on the file.                                                    *)

\* A list that can be read at launch has everything the file has, and keeps it.
KeptInv == StoreInv /\ SaveOnlyAdds /\ (platform = "posix" => saved \subseteq OnDisk)

LEMMA NextKeptInv ==
  ASSUME ~Unreadable, KeptInv, [Next]_vars
  PROVE  KeptInv'
<1>1. StoreInv'
  BY NextStoreInv DEF KeptInv
<1>2. ASSUME Extends(list, list'), list' \in Seq(String)
      PROVE  ToSet(list) \subseteq ToSet(list')
  <2>1. list \in Seq(String) /\ Len(list) \in Nat /\ Len(list') \in Nat
    BY <1>2, LenProperties DEF KeptInv, StoreInv, TypeOK
  <2>. QED  BY <1>2, <2>1 DEF Extends, ToSet
<1>3. ASSUME NEW readable \in BOOLEAN, Launch(readable)  PROVE KeptInv'
  <2>1. file \notin {Missing, Torn} => ToSet(file) \subseteq ToSet(list')
    <3>1. file # Missing => readable
      BY <1>3 DEF Launch
    <3>2. file \notin {Missing, Torn} => file \in Seq(String) /\ list' = from_bundle_json(file)
      BY <1>3, <3>1 DEF Launch, KeptInv, StoreInv, TypeOK
    <3>. QED  BY <3>2, BundleType
  <2>. QED  BY <1>1, <1>3, <2>1 DEF Launch, KeptInv, SaveOnlyAdds, OnDisk, ListOnDisk
<1>4. ASSUME NEW s \in String, Add(s)  PROVE KeptInv'
  <2>1. ToSet(list) \subseteq ToSet(list')
    BY <1>1, <1>2, <1>4, AddInv DEF KeptInv, StoreInv, TypeOK
  <2>. QED  BY <1>1, <1>4, <2>1 DEF Add, KeptInv, SaveOnlyAdds, OnDisk, ListOnDisk
<1>5. ASSUME NEW bundle \in Bundles, Import(bundle)  PROVE KeptInv'
  <2>1. ToSet(list) \subseteq ToSet(list')
    BY <1>1, <1>2, <1>5, ImportInv DEF KeptInv, StoreInv, TypeOK
  <2>. QED  BY <1>1, <1>5, <2>1 DEF Import, KeptInv, SaveOnlyAdds, OnDisk, ListOnDisk
<1>6. CASE RemoveFile
  <2>1. OnDisk' = {}
    BY <1>6 DEF RemoveFile, OnDisk, ListOnDisk, ToSet
  <2>. QED  BY <1>1, <1>6, <2>1 DEF RemoveFile, KeptInv, StoreInv, SaveInv, SaveOnlyAdds
<1>7. CASE Rename
  <2>1. file' = list /\ list' = list /\ file' \notin {Missing, Torn}
    BY <1>7, StoreAssumption DEF Rename, KeptInv, StoreInv, SaveInv, TypeOK
  <2>2. saved' = saved \cup ToSet(list) /\ OnDisk \subseteq ToSet(list) /\ platform' = platform
    BY <1>7 DEF Rename, KeptInv, SaveOnlyAdds
  <2>3. OnDisk' = ToSet(list)
    BY <2>1 DEF OnDisk, ListOnDisk
  <2>. QED  BY <1>1, <2>1, <2>2, <2>3 DEF KeptInv, SaveOnlyAdds
<1>8. CASE \/ Exit \/ CreateTmp \/ WriteTmp \/ SaveFails \/ UNCHANGED vars
           \/ \E F \in SUBSET String : ChangeFilter(F)
           \/ select_prev \/ select_next
  BY <1>1, <1>8
     DEF vars, Exit, CreateTmp, WriteTmp, SaveFails, ChangeFilter, select_prev, select_next,
         KeptInv, SaveOnlyAdds, OnDisk, ListOnDisk
<1>. QED
  BY <1>3, <1>4, <1>5, <1>6, <1>7, <1>8 DEF Next

LEMMA KeptInvariant ==
  ASSUME ~Unreadable
  PROVE  Spec => []KeptInv
<1>1. Init => KeptInv
  BY InitStoreInv DEF Init, KeptInv, SaveOnlyAdds, OnDisk, ListOnDisk, ToSet
<1>2. KeptInv /\ [Next]_vars => KeptInv'
  BY NextKeptInv
<1>. QED  BY <1>1, <1>2, PTL DEF Spec

\* Where the list can be read at launch, no save takes a Connection off the file,
\* whatever failed and whenever the program ended (store.rs, load and save).
THEOREM SavesAdd ==
  ASSUME ~Unreadable
  PROVE  Spec => []SaveOnlyAdds
<1>1. KeptInv => SaveOnlyAdds
  BY DEF KeptInv
<1>. QED  BY <1>1, KeptInvariant, PTL

\* And where rename replaces the list in one step, what the window said was saved
\* is on the file (ADR 0020).
THEOREM StaysSaved ==
  ASSUME ~Unreadable
  PROVE  Spec => []SavedStaysSavedOnPosix
<1>1. KeptInv => SavedStaysSavedOnPosix
  BY DEF KeptInv, SavedStaysSavedOnPosix, SavedStaysSaved
<1>. QED  BY <1>1, KeptInvariant, PTL

-----------------------------------------------------------------------------
(* The refinement of DurableList.                                          *)

\* While the program runs, what is on the disk is the beginning of its list,
\* if that could be read.
LivesInv ==
  /\ StoreInv
  /\ step # "down" /\ ~Unreadable => Begins(ListOnDisk, list)

\* What is on the disk is a list, each Connection once.
LEMMA ListOnDiskType ==
  ASSUME StoreInv
  PROVE  ListOnDisk \in Seq(String) /\ IsInjective(ListOnDisk)
BY NoConnections DEF StoreInv, TypeOK, OneConnectionPerString, ListOnDisk

\* What begins a list begins it when others are added.
LEMMA BeginsLater ==
  ASSUME NEW disk \in Seq(String), NEW items \in Seq(String), NEW after \in Seq(String),
         Begins(disk, items), Extends(items, after)
  PROVE  Begins(disk, after)
<1>1. Len(disk) \in Nat /\ Len(items) \in Nat /\ Len(after) \in Nat
  BY LenProperties
<1>. QED  BY <1>1 DEF Begins, Extends

\* An add or an import: the list grows.
LEMMA GrowsDurably ==
  ASSUME LivesInv, StoreInv', Extends(list, list'), step = "ready", step' = "create",
         UNCHANGED <<platform, file>>
  PROVE  Durable!Next /\ LivesInv'
<1>1. /\ list \in Seq(String) /\ list' \in Seq(String) /\ IsInjective(list')
      /\ ListOnDisk \in Seq(String) /\ ListOnDisk' = ListOnDisk
  BY ListOnDiskType DEF LivesInv, StoreInv, TypeOK, OneConnectionPerString, ListOnDisk
<1>2. IsPrefix(list, list')
  BY <1>1, BeginsIsPrefix DEF Extends, Begins
<1>3. Durable!Grow
  <2>1. step # "down" /\ (step' # "down") = (step # "down")
    OBVIOUS
  <2>. QED
    BY <1>1, <1>2, <2>1
       DEF Durable!Grow, IsPrefix, Durable!IsPrefix, IsInjective, Durable!IsInjective
<1>4. ~Unreadable => Begins(ListOnDisk, list')
  BY <1>1, BeginsLater DEF LivesInv
<1>. QED  BY <1>1, <1>3, <1>4 DEF Durable!Next, LivesInv

\* A file operation of a save holds what DurableList asks of it.
LEMMA SavingHolds ==
  ASSUME LivesInv, step # "down"
  PROVE  Durable!Holds
<1>1. ListOnDisk \in Seq(String) /\ list \in Seq(String)
  BY ListOnDiskType DEF LivesInv, StoreInv, TypeOK
<1>2. ~Unreadable => IsPrefix(ListOnDisk, list)
  BY <1>1, BeginsIsPrefix DEF LivesInv
<1>. QED  BY <1>2 DEF Durable!Holds, IsPrefix, Durable!IsPrefix

\* Every step is a step of DurableList or changes nothing it sees.
LEMMA NextLives ==
  ASSUME LivesInv, [Next]_vars
  PROVE  LivesInv' /\ [Durable!Next]_Durable!dvars
<1>. DEFINE Goal == LivesInv' /\ [Durable!Next]_Durable!dvars
<1>1. StoreInv /\ StoreInv'
  BY NextStoreInv DEF LivesInv
<1>2. ASSUME NEW readable \in BOOLEAN, Launch(readable)  PROVE Goal
  <2>1. step = "down" /\ step' = "ready" /\ UNCHANGED <<platform, file>>
    BY <1>2 DEF Launch
  <2>2. ListOnDisk' = ListOnDisk /\ ListOnDisk \in Seq(String)
    BY <1>1, <2>1, ListOnDiskType DEF ListOnDisk
  <2>3. list' = ListOnDisk \/ (Unreadable /\ list' = << >>)
    <3>1. CASE readable
      <4>1. file \notin {Missing, Torn} => file \in Seq(String) /\ IsInjective(file)
        BY <1>1 DEF StoreInv, TypeOK, OneConnectionPerString
      <4>. QED  BY <1>2, <3>1, <4>1, LoadsAsSaved DEF Launch, ListOnDisk
    <3>2. CASE ~readable
      BY <1>2, <3>2 DEF Launch
    <3>. QED  BY <3>1, <3>2
  <2>4. Durable!Launch
    BY <2>1, <2>2, <2>3 DEF Durable!Launch
  <2>5. ~Unreadable => Begins(ListOnDisk', list')
    <3>1. Len(ListOnDisk) \in Nat
      BY <2>2, LenProperties
    <3>. QED  BY <2>2, <2>3, <3>1 DEF Begins
  <2>. QED  BY <1>1, <2>4, <2>5 DEF LivesInv, Durable!Next
<1>3. CASE Exit
  <2>1. Durable!Exit
    BY <1>3 DEF Exit, Durable!Exit, ListOnDisk
  <2>2. step' = "down"
    BY <1>3 DEF Exit
  <2>. QED  BY <1>1, <2>1, <2>2 DEF LivesInv, Durable!Next
<1>4. ASSUME NEW s \in String, Add(s)  PROVE Goal
  <2>1. Extends(list, list')
    BY <1>1, <1>4, AddInv
  <2>. QED  BY <1>1, <1>4, <2>1, GrowsDurably DEF Add
<1>5. ASSUME NEW bundle \in Bundles, Import(bundle)  PROVE Goal
  <2>1. Extends(list, list')
    BY <1>1, <1>5, ImportInv
  <2>. QED  BY <1>1, <1>5, <2>1, GrowsDurably DEF Import
<1>6. CASE RemoveFile
  <2>1. ListOnDisk' = << >> /\ list' = list /\ platform' = platform
        /\ step # "down" /\ step' # "down" /\ platform = "windows"
    BY <1>1, <1>6 DEF RemoveFile, ListOnDisk, StoreInv, SaveInv
  <2>2. Durable!Empty
    BY <2>1, SavingHolds DEF Durable!Empty
  <2>3. Begins(ListOnDisk', list')
    <3>1. Len(list') \in Nat
      BY <1>1, LenProperties DEF StoreInv, TypeOK
    <3>. QED  BY <2>1, <3>1, NoConnections DEF Begins
  <2>. QED  BY <1>1, <2>2, <2>3 DEF LivesInv, Durable!Next
<1>7. CASE Rename
  <2>1. /\ ListOnDisk' = list /\ list' = list /\ platform' = platform
        /\ step # "down" /\ step' # "down"
    <3>1. file' = list /\ file' \notin {Missing, Torn}
      BY <1>1, <1>7, StoreAssumption DEF Rename, StoreInv, SaveInv, TypeOK
    <3>. QED  BY <1>7, <3>1 DEF Rename, ListOnDisk
  <2>2. Durable!Save
    BY <2>1, SavingHolds DEF Durable!Save
  <2>3. Begins(ListOnDisk', list')
    <3>1. Len(list) \in Nat
      BY <1>1, LenProperties DEF StoreInv, TypeOK
    <3>. QED  BY <2>1, <3>1 DEF Begins
  <2>. QED  BY <1>1, <2>2, <2>3 DEF LivesInv, Durable!Next
<1>8. CASE \/ CreateTmp \/ WriteTmp \/ SaveFails \/ UNCHANGED vars
           \/ \E F \in SUBSET String : ChangeFilter(F)
           \/ select_prev \/ select_next
  <2>1. UNCHANGED <<platform, file, list>> /\ (step # "down") = (step' # "down")
    BY <1>8 DEF vars, CreateTmp, WriteTmp, SaveFails, ChangeFilter, select_prev, select_next
  <2>2. ListOnDisk' = ListOnDisk
    BY <2>1 DEF ListOnDisk
  <2>3. UNCHANGED Durable!dvars
    BY <2>1, <2>2 DEF Durable!dvars
  <2>4. LivesInv'
    BY <1>1, <2>1, <2>2 DEF LivesInv, Begins
  <2>. QED  BY <2>3, <2>4
<1>. QED
  BY <1>2, <1>3, <1>4, <1>5, <1>6, <1>7, <1>8 DEF Next

\* The Connection List implements DurableList: whatever file operation fails and
\* wherever the program ends, a launch shows the list that was saved last, in its
\* order, and a save only adds to it (store.rs, load and save; ADR 0020).
THEOREM ListLivesOn == Spec => ImplementsDurableList
<1>1. Init => LivesInv /\ Durable!Init
  <2>1. Init => Durable!Init
    BY StoreAssumption DEF Init, Durable!Init, ListOnDisk
  <2>. QED  BY <2>1, InitStoreInv DEF Init, LivesInv
<1>2. LivesInv /\ [Next]_vars => LivesInv' /\ [Durable!Next]_Durable!dvars
  BY NextLives
<1>. QED  BY <1>1, <1>2, PTL DEF Spec, ImplementsDurableList, Durable!Spec
=============================================================================
