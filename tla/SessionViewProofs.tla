------------------------- MODULE SessionViewProofs -------------------------
(***************************************************************************)
(* Theorems about SessionView, for any Tables, page size and number of     *)
(* Tabs: what is staged is staged for the row that was clicked or typed    *)
(* into, and the Tab in front stays in front.                              *)
(*                                                                         *)
(* The argument has one invariant per Tab (TabInv: the grid, the row that  *)
(* is selected and the Table it was read from belong together), one for    *)
(* the row of Tabs (TabsInv), and one for the input they share (TypedInv). *)
(***************************************************************************)
EXTENDS SessionView, IndexFacts, SequenceTheorems

-----------------------------------------------------------------------------
(* Sequences, of whatever their elements are.                              *)

IsSequence(s) == s \in Seq({s[i] : i \in DOMAIN s})

\* A sequence of anything is a sequence of its own elements.
LEMMA SequenceOfOwn ==
  ASSUME NEW S, NEW s \in Seq(S)
  PROVE  IsSequence(s)
<1>1. Len(s) \in Nat /\ DOMAIN s = 1..Len(s) /\ s \in [1..Len(s) -> S]
  BY LenProperties
<1>. DEFINE Own == {s[i] : i \in DOMAIN s}
<1>2. s \in [1..Len(s) -> Own]
  BY <1>1
<1>. HIDE DEF Own
<1>3. s \in Seq(Own)
  BY <1>1, <1>2, SeqDef
<1>. QED  BY <1>3 DEF IsSequence, Own

LEMMA SequenceLength ==
  ASSUME NEW s, IsSequence(s)
  PROVE  Len(s) \in Nat /\ DOMAIN s = 1..Len(s)
BY LenProperties DEF IsSequence

\* One element more.
LEMMA SequenceAppend ==
  ASSUME NEW s, IsSequence(s), NEW e
  PROVE  /\ IsSequence(Append(s, e)) /\ Len(Append(s, e)) = Len(s) + 1
         /\ \A i \in 1..Len(s) : Append(s, e)[i] = s[i]
         /\ Append(s, e)[Len(s) + 1] = e
<1>. DEFINE S == {s[i] : i \in DOMAIN s} \cup {e}
<1>1. s \in Seq({s[i] : i \in DOMAIN s}) /\ {s[i] : i \in DOMAIN s} \subseteq S /\ e \in S
  BY DEF IsSequence
<1>. HIDE DEF S
<1>2. s \in Seq(S)
  BY <1>1, SeqMonotonic
<1>3. Append(s, e) \in Seq(S)
  BY <1>1, <1>2, AppendProperties
<1>4. IsSequence(Append(s, e))
  BY <1>3, SequenceOfOwn
<1>5. /\ Len(Append(s, e)) = Len(s) + 1
      /\ \A i \in 1..Len(s) : Append(s, e)[i] = s[i]
      /\ Append(s, e)[Len(s) + 1] = e
  BY <1>1, <1>2, AppendProperties
<1>. QED  BY <1>4, <1>5

\* One element replaced.
LEMMA SequenceExcept ==
  ASSUME NEW s, IsSequence(s), NEW n \in DOMAIN s, NEW e
  PROVE  LET t == [s EXCEPT ![n] = e]
         IN  /\ IsSequence(t) /\ Len(t) = Len(s)
             /\ t[n] = e /\ \A i \in 1..Len(s) : i # n => t[i] = s[i]
<1>. DEFINE S == {s[i] : i \in DOMAIN s} \cup {e}
<1>1. s \in Seq({s[i] : i \in DOMAIN s}) /\ {s[i] : i \in DOMAIN s} \subseteq S /\ e \in S
  BY DEF IsSequence
<1>. HIDE DEF S
<1>2. s \in Seq(S) /\ n \in 1..Len(s)
  BY <1>1, SeqMonotonic, SequenceLength
<1>. DEFINE t == [s EXCEPT ![n] = e]
<1>3. t \in Seq(S) /\ Len(t) = Len(s) /\ \A j \in 1..Len(s) : t[j] = IF j = n THEN e ELSE s[j]
  BY <1>1, <1>2, ExceptSeq
<1>. HIDE DEF t
<1>4. IsSequence(t)
  BY <1>3, SequenceOfOwn
<1>. QED  BY <1>2, <1>3, <1>4 DEF t

\* One element removed.
LEMMA SequenceRemove ==
  ASSUME NEW s, IsSequence(s), NEW n \in 1..Len(s)
  PROVE  LET t == RemoveAt(s, n)
         IN  /\ IsSequence(t) /\ Len(t) = Len(s) - 1
             /\ \A i \in 1..(Len(s) - 1) : t[i] = IF i < n THEN s[i] ELSE s[i + 1]
<1>. DEFINE S == {s[i] : i \in DOMAIN s}
            front == SubSeq(s, 1, n - 1)
            back == SubSeq(s, n + 1, Len(s))
<1>1. /\ s \in Seq(S) /\ Len(s) \in Nat /\ DOMAIN s = 1..Len(s)
      /\ \A i \in 1..Len(s) : s[i] \in S
  BY SequenceLength DEF IsSequence
<1>. HIDE DEF S
<1>2. /\ front \in Seq(S) /\ Len(front) = n - 1
      /\ \A i \in 1..(n - 1) : front[i] = s[i]
  <2>1. \A i \in 1..(n - 1) : s[i] \in S
    BY <1>1
  <2>2. n - 1 \in Int /\ 1 \in Int
    OBVIOUS
  <2>. QED  BY <2>1, <2>2, SubSeqProperties
<1>3. /\ back \in Seq(S) /\ Len(back) = Len(s) - n
      /\ \A i \in 1..(Len(s) - n) : back[i] = s[n + i]
  <2>1. \A i \in (n + 1)..Len(s) : s[i] \in S
    BY <1>1
  <2>2. n + 1 \in Int /\ Len(s) \in Int
    BY <1>1
  <2>3. /\ back \in Seq(S)
        /\ Len(back) = IF n + 1 <= Len(s) THEN Len(s) - (n + 1) + 1 ELSE 0
        /\ \A i \in 1..(Len(s) - (n + 1) + 1) : back[i] = s[(n + 1) + i - 1]
    BY <2>1, <2>2, SubSeqProperties
  <2>. HIDE DEF back
  <2>4. ASSUME NEW i \in 1..(Len(s) - n)  PROVE back[i] = s[n + i]
    <3>1. i \in 1..(Len(s) - (n + 1) + 1) /\ (n + 1) + i - 1 = n + i
      BY <1>1
    <3>2. back[i] = s[(n + 1) + i - 1]
      BY <2>3, <3>1
    <3>. QED  BY <3>1, <3>2
  <2>5. Len(back) = Len(s) - n
    <3>1. Len(s) \in Int /\ n \in Int /\ n <= Len(s)
      BY <1>1
    <3>2. Len(back) = IF n + 1 <= Len(s) THEN Len(s) - (n + 1) + 1 ELSE 0
      BY <2>3
    <3>. QED  BY <3>1, <3>2
  <2>. QED  BY <2>3, <2>4, <2>5
<1>. HIDE DEF front, back
<1>. DEFINE t == front \o back
<1>4. /\ t \in Seq(S) /\ Len(t) = Len(front) + Len(back)
      /\ \A i \in 1..(Len(front) + Len(back)) :
           t[i] = IF i <= Len(front) THEN front[i] ELSE back[i - Len(front)]
  BY <1>2, <1>3, ConcatProperties
<1>. HIDE DEF t
<1>5. ASSUME NEW i \in 1..(Len(s) - 1)
      PROVE  t[i] = IF i < n THEN s[i] ELSE s[i + 1]
  <2>1. i \in 1..(Len(front) + Len(back))
    BY <1>1, <1>2, <1>3
  <2>2. CASE i < n
    <3>1. i \in 1..(n - 1) /\ i <= Len(front)
      BY <1>2, <2>2
    <3>. QED  BY <1>2, <1>4, <2>1, <2>2, <3>1
  <2>3. CASE i >= n
    <3>1. i - (n - 1) \in 1..(Len(s) - n) /\ ~(i <= Len(front)) /\ ~(i < n)
          /\ n + (i - (n - 1)) = i + 1
      BY <1>1, <1>2, <2>3
    <3>2. t[i] = back[i - (n - 1)]
      BY <1>2, <1>4, <2>1, <3>1
    <3>. QED  BY <1>3, <3>1, <3>2
  <2>. QED  BY <2>2, <2>3
<1>6. IsSequence(t) /\ Len(t) = Len(s) - 1
  BY <1>1, <1>2, <1>3, <1>4, SequenceOfOwn
<1>7. RemoveAt(s, n) = t
  BY DEF RemoveAt, t, front, back
<1>. QED  BY <1>5, <1>6, <1>7

\* A cut of a sequence holds elements of it.
LEMMA SequenceCut ==
  ASSUME NEW s, IsSequence(s), NEW m \in Nat \ {0}, NEW n \in Int, n <= Len(s)
  PROVE  LET t == SubSeq(s, m, n)
         IN  IsSequence(t) /\ \A i \in DOMAIN t : \E j \in DOMAIN s : t[i] = s[j]
<1>. DEFINE S == {s[i] : i \in DOMAIN s}
            t == SubSeq(s, m, n)
<1>1. Len(s) \in Nat /\ DOMAIN s = 1..Len(s) /\ \A i \in m..n : s[i] \in S
  BY SequenceLength
<1>2. t \in Seq(S)
  <2>. HIDE DEF S
  <2>. QED  BY <1>1, SubSeqProperties
<1>3. IsSequence(t)
  <2>. HIDE DEF S, t
  <2>. QED  BY <1>2, SequenceOfOwn
<1>4. \A i \in DOMAIN t : t[i] \in S
  <2>. HIDE DEF S, t
  <2>. QED  BY <1>2, LenProperties
<1>. QED  BY <1>3, <1>4

\* A function on the first n positions.
LEMMA SequenceOfFunction ==
  ASSUME NEW s, NEW n \in Nat, s = [i \in 1..n |-> s[i]]
  PROVE  IsSequence(s) /\ Len(s) = n
<1>. DEFINE S == {s[i] : i \in DOMAIN s}
<1>1. s \in [1..n -> S]
  OBVIOUS
<1>2. s \in Seq(S)
  <2>. HIDE DEF S
  <2>. QED  BY <1>1, SeqDef
<1>3. Len(s) = n
  <2>. HIDE DEF S
  <2>. QED  BY <1>1, <1>2, LenProperties
<1>. QED  BY <1>2, <1>3 DEF IsSequence

-----------------------------------------------------------------------------
(* Pages.                                                                  *)

IsRow(row)   == row = [key |-> row.key, val |-> row.val]
IsRows(rows) == IsSequence(rows) /\ \A i \in DOMAIN rows : IsRow(rows[i])

LEMMA NoRows == IsRows(<<>>) /\ Len(<<>>) = 0
<1>1. <<>> \in Seq({})
  OBVIOUS
<1>2. IsSequence(<<>>)
  BY <1>1, SequenceOfOwn
<1>3. Len(<<>>) = 0 /\ DOMAIN <<>> = {}
  OBVIOUS
<1>. QED  BY <1>2, <1>3 DEF IsRows

LEMMA CutRows ==
  ASSUME NEW rows, IsRows(rows), NEW m \in Nat \ {0}, NEW n \in Int, n <= Len(rows)
  PROVE  IsRows(SubSeq(rows, m, n))
BY SequenceCut DEF IsRows

LEMMA MatchingRows ==
  ASSUME NEW table, NEW filters
  PROVE  IsRows(Matching(table, filters))
<1>. DEFINE keys == {k \in Key : table[k] # Absent /\ Passes(table[k], filters)}
            order == InKeyOrder(keys)
            Row(i) == [key |-> order[i], val |-> table[order[i]].val]
            n == Cardinality(keys)
<1>1. n \in Nat
  <2>1. keys \subseteq Key /\ IsFiniteSet(Key)
    BY SessionViewAssumption
  <2>. HIDE DEF keys
  <2>. QED  BY <2>1, FS_Subset, FS_CardinalityType
<1>2. Matching(table, filters) = [i \in 1..n |-> Row(i)]
  BY DEF Matching
<1>3. \A i : IsRow(Row(i))
  BY DEF IsRow
<1>. HIDE DEF n, Row
<1>4. \A s : s = [i \in 1..n |-> s[i]] => IsSequence(s)
  BY <1>1, SequenceOfFunction
<1>5. Matching(table, filters) = [i \in 1..n |-> Matching(table, filters)[i]]
  BY <1>2
<1>6. IsSequence(Matching(table, filters))
  BY <1>4, <1>5
<1>. QED  BY <1>2, <1>3, <1>6 DEF IsRows

\* Whatever is fetched is rows.
LEMMA FetchedRows ==
  ASSUME NEW table, NEW filters, NEW page \in Nat
  PROVE  IsRows(PageRows(Fetched(table, filters, page)))
<1>. DEFINE rows == Matching(table, filters)
            limit == PageSize + 1
            offset == page * PageSize
            until == Min({offset + limit, Len(rows)})
            fetched == SubSeq(rows, offset + 1, until)
<1>1. IsRows(rows) /\ Len(rows) \in Nat
  BY MatchingRows, SequenceLength DEF IsRows
<1>2. limit \in Nat /\ offset \in Nat /\ PageSize \in Nat \ {0}
  BY SessionViewAssumption
<1>3. fetched = Fetched(table, filters, page)
  BY DEF Fetched, LimitOffset
<1>. HIDE DEF rows, limit, offset
<1>4. until \in Int /\ until <= Len(rows)
  <2>. DEFINE S == {offset + limit, Len(rows)}
              top == offset + limit + Len(rows)
  <2>1. top \in Nat /\ S \in SUBSET (0..top) /\ S # {} /\ Len(rows) \in S
    BY <1>1, <1>2
  <2>2. \A k \in S : k \in Int
    BY <1>1, <1>2
  <2>. HIDE DEF S, top
  <2>3. Min(S) \in S /\ Min(S) <= Len(rows)
    BY <2>1, MinMax
  <2>. QED  BY <2>2, <2>3 DEF S
<1>. HIDE DEF until
<1>5. IsRows(fetched) /\ Len(fetched) \in Nat
  <2>1. offset + 1 \in Nat \ {0}
    BY <1>2
  <2>2. IsRows(fetched)
    <3>. DEFINE first == offset + 1
    <3>. HIDE DEF first
    <3>. QED  BY <1>1, <1>4, <2>1, CutRows DEF first
  <2>. HIDE DEF fetched
  <2>. QED  BY <2>2, SequenceLength DEF IsRows
<1>. HIDE DEF fetched
<1>6. PageSize < Len(fetched) => IsRows(SubSeq(fetched, 1, PageSize))
  BY <1>2, <1>5, CutRows
<1>. QED  BY <1>2, <1>3, <1>5, <1>6 DEF PageRows, HasNext

-----------------------------------------------------------------------------
(* One Tab.                                                                *)

\* A grid: the row that is selected is the one that was picked.
IsGrid(g) ==
  /\ g = [rows |-> g.rows, shown |-> g.shown, editable |-> g.editable,
          selected |-> g.selected, editing |-> g.editing,
          pending_insert |-> g.pending_insert, source |-> g.source, picked |-> g.picked]
  /\ IsRows(g.rows)
  /\ g.selected \in Nat
  /\ (g.selected # 0 /\ ~IsDraft(g, g.selected)) =>
       g.selected \in DOMAIN g.rows /\ g.picked = g.rows[g.selected]

\* A grid with nothing to stage: no rows, and a draft nobody can type into.
Blank(g) ==
  /\ g.rows = <<>> /\ g.editable = FALSE /\ g.editing = 0
  /\ g.pending_insert \in {NoDraft, Draft(Null)}

\* Whatever can be staged was read from this Table.
From(g, table) == g.source = table \/ Blank(g)

IsStructureTab(tab) ==
  /\ tab.kind = "structure"
  /\ tab = [kind |-> tab.kind, id |-> tab.id, table |-> tab.table]
IsTableTab(tab) ==
  /\ tab.kind = "table"
  /\ tab = [kind |-> tab.kind, id |-> tab.id, table |-> tab.table, filters |-> tab.filters,
            page |-> tab.page, has_next |-> tab.has_next, grid |-> tab.grid]
  /\ tab.page \in Nat /\ IsGrid(tab.grid) /\ From(tab.grid, tab.table)
IsQueryTab(tab) ==
  /\ tab.kind = "query"
  /\ tab = [kind |-> tab.kind, id |-> tab.id, sql |-> tab.sql, staging |-> tab.staging,
            page |-> tab.page, has_next |-> tab.has_next, grid |-> tab.grid]
  /\ tab.page \in Nat /\ IsGrid(tab.grid)
  /\ \/ tab.staging = ReadOnly
     \/ tab.staging = StagedOn(tab.sql.table) /\ tab.sql.do = "one" /\ From(tab.grid, tab.sql.table)

IsTab(tab) == IsStructureTab(tab) \/ IsTableTab(tab) \/ IsQueryTab(tab)

\* The open cell of a Tab, and the row it is in.
IsOpen(tab)   == IsGridTab(tab) /\ tab.grid.editing # 0
OpenedRow(g)  == IF IsDraft(g, g.editing) THEN NoDraft ELSE g.rows[g.editing]

LEMMA NewGrid ==
  ASSUME NEW rows, IsRows(rows), NEW editable, NEW source
  PROVE  IsGrid(FromPage(rows, editable, source))
BY DEF IsGrid, FromPage

LEMMA BlankGrids ==
  /\ IsGrid(NoGrid) /\ Blank(NoGrid) /\ NoGrid.editing = 0
  /\ Blank(FromPage(<<>>, FALSE, "none")) /\ IsGrid(FromPage(<<>>, FALSE, "none"))
<1>. DEFINE g == FromPage(<<>>, FALSE, "none")
<1>1. IsGrid(g)
  BY NoRows, NewGrid
<1>2. g = [rows |-> <<>>, shown |-> TRUE, editable |-> FALSE, selected |-> 0,
           editing |-> 0, pending_insert |-> NoDraft, source |-> "none", picked |-> NoDraft]
  BY DEF FromPage
<1>3. NoGrid = [g EXCEPT !.shown = FALSE]
  BY DEF NoGrid
<1>. HIDE DEF g
<1>4. NoGrid = [rows |-> <<>>, shown |-> FALSE, editable |-> FALSE, selected |-> 0,
                editing |-> 0, pending_insert |-> NoDraft, source |-> "none", picked |-> NoDraft]
  BY <1>2, <1>3
<1>5. IsGrid(NoGrid)
  BY <1>4, NoRows DEF IsGrid
<1>6. Blank(NoGrid) /\ NoGrid.editing = 0
  BY <1>4 DEF Blank
<1>7. Blank(g)
  BY <1>2 DEF Blank
<1>. QED  BY <1>1, <1>5, <1>6, <1>7 DEF g

\* A reload leaves a Tab of the same id, with no open cell.
LEMMA ReloadedTab ==
  ASSUME NEW d, NEW tab, IsTab(tab)
  PROVE  /\ IsTab(Reloaded(d, tab)) /\ ~IsOpen(Reloaded(d, tab))
         /\ Reloaded(d, tab).id = tab.id /\ Reloaded(d, tab).kind = tab.kind
<1>1. CASE IsStructureTab(tab)
  <2>1. Reloaded(d, tab) = tab /\ ~IsGridTab(tab)
    BY <1>1 DEF IsStructureTab, Reloaded, IsGridTab
  <2>. QED  BY <1>1, <2>1 DEF IsTab, IsOpen
<1>2. CASE IsTableTab(tab) \/ IsQueryTab(tab)
  <2>. DEFINE filters == IF tab.kind = "table" THEN tab.filters ELSE <<>>
              fetched == Fetched(d[Reads(tab)], filters, tab.page)
              on == IF tab.kind = "query" /\ tab.sql.do = "one" THEN StagedOn(Reads(tab)) ELSE ReadOnly
              grid == FromPage(PageRows(fetched), tab.kind = "table" \/ on.staged, Reads(tab))
              none == FromPage(<<>>, FALSE, "none")
              next == HasNext(fetched)
  <2>1. IsGridTab(tab) /\ (tab.kind = "table" \/ tab.kind = "query") /\ tab.page \in Nat
    BY <1>2 DEF IsGridTab, IsTableTab, IsQueryTab
  <2>2. IsGrid(grid) /\ grid.editing = 0 /\ grid.source = Reads(tab)
    <3>1. IsRows(PageRows(fetched))
      BY <2>1, FetchedRows
    <3>2. IsGrid(grid)
      <4>. HIDE DEF fetched, on
      <4>. QED  BY <3>1, NewGrid
    <3>. QED  BY <3>2 DEF FromPage
  <2>3. IsGrid(none) /\ Blank(none) /\ none.editing = 0
    BY BlankGrids DEF Blank
  <2>4. /\ ~CanRead(d, tab) =>
             Reloaded(d, tab) = [tab EXCEPT !.has_next = FALSE, !.grid = none]
        /\ (tab.kind = "table" /\ CanRead(d, tab)) =>
             Reloaded(d, tab) = [tab EXCEPT !.has_next = next, !.grid = grid]
        /\ (tab.kind = "query" /\ CanRead(d, tab)) =>
             Reloaded(d, tab) = [tab EXCEPT !.has_next = next, !.grid = grid, !.staging = on]
    BY <2>1 DEF Reloaded, ShowPage
  <2>5. on = ReadOnly \/ (tab.kind = "query" /\ tab.sql.do = "one" /\ on = StagedOn(tab.sql.table))
    BY DEF Reads
  <2>. HIDE DEF filters, fetched, on, grid, none, next
  <2>6. CASE IsTableTab(tab)
    <3>1. tab.kind = "table" /\ Reads(tab) = tab.table
      BY <2>6 DEF IsTableTab, Reads
    <3>2. CASE CanRead(d, tab)
      <4>1. Reloaded(d, tab) =
              [kind |-> tab.kind, id |-> tab.id, table |-> tab.table, filters |-> tab.filters,
               page |-> tab.page, has_next |-> next, grid |-> grid]
        BY <2>4, <2>6, <3>1, <3>2 DEF IsTableTab
      <4>. QED  BY <2>1, <2>2, <3>1, <4>1 DEF IsTab, IsTableTab, IsOpen, From
    <3>3. CASE ~CanRead(d, tab)
      <4>1. Reloaded(d, tab) =
              [kind |-> tab.kind, id |-> tab.id, table |-> tab.table, filters |-> tab.filters,
               page |-> tab.page, has_next |-> FALSE, grid |-> none]
        BY <2>4, <2>6, <3>1, <3>3 DEF IsTableTab
      <4>. QED  BY <2>1, <2>3, <3>1, <4>1 DEF IsTab, IsTableTab, IsOpen, From
    <3>. QED  BY <3>2, <3>3
  <2>7. CASE IsQueryTab(tab)
    <3>1. tab.kind = "query" /\ Reads(tab) = tab.sql.table
      BY <2>7 DEF IsQueryTab, Reads
    <3>2. CASE CanRead(d, tab)
      <4>1. Reloaded(d, tab) =
              [kind |-> tab.kind, id |-> tab.id, sql |-> tab.sql, staging |-> on,
               page |-> tab.page, has_next |-> next, grid |-> grid]
        BY <2>4, <2>7, <3>1, <3>2 DEF IsQueryTab
      <4>. QED  BY <2>1, <2>2, <2>5, <3>1, <4>1 DEF IsTab, IsQueryTab, IsOpen, From
    <3>3. CASE ~CanRead(d, tab)
      <4>1. Reloaded(d, tab) =
              [kind |-> tab.kind, id |-> tab.id, sql |-> tab.sql, staging |-> tab.staging,
               page |-> tab.page, has_next |-> FALSE, grid |-> none]
        BY <2>4, <2>7, <3>1, <3>3 DEF IsQueryTab
      <4>. QED  BY <2>1, <2>3, <2>7, <3>1, <4>1 DEF IsTab, IsQueryTab, IsOpen, From
    <3>. QED  BY <3>2, <3>3
  <2>. QED  BY <1>2, <2>6, <2>7
<1>. QED  BY <1>1, <1>2 DEF IsTab

\* A Tab whose grid is replaced by one of the same Table.
LEMMA TabWithGrid ==
  ASSUME NEW tab, IsTab(tab), IsGridTab(tab), NEW g, IsGrid(g),
         g.source = tab.grid.source, Blank(tab.grid) => Blank(g)
  PROVE  /\ IsTab([tab EXCEPT !.grid = g]) /\ [tab EXCEPT !.grid = g].grid = g
         /\ [tab EXCEPT !.grid = g].id = tab.id /\ [tab EXCEPT !.grid = g].kind = tab.kind
<1>1. CASE IsTableTab(tab)
  <2>1. [tab EXCEPT !.grid = g] =
          [kind |-> tab.kind, id |-> tab.id, table |-> tab.table, filters |-> tab.filters,
           page |-> tab.page, has_next |-> tab.has_next, grid |-> g]
    BY <1>1 DEF IsTableTab
  <2>. QED  BY <1>1, <2>1 DEF IsTab, IsTableTab, From
<1>2. CASE IsQueryTab(tab)
  <2>1. [tab EXCEPT !.grid = g] =
          [kind |-> tab.kind, id |-> tab.id, sql |-> tab.sql, staging |-> tab.staging,
           page |-> tab.page, has_next |-> tab.has_next, grid |-> g]
    BY <1>2 DEF IsQueryTab
  <2>. QED  BY <1>2, <2>1 DEF IsTab, IsQueryTab, From
<1>3. ~IsStructureTab(tab)
  BY DEF IsStructureTab, IsGridTab
<1>. QED  BY <1>1, <1>2, <1>3 DEF IsTab

\* A Tab on another page, with other Filters, with other SQL.
LEMMA TabTurned ==
  ASSUME NEW tab, IsTab(tab), IsGridTab(tab), NEW n \in Nat
  PROVE  LET new == [tab EXCEPT !.page = n]
         IN  IsTab(new) /\ new.id = tab.id /\ new.kind = tab.kind
<1>. DEFINE new == [tab EXCEPT !.page = n]
<1>1. CASE IsTableTab(tab)
  <2>1. new = [kind |-> tab.kind, id |-> tab.id, table |-> tab.table, filters |-> tab.filters,
               page |-> n, has_next |-> tab.has_next, grid |-> tab.grid]
    BY <1>1 DEF IsTableTab
  <2>. QED  BY <1>1, <2>1 DEF IsTab, IsTableTab
<1>2. CASE IsQueryTab(tab)
  <2>1. new = [kind |-> tab.kind, id |-> tab.id, sql |-> tab.sql, staging |-> tab.staging,
               page |-> n, has_next |-> tab.has_next, grid |-> tab.grid]
    BY <1>2 DEF IsQueryTab
  <2>. QED  BY <1>2, <2>1 DEF IsTab, IsQueryTab
<1>3. ~IsStructureTab(tab)
  BY DEF IsStructureTab, IsGridTab
<1>. QED  BY <1>1, <1>2, <1>3 DEF IsTab

LEMMA TabFiltered ==
  ASSUME NEW tab, IsTableTab(tab), NEW filters
  PROVE  LET new == Filtered(tab, filters)
         IN  IsTab(new) /\ new.id = tab.id /\ new.kind = tab.kind
<1>1. PICK first \in Nat : first = 0
  OBVIOUS
<1>2. Filtered(tab, filters) = [tab EXCEPT !.filters = filters, !.page = first]
  BY <1>1 DEF Filtered
<1>3. Filtered(tab, filters) =
        [kind |-> tab.kind, id |-> tab.id, table |-> tab.table, filters |-> filters,
         page |-> first, has_next |-> tab.has_next, grid |-> tab.grid]
  BY <1>2 DEF IsTableTab
<1>. QED  BY <1>3 DEF IsTab, IsTableTab

LEMMA TabRun ==
  ASSUME NEW tab, IsQueryTab(tab), NEW sql
  PROVE  LET new == RunTab(tab, sql)
         IN  IsTab(new) /\ new.id = tab.id /\ new.kind = tab.kind
<1>1. PICK first \in Nat : first = 0
  OBVIOUS
<1>2. RunTab(tab, sql) = [tab EXCEPT !.sql = sql, !.staging = ReadOnly, !.page = first]
  BY <1>1 DEF RunTab
<1>3. RunTab(tab, sql) =
        [kind |-> tab.kind, id |-> tab.id, sql |-> sql, staging |-> ReadOnly,
         page |-> first, has_next |-> tab.has_next, grid |-> tab.grid]
  BY <1>2 DEF IsQueryTab
<1>. QED  BY <1>3 DEF IsTab, IsQueryTab

-----------------------------------------------------------------------------
(* The row of Tabs.                                                        *)

\* A Filter is for a Table in front; a form has its operation and Table.
DialogFits(d) ==
  /\ d.kind = "filter" => ActiveIs("table")
  /\ d.kind = "form" => d = [kind |-> d.kind, op |-> d.op, table |-> d.table]

TabsInv ==
  /\ IsSequence(tabs) /\ IsSequence(staged)
  /\ next_tab_id \in Nat \ {0}
  /\ active_tab \in 1..Len(tabs) \/ (active_tab = 0 /\ Len(tabs) = 0)
  /\ \A i \in 1..Len(tabs) : IsTab(tabs[i]) /\ tabs[i].id \in 1..(next_tab_id - 1)
  /\ \A i, j \in 1..Len(tabs) : tabs[i].id = tabs[j].id => i = j
  /\ DialogFits(dialog)

\* What a step does to Tabs that stay where they are.
SameTab(t, u)   == IsTab(u) /\ u.id = t.id /\ u.kind = t.kind
StillOpen(t, u) == IsOpen(u) => IsOpen(t) /\ OpenedRow(u.grid) = OpenedRow(t.grid)

SameTabs(ts, us) ==
  IsSequence(us) /\ Len(us) = Len(ts) /\ \A i \in 1..Len(ts) : SameTab(ts[i], us[i])
OpensNone(ts, us) == \A i \in 1..Len(ts) : StillOpen(ts[i], us[i])

\* A step that adds, removes and selects no Tab.
InPlace == SameTabs(tabs, tabs') /\ UNCHANGED <<active_tab, next_tab_id>>

\* The history such a step leaves, when it opens no cell.
Quiet == OpensNone(tabs, tabs') /\ (Staying(tabs') \/ UNCHANGED history)

LEMMA SameTabsReflexive == TabsInv => SameTabs(tabs, tabs) /\ OpensNone(tabs, tabs)
BY DEF TabsInv, SameTabs, SameTab, OpensNone, StillOpen

LEMMA TabReplaced ==
  ASSUME TabsInv, HasActive, NEW u, SameTab(Active, u)
  PROVE  LET ts == [tabs EXCEPT ![active_tab] = u]
         IN  /\ SameTabs(tabs, ts)
             /\ StillOpen(Active, u) => OpensNone(tabs, ts)
             /\ ts[active_tab] = u
<1>1. active_tab \in DOMAIN tabs /\ IsSequence(tabs) /\ DOMAIN tabs = 1..Len(tabs)
  BY SequenceLength DEF TabsInv, HasActive
<1>. DEFINE ts == [tabs EXCEPT ![active_tab] = u]
<1>2. /\ IsSequence(ts) /\ Len(ts) = Len(tabs)
      /\ ts[active_tab] = u /\ \A i \in 1..Len(tabs) : i # active_tab => ts[i] = tabs[i]
  BY <1>1, SequenceExcept
<1>. HIDE DEF ts
<1>3. SameTabs(tabs, ts)
  BY <1>2 DEF SameTabs, SameTab, TabsInv, Active
<1>4. StillOpen(Active, u) => OpensNone(tabs, ts)
  BY <1>2 DEF OpensNone, StillOpen, Active
<1>. QED  BY <1>2, <1>3, <1>4 DEF ts

LEMMA TabsReloaded ==
  ASSUME TabsInv, NEW d
  PROVE  SameTabs(tabs, ReloadAllGrids(d)) /\ OpensNone(tabs, ReloadAllGrids(d))
<1>. DEFINE ts == ReloadAllGrids(d)
<1>1. Len(tabs) \in Nat /\ DOMAIN tabs = 1..Len(tabs)
  BY SequenceLength DEF TabsInv
<1>2. ts = [i \in 1..Len(tabs) |-> Reloaded(d, tabs[i])]
  BY <1>1 DEF ReloadAllGrids
<1>. HIDE DEF ts
<1>3. ts = [i \in 1..Len(tabs) |-> ts[i]]
  BY <1>2
<1>4. IsSequence(ts) /\ Len(ts) = Len(tabs)
  BY <1>1, <1>3, SequenceOfFunction
<1>5. ASSUME NEW i \in 1..Len(tabs)
      PROVE  SameTab(tabs[i], ts[i]) /\ StillOpen(tabs[i], ts[i])
  <2>1. IsTab(tabs[i]) /\ ts[i] = Reloaded(d, tabs[i])
    BY <1>2 DEF TabsInv
  <2>2. IsTab(ts[i]) /\ ~IsOpen(ts[i]) /\ ts[i].id = tabs[i].id /\ ts[i].kind = tabs[i].kind
    BY <2>1, ReloadedTab
  <2>. QED  BY <2>2 DEF SameTab, StillOpen
<1>. QED  BY <1>4, <1>5 DEF SameTabs, OpensNone, ts

\* A step in place keeps the row of Tabs and the one in front.
LEMMA InPlaceInv ==
  ASSUME TabsInv, InPlace, IsSequence(staged'), DialogFits(dialog')
  PROVE  TabsInv' /\ ActiveId' = ActiveId /\ HasActive' = HasActive
<1>1. /\ active_tab' = active_tab /\ next_tab_id' = next_tab_id
      /\ IsSequence(tabs') /\ Len(tabs') = Len(tabs)
      /\ \A i \in 1..Len(tabs) :
           IsTab(tabs'[i]) /\ tabs'[i].id = tabs[i].id /\ tabs'[i].kind = tabs[i].kind
  BY DEF InPlace, SameTabs, SameTab
<1>2. HasActive' = HasActive
  BY <1>1 DEF HasActive
<1>3. HasActive => active_tab \in 1..Len(tabs)
  BY DEF TabsInv, HasActive
<1>4. ActiveId' = ActiveId /\ (ActiveIs("table") => ActiveIs("table")')
  BY <1>1, <1>2, <1>3 DEF ActiveId, ActiveIs, Active
<1>5. TabsInv'
  BY <1>1, <1>4 DEF TabsInv, DialogFits
<1>. QED  BY <1>2, <1>4, <1>5

-----------------------------------------------------------------------------
(* The steps in place that stage nothing.                                  *)

\* What such a step keeps, to be shown of each.
Placed  == InPlace /\ Quiet /\ IsSequence(staged') /\ DialogFits(dialog')
Settled == Placed /\ Len(staged') <= Len(staged)

LEMMA ActiveReloaded ==
  ASSUME TabsInv, HasActive, NEW tab, IsTab(tab), tab.id = Active.id, tab.kind = Active.kind,
         ReloadActive(tab)
  PROVE  InPlace /\ Quiet
<1>1. SameTab(Active, Reloaded(db, tab)) /\ StillOpen(Active, Reloaded(db, tab))
  BY ReloadedTab DEF SameTab, StillOpen
<1>2. SameTabs(tabs, tabs') /\ OpensNone(tabs, tabs')
  BY <1>1, TabReplaced DEF ReloadActive
<1>. QED  BY <1>2 DEF InPlace, Quiet, ReloadActive

\* Pages, Filters and Runs change the active Tab and reload it.
LEMMA ReloadSettled ==
  ASSUME TabsInv,
         \/ NextPage \/ PrevPage
         \/ \E cells \in Filter : AddFilter(cells)
         \/ HasActive /\ Active.kind = "table" /\ \E i \in DOMAIN Active.filters : RemoveFilter(i)
         \/ \E sql \in Limit.sql : RunQuery(sql)
  PROVE  Settled
<1>1. IsSequence(staged) /\ Len(staged) \in Nat
  BY SequenceLength DEF TabsInv
<1>2. HasActive => IsTab(Active)
  BY DEF TabsInv, HasActive, Active
<1>3. ASSUME NEW tab, HasActive, IsTab(tab), tab.id = Active.id, tab.kind = Active.kind,
             ReloadActive(tab), dialog' = NoDialog
      PROVE  Settled
  <2>1. InPlace /\ Quiet
    BY <1>3, ActiveReloaded
  <2>2. staged' = staged /\ DialogFits(dialog')
    BY <1>3 DEF ReloadActive, DialogFits, NoDialog
  <2>. QED  BY <1>1, <2>1, <2>2 DEF Settled, Placed
<1>4. ASSUME NEW n \in Nat, HasActive, IsGridTab(Active)
      PROVE  LET tab == [Active EXCEPT !.page = n]
             IN  IsTab(tab) /\ tab.id = Active.id /\ tab.kind = Active.kind
  BY <1>2, <1>4, TabTurned
<1>5. ASSUME HasActive, IsGridTab(Active)  PROVE Active.page \in Nat
  BY <1>2, <1>5 DEF IsTab, IsTableTab, IsQueryTab, IsStructureTab, IsGridTab
<1>6. CASE NextPage
  <2>1. HasActive /\ IsGridTab(Active) /\ dialog' = NoDialog
        /\ ReloadActive([Active EXCEPT !.page = Active.page + 1])
    BY <1>6 DEF NextPage
  <2>2. Active.page + 1 \in Nat
    BY <1>5, <2>1
  <2>. QED  BY <1>3, <1>4, <2>1, <2>2
<1>7. CASE PrevPage
  <2>1. HasActive /\ IsGridTab(Active) /\ dialog' = NoDialog /\ Active.page > 0
        /\ ReloadActive([Active EXCEPT !.page = Active.page - 1])
    BY <1>7 DEF PrevPage
  <2>2. Active.page - 1 \in Nat
    BY <1>5, <2>1
  <2>. QED  BY <1>3, <1>4, <2>1, <2>2
<1>8. ASSUME NEW filters, ActiveIs("table"), ReloadActive(Filtered(Active, filters)),
             dialog' = NoDialog
      PROVE  Settled
  <2>1. HasActive /\ IsTableTab(Active)
    BY <1>2, <1>8 DEF ActiveIs, IsTab, IsTableTab, IsQueryTab, IsStructureTab
  <2>. QED  BY <1>3, <1>8, <2>1, TabFiltered
<1>9. ASSUME NEW cells, AddFilter(cells)  PROVE Settled
  <2>1. ActiveIs("table")
    BY <1>9 DEF AddFilter, TabsInv, DialogFits
  <2>. QED  BY <1>8, <1>9, <2>1 DEF AddFilter
<1>10. ASSUME HasActive, Active.kind = "table", NEW i, RemoveFilter(i)  PROVE Settled
  BY <1>8, <1>10 DEF RemoveFilter, ActiveIs
<1>11. ASSUME NEW sql, RunQuery(sql)  PROVE Settled
  <2>. DEFINE tab == RunTab(Active, sql)
  <2>1. HasActive /\ IsQueryTab(Active) /\ dialog' = NoDialog /\ ReloadActive(tab)
    BY <1>2, <1>11 DEF RunQuery, ActiveIs, IsTab, IsTableTab, IsQueryTab, IsStructureTab
  <2>2. IsTab(tab) /\ tab.id = Active.id /\ tab.kind = Active.kind
    BY <2>1, TabRun
  <2>. HIDE DEF tab
  <2>. QED  BY <1>3, <2>1, <2>2
<1>. QED  BY <1>6, <1>7, <1>9, <1>10, <1>11

\* The writes of the window reload every Tab; refused, they change nothing.
LEMMA WriteSettled ==
  ASSUME TabsInv, ExecuteMutating \/ RunSchemaChange \/ ApplyChanges
  PROVE  Settled
<1>1. IsSequence(staged) /\ Len(staged) \in Nat
  BY SequenceLength DEF TabsInv
<1>2. DialogFits(dialog')
  BY DEF ExecuteMutating, RunSchemaChange, ApplyChanges, DialogFits, NoDialog
<1>3. (\E d : Wrote(d)) \/ Refused
  BY Zenon DEF ExecuteMutating, RunSchemaChange, ApplyChanges
<1>4. IsSequence(staged') /\ Len(staged') <= Len(staged)
  <2>1. IsSequence(<<>>) /\ Len(<<>>) = 0
    BY NoRows DEF IsRows
  <2>2. staged' = staged \/ staged' = <<>>
    BY DEF ExecuteMutating, RunSchemaChange, ApplyChanges, Refused
  <2>. QED  BY <1>1, <2>1, <2>2
<1>5. ASSUME NEW d, Wrote(d)  PROVE InPlace /\ Quiet
  BY <1>5, TabsReloaded DEF Wrote, InPlace, Quiet
<1>6. ASSUME Refused  PROVE InPlace /\ Quiet
  BY <1>6, SameTabsReflexive DEF Refused, InPlace, Quiet
<1>. QED  BY <1>2, <1>3, <1>4, <1>5, <1>6 DEF Settled, Placed

\* Steps that leave the Tabs alone.
LEMMA OtherSettled ==
  ASSUME TabsInv,
         \/ OpenFilterDialog \/ CancelDialog \/ PreviewDdl
         \/ \E sql \in Limit.sql : ConfirmMutating(sql)
         \/ \E op \in {"create", "alter", "drop"}, t \in Table : OpenForm(op, t)
         \/ \E text \in Cell : TypeText(text)
         \/ \E i \in DOMAIN staged : UnstageOne(i)
         \/ DiscardAll \/ OtherProgram
         \/ UNCHANGED vars
  PROVE  Settled
<1>1. IsSequence(staged) /\ Len(staged) \in Nat /\ DOMAIN staged = 1..Len(staged)
  BY SequenceLength DEF TabsInv
<1>2. UNCHANGED <<tabs, active_tab, next_tab_id, history>>
  BY DEF OpenFilterDialog, CancelDialog, PreviewDdl, ConfirmMutating, OpenForm, TypeText,
     UnstageOne, DiscardAll, OtherProgram, OtherProgramWrites, vars, history
<1>3. InPlace /\ Quiet
  BY <1>2, SameTabsReflexive DEF InPlace, Quiet
<1>4. DialogFits(dialog')
  <2>1. DialogFits(dialog)
    BY DEF TabsInv
  <2>2. ASSUME PreviewDdl  PROVE dialog'.kind = "schema"
    BY <2>1, <2>2 DEF PreviewDdl, DialogFits
  <2>3. ASSUME NEW op, NEW t, OpenForm(op, t)  PROVE DialogFits(dialog')
    BY <2>3 DEF OpenForm, DialogFits
  <2>4. ASSUME OpenFilterDialog \/ CancelDialog \/ \E sql \in Limit.sql : ConfirmMutating(sql)
        PROVE  DialogFits(dialog')
    BY <2>4 DEF OpenFilterDialog, CancelDialog, ConfirmMutating, DialogFits, NoDialog
  <2>5. \/ PreviewDdl \/ (\E op \in {"create", "alter", "drop"}, t \in Table : OpenForm(op, t))
        \/ OpenFilterDialog \/ CancelDialog \/ (\E sql \in Limit.sql : ConfirmMutating(sql))
        \/ dialog' = dialog
    BY DEF TypeText, UnstageOne, DiscardAll, OtherProgram, OtherProgramWrites, vars
  <2>. QED  BY <2>1, <2>2, <2>3, <2>4, <2>5 DEF DialogFits
<1>5. IsSequence(staged') /\ Len(staged') <= Len(staged)
  <2>1. IsSequence(<<>>) /\ Len(<<>>) = 0
    BY NoRows DEF IsRows
  <2>2. ASSUME NEW i \in DOMAIN staged, UnstageOne(i)
        PROVE  IsSequence(staged') /\ Len(staged') <= Len(staged)
    <3>1. IsSequence(staged') /\ Len(staged') = Len(staged) - 1
      BY <1>1, <2>2, SequenceRemove DEF UnstageOne
    <3>. QED  BY <1>1, <3>1
  <2>3. (\E i \in DOMAIN staged : UnstageOne(i)) \/ staged' = <<>> \/ staged' = staged
    BY DEF OpenFilterDialog, CancelDialog, PreviewDdl, ConfirmMutating, OpenForm, TypeText,
       DiscardAll, OtherProgram, OtherProgramWrites, vars
  <2>. QED  BY <1>1, <2>1, <2>2, <2>3
<1>. QED  BY <1>3, <1>4, <1>5 DEF Settled, Placed

-----------------------------------------------------------------------------
(* The grid in front.                                                      *)

\* A grid with the same rows and another selection, open cell, draft and row picked.
EditedGrid(g, selected, editing, pending_insert, picked) ==
  [rows |-> g.rows, shown |-> g.shown, editable |-> g.editable, selected |-> selected,
   editing |-> editing, pending_insert |-> pending_insert, source |-> g.source,
   picked |-> picked]

\* What a click selects, what it opens, and where a new row is drafted.
Selecting(g, selected, picked) == [g EXCEPT !.selected = selected, !.picked = picked]
Opening(g, selected, editing, picked) ==
  [g EXCEPT !.selected = selected, !.editing = editing, !.picked = picked]
Closing(g, editing)  == [g EXCEPT !.editing = editing]
Redrafting(g, draft) == [g EXCEPT !.pending_insert = draft]
Undrafting(g, draft, selected) == [g EXCEPT !.pending_insert = draft, !.selected = selected]
Drafting(g, draft, editing, selected, picked) ==
  [g EXCEPT !.pending_insert = draft, !.editing = editing, !.selected = selected,
            !.picked = picked]

LEMMA GridExcept ==
  ASSUME NEW g, IsGrid(g), NEW selected, NEW editing, NEW draft, NEW picked
  PROVE  /\ Selecting(g, selected, picked) =
              EditedGrid(g, selected, g.editing, g.pending_insert, picked)
         /\ Opening(g, selected, editing, picked) =
              EditedGrid(g, selected, editing, g.pending_insert, picked)
         /\ Closing(g, editing) = EditedGrid(g, g.selected, editing, g.pending_insert, g.picked)
         /\ Redrafting(g, draft) = EditedGrid(g, g.selected, g.editing, draft, g.picked)
         /\ Undrafting(g, draft, selected) = EditedGrid(g, selected, g.editing, draft, g.picked)
         /\ Drafting(g, draft, editing, selected, picked) =
              EditedGrid(g, selected, editing, draft, picked)
<1>. DEFINE chosen == [g EXCEPT !.selected = selected]
            opened == [chosen EXCEPT !.editing = editing]
            drafted == [g EXCEPT !.pending_insert = draft]
            closed == [drafted EXCEPT !.editing = editing]
            both == [closed EXCEPT !.selected = selected]
<1>1. g = EditedGrid(g, g.selected, g.editing, g.pending_insert, g.picked)
  BY DEF IsGrid, EditedGrid
<1>2. /\ Selecting(g, selected, picked) = [chosen EXCEPT !.picked = picked]
      /\ Opening(g, selected, editing, picked) = [opened EXCEPT !.picked = picked]
      /\ Undrafting(g, draft, selected) = [drafted EXCEPT !.selected = selected]
      /\ Drafting(g, draft, editing, selected, picked) = [both EXCEPT !.picked = picked]
  BY DEF Selecting, Opening, Undrafting, Drafting
<1>3. chosen = EditedGrid(g, selected, g.editing, g.pending_insert, g.picked)
  BY <1>1 DEF EditedGrid
<1>4. drafted = EditedGrid(g, g.selected, g.editing, draft, g.picked)
  BY <1>1 DEF EditedGrid
<1>5. Closing(g, editing) = EditedGrid(g, g.selected, editing, g.pending_insert, g.picked)
  BY <1>1 DEF EditedGrid, Closing
<1>. HIDE DEF chosen, drafted
<1>6. [chosen EXCEPT !.picked = picked] =
        EditedGrid(g, selected, g.editing, g.pending_insert, picked)
  BY <1>3 DEF EditedGrid
<1>7. opened = EditedGrid(g, selected, editing, g.pending_insert, g.picked)
  BY <1>3 DEF EditedGrid
<1>8. [drafted EXCEPT !.selected = selected] =
        EditedGrid(g, selected, g.editing, draft, g.picked)
  BY <1>4 DEF EditedGrid
<1>9. closed = EditedGrid(g, g.selected, editing, draft, g.picked)
  BY <1>4 DEF EditedGrid
<1>. HIDE DEF opened, closed
<1>10. [opened EXCEPT !.picked = picked] =
         EditedGrid(g, selected, editing, g.pending_insert, picked)
  BY <1>7 DEF EditedGrid
<1>11. both = EditedGrid(g, selected, editing, draft, g.picked)
  BY <1>9 DEF EditedGrid
<1>. HIDE DEF both
<1>12. [both EXCEPT !.picked = picked] = EditedGrid(g, selected, editing, draft, picked)
  BY <1>11 DEF EditedGrid
<1>13. Redrafting(g, draft) = EditedGrid(g, g.selected, g.editing, draft, g.picked)
  BY <1>4 DEF drafted, Redrafting
<1>. QED  BY <1>2, <1>5, <1>6, <1>8, <1>10, <1>12, <1>13

LEMMA EditedGridFits ==
  ASSUME NEW g, IsGrid(g), NEW selected \in Nat, NEW editing, NEW draft, NEW picked,
         \/ selected = g.selected /\ picked = g.picked
         \/ selected # 0 => picked = IF IsDraft(g, selected) THEN NoDraft ELSE g.rows[selected]
  PROVE  LET new == EditedGrid(g, selected, editing, draft, picked)
         IN  /\ IsGrid(new)
             /\ new.rows = g.rows /\ new.source = g.source /\ new.editable = g.editable
             /\ new.selected = selected /\ new.editing = editing
             /\ new.pending_insert = draft /\ new.picked = picked
<1>. DEFINE new == EditedGrid(g, selected, editing, draft, picked)
<1>1. /\ new = [rows |-> new.rows, shown |-> new.shown, editable |-> new.editable,
                selected |-> new.selected, editing |-> new.editing,
                pending_insert |-> new.pending_insert, source |-> new.source,
                picked |-> new.picked]
      /\ new.rows = g.rows /\ new.source = g.source /\ new.editable = g.editable
      /\ new.selected = selected /\ new.editing = editing
      /\ new.pending_insert = draft /\ new.picked = picked
  BY DEF EditedGrid
<1>. HIDE DEF new
<1>2. Len(g.rows) \in Nat /\ DOMAIN g.rows = 1..Len(g.rows)
  BY SequenceLength DEF IsGrid, IsRows
<1>3. (selected # 0 /\ ~IsDraft(g, selected)) =>
         selected \in DOMAIN g.rows /\ picked = g.rows[selected]
  BY <1>2 DEF IsGrid, IsDraft
<1>4. IsGrid(new)
  BY <1>1, <1>3 DEF IsGrid, IsDraft
<1>. QED  BY <1>1, <1>4 DEF new

\* A grid that is shown is the one of the active Tab.
LEMMA ShownGrid ==
  ASSUME TabsInv, Grid.shown
  PROVE  HasActive /\ IsTab(Active) /\ IsGridTab(Active) /\ Grid = Active.grid /\ IsGrid(Grid)
<1>1. NoGrid.shown = FALSE
  BY DEF NoGrid, FromPage
<1>2. HasActive /\ IsGridTab(Active) /\ Grid = Active.grid
  BY <1>1 DEF Grid, ActiveGrid
<1>3. IsTab(Active)
  BY <1>2 DEF TabsInv, HasActive, Active
<1>4. IsGrid(Active.grid)
  BY <1>2, <1>3 DEF IsTab, IsStructureTab, IsTableTab, IsQueryTab, IsGridTab
<1>. QED  BY <1>2, <1>3, <1>4

LEMMA GridReplaced ==
  ASSUME TabsInv, Grid.shown, NEW g, IsGrid(g), g.source = Grid.source, Blank(Grid) => Blank(g)
  PROVE  /\ SameTabs(tabs, WithGrid(g)) /\ WithGrid(g)[active_tab].grid = g
         /\ (g.editing = 0 \/ (g.editing = Grid.editing /\ g.rows = Grid.rows)) =>
              OpensNone(tabs, WithGrid(g))
         /\ \A i \in 1..Len(tabs) : i # active_tab => WithGrid(g)[i] = tabs[i]
<1>. DEFINE new == [Active EXCEPT !.grid = g]
<1>1. /\ HasActive /\ IsTab(Active) /\ IsGridTab(Active) /\ Grid = Active.grid
  BY ShownGrid
<1>2. IsTab(new) /\ new.grid = g /\ new.id = Active.id /\ new.kind = Active.kind
  BY <1>1, TabWithGrid
<1>3. WithGrid(g) = [tabs EXCEPT ![active_tab] = new]
  BY DEF WithGrid, Active
<1>. HIDE DEF new
<1>4. SameTab(Active, new)
  BY <1>2 DEF SameTab
<1>5. (g.editing = 0 \/ (g.editing = Grid.editing /\ g.rows = Grid.rows)) => StillOpen(Active, new)
  BY <1>1, <1>2 DEF StillOpen, IsOpen, OpenedRow, IsDraft, IsGridTab
<1>6. IsSequence(tabs) /\ active_tab \in DOMAIN tabs
  BY <1>1, SequenceLength DEF TabsInv, HasActive
<1>7. /\ SameTabs(tabs, WithGrid(g)) /\ WithGrid(g)[active_tab] = new
      /\ StillOpen(Active, new) => OpensNone(tabs, WithGrid(g))
  BY <1>1, <1>3, <1>4, TabReplaced
<1>8. \A i \in 1..Len(tabs) : i # active_tab => WithGrid(g)[i] = tabs[i]
  BY <1>3, <1>6, SequenceExcept
<1>. QED  BY <1>2, <1>5, <1>7, <1>8

\* A Tab whose grid can be staged: it was read from the Table the changes go to.
LEMMA StagingGrid ==
  ASSUME TabsInv, ActiveStaging.staged, Grid.shown
  PROVE  /\ From(Grid, ActiveStaging.table)
         /\ Active.kind = "query" => Active.sql.do = "one"
<1>1. HasActive /\ IsTab(Active) /\ IsGridTab(Active) /\ Grid = Active.grid
  BY ShownGrid
<1>2. ReadOnly.staged = FALSE
  BY DEF ReadOnly
<1>3. CASE Active.kind = "table"
  <2>1. IsTableTab(Active)
    BY <1>1, <1>3 DEF IsTab, IsStructureTab, IsTableTab, IsQueryTab
  <2>2. ActiveStaging = StagedOn(Active.table)
    BY <1>1, <1>3 DEF ActiveStaging, ActiveIs
  <2>3. ActiveStaging.table = Active.table
    BY <2>2 DEF StagedOn
  <2>. QED  BY <1>1, <1>3, <2>1, <2>3 DEF IsTableTab
<1>4. CASE Active.kind = "query"
  <2>1. IsQueryTab(Active)
    BY <1>1, <1>4 DEF IsTab, IsStructureTab, IsTableTab, IsQueryTab
  <2>2. ActiveStaging = Active.staging
    BY <1>1, <1>4 DEF ActiveStaging, ActiveIs
  <2>3. /\ Active.staging = StagedOn(Active.sql.table) /\ Active.sql.do = "one"
        /\ From(Active.grid, Active.sql.table)
    BY <1>2, <2>1, <2>2 DEF IsQueryTab
  <2>4. ActiveStaging.table = Active.sql.table
    BY <2>2, <2>3 DEF StagedOn
  <2>. QED  BY <1>1, <2>3, <2>4
<1>. QED  BY <1>1, <1>3, <1>4 DEF IsTab, IsStructureTab, IsTableTab, IsQueryTab, IsGridTab

-----------------------------------------------------------------------------
(* The steps that stage, and the clicks before them.                       *)

\* The picked row is the one of a staged change (StagesThePickedRow), and the text
\* was typed for it (CommitsOwnText).
RightRow ==
  LET change == Last(staged') IN
  /\ change.table = Grid.source
  /\ Active.kind = "query" => Active.sql.do = "one"
  /\ change.ch.op = "delete" =>
       /\ Grid.picked # NoDraft
       /\ change.ch.key = Grid.picked.key
       /\ change.ch.seen.val = Grid.picked.val
RightText ==
  Last(staged').ch.op = "update" =>
    \/ Active.id \in left
    \/ LET ch == Last(staged').ch IN
       typed_for = [id |-> Active.id, row |-> [key |-> ch.key, val |-> ch.seen.val]]

LEMMA StagedOne ==
  ASSUME TabsInv, NEW change, staged' = Append(staged, change)
  PROVE  IsSequence(staged') /\ Last(staged') = change
BY SequenceAppend, SequenceLength DEF TabsInv, Last

LEMMA StagedNone ==
  ASSUME TabsInv, staged' = staged
  PROVE  IsSequence(staged') /\ Len(staged') <= Len(staged)
BY SequenceLength DEF TabsInv

LEMMA GridPlaced ==
  ASSUME TabsInv, Grid.shown, NEW g, IsGrid(g), g.source = Grid.source, Blank(Grid) => Blank(g),
         tabs' = WithGrid(g), UNCHANGED <<active_tab, next_tab_id, dialog>>,
         g.editing = 0 \/ (g.editing = Grid.editing /\ g.rows = Grid.rows),
         Staying(tabs') \/ UNCHANGED history
  PROVE  InPlace /\ Quiet /\ DialogFits(dialog')
<1>1. SameTabs(tabs, tabs') /\ OpensNone(tabs, tabs')
  BY GridReplaced
<1>2. DialogFits(dialog')
  BY DEF TabsInv
<1>. QED  BY <1>1, <1>2 DEF InPlace, Quiet

LEMMA SelectSettled ==
  ASSUME TabsInv, NEW r \in 1..RowCount(Grid), SelectRow(r)
  PROVE  Settled
<1>. DEFINE g == EditedGrid(Grid, r, Grid.editing, Grid.pending_insert, PickedRow(r))
<1>1. Grid.shown /\ IsGrid(Grid)
  BY ShownGrid DEF SelectRow
<1>2. tabs' = WithGrid(g)
  <2>1. Selecting(Grid, r, PickedRow(r)) = g
    BY <1>1, GridExcept
  <2>. QED  BY <2>1 DEF SelectRow, Selecting
<1>3. r \in Nat /\ r # 0
  OBVIOUS
<1>4. /\ IsGrid(g) /\ g.rows = Grid.rows /\ g.source = Grid.source
      /\ g.editable = Grid.editable /\ g.editing = Grid.editing
      /\ g.pending_insert = Grid.pending_insert
  BY <1>1, <1>3, EditedGridFits DEF PickedRow
<1>. HIDE DEF g
<1>5. Blank(Grid) => Blank(g)
  BY <1>4 DEF Blank
<1>6. InPlace /\ Quiet /\ DialogFits(dialog')
  BY <1>1, <1>2, <1>4, <1>5, GridPlaced DEF SelectRow
<1>. QED  BY <1>6, StagedNone DEF SelectRow, Settled, Placed

LEMMA StartInsertSettled ==
  ASSUME TabsInv, StartInsertRow
  PROVE  Settled
<1>. DEFINE next == Len(Grid.rows) + 1
            g == EditedGrid(Grid, next, 0, Draft(Null), NoDraft)
<1>1. Grid.shown /\ IsGrid(Grid)
  BY ShownGrid DEF StartInsertRow
<1>2. tabs' = WithGrid(g)
  <2>1. Drafting(Grid, Draft(Null), 0, next, NoDraft) = g
    BY <1>1, GridExcept
  <2>. QED  BY <2>1 DEF StartInsertRow, Drafting
<1>3. next \in Nat /\ IsDraft(Grid, next)
  BY <1>1, SequenceLength DEF IsGrid, IsRows, IsDraft
<1>4. /\ IsGrid(g) /\ g.rows = Grid.rows /\ g.source = Grid.source
      /\ g.editable = Grid.editable /\ g.editing = 0 /\ g.pending_insert = Draft(Null)
  BY <1>1, <1>3, EditedGridFits
<1>. HIDE DEF g
<1>5. Blank(Grid) => Blank(g)
  BY <1>4 DEF Blank
<1>6. InPlace /\ Quiet /\ DialogFits(dialog')
  BY <1>1, <1>2, <1>4, <1>5, GridPlaced DEF StartInsertRow
<1>. QED  BY <1>6, StagedNone DEF StartInsertRow, Settled, Placed

LEMMA StageInsertPlaced ==
  ASSUME TabsInv, StageInsertRow
  PROVE  Placed /\ (Len(staged') > Len(staged) => RightRow /\ RightText)
<1>. DEFINE g == EditedGrid(Grid, Grid.selected, Grid.editing, NoDraft, Grid.picked)
<1>1. Grid.shown /\ IsGrid(Grid) /\ ActiveStaging.staged
  BY ShownGrid DEF StageInsertRow
<1>2. tabs' = WithGrid(g)
  <2>1. Redrafting(Grid, NoDraft) = g
    BY <1>1, GridExcept
  <2>. QED  BY <2>1 DEF StageInsertRow, Redrafting
<1>3. Grid.selected \in Nat
  BY <1>1 DEF IsGrid
<1>4. /\ IsGrid(g) /\ g.rows = Grid.rows /\ g.source = Grid.source
      /\ g.editable = Grid.editable /\ g.editing = Grid.editing /\ g.pending_insert = NoDraft
  BY <1>1, <1>3, EditedGridFits
<1>. HIDE DEF g
<1>5. Blank(Grid) => Blank(g)
  BY <1>4 DEF Blank
<1>6. InPlace /\ Quiet /\ DialogFits(dialog')
  BY <1>1, <1>2, <1>4, <1>5, GridPlaced DEF StageInsertRow
<1>7. CASE staged' = staged
  BY <1>6, <1>7, StagedNone, SequenceLength DEF Placed, TabsInv
<1>8. CASE staged' # staged
  <2>1. PICK k : staged' = Append(staged, Insert(k, Grid.pending_insert.val))
    BY <1>8 DEF StageInsertRow
  <2>2. ~Blank(Grid)
    BY <1>8 DEF StageInsertRow, Blank
  <2>3. IsSequence(staged') /\ Last(staged') = Insert(k, Grid.pending_insert.val)
    BY <2>1, StagedOne
  <2>4. Last(staged').table = ActiveStaging.table /\ Last(staged').ch.op = "insert"
    BY <2>3 DEF Insert
  <2>5. RightRow /\ RightText
    BY <1>1, <2>2, <2>4, StagingGrid DEF RightRow, RightText, From
  <2>. QED  BY <1>6, <2>3, <2>5 DEF Placed
<1>. QED  BY <1>7, <1>8

LEMMA StageDeletePlaced ==
  ASSUME TabsInv, StageDeleteRow
  PROVE  Placed /\ (Len(staged') > Len(staged) => RightRow /\ RightText)
<1>1. Grid.shown /\ IsGrid(Grid) /\ ActiveStaging.staged /\ Grid.selected # 0
  BY ShownGrid DEF StageDeleteRow
<1>2. CASE IsDraft(Grid, Grid.selected)
  <2>. DEFINE g == EditedGrid(Grid, 0, Grid.editing, NoDraft, Grid.picked)
  <2>1. tabs' = WithGrid(g) /\ staged' = staged
    <3>1. Undrafting(Grid, NoDraft, 0) = g
      BY <1>1, GridExcept
    <3>. QED  BY <1>2, <3>1 DEF StageDeleteRow, Undrafting
  <2>2. /\ IsGrid(g) /\ g.rows = Grid.rows /\ g.source = Grid.source
        /\ g.editable = Grid.editable /\ g.editing = Grid.editing /\ g.pending_insert = NoDraft
    BY <1>1, EditedGridFits
  <2>. HIDE DEF g
  <2>3. Blank(Grid) => Blank(g)
    BY <2>2 DEF Blank
  <2>4. InPlace /\ Quiet /\ DialogFits(dialog')
    BY <1>1, <2>1, <2>2, <2>3, GridPlaced DEF StageDeleteRow
  <2>. QED  BY <2>1, <2>4, StagedNone, SequenceLength DEF Placed, TabsInv
<1>3. CASE ~IsDraft(Grid, Grid.selected)
  <2>. DEFINE row == Grid.rows[Grid.selected]
  <2>1. tabs' = tabs /\ staged' = Append(staged, Delete(row))
    BY <1>3 DEF StageDeleteRow
  <2>2. Grid.selected \in DOMAIN Grid.rows /\ Grid.picked = row /\ IsRow(row)
    BY <1>1, <1>3 DEF IsGrid, IsRows
  <2>3. Grid.rows # <<>>
    BY <2>2
  <2>4. IsSequence(staged') /\ Last(staged') = Delete(row)
    BY <2>1, StagedOne
  <2>5. row # NoDraft
    <3>1. DOMAIN row = {"key", "val"} /\ DOMAIN NoDraft = {"draft"}
      BY <2>2 DEF IsRow, NoDraft
    <3>. QED  BY <3>1
  <2>. HIDE DEF row
  <2>6. /\ Last(staged').table = ActiveStaging.table /\ Last(staged').ch.op = "delete"
        /\ Last(staged').ch.key = row.key /\ Last(staged').ch.seen.val = row.val
    BY <2>4 DEF Delete
  <2>7. RightRow /\ RightText
    BY <1>1, <2>2, <2>3, <2>5, <2>6, StagingGrid DEF RightRow, RightText, From, Blank
  <2>8. InPlace /\ Quiet /\ DialogFits(dialog')
    BY <2>1, SameTabsReflexive DEF StageDeleteRow, InPlace, Quiet, TabsInv
  <2>. QED  BY <2>4, <2>7, <2>8 DEF Placed
<1>. QED  BY <1>2, <1>3

-----------------------------------------------------------------------------
(* The shared input.                                                       *)

\* A cell is open in the Tab in front, and the input was filled for its row; or
\* its Tab was left with it.
TypedInv ==
  \A i \in 1..Len(tabs) : (IsOpen(tabs[i]) /\ tabs[i].id \notin left) =>
    /\ tabs[i].id = ActiveId
    /\ typed_for = [id |-> tabs[i].id, row |-> OpenedRow(tabs[i].grid)]

\* The Tabs with an open cell, by id.
LEMMA OpenTab ==
  ASSUME NEW ts, IsSequence(ts), NEW i \in 1..Len(ts), IsOpen(ts[i])
  PROVE  ts[i].id \in Open(ts)
BY SequenceLength DEF Open, IsOpen

LEMMA QuietTyped ==
  ASSUME TabsInv, TypedInv, InPlace, Quiet, ActiveId' = ActiveId
  PROVE  TypedInv'
<1>1. SUFFICES ASSUME NEW i \in 1..Len(tabs'), IsOpen(tabs'[i]), tabs'[i].id \notin left'
               PROVE  /\ tabs'[i].id = ActiveId
                      /\ typed_for' = [id |-> tabs'[i].id, row |-> OpenedRow(tabs'[i].grid)]
  BY DEF TypedInv
<1>2. /\ i \in 1..Len(tabs) /\ tabs'[i].id = tabs[i].id /\ IsOpen(tabs[i])
      /\ OpenedRow(tabs'[i].grid) = OpenedRow(tabs[i].grid)
  BY <1>1 DEF InPlace, Quiet, SameTabs, SameTab, OpensNone, StillOpen
<1>3. tabs'[i].id \in Open(tabs')
  BY <1>1, OpenTab DEF InPlace, SameTabs
<1>4. tabs[i].id \notin left /\ typed_for' = typed_for
  BY <1>1, <1>2, <1>3 DEF Quiet, Staying, Remember, history
<1>. QED  BY <1>2, <1>4 DEF TypedInv

\* A Tab that is left with an open cell is remembered.
LEMMA LeavingTyped ==
  ASSUME TabsInv, TypedInv, Leaving(tabs'), IsSequence(tabs'),
         \A i \in 1..Len(tabs') : IsOpen(tabs'[i]) =>
           \E j \in 1..Len(tabs) : IsOpen(tabs[j]) /\ tabs[j].id = tabs'[i].id
  PROVE  TypedInv'
<1>1. SUFFICES ASSUME NEW i \in 1..Len(tabs'), IsOpen(tabs'[i]), tabs'[i].id \notin left'
               PROVE  FALSE
  BY DEF TypedInv
<1>2. PICK j \in 1..Len(tabs) : IsOpen(tabs[j]) /\ tabs[j].id = tabs'[i].id
  BY <1>1
<1>3. tabs'[i].id \in Open(tabs')
  BY <1>1, OpenTab
<1>4. HasActive
  BY SequenceLength DEF TabsInv, HasActive
<1>5. tabs[j].id \notin left /\ tabs[j].id # Active.id
  BY <1>1, <1>2, <1>3, <1>4 DEF Leaving, Remember
<1>6. tabs[j].id = Active.id
  BY <1>2, <1>4, <1>5 DEF TypedInv, ActiveId
<1>. QED  BY <1>5, <1>6

\* A click opens a cell and fills the input for it.
LEMMA BeginEditInv ==
  ASSUME TabsInv, TypedInv, NEW r \in 1..RowCount(Grid), BeginEdit(r)
  PROVE  InPlace /\ staged' = staged /\ DialogFits(dialog') /\ TypedInv'
<1>. DEFINE g == EditedGrid(Grid, r, r, Grid.pending_insert, PickedRow(r))
<1>1. /\ Grid.shown /\ Grid.editable /\ IsGrid(Grid)
      /\ HasActive /\ IsGridTab(Active) /\ Grid = Active.grid
  BY ShownGrid DEF BeginEdit
<1>2. tabs' = WithGrid(g)
  <2>1. Opening(Grid, r, r, PickedRow(r)) = g
    BY <1>1, GridExcept
  <2>. QED  BY <2>1 DEF BeginEdit, Opening
<1>3. r \in Nat /\ r # 0
  OBVIOUS
<1>4. /\ IsGrid(g) /\ g.rows = Grid.rows /\ g.source = Grid.source /\ g.editing = r
  BY <1>1, <1>3, EditedGridFits DEF PickedRow
<1>. HIDE DEF g
<1>5. ~Blank(Grid)
  BY <1>1 DEF Blank
<1>6. /\ SameTabs(tabs, tabs') /\ tabs'[active_tab].grid = g
      /\ \A i \in 1..Len(tabs) : i # active_tab => tabs'[i] = tabs[i]
  BY <1>1, <1>2, <1>4, <1>5, GridReplaced
<1>7. InPlace /\ staged' = staged /\ dialog' = dialog
  BY <1>6 DEF BeginEdit, InPlace
<1>8. DialogFits(dialog')
  BY <1>7 DEF TabsInv
<1>9. ActiveId' = Active.id /\ active_tab \in 1..Len(tabs) /\ tabs'[active_tab].id = Active.id
  BY <1>1, <1>6, <1>7 DEF InPlace, ActiveId, HasActive, Active, SameTabs, SameTab, TabsInv
<1>10. ASSUME NEW i \in 1..Len(tabs'), IsOpen(tabs'[i]), tabs'[i].id \notin left'
       PROVE  /\ tabs'[i].id = ActiveId'
              /\ typed_for' = [id |-> tabs'[i].id, row |-> OpenedRow(tabs'[i].grid)]
  <2>1. left' = left \ {Active.id} /\ typed_for' = [id |-> Active.id, row |-> PickedRow(r)]
    BY DEF BeginEdit
  <2>2. i \in 1..Len(tabs)
    BY <1>6, <1>10 DEF SameTabs
  <2>3. CASE i = active_tab
    <3>1. OpenedRow(g) = PickedRow(r)
      BY <1>4 DEF OpenedRow, PickedRow, IsDraft
    <3>. QED  BY <1>6, <1>9, <2>1, <2>3, <3>1
  <2>4. CASE i # active_tab
    <3>1. tabs'[i] = tabs[i]
      BY <1>6, <2>2, <2>4
    <3>2. tabs[i].id # Active.id
      BY <1>9, <2>2, <2>4 DEF TabsInv, Active
    <3>3. tabs[i].id = ActiveId
      BY <1>10, <2>1, <2>2, <3>1, <3>2 DEF TypedInv
    <3>. QED  BY <1>1, <3>2, <3>3 DEF ActiveId
  <2>. QED  BY <2>3, <2>4
<1>11. TypedInv'
  BY <1>10 DEF TypedInv
<1>. QED  BY <1>7, <1>8, <1>11

\* Enter or Blur: the open cell is closed, and what was typed for it staged.
LEMMA CommitPlaced ==
  ASSUME TabsInv, TypedInv, CommitCell
  PROVE  Placed /\ (Len(staged') > Len(staged) => RightRow /\ RightText)
<1>. DEFINE closed == EditedGrid(Grid, Grid.selected, 0, Grid.pending_insert, Grid.picked)
            drafted == EditedGrid(closed, closed.selected, 0, Draft(input), closed.picked)
<1>1. /\ Grid.shown /\ IsGrid(Grid) /\ ActiveStaging.staged
      /\ HasActive /\ IsGridTab(Active) /\ Grid = Active.grid
      /\ Grid.editing \in 1..RowCount(Grid)
  BY ShownGrid DEF CommitCell, InputIsDrawn
<1>2. Grid.selected \in Nat /\ Grid.editing # 0 /\ ~Blank(Grid)
  BY <1>1 DEF IsGrid, Blank
<1>3. Closing(Grid, 0) = closed
  BY <1>1, GridExcept
<1>4. /\ IsGrid(closed) /\ closed.source = Grid.source /\ closed.editing = 0
      /\ closed.selected = Grid.selected
  BY <1>1, <1>2, EditedGridFits
<1>. HIDE DEF closed
<1>5. Redrafting(closed, Draft(input)) = drafted
  BY <1>4, GridExcept
<1>6. IsGrid(drafted) /\ drafted.source = Grid.source /\ drafted.editing = 0
  BY <1>2, <1>4, EditedGridFits
<1>. HIDE DEF drafted
<1>7. /\ tabs' = WithGrid(closed) \/ tabs' = WithGrid(drafted)
      /\ UNCHANGED <<active_tab, next_tab_id, dialog>> /\ Staying(tabs')
  BY <1>3, <1>5 DEF CommitCell, OpenRow, Closing, Redrafting
<1>8. InPlace /\ Quiet /\ DialogFits(dialog')
  BY <1>1, <1>2, <1>4, <1>6, <1>7, GridPlaced
<1>9. CASE staged' = staged
  BY <1>8, <1>9, StagedNone, SequenceLength DEF Placed, TabsInv
<1>10. CASE staged' # staged
  <2>. DEFINE row == Grid.rows[Grid.editing]
  <2>1. staged' = Append(staged, Update(row, input)) /\ ~IsDraft(Grid, Grid.editing)
    BY <1>10 DEF CommitCell, OpenRow
  <2>2. IsSequence(staged') /\ Last(staged') = Update(row, input)
    BY <2>1, StagedOne
  <2>3. IsRow(row)
    <3>1. Len(Grid.rows) \in Nat /\ DOMAIN Grid.rows = 1..Len(Grid.rows)
      BY <1>1, SequenceLength DEF IsGrid, IsRows
    <3>2. Grid.editing \in DOMAIN Grid.rows
      BY <1>1, <2>1, <3>1 DEF IsDraft
    <3>. QED  BY <1>1, <3>2 DEF IsGrid, IsRows
  <2>4. OpenedRow(Grid) = row
    BY <2>1 DEF OpenedRow
  <2>5. Active.id \notin left => typed_for = [id |-> Active.id, row |-> row]
    <3>1. active_tab \in 1..Len(tabs) /\ IsOpen(tabs[active_tab])
      BY <1>1, <1>2 DEF TabsInv, HasActive, IsOpen, Active
    <3>. QED  BY <1>1, <2>4, <3>1 DEF TypedInv, Active
  <2>. HIDE DEF row
  <2>6. /\ Last(staged').table = ActiveStaging.table /\ Last(staged').ch.op = "update"
        /\ Last(staged').ch.key = row.key /\ Last(staged').ch.seen.val = row.val
    BY <2>2 DEF Update
  <2>7. RightRow
    BY <1>1, <1>2, <2>6, StagingGrid DEF RightRow, From
  <2>8. RightText
    BY <2>3, <2>5, <2>6 DEF RightText, IsRow
  <2>. QED  BY <1>8, <2>2, <2>7, <2>8 DEF Placed
<1>. QED  BY <1>9, <1>10

-----------------------------------------------------------------------------
(* Tabs that are opened, selected and closed.                              *)

LEMMA FrontTab ==
  ASSUME TabsInv
  PROVE  /\ HasActive => active_tab \in 1..Len(tabs) /\ ActiveId = tabs[active_tab].id
         /\ ~HasActive => Len(tabs) = 0 /\ ActiveId = 0
         /\ Len(tabs) \in Nat
BY SequenceLength DEF TabsInv, HasActive, ActiveId, Active

LEMMA Pushed ==
  ASSUME TabsInv, TypedInv, NEW tab, IsTab(tab), ~IsOpen(tab), tab.id = next_tab_id,
         tabs' = Append(tabs, tab), active_tab' = Len(tabs) + 1, next_tab_id' = next_tab_id + 1,
         Leaving(tabs'), staged' = staged, dialog' = NoDialog
  PROVE  TabsInv' /\ TypedInv'
<1>1. /\ Len(tabs) \in Nat /\ next_tab_id \in Nat \ {0} /\ IsSequence(tabs)
      /\ \A i \in 1..Len(tabs) : IsTab(tabs[i]) /\ tabs[i].id \in 1..(next_tab_id - 1)
  BY SequenceLength DEF TabsInv
<1>2. /\ IsSequence(tabs') /\ Len(tabs') = Len(tabs) + 1
      /\ \A i \in 1..Len(tabs) : tabs'[i] = tabs[i]
      /\ tabs'[Len(tabs) + 1] = tab
  BY <1>1, SequenceAppend
<1>3. \A i \in 1..Len(tabs') : i \in 1..Len(tabs) \/ i = Len(tabs) + 1
  BY <1>1, <1>2
<1>4. TypedInv'
  BY <1>2, <1>3, LeavingTyped
<1>5. \A i \in 1..Len(tabs') : IsTab(tabs'[i]) /\ tabs'[i].id \in 1..(next_tab_id' - 1)
  BY <1>1, <1>2, <1>3
<1>6. \A i, j \in 1..Len(tabs') : tabs'[i].id = tabs'[j].id => i = j
  <2>1. \A i \in 1..Len(tabs) : tabs[i].id # tab.id
    BY <1>1
  <2>. QED  BY <1>2, <1>3, <2>1 DEF TabsInv
<1>7. DialogFits(dialog)'
  BY DEF DialogFits, NoDialog
<1>8. /\ IsSequence(staged') /\ next_tab_id' \in Nat \ {0}
      /\ active_tab' \in 1..Len(tabs')
  BY <1>1, <1>2 DEF TabsInv
<1>9. TabsInv'
  BY <1>2, <1>5, <1>6, <1>7, <1>8 DEF TabsInv
<1>. QED  BY <1>4, <1>9

LEMMA OpenedTabInv ==
  ASSUME TabsInv, TypedInv,
         \/ \E t \in Table : AddTableTab(t) \/ AddStructureTab(t)
         \/ AddQueryTab
  PROVE  TabsInv' /\ TypedInv' /\ Len(staged') <= Len(staged) /\ next_tab_id' # next_tab_id
<1>1. /\ staged' = staged /\ dialog' = NoDialog /\ active_tab' = Len(tabs) + 1
      /\ next_tab_id' = next_tab_id + 1 /\ Leaving(tabs')
  BY DEF AddTableTab, AddStructureTab, AddQueryTab, PushTab
<1>2. IsGrid(NoGrid) /\ Blank(NoGrid) /\ NoGrid.editing = 0
  BY BlankGrids
<1>3. PICK first \in Nat : first = 0
  OBVIOUS
<1>4. ASSUME NEW tab, IsTab(tab), tab.id = next_tab_id, tabs' = Append(tabs, Reloaded(db, tab))
      PROVE  TabsInv' /\ TypedInv'
  <2>1. IsTab(Reloaded(db, tab)) /\ ~IsOpen(Reloaded(db, tab)) /\ Reloaded(db, tab).id = next_tab_id
    BY <1>4, ReloadedTab
  <2>. QED  BY <1>1, <1>4, <2>1, Pushed
<1>5. ASSUME NEW t, AddTableTab(t)  PROVE TabsInv' /\ TypedInv'
  <2>. DEFINE tab == [kind |-> "table", id |-> next_tab_id, table |-> t, filters |-> <<>>,
                      page |-> first, has_next |-> FALSE, grid |-> NoGrid]
  <2>1. tabs' = Append(tabs, Reloaded(db, tab))
    BY <1>3, <1>5 DEF AddTableTab, PushTab
  <2>2. IsTab(tab) /\ tab.id = next_tab_id
    BY <1>2 DEF IsTab, IsTableTab, From
  <2>. HIDE DEF tab
  <2>. QED  BY <1>4, <2>1, <2>2
<1>6. ASSUME NEW t, AddStructureTab(t)  PROVE TabsInv' /\ TypedInv'
  <2>. DEFINE tab == [kind |-> "structure", id |-> next_tab_id, table |-> t]
  <2>1. tabs' = Append(tabs, Reloaded(db, tab))
    BY <1>6 DEF AddStructureTab, PushTab
  <2>2. IsTab(tab) /\ tab.id = next_tab_id
    BY DEF IsTab, IsStructureTab
  <2>. HIDE DEF tab
  <2>. QED  BY <1>4, <2>1, <2>2
<1>7. ASSUME AddQueryTab  PROVE TabsInv' /\ TypedInv'
  <2>. DEFINE tab == [kind |-> "query", id |-> next_tab_id, sql |-> Empty, staging |-> ReadOnly,
                      page |-> first, has_next |-> FALSE, grid |-> NoGrid]
  <2>1. tabs' = Append(tabs, tab)
    BY <1>3, <1>7 DEF AddQueryTab
  <2>2. IsTab(tab) /\ tab.id = next_tab_id /\ ~IsOpen(tab)
    BY <1>2 DEF IsTab, IsQueryTab, IsOpen
  <2>. HIDE DEF tab
  <2>. QED  BY <1>1, <2>1, <2>2, Pushed
<1>8. TabsInv' /\ TypedInv'
  BY <1>5, <1>6, <1>7
<1>9. Len(staged) \in Nat /\ next_tab_id \in Nat
  BY SequenceLength DEF TabsInv
<1>. QED  BY <1>1, <1>8, <1>9

LEMMA SelectedTabInv ==
  ASSUME TabsInv, TypedInv, NEW i \in DOMAIN tabs, SelectTab(i)
  PROVE  TabsInv' /\ TypedInv' /\ Len(staged') <= Len(staged)
<1>1. /\ tabs' = tabs /\ staged' = staged /\ next_tab_id' = next_tab_id /\ dialog' = NoDialog
      /\ active_tab' = i /\ i \in 1..Len(tabs) /\ Leaving(tabs') /\ IsSequence(tabs')
  BY SequenceLength DEF SelectTab, TabsInv
<1>2. TypedInv'
  BY <1>1, LeavingTyped
<1>3. DialogFits(dialog)'
  BY <1>1 DEF DialogFits, NoDialog
<1>4. TabsInv'
  BY <1>1, <1>3 DEF TabsInv
<1>5. Len(staged) \in Nat
  BY SequenceLength DEF TabsInv
<1>. QED  BY <1>1, <1>2, <1>4, <1>5

\* The Tab in front stays in front, or it is the one that is closed.
LEMMA ClosedTabInv ==
  ASSUME TabsInv, TypedInv, NEW i \in DOMAIN tabs, CloseTab(i)
  PROVE  /\ TabsInv' /\ TypedInv' /\ Len(staged') <= Len(staged)
         /\ ActiveId' = ActiveId \/ \A j \in 1..Len(tabs') : tabs'[j].id # ActiveId
<1>. DEFINE Was(j) == IF j < i THEN j ELSE j + 1
<1>1. /\ Len(tabs) \in Nat /\ i \in 1..Len(tabs) /\ IsSequence(tabs)
      /\ active_tab \in 1..Len(tabs)
      /\ \A j \in 1..Len(tabs) : IsTab(tabs[j]) /\ tabs[j].id \in 1..(next_tab_id - 1)
      /\ \A j, k \in 1..Len(tabs) : tabs[j].id = tabs[k].id => j = k
      /\ next_tab_id \in Nat \ {0}
      /\ HasActive /\ ActiveId = tabs[active_tab].id
  <2>1. Len(tabs) \in Nat /\ i \in 1..Len(tabs) /\ IsSequence(tabs)
    BY SequenceLength DEF TabsInv
  <2>2. HasActive /\ active_tab \in 1..Len(tabs)
    BY <2>1 DEF TabsInv, HasActive
  <2>. QED  BY <2>1, <2>2, FrontTab DEF TabsInv
<1>2. /\ tabs' = RemoveAt(tabs, i) /\ staged' = staged /\ next_tab_id' = next_tab_id
      /\ dialog' = NoDialog /\ active_tab' = ActiveAfterClose(i, Len(tabs) - 1)
  BY DEF CloseTab
<1>3. /\ IsSequence(tabs') /\ Len(tabs') = Len(tabs) - 1
      /\ \A j \in 1..(Len(tabs) - 1) : tabs'[j] = IF j < i THEN tabs[j] ELSE tabs[j + 1]
  BY <1>1, <1>2, SequenceRemove
<1>4. ASSUME NEW j \in 1..Len(tabs')
      PROVE  tabs'[j] = tabs[Was(j)] /\ Was(j) \in 1..Len(tabs) /\ Was(j) # i
  BY <1>1, <1>3
<1>5. \A j, k \in 1..Len(tabs') : Was(j) = Was(k) => j = k
  BY <1>1
<1>6. \A j \in 1..Len(tabs') : IsTab(tabs'[j]) /\ tabs'[j].id \in 1..(next_tab_id' - 1)
  BY <1>1, <1>2, <1>4
<1>7. \A j, k \in 1..Len(tabs') : tabs'[j].id = tabs'[k].id => j = k
  <2>. HIDE DEF Was
  <2>. QED  BY <1>1, <1>4, <1>5
<1>8. \/ active_tab' \in 1..Len(tabs') \/ (active_tab' = 0 /\ Len(tabs') = 0)
  BY <1>1, <1>2, <1>3 DEF ActiveAfterClose
<1>9. i # active_tab => active_tab' \in 1..Len(tabs') /\ Was(active_tab') = active_tab
  BY <1>1, <1>2, <1>3 DEF ActiveAfterClose
<1>10. TabsInv'
  <2>1. DialogFits(dialog)'
    BY <1>2 DEF DialogFits, NoDialog
  <2>2. IsSequence(staged') /\ next_tab_id' \in Nat \ {0}
    BY <1>1, <1>2 DEF TabsInv
  <2>. HIDE DEF Was
  <2>. QED  BY <1>3, <1>6, <1>7, <1>8, <2>1, <2>2 DEF TabsInv
<1>. HIDE DEF Was
<1>11. CASE i = active_tab
  <2>1. \A j \in 1..Len(tabs') : tabs'[j].id # ActiveId
    BY <1>1, <1>4, <1>11
  <2>2. Leaving(tabs')
    BY <1>11 DEF CloseTab
  <2>3. TypedInv'
    BY <1>3, <1>4, <2>2, LeavingTyped
  <2>4. Len(staged) \in Nat
    BY SequenceLength DEF TabsInv
  <2>. QED  BY <1>2, <1>10, <2>1, <2>3, <2>4
<1>12. CASE i # active_tab
  <2>1. active_tab' \in 1..Len(tabs') /\ Was(active_tab') = active_tab
    BY <1>9, <1>12
  <2>2. active_tab' # 0 /\ tabs'[active_tab'].id = ActiveId
    BY <1>1, <1>4, <2>1
  <2>3. ActiveId' = ActiveId
    BY <2>2 DEF ActiveId, HasActive, Active
  <2>4. Staying(tabs')
    BY <1>12 DEF CloseTab
  <2>5. ASSUME NEW j \in 1..Len(tabs'), IsOpen(tabs'[j]), tabs'[j].id \notin left'
        PROVE  /\ tabs'[j].id = ActiveId
               /\ typed_for' = [id |-> tabs'[j].id, row |-> OpenedRow(tabs'[j].grid)]
    <3>1. tabs'[j].id \in Open(tabs')
      BY <1>3, <2>5, OpenTab
    <3>2. tabs'[j].id \notin left /\ typed_for' = typed_for
      BY <2>4, <2>5, <3>1 DEF Staying, Remember
    <3>3. tabs'[j] = tabs[Was(j)] /\ Was(j) \in 1..Len(tabs)
      BY <1>4
    <3>. QED  BY <2>5, <3>2, <3>3 DEF TypedInv
  <2>6. TypedInv'
    BY <2>3, <2>5 DEF TypedInv
  <2>7. Len(staged) \in Nat
    BY SequenceLength DEF TabsInv
  <2>. QED  BY <1>2, <1>10, <2>3, <2>6, <2>7
<1>. QED  BY <1>11, <1>12

-----------------------------------------------------------------------------
(* All steps.                                                              *)

SessionInv == TabsInv /\ TypedInv

\* What a step changes of the Tab in front.
FrontStays ==
  \/ ActiveId' = ActiveId
  \/ next_tab_id' # next_tab_id
  \/ tabs' = tabs /\ active_tab' # active_tab
  \/ \A i \in 1..Len(tabs') : tabs'[i].id # ActiveId

LEMMA InitInv == Init => SessionInv
<1>1. SUFFICES ASSUME Init  PROVE SessionInv
  OBVIOUS
<1>2. IsSequence(<<>>) /\ Len(<<>>) = 0
  BY NoRows DEF IsRows
<1>3. DialogFits(dialog)
  BY <1>1 DEF Init, DialogFits, NoDialog
<1>4. tabs = <<>> /\ staged = <<>> /\ active_tab = 0 /\ next_tab_id = 1
  BY <1>1 DEF Init
<1>5. Len(tabs) = 0 /\ IsSequence(tabs) /\ IsSequence(staged)
  BY <1>2, <1>4
<1>6. \A i \in 1..Len(tabs) : FALSE
  BY <1>5
<1>. QED  BY <1>3, <1>4, <1>5, <1>6 DEF SessionInv, TabsInv, TypedInv

LEMMA PlacedInv ==
  ASSUME SessionInv, Placed
  PROVE  SessionInv' /\ ActiveId' = ActiveId
<1>1. TabsInv' /\ ActiveId' = ActiveId
  BY InPlaceInv DEF SessionInv, Placed
<1>. QED  BY <1>1, QuietTyped DEF SessionInv, Placed

LEMMA StepInv ==
  ASSUME SessionInv, [Next]_vars
  PROVE  /\ SessionInv' /\ FrontStays
         /\ Len(staged') > Len(staged) => RightRow /\ RightText
<1>. USE DEF SessionInv
<1>1. ASSUME Settled
      PROVE  SessionInv' /\ FrontStays /\ ~(Len(staged') > Len(staged))
  <2>1. SessionInv' /\ ActiveId' = ActiveId
    BY <1>1, PlacedInv DEF Settled
  <2>2. Len(staged') \in Nat /\ Len(staged) \in Nat /\ Len(staged') <= Len(staged)
    BY <1>1, SequenceLength DEF Settled, Placed, TabsInv
  <2>3. ~(Len(staged') > Len(staged))
    BY <2>2
  <2>. QED  BY <2>1, <2>3 DEF FrontStays
<1>2. ASSUME TabsInv', Len(staged') <= Len(staged)
      PROVE  ~(Len(staged') > Len(staged))
  BY <1>2, SequenceLength DEF TabsInv
<1>3. ASSUME Placed, Len(staged') > Len(staged) => RightRow /\ RightText
      PROVE  SessionInv' /\ FrontStays /\ (Len(staged') > Len(staged) => RightRow /\ RightText)
  BY <1>3, PlacedInv DEF FrontStays
<1>4. CASE (\E t \in Table : AddTableTab(t) \/ AddStructureTab(t)) \/ AddQueryTab
  BY <1>2, <1>4, OpenedTabInv DEF FrontStays
<1>5. ASSUME NEW i \in DOMAIN tabs, SelectTab(i)
      PROVE  SessionInv' /\ FrontStays /\ ~(Len(staged') > Len(staged))
  <2>1. tabs' = tabs /\ active_tab' # active_tab
    BY <1>5 DEF SelectTab
  <2>. QED  BY <1>2, <1>5, <2>1, SelectedTabInv DEF FrontStays
<1>6. ASSUME NEW i \in DOMAIN tabs, CloseTab(i)
      PROVE  SessionInv' /\ FrontStays /\ ~(Len(staged') > Len(staged))
  BY <1>2, <1>6, ClosedTabInv DEF FrontStays
<1>7. CASE \/ NextPage \/ PrevPage
           \/ \E cells \in Filter : AddFilter(cells)
           \/ HasActive /\ Active.kind = "table" /\ \E i \in DOMAIN Active.filters : RemoveFilter(i)
           \/ \E sql \in Limit.sql : RunQuery(sql)
  BY <1>1, <1>7, ReloadSettled
<1>8. CASE ExecuteMutating \/ RunSchemaChange \/ ApplyChanges
  BY <1>1, <1>8, WriteSettled
<1>9. CASE \/ OpenFilterDialog \/ CancelDialog \/ PreviewDdl
           \/ \E sql \in Limit.sql : ConfirmMutating(sql)
           \/ \E op \in {"create", "alter", "drop"}, t \in Table : OpenForm(op, t)
           \/ \E text \in Cell : TypeText(text)
           \/ \E i \in DOMAIN staged : UnstageOne(i)
           \/ DiscardAll \/ OtherProgram
           \/ UNCHANGED vars
  BY <1>1, <1>9, OtherSettled
<1>10. ASSUME NEW r \in 1..RowCount(Grid), SelectRow(r)
       PROVE  SessionInv' /\ FrontStays /\ ~(Len(staged') > Len(staged))
  BY <1>1, <1>10, SelectSettled
<1>11. ASSUME NEW r \in 1..RowCount(Grid), BeginEdit(r)
       PROVE  SessionInv' /\ FrontStays /\ ~(Len(staged') > Len(staged))
  <2>1. InPlace /\ staged' = staged /\ DialogFits(dialog') /\ TypedInv'
    BY <1>11, BeginEditInv
  <2>2. IsSequence(staged') /\ Len(staged') <= Len(staged)
    BY <2>1, StagedNone
  <2>3. TabsInv' /\ ActiveId' = ActiveId
    BY <2>1, <2>2, InPlaceInv
  <2>. QED  BY <1>2, <2>1, <2>2, <2>3 DEF FrontStays
<1>12. CASE StartInsertRow
  BY <1>1, <1>12, StartInsertSettled
<1>13. CASE StageInsertRow
  BY <1>3, <1>13, StageInsertPlaced
<1>14. CASE StageDeleteRow
  BY <1>3, <1>14, StageDeletePlaced
<1>15. CASE CommitCell
  BY <1>3, <1>15, CommitPlaced
<1>. QED  BY <1>4, <1>5, <1>6, <1>7, <1>8, <1>9, <1>10, <1>11, <1>12, <1>13, <1>14, <1>15
          DEF Next, TabAction, WriteAction, GridAction

LEMMA InductiveSession == Spec => []SessionInv
<1>1. SessionInv /\ [Next]_vars => SessionInv'
  BY StepInv
<1>. QED  BY <1>1, InitInv, PTL DEF Spec

-----------------------------------------------------------------------------
(* Theorems.                                                               *)

\* A Staged Change is of the row that was clicked, as it was shown then, and
\* goes to the Table that row was read from, whatever is reloaded, turned,
\* filtered or run in between (session.rs:699-708, 744-757, 933-969, 1069-1113).
THEOREM StagedRowIsPicked == Spec => StagesThePickedRow
<1>. DEFINE Stages ==
  Len(staged') > Len(staged) =>
    LET change == Last(staged') IN
    /\ change.table = Grid.source
    /\ Active.kind = "query" => Active.sql.do = "one"
    /\ change.ch.op = "delete" =>
         /\ Grid.picked # NoDraft
         /\ change.ch.key = Grid.picked.key
         /\ change.ch.seen.val = Grid.picked.val
<1>1. SessionInv /\ [Next]_vars => [Stages]_vars
  BY StepInv DEF RightRow
<1>. QED  BY <1>1, InductiveSession, PTL DEF Spec, StagesThePickedRow

\* The text a staged update writes was filled in for the cell of that row and
\* Tab, unless the Tab was left while the cell was open, although all grids
\* share one input (session.rs:129-154, 818-882).
THEOREM CommittedTextIsOwn == Spec => CommitsOwnText
<1>. DEFINE Commits ==
  (Len(staged') > Len(staged) /\ Last(staged').ch.op = "update") =>
    \/ Active.id \in left
    \/ LET ch == Last(staged').ch IN
       typed_for = [id |-> Active.id, row |-> [key |-> ch.key, val |-> ch.seen.val]]
<1>1. SessionInv /\ [Next]_vars => [Commits]_vars
  BY StepInv DEF RightText
<1>. QED  BY <1>1, InductiveSession, PTL DEF Spec, CommitsOwnText

\* Closing a Tab before or after the one in front, and reloading all of them,
\* keep it in front, for any number of Tabs (session.rs:464-477, 802-816).
THEOREM TabInFrontStays == Spec => ActiveTabStays
<1>. DEFINE Stays ==
  ActiveId' # ActiveId =>
    \/ next_tab_id' # next_tab_id
    \/ tabs' = tabs /\ active_tab' # active_tab
    \/ \A i \in DOMAIN tabs' : tabs'[i].id # ActiveId
<1>1. SessionInv /\ [Next]_vars => [Stays]_vars
  <2>1. SUFFICES ASSUME SessionInv, [Next]_vars  PROVE Stays
    OBVIOUS
  <2>2. SessionInv' /\ FrontStays
    BY <2>1, StepInv
  <2>3. DOMAIN tabs' = 1..Len(tabs')
    BY <2>2, SequenceLength DEF SessionInv, TabsInv
  <2>. QED  BY <2>2, <2>3 DEF FrontStays
<1>. QED  BY <1>1, InductiveSession, PTL DEF Spec, ActiveTabStays
=============================================================================
