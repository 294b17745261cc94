------------------------- MODULE SessionPagesProofs -------------------------
(***************************************************************************)
(* Theorems about what the grids of SessionView show, for any Table and    *)
(* page size: a page that is read is the page the Tab is on (IsPage), and  *)
(* the steps that promise a fresh page read it.                            *)
(***************************************************************************)
EXTENDS SessionViewProofs

-----------------------------------------------------------------------------
(* One page.                                                               *)

\* The rows of a Table with these Row Identities.
RowOf(table, k) == [key |-> k, val |-> table[k].val]
Keeping(table, filters) == {k \in Key : table[k] # Absent /\ Passes(table[k], filters)}
Kept(table, filters) == {r \in Rows(table) : Passes(r, filters)}

\* ORDER BY: every row that passes the Filters, at the place of the rows below it.
LEMMA MatchingInOrder ==
  ASSUME NEW table, NEW filters
  PROVE  LET rows == Matching(table, filters)
             all == Kept(table, filters)
             n == Cardinality(Keeping(table, filters))
         IN  /\ n \in Nat /\ IsRows(rows) /\ Len(rows) = n
             /\ \A i \in 1..n : rows[i] \in all /\ Below(rows[i], all) = i - 1
             /\ \A r \in all : /\ Below(r, all) \in 0..(n - 1)
                               /\ r = rows[Below(r, all) + 1]
<1>. DEFINE K == Keeping(table, filters)
            n == Cardinality(K)
            Rank(k) == Cardinality({j \in K : j < k})
            Row(k) == RowOf(table, k)
            all == Kept(table, filters)
            order == InKeyOrder(K)
            rows == Matching(table, filters)
<1>1. K \in SUBSET Nat /\ IsFiniteSet(K)
  <2>1. K \in SUBSET Key
    BY DEF Keeping
  <2>. HIDE DEF K
  <2>. QED  BY <2>1, SessionViewAssumption, FS_Subset
<1>2. /\ n \in Nat
      /\ \A k \in K : Rank(k) \in 0..(n - 1)
      /\ \A k, l \in K : Rank(k) = Rank(l) => k = l
      /\ \A i \in 0..(n - 1) : \E k \in K : Rank(k) = i
  <2>. HIDE DEF K
  <2>. QED  BY <1>1, Ranks
<1>3. all = {Row(k) : k \in K}
  <2>1. \A k : Passes([key |-> k, val |-> table[k].val], filters) <=> Passes(table[k], filters)
    BY DEF Passes
  <2>. QED  BY <2>1 DEF Kept, Keeping, Rows, RowOf
<1>4. ASSUME NEW k \in K  PROVE Row(k).key = k
  BY DEF RowOf
<1>5. ASSUME NEW k \in K  PROVE Below(Row(k), all) = Rank(k)
  <2>. DEFINE J == {j \in K : j < k}
              R == {r \in all : r.key < Row(k).key}
              f == [j \in J |-> Row(j)]
  <2>1. IsFiniteSet(J)
    <3>1. J \in SUBSET K
      OBVIOUS
    <3>. HIDE DEF J, K
    <3>. QED  BY <1>1, <3>1, FS_Subset
  <2>2. f \in Bijection(J, R)
    <3>. HIDE DEF all, K, Row
    <3>1. \A j \in J : Row(j) \in R
      BY <1>3, <1>4
    <3>2. \A r \in R : \E j \in J : r = Row(j)
      BY <1>3, <1>4
    <3>3. \A i, j \in J : Row(i) = Row(j) => i = j
      BY <1>4
    <3>. HIDE DEF J, R
    <3>. QED  BY <3>1, <3>2, <3>3 DEF Bijection, Injection, Surjection, IsInjective
  <2>3. Cardinality(R) = Cardinality(J)
    <3>. HIDE DEF J, R, f
    <3>. QED  BY <2>1, <2>2, FS_Bijection DEF ExistsBijection
  <2>. QED  BY <2>3 DEF Below
<1>6. ASSUME NEW i \in 1..n
      PROVE  order[i] \in K /\ Rank(order[i]) = i - 1 /\ rows[i] = Row(order[i])
  <2>1. order[i] = CHOOSE k \in K : Rank(k) = i - 1
    BY DEF InKeyOrder
  <2>2. \E k \in K : Rank(k) = i - 1
    <3>1. i - 1 \in 0..(n - 1)
      BY <1>2
    <3>. QED  BY <1>2, <3>1
  <2>3. rows[i] = Row(order[i])
    BY DEF Matching, Keeping, RowOf
  <2>. HIDE DEF Rank, K, order, rows
  <2>. QED  BY <2>1, <2>2, <2>3
<1>7. IsRows(rows) /\ Len(rows) = n
  <2>1. IsRows(rows)
    BY MatchingRows
  <2>2. rows = [i \in 1..n |-> rows[i]]
    BY DEF Matching, Keeping
  <2>. HIDE DEF rows, n
  <2>. QED  BY <1>2, <2>1, <2>2, SequenceOfFunction
<1>. HIDE DEF K, n, Rank, Row, all, order, rows
<1>8. ASSUME NEW i \in 1..n  PROVE rows[i] \in all /\ Below(rows[i], all) = i - 1
  BY <1>3, <1>5, <1>6
<1>9. ASSUME NEW r \in all
      PROVE  Below(r, all) \in 0..(n - 1) /\ r = rows[Below(r, all) + 1]
  <2>1. PICK k \in K : r = Row(k)
    BY <1>3
  <2>2. Below(r, all) = Rank(k) /\ Rank(k) \in 0..(n - 1)
    BY <1>2, <1>5, <2>1
  <2>3. Rank(k) + 1 \in 1..n /\ Rank(k) + 1 - 1 = Rank(k)
    BY <1>2, <2>2
  <2>4. order[Rank(k) + 1] = k
    BY <1>2, <1>6, <2>3
  <2>. QED  BY <1>6, <2>1, <2>2, <2>3, <2>4
<1>. QED  BY <1>2, <1>7, <1>8, <1>9 DEF K, n, all, rows

\* A page of m of the rows, from `start' on: as many as there are and fit.
IsCut(page, next, rows, start, m) ==
  /\ IsRows(page) /\ Len(page) = m
  /\ \A i \in 1..m : start + i <= Len(rows) /\ page[i] = rows[start + i]
  /\ m = PageSize \/ start + m >= Len(rows)
  /\ next <=> Len(rows) > start + PageSize

\* LIMIT and OFFSET, and the row more that tells whether there is a next page.
LEMMA PageCut ==
  ASSUME NEW rows, IsRows(rows), NEW start \in Nat
  PROVE  LET fetched == LimitOffset(rows, PageSize + 1, start)
             page == PageRows(fetched)
         IN  \E m \in 0..PageSize : IsCut(page, HasNext(fetched), rows, start, m)
<1>. DEFINE n == Len(rows)
            until == Min({start + (PageSize + 1), n})
            fetched == LimitOffset(rows, PageSize + 1, start)
            page == PageRows(fetched)
            S == {rows[i] : i \in DOMAIN rows}
<1>1. /\ n \in Nat /\ PageSize \in Nat \ {0} /\ IsSequence(rows)
      /\ DOMAIN rows = 1..n /\ rows \in Seq(S)
  BY SessionViewAssumption, SequenceLength DEF IsRows, IsSequence
<1>2. until \in Nat /\ until = IF n <= start + PageSize THEN n ELSE start + PageSize + 1
  <2>. DEFINE T == {start + (PageSize + 1), n}
              top == start + PageSize + 1 + n
  <2>1. top \in Nat /\ T \in SUBSET (0..top) /\ T # {} /\ n \in T /\ start + (PageSize + 1) \in T
    <3>1. start + (PageSize + 1) \in 0..top /\ n \in 0..top /\ top \in Nat
      BY <1>1
    <3>. QED  BY <3>1
  <2>2. \A t \in T : t = n \/ t = start + (PageSize + 1)
    OBVIOUS
  <2>. HIDE DEF T, top
  <2>3. Min(T) \in T /\ Min(T) <= n /\ Min(T) <= start + (PageSize + 1)
    BY <2>1, MinMax
  <2>4. until = n \/ until = start + (PageSize + 1)
    BY <2>2, <2>3 DEF T
  <2>. HIDE DEF n
  <2>. QED  BY <1>1, <2>3, <2>4 DEF T
<1>. DEFINE m == IF start + 1 <= until THEN until - start ELSE 0
<1>3. fetched = SubSeq(rows, start + 1, until)
  BY DEF LimitOffset
<1>. HIDE DEF n, until, S, fetched
<1>4. /\ fetched \in Seq(S) /\ Len(fetched) = m /\ m \in Nat
      /\ \A i \in 1..m : fetched[i] = rows[start + i]
  <2>1. \A i \in (start + 1)..until : rows[i] \in S
    <3>1. until <= n
      BY <1>1, <1>2
    <3>. QED  BY <1>1, <1>2, <3>1 DEF S
  <2>2. start + 1 \in Int /\ until \in Int
    BY <1>2
  <2>3. /\ fetched \in Seq(S)
        /\ Len(fetched) = IF start + 1 <= until THEN until - (start + 1) + 1 ELSE 0
        /\ \A i \in 1..(until - (start + 1) + 1) : fetched[i] = rows[start + 1 + i - 1]
    BY <1>3, <2>1, <2>2, SubSeqProperties
  <2>4. Len(fetched) = m /\ m \in Nat
    <3>1. until - (start + 1) + 1 = until - start
      BY <1>2
    <3>. QED  BY <1>2, <2>3, <3>1
  <2>5. ASSUME NEW i \in 1..m  PROVE fetched[i] = rows[start + i]
    <3>1. i \in 1..(until - (start + 1) + 1) /\ start + 1 + i - 1 = start + i
      BY <1>2
    <3>. QED  BY <2>3, <3>1
  <2>. QED  BY <2>3, <2>4, <2>5
<1>5. IsRows(fetched)
  <2>1. until \in Int /\ until <= n /\ start + 1 \in Nat \ {0}
    BY <1>1, <1>2
  <2>. QED  BY <1>3, <2>1, CutRows DEF n
<1>6. HasNext(fetched) <=> n > start + PageSize
  BY <1>1, <1>2, <1>4 DEF HasNext
<1>7. until = start + m \/ (m = 0 /\ until <= start)
  BY <1>2
<1>. HIDE DEF m
<1>8. CASE HasNext(fetched)
  <2>1. page = SubSeq(fetched, 1, PageSize) /\ PageSize <= m
    BY <1>1, <1>4, <1>8 DEF PageRows, HasNext
  <2>2. \A i \in 1..PageSize : fetched[i] \in S
    <3>1. \A i \in 1..Len(fetched) : fetched[i] \in S
      BY <1>4, ElementOfSeq
    <3>. QED  BY <1>1, <1>4, <2>1, <3>1
  <2>3. /\ Len(page) = IF 1 <= PageSize THEN PageSize - 1 + 1 ELSE 0
        /\ \A i \in 1..(PageSize - 1 + 1) : page[i] = fetched[1 + i - 1]
    BY <1>1, <2>1, <2>2, SubSeqProperties
  <2>. HIDE DEF page
  <2>4. Len(page) = PageSize /\ \A i \in 1..PageSize : page[i] = fetched[i]
    <3>1. PageSize - 1 + 1 = PageSize /\ 1 <= PageSize
      BY <1>1
    <3>2. ASSUME NEW i \in 1..PageSize  PROVE page[i] = fetched[i]
      <4>1. i \in 1..(PageSize - 1 + 1) /\ 1 + i - 1 = i
        BY <3>1
      <4>. QED  BY <2>3, <4>1
    <3>. QED  BY <2>3, <3>1, <3>2
  <2>5. IsRows(page)
    BY <1>1, <1>4, <1>5, <2>1, CutRows DEF page
  <2>. HIDE DEF page
  <2>6. ASSUME NEW i \in 1..PageSize  PROVE start + i <= n /\ page[i] = rows[start + i]
    <3>1. i \in 1..m /\ n > start + PageSize
      BY <1>1, <1>4, <1>6, <1>8, <2>1
    <3>. QED  BY <1>1, <1>4, <2>4, <3>1
  <2>7. PageSize \in 0..PageSize
    BY <1>1
  <2>8. IsCut(page, HasNext(fetched), rows, start, PageSize)
    BY <1>6, <2>4, <2>5, <2>6 DEF IsCut, n
  <2>. QED  BY <2>7, <2>8 DEF page, fetched
<1>9. CASE ~HasNext(fetched)
  <2>1. page = fetched /\ m \in 0..PageSize
    BY <1>1, <1>4, <1>9 DEF PageRows, HasNext
  <2>2. until = n
    BY <1>1, <1>2, <1>6, <1>9
  <2>3. start + m >= n /\ \A i \in 1..m : start + i <= n
    BY <1>1, <1>4, <1>7, <2>2
  <2>. HIDE DEF page
  <2>4. IsCut(page, HasNext(fetched), rows, start, m)
    BY <1>4, <1>5, <1>6, <2>1, <2>3 DEF IsCut, n
  <2>. QED  BY <2>1, <2>4 DEF page, fetched
<1>. QED  BY <1>8, <1>9 DEF fetched

\* table_page and query read the page they are asked for.
LEMMA FetchedPage ==
  ASSUME NEW table, NEW filters, NEW page \in Nat
  PROVE  LET fetched == Fetched(table, filters, page)
         IN  /\ IsPage(Kept(table, filters), page * PageSize, PageRows(fetched), HasNext(fetched))
             /\ IsRows(PageRows(fetched)) /\ Len(PageRows(fetched)) <= PageSize
<1>. DEFINE rows == Matching(table, filters)
            all == Kept(table, filters)
            n == Len(rows)
            start == page * PageSize
            fetched == Fetched(table, filters, page)
            shown == PageRows(fetched)
<1>1. /\ n \in Nat /\ IsRows(rows)
      /\ \A i \in 1..n : rows[i] \in all /\ Below(rows[i], all) = i - 1
      /\ \A r \in all : Below(r, all) \in 0..(n - 1) /\ r = rows[Below(r, all) + 1]
  BY MatchingInOrder
<1>2. start \in Nat /\ PageSize \in Nat \ {0}
  BY SessionViewAssumption
<1>3. fetched = LimitOffset(rows, PageSize + 1, start)
  BY DEF Fetched
<1>. HIDE DEF rows, all, start, fetched
<1>4. PICK m \in 0..PageSize :
        /\ IsRows(shown) /\ Len(shown) = m
        /\ \A i \in 1..m : start + i <= n /\ shown[i] = rows[start + i]
        /\ m = PageSize \/ start + m >= n
        /\ HasNext(fetched) <=> n > start + PageSize
  BY <1>1, <1>2, <1>3, PageCut DEF IsCut
<1>5. DOMAIN shown = 1..m
  BY <1>4, SequenceLength DEF IsRows
<1>. HIDE DEF n, shown
<1>6. ASSUME NEW i \in 1..m
      PROVE  shown[i] \in all /\ Below(shown[i], all) = start + i - 1
  <2>1. start + i \in 1..n /\ shown[i] = rows[start + i]
    BY <1>1, <1>2, <1>4
  <2>2. PICK j \in 1..n : j = start + i /\ shown[i] = rows[j]
    BY <2>1
  <2>3. shown[i] \in all /\ Below(shown[i], all) = j - 1
    BY <1>1, <2>2
  <2>4. j - 1 = start + i - 1
    BY <1>2, <2>2
  <2>. QED  BY <2>3, <2>4
<1>7. ASSUME NEW r \in all, Below(r, all) \in start..(start + PageSize - 1)
      PROVE  \E i \in 1..m : r = shown[i]
  <2>. DEFINE i == Below(r, all) - start + 1
  <2>1. Below(r, all) \in 0..(n - 1) /\ r = rows[Below(r, all) + 1]
    BY <1>1
  <2>2. i \in 1..m /\ start + i = Below(r, all) + 1
    BY <1>1, <1>2, <1>4, <1>7, <2>1
  <2>. QED  BY <1>4, <2>1, <2>2
<1>8. ToSet(shown) = {r \in all : Below(r, all) \in start..(start + PageSize - 1)}
  <2>1. ToSet(shown) = {shown[i] : i \in 1..m}
    BY <1>5 DEF ToSet
  <2>2. \A i \in 1..m : start + i - 1 \in start..(start + PageSize - 1)
    BY <1>2
  <2>. QED  BY <1>6, <1>7, <2>1, <2>2
<1>9. HasNext(fetched) <=> \E r \in all : Below(r, all) >= start + PageSize
  <2>1. ASSUME n > start + PageSize
        PROVE  \E r \in all : Below(r, all) >= start + PageSize
    <3>1. PICK j \in 1..n : j = start + PageSize + 1
      BY <1>1, <1>2, <2>1
    <3>2. rows[j] \in all /\ Below(rows[j], all) = j - 1
      BY <1>1
    <3>3. j - 1 >= start + PageSize
      BY <1>2, <3>1
    <3>. QED  BY <3>2, <3>3
  <2>2. ASSUME NEW r \in all, Below(r, all) >= start + PageSize
        PROVE  n > start + PageSize
    BY <1>1, <1>2, <2>2
  <2>. QED  BY <1>4, <2>1, <2>2
<1>10. IsPage(all, start, shown, HasNext(fetched))
  BY <1>5, <1>6, <1>8, <1>9 DEF IsPage
<1>11. Len(shown) <= PageSize
  BY <1>2, <1>4
<1>. QED  BY <1>4, <1>10, <1>11 DEF all, start, fetched, shown

\* The first page of rows that are there is not empty.
LEMMA FirstPage ==
  ASSUME NEW table, NEW filters, NEW rows, NEW has_next,
         IsPage(Kept(table, filters), 0, rows, has_next)
  PROVE  rows = <<>> <=> \A r \in Rows(table) : ~Passes(r, filters)
<1>. DEFINE all == Kept(table, filters)
            n == Cardinality(Keeping(table, filters))
            sorted == Matching(table, filters)
<1>1. /\ n \in Nat
      /\ \A i \in 1..n : sorted[i] \in all /\ Below(sorted[i], all) = i - 1
      /\ \A r \in all : Below(r, all) \in 0..(n - 1)
  BY MatchingInOrder
<1>2. /\ ToSet(rows) = {r \in all : Below(r, all) \in 0..(0 + PageSize - 1)}
      /\ PageSize \in Nat \ {0}
  BY SessionViewAssumption DEF IsPage
<1>3. (\A r \in Rows(table) : ~Passes(r, filters)) <=> all = {}
  BY DEF Kept
<1>. HIDE DEF all, n, sorted
<1>4. ASSUME all # {}  PROVE rows # <<>>
  <2>1. 1 \in 1..n
    BY <1>1, <1>4
  <2>2. sorted[1] \in all /\ Below(sorted[1], all) = 0
    BY <1>1, <2>1
  <2>3. 0 \in 0..(0 + PageSize - 1)
    BY <1>2
  <2>4. sorted[1] \in ToSet(rows)
    BY <1>2, <2>2, <2>3
  <2>. QED  BY <2>4 DEF ToSet
<1>5. ASSUME all = {}  PROVE rows = <<>>
  <2>1. ToSet(rows) = {}
    BY <1>2, <1>5
  <2>2. \A i \in DOMAIN rows : FALSE
    BY <2>1 DEF ToSet
  <2>. QED  BY <2>2
<1>. QED  BY <1>3, <1>4, <1>5

-----------------------------------------------------------------------------
(* The types.                                                              *)

\* The Tables, and the Table a Tab reads when it can.
TypedDb(d) == d \in [Table -> [Key -> DB!Slot] \cup {Dropped}]
ReadsTable(tab) ==
  IF tab.kind = "query" THEN tab.sql = Empty \/ tab.sql.table \in Table ELSE tab.table \in Table
TypedTab(tab) == ReadsTable(tab) /\ (IsGridTab(tab) => GridType(tab.grid))

\* The rows of a page of a typed Table are typed.
LEMMA PageTyped ==
  ASSUME NEW table \in [Key -> DB!Slot], NEW filters, NEW page \in Nat
  PROVE  LET rows == PageRows(Fetched(table, filters, page))
         IN  /\ \A i \in DOMAIN rows : rows[i] \in [key : Key, val : Cell]
             /\ Len(rows) \in 0..PageSize /\ DOMAIN rows = 1..Len(rows)
<1>. DEFINE rows == PageRows(Fetched(table, filters, page))
<1>1. /\ IsPage(Kept(table, filters), page * PageSize, rows, HasNext(Fetched(table, filters, page)))
      /\ IsRows(rows) /\ Len(rows) <= PageSize
  BY FetchedPage
<1>2. PageSize \in Nat
  BY SessionViewAssumption
<1>. HIDE DEF rows
<1>3. Len(rows) \in 0..PageSize /\ DOMAIN rows = 1..Len(rows)
  BY <1>1, <1>2, SequenceLength DEF IsRows
<1>4. ASSUME NEW i \in DOMAIN rows  PROVE rows[i] \in [key : Key, val : Cell]
  <2>1. rows[i] \in Kept(table, filters)
    BY <1>1 DEF IsPage, ToSet
  <2>2. PICK k \in Key : table[k] # Absent /\ rows[i] = [key |-> k, val |-> table[k].val]
    BY <2>1 DEF Kept, Rows
  <2>3. table[k] \in [{"val"} -> Cell]
    BY <2>2 DEF DB!Slot, DB!Row
  <2>4. table[k].val \in Cell
    BY <2>3
  <2>. QED  BY <2>2, <2>4
<1>. QED  BY <1>3, <1>4 DEF rows

-----------------------------------------------------------------------------
(* One reload.                                                             *)

FiltersOf(tab) == IF tab.kind = "table" THEN tab.filters ELSE <<>>
Answer(d, tab) == Fetched(d[Reads(tab)], FiltersOf(tab), tab.page)

\* What a reload leaves of a Tab with a grid, and what it shows.
LEMMA ReloadedFields ==
  ASSUME NEW d, NEW tab, IsTab(tab), IsGridTab(tab)
  PROVE  LET new == Reloaded(d, tab)
         IN  /\ new.kind = tab.kind /\ new.page = tab.page /\ View(new) = View(tab)
             /\ tab.kind = "table" => new.table = tab.table /\ new.filters = tab.filters
             /\ tab.kind = "query" => new.sql = tab.sql
             /\ \E editable \in BOOLEAN : \E source :
                  new.grid = FromPage(new.grid.rows, editable, source)
             /\ CanRead(d, tab) => /\ new.grid.rows = PageRows(Answer(d, tab))
                                   /\ new.has_next = HasNext(Answer(d, tab))
             /\ ~CanRead(d, tab) => /\ new.grid.rows = <<>> /\ ~new.grid.editable
                                    /\ ~new.has_next
<1>. DEFINE on == IF tab.kind = "query" /\ tab.sql.do = "one" THEN StagedOn(Reads(tab)) ELSE ReadOnly
            rows == PageRows(Answer(d, tab))
            grid == FromPage(rows, tab.kind = "table" \/ on.staged, Reads(tab))
            none == FromPage(<<>>, FALSE, "none")
            next == HasNext(Answer(d, tab))
            new == Reloaded(d, tab)
<1>1. /\ grid.rows = rows /\ none.rows = <<>> /\ none.editable = FALSE
      /\ \E editable \in BOOLEAN : \E source : grid = FromPage(grid.rows, editable, source)
      /\ \E editable \in BOOLEAN : \E source : none = FromPage(none.rows, editable, source)
  <2>1. grid.rows = rows /\ none.rows = <<>> /\ none.editable = FALSE
    BY DEF FromPage
  <2>2. (tab.kind = "table" \/ on.staged) \in BOOLEAN /\ FALSE \in BOOLEAN
    OBVIOUS
  <2>3. grid = FromPage(grid.rows, tab.kind = "table" \/ on.staged, Reads(tab))
    BY <2>1
  <2>4. none = FromPage(none.rows, FALSE, "none")
    BY <2>1
  <2>. HIDE DEF grid, none
  <2>. QED  BY <2>1, <2>2, <2>3, <2>4
<1>2. /\ ~CanRead(d, tab) => new = [tab EXCEPT !.has_next = FALSE, !.grid = none]
      /\ (tab.kind = "table" /\ CanRead(d, tab)) =>
           new = [tab EXCEPT !.has_next = next, !.grid = grid]
      /\ (tab.kind = "query" /\ CanRead(d, tab)) =>
           new = [tab EXCEPT !.has_next = next, !.grid = grid, !.staging = on]
  BY DEF Reloaded, ShowPage, Answer, FiltersOf, IsTab, IsTableTab, IsQueryTab, IsStructureTab,
     IsGridTab
<1>. HIDE DEF on, rows, grid, none, next, new
<1>3. CASE IsTableTab(tab)
  <2>1. CASE CanRead(d, tab)
    <3>1. new = [kind |-> tab.kind, id |-> tab.id, table |-> tab.table, filters |-> tab.filters,
                 page |-> tab.page, has_next |-> next, grid |-> grid]
      BY <1>2, <1>3, <2>1 DEF IsTableTab
    <3>2. new.grid = grid
      BY <3>1
    <3>. QED  BY <1>1, <1>3, <2>1, <3>1, <3>2 DEF IsTableTab, View, new, rows, next
  <2>2. CASE ~CanRead(d, tab)
    <3>1. new = [kind |-> tab.kind, id |-> tab.id, table |-> tab.table, filters |-> tab.filters,
                 page |-> tab.page, has_next |-> FALSE, grid |-> none]
      BY <1>2, <1>3, <2>2 DEF IsTableTab
    <3>2. /\ new.has_next = FALSE /\ new.grid = none
          /\ new.grid.editable = FALSE /\ new.grid.rows = <<>>
      BY <1>1, <3>1
    <3>3. ~new.has_next /\ ~new.grid.editable
      BY <3>2
    <3>4. /\ tab.kind = "table" /\ new.table = tab.table /\ new.filters = tab.filters
          /\ new.kind = tab.kind /\ new.page = tab.page
      BY <1>3, <3>1 DEF IsTableTab
    <3>5. View(new) = View(tab)
      BY <3>4 DEF View
    <3>. QED  BY <1>1, <2>2, <3>2, <3>3, <3>4, <3>5 DEF new
  <2>. QED  BY <2>1, <2>2
<1>4. CASE IsQueryTab(tab)
  <2>1. CASE CanRead(d, tab)
    <3>1. new = [kind |-> tab.kind, id |-> tab.id, sql |-> tab.sql, staging |-> on,
                 page |-> tab.page, has_next |-> next, grid |-> grid]
      BY <1>2, <1>4, <2>1 DEF IsQueryTab
    <3>2. new.grid = grid
      BY <3>1
    <3>. QED  BY <1>1, <1>4, <2>1, <3>1, <3>2 DEF IsQueryTab, View, new, rows, next
  <2>2. CASE ~CanRead(d, tab)
    <3>1. new = [kind |-> tab.kind, id |-> tab.id, sql |-> tab.sql, staging |-> tab.staging,
                 page |-> tab.page, has_next |-> FALSE, grid |-> none]
      BY <1>2, <1>4, <2>2 DEF IsQueryTab
    <3>2. /\ new.has_next = FALSE /\ new.grid = none
          /\ new.grid.editable = FALSE /\ new.grid.rows = <<>>
      BY <1>1, <3>1
    <3>3. ~new.has_next /\ ~new.grid.editable
      BY <3>2
    <3>4. /\ tab.kind = "query" /\ new.sql = tab.sql
          /\ new.kind = tab.kind /\ new.page = tab.page
      BY <1>4, <3>1 DEF IsQueryTab
    <3>5. View(new) = View(tab)
      BY <3>4 DEF View
    <3>. QED  BY <1>1, <2>2, <3>2, <3>3, <3>4, <3>5 DEF new
  <2>. QED  BY <2>1, <2>2
<1>5. ~IsStructureTab(tab)
  BY DEF IsStructureTab, IsGridTab
<1>. QED  BY <1>3, <1>4, <1>5 DEF IsTab

\* A Tab that is reloaded shows its page of what the Database has.
LEMMA ReloadedShows ==
  ASSUME NEW d, NEW tab, IsTab(tab), IsGridTab(tab)
  PROVE  ShowsPage(d, Reloaded(d, tab))
<1>. DEFINE new == Reloaded(d, tab)
            answer == Answer(d, tab)
            table == d[Reads(tab)]
            filters == FiltersOf(tab)
<1>1. /\ new.kind = tab.kind /\ new.page = tab.page
      /\ tab.kind = "table" => new.table = tab.table /\ new.filters = tab.filters
      /\ tab.kind = "query" => new.sql = tab.sql
      /\ CanRead(d, tab) => /\ new.grid.rows = PageRows(answer)
                            /\ new.has_next = HasNext(answer)
      /\ ~CanRead(d, tab) => new.grid.rows = <<>> /\ ~new.grid.editable /\ ~new.has_next
  BY ReloadedFields
<1>2. tab.kind \in {"table", "query"} /\ tab.page \in Nat
  BY DEF IsTab, IsTableTab, IsQueryTab, IsStructureTab, IsGridTab
<1>3. IsPage(Kept(table, filters), tab.page * PageSize, PageRows(answer), HasNext(answer))
  <2>. HIDE DEF table, filters
  <2>. QED  BY <1>2, FetchedPage DEF Answer, table, filters
<1>. HIDE DEF new, answer
<1>4. Reads(new) = Reads(tab) /\ CanRead(d, new) = CanRead(d, tab)
  BY <1>1, <1>2 DEF Reads, CanRead
<1>5. Shows(d, new) = Kept(table, filters)
  <2>1. CASE tab.kind = "table"
    BY <1>1, <1>4, <2>1 DEF Shows, Kept, FiltersOf
  <2>2. CASE tab.kind = "query"
    <3>1. \A r : Passes(r, <<>>)
      BY DEF Passes, ToSet
    <3>2. filters = <<>> /\ new.kind # "table"
      BY <1>1, <2>2 DEF FiltersOf
    <3>. QED  BY <1>4, <3>1, <3>2 DEF Shows, Kept
  <2>. QED  BY <1>2, <2>1, <2>2
<1>. HIDE DEF table, filters
<1>. QED  BY <1>1, <1>3, <1>4, <1>5 DEF ShowsPage, new

\* A Tab that is reloaded from typed Tables is typed, whatever it showed.
LEMMA ReloadedTyped ==
  ASSUME NEW d, TypedDb(d), NEW tab, IsTab(tab), ReadsTable(tab)
  PROVE  TypedTab(Reloaded(d, tab))
<1>. DEFINE new == Reloaded(d, tab)
<1>1. CASE ~IsGridTab(tab)
  <2>1. new = tab
    BY <1>1 DEF Reloaded, IsGridTab
  <2>. QED  BY <1>1, <2>1 DEF TypedTab
<1>2. CASE IsGridTab(tab)
  <2>1. /\ new.kind = tab.kind
        /\ tab.kind = "table" => new.table = tab.table
        /\ tab.kind = "query" => new.sql = tab.sql
        /\ CanRead(d, tab) => new.grid.rows = PageRows(Answer(d, tab))
        /\ ~CanRead(d, tab) => new.grid.rows = <<>>
    BY <1>2, ReloadedFields
  <2>2. PICK editable \in BOOLEAN :
          \E source : new.grid = FromPage(new.grid.rows, editable, source)
    BY <1>2, ReloadedFields
  <2>3. tab.kind \in {"table", "query"} /\ tab.page \in Nat /\ PageSize \in Nat
    BY <1>2, SessionViewAssumption DEF IsTab, IsTableTab, IsQueryTab, IsStructureTab, IsGridTab
  <2>. HIDE DEF new
  <2>4. ReadsTable(new)
    BY <2>1, <2>3 DEF ReadsTable
  <2>. DEFINE rows == new.grid.rows
  <2>5. /\ \A i \in DOMAIN rows : rows[i] \in [key : Key, val : Cell]
        /\ Len(rows) \in 0..PageSize
    <3>1. CASE CanRead(d, tab)
      <4>1. d[Reads(tab)] \in [Key -> DB!Slot]
        BY <2>3, <3>1 DEF CanRead, Reads, ReadsTable, TypedDb
      <4>. QED  BY <2>1, <2>3, <3>1, <4>1, PageTyped DEF Answer
    <3>2. CASE ~CanRead(d, tab)
      BY <2>1, <2>3, <3>2
    <3>. QED  BY <3>1, <3>2
  <2>6. GridType(new.grid)
    <3>. DEFINE g == new.grid
    <3>. HIDE DEF rows
    <3>1. /\ g.rows = rows /\ g.editable = editable /\ g.shown = TRUE
          /\ g.selected = 0 /\ g.editing = 0 /\ g.pending_insert = NoDraft
      BY <2>2 DEF FromPage, rows
    <3>2. 0 \in 0..(Len(rows) + 1) /\ Len(rows) <= PageSize
      BY <2>3, <2>5
    <3>. HIDE DEF g
    <3>3. GridType(g)
      BY <2>5, <3>1, <3>2 DEF GridType
    <3>. QED  BY <3>3 DEF g
  <2>. QED  BY <2>4, <2>6 DEF TypedTab, new
<1>. QED  BY <1>1, <1>2

-----------------------------------------------------------------------------
(* What a step does to the pages of the Tabs.                              *)

\* The bounds of a behaviour.
LimitFits ==
  /\ TypedDb(Limit.db)
  /\ Limit.keys \subseteq Key /\ Limit.sql \subseteq SqlText

LEMMA BoundFits ==
  ASSUME bound \in DOMAIN Bounds
  PROVE  LimitFits
<1>1. Limit \in Bound
  BY SessionViewAssumption, ElementOfSeq, LenProperties DEF Limit
<1>. QED  BY <1>1, SessionViewAssumption DEF LimitFits, Bound, TypedDb

\* No Tab is on another page, filtered or run.
KeepsViews ==
  /\ Len(tabs') = Len(tabs)
  /\ \A i \in 1..Len(tabs) :
       tabs'[i].kind = tabs[i].kind /\ View(tabs'[i]) = View(tabs[i])

\* One is, and it is reloaded; other Filters are looked at from their first page.
TurnsOne ==
  /\ HasActive /\ db' = db
  /\ \E tab :
       /\ IsTab(tab) /\ IsGridTab(tab) /\ tab.kind = Active.kind
       /\ tab.kind = "table" => tab.filters = Active.filters \/ tab.page = 0
       /\ ReadsTable(Active) => ReadsTable(tab)
       /\ tabs' = [tabs EXCEPT ![active_tab] = Reloaded(db, tab)]

\* One is opened, and shows its page or no grid.
OpensOne ==
  \E tab : /\ tabs' = Append(tabs, tab)
           /\ (IsGridTab(tab) /\ tab.grid.shown) => ShowsPage(db', tab)
           /\ TypedDb(db) => TypedTab(tab)

ClosesOne == Len(tabs') < Len(tabs)

\* The active Tab is the one whose page, Filters or SQL a step changes.
LEMMA TurningSteps ==
  ASSUME TabsInv, LimitFits,
         \/ NextPage \/ PrevPage
         \/ \E cells \in Filter : AddFilter(cells)
         \/ HasActive /\ Active.kind = "table" /\ \E i \in DOMAIN Active.filters : RemoveFilter(i)
         \/ \E sql \in Limit.sql : RunQuery(sql)
  PROVE  TurnsOne
<1>1. HasActive => IsTab(Active)
  BY DEF TabsInv, HasActive, Active
<1>2. ASSUME NEW n \in Nat, HasActive, IsGridTab(Active),
             ReloadActive([Active EXCEPT !.page = n])
      PROVE  TurnsOne
  <2>. DEFINE tab == [Active EXCEPT !.page = n]
  <2>1. IsTab(tab) /\ tab.kind = Active.kind
    BY <1>1, <1>2, TabTurned
  <2>2. tab.kind = "table" => tab.filters = Active.filters
    <3>1. ASSUME tab.kind = "table"  PROVE IsTableTab(Active)
      BY <1>1, <1>2, <2>1, <3>1 DEF IsTab, IsQueryTab, IsStructureTab
    <3>. QED  BY <3>1 DEF IsTableTab
  <2>3. tabs' = [tabs EXCEPT ![active_tab] = Reloaded(db, tab)] /\ db' = db
    BY <1>2 DEF ReloadActive
  <2>4. ReadsTable(Active) => ReadsTable(tab)
    <3>1. CASE IsTableTab(Active)
      <4>1. tab.kind = Active.kind /\ tab.table = Active.table /\ Active.kind = "table"
        BY <3>1 DEF IsTableTab
      <4>. HIDE DEF tab
      <4>. QED  BY <4>1 DEF ReadsTable
    <3>2. CASE IsQueryTab(Active)
      <4>1. tab.kind = Active.kind /\ tab.sql = Active.sql /\ Active.kind = "query"
        BY <3>2 DEF IsQueryTab
      <4>. HIDE DEF tab
      <4>. QED  BY <4>1 DEF ReadsTable
    <3>. QED  BY <1>1, <1>2, <3>1, <3>2 DEF IsTab, IsStructureTab, IsGridTab
  <2>. HIDE DEF tab
  <2>. QED  BY <1>2, <2>1, <2>2, <2>3, <2>4 DEF TurnsOne, IsGridTab
<1>3. ASSUME HasActive, IsGridTab(Active)  PROVE Active.page \in Nat
  BY <1>1, <1>3 DEF IsTab, IsTableTab, IsQueryTab, IsStructureTab, IsGridTab
<1>4. CASE NextPage
  <2>1. HasActive /\ IsGridTab(Active) /\ ReloadActive([Active EXCEPT !.page = Active.page + 1])
    BY <1>4 DEF NextPage
  <2>2. Active.page + 1 \in Nat
    BY <1>3, <2>1
  <2>. QED  BY <1>2, <2>1, <2>2
<1>5. CASE PrevPage
  <2>1. HasActive /\ IsGridTab(Active) /\ Active.page > 0
        /\ ReloadActive([Active EXCEPT !.page = Active.page - 1])
    BY <1>5 DEF PrevPage
  <2>2. Active.page - 1 \in Nat
    BY <1>3, <2>1
  <2>. QED  BY <1>2, <2>1, <2>2
<1>6. ASSUME NEW filters, HasActive, Active.kind = "table",
             ReloadActive(Filtered(Active, filters))
      PROVE  TurnsOne
  <2>. DEFINE tab == Filtered(Active, filters)
  <2>1. IsTableTab(Active)
    BY <1>1, <1>6 DEF IsTab, IsTableTab, IsQueryTab, IsStructureTab
  <2>2. IsTab(tab) /\ tab.kind = Active.kind
    BY <2>1, TabFiltered
  <2>3. tab.page = 0 /\ tab.table = Active.table
    <3>1. Active = [kind |-> Active.kind, id |-> Active.id, table |-> Active.table,
                    filters |-> Active.filters, page |-> Active.page,
                    has_next |-> Active.has_next, grid |-> Active.grid]
      BY <2>1 DEF IsTableTab
    <3>2. tab = [[Active EXCEPT !.filters = filters] EXCEPT !.page = 0]
      BY DEF Filtered
    <3>3. "page" \in DOMAIN [Active EXCEPT !.filters = filters]
      BY <3>1
    <3>4. tab.table = Active.table
      BY <3>1, <3>2
    <3>. QED  BY <3>2, <3>3, <3>4
  <2>4. tabs' = [tabs EXCEPT ![active_tab] = Reloaded(db, tab)] /\ db' = db
    BY <1>6 DEF ReloadActive
  <2>. HIDE DEF tab
  <2>. QED  BY <1>6, <2>2, <2>3, <2>4 DEF TurnsOne, IsGridTab, ReadsTable
<1>7. ASSUME NEW cells, AddFilter(cells)  PROVE TurnsOne
  <2>1. ActiveIs("table")
    BY <1>7 DEF AddFilter, TabsInv, DialogFits
  <2>. QED  BY <1>6, <1>7, <2>1 DEF AddFilter, ActiveIs
<1>8. ASSUME HasActive, Active.kind = "table", NEW i, RemoveFilter(i)  PROVE TurnsOne
  BY <1>6, <1>8 DEF RemoveFilter
<1>9. ASSUME NEW sql \in Limit.sql, RunQuery(sql)  PROVE TurnsOne
  <2>. DEFINE tab == RunTab(Active, sql)
  <2>1. HasActive /\ IsQueryTab(Active)
    BY <1>1, <1>9 DEF RunQuery, ActiveIs, IsTab, IsTableTab, IsQueryTab, IsStructureTab
  <2>2. IsTab(tab) /\ tab.kind = Active.kind
    BY <2>1, TabRun
  <2>3. tabs' = [tabs EXCEPT ![active_tab] = Reloaded(db, tab)] /\ db' = db
    BY <1>9 DEF RunQuery, ReloadActive
  <2>4. tab.kind = "query" /\ tab.sql = sql
    BY <2>1, <2>2 DEF IsQueryTab, RunTab
  <2>5. sql.table \in Table
    BY <1>9 DEF RunQuery, LimitFits, SqlText
  <2>. HIDE DEF tab
  <2>. QED  BY <2>1, <2>2, <2>3, <2>4, <2>5 DEF TurnsOne, IsGridTab, ReadsTable
<1>. QED  BY <1>4, <1>5, <1>7, <1>8, <1>9

\* Another grid, whatever is in it, leaves the Tab on its page.
LEMMA GridKeepsViews ==
  ASSUME TabsInv, Grid.shown, NEW g, tabs' = WithGrid(g)
  PROVE  /\ KeepsViews
         /\ \A i \in 1..Len(tabs) : (TypedTab(tabs[i]) /\ GridType(g)) => TypedTab(tabs'[i])
<1>1. HasActive /\ IsTab(Active) /\ IsGridTab(Active)
  BY ShownGrid
<1>2. /\ IsSequence(tabs) /\ active_tab \in DOMAIN tabs /\ DOMAIN tabs = 1..Len(tabs)
      /\ Active = tabs[active_tab]
  BY <1>1, SequenceLength DEF TabsInv, HasActive, Active
<1>. DEFINE new == [Active EXCEPT !.grid = g]
<1>3. /\ new.kind = Active.kind /\ View(new) = View(Active) /\ new.grid = g
      /\ ReadsTable(Active) => ReadsTable(new)
  <2>1. CASE IsTableTab(Active)
    <3>1. new = [kind |-> Active.kind, id |-> Active.id, table |-> Active.table,
                 filters |-> Active.filters, page |-> Active.page,
                 has_next |-> Active.has_next, grid |-> g]
      BY <2>1 DEF IsTableTab
    <3>. QED  BY <2>1, <3>1 DEF IsTableTab, View, ReadsTable
  <2>2. CASE IsQueryTab(Active)
    <3>1. new = [kind |-> Active.kind, id |-> Active.id, sql |-> Active.sql,
                 staging |-> Active.staging, page |-> Active.page,
                 has_next |-> Active.has_next, grid |-> g]
      BY <2>2 DEF IsQueryTab
    <3>. QED  BY <2>2, <3>1 DEF IsQueryTab, View, ReadsTable
  <2>. QED  BY <1>1, <2>1, <2>2 DEF IsTab, IsStructureTab, IsGridTab
<1>4. tabs' = [tabs EXCEPT ![active_tab] = new]
  BY <1>2 DEF WithGrid
<1>. HIDE DEF new
<1>5. /\ Len(tabs') = Len(tabs) /\ tabs'[active_tab] = new
      /\ \A i \in 1..Len(tabs) : i # active_tab => tabs'[i] = tabs[i]
  BY <1>2, <1>4, SequenceExcept
<1>6. KeepsViews
  BY <1>2, <1>3, <1>5 DEF KeepsViews
<1>7. ASSUME NEW i \in 1..Len(tabs), TypedTab(tabs[i]), GridType(g)  PROVE TypedTab(tabs'[i])
  BY <1>2, <1>3, <1>5, <1>7 DEF TypedTab, IsGridTab
<1>. QED  BY <1>6, <1>7

\* A write of this window reads every grid again.
LEMMA WroteShows ==
  ASSUME TabsInv, NEW d, Wrote(d)
  PROVE  /\ KeepsViews
         /\ \A i \in 1..Len(tabs') : IsGridTab(tabs'[i]) => ShowsPage(db', tabs'[i])
<1>1. /\ Len(tabs) \in Nat /\ DOMAIN tabs = 1..Len(tabs)
      /\ \A i \in 1..Len(tabs) : IsTab(tabs[i])
  BY SequenceLength DEF TabsInv
<1>2. /\ tabs' = [i \in 1..Len(tabs) |-> Reloaded(d, tabs[i])] /\ db' = d
      /\ tabs' = ReloadAllGrids(d)
  BY <1>1 DEF Wrote, ReloadAllGrids
<1>3. Len(tabs') = Len(tabs)
  BY <1>2, TabsReloaded DEF SameTabs
<1>4. ASSUME NEW i \in 1..Len(tabs), IsGridTab(tabs[i])
      PROVE  /\ tabs'[i].kind = tabs[i].kind /\ View(tabs'[i]) = View(tabs[i])
             /\ ShowsPage(db', tabs'[i])
  <2>1. tabs'[i] = Reloaded(d, tabs[i]) /\ IsTab(tabs[i])
    BY <1>1, <1>2
  <2>2. /\ Reloaded(d, tabs[i]).kind = tabs[i].kind
        /\ View(Reloaded(d, tabs[i])) = View(tabs[i])
    BY <1>4, <2>1, ReloadedFields
  <2>3. ShowsPage(d, Reloaded(d, tabs[i]))
    BY <1>4, <2>1, ReloadedShows
  <2>. QED  BY <1>2, <2>1, <2>2, <2>3
<1>5. ASSUME NEW i \in 1..Len(tabs), ~IsGridTab(tabs[i])
      PROVE  tabs'[i] = tabs[i]
  <2>1. Reloaded(d, tabs[i]) = tabs[i]
    BY <1>5 DEF Reloaded, IsGridTab
  <2>. QED  BY <1>2, <2>1
<1>6. KeepsViews
  BY <1>3, <1>4, <1>5 DEF KeepsViews
<1>. QED  BY <1>3, <1>4, <1>5, <1>6

\* Opening a Tab.
LEMMA OpeningSteps ==
  ASSUME (\E t \in Table : AddTableTab(t) \/ AddStructureTab(t)) \/ AddQueryTab
  PROVE  OpensOne
<1>1. ASSUME NEW tab, IsTab(tab), ReadsTable(tab), PushTab(tab)  PROVE OpensOne
  <2>1. tabs' = Append(tabs, Reloaded(db, tab)) /\ db' = db
    BY <1>1 DEF PushTab
  <2>2. IsGridTab(Reloaded(db, tab)) => IsGridTab(tab)
    BY <1>1, ReloadedTab DEF IsGridTab
  <2>3. IsGridTab(tab) => ShowsPage(db, Reloaded(db, tab))
    BY <1>1, ReloadedShows
  <2>4. TypedDb(db) => TypedTab(Reloaded(db, tab))
    BY <1>1, ReloadedTyped
  <2>. QED  BY <2>1, <2>2, <2>3, <2>4 DEF OpensOne
<1>2. ASSUME NEW t \in Table, AddTableTab(t)  PROVE OpensOne
  <2>1. PICK first \in Nat : first = 0
    OBVIOUS
  <2>. DEFINE tab == [kind |-> "table", id |-> next_tab_id, table |-> t, filters |-> <<>>,
                      page |-> first, has_next |-> FALSE, grid |-> NoGrid]
  <2>2. PushTab(tab)
    BY <1>2, <2>1 DEF AddTableTab
  <2>3. IsTab(tab) /\ ReadsTable(tab)
    BY BlankGrids DEF IsTab, IsTableTab, From, ReadsTable
  <2>. HIDE DEF tab
  <2>. QED  BY <1>1, <2>2, <2>3
<1>3. ASSUME NEW t \in Table, AddStructureTab(t)  PROVE OpensOne
  <2>. DEFINE tab == [kind |-> "structure", id |-> next_tab_id, table |-> t]
  <2>1. PushTab(tab)
    BY <1>3 DEF AddStructureTab
  <2>2. IsTab(tab) /\ ReadsTable(tab)
    BY DEF IsTab, IsStructureTab, ReadsTable
  <2>. HIDE DEF tab
  <2>. QED  BY <1>1, <2>1, <2>2
<1>4. ASSUME AddQueryTab  PROVE OpensOne
  <2>. DEFINE tab == [kind |-> "query", id |-> next_tab_id, sql |-> Empty,
                      staging |-> ReadOnly, page |-> 0, has_next |-> FALSE, grid |-> NoGrid]
  <2>1. tabs' = Append(tabs, tab)
    BY <1>4 DEF AddQueryTab
  <2>2. tab.grid = NoGrid /\ NoGrid.shown = FALSE
    BY DEF NoGrid, FromPage
  <2>3. GridType(NoGrid)
    <3>1. /\ NoGrid.rows = <<>> /\ NoGrid.editable = FALSE /\ NoGrid.selected = 0
          /\ NoGrid.editing = 0 /\ NoGrid.pending_insert = NoDraft
      BY BlankGrids DEF NoGrid, FromPage
    <3>2. Len(<<>>) = 0 /\ DOMAIN <<>> = {} /\ 0 \in 0..(0 + 1) /\ 0 <= PageSize
      BY SessionViewAssumption
    <3>. QED  BY <2>2, <3>1, <3>2 DEF GridType
  <2>4. TypedTab(tab)
    BY <2>3 DEF TypedTab, ReadsTable
  <2>. HIDE DEF tab
  <2>. QED  BY <2>1, <2>2, <2>4 DEF OpensOne
<1>. QED  BY <1>2, <1>3, <1>4

\* Clicks, the input and the buttons below the grid change the active grid.
GridSteps ==
  \/ \E r \in 1..RowCount(Grid) : SelectRow(r) \/ BeginEdit(r)
  \/ CommitCell \/ StartInsertRow \/ StageInsertRow \/ StageDeleteRow

LEMMA EditedGridTyped ==
  ASSUME NEW g, IsGrid(g), GridType(g), NEW selected \in 0..(Len(g.rows) + 1),
         NEW editing \in 0..(Len(g.rows) + 1), NEW draft \in {NoDraft} \cup {Draft(c) : c \in Cell},
         NEW picked
  PROVE  GridType(EditedGrid(g, selected, editing, draft, picked))
<1>. DEFINE new == EditedGrid(g, selected, editing, draft, picked)
<1>1. /\ new.rows = g.rows /\ new.shown = g.shown /\ new.editable = g.editable
      /\ new.selected = selected /\ new.editing = editing /\ new.pending_insert = draft
  BY DEF EditedGrid
<1>. HIDE DEF new
<1>2. GridType(new)
  BY <1>1 DEF GridType
<1>. QED  BY <1>2 DEF new

LEMMA GridStepsTyped ==
  ASSUME TabsInv, GridSteps
  PROVE  /\ Grid.shown
         /\ \/ tabs' = tabs
            \/ \E g : tabs' = WithGrid(g) /\ (GridType(Grid) /\ input \in Cell => GridType(g))
<1>1. Grid.shown /\ (tabs' = tabs \/ \E g : tabs' = WithGrid(g))
  BY DEF GridSteps, SelectRow, BeginEdit, CommitCell, InputIsDrawn, StartInsertRow,
     StageInsertRow, StageDeleteRow
<1>2. IsGrid(Grid)
  BY <1>1, ShownGrid
<1>. DEFINE drafts == {NoDraft} \cup {Draft(c) : c \in Cell}
            n == Len(Grid.rows)
<1>. SUFFICES ASSUME GridType(Grid), input \in Cell, tabs' # tabs
              PROVE  \E g : tabs' = WithGrid(g) /\ GridType(g)
  BY <1>1
<1>3. /\ n \in Nat
      /\ Grid.selected \in 0..(n + 1) /\ Grid.editing \in 0..(n + 1)
      /\ Grid.pending_insert \in drafts /\ NoDraft \in drafts /\ 0 \in 0..(n + 1)
      /\ n + 1 \in 0..(n + 1) /\ \A r \in 1..RowCount(Grid) : r \in 0..(n + 1)
      /\ Draft(input) \in drafts /\ Draft(Null) \in drafts
  <2>1. n \in Nat
    BY <1>2, SequenceLength DEF IsGrid, IsRows
  <2>2. Null \in Cell
    BY DEF Cell
  <2>3. Draft(input) \in drafts /\ Draft(Null) \in drafts /\ NoDraft \in drafts
    BY <2>2
  <2>4. Grid.selected \in 0..(n + 1) /\ Grid.editing \in 0..(n + 1) /\ Grid.pending_insert \in drafts
    BY DEF GridType
  <2>. HIDE DEF drafts
  <2>5. RowCount(Grid) \in 0..(n + 1)
    <3>. DEFINE more == IF Grid.pending_insert.draft THEN 1 ELSE 0
    <3>1. more \in 0..1 /\ RowCount(Grid) = n + more
      BY DEF RowCount
    <3>. HIDE DEF more, n
    <3>. QED  BY <2>1, <3>1
  <2>6. \A r \in 1..RowCount(Grid) : r \in 0..(n + 1)
    <3>. HIDE DEF n
    <3>. QED  BY <2>1, <2>5
  <2>7. 0 \in 0..(n + 1) /\ n + 1 \in 0..(n + 1)
    BY <2>1
  <2>. QED  BY <2>1, <2>3, <2>4, <2>6, <2>7
<1>. HIDE DEF n, drafts
<1>4. ASSUME NEW selected \in 0..(n + 1), NEW editing \in 0..(n + 1), NEW draft \in drafts, NEW picked,
             tabs' = WithGrid(EditedGrid(Grid, selected, editing, draft, picked))
      PROVE  \E g : tabs' = WithGrid(g) /\ GridType(g)
  <2>1. GridType(EditedGrid(Grid, selected, editing, draft, picked))
    BY <1>2, EditedGridTyped DEF n, drafts
  <2>. QED  BY <1>4, <2>1
<1>5. ASSUME NEW r \in 1..RowCount(Grid), SelectRow(r)
      PROVE  \E g : tabs' = WithGrid(g) /\ GridType(g)
  <2>1. tabs' = WithGrid(Selecting(Grid, r, PickedRow(r)))
    BY <1>5 DEF SelectRow, Selecting
  <2>. QED  BY <1>2, <1>3, <1>4, <2>1, GridExcept
<1>6. ASSUME NEW r \in 1..RowCount(Grid), BeginEdit(r)
      PROVE  \E g : tabs' = WithGrid(g) /\ GridType(g)
  <2>1. tabs' = WithGrid(Opening(Grid, r, r, PickedRow(r)))
    BY <1>6 DEF BeginEdit, Opening
  <2>. QED  BY <1>2, <1>3, <1>4, <2>1, GridExcept
<1>7. ASSUME CommitCell  PROVE \E g : tabs' = WithGrid(g) /\ GridType(g)
  <2>. DEFINE closed == EditedGrid(Grid, Grid.selected, 0, Grid.pending_insert, Grid.picked)
  <2>1. Closing(Grid, 0) = closed
    BY <1>2, GridExcept
  <2>2. CASE tabs' = WithGrid(Closing(Grid, 0))
    BY <1>3, <1>4, <2>1, <2>2
  <2>3. CASE tabs' = WithGrid([Closing(Grid, 0) EXCEPT !.pending_insert = Draft(input)])
    <3>1. [closed EXCEPT !.pending_insert = Draft(input)] =
            EditedGrid(Grid, Grid.selected, 0, Draft(input), Grid.picked)
      BY DEF EditedGrid
    <3>. QED  BY <1>3, <1>4, <2>1, <2>3, <3>1
  <2>4. tabs' = WithGrid(Closing(Grid, 0))
        \/ tabs' = WithGrid([Closing(Grid, 0) EXCEPT !.pending_insert = Draft(input)])
    BY <1>7 DEF CommitCell, Closing
  <2>. QED  BY <2>2, <2>3, <2>4
<1>8. ASSUME StartInsertRow  PROVE \E g : tabs' = WithGrid(g) /\ GridType(g)
  <2>1. tabs' = WithGrid(Drafting(Grid, Draft(Null), 0, n + 1, NoDraft))
    BY <1>8 DEF StartInsertRow, Drafting, n
  <2>. QED  BY <1>2, <1>3, <1>4, <2>1, GridExcept
<1>9. ASSUME StageInsertRow  PROVE \E g : tabs' = WithGrid(g) /\ GridType(g)
  <2>1. tabs' = WithGrid(Redrafting(Grid, NoDraft))
    BY <1>9 DEF StageInsertRow, Redrafting
  <2>. QED  BY <1>2, <1>3, <1>4, <2>1, GridExcept
<1>10. ASSUME StageDeleteRow  PROVE \E g : tabs' = WithGrid(g) /\ GridType(g)
  <2>1. tabs' = WithGrid(Undrafting(Grid, NoDraft, 0))
    BY <1>10 DEF StageDeleteRow, Undrafting
  <2>. QED  BY <1>2, <1>3, <1>4, <2>1, GridExcept
<1>. QED  BY <1>5, <1>6, <1>7, <1>8, <1>9, <1>10 DEF GridSteps

LEMMA StepPages ==
  ASSUME TabsInv, bound \in DOMAIN Bounds, [Next]_vars
  PROVE  KeepsViews \/ TurnsOne \/ OpensOne \/ ClosesOne
<1>1. ASSUME tabs' = tabs  PROVE KeepsViews
  BY <1>1 DEF KeepsViews
<1>2. ASSUME Grid.shown, NEW g, tabs' = WithGrid(g)  PROVE KeepsViews
  BY <1>2, GridKeepsViews
<1>3. CASE (\E t \in Table : AddTableTab(t) \/ AddStructureTab(t)) \/ AddQueryTab
  BY <1>3, OpeningSteps
<1>4. ASSUME NEW i \in DOMAIN tabs, CloseTab(i)  PROVE ClosesOne
  <2>1. IsSequence(tabs) /\ Len(tabs) \in Nat /\ i \in 1..Len(tabs)
    BY SequenceLength DEF TabsInv
  <2>2. Len(tabs') = Len(tabs) - 1
    BY <1>4, <2>1, SequenceRemove DEF CloseTab
  <2>. QED  BY <2>1, <2>2 DEF ClosesOne
<1>5. CASE \/ NextPage \/ PrevPage
           \/ \E cells \in Filter : AddFilter(cells)
           \/ HasActive /\ Active.kind = "table" /\ \E i \in DOMAIN Active.filters : RemoveFilter(i)
           \/ \E sql \in Limit.sql : RunQuery(sql)
  BY <1>5, BoundFits, TurningSteps
<1>6. CASE ExecuteMutating \/ RunSchemaChange \/ ApplyChanges
  <2>1. (\E d : Wrote(d)) \/ Refused
    BY <1>6, Zenon DEF ExecuteMutating, RunSchemaChange, ApplyChanges
  <2>. QED  BY <1>1, <2>1, WroteShows DEF Refused
<1>7. ASSUME \/ OpenFilterDialog \/ CancelDialog \/ PreviewDdl
             \/ \E sql \in Limit.sql : ConfirmMutating(sql)
             \/ \E op \in {"create", "alter", "drop"}, t \in Table : OpenForm(op, t)
             \/ \E text \in Cell : TypeText(text)
             \/ \E i \in DOMAIN staged : UnstageOne(i)
             \/ \E i \in DOMAIN tabs : SelectTab(i)
             \/ DiscardAll \/ OtherProgram
             \/ UNCHANGED vars
      PROVE  KeepsViews
  <2>1. tabs' = tabs
    BY <1>7 DEF OpenFilterDialog, CancelDialog, PreviewDdl, ConfirmMutating, OpenForm, TypeText,
       UnstageOne, SelectTab, DiscardAll, OtherProgram, OtherProgramWrites, vars
  <2>. QED  BY <1>1, <2>1
<1>8. ASSUME GridSteps  PROVE KeepsViews
  <2>1. Grid.shown /\ (tabs' = tabs \/ \E g : tabs' = WithGrid(g))
    BY <1>8, GridStepsTyped
  <2>. QED  BY <1>1, <1>2, <2>1
<1>9. GridAction => KeepsViews
  BY <1>7, <1>8 DEF GridAction, GridSteps
<1>. QED  BY <1>3, <1>4, <1>5, <1>6, <1>7, <1>9 DEF Next, TabAction, WriteAction

-----------------------------------------------------------------------------
(* The types of a step.                                                    *)

TypedChange(change) ==
  /\ change.table \in Table /\ change.ch.key \in Key
  /\ \/ change.ch.op = "insert" /\ change.ch.values \in DB!Row
     \/ change.ch.op = "delete"
     \/ change.ch.op = "update" /\ change.ch.to \in Key /\ change.ch.set \in DB!Row

TypedDialog(d) ==
  /\ d.kind = "run" => d.sql.table \in Table
  /\ d.kind \in {"form", "schema"} => d.table \in Table /\ d.op \in {"create", "alter", "drop"}

TypesInv ==
  /\ bound \in DOMAIN Bounds
  /\ TypedDb(db)
  /\ \A i \in 1..Len(tabs) : TypedTab(tabs[i])
  /\ input \in Cell
  /\ \A i \in 1..Len(staged) : TypedChange(staged[i])
  /\ TypedDialog(dialog)
  /\ writes \in [own : Nat, other : Nat]

\* A statement that succeeds leaves typed Tables.
LEMMA ExecutedTyped ==
  ASSUME NEW d, TypedDb(d), NEW change, TypedChange(change)
  PROVE  TypedDb(Executed(d, change)) \/ Executed(d, change) = Dropped
<1>. DEFINE t == change.table
            ch == change.ch
            new == DB!ApplyChange(ch, d[t])
<1>1. CASE d # Dropped /\ d[t] # Dropped /\ DB!Succeeds(ch, d[t])
  <2>1. d[t] \in [Key -> DB!Slot] /\ t \in Table /\ ch.key \in Key
    BY <1>1 DEF TypedDb, TypedChange
  <2>2. new \in [Key -> DB!Slot]
    <3>1. CASE ch.op = "insert"
      <4>1. new = [d[t] EXCEPT ![ch.key] = ch.values] /\ ch.values \in DB!Slot
        BY <3>1 DEF DB!ApplyChange, TypedChange, DB!Slot
      <4>. HIDE DEF new, ch, t
      <4>. QED  BY <2>1, <4>1
    <3>2. CASE ch.op = "delete"
      <4>1. new = [d[t] EXCEPT ![ch.key] = Absent] /\ Absent \in DB!Slot
        BY <3>2 DEF DB!ApplyChange, DB!Slot
      <4>. HIDE DEF new, ch, t
      <4>. QED  BY <2>1, <4>1
    <3>3. CASE ch.op = "update"
      <4>. DEFINE row == DB!Assign(d[t][ch.key], ch.set)
                  gone == [d[t] EXCEPT ![ch.key] = Absent]
      <4>1. new = [gone EXCEPT ![ch.to] = row] /\ ch.to \in Key /\ ch.set \in DB!Row
        BY <3>3 DEF DB!ApplyChange, TypedChange
      <4>2. d[t][ch.key] # Absent
        BY <1>1, <3>3 DEF DB!Succeeds, DB!AffectsOneRow, DB!RowPredicate
      <4>3. d[t][ch.key] \in DB!Row
        BY <2>1, <4>2 DEF DB!Slot
      <4>4. row \in DB!Slot
        BY <4>1, <4>3 DEF DB!Assign, DB!Row, DB!Slot
      <4>5. gone \in [Key -> DB!Slot]
        <5>1. Absent \in DB!Slot
          BY DEF DB!Slot
        <5>. HIDE DEF ch, t
        <5>. QED  BY <2>1, <5>1
      <4>. HIDE DEF new, gone, row, ch, t
      <4>. QED  BY <2>1, <4>1, <4>4, <4>5
    <3>. QED  BY <3>1, <3>2, <3>3 DEF TypedChange
  <2>3. Executed(d, change) = [d EXCEPT ![t] = new]
    BY <1>1 DEF Executed
  <2>. HIDE DEF new, t
  <2>. QED  BY <2>1, <2>2, <2>3 DEF TypedDb
<1>2. CASE ~(d # Dropped /\ d[t] # Dropped /\ DB!Succeeds(ch, d[t]))
  BY <1>2 DEF Executed
<1>. QED  BY <1>1, <1>2

\* Apply is a fold of them, over the Staged Changes in their order.
Executing == INSTANCE FoldFacts WITH Step <- Executed

LEMMA AppliedTyped ==
  ASSUME TabsInv, TypesInv
  PROVE  TypedDb(AppliedDb) \/ AppliedDb = Dropped
<1>. DEFINE n == Len(staged)
            Fine(d) == TypedDb(d) \/ d = Dropped
<1>1. n \in Nat /\ DOMAIN staged = 1..n
  BY SequenceLength DEF TabsInv
<1>2. PICK after : /\ after[0] = db
                   /\ \A i \in 1..n : after[i] = Executed(after[i - 1], staged[i])
                   /\ AppliedDb = after[n]
  <2>1. PICK after : Executing!FoldSteps(after, db, staged, n)
    <3>. HIDE DEF n
    <3>. QED  BY <1>1, Executing!FoldStepByStep
  <2>2. /\ after[0] = db
        /\ \A i \in 1..n : after[i] = Executed(after[i - 1], staged[i])
        /\ AppliedDb = after[n]
    <3>. HIDE DEF n
    <3>. QED  BY <2>1 DEF Executing!FoldSteps, AppliedDb, FoldLeft, MapThenFoldSet, Max,
              Executing!FoldLeft, Executing!MapThenFoldSet, Executing!Max
  <2>. QED  BY <2>2
<1>. DEFINE Bad == {i \in 0..n : ~Fine(after[i])}
<1>3. Bad = {}
  <2>1. SUFFICES ASSUME Bad # {}  PROVE FALSE
    OBVIOUS
  <2>2. PICK k \in Bad : \A i \in Bad : k <= i
    <3>1. Bad \in SUBSET (0..n)
      OBVIOUS
    <3>. HIDE DEF Bad, n
    <3>. QED  BY <1>1, <2>1, <3>1, LeastMember
  <2>3. k # 0
    BY <1>2 DEF TypesInv
  <2>4. k \in 1..n /\ k - 1 \in 0..n
    BY <1>1, <2>3
  <2>5. Fine(after[k - 1])
    <3>1. k - 1 \notin Bad
      <4>. HIDE DEF Bad
      <4>. QED  BY <1>1, <2>2, <2>4
    <3>. HIDE DEF Fine
    <3>. QED  BY <2>4, <3>1
  <2>6. after[k] = Executed(after[k - 1], staged[k]) /\ TypedChange(staged[k])
    BY <1>2, <2>4 DEF TypesInv
  <2>7. Fine(after[k])
    <3>1. after[k - 1] = Dropped => after[k] = Dropped
      BY <2>6 DEF Executed
    <3>. QED  BY <2>5, <2>6, <3>1, ExecutedTyped
  <2>. QED  BY <2>7
<1>. HIDE DEF Fine
<1>4. n \in 0..n
  BY <1>1
<1>5. Fine(after[n])
  BY <1>3, <1>4
<1>. QED  BY <1>2, <1>5 DEF Fine

\* The writes of the window leave typed Tables.
LEMMA WrittenTyped ==
  ASSUME TabsInv, TypesInv, ExecuteMutating \/ RunSchemaChange \/ ApplyChanges
  PROVE  Refused \/ \E d : Wrote(d) /\ TypedDb(d)
<1>1. TypedDb(db) /\ TypedDialog(dialog) /\ Absent \in DB!Slot
  BY DEF TypesInv, DB!Slot
<1>2. CASE ExecuteMutating
  <2>. DEFINE t == dialog.sql.table
  <2>1. t \in Table
    BY <1>1, <1>2 DEF ExecuteMutating, TypedDialog
  <2>2. Refused \/ \E k \in Key : db[t] # Dropped /\ Wrote([db EXCEPT ![t][k] = Absent])
    BY <1>2 DEF ExecuteMutating
  <2>. HIDE DEF t
  <2>3. ASSUME NEW k \in Key, db[t] # Dropped  PROVE TypedDb([db EXCEPT ![t][k] = Absent])
    <3>1. db[t] \in [Key -> DB!Slot]
      BY <1>1, <2>1, <2>3 DEF TypedDb
    <3>2. [db[t] EXCEPT ![k] = Absent] \in [Key -> DB!Slot]
      BY <1>1, <3>1
    <3>. QED  BY <1>1, <2>1, <3>2 DEF TypedDb
  <2>. QED  BY <2>2, <2>3
<1>3. CASE RunSchemaChange
  <2>1. Refused \/ Wrote(SchemaChanged(dialog.op, dialog.table))
    BY <1>3 DEF RunSchemaChange
  <2>2. dialog.table \in Table /\ dialog.op \in {"create", "alter", "drop"}
    BY <1>1, <1>3 DEF RunSchemaChange, TypedDialog
  <2>3. ASSUME NEW op \in {"create", "alter", "drop"}, NEW t \in Table
        PROVE  TypedDb(SchemaChanged(op, t))
    <3>1. CASE op = "create"
      <4>1. [k \in Key |-> Absent] \in [Key -> DB!Slot]
        BY <1>1
      <4>2. SchemaChanged(op, t) = [db EXCEPT ![t] = [k \in Key |-> Absent]]
        BY <3>1 DEF SchemaChanged
      <4>. QED  BY <1>1, <4>1, <4>2 DEF TypedDb
    <3>2. CASE op = "drop"
      <4>1. SchemaChanged(op, t) = [db EXCEPT ![t] = Dropped]
        BY <3>2 DEF SchemaChanged
      <4>. QED  BY <1>1, <4>1 DEF TypedDb
    <3>3. CASE op = "alter"
      <4>1. SchemaChanged(op, t) = db
        BY <3>3 DEF SchemaChanged
      <4>. QED  BY <1>1, <4>1
    <3>. QED  BY <3>1, <3>2, <3>3
  <2>. QED  BY <2>1, <2>2, <2>3
<1>4. CASE ApplyChanges
  <2>1. Refused \/ (AppliedDb # Dropped /\ Wrote(AppliedDb))
    BY <1>4, Zenon DEF ApplyChanges
  <2>. QED  BY <2>1, AppliedTyped
<1>. QED  BY <1>2, <1>3, <1>4

\* The Tabs of each step.
LEMMA TabsTyped ==
  ASSUME TabsInv, TypesInv, [Next]_vars
  PROVE  \A i \in 1..Len(tabs') : TypedTab(tabs'[i])
<1>1. /\ Len(tabs) \in Nat /\ DOMAIN tabs = 1..Len(tabs) /\ IsSequence(tabs) /\ TypedDb(db)
      /\ \A i \in 1..Len(tabs) : IsTab(tabs[i]) /\ TypedTab(tabs[i])
  BY SequenceLength DEF TabsInv, TypesInv
<1>2. CASE tabs' = tabs
  BY <1>1, <1>2
<1>3. ASSUME OpensOne  PROVE \A i \in 1..Len(tabs') : TypedTab(tabs'[i])
  <2>1. PICK tab : tabs' = Append(tabs, tab) /\ TypedTab(tab)
    BY <1>1, <1>3 DEF OpensOne
  <2>2. /\ Len(tabs') = Len(tabs) + 1 /\ tabs'[Len(tabs) + 1] = tab
        /\ \A i \in 1..Len(tabs) : tabs'[i] = tabs[i]
    BY <1>1, <2>1, SequenceAppend
  <2>3. \A i \in 1..Len(tabs') : i \in 1..Len(tabs) \/ i = Len(tabs) + 1
    BY <1>1, <2>2
  <2>. QED  BY <1>1, <2>1, <2>2, <2>3
<1>4. ASSUME TurnsOne  PROVE \A i \in 1..Len(tabs') : TypedTab(tabs'[i])
  <2>1. PICK tab : /\ IsTab(tab)
                   /\ ReadsTable(Active) => ReadsTable(tab)
                   /\ tabs' = [tabs EXCEPT ![active_tab] = Reloaded(db, tab)]
    BY <1>4 DEF TurnsOne
  <2>2. active_tab \in 1..Len(tabs) /\ Active = tabs[active_tab]
    BY <1>4 DEF TurnsOne, TabsInv, HasActive, Active
  <2>3. TypedTab(Reloaded(db, tab))
    <3>1. ReadsTable(Active)
      BY <1>1, <2>2 DEF TypedTab
    <3>. QED  BY <1>1, <2>1, <3>1, ReloadedTyped
  <2>4. /\ Len(tabs') = Len(tabs) /\ tabs'[active_tab] = Reloaded(db, tab)
        /\ \A i \in 1..Len(tabs) : i # active_tab => tabs'[i] = tabs[i]
    BY <1>1, <2>1, <2>2, SequenceExcept
  <2>. QED  BY <1>1, <2>3, <2>4
<1>5. ASSUME NEW i \in DOMAIN tabs, CloseTab(i)
      PROVE  \A j \in 1..Len(tabs') : TypedTab(tabs'[j])
  <2>1. /\ Len(tabs') = Len(tabs) - 1
        /\ \A j \in 1..(Len(tabs) - 1) : tabs'[j] = IF j < i THEN tabs[j] ELSE tabs[j + 1]
    BY <1>1, <1>5, SequenceRemove DEF CloseTab
  <2>2. \A j \in 1..(Len(tabs) - 1) : j \in 1..Len(tabs) /\ j + 1 \in 1..Len(tabs)
    BY <1>1
  <2>. QED  BY <1>1, <2>1, <2>2
<1>6. CASE ExecuteMutating \/ RunSchemaChange \/ ApplyChanges
  <2>1. Refused \/ \E d : Wrote(d) /\ TypedDb(d)
    BY <1>6, WrittenTyped
  <2>2. ASSUME NEW d, Wrote(d), TypedDb(d)
        PROVE  \A i \in 1..Len(tabs') : TypedTab(tabs'[i])
    <3>1. tabs' = [i \in 1..Len(tabs) |-> Reloaded(d, tabs[i])] /\ Len(tabs') = Len(tabs)
      BY <1>1, <2>2, TabsReloaded DEF Wrote, ReloadAllGrids, SameTabs
    <3>2. \A i \in 1..Len(tabs) : TypedTab(Reloaded(d, tabs[i]))
      BY <1>1, <2>2, ReloadedTyped DEF TypedTab
    <3>. QED  BY <3>1, <3>2
  <2>. QED  BY <1>2, <2>1, <2>2 DEF Refused
<1>7. ASSUME GridSteps  PROVE \A i \in 1..Len(tabs') : TypedTab(tabs'[i])
  <2>1. Grid.shown
    BY <1>7, GridStepsTyped
  <2>2. HasActive /\ IsGridTab(Active) /\ Grid = Active.grid
    BY <2>1, ShownGrid
  <2>3. GridType(Grid) /\ input \in Cell
    BY <1>1, <2>2 DEF TypedTab, TypesInv, TabsInv, HasActive, Active
  <2>4. tabs' = tabs \/ \E g : tabs' = WithGrid(g) /\ GridType(g)
    BY <1>7, <2>3, GridStepsTyped
  <2>5. ASSUME NEW g, tabs' = WithGrid(g), GridType(g)
        PROVE  \A i \in 1..Len(tabs') : TypedTab(tabs'[i])
    BY <1>1, <2>1, <2>5, GridKeepsViews DEF KeepsViews
  <2>. QED  BY <1>2, <2>4, <2>5
<1>8. CASE \/ OpenFilterDialog \/ CancelDialog \/ PreviewDdl
           \/ \E sql \in Limit.sql : ConfirmMutating(sql)
           \/ \E op \in {"create", "alter", "drop"}, t \in Table : OpenForm(op, t)
           \/ \E text \in Cell : TypeText(text)
           \/ \E i \in DOMAIN staged : UnstageOne(i)
           \/ \E i \in DOMAIN tabs : SelectTab(i)
           \/ DiscardAll \/ OtherProgram
           \/ UNCHANGED vars
  <2>1. tabs' = tabs
    BY <1>8 DEF OpenFilterDialog, CancelDialog, PreviewDdl, ConfirmMutating, OpenForm, TypeText,
       UnstageOne, SelectTab, DiscardAll, OtherProgram, OtherProgramWrites, vars
  <2>. QED  BY <1>2, <2>1
<1>9. CASE (\E t \in Table : AddTableTab(t) \/ AddStructureTab(t)) \/ AddQueryTab
  BY <1>3, <1>9, OpeningSteps
<1>10. CASE \/ NextPage \/ PrevPage
            \/ \E cells \in Filter : AddFilter(cells)
            \/ HasActive /\ Active.kind = "table" /\ \E i \in DOMAIN Active.filters : RemoveFilter(i)
            \/ \E sql \in Limit.sql : RunQuery(sql)
  BY <1>4, <1>10, BoundFits, TurningSteps DEF TypesInv
<1>. QED  BY <1>5, <1>6, <1>7, <1>8, <1>9, <1>10
          DEF Next, TabAction, WriteAction, GridAction, GridSteps

\* What can be staged, and where it goes.
LEMMA StageableTyped ==
  ASSUME TabsInv, TypesInv, Grid.shown
  PROVE  /\ GridType(Grid)
         /\ \A i \in DOMAIN Grid.rows : Grid.rows[i].key \in Key /\ Grid.rows[i].val \in Cell
         /\ ActiveStaging.staged => ActiveStaging.table \in Table
<1>1. HasActive /\ IsTab(Active) /\ IsGridTab(Active) /\ Grid = Active.grid
  BY ShownGrid
<1>2. TypedTab(Active)
  BY <1>1 DEF TypesInv, TabsInv, HasActive, Active
<1>3. GridType(Grid)
  BY <1>1, <1>2 DEF TypedTab
<1>4. ASSUME NEW i \in DOMAIN Grid.rows  PROVE Grid.rows[i].key \in Key /\ Grid.rows[i].val \in Cell
  BY <1>3 DEF GridType
<1>5. ASSUME ActiveStaging.staged  PROVE ActiveStaging.table \in Table
  <2>1. ReadOnly.staged = FALSE
    BY DEF ReadOnly
  <2>2. CASE IsTableTab(Active)
    <3>1. ActiveStaging = StagedOn(Active.table) /\ Active.table \in Table
      BY <1>1, <1>2, <2>2 DEF ActiveStaging, ActiveIs, IsTableTab, TypedTab, ReadsTable
    <3>. QED  BY <3>1 DEF StagedOn
  <2>3. CASE IsQueryTab(Active)
    <3>1. ActiveStaging = Active.staging
      BY <1>1, <2>3 DEF ActiveStaging, ActiveIs, IsQueryTab
    <3>2. Active.staging = StagedOn(Active.sql.table) /\ Active.sql.do = "one"
      BY <1>5, <2>1, <2>3, <3>1 DEF IsQueryTab
    <3>3. Active.sql # Empty
      BY <3>2 DEF Empty
    <3>4. Active.sql.table \in Table
      BY <1>2, <2>3, <3>3 DEF TypedTab, ReadsTable, IsQueryTab
    <3>. QED  BY <3>1, <3>2, <3>4 DEF StagedOn
  <2>. QED  BY <1>1, <2>2, <2>3 DEF IsTab, IsStructureTab, IsGridTab
<1>. QED  BY <1>3, <1>4, <1>5

\* The cell a click puts in the input, and the text a commit stages.
LEMMA InputTyped ==
  ASSUME TabsInv, TypesInv, [Next]_vars
  PROVE  input' \in Cell
<1>1. input \in Cell
  BY DEF TypesInv
<1>2. ASSUME NEW r \in 1..RowCount(Grid), BeginEdit(r)  PROVE input' \in Cell
  <2>1. Grid.shown /\ input' = RowCell(Grid, r)
    BY <1>2 DEF BeginEdit
  <2>2. /\ GridType(Grid) /\ Len(Grid.rows) \in Nat /\ DOMAIN Grid.rows = 1..Len(Grid.rows)
        /\ \A i \in DOMAIN Grid.rows : Grid.rows[i].val \in Cell
    BY <2>1, StageableTyped, ShownGrid, SequenceLength DEF IsGrid, IsRows
  <2>3. CASE IsDraft(Grid, r)
    <3>1. Grid.pending_insert.draft
      <4>1. SUFFICES ASSUME ~Grid.pending_insert.draft  PROVE FALSE
        OBVIOUS
      <4>2. RowCount(Grid) = Len(Grid.rows) + 0
        BY <4>1 DEF RowCount
      <4>. QED  BY <2>2, <2>3, <4>2 DEF IsDraft
    <3>2. NoDraft.draft = FALSE
      BY DEF NoDraft
    <3>3. PICK c \in Cell : Grid.pending_insert = Draft(c)
      BY <2>2, <3>1, <3>2 DEF GridType
    <3>4. Draft(c).val = c
      BY DEF Draft
    <3>. QED  BY <2>1, <2>3, <3>3, <3>4 DEF RowCell
  <2>4. CASE ~IsDraft(Grid, r)
    <3>1. r \in DOMAIN Grid.rows
      BY <2>2, <2>4 DEF IsDraft
    <3>. QED  BY <2>1, <2>2, <2>4, <3>1 DEF RowCell
  <2>. QED  BY <2>3, <2>4
<1>3. ASSUME NEW text \in Cell, TypeText(text)  PROVE input' \in Cell
  BY <1>3 DEF TypeText
<1>4. CASE input' = input
  BY <1>1, <1>4
<1>5. \/ \E r \in 1..RowCount(Grid) : BeginEdit(r)
      \/ \E text \in Cell : TypeText(text)
      \/ input' = input
  <2>1. CASE GridAction
    BY <2>1 DEF GridAction, SelectRow, CommitCell, StartInsertRow, StageInsertRow,
       StageDeleteRow, UnstageOne, DiscardAll
  <2>2. CASE WriteAction \/ OtherProgram \/ UNCHANGED vars
    BY <2>2 DEF WriteAction, RunQuery, ReloadActive, ConfirmMutating, ExecuteMutating, Wrote, Refused,
       OpenForm, PreviewDdl, RunSchemaChange, ApplyChanges, OtherProgram, OtherProgramWrites, vars
  <2>3. CASE TabAction
    BY <2>3 DEF TabAction, AddTableTab, AddStructureTab, PushTab, AddQueryTab, SelectTab, CloseTab,
       NextPage, PrevPage, OpenFilterDialog, CancelDialog, AddFilter, RemoveFilter, ReloadActive
  <2>. QED  BY <2>1, <2>2, <2>3 DEF Next
<1>. QED  BY <1>2, <1>3, <1>4, <1>5

\* What the window stages.
LEMMA ChangesTyped ==
  ASSUME NEW row, row.key \in Key, row.val \in Cell, NEW text \in Cell,
         ActiveStaging.table \in Table
  PROVE  TypedChange(Update(row, text)) /\ TypedChange(Delete(row))
<1>1. [val |-> text] \in DB!Row
  BY DEF DB!Row
<1>2. TypedChange(Update(row, text))
  BY <1>1 DEF Update, TypedChange
<1>3. TypedChange(Delete(row))
  BY DEF Delete, TypedChange
<1>. QED  BY <1>2, <1>3

LEMMA StagedTyped ==
  ASSUME TabsInv, TypesInv, [Next]_vars
  PROVE  \A i \in 1..Len(staged') : TypedChange(staged'[i])
<1>1. /\ Len(staged) \in Nat /\ DOMAIN staged = 1..Len(staged) /\ IsSequence(staged)
      /\ \A i \in 1..Len(staged) : TypedChange(staged[i])
  BY SequenceLength DEF TabsInv, TypesInv
<1>2. CASE staged' = staged
  BY <1>1, <1>2
<1>3. ASSUME NEW change, TypedChange(change), staged' = Append(staged, change)
      PROVE  \A i \in 1..Len(staged') : TypedChange(staged'[i])
  <2>1. /\ Len(staged') = Len(staged) + 1 /\ staged'[Len(staged) + 1] = change
        /\ \A i \in 1..Len(staged) : staged'[i] = staged[i]
    BY <1>1, <1>3, SequenceAppend
  <2>2. \A i \in 1..Len(staged') : i \in 1..Len(staged) \/ i = Len(staged) + 1
    BY <1>1, <2>1
  <2>. QED  BY <1>1, <1>3, <2>1, <2>2
<1>4. CASE staged' = <<>>
  BY <1>4, NoRows
<1>5. ASSUME NEW i \in DOMAIN staged, UnstageOne(i)
      PROVE  \A j \in 1..Len(staged') : TypedChange(staged'[j])
  <2>1. /\ Len(staged') = Len(staged) - 1
        /\ \A j \in 1..(Len(staged) - 1) : staged'[j] = IF j < i THEN staged[j] ELSE staged[j + 1]
    BY <1>1, <1>5, SequenceRemove DEF UnstageOne
  <2>2. \A j \in 1..(Len(staged) - 1) : j \in 1..Len(staged) /\ j + 1 \in 1..Len(staged)
    BY <1>1
  <2>. QED  BY <1>1, <2>1, <2>2
<1>6. ASSUME Grid.shown, ActiveStaging.staged
      PROVE  /\ GridType(Grid) /\ input \in Cell /\ ActiveStaging.table \in Table
             /\ Len(Grid.rows) \in Nat /\ DOMAIN Grid.rows = 1..Len(Grid.rows)
             /\ \A i \in DOMAIN Grid.rows : Grid.rows[i].key \in Key /\ Grid.rows[i].val \in Cell
  BY <1>6, StageableTyped, ShownGrid, SequenceLength DEF IsGrid, IsRows, TypesInv
<1>7. CASE CommitCell
  <2>1. Grid.shown /\ ActiveStaging.staged /\ Grid.editing >= 1
    BY <1>7 DEF CommitCell, InputIsDrawn
  <2>2. Grid.editing \in 0..(Len(Grid.rows) + 1)
    BY <1>6, <2>1 DEF GridType
  <2>3. \/ staged' = staged
        \/ ~IsDraft(Grid, Grid.editing) /\ staged' = Append(staged, Update(Grid.rows[Grid.editing], input))
    BY <1>7 DEF CommitCell, OpenRow
  <2>4. ASSUME ~IsDraft(Grid, Grid.editing)  PROVE Grid.editing \in DOMAIN Grid.rows
    BY <1>6, <2>1, <2>2, <2>4 DEF IsDraft
  <2>. QED  BY <1>2, <1>3, <1>6, <2>1, <2>3, <2>4, ChangesTyped
<1>8. CASE StageInsertRow
  <2>1. Grid.shown /\ ActiveStaging.staged
    BY <1>8 DEF StageInsertRow
  <2>2. \/ staged' = staged
        \/ /\ Grid.pending_insert # NoDraft
           /\ \E k \in Limit.keys : staged' = Append(staged, Insert(k, Grid.pending_insert.val))
    BY <1>8 DEF StageInsertRow, NewKeys
  <2>3. ASSUME Grid.pending_insert # NoDraft  PROVE Grid.pending_insert.val \in Cell
    <3>1. PICK c \in Cell : Grid.pending_insert = Draft(c)
      BY <1>6, <2>1, <2>3 DEF GridType
    <3>. QED  BY <3>1 DEF Draft
  <2>4. Limit.keys \subseteq Key
    BY BoundFits DEF LimitFits, TypesInv
  <2>5. ASSUME NEW key \in Key, NEW text \in Cell  PROVE TypedChange(Insert(key, text))
    <3>1. [val |-> text] \in DB!Row
      BY DEF DB!Row
    <3>. QED  BY <1>6, <2>1, <3>1 DEF Insert, TypedChange
  <2>. QED  BY <1>2, <1>3, <2>2, <2>3, <2>4, <2>5
<1>9. CASE StageDeleteRow
  <2>1. Grid.shown /\ ActiveStaging.staged /\ Grid.selected # 0
    BY <1>9 DEF StageDeleteRow
  <2>2. Grid.selected \in 0..(Len(Grid.rows) + 1)
    BY <1>6, <2>1 DEF GridType
  <2>3. \/ staged' = staged
        \/ ~IsDraft(Grid, Grid.selected) /\ staged' = Append(staged, Delete(Grid.rows[Grid.selected]))
    BY <1>9 DEF StageDeleteRow
  <2>4. ASSUME ~IsDraft(Grid, Grid.selected)  PROVE Grid.selected \in DOMAIN Grid.rows
    BY <1>6, <2>1, <2>2, <2>4 DEF IsDraft
  <2>. QED  BY <1>2, <1>3, <1>6, <2>1, <2>3, <2>4, ChangesTyped
<1>10. CASE TabAction \/ OtherProgram \/ UNCHANGED vars
  <2>1. staged' = staged
          \/ \E i \in DOMAIN tabs : CloseTab(i)
    BY <1>10 DEF TabAction, AddTableTab, AddStructureTab, PushTab, AddQueryTab, SelectTab,
       NextPage, PrevPage, OpenFilterDialog, CancelDialog, AddFilter, RemoveFilter, ReloadActive,
       OtherProgram, OtherProgramWrites, vars
  <2>2. \A i : CloseTab(i) => staged' = staged
    BY DEF CloseTab
  <2>. QED  BY <1>2, <2>1, <2>2
<1>11. CASE WriteAction
  <2>1. staged' = staged \/ staged' = <<>>
    BY <1>11 DEF WriteAction, RunQuery, ReloadActive, ConfirmMutating, ExecuteMutating, Refused,
       OpenForm, PreviewDdl, RunSchemaChange, ApplyChanges
  <2>. QED  BY <1>2, <1>4, <2>1
<1>12. CASE \/ \E r \in 1..RowCount(Grid) : SelectRow(r) \/ BeginEdit(r)
            \/ \E text \in Cell : TypeText(text)
            \/ StartInsertRow
  <2>1. staged' = staged
    BY <1>12 DEF SelectRow, BeginEdit, TypeText, StartInsertRow
  <2>. QED  BY <1>2, <2>1
<1>13. DiscardAll => staged' = <<>>
  BY DEF DiscardAll
<1>. QED  BY <1>4, <1>5, <1>7, <1>8, <1>9, <1>10, <1>11, <1>12, <1>13 DEF Next, GridAction

LEMMA DialogTyped ==
  ASSUME TabsInv, TypesInv, [Next]_vars
  PROVE  TypedDialog(dialog')
<1>1. TypedDialog(dialog) /\ DialogFits(dialog)
  BY DEF TabsInv, TypesInv
<1>2. CASE dialog' = dialog
  BY <1>1, <1>2
<1>3. CASE dialog' \in {NoDialog, [kind |-> "filter"]}
  BY <1>3 DEF NoDialog, TypedDialog
<1>4. ASSUME NEW sql \in Limit.sql, ConfirmMutating(sql)  PROVE TypedDialog(dialog')
  <2>1. dialog' = [kind |-> "run", sql |-> sql] /\ sql.do = "write"
    BY <1>4 DEF ConfirmMutating
  <2>2. sql \in SqlText
    BY BoundFits DEF LimitFits, TypesInv
  <2>3. sql.table \in Table
    BY <2>1, <2>2 DEF SqlText
  <2>. QED  BY <2>1, <2>3 DEF TypedDialog
<1>5. ASSUME NEW op \in {"create", "alter", "drop"}, NEW t \in Table, OpenForm(op, t)
      PROVE  TypedDialog(dialog')
  <2>1. PICK kind \in {"schema", "form"} : dialog' = [kind |-> kind, op |-> op, table |-> t]
    BY <1>5 DEF OpenForm
  <2>. QED  BY <2>1 DEF TypedDialog
<1>6. CASE PreviewDdl
  <2>1. dialog' = [dialog EXCEPT !.kind = "schema"] /\ dialog.kind = "form"
    BY <1>6 DEF PreviewDdl
  <2>2. dialog = [kind |-> "form", op |-> dialog.op, table |-> dialog.table]
    BY <1>1, <2>1 DEF DialogFits
  <2>3. dialog' = [kind |-> "schema", op |-> dialog.op, table |-> dialog.table]
    BY <2>1, <2>2
  <2>. QED  BY <1>1, <2>1, <2>3 DEF TypedDialog
<1>7. CASE GridAction \/ OtherProgram \/ UNCHANGED vars
  <2>1. dialog' = dialog
    BY <1>7 DEF GridAction, SelectRow, BeginEdit, TypeText, CommitCell, StartInsertRow, StageInsertRow,
       StageDeleteRow, UnstageOne, DiscardAll, OtherProgram, OtherProgramWrites, vars
  <2>. QED  BY <1>2, <2>1
<1>8. CASE TabAction
  <2>1. dialog' \in {dialog, NoDialog, [kind |-> "filter"]}
    BY <1>8 DEF TabAction, AddTableTab, AddStructureTab, PushTab, AddQueryTab, SelectTab, CloseTab,
       NextPage, PrevPage, OpenFilterDialog, CancelDialog, AddFilter, RemoveFilter
  <2>. QED  BY <1>2, <1>3, <2>1
<1>9. CASE \/ \E sql \in Limit.sql : RunQuery(sql)
           \/ ExecuteMutating \/ RunSchemaChange \/ ApplyChanges
  <2>1. dialog' \in {dialog, NoDialog}
    BY <1>9 DEF RunQuery, ExecuteMutating, RunSchemaChange, ApplyChanges
  <2>. QED  BY <1>2, <1>3, <2>1
<1>. QED  BY <1>4, <1>5, <1>6, <1>7, <1>8, <1>9 DEF Next, WriteAction

\* The Database changes by a write of this window, which is one, or of another.
LEMMA WritesTyped ==
  ASSUME TabsInv, TypesInv, [Next]_vars
  PROVE  /\ TypedDb(db') /\ writes' \in [own : Nat, other : Nat]
         /\ writes'.own # writes.own => \E d : Wrote(d)
<1>1. TypedDb(db) /\ writes \in [own : Nat, other : Nat]
  BY DEF TypesInv
<1>2. CASE UNCHANGED <<db, writes>>
  BY <1>1, <1>2
<1>3. ASSUME NEW d, Wrote(d), TypedDb(d)
      PROVE  TypedDb(db') /\ writes' \in [own : Nat, other : Nat]
  BY <1>1, <1>3 DEF Wrote
<1>4. CASE ExecuteMutating \/ RunSchemaChange \/ ApplyChanges
  <2>1. Refused \/ \E d : Wrote(d) /\ TypedDb(d)
    BY <1>4, WrittenTyped
  <2>. QED  BY <1>2, <1>3, <2>1 DEF Refused
<1>5. CASE OtherProgram
  <2>1. PICK t \in Table, k \in Limit.keys : OtherProgramWrites(t, k)
    BY <1>5 DEF OtherProgram
  <2>2. PICK slot \in DB!Slot : db' = [db EXCEPT ![t][k] = slot] /\ db[t] # Dropped
    BY <2>1 DEF OtherProgramWrites
  <2>3. k \in Key
    BY BoundFits DEF LimitFits, TypesInv
  <2>4. db[t] \in [Key -> DB!Slot]
    BY <1>1, <2>2 DEF TypedDb
  <2>5. [db[t] EXCEPT ![k] = slot] \in [Key -> DB!Slot]
    BY <2>3, <2>4
  <2>6. TypedDb(db')
    BY <1>1, <2>2, <2>5 DEF TypedDb
  <2>7. writes' = [writes EXCEPT !.other = @ + 1]
    BY <2>1 DEF OtherProgramWrites
  <2>. QED  BY <1>1, <2>6, <2>7
<1>6. CASE TabAction \/ GridAction \/ UNCHANGED vars
  <2>1. UNCHANGED <<db, writes>>
    <3>1. CASE TabAction
      BY <3>1 DEF TabAction, AddTableTab, AddStructureTab, PushTab, AddQueryTab, SelectTab, CloseTab,
         NextPage, PrevPage, OpenFilterDialog, CancelDialog, AddFilter, RemoveFilter, ReloadActive
    <3>2. CASE GridAction
      BY <3>2 DEF GridAction, SelectRow, BeginEdit, TypeText, CommitCell, StartInsertRow, StageInsertRow,
         StageDeleteRow, UnstageOne, DiscardAll
    <3>. QED  BY <1>6, <3>1, <3>2 DEF vars
  <2>. QED  BY <1>2, <2>1
<1>7. CASE \/ \E sql \in Limit.sql : RunQuery(sql) \/ ConfirmMutating(sql)
           \/ \E op \in {"create", "alter", "drop"}, t \in Table : OpenForm(op, t)
           \/ PreviewDdl
  <2>1. UNCHANGED <<db, writes>>
    BY <1>7 DEF RunQuery, ReloadActive, ConfirmMutating, OpenForm, PreviewDdl
  <2>. QED  BY <1>2, <2>1
<1>. QED  BY <1>4, <1>5, <1>6, <1>7 DEF Next, WriteAction

\* The invariant the theorems below rest on.
PagesInv == SessionInv /\ TypesInv

LEMMA InductivePages == Spec => []PagesInv
<1>1. Init => PagesInv
  <2>1. SUFFICES ASSUME Init  PROVE TypesInv
    BY InitInv DEF PagesInv
  <2>2. bound \in DOMAIN Bounds /\ db = Limit.db /\ input = Null /\ dialog = NoDialog
    BY <2>1 DEF Init
  <2>3. TypedDb(db)
    BY <2>2, BoundFits DEF LimitFits
  <2>4. Len(tabs) = 0 /\ Len(staged) = 0
    BY <2>1, NoRows DEF Init
  <2>5. writes \in [own : Nat, other : Nat]
    BY <2>1 DEF Init
  <2>. QED  BY <2>2, <2>3, <2>4, <2>5 DEF TypesInv, TypedDialog, NoDialog, Cell
<1>2. PagesInv /\ [Next]_vars => PagesInv'
  <2>1. SUFFICES ASSUME SessionInv, TypesInv, [Next]_vars  PROVE SessionInv' /\ TypesInv'
    BY DEF PagesInv
  <2>2. SessionInv' /\ TabsInv
    BY <2>1, StepInv DEF SessionInv
  <2>3. bound' = bound
    BY <2>1 DEF Next, vars
  <2>4. TypesInv'
    BY <2>1, <2>2, <2>3, WritesTyped, TabsTyped, InputTyped, StagedTyped, DialogTyped DEF TypesInv
  <2>. QED  BY <2>2, <2>4
<1>. QED  BY <1>1, <1>2, PTL DEF Spec

-----------------------------------------------------------------------------
(* Theorems.                                                               *)

\* The types, for any Tables, page size and bounds: every Tab shows a grid of
\* typed rows, no longer than a page, with a selected and an open row that the
\* grid has; the Tabs' ids differ and the active one exists (session.rs:56-64).
THEOREM SessionTypes == Spec => []TypeOK
<1>1. PagesInv => TypeOK
  <2>1. SUFFICES ASSUME TabsInv, TypesInv  PROVE TypeOK
    BY DEF PagesInv, SessionInv
  <2>2. /\ Len(tabs) \in Nat /\ DOMAIN tabs = 1..Len(tabs)
        /\ Len(staged) \in Nat /\ DOMAIN staged = 1..Len(staged)
    BY <2>1, SequenceLength DEF TabsInv
  <2>3. active_tab \in 1..Len(tabs) \/ (active_tab = 0 /\ tabs = <<>>)
    <3>1. ASSUME Len(tabs) = 0  PROVE tabs = <<>>
      BY <2>1, <3>1, EmptySeq DEF TabsInv, IsSequence
    <3>. QED  BY <2>1, <3>1 DEF TabsInv
  <2>4. \A t \in Table : db[t] \in [Key -> DB!Slot] \cup {Dropped}
    BY <2>1 DEF TypesInv, TypedDb
  <2>5. ASSUME NEW i \in GridTabs  PROVE GridType(tabs[i].grid) /\ tabs[i].page \in Nat
    <3>1. i \in 1..Len(tabs) /\ IsGridTab(tabs[i])
      BY <2>2 DEF GridTabs
    <3>2. IsTab(tabs[i]) /\ TypedTab(tabs[i])
      BY <2>1, <3>1 DEF TabsInv, TypesInv
    <3>. QED  BY <3>1, <3>2 DEF TypedTab, IsTab, IsTableTab, IsQueryTab, IsStructureTab, IsGridTab
  <2>6. \A i, j \in DOMAIN tabs : tabs[i].id = tabs[j].id => i = j
    BY <2>1, <2>2 DEF TabsInv
  <2>7. \A i \in DOMAIN staged : staged[i].ch.key \in Key /\ staged[i].table \in Table
    BY <2>1, <2>2 DEF TypesInv, TypedChange
  <2>. QED  BY <2>1, <2>3, <2>4, <2>5, <2>6, <2>7 DEF TypeOK, TypesInv
<1>. QED  BY <1>1, InductivePages, PTL

\* A write of this window, whichever button made it, leaves no Tab on older rows:
\* every grid shows its page of what was written, or that its Table is gone
\* (session.rs:784-816, 995-1013, 1177-1199).
THEOREM EveryGridIsRefreshed == Spec => OwnWritesRefreshEveryGrid
<1>. DEFINE Refreshes ==
  writes'.own # writes.own => \A i \in GridTabs' : ShowsPage(db', tabs'[i])
<1>1. PagesInv /\ [Next]_vars => [Refreshes]_vars
  <2>1. SUFFICES ASSUME TabsInv, TypesInv, TabsInv', [Next]_vars, writes'.own # writes.own,
                        NEW i \in GridTabs'
                 PROVE  ShowsPage(db', tabs'[i])
    BY StepInv DEF PagesInv, SessionInv
  <2>2. PICK d : Wrote(d)
    BY <2>1, WritesTyped
  <2>3. i \in 1..Len(tabs') /\ IsGridTab(tabs'[i])
    BY <2>1, SequenceLength DEF TabsInv, GridTabs
  <2>. QED  BY <2>1, <2>2, <2>3, WroteShows
<1>. QED  BY <1>1, InductivePages, PTL DEF Spec, OwnWritesRefreshEveryGrid

\* The Tabs of a step that changes which page, Filters or SQL one of them is on.
LEMMA TurnedTab ==
  ASSUME TabsInv, TurnsOne
  PROVE  \E tab :
           /\ IsTab(tab) /\ IsGridTab(tab) /\ tab.kind = Active.kind
           /\ tab.kind = "table" => tab.filters = Active.filters \/ tab.page = 0
           /\ active_tab \in 1..Len(tabs) /\ Len(tabs') = Len(tabs)
           /\ tabs'[active_tab] = Reloaded(db, tab)
           /\ ShowsPage(db', tabs'[active_tab])
           /\ \A i \in 1..Len(tabs) : i # active_tab => tabs'[i] = tabs[i]
<1>1. PICK tab :
       /\ IsTab(tab) /\ IsGridTab(tab) /\ tab.kind = Active.kind
       /\ tab.kind = "table" => tab.filters = Active.filters \/ tab.page = 0
       /\ tabs' = [tabs EXCEPT ![active_tab] = Reloaded(db, tab)]
  BY DEF TurnsOne
<1>2. /\ IsSequence(tabs) /\ active_tab \in 1..Len(tabs) /\ DOMAIN tabs = 1..Len(tabs)
      /\ db' = db
  BY SequenceLength DEF TabsInv, TurnsOne, HasActive
<1>3. /\ Len(tabs') = Len(tabs) /\ tabs'[active_tab] = Reloaded(db, tab)
      /\ \A i \in 1..Len(tabs) : i # active_tab => tabs'[i] = tabs[i]
  BY <1>1, <1>2, SequenceExcept
<1>4. ShowsPage(db', tabs'[active_tab])
  BY <1>1, <1>2, <1>3, ReloadedShows
<1>. QED  BY <1>1, <1>2, <1>3, <1>4

\* A Tab that is opened, turned, filtered or run shows its page of the rows the
\* Database has now: each of them, in order, with the rows before it on earlier
\* pages, and a next page if and only if there is one, for any Table, page size,
\* page and Filters (session.rs:403-417, 496-576, 744-757).
THEOREM NavigationReadsThePage == Spec => NavigationShowsItsPage
<1>. DEFINE Navigates ==
  \A i \in GridTabs' :
    (/\ Len(tabs') >= Len(tabs)
     /\ i \notin DOMAIN tabs \/ View(tabs[i]) # View(tabs'[i])
     /\ tabs'[i].grid.shown) => ShowsPage(db', tabs'[i])
<1>1. PagesInv /\ [Next]_vars => [Navigates]_tabs
  <2>1. SUFFICES ASSUME TabsInv, TypesInv, TabsInv', [Next]_vars, NEW i \in GridTabs',
                        Len(tabs') >= Len(tabs), tabs'[i].grid.shown,
                        i \notin DOMAIN tabs \/ View(tabs[i]) # View(tabs'[i])
                 PROVE  ShowsPage(db', tabs'[i])
    BY StepInv DEF PagesInv, SessionInv
  <2>2. /\ Len(tabs) \in Nat /\ DOMAIN tabs = 1..Len(tabs) /\ IsSequence(tabs)
        /\ Len(tabs') \in Nat /\ i \in 1..Len(tabs') /\ IsGridTab(tabs'[i])
    BY <2>1, SequenceLength DEF TabsInv, GridTabs
  <2>3. ~KeepsViews
    BY <2>1, <2>2 DEF KeepsViews
  <2>4. ~ClosesOne
    BY <2>1, <2>2 DEF ClosesOne
  <2>5. CASE TurnsOne
    BY <2>1, <2>2, <2>5, TurnedTab
  <2>6. CASE OpensOne
    <3>1. PICK tab : /\ tabs' = Append(tabs, tab)
                     /\ (IsGridTab(tab) /\ tab.grid.shown) => ShowsPage(db', tab)
      BY <2>6 DEF OpensOne
    <3>2. /\ Len(tabs') = Len(tabs) + 1 /\ tabs'[Len(tabs) + 1] = tab
          /\ \A j \in 1..Len(tabs) : tabs'[j] = tabs[j]
      BY <2>2, <3>1, SequenceAppend
    <3>3. i = Len(tabs) + 1
      BY <2>1, <2>2, <3>2
    <3>. QED  BY <2>1, <2>2, <3>1, <3>2, <3>3
  <2>. QED  BY <2>1, <2>3, <2>4, <2>5, <2>6, StepPages DEF TypesInv
<1>. QED  BY <1>1, InductivePages, PTL DEF Spec, NavigationShowsItsPage

\* Adding or removing a Filter goes back to the first page, so an empty page
\* means that no row matches (session.rs:496-540).
THEOREM FilteredTabShowsMatches == Spec => FilteringShowsMatches
<1>. DEFINE Filters ==
  \A i \in DOMAIN tabs' :
    (/\ Len(tabs') = Len(tabs)
     /\ tabs'[i].kind = "table" /\ tabs'[i].filters # tabs[i].filters
     /\ CanRead(db', tabs'[i])) =>
       (tabs'[i].grid.rows = <<>> <=>
          \A r \in Rows(db'[tabs'[i].table]) : ~Passes(r, tabs'[i].filters))
<1>1. PagesInv /\ [Next]_vars => [Filters]_tabs
  <2>1. SUFFICES ASSUME TabsInv, TypesInv, TabsInv', [Next]_vars, NEW i \in DOMAIN tabs',
                        Len(tabs') = Len(tabs), tabs'[i].kind = "table",
                        tabs'[i].filters # tabs[i].filters, CanRead(db', tabs'[i])
                 PROVE  tabs'[i].grid.rows = <<>> <=>
                          \A r \in Rows(db'[tabs'[i].table]) : ~Passes(r, tabs'[i].filters)
    BY StepInv DEF PagesInv, SessionInv
  <2>2. /\ Len(tabs) \in Nat /\ i \in 1..Len(tabs) /\ IsSequence(tabs)
        /\ IsTab(tabs'[i]) /\ IsGridTab(tabs'[i])
    BY <2>1, SequenceLength DEF TabsInv, IsGridTab
  <2>3. ~KeepsViews
    <3>1. tabs'[i].kind = tabs[i].kind => View(tabs[i]) # View(tabs'[i])
      BY <2>1 DEF View
    <3>. QED  BY <2>1, <2>2, <3>1 DEF KeepsViews
  <2>4. ~ClosesOne
    BY <2>1, <2>2 DEF ClosesOne
  <2>5. ~OpensOne
    <3>1. ASSUME NEW tab, tabs' = Append(tabs, tab)  PROVE FALSE
      <4>1. Len(tabs') = Len(tabs) + 1
        BY <2>2, <3>1, SequenceAppend
      <4>. QED  BY <2>1, <2>2, <4>1
    <3>. QED  BY <3>1 DEF OpensOne
  <2>6. TurnsOne
    BY <2>1, <2>3, <2>4, <2>5, StepPages DEF TypesInv
  <2>7. PICK tab :
           /\ IsTab(tab) /\ IsGridTab(tab) /\ tab.kind = Active.kind
           /\ tab.kind = "table" => tab.filters = Active.filters \/ tab.page = 0
           /\ active_tab \in 1..Len(tabs)
           /\ tabs'[active_tab] = Reloaded(db, tab)
           /\ ShowsPage(db', tabs'[active_tab])
           /\ \A j \in 1..Len(tabs) : j # active_tab => tabs'[j] = tabs[j]
    BY <2>1, <2>6, TurnedTab
  <2>8. i = active_tab
    BY <2>1, <2>2, <2>7
  <2>9. tab.kind = "table" /\ tabs'[i].page = tab.page /\ tabs'[i].filters = tab.filters
    BY <2>1, <2>7, <2>8, ReloadedFields
  <2>10. tabs'[i].page = 0
    BY <2>1, <2>7, <2>8, <2>9 DEF Active
  <2>11. IsPage(Kept(db'[tabs'[i].table], tabs'[i].filters), 0, tabs'[i].grid.rows, tabs'[i].has_next)
    <3>1. IsPage(Shows(db', tabs'[i]), tabs'[i].page * PageSize, tabs'[i].grid.rows, tabs'[i].has_next)
      BY <2>1, <2>7, <2>8 DEF ShowsPage
    <3>2. Shows(db', tabs'[i]) = Kept(db'[tabs'[i].table], tabs'[i].filters)
      BY <2>1 DEF Shows, Reads, Kept
    <3>3. tabs'[i].page * PageSize = 0
      BY <2>10, SessionViewAssumption
    <3>. QED  BY <3>1, <3>2, <3>3
  <2>. QED  BY <2>11, FirstPage
<1>. QED  BY <1>1, InductivePages, PTL DEF Spec, FilteringShowsMatches
=============================================================================
