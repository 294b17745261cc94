---------------------------- MODULE FoldFacts ----------------------------
(***************************************************************************)
(* FoldLeft, step by step.  The fold of the library is a recursive         *)
(* function on sets of positions; what a proof needs is the value after    *)
(* each element.  The operator that is folded is a parameter of this       *)
(* module, so that one proof serves every loop that is written as a fold.  *)
(***************************************************************************)
EXTENDS IndexFacts, SequencesExt

CONSTANT Step(_, _)

\* after[i] is the value when the first i elements are folded.
FoldSteps(after, base, seq, n) ==
  /\ after[0] = base
  /\ \A i \in 1..n : after[i] = Step(after[i - 1], seq[i])
  /\ FoldLeft(Step, base, seq) = after[n]

\* A fold over a sequence of n elements has such values.
THEOREM FoldStepByStep ==
  ASSUME NEW base, NEW seq, NEW n \in Nat, DOMAIN seq = 1..n
  PROVE  \E after : FoldSteps(after, base, seq, n)
<1>. DEFINE Fold(f, k) == f = [u \in SUBSET (1..k) |->
                                 IF u = {} THEN base
                                           ELSE Step(f[u \ {Max(u)}], seq[Max(u)])]
            Missed == {k \in 0..n : ~ \E f : Fold(f, k)}
<1>1. Missed = {}
  <2>1. SUFFICES ASSUME Missed # {} PROVE FALSE
    OBVIOUS
  <2>2. PICK k \in Missed : \A j \in Missed : k <= j
    <3>1. Missed \in SUBSET (0..n)
      OBVIOUS
    <3>. HIDE DEF Missed
    <3>. QED  BY <2>1, <3>1, LeastMember
  <2>3. CASE k = 0
    <3>. DEFINE f == [u \in SUBSET (1..0) |-> base]
    <3>1. \A u \in SUBSET (1..0) : u = {}
      OBVIOUS
    <3>2. Fold(f, 0)
      BY <3>1
    <3>. QED  BY <2>2, <2>3, <3>2
  <2>4. CASE k # 0
    <3>1. k \in 1..n /\ k - 1 \in 0..n
      BY <2>2, <2>4
    <3>2. PICK g : Fold(g, k - 1)
      <4>1. k - 1 \notin Missed
        <5>. HIDE DEF Missed
        <5>. QED  BY <2>2, <3>1
      <4>. HIDE DEF Fold
      <4>. QED  BY <3>1, <4>1
    <3>. DEFINE f == [u \in SUBSET (1..k) |-> IF k \in u THEN Step(g[u \ {k}], seq[k]) ELSE g[u]]
    <3>3. ASSUME NEW u \in SUBSET (1..k)
          PROVE  f[u] = IF u = {} THEN base ELSE Step(f[u \ {Max(u)}], seq[Max(u)])
      <4>1. CASE k \in u
        <5>1. Max(u) = k
          <6>1. u \in SUBSET (0..n) /\ u # {}
            BY <3>1, <4>1
          <6>2. Max(u) \in u /\ Max(u) >= k
            BY <4>1, <6>1, MinMax
          <6>3. Max(u) \in 1..k
            BY <6>2
          <6>. HIDE DEF Fold, f
          <6>. QED  BY <3>1, <6>2, <6>3
        <5>2. u \ {k} \in SUBSET (1..k) /\ k \notin u \ {k}
          OBVIOUS
        <5>3. f[u \ {k}] = g[u \ {k}]
          BY <5>2
        <5>. HIDE DEF Fold
        <5>. QED  BY <4>1, <5>1, <5>3
      <4>2. CASE k \notin u
        <5>1. u \in SUBSET (1..(k - 1))
          BY <3>1, <4>2
        <5>2. f[u] = g[u]
          BY <4>2
        <5>3. g[u] = IF u = {} THEN base ELSE Step(g[u \ {Max(u)}], seq[Max(u)])
          BY <3>2, <5>1
        <5>4. u \ {Max(u)} \in SUBSET (1..k) /\ k \notin u \ {Max(u)}
          BY <4>2
        <5>5. f[u \ {Max(u)}] = g[u \ {Max(u)}]
          BY <5>4
        <5>. HIDE DEF f, Fold
        <5>. QED  BY <5>2, <5>3, <5>5
      <4>. QED  BY <4>1, <4>2
    <3>4. f = [u \in SUBSET (1..k) |-> f[u]]
      OBVIOUS
    <3>5. Fold(f, k)
      <4>. DEFINE h == [u \in SUBSET (1..k) |-> IF u = {} THEN base
                                           ELSE Step(f[u \ {Max(u)}], seq[Max(u)])]
      <4>1. \A u \in SUBSET (1..k) : f[u] = h[u]
        BY <3>3
      <4>2. h = [u \in SUBSET (1..k) |-> h[u]]
        OBVIOUS
      <4>3. f = h
        <5>. HIDE DEF f, h
        <5>. QED  BY <3>4, <4>1, <4>2
      <4>. QED  BY <4>3
    <3>. QED  BY <2>2, <3>5
  <2>. QED  BY <2>3, <2>4
<1>2. PICK f : Fold(f, n) /\ FoldLeft(Step, base, seq) = f[1..n]
  <2>1. \E f : Fold(f, n)
    <3>1. n \in 0..n
      OBVIOUS
    <3>. QED  BY <1>1, <3>1
  <2>2. FoldLeft(Step, base, seq) = (CHOOSE f : Fold(f, n))[1..n]
    BY DEF FoldLeft, MapThenFoldSet
  <2>. HIDE DEF Fold
  <2>. QED  BY <2>1, <2>2
<1>. DEFINE after == [i \in 0..n |-> f[1..i]]
<1>3. after[0] = base
  <2>1. 1..0 = {} /\ {} \in SUBSET (1..n)
    OBVIOUS
  <2>2. f[{}] = base
    BY <1>2, <2>1
  <2>. QED  BY <2>1, <2>2
<1>4. ASSUME NEW i \in 1..n
      PROVE  after[i] = Step(after[i - 1], seq[i])
  <2>1. 1..i \in SUBSET (1..n) /\ i \in 1..i /\ 1..i \in SUBSET (0..n)
    OBVIOUS
  <2>2. Max(1..i) = i
    <3>. DEFINE u == 1..i
    <3>1. u \in SUBSET (0..n) /\ i \in u
      BY <2>1
    <3>2. Max(u) \in u /\ Max(u) >= i
      <4>. HIDE DEF u, Fold, after
      <4>. QED  BY <3>1, MinMax
    <3>. QED  BY <3>2
  <2>3. (1..i) \ {i} = 1..(i - 1)
    OBVIOUS
  <2>4. f[1..i] = Step(f[1..(i - 1)], seq[i])
    BY <1>2, <2>1, <2>2, <2>3
  <2>. QED  BY <2>4
<1>5. FoldLeft(Step, base, seq) = after[n]
  <2>1. n \in 0..n
    OBVIOUS
  <2>. QED  BY <1>2, <2>1
<1>. HIDE DEF after
<1>. QED  BY <1>3, <1>4, <1>5 DEF FoldSteps
=============================================================================
