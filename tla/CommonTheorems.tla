--------------------------- MODULE CommonTheorems ---------------------------
(* What the proofs of several components need.  First minima, maxima and     *)
(* folds: induction is over the members of a set, so that its hypothesis is  *)
(* a set and not an operator.  Then the add functions of McfgStore, for      *)
(* every document, name and outcome of the allocations: they keep its type   *)
(* and never bring in a second sibling of a name; a later free gives back    *)
(* what they have added; and seen as a tree, a document gains the new entry  *)
(* with its elements, at paths that were not there, while every other entry  *)
(* stays as it was.  Last comes what the data of a field is printed with.    *)
EXTENDS McfgData, SequencesExt, WellFoundedInduction, SequenceTheorems,
        FiniteSetTheorems, TLAPS

\* The order of the numbers, as a relation.
Below == {ss \in Nat \X Nat : ss[1] < ss[2]}

\* The numbers are well ordered by it.
LEMMA BelowWellFounded == IsWellFoundedOn(Below, Nat)
BY NatLessThanWellFounded DEF OpToRel, Below

\* A set of numbers that is not empty has a least member.
LEMMA LeastExists ==
    ASSUME NEW S \in SUBSET Nat, S # {}
    PROVE  \E m \in S : \A x \in S : m <= x
<1>1. PICK m \in S : \A y \in S : ~ (<<y, m>> \in Below)
  BY BelowWellFounded, WFMin
<1>2. ASSUME NEW y \in S, y < m PROVE FALSE
  <2>1. <<y, m>> \in Nat \X Nat
    OBVIOUS
  <2> QED
    BY <1>1, <1>2, <2>1 DEF Below
<1>3. \A y \in S : m <= y
  BY <1>2
<1> QED
  BY <1>3

\* A set that holds 0, and with every number its successor, holds all numbers.
THEOREM SetInduction ==
    ASSUME NEW T, 0 \in T, \A n \in Nat : n \in T => n + 1 \in T
    PROVE  \A n \in Nat : n \in T
<1>1. SUFFICES ASSUME Nat \ T # {} PROVE FALSE
  OBVIOUS
<1>2. PICK m \in Nat \ T : \A y \in Nat \ T : m <= y
  BY <1>1, LeastExists
<1>3. m - 1 \in Nat /\ (m - 1) + 1 = m /\ ~ (m <= m - 1)
  BY <1>2
<1>4. m - 1 \in Nat \ T
  BY <1>2, <1>3
<1> QED
  BY <1>2, <1>3, <1>4

\* A set of numbers that is not empty has a minimum.
THEOREM MinProperties ==
    ASSUME NEW S \in SUBSET Nat, S # {}
    PROVE  Min(S) \in S /\ \A x \in S : Min(S) <= x
BY LeastExists DEF Min

\* A set of numbers that is not empty and has a bound has a maximum.
THEOREM MaxProperties ==
    ASSUME NEW n \in Nat, NEW S \in SUBSET (0 .. n), S # {}
    PROVE  Max(S) \in S /\ \A x \in S : x <= Max(S)
<1> DEFINE T == {k \in 0 .. n : n - k \in S}
<1>1. T \in SUBSET Nat
  OBVIOUS
<1>2. T # {}
  <2>1. PICK x \in S : TRUE
    OBVIOUS
  <2>2. n - x \in 0 .. n /\ n - (n - x) = x
    OBVIOUS
  <2> QED
    BY <2>2
<1>3. PICK k \in T : \A y \in T : k <= y
  BY <1>1, <1>2, LeastExists
<1>4. n - k \in S
  OBVIOUS
<1>5. ASSUME NEW x \in S PROVE x <= n - k
  <2>1. x \in 0 .. n /\ n - x \in 0 .. n /\ n - (n - x) = x
    OBVIOUS
  <2>2. k <= n - x
    BY <1>3, <2>1
  <2> QED
    BY <2>1, <2>2
<1>6. \E m \in S : \A x \in S : m >= x
  BY <1>4, <1>5
<1> QED
  BY <1>6 DEF Max

-----------------------------------------------------------------------------
(* A fold of the community modules is a recursive function on the sets of    *)
(* indices, of which only the initial intervals are ever asked for.          *)

\* f folds step over the indices 1 .. n, from the highest one down.
Folds(f, base, step, n) ==
    \A s \in SUBSET (1 .. n) :
        f[s] = IF s = {} THEN base ELSE step[f[s \ {Max(s)}], Max(s)]

\* Max returns the greatest member of a set of indices,
LEMMA MaxOfInterval ==
    ASSUME NEW n \in Nat, NEW s \in SUBSET (1 .. n), s # {}
    PROVE  Max(s) \in s /\ \A x \in s : x <= Max(s)
<1>1. s \in SUBSET (0 .. n)
  OBVIOUS
<1> QED
  BY <1>1, MaxProperties

\* which is the last index where the set has it.
LEMMA MaxWithLast ==
    ASSUME NEW n \in Nat, NEW s \in SUBSET (1 .. n + 1), n + 1 \in s
    PROVE  Max(s) = n + 1
<1>1. n + 1 \in Nat
  OBVIOUS
<1>2. Max(s) \in s /\ n + 1 <= Max(s)
  BY <1>1, MaxOfInterval
<1>3. Max(s) \in 1 .. n + 1
  BY <1>2
<1> QED
  BY <1>2, <1>3

\* One index more: the function is extended to the sets that hold it.
LEMMA FoldExtends ==
    ASSUME NEW A, NEW base \in A, NEW n \in Nat, NEW k \in Nat, k + 1 <= n,
           NEW step \in [A \X (1 .. n) -> A],
           NEW f \in [SUBSET (1 .. k) -> A], Folds(f, base, step, k)
    PROVE  \E g \in [SUBSET (1 .. k + 1) -> A] : Folds(g, base, step, k + 1)
<1> DEFINE g == [s \in SUBSET (1 .. k + 1) |->
                    IF k + 1 \in s THEN step[f[s \ {k + 1}], k + 1] ELSE f[s]]
<1>1. ASSUME NEW s \in SUBSET (1 .. k + 1)
      PROVE  s \ {k + 1} \in SUBSET (1 .. k)
  OBVIOUS
<1>2. g \in [SUBSET (1 .. k + 1) -> A]
  <2> SUFFICES ASSUME NEW s \in SUBSET (1 .. k + 1)
               PROVE  (IF k + 1 \in s THEN step[f[s \ {k + 1}], k + 1] ELSE f[s]) \in A
    OBVIOUS
  <2>1. CASE k + 1 \in s
    <3>1. f[s \ {k + 1}] \in A
      BY <1>1
    <3>2. <<f[s \ {k + 1}], k + 1>> \in A \X (1 .. n)
      BY <3>1
    <3> QED
      BY <2>1, <3>2
  <2>2. CASE k + 1 \notin s
    <3>1. s \in SUBSET (1 .. k)
      BY <1>1, <2>2
    <3> QED
      BY <2>2, <3>1
  <2> QED
    BY <2>1, <2>2
<1>3. ASSUME NEW s \in SUBSET (1 .. k + 1)
      PROVE  g[s] = IF s = {} THEN base ELSE step[g[s \ {Max(s)}], Max(s)]
  <2>1. CASE k + 1 \in s
    <3>1. Max(s) = k + 1
      BY <2>1, MaxWithLast
    <3>2. s \ {k + 1} \in SUBSET (1 .. k + 1) /\ k + 1 \notin s \ {k + 1}
      OBVIOUS
    <3>3. g[s \ {k + 1}] = f[s \ {k + 1}]
      BY <3>2
    <3>4. g[s] = step[f[s \ {k + 1}], k + 1]
      BY <2>1
    <3> QED
      BY <2>1, <3>1, <3>3, <3>4
  <2>2. CASE k + 1 \notin s
    <3>1. s \in SUBSET (1 .. k)
      BY <1>1, <2>2
    <3>2. g[s] = f[s]
      BY <2>2
    <3>3. g[s \ {Max(s)}] = f[s \ {Max(s)}]
      <4>1. s \ {Max(s)} \in SUBSET (1 .. k + 1) /\ k + 1 \notin s \ {Max(s)}
        BY <2>2
      <4> QED
        BY <4>1
    <3> HIDE DEF g
    <3> QED
      BY <3>1, <3>2, <3>3 DEF Folds
  <2> QED
    BY <2>1, <2>2
<1> HIDE DEF g
<1> QED
  BY <1>2, <1>3 DEF Folds

\* There is a function that folds, whatever is folded.
THEOREM FoldExists ==
    ASSUME NEW A, NEW base \in A, NEW n \in Nat, NEW step \in [A \X (1 .. n) -> A]
    PROVE  \E f \in [SUBSET (1 .. n) -> A] : Folds(f, base, step, n)
<1> DEFINE T == {k \in Nat : k <= n =>
                    \E f \in [SUBSET (1 .. k) -> A] : Folds(f, base, step, k)}
<1>1. 0 \in T
  <2> DEFINE f == [s \in SUBSET (1 .. 0) |-> base]
  <2>1. f \in [SUBSET (1 .. 0) -> A]
    OBVIOUS
  <2>2. ASSUME NEW s \in SUBSET (1 .. 0)
        PROVE  s = {} /\ f[s] = base
    OBVIOUS
  <2> HIDE DEF f
  <2>3. Folds(f, base, step, 0)
    BY <2>2 DEF Folds
  <2> QED
    BY <2>1, <2>3
<1>2. ASSUME NEW k \in Nat, k \in T
      PROVE  k + 1 \in T
  <2>1. ASSUME k + 1 <= n
        PROVE  \E g \in [SUBSET (1 .. k + 1) -> A] : Folds(g, base, step, k + 1)
    <3>1. k <= n
      BY <2>1
    <3>2. PICK f \in [SUBSET (1 .. k) -> A] : Folds(f, base, step, k)
      BY <1>2, <3>1
    <3> QED
      BY <2>1, <3>2, FoldExtends
  <2>2. k + 1 \in Nat
    OBVIOUS
  <2> QED
    BY <2>1, <2>2
<1>3. n \in T
  <2> HIDE DEF T
  <2> QED
    BY <1>1, <1>2, SetInduction
<1>4. n <= n
  OBVIOUS
<1> QED
  BY <1>3, <1>4

\* f folds as long as its values are in A.
FoldsOver(f, A, base, step, n) ==
    /\ f[{}] = base
    /\ \A s \in SUBSET (1 .. n) :
          s # {} /\ f[s \ {Max(s)}] \in A => f[s] = step[f[s \ {Max(s)}], Max(s)]

\* Then they all are in A.
LEMMA FoldTyped ==
    ASSUME NEW A, NEW base \in A, NEW n \in Nat, NEW step \in [A \X (1 .. n) -> A],
           NEW f, FoldsOver(f, A, base, step, n)
    PROVE  \A s \in SUBSET (1 .. n) : f[s] \in A
<1> DEFINE T == {k \in Nat : k <= n => \A s \in SUBSET (1 .. k) : f[s] \in A}
<1>1. 0 \in T
  <2>1. \A s \in SUBSET (1 .. 0) : s = {}
    OBVIOUS
  <2> QED
    BY <2>1 DEF FoldsOver
<1>2. ASSUME NEW k \in Nat, k \in T
      PROVE  k + 1 \in T
  <2>1. ASSUME k + 1 <= n, NEW s \in SUBSET (1 .. k + 1)
        PROVE  f[s] \in A
    <3>1. \A r \in SUBSET (1 .. k) : f[r] \in A
      BY <1>2, <2>1
    <3>2. CASE k + 1 \notin s
      <4>1. s \in SUBSET (1 .. k)
        BY <2>1, <3>2
      <4> QED
        BY <3>1, <4>1
    <3>3. CASE k + 1 \in s
      <4>1. Max(s) = k + 1
        BY <2>1, <3>3, MaxWithLast
      <4>2. s \ {k + 1} \in SUBSET (1 .. k)
        BY <2>1
      <4>3. s \in SUBSET (1 .. n) /\ s # {}
        BY <2>1, <3>3
      <4>4. f[s \ {k + 1}] \in A
        BY <3>1, <4>2
      <4>5. f[s] = step[f[s \ {k + 1}], k + 1]
        BY <4>1, <4>3, <4>4 DEF FoldsOver
      <4>6. <<f[s \ {k + 1}], k + 1>> \in A \X (1 .. n)
        BY <2>1, <4>4
      <4> QED
        BY <4>5, <4>6
    <3> QED
      BY <3>2, <3>3
  <2>2. k + 1 \in Nat
    OBVIOUS
  <2> QED
    BY <2>1, <2>2
<1>3. n \in T
  <2> HIDE DEF T
  <2> QED
    BY <1>1, <1>2, SetInduction
<1>4. n <= n
  OBVIOUS
<1> QED
  BY <1>3, <1>4

\* The result of a loop over the indices: h[i] is the value after i iterations.
Loops(result, A, base, step, n) ==
    \E h \in [0 .. n -> A] :
        h[0] = base /\ h[n] = result /\ \A i \in 1 .. n : h[i] = step[h[i - 1], i]

\* What such a function computes is what a loop over the indices computes.
THEOREM FoldIsLoop ==
    ASSUME NEW A, NEW base \in A, NEW n \in Nat, NEW step \in [A \X (1 .. n) -> A],
           NEW f, FoldsOver(f, A, base, step, n)
    PROVE  Loops(f[1 .. n], A, base, step, n)
<1> DEFINE h == [i \in 0 .. n |-> f[1 .. i]]
<1>1. \A s \in SUBSET (1 .. n) : f[s] \in A
  BY FoldTyped
<1>2. h \in [0 .. n -> A]
  <2>1. \A i \in 0 .. n : 1 .. i \in SUBSET (1 .. n)
    OBVIOUS
  <2> QED
    BY <1>1, <2>1
<1>3. h[0] = base
  <2>1. 1 .. 0 = {} /\ 0 \in 0 .. n
    OBVIOUS
  <2> QED
    BY <2>1 DEF FoldsOver
<1>4. h[n] = f[1 .. n]
  OBVIOUS
<1>5. ASSUME NEW i \in 1 .. n
      PROVE  h[i] = step[h[i - 1], i]
  <2>1. /\ i - 1 \in Nat /\ (i - 1) + 1 = i /\ i \in 1 .. i
        /\ 1 .. i \in SUBSET (1 .. n) /\ 1 .. i - 1 \in SUBSET (1 .. n)
    OBVIOUS
  <2>2. Max(1 .. i) = i
    BY <2>1, MaxWithLast
  <2>3. (1 .. i) \ {i} = 1 .. i - 1
    OBVIOUS
  <2>4. f[1 .. i] = step[f[1 .. i - 1], i]
    BY <1>1, <2>1, <2>2, <2>3 DEF FoldsOver
  <2>5. h[i] = f[1 .. i] /\ h[i - 1] = f[1 .. i - 1]
    OBVIOUS
  <2> QED
    BY <2>4, <2>5
<1> HIDE DEF h
<1> QED
  BY <1>2, <1>3, <1>4, <1>5 DEF Loops

-----------------------------------------------------------------------------
(* Sums: folds that add up one number for each index.                        *)

\* total is the sum of w[1] .. w[n].
Sums(total, w, n) ==
    \E h \in [0 .. n -> Nat] :
        h[0] = 0 /\ h[n] = total /\ \A i \in 1 .. n : h[i] = h[i - 1] + w[i]

\* What a fold that adds up looks like, once FoldLeft is expanded.
SumBody(g, w, n) ==
    [s \in SUBSET (1 .. n) |-> IF s = {} THEN 0 ELSE g[s \ {Max(s)}] + w[Max(s)]]

\* There is a function that adds up, whatever the numbers are.
LEMMA SumExists ==
    ASSUME NEW n \in Nat, NEW w \in [1 .. n -> Nat]
    PROVE  \E g : g = SumBody(g, w, n)
<1> DEFINE step == [p \in Nat \X (1 .. n) |-> p[1] + w[p[2]]]
<1>1. step \in [Nat \X (1 .. n) -> Nat]
  <2>1. ASSUME NEW p \in Nat \X (1 .. n) PROVE p[1] + w[p[2]] \in Nat
    <3>1. p[1] \in Nat /\ w[p[2]] \in Nat
      OBVIOUS
    <3> QED
      BY <3>1
  <2> QED
    BY <2>1
<1>2. ASSUME NEW a \in Nat, NEW i \in 1 .. n PROVE step[a, i] = a + w[i]
  OBVIOUS
<1> HIDE DEF step
<1>3. PICK g \in [SUBSET (1 .. n) -> Nat] : Folds(g, 0, step, n)
  BY <1>1, FoldExists
<1>4. ASSUME NEW s \in SUBSET (1 .. n)
      PROVE  g[s] = IF s = {} THEN 0 ELSE g[s \ {Max(s)}] + w[Max(s)]
  <2>1. CASE s = {}
    BY <1>3, <2>1 DEF Folds
  <2>2. CASE s # {}
    <3>1. Max(s) \in 1 .. n /\ g[s \ {Max(s)}] \in Nat
      BY <1>3, <2>2, MaxOfInterval
    <3>2. g[s] = step[g[s \ {Max(s)}], Max(s)]
      BY <1>3, <2>2 DEF Folds
    <3> QED
      BY <1>2, <2>2, <3>1, <3>2
  <2> QED
    BY <2>1, <2>2
<1>5. g = SumBody(g, w, n)
  BY <1>3, <1>4 DEF SumBody
<1> QED
  BY <1>5

\* And what it computes is the sum.
THEOREM FoldSums ==
    ASSUME NEW n \in Nat, NEW w \in [1 .. n -> Nat], NEW f, f = SumBody(f, w, n)
    PROVE  Sums(f[1 .. n], w, n)
<1> DEFINE step == [p \in Nat \X (1 .. n) |-> p[1] + w[p[2]]]
<1>1. step \in [Nat \X (1 .. n) -> Nat]
  <2>1. ASSUME NEW p \in Nat \X (1 .. n) PROVE p[1] + w[p[2]] \in Nat
    <3>1. p[1] \in Nat /\ w[p[2]] \in Nat
      OBVIOUS
    <3> QED
      BY <3>1
  <2> QED
    BY <2>1
<1>2. ASSUME NEW a \in Nat, NEW i \in 1 .. n PROVE step[a, i] = a + w[i]
  OBVIOUS
<1> HIDE DEF step
<1>3. FoldsOver(f, Nat, 0, step, n)
  <2>1. f[{}] = 0
    BY DEF SumBody
  <2>2. ASSUME NEW s \in SUBSET (1 .. n), s # {}, f[s \ {Max(s)}] \in Nat
        PROVE  f[s] = step[f[s \ {Max(s)}], Max(s)]
    <3>1. Max(s) \in 1 .. n
      BY <2>2, MaxOfInterval
    <3>2. f[s] = f[s \ {Max(s)}] + w[Max(s)]
      BY <2>2 DEF SumBody
    <3> QED
      BY <1>2, <2>2, <3>1, <3>2
  <2> QED
    BY <2>1, <2>2 DEF FoldsOver
<1>4. PICK h \in [0 .. n -> Nat] :
        /\ h[0] = 0 /\ h[n] = f[1 .. n]
        /\ \A i \in 1 .. n : h[i] = step[h[i - 1], i]
  <2>1. Loops(f[1 .. n], Nat, 0, step, n)
    BY <1>1, <1>3, FoldIsLoop
  <2> QED
    BY <2>1 DEF Loops
<1>5. \A i \in 1 .. n : h[i] = h[i - 1] + w[i]
  <2> TAKE i \in 1 .. n
  <2>1. i - 1 \in 0 .. n
    OBVIOUS
  <2> QED
    BY <1>2, <1>4, <2>1
<1> QED
  BY <1>4, <1>5 DEF Sums

\* Rows of n numbers, that are the same but for some.
Numbers(n) == [1 .. n -> Nat]
SameUpTo(v, w, n)      == \A i \in 1 .. n : v[i] = w[i]
SameButAt(v, w, n, k) == \A i \in 1 .. n : i # k => v[i] = w[i]

\* Numbers have one sum.
LEMMA SumIsOnly ==
    ASSUME NEW n \in Nat, NEW w \in Numbers(n), NEW a, NEW b, Sums(a, w, n), Sums(b, w, n)
    PROVE  a = b
<1>1. PICK h \in [0 .. n -> Nat] :
        h[0] = 0 /\ h[n] = a /\ \A i \in 1 .. n : h[i] = h[i - 1] + w[i]
  BY DEF Sums
<1>2. PICK g \in [0 .. n -> Nat] :
        g[0] = 0 /\ g[n] = b /\ \A i \in 1 .. n : g[i] = g[i - 1] + w[i]
  BY DEF Sums
<1> DEFINE T == {i \in Nat : i <= n => g[i] = h[i]}
<1>3. 0 \in T
  BY <1>1, <1>2
<1>4. ASSUME NEW i \in Nat, i \in T PROVE i + 1 \in T
  <2>1. CASE i + 1 <= n
    <3>1. i + 1 \in 1 .. n /\ (i + 1) - 1 = i /\ i <= n
      BY <2>1
    <3>2. h[i + 1] = h[i] + w[i + 1] /\ g[i + 1] = g[i] + w[i + 1]
      BY <1>1, <1>2, <3>1
    <3> QED
      BY <1>4, <3>1, <3>2
  <2> QED
    BY <2>1
<1>5. n \in T
  <2> HIDE DEF T
  <2> QED
    BY <1>3, <1>4, SetInduction
<1> QED
  BY <1>1, <1>2, <1>5

\* Two sums of numbers that differ at one index, or at none, differ by the
\* difference there.
THEOREM SumOfReplaced ==
    ASSUME NEW n \in Nat, NEW w \in Numbers(n), NEW v \in Numbers(n),
           NEW k \in 1 .. n, SameButAt(v, w, n, k),
           NEW a, NEW b, Sums(a, w, n), Sums(b, v, n)
    PROVE  a \in Nat /\ b \in Nat /\ b = a + v[k] - w[k]
<1>1. PICK h \in [0 .. n -> Nat] :
        h[0] = 0 /\ h[n] = a /\ \A i \in 1 .. n : h[i] = h[i - 1] + w[i]
  BY DEF Sums
<1>2. PICK g \in [0 .. n -> Nat] :
        g[0] = 0 /\ g[n] = b /\ \A i \in 1 .. n : g[i] = g[i - 1] + v[i]
  BY DEF Sums
<1> DEFINE T == {i \in Nat : i <= n => g[i] = IF i < k THEN h[i] ELSE h[i] + v[k] - w[k]}
<1>3. 0 \in T
  BY <1>1, <1>2
<1>4. ASSUME NEW i \in Nat, i \in T PROVE i + 1 \in T
  <2>1. CASE i + 1 <= n
    <3>1. i + 1 \in 1 .. n /\ (i + 1) - 1 = i /\ i \in 0 .. n /\ i <= n
      BY <2>1
    <3>2. h[i + 1] = h[i] + w[i + 1] /\ g[i + 1] = g[i] + v[i + 1]
      BY <1>1, <1>2, <3>1
    <3>3. g[i] = IF i < k THEN h[i] ELSE h[i] + v[k] - w[k]
      BY <1>4, <3>1
    <3>4. h[i] \in Nat /\ w[i + 1] \in Nat /\ v[i + 1] \in Nat /\ v[k] \in Nat /\ w[k] \in Nat
      BY <1>1, <3>1 DEF Numbers
    <3>5. i + 1 # k => v[i + 1] = w[i + 1]
      BY <3>1 DEF SameUpTo, SameButAt, Numbers
    <3>6. CASE i + 1 < k
      <4>1. i < k /\ i + 1 # k
        BY <3>6
      <4>2. g[i] = h[i] /\ v[i + 1] = w[i + 1]
        BY <3>3, <3>5, <4>1
      <4> QED
        BY <3>2, <3>6, <4>2
    <3>7. CASE i + 1 = k
      <4>1. g[i] = h[i]
        <5>1. i < k
          BY <3>7
        <5> QED
          BY <3>3, <5>1
      <4>2. g[i + 1] = h[i + 1] + v[k] - w[k]
        <5>1. v[i + 1] = v[k] /\ w[i + 1] = w[k]
          BY <3>7
        <5> QED
          BY <3>2, <3>4, <4>1, <5>1
      <4> QED
        BY <3>7, <4>2
    <3>8. CASE i + 1 > k
      <4>1. ~ (i < k) /\ ~ (i + 1 < k) /\ i + 1 # k
        BY <3>8
      <4>2. g[i] = h[i] + v[k] - w[k] /\ v[i + 1] = w[i + 1]
        BY <3>3, <3>5, <4>1
      <4>3. g[i + 1] = h[i + 1] + v[k] - w[k]
        BY <3>2, <3>4, <4>2
      <4> QED
        BY <4>1, <4>3
    <3> QED
      BY <3>6, <3>7, <3>8
  <2>2. CASE ~ (i + 1 <= n)
    BY <2>2
  <2> QED
    BY <2>1, <2>2
<1>5. n \in T
  <2> HIDE DEF T
  <2> QED
    BY <1>3, <1>4, SetInduction
<1>6. g[n] = h[n] + v[k] - w[k]
  <2>1. n <= n /\ ~ (n < k)
    OBVIOUS
  <2> QED
    BY <1>5, <2>1
<1>7. h[n] \in Nat /\ g[n] \in Nat
  BY <1>1, <1>2
<1> QED
  BY <1>1, <1>2, <1>6, <1>7

\* One number more adds that number.
THEOREM SumOfMore ==
    ASSUME NEW n \in Nat, NEW w \in Numbers(n), NEW v \in Numbers(n + 1),
           SameUpTo(v, w, n),
           NEW a, NEW b, Sums(a, w, n), Sums(b, v, n + 1)
    PROVE  a \in Nat /\ b \in Nat /\ b = a + v[n + 1]
<1>1. PICK h \in [0 .. n -> Nat] :
        h[0] = 0 /\ h[n] = a /\ \A i \in 1 .. n : h[i] = h[i - 1] + w[i]
  BY DEF Sums
<1>2. PICK g \in [0 .. n + 1 -> Nat] :
        g[0] = 0 /\ g[n + 1] = b /\ \A i \in 1 .. n + 1 : g[i] = g[i - 1] + v[i]
  BY DEF Sums
<1> DEFINE T == {i \in Nat : i <= n => g[i] = h[i]}
<1>3. 0 \in T
  BY <1>1, <1>2
<1>4. ASSUME NEW i \in Nat, i \in T PROVE i + 1 \in T
  <2>1. CASE i + 1 <= n
    <3>1. i + 1 \in 1 .. n /\ (i + 1) - 1 = i /\ i \in 0 .. n /\ i <= n /\ i + 1 \in 1 .. n + 1
      BY <2>1
    <3>2. h[i + 1] = h[i] + w[i + 1] /\ g[i + 1] = g[i] + v[i + 1]
      BY <1>1, <1>2, <3>1
    <3>3. g[i] = h[i] /\ v[i + 1] = w[i + 1]
      BY <1>4, <3>1 DEF SameUpTo, SameButAt, Numbers
    <3> QED
      BY <3>2, <3>3
  <2>2. CASE ~ (i + 1 <= n)
    BY <2>2
  <2> QED
    BY <2>1, <2>2
<1>5. n \in T
  <2> HIDE DEF T
  <2> QED
    BY <1>3, <1>4, SetInduction
<1>6. g[n] = h[n]
  <2>1. n <= n
    OBVIOUS
  <2> QED
    BY <1>5, <2>1
<1>7. n + 1 \in 1 .. n + 1 /\ (n + 1) - 1 = n /\ n \in 0 .. n /\ n + 1 \in 0 .. n + 1
  OBVIOUS
<1>8. g[n + 1] = g[n] + v[n + 1]
  BY <1>2, <1>7
<1>9. h[n] \in Nat /\ g[n + 1] \in Nat
  BY <1>1, <1>2, <1>7
<1> QED
  BY <1>1, <1>2, <1>6, <1>8, <1>9

\* The sum of what b says of the elements of a sequence.
SumOver(b, seq) ==
    CHOOSE total : Sums(total, [k \in 1 .. Len(seq) |-> b[seq[k]]], Len(seq))

\* There is one, and it is the only one.
THEOREM SumOverIs ==
    ASSUME NEW S, NEW b \in [S -> Nat], NEW seq \in Seq(S)
    PROVE  /\ SumOver(b, seq) \in Nat
           /\ Sums(SumOver(b, seq), [k \in 1 .. Len(seq) |-> b[seq[k]]], Len(seq))
           /\ \A total : Sums(total, [k \in 1 .. Len(seq) |-> b[seq[k]]], Len(seq))
                            => total = SumOver(b, seq)
<1> DEFINE n == Len(seq)
           w == [k \in 1 .. n |-> b[seq[k]]]
<1>1. n \in Nat /\ w \in Numbers(n)
  BY DEF Numbers
<1>2. SumOver(b, seq) = CHOOSE total : Sums(total, w, n)
  BY DEF SumOver
<1> HIDE DEF w, n
<1>3. PICK g : g = SumBody(g, w, n)
  BY <1>1, SumExists DEF Numbers
<1>4. Sums(g[1 .. n], w, n)
  BY <1>1, <1>3, FoldSums DEF Numbers
<1>5. Sums(SumOver(b, seq), w, n)
  BY <1>2, <1>4
<1>6. ASSUME NEW total, Sums(total, w, n)
      PROVE  total = SumOver(b, seq)
  BY <1>1, <1>5, <1>6, SumIsOnly
<1>7. SumOver(b, seq) \in Nat
  <2>1. n \in 0 .. n
    BY <1>1
  <2> QED
    BY <1>5, <2>1 DEF Sums
<1> QED
  BY <1>5, <1>6, <1>7 DEF w, n

\* An element more adds its number,
THEOREM SumOfAppend ==
    ASSUME NEW S, NEW b \in [S -> Nat], NEW seq \in Seq(S), NEW x \in S
    PROVE  SumOver(b, Append(seq, x)) = SumOver(b, seq) + b[x]
<1> DEFINE n == Len(seq)
           more == Append(seq, x)
           w == [k \in 1 .. n |-> b[seq[k]]]
           v == [k \in 1 .. n + 1 |-> b[more[k]]]
<1>1. more \in Seq(S) /\ Len(more) = n + 1 /\ n \in Nat /\ more[n + 1] = x
      /\ \A k \in 1 .. n : more[k] = seq[k]
  OBVIOUS
<1>2. w \in Numbers(n) /\ v \in Numbers(n + 1) /\ v[n + 1] = b[x]
      /\ SameUpTo(v, w, n)
  <2> HIDE DEF more, n
  <2>1. \A k \in 1 .. n + 1 : more[k] \in S
    BY <1>1
  <2>2. n + 1 \in 1 .. n + 1 /\ \A k \in 1 .. n : k \in 1 .. n + 1
    BY <1>1
  <2>3. \A k \in 1 .. n : seq[k] \in S
    BY <1>1, <2>1, <2>2
  <2> QED
    BY <1>1, <2>1, <2>2, <2>3 DEF SameUpTo, SameButAt, Numbers
<1>3. Sums(SumOver(b, seq), w, n)
  BY SumOverIs
<1>4. Sums(SumOver(b, more), v, n + 1)
  <2> HIDE DEF more
  <2>1. Sums(SumOver(b, more), [k \in 1 .. Len(more) |-> b[more[k]]], Len(more))
    BY <1>1, SumOverIs
  <2> QED
    BY <1>1, <2>1
<1> HIDE DEF n, more, w, v
<1>5. SumOver(b, more) = SumOver(b, seq) + v[n + 1]
  BY <1>1, <1>2, <1>3, <1>4, SumOfMore
<1> QED
  BY <1>2, <1>5 DEF more

\* What a sum becomes when x takes the place of element i.
SumWith(b, seq, i, x) == SumOver(b, seq) + b[x] - b[seq[i]]

\* An element in place of another one adds the difference of the two.
LEMMA SumOfExchange ==
    ASSUME NEW S, NEW b \in [S -> Nat], NEW seq \in Seq(S), NEW i \in 1 .. Len(seq), NEW x \in S
    PROVE  SumOver(b, [seq EXCEPT ![i] = x]) = SumWith(b, seq, i, x)
<1> DEFINE n == Len(seq)
           other == [seq EXCEPT ![i] = x]
           w == [k \in 1 .. n |-> b[seq[k]]]
           v == [k \in 1 .. n |-> b[other[k]]]
<1>1. /\ other \in Seq(S) /\ Len(other) = n /\ n \in Nat /\ i \in 1 .. n /\ other[i] = x
      /\ \A k \in 1 .. n : k # i => other[k] = seq[k]
  OBVIOUS
<1>2. /\ w \in Numbers(n) /\ v \in Numbers(n) /\ v[i] = b[x] /\ w[i] = b[seq[i]]
      /\ SameButAt(v, w, n, i)
  <2> HIDE DEF other
  <2>1. \A k \in 1 .. n : other[k] \in S /\ seq[k] \in S
    BY <1>1
  <2> QED
    BY <1>1, <2>1 DEF SameUpTo, SameButAt, Numbers
<1>3. Sums(SumOver(b, seq), w, n)
  BY SumOverIs
<1>4. Sums(SumOver(b, other), v, n)
  <2> HIDE DEF other
  <2>1. Sums(SumOver(b, other), [k \in 1 .. Len(other) |-> b[other[k]]], Len(other))
    BY <1>1, SumOverIs
  <2> QED
    BY <1>1, <2>1
<1> HIDE DEF n, other, w, v
<1>5. /\ SumOver(b, seq) \in Nat /\ SumOver(b, other) \in Nat
      /\ SumOver(b, other) = SumOver(b, seq) + v[i] - w[i]
  <2>1. n \in Nat /\ i \in 1 .. n /\ v \in Numbers(n) /\ w \in Numbers(n)
        /\ SameButAt(v, w, n, i)
    BY <1>1, <1>2
  <2> QED
    BY <1>3, <1>4, <2>1, SumOfReplaced
<1> QED
  BY <1>2, <1>5 DEF other, SumWith

\* and one in place of another the difference.
THEOREM SumOfExcept ==
    ASSUME NEW S, NEW b \in [S -> Nat], NEW seq \in Seq(S), NEW i \in 1 .. Len(seq), NEW x \in S
    PROVE  SumOver(b, [seq EXCEPT ![i] = x]) = SumOver(b, seq) + b[x] - b[seq[i]]
<1>1. SumOver(b, [seq EXCEPT ![i] = x]) = SumWith(b, seq, i, x)
  BY SumOfExchange
<1> QED
  BY <1>1 DEF SumWith

\* A sum over nothing is none.
THEOREM SumOfEmpty ==
    ASSUME NEW S, NEW b \in [S -> Nat]
    PROVE  SumOver(b, << >>) = 0
<1>1. << >> \in Seq(S) /\ Len(<< >>) = 0
  OBVIOUS
<1>2. Sums(SumOver(b, << >>), [k \in 1 .. Len(<< >>) |-> b[<< >>[k]]], Len(<< >>))
  BY <1>1, SumOverIs
<1> QED
  BY <1>1, <1>2 DEF Sums

-----------------------------------------------------------------------------
(* The add functions of McfgStore.                                           *)

\* remove_newline returns a name for a name, and NULL for NULL.
LEMMA RemoveNewlineType ==
    ASSUME NEW name \in Name \cup {NULL}
    PROVE  remove_newline(name) \in Name \cup {NULL}
BY DEF remove_newline, Name

\* An array that gets a new entry at its end, or none, keeps its type.
LEMMA AddNamedType ==
    ASSUME NEW S, NEW seq \in Seq(S), NEW item, NEW duplicate, NEW arrayOk,
           [item EXCEPT !.name = remove_newline(item.name)] \in S
    PROVE  AddNamed(seq, item, duplicate, arrayOk).seq \in Seq(S)
BY DEF AddNamed

\* An entry is only added when its name, without the line feed, is not there.
LEMMA AddNamedUnique ==
    ASSUME NEW S, NEW seq \in Seq(S), NEW item, NEW duplicate, NEW arrayOk,
           [item EXCEPT !.name = remove_newline(item.name)].name
             = remove_newline(item.name),
           UniqueNames(seq)
    PROVE  UniqueNames(AddNamed(seq, item, duplicate, arrayOk).seq)
<1> DEFINE name == remove_newline(item.name)
           new  == [item EXCEPT !.name = name]
           add  == AddNamed(seq, item, duplicate, arrayOk)
<1>1. CASE add.seq = seq
  BY <1>1
<1>2. CASE Hits(seq, name) = {} /\ add.seq = Append(seq, new)
  <2>1. \A i \in 1 .. Len(seq) : seq[i].name # new.name
    BY <1>2 DEF Hits
  <2>2. /\ Len(Append(seq, new)) = Len(seq) + 1
        /\ \A i \in 1 .. Len(seq) : Append(seq, new)[i] = seq[i]
        /\ Append(seq, new)[Len(seq) + 1] = new
    OBVIOUS
  <2>3. DOMAIN Append(seq, new) = 1 .. Len(seq) + 1
    OBVIOUS
  <2> QED
    BY <1>2, <2>1, <2>2, <2>3 DEF UniqueNames
<1>3. \/ add.seq = seq
      \/ Hits(seq, name) = {} /\ add.seq = Append(seq, new)
  BY DEF AddNamed
<1> QED
  BY <1>1, <1>2, <1>3

\* Every entry of the array was there before, or is the new one.
LEMMA AddNamedEntries ==
    ASSUME NEW S, NEW seq \in Seq(S), NEW item, NEW duplicate, NEW arrayOk
    PROVE  LET r == AddNamed(seq, item, duplicate, arrayOk).seq
               new == [item EXCEPT !.name = remove_newline(item.name)]
           IN  /\ Len(r) \in Nat /\ Len(r) >= Len(seq)
               /\ DOMAIN r = 1 .. Len(r)
               /\ \A i \in DOMAIN r : \/ i \in DOMAIN seq /\ r[i] = seq[i]
                                      \/ r[i] = new
BY DEF AddNamed

\* The parts of a document are sequences of entries of their types.
LEMMA FileParts ==
    ASSUME NEW f \in File
    PROVE  /\ f.sectors \in Seq(Sector) /\ f.dynfields \in Seq(Field)
           /\ \A s \in DOMAIN f.sectors : f.sectors[s] \in Sector
<1>1. f.sectors \in Seq(Sector) /\ f.dynfields \in Seq(Field)
  BY DEF File
<1> QED
  BY <1>1

\* So are those of a sector,
LEMMA SectorParts ==
    ASSUME NEW sector \in Sector
    PROVE  /\ sector.sections \in Seq(Section) /\ sector.name \in Name \cup {NULL}
           /\ \A t \in DOMAIN sector.sections : sector.sections[t] \in Section
<1>1. sector.sections \in Seq(Section) /\ sector.name \in Name \cup {NULL}
  BY DEF Sector
<1> QED
  BY <1>1

\* and those of a section.
LEMMA SectionParts ==
    ASSUME NEW section \in Section
    PROVE  /\ section.fields \in Seq(Field) /\ section.name \in Name \cup {NULL}
           /\ \A i \in DOMAIN section.fields : section.fields[i] \in Field
<1>1. section.fields \in Seq(Field) /\ section.name \in Name \cup {NULL}
  BY DEF Section
<1> QED
  BY <1>1

-----------------------------------------------------------------------------
(* Changing one sector or one section of a document.                         *)

\* A document with one of its sectors replaced is a document, and keeps its
\* names unique if the new sector has the name of the old one.
LEMMA ReplaceSector ==
    ASSUME NEW f \in File, NEW s \in DOMAIN f.sectors, NEW sector \in Sector
    PROVE  LET g == [f EXCEPT !.sectors[s] = sector]
           IN  /\ g \in File
               /\ AllNamesUnique(f) /\ sector.name = f.sectors[s].name /\ SectorOK(sector)
                  => AllNamesUnique(g)
<1> DEFINE g == [f EXCEPT !.sectors[s] = sector]
<1>1. /\ f.sectors \in Seq(Sector) /\ f.dynfields \in Seq(Field)
      /\ f = [sectors |-> f.sectors, dynfields |-> f.dynfields]
  BY DEF File
<1>2. g = [sectors |-> [f.sectors EXCEPT ![s] = sector], dynfields |-> f.dynfields]
  BY <1>1
<1>3. [f.sectors EXCEPT ![s] = sector] \in Seq(Sector)
  BY <1>1
<1>4. g \in File
  BY <1>1, <1>2, <1>3 DEF File
<1>5. /\ DOMAIN g.sectors = DOMAIN f.sectors
      /\ g.sectors[s] = sector
      /\ \A i \in DOMAIN f.sectors : i # s => g.sectors[i] = f.sectors[i]
      /\ g.dynfields = f.dynfields
  BY <1>1, <1>2
<1>6. ASSUME AllNamesUnique(f), sector.name = f.sectors[s].name, SectorOK(sector)
      PROVE  AllNamesUnique(g)
  <2>1. \A i \in DOMAIN g.sectors : g.sectors[i].name = f.sectors[i].name
    BY <1>5, <1>6
  <2>2. UniqueNames(g.sectors)
    BY <1>5, <1>6, <2>1 DEF AllNamesUnique, UniqueNames
  <2>3. \A i \in DOMAIN g.sectors : SectorOK(g.sectors[i])
    BY <1>5, <1>6 DEF AllNamesUnique
  <2> QED
    BY <1>5, <1>6, <2>2, <2>3 DEF AllNamesUnique
<1> QED
  BY <1>4, <1>6

\* The same for a sector with one of its sections replaced.
LEMMA ReplaceSection ==
    ASSUME NEW sector \in Sector, NEW t \in DOMAIN sector.sections,
           NEW section \in Section
    PROVE  LET new == [sector EXCEPT !.sections[t] = section]
           IN  /\ new \in Sector
               /\ new.name = sector.name
               /\ /\ SectorOK(sector)
                  /\ section.name = sector.sections[t].name
                  /\ UniqueNames(section.fields)
                  => SectorOK(new)
<1> DEFINE new == [sector EXCEPT !.sections[t] = section]
<1>1. /\ sector.sections \in Seq(Section) /\ sector.name \in Name \cup {NULL}
      /\ sector = [name |-> sector.name, sections |-> sector.sections]
  BY DEF Sector
<1>2. new = [name |-> sector.name, sections |-> [sector.sections EXCEPT ![t] = section]]
  BY <1>1
<1>3. [sector.sections EXCEPT ![t] = section] \in Seq(Section)
  BY <1>1
<1>4. new \in Sector /\ new.name = sector.name
  BY <1>1, <1>2, <1>3 DEF Sector
<1>5. /\ DOMAIN new.sections = DOMAIN sector.sections
      /\ new.sections[t] = section
      /\ \A i \in DOMAIN sector.sections : i # t => new.sections[i] = sector.sections[i]
  BY <1>1, <1>2
<1>6. ASSUME SectorOK(sector), section.name = sector.sections[t].name,
             UniqueNames(section.fields)
      PROVE  SectorOK(new)
  <2>1. \A i \in DOMAIN new.sections : new.sections[i].name = sector.sections[i].name
    BY <1>5, <1>6
  <2>2. UniqueNames(new.sections)
    BY <1>5, <1>6, <2>1 DEF SectorOK, UniqueNames
  <2>3. \A i \in DOMAIN new.sections : UniqueNames(new.sections[i].fields)
    BY <1>5, <1>6 DEF SectorOK
  <2> QED
    BY <2>2, <2>3 DEF SectorOK
<1> QED
  BY <1>4, <1>6

-----------------------------------------------------------------------------
(* The add functions.                                                        *)

\* mcfg_add_sector keeps a document a document and its names unique.
LEMMA AddSectorKeeps ==
    ASSUME NEW f \in File, NEW name \in Name \cup {NULL}, NEW arrayOk
    PROVE  LET g == mcfg_add_sector(f, name, arrayOk).file
           IN  g \in File /\ (AllNamesUnique(f) => AllNamesUnique(g))
<1> DEFINE item == [name |-> name, sections |-> << >>]
           new  == [item EXCEPT !.name = remove_newline(item.name)]
           r    == AddNamed(f.sectors, item, "MCFG_DUPLICATE_SECTOR", arrayOk).seq
           g    == mcfg_add_sector(f, name, arrayOk).file
<1>1. f.sectors \in Seq(Sector) /\ f.dynfields \in Seq(Field)
  BY DEF File
<1>2. new = [name |-> remove_newline(name), sections |-> << >>]
  OBVIOUS
<1>3. new \in Sector /\ new.name = remove_newline(item.name) /\ SectorOK(new)
  <2>1. << >> \in Seq(Section) /\ DOMAIN << >> = {}
    OBVIOUS
  <2> QED
    BY <1>2, <2>1, RemoveNewlineType DEF Sector, SectorOK, UniqueNames
<1>4. g = [f EXCEPT !.sectors = r]
  BY DEF mcfg_add_sector
<1>5. g.sectors = r /\ g.dynfields = f.dynfields
      /\ g = [sectors |-> r, dynfields |-> f.dynfields]
  BY <1>4 DEF File
<1> HIDE DEF item, new, r, g
<1>6. r \in Seq(Sector)
  BY <1>1, <1>3, AddNamedType DEF r, new
<1>7. g \in File
  BY <1>1, <1>5, <1>6 DEF File
<1>8. ASSUME AllNamesUnique(f) PROVE AllNamesUnique(g)
  <2>1. UniqueNames(r)
    BY <1>1, <1>3, <1>8, AddNamedUnique DEF r, new, AllNamesUnique
  <2>2. \A i \in DOMAIN r : \/ i \in DOMAIN f.sectors /\ r[i] = f.sectors[i]
                            \/ r[i] = new
    BY <1>1, AddNamedEntries DEF r, new
  <2>3. \A i \in DOMAIN r : SectorOK(r[i])
    BY <1>3, <1>8, <2>2 DEF AllNamesUnique
  <2> QED
    BY <1>5, <1>8, <2>1, <2>3 DEF AllNamesUnique
<1> QED
  BY <1>7, <1>8 DEF g

\* mcfg_add_dynfield does so, too.
LEMMA AddDynfieldKeeps ==
    ASSUME NEW f \in File, NEW name \in Name \cup {NULL}, NEW value \in Typed, NEW arrayOk
    PROVE  LET g == mcfg_add_dynfield(f, value.type, name, value.data, arrayOk).file
           IN  g \in File /\ (AllNamesUnique(f) => AllNamesUnique(g))
<1> DEFINE item == [name |-> name, type |-> value.type, data |-> value.data]
           new  == [item EXCEPT !.name = remove_newline(item.name)]
           r    == AddNamed(f.dynfields, item, "MCFG_DUPLICATE_DYNFIELD", arrayOk).seq
           g    == mcfg_add_dynfield(f, value.type, name, value.data, arrayOk).file
<1>1. f.sectors \in Seq(Sector) /\ f.dynfields \in Seq(Field)
  BY DEF File
<1>2. new = [name |-> remove_newline(name), type |-> value.type, data |-> value.data]
  OBVIOUS
<1>3. new \in Field /\ new.name = remove_newline(item.name)
  BY <1>2, RemoveNewlineType DEF Field, Typed
<1>4. g = [f EXCEPT !.dynfields = r]
  BY DEF mcfg_add_dynfield
<1>5. g.dynfields = r /\ g.sectors = f.sectors
      /\ g = [sectors |-> f.sectors, dynfields |-> r]
  BY <1>4 DEF File
<1> HIDE DEF item, new, r, g
<1>6. r \in Seq(Field)
  BY <1>1, <1>3, AddNamedType DEF r, new
<1>7. g \in File
  BY <1>1, <1>5, <1>6 DEF File
<1>8. ASSUME AllNamesUnique(f) PROVE AllNamesUnique(g)
  <2>1. UniqueNames(r)
    BY <1>1, <1>3, <1>8, AddNamedUnique DEF r, new, AllNamesUnique
  <2> QED
    BY <1>5, <1>8, <2>1 DEF AllNamesUnique
<1> QED
  BY <1>7, <1>8 DEF g

\* mcfg_add_section does so for the sector it is given, and changes no other.
LEMMA AddSectionKeeps ==
    ASSUME NEW f \in File, NEW s \in DOMAIN f.sectors,
           NEW name \in Name \cup {NULL}, NEW arrayOk
    PROVE  LET g == mcfg_add_section(f, s, name, arrayOk).file
           IN  g \in File /\ (AllNamesUnique(f) => AllNamesUnique(g))
<1> DEFINE old    == f.sectors[s]
           item   == [name |-> name, fields |-> << >>]
           new    == [item EXCEPT !.name = remove_newline(item.name)]
           r      == AddNamed(old.sections, item, "MCFG_DUPLICATE_FIELD", arrayOk).seq
           sector == [old EXCEPT !.sections = r]
           g      == mcfg_add_section(f, s, name, arrayOk).file
<1>1. old \in Sector /\ old.sections \in Seq(Section)
  BY FileParts, SectorParts
<1>2. new = [name |-> remove_newline(name), fields |-> << >>]
  OBVIOUS
<1>3. new \in Section /\ new.name = remove_newline(item.name) /\ UniqueNames(new.fields)
  <2>1. << >> \in Seq(Field) /\ DOMAIN << >> = {}
    OBVIOUS
  <2> QED
    BY <1>2, <2>1, RemoveNewlineType DEF Section, UniqueNames
<1>4. g = [f EXCEPT !.sectors[s] = sector]
  BY DEF mcfg_add_section
<1>5. sector = [name |-> old.name, sections |-> r]
      /\ sector.name = old.name /\ sector.sections = r
  BY <1>1 DEF Sector
<1> HIDE DEF item, new, r, sector, g, old
<1>6. r \in Seq(Section)
  BY <1>1, <1>3, AddNamedType DEF r, new
<1>7. sector \in Sector
  BY <1>1, <1>5, <1>6 DEF Sector
<1>8. ASSUME AllNamesUnique(f) PROVE SectorOK(sector)
  <2>1. SectorOK(old)
    BY <1>8 DEF AllNamesUnique, old
  <2>2. UniqueNames(r)
    BY <1>1, <1>3, <2>1, AddNamedUnique DEF r, new, SectorOK
  <2>3. \A i \in DOMAIN r : \/ i \in DOMAIN old.sections /\ r[i] = old.sections[i]
                            \/ r[i] = new
    BY <1>1, AddNamedEntries DEF r, new
  <2> QED
    BY <1>3, <1>5, <2>1, <2>2, <2>3 DEF SectorOK
<1> QED
  BY <1>4, <1>5, <1>7, <1>8, ReplaceSector DEF g, old

\* mcfg_add_field does so for the section it is given, and changes no other.
LEMMA AddFieldKeeps ==
    ASSUME NEW f \in File, NEW s \in DOMAIN f.sectors,
           NEW t \in DOMAIN f.sectors[s].sections,
           NEW type, NEW data, [type |-> type, data |-> data] \in Typed,
           NEW name \in Name \cup {NULL}, NEW arrayOk
    PROVE  LET g == mcfg_add_field(f, s, t, type, name, data, arrayOk).file
           IN  g \in File /\ (AllNamesUnique(f) => AllNamesUnique(g))
<1> DEFINE old     == f.sectors[s]
           before  == old.sections[t]
           item    == [name |-> name, type |-> type, data |-> data]
           new     == [item EXCEPT !.name = remove_newline(item.name)]
           r       == AddNamed(before.fields, item, "MCFG_DUPLICATE_FIELD", arrayOk).seq
           section == [before EXCEPT !.fields = r]
           sector  == [old EXCEPT !.sections[t] = section]
           g       == mcfg_add_field(f, s, t, type, name, data, arrayOk).file
<1>1. old \in Sector /\ before \in Section /\ before.fields \in Seq(Field)
  <2>1. old \in Sector
    BY FileParts
  <2>2. before \in Section
    BY <2>1, SectorParts
  <2> QED
    BY <2>1, <2>2, SectionParts
<1>2. new = [name |-> remove_newline(name), type |-> type, data |-> data]
  OBVIOUS
<1>3. new \in Field /\ new.name = remove_newline(item.name)
  BY <1>2, RemoveNewlineType DEF Field, Typed
<1>4. g = [f EXCEPT !.sectors[s] = sector]
  BY DEF mcfg_add_field
<1>5. section = [name |-> before.name, fields |-> r]
      /\ section.name = before.name /\ section.fields = r
  BY <1>1 DEF Section
<1>6. t \in DOMAIN old.sections /\ before = old.sections[t]
  OBVIOUS
<1> HIDE DEF item, new, r, section, g, before
<1>7. r \in Seq(Field)
  BY <1>1, <1>3, AddNamedType DEF r, new
<1>8. section \in Section
  BY <1>1, <1>5, <1>7 DEF Section
<1>9. ASSUME AllNamesUnique(f) PROVE SectorOK(old) /\ UniqueNames(section.fields)
  <2>1. SectorOK(old)
    BY <1>9 DEF AllNamesUnique
  <2>2. UniqueNames(before.fields)
    BY <1>6, <2>1 DEF SectorOK
  <2> QED
    BY <1>1, <1>3, <1>5, <2>1, <2>2, AddNamedUnique DEF r, new
<1>10. /\ sector \in Sector
       /\ sector.name = old.name
       /\ AllNamesUnique(f) => SectorOK(sector)
  <2> HIDE DEF old
  <2>1. /\ sector \in Sector
        /\ sector.name = old.name
        /\ /\ SectorOK(old)
           /\ section.name = old.sections[t].name
           /\ UniqueNames(section.fields)
           => SectorOK(sector)
    BY <1>1, <1>6, <1>8, ReplaceSection
  <2> QED
    BY <2>1, <1>5, <1>6, <1>9
<1> HIDE DEF sector
<1> QED
  BY <1>4, <1>10, ReplaceSector DEF g, old

\* mcfg_add_list_field keeps a list a list.
LEMMA AddListFieldKeeps ==
    ASSUME NEW list \in List, NEW data \in Scalar \cup {NULL}, NEW nameOk, NEW arrayOk
    PROVE  mcfg_add_list_field(list, data, nameOk, arrayOk).list \in List
<1>1. CASE mcfg_add_list_field(list, data, nameOk, arrayOk).list = list
  BY <1>1
<1>2. CASE /\ data # NULL
           /\ mcfg_add_list_field(list, data, nameOk, arrayOk).list
                = [list EXCEPT !.elems = Append(@, [name |-> Len(@) + 1, data |-> data])]
  <2>1. /\ list.elems \in Seq(Element) /\ list.type \in FieldTypes
        /\ list = [type |-> list.type, elems |-> list.elems]
    BY DEF List
  <2>2. [name |-> Len(list.elems) + 1, data |-> data] \in Element
    BY <1>2, <2>1 DEF Element
  <2>3. Append(list.elems, [name |-> Len(list.elems) + 1, data |-> data]) \in Seq(Element)
    BY <2>1, <2>2
  <2> QED
    BY <1>2, <2>1, <2>3 DEF List
<1> QED
  BY <1>1, <1>2 DEF mcfg_add_list_field

\* So does a new value for the data of one field.
LEMMA SetDataKeeps ==
    ASSUME NEW f \in File, NEW s \in DOMAIN f.sectors,
           NEW t \in DOMAIN f.sectors[s].sections,
           NEW i \in DOMAIN f.sectors[s].sections[t].fields, NEW data,
           [type |-> f.sectors[s].sections[t].fields[i].type, data |-> data] \in Typed
    PROVE  LET g == [f EXCEPT !.sectors[s].sections[t].fields[i].data = data]
           IN  g \in File /\ (AllNamesUnique(f) => AllNamesUnique(g))
<1> DEFINE old     == f.sectors[s]
           before  == old.sections[t]
           field   == before.fields[i]
           now     == [field EXCEPT !.data = data]
           fields  == [before.fields EXCEPT ![i] = now]
           section == [before EXCEPT !.fields = fields]
           sector  == [old EXCEPT !.sections[t] = section]
           g       == [f EXCEPT !.sectors[s].sections[t].fields[i].data = data]
<1>1. g = [f EXCEPT !.sectors[s] = sector]
  OBVIOUS
<1>2. /\ old \in Sector /\ t \in DOMAIN old.sections /\ before = old.sections[t]
      /\ i \in DOMAIN before.fields
  BY FileParts
<1>3. [type |-> field.type, data |-> data] \in Typed
  OBVIOUS
<1> HIDE DEF old, before
<1>4. before \in Section
  BY <1>2, SectorParts
<1>5. before.fields \in Seq(Field) /\ field \in Field
  BY <1>2, <1>4, SectionParts
<1>6. now \in Field /\ now.name = field.name
  BY <1>3, <1>5 DEF Field, Typed
<1> HIDE DEF now
<1>7. /\ fields \in Seq(Field)
      /\ UniqueNames(before.fields) => UniqueNames(fields)
  BY <1>2, <1>5, <1>6 DEF UniqueNames
<1> HIDE DEF fields
<1>8. section = [name |-> before.name, fields |-> fields]
      /\ section.name = before.name /\ section.fields = fields
  BY <1>4 DEF Section
<1>9. section \in Section
  BY <1>4, <1>7, <1>8, SectionParts DEF Section
<1> HIDE DEF section
<1>10. /\ sector \in Sector
       /\ sector.name = old.name
       /\ SectorOK(old) /\ section.name = old.sections[t].name
             /\ UniqueNames(section.fields)
          => SectorOK(sector)
  BY <1>2, <1>9, ReplaceSection
<1>11. ASSUME AllNamesUnique(f) PROVE SectorOK(sector)
  <2>1. SectorOK(old)
    BY <1>11 DEF AllNamesUnique, old
  <2>2. UniqueNames(before.fields)
    BY <1>2, <2>1 DEF SectorOK
  <2> QED
    BY <1>2, <1>7, <1>8, <1>10, <2>1, <2>2
<1> HIDE DEF sector
<1> QED
  BY <1>1, <1>10, <1>11, ReplaceSector DEF old

\* Where names are unique, the search finds every entry by its name.
LEMMA UniqueFound ==
    ASSUME NEW S, NEW seq \in Seq(S), UniqueNames(seq)
    PROVE  Found(seq)
<1> SUFFICES ASSUME NEW i \in DOMAIN seq PROVE mcfg_get(seq, seq[i].name) = i
  BY DEF Found
<1>1. Hits(seq, seq[i].name) = {i}
  BY DEF Hits, UniqueNames
<1>2. i <= i
  OBVIOUS
<1>3. (CHOOSE k \in {i} : \A j \in {i} : k <= j) = i
  BY <1>2
<1> QED
  BY <1>1, <1>3 DEF mcfg_get

\* In a document with unique names every entry can be looked up.
LEMMA UniqueAllFound ==
    ASSUME NEW f \in File, AllNamesUnique(f)
    PROVE  AllFound(f)
<1>1. Found(f.sectors) /\ Found(f.dynfields)
  BY FileParts, UniqueFound DEF AllNamesUnique
<1>2. ASSUME NEW s \in DOMAIN f.sectors
      PROVE  /\ Found(f.sectors[s].sections)
             /\ \A t \in DOMAIN f.sectors[s].sections :
                  Found(f.sectors[s].sections[t].fields)
  <2>1. f.sectors[s] \in Sector /\ SectorOK(f.sectors[s])
    BY FileParts DEF AllNamesUnique
  <2>2. Found(f.sectors[s].sections)
    BY <2>1, SectorParts, UniqueFound DEF SectorOK
  <2>3. ASSUME NEW t \in DOMAIN f.sectors[s].sections
        PROVE  Found(f.sectors[s].sections[t].fields)
    <3>1. f.sectors[s].sections[t] \in Section
      BY <2>1, SectorParts
    <3>2. f.sectors[s].sections[t].fields \in Seq(Field)
      BY <3>1, SectionParts
    <3> QED
      BY <2>1, <3>2, UniqueFound DEF SectorOK
  <2> QED
    BY <2>2, <2>3
<1> QED
  BY <1>1, <1>2 DEF AllFound

-----------------------------------------------------------------------------
(* Freeing: every total over an array is a sum over its entries.             *)

ElementBlocks == [e \in Element |-> BlockOf(e.name) + BlockOf(e.data)]
FieldBlocks   == [x \in Field |-> mcfg_free_field(x)]
SectionBlocks == [x \in Section |-> mcfg_free_section(x)]
SectorBlocks  == [x \in Sector |-> mcfg_free_sector(x)]

\* The blocks of the elements of a list,
LEMMA ElementsTotal ==
    ASSUME NEW elems \in Seq(Element)
    PROVE  /\ ElementBlocks \in [Element -> Nat]
           /\ Total(LAMBDA e : BlockOf(e.name) + BlockOf(e.data), elems) = SumOver(ElementBlocks, elems)
<1> DEFINE n == Len(elems)
           w == [k \in 1 .. n |-> ElementBlocks[elems[k]]]
           Body(g) == [r \in SUBSET DOMAIN elems |->
                          IF r = {} THEN 0
                          ELSE g[r \ {Max(r)}] + (BlockOf(elems[Max(r)].name) + BlockOf(elems[Max(r)].data))]
           fold == CHOOSE g : g = Body(g)
<1>1. Total(LAMBDA e : BlockOf(e.name) + BlockOf(e.data), elems) = fold[DOMAIN elems]
  BY DEF Total, FoldLeft, MapThenFoldSet
<1>2. ElementBlocks \in [Element -> Nat]
  BY DEF ElementBlocks, BlockOf
<1>3. n \in Nat /\ DOMAIN elems = 1 .. n /\ w \in [1 .. n -> Nat]
      /\ \A k \in 1 .. n : w[k] = (BlockOf(elems[k].name) + BlockOf(elems[k].data))
  BY <1>2 DEF ElementBlocks
<1>4. ASSUME NEW g
      PROVE  Body(g) = SumBody(g, w, n)
  <2>1. ASSUME NEW r \in SUBSET (1 .. n), r # {}
        PROVE  w[Max(r)] = (BlockOf(elems[Max(r)].name) + BlockOf(elems[Max(r)].data))
    BY <1>3, <2>1, MaxOfInterval
  <2> QED
    BY <1>3, <2>1 DEF SumBody
<1> HIDE DEF w, n, Body
<1>5. fold = SumBody(fold, w, n)
  <2>1. \E g : g = Body(g)
    BY <1>3, <1>4, SumExists
  <2> QED
    BY <1>4, <2>1
<1>6. Sums(fold[1 .. n], w, n)
  BY <1>3, <1>5, FoldSums
<1> QED
  BY <1>1, <1>2, <1>3, <1>6, SumOverIs DEF w, n

\* What freeing a list gives back: the blocks of its elements and the array.
LEMMA FreeListIs ==
    ASSUME NEW l \in List
    PROVE  /\ mcfg_free_list(l) = SumOver(ElementBlocks, l.elems) + ArrayOf(l.elems)
           /\ mcfg_free_list(l) \in Nat
<1>1. l.elems \in Seq(Element)
  BY DEF List
<1>2. mcfg_free_list(l) = SumOver(ElementBlocks, l.elems) + ArrayOf(l.elems)
  BY <1>1, ElementsTotal DEF mcfg_free_list
<1>3. SumOver(ElementBlocks, l.elems) \in Nat
  BY <1>1, ElementsTotal, SumOverIs
<1> QED
  BY <1>2, <1>3 DEF ArrayOf

\* Freeing a field gives back a number of blocks.
LEMMA FreeFieldType ==
    ASSUME NEW x \in Field
    PROVE  mcfg_free_field(x) \in Nat
<1>1. x.data # NULL /\ x.type = "TYPE_LIST" => x.data \in List
  BY DEF Field
<1>2. x.data # NULL /\ x.type = "TYPE_LIST" => mcfg_free_list(x.data) \in Nat
  BY <1>1, FreeListIs
<1> QED
  BY <1>2 DEF mcfg_free_field, BlockOf

\* of the fields of a section,
LEMMA FieldsTotal ==
    ASSUME NEW fields \in Seq(Field)
    PROVE  /\ FieldBlocks \in [Field -> Nat]
           /\ Total(mcfg_free_field, fields) = SumOver(FieldBlocks, fields)
<1> DEFINE n == Len(fields)
           w == [k \in 1 .. n |-> FieldBlocks[fields[k]]]
           Body(g) == [r \in SUBSET DOMAIN fields |->
                          IF r = {} THEN 0
                          ELSE g[r \ {Max(r)}] + mcfg_free_field(fields[Max(r)])]
           fold == CHOOSE g : g = Body(g)
<1>1. Total(mcfg_free_field, fields) = fold[DOMAIN fields]
  BY DEF Total, FoldLeft, MapThenFoldSet
<1>2. FieldBlocks \in [Field -> Nat]
  BY FreeFieldType DEF FieldBlocks
<1>3. n \in Nat /\ DOMAIN fields = 1 .. n /\ w \in [1 .. n -> Nat]
      /\ \A k \in 1 .. n : w[k] = mcfg_free_field(fields[k])
  BY <1>2 DEF FieldBlocks
<1>4. ASSUME NEW g
      PROVE  Body(g) = SumBody(g, w, n)
  <2>1. ASSUME NEW r \in SUBSET (1 .. n), r # {}
        PROVE  w[Max(r)] = mcfg_free_field(fields[Max(r)])
    BY <1>3, <2>1, MaxOfInterval
  <2> QED
    BY <1>3, <2>1 DEF SumBody
<1> HIDE DEF w, n, Body
<1>5. fold = SumBody(fold, w, n)
  <2>1. \E g : g = Body(g)
    BY <1>3, <1>4, SumExists
  <2> QED
    BY <1>4, <2>1
<1>6. Sums(fold[1 .. n], w, n)
  BY <1>3, <1>5, FoldSums
<1> QED
  BY <1>1, <1>2, <1>3, <1>6, SumOverIs DEF w, n

\* What freeing a section gives back.
LEMMA FreeSectionIs ==
    ASSUME NEW x \in Section
    PROVE  /\ mcfg_free_section(x) = SumOver(FieldBlocks, x.fields)
                                     + ArrayOf(x.fields) + BlockOf(x.name)
           /\ mcfg_free_section(x) \in Nat
<1>1. x.fields \in Seq(Field)
  BY DEF Section
<1>2. Total(mcfg_free_field, x.fields) = SumOver(FieldBlocks, x.fields)
      /\ SumOver(FieldBlocks, x.fields) \in Nat
  BY <1>1, FieldsTotal, SumOverIs
<1> QED
  BY <1>2 DEF mcfg_free_section, ArrayOf, BlockOf

\* of the sections of a sector,
LEMMA SectionsTotal ==
    ASSUME NEW sections \in Seq(Section)
    PROVE  /\ SectionBlocks \in [Section -> Nat]
           /\ Total(mcfg_free_section, sections) = SumOver(SectionBlocks, sections)
<1> DEFINE n == Len(sections)
           w == [k \in 1 .. n |-> SectionBlocks[sections[k]]]
           Body(g) == [r \in SUBSET DOMAIN sections |->
                          IF r = {} THEN 0
                          ELSE g[r \ {Max(r)}] + mcfg_free_section(sections[Max(r)])]
           fold == CHOOSE g : g = Body(g)
<1>1. Total(mcfg_free_section, sections) = fold[DOMAIN sections]
  BY DEF Total, FoldLeft, MapThenFoldSet
<1>2. SectionBlocks \in [Section -> Nat]
  BY FreeSectionIs DEF SectionBlocks
<1>3. n \in Nat /\ DOMAIN sections = 1 .. n /\ w \in [1 .. n -> Nat]
      /\ \A k \in 1 .. n : w[k] = mcfg_free_section(sections[k])
  BY <1>2 DEF SectionBlocks
<1>4. ASSUME NEW g
      PROVE  Body(g) = SumBody(g, w, n)
  <2>1. ASSUME NEW r \in SUBSET (1 .. n), r # {}
        PROVE  w[Max(r)] = mcfg_free_section(sections[Max(r)])
    BY <1>3, <2>1, MaxOfInterval
  <2> QED
    BY <1>3, <2>1 DEF SumBody
<1> HIDE DEF w, n, Body
<1>5. fold = SumBody(fold, w, n)
  <2>1. \E g : g = Body(g)
    BY <1>3, <1>4, SumExists
  <2> QED
    BY <1>4, <2>1
<1>6. Sums(fold[1 .. n], w, n)
  BY <1>3, <1>5, FoldSums
<1> QED
  BY <1>1, <1>2, <1>3, <1>6, SumOverIs DEF w, n

\* What freeing a sector gives back.
LEMMA FreeSectorIs ==
    ASSUME NEW x \in Sector
    PROVE  /\ mcfg_free_sector(x) = SumOver(SectionBlocks, x.sections)
                                    + ArrayOf(x.sections) + BlockOf(x.name)
           /\ mcfg_free_sector(x) \in Nat
<1>1. x.sections \in Seq(Section)
  BY DEF Sector
<1>2. Total(mcfg_free_section, x.sections) = SumOver(SectionBlocks, x.sections)
      /\ SumOver(SectionBlocks, x.sections) \in Nat
  BY <1>1, SectionsTotal, SumOverIs
<1> QED
  BY <1>2 DEF mcfg_free_sector, ArrayOf, BlockOf

\* and of the sectors.
LEMMA SectorsTotal ==
    ASSUME NEW sectors \in Seq(Sector)
    PROVE  /\ SectorBlocks \in [Sector -> Nat]
           /\ Total(mcfg_free_sector, sectors) = SumOver(SectorBlocks, sectors)
<1> DEFINE n == Len(sectors)
           w == [k \in 1 .. n |-> SectorBlocks[sectors[k]]]
           Body(g) == [r \in SUBSET DOMAIN sectors |->
                          IF r = {} THEN 0
                          ELSE g[r \ {Max(r)}] + mcfg_free_sector(sectors[Max(r)])]
           fold == CHOOSE g : g = Body(g)
<1>1. Total(mcfg_free_sector, sectors) = fold[DOMAIN sectors]
  BY DEF Total, FoldLeft, MapThenFoldSet
<1>2. SectorBlocks \in [Sector -> Nat]
  BY FreeSectorIs DEF SectorBlocks
<1>3. n \in Nat /\ DOMAIN sectors = 1 .. n /\ w \in [1 .. n -> Nat]
      /\ \A k \in 1 .. n : w[k] = mcfg_free_sector(sectors[k])
  BY <1>2 DEF SectorBlocks
<1>4. ASSUME NEW g
      PROVE  Body(g) = SumBody(g, w, n)
  <2>1. ASSUME NEW r \in SUBSET (1 .. n), r # {}
        PROVE  w[Max(r)] = mcfg_free_sector(sectors[Max(r)])
    BY <1>3, <2>1, MaxOfInterval
  <2> QED
    BY <1>3, <2>1 DEF SumBody
<1> HIDE DEF w, n, Body
<1>5. fold = SumBody(fold, w, n)
  <2>1. \E g : g = Body(g)
    BY <1>3, <1>4, SumExists
  <2> QED
    BY <1>4, <2>1
<1>6. Sums(fold[1 .. n], w, n)
  BY <1>3, <1>5, FoldSums
<1> QED
  BY <1>1, <1>2, <1>3, <1>6, SumOverIs DEF w, n

\* What freeing a document gives back.
LEMMA FreeFileIs ==
    ASSUME NEW f \in File
    PROVE  /\ mcfg_free_file(f) = SumOver(FieldBlocks, f.dynfields) + ArrayOf(f.dynfields)
                                  + SumOver(SectorBlocks, f.sectors) + ArrayOf(f.sectors)
           /\ mcfg_free_file(f) \in Nat
<1>1. f.sectors \in Seq(Sector) /\ f.dynfields \in Seq(Field)
  BY DEF File
<1>2. Total(mcfg_free_sector, f.sectors) = SumOver(SectorBlocks, f.sectors)
      /\ SumOver(SectorBlocks, f.sectors) \in Nat
  BY <1>1, SectorsTotal, SumOverIs
<1>3. Total(mcfg_free_field, f.dynfields) = SumOver(FieldBlocks, f.dynfields)
      /\ SumOver(FieldBlocks, f.dynfields) \in Nat
  BY <1>1, FieldsTotal, SumOverIs
<1> QED
  BY <1>2, <1>3 DEF mcfg_free_file, ArrayOf

\* Replacing an entry changes what is freed by the difference of the two.
LEMMA FreeReplaceSector ==
    ASSUME NEW f \in File, NEW s \in 1 .. Len(f.sectors), NEW sector \in Sector
    PROVE  mcfg_free_file([f EXCEPT !.sectors[s] = sector])
             = mcfg_free_file(f) + mcfg_free_sector(sector) - mcfg_free_sector(f.sectors[s])
<1> DEFINE r == [f.sectors EXCEPT ![s] = sector]
           g == [f EXCEPT !.sectors[s] = sector]
<1>1. f.sectors \in Seq(Sector) /\ s \in DOMAIN f.sectors /\ f.sectors[s] \in Sector
  BY FileParts
<1>2. g \in File /\ g.sectors = r /\ g.dynfields = f.dynfields
  BY <1>1, ReplaceSector DEF File
<1>3. SumOver(SectorBlocks, r)
        = SumOver(SectorBlocks, f.sectors) + SectorBlocks[sector] - SectorBlocks[f.sectors[s]]
  BY <1>1, SectorsTotal, SumOfExcept
<1>4. ArrayOf(r) = ArrayOf(f.sectors)
  BY <1>1 DEF ArrayOf
<1>5. SectorBlocks[sector] = mcfg_free_sector(sector)
      /\ SectorBlocks[f.sectors[s]] = mcfg_free_sector(f.sectors[s])
  BY <1>1 DEF SectorBlocks
<1>6. mcfg_free_sector(sector) \in Nat /\ mcfg_free_sector(f.sectors[s]) \in Nat
  BY <1>1, FreeSectorIs
<1>7. /\ SumOver(SectorBlocks, f.sectors) \in Nat /\ SumOver(FieldBlocks, f.dynfields) \in Nat
      /\ ArrayOf(f.sectors) \in Nat /\ ArrayOf(f.dynfields) \in Nat
  BY FileParts, SectorsTotal, FieldsTotal, SumOverIs DEF ArrayOf
<1> HIDE DEF r, g
<1>8. mcfg_free_file(g) = SumOver(FieldBlocks, f.dynfields) + ArrayOf(f.dynfields)
                          + SumOver(SectorBlocks, r) + ArrayOf(r)
  BY <1>2, FreeFileIs
<1>9. mcfg_free_file(f) = SumOver(FieldBlocks, f.dynfields) + ArrayOf(f.dynfields)
                          + SumOver(SectorBlocks, f.sectors) + ArrayOf(f.sectors)
  BY FreeFileIs
<1> QED
  BY <1>3, <1>4, <1>5, <1>6, <1>7, <1>8, <1>9 DEF g

\* Replacing a section changes the blocks of its sector by its own.
LEMMA FreeReplaceSection ==
    ASSUME NEW sector \in Sector, NEW t \in 1 .. Len(sector.sections), NEW section \in Section
    PROVE  mcfg_free_sector([sector EXCEPT !.sections[t] = section])
             = mcfg_free_sector(sector) + mcfg_free_section(section)
               - mcfg_free_section(sector.sections[t])
<1> DEFINE r == [sector.sections EXCEPT ![t] = section]
           g == [sector EXCEPT !.sections[t] = section]
<1>1. sector.sections \in Seq(Section) /\ t \in DOMAIN sector.sections
      /\ sector.sections[t] \in Section
  BY SectorParts
<1>2. g \in Sector /\ g.sections = r /\ g.name = sector.name
  BY <1>1, ReplaceSection DEF Sector
<1>3. SumOver(SectionBlocks, r)
        = SumOver(SectionBlocks, sector.sections) + SectionBlocks[section]
          - SectionBlocks[sector.sections[t]]
  BY <1>1, SectionsTotal, SumOfExcept
<1>4. ArrayOf(r) = ArrayOf(sector.sections)
  BY <1>1 DEF ArrayOf
<1>5. SectionBlocks[section] = mcfg_free_section(section)
      /\ SectionBlocks[sector.sections[t]] = mcfg_free_section(sector.sections[t])
  BY <1>1 DEF SectionBlocks
<1>6. mcfg_free_section(section) \in Nat /\ mcfg_free_section(sector.sections[t]) \in Nat
  BY <1>1, FreeSectionIs
<1>7. /\ SumOver(SectionBlocks, sector.sections) \in Nat
      /\ ArrayOf(sector.sections) \in Nat /\ BlockOf(sector.name) \in Nat
  BY <1>1, SectionsTotal, SumOverIs DEF ArrayOf, BlockOf
<1> HIDE DEF r, g
<1>8. mcfg_free_sector(g) = SumOver(SectionBlocks, r) + ArrayOf(r) + BlockOf(sector.name)
  BY <1>2, FreeSectorIs
<1>9. mcfg_free_sector(sector)
        = SumOver(SectionBlocks, sector.sections) + ArrayOf(sector.sections) + BlockOf(sector.name)
  BY FreeSectorIs
<1> QED
  BY <1>3, <1>4, <1>5, <1>6, <1>7, <1>8, <1>9 DEF g

\* Replacing the fields of a section.
LEMMA FreeReplaceFields ==
    ASSUME NEW section \in Section, NEW fields \in Seq(Field)
    PROVE  LET new == [section EXCEPT !.fields = fields]
           IN  /\ new \in Section
               /\ mcfg_free_section(new)
                    = mcfg_free_section(section)
                      + SumOver(FieldBlocks, fields) - SumOver(FieldBlocks, section.fields)
                      + ArrayOf(fields) - ArrayOf(section.fields)
<1> DEFINE new == [section EXCEPT !.fields = fields]
<1>1. new \in Section /\ new.fields = fields /\ new.name = section.name
      /\ section.fields \in Seq(Field)
  BY DEF Section
<1>2. SumOver(FieldBlocks, fields) \in Nat /\ SumOver(FieldBlocks, section.fields) \in Nat
  BY <1>1, FieldsTotal, SumOverIs
<1>3. ArrayOf(fields) \in Nat /\ ArrayOf(section.fields) \in Nat /\ BlockOf(section.name) \in Nat
  BY DEF ArrayOf, BlockOf
<1> HIDE DEF new
<1>4. mcfg_free_section(new)
        = SumOver(FieldBlocks, fields) + ArrayOf(fields) + BlockOf(section.name)
  BY <1>1, FreeSectionIs
<1>5. mcfg_free_section(section)
        = SumOver(FieldBlocks, section.fields) + ArrayOf(section.fields) + BlockOf(section.name)
  BY FreeSectionIs
<1> QED
  BY <1>1, <1>2, <1>3, <1>4, <1>5 DEF new

\* A name loses its line feed, not its block.
LEMMA NameBlock ==
    ASSUME NEW name \in Name \cup {NULL}
    PROVE  BlockOf(remove_newline(name)) = BlockOf(name) /\ BlockOf(name) \in {0, 1}
<1>1. name # NULL => remove_newline(name) \in Name
  BY DEF remove_newline, Name
<1>2. name # NULL => remove_newline(name) # NULL
  BY <1>1, StoreAssumption
<1> QED
  BY <1>2 DEF BlockOf, remove_newline

\* An add that does not succeed leaves the document as it was.
LEMMA AddRefused ==
    ASSUME NEW seq, NEW item, NEW duplicate, NEW arrayOk,
           duplicate # "MCFG_OK", AddNamed(seq, item, duplicate, arrayOk).err # "MCFG_OK"
    PROVE  AddNamed(seq, item, duplicate, arrayOk).seq = seq
BY DEF AddNamed

\* It is so for each of the four adds.
LEMMA AddSectorRefused ==
    ASSUME NEW f \in File, NEW name, NEW arrayOk,
           mcfg_add_sector(f, name, arrayOk).err # "MCFG_OK"
    PROVE  mcfg_add_sector(f, name, arrayOk).file = f
<1> DEFINE add == AddNamed(f.sectors, [name |-> name, sections |-> << >>],
                           "MCFG_DUPLICATE_SECTOR", arrayOk)
<1>1. f = [sectors |-> f.sectors, dynfields |-> f.dynfields]
  BY DEF File
<1>2. add.err # "MCFG_OK"
  BY DEF mcfg_add_sector
<1>3. add.seq = f.sectors
  BY <1>2, AddRefused
<1> QED
  BY <1>1, <1>3 DEF mcfg_add_sector

\* A section that is refused leaves the document as it was,
LEMMA AddSectionRefused ==
    ASSUME NEW f \in File, NEW s \in 1 .. Len(f.sectors), NEW name, NEW arrayOk,
           mcfg_add_section(f, s, name, arrayOk).err # "MCFG_OK"
    PROVE  mcfg_add_section(f, s, name, arrayOk).file = f
<1> DEFINE add == AddNamed(f.sectors[s].sections, [name |-> name, fields |-> << >>],
                           "MCFG_DUPLICATE_FIELD", arrayOk)
<1>1. f.sectors \in Seq(Sector) /\ s \in DOMAIN f.sectors
      /\ f = [sectors |-> f.sectors, dynfields |-> f.dynfields]
  BY DEF File
<1>2. add.err # "MCFG_OK"
  BY DEF mcfg_add_section
<1>3. add.seq = f.sectors[s].sections
  BY <1>2, AddRefused
<1>4. mcfg_add_section(f, s, name, arrayOk).file
        = [f EXCEPT !.sectors[s].sections = f.sectors[s].sections]
  BY <1>3 DEF mcfg_add_section
<1>5. f.sectors[s] \in Sector
  BY <1>1, FileParts
<1>6. [f.sectors[s] EXCEPT !.sections = f.sectors[s].sections] = f.sectors[s]
  BY <1>5 DEF Sector
<1>7. [f.sectors EXCEPT ![s] = f.sectors[s]] = f.sectors
  BY <1>1
<1>8. [f EXCEPT !.sectors[s].sections = f.sectors[s].sections]
        = [f EXCEPT !.sectors = [f.sectors EXCEPT ![s] =
              [f.sectors[s] EXCEPT !.sections = f.sectors[s].sections]]]
  OBVIOUS
<1> QED
  BY <1>1, <1>4, <1>6, <1>7, <1>8

\* and so do a field
LEMMA AddFieldRefused ==
    ASSUME NEW f \in File, NEW s \in 1 .. Len(f.sectors),
           NEW t \in 1 .. Len(f.sectors[s].sections),
           NEW type, NEW name, NEW data, NEW arrayOk,
           mcfg_add_field(f, s, t, type, name, data, arrayOk).err # "MCFG_OK"
    PROVE  mcfg_add_field(f, s, t, type, name, data, arrayOk).file = f
<1> DEFINE old == f.sectors[s]
           before == old.sections[t]
           add == AddNamed(before.fields, [name |-> name, type |-> type, data |-> data],
                           "MCFG_DUPLICATE_FIELD", arrayOk)
<1>1. f.sectors \in Seq(Sector) /\ s \in DOMAIN f.sectors
      /\ f = [sectors |-> f.sectors, dynfields |-> f.dynfields]
  BY DEF File
<1>2. add.err # "MCFG_OK"
  BY DEF mcfg_add_field
<1>3. add.seq = before.fields
  BY <1>2, AddRefused
<1>4. mcfg_add_field(f, s, t, type, name, data, arrayOk).file
        = [f EXCEPT !.sectors[s].sections[t].fields = before.fields]
  BY <1>3 DEF mcfg_add_field
<1>5. old \in Sector
  BY <1>1, FileParts
<1>6. before \in Section /\ old.sections \in Seq(Section)
  BY <1>5, SectorParts
<1>7. [before EXCEPT !.fields = before.fields] = before
  <2> HIDE DEF before
  <2> QED
    BY <1>6 DEF Section
<1>8. [old EXCEPT !.sections = [old.sections EXCEPT ![t] = before]] = old
  <2>1. [old.sections EXCEPT ![t] = before] = old.sections
    BY <1>6
  <2> HIDE DEF old, before
  <2> QED
    BY <1>5, <2>1 DEF Sector
<1>9. [f EXCEPT !.sectors = [f.sectors EXCEPT ![s] = old]] = f
  <2>1. [f.sectors EXCEPT ![s] = old] = f.sectors
    BY <1>1
  <2> HIDE DEF old
  <2> QED
    BY <1>1, <2>1
<1>10. [f EXCEPT !.sectors[s].sections[t].fields = before.fields]
         = [f EXCEPT !.sectors = [f.sectors EXCEPT ![s] =
              [old EXCEPT !.sections = [old.sections EXCEPT ![t] =
                 [before EXCEPT !.fields = before.fields]]]]]
  OBVIOUS
<1> QED
  BY <1>4, <1>7, <1>8, <1>9, <1>10

\* and a dynamic field.
LEMMA AddDynfieldRefused ==
    ASSUME NEW f \in File, NEW type, NEW name, NEW data, NEW arrayOk,
           mcfg_add_dynfield(f, type, name, data, arrayOk).err # "MCFG_OK"
    PROVE  mcfg_add_dynfield(f, type, name, data, arrayOk).file = f
<1> DEFINE add == AddNamed(f.dynfields, [name |-> name, type |-> type, data |-> data],
                           "MCFG_DUPLICATE_DYNFIELD", arrayOk)
<1>1. f = [sectors |-> f.sectors, dynfields |-> f.dynfields]
  BY DEF File
<1>2. add.err # "MCFG_OK"
  BY DEF mcfg_add_dynfield
<1>3. add.seq = f.dynfields
  BY <1>2, AddRefused
<1> QED
  BY <1>1, <1>3 DEF mcfg_add_dynfield

\* An add that succeeds appends the entry, its name being a new one.
LEMMA AddAccepted ==
    ASSUME NEW seq, NEW item, NEW duplicate, NEW arrayOk,
           duplicate # "MCFG_OK", AddNamed(seq, item, duplicate, arrayOk).err = "MCFG_OK"
    PROVE  /\ AddNamed(seq, item, duplicate, arrayOk).seq
                = Append(seq, [item EXCEPT !.name = remove_newline(item.name)])
           /\ Hits(seq, remove_newline(item.name)) = {}
BY DEF AddNamed

\* The array of the entry is there from the first entry on.
LEMMA ArrayOfMore ==
    ASSUME NEW S, NEW seq \in Seq(S), NEW x \in S
    PROVE  ArrayOf(Append(seq, x)) = 1 /\ ArrayOf(seq) \in {0, 1}
<1>1. Append(seq, x) # << >>
  <2>1. Len(Append(seq, x)) = Len(seq) + 1 /\ Len(seq) \in Nat /\ Len(<< >>) = 0
    OBVIOUS
  <2> QED
    BY <2>1
<1> QED
  BY <1>1 DEF ArrayOf

\* What freeing the document gives back grows by the blocks of the new entry,
\* and by the array if the entry is the first.
LEMMA AddSectorFrees ==
    ASSUME NEW f \in File, NEW name \in Name \cup {NULL}, NEW arrayOk,
           mcfg_add_sector(f, name, arrayOk).err = "MCFG_OK"
    PROVE  mcfg_free_file(mcfg_add_sector(f, name, arrayOk).file)
             = mcfg_free_file(f) + BlockOf(name) + 1 - ArrayOf(f.sectors)
<1> DEFINE item == [name |-> name, sections |-> << >>]
           new  == [name |-> remove_newline(name), sections |-> << >>]
           r    == Append(f.sectors, new)
           g    == mcfg_add_sector(f, name, arrayOk).file
<1>1. f.sectors \in Seq(Sector) /\ f.dynfields \in Seq(Field)
  BY FileParts
<1>2. new \in Sector
  <2>1. << >> \in Seq(Section)
    OBVIOUS
  <2> QED
    BY <2>1, RemoveNewlineType DEF Sector
<1>3. g.sectors = r /\ g.dynfields = f.dynfields /\ g \in File
  <2>1. AddNamed(f.sectors, item, "MCFG_DUPLICATE_SECTOR", arrayOk).seq = r
    <3>1. AddNamed(f.sectors, item, "MCFG_DUPLICATE_SECTOR", arrayOk).err = "MCFG_OK"
      BY DEF mcfg_add_sector
    <3>2. [item EXCEPT !.name = remove_newline(item.name)] = new
      OBVIOUS
    <3> QED
      BY <3>1, <3>2, AddAccepted
  <2>2. g \in File
    BY AddSectorKeeps
  <2> QED
    BY <2>1, <2>2 DEF mcfg_add_sector, File
<1>4. SumOver(SectorBlocks, r) = SumOver(SectorBlocks, f.sectors) + SectorBlocks[new]
  BY <1>1, <1>2, SectorsTotal, SumOfAppend
<1>5. SectorBlocks[new] = BlockOf(name)
  <2>1. SumOver(SectionBlocks, << >>) = 0
    <3>1. << >> \in Seq(Section)
      OBVIOUS
    <3> QED
      BY <3>1, SectionsTotal, SumOfEmpty
  <2>2. mcfg_free_sector(new) = 0 + 0 + BlockOf(remove_newline(name))
    <3>1. new.sections = << >> /\ new.name = remove_newline(name)
      OBVIOUS
    <3> HIDE DEF new
    <3> QED
      BY <1>2, <2>1, <3>1, FreeSectorIs DEF ArrayOf
  <2> QED
    BY <1>2, <2>2, NameBlock DEF SectorBlocks
<1>6. ArrayOf(r) = 1 /\ ArrayOf(f.sectors) \in {0, 1} /\ ArrayOf(f.dynfields) \in {0, 1}
  BY <1>1, <1>2, ArrayOfMore DEF ArrayOf
<1>7. SumOver(SectorBlocks, f.sectors) \in Nat /\ SumOver(FieldBlocks, f.dynfields) \in Nat
  BY <1>1, SectorsTotal, FieldsTotal, SumOverIs
<1> HIDE DEF r, g, new
<1>8. mcfg_free_file(g) = SumOver(FieldBlocks, f.dynfields) + ArrayOf(f.dynfields)
                          + SumOver(SectorBlocks, r) + ArrayOf(r)
  BY <1>3, FreeFileIs
<1>9. mcfg_free_file(f) = SumOver(FieldBlocks, f.dynfields) + ArrayOf(f.dynfields)
                          + SumOver(SectorBlocks, f.sectors) + ArrayOf(f.sectors)
  BY FreeFileIs
<1> QED
  BY <1>4, <1>5, <1>6, <1>7, <1>8, <1>9, NameBlock DEF g

\* A section takes a block for its name, the first one an array as well.
LEMMA AddSectionFrees ==
    ASSUME NEW f \in File, NEW s \in 1 .. Len(f.sectors), NEW name \in Name \cup {NULL},
           NEW arrayOk, mcfg_add_section(f, s, name, arrayOk).err = "MCFG_OK"
    PROVE  mcfg_free_file(mcfg_add_section(f, s, name, arrayOk).file)
             = mcfg_free_file(f) + BlockOf(name) + 1 - ArrayOf(f.sectors[s].sections)
<1> DEFINE item == [name |-> name, fields |-> << >>]
           new  == [name |-> remove_newline(name), fields |-> << >>]
           old  == f.sectors[s]
           r    == Append(old.sections, new)
           sector == [old EXCEPT !.sections = r]
           g    == mcfg_add_section(f, s, name, arrayOk).file
<1>1. old \in Sector /\ s \in DOMAIN f.sectors
  BY FileParts
<1>2. old.sections \in Seq(Section)
  BY <1>1, SectorParts
<1>3. new \in Section
  <2>1. << >> \in Seq(Field)
    OBVIOUS
  <2> QED
    BY <2>1, RemoveNewlineType DEF Section
<1>4. g = [f EXCEPT !.sectors[s] = sector]
  <2> DEFINE seq == old.sections
  <2>1. AddNamed(seq, item, "MCFG_DUPLICATE_FIELD", arrayOk).err = "MCFG_OK"
    BY DEF mcfg_add_section
  <2>2. [item EXCEPT !.name = remove_newline(item.name)] = new
    OBVIOUS
  <2>3. AddNamed(seq, item, "MCFG_DUPLICATE_FIELD", arrayOk).seq = Append(seq, new)
    <3> HIDE DEF seq, item, new
    <3> QED
      BY <2>1, <2>2, AddAccepted
  <2> QED
    BY <2>3 DEF mcfg_add_section
<1>5. sector \in Sector /\ sector.sections = r /\ sector.name = old.name
  <2>1. r \in Seq(Section)
    BY <1>2, <1>3
  <2> HIDE DEF r, old
  <2> QED
    BY <1>1, <2>1 DEF Sector
<1>6. SumOver(SectionBlocks, r) = SumOver(SectionBlocks, old.sections) + SectionBlocks[new]
  BY <1>2, <1>3, SectionsTotal, SumOfAppend
<1>7. SectionBlocks[new] = BlockOf(name)
  <2>1. SumOver(FieldBlocks, << >>) = 0
    <3>1. << >> \in Seq(Field)
      OBVIOUS
    <3> QED
      BY <3>1, FieldsTotal, SumOfEmpty
  <2>2. mcfg_free_section(new) = 0 + 0 + BlockOf(remove_newline(name))
    <3>1. new.fields = << >> /\ new.name = remove_newline(name)
      OBVIOUS
    <3> HIDE DEF new
    <3> QED
      BY <1>3, <2>1, <3>1, FreeSectionIs DEF ArrayOf
  <2> QED
    BY <1>3, <2>2, NameBlock DEF SectionBlocks
<1>8. ArrayOf(r) = 1 /\ ArrayOf(old.sections) \in {0, 1}
  BY <1>2, <1>3, ArrayOfMore
<1>9. SumOver(SectionBlocks, old.sections) \in Nat /\ BlockOf(old.name) \in {0, 1}
  BY <1>2, SectionsTotal, SumOverIs DEF BlockOf
<1>10. mcfg_free_file(f) \in Nat
  BY FreeFileIs
<1> HIDE DEF r, g, new, sector, old
<1>11. mcfg_free_sector(sector) = SumOver(SectionBlocks, r) + ArrayOf(r) + BlockOf(old.name)
  BY <1>5, FreeSectorIs
<1>12. mcfg_free_sector(old)
         = SumOver(SectionBlocks, old.sections) + ArrayOf(old.sections) + BlockOf(old.name)
  BY <1>1, FreeSectorIs
<1>13. mcfg_free_file(g)
         = mcfg_free_file(f) + mcfg_free_sector(sector) - mcfg_free_sector(old)
  BY <1>4, <1>5, FreeReplaceSector DEF old
<1>14. mcfg_free_file(g) = mcfg_free_file(f) + BlockOf(name) + 1 - ArrayOf(old.sections)
  <2>1. BlockOf(name) \in {0, 1}
    BY NameBlock
  <2>2. mcfg_free_sector(sector) - mcfg_free_sector(old)
          = BlockOf(name) + 1 - ArrayOf(old.sections)
    BY <1>6, <1>7, <1>8, <1>9, <1>11, <1>12, <2>1
  <2>3. mcfg_free_sector(sector) \in Nat /\ mcfg_free_sector(old) \in Nat
    BY <1>1, <1>5, FreeSectorIs
  <2> QED
    BY <1>8, <1>10, <1>13, <2>1, <2>2, <2>3
<1> QED
  BY <1>14 DEF g, old

\* The fields of one section replaced.
LEMMA FreeWithFields ==
    ASSUME NEW f \in File, NEW s \in 1 .. Len(f.sectors),
           NEW t \in 1 .. Len(f.sectors[s].sections), NEW fields \in Seq(Field)
    PROVE  mcfg_free_file([f EXCEPT !.sectors[s].sections[t].fields = fields])
             = mcfg_free_file(f)
               + SumOver(FieldBlocks, fields)
               - SumOver(FieldBlocks, f.sectors[s].sections[t].fields)
               + ArrayOf(fields) - ArrayOf(f.sectors[s].sections[t].fields)
<1> DEFINE old     == f.sectors[s]
           before  == old.sections[t]
           section == [before EXCEPT !.fields = fields]
           sector  == [old EXCEPT !.sections[t] = section]
           g       == [f EXCEPT !.sectors[s].sections[t].fields = fields]
<1>1. old \in Sector /\ s \in DOMAIN f.sectors
  BY FileParts
<1>2. before \in Section /\ t \in DOMAIN old.sections
  BY <1>1, SectorParts
<1>3. before.fields \in Seq(Field)
  BY <1>2, SectionParts
<1>4. g = [f EXCEPT !.sectors[s] = sector]
  OBVIOUS
<1>5. /\ section \in Section
      /\ mcfg_free_section(section)
           = mcfg_free_section(before)
             + SumOver(FieldBlocks, fields) - SumOver(FieldBlocks, before.fields)
             + ArrayOf(fields) - ArrayOf(before.fields)
  BY <1>2, FreeReplaceFields
<1> HIDE DEF section
<1>6. /\ sector \in Sector
      /\ mcfg_free_sector(sector)
           = mcfg_free_sector(old) + mcfg_free_section(section) - mcfg_free_section(before)
  BY <1>1, <1>2, <1>5, ReplaceSection, FreeReplaceSection
<1> HIDE DEF sector
<1>7. mcfg_free_file(g) = mcfg_free_file(f) + mcfg_free_sector(sector) - mcfg_free_sector(old)
  BY <1>4, <1>6, FreeReplaceSector
<1>8. /\ mcfg_free_file(f) \in Nat /\ mcfg_free_sector(old) \in Nat
      /\ mcfg_free_section(before) \in Nat
      /\ SumOver(FieldBlocks, fields) \in Nat /\ SumOver(FieldBlocks, before.fields) \in Nat
      /\ ArrayOf(fields) \in Nat /\ ArrayOf(before.fields) \in Nat
  BY <1>1, <1>2, <1>3, FreeFileIs, FreeSectorIs, FreeSectionIs, FieldsTotal, SumOverIs DEF ArrayOf
<1> HIDE DEF g, old, before
<1>9. mcfg_free_file(g)
        = mcfg_free_file(f) + SumOver(FieldBlocks, fields) - SumOver(FieldBlocks, before.fields)
          + ArrayOf(fields) - ArrayOf(before.fields)
  BY <1>5, <1>6, <1>7, <1>8
<1> QED
  BY <1>9 DEF g, old, before

\* The blocks of a field are those of its name and those of its data.
FieldOf(name, type, data) == [name |-> name, type |-> type, data |-> data]

\* A field is one with its line feed or without it, and frees the same blocks.
LEMMA FieldItem ==
    ASSUME NEW name \in Name \cup {NULL}, NEW type, NEW data,
           [type |-> type, data |-> data] \in Typed
    PROVE  /\ FieldOf(name, type, data) \in Field
           /\ FieldOf(remove_newline(name), type, data) \in Field
           /\ mcfg_free_field(FieldOf(remove_newline(name), type, data))
                = mcfg_free_field(FieldOf(name, type, data))
           /\ mcfg_free_field(FieldOf(name, type, data))
                = BlockOf(name) + mcfg_free_field(FieldOf(NULL, type, data))
           /\ mcfg_free_field(FieldOf(NULL, type, data)) \in Nat
<1>1. remove_newline(name) \in Name \cup {NULL}
  BY RemoveNewlineType
<1>2. \A any \in Name \cup {NULL} : FieldOf(any, type, data) \in Field
  BY DEF Typed, Field, FieldOf
<1>3. mcfg_free_field(FieldOf(NULL, type, data)) \in Nat
  BY <1>2, FreeFieldType
<1>4. ASSUME NEW any \in Name \cup {NULL}
      PROVE  mcfg_free_field(FieldOf(any, type, data))
               = BlockOf(any) + mcfg_free_field(FieldOf(NULL, type, data))
  <2>1. BlockOf(NULL) = 0 /\ BlockOf(any) \in Nat /\ BlockOf(data) \in Nat
    BY DEF BlockOf
  <2>2. FieldOf(any, type, data).name = any /\ FieldOf(any, type, data).type = type
        /\ FieldOf(any, type, data).data = data
        /\ FieldOf(NULL, type, data).name = NULL /\ FieldOf(NULL, type, data).type = type
        /\ FieldOf(NULL, type, data).data = data
    BY DEF FieldOf
  <2>3. CASE data # NULL /\ type = "TYPE_LIST"
    <3>1. mcfg_free_list(data) \in Nat
      BY <2>3, FreeListIs DEF Typed
    <3> QED
      BY <2>1, <2>2, <2>3, <3>1 DEF mcfg_free_field
  <2>4. CASE ~ (data # NULL /\ type = "TYPE_LIST")
    BY <2>1, <2>2, <2>4 DEF mcfg_free_field
  <2> QED
    BY <2>3, <2>4
<1>5. BlockOf(remove_newline(name)) = BlockOf(name)
  BY NameBlock
<1> QED
  BY <1>1, <1>2, <1>3, <1>4, <1>5

\* What freeing a document gives back with one more field in a section.
FreedWith(f, s, t, name, type, data) ==
    mcfg_free_file(f) + mcfg_free_field(FieldOf(name, type, data))
    + 1 - ArrayOf(f.sectors[s].sections[t].fields)

\* A field takes its blocks, the first one an array as well,
LEMMA AddFieldFrees ==
    ASSUME NEW f \in File, NEW s \in 1 .. Len(f.sectors),
           NEW t \in 1 .. Len(f.sectors[s].sections), NEW name \in Name \cup {NULL},
           NEW type, NEW data, [type |-> type, data |-> data] \in Typed, NEW arrayOk,
           mcfg_add_field(f, s, t, type, name, data, arrayOk).err = "MCFG_OK"
    PROVE  mcfg_free_file(mcfg_add_field(f, s, t, type, name, data, arrayOk).file)
             = FreedWith(f, s, t, name, type, data)
<1> DEFINE fields == f.sectors[s].sections[t].fields
           item == [name |-> name, type |-> type, data |-> data]
           new  == FieldOf(remove_newline(name), type, data)
           r    == Append(fields, new)
           g    == mcfg_add_field(f, s, t, type, name, data, arrayOk).file
<1>1. fields \in Seq(Field)
  BY FileParts, SectorParts, SectionParts
<1>2. new \in Field /\ mcfg_free_field(new) = mcfg_free_field(FieldOf(name, type, data))
      /\ mcfg_free_field(new) \in Nat
  BY FieldItem, FreeFieldType
<1>3. g = [f EXCEPT !.sectors[s].sections[t].fields = r]
  <2>1. AddNamed(fields, item, "MCFG_DUPLICATE_FIELD", arrayOk).err = "MCFG_OK"
    BY DEF mcfg_add_field
  <2>2. [item EXCEPT !.name = remove_newline(item.name)] = new
    BY DEF FieldOf
  <2>3. AddNamed(fields, item, "MCFG_DUPLICATE_FIELD", arrayOk).seq = r
    <3> HIDE DEF fields, item
    <3> QED
      BY <2>1, <2>2, AddAccepted
  <2> QED
    BY <2>3 DEF mcfg_add_field
<1>4. SumOver(FieldBlocks, r) = SumOver(FieldBlocks, fields) + FieldBlocks[new]
  <2> HIDE DEF fields, new
  <2> QED
    BY <1>1, <1>2, FieldsTotal, SumOfAppend
<1>5. FieldBlocks[new] = mcfg_free_field(new)
  BY <1>2 DEF FieldBlocks
<1>6. ArrayOf(r) = 1 /\ ArrayOf(fields) \in {0, 1}
  <2> HIDE DEF fields, new
  <2> QED
    BY <1>1, <1>2, ArrayOfMore
<1>7. SumOver(FieldBlocks, fields) \in Nat /\ mcfg_free_file(f) \in Nat
  <2> HIDE DEF fields
  <2> QED
    BY <1>1, FieldsTotal, SumOverIs, FreeFileIs
<1>8. r \in Seq(Field)
  <2> HIDE DEF fields, new
  <2> QED
    BY <1>1, <1>2
<1> HIDE DEF r, new
<1>9. mcfg_free_file([f EXCEPT !.sectors[s].sections[t].fields = r])
        = mcfg_free_file(f) + SumOver(FieldBlocks, r) - SumOver(FieldBlocks, fields)
          + ArrayOf(r) - ArrayOf(fields)
  BY <1>8, FreeWithFields
<1> HIDE DEF g, fields
<1> QED
  BY <1>2, <1>3, <1>4, <1>5, <1>6, <1>7, <1>9 DEF g, fields, FreedWith

\* and so does a dynamic field.
LEMMA AddDynfieldFrees ==
    ASSUME NEW f \in File, NEW name \in Name \cup {NULL},
           NEW type, NEW data, [type |-> type, data |-> data] \in Typed, NEW arrayOk,
           mcfg_add_dynfield(f, type, name, data, arrayOk).err = "MCFG_OK"
    PROVE  mcfg_free_file(mcfg_add_dynfield(f, type, name, data, arrayOk).file)
             = mcfg_free_file(f) + mcfg_free_field(FieldOf(name, type, data))
               + 1 - ArrayOf(f.dynfields)
<1> DEFINE fields == f.dynfields
           item == [name |-> name, type |-> type, data |-> data]
           new  == FieldOf(remove_newline(name), type, data)
           r    == Append(fields, new)
           g    == mcfg_add_dynfield(f, type, name, data, arrayOk).file
<1>1. fields \in Seq(Field) /\ f.sectors \in Seq(Sector)
  BY FileParts
<1>2. new \in Field /\ mcfg_free_field(new) = mcfg_free_field(FieldOf(name, type, data))
      /\ mcfg_free_field(new) \in Nat
  BY FieldItem, FreeFieldType
<1>3. g = [f EXCEPT !.dynfields = r]
  <2>1. AddNamed(fields, item, "MCFG_DUPLICATE_DYNFIELD", arrayOk).err = "MCFG_OK"
    BY DEF mcfg_add_dynfield
  <2>2. [item EXCEPT !.name = remove_newline(item.name)] = new
    BY DEF FieldOf
  <2>3. AddNamed(fields, item, "MCFG_DUPLICATE_DYNFIELD", arrayOk).seq = r
    BY <2>1, <2>2, AddAccepted
  <2> QED
    BY <2>3 DEF mcfg_add_dynfield
<1>4. SumOver(FieldBlocks, r) = SumOver(FieldBlocks, fields) + FieldBlocks[new]
  <2> HIDE DEF fields, new
  <2> QED
    BY <1>1, <1>2, FieldsTotal, SumOfAppend
<1>5. FieldBlocks[new] = mcfg_free_field(new)
  BY <1>2 DEF FieldBlocks
<1>6. ArrayOf(r) = 1 /\ ArrayOf(fields) \in {0, 1} /\ ArrayOf(f.sectors) \in {0, 1}
  <2> HIDE DEF fields, new
  <2> QED
    BY <1>1, <1>2, ArrayOfMore DEF ArrayOf
<1>7. SumOver(FieldBlocks, fields) \in Nat /\ SumOver(SectorBlocks, f.sectors) \in Nat
  <2> HIDE DEF fields
  <2> QED
    BY <1>1, FieldsTotal, SectorsTotal, SumOverIs
<1>8. r \in Seq(Field)
  <2> HIDE DEF fields, new
  <2> QED
    BY <1>1, <1>2
<1> HIDE DEF r, new
<1>9. g \in File /\ g.sectors = f.sectors /\ g.dynfields = r
  BY <1>3, <1>8 DEF File
<1>10. mcfg_free_file(g) = SumOver(FieldBlocks, r) + ArrayOf(r)
                           + SumOver(SectorBlocks, f.sectors) + ArrayOf(f.sectors)
  BY <1>9, FreeFileIs
<1>11. mcfg_free_file(f) = SumOver(FieldBlocks, fields) + ArrayOf(fields)
                           + SumOver(SectorBlocks, f.sectors) + ArrayOf(f.sectors)
  BY FreeFileIs
<1> HIDE DEF g, fields
<1> QED
  BY <1>2, <1>4, <1>5, <1>6, <1>7, <1>10, <1>11 DEF g, fields

\* One field of an array replaced.
LEMMA FieldReplaced ==
    ASSUME NEW fields \in Seq(Field), NEW i \in 1 .. Len(fields), NEW now \in Field
    PROVE  SumOver(FieldBlocks, [fields EXCEPT ![i] = now])
             = SumOver(FieldBlocks, fields) + FieldBlocks[now] - FieldBlocks[fields[i]]
BY FieldsTotal, SumOfExcept

\* A new value for the data of one field changes that field's blocks alone.
LEMMA SetDataFrees ==
    ASSUME NEW f \in File, NEW s \in 1 .. Len(f.sectors),
           NEW t \in 1 .. Len(f.sectors[s].sections),
           NEW i \in 1 .. Len(f.sectors[s].sections[t].fields), NEW data,
           [type |-> f.sectors[s].sections[t].fields[i].type, data |-> data] \in Typed
    PROVE  mcfg_free_file([f EXCEPT !.sectors[s].sections[t].fields[i].data = data])
             = mcfg_free_file(f)
               + mcfg_free_field([f.sectors[s].sections[t].fields[i] EXCEPT !.data = data])
               - mcfg_free_field(f.sectors[s].sections[t].fields[i])
<1> DEFINE fields == f.sectors[s].sections[t].fields
           field  == fields[i]
           now    == [field EXCEPT !.data = data]
           r      == [fields EXCEPT ![i] = now]
           g      == [f EXCEPT !.sectors[s].sections[t].fields[i].data = data]
<1>1. fields \in Seq(Field) /\ i \in 1 .. Len(fields)
  BY FileParts, SectorParts, SectionParts
<1>2. g = [f EXCEPT !.sectors[s].sections[t].fields = r]
  OBVIOUS
<1>3. [type |-> field.type, data |-> data] \in Typed
  OBVIOUS
<1> HIDE DEF fields
<1>4. field \in Field
  BY <1>1
<1> HIDE DEF field
<1>5. now \in Field
  BY <1>3, <1>4 DEF Field, Typed
<1> HIDE DEF now
<1>6. r \in Seq(Field)
  BY <1>1, <1>5
<1>7. SumOver(FieldBlocks, r) = SumOver(FieldBlocks, fields) + FieldBlocks[now] - FieldBlocks[field]
  BY <1>1, <1>5, FieldReplaced DEF field
<1>8. FieldBlocks[now] = mcfg_free_field(now) /\ FieldBlocks[field] = mcfg_free_field(field)
      /\ mcfg_free_field(now) \in Nat /\ mcfg_free_field(field) \in Nat
  BY <1>4, <1>5, FreeFieldType DEF FieldBlocks
<1>9. ArrayOf(r) = ArrayOf(fields) /\ ArrayOf(fields) \in Nat
  BY <1>1, <1>6 DEF ArrayOf
<1>10. SumOver(FieldBlocks, fields) \in Nat /\ mcfg_free_file(f) \in Nat
  BY <1>1, FieldsTotal, SumOverIs, FreeFileIs
<1> HIDE DEF r
<1>11. mcfg_free_file([f EXCEPT !.sectors[s].sections[t].fields = r])
         = mcfg_free_file(f) + SumOver(FieldBlocks, r) - SumOver(FieldBlocks, fields)
           + ArrayOf(r) - ArrayOf(fields)
  BY <1>6, FreeWithFields DEF fields
<1> HIDE DEF g
<1>12. mcfg_free_file(g) = mcfg_free_file(f) + mcfg_free_field(now) - mcfg_free_field(field)
  BY <1>2, <1>7, <1>8, <1>9, <1>10, <1>11
<1> QED
  BY <1>12 DEF g, now, field, fields

\* An element takes a block for its name and one for its data, the first one
\* an array as well; where it is refused the list stays as it was.
LEMMA AddElementFrees ==
    ASSUME NEW l \in List, NEW data \in Scalar \cup {NULL}, NEW nameOk, NEW arrayOk
    PROVE  /\ mcfg_add_list_field(l, data, nameOk, arrayOk).err = "MCFG_OK" =>
                 mcfg_free_list(mcfg_add_list_field(l, data, nameOk, arrayOk).list)
                   = mcfg_free_list(l) + 3 - ArrayOf(l.elems)
           /\ mcfg_add_list_field(l, data, nameOk, arrayOk).err # "MCFG_OK" =>
                 mcfg_add_list_field(l, data, nameOk, arrayOk).list = l
<1> DEFINE add == mcfg_add_list_field(l, data, nameOk, arrayOk)
           new == [name |-> Len(l.elems) + 1, data |-> data]
           r   == Append(l.elems, new)
<1>1. l.elems \in Seq(Element) /\ l.type \in FieldTypes /\ Len(l.elems) \in Nat
  BY DEF List
<1>2. ASSUME add.err = "MCFG_OK"
      PROVE  mcfg_free_list(add.list) = mcfg_free_list(l) + 3 - ArrayOf(l.elems)
  <2>1. data # NULL /\ add.list = [l EXCEPT !.elems = r]
    BY <1>2 DEF mcfg_add_list_field
  <2>2. new \in Element
    BY <1>1, <2>1 DEF Element
  <2>3. BlockOf(new.name) = 1 /\ BlockOf(new.data) = 1
    <3>1. new.name \in Nat /\ new.data # NULL
      BY <1>1, <2>1
    <3>2. new.name # NULL
      BY <3>1, StoreAssumption
    <3> QED
      BY <3>1, <3>2 DEF BlockOf
  <2> HIDE DEF new
  <2>4. SumOver(ElementBlocks, r) = SumOver(ElementBlocks, l.elems) + ElementBlocks[new]
    BY <1>1, <2>2, ElementsTotal, SumOfAppend
  <2>5. ElementBlocks[new] = 2
    BY <2>2, <2>3 DEF ElementBlocks
  <2>6. ArrayOf(r) = 1 /\ ArrayOf(l.elems) \in {0, 1}
    BY <1>1, <2>2, ArrayOfMore
  <2>7. r \in Seq(Element)
    BY <1>1, <2>2
  <2> HIDE DEF r
  <2>8. add.list \in List /\ add.list.elems = r
    BY <2>1, <2>7 DEF List
  <2>9. mcfg_free_list(add.list) = SumOver(ElementBlocks, r) + ArrayOf(r)
    <3> HIDE DEF add
    <3> QED
      BY <2>8, FreeListIs
  <2>10. mcfg_free_list(l) = SumOver(ElementBlocks, l.elems) + ArrayOf(l.elems)
    BY FreeListIs
  <2>11. SumOver(ElementBlocks, l.elems) \in Nat
    BY <1>1, ElementsTotal, SumOverIs
  <2> HIDE DEF add
  <2> QED
    BY <2>4, <2>5, <2>6, <2>9, <2>10, <2>11
<1>3. add.err # "MCFG_OK" => add.list = l
  BY DEF mcfg_add_list_field
<1> QED
  BY <1>2, <1>3
-----------------------------------------------------------------------------
(* Lookups that find a name everywhere: none of them passes a null pointer   *)
(* to strcmp.                                                                *)

\* Every entry of an array has a name; so has everything in a sector; so has
\* everything in a document but its dynamic fields.
HasNames(seq)       == \A i \in DOMAIN seq : seq[i].name # NULL
SectorNamed(sector) ==
    /\ HasNames(sector.sections)
    /\ \A t \in DOMAIN sector.sections : HasNames(sector.sections[t].fields)
AllNamed(f) ==
    /\ HasNames(f.sectors)
    /\ \A s \in DOMAIN f.sectors : SectorNamed(f.sectors[s])

\* An entry with a name, added where every entry has one, meets no fault.
LEMMA AddHasNames ==
    ASSUME NEW S, NEW seq \in Seq(S), NEW item, item.name \in Name,
           [item EXCEPT !.name = remove_newline(item.name)].name
             = remove_newline(item.name),
           NEW duplicate, duplicate # "fault", NEW arrayOk, HasNames(seq)
    PROVE  /\ AddNamed(seq, item, duplicate, arrayOk).err # "fault"
           /\ HasNames(AddNamed(seq, item, duplicate, arrayOk).seq)
<1> DEFINE name == remove_newline(item.name)
           new  == [item EXCEPT !.name = name]
           add  == AddNamed(seq, item, duplicate, arrayOk)
<1>1. name \in Name
  BY DEF remove_newline, Name
<1>2. name # NULL
  BY <1>1, StoreAssumption
<1>3. ~LookupFaults(seq, name)
  BY <1>2 DEF LookupFaults, HasNames
<1>4. add.err # "fault"
  BY <1>3 DEF AddNamed
<1>5. \A i \in DOMAIN add.seq : \/ i \in DOMAIN seq /\ add.seq[i] = seq[i]
                                \/ add.seq[i] = new
  BY AddNamedEntries
<1>6. new.name # NULL
  BY <1>2
<1> HIDE DEF add, new
<1>7. HasNames(add.seq)
  BY <1>5, <1>6 DEF HasNames
<1> QED
  BY <1>4, <1>7 DEF add

\* A document keeps its names when a sector of its is replaced by one that has
\* its name and names everywhere.
LEMMA NamedReplaceSector ==
    ASSUME NEW f \in File, AllNamed(f), NEW s \in DOMAIN f.sectors, NEW sector,
           sector.name = f.sectors[s].name, SectorNamed(sector)
    PROVE  AllNamed([f EXCEPT !.sectors[s] = sector])
<1> DEFINE g == [f EXCEPT !.sectors[s] = sector]
<1>1. /\ DOMAIN g.sectors = DOMAIN f.sectors
      /\ g.sectors[s] = sector
      /\ \A i \in DOMAIN f.sectors : i # s => g.sectors[i] = f.sectors[i]
  BY DEF File
<1> QED
  BY <1>1 DEF AllNamed, HasNames

\* A sector with a name is added to them,
LEMMA AddSectorNamed ==
    ASSUME NEW f \in File, AllNamed(f), NEW name \in Name, NEW arrayOk
    PROVE  /\ mcfg_add_sector(f, name, arrayOk).err # "fault"
           /\ AllNamed(mcfg_add_sector(f, name, arrayOk).file)
<1> DEFINE item == [name |-> name, sections |-> << >>]
           new  == [item EXCEPT !.name = remove_newline(item.name)]
           add  == AddNamed(f.sectors, item, "MCFG_DUPLICATE_SECTOR", arrayOk)
           r    == add.seq
           g    == mcfg_add_sector(f, name, arrayOk).file
<1>1. f.sectors \in Seq(Sector) /\ HasNames(f.sectors)
  BY DEF File, AllNamed
<1>2. add.err # "fault" /\ HasNames(r)
  BY <1>1, AddHasNames
<1>3. mcfg_add_sector(f, name, arrayOk).err = add.err /\ g.sectors = r
  BY DEF mcfg_add_sector, File
<1>4. SectorNamed(new)
  BY DEF SectorNamed, HasNames
<1>5. \A i \in DOMAIN r : \/ i \in DOMAIN f.sectors /\ r[i] = f.sectors[i]
                          \/ r[i] = new
  BY <1>1, AddNamedEntries
<1> HIDE DEF r, new, g, add
<1>6. AllNamed(g)
  BY <1>2, <1>3, <1>4, <1>5 DEF AllNamed
<1> QED
  BY <1>2, <1>3, <1>6 DEF g

\* a section with a name is,
LEMMA AddSectionNamed ==
    ASSUME NEW f \in File, AllNamed(f), NEW s \in DOMAIN f.sectors, NEW name \in Name,
           NEW arrayOk
    PROVE  /\ mcfg_add_section(f, s, name, arrayOk).err # "fault"
           /\ AllNamed(mcfg_add_section(f, s, name, arrayOk).file)
<1> DEFINE old    == f.sectors[s]
           item   == [name |-> name, fields |-> << >>]
           new    == [item EXCEPT !.name = remove_newline(item.name)]
           add    == AddNamed(old.sections, item, "MCFG_DUPLICATE_FIELD", arrayOk)
           r      == add.seq
           sector == [old EXCEPT !.sections = r]
           g      == mcfg_add_section(f, s, name, arrayOk).file
<1>1. old \in Sector /\ old.sections \in Seq(Section) /\ SectorNamed(old)
  BY FileParts, SectorParts DEF AllNamed
<1>2. add.err # "fault" /\ HasNames(r)
  BY <1>1, AddHasNames DEF SectorNamed
<1>3. mcfg_add_section(f, s, name, arrayOk).err = add.err
      /\ g = [f EXCEPT !.sectors[s] = sector]
  BY DEF mcfg_add_section
<1>4. sector.name = old.name /\ sector.sections = r
  BY <1>1 DEF Sector
<1>5. HasNames(new.fields)
  BY DEF HasNames
<1>6. \A i \in DOMAIN r : \/ i \in DOMAIN old.sections /\ r[i] = old.sections[i]
                          \/ r[i] = new
  BY <1>1, AddNamedEntries
<1> HIDE DEF r, new, g, add, sector
<1>7. SectorNamed(sector)
  BY <1>1, <1>2, <1>4, <1>5, <1>6 DEF SectorNamed
<1>8. AllNamed(g)
  BY <1>3, <1>4, <1>7, NamedReplaceSector
<1> QED
  BY <1>2, <1>3, <1>8 DEF g

\* and a field with a name is.
LEMMA AddFieldNamed ==
    ASSUME NEW f \in File, AllNamed(f), NEW s \in DOMAIN f.sectors,
           NEW t \in DOMAIN f.sectors[s].sections, NEW type, NEW data,
           NEW name \in Name, NEW arrayOk
    PROVE  /\ mcfg_add_field(f, s, t, type, name, data, arrayOk).err # "fault"
           /\ AllNamed(mcfg_add_field(f, s, t, type, name, data, arrayOk).file)
<1> DEFINE old     == f.sectors[s]
           before  == old.sections[t]
           item    == [name |-> name, type |-> type, data |-> data]
           new     == [item EXCEPT !.name = remove_newline(item.name)]
           add     == AddNamed(before.fields, item, "MCFG_DUPLICATE_FIELD", arrayOk)
           r       == add.seq
           section == [before EXCEPT !.fields = r]
           sector  == [old EXCEPT !.sections[t] = section]
           g       == mcfg_add_field(f, s, t, type, name, data, arrayOk).file
<1>1. old \in Sector /\ before \in Section /\ before.fields \in Seq(Field)
  <2>1. old \in Sector
    BY FileParts
  <2>2. before \in Section
    BY <2>1, SectorParts
  <2> QED
    BY <2>1, <2>2, SectionParts
<1>2. SectorNamed(old) /\ HasNames(before.fields)
  BY DEF AllNamed, SectorNamed
<1>3. add.err # "fault" /\ HasNames(r)
  BY <1>1, <1>2, AddHasNames
<1>4. mcfg_add_field(f, s, t, type, name, data, arrayOk).err = add.err
      /\ g = [f EXCEPT !.sectors[s] = sector]
  BY DEF mcfg_add_field
<1>5. section.name = before.name /\ section.fields = r
  BY <1>1 DEF Section
<1>6. /\ sector.name = old.name
      /\ DOMAIN sector.sections = DOMAIN old.sections
      /\ sector.sections[t] = section
      /\ \A i \in DOMAIN old.sections : i # t => sector.sections[i] = old.sections[i]
  <2> HIDE DEF section
  <2> QED
    BY <1>1 DEF Sector
<1>7. before.name # NULL
  BY <1>2 DEF SectorNamed, HasNames
<1> HIDE DEF r, new, g, add, section, sector, before
<1>8. SectorNamed(sector)
  BY <1>2, <1>3, <1>5, <1>6, <1>7 DEF SectorNamed, HasNames
<1>9. AllNamed(g)
  BY <1>4, <1>6, <1>8, NamedReplaceSector
<1> QED
  BY <1>3, <1>4, <1>9 DEF g

-----------------------------------------------------------------------------
(* Counting: the entries of a document are counted array by array.           *)

FieldCounts   == [x \in Field |-> FieldCount(x)]
SectionCounts == [x \in Section |-> SectionCount(x)]
SectorCounts  == [x \in Sector |-> SectorCount(x)]

\* A field counts once, and each of its elements once.
LEMMA FieldCountType ==
    ASSUME NEW x \in Field
    PROVE  FieldCount(x) \in Nat
<1>1. x.data # NULL /\ x.type = "TYPE_LIST" => x.data.elems \in Seq(Element)
  BY DEF Field, List
<1>2. x.data # NULL /\ x.type = "TYPE_LIST" => Len(x.data.elems) \in Nat
  BY <1>1
<1> QED
  BY <1>2 DEF FieldCount

\* The fields of an array,
LEMMA FieldCountsTotal ==
    ASSUME NEW fields \in Seq(Field)
    PROVE  /\ FieldCounts \in [Field -> Nat]
           /\ Total(FieldCount, fields) = SumOver(FieldCounts, fields)
<1> DEFINE n == Len(fields)
           w == [k \in 1 .. n |-> FieldCounts[fields[k]]]
           Body(g) == [r \in SUBSET DOMAIN fields |->
                          IF r = {} THEN 0
                          ELSE g[r \ {Max(r)}] + FieldCount(fields[Max(r)])]
           fold == CHOOSE g : g = Body(g)
<1>1. Total(FieldCount, fields) = fold[DOMAIN fields]
  BY DEF Total, FoldLeft, MapThenFoldSet
<1>2. FieldCounts \in [Field -> Nat]
  BY FieldCountType DEF FieldCounts
<1>3. n \in Nat /\ DOMAIN fields = 1 .. n /\ w \in [1 .. n -> Nat]
      /\ \A k \in 1 .. n : w[k] = FieldCount(fields[k])
  BY <1>2 DEF FieldCounts
<1>4. ASSUME NEW g
      PROVE  Body(g) = SumBody(g, w, n)
  <2>1. ASSUME NEW r \in SUBSET (1 .. n), r # {}
        PROVE  w[Max(r)] = FieldCount(fields[Max(r)])
    BY <1>3, <2>1, MaxOfInterval
  <2> QED
    BY <1>3, <2>1 DEF SumBody
<1> HIDE DEF w, n, Body
<1>5. fold = SumBody(fold, w, n)
  <2>1. \E g : g = Body(g)
    BY <1>3, <1>4, SumExists
  <2> QED
    BY <1>4, <2>1
<1>6. Sums(fold[1 .. n], w, n)
  BY <1>3, <1>5, FoldSums
<1> QED
  BY <1>1, <1>2, <1>3, <1>6, SumOverIs DEF w, n

\* the section that they are in,
LEMMA SectionCountIs ==
    ASSUME NEW x \in Section
    PROVE  /\ SectionCount(x) = 1 + SumOver(FieldCounts, x.fields)
           /\ SectionCount(x) \in Nat
<1>1. x.fields \in Seq(Field)
  BY DEF Section
<1>2. Total(FieldCount, x.fields) = SumOver(FieldCounts, x.fields)
      /\ SumOver(FieldCounts, x.fields) \in Nat
  BY <1>1, FieldCountsTotal, SumOverIs
<1> QED
  BY <1>2 DEF SectionCount

\* all sections of a sector,
LEMMA SectionCountsTotal ==
    ASSUME NEW sections \in Seq(Section)
    PROVE  /\ SectionCounts \in [Section -> Nat]
           /\ Total(SectionCount, sections) = SumOver(SectionCounts, sections)
<1> DEFINE n == Len(sections)
           w == [k \in 1 .. n |-> SectionCounts[sections[k]]]
           Body(g) == [r \in SUBSET DOMAIN sections |->
                          IF r = {} THEN 0
                          ELSE g[r \ {Max(r)}] + SectionCount(sections[Max(r)])]
           fold == CHOOSE g : g = Body(g)
<1>1. Total(SectionCount, sections) = fold[DOMAIN sections]
  BY DEF Total, FoldLeft, MapThenFoldSet
<1>2. SectionCounts \in [Section -> Nat]
  BY SectionCountIs DEF SectionCounts
<1>3. n \in Nat /\ DOMAIN sections = 1 .. n /\ w \in [1 .. n -> Nat]
      /\ \A k \in 1 .. n : w[k] = SectionCount(sections[k])
  BY <1>2 DEF SectionCounts
<1>4. ASSUME NEW g
      PROVE  Body(g) = SumBody(g, w, n)
  <2>1. ASSUME NEW r \in SUBSET (1 .. n), r # {}
        PROVE  w[Max(r)] = SectionCount(sections[Max(r)])
    BY <1>3, <2>1, MaxOfInterval
  <2> QED
    BY <1>3, <2>1 DEF SumBody
<1> HIDE DEF w, n, Body
<1>5. fold = SumBody(fold, w, n)
  <2>1. \E g : g = Body(g)
    BY <1>3, <1>4, SumExists
  <2> QED
    BY <1>4, <2>1
<1>6. Sums(fold[1 .. n], w, n)
  BY <1>3, <1>5, FoldSums
<1> QED
  BY <1>1, <1>2, <1>3, <1>6, SumOverIs DEF w, n

\* that sector,
LEMMA SectorCountIs ==
    ASSUME NEW x \in Sector
    PROVE  /\ SectorCount(x) = 1 + SumOver(SectionCounts, x.sections)
           /\ SectorCount(x) \in Nat
<1>1. x.sections \in Seq(Section)
  BY DEF Sector
<1>2. Total(SectionCount, x.sections) = SumOver(SectionCounts, x.sections)
      /\ SumOver(SectionCounts, x.sections) \in Nat
  BY <1>1, SectionCountsTotal, SumOverIs
<1> QED
  BY <1>2 DEF SectorCount

\* and all sectors.
LEMMA SectorCountsTotal ==
    ASSUME NEW sectors \in Seq(Sector)
    PROVE  /\ SectorCounts \in [Sector -> Nat]
           /\ Total(SectorCount, sectors) = SumOver(SectorCounts, sectors)
<1> DEFINE n == Len(sectors)
           w == [k \in 1 .. n |-> SectorCounts[sectors[k]]]
           Body(g) == [r \in SUBSET DOMAIN sectors |->
                          IF r = {} THEN 0
                          ELSE g[r \ {Max(r)}] + SectorCount(sectors[Max(r)])]
           fold == CHOOSE g : g = Body(g)
<1>1. Total(SectorCount, sectors) = fold[DOMAIN sectors]
  BY DEF Total, FoldLeft, MapThenFoldSet
<1>2. SectorCounts \in [Sector -> Nat]
  BY SectorCountIs DEF SectorCounts
<1>3. n \in Nat /\ DOMAIN sectors = 1 .. n /\ w \in [1 .. n -> Nat]
      /\ \A k \in 1 .. n : w[k] = SectorCount(sectors[k])
  BY <1>2 DEF SectorCounts
<1>4. ASSUME NEW g
      PROVE  Body(g) = SumBody(g, w, n)
  <2>1. ASSUME NEW r \in SUBSET (1 .. n), r # {}
        PROVE  w[Max(r)] = SectorCount(sectors[Max(r)])
    BY <1>3, <2>1, MaxOfInterval
  <2> QED
    BY <1>3, <2>1 DEF SumBody
<1> HIDE DEF w, n, Body
<1>5. fold = SumBody(fold, w, n)
  <2>1. \E g : g = Body(g)
    BY <1>3, <1>4, SumExists
  <2> QED
    BY <1>4, <2>1
<1>6. Sums(fold[1 .. n], w, n)
  BY <1>3, <1>5, FoldSums
<1> QED
  BY <1>1, <1>2, <1>3, <1>6, SumOverIs DEF w, n

\* The document counts its sectors and its dynamic fields.
LEMMA EntryCountIs ==
    ASSUME NEW f \in File
    PROVE  /\ EntryCount(f) = SumOver(SectorCounts, f.sectors) + SumOver(FieldCounts, f.dynfields)
           /\ EntryCount(f) \in Nat
<1>1. f.sectors \in Seq(Sector) /\ f.dynfields \in Seq(Field)
  BY DEF File
<1>2. Total(SectorCount, f.sectors) = SumOver(SectorCounts, f.sectors)
      /\ SumOver(SectorCounts, f.sectors) \in Nat
  BY <1>1, SectorCountsTotal, SumOverIs
<1>3. Total(FieldCount, f.dynfields) = SumOver(FieldCounts, f.dynfields)
      /\ SumOver(FieldCounts, f.dynfields) \in Nat
  BY <1>1, FieldCountsTotal, SumOverIs
<1> QED
  BY <1>2, <1>3 DEF EntryCount

\* Replacing a sector changes the count by the difference of the two,
LEMMA CountReplaceSector ==
    ASSUME NEW f \in File, NEW s \in 1 .. Len(f.sectors), NEW sector \in Sector
    PROVE  EntryCount([f EXCEPT !.sectors[s] = sector])
             = EntryCount(f) + SectorCount(sector) - SectorCount(f.sectors[s])
<1> DEFINE r == [f.sectors EXCEPT ![s] = sector]
           g == [f EXCEPT !.sectors[s] = sector]
<1>1. f.sectors \in Seq(Sector) /\ s \in DOMAIN f.sectors /\ f.sectors[s] \in Sector
      /\ f.dynfields \in Seq(Field)
  BY FileParts
<1>2. g \in File /\ g.sectors = r /\ g.dynfields = f.dynfields
  BY <1>1, ReplaceSector DEF File
<1>3. SumOver(SectorCounts, r)
        = SumOver(SectorCounts, f.sectors) + SectorCounts[sector] - SectorCounts[f.sectors[s]]
  <2> DEFINE sectors == f.sectors
  <2>1. SectorCounts \in [Sector -> Nat] /\ sectors \in Seq(Sector) /\ s \in 1 .. Len(sectors)
    BY <1>1, SectorCountsTotal
  <2> HIDE DEF sectors
  <2>2. SumOver(SectorCounts, [sectors EXCEPT ![s] = sector])
          = SumWith(SectorCounts, sectors, s, sector)
    BY <2>1, SumOfExchange
  <2> QED
    BY <2>2 DEF sectors, SumWith
<1>4. SectorCounts[sector] = SectorCount(sector)
      /\ SectorCounts[f.sectors[s]] = SectorCount(f.sectors[s])
  BY <1>1 DEF SectorCounts
<1>5. SectorCount(sector) \in Nat /\ SectorCount(f.sectors[s]) \in Nat
  BY <1>1, SectorCountIs
<1>6. SumOver(SectorCounts, f.sectors) \in Nat /\ SumOver(FieldCounts, f.dynfields) \in Nat
  BY <1>1, SectorCountsTotal, FieldCountsTotal, SumOverIs
<1> HIDE DEF r, g
<1>7. EntryCount(g) = SumOver(SectorCounts, r) + SumOver(FieldCounts, f.dynfields)
  BY <1>2, EntryCountIs
<1>8. EntryCount(f) = SumOver(SectorCounts, f.sectors) + SumOver(FieldCounts, f.dynfields)
  BY EntryCountIs
<1> QED
  BY <1>3, <1>4, <1>5, <1>6, <1>7, <1>8 DEF g

\* and so does replacing a section.
LEMMA CountReplaceSection ==
    ASSUME NEW sector \in Sector, NEW t \in 1 .. Len(sector.sections), NEW section \in Section
    PROVE  SectorCount([sector EXCEPT !.sections[t] = section])
             = SectorCount(sector) + SectionCount(section) - SectionCount(sector.sections[t])
<1> DEFINE r == [sector.sections EXCEPT ![t] = section]
           g == [sector EXCEPT !.sections[t] = section]
<1>1. sector.sections \in Seq(Section) /\ t \in DOMAIN sector.sections
      /\ sector.sections[t] \in Section
  BY SectorParts
<1>2. g \in Sector /\ g.sections = r
  BY <1>1, ReplaceSection DEF Sector
<1>3. SumOver(SectionCounts, r)
        = SumOver(SectionCounts, sector.sections) + SectionCounts[section]
          - SectionCounts[sector.sections[t]]
  <2> DEFINE sections == sector.sections
  <2>1. /\ SectionCounts \in [Section -> Nat]
        /\ sections \in Seq(Section) /\ t \in 1 .. Len(sections)
    BY <1>1, SectionCountsTotal
  <2> HIDE DEF sections
  <2>2. SumOver(SectionCounts, [sections EXCEPT ![t] = section])
          = SumWith(SectionCounts, sections, t, section)
    BY <2>1, SumOfExchange
  <2> QED
    BY <2>2 DEF sections, SumWith
<1>4. SectionCounts[section] = SectionCount(section)
      /\ SectionCounts[sector.sections[t]] = SectionCount(sector.sections[t])
  BY <1>1 DEF SectionCounts
<1>5. SectionCount(section) \in Nat /\ SectionCount(sector.sections[t]) \in Nat
  BY <1>1, SectionCountIs
<1>6. SumOver(SectionCounts, sector.sections) \in Nat
  BY <1>1, SectionCountsTotal, SumOverIs
<1> HIDE DEF r, g
<1>7. SectorCount(g) = 1 + SumOver(SectionCounts, r)
  BY <1>2, SectorCountIs
<1>8. SectorCount(sector) = 1 + SumOver(SectionCounts, sector.sections)
  BY SectorCountIs
<1> QED
  BY <1>3, <1>4, <1>5, <1>6, <1>7, <1>8 DEF g
-----------------------------------------------------------------------------
(* Entries and their paths.                                                  *)

Paths(E) == {e.path : e \in E}

\* No two entries have one path.
Single(E) == \A d, e \in E : d.path = e.path => d = e

Steps == [kind : {"sector", "section", "field", "dynfield", "element"},
          name : Name \cup {NULL} \cup [position : Nat]]

\* p starts with path and goes on with step.
Under(path, step, p) ==
    /\ p \in Seq(Steps)
    /\ Len(p) > Len(path)
    /\ p[Len(path) + 1] = step
    /\ \A k \in 1 .. Len(path) : p[k] = path[k]

\* The elements of a field, those of a field that is no list being none.
Elems(field) ==
    IF field.type = "TYPE_LIST" /\ field.data # NULL THEN field.data.elems ELSE << >>

\* The entry of element i.
ElementEntry(here, field, i) ==
    Entry(Append(here, ElementStep(i)),
          [type |-> field.data.type, data |-> Elems(field)[i].data])

\* A path without its last step.
LEMMA FrontOfAppend ==
    ASSUME NEW S, NEW seq \in Seq(S), NEW x \in S
    PROVE  /\ Append(seq, x) \in Seq(S) /\ Len(Append(seq, x)) = Len(seq) + 1
           /\ Append(seq, x)[Len(seq) + 1] = x
           /\ \A k \in 1 .. Len(seq) : Append(seq, x)[k] = seq[k]
           /\ Front(Append(seq, x)) = seq
           /\ IsPrefix(seq, Append(seq, x))
<1> DEFINE more == Append(seq, x)
<1>1. more \in Seq(S) /\ Len(more) = Len(seq) + 1 /\ Len(seq) \in Nat
      /\ more[Len(seq) + 1] = x
      /\ \A k \in 1 .. Len(seq) : more[k] = seq[k]
  OBVIOUS
<1>2. SubSeq(more, 1, Len(seq)) = seq /\ SubSeq(seq, 1, Len(seq)) = seq
  <2> HIDE DEF more
  <2>1. SubSeq(more, 1, Len(seq)) \in Seq(S) /\ Len(SubSeq(more, 1, Len(seq))) = Len(seq)
        /\ \A k \in 1 .. Len(seq) : SubSeq(more, 1, Len(seq))[k] = seq[k]
    BY <1>1
  <2>2. SubSeq(seq, 1, Len(seq)) \in Seq(S) /\ Len(SubSeq(seq, 1, Len(seq))) = Len(seq)
        /\ \A k \in 1 .. Len(seq) : SubSeq(seq, 1, Len(seq))[k] = seq[k]
    BY <1>1
  <2> QED
    BY <2>1, <2>2
<1>3. (Len(seq) + 1) - 1 = Len(seq) /\ Len(seq) <= Len(seq) + 1
  BY <1>1
<1> HIDE DEF more
<1>4. Front(more) = seq
  BY <1>1, <1>2, <1>3 DEF Front
<1>5. IsPrefix(seq, more)
  BY <1>1, <1>2, <1>3 DEF IsPrefix
<1> QED
  BY <1>1, <1>4, <1>5 DEF more

\* The steps of the paths of a document.
LEMMA StepTypes ==
    /\ \A kind \in {"sector", "section", "field", "dynfield"}, name \in Name \cup {NULL} :
          Step(kind, name) \in Steps
    /\ \A i \in Nat : ElementStep(i) \in Steps
    /\ \A kind, name, k, n : Step(kind, name) = Step(k, n) => kind = k /\ name = n
    /\ \A i, j : ElementStep(i) = ElementStep(j) => i = j
BY DEF Step, ElementStep, Steps

\* What the elements of a field are.
LEMMA ElemsType ==
    ASSUME NEW field \in Field
    PROVE  /\ Elems(field) \in Seq(Element) /\ Len(Elems(field)) \in Nat
           /\ FieldCount(field) = 1 + Len(Elems(field))
<1>1. field.data # NULL /\ field.type = "TYPE_LIST" => field.data.elems \in Seq(Element)
  BY DEF Field, List
<1>2. Elems(field) \in Seq(Element)
  BY <1>1 DEF Elems
<1> QED
  BY <1>2 DEF Elems, FieldCount

\* The entries of a field are the field and its elements, which are named by
\* their positions.
LEMMA FieldIs ==
    ASSUME NEW path, NEW field \in Field, WellListed(field), NEW kind
    PROVE  LET here == Append(path, Step(kind, field.name))
           IN  EntriesOfField(path, field, kind)
                 = {Entry(here, FieldValue(field))}
                   \cup {ElementEntry(here, field, i) : i \in 1 .. Len(Elems(field))}
<1> DEFINE here == Append(path, Step(kind, field.name))
           elems == Elems(field)
<1>1. CASE field.type = "TYPE_LIST" /\ field.data # NULL
  <2>1. elems = field.data.elems /\ elems \in Seq(Element)
    BY <1>1, ElemsType DEF Elems
  <2>2. DOMAIN elems = 1 .. Len(elems) /\ \A i \in DOMAIN elems : elems[i].name = i
    BY <1>1, <2>1 DEF WellListed, Positioned
  <2>3. EntriesOfField(path, field, kind)
          = {Entry(here, FieldValue(field))}
            \cup { Entry(Append(here, ElementStep(e.name)),
                         [type |-> field.data.type, data |-> e.data]) : e \in ToSet(elems) }
    BY <1>1, <2>1 DEF EntriesOfField
  <2> HIDE DEF here, elems
  <2>4. { Entry(Append(here, ElementStep(e.name)),
                [type |-> field.data.type, data |-> e.data]) : e \in ToSet(elems) }
          = { Entry(Append(here, ElementStep(elems[i].name)),
                    [type |-> field.data.type, data |-> elems[i].data]) : i \in DOMAIN elems }
    BY DEF ToSet
  <2>5. \A i \in DOMAIN elems :
           Entry(Append(here, ElementStep(elems[i].name)),
                 [type |-> field.data.type, data |-> elems[i].data])
             = ElementEntry(here, field, i)
    BY <2>2 DEF ElementEntry, elems
  <2> DEFINE Listed(i) == Entry(Append(here, ElementStep(elems[i].name)),
                                [type |-> field.data.type, data |-> elems[i].data])
  <2>6. { Listed(i) : i \in DOMAIN elems } = { ElementEntry(here, field, i) : i \in 1 .. Len(elems) }
    <3>1. \A i \in DOMAIN elems : Listed(i) = ElementEntry(here, field, i)
      BY <2>5
    <3> HIDE DEF Listed
    <3> QED
      BY <2>2, <3>1
  <2>7. EntriesOfField(path, field, kind)
          = {Entry(here, FieldValue(field))} \cup { Listed(i) : i \in DOMAIN elems }
    BY <2>3, <2>4
  <2> HIDE DEF Listed
  <2>8. EntriesOfField(path, field, kind)
          = {Entry(here, FieldValue(field))}
            \cup { ElementEntry(here, field, i) : i \in 1 .. Len(elems) }
    BY <2>6, <2>7
  <2> QED
    BY <2>8 DEF here, elems
<1>2. CASE ~ (field.type = "TYPE_LIST" /\ field.data # NULL)
  <2>1. Len(elems) = 0
    BY <1>2 DEF Elems
  <2>2. EntriesOfField(path, field, kind) = {Entry(here, FieldValue(field))}
    BY <1>2 DEF EntriesOfField
  <2>3. {ElementEntry(here, field, i) : i \in 1 .. Len(elems)} = {}
    BY <2>1
  <2> QED
    BY <2>2, <2>3
<1> QED
  BY <1>1, <1>2

\* They are as many as the field counts, and each has a path of its own.
LEMMA FieldPaths ==
    ASSUME NEW path \in Seq(Steps), NEW field \in Field, WellListed(field),
           NEW kind \in {"field", "dynfield"}
    PROVE  LET E    == EntriesOfField(path, field, kind)
               here == Append(path, Step(kind, field.name))
           IN  /\ Single(E)
               /\ Paths(E) = {here} \cup {Append(here, ElementStep(i)) : i \in 1 .. Len(Elems(field))}
               /\ IsFiniteSet(Paths(E)) /\ Cardinality(Paths(E)) = FieldCount(field)
               /\ here \in Seq(Steps)
<1> DEFINE here == Append(path, Step(kind, field.name))
           n == Len(Elems(field))
           E == EntriesOfField(path, field, kind)
           Place(i) == Append(here, ElementStep(i))
<1>1. n \in Nat /\ FieldCount(field) = 1 + n
  BY ElemsType
<1>2. here \in Seq(Steps) /\ Len(here) \in Nat
  <2>1. Step(kind, field.name) \in Steps
    BY StepTypes DEF Field
  <2> QED
    BY <2>1
<1>3. E = {Entry(here, FieldValue(field))} \cup {ElementEntry(here, field, i) : i \in 1 .. n}
  BY FieldIs
<1> HIDE DEF here, n, E
<1>4. ASSUME NEW i \in 1 .. n
      PROVE  /\ ElementEntry(here, field, i).path = Place(i)
             /\ Len(Place(i)) = Len(here) + 1 /\ Place(i)[Len(here) + 1] = ElementStep(i)
             /\ Place(i) # here
  <2>1. ElementStep(i) \in Steps
    BY <1>1, StepTypes
  <2>2. Len(Place(i)) = Len(here) + 1 /\ Place(i)[Len(here) + 1] = ElementStep(i)
    BY <1>2, <2>1
  <2> QED
    BY <1>2, <2>2 DEF ElementEntry, Entry
<1>5. \A i, j \in 1 .. n : Place(i) = Place(j) => i = j
  <2> TAKE i, j \in 1 .. n
  <2>1. Place(i) = Place(j) => ElementStep(i) = ElementStep(j)
    BY <1>4
  <2> QED
    BY <2>1, StepTypes
<1>6. Entry(here, FieldValue(field)).path = here
  BY DEF Entry
<1>7. Single(E)
  <2> SUFFICES ASSUME NEW d \in E, NEW e \in E, d.path = e.path PROVE d = e
    BY DEF Single
  <2> HIDE DEF Place
  <2> QED
    BY <1>3, <1>4, <1>5, <1>6
<1>8. Paths(E) = {here} \cup {Place(i) : i \in 1 .. n}
  <2> HIDE DEF Place
  <2> QED
    BY <1>3, <1>4, <1>6 DEF Paths
<1>9. IsFiniteSet(Paths(E)) /\ Cardinality(Paths(E)) = 1 + n
  <2> DEFINE b == [i \in 0 .. n |-> IF i = 0 THEN here ELSE Place(i)]
  <2>1. b \in Bijection(0 .. n, Paths(E))
    <3> HIDE DEF Place
    <3>1. \A i \in 0 .. n : i = 0 \/ i \in 1 .. n
      BY <1>1
    <3>2. b \in [0 .. n -> Paths(E)]
      BY <1>8, <3>1
    <3>3. \A i, j \in 0 .. n : b[i] = b[j] => i = j
      BY <1>4, <1>5, <3>1
    <3>4. \A p \in Paths(E) : \E i \in 0 .. n : b[i] = p
      <4>1. 0 \in 0 .. n /\ b[0] = here
        BY <1>1
      <4>2. \A i \in 1 .. n : i \in 0 .. n /\ b[i] = Place(i)
        BY <1>1
      <4> HIDE DEF b
      <4> QED
        BY <1>8, <4>1, <4>2
    <3> HIDE DEF b
    <3> QED
      BY <3>2, <3>3, <3>4 DEF Bijection, Injection, Surjection, IsInjective
  <2>2. ExistsBijection(0 .. n, Paths(E))
    BY <2>1 DEF ExistsBijection
  <2>3. IsFiniteSet(0 .. n) /\ Cardinality(0 .. n) = n + 1
    BY <1>1, FS_Interval
  <2> QED
    BY <1>1, <2>2, <2>3, FS_Bijection
<1> QED
  BY <1>1, <1>2, <1>7, <1>8, <1>9 DEF here, n, E
-----------------------------------------------------------------------------
(* Growing: what the documents before and after a successful add share.      *)

\* Nothing in E lies at or below the child step of path.
Absent(E, path, step) == \A e \in E : ~Under(path, step, e.path)

\* N is that child, with elements of its own or without.
NewBranch(path, step, N) ==
    /\ path \in Seq(Steps) /\ step \in Steps
    /\ Single(N) /\ IsFiniteSet(Paths(N))
    /\ Append(path, step) \in Paths(N)
    /\ \A p \in Paths(N) : \/ p = Append(path, step)
                           \/ \E x \in Steps : p = Append(Append(path, step), x)

\* E gets the entries N at a child that was not there.
Gains(E, F, path, step, N) == F = E \cup N /\ Absent(E, path, step)

Closed(paths) == \A p \in paths : Len(p) > 1 => Front(p) \in paths

\* Every entry is reached by a path of its own, its parent is an entry too,
\* and the arrays hold as many entries as there are paths.
IsTree(f) ==
    /\ Single(Entries(f))
    /\ Paths(Entries(f)) \subseteq Seq(Steps)
    /\ Closed(Paths(Entries(f)))
    /\ IsFiniteSet(Paths(Entries(f)))
    /\ EntryCount(f) = Cardinality(Paths(Entries(f)))

\* g is f with a new child of path.
Adds(f, g, path, step, N) ==
    /\ Gains(Entries(f), Entries(g), path, step, N)
    /\ NewBranch(path, step, N)
    /\ path = << >> \/ path \in Paths(Entries(f))
    /\ EntryCount(g) = EntryCount(f) + Cardinality(Paths(N))

\* To lie at or below a child is to have its path as a prefix.
LEMMA UnderIsPrefix ==
    ASSUME NEW path \in Seq(Steps), NEW step \in Steps, NEW p \in Seq(Steps)
    PROVE  IsPrefix(Append(path, step), p) <=> Under(path, step, p)
<1> DEFINE a == Append(path, step)
           n == Len(path)
<1>1. a \in Seq(Steps) /\ Len(a) = n + 1 /\ n \in Nat /\ a[n + 1] = step
      /\ \A k \in 1 .. n : a[k] = path[k]
  OBVIOUS
<1>2. Len(p) \in Nat /\ (Len(p) > n <=> Len(a) <= Len(p))
  BY <1>1
<1> HIDE DEF a, n
<1>3. ASSUME Len(a) <= Len(p)
      PROVE  SubSeq(a, 1, Len(a)) = SubSeq(p, 1, Len(a))
             <=> p[n + 1] = step /\ \A k \in 1 .. n : p[k] = path[k]
  <2> DEFINE b == SubSeq(a, 1, Len(a))
             c == SubSeq(p, 1, Len(a))
  <2>1. /\ b \in Seq(Steps) /\ Len(b) = n + 1 /\ \A k \in 1 .. n + 1 : b[k] = a[k]
        /\ c \in Seq(Steps) /\ Len(c) = n + 1 /\ \A k \in 1 .. n + 1 : c[k] = p[k]
    BY <1>1, <1>2, <1>3
  <2> HIDE DEF b, c
  <2>2. b = c <=> \A k \in 1 .. n + 1 : b[k] = c[k]
    <3>1. (\A k \in 1 .. n + 1 : b[k] = c[k]) => b = c
      BY <1>1, <2>1
    <3> QED
      BY <3>1
  <2>3. (\A k \in 1 .. n + 1 : b[k] = c[k])
        <=> p[n + 1] = step /\ \A k \in 1 .. n : p[k] = path[k]
    <3>1. n + 1 \in 1 .. n + 1 /\ \A k \in 1 .. n : k \in 1 .. n + 1
      BY <1>1
    <3>2. \A k \in 1 .. n + 1 : k = n + 1 \/ k \in 1 .. n
      BY <1>1
    <3> QED
      BY <1>1, <2>1, <3>1, <3>2
  <2> QED
    BY <2>2, <2>3 DEF b, c
<1> QED
  BY <1>2, <1>3 DEF IsPrefix, Under, a, n

\* All of a branch lies at or below its child, and below path.
LEMMA BranchIs ==
    ASSUME NEW path, NEW step, NEW N, NewBranch(path, step, N), NEW p \in Paths(N)
    PROVE  /\ p \in Seq(Steps) /\ Under(path, step, p)
           /\ Len(p) > 1 => \/ Front(p) \in Paths(N)
                            \/ Front(p) = path /\ path # << >>
<1> DEFINE here == Append(path, step)
<1>1. path \in Seq(Steps) /\ step \in Steps /\ here \in Paths(N)
      /\ (p = here \/ \E x \in Steps : p = Append(here, x))
  BY DEF NewBranch
<1>2. /\ here \in Seq(Steps) /\ Len(here) = Len(path) + 1 /\ here[Len(path) + 1] = step
      /\ \A k \in 1 .. Len(path) : here[k] = path[k]
      /\ Front(here) = path /\ Len(path) \in Nat
  BY <1>1, FrontOfAppend
<1> HIDE DEF here
<1>3. CASE p = here
  <2>1. Len(p) > 1 => path # << >>
    BY <1>2, <1>3
  <2> QED
    BY <1>2, <1>3, <2>1 DEF Under
<1>4. CASE \E x \in Steps : p = Append(here, x)
  <2>1. PICK x \in Steps : p = Append(here, x)
    BY <1>4
  <2>2. /\ p \in Seq(Steps) /\ Len(p) = Len(here) + 1 /\ Front(p) = here
        /\ \A k \in 1 .. Len(here) : p[k] = here[k]
    BY <1>2, <2>1, FrontOfAppend
  <2>3. Under(path, step, p)
    BY <1>2, <2>2 DEF Under
  <2> QED
    BY <1>1, <2>2, <2>3
<1> QED
  BY <1>1, <1>3, <1>4

\* The tree has the value of every entry at its path.
LEMMA TreeIs ==
    ASSUME NEW f, Single(Entries(f))
    PROVE  /\ DOMAIN Tree(f) = Paths(Entries(f))
           /\ \A e \in Entries(f) : Tree(f)[e.path] = e.value
<1>1. DOMAIN Tree(f) = Paths(Entries(f))
  BY DEF Tree, Paths
<1>2. ASSUME NEW e \in Entries(f)
      PROVE  Tree(f)[e.path] = e.value
  <2>1. e.path \in Paths(Entries(f))
    BY DEF Paths
  <2>2. (CHOOSE d \in Entries(f) : d.path = e.path) = e
    BY DEF Single
  <2> QED
    BY <2>1, <2>2 DEF Tree, Paths
<1> QED
  BY <1>1, <1>2

\* A tree that gets a new branch is a tree, and keeps what it had.
LEMMA TreeGrows ==
    ASSUME NEW f, NEW g, NEW path, NEW step, NEW N,
           IsTree(f), Adds(f, g, path, step, N)
    PROVE  /\ IsTree(g)
           /\ DOMAIN Tree(g) = DOMAIN Tree(f) \cup Paths(N)
           /\ \A p \in DOMAIN Tree(f) : Tree(g)[p] = Tree(f)[p] /\ p \notin Paths(N)
           /\ \A p \in DOMAIN Tree(g) : IsPrefix(Append(path, step), p) <=> p \in Paths(N)
           /\ Append(path, step) \in Paths(N)
<1> DEFINE E == Entries(f)
           F == Entries(g)
<1>1. /\ F = E \cup N /\ Absent(E, path, step) /\ NewBranch(path, step, N)
      /\ path = << >> \/ path \in Paths(E)
      /\ EntryCount(g) = EntryCount(f) + Cardinality(Paths(N))
  BY DEF Adds, Gains
<1>2. /\ Single(E) /\ Paths(E) \subseteq Seq(Steps) /\ Closed(Paths(E))
      /\ IsFiniteSet(Paths(E)) /\ EntryCount(f) = Cardinality(Paths(E))
  BY DEF IsTree
<1> HIDE DEF E, F
<1>3. \A p \in Paths(N) :
         /\ p \in Seq(Steps) /\ Under(path, step, p)
         /\ Len(p) > 1 => Front(p) \in Paths(N) \/ (Front(p) = path /\ path # << >>)
  BY <1>1, BranchIs
<1>4. \A p \in Paths(E) : ~Under(path, step, p)
  BY <1>1 DEF Absent, Paths
<1>5. /\ Paths(F) = Paths(E) \cup Paths(N) /\ Paths(E) \cap Paths(N) = {}
      /\ Paths(F) \subseteq Seq(Steps)
  <2>1. Paths(F) = Paths(E) \cup Paths(N)
    BY <1>1 DEF Paths
  <2> QED
    BY <1>2, <1>3, <1>4, <2>1
<1>6. Single(F)
  <2> SUFFICES ASSUME NEW d \in F, NEW e \in F, d.path = e.path PROVE d = e
    BY DEF Single
  <2>2. /\ d \in E => d.path \in Paths(E)
        /\ e \in E => e.path \in Paths(E)
        /\ d \in N => d.path \in Paths(N)
        /\ e \in N => e.path \in Paths(N)
    BY DEF Paths
  <2> QED
    BY <1>1, <1>2, <1>5, <2>2 DEF Single, NewBranch
<1>7. Closed(Paths(F))
  <2> SUFFICES ASSUME NEW p \in Paths(F), Len(p) > 1 PROVE Front(p) \in Paths(F)
    BY DEF Closed
  <2>1. CASE p \in Paths(E)
    BY <1>2, <1>5, <2>1 DEF Closed
  <2>2. CASE p \in Paths(N)
    BY <1>1, <1>3, <1>5, <2>2
  <2> QED
    BY <1>5, <2>1, <2>2
<1>8. IsFiniteSet(Paths(F)) /\ EntryCount(g) = Cardinality(Paths(F))
  <2>1. IsFiniteSet(Paths(N))
    BY <1>1 DEF NewBranch
  <2>2. IsFiniteSet(Paths(F))
        /\ Cardinality(Paths(F)) = Cardinality(Paths(E)) + Cardinality(Paths(N)) - Cardinality({})
    BY <1>2, <1>5, <2>1, FS_Union
  <2>3. Cardinality({}) = 0
    BY FS_EmptySet
  <2>4. Cardinality(Paths(E)) \in Nat /\ Cardinality(Paths(N)) \in Nat
    BY <1>2, <2>1, FS_CardinalityType
  <2> QED
    BY <1>1, <1>2, <2>2, <2>3, <2>4
<1>9. IsTree(g)
  BY <1>5, <1>6, <1>7, <1>8 DEF IsTree, F
<1>10. DOMAIN Tree(f) = Paths(E) /\ DOMAIN Tree(g) = Paths(F)
  BY <1>2, <1>6, TreeIs DEF E, F
<1>11. ASSUME NEW p \in Paths(E)
       PROVE  Tree(g)[p] = Tree(f)[p]
  <2>1. PICK e \in E : e.path = p
    BY DEF Paths
  <2>2. e \in F
    BY <1>1
  <2> QED
    BY <1>2, <1>6, <2>1, <2>2, TreeIs DEF E, F
<1>12. \A p \in Paths(F) : IsPrefix(Append(path, step), p) <=> p \in Paths(N)
  <2>1. path \in Seq(Steps) /\ step \in Steps
    BY <1>1 DEF NewBranch
  <2> QED
    BY <1>3, <1>4, <1>5, <2>1, UnderIsPrefix
<1>13. Append(path, step) \in Paths(N)
  BY <1>1 DEF NewBranch
<1> QED
  BY <1>5, <1>9, <1>10, <1>11, <1>12, <1>13
-----------------------------------------------------------------------------
(* Where the entries of an array lie.                                        *)

\* A path lies at or below one child only.
LEMMA UnderOne ==
    ASSUME NEW path, NEW a, NEW b, NEW p, Under(path, a, p), Under(path, b, p)
    PROVE  a = b
BY DEF Under

\* What lies below a place below path lies below path, too.
LEMMA UnderBoth ==
    ASSUME NEW path \in Seq(Steps), NEW a, NEW here \in Seq(Steps), Under(path, a, here),
           NEW b, NEW p, Under(here, b, p)
    PROVE  Under(path, a, p)
<1>1. Len(path) \in Nat /\ Len(here) \in Nat /\ Len(here) > Len(path)
  BY DEF Under
<1>2. Len(p) > Len(here) /\ p \in Seq(Steps) /\ Len(p) \in Nat
  BY DEF Under
<1>3. Len(path) + 1 \in 1 .. Len(here) /\ \A k \in 1 .. Len(path) : k \in 1 .. Len(here)
  BY <1>1
<1> QED
  BY <1>1, <1>2, <1>3 DEF Under

\* The entries of a field lie at or below it,
LEMMA UnderField ==
    ASSUME NEW path \in Seq(Steps), NEW field \in Field, NEW kind \in {"field", "dynfield"},
           NEW e \in EntriesOfField(path, field, kind)
    PROVE  Under(path, Step(kind, field.name), e.path)
<1> DEFINE here == Append(path, Step(kind, field.name))
<1>1. Step(kind, field.name) \in Steps
  BY StepTypes DEF Field
<1>2. /\ here \in Seq(Steps) /\ Len(here) = Len(path) + 1
      /\ here[Len(path) + 1] = Step(kind, field.name)
      /\ \A k \in 1 .. Len(path) : here[k] = path[k]
      /\ Len(path) \in Nat
  BY <1>1, FrontOfAppend
<1>3. e.path = here \/ \E i \in Nat : e.path = Append(here, ElementStep(i))
  <2>1. CASE field.type = "TYPE_LIST" /\ field.data # NULL
    <3>1. field.data.elems \in Seq(Element)
      BY <2>1 DEF Field, List
    <3>2. \A x \in ToSet(field.data.elems) : x \in Element
      BY <3>1 DEF ToSet
    <3>3. \A x \in ToSet(field.data.elems) : x.name \in Nat
      BY <3>2 DEF Element
    <3> HIDE DEF here
    <3>4. EntriesOfField(path, field, kind)
            = {Entry(here, FieldValue(field))}
              \cup { Entry(Append(here, ElementStep(x.name)),
                           [type |-> field.data.type, data |-> x.data])
                     : x \in ToSet(field.data.elems) }
      BY <2>1 DEF EntriesOfField, here
    <3> QED
      BY <3>3, <3>4 DEF Entry
  <2>2. CASE ~ (field.type = "TYPE_LIST" /\ field.data # NULL)
    <3>1. EntriesOfField(path, field, kind) = {Entry(here, FieldValue(field))}
      BY <2>2 DEF EntriesOfField
    <3> QED
      BY <3>1 DEF Entry
  <2> QED
    BY <2>1, <2>2
<1> HIDE DEF here
<1>4. CASE e.path = here
  BY <1>2, <1>4 DEF Under
<1>5. CASE \E i \in Nat : e.path = Append(here, ElementStep(i))
  <2>1. PICK i \in Nat : e.path = Append(here, ElementStep(i))
    BY <1>5
  <2>2. ElementStep(i) \in Steps
    BY StepTypes
  <2>3. /\ e.path \in Seq(Steps) /\ Len(e.path) = Len(here) + 1
        /\ \A k \in 1 .. Len(here) : e.path[k] = here[k]
    BY <1>2, <2>1, <2>2, FrontOfAppend
  <2> QED
    BY <1>2, <2>3 DEF Under
<1> QED
  BY <1>3, <1>4, <1>5

\* those of a section at or below the section,
LEMMA UnderSection ==
    ASSUME NEW path \in Seq(Steps), NEW section \in Section,
           NEW e \in EntriesOfSection(path, section)
    PROVE  Under(path, Step("section", section.name), e.path)
<1> DEFINE step == Step("section", section.name)
           here == Append(path, step)
<1>1. step \in Steps
  BY StepTypes, SectionParts
<1>2. /\ here \in Seq(Steps) /\ Len(here) = Len(path) + 1
      /\ here[Len(path) + 1] = step /\ \A k \in 1 .. Len(path) : here[k] = path[k]
      /\ Len(path) \in Nat
  BY <1>1, FrontOfAppend
<1>3. Under(path, step, here)
  BY <1>2 DEF Under
<1>4. e = Entry(here, [type |-> "section", data |-> NULL])
      \/ \E i \in DOMAIN section.fields : e \in EntriesOfField(here, section.fields[i], "field")
  <2> HIDE DEF here
  <2> QED
    BY DEF EntriesOfSection, FieldEntries, here
<1>5. CASE e = Entry(here, [type |-> "section", data |-> NULL])
  BY <1>3, <1>5 DEF Entry
<1>6. CASE \E i \in DOMAIN section.fields :
              e \in EntriesOfField(here, section.fields[i], "field")
  <2>1. PICK i \in DOMAIN section.fields :
               e \in EntriesOfField(here, section.fields[i], "field")
    BY <1>6
  <2>2. section.fields[i] \in Field
    BY SectionParts
  <2> HIDE DEF here
  <2>3. Under(here, Step("field", section.fields[i].name), e.path)
    BY <1>2, <2>1, <2>2, UnderField
  <2> QED
    BY <1>2, <1>3, <2>3, UnderBoth
<1> QED
  BY <1>4, <1>5, <1>6

\* and those of a sector at or below the sector.
LEMMA UnderSector ==
    ASSUME NEW sector \in Sector, NEW e \in EntriesOfSector(sector)
    PROVE  Under(<< >>, Step("sector", sector.name), e.path)
<1> DEFINE step == Step("sector", sector.name)
           here == <<step>>
<1>1. step \in Steps
  BY StepTypes, SectorParts
<1>2. here \in Seq(Steps) /\ << >> \in Seq(Steps)
  BY <1>1
<1>3. Under(<< >>, step, here)
  BY <1>1, <1>2 DEF Under
<1>4. e = Entry(here, [type |-> "sector", data |-> NULL])
      \/ \E t \in DOMAIN sector.sections : e \in EntriesOfSection(here, sector.sections[t])
  <2> HIDE DEF here
  <2> QED
    BY DEF EntriesOfSector, here
<1>5. CASE e = Entry(here, [type |-> "sector", data |-> NULL])
  BY <1>3, <1>5 DEF Entry
<1>6. CASE \E t \in DOMAIN sector.sections : e \in EntriesOfSection(here, sector.sections[t])
  <2>1. PICK t \in DOMAIN sector.sections : e \in EntriesOfSection(here, sector.sections[t])
    BY <1>6
  <2>2. sector.sections[t] \in Section
    BY SectorParts
  <2> HIDE DEF here
  <2>3. Under(here, Step("section", sector.sections[t].name), e.path)
    BY <1>2, <2>1, <2>2, UnderSection
  <2> QED
    BY <1>2, <1>3, <2>3, UnderBoth
<1> QED
  BY <1>4, <1>5, <1>6
-----------------------------------------------------------------------------
(* An array whose entries lie at or below children of one path: B[k] are the *)
(* entries of element k, and key[k] is its child.                            *)

Gathered(B, n) == UNION {B[k] : k \in 1 .. n}

Keyed(B, n, path, key) == \A k \in 1 .. n : \A e \in B[k] : Under(path, key[k], e.path)

\* An element of a new child adds its entries,
LEMMA ArrayGains ==
    ASSUME NEW n \in Nat, NEW B, NEW C, NEW path, NEW key, NEW step, NEW N,
           Keyed(B, n, path, key), \A k \in 1 .. n : key[k] # step,
           \A k \in 1 .. n : C[k] = B[k], C[n + 1] = N
    PROVE  Gains(Gathered(B, n), Gathered(C, n + 1), path, step, N)
<1>1. Gathered(C, n + 1) = Gathered(B, n) \cup N
  <2>1. \A k \in 1 .. n + 1 : k \in 1 .. n \/ k = n + 1
    OBVIOUS
  <2>2. n + 1 \in 1 .. n + 1 /\ \A k \in 1 .. n : k \in 1 .. n + 1
    OBVIOUS
  <2> QED
    BY <2>1, <2>2 DEF Gathered
<1>2. Absent(Gathered(B, n), path, step)
  BY UnderOne DEF Absent, Gathered, Keyed
<1> QED
  BY <1>1, <1>2 DEF Gains

\* and an element that grows at a place below its child grows the array there.
LEMMA ArrayGrows ==
    ASSUME NEW n \in Nat, NEW B, NEW C, NEW path \in Seq(Steps), NEW key,
           NEW below \in Seq(Steps), NEW step, NEW N, NEW i \in 1 .. n,
           Keyed(B, n, path, key), \A k \in 1 .. n : key[k] = key[i] => k = i,
           \A k \in 1 .. n : k # i => C[k] = B[k],
           Under(path, key[i], below),
           Gains(B[i], C[i], below, step, N)
    PROVE  Gains(Gathered(B, n), Gathered(C, n), below, step, N)
<1>1. Gathered(C, n) = Gathered(B, n) \cup N
  <2>1. C[i] = B[i] \cup N
    BY DEF Gains
  <2> QED
    BY <2>1 DEF Gathered
<1>2. Absent(Gathered(B, n), below, step)
  <2> SUFFICES ASSUME NEW k \in 1 .. n, NEW e \in B[k], Under(below, step, e.path)
               PROVE  FALSE
    BY DEF Absent, Gathered
  <2>1. Under(path, key[i], e.path)
    BY UnderBoth
  <2>2. key[k] = key[i]
    BY <2>1, UnderOne DEF Keyed
  <2>3. k = i
    BY <2>2
  <2> QED
    BY <2>3 DEF Gains, Absent
<1> QED
  BY <1>1, <1>2 DEF Gains

\* The fields of an array as such a family,
LEMMA FieldsListed ==
    ASSUME NEW path \in Seq(Steps), NEW fields \in Seq(Field), NEW kind \in {"field", "dynfield"}
    PROVE  LET B == [k \in 1 .. Len(fields) |-> EntriesOfField(path, fields[k], kind)]
               key == [k \in 1 .. Len(fields) |-> Step(kind, fields[k].name)]
           IN  /\ FieldEntries(path, fields, kind) = Gathered(B, Len(fields))
               /\ Keyed(B, Len(fields), path, key)
<1> DEFINE n == Len(fields)
           B == [k \in 1 .. n |-> EntriesOfField(path, fields[k], kind)]
           key == [k \in 1 .. n |-> Step(kind, fields[k].name)]
<1>1. DOMAIN fields = 1 .. n /\ \A k \in 1 .. n : fields[k] \in Field
  OBVIOUS
<1>2. FieldEntries(path, fields, kind) = Gathered(B, n)
  BY <1>1 DEF FieldEntries, Gathered
<1>3. Keyed(B, n, path, key)
  <2> SUFFICES ASSUME NEW k \in 1 .. n, NEW e \in EntriesOfField(path, fields[k], kind)
               PROVE  Under(path, Step(kind, fields[k].name), e.path)
    BY DEF Keyed
  <2> QED
    BY <1>1, UnderField
<1> QED
  BY <1>2, <1>3

\* that gains a field,
LEMMA FieldsGain ==
    ASSUME NEW path \in Seq(Steps), NEW fields \in Seq(Field), NEW kind \in {"field", "dynfield"},
           NEW x \in Field, Hits(fields, x.name) = {}
    PROVE  Gains(FieldEntries(path, fields, kind), FieldEntries(path, Append(fields, x), kind),
                 path, Step(kind, x.name), EntriesOfField(path, x, kind))
<1> DEFINE n == Len(fields)
           more == Append(fields, x)
           B == [k \in 1 .. n |-> EntriesOfField(path, fields[k], kind)]
           C == [k \in 1 .. Len(more) |-> EntriesOfField(path, more[k], kind)]
           key == [k \in 1 .. n |-> Step(kind, fields[k].name)]
<1>1. /\ n \in Nat /\ more \in Seq(Field) /\ Len(more) = n + 1 /\ more[n + 1] = x
      /\ \A k \in 1 .. n : more[k] = fields[k] /\ k \in 1 .. n + 1
      /\ n + 1 \in 1 .. n + 1 /\ DOMAIN fields = 1 .. n
  OBVIOUS
<1>2. FieldEntries(path, fields, kind) = Gathered(B, n) /\ Keyed(B, n, path, key)
  BY FieldsListed
<1>3. FieldEntries(path, more, kind) = Gathered(C, n + 1)
  BY <1>1, FieldsListed
<1>4. \A k \in 1 .. n : key[k] # Step(kind, x.name)
  BY <1>1, StepTypes DEF Hits
<1> HIDE DEF more
<1>5. (\A k \in 1 .. n : C[k] = B[k]) /\ C[n + 1] = EntriesOfField(path, x, kind)
  BY <1>1
<1> HIDE DEF n, B, C, key
<1> QED
  BY <1>1, <1>2, <1>3, <1>4, <1>5, ArrayGains DEF more

\* and one of which grows.
LEMMA FieldsGrow ==
    ASSUME NEW path \in Seq(Steps), NEW fields \in Seq(Field), NEW kind \in {"field", "dynfield"},
           NEW i \in 1 .. Len(fields), NEW now \in Field, UniqueNames(fields),
           NEW below \in Seq(Steps), Under(path, Step(kind, fields[i].name), below),
           NEW step, NEW N,
           Gains(EntriesOfField(path, fields[i], kind), EntriesOfField(path, now, kind),
                 below, step, N)
    PROVE  Gains(FieldEntries(path, fields, kind),
                 FieldEntries(path, [fields EXCEPT ![i] = now], kind), below, step, N)
<1> DEFINE n == Len(fields)
           more == [fields EXCEPT ![i] = now]
           B == [k \in 1 .. n |-> EntriesOfField(path, fields[k], kind)]
           C == [k \in 1 .. Len(more) |-> EntriesOfField(path, more[k], kind)]
           key == [k \in 1 .. n |-> Step(kind, fields[k].name)]
<1>1. /\ n \in Nat /\ more \in Seq(Field) /\ Len(more) = n /\ more[i] = now
      /\ \A k \in 1 .. n : k # i => more[k] = fields[k]
      /\ DOMAIN fields = 1 .. n
  OBVIOUS
<1>2. FieldEntries(path, fields, kind) = Gathered(B, n) /\ Keyed(B, n, path, key)
  BY FieldsListed
<1>3. FieldEntries(path, more, kind) = Gathered(C, n)
  BY <1>1, FieldsListed
<1>4. \A k \in 1 .. n : key[k] = key[i] => k = i
  BY <1>1, StepTypes DEF UniqueNames
<1> HIDE DEF more
<1>5. /\ \A k \in 1 .. n : k # i => C[k] = B[k]
      /\ B[i] = EntriesOfField(path, fields[i], kind) /\ C[i] = EntriesOfField(path, now, kind)
      /\ key[i] = Step(kind, fields[i].name) /\ i \in 1 .. n
  BY <1>1
<1> HIDE DEF n, B, C, key
<1>6. Under(path, key[i], below) /\ Gains(B[i], C[i], below, step, N)
  BY <1>5
<1>7. Gains(Gathered(B, n), Gathered(C, n), below, step, N)
  BY <1>1, <1>2, <1>4, <1>5, <1>6, ArrayGrows
<1> QED
  BY <1>2, <1>3, <1>7 DEF more
\* What grows beside entries that lie elsewhere.
LEMMA GrowsBeside ==
    ASSUME NEW E, NEW F, NEW D, NEW path, NEW step, NEW N,
           Gains(E, F, path, step, N), Absent(D, path, step)
    PROVE  Gains(D \cup E, D \cup F, path, step, N)
BY DEF Gains, Absent

\* The entry of a container itself.
Own(here, kind) == {Entry(here, [type |-> kind, data |-> NULL])}

\* A container does not lie at or below its own children.
LEMMA OwnerFree ==
    ASSUME NEW here \in Seq(Steps), NEW kind, NEW below \in Seq(Steps),
           Len(below) >= Len(here), NEW step
    PROVE  Absent(Own(here, kind), below, step)
BY DEF Absent, Own, Entry, Under

\* A section grows with its fields.
LEMMA SectionGrows ==
    ASSUME NEW path \in Seq(Steps), NEW section \in Section, NEW fields,
           NEW here, here = Append(path, Step("section", section.name)),
           NEW below \in Seq(Steps), Len(below) >= Len(here), NEW step, NEW N,
           Gains(FieldEntries(here, section.fields, "field"),
                 FieldEntries(here, fields, "field"), below, step, N)
    PROVE  Gains(EntriesOfSection(path, section),
                 EntriesOfSection(path, [section EXCEPT !.fields = fields]), below, step, N)
<1> DEFINE new == [section EXCEPT !.fields = fields]
           own == Own(here, "section")
<1>1. new.name = section.name /\ new.fields = fields
  BY DEF Section
<1>2. here \in Seq(Steps)
  <2>1. Step("section", section.name) \in Steps
    BY StepTypes, SectionParts
  <2> QED
    BY <2>1
<1>3. /\ EntriesOfSection(path, section) = own \cup FieldEntries(here, section.fields, "field")
      /\ EntriesOfSection(path, new) = own \cup FieldEntries(here, fields, "field")
  BY <1>1 DEF EntriesOfSection, Own
<1>4. Absent(own, below, step)
  BY <1>2, OwnerFree
<1> HIDE DEF own, new
<1>5. Gains(own \cup FieldEntries(here, section.fields, "field"),
            own \cup FieldEntries(here, fields, "field"), below, step, N)
  BY <1>4, GrowsBeside
<1> QED
  BY <1>3, <1>5 DEF new

\* The sections of a sector as a family of children,
LEMMA SectionsListed ==
    ASSUME NEW sector \in Sector, NEW sections \in Seq(Section), NEW here,
           here = <<Step("sector", sector.name)>>
    PROVE  LET B == [k \in 1 .. Len(sections) |-> EntriesOfSection(here, sections[k])]
               key == [k \in 1 .. Len(sections) |-> Step("section", sections[k].name)]
           IN  /\ EntriesOfSector([sector EXCEPT !.sections = sections])
                    = Own(here, "sector") \cup Gathered(B, Len(sections))
               /\ Keyed(B, Len(sections), here, key)
               /\ here \in Seq(Steps)
<1> DEFINE n == Len(sections)
           new == [sector EXCEPT !.sections = sections]
           B == [k \in 1 .. n |-> EntriesOfSection(here, sections[k])]
           key == [k \in 1 .. n |-> Step("section", sections[k].name)]
<1>1. DOMAIN sections = 1 .. n /\ \A k \in 1 .. n : sections[k] \in Section
  OBVIOUS
<1>2. here \in Seq(Steps)
  <2>1. Step("sector", sector.name) \in Steps
    BY StepTypes, SectorParts
  <2> QED
    BY <2>1
<1>3. new.name = sector.name /\ new.sections = sections
  BY DEF Sector
<1>4. EntriesOfSector(new) = Own(here, "sector") \cup Gathered(B, n)
  BY <1>1, <1>3 DEF EntriesOfSector, Gathered, Own
<1>5. Keyed(B, n, here, key)
  <2> SUFFICES ASSUME NEW k \in 1 .. n, NEW e \in EntriesOfSection(here, sections[k])
               PROVE  Under(here, Step("section", sections[k].name), e.path)
    BY DEF Keyed
  <2> QED
    BY <1>1, <1>2, UnderSection
<1> QED
  BY <1>2, <1>4, <1>5

\* that gains a section,
LEMMA SectorGains ==
    ASSUME NEW sector \in Sector, NEW x \in Section, Hits(sector.sections, x.name) = {},
           NEW here, here = <<Step("sector", sector.name)>>
    PROVE  Gains(EntriesOfSector(sector),
                 EntriesOfSector([sector EXCEPT !.sections = Append(sector.sections, x)]),
                 here, Step("section", x.name), EntriesOfSection(here, x))
<1> DEFINE old == sector.sections
           n == Len(old)
           more == Append(old, x)
           own == Own(here, "sector")
           B == [k \in 1 .. n |-> EntriesOfSection(here, old[k])]
           C == [k \in 1 .. Len(more) |-> EntriesOfSection(here, more[k])]
           key == [k \in 1 .. n |-> Step("section", old[k].name)]
<1>1. old \in Seq(Section) /\ sector = [sector EXCEPT !.sections = old]
  BY SectorParts DEF Sector
<1>2. Hits(old, x.name) = {}
  OBVIOUS
<1> HIDE DEF old
<1>3. /\ n \in Nat /\ more \in Seq(Section) /\ Len(more) = n + 1 /\ more[n + 1] = x
      /\ \A k \in 1 .. n : more[k] = old[k] /\ k \in 1 .. n + 1
      /\ n + 1 \in 1 .. n + 1 /\ DOMAIN old = 1 .. n
  BY <1>1
<1>4. EntriesOfSector(sector) = own \cup Gathered(B, n) /\ Keyed(B, n, here, key) /\ here \in Seq(Steps)
  <2>1. /\ EntriesOfSector([sector EXCEPT !.sections = old]) = own \cup Gathered(B, n)
        /\ Keyed(B, n, here, key) /\ here \in Seq(Steps)
    BY <1>1, SectionsListed
  <2> QED
    BY <1>1, <2>1
<1>5. EntriesOfSector([sector EXCEPT !.sections = more]) = own \cup Gathered(C, n + 1)
  <2> HIDE DEF more
  <2>1. EntriesOfSector([sector EXCEPT !.sections = more]) = own \cup Gathered(C, Len(more))
    <3>1. more \in Seq(Section)
      BY <1>3
    <3> QED
      BY <3>1, SectionsListed
  <2> HIDE DEF C, own
  <2> QED
    BY <1>3, <2>1
<1>6. \A k \in 1 .. n : key[k] # Step("section", x.name)
  BY <1>2, <1>3, StepTypes DEF Hits
<1> HIDE DEF more
<1>7. (\A k \in 1 .. n : C[k] = B[k]) /\ C[n + 1] = EntriesOfSection(here, x)
  BY <1>3
<1>8. Absent(own, here, Step("section", x.name))
  <2>1. Len(here) \in Nat /\ Len(here) >= Len(here)
    BY <1>4
  <2> QED
    BY <1>4, <2>1, OwnerFree
<1> HIDE DEF n, B, C, key, own
<1>9. Gains(Gathered(B, n), Gathered(C, n + 1), here, Step("section", x.name), EntriesOfSection(here, x))
  BY <1>3, <1>4, <1>6, <1>7, ArrayGains
<1> QED
  BY <1>4, <1>5, <1>8, <1>9, GrowsBeside DEF more, old

\* and one of which grows.
LEMMA SectorGrows ==
    ASSUME NEW sector \in Sector, UniqueNames(sector.sections),
           NEW t \in 1 .. Len(sector.sections), NEW now \in Section,
           NEW here, here = <<Step("sector", sector.name)>>,
           NEW below \in Seq(Steps),
           Under(here, Step("section", sector.sections[t].name), below), NEW step, NEW N,
           Gains(EntriesOfSection(here, sector.sections[t]), EntriesOfSection(here, now),
                 below, step, N)
    PROVE  Gains(EntriesOfSector(sector),
                 EntriesOfSector([sector EXCEPT !.sections[t] = now]), below, step, N)
<1> DEFINE old == sector.sections
           n == Len(old)
           more == [old EXCEPT ![t] = now]
           own == Own(here, "sector")
           B == [k \in 1 .. n |-> EntriesOfSection(here, old[k])]
           C == [k \in 1 .. Len(more) |-> EntriesOfSection(here, more[k])]
           key == [k \in 1 .. n |-> Step("section", old[k].name)]
<1>1. /\ old \in Seq(Section) /\ sector = [sector EXCEPT !.sections = old]
      /\ [sector EXCEPT !.sections[t] = now] = [sector EXCEPT !.sections = more]
  BY SectorParts DEF Sector
<1>2. /\ UniqueNames(old) /\ t \in 1 .. n
      /\ Under(here, Step("section", old[t].name), below)
      /\ Gains(EntriesOfSection(here, old[t]), EntriesOfSection(here, now), below, step, N)
  OBVIOUS
<1> HIDE DEF old
<1>3. /\ n \in Nat /\ more \in Seq(Section) /\ Len(more) = n /\ more[t] = now
      /\ \A k \in 1 .. n : k # t => more[k] = old[k]
      /\ DOMAIN old = 1 .. n
  BY <1>1, <1>2
<1>4. EntriesOfSector(sector) = own \cup Gathered(B, n) /\ Keyed(B, n, here, key) /\ here \in Seq(Steps)
  <2>1. /\ EntriesOfSector([sector EXCEPT !.sections = old]) = own \cup Gathered(B, n)
        /\ Keyed(B, n, here, key) /\ here \in Seq(Steps)
    BY <1>1, SectionsListed
  <2> QED
    BY <1>1, <2>1
<1>5. EntriesOfSector([sector EXCEPT !.sections = more]) = own \cup Gathered(C, n)
  <2> HIDE DEF more
  <2>1. EntriesOfSector([sector EXCEPT !.sections = more]) = own \cup Gathered(C, Len(more))
    <3>1. more \in Seq(Section)
      BY <1>3
    <3> QED
      BY <3>1, SectionsListed
  <2> HIDE DEF C, own
  <2> QED
    BY <1>3, <2>1
<1>6. \A k \in 1 .. n : key[k] = key[t] => k = t
  BY <1>2, <1>3, StepTypes DEF UniqueNames
<1> HIDE DEF more
<1>7. /\ \A k \in 1 .. n : k # t => C[k] = B[k]
      /\ Under(here, key[t], below) /\ Gains(B[t], C[t], below, step, N)
  BY <1>2, <1>3
<1>8. Absent(own, below, step)
  <2>1. Len(below) >= Len(here)
    BY <1>2, <1>4 DEF Under
  <2> QED
    BY <1>4, <2>1, OwnerFree
<1> HIDE DEF n, B, C, key, own
<1>9. Gains(Gathered(B, n), Gathered(C, n), below, step, N)
  BY <1>2, <1>3, <1>4, <1>6, <1>7, ArrayGrows
<1> QED
  BY <1>1, <1>4, <1>5, <1>8, <1>9, GrowsBeside
\* The sectors of a document as a family of children,
LEMMA SectorsListed ==
    ASSUME NEW sectors \in Seq(Sector), NEW f, f.sectors = sectors
    PROVE  LET B == [k \in 1 .. Len(sectors) |-> EntriesOfSector(sectors[k])]
               key == [k \in 1 .. Len(sectors) |-> Step("sector", sectors[k].name)]
           IN  /\ Entries(f) = FieldEntries(<< >>, f.dynfields, "dynfield")
                               \cup Gathered(B, Len(sectors))
               /\ Keyed(B, Len(sectors), << >>, key)
<1> DEFINE n == Len(sectors)
           B == [k \in 1 .. n |-> EntriesOfSector(sectors[k])]
           key == [k \in 1 .. n |-> Step("sector", sectors[k].name)]
<1>1. DOMAIN sectors = 1 .. n /\ \A k \in 1 .. n : sectors[k] \in Sector
  OBVIOUS
<1>2. Entries(f) = FieldEntries(<< >>, f.dynfields, "dynfield") \cup Gathered(B, n)
  BY <1>1 DEF Entries, Gathered
<1>3. Keyed(B, n, << >>, key)
  <2> SUFFICES ASSUME NEW k \in 1 .. n, NEW e \in EntriesOfSector(sectors[k])
               PROVE  Under(<< >>, Step("sector", sectors[k].name), e.path)
    BY DEF Keyed
  <2> QED
    BY <1>1, UnderSector
<1> QED
  BY <1>2, <1>3

\* beside which the dynamic fields lie.
LEMMA KindsApart ==
    ASSUME NEW below \in Seq(Steps), NEW step, NEW name
    PROVE  /\ \A fields \in Seq(Field) :
                 (below = << >> /\ step = Step("sector", name)) \/ Under(<< >>, Step("sector", name), below)
                 => Absent(FieldEntries(<< >>, fields, "dynfield"), below, step)
           /\ \A sectors \in Seq(Sector) :
                 Absent(UNION {EntriesOfSector(sectors[s]) : s \in DOMAIN sectors},
                      << >>, Step("dynfield", name))
<1>1. << >> \in Seq(Steps)
  OBVIOUS
<1>2. ASSUME NEW fields \in Seq(Field),
             (below = << >> /\ step = Step("sector", name)) \/ Under(<< >>, Step("sector", name), below),
             NEW e \in FieldEntries(<< >>, fields, "dynfield"), Under(below, step, e.path)
      PROVE  FALSE
  <2>1. PICK i \in DOMAIN fields : e \in EntriesOfField(<< >>, fields[i], "dynfield")
    BY <1>2 DEF FieldEntries
  <2>2. fields[i] \in Field
    OBVIOUS
  <2>3. Under(<< >>, Step("dynfield", fields[i].name), e.path)
    BY <1>1, <2>1, <2>2, UnderField
  <2>4. Under(<< >>, Step("sector", name), e.path)
    BY <1>1, <1>2, UnderBoth
  <2>5. Step("sector", name) = Step("dynfield", fields[i].name)
    BY <2>3, <2>4, UnderOne
  <2> QED
    BY <2>5, StepTypes
<1>3. ASSUME NEW sectors \in Seq(Sector), NEW s \in DOMAIN sectors,
             NEW e \in EntriesOfSector(sectors[s]), Under(<< >>, Step("dynfield", name), e.path)
      PROVE  FALSE
  <2>1. sectors[s] \in Sector
    OBVIOUS
  <2>2. Under(<< >>, Step("sector", sectors[s].name), e.path)
    BY <2>1, UnderSector
  <2>3. Step("dynfield", name) = Step("sector", sectors[s].name)
    BY <1>3, <2>2, UnderOne
  <2> QED
    BY <2>3, StepTypes
<1>4. \A fields \in Seq(Field) :
         (below = << >> /\ step = Step("sector", name)) \/ Under(<< >>, Step("sector", name), below)
         => Absent(FieldEntries(<< >>, fields, "dynfield"), below, step)
  BY <1>2 DEF Absent
<1>5. \A sectors \in Seq(Sector) :
         Absent(UNION {EntriesOfSector(sectors[s]) : s \in DOMAIN sectors},
              << >>, Step("dynfield", name))
  BY <1>3 DEF Absent
<1> QED
  BY <1>4, <1>5

\* A document gains a sector,
LEMMA FileGainsSector ==
    ASSUME NEW f \in File, NEW x \in Sector, Hits(f.sectors, x.name) = {}
    PROVE  Gains(Entries(f), Entries([f EXCEPT !.sectors = Append(f.sectors, x)]),
                 << >>, Step("sector", x.name), EntriesOfSector(x))
<1> DEFINE old == f.sectors
           n == Len(old)
           more == Append(old, x)
           g == [f EXCEPT !.sectors = more]
           dyn == FieldEntries(<< >>, f.dynfields, "dynfield")
           B == [k \in 1 .. n |-> EntriesOfSector(old[k])]
           C == [k \in 1 .. Len(more) |-> EntriesOfSector(more[k])]
           key == [k \in 1 .. n |-> Step("sector", old[k].name)]
<1>1. old \in Seq(Sector) /\ f.sectors = old /\ f.dynfields \in Seq(Field)
      /\ g.sectors = more /\ g.dynfields = f.dynfields
  BY FileParts DEF File
<1>2. Hits(old, x.name) = {}
  OBVIOUS
<1> HIDE DEF old, g
<1>3. /\ n \in Nat /\ more \in Seq(Sector) /\ Len(more) = n + 1 /\ more[n + 1] = x
      /\ \A k \in 1 .. n : more[k] = old[k] /\ k \in 1 .. n + 1
      /\ n + 1 \in 1 .. n + 1 /\ DOMAIN old = 1 .. n
  BY <1>1
<1>4. Entries(f) = dyn \cup Gathered(B, n) /\ Keyed(B, n, << >>, key)
  BY <1>1, SectorsListed
<1>5. Entries(g) = dyn \cup Gathered(C, n + 1)
  <2>1. more \in Seq(Sector) /\ Len(more) = n + 1
    BY <1>3
  <2> HIDE DEF more
  <2>2. Entries(g) = dyn \cup Gathered(C, Len(more))
    BY <1>1, <2>1, SectorsListed
  <2> QED
    BY <2>1, <2>2
<1>6. \A k \in 1 .. n : key[k] # Step("sector", x.name)
  BY <1>2, <1>3, StepTypes DEF Hits
<1> HIDE DEF more
<1>7. (\A k \in 1 .. n : C[k] = B[k]) /\ C[n + 1] = EntriesOfSector(x)
  BY <1>3
<1>8. Absent(dyn, << >>, Step("sector", x.name))
  <2>1. << >> \in Seq(Steps)
    OBVIOUS
  <2> QED
    BY <1>1, <2>1, KindsApart
<1> HIDE DEF n, B, C, key, dyn
<1>9. Gains(Gathered(B, n), Gathered(C, n + 1), << >>, Step("sector", x.name), EntriesOfSector(x))
  BY <1>3, <1>4, <1>6, <1>7, ArrayGains
<1> QED
  BY <1>4, <1>5, <1>8, <1>9, GrowsBeside DEF g, more, old

\* grows with one of its sectors,
LEMMA FileGrows ==
    ASSUME NEW f \in File, UniqueNames(f.sectors), NEW s \in 1 .. Len(f.sectors),
           NEW now \in Sector, NEW below \in Seq(Steps),
           Under(<< >>, Step("sector", f.sectors[s].name), below), NEW step, NEW N,
           Gains(EntriesOfSector(f.sectors[s]), EntriesOfSector(now), below, step, N)
    PROVE  Gains(Entries(f), Entries([f EXCEPT !.sectors[s] = now]), below, step, N)
<1> DEFINE old == f.sectors
           n == Len(old)
           more == [old EXCEPT ![s] = now]
           g == [f EXCEPT !.sectors[s] = now]
           dyn == FieldEntries(<< >>, f.dynfields, "dynfield")
           B == [k \in 1 .. n |-> EntriesOfSector(old[k])]
           C == [k \in 1 .. Len(more) |-> EntriesOfSector(more[k])]
           key == [k \in 1 .. n |-> Step("sector", old[k].name)]
<1>1. old \in Seq(Sector) /\ f.sectors = old /\ f.dynfields \in Seq(Field)
      /\ g.sectors = more /\ g.dynfields = f.dynfields
  BY FileParts DEF File
<1>2. /\ UniqueNames(old) /\ s \in 1 .. n
      /\ Under(<< >>, Step("sector", old[s].name), below)
      /\ Gains(EntriesOfSector(old[s]), EntriesOfSector(now), below, step, N)
  OBVIOUS
<1> HIDE DEF old, g
<1>3. /\ n \in Nat /\ more \in Seq(Sector) /\ Len(more) = n /\ more[s] = now
      /\ \A k \in 1 .. n : k # s => more[k] = old[k]
      /\ DOMAIN old = 1 .. n
  BY <1>1, <1>2
<1>4. Entries(f) = dyn \cup Gathered(B, n) /\ Keyed(B, n, << >>, key)
  BY <1>1, SectorsListed
<1>5. Entries(g) = dyn \cup Gathered(C, n)
  <2>1. more \in Seq(Sector) /\ Len(more) = n /\ g.sectors = more /\ g.dynfields = f.dynfields
    BY <1>1, <1>3
  <2> HIDE DEF more
  <2>2. Entries(g) = FieldEntries(<< >>, g.dynfields, "dynfield") \cup Gathered(C, Len(more))
    <3> HIDE DEF n, dyn, B, key
    <3> QED
      BY <2>1, SectorsListed
  <2> QED
    BY <2>1, <2>2
<1>6. \A k \in 1 .. n : key[k] = key[s] => k = s
  BY <1>2, <1>3, StepTypes DEF UniqueNames
<1> HIDE DEF more
<1>7. /\ \A k \in 1 .. n : k # s => C[k] = B[k]
      /\ Under(<< >>, key[s], below) /\ Gains(B[s], C[s], below, step, N)
  BY <1>2, <1>3
<1>8. Absent(dyn, below, step)
  BY <1>1, <1>2, KindsApart
<1> HIDE DEF n, B, C, key, dyn
<1>9. Gains(Gathered(B, n), Gathered(C, n), below, step, N)
  <2>1. << >> \in Seq(Steps)
    OBVIOUS
  <2> QED
    BY <1>2, <1>3, <1>4, <1>6, <1>7, <2>1, ArrayGrows
<1> QED
  BY <1>4, <1>5, <1>8, <1>9, GrowsBeside DEF g

\* and gains a dynamic field.
LEMMA FileGainsField ==
    ASSUME NEW f \in File, NEW x \in Field, Hits(f.dynfields, x.name) = {}
    PROVE  Gains(Entries(f), Entries([f EXCEPT !.dynfields = Append(f.dynfields, x)]),
                 << >>, Step("dynfield", x.name), EntriesOfField(<< >>, x, "dynfield"))
<1> DEFINE g == [f EXCEPT !.dynfields = Append(f.dynfields, x)]
           rest == UNION {EntriesOfSector(f.sectors[s]) : s \in DOMAIN f.sectors}
           E == FieldEntries(<< >>, f.dynfields, "dynfield")
           F == FieldEntries(<< >>, Append(f.dynfields, x), "dynfield")
<1>1. f.sectors \in Seq(Sector) /\ f.dynfields \in Seq(Field) /\ << >> \in Seq(Steps)
      /\ g.sectors = f.sectors /\ g.dynfields = Append(f.dynfields, x)
  BY FileParts DEF File
<1>2. Entries(f) = rest \cup E
  BY DEF Entries
<1>3. Entries(g) = rest \cup F
  BY <1>1 DEF Entries
<1>4. Gains(E, F, << >>, Step("dynfield", x.name), EntriesOfField(<< >>, x, "dynfield"))
  BY <1>1, FieldsGain
<1>5. Absent(rest, << >>, Step("dynfield", x.name))
  BY <1>1, KindsApart
<1> HIDE DEF g, rest, E, F
<1>6. Gains(rest \cup E, rest \cup F, << >>, Step("dynfield", x.name),
            EntriesOfField(<< >>, x, "dynfield"))
  BY <1>4, <1>5, GrowsBeside
<1> QED
  BY <1>2, <1>3, <1>6 DEF g
-----------------------------------------------------------------------------
(* The places of a document's containers.                                    *)

SectorPath(f, s)      == <<Step("sector", f.sectors[s].name)>>
SectionPath(f, s, t)  == <<Step("sector", f.sectors[s].name),
                           Step("section", f.sectors[s].sections[t].name)>>
FieldPath(f, s, t, i) == <<Step("sector", f.sectors[s].name),
                           Step("section", f.sectors[s].sections[t].name),
                           Step("field", f.sectors[s].sections[t].fields[i].name)>>

\* A sector lies at its place,
LEMMA SectorIn ==
    ASSUME NEW f \in File, NEW s \in 1 .. Len(f.sectors)
    PROVE  /\ SectorPath(f, s) \in Seq(Steps) /\ Len(SectorPath(f, s)) = 1
           /\ Under(<< >>, Step("sector", f.sectors[s].name), SectorPath(f, s))
           /\ SectorPath(f, s) \in Paths(Entries(f))
           /\ EntriesOfSector(f.sectors[s]) \subseteq Entries(f)
<1> DEFINE step == Step("sector", f.sectors[s].name)
           sector == f.sectors[s]
<1>1. s \in DOMAIN f.sectors /\ sector \in Sector
  BY FileParts
<1>2. step \in Steps
  BY <1>1, StepTypes, SectorParts
<1>3. EntriesOfSector(sector) \subseteq Entries(f)
  BY <1>1 DEF Entries
<1>4. Own(SectorPath(f, s), "sector") \subseteq EntriesOfSector(sector)
  BY DEF EntriesOfSector, Own, SectorPath
<1>5. SectorPath(f, s) \in Paths(Entries(f))
  BY <1>3, <1>4 DEF Own, Entry, Paths
<1> HIDE DEF step
<1>6. <<step>> \in Seq(Steps) /\ Len(<<step>>) = 1 /\ Under(<< >>, step, <<step>>)
  BY <1>2 DEF Under
<1> QED
  BY <1>3, <1>5, <1>6 DEF SectorPath, step

\* a section below it,
LEMMA SectionIn ==
    ASSUME NEW f \in File, NEW s \in 1 .. Len(f.sectors),
           NEW t \in 1 .. Len(f.sectors[s].sections)
    PROVE  /\ SectionPath(f, s, t) \in Seq(Steps) /\ Len(SectionPath(f, s, t)) = 2
           /\ SectionPath(f, s, t)
                = Append(SectorPath(f, s), Step("section", f.sectors[s].sections[t].name))
           /\ Under(SectorPath(f, s), Step("section", f.sectors[s].sections[t].name),
                    SectionPath(f, s, t))
           /\ Under(<< >>, Step("sector", f.sectors[s].name), SectionPath(f, s, t))
           /\ SectionPath(f, s, t) \in Paths(Entries(f))
           /\ EntriesOfSection(SectorPath(f, s), f.sectors[s].sections[t]) \subseteq Entries(f)
<1> DEFINE a == Step("sector", f.sectors[s].name)
           b == Step("section", f.sectors[s].sections[t].name)
           sector == f.sectors[s]
           section == f.sectors[s].sections[t]
<1>1. sector \in Sector /\ t \in DOMAIN sector.sections /\ section \in Section
  BY FileParts, SectorParts
<1>2. a \in Steps /\ b \in Steps
  BY <1>1, StepTypes, SectorParts, SectionParts
<1>3. EntriesOfSection(SectorPath(f, s), section) \subseteq Entries(f)
  <2>1. EntriesOfSection(SectorPath(f, s), section) \subseteq EntriesOfSector(sector)
    BY <1>1 DEF EntriesOfSector, SectorPath
  <2> QED
    BY <2>1, SectorIn
<1>4. Own(Append(SectorPath(f, s), b), "section") \subseteq EntriesOfSection(SectorPath(f, s), section)
  BY DEF EntriesOfSection, Own
<1>5. Append(SectorPath(f, s), b) \in Paths(Entries(f))
  BY <1>3, <1>4 DEF Own, Entry, Paths
<1> HIDE DEF a, b
<1>6. /\ <<a, b>> \in Seq(Steps) /\ Len(<<a, b>>) = 2 /\ <<a, b>> = Append(<<a>>, b)
      /\ Under(<<a>>, b, <<a, b>>) /\ Under(<< >>, a, <<a, b>>)
  BY <1>2 DEF Under
<1> QED
  BY <1>3, <1>5, <1>6 DEF SectorPath, SectionPath, a, b

\* and a field below that.
LEMMA FieldIn ==
    ASSUME NEW f \in File, NEW s \in 1 .. Len(f.sectors),
           NEW t \in 1 .. Len(f.sectors[s].sections),
           NEW i \in 1 .. Len(f.sectors[s].sections[t].fields)
    PROVE  /\ FieldPath(f, s, t, i) \in Seq(Steps) /\ Len(FieldPath(f, s, t, i)) = 3
           /\ FieldPath(f, s, t, i)
                = Append(SectionPath(f, s, t),
                         Step("field", f.sectors[s].sections[t].fields[i].name))
           /\ Under(SectionPath(f, s, t), Step("field", f.sectors[s].sections[t].fields[i].name),
                    FieldPath(f, s, t, i))
           /\ Under(SectorPath(f, s), Step("section", f.sectors[s].sections[t].name),
                    FieldPath(f, s, t, i))
           /\ Under(<< >>, Step("sector", f.sectors[s].name), FieldPath(f, s, t, i))
           /\ FieldPath(f, s, t, i) \in Paths(Entries(f))
           /\ EntriesOfField(SectionPath(f, s, t), f.sectors[s].sections[t].fields[i], "field")
                \subseteq Entries(f)
<1> DEFINE a == Step("sector", f.sectors[s].name)
           b == Step("section", f.sectors[s].sections[t].name)
           c == Step("field", f.sectors[s].sections[t].fields[i].name)
           section == f.sectors[s].sections[t]
           field == section.fields[i]
<1>1. /\ f.sectors[s] \in Sector /\ section \in Section
      /\ i \in DOMAIN section.fields /\ field \in Field
  BY FileParts, SectorParts, SectionParts
<1>2. a \in Steps /\ b \in Steps /\ c \in Steps
  <2>1. field.name \in Name \cup {NULL}
    BY <1>1 DEF Field
  <2> QED
    BY <1>1, <2>1, StepTypes, SectorParts, SectionParts
<1>3. EntriesOfField(SectionPath(f, s, t), field, "field") \subseteq Entries(f)
  <2>1. SectionPath(f, s, t) = Append(SectorPath(f, s), b)
    BY SectionIn
  <2>2. EntriesOfField(SectionPath(f, s, t), field, "field")
          \subseteq EntriesOfSection(SectorPath(f, s), section)
    BY <1>1, <2>1 DEF EntriesOfSection, FieldEntries
  <2> QED
    BY <2>2, SectionIn
<1>4. Entry(Append(SectionPath(f, s, t), c), FieldValue(field))
        \in EntriesOfField(SectionPath(f, s, t), field, "field")
  BY DEF EntriesOfField
<1>5. Append(SectionPath(f, s, t), c) \in Paths(Entries(f))
  BY <1>3, <1>4 DEF Entry, Paths
<1> HIDE DEF a, b, c
<1>6. /\ <<a, b, c>> \in Seq(Steps) /\ Len(<<a, b, c>>) = 3 /\ <<a, b, c>> = Append(<<a, b>>, c)
      /\ Under(<<a, b>>, c, <<a, b, c>>) /\ Under(<<a>>, b, <<a, b, c>>)
      /\ Under(<< >>, a, <<a, b, c>>)
  BY <1>2 DEF Under
<1> QED
  BY <1>3, <1>5, <1>6 DEF SectorPath, SectionPath, FieldPath, a, b, c

\* A dynamic field lies beside the sectors.
LEMMA DynfieldIn ==
    ASSUME NEW f \in File, NEW i \in 1 .. Len(f.dynfields)
    PROVE  <<Step("dynfield", f.dynfields[i].name)>> \in Paths(Entries(f))
<1> DEFINE step == Step("dynfield", f.dynfields[i].name)
           field == f.dynfields[i]
<1>1. i \in DOMAIN f.dynfields
  BY FileParts
<1>2. EntriesOfField(<< >>, field, "dynfield") \subseteq Entries(f)
  BY <1>1 DEF Entries, FieldEntries
<1>3. Entry(Append(<< >>, step), FieldValue(field)) \in EntriesOfField(<< >>, field, "dynfield")
  BY DEF EntriesOfField
<1>4. Append(<< >>, step) \in Paths(Entries(f))
  BY <1>2, <1>3 DEF Entry, Paths
<1> HIDE DEF step
<1>5. Append(<< >>, step) = <<step>>
  OBVIOUS
<1> QED
  BY <1>4, <1>5 DEF step
-----------------------------------------------------------------------------
(* The adds.                                                                 *)

\* One entry is a branch.
LEMMA BranchOfOne ==
    ASSUME NEW path \in Seq(Steps), NEW step \in Steps, NEW e, e.path = Append(path, step)
    PROVE  NewBranch(path, step, {e}) /\ Cardinality(Paths({e})) = 1
<1>1. Paths({e}) = {Append(path, step)}
  BY DEF Paths
<1>2. IsFiniteSet(Paths({e})) /\ Cardinality(Paths({e})) = 1
  BY <1>1, FS_Singleton
<1> QED
  BY <1>1, <1>2 DEF NewBranch, Single

\* And so is a field with its elements.
LEMMA BranchOfField ==
    ASSUME NEW path \in Seq(Steps), NEW field \in Field, WellListed(field),
           NEW kind \in {"field", "dynfield"}
    PROVE  /\ NewBranch(path, Step(kind, field.name), EntriesOfField(path, field, kind))
           /\ Cardinality(Paths(EntriesOfField(path, field, kind))) = FieldCount(field)
<1> DEFINE here == Append(path, Step(kind, field.name))
           E == EntriesOfField(path, field, kind)
<1>1. /\ Single(E) /\ IsFiniteSet(Paths(E)) /\ Cardinality(Paths(E)) = FieldCount(field)
      /\ Paths(E) = {here} \cup {Append(here, ElementStep(i)) : i \in 1 .. Len(Elems(field))}
  BY FieldPaths
<1>2. Step(kind, field.name) \in Steps
  BY StepTypes DEF Field
<1>3. \A i \in 1 .. Len(Elems(field)) : ElementStep(i) \in Steps
  BY ElemsType, StepTypes
<1> HIDE DEF E
<1>4. \A p \in Paths(E) : p = here \/ \E x \in Steps : p = Append(here, x)
  BY <1>1, <1>3
<1> QED
  BY <1>1, <1>2, <1>4 DEF NewBranch, E

\* A successful mcfg_add_sector adds the sector, and nothing else,
LEMMA AddSectorAdds ==
    ASSUME NEW f \in File, NEW name \in Name \cup {NULL}, NEW arrayOk,
           mcfg_add_sector(f, name, arrayOk).err = "MCFG_OK"
    PROVE  \E N : Adds(f, mcfg_add_sector(f, name, arrayOk).file,
                       << >>, Step("sector", remove_newline(name)), N)
<1> DEFINE item == [name |-> name, sections |-> << >>]
           new  == [name |-> remove_newline(name), sections |-> << >>]
           step == Step("sector", remove_newline(name))
           r    == Append(f.sectors, new)
           g    == mcfg_add_sector(f, name, arrayOk).file
           N    == EntriesOfSector(new)
<1>1. f.sectors \in Seq(Sector) /\ f.dynfields \in Seq(Field)
  BY FileParts
<1>2. new \in Sector /\ new.name = remove_newline(name)
      /\ remove_newline(name) \in Name \cup {NULL}
  <2>1. << >> \in Seq(Section)
    OBVIOUS
  <2> QED
    BY <2>1, RemoveNewlineType DEF Sector
<1>3. /\ g = [f EXCEPT !.sectors = r] /\ g.sectors = r /\ g.dynfields = f.dynfields /\ g \in File
      /\ Hits(f.sectors, new.name) = {}
  <2>1. AddNamed(f.sectors, item, "MCFG_DUPLICATE_SECTOR", arrayOk).seq = r
        /\ Hits(f.sectors, new.name) = {}
    <3>1. AddNamed(f.sectors, item, "MCFG_DUPLICATE_SECTOR", arrayOk).err = "MCFG_OK"
      BY DEF mcfg_add_sector
    <3>2. [item EXCEPT !.name = remove_newline(item.name)] = new
          /\ remove_newline(item.name) = remove_newline(name)
      OBVIOUS
    <3> HIDE DEF item, new
    <3>3. AddNamed(f.sectors, item, "MCFG_DUPLICATE_SECTOR", arrayOk).seq
            = Append(f.sectors, [item EXCEPT !.name = remove_newline(item.name)])
          /\ Hits(f.sectors, remove_newline(item.name)) = {}
      BY <3>1, AddAccepted
    <3> QED
      BY <1>2, <3>2, <3>3
  <2>2. g \in File
    BY AddSectorKeeps
  <2> QED
    BY <2>1, <2>2 DEF mcfg_add_sector, File
<1>4. Gains(Entries(f), Entries(g), << >>, step, N)
  <2> HIDE DEF new, g, N
  <2>1. Gains(Entries(f), Entries([f EXCEPT !.sectors = r]),
              << >>, Step("sector", new.name), EntriesOfSector(new))
    BY <1>2, <1>3, FileGainsSector
  <2> QED
    BY <1>2, <1>3, <2>1 DEF N
<1>5. NewBranch(<< >>, step, N) /\ Cardinality(Paths(N)) = 1
  <2> DEFINE e == Entry(<<step>>, [type |-> "sector", data |-> NULL])
  <2>1. N = {e}
    BY DEF EntriesOfSector
  <2>2. step \in Steps /\ << >> \in Seq(Steps)
    BY <1>2, StepTypes
  <2>3. e.path = Append(<< >>, step)
    <3> HIDE DEF step
    <3> QED
      BY DEF Entry
  <2> HIDE DEF e, N, step
  <2> QED
    BY <2>1, <2>2, <2>3, BranchOfOne
<1>6. EntryCount(g) = EntryCount(f) + 1
  <2>1. SumOver(SectorCounts, r) = SumOver(SectorCounts, f.sectors) + SectorCounts[new]
    BY <1>1, <1>2, SectorCountsTotal, SumOfAppend
  <2>2. SectorCounts[new] = 1
    <3>1. SumOver(SectionCounts, << >>) = 0
      <4>1. << >> \in Seq(Section)
        OBVIOUS
      <4> QED
        BY <4>1, SectionCountsTotal, SumOfEmpty
    <3>2. new.sections = << >>
      OBVIOUS
    <3> HIDE DEF new
    <3> QED
      BY <1>2, <3>1, <3>2, SectorCountIs DEF SectorCounts
  <2>3. SumOver(SectorCounts, f.sectors) \in Nat /\ SumOver(FieldCounts, f.dynfields) \in Nat
    BY <1>1, SectorCountsTotal, FieldCountsTotal, SumOverIs
  <2> HIDE DEF r, g, new
  <2>4. EntryCount(g) = SumOver(SectorCounts, r) + SumOver(FieldCounts, f.dynfields)
    BY <1>3, EntryCountIs
  <2>5. EntryCount(f) = SumOver(SectorCounts, f.sectors) + SumOver(FieldCounts, f.dynfields)
    BY EntryCountIs
  <2> QED
    BY <2>1, <2>2, <2>3, <2>4, <2>5
<1> HIDE DEF N
<1> QED
  BY <1>4, <1>5, <1>6 DEF Adds

\* mcfg_add_dynfield the field with its elements,
LEMMA AddDynfieldAdds ==
    ASSUME NEW f \in File, NEW name \in Name \cup {NULL}, NEW type, NEW data,
           [type |-> type, data |-> data] \in Typed, NEW arrayOk,
           WellListed([type |-> type, data |-> data]),
           mcfg_add_dynfield(f, type, name, data, arrayOk).err = "MCFG_OK"
    PROVE  \E N : Adds(f, mcfg_add_dynfield(f, type, name, data, arrayOk).file,
                       << >>, Step("dynfield", remove_newline(name)), N)
<1> DEFINE item == [name |-> name, type |-> type, data |-> data]
           new  == FieldOf(remove_newline(name), type, data)
           step == Step("dynfield", remove_newline(name))
           fields == f.dynfields
           r    == Append(fields, new)
           g    == mcfg_add_dynfield(f, type, name, data, arrayOk).file
           N    == EntriesOfField(<< >>, new, "dynfield")
<1>1. f.sectors \in Seq(Sector) /\ fields \in Seq(Field) /\ << >> \in Seq(Steps)
  BY FileParts
<1>2. new \in Field /\ new.name = remove_newline(name) /\ WellListed(new)
  BY FieldItem DEF FieldOf, WellListed
<1>3. /\ g = [f EXCEPT !.dynfields = r] /\ g.sectors = f.sectors /\ g.dynfields = r /\ g \in File
      /\ Hits(fields, new.name) = {}
  <2>1. AddNamed(fields, item, "MCFG_DUPLICATE_DYNFIELD", arrayOk).seq = r
        /\ Hits(fields, new.name) = {}
    <3>1. AddNamed(fields, item, "MCFG_DUPLICATE_DYNFIELD", arrayOk).err = "MCFG_OK"
      BY DEF mcfg_add_dynfield
    <3>2. [item EXCEPT !.name = remove_newline(item.name)] = new
          /\ remove_newline(item.name) = remove_newline(name)
      BY DEF FieldOf
    <3> HIDE DEF item, fields, new
    <3>3. AddNamed(fields, item, "MCFG_DUPLICATE_DYNFIELD", arrayOk).seq
            = Append(fields, [item EXCEPT !.name = remove_newline(item.name)])
          /\ Hits(fields, remove_newline(item.name)) = {}
      BY <3>1, AddAccepted
    <3> QED
      BY <1>2, <3>2, <3>3
  <2>2. g = [f EXCEPT !.dynfields = r]
    BY <2>1 DEF mcfg_add_dynfield
  <2>3. r \in Seq(Field)
    <3> HIDE DEF fields, new
    <3> QED
      BY <1>1, <1>2
  <2> HIDE DEF r, g
  <2> QED
    BY <1>1, <2>1, <2>2, <2>3 DEF File
<1> HIDE DEF new, g, N
<1>4. Gains(Entries(f), Entries(g), << >>, step, N)
  <2>1. Gains(Entries(f), Entries([f EXCEPT !.dynfields = r]),
              << >>, Step("dynfield", new.name), EntriesOfField(<< >>, new, "dynfield"))
    BY <1>2, <1>3, FileGainsField
  <2> QED
    BY <1>2, <1>3, <2>1 DEF N
<1>5. NewBranch(<< >>, step, N) /\ Cardinality(Paths(N)) = FieldCount(new)
  BY <1>1, <1>2, BranchOfField DEF N
<1>6. EntryCount(g) = EntryCount(f) + FieldCount(new)
  <2>1. SumOver(FieldCounts, r) = SumOver(FieldCounts, fields) + FieldCounts[new]
    <3> HIDE DEF fields
    <3> QED
      BY <1>1, <1>2, FieldCountsTotal, SumOfAppend
  <2>2. FieldCounts[new] = FieldCount(new) /\ FieldCount(new) \in Nat
    BY <1>2, FieldCountType DEF FieldCounts
  <2>3. SumOver(SectorCounts, f.sectors) \in Nat /\ SumOver(FieldCounts, fields) \in Nat
    <3> HIDE DEF fields
    <3> QED
      BY <1>1, SectorCountsTotal, FieldCountsTotal, SumOverIs
  <2> HIDE DEF r
  <2>4. EntryCount(g) = SumOver(SectorCounts, f.sectors) + SumOver(FieldCounts, r)
    BY <1>3, EntryCountIs
  <2>5. EntryCount(f) = SumOver(SectorCounts, f.sectors) + SumOver(FieldCounts, fields)
    BY EntryCountIs
  <2> QED
    BY <2>1, <2>2, <2>3, <2>4, <2>5
<1> QED
  BY <1>4, <1>5, <1>6 DEF Adds, g
\* mcfg_add_section the section,
LEMMA AddSectionAdds ==
    ASSUME NEW f \in File, AllNamesUnique(f), NEW s \in 1 .. Len(f.sectors),
           NEW name \in Name \cup {NULL}, NEW arrayOk,
           mcfg_add_section(f, s, name, arrayOk).err = "MCFG_OK"
    PROVE  \E N : Adds(f, mcfg_add_section(f, s, name, arrayOk).file,
                       SectorPath(f, s), Step("section", remove_newline(name)), N)
<1> DEFINE item == [name |-> name, fields |-> << >>]
           new  == [name |-> remove_newline(name), fields |-> << >>]
           step == Step("section", remove_newline(name))
           here == SectorPath(f, s)
           old  == f.sectors[s]
           r    == Append(old.sections, new)
           sector == [old EXCEPT !.sections = r]
           g    == mcfg_add_section(f, s, name, arrayOk).file
           N    == EntriesOfSection(here, new)
<1>1. old \in Sector /\ s \in DOMAIN f.sectors
  BY FileParts
<1>2. old.sections \in Seq(Section)
  BY <1>1, SectorParts
<1>3. new \in Section /\ new.name = remove_newline(name)
      /\ remove_newline(name) \in Name \cup {NULL}
  <2>1. << >> \in Seq(Field)
    OBVIOUS
  <2> QED
    BY <2>1, RemoveNewlineType DEF Section
<1>4. g = [f EXCEPT !.sectors[s] = sector] /\ Hits(old.sections, new.name) = {}
  <2> DEFINE seq == old.sections
  <2>1. AddNamed(seq, item, "MCFG_DUPLICATE_FIELD", arrayOk).err = "MCFG_OK"
    BY DEF mcfg_add_section
  <2>2. [item EXCEPT !.name = remove_newline(item.name)] = new
        /\ remove_newline(item.name) = remove_newline(name)
    OBVIOUS
  <2>3. AddNamed(seq, item, "MCFG_DUPLICATE_FIELD", arrayOk).seq = Append(seq, new)
        /\ Hits(seq, new.name) = {}
    <3> HIDE DEF seq, item, new
    <3>1. AddNamed(seq, item, "MCFG_DUPLICATE_FIELD", arrayOk).seq
            = Append(seq, [item EXCEPT !.name = remove_newline(item.name)])
          /\ Hits(seq, remove_newline(item.name)) = {}
      BY <2>1, AddAccepted
    <3> QED
      BY <1>3, <2>2, <3>1
  <2> QED
    BY <2>3 DEF mcfg_add_section
<1>5. sector \in Sector /\ sector.sections = r /\ sector.name = old.name
  <2>1. r \in Seq(Section)
    BY <1>2, <1>3
  <2> HIDE DEF r, old
  <2> QED
    BY <1>1, <2>1 DEF Sector
<1> HIDE DEF new, g, N, sector
<1>6. Gains(Entries(f), Entries(g), here, step, N)
  <2>1. Gains(EntriesOfSector(old), EntriesOfSector(sector), here, step, N)
    <3> HIDE DEF old
    <3>1. here = <<Step("sector", old.name)>>
      BY DEF SectorPath, old
    <3> HIDE DEF here
    <3>2. Gains(EntriesOfSector(old),
                EntriesOfSector([old EXCEPT !.sections = Append(old.sections, new)]),
                here, Step("section", new.name), EntriesOfSection(here, new))
      BY <1>1, <1>3, <1>4, <3>1, SectorGains
    <3> QED
      BY <1>3, <3>2 DEF N, sector
  <2>2. UniqueNames(f.sectors)
    BY DEF AllNamesUnique
  <2>3. here \in Seq(Steps) /\ Under(<< >>, Step("sector", f.sectors[s].name), here)
    BY SectorIn
  <2> HIDE DEF here, step
  <2>4. Gains(Entries(f), Entries([f EXCEPT !.sectors[s] = sector]), here, step, N)
    BY <1>5, <2>1, <2>2, <2>3, FileGrows
  <2> QED
    BY <1>4, <2>4
<1>7. NewBranch(here, step, N) /\ Cardinality(Paths(N)) = 1
  <2> DEFINE e == Entry(Append(here, step), [type |-> "section", data |-> NULL])
  <2>1. N = {e}
    BY DEF EntriesOfSection, FieldEntries, N, new
  <2>2. step \in Steps /\ here \in Seq(Steps)
    BY <1>3, StepTypes, SectorIn
  <2>3. e.path = Append(here, step)
    BY DEF Entry
  <2> HIDE DEF e, step, here
  <2> QED
    BY <2>1, <2>2, <2>3, BranchOfOne
<1>8. EntryCount(g) = EntryCount(f) + 1
  <2> HIDE DEF old
  <2>1. SumOver(SectionCounts, r) = SumOver(SectionCounts, old.sections) + SectionCounts[new]
    BY <1>2, <1>3, SectionCountsTotal, SumOfAppend
  <2>2. SectionCounts[new] = 1
    <3>1. SumOver(FieldCounts, << >>) = 0
      <4>1. << >> \in Seq(Field)
        OBVIOUS
      <4> QED
        BY <4>1, FieldCountsTotal, SumOfEmpty
    <3>2. new.fields = << >>
      BY DEF new
    <3> QED
      BY <1>3, <3>1, <3>2, SectionCountIs DEF SectionCounts
  <2>3. SumOver(SectionCounts, old.sections) \in Nat
    BY <1>2, SectionCountsTotal, SumOverIs
  <2> HIDE DEF r
  <2>4. SectorCount(sector) = 1 + SumOver(SectionCounts, r)
    BY <1>5, SectorCountIs
  <2>5. SectorCount(old) = 1 + SumOver(SectionCounts, old.sections)
    BY <1>1, SectorCountIs
  <2>6. EntryCount(g) = EntryCount(f) + SectorCount(sector) - SectorCount(old)
    BY <1>4, <1>5, CountReplaceSector DEF old
  <2>7. EntryCount(f) \in Nat
    BY EntryCountIs
  <2> QED
    BY <2>1, <2>2, <2>3, <2>4, <2>5, <2>6, <2>7
<1>9. here \in Paths(Entries(f))
  BY SectorIn
<1> HIDE DEF here, step
<1>10. Adds(f, g, here, step, N)
  BY <1>6, <1>7, <1>8, <1>9 DEF Adds
<1> QED
  BY <1>10 DEF g, here, step

\* A document counts the fields of each section.
CountWith(f, s, t, fields) ==
    EntryCount(f) + SumOver(FieldCounts, fields)
    - SumOver(FieldCounts, f.sectors[s].sections[t].fields)

\* It grows with the fields of one section.
LEMMA WithFieldsGrows ==
    ASSUME NEW f \in File, AllNamesUnique(f), NEW s \in 1 .. Len(f.sectors),
           NEW t \in 1 .. Len(f.sectors[s].sections), NEW fields \in Seq(Field),
           NEW below \in Seq(Steps), NEW step, NEW N,
           Len(below) >= 2, Under(<< >>, Step("sector", f.sectors[s].name), below),
           Under(SectorPath(f, s), Step("section", f.sectors[s].sections[t].name), below),
           Gains(FieldEntries(SectionPath(f, s, t), f.sectors[s].sections[t].fields, "field"),
                 FieldEntries(SectionPath(f, s, t), fields, "field"), below, step, N)
    PROVE  /\ Gains(Entries(f), Entries([f EXCEPT !.sectors[s].sections[t].fields = fields]),
                    below, step, N)
           /\ EntryCount([f EXCEPT !.sectors[s].sections[t].fields = fields])
                = CountWith(f, s, t, fields)
<1> DEFINE old     == f.sectors[s]
           before  == old.sections[t]
           section == [before EXCEPT !.fields = fields]
           sector  == [old EXCEPT !.sections[t] = section]
           g       == [f EXCEPT !.sectors[s].sections[t].fields = fields]
           here    == SectorPath(f, s)
           place   == SectionPath(f, s, t)
<1>1. old \in Sector /\ s \in DOMAIN f.sectors
  BY FileParts
<1>2. before \in Section /\ t \in DOMAIN old.sections /\ t \in 1 .. Len(old.sections)
  BY <1>1, SectorParts
<1>3. section \in Section /\ section.fields = fields /\ section.name = before.name
  <2> HIDE DEF before
  <2> QED
    BY <1>2 DEF Section
<1>4. sector \in Sector /\ sector.name = old.name
  <2> HIDE DEF section, old
  <2> QED
    BY <1>1, <1>2, <1>3, ReplaceSection
<1>5. g = [f EXCEPT !.sectors[s] = sector]
  OBVIOUS
<1>6. /\ UniqueNames(f.sectors) /\ UniqueNames(old.sections)
  BY <1>1 DEF AllNamesUnique, SectorOK
<1>7. place = Append(here, Step("section", before.name)) /\ Len(place) = 2
      /\ here = <<Step("sector", old.name)>> /\ here \in Seq(Steps)
  BY SectionIn, SectorIn DEF SectorPath
<1>8. /\ Under(<< >>, Step("sector", old.name), below)
      /\ Under(here, Step("section", before.name), below)
      /\ Gains(FieldEntries(place, before.fields, "field"),
               FieldEntries(place, fields, "field"), below, step, N)
      /\ Len(below) >= Len(place)
  BY <1>7
<1>9. before = old.sections[t]
  OBVIOUS
<1>10. /\ SumOver(FieldCounts, fields) \in Nat /\ SumOver(FieldCounts, before.fields) \in Nat
       /\ SectionCount(section) = 1 + SumOver(FieldCounts, fields)
       /\ SectionCount(before) = 1 + SumOver(FieldCounts, before.fields)
  <2> HIDE DEF before, section
  <2>1. before.fields \in Seq(Field)
    BY <1>2, SectionParts
  <2> QED
    BY <1>2, <1>3, <2>1, SectionCountIs, FieldCountsTotal, SumOverIs
<1> HIDE DEF before
<1>11. Gains(EntriesOfSection(here, before), EntriesOfSection(here, section), below, step, N)
  <2> HIDE DEF here, place, old
  <2> QED
    BY <1>2, <1>7, <1>8, SectionGrows
<1> HIDE DEF section
<1>12. Gains(EntriesOfSector(old), EntriesOfSector(sector), below, step, N)
  <2> HIDE DEF here, place, old
  <2> QED
    BY <1>1, <1>2, <1>3, <1>6, <1>7, <1>8, <1>9, <1>11, SectorGrows DEF sector
<1>13. SectorCount(sector) = SectorCount(old) + SectionCount(section) - SectionCount(before)
       /\ SectorCount(old) \in Nat /\ SectorCount(sector) \in Nat
  <2>1. SectorCount(old) \in Nat /\ SectorCount(sector) \in Nat
    BY <1>1, <1>4, SectorCountIs
  <2> HIDE DEF old
  <2>2. SectorCount([old EXCEPT !.sections[t] = section])
          = SectorCount(old) + SectionCount(section) - SectionCount(old.sections[t])
    BY <1>1, <1>2, <1>3, CountReplaceSection
  <2> QED
    BY <1>9, <2>1, <2>2 DEF sector
<1> HIDE DEF sector
<1>14. Gains(Entries(f), Entries(g), below, step, N)
  <2>1. Gains(EntriesOfSector(f.sectors[s]), EntriesOfSector(sector), below, step, N)
    BY <1>12
  <2>2. Gains(Entries(f), Entries([f EXCEPT !.sectors[s] = sector]), below, step, N)
    BY <1>4, <1>6, <2>1, FileGrows
  <2> QED
    BY <1>5, <2>2
<1>15. EntryCount(g) = EntryCount(f) + SectorCount(sector) - SectorCount(old)
  BY <1>4, <1>5, CountReplaceSector
<1>16. EntryCount(f) \in Nat
  BY EntryCountIs
<1>17. EntryCount(g) = CountWith(f, s, t, fields)
  <2> HIDE DEF g, old
  <2>1. EntryCount(g) = EntryCount(f) + SumOver(FieldCounts, fields) - SumOver(FieldCounts, before.fields)
    BY <1>10, <1>13, <1>15, <1>16
  <2> QED
    BY <2>1 DEF CountWith, before, old
<1> QED
  BY <1>14, <1>17
\* mcfg_add_field adds the field with its elements,
LEMMA AddFieldAdds ==
    ASSUME NEW f \in File, AllNamesUnique(f), NEW s \in 1 .. Len(f.sectors),
           NEW t \in 1 .. Len(f.sectors[s].sections), NEW name \in Name \cup {NULL},
           NEW type, NEW data, [type |-> type, data |-> data] \in Typed, NEW arrayOk,
           WellListed([type |-> type, data |-> data]),
           mcfg_add_field(f, s, t, type, name, data, arrayOk).err = "MCFG_OK"
    PROVE  \E N : Adds(f, mcfg_add_field(f, s, t, type, name, data, arrayOk).file,
                       SectionPath(f, s, t), Step("field", remove_newline(name)), N)
<1> DEFINE item == [name |-> name, type |-> type, data |-> data]
           new  == FieldOf(remove_newline(name), type, data)
           step == Step("field", remove_newline(name))
           fields == f.sectors[s].sections[t].fields
           r    == Append(fields, new)
           g    == mcfg_add_field(f, s, t, type, name, data, arrayOk).file
           here == SectionPath(f, s, t)
           N    == EntriesOfField(here, new, "field")
<1>1. fields \in Seq(Field)
  BY FileParts, SectorParts, SectionParts
<1>2. new \in Field /\ new.name = remove_newline(name) /\ WellListed(new)
  BY FieldItem DEF FieldOf, WellListed
<1>3. /\ g = [f EXCEPT !.sectors[s].sections[t].fields = r]
      /\ Hits(fields, new.name) = {} /\ r \in Seq(Field)
  <2>1. AddNamed(fields, item, "MCFG_DUPLICATE_FIELD", arrayOk).err = "MCFG_OK"
    BY DEF mcfg_add_field
  <2>2. [item EXCEPT !.name = remove_newline(item.name)] = new
        /\ remove_newline(item.name) = remove_newline(name)
    BY DEF FieldOf
  <2>3. AddNamed(fields, item, "MCFG_DUPLICATE_FIELD", arrayOk).seq = r
        /\ Hits(fields, new.name) = {}
    <3> HIDE DEF fields, item, new
    <3>1. AddNamed(fields, item, "MCFG_DUPLICATE_FIELD", arrayOk).seq
            = Append(fields, [item EXCEPT !.name = remove_newline(item.name)])
          /\ Hits(fields, remove_newline(item.name)) = {}
      BY <2>1, AddAccepted
    <3> QED
      BY <1>2, <2>2, <3>1
  <2>4. g = [f EXCEPT !.sectors[s].sections[t].fields = r]
    BY <2>3 DEF mcfg_add_field
  <2>5. r \in Seq(Field)
    <3> HIDE DEF fields, new
    <3> QED
      BY <1>1, <1>2
  <2> QED
    BY <2>3, <2>4, <2>5
<1> HIDE DEF new, g, N
<1>4. /\ here \in Seq(Steps) /\ Len(here) >= 2 /\ here \in Paths(Entries(f))
      /\ Under(<< >>, Step("sector", f.sectors[s].name), here)
      /\ Under(SectorPath(f, s), Step("section", f.sectors[s].sections[t].name), here)
  <2>1. Len(here) = 2
    BY SectionIn
  <2> HIDE DEF here
  <2>2. Len(here) >= 2
    BY <2>1
  <2> QED
    BY <2>2, SectionIn DEF here
<1>5. Gains(FieldEntries(here, fields, "field"), FieldEntries(here, r, "field"), here, step, N)
  <2> HIDE DEF fields, here
  <2>1. Gains(FieldEntries(here, fields, "field"), FieldEntries(here, r, "field"),
              here, Step("field", new.name), EntriesOfField(here, new, "field"))
    BY <1>1, <1>2, <1>3, <1>4, FieldsGain
  <2> QED
    BY <1>2, <2>1 DEF N
<1>6. Gains(Entries(f), Entries(g), here, step, N) /\ EntryCount(g) = CountWith(f, s, t, r)
  <2> HIDE DEF r, step
  <2> QED
    BY <1>3, <1>4, <1>5, WithFieldsGrows
<1>7. NewBranch(here, step, N) /\ Cardinality(Paths(N)) = FieldCount(new)
  <2> HIDE DEF here
  <2> QED
    BY <1>2, <1>4, BranchOfField DEF N
<1>8. EntryCount(g) = EntryCount(f) + FieldCount(new)
  <2> HIDE DEF fields
  <2>1. SumOver(FieldCounts, r) = SumOver(FieldCounts, fields) + FieldCounts[new]
    BY <1>1, <1>2, FieldCountsTotal, SumOfAppend
  <2>2. FieldCounts[new] = FieldCount(new) /\ FieldCount(new) \in Nat
    BY <1>2, FieldCountType DEF FieldCounts
  <2>3. SumOver(FieldCounts, fields) \in Nat /\ EntryCount(f) \in Nat
    BY <1>1, FieldCountsTotal, SumOverIs, EntryCountIs
  <2> HIDE DEF r
  <2>4. EntryCount(g) = EntryCount(f) + SumOver(FieldCounts, r) - SumOver(FieldCounts, fields)
    BY <1>6 DEF CountWith, fields
  <2> QED
    BY <2>1, <2>2, <2>3, <2>4
<1> HIDE DEF here, step
<1>9. Adds(f, g, here, step, N)
  BY <1>4, <1>6, <1>7, <1>8 DEF Adds
<1> QED
  BY <1>9 DEF g, here, step

\* A list that gets an element.
Longer(field, data) ==
    LET list == field.data
    IN  [field EXCEPT !.data =
            [list EXCEPT !.elems =
                Append(list.elems, [name |-> Len(list.elems) + 1, data |-> data])]]

\* Its field gains the entry of that element.
FieldGrown(path, field, kind, data) ==
    LET here == Append(path, Step(kind, field.name))
        now  == Longer(field, data)
        n    == Len(field.data.elems)
    IN  /\ now \in Field /\ now.name = field.name /\ WellListed(now) /\ n \in Nat
        /\ here \in Seq(Steps) /\ FieldCount(now) = FieldCount(field) + 1
        /\ Gains(EntriesOfField(path, field, kind), EntriesOfField(path, now, kind),
                 here, ElementStep(n + 1), {ElementEntry(here, now, n + 1)})

\* A list as the document keeps it.
IsList(field) == field.type = "TYPE_LIST" /\ field.data # NULL /\ WellListed(field)

\* That is what it does.
LEMMA FieldGrows ==
    ASSUME NEW path \in Seq(Steps), NEW field \in Field, IsList(field),
           NEW data \in Scalar, NEW kind \in {"field", "dynfield"}
    PROVE  FieldGrown(path, field, kind, data)
<1> DEFINE here == Append(path, Step(kind, field.name))
           now  == Longer(field, data)
           n    == Len(field.data.elems)
           elems == field.data.elems
           new   == [name |-> n + 1, data |-> data]
           more  == Append(elems, new)
<1>0. field.type = "TYPE_LIST" /\ field.data # NULL /\ WellListed(field)
  BY DEF IsList
<1>1. field.data \in List /\ elems \in Seq(Element) /\ n \in Nat /\ n = Len(elems)
      /\ field.data = [type |-> field.data.type, elems |-> elems]
      /\ field.data.type \in FieldTypes
      /\ field = [name |-> field.name, type |-> "TYPE_LIST", data |-> field.data]
  BY <1>0 DEF Field, List
<1>2. new \in Element
  BY <1>1 DEF Element
<1>3. more \in Seq(Element) /\ Len(more) = n + 1 /\ more[n + 1] = new
      /\ \A k \in 1 .. n : more[k] = elems[k]
  <2> HIDE DEF elems, new
  <2> QED
    BY <1>1, <1>2
<1>4. now = [name |-> field.name, type |-> "TYPE_LIST",
             data |-> [type |-> field.data.type, elems |-> more]]
  <2> DEFINE list == [field.data EXCEPT !.elems = more]
  <2>1. now = [field EXCEPT !.data = list]
    BY DEF Longer
  <2>2. list = [type |-> field.data.type, elems |-> more]
    <3> HIDE DEF more, elems
    <3> QED
      BY <1>1
  <2> HIDE DEF list, now, more, elems, n
  <2>3. [field EXCEPT !.data = list]
          = [name |-> field.name, type |-> "TYPE_LIST", data |-> list]
    BY <1>1
  <2> QED
    BY <2>1, <2>2, <2>3
<1>5. /\ now.name = field.name /\ now.type = "TYPE_LIST" /\ now.data.elems = more
      /\ now.data.type = field.data.type
      /\ now.data = [type |-> field.data.type, elems |-> more]
  <2> HIDE DEF more
  <2> QED
    BY <1>4
<1> HIDE DEF more
<1>6. now.data \in List /\ now.data # NULL
  BY <1>1, <1>3, <1>5, StoreAssumption DEF List
<1>7. now \in Field
  BY <1>1, <1>4, <1>5, <1>6 DEF Field, FieldTypes
<1>8. DOMAIN more = 1 .. n + 1 /\ DOMAIN elems = 1 .. n
  BY <1>1, <1>3
<1>9. WellListed(now)
  <2>1. \A k \in 1 .. n : elems[k].name = k
    BY <1>0, <1>8 DEF WellListed, Positioned
  <2>2. \A k \in 1 .. n + 1 : k \in 1 .. n \/ k = n + 1
    BY <1>1
  <2>3. new.name = n + 1
    OBVIOUS
  <2> HIDE DEF elems, new
  <2> QED
    BY <1>3, <1>5, <1>8, <2>1, <2>2, <2>3 DEF WellListed, Positioned
<1>10. here \in Seq(Steps) /\ Len(here) \in Nat
  <2>1. Step(kind, field.name) \in Steps
    BY StepTypes DEF Field
  <2> QED
    BY <2>1
<1>11. Elems(now) = more /\ Elems(field) = elems
  BY <1>0, <1>5, <1>6 DEF Elems
<1>12. FieldCount(now) = FieldCount(field) + 1
  BY <1>1, <1>3, <1>7, <1>11, ElemsType
<1>13. EntriesOfField(path, field, kind)
         = {Entry(here, FieldValue(field))} \cup {ElementEntry(here, field, k) : k \in 1 .. n}
  <2>1. Len(Elems(field)) = n
    BY <1>11
  <2> QED
    BY <1>0, <2>1, FieldIs
<1>14. EntriesOfField(path, now, kind)
         = {Entry(here, FieldValue(now))} \cup {ElementEntry(here, now, k) : k \in 1 .. n + 1}
  <2>1. Len(Elems(now)) = n + 1
    BY <1>3, <1>11
  <2> QED
    BY <1>5, <1>7, <1>9, <2>1, FieldIs
<1>15. FieldValue(now) = FieldValue(field)
  BY <1>0, <1>5, <1>6 DEF FieldValue
<1>16. \A k \in 1 .. n : ElementEntry(here, now, k) = ElementEntry(here, field, k)
  <2> HIDE DEF elems
  <2> QED
    BY <1>3, <1>5, <1>11 DEF ElementEntry
<1>17. EntriesOfField(path, now, kind)
         = EntriesOfField(path, field, kind) \cup {ElementEntry(here, now, n + 1)}
  <2>1. \A k \in 1 .. n + 1 : k \in 1 .. n \/ k = n + 1
    BY <1>1
  <2>2. n + 1 \in 1 .. n + 1 /\ \A k \in 1 .. n : k \in 1 .. n + 1
    BY <1>1
  <2>3. {ElementEntry(here, now, k) : k \in 1 .. n + 1}
          = {ElementEntry(here, field, k) : k \in 1 .. n} \cup {ElementEntry(here, now, n + 1)}
    BY <1>16, <2>1, <2>2
  <2> QED
    BY <1>13, <1>14, <1>15, <2>3
<1>18. Absent(EntriesOfField(path, field, kind), here, ElementStep(n + 1))
  <2>1. ~Under(here, ElementStep(n + 1), Entry(here, FieldValue(field)).path)
    BY <1>10 DEF Under, Entry
  <2>2. ASSUME NEW k \in 1 .. n, Under(here, ElementStep(n + 1), ElementEntry(here, field, k).path)
        PROVE  FALSE
    <3>1. ElementEntry(here, field, k).path = Append(here, ElementStep(k))
      BY DEF ElementEntry, Entry
    <3>2. ElementStep(k) \in Steps
      BY <1>1, StepTypes
    <3>3. Append(here, ElementStep(k))[Len(here) + 1] = ElementStep(k)
      BY <1>10, <3>2, FrontOfAppend
    <3>4. ElementStep(k) = ElementStep(n + 1)
      BY <2>2, <3>1, <3>3 DEF Under
    <3>5. k = n + 1
      BY <3>4, StepTypes
    <3> QED
      BY <1>1, <3>5
  <2> QED
    BY <1>13, <2>1, <2>2 DEF Absent
<1> QED
  BY <1>1, <1>5, <1>7, <1>9, <1>10, <1>12, <1>17, <1>18 DEF Gains, FieldGrown
\* A document counts the elements of each field.
CountWithField(f, s, t, i, now) ==
    EntryCount(f) + FieldCount(now) - FieldCount(f.sectors[s].sections[t].fields[i])

\* It grows with one field.
LEMMA WithFieldGrows ==
    ASSUME NEW f \in File, AllNamesUnique(f), NEW s \in 1 .. Len(f.sectors),
           NEW t \in 1 .. Len(f.sectors[s].sections),
           NEW i \in 1 .. Len(f.sectors[s].sections[t].fields),
           NEW now \in Field, NEW step, NEW N,
           Gains(EntriesOfField(SectionPath(f, s, t), f.sectors[s].sections[t].fields[i], "field"),
                 EntriesOfField(SectionPath(f, s, t), now, "field"),
                 FieldPath(f, s, t, i), step, N)
    PROVE  /\ Gains(Entries(f), Entries([f EXCEPT !.sectors[s].sections[t].fields[i] = now]),
                    FieldPath(f, s, t, i), step, N)
           /\ EntryCount([f EXCEPT !.sectors[s].sections[t].fields[i] = now])
                = CountWithField(f, s, t, i, now)
<1> DEFINE fields == f.sectors[s].sections[t].fields
           field == f.sectors[s].sections[t].fields[i]
           r    == [fields EXCEPT ![i] = now]
           g    == [f EXCEPT !.sectors[s].sections[t].fields[i] = now]
           here == FieldPath(f, s, t, i)
           place == SectionPath(f, s, t)
<1>1. fields \in Seq(Field) /\ fields[i] = field /\ i \in 1 .. Len(fields)
  BY FileParts, SectorParts, SectionParts
<1>2. g = [f EXCEPT !.sectors[s].sections[t].fields = r]
  OBVIOUS
<1>3. UniqueNames(fields)
  <2>1. s \in DOMAIN f.sectors /\ f.sectors[s] \in Sector
    BY FileParts
  <2>2. t \in DOMAIN f.sectors[s].sections
    BY <2>1, SectorParts
  <2> QED
    BY <2>1, <2>2 DEF AllNamesUnique, SectorOK
<1>4. /\ here \in Seq(Steps) /\ Len(here) = 3
      /\ Under(place, Step("field", fields[i].name), here)
      /\ Under(<< >>, Step("sector", f.sectors[s].name), here)
      /\ Under(SectorPath(f, s), Step("section", f.sectors[s].sections[t].name), here)
  BY FieldIn
<1>5. place \in Seq(Steps)
  BY SectionIn
<1>6. Gains(EntriesOfField(place, fields[i], "field"), EntriesOfField(place, now, "field"),
            here, step, N)
  OBVIOUS
<1> HIDE DEF here, place, fields, field, g
<1>7. r \in Seq(Field)
  BY <1>1
<1>8. Gains(FieldEntries(place, fields, "field"), FieldEntries(place, r, "field"), here, step, N)
  BY <1>1, <1>3, <1>4, <1>5, <1>6, FieldsGrow
<1>9. SumOver(FieldCounts, r) = SumOver(FieldCounts, fields) + FieldCount(now) - FieldCount(field)
  <2>1. SumOver(FieldCounts, r) = SumWith(FieldCounts, fields, i, now)
    BY <1>1, FieldCountsTotal, SumOfExchange
  <2>2. fields[i] \in Field
    BY <1>1
  <2>3. FieldCounts[now] = FieldCount(now) /\ FieldCounts[fields[i]] = FieldCount(field)
    BY <1>1, <2>2 DEF FieldCounts
  <2> HIDE DEF r
  <2> QED
    BY <2>1, <2>3 DEF SumWith
<1> HIDE DEF r
<1>10. Len(here) >= 2
  BY <1>4
<1>11. Gains(Entries(f), Entries(g), here, step, N) /\ EntryCount(g) = CountWith(f, s, t, r)
  BY <1>2, <1>4, <1>7, <1>8, <1>10, WithFieldsGrows DEF place, fields
<1>12. EntryCount(g) = CountWithField(f, s, t, i, now)
  <2>1. FieldCount(field) \in Nat /\ FieldCount(now) \in Nat
    BY <1>1, FieldCountType
  <2>2. SumOver(FieldCounts, fields) \in Nat /\ EntryCount(f) \in Nat
    BY <1>1, FieldCountsTotal, SumOverIs, EntryCountIs
  <2>3. EntryCount(g) = EntryCount(f) + SumOver(FieldCounts, r) - SumOver(FieldCounts, fields)
    BY <1>11 DEF CountWith, fields
  <2>4. EntryCount(g) = EntryCount(f) + FieldCount(now) - FieldCount(field)
    BY <1>9, <2>1, <2>2, <2>3
  <2> QED
    BY <2>4 DEF CountWithField, field
<1> QED
  BY <1>11, <1>12 DEF g, here
\* What it is that mcfg_add_list_field adds: the element, at the position
\* behind the others.
ElementAdded(f, s, t, i, data) ==
    LET field == f.sectors[s].sections[t].fields[i]
        now   == Longer(field, data)
        here  == FieldPath(f, s, t, i)
        n     == Len(field.data.elems)
    IN  /\ Adds(f, [f EXCEPT !.sectors[s].sections[t].fields[i] = now],
                here, ElementStep(n + 1), {ElementEntry(here, now, n + 1)})
        /\ WellListed(now)

\* It adds that.
LEMMA AddElementAdds ==
    ASSUME NEW f \in File, AllNamesUnique(f), NEW s \in 1 .. Len(f.sectors),
           NEW t \in 1 .. Len(f.sectors[s].sections),
           NEW i \in 1 .. Len(f.sectors[s].sections[t].fields),
           IsList(f.sectors[s].sections[t].fields[i]), NEW data \in Scalar
    PROVE  ElementAdded(f, s, t, i, data)
<1> DEFINE field == f.sectors[s].sections[t].fields[i]
           now  == Longer(field, data)
           n    == Len(field.data.elems)
           g    == [f EXCEPT !.sectors[s].sections[t].fields[i] = now]
           here == FieldPath(f, s, t, i)
           place == SectionPath(f, s, t)
           e    == ElementEntry(here, now, n + 1)
           step == ElementStep(n + 1)
<1>1. field \in Field /\ IsList(field)
  BY FileParts, SectorParts, SectionParts
<1>2. here = Append(place, Step("field", field.name)) /\ here \in Paths(Entries(f))
      /\ here \in Seq(Steps)
  BY FieldIn
<1>3. place \in Seq(Steps)
  BY SectionIn
<1> HIDE DEF field, here, place, g
<1>4. /\ now \in Field /\ n \in Nat /\ WellListed(now)
      /\ FieldCount(now) = FieldCount(field) + 1
      /\ Gains(EntriesOfField(place, field, "field"), EntriesOfField(place, now, "field"),
               here, step, {e})
  <2>1. FieldGrown(place, field, "field", data)
    BY <1>1, <1>3, FieldGrows
  <2> HIDE DEF now, n, step, e
  <2> QED
    BY <1>2, <2>1 DEF FieldGrown, now, n, step, e
<1> HIDE DEF now, n
<1>5. NewBranch(here, step, {e}) /\ Cardinality(Paths({e})) = 1
  <2>1. step \in Steps
    <3>1. n + 1 \in Nat
      BY <1>4
    <3> QED
      BY <3>1, StepTypes
  <2>2. e.path = Append(here, step)
    BY DEF ElementEntry, Entry
  <2> HIDE DEF e, step
  <2> QED
    BY <1>2, <2>1, <2>2, BranchOfOne
<1> HIDE DEF e, step
<1>6. /\ Gains(Entries(f), Entries(g), here, step, {e})
      /\ EntryCount(g) = CountWithField(f, s, t, i, now)
  BY <1>4, WithFieldGrows DEF field, place, here, g
<1>7. EntryCount(g) = EntryCount(f) + 1
  <2>1. EntryCount(g) = EntryCount(f) + FieldCount(now) - FieldCount(field)
    BY <1>6 DEF CountWithField, field
  <2>2. FieldCount(field) \in Nat /\ EntryCount(f) \in Nat
    BY <1>1, FieldCountType, EntryCountIs
  <2> QED
    BY <1>4, <2>1, <2>2
<1>8. Adds(f, g, here, step, {e})
  BY <1>2, <1>5, <1>6, <1>7 DEF Adds
<1> QED
  BY <1>4, <1>8 DEF ElementAdded, field, now, n, g, here, e, step
-----------------------------------------------------------------------------
(* Refusing: what is a duplicate for an add is a path of the document.       *)

\* An add that finds fault with the name alone has found that name.
LEMMA AddDuplicate ==
    ASSUME NEW seq, NEW item, NEW duplicate, NEW arrayOk,
           AddNamed(seq, item, duplicate, arrayOk).err
              \notin {"MCFG_OK", "fault", "MCFG_MALLOC_FAIL"}
    PROVE  \E i \in DOMAIN seq : seq[i].name = remove_newline(item.name)
<1>1. Hits(seq, remove_newline(item.name)) # {}
  BY DEF AddNamed
<1> QED
  BY <1>1 DEF Hits

\* A sector is refused as a duplicate only where one of its name is.
LEMMA SectorThere ==
    ASSUME NEW f \in File, NEW name, NEW arrayOk,
           mcfg_add_sector(f, name, arrayOk).err
              \notin {"MCFG_OK", "fault", "MCFG_MALLOC_FAIL"}
    PROVE  Append(<< >>, Step("sector", remove_newline(name))) \in Paths(Entries(f))
<1> DEFINE item == [name |-> name, sections |-> << >>]
<1>1. AddNamed(f.sectors, item, "MCFG_DUPLICATE_SECTOR", arrayOk).err
         \notin {"MCFG_OK", "fault", "MCFG_MALLOC_FAIL"}
  BY DEF mcfg_add_sector
<1>2. item.name = name
  OBVIOUS
<1> HIDE DEF item
<1>3. PICK s \in DOMAIN f.sectors : f.sectors[s].name = remove_newline(name)
  BY <1>1, <1>2, AddDuplicate
<1>4. s \in 1 .. Len(f.sectors)
  BY FileParts
<1>5. SectorPath(f, s) \in Paths(Entries(f))
  BY <1>4, SectorIn
<1> DEFINE step == Step("sector", remove_newline(name))
<1>6. SectorPath(f, s) = <<step>>
  BY <1>3 DEF SectorPath
<1> HIDE DEF step
<1>7. Append(<< >>, step) = <<step>>
  OBVIOUS
<1> QED
  BY <1>5, <1>6, <1>7 DEF step

\* A dynamic field is refused as a duplicate only where one of its name is.
LEMMA DynfieldThere ==
    ASSUME NEW f \in File, NEW type, NEW name, NEW data, NEW arrayOk,
           mcfg_add_dynfield(f, type, name, data, arrayOk).err
              \notin {"MCFG_OK", "fault", "MCFG_MALLOC_FAIL"}
    PROVE  Append(<< >>, Step("dynfield", remove_newline(name))) \in Paths(Entries(f))
<1> DEFINE item == [name |-> name, type |-> type, data |-> data]
<1>1. AddNamed(f.dynfields, item, "MCFG_DUPLICATE_DYNFIELD", arrayOk).err
         \notin {"MCFG_OK", "fault", "MCFG_MALLOC_FAIL"}
  BY DEF mcfg_add_dynfield
<1>2. item.name = name
  OBVIOUS
<1> HIDE DEF item
<1>3. PICK i \in DOMAIN f.dynfields : f.dynfields[i].name = remove_newline(name)
  BY <1>1, <1>2, AddDuplicate
<1>4. i \in 1 .. Len(f.dynfields)
  BY FileParts
<1>5. <<Step("dynfield", f.dynfields[i].name)>> \in Paths(Entries(f))
  BY <1>4, DynfieldIn
<1> DEFINE step == Step("dynfield", remove_newline(name))
<1>6. <<step>> \in Paths(Entries(f))
  BY <1>3, <1>5
<1> HIDE DEF step
<1>7. Append(<< >>, step) = <<step>>
  OBVIOUS
<1> QED
  BY <1>6, <1>7 DEF step

\* A section is refused as a duplicate only where its sector has one of its
\* name.
LEMMA SectionThere ==
    ASSUME NEW f \in File, NEW s \in 1 .. Len(f.sectors), NEW name, NEW arrayOk,
           mcfg_add_section(f, s, name, arrayOk).err
              \notin {"MCFG_OK", "fault", "MCFG_MALLOC_FAIL"}
    PROVE  Append(SectorPath(f, s), Step("section", remove_newline(name)))
              \in Paths(Entries(f))
<1> DEFINE item == [name |-> name, fields |-> << >>]
<1>1. AddNamed(f.sectors[s].sections, item, "MCFG_DUPLICATE_FIELD", arrayOk).err
         \notin {"MCFG_OK", "fault", "MCFG_MALLOC_FAIL"}
  BY DEF mcfg_add_section
<1>2. item.name = name
  OBVIOUS
<1> HIDE DEF item
<1>3. PICK t \in DOMAIN f.sectors[s].sections :
             f.sectors[s].sections[t].name = remove_newline(name)
  BY <1>1, <1>2, AddDuplicate
<1>4. t \in 1 .. Len(f.sectors[s].sections)
  BY FileParts, SectorParts
<1> QED
  BY <1>3, <1>4, SectionIn

\* A field is refused as a duplicate only where its section has one of its
\* name.
LEMMA FieldThere ==
    ASSUME NEW f \in File, NEW s \in 1 .. Len(f.sectors),
           NEW t \in 1 .. Len(f.sectors[s].sections),
           NEW type, NEW name, NEW data, NEW arrayOk,
           mcfg_add_field(f, s, t, type, name, data, arrayOk).err
              \notin {"MCFG_OK", "fault", "MCFG_MALLOC_FAIL"}
    PROVE  Append(SectionPath(f, s, t), Step("field", remove_newline(name)))
              \in Paths(Entries(f))
<1> DEFINE item == [name |-> name, type |-> type, data |-> data]
           fields == f.sectors[s].sections[t].fields
<1>1. AddNamed(fields, item, "MCFG_DUPLICATE_FIELD", arrayOk).err
         \notin {"MCFG_OK", "fault", "MCFG_MALLOC_FAIL"}
  BY DEF mcfg_add_field
<1>2. item.name = name
  OBVIOUS
<1> HIDE DEF item
<1>3. PICK i \in DOMAIN fields : fields[i].name = remove_newline(name)
  BY <1>1, <1>2, AddDuplicate
<1>4. i \in 1 .. Len(fields)
  BY FileParts, SectorParts, SectionParts
<1>5. FieldPath(f, s, t, i) \in Paths(Entries(f))
      /\ FieldPath(f, s, t, i) = Append(SectionPath(f, s, t), Step("field", fields[i].name))
  BY <1>4, FieldIn
<1> HIDE DEF fields
<1> QED
  BY <1>3, <1>5

-----------------------------------------------------------------------------
(* The lists of a document stay as mcfg_add_list_field leaves them.          *)

ListsOK(fields)     == \A i \in DOMAIN fields : WellListed(fields[i])
SectorLists(sector) == \A t \in DOMAIN sector.sections : ListsOK(sector.sections[t].fields)
AllLists(f)         == /\ ListsOK(f.dynfields)
                       /\ \A s \in DOMAIN f.sectors : SectorLists(f.sectors[s])

\* An add puts nothing into an array but what it was given.
LEMMA AddLists ==
    ASSUME NEW seq \in Seq(Field), NEW item, NEW duplicate, NEW arrayOk, ListsOK(seq),
           WellListed([item EXCEPT !.name = remove_newline(item.name)])
    PROVE  ListsOK(AddNamed(seq, item, duplicate, arrayOk).seq)
<1> DEFINE new == [item EXCEPT !.name = remove_newline(item.name)]
           r   == AddNamed(seq, item, duplicate, arrayOk).seq
<1>1. \A i \in DOMAIN r : \/ i \in DOMAIN seq /\ r[i] = seq[i]
                          \/ r[i] = new
  BY AddNamedEntries
<1> HIDE DEF r, new
<1>2. ListsOK(r)
  BY <1>1 DEF ListsOK, new
<1> QED
  BY <1>2 DEF r

\* A field has the lists it is added with.
LEMMA NewLists ==
    ASSUME NEW type, NEW name, NEW data, WellListed([type |-> type, data |-> data])
    PROVE  LET item == [name |-> name, type |-> type, data |-> data]
           IN  WellListed([item EXCEPT !.name = remove_newline(item.name)])
BY DEF WellListed

\* Replacing a sector keeps the lists of the others.
LEMMA ListsReplaceSector ==
    ASSUME NEW f \in File, AllLists(f), NEW s \in DOMAIN f.sectors, NEW sector,
           SectorLists(sector)
    PROVE  AllLists([f EXCEPT !.sectors[s] = sector])
<1> DEFINE g == [f EXCEPT !.sectors[s] = sector]
<1>1. /\ DOMAIN g.sectors = DOMAIN f.sectors
      /\ g.sectors[s] = sector
      /\ \A i \in DOMAIN f.sectors : i # s => g.sectors[i] = f.sectors[i]
      /\ g.dynfields = f.dynfields
  BY DEF File
<1> QED
  BY <1>1 DEF AllLists

\* Replacing the fields of a section keeps the lists of the others.
LEMMA ListsReplaceFields ==
    ASSUME NEW f \in File, AllLists(f), NEW s \in 1 .. Len(f.sectors),
           NEW t \in 1 .. Len(f.sectors[s].sections), NEW fields, ListsOK(fields)
    PROVE  AllLists([f EXCEPT !.sectors[s].sections[t].fields = fields])
<1> DEFINE old     == f.sectors[s]
           before  == old.sections[t]
           section == [before EXCEPT !.fields = fields]
           sector  == [old EXCEPT !.sections[t] = section]
<1>1. old \in Sector /\ before \in Section /\ s \in DOMAIN f.sectors
      /\ t \in DOMAIN old.sections
  <2>1. old \in Sector /\ s \in DOMAIN f.sectors
    BY FileParts
  <2> QED
    BY <2>1, SectorParts
<1>2. [f EXCEPT !.sectors[s].sections[t].fields = fields] = [f EXCEPT !.sectors[s] = sector]
  OBVIOUS
<1>3. SectorLists(old)
  BY <1>1 DEF AllLists
<1>4. section.fields = fields
  BY <1>1 DEF Section
<1>5. /\ DOMAIN sector.sections = DOMAIN old.sections
      /\ sector.sections[t] = section
      /\ \A i \in DOMAIN old.sections : i # t => sector.sections[i] = old.sections[i]
  <2> HIDE DEF section
  <2> QED
    BY <1>1 DEF Sector
<1> HIDE DEF sector, section, before
<1>6. SectorLists(sector)
  BY <1>3, <1>4, <1>5 DEF SectorLists
<1> QED
  BY <1>1, <1>2, <1>6, ListsReplaceSector

\* Adding a sector keeps every list.
LEMMA AddSectorLists ==
    ASSUME NEW f \in File, AllLists(f), NEW name, NEW arrayOk
    PROVE  AllLists(mcfg_add_sector(f, name, arrayOk).file)
<1> DEFINE item == [name |-> name, sections |-> << >>]
           new  == [item EXCEPT !.name = remove_newline(item.name)]
           r    == AddNamed(f.sectors, item, "MCFG_DUPLICATE_SECTOR", arrayOk).seq
           g    == mcfg_add_sector(f, name, arrayOk).file
<1>1. f.sectors \in Seq(Sector)
  BY DEF File
<1>2. g.sectors = r /\ g.dynfields = f.dynfields
  BY DEF mcfg_add_sector, File
<1>3. SectorLists(new)
  BY DEF SectorLists
<1>4. \A i \in DOMAIN r : \/ i \in DOMAIN f.sectors /\ r[i] = f.sectors[i]
                          \/ r[i] = new
  BY <1>1, AddNamedEntries
<1> HIDE DEF r, new, g
<1>5. AllLists(g)
  BY <1>2, <1>3, <1>4 DEF AllLists
<1> QED
  BY <1>5 DEF g

\* Adding a section keeps every list.
LEMMA AddSectionLists ==
    ASSUME NEW f \in File, AllLists(f), NEW s \in 1 .. Len(f.sectors), NEW name, NEW arrayOk
    PROVE  AllLists(mcfg_add_section(f, s, name, arrayOk).file)
<1> DEFINE old    == f.sectors[s]
           item   == [name |-> name, fields |-> << >>]
           new    == [item EXCEPT !.name = remove_newline(item.name)]
           r      == AddNamed(old.sections, item, "MCFG_DUPLICATE_FIELD", arrayOk).seq
           sector == [old EXCEPT !.sections = r]
           g      == mcfg_add_section(f, s, name, arrayOk).file
<1>1. old \in Sector /\ old.sections \in Seq(Section) /\ SectorLists(old)
      /\ s \in DOMAIN f.sectors
  BY FileParts, SectorParts DEF AllLists
<1>2. g = [f EXCEPT !.sectors[s] = sector]
  BY DEF mcfg_add_section
<1>3. sector.sections = r
  BY <1>1 DEF Sector
<1>4. ListsOK(new.fields)
  BY DEF ListsOK
<1>5. \A i \in DOMAIN r : \/ i \in DOMAIN old.sections /\ r[i] = old.sections[i]
                          \/ r[i] = new
  BY <1>1, AddNamedEntries
<1> HIDE DEF r, new, g, sector
<1>6. SectorLists(sector)
  BY <1>1, <1>3, <1>4, <1>5 DEF SectorLists
<1>7. AllLists(g)
  BY <1>1, <1>2, <1>6, ListsReplaceSector
<1> QED
  BY <1>7 DEF g

\* Adding a field keeps every list.
LEMMA AddFieldLists ==
    ASSUME NEW f \in File, AllLists(f), NEW s \in 1 .. Len(f.sectors),
           NEW t \in 1 .. Len(f.sectors[s].sections), NEW type, NEW data,
           WellListed([type |-> type, data |-> data]), NEW name, NEW arrayOk
    PROVE  AllLists(mcfg_add_field(f, s, t, type, name, data, arrayOk).file)
<1> DEFINE before == f.sectors[s].sections[t].fields
           item == [name |-> name, type |-> type, data |-> data]
           r    == AddNamed(before, item, "MCFG_DUPLICATE_FIELD", arrayOk).seq
<1>1. before \in Seq(Field) /\ ListsOK(before)
  BY FileParts, SectorParts, SectionParts DEF AllLists, SectorLists
<1>2. WellListed([item EXCEPT !.name = remove_newline(item.name)])
  BY NewLists
<1>3. mcfg_add_field(f, s, t, type, name, data, arrayOk).file
        = [f EXCEPT !.sectors[s].sections[t].fields = r]
  BY DEF mcfg_add_field
<1> HIDE DEF before, item
<1>4. ListsOK(r)
  BY <1>1, <1>2, AddLists
<1> HIDE DEF r
<1> QED
  BY <1>3, <1>4, ListsReplaceFields

\* Adding a dynamic field keeps every list.
LEMMA AddDynfieldLists ==
    ASSUME NEW f \in File, AllLists(f), NEW type, NEW data,
           WellListed([type |-> type, data |-> data]), NEW name, NEW arrayOk
    PROVE  AllLists(mcfg_add_dynfield(f, type, name, data, arrayOk).file)
<1> DEFINE item == [name |-> name, type |-> type, data |-> data]
           r    == AddNamed(f.dynfields, item, "MCFG_DUPLICATE_DYNFIELD", arrayOk).seq
           g    == mcfg_add_dynfield(f, type, name, data, arrayOk).file
<1>1. f.dynfields \in Seq(Field) /\ ListsOK(f.dynfields)
  BY FileParts DEF AllLists
<1>2. WellListed([item EXCEPT !.name = remove_newline(item.name)])
  BY NewLists
<1>3. g.sectors = f.sectors /\ g.dynfields = r
  BY DEF mcfg_add_dynfield, File
<1> HIDE DEF item, g
<1>4. ListsOK(r)
  BY <1>1, <1>2, AddLists
<1> HIDE DEF r
<1>5. AllLists(g)
  BY <1>3, <1>4 DEF AllLists
<1> QED
  BY <1>5 DEF g

\* Replacing a field by one with such a list keeps every list.
LEMMA SetFieldLists ==
    ASSUME NEW f \in File, AllLists(f), NEW s \in 1 .. Len(f.sectors),
           NEW t \in 1 .. Len(f.sectors[s].sections),
           NEW i \in 1 .. Len(f.sectors[s].sections[t].fields), NEW now, WellListed(now)
    PROVE  AllLists([f EXCEPT !.sectors[s].sections[t].fields[i] = now])
<1> DEFINE before == f.sectors[s].sections[t].fields
           r      == [before EXCEPT ![i] = now]
<1>1. before \in Seq(Field) /\ ListsOK(before)
  BY FileParts, SectorParts, SectionParts DEF AllLists, SectorLists
<1>2. [f EXCEPT !.sectors[s].sections[t].fields[i] = now]
        = [f EXCEPT !.sectors[s].sections[t].fields = r]
  OBVIOUS
<1> HIDE DEF before
<1>3. ListsOK(r)
  BY <1>1 DEF ListsOK
<1> HIDE DEF r
<1> QED
  BY <1>2, <1>3, ListsReplaceFields
\* An add of an element that is refused changes nothing.
LEMMA SameData ==
    ASSUME NEW f \in File, NEW s \in 1 .. Len(f.sectors),
           NEW t \in 1 .. Len(f.sectors[s].sections),
           NEW i \in 1 .. Len(f.sectors[s].sections[t].fields)
    PROVE  [f EXCEPT !.sectors[s].sections[t].fields[i].data
                        = f.sectors[s].sections[t].fields[i].data] = f
<1> DEFINE old    == f.sectors[s]
           before == old.sections[t]
           field  == before.fields[i]
<1>1. f.sectors \in Seq(Sector) /\ s \in DOMAIN f.sectors
      /\ f = [sectors |-> f.sectors, dynfields |-> f.dynfields]
  BY DEF File
<1>2. old \in Sector
  BY <1>1, FileParts
<1>3. before \in Section /\ old.sections \in Seq(Section)
  BY <1>2, SectorParts
<1>4. before.fields \in Seq(Field) /\ field \in Field
  BY <1>3, SectionParts
<1>5. [field EXCEPT !.data = field.data] = field
  <2> HIDE DEF field
  <2> QED
    BY <1>4 DEF Field
<1>6. [before EXCEPT !.fields = [before.fields EXCEPT ![i] = field]] = before
  <2>1. [before.fields EXCEPT ![i] = field] = before.fields
    BY <1>4
  <2> HIDE DEF before, field
  <2> QED
    BY <1>3, <2>1 DEF Section
<1>7. [old EXCEPT !.sections = [old.sections EXCEPT ![t] = before]] = old
  <2>1. [old.sections EXCEPT ![t] = before] = old.sections
    BY <1>3
  <2> HIDE DEF old, before
  <2> QED
    BY <1>2, <2>1 DEF Sector
<1>8. [f EXCEPT !.sectors = [f.sectors EXCEPT ![s] = old]] = f
  <2>1. [f.sectors EXCEPT ![s] = old] = f.sectors
    BY <1>1
  <2> HIDE DEF old
  <2> QED
    BY <1>1, <2>1
<1>9. [f EXCEPT !.sectors[s].sections[t].fields[i].data = field.data]
        = [f EXCEPT !.sectors = [f.sectors EXCEPT ![s] =
             [old EXCEPT !.sections = [old.sections EXCEPT ![t] =
                [before EXCEPT !.fields = [before.fields EXCEPT ![i] =
                   [field EXCEPT !.data = field.data]]]]]]]
  OBVIOUS
<1> QED
  BY <1>5, <1>6, <1>7, <1>8, <1>9
\* Paths step by step.
LEMMA PathSteps ==
    ASSUME NEW a, NEW b, NEW c
    PROVE  /\ Append(<<a>>, b) = <<a, b>>
           /\ Append(<<a, b>>, c) = <<a, b, c>>
<1> DEFINE S == {a, b, c}
<1>1. a \in S /\ b \in S /\ c \in S
  OBVIOUS
<1> HIDE DEF S
<1>2. <<a, b>> \in Seq(S) /\ Len(<<a, b>>) = 2 /\ <<a, b>> = Append(<<a>>, b)
  BY <1>1
<1>3. <<a, b, c>> \in Seq(S) /\ Len(<<a, b, c>>) = 3 /\ <<a, b, c>> = Append(<<a, b>>, c)
  BY <1>1
<1> QED
  BY <1>2, <1>3

\* The path of an element.
LEMMA PathOfElement ==
    ASSUME NEW a, NEW b, NEW c, NEW d
    PROVE  Append(<<a, b, c>>, d) = <<a, b, c, d>>
<1> DEFINE S == {a, b, c, d}
<1>1. a \in S /\ b \in S /\ c \in S /\ d \in S
  OBVIOUS
<1> HIDE DEF S
<1>2. /\ <<a, b, c, d>> \in Seq(S) /\ Len(<<a, b, c, d>>) = 4
      /\ <<a, b, c, d>> = Append(<<a, b, c>>, d)
  BY <1>1
<1> QED
  BY <1>2
\* The empty document is a tree without an entry.
LEMMA EmptyTree ==
    /\ EmptyFile \in File /\ AllLists(EmptyFile) /\ IsTree(EmptyFile)
    /\ Tree(EmptyFile) = << >> /\ EntryCount(EmptyFile) = 0
<1>1. EmptyFile.sectors = << >> /\ EmptyFile.dynfields = << >>
  BY DEF EmptyFile
<1>2. EmptyFile \in File
  <2>1. << >> \in Seq(Sector) /\ << >> \in Seq(Field)
    OBVIOUS
  <2> QED
    BY <2>1 DEF EmptyFile, File
<1>3. AllLists(EmptyFile)
  BY <1>1 DEF AllLists, ListsOK
<1>4. Entries(EmptyFile) = {}
  BY <1>1 DEF Entries, FieldEntries
<1>5. EntryCount(EmptyFile) = 0
  <2>1. SumOver(FieldCounts, << >>) = 0 /\ SumOver(SectorCounts, << >>) = 0
    <3>1. << >> \in Seq(Field) /\ << >> \in Seq(Sector)
      OBVIOUS
    <3> QED
      BY <3>1, FieldCountsTotal, SectorCountsTotal, SumOfEmpty
  <2> QED
    BY <1>1, <1>2, <2>1, EntryCountIs
<1>6. Paths(Entries(EmptyFile)) = {}
  BY <1>4 DEF Paths
<1>7. IsTree(EmptyFile)
  BY <1>4, <1>5, <1>6, FS_EmptySet DEF IsTree, Single, Closed
<1>8. Tree(EmptyFile) = << >>
  <2>1. DOMAIN Tree(EmptyFile) = {}
    BY <1>4 DEF Tree
  <2>2. Tree(EmptyFile) = [path \in {} |-> path]
    BY <1>4, <2>1 DEF Tree
  <2>3. << >> = [path \in {} |-> path]
    OBVIOUS
  <2> QED
    BY <2>2, <2>3
<1> QED
  BY <1>2, <1>3, <1>5, <1>7, <1>8


\* A list that gets an element as mcfg_add_list_field adds it keeps its
\* elements at their positions; one that does not stays as it was.
LEMMA AddPositioned ==
    ASSUME NEW l \in List, Positioned(l), NEW data, NEW nameOk, NEW arrayOk
    PROVE  Positioned(mcfg_add_list_field(l, data, nameOk, arrayOk).list)
<1> DEFINE add == mcfg_add_list_field(l, data, nameOk, arrayOk)
           new == [name |-> Len(l.elems) + 1, data |-> data]
<1>1. l.elems \in Seq(Element) /\ Len(l.elems) \in Nat
  BY DEF List
<1>2. CASE add.list = l
  BY <1>2
<1>3. CASE add.list = [l EXCEPT !.elems = Append(l.elems, new)]
  <2>1. new.name = Len(l.elems) + 1
    OBVIOUS
  <2> HIDE DEF new, add
  <2>2. add.list.elems = Append(l.elems, new)
    BY <1>3 DEF List
  <2>3. \A i \in DOMAIN add.list.elems :
           \/ i \in DOMAIN l.elems /\ add.list.elems[i] = l.elems[i]
           \/ i = Len(l.elems) + 1 /\ add.list.elems[i] = new
    BY <1>1, <2>2
  <2>4. Positioned(add.list)
    BY <2>1, <2>3 DEF Positioned
  <2> QED
    BY <2>4 DEF add
<1>4. add.list = l \/ add.list = [l EXCEPT !.elems = Append(l.elems, new)]
  BY DEF mcfg_add_list_field
<1> QED
  BY <1>2, <1>3, <1>4

-----------------------------------------------------------------------------
(* The texts of truth values and numbers.                                    *)

\* The symbols that they are made of.
Figures == {"0", "1", "2", "3", "4", "5", "6", "7", "8", "9", "-", "true", "false"}

\* The elements of a sequence but its last, from the end.
LEMMA FrontReversed ==
    ASSUME NEW S, NEW q \in Seq(S), q # << >>
    PROVE  Reverse(Front(q)) \in Seq(S)
<1> DEFINE m == Len(q) - 1
           back == [i \in 1 .. m |-> Front(q)[m - i + 1]]
<1>1. /\ m \in Nat /\ Front(q) \in Seq(S) /\ Len(Front(q)) = m
  <2>1. Len(q) \in Nat /\ Len(q) # 0
    BY EmptySeq
  <2>2. m \in Nat /\ m <= Len(q)
    BY <2>1
  <2>3. \A i \in 1 .. m : q[i] \in S
    BY <2>2
  <2>4. SubSeq(q, 1, m) \in Seq(S) /\ Len(SubSeq(q, 1, m)) = IF 1 <= m THEN m - 1 + 1 ELSE 0
    <3> HIDE DEF m
    <3> QED
      BY <2>2, <2>3, SubSeqProperties
  <2>5. Front(q) = SubSeq(q, 1, m)
    BY DEF Front
  <2> HIDE DEF m
  <2> QED
    BY <2>2, <2>4, <2>5
<1>2. \A i \in 1 .. m : m - i + 1 \in 1 .. m
  BY <1>1
<1>3. \A i \in 1 .. m : Front(q)[m - i + 1] \in S
  BY <1>1, <1>2
<1>4. back \in Seq(S)
  BY <1>1, <1>3
<1>5. Reverse(Front(q)) = back
  BY <1>1 DEF Reverse
<1> HIDE DEF back
<1> QED
  BY <1>4, <1>5

\* Bytes are a number.
LEMMA NumberType ==
    ASSUME NEW bytes \in Seq(0 .. 255), bytes # << >>, NEW top \in Int
    PROVE  NumberOf(bytes, top) \in Int
<1> DEFINE seq == Reverse(Front(bytes))
           n == Len(seq)
           step == [p \in Int \X (1 .. n) |-> 256 * p[1] + seq[p[2]]]
           Body(g) == [s \in SUBSET DOMAIN seq |->
                          IF s = {} THEN top ELSE 256 * g[s \ {Max(s)}] + seq[Max(s)]]
           fold == CHOOSE g : g = Body(g)
<1>1. NumberOf(bytes, top) = fold[DOMAIN seq]
  BY DEF NumberOf, FoldLeft, MapThenFoldSet
<1>2. seq \in Seq(0 .. 255)
  BY FrontReversed
<1> HIDE DEF seq
<1>3. n \in Nat /\ DOMAIN seq = 1 .. n /\ \A k \in 1 .. n : seq[k] \in 0 .. 255
  <2>1. \A S : \A q \in Seq(S) : /\ Len(q) \in Nat /\ DOMAIN q = 1 .. Len(q)
                                /\ \A k \in 1 .. Len(q) : q[k] \in S
    OBVIOUS
  <2> QED
    BY <1>2, <2>1
<1>4. step \in [Int \X (1 .. n) -> Int]
  <2>1. ASSUME NEW p \in Int \X (1 .. n)
        PROVE  256 * p[1] + seq[p[2]] \in Int
    <3>1. p[1] \in Int /\ p[2] \in 1 .. n
      OBVIOUS
    <3>2. seq[p[2]] \in 0 .. 255
      BY <1>3, <3>1
    <3>3. \A x \in Int, y \in 0 .. 255 : 256 * x + y \in Int
      OBVIOUS
    <3> QED
      BY <3>1, <3>2, <3>3
  <2> QED
    BY <2>1
<1>5. ASSUME NEW a \in Int, NEW i \in 1 .. n
      PROVE  step[a, i] = 256 * a + seq[i]
  OBVIOUS
<1>6. ASSUME NEW s \in SUBSET (1 .. n), s # {}
      PROVE  Max(s) \in 1 .. n
  BY <1>3, <1>6, MaxOfInterval
<1> HIDE DEF n, step
<1>7. PICK g \in [SUBSET (1 .. n) -> Int] : Folds(g, top, step, n)
  BY <1>3, <1>4, FoldExists
<1>8. g = Body(g)
  <2>1. ASSUME NEW s \in SUBSET (1 .. n), s # {}
        PROVE  g[s] = 256 * g[s \ {Max(s)}] + seq[Max(s)]
    <3>1. g[s \ {Max(s)}] \in Int
      BY <1>7
    <3> QED
      BY <1>5, <1>6, <1>7, <2>1, <3>1 DEF Folds
  <2>2. g[{}] = top
    BY <1>7 DEF Folds
  <2> QED
    BY <1>3, <1>7, <2>1, <2>2
<1>9. PICK f : f = Body(f) /\ NumberOf(bytes, top) = f[DOMAIN seq]
  BY <1>1, <1>8
<1>10. FoldsOver(f, Int, top, step, n)
  <2>1. f[{}] = top
    BY <1>9
  <2>2. ASSUME NEW s \in SUBSET (1 .. n), s # {}, f[s \ {Max(s)}] \in Int
        PROVE  f[s] = step[f[s \ {Max(s)}], Max(s)]
    <3>1. f[s] = 256 * f[s \ {Max(s)}] + seq[Max(s)]
      BY <1>3, <1>9, <2>2
    <3> QED
      BY <1>5, <1>6, <2>2, <3>1
  <2> QED
    BY <2>1, <2>2 DEF FoldsOver
<1>11. \A s \in SUBSET (1 .. n) : f[s] \in Int
  BY <1>3, <1>4, <1>10, FoldTyped
<1>12. f[1 .. n] \in Int
  BY <1>11
<1> HIDE DEF Body
<1> QED
  BY <1>3, <1>9, <1>12

\* The digits of the numbers in N, by means of what f has for smaller ones.
DigitsBy(f, N) ==
    [n \in N |-> IF n < 10 THEN <<DigitSymbols[n + 1]>>
                 ELSE Append(f[n \div 10], DigitSymbols[(n % 10) + 1])]

\* A digit is one of the symbols, and a number without its last digit is smaller.
LEMMA DigitFacts ==
    ASSUME NEW n \in Nat
    PROVE  /\ n % 10 \in 0 .. 9
           /\ n \div 10 \in 0 .. n
           /\ n >= 10 => n \div 10 \in 0 .. n - 1
           /\ \A d \in 0 .. 9 : DigitSymbols[d + 1] \in Figures
<1>1. n % 10 \in 0 .. 9 /\ n \div 10 \in 0 .. n
  OBVIOUS
<1>2. n >= 10 => n \div 10 \in 0 .. n - 1
  OBVIOUS
<1>3. \A d \in 0 .. 9 : DigitSymbols[d + 1] \in Figures
  BY DEF DigitSymbols, Figures
<1> QED
  BY <1>1, <1>2, <1>3

\* The digits of all numbers up to m,
LEMMA DigitsUpTo ==
    ASSUME NEW m \in Nat
    PROVE  \E g \in [0 .. m -> Seq(Figures)] : g = DigitsBy(g, 0 .. m)
<1> DEFINE T == {k \in Nat : \E g \in [0 .. k -> Seq(Figures)] : g = DigitsBy(g, 0 .. k)}
<1>1. 0 \in T
  <2> DEFINE g == [n \in 0 .. 0 |-> <<DigitSymbols[1]>>]
  <2>1. <<DigitSymbols[1]>> \in Seq(Figures)
    BY DEF DigitSymbols, Figures
  <2>2. g \in [0 .. 0 -> Seq(Figures)]
    BY <2>1
  <2>3. g = DigitsBy(g, 0 .. 0)
    <3>1. \A n \in 0 .. 0 : n < 10 /\ n + 1 = 1
      OBVIOUS
    <3> QED
      BY <3>1 DEF DigitsBy
  <2> QED
    BY <2>2, <2>3
<1>2. ASSUME NEW k \in Nat, k \in T
      PROVE  k + 1 \in T
  <2>1. PICK g \in [0 .. k -> Seq(Figures)] : g = DigitsBy(g, 0 .. k)
    BY <1>2
  <2> DEFINE last == IF k + 1 < 10 THEN <<DigitSymbols[(k + 1) + 1]>>
                     ELSE Append(g[(k + 1) \div 10], DigitSymbols[((k + 1) % 10) + 1])
             h == [n \in 0 .. k + 1 |-> IF n = k + 1 THEN last ELSE g[n]]
  <2>2. k + 1 \in Nat /\ \A n \in 0 .. k + 1 : n \in Nat /\ (n # k + 1 => n \in 0 .. k)
    OBVIOUS
  <2>3. last \in Seq(Figures)
    <3>1. CASE k + 1 < 10
      <4>1. DigitSymbols[(k + 1) + 1] \in Figures
        BY <2>2, <3>1, DigitFacts
      <4> QED
        BY <3>1, <4>1
    <3>2. CASE ~(k + 1 < 10)
      <4>1. (k + 1) % 10 \in 0 .. 9 /\ (k + 1) \div 10 \in 0 .. (k + 1) - 1
        BY <2>2, <3>2, DigitFacts
      <4>2. DigitSymbols[((k + 1) % 10) + 1] \in Figures /\ g[(k + 1) \div 10] \in Seq(Figures)
        BY <4>1, DigitFacts
      <4> QED
        BY <3>2, <4>2
    <3> QED
      BY <3>1, <3>2
  <2>4. h \in [0 .. k + 1 -> Seq(Figures)]
    BY <2>2, <2>3
  <2>5. ASSUME NEW n \in 0 .. k + 1
        PROVE  h[n] = DigitsBy(h, 0 .. k + 1)[n]
    <3>1. n >= 10 => n \div 10 \in 0 .. k /\ n \div 10 # k + 1 /\ n \div 10 \in 0 .. k + 1
      <4>1. n >= 10 => n \div 10 \in 0 .. n - 1
        BY <2>2, DigitFacts
      <4> QED
        BY <4>1
    <3>2. n >= 10 => h[n \div 10] = g[n \div 10]
      BY <3>1
    <3>3. h[n] = IF n = k + 1 THEN last ELSE g[n]
      OBVIOUS
    <3> HIDE DEF h
    <3>4. DigitsBy(h, 0 .. k + 1)[n] =
             IF n < 10 THEN <<DigitSymbols[n + 1]>>
             ELSE Append(h[n \div 10], DigitSymbols[(n % 10) + 1])
      BY DEF DigitsBy
    <3>5. CASE n = k + 1
      BY <3>2, <3>3, <3>4, <3>5
    <3>6. CASE n # k + 1
      <4>1. g[n] = IF n < 10 THEN <<DigitSymbols[n + 1]>>
                   ELSE Append(g[n \div 10], DigitSymbols[(n % 10) + 1])
        BY <2>1, <2>2, <3>6 DEF DigitsBy
      <4> QED
        BY <3>2, <3>3, <3>4, <3>6, <4>1
    <3> QED
      BY <3>5, <3>6
  <2>6. h = DigitsBy(h, 0 .. k + 1)
    <3>1. h = [n \in 0 .. k + 1 |-> h[n]] /\ DOMAIN DigitsBy(h, 0 .. k + 1) = 0 .. k + 1
      BY DEF DigitsBy
    <3>2. DigitsBy(h, 0 .. k + 1) = [n \in 0 .. k + 1 |-> DigitsBy(h, 0 .. k + 1)[n]]
      BY DEF DigitsBy
    <3> HIDE DEF h
    <3> QED
      BY <2>5, <3>1, <3>2
  <2> HIDE DEF h
  <2> QED
    BY <2>2, <2>4, <2>6
<1> HIDE DEF T
<1>3. m \in T
  BY <1>1, <1>2, SetInduction
<1> QED
  BY <1>3 DEF T

\* which are the same, however far they go.
LEMMA DigitsAgree ==
    ASSUME NEW p \in Nat, NEW m \in Nat, p <= m,
           NEW g, g = DigitsBy(g, 0 .. p), NEW h, h = DigitsBy(h, 0 .. m)
    PROVE  g[p] = h[p]
<1> DEFINE T == {k \in Nat : \A n \in 0 .. k : n <= p => g[n] = h[n]}
<1>1. \A n \in 0 .. p : g[n] = IF n < 10 THEN <<DigitSymbols[n + 1]>>
                               ELSE Append(g[n \div 10], DigitSymbols[(n % 10) + 1])
  BY DEF DigitsBy
<1>2. \A n \in 0 .. m : h[n] = IF n < 10 THEN <<DigitSymbols[n + 1]>>
                               ELSE Append(h[n \div 10], DigitSymbols[(n % 10) + 1])
  BY DEF DigitsBy
<1>3. 0 \in T
  <2>1. \A n \in 0 .. 0 : n = 0
    OBVIOUS
  <2>2. 0 \in 0 .. p /\ 0 \in 0 .. m /\ 0 < 10
    OBVIOUS
  <2>3. g[0] = <<DigitSymbols[0 + 1]>> /\ h[0] = <<DigitSymbols[0 + 1]>>
    BY <1>1, <1>2, <2>2
  <2> QED
    BY <2>1, <2>3
<1>4. ASSUME NEW k \in Nat, k \in T
      PROVE  k + 1 \in T
  <2>1. ASSUME NEW n \in 0 .. k + 1, n <= p
        PROVE  g[n] = h[n]
    <3>1. n \in 0 .. p /\ n \in 0 .. m /\ n \in Nat
      BY <2>1
    <3>2. n >= 10 => n \div 10 \in 0 .. k /\ n \div 10 <= p
      <4>1. n >= 10 => n \div 10 \in 0 .. n - 1
        BY <3>1, DigitFacts
      <4> QED
        BY <2>1, <3>1, <4>1
    <3>3. n >= 10 => g[n \div 10] = h[n \div 10]
      BY <1>4, <3>2
    <3>4. CASE n < 10
      <4>1. g[n] = <<DigitSymbols[n + 1]>> /\ h[n] = <<DigitSymbols[n + 1]>>
        BY <1>1, <1>2, <3>1, <3>4
      <4> QED
        BY <4>1
    <3>5. CASE ~(n < 10)
      <4> HIDE DEF T
      <4>1. g[n] = Append(g[n \div 10], DigitSymbols[(n % 10) + 1])
        BY <1>1, <3>1, <3>5
      <4>2. h[n] = Append(h[n \div 10], DigitSymbols[(n % 10) + 1])
        BY <1>2, <3>1, <3>5
      <4>3. n >= 10
        BY <3>1, <3>5
      <4> QED
        BY <3>3, <4>1, <4>2, <4>3
    <3> QED
      BY <3>1, <3>4, <3>5
  <2> QED
    BY <2>1
<1>5. p \in T
  <2> HIDE DEF T
  <2> QED
    BY <1>3, <1>4, SetInduction
<1> QED
  BY <1>5

\* So there is a function that has the digits of every number.
LEMMA DigitsExist == \E f : f = DigitsBy(f, Nat)
<1> DEFINE G(m) == CHOOSE g : g \in [0 .. m -> Seq(Figures)] /\ g = DigitsBy(g, 0 .. m)
           f == [n \in Nat |-> G(n)[n]]
<1>1. \A m \in Nat : G(m) \in [0 .. m -> Seq(Figures)] /\ G(m) = DigitsBy(G(m), 0 .. m)
  BY DigitsUpTo
<1> HIDE DEF G
<1>2. ASSUME NEW n \in Nat
      PROVE  f[n] = DigitsBy(f, Nat)[n]
  <2>1. n \in 0 .. n /\ f[n] = G(n)[n]
    OBVIOUS
  <2>2. G(n)[n] = IF n < 10 THEN <<DigitSymbols[n + 1]>>
                  ELSE Append(G(n)[n \div 10], DigitSymbols[(n % 10) + 1])
    BY <1>1, <2>1 DEF DigitsBy
  <2>3. n \div 10 \in Nat /\ n \div 10 <= n
    BY DigitFacts
  <2>4. G(n \div 10)[n \div 10] = G(n)[n \div 10]
    <3>1. \A p \in Nat : p <= n => G(p)[p] = G(n)[p]
      BY <1>1, DigitsAgree
    <3> QED
      BY <2>3, <3>1
  <2>5. f[n \div 10] = G(n)[n \div 10]
    BY <2>3, <2>4
  <2> HIDE DEF f
  <2> QED
    BY <2>1, <2>2, <2>5 DEF DigitsBy
<1>3. f = DigitsBy(f, Nat)
  <2>1. f = [n \in Nat |-> f[n]] /\ DigitsBy(f, Nat) = [n \in Nat |-> DigitsBy(f, Nat)[n]]
    BY DEF DigitsBy
  <2> HIDE DEF f
  <2> QED
    BY <1>2, <2>1
<1> QED
  BY <1>3

\* A number is printed with these symbols.
LEMMA DecimalType ==
    ASSUME NEW number \in Int
    PROVE  Decimal(number) \in Seq(Figures)
<1> DEFINE abs == IF number < 0 THEN -number ELSE number
           digits == CHOOSE f : f = DigitsBy(f, Nat)
           sign == IF number < 0 THEN <<"-">> ELSE << >>
           T == {k \in Nat : \A n \in 0 .. k : digits[n] \in Seq(Figures)}
<1>1. Decimal(number) = sign \o digits[abs]
  BY DEF Decimal, DigitsBy
<1>2. abs \in Nat /\ sign \in Seq(Figures)
  <2>1. abs \in Nat
    OBVIOUS
  <2>2. "-" \in Figures
    BY DEF Figures
  <2>3. <<"-">> \in Seq(Figures) /\ << >> \in Seq(Figures)
    BY <2>2
  <2> QED
    BY <2>1, <2>3
<1>3. digits = DigitsBy(digits, Nat)
  BY DigitsExist
<1> HIDE DEF digits, abs, sign
<1>4. \A n \in Nat : digits[n] = IF n < 10 THEN <<DigitSymbols[n + 1]>>
                                 ELSE Append(digits[n \div 10], DigitSymbols[(n % 10) + 1])
  BY <1>3 DEF DigitsBy
<1>5. 0 \in T
  <2>1. DigitSymbols[0 + 1] \in Figures
    BY DigitFacts
  <2>2. digits[0] \in Seq(Figures)
    <3>1. 0 \in Nat /\ 0 < 10
      OBVIOUS
    <3>2. digits[0] = <<DigitSymbols[0 + 1]>>
      BY <1>4, <3>1
    <3> QED
      BY <2>1, <3>2
  <2>3. \A n \in 0 .. 0 : n = 0
    OBVIOUS
  <2> QED
    BY <2>2, <2>3
<1>6. ASSUME NEW k \in Nat, k \in T
      PROVE  k + 1 \in T
  <2>1. ASSUME NEW n \in 0 .. k + 1
        PROVE  digits[n] \in Seq(Figures)
    <3>1. n \in Nat
      OBVIOUS
    <3>2. CASE n < 10
      <4>1. DigitSymbols[n + 1] \in Figures
        BY <3>1, <3>2, DigitFacts
      <4>2. digits[n] = <<DigitSymbols[n + 1]>>
        BY <1>4, <3>1, <3>2
      <4> QED
        BY <4>1, <4>2
    <3>3. CASE ~(n < 10)
      <4>1. n % 10 \in 0 .. 9 /\ n \div 10 \in 0 .. n - 1
        BY <3>1, <3>3, DigitFacts
      <4>2. n \div 10 \in 0 .. k
        BY <4>1
      <4>3. digits[n \div 10] \in Seq(Figures) /\ DigitSymbols[(n % 10) + 1] \in Figures
        BY <1>6, <4>1, <4>2, DigitFacts
      <4>4. digits[n] = Append(digits[n \div 10], DigitSymbols[(n % 10) + 1])
        BY <1>4, <3>1, <3>3
      <4> QED
        BY <4>3, <4>4
    <3> QED
      BY <3>2, <3>3
  <2>2. k + 1 \in Nat
    OBVIOUS
  <2> QED
    BY <2>1, <2>2
<1>7. abs \in T
  <2> HIDE DEF T
  <2> QED
    BY <1>2, <1>5, <1>6, SetInduction
<1>8. digits[abs] \in Seq(Figures)
  BY <1>2, <1>7
<1> QED
  BY <1>1, <1>2, <1>8, ConcatProperties

\* What mcfg_data_to_string returns for a number or a truth value is made of
\* them, whatever its bytes are.
LEMMA ValueText ==
    ASSUME NEW type \in FieldTypes \ {"TYPE_STRING", "TYPE_LIST"}, NEW data,
           data.bytes \in Seq(0 .. 255), data.bytes # << >>
    PROVE  mcfg_data_to_string(type, data) \in Seq(Figures)
<1> DEFINE top == Last(data.bytes)
<1>1. top \in 0 .. 255
  <2>1. \A S : \A q \in Seq(S) : q # << >> => Last(q) \in S
    BY DEF Last
  <2> QED
    BY <2>1
<1>2. \A t \in Int : NumberOf(data.bytes, t) \in Int
  BY NumberType
<1> HIDE DEF top
<1>3. CASE type = "TYPE_BOOL"
  <2>1. mcfg_data_to_string(type, data) \in {<<"true">>, <<"false">>}
    BY <1>3 DEF mcfg_data_to_string, ScalarText
  <2>2. <<"true">> \in Seq(Figures) /\ <<"false">> \in Seq(Figures)
    BY DEF Figures
  <2> QED
    BY <2>1, <2>2
<1>4. CASE type # "TYPE_BOOL"
  <2>1. mcfg_data_as(type, data).number \in Int
    <3>1. CASE type \in {"TYPE_U8", "TYPE_U16", "TYPE_U32"}
      <4>1. mcfg_data_as(type, data) = [number |-> NumberOf(data.bytes, top)]
        BY <3>1 DEF mcfg_data_as, top
      <4>2. NumberOf(data.bytes, top) \in Int
        <5>1. top \in Int
          BY <1>1
        <5> QED
          BY <1>2, <5>1
      <4> QED
        BY <4>1, <4>2
    <3>2. CASE type \notin {"TYPE_U8", "TYPE_U16", "TYPE_U32"}
      <4>1. mcfg_data_as(type, data) =
               [number |-> NumberOf(data.bytes, IF top > 127 THEN top - 256 ELSE top)]
        BY <1>4, <3>2 DEF mcfg_data_as, FieldTypes, top
      <4> DEFINE signed == IF top > 127 THEN top - 256 ELSE top
      <4>2. NumberOf(data.bytes, signed) \in Int
        <5>1. signed \in Int
          BY <1>1
        <5> HIDE DEF signed
        <5> QED
          BY <1>2, <5>1
      <4> QED
        BY <4>1, <4>2
    <3> QED
      BY <3>1, <3>2
  <2>2. mcfg_data_to_string(type, data) = Decimal(mcfg_data_as(type, data).number)
    BY <1>4 DEF mcfg_data_to_string, ScalarText
  <2> QED
    BY <2>1, <2>2, DecimalType
<1> QED
  BY <1>3, <1>4
=============================================================================
