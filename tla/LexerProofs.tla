---------------------------- MODULE LexerProofs ----------------------------
(* For every text and every failing allocation: the tokens lie in the text   *)
(* in its order, the strings are stored as they are written, nothing but     *)
(* separators is lost between two tokens, and what the parser is given keeps *)
(* the rules of parse.h.                                                     *)
EXTENDS Lexer, CommonTheorems

\* Doubling the quotes of a text, one symbol at a time.
LEMMA RedoubleLoop ==
    ASSUME NEW S, NEW text \in Seq(S)
    PROVE  \E h \in [0 .. Len(text) -> Seq(S)] :
               /\ h[0] = << >> /\ h[Len(text)] = Redouble(text)
               /\ \A i \in 1 .. Len(text) : h[i] = h[i - 1] \o Doubled(text[i])
<1> DEFINE n == Len(text)
           A == Seq(S)
           step == [p \in A \X (1 .. n) |-> p[1] \o Doubled(text[p[2]])]
           Body(g) == [s \in SUBSET DOMAIN text |->
                          IF s = {} THEN << >> ELSE g[s \ {Max(s)}] \o Doubled(text[Max(s)])]
           fold == CHOOSE g : g = Body(g)
<1>1. Redouble(text) = fold[DOMAIN text]
  BY DEF Redouble, FoldLeft, MapThenFoldSet
<1>2. /\ n \in Nat /\ DOMAIN text = 1 .. n /\ << >> \in A
      /\ \A s \in S : Doubled(s) \in A
  BY DEF Doubled
<1>3. step \in [A \X (1 .. n) -> A]
  <2>1. ASSUME NEW p \in A \X (1 .. n)
        PROVE  p[1] \o Doubled(text[p[2]]) \in A
    <3>1. p[1] \in A /\ text[p[2]] \in S
      OBVIOUS
    <3>2. Doubled(text[p[2]]) \in A
      BY <1>2, <3>1
    <3> QED
      BY <3>1, <3>2, ConcatProperties
  <2> QED
    BY <2>1
<1>4. ASSUME NEW a \in A, NEW i \in 1 .. n
      PROVE  step[a, i] = a \o Doubled(text[i])
  OBVIOUS
<1>5. ASSUME NEW s \in SUBSET (1 .. n), s # {}
      PROVE  Max(s) \in 1 .. n
  BY <1>2, <1>5, MaxOfInterval
<1> HIDE DEF n, A, step
<1>6. PICK g \in [SUBSET (1 .. n) -> A] : Folds(g, << >>, step, n)
  BY <1>2, <1>3, FoldExists
<1>7. g = Body(g)
  <2>1. ASSUME NEW s \in SUBSET (1 .. n), s # {}
        PROVE  g[s] = g[s \ {Max(s)}] \o Doubled(text[Max(s)])
    <3>1. g[s \ {Max(s)}] \in A
      BY <1>6
    <3> QED
      BY <1>4, <1>5, <1>6, <2>1, <3>1 DEF Folds
  <2>2. g[{}] = << >>
    BY <1>6 DEF Folds
  <2> QED
    BY <1>2, <1>6, <2>1, <2>2
<1>8. PICK f : f = Body(f) /\ Redouble(text) = f[DOMAIN text]
  BY <1>1, <1>7
<1>9. FoldsOver(f, A, << >>, step, n)
  <2>1. f[{}] = << >>
    BY <1>8
  <2>2. ASSUME NEW s \in SUBSET (1 .. n), s # {}, f[s \ {Max(s)}] \in A
        PROVE  f[s] = step[f[s \ {Max(s)}], Max(s)]
    <3>1. f[s] = f[s \ {Max(s)}] \o Doubled(text[Max(s)])
      BY <1>2, <1>8, <2>2
    <3> QED
      BY <1>4, <1>5, <2>2, <3>1
  <2> QED
    BY <2>1, <2>2 DEF FoldsOver
<1>10. PICK h \in [0 .. n -> A] :
         /\ h[0] = << >> /\ h[n] = f[1 .. n]
         /\ \A i \in 1 .. n : h[i] = step[h[i - 1], i]
  <2>1. Loops(f[1 .. n], A, << >>, step, n)
    BY <1>2, <1>3, <1>9, FoldIsLoop
  <2> QED
    BY <2>1 DEF Loops
<1>11. \A i \in 1 .. n : h[i] = h[i - 1] \o Doubled(text[i])
  <2> TAKE i \in 1 .. n
  <2>1. i - 1 \in 0 .. n
    BY <1>2
  <2> QED
    BY <1>4, <1>10, <2>1
<1> QED
  BY <1>2, <1>8, <1>10, <1>11 DEF n, A

\* What a symbol makes of the text so far: the second quote of a pair is
\* dropped, any other symbol is kept.
Acc(S) == [text : Seq(S), open : BOOLEAN]

\* One symbol of Undouble's loop: the second quote of a pair is dropped, any
\* other symbol is kept.
LEMMA UnpairIs ==
    ASSUME NEW S, NEW a \in Acc(S), NEW s \in S
    PROVE  /\ Unpair(a, s) \in Acc(S)
           /\ s = "'" /\ a.open = TRUE => Unpair(a, s) = [text |-> a.text, open |-> FALSE]
           /\ s = "'" /\ a.open = FALSE =>
                 Unpair(a, s) = [text |-> Append(a.text, s), open |-> TRUE]
           /\ s # "'" => Unpair(a, s) = [text |-> Append(a.text, s), open |-> FALSE]
<1>1. /\ a.text \in Seq(S) /\ Append(a.text, s) \in Seq(S)
      /\ a.open = TRUE \/ a.open = FALSE
  BY DEF Acc
<1>2. ASSUME s = "'", a.open = TRUE
      PROVE  Unpair(a, s) = [text |-> a.text, open |-> FALSE]
  <2>1. Unpair(a, s) = [a EXCEPT !.open = FALSE]
    BY <1>2 DEF Unpair
  <2> QED
    BY <1>2, <2>1 DEF Acc
<1>3. ASSUME ~(s = "'" /\ a.open = TRUE)
      PROVE  Unpair(a, s) = [text |-> Append(a.text, s), open |-> s = "'"]
  BY <1>1, <1>3 DEF Unpair
<1>4. ASSUME s = "'", a.open = FALSE
      PROVE  Unpair(a, s) = [text |-> Append(a.text, s), open |-> TRUE]
  <2>1. (s = "'") = TRUE
    BY <1>4
  <2> QED
    BY <1>3, <1>4, <2>1
<1>5. ASSUME s # "'"
      PROVE  Unpair(a, s) = [text |-> Append(a.text, s), open |-> FALSE]
  <2>1. (s = "'") = FALSE
    BY <1>5
  <2> QED
    BY <1>3, <1>5, <2>1
<1>6. Unpair(a, s) \in Acc(S)
  <2>1. \A x \in Seq(S), b \in BOOLEAN : [text |-> x, open |-> b] \in Acc(S)
    BY DEF Acc
  <2>2. CASE s = "'" /\ a.open = TRUE
    BY <1>1, <1>2, <2>1, <2>2
  <2>3. CASE s = "'" /\ a.open = FALSE
    BY <1>1, <1>4, <2>1, <2>3
  <2>4. CASE s # "'"
    BY <1>1, <1>5, <2>1, <2>4
  <2> QED
    BY <1>1, <2>2, <2>3, <2>4
<1> QED
  BY <1>2, <1>4, <1>5, <1>6

\* Pairing up the quotes of a text, one symbol at a time.
LEMMA UndoubleLoop ==
    ASSUME NEW S, NEW text \in Seq(S)
    PROVE  \E h \in [0 .. Len(text) -> Acc(S)] :
               /\ h[0] = [text |-> << >>, open |-> FALSE]
               /\ h[Len(text)].text = Undouble(text)
               /\ \A i \in 1 .. Len(text) : h[i] = Unpair(h[i - 1], text[i])
<1> DEFINE n == Len(text)
           A == Acc(S)
           base == [text |-> << >>, open |-> FALSE]
           step == [p \in A \X (1 .. n) |-> Unpair(p[1], text[p[2]])]
           Body(g) == [s \in SUBSET DOMAIN text |->
                          IF s = {} THEN base ELSE Unpair(g[s \ {Max(s)}], text[Max(s)])]
           fold == CHOOSE g : g = Body(g)
<1>1. Undouble(text) = fold[DOMAIN text].text
  BY DEF Undouble, FoldLeft, MapThenFoldSet
<1>2. n \in Nat /\ DOMAIN text = 1 .. n /\ base \in A
  BY DEF Acc
<1>3. step \in [A \X (1 .. n) -> A]
  <2>1. ASSUME NEW p \in A \X (1 .. n)
        PROVE  Unpair(p[1], text[p[2]]) \in A
    <3>1. p[1] \in A /\ text[p[2]] \in S
      OBVIOUS
    <3> QED
      BY <3>1, UnpairIs
  <2> QED
    BY <2>1
<1>4. ASSUME NEW a \in A, NEW i \in 1 .. n
      PROVE  step[a, i] = Unpair(a, text[i])
  OBVIOUS
<1>5. ASSUME NEW s \in SUBSET (1 .. n), s # {}
      PROVE  Max(s) \in 1 .. n
  BY <1>2, <1>5, MaxOfInterval
<1> HIDE DEF n, A, step, base
<1>6. PICK g \in [SUBSET (1 .. n) -> A] : Folds(g, base, step, n)
  BY <1>2, <1>3, FoldExists
<1>7. g = Body(g)
  <2>1. ASSUME NEW s \in SUBSET (1 .. n), s # {}
        PROVE  g[s] = Unpair(g[s \ {Max(s)}], text[Max(s)])
    <3>1. g[s \ {Max(s)}] \in A
      BY <1>6
    <3> QED
      BY <1>4, <1>5, <1>6, <2>1, <3>1 DEF Folds
  <2>2. g[{}] = base
    BY <1>6 DEF Folds
  <2> QED
    BY <1>2, <1>6, <2>1, <2>2
<1>8. PICK f : f = Body(f) /\ Undouble(text) = f[DOMAIN text].text
  BY <1>1, <1>7
<1>9. FoldsOver(f, A, base, step, n)
  <2>1. f[{}] = base
    BY <1>8
  <2>2. ASSUME NEW s \in SUBSET (1 .. n), s # {}, f[s \ {Max(s)}] \in A
        PROVE  f[s] = step[f[s \ {Max(s)}], Max(s)]
    <3>1. f[s] = Unpair(f[s \ {Max(s)}], text[Max(s)])
      BY <1>2, <1>8, <2>2
    <3> QED
      BY <1>4, <1>5, <2>2, <3>1
  <2> QED
    BY <2>1, <2>2 DEF FoldsOver
<1>10. PICK h \in [0 .. n -> A] :
         /\ h[0] = base /\ h[n] = f[1 .. n]
         /\ \A i \in 1 .. n : h[i] = step[h[i - 1], i]
  <2>1. Loops(f[1 .. n], A, base, step, n)
    BY <1>2, <1>3, <1>9, FoldIsLoop
  <2> QED
    BY <2>1 DEF Loops
<1>11. \A i \in 1 .. n : h[i] = Unpair(h[i - 1], text[i])
  <2> TAKE i \in 1 .. n
  <2>1. i - 1 \in 0 .. n
    BY <1>2
  <2> QED
    BY <1>4, <1>10, <2>1
<1> QED
  BY <1>2, <1>8, <1>10, <1>11 DEF n, A, base

\* Doubling goes on symbol by symbol.
LEMMA RedoubleAppend ==
    ASSUME NEW S, NEW text \in Seq(S), NEW s \in S
    PROVE  Redouble(Append(text, s)) = Redouble(text) \o Doubled(s)
<1> DEFINE n == Len(text)
           more == Append(text, s)
<1>1. /\ n \in Nat /\ more \in Seq(S) /\ Len(more) = n + 1
      /\ \A i \in 1 .. n : more[i] = text[i]
      /\ more[n + 1] = s
  BY AppendProperties
<1>2. PICK g \in [0 .. n -> Seq(S)] :
        /\ g[0] = << >> /\ g[n] = Redouble(text)
        /\ \A i \in 1 .. n : g[i] = g[i - 1] \o Doubled(text[i])
  BY RedoubleLoop
<1>3. PICK h \in [0 .. n + 1 -> Seq(S)] :
        /\ h[0] = << >> /\ h[n + 1] = Redouble(more)
        /\ \A i \in 1 .. n + 1 : h[i] = h[i - 1] \o Doubled(more[i])
  BY <1>1, RedoubleLoop
<1> HIDE DEF n, more
<1> DEFINE T == {k \in Nat : k <= n => g[k] = h[k]}
<1>4. 0 \in T
  BY <1>2, <1>3
<1>5. ASSUME NEW k \in Nat, k \in T
      PROVE  k + 1 \in T
  <2>1. ASSUME k + 1 <= n
        PROVE  g[k + 1] = h[k + 1]
    <3>1. k + 1 \in 1 .. n /\ k + 1 \in 1 .. n + 1 /\ (k + 1) - 1 = k /\ k <= n
      BY <1>1, <2>1
    <3>2. g[k] = h[k]
      BY <1>5, <3>1
    <3>3. g[k + 1] = g[k] \o Doubled(text[k + 1])
      BY <1>2, <3>1
    <3>4. h[k + 1] = h[k] \o Doubled(more[k + 1])
      BY <1>3, <3>1
    <3> QED
      BY <1>1, <3>1, <3>2, <3>3, <3>4
  <2>2. k + 1 \in Nat
    OBVIOUS
  <2> QED
    BY <2>1, <2>2
<1>6. n \in T
  <2> HIDE DEF T
  <2> QED
    BY <1>1, <1>4, <1>5, SetInduction
<1>7. g[n] = h[n]
  BY <1>1, <1>6
<1>8. h[n + 1] = h[n] \o Doubled(more[n + 1])
  <2>1. n + 1 \in 1 .. n + 1 /\ (n + 1) - 1 = n
    BY <1>1
  <2> QED
    BY <1>3, <2>1
<1> QED
  BY <1>1, <1>2, <1>3, <1>7, <1>8 DEF more

\* How many of the first i symbols are quotes.
Quotes(text, i) == Cardinality({k \in 1 .. i : text[k] = "'"})

\* The number of quotes up to an index, symbol by symbol.
LEMMA QuotesStep ==
    ASSUME NEW text, NEW i \in Nat
    PROVE  /\ Quotes(text, 0) = 0 /\ Quotes(text, i) \in Nat
           /\ Quotes(text, i + 1) =
                 IF text[i + 1] = "'" THEN Quotes(text, i) + 1 ELSE Quotes(text, i)
<1> DEFINE Q(j) == {k \in 1 .. j : text[k] = "'"}
<1>1. IsFiniteSet(Q(i))
  <2>1. IsFiniteSet(1 .. i) /\ Q(i) \in SUBSET (1 .. i)
    BY FS_Interval
  <2> QED
    BY <2>1, FS_Subset
<1>2. Quotes(text, i) \in Nat
  BY <1>1, FS_CardinalityType DEF Quotes
<1>3. Quotes(text, 0) = 0
  <2>1. Q(0) = {}
    OBVIOUS
  <2> QED
    BY <2>1, FS_EmptySet DEF Quotes
<1>4. CASE text[i + 1] = "'"
  <2>1. Q(i + 1) = Q(i) \cup {i + 1} /\ i + 1 \notin Q(i)
    BY <1>4
  <2> QED
    BY <1>1, <1>2, <1>3, <1>4, <2>1, FS_AddElement DEF Quotes
<1>5. CASE text[i + 1] # "'"
  <2>1. Q(i + 1) = Q(i)
    BY <1>5
  <2> QED
    BY <1>2, <1>3, <1>5, <2>1 DEF Quotes
<1> QED
  BY <1>4, <1>5

\* Where a run of quotes ends, their number is even.
Paired(text) ==
    \A p \in 1 .. Len(text) :
        text[p] = "'" /\ (p < Len(text) => text[p + 1] # "'") => Quotes(text, p) % 2 = 0

\* Redouble undoes Undouble on every text whose quotes come in pairs.
LEMMA RedoubleUndouble ==
    ASSUME NEW S, "'" \in S, NEW text \in Seq(S), Paired(text)
    PROVE  Redouble(Undouble(text)) = text
<1> DEFINE n == Len(text)
           Rest(open) == IF open = TRUE THEN <<"'">> ELSE << >>
<1>1. n \in Nat /\ \A i \in 1 .. n : text[i] \in S
  OBVIOUS
<1>2. PICK h \in [0 .. n -> Acc(S)] :
        /\ h[0] = [text |-> << >>, open |-> FALSE]
        /\ h[n].text = Undouble(text)
        /\ \A i \in 1 .. n : h[i] = Unpair(h[i - 1], text[i])
  BY UndoubleLoop
<1> DEFINE Good(k) == /\ h[k].open = TRUE <=> Quotes(text, k) % 2 = 1
                      /\ Redouble(h[k].text) = SubSeq(text, 1, k) \o Rest(h[k].open)
           T == {k \in Nat : k <= n => Good(k)}
<1> HIDE DEF n, Good, T
<1>3. \A k \in 0 .. n : h[k] \in Acc(S) /\ h[k].text \in Seq(S) /\ h[k].open \in BOOLEAN
  BY <1>2 DEF Acc
\* Between two runs of quotes no quote waits for its partner.
<1>4. ASSUME NEW k \in 0 .. n, Good(k), k < n => text[k + 1] # "'"
      PROVE  h[k].open = FALSE
  <2>1. CASE k = 0
    BY <1>2, <2>1
  <2>2. CASE k > 0 /\ text[k] = "'"
    <3>1. k \in 1 .. n
      BY <1>1, <2>2
    <3>2. Quotes(text, k) % 2 = 0
      BY <1>4, <2>2, <3>1 DEF Paired, n
    <3> QED
      BY <1>4, <3>2 DEF Good
  <2>3. CASE k > 0 /\ text[k] # "'"
    <3>1. k \in 1 .. n /\ k - 1 \in 0 .. n
      BY <1>1, <2>3
    <3>2. h[k - 1] \in Acc(S) /\ text[k] \in S /\ h[k] = Unpair(h[k - 1], text[k])
      BY <1>1, <1>2, <3>1
    <3>3. h[k] = [text |-> Append(h[k - 1].text, text[k]), open |-> FALSE]
      BY <2>3, <3>2, UnpairIs
    <3> QED
      BY <3>3
  <2>4. k = 0 \/ k > 0
    BY <1>1
  <2> QED
    BY <2>1, <2>2, <2>3, <2>4
<1>5. 0 \in T
  <2>1. << >> \in Seq(S) /\ Len(<< >>) = 0
    OBVIOUS
  <2>2. Redouble(<< >>) = << >>
    BY <2>1, RedoubleLoop
  <2>3. SubSeq(text, 1, 0) = << >>
    BY SubSeqEmpty
  <2>4. h[0].open = FALSE /\ h[0].text = << >>
    BY <1>2
  <2>5. Quotes(text, 0) % 2 = 0
    BY QuotesStep
  <2>6. << >> \o << >> = << >>
    BY <2>1, ConcatEmptySeq
  <2>7. Redouble(h[0].text) = SubSeq(text, 1, 0) \o Rest(h[0].open)
    BY <2>2, <2>3, <2>4, <2>6
  <2>8. Good(0)
    BY <2>4, <2>5, <2>7 DEF Good
  <2> QED
    BY <2>8 DEF T
<1>6. ASSUME NEW k \in Nat, k \in T
      PROVE  k + 1 \in T
  <2>1. ASSUME k + 1 <= n
        PROVE  Good(k + 1)
    <3> DEFINE s == text[k + 1]
               X == SubSeq(text, 1, k)
    <3>1. k \in 0 .. n /\ k + 1 \in 0 .. n /\ k + 1 \in 1 .. n /\ (k + 1) - 1 = k /\ k < n
      BY <1>1, <2>1
    <3>2. Good(k)
      BY <1>6, <3>1 DEF T
    <3>3. /\ s \in S /\ h[k] \in Acc(S) /\ h[k].text \in Seq(S) /\ h[k].open \in BOOLEAN
          /\ h[k + 1] = Unpair(h[k], s)
      BY <1>1, <1>2, <1>3, <3>1
    <3>4. X \in Seq(S) /\ <<s>> \in Seq(S) /\ SubSeq(text, 1, k + 1) = X \o <<s>>
      <4>1. SubSeq(text, 1, k + 1) = SubSeq(text, 1, (k + 1) - 1) \o <<text[k + 1]>>
        BY <3>1, SubSeqRecursiveSecond DEF n
      <4>2. \A i \in 1 .. k : text[i] \in S
        BY <1>1, <3>1
      <4>3. X \in Seq(S)
        BY <4>2, SubSeqProperties
      <4> QED
        BY <3>1, <3>3, <4>1, <4>3
    <3>5. Quotes(text, k) \in Nat
      BY QuotesStep
    <3>6. CASE s = "'" /\ h[k].open = TRUE
      <4>1. h[k + 1].text = h[k].text /\ h[k + 1].open = FALSE
        <5>1. h[k + 1] = [h[k] EXCEPT !.open = FALSE]
          BY <3>3, <3>6 DEF Unpair
        <5> QED
          BY <3>3, <5>1 DEF Acc
      <4>2. Quotes(text, k + 1) = Quotes(text, k) + 1 /\ Quotes(text, k) % 2 = 1
        BY <3>2, <3>6, QuotesStep DEF Good
      <4>3. Quotes(text, k + 1) % 2 = 0
        BY <3>5, <4>2
      <4>4. Redouble(h[k + 1].text) = (X \o <<s>>) \o << >>
        BY <3>2, <3>4, <3>6, <4>1, ConcatProperties, ConcatEmptySeq DEF Good
      <4> QED
        BY <3>4, <4>1, <4>3, <4>4 DEF Good
    <3>7. CASE s = "'" /\ h[k].open = FALSE
      <4>1. h[k + 1].text = Append(h[k].text, s) /\ h[k + 1].open = TRUE
        <5>1. h[k + 1] = [text |-> Append(h[k].text, s), open |-> TRUE]
          BY <3>3, <3>7, UnpairIs
        <5> QED
          BY <5>1
      <4>2. Quotes(text, k + 1) = Quotes(text, k) + 1 /\ Quotes(text, k) % 2 # 1
        BY <3>2, <3>7, QuotesStep DEF Good
      <4>3. Quotes(text, k + 1) % 2 = 1
        BY <3>5, <4>2
      <4>4. Redouble(h[k].text) = X
        BY <3>2, <3>4, <3>7, ConcatEmptySeq DEF Good
      <4>5. Redouble(h[k + 1].text) = X \o <<s, s>>
        BY <3>3, <3>7, <4>1, <4>4, RedoubleAppend DEF Doubled
      <4>6. <<s, s>> = <<s>> \o <<s>>
        OBVIOUS
      <4>7. X \o <<s, s>> = (X \o <<s>>) \o <<s>>
        BY <3>4, <4>6, ConcatAssociative
      <4> QED
        BY <3>4, <3>7, <4>1, <4>3, <4>5, <4>7 DEF Good
    <3>8. CASE s # "'"
      <4>1. h[k].open = FALSE
        BY <1>4, <3>1, <3>2, <3>8
      <4>2. h[k + 1].text = Append(h[k].text, s) /\ h[k + 1].open = FALSE
        <5>1. h[k + 1] = [text |-> Append(h[k].text, s), open |-> FALSE]
          BY <3>3, <3>8, UnpairIs
        <5> QED
          BY <5>1
      <4>3. Quotes(text, k + 1) = Quotes(text, k) /\ Quotes(text, k) % 2 # 1
        BY <3>2, <3>8, <4>1, QuotesStep DEF Good
      <4>4. Redouble(h[k].text) = X
        BY <3>2, <3>4, <4>1, ConcatEmptySeq DEF Good
      <4>5. Redouble(h[k + 1].text) = X \o <<s>>
        BY <3>3, <3>8, <4>2, <4>4, RedoubleAppend DEF Doubled
      <4>6. (X \o <<s>>) \o << >> = X \o <<s>>
        BY <3>4, ConcatProperties, ConcatEmptySeq
      <4> QED
        BY <3>4, <4>2, <4>3, <4>5, <4>6 DEF Good
    <3> QED
      BY <3>3, <3>6, <3>7, <3>8
  <2>2. k + 1 \in Nat
    OBVIOUS
  <2> QED
    BY <2>1, <2>2 DEF T
<1>7. n \in T
  BY <1>1, <1>5, <1>6, SetInduction
<1>8. Good(n)
  BY <1>1, <1>7 DEF T
<1>9. h[n].open = FALSE
  BY <1>1, <1>4, <1>8
<1>10. Redouble(h[n].text) = SubSeq(text, 1, n)
  <2>1. SubSeq(text, 1, n) \in Seq(S)
    BY SubSeqFull DEF n
  <2> QED
    BY <1>8, <1>9, <2>1, ConcatEmptySeq DEF Good
<1> QED
  BY <1>2, <1>10, SubSeqFull DEF n

\* Undouble returns a text.
LEMMA UndoubleType ==
    ASSUME NEW S, NEW text \in Seq(S)
    PROVE  Undouble(text) \in Seq(S)
<1>1. PICK h \in [0 .. Len(text) -> Acc(S)] : h[Len(text)].text = Undouble(text)
  BY UndoubleLoop
<1>2. h[Len(text)] \in Acc(S)
  OBVIOUS
<1> QED
  BY <1>1, <1>2 DEF Acc

-----------------------------------------------------------------------------
(* Types.                                                                    *)

\* The line feeds of a text are a number.
LEMMA LineFeedsType ==
    ASSUME NEW text \in Seq(Symbols)
    PROVE  LineFeeds(text) \in Nat
<1> DEFINE feeds == {i \in DOMAIN text : text[i] = "LF"}
<1>1. IsFiniteSet(1 .. Len(text)) /\ feeds \in SUBSET (1 .. Len(text))
  BY FS_Interval
<1>2. IsFiniteSet(feeds)
  BY <1>1, FS_Subset
<1> QED
  BY <1>2, FS_CardinalityType DEF LineFeeds

\* One element more at the end of a sequence.
LEMMA OneMore ==
    ASSUME NEW S, NEW s \in Seq(S), NEW e \in S
    PROVE  /\ s \o <<e>> \in Seq(S) /\ s \o <<e>> # << >>
           /\ Len(s \o <<e>>) = Len(s) + 1
           /\ \A k \in 1 .. Len(s) : (s \o <<e>>)[k] = s[k]
           /\ (s \o <<e>>)[Len(s) + 1] = e
<1>1. Append(s, e) = s \o <<e>>
  OBVIOUS
<1> QED
  BY <1>1, AppendProperties

\* A node that _set_node has just appended.
LEMMA UnassignedType == Unassigned \in Node
<1>1. "TK_UNASSIGNED_TOKEN" \in token_t \cup {"garbage"}
  BY DEF token_t
<1>2. NULL \in Seq(Symbols) \cup {NULL}
  BY Zenon
<1>3. 0 \in Nat /\ 1 \in Nat
  OBVIOUS
<1> QED
  BY <1>1, <1>2, <1>3, Zenon DEF Unassigned, Node

\* What _set_node makes of the last node.
NodeOf(ns, token, value, count, from, to) ==
    LET n == Len(ns)
    IN  [token |-> token, value |-> value, count |-> count,
         line |-> IF ns[n].line = 0 THEN IF n > 1 THEN ns[n - 1].line ELSE 1
                  ELSE ns[n].line,
         from |-> from, to |-> to]

\* The nodes before the last one, the last one filled in, and with memory a
\* new one.
Filled(ns, ms, node, ok) ==
    /\ ms \in Seq(Node) /\ ms # << >>
    /\ Len(ms) = IF ok = TRUE THEN Len(ns) + 1 ELSE Len(ns)
    /\ \A k \in 1 .. Len(ns) - 1 : ms[k] = ns[k]
    /\ ms[Len(ns)] = node
    /\ ok = TRUE => ms[Len(ns) + 1] = Unassigned

\* That is what _set_node leaves of the list.
LEMMA SetFills ==
    ASSUME NEW ns \in Seq(Node), ns # << >>, NEW token \in token_t,
           NEW value \in Seq(Symbols) \cup {NULL}, NEW count \in Nat, NEW from \in Nat,
           NEW to \in Nat, NEW ok \in BOOLEAN
    PROVE  Filled(ns, Set(ns, token, value, count, from, to, ok),
                  NodeOf(ns, token, value, count, from, to), ok)
<1> DEFINE n == Len(ns)
           ms == Set(ns, token, value, count, from, to, ok)
           front == SubSeq(ns, 1, n - 1)
           line == IF ns[n].line = 0 THEN IF n > 1 THEN ns[n - 1].line ELSE 1
                   ELSE ns[n].line
           filled == [token |-> token, value |-> value, count |-> count,
                      line |-> line, from |-> from, to |-> to]
           tail == IF ok THEN <<Unassigned>> ELSE << >>
<1>1. n \in Nat /\ n > 0 /\ \A k \in 1 .. n : ns[k] \in Node
  OBVIOUS
<1> HIDE DEF n
<1>2. /\ front \in Seq(Node) /\ Len(front) = n - 1
      /\ \A k \in 1 .. n - 1 : front[k] = ns[k]
  <2>1. \A k \in 1 .. n - 1 : ns[k] \in Node
    BY <1>1
  <2> QED
    BY <1>1, <2>1, SubSeqProperties
<1>3. line \in Nat
  <2>1. ns[n] \in Node /\ (n > 1 => ns[n - 1] \in Node)
    BY <1>1
  <2> QED
    BY <2>1 DEF Node
<1>4. ms = (front \o <<filled>>) \o tail
  BY DEF Set, Last, Front, n
<1> HIDE DEF ms, front, line
<1>5. filled \in Node
  BY <1>3 DEF Node
<1> HIDE DEF filled
<1>6. LET fs == front \o <<filled>>
      IN  /\ fs \in Seq(Node) /\ fs # << >> /\ Len(fs) = n
          /\ \A k \in 1 .. n - 1 : fs[k] = ns[k]
          /\ fs[n] = filled
  BY <1>1, <1>2, <1>5, OneMore
<1>7. CASE ok = TRUE
  <2> DEFINE fs == front \o <<filled>>
  <2>1. ms = fs \o <<Unassigned>>
    BY <1>4, <1>7
  <2>2. /\ ms \in Seq(Node) /\ ms # << >> /\ Len(ms) = n + 1
        /\ \A k \in 1 .. n : ms[k] = fs[k]
        /\ ms[n + 1] = Unassigned
    <3> HIDE DEF fs
    <3> QED
      BY <1>6, <2>1, OneMore, UnassignedType DEF fs
  <2>3. ms[n] = filled /\ \A k \in 1 .. n - 1 : ms[k] = ns[k]
    <3>1. n \in 1 .. n /\ \A k \in 1 .. n - 1 : k \in 1 .. n
      BY <1>1
    <3>2. fs[n] = filled /\ \A k \in 1 .. n - 1 : fs[k] = ns[k]
      BY <1>6
    <3> HIDE DEF fs
    <3> QED
      BY <2>2, <3>1, <3>2
  <2> QED
    BY <1>1, <1>7, <2>2, <2>3 DEF filled, line, Filled, NodeOf, ms, n
<1>8. CASE ok = FALSE
  <2>1. ms = front \o <<filled>>
    BY <1>4, <1>6, <1>8, ConcatEmptySeq
  <2> QED
    BY <1>1, <1>6, <1>8, <2>1 DEF filled, line, Filled, NodeOf, ms, n
<1> QED
  BY <1>7, <1>8

-----------------------------------------------------------------------------
(* Positions.                                                                *)

\* How many numbers from a to p are in S.
Count(S, a, p) == Cardinality({k \in a .. p : k \in S})

\* The members of a set up to a number, number by number.
LEMMA CountStep ==
    ASSUME NEW S, NEW a \in Nat, NEW p \in Nat, a <= p + 1
    PROVE  /\ Count(S, a, p) \in Nat
           /\ Count(S, a, p + 1) = IF p + 1 \in S THEN Count(S, a, p) + 1 ELSE Count(S, a, p)
<1> DEFINE C(q) == {k \in a .. q : k \in S}
<1>1. IsFiniteSet(C(p))
  <2>1. IsFiniteSet(a .. p) /\ C(p) \in SUBSET (a .. p)
    BY FS_Interval
  <2> QED
    BY <2>1, FS_Subset
<1>2. Count(S, a, p) \in Nat
  BY <1>1, FS_CardinalityType DEF Count
<1>3. CASE p + 1 \in S
  <2>1. C(p + 1) = C(p) \cup {p + 1} /\ p + 1 \notin C(p)
    BY <1>3
  <2> HIDE DEF C
  <2>2. Cardinality(C(p + 1)) = Cardinality(C(p)) + 1
    BY <1>1, <2>1, FS_AddElement
  <2> QED
    BY <1>2, <1>3, <2>2 DEF C, Count
<1>4. CASE p + 1 \notin S
  <2>1. C(p + 1) = C(p)
    BY <1>4
  <2> QED
    BY <1>2, <1>4, <2>1 DEF Count
<1> QED
  BY <1>3, <1>4

\* The quotes among the first p symbols of a part are at the positions of S,
\* counted from a.
QuotesAt(raw, p, S, a) == \A k \in 1 .. p : raw[k] = "'" <=> a + k \in S

\* Counting the quotes of a part of a text is counting them in the text.
LEMMA QuotesOfPart ==
    ASSUME NEW raw, NEW S, NEW a \in Nat, NEW p \in Nat,
           QuotesAt(raw, p, S, a)
    PROVE  Quotes(raw, p) = Count(S, a + 1, a + p)
<1> DEFINE T == {i \in Nat : i <= p => Quotes(raw, i) = Count(S, a + 1, a + i)}
<1>1. 0 \in T
  <2>1. {k \in a + 1 .. a + 0 : k \in S} = {}
    OBVIOUS
  <2>2. Quotes(raw, 0) = Count(S, a + 1, a + 0)
    BY <2>1, QuotesStep, FS_EmptySet DEF Count
  <2> QED
    BY <2>2
<1>2. ASSUME NEW i \in Nat, i \in T
      PROVE  i + 1 \in T
  <2>1. ASSUME i + 1 <= p
        PROVE  Quotes(raw, i + 1) = Count(S, a + 1, a + (i + 1))
    <3>1. /\ i <= p /\ i + 1 \in 1 .. p /\ a + (i + 1) = (a + i) + 1
          /\ a + i \in Nat /\ a + 1 \in Nat /\ a + 1 <= (a + i) + 1
      BY <2>1
    <3>2. Quotes(raw, i) = Count(S, a + 1, a + i)
      BY <1>2, <3>1
    <3>3. Count(S, a + 1, (a + i) + 1) = IF (a + i) + 1 \in S THEN Count(S, a + 1, a + i) + 1
                                         ELSE Count(S, a + 1, a + i)
      BY <3>1, CountStep
    <3>4. Quotes(raw, i + 1) = IF raw[i + 1] = "'" THEN Quotes(raw, i) + 1 ELSE Quotes(raw, i)
      BY QuotesStep
    <3>5. raw[i + 1] = "'" <=> (a + i) + 1 \in S
      BY <3>1 DEF QuotesAt
    <3>6. CASE raw[i + 1] = "'"
      BY <3>1, <3>2, <3>3, <3>4, <3>5, <3>6
    <3>7. CASE raw[i + 1] # "'"
      BY <3>1, <3>2, <3>3, <3>4, <3>5, <3>7
    <3> QED
      BY <3>6, <3>7
  <2>2. i + 1 \in Nat
    OBVIOUS
  <2> QED
    BY <2>1, <2>2
<1>3. p \in T
  <2> HIDE DEF T
  <2> QED
    BY <1>1, <1>2, SetInduction
<1>4. p <= p
  OBVIOUS
<1> QED
  BY <1>3, <1>4

\* A part of the text is a text.
LEMMA PartIs ==
    ASSUME TypeOK, NEW i \in Nat \ {0}, NEW j \in Nat, i <= j + 1, j <= Len(input)
    PROVE  LET part == SubSeq(input, i, j)
           IN  /\ part \in Seq(Symbols) /\ Len(part) = j + 1 - i
               /\ \A k \in 1 .. j + 1 - i : part[k] = input[i + k - 1]
<1>1. input \in Seq(Symbols)
  BY DEF TypeOK
<1>2. \A k \in i .. j : input[k] \in Symbols
  BY <1>1
<1> QED
  BY <1>1, <1>2, SubSeqProperties

\* The string that is opened at ix ends behind it, and its quotes are pairs.
LEMMA StringEndIs ==
    ASSUME TypeOK, ix <= Len(input), NEW last, last = StringEnd
    PROVE  /\ last \in ix + 1 .. Len(input) + 1
           /\ SubSeq(input, ix + 1, last - 1) \in Seq(Symbols)
           /\ Paired(SubSeq(input, ix + 1, last - 1))
<1> DEFINE n == Len(input)
           S == {k \in Nat : Sym(k) = "'"}
           quotes(p) == Cardinality({k \in ix + 1 .. p : Sym(k) = "'"})
           closing == {p \in ix + 1 .. n : Sym(p) = "'" /\ Sym(p + 1) # "'" /\ quotes(p) % 2 = 1}
           raw == SubSeq(input, ix + 1, last - 1)
<1>1. n \in Nat /\ ix \in Nat /\ ix > 0 /\ input \in Seq(Symbols)
  BY DEF TypeOK
<1>2. last = IF closing = {} THEN n + 1 ELSE Min(closing)
  BY DEF StringEnd
<1>3. \A p : quotes(p) = Count(S, ix + 1, p)
  <2>1. \A p : {k \in ix + 1 .. p : Sym(k) = "'"} = {k \in ix + 1 .. p : k \in S}
    BY <1>1
  <2> QED
    BY <2>1 DEF Count
<1>4. closing \in SUBSET Nat
  BY <1>1
<1>5. closing # {} => /\ last \in closing
                      /\ \A p \in closing : last <= p
  BY <1>2, <1>4, MinProperties
<1>6. \A p \in closing : p \in ix + 1 .. n /\ Sym(p) = "'" /\ quotes(p) % 2 = 1
  OBVIOUS
<1>7. \A p \in ix + 1 .. n : Sym(p) = "'" /\ Sym(p + 1) # "'" /\ quotes(p) % 2 = 1 => p \in closing
  OBVIOUS
<1> HIDE DEF closing, quotes, S
<1>8. last \in ix + 1 .. n + 1
  BY <1>1, <1>2, <1>5, <1>6
<1>9. /\ raw \in Seq(Symbols) /\ Len(raw) = last - 1 - ix
      /\ \A k \in 1 .. last - 1 - ix : raw[k] = input[ix + k]
  <2>1. ix + 1 \in Nat \ {0} /\ last - 1 \in Nat /\ ix + 1 <= (last - 1) + 1 /\ last - 1 <= Len(input)
    BY <1>1, <1>8
  <2>2. (last - 1) + 1 - (ix + 1) = last - 1 - ix /\ \A k \in Nat : (ix + 1) + k - 1 = ix + k
    BY <1>1, <1>8
  <2>3. LET part == SubSeq(input, ix + 1, last - 1)
        IN  /\ part \in Seq(Symbols) /\ Len(part) = (last - 1) + 1 - (ix + 1)
            /\ \A k \in 1 .. (last - 1) + 1 - (ix + 1) : part[k] = input[(ix + 1) + k - 1]
    BY <2>1, PartIs
  <2> HIDE DEF raw
  <2>4. /\ raw \in Seq(Symbols) /\ Len(raw) = last - 1 - ix
        /\ \A k \in 1 .. last - 1 - ix : raw[k] = input[(ix + 1) + k - 1]
    BY <2>2, <2>3 DEF raw
  <2>5. \A k \in 1 .. last - 1 - ix : k \in Nat
    BY <1>1, <1>8
  <2> QED
    BY <2>2, <2>4, <2>5
<1> HIDE DEF raw
<1>10. ASSUME NEW p \in 1 .. Len(raw), raw[p] = "'", p < Len(raw) => raw[p + 1] # "'"
       PROVE  Quotes(raw, p) % 2 = 0
  <2> DEFINE P == ix + p
  <2>1. /\ p \in Nat /\ P \in ix + 1 .. n /\ P < last /\ P \in Nat
        /\ p = Len(raw) <=> P + 1 = last
        /\ p < Len(raw) <=> P + 1 < last
    BY <1>1, <1>8, <1>9
  <2>2. \A k \in 1 .. p : raw[k] = Sym(ix + k) /\ ix + k \in Nat
    BY <1>1, <1>8, <1>9 DEF Sym
  <2>3. Quotes(raw, p) = quotes(P)
    <3>1. QuotesAt(raw, p, S, ix)
      BY <2>2 DEF S, QuotesAt
    <3>2. Quotes(raw, p) = Count(S, ix + 1, ix + p)
      BY <1>1, <2>1, <3>1, QuotesOfPart
    <3> QED
      BY <1>3, <3>2
  <2>4. Sym(P) = "'"
    BY <1>10, <2>1, <2>2
  <2>5. quotes(P) \in Nat
    BY <1>10, <2>1, <2>3, QuotesStep
  <2>6. CASE Sym(P + 1) # "'"
    <3>1. P \notin closing
      BY <1>1, <1>2, <1>5, <1>8, <2>1
    <3>2. quotes(P) % 2 # 1
      BY <1>7, <2>1, <2>4, <2>6, <3>1
    <3> QED
      BY <2>3, <2>5, <3>2
  <2>7. CASE Sym(P + 1) = "'"
    <3>1. P + 1 <= n
      BY <1>1, <2>1, <2>7 DEF Sym
    <3>2. P + 1 = last
      <4>1. ASSUME p < Len(raw) PROVE FALSE
        <5>1. p + 1 \in 1 .. Len(raw) /\ ix + (p + 1) = P + 1
          BY <1>1, <2>1, <4>1
        <5>2. raw[p + 1] = Sym(P + 1)
          BY <1>9, <3>1, <5>1 DEF Sym
        <5> QED
          BY <1>10, <2>7, <4>1, <5>2
      <4> QED
        BY <1>1, <1>8, <2>1, <4>1
    <3>3. closing # {} /\ last \in closing
      BY <1>1, <1>2, <1>5, <3>1, <3>2
    <3>4. quotes(P + 1) % 2 = 1
      BY <1>6, <3>2, <3>3
    <3>5. P + 1 \in S
      BY <2>1, <2>7 DEF S
    <3>6. quotes(P + 1) = quotes(P) + 1
      <4>1. ix + 1 \in Nat /\ ix + 1 <= P + 1
        BY <1>1, <2>1
      <4> QED
        BY <1>3, <2>1, <3>5, <4>1, CountStep
    <3> QED
      BY <2>3, <2>5, <3>4, <3>6
  <2> QED
    BY <2>6, <2>7
<1>11. Paired(raw)
  BY <1>10 DEF Paired
<1> QED
  BY <1>8, <1>9, <1>11 DEF raw

\* A number or a word ends in the text.
LEMMA WordEndIs ==
    ASSUME TypeOK, ix <= Len(input), NEW last, last = LastDigit \/ last = LastOfWord
    PROVE  last \in ix .. Len(input)
<1>1. Len(input) \in Nat /\ ix \in Nat /\ ix \in ix .. Len(input) /\ Len(input) \in ix .. Len(input)
  BY DEF TypeOK
<1>2. CASE last = LastDigit
  <2> DEFINE ends == {j \in ix .. Len(input) : ~IsDigit(j + 1)}
  <2>1. ends \in SUBSET Nat
    BY <1>1
  <2>2. ~IsDigit(Len(input) + 1)
    BY <1>1 DEF IsDigit, Sym, Digits
  <2>3. Len(input) \in ends
    BY <1>1, <2>2
  <2>4. Min(ends) \in ends
    BY <2>1, <2>3, MinProperties
  <2> QED
    BY <1>2, <2>4 DEF LastDigit
<1>3. CASE last = LastOfWord
  <2> DEFINE ends == {j \in ix .. Len(input) : IsSpace(j + 1) \/ IsEnd(j + 1)}
  <2>1. ends \in SUBSET Nat
    BY <1>1
  <2>2. IsEnd(Len(input) + 1)
    BY <1>1 DEF IsEnd
  <2>3. Len(input) \in ends
    BY <1>1, <2>2
  <2>4. Min(ends) \in ends
    BY <2>1, <2>3, MinProperties
  <2> QED
    BY <1>3, <2>4 DEF LastOfWord
<1> QED
  BY <1>2, <1>3

-----------------------------------------------------------------------------
(* What a step does, as far as tokens, values and positions are concerned.   *)

\* Nothing but what may be between two tokens, with the text as a parameter.
SymAt(text, i) == IF i <= Len(text) THEN text[i] ELSE "NUL"

Gap(text, i, j, extra) ==
    \A p \in i .. j :
        \/ SymAt(text, p) \in Spaces \cup {";"} \cup extra
        \/ \E q \in i .. p - 1, r \in p + 1 .. Len(text) :
              /\ SymAt(text, q) = ";" /\ SymAt(text, r) = "LF"
              /\ \A k \in q .. p : SymAt(text, k) # "LF"

\* The tokens that are set one at a time.
Singles == token_t \ {"TK_UNASSIGNED_TOKEN", "TK_QUOTE", "TK_STRING"}

\* Only the tokens that have a value are given one, and of them only a boolean
\* may have lost it.
Meant(token, value) ==
    /\ value # NULL => token \in Valued
    /\ value = NULL /\ token \in Valued => token = "TK_BOOLEAN"

At(ns, k, token, value, from, to) ==
    /\ ns[k].token = token /\ ns[k].value = value
    /\ ns[k].from = from /\ ns[k].to = to

Goes(i) == ix' = i /\ pc' = IF i > Len(input) THEN "done" ELSE "lexing"

CrashStep == pc' = "crashed" /\ nodes' = nodes /\ fails' = fails

FailStep == pc' = "failed" /\ nodes' = nodes /\ fails' > fails

\* No token.  Only lines may change.
SkipStep ==
    /\ \E i \in ix + 1 .. Len(input) + 1 : Goes(i) /\ Gap(input, ix, i - 1, {})
    /\ fails' = fails
    /\ Len(nodes') = Len(nodes)
    /\ \A k \in 1 .. Len(nodes) :
          At(nodes', k, nodes[k].token, nodes[k].value, nodes[k].from, nodes[k].to)

\* One token, in the last node.
TokenStep ==
    \E token \in Singles, value \in Seq(Symbols) \cup {NULL}, last \in ix .. Len(input),
       ok \in BOOLEAN :
        /\ \A k \in 1 .. Len(nodes) - 1 : nodes'[k] = nodes[k]
        /\ At(nodes', Len(nodes), token, value, ix, last)
        /\ Len(nodes') = IF ok = TRUE THEN Len(nodes) + 1 ELSE Len(nodes)
        /\ ok = TRUE => nodes'[Len(nodes) + 1] = Unassigned
        /\ ok = FALSE => fails' > fails
        /\ Meant(token, value)
        /\ fails' = fails => (value # NULL <=> token \in Valued)
        /\ \/ pc' = "failed" /\ fails' > fails
           \/ Goes(last + 1) /\ (ok = FALSE => last = ix /\ Sym(ix) = ",")

\* A string, in node m, with its quotes around it.  When the opening quote has
\* got no node of its own, m is the node it has been in.
StringStep ==
    \E m \in {Len(nodes), Len(nodes) + 1}, last \in ix + 1 .. Len(input) + 1,
       text \in Seq(Symbols) :
        /\ Redouble(text) = SubSeq(input, ix + 1, last - 1)
        /\ Sym(ix) = "'"
        /\ \A k \in 1 .. Len(nodes) - 1 : nodes'[k] = nodes[k]
        /\ m = Len(nodes) => fails' > fails
        /\ \/ /\ pc' = "failed" /\ fails' > fails
              /\ \A k \in Len(nodes) .. Len(nodes') :
                    nodes'[k].token = "TK_STRING" =>
                        At(nodes', k, "TK_STRING", text, ix + 1, last - 1)
           \/ /\ m = Len(nodes) + 1 => At(nodes', Len(nodes), "TK_QUOTE", NULL, ix, ix)
              /\ At(nodes', m, "TK_STRING", text, ix + 1, last - 1)
              /\ At(nodes', m + 1, "TK_QUOTE", NULL, last, last)
              /\ nodes'[m + 2] = Unassigned /\ Len(nodes') = m + 2
              /\ \/ last <= Len(input) /\ Goes(last + 1)
                 \/ last > Len(input) /\ ix' = Len(input) + 2 /\ pc' \in {"done", "crashed"}

\* What all steps have in common.
Stays == input' = input /\ fails' >= fails /\ TypeOK'

\* The position is in the text until the lexer is done.
Placed == /\ pc = "lexing" => ix <= Len(input)
          /\ pc = "done" => ix > Len(input)
          /\ pc = "failed" => fails > 0

\* What TypeOK says of each variable, as the steps need it.
LEMMA TypeFacts ==
    ASSUME TypeOK
    PROVE  /\ input \in Seq(Symbols) /\ root \in Root /\ ix \in Nat /\ ix > 0
           /\ lines \in Nat /\ lines > 0 /\ Len(input) \in Nat
           /\ nodes \in Seq(Node) /\ nodes # << >> /\ Len(nodes) \in Nat /\ Len(nodes) > 0
           /\ \A k \in 1 .. Len(nodes) : nodes[k] \in Node
           /\ fails \in Nat /\ fails <= MaxFails /\ MaxFails \in Nat
BY LexerAssumption DEF TypeOK

\* A crash is a step that stops the lexer and leaves its tokens alone.
LEMMA CrashIs ==
    ASSUME TypeOK, Crash
    PROVE  Stays /\ CrashStep
BY TypeFacts DEF TypeOK, Crash, Stays, CrashStep

\* A keyword is a token of one node without a value.
LEMMA KeywordTokens ==
    ASSUME NEW s \in DOMAIN Keywords
    PROVE  Keywords[s] \in Singles /\ Keywords[s] \notin Valued
BY DEF Keywords, Singles, Valued, token_t

\* A node of one token.
LEMMA OneNodeIs ==
    ASSUME TypeOK, NEW token \in Singles, NEW value \in Seq(Symbols) \cup {NULL},
           NEW last \in ix .. Len(input), NEW failed \in {0, 1}, Meant(token, value),
           failed = 0 => (value # NULL <=> token \in Valued),
           OneNode(token, value, last, failed)
    PROVE  Stays /\ (CrashStep \/ TokenStep)
<1>1. CASE Crash
  BY <1>1, CrashIs
<1>2. CASE ~Crash
  <2>1. PICK ok \in BOOLEAN :
          /\ Allocations(failed + Failed(ok))
          /\ nodes' = Set(nodes, token, value, 1, ix, last, ok)
          /\ \/ ok /\ Advance(last + 1) /\ UNCHANGED lines
             \/ ~ok /\ Fail
    BY <1>2 DEF OneNode
  <2> DEFINE n == Len(nodes)
             ms == Set(nodes, token, value, 1, ix, last, ok)
  <2>2. /\ input \in Seq(Symbols) /\ ix \in Nat /\ ix > 0 /\ last \in Nat /\ n \in Nat /\ n > 0
        /\ fails \in Nat /\ MaxFails \in Nat /\ Len(input) \in Nat
    BY TypeFacts
  <2>3. /\ ms \in Seq(Node) /\ ms # << >>
        /\ Len(ms) = IF ok = TRUE THEN n + 1 ELSE n
        /\ \A k \in 1 .. n - 1 : ms[k] = nodes[k]
        /\ At(ms, n, token, value, ix, last)
        /\ ok = TRUE => ms[n + 1] = Unassigned
    <3>1. /\ nodes \in Seq(Node) /\ nodes # << >> /\ token \in token_t /\ 1 \in Nat
          /\ ix \in Nat /\ last \in Nat
      BY <2>2, TypeFacts DEF Singles
    <3>2. Filled(nodes, ms, NodeOf(nodes, token, value, 1, ix, last), ok)
      BY <3>1, SetFills
    <3> HIDE DEF ms
    <3> QED
      BY <3>2 DEF At, Filled, NodeOf
  <2> HIDE DEF ms
  <2>4. nodes' = ms
    BY <2>1 DEF ms
  <2>5. fails' = fails + (failed + IF ok = TRUE THEN 0 ELSE 1) /\ fails' <= MaxFails
    BY <2>1 DEF Allocations, Failed
  <2>6. /\ fails' \in 0 .. MaxFails /\ fails' >= fails
        /\ ok = FALSE => fails' > fails
        /\ fails' = fails => failed = 0
    BY <2>2, <2>5
  <2>7. CASE ok = TRUE
    <3>1. Advance(last + 1) /\ UNCHANGED lines
      BY <2>1, <2>7
    <3>2. Goes(last + 1) /\ input' = input /\ root' = root /\ lines' = lines
      BY <3>1 DEF Advance, Goes, IsEnd
    <3>3. Stays
      BY <2>2, <2>3, <2>4, <2>6, <3>2 DEF Stays, TypeOK, Goes
    <3>4. TokenStep
      BY <2>3, <2>4, <2>6, <2>7, <3>2 DEF TokenStep
    <3> QED
      BY <3>3, <3>4
  <2>8. CASE ok = FALSE
    <3>1. pc' = "failed" /\ input' = input /\ root' = root /\ ix' = ix /\ lines' = lines
      BY <2>1, <2>8 DEF Fail
    <3>2. Stays
      BY <2>2, <2>3, <2>4, <2>6, <3>1 DEF Stays, TypeOK
    <3>3. TokenStep
      BY <2>3, <2>4, <2>6, <2>8, <3>1 DEF TokenStep
    <3> QED
      BY <3>2, <3>3
  <2> QED
    BY <2>7, <2>8
<1> QED
  BY <1>1, <1>2

\* The symbol at an index, of the input or of any text.
LEMMA SymIs == \A i : Sym(i) = SymAt(input, i)
BY DEF Sym, SymAt

\* The tokens are the same when only the line of the last node changes, or
\* nothing.
LEMMA SameTokens ==
    ASSUME TypeOK, NEW l \in Nat,
           nodes' = nodes \/ nodes' = [nodes EXCEPT ![Len(nodes)].line = l]
    PROVE  /\ nodes' \in Seq(Node) /\ nodes' # << >> /\ Len(nodes') = Len(nodes)
           /\ \A k \in 1 .. Len(nodes) :
                 At(nodes', k, nodes[k].token, nodes[k].value, nodes[k].from, nodes[k].to)
<1>1. CASE nodes' = nodes
  BY <1>1, TypeFacts DEF At
<1>2. CASE nodes' = [nodes EXCEPT ![Len(nodes)].line = l]
  <2> DEFINE n == Len(nodes)
             last == [nodes[n] EXCEPT !.line = l]
  <2>1. n \in 1 .. n /\ nodes \in Seq(Node) /\ n \in Nat
    BY TypeFacts
  <2>2. last \in Node /\ last.token = nodes[n].token /\ last.value = nodes[n].value
        /\ last.from = nodes[n].from /\ last.to = nodes[n].to
    <3>1. nodes[n] \in Node
      BY <2>1
    <3> QED
      BY <3>1 DEF Node
  <2>3. nodes' = [nodes EXCEPT ![n] = last]
    BY <1>2
  <2> HIDE DEF last
  <2>4. nodes' \in Seq(Node) /\ Len(nodes') = n /\ nodes'[n] = last
        /\ \A k \in 1 .. n : k # n => nodes'[k] = nodes[k]
    BY <2>1, <2>2, <2>3
  <2>5. nodes' # << >>
    BY <2>1, <2>4
  <2> QED
    BY <2>2, <2>4, <2>5 DEF At
<1> QED
  BY <1>1, <1>2

\* Comments, spaces and line feeds.
LEMMA SkipIs ==
    ASSUME TypeOK, Placed, pc = "lexing", Comment \/ Space \/ LineFeed
    PROVE  Stays /\ SkipStep
<1> DEFINE n == Len(input)
<1>1. /\ input \in Seq(Symbols) /\ ix \in Nat /\ ix > 0 /\ ix <= n /\ n \in Nat
      /\ lines \in Nat /\ lines > 0 /\ fails \in Nat /\ fails <= MaxFails
  BY TypeFacts DEF Placed
<1>2. ASSUME NEW i \in ix + 1 .. n + 1, Advance(i), Gap(input, ix, i - 1, {}),
             fails' = fails, lines' = lines \/ lines' = lines + 1,
             nodes' = nodes \/ nodes' = [nodes EXCEPT ![Len(nodes)].line = lines + 1]
      PROVE  Stays /\ SkipStep
  <2>1. /\ nodes' \in Seq(Node) /\ nodes' # << >> /\ Len(nodes') = Len(nodes)
        /\ \A k \in 1 .. Len(nodes) :
              At(nodes', k, nodes[k].token, nodes[k].value, nodes[k].from, nodes[k].to)
    <3>1. lines + 1 \in Nat
      BY <1>1
    <3> QED
      BY <1>2, <3>1, SameTokens
  <2>2. Goes(i) /\ input' = input /\ root' = root
    BY <1>2 DEF Advance, Goes, IsEnd
  <2>3. ix' \in Nat \ {0} /\ lines' \in Nat \ {0} /\ pc' \in {"lexing", "done"}
        /\ fails' \in 0 .. MaxFails /\ fails' >= fails
    BY <1>1, <1>2, <2>2 DEF Goes
  <2>4. Stays
    BY <2>1, <2>2, <2>3 DEF Stays, TypeOK
  <2>5. SkipStep
    BY <1>2, <2>1, <2>2 DEF SkipStep
  <2> QED
    BY <2>4, <2>5
<1>3. ASSUME SymAt(input, ix) \in Spaces \cup {";"}
      PROVE  ix + 1 \in ix + 1 .. n + 1 /\ Gap(input, ix, (ix + 1) - 1, {})
  <2>1. \A p \in ix .. (ix + 1) - 1 : p = ix
    BY <1>1
  <2>2. \A p \in ix .. (ix + 1) - 1 : SymAt(input, p) \in Spaces \cup {";"} \cup {}
    BY <1>3, <2>1
  <2>3. Gap(input, ix, (ix + 1) - 1, {})
    BY <2>2 DEF Gap
  <2> QED
    BY <1>1, <2>3
<1>4. CASE Space
  <2>1. Sym(ix) = " " /\ Advance(ix + 1) /\ lines' = lines /\ nodes' = nodes /\ fails' = fails
    BY <1>4 DEF Space, Lexing
  <2>2. SymAt(input, ix) \in Spaces \cup {";"}
    BY <2>1, SymIs DEF Spaces
  <2> QED
    BY <1>2, <1>3, <2>1, <2>2
<1>5. CASE LineFeed
  <2>1. /\ Sym(ix) = "LF" /\ Advance(ix + 1) /\ lines' = lines + 1 /\ fails' = fails
        /\ nodes' = [nodes EXCEPT ![Len(nodes)].line = lines + 1]
    BY <1>5 DEF LineFeed, Lexing
  <2>2. SymAt(input, ix) \in Spaces \cup {";"}
    BY <2>1, SymIs DEF Spaces
  <2> QED
    BY <1>2, <1>3, <2>1, <2>2
<1>6. CASE Comment
  <2> DEFINE feeds == {i \in ix .. n : Sym(i) = "LF"}
  <2>1. /\ Sym(ix) = ";" /\ lines' = lines /\ nodes' = nodes /\ fails' = fails
        /\ Advance(IF feeds = {} THEN ix + 1 ELSE Min(feeds))
    BY <1>6 DEF Comment, Lexing
  <2>2. SymAt(input, ix) \in Spaces \cup {";"}
    BY <2>1, SymIs
  <2>3. CASE feeds = {}
    <3>1. Advance(ix + 1)
      BY <2>1, <2>3
    <3> QED
      BY <1>2, <1>3, <2>1, <2>2, <3>1
  <2>4. CASE feeds # {}
    <3> DEFINE r == Min(feeds)
    <3>1. feeds \in SUBSET Nat
      BY <1>1
    <3>2. r \in feeds /\ \A x \in feeds : r <= x
      BY <2>4, <3>1, MinProperties
    <3> HIDE DEF r
    <3>3. r \in ix + 1 .. n /\ Sym(r) = "LF" /\ r \in Nat
      <4>1. r \in ix .. n /\ Sym(r) = "LF"
        BY <3>2
      <4>2. r # ix
        BY <2>1, <4>1
      <4> QED
        BY <1>1, <4>1, <4>2
    <3>4. ASSUME NEW k \in ix .. r - 1
          PROVE  SymAt(input, k) # "LF"
      <4>1. k \in ix .. n /\ ~ (r <= k)
        BY <1>1, <3>3
      <4> QED
        BY <3>2, <4>1, SymIs
    <3>5. ASSUME NEW p \in ix .. r - 1
          PROVE  \/ SymAt(input, p) \in Spaces \cup {";"} \cup {}
                 \/ \E q \in ix .. p - 1, z \in p + 1 .. n :
                       /\ SymAt(input, q) = ";" /\ SymAt(input, z) = "LF"
                       /\ \A k \in q .. p : SymAt(input, k) # "LF"
      <4>1. CASE p = ix
        BY <2>2, <4>1
      <4>2. CASE p # ix
        <5>1. ix \in ix .. p - 1 /\ r \in p + 1 .. n
          BY <1>1, <3>3, <4>2
        <5>2. \A k \in ix .. p : SymAt(input, k) # "LF"
          BY <1>1, <3>3, <3>4
        <5> QED
          BY <2>1, <3>3, <5>1, <5>2, SymIs
      <4> QED
        BY <4>1, <4>2
    <3>6. Gap(input, ix, r - 1, {})
      BY <3>5 DEF Gap
    <3>7. r \in ix + 1 .. n + 1
      BY <1>1, <3>3
    <3>8. Advance(r)
      BY <2>1, <2>4 DEF r
    <3> QED
      BY <1>2, <2>1, <3>6, <3>7, <3>8
  <2> QED
    BY <2>3, <2>4
<1> QED
  BY <1>4, <1>5, <1>6

\* Keywords, truth values, numbers, words and commas.
LEMMA TokenIs ==
    ASSUME TypeOK, Placed, pc = "lexing", Comma \/ Keyword \/ Truth \/ Number \/ Word
    PROVE  Stays /\ (CrashStep \/ FailStep \/ TokenStep)
<1> DEFINE n == Len(input)
<1>1. /\ input \in Seq(Symbols) /\ ix \in Nat /\ ix > 0 /\ ix <= n /\ n \in Nat /\ ix \in ix .. n
      /\ lines \in Nat /\ lines > 0 /\ fails \in Nat /\ fails <= MaxFails /\ MaxFails \in Nat
  BY TypeFacts DEF Placed
<1>2. /\ NULL \notin Seq(Symbols)
      /\ <<Sym(ix)>> \in Seq(Symbols)
      /\ \A last \in ix .. n : SubSeq(input, ix, last) \in Seq(Symbols)
  <2>1. NULL \notin Seq(Symbols)
    BY LexerAssumption
  <2>2. Sym(ix) \in Symbols
    BY <1>1 DEF Sym
  <2>3. ASSUME NEW last \in ix .. n
        PROVE  SubSeq(input, ix, last) \in Seq(Symbols)
    <3>1. ix \in Nat \ {0} /\ last \in Nat /\ ix <= last + 1 /\ last <= n
      BY <1>1
    <3> QED
      BY <3>1, PartIs
  <2> QED
    BY <2>1, <2>2, <2>3
<1>3. CASE Keyword
  <2>1. Sym(ix) \in DOMAIN Keywords /\ OneNode(Keywords[Sym(ix)], NULL, ix, 0)
    BY <1>3 DEF Keyword, AtKeyword
  <2>2. Keywords[Sym(ix)] \in Singles /\ Keywords[Sym(ix)] \notin Valued
    BY <2>1, KeywordTokens
  <2>3. Meant(Keywords[Sym(ix)], NULL)
    BY <2>2 DEF Meant
  <2> QED
    BY <1>1, <2>1, <2>2, <2>3, OneNodeIs
<1>4. CASE Truth
  <2>1. PICK ok \in BOOLEAN :
          OneNode("TK_BOOLEAN", IF ok THEN <<Sym(ix)>> ELSE NULL, ix, Failed(ok))
    BY <1>4 DEF Truth
  <2>2. "TK_BOOLEAN" \in Singles /\ "TK_BOOLEAN" \in Valued
    BY DEF Singles, Valued, token_t
  <2>3. CASE ok = TRUE
    <3>1. OneNode("TK_BOOLEAN", <<Sym(ix)>>, ix, 0) /\ <<Sym(ix)>> # NULL
      BY <1>2, <2>1, <2>3 DEF Failed
    <3>2. Meant("TK_BOOLEAN", <<Sym(ix)>>)
      BY <2>2, <3>1 DEF Meant
    <3> QED
      BY <1>1, <1>2, <2>2, <3>1, <3>2, OneNodeIs
  <2>4. CASE ok = FALSE
    <3>1. OneNode("TK_BOOLEAN", NULL, ix, 1)
      BY <2>1, <2>4 DEF Failed
    <3>2. 1 \in {0, 1} /\ NULL \in Seq(Symbols) \cup {NULL}
      BY Zenon
    <3>3. 1 = 0 => (NULL # NULL <=> "TK_BOOLEAN" \in Valued)
      OBVIOUS
    <3>4. Meant("TK_BOOLEAN", NULL)
      BY DEF Meant
    <3> QED
      BY <1>1, <2>2, <3>1, <3>2, <3>3, <3>4, OneNodeIs
  <2> QED
    BY <2>3, <2>4
<1>5. ASSUME NEW token \in Singles, token \in Valued, NEW last \in ix .. n,
             _extract_word(token, last)
      PROVE  Stays /\ (CrashStep \/ FailStep \/ TokenStep)
  <2>1. CASE OneNode(token, SubSeq(input, ix, last), last, 0)
    <3>1. SubSeq(input, ix, last) \in Seq(Symbols) /\ SubSeq(input, ix, last) # NULL
      BY <1>2
    <3>2. Meant(token, SubSeq(input, ix, last))
      BY <1>5, <3>1 DEF Meant
    <3> QED
      BY <1>5, <2>1, <3>1, <3>2, OneNodeIs
  <2>2. CASE Allocations(1) /\ Fail /\ UNCHANGED nodes
    <3>1. /\ fails' = fails + 1 /\ fails' <= MaxFails /\ pc' = "failed" /\ nodes' = nodes
          /\ input' = input /\ root' = root /\ ix' = ix /\ lines' = lines
      BY <2>2 DEF Allocations, Fail
    <3>2. fails' > fails /\ fails' >= fails /\ fails' \in 0 .. MaxFails
      BY <1>1, <3>1
    <3> QED
      BY <1>1, <3>1, <3>2, TypeFacts DEF Stays, TypeOK, FailStep
  <2> QED
    BY <1>5, <2>1, <2>2 DEF _extract_word
<1>6. CASE Number
  <2>1. "TK_NUMBER" \in Singles /\ "TK_NUMBER" \in Valued
    BY DEF Singles, Valued, token_t
  <2> QED
    BY <1>1, <1>5, <1>6, <2>1, WordEndIs DEF Number
<1>7. CASE Word
  <2>1. "TK_UNKNOWN" \in Singles /\ "TK_UNKNOWN" \in Valued
    BY DEF Singles, Valued, token_t
  <2> QED
    BY <1>1, <1>5, <1>7, <2>1, WordEndIs DEF Word
<1>8. CASE Comma /\ Crash
  BY <1>8, CrashIs
<1>9. CASE Comma /\ ~Crash
  <2> DEFINE m == Len(nodes)
  <2>1. PICK ok \in BOOLEAN :
          /\ Sym(ix) = ","
          /\ Allocations(Failed(ok))
          /\ nodes' = Set(nodes, "TK_COMMA", NULL, 1, ix, ix, ok)
          /\ Advance(ix + 1) /\ lines' = lines
    BY <1>9 DEF Comma, Lexing
  <2>2. "TK_COMMA" \in Singles /\ "TK_COMMA" \notin Valued /\ "TK_COMMA" \in token_t
    BY DEF Singles, Valued, token_t
  <2>12. Meant("TK_COMMA", NULL)
    BY <2>2 DEF Meant
  <2>3. Filled(nodes, nodes', NodeOf(nodes, "TK_COMMA", NULL, 1, ix, ix), ok)
    BY <1>1, <2>1, <2>2, SetFills, TypeFacts
  <2>4. fails' = fails + (IF ok = TRUE THEN 0 ELSE 1) /\ fails' <= MaxFails
    BY <2>1 DEF Allocations, Failed
  <2>5. /\ fails' \in 0 .. MaxFails /\ fails' >= fails
        /\ ok = FALSE => fails' > fails
    BY <1>1, <2>4
  <2>6. Goes(ix + 1) /\ input' = input /\ root' = root
    BY <2>1 DEF Advance, Goes, IsEnd
  <2>7. ix' \in Nat \ {0} /\ pc' \in {"lexing", "done"} /\ lines' \in Nat \ {0}
    <3>1. ix' = ix + 1 /\ lines' = lines
      BY <2>1, <2>6 DEF Goes
    <3>2. pc' \in {"lexing", "done"}
      BY <2>6 DEF Goes
    <3> QED
      BY <1>1, <3>1, <3>2
  <2>8. nodes' \in Seq(Node) /\ nodes' # << >>
    BY <2>3 DEF Filled
  <2>9. Stays
    BY <1>1, <2>5, <2>6, <2>7, <2>8, TypeFacts DEF Stays, TypeOK
  <2>10. At(nodes', m, "TK_COMMA", NULL, ix, ix)
    BY <2>3 DEF Filled, At, NodeOf
  <2>11. TokenStep
    BY <1>1, <2>1, <2>2, <2>3, <2>5, <2>6, <2>10, <2>12 DEF TokenStep, Filled
  <2> QED
    BY <2>9, <2>11
<1> QED
  BY <1>3, <1>4, <1>6, <1>7, <1>8, <1>9

\* What the three calls of _set_node make of the list: the opening quote, the
\* string, from which the closing quote follows.
LEMMA StringIs ==
    ASSUME TypeOK, Placed, pc = "lexing", String
    PROVE  Stays /\ (CrashStep \/ StringStep)
<1> DEFINE n == Len(nodes)
           size == Len(input)
<1>1. /\ input \in Seq(Symbols) /\ ix \in Nat /\ ix > 0 /\ ix <= size /\ size \in Nat
      /\ lines \in Nat /\ lines > 0 /\ fails \in Nat /\ fails <= MaxFails /\ MaxFails \in Nat
      /\ nodes \in Seq(Node) /\ nodes # << >> /\ n \in Nat /\ n > 0
  BY TypeFacts DEF Placed
<1>2. CASE Crash
  BY <1>2, CrashIs
<1>3. CASE ~Crash
  <2> DEFINE last == StringEnd
             raw == SubSeq(input, ix + 1, last - 1)
             feeds == LineFeeds(raw)
             value == Undouble(raw)
             Open(openOk) == Set(nodes, "TK_QUOTE", NULL, 1, ix, ix, openOk)
             Text(openOk, lost) == Set(Open(openOk), "TK_STRING", value, feeds, ix + 1, last - 1,
                                       lost # "string")
             AtQuote(openOk, lost) == Set(Text(openOk, lost), "TK_QUOTE", NULL, 1, last, last,
                                         lost # "close")
  <2>1. PICK openOk \in BOOLEAN, lost \in {"none", "buffer", "string", "close"} :
          /\ Allocations(Failed(openOk) + Failed(lost = "none"))
          /\ nodes' = CASE lost = "buffer" -> Open(openOk)
                        [] lost = "string" -> Text(openOk, lost)
                        [] OTHER           -> AtQuote(openOk, lost)
          /\ \/ lost # "none" /\ Fail
             \/ /\ lost = "none"
                /\ lines' = lines + feeds
                /\ \/ last <= Len(input) /\ Advance(last + 1)
                   \/ last > Len(input) /\ ReadBeyond
    BY <1>3 DEF String
  <2> DEFINE open == Open(openOk)
             text == Text(openOk, lost)
             closed == AtQuote(openOk, lost)
             m == Len(open)
  <2>2. Sym(ix) = "'"
    BY <1>3 DEF String, Lexing
  <2>3. /\ last \in ix + 1 .. size + 1 /\ raw \in Seq(Symbols) /\ Paired(raw)
        /\ last \in Nat /\ last - 1 \in Nat /\ ix + 1 \in Nat
    <3>1. last \in ix + 1 .. size + 1 /\ raw \in Seq(Symbols) /\ Paired(raw)
      BY <1>1, StringEndIs
    <3> HIDE DEF last
    <3> QED
      BY <1>1, <3>1
  <2> HIDE DEF last, raw
  <2>4. value \in Seq(Symbols) /\ Redouble(value) = raw /\ feeds \in Nat
    <3>1. "'" \in Symbols
      BY DEF Symbols
    <3> QED
      BY <2>3, <3>1, UndoubleType, RedoubleUndouble, LineFeedsType
  <2> HIDE DEF value, feeds
  <2>5. /\ NULL \in Seq(Symbols) \cup {NULL} /\ value \in Seq(Symbols) \cup {NULL}
        /\ "TK_QUOTE" \in token_t /\ "TK_STRING" \in token_t /\ 1 \in Nat
    BY <2>4 DEF token_t
  <2>6. Filled(nodes, open, NodeOf(nodes, "TK_QUOTE", NULL, 1, ix, ix), openOk)
    BY <1>1, <2>5, SetFills
  <2>7. /\ open \in Seq(Node) /\ open # << >> /\ m \in Nat
        /\ m = IF openOk = TRUE THEN n + 1 ELSE n
        /\ \A k \in 1 .. n - 1 : open[k] = nodes[k]
        /\ At(open, n, "TK_QUOTE", NULL, ix, ix)
        /\ openOk = TRUE => open[n + 1] = Unassigned
    <3> HIDE DEF Open
    <3> QED
      BY <1>1, <2>6 DEF Filled, At, NodeOf
  <2> HIDE DEF Open
  <2>8. Filled(open, text, NodeOf(open, "TK_STRING", value, feeds, ix + 1, last - 1),
               lost # "string")
    BY <2>3, <2>4, <2>5, <2>7, SetFills
  <2>9. /\ text \in Seq(Node) /\ text # << >>
        /\ Len(text) = IF lost # "string" THEN m + 1 ELSE m
        /\ \A k \in 1 .. m - 1 : text[k] = open[k]
        /\ At(text, m, "TK_STRING", value, ix + 1, last - 1)
        /\ lost # "string" => text[m + 1] = Unassigned
    <3> HIDE DEF Text, open
    <3> QED
      BY <2>7, <2>8 DEF Filled, At, NodeOf
  <2> HIDE DEF Text
  <2>10. Filled(text, closed, NodeOf(text, "TK_QUOTE", NULL, 1, last, last), lost # "close")
    BY <2>3, <2>5, <2>9, SetFills
  <2>11. ASSUME lost # "string"
         PROVE  /\ closed \in Seq(Node) /\ closed # << >>
                /\ Len(closed) = IF lost # "close" THEN m + 2 ELSE m + 1
                /\ \A k \in 1 .. m : closed[k] = text[k]
                /\ At(closed, m + 1, "TK_QUOTE", NULL, last, last)
                /\ lost # "close" => closed[m + 2] = Unassigned
    <3>1. Len(text) = m + 1
      BY <2>9, <2>11
    <3> HIDE DEF AtQuote, text, m
    <3> QED
      BY <2>7, <2>10, <3>1 DEF Filled, At, NodeOf
  <2> HIDE DEF AtQuote
  <2>12. /\ fails' = fails + ((IF openOk = TRUE THEN 0 ELSE 1) + (IF lost = "none" THEN 0 ELSE 1))
         /\ fails' <= MaxFails
    BY <2>1 DEF Allocations, Failed
  <2>13. /\ fails' \in 0 .. MaxFails /\ fails' >= fails
         /\ openOk = FALSE => fails' > fails
         /\ lost # "none" => fails' > fails
    BY <1>1, <2>12
  <2> HIDE DEF open, text, closed
  <2>14. /\ lost = "buffer" => nodes' = open
         /\ lost = "string" => nodes' = text
         /\ lost = "close" \/ lost = "none" => nodes' = closed
    BY <2>1 DEF open, text, closed
  <2>15. nodes' \in Seq(Node) /\ nodes' # << >>
    BY <2>7, <2>9, <2>11, <2>14
  <2>16. m \in {n, n + 1} /\ m >= n /\ (m = n => fails' > fails)
    BY <1>1, <2>7, <2>13
  <2> HIDE DEF m
  <2>17. /\ \A k \in 1 .. n - 1 : nodes'[k] = nodes[k]
         /\ m = n + 1 /\ lost # "buffer" => At(nodes', n, "TK_QUOTE", NULL, ix, ix)
    <3>1. \A k \in 1 .. n - 1 : k \in 1 .. m - 1 /\ k \in 1 .. m
      BY <1>1, <2>16
    <3>2. m = n + 1 => n \in 1 .. m - 1 /\ n \in 1 .. m
      BY <1>1
    <3>3. /\ \A k \in 1 .. n - 1 : text[k] = nodes[k]
          /\ m = n + 1 => At(text, n, "TK_QUOTE", NULL, ix, ix)
      BY <2>7, <2>9, <3>1, <3>2 DEF At
    <3>4. lost # "string" => /\ \A k \in 1 .. n - 1 : closed[k] = nodes[k]
                             /\ m = n + 1 => At(closed, n, "TK_QUOTE", NULL, ix, ix)
      BY <2>11, <3>1, <3>2, <3>3 DEF At
    <3> QED
      BY <2>7, <2>14, <3>3, <3>4
  <2>18. CASE lost # "none"
    <3>1. pc' = "failed" /\ input' = input /\ root' = root /\ ix' = ix /\ lines' = lines
      BY <2>1, <2>18 DEF Fail
    <3>2. Stays
      BY <1>1, <2>13, <2>15, <3>1, TypeFacts DEF Stays, TypeOK
    <3>3. ASSUME NEW k \in n .. Len(nodes'), nodes'[k].token = "TK_STRING"
          PROVE  At(nodes', k, "TK_STRING", value, ix + 1, last - 1)
      <4>1. Unassigned.token # "TK_STRING"
        BY DEF Unassigned
      <4>2. \A j \in n .. m : open[j].token # "TK_STRING"
        <5>1. \A j \in n .. m : j = n \/ (j = n + 1 /\ m = n + 1)
          BY <1>1, <2>16
        <5> QED
          BY <1>1, <2>7, <4>1, <5>1 DEF At
      <4>3. \A j \in n .. m : j # m => text[j].token # "TK_STRING"
        <5>1. \A j \in n .. m : j # m => j \in 1 .. m - 1
          BY <1>1, <2>7
        <5> QED
          BY <2>9, <4>2, <5>1
      <4>4. CASE lost = "buffer"
        BY <2>7, <2>14, <3>3, <4>2, <4>4 DEF m
      <4>5. CASE lost = "string"
        <5>1. k \in n .. m /\ nodes' = text
          BY <2>9, <2>14, <3>3, <4>5
        <5> QED
          BY <2>9, <3>3, <4>3, <5>1
      <4>6. CASE lost = "close"
        <5>1. /\ k \in n .. m + 1 /\ nodes' = closed /\ Len(closed) = m + 1
              /\ At(closed, m + 1, "TK_QUOTE", NULL, last, last)
              /\ \A j \in 1 .. m : closed[j] = text[j]
          BY <2>11, <2>14, <3>3, <4>6
        <5>2. k # m + 1
          BY <3>3, <5>1 DEF At
        <5>3. k \in n .. m /\ k \in 1 .. m
          BY <1>1, <2>7, <5>1, <5>2
        <5>4. k = m
          BY <3>3, <4>3, <5>1, <5>3
        <5> QED
          BY <2>9, <5>1, <5>3, <5>4 DEF At
      <4> QED
        BY <2>18, <4>4, <4>5, <4>6
    <3>4. StringStep
      BY <2>2, <2>3, <2>4, <2>13, <2>16, <2>17, <2>18, <3>1, <3>3 DEF StringStep, raw
    <3> QED
      BY <3>2, <3>4
  <2>19. CASE lost = "none"
    <3>1. /\ nodes' = closed /\ Len(closed) = m + 2
          /\ At(nodes', m, "TK_STRING", value, ix + 1, last - 1)
          /\ At(nodes', m + 1, "TK_QUOTE", NULL, last, last)
          /\ nodes'[m + 2] = Unassigned
      <4>1. m \in 1 .. m
        BY <1>1, <2>7, <2>16
      <4> QED
        BY <2>9, <2>11, <2>14, <2>19, <4>1 DEF At
    <3>2. /\ lines' = lines + feeds /\ input' = input /\ root' = root
          /\ \/ last <= Len(input) /\ Goes(last + 1)
             \/ last > Len(input) /\ ix' = Len(input) + 2 /\ pc' \in {"done", "crashed"}
      BY <2>1, <2>19 DEF Advance, Goes, IsEnd, ReadBeyond
    <3>3. pc' \in {"lexing", "done", "crashed"}
      BY <3>2 DEF Goes
    <3>4. ix' \in Nat \ {0} /\ lines' \in Nat \ {0}
      <4>1. ix' = last + 1 \/ ix' = size + 2
        BY <3>2 DEF Goes
      <4> QED
        BY <1>1, <2>3, <2>4, <3>2, <4>1
    <3>5. Stays
      BY <1>1, <2>13, <2>15, <3>2, <3>3, <3>4, TypeFacts DEF Stays, TypeOK
    <3>6. m = n + 1 => At(nodes', n, "TK_QUOTE", NULL, ix, ix)
      BY <2>17, <2>19
    <3>7. StringStep
      BY <2>2, <2>3, <2>4, <2>13, <2>16, <2>17, <2>19, <3>1, <3>2, <3>6 DEF StringStep, raw
    <3> QED
      BY <3>5, <3>7
  <2> QED
    BY <2>18, <2>19
<1> QED
  BY <1>2, <1>3

\* Every step is one of these.
LEMMA LexSteps ==
    ASSUME TypeOK, Placed, [Next]_vars
    PROVE  /\ Stays
           /\ UNCHANGED vars \/ pc = "lexing"
           /\ UNCHANGED vars \/ CrashStep \/ FailStep \/ SkipStep \/ TokenStep \/ StringStep
<1>1. CASE UNCHANGED vars
  <2>1. TypeOK'
    BY <1>1 DEF TypeOK, vars
  <2>2. input' = input /\ fails' >= fails
    BY <1>1, TypeFacts DEF vars
  <2> QED
    BY <1>1, <2>1, <2>2 DEF Stays
<1>2. CASE Lex
  <2>1. pc = "lexing"
    BY <1>2 DEF Lex, Comment, Comma, String, Keyword, Truth, Number, Word, LineFeed, Space,
                Lexing
  <2>2. CASE Comment \/ Space \/ LineFeed
    BY <2>1, <2>2, SkipIs
  <2>3. CASE Comma \/ Keyword \/ Truth \/ Number \/ Word
    BY <2>1, <2>3, TokenIs
  <2>4. CASE String
    BY <2>1, <2>4, StringIs
  <2> QED
    BY <1>2, <2>1, <2>2, <2>3, <2>4 DEF Lex
<1> QED
  BY <1>1, <1>2 DEF Next, Stopped

-----------------------------------------------------------------------------
(* Theorems.                                                                 *)

\* Where the lexer is in the text.
LEMMA InitPlaced == Init => TypeOK /\ Placed
<1> SUFFICES ASSUME Init PROVE TypeOK /\ Placed
  OBVIOUS
<1>1. /\ input \in Inputs /\ root \in Roots /\ ix = 1 /\ lines = 1 /\ fails = 0
      /\ nodes = <<[Unassigned EXCEPT !.token = root.token, !.line = root.line]>>
      /\ pc = IF input = << >> THEN "done" ELSE "lexing"
  BY DEF Init
<1>2. /\ input \in Seq(Symbols) /\ root \in Root /\ MaxFails \in Nat
  BY <1>1, LexerAssumption
<1>3. nodes \in Seq(Node) /\ nodes # << >>
  <2> DEFINE node == [Unassigned EXCEPT !.token = root.token, !.line = root.line]
  <2>1. root.token \in token_t \cup {"garbage"} /\ root.line \in Nat
    BY <1>2 DEF Root, token_t
  <2>2. node \in Node
    BY <2>1, UnassignedType DEF Node
  <2> HIDE DEF node
  <2>3. <<node>> \in Seq(Node) /\ <<node>> # << >>
    BY <2>2
  <2> QED
    BY <1>1, <2>3 DEF node
<1>4. pc \in {"lexing", "done"} /\ (pc = "lexing" => input # << >>) /\ (pc = "done" => input = << >>)
  BY <1>1
<1>5. TypeOK
  BY <1>1, <1>2, <1>3, <1>4 DEF TypeOK
<1>6. input # << >> => Len(input) >= 1
  BY <1>2
<1>7. input = << >> => Len(input) = 0
  OBVIOUS
<1>8. Placed
  BY <1>1, <1>4, <1>6, <1>7 DEF Placed
<1> QED
  BY <1>5, <1>8

\* Every step keeps the tokens in their places.
LEMMA NextPlaced ==
    ASSUME TypeOK, Placed, [Next]_vars
    PROVE  Placed'
<1>1. /\ input' = input /\ fails' >= fails /\ TypeOK'
      /\ UNCHANGED vars \/ CrashStep \/ FailStep \/ SkipStep \/ TokenStep \/ StringStep
  BY LexSteps DEF Stays
<1>2. fails \in Nat /\ fails' \in Nat
  <2>1. fails' \in 0 .. MaxFails
    BY <1>1 DEF TypeOK
  <2> QED
    BY <2>1, TypeFacts
<1>3. ASSUME NEW i \in Nat, Goes(i)
      PROVE  Placed'
  <2>1. /\ pc' = "lexing" => ~ (i > Len(input))
        /\ pc' = "done" => i > Len(input)
        /\ pc' # "failed" /\ ix' = i /\ Len(input') = Len(input)
    BY <1>1, <1>3 DEF Goes
  <2> QED
    BY <1>3, <2>1, TypeFacts DEF Placed
<1>4. CASE UNCHANGED vars
  BY <1>1, <1>4 DEF vars, Placed
<1>5. CASE CrashStep
  BY <1>5 DEF CrashStep, Placed
<1>6. ASSUME pc' = "failed", fails' > fails
      PROVE  Placed'
  BY <1>2, <1>6 DEF Placed
<1>7. CASE FailStep
  BY <1>6, <1>7 DEF FailStep
<1>8. CASE SkipStep
  <2>1. PICK i \in ix + 1 .. Len(input) + 1 : Goes(i)
    BY <1>8 DEF SkipStep
  <2> QED
    BY <1>3, <2>1, TypeFacts
<1>9. CASE TokenStep
  <2>1. PICK last \in ix .. Len(input) : (pc' = "failed" /\ fails' > fails) \/ Goes(last + 1)
    BY <1>9 DEF TokenStep
  <2> QED
    BY <1>3, <1>6, <2>1, TypeFacts
<1>10. CASE StringStep
  <2>1. PICK last \in ix + 1 .. Len(input) + 1 :
          \/ pc' = "failed" /\ fails' > fails
          \/ Goes(last + 1)
          \/ ix' = Len(input) + 2 /\ pc' \in {"done", "crashed"}
    BY <1>10 DEF StringStep
  <2>2. CASE ix' = Len(input) + 2 /\ pc' \in {"done", "crashed"}
    BY <1>1, <2>2, TypeFacts DEF Placed
  <2> QED
    BY <1>3, <1>6, <2>1, <2>2, TypeFacts
<1> QED
  BY <1>1, <1>4, <1>5, <1>7, <1>8, <1>9, <1>10

\* Positions, lines, nodes and counters stay within their types, and the lexer
\* looks at the text until it is done.
THEOREM LexerTypes == Spec => [](TypeOK /\ Placed)
<1>1. Init => TypeOK /\ Placed
  BY InitPlaced
<1>2. TypeOK /\ Placed /\ [Next]_vars => (TypeOK /\ Placed)'
  BY NextPlaced, LexSteps DEF Stays
<1> QED
  BY <1>1, <1>2, PTL DEF Spec

\* The string in a node is what its part of the text spells.
Exact(text, node) ==
    node.token = "TK_STRING" /\ node.from > 0 =>
        Redouble(node.value) = SubSeq(text, node.from, node.to)

AllExact == \A k \in 1 .. Len(nodes) : Exact(input, nodes[k])

\* Every step keeps the strings exact that are there, and adds exact ones.
LEMMA ExactNodes ==
    ASSUME TypeOK, Placed, AllExact, [Next]_vars
    PROVE  AllExact'
<1> DEFINE n == Len(nodes)
<1>1. /\ input' = input /\ TypeOK'
      /\ UNCHANGED vars \/ CrashStep \/ FailStep \/ SkipStep \/ TokenStep \/ StringStep
  BY LexSteps DEF Stays
<1>2. n \in Nat /\ n > 0 /\ Len(nodes') \in Nat
  BY <1>1, TypeFacts DEF TypeOK
<1>3. \A k \in 1 .. n : Exact(input, nodes[k])
  BY DEF AllExact
<1>4. SUFFICES ASSUME NEW k \in 1 .. Len(nodes') PROVE Exact(input, nodes'[k])
  BY <1>1, <1>4 DEF AllExact
<1>5. Exact(input, Unassigned)
  BY DEF Exact, Unassigned
<1> HIDE DEF n
<1>6. CASE nodes' = nodes
  BY <1>3, <1>6 DEF n
<1>7. CASE SkipStep
  <2>1. k \in 1 .. n /\ At(nodes', k, nodes[k].token, nodes[k].value, nodes[k].from, nodes[k].to)
    BY <1>7 DEF SkipStep, n
  <2> QED
    BY <1>3, <2>1 DEF Exact, At
<1>8. CASE TokenStep
  <2>1. PICK token \in Singles, value \in Seq(Symbols) \cup {NULL}, last \in ix .. Len(input),
               ok \in BOOLEAN :
          /\ \A j \in 1 .. n - 1 : nodes'[j] = nodes[j]
          /\ At(nodes', n, token, value, ix, last)
          /\ Len(nodes') = IF ok = TRUE THEN n + 1 ELSE n
          /\ ok = TRUE => nodes'[n + 1] = Unassigned
    BY <1>8 DEF TokenStep, n
  <2>2. Exact(input, nodes'[n])
    BY <2>1 DEF Exact, At, Singles
  <2>3. k \in 1 .. n - 1 \/ k = n \/ (k = n + 1 /\ ok = TRUE)
    BY <1>2, <2>1
  <2> QED
    BY <1>2, <1>3, <1>5, <2>1, <2>2, <2>3
<1>9. CASE StringStep
  <2>1. PICK m \in {n, n + 1}, last \in ix + 1 .. Len(input) + 1, text \in Seq(Symbols) :
          /\ Redouble(text) = SubSeq(input, ix + 1, last - 1)
          /\ \A j \in 1 .. n - 1 : nodes'[j] = nodes[j]
          /\ \/ \A j \in n .. Len(nodes') :
                   nodes'[j].token = "TK_STRING" =>
                       At(nodes', j, "TK_STRING", text, ix + 1, last - 1)
             \/ /\ m = n + 1 => At(nodes', n, "TK_QUOTE", NULL, ix, ix)
                /\ At(nodes', m, "TK_STRING", text, ix + 1, last - 1)
                /\ At(nodes', m + 1, "TK_QUOTE", NULL, last, last)
                /\ nodes'[m + 2] = Unassigned /\ Len(nodes') = m + 2
    BY <1>9 DEF StringStep, n
  <2>2. ASSUME NEW j, At(nodes', j, "TK_STRING", text, ix + 1, last - 1)
        PROVE  Exact(input, nodes'[j])
    BY <2>1, <2>2 DEF Exact, At
  <2>3. ASSUME NEW j, nodes'[j].token # "TK_STRING"
        PROVE  Exact(input, nodes'[j])
    BY <2>3 DEF Exact
  <2>4. CASE k \in 1 .. n - 1
    BY <1>2, <1>3, <2>1, <2>4
  <2>5. CASE k \in n .. Len(nodes')
    <3>1. CASE \A j \in n .. Len(nodes') :
                  nodes'[j].token = "TK_STRING" =>
                      At(nodes', j, "TK_STRING", text, ix + 1, last - 1)
      BY <2>2, <2>3, <2>5, <3>1
    <3>2. CASE /\ m = n + 1 => At(nodes', n, "TK_QUOTE", NULL, ix, ix)
               /\ At(nodes', m, "TK_STRING", text, ix + 1, last - 1)
               /\ At(nodes', m + 1, "TK_QUOTE", NULL, last, last)
               /\ nodes'[m + 2] = Unassigned /\ Len(nodes') = m + 2
      <4>1. (k = n /\ m = n + 1) \/ k = m \/ k = m + 1 \/ k = m + 2
        BY <1>2, <2>1, <2>5, <3>2
      <4> QED
        BY <1>5, <2>2, <2>3, <3>2, <4>1 DEF At
    <3> QED
      BY <2>1, <3>1, <3>2
  <2> QED
    BY <1>2, <1>4, <2>4, <2>5
<1> QED
  BY <1>1, <1>6, <1>7, <1>8, <1>9 DEF vars, CrashStep, FailStep

\* Doubling the quotes of any string the lexer has stored gives back the text
\* between its quotes, whatever that text is.
THEOREM ExactStrings == Spec => []StringsAreExact
<1>1. Init => AllExact
  <2> SUFFICES ASSUME Init, NEW k \in 1 .. Len(nodes) PROVE Exact(input, nodes[k])
    BY DEF AllExact
  <2>1. nodes = <<[Unassigned EXCEPT !.token = root.token, !.line = root.line]>>
    BY DEF Init
  <2>2. Len(nodes) = 1 /\ nodes[1] = [Unassigned EXCEPT !.token = root.token, !.line = root.line]
    BY <2>1
  <2>3. nodes[1].from = 0
    BY <2>2 DEF Unassigned
  <2>4. k = 1
    BY <2>2
  <2> QED
    BY <2>3, <2>4 DEF Exact
<1>2. TypeOK /\ Placed /\ AllExact /\ [Next]_vars => AllExact'
  BY ExactNodes
<1>3. TypeOK /\ AllExact => StringsAreExact
  BY TypeFacts DEF AllExact, Exact, StringsAreExact, Tokens
<1> QED
  BY <1>1, <1>2, <1>3, LexerTypes, PTL DEF Spec

-----------------------------------------------------------------------------
(* The order of the tokens.                                                  *)

\* Between two tokens that touch nothing is lost.
LEMMA GapEmpty ==
    ASSUME NEW text, NEW i \in Int, NEW j \in Int, j < i, NEW E
    PROVE  Gap(text, i, j, E)
<1>1. \A p \in i .. j : FALSE
  OBVIOUS
<1> QED
  BY <1>1 DEF Gap

\* One separator is a gap.
LEMMA GapOne ==
    ASSUME NEW text, NEW i \in Int, NEW E, SymAt(text, i) \in E
    PROVE  Gap(text, i, i, E)
<1>1. \A p \in i .. i : p = i
  OBVIOUS
<1> QED
  BY <1>1 DEF Gap

\* A gap stays one where more may be lost.
LEMMA GapMore ==
    ASSUME NEW text, NEW i, NEW j, NEW E, NEW F, E \subseteq F, Gap(text, i, j, E)
    PROVE  Gap(text, i, j, F)
BY DEF Gap

\* Two gaps that touch are one.
LEMMA GapConcat ==
    ASSUME NEW text, NEW i \in Int, NEW j \in Int, NEW m \in Int, NEW E, i <= j + 1,
           Gap(text, i, j, E), Gap(text, j + 1, m, E)
    PROVE  Gap(text, i, m, E)
<1> SUFFICES ASSUME NEW p \in i .. m
             PROVE  \/ SymAt(text, p) \in Spaces \cup {";"} \cup E
                    \/ \E q \in i .. p - 1, r \in p + 1 .. Len(text) :
                          /\ SymAt(text, q) = ";" /\ SymAt(text, r) = "LF"
                          /\ \A k \in q .. p : SymAt(text, k) # "LF"
  BY DEF Gap
<1>1. CASE p \in i .. j
  BY <1>1 DEF Gap
<1>2. CASE p \in j + 1 .. m
  <2>1. \/ SymAt(text, p) \in Spaces \cup {";"} \cup E
        \/ \E q \in j + 1 .. p - 1, r \in p + 1 .. Len(text) :
              /\ SymAt(text, q) = ";" /\ SymAt(text, r) = "LF"
              /\ \A k \in q .. p : SymAt(text, k) # "LF"
    BY <1>2 DEF Gap
  <2>2. \A q \in j + 1 .. p - 1 : q \in i .. p - 1
    OBVIOUS
  <2> QED
    BY <2>1, <2>2
<1>3. p \in i .. j \/ p \in j + 1 .. m
  OBVIOUS
<1> QED
  BY <1>1, <1>2, <1>3

\* What may get lost when allocations have failed.
Lost(failed) == IF failed = 0 THEN {} ELSE {",", "'"}

\* The more allocations have failed, the more may be lost.
LEMMA LostGrows ==
    ASSUME NEW f \in Nat, NEW g \in Nat, f <= g
    PROVE  Lost(f) \subseteq Lost(g)
<1>1. CASE f = 0
  BY <1>1 DEF Lost
<1>2. CASE f > 0
  <2>1. f # 0 /\ g # 0
    BY <1>2
  <2> QED
    BY <2>1 DEF Lost
<1> QED
  BY <1>1, <1>2

CoveredBy(ns, k) == IF k = 1 THEN 0 ELSE ns[k - 1].to

\* A token of node k lies behind what the node before it covers, and in front
\* of position at.
Follows(text, ns, k, at, extra) ==
    ns[k].from > 0 => /\ CoveredBy(ns, k) < ns[k].from /\ ns[k].to < at
                      /\ Gap(text, CoveredBy(ns, k) + 1, ns[k].from - 1, extra)

\* All nodes but the last hold a token.  The last one does only when no memory
\* was left for a node behind it; then it will be overwritten, so that the
\* text up to ix fits behind it, and behind the node before it as well.
Ordered(text, ns, at, failed) ==
    /\ \A k \in 1 .. Len(ns) : Follows(text, ns, k, at, Lost(failed))
    /\ \A k \in 1 .. Len(ns) - 1 : ns[k].from > 0
    /\ Gap(text, CoveredBy(ns, Len(ns)) + 1, at - 1, Lost(failed))
    /\ ns[Len(ns)].from > 0 =>
          failed > 0 /\ Gap(text, ns[Len(ns)].to + 1, at - 1, Lost(failed))

InOrder == pc \in {"lexing", "done"} => Ordered(input, nodes, ix, fails)

\* A node that stays where it is keeps its place.
LEMMA FollowsStays ==
    ASSUME NEW text, NEW ns \in Seq(Node), NEW ms \in Seq(Node), NEW k \in Nat \ {0}, k <= Len(ns),
           NEW at \in Int, NEW to \in Int, at <= to, NEW E, NEW F, E \subseteq F,
           Follows(text, ns, k, at, E),
           ms[k].from = ns[k].from, ms[k].to = ns[k].to, CoveredBy(ms, k) = CoveredBy(ns, k)
    PROVE  Follows(text, ms, k, to, F)
<1>1. ns[k] \in Node
  OBVIOUS
<1>2. ns[k].to \in Int
  BY <1>1 DEF Node
<1> QED
  BY <1>2, GapMore DEF Follows

\* The nodes before node m stay, and the gap behind them grows to the token of
\* node m.
LEMMA OrderedBefore ==
    ASSUME NEW text, NEW ns \in Seq(Node), NEW ms \in Seq(Node), ns # << >>,
           NEW at \in Nat, at > 0, NEW to \in Nat, at <= to, NEW f \in Nat, NEW g \in Nat, f <= g,
           Ordered(text, ns, at, f),
           \A k \in 1 .. Len(ns) - 1 : ms[k] = ns[k]
    PROVE  /\ \A k \in 1 .. Len(ns) - 1 : Follows(text, ms, k, to, Lost(g)) /\ ms[k].from > 0
           /\ CoveredBy(ms, Len(ns)) \in Nat /\ CoveredBy(ms, Len(ns)) < at
           /\ Gap(text, CoveredBy(ms, Len(ns)) + 1, at - 1, Lost(g))
<1> DEFINE n == Len(ns)
<1>1. n \in Nat /\ n > 0 /\ Lost(f) \subseteq Lost(g)
  BY LostGrows
<1> HIDE DEF n
<1>2. CoveredBy(ms, n) = CoveredBy(ns, n)
  <2>1. n # 1 => n - 1 \in 1 .. n - 1
    BY <1>1
  <2>2. n # 1 => ms[n - 1] = ns[n - 1]
    BY <2>1 DEF n
  <2> QED
    BY <2>2 DEF CoveredBy
<1>3. CoveredBy(ns, n) \in Nat /\ CoveredBy(ns, n) < at
  <2>1. CASE n = 1
    <3>1. CoveredBy(ns, n) = 0
      BY <2>1 DEF CoveredBy
    <3>2. at > 0
      BY DEF Ordered
    <3> QED
      BY <3>1, <3>2
  <2>2. CASE n > 1
    <3>1. n - 1 \in 1 .. n - 1 /\ n - 1 \in 1 .. n
      BY <1>1, <2>2
    <3>2. ns[n - 1] \in Node
      BY <3>1 DEF n
    <3>3. ns[n - 1].to \in Nat
      BY <3>2 DEF Node
    <3>4. ns[n - 1].to < at
      BY <3>1 DEF Ordered, Follows, n
    <3>5. n # 1
      BY <1>1, <2>2
    <3>6. CoveredBy(ns, n) = ns[n - 1].to
      BY <3>5 DEF CoveredBy
    <3> QED
      BY <3>3, <3>4, <3>6
  <2>3. n = 1 \/ n > 1
    BY <1>1
  <2> QED
    BY <2>1, <2>2, <2>3
<1>4. Gap(text, CoveredBy(ms, n) + 1, at - 1, Lost(g))
  BY <1>1, <1>2, GapMore DEF Ordered, n
<1>5. ASSUME NEW k \in 1 .. n - 1
      PROVE  Follows(text, ms, k, to, Lost(g)) /\ ms[k].from > 0
  <2>1. k \in 1 .. n /\ k \in Nat \ {0} /\ k <= n /\ at \in Int /\ to \in Int
    BY <1>1
  <2>2. Follows(text, ns, k, at, Lost(f)) /\ ns[k].from > 0
    BY <2>1 DEF Ordered, n
  <2>3. ms[k] = ns[k]
    BY DEF n
  <2>4. CoveredBy(ms, k) = CoveredBy(ns, k)
    <3>1. k # 1 => k - 1 \in 1 .. n - 1
      BY <1>1
    <3>2. k # 1 => ms[k - 1] = ns[k - 1]
      BY <3>1 DEF n
    <3> QED
      BY <3>2 DEF CoveredBy
  <2>5. Follows(text, ms, k, to, Lost(g))
    BY <1>1, <2>1, <2>2, <2>3, <2>4, FollowsStays DEF n
  <2> QED
    BY <2>2, <2>3, <2>5
<1> QED
  BY <1>2, <1>3, <1>4, <1>5 DEF n

\* Text without tokens.
LEMMA OrderedSkip ==
    ASSUME TypeOK, TypeOK', input' = input, Ordered(input, nodes, ix, fails), SkipStep
    PROVE  Ordered(input, nodes', ix', fails')
<1> DEFINE n == Len(nodes)
<1>1. /\ n \in Nat /\ n > 0 /\ ix \in Nat /\ ix > 0 /\ fails \in Nat
      /\ nodes \in Seq(Node) /\ nodes' \in Seq(Node) /\ Len(input) \in Nat
  BY TypeFacts DEF TypeOK
<1>2. PICK i \in ix + 1 .. Len(input) + 1 : ix' = i /\ Gap(input, ix, i - 1, {})
  BY DEF SkipStep, Goes
<1>3. /\ fails' = fails /\ Len(nodes') = n
      /\ \A k \in 1 .. n : nodes'[k].from = nodes[k].from /\ nodes'[k].to = nodes[k].to
  BY DEF SkipStep, At
<1>4. ix' \in Nat /\ ix < ix'
  BY <1>1, <1>2
<1>5. Gap(input, ix, ix' - 1, Lost(fails))
  BY <1>2, GapMore
<1>6. Ordered(input, nodes, ix, fails)
  OBVIOUS
<1> HIDE DEF n
<1>7. ASSUME NEW k \in 1 .. n
      PROVE  CoveredBy(nodes', k) = CoveredBy(nodes, k) /\ CoveredBy(nodes, k) \in Nat
  <2>1. k # 1 => k - 1 \in 1 .. n
    BY <1>1
  <2>2. k # 1 => nodes[k - 1] \in Node
    BY <1>1, <2>1 DEF n
  <2>3. k # 1 => nodes[k - 1].to \in Nat
    BY <2>2 DEF Node
  <2> QED
    BY <1>3, <2>1, <2>3 DEF CoveredBy
<1>8. ASSUME NEW k \in 1 .. n
      PROVE  Follows(input, nodes', k, ix', Lost(fails))
  <2>1. k \in Nat \ {0} /\ k <= n
    BY <1>1
  <2>2. Follows(input, nodes, k, ix, Lost(fails))
    BY <1>6 DEF Ordered, n
  <2> QED
    BY <1>1, <1>3, <1>4, <1>7, <2>1, <2>2, FollowsStays DEF n
<1>9. \A k \in 1 .. n - 1 : nodes'[k].from > 0
  <2>1. \A k \in 1 .. n - 1 : k \in 1 .. n
    BY <1>1
  <2>2. \A k \in 1 .. n - 1 : nodes[k].from > 0
    BY <1>6 DEF Ordered, n
  <2> QED
    BY <1>3, <2>1, <2>2
<1>10. n \in 1 .. n
  BY <1>1
<1>11. ASSUME NEW c \in Nat, c < ix, Gap(input, c + 1, ix - 1, Lost(fails))
       PROVE  Gap(input, c + 1, ix' - 1, Lost(fails))
  <2>1. c + 1 \in Int /\ ix - 1 \in Int /\ ix' - 1 \in Int /\ c + 1 <= (ix - 1) + 1 /\ (ix - 1) + 1 = ix
    BY <1>1, <1>4, <1>11
  <2> QED
    BY <1>5, <1>11, <2>1, GapConcat
<1>12. CoveredBy(nodes, n) < ix
  <2>1. /\ nodes # << >> /\ ix <= ix /\ fails <= fails
        /\ \A k \in 1 .. Len(nodes) - 1 : nodes[k] = nodes[k]
    BY <1>1, TypeFacts
  <2> QED
    BY <1>1, <1>6, <2>1, OrderedBefore DEF n
<1>13. Gap(input, CoveredBy(nodes', n) + 1, ix' - 1, Lost(fails))
  BY <1>6, <1>7, <1>10, <1>11, <1>12 DEF Ordered, n
<1>14. ASSUME nodes'[n].from > 0
       PROVE  fails > 0 /\ Gap(input, nodes'[n].to + 1, ix' - 1, Lost(fails))
  <2>1. nodes[n].from > 0 /\ nodes'[n].to = nodes[n].to
    BY <1>3, <1>10, <1>14
  <2>2. fails > 0 /\ Gap(input, nodes[n].to + 1, ix - 1, Lost(fails))
    BY <1>6, <2>1 DEF Ordered, n
  <2>3. nodes[n] \in Node
    BY <1>1, <1>10 DEF n
  <2>4. nodes[n].to \in Nat
    BY <2>3 DEF Node
  <2>5. nodes[n].to < ix
    BY <1>6, <1>10, <2>1 DEF Ordered, Follows, n
  <2> QED
    BY <1>11, <2>1, <2>2, <2>4, <2>5
<1> QED
  BY <1>3, <1>8, <1>9, <1>13, <1>14 DEF Ordered

\* A token, in the last node.  A comma without a node behind it may get lost.
LEMMA OrderedToken ==
    ASSUME TypeOK, TypeOK', input' = input, fails' >= fails, pc' # "failed",
           Ordered(input, nodes, ix, fails), TokenStep
    PROVE  Ordered(input, nodes', ix', fails')
<1> DEFINE n == Len(nodes)
<1>1. /\ n \in Nat /\ n > 0 /\ ix \in Nat /\ ix > 0 /\ fails \in Nat /\ fails' \in Nat
      /\ nodes \in Seq(Node) /\ nodes # << >> /\ nodes' \in Seq(Node) /\ Len(input) \in Nat
  <2>1. fails' \in 0 .. MaxFails /\ nodes' \in Seq(Node)
    BY DEF TypeOK
  <2> QED
    BY <2>1, TypeFacts
<1>2. PICK last \in ix .. Len(input), ok \in BOOLEAN :
        /\ \A k \in 1 .. n - 1 : nodes'[k] = nodes[k]
        /\ nodes'[n].from = ix /\ nodes'[n].to = last
        /\ Len(nodes') = IF ok = TRUE THEN n + 1 ELSE n
        /\ ok = TRUE => nodes'[n + 1] = Unassigned
        /\ ok = FALSE => fails' > fails
        /\ ix' = last + 1
        /\ ok = FALSE => last = ix /\ Sym(ix) = ","
  BY DEF TokenStep, Goes, At
<1> DEFINE F == Lost(fails')
<1>3. ix' \in Nat /\ ix < ix' /\ last \in Nat /\ ix <= last /\ ix' - 1 = last /\ ix' = last + 1
  <2>1. ix' = last + 1
    BY <1>2
  <2> QED
    BY <1>1, <2>1
<1>4. Ordered(input, nodes, ix, fails)
  OBVIOUS
<1>5. /\ \A k \in 1 .. n - 1 : Follows(input, nodes', k, ix', F) /\ nodes'[k].from > 0
      /\ CoveredBy(nodes', n) \in Nat /\ CoveredBy(nodes', n) < ix
      /\ Gap(input, CoveredBy(nodes', n) + 1, ix - 1, F)
  <2>1. fails <= fails' /\ ix <= ix'
    BY <1>1, <1>3
  <2> QED
    BY <1>1, <1>2, <1>3, <1>4, <2>1, OrderedBefore
<1> HIDE DEF n, F
<1>6. Follows(input, nodes', n, ix', F)
  <2>1. nodes'[n].from = ix /\ nodes'[n].to = last
    BY <1>2
  <2>2. last < ix' /\ CoveredBy(nodes', n) < ix
    BY <1>1, <1>3, <1>5
  <2> QED
    BY <1>5, <2>1, <2>2 DEF Follows
<1>7. CASE ok = TRUE
  <2>1. Len(nodes') = n + 1 /\ nodes'[n + 1].from = 0
    BY <1>2, <1>7 DEF Unassigned
  <2>2. CoveredBy(nodes', n + 1) = last
    <3>1. n + 1 # 1 /\ (n + 1) - 1 = n
      BY <1>1
    <3> QED
      BY <1>2, <3>1 DEF CoveredBy
  <2>3. Gap(input, last + 1, ix' - 1, F)
    <3>1. last + 1 \in Int /\ ix' - 1 \in Int /\ ix' - 1 < last + 1
      BY <1>3
    <3> QED
      BY <3>1, GapEmpty
  <2>4. ASSUME NEW k \in 1 .. n + 1
        PROVE  Follows(input, nodes', k, ix', F) /\ (k # n + 1 => nodes'[k].from > 0)
    <3>1. k \in 1 .. n - 1 \/ k = n \/ k = n + 1
      BY <1>1
    <3>2. Follows(input, nodes', n + 1, ix', F)
      BY <2>1 DEF Follows
    <3> QED
      BY <1>1, <1>2, <1>5, <1>6, <3>1, <3>2
  <2>5. \A k \in 1 .. (n + 1) - 1 : k \in 1 .. n + 1 /\ k # n + 1
    BY <1>1
  <2>6. ~ (nodes'[n + 1].from > 0)
    BY <2>1
  <2> QED
    BY <2>1, <2>2, <2>3, <2>4, <2>5, <2>6 DEF Ordered, F
<1>8. CASE ok = FALSE
  <2>1. Len(nodes') = n /\ fails' > 0 /\ last = ix /\ Sym(ix) = "," /\ ix' = ix + 1
    <3>1. Len(nodes') = n /\ last = ix /\ Sym(ix) = ","
      BY <1>2, <1>8
    <3>2. fails' > fails
      BY <1>2, <1>8
    <3>3. fails' > 0
      BY <1>1, <3>2
    <3> QED
      BY <1>3, <3>1, <3>3
  <2>2. SymAt(input, ix) \in F
    <3>1. fails' # 0
      <4>1. fails' > 0
        BY <2>1
      <4> QED
        BY <1>1, <4>1
    <3>2. F = {",", "'"}
      BY <3>1 DEF F, Lost
    <3> QED
      BY <2>1, <3>2, SymIs
  <2>3. Gap(input, CoveredBy(nodes', n) + 1, ix' - 1, F)
    <3> DEFINE c == CoveredBy(nodes', n)
    <3>1. c \in Nat /\ c < ix
      BY <1>5
    <3> HIDE DEF c
    <3>2. /\ c + 1 \in Int /\ ix - 1 \in Int /\ ix \in Int /\ c + 1 <= (ix - 1) + 1
          /\ (ix - 1) + 1 = ix /\ ix' - 1 = ix
      <4>1. ix' = ix + 1
        BY <2>1
      <4> QED
        BY <1>1, <3>1, <4>1
    <3>3. Gap(input, ix, ix, F)
      BY <2>2, <3>2, GapOne
    <3>4. Gap(input, c + 1, ix - 1, F)
      BY <1>5 DEF c
    <3>5. Gap(input, c + 1, ix, F)
      BY <3>2, <3>3, <3>4, GapConcat
    <3> QED
      BY <3>2, <3>5 DEF c
  <2>4. Gap(input, nodes'[n].to + 1, ix' - 1, F)
    <3>1. ix' = ix + 1 /\ nodes'[n].to = ix
      BY <1>2, <2>1
    <3>2. ix + 1 \in Int /\ ix' - 1 \in Int /\ ix' - 1 < ix + 1
      BY <1>1, <3>1
    <3> QED
      BY <3>1, <3>2, GapEmpty
  <2>5. \A k \in 1 .. n : k \in 1 .. n - 1 \/ k = n
    BY <1>1
  <2>6. \A k \in 1 .. n : Follows(input, nodes', k, ix', F)
    BY <1>5, <1>6, <2>5
  <2> QED
    BY <1>5, <2>1, <2>3, <2>4, <2>6 DEF Ordered, F
<1> QED
  BY <1>7, <1>8

\* A string.  Its opening quote may get lost.
LEMMA OrderedString ==
    ASSUME TypeOK, TypeOK', input' = input, fails' >= fails, pc' # "failed",
           Ordered(input, nodes, ix, fails), StringStep
    PROVE  Ordered(input, nodes', ix', fails')
<1> DEFINE n == Len(nodes)
<1>1. /\ n \in Nat /\ n > 0 /\ ix \in Nat /\ ix > 0 /\ fails \in Nat /\ fails' \in Nat
      /\ nodes \in Seq(Node) /\ nodes # << >> /\ nodes' \in Seq(Node) /\ Len(input) \in Nat
  <2>1. fails' \in 0 .. MaxFails /\ nodes' \in Seq(Node)
    BY DEF TypeOK
  <2> QED
    BY <2>1, TypeFacts
<1>2. PICK m \in {n, n + 1}, last \in ix + 1 .. Len(input) + 1 :
        /\ Sym(ix) = "'"
        /\ \A k \in 1 .. n - 1 : nodes'[k] = nodes[k]
        /\ m = n => fails' > fails
        /\ m = n + 1 => nodes'[n].from = ix /\ nodes'[n].to = ix
        /\ nodes'[m].from = ix + 1 /\ nodes'[m].to = last - 1
        /\ nodes'[m + 1].from = last /\ nodes'[m + 1].to = last
        /\ nodes'[m + 2] = Unassigned /\ Len(nodes') = m + 2
        /\ ix' = last + 1 \/ (last > Len(input) /\ ix' = Len(input) + 2)
  BY DEF StringStep, Goes, At
<1> DEFINE F == Lost(fails')
           c == CoveredBy(nodes', n)
<1>3. /\ last \in Nat /\ ix < last /\ ix' = last + 1 /\ ix' \in Nat /\ m \in Nat
  <2>1. ix' = last + 1 \/ (last > Len(input) /\ ix' = Len(input) + 2)
    BY <1>2
  <2>2. last \in Nat /\ ix < last /\ last <= Len(input) + 1
    BY <1>1
  <2>3. ix' = last + 1
    BY <1>1, <2>1, <2>2
  <2> QED
    BY <1>1, <2>2, <2>3
<1>4. Ordered(input, nodes, ix, fails)
  OBVIOUS
<1>5. /\ \A k \in 1 .. n - 1 : Follows(input, nodes', k, ix', F) /\ nodes'[k].from > 0
      /\ c \in Nat /\ c < ix
      /\ Gap(input, c + 1, ix - 1, F)
  <2>1. fails <= fails' /\ ix <= ix' /\ ix' \in Nat
    BY <1>1, <1>3
  <2> QED
    BY <1>1, <1>2, <1>4, <2>1, OrderedBefore
<1> HIDE DEF n, F, c
<1>6. m = n \/ m = n + 1
  OBVIOUS
<1>7. m = n + 1 => Follows(input, nodes', n, ix', F) /\ nodes'[n].from > 0
  <2> SUFFICES ASSUME m = n + 1
               PROVE  Follows(input, nodes', n, ix', F) /\ nodes'[n].from > 0
    OBVIOUS
  <2>1. nodes'[n].from = ix /\ nodes'[n].to = ix
    BY <1>2
  <2>2. ix < ix' /\ c < ix
    BY <1>1, <1>3, <1>5
  <2> QED
    BY <1>1, <1>5, <2>1, <2>2 DEF Follows, c
<1>8. Follows(input, nodes', m, ix', F) /\ nodes'[m].from > 0
  <2>1. nodes'[m].from = ix + 1 /\ nodes'[m].to = last - 1 /\ last - 1 < ix' /\ ix + 1 > 0
        /\ (ix + 1) - 1 = ix
    <3>1. nodes'[m].from = ix + 1 /\ nodes'[m].to = last - 1
      BY <1>2
    <3>2. last - 1 < ix' /\ ix + 1 > 0 /\ (ix + 1) - 1 = ix
      BY <1>1, <1>3
    <3> QED
      BY <3>1, <3>2
  <2>2. CASE m = n + 1
    <3>1. CoveredBy(nodes', m) = ix
      <4>1. m # 1 /\ m - 1 = n
        BY <1>1, <2>2
      <4>2. nodes'[n].to = ix
        BY <1>2, <2>2
      <4> QED
        BY <4>1, <4>2 DEF CoveredBy
    <3>2. ix + 1 \in Int /\ ix \in Int /\ ix < ix + 1
      BY <1>1
    <3>3. Gap(input, ix + 1, ix, F)
      BY <3>2, GapEmpty
    <3> QED
      BY <2>1, <3>1, <3>2, <3>3 DEF Follows
  <2>3. CASE m = n
    <3>1. fails' # 0
      <4>1. fails' > fails
        BY <1>2, <2>3
      <4> QED
        BY <1>1, <4>1
    <3>2. SymAt(input, ix) \in F
      <4>1. F = {",", "'"}
        BY <3>1 DEF F, Lost
      <4>2. Sym(ix) = "'"
        BY <1>2
      <4> QED
        BY <4>1, <4>2, SymIs
    <3>3. /\ c + 1 \in Int /\ ix - 1 \in Int /\ ix \in Int /\ c + 1 <= (ix - 1) + 1
          /\ (ix - 1) + 1 = ix /\ c < ix + 1
      BY <1>1, <1>5
    <3>4. Gap(input, ix, ix, F)
      BY <3>2, <3>3, GapOne
    <3>5. Gap(input, c + 1, ix - 1, F)
      BY <1>5
    <3>6. Gap(input, c + 1, ix, F)
      BY <3>3, <3>4, <3>5, GapConcat
    <3> QED
      BY <2>1, <2>3, <3>3, <3>6 DEF Follows, c
  <2> QED
    BY <1>6, <2>2, <2>3
<1>9. Follows(input, nodes', m + 1, ix', F) /\ nodes'[m + 1].from > 0
  <2>1. nodes'[m + 1].from = last /\ nodes'[m + 1].to = last
    BY <1>2
  <2>2. CoveredBy(nodes', m + 1) = last - 1
    <3>1. m + 1 # 1 /\ (m + 1) - 1 = m
      BY <1>1, <1>3, <1>6
    <3>2. nodes'[m].to = last - 1
      BY <1>2
    <3> QED
      BY <3>1, <3>2 DEF CoveredBy
  <2>3. /\ last > 0 /\ last < ix' /\ last - 1 < last /\ (last - 1) + 1 = last
        /\ last \in Int /\ last - 1 \in Int
    BY <1>1, <1>3
  <2>4. Gap(input, last, last - 1, F)
    BY <2>3, GapEmpty
  <2> QED
    BY <2>1, <2>2, <2>3, <2>4 DEF Follows
<1>10. nodes'[m + 2].from = 0 /\ Len(nodes') = m + 2
  BY <1>2 DEF Unassigned
<1>11. CoveredBy(nodes', m + 2) = last
  <2>1. m + 2 # 1 /\ (m + 2) - 1 = m + 1
    BY <1>1, <1>3, <1>6
  <2>2. nodes'[m + 1].to = last
    BY <1>2
  <2> QED
    BY <2>1, <2>2 DEF CoveredBy
<1>12. Gap(input, last + 1, ix' - 1, F)
  <2>1. last + 1 \in Int /\ ix' - 1 \in Int /\ ix' - 1 < last + 1
    BY <1>3
  <2> QED
    BY <2>1, GapEmpty
<1>13. ~ (nodes'[m + 2].from > 0)
  BY <1>10
<1>14. ASSUME NEW k \in 1 .. m + 2
       PROVE  Follows(input, nodes', k, ix', F) /\ (k # m + 2 => nodes'[k].from > 0)
  <2>1. k \in 1 .. n - 1 \/ (k = n /\ m = n + 1) \/ k = m \/ k = m + 1 \/ k = m + 2
    BY <1>1, <1>3, <1>6
  <2>2. Follows(input, nodes', m + 2, ix', F)
    BY <1>13 DEF Follows
  <2> QED
    BY <1>5, <1>7, <1>8, <1>9, <2>1, <2>2
<1>15. \A k \in 1 .. (m + 2) - 1 : k \in 1 .. m + 2 /\ k # m + 2
  BY <1>3
<1> QED
  BY <1>10, <1>11, <1>12, <1>13, <1>14, <1>15 DEF Ordered, F

\* Before the first symbol there is one token, and nothing behind it.
LEMMA OrderInit == Init => InOrder
<1> SUFFICES ASSUME Init PROVE Ordered(input, nodes, ix, fails)
  BY DEF InOrder
<1>1. ix = 1 /\ fails = 0 /\ nodes = <<[Unassigned EXCEPT !.token = root.token, !.line = root.line]>>
  BY DEF Init
<1>2. Len(nodes) = 1 /\ nodes[1] = [Unassigned EXCEPT !.token = root.token, !.line = root.line]
  BY <1>1
<1>3. nodes[1].from = 0
  BY <1>2 DEF Unassigned
<1>4. ~ (nodes[1].from > 0)
  BY <1>3
<1>5. CoveredBy(nodes, 1) = 0
  BY DEF CoveredBy
<1>6. Gap(input, 0 + 1, 1 - 1, Lost(fails))
  BY GapEmpty
<1>7. \A k \in 1 .. 1 : k = 1
  OBVIOUS
<1>8. \A k \in 1 .. 1 - 1 : FALSE
  OBVIOUS
<1> QED
  BY <1>1, <1>2, <1>4, <1>5, <1>6, <1>7, <1>8 DEF Ordered, Follows

\* Every step keeps the tokens in the order of the text, and the gaps between
\* them free of anything but separators.
LEMMA OrderNext ==
    ASSUME TypeOK, Placed, InOrder, [Next]_vars
    PROVE  InOrder'
<1>1. /\ input' = input /\ fails' >= fails /\ TypeOK'
      /\ UNCHANGED vars \/ CrashStep \/ FailStep \/ SkipStep \/ TokenStep \/ StringStep
      /\ UNCHANGED vars \/ pc = "lexing"
  BY LexSteps DEF Stays
<1>2. CASE UNCHANGED vars
  BY <1>2 DEF vars, InOrder
<1>3. CASE ~ UNCHANGED vars /\ pc' \notin {"lexing", "done"}
  BY <1>3 DEF InOrder
<1>4. CASE ~ UNCHANGED vars /\ pc' \in {"lexing", "done"}
  <2>1. Ordered(input, nodes, ix, fails) /\ pc' # "failed"
    BY <1>1, <1>4 DEF InOrder
  <2>2. SkipStep \/ TokenStep \/ StringStep
    BY <1>1, <1>4 DEF CrashStep, FailStep
  <2>3. Ordered(input, nodes', ix', fails')
    BY <1>1, <2>1, <2>2, OrderedSkip, OrderedToken, OrderedString
  <2> QED
    BY <1>1, <2>3 DEF InOrder
<1> QED
  BY <1>2, <1>3, <1>4

\* What is in order covers the text.
LEMMA OrderCovers ==
    ASSUME TypeOK, Ordered(input, nodes, ix, fails), NEW E, Lost(fails) \subseteq E
    PROVE  Covers(E)
<1> DEFINE n == Len(nodes)
<1>1. n \in Nat /\ n > 0 /\ DOMAIN nodes = 1 .. n
  BY TypeFacts
<1>2. \A i, j : Skippable(i, j, E) <=> Gap(input, i, j, E)
  BY DEF Skippable, Gap, Sym, SymAt
<1>3. \A k : Covered(k) = CoveredBy(nodes, k)
  BY DEF Covered, CoveredBy
<1>4. ASSUME NEW k \in Tokens
      PROVE  /\ Covered(k) < nodes[k].from
             /\ Skippable(Covered(k) + 1, nodes[k].from - 1, E)
  <2>1. k \in 1 .. n /\ nodes[k].from > 0
    BY <1>1 DEF Tokens
  <2>2. Follows(input, nodes, k, ix, Lost(fails))
    BY <2>1 DEF Ordered
  <2>3. /\ CoveredBy(nodes, k) < nodes[k].from
        /\ Gap(input, CoveredBy(nodes, k) + 1, nodes[k].from - 1, E)
    BY <2>1, <2>2, GapMore DEF Follows
  <2> QED
    BY <1>2, <1>3, <2>3
<1>5. Skippable((IF n \in Tokens THEN nodes[n].to ELSE Covered(n)) + 1, ix - 1, E)
  <2>1. CASE n \in Tokens
    <3>1. nodes[n].from > 0
      BY <2>1 DEF Tokens
    <3>2. Gap(input, nodes[n].to + 1, ix - 1, E)
      BY <3>1, GapMore DEF Ordered
    <3> QED
      BY <1>2, <2>1, <3>2
  <2>2. CASE n \notin Tokens
    <3>1. Gap(input, CoveredBy(nodes, n) + 1, ix - 1, E)
      BY GapMore DEF Ordered
    <3> QED
      BY <1>2, <1>3, <2>2, <3>1
  <2> QED
    BY <2>1, <2>2
<1> QED
  BY <1>4, <1>5 DEF Covers

\* So they are in order throughout.
LEMMA OrderHolds == Spec => []InOrder
<1>1. Init => InOrder
  BY OrderInit
<1>2. TypeOK /\ Placed /\ InOrder /\ [Next]_vars => InOrder'
  BY OrderNext
<1> QED
  BY <1>1, <1>2, LexerTypes, PTL DEF Spec

\* While no allocation fails, the tokens are the text, in order: between two of
\* them there is nothing but spaces and comments.
THEOREM CoveredText == Spec => []TextIsCovered
<1>1. TypeOK /\ Placed /\ InOrder => TextIsCovered
  <2> SUFFICES ASSUME TypeOK, Placed, InOrder, fails = 0, pc # "crashed"
               PROVE  Covers({}) /\ Len(nodes) \notin Tokens
    BY DEF TextIsCovered
  <2>1. pc # "failed"
    BY DEF Placed
  <2>2. pc \in {"lexing", "done"}
    BY <2>1 DEF TypeOK
  <2>3. Ordered(input, nodes, ix, fails) /\ Lost(fails) \subseteq {}
    BY <2>2 DEF InOrder, Lost
  <2>4. ~ (nodes[Len(nodes)].from > 0)
    BY <2>3 DEF Ordered
  <2> QED
    BY <2>3, <2>4, OrderCovers DEF Tokens
<1> QED
  BY <1>1, LexerTypes, OrderHolds, PTL

\* When the lexer reports success, it has read the whole text, and all that is
\* in no token are spaces, comments, commas and quotes, whichever allocations
\* have failed.
THEOREM LostSeparators == Spec => []OkLosesOnlySeparators
<1>1. TypeOK /\ Placed /\ InOrder => OkLosesOnlySeparators
  <2> SUFFICES ASSUME TypeOK, Placed, InOrder, pc = "done"
               PROVE  ix > Len(input) /\ Covers({",", "'"})
    BY DEF OkLosesOnlySeparators
  <2>1. ix > Len(input)
    BY DEF Placed
  <2>2. Ordered(input, nodes, ix, fails)
    BY DEF InOrder
  <2>3. Lost(fails) \subseteq {",", "'"}
    BY DEF Lost
  <2> QED
    BY <2>1, <2>2, <2>3, OrderCovers
<1> QED
  BY <1>1, LexerTypes, OrderHolds, PTL

-----------------------------------------------------------------------------
(* What the parser is handed.                                                *)

\* Node k holds a token, and it is this one.
Has(ns, k, token) == k \in 1 .. Len(ns) - 1 /\ ns[k].token = token

Sits(ns, k) ==
    /\ ns[k].token \in token_t \ {"TK_UNASSIGNED_TOKEN"}
    /\ ns[k].value # NULL <=> ns[k].token \in Valued
    /\ ns[k].token = "TK_STRING" => Has(ns, k - 1, "TK_QUOTE") /\ Has(ns, k + 1, "TK_QUOTE")
    /\ ns[k].token = "TK_QUOTE" =>
          \/ Has(ns, k - 1, "TK_STRING") /\ ~ Has(ns, k + 1, "TK_STRING")
          \/ ~ Has(ns, k - 1, "TK_STRING") /\ Has(ns, k + 1, "TK_STRING")

\* The last node is still to be filled; only the first one can be what malloc
\* has left.
Blank(ns) ==
    /\ ns[Len(ns)].value = NULL
    /\ \/ ns[Len(ns)].token = "TK_UNASSIGNED_TOKEN"
       \/ Len(ns) = 1 /\ ns[Len(ns)].token = "garbage"

WellBuilt(ns) == Blank(ns) /\ \A k \in 1 .. Len(ns) - 1 : Sits(ns, k)

Building == pc \in {"lexing", "done"} /\ fails = 0 => WellBuilt(nodes)

\* A new node has neither token nor value.
LEMMA BlankUnassigned ==
    ASSUME NEW ns, ns[Len(ns)] = Unassigned
    PROVE  Blank(ns)
BY DEF Blank, Unassigned

\* A node keeps its place when its neighbours do.
LEMMA SitsStays ==
    ASSUME NEW ns, NEW ms, NEW k, Sits(ns, k),
           ms[k].token = ns[k].token, ms[k].value = ns[k].value,
           Has(ns, k - 1, "TK_QUOTE") => Has(ms, k - 1, "TK_QUOTE"),
           Has(ns, k + 1, "TK_QUOTE") => Has(ms, k + 1, "TK_QUOTE"),
           Has(ns, k - 1, "TK_STRING") <=> Has(ms, k - 1, "TK_STRING"),
           Has(ns, k + 1, "TK_STRING") <=> Has(ms, k + 1, "TK_STRING")
    PROVE  Sits(ms, k)
BY DEF Sits

\* A separator leaves the tree well built,
LEMMA BuildingSkip ==
    ASSUME TypeOK, TypeOK', WellBuilt(nodes), SkipStep
    PROVE  WellBuilt(nodes')
<1> DEFINE n == Len(nodes)
<1>1. n \in Nat /\ n > 0
  BY TypeFacts
<1>2. /\ Len(nodes') = n
      /\ \A k \in 1 .. n : nodes'[k].token = nodes[k].token /\ nodes'[k].value = nodes[k].value
  BY DEF SkipStep, At
<1> HIDE DEF n
<1>3. n \in 1 .. n /\ \A k \in 1 .. n - 1 : k \in 1 .. n
  BY <1>1
<1>4. Blank(nodes')
  BY <1>2, <1>3 DEF WellBuilt, Blank, n
<1>5. \A k, token : Has(nodes', k, token) <=> Has(nodes, k, token)
  BY <1>2, <1>3 DEF Has, n
<1>6. ASSUME NEW k \in 1 .. n - 1
      PROVE  Sits(nodes', k)
  <2>1. Sits(nodes, k)
    BY DEF WellBuilt, n
  <2> QED
    BY <1>2, <1>3, <1>5, <2>1, SitsStays
<1> QED
  BY <1>2, <1>4, <1>6 DEF WellBuilt

\* a token fills its last node and puts a new one behind it,
LEMMA BuildingToken ==
    ASSUME TypeOK, TypeOK', WellBuilt(nodes), fails = 0, fails' = 0, TokenStep
    PROVE  WellBuilt(nodes')
<1> DEFINE n == Len(nodes)
<1>1. n \in Nat /\ n > 0
  BY TypeFacts
<1>2. fails' = fails /\ ~ (fails' > fails)
  OBVIOUS
<1>3. PICK token \in Singles, value \in Seq(Symbols) \cup {NULL}, last \in ix .. Len(input),
           ok \in BOOLEAN :
        /\ \A k \in 1 .. n - 1 : nodes'[k] = nodes[k]
        /\ nodes'[n].token = token /\ nodes'[n].value = value
        /\ Len(nodes') = IF ok = TRUE THEN n + 1 ELSE n
        /\ ok = TRUE => nodes'[n + 1] = Unassigned
        /\ ok = FALSE => fails' > fails
        /\ value # NULL <=> token \in Valued
  BY <1>2 DEF TokenStep, At
<1> HIDE DEF n
<1>4. ok = TRUE
  BY <1>2, <1>3
<1>5. Len(nodes') = n + 1 /\ nodes'[n + 1] = Unassigned
  BY <1>3, <1>4
<1>6. Blank(nodes')
  BY <1>5, BlankUnassigned
<1>7. token # "TK_STRING" /\ token # "TK_QUOTE" /\ token \in token_t \ {"TK_UNASSIGNED_TOKEN"}
  BY DEF Singles
<1>8. ASSUME NEW k, NEW t \in {"TK_STRING", "TK_QUOTE"}
      PROVE  Has(nodes', k, t) <=> Has(nodes, k, t)
  <2>1. CASE k \in 1 .. n - 1
    <3>1. k \in 1 .. (n + 1) - 1
      BY <1>1, <2>1
    <3> QED
      BY <1>3, <1>5, <2>1, <3>1 DEF Has, n
  <2>2. CASE k \notin 1 .. n - 1
    <3>1. ~ Has(nodes, k, t)
      BY <2>2 DEF Has, n
    <3>2. k \in 1 .. (n + 1) - 1 => k = n
      BY <1>1, <2>2
    <3> QED
      BY <1>3, <1>5, <1>7, <3>1, <3>2 DEF Has
  <2> QED
    BY <2>1, <2>2
<1>9. ASSUME NEW k \in 1 .. (n + 1) - 1
      PROVE  Sits(nodes', k)
  <2>1. CASE k \in 1 .. n - 1
    <3>1. Sits(nodes, k)
      BY <2>1 DEF WellBuilt, n
    <3> QED
      BY <1>3, <1>8, <2>1, <3>1, SitsStays
  <2>2. CASE k = n
    BY <1>3, <1>7, <2>2 DEF Sits
  <2> QED
    BY <1>1, <2>1, <2>2
<1> QED
  BY <1>5, <1>6, <1>9 DEF WellBuilt

\* and a string does so with its quotes.
LEMMA BuildingString ==
    ASSUME TypeOK, TypeOK', WellBuilt(nodes), fails = 0, fails' = 0, pc' # "failed", StringStep
    PROVE  WellBuilt(nodes')
<1> DEFINE n == Len(nodes)
<1>1. n \in Nat /\ n > 0 /\ NULL \notin Seq(Symbols)
  BY TypeFacts, LexerAssumption
<1>2. ~ (fails' > fails)
  OBVIOUS
<1>3. PICK m \in {n, n + 1}, text \in Seq(Symbols), last \in ix + 1 .. Len(input) + 1 :
        /\ \A k \in 1 .. n - 1 : nodes'[k] = nodes[k]
        /\ m = n => fails' > fails
        /\ m = n + 1 => At(nodes', n, "TK_QUOTE", NULL, ix, ix)
        /\ At(nodes', m, "TK_STRING", text, ix + 1, last - 1)
        /\ At(nodes', m + 1, "TK_QUOTE", NULL, last, last)
        /\ nodes'[m + 2] = Unassigned /\ Len(nodes') = m + 2
  BY DEF StringStep
<1> HIDE DEF n
<1>4. m = n + 1
  BY <1>2, <1>3
<1>5. /\ nodes'[n].token = "TK_QUOTE" /\ nodes'[n].value = NULL
      /\ nodes'[n + 1].token = "TK_STRING" /\ nodes'[n + 1].value # NULL
      /\ nodes'[n + 2].token = "TK_QUOTE" /\ nodes'[n + 2].value = NULL
      /\ nodes'[n + 3] = Unassigned /\ Len(nodes') = n + 3
  <2>1. m + 1 = n + 2 /\ m + 2 = n + 3
    BY <1>1, <1>4
  <2> QED
    BY <1>1, <1>3, <1>4, <2>1 DEF At
<1>6. Blank(nodes')
  BY <1>5, BlankUnassigned
<1>7. ASSUME NEW k \in 1 .. n + 2, NEW t
      PROVE  Has(nodes', k, t) <=> nodes'[k].token = t
  <2>1. k \in 1 .. (n + 3) - 1
    BY <1>1
  <2> QED
    BY <1>5, <2>1 DEF Has
<1>8. ASSUME NEW k \in 1 .. n - 1, NEW t
      PROVE  Has(nodes', k, t) <=> Has(nodes, k, t)
  <2>1. k \in 1 .. n + 2
    BY <1>1
  <2> QED
    BY <1>3, <1>7, <2>1 DEF Has, n
<1>9. \A t : ~ Has(nodes, n, t) /\ ~ Has(nodes, 0, t) /\ ~ Has(nodes', 0, t) /\ ~ Has(nodes', n + 3, t)
  <2>1. n \notin 1 .. n - 1 /\ n + 3 \notin 1 .. (n + 3) - 1 /\ \A j : 0 \notin 1 .. j
    BY <1>1
  <2> QED
    BY <1>5, <2>1 DEF Has, n
<1>10. /\ n \in 1 .. n + 2 /\ n + 1 \in 1 .. n + 2 /\ n + 2 \in 1 .. n + 2
       /\ (n + 1) - 1 = n /\ (n + 1) + 1 = n + 2 /\ (n + 2) - 1 = n + 1 /\ (n + 2) + 1 = n + 3
  BY <1>1
<1>11. ASSUME NEW k \in 1 .. n - 1
       PROVE  Sits(nodes', k)
  <2>1. Sits(nodes, k)
    BY DEF WellBuilt, n
  <2>2. k - 1 \in 1 .. n - 1 \/ k - 1 = 0
    BY <1>1
  <2>3. k + 1 \in 1 .. n - 1 \/ k + 1 = n
    BY <1>1
  <2>4. /\ Has(nodes, k - 1, "TK_QUOTE") => Has(nodes', k - 1, "TK_QUOTE")
        /\ Has(nodes, k - 1, "TK_STRING") <=> Has(nodes', k - 1, "TK_STRING")
    BY <1>8, <1>9, <2>2
  <2>5. ~ Has(nodes', n, "TK_STRING")
    BY <1>5, <1>7, <1>10
  <2>6. /\ Has(nodes, k + 1, "TK_QUOTE") => Has(nodes', k + 1, "TK_QUOTE")
        /\ Has(nodes, k + 1, "TK_STRING") <=> Has(nodes', k + 1, "TK_STRING")
    BY <1>8, <1>9, <2>3, <2>5
  <2> QED
    BY <1>3, <2>1, <2>4, <2>6, SitsStays
<1>12. Sits(nodes', n)
  <2>1. ~ Has(nodes', n - 1, "TK_STRING")
    <3>1. n - 1 \in 1 .. n - 1 \/ n - 1 = 0
      BY <1>1
    <3>2. ASSUME n - 1 \in 1 .. n - 1, nodes[n - 1].token = "TK_STRING"
          PROVE  FALSE
      <4>1. Sits(nodes, n - 1) /\ (n - 1) + 1 = n
        BY <1>1, <3>2 DEF WellBuilt, n
      <4>2. Has(nodes, n, "TK_QUOTE")
        BY <3>2, <4>1 DEF Sits
      <4> QED
        BY <1>9, <4>2
    <3> QED
      BY <1>8, <1>9, <3>1, <3>2 DEF Has
  <2>2. Has(nodes', n + 1, "TK_STRING")
    BY <1>5, <1>7, <1>10
  <2> QED
    BY <1>5, <2>1, <2>2 DEF Sits, token_t, Valued
<1>13. Sits(nodes', n + 1)
  <2>1. Has(nodes', n, "TK_QUOTE") /\ Has(nodes', n + 2, "TK_QUOTE")
    BY <1>5, <1>7, <1>10
  <2> QED
    BY <1>5, <1>10, <2>1 DEF Sits, token_t, Valued
<1>14. Sits(nodes', n + 2)
  <2>1. Has(nodes', n + 1, "TK_STRING") /\ ~ Has(nodes', n + 3, "TK_STRING")
    BY <1>5, <1>7, <1>9, <1>10
  <2> QED
    BY <1>5, <1>10, <2>1 DEF Sits, token_t, Valued
<1>15. ASSUME NEW k \in 1 .. (n + 3) - 1
       PROVE  Sits(nodes', k)
  <2>1. k \in 1 .. n - 1 \/ k = n \/ k = n + 1 \/ k = n + 2
    BY <1>1
  <2> QED
    BY <1>11, <1>12, <1>13, <1>14, <2>1
<1> QED
  BY <1>5, <1>6, <1>15 DEF WellBuilt

\* The first node is blank, or has the token that malloc left in it.
LEMMA BuildingInit == Init => Building
<1> SUFFICES ASSUME Init PROVE WellBuilt(nodes)
  BY DEF Building
<1>1. nodes = <<[Unassigned EXCEPT !.token = root.token, !.line = root.line]>> /\ root \in Root
  BY LexerAssumption DEF Init
<1>2. Len(nodes) = 1 /\ nodes[1] = [Unassigned EXCEPT !.token = root.token, !.line = root.line]
  BY <1>1
<1>3. nodes[1].token = root.token /\ nodes[1].value = NULL
  BY <1>2 DEF Unassigned
<1>4. root.token \in {"TK_UNASSIGNED_TOKEN", "garbage"}
  BY <1>1 DEF Root
<1>5. Blank(nodes)
  BY <1>2, <1>3, <1>4 DEF Blank
<1>6. \A k \in 1 .. 1 - 1 : FALSE
  OBVIOUS
<1> QED
  BY <1>2, <1>5, <1>6 DEF WellBuilt

\* Every step keeps what the parser relies on.
LEMMA BuildingNext ==
    ASSUME TypeOK, Placed, Building, [Next]_vars
    PROVE  Building'
<1>1. /\ fails' >= fails /\ TypeOK'
      /\ UNCHANGED vars \/ CrashStep \/ FailStep \/ SkipStep \/ TokenStep \/ StringStep
      /\ UNCHANGED vars \/ pc = "lexing"
  BY LexSteps DEF Stays
<1>2. CASE UNCHANGED vars
  BY <1>2 DEF vars, Building
<1>3. CASE ~ (pc' \in {"lexing", "done"} /\ fails' = 0)
  BY <1>3 DEF Building
<1>4. CASE ~ UNCHANGED vars /\ pc' \in {"lexing", "done"} /\ fails' = 0
  <2>1. fails = 0
    <3>1. fails' = 0
      BY <1>4
    <3> QED
      BY <1>1, <3>1, TypeFacts
  <2>2. WellBuilt(nodes) /\ pc' # "failed"
    BY <1>1, <1>4, <2>1 DEF Building
  <2>3. SkipStep \/ TokenStep \/ StringStep
    BY <1>1, <1>4 DEF CrashStep, FailStep
  <2>4. WellBuilt(nodes')
    BY <1>1, <1>4, <2>1, <2>2, <2>3, BuildingSkip, BuildingToken, BuildingString
  <2> QED
    BY <2>4 DEF Building
<1> QED
  BY <1>2, <1>3, <1>4

\* The values are where they belong, whichever allocations have failed.
AllMeant ==
    pc \in {"lexing", "done"} => \A k \in 1 .. Len(nodes) : Meant(nodes[k].token, nodes[k].value)

\* A node to be filled has no value and needs none.
LEMMA UnassignedMeant ==
    /\ Meant("TK_UNASSIGNED_TOKEN", NULL) /\ Meant("garbage", NULL) /\ Meant("TK_QUOTE", NULL)
    /\ Unassigned.token = "TK_UNASSIGNED_TOKEN" /\ Unassigned.value = NULL
BY DEF Meant, Valued, Unassigned

\* The first node has no value.
LEMMA MeantInit == Init => AllMeant
<1> SUFFICES ASSUME Init, NEW k \in 1 .. Len(nodes) PROVE Meant(nodes[k].token, nodes[k].value)
  BY DEF AllMeant
<1>1. nodes = <<[Unassigned EXCEPT !.token = root.token, !.line = root.line]>> /\ root \in Root
  BY LexerAssumption DEF Init
<1>2. k = 1 /\ nodes[1] = [Unassigned EXCEPT !.token = root.token, !.line = root.line]
  BY <1>1
<1>3. nodes[1].token = root.token /\ nodes[1].value = NULL
  BY <1>2 DEF Unassigned
<1>4. root.token \in {"TK_UNASSIGNED_TOKEN", "garbage"}
  BY <1>1 DEF Root
<1> QED
  BY <1>2, <1>3, <1>4, UnassignedMeant

\* Every step gives values to the tokens that have one, and to no other.
LEMMA MeantNext ==
    ASSUME TypeOK, Placed, AllMeant, [Next]_vars
    PROVE  AllMeant'
<1> DEFINE n == Len(nodes)
<1>1. /\ TypeOK'
      /\ UNCHANGED vars \/ CrashStep \/ FailStep \/ SkipStep \/ TokenStep \/ StringStep
      /\ UNCHANGED vars \/ pc = "lexing"
  BY LexSteps DEF Stays
<1>2. n \in Nat /\ n > 0 /\ NULL \notin Seq(Symbols)
  BY TypeFacts, LexerAssumption
<1>3. CASE UNCHANGED vars
  BY <1>3 DEF vars, AllMeant
<1>4. CASE ~ UNCHANGED vars
  <2> SUFFICES ASSUME pc' \in {"lexing", "done"}, NEW k \in 1 .. Len(nodes')
               PROVE  Meant(nodes'[k].token, nodes'[k].value)
    BY DEF AllMeant
  <2>1. \A j \in 1 .. n : Meant(nodes[j].token, nodes[j].value)
    BY <1>1, <1>4 DEF AllMeant
  <2> HIDE DEF n
  <2>2. CASE SkipStep
    <3>1. k \in 1 .. n /\ nodes'[k].token = nodes[k].token /\ nodes'[k].value = nodes[k].value
      BY <2>2 DEF SkipStep, At, n
    <3> QED
      BY <2>1, <3>1
  <2>3. CASE TokenStep
    <3>1. PICK token \in Singles, value \in Seq(Symbols) \cup {NULL}, last \in ix .. Len(input),
               ok \in BOOLEAN :
            /\ \A j \in 1 .. n - 1 : nodes'[j] = nodes[j]
            /\ nodes'[n].token = token /\ nodes'[n].value = value /\ Meant(token, value)
            /\ Len(nodes') = IF ok = TRUE THEN n + 1 ELSE n
            /\ ok = TRUE => nodes'[n + 1] = Unassigned
      BY <2>3 DEF TokenStep, At, n
    <3>2. k \in 1 .. n - 1 \/ k = n \/ (k = n + 1 /\ ok = TRUE)
      BY <1>2, <3>1
    <3>3. \A j \in 1 .. n - 1 : j \in 1 .. n
      BY <1>2
    <3> QED
      BY <2>1, <3>1, <3>2, <3>3, UnassignedMeant
  <2>4. CASE StringStep
    <3>1. PICK m \in {n, n + 1}, text \in Seq(Symbols), last \in ix + 1 .. Len(input) + 1 :
            /\ \A j \in 1 .. n - 1 : nodes'[j] = nodes[j]
            /\ m = n + 1 => At(nodes', n, "TK_QUOTE", NULL, ix, ix)
            /\ At(nodes', m, "TK_STRING", text, ix + 1, last - 1)
            /\ At(nodes', m + 1, "TK_QUOTE", NULL, last, last)
            /\ nodes'[m + 2] = Unassigned /\ Len(nodes') = m + 2
      BY <2>4 DEF StringStep, n
    <3>2. k \in 1 .. n - 1 \/ (k = n /\ m = n + 1) \/ k = m \/ k = m + 1 \/ k = m + 2
      BY <1>2, <3>1
    <3>3. \A j \in 1 .. n - 1 : j \in 1 .. n
      BY <1>2
    <3>4. Meant("TK_STRING", text)
      BY <1>2 DEF Meant, Valued
    <3> QED
      BY <2>1, <3>1, <3>2, <3>3, <3>4, UnassignedMeant DEF At
  <2> QED
    BY <1>1, <1>4, <2>2, <2>3, <2>4 DEF CrashStep, FailStep
<1> QED
  BY <1>3, <1>4

\* The two parts of the property: where the values are,
LEMMA MeantForParser ==
    ASSUME TypeOK, Building, AllMeant, pc = "done", NEW k \in DOMAIN nodes
    PROVE  /\ nodes[k].value # NULL => nodes[k].token \in Valued
           /\ nodes[k].value = NULL /\ nodes[k].token \in Valued =>
                  nodes[k].token = "TK_BOOLEAN" /\ fails > 0
<1> DEFINE n == Len(nodes)
<1>1. n \in Nat /\ n > 0 /\ DOMAIN nodes = 1 .. n /\ fails \in Nat
  BY TypeFacts
<1>2. Meant(nodes[k].token, nodes[k].value)
  BY <1>1 DEF AllMeant
<1>3. ASSUME fails = 0, nodes[k].value = NULL, nodes[k].token \in Valued
      PROVE  FALSE
  <2>1. WellBuilt(nodes)
    BY <1>3 DEF Building
  <2>2. nodes[n].token \notin Valued
    BY <2>1 DEF WellBuilt, Blank, Valued
  <2>3. k \in 1 .. n - 1
    BY <1>1, <1>3, <2>2
  <2> QED
    BY <1>3, <2>1, <2>3 DEF WellBuilt, Sits
<1> QED
  BY <1>1, <1>2, <1>3 DEF Meant

\* and how the tokens sit together.
LEMMA BuiltForParser ==
    ASSUME TypeOK, Building, AllMeant
    PROVE  IsTreeForParser
<1> DEFINE n == Len(nodes)
           Is(k, token) == k \in DOMAIN nodes /\ nodes[k].token = token
<1>1. n \in Nat /\ n > 0 /\ DOMAIN nodes = 1 .. n
  BY TypeFacts
<1>2. ASSUME pc = "done", fails = 0, nodes[1].token # "garbage", NEW k \in DOMAIN nodes
      PROVE  /\ Is(k, "TK_STRING") => Is(k - 1, "TK_QUOTE") /\ Is(k + 1, "TK_QUOTE")
             /\ Is(k, "TK_QUOTE") => (Is(k - 1, "TK_STRING") # Is(k + 1, "TK_STRING"))
             /\ Is(k, "TK_UNASSIGNED_TOKEN") <=> k = n
  <2>1. WellBuilt(nodes)
    BY <1>2 DEF Building
  <2>2. nodes[n].value = NULL /\ nodes[n].token = "TK_UNASSIGNED_TOKEN"
    BY <1>2, <2>1 DEF WellBuilt, Blank
  <2> HIDE DEF n, Is
  <2>3. ASSUME NEW j, NEW t \in {"TK_STRING", "TK_QUOTE"}
        PROVE  Is(j, t) <=> Has(nodes, j, t)
    <3>1. j \in 1 .. n <=> (j \in 1 .. n - 1 \/ j = n)
      BY <1>1
    <3> QED
      BY <1>1, <2>2, <3>1 DEF Is, Has, n
  <2>4. CASE k = n
    BY <1>2, <2>2, <2>4 DEF Is
  <2>5. CASE k # n
    <3>1. k \in 1 .. n - 1
      BY <1>1, <1>2, <2>5
    <3>2. Sits(nodes, k)
      BY <2>1, <3>1 DEF WellBuilt, n
    <3>3. ~ Is(k, "TK_UNASSIGNED_TOKEN")
      BY <3>2 DEF Is, Sits
    <3>4. Is(k, "TK_STRING") => Is(k - 1, "TK_QUOTE") /\ Is(k + 1, "TK_QUOTE")
      BY <2>3, <3>2 DEF Is, Sits
    <3>5. Is(k, "TK_QUOTE") => \/ Is(k - 1, "TK_STRING") /\ ~ Is(k + 1, "TK_STRING")
                               \/ ~ Is(k - 1, "TK_STRING") /\ Is(k + 1, "TK_STRING")
      BY <2>3, <3>2 DEF Is, Sits
    <3> QED
      BY <2>5, <3>3, <3>4, <3>5
  <2> QED
    BY <2>4, <2>5
<1> QED
  BY <1>2, MeantForParser DEF IsTreeForParser

\* What the lexer hands to the parser is what the parser builds on: strings
\* behind quotes and, when they are closed, in front of one, values where they
\* belong, and an unassigned token last; behind failed allocations only
\* booleans have lost their values.
THEOREM TreeForParser == Spec => []IsTreeForParser
<1>1. Init => Building /\ AllMeant
  BY BuildingInit, MeantInit
<1>2. TypeOK /\ Placed /\ Building /\ AllMeant /\ [Next]_vars => (Building /\ AllMeant)'
  BY BuildingNext, MeantNext
<1>3. TypeOK /\ Building /\ AllMeant => IsTreeForParser
  BY BuiltForParser
<1> QED
  BY <1>1, <1>2, <1>3, LexerTypes, PTL DEF Spec

-----------------------------------------------------------------------------
(* Lines.                                                                    *)

\* The positions of the line feeds, and how many of them are in front of one.
FeedsOf(text)    == {i \in Nat \ {0} : SymAt(text, i) = "LF"}
LineAt(text, at) == 1 + Count(FeedsOf(text), 1, at - 1)

\* The line feeds in front of a position that are not part of a string token.
Inside(ns, n, i) == \E k \in 1 .. n : ns[k].token = "TK_STRING" /\ i \in ns[k].from .. ns[k].to
Outer(text, ns, n, at) == {i \in FeedsOf(text) : 1 <= i /\ i < at /\ ~Inside(ns, n, i)}

\* The line that they give to a node.
LineBehind(text, first, feeds) ==
    IF feeds # {} THEN LineAt(text, Max(feeds) + 1) ELSE IF first # 0 THEN first ELSE 1
LineDue(text, first, ns, n, at) == LineBehind(text, first, Outer(text, ns, n, at))

\* The line that _set_node gives to the last node, with what it has got so far.
LineNext(ns) ==
    LET n == Len(ns)
    IN  IF ns[n].line = 0 THEN IF n > 1 THEN ns[n - 1].line ELSE 1 ELSE ns[n].line

CountOf(text, node) ==
    IF node.token = "TK_STRING" THEN LineFeeds(SubSeq(text, node.from, node.to)) ELSE 1

\* Every token has the line that is due where it starts, and so will the next;
\* the line that the lexer has counted to is exact.
Lined(text, first, ns, at, line) ==
    LET n == Len(ns) - 1
    IN  /\ \A k \in 1 .. n : /\ ns[k].from <= at /\ ns[k].to < at
                             /\ ns[k].line = LineDue(text, first, ns, n, ns[k].from)
                             /\ ns[k].count = CountOf(text, ns[k])
        /\ at <= Len(text) + 1 => /\ line = LineAt(text, at)
                                  /\ LineNext(ns) = LineDue(text, first, ns, n, at)

Lining == pc \in {"lexing", "done"} /\ fails = 0 => Lined(input, root.line, nodes, ix, lines)

\* Counting on where there is nothing to count, and counting in two parts.
LEMMA CountNone ==
    ASSUME NEW S, NEW a \in Nat, NEW p \in Nat, NEW q \in Nat, a <= p + 1, p <= q,
           \A k \in p + 1 .. q : k \notin S
    PROVE  Count(S, a, q) = Count(S, a, p)
<1>1. {k \in a .. q : k \in S} = {k \in a .. p : k \in S}
  OBVIOUS
<1> QED
  BY <1>1 DEF Count

LEMMA CountSplit ==
    ASSUME NEW S, NEW a \in Nat, NEW p \in Nat, NEW b \in Nat, NEW q \in Nat, a <= b, b = p + 1, p <= q
    PROVE  /\ Count(S, a, q) = Count(S, a, p) + Count(S, b, q)
           /\ Count(S, a, q) \in Nat /\ Count(S, a, p) \in Nat /\ Count(S, b, q) \in Nat
<1> DEFINE C(i, j) == {k \in i .. j : k \in S}
<1>1. \A i, j \in Nat : IsFiniteSet(C(i, j)) /\ Cardinality(C(i, j)) \in Nat
  <2> TAKE i, j \in Nat
  <2>1. IsFiniteSet(i .. j) /\ C(i, j) \in SUBSET (i .. j)
    BY FS_Interval
  <2> HIDE DEF C
  <2>2. IsFiniteSet(C(i, j))
    BY <2>1, FS_Subset
  <2> QED
    BY <2>2, FS_CardinalityType
<1>2. C(a, q) = C(a, p) \cup C(b, q) /\ C(a, p) \cap C(b, q) = {}
  OBVIOUS
<1>3. Count(S, a, q) = Cardinality(C(a, q)) /\ Count(S, a, p) = Cardinality(C(a, p))
      /\ Count(S, b, q) = Cardinality(C(b, q))
  BY DEF Count
<1> HIDE DEF C
<1>4. Cardinality(C(a, q)) = Cardinality(C(a, p)) + Cardinality(C(b, q)) - Cardinality({})
  <2> DEFINE U == C(a, p)
             V == C(b, q)
  <2>1. IsFiniteSet(U) /\ IsFiniteSet(V)
    BY <1>1
  <2>2. C(a, q) = U \cup V /\ U \cap V = {}
    BY <1>2
  <2> HIDE DEF U, V
  <2>3. Cardinality(U \cup V) = Cardinality(U) + Cardinality(V) - Cardinality(U \cap V)
    BY <2>1, FS_Union
  <2> QED
    BY <2>2, <2>3 DEF U, V
<1>5. Cardinality({}) = 0
  BY FS_EmptySet
<1> QED
  BY <1>1, <1>3, <1>4, <1>5

\* Counting from the start of a part.
LEMMA CountShift ==
    ASSUME NEW S, NEW T, NEW a \in Nat, NEW p \in Nat, \A k \in 1 .. p : k \in S <=> a + k \in T
    PROVE  Count(S, 1, p) = Count(T, a + 1, a + p)
<1> DEFINE U == {i \in Nat : i <= p => Count(S, 1, i) = Count(T, a + 1, a + i)}
<1>1. 0 \in U
  <2>1. {k \in 1 .. 0 : k \in S} = {} /\ {k \in a + 1 .. a + 0 : k \in T} = {}
    OBVIOUS
  <2> QED
    BY <2>1 DEF Count
<1>2. ASSUME NEW i \in Nat, i \in U
      PROVE  i + 1 \in U
  <2>1. ASSUME i + 1 <= p
        PROVE  Count(S, 1, i + 1) = Count(T, a + 1, a + (i + 1))
    <3>1. /\ i <= p /\ i + 1 \in 1 .. p /\ a + (i + 1) = (a + i) + 1
          /\ a + i \in Nat /\ a + 1 \in Nat /\ a + 1 <= (a + i) + 1 /\ 1 \in Nat /\ 1 <= i + 1
      BY <2>1
    <3>2. Count(S, 1, i) = Count(T, a + 1, a + i)
      BY <1>2, <3>1
    <3>3. Count(T, a + 1, (a + i) + 1) = IF (a + i) + 1 \in T THEN Count(T, a + 1, a + i) + 1
                                         ELSE Count(T, a + 1, a + i)
      BY <3>1, CountStep
    <3>4. Count(S, 1, i + 1) = IF i + 1 \in S THEN Count(S, 1, i) + 1 ELSE Count(S, 1, i)
      BY <3>1, CountStep
    <3>5. i + 1 \in S <=> (a + i) + 1 \in T
      BY <3>1
    <3> QED
      BY <3>1, <3>2, <3>3, <3>4, <3>5
  <2>2. i + 1 \in Nat
    OBVIOUS
  <2> QED
    BY <2>1, <2>2
<1>3. p \in U
  <2> HIDE DEF U
  <2> QED
    BY <1>1, <1>2, SetInduction
<1>4. p <= p
  OBVIOUS
<1> QED
  BY <1>3, <1>4

\* The line feeds of a part of the text.
LEMMA FeedsOfPart ==
    ASSUME NEW text \in Seq(Symbols), NEW i \in Nat \ {0}, NEW j \in Nat, i <= j + 1, j <= Len(text)
    PROVE  LineFeeds(SubSeq(text, i, j)) = Count(FeedsOf(text), i, j)
<1> DEFINE part == SubSeq(text, i, j)
           S == {k \in 1 .. (j + 1 - i) : part[k] = "LF"}
           p == j + 1 - i
           a == i - 1
<1>1. /\ Len(part) = p /\ \A k \in 1 .. p : part[k] = text[i + k - 1]
      /\ part \in Seq(Symbols)
  <2>1. \A k \in i .. j : text[k] \in Symbols
    OBVIOUS
  <2> QED
    BY <2>1, SubSeqProperties
<1>2. DOMAIN part = 1 .. p
  BY <1>1
<1> HIDE DEF part
<1>3. LineFeeds(part) = Count(S, 1, p)
  <2>1. {k \in DOMAIN part : part[k] = "LF"} = {k \in 1 .. p : k \in S}
    BY <1>2
  <2> QED
    BY <2>1 DEF LineFeeds, Count
<1>4. ASSUME NEW k \in 1 .. p
      PROVE  k \in S <=> a + k \in FeedsOf(text)
  <2>1. a + k \in Nat \ {0} /\ a + k <= Len(text) /\ a + k = i + k - 1
    OBVIOUS
  <2>2. SymAt(text, a + k) = part[k]
    BY <1>1, <2>1 DEF SymAt
  <2> QED
    BY <2>1, <2>2 DEF FeedsOf
<1>5. p \in Nat /\ a \in Nat /\ a + 1 = i /\ a + p = j
  OBVIOUS
<1> HIDE DEF S, p, a
<1>6. Count(S, 1, p) = Count(FeedsOf(text), a + 1, a + p)
  BY <1>4, <1>5, CountShift
<1> QED
  BY <1>3, <1>5, <1>6 DEF part

\* A string is one with the nodes up to n when it is one with those up to m,
\* at a position that the nodes between them start behind.
LEMMA InsideSame ==
    ASSUME NEW ns, NEW ms, NEW n \in Nat, NEW m \in Nat, n <= m, NEW at \in Nat, NEW i \in Nat, i < at,
           \A k \in 1 .. n : ms[k] = ns[k],
           \A k \in n + 1 .. m : ms[k].from \in Nat /\ at <= ms[k].from
    PROVE  Inside(ms, m, i) <=> Inside(ns, n, i)
<1>1. ASSUME Inside(ms, m, i) PROVE Inside(ns, n, i)
  <2>1. PICK k \in 1 .. m : ms[k].token = "TK_STRING" /\ i \in ms[k].from .. ms[k].to
    BY <1>1 DEF Inside
  <2>2. k \notin n + 1 .. m
    BY <2>1
  <2>3. k \in 1 .. n
    BY <2>2
  <2> QED
    BY <2>1, <2>3 DEF Inside
<1>2. ASSUME Inside(ns, n, i) PROVE Inside(ms, m, i)
  <2>1. PICK k \in 1 .. n : ns[k].token = "TK_STRING" /\ i \in ns[k].from .. ns[k].to
    BY <1>2 DEF Inside
  <2>2. k \in 1 .. m /\ ms[k] = ns[k]
    OBVIOUS
  <2> QED
    BY <2>1, <2>2 DEF Inside
<1> QED
  BY <1>1, <1>2

\* The line feeds in front of a position are the same when no node before it
\* has changed, and between two positions with no line feed but in strings.
LEMMA OuterSame ==
    ASSUME NEW text, NEW ns, NEW ms, NEW n \in Nat, NEW m \in Nat, NEW at \in Nat, NEW to \in Nat, at <= to,
           \A i \in 1 .. at - 1 : Inside(ms, m, i) <=> Inside(ns, n, i),
           \A i \in at .. to - 1 : i \in FeedsOf(text) => Inside(ms, m, i)
    PROVE  Outer(text, ms, m, to) = Outer(text, ns, n, at)
<1>1. FeedsOf(text) \subseteq Nat \ {0}
  BY DEF FeedsOf
<1>2. \A i \in Nat \ {0} : i < to => i \in 1 .. at - 1 \/ i \in at .. to - 1
  OBVIOUS
<1>3. \A i \in 1 .. at - 1 : i < to /\ i < at
  OBVIOUS
<1>4. ASSUME NEW i \in FeedsOf(text), 1 <= i, i < to, ~ Inside(ms, m, i)
      PROVE  i < at /\ ~ Inside(ns, n, i)
  <2>1. i \in 1 .. at - 1 \/ i \in at .. to - 1
    BY <1>1, <1>2, <1>4
  <2>2. i \in 1 .. at - 1
    BY <1>4, <2>1
  <2> QED
    BY <1>3, <1>4, <2>2
<1>5. ASSUME NEW i \in FeedsOf(text), 1 <= i, i < at, ~ Inside(ns, n, i)
      PROVE  i < to /\ ~ Inside(ms, m, i)
  <2>1. i \in 1 .. at - 1
    BY <1>1, <1>5
  <2> QED
    BY <1>3, <1>5, <2>1
<1> QED
  BY <1>4, <1>5 DEF Outer

\* Lines are counted on behind a position.
LEMMA LineAtMore ==
    ASSUME NEW text, NEW at \in Nat, NEW last \in Nat, 0 < at, at <= last + 1
    PROVE  LineAt(text, at) + Count(FeedsOf(text), at, last) = LineAt(text, last + 1)
<1> DEFINE F == FeedsOf(text)
           p == at - 1
<1>1. p \in Nat /\ 1 <= at /\ at = p + 1 /\ p <= last /\ 1 \in Nat /\ (last + 1) - 1 = last
  OBVIOUS
<1>2. LineAt(text, at) = 1 + Count(F, 1, p) /\ LineAt(text, last + 1) = 1 + Count(F, 1, last)
  BY <1>1 DEF LineAt
<1> HIDE DEF F, p
<1>3. /\ Count(F, 1, last) = Count(F, 1, p) + Count(F, at, last)
      /\ Count(F, 1, last) \in Nat /\ Count(F, 1, p) \in Nat /\ Count(F, at, last) \in Nat
  BY <1>1, CountSplit
<1> QED
  BY <1>2, <1>3 DEF F

\* A token is appended behind the line feeds it lies behind, and only that of
\* a string has any in it.
LEMMA LinedToken ==
    ASSUME NEW text \in Seq(Symbols), NEW first \in Nat, NEW ns \in Seq(Node), ns # << >>,
           NEW ms, NEW at \in Nat, NEW last \in Nat, NEW line \in Nat, NEW token, NEW value, NEW count,
           0 < at, at <= last + 1, at <= Len(text) + 1,
           Lined(text, first, ns, at, line),
           Filled(ns, ms, NodeOf(ns, token, value, count, at, last), TRUE),
           token # "TK_STRING" => count = 1 /\ \A i \in at .. last : i \notin FeedsOf(text),
           token = "TK_STRING" => count = LineFeeds(SubSeq(text, at, last))
    PROVE  Lined(text, first, ms, last + 1, line + Count(FeedsOf(text), at, last))
<1> DEFINE n == Len(ns)
           F == FeedsOf(text)
           node == NodeOf(ns, token, value, count, at, last)
<1>1. /\ n \in Nat /\ n > 0 /\ n - 1 \in Nat /\ Len(text) \in Nat
      /\ \A k \in 1 .. n - 1 : ns[k] \in Node
  OBVIOUS
<1>2. /\ Len(ms) = n + 1 /\ \A k \in 1 .. n - 1 : ms[k] = ns[k]
      /\ ms[n] = node /\ ms[n + 1] = Unassigned
  BY DEF Filled
<1>3. /\ node.token = token /\ node.from = at /\ node.to = last /\ node.count = count
      /\ node.line = LineNext(ns)
  BY DEF NodeOf, LineNext
<1> HIDE DEF node
<1>4. \A k \in (n - 1) + 1 .. n : ms[k].from \in Nat /\ at <= ms[k].from
  <2>1. \A k \in (n - 1) + 1 .. n : k = n
    BY <1>1
  <2> QED
    BY <1>2, <1>3, <2>1
<1> HIDE DEF n
<1>5. ASSUME NEW p \in Nat, p <= at
      PROVE  Outer(text, ms, n, p) = Outer(text, ns, n - 1, p)
  <2>1. \A i \in 1 .. p - 1 : Inside(ms, n, i) <=> Inside(ns, n - 1, i)
    <3> TAKE i \in 1 .. p - 1
    <3>1. i \in Nat /\ i < at /\ n - 1 <= n
      BY <1>1, <1>5
    <3> QED
      BY <1>1, <1>2, <1>4, <3>1, InsideSame
  <2>2. \A i \in p .. p - 1 : FALSE
    BY <1>5
  <2>3. p <= p
    BY <1>5
  <2> QED
    BY <1>1, <1>5, <2>1, <2>2, <2>3, OuterSame
<1>6. ASSUME NEW p \in Nat, p <= at
      PROVE  LineDue(text, first, ms, n, p) = LineDue(text, first, ns, n - 1, p)
  BY <1>5, <1>6 DEF LineDue
<1>7. /\ \A k \in 1 .. n - 1 : /\ ns[k].from <= at /\ ns[k].to < at
                               /\ ns[k].line = LineDue(text, first, ns, n - 1, ns[k].from)
                               /\ ns[k].count = CountOf(text, ns[k])
      /\ line = LineAt(text, at) /\ LineNext(ns) = LineDue(text, first, ns, n - 1, at)
  BY DEF Lined, n
<1>8. ASSUME NEW k \in 1 .. n
      PROVE  /\ ms[k].from <= last + 1 /\ ms[k].to < last + 1
             /\ ms[k].line = LineDue(text, first, ms, n, ms[k].from)
             /\ ms[k].count = CountOf(text, ms[k])
  <2>1. CASE k \in 1 .. n - 1
    <3>1. /\ ms[k] = ns[k] /\ ns[k].from \in Nat /\ ns[k].to \in Nat
          /\ ns[k].from <= at /\ ns[k].to < at
          /\ ns[k].line = LineDue(text, first, ns, n - 1, ns[k].from)
          /\ ns[k].count = CountOf(text, ns[k])
      BY <1>1, <1>2, <1>7, <2>1 DEF Node
    <3>2. LineDue(text, first, ms, n, ns[k].from) = LineDue(text, first, ns, n - 1, ns[k].from)
      BY <1>6, <3>1
    <3>3. ns[k].from <= last + 1 /\ ns[k].to < last + 1
      BY <3>1
    <3> QED
      BY <3>1, <3>2, <3>3
  <2>2. CASE k = n
    <3>1. node.line = LineDue(text, first, ms, n, node.from)
      <4>1. at <= at
        OBVIOUS
      <4> QED
        BY <1>3, <1>6, <1>7, <4>1
    <3>2. node.count = CountOf(text, node)
      BY <1>3 DEF CountOf
    <3>3. node.from <= last + 1 /\ node.to < last + 1
      BY <1>3
    <3> QED
      BY <1>2, <2>2, <3>1, <3>2, <3>3
  <2> QED
    BY <1>1, <2>1, <2>2
<1>9. LineNext(ms) = LineDue(text, first, ms, n, last + 1)
  <2>1. LineNext(ms) = node.line
    <3>1. Unassigned.line = 0
      BY DEF Unassigned
    <3>2. n + 1 > 1 /\ (n + 1) - 1 = n
      BY <1>1
    <3> QED
      BY <1>2, <3>1, <3>2 DEF LineNext
  <2>2. Outer(text, ms, n, last + 1) = Outer(text, ns, n - 1, at)
    <3>1. \A i \in 1 .. at - 1 : Inside(ms, n, i) <=> Inside(ns, n - 1, i)
      <4> TAKE i \in 1 .. at - 1
      <4>1. i \in Nat /\ i < at /\ n - 1 <= n
        BY <1>1
      <4> QED
        BY <1>1, <1>2, <1>4, <4>1, InsideSame
    <3>2. ASSUME NEW i \in at .. (last + 1) - 1, i \in F
          PROVE  Inside(ms, n, i)
      <4>1. i \in at .. last
        OBVIOUS
      <4>2. token = "TK_STRING"
        BY <3>2, <4>1
      <4>3. n \in 1 .. n
        BY <1>1
      <4> QED
        BY <1>2, <1>3, <4>1, <4>2, <4>3 DEF Inside
    <3>3. last + 1 \in Nat
      OBVIOUS
    <3> HIDE DEF F
    <3> QED
      BY <1>1, <3>1, <3>2, <3>3, OuterSame DEF F
  <2> QED
    BY <1>3, <1>7, <2>1, <2>2 DEF LineDue
<1>10. line + Count(F, at, last) = LineAt(text, last + 1)
  BY <1>7, LineAtMore
<1>11. Len(ms) - 1 = n
  BY <1>1, <1>2
<1> QED
  BY <1>8, <1>9, <1>10, <1>11 DEF Lined

\* Nothing changes where there is no line feed.
LEMMA LinedSkip ==
    ASSUME NEW text \in Seq(Symbols), NEW first \in Nat, NEW ns \in Seq(Node), ns # << >>,
           NEW at \in Nat, NEW to \in Nat, NEW line \in Nat, 0 < at, at <= to, to <= Len(text) + 1,
           Lined(text, first, ns, at, line),
           \A i \in at .. to - 1 : i \notin FeedsOf(text)
    PROVE  Lined(text, first, ns, to, line)
<1> DEFINE n == Len(ns) - 1
<1>1. n \in Nat /\ Len(text) \in Nat /\ \A k \in 1 .. n : ns[k] \in Node
  OBVIOUS
<1> HIDE DEF n
<1>2. \A k \in 1 .. n : /\ ns[k].from <= to /\ ns[k].to < to
                        /\ ns[k].line = LineDue(text, first, ns, n, ns[k].from)
                        /\ ns[k].count = CountOf(text, ns[k])
  <2> TAKE k \in 1 .. n
  <2>1. /\ ns[k].from <= at /\ ns[k].to < at
        /\ ns[k].line = LineDue(text, first, ns, n, ns[k].from)
        /\ ns[k].count = CountOf(text, ns[k])
    BY DEF Lined, n
  <2>2. ns[k].from \in Nat /\ ns[k].to \in Nat
    BY <1>1 DEF Node
  <2>3. ns[k].from <= to /\ ns[k].to < to
    BY <2>1, <2>2
  <2> QED
    BY <2>1, <2>3
<1>3. at <= Len(text) + 1
  BY <1>1
<1>4. line = LineAt(text, at) /\ LineNext(ns) = LineDue(text, first, ns, n, at)
  BY <1>3 DEF Lined, n
<1>5. LineAt(text, to) = LineAt(text, at)
  <2>1. /\ at - 1 \in Nat /\ to - 1 \in Nat /\ 1 <= (at - 1) + 1 /\ at - 1 <= to - 1 /\ 1 \in Nat
        /\ \A k \in (at - 1) + 1 .. to - 1 : k \in at .. to - 1
    OBVIOUS
  <2>2. Count(FeedsOf(text), 1, to - 1) = Count(FeedsOf(text), 1, at - 1)
    BY <2>1, CountNone
  <2> QED
    BY <2>2 DEF LineAt
<1>6. Outer(text, ns, n, to) = Outer(text, ns, n, at)
  BY <1>1, OuterSame
<1> QED
  BY <1>2, <1>4, <1>5, <1>6 DEF Lined, LineDue, n

\* A line feed outside of a string gives its line to the node that is next.
LEMMA LinedFeed ==
    ASSUME NEW text \in Seq(Symbols), NEW first \in Nat, NEW ns \in Seq(Node), ns # << >>,
           NEW ms, NEW at \in Nat, NEW line \in Nat, 0 < at, at <= Len(text),
           Lined(text, first, ns, at, line), at \in FeedsOf(text),
           ms = [ns EXCEPT ![Len(ns)].line = line + 1]
    PROVE  Lined(text, first, ms, at + 1, line + 1)
<1> DEFINE n == Len(ns)
           F == FeedsOf(text)
           O == Outer(text, ms, n - 1, at + 1)
<1>1. n \in Nat /\ n > 0 /\ n - 1 \in Nat /\ Len(text) \in Nat /\ n \in 1 .. n
      /\ \A k \in 1 .. n : ns[k] \in Node
  OBVIOUS
<1>2. /\ Len(ms) = n /\ \A k \in 1 .. n - 1 : ms[k] = ns[k]
      /\ ms[n].line = line + 1
  <2>1. DOMAIN ns = 1 .. n /\ \A k \in 1 .. n - 1 : k \in 1 .. n /\ k # n
    BY <1>1
  <2>2. Len(ms) = n
    BY <1>1
  <2>3. ms[n] = [ns[n] EXCEPT !.line = line + 1]
    BY <1>1
  <2>4. ms[n].line = line + 1
    BY <1>1, <2>3 DEF Node
  <2> QED
    BY <2>1, <2>2, <2>4
<1> HIDE DEF n
<1>3. /\ \A k \in 1 .. n - 1 : /\ ns[k].from <= at /\ ns[k].to < at
                               /\ ns[k].line = LineDue(text, first, ns, n - 1, ns[k].from)
                               /\ ns[k].count = CountOf(text, ns[k])
      /\ line = LineAt(text, at) /\ LineNext(ns) = LineDue(text, first, ns, n - 1, at)
  <2>1. at <= Len(text) + 1
    BY <1>1
  <2> QED
    BY <2>1 DEF Lined, n
<1>4. \A i \in Nat : Inside(ms, n - 1, i) <=> Inside(ns, n - 1, i)
  BY <1>2 DEF Inside
<1>5. ASSUME NEW k \in 1 .. n - 1
      PROVE  /\ ms[k].from <= at + 1 /\ ms[k].to < at + 1
             /\ ms[k].line = LineDue(text, first, ms, n - 1, ms[k].from)
             /\ ms[k].count = CountOf(text, ms[k])
  <2>1. /\ ms[k] = ns[k] /\ ns[k].from \in Nat /\ ns[k].to \in Nat
        /\ ns[k].from <= at /\ ns[k].to < at
        /\ ns[k].line = LineDue(text, first, ns, n - 1, ns[k].from)
        /\ ns[k].count = CountOf(text, ns[k])
    BY <1>1, <1>2, <1>3 DEF Node
  <2>2. Outer(text, ms, n - 1, ns[k].from) = Outer(text, ns, n - 1, ns[k].from)
    <3>1. F \subseteq Nat
      BY DEF FeedsOf
    <3> QED
      BY <1>4, <3>1 DEF Outer
  <2>3. ns[k].from <= at + 1 /\ ns[k].to < at + 1
    BY <2>1
  <2> QED
    BY <2>1, <2>2, <2>3 DEF LineDue
<1>6. ~ Inside(ms, n - 1, at)
  <2>1. ASSUME NEW k \in 1 .. n - 1
        PROVE  at \notin ms[k].from .. ms[k].to
    <3>1. ms[k] = ns[k] /\ ns[k].to \in Nat /\ ns[k].from \in Nat /\ ns[k].to < at
      BY <1>1, <1>2, <1>3 DEF Node
    <3> QED
      BY <3>1
  <2> QED
    BY <2>1 DEF Inside
<1>7. at \in O /\ O \in SUBSET (0 .. at)
  <2>1. at < at + 1 /\ 1 <= at
    OBVIOUS
  <2>2. \A i \in F : i \in Nat
    BY DEF FeedsOf
  <2>3. \A i \in Nat : i < at + 1 => i \in 0 .. at
    OBVIOUS
  <2> QED
    BY <1>6, <2>1, <2>2, <2>3 DEF Outer
<1> HIDE DEF O, F
<1>8. Max(O) = at
  <2>1. Max(O) \in O /\ \A x \in O : x <= Max(O)
    BY <1>7, MaxProperties
  <2>2. at <= Max(O) /\ Max(O) \in 0 .. at
    BY <1>7, <2>1
  <2> QED
    BY <2>2
<1>9. LineDue(text, first, ms, n - 1, at + 1) = LineAt(text, at + 1)
  BY <1>7, <1>8 DEF LineDue, LineBehind, O
<1>10. LineAt(text, at + 1) = line + 1
  <2>1. LineAt(text, at) + Count(F, at, at) = LineAt(text, at + 1)
    <3>1. at <= at + 1
      OBVIOUS
    <3> QED
      BY <3>1, LineAtMore DEF F
  <2>2. {k \in at .. at : k \in F} = {at}
    BY DEF F
  <2>3. Count(F, at, at) = 1
    BY <2>2, FS_Singleton DEF Count
  <2> QED
    BY <1>3, <2>1, <2>3
<1>11. LineNext(ms) = line + 1
  <2>1. line + 1 # 0
    OBVIOUS
  <2> QED
    BY <1>2, <2>1 DEF LineNext
<1>12. Len(ms) - 1 = n - 1
  BY <1>2
<1> QED
  BY <1>5, <1>9, <1>10, <1>11, <1>12 DEF Lined

\* A string that does not end with the text ends at a quote.
LEMMA StringCloses ==
    ASSUME TypeOK, StringEnd <= Len(input)
    PROVE  Sym(StringEnd) = "'"
<1> DEFINE quotes(p) == Cardinality({k \in ix + 1 .. p : Sym(k) = "'"})
           closing == {p \in ix + 1 .. Len(input) :
                          Sym(p) = "'" /\ Sym(p + 1) # "'" /\ quotes(p) % 2 = 1}
<1>1. StringEnd = IF closing = {} THEN Len(input) + 1 ELSE Min(closing)
  BY DEF StringEnd
<1>2. closing \in SUBSET Nat
  BY TypeFacts
<1>3. \A p \in closing : Sym(p) = "'"
  OBVIOUS
<1> HIDE DEF closing
<1>4. closing # {}
  BY <1>1, TypeFacts
<1>5. Min(closing) \in closing
  BY <1>2, <1>4, MinProperties
<1> QED
  BY <1>1, <1>3, <1>4, <1>5

\* No line feed is part of a number or of a word.
LEMMA NoFeedInWord ==
    ASSUME TypeOK, Placed, pc = "lexing", NEW last,
           (AtNumber /\ last = LastDigit) \/ (Sym(ix) \notin Spaces /\ last = LastOfWord),
           NEW i \in ix .. last
    PROVE  i \notin FeedsOf(input)
<1> SUFFICES Sym(i) # "LF"
  BY SymIs DEF FeedsOf
<1> DEFINE n == Len(input)
<1>1. n \in Nat /\ ix \in Nat /\ ix > 0 /\ ix <= n /\ last \in ix .. n
  BY TypeFacts, WordEndIs DEF Placed
<1>2. CASE AtNumber /\ last = LastDigit
  <2> DEFINE ends == {j \in ix .. n : ~IsDigit(j + 1)}
  <2>1. ends \in SUBSET Nat
    BY <1>1
  <2>2. \A j \in ends : last <= j
    BY <1>2, <2>1, MinProperties DEF LastDigit
  <2>3. CASE i = ix
    BY <1>2, <2>3 DEF AtNumber, IsDigit, Digits
  <2>4. CASE i # ix
    <3>1. i - 1 \in ix .. n /\ ~ (last <= i - 1) /\ (i - 1) + 1 = i
      BY <1>1, <2>4
    <3>2. i - 1 \notin ends
      BY <2>2, <3>1
    <3>3. IsDigit(i)
      BY <3>1, <3>2
    <3> QED
      BY <3>3 DEF IsDigit, Digits
  <2> QED
    BY <2>3, <2>4
<1>3. CASE Sym(ix) \notin Spaces /\ last = LastOfWord
  <2> DEFINE ends == {j \in ix .. n : IsSpace(j + 1) \/ IsEnd(j + 1)}
  <2>1. ends \in SUBSET Nat
    BY <1>1
  <2>2. \A j \in ends : last <= j
    BY <1>3, <2>1, MinProperties DEF LastOfWord
  <2>3. CASE i = ix
    BY <1>3, <2>3 DEF Spaces
  <2>4. CASE i # ix
    <3>1. i - 1 \in ix .. n /\ ~ (last <= i - 1) /\ (i - 1) + 1 = i
      BY <1>1, <2>4
    <3>2. i - 1 \notin ends
      BY <2>2, <3>1
    <3>3. ~ IsSpace(i)
      BY <3>1, <3>2
    <3> QED
      BY <3>3 DEF IsSpace, Spaces
  <2> QED
    BY <2>3, <2>4
<1> QED
  BY <1>2, <1>3

\* While nothing fails, the lines of the tokens are right, and the next will be.
LinedNow == Lined(input, root.line, nodes, ix, lines)

\* A node of one token.
LEMMA LinedOneNode ==
    ASSUME TypeOK, Placed, pc = "lexing", LinedNow, fails = 0, fails' = 0,
           NEW token \in Singles, NEW value \in Seq(Symbols) \cup {NULL},
           NEW last \in ix .. Len(input), NEW ok \in BOOLEAN,
           Allocations(Failed(ok)),
           nodes' = Set(nodes, token, value, 1, ix, last, ok),
           Advance(last + 1), UNCHANGED lines,
           \A i \in ix .. last : i \notin FeedsOf(input)
    PROVE  LinedNow'
<1>1. ok = TRUE
  BY DEF Allocations, Failed
<1>2. /\ input \in Seq(Symbols) /\ root.line \in Nat /\ nodes \in Seq(Node) /\ nodes # << >>
      /\ ix \in Nat /\ 0 < ix /\ last \in Nat /\ lines \in Nat /\ Len(input) \in Nat
      /\ ix <= last + 1 /\ ix <= Len(input) + 1
  BY TypeFacts DEF Placed, Root
<1>3. token \in token_t /\ token # "TK_STRING" /\ 1 \in Nat
  BY DEF Singles
<1>4. Filled(nodes, nodes', NodeOf(nodes, token, value, 1, ix, last), TRUE)
  BY <1>1, <1>2, <1>3, SetFills
<1>5. Lined(input, root.line, nodes', last + 1, lines + Count(FeedsOf(input), ix, last))
  BY <1>2, <1>3, <1>4, LinedToken DEF LinedNow
<1>6. Count(FeedsOf(input), ix, last) = 0
  <2>1. {k \in ix .. last : k \in FeedsOf(input)} = {}
    OBVIOUS
  <2> QED
    BY <2>1, FS_EmptySet DEF Count
<1>7. lines + Count(FeedsOf(input), ix, last) = lines
  BY <1>2, <1>6
<1>8. ix' = last + 1 /\ input' = input /\ root' = root /\ lines' = lines
  BY DEF Advance
<1> QED
  BY <1>5, <1>7, <1>8 DEF LinedNow

\* A word, or any other token that OneNode sets.
LEMMA LinedWord ==
    ASSUME TypeOK, Placed, pc = "lexing", LinedNow, fails = 0, fails' = 0,
           pc' \in {"lexing", "done"},
           NEW token \in Singles, NEW value \in Seq(Symbols) \cup {NULL},
           NEW last \in ix .. Len(input), NEW failed \in {0, 1},
           OneNode(token, value, last, failed),
           \A i \in ix .. last : i \notin FeedsOf(input)
    PROVE  LinedNow'
<1>1. PICK ok \in BOOLEAN :
        /\ Allocations(failed + Failed(ok))
        /\ nodes' = Set(nodes, token, value, 1, ix, last, ok)
        /\ \/ ok /\ Advance(last + 1) /\ UNCHANGED lines
           \/ ~ok /\ Fail
  BY DEF OneNode, Crash
<1>2. Advance(last + 1) /\ UNCHANGED lines
  BY <1>1 DEF Fail
<1>3. Allocations(Failed(ok))
  BY <1>1 DEF Allocations, Failed
<1> QED
  BY <1>1, <1>2, <1>3, LinedOneNode

\* The tokens of one node.
LEMMA LinedSingle ==
    ASSUME TypeOK, Placed, pc = "lexing", LinedNow, fails = 0, fails' = 0,
           pc' \in {"lexing", "done"}, Comma \/ Keyword \/ Truth \/ Number \/ Word
    PROVE  LinedNow'
<1>1. /\ input \in Seq(Symbols) /\ ix \in Nat /\ ix > 0 /\ ix <= Len(input) /\ ix \in ix .. Len(input)
      /\ \A i \in ix .. ix : i = ix
  BY TypeFacts DEF Placed
<1>2. /\ NULL \in Seq(Symbols) \cup {NULL} /\ <<Sym(ix)>> \in Seq(Symbols) \cup {NULL}
      /\ \A last \in ix .. Len(input) : SubSeq(input, ix, last) \in Seq(Symbols) \cup {NULL}
      /\ 0 \in {0, 1} /\ 1 \in {0, 1}
  <2>1. Sym(ix) \in Symbols
    BY <1>1 DEF Sym
  <2>2. \A last \in ix .. Len(input) : SubSeq(input, ix, last) \in Seq(Symbols)
    <3> TAKE last \in ix .. Len(input)
    <3>1. ix \in Nat \ {0} /\ last \in Nat /\ ix <= last + 1 /\ last <= Len(input)
      BY <1>1
    <3> QED
      BY <3>1, PartIs
  <2> QED
    BY <2>1, <2>2
<1>3. Sym(ix) # "LF" => \A i \in ix .. ix : i \notin FeedsOf(input)
  BY <1>1, SymIs DEF FeedsOf
<1>4. CASE Keyword
  <2>1. Sym(ix) \in DOMAIN Keywords /\ OneNode(Keywords[Sym(ix)], NULL, ix, 0)
    BY <1>4 DEF Keyword, AtKeyword
  <2>2. Sym(ix) # "LF"
    BY <2>1 DEF Keywords
  <2> QED
    BY <1>1, <1>2, <1>3, <2>1, <2>2, KeywordTokens, LinedWord
<1>5. CASE Truth
  <2>1. PICK ok \in BOOLEAN :
          OneNode("TK_BOOLEAN", IF ok THEN <<Sym(ix)>> ELSE NULL, ix, Failed(ok))
    BY <1>5 DEF Truth
  <2>2. "TK_BOOLEAN" \in Singles
    BY DEF Singles, token_t
  <2>3. Sym(ix) # "LF"
    BY <1>5 DEF Truth, AtTruth, Truths
  <2>4. Failed(ok) \in {0, 1} /\ (IF ok THEN <<Sym(ix)>> ELSE NULL) \in Seq(Symbols) \cup {NULL}
    BY <1>2 DEF Failed
  <2> QED
    BY <1>1, <1>3, <2>1, <2>2, <2>3, <2>4, LinedWord
<1>6. ASSUME NEW token \in Singles, NEW last \in ix .. Len(input), _extract_word(token, last),
             \A i \in ix .. last : i \notin FeedsOf(input)
      PROVE  LinedNow'
  <2>1. OneNode(token, SubSeq(input, ix, last), last, 0)
    BY <1>6 DEF _extract_word, Fail
  <2> QED
    BY <1>2, <1>6, <2>1, LinedWord
<1>7. CASE Number
  <2>1. "TK_NUMBER" \in Singles /\ LastDigit \in ix .. Len(input)
    BY <1>1, WordEndIs DEF Singles, token_t
  <2>2. \A i \in ix .. LastDigit : i \notin FeedsOf(input)
    BY <1>7, NoFeedInWord DEF Number
  <2> QED
    BY <1>6, <1>7, <2>1, <2>2 DEF Number
<1>8. CASE Word
  <2>1. "TK_UNKNOWN" \in Singles /\ LastOfWord \in ix .. Len(input)
    BY <1>1, WordEndIs DEF Singles, token_t
  <2>2. \A i \in ix .. LastOfWord : i \notin FeedsOf(input)
    BY <1>8, NoFeedInWord DEF Word
  <2> QED
    BY <1>6, <1>8, <2>1, <2>2 DEF Word
<1>9. CASE Comma
  <2>1. PICK ok \in BOOLEAN :
          /\ Allocations(Failed(ok))
          /\ nodes' = Set(nodes, "TK_COMMA", NULL, 1, ix, ix, ok)
          /\ Advance(ix + 1) /\ UNCHANGED lines
    BY <1>9 DEF Comma, Crash
  <2>2. "TK_COMMA" \in Singles
    BY DEF Singles, token_t
  <2>3. Sym(ix) # "LF"
    BY <1>9 DEF Comma, Lexing
  <2> QED
    BY <1>1, <1>2, <1>3, <2>1, <2>2, <2>3, LinedOneNode
<1> QED
  BY <1>4, <1>5, <1>7, <1>8, <1>9

\* Spaces, comments and line feeds.
LEMMA LinedSpace ==
    ASSUME TypeOK, Placed, pc = "lexing", LinedNow, Comment \/ Space \/ LineFeed
    PROVE  LinedNow'
<1> DEFINE n == Len(input)
<1>1. /\ input \in Seq(Symbols) /\ root.line \in Nat /\ nodes \in Seq(Node) /\ nodes # << >>
      /\ ix \in Nat /\ 0 < ix /\ ix <= n /\ n \in Nat /\ lines \in Nat
  BY TypeFacts DEF Placed, Root
<1>2. ASSUME NEW to \in Nat, ix <= to, to <= n + 1, Advance(to), UNCHANGED <<lines, nodes>>,
             \A i \in ix .. to - 1 : i \notin FeedsOf(input)
      PROVE  LinedNow'
  <2>1. Lined(input, root.line, nodes, to, lines)
    BY <1>1, <1>2, LinedSkip DEF LinedNow
  <2>2. ix' = to /\ input' = input /\ root' = root /\ lines' = lines /\ nodes' = nodes
    BY <1>2 DEF Advance
  <2> QED
    BY <2>1, <2>2 DEF LinedNow
<1>3. ASSUME Sym(ix) # "LF", Advance(ix + 1), UNCHANGED <<lines, nodes>>
      PROVE  LinedNow'
  <2>1. \A i \in ix .. (ix + 1) - 1 : i = ix
    BY <1>1
  <2>2. ix \notin FeedsOf(input)
    BY <1>3, SymIs DEF FeedsOf
  <2>3. ix + 1 \in Nat /\ ix <= ix + 1 /\ ix + 1 <= n + 1
    BY <1>1
  <2>4. \A i \in ix .. (ix + 1) - 1 : i \notin FeedsOf(input)
    BY <2>1, <2>2
  <2> QED
    BY <1>2, <1>3, <2>3, <2>4
<1>4. CASE Space
  BY <1>3, <1>4 DEF Space, Lexing
<1>5. CASE Comment
  <2> DEFINE feeds == {i \in ix .. n : Sym(i) = "LF"}
  <2>1. /\ Sym(ix) = ";" /\ UNCHANGED <<lines, nodes>>
        /\ Advance(IF feeds = {} THEN ix + 1 ELSE Min(feeds))
    BY <1>5 DEF Comment, Lexing
  <2>2. CASE feeds = {}
    BY <1>3, <2>1, <2>2
  <2>3. CASE feeds # {}
    <3> DEFINE r == Min(feeds)
    <3>1. feeds \in SUBSET Nat
      BY <1>1
    <3>2. r \in feeds /\ \A x \in feeds : r <= x
      BY <2>3, <3>1, MinProperties
    <3> HIDE DEF r
    <3>3. r \in Nat /\ ix <= r /\ r <= n + 1
      BY <1>1, <3>2
    <3>4. ASSUME NEW i \in ix .. r - 1
          PROVE  i \notin FeedsOf(input)
      <4>1. i \in ix .. n /\ ~ (r <= i)
        BY <1>1, <3>2, <3>3
      <4>2. i \notin feeds
        BY <3>2, <4>1
      <4> QED
        BY <4>1, <4>2, SymIs DEF FeedsOf
    <3>5. Advance(r)
      BY <2>1, <2>3 DEF r
    <3> QED
      BY <1>2, <2>1, <3>3, <3>4, <3>5
  <2> QED
    BY <2>2, <2>3
<1>6. CASE LineFeed
  <2>1. /\ Sym(ix) = "LF" /\ Advance(ix + 1) /\ lines' = lines + 1
        /\ nodes' = [nodes EXCEPT ![Len(nodes)].line = lines + 1]
    BY <1>6 DEF LineFeed, Lexing
  <2>2. ix \in FeedsOf(input)
    BY <1>1, <2>1, SymIs DEF FeedsOf
  <2>3. Lined(input, root.line, nodes', ix + 1, lines + 1)
    BY <1>1, <2>1, <2>2, LinedFeed DEF LinedNow
  <2>4. ix' = ix + 1 /\ input' = input /\ root' = root
    BY <2>1 DEF Advance
  <2> QED
    BY <2>1, <2>3, <2>4 DEF LinedNow
<1> QED
  BY <1>4, <1>5, <1>6

\* A string and the quotes around it: three tokens, one behind the other.
LEMMA LinedText ==
    ASSUME TypeOK, Placed, pc = "lexing", LinedNow, fails = 0, fails' = 0,
           pc' \in {"lexing", "done"}, String
    PROVE  LinedNow'
<1> DEFINE size == Len(input)
           F == FeedsOf(input)
           last == StringEnd
           raw == SubSeq(input, ix + 1, last - 1)
           feeds == LineFeeds(raw)
           value == Undouble(raw)
           Open(openOk) == Set(nodes, "TK_QUOTE", NULL, 1, ix, ix, openOk)
           Text(openOk, lost) == Set(Open(openOk), "TK_STRING", value, feeds, ix + 1, last - 1,
                                     lost # "string")
           AtQuote(openOk, lost) == Set(Text(openOk, lost), "TK_QUOTE", NULL, 1, last, last,
                                       lost # "close")
<1>1. /\ input \in Seq(Symbols) /\ root.line \in Nat /\ nodes \in Seq(Node) /\ nodes # << >>
      /\ ix \in Nat /\ 0 < ix /\ ix <= size /\ size \in Nat /\ lines \in Nat
  BY TypeFacts DEF Placed, Root
<1>2. PICK openOk \in BOOLEAN, lost \in {"none", "buffer", "string", "close"} :
        /\ Allocations(Failed(openOk) + Failed(lost = "none"))
        /\ nodes' = CASE lost = "buffer" -> Open(openOk)
                      [] lost = "string" -> Text(openOk, lost)
                      [] OTHER           -> AtQuote(openOk, lost)
        /\ \/ lost # "none" /\ Fail
           \/ /\ lost = "none"
              /\ lines' = lines + feeds
              /\ \/ last <= Len(input) /\ Advance(last + 1)
                 \/ last > Len(input) /\ ReadBeyond
  BY DEF String, Crash
<1> DEFINE open == Open(TRUE)
           text == Text(TRUE, "none")
           closed == AtQuote(TRUE, "none")
<1>3. lost = "none" /\ openOk = TRUE
  <2>1. lost = "none"
    BY <1>2 DEF Fail
  <2>2. fails' = fails + ((IF openOk = TRUE THEN 0 ELSE 1) + (IF lost = "none" THEN 0 ELSE 1))
    BY <1>2 DEF Allocations, Failed
  <2> QED
    BY <2>1, <2>2
<1>4. nodes' = closed /\ lines' = lines + feeds
  BY <1>2, <1>3
<1>5. /\ last \in ix + 1 .. size + 1 /\ raw \in Seq(Symbols) /\ Paired(raw)
      /\ last \in Nat /\ last - 1 \in Nat /\ ix + 1 \in Nat
  <2>1. last \in ix + 1 .. size + 1 /\ raw \in Seq(Symbols) /\ Paired(raw)
    BY <1>1, StringEndIs
  <2> HIDE DEF last
  <2> QED
    BY <1>1, <2>1
<1>6. ix' = last + 1 /\ input' = input /\ root' = root
  <2>1. CASE last <= Len(input)
    BY <1>2, <1>3, <1>1, <1>5, <2>1 DEF Advance
  <2>2. CASE last > Len(input)
    <3>1. ReadBeyond
      BY <1>2, <1>3, <1>1, <1>5, <2>2
    <3>2. last = size + 1
      BY <1>1, <1>5, <2>2
    <3> QED
      BY <1>1, <3>1, <3>2 DEF ReadBeyond
  <2> QED
    BY <1>1, <1>5, <2>1, <2>2
<1>7. last \notin F
  <2>1. CASE last <= Len(input)
    BY <2>1, StringCloses, SymIs DEF FeedsOf
  <2>2. CASE ~ (last <= Len(input))
    BY <2>2 DEF FeedsOf, SymAt
  <2> QED
    BY <2>1, <2>2
<1>8. ix \notin F
  BY SymIs DEF FeedsOf, String, Lexing
<1> HIDE DEF last, raw
<1>9. value \in Seq(Symbols) /\ feeds \in Nat
  <2>1. "'" \in Symbols
    BY DEF Symbols
  <2> QED
    BY <1>5, <2>1, UndoubleType, LineFeedsType
<1>10. feeds = Count(F, ix + 1, last - 1)
  <2>1. ix + 1 \in Nat \ {0} /\ last - 1 \in Nat /\ ix + 1 <= (last - 1) + 1 /\ last - 1 <= Len(input)
    BY <1>1, <1>5
  <2> QED
    BY <1>1, <2>1, FeedsOfPart DEF raw
<1> HIDE DEF value
<1>11. /\ NULL \in Seq(Symbols) \cup {NULL} /\ value \in Seq(Symbols) \cup {NULL}
       /\ "TK_QUOTE" \in token_t /\ "TK_STRING" \in token_t /\ 1 \in Nat
  BY <1>9 DEF token_t
<1>12. Filled(nodes, open, NodeOf(nodes, "TK_QUOTE", NULL, 1, ix, ix), TRUE)
  BY <1>1, <1>11, SetFills
<1> HIDE DEF Open
<1>13. open \in Seq(Node) /\ open # << >>
  BY <1>12 DEF Filled
<1>14. Filled(open, text, NodeOf(open, "TK_STRING", value, feeds, ix + 1, last - 1), TRUE)
  <2>1. Text(TRUE, "none") = Set(open, "TK_STRING", value, feeds, ix + 1, last - 1, TRUE)
    BY Zenon DEF Text, open
  <2> HIDE DEF open, feeds, Text
  <2> QED
    BY <1>5, <1>9, <1>11, <1>13, <2>1, SetFills DEF text
<1> HIDE DEF Text
<1>15. text \in Seq(Node) /\ text # << >>
  BY <1>14 DEF Filled
<1>16. Filled(text, closed, NodeOf(text, "TK_QUOTE", NULL, 1, last, last), TRUE)
  <2>1. AtQuote(TRUE, "none") = Set(text, "TK_QUOTE", NULL, 1, last, last, TRUE)
    BY Zenon DEF AtQuote, text
  <2> HIDE DEF text, AtQuote
  <2> QED
    BY <1>5, <1>11, <1>15, <2>1, SetFills DEF closed
<1> HIDE DEF AtQuote, open, text, closed, feeds
<1>17. Lined(input, root.line, open, ix + 1, lines)
  <2>1. \A i \in ix .. ix : i \notin FeedsOf(input)
    BY <1>1, <1>8
  <2>2. ix <= ix + 1 /\ ix <= Len(input) + 1
    BY <1>1
  <2>3. Lined(input, root.line, open, ix + 1, lines + Count(F, ix, ix))
    BY <1>1, <1>12, <2>1, <2>2, LinedToken DEF LinedNow
  <2>4. {k \in ix .. ix : k \in F} = {}
    BY <2>1
  <2>5. Count(F, ix, ix) = 0
    BY <2>4, FS_EmptySet DEF Count
  <2>6. lines + Count(F, ix, ix) = lines
    BY <1>1, <2>5
  <2> QED
    BY <2>3, <2>6
<1>18. Lined(input, root.line, text, last, lines + feeds)
  <2>1. /\ 0 < ix + 1 /\ ix + 1 <= (last - 1) + 1 /\ ix + 1 <= Len(input) + 1
        /\ (last - 1) + 1 = last
    BY <1>1, <1>5
  <2>2. feeds = LineFeeds(SubSeq(input, ix + 1, last - 1))
    BY DEF feeds, raw
  <2>3. Lined(input, root.line, text, (last - 1) + 1, lines + Count(FeedsOf(input), ix + 1, last - 1))
    BY <1>1, <1>5, <1>13, <1>14, <1>17, <2>1, <2>2, LinedToken
  <2> QED
    BY <1>10, <2>1, <2>3
<1>19. Lined(input, root.line, closed, last + 1, lines + feeds)
  <2>1. \A i \in last .. last : i \notin FeedsOf(input)
    BY <1>5, <1>7
  <2>2. 0 < last /\ last <= last + 1 /\ last <= Len(input) + 1 /\ lines + feeds \in Nat
    BY <1>1, <1>5, <1>9
  <2>3. Lined(input, root.line, closed, last + 1, (lines + feeds) + Count(F, last, last))
    BY <1>1, <1>5, <1>15, <1>16, <1>18, <2>1, <2>2, LinedToken
  <2>4. {k \in last .. last : k \in F} = {}
    BY <2>1
  <2>5. Count(F, last, last) = 0
    BY <2>4, FS_EmptySet DEF Count
  <2>6. (lines + feeds) + Count(F, last, last) = lines + feeds
    BY <2>2, <2>5
  <2> QED
    BY <2>3, <2>6
<1> QED
  BY <1>4, <1>6, <1>19 DEF LinedNow

\* Before the first token a line feed is all that can give it a line.
LEMMA LiningInit == Init => Lining
<1> SUFFICES ASSUME Init PROVE LinedNow
  BY DEF Lining, LinedNow
<1>1. /\ ix = 1 /\ lines = 1
      /\ nodes = <<[Unassigned EXCEPT !.token = root.token, !.line = root.line]>>
  BY DEF Init
<1>2. Len(nodes) = 1 /\ nodes[1].line = root.line
  <2>1. Len(nodes) = 1 /\ nodes[1] = [Unassigned EXCEPT !.token = root.token, !.line = root.line]
    BY <1>1
  <2> QED
    BY <2>1 DEF Unassigned
<1>3. \A k \in 1 .. Len(nodes) - 1 : FALSE
  BY <1>2
<1>4. LineAt(input, ix) = 1
  <2>1. {k \in 1 .. 0 : k \in FeedsOf(input)} = {}
    OBVIOUS
  <2> QED
    BY <1>1, <2>1, FS_EmptySet DEF LineAt, Count
<1>5. Outer(input, nodes, Len(nodes) - 1, ix) = {}
  BY <1>1 DEF Outer, FeedsOf
<1>6. LineNext(nodes) = LineDue(input, root.line, nodes, Len(nodes) - 1, ix)
  BY <1>2, <1>5 DEF LineNext, LineDue, LineBehind
<1> QED
  BY <1>1, <1>3, <1>4, <1>6 DEF LinedNow, Lined

\* Every step keeps the lines right.
LEMMA LiningNext ==
    ASSUME TypeOK, Placed, Lining, [Next]_vars
    PROVE  Lining'
<1> SUFFICES ASSUME pc' \in {"lexing", "done"}, fails' = 0 PROVE LinedNow'
  BY DEF Lining, LinedNow
<1>1. fails = 0
  <2>1. fails' >= fails /\ fails \in Nat
    BY LexSteps, TypeFacts DEF Stays
  <2> QED
    BY <2>1
<1>2. CASE UNCHANGED vars
  BY <1>1, <1>2 DEF Lining, LinedNow, vars
<1>3. CASE Lex
  <2>1. pc = "lexing"
    BY <1>3 DEF Lex, Comment, Comma, String, Keyword, Truth, Number, Word, LineFeed, Space,
                Lexing
  <2>2. LinedNow
    BY <1>1, <2>1 DEF Lining, LinedNow
  <2>3. CASE Comment \/ Space \/ LineFeed
    BY <2>1, <2>2, <2>3, LinedSpace
  <2>4. CASE Comma \/ Keyword \/ Truth \/ Number \/ Word
    BY <1>1, <2>1, <2>2, <2>4, LinedSingle
  <2>5. CASE String
    BY <1>1, <2>1, <2>2, <2>5, LinedText
  <2> QED
    BY <1>3, <2>3, <2>4, <2>5 DEF Lex
<1> QED
  BY <1>2, <1>3 DEF Next, Stopped

\* The lines as the code counts them: a token has the line that the last line
\* feed outside of a string has led to.
LinesAsCounted ==
    pc # "crashed" /\ fails = 0 =>
        /\ ix <= Len(input) + 1 => lines = LineOf(ix)
        /\ \A k \in Tokens :
              LET feeds == {i \in 1 .. nodes[k].from - 1 : Sym(i) = "LF" /\ ~InString(i)}
              IN  /\ nodes[k].line = IF feeds # {} THEN LineOf(Max(feeds) + 1)
                                     ELSE IF root.line # 0 THEN root.line ELSE 1
                  /\ nodes[k].count = IF nodes[k].token = "TK_STRING"
                                      THEN LineFeeds(SubSeq(input, nodes[k].from, nodes[k].to))
                                      ELSE 1

\* They follow from what was written down above.
LEMMA LiningIsCounted ==
    TypeOK /\ Placed /\ InOrder /\ Lining => LinesAsCounted
<1> SUFFICES ASSUME TypeOK, Placed, InOrder, Lining, pc # "crashed", fails = 0
             PROVE  /\ ix <= Len(input) + 1 => lines = LineOf(ix)
                    /\ \A k \in Tokens :
                          LET feeds == {i \in 1 .. nodes[k].from - 1 : Sym(i) = "LF" /\ ~InString(i)}
                          IN  /\ nodes[k].line = IF feeds # {} THEN LineOf(Max(feeds) + 1)
                                                 ELSE IF root.line # 0 THEN root.line ELSE 1
                              /\ nodes[k].count = IF nodes[k].token = "TK_STRING"
                                                  THEN LineFeeds(SubSeq(input, nodes[k].from, nodes[k].to))
                                                  ELSE 1
  BY DEF LinesAsCounted
<1> DEFINE n == Len(nodes) - 1
<1>1. /\ input \in Seq(Symbols) /\ ix \in Nat /\ Len(input) \in Nat /\ n \in Nat /\ ix > 0
      /\ DOMAIN nodes = 1 .. n + 1 /\ \A k \in 1 .. n + 1 : nodes[k] \in Node
  BY TypeFacts
<1>2. pc \in {"lexing", "done"}
  BY DEF Placed, TypeOK
<1>3. Lined(input, root.line, nodes, ix, lines) /\ Ordered(input, nodes, ix, fails)
  BY <1>2 DEF Lining, InOrder
<1>4. Tokens = 1 .. n
  <2>1. \A k \in 1 .. n : nodes[k].from > 0
    BY <1>3 DEF Ordered
  <2>2. ~ (nodes[n + 1].from > 0)
    <3>1. Len(nodes) = n + 1
      BY <1>1
    <3> QED
      BY <1>3, <3>1 DEF Ordered
  <2> QED
    BY <1>1, <2>1, <2>2 DEF Tokens
<1>5. ASSUME NEW i \in Nat \ {0}, i <= Len(input) + 1
      PROVE  LineOf(i) = LineAt(input, i)
  <2>1. 1 \in Nat \ {0} /\ i - 1 \in Nat /\ 1 <= (i - 1) + 1 /\ i - 1 <= Len(input)
    BY <1>1, <1>5
  <2>2. LineFeeds(SubSeq(input, 1, i - 1)) = Count(FeedsOf(input), 1, i - 1)
    BY <1>1, <2>1, FeedsOfPart
  <2> QED
    BY <2>2 DEF LineOf, LineAt
<1>6. ASSUME NEW k \in Tokens
      PROVE  LET feeds == {i \in 1 .. nodes[k].from - 1 : Sym(i) = "LF" /\ ~InString(i)}
             IN  /\ nodes[k].line = IF feeds # {} THEN LineOf(Max(feeds) + 1)
                                    ELSE IF root.line # 0 THEN root.line ELSE 1
                 /\ nodes[k].count = IF nodes[k].token = "TK_STRING"
                                     THEN LineFeeds(SubSeq(input, nodes[k].from, nodes[k].to))
                                     ELSE 1
  <2> DEFINE feeds == {i \in 1 .. nodes[k].from - 1 : Sym(i) = "LF" /\ ~InString(i)}
             F == Outer(input, nodes, n, nodes[k].from)
  <2>1. /\ k \in 1 .. n /\ nodes[k].from \in Nat
        /\ nodes[k].line = LineDue(input, root.line, nodes, n, nodes[k].from)
        /\ nodes[k].count = CountOf(input, nodes[k])
    BY <1>1, <1>3, <1>4 DEF Lined, Node
  <2>2. feeds = F
    <3>1. \A i : InString(i) <=> Inside(nodes, n, i)
      BY <1>4 DEF InString, Inside
    <3>2. \A i \in Nat : i \in 1 .. nodes[k].from - 1 <=> 1 <= i /\ i < nodes[k].from
      BY <2>1
    <3>3. \A i \in 1 .. nodes[k].from - 1 : i \in Nat \ {0}
      BY <2>1
    <3>4. \A i \in Nat \ {0} : i \in FeedsOf(input) <=> Sym(i) = "LF"
      BY SymIs DEF FeedsOf
    <3>5. FeedsOf(input) \subseteq Nat \ {0}
      BY DEF FeedsOf
    <3> QED
      BY <3>1, <3>2, <3>3, <3>4, <3>5 DEF Outer
  <2>3. F # {} => LineOf(Max(F) + 1) = LineAt(input, Max(F) + 1)
    <3> SUFFICES ASSUME F # {} PROVE LineOf(Max(F) + 1) = LineAt(input, Max(F) + 1)
      OBVIOUS
    <3>1. ASSUME NEW i \in F PROVE i \in 1 .. Len(input)
      <4>1. i \in Nat \ {0} /\ SymAt(input, i) = "LF"
        BY <3>1 DEF Outer, FeedsOf
      <4>2. i <= Len(input)
        BY <4>1 DEF SymAt
      <4> QED
        BY <1>1, <4>1, <4>2
    <3>2. F \in SUBSET (0 .. Len(input))
      BY <1>1, <3>1
    <3> HIDE DEF F
    <3>3. Max(F) \in F
      BY <1>1, <3>2, MaxProperties
    <3>4. Max(F) \in 1 .. Len(input)
      BY <3>1, <3>3
    <3>5. Max(F) + 1 \in Nat \ {0} /\ Max(F) + 1 <= Len(input) + 1
      BY <1>1, <3>4
    <3> QED
      BY <1>5, <3>5
  <2> HIDE DEF feeds, F
  <2>4. nodes[k].line = IF feeds # {} THEN LineOf(Max(feeds) + 1)
                        ELSE IF root.line # 0 THEN root.line ELSE 1
    BY <2>1, <2>2, <2>3 DEF LineDue, LineBehind, F
  <2> QED
    BY <2>1, <2>4 DEF CountOf, feeds
<1>7. ix <= Len(input) + 1 => lines = LineOf(ix)
  BY <1>1, <1>3, <1>5 DEF Lined
<1> QED
  BY <1>6, <1>7

\* The line of a position in the text, by counting.
LEMMA LineOfIs ==
    ASSUME TypeOK, NEW i \in Nat \ {0}, i <= Len(input) + 1
    PROVE  LineOf(i) = LineAt(input, i)
<1>1. /\ 1 \in Nat \ {0} /\ i - 1 \in Nat /\ 1 <= (i - 1) + 1 /\ i - 1 <= Len(input)
      /\ input \in Seq(Symbols)
  BY TypeFacts
<1>2. LineFeeds(SubSeq(input, 1, i - 1)) = Count(FeedsOf(input), 1, i - 1)
  BY <1>1, FeedsOfPart
<1> QED
  BY <1>2 DEF LineOf, LineAt

\* Between the last line feed in front of a position and the position the line
\* stays the same, and in front of the first one it is 1.
LEMMA LineSinceFeed ==
    ASSUME TypeOK, NEW at \in Nat \ {0}, at <= Len(input),
           NEW feeds, feeds = {i \in 1 .. at - 1 : Sym(i) = "LF"}
    PROVE  /\ feeds = {} => LineOf(at) = 1
           /\ feeds # {} => Max(feeds) \in feeds /\ (\A i \in feeds : i <= Max(feeds))
                            /\ LineOf(Max(feeds) + 1) = LineOf(at)
<1> DEFINE F == FeedsOf(input)
           q == at - 1
<1>1. /\ Len(input) \in Nat /\ q \in Nat /\ 1 \in Nat /\ q + 1 = at /\ at <= Len(input) + 1
  BY TypeFacts
<1>2. \A i \in 1 .. q : i \in F <=> i \in feeds
  BY SymIs DEF FeedsOf
<1>3. LineOf(at) = 1 + Count(F, 1, q)
  BY <1>1, LineOfIs DEF LineAt
<1>4. feeds \in SUBSET (0 .. q)
  BY <1>1
<1> HIDE DEF F
<1>5. CASE feeds = {}
  <2>1. 0 \in Nat /\ 1 <= 0 + 1 /\ 0 <= q /\ \A i \in 0 + 1 .. q : i \in 1 .. q
    BY <1>1
  <2>2. \A i \in 0 + 1 .. q : i \notin F
    BY <1>2, <1>5, <2>1
  <2>3. Count(F, 1, q) = Count(F, 1, 0)
    BY <1>1, <2>1, <2>2, CountNone
  <2>4. {k \in 1 .. 0 : k \in F} = {}
    OBVIOUS
  <2>5. Count(F, 1, 0) = 0
    BY <2>4, FS_EmptySet DEF Count
  <2> QED
    BY <1>3, <1>5, <2>3, <2>5
<1>6. CASE feeds # {}
  <2> DEFINE m == Max(feeds)
  <2>1. m \in feeds /\ \A i \in feeds : i <= m
    BY <1>1, <1>4, <1>6, MaxProperties
  <2>2. m \in 1 .. q
    BY <1>1, <2>1
  <2> HIDE DEF m
  <2>3. m \in Nat /\ 1 <= m + 1 /\ m <= q /\ m + 1 \in Nat \ {0} /\ m + 1 <= Len(input) + 1
        /\ (m + 1) - 1 = m
    BY <1>1, <2>2
  <2>4. ASSUME NEW i \in m + 1 .. q
        PROVE  i \notin F
    <3>1. i \in 1 .. q /\ ~ (i <= m)
      BY <1>1, <2>2
    <3> QED
      BY <1>2, <2>1, <3>1
  <2>5. Count(F, 1, q) = Count(F, 1, m)
    BY <1>1, <2>3, <2>4, CountNone
  <2>6. LineOf(m + 1) = 1 + Count(F, 1, m)
    <3>1. LineOf(m + 1) = LineAt(input, m + 1)
      BY <2>3, LineOfIs
    <3> QED
      BY <2>3, <3>1 DEF LineAt, F
  <2> QED
    BY <1>3, <1>6, <2>1, <2>5, <2>6 DEF m
<1> QED
  BY <1>5, <1>6

\* Where no string of several lines comes between, the line that was counted is
\* the line the token starts on.
LEMMA CountedIsExact ==
    ASSUME TypeOK, LinesAsCounted
    PROVE  LinesAreExact
<1>1. SUFFICES ASSUME pc # "crashed", fails = 0, NEW k \in Tokens, nodes[k].from <= Len(input),
                      NEW feeds, feeds = {i \in 1 .. nodes[k].from - 1 : Sym(i) = "LF"}
               PROVE  /\ (IF feeds = {} THEN root.line = 0 ELSE ~InString(Max(feeds))) =>
                             nodes[k].line = LineOf(nodes[k].from)
                      /\ LineFeeds(SubSeq(input, nodes[k].from, nodes[k].to)) = 0 =>
                             nodes[k].count \in {0, 1}
  BY <1>1 DEF LinesAsCounted, LinesAreExact
<1> DEFINE at == nodes[k].from
           outer == {i \in 1 .. at - 1 : Sym(i) = "LF" /\ ~InString(i)}
<1>2. /\ nodes[k].line = IF outer # {} THEN LineOf(Max(outer) + 1)
                         ELSE IF root.line # 0 THEN root.line ELSE 1
      /\ nodes[k].count = IF nodes[k].token = "TK_STRING"
                          THEN LineFeeds(SubSeq(input, nodes[k].from, nodes[k].to))
                          ELSE 1
  BY <1>1 DEF LinesAsCounted
<1>3. at \in Nat \ {0} /\ at <= Len(input)
  <2>1. k \in 1 .. Len(nodes) /\ at > 0
    BY <1>1, TypeFacts DEF Tokens
  <2>2. nodes[k] \in Node
    BY <2>1, TypeFacts
  <2> QED
    BY <1>1, <2>1, <2>2 DEF Node
<1>4. feeds = {i \in 1 .. at - 1 : Sym(i) = "LF"}
  BY <1>1
<1> HIDE DEF at
<1>5. /\ feeds = {} => LineOf(at) = 1
      /\ feeds # {} => Max(feeds) \in feeds /\ (\A i \in feeds : i <= Max(feeds))
                       /\ LineOf(Max(feeds) + 1) = LineOf(at)
  BY <1>3, <1>4, LineSinceFeed
<1>6. CASE feeds = {} /\ root.line = 0
  <2>1. outer = {}
    BY <1>4, <1>6
  <2> QED
    BY <1>2, <1>5, <1>6, <2>1 DEF at
<1>7. CASE feeds # {} /\ ~InString(Max(feeds))
  <2>1. Max(feeds) \in outer
    BY <1>4, <1>5, <1>7
  <2>2. outer \in SUBSET (0 .. at) /\ at \in Nat /\ \A i \in outer : i \in feeds
    BY <1>3, <1>4
  <2>5. \A i \in outer : i \in Int
    BY <1>3
  <2> HIDE DEF outer
  <2>3. Max(outer) \in outer /\ \A i \in outer : i <= Max(outer)
    BY <2>1, <2>2, MaxProperties
  <2>4. Max(outer) = Max(feeds)
    <3>1. Max(outer) <= Max(feeds) /\ Max(feeds) <= Max(outer)
      BY <1>5, <1>7, <2>1, <2>2, <2>3
    <3>2. Max(outer) \in Int /\ Max(feeds) \in Int
      BY <2>1, <2>3, <2>5
    <3> QED
      BY <3>1, <3>2
  <2> QED
    BY <1>2, <1>5, <1>7, <2>1, <2>4 DEF at
<1> QED
  BY <1>2, <1>6, <1>7 DEF at

\* Without failed allocations the lexer counts lines exactly, and a token has
\* the line it starts on, unless a string of several lines stands between it
\* and the line feed in front of it or malloc has left a line in the first node.
THEOREM ExactLines == Spec => []LinesAreExact
<1>1. Init => Lining
  BY LiningInit
<1>2. TypeOK /\ Placed /\ Lining /\ [Next]_vars => Lining'
  BY LiningNext
<1>3. TypeOK /\ Placed /\ InOrder /\ Lining => LinesAreExact
  BY LiningIsCounted, CountedIsExact
<1> QED
  BY <1>1, <1>2, <1>3, LexerTypes, OrderHolds, PTL DEF Spec
=============================================================================
