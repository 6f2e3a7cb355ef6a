------------------------- MODULE SerializerTextProofs -------------------------
(* What mcfg_serialize returns without an error is the text of the document  *)
(* that it was given.  From the pieces that are appended to the text of a    *)
(* value, from there to fields, lists, sections, sectors and the file, and   *)
(* at last the invariant of the steps.                                       *)
EXTENDS SerializerProofs

-----------------------------------------------------------------------------
(* Sequences joined.                                                         *)

\* h joins the sequences one by one.
Joining(h, seqs, n) ==
    h[0] = << >> /\ \A i \in 1 .. n : h[i] = h[i - 1] \o seqs[i]

\* There is one way to take the steps.
LEMMA JoinUnique ==
    ASSUME NEW seqs, NEW n \in Nat, NEW h, NEW g, Joining(h, seqs, n), Joining(g, seqs, n)
    PROVE  \A i \in 0 .. n : h[i] = g[i]
<1>0. /\ h[0] = << >> /\ \A i \in 1 .. n : h[i] = h[i - 1] \o seqs[i]
      /\ g[0] = << >> /\ \A i \in 1 .. n : g[i] = g[i - 1] \o seqs[i]
  BY DEF Joining
<1> DEFINE T == {i \in Nat : i <= n => h[i] = g[i]}
<1>1. 0 \in T
  BY <1>0
<1>2. ASSUME NEW i \in Nat, i \in T
      PROVE  i + 1 \in T
  <2>1. ASSUME i + 1 <= n
        PROVE  h[i + 1] = g[i + 1]
    <3>1. i + 1 \in 1 .. n /\ (i + 1) - 1 = i /\ i <= n
      BY <2>1
    <3>2. h[i + 1] = h[i] \o seqs[i + 1] /\ g[i + 1] = g[i] \o seqs[i + 1]
      BY <1>0, <3>1
    <3> QED
      BY <1>2, <3>1, <3>2
  <2> QED
    BY <2>1
<1>3. \A i \in Nat : i \in T
  <2> HIDE DEF T
  <2> QED
    BY <1>1, <1>2, SetInduction
<1> QED
  BY <1>3

\* Any way to take them leads to what FlattenSeq makes of the sequences.
LEMMA JoinIsFlatten ==
    ASSUME NEW S, NEW seqs \in Seq(Seq(S)), NEW h, Joining(h, seqs, Len(seqs))
    PROVE  h[Len(seqs)] = FlattenSeq(seqs)
<1>1. PICK g \in [0 .. Len(seqs) -> Seq(S)] :
        /\ g[0] = << >> /\ g[Len(seqs)] = FlattenSeq(seqs)
        /\ \A i \in 1 .. Len(seqs) : g[i] = g[i - 1] \o seqs[i]
  BY FlattenIs
<1>2. Len(seqs) \in Nat /\ Len(seqs) \in 0 .. Len(seqs)
  BY LenProperties
<1>3. \A i \in 0 .. Len(seqs) : h[i] = g[i]
  <2>1. Joining(g, seqs, Len(seqs))
    BY <1>1 DEF Joining
  <2> QED
    BY <1>2, <2>1, JoinUnique
<1> QED
  BY <1>1, <1>2, <1>3

\* FlattenSeq joins.
LEMMA FlattenJoins ==
    ASSUME NEW S, NEW seqs \in Seq(Seq(S)), NEW n, n = Len(seqs)
    PROVE  \E h : /\ Joining(h, seqs, n) /\ h[n] = FlattenSeq(seqs)
                  /\ \A i \in 0 .. n : h[i] \in Seq(S)
BY FlattenIs DEF Joining

\* One sequence more,
LEMMA FlattenAppend ==
    ASSUME NEW S, NEW seqs \in Seq(Seq(S)), NEW x \in Seq(S)
    PROVE  /\ Append(seqs, x) \in Seq(Seq(S))
           /\ FlattenSeq(Append(seqs, x)) = FlattenSeq(seqs) \o x
<1> DEFINE n == Len(seqs)
           all == Append(seqs, x)
<1>1. PICK h \in [0 .. n -> Seq(S)] :
        /\ h[0] = << >> /\ h[n] = FlattenSeq(seqs)
        /\ \A i \in 1 .. n : h[i] = h[i - 1] \o seqs[i]
  BY FlattenIs
<1>2. /\ n \in Nat /\ all \in Seq(Seq(S)) /\ Len(all) = n + 1 /\ all[n + 1] = x
      /\ \A i \in 1 .. n : all[i] = seqs[i]
  BY AppendProperties, LenProperties
<1> DEFINE g == [i \in 0 .. n + 1 |-> IF i = n + 1 THEN h[n] \o x ELSE h[i]]
<1> HIDE DEF n, all
<1>3. g[0] = << >> /\ g[n + 1] = h[n] \o x
  BY <1>1, <1>2
<1>4. ASSUME NEW i \in 1 .. Len(all)
      PROVE  g[i] = g[i - 1] \o all[i]
  <2>1. i \in 1 .. n \/ i = n + 1
    BY <1>2
  <2>2. CASE i \in 1 .. n
    <3>1. /\ i \in 0 .. n + 1 /\ i - 1 \in 0 .. n + 1 /\ i # n + 1 /\ i - 1 # n + 1
      BY <1>2, <2>2
    <3>2. g[i] = h[i] /\ g[i - 1] = h[i - 1]
      BY <3>1
    <3> QED
      BY <1>1, <1>2, <2>2, <3>2
  <2>3. CASE i = n + 1
    <3>1. i - 1 = n /\ n \in 0 .. n + 1 /\ n # n + 1
      BY <1>2, <2>3
    <3>2. g[n] = h[n]
      BY <3>1
    <3> QED
      BY <1>2, <1>3, <2>3, <3>1, <3>2
  <2> QED
    BY <2>1, <2>2, <2>3
<1> HIDE DEF g
<1>5. g[Len(all)] = FlattenSeq(all)
  BY <1>2, <1>3, <1>4, JoinIsFlatten DEF Joining
<1> QED
  BY <1>1, <1>2, <1>3, <1>5 DEF all

\* A pair, written out.
LEMMA TupleOf2 ==
    ASSUME NEW T, NEW x \in T, NEW y \in T
    PROVE  Append(<<x>>, y) = <<x, y>>
<1> DEFINE s == Append(<<x>>, y)
           t == <<x, y>>
<1>1. s \in Seq(T) /\ Len(s) = 2 /\ s[1] = x /\ s[2] = y
  OBVIOUS
<1>2. t \in Seq(T) /\ Len(t) = 2 /\ t[1] = x /\ t[2] = y
  OBVIOUS
<1> HIDE DEF s, t
<1>3. s = t
  <2>1. \A i \in 1 .. 2 : i = 1 \/ i = 2
    OBVIOUS
  <2> QED
    BY <1>1, <1>2, <2>1, SeqEqual
<1> QED
  BY <1>3 DEF s, t

\* No sequence, one, and two.
LEMMA FlattenFew ==
    ASSUME NEW S
    PROVE  /\ FlattenSeq(<< >>) = << >>
           /\ \A a \in Seq(S) : FlattenSeq(<<a>>) = a
           /\ \A a, b \in Seq(S) : FlattenSeq(<<a, b>>) = a \o b
<1>1. FlattenSeq(<< >>) = << >>
  <2>1. Len(<< >>) = 0
    OBVIOUS
  <2> QED
    BY <2>1 DEF FlattenSeq
<1>2. ASSUME NEW a \in Seq(S)
      PROVE  <<a>> \in Seq(Seq(S)) /\ FlattenSeq(<<a>>) = a
  <2>1. << >> \in Seq(Seq(S)) /\ Append(<< >>, a) = <<a>>
    OBVIOUS
  <2>2. FlattenSeq(<<a>>) = << >> \o a /\ <<a>> \in Seq(Seq(S))
    BY <1>1, <2>1, FlattenAppend
  <2> QED
    BY <2>2, ConcatEmptySeq
<1>3. ASSUME NEW a \in Seq(S), NEW b \in Seq(S)
      PROVE  <<a, b>> \in Seq(Seq(S)) /\ FlattenSeq(<<a, b>>) = a \o b
  <2>1. Append(<<a>>, b) = <<a, b>>
    BY TupleOf2
  <2> QED
    BY <1>2, <2>1, FlattenAppend
<1>4. \A a \in Seq(S) : FlattenSeq(<<a>>) = a
  BY <1>2
<1>5. \A a, b \in Seq(S) : FlattenSeq(<<a, b>>) = a \o b
  BY <1>3
<1> QED
  BY <1>1, <1>4, <1>5

\* Two parts.
LEMMA FlattenConcat ==
    ASSUME NEW S, NEW a \in Seq(Seq(S)), NEW b \in Seq(Seq(S))
    PROVE  /\ a \o b \in Seq(Seq(S))
           /\ FlattenSeq(a \o b) = FlattenSeq(a) \o FlattenSeq(b)
<1> DEFINE m == Len(a)
           n == Len(b)
           all == a \o b
<1>1. /\ m \in Nat /\ n \in Nat /\ all \in Seq(Seq(S)) /\ Len(all) = m + n
      /\ \A i \in 1 .. m : all[i] = a[i] /\ a[i] \in Seq(S)
      /\ \A i \in 1 .. n : all[m + i] = b[i] /\ b[i] \in Seq(S)
  <2>1. m \in Nat /\ n \in Nat /\ all \in Seq(Seq(S)) /\ Len(all) = m + n
    BY ConcatProperties, LenProperties
  <2>2. \A i \in 1 .. m + n : all[i] = IF i <= m THEN a[i] ELSE b[i - m]
    BY ConcatProperties
  <2>3. \A i \in 1 .. m : all[i] = a[i] /\ a[i] \in Seq(S)
    BY <2>1, <2>2, ElementOfSeq
  <2>4. ASSUME NEW i \in 1 .. n
        PROVE  all[m + i] = b[i] /\ b[i] \in Seq(S)
    <3>1. m + i \in 1 .. m + n /\ ~(m + i <= m) /\ (m + i) - m = i
      BY <2>1
    <3> QED
      BY <2>2, <3>1, ElementOfSeq
  <2> QED
    BY <2>1, <2>3, <2>4
<1>2. PICK f : /\ Joining(f, a, m) /\ f[m] = FlattenSeq(a)
               /\ \A i \in 0 .. m : f[i] \in Seq(S)
  BY FlattenJoins
<1>3. PICK g : /\ Joining(g, b, n) /\ g[n] = FlattenSeq(b)
               /\ \A i \in 0 .. n : g[i] \in Seq(S)
  BY FlattenJoins
<1>4. PICK h : /\ Joining(h, all, Len(all)) /\ h[Len(all)] = FlattenSeq(all)
               /\ \A i \in 0 .. Len(all) : h[i] \in Seq(S)
  BY <1>1, FlattenJoins
<1> HIDE DEF m, n, all
<1>5. h[m] = f[m]
  <2>1. ASSUME NEW i \in 1 .. m
        PROVE  h[i] = h[i - 1] \o a[i]
    <3>1. i \in 1 .. Len(all)
      BY <1>1
    <3> QED
      BY <1>1, <1>4, <3>1 DEF Joining
  <2>2. m \in 0 .. m
    BY <1>1
  <2>3. \A i \in 0 .. m : h[i] = f[i]
    <3>1. Joining(h, a, m) /\ Joining(f, a, m)
      BY <1>2, <1>4, <2>1 DEF Joining
    <3>2. m \in Nat
      BY <1>1
    <3> QED
      BY <3>1, <3>2, JoinUnique
  <2> QED
    BY <2>2, <2>3
<1> DEFINE T == {i \in Nat : i <= n => h[m + i] = f[m] \o g[i]}
<1>6. f[m] \in Seq(S)
  BY <1>1, <1>2
<1>7. 0 \in T
  <2>1. m + 0 = m /\ f[m] \o << >> = f[m]
    BY <1>1, <1>6, ConcatEmptySeq
  <2> QED
    BY <1>3, <1>5, <2>1 DEF Joining
<1>8. ASSUME NEW i \in Nat, i \in T
      PROVE  i + 1 \in T
  <2>1. ASSUME i + 1 <= n
        PROVE  h[m + (i + 1)] = f[m] \o g[i + 1]
    <3>1. /\ i + 1 \in 1 .. n /\ (i + 1) - 1 = i /\ i <= n /\ i \in 0 .. n
          /\ m + (i + 1) \in 1 .. Len(all) /\ (m + (i + 1)) - 1 = m + i
      BY <1>1, <2>1
    <3>2. g[i + 1] = g[i] \o b[i + 1] /\ h[m + (i + 1)] = h[m + i] \o b[i + 1]
      BY <1>1, <1>3, <1>4, <3>1 DEF Joining
    <3>3. g[i] \in Seq(S) /\ b[i + 1] \in Seq(S)
      BY <1>1, <1>3, <3>1
    <3> DEFINE x == f[m]
               y == g[i]
               z == b[i + 1]
    <3>5. x \in Seq(S) /\ y \in Seq(S) /\ z \in Seq(S)
      BY <1>6, <3>3
    <3>6. h[m + (i + 1)] = (x \o y) \o z /\ g[i + 1] = y \o z
      BY <1>8, <3>1, <3>2
    <3> HIDE DEF x, y, z
    <3>4. (x \o y) \o z = x \o (y \o z)
      BY <3>5, ConcatAssociative
    <3>7. h[m + (i + 1)] = x \o g[i + 1]
      BY <3>4, <3>6
    <3> QED
      BY <3>7 DEF x
  <2>2. i + 1 \in Nat
    OBVIOUS
  <2> QED
    BY <2>1, <2>2
<1>9. n \in T
  <2> HIDE DEF T
  <2> QED
    BY <1>1, <1>7, <1>8, SetInduction
<1>10. h[m + n] = f[m] \o g[n]
  <2>1. n <= n
    BY <1>1
  <2> QED
    BY <1>9, <2>1
<1>11. FlattenSeq(all) = FlattenSeq(a) \o FlattenSeq(b)
  BY <1>1, <1>2, <1>3, <1>4, <1>10
<1> QED
  BY <1>1, <1>11 DEF all

\* Joining what has been joined is joining the parts joined.
LEMMA FlattenFlatten ==
    ASSUME NEW S, NEW f \in Seq(Seq(Seq(S)))
    PROVE  LET parts == [k \in 1 .. Len(f) |-> FlattenSeq(f[k])]
           IN  /\ parts \in Seq(Seq(S)) /\ Len(parts) = Len(f)
               /\ FlattenSeq(f) \in Seq(Seq(S))
               /\ FlattenSeq(FlattenSeq(f)) = FlattenSeq(parts)
<1> DEFINE n == Len(f)
           parts == [k \in 1 .. n |-> FlattenSeq(f[k])]
<1>1. n \in Nat /\ \A k \in 1 .. n : f[k] \in Seq(Seq(S)) /\ FlattenSeq(f[k]) \in Seq(S)
  BY LenProperties, ElementOfSeq, FlattenType
<1>2. parts \in Seq(Seq(S)) /\ Len(parts) = n
  BY <1>1
<1>3. PICK h \in [0 .. n -> Seq(Seq(S))] :
        /\ h[0] = << >> /\ h[n] = FlattenSeq(f)
        /\ \A i \in 1 .. n : h[i] = h[i - 1] \o f[i]
  BY FlattenIs
<1> DEFINE g == [i \in 0 .. n |-> FlattenSeq(h[i])]
<1>4. g[0] = << >>
  BY <1>1, <1>3, FlattenFew
<1>5. ASSUME NEW i \in 1 .. n
      PROVE  g[i] = g[i - 1] \o parts[i]
  <2>1. i \in 0 .. n /\ i - 1 \in 0 .. n
    BY <1>1
  <2>2. h[i - 1] \in Seq(Seq(S)) /\ f[i] \in Seq(Seq(S)) /\ h[i] = h[i - 1] \o f[i]
    BY <1>1, <1>3, <2>1
  <2>3. FlattenSeq(h[i]) = FlattenSeq(h[i - 1]) \o FlattenSeq(f[i])
    BY <2>2, FlattenConcat
  <2> QED
    BY <2>1, <2>3
<1>6. g[n] = FlattenSeq(parts)
  <2> HIDE DEF g, parts
  <2> QED
    BY <1>2, <1>4, <1>5, JoinIsFlatten DEF Joining
<1>7. FlattenSeq(f) \in Seq(Seq(S))
  BY FlattenType
<1>8. g[n] = FlattenSeq(FlattenSeq(f))
  <2>1. n \in 0 .. n
    BY <1>1
  <2> QED
    BY <1>3, <2>1
<1> HIDE DEF g
<1> QED
  BY <1>2, <1>6, <1>7, <1>8

\* What a fold that joins looks like, once FoldLeft is expanded.
JoinBody(g, seqs, n) ==
    [s \in SUBSET (1 .. n) |-> IF s = {} THEN << >> ELSE g[s \ {Max(s)}] \o seqs[Max(s)]]

\* There is a function that joins,
LEMMA JoinBodyExists ==
    ASSUME NEW S, NEW seqs \in Seq(Seq(S))
    PROVE  \E g : g = JoinBody(g, seqs, Len(seqs))
<1> DEFINE n == Len(seqs)
           A == Seq(S)
           step == [p \in A \X (1 .. n) |-> p[1] \o seqs[p[2]]]
<1>1. n \in Nat /\ << >> \in A /\ \A i \in 1 .. n : seqs[i] \in A
  BY EmptySeq, LenProperties, ElementOfSeq
<1>2. step \in [A \X (1 .. n) -> A]
  <2>1. ASSUME NEW p \in A \X (1 .. n)
        PROVE  p[1] \o seqs[p[2]] \in A
    <3>1. p[1] \in A /\ seqs[p[2]] \in A
      BY <1>1
    <3> QED
      BY <3>1, ConcatProperties
  <2> QED
    BY <2>1
<1>3. ASSUME NEW a \in A, NEW i \in 1 .. n
      PROVE  step[a, i] = a \o seqs[i]
  OBVIOUS
<1> HIDE DEF n, A, step
<1>4. PICK g \in [SUBSET (1 .. n) -> A] : Folds(g, << >>, step, n)
  BY <1>1, <1>2, FoldExists
<1>5. ASSUME NEW s \in SUBSET (1 .. n)
      PROVE  g[s] = IF s = {} THEN << >> ELSE g[s \ {Max(s)}] \o seqs[Max(s)]
  <2>1. CASE s = {}
    BY <1>4, <2>1 DEF Folds
  <2>2. CASE s # {}
    <3>1. Max(s) \in 1 .. n /\ g[s \ {Max(s)}] \in A
      BY <1>1, <1>4, <2>2, MaxOfInterval
    <3>2. g[s] = step[g[s \ {Max(s)}], Max(s)]
      BY <1>4, <2>2 DEF Folds
    <3> QED
      BY <1>3, <2>2, <3>1, <3>2
  <2> QED
    BY <2>1, <2>2
<1>6. g = JoinBody(g, seqs, n)
  BY <1>4, <1>5 DEF JoinBody
<1> QED
  BY <1>6 DEF n

\* and what it computes is what FlattenSeq computes.
LEMMA FoldJoins ==
    ASSUME NEW S, NEW seqs \in Seq(Seq(S)), NEW f, f = JoinBody(f, seqs, Len(seqs))
    PROVE  f[1 .. Len(seqs)] = FlattenSeq(seqs)
<1> DEFINE n == Len(seqs)
           h == [i \in 0 .. n |-> f[1 .. i]]
<1>1. n \in Nat
  BY LenProperties
<1>2. ASSUME NEW s \in SUBSET (1 .. n)
      PROVE  f[s] = IF s = {} THEN << >> ELSE f[s \ {Max(s)}] \o seqs[Max(s)]
  BY DEF JoinBody
<1>3. h[0] = << >>
  <2>1. 1 .. 0 = {} /\ 0 \in 0 .. n /\ {} \in SUBSET (1 .. n)
    BY <1>1
  <2> QED
    BY <1>2, <2>1
<1>4. ASSUME NEW i \in 1 .. n
      PROVE  h[i] = h[i - 1] \o seqs[i]
  <2> HIDE DEF n, h
  <2>1. /\ i - 1 \in Nat /\ (i - 1) + 1 = i /\ i \in 1 .. i /\ i \in 0 .. n /\ i - 1 \in 0 .. n
        /\ 1 .. i # {} /\ 1 .. i \in SUBSET (1 .. n)
    <3>1. i \in Nat /\ 1 <= i /\ i <= n
      BY <1>1
    <3>2. /\ i - 1 \in Nat /\ (i - 1) + 1 = i /\ i \in 1 .. i
          /\ i \in 0 .. n /\ i - 1 \in 0 .. n
      BY <1>1, <3>1
    <3>3. \A x \in 1 .. i : x \in 1 .. n
      BY <1>1, <3>1
    <3> QED
      BY <3>2, <3>3
  <2>3. (1 .. i) \ {i} = 1 .. i - 1
    BY <1>1
  <2>2. Max(1 .. i) = i
    BY <2>1, MaxWithLast
  <2>4. f[1 .. i] = f[1 .. i - 1] \o seqs[i]
    BY <1>2, <2>1, <2>2, <2>3
  <2> QED
    BY <2>1, <2>4 DEF h
<1>5. h[n] = f[1 .. n]
  BY <1>1
<1> HIDE DEF h
<1> QED
  BY <1>3, <1>4, <1>5, JoinIsFlatten DEF Joining

-----------------------------------------------------------------------------
(* What a string is written as.                                              *)

LEMMA PiecesLoop ==
    ASSUME NEW text \in Text
    PROVE  \E h : /\ h[0] = << << >> >> /\ h[Len(text)] = Pieces(text)
                  /\ \A i \in 0 .. Len(text) : h[i] \in Seq(Text) /\ h[i] # << >>
                  /\ \A i \in 1 .. Len(text) : h[i] = Piece(h[i - 1], text[i])
<1> DEFINE n == Len(text)
           A == Seq(Text) \ {<< >>}
           step == [p \in A \X (1 .. n) |-> Piece(p[1], text[p[2]])]
           Body(g) == [s \in SUBSET DOMAIN text |->
                          IF s = {} THEN << << >> >>
                          ELSE Piece(g[s \ {Max(s)}], text[Max(s)])]
           fold == CHOOSE g : g = Body(g)
<1>1. Pieces(text) = fold[DOMAIN text]
  BY DEF Pieces, Piece, FoldLeft, MapThenFoldSet
<1>2. n \in Nat /\ DOMAIN text = 1 .. n
  BY TextIs
<1>3. << << >> >> \in A
  <2>1. \A S, x : x \in S => <<x>> \in Seq(S) \ {<< >>}
    OBVIOUS
  <2> QED
    BY <2>1, TextLiterals
<1>4. ASSUME NEW a \in A, NEW i \in 1 .. n
      PROVE  Piece(a, text[i]) \in A
  BY PieceType, TextIs
<1> HIDE DEF A
<1>5. step \in [A \X (1 .. n) -> A]
  <2>1. ASSUME NEW p \in A \X (1 .. n)
        PROVE  Piece(p[1], text[p[2]]) \in A
    <3>1. p[1] \in A /\ p[2] \in 1 .. n
      OBVIOUS
    <3> QED
      BY <1>4, <3>1
  <2> QED
    BY <2>1
<1>6. ASSUME NEW a \in A, NEW i \in 1 .. n
      PROVE  step[a, i] = Piece(a, text[i])
  OBVIOUS
<1>7. ASSUME NEW s \in SUBSET (1 .. n), s # {}
      PROVE  Max(s) \in 1 .. n
  BY <1>2, <1>7, MaxOfInterval
<1> HIDE DEF n, step
<1>8. PICK g \in [SUBSET (1 .. n) -> A] : Folds(g, << << >> >>, step, n)
  BY <1>2, <1>3, <1>5, FoldExists
<1>9. g = Body(g)
  <2>1. ASSUME NEW s \in SUBSET (1 .. n), s # {}
        PROVE  g[s] = Piece(g[s \ {Max(s)}], text[Max(s)])
    <3>1. g[s \ {Max(s)}] \in A
      BY <1>8
    <3>2. g[s] = step[g[s \ {Max(s)}], Max(s)]
      BY <1>8, <2>1 DEF Folds
    <3> QED
      BY <1>6, <1>7, <2>1, <3>1, <3>2
  <2>2. g[{}] = << << >> >>
    BY <1>8 DEF Folds
  <2> QED
    BY <1>2, <1>8, <2>1, <2>2
<1>10. PICK f : f = Body(f) /\ Pieces(text) = f[1 .. n]
  BY <1>1, <1>2, <1>9
<1>11. FoldsOver(f, A, << << >> >>, step, n)
  <2>1. f[{}] = << << >> >>
    BY <1>10
  <2>2. ASSUME NEW s \in SUBSET (1 .. n), s # {}, f[s \ {Max(s)}] \in A
        PROVE  f[s] = step[f[s \ {Max(s)}], Max(s)]
    <3>1. f[s] = Piece(f[s \ {Max(s)}], text[Max(s)])
      BY <1>2, <1>10, <2>2
    <3> QED
      BY <1>6, <1>7, <2>2, <3>1
  <2> QED
    BY <2>1, <2>2 DEF FoldsOver
<1>12. PICK h \in [0 .. n -> A] :
         /\ h[0] = << << >> >> /\ h[n] = Pieces(text)
         /\ \A i \in 1 .. n : h[i] = step[h[i - 1], i]
  <2>1. Loops(f[1 .. n], A, << << >> >>, step, n)
    BY <1>2, <1>3, <1>5, <1>11, FoldIsLoop
  <2> QED
    BY <1>10, <2>1 DEF Loops
<1>13. ASSUME NEW i \in 1 .. n
       PROVE  h[i] = Piece(h[i - 1], text[i])
  <2>1. i - 1 \in 0 .. n
    BY <1>2
  <2> QED
    BY <1>6, <1>12, <2>1
<1>14. \A i \in 0 .. n : h[i] \in Seq(Text) /\ h[i] # << >>
  BY <1>12 DEF A
<1> QED
  BY <1>12, <1>13, <1>14 DEF n

\* The parts that a text falls into, without the NULs.
Kept1(s) == IF s = "NUL" THEN << >> ELSE <<s>>
KeptParts(text) == [k \in 1 .. Len(text) |-> Kept1(text[k])]

LEMMA WithoutNulIs ==
    ASSUME NEW text \in Text
    PROVE  KeptParts(text) \in Seq(Text) /\ WithoutNul(text) = FlattenSeq(KeptParts(text))
<1> DEFINE n == Len(text)
           parts == KeptParts(text)
           Body(g) == [s \in SUBSET DOMAIN text |->
                          IF s = {} THEN << >>
                          ELSE g[s \ {Max(s)}] \o IF text[Max(s)] = "NUL" THEN << >>
                                                  ELSE <<text[Max(s)]>>]
           fold == CHOOSE g : g = Body(g)
<1>1. WithoutNul(text) = fold[DOMAIN text]
  BY DEF WithoutNul, TextOfAll, FoldLeft, MapThenFoldSet
<1>2. n \in Nat /\ DOMAIN text = 1 .. n /\ \A k \in 1 .. n : text[k] \in Symbols
  BY TextIs
<1>3. parts \in Seq(Text) /\ Len(parts) = n /\ \A k \in 1 .. n : parts[k] = Kept1(text[k])
  <2>1. \A k \in 1 .. n : Kept1(text[k]) \in Text
    BY <1>2, TextLiterals DEF Kept1
  <2> QED
    BY <1>2, <2>1 DEF KeptParts
<1> HIDE DEF parts, n
<1>4. ASSUME NEW g
      PROVE  Body(g) = JoinBody(g, parts, n)
  <2>1. ASSUME NEW s \in SUBSET (1 .. n), s # {}
        PROVE  parts[Max(s)] = IF text[Max(s)] = "NUL" THEN << >> ELSE <<text[Max(s)]>>
    <3>1. Max(s) \in 1 .. n
      BY <1>2, <2>1, MaxOfInterval
    <3> QED
      BY <1>3, <3>1 DEF Kept1
  <2> QED
    BY <1>2, <2>1 DEF JoinBody
<1> HIDE DEF Body
<1>5. parts \in Seq(Seq(Symbols))
  BY <1>3 DEF Text
<1>6. fold = JoinBody(fold, parts, n)
  <2>1. \E g : g = Body(g)
    BY <1>3, <1>4, <1>5, JoinBodyExists
  <2> QED
    BY <1>4, <2>1
<1> HIDE DEF fold
<1>7. fold[1 .. n] = FlattenSeq(parts)
  BY <1>3, <1>5, <1>6, FoldJoins
<1> QED
  BY <1>1, <1>2, <1>3, <1>7 DEF parts

\* The parts that a text falls into, its quotes doubled.
DoubledParts(text) == [k \in 1 .. Len(text) |-> Doubled(text[k])]

LEMMA RedoubleIs ==
    ASSUME NEW text \in Text
    PROVE  /\ DoubledParts(text) \in Seq(Text) /\ Redouble(text) = FlattenSeq(DoubledParts(text))
           /\ Redouble(text) \in Text
<1> DEFINE n == Len(text)
           parts == DoubledParts(text)
           Body(g) == [s \in SUBSET DOMAIN text |->
                          IF s = {} THEN << >> ELSE g[s \ {Max(s)}] \o Doubled(text[Max(s)])]
           fold == CHOOSE g : g = Body(g)
<1>1. Redouble(text) = fold[DOMAIN text]
  BY DEF Redouble, FoldLeft, MapThenFoldSet
<1>2. n \in Nat /\ DOMAIN text = 1 .. n /\ \A k \in 1 .. n : text[k] \in Symbols
  BY TextIs
<1>3. parts \in Seq(Text) /\ Len(parts) = n /\ \A k \in 1 .. n : parts[k] = Doubled(text[k])
  <2>1. \A k \in 1 .. n : Doubled(text[k]) \in Text
    BY <1>2, TextLiterals DEF Doubled
  <2> QED
    BY <1>2, <2>1 DEF DoubledParts
<1> HIDE DEF parts, n
<1>4. ASSUME NEW g
      PROVE  Body(g) = JoinBody(g, parts, n)
  <2>1. ASSUME NEW s \in SUBSET (1 .. n), s # {}
        PROVE  parts[Max(s)] = Doubled(text[Max(s)])
    <3>1. Max(s) \in 1 .. n
      BY <1>2, <2>1, MaxOfInterval
    <3> QED
      BY <1>3, <3>1
  <2> QED
    BY <1>2, <2>1 DEF JoinBody
<1> HIDE DEF Body
<1>5. parts \in Seq(Seq(Symbols))
  BY <1>3 DEF Text
<1>6. fold = JoinBody(fold, parts, n)
  <2>1. \E g : g = Body(g)
    BY <1>3, <1>4, <1>5, JoinBodyExists
  <2> QED
    BY <1>4, <2>1
<1> HIDE DEF fold
<1>7. fold[1 .. n] = FlattenSeq(parts)
  BY <1>3, <1>5, <1>6, FoldJoins
<1>8. FlattenSeq(parts) \in Text
  BY <1>5, FlattenType DEF Text
<1> QED
  BY <1>1, <1>2, <1>3, <1>7, <1>8 DEF parts

\* One symbol more, and none.
LEMMA RedoubleMore ==
    ASSUME NEW text \in Text, NEW s \in Symbols
    PROVE  Redouble(Append(text, s)) = Redouble(text) \o Doubled(s)
<1> DEFINE n == Len(text)
           all == Append(text, s)
           parts == DoubledParts(text)
<1>1. /\ n \in Nat /\ all \in Text /\ Len(all) = n + 1 /\ all[n + 1] = s
      /\ \A i \in 1 .. n : all[i] = text[i]
  BY AppendProperties, LenProperties DEF Text
<1>2. parts \in Seq(Text) /\ Doubled(s) \in Text
  BY RedoubleIs, TextLiterals DEF Doubled
<1>3. DoubledParts(all) = Append(parts, Doubled(s))
  <2> DEFINE p == DoubledParts(all)
             q == Append(parts, Doubled(s))
  <2>1. Len(parts) = n /\ \A i \in 1 .. n : parts[i] = Doubled(text[i])
    BY <1>1 DEF DoubledParts
  <2>2. p \in Seq(Text) /\ Len(p) = n + 1 /\ \A i \in 1 .. n + 1 : p[i] = Doubled(all[i])
    <3>1. p \in Seq(Text)
      BY <1>1, RedoubleIs
    <3>2. \A x : Len(x) \in Nat => /\ Len(DoubledParts(x)) = Len(x)
                                   /\ \A i \in 1 .. Len(x) : DoubledParts(x)[i] = Doubled(x[i])
      BY DEF DoubledParts
    <3> HIDE DEF all
    <3>3. Len(all) \in Nat
      BY <1>1
    <3> QED
      BY <1>1, <3>1, <3>2, <3>3
  <2>3. /\ q \in Seq(Text) /\ Len(q) = n + 1 /\ q[n + 1] = Doubled(s)
        /\ \A i \in 1 .. n : q[i] = parts[i]
    BY <1>2, <2>1, AppendProperties
  <2> HIDE DEF p, q, n, all, parts
  <2>4. ASSUME NEW i \in 1 .. n + 1
        PROVE  p[i] = q[i]
    <3>1. i \in 1 .. n \/ i = n + 1
      BY <1>1
    <3> QED
      BY <1>1, <2>1, <2>2, <2>3, <3>1
  <2> QED
    BY <2>2, <2>3, <2>4, SeqEqual DEF p, q
<1> HIDE DEF all, parts
<1>4. FlattenSeq(Append(parts, Doubled(s))) = FlattenSeq(parts) \o Doubled(s)
  BY <1>2, FlattenAppend DEF Text
<1> QED
  BY <1>1, <1>3, <1>4, RedoubleIs DEF all, parts

LEMMA RedoubleNone == Redouble(<< >>) = << >>
<1>1. << >> \in Text /\ DoubledParts(<< >>) = << >>
  BY TextLiterals DEF DoubledParts
<1> QED
  BY <1>1, RedoubleIs, FlattenFew

\* What one symbol adds to the pieces joined.
LEMMA PieceJoined ==
    ASSUME NEW pieces \in Seq(Text), pieces # << >>, NEW s \in Symbols
    PROVE  FlattenSeq(Piece(pieces, s)) =
               IF s = "NUL" THEN FlattenSeq(pieces) ELSE FlattenSeq(pieces) \o Doubled(s)
<1> DEFINE n == Len(pieces)
           front == Front(pieces)
           last == Last(pieces)
<1>1. /\ front \in Seq(Text) /\ last \in Text /\ pieces = Append(front, last)
  <2>1. n \in Nat /\ n # 0 /\ \A k \in 1 .. n : pieces[k] \in Text
    BY EmptySeq, ElementOfSeq
  <2> HIDE DEF n
  <2>2. \A k \in 1 .. n - 1 : pieces[k] \in Text
    BY <2>1
  <2>3. 1 \in Int /\ n - 1 \in Int /\ n - 1 \in Nat
    BY <2>1
  <2>4. /\ SubSeq(pieces, 1, n - 1) \in Seq(Text) /\ Len(SubSeq(pieces, 1, n - 1)) = n - 1
        /\ \A i \in 1 .. n - 1 : SubSeq(pieces, 1, n - 1)[i] = pieces[i]
    <3>1. Len(SubSeq(pieces, 1, n - 1)) = IF 1 <= n - 1 THEN (n - 1) - 1 + 1 ELSE 0
      BY <2>2, <2>3, SubSeqProperties
    <3>2. SubSeq(pieces, 1, n - 1) \in Seq(Text)
      BY <2>2, <2>3, SubSeqProperties
    <3>3. \A i \in 1 .. n - 1 : SubSeq(pieces, 1, n - 1)[i] = pieces[1 + i - 1]
      BY <2>2, <2>3, SubSeqProperties
    <3> QED
      BY <2>3, <3>1, <3>2, <3>3
  <2>5. front = SubSeq(pieces, 1, n - 1) /\ last = pieces[n]
    BY DEF Front, Last, n
  <2>6. last \in Text
    BY <2>1, <2>5
  <2> HIDE DEF front, last
  <2> DEFINE all == Append(front, last)
  <2>7. /\ all \in Seq(Text) /\ Len(all) = n /\ all[n] = last
        /\ \A i \in 1 .. n - 1 : all[i] = front[i]
    <3>1. Len(front) = n - 1 /\ front \in Seq(Text)
      BY <2>4, <2>5
    <3> QED
      BY <2>1, <2>6, <3>1, AppendProperties
  <2> HIDE DEF all
  <2>8. ASSUME NEW i \in 1 .. n
        PROVE  all[i] = pieces[i]
    <3>1. i \in 1 .. n - 1 \/ i = n
      BY <2>1
    <3> QED
      BY <2>4, <2>5, <2>7, <3>1
  <2>9. all = pieces
    BY <2>7, <2>8, SeqEqual DEF n
  <2> QED
    BY <2>4, <2>5, <2>6, <2>9 DEF all
<1> HIDE DEF front, last
<1>2. FlattenSeq(pieces) = FlattenSeq(front) \o last /\ FlattenSeq(front) \in Text
  BY <1>1, FlattenAppend, FlattenType DEF Text
<1>3. FlattenSeq(pieces) \in Text /\ << >> \in Text
  BY FlattenType, TextLiterals DEF Text
<1>4. CASE s = "'"
  <2> DEFINE two == <<"'", "'">>
             none == << >>
             few == << two, none >>
  <2>1. two \in Text /\ none \in Text /\ Doubled(s) = two
    BY <1>4, TextLiterals DEF Doubled
  <2>2. few \in Seq(Text) /\ FlattenSeq(few) = two \o none
    <3> HIDE DEF two, none
    <3>1. few \in Seq(Text)
      BY <2>1
    <3>2. FlattenSeq(few) = two \o none
      BY <2>1, FlattenFew DEF Text
    <3> QED
      BY <3>1, <3>2
  <2>3. Piece(pieces, s) = pieces \o few
    BY <1>4 DEF Piece
  <2>4. two \o none = two
    BY <2>1, ConcatEmptySeq DEF Text
  <2> HIDE DEF few, two
  <2>5. FlattenSeq(pieces \o few) = FlattenSeq(pieces) \o FlattenSeq(few)
    BY <2>2, FlattenConcat DEF Text
  <2> QED
    BY <1>4, <2>1, <2>2, <2>3, <2>4, <2>5
<1>5. CASE s = "NUL"
  <2>1. Piece(pieces, s) = Append(pieces, << >>)
    BY <1>5 DEF Piece
  <2>2. FlattenSeq(Append(pieces, << >>)) = FlattenSeq(pieces) \o << >>
    BY <1>3, FlattenAppend DEF Text
  <2>3. FlattenSeq(pieces) \o << >> = FlattenSeq(pieces)
    BY <1>3, ConcatEmptySeq DEF Text
  <2> QED
    BY <1>5, <2>1, <2>2, <2>3
<1>6. CASE s \notin {"'", "NUL"}
  <2> DEFINE flat == FlattenSeq(front)
             one == <<s>>
  <2>1. Piece(pieces, s) = Append(front, Append(last, s))
    BY <1>6 DEF Piece, front, last
  <2>2. Append(last, s) = last \o one /\ Append(last, s) \in Text /\ one \in Text
    <3>1. \A S : \A a \in Seq(S) : \A x \in S : Append(a, x) = a \o <<x>>
      OBVIOUS
    <3>2. Append(last, s) = last \o one
      BY <1>1, <3>1 DEF Text
    <3> QED
      BY <1>1, <3>2, TextAppended, TextLiterals
  <2> DEFINE more == last \o one
  <2> HIDE DEF one, flat
  <2>6. more \in Text
    BY <2>2
  <2> HIDE DEF more
  <2>7. FlattenSeq(Append(front, more)) = FlattenSeq(front) \o more
    BY <1>1, <2>6, FlattenAppend DEF Text
  <2>3. FlattenSeq(Append(front, last \o one)) = flat \o (last \o one)
    BY <2>7 DEF more, flat
  <2>4. flat \o (last \o one) = (flat \o last) \o one
    BY <1>1, <1>2, <2>2, ConcatAssociative DEF Text, flat
  <2>5. Doubled(s) = one
    BY <1>6 DEF Doubled, one
  <2> QED
    BY <1>2, <1>6, <2>1, <2>2, <2>3, <2>4, <2>5 DEF flat
<1> QED
  BY <1>4, <1>5, <1>6

\* The pieces joined are the text, its quotes doubled and its NULs left out.
LEMMA PiecesJoined ==
    ASSUME NEW text \in Text
    PROVE  /\ FlattenSeq(Pieces(text)) = Redouble(WithoutNul(text))
           /\ WithoutNul(text) \in Text
<1> DEFINE n == Len(text)
           parts == KeptParts(text)
<1>1. n \in Nat /\ \A k \in 1 .. n : text[k] \in Symbols
  BY TextIs
<1>2. /\ parts \in Seq(Text) /\ WithoutNul(text) = FlattenSeq(parts) /\ Len(parts) = n
      /\ \A k \in 1 .. n : parts[k] = Kept1(text[k])
  BY <1>1, WithoutNulIs DEF KeptParts
<1>3. PICK h : /\ h[0] = << << >> >> /\ h[n] = Pieces(text)
               /\ \A i \in 0 .. n : h[i] \in Seq(Text) /\ h[i] # << >>
               /\ \A i \in 1 .. n : h[i] = Piece(h[i - 1], text[i])
  BY PiecesLoop
<1> HIDE DEF n, parts
<1>4. PICK g : /\ Joining(g, parts, n) /\ g[n] = FlattenSeq(parts)
               /\ \A i \in 0 .. n : g[i] \in Text
  BY <1>2, FlattenJoins DEF Text
<1> DEFINE T == {i \in Nat : i <= n => FlattenSeq(h[i]) = Redouble(g[i])}
<1>5. 0 \in T
  <2>1. g[0] = << >>
    BY <1>4 DEF Joining
  <2>2. FlattenSeq(h[0]) = << >>
    BY <1>3, FlattenFew, TextLiterals DEF Text
  <2> QED
    BY <2>1, <2>2, RedoubleNone
<1>6. ASSUME NEW i \in Nat, i \in T
      PROVE  i + 1 \in T
  <2>1. ASSUME i + 1 <= n
        PROVE  FlattenSeq(h[i + 1]) = Redouble(g[i + 1])
    <3> DEFINE s == text[i + 1]
    <3>1. i + 1 \in 1 .. n /\ (i + 1) - 1 = i /\ i <= n /\ i \in 0 .. n
      BY <1>1, <2>1
    <3>2. s \in Symbols /\ h[i] \in Seq(Text) /\ h[i] # << >> /\ g[i] \in Text
      BY <1>1, <1>3, <1>4, <3>1
    <3>3. h[i + 1] = Piece(h[i], s) /\ g[i + 1] = g[i] \o Kept1(s)
      BY <1>2, <1>3, <1>4, <3>1 DEF Joining
    <3>4. FlattenSeq(h[i]) = Redouble(g[i])
      BY <1>6, <3>1
    <3> HIDE DEF s
    <3>5. FlattenSeq(Piece(h[i], s)) =
             IF s = "NUL" THEN FlattenSeq(h[i]) ELSE FlattenSeq(h[i]) \o Doubled(s)
      BY <3>2, PieceJoined
    <3>6. CASE s = "NUL"
      <4>1. g[i] \o << >> = g[i]
        BY <3>2, ConcatEmptySeq DEF Text
      <4> QED
        BY <3>3, <3>4, <3>5, <3>6, <4>1 DEF Kept1
    <3>7. CASE s # "NUL"
      <4> DEFINE t == g[i]
      <4>1. g[i + 1] = t \o <<s>>
        BY <3>3, <3>7 DEF Kept1
      <4>2. t \in Text
        BY <3>2
      <4> HIDE DEF t
      <4>3. t \o <<s>> = Append(t, s)
        <5>1. \A S : \A a \in Seq(S) : \A x \in S : Append(a, x) = a \o <<x>>
          OBVIOUS
        <5> QED
          BY <3>2, <4>2, <5>1 DEF Text
      <4>4. Redouble(Append(t, s)) = Redouble(t) \o Doubled(s)
        BY <3>2, <4>2, RedoubleMore
      <4> QED
        BY <3>3, <3>4, <3>5, <3>7, <4>1, <4>3, <4>4 DEF t
    <3> QED
      BY <3>6, <3>7
  <2>2. i + 1 \in Nat
    OBVIOUS
  <2> QED
    BY <2>1, <2>2
<1>7. n \in T
  <2> HIDE DEF T
  <2> QED
    BY <1>1, <1>5, <1>6, SetInduction
<1>8. FlattenSeq(h[n]) = Redouble(g[n])
  <2>1. n <= n
    BY <1>1
  <2> QED
    BY <1>7, <2>1
<1>9. g[n] \in Text
  BY <1>1, <1>4
<1> QED
  BY <1>2, <1>3, <1>4, <1>8, <1>9

\* What _serialize_string appends is what a string is to be written as.
LEMMA StringPiecesJoined ==
    ASSUME NEW data \in Value("TYPE_STRING")
    PROVE  LET texts == << <<"'">> >> \o Pieces(data.text) \o << <<"'">> >>
           IN  texts \in Seq(Text) /\ FlattenSeq(texts) = Literal("TYPE_STRING", data)
<1> DEFINE quote == <<"'">>
           pieces == Pieces(data.text)
           outer == <<quote>>
<1>1. data.text \in Text
  BY DEF Value
<1>2. quote \in Text
  BY TextLiterals, SerializerAssumption DEF Written
<1>3. pieces \in Seq(Text) /\ FlattenSeq(pieces) = Redouble(WithoutNul(data.text))
  BY <1>1, PiecesType, PiecesJoined
<1> HIDE DEF quote, pieces
<1>4. outer \in Seq(Text) /\ FlattenSeq(outer) = quote
  BY <1>2, FlattenFew DEF Text
<1> HIDE DEF outer
<1>5. outer \o pieces \in Seq(Text) /\ FlattenSeq(outer \o pieces) = quote \o FlattenSeq(pieces)
  BY <1>3, <1>4, FlattenConcat DEF Text
<1> DEFINE front == outer \o pieces
<1> HIDE DEF front
<1>6. front \in Seq(Text) /\ FlattenSeq(front) = quote \o FlattenSeq(pieces)
  BY <1>5 DEF front
<1>7. front \o outer \in Seq(Text) /\ FlattenSeq(front \o outer) = FlattenSeq(front) \o quote
  BY <1>4, <1>6, FlattenConcat DEF Text
<1>8. Literal("TYPE_STRING", data) = (quote \o FlattenSeq(pieces)) \o quote
  BY <1>3 DEF Literal, quote
<1>9. << <<"'">> >> \o Pieces(data.text) \o << <<"'">> >> = front \o outer
  BY DEF front, outer, quote, pieces
<1> QED
  BY <1>6, <1>7, <1>8, <1>9

-----------------------------------------------------------------------------
(* What a string under construction says.                                    *)

\* Unless it has failed, the string has this text, and what is owned besides
\* is as it was in heap g.
Says(w, g, own, text) ==
    w.err = "MCFG_OK" =>
        /\ w.m.strings[w.value].text = text
        /\ \A p \in own : w.m.strings[p] = g.strings[p]

\* A new string says nothing,
LEMMA NewSizedSays ==
    ASSUME NEW m \in Heaps, NEW own, own \subseteq Live(m), NEW size
    PROVE  Says(NewSized(m, size), m, own, << >>)
<1> DEFINE w == NewSized(m, size)
           s == mcfg_string_new_sized(size)
           v == Len(m.strings) + 1
           all == Append(m.strings, s)
<1>1. CASE Ok(m)
  <2>1. /\ Made(m).strings = m.strings
        /\ w = [m |-> [Made(m) EXCEPT !.strings = Append(Made(m).strings, s)],
                value |-> v, err |-> "MCFG_OK", appended |-> 0]
    BY <1>1 DEF NewSized, Made, Heaps
  <2>2. w.m = [Made(m) EXCEPT !.strings = all] /\ w.value = v
    BY <2>1
  <2>3. w.m.strings = all
    BY <2>2 DEF Made, Heaps
  <2>4. /\ Len(m.strings) \in Nat /\ Live(m) \subseteq 1 .. Len(m.strings)
        /\ m.strings \in Seq(FitString \cup {NULL})
    BY HeapIs DEF Heaps
  <2>5. all[v] = s /\ \A q \in 1 .. Len(m.strings) : all[q] = m.strings[q]
    <3>1. \A S : \A t \in Seq(S) : \A x : /\ Append(t, x)[Len(t) + 1] = x
                                           /\ \A q \in 1 .. Len(t) : Append(t, x)[q] = t[q]
      OBVIOUS
    <3> HIDE DEF s
    <3> QED
      BY <2>4, <3>1
  <2>6. s.text = << >>
    BY DEF mcfg_string_new_sized
  <2> HIDE DEF w, v, all
  <2>7. w.m.strings[w.value].text = << >>
    BY <2>2, <2>3, <2>5, <2>6
  <2>8. \A p \in own : w.m.strings[p] = m.strings[p]
    BY <2>3, <2>4, <2>5
  <2> QED
    BY <2>7, <2>8 DEF Says, w
<1>2. CASE ~Ok(m)
  <2>1. w.err # "MCFG_OK"
    BY <1>2 DEF NewSized
  <2> QED
    BY <2>1 DEF Says
<1> QED
  BY <1>1, <1>2

\* what is appended comes behind what it says,
LEMMA AppendTextSays ==
    ASSUME NEW w, NEW m0, NEW own, NEW lost, Building(w, m0, own, lost), NEW text \in Text,
           NEW g, NEW said, Says(w, g, own, said)
    PROVE  Says(AppendText(w, text), g, own, said \o text)
<1> DEFINE a     == w.m.strings[w.value]
           grows == Grows(a, strlen(text))
           m     == IF grows THEN Made(w.m) ELSE w.m
           new   == AppendText(w, text)
           v     == w.value
           b     == string_append(a, text, strlen(text))
<1>1. /\ w \in Builders /\ v \notin own /\ Good(w.m, Plus(own, v), lost)
      /\ w.err = "MCFG_OK" => v # NULL
  BY DEF Building
<1>2. w.m \in Heaps /\ w.value \in Nat \cup {NULL}
  BY <1>1 DEF Builders
<1>3. CASE w.err # "MCFG_OK"
  <2>1. new = w
    BY <1>3 DEF AppendText
  <2> HIDE DEF new
  <2> QED
    BY <1>3, <2>1 DEF Says, new
<1>4. CASE w.err = "MCFG_OK" /\ grows /\ ~Ok(w.m)
  <2>1. new = [w EXCEPT !.m = Made(w.m), !.value = NULL, !.err = "MCFG_MALLOC_FAIL"]
    BY <1>4 DEF AppendText
  <2> HIDE DEF new
  <2>2. new.err # "MCFG_OK"
    BY <1>1, <2>1 DEF Builders
  <2> QED
    BY <2>2 DEF Says, new
<1>5. CASE w.err = "MCFG_OK" /\ ~(grows /\ ~Ok(w.m))
  <2> DEFINE m2 == [m EXCEPT !.strings[v] = b]
  <2>1. new = [w EXCEPT !.m = m2, !.appended = @ + 1]
    BY <1>5 DEF AppendText
  <2>2. Plus(own, v) = own \cup {v} /\ v # NULL
    BY <1>1, <1>5 DEF Plus
  <2>3. v \in Live(w.m) /\ own \subseteq Live(w.m)
    BY <1>1, <2>2 DEF Good
  <2>4. m \in Heaps /\ m.strings = w.m.strings
    <3>1. Made(w.m) \in Heaps /\ Made(w.m).strings = w.m.strings
      BY <1>2, Counting, 0 \in Int DEF Same
    <3> QED
      BY <1>2, <3>1
  <2>5. b.text = a.text \o text
    BY DEF string_append, string_resize
  <2> HIDE DEF b, m, new
  <2>6. m2.strings = [w.m.strings EXCEPT ![v] = b]
    BY <2>4 DEF Heaps
  <2> HIDE DEF m2
  <2>7. new.m = m2 /\ new.value = v
    BY <1>1, <2>1 DEF Builders
  <2>8. m2.strings[v] = b /\ \A p \in own : m2.strings[p] = w.m.strings[p]
    BY <1>1, <2>3, <2>6 DEF Live
  <2>9. a.text = said /\ \A p \in own : w.m.strings[p] = g.strings[p]
    BY <1>5 DEF Says
  <2> HIDE DEF a
  <2>10. new.m.strings[new.value].text = said \o text
    BY <2>5, <2>7, <2>8, <2>9
  <2>11. \A p \in own : new.m.strings[p] = g.strings[p]
    BY <2>7, <2>8, <2>9
  <2> QED
    BY <2>10, <2>11 DEF Says, new
<1> QED
  BY <1>3, <1>4, <1>5

LEMMA AppendAllSays ==
    ASSUME NEW w, NEW m0, NEW own, NEW lost, Building(w, m0, own, lost), Clean(w),
           NEW texts \in Seq(Text), NEW g, Says(w, g, own, << >>)
    PROVE  Says(AppendAll(w, texts), g, own, FlattenSeq(texts))
<1> DEFINE n == Len(texts)
<1>1. n \in Nat /\ \A i \in 1 .. n : texts[i] \in Text
  BY LenProperties, ElementOfSeq
<1>2. PICK h : /\ h[0] = w /\ h[n] = AppendAll(w, texts)
               /\ \A i \in 0 .. n : Building(h[i], m0, own, lost) /\ Clean(h[i])
               /\ \A i \in 1 .. n : h[i] = AppendText(h[i - 1], texts[i])
  BY AppendAllLoop
<1>3. PICK f : /\ Joining(f, texts, n) /\ f[n] = FlattenSeq(texts)
               /\ \A i \in 0 .. n : f[i] \in Text
  BY FlattenJoins DEF Text
<1> HIDE DEF n
<1> DEFINE T == {i \in Nat : i <= n => Says(h[i], g, own, f[i])}
<1>4. 0 \in T
  BY <1>2, <1>3 DEF Joining
<1>5. ASSUME NEW i \in Nat, i \in T
      PROVE  i + 1 \in T
  <2>1. ASSUME i + 1 <= n
        PROVE  Says(h[i + 1], g, own, f[i + 1])
    <3> DEFINE x == h[i]
               t == texts[i + 1]
               said == f[i]
    <3>1. i + 1 \in 1 .. n /\ (i + 1) - 1 = i /\ i <= n /\ i \in 0 .. n
      BY <1>1, <2>1
    <3>2. t \in Text /\ Building(x, m0, own, lost) /\ Says(x, g, own, said)
      BY <1>1, <1>2, <1>5, <3>1
    <3>3. h[i + 1] = AppendText(x, t) /\ f[i + 1] = said \o t
      BY <1>2, <1>3, <3>1 DEF Joining
    <3> HIDE DEF x, t, said
    <3>4. Says(AppendText(x, t), g, own, said \o t)
      BY <3>2, AppendTextSays
    <3> QED
      BY <3>3, <3>4
  <2>2. i + 1 \in Nat
    OBVIOUS
  <2> QED
    BY <2>1, <2>2
<1>6. n \in T
  <2> HIDE DEF T
  <2> QED
    BY <1>1, <1>4, <1>5, SetInduction
<1>7. Says(h[n], g, own, f[n])
  <2>1. n <= n
    BY <1>1
  <2> QED
    BY <1>6, <2>1
<1> QED
  BY <1>2, <1>3, <1>7

\* Pieces written into a new string.
LEMMA PiecesSay ==
    ASSUME NEW m, NEW own, NEW lost, Good(m, own, lost), m.crash = FALSE,
           NEW size \in Nat, NEW pieces \in Seq(Text)
    PROVE  Says(AppendAll(NewSized(m, size), pieces), m, own, FlattenSeq(pieces))
<1> DEFINE new == NewSized(m, size)
<1>1. Building(new, m, own, lost) /\ Clean(new)
  BY NewSizedBuilding
<1>2. Says(new, m, own, << >>)
  BY NewSizedSays DEF Good
<1> HIDE DEF new
<1> QED
  BY <1>1, <1>2, AppendAllSays DEF new

\* Counting, and freeing something else, change no text.
LEMMA SaysCounted ==
    ASSUME NEW w \in Builders, NEW g, NEW own, NEW text, Says(w, g, own, text), NEW n \in Int,
           NEW new, new = [w EXCEPT !.m = FreePlain(@, n)]
    PROVE  Says(new, g, own, text)
<1>1. w.m \in Heaps
  BY DEF Builders
<1>2. FreePlain(w.m, n).strings = w.m.strings
  BY <1>1, Counting DEF Same
<1>3. new.m = FreePlain(w.m, n) /\ new.value = w.value /\ new.err = w.err
  BY DEF Builders
<1> QED
  BY <1>2, <1>3 DEF Says

LEMMA SaysFreed ==
    ASSUME NEW w, NEW m0, NEW own, NEW lost, Building(w, m0, own, lost), NEW p \in own,
           NEW g, NEW text, Says(w, g, own, text),
           NEW new, new = [w EXCEPT !.m = Free(@, p)]
    PROVE  Says(new, g, own \ {p}, text)
<1>1. /\ w \in Builders /\ w.value \notin own /\ Good(w.m, Plus(own, w.value), lost)
      /\ w.err = "MCFG_OK" => w.value # NULL
  BY DEF Building
<1>2. p \in Plus(own, w.value)
  BY DEF Plus
<1>3. \A q \in Plus(own, w.value) \ {p} : Free(w.m, p).strings[q] = w.m.strings[q]
  <2> DEFINE all == Plus(own, w.value)
             x == w.m
  <2>1. Good(x, all, lost) /\ p \in all
    BY <1>1, <1>2
  <2> HIDE DEF all, x
  <2>2. /\ Good(Free(x, p), all \ {p}, lost)
        /\ \A q \in all \ {p} : Free(x, p).strings[q] = x.strings[q]
    BY <2>1, FreeOwned
  <2> QED
    BY <2>2 DEF all, x
<1>4. new.m = Free(w.m, p) /\ new.value = w.value /\ new.err = w.err
  BY <1>1 DEF Builders
<1> SUFFICES ASSUME w.err = "MCFG_OK"
             PROVE  /\ new.m.strings[new.value].text = text
                    /\ \A q \in own \ {p} : new.m.strings[q] = g.strings[q]
  BY <1>4 DEF Says
<1>5. w.value \in Plus(own, w.value) \ {p} /\ own \subseteq Plus(own, w.value)
  BY <1>1 DEF Plus
<1>6. w.m.strings[w.value].text = text /\ \A q \in own : w.m.strings[q] = g.strings[q]
  BY DEF Says
<1> QED
  BY <1>3, <1>4, <1>5, <1>6

\* Whatever has failed says anything.
LEMMA FailureSays ==
    ASSUME NEW w, w.err # "MCFG_OK", NEW g, NEW own, NEW text
    PROVE  Says(w, g, own, text)
BY DEF Says

-----------------------------------------------------------------------------
(* What fields are written as.                                               *)

\* Some texts, and what follows the first of them.
Three(a, b, c)      == <<a, b, c>>
Four(a, b, c, d)    == <<a, b, c, d>>
Five(a, b, c, d, e) == <<a, b, c, d, e>>
ThreeText(a, b, c)      == a \o (b \o c)
FourText(a, b, c, d)    == a \o ((b \o c) \o d)
FiveText(a, b, c, d, e) == a \o (((b \o c) \o d) \o e)

\* No text before a text, and none behind it.
LEMMA TextNothing == \A x \in Text : << >> \o x = x /\ x \o << >> = x
BY ConcatEmptySeq DEF Text

LEMMA ThreeJoined ==
    ASSUME NEW a \in Text, NEW b \in Text, NEW c \in Text
    PROVE  /\ Three(a, b, c) \in Seq(Text)
           /\ FlattenSeq(Three(a, b, c)) = ThreeText(a, b, c)
<1> DEFINE texts == <<a, b, c>>
<1>1. texts \in Seq(Text) /\ Len(texts) = 3
  <2>1. \A S : \A a1, b1, c1 \in S : <<a1, b1, c1>> \in Seq(S)
    OBVIOUS
  <2>2. Len(texts) = 3
    OBVIOUS
  <2> QED
    BY <2>1, <2>2
<1>2. texts[1] = a /\ texts[2] = b /\ texts[3] = c
  OBVIOUS
<1> HIDE DEF texts
<1>3. PICK h : /\ Joining(h, texts, 3) /\ h[3] = FlattenSeq(texts)
               /\ \A i \in 0 .. 3 : h[i] \in Text
  <2>1. \E h : /\ Joining(h, texts, Len(texts)) /\ h[Len(texts)] = FlattenSeq(texts)
               /\ \A i \in 0 .. Len(texts) : h[i] \in Text
    BY <1>1, FlattenJoins DEF Text
  <2> QED
    BY <1>1, <2>1
<1>4. h[0] = << >> /\ \A i \in 1 .. 3 : \A j : i - 1 = j => h[i] = h[j] \o texts[i]
  BY <1>3 DEF Joining
<1>5. /\ 1 \in 1 .. 3 /\ 2 \in 1 .. 3 /\ 3 \in 1 .. 3
      /\ 1 - 1 = 0 /\ 2 - 1 = 1 /\ 3 - 1 = 2
  OBVIOUS
<1>6. h[1] = << >> \o a
  BY <1>2, <1>4, <1>5
<1>7. h[2] = a \o b /\ b \in Text
  <2>1. h[2] = h[1] \o b
    BY <1>2, <1>4, <1>5
  <2> QED
    BY <1>6, <2>1, TextNothing
<1>8. h[3] = a \o (b \o c) /\ b \o c \in Text
  <2>1. h[3] = h[2] \o c
    BY <1>2, <1>4, <1>5
  <2> DEFINE p == b
  <2>2. p \in Text /\ h[2] = a \o p
    BY <1>7
  <2> HIDE DEF p
  <2>3. (a \o p) \o c = a \o (p \o c) /\ p \o c \in Text
    <3>2. a \in Seq(Symbols) /\ p \in Seq(Symbols) /\ c \in Seq(Symbols)
      BY <2>2 DEF Text
    <3>1. (a \o p) \o c = a \o (p \o c)
      BY <3>2, ConcatAssociative
    <3> QED
      BY <2>2, <3>1, TextJoined
  <2> QED
    BY <2>1, <2>2, <2>3 DEF p
<1> QED
  BY <1>1, <1>3, <1>8 DEF Three, ThreeText, texts

LEMMA FourJoined ==
    ASSUME NEW a \in Text, NEW b \in Text, NEW c \in Text, NEW d \in Text
    PROVE  /\ Four(a, b, c, d) \in Seq(Text)
           /\ FlattenSeq(Four(a, b, c, d)) = FourText(a, b, c, d)
<1> DEFINE texts == <<a, b, c, d>>
<1>1. texts \in Seq(Text) /\ Len(texts) = 4
  <2>1. \A S : \A a1, b1, c1, d1 \in S : <<a1, b1, c1, d1>> \in Seq(S)
    OBVIOUS
  <2>2. Len(texts) = 4
    OBVIOUS
  <2> QED
    BY <2>1, <2>2
<1>2. texts[1] = a /\ texts[2] = b /\ texts[3] = c /\ texts[4] = d
  OBVIOUS
<1> HIDE DEF texts
<1>3. PICK h : /\ Joining(h, texts, 4) /\ h[4] = FlattenSeq(texts)
               /\ \A i \in 0 .. 4 : h[i] \in Text
  <2>1. \E h : /\ Joining(h, texts, Len(texts)) /\ h[Len(texts)] = FlattenSeq(texts)
               /\ \A i \in 0 .. Len(texts) : h[i] \in Text
    BY <1>1, FlattenJoins DEF Text
  <2> QED
    BY <1>1, <2>1
<1>4. h[0] = << >> /\ \A i \in 1 .. 4 : \A j : i - 1 = j => h[i] = h[j] \o texts[i]
  BY <1>3 DEF Joining
<1>5. /\ 1 \in 1 .. 4 /\ 2 \in 1 .. 4 /\ 3 \in 1 .. 4 /\ 4 \in 1 .. 4
      /\ 1 - 1 = 0 /\ 2 - 1 = 1 /\ 3 - 1 = 2 /\ 4 - 1 = 3
  OBVIOUS
<1>6. h[1] = << >> \o a
  BY <1>2, <1>4, <1>5
<1>7. h[2] = a \o b /\ b \in Text
  <2>1. h[2] = h[1] \o b
    BY <1>2, <1>4, <1>5
  <2> QED
    BY <1>6, <2>1, TextNothing
<1>8. h[3] = a \o (b \o c) /\ b \o c \in Text
  <2>1. h[3] = h[2] \o c
    BY <1>2, <1>4, <1>5
  <2> DEFINE p == b
  <2>2. p \in Text /\ h[2] = a \o p
    BY <1>7
  <2> HIDE DEF p
  <2>3. (a \o p) \o c = a \o (p \o c) /\ p \o c \in Text
    <3>2. a \in Seq(Symbols) /\ p \in Seq(Symbols) /\ c \in Seq(Symbols)
      BY <2>2 DEF Text
    <3>1. (a \o p) \o c = a \o (p \o c)
      BY <3>2, ConcatAssociative
    <3> QED
      BY <2>2, <3>1, TextJoined
  <2> QED
    BY <2>1, <2>2, <2>3 DEF p
<1>9. h[4] = a \o ((b \o c) \o d) /\ (b \o c) \o d \in Text
  <2>1. h[4] = h[3] \o d
    BY <1>2, <1>4, <1>5
  <2> DEFINE p == (b \o c)
  <2>2. p \in Text /\ h[3] = a \o p
    BY <1>8
  <2> HIDE DEF p
  <2>3. (a \o p) \o d = a \o (p \o d) /\ p \o d \in Text
    <3>2. a \in Seq(Symbols) /\ p \in Seq(Symbols) /\ d \in Seq(Symbols)
      BY <2>2 DEF Text
    <3>1. (a \o p) \o d = a \o (p \o d)
      BY <3>2, ConcatAssociative
    <3> QED
      BY <2>2, <3>1, TextJoined
  <2> QED
    BY <2>1, <2>2, <2>3 DEF p
<1> QED
  BY <1>1, <1>3, <1>9 DEF Four, FourText, texts

LEMMA FiveJoined ==
    ASSUME NEW a \in Text, NEW b \in Text, NEW c \in Text, NEW d \in Text, NEW e \in Text
    PROVE  /\ Five(a, b, c, d, e) \in Seq(Text)
           /\ FlattenSeq(Five(a, b, c, d, e)) = FiveText(a, b, c, d, e)
<1> DEFINE texts == <<a, b, c, d, e>>
<1>1. texts \in Seq(Text) /\ Len(texts) = 5
  <2>1. \A S : \A a1, b1, c1, d1, e1 \in S : <<a1, b1, c1, d1, e1>> \in Seq(S)
    OBVIOUS
  <2>2. Len(texts) = 5
    OBVIOUS
  <2> QED
    BY <2>1, <2>2
<1>2. texts[1] = a /\ texts[2] = b /\ texts[3] = c /\ texts[4] = d /\ texts[5] = e
  OBVIOUS
<1> HIDE DEF texts
<1>3. PICK h : /\ Joining(h, texts, 5) /\ h[5] = FlattenSeq(texts)
               /\ \A i \in 0 .. 5 : h[i] \in Text
  <2>1. \E h : /\ Joining(h, texts, Len(texts)) /\ h[Len(texts)] = FlattenSeq(texts)
               /\ \A i \in 0 .. Len(texts) : h[i] \in Text
    BY <1>1, FlattenJoins DEF Text
  <2> QED
    BY <1>1, <2>1
<1>4. h[0] = << >> /\ \A i \in 1 .. 5 : \A j : i - 1 = j => h[i] = h[j] \o texts[i]
  BY <1>3 DEF Joining
<1>5. /\ 1 \in 1 .. 5 /\ 2 \in 1 .. 5 /\ 3 \in 1 .. 5 /\ 4 \in 1 .. 5 /\ 5 \in 1 .. 5
      /\ 1 - 1 = 0 /\ 2 - 1 = 1 /\ 3 - 1 = 2 /\ 4 - 1 = 3 /\ 5 - 1 = 4
  OBVIOUS
<1>6. h[1] = << >> \o a
  BY <1>2, <1>4, <1>5
<1>7. h[2] = a \o b /\ b \in Text
  <2>1. h[2] = h[1] \o b
    BY <1>2, <1>4, <1>5
  <2> QED
    BY <1>6, <2>1, TextNothing
<1>8. h[3] = a \o (b \o c) /\ b \o c \in Text
  <2>1. h[3] = h[2] \o c
    BY <1>2, <1>4, <1>5
  <2> DEFINE p == b
  <2>2. p \in Text /\ h[2] = a \o p
    BY <1>7
  <2> HIDE DEF p
  <2>3. (a \o p) \o c = a \o (p \o c) /\ p \o c \in Text
    <3>2. a \in Seq(Symbols) /\ p \in Seq(Symbols) /\ c \in Seq(Symbols)
      BY <2>2 DEF Text
    <3>1. (a \o p) \o c = a \o (p \o c)
      BY <3>2, ConcatAssociative
    <3> QED
      BY <2>2, <3>1, TextJoined
  <2> QED
    BY <2>1, <2>2, <2>3 DEF p
<1>9. h[4] = a \o ((b \o c) \o d) /\ (b \o c) \o d \in Text
  <2>1. h[4] = h[3] \o d
    BY <1>2, <1>4, <1>5
  <2> DEFINE p == (b \o c)
  <2>2. p \in Text /\ h[3] = a \o p
    BY <1>8
  <2> HIDE DEF p
  <2>3. (a \o p) \o d = a \o (p \o d) /\ p \o d \in Text
    <3>2. a \in Seq(Symbols) /\ p \in Seq(Symbols) /\ d \in Seq(Symbols)
      BY <2>2 DEF Text
    <3>1. (a \o p) \o d = a \o (p \o d)
      BY <3>2, ConcatAssociative
    <3> QED
      BY <2>2, <3>1, TextJoined
  <2> QED
    BY <2>1, <2>2, <2>3 DEF p
<1>10. h[5] = a \o (((b \o c) \o d) \o e) /\ ((b \o c) \o d) \o e \in Text
  <2>1. h[5] = h[4] \o e
    BY <1>2, <1>4, <1>5
  <2> DEFINE p == ((b \o c) \o d)
  <2>2. p \in Text /\ h[4] = a \o p
    BY <1>9
  <2> HIDE DEF p
  <2>3. (a \o p) \o e = a \o (p \o e) /\ p \o e \in Text
    <3>2. a \in Seq(Symbols) /\ p \in Seq(Symbols) /\ e \in Seq(Symbols)
      BY <2>2 DEF Text
    <3>1. (a \o p) \o e = a \o (p \o e)
      BY <3>2, ConcatAssociative
    <3> QED
      BY <2>2, <3>1, TextJoined
  <2> QED
    BY <2>1, <2>2, <2>3 DEF p
<1> QED
  BY <1>1, <1>3, <1>10 DEF Five, FiveText, texts

\* Without what malloc may have left there, an indent is what was asked for.
LEMMA IndentAsked ==
    ASSUME options \in Options, options.stale = << >>
    PROVE  /\ AskedIndent \in Text
           /\ _make_indent(1) = AskedIndent /\ _make_indent(2) = AskedIndent \o AskedIndent
<1>1. options.tabs \in BOOLEAN /\ options.spaces \in Nat
  BY SerializerAssumption
<1> DEFINE n == IF options.tabs THEN 1 ELSE options.spaces
<1>2. n \in Nat /\ AskedIndent = Blanks(n)
  BY <1>1 DEF AskedIndent
<1>3. \A k \in Nat : Blanks(k) \o << >> = Blanks(k) /\ Blanks(k) \in Text
  BY BlanksType, ConcatEmptySeq DEF Text
<1>4. n * 1 \in Nat /\ n * 2 \in Nat /\ n * 1 = n
  BY <1>2
<1>5. _make_indent(1) = Blanks(n * 1) /\ _make_indent(2) = Blanks(n * 2)
  <2>1. CASE options.tabs
    <3>1. n * 1 = 1 /\ n * 2 = 2
      BY <2>1
    <3> QED
      BY <2>1, <3>1 DEF _make_indent
  <2>2. CASE ~options.tabs
    <3>1. n * 1 = options.spaces * 1 /\ n * 2 = options.spaces * 2
      BY <2>2
    <3> QED
      BY <1>3, <1>4, <2>2, <3>1 DEF _make_indent
  <2> QED
    BY <2>1, <2>2
<1> HIDE DEF n
<1>6. Blanks(n * 2) = Blanks(n) \o Blanks(n)
  <2> DEFINE a == Blanks(n)
             b == Blanks(n * 2)
             c == a \o a
  <2>1. a \in Text /\ b \in Text
    BY <1>2, <1>3, <1>4
  <2>8. \A k \in Nat : Len(Blanks(k)) = k /\ \A i \in 1 .. k : Blanks(k)[i] = " "
    BY DEF Blanks
  <2>2. Len(a) = n /\ Len(b) = n * 2 /\ \A i \in 1 .. n * 2 : b[i] = " "
    BY <1>2, <1>4, <2>8
  <2>3. \A i \in 1 .. n : a[i] = " "
    BY <1>2, <2>8
  <2> HIDE DEF a, b
  <2>4. /\ c \in Text /\ Len(c) = n + n
        /\ \A i \in 1 .. n + n : c[i] = IF i <= n THEN a[i] ELSE a[i - n]
    BY <2>1, <2>2, ConcatProperties DEF Text
  <2> HIDE DEF c
  <2>5. n + n = n * 2
    BY <1>2
  <2>6. ASSUME NEW i \in 1 .. n * 2
        PROVE  c[i] = " "
    <3>1. i \in 1 .. n + n /\ (i <= n => i \in 1 .. n) /\ (~(i <= n) => i - n \in 1 .. n)
      BY <1>2
    <3> QED
      BY <2>3, <2>4, <3>1
  <2>7. b = c
    <3>1. \A i \in 1 .. n * 2 : b[i] = c[i]
      BY <2>2, <2>6
    <3> QED
      BY <2>1, <2>2, <2>4, <2>5, <3>1, SeqEqual DEF Text
  <2> QED
    BY <2>7 DEF a, b, c
<1> QED
  BY <1>2, <1>3, <1>4, <1>5, <1>6

\* The string for a string.
LEMMA StringSays ==
    ASSUME NEW m, NEW own, NEW lost, Good(m, own, lost), m.crash = FALSE,
           NEW data \in Value("TYPE_STRING"), NEW r, r = _serialize_string(m, data)
    PROVE  Says(r.w, m, own, Literal("TYPE_STRING", data)) /\ Literal("TYPE_STRING", data) \in Text
<1> DEFINE texts == << <<"'">> >> \o Pieces(data.text) \o << <<"'">> >>
           size  == strlen(data.text) + 3
           new   == NewSized(m, size)
           all   == AppendAll(new, texts)
           text  == Literal("TYPE_STRING", data)
<1>1. data.text \in Text /\ data # NULL
  BY SerializerAssumption DEF Value, Data
<1>2. texts \in Seq(Text) /\ FlattenSeq(texts) = text
  BY StringPiecesJoined
<1>3. size \in Nat
  BY <1>1, StrlenType
<1> HIDE DEF texts, size, text
<1>4. Says(all, m, own, text)
  BY <1>2, <1>3, PiecesSay
<1>5. Building(all, m, own, lost) /\ Clean(all)
  BY <1>2, <1>3, NewSizedBuilding, AppendAllBuilding
<1>6. CASE new.err # "MCFG_OK"
  <2>1. r = [w |-> new, data |-> data]
    BY <1>1, <1>6 DEF _serialize_string, size
  <2>2. r.w = new
    BY <2>1
  <2> QED
    BY <1>2, <1>6, <2>2, FailureSays, FlattenType DEF text, Text
<1>7. CASE new.err = "MCFG_OK"
  <2>1. r = Quoted(all, texts, data)
    BY <1>1, <1>7 DEF _serialize_string, texts, size
  <2> HIDE DEF all
  <2>2. FreeOnError(all) = all
    BY <1>5, FreeOnErrorBuilding DEF Building
  <2>3. r.w = all
    <3>1. \A w, t, d : Quoted(w, t, d).w = FreeOnError(w)
      BY DEF Quoted
    <3> QED
      BY <2>1, <2>2, <3>1
  <2> QED
    BY <1>2, <1>4, <2>3, FlattenType DEF text, Text
<1> QED
  BY <1>6, <1>7

\* What comes in front of a value.
FieldHead(field) == (<<Keyword(field.type), " ">> \o field.name.base) \o <<" ">>

LEMMA FieldTextIs ==
    ASSUME NEW field, field.type # "TYPE_LIST", NEW indent
    PROVE  FieldText(field, indent) =
              (indent \o indent) \o (FieldHead(field) \o Literal(field.type, field.data))
BY DEF FieldText, FieldHead

\* The parts of a field that is not a list.
LEMMA FieldParts ==
    ASSUME options \in Options, options.stale = << >>,
           NEW field, field.name.base \in Text, field.type \in FieldTypes \ {"TYPE_LIST"},
           NEW value \in Text, value = Literal(field.type, field.data)
    PROVE  LET texts == <<_make_indent(2), <<Keyword(field.type), " ">>, field.name.base, <<" ">>,
                          value>>
               less  == <<_make_indent(2), <<Keyword(field.type), " ">>, field.name.base,
                          <<" ">> \o value>>
           IN  /\ texts \in Seq(Text) /\ FlattenSeq(texts) = FieldText(field, AskedIndent)
               /\ less \in Seq(Text) /\ FlattenSeq(less) = FieldText(field, AskedIndent)
<1> DEFINE indent == _make_indent(2)
           head   == <<Keyword(field.type), " ">>
           name   == field.name.base
           blank  == <<" ">>
           both   == blank \o value
<1>1. /\ indent \in Text /\ head \in Text /\ name \in Text /\ blank \in Text
  <2>1. Keyword(field.type) \in Symbols /\ " " \in Symbols
    BY KeywordType, SerializerAssumption DEF Written
  <2>2. indent \in Text
    BY IndentType
  <2> QED
    BY <2>1, <2>2, TextLiterals
<1>2. FieldText(field, AskedIndent) = indent \o (((head \o name) \o blank) \o value)
  BY FieldTextIs, IndentAsked DEF FieldHead
<1> HIDE DEF indent, head, name, blank
<1>3. both \in Text
  BY <1>1, TextJoined
<1>4. ((head \o name) \o blank) \o value = (head \o name) \o both
  <2> DEFINE front == head \o name
  <2>1. front \in Text
    BY <1>1, TextJoined
  <2> HIDE DEF front
  <2>2. (front \o blank) \o value = front \o (blank \o value)
    BY <1>1, <2>1, ConcatAssociative DEF Text
  <2> QED
    BY <2>2 DEF front
<1> HIDE DEF both
<1>5. /\ Five(indent, head, name, blank, value) \in Seq(Text)
      /\ FlattenSeq(Five(indent, head, name, blank, value)) =
            FiveText(indent, head, name, blank, value)
  BY <1>1, FiveJoined
<1>6. /\ Four(indent, head, name, both) \in Seq(Text)
      /\ FlattenSeq(Four(indent, head, name, both)) = FourText(indent, head, name, both)
  BY <1>1, <1>3, FourJoined
<1> QED
  BY <1>2, <1>4, <1>5, <1>6 DEF Four, Five, FourText, FiveText, indent, head, name, blank, both

\* The same with respect to another heap before, and to fewer strings.
LEMMA SaysSince ==
    ASSUME NEW w, NEW g, NEW own, NEW text, Says(w, g, own, text),
           NEW f, NEW some, some \subseteq own, \A p \in some : g.strings[p] = f.strings[p]
    PROVE  Says(w, f, some, text)
BY DEF Says

\* The text of a string field,
LEMMA AroundSays ==
    ASSUME options \in Options, options.stale = << >>,
           NEW m, NEW own, NEW lost, Good(m, own, lost), m.crash = FALSE,
           NEW field, field.name.base \in Text, field.type = "TYPE_STRING",
           NEW value, Building(value.w, Plain(m), own, lost), Clean(value.w),
           NEW text \in Text, text = Literal(field.type, field.data),
           Says(value.w, Plain(m), own, text),
           NEW r, r = AroundString(field.name.base, value, Ok(m))
    PROVE  Says(r.w, m, own, FieldText(field, AskedIndent))
<1> DEFINE v     == value.w
           name  == field.name.base
           all   == FieldText(field, AskedIndent)
           block == v.m.strings[v.value]
           size  == 4 + strlen(name) + block.length
           texts == <<_make_indent(2), <<"str", " ">>, name, <<" ">>, block.text>>
           build == AppendAll(NewSized(v.m, size), texts)
           n     == One(Ok(m))
           w     == CASE v.err # "MCFG_OK" -> Failure(v.m, v.err)
                      [] v.err = "MCFG_OK" /\ ~Ok(m) -> Failure(v.m, "MCFG_MALLOC_FAIL")
                      [] OTHER -> FreeOnError(build)
<1>1. r.w = [w EXCEPT !.m = FreePlain(Free(@, v.value), n)]
  BY DEF AroundString
<1> HIDE DEF w, all
<1>2. m \in Heaps
  BY DEF Good
<1>3. Plain(m).strings = m.strings /\ n \in Int
  BY <1>2, PlainIs DEF One
<1> HIDE DEF n
<1>4. CASE v.err # "MCFG_OK" \/ ~Ok(m)
  <2>1. PICK e : w = [m |-> v.m, value |-> NULL, err |-> e, appended |-> 0] /\ e # "MCFG_OK"
    <3>1. CASE v.err # "MCFG_OK"
      BY <3>1 DEF w, Failure
    <3>2. CASE v.err = "MCFG_OK"
      <4>1. w = Failure(v.m, "MCFG_MALLOC_FAIL")
        BY <1>4, <3>2 DEF w
      <4>2. "MCFG_MALLOC_FAIL" # "MCFG_OK"
        OBVIOUS
      <4> QED
        BY <4>1, <4>2 DEF Failure
    <3> QED
      BY <3>1, <3>2
  <2>2. r.w.err # "MCFG_OK"
    BY <1>1, <2>1
  <2> QED
    BY <2>2, FailureSays DEF all
<1>5. CASE v.err = "MCFG_OK" /\ Ok(m)
  <2> DEFINE own2 == own \cup {v.value}
  <2>1. /\ v \in Builders /\ v.value \notin own /\ v.value # NULL
        /\ Good(v.m, Plus(own, v.value), lost) /\ v.m.crash = FALSE
    BY <1>5 DEF Building
  <2>2. Plus(own, v.value) = own2 /\ v.value \in own2 /\ own2 \ {v.value} = own
    BY <2>1 DEF Plus
  <2>3. Good(v.m, own2, lost)
    BY <2>1, <2>2
  <2>4. w = FreeOnError(build)
    BY <1>5 DEF w
  <2>5. block.text = text /\ \A p \in own : v.m.strings[p] = m.strings[p]
    BY <1>3, <1>5 DEF Says
  <2>6. size \in Nat
    <3>1. block \in BuiltString
      BY <2>2, <2>3 DEF Good
    <3>2. block.length \in Nat
      BY <3>1 DEF BuiltString, String
    <3>3. strlen(name) \in Nat
      BY StrlenType
    <3> HIDE DEF block
    <3> QED
      BY <3>2, <3>3
  <2>7. texts \in Seq(Text) /\ FlattenSeq(texts) = all
    <3>1. field.type \in FieldTypes \ {"TYPE_LIST"} /\ Keyword(field.type) = "str"
      BY DEF FieldTypes, Keyword
    <3> DEFINE parts == <<_make_indent(2), <<Keyword(field.type), " ">>, name, <<" ">>, text>>
    <3>2. parts \in Seq(Text) /\ FlattenSeq(parts) = all
      BY <3>1, FieldParts DEF all
    <3>3. texts = parts
      BY <2>5, <3>1
    <3> HIDE DEF texts, parts
    <3> QED
      BY <3>2, <3>3
  <2> HIDE DEF size, texts, own2
  <2>8. Building(build, v.m, own2, lost) /\ Clean(build)
    BY <2>1, <2>3, <2>6, <2>7, NewSizedBuilding, AppendAllBuilding
  <2>9. Says(build, v.m, own2, all)
    BY <2>1, <2>3, <2>6, <2>7, PiecesSay
  <2>10. w = build
    BY <2>4, <2>8, FreeOnErrorBuilding DEF Building
  <2> HIDE DEF build
  <2> DEFINE x == [w EXCEPT !.m = Free(@, v.value)]
             y == [x EXCEPT !.m = FreePlain(@, n)]
  <2>11. Building(w, v.m, own2, lost) /\ Says(w, v.m, own2, all)
    BY <2>8, <2>9, <2>10
  <2>12. Building(x, v.m, own, lost)
    BY <2>2, <2>11, BuildingFreed
  <2>13. Says(x, v.m, own, all)
    BY <2>2, <2>11, SaysFreed
  <2>14. r.w = y
    <3>1. w \in Builders
      BY <2>11 DEF Building
    <3>2. x = [m |-> Free(w.m, v.value), value |-> w.value, err |-> w.err, appended |-> w.appended]
      BY <3>1 DEF Builders
    <3>3. r.w = [w EXCEPT !.m = FreePlain(Free(w.m, v.value), n)]
      BY <1>1
    <3>4. r.w = [m |-> FreePlain(Free(w.m, v.value), n), value |-> w.value, err |-> w.err,
                 appended |-> w.appended]
      BY <3>1, <3>3 DEF Builders
    <3> HIDE DEF x
    <3> QED
      BY <3>2, <3>4
  <2> HIDE DEF x
  <2>15. Says(y, v.m, own, all)
    BY <1>3, <2>12, <2>13, SaysCounted DEF Building
  <2>16. Says(r.w, v.m, own, all)
    BY <2>14, <2>15
  <2>17. own \subseteq own
    OBVIOUS
  <2> QED
    BY <2>5, <2>16, <2>17, SaysSince DEF all
<1> QED
  BY <1>4, <1>5

LEMMA StringFieldSays ==
    ASSUME options \in Options, options.stale = << >>,
           NEW m, NEW own, NEW lost, Good(m, own, lost), m.crash = FALSE,
           NEW field, field.name.base \in Text, field.type = "TYPE_STRING",
           field.data \in Value("TYPE_STRING"),
           NEW r, r = serialize_string_field(m, field)
    PROVE  Says(r.w, m, own, FieldText(field, AskedIndent))
<1> DEFINE value == _serialize_string(Plain(m), field.data)
           text  == Literal(field.type, field.data)
<1>1. r = AroundString(field.name.base, value, Ok(m))
  BY DEF serialize_string_field
<1>2. m \in Heaps
  BY DEF Good
<1>3. Same(Plain(m), m) /\ Plain(m).crash = m.crash
  BY <1>2, Counting, 0 \in Int
<1>4. Good(Plain(m), own, lost) /\ Plain(m).crash = FALSE
  BY <1>3, GoodSame
<1>5. Building(value.w, Plain(m), own, lost) /\ Clean(value.w)
  BY <1>4, StringBuilding
<1>6. Says(value.w, Plain(m), own, text) /\ text \in Text
  BY <1>4, StringSays
<1> HIDE DEF value, text
<1> QED
  BY <1>1, <1>5, <1>6, AroundSays DEF text

\* of a number,
LEMMA NumberFieldSays ==
    ASSUME options \in Options, options.stale = << >>,
           NEW m, NEW own, NEW lost, Good(m, own, lost), m.crash = FALSE,
           NEW field, field.name.base \in Text,
           field.type \in FieldTypes \ {"TYPE_STRING", "TYPE_LIST"},
           field.data \in Value(field.type),
           NEW r, r = serialize_number_field(m, field), r.w.m.crash = FALSE
    PROVE  Says(r.w, m, own, FieldText(field, AskedIndent))
<1> DEFINE indent == _make_indent(2)
           m1     == Plain(m)
           m2     == Plain(m1)
           text   == mcfg_data_to_string(field.type, field.data)
           head   == <<Keyword(field.type), " ">>
           size   == strlen(indent) + strlen(head) + strlen(field.name.base) + strlen(text) + 3
           texts  == <<indent, head, field.name.base, <<" ">>, text>>
           build  == AppendAll(NewSized(m2, size), texts)
           w      == IF Ok(m1) THEN FreeOnError(build) ELSE Failure(m2, "MCFG_MALLOC_FAIL")
           n      == 1 + One(Ok(m1))
           all    == FieldText(field, AskedIndent)
<1>1. r.w = IF field.data = NULL \/ ~Ok(m) THEN Failure(Crashed(m1), "MCFG_OK")
            ELSE [w EXCEPT !.m = FreePlain(@, n)]
  BY DEF serialize_number_field
<1>0. n \in Int
  BY DEF One
<1> HIDE DEF w, n, all
<1>2. m \in Heaps
  BY DEF Good
<1>3. m1 \in Heaps /\ Same(m1, m) /\ m1.crash = FALSE
  BY <1>2, Counting, 0 \in Int DEF Same
<1>4. Good(m1, own, lost) /\ m1.strings = m.strings
  BY <1>3, GoodSame DEF Same
<1> HIDE DEF m1
<1>5. m2 \in Heaps /\ Same(m2, m1) /\ m2.crash = FALSE
  BY <1>3, Counting, 0 \in Int DEF Same
<1>6. Good(m2, own, lost) /\ m2.strings = m.strings
  BY <1>4, <1>5, GoodSame DEF Same
<1> HIDE DEF m2
<1>7. field.data # NULL /\ Ok(m)
  <2>1. ASSUME field.data = NULL \/ ~Ok(m)
        PROVE  FALSE
    <3>1. r.w = Failure(Crashed(m1), "MCFG_OK")
      BY <1>1, <2>1
    <3>2. Broken(r.w, m1)
      BY <1>3, <3>1, CrashBreaks
    <3> QED
      BY <3>2 DEF Broken
  <2> QED
    BY <2>1
<1>8. r.w = [w EXCEPT !.m = FreePlain(@, n)]
  BY <1>1, <1>7
<1>9. CASE ~Ok(m1)
  <2>1. w = [m |-> m2, value |-> NULL, err |-> "MCFG_MALLOC_FAIL", appended |-> 0]
    BY <1>9 DEF w, Failure
  <2>2. r.w.err # "MCFG_OK"
    BY <1>8, <2>1
  <2> QED
    BY <2>2, FailureSays DEF all
<1>10. CASE Ok(m1)
  <2>1. w = FreeOnError(build)
    BY <1>10 DEF w
  <2>2. text \in Text /\ text = Literal(field.type, field.data)
    BY ValueIsText DEF Literal
  <2>3. texts \in Seq(Text) /\ FlattenSeq(texts) = all
    <3>1. field.type \in FieldTypes \ {"TYPE_LIST"}
      OBVIOUS
    <3> HIDE DEF text
    <3> QED
      BY <2>2, <3>1, FieldParts DEF all
  <2>4. size \in Nat
    <3>1. indent \in Text
      BY IndentType
    <3>2. head \in Text
      <4>1. Keyword(field.type) \in Symbols /\ " " \in Symbols
        BY KeywordType, SerializerAssumption DEF Written
      <4> QED
        BY <4>1, TextLiterals
    <3> HIDE DEF indent, head, text
    <3>3. /\ strlen(indent) \in Nat /\ strlen(head) \in Nat
          /\ strlen(field.name.base) \in Nat /\ strlen(text) \in Nat
      BY <2>2, <3>1, <3>2, StrlenType
    <3> QED
      BY <3>3
  <2> HIDE DEF size, texts
  <2>5. Building(build, m2, own, lost) /\ Clean(build)
    BY <1>5, <1>6, <2>3, <2>4, NewSizedBuilding, AppendAllBuilding
  <2>6. Says(build, m2, own, all)
    BY <1>5, <1>6, <2>3, <2>4, PiecesSay
  <2>7. w = build
    BY <2>1, <2>5, FreeOnErrorBuilding DEF Building
  <2> HIDE DEF build
  <2>8. w \in Builders /\ Says(w, m2, own, all)
    BY <2>5, <2>6, <2>7 DEF Building
  <2>9. Says(r.w, m2, own, all)
    BY <1>0, <1>8, <2>8, SaysCounted
  <2>10. own \subseteq own /\ \A p \in own : m2.strings[p] = m.strings[p]
    BY <1>6
  <2> QED
    BY <2>9, <2>10, SaysSince DEF all
<1> QED
  BY <1>9, <1>10

\* and of a truth value.
LEMMA BoolFieldSays ==
    ASSUME options \in Options, options.stale = << >>,
           NEW m, NEW own, NEW lost, Good(m, own, lost), m.crash = FALSE,
           NEW field, field.name.base \in Text, field.type = "TYPE_BOOL",
           field.data \in Value("TYPE_BOOL"),
           NEW r, r = serialize_bool_field(m, field), r.w.m.crash = FALSE
    PROVE  Says(r.w, m, own, FieldText(field, AskedIndent))
<1> DEFINE indent == _make_indent(2)
           m1     == Plain(m)
           value  == mcfg_data_to_string(field.type, field.data)
           text   == <<" ">> \o value
           size   == strlen(indent) + 5 + strlen(field.name.base) + strlen(text)
           texts  == <<indent, <<"bool", " ">>, field.name.base, text>>
           w      == AppendAll(NewSized(m1, size), texts)
           all    == FieldText(field, AskedIndent)
<1>1. r.w = CASE ~Ok(m) -> Failure(m1, "MCFG_MALLOC_FAIL")
              [] Ok(m) /\ field.data = NULL -> Failure(Crashed(m1), "MCFG_OK")
              [] OTHER -> [w EXCEPT !.m = FreePlain(@, 1)]
  BY DEF serialize_bool_field
<1> HIDE DEF w, all
<1>2. m \in Heaps
  BY DEF Good
<1>3. m1 \in Heaps /\ Same(m1, m) /\ m1.crash = FALSE
  BY <1>2, Counting, 0 \in Int DEF Same
<1>4. Good(m1, own, lost) /\ m1.strings = m.strings
  BY <1>3, GoodSame DEF Same
<1> HIDE DEF m1
<1>5. CASE ~Ok(m)
  <2>1. r.w.err # "MCFG_OK"
    BY <1>1, <1>5 DEF Failure
  <2> QED
    BY <2>1, FailureSays DEF all
<1>6. CASE Ok(m)
  <2>1. field.data # NULL
    BY SerializerAssumption DEF Data
  <2>2. r.w = [w EXCEPT !.m = FreePlain(@, 1)]
    BY <1>1, <1>6, <2>1
  <2>3. field.type \in FieldTypes \ {"TYPE_STRING", "TYPE_LIST"} /\ Keyword(field.type) = "bool"
    BY DEF FieldTypes, Keyword
  <2>4. value \in Text /\ value = Literal(field.type, field.data)
    BY <2>3, ValueIsText DEF Literal
  <2>5. text \in Text
    <3>1. <<" ">> \in Text
      BY TextLiterals, SerializerAssumption DEF Written
    <3> HIDE DEF value
    <3> QED
      BY <2>4, <3>1, TextJoined
  <2>6. texts \in Seq(Text) /\ FlattenSeq(texts) = all
    <3> DEFINE parts == <<indent, <<Keyword(field.type), " ">>, field.name.base, text>>
    <3>1. parts \in Seq(Text) /\ FlattenSeq(parts) = all
      <4> HIDE DEF value
      <4> QED
        BY <2>3, <2>4, FieldParts DEF all
    <3>2. texts = parts
      BY <2>3
    <3> HIDE DEF texts, parts
    <3> QED
      BY <3>1, <3>2
  <2>7. size \in Nat
    <3>1. indent \in Text
      BY IndentType
    <3> HIDE DEF indent, text
    <3>2. strlen(indent) \in Nat /\ strlen(field.name.base) \in Nat /\ strlen(text) \in Nat
      BY <2>5, <3>1, StrlenType
    <3> QED
      BY <3>2
  <2> HIDE DEF size, texts
  <2>8. Building(w, m1, own, lost) /\ Clean(w)
    BY <1>3, <1>4, <2>6, <2>7, NewSizedBuilding, AppendAllBuilding DEF w
  <2>9. Says(w, m1, own, all)
    BY <1>3, <1>4, <2>6, <2>7, PiecesSay DEF w
  <2>12. w \in Builders /\ 1 \in Int
    BY <2>8 DEF Building
  <2>10. Says(r.w, m1, own, all)
    BY <2>2, <2>9, <2>12, SaysCounted
  <2>11. own \subseteq own /\ \A p \in own : m1.strings[p] = m.strings[p]
    BY <1>4
  <2> QED
    BY <2>10, <2>11, SaysSince DEF all
<1> QED
  BY <1>5, <1>6

-----------------------------------------------------------------------------
(* Texts with a separator between them.                                      *)

\* A separator behind all but the last, or in front of all but the first.
Ends(texts, sep) ==
    [k \in 1 .. Len(texts) |-> IF k < Len(texts) THEN texts[k] \o sep ELSE texts[k]]
Fronts(texts, sep) == [k \in 1 .. Len(texts) - 1 |-> sep \o texts[k + 1]]

\* That is the same in the end.
LEMMA Separated ==
    ASSUME NEW texts \in Seq(Text), NEW sep \in Text
    PROVE  /\ Ends(texts, sep) \in Seq(Text)
           /\ Len(texts) # 0 =>
                 /\ Fronts(texts, sep) \in Seq(Text)
                 /\ FlattenSeq(Ends(texts, sep)) = texts[1] \o FlattenSeq(Fronts(texts, sep))
<1> DEFINE n == Len(texts)
           b == Ends(texts, sep)
           f == Fronts(texts, sep)
<1>1. n \in Nat /\ \A k \in 1 .. n : texts[k] \in Text
  BY LenProperties, ElementOfSeq
<1>2. /\ Len(b) = n /\ b \in Seq(Text)
      /\ \A k \in 1 .. n : b[k] = IF k < n THEN texts[k] \o sep ELSE texts[k]
  <2>1. \A k \in 1 .. n : (IF k < n THEN texts[k] \o sep ELSE texts[k]) \in Text
    BY <1>1, TextJoined
  <2>2. b = [k \in 1 .. n |-> IF k < n THEN texts[k] \o sep ELSE texts[k]]
    BY DEF Ends
  <2> HIDE DEF b, n
  <2> QED
    BY <1>1, <2>1, <2>2
<1>3. ASSUME n # 0
      PROVE  f \in Seq(Text) /\ FlattenSeq(b) = texts[1] \o FlattenSeq(f)
  <2> DEFINE m == n - 1
             first == texts[1]
  <2>1. m \in Nat /\ m + 1 = n /\ 1 \in 1 .. n
    BY <1>1, <1>3
  <2>2. /\ Len(f) = m /\ f \in Seq(Text)
        /\ \A k \in 1 .. m : f[k] = sep \o texts[k + 1]
    <3>1. \A k \in 1 .. m : k + 1 \in 1 .. n
      BY <1>1, <2>1
    <3>2. \A k \in 1 .. m : sep \o texts[k + 1] \in Text
      BY <1>1, <3>1, TextJoined
    <3>3. f = [k \in 1 .. m |-> sep \o texts[k + 1]]
      BY DEF Fronts
    <3> HIDE DEF f, n, m
    <3> QED
      BY <2>1, <3>2, <3>3
  <2> HIDE DEF b, f
  <2>3. PICK h : /\ Joining(h, b, n) /\ h[n] = FlattenSeq(b)
                 /\ \A i \in 0 .. n : h[i] \in Text
    <3>1. \E h : /\ Joining(h, b, Len(b)) /\ h[Len(b)] = FlattenSeq(b)
                 /\ \A i \in 0 .. Len(b) : h[i] \in Text
      BY <1>2, FlattenJoins DEF Text
    <3> QED
      BY <1>2, <3>1
  <2>4. PICK g : /\ Joining(g, f, m) /\ g[m] = FlattenSeq(f)
                 /\ \A i \in 0 .. m : g[i] \in Text
    <3>1. \E g : /\ Joining(g, f, Len(f)) /\ g[Len(f)] = FlattenSeq(f)
                 /\ \A i \in 0 .. Len(f) : g[i] \in Text
      BY <2>2, FlattenJoins DEF Text
    <3> QED
      BY <2>2, <3>1
  <2>5. first \in Text
    BY <1>1, <2>1
  <2> HIDE DEF n, m, first
  <2> DEFINE T == {i \in Nat : i <= m => h[i] \o texts[i + 1] = first \o g[i]}
  <2>6. 0 \in T
    <3>1. h[0] = << >> /\ g[0] = << >> /\ texts[0 + 1] = first
      BY <2>3, <2>4 DEF Joining, first
    <3>2. << >> \o first = first /\ first \o << >> = first
      BY <2>5, TextNothing
    <3> QED
      BY <3>1, <3>2
  <2>7. ASSUME NEW i \in Nat, i \in T
        PROVE  i + 1 \in T
    <3>1. ASSUME i + 1 <= m
          PROVE  h[i + 1] \o texts[(i + 1) + 1] = first \o g[i + 1]
      <4>1. /\ i + 1 \in 1 .. n /\ (i + 1) - 1 = i /\ i + 1 < n /\ i <= m
            /\ i + 1 \in 1 .. m /\ (i + 1) + 1 \in 1 .. n /\ i \in 0 .. n /\ i \in 0 .. m
        BY <1>1, <2>1, <3>1
      <4> DEFINE x == h[i]
                 y == texts[i + 1]
                 z == texts[(i + 1) + 1]
                 u == g[i]
      <4>2. x \in Text /\ y \in Text /\ z \in Text /\ u \in Text
        BY <1>1, <2>3, <2>4, <4>1
      <4>3. x \o y = first \o u
        BY <2>7, <4>1
      <4>4. h[i + 1] = x \o (y \o sep)
        BY <1>2, <2>3, <4>1 DEF Joining
      <4>5. g[i + 1] = u \o (sep \o z)
        BY <2>2, <2>4, <4>1 DEF Joining
      <4> HIDE DEF x, y, z, u
      <4>6. x \o (y \o sep) = (x \o y) \o sep
        <5>1. x \in Seq(Symbols) /\ y \in Seq(Symbols) /\ sep \in Seq(Symbols)
          BY <4>2 DEF Text
        <5> QED
          BY <5>1, ConcatAssociative
      <4> DEFINE v == first \o u
                 w == sep \o z
      <4>7. v \in Text /\ w \in Text
        BY <2>5, <4>2, TextJoined
      <4>8. v \o w = first \o (u \o w)
        <5> HIDE DEF v, w
        <5>1. first \in Seq(Symbols) /\ u \in Seq(Symbols) /\ w \in Seq(Symbols)
          BY <2>5, <4>2, <4>7 DEF Text
        <5>2. (first \o u) \o w = first \o (u \o w)
          BY <5>1, ConcatAssociative
        <5> QED
          BY <5>2 DEF v
      <4>9. (v \o sep) \o z = v \o w
        <5> HIDE DEF v, w
        <5>1. v \in Seq(Symbols) /\ sep \in Seq(Symbols) /\ z \in Seq(Symbols)
          BY <4>2, <4>7 DEF Text
        <5>2. (v \o sep) \o z = v \o (sep \o z)
          BY <5>1, ConcatAssociative
        <5> QED
          BY <5>2 DEF w
      <4>10. h[i + 1] \o z = (v \o sep) \o z
        BY <4>3, <4>4, <4>6
      <4>11. h[i + 1] \o z = first \o g[i + 1]
        BY <4>5, <4>8, <4>9, <4>10
      <4> QED
        BY <4>11 DEF z
    <3>2. i + 1 \in Nat
      OBVIOUS
    <3> QED
      BY <3>1, <3>2
  <2>8. m \in T
    <3>1. \A i \in Nat : i \in T
      <4> HIDE DEF T
      <4> QED
        BY <2>6, <2>7, SetInduction
    <3> QED
      BY <2>1, <3>1
  <2>9. h[n] = h[m] \o texts[n]
    <3>1. n \in 1 .. n /\ n - 1 = m /\ ~(n < n)
      BY <2>1
    <3> QED
      BY <1>2, <2>3, <3>1 DEF Joining
  <2>10. h[n] = first \o g[m]
    <3>1. m <= m
      BY <2>1
    <3>2. h[m] \o texts[m + 1] = first \o g[m]
      BY <2>8, <3>1
    <3> QED
      BY <2>1, <2>9, <3>2
  <2> QED
    BY <2>2, <2>3, <2>4, <2>10 DEF first
<1> QED
  BY <1>2, <1>3

\* What Joined makes of the texts of things.
Strung(texts, sep) ==
    IF Len(texts) = 0 THEN << >> ELSE texts[1] \o FlattenSeq(Fronts(texts, sep))

LEMMA StrungIs ==
    ASSUME NEW texts \in Seq(Text), NEW sep \in Text
    PROVE  Strung(texts, sep) = FlattenSeq(Ends(texts, sep))
<1>1. CASE Len(texts) # 0
  BY <1>1, Separated DEF Strung
<1>2. CASE Len(texts) = 0
  <2>1. Ends(texts, sep) = << >>
    <3>1. Ends(texts, sep) \in Seq(Text)
      BY Separated
    <3>2. DOMAIN Ends(texts, sep) = 1 .. 0
      BY <1>2 DEF Ends
    <3>3. Len(Ends(texts, sep)) = 0
      BY <3>1, <3>2, LenProperties
    <3> QED
      BY <3>1, <3>3, EmptySeq
  <2> QED
    BY <1>2, <2>1, FlattenFew DEF Strung
<1> QED
  BY <1>1, <1>2

\* The text of a string as an element,
LEMMA AppendStringSays ==
    ASSUME NEW w, NEW m0, NEW own, NEW lost, Building(w, m0, own, lost), w.err = "MCFG_OK",
           NEW g, NEW said, Says(w, g, own, said),
           NEW data \in Value("TYPE_STRING"), NEW text, text = Literal("TYPE_STRING", data),
           NEW r, r = AppendString(w, _serialize_string(w.m, data))
    PROVE  Says(r.w, g, own, said \o text)
<1> DEFINE inner == _serialize_string(w.m, data)
           i     == inner.w
           own2  == Plus(own, w.value)
           all   == said \o text
<1>1. /\ w \in Builders /\ w.value \notin own /\ Good(w.m, own2, lost) /\ w.m.crash = FALSE
      /\ w.value # NULL /\ w.m.failing = m0.failing /\ w.m.plain = m0.plain
  BY DEF Building
<1>2. own2 = own \cup {w.value}
  BY <1>1 DEF Plus
<1>3. /\ Building(i, w.m, own2, lost) /\ Clean(i)
      /\ Says(i, w.m, own2, text) /\ text \in Text
  <2> HIDE DEF own2
  <2> QED
    BY <1>1, StringBuilding, StringSays
<1>4. /\ i \in Builders /\ i.value \notin own2 /\ Good(i.m, Plus(own2, i.value), lost)
      /\ i.m.failing = w.m.failing /\ i.m.plain = w.m.plain /\ i.m.crash = FALSE
      /\ i.err = "MCFG_OK" => i.value # NULL
      /\ w.m.failing = 0 => i.err = "MCFG_OK"
  BY <1>3 DEF Building
<1> DEFINE x == [w EXCEPT !.m = i.m]
           a == AppendText(x, i.m.strings[i.value].text)
<1>5. r.w = IF i.err # "MCFG_OK"
            THEN [w EXCEPT !.m = Free(i.m, i.value), !.err = i.err]
            ELSE [a EXCEPT !.m = Free(@, i.value)]
  BY DEF AppendString
<1> HIDE DEF inner, a
<1>6. CASE i.err # "MCFG_OK"
  <2>1. r.w = [w EXCEPT !.m = Free(i.m, i.value), !.err = i.err]
    BY <1>5, <1>6
  <2>2. r.w.err = i.err
    BY <1>1, <2>1 DEF Builders
  <2> QED
    BY <1>6, <2>2, FailureSays
<1>7. CASE i.err = "MCFG_OK"
  <2> DEFINE v == i.value
             own3 == own \cup {v}
  <2>1. v # NULL /\ v \notin own2 /\ Plus(own2, v) = own2 \cup {v}
    BY <1>4, <1>7 DEF Plus
  <2>2. w.value \notin own3 /\ Plus(own3, w.value) = Plus(own2, v) /\ own3 \ {v} = own
    BY <1>1, <1>2, <2>1 DEF Plus
  <2>3. x = [m |-> i.m, value |-> w.value, err |-> w.err, appended |-> w.appended]
    BY <1>1 DEF Builders
  <2> HIDE DEF x
  <2>4. /\ x \in Builders /\ x.m = i.m /\ x.value = w.value /\ x.err = "MCFG_OK"
    BY <1>1, <1>4, <2>3 DEF Builders
  <2>5. Building(x, m0, own3, lost)
    BY <1>1, <1>4, <2>2, <2>4 DEF Building
  <2>6. i.m.strings[v].text = text /\ \A p \in own2 : i.m.strings[p] = w.m.strings[p]
    BY <1>3, <1>7 DEF Says
  <2>7. /\ w.m.strings[w.value].text = said /\ \A p \in own : w.m.strings[p] = g.strings[p]
    BY DEF Says
  <2>8. Says(x, i.m, own3, said)
    <3>1. i.m.strings[w.value].text = said
      BY <1>2, <2>6, <2>7
    <3> QED
      BY <2>4, <3>1 DEF Says
  <2>9. a = AppendText(x, text)
    BY <2>6 DEF a
  <2> HIDE DEF own3
  <2>10. Building(a, m0, own3, lost)
    BY <1>3, <2>5, <2>9, AppendTextBuilding
  <2>11. Says(a, i.m, own3, all)
    BY <1>3, <2>5, <2>8, <2>9, AppendTextSays
  <2>12. v \in own3
    BY DEF own3
  <2>13. r.w = [a EXCEPT !.m = Free(@, v)]
    BY <1>5, <1>7
  <2> HIDE DEF v, all
  <2>14. Says(r.w, i.m, own3 \ {v}, all)
    BY <2>10, <2>11, <2>12, <2>13, SaysFreed
  <2>15. own \subseteq own /\ \A p \in own : i.m.strings[p] = g.strings[p]
    BY <1>2, <2>6, <2>7
  <2> QED
    BY <2>2, <2>14, <2>15, SaysSince DEF all
<1> QED
  BY <1>6, <1>7

\* and of any element.
LEMMA SerializeElementSays ==
    ASSUME NEW w, NEW m0, NEW own, NEW lost, Building(w, m0, own, lost), w.err = "MCFG_OK",
           NEW g, NEW said, Says(w, g, own, said),
           NEW type \in FieldTypes \ {"TYPE_LIST"}, NEW data \in Value(type),
           NEW text, text = Literal(type, data),
           NEW r, r = SerializeElement(w, type, data)
    PROVE  Says(r.w, g, own, said \o text)
<1> DEFINE all == said \o text
<1>1. /\ w \in Builders /\ Good(w.m, Plus(own, w.value), lost) /\ w.m.crash = FALSE
      /\ w.m.failing = m0.failing /\ w.m.plain = m0.plain /\ w.m \in Heaps
  BY DEF Building, Builders
<1>2. CASE type = "TYPE_STRING"
  <2>1. r = AppendString(w, _serialize_string(w.m, data))
    BY <1>2 DEF SerializeElement
  <2>2. data \in Value("TYPE_STRING") /\ text = Literal("TYPE_STRING", data)
    BY <1>2
  <2> QED
    BY <2>1, <2>2, AppendStringSays
<1>3. CASE type # "TYPE_STRING"
  <2>0. text = mcfg_data_to_string(type, data)
    BY <1>3 DEF Literal
  <2>1. text \in Text
    BY <1>3, <2>0, ValueIsText
  <2>2. CASE type = "TYPE_BOOL"
    <3>1. r = [w |-> AppendText(w, text), data |-> data]
      BY <2>0, <2>2 DEF SerializeElement
    <3>2. r.w = AppendText(w, text)
      BY <3>1
    <3> QED
      BY <2>1, <3>2, AppendTextSays
  <2>3. CASE type # "TYPE_BOOL" /\ ~Ok(w.m)
    <3>1. r = [w |-> [w EXCEPT !.m = Crashed(@), !.err = "MCFG_MALLOC_FAIL"], data |-> data]
      BY <1>3, <2>3 DEF SerializeElement
    <3>2. r.w = [w EXCEPT !.m = Crashed(w.m), !.err = "MCFG_MALLOC_FAIL"]
      BY <3>1
    <3>3. r.w.err # "MCFG_OK"
      BY <1>1, <3>2 DEF Builders
    <3> QED
      BY <3>3, FailureSays
  <2>4. CASE type # "TYPE_BOOL" /\ Ok(w.m)
    <3> DEFINE x == [w EXCEPT !.m = Plain(@)]
               printed == AppendText(x, text)
    <3>1. r = [w |-> [printed EXCEPT !.m = FreePlain(@, 1)], data |-> data]
      BY <1>3, <2>0, <2>4 DEF SerializeElement
    <3> HIDE DEF printed
    <3>2. r.w = [printed EXCEPT !.m = FreePlain(@, 1)]
      BY <3>1
    <3>3. Same(Plain(w.m), w.m) /\ Plain(w.m).crash = w.m.crash
      BY <1>1, Counting, 0 \in Int
    <3>4. Good(Plain(w.m), Plus(own, w.value), lost)
      BY <1>1, <3>3, GoodSame
    <3>5. x = [m |-> Plain(w.m), value |-> w.value, err |-> w.err, appended |-> w.appended]
      BY <1>1 DEF Builders
    <3> HIDE DEF x
    <3>6. x \in Builders /\ x.m = Plain(w.m) /\ x.value = w.value /\ x.err = w.err
      BY <1>1, <3>3, <3>5 DEF Builders, Same
    <3>7. Plain(w.m).strings = w.m.strings
      BY <3>3 DEF Same
    <3>8. Building(x, Plain(w.m), own, lost)
      BY <1>1, <3>3, <3>4, <3>6 DEF Building
    <3>9. Says(x, g, own, said)
      BY <3>6, <3>7 DEF Says
    <3>10. Says(printed, g, own, all)
      BY <2>1, <3>8, <3>9, AppendTextSays DEF printed
    <3>11. printed \in Builders
      BY <2>1, <3>8, AppendTextBuilding DEF printed, Building
    <3> HIDE DEF all
    <3>12. Says(r.w, g, own, all)
      BY <3>2, <3>10, <3>11, SaysCounted, 1 \in Int
    <3> QED
      BY <3>12 DEF all
  <2> QED
    BY <2>2, <2>3, <2>4
<1> QED
  BY <1>2, <1>3

\* What stands between the elements of a list.
Comma == <<",", " ">>

ElementTexts(list) ==
    [k \in 1 .. Len(list.elems) |-> Literal(list.type, list.elems[k].data)]

LEMMA ElementTextsAre ==
    ASSUME NEW list \in DocList, list.type # "TYPE_LIST"
    PROVE  /\ ElementTexts(list) \in Seq(Text) /\ Len(ElementTexts(list)) = Len(list.elems)
           /\ Len(list.elems) \in Nat /\ DOMAIN list.elems = 1 .. Len(list.elems)
           /\ \A k \in 1 .. Len(list.elems) :
                 ElementTexts(list)[k] = Literal(list.type, list.elems[k].data)
           /\ Comma \in Text
<1> DEFINE n == Len(list.elems)
           t == ElementTexts(list)
<1>1. n \in Nat /\ DOMAIN list.elems = 1 .. n
  BY LenProperties DEF DocList
<1>2. ASSUME NEW k \in 1 .. n
      PROVE  Literal(list.type, list.elems[k].data) \in Text
  <2> DEFINE data == list.elems[k].data
  <2>1. list.type \in FieldTypes \ {"TYPE_LIST"} /\ data \in Value(list.type)
    BY <1>1 DEF DocList
  <2> HIDE DEF data
  <2>2. CASE list.type = "TYPE_STRING"
    <3>1. data \in Value("TYPE_STRING")
      BY <2>1, <2>2
    <3>2. PICK texts : texts \in Seq(Text) /\ FlattenSeq(texts) = Literal("TYPE_STRING", data)
      BY <3>1, StringPiecesJoined
    <3>3. FlattenSeq(texts) \in Text
      BY <3>2, FlattenType DEF Text
    <3> QED
      BY <2>2, <3>2, <3>3 DEF data
  <2>3. CASE list.type # "TYPE_STRING"
    <3>1. Literal(list.type, data) = mcfg_data_to_string(list.type, data)
      BY <2>3 DEF Literal
    <3>2. list.type \in FieldTypes \ {"TYPE_STRING", "TYPE_LIST"}
      BY <2>1, <2>3
    <3> QED
      BY <2>1, <3>1, <3>2, ValueIsText DEF data
  <2> QED
    BY <2>2, <2>3
<1>3. t = [k \in 1 .. n |-> Literal(list.type, list.elems[k].data)]
  BY DEF ElementTexts
<1> HIDE DEF t, n
<1>4. t \in Seq(Text) /\ Len(t) = n
  BY <1>1, <1>2, <1>3
<1>5. \A k \in 1 .. n : t[k] = Literal(list.type, list.elems[k].data)
  BY <1>3
<1>6. Comma \in Text
  BY TextLiterals, SerializerAssumption DEF Written, Comma
<1> QED
  BY <1>1, <1>4, <1>5, <1>6 DEF n, t

\* One element more: its text, and a comma unless it is the last.
LEMMA OneElementSays ==
    ASSUME NEW list \in DocList, list.type # "TYPE_LIST", NEW k \in 1 .. Len(list.elems),
           NEW acc, NEW m0, NEW own, NEW lost, Adding(acc, m0, own, lost, list),
           NEW g, NEW said \in Text, Says(acc.w, g, own, said),
           NEW text, text = Ends(ElementTexts(list), Comma)[k]
    PROVE  Says(OneElement(list, acc, k).w, g, own, said \o text)
<1> DEFINE r == OneElement(list, acc, k)
           all == said \o text
<1>1. CASE acc.w.err # "MCFG_OK"
  <2>1. r = acc
    BY <1>1 DEF OneElement
  <2> QED
    BY <1>1, <2>1, FailureSays
<1>2. CASE acc.w.err = "MCFG_OK"
  <2> DEFINE data  == list.elems[k].data
             lit   == Literal(list.type, data)
             one   == SerializeElement(acc.w, list.type, data)
             n     == Len(acc.list.elems)
             after == IF k < n THEN AppendText(one.w, Comma) ELSE one.w
             new   == [acc.list EXCEPT !.elems[k].data = one.data]
  <2>1. r = [w |-> after, list |-> new]
    BY <1>2 DEF OneElement, WithElement, Comma
  <2> HIDE DEF r, new
  <2>2. Building(acc.w, m0, own, lost) /\ n = Len(list.elems)
    BY <1>2 DEF Growing, Adding
  <2>3. /\ list.type \in FieldTypes \ {"TYPE_LIST"} /\ data \in Value(list.type)
        /\ n \in Nat /\ k \in 1 .. n
    BY <2>2, ElementTextsAre DEF DocList
  <2>4. /\ text = IF k < n THEN lit \o Comma ELSE lit
        /\ lit \in Text /\ Comma \in Text
    <3> DEFINE t == ElementTexts(list)
    <3>1. t \in Seq(Text) /\ Len(t) = n /\ t[k] = lit /\ Comma \in Text
      BY <2>2, ElementTextsAre
    <3> HIDE DEF t, lit
    <3>2. lit \in Text
      BY <2>3, <3>1, ElementOfSeq
    <3>3. text = IF k < Len(t) THEN t[k] \o Comma ELSE t[k]
      BY <2>3, <3>1 DEF Ends, t
    <3> QED
      BY <3>1, <3>2, <3>3 DEF lit
  <2> HIDE DEF data
  <2>5. Says(one.w, g, own, said \o lit)
    BY <1>2, <2>2, <2>3, SerializeElementSays
  <2>6. Growing(one.w, m0, own, lost)
    BY <1>2, <2>2, <2>3, SerializeElementGrowing
  <2> HIDE DEF lit, one, n
  <2>7. Says(after, g, own, all)
    <3>1. CASE k < n /\ Building(one.w, m0, own, lost)
      <4> DEFINE front == said \o lit
      <4>1. Says(one.w, g, own, front)
        BY <2>5
      <4> HIDE DEF front
      <4>2. Says(AppendText(one.w, Comma), g, own, front \o Comma)
        BY <2>4, <3>1, <4>1, AppendTextSays
      <4>3. front \o Comma = said \o (lit \o Comma)
        <5>1. said \in Seq(Symbols) /\ lit \in Seq(Symbols) /\ Comma \in Seq(Symbols)
          BY <2>4 DEF Text
        <5> QED
          BY <5>1, ConcatAssociative DEF front
      <4> QED
        BY <2>4, <3>1, <4>2, <4>3
    <3>2. CASE k < n /\ ~Building(one.w, m0, own, lost)
      <4>1. one.w.err # "MCFG_OK"
        BY <2>6, <3>2 DEF Growing
      <4>2. after = one.w
        BY <3>2, <4>1 DEF AppendText
      <4> QED
        BY <4>1, <4>2, FailureSays
    <3>3. CASE ~(k < n)
      BY <2>4, <2>5, <3>3
    <3> QED
      BY <3>1, <3>2, <3>3
  <2>8. r.w = after
    BY <2>1
  <2> QED
    BY <2>7, <2>8 DEF r
<1> QED
  BY <1>1, <1>2

\* All elements.
LEMMA SerializeElementsSay ==
    ASSUME NEW w, NEW m0, NEW own, NEW lost, Building(w, m0, own, lost),
           NEW list \in DocList, list.type # "TYPE_LIST",
           NEW g, NEW said \in Text, Says(w, g, own, said),
           NEW r, r = SerializeElements(w, list)
    PROVE  Says(r.w, g, own, said \o FlattenSeq(Ends(ElementTexts(list), Comma)))
<1> DEFINE n == Len(list.elems)
           e == Ends(ElementTexts(list), Comma)
<1>1. PICK h :
         /\ h[0] = [w |-> w, list |-> list]
         /\ h[Len(list.elems)] = SerializeElements(w, list)
         /\ \A i \in 0 .. Len(list.elems) : Adding(h[i], m0, own, lost, list)
         /\ \A i \in 1 .. Len(list.elems) : h[i] = OneElement(list, h[i - 1], i)
  BY SerializeElementsLoop
<1>2. n \in Nat /\ e \in Seq(Text) /\ Len(e) = n
  <2>1. ElementTexts(list) \in Seq(Text) /\ Len(ElementTexts(list)) = n /\ n \in Nat /\ Comma \in Text
    BY ElementTextsAre
  <2>2. e \in Seq(Text)
    BY <2>1, Separated
  <2>3. DOMAIN e = 1 .. n
    BY <2>1 DEF Ends
  <2> HIDE DEF e, n
  <2>4. Len(e) = n
    BY <2>1, <2>2, <2>3, LenProperties
  <2> QED
    BY <2>1, <2>2, <2>4
<1>3. PICK f : /\ Joining(f, e, n) /\ f[n] = FlattenSeq(e)
               /\ \A i \in 0 .. n : f[i] \in Text
  <2> HIDE DEF e, n
  <2>1. \E f : /\ Joining(f, e, Len(e)) /\ f[Len(e)] = FlattenSeq(e)
               /\ \A i \in 0 .. Len(e) : f[i] \in Text
    BY <1>2, FlattenJoins DEF Text
  <2> QED
    BY <1>2, <2>1
<1> DEFINE T == {i \in Nat : i <= n => Says(h[i].w, g, own, said \o f[i])}
<1>4. 0 \in T
  <2>1. h[0].w = w /\ f[0] = << >>
    BY <1>1, <1>3 DEF Joining
  <2>2. said \o << >> = said
    BY TextNothing
  <2> QED
    BY <2>1, <2>2
<1>5. ASSUME NEW i \in Nat, i \in T
      PROVE  i + 1 \in T
  <2>1. ASSUME i + 1 <= n
        PROVE  Says(h[i + 1].w, g, own, said \o f[i + 1])
    <3> DEFINE acc   == h[i]
               t     == e[i + 1]
               front == f[i]
               before == said \o front
               k     == i + 1
    <3>1. k \in 1 .. n /\ k - 1 = i /\ i <= n /\ i \in 0 .. n
      BY <1>2, <2>1
    <3>2. Adding(acc, m0, own, lost, list) /\ h[k] = OneElement(list, acc, k)
      BY <1>1, <3>1
    <3>3. f[k] = front \o t /\ front \in Text /\ t \in Text
      <4> HIDE DEF e, n
      <4>1. \A j \in 1 .. n : e[j] \in Text
        BY <1>2, ElementOfSeq
      <4> QED
        BY <1>3, <3>1, <4>1 DEF Joining
    <3>4. Says(acc.w, g, own, before) /\ before \in Text
      BY <1>5, <3>1, <3>3, TextJoined
    <3> HIDE DEF acc, front, k
    <3>5. (said \o front) \o t = said \o (front \o t)
      <4>1. said \in Seq(Symbols) /\ front \in Seq(Symbols) /\ t \in Seq(Symbols)
        BY <3>3 DEF Text
      <4> HIDE DEF t
      <4> QED
        BY <4>1, ConcatAssociative
    <3> HIDE DEF before
    <3>6. Says(OneElement(list, acc, k).w, g, own, before \o t)
      <4>1. t = Ends(ElementTexts(list), Comma)[k]
        BY DEF k
      <4> HIDE DEF t
      <4> QED
        BY <3>1, <3>2, <3>4, <4>1, OneElementSays
    <3>7. Says(h[k].w, g, own, said \o f[k])
      BY <3>2, <3>3, <3>5, <3>6 DEF before
    <3> QED
      BY <3>7 DEF k
  <2>2. i + 1 \in Nat
    OBVIOUS
  <2> QED
    BY <2>1, <2>2
<1>6. n \in T
  <2>1. \A i \in Nat : i \in T
    <3> HIDE DEF T
    <3> QED
      BY <1>4, <1>5, SetInduction
  <2> QED
    BY <1>2, <2>1
<1>7. Says(h[n].w, g, own, said \o f[n])
  <2>1. n <= n
    BY <1>2
  <2> QED
    BY <1>6, <2>1
<1> QED
  BY <1>1, <1>3, <1>7

\* The texts of the elements, strung together, are what Joined makes of them.
LEMMA ElementsJoined ==
    ASSUME NEW list \in DocList, list.type # "TYPE_LIST"
    PROVE  Joined(LAMBDA e : Literal(list.type, e.data), list.elems, <<",", " ">>) =
               Strung(ElementTexts(list), Comma)
<1> DEFINE n     == Len(list.elems)
           t     == ElementTexts(list)
           parts == Fronts(t, Comma)
           tail  == Tail(list.elems)
           Body(g) == [s \in SUBSET DOMAIN tail |->
                          IF s = {} THEN << >>
                          ELSE g[s \ {Max(s)}]
                                  \o (<<",", " ">> \o Literal(list.type, tail[Max(s)].data))]
           fold == CHOOSE g : g = Body(g)
           joined == Joined(LAMBDA e : Literal(list.type, e.data), list.elems, <<",", " ">>)
<1>1. /\ t \in Seq(Text) /\ Len(t) = n /\ n \in Nat /\ DOMAIN list.elems = 1 .. n
      /\ Comma \in Text
      /\ \A k \in 1 .. n : t[k] = Literal(list.type, list.elems[k].data)
  BY ElementTextsAre
<1>2. joined = IF list.elems = << >> THEN << >>
               ELSE Literal(list.type, Head(list.elems).data) \o fold[DOMAIN tail]
  BY DEF Joined, TextOfAll, FoldLeft, MapThenFoldSet
<1> HIDE DEF joined, t, fold
<1>3. list.elems \in Seq([name : Nat, data : Value("TYPE_STRING") \cup Value("TYPE_BOOL")])
  BY DEF DocList
<1>4. CASE n = 0
  <2>1. list.elems = << >>
    BY <1>3, <1>4, EmptySeq
  <2>2. joined = << >>
    BY <1>2, <2>1
  <2>3. Strung(t, Comma) = << >>
    BY <1>1, <1>4 DEF Strung
  <2> QED
    BY <2>2, <2>3 DEF joined, t
<1>5. CASE n # 0
  <2> DEFINE m == n - 1
  <2>1. m \in Nat /\ m + 1 = n /\ 1 \in 1 .. n /\ n > 0
    BY <1>1, <1>5
  <2>2. /\ list.elems # << >> /\ Head(list.elems) = list.elems[1]
        /\ DOMAIN tail = 1 .. m /\ \A k \in 1 .. m : tail[k] = list.elems[k + 1]
    <3>1. list.elems # << >>
      BY <1>3, <1>5, EmptySeq
    <3>2. /\ tail \in Seq([name : Nat, data : Value("TYPE_STRING") \cup Value("TYPE_BOOL")])
          /\ Len(tail) = m /\ Head(list.elems) = list.elems[1]
          /\ \A k \in 1 .. m : tail[k] = list.elems[k + 1]
      BY <1>3, <3>1, HeadTailProperties
    <3> HIDE DEF tail, m
    <3>3. DOMAIN tail = 1 .. m
      BY <3>2, LenProperties
    <3> QED
      BY <3>1, <3>2, <3>3
  <2>3. /\ parts \in Seq(Text) /\ Len(parts) = m
        /\ \A k \in 1 .. m : parts[k] = <<",", " ">> \o Literal(list.type, tail[k].data)
    <3>1. parts \in Seq(Text)
      BY <1>1, <1>5, Separated
    <3>2. parts = [k \in 1 .. m |-> Comma \o t[k + 1]]
      BY <1>1 DEF Fronts
    <3> HIDE DEF parts
    <3>3. Len(parts) = m
      BY <2>1, <3>1, <3>2, LenProperties
    <3>4. ASSUME NEW k \in 1 .. m
          PROVE  parts[k] = <<",", " ">> \o Literal(list.type, tail[k].data)
      <4>1. k + 1 \in 1 .. n
        BY <1>1, <2>1
      <4>2. t[k + 1] = Literal(list.type, tail[k].data)
        BY <1>1, <2>2, <4>1
      <4> HIDE DEF m
      <4>3. parts[k] = Comma \o t[k + 1]
        BY <3>2
      <4> QED
        BY <4>2, <4>3 DEF Comma
    <3> QED
      BY <3>1, <3>3, <3>4
  <2> HIDE DEF parts, tail, m
  <2>4. ASSUME NEW g
        PROVE  Body(g) = JoinBody(g, parts, m)
    <3>1. ASSUME NEW s \in SUBSET (1 .. m), s # {}
          PROVE  parts[Max(s)] = <<",", " ">> \o Literal(list.type, tail[Max(s)].data)
      <4>1. Max(s) \in 1 .. m
        BY <2>1, <3>1, MaxOfInterval
      <4> QED
        BY <2>3, <4>1
    <3> QED
      BY <2>2, <3>1 DEF JoinBody
  <2> HIDE DEF Body
  <2>5. parts \in Seq(Seq(Symbols))
    BY <2>3 DEF Text
  <2>6. fold = JoinBody(fold, parts, m)
    <3>1. \E g : g = Body(g)
      BY <2>3, <2>4, <2>5, JoinBodyExists
    <3>2. fold = Body(fold)
      BY <3>1 DEF fold
    <3> QED
      BY <2>4, <3>2
  <2>7. fold[1 .. m] = FlattenSeq(parts)
    BY <2>3, <2>5, <2>6, FoldJoins
  <2>8. joined = Literal(list.type, list.elems[1].data) \o FlattenSeq(parts)
    BY <1>2, <2>2, <2>7
  <2>9. t[1] = Literal(list.type, list.elems[1].data)
    BY <1>1, <2>1
  <2> QED
    BY <1>1, <1>5, <2>8, <2>9 DEF Strung, parts, joined, t
<1> QED
  BY <1>4, <1>5

\* The text of a list.
LEMMA ListTextIs ==
    ASSUME NEW field, field.type = "TYPE_LIST", field.data \in DocList,
           field.data.type # "TYPE_LIST", NEW indent
    PROVE  FieldText(field, indent) =
              (indent \o indent)
                \o (((<<"list", " ", Keyword(field.data.type), " ">> \o field.name.base) \o <<" ">>)
                       \o FlattenSeq(Ends(ElementTexts(field.data), Comma)))
<1> DEFINE list == field.data
           texts == ElementTexts(list)
           joined == Joined(LAMBDA e : Literal(field.data.type, e.data), field.data.elems, <<",", " ">>)
<1>1. texts \in Seq(Text) /\ Comma \in Text
  BY ElementTextsAre
<1>2. joined = Strung(texts, Comma)
  BY ElementsJoined
<1> HIDE DEF texts
<1>3. Strung(texts, Comma) = FlattenSeq(Ends(texts, Comma))
  BY <1>1, StrungIs
<1>4. FieldText(field, indent) =
              (indent \o indent)
                \o (((<<"list", " ", Keyword(field.data.type), " ">> \o field.name.base) \o <<" ">>)
                       \o joined)
  BY DEF FieldText
<1> HIDE DEF joined
<1> QED
  BY <1>2, <1>3, <1>4 DEF texts

LEMMA ListFieldSays ==
    ASSUME options \in Options, options.stale = << >>,
           NEW m, NEW own, NEW lost, Good(m, own, lost), m.crash = FALSE,
           NEW field, field.name.base \in Text, field.type = "TYPE_LIST",
           field.data \in {NULL} \cup DocList,
           NEW r, r = serialize_list_field(m, field), r.w.m.crash = FALSE
    PROVE  Says(r.w, m, own, FieldText(field, AskedIndent))
<1> DEFINE list   == field.data
           indent == _make_indent(2)
           head   == <<"list", " ", Keyword(list.type), " ">>
           name   == field.name.base
           blank  == <<" ">>
           m1     == Plain(m)
           size   == strlen(indent) + strlen(head) + strlen(name) + 2
           texts  == <<indent, head, name, blank>>
           opened == AppendAll(NewSized(m1, size), texts)
           all    == SerializeElements(opened, list)
           types  == FieldTypes \ {"TYPE_LIST"}
           said   == indent \o ((head \o name) \o blank)
           tail   == FlattenSeq(Ends(ElementTexts(list), Comma))
           full   == FieldText(field, AskedIndent)
<1>1. r = CASE list = NULL -> [w |-> Failure(m, "MCFG_NULLPTR"), data |-> list]
            [] list # NULL /\ list.type \notin types ->
                  [w |-> Failure(m, "MCFG_INVALID_TYPE"), data |-> list]
            [] list # NULL /\ list.type \in types /\ ~Ok(m) ->
                  [w |-> Failure(Crashed(Made(m)), "MCFG_OK"), data |-> list]
            [] OTHER -> ListWritten(all)
  BY DEF serialize_list_field
<1> HIDE DEF all, full
<1>2. m \in Heaps
  BY DEF Good, Heaps
<1>3. NULL \notin DocList
  BY SerializerAssumption DEF Data
<1>4. CASE list = NULL
  <2>1. r.w = Failure(m, "MCFG_NULLPTR")
    BY <1>1, <1>4
  <2>2. r.w.err # "MCFG_OK"
    BY <2>1 DEF Failure
  <2> QED
    BY <2>2, FailureSays DEF full
<1>5. CASE list # NULL /\ list.type \notin types
  <2>1. r.w = Failure(m, "MCFG_INVALID_TYPE")
    BY <1>1, <1>5
  <2>2. r.w.err # "MCFG_OK"
    BY <2>1 DEF Failure
  <2> QED
    BY <2>2, FailureSays DEF full
<1>6. CASE list # NULL /\ list.type \in types /\ ~Ok(m)
  <2>1. r.w = Failure(Crashed(Made(m)), "MCFG_OK")
    BY <1>1, <1>6
  <2>2. Made(m) \in Heaps
    BY <1>2, Counting, 0 \in Int DEF Same
  <2>3. Broken(r.w, Made(m))
    BY <2>1, <2>2, CrashBreaks
  <2> QED
    BY <2>3 DEF Broken
<1>7. CASE list # NULL /\ list.type \in types /\ Ok(m)
  <2>1. r = ListWritten(all)
    BY <1>1, <1>7
  <2>2. m1 \in Heaps /\ Same(m1, m) /\ m1.crash = FALSE
    BY <1>2, Counting, 0 \in Int DEF Same
  <2> HIDE DEF m1
  <2>3. Good(m1, own, lost) /\ m1.strings = m.strings
    BY <2>2, GoodSame DEF Same
  <2>4. list \in DocList /\ list.type # "TYPE_LIST"
    BY <1>7
  <2>5. indent \in Text /\ name \in Text
    BY IndentType
  <2>6. head \in Text /\ blank \in Text
    <3>1. Keyword(list.type) \in Symbols
      BY <1>7, KeywordType
    <3>2. "list" \in Symbols /\ " " \in Symbols
      BY SerializerAssumption DEF Written
    <3>3. \A S : \A a, b, c, d \in S : <<a, b, c, d>> \in Seq(S)
      OBVIOUS
    <3>4. blank \in Text
      BY <3>2, TextLiterals
    <3>5. head \in Seq(Symbols)
      BY <3>1, <3>2, <3>3
    <3> QED
      BY <3>4, <3>5 DEF Text
  <2>7. full = indent \o (((head \o name) \o blank) \o tail)
    <3>1. _make_indent(2) = AskedIndent \o AskedIndent
      BY IndentAsked
    <3> QED
      BY <2>4, <3>1, ListTextIs DEF full
  <2>8. tail \in Text
    <3> DEFINE e == Ends(ElementTexts(list), Comma)
    <3>1. e \in Seq(Text)
      BY <2>4, ElementTextsAre, Separated
    <3> HIDE DEF e
    <3>2. FlattenSeq(e) \in Text
      BY <3>1, FlattenType DEF Text
    <3> QED
      BY <3>2 DEF e
  <2> HIDE DEF indent, head, name, blank
  <2>9. size \in Nat
    <3>1. strlen(indent) \in Nat /\ strlen(name) \in Nat /\ strlen(head) \in Nat
      BY <2>5, <2>6, StrlenType
    <3> QED
      BY <3>1
  <2>10. texts \in Seq(Text) /\ FlattenSeq(texts) = said
    <3>1. /\ Four(indent, head, name, blank) \in Seq(Text)
          /\ FlattenSeq(Four(indent, head, name, blank)) = FourText(indent, head, name, blank)
      BY <2>5, <2>6, FourJoined
    <3> QED
      BY <3>1 DEF Four, FourText
  <2>11. said \in Text
    <3>1. FlattenSeq(texts) \in Text
      <4> HIDE DEF texts
      <4> QED
        BY <2>10, FlattenType DEF Text
    <3> QED
      BY <2>10, <3>1
  <2>12. full = said \o tail
    <3> DEFINE front == (head \o name) \o blank
    <3>1. front \in Text
      BY <2>6, <2>5, TextJoined
    <3>2. full = indent \o (front \o tail)
      BY <2>7
    <3>3. said = indent \o front
      OBVIOUS
    <3> HIDE DEF front, said, tail
    <3>4. indent \in Seq(Symbols) /\ front \in Seq(Symbols) /\ tail \in Seq(Symbols)
      BY <2>5, <2>8, <3>1 DEF Text
    <3>5. (indent \o front) \o tail = indent \o (front \o tail)
      BY <3>4, ConcatAssociative
    <3> QED
      BY <3>2, <3>3, <3>5
  <2> HIDE DEF size, texts, said
  <2>13. Building(opened, m1, own, lost)
    BY <2>2, <2>3, <2>9, <2>10, NewSizedBuilding, AppendAllBuilding
  <2>14. Says(opened, m1, own, said)
    BY <2>2, <2>3, <2>9, <2>10, PiecesSay
  <2> HIDE DEF opened
  <2>15. Says(all.w, m1, own, full)
    BY <2>4, <2>11, <2>12, <2>13, <2>14, SerializeElementsSay DEF all
  <2>16. Growing(all.w, m1, own, lost)
    BY <2>4, <2>13, SerializeElementsGrowing DEF all
  <2>17. all.w \in Builders
    BY <2>16 DEF Growing, Building, Broken
  <2>18. r.w = [FreeOnError(all.w) EXCEPT !.m = FreePlain(@, 1)]
    BY <2>1 DEF ListWritten
  <2>19. CASE all.w.err = "MCFG_OK"
    <3>1. r.w = [all.w EXCEPT !.m = FreePlain(@, 1)]
      BY <2>18, <2>19 DEF FreeOnError
    <3>2. Says(r.w, m1, own, full)
      BY <2>15, <2>17, <3>1, SaysCounted, 1 \in Int
    <3>3. own \subseteq own /\ \A p \in own : m1.strings[p] = m.strings[p]
      BY <2>3
    <3> QED
      BY <3>2, <3>3, SaysSince DEF full
  <2>20. CASE all.w.err # "MCFG_OK"
    <3>1. FreeOnError(all.w) = [all.w EXCEPT !.m = Free(@, all.w.value)]
      BY <2>20 DEF FreeOnError
    <3>2. r.w.err = all.w.err
      BY <2>17, <2>18, <3>1 DEF Builders
    <3> QED
      BY <2>20, <3>2, FailureSays DEF full
  <2> QED
    BY <2>19, <2>20
<1> QED
  BY <1>4, <1>5, <1>6, <1>7

\* Without its value there is no text of a string field,
LEMMA AroundRefused ==
    ASSUME NEW name, NEW value, value.w.err # "MCFG_OK", NEW ok,
           NEW r, r = AroundString(name, value, ok)
    PROVE  r.w.err # "MCFG_OK"
<1> DEFINE v     == value.w
           block == v.m.strings[v.value]
           size  == 4 + strlen(name) + block.length
           texts == <<_make_indent(2), <<"str", " ">>, name, <<" ">>, block.text>>
           build == AppendAll(NewSized(v.m, size), texts)
           n     == One(ok)
           w     == CASE v.err # "MCFG_OK" -> Failure(v.m, v.err)
                      [] v.err = "MCFG_OK" /\ ~ok -> Failure(v.m, "MCFG_MALLOC_FAIL")
                      [] OTHER -> FreeOnError(build)
<1>1. r.w = [w EXCEPT !.m = FreePlain(Free(@, v.value), n)]
  BY DEF AroundString
<1> HIDE DEF w, n
<1>2. w = [m |-> v.m, value |-> NULL, err |-> v.err, appended |-> 0]
  BY DEF w, Failure
<1>3. r.w.err = v.err
  BY <1>1, <1>2
<1> QED
  BY <1>3

\* which there is none of without data,
LEMMA StringFieldRefused ==
    ASSUME NEW m, NEW own, NEW lost, Good(m, own, lost), m.crash = FALSE,
           NEW field, field.name.base \in Text, field.data = NULL,
           NEW r, r = serialize_string_field(m, field)
    PROVE  r.w.err # "MCFG_OK"
<1> DEFINE value == _serialize_string(Plain(m), field.data)
<1>1. r = AroundString(field.name.base, value, Ok(m))
  BY DEF serialize_string_field
<1>2. Same(Plain(m), m) /\ Plain(m).crash = FALSE
  <2>1. m \in Heaps
    BY DEF Good
  <2> QED
    BY <2>1, Counting, 0 \in Int
<1>3. Good(Plain(m), own, lost)
  BY <1>2, GoodSame
<1>4. value.w.err # "MCFG_OK"
  BY <1>2, <1>3, StringWithoutData
<1> HIDE DEF value
<1> QED
  BY <1>1, <1>4, AroundRefused

\* and a truth value ends the program.
LEMMA BoolFieldRefused ==
    ASSUME NEW m, NEW own, NEW lost, Good(m, own, lost),
           NEW field, field.data = NULL, NEW r, r = serialize_bool_field(m, field)
    PROVE  r.w.err # "MCFG_OK" \/ r.w.m.crash # FALSE
<1> DEFINE m1    == Plain(m)
           text  == <<" ">> \o mcfg_data_to_string(field.type, field.data)
           w     == AppendAll(NewSized(m1, strlen(_make_indent(2)) + 5
                                              + strlen(field.name.base) + strlen(text)),
                              <<_make_indent(2), <<"bool", " ">>, field.name.base, text>>)
<1>3. r.w = CASE ~Ok(m) -> Failure(m1, "MCFG_MALLOC_FAIL")
              [] Ok(m) /\ field.data = NULL -> Failure(Crashed(m1), "MCFG_OK")
              [] OTHER -> [w EXCEPT !.m = FreePlain(@, 1)]
  BY DEF serialize_bool_field
<1> HIDE DEF w
<1>1. CASE ~Ok(m)
  <2>1. r.w = Failure(Plain(m), "MCFG_MALLOC_FAIL")
    BY <1>1, <1>3
  <2> QED
    BY <2>1 DEF Failure
<1>2. CASE Ok(m)
  <2>1. r.w = Failure(Crashed(Plain(m)), "MCFG_OK")
    BY <1>2, <1>3
  <2>2. Plain(m) \in Heaps
    BY PlainIs DEF Good
  <2>3. Broken(r.w, Plain(m))
    BY <2>1, <2>2, CrashBreaks
  <2> QED
    BY <2>3 DEF Broken
<1> QED
  BY <1>1, <1>2

\* The text of any field; without one that is of a type there is none.
LEMMA SerializeFieldSays ==
    ASSUME options \in Options, options.stale = << >>,
           NEW m, NEW own, NEW lost, Good(m, own, lost), m.crash = FALSE,
           NEW field \in DocField,
           NEW r, r = SerializeField(m, field), r.w.m.crash = FALSE
    PROVE  Says(r.w, m, own, FieldText(field, AskedIndent))
<1>1. /\ field.name.base \in Text /\ field.type \in FieldTypes \cup {"TYPE_INVALID"}
      /\ field.data \in {NULL} \cup DataOf(field.type)
  BY SerializerAssumption DEF DocField, Name
<1>2. CASE field.type = "TYPE_STRING"
  <2>1. r = serialize_string_field(m, field)
    BY <1>2 DEF SerializeField
  <2>2. field.data \in {NULL} \cup Value("TYPE_STRING")
    BY <1>1, <1>2 DEF DataOf
  <2>3. CASE field.data = NULL
    <3>1. r.w.err # "MCFG_OK"
      BY <1>1, <2>1, <2>3, StringFieldRefused
    <3> QED
      BY <3>1, FailureSays
  <2>4. CASE field.data \in Value("TYPE_STRING")
    BY <1>1, <1>2, <2>1, <2>4, StringFieldSays
  <2> QED
    BY <2>2, <2>3, <2>4
<1>3. CASE field.type = "TYPE_LIST"
  <2>1. r = serialize_list_field(m, field)
    BY <1>3 DEF SerializeField
  <2>2. field.data \in {NULL} \cup DocList
    BY <1>1, <1>3 DEF DataOf
  <2> QED
    BY <1>1, <1>3, <2>1, <2>2, ListFieldSays
<1>4. CASE field.type = "TYPE_BOOL"
  <2>1. r = serialize_bool_field(m, field)
    BY <1>4 DEF SerializeField
  <2>2. field.data \in {NULL} \cup Value("TYPE_BOOL")
    BY <1>1, <1>4 DEF DataOf
  <2>3. CASE field.data \in Value("TYPE_BOOL")
    BY <1>1, <1>4, <2>1, <2>3, BoolFieldSays
  <2>4. CASE field.data = NULL
    <3>1. r.w.err # "MCFG_OK" \/ r.w.m.crash # FALSE
      BY <2>1, <2>4, BoolFieldRefused
    <3> QED
      BY <3>1, FailureSays
  <2> QED
    BY <2>2, <2>3, <2>4
<1>5. CASE field.type \in FieldTypes \ {"TYPE_STRING", "TYPE_LIST", "TYPE_BOOL"}
  <2>1. r = serialize_number_field(m, field)
    BY <1>5 DEF SerializeField
  <2>2. field.data \in {NULL} \cup Value(field.type)
    BY <1>1, <1>5 DEF DataOf
  <2>3. CASE field.data = NULL
    <3>1. r.w = Failure(Crashed(Plain(m)), "MCFG_OK")
      BY <2>1, <2>3 DEF serialize_number_field
    <3>2. Plain(m) \in Heaps
      BY PlainIs DEF Good
    <3>3. Broken(r.w, Plain(m))
      BY <3>1, <3>2, CrashBreaks
    <3> QED
      BY <3>3 DEF Broken
  <2>4. CASE field.data \in Value(field.type)
    <3>1. field.type \in FieldTypes \ {"TYPE_STRING", "TYPE_LIST"}
      BY <1>5
    <3> QED
      BY <1>1, <2>1, <2>4, <3>1, NumberFieldSays
  <2> QED
    BY <2>2, <2>3, <2>4
<1>6. CASE field.type = "TYPE_INVALID"
  <2>1. r = InvalidType(m, field)
    BY <1>6 DEF SerializeField, FieldTypes
  <2>2. r.w = [[m |-> m, value |-> NULL, err |-> "MCFG_INVALID_TYPE", appended |-> 0]
                  EXCEPT !.value = result.value]
    BY <2>1 DEF InvalidType, Failure
  <2>3. r.w.err # "MCFG_OK"
    BY <2>2
  <2> QED
    BY <2>3, FailureSays
<1> QED
  BY <1>1, <1>2, <1>3, <1>4, <1>5, <1>6

-----------------------------------------------------------------------------
(* The texts written so far.                                                 *)

\* What child k of the function number d on stack s is to be written as.
ChildText(doc, s, d, k, indent) ==
    CASE d = 1 -> SectorText(doc.sectors[k], indent)
      [] d = 2 -> SectionText(doc.sectors[s[1].ix].sections[k], indent)
      [] d = 3 -> FieldText(doc.sectors[s[1].ix].sections[s[2].ix].fields[k], indent)

\* What the function on top of s is to write.
WholeText(doc, s, indent) ==
    IF Len(s) <= 1 THEN DocText(doc, indent)
    ELSE ChildText(doc, s, Len(s) - 1, s[Len(s) - 1].ix, indent)

\* Behind the first n children they are as they were.
SameFrom(now, before, n) ==
    Len(now) = Len(before) /\ \A i \in n + 1 .. Len(before) : now[i] = before[i]

\* What has not been serialized yet is as it was when the call began.
Rest(doc, orig, s) ==
    /\ Len(s) >= 1 => SameFrom(doc.sectors, orig.sectors, s[1].ix)
    /\ Len(s) >= 2 =>
          LET now    == doc.sectors[s[1].ix]
              before == orig.sectors[s[1].ix]
          IN  now.name = before.name /\ SameFrom(now.sections, before.sections, s[2].ix)
    /\ Len(s) = 3 =>
          LET now    == doc.sectors[s[1].ix].sections[s[2].ix]
              before == orig.sectors[s[1].ix].sections[s[2].ix]
          IN  now.name = before.name /\ SameFrom(now.fields, before.fields, s[3].ix)

\* The lists hold the texts of the children, in order,
Listing(doc, s, m, indent) ==
    \A d \in 1 .. Len(s) : \A k \in 1 .. Len(s[d].list.items) :
        m.strings[s[d].list.items[k]].text = ChildText(doc, s, d, k, indent)

\* of all of them that have returned,
Counted(s, p) ==
    /\ \A d \in 1 .. Len(s) - 1 : Len(s[d].list.items) + 1 = s[d].ix
    /\ p = "loop" => Len(s[Len(s)].list.items) = s[Len(s)].ix
    /\ p = "collect" => Len(s[Len(s)].list.items) + 1 = s[Len(s)].ix

\* and the result is the text of the child that has just returned, or of all.
Resulting(doc, s, r, m, p, indent) ==
    LET text == m.strings[r.value].text
    IN  /\ p = "collect" => text = ChildText(doc, s, Len(s), s[Len(s)].ix, indent)
        /\ p \in {"exit", "returned"} => text = WholeText(doc, s, indent)

Texting(doc, s, r, m, p, indent) ==
    r.err = "MCFG_OK" =>
        Listing(doc, s, m, indent) /\ Counted(s, p) /\ Resulting(doc, s, r, m, p, indent)

\* WritesDocument is not inductive: it needs the texts in all the lists.
TInv ==
    pc # "crashed" /\ options.stale = << >> =>
        Rest(file, given, stack) /\ Texting(given, stack, result, mem, pc, AskedIndent)

-----------------------------------------------------------------------------
(* The texts of sections, sectors and files.                                 *)

\* The texts of fields, each on a line of its own,
FieldLines(fields, indent) == TextOfAll(LAMBDA f : FieldText(f, indent) \o <<"LF">>, fields)

LEMMA FieldsJoined ==
    ASSUME NEW fields, NEW indent, NEW n,
           DOMAIN fields = 1 .. n, n \in Nat,
           NEW parts \in Seq(Text), Len(parts) = n,
           \A k \in 1 .. n : parts[k] = FieldText(fields[k], indent) \o <<"LF">>
    PROVE  FieldLines(fields, indent) = FlattenSeq(parts)
<1> DEFINE Body(g) == [s \in SUBSET DOMAIN fields |->
                          IF s = {} THEN << >>
                          ELSE g[s \ {Max(s)}] \o (FieldText(fields[Max(s)], indent) \o <<"LF">>)]
           fold == CHOOSE g : g = Body(g)
           all  == FieldLines(fields, indent)
<1>1. all = fold[DOMAIN fields]
  BY DEF FieldLines, TextOfAll, FoldLeft, MapThenFoldSet
<1> HIDE DEF all, fold
<1>2. ASSUME NEW g
      PROVE  Body(g) = JoinBody(g, parts, n)
  <2>1. ASSUME NEW s \in SUBSET (1 .. n), s # {}
        PROVE  parts[Max(s)] = FieldText(fields[Max(s)], indent) \o <<"LF">>
    <3>1. Max(s) \in 1 .. n
      BY <2>1, MaxOfInterval
    <3> QED
      BY <3>1
  <2> QED
    BY <2>1 DEF JoinBody
<1> HIDE DEF Body
<1>3. parts \in Seq(Seq(Symbols))
  BY DEF Text
<1>4. fold = JoinBody(fold, parts, n)
  <2>1. \E g : g = Body(g)
    BY <1>2, <1>3, JoinBodyExists
  <2>2. fold = Body(fold)
    BY <2>1 DEF fold
  <2> QED
    BY <1>2, <2>2
<1>5. fold[1 .. n] = FlattenSeq(parts)
  BY <1>3, <1>4, FoldJoins
<1> QED
  BY <1>1, <1>5 DEF all

\* of sectors,
LEMMA SectorsJoined ==
    ASSUME NEW doc, NEW indent, NEW n,
           DOMAIN doc.sectors = 1 .. n, n \in Nat,
           NEW parts \in Seq(Text), Len(parts) = n,
           \A k \in 1 .. n : parts[k] = SectorText(doc.sectors[k], indent)
    PROVE  DocText(doc, indent) = FlattenSeq(parts)
<1> DEFINE Body(g) == [s \in SUBSET DOMAIN doc.sectors |->
                          IF s = {} THEN << >>
                          ELSE g[s \ {Max(s)}] \o (SectorText(doc.sectors[Max(s)], indent))]
           fold == CHOOSE g : g = Body(g)
           all  == DocText(doc, indent)
<1>1. all = fold[DOMAIN doc.sectors]
  BY DEF DocText, TextOfAll, FoldLeft, MapThenFoldSet
<1> HIDE DEF all, fold
<1>2. ASSUME NEW g
      PROVE  Body(g) = JoinBody(g, parts, n)
  <2>1. ASSUME NEW s \in SUBSET (1 .. n), s # {}
        PROVE  parts[Max(s)] = SectorText(doc.sectors[Max(s)], indent)
    <3>1. Max(s) \in 1 .. n
      BY <2>1, MaxOfInterval
    <3> QED
      BY <3>1
  <2> QED
    BY <2>1 DEF JoinBody
<1> HIDE DEF Body
<1>3. parts \in Seq(Seq(Symbols))
  BY DEF Text
<1>4. fold = JoinBody(fold, parts, n)
  <2>1. \E g : g = Body(g)
    BY <1>2, <1>3, JoinBodyExists
  <2>2. fold = Body(fold)
    BY <2>1 DEF fold
  <2> QED
    BY <1>2, <2>2
<1>5. fold[1 .. n] = FlattenSeq(parts)
  BY <1>3, <1>4, FoldJoins
<1> QED
  BY <1>1, <1>5 DEF all

\* and of sections, with an empty line between them.
Lf == <<"LF">>

LEMMA SectionsJoined ==
    ASSUME NEW sections \in Seq(DocSection), NEW indent, NEW t \in Seq(Text),
           Len(t) = Len(sections),
           \A k \in 1 .. Len(sections) : t[k] = SectionText(sections[k], indent)
    PROVE  Joined(LAMBDA section : SectionText(section, indent), sections, Lf) = Strung(t, Lf)
<1> DEFINE n     == Len(sections)
           parts == Fronts(t, Lf)
           tail  == Tail(sections)
           Body(g) == [s \in SUBSET DOMAIN tail |->
                          IF s = {} THEN << >>
                          ELSE g[s \ {Max(s)}]
                                  \o (Lf \o SectionText(tail[Max(s)], indent))]
           fold == CHOOSE g : g = Body(g)
           joined == Joined(LAMBDA section : SectionText(section, indent), sections, Lf)
<1>1. /\ t \in Seq(Text) /\ Len(t) = n /\ n \in Nat /\ DOMAIN sections = 1 .. n
      /\ Lf \in Text
      /\ \A k \in 1 .. n : t[k] = SectionText(sections[k], indent)
  BY LenProperties, TextLiterals, SerializerAssumption DEF Written, Lf
<1>2. joined = IF sections = << >> THEN << >>
               ELSE SectionText(Head(sections), indent) \o fold[DOMAIN tail]
  BY DEF Joined, TextOfAll, FoldLeft, MapThenFoldSet
<1> HIDE DEF joined, fold
<1>4. CASE n = 0
  <2>1. sections = << >>
    BY <1>4, EmptySeq
  <2>2. joined = << >>
    BY <1>2, <2>1
  <2>3. Strung(t, Lf) = << >>
    BY <1>1, <1>4 DEF Strung
  <2> QED
    BY <2>2, <2>3 DEF joined
<1>5. CASE n # 0
  <2> DEFINE m == n - 1
  <2>1. m \in Nat /\ m + 1 = n /\ 1 \in 1 .. n /\ n > 0
    BY <1>1, <1>5
  <2>2. /\ sections # << >> /\ Head(sections) = sections[1]
        /\ DOMAIN tail = 1 .. m /\ \A k \in 1 .. m : tail[k] = sections[k + 1]
    <3>1. sections # << >>
      BY <1>5, EmptySeq
    <3>2. /\ tail \in Seq(DocSection)
          /\ Len(tail) = m /\ Head(sections) = sections[1]
          /\ \A k \in 1 .. m : tail[k] = sections[k + 1]
      BY <3>1, HeadTailProperties
    <3> HIDE DEF tail, m
    <3>3. DOMAIN tail = 1 .. m
      BY <3>2, LenProperties
    <3> QED
      BY <3>1, <3>2, <3>3
  <2>3. /\ parts \in Seq(Text) /\ Len(parts) = m
        /\ \A k \in 1 .. m : parts[k] = Lf \o SectionText(tail[k], indent)
    <3>1. parts \in Seq(Text)
      BY <1>1, <1>5, Separated
    <3>2. parts = [k \in 1 .. m |-> Lf \o t[k + 1]]
      BY <1>1 DEF Fronts
    <3> HIDE DEF parts
    <3>3. Len(parts) = m
      BY <2>1, <3>1, <3>2, LenProperties
    <3>4. ASSUME NEW k \in 1 .. m
          PROVE  parts[k] = Lf \o SectionText(tail[k], indent)
      <4>1. k + 1 \in 1 .. n
        BY <1>1, <2>1
      <4>2. t[k + 1] = SectionText(tail[k], indent)
        BY <1>1, <2>2, <4>1
      <4> HIDE DEF m
      <4>3. parts[k] = Lf \o t[k + 1]
        BY <3>2
      <4> QED
        BY <4>2, <4>3
    <3> QED
      BY <3>1, <3>3, <3>4
  <2> HIDE DEF parts, tail, m
  <2>4. ASSUME NEW g
        PROVE  Body(g) = JoinBody(g, parts, m)
    <3>1. ASSUME NEW s \in SUBSET (1 .. m), s # {}
          PROVE  parts[Max(s)] = Lf \o SectionText(tail[Max(s)], indent)
      <4>1. Max(s) \in 1 .. m
        BY <2>1, <3>1, MaxOfInterval
      <4> QED
        BY <2>3, <4>1
    <3> QED
      BY <2>2, <3>1 DEF JoinBody
  <2> HIDE DEF Body
  <2>5. parts \in Seq(Seq(Symbols))
    BY <2>3 DEF Text
  <2>6. fold = JoinBody(fold, parts, m)
    <3>1. \E g : g = Body(g)
      BY <2>3, <2>4, <2>5, JoinBodyExists
    <3>2. fold = Body(fold)
      BY <3>1 DEF fold
    <3> QED
      BY <2>4, <3>2
  <2>7. fold[1 .. m] = FlattenSeq(parts)
    BY <2>3, <2>5, <2>6, FoldJoins
  <2>8. joined = SectionText(sections[1], indent) \o FlattenSeq(parts)
    BY <1>2, <2>2, <2>7
  <2>9. t[1] = SectionText(sections[1], indent)
    BY <1>1, <2>1
  <2> QED
    BY <1>1, <1>5, <2>8, <2>9 DEF Strung, parts, joined
<1> QED
  BY <1>4, <1>5

\* It does not matter in which order texts are joined.
LEMMA TextRegrouped ==
    ASSUME NEW a \in Text, NEW b \in Text, NEW c \in Text
    PROVE  (a \o b) \o c = a \o (b \o c)
<1>1. a \in Seq(Symbols) /\ b \in Seq(Symbols) /\ c \in Seq(Symbols)
  BY DEF Text
<1> QED
  BY <1>1, ConcatAssociative

SevenTexts(a, b, c, d, t, i, e) == a \o b \o c \o d \o t \o i \o e
FiveTexts(a, b, c, t, e)        == a \o b \o c \o t \o e

AreTexts(a, b, c, d, t, i, e) == {a, b, c, d, t, i, e} \subseteq Text

LEMMA SevenRegrouped ==
    ASSUME NEW a, NEW b, NEW c, NEW d, NEW t, NEW i, NEW e, AreTexts(a, b, c, d, t, i, e)
    PROVE  (FourText(a, b, c, d) \o t) \o (i \o e) = SevenTexts(a, b, c, d, t, i, e)
<1> DEFINE x == b \o c
           y == x \o d
           z == a \o y
           u == z \o t
<1>0. /\ a \in Text /\ b \in Text /\ c \in Text /\ d \in Text
      /\ t \in Text /\ i \in Text /\ e \in Text
  BY DEF AreTexts
<1>1. x \in Text
  BY <1>0, TextJoined
<1>8. (a \o b) \o c = a \o x
  BY <1>0, TextRegrouped
<1> HIDE DEF x
<1>2. y \in Text
  BY <1>0, <1>1, TextJoined
<1>9. (a \o x) \o d = a \o (x \o d)
  <2>1. a \in Seq(Symbols) /\ x \in Seq(Symbols) /\ d \in Seq(Symbols)
    BY <1>0, <1>1 DEF Text
  <2> QED
    BY <2>1, ConcatAssociative
<1> HIDE DEF y
<1>3. z \in Text
  BY <1>0, <1>2, TextJoined
<1> HIDE DEF z
<1>4. u \in Text
  BY <1>0, <1>3, TextJoined
<1> HIDE DEF u
<1>5. (u \o i) \o e = u \o (i \o e)
  BY <1>0, <1>4, TextRegrouped
<1>6. FourText(a, b, c, d) = z
  BY DEF FourText, x, y, z
<1>7. a \o b \o c \o d = z
  BY <1>8, <1>9 DEF y, z
<1> QED
  BY <1>5, <1>6, <1>7 DEF u, SevenTexts

LEMMA FiveRegrouped ==
    ASSUME NEW a \in Text, NEW b \in Text, NEW c \in Text, NEW t, NEW e
    PROVE  (ThreeText(a, b, c) \o t) \o e = FiveTexts(a, b, c, t, e)
BY TextRegrouped DEF ThreeText, FiveTexts

\* Lines are joined line by line.
LEMMA LinesJoined ==
    ASSUME NEW n \in Nat, NEW f \in [1 .. n -> Seq(Text)], NEW parts \in Seq(Text),
           Len(parts) = n, \A k \in 1 .. n : FlattenSeq(f[k]) = parts[k]
    PROVE  FlattenSeq(Lines(f)) = FlattenSeq(parts)
<1> DEFINE all == [k \in 1 .. Len(f) |-> FlattenSeq(f[k])]
<1>1. f \in Seq(Seq(Text)) /\ Len(f) = n
  BY LenProperties
<1>2. f \in Seq(Seq(Seq(Symbols)))
  BY <1>1 DEF Text
<1>3. /\ all \in Seq(Seq(Symbols)) /\ Len(all) = Len(f)
      /\ FlattenSeq(FlattenSeq(f)) = FlattenSeq(all)
  BY <1>2, FlattenFlatten
<1>4. \A k \in 1 .. n : all[k] = parts[k]
  BY <1>1
<1>5. parts \in Seq(Seq(Symbols))
  BY DEF Text
<1> HIDE DEF all
<1>6. all = parts
  BY <1>1, <1>3, <1>4, <1>5, SeqEqual
<1> QED
  BY <1>3, <1>6 DEF Lines

\* A head, lines and an end.
Framed(head, lines, tail) == head \o lines \o tail

LEMMA PartsJoined ==
    ASSUME NEW head \in Seq(Text), NEW lines \in Seq(Text), NEW tail \in Seq(Text)
    PROVE  FlattenSeq(Framed(head, lines, tail)) =
              (FlattenSeq(head) \o FlattenSeq(lines)) \o FlattenSeq(tail)
<1> DEFINE front == head \o lines
<1>1. head \in Seq(Seq(Symbols)) /\ lines \in Seq(Seq(Symbols)) /\ tail \in Seq(Seq(Symbols))
  BY DEF Text
<1>2. front \in Seq(Seq(Symbols)) /\ FlattenSeq(front) = FlattenSeq(head) \o FlattenSeq(lines)
  BY <1>1, FlattenConcat
<1> HIDE DEF front
<1>3. FlattenSeq(front \o tail) = FlattenSeq(front) \o FlattenSeq(tail)
  BY <1>1, <1>2, FlattenConcat
<1> QED
  BY <1>2, <1>3 DEF front, Framed

\* The pieces of a section are its text, if its list holds those of its fields.
LEMMA SectionPiecesJoined ==
    ASSUME TopBuilt, options \in Options, options.stale = << >>,
           NEW section \in DocSection, ThisSection.name = section.name,
           NEW n, n = Len(Top.list.items), Len(section.fields) = n,
           \A k \in 1 .. n : TextAt(Top.list.items[k]) = FieldText(section.fields[k], AskedIndent)
    PROVE  FlattenSeq(SectionPieces) = SectionText(section, AskedIndent)
<1> DEFINE items  == Top.list.items
           indent == _make_indent(1)
           name   == section.name.base
           word   == <<"section", " ">>
           last   == <<"end", "LF">>
           f      == [k \in DOMAIN items |-> <<TextAt(items[k]), <<"LF">> >>]
           parts  == [k \in 1 .. n |-> FieldText(section.fields[k], AskedIndent) \o Lf]
           head   == <<indent, word, name, Lf>>
           tail   == <<indent, last>>
           lines  == FieldLines(section.fields, AskedIndent)
<1>1. SectionPieces = Framed(head, Lines(f), tail)
  BY DEF SectionPieces, Lf, Framed
<1>2. indent \in Text /\ indent = AskedIndent /\ name \in Text
  BY IndentType, IndentAsked, SectionIs
<1>3. word \in Text /\ Lf \in Text /\ last \in Text
  BY TextLiterals, SerializerAssumption DEF Written, Lf
<1>4. /\ DOMAIN items = 1 .. n /\ n \in Nat
      /\ \A k \in 1 .. n : TextAt(items[k]) \in Text
  BY TextsListed
<1>5. /\ DOMAIN section.fields = 1 .. n
      /\ \A k \in 1 .. n : TextAt(items[k]) = FieldText(section.fields[k], AskedIndent)
  BY SectionIs
<1>6. SectionText(section, AskedIndent) =
         SevenTexts(AskedIndent, word, name, Lf, lines, AskedIndent, last)
  BY DEF SectionText, FieldLines, Lf, SevenTexts
<1> HIDE DEF indent, word, last, name, items, lines
<1>7. \A k \in 1 .. n : <<TextAt(items[k]), Lf>> \in Seq(Text)
                        /\ FlattenSeq(<<TextAt(items[k]), Lf>>) = TextAt(items[k]) \o Lf
  <2>1. ASSUME NEW a \in Text
        PROVE  <<a, Lf>> \in Seq(Text) /\ FlattenSeq(<<a, Lf>>) = a \o Lf
    <3>1. \A S : \A x, y \in S : <<x, y>> \in Seq(S)
      OBVIOUS
    <3>2. a \in Seq(Symbols) /\ Lf \in Seq(Symbols)
      BY <1>3 DEF Text
    <3> QED
      BY <1>3, <3>1, <3>2, FlattenFew
  <2> QED
    BY <1>4, <2>1
<1>8. f = [k \in 1 .. n |-> <<TextAt(items[k]), Lf>>]
  BY <1>4 DEF Lf
<1> HIDE DEF f
<1>9. f \in [1 .. n -> Seq(Text)] /\ \A k \in 1 .. n : FlattenSeq(f[k]) = TextAt(items[k]) \o Lf
  BY <1>7, <1>8
<1>10. /\ parts \in Seq(Text) /\ Len(parts) = n
       /\ \A k \in 1 .. n : parts[k] = FieldText(section.fields[k], AskedIndent) \o Lf
  <2>1. \A k \in 1 .. n : FieldText(section.fields[k], AskedIndent) \o Lf \in Text
    BY <1>3, <1>4, <1>5, TextJoined
  <2> QED
    BY <1>4, <2>1
<1> HIDE DEF parts
<1>11. FlattenSeq(Lines(f)) = FlattenSeq(parts)
  <2>1. \A k \in 1 .. n : FlattenSeq(f[k]) = parts[k]
    BY <1>5, <1>9, <1>10
  <2> QED
    BY <1>4, <1>9, <1>10, <2>1, LinesJoined
<1>12. lines = FlattenSeq(parts)
  <2>1. \A k \in 1 .. n : parts[k] = FieldText(section.fields[k], AskedIndent) \o <<"LF">>
    BY <1>10 DEF Lf
  <2>2. FieldLines(section.fields, AskedIndent) = FlattenSeq(parts)
    BY <1>4, <1>5, <1>10, <2>1, FieldsJoined
  <2> QED
    BY <2>2 DEF lines
<1>13. lines \in Text /\ Lines(f) \in Seq(Text)
  BY <1>4, <1>9, <1>10, <1>12, LinesType, FlattenType DEF Text
<1>14. head \in Seq(Text) /\ FlattenSeq(head) = FourText(indent, word, name, Lf)
  BY <1>2, <1>3, FourJoined DEF Four
<1>15. tail \in Seq(Text) /\ FlattenSeq(tail) = indent \o last
  <2>1. \A S : \A x, y \in S : <<x, y>> \in Seq(S)
    OBVIOUS
  <2>2. indent \in Seq(Symbols) /\ last \in Seq(Symbols)
    BY <1>2, <1>3 DEF Text
  <2> QED
    BY <1>2, <1>3, <2>1, <2>2, FlattenFew
<1> HIDE DEF head, tail
<1>16. FlattenSeq(SectionPieces) = (FourText(indent, word, name, Lf) \o lines) \o (indent \o last)
  <2>1. FlattenSeq(Framed(head, Lines(f), tail)) =
           (FlattenSeq(head) \o FlattenSeq(Lines(f))) \o FlattenSeq(tail)
    BY <1>13, <1>14, <1>15, PartsJoined
  <2> QED
    BY <1>1, <1>11, <1>12, <1>14, <1>15, <2>1
<1>17. FlattenSeq(SectionPieces) = SevenTexts(indent, word, name, Lf, lines, indent, last)
  <2>1. (FourText(indent, word, name, Lf) \o lines) \o (indent \o last) =
           SevenTexts(indent, word, name, Lf, lines, indent, last)
    <3>1. AreTexts(indent, word, name, Lf, lines, indent, last)
      BY <1>2, <1>3, <1>13 DEF AreTexts
    <3> QED
      BY <3>1, SevenRegrouped
  <2> QED
    BY <1>16, <2>1
<1> QED
  BY <1>2, <1>6, <1>17

\* The same of a sector,
LEMMA SectorPiecesJoined ==
    ASSUME TopBuilt, NEW sector \in DocSector, ThisSector.name = sector.name, NEW indent,
           NEW n, n = Len(Top.list.items), Len(sector.sections) = n,
           \A k \in 1 .. n : TextAt(Top.list.items[k]) = SectionText(sector.sections[k], indent)
    PROVE  FlattenSeq(SectorPieces) = SectorText(sector, indent)
<1> DEFINE items  == Top.list.items
           name   == sector.name.base
           word   == <<"sector", " ">>
           last   == <<"end", "LF", "LF">>
           f      == [k \in DOMAIN items |->
                        IF k < Len(items) THEN <<TextAt(items[k]), <<"LF">> >>
                        ELSE <<TextAt(items[k])>>]
           t      == ListedTexts
           parts  == Ends(t, Lf)
           head   == <<word, name, Lf>>
           tail   == <<last>>
           lines  == Joined(LAMBDA x : SectionText(x, indent), sector.sections, <<"LF">>)
<1>1. SectorPieces = Framed(head, Lines(f), tail)
  BY DEF SectorPieces, Lf, Framed
<1>2. name \in Text
  BY SectorIs
<1>3. word \in Text /\ Lf \in Text /\ last \in Text
  <2>1. \A S : \A a, b, c \in S : <<a, b, c>> \in Seq(S)
    OBVIOUS
  <2>2. "end" \in Symbols /\ "LF" \in Symbols
    BY SerializerAssumption DEF Written
  <2>3. last \in Text
    BY <2>1, <2>2 DEF Text
  <2> QED
    BY <2>3, TextLiterals, SerializerAssumption DEF Written, Lf
<1>4. /\ DOMAIN items = 1 .. n /\ n \in Nat
      /\ \A k \in 1 .. n : TextAt(items[k]) \in Text
      /\ t \in Seq(Text)
  BY TextsListed
<1>5. Len(t) = n /\ \A k \in 1 .. n : t[k] = TextAt(items[k])
  <2>1. t = [k \in 1 .. n |-> TextAt(items[k])]
    BY <1>4 DEF ListedTexts
  <2> HIDE DEF t, items
  <2>2. DOMAIN t = 1 .. n /\ \A k \in 1 .. n : t[k] = TextAt(items[k])
    BY <2>1
  <2> QED
    BY <1>4, <2>2, LenProperties
<1>6. SectorText(sector, indent) = FiveTexts(word, name, Lf, lines, last)
  BY DEF SectorText, Lf, FiveTexts
<1>7. lines = FlattenSeq(parts)
  <2>1. lines = Joined(LAMBDA x : SectionText(x, indent), sector.sections, Lf)
    BY DEF Lf
  <2> HIDE DEF lines, t
  <2>2. sector.sections \in Seq(DocSection) /\ \A k \in 1 .. n : t[k] = SectionText(sector.sections[k], indent)
    BY <1>5 DEF DocSector
  <2>3. lines = Strung(t, Lf)
    BY <1>4, <1>5, <2>1, <2>2, SectionsJoined
  <2> QED
    BY <1>3, <1>4, <2>3, StrungIs
<1> HIDE DEF word, last, name, items, lines, t
<1>8. \A a \in Text : /\ <<a, Lf>> \in Seq(Text) /\ FlattenSeq(<<a, Lf>>) = a \o Lf
                      /\ <<a>> \in Seq(Text) /\ FlattenSeq(<<a>>) = a
  <2>1. ASSUME NEW a \in Text
        PROVE  /\ <<a, Lf>> \in Seq(Text) /\ FlattenSeq(<<a, Lf>>) = a \o Lf
               /\ <<a>> \in Seq(Text) /\ FlattenSeq(<<a>>) = a
    <3>1. \A S : \A x, y \in S : <<x, y>> \in Seq(S) /\ <<x>> \in Seq(S)
      OBVIOUS
    <3>2. a \in Seq(Symbols) /\ Lf \in Seq(Symbols)
      BY <1>3 DEF Text
    <3> QED
      BY <1>3, <3>1, <3>2, FlattenFew
  <2> QED
    BY <2>1
<1>9. f = [k \in 1 .. n |-> IF k < n THEN <<TextAt(items[k]), Lf>> ELSE <<TextAt(items[k])>>]
  BY <1>4 DEF Lf, items
<1>10. /\ parts \in Seq(Text) /\ Len(parts) = n
       /\ \A k \in 1 .. n : parts[k] = IF k < n THEN TextAt(items[k]) \o Lf ELSE TextAt(items[k])
  <2>1. parts \in Seq(Text)
    BY <1>3, <1>4, Separated
  <2>2. parts = [k \in 1 .. n |-> IF k < n THEN t[k] \o Lf ELSE t[k]]
    BY <1>5 DEF Ends
  <2> HIDE DEF parts
  <2>3. DOMAIN parts = 1 .. n
    BY <2>2
  <2>4. Len(parts) = n
    BY <1>4, <2>1, <2>3, LenProperties
  <2> QED
    BY <1>5, <2>1, <2>2, <2>4
<1> HIDE DEF f, parts
<1>11. f \in [1 .. n -> Seq(Text)] /\ \A k \in 1 .. n : FlattenSeq(f[k]) = parts[k]
  <2>1. ASSUME NEW k \in 1 .. n
        PROVE  f[k] \in Seq(Text) /\ FlattenSeq(f[k]) = parts[k]
    <3>1. TextAt(items[k]) \in Text
      BY <1>4
    <3>2. /\ f[k] = IF k < n THEN <<TextAt(items[k]), Lf>> ELSE <<TextAt(items[k])>>
          /\ parts[k] = IF k < n THEN TextAt(items[k]) \o Lf ELSE TextAt(items[k])
      BY <1>9, <1>10
    <3> QED
      BY <1>8, <3>1, <3>2
  <2>2. f = [k \in 1 .. n |-> f[k]]
    BY <1>9
  <2> QED
    BY <2>1, <2>2
<1>12. FlattenSeq(Lines(f)) = lines
  BY <1>4, <1>7, <1>10, <1>11, LinesJoined
<1>13. lines \in Text /\ Lines(f) \in Seq(Text)
  BY <1>4, <1>7, <1>10, <1>11, LinesType, FlattenType DEF Text
<1>14. head \in Seq(Text) /\ FlattenSeq(head) = ThreeText(word, name, Lf)
  BY <1>2, <1>3, ThreeJoined DEF Three
<1>15. tail \in Seq(Text) /\ FlattenSeq(tail) = last
  BY <1>3, <1>8
<1> HIDE DEF head, tail
<1>16. FlattenSeq(SectorPieces) = (ThreeText(word, name, Lf) \o lines) \o last
  <2>1. FlattenSeq(Framed(head, Lines(f), tail)) =
           (FlattenSeq(head) \o FlattenSeq(Lines(f))) \o FlattenSeq(tail)
    BY <1>13, <1>14, <1>15, PartsJoined
  <2> QED
    BY <1>1, <1>12, <1>14, <1>15, <2>1
<1>17. FlattenSeq(SectorPieces) = FiveTexts(word, name, Lf, lines, last)
  BY <1>2, <1>3, <1>16, FiveRegrouped
<1> QED
  BY <1>6, <1>17

\* and of a file.
LEMMA FileTextsJoined ==
    ASSUME TopBuilt, NEW doc \in Document, NEW indent,
           NEW n, n = Len(Top.list.items), Len(doc.sectors) = n,
           \A k \in 1 .. n : TextAt(Top.list.items[k]) = SectorText(doc.sectors[k], indent)
    PROVE  FlattenSeq(ListedTexts) = DocText(doc, indent)
<1> DEFINE t == ListedTexts
<1>1. /\ DOMAIN Top.list.items = 1 .. n /\ n \in Nat /\ t \in Seq(Text)
  BY TextsListed
<1>2. t = [k \in 1 .. n |-> TextAt(Top.list.items[k])]
  BY <1>1 DEF ListedTexts
<1> HIDE DEF t
<1>3. Len(t) = n
  <2>1. DOMAIN t = 1 .. n
    BY <1>2
  <2> QED
    BY <1>1, <2>1, LenProperties
<1>4. \A k \in 1 .. n : t[k] = SectorText(doc.sectors[k], indent)
  BY <1>2
<1>5. DOMAIN doc.sectors = 1 .. n
  BY DocumentIs
<1> QED
  BY <1>1, <1>3, <1>4, <1>5, SectorsJoined DEF t

\* The text of a child depends on where its parents are.
SameAbove(t, s, d) == \A c \in 1 .. d - 1 : t[c].ix = s[c].ix

LEMMA ChildTextSame ==
    ASSUME NEW doc, NEW s, NEW t, NEW d \in {1, 2, 3}, NEW k, NEW indent,
           SameAbove(t, s, d)
    PROVE  ChildText(doc, t, d, k, indent) = ChildText(doc, s, d, k, indent)
<1>0. \A c \in 1 .. d - 1 : t[c].ix = s[c].ix
  BY DEF SameAbove
<1>1. CASE d = 1
  BY <1>1 DEF ChildText
<1>2. CASE d = 2
  <2>1. t[1].ix = s[1].ix
    BY <1>0, <1>2
  <2> QED
    BY <1>2, <2>1 DEF ChildText
<1>3. CASE d = 3
  <2>1. t[1].ix = s[1].ix /\ t[2].ix = s[2].ix
    BY <1>0, <1>3
  <2> QED
    BY <1>3, <2>1 DEF ChildText
<1> QED
  BY <1>1, <1>2, <1>3

\* Each list of t is empty, or that of the same function on s.
Copies(t, s) ==
    \A d \in 1 .. Len(t) :
        \/ t[d].list.items = << >>
        \/ /\ d \in 1 .. Len(s) /\ t[d].list.items = s[d].list.items
           /\ SameAbove(t, s, d)

LEMMA ListingKept ==
    ASSUME NEW s \in Seq(Frames), NEW t \in Seq(Frames), Len(t) <= 3, Copies(t, s),
           NEW doc, NEW m, NEW n, NEW indent, Listing(doc, s, m, indent),
           \A p \in Held(t) : n.strings[p].text = m.strings[p].text
    PROVE  Listing(doc, t, n, indent)
<1> SUFFICES ASSUME NEW d \in 1 .. Len(t), NEW k \in 1 .. Len(t[d].list.items)
             PROVE  n.strings[t[d].list.items[k]].text = ChildText(doc, t, d, k, indent)
  BY DEF Listing
<1> DEFINE p == t[d].list.items[k]
<1>1. Len(t) \in Nat /\ DOMAIN t[d].list.items = 1 .. Len(t[d].list.items)
  BY FrameIs, LenProperties
<1>2. d \in {1, 2, 3}
  <2>1. \A l \in Nat : l <= 3 => 1 .. l \subseteq {1, 2, 3}
    OBVIOUS
  <2> QED
    BY <1>1, <2>1
<1>3. t[d].list.items # << >>
  <2>1. \A x : x = << >> => 1 .. Len(x) = {}
    OBVIOUS
  <2> QED
    BY <2>1
<1>4. /\ d \in 1 .. Len(s) /\ t[d].list.items = s[d].list.items
      /\ SameAbove(t, s, d)
  BY <1>3 DEF Copies
<1>5. p \in Held(t)
  BY <1>1, HeldIs
<1>6. m.strings[p].text = ChildText(doc, s, d, k, indent)
  BY <1>4 DEF Listing
<1>7. ChildText(doc, t, d, k, indent) = ChildText(doc, s, d, k, indent)
  BY <1>2, <1>4, ChildTextSame
<1> HIDE DEF p
<1>8. n.strings[p].text = ChildText(doc, t, d, k, indent)
  BY <1>5, <1>6, <1>7
<1> QED
  BY <1>8 DEF p

\* What is left to serialize depends on where the functions are.
LEMMA RestSame ==
    ASSUME NEW doc, NEW orig, NEW s, Len(s) \in {0, 1, 2, 3}, Rest(doc, orig, s), NEW t,
           Len(t) \in {0, 1, 2, 3}, Len(t) <= Len(s), \A d \in 1 .. Len(t) : t[d].ix = s[d].ix
    PROVE  Rest(doc, orig, t)
<1>1. Len(t) >= 1 => Len(s) >= 1 /\ t[1].ix = s[1].ix
  OBVIOUS
<1>2. Len(t) >= 2 => Len(s) >= 2 /\ t[2].ix = s[2].ix
  OBVIOUS
<1>3. Len(t) = 3 => Len(s) = 3 /\ t[3].ix = s[3].ix
  OBVIOUS
<1>4. Len(t) = 3 => Len(t) >= 2
  OBVIOUS
<1>5. Len(t) >= 2 => Len(t) >= 1
  OBVIOUS
<1> QED
  BY <1>1, <1>2, <1>3, <1>4, <1>5 DEF Rest

LEMMA SameFromMore ==
    ASSUME NEW now, NEW before, NEW n \in Nat, SameFrom(now, before, n)
    PROVE  SameFrom(now, before, n + 1)
<1> DEFINE l == Len(before)
<1>1. \A i \in n + 1 .. l : now[i] = before[i]
  BY DEF SameFrom
<1>2. \A i \in (n + 1) + 1 .. l : i \in n + 1 .. l
  OBVIOUS
<1> QED
  BY <1>1, <1>2 DEF SameFrom

\* The function on top goes on to its next child.
LEMMA RestNext ==
    ASSUME NEW doc, NEW orig, NEW s \in Seq(Frames), Len(s) \in {1, 2, 3}, Rest(doc, orig, s),
           NEW t, Len(t) = Len(s), t[Len(s)].ix = s[Len(s)].ix + 1,
           \A d \in 1 .. Len(s) - 1 : t[d] = s[d]
    PROVE  Rest(doc, orig, t)
<1>0. \A d \in 1 .. Len(s) : s[d].ix \in Nat
  BY FrameIs
<1>1. CASE Len(s) = 1
  <2>1. t[1].ix = s[1].ix + 1 /\ s[1].ix \in Nat
    BY <1>0, <1>1
  <2>2. SameFrom(doc.sectors, orig.sectors, s[1].ix)
    BY <1>1 DEF Rest
  <2> QED
    BY <1>1, <2>1, <2>2, SameFromMore DEF Rest
<1>2. CASE Len(s) = 2
  <2>1. t[2].ix = s[2].ix + 1 /\ s[2].ix \in Nat /\ t[1] = s[1]
    BY <1>0, <1>2
  <2> DEFINE now    == doc.sectors[s[1].ix]
             before == orig.sectors[s[1].ix]
  <2>2. /\ SameFrom(doc.sectors, orig.sectors, s[1].ix)
        /\ now.name = before.name /\ SameFrom(now.sections, before.sections, s[2].ix)
    BY <1>2 DEF Rest
  <2>3. SameFrom(now.sections, before.sections, t[2].ix)
    BY <2>1, <2>2, SameFromMore, Zenon
  <2> QED
    <3>1. Len(t) >= 1 /\ Len(t) >= 2 /\ Len(t) # 3 /\ t[1].ix = s[1].ix
      BY <1>2, <2>1
    <3> QED
      BY <2>2, <2>3, <3>1, Zenon DEF Rest
<1>3. CASE Len(s) = 3
  <2>1. t[3].ix = s[3].ix + 1 /\ s[3].ix \in Nat /\ t[1] = s[1] /\ t[2] = s[2]
    BY <1>0, <1>3
  <2> DEFINE now    == doc.sectors[s[1].ix].sections[s[2].ix]
             before == orig.sectors[s[1].ix].sections[s[2].ix]
  <2>2. /\ SameFrom(doc.sectors, orig.sectors, s[1].ix)
        /\ doc.sectors[s[1].ix].name = orig.sectors[s[1].ix].name
        /\ SameFrom(doc.sectors[s[1].ix].sections, orig.sectors[s[1].ix].sections, s[2].ix)
        /\ now.name = before.name /\ SameFrom(now.fields, before.fields, s[3].ix)
    <3>1. Len(s) >= 1 /\ Len(s) >= 2 /\ Len(s) = 3
      BY <1>3
    <3> QED
      BY <3>1 DEF Rest
  <2>3. SameFrom(now.fields, before.fields, t[3].ix)
    BY <2>1, <2>2, SameFromMore
  <2> QED
    BY <1>3, <2>1, <2>2, <2>3 DEF Rest
<1> QED
  BY <1>1, <1>2, <1>3

\* A document is all there is left of it.
LEMMA SameFromItself ==
    ASSUME NEW x, NEW n
    PROVE  SameFrom(x, x, n)
BY DEF SameFrom

\* It calls a function for it.
LEMMA RestEntered ==
    ASSUME NEW doc, NEW orig, NEW s \in Seq(Frames), Len(s) \in {1, 2}, Rest(doc, orig, s),
           NEW n, n = s[Len(s)].ix + 1,
           Len(s) = 1 => n \in 1 .. Len(doc.sectors),
           Len(s) = 2 => n \in 1 .. Len(doc.sectors[s[1].ix].sections),
           NEW t, Len(t) = Len(s) + 1, t[Len(s)].ix = n, t[Len(t)].ix = 0,
           \A d \in 1 .. Len(s) - 1 : t[d] = s[d]
    PROVE  Rest(doc, orig, t)
<1>0. \A d \in 1 .. Len(s) : s[d].ix \in Nat
  BY FrameIs
<1>4. ASSUME NEW now, NEW before, NEW x \in Nat, SameFrom(now, before, x), x + 1 \in 1 .. Len(now)
      PROVE  now[x + 1] = before[x + 1]
  <2>1. Len(now) = Len(before) /\ \A i \in x + 1 .. Len(before) : now[i] = before[i]
    BY <1>4 DEF SameFrom
  <2> DEFINE l == Len(before)
  <2>2. x + 1 \in 1 .. l
    BY <1>4, <2>1
  <2> HIDE DEF l
  <2>3. x + 1 \in x + 1 .. l
    BY <2>2
  <2> QED
    BY <2>1, <2>3 DEF l
<1>1. CASE Len(s) = 1
  <2> DEFINE x == s[1].ix
  <2>1. n = x + 1 /\ x \in Nat /\ t[1].ix = n /\ t[2].ix = 0 /\ Len(t) = 2 /\ n \in 1 .. Len(doc.sectors)
    BY <1>0, <1>1
  <2>2. SameFrom(doc.sectors, orig.sectors, x)
    BY <1>1 DEF Rest
  <2> HIDE DEF x
  <2>3. doc.sectors[n] = orig.sectors[n]
    BY <1>4, <2>1, <2>2
  <2>4. SameFrom(doc.sectors, orig.sectors, n)
    BY <2>1, <2>2, SameFromMore
  <2> QED
    BY <2>1, <2>3, <2>4, SameFromItself DEF Rest
<1>2. CASE Len(s) = 2
  <2> DEFINE x == s[2].ix
             a == s[1].ix
  <2>1. /\ n = x + 1 /\ x \in Nat /\ t[2].ix = n /\ t[3].ix = 0 /\ Len(t) = 3 /\ t[1] = s[1]
        /\ t[1].ix = a /\ n \in 1 .. Len(doc.sectors[a].sections)
    BY <1>0, <1>2
  <2>2. /\ SameFrom(doc.sectors, orig.sectors, a)
        /\ doc.sectors[a].name = orig.sectors[a].name
        /\ SameFrom(doc.sectors[a].sections, orig.sectors[a].sections, x)
    BY <1>2 DEF Rest
  <2> HIDE DEF x, a
  <2>3. doc.sectors[a].sections[n] = orig.sectors[a].sections[n]
    BY <1>4, <2>1, <2>2
  <2>4. SameFrom(doc.sectors[a].sections, orig.sectors[a].sections, n)
    BY <2>1, <2>2, SameFromMore
  <2> QED
    BY <2>1, <2>2, <2>3, <2>4, SameFromItself DEF Rest
<1> QED
  BY <1>1, <1>2

-----------------------------------------------------------------------------
(* The steps, and the texts.                                                 *)

LEMMA TInvNow ==
    ASSUME TInv, pc # "crashed", options.stale = << >>
    PROVE  /\ Rest(file, given, stack)
           /\ result.err = "MCFG_OK" =>
                 /\ Listing(given, stack, mem, AskedIndent) /\ Counted(stack, pc)
                 /\ Resulting(given, stack, result, mem, pc, AskedIndent)
BY DEF TInv, Texting

LEMMA TInvThen ==
    ASSUME options' = options, Rest(file', given', stack'),
           Texting(given', stack', result', mem', pc', AskedIndent)
    PROVE  TInv'
<1>1. AskedIndent' = AskedIndent
  BY DEF AskedIndent
<1> QED
  BY <1>1 DEF TInv

\* Between its children a function has no result of its own.
LEMMA LoopTexting ==
    ASSUME NEW doc, NEW s, NEW r, NEW m, NEW indent, Listing(doc, s, m, indent), Counted(s, "loop")
    PROVE  Texting(doc, s, r, m, "loop", indent)
BY DEF Texting, Resulting

LEMMA CallTexts ==
    ASSUME IInv, Call, pc' # "crashed"
    PROVE  TInv'
<1>1. /\ pc = "idle" /\ given' = file /\ options' = options /\ file' = file
      /\ \/ pc' = "loop" /\ stack' = <<NewFrame>>
         \/ result' = [NoResult EXCEPT !.err = "MCFG_MALLOC_FAIL"] /\ stack' = stack
  BY DEF Call, Commit
<1>2. Len(stack) = 0
  BY <1>1, InvIs DEF Placed
<1>3. CASE pc' = "loop" /\ stack' = <<NewFrame>>
  <2> DEFINE t == stack'
  <2>1. Len(t) = 1 /\ t[1] = NewFrame
    BY <1>3
  <2>2. t[1].ix = 0 /\ t[1].list.items = << >> /\ Len(t[1].list.items) = 0
    BY <2>1, NewFrameIs
  <2> HIDE DEF t
  <2>3. Rest(file, file, t)
    BY <2>1, SameFromItself DEF Rest
  <2>4. Listing(file, t, mem', AskedIndent)
    <3>1. ASSUME NEW d \in 1 .. Len(t)
          PROVE  1 .. Len(t[d].list.items) = {}
      <4>1. d = 1
        BY <2>1
      <4> QED
        BY <2>2, <4>1
    <3> QED
      BY <3>1 DEF Listing
  <2>5. Counted(t, "loop")
    BY <2>1, <2>2 DEF Counted
  <2>6. Texting(file, t, result', mem', "loop", AskedIndent)
    BY <2>4, <2>5, LoopTexting
  <2> QED
    BY <1>1, <1>3, <2>3, <2>6, TInvThen DEF t
<1>4. CASE result' = [NoResult EXCEPT !.err = "MCFG_MALLOC_FAIL"] /\ stack' = stack
  <2>1. result'.err # "MCFG_OK"
    BY <1>4 DEF NoResult
  <2>2. Rest(file', given', stack')
    BY <1>2, <1>4 DEF Rest
  <2> QED
    BY <1>1, <2>1, <2>2, TInvThen DEF Texting
<1> QED
  BY <1>1, <1>3, <1>4

\* A function is called for the next child: its list is empty.
LEMMA EnterTexting ==
    ASSUME NEW s \in Seq(Frames), Len(s) \in {1, 2}, NEW doc, NEW m, NEW indent,
           Listing(doc, s, m, indent), Counted(s, "loop"),
           NEW u \in Seq(Frames), SameLists(u, s), u[Len(s)].ix = s[Len(s)].ix + 1,
           \A d \in 1 .. Len(s) - 1 : u[d] = s[d],
           NEW t, t = Append(u, NewFrame), NEW n, n.strings = m.strings
    PROVE  Listing(doc, t, n, indent) /\ Counted(t, "loop")
<1>1. Len(u) = Len(s) /\ \A d \in 1 .. Len(s) : u[d].list = s[d].list
  BY DEF SameLists
<1>2. /\ t \in Seq(Frames) /\ Len(t) = Len(s) + 1 /\ t[Len(t)] = NewFrame
      /\ \A d \in 1 .. Len(s) : t[d] = u[d]
  BY <1>1, PushIs
<1>3. NewFrame.ix = 0 /\ NewFrame.list.items = << >> /\ Len(NewFrame.list.items) = 0
  BY NewFrameIs
<1>4. Copies(t, s)
  <2>1. ASSUME NEW d \in 1 .. Len(t)
        PROVE  \/ t[d].list.items = << >>
               \/ /\ d \in 1 .. Len(s) /\ t[d].list.items = s[d].list.items
                  /\ SameAbove(t, s, d)
    <3>1. d = Len(t) \/ d \in 1 .. Len(s)
      BY <1>2
    <3>2. CASE d = Len(t)
      BY <1>2, <1>3, <3>2
    <3>3. CASE d \in 1 .. Len(s)
      <4>1. t[d].list.items = s[d].list.items
        BY <1>1, <1>2, <3>3
      <4>2. ASSUME NEW c \in 1 .. d - 1
            PROVE  t[c].ix = s[c].ix
        <5>1. c \in 1 .. Len(s) - 1 /\ c \in 1 .. Len(s)
          BY <3>3
        <5> QED
          BY <1>2, <5>1
      <4> QED
        BY <3>3, <4>1, <4>2 DEF SameAbove
    <3> QED
      BY <3>1, <3>2, <3>3
  <2> QED
    BY <2>1 DEF Copies
<1>5. Listing(doc, t, n, indent)
  <2>1. Len(t) <= 3
    BY <1>2
  <2> QED
    BY <1>2, <1>4, <2>1, ListingKept
<1>6. Counted(t, "loop")
  <2>1. Len(t[Len(t)].list.items) = t[Len(t)].ix
    BY <1>2, <1>3
  <2>2. ASSUME NEW d \in 1 .. Len(t) - 1
        PROVE  Len(t[d].list.items) + 1 = t[d].ix
    <3>1. d \in 1 .. Len(s) - 1 \/ d = Len(s)
      BY <1>2
    <3>2. d \in 1 .. Len(s) /\ t[d] = u[d] /\ u[d].list = s[d].list
      BY <1>1, <1>2, <3>1
    <3>3. CASE d \in 1 .. Len(s) - 1
      <4>1. Len(s[d].list.items) + 1 = s[d].ix
        BY <3>3 DEF Counted
      <4> QED
        BY <3>2, <3>3, <4>1
    <3>4. CASE d = Len(s)
      <4>1. Len(s[d].list.items) = s[d].ix
        BY <3>4 DEF Counted
      <4> QED
        BY <3>2, <3>4, <4>1
    <3> QED
      BY <3>1, <3>3, <3>4
  <2> QED
    BY <2>1, <2>2 DEF Counted
<1> QED
  BY <1>5, <1>6

LEMMA EnterTexts ==
    ASSUME IInv, TInv, Enter, options.stale = << >>, pc' # "crashed"
    PROVE  TInv'
<1> DEFINE n == Len(stack)
           u == NextChild
<1>1. /\ pc = "loop" /\ Depth < 3 /\ More
      /\ options' = options /\ file' = file /\ given' = given
  BY DEF Enter
<1>2. PICK k \in 0 .. StepAllocs :
          LET first == Begin(k)
              m     == IF Depth = 1 THEN Plain(first) ELSE Plain(Plain(first))
              ok    == m.plain = mem.plain + Depth
          IN  \/ /\ ok
                 /\ Commit(m, "loop")
                 /\ stack' = Append(NextChild, NewFrame) /\ result' = NoResult
              \/ /\ ~ok
                 /\ Commit([m EXCEPT !.plain = mem.plain], "collect")
                 /\ stack' = NextChild
                 /\ result' = [NoResult EXCEPT !.err = "MCFG_MALLOC_FAIL"]
  BY DEF Enter
<1> DEFINE m == IF Depth = 1 THEN Plain(Begin(k)) ELSE Plain(Plain(Begin(k)))
<1>3. k \in Nat
  BY SerializerAssumption
<1>4. /\ file \in Document /\ stack \in Seq(Frames)
      /\ mem \in Heaps /\ mem.made = 0 /\ mem.crash = FALSE
      /\ fails \in Nat /\ Placed(file, stack, pc)
  BY <1>1, InvIs
<1>5. n \in {1, 2, 3} /\ result.err = "MCFG_OK"
  BY <1>1, LoopIs
<1>6. n \in {1, 2}
  BY <1>1, <1>5 DEF Depth
<1>7. /\ u \in Seq(Frames) /\ SameLists(u, stack) /\ u[n].ix = Top.ix + 1
      /\ Top.ix + 1 \in 1 .. Len(Children) /\ \A d \in 1 .. n - 1 : u[d] = stack[d]
  <2>1. "collect" \notin {"idle", "returned"}
    OBVIOUS
  <2> QED
    BY <1>1, <1>4, <1>5, <2>1, PlacedNext
<1>8. Top.ix = stack[n].ix /\ Len(u) = n
  BY <1>7 DEF Top, Depth, SameLists
<1>9. /\ Rest(file, given, stack)
      /\ Listing(given, stack, mem, AskedIndent) /\ Counted(stack, "loop")
  BY <1>1, <1>5, TInvNow
<1>10. m \in Heaps /\ m.strings = mem.strings
  BY <1>1, <1>3, <1>6, EnterAllocates
<1> HIDE DEF m, u
<1>11. CASE m.plain = mem.plain + Depth
  <2>1. Commit(m, "loop") /\ stack' = Append(u, NewFrame)
    BY <1>2, <1>11 DEF m, u
  <2>2. pc' = "loop" /\ mem'.strings = mem.strings
    <3>1. Commits(m, "loop")
      BY <1>4, <1>10, <2>1, CommitIs
    <3> QED
      BY <1>10, <3>1 DEF Commits
  <2> DEFINE t == stack'
             h == mem'
  <2>3. t = Append(u, NewFrame) /\ h.strings = mem.strings
    BY <2>1, <2>2
  <2> HIDE DEF t, h
  <2>4. Listing(given, t, h, AskedIndent) /\ Counted(t, "loop")
    BY <1>4, <1>6, <1>7, <1>8, <1>9, <2>3, EnterTexting
  <2>5. Texting(given, t, result', h, "loop", AskedIndent)
    BY <2>4, LoopTexting
  <2>6. Rest(file, given, t)
    <3>1. /\ Len(t) = n + 1 /\ t[Len(t)] = NewFrame /\ \A d \in 1 .. n : t[d] = u[d]
      BY <1>7, <1>8, <2>3, PushIs
    <3>2. t[n].ix = stack[n].ix + 1 /\ t[Len(t)].ix = 0 /\ \A d \in 1 .. n - 1 : t[d] = stack[d]
      BY <1>6, <1>7, <1>8, <3>1, NewFrameIs
    <3>3. /\ n = 1 => stack[n].ix + 1 \in 1 .. Len(file.sectors)
          /\ n = 2 => stack[n].ix + 1 \in 1 .. Len(file.sectors[stack[1].ix].sections)
      <4>1. /\ n = 1 => Children = file.sectors
            /\ n = 2 => Children = file.sectors[stack[1].ix].sections
        BY <1>4, <1>5, ChildrenAre DEF ThisSector
      <4> QED
        BY <1>7, <1>8, <4>1
    <3> QED
      BY <1>4, <1>6, <1>9, <3>1, <3>2, <3>3, RestEntered
  <2> QED
    BY <1>1, <2>2, <2>5, <2>6, TInvThen DEF t, h
<1>12. CASE m.plain # mem.plain + Depth
  <2>1. stack' = u /\ result' = [NoResult EXCEPT !.err = "MCFG_MALLOC_FAIL"]
    BY <1>2, <1>12 DEF m, u
  <2>2. result'.err # "MCFG_OK"
    BY <2>1 DEF NoResult
  <2>3. Rest(file, given, u)
    BY <1>4, <1>5, <1>7, <1>8, <1>9, RestNext
  <2> QED
    BY <1>1, <2>1, <2>2, <2>3, TInvThen DEF Texting
<1> QED
  BY <1>11, <1>12

\* A text goes into the list: it is that of the child that has returned.
LEMMA CollectTexting ==
    ASSUME NEW s \in Seq(Frames), Len(s) \in {1, 2, 3}, NEW doc, NEW m, NEW indent,
           NEW r, Listing(doc, s, m, indent), Counted(s, "collect"),
           Resulting(doc, s, r, m, "collect", indent), r.value \in Nat,
           NEW l \in PtrLists, l.items = Append(s[Len(s)].list.items, r.value),
           NEW t, Swapped(t, s, l), NEW n, n.strings = m.strings
    PROVE  Listing(doc, t, n, indent) /\ Counted(t, "loop")
<1> DEFINE d0    == Len(s)
           items == s[d0].list.items
           q     == Len(items)
<1>1. d0 \in 1 .. d0 /\ d0 \in Nat
  <2>1. \A x \in {1, 2, 3} : x \in 1 .. x /\ x \in Nat
    OBVIOUS
  <2> HIDE DEF d0
  <2> QED
    BY <2>1 DEF d0
<1>2. items \in Seq(Nat) /\ q \in Nat
  BY <1>1, FrameIs
<1>3. /\ t \in Seq(Frames) /\ Len(t) = d0 /\ t[d0].ix = s[d0].ix /\ t[d0].list = l
      /\ \A d \in 1 .. d0 : d # d0 => t[d] = s[d]
  BY DEF Swapped
<1>4. /\ Len(l.items) = q + 1 /\ l.items[q + 1] = r.value
      /\ \A k \in 1 .. q : l.items[k] = items[k]
  BY <1>2, AppendProperties
<1>5. q + 1 = s[d0].ix /\ \A d \in 1 .. d0 - 1 : Len(s[d].list.items) + 1 = s[d].ix
  BY DEF Counted
<1>6. n.strings[r.value].text = ChildText(doc, s, d0, s[d0].ix, indent)
  BY DEF Resulting
<1>7. \A d \in 1 .. d0 : t[d].ix = s[d].ix
  BY <1>3
<1>12. \A d \in {1, 2, 3} : SameAbove(t, s, d) =>
          \A k : ChildText(doc, t, d, k, indent) = ChildText(doc, s, d, k, indent)
  BY ChildTextSame
<1>8. ASSUME NEW d \in 1 .. d0, NEW k
      PROVE  ChildText(doc, t, d, k, indent) = ChildText(doc, s, d, k, indent)
  <2>1. SameAbove(t, s, d)
    <3>1. \A c \in 1 .. d - 1 : c \in 1 .. d0
      BY <1>1
    <3> QED
      BY <1>7, <3>1 DEF SameAbove
  <2>2. d \in {1, 2, 3}
    <3>1. \A x \in {1, 2, 3} : 1 .. x \subseteq {1, 2, 3}
      OBVIOUS
    <3> QED
      BY <3>1
  <2> QED
    BY <1>12, <2>1, <2>2
<1> HIDE DEF items, q
<1>9. ASSUME NEW d \in 1 .. d0, NEW k \in 1 .. Len(t[d].list.items)
      PROVE  n.strings[t[d].list.items[k]].text = ChildText(doc, t, d, k, indent)
  <2>1. CASE d # d0
    <3>1. t[d].list.items = s[d].list.items
      BY <1>3, <2>1
    <3>2. k \in 1 .. Len(s[d].list.items)
      BY <3>1
    <3>3. m.strings[s[d].list.items[k]].text = ChildText(doc, s, d, k, indent)
      BY <3>2 DEF Listing
    <3>4. ChildText(doc, t, d, k, indent) = ChildText(doc, s, d, k, indent)
      BY <1>8
    <3> QED
      BY <3>1, <3>3, <3>4
  <2>2. CASE d = d0 /\ k = q + 1
    <3>1. t[d].list.items[k] = r.value
      BY <1>3, <1>4, <2>2
    <3>2. ChildText(doc, t, d, k, indent) = ChildText(doc, s, d0, s[d0].ix, indent)
      BY <1>5, <1>8, <2>2
    <3> QED
      BY <1>6, <3>1, <3>2
  <2>3. CASE d = d0 /\ k # q + 1
    <3>1. k \in 1 .. q
      BY <1>2, <1>3, <1>4, <2>3
    <3>2. t[d].list.items[k] = items[k]
      BY <1>3, <1>4, <2>3, <3>1
    <3>3. m.strings[items[k]].text = ChildText(doc, s, d, k, indent)
      BY <2>3, <3>1 DEF Listing, items, q
    <3>4. ChildText(doc, t, d, k, indent) = ChildText(doc, s, d, k, indent)
      BY <1>8
    <3> QED
      BY <3>2, <3>3, <3>4
  <2> QED
    BY <2>1, <2>2, <2>3
<1>10. Listing(doc, t, n, indent)
  BY <1>3, <1>9 DEF Listing
<1>11. Counted(t, "loop")
  <2>1. \A d \in 1 .. d0 - 1 : d \in 1 .. d0 /\ d # d0
    BY <1>1
  <2>2. \A d \in 1 .. d0 - 1 : Len(t[d].list.items) + 1 = t[d].ix
    BY <1>3, <1>5, <2>1
  <2>3. Len(t[d0].list.items) = t[d0].ix
    BY <1>3, <1>4, <1>5
  <2> QED
    BY <1>3, <2>2, <2>3 DEF Counted
<1> QED
  BY <1>10, <1>11

LEMMA CollectTexts ==
    ASSUME IInv, TInv, Collect, options.stale = << >>, pc' # "crashed"
    PROVE  TInv'
<1>1. /\ pc = "collect" /\ options' = options /\ file' = file /\ given' = given
  BY DEF Collect
<1>2. stack \in Seq(Frames) /\ mem \in Heaps
  BY <1>1, InvIs
<1>3. Len(stack) \in {1, 2, 3}
  BY <1>1, CollectIs
<1>4. Rest(file, given, stack)
  BY <1>1, TInvNow
<1>5. CASE result.err # "MCFG_OK"
  <2>1. stack' = stack /\ result' = result
    BY <1>5 DEF Collect
  <2> QED
    BY <1>1, <1>4, <1>5, <2>1, TInvThen DEF Texting
<1>6. CASE result.err = "MCFG_OK"
  <2>1. PICK k \in Nat : \E add : Collects(k, add)
    BY <1>6, CollectsIs
  <2>2. PICK add : Collects(k, add)
    BY <2>1
  <2>3. PICK m \in Heaps :
          /\ m.strings = mem.strings /\ Live(m) = Live(mem) /\ m.crash = FALSE
          /\ m.failing = k /\ m.plain = mem.plain
          /\ Commits(m, IF add.index > 0 THEN "loop" ELSE "exit")
    BY <2>2 DEF Collects
  <2> DEFINE l == stack[Len(stack)].list
             t == stack'
             h == mem'
  <2>4. /\ Appends(l, result.value, (k # 1), add)
        /\ t = [stack EXCEPT ![Len(stack)].list = add.list]
        /\ result' = IF add.index > 0 THEN result ELSE [result EXCEPT !.err = "MCFG_MALLOC_FAIL"]
    BY <2>2 DEF Collects
  <2>5. add.list \in PtrLists
    BY <2>4 DEF Appends
  <2> HIDE DEF l, t, h
  <2>6. Swapped(t, stack, add.list)
    <3>1. Len(stack) # 0
      BY <1>3
    <3> QED
      BY <1>2, <2>4, <2>5, <3>1, SwapIs
  <2>7. Rest(file, given, t)
    <3>1. Len(t) = Len(stack) /\ \A d \in 1 .. Len(stack) : t[d].ix = stack[d].ix
      BY <2>6 DEF Swapped
    <3>2. Len(stack) \in {0, 1, 2, 3} /\ Len(t) \in {0, 1, 2, 3} /\ Len(t) <= Len(stack)
      BY <1>3, <3>1
    <3>3. \A d \in 1 .. Len(t) : t[d].ix = stack[d].ix
      BY <3>1
    <3> QED
      BY <1>4, <3>2, <3>3, RestSame
  <2>8. CASE ~(add.index > 0)
    <3>1. result'.err # "MCFG_OK"
      <4>1. result \in [err : Errors, value : Nat \cup {NULL}]
        BY DEF IInv, Types
      <4>2. result' = [result EXCEPT !.err = "MCFG_MALLOC_FAIL"]
        BY <2>4, <2>8
      <4> QED
        BY <4>1, <4>2
    <3> QED
      BY <1>1, <2>7, <3>1, TInvThen DEF Texting, t
  <2>9. CASE add.index > 0
    <3>1. pc' = "loop" /\ h.strings = mem.strings
      BY <2>3, <2>9 DEF Commits, h
    <3>2. add.list.items = Append(l.items, result.value)
      BY <2>4, <2>9 DEF Appends
    <3>3. result.value \in Nat
      BY <1>1, <1>6, CollectIs
    <3>4. /\ Listing(given, stack, mem, AskedIndent) /\ Counted(stack, "collect")
          /\ Resulting(given, stack, result, mem, "collect", AskedIndent)
      BY <1>1, <1>6, TInvNow
    <3>5. Listing(given, t, h, AskedIndent) /\ Counted(t, "loop")
      <4>1. add.list.items = Append(stack[Len(stack)].list.items, result.value)
        BY <3>2 DEF l
      <4> QED
        BY <1>2, <1>3, <2>5, <2>6, <3>1, <3>3, <3>4, <4>1, CollectTexting
    <3>6. Texting(given, t, result', h, "loop", AskedIndent)
      BY <3>5, LoopTexting
    <3> QED
      BY <1>1, <2>7, <3>1, <3>6, TInvThen DEF t, h
  <2> QED
    BY <2>8, <2>9
<1> QED
  BY <1>5, <1>6

\* The lists stay as they are when the function on top goes on.
LEMMA NextCopies ==
    ASSUME NEW s \in Seq(Frames), Len(s) \in {1, 2, 3}, NEW u, SameLists(u, s),
           \A d \in 1 .. Len(s) - 1 : u[d] = s[d]
    PROVE  Copies(u, s)
<1>1. Len(u) = Len(s) /\ \A d \in 1 .. Len(s) : u[d].list = s[d].list
  BY DEF SameLists
<1>2. ASSUME NEW d \in 1 .. Len(u)
      PROVE  /\ d \in 1 .. Len(s) /\ u[d].list.items = s[d].list.items
             /\ SameAbove(u, s, d)
  <2>1. \A x \in {1, 2, 3} : \A e \in 1 .. x : \A c \in 1 .. e - 1 : c \in 1 .. x - 1
    OBVIOUS
  <2>2. \A c \in 1 .. d - 1 : c \in 1 .. Len(s) - 1
    BY <1>1, <2>1
  <2> QED
    BY <1>1, <2>2 DEF SameAbove
<1> QED
  BY <1>2 DEF Copies

\* All but one are the same.
Elsewhere(then, now, k) ==
    Len(then) = Len(now) /\ \A j \in 1 .. Len(now) : j # k => then[j] = now[j]

\* A document with other data in one field.
OtherData(r, doc, a, b, i) ==
    /\ Elsewhere(r.sectors, doc.sectors, a)
    /\ r.sectors[a].name = doc.sectors[a].name
    /\ Elsewhere(r.sectors[a].sections, doc.sectors[a].sections, b)
    /\ r.sectors[a].sections[b].name = doc.sectors[a].sections[b].name
    /\ Elsewhere(r.sectors[a].sections[b].fields, doc.sectors[a].sections[b].fields, i)

LEMMA DataWritten ==
    ASSUME NEW doc \in Document, NEW a \in 1 .. Len(doc.sectors),
           NEW b \in 1 .. Len(doc.sectors[a].sections),
           NEW i \in 1 .. Len(doc.sectors[a].sections[b].fields), NEW d,
           d \in {NULL} \cup DataOf(doc.sectors[a].sections[b].fields[i].type),
           NEW r, r = DataWith(doc, a, b, i, d)
    PROVE  OtherData(r, doc, a, b, i)
<1> DEFINE sector  == doc.sectors[a]
           section == sector.sections[b]
           field   == section.fields[i]
           f2      == FieldWith(field, d)
           sec2    == SectionWith(section, i, f2)
           sector2 == SectorWith(sector, b, sec2)
           r2      == FileWith(doc, a, sector2)
<1>1. sector \in DocSector /\ section \in DocSection /\ field \in DocField
  BY DocumentIs, SectorIs, SectionIs
<1>2. r = r2
  BY DEF DataWith, FileWith, SectorWith, SectionWith, FieldWith
<1>3. f2 \in DocField
  BY <1>1, FieldWithIs
<1> HIDE DEF f2
<1>4. /\ sec2 \in DocSection /\ Len(sec2.fields) = Len(section.fields)
      /\ \A j \in 1 .. Len(section.fields) : j # i => sec2.fields[j] = section.fields[j]
  BY <1>1, <1>3, SectionWithIs
<1>5. sec2.name = section.name
  BY <1>1 DEF SectionWith, DocSection
<1> HIDE DEF sec2
<1>6. /\ sector2 \in DocSector /\ Len(sector2.sections) = Len(sector.sections)
      /\ sector2.sections[b] = sec2
      /\ \A j \in 1 .. Len(sector.sections) : j # b => sector2.sections[j] = sector.sections[j]
  BY <1>1, <1>4, SectorWithIs
<1>7. sector2.name = sector.name
  BY <1>1 DEF SectorWith, DocSector
<1> HIDE DEF sector2
<1>8. /\ Len(r2.sectors) = Len(doc.sectors) /\ r2.sectors[a] = sector2
      /\ \A j \in 1 .. Len(doc.sectors) : j # a => r2.sectors[j] = doc.sectors[j]
  BY <1>6, FileWithIs
<1> HIDE DEF r2
<1>9. OtherData(r2, doc, a, b, i)
  BY <1>4, <1>5, <1>6, <1>7, <1>8 DEF OtherData, Elsewhere
<1> QED
  BY <1>2, <1>9

\* What is behind the one that is replaced is still as it was.
LEMMA SameFromWritten ==
    ASSUME NEW now, NEW then, NEW before, NEW n \in Nat, NEW k \in Nat, k <= n,
           SameFrom(now, before, n), Elsewhere(then, now, k)
    PROVE  SameFrom(then, before, n)
<1> DEFINE l == Len(before)
<1>1. Len(now) = l /\ \A i \in n + 1 .. l : now[i] = before[i]
  BY DEF SameFrom
<1> HIDE DEF l
<1>4. Len(then) = l /\ \A j \in 1 .. l : j # k => then[j] = now[j]
  BY <1>1 DEF Elsewhere
<1>2. \A i \in n + 1 .. l : i \in 1 .. l /\ i # k
  OBVIOUS
<1>3. \A i \in n + 1 .. l : then[i] = before[i]
  BY <1>1, <1>2, <1>4
<1> QED
  BY <1>3, <1>4 DEF SameFrom, l

LEMMA RestWritten ==
    ASSUME NEW doc, NEW orig, NEW s \in Seq(Frames), Len(s) = 3, Rest(doc, orig, s),
           NEW i, i = s[3].ix + 1,
           NEW r, OtherData(r, doc, s[1].ix, s[2].ix, i),
           NEW t, Len(t) = 3, t[3].ix = i, t[1] = s[1], t[2] = s[2]
    PROVE  Rest(r, orig, t)
<1> DEFINE a == s[1].ix
           b == s[2].ix
<1>0. a \in Nat /\ b \in Nat /\ s[3].ix \in Nat
  <2>1. 1 \in 1 .. Len(s) /\ 2 \in 1 .. Len(s) /\ 3 \in 1 .. Len(s)
    <3>1. 1 \in 1 .. 3 /\ 2 \in 1 .. 3 /\ 3 \in 1 .. 3
      OBVIOUS
    <3> QED
      BY <3>1
  <2> QED
    BY <2>1, FrameIs
<1>1. /\ SameFrom(doc.sectors, orig.sectors, a)
      /\ doc.sectors[a].name = orig.sectors[a].name
      /\ SameFrom(doc.sectors[a].sections, orig.sectors[a].sections, b)
      /\ doc.sectors[a].sections[b].name = orig.sectors[a].sections[b].name
      /\ SameFrom(doc.sectors[a].sections[b].fields, orig.sectors[a].sections[b].fields, s[3].ix)
  <2>1. Len(s) >= 1 /\ Len(s) >= 2 /\ Len(s) = 3
    OBVIOUS
  <2> QED
    BY <2>1 DEF Rest
<1>2. /\ t[1].ix = a /\ t[2].ix = b /\ t[3].ix = i /\ OtherData(r, doc, a, b, i)
      /\ i \in Nat /\ i = s[3].ix + 1
  BY <1>0
<1> HIDE DEF a, b
<1>3. SameFrom(doc.sectors[a].sections[b].fields, orig.sectors[a].sections[b].fields, i)
  BY <1>0, <1>1, <1>2, SameFromMore, Zenon
<1>4. /\ SameFrom(r.sectors, orig.sectors, a)
      /\ r.sectors[a].name = orig.sectors[a].name
      /\ SameFrom(r.sectors[a].sections, orig.sectors[a].sections, b)
      /\ r.sectors[a].sections[b].name = orig.sectors[a].sections[b].name
      /\ SameFrom(r.sectors[a].sections[b].fields, orig.sectors[a].sections[b].fields, i)
  <2>1. SameFrom(r.sectors, orig.sectors, a)
    <3> DEFINE now    == doc.sectors
               then   == r.sectors
               before == orig.sectors
    <3>1. SameFrom(now, before, a) /\ Elsewhere(then, now, a) /\ a \in Nat /\ a <= a
      BY <1>0, <1>1, <1>2 DEF OtherData
    <3> HIDE DEF now, then, before
    <3>2. SameFrom(then, before, a)
      BY <3>1, SameFromWritten
    <3> QED
      BY <3>2 DEF then, before
  <2>2. SameFrom(r.sectors[a].sections, orig.sectors[a].sections, b)
    <3> DEFINE now    == doc.sectors[a].sections
               then   == r.sectors[a].sections
               before == orig.sectors[a].sections
    <3>1. SameFrom(now, before, b) /\ Elsewhere(then, now, b) /\ b \in Nat /\ b <= b
      BY <1>0, <1>1, <1>2 DEF OtherData
    <3> HIDE DEF now, then, before
    <3>2. SameFrom(then, before, b)
      BY <3>1, SameFromWritten
    <3> QED
      BY <3>2 DEF then, before
  <2>3. SameFrom(r.sectors[a].sections[b].fields, orig.sectors[a].sections[b].fields, i)
    <3> DEFINE now    == doc.sectors[a].sections[b].fields
               then   == r.sectors[a].sections[b].fields
               before == orig.sectors[a].sections[b].fields
    <3>1. SameFrom(now, before, i) /\ Elsewhere(then, now, i) /\ i \in Nat /\ i <= i
      BY <1>2, <1>3 DEF OtherData
    <3> HIDE DEF now, then, before
    <3>2. SameFrom(then, before, i)
      BY <3>1, SameFromWritten
    <3> QED
      BY <3>2 DEF then, before
  <2> QED
    BY <1>1, <1>2, <2>1, <2>2, <2>3 DEF OtherData
<1> QED
  BY <1>2, <1>4 DEF Rest

\* The child at hand has not been overwritten.
LEMMA SameFromNext ==
    ASSUME NEW now, NEW before, NEW n \in Nat, SameFrom(now, before, n),
           NEW i, i = n + 1, i \in 1 .. Len(now)
    PROVE  now[i] = before[i]
<1> DEFINE l == Len(before)
<1>1. Len(now) = l /\ \A j \in n + 1 .. l : now[j] = before[j]
  BY DEF SameFrom
<1> HIDE DEF l
<1>2. i \in n + 1 .. l
  BY <1>1
<1> QED
  BY <1>1, <1>2

\* The next child has returned with its text.
LEMMA NextTexting ==
    ASSUME NEW s \in Seq(Frames), Len(s) \in {1, 2, 3}, NEW doc, NEW m, NEW indent,
           Listing(doc, s, m, indent), Counted(s, "loop"),
           NEW t \in Seq(Frames), SameLists(t, s), t[Len(s)].ix = s[Len(s)].ix + 1,
           \A d \in 1 .. Len(s) - 1 : t[d] = s[d],
           NEW n, \A p \in Held(s) : n.strings[p] = m.strings[p]
    PROVE  Listing(doc, t, n, indent) /\ Counted(t, "collect")
<1>1. Len(t) = Len(s) /\ \A d \in 1 .. Len(s) : t[d].list = s[d].list
  BY DEF SameLists
<1>2. Copies(t, s)
  BY NextCopies
<1>3. Held(t) = Held(s)
  BY SameListsKeep
<1>4. Listing(doc, t, n, indent)
  <2>1. Len(t) <= 3
    <3>1. \A x \in {1, 2, 3} : x <= 3
      OBVIOUS
    <3> QED
      BY <1>1, <3>1
  <2>2. \A p \in Held(t) : n.strings[p].text = m.strings[p].text
    BY <1>3
  <2> QED
    BY <1>2, <2>1, <2>2, ListingKept
<1>5. Counted(t, "collect")
  <2>1. Len(s) \in 1 .. Len(s) /\ \A d \in 1 .. Len(s) - 1 : d \in 1 .. Len(s)
    <3>1. \A x \in {1, 2, 3} : x \in 1 .. x /\ \A d \in 1 .. x - 1 : d \in 1 .. x
      OBVIOUS
    <3> QED
      BY <3>1
  <2>2. \A d \in 1 .. Len(s) - 1 : Len(t[d].list.items) + 1 = t[d].ix
    BY DEF Counted
  <2>3. Len(t[Len(s)].list.items) + 1 = t[Len(s)].ix
    <3>1. Len(s[Len(s)].list.items) = s[Len(s)].ix
      BY DEF Counted
    <3>2. t[Len(s)].list = s[Len(s)].list
      BY <1>1, <2>1
    <3> QED
      BY <3>1, <3>2
  <2> QED
    BY <1>1, <2>2, <2>3 DEF Counted
<1> QED
  BY <1>4, <1>5

LEMMA OneFieldTexts ==
    ASSUME IInv, TInv, OneField, options.stale = << >>, pc' # "crashed"
    PROVE  TInv'
<1>1. /\ pc = "loop" /\ Len(stack) = 3 /\ More /\ stack' = NextChild
      /\ options' = options /\ given' = given
  BY Zenon DEF OneField, Depth
<1> DEFINE i == Top.ix + 1
           field == Children[i]
<1>2. PICK k \in 0 .. StepAllocs :
          \E r \in {SerializeField(Begin(k), field)} :
               /\ Commit(r.w.m, "collect")
               /\ result' = [err |-> r.w.err, value |-> r.w.value]
               /\ file' = [file EXCEPT
                             !.sectors[stack[1].ix].sections[stack[2].ix].fields[i].data = r.data]
  BY DEF OneField
<1> DEFINE b == Begin(k)
           r == SerializeField(b, field)
           own  == Held(stack)
           lost == Live(mem) \ own
<1>3. /\ Commit(r.w.m, "collect") /\ result' = [err |-> r.w.err, value |-> r.w.value]
      /\ file' = DataWith(file, stack[1].ix, stack[2].ix, i, r.data)
  BY <1>2 DEF DataWith
<1>4. k \in Nat
  BY SerializerAssumption
<1>5. /\ options \in Options /\ file \in Document /\ stack \in Seq(Frames) /\ fails \in Nat
      /\ mem \in Heaps /\ mem.made = 0 /\ mem.crash = FALSE
      /\ Placed(file, stack, pc) /\ Holding(stack, mem) /\ result.value \in Nat \cup {NULL}
  BY <1>1, InvIs
<1>6. /\ i \in 1 .. Len(Children) /\ NextChild \in Seq(Frames) /\ SameLists(NextChild, stack)
      /\ NextChild[3].ix = i /\ NextChild[1] = stack[1] /\ NextChild[2] = stack[2]
      /\ i = stack[3].ix + 1
  <2>1. Len(stack) \in {1, 2, 3} /\ "collect" \notin {"idle", "returned"}
    BY <1>1
  <2>2. /\ NextChild \in Seq(Frames) /\ SameLists(NextChild, stack)
        /\ NextChild[Len(stack)].ix = Top.ix + 1
        /\ Top.ix + 1 \in 1 .. Len(Children)
        /\ \A d \in 1 .. Len(stack) - 1 : NextChild[d] = stack[d]
    BY <1>1, <1>5, <2>1, PlacedNext
  <2>3. 1 \in 1 .. Len(stack) - 1 /\ 2 \in 1 .. Len(stack) - 1
    BY <1>1
  <2> QED
    BY <1>1, <2>2, <2>3 DEF Top, Depth
<1>7. /\ field \in DocField /\ stack[1].ix \in 1 .. Len(file.sectors)
      /\ stack[2].ix \in 1 .. Len(file.sectors[stack[1].ix].sections)
      /\ Children = file.sectors[stack[1].ix].sections[stack[2].ix].fields
  <2>1. /\ stack[1].ix \in 1 .. Len(file.sectors)
        /\ stack[2].ix \in 1 .. Len(ThisSector.sections) /\ ThisSection \in DocSection
        /\ Children = ThisSection.fields
    BY <1>1, <1>5, ChildrenAre
  <2>2. field \in DocField
    BY <1>6, <2>1, SectionIs
  <2>3. QED BY <2>1, <2>2 DEF ThisSector, ThisSection
<1>8. b.crash = FALSE /\ b.strings = mem.strings
  BY <1>4, <1>5, BeginIs
<1>9. Good(b, own, lost)
  <2>1. \A p \in own : p \in Live(mem) /\ mem.strings[p] \in BuiltString
    BY <1>5 DEF Holding
  <2>2. QED BY <1>4, <1>5, <2>1, BeginGood
<1>10. /\ Rest(file, given, stack)
       /\ Listing(given, stack, mem, AskedIndent) /\ Counted(stack, "loop")
  BY <1>1, LoopIs, TInvNow
<1>11. field = given.sectors[stack[1].ix].sections[stack[2].ix].fields[i]
  <2> DEFINE x == i
             now    == file.sectors[stack[1].ix].sections[stack[2].ix].fields
             before == given.sectors[stack[1].ix].sections[stack[2].ix].fields
             y      == stack[3].ix
  <2>1. x = y + 1 /\ x \in 1 .. Len(now) /\ field = now[x]
    BY <1>6, <1>7, Zenon
  <2>2. SameFrom(now, before, y)
    BY <1>1, <1>10 DEF Rest
  <2>3. y \in Nat
    <3>1. 3 \in 1 .. Len(stack)
      BY <1>1
    <3> QED
      BY <1>5, <3>1, FrameIs
  <2> HIDE DEF x, now, before, y
  <2>4. now[x] = before[x]
    BY <2>1, <2>2, <2>3, SameFromNext
  <2> QED
    BY <2>1, <2>4 DEF x, before
<1> HIDE DEF b, own, lost, i, field
<1>12. Done(r.w, b, own, lost) /\ r.data \in {NULL} \cup DataOf(field.type)
  BY <1>5, <1>7, <1>8, <1>9, SerializeFieldDone
<1>13. r.w.m \in Heaps
  BY <1>12 DEF Done, Builders
<1>14. pc' = "collect" /\ mem'.strings = r.w.m.strings /\ r.w.m.crash = FALSE
  <2> DEFINE m == r.w.m
  <2>1. m \in Heaps /\ Commit(m, "collect")
    BY <1>3, <1>13
  <2> HIDE DEF m
  <2>2. Commits(m, "collect")
    BY <1>5, <2>1, CommitIs
  <2>3. m.crash \in BOOLEAN /\ pc' = (IF m.crash THEN "crashed" ELSE "collect")
        /\ mem'.strings = m.strings
    BY <2>1, <2>2 DEF Commits, Heaps
  <2> QED
    BY <2>3 DEF m
<1>15. Says(r.w, b, own, FieldText(field, AskedIndent))
  BY <1>5, <1>7, <1>8, <1>9, <1>14, SerializeFieldSays
<1> DEFINE d == r.data
           w == r.w
           u == file'
           t == stack'
           h == mem'
<1>16. /\ u = DataWith(file, stack[1].ix, stack[2].ix, i, d) /\ d \in {NULL} \cup DataOf(field.type)
       /\ t \in Seq(Frames) /\ SameLists(t, stack)
       /\ t[3].ix = i /\ t[1] = stack[1] /\ t[2] = stack[2]
       /\ h.strings = w.m.strings /\ result'.err = w.err /\ result'.value = w.value
       /\ Says(w, b, own, FieldText(field, AskedIndent))
  BY <1>1, <1>3, <1>6, <1>12, <1>14, <1>15
<1> HIDE DEF d, w, r, u, t, h
<1>17. Rest(u, given, t)
  <2>1. OtherData(u, file, stack[1].ix, stack[2].ix, i)
    <3> DEFINE x == stack[1].ix
               y == stack[2].ix
    <3>1. /\ x \in 1 .. Len(file.sectors) /\ y \in 1 .. Len(file.sectors[x].sections)
          /\ i \in 1 .. Len(file.sectors[x].sections[y].fields)
          /\ d \in {NULL} \cup DataOf(file.sectors[x].sections[y].fields[i].type)
          /\ u = DataWith(file, x, y, i, d)
      BY <1>6, <1>7, <1>16 DEF field
    <3> HIDE DEF x, y
    <3>2. OtherData(u, file, x, y, i)
      BY <1>5, <3>1, DataWritten
    <3> QED
      BY <3>2, Zenon DEF x, y
  <2>2. Len(t) = 3
    BY <1>1, <1>16 DEF SameLists
  <2> QED
    BY <1>1, <1>5, <1>6, <1>10, <1>16, <2>1, <2>2, RestWritten
<1>18. ASSUME w.err = "MCFG_OK"
       PROVE  /\ Listing(given, t, h, AskedIndent) /\ Counted(t, "collect")
              /\ Resulting(given, t, result', h, "collect", AskedIndent)
  <2>1. /\ h.strings[w.value].text = FieldText(field, AskedIndent)
        /\ \A p \in own : h.strings[p] = mem.strings[p]
    BY <1>8, <1>16, <1>18 DEF Says
  <2>2. Listing(given, t, h, AskedIndent) /\ Counted(t, "collect")
    <3>1. Len(stack) \in {1, 2, 3} /\ \A j \in 1 .. Len(stack) - 1 : t[j] = stack[j]
      <4>1. \A j \in 1 .. 3 - 1 : j = 1 \/ j = 2
        OBVIOUS
      <4> QED
        BY <1>1, <1>16, <4>1
    <3>2. t[Len(stack)].ix = stack[Len(stack)].ix + 1
      BY <1>1, <1>6, <1>16
    <3>3. \A p \in Held(stack) : h.strings[p] = mem.strings[p]
      BY <2>1 DEF own
    <3> QED
      BY <1>5, <1>10, <1>16, <3>1, <3>2, <3>3, NextTexting
  <2>3. ChildText(given, t, 3, i, AskedIndent) = FieldText(field, AskedIndent)
    <3>1. t[1].ix = stack[1].ix /\ t[2].ix = stack[2].ix
      BY <1>16
    <3>2. ChildText(given, t, 3, i, AskedIndent)
             = FieldText(given.sectors[t[1].ix].sections[t[2].ix].fields[i], AskedIndent)
      BY DEF ChildText
    <3> QED
      BY <1>11, <3>1, <3>2
  <2>4. Len(t) = 3 /\ t[Len(t)].ix = i
    BY <1>1, <1>16 DEF SameLists
  <2> QED
    BY <1>16, <2>1, <2>2, <2>3, <2>4 DEF Resulting
<1>19. Texting(given, t, result', h, "collect", AskedIndent)
  BY <1>16, <1>18 DEF Texting
<1> QED
  BY <1>1, <1>14, <1>17, <1>19, TInvThen, Zenon DEF u, t, h

\* The text of a file is written over what a new string says.
LEMMA FileStringSays ==
    ASSUME TopBuilt, NEW m, NEW own, NEW lost, Good(m, own, lost), m.crash = FALSE,
           NEW r, r = FileString(m)
    PROVE  Says(r, m, own, FlattenSeq(ListedTexts))
<1> DEFINE size == Lengths + 1
           new  == NewSized(m, size)
           text == FlattenSeq(ListedTexts)
<1>1. size \in Nat
  BY LengthsSum
<1>2. r = IF new.err # "MCFG_OK" THEN new
          ELSE [new EXCEPT !.m.strings[new.value].text = text]
  BY DEF FileString, ListedTexts
<1> HIDE DEF size, text
<1>3. Building(new, m, own, lost) /\ Clean(new)
  BY <1>1, NewSizedBuilding
<1>4. Says(new, m, own, << >>)
  <2>1. m \in Heaps /\ own \subseteq Live(m)
    BY DEF Good
  <2> QED
    BY <2>1, NewSizedSays
<1> HIDE DEF new
<1>5. CASE new.err # "MCFG_OK"
  BY <1>2, <1>5 DEF Says, text
<1>6. CASE new.err = "MCFG_OK"
  <2> DEFINE v == new.value
             s == new.m.strings
  <2>1. v \in DOMAIN s /\ v \notin own
    <3>1. v # NULL /\ v \notin own /\ Plus(own, v) \subseteq Live(new.m)
      BY <1>3, <1>6 DEF Building, Good
    <3>2. v \in Live(new.m)
      BY <3>1 DEF Plus
    <3> QED
      BY <3>1, <3>2 DEF Live
  <2>2. \A p \in own : p \in DOMAIN s /\ s[p] = m.strings[p]
    <3>1. own \subseteq Live(new.m)
      BY <1>3 DEF Building, Good, Plus
    <3> QED
      BY <1>4, <1>6, <3>1 DEF Says, Live
  <2>3. new \in Builders /\ new.m \in Heaps
    BY <1>3 DEF Building, Builders
  <2>4. r = [new EXCEPT !.m = [new.m EXCEPT !.strings =
                 [new.m.strings EXCEPT ![v] = [new.m.strings[v] EXCEPT !.text = text]]]]
    BY <1>2, <1>6
  <2> DEFINE b == [s[v] EXCEPT !.text = text]
             t == [s EXCEPT ![v] = b]
  <2>5. b.text = text
    <3>1. s[v] \in FitString
      <4>1. v \in Live(new.m)
        BY <1>3, <1>6 DEF Building, Good, Plus
      <4> QED
        BY <2>3, <4>1 DEF Live, Heaps
    <3>2. s[v] \in [capacity : Nat, length : Nat, text : Text, block : Nat]
      BY <3>1 DEF FitString, String
    <3> HIDE DEF s
    <3> QED
      BY <3>2
  <2> HIDE DEF b
  <2>6. r.m.strings = t /\ r.value = v
    BY <2>3, <2>4 DEF Builders, Heaps, b
  <2>7. t[v] = b /\ \A p \in own : t[p] = m.strings[p]
    BY <2>1, <2>2
  <2> QED
    BY <2>5, <2>6, <2>7 DEF Says, text
<1> QED
  BY <1>5, <1>6

\* All the children have returned: their texts are in the list on top.
LEMMA TopTexts ==
    ASSUME IInv, TInv, pc = "loop", ~More, options.stale = << >>
    PROVE  /\ Len(Top.list.items) = Len(Children) /\ Len(Children) \in Nat
           /\ \A k \in 1 .. Len(Top.list.items) :
                 TextAt(Top.list.items[k]) = ChildText(given, stack, Len(stack), k, AskedIndent)
<1>1. /\ file \in Document /\ stack \in Seq(Frames) /\ Len(stack) \in {1, 2, 3}
      /\ Placed(file, stack, pc) /\ result.err = "MCFG_OK"
  BY InvIs, LoopIs
<1>2. Listing(given, stack, mem, AskedIndent) /\ Counted(stack, "loop")
  BY <1>1, TInvNow
<1>3. Len(Top.list.items) = Top.ix
  BY <1>2 DEF Counted, Top, Depth
<1>4. Top.ix = Len(Children) /\ Len(Children) \in Nat
  <2>1. Len(Children) \in Nat /\ Top.ix \in Nat
    BY <1>1, ChildrenAre
  <2>2. Top.ix <= Len(Children)
    <3>1. CASE Len(stack) = 1
      BY <1>1, <3>1 DEF Placed, Top, Depth, Children
    <3>2. CASE Len(stack) = 2
      <4>1. Len(stack) >= 2
        BY <3>2
      <4> QED
        BY <1>1, <3>2, <4>1 DEF Placed, Top, Depth, Children, ThisSector
    <3>3. CASE Len(stack) = 3
      BY <1>1, <3>3 DEF Placed, Top, Depth, Children, ThisSector, ThisSection
    <3> QED
      BY <1>1, <3>1, <3>2, <3>3
  <2>3. ~(Top.ix < Len(Children))
    BY DEF More
  <2> QED
    BY <2>1, <2>2, <2>3
<1>5. ASSUME NEW k \in 1 .. Len(Top.list.items)
      PROVE  TextAt(Top.list.items[k]) = ChildText(given, stack, Len(stack), k, AskedIndent)
  <2>1. Len(stack) \in 1 .. Len(stack)
    <3>1. \A x \in {1, 2, 3} : x \in 1 .. x
      OBVIOUS
    <3> QED
      BY <1>1, <3>1
  <2>2. Top = stack[Len(stack)]
    BY Zenon DEF Top, Depth
  <2> QED
    BY <1>2, <2>1, <2>2 DEF Listing, TextAt
<1> QED
  BY <1>3, <1>4, <1>5

\* What each function writes is what it is to write.
LEMMA WholeSection ==
    ASSUME IInv, TInv, pc = "loop", ~More, options.stale = << >>, Len(stack) = 3
    PROVE  FlattenSeq(SectionPieces) = WholeText(given, stack, AskedIndent)
<1> DEFINE a == stack[1].ix
           b == stack[2].ix
           section == given.sectors[a].sections[b]
           n == Len(Top.list.items)
<1>1. /\ options \in Options /\ file \in Document /\ given \in Document /\ TopBuilt
      /\ stack \in Seq(Frames) /\ Len(stack) \in {1, 2, 3} /\ Placed(file, stack, pc)
      /\ Rest(file, given, stack)
  BY InvIs, LoopIs, LoopTopBuilt, TInvNow
<1>2. /\ a \in 1 .. Len(file.sectors) /\ b \in 1 .. Len(file.sectors[a].sections)
      /\ Children = file.sectors[a].sections[b].fields
      /\ ThisSection = file.sectors[a].sections[b]
  <2>1. ThisSector = file.sectors[a] /\ ThisSection = file.sectors[a].sections[b]
    BY DEF ThisSector, ThisSection
  <2>2. Len(stack) >= 2
    OBVIOUS
  <2>3. /\ stack[1].ix \in 1 .. Len(file.sectors)
        /\ stack[2].ix \in 1 .. Len(ThisSector.sections)
        /\ Children = ThisSection.fields
    BY <1>1, <2>2, ChildrenAre
  <2> QED
    BY <2>1, <2>3
<1>3. /\ Len(file.sectors) = Len(given.sectors)
      /\ Len(file.sectors[a].sections) = Len(given.sectors[a].sections)
      /\ file.sectors[a].sections[b].name = section.name
      /\ Len(file.sectors[a].sections[b].fields) = Len(section.fields)
  <2>1. Len(stack) >= 1 /\ Len(stack) >= 2
    OBVIOUS
  <2> QED
    BY <1>1, <2>1 DEF Rest, SameFrom
<1>4. section \in DocSection
  <2>1. a \in 1 .. Len(given.sectors) /\ b \in 1 .. Len(given.sectors[a].sections)
    BY <1>2, <1>3
  <2> HIDE DEF a, b
  <2>2. given.sectors[a] \in DocSector
    BY <1>1, <2>1, DocumentIs
  <2> QED
    BY <2>1, <2>2, SectorIs
<1>5. /\ n = Len(Children)
      /\ \A k \in 1 .. n :
            TextAt(Top.list.items[k]) = ChildText(given, stack, Len(stack), k, AskedIndent)
  BY TopTexts
<1>6. \A k \in 1 .. n : TextAt(Top.list.items[k]) = FieldText(section.fields[k], AskedIndent)
  <2>1. \A k : ChildText(given, stack, 3, k, AskedIndent) = FieldText(section.fields[k], AskedIndent)
    BY DEF ChildText
  <2> HIDE DEF section, n
  <2> QED
    BY <1>5, <2>1
<1>7. WholeText(given, stack, AskedIndent) = SectionText(section, AskedIndent)
  <2>1. WholeText(given, stack, AskedIndent) = ChildText(given, stack, 2, b, AskedIndent)
    <3>1. ~(Len(stack) <= 1) /\ Len(stack) - 1 = 2
      OBVIOUS
    <3>2. WholeText(given, stack, AskedIndent)
            = ChildText(given, stack, Len(stack) - 1, stack[Len(stack) - 1].ix, AskedIndent)
      BY <3>1, Zenon DEF WholeText
    <3> QED
      BY <3>1, <3>2
  <2>2. ChildText(given, stack, 2, b, AskedIndent) = SectionText(section, AskedIndent)
    BY DEF ChildText
  <2> QED
    BY <2>1, <2>2
<1>8. ThisSection.name = section.name /\ Len(section.fields) = n
  BY <1>2, <1>3, <1>5
<1> HIDE DEF section, n
<1>9. n = Len(Top.list.items)
  BY DEF n
<1>10. FlattenSeq(SectionPieces) = SectionText(section, AskedIndent)
  BY <1>1, <1>4, <1>6, <1>8, <1>9, SectionPiecesJoined
<1> QED
  BY <1>7, <1>10

LEMMA WholeSector ==
    ASSUME IInv, TInv, pc = "loop", ~More, options.stale = << >>, Len(stack) = 2
    PROVE  FlattenSeq(SectorPieces) = WholeText(given, stack, AskedIndent)
<1> DEFINE a == stack[1].ix
           sector == given.sectors[a]
           n == Len(Top.list.items)
<1>1. /\ options \in Options /\ file \in Document /\ given \in Document /\ TopBuilt
      /\ stack \in Seq(Frames) /\ Len(stack) \in {1, 2, 3} /\ Placed(file, stack, pc)
      /\ Rest(file, given, stack)
  BY InvIs, LoopIs, LoopTopBuilt, TInvNow
<1>2. /\ a \in 1 .. Len(file.sectors) /\ Children = file.sectors[a].sections
      /\ ThisSector = file.sectors[a]
  BY <1>1, ChildrenAre DEF ThisSector
<1>3. /\ Len(file.sectors) = Len(given.sectors) /\ file.sectors[a].name = sector.name
      /\ Len(file.sectors[a].sections) = Len(sector.sections)
  <2>1. Len(stack) >= 1 /\ Len(stack) >= 2
    OBVIOUS
  <2> QED
    BY <1>1, <2>1 DEF Rest, SameFrom
<1>4. sector \in DocSector
  <2>1. a \in 1 .. Len(given.sectors)
    BY <1>2, <1>3
  <2> HIDE DEF a
  <2> QED
    BY <1>1, <2>1, DocumentIs
<1>5. /\ n = Len(Children)
      /\ \A k \in 1 .. n :
            TextAt(Top.list.items[k]) = ChildText(given, stack, Len(stack), k, AskedIndent)
  BY TopTexts
<1>6. \A k \in 1 .. n : TextAt(Top.list.items[k]) = SectionText(sector.sections[k], AskedIndent)
  <2>1. \A k : ChildText(given, stack, 2, k, AskedIndent) = SectionText(sector.sections[k], AskedIndent)
    BY DEF ChildText
  <2> HIDE DEF sector, n
  <2> QED
    BY <1>5, <2>1
<1>7. WholeText(given, stack, AskedIndent) = SectorText(sector, AskedIndent)
  <2>1. WholeText(given, stack, AskedIndent) = ChildText(given, stack, 1, a, AskedIndent)
    BY DEF WholeText
  <2>2. ChildText(given, stack, 1, a, AskedIndent) = SectorText(sector, AskedIndent)
    BY DEF ChildText
  <2> QED
    BY <2>1, <2>2
<1>8. ThisSector.name = sector.name /\ Len(sector.sections) = n
  BY <1>2, <1>3, <1>5
<1> DEFINE i == AskedIndent
<1> HIDE DEF sector, n, i
<1>9. n = Len(Top.list.items) /\ \A k \in 1 .. n : TextAt(Top.list.items[k]) = SectionText(sector.sections[k], i)
  BY <1>6 DEF n, i
<1>10. FlattenSeq(SectorPieces) = SectorText(sector, i)
  BY <1>1, <1>4, <1>8, <1>9, SectorPiecesJoined
<1> QED
  BY <1>7, <1>10 DEF i

LEMMA WholeFile ==
    ASSUME IInv, TInv, pc = "loop", ~More, options.stale = << >>, Len(stack) = 1
    PROVE  FlattenSeq(ListedTexts) = WholeText(given, stack, AskedIndent)
<1> DEFINE n == Len(Top.list.items)
           i == AskedIndent
<1>1. /\ file \in Document /\ given \in Document /\ TopBuilt
      /\ stack \in Seq(Frames) /\ Len(stack) \in {1, 2, 3} /\ Placed(file, stack, pc)
      /\ Rest(file, given, stack)
  BY InvIs, LoopIs, LoopTopBuilt, TInvNow
<1>2. Children = file.sectors /\ Len(file.sectors) = Len(given.sectors)
  <2>1. Len(stack) >= 1
    OBVIOUS
  <2> QED
    BY <1>1, <2>1, ChildrenAre DEF Rest, SameFrom
<1>3. /\ n = Len(Children)
      /\ \A k \in 1 .. n : TextAt(Top.list.items[k]) = ChildText(given, stack, Len(stack), k, i)
  BY TopTexts
<1>4. \A k : ChildText(given, stack, 1, k, i) = SectorText(given.sectors[k], i)
  BY DEF ChildText
<1>5. WholeText(given, stack, i) = DocText(given, i)
  BY DEF WholeText
<1> DEFINE doc == given
<1> HIDE DEF n, i, doc
<1>6. /\ doc \in Document /\ n = Len(Top.list.items) /\ Len(doc.sectors) = n
      /\ \A k \in 1 .. n : TextAt(Top.list.items[k]) = SectorText(doc.sectors[k], i)
  BY <1>1, <1>2, <1>3, <1>4 DEF n, doc
<1>7. FlattenSeq(ListedTexts) = DocText(doc, i)
  BY <1>1, <1>6, FileTextsJoined
<1> QED
  BY <1>5, <1>7 DEF i, doc

LEMMA CopiesItself ==
    ASSUME NEW s
    PROVE  Copies(s, s)
<1>1. ASSUME NEW d \in 1 .. Len(s)
      PROVE  SameAbove(s, s, d)
  BY DEF SameAbove
<1> QED
  BY <1>1 DEF Copies

\* The text has been written; the lists are as they were.
LEMMA WriteTexting ==
    ASSUME IInv, TInv, pc = "loop", ~More, options.stale = << >>, NEW k \in Nat,
           NEW w, w.m \in Heaps,
           Says(w, Begin(k), Held(stack), WholeText(given, stack, AskedIndent)),
           Commit(w.m, "exit"), pc' # "crashed", result' = [err |-> w.err, value |-> w.value],
           options' = options, file' = file, given' = given, stack' = stack
    PROVE  TInv'
<1> DEFINE m == w.m
           h == mem'
           n == Len(stack)
<1>1. /\ stack \in Seq(Frames) /\ fails \in Nat /\ result.err = "MCFG_OK"
      /\ n \in {1, 2, 3} /\ mem \in Heaps /\ mem.made = 0 /\ mem.crash = FALSE
  BY InvIs, LoopIs
<1>2. /\ Rest(file, given, stack)
      /\ Listing(given, stack, mem, AskedIndent) /\ Counted(stack, "loop")
  BY <1>1, TInvNow
<1>3. Begin(k).strings = mem.strings
  BY <1>1, BeginIs
<1>4. pc' = "exit" /\ h.strings = w.m.strings
  <2>1. m \in Heaps /\ Commit(m, "exit")
    OBVIOUS
  <2> HIDE DEF m
  <2>2. Commits(m, "exit")
    BY <1>1, <2>1, CommitIs
  <2>3. pc' = (IF m.crash THEN "crashed" ELSE "exit") /\ mem'.strings = m.strings
    BY <2>2 DEF Commits
  <2> QED
    BY <2>3 DEF m
<1>5. result'.err = w.err /\ result'.value = w.value
  OBVIOUS
<1> HIDE DEF h
<1>6. ASSUME w.err = "MCFG_OK"
      PROVE  /\ Listing(given, stack, h, AskedIndent) /\ Counted(stack, "exit")
             /\ Resulting(given, stack, result', h, "exit", AskedIndent)
  <2>1. /\ h.strings[w.value].text = WholeText(given, stack, AskedIndent)
        /\ \A p \in Held(stack) : h.strings[p] = mem.strings[p]
    BY <1>3, <1>4, <1>6 DEF Says
  <2>2. Copies(stack, stack)
    BY CopiesItself
  <2>3. n <= 3
    <3>1. \A x \in {1, 2, 3} : x <= 3
      OBVIOUS
    <3> HIDE DEF n
    <3> QED
      BY <1>1, <3>1
  <2>4. Listing(given, stack, h, AskedIndent)
    <3>1. \A p \in Held(stack) : h.strings[p].text = mem.strings[p].text
      BY <2>1
    <3> QED
      BY <1>1, <1>2, <2>2, <2>3, <3>1, ListingKept
  <2>5. Counted(stack, "exit")
    BY <1>2 DEF Counted
  <2>6. Resulting(given, stack, result', h, "exit", AskedIndent)
    BY <1>5, <2>1 DEF Resulting
  <2> QED
    BY <2>4, <2>5, <2>6
<1>7. Texting(given, stack, result', h, "exit", AskedIndent)
  BY <1>5, <1>6 DEF Texting
<1> QED
  BY <1>2, <1>4, <1>7, TInvThen DEF h

LEMMA WriteTexts ==
    ASSUME IInv, TInv, Write, options.stale = << >>, pc' # "crashed"
    PROVE  TInv'
<1>1. /\ pc = "loop" /\ ~More
      /\ options' = options /\ file' = file /\ given' = given /\ stack' = stack
  BY DEF Write
<1>2. PICK k \in 0 .. StepAllocs :
         LET m == Begin(k)
             w == CASE Depth = 3 -> AppendAll(NewSized(m, Lengths + strlen(_make_indent(1)) + 13
                                                         + strlen(ThisSection.name.base)), SectionPieces)
                    [] Depth = 2 -> AppendAll(NewSized(m, Lengths + 12
                                                         + strlen(ThisSector.name.base)), SectorPieces)
                    [] Depth = 1 -> FileString(m)
         IN  /\ Commit(w.m, "exit")
             /\ result' = [err |-> w.err, value |-> w.value]
  BY DEF Write
<1> DEFINE m    == Begin(k)
           own  == Held(stack)
           lost == Live(mem) \ own
           n3   == Lengths + strlen(_make_indent(1)) + 13 + strlen(ThisSection.name.base)
           n2   == Lengths + 12 + strlen(ThisSector.name.base)
           w3   == AppendAll(NewSized(m, n3), SectionPieces)
           w2   == AppendAll(NewSized(m, n2), SectorPieces)
           w1   == FileString(m)
           text == WholeText(given, stack, AskedIndent)
<1>3. k \in Nat
  BY SerializerAssumption
<1>4. /\ options \in Options /\ file \in Document /\ stack \in Seq(Frames)
      /\ mem \in Heaps /\ mem.made = 0 /\ mem.crash = FALSE
      /\ Placed(file, stack, pc) /\ Holding(stack, mem)
  BY <1>1, InvIs
<1>5. Len(stack) \in {1, 2, 3}
  BY <1>1, LoopIs
<1>6. TopBuilt /\ Lengths \in Nat
  BY <1>1, LoopTopBuilt, LengthsSum
<1>7. m.crash = FALSE
  BY <1>3, <1>4, BeginIs
<1>8. Good(m, own, lost)
  <2>1. \A p \in own : p \in Live(mem) /\ mem.strings[p] \in BuiltString
    BY <1>4 DEF Holding
  <2>2. QED BY <1>3, <1>4, <2>1, BeginGood
<1> HIDE DEF m, own, lost, text
<1>9. CASE Len(stack) = 3
  <2>1. ThisSection.name.base \in Text
    BY <1>4, <1>5, <1>9, ChildrenAre, SectionIs
  <2>2. SectionPieces \in Seq(Text)
    BY <1>4, <1>6, <2>1, SectionPiecesType
  <2>3. n3 \in Nat
    <3>1. strlen(ThisSection.name.base) \in Nat /\ strlen(_make_indent(1)) \in Nat
      BY <1>4, <2>1, IndentType, StrlenType
    <3>2. QED BY <1>6, <3>1
  <2> HIDE DEF n3
  <2>4. w3.m \in Heaps
    <3> DEFINE w == w3
    <3>1. w = AppendAll(NewSized(m, n3), SectionPieces)
      OBVIOUS
    <3> HIDE DEF w
    <3>2. Wrote(w, m, own, lost)
      BY <1>7, <1>8, <2>2, <2>3, <3>1, PiecesWrote
    <3>3. w.m \in Heaps
      BY <3>2 DEF Wrote, Builders
    <3> QED
      BY <3>3 DEF w
  <2>5. FlattenSeq(SectionPieces) = text
    BY <1>1, <1>9, WholeSection DEF text
  <2>6. Says(w3, m, own, text)
    BY <1>7, <1>8, <2>2, <2>3, <2>5, PiecesSay
  <2>7. Commit(w3.m, "exit") /\ result' = [err |-> w3.err, value |-> w3.value]
    BY <1>2, <1>9 DEF m, n3, Depth
  <2> HIDE DEF w3
  <2>8. Says(w3, Begin(k), Held(stack), WholeText(given, stack, AskedIndent))
    BY <2>6 DEF own, m, text
  <2> QED
    BY <1>1, <1>3, <2>4, <2>7, <2>8, WriteTexting
<1>10. CASE Len(stack) = 2
  <2>1. ThisSector.name.base \in Text
    BY <1>4, <1>5, <1>10, ChildrenAre, SectorIs
  <2>2. SectorPieces \in Seq(Text)
    BY <1>6, <2>1, SectorPiecesType
  <2>3. n2 \in Nat
    <3>1. strlen(ThisSector.name.base) \in Nat
      BY <2>1, StrlenType
    <3>2. QED BY <1>6, <3>1
  <2> HIDE DEF n2
  <2>4. w2.m \in Heaps
    <3> DEFINE w == w2
    <3>1. w = AppendAll(NewSized(m, n2), SectorPieces)
      OBVIOUS
    <3> HIDE DEF w
    <3>2. Wrote(w, m, own, lost)
      BY <1>7, <1>8, <2>2, <2>3, <3>1, PiecesWrote
    <3>3. w.m \in Heaps
      BY <3>2 DEF Wrote, Builders
    <3> QED
      BY <3>3 DEF w
  <2>5. FlattenSeq(SectorPieces) = text
    BY <1>1, <1>10, WholeSector DEF text
  <2>6. Says(w2, m, own, text)
    BY <1>7, <1>8, <2>2, <2>3, <2>5, PiecesSay
  <2>7. Commit(w2.m, "exit") /\ result' = [err |-> w2.err, value |-> w2.value]
    BY <1>2, <1>10 DEF m, n2, Depth
  <2> HIDE DEF w2
  <2>8. Says(w2, Begin(k), Held(stack), WholeText(given, stack, AskedIndent))
    BY <2>6 DEF own, m, text
  <2> QED
    BY <1>1, <1>3, <2>4, <2>7, <2>8, WriteTexting
<1>11. CASE Len(stack) = 1
  <2>4. w1.m \in Heaps
    <3> DEFINE w == w1
    <3>1. w = FileString(m)
      OBVIOUS
    <3> HIDE DEF w
    <3>2. Wrote(w, m, own, lost)
      BY <1>6, <1>7, <1>8, <3>1, FileStringWrote
    <3>3. w.m \in Heaps
      BY <3>2 DEF Wrote, Builders
    <3> QED
      BY <3>3 DEF w
  <2>5. FlattenSeq(ListedTexts) = text
    BY <1>1, <1>11, WholeFile DEF text
  <2>6. Says(w1, m, own, text)
    BY <1>6, <1>7, <1>8, <2>5, FileStringSays
  <2>7. Commit(w1.m, "exit") /\ result' = [err |-> w1.err, value |-> w1.value]
    BY <1>2, <1>11 DEF m, Depth
  <2> HIDE DEF w1
  <2>8. Says(w1, Begin(k), Held(stack), WholeText(given, stack, AskedIndent))
    BY <2>6 DEF own, m, text
  <2> QED
    BY <1>1, <1>3, <2>4, <2>7, <2>8, WriteTexting
<1> QED
  BY <1>5, <1>9, <1>10, <1>11

\* Freeing leaves all other strings alone.
LEMMA FreeElse ==
    ASSUME NEW m \in Heaps, NEW p, NEW q \in DOMAIN m.strings, q # p
    PROVE  q \in DOMAIN Free(m, p).strings /\ Free(m, p).strings[q] = m.strings[q]
<1>1. CASE p = NULL
  <2>1. Free(m, p) = m
    BY <1>1, HeapIs DEF Free
  <2> QED
    BY <2>1
<1>2. CASE p # NULL /\ p \in Live(m)
  <2> DEFINE f == Free(m, p)
             t == [m.strings EXCEPT ![p] = NULL]
  <2>2. f = WithStrings(m, t)
    BY <1>2 DEF Free, WithStrings
  <2>3. t \in Seq(FitString \cup {NULL})
    BY <1>2, SlotCleared
  <2>4. q \in DOMAIN t /\ t[q] = m.strings[q]
    OBVIOUS
  <2> HIDE DEF f, t
  <2>5. f.strings = t
    BY <2>2, <2>3, StringsReplaced
  <2> QED
    BY <2>4, <2>5 DEF f
<1>3. CASE p # NULL /\ p \notin Live(m)
  <2>1. Free(m, p) = Crashed(m)
    BY <1>3 DEF Free
  <2>2. Same(Crashed(m), m)
    BY Counting, 0 \in Int
  <2> QED
    BY <2>1, <2>2 DEF Same
<1> QED
  BY <1>1, <1>2, <1>3

LEMMA FreeAllElse ==
    ASSUME NEW m \in Heaps, NEW freed \in Seq(Nat), NEW q \in DOMAIN m.strings, q \notin ToSet(freed)
    PROVE  FreeAll(m, freed) \in Heaps /\ FreeAll(m, freed).strings[q] = m.strings[q]
<1> DEFINE n == Len(freed)
           r == FreeAll(m, freed)
<1>1. PICK h : h[0] = m /\ h[n] = r /\ \A i \in 1 .. n : h[i] = Free(h[i - 1], freed[i])
  BY FreeLoop
<1>2. n \in Nat /\ \A i \in 1 .. n : freed[i] # q
  BY LenProperties DEF ToSet
<1> HIDE DEF r, n
<1> DEFINE T == {i \in Nat : i <= n =>
                    h[i] \in Heaps /\ q \in DOMAIN h[i].strings /\ h[i].strings[q] = m.strings[q]}
<1>3. 0 \in T
  BY <1>1
<1>4. ASSUME NEW i \in Nat, i \in T
      PROVE  i + 1 \in T
  <2>1. ASSUME i + 1 <= n
        PROVE  /\ h[i + 1] \in Heaps /\ q \in DOMAIN h[i + 1].strings
               /\ h[i + 1].strings[q] = m.strings[q]
    <3> DEFINE a == h[i]
               p == freed[i + 1]
    <3>1. i + 1 \in 1 .. n /\ (i + 1) - 1 = i /\ i <= n
      BY <1>2, <2>1
    <3>2. a \in Heaps /\ q \in DOMAIN a.strings /\ a.strings[q] = m.strings[q]
      BY <1>4, <3>1
    <3>3. h[i + 1] = Free(a, p) /\ p # q
      BY <1>1, <1>2, <3>1
    <3> HIDE DEF a, p
    <3>4. /\ Free(a, p) \in Heaps /\ q \in DOMAIN Free(a, p).strings
          /\ Free(a, p).strings[q] = a.strings[q]
      BY <3>2, <3>3, FreeType, FreeElse
    <3> QED
      BY <3>2, <3>3, <3>4
  <2> QED
    BY <2>1
<1>5. \A i \in Nat : i \in T
  <2> HIDE DEF T
  <2> QED
    BY <1>3, <1>4, SetInduction
<1> QED
  BY <1>1, <1>2, <1>5 DEF r

\* The text of the result outlives the list, that of a file too.
LEMMA ResultOutlives ==
    ASSUME IInv, pc = "exit", result.err = "MCFG_OK",
           NEW x, x = Leaving(Destroy(Begin(0), Top.list))
    PROVE  x.strings[result.value] = mem.strings[result.value]
<1> DEFINE b == Begin(0)
           v == result.value
           d == Ptrs!cptrlist_destroy(Top.list)
           f == FreeAll(b, d.freed)
           m == Destroy(b, Top.list)
<1>1. /\ Top.list \in PtrLists /\ Once(Top.list.items) /\ Top.list.array # FALSE
      /\ v \in Live(mem) \ Held(stack) /\ ToSet(Top.list.items) \subseteq Held(stack)
  BY ExitIs
<1>2. Top.list.array = TRUE
  <2>1. Top.list.array \in BOOLEAN
    BY <1>1 DEF PtrLists
  <2> QED
    BY <1>1, <2>1
<1>3. b \in Heaps /\ b.strings = mem.strings /\ v \in DOMAIN b.strings
  <2>1. v \in DOMAIN mem.strings
    BY <1>1 DEF Live
  <2> QED
    BY <2>1, InvIs, BeginIs, 0 \in Nat
<1>4. d.fault = FALSE /\ d.freed \in Seq(Nat) /\ v \notin ToSet(d.freed)
  BY <1>1, <1>2, DestroyFrees
<1>5. m = FreePlain(f, 1)
  BY <1>4 DEF Destroy, FreeAll
<1> HIDE DEF b, v, d, m
<1>6. f \in Heaps /\ f.strings[v] = b.strings[v]
  BY <1>3, <1>4, FreeAllElse
<1> HIDE DEF f
<1>7. m \in Heaps /\ m.strings = f.strings
  <2>1. Same(FreePlain(f, 1), f)
    <3>1. \A n \in Int : Same(FreePlain(f, n), f)
      BY <1>6, Counting
    <3> QED
      BY <3>1
  <2> QED
    BY <1>5, <2>1 DEF Same
<1>8. Freeing(m) = m
  BY DEF Freeing
<1>9. x.strings = m.strings
  <2>1. Leaving(m).strings = m.strings
    BY <1>7, <1>8, LeavingIs
  <2> QED
    BY <2>1 DEF m, b
<1> QED
  BY <1>3, <1>6, <1>7, <1>9 DEF v

\* The function on top returns: the lists under it are as they were.
LEMMA ExitTexting ==
    ASSUME NEW s \in Seq(Frames), Len(s) \in {2, 3}, NEW doc, NEW m, NEW indent, NEW r,
           Listing(doc, s, m, indent), Counted(s, "exit"), Resulting(doc, s, r, m, "exit", indent),
           NEW t \in Seq(Frames), Len(t) = Len(s) - 1, \A d \in 1 .. Len(s) - 1 : t[d] = s[d],
           NEW n, \A p \in Held(t) : n.strings[p] = m.strings[p],
           n.strings[r.value] = m.strings[r.value]
    PROVE  /\ Listing(doc, t, n, indent) /\ Counted(t, "collect")
           /\ Resulting(doc, t, r, n, "collect", indent)
<1> DEFINE l == Len(t)
<1>1. /\ l \in {1, 2} /\ Len(s) = l + 1 /\ l \in 1 .. l
      /\ \A d \in 1 .. l : t[d] = s[d] /\ d \in 1 .. Len(s)
  OBVIOUS
<1>2. Listing(doc, t, n, indent)
  <2>1. ASSUME NEW d \in 1 .. l
        PROVE  /\ d \in 1 .. Len(s) /\ t[d].list.items = s[d].list.items
               /\ SameAbove(t, s, d)
    <3>1. \A c \in 1 .. d - 1 : c \in 1 .. l
      BY <1>1
    <3> QED
      BY <1>1, <3>1 DEF SameAbove
  <2>2. Copies(t, s)
    BY <2>1 DEF Copies
  <2>3. Len(t) <= 3
    BY <1>1
  <2>4. \A p \in Held(t) : n.strings[p].text = m.strings[p].text
    OBVIOUS
  <2> QED
    BY <2>2, <2>3, <2>4, ListingKept
<1>3. Counted(t, "collect")
  <2>1. \A d \in 1 .. l : Len(s[d].list.items) + 1 = s[d].ix
    <3>1. \A d \in 1 .. l : d \in 1 .. Len(s) - 1
      BY <1>1
    <3> QED
      BY <3>1 DEF Counted
  <2>2. \A d \in 1 .. l : Len(t[d].list.items) + 1 = t[d].ix
    BY <1>1, <2>1
  <2>3. \A d \in 1 .. l - 1 : d \in 1 .. l
    BY <1>1
  <2> QED
    BY <1>1, <2>2, <2>3 DEF Counted
<1>4. Resulting(doc, t, r, n, "collect", indent)
  <2>1. n.strings[r.value].text = WholeText(doc, s, indent)
    BY DEF Resulting
  <2>2. WholeText(doc, s, indent) = ChildText(doc, s, l, s[l].ix, indent)
    <3>1. ~(Len(s) <= 1) /\ Len(s) - 1 = l
      BY <1>1
    <3> HIDE DEF l
    <3> QED
      BY <3>1 DEF WholeText
  <2>3. SameAbove(t, s, l)
    <3>1. \A c \in 1 .. l - 1 : c \in 1 .. l
      BY <1>1
    <3> QED
      BY <1>1, <3>1 DEF SameAbove
  <2>4. l \in {1, 2, 3} /\ t[l].ix = s[l].ix
    BY <1>1
  <2> HIDE DEF l
  <2>5. ChildText(doc, t, l, s[l].ix, indent) = ChildText(doc, s, l, s[l].ix, indent)
    BY <2>3, <2>4, ChildTextSame
  <2>6. n.strings[r.value].text = ChildText(doc, t, l, t[l].ix, indent)
    BY <2>1, <2>2, <2>4, <2>5
  <2> QED
    BY <2>6 DEF Resulting, l
<1> QED
  BY <1>2, <1>3, <1>4

\* The text of the file is the result.
LEMMA ReturnTexting ==
    ASSUME NEW s, Len(s) = 1, NEW doc, NEW m, NEW indent, NEW r,
           Resulting(doc, s, r, m, "exit", indent),
           NEW t, Len(t) = 0, NEW n, n.strings[r.value] = m.strings[r.value]
    PROVE  /\ Listing(doc, t, n, indent) /\ Counted(t, "returned")
           /\ Resulting(doc, t, r, n, "returned", indent)
<1>1. WholeText(doc, t, indent) = DocText(doc, indent) /\ WholeText(doc, s, indent) = DocText(doc, indent)
  BY DEF WholeText
<1>2. n.strings[r.value].text = WholeText(doc, t, indent)
  BY <1>1 DEF Resulting
<1>3. 1 .. Len(t) = {} /\ 1 .. Len(t) - 1 = {}
  OBVIOUS
<1>4. Listing(doc, t, n, indent) /\ Counted(t, "returned")
  BY <1>3 DEF Listing, Counted
<1> QED
  BY <1>2, <1>4 DEF Resulting

LEMMA ExitTexts ==
    ASSUME IInv, TInv, Exit, options.stale = << >>, pc' # "crashed"
    PROVE  TInv'
<1> DEFINE n    == Len(stack)
           gone == ToSet(Top.list.items)
           x    == Leaving(Destroy(Begin(0), Top.list))
           then == IF Depth = 1 THEN "returned" ELSE "collect"
           t    == stack'
           h    == mem'
<1>1. /\ pc = "exit" /\ stack' = Front(stack) /\ result' = result
      /\ options' = options /\ file' = file /\ given' = given
  BY DEF Exit
<1>2. Commit(x, then)
  BY DEF Exit, Leaving, Freeing
<1>3. /\ stack \in Seq(Frames) /\ fails \in Nat /\ Apart(stack) /\ n \in {1, 2, 3} /\ n # 0
      /\ Top = stack[n]
  BY <1>1, InvIs, ExitIs
<1>4. Left(x, gone)
  BY <1>1, LeavesIs
<1>5. result.err = "MCFG_OK" => x.strings[result.value] = mem.strings[result.value]
  BY <1>1, ResultOutlives
<1> HIDE DEF x
<1>6. x \in Heaps /\ Commits(x, then)
  BY <1>2, <1>3, <1>4, CommitIs DEF Left
<1> HIDE DEF then
<1>7. x.crash = FALSE /\ pc' = then /\ h.strings = x.strings
  <2>1. x.crash \in BOOLEAN
    BY <1>6 DEF Heaps
  <2> QED
    BY <1>6, <2>1 DEF Commits
<1>8. /\ t \in Seq(Frames) /\ Len(t) = n - 1 /\ \A d \in 1 .. n - 1 : t[d] = stack[d]
      /\ Held(t) = Held(stack) \ gone
  BY <1>1, <1>3, PopIs
<1>9. \A p \in Held(t) : h.strings[p] = mem.strings[p]
  BY <1>4, <1>7, <1>8 DEF Left
<1>10. /\ Rest(file, given, stack)
       /\ result.err = "MCFG_OK" =>
             /\ Listing(given, stack, mem, AskedIndent) /\ Counted(stack, "exit")
             /\ Resulting(given, stack, result, mem, "exit", AskedIndent)
  BY <1>1, TInvNow
<1> HIDE DEF t, h, gone
<1>11. Rest(file, given, t)
  <2>1. \A k \in {1, 2, 3} : k \in {0, 1, 2, 3} /\ k - 1 \in {0, 1, 2, 3} /\ k - 1 <= k
    OBVIOUS
  <2>2. Len(stack) \in {0, 1, 2, 3} /\ Len(t) \in {0, 1, 2, 3} /\ Len(t) <= Len(stack)
    BY <1>3, <1>8, <2>1
  <2>3. \A d \in 1 .. Len(t) : t[d].ix = stack[d].ix
    BY <1>8
  <2> QED
    BY <1>10, <2>2, <2>3, RestSame
<1>12. ASSUME result.err = "MCFG_OK"
       PROVE  /\ Listing(given, t, h, AskedIndent) /\ Counted(t, then)
              /\ Resulting(given, t, result, h, then, AskedIndent)
  <2>1. h.strings[result.value] = mem.strings[result.value]
    BY <1>5, <1>7, <1>12
  <2>2. CASE n = 1
    <3>1. then = "returned" /\ Len(t) = 0
      BY <1>8, <2>2 DEF then, Depth
    <3> QED
      BY <1>10, <1>12, <2>1, <2>2, <3>1, ReturnTexting
  <2>3. CASE n \in {2, 3}
    <3>1. then = "collect"
      BY <2>3 DEF then, Depth
    <3>2. /\ Len(stack) \in {2, 3} /\ Len(t) = Len(stack) - 1
          /\ \A d \in 1 .. Len(stack) - 1 : t[d] = stack[d]
      BY <1>8, <2>3
    <3> DEFINE r == result
               i == AskedIndent
               doc == given
    <3>3. /\ Listing(doc, stack, mem, i) /\ Counted(stack, "exit")
          /\ Resulting(doc, stack, r, mem, "exit", i) /\ h.strings[r.value] = mem.strings[r.value]
      BY <1>10, <1>12, <2>1
    <3> HIDE DEF n, r, i, doc
    <3>4. /\ Listing(doc, t, h, i) /\ Counted(t, "collect")
          /\ Resulting(doc, t, r, h, "collect", i)
      BY <1>3, <1>8, <1>9, <3>2, <3>3, ExitTexting
    <3> QED
      BY <3>1, <3>4 DEF r, i, doc
  <2> QED
    BY <1>3, <2>2, <2>3
<1>13. Texting(given, t, result, h, then, AskedIndent)
  BY <1>12 DEF Texting
<1> QED
  BY <1>1, <1>7, <1>11, <1>13, TInvThen DEF t, h

LEMMA ReleaseTexts ==
    ASSUME IInv, TInv, Release, pc' # "crashed"
    PROVE  TInv'
<1>1. /\ pc = "returned" /\ result' = NoResult /\ options' = options /\ file' = file
      /\ given' = given /\ stack' = stack
  BY DEF Release
<1>2. Len(stack) = 0
  BY <1>1, InvIs DEF Placed
<1>3. pc' = "idle"
  BY DEF Release, Commit
<1> DEFINE t == stack'
           h == mem'
<1>4. Len(t) = 0
  BY <1>1, <1>2
<1> HIDE DEF t, h
<1>5. Rest(file', given', t)
  BY <1>4 DEF Rest
<1>6. 1 .. Len(t) = {} /\ 1 .. Len(t) - 1 = {}
  BY <1>4
<1>7. Texting(given', t, result', h, "idle", AskedIndent)
  BY <1>6 DEF Texting, Listing, Counted, Resulting
<1> QED
  BY <1>1, <1>3, <1>5, <1>7, TInvThen DEF t, h

-----------------------------------------------------------------------------
(* The theorem.                                                              *)

LEMMA InitTexts ==
    ASSUME Init
    PROVE  TInv
<1>1. stack = << >> /\ given = file /\ pc = "idle"
  BY DEF Init
<1>2. Len(stack) = 0
  BY <1>1, EmptySeq
<1>3. Rest(file, given, stack)
  BY <1>2 DEF Rest
<1>4. 1 .. Len(stack) = {} /\ 1 .. Len(stack) - 1 = {}
  BY <1>2
<1>5. Texting(given, stack, result, mem, "idle", AskedIndent)
  BY <1>4 DEF Texting, Listing, Counted, Resulting
<1> QED
  BY <1>1, <1>3, <1>5 DEF TInv

LEMMA StoppedTexts ==
    ASSUME TInv, UNCHANGED vars
    PROVE  TInv'
BY DEF vars, TInv, AskedIndent

LEMMA NextTexts ==
    ASSUME IInv, TInv, [Next]_vars
    PROVE  TInv'
<1>1. CASE Stopped
  BY <1>1, StoppedTexts DEF Stopped
<1>2. CASE UNCHANGED vars
  BY <1>2, StoppedTexts, Zenon
<1>3. ASSUME Call \/ Enter \/ OneField \/ Collect \/ Write \/ Exit \/ Release
      PROVE  options' = options
  BY <1>3 DEF Call, Enter, OneField, Collect, Write, Exit, Release
<1>4. CASE pc' = "crashed"
  BY <1>4 DEF TInv
<1>5. CASE pc' # "crashed" /\ Call
  BY <1>5, CallTexts
<1>6. CASE pc' # "crashed" /\ Release
  BY <1>6, ReleaseTexts
<1>7. CASE options.stale # << >> /\ (Enter \/ OneField \/ Collect \/ Write \/ Exit)
  <2>1. options' = options
    BY <1>3, <1>7
  <2> QED
    BY <1>7, <2>1 DEF TInv
<1>8. CASE options.stale = << >> /\ pc' # "crashed" /\ Enter
  BY <1>8, EnterTexts
<1>9. CASE options.stale = << >> /\ pc' # "crashed" /\ OneField
  BY <1>9, OneFieldTexts
<1>10. CASE options.stale = << >> /\ pc' # "crashed" /\ Collect
  BY <1>10, CollectTexts
<1>11. CASE options.stale = << >> /\ pc' # "crashed" /\ Write
  BY <1>11, WriteTexts
<1>12. CASE options.stale = << >> /\ pc' # "crashed" /\ Exit
  BY <1>12, ExitTexts
<1> QED
  BY <1>1, <1>2, <1>4, <1>5, <1>6, <1>7, <1>8, <1>9, <1>10, <1>11, <1>12 DEF Next

\* What mcfg_serialize returns behind MCFG_OK is the document that it was
\* given, every string quoted and escaped, every list, section and sector
\* joined in order, with tabs or spaces and whichever allocations fail: the
\* texts in the lists of the functions that run are those of their children,
\* and what they have overwritten in the document they have already read.  It
\* takes the byte that malloc leaves in front of the NUL of an indent of spaces
\* (serialize.c:90) to be zero: with any other the text is a different one.
THEOREM TextWritten == Spec => []WritesDocument
<1>1. Init => IInv /\ TInv
  BY InitInv, InitTexts
<1>2. (IInv /\ TInv) /\ [Next]_vars => (IInv /\ TInv)'
  BY NextInv, NextTexts
<1>3. IInv /\ TInv => WritesDocument
  <2> SUFFICES ASSUME IInv, TInv, pc = "returned", result.err = "MCFG_OK", options.stale = << >>
               PROVE  mem.strings[result.value].text = DocText(given, AskedIndent)
    BY DEF WritesDocument
  <2>1. Len(stack) = 0
    BY InvIs DEF Placed
  <2>2. WholeText(given, stack, AskedIndent) = DocText(given, AskedIndent)
    BY <2>1 DEF WholeText
  <2>3. Resulting(given, stack, result, mem, "returned", AskedIndent)
    BY TInvNow
  <2> QED
    BY <2>2, <2>3 DEF Resulting
<1> QED
  BY <1>1, <1>2, <1>3, PTL DEF Spec
=============================================================================
