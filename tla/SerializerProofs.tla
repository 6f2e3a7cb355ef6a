------------------------- MODULE SerializerProofs -------------------------
(* For every set of documents, all options and any failing allocations:      *)
(* every text fits its block, every block has one owner or is one of those   *)
(* that failed allocations have cost, and with memory enough a sound         *)
(* document is written.                                                      *)
EXTENDS Serializer, CommonTheorems

-----------------------------------------------------------------------------
(* Texts and their lengths.                                                  *)

\* Texts joined are a text.
LEMMA TextJoined ==
    ASSUME NEW a \in Text, NEW b \in Text
    PROVE  a \o b \in Text
BY ConcatProperties DEF Text

\* The symbols that the serializer writes by itself are texts.
LEMMA TextLiterals ==
    /\ << >> \in Text
    /\ \A s \in Symbols : <<s>> \in Text
    /\ \A s, t \in Symbols : <<s, t>> \in Text
<1>1. \A S : /\ << >> \in Seq(S)
             /\ \A s \in S : <<s>> \in Seq(S)
             /\ \A s, t \in S : <<s, t>> \in Seq(S)
  OBVIOUS
<1> QED
  BY <1>1, Zenon DEF Text

\* A text is a function to symbols.
LEMMA TextIs ==
    ASSUME NEW text \in Text
    PROVE  /\ Len(text) \in Nat /\ DOMAIN text = 1 .. Len(text)
           /\ \A k \in 1 .. Len(text) : text[k] \in Symbols
BY LenProperties, ElementOfSeq DEF Text

\* One symbol more.
LEMMA TextAppended ==
    ASSUME NEW a \in Text, NEW b \in Text, NEW s \in Symbols
    PROVE  a \o Append(b, s) = Append(a \o b, s) /\ Append(a, s) \in Text
<1>1. \A S : \A x, y \in Seq(S) : \A z \in S :
         x \o Append(y, z) = Append(x \o y, z) /\ Append(x, z) \in Seq(S)
  OBVIOUS
<1> QED
  BY <1>1, Zenon DEF Text

Widths == [s \in Symbols |-> Width(s)]

\* strlen adds up widths.
LEMMA StrlenSum ==
    ASSUME NEW text \in Text
    PROVE  /\ Widths \in [Symbols -> Nat]
           /\ strlen(text) = SumOver(Widths, text)
<1> DEFINE n == Len(text)
           w == [k \in 1 .. n |-> Widths[text[k]]]
           Body(g) == [r \in SUBSET DOMAIN text |->
                          IF r = {} THEN 0 ELSE g[r \ {Max(r)}] + Width(text[Max(r)])]
           fold == CHOOSE g : g = Body(g)
<1>1. strlen(text) = fold[DOMAIN text]
  BY DEF strlen, FoldLeft, MapThenFoldSet
<1>2. Widths \in [Symbols -> Nat]
  <2>1. \A s : Width(s) \in Nat
    BY DEF Width, WordLength
  <2> QED
    BY <2>1 DEF Widths
<1>3. n \in Nat /\ DOMAIN text = 1 .. n /\ w \in [1 .. n -> Nat]
      /\ \A k \in 1 .. n : w[k] = Width(text[k])
  BY <1>2, TextIs DEF Widths
<1>4. ASSUME NEW g
      PROVE  Body(g) = SumBody(g, w, n)
  <2>1. ASSUME NEW r \in SUBSET (1 .. n), r # {}
        PROVE  w[Max(r)] = Width(text[Max(r)])
    BY <1>3, <2>1, MaxOfInterval
  <2> QED
    BY <1>3, <2>1 DEF SumBody
<1> HIDE DEF w, n, Body
<1>5. fold = SumBody(fold, w, n)
  <2>1. \E g : g = Body(g)
    BY <1>3, <1>4, SumExists
  <2> QED
    BY <1>4, <2>1
<1>6. Sums(fold[1 .. n], w, n)
  BY <1>3, <1>5, FoldSums
<1> QED
  BY <1>1, <1>2, <1>3, <1>6, SumOverIs DEF w, n, Text

\* The length of a text is a number, and of none 0.
LEMMA StrlenType ==
    /\ \A text \in Text : strlen(text) \in Nat
    /\ strlen(<< >>) = 0
<1>1. \A text \in Text : strlen(text) \in Nat
  <2> TAKE text \in Text
  <2>1. strlen(text) = SumOver(Widths, text) /\ Widths \in [Symbols -> Nat]
    BY StrlenSum
  <2> QED
    BY <2>1, SumOverIs DEF Text
<1>2. strlen(<< >>) = 0
  <2>1. << >> \in Text
    BY TextLiterals
  <2>2. strlen(<< >>) = SumOver(Widths, << >>) /\ Widths \in [Symbols -> Nat]
    BY <2>1, StrlenSum
  <2> QED
    BY <2>2, SumOfEmpty
<1> QED
  BY <1>1, <1>2

\* Joining texts adds their lengths.
LEMMA StrlenJoined ==
    ASSUME NEW a \in Text, NEW b \in Text
    PROVE  strlen(a \o b) = strlen(a) + strlen(b)
<1> DEFINE T == {n \in Nat : \A c \in Text : Len(c) = n => strlen(a \o c) = strlen(a) + strlen(c)}
<1>1. 0 \in T
  <2>1. ASSUME NEW c \in Text, Len(c) = 0
        PROVE  strlen(a \o c) = strlen(a) + strlen(c)
    <3>1. c = << >> /\ a \o << >> = a
      BY <2>1, EmptySeq, ConcatEmptySeq DEF Text
    <3> QED
      BY <3>1, StrlenType
  <2> QED
    BY <2>1
<1>2. ASSUME NEW n \in Nat, n \in T
      PROVE  n + 1 \in T
  <2>1. ASSUME NEW c \in Text, Len(c) = n + 1
        PROVE  strlen(a \o c) = strlen(a) + strlen(c)
    <3> DEFINE front == SubSeq(c, 1, n)
               last  == c[n + 1]
    <3>1. front \in Text /\ Len(front) = n /\ last \in Symbols /\ c = Append(front, last)
      <4>1. /\ front \in Seq(Symbols) /\ Len(front) = n /\ last \in Symbols
            /\ \A i \in 1 .. n : front[i] = c[i]
        BY <2>1 DEF Text
      <4>2. /\ Append(front, last) \in Seq(Symbols) /\ Len(Append(front, last)) = n + 1
            /\ \A i \in 1 .. n : Append(front, last)[i] = front[i]
            /\ Append(front, last)[n + 1] = last
        BY <4>1
      <4>3. \A i \in 1 .. n + 1 : Append(front, last)[i] = c[i]
        <5>1. \A i \in 1 .. n + 1 : i \in 1 .. n \/ i = n + 1
          OBVIOUS
        <5> QED
          BY <4>1, <4>2, <5>1
      <4> HIDE DEF front, last
      <4> QED
        BY <2>1, <4>1, <4>2, <4>3, SeqEqual DEF Text
    <3> HIDE DEF front, last
    <3>2. a \o c = Append(a \o front, last)
      BY <3>1, TextAppended
    <3>3. a \o front \in Text
      BY <3>1, TextJoined
    <3>4. strlen(a \o c) = strlen(a \o front) + Widths[last]
      <4>1. a \o c \in Text
        BY TextJoined
      <4>2. strlen(a \o c) = SumOver(Widths, Append(a \o front, last))
        BY <3>2, <4>1, StrlenSum
      <4>3. strlen(a \o front) = SumOver(Widths, a \o front) /\ Widths \in [Symbols -> Nat]
        BY <3>3, StrlenSum
      <4> QED
        BY <3>1, <3>3, <4>2, <4>3, SumOfAppend DEF Text
    <3>5. strlen(c) = strlen(front) + Widths[last]
      BY <2>1, <3>1, StrlenSum, SumOfAppend DEF Text
    <3>6. strlen(a \o front) = strlen(a) + strlen(front)
      BY <1>2, <3>1
    <3>7. /\ strlen(a) \in Nat /\ strlen(front) \in Nat /\ Widths[last] \in Nat
      BY <3>1, StrlenType, StrlenSum
    <3> QED
      BY <3>4, <3>5, <3>6, <3>7
  <2> QED
    BY <2>1
<1>3. \A n \in Nat : n \in T
  <2> HIDE DEF T
  <2> QED
    BY <1>1, <1>2, SetInduction
<1>4. Len(b) \in Nat
  BY DEF Text
<1> QED
  BY <1>3, <1>4

-----------------------------------------------------------------------------
(* The texts that are appended.                                              *)

\* Blanks are a text,
LEMMA BlanksType ==
    ASSUME NEW n \in Nat
    PROVE  Blanks(n) \in Text
<1>1. \A S, s : s \in S => [k \in 1 .. n |-> s] \in Seq(S)
  OBVIOUS
<1>2. " " \in Symbols
  BY SerializerAssumption DEF Written
<1> QED
  BY <1>1, <1>2 DEF Blanks, Text

\* and so is an indent, with what malloc has left in it,
LEMMA IndentType ==
    ASSUME options \in Options, NEW depth \in {1, 2}
    PROVE  _make_indent(depth) \in Text
<1> USE SerializerAssumption
<1>1. options.spaces \in Nat /\ options.stale \in {<< >>, <<"w">>}
  OBVIOUS
<1>2. depth \in Nat /\ options.spaces * depth \in Nat
  BY <1>1
<1>3. Blanks(depth) \in Text /\ Blanks(options.spaces * depth) \in Text
  <2> HIDE DEF _make_indent
  <2> QED
    BY <1>2, BlanksType
<1>4. options.stale \in Text
  <2>1. "w" \in Symbols
    BY DEF Written
  <2> QED
    BY <1>1, <2>1, TextLiterals
<1> QED
  BY <1>3, <1>4, TextJoined DEF _make_indent

\* a keyword,
LEMMA KeywordType ==
    ASSUME NEW type \in FieldTypes \ {"TYPE_LIST"}
    PROVE  Keyword(type) \in Symbols
<1>1. Keyword(type) \in {"str", "bool", "i8", "u8", "i16", "u16", "i32", "u32"}
  BY DEF FieldTypes, Keyword
<1> QED
  BY <1>1, SerializerAssumption DEF Written

\* a truth value or a number,
LEMMA ValueIsText ==
    ASSUME NEW type \in FieldTypes \ {"TYPE_STRING", "TYPE_LIST"}, NEW data \in Value(type)
    PROVE  mcfg_data_to_string(type, data) \in Text
<1>1. data.bytes \in Seq(0 .. 255) /\ data.bytes # << >>
  BY DEF Value
<1>2. mcfg_data_to_string(type, data) \in Seq(Figures)
  BY <1>1, ValueText
<1>3. Figures \subseteq Symbols
  BY SerializerAssumption DEF Figures, Written
<1> QED
  BY <1>2, <1>3, SeqMonotonic DEF Text

\* and a string whose quotes have been overwritten.
LEMMA CutType ==
    ASSUME NEW text \in Text, NEW count
    PROVE  Cut(text, count) \in Text
<1> DEFINE cut == Cut(text, count)
           n == Len(text)
<1>1. n \in Nat /\ DOMAIN text = 1 .. n /\ \A k \in 1 .. n : text[k] \in Symbols
  BY TextIs
<1>2. DOMAIN cut = DOMAIN text /\ cut = [k \in DOMAIN text |-> cut[k]]
      /\ \A k \in DOMAIN text : cut[k] = text[k] \/ cut[k] = "NUL"
  BY DEF Cut
<1> HIDE DEF cut, n
<1>3. \A k \in 1 .. n : cut[k] \in Symbols
  <2>1. "NUL" \in Symbols
    BY SerializerAssumption DEF Written
  <2> QED
    BY <1>1, <1>2, <2>1
<1>4. \A S : (\A k \in 1 .. n : cut[k] \in S) => [k \in 1 .. n |-> cut[k]] \in Seq(S)
  BY <1>1
<1>5. cut \in Seq(Symbols)
  BY <1>1, <1>2, <1>3, <1>4
<1> QED
  BY <1>5 DEF cut, Text

\* What one symbol of a string does to its pieces.
Piece(pieces, s) ==
    CASE s = "'"   -> pieces \o << <<"'", "'">>, << >> >>
      [] s = "NUL" -> Append(pieces, << >>)
      [] OTHER     -> Append(Front(pieces), Append(Last(pieces), s))

\* Pieces are texts, of which there is one at least.
LEMMA PieceType ==
    ASSUME NEW pieces \in Seq(Text) \ {<< >>}, NEW s \in Symbols
    PROVE  Piece(pieces, s) \in Seq(Text) \ {<< >>}
<1>1. \A S : \A q \in Seq(S) : \A x, y \in S :
         /\ q \o <<x, y>> \in Seq(S) \ {<< >>}
         /\ Append(q, x) \in Seq(S) \ {<< >>}
         /\ q # << >> => Last(q) \in S
  BY DEF Last
<1>2. << >> \in Text /\ <<"'", "'">> \in Text
  <2>1. "'" \in Symbols
    BY SerializerAssumption DEF Written
  <2> QED
    BY <2>1, TextLiterals
<1>3. Last(pieces) \in Text
  BY <1>1
<1>4. Append(Last(pieces), s) \in Text
  BY <1>2, <1>3, TextAppended
<1>5. Front(pieces) \in Seq(Text)
  <2> DEFINE n == Len(pieces)
  <2>1. n \in Nat /\ n # 0 /\ \A k \in 1 .. n : pieces[k] \in Text
    BY EmptySeq, ElementOfSeq
  <2> HIDE DEF n
  <2>2. \A k \in 1 .. n - 1 : pieces[k] \in Text
    BY <2>1
  <2>3. 1 \in Int /\ n - 1 \in Int
    BY <2>1
  <2>4. SubSeq(pieces, 1, n - 1) \in Seq(Text)
    BY <2>2, <2>3, SubSeqProperties
  <2> QED
    BY <2>4 DEF n, Front
<1>6. CASE s = "'"
  <2>1. Piece(pieces, s) = pieces \o << <<"'", "'">>, << >> >>
    BY <1>6 DEF Piece
  <2> QED
    BY <1>1, <1>2, <2>1
<1>7. CASE s = "NUL"
  <2>1. Piece(pieces, s) = Append(pieces, << >>)
    BY <1>7 DEF Piece
  <2> QED
    BY <1>1, <1>2, <2>1
<1>8. CASE s \notin {"'", "NUL"}
  <2>1. Piece(pieces, s) = Append(Front(pieces), Append(Last(pieces), s))
    BY <1>8 DEF Piece
  <2> QED
    BY <1>1, <1>4, <1>5, <2>1
<1> QED
  BY <1>6, <1>7, <1>8

LEMMA PiecesType ==
    ASSUME NEW text \in Text
    PROVE  Pieces(text) \in Seq(Text)
<1> DEFINE n == Len(text)
           A == Seq(Text) \ {<< >>}
           step == [p \in A \X (1 .. n) |-> Piece(p[1], text[p[2]])]
           Body(g) == [s \in SUBSET DOMAIN text |->
                          IF s = {} THEN << << >> >>
                          ELSE Piece(g[s \ {Max(s)}], text[Max(s)])]
           fold == CHOOSE g : g = Body(g)
<1>1. Pieces(text) = fold[DOMAIN text]
  BY DEF Pieces, Piece, FoldLeft, MapThenFoldSet
<1>2. n \in Nat /\ DOMAIN text = 1 .. n
  BY TextIs
<1>3. << << >> >> \in A
  <2>1. \A S, x : x \in S => <<x>> \in Seq(S) \ {<< >>}
    OBVIOUS
  <2> QED
    BY <2>1, TextLiterals
<1>4. ASSUME NEW a \in A, NEW i \in 1 .. n
      PROVE  Piece(a, text[i]) \in A
  BY PieceType, TextIs
<1> HIDE DEF A
<1>5. step \in [A \X (1 .. n) -> A]
  <2>1. ASSUME NEW p \in A \X (1 .. n)
        PROVE  Piece(p[1], text[p[2]]) \in A
    <3>1. p[1] \in A /\ p[2] \in 1 .. n
      OBVIOUS
    <3> QED
      BY <1>4, <3>1
  <2> QED
    BY <2>1
<1>6. ASSUME NEW a \in A, NEW i \in 1 .. n
      PROVE  step[a, i] = Piece(a, text[i])
  OBVIOUS
<1>7. ASSUME NEW s \in SUBSET (1 .. n), s # {}
      PROVE  Max(s) \in 1 .. n
  BY <1>2, <1>7, MaxOfInterval
<1> HIDE DEF n, step
<1>8. PICK g \in [SUBSET (1 .. n) -> A] : Folds(g, << << >> >>, step, n)
  BY <1>2, <1>3, <1>5, FoldExists
<1>9. g = Body(g)
  <2>1. ASSUME NEW s \in SUBSET (1 .. n), s # {}
        PROVE  g[s] = Piece(g[s \ {Max(s)}], text[Max(s)])
    <3>1. g[s \ {Max(s)}] \in A
      BY <1>8
    <3>2. g[s] = step[g[s \ {Max(s)}], Max(s)]
      BY <1>8, <2>1 DEF Folds
    <3> QED
      BY <1>6, <1>7, <2>1, <3>1, <3>2
  <2>2. g[{}] = << << >> >>
    BY <1>8 DEF Folds
  <2> QED
    BY <1>2, <1>8, <2>1, <2>2
<1>10. PICK f : f = Body(f) /\ Pieces(text) = f[1 .. n]
  BY <1>1, <1>2, <1>9
<1>11. FoldsOver(f, A, << << >> >>, step, n)
  <2>1. f[{}] = << << >> >>
    BY <1>10
  <2>2. ASSUME NEW s \in SUBSET (1 .. n), s # {}, f[s \ {Max(s)}] \in A
        PROVE  f[s] = step[f[s \ {Max(s)}], Max(s)]
    <3>1. f[s] = Piece(f[s \ {Max(s)}], text[Max(s)])
      BY <1>2, <1>10, <2>2
    <3> QED
      BY <1>6, <1>7, <2>2, <3>1
  <2> QED
    BY <2>1, <2>2 DEF FoldsOver
<1>12. f[1 .. n] \in A
  <2>1. \A s \in SUBSET (1 .. n) : f[s] \in A
    BY <1>2, <1>3, <1>5, <1>11, FoldTyped
  <2> QED
    BY <2>1
<1>13. Pieces(text) \in A
  BY <1>10, <1>12
<1> QED
  BY <1>13 DEF A

\* Texts and symbols in order: a sequence of n steps from nothing.
LEMMA JoinExists ==
    ASSUME NEW S, NEW seqs \in Seq(Seq(S))
    PROVE  \E h \in [0 .. Len(seqs) -> Seq(S)] :
              h[0] = << >> /\ \A i \in 1 .. Len(seqs) : h[i] = h[i - 1] \o seqs[i]
<1> DEFINE n == Len(seqs)
           A == Seq(S)
           step == [p \in A \X (1 .. n) |-> p[1] \o seqs[p[2]]]
<1>1. n \in Nat /\ << >> \in A /\ \A i \in 1 .. n : seqs[i] \in A
  BY EmptySeq, LenProperties, ElementOfSeq
<1>2. step \in [A \X (1 .. n) -> A]
  <2>1. ASSUME NEW p \in A \X (1 .. n)
        PROVE  p[1] \o seqs[p[2]] \in A
    <3>1. p[1] \in A /\ seqs[p[2]] \in A
      BY <1>1
    <3> QED
      BY <3>1, ConcatProperties
  <2> QED
    BY <2>1
<1>3. ASSUME NEW a \in A, NEW i \in 1 .. n
      PROVE  step[a, i] = a \o seqs[i]
  OBVIOUS
<1> HIDE DEF n, A, step
<1>4. PICK f \in [SUBSET (1 .. n) -> A] : Folds(f, << >>, step, n)
  BY <1>1, <1>2, FoldExists
<1>5. FoldsOver(f, A, << >>, step, n)
  BY <1>4 DEF Folds, FoldsOver
<1>6. PICK h \in [0 .. n -> A] : h[0] = << >> /\ \A i \in 1 .. n : h[i] = step[h[i - 1], i]
  <2>1. Loops(f[1 .. n], A, << >>, step, n)
    BY <1>1, <1>2, <1>5, FoldIsLoop
  <2> QED
    BY <2>1 DEF Loops
<1>7. \A i \in 1 .. n : h[i] = h[i - 1] \o seqs[i]
  <2> TAKE i \in 1 .. n
  <2>1. i - 1 \in 0 .. n
    BY <1>1
  <2> QED
    BY <1>3, <1>6, <2>1
<1> QED
  BY <1>6, <1>7 DEF n, A

\* FlattenSeq takes these steps.
LEMMA FlattenIs ==
    ASSUME NEW S, NEW seqs \in Seq(Seq(S))
    PROVE  \E h \in [0 .. Len(seqs) -> Seq(S)] :
              /\ h[0] = << >> /\ h[Len(seqs)] = FlattenSeq(seqs)
              /\ \A i \in 1 .. Len(seqs) : h[i] = h[i - 1] \o seqs[i]
<1> DEFINE n == Len(seqs)
           Flat(g) == [i \in 1 .. n |-> IF i = 1 THEN seqs[i] ELSE g[i - 1] \o seqs[i]]
           flat == CHOOSE g : g = Flat(g)
<1>1. PICK h \in [0 .. n -> Seq(S)] :
        h[0] = << >> /\ \A i \in 1 .. n : h[i] = h[i - 1] \o seqs[i]
  BY JoinExists
<1>2. n \in Nat /\ \A i \in 1 .. n : seqs[i] \in Seq(S)
  BY LenProperties, ElementOfSeq
<1>3. CASE n = 0
  <2>1. seqs = << >> /\ FlattenSeq(seqs) = seqs
    BY <1>3, EmptySeq DEF FlattenSeq
  <2> QED
    BY <1>1, <1>3, <2>1
<1>4. CASE n # 0
  <2> DEFINE r == [i \in 1 .. n |-> h[i]]
  <2>1. r = Flat(r)
    <3>1. ASSUME NEW i \in 1 .. n
          PROVE  r[i] = IF i = 1 THEN seqs[i] ELSE r[i - 1] \o seqs[i]
      <4>1. CASE i = 1
        <5>1. 1 \in 1 .. n /\ 1 - 1 = 0
          BY <4>1
        <5>2. h[1] = h[0] \o seqs[1]
          BY <1>1, <5>1
        <5> QED
          BY <1>1, <1>2, <4>1, <5>1, <5>2, ConcatEmptySeq
      <4>2. CASE i # 1
        <5>1. i - 1 \in 1 .. n
          BY <1>2, <4>2
        <5> QED
          BY <1>1, <4>2, <5>1
      <4> QED
        BY <4>1, <4>2
    <3> HIDE DEF r
    <3>2. r = [i \in 1 .. n |-> r[i]]
      BY DEF r
    <3> QED
      BY <3>1, <3>2
  <2>2. flat = Flat(flat)
    <3> HIDE DEF r, Flat
    <3> QED
      BY <2>1
  <2>3. FlattenSeq(seqs) = flat[n]
    BY <1>4 DEF FlattenSeq
  <2> HIDE DEF flat
  <2>4. \A i \in 1 .. n : flat[i] = IF i = 1 THEN seqs[i] ELSE flat[i - 1] \o seqs[i]
    BY <2>2
  <2> DEFINE T == {i \in Nat : i \in 1 .. n => flat[i] = h[i]}
  <2>5. 0 \in T
    OBVIOUS
  <2>6. ASSUME NEW i \in Nat, i \in T
        PROVE  i + 1 \in T
    <3>1. CASE i = 0
      <4>1. 1 \in 1 .. n => flat[1] = seqs[1] /\ h[1] = << >> \o seqs[1]
        <5>1. 1 - 1 = 0
          OBVIOUS
        <5>2. 1 \in 1 .. n => h[1] = h[0] \o seqs[1]
          BY <1>1, <5>1
        <5> QED
          BY <1>1, <2>4, <5>2
      <4>2. 1 \in 1 .. n => << >> \o seqs[1] = seqs[1]
        BY <1>2, ConcatEmptySeq
      <4> QED
        BY <3>1, <4>1, <4>2
    <3>2. CASE i # 0 /\ i + 1 \in 1 .. n
      <4>1. i \in 1 .. n /\ i + 1 # 1 /\ (i + 1) - 1 = i
        BY <2>6, <3>2
      <4> QED
        <5>1. h[i + 1] = h[i] \o seqs[i + 1]
          BY <1>1, <3>2, <4>1
        <5>2. flat[i + 1] = flat[i] \o seqs[i + 1]
          BY <2>4, <3>2, <4>1
        <5>3. flat[i] = h[i]
          BY <2>6, <4>1
        <5>4. flat[i + 1] = h[i + 1]
          BY <5>1, <5>2, <5>3
        <5> QED
          BY <2>6, <5>4
    <3>3. CASE i # 0 /\ i + 1 \notin 1 .. n
      BY <3>3
    <3> QED
      BY <3>1, <3>2, <3>3
  <2>7. n \in T
    <3> HIDE DEF T
    <3> QED
      BY <1>2, <2>5, <2>6, SetInduction
  <2> QED
    BY <1>1, <1>2, <1>4, <2>3, <2>7
<1> QED
  BY <1>3, <1>4

\* So it joins what is a sequence of sequences of one kind.
LEMMA FlattenType ==
    ASSUME NEW S, NEW seqs \in Seq(Seq(S))
    PROVE  FlattenSeq(seqs) \in Seq(S)
<1>1. PICK h \in [0 .. Len(seqs) -> Seq(S)] : h[Len(seqs)] = FlattenSeq(seqs)
  BY FlattenIs
<1>2. Len(seqs) \in 0 .. Len(seqs)
  BY LenProperties
<1> QED
  BY <1>1, <1>2

Lens == [text \in Text |-> strlen(text)]

\* The length of texts joined is the sum of theirs.
LEMMA FlattenStrlen ==
    ASSUME NEW texts \in Seq(Text)
    PROVE  /\ FlattenSeq(texts) \in Text
           /\ Lens \in [Text -> Nat]
           /\ strlen(FlattenSeq(texts)) = SumOver(Lens, texts)
<1> DEFINE n == Len(texts)
           w == [k \in 1 .. n |-> Lens[texts[k]]]
<1>1. PICK h \in [0 .. n -> Text] :
        /\ h[0] = << >> /\ h[n] = FlattenSeq(texts)
        /\ \A i \in 1 .. n : h[i] = h[i - 1] \o texts[i]
  BY FlattenIs DEF Text
<1>2. n \in Nat /\ \A i \in 1 .. n : texts[i] \in Text
  BY LenProperties, ElementOfSeq
<1>3. Lens \in [Text -> Nat] /\ \A text \in Text : Lens[text] = strlen(text)
  BY StrlenType DEF Lens
<1> DEFINE g == [i \in 0 .. n |-> strlen(h[i])]
<1>4. g \in [0 .. n -> Nat]
  BY StrlenType
<1>5. g[0] = 0 /\ g[n] = strlen(FlattenSeq(texts))
  BY <1>1, <1>2, StrlenType
<1>6. ASSUME NEW i \in 1 .. n
      PROVE  g[i] = g[i - 1] + w[i]
  <2>1. i - 1 \in 0 .. n /\ i \in 0 .. n
    BY <1>2
  <2>2. h[i - 1] \in Text /\ texts[i] \in Text /\ h[i] = h[i - 1] \o texts[i]
    BY <1>1, <1>2, <2>1
  <2>3. strlen(h[i]) = strlen(h[i - 1]) + strlen(texts[i])
    BY <2>2, StrlenJoined
  <2> QED
    BY <1>3, <2>1, <2>2, <2>3
<1> HIDE DEF g
<1>7. Sums(g[n], w, n)
  BY <1>4, <1>5, <1>6 DEF Sums
<1>8. FlattenSeq(texts) \in Text
  BY <1>1, <1>2
<1>9. strlen(FlattenSeq(texts)) = SumOver(Lens, texts)
  BY <1>3, <1>5, <1>7, SumOverIs
<1> QED
  BY <1>3, <1>8, <1>9

-----------------------------------------------------------------------------
(* Heaps.                                                                    *)

\* A string whose text fits its block, and one that append has built.
FitString   == {a \in String : strlen(a.text) + 1 <= a.block /\ a.length <= strlen(a.text)}
BuiltString == {a \in String : /\ a.length = strlen(a.text)
                               /\ a.length + 1 <= a.block /\ a.block = a.capacity + 1}

Heaps == [strings : Seq(FitString \cup {NULL}), plain : Int, made : Nat, failing : Nat,
          crash : BOOLEAN]

\* The allocation that was to fail has been made.
Spent(m) == m.failing # 0 /\ m.failing <= m.made

\* Nothing but what is owned is there, and what was lost before; and one
\* string more, if an allocation has failed.
Kept(m, own, lost) ==
    \/ Live(m) \ own \subseteq lost
    \/ Spent(m) /\ \E x : Live(m) \ own \subseteq lost \cup {x}

Good(m, own, lost) ==
    /\ m \in Heaps
    /\ own \subseteq Live(m)
    /\ \A p \in own : m.strings[p] \in BuiltString
    /\ Kept(m, own, lost)

\* A heap with other counts.
Same(m, m0) ==
    /\ m \in Heaps
    /\ m.strings = m0.strings /\ m.failing = m0.failing /\ m.made >= m0.made

LEMMA NullIsNone == NULL \notin Nat /\ NULL \notin String
BY StoreAssumption, SerializerAssumption

LEMMA HeapIs ==
    ASSUME NEW m \in Heaps
    PROVE  /\ Len(m.strings) \in Nat /\ DOMAIN m.strings = 1 .. Len(m.strings)
           /\ Live(m) \subseteq 1 .. Len(m.strings) /\ NULL \notin Live(m)
           /\ \A p \in Live(m) : m.strings[p] \in FitString
<1>1. m.strings \in Seq(FitString \cup {NULL})
  BY DEF Heaps
<1>2. /\ Len(m.strings) \in Nat /\ DOMAIN m.strings = 1 .. Len(m.strings)
      /\ \A p \in 1 .. Len(m.strings) : m.strings[p] \in FitString \cup {NULL}
  BY <1>1, LenProperties, ElementOfSeq
<1> QED
  BY <1>2, NullIsNone DEF Live

LEMMA GoodSame ==
    ASSUME NEW m0, NEW own, NEW lost, Good(m0, own, lost), NEW m, Same(m, m0)
    PROVE  Good(m, own, lost) /\ Live(m) = Live(m0)
<1>1. Live(m) = Live(m0)
  BY DEF Live, Same
<1>2. Spent(m0) => Spent(m)
  BY DEF Spent, Same, Good, Heaps
<1> QED
  BY <1>1, <1>2 DEF Good, Kept, Same

\* Counting allocations, and a crash, leave the strings alone.
LEMMA Counting ==
    ASSUME NEW m \in Heaps, NEW n \in Int
    PROVE  /\ Same(Made(m), m) /\ Made(m).plain = m.plain /\ Made(m).crash = m.crash
           /\ Made(m).made = m.made + 1
           /\ Same(FreePlain(m, n), m) /\ FreePlain(m, n).plain = m.plain - n
           /\ FreePlain(m, n).crash = m.crash /\ FreePlain(m, n).made = m.made
           /\ Same(Crashed(m), m) /\ Crashed(m).crash /\ Crashed(m).plain = m.plain
           /\ Same(Plain(m), m) /\ Plain(m).plain = m.plain + One(Ok(m))
           /\ Plain(m).crash = m.crash /\ Plain(m).made = m.made + 1
           /\ ~Ok(m) <=> m.failing = m.made + 1
           /\ ~Ok(m) => Spent(Made(m)) /\ ~Spent(m)
<1>1. m.made \in Nat /\ m.failing \in Nat /\ m.plain \in Int /\ m.crash \in BOOLEAN
  BY DEF Heaps
<1>2. /\ Same(Made(m), m) /\ Made(m).plain = m.plain /\ Made(m).crash = m.crash
      /\ Made(m).made = m.made + 1
  BY <1>1 DEF Made, Same, Heaps
<1>3. /\ Same(FreePlain(m, n), m) /\ FreePlain(m, n).plain = m.plain - n
      /\ FreePlain(m, n).crash = m.crash /\ FreePlain(m, n).made = m.made
  BY <1>1 DEF FreePlain, Same, Heaps
<1>4. Same(Crashed(m), m) /\ Crashed(m).crash /\ Crashed(m).plain = m.plain
  <2>1. Crashed(m) \in Heaps /\ Crashed(m).crash = TRUE
    BY <1>1 DEF Crashed, Heaps
  <2>2. /\ Crashed(m).strings = m.strings /\ Crashed(m).failing = m.failing
        /\ Crashed(m).made = m.made /\ Crashed(m).plain = m.plain
    BY <1>1 DEF Crashed, Heaps
  <2>3. Same(Crashed(m), m)
    BY <1>1, <2>1, <2>2 DEF Same
  <2> QED
    BY <2>1, <2>2, <2>3, Zenon
<1>5. /\ Same(Plain(m), m) /\ Plain(m).plain = m.plain + One(Ok(m))
      /\ Plain(m).crash = m.crash /\ Plain(m).made = m.made + 1
  <2>1. CASE Ok(m)
    <3>1. Plain(m) = [Made(m) EXCEPT !.plain = @ + 1] /\ One(Ok(m)) = 1
      BY <2>1 DEF Plain, One
    <3>2. Made(m) \in Heaps
      BY <1>2 DEF Same
    <3>3. Same(Plain(m), Made(m)) /\ Plain(m).plain = Made(m).plain + 1
          /\ Plain(m).crash = Made(m).crash /\ Plain(m).made = Made(m).made
      BY <3>1, <3>2 DEF Same, Heaps
    <3> QED
      BY <1>1, <1>2, <3>1, <3>3 DEF Same
  <2>2. CASE ~Ok(m)
    BY <1>1, <1>2, <2>2 DEF Plain, One
  <2> QED
    BY <2>1, <2>2
<1>6. ~Ok(m) <=> m.failing = m.made + 1
  BY DEF Ok
<1>7. ~Ok(m) => Spent(Made(m)) /\ ~Spent(m)
  BY <1>1, <1>6 DEF Spent, Made
<1> QED
  BY <1>2, <1>3, <1>4, <1>5, <1>6, <1>7

\* What is built fits.
LEMMA BuiltFits == BuiltString \subseteq FitString
BY StrlenType DEF BuiltString, FitString, String

\* A new string is empty and built.
LEMMA NewBuilt ==
    ASSUME NEW size \in Nat
    PROVE  mcfg_string_new_sized(size) \in BuiltString
<1>1. << >> \in Text /\ strlen(<< >>) = 0
  BY TextLiterals, StrlenType
<1> QED
  BY <1>1 DEF mcfg_string_new_sized, BuiltString, String

\* Append keeps a string built.
LEMMA AppendBuilt ==
    ASSUME NEW a \in BuiltString, NEW text \in Text
    PROVE  string_append(a, text, strlen(text)) \in BuiltString
<1> DEFINE len    == strlen(text)
           size   == a.length + len + 1 + Alignment
           amount == size - (size % Alignment)
           b      == string_append(a, text, len)
<1>1. /\ a.capacity \in Nat /\ a.length \in Nat /\ a.text \in Text /\ a.block \in Nat
      /\ a \in String /\ a.length = strlen(a.text)
      /\ a.length + 1 <= a.block /\ a.block = a.capacity + 1
  BY DEF BuiltString, String
<1>2. len \in Nat
  BY StrlenType
<1> HIDE DEF len
<1>3. size \in Nat /\ size % Alignment \in 0 .. Alignment - 1
  BY <1>1, <1>2, AlignmentAssumption
<1>4. amount \in Nat /\ a.length + len + 1 < amount + 1
  BY <1>1, <1>2, <1>3, AlignmentAssumption
<1>5. a.text \o text \in Text /\ strlen(a.text \o text) = a.length + len
  BY <1>1, TextJoined, StrlenJoined DEF len
<1>6. ASSUME NEW room \in String, room.text = a.text, room.length = a.length,
             b = [room EXCEPT !.text = @ \o text, !.length = @ + len],
             a.length + len + 1 <= room.block, room.block = room.capacity + 1
      PROVE  b \in BuiltString
  <2>1. /\ b.text = a.text \o text /\ b.length = a.length + len
        /\ b.block = room.block /\ b.capacity = room.capacity
    BY <1>6 DEF String
  <2>2. b = [capacity |-> room.capacity, length |-> a.length + len,
             text |-> a.text \o text, block |-> room.block]
    BY <1>6 DEF String
  <2> HIDE DEF b
  <2>3. b \in String
    <3>1. room.capacity \in Nat /\ room.block \in Nat /\ a.length + len \in Nat
      BY <1>1, <1>2, <1>6 DEF String
    <3> QED
      BY <1>5, <2>2, <3>1 DEF String
  <2> QED
    BY <1>1, <1>2, <1>5, <1>6, <2>1, <2>3 DEF BuiltString
<1>7. CASE Grows(a, len)
  <2> DEFINE room == string_resize(a, a.length + len)
  <2>1. room = [capacity |-> amount, length |-> a.length, text |-> a.text,
                block |-> amount + 1]
    <3>1. room = [a EXCEPT !.capacity = amount, !.block = amount + 1]
      BY DEF string_resize
    <3> HIDE DEF room, amount
    <3> QED
      BY <1>1, <3>1 DEF String
  <2>2. b = [room EXCEPT !.text = @ \o text, !.length = @ + len]
    BY <1>7 DEF string_append
  <2> HIDE DEF b, amount, room
  <2>3. room \in String
    BY <1>1, <1>4, <2>1 DEF String
  <2>4. a.length + len + 1 <= room.block /\ room.block = room.capacity + 1
        /\ room.text = a.text /\ room.length = a.length
    BY <1>1, <1>2, <1>4, <2>1
  <2> QED
    BY <1>6, <2>2, <2>3, <2>4 DEF b, len
<1>8. CASE ~Grows(a, len)
  <2>1. b = [a EXCEPT !.text = @ \o text, !.length = @ + len]
    BY <1>8 DEF string_append
  <2>2. a.length + len + 1 <= a.capacity
    BY <1>1, <1>2, <1>8 DEF Grows
  <2> HIDE DEF b
  <2>3. a.length + len + 1 <= a.block
    BY <1>1, <1>2, <2>2
  <2> QED
    BY <1>1, <1>6, <2>1, <2>3 DEF b, len
<1> QED
  BY <1>7, <1>8 DEF b, len

-----------------------------------------------------------------------------
(* A string under construction.                                              *)

Errors   == {"MCFG_OK", "MCFG_MALLOC_FAIL", "MCFG_NULLPTR", "MCFG_INVALID_TYPE"}
Builders == [m : Heaps, value : Nat \cup {NULL}, err : Errors, appended : Nat]

Plus(own, value) == own \cup ({value} \ {NULL})

\* Since heap m0 a string has been under construction: what is owned besides
\* is untouched, only a failed allocation ends it, and may cost a string.
Building(w, m0, own, lost) ==
    /\ w \in Builders
    /\ w.value \notin own
    /\ Good(w.m, Plus(own, w.value), lost)
    /\ w.m.failing = m0.failing /\ w.m.plain = m0.plain /\ w.m.crash = FALSE
    /\ w.err = "MCFG_OK" => w.value # NULL
    /\ m0.failing = 0 => w.err = "MCFG_OK"

\* Behind an error there is no string.
Clean(w) == w.err # "MCFG_OK" => w.value = NULL

\* A string that is put into a heap is owned.
LEMMA PutString ==
    ASSUME NEW m, NEW own, NEW lost, Good(m, own, lost),
           NEW m2 \in Heaps, NEW p, Live(m2) = Live(m) \cup {p},
           \A q \in own \ {p} : m2.strings[q] = m.strings[q],
           m2.strings[p] \in BuiltString,
           Spent(m) => Spent(m2)
    PROVE  Good(m2, own \cup {p}, lost)
<1>1. own \cup {p} \subseteq Live(m2)
  BY DEF Good
<1>2. \A q \in own \cup {p} : m2.strings[q] \in BuiltString
  BY DEF Good
<1>3. Live(m2) \ (own \cup {p}) \subseteq Live(m) \ own
  OBVIOUS
<1>4. Kept(m2, own \cup {p}, lost)
  BY <1>3 DEF Good, Kept
<1> QED
  BY <1>1, <1>2, <1>4 DEF Good

\* A block that is freed leaves its place behind.
LEMMA SlotCleared ==
    ASSUME NEW m \in Heaps, NEW p \in Live(m)
    PROVE  [m.strings EXCEPT ![p] = NULL] \in Seq(FitString \cup {NULL})
<1>1. \A S : \A s \in Seq(S) : \A q \in DOMAIN s : \A x \in S :
         [s EXCEPT ![q] = x] \in Seq(S)
  OBVIOUS
<1>2. m.strings \in Seq(FitString \cup {NULL}) /\ p \in DOMAIN m.strings
  BY DEF Heaps, Live
<1> QED
  BY <1>1, <1>2

\* A heap with other strings.
WithStrings(m, strings) == [m EXCEPT !.strings = strings]

LEMMA StringsReplaced ==
    ASSUME NEW m \in Heaps, NEW strings \in Seq(FitString \cup {NULL}),
           NEW m2, m2 = WithStrings(m, strings)
    PROVE  /\ m2 \in Heaps /\ m2.strings = strings
           /\ m2.plain = m.plain /\ m2.made = m.made
           /\ m2.failing = m.failing /\ m2.crash = m.crash
<1>0. m2 = [m EXCEPT !.strings = strings]
  BY DEF WithStrings
<1>1. /\ m2.strings = strings /\ m2.plain = m.plain /\ m2.made = m.made
      /\ m2.failing = m.failing /\ m2.crash = m.crash
  BY <1>0 DEF Heaps
<1>2. m2 = [strings |-> strings, plain |-> m.plain, made |-> m.made,
            failing |-> m.failing, crash |-> m.crash]
  BY <1>0 DEF Heaps
<1>3. m2 \in Heaps
  BY <1>2 DEF Heaps
<1> QED
  BY <1>1, <1>3

\* What is owned may be freed.
LEMMA FreeOwned ==
    ASSUME NEW m, NEW own, NEW lost, Good(m, own, lost), NEW p \in own
    PROVE  /\ Good(Free(m, p), own \ {p}, lost)
           /\ Live(Free(m, p)) = Live(m) \ {p}
           /\ Free(m, p).failing = m.failing /\ Free(m, p).plain = m.plain
           /\ Free(m, p).crash = m.crash /\ Free(m, p).made = m.made
           /\ \A q \in own \ {p} : Free(m, p).strings[q] = m.strings[q]
<1> DEFINE f == Free(m, p)
<1>1. m \in Heaps /\ p \in Live(m) /\ own \subseteq Live(m)
  BY DEF Good
<1>2. p # NULL /\ p \in DOMAIN m.strings
  BY <1>1, HeapIs
<1>3. f = [m EXCEPT !.strings = [m.strings EXCEPT ![p] = NULL]]
  BY <1>1, <1>2 DEF Free
<1>4. [m.strings EXCEPT ![p] = NULL] \in Seq(FitString \cup {NULL})
  BY <1>1, <1>2, SlotCleared
<1>5. /\ f.strings = [m.strings EXCEPT ![p] = NULL] /\ f.failing = m.failing
      /\ f.plain = m.plain /\ f.crash = m.crash /\ f.made = m.made
      /\ f \in Heaps /\ DOMAIN f.strings = DOMAIN m.strings
  <2> HIDE DEF f
  <2>1. /\ f.strings = [m.strings EXCEPT ![p] = NULL] /\ f.failing = m.failing
        /\ f.plain = m.plain /\ f.crash = m.crash /\ f.made = m.made
        /\ f \in Heaps
    <3> DEFINE t == [m.strings EXCEPT ![p] = NULL]
    <3>1. t \in Seq(FitString \cup {NULL}) /\ f = WithStrings(m, t)
      BY <1>3, <1>4 DEF WithStrings
    <3> HIDE DEF t
    <3>2. /\ f \in Heaps /\ f.strings = t /\ f.plain = m.plain /\ f.made = m.made
          /\ f.failing = m.failing /\ f.crash = m.crash
      BY <1>1, <3>1, StringsReplaced
    <3> QED
      BY <3>2 DEF t
  <2> QED
    BY <2>1
<1>6. f \in Heaps
  BY <1>5
<1> HIDE DEF f
<1>7. \A q \in DOMAIN m.strings : f.strings[q] = IF q = p THEN NULL ELSE m.strings[q]
  BY <1>5
<1>8. Live(f) = Live(m) \ {p}
  BY <1>2, <1>5, <1>7 DEF Live
<1>9. \A q \in own \ {p} : f.strings[q] = m.strings[q]
  BY <1>1, <1>7 DEF Live
<1>10. Good(f, own \ {p}, lost)
  <2>1. Live(f) \ (own \ {p}) = Live(m) \ own
    BY <1>1, <1>8
  <2>2. Spent(m) <=> Spent(f)
    BY <1>5 DEF Spent
  <2>3. Kept(f, own \ {p}, lost)
    BY <2>1, <2>2 DEF Kept, Good
  <2>4. own \ {p} \subseteq Live(f)
    BY <1>1, <1>8
  <2>5. \A q \in own \ {p} : f.strings[q] \in BuiltString
    BY <1>9 DEF Good
  <2> QED
    BY <1>6, <2>3, <2>4, <2>5 DEF Good
<1> QED
  BY <1>5, <1>8, <1>9, <1>10 DEF f

\* Freeing anything leaves a heap.
LEMMA FreeType ==
    ASSUME NEW m \in Heaps, NEW p
    PROVE  /\ Free(m, p) \in Heaps /\ Free(m, p).failing = m.failing
           /\ Free(m, p).made = m.made
           /\ m.crash => Free(m, p).crash
<1>1. CASE p = NULL
  <2>1. Free(m, p) = m
    BY <1>1, HeapIs DEF Free
  <2> QED
    BY <2>1
<1>2. CASE p # NULL /\ p \in Live(m)
  <2> DEFINE f == Free(m, p)
  <2> DEFINE t == [m.strings EXCEPT ![p] = NULL]
  <2>2. f = WithStrings(m, t)
    BY <1>2 DEF Free, WithStrings
  <2>3. t \in Seq(FitString \cup {NULL})
    BY <1>2, SlotCleared
  <2> HIDE DEF f, t
  <2>4. f \in Heaps /\ f.failing = m.failing /\ f.made = m.made /\ f.crash = m.crash
    BY <2>2, <2>3, StringsReplaced
  <2> QED
    BY <2>4 DEF f
<1>3. CASE p # NULL /\ p \notin Live(m)
  <2>1. Free(m, p) = Crashed(m)
    BY <1>3 DEF Free
  <2>2. Same(Crashed(m), m) /\ Crashed(m).crash
    BY Counting
  <2>3. Crashed(m).made = m.made
    BY DEF Crashed, Heaps
  <2> QED
    BY <2>1, <2>2, <2>3 DEF Same
<1> QED
  BY <1>1, <1>2, <1>3

\* A new string,
LEMMA NewSizedBuilding ==
    ASSUME NEW m, NEW own, NEW lost, Good(m, own, lost), m.crash = FALSE, NEW size \in Nat
    PROVE  Building(NewSized(m, size), m, own, lost) /\ Clean(NewSized(m, size))
<1> DEFINE w == NewSized(m, size)
           s == mcfg_string_new_sized(size)
<1>1. m \in Heaps /\ own \subseteq Live(m)
  BY DEF Good
<1>2. /\ Same(Made(m), m) /\ Made(m).plain = m.plain /\ Made(m).crash = m.crash
      /\ ~Ok(m) <=> m.failing = m.made + 1
      /\ ~Ok(m) => Spent(Made(m)) /\ ~Spent(m)
      /\ Made(m) \in Heaps
  BY <1>1, Counting, 0 \in Int DEF Same
<1>3. m.made \in Nat /\ m.failing \in Nat
  BY <1>1 DEF Heaps
<1>4. CASE Ok(m)
  <2> DEFINE v  == Len(m.strings) + 1
             m2 == [Made(m) EXCEPT !.strings = Append(Made(m).strings, s)]
  <2>1. w = [m |-> m2, value |-> v, err |-> "MCFG_OK", appended |-> 0]
    BY <1>4 DEF NewSized
  <2>2. s \in BuiltString /\ s \in FitString /\ s # NULL
    BY NewBuilt, BuiltFits, NullIsNone DEF BuiltString
  <2> HIDE DEF s, w
  <2>3. Made(m).strings = m.strings
    BY <1>2 DEF Same
  <2>4. m.strings \in Seq(FitString \cup {NULL})
    BY <1>1 DEF Heaps
  <2>5. /\ Append(m.strings, s) \in Seq(FitString \cup {NULL})
        /\ DOMAIN Append(m.strings, s) = 1 .. v
        /\ Append(m.strings, s)[v] = s
        /\ \A q \in 1 .. Len(m.strings) : Append(m.strings, s)[q] = m.strings[q]
    <3>1. \A S : \A t \in Seq(S) : \A x \in S :
            /\ Append(t, x) \in Seq(S) /\ DOMAIN Append(t, x) = 1 .. Len(t) + 1
            /\ Append(t, x)[Len(t) + 1] = x
            /\ \A q \in 1 .. Len(t) : Append(t, x)[q] = t[q]
      OBVIOUS
    <3> QED
      BY <2>2, <2>4, <3>1
  <2>6. m2 = [Made(m) EXCEPT !.strings = Append(m.strings, s)]
    BY <2>3
  <2> HIDE DEF m2
  <2>7. /\ m2 \in Heaps /\ m2.strings = Append(m.strings, s) /\ m2.plain = m.plain
        /\ m2.made = Made(m).made /\ m2.failing = m.failing /\ m2.crash = FALSE
    <3>1. /\ m2 \in Heaps /\ m2.strings = Append(m.strings, s) /\ m2.plain = Made(m).plain
          /\ m2.made = Made(m).made /\ m2.failing = Made(m).failing
          /\ m2.crash = Made(m).crash
      <4> DEFINE t == Append(m.strings, s)
      <4>1. t \in Seq(FitString \cup {NULL}) /\ m2 = [Made(m) EXCEPT !.strings = t]
        BY <2>5, <2>6
      <4> DEFINE x == Made(m)
      <4>2. x \in Heaps
        BY <1>2
      <4>3. t \in Seq(FitString \cup {NULL}) /\ m2 = WithStrings(x, t)
        BY <4>1 DEF WithStrings
      <4> HIDE DEF t, x
      <4>4. /\ m2 \in Heaps /\ m2.strings = t /\ m2.plain = x.plain
            /\ m2.made = x.made /\ m2.failing = x.failing
            /\ m2.crash = x.crash
        BY <4>2, <4>3, StringsReplaced
      <4> QED
        BY <4>4 DEF t, x
    <3> QED
      BY <1>2, <3>1 DEF Same
  <2>8. /\ Len(m.strings) \in Nat /\ DOMAIN m.strings = 1 .. Len(m.strings)
        /\ Live(m) \subseteq 1 .. Len(m.strings)
    BY <1>1, HeapIs
  <2>9. Live(m2) = Live(m) \cup {v} /\ v \notin Live(m) /\ v \in Nat /\ v # NULL
    <3>1. v \in Nat /\ v \notin 1 .. Len(m.strings) /\ 1 .. v = 1 .. Len(m.strings) \cup {v}
      BY <2>8
    <3> HIDE DEF v
    <3> QED
      BY <2>2, <2>5, <2>7, <2>8, <3>1, NullIsNone DEF Live
  <2>10. Good(m2, own \cup {v}, lost)
    <3>1. Spent(m) => Spent(m2)
      <4>1. Made(m).made \in Nat /\ Made(m).made >= m.made
        BY <1>2 DEF Heaps, Same
      <4> QED
        BY <1>3, <2>7, <4>1 DEF Spent
    <3>2. m2.strings[v] \in BuiltString
      BY <2>2, <2>5, <2>7
    <3>3. \A q \in own \ {v} : m2.strings[q] = m.strings[q]
      BY <1>1, <2>5, <2>7, <2>8
    <3> HIDE DEF v
    <3> QED
      BY <2>7, <2>9, <3>1, <3>2, <3>3, PutString
  <2> HIDE DEF v
  <2>11. Plus(own, v) = own \cup {v} /\ v \notin own
    BY <1>1, <2>9 DEF Plus
  <2>12. w.m = m2 /\ w.value = v /\ w.err = "MCFG_OK" /\ w \in Builders
    BY <2>1, <2>7, <2>9 DEF Builders, Errors
  <2> QED
    BY <2>7, <2>9, <2>10, <2>11, <2>12 DEF Building, Clean, w
<1>5. CASE ~Ok(m)
  <2>1. w = [m |-> Made(m), value |-> NULL, err |-> "MCFG_MALLOC_FAIL", appended |-> 0]
    BY <1>5 DEF NewSized
  <2> HIDE DEF w
  <2>2. w.m = Made(m) /\ w.value = NULL /\ w.err = "MCFG_MALLOC_FAIL" /\ w \in Builders
    BY <1>2, <2>1 DEF Builders, Errors
  <2>3. Plus(own, NULL) = own /\ NULL \notin own
    BY <1>1, HeapIs DEF Plus
  <2>4. Good(Made(m), own, lost)
    BY <1>2, GoodSame
  <2>5. m.failing # 0
    BY <1>2, <1>3, <1>5
  <2>6. Made(m).failing = m.failing
    BY <1>2 DEF Same
  <2> QED
    BY <1>2, <2>2, <2>3, <2>4, <2>5, <2>6 DEF Building, Clean, w
<1> QED
  BY <1>4, <1>5

\* that is appended to,
LEMMA AppendTextBuilding ==
    ASSUME NEW w, NEW m0, NEW own, NEW lost, Building(w, m0, own, lost), NEW text \in Text
    PROVE  /\ Building(AppendText(w, text), m0, own, lost)
           /\ Clean(w) => Clean(AppendText(w, text))
<1> DEFINE a     == w.m.strings[w.value]
           grows == Grows(a, strlen(text))
           m     == IF grows THEN Made(w.m) ELSE w.m
           new   == AppendText(w, text)
           v     == w.value
<1>1. /\ w \in Builders /\ v \notin own /\ Good(w.m, Plus(own, v), lost)
      /\ w.m.failing = m0.failing /\ w.m.plain = m0.plain /\ w.m.crash = FALSE
      /\ w.err = "MCFG_OK" => v # NULL
      /\ m0.failing = 0 => w.err = "MCFG_OK"
  BY DEF Building
<1>2. w.m \in Heaps /\ w.value \in Nat \cup {NULL} /\ w.err \in Errors /\ w.appended \in Nat
  BY <1>1 DEF Builders
<1>3. /\ Same(Made(w.m), w.m) /\ Made(w.m).plain = w.m.plain /\ Made(w.m).crash = w.m.crash
      /\ ~Ok(w.m) <=> w.m.failing = w.m.made + 1
      /\ ~Ok(w.m) => Spent(Made(w.m)) /\ ~Spent(w.m)
  BY <1>2, Counting, 0 \in Int
<1>4. CASE w.err # "MCFG_OK"
  <2>1. new = w
    BY <1>4 DEF AppendText
  <2> HIDE DEF new
  <2> QED
    BY <2>1 DEF new
<1>5. CASE w.err = "MCFG_OK" /\ grows /\ ~Ok(w.m)
  <2>1. new = [w EXCEPT !.m = Made(w.m), !.value = NULL, !.err = "MCFG_MALLOC_FAIL"]
    BY <1>5 DEF AppendText
  <2> HIDE DEF new
  <2>2. new = [m |-> Made(w.m), value |-> NULL, err |-> "MCFG_MALLOC_FAIL",
               appended |-> w.appended]
    BY <1>1, <2>1 DEF Builders
  <2>3. new.m = Made(w.m) /\ new.value = NULL /\ new.err = "MCFG_MALLOC_FAIL"
    BY <2>2
  <2>4. new \in Builders
    BY <1>2, <1>3, <2>2 DEF Builders, Errors, Same
  <2>5. v # NULL /\ Plus(own, v) = own \cup {v}
    BY <1>1, <1>5 DEF Plus
  <2>6. own \subseteq Live(w.m) /\ \A p \in own : w.m.strings[p] \in BuiltString
    BY <1>1, <2>5 DEF Good
  <2>7. Live(w.m) \ (own \cup {v}) \subseteq lost
    BY <1>1, <1>3, <1>5, <2>5 DEF Good, Kept
  <2>8. Live(Made(w.m)) = Live(w.m)
    BY <1>3 DEF Same, Live
  <2>9. Kept(Made(w.m), own, lost)
    <3>1. Live(Made(w.m)) \ own \subseteq lost \cup {v}
      BY <2>7, <2>8
    <3> QED
      BY <1>3, <1>5, <3>1 DEF Kept
  <2>10. Good(Made(w.m), own, lost)
    BY <1>3, <2>6, <2>8, <2>9 DEF Good, Same
  <2>11. Plus(own, NULL) = own /\ NULL \notin own
    BY <1>2, <2>6, HeapIs DEF Plus
  <2>12. m0.failing # 0
    <3>1. w.m.made \in Nat
      BY <1>2 DEF Heaps
    <3> QED
      BY <1>1, <1>3, <1>5, <3>1
  <2>13. Made(w.m).failing = w.m.failing
    BY <1>3 DEF Same
  <2> QED
    BY <1>1, <1>3, <2>3, <2>4, <2>10, <2>11, <2>12, <2>13 DEF Building, Clean, new
<1>6. CASE w.err = "MCFG_OK" /\ ~(grows /\ ~Ok(w.m))
  <2> DEFINE b  == string_append(a, text, strlen(text))
             m2 == [m EXCEPT !.strings[v] = b]
  <2>1. new = [w EXCEPT !.m = m2, !.appended = @ + 1]
    BY <1>6 DEF AppendText
  <2>2. v # NULL /\ Plus(own, v) = own \cup {v}
    BY <1>1, <1>6 DEF Plus
  <2>3. v \in Live(w.m) /\ a \in BuiltString
    BY <1>1, <2>2 DEF Good
  <2>4. b \in BuiltString /\ b \in FitString /\ b # NULL
    BY <2>3, AppendBuilt, BuiltFits, NullIsNone DEF BuiltString
  <2> HIDE DEF b, new
  <2>5. /\ m \in Heaps /\ m.strings = w.m.strings /\ m.plain = w.m.plain
        /\ m.failing = w.m.failing /\ m.crash = FALSE /\ m.made >= w.m.made
    <3>1. w.m.made >= w.m.made
      BY <1>2 DEF Heaps
    <3>2. CASE grows
      BY <1>1, <1>3, <3>2 DEF Same
    <3>3. CASE ~grows
      BY <1>1, <1>2, <3>1, <3>3
    <3> QED
      BY <3>2, <3>3
  <2>6. m2 = [m EXCEPT !.strings = [w.m.strings EXCEPT ![v] = b]]
    BY <2>5
  <2> HIDE DEF m, a
  <2> DEFINE t == [w.m.strings EXCEPT ![v] = b]
  <2>7. t \in Seq(FitString \cup {NULL}) /\ DOMAIN t = DOMAIN w.m.strings
    <3>1. \A S : \A s \in Seq(S) : \A q \in DOMAIN s : \A x \in S :
             [s EXCEPT ![q] = x] \in Seq(S) /\ DOMAIN [s EXCEPT ![q] = x] = DOMAIN s
      OBVIOUS
    <3>2. w.m.strings \in Seq(FitString \cup {NULL}) /\ v \in DOMAIN w.m.strings
      BY <1>2, <2>3 DEF Heaps, Live
    <3> QED
      BY <2>4, <3>1, <3>2
  <2>8. \A q \in DOMAIN w.m.strings : t[q] = IF q = v THEN b ELSE w.m.strings[q]
    OBVIOUS
  <2> HIDE DEF t, m2
  <2>9. /\ m2 \in Heaps /\ m2.strings = t /\ m2.plain = m.plain /\ m2.made = m.made
        /\ m2.failing = m.failing /\ m2.crash = m.crash
    <3>1. m2 = WithStrings(m, t)
      BY <2>6 DEF t, WithStrings
    <3>2. m \in Heaps
      BY <2>5
    <3> QED
      BY <2>7, <3>1, <3>2, StringsReplaced
  <2>10. Live(m2) = Live(w.m) \cup {v}
    BY <2>3, <2>4, <2>7, <2>8, <2>9 DEF Live
  <2>11. m2.strings[v] \in BuiltString /\ \A q \in Plus(own, v) \ {v} : m2.strings[q] = w.m.strings[q]
    BY <1>1, <2>3, <2>4, <2>8, <2>9 DEF Live, Good
  <2>12. Spent(w.m) => Spent(m2)
    <3>1. w.m.made \in Nat /\ m.made \in Nat /\ w.m.failing \in Nat
      BY <1>2, <2>5 DEF Heaps
    <3> QED
      BY <2>5, <2>9, <3>1 DEF Spent
  <2>13. Good(m2, Plus(own, v) \cup {v}, lost)
    BY <1>1, <2>9, <2>10, <2>11, <2>12, PutString
  <2>14. Plus(own, v) \cup {v} = Plus(own, v)
    BY <2>2
  <2>15. new = [m |-> m2, value |-> v, err |-> w.err, appended |-> w.appended + 1]
    BY <1>1, <2>1 DEF Builders
  <2>16. new.m = m2 /\ new.value = v /\ new.err = "MCFG_OK" /\ new \in Builders
    BY <1>2, <1>6, <2>9, <2>15 DEF Builders
  <2> HIDE DEF v
  <2> QED
    BY <1>1, <1>6, <2>2, <2>5, <2>9, <2>13, <2>14, <2>16 DEF Building, Clean, new
<1> QED
  BY <1>4, <1>5, <1>6

\* one text after the other.
LEMMA AppendAllLoop ==
    ASSUME NEW w, NEW m0, NEW own, NEW lost, Building(w, m0, own, lost), Clean(w),
           NEW texts \in Seq(Text)
    PROVE  \E h :
               /\ h[0] = w /\ h[Len(texts)] = AppendAll(w, texts)
               /\ \A i \in 0 .. Len(texts) : Building(h[i], m0, own, lost) /\ Clean(h[i])
               /\ \A i \in 1 .. Len(texts) : h[i] = AppendText(h[i - 1], texts[i])
<1> DEFINE n == Len(texts)
           A == {x \in Builders : Building(x, m0, own, lost) /\ Clean(x)}
           step == [p \in A \X (1 .. n) |-> AppendText(p[1], texts[p[2]])]
           Body(g) == [s \in SUBSET DOMAIN texts |->
                          IF s = {} THEN w
                          ELSE AppendText(g[s \ {Max(s)}], texts[Max(s)])]
           fold == CHOOSE g : g = Body(g)
<1>1. AppendAll(w, texts) = fold[DOMAIN texts]
  BY DEF AppendAll, FoldLeft, MapThenFoldSet
<1>2. n \in Nat /\ DOMAIN texts = 1 .. n
  BY LenProperties
<1>3. w \in A
  BY DEF Building
<1>4. ASSUME NEW a \in A, NEW i \in 1 .. n
      PROVE  AppendText(a, texts[i]) \in A
  <2>1. texts[i] \in Text
    BY ElementOfSeq
  <2>2. Building(a, m0, own, lost) /\ Clean(a)
    OBVIOUS
  <2> DEFINE new == AppendText(a, texts[i])
  <2>3. Building(new, m0, own, lost) /\ Clean(new)
    BY <2>1, <2>2, AppendTextBuilding
  <2>4. new \in Builders
    BY <2>3 DEF Building
  <2> HIDE DEF new
  <2> QED
    BY <2>3, <2>4 DEF new
<1> HIDE DEF A
<1>5. step \in [A \X (1 .. n) -> A]
  <2>1. ASSUME NEW p \in A \X (1 .. n)
        PROVE  AppendText(p[1], texts[p[2]]) \in A
    <3>1. p[1] \in A /\ p[2] \in 1 .. n
      OBVIOUS
    <3> QED
      BY <1>4, <3>1
  <2> QED
    BY <2>1
<1>6. ASSUME NEW a \in A, NEW i \in 1 .. n
      PROVE  step[a, i] = AppendText(a, texts[i])
  OBVIOUS
<1>7. ASSUME NEW s \in SUBSET (1 .. n), s # {}
      PROVE  Max(s) \in 1 .. n
  BY <1>2, <1>7, MaxOfInterval
<1> HIDE DEF n, step
<1>8. PICK g \in [SUBSET (1 .. n) -> A] : Folds(g, w, step, n)
  BY <1>2, <1>3, <1>5, FoldExists
<1>9. g = Body(g)
  <2>1. ASSUME NEW s \in SUBSET (1 .. n), s # {}
        PROVE  g[s] = AppendText(g[s \ {Max(s)}], texts[Max(s)])
    <3>1. g[s \ {Max(s)}] \in A
      BY <1>8
    <3>2. g[s] = step[g[s \ {Max(s)}], Max(s)]
      BY <1>8, <2>1 DEF Folds
    <3> QED
      BY <1>6, <1>7, <2>1, <3>1, <3>2
  <2>2. g[{}] = w
    BY <1>8 DEF Folds
  <2> QED
    BY <1>2, <1>8, <2>1, <2>2
<1>10. PICK f : f = Body(f) /\ AppendAll(w, texts) = f[1 .. n]
  BY <1>1, <1>2, <1>9
<1>11. FoldsOver(f, A, w, step, n)
  <2>1. f[{}] = w
    BY <1>10
  <2>2. ASSUME NEW s \in SUBSET (1 .. n), s # {}, f[s \ {Max(s)}] \in A
        PROVE  f[s] = step[f[s \ {Max(s)}], Max(s)]
    <3>1. f[s] = AppendText(f[s \ {Max(s)}], texts[Max(s)])
      BY <1>2, <1>10, <2>2
    <3> QED
      BY <1>6, <1>7, <2>2, <3>1
  <2> QED
    BY <2>1, <2>2 DEF FoldsOver
<1>12. PICK h \in [0 .. n -> A] :
         /\ h[0] = w /\ h[n] = AppendAll(w, texts)
         /\ \A i \in 1 .. n : h[i] = step[h[i - 1], i]
  <2>1. Loops(f[1 .. n], A, w, step, n)
    BY <1>2, <1>3, <1>5, <1>11, FoldIsLoop
  <2> QED
    BY <1>10, <2>1 DEF Loops
<1>13. ASSUME NEW i \in 1 .. n
       PROVE  h[i] = AppendText(h[i - 1], texts[i])
  <2>1. i - 1 \in 0 .. n
    BY <1>2
  <2> QED
    BY <1>6, <1>12, <2>1
<1>14. \A i \in 0 .. n : Building(h[i], m0, own, lost) /\ Clean(h[i])
  BY <1>12 DEF A
<1> QED
  BY <1>12, <1>13, <1>14 DEF n

LEMMA AppendAllBuilding ==
    ASSUME NEW w, NEW m0, NEW own, NEW lost, Building(w, m0, own, lost), Clean(w),
           NEW texts \in Seq(Text)
    PROVE  Building(AppendAll(w, texts), m0, own, lost) /\ Clean(AppendAll(w, texts))
<1> DEFINE n == Len(texts)
<1>1. PICK h :
         /\ h[0] = w /\ h[Len(texts)] = AppendAll(w, texts)
         /\ \A i \in 0 .. Len(texts) : Building(h[i], m0, own, lost) /\ Clean(h[i])
         /\ \A i \in 1 .. Len(texts) : h[i] = AppendText(h[i - 1], texts[i])
  BY AppendAllLoop
<1>2. n \in Nat
  BY LenProperties
<1>3. Building(h[n], m0, own, lost) /\ Clean(h[n])
  BY <1>1, <1>2
<1> QED
  BY <1>1, <1>3

\* and, if it has come to nothing, given up.
LEMMA FreeOnErrorBuilding ==
    ASSUME NEW w, Clean(w), w \in Builders
    PROVE  FreeOnError(w) = w
<1>1. CASE w.err = "MCFG_OK"
  BY <1>1 DEF FreeOnError
<1>2. CASE w.err # "MCFG_OK"
  <2>1. w.m \in Heaps /\ w.value = NULL
    BY <1>2 DEF Clean, Builders
  <2>2. Free(w.m, w.value) = w.m
    BY <2>1, HeapIs DEF Free
  <2> QED
    BY <1>2, <2>2 DEF FreeOnError, Builders
<1> QED
  BY <1>1, <1>2

-----------------------------------------------------------------------------
(* Strings and fields.                                                       *)

\* The other counts may change under a string under construction,
LEMMA BuildingCounted ==
    ASSUME NEW w, NEW m0, NEW own, NEW lost, Building(w, m0, own, lost), NEW n \in Int,
           NEW m1, m1.failing = m0.failing, m1.plain = m0.plain - n,
           NEW new, new = [w EXCEPT !.m = FreePlain(@, n)]
    PROVE  Building(new, m1, own, lost) /\ (Clean(w) => Clean(new))
<1>1. w \in Builders /\ w.m \in Heaps
  BY DEF Building, Builders
<1>2. /\ Same(FreePlain(w.m, n), w.m) /\ FreePlain(w.m, n).plain = w.m.plain - n
      /\ FreePlain(w.m, n).crash = w.m.crash
  BY <1>1, Counting
<1>3. new = [m |-> FreePlain(w.m, n), value |-> w.value, err |-> w.err, appended |-> w.appended]
  BY <1>1 DEF Builders
<1>4. /\ new \in Builders /\ new.m = FreePlain(w.m, n)
      /\ new.value = w.value /\ new.err = w.err
  BY <1>1, <1>2, <1>3 DEF Builders, Same
<1>5. Good(new.m, Plus(own, w.value), lost)
  BY <1>2, <1>4, GoodSame DEF Building
<1>6. new.m.failing = m1.failing
  BY <1>2, <1>4 DEF Same, Building
<1>7. new.m.plain = m1.plain
  BY <1>2, <1>4 DEF Building
<1> QED
  BY <1>2, <1>4, <1>5, <1>6, <1>7 DEF Building, Clean

\* and something else that is owned may be freed.
LEMMA BuildingFreed ==
    ASSUME NEW w, NEW m0, NEW own, NEW lost, Building(w, m0, own, lost), NEW p \in own,
           NEW new, new = [w EXCEPT !.m = Free(@, p)]
    PROVE  Building(new, m0, own \ {p}, lost) /\ (Clean(w) => Clean(new))
<1>1. w \in Builders /\ w.m \in Heaps /\ Good(w.m, Plus(own, w.value), lost)
  BY DEF Building, Builders
<1>2. p \in Plus(own, w.value)
  BY DEF Plus
<1>3. /\ Good(Free(w.m, p), Plus(own, w.value) \ {p}, lost)
      /\ Free(w.m, p).failing = w.m.failing /\ Free(w.m, p).plain = w.m.plain
      /\ Free(w.m, p).crash = w.m.crash
  BY <1>1, <1>2, FreeOwned
<1>4. Plus(own, w.value) \ {p} = Plus(own \ {p}, w.value)
  BY DEF Plus, Building
<1>5. new = [m |-> Free(w.m, p), value |-> w.value, err |-> w.err, appended |-> w.appended]
  BY <1>1 DEF Builders
<1>6. /\ new \in Builders /\ new.m = Free(w.m, p)
      /\ new.value = w.value /\ new.err = w.err
  BY <1>1, <1>3, <1>5 DEF Builders, Good
<1> QED
  BY <1>3, <1>4, <1>6 DEF Building, Clean

\* The same with respect to another heap before.
LEMMA BuildingSince ==
    ASSUME NEW w, NEW m0, NEW own, NEW lost, Building(w, m0, own, lost),
           NEW m1, m1.failing = m0.failing, m1.plain = m0.plain
    PROVE  Building(w, m1, own, lost)
BY DEF Building

\* What fails for want of memory builds nothing.
LEMMA FailureBuilding ==
    ASSUME NEW m, NEW own, NEW lost, Good(m, own, lost), m.crash = FALSE,
           NEW m0, m.failing = m0.failing, m.plain = m0.plain, m0.failing # 0,
           NEW err \in Errors \ {"MCFG_OK"}
    PROVE  Building(Failure(m, err), m0, own, lost) /\ Clean(Failure(m, err))
<1> DEFINE w == Failure(m, err)
<1>1. m \in Heaps /\ own \subseteq Live(m)
  BY DEF Good
<1>2. w = [m |-> m, value |-> NULL, err |-> err, appended |-> 0]
  BY DEF Failure
<1>3. w \in Builders /\ w.m = m /\ w.value = NULL /\ w.err = err /\ err # "MCFG_OK"
  BY <1>1, <1>2 DEF Builders
<1>4. Plus(own, NULL) = own /\ NULL \notin own
  BY <1>1, HeapIs DEF Plus
<1> HIDE DEF w
<1> QED
  BY <1>3, <1>4 DEF Building, Clean, w

\* The string for a string.
LEMMA StringBuilding ==
    ASSUME NEW m, NEW own, NEW lost, Good(m, own, lost), m.crash = FALSE,
           NEW data \in Value("TYPE_STRING"), NEW r, r = _serialize_string(m, data)
    PROVE  /\ Building(r.w, m, own, lost) /\ Clean(r.w)
           /\ r.data \in Value("TYPE_STRING")
<1> DEFINE texts == << <<"'">> >> \o Pieces(data.text) \o << <<"'">> >>
           new   == NewSized(m, strlen(data.text) + 3)
           all   == AppendAll(new, texts)
<1>1. data \in [text : Text] /\ data.text \in Text
  BY DEF Value
<1>2. data # NULL
  BY <1>1, SerializerAssumption DEF Data, Value
<1>3. texts \in Seq(Text)
  <2>1. <<"'">> \in Text
    BY TextLiterals, SerializerAssumption DEF Written
  <2>2. \A S : \A x \in S : \A q \in Seq(S) : <<x>> \o q \o <<x>> \in Seq(S)
    OBVIOUS
  <2> QED
    BY <1>1, <2>1, <2>2, PiecesType
<1>4. strlen(data.text) + 3 \in Nat
  BY <1>1, StrlenType
<1>5. Building(new, m, own, lost) /\ Clean(new)
  BY <1>4, NewSizedBuilding
<1>6. CASE new.err # "MCFG_OK"
  <2>1. r = [w |-> new, data |-> data]
    BY <1>2, <1>6 DEF _serialize_string
  <2> HIDE DEF new
  <2> QED
    BY <1>5, <2>1
<1>7. CASE new.err = "MCFG_OK"
  <2>1. r = Quoted(all, texts, data)
    BY <1>2, <1>7 DEF _serialize_string
  <2> HIDE DEF new, texts
  <2>2. Building(all, m, own, lost) /\ Clean(all)
    BY <1>3, <1>5, AppendAllBuilding
  <2> HIDE DEF all
  <2>3. FreeOnError(all) = all
    BY <2>2, FreeOnErrorBuilding DEF Building
  <2>4. PICK n : r = [w |-> FreeOnError(all), data |-> [text |-> Cut(data.text, n)]]
    BY <2>1 DEF Quoted
  <2>5. Cut(data.text, n) \in Text
    BY <1>1, CutType
  <2>6. r.w = all /\ r.data = [text |-> Cut(data.text, n)]
    BY <2>3, <2>4
  <2> QED
    BY <2>2, <2>5, <2>6 DEF Value
<1> QED
  BY <1>6, <1>7

\* The pointer that is returned has been freed.
Dangling(w, m0) ==
    /\ w \in Builders /\ w.err # "MCFG_OK"
    /\ w.m.failing = m0.failing
    /\ w.value # NULL /\ w.value \notin Live(w.m)

\* Without data there is none.
LEMMA StringWithoutData ==
    ASSUME NEW m, NEW own, NEW lost, Good(m, own, lost), m.crash = FALSE,
           NEW r, r = _serialize_string(m, NULL)
    PROVE  /\ r.data = NULL /\ r.w.err # "MCFG_OK"
           /\ \/ Building(r.w, m, own, lost) /\ Clean(r.w)
              \/ Dangling(r.w, m)
<1> DEFINE new   == NewSized(m, strlen(<< >>) + 3)
           given2 == [new EXCEPT !.err = "MCFG_MALLOC_FAIL"]
<1>1. strlen(<< >>) + 3 \in Nat
  BY StrlenType
<1>2. Building(new, m, own, lost) /\ Clean(new)
  BY <1>1, NewSizedBuilding
<1>3. CASE new.err # "MCFG_OK"
  <2>1. r = [w |-> new, data |-> NULL]
    BY <1>3 DEF _serialize_string
  <2> HIDE DEF new
  <2> QED
    BY <1>2, <1>3, <2>1
<1>4. CASE new.err = "MCFG_OK"
  <2>1. r = [w |-> FreeOnError(given2), data |-> NULL]
    BY <1>4 DEF _serialize_string
  <2> HIDE DEF new
  <2>2. /\ new \in Builders /\ new.value # NULL /\ Good(new.m, Plus(own, new.value), lost)
        /\ new.m.failing = m.failing
    BY <1>2, <1>4 DEF Building
  <2>3. given2 = [m |-> new.m, value |-> new.value, err |-> "MCFG_MALLOC_FAIL",
                 appended |-> new.appended]
    BY <2>2 DEF Builders
  <2> HIDE DEF given2
  <2>4. FreeOnError(given2) = [given2 EXCEPT !.m = Free(new.m, new.value)]
    BY <2>3 DEF FreeOnError
  <2>5. r.w = [m |-> Free(new.m, new.value), value |-> new.value, err |-> "MCFG_MALLOC_FAIL",
               appended |-> new.appended]
    BY <2>1, <2>3, <2>4
  <2>6. new.value \in Plus(own, new.value)
    BY <2>2 DEF Plus
  <2>7. /\ Good(Free(new.m, new.value), Plus(own, new.value) \ {new.value}, lost)
        /\ Live(Free(new.m, new.value)) = Live(new.m) \ {new.value}
        /\ Free(new.m, new.value).failing = new.m.failing
    BY <2>2, <2>6, FreeOwned
  <2>8. r.w \in Builders
    BY <2>2, <2>5, <2>7 DEF Builders, Errors, Good
  <2>9. Dangling(r.w, m)
    BY <2>2, <2>5, <2>7, <2>8 DEF Dangling
  <2>10. r.data = NULL
    BY <2>1
  <2> QED
    BY <2>5, <2>9, <2>10
<1> QED
  BY <1>3, <1>4

\* A call that ends the program.
Broken(w, m0) == w \in Builders /\ w.m.failing = m0.failing /\ w.m.crash = TRUE

\* A field is written, fails for want of memory, or ends the program; without
\* a failing allocation that takes a field without data.
Writes(field, w, m0, own, lost) ==
    \/ Building(w, m0, own, lost) /\ Clean(w)
    \/ Broken(w, m0) /\ (field.data # NULL => m0.failing # 0)

\* The same of a function that leaves the data of its field alone.
WritesOnly(field, r, m0, own, lost) ==
    Writes(field, r.w, m0, own, lost) /\ r.data = field.data

LEMMA CrashBreaks ==
    ASSUME NEW m \in Heaps, NEW m0, m.failing = m0.failing
    PROVE  Broken(Failure(Crashed(m), "MCFG_OK"), m0)
<1> DEFINE w == Failure(Crashed(m), "MCFG_OK")
<1>1. Crashed(m) \in Heaps /\ Crashed(m).failing = m.failing
  BY Counting, 0 \in Int DEF Same
<1>2. Crashed(m).crash = TRUE
  BY DEF Crashed, Heaps
<1>3. w = [m |-> Crashed(m), value |-> NULL, err |-> "MCFG_OK", appended |-> 0]
  BY DEF Failure
<1> HIDE DEF w
<1>4. w \in Builders /\ w.m = Crashed(m)
  BY <1>1, <1>3 DEF Builders, Errors
<1> QED
  BY <1>1, <1>2, <1>4 DEF Broken, w

\* The field around its value.
LEMMA AroundBuilding ==
    ASSUME options \in Options, NEW m, NEW own, NEW lost, Good(m, own, lost), m.crash = FALSE,
           NEW name \in Text, NEW value,
           \/ Building(value.w, Plain(m), own, lost) /\ Clean(value.w)
           \/ Dangling(value.w, Plain(m)),
           NEW r, r = AroundString(name, value, Ok(m))
    PROVE  /\ r.data = value.data
           /\ \/ Building(r.w, m, own, lost) /\ Clean(r.w)
              \/ Broken(r.w, m) /\ value.w.err # "MCFG_OK"
<1> DEFINE v     == value.w
           block == v.m.strings[v.value]
           size  == 4 + strlen(name) + block.length
           texts == <<_make_indent(2), <<"str", " ">>, name, <<" ">>, block.text>>
           build == AppendAll(NewSized(v.m, size), texts)
           n     == One(Ok(m))
           w     == CASE v.err # "MCFG_OK" -> Failure(v.m, v.err)
                      [] v.err = "MCFG_OK" /\ ~Ok(m) -> Failure(v.m, "MCFG_MALLOC_FAIL")
                      [] OTHER -> FreeOnError(build)
<1>1. r = [w |-> [w EXCEPT !.m = FreePlain(Free(@, v.value), n)], data |-> value.data]
  BY DEF AroundString
<1> HIDE DEF w
<1>2. m \in Heaps
  BY DEF Good
<1>3. /\ Plain(m).failing = m.failing /\ Plain(m).plain = m.plain + n
      /\ ~Ok(m) <=> m.failing = m.made + 1
      /\ n \in Int /\ m.plain \in Int /\ m.made \in Nat /\ m.failing \in Nat
  <2>1. /\ Same(Plain(m), m) /\ Plain(m).plain = m.plain + One(Ok(m))
        /\ ~Ok(m) <=> m.failing = m.made + 1
    BY <1>2, Counting, 0 \in Int
  <2>2. n \in Int
    BY DEF One
  <2>3. m.plain \in Int /\ m.made \in Nat /\ m.failing \in Nat
    BY <1>2 DEF Heaps
  <2> QED
    BY <2>1, <2>2, <2>3 DEF Same
<1> HIDE DEF n
<1>4. n \in Int /\ m.failing = Plain(m).failing /\ m.plain = Plain(m).plain - n
  BY <1>3
<1>5. ASSUME NEW own2, Building(w, Plain(m), own2, lost), Clean(w), v.value \in own2,
             own2 \ {v.value} = own
      PROVE  Building(r.w, m, own, lost) /\ Clean(r.w)
  <2> DEFINE x == [w EXCEPT !.m = Free(@, v.value)]
             y == [x EXCEPT !.m = FreePlain(@, n)]
  <2>1. Building(x, Plain(m), own, lost) /\ Clean(x)
    BY <1>5, BuildingFreed
  <2>2. r.w = y
    <3>1. w \in Builders
      BY <1>5 DEF Building
    <3>2. x = [m |-> Free(w.m, v.value), value |-> w.value, err |-> w.err, appended |-> w.appended]
      BY <3>1 DEF Builders
    <3>3. r.w = [w EXCEPT !.m = FreePlain(Free(w.m, v.value), n)]
      BY <1>1
    <3>4. r.w = [m |-> FreePlain(Free(w.m, v.value), n), value |-> w.value, err |-> w.err,
                 appended |-> w.appended]
      BY <3>1, <3>3 DEF Builders
    <3> HIDE DEF x
    <3> QED
      BY <3>2, <3>4
  <2> HIDE DEF x
  <2>3. Building(y, m, own, lost) /\ Clean(y)
    BY <1>4, <2>1, BuildingCounted
  <2> QED
    BY <2>2, <2>3
<1>6. r.data = value.data
  BY <1>1
<1>7. CASE Building(v, Plain(m), own, lost) /\ Clean(v) /\ v.err = "MCFG_OK"
  <2> DEFINE own2 == own \cup {v.value}
  <2>1. /\ v \in Builders /\ v.value \notin own /\ v.value # NULL
        /\ Good(v.m, Plus(own, v.value), lost) /\ v.m.crash = FALSE
        /\ v.m.failing = Plain(m).failing /\ v.m.plain = Plain(m).plain
    BY <1>7 DEF Building
  <2>2. Plus(own, v.value) = own2 /\ v.value \in own2 /\ own2 \ {v.value} = own
    BY <2>1 DEF Plus
  <2>3. Good(v.m, own2, lost)
    BY <2>1, <2>2
  <2>4. CASE ~Ok(m)
    <3>1. w = Failure(v.m, "MCFG_MALLOC_FAIL")
      BY <1>7, <2>4 DEF w
    <3>2. Plain(m).failing # 0
      BY <1>3, <2>4
    <3>3. "MCFG_MALLOC_FAIL" \in Errors \ {"MCFG_OK"}
      BY DEF Errors
    <3> HIDE DEF own2
    <3>4. Building(w, Plain(m), own2, lost) /\ Clean(w)
      BY <2>1, <2>3, <3>1, <3>2, <3>3, FailureBuilding
    <3> QED
      BY <1>5, <1>6, <2>2, <3>4
  <2>5. CASE Ok(m)
    <3>1. w = FreeOnError(build)
      BY <1>7, <2>5 DEF w
    <3>2. block \in BuiltString
      BY <2>2, <2>3 DEF Good
    <3>3. block.length \in Nat /\ block.text \in Text
      BY <3>2 DEF BuiltString, String
    <3>4. size \in Nat
      <4>1. strlen(name) \in Nat
        BY StrlenType
      <4> HIDE DEF block
      <4> QED
        BY <3>3, <4>1
    <3>5. texts \in Seq(Text)
      <4>1. _make_indent(2) \in Text
        BY IndentType
      <4>2. <<"str", " ">> \in Text /\ <<" ">> \in Text
        BY TextLiterals, SerializerAssumption DEF Written
      <4>3. \A S : \A a, b, c, d, e \in S : <<a, b, c, d, e>> \in Seq(S)
        OBVIOUS
      <4> HIDE DEF block, _make_indent
      <4> QED
        BY <3>3, <4>1, <4>2, <4>3
    <3> HIDE DEF size, texts, own2, v
    <3>6. Building(NewSized(v.m, size), v.m, own2, lost) /\ Clean(NewSized(v.m, size))
      BY <2>1, <2>3, <3>4, NewSizedBuilding
    <3>7. Building(build, v.m, own2, lost) /\ Clean(build)
      BY <3>5, <3>6, AppendAllBuilding
    <3>8. w = build
      BY <3>1, <3>7, FreeOnErrorBuilding DEF Building
    <3> HIDE DEF build
    <3>9. Building(w, Plain(m), own2, lost) /\ Clean(w)
      BY <2>1, <3>7, <3>8, BuildingSince
    <3> QED
      BY <1>5, <1>6, <2>2, <3>9
  <2> QED
    BY <2>4, <2>5
<1>8. CASE Building(v, Plain(m), own, lost) /\ Clean(v) /\ v.err # "MCFG_OK"
  <2>1. /\ v \in Builders /\ v.value = NULL /\ Good(v.m, Plus(own, NULL), lost)
        /\ v.m.crash = FALSE /\ Plain(m).failing # 0
        /\ v.m.failing = Plain(m).failing /\ v.m.plain = Plain(m).plain
    BY <1>8 DEF Building, Clean
  <2>2. w = Failure(v.m, v.err)
    BY <1>8 DEF w
  <2>3. v.m \in Heaps /\ v.err \in Errors \ {"MCFG_OK"} /\ Plus(own, NULL) = own
    BY <1>8, <2>1 DEF Builders, Plus
  <2> HIDE DEF v
  <2>4. Building(w, Plain(m), own, lost) /\ Clean(w)
    BY <2>1, <2>2, <2>3, FailureBuilding
  <2>5. w.m = v.m /\ w \in Builders
    BY <2>2, <2>4 DEF Failure, Building
  <2>6. Free(w.m, v.value) = w.m
    BY <2>1, <2>3, <2>5, HeapIs DEF Free
  <2>7. r.w = [w EXCEPT !.m = FreePlain(@, n)]
    BY <1>1, <2>5, <2>6 DEF Builders
  <2>8. Building(r.w, m, own, lost) /\ Clean(r.w)
    BY <1>4, <2>4, <2>7, BuildingCounted
  <2> QED
    BY <1>6, <2>8
<1>9. CASE Dangling(v, Plain(m))
  <2>1. /\ v \in Builders /\ v.err # "MCFG_OK" /\ v.m.failing = Plain(m).failing
        /\ v.value # NULL /\ v.value \notin Live(v.m)
    BY <1>9 DEF Dangling
  <2>2. w = Failure(v.m, v.err)
    BY <2>1 DEF w
  <2>3. v.m \in Heaps /\ v.err \in Errors
    BY <2>1 DEF Builders
  <2> HIDE DEF v
  <2>4. w = [m |-> v.m, value |-> NULL, err |-> v.err, appended |-> 0]
    BY <2>2 DEF Failure
  <2>5. Free(v.m, v.value) = Crashed(v.m)
    BY <2>1 DEF Free
  <2> DEFINE c == Crashed(v.m)
             f == FreePlain(c, n)
  <2>6. c \in Heaps /\ c.crash = TRUE /\ c.failing = v.m.failing
    <3>1. c \in Heaps /\ c.failing = v.m.failing
      BY <2>3, Counting, 0 \in Int DEF Same
    <3>2. c.crash = TRUE
      BY <2>3 DEF Crashed, Heaps
    <3> QED
      BY <3>1, <3>2
  <2> HIDE DEF c
  <2>7. f \in Heaps /\ f.crash = c.crash /\ f.failing = c.failing
    BY <1>3, <2>6, Counting DEF Same
  <2>8. r.w = [m |-> f, value |-> NULL, err |-> v.err, appended |-> 0]
    BY <1>1, <2>4, <2>5 DEF c
  <2> HIDE DEF f
  <2>9. r.w \in Builders /\ r.w.m = f
    BY <2>3, <2>7, <2>8 DEF Builders
  <2>10. Broken(r.w, m)
    BY <1>3, <2>1, <2>6, <2>7, <2>9 DEF Broken
  <2> QED
    BY <1>6, <2>1, <2>10 DEF v
<1> QED
  BY <1>7, <1>8, <1>9

\* A string field,
LEMMA StringFieldBuilding ==
    ASSUME options \in Options, NEW m, NEW own, NEW lost, Good(m, own, lost), m.crash = FALSE,
           NEW field, field.name.base \in Text, field.data \in {NULL} \cup Value("TYPE_STRING"),
           NEW r, r = serialize_string_field(m, field)
    PROVE  /\ Writes(field, r.w, m, own, lost)
           /\ r.data \in {NULL} \cup Value("TYPE_STRING")
           /\ field.data # NULL => r.data # NULL
<1> DEFINE value == _serialize_string(Plain(m), field.data)
<1>1. r = AroundString(field.name.base, value, Ok(m))
  BY DEF serialize_string_field
<1> HIDE DEF value
<1>2. m \in Heaps
  BY DEF Good
<1>3. Same(Plain(m), m) /\ Plain(m).crash = m.crash
  BY <1>2, Counting, 0 \in Int
<1>4. Good(Plain(m), own, lost) /\ Plain(m).crash = FALSE
  BY <1>3, GoodSame
<1>5. NULL \notin Value("TYPE_STRING")
  BY SerializerAssumption DEF Data
<1>6. CASE field.data \in Value("TYPE_STRING")
  <2>1. Building(value.w, Plain(m), own, lost) /\ Clean(value.w) /\ value.data \in Value("TYPE_STRING")
    BY <1>4, <1>6, StringBuilding DEF value
  <2>2. /\ r.data = value.data
        /\ \/ Building(r.w, m, own, lost) /\ Clean(r.w)
           \/ Broken(r.w, m) /\ value.w.err # "MCFG_OK"
    <3>1. \/ Building(value.w, Plain(m), own, lost) /\ Clean(value.w)
          \/ Dangling(value.w, Plain(m))
      BY <2>1
    <3> QED
      BY <1>1, <3>1, AroundBuilding
  <2>3. value.w.err # "MCFG_OK" => m.failing # 0
    BY <1>3, <2>1 DEF Building, Same
  <2> QED
    BY <1>5, <2>1, <2>2, <2>3 DEF Writes
<1>7. CASE field.data = NULL
  <2>1. /\ value.data = NULL
        /\ \/ Building(value.w, Plain(m), own, lost) /\ Clean(value.w)
           \/ Dangling(value.w, Plain(m))
    BY <1>4, <1>7, StringWithoutData DEF value
  <2>2. /\ r.data = value.data
        /\ \/ Building(r.w, m, own, lost) /\ Clean(r.w)
           \/ Broken(r.w, m)
    <3>1. \/ Building(value.w, Plain(m), own, lost) /\ Clean(value.w)
          \/ Dangling(value.w, Plain(m))
      BY <2>1
    <3>2. /\ r.data = value.data
          /\ \/ Building(r.w, m, own, lost) /\ Clean(r.w)
             \/ Broken(r.w, m) /\ value.w.err # "MCFG_OK"
      BY <1>1, <3>1, AroundBuilding
    <3> QED
      BY <3>2
  <2> QED
    BY <1>7, <2>1, <2>2 DEF Writes
<1> QED
  BY <1>6, <1>7

\* a number,
LEMMA NumberFieldBuilding ==
    ASSUME options \in Options, NEW m, NEW own, NEW lost, Good(m, own, lost), m.crash = FALSE,
           NEW field, field.name.base \in Text,
           field.type \in FieldTypes \ {"TYPE_STRING", "TYPE_LIST"},
           field.data \in {NULL} \cup Value(field.type),
           NEW r, r = serialize_number_field(m, field)
    PROVE  WritesOnly(field, r, m, own, lost)
<1> DEFINE indent == _make_indent(2)
           m1     == Plain(m)
           m2     == Plain(m1)
           text   == mcfg_data_to_string(field.type, field.data)
           head   == <<Keyword(field.type), " ">>
           size   == strlen(indent) + strlen(head) + strlen(field.name.base) + strlen(text) + 3
           texts  == <<indent, head, field.name.base, <<" ">>, text>>
           build  == AppendAll(NewSized(m2, size), texts)
           w      == IF Ok(m1) THEN FreeOnError(build) ELSE Failure(m2, "MCFG_MALLOC_FAIL")
           n      == 1 + One(Ok(m1))
<1>1. r = [w    |-> IF field.data = NULL \/ ~Ok(m) THEN Failure(Crashed(m1), "MCFG_OK")
                    ELSE [w EXCEPT !.m = FreePlain(@, n)],
           data |-> field.data]
  BY DEF serialize_number_field
<1> HIDE DEF w, n
<1>2. m \in Heaps /\ m.made \in Nat /\ m.failing \in Nat /\ m.plain \in Int
  BY DEF Good, Heaps
<1>3. /\ Same(m1, m) /\ m1.plain = m.plain + One(Ok(m)) /\ m1.crash = m.crash
      /\ ~Ok(m) <=> m.failing = m.made + 1
  BY <1>2, Counting, 0 \in Int
<1>4. m1 \in Heaps /\ m1.made \in Nat /\ m1.failing = m.failing
  BY <1>3 DEF Same, Heaps
<1> HIDE DEF m1
<1>5. /\ Same(m2, m1) /\ m2.plain = m1.plain + One(Ok(m1)) /\ m2.crash = m1.crash
      /\ ~Ok(m1) <=> m1.failing = m1.made + 1
  BY <1>4, Counting, 0 \in Int
<1>6. m2 \in Heaps /\ m2.failing = m.failing /\ m2.crash = FALSE
  BY <1>3, <1>4, <1>5 DEF Same
<1> HIDE DEF m2
<1>7. Good(m2, own, lost)
  BY <1>3, <1>5, GoodSame
<1>8. CASE field.data = NULL \/ ~Ok(m)
  <2>1. r.w = Failure(Crashed(m1), "MCFG_OK") /\ r.data = field.data
    BY <1>1, <1>8
  <2>2. Broken(r.w, m)
    BY <1>4, <2>1, CrashBreaks
  <2>3. ~Ok(m) => m.failing # 0
    BY <1>2, <1>3
  <2> QED
    BY <1>8, <2>1, <2>2, <2>3 DEF Writes, WritesOnly
<1>9. CASE field.data # NULL /\ Ok(m)
  <2>1. r.w = [w EXCEPT !.m = FreePlain(@, n)] /\ r.data = field.data
    BY <1>1, <1>9
  <2>2. Building(w, m2, own, lost) /\ Clean(w)
    <3>1. CASE ~Ok(m1)
      <4>1. w = Failure(m2, "MCFG_MALLOC_FAIL")
        BY <3>1 DEF w
      <4>2. "MCFG_MALLOC_FAIL" \in Errors \ {"MCFG_OK"} /\ m2.failing # 0
        BY <1>4, <1>5, <1>6, <3>1 DEF Errors
      <4> QED
        BY <1>6, <1>7, <4>1, <4>2, FailureBuilding
    <3>2. CASE Ok(m1)
      <4>1. w = FreeOnError(build)
        BY <3>2 DEF w
      <4>2. indent \in Text
        BY IndentType
      <4>3. head \in Text /\ <<" ">> \in Text
        <5>1. Keyword(field.type) \in Symbols /\ " " \in Symbols
          BY KeywordType, SerializerAssumption DEF Written
        <5> QED
          BY <5>1, TextLiterals
      <4>4. text \in Text
        BY <1>9, ValueIsText
      <4> HIDE DEF indent, head, text
      <4>5. size \in Nat
        <5>1. /\ strlen(indent) \in Nat /\ strlen(head) \in Nat
              /\ strlen(field.name.base) \in Nat /\ strlen(text) \in Nat
          BY <4>2, <4>3, <4>4, StrlenType
        <5> QED
          BY <5>1
      <4>6. texts \in Seq(Text)
        <5>1. \A S : \A a, b, c, d, e \in S : <<a, b, c, d, e>> \in Seq(S)
          OBVIOUS
        <5> QED
          BY <4>2, <4>3, <4>4, <5>1
      <4> HIDE DEF size, texts
      <4>7. Building(NewSized(m2, size), m2, own, lost) /\ Clean(NewSized(m2, size))
        BY <1>6, <1>7, <4>5, NewSizedBuilding
      <4>8. Building(build, m2, own, lost) /\ Clean(build)
        BY <4>6, <4>7, AppendAllBuilding
      <4>9. w = build
        BY <4>1, <4>8, FreeOnErrorBuilding DEF Building
      <4> QED
        BY <4>8, <4>9
    <3> QED
      BY <3>1, <3>2
  <2>3. n \in Int /\ m.failing = m2.failing /\ m.plain = m2.plain - n
    <3>1. One(Ok(m)) = 1 /\ One(Ok(m1)) \in Int
      BY <1>9 DEF One
    <3>2. m2.plain = (m.plain + 1) + One(Ok(m1)) /\ m.plain \in Int
      BY <1>2, <1>3, <1>5, <3>1
    <3> QED
      BY <1>6, <3>1, <3>2 DEF n
  <2>4. Building(r.w, m, own, lost) /\ Clean(r.w)
    BY <2>1, <2>2, <2>3, BuildingCounted
  <2> QED
    BY <2>1, <2>4 DEF Writes, WritesOnly
<1> QED
  BY <1>8, <1>9

\* a truth value.
LEMMA BoolFieldBuilding ==
    ASSUME options \in Options, NEW m, NEW own, NEW lost, Good(m, own, lost), m.crash = FALSE,
           NEW field, field.name.base \in Text, field.type = "TYPE_BOOL",
           field.data \in {NULL} \cup Value("TYPE_BOOL"),
           NEW r, r = serialize_bool_field(m, field)
    PROVE  WritesOnly(field, r, m, own, lost)
<1> DEFINE indent == _make_indent(2)
           m1     == Plain(m)
           value  == mcfg_data_to_string(field.type, field.data)
           text   == <<" ">> \o value
           size   == strlen(indent) + 5 + strlen(field.name.base) + strlen(text)
           texts  == <<indent, <<"bool", " ">>, field.name.base, text>>
           w      == AppendAll(NewSized(m1, size), texts)
<1>1. r = [w    |-> CASE ~Ok(m) -> Failure(m1, "MCFG_MALLOC_FAIL")
                      [] Ok(m) /\ field.data = NULL -> Failure(Crashed(m1), "MCFG_OK")
                      [] OTHER -> [w EXCEPT !.m = FreePlain(@, 1)],
           data |-> field.data]
  BY DEF serialize_bool_field
<1> HIDE DEF w
<1>2. m \in Heaps /\ m.made \in Nat /\ m.failing \in Nat /\ m.plain \in Int
  BY DEF Good, Heaps
<1>3. /\ Same(m1, m) /\ m1.plain = m.plain + One(Ok(m)) /\ m1.crash = m.crash
      /\ ~Ok(m) <=> m.failing = m.made + 1
  BY <1>2, Counting, 0 \in Int
<1>4. m1 \in Heaps /\ m1.failing = m.failing /\ m1.crash = FALSE
  BY <1>3 DEF Same
<1>5. Good(m1, own, lost)
  BY <1>3, GoodSame
<1>6. r.data = field.data
  BY <1>1
<1> HIDE DEF m1
<1>7. CASE ~Ok(m)
  <2>1. r.w = Failure(m1, "MCFG_MALLOC_FAIL")
    BY <1>1, <1>7
  <2>2. "MCFG_MALLOC_FAIL" \in Errors \ {"MCFG_OK"} /\ m.failing # 0
    BY <1>2, <1>3, <1>7 DEF Errors
  <2>3. m1.plain = m.plain
    BY <1>2, <1>3, <1>7 DEF One
  <2>4. Building(r.w, m, own, lost) /\ Clean(r.w)
    BY <1>4, <1>5, <2>1, <2>2, <2>3, FailureBuilding
  <2> QED
    BY <1>6, <2>4 DEF Writes, WritesOnly
<1>8. CASE Ok(m) /\ field.data = NULL
  <2>1. r.w = Failure(Crashed(m1), "MCFG_OK")
    BY <1>1, <1>8
  <2>2. Broken(r.w, m)
    BY <1>4, <2>1, CrashBreaks
  <2> QED
    BY <1>6, <1>8, <2>2 DEF Writes, WritesOnly
<1>9. CASE Ok(m) /\ field.data # NULL
  <2>1. r.w = [w EXCEPT !.m = FreePlain(@, 1)]
    BY <1>1, <1>9
  <2>2. indent \in Text
    BY IndentType
  <2>3. <<"bool", " ">> \in Text /\ <<" ">> \in Text
    BY TextLiterals, SerializerAssumption DEF Written
  <2>4. value \in Text
    <3>1. field.type \in FieldTypes \ {"TYPE_STRING", "TYPE_LIST"}
      BY DEF FieldTypes
    <3> QED
      BY <1>9, <3>1, ValueIsText
  <2> HIDE DEF indent, value
  <2>5. text \in Text
    BY <2>3, <2>4, TextJoined
  <2> HIDE DEF text
  <2>6. size \in Nat
    <3>1. strlen(indent) \in Nat /\ strlen(field.name.base) \in Nat /\ strlen(text) \in Nat
      BY <2>2, <2>5, StrlenType
    <3> QED
      BY <3>1
  <2>7. texts \in Seq(Text)
    <3>1. \A S : \A a, b, c, d \in S : <<a, b, c, d>> \in Seq(S)
      OBVIOUS
    <3> QED
      BY <2>2, <2>3, <2>5, <3>1
  <2> HIDE DEF size, texts
  <2>8. Building(NewSized(m1, size), m1, own, lost) /\ Clean(NewSized(m1, size))
    BY <1>4, <1>5, <2>6, NewSizedBuilding
  <2>9. Building(w, m1, own, lost) /\ Clean(w)
    BY <2>7, <2>8, AppendAllBuilding DEF w
  <2>10. 1 \in Int /\ m.failing = m1.failing /\ m.plain = m1.plain - 1
    BY <1>2, <1>3, <1>4, <1>9 DEF One
  <2>11. Building(r.w, m, own, lost) /\ Clean(r.w)
    BY <2>1, <2>9, <2>10, BuildingCounted
  <2> QED
    BY <1>6, <2>11 DEF Writes, WritesOnly
<1> QED
  BY <1>7, <1>8, <1>9

-----------------------------------------------------------------------------
(* Lists.                                                                    *)

\* A string to which elements are added; a number that cannot be printed ends
\* the program.
Growing(w, m0, own, lost) ==
    \/ Building(w, m0, own, lost)
    \/ Broken(w, m0) /\ w.err # "MCFG_OK" /\ m0.failing # 0

\* A string as an element,
LEMMA AppendStringBuilding ==
    ASSUME NEW w, NEW m0, NEW own, NEW lost, Building(w, m0, own, lost), w.err = "MCFG_OK",
           NEW data \in Value("TYPE_STRING"),
           NEW r, r = AppendString(w, _serialize_string(w.m, data))
    PROVE  Building(r.w, m0, own, lost) /\ r.data \in Value("TYPE_STRING")
<1> DEFINE inner == _serialize_string(w.m, data)
           i     == inner.w
           own2  == Plus(own, w.value)
<1>1. /\ w \in Builders /\ w.value \notin own /\ Good(w.m, own2, lost) /\ w.m.crash = FALSE
      /\ w.m.failing = m0.failing /\ w.m.plain = m0.plain /\ w.value # NULL
  BY DEF Building
<1>2. own2 = own \cup {w.value}
  BY <1>1 DEF Plus
<1>3. Building(i, w.m, own2, lost) /\ Clean(i) /\ inner.data \in Value("TYPE_STRING")
  <2> HIDE DEF own2
  <2> QED
    BY <1>1, StringBuilding
<1>4. /\ i \in Builders /\ i.value \notin own2 /\ Good(i.m, Plus(own2, i.value), lost)
      /\ i.m.failing = w.m.failing /\ i.m.plain = w.m.plain /\ i.m.crash = FALSE
      /\ i.err = "MCFG_OK" => i.value # NULL
      /\ w.m.failing = 0 => i.err = "MCFG_OK"
  BY <1>3 DEF Building
<1> DEFINE x == [w EXCEPT !.m = i.m]
           a == AppendText(x, i.m.strings[i.value].text)
<1>5. r = [w    |-> IF i.err # "MCFG_OK"
                    THEN [w EXCEPT !.m = Free(i.m, i.value), !.err = i.err]
                    ELSE [a EXCEPT !.m = Free(@, i.value)],
           data |-> inner.data]
  BY DEF AppendString
<1> HIDE DEF inner, a
<1>6. r.data \in Value("TYPE_STRING")
  BY <1>3, <1>5
<1>7. CASE i.err # "MCFG_OK"
  <2>1. i.value = NULL /\ i.m \in Heaps /\ i.err \in Errors
    BY <1>3, <1>4, <1>7 DEF Clean, Builders
  <2>2. Free(i.m, i.value) = i.m
    BY <2>1, HeapIs DEF Free
  <2>3. r.w = [w EXCEPT !.m = i.m, !.err = i.err]
    BY <1>5, <1>7, <2>2
  <2>4. r.w = [m |-> i.m, value |-> w.value, err |-> i.err, appended |-> w.appended]
    BY <1>1, <2>3 DEF Builders
  <2>5. r.w \in Builders /\ r.w.m = i.m /\ r.w.value = w.value /\ r.w.err = i.err
    BY <1>1, <2>1, <2>4 DEF Builders
  <2>6. Plus(own2, i.value) = own2
    BY <2>1 DEF Plus
  <2> HIDE DEF i
  <2> QED
    BY <1>1, <1>4, <1>6, <1>7, <2>5, <2>6 DEF Building
<1>8. CASE i.err = "MCFG_OK"
  <2> DEFINE v == i.value
             own3 == own \cup {v}
  <2>1. v # NULL /\ v \notin own2 /\ Plus(own2, v) = own2 \cup {v}
    BY <1>4, <1>8 DEF Plus
  <2>2. w.value \notin own3 /\ Plus(own3, w.value) = Plus(own2, v) /\ own3 \ {v} = own
    BY <1>1, <1>2, <2>1 DEF Plus
  <2>3. x = [m |-> i.m, value |-> w.value, err |-> w.err, appended |-> w.appended]
    BY <1>1 DEF Builders
  <2> HIDE DEF x
  <2>4. /\ x \in Builders /\ x.m = i.m /\ x.value = w.value /\ x.err = "MCFG_OK"
    BY <1>1, <1>4, <2>3 DEF Builders
  <2>5. Building(x, m0, own3, lost)
    BY <1>1, <1>4, <2>2, <2>4 DEF Building
  <2>6. i.m.strings[v].text \in Text
    <3>1. v \in Plus(own2, v)
      BY <2>1
    <3>2. i.m.strings[v] \in BuiltString
      BY <1>4, <3>1 DEF Good
    <3> QED
      BY <3>2 DEF BuiltString, String
  <2> HIDE DEF own3
  <2>7. Building(a, m0, own3, lost)
    BY <2>5, <2>6, AppendTextBuilding DEF a
  <2>8. v \in own3
    BY DEF own3
  <2>9. r.w = [a EXCEPT !.m = Free(@, v)]
    BY <1>5, <1>8
  <2> HIDE DEF v
  <2>10. Building(r.w, m0, own3 \ {v}, lost)
    BY <2>7, <2>8, <2>9, BuildingFreed
  <2> QED
    BY <1>6, <2>2, <2>10
<1> QED
  BY <1>7, <1>8

\* or any element.
LEMMA SerializeElementGrowing ==
    ASSUME NEW w, NEW m0, NEW own, NEW lost, Building(w, m0, own, lost), w.err = "MCFG_OK",
           NEW type \in FieldTypes \ {"TYPE_LIST"}, NEW data \in Value(type),
           NEW r, r = SerializeElement(w, type, data)
    PROVE  Growing(r.w, m0, own, lost) /\ r.data \in Value(type)
<1> DEFINE text == mcfg_data_to_string(type, data)
<1>1. /\ w \in Builders /\ Good(w.m, Plus(own, w.value), lost) /\ w.m.crash = FALSE
      /\ w.m.failing = m0.failing /\ w.m.plain = m0.plain /\ w.m \in Heaps
  BY DEF Building, Builders
<1>2. CASE type = "TYPE_STRING"
  <2>1. r = AppendString(w, _serialize_string(w.m, data))
    BY <1>2 DEF SerializeElement
  <2>2. data \in Value("TYPE_STRING")
    BY <1>2
  <2> QED
    BY <1>2, <2>1, <2>2, AppendStringBuilding DEF Growing
<1>3. CASE type # "TYPE_STRING"
  <2>1. text \in Text
    BY <1>3, ValueIsText
  <2> HIDE DEF text
  <2>2. CASE type = "TYPE_BOOL"
    <3>1. r = [w |-> AppendText(w, text), data |-> data]
      BY <2>2 DEF SerializeElement, text
    <3>2. r.w = AppendText(w, text) /\ r.data = data
      BY <3>1
    <3>3. Building(r.w, m0, own, lost)
      BY <2>1, <3>2, AppendTextBuilding
    <3> QED
      BY <3>2, <3>3 DEF Growing
  <2>3. CASE type # "TYPE_BOOL" /\ ~Ok(w.m)
    <3>1. r = [w |-> [w EXCEPT !.m = Crashed(@), !.err = "MCFG_MALLOC_FAIL"], data |-> data]
      BY <1>3, <2>3 DEF SerializeElement
    <3>2. r.w = [m |-> Crashed(w.m), value |-> w.value, err |-> "MCFG_MALLOC_FAIL",
                 appended |-> w.appended]
      <4>1. r.w = [w EXCEPT !.m = Crashed(w.m), !.err = "MCFG_MALLOC_FAIL"]
        BY <3>1
      <4> QED
        BY <1>1, <4>1 DEF Builders
    <3>3. Crashed(w.m) \in Heaps /\ Crashed(w.m).failing = w.m.failing
      BY <1>1, Counting, 0 \in Int DEF Same
    <3>4. Crashed(w.m).crash = TRUE
      BY <1>1 DEF Crashed, Heaps
    <3>5. /\ r.w \in Builders /\ r.w.m = Crashed(w.m) /\ r.w.err # "MCFG_OK"
      BY <1>1, <3>2, <3>3 DEF Builders, Errors
    <3>6. m0.failing # 0
      <4>1. w.m.made \in Nat /\ w.m.failing = w.m.made + 1
        BY <1>1, <2>3 DEF Ok, Heaps
      <4> QED
        BY <1>1, <4>1
    <3>7. r.data = data
      BY <3>1
    <3> QED
      BY <1>1, <3>3, <3>4, <3>5, <3>6, <3>7 DEF Growing, Broken
  <2>4. CASE type # "TYPE_BOOL" /\ Ok(w.m)
    <3> DEFINE x == [w EXCEPT !.m = Plain(@)]
               printed == AppendText(x, text)
    <3>1. r = [w |-> [printed EXCEPT !.m = FreePlain(@, 1)], data |-> data]
      BY <1>3, <2>4 DEF SerializeElement, text
    <3> HIDE DEF printed
    <3>2. r.w = [printed EXCEPT !.m = FreePlain(@, 1)] /\ r.data = data
      BY <3>1
    <3>3. /\ Same(Plain(w.m), w.m) /\ Plain(w.m).plain = w.m.plain + One(Ok(w.m))
          /\ Plain(w.m).crash = w.m.crash
      BY <1>1, Counting, 0 \in Int
    <3>4. Good(Plain(w.m), Plus(own, w.value), lost)
      BY <1>1, <3>3, GoodSame
    <3>5. x = [m |-> Plain(w.m), value |-> w.value, err |-> w.err, appended |-> w.appended]
      BY <1>1 DEF Builders
    <3> HIDE DEF x
    <3>6. x \in Builders /\ x.m = Plain(w.m) /\ x.value = w.value /\ x.err = w.err
      BY <1>1, <3>3, <3>5 DEF Builders, Same
    <3>7. Plain(w.m).failing = w.m.failing
      BY <3>3 DEF Same
    <3>8. Building(x, Plain(w.m), own, lost)
      BY <1>1, <3>3, <3>4, <3>6, <3>7 DEF Building
    <3>9. Building(printed, Plain(w.m), own, lost)
      BY <2>1, <3>8, AppendTextBuilding DEF printed
    <3>10. 1 \in Int /\ m0.failing = Plain(w.m).failing /\ m0.plain = Plain(w.m).plain - 1
      <4>1. w.m.plain \in Int /\ One(Ok(w.m)) = 1
        BY <1>1, <2>4 DEF Heaps, One
      <4> QED
        BY <1>1, <3>3, <3>7, <4>1
    <3>11. Building(r.w, m0, own, lost)
      BY <3>2, <3>9, <3>10, BuildingCounted
    <3> QED
      BY <3>2, <3>11 DEF Growing
  <2> QED
    BY <2>2, <2>3, <2>4
<1> QED
  BY <1>2, <1>3

\* The data of an element may be exchanged.
LEMMA ElementReplaced ==
    ASSUME NEW list \in DocList, NEW k \in DOMAIN list.elems, NEW data \in Value(list.type)
    PROVE  LET new == [list EXCEPT !.elems[k].data = data]
           IN  /\ new \in DocList /\ new.type = list.type
               /\ Len(new.elems) = Len(list.elems)
<1> DEFINE E == [name : Nat, data : Value("TYPE_STRING") \cup Value("TYPE_BOOL")]
           n == Len(list.elems)
           e == [list.elems[k] EXCEPT !.data = data]
           elems == [list.elems EXCEPT ![k] = e]
           new == [list EXCEPT !.elems[k].data = data]
<1>1. /\ list \in [type : FieldTypes, elems : Seq(E)]
      /\ \A j \in DOMAIN list.elems : list.elems[j].data \in Value(list.type)
  BY DEF DocList
<1>2. /\ list.elems \in Seq(E) /\ list.type \in FieldTypes
      /\ n \in Nat /\ DOMAIN list.elems = 1 .. n
      /\ \A j \in 1 .. n : list.elems[j] \in E
  BY <1>1, LenProperties, ElementOfSeq
<1>3. data \in Value("TYPE_STRING") \cup Value("TYPE_BOOL")
  BY DEF Value
<1>4. list.elems[k] \in E
  BY <1>2
<1>5. e = [name |-> list.elems[k].name, data |-> data]
  BY <1>4
<1>6. e \in E /\ e.data = data
  <2> HIDE DEF e
  <2> QED
    BY <1>3, <1>4, <1>5
<1> HIDE DEF E, e
<1>7. elems \in Seq(E) /\ DOMAIN elems = DOMAIN list.elems /\ Len(elems) = n
  <2>1. \A S : \A s \in Seq(S) : \A q \in DOMAIN s : \A x \in S :
          /\ [s EXCEPT ![q] = x] \in Seq(S) /\ DOMAIN [s EXCEPT ![q] = x] = DOMAIN s
          /\ Len([s EXCEPT ![q] = x]) = Len(s)
    OBVIOUS
  <2> QED
    BY <1>2, <1>6, <2>1
<1>8. \A j \in DOMAIN elems : elems[j] = IF j = k THEN e ELSE list.elems[j]
  OBVIOUS
<1>9. new = [list EXCEPT !.elems = elems]
  BY DEF e
<1> HIDE DEF elems, new
<1>10. new = [type |-> list.type, elems |-> elems]
  BY <1>1, <1>9
<1>11. new.type = list.type /\ new.elems = elems
  BY <1>10
<1>12. \A j \in DOMAIN new.elems : new.elems[j].data \in Value(new.type)
  BY <1>1, <1>6, <1>7, <1>8, <1>11
<1>13. new \in [type : FieldTypes, elems : Seq(E)]
  BY <1>2, <1>7, <1>10
<1>14. new \in DocList
  BY <1>12, <1>13 DEF DocList, E
<1> QED
  BY <1>7, <1>11, <1>14 DEF new, n

\* What one element does to the string and the list.
OneElement(list, acc, k) ==
    IF acc.w.err # "MCFG_OK" THEN acc
    ELSE WithElement(acc.list, k, SerializeElement(acc.w, list.type, list.elems[k].data))

Adding(acc, m0, own, lost, list) ==
    /\ acc \in [w : Builders, list : DocList]
    /\ Growing(acc.w, m0, own, lost)
    /\ acc.list.type = list.type /\ Len(acc.list.elems) = Len(list.elems)

LEMMA OneElementGrowing ==
    ASSUME NEW list \in DocList, list.type # "TYPE_LIST", NEW k \in DOMAIN list.elems,
           NEW acc, NEW m0, NEW own, NEW lost, Adding(acc, m0, own, lost, list)
    PROVE  Adding(OneElement(list, acc, k), m0, own, lost, list)
<1> DEFINE r == OneElement(list, acc, k)
<1>1. CASE acc.w.err # "MCFG_OK"
  <2>1. r = acc
    BY <1>1 DEF OneElement
  <2> HIDE DEF r
  <2> QED
    BY <2>1 DEF r
<1>2. CASE acc.w.err = "MCFG_OK"
  <2> DEFINE data  == list.elems[k].data
             one   == SerializeElement(acc.w, list.type, data)
             n     == Len(acc.list.elems)
             after == IF k < n THEN AppendText(one.w, <<",", " ">>) ELSE one.w
             new   == [acc.list EXCEPT !.elems[k].data = one.data]
  <2>1. r = [w |-> after, list |-> new]
    BY <1>2 DEF OneElement, WithElement
  <2> HIDE DEF r
  <2>2. Building(acc.w, m0, own, lost) /\ acc.list \in DocList
    BY <1>2 DEF Growing, Adding
  <2>3. list.type \in FieldTypes \ {"TYPE_LIST"} /\ data \in Value(list.type)
    BY DEF DocList
  <2> HIDE DEF data, one, n
  <2>4. Growing(one.w, m0, own, lost) /\ one.data \in Value(list.type)
    BY <1>2, <2>2, <2>3, SerializeElementGrowing DEF one
  <2>5. new \in DocList /\ new.type = acc.list.type /\ Len(new.elems) = Len(acc.list.elems)
    <3>1. one.data \in Value(acc.list.type) /\ k \in DOMAIN acc.list.elems
      <4>1. /\ DOMAIN acc.list.elems = 1 .. Len(acc.list.elems)
            /\ DOMAIN list.elems = 1 .. Len(list.elems)
        BY <2>2, LenProperties DEF DocList
      <4> QED
        BY <2>4, <4>1 DEF Adding
    <3> QED
      BY <2>2, <3>1, ElementReplaced
  <2> HIDE DEF new
  <2>6. <<",", " ">> \in Text
    BY TextLiterals, SerializerAssumption DEF Written
  <2>7. Growing(after, m0, own, lost)
    <3>1. CASE k < n /\ Building(one.w, m0, own, lost)
      <4>1. Building(AppendText(one.w, <<",", " ">>), m0, own, lost)
        BY <2>6, <3>1, AppendTextBuilding
      <4> QED
        BY <3>1, <4>1 DEF Growing
    <3>2. CASE k < n /\ ~Building(one.w, m0, own, lost)
      <4>1. one.w.err # "MCFG_OK"
        BY <2>4, <3>2 DEF Growing
      <4>2. after = one.w
        BY <3>2, <4>1 DEF AppendText
      <4> QED
        BY <2>4, <4>2
    <3>3. CASE ~(k < n)
      BY <2>4, <3>3
    <3> QED
      BY <3>1, <3>2, <3>3
  <2> HIDE DEF after
  <2>8. after \in Builders
    BY <2>7 DEF Growing, Building, Broken
  <2>9. /\ r.w = after /\ r.list = new /\ r \in [w : Builders, list : DocList]
    BY <2>1, <2>5, <2>8
  <2>10. r.list.type = list.type /\ Len(r.list.elems) = Len(list.elems)
    BY <2>5, <2>9 DEF Adding
  <2> QED
    BY <2>7, <2>9, <2>10 DEF Adding, r
<1> QED
  BY <1>1, <1>2

\* The elements of a list, one by one,
LEMMA SerializeElementsLoop ==
    ASSUME NEW w, NEW m0, NEW own, NEW lost, Building(w, m0, own, lost),
           NEW list \in DocList, list.type # "TYPE_LIST"
    PROVE  \E h :
               /\ h[0] = [w |-> w, list |-> list]
               /\ h[Len(list.elems)] = SerializeElements(w, list)
               /\ \A i \in 0 .. Len(list.elems) : Adding(h[i], m0, own, lost, list)
               /\ \A i \in 1 .. Len(list.elems) : h[i] = OneElement(list, h[i - 1], i)
<1> DEFINE ks  == [k \in DOMAIN list.elems |-> k]
           all == SerializeElements(w, list)
<1> DEFINE n == Len(list.elems)
           A == {x \in [w : Builders, list : DocList] : Adding(x, m0, own, lost, list)}
           step == [p \in A \X (1 .. n) |-> OneElement(list, p[1], ks[p[2]])]
           Body(g) == [s \in SUBSET DOMAIN ks |->
                          IF s = {} THEN [w |-> w, list |-> list]
                          ELSE OneElement(list, g[s \ {Max(s)}], ks[Max(s)])]
           fold == CHOOSE g : g = Body(g)
<1>1. all = fold[DOMAIN ks]
  BY DEF SerializeElements, OneElement, FoldLeft, MapThenFoldSet
<1>2. n \in Nat /\ DOMAIN ks = 1 .. n
  <2>1. DOMAIN list.elems = 1 .. Len(list.elems) /\ Len(list.elems) \in Nat
    BY LenProperties DEF DocList
  <2> QED
    BY <2>1
<1>3. [w |-> w, list |-> list] \in A
  <2>1. w \in Builders
    BY DEF Building
  <2> QED
    BY <2>1 DEF Growing, Adding
<1>4. ASSUME NEW a \in A, NEW i \in 1 .. n
      PROVE  OneElement(list, a, ks[i]) \in A
  <2>1. ks[i] \in DOMAIN list.elems /\ Adding(a, m0, own, lost, list)
    BY <1>2
  <2> DEFINE new == OneElement(list, a, ks[i])
  <2>2. Adding(new, m0, own, lost, list)
    BY <2>1, OneElementGrowing
  <2> HIDE DEF new
  <2>3. new \in A
    BY <2>2 DEF Adding, A
  <2> QED
    BY <2>3 DEF new
<1> HIDE DEF A
<1>5. step \in [A \X (1 .. n) -> A]
  <2>1. ASSUME NEW p \in A \X (1 .. n)
        PROVE  OneElement(list, p[1], ks[p[2]]) \in A
    <3>1. p[1] \in A /\ p[2] \in 1 .. n
      OBVIOUS
    <3> QED
      BY <1>4, <3>1
  <2> QED
    BY <2>1
<1>6. ASSUME NEW a \in A, NEW i \in 1 .. n
      PROVE  step[a, i] = OneElement(list, a, ks[i])
  OBVIOUS
<1>7. ASSUME NEW s \in SUBSET (1 .. n), s # {}
      PROVE  Max(s) \in 1 .. n
  BY <1>2, <1>7, MaxOfInterval
<1> HIDE DEF n, step
<1>8. PICK g \in [SUBSET (1 .. n) -> A] : Folds(g, [w |-> w, list |-> list], step, n)
  BY <1>2, <1>3, <1>5, FoldExists
<1>9. g = Body(g)
  <2>1. ASSUME NEW s \in SUBSET (1 .. n), s # {}
        PROVE  g[s] = OneElement(list, g[s \ {Max(s)}], ks[Max(s)])
    <3>1. g[s \ {Max(s)}] \in A
      BY <1>8
    <3>2. g[s] = step[g[s \ {Max(s)}], Max(s)]
      BY <1>8, <2>1 DEF Folds
    <3> QED
      BY <1>6, <1>7, <2>1, <3>1, <3>2
  <2>2. g[{}] = [w |-> w, list |-> list]
    BY <1>8 DEF Folds
  <2> QED
    BY <1>2, <1>8, <2>1, <2>2
<1>10. PICK f : f = Body(f) /\ all = f[1 .. n]
  BY <1>1, <1>2, <1>9
<1>11. FoldsOver(f, A, [w |-> w, list |-> list], step, n)
  <2>1. f[{}] = [w |-> w, list |-> list]
    BY <1>10
  <2>2. ASSUME NEW s \in SUBSET (1 .. n), s # {}, f[s \ {Max(s)}] \in A
        PROVE  f[s] = step[f[s \ {Max(s)}], Max(s)]
    <3>1. f[s] = OneElement(list, f[s \ {Max(s)}], ks[Max(s)])
      BY <1>2, <1>10, <2>2
    <3> QED
      BY <1>6, <1>7, <2>2, <3>1
  <2> QED
    BY <2>1, <2>2 DEF FoldsOver
<1>12. PICK h \in [0 .. n -> A] :
         /\ h[0] = [w |-> w, list |-> list] /\ h[n] = all
         /\ \A i \in 1 .. n : h[i] = step[h[i - 1], i]
  <2>1. Loops(f[1 .. n], A, [w |-> w, list |-> list], step, n)
    BY <1>2, <1>3, <1>5, <1>11, FoldIsLoop
  <2> QED
    BY <1>10, <2>1 DEF Loops
<1>13. ASSUME NEW i \in 1 .. n
       PROVE  h[i] = OneElement(list, h[i - 1], i)
  <2>1. i - 1 \in 0 .. n /\ ks[i] = i
    BY <1>2
  <2> QED
    BY <1>6, <1>12, <2>1
<1>14. \A i \in 0 .. n : Adding(h[i], m0, own, lost, list)
  BY <1>12 DEF A
<1> QED
  BY <1>12, <1>13, <1>14 DEF n

LEMMA SerializeElementsGrowing ==
    ASSUME NEW w, NEW m0, NEW own, NEW lost, Building(w, m0, own, lost),
           NEW list \in DocList, list.type # "TYPE_LIST",
           NEW r, r = SerializeElements(w, list)
    PROVE  Growing(r.w, m0, own, lost) /\ r.list \in DocList /\ r.list.type = list.type
<1> DEFINE n == Len(list.elems)
<1>1. PICK h :
         /\ h[0] = [w |-> w, list |-> list]
         /\ h[Len(list.elems)] = SerializeElements(w, list)
         /\ \A i \in 0 .. Len(list.elems) : Adding(h[i], m0, own, lost, list)
         /\ \A i \in 1 .. Len(list.elems) : h[i] = OneElement(list, h[i - 1], i)
  BY SerializeElementsLoop
<1>2. n \in Nat
  BY LenProperties DEF DocList
<1>3. Adding(h[n], m0, own, lost, list)
  BY <1>1, <1>2
<1> QED
  BY <1>1, <1>3 DEF Adding

\* What a call for a field comes to, unless it ends the program: a string more
\* that is owned, or an error and none; and a pointer that is returned with an
\* error is the one that was there before, or has been freed.
Done(w, m0, own, lost) ==
    /\ w \in Builders
    /\ w.m.failing = m0.failing
    /\ w.m.crash = FALSE =>
          /\ w.m.plain = m0.plain
          /\ w.err = "MCFG_OK" =>
                /\ w.value # NULL /\ w.value \notin own
                /\ Good(w.m, own \cup {w.value}, lost)
          /\ w.err # "MCFG_OK" =>
                /\ Good(w.m, own, lost)
                /\ w.value \in Live(w.m) => w.value = result.value

Succeeds(w) == w.m.crash = FALSE /\ w.err = "MCFG_OK"

LEMMA BuildingDone ==
    ASSUME NEW w, NEW m0, NEW own, NEW lost, Building(w, m0, own, lost), Clean(w)
    PROVE  Done(w, m0, own, lost) /\ (m0.failing = 0 => Succeeds(w))
<1>1. w \in Builders /\ w.m \in Heaps
  BY DEF Building, Builders
<1>2. CASE w.err = "MCFG_OK"
  <2>1. Plus(own, w.value) = own \cup {w.value}
    BY <1>2 DEF Building, Plus
  <2> QED
    BY <1>1, <1>2, <2>1 DEF Building, Done, Succeeds
<1>3. CASE w.err # "MCFG_OK"
  <2>1. w.value = NULL /\ Plus(own, w.value) = own
    BY <1>3 DEF Clean, Plus
  <2>2. NULL \notin Live(w.m)
    BY <1>1, HeapIs
  <2> QED
    BY <1>1, <1>3, <2>1, <2>2 DEF Building, Done, Succeeds
<1> QED
  BY <1>2, <1>3

LEMMA BrokenDone ==
    ASSUME NEW w, NEW m0, NEW own, NEW lost, Broken(w, m0)
    PROVE  Done(w, m0, own, lost)
BY DEF Broken, Done

\* An error that touches nothing.
LEMMA RefusedDone ==
    ASSUME NEW m, NEW own, NEW lost, Good(m, own, lost),
           NEW err \in Errors \ {"MCFG_OK"}, NEW value \in {NULL, result.value},
           value \in Nat \cup {NULL},
           NEW w, w = [m |-> m, value |-> value, err |-> err, appended |-> 0]
    PROVE  Done(w, m, own, lost)
<1>1. m \in Heaps /\ NULL \notin Live(m)
  BY HeapIs DEF Good
<1>2. w \in Builders /\ w.m = m /\ w.value = value /\ w.err = err
  BY <1>1 DEF Builders
<1> QED
  BY <1>1, <1>2 DEF Done

\* The end of a list: without an error the string is there, and behind one it
\* has been freed.
LEMMA ListWrittenDone ==
    ASSUME NEW m, NEW own, NEW lost, NEW m1, NEW all, Growing(all.w, m1, own, lost),
           m.failing = m1.failing, m.plain = m1.plain - 1,
           NEW r, r = ListWritten(all)
    PROVE  /\ Done(r.w, m, own, lost) /\ (m.failing = 0 => Succeeds(r.w))
           /\ r.data = all.list
<1> DEFINE w == all.w
           f == FreeOnError(w)
<1>1. r.w = [f EXCEPT !.m = FreePlain(@, 1)] /\ r.data = all.list
  BY DEF ListWritten
<1>2. w \in Builders /\ w.m \in Heaps
  BY DEF Growing, Building, Broken, Builders
<1> HIDE DEF w, f
<1>3. CASE Building(w, m1, own, lost) /\ w.err = "MCFG_OK"
  <2>1. f = w
    BY <1>3 DEF FreeOnError, f
  <2>2. Building(r.w, m, own, lost) /\ (Clean(w) => Clean(r.w))
    BY <1>1, <1>3, <2>1, BuildingCounted, 1 \in Int
  <2>3. Clean(w)
    BY <1>3 DEF Clean
  <2> QED
    BY <1>1, <2>2, <2>3, BuildingDone
<1>4. CASE w.err # "MCFG_OK"
  <2> DEFINE free == Free(w.m, w.value)
             h    == FreePlain(free, 1)
  <2>1. f = [m |-> free, value |-> w.value, err |-> w.err, appended |-> w.appended]
    <3>1. f = [w EXCEPT !.m = free]
      BY <1>4 DEF FreeOnError, f
    <3> HIDE DEF free
    <3> QED
      BY <1>2, <3>1 DEF Builders
  <2>2. free \in Heaps /\ free.failing = w.m.failing /\ w.m.crash => free.crash
    BY <1>2, FreeType
  <2>3. free \in Heaps /\ free.failing = w.m.failing
    BY <1>2, FreeType
  <2>4. free.plain \in Int /\ w.m.crash \in BOOLEAN /\ free.crash \in BOOLEAN
    BY <1>2, <2>3 DEF Heaps
  <2> HIDE DEF free
  <2>5. Same(h, free) /\ h.plain = free.plain - 1 /\ h.crash = free.crash
    BY <2>3, Counting, 1 \in Int
  <2> HIDE DEF h
  <2>6. r.w = [m |-> h, value |-> w.value, err |-> w.err, appended |-> w.appended]
    BY <1>1, <2>1 DEF h
  <2>7. r.w \in Builders /\ r.w.m = h /\ r.w.value = w.value /\ r.w.err = w.err
    BY <1>2, <2>5, <2>6 DEF Builders, Same
  <2>8. h.failing = w.m.failing /\ h \in Heaps
    BY <2>3, <2>5 DEF Same
  <2>9. CASE Broken(w, m1) /\ m1.failing # 0
    <3>1. free.crash = TRUE
      <4>1. w.m.crash = TRUE
        BY <2>9 DEF Broken
      <4> QED
        BY <1>2, <4>1, FreeType, <2>4 DEF free
    <3>2. Broken(r.w, m)
      BY <2>5, <2>7, <2>8, <2>9, <3>1 DEF Broken
    <3> QED
      BY <1>1, <2>9, <3>2, BrokenDone
  <2>10. CASE Building(w, m1, own, lost)
    <3>1. /\ w.value \notin own /\ Good(w.m, Plus(own, w.value), lost)
          /\ w.m.failing = m1.failing /\ w.m.plain = m1.plain /\ w.m.crash = FALSE
          /\ m1.failing # 0
      BY <1>4, <2>10 DEF Building
    <3>2. Good(free, own, lost) /\ w.value \notin Live(free)
          /\ free.plain = w.m.plain /\ free.crash = FALSE
      <4>1. CASE w.value = NULL
        <5>1. free = w.m /\ NULL \notin Live(w.m)
          BY <1>2, <4>1, HeapIs DEF Free, free
        <5>2. Plus(own, w.value) = own
          BY <4>1 DEF Plus
        <5> QED
          BY <3>1, <4>1, <5>1, <5>2
      <4>2. CASE w.value # NULL
        <5>1. w.value \in Plus(own, w.value) /\ Plus(own, w.value) \ {w.value} = own
          BY <3>1, <4>2 DEF Plus
        <5>2. /\ Good(Free(w.m, w.value), Plus(own, w.value) \ {w.value}, lost)
              /\ Live(Free(w.m, w.value)) = Live(w.m) \ {w.value}
              /\ Free(w.m, w.value).plain = w.m.plain
              /\ Free(w.m, w.value).crash = w.m.crash
          BY <3>1, <5>1, FreeOwned
        <5> QED
          BY <3>1, <5>1, <5>2 DEF free
      <4> QED
        BY <4>1, <4>2
    <3>3. Good(h, own, lost) /\ Live(h) = Live(free)
      BY <2>5, <3>2, GoodSame
    <3>4. h.plain = m.plain
      BY <2>5, <3>1, <3>2
    <3>5. Done(r.w, m, own, lost)
      BY <1>4, <2>7, <2>8, <3>1, <3>2, <3>3, <3>4 DEF Done
    <3> QED
      BY <1>1, <3>1, <3>5
  <2> QED
    BY <2>9, <2>10 DEF Growing, w
<1> QED
  BY <1>3, <1>4 DEF Growing, w

\* A list field.
LEMMA ListFieldDone ==
    ASSUME options \in Options, NEW m, NEW own, NEW lost, Good(m, own, lost), m.crash = FALSE,
           NEW field, field.name.base \in Text, field.data \in {NULL} \cup DocList,
           NEW r, r = serialize_list_field(m, field)
    PROVE  /\ Done(r.w, m, own, lost) /\ r.data \in {NULL} \cup DocList
           /\ field.data # NULL => r.data # NULL /\ r.data.type = field.data.type
           /\ field.data # NULL /\ field.data.type # "TYPE_LIST" /\ m.failing = 0 =>
                 Succeeds(r.w)
<1> DEFINE list   == field.data
           indent == _make_indent(2)
           head   == <<"list", " ", Keyword(list.type), " ">>
           m1     == Plain(m)
           size   == strlen(indent) + strlen(head) + strlen(field.name.base) + 2
           texts  == <<indent, head, field.name.base, <<" ">> >>
           opened == AppendAll(NewSized(m1, size), texts)
           all    == SerializeElements(opened, list)
           types  == FieldTypes \ {"TYPE_LIST"}
<1>1. r = CASE list = NULL -> [w |-> Failure(m, "MCFG_NULLPTR"), data |-> list]
            [] list # NULL /\ list.type \notin types ->
                  [w |-> Failure(m, "MCFG_INVALID_TYPE"), data |-> list]
            [] list # NULL /\ list.type \in types /\ ~Ok(m) ->
                  [w |-> Failure(Crashed(Made(m)), "MCFG_OK"), data |-> list]
            [] OTHER -> ListWritten(all)
  BY DEF serialize_list_field
<1> HIDE DEF all
<1>2. m \in Heaps /\ m.made \in Nat /\ m.failing \in Nat /\ m.plain \in Int
  BY DEF Good, Heaps
<1>3. NULL \notin DocList
  BY SerializerAssumption DEF Data
<1>4. CASE list = NULL
  <2>1. r.w = Failure(m, "MCFG_NULLPTR") /\ r.data = list
    BY <1>1, <1>4
  <2>2. "MCFG_NULLPTR" \in Errors \ {"MCFG_OK"}
    BY DEF Errors
  <2>3. Done(r.w, m, own, lost)
    BY <2>1, <2>2, RefusedDone DEF Failure
  <2> QED
    BY <1>4, <2>1, <2>3
<1>5. CASE list # NULL /\ list.type \notin types
  <2>1. r.w = Failure(m, "MCFG_INVALID_TYPE") /\ r.data = list
    BY <1>1, <1>5
  <2>2. "MCFG_INVALID_TYPE" \in Errors \ {"MCFG_OK"}
    BY DEF Errors
  <2>3. Done(r.w, m, own, lost)
    BY <2>1, <2>2, RefusedDone DEF Failure
  <2>4. list \in DocList /\ list.type = "TYPE_LIST"
    BY <1>5 DEF DocList
  <2> QED
    BY <1>5, <2>1, <2>3, <2>4
<1>6. CASE list # NULL /\ list.type \in types /\ ~Ok(m)
  <2>1. r.w = Failure(Crashed(Made(m)), "MCFG_OK") /\ r.data = list
    BY <1>1, <1>6
  <2>2. Made(m) \in Heaps /\ Made(m).failing = m.failing
    BY <1>2, Counting, 0 \in Int DEF Same
  <2>3. Broken(r.w, m)
    BY <2>1, <2>2, CrashBreaks
  <2>4. m.failing # 0
    BY <1>2, <1>6 DEF Ok
  <2> QED
    BY <1>6, <2>1, <2>3, <2>4, BrokenDone
<1>7. CASE list # NULL /\ list.type \in types /\ Ok(m)
  <2>1. r = ListWritten(all)
    BY <1>1, <1>7
  <2>2. /\ Same(m1, m) /\ m1.plain = m.plain + One(Ok(m)) /\ m1.crash = m.crash
    BY <1>2, Counting, 0 \in Int
  <2> HIDE DEF m1
  <2>3. Good(m1, own, lost) /\ m1.crash = FALSE /\ m1.failing = m.failing
    BY <2>2, GoodSame DEF Same
  <2>4. m.plain = m1.plain - 1
    BY <1>2, <1>7, <2>2 DEF One
  <2>5. indent \in Text
    BY IndentType
  <2>6. head \in Text /\ <<" ">> \in Text
    <3>1. Keyword(list.type) \in Symbols
      BY <1>7, KeywordType
    <3>2. "list" \in Symbols /\ " " \in Symbols
      BY SerializerAssumption DEF Written
    <3>3. \A S : \A a, b, c, d \in S : <<a, b, c, d>> \in Seq(S)
      OBVIOUS
    <3>4. <<" ">> \in Text
      BY <3>2, TextLiterals
    <3>5. head \in Seq(Symbols)
      BY <3>1, <3>2, <3>3
    <3> QED
      BY <3>4, <3>5 DEF Text
  <2> HIDE DEF indent, head
  <2>7. size \in Nat
    <3>1. strlen(indent) \in Nat /\ strlen(field.name.base) \in Nat /\ strlen(head) \in Nat
      BY <2>5, <2>6, StrlenType
    <3> QED
      BY <3>1
  <2>8. texts \in Seq(Text)
    <3>1. \A S : \A a, b, c, d \in S : <<a, b, c, d>> \in Seq(S)
      OBVIOUS
    <3> QED
      BY <2>5, <2>6, <3>1
  <2> HIDE DEF size, texts
  <2>9. Building(NewSized(m1, size), m1, own, lost) /\ Clean(NewSized(m1, size))
    BY <2>3, <2>7, NewSizedBuilding
  <2>10. Building(opened, m1, own, lost)
    BY <2>8, <2>9, AppendAllBuilding
  <2> HIDE DEF opened
  <2>11. list \in DocList /\ list.type # "TYPE_LIST"
    BY <1>7
  <2>12. Growing(all.w, m1, own, lost) /\ all.list \in DocList /\ all.list.type = list.type
    BY <2>10, <2>11, SerializeElementsGrowing DEF all
  <2>13. /\ Done(r.w, m, own, lost) /\ (m.failing = 0 => Succeeds(r.w))
         /\ r.data = all.list
    BY <2>1, <2>3, <2>4, <2>12, ListWrittenDone
  <2> QED
    BY <1>3, <2>12, <2>13
<1> QED
  BY <1>4, <1>5, <1>6, <1>7

\* Any field: a sound one is written if no allocation fails, and stays sound.
LEMMA SerializeFieldDone ==
    ASSUME options \in Options, NEW m, NEW own, NEW lost, Good(m, own, lost), m.crash = FALSE,
           result.value \in Nat \cup {NULL}, NEW field \in DocField,
           NEW r, r = SerializeField(m, field)
    PROVE  /\ Done(r.w, m, own, lost)
           /\ r.data \in {NULL} \cup DataOf(field.type)
           /\ SoundField(field) =>
                /\ r.data # NULL
                /\ field.type = "TYPE_LIST" => r.data.type = field.data.type
                /\ m.failing = 0 => Succeeds(r.w)
<1>1. /\ field.name.base \in Text /\ field.type \in FieldTypes \cup {"TYPE_INVALID"}
      /\ field.data \in {NULL} \cup DataOf(field.type)
  BY SerializerAssumption DEF DocField, Name
<1>2. m \in Heaps /\ m.failing \in Nat
  BY DEF Good, Heaps
<1>3. CASE field.type = "TYPE_STRING"
  <2>1. r = serialize_string_field(m, field)
    BY <1>3 DEF SerializeField
  <2>2. DataOf(field.type) = Value("TYPE_STRING")
    BY <1>3 DEF DataOf
  <2>3. /\ Writes(field, r.w, m, own, lost)
        /\ r.data \in {NULL} \cup Value("TYPE_STRING")
        /\ field.data # NULL => r.data # NULL
    BY <1>1, <2>1, <2>2, StringFieldBuilding
  <2>4. CASE Building(r.w, m, own, lost) /\ Clean(r.w)
    BY <1>3, <2>2, <2>3, <2>4, BuildingDone DEF SoundField
  <2>5. CASE Broken(r.w, m) /\ (field.data # NULL => m.failing # 0)
    BY <1>3, <2>2, <2>3, <2>5, BrokenDone DEF SoundField
  <2> QED
    BY <2>3, <2>4, <2>5 DEF Writes
<1>4. CASE field.type = "TYPE_LIST"
  <2>1. r = serialize_list_field(m, field)
    BY <1>4 DEF SerializeField
  <2>2. DataOf(field.type) = DocList
    BY <1>4 DEF DataOf
  <2>3. /\ Done(r.w, m, own, lost) /\ r.data \in {NULL} \cup DocList
        /\ field.data # NULL => r.data # NULL /\ r.data.type = field.data.type
        /\ field.data # NULL /\ field.data.type # "TYPE_LIST" /\ m.failing = 0 =>
              Succeeds(r.w)
    BY <1>1, <2>1, <2>2, ListFieldDone
  <2> QED
    BY <1>4, <2>2, <2>3 DEF SoundField
<1>5. CASE field.type = "TYPE_BOOL"
  <2>1. r = serialize_bool_field(m, field)
    BY <1>5 DEF SerializeField
  <2>2. DataOf(field.type) = Value("TYPE_BOOL")
    BY <1>5 DEF DataOf
  <2>3. WritesOnly(field, r, m, own, lost)
    <3>1. /\ field.data \in {NULL} \cup Value("TYPE_BOOL") /\ field.name.base \in Text
      BY <1>1, <2>2
    <3> QED
      BY <1>5, <2>1, <3>1, BoolFieldBuilding
  <2>4. CASE Building(r.w, m, own, lost) /\ Clean(r.w)
    BY <1>1, <1>5, <2>3, <2>4, BuildingDone DEF WritesOnly, SoundField
  <2>5. CASE Broken(r.w, m) /\ (field.data # NULL => m.failing # 0)
    BY <1>1, <1>5, <2>3, <2>5, BrokenDone DEF WritesOnly, SoundField
  <2> QED
    BY <2>3, <2>4, <2>5 DEF Writes, WritesOnly
<1>6. CASE field.type \in FieldTypes \ {"TYPE_STRING", "TYPE_LIST", "TYPE_BOOL"}
  <2>1. r = serialize_number_field(m, field)
    BY <1>6 DEF SerializeField
  <2>2. DataOf(field.type) = Value(field.type)
    BY <1>6 DEF DataOf
  <2>3. WritesOnly(field, r, m, own, lost)
    <3>1. /\ field.data \in {NULL} \cup Value(field.type) /\ field.name.base \in Text
          /\ field.type \in FieldTypes \ {"TYPE_STRING", "TYPE_LIST"}
      BY <1>1, <1>6, <2>2
    <3> QED
      BY <2>1, <3>1, NumberFieldBuilding
  <2>4. CASE Building(r.w, m, own, lost) /\ Clean(r.w)
    BY <1>1, <1>6, <2>3, <2>4, BuildingDone DEF WritesOnly, SoundField
  <2>5. CASE Broken(r.w, m) /\ (field.data # NULL => m.failing # 0)
    BY <1>1, <1>6, <2>3, <2>5, BrokenDone DEF WritesOnly, SoundField
  <2> QED
    BY <2>3, <2>4, <2>5 DEF Writes, WritesOnly
<1>7. CASE field.type = "TYPE_INVALID"
  <2>1. r = InvalidType(m, field) /\ field.type \notin FieldTypes
    BY <1>7 DEF SerializeField, FieldTypes
  <2>2. r.w = [m |-> m, value |-> result.value, err |-> "MCFG_INVALID_TYPE", appended |-> 0]
        /\ r.data = field.data
    BY <2>1 DEF InvalidType, Failure
  <2>3. "MCFG_INVALID_TYPE" \in Errors \ {"MCFG_OK"}
    BY DEF Errors
  <2>4. Done(r.w, m, own, lost)
    BY <2>2, <2>3, RefusedDone
  <2> QED
    BY <1>1, <2>1, <2>2, <2>4 DEF SoundField
<1> QED
  BY <1>1, <1>3, <1>4, <1>5, <1>6, <1>7

-----------------------------------------------------------------------------
(* The lists of texts.                                                       *)

PtrLists == [capacity : Nat, items : Seq(Nat), array : BOOLEAN, allow_resize : {TRUE},
             resize_align : {ListCapacity}]

\* No string is in a list twice.
Once(items) == \A i, j \in DOMAIN items : items[i] = items[j] => i = j

\* Freeing the slots in s of a list has left this: what they held has been
\* freed, each once; they are empty or gone, and the others are as they were.
Emptied(items, s, a) ==
    /\ a.fault = FALSE
    /\ a.list.array = TRUE
    /\ a.list.items \in Seq(Nat \cup {NULL})
    /\ \A j \in DOMAIN items : j > Len(a.list.items) => j \in s
    /\ \A j \in 1 .. Len(a.list.items) :
          j \in DOMAIN items /\ a.list.items[j] = IF j \in s THEN NULL ELSE items[j]
    /\ a.freed \in Seq(Nat) /\ Once(a.freed)
    /\ ToSet(a.freed) = {items[j] : j \in s}

\* What a destroyed list can be.
EmptyLists ==
    [capacity : Nat, items : Seq(Nat \cup {NULL}), array : BOOLEAN, allow_resize : {TRUE},
     resize_align : {ListCapacity}]
Emptyings == [list : EmptyLists, freed : Seq(Nat), fault : BOOLEAN]

LEMMA EmptyListWith ==
    ASSUME NEW l \in EmptyLists, l.array = TRUE, NEW items \in Seq(Nat \cup {NULL}),
           NEW m, m = [l EXCEPT !.items = items]
    PROVE  m \in EmptyLists /\ m.items = items /\ m.array = TRUE
<1>1. m = [capacity |-> l.capacity, items |-> items, array |-> l.array,
           allow_resize |-> l.allow_resize, resize_align |-> l.resize_align]
  BY DEF EmptyLists
<1> QED
  BY <1>1 DEF EmptyLists

\* To begin with nothing is freed.
LEMMA NothingFreed ==
    ASSUME NEW list \in PtrLists, list.array = TRUE, NEW a, a = Ptrs!Freed(list, << >>)
    PROVE  a \in Emptyings /\ Emptied(list.items, {}, a)
<1> DEFINE none == << >>
<1>1. a = [list |-> list, freed |-> none, fault |-> FALSE]
  BY DEF Ptrs!Freed
<1>2. none \in Seq(Nat) /\ ToSet(none) = {} /\ Once(none)
  BY EmptySeq DEF ToSet, Once
<1> HIDE DEF none
<1>3. list.items \in Seq(Nat) /\ list.items \in Seq(Nat \cup {NULL})
  BY SeqMonotonic DEF PtrLists
<1>4. /\ Len(list.items) \in Nat /\ DOMAIN list.items = 1 .. Len(list.items)
      /\ \A j \in DOMAIN list.items : ~(j > Len(list.items))
  <2>1. Len(list.items) \in Nat /\ DOMAIN list.items = 1 .. Len(list.items)
    BY <1>3, LenProperties
  <2> QED
    BY <2>1
<1>5. list \in EmptyLists
  BY <1>3 DEF PtrLists, EmptyLists
<1>6. {list.items[j] : j \in {}} = {}
  OBVIOUS
<1>7. a.fault = FALSE /\ a.list = list /\ a.freed = none
  BY <1>1
<1>8. a \in Emptyings
  <2>1. [list |-> list, freed |-> none, fault |-> FALSE] \in Emptyings
    BY <1>2, <1>5 DEF Emptyings
  <2> QED
    BY <1>1, <2>1
<1>9. ToSet(a.freed) = {list.items[j] : j \in {}}
  BY <1>2, <1>6, <1>7
<1>10. Emptied(list.items, {}, a)
  BY <1>2, <1>3, <1>4, <1>7, <1>9 DEF Emptied
<1> QED
  BY <1>8, <1>10

\* One pointer more that has not been freed yet.
LEMMA OnceMore ==
    ASSUME NEW s \in Seq(Nat), Once(s), NEW p \in Nat, p \notin ToSet(s)
    PROVE  /\ s \o <<p>> \in Seq(Nat) /\ Once(s \o <<p>>)
           /\ ToSet(s \o <<p>>) = ToSet(s) \cup {p}
<1> DEFINE n == Len(s)
           t == s \o <<p>>
<1>1. n \in Nat /\ DOMAIN s = 1 .. n
  BY LenProperties
<1>2. /\ t \in Seq(Nat) /\ Len(t) = n + 1 /\ t[n + 1] = p
      /\ \A i \in 1 .. n : t[i] = s[i]
  <2>1. t = Append(s, p)
    OBVIOUS
  <2> HIDE DEF t
  <2> QED
    BY <2>1, AppendProperties
<1>3. DOMAIN t = 1 .. n + 1 /\ \A i \in 1 .. n + 1 : i \in 1 .. n \/ i = n + 1
  BY <1>1, <1>2, LenProperties
<1> HIDE DEF t, n
<1>4. ToSet(t) = ToSet(s) \cup {p}
  BY <1>1, <1>2, <1>3 DEF ToSet
<1>5. Once(t)
  <2>1. \A i \in 1 .. n : s[i] # p
    BY <1>1 DEF ToSet
  <2> QED
    BY <1>1, <1>2, <1>3, <2>1 DEF Once
<1> QED
  BY <1>2, <1>4, <1>5 DEF t

\* One slot more.
LEMMA NextEmptied ==
    ASSUME NEW items \in Seq(Nat), Once(items), NEW s \in SUBSET DOMAIN items,
           NEW a \in Emptyings, Emptied(items, s, a), NEW k \in DOMAIN items
    PROVE  LET b == Ptrs!FreeNext(a, k)
           IN  b \in Emptyings /\ Emptied(items, s \cup {k}, b)
<1> DEFINE b    == Ptrs!FreeNext(a, k)
           l    == a.list
           n    == Len(l.items)
           item == l.items[k]
           one  == Ptrs!cptrlist_free(l, item)
           hits == Ptrs!SlotsOf(l, item)
<1>1. /\ n \in Nat /\ DOMAIN l.items = 1 .. n /\ l.array = TRUE
      /\ DOMAIN items = 1 .. Len(items) /\ Len(items) \in Nat
      /\ \A j \in DOMAIN items : items[j] \in Nat /\ items[j] # NULL
      /\ l.items \in Seq(Nat \cup {NULL}) /\ a.freed \in Seq(Nat) /\ a.fault = FALSE
  BY LenProperties, ElementOfSeq, NullIsNone DEF Emptied
<1>2. l \in EmptyLists /\ \A x : [l EXCEPT !.items = x].items = x
  <2>1. \A y \in EmptyLists : \A x : [y EXCEPT !.items = x].items = x
    BY DEF EmptyLists
  <2>2. a.list \in EmptyLists
    BY DEF Emptyings
  <2> QED
    BY <2>1, <2>2
<1>3. CASE k \in s
  <2>1. b.list = l /\ b.freed = a.freed /\ b.fault = FALSE /\ b \in Emptyings
    <3>1. CASE k > n
      <4>1. b = a
        BY <3>1 DEF Ptrs!FreeNext
      <4> QED
        BY <1>1, <4>1
    <3>2. CASE ~(k > n)
      <4>1. item = NULL
        BY <1>1, <1>3, <3>2 DEF Emptied
      <4>2. one = Ptrs!Freed(l, << >>)
        BY <4>1 DEF Ptrs!cptrlist_free
      <4>3. b = Ptrs!Freed(one.list, a.freed \o one.freed)
        BY <3>2 DEF Ptrs!FreeNext
      <4>4. one.list = l /\ one.freed = << >>
        BY <4>2 DEF Ptrs!Freed
      <4>5. b = [list |-> l, freed |-> a.freed, fault |-> FALSE]
        BY <1>1, <4>3, <4>4, ConcatEmptySeq DEF Ptrs!Freed
      <4> HIDE DEF b
      <4> QED
        BY <1>1, <4>5 DEF Emptyings
    <3> QED
      BY <3>1, <3>2
  <2>2. s \cup {k} = s
    BY <1>3
  <2> HIDE DEF b
  <2> QED
    BY <2>1, <2>2 DEF Emptied, b
<1>4. CASE k \notin s
  <2>1. k \in 1 .. n /\ ~(k > n) /\ item = items[k] /\ item \in Nat /\ item # NULL
        /\ l.items # << >> /\ n # 0
    BY <1>1, <1>4 DEF Emptied
  <2>2. hits = {k}
    <3>1. ASSUME NEW j \in 1 .. n, j # k
          PROVE  l.items[j] # item
      BY <1>1, <2>1, <3>1 DEF Emptied, Once
    <3> QED
      BY <1>1, <2>1, <3>1 DEF Ptrs!SlotsOf
  <2> DEFINE c == [j \in DOMAIN l.items |-> IF j \in hits THEN NULL ELSE l.items[j]]
             d == IF n = k THEN SubSeq(c, 1, n - 1) ELSE c
             m == [l EXCEPT !.items = d]
  <2>3. /\ c \in Seq(Nat \cup {NULL}) /\ Len(c) = n /\ DOMAIN c = 1 .. n
        /\ \A j \in 1 .. n : c[j] = IF j = k THEN NULL ELSE l.items[j]
    <3>1. \A S : \A x \in Seq(S) : \A q \in DOMAIN x : \A y \in S :
             [x EXCEPT ![q] = y] \in Seq(S) /\ Len([x EXCEPT ![q] = y]) = Len(x)
      OBVIOUS
    <3>2. c = [l.items EXCEPT ![k] = NULL]
      BY <1>1, <2>1, <2>2
    <3>3. DOMAIN c = 1 .. n /\ \A j \in 1 .. n : c[j] = IF j = k THEN NULL ELSE l.items[j]
      BY <1>1, <2>2
    <3>4. c \in Seq(Nat \cup {NULL}) /\ Len(c) = n
      BY <1>1, <2>1, <3>1, <3>2
    <3> QED
      BY <3>3, <3>4
  <2> HIDE DEF c
  <2>4. /\ d \in Seq(Nat \cup {NULL}) /\ Len(d) = IF n = k THEN n - 1 ELSE n
        /\ \A j \in 1 .. Len(d) : j \in 1 .. n /\ d[j] = IF j = k THEN NULL ELSE l.items[j]
    <3>1. CASE n = k
      <4>1. n - 1 \in Nat /\ 1 .. n - 1 \subseteq 1 .. n /\ k \notin 1 .. n - 1
        BY <1>1, <2>1, <3>1
      <4> DEFINE t == SubSeq(c, 1, n - 1)
      <4>2. \A i \in 1 .. n - 1 : c[i] \in Nat \cup {NULL}
        BY <2>3, <4>1, ElementOfSeq
      <4>3. /\ t \in Seq(Nat \cup {NULL})
            /\ Len(t) = IF 1 <= n - 1 THEN (n - 1) - 1 + 1 ELSE 0
            /\ \A j \in 1 .. (n - 1) - 1 + 1 : t[j] = c[1 + j - 1]
        BY <1>1, <2>3, <4>1, <4>2, SubSeqProperties
      <4> HIDE DEF t
      <4>4. Len(t) = n - 1 /\ \A j \in 1 .. n - 1 : t[j] = c[j]
        BY <1>1, <4>1, <4>3
      <4>5. d = t
        BY <3>1 DEF t
      <4> HIDE DEF d
      <4> QED
        BY <2>3, <3>1, <4>1, <4>3, <4>4, <4>5
    <3>2. CASE n # k
      BY <2>3, <3>2
    <3> QED
      BY <3>1, <3>2
  <2>5. one = Ptrs!Freed(m, <<item>>)
    <3> DEFINE cleared == [l EXCEPT !.items = [j \in DOMAIN l.items |->
                                                  IF j \in hits THEN NULL ELSE l.items[j]]]
    <3>1. one = Ptrs!Freed(IF n \in hits THEN Ptrs!DropLast(cleared) ELSE cleared, <<item>>)
      <4>1. ~(item = NULL \/ l.items = << >>) /\ ~(item # NULL /\ l.items # << >> /\ ~l.array)
            /\ ~(item # NULL /\ l.array /\ hits = {})
        BY <1>1, <2>1, <2>2
      <4>2. one = CASE item = NULL \/ l.items = << >> -> Ptrs!Freed(l, << >>)
                    [] item # NULL /\ l.items # << >> /\ ~l.array -> Ptrs!FreeFault(l)
                    [] item # NULL /\ l.array /\ hits = {} -> Ptrs!Freed(l, << >>)
                    [] OTHER -> Ptrs!Freed(IF n \in hits THEN Ptrs!DropLast(cleared) ELSE cleared,
                                           <<item>>)
        BY DEF Ptrs!cptrlist_free
      <4> HIDE DEF one, cleared, hits, item
      <4> QED
        BY <4>1, <4>2
    <3>2. cleared = [l EXCEPT !.items = c] /\ cleared.items = c
      BY <1>2 DEF c
    <3> HIDE DEF cleared
    <3>3. (IF n \in hits THEN Ptrs!DropLast(cleared) ELSE cleared) = m
      <4>1. CASE n = k
        <5>1. Ptrs!DropLast(cleared) = [cleared EXCEPT !.items = SubSeq(c, 1, n - 1)]
          BY <2>3, <3>2 DEF Ptrs!DropLast, Ptrs!Front
        <5>2. [cleared EXCEPT !.items = SubSeq(c, 1, n - 1)] = [l EXCEPT !.items = SubSeq(c, 1, n - 1)]
          <6>1. \A x : [[l EXCEPT !.items = c] EXCEPT !.items = x] = [l EXCEPT !.items = x]
            OBVIOUS
          <6> QED
            BY <3>2, <6>1
        <5> QED
          BY <2>2, <4>1, <5>1, <5>2
      <4>2. CASE n # k
        BY <2>2, <3>2, <4>2
      <4> QED
        BY <4>1, <4>2
    <3> QED
      BY <3>1, <3>3
  <2> HIDE DEF d
  <2>6. m \in EmptyLists /\ m.items = d /\ m.array = TRUE
    BY <1>1, <1>2, <2>4, EmptyListWith
  <2> HIDE DEF m
  <2>7. one.list = m /\ one.freed = <<item>>
    BY <2>5 DEF Ptrs!Freed
  <2>8. b = [list |-> m, freed |-> a.freed \o <<item>>, fault |-> FALSE]
    BY <2>1, <2>7 DEF Ptrs!FreeNext, Ptrs!Freed
  <2> HIDE DEF b
  <2>9. item \notin ToSet(a.freed)
    BY <1>1, <1>4, <2>1 DEF Emptied, Once
  <2>10. /\ a.freed \o <<item>> \in Seq(Nat) /\ Once(a.freed \o <<item>>)
         /\ ToSet(a.freed \o <<item>>) = ToSet(a.freed) \cup {item}
    BY <1>1, <2>1, <2>9, OnceMore DEF Emptied
  <2>11. ToSet(b.freed) = {items[j] : j \in s \cup {k}}
    BY <2>1, <2>8, <2>10 DEF Emptied
  <2>12. b.list.items = d /\ b.list.array = TRUE /\ b.fault = FALSE /\ b.freed = a.freed \o <<item>>
    BY <2>6, <2>8
  <2>13. b \in Emptyings
    BY <2>6, <2>8, <2>10 DEF Emptyings
  <2>14. \A j \in DOMAIN items : j > Len(d) => j \in s \cup {k}
    BY <1>1, <2>1, <2>4 DEF Emptied
  <2>15. \A j \in 1 .. Len(d) :
            j \in DOMAIN items /\ d[j] = IF j \in s \cup {k} THEN NULL ELSE items[j]
    BY <2>4 DEF Emptied
  <2> HIDE DEF item
  <2> QED
    BY <2>4, <2>10, <2>11, <2>12, <2>13, <2>14, <2>15 DEF Emptied, b
<1> QED
  BY <1>3, <1>4

\* The loop of cptrlist_destroy.
LEMMA DestroyLoop ==
    ASSUME NEW list \in PtrLists, Once(list.items), list.array = TRUE
    PROVE  \E h :
               /\ h[0] = Ptrs!Freed(list, << >>)
               /\ h[Len(list.items)] = Ptrs!cptrlist_destroy(list)
               /\ \A i \in 1 .. Len(list.items) : h[i] = Ptrs!FreeNext(h[i - 1], i)
<1> DEFINE slots == [k \in DOMAIN list.items |-> k]
           base == Ptrs!Freed(list, << >>)
           n == Len(list.items)
           A == {a \in Emptyings : \E s \in SUBSET DOMAIN list.items : Emptied(list.items, s, a)}
           step == [p \in A \X (1 .. n) |-> Ptrs!FreeNext(p[1], slots[p[2]])]
           Body(g) == [s \in SUBSET DOMAIN slots |->
                          IF s = {} THEN base
                          ELSE Ptrs!FreeNext(g[s \ {Max(s)}], slots[Max(s)])]
           fold == CHOOSE g : g = Body(g)
<1>1. Ptrs!cptrlist_destroy(list) = fold[DOMAIN slots]
  <2>1. Ptrs!cptrlist_destroy(list) = FoldLeft(Ptrs!FreeNext, base, slots)
    BY DEF Ptrs!cptrlist_destroy, Ptrs!FoldLeft, FoldLeft, Ptrs!MapThenFoldSet, MapThenFoldSet,
           Ptrs!Max, Max
  <2>2. FoldLeft(Ptrs!FreeNext, base, slots) = fold[DOMAIN slots]
    BY DEF FoldLeft, MapThenFoldSet
  <2> QED
    BY <2>1, <2>2
<1>2. /\ n \in Nat /\ DOMAIN slots = 1 .. n /\ \A i \in 1 .. n : slots[i] = i
      /\ list.items \in Seq(Nat) /\ DOMAIN list.items = 1 .. n
  BY LenProperties DEF PtrLists
<1>3. base \in A
  <2>1. base \in Emptyings /\ Emptied(list.items, {}, base)
    BY NothingFreed
  <2> HIDE DEF base
  <2> QED
    BY <2>1
<1>4. ASSUME NEW a \in A, NEW i \in 1 .. n
      PROVE  Ptrs!FreeNext(a, slots[i]) \in A
  <2>1. PICK s \in SUBSET DOMAIN list.items : Emptied(list.items, s, a)
    OBVIOUS
  <2>2. i \in DOMAIN list.items /\ slots[i] = i
    BY <1>2
  <2> DEFINE b == Ptrs!FreeNext(a, i)
  <2>3. b \in Emptyings /\ Emptied(list.items, s \cup {i}, b)
    BY <1>2, <2>1, <2>2, NextEmptied
  <2> HIDE DEF b
  <2>4. b \in A
    BY <2>2, <2>3
  <2> QED
    BY <2>2, <2>4 DEF b
<1> HIDE DEF A, base, slots
<1>5. step \in [A \X (1 .. n) -> A]
  <2>1. ASSUME NEW p \in A \X (1 .. n)
        PROVE  Ptrs!FreeNext(p[1], slots[p[2]]) \in A
    <3>1. p[1] \in A /\ p[2] \in 1 .. n
      OBVIOUS
    <3> QED
      BY <1>4, <3>1
  <2> QED
    BY <2>1
<1>6. ASSUME NEW a \in A, NEW i \in 1 .. n
      PROVE  step[a, i] = Ptrs!FreeNext(a, slots[i])
  OBVIOUS
<1>7. ASSUME NEW s \in SUBSET (1 .. n), s # {}
      PROVE  Max(s) \in 1 .. n
  BY <1>2, <1>7, MaxOfInterval
<1> HIDE DEF n, step
<1>8. PICK g \in [SUBSET (1 .. n) -> A] : Folds(g, base, step, n)
  BY <1>2, <1>3, <1>5, FoldExists
<1>9. g = Body(g)
  <2>1. ASSUME NEW s \in SUBSET (1 .. n), s # {}
        PROVE  g[s] = Ptrs!FreeNext(g[s \ {Max(s)}], slots[Max(s)])
    <3>1. g[s \ {Max(s)}] \in A
      BY <1>8
    <3>2. g[s] = step[g[s \ {Max(s)}], Max(s)]
      BY <1>8, <2>1 DEF Folds
    <3> QED
      BY <1>6, <1>7, <2>1, <3>1, <3>2
  <2>2. g[{}] = base
    BY <1>8 DEF Folds
  <2> QED
    BY <1>2, <1>8, <2>1, <2>2
<1>10. PICK f : f = Body(f) /\ Ptrs!cptrlist_destroy(list) = f[1 .. n]
  BY <1>1, <1>2, <1>9
<1>11. FoldsOver(f, A, base, step, n)
  <2>1. f[{}] = base
    BY <1>10
  <2>2. ASSUME NEW s \in SUBSET (1 .. n), s # {}, f[s \ {Max(s)}] \in A
        PROVE  f[s] = step[f[s \ {Max(s)}], Max(s)]
    <3>1. f[s] = Ptrs!FreeNext(f[s \ {Max(s)}], slots[Max(s)])
      BY <1>2, <1>10, <2>2
    <3> QED
      BY <1>6, <1>7, <2>2, <3>1
  <2> QED
    BY <2>1, <2>2 DEF FoldsOver
<1>12. PICK h \in [0 .. n -> A] :
         h[0] = base /\ h[n] = f[1 .. n] /\ \A i \in 1 .. n : h[i] = step[h[i - 1], i]
  <2>1. Loops(f[1 .. n], A, base, step, n)
    BY <1>2, <1>3, <1>5, <1>11, FoldIsLoop
  <2> QED
    BY <2>1 DEF Loops
<1>13. \A i \in 1 .. n : h[i] = Ptrs!FreeNext(h[i - 1], i)
  <2> TAKE i \in 1 .. n
  <2>1. i - 1 \in 0 .. n
    BY <1>2
  <2>2. h[i - 1] \in A
    BY <1>12, <2>1
  <2> QED
    BY <1>2, <1>6, <1>12, <2>2
<1> QED
  BY <1>10, <1>12, <1>13 DEF n, base

\* cptrlist_destroy frees each of the strings once.
LEMMA DestroyFrees ==
    ASSUME NEW list \in PtrLists, Once(list.items), list.array = TRUE,
           NEW r, r = Ptrs!cptrlist_destroy(list)
    PROVE  /\ r.fault = FALSE /\ r.freed \in Seq(Nat) /\ Once(r.freed)
           /\ ToSet(r.freed) = ToSet(list.items)
<1> DEFINE items == list.items
           n == Len(items)
<1>1. items \in Seq(Nat) /\ n \in Nat /\ DOMAIN items = 1 .. n
  BY LenProperties DEF PtrLists
<1>2. PICK h :
        /\ h[0] = Ptrs!Freed(list, << >>) /\ h[n] = r
        /\ \A i \in 1 .. n : h[i] = Ptrs!FreeNext(h[i - 1], i)
  BY DestroyLoop
<1> DEFINE T == {k \in Nat : k <= n => h[k] \in Emptyings /\ Emptied(items, 1 .. k, h[k])}
<1>3. 0 \in T
  <2>1. h[0] \in Emptyings /\ Emptied(items, {}, h[0])
    BY <1>2, NothingFreed
  <2>2. 1 .. 0 = {}
    OBVIOUS
  <2> QED
    BY <2>1, <2>2
<1>4. ASSUME NEW k \in Nat, k \in T
      PROVE  k + 1 \in T
  <2>1. ASSUME k + 1 <= n
        PROVE  h[k + 1] \in Emptyings /\ Emptied(items, 1 .. k + 1, h[k + 1])
    <3>1. /\ k + 1 \in DOMAIN items /\ k + 1 \in 1 .. n /\ (k + 1) - 1 = k /\ k <= n
          /\ 1 .. k \in SUBSET DOMAIN items /\ (1 .. k) \cup {k + 1} = 1 .. k + 1
      BY <1>1, <2>1
    <3>2. h[k] \in Emptyings /\ Emptied(items, 1 .. k, h[k])
      BY <1>4, <3>1
    <3>3. h[k + 1] = Ptrs!FreeNext(h[k], k + 1)
      BY <1>2, <3>1
    <3> DEFINE b == Ptrs!FreeNext(h[k], k + 1)
    <3>4. b \in Emptyings /\ Emptied(items, (1 .. k) \cup {k + 1}, b)
      <4> HIDE DEF T
      <4> QED
        BY <1>1, <3>1, <3>2, NextEmptied
    <3> HIDE DEF b
    <3> QED
      BY <3>1, <3>3, <3>4 DEF b
  <2> QED
    BY <2>1
<1>5. n \in T
  <2> HIDE DEF T, n
  <2> QED
    BY <1>1, <1>3, <1>4, SetInduction
<1>6. Emptied(items, 1 .. n, r)
  BY <1>1, <1>2, <1>5
<1> HIDE DEF T
<1>7. ToSet(r.freed) = ToSet(items)
  BY <1>1, <1>6 DEF Emptied, ToSet
<1> QED
  BY <1>6, <1>7 DEF Emptied

\* A loop that frees.
FreeAll(m, freed) == FoldLeft(Free, m, freed)

LEMMA FreeLoop ==
    ASSUME NEW m \in Heaps, NEW freed \in Seq(Nat)
    PROVE  \E h :
               /\ h[0] = m
               /\ h[Len(freed)] = FreeAll(m, freed)
               /\ \A i \in 1 .. Len(freed) : h[i] = Free(h[i - 1], freed[i])
<1> DEFINE n == Len(freed)
           A == Heaps
           step == [p \in A \X (1 .. n) |-> Free(p[1], freed[p[2]])]
           Body(g) == [s \in SUBSET DOMAIN freed |->
                          IF s = {} THEN m
                          ELSE Free(g[s \ {Max(s)}], freed[Max(s)])]
           fold == CHOOSE g : g = Body(g)
<1>1. FreeAll(m, freed) = fold[DOMAIN freed]
  BY DEF FreeAll, FoldLeft, MapThenFoldSet
<1>2. n \in Nat /\ DOMAIN freed = 1 .. n
  BY LenProperties
<1>3. m \in A
  OBVIOUS
<1>4. ASSUME NEW a \in A, NEW i \in 1 .. n
      PROVE  Free(a, freed[i]) \in A
  BY FreeType
<1> HIDE DEF A
<1>5. step \in [A \X (1 .. n) -> A]
  <2>1. ASSUME NEW p \in A \X (1 .. n)
        PROVE  Free(p[1], freed[p[2]]) \in A
    <3>1. p[1] \in A /\ p[2] \in 1 .. n
      OBVIOUS
    <3> QED
      BY <1>4, <3>1
  <2> QED
    BY <2>1
<1>6. ASSUME NEW a \in A, NEW i \in 1 .. n
      PROVE  step[a, i] = Free(a, freed[i])
  OBVIOUS
<1>7. ASSUME NEW s \in SUBSET (1 .. n), s # {}
      PROVE  Max(s) \in 1 .. n
  BY <1>2, <1>7, MaxOfInterval
<1> HIDE DEF n, step
<1>8. PICK g \in [SUBSET (1 .. n) -> A] : Folds(g, m, step, n)
  BY <1>2, <1>3, <1>5, FoldExists
<1>9. g = Body(g)
  <2>1. ASSUME NEW s \in SUBSET (1 .. n), s # {}
        PROVE  g[s] = Free(g[s \ {Max(s)}], freed[Max(s)])
    <3>1. g[s \ {Max(s)}] \in A
      BY <1>8
    <3>2. g[s] = step[g[s \ {Max(s)}], Max(s)]
      BY <1>8, <2>1 DEF Folds
    <3> QED
      BY <1>6, <1>7, <2>1, <3>1, <3>2
  <2>2. g[{}] = m
    BY <1>8 DEF Folds
  <2> QED
    BY <1>2, <1>8, <2>1, <2>2
<1>10. PICK f : f = Body(f) /\ FreeAll(m, freed) = f[1 .. n]
  BY <1>1, <1>2, <1>9
<1>11. FoldsOver(f, A, m, step, n)
  <2>1. f[{}] = m
    BY <1>10
  <2>2. ASSUME NEW s \in SUBSET (1 .. n), s # {}, f[s \ {Max(s)}] \in A
        PROVE  f[s] = step[f[s \ {Max(s)}], Max(s)]
    <3>1. f[s] = Free(f[s \ {Max(s)}], freed[Max(s)])
      BY <1>2, <1>10, <2>2
    <3> QED
      BY <1>6, <1>7, <2>2, <3>1
  <2> QED
    BY <2>1, <2>2 DEF FoldsOver
<1>12. PICK h \in [0 .. n -> A] :
         h[0] = m /\ h[n] = f[1 .. n] /\ \A i \in 1 .. n : h[i] = step[h[i - 1], i]
  <2>1. Loops(f[1 .. n], A, m, step, n)
    BY <1>2, <1>3, <1>5, <1>11, FoldIsLoop
  <2> QED
    BY <2>1 DEF Loops
<1>13. \A i \in 1 .. n : h[i] = Free(h[i - 1], freed[i])
  <2> TAKE i \in 1 .. n
  <2>1. i - 1 \in 0 .. n
    BY <1>2
  <2> QED
    BY <1>6, <1>12, <2>1
<1> QED
  BY <1>2, <1>10, <1>12, <1>13 DEF n

\* Some of what is owned has been freed, and nothing else has happened.
Without(x, m, own, lost, gone) ==
    /\ Good(x, own \ gone, lost) /\ Live(x) = Live(m) \ gone
    /\ x.failing = m.failing /\ x.plain = m.plain /\ x.crash = m.crash /\ x.made = m.made
    /\ \A q \in own \ gone : x.strings[q] = m.strings[q]

LEMMA FreeOneMore ==
    ASSUME NEW m, NEW own, NEW lost, NEW gone, NEW x, Without(x, m, own, lost, gone),
           NEW p \in own \ gone
    PROVE  Without(Free(x, p), m, own, lost, gone \cup {p})
<1> DEFINE own2 == own \ gone
           f    == Free(x, p)
<1>1. Good(x, own2, lost) /\ p \in own2
  BY DEF Without
<1> HIDE DEF own2
<1>2. /\ Good(f, own2 \ {p}, lost) /\ Live(f) = Live(x) \ {p}
      /\ f.failing = x.failing /\ f.plain = x.plain
      /\ f.crash = x.crash /\ f.made = x.made
      /\ \A q \in own2 \ {p} : f.strings[q] = x.strings[q]
  BY <1>1, FreeOwned
<1> HIDE DEF f
<1>3. own2 \ {p} = own \ (gone \cup {p})
  BY DEF own2
<1> QED
  BY <1>2, <1>3 DEF Without, f, own2

\* Freeing what is owned, each string once.
LEMMA FreeAllOwned ==
    ASSUME NEW m, NEW own, NEW lost, Good(m, own, lost), NEW freed \in Seq(Nat), Once(freed),
           ToSet(freed) \subseteq own
    PROVE  Without(FreeAll(m, freed), m, own, lost, ToSet(freed))
<1> DEFINE n == Len(freed)
           Gone(k) == {freed[j] : j \in 1 .. k}
           Left(x, k) == Without(x, m, own, lost, Gone(k))
           r == FreeAll(m, freed)
<1>1. n \in Nat /\ DOMAIN freed = 1 .. n /\ ToSet(freed) = Gone(n)
  BY LenProperties DEF ToSet
<1>2. PICK h : /\ h[0] = m /\ h[n] = r
               /\ \A i \in 1 .. n : h[i] = Free(h[i - 1], freed[i])
  <2>1. m \in Heaps
    BY DEF Good
  <2> QED
    BY <2>1, FreeLoop
<1> HIDE DEF r
<1> DEFINE T == {k \in Nat : k <= n => Left(h[k], k)}
<1>3. 0 \in T
  <2>1. Gone(0) = {}
    OBVIOUS
  <2> HIDE DEF Gone
  <2>2. own \ {} = own /\ Live(m) \ {} = Live(m)
    OBVIOUS
  <2>3. Left(m, 0)
    BY <2>1, <2>2 DEF Without
  <2> HIDE DEF Left
  <2> QED
    BY <1>2, <2>3
<1>4. ASSUME NEW k \in Nat, k \in T
      PROVE  k + 1 \in T
  <2>1. ASSUME k + 1 <= n
        PROVE  Left(h[k + 1], k + 1)
    <3> DEFINE x == h[k]
               p == freed[k + 1]
               f == Free(x, p)
    <3>1. k + 1 \in 1 .. n /\ (k + 1) - 1 = k /\ k <= n /\ 1 .. k \subseteq 1 .. n
          /\ k + 1 \notin 1 .. k /\ 1 .. k + 1 = (1 .. k) \cup {k + 1}
      BY <1>1, <2>1
    <3>2. Left(x, k)
      BY <1>4, <3>1
    <3>3. h[k + 1] = f
      BY <1>2, <3>1
    <3>4. p \notin Gone(k) /\ Gone(k + 1) = Gone(k) \cup {p} /\ p \in own
      <4>1. \A j \in 1 .. k : freed[j] # p
        BY <1>1, <3>1 DEF Once
      <4>2. p \in ToSet(freed)
        BY <1>1, <3>1
      <4>3. p \in own
        BY <4>2
      <4> HIDE DEF p
      <4>4. p = freed[k + 1]
        BY DEF p
      <4> QED
        BY <3>1, <4>1, <4>3, <4>4
    <3> HIDE DEF T, Gone, p, x
    <3>5. p \in own \ Gone(k)
      BY <3>4
    <3>6. Without(f, m, own, lost, Gone(k) \cup {p})
      BY <3>2, <3>5, FreeOneMore
    <3> HIDE DEF f
    <3>8. Left(f, k + 1)
      BY <3>4, <3>6
    <3> HIDE DEF Left
    <3> QED
      BY <3>3, <3>8
  <2> HIDE DEF Left
  <2> QED
    BY <2>1
<1>5. n \in T
  <2> HIDE DEF T, n
  <2> QED
    BY <1>1, <1>3, <1>4, SetInduction
<1>6. Left(r, n)
  BY <1>1, <1>2, <1>5
<1> HIDE DEF T, Gone
<1> QED
  BY <1>1, <1>6 DEF r

\* The end of a list whose texts are owned.
LEMMA DestroyOwned ==
    ASSUME NEW m, NEW own, NEW lost, Good(m, own, lost), NEW list \in PtrLists,
           Once(list.items), list.array = TRUE, ToSet(list.items) \subseteq own
    PROVE  \E f : /\ Without(f, m, own, lost, ToSet(list.items))
                  /\ Destroy(m, list) = FreePlain(f, 1)
<1> DEFINE d == Ptrs!cptrlist_destroy(list)
           f == FreeAll(m, d.freed)
<1>1. /\ d.fault = FALSE /\ d.freed \in Seq(Nat) /\ Once(d.freed)
      /\ ToSet(d.freed) = ToSet(list.items)
  BY DestroyFrees
<1>2. Destroy(m, list) = FreePlain(f, 1)
  BY <1>1 DEF Destroy, FreeAll
<1> HIDE DEF d
<1>3. Without(f, m, own, lost, ToSet(d.freed))
  <2>1. ToSet(d.freed) \subseteq own
    BY <1>1
  <2> QED
    BY <1>1, <2>1, FreeAllOwned
<1> HIDE DEF f
<1> QED
  BY <1>1, <1>2, <1>3

\* A list that has lost its array ends the program.
LEMMA DestroyBroken ==
    ASSUME NEW m, NEW list, list.items # << >>, list.array = FALSE
    PROVE  Destroy(m, list) = Crashed(m)
<1>1. Ptrs!cptrlist_destroy(list) = Ptrs!FreeFault(list)
  BY DEF Ptrs!cptrlist_destroy
<1>2. Ptrs!cptrlist_destroy(list).fault = TRUE
  BY <1>1 DEF Ptrs!FreeFault
<1> QED
  BY <1>2 DEF Destroy

-----------------------------------------------------------------------------
(* The texts that Write puts together.                                       *)

\* The list on top holds strings that are there and have been built.
TopBuilt ==
    /\ Top.list.items \in Seq(Live(mem))
    /\ \A p \in ToSet(Top.list.items) : mem.strings[p] \in BuiltString
    /\ mem \in Heaps

StringLengths == [p \in Live(mem) |-> mem.strings[p].length]
ListedTexts   == [k \in DOMAIN Top.list.items |-> TextAt(Top.list.items[k])]

\* Lengths adds up the lengths of the texts in the list.
LEMMA LengthsSum ==
    ASSUME TopBuilt
    PROVE  /\ StringLengths \in [Live(mem) -> Nat]
           /\ Lengths = SumOver(StringLengths, Top.list.items) /\ Lengths \in Nat
<1> DEFINE items == Top.list.items
           n == Len(items)
           w == [k \in 1 .. n |-> StringLengths[items[k]]]
           Body(g) == [r \in SUBSET DOMAIN items |->
                          IF r = {} THEN 0 ELSE g[r \ {Max(r)}] + mem.strings[items[Max(r)]].length]
           fold == CHOOSE g : g = Body(g)
<1>1. Lengths = fold[DOMAIN items]
  BY DEF Lengths, FoldLeft, MapThenFoldSet
<1>2. StringLengths \in [Live(mem) -> Nat]
  <2>1. \A p \in Live(mem) : mem.strings[p].length \in Nat
    BY HeapIs DEF TopBuilt, FitString, String
  <2> QED
    BY <2>1 DEF StringLengths
<1>3. n \in Nat /\ DOMAIN items = 1 .. n /\ w \in [1 .. n -> Nat]
      /\ \A k \in 1 .. n : w[k] = mem.strings[items[k]].length
  <2>1. n \in Nat /\ DOMAIN items = 1 .. n /\ \A k \in 1 .. n : items[k] \in Live(mem)
    BY LenProperties, ElementOfSeq DEF TopBuilt
  <2> HIDE DEF items
  <2> QED
    BY <1>2, <2>1 DEF StringLengths
<1> HIDE DEF items
<1>4. ASSUME NEW g
      PROVE  Body(g) = SumBody(g, w, n)
  <2>1. ASSUME NEW r \in SUBSET (1 .. n), r # {}
        PROVE  w[Max(r)] = mem.strings[items[Max(r)]].length
    BY <1>3, <2>1, MaxOfInterval
  <2> QED
    BY <1>3, <2>1 DEF SumBody
<1> HIDE DEF w, n, Body
<1>5. fold = SumBody(fold, w, n)
  <2>1. \E g : g = Body(g)
    BY <1>3, <1>4, SumExists
  <2> QED
    BY <1>4, <2>1
<1>6. Sums(fold[1 .. n], w, n)
  BY <1>3, <1>5, FoldSums
<1>7. items \in Seq(Live(mem))
  BY DEF TopBuilt, items
<1>8. Lengths = SumOver(StringLengths, items) /\ SumOver(StringLengths, items) \in Nat
  BY <1>1, <1>2, <1>3, <1>6, <1>7, SumOverIs DEF w, n
<1> QED
  BY <1>2, <1>8 DEF items

\* The listed texts are texts, as long together as Lengths says.
LEMMA TextsListed ==
    ASSUME TopBuilt
    PROVE  /\ ListedTexts \in Seq(Text) /\ DOMAIN Top.list.items = 1 .. Len(Top.list.items)
           /\ Len(Top.list.items) \in Nat
           /\ \A k \in DOMAIN Top.list.items : TextAt(Top.list.items[k]) \in Text
           /\ FlattenSeq(ListedTexts) \in Text
           /\ strlen(FlattenSeq(ListedTexts)) = Lengths
<1> DEFINE items == Top.list.items
           n == Len(items)
           texts == ListedTexts
<1>1. n \in Nat /\ DOMAIN items = 1 .. n /\ items \in Seq(Live(mem))
      /\ \A k \in 1 .. n : items[k] \in Live(mem)
  BY LenProperties, ElementOfSeq DEF TopBuilt
<1>2. \A k \in 1 .. n : /\ TextAt(items[k]) \in Text
                        /\ strlen(TextAt(items[k])) = mem.strings[items[k]].length
  <2>1. \A k \in 1 .. n : items[k] \in ToSet(items)
    BY <1>1 DEF ToSet
  <2>2. \A k \in 1 .. n : mem.strings[items[k]] \in BuiltString
    BY <2>1 DEF TopBuilt
  <2> HIDE DEF items
  <2> QED
    BY <2>2 DEF BuiltString, String, TextAt
<1>3. texts \in Seq(Text) /\ Len(texts) = n /\ \A k \in 1 .. n : texts[k] = TextAt(items[k])
  <2>1. \A S : \A x : x \in [1 .. n -> S] => x \in Seq(S) /\ Len(x) = n
    BY <1>1
  <2>2. texts = [k \in 1 .. n |-> TextAt(items[k])]
    BY <1>1 DEF ListedTexts
  <2> HIDE DEF texts, items, n
  <2>3. texts \in [1 .. n -> Text] /\ \A k \in 1 .. n : texts[k] = TextAt(items[k])
    BY <1>2, <2>2
  <2> QED
    BY <2>1, <2>3
<1> HIDE DEF items, texts
<1>4. /\ FlattenSeq(texts) \in Text /\ Lens \in [Text -> Nat]
      /\ strlen(FlattenSeq(texts)) = SumOver(Lens, texts)
  BY <1>3, FlattenStrlen
<1>5. /\ StringLengths \in [Live(mem) -> Nat] /\ Lengths = SumOver(StringLengths, items)
  BY LengthsSum DEF items
<1>6. [k \in 1 .. Len(texts) |-> Lens[texts[k]]] = [k \in 1 .. n |-> StringLengths[items[k]]]
  <2>1. \A k \in 1 .. n : Lens[texts[k]] = StringLengths[items[k]]
    BY <1>1, <1>2, <1>3 DEF Lens, StringLengths
  <2> QED
    BY <1>3, <2>1
<1>7. SumOver(Lens, texts) = SumOver(StringLengths, items)
  <2>1. Sums(SumOver(StringLengths, items), [k \in 1 .. n |-> StringLengths[items[k]]], n)
    BY <1>1, <1>5, SumOverIs
  <2>2. Sums(SumOver(StringLengths, items), [k \in 1 .. Len(texts) |-> Lens[texts[k]]], Len(texts))
    BY <1>3, <1>6, <2>1
  <2> QED
    BY <1>3, <1>4, <2>2, SumOverIs
<1> QED
  BY <1>1, <1>2, <1>3, <1>4, <1>5, <1>7 DEF items, texts

\* The parts of a section, and of a sector, are texts.
LEMMA LinesType ==
    ASSUME NEW n \in Nat, NEW f \in [1 .. n -> Seq(Text)]
    PROVE  Lines(f) \in Seq(Text)
<1>1. f \in Seq(Seq(Text))
  OBVIOUS
<1> QED
  BY <1>1, FlattenType DEF Lines

LEMMA SectionPiecesType ==
    ASSUME TopBuilt, options \in Options, ThisSection.name.base \in Text
    PROVE  SectionPieces \in Seq(Text)
<1> DEFINE items  == Top.list.items
           indent == _make_indent(1)
           name   == ThisSection.name.base
           f      == [k \in DOMAIN items |-> <<TextAt(items[k]), <<"LF">> >>]
           head   == <<indent, <<"section", " ">>, name, <<"LF">> >>
           tail   == <<indent, <<"end", "LF">> >>
<1>1. SectionPieces = head \o Lines(f) \o tail
  BY DEF SectionPieces
<1>2. indent \in Text
  BY IndentType
<1>3. <<"section", " ">> \in Text /\ <<"LF">> \in Text /\ <<"end", "LF">> \in Text
  BY TextLiterals, SerializerAssumption DEF Written
<1>4. \A S : /\ \A a, b, c, d \in S : <<a, b, c, d>> \in Seq(S)
             /\ \A a, b \in S : <<a, b>> \in Seq(S)
             /\ \A x, y, z \in Seq(S) : x \o y \o z \in Seq(S)
  <2>1. \A S : /\ \A a, b, c, d \in S : <<a, b, c, d>> \in Seq(S)
               /\ \A a, b \in S : <<a, b>> \in Seq(S)
    OBVIOUS
  <2>2. \A S : \A x, y, z \in Seq(S) : x \o y \o z \in Seq(S)
    <3> TAKE S
    <3> TAKE x, y, z \in Seq(S)
    <3>1. x \o y \in Seq(S)
      BY ConcatProperties
    <3> QED
      BY <3>1, ConcatProperties
  <2> QED
    BY <2>1, <2>2
<1> HIDE DEF indent, name
<1>5. head \in Seq(Text) /\ tail \in Seq(Text)
  BY <1>2, <1>3, <1>4 DEF name
<1>6. Lines(f) \in Seq(Text)
  <2>1. DOMAIN items = 1 .. Len(items) /\ Len(items) \in Nat
        /\ \A k \in DOMAIN items : TextAt(items[k]) \in Text
    BY TextsListed
  <2> HIDE DEF items
  <2>2. \A k \in 1 .. Len(items) : <<TextAt(items[k]), <<"LF">> >> \in Seq(Text)
    BY <1>3, <1>4, <2>1
  <2>3. f = [k \in 1 .. Len(items) |-> <<TextAt(items[k]), <<"LF">> >>]
    BY <2>1
  <2> HIDE DEF f
  <2>4. f \in [1 .. Len(items) -> Seq(Text)]
    BY <2>2, <2>3
  <2> QED
    BY <2>1, <2>4, LinesType
<1> HIDE DEF head, tail, f
<1> QED
  BY <1>1, <1>4, <1>5, <1>6

LEMMA SectorPiecesType ==
    ASSUME TopBuilt, ThisSector.name.base \in Text
    PROVE  SectorPieces \in Seq(Text)
<1> DEFINE items  == Top.list.items
           name   == ThisSector.name.base
           f      == [k \in DOMAIN items |->
                        IF k < Len(items) THEN <<TextAt(items[k]), <<"LF">> >>
                        ELSE <<TextAt(items[k])>>]
           head   == << <<"sector", " ">>, name, <<"LF">> >>
           tail   == << <<"end", "LF", "LF">> >>
<1>1. SectorPieces = head \o Lines(f) \o tail
  BY DEF SectorPieces
<1>2. <<"sector", " ">> \in Text /\ <<"LF">> \in Text
  BY TextLiterals, SerializerAssumption DEF Written
<1>3. <<"end", "LF", "LF">> \in Text
  <2>1. \A S : \A a, b, c \in S : <<a, b, c>> \in Seq(S)
    OBVIOUS
  <2>2. "end" \in Symbols /\ "LF" \in Symbols
    BY SerializerAssumption DEF Written
  <2> QED
    BY <2>1, <2>2 DEF Text
<1>4. \A S : /\ \A a, b, c \in S : <<a, b, c>> \in Seq(S)
             /\ \A a, b \in S : <<a, b>> \in Seq(S)
             /\ \A a \in S : <<a>> \in Seq(S)
             /\ \A x, y, z \in Seq(S) : x \o y \o z \in Seq(S)
  <2>1. \A S : /\ \A a, b, c \in S : <<a, b, c>> \in Seq(S)
               /\ \A a, b \in S : <<a, b>> \in Seq(S)
               /\ \A a \in S : <<a>> \in Seq(S)
    OBVIOUS
  <2>2. \A S : \A x, y, z \in Seq(S) : x \o y \o z \in Seq(S)
    <3> TAKE S
    <3> TAKE x, y, z \in Seq(S)
    <3>1. x \o y \in Seq(S)
      BY ConcatProperties
    <3> QED
      BY <3>1, ConcatProperties
  <2> QED
    BY <2>1, <2>2
<1> HIDE DEF name
<1>5. head \in Seq(Text) /\ tail \in Seq(Text)
  BY <1>2, <1>3, <1>4 DEF name
<1>6. Lines(f) \in Seq(Text)
  <2>1. DOMAIN items = 1 .. Len(items) /\ Len(items) \in Nat
        /\ \A k \in DOMAIN items : TextAt(items[k]) \in Text
    BY TextsListed
  <2> HIDE DEF items
  <2>2. \A k \in 1 .. Len(items) : /\ <<TextAt(items[k]), <<"LF">> >> \in Seq(Text)
                                   /\ <<TextAt(items[k])>> \in Seq(Text)
    BY <1>2, <1>4, <2>1
  <2>3. f = [k \in 1 .. Len(items) |->
               IF k < Len(items) THEN <<TextAt(items[k]), <<"LF">> >> ELSE <<TextAt(items[k])>>]
    BY <2>1
  <2> HIDE DEF f
  <2>4. f \in [1 .. Len(items) -> Seq(Text)]
    BY <2>2, <2>3
  <2> QED
    BY <2>1, <2>4, LinesType
<1> HIDE DEF head, tail, f
<1> QED
  BY <1>1, <1>4, <1>5, <1>6

\* A text has been written since heap m0, or an allocation has failed.
Wrote(w, m0, own, lost) ==
    /\ w \in Builders /\ Clean(w) /\ w.value \notin own
    /\ w.m.failing = m0.failing /\ w.m.plain = m0.plain /\ w.m.crash = FALSE
    /\ Plus(own, w.value) \subseteq Live(w.m)
    /\ \A p \in own : w.m.strings[p] \in BuiltString
    /\ Kept(w.m, Plus(own, w.value), lost)
    /\ w.err = "MCFG_OK" => w.value # NULL
    /\ m0.failing = 0 => w.err = "MCFG_OK"

LEMMA BuildingWrote ==
    ASSUME NEW w, NEW m0, NEW own, NEW lost, Building(w, m0, own, lost), Clean(w)
    PROVE  /\ Wrote(w, m0, own, lost)
           /\ w.err = "MCFG_OK" => w.m.strings[w.value] \in BuiltString
<1>1. own \subseteq Plus(own, w.value) /\ (w.value # NULL => w.value \in Plus(own, w.value))
  BY DEF Plus
<1> QED
  BY <1>1 DEF Building, Good, Wrote

\* Pieces written one behind another into a new string.
LEMMA PiecesWrote ==
    ASSUME NEW m, NEW own, NEW lost, Good(m, own, lost), m.crash = FALSE,
           NEW size \in Nat, NEW pieces \in Seq(Text),
           NEW w, w = AppendAll(NewSized(m, size), pieces)
    PROVE  /\ Wrote(w, m, own, lost)
           /\ w.err = "MCFG_OK" => w.m.strings[w.value] \in BuiltString
<1>1. Building(NewSized(m, size), m, own, lost) /\ Clean(NewSized(m, size))
  BY NewSizedBuilding
<1>2. Building(w, m, own, lost) /\ Clean(w)
  BY <1>1, AppendAllBuilding
<1> QED
  BY <1>2, BuildingWrote

\* A string whose text is replaced by one that fits.
LEMMA TextReplaced ==
    ASSUME NEW w, NEW m0, NEW own, NEW lost, Wrote(w, m0, own, lost), w.err = "MCFG_OK",
           NEW text \in Text,
           NEW a, a = w.m.strings[w.value], a \in String, a.length = 0,
           strlen(text) + 1 <= a.block,
           NEW r, r = [w EXCEPT !.m.strings[w.value].text = text]
    PROVE  Wrote(r, m0, own, lost)
<1> DEFINE v == w.value
           b == [a EXCEPT !.text = text]
           t == [w.m.strings EXCEPT ![v] = b]
           h == w.m
           m2 == [h EXCEPT !.strings = t]
<1>1. /\ w \in Builders /\ w.m \in Heaps /\ v # NULL /\ v \notin own
      /\ Plus(own, v) = own \cup {v} /\ v \in Live(w.m)
  BY DEF Wrote, Builders, Plus
<1>2. b \in FitString /\ b # NULL
  <2>1. b = [capacity |-> a.capacity, length |-> a.length, text |-> text, block |-> a.block]
    BY DEF String
  <2> HIDE DEF b
  <2>2. b \in String /\ b.text = text /\ b.block = a.block /\ b.length = 0
    BY <2>1 DEF String
  <2>3. strlen(text) \in Nat
    BY StrlenType
  <2> QED
    BY <2>2, <2>3, NullIsNone DEF FitString
<1> HIDE DEF b
<1>3. /\ t \in Seq(FitString \cup {NULL}) /\ DOMAIN t = DOMAIN w.m.strings
      /\ \A q \in DOMAIN t : t[q] = IF q = v THEN b ELSE w.m.strings[q]
  <2>1. \A S : \A x \in Seq(S) : \A q \in DOMAIN x : \A y \in S : [x EXCEPT ![q] = y] \in Seq(S)
    OBVIOUS
  <2>2. w.m.strings \in Seq(FitString \cup {NULL}) /\ v \in DOMAIN w.m.strings
    BY <1>1 DEF Heaps, Live
  <2>3. t \in Seq(FitString \cup {NULL})
    BY <1>2, <2>1, <2>2
  <2> QED
    BY <2>2, <2>3
<1>4. r = [w EXCEPT !.m = m2]
  BY DEF b
<1> HIDE DEF t, m2, h, v
<1>5. /\ m2 \in Heaps /\ m2.strings = t /\ m2.plain = w.m.plain /\ m2.made = w.m.made
      /\ m2.failing = w.m.failing /\ m2.crash = w.m.crash
  <2>1. m2 = WithStrings(h, t)
    BY DEF m2, WithStrings
  <2>2. h \in Heaps /\ t \in Seq(FitString \cup {NULL})
    BY <1>1, <1>3 DEF h
  <2>3. /\ m2 \in Heaps /\ m2.strings = t /\ m2.plain = h.plain /\ m2.made = h.made
        /\ m2.failing = h.failing /\ m2.crash = h.crash
    BY <2>1, <2>2, StringsReplaced
  <2> QED
    BY <2>3 DEF h
<1>6. Live(m2) = Live(w.m)
  BY <1>1, <1>2, <1>3, <1>5 DEF Live
<1>7. r = [m |-> m2, value |-> w.value, err |-> w.err, appended |-> w.appended]
  BY <1>1, <1>4 DEF Builders
<1>8. r \in Builders /\ r.m = m2 /\ r.value = w.value /\ r.err = w.err
  BY <1>1, <1>5, <1>7 DEF Builders
<1>9. \A p \in own : m2.strings[p] \in BuiltString
  <2>1. \A p \in own : p \in DOMAIN t /\ p # v
    BY <1>1, <1>3 DEF Wrote, Live, v
  <2> QED
    BY <1>3, <1>5, <2>1 DEF Wrote
<1>10. Kept(m2, Plus(own, w.value), lost)
  BY <1>5, <1>6 DEF Wrote, Kept, Spent
<1> QED
  BY <1>5, <1>6, <1>8, <1>9, <1>10 DEF Wrote, Clean

\* The text of a file.
LEMMA FileStringWrote ==
    ASSUME TopBuilt, NEW m, NEW own, NEW lost, Good(m, own, lost), m.crash = FALSE,
           NEW r, r = FileString(m)
    PROVE  Wrote(r, m, own, lost)
<1> DEFINE size == Lengths + 1
           new  == NewSized(m, size)
           text == FlattenSeq(ListedTexts)
<1>1. size \in Nat /\ text \in Text /\ strlen(text) + 1 = size
  BY LengthsSum, TextsListed
<1>2. r = IF new.err # "MCFG_OK" THEN new
          ELSE [new EXCEPT !.m.strings[new.value].text = text]
  BY DEF FileString, ListedTexts
<1> HIDE DEF size, text
<1>3. Wrote(new, m, own, lost)
  <2>1. Building(new, m, own, lost) /\ Clean(new)
    BY <1>1, NewSizedBuilding
  <2> HIDE DEF new
  <2> QED
    BY <2>1, BuildingWrote
<1>4. CASE new.err # "MCFG_OK"
  BY <1>2, <1>3, <1>4
<1>5. CASE new.err = "MCFG_OK"
  <2> DEFINE a == new.m.strings[new.value]
  <2>1. a = mcfg_string_new_sized(size)
    <3>1. Ok(m)
      BY <1>5 DEF NewSized
    <3>2. m \in Heaps
      BY DEF Good
    <3> DEFINE s == m.strings
               x == mcfg_string_new_sized(size)
    <3>3. Made(m) \in Heaps /\ Made(m).strings = s
      BY <3>2, Counting, 0 \in Int DEF Same
    <3>4. new = [m |-> [Made(m) EXCEPT !.strings = Append(s, x)],
                 value |-> Len(s) + 1, err |-> "MCFG_OK", appended |-> 0]
      BY <3>1, <3>3 DEF NewSized
    <3> HIDE DEF x, new
    <3>5. new.m = [Made(m) EXCEPT !.strings = Append(s, x)] /\ new.value = Len(s) + 1
      BY <3>4
    <3>6. new.m.strings = Append(s, x)
      BY <3>3, <3>5 DEF Heaps
    <3>7. Append(s, x)[Len(s) + 1] = x
      <4>1. s \in Seq(FitString \cup {NULL})
        BY <3>2 DEF Heaps
      <4>2. \A S : \A y \in Seq(S) : \A z : Append(y, z)[Len(y) + 1] = z
        BY AppendProperties
      <4> HIDE DEF s
      <4> QED
        BY <4>1, <4>2
    <3> QED
      BY <3>5, <3>6, <3>7 DEF x
  <2>2. a \in String /\ a.length = 0 /\ a.block = size + 1
    <3>1. a = [capacity |-> size, length |-> 0, text |-> << >>, block |-> size + 1]
      BY <2>1 DEF mcfg_string_new_sized
    <3> HIDE DEF a
    <3>2. << >> \in Text
      BY TextLiterals
    <3>3. [capacity |-> size, length |-> 0, text |-> << >>, block |-> size + 1] \in String
      BY <1>1, <3>2 DEF String
    <3> QED
      BY <3>1, <3>3
  <2>3. r = [new EXCEPT !.m.strings[new.value].text = text]
    BY <1>2, <1>5
  <2>4. strlen(text) + 1 <= size + 1
    BY <1>1
  <2>5. strlen(text) + 1 <= a.block
    BY <2>2, <2>4
  <2> HIDE DEF new
  <2>6. a \in String /\ a.length = 0 /\ a = new.m.strings[new.value]
    BY <2>2
  <2> HIDE DEF a
  <2> QED
    BY <1>1, <1>3, <1>5, <2>3, <2>5, <2>6, TextReplaced
<1> QED
  BY <1>4, <1>5

-----------------------------------------------------------------------------
(* The invariant that a run keeps.                                           *)

Frames == [ix : Nat, list : PtrLists]

Types ==
    /\ options \in Options /\ file \in Document /\ given \in Document
    /\ stack \in Seq(Frames) /\ Len(stack) <= 3
    /\ result \in [err : Errors, value : Nat \cup {NULL}]
    /\ mem \in Heaps /\ mem.made = 0 /\ mem.failing = 0
    /\ mem.crash = TRUE <=> pc = "crashed"
    /\ pc \in {"idle", "loop", "collect", "exit", "returned", "crashed"}
    /\ fails \in Nat

\* A document that is sound stays so, and only a failed allocation keeps it
\* from being written.
Sounds ==
    Sound(given) =>
        Sound(file) /\ (fails = 0 => pc # "crashed" /\ result.err = "MCFG_OK")

\* Where the functions on stack s are in the document, p being the pc.
Placed(doc, s, p) ==
    /\ Len(s) >= 1 => s[1].ix <= Len(doc.sectors)
    /\ Len(s) >= 2 => s[1].ix # 0 /\ s[2].ix <= Len(doc.sectors[s[1].ix].sections)
    /\ Len(s) = 3 =>
          s[2].ix # 0 /\ s[3].ix <= Len(doc.sectors[s[1].ix].sections[s[2].ix].fields)
    /\ Len(s) = 0 <=> p \in {"idle", "returned"}

\* The strings in the lists; none is there twice.
Held(s) == UNION {ToSet(s[d].list.items) : d \in 1 .. Len(s)}
Apart(s) ==
    \A c, d \in 1 .. Len(s) : \A i \in DOMAIN s[c].list.items, j \in DOMAIN s[d].list.items :
        s[c].list.items[i] = s[d].list.items[j] => c = d /\ i = j

\* A list has room for its items.
Sized(s) ==
    \A d \in 1 .. Len(s) : s[d].list.capacity # 0 /\ Len(s[d].list.items) <= s[d].list.capacity

\* What is in a list is there, and has been built.
Holding(s, m) == \A p \in Held(s) : p \in Live(m) /\ m.strings[p] \in BuiltString

\* What nobody owns is what failed allocations have cost.
Ours(s, r)       == Held(s) \cup IF r.err = "MCFG_OK" THEN {r.value} \ {NULL} ELSE {}
Lossless(s, r, m, n) == Cardinality(Live(m) \ Ours(s, r)) <= n

\* The result: behind an error the pointer is a dangling one, or one from the
\* list that is about to be destroyed, unless that list has lost its array.
Settled(s, r, m, p) ==
    LET top == s[Len(s)].list
    IN  /\ p = "idle" => r = NoResult
        /\ p = "returned" /\ r.err = "MCFG_OK" => r.value \in Live(m)
        /\ p = "loop" => r.err = "MCFG_OK" /\ r.value \in {NULL} \cup ToSet(top.items)
        /\ p \in {"collect", "exit"} /\ r.err = "MCFG_OK" =>
              /\ r.value \in Live(m) \ Held(s)
              /\ p = "collect" \/ Len(s) > 1 => m.strings[r.value] \in BuiltString
        /\ p \in {"collect", "exit"} /\ r.err # "MCFG_OK" /\ r.value \in Live(m) =>
              r.value \in ToSet(top.items) \/ top.array = FALSE
        /\ \A d \in 1 .. Len(s) : s[d].list.array = FALSE =>
              d = Len(s) /\ p = "exit" /\ r.err # "MCFG_OK" /\ top.items # << >>

Running(doc, s, r, m, p, n) ==
    /\ Placed(doc, s, p)
    /\ Apart(s) /\ Sized(s) /\ Holding(s, m)
    /\ Lossless(s, r, m, n)
    /\ m.plain = Len(s) + One(Len(s) = 3)
    /\ Settled(s, r, m, p)

\* EachBlockOwnedOnce is not inductive: what the next step frees depends on
\* what the pointer in the result still is, and on the children being there.
IInv ==
    /\ Types
    /\ Sounds
    /\ pc # "crashed" => Running(file, stack, result, mem, pc, fails)
-----------------------------------------------------------------------------
(* The stack.                                                                *)

\* A function on the stack, and its list.
LEMMA FrameIs ==
    ASSUME NEW s \in Seq(Frames), NEW d \in 1 .. Len(s)
    PROVE  /\ s[d] \in Frames /\ s[d].ix \in Nat /\ s[d].list \in PtrLists
           /\ s[d].list.items \in Seq(Nat) /\ Len(s[d].list.items) \in Nat
           /\ DOMAIN s[d].list.items = 1 .. Len(s[d].list.items)
           /\ \A i \in DOMAIN s[d].list.items : s[d].list.items[i] \in Nat
<1>1. s[d] \in Frames
  BY ElementOfSeq
<1>2. s[d].ix \in Nat /\ s[d].list \in PtrLists
  BY <1>1 DEF Frames
<1>3. s[d].list.items \in Seq(Nat)
  BY <1>2 DEF PtrLists
<1>4. QED BY <1>1, <1>2, <1>3, LenProperties, ElementOfSeq

\* What is held is what is in one of the lists.
LEMMA HeldIs ==
    ASSUME NEW s \in Seq(Frames), NEW p
    PROVE  p \in Held(s) <=>
              \E d \in 1 .. Len(s) : \E i \in DOMAIN s[d].list.items : s[d].list.items[i] = p
BY DEF Held, ToSet

\* The lists are the same.
SameLists(t, s) == Len(t) = Len(s) /\ \A d \in 1 .. Len(s) : t[d].list = s[d].list

LEMMA SameListsKeep ==
    ASSUME NEW s \in Seq(Frames), NEW t \in Seq(Frames), SameLists(t, s)
    PROVE  /\ Held(t) = Held(s)
           /\ Apart(s) => Apart(t)
           /\ Sized(s) => Sized(t)
<1>1. Len(t) = Len(s) /\ \A d \in 1 .. Len(s) : t[d].list = s[d].list
  BY DEF SameLists
<1>2. Held(t) = Held(s)
  BY <1>1 DEF Held
<1>3. Apart(s) => Apart(t)
  BY <1>1 DEF Apart
<1>4. Sized(s) => Sized(t)
  BY <1>1 DEF Sized
<1>5. QED BY <1>2, <1>3, <1>4

\* The function on top goes on to its next child.
LEMMA NextChildIs ==
    ASSUME NEW s \in Seq(Frames), Len(s) # 0, NEW t, t = [s EXCEPT ![Len(s)].ix = @ + 1]
    PROVE  /\ t \in Seq(Frames) /\ SameLists(t, s)
           /\ t[Len(s)].ix = s[Len(s)].ix + 1
           /\ \A d \in 1 .. Len(s) - 1 : t[d] = s[d]
<1> DEFINE n == Len(s)
           f == [s[n] EXCEPT !.ix = @ + 1]
<1>1. n \in Nat /\ n \in 1 .. n
  BY LenProperties
<1>2. s[n] \in Frames /\ s[n].ix \in Nat /\ s[n].list \in PtrLists
  BY <1>1, FrameIs
<1>3. f = [ix |-> s[n].ix + 1, list |-> s[n].list]
  BY <1>2 DEF Frames
<1>4. f \in Frames /\ f.ix = s[n].ix + 1 /\ f.list = s[n].list
  BY <1>2, <1>3 DEF Frames
<1>5. t = [s EXCEPT ![n] = f]
  OBVIOUS
<1> HIDE DEF f
<1>6. t \in Seq(Frames) /\ Len(t) = n /\ t[n] = f /\ \A d \in 1 .. n : d # n => t[d] = s[d]
  BY <1>1, <1>4, <1>5, ExceptSeq
<1>7. SameLists(t, s)
  BY <1>4, <1>6 DEF SameLists
<1>8. QED BY <1>1, <1>4, <1>6, <1>7

\* A function is called: its list is empty.
LEMMA NewFrameIs ==
    /\ NewFrame \in Frames /\ NewFrame.ix = 0
    /\ NewFrame.list \in PtrLists /\ NewFrame.list.items = << >>
    /\ NewFrame.list.array = TRUE /\ NewFrame.list.capacity = ListCapacity
    /\ ListCapacity \in Nat \ {0}
<1> DEFINE none == << >>
           l    == [capacity |-> ListCapacity, items |-> none, array |-> TRUE,
                    allow_resize |-> TRUE, resize_align |-> ListCapacity]
<1>1. none \in Seq(Nat) /\ ListCapacity \in Nat \ {0}
  BY EmptySeq, SerializerAssumption
<1>2. NewFrame = [ix |-> 0, list |-> l]
  BY DEF NewFrame, Ptrs!cptrlist_init
<1> HIDE DEF none
<1>3. l \in PtrLists
  BY <1>1 DEF PtrLists
<1>4. l.items = none /\ l.array = TRUE /\ l.capacity = ListCapacity
  OBVIOUS
<1> HIDE DEF l
<1>5. NewFrame \in Frames /\ NewFrame.ix = 0 /\ NewFrame.list = l
  BY <1>2, <1>3 DEF Frames
<1>6. QED BY <1>1, <1>3, <1>4, <1>5 DEF none

LEMMA PushIs ==
    ASSUME NEW s \in Seq(Frames), NEW t, t = Append(s, NewFrame)
    PROVE  /\ t \in Seq(Frames) /\ Len(t) = Len(s) + 1
           /\ t[Len(t)] = NewFrame /\ \A d \in 1 .. Len(s) : t[d] = s[d]
           /\ Held(t) = Held(s)
           /\ Apart(s) => Apart(t)
           /\ Sized(s) => Sized(t)
<1> DEFINE n == Len(s)
<1>1. n \in Nat /\ t \in Seq(Frames) /\ Len(t) = n + 1
  BY NewFrameIs, AppendProperties, LenProperties
<1>2. t[n + 1] = NewFrame /\ \A d \in 1 .. n : t[d] = s[d]
  BY NewFrameIs, AppendProperties
<1>3. DOMAIN t[n + 1].list.items = {}
  BY <1>2, NewFrameIs
<1>4. \A d \in 1 .. n + 1 : d \in 1 .. n \/ d = n + 1
  BY <1>1
<1>5. \A d \in 1 .. n : d \in 1 .. n + 1
  BY <1>1
<1> HIDE DEF n
<1>6. \A p : p \in Held(t) <=> p \in Held(s)
  <2> TAKE p
  <2> DEFINE k == n + 1
  <2>1. t \in Seq(Frames) /\ Len(t) = k
    BY <1>1
  <2> HIDE DEF k
  <2>2. p \in Held(t) <=>
           \E d \in 1 .. k : \E i \in DOMAIN t[d].list.items : t[d].list.items[i] = p
    BY <2>1, HeldIs
  <2>3. p \in Held(t) <=>
           \E d \in 1 .. n + 1 : \E i \in DOMAIN t[d].list.items : t[d].list.items[i] = p
    BY <2>2 DEF k
  <2>4. p \in Held(s) <=>
           \E d \in 1 .. n : \E i \in DOMAIN s[d].list.items : s[d].list.items[i] = p
    BY HeldIs DEF n
  <2>5. QED BY <2>3, <2>4, <1>2, <1>3, <1>4, <1>5
<1>7. Apart(s) => Apart(t)
  BY <1>1, <1>2, <1>3, <1>4, <1>5 DEF Apart, n
<1>8. Sized(s) => Sized(t)
  <2>1. t[n + 1].list.capacity # 0 /\ Len(t[n + 1].list.items) <= t[n + 1].list.capacity
    BY <1>2, NewFrameIs
  <2>2. QED BY <2>1, <1>1, <1>2, <1>4, <1>5 DEF Sized, n
<1>9. QED BY <1>1, <1>2, <1>6, <1>7, <1>8 DEF n

\* A function returns, and its list goes.
LEMMA PopIs ==
    ASSUME NEW s \in Seq(Frames), Len(s) # 0, Apart(s), NEW t, t = Front(s)
    PROVE  /\ t \in Seq(Frames) /\ Len(t) = Len(s) - 1
           /\ \A d \in 1 .. Len(s) - 1 : t[d] = s[d]
           /\ Held(t) = Held(s) \ ToSet(s[Len(s)].list.items)
           /\ Apart(t)
           /\ Sized(s) => Sized(t)
<1> DEFINE n == Len(s)
           l == s[n].list.items
<1>1. n \in Nat /\ n \in 1 .. n /\ n - 1 \in Nat
  BY LenProperties
<1>2. t = SubSeq(s, 1, n - 1)
  BY DEF Front
<1>3. t \in Seq(Frames) /\ Len(t) = n - 1 /\ \A d \in 1 .. n - 1 : t[d] = s[d]
  <2>1. \A S : \A x \in Seq(S) : \A m \in 0 .. Len(x) :
           LET y == SubSeq(x, 1, m)
           IN  y \in Seq(S) /\ Len(y) = m /\ \A d \in 1 .. m : y[d] = x[d]
    OBVIOUS
  <2>2. n - 1 \in 0 .. Len(s)
    BY <1>1
  <2>3. QED BY <1>2, <2>1, <2>2
<1>4. \A d \in 1 .. n : d \in 1 .. n - 1 \/ d = n
  BY <1>1
<1>5. \A d \in 1 .. n - 1 : d \in 1 .. n /\ d # n
  BY <1>1
<1>6. \A p : p \in ToSet(l) <=> \E i \in DOMAIN l : l[i] = p
  BY DEF ToSet
<1> HIDE DEF n
<1>7. Apart(t)
  <2>1. Len(t) = n - 1 /\ \A d \in 1 .. n - 1 : t[d] = s[d] /\ d \in 1 .. Len(s)
    BY <1>3, <1>5 DEF n
  <2> HIDE DEF l
  <2> SUFFICES ASSUME NEW c \in 1 .. Len(t), NEW d \in 1 .. Len(t),
                      NEW i \in DOMAIN t[c].list.items, NEW j \in DOMAIN t[d].list.items,
                      t[c].list.items[i] = t[d].list.items[j]
               PROVE  c = d /\ i = j
    BY DEF Apart
  <2>2. t[c] = s[c] /\ c \in 1 .. Len(s) /\ t[d] = s[d] /\ d \in 1 .. Len(s)
    BY <2>1
  <2> QED
    BY <2>2 DEF Apart
<1>8. Sized(s) => Sized(t)
  BY <1>3, <1>5 DEF Sized, n
<1>9. \A p : p \in Held(t) <=> p \in Held(s) /\ p \notin ToSet(l)
  <2> TAKE p
  <2>1. p \in Held(t) <=>
           \E d \in 1 .. n - 1 : \E i \in DOMAIN t[d].list.items : t[d].list.items[i] = p
    BY <1>3, HeldIs
  <2>2. p \in Held(s) <=>
           \E d \in 1 .. n : \E i \in DOMAIN s[d].list.items : s[d].list.items[i] = p
    BY HeldIs DEF n
  <2>3. \A d \in 1 .. n - 1 : \A i \in DOMAIN s[d].list.items, j \in DOMAIN l :
            s[d].list.items[i] # l[j]
    BY <1>1, <1>5 DEF Apart, n
  <2>4. QED BY <2>1, <2>2, <2>3, <1>1, <1>3, <1>4, <1>5, <1>6
<1>10. QED BY <1>3, <1>7, <1>8, <1>9 DEF n

\* The list of the function on top is another one.
Swapped(t, s, l) ==
    /\ t \in Seq(Frames) /\ Len(t) = Len(s)
    /\ t[Len(s)].ix = s[Len(s)].ix /\ t[Len(s)].list = l
    /\ \A d \in 1 .. Len(s) : d # Len(s) => t[d] = s[d]

LEMMA SwapIs ==
    ASSUME NEW s \in Seq(Frames), Len(s) # 0, NEW l \in PtrLists,
           NEW t, t = [s EXCEPT ![Len(s)].list = l]
    PROVE  Swapped(t, s, l)
<1> DEFINE n == Len(s)
           f == [s[n] EXCEPT !.list = l]
<1>1. n \in Nat /\ n \in 1 .. n
  BY LenProperties
<1>2. s[n] \in Frames /\ s[n].ix \in Nat
  BY <1>1, FrameIs
<1>3. f = [ix |-> s[n].ix, list |-> l]
  BY <1>2 DEF Frames
<1>4. f \in Frames /\ f.ix = s[n].ix /\ f.list = l
  BY <1>2, <1>3 DEF Frames
<1>5. t = [s EXCEPT ![n] = f]
  OBVIOUS
<1> HIDE DEF f
<1>6. t \in Seq(Frames) /\ Len(t) = n /\ t[n] = f /\ \A d \in 1 .. n : d # n => t[d] = s[d]
  BY <1>1, <1>4, <1>5, ExceptSeq
<1>7. QED BY <1>4, <1>6 DEF Swapped

\* A list that keeps its items.
LEMMA SwapKeeps ==
    ASSUME NEW s \in Seq(Frames), Len(s) # 0, NEW l \in PtrLists,
           l.items = s[Len(s)].list.items, l.capacity = s[Len(s)].list.capacity,
           NEW t, Swapped(t, s, l)
    PROVE  /\ Held(t) = Held(s)
           /\ Apart(s) => Apart(t)
           /\ Sized(s) => Sized(t)
<1>1. /\ Len(t) = Len(s) /\ t[Len(s)].list = l
      /\ \A d \in 1 .. Len(s) : d # Len(s) => t[d] = s[d]
  BY DEF Swapped
<1>2. \A d \in 1 .. Len(s) : t[d].list.items = s[d].list.items
                             /\ t[d].list.capacity = s[d].list.capacity
  BY <1>1
<1>3. Held(t) = Held(s)
  BY <1>1, <1>2 DEF Held
<1>4. Apart(s) => Apart(t)
  BY <1>1, <1>2 DEF Apart
<1>5. Sized(s) => Sized(t)
  BY <1>1, <1>2 DEF Sized
<1>6. QED BY <1>3, <1>4, <1>5

\* A string more is in the list.
LEMMA SwapAdds ==
    ASSUME NEW s \in Seq(Frames), Len(s) # 0, Apart(s), NEW l \in PtrLists,
           NEW p \in Nat, p \notin Held(s), l.items = Append(s[Len(s)].list.items, p),
           NEW t, Swapped(t, s, l)
    PROVE  Held(t) = Held(s) \cup {p} /\ Apart(t)
<1> DEFINE n == Len(s)
           items == s[n].list.items
           k == Len(items)
<1>1. n \in Nat /\ n \in 1 .. n
  BY LenProperties
<1>2. /\ t \in Seq(Frames) /\ Len(t) = n /\ t[n].list = l
      /\ \A d \in 1 .. n : d # n => t[d] = s[d]
  BY DEF Swapped
<1>3. items \in Seq(Nat) /\ k \in Nat /\ DOMAIN items = 1 .. k
  BY <1>1, FrameIs
<1>4. DOMAIN l.items = 1 .. k + 1 /\ l.items[k + 1] = p /\ \A i \in 1 .. k : l.items[i] = items[i]
  BY <1>3, AppendProperties, LenProperties
<1>5. \A i \in 1 .. k + 1 : i \in 1 .. k \/ i = k + 1
  BY <1>3
<1>6. \A i \in 1 .. k : i \in 1 .. k + 1
  BY <1>3
<1>7. k + 1 \in 1 .. k + 1
  BY <1>3
<1>8. \A d \in 1 .. n : \A i \in DOMAIN s[d].list.items : s[d].list.items[i] # p
  BY HeldIs
<1>9. \A q : q \in Held(t) <=>
         \E d \in 1 .. n : \E i \in DOMAIN t[d].list.items : t[d].list.items[i] = q
  BY <1>2, HeldIs
<1>10. \A q : q \in Held(s) <=>
         \E d \in 1 .. n : \E i \in DOMAIN s[d].list.items : s[d].list.items[i] = q
  BY HeldIs
<1>11. \A c, d \in 1 .. n : \A i \in DOMAIN s[c].list.items, j \in DOMAIN s[d].list.items :
          s[c].list.items[i] = s[d].list.items[j] => c = d /\ i = j
  BY DEF Apart
<1>12. \A q : (\E i \in DOMAIN l.items : l.items[i] = q) <=>
            q = p \/ \E i \in DOMAIN items : items[i] = q
  BY <1>3, <1>4, <1>5, <1>6, <1>7
<1>13. \A i, j \in DOMAIN l.items : l.items[i] = l.items[j] => i = j
  <2> SUFFICES ASSUME NEW i \in DOMAIN l.items, NEW j \in DOMAIN l.items,
                      l.items[i] = l.items[j]
               PROVE  i = j
    OBVIOUS
  <2>1. \A c \in 1 .. k : items[c] # p
    BY <1>1, <1>3, <1>8
  <2>2. CASE i \in 1 .. k /\ j \in 1 .. k
    BY <2>2, <1>1, <1>3, <1>4, <1>11
  <2>3. CASE i = k + 1 /\ j = k + 1
    BY <2>3
  <2>4. CASE i = k + 1 /\ j \in 1 .. k
    BY <2>1, <2>4, <1>4
  <2>5. CASE i \in 1 .. k /\ j = k + 1
    BY <2>1, <2>5, <1>4
  <2>6. QED BY <2>2, <2>3, <2>4, <2>5, <1>4, <1>5
<1>14. /\ n \in 1 .. n /\ t[n].list = l /\ s[n].list.items = items
       /\ \A d \in 1 .. n : d # n => t[d] = s[d]
  BY <1>1, <1>2
<1> HIDE DEF n, items, k
<1>15. \A q : q \in Held(t) <=> q \in Held(s) \/ q = p
  <2> TAKE q
  <2>1. ASSUME NEW d \in 1 .. n, \E i \in DOMAIN t[d].list.items : t[d].list.items[i] = q
        PROVE  q \in Held(s) \/ q = p
    <3>1. CASE d # n
      <4>1. t[d].list.items = s[d].list.items
        BY <3>1, <1>14
      <4>2. QED BY <2>1, <4>1, <1>10
    <3>2. CASE d = n
      <4>1. t[d].list.items = l.items
        BY <3>2, <1>14
      <4>2. q = p \/ \E i \in DOMAIN items : items[i] = q
        BY <2>1, <4>1, <1>12
      <4>3. QED BY <4>2, <1>10, <1>14
    <3>3. QED BY <3>1, <3>2
  <2>2. ASSUME NEW d \in 1 .. n, \E i \in DOMAIN s[d].list.items : s[d].list.items[i] = q
        PROVE  q \in Held(t)
    <3>1. CASE d # n
      <4>1. t[d].list.items = s[d].list.items
        BY <3>1, <1>14
      <4>2. QED BY <2>2, <4>1, <1>9
    <3>2. CASE d = n
      <4>1. \E i \in DOMAIN items : items[i] = q
        BY <2>2, <3>2, <1>14
      <4>2. \E i \in DOMAIN l.items : l.items[i] = q
        BY <4>1, <1>12
      <4>3. QED BY <4>2, <1>9, <1>14
    <3>3. QED BY <3>1, <3>2
  <2>3. p \in Held(t)
    BY <1>9, <1>12, <1>14
  <2>4. QED BY <2>1, <2>2, <2>3, <1>9, <1>10
<1>16. Apart(t)
  <2> SUFFICES ASSUME NEW c \in 1 .. n, NEW d \in 1 .. n, NEW i \in DOMAIN t[c].list.items,
                      NEW j \in DOMAIN t[d].list.items,
                      t[c].list.items[i] = t[d].list.items[j]
               PROVE  c = d /\ i = j
    BY <1>2 DEF Apart
  <2>1. CASE c # n /\ d # n
    <3>1. t[c].list.items = s[c].list.items /\ t[d].list.items = s[d].list.items
      BY <2>1, <1>14
    <3>2. QED BY <3>1, <1>11
  <2>2. CASE c = n /\ d # n
    <3>1. t[c].list.items = l.items /\ t[d].list.items = s[d].list.items
      BY <2>2, <1>14
    <3>2. s[d].list.items[j] = p \/ \E e \in DOMAIN items : items[e] = s[d].list.items[j]
      BY <3>1, <1>12
    <3>3. QED BY <2>2, <3>1, <3>2, <1>8, <1>11, <1>14
  <2>3. CASE c # n /\ d = n
    <3>1. t[d].list.items = l.items /\ t[c].list.items = s[c].list.items
      BY <2>3, <1>14
    <3>2. s[c].list.items[i] = p \/ \E e \in DOMAIN items : items[e] = s[c].list.items[i]
      BY <3>1, <1>12
    <3>3. QED BY <2>3, <3>1, <3>2, <1>8, <1>11, <1>14
  <2>4. CASE c = n /\ d = n
    BY <2>4, <1>13, <1>14
  <2>5. QED BY <2>1, <2>2, <2>3, <2>4
<1>17. QED BY <1>15, <1>16

\* A list with some parts replaced.
LEMMA ListWithout ==
    ASSUME NEW l \in PtrLists, NEW m, m = [l EXCEPT !.array = FALSE]
    PROVE  /\ m \in PtrLists /\ m.items = l.items /\ m.capacity = l.capacity
           /\ m.array = FALSE
BY DEF PtrLists

LEMMA ListWithItems ==
    ASSUME NEW l \in PtrLists, NEW items \in Seq(Nat), NEW m, m = [l EXCEPT !.items = items]
    PROVE  /\ m \in PtrLists /\ m.items = items /\ m.capacity = l.capacity
           /\ m.array = l.array
BY DEF PtrLists

LEMMA ListWithAll ==
    ASSUME NEW l \in PtrLists, NEW c \in Nat, NEW items \in Seq(Nat),
           NEW m, m = [l EXCEPT !.array = TRUE, !.capacity = c, !.items = items]
    PROVE  m \in PtrLists /\ m.items = items /\ m.capacity = c /\ m.array = TRUE
BY DEF PtrLists

\* A full list is made larger.
LEMMA ResizeIs ==
    ASSUME NEW l \in PtrLists, l.array = TRUE, NEW m, m = Ptrs!_cptrlist_resize(l, TRUE)
    PROVE  /\ m \in PtrLists /\ m.items = l.items /\ m.array = TRUE
           /\ m.capacity = l.capacity + 2 * ListCapacity
<1> DEFINE c == l.capacity + 2 * ListCapacity
           items == l.items
<1>1. /\ l.resize_align = ListCapacity /\ ListCapacity \in Nat /\ l.capacity \in Nat
      /\ items \in Seq(Nat)
  BY SerializerAssumption DEF PtrLists
<1>2. c \in Nat
  BY <1>1
<1>3. m = [l EXCEPT !.array = TRUE, !.capacity = l.capacity + 2 * l.resize_align,
                    !.items = items]
  BY Zenon DEF Ptrs!_cptrlist_resize
<1>4. l.capacity + 2 * l.resize_align = c
  BY <1>1
<1> HIDE DEF c, items
<1> DEFINE x == [l EXCEPT !.array = TRUE, !.capacity = c, !.items = items]
<1>5. m = x
  BY <1>3, <1>4
<1>6. items \in Seq(Nat)
  BY <1>1
<1>7. x \in PtrLists /\ x.items = items /\ x.capacity = c /\ x.array = TRUE
  BY <1>2, <1>6, ListWithAll
<1> HIDE DEF x
<1>8. QED BY <1>5, <1>7 DEF c, items

\* cptrlist_append: a list that is full is made larger, and loses its array where
\* that fails; any other one takes the item.
Appends(l, p, ok, a) ==
    /\ a.list \in PtrLists
    /\ Ptrs!Full(l) /\ ok = FALSE =>
          /\ a.index = 0 /\ a.list.items = l.items /\ a.list.capacity = l.capacity
          /\ a.list.array = FALSE /\ l.items # << >>
    /\ ~(Ptrs!Full(l) /\ ok = FALSE) =>
          /\ a.index > 0 /\ a.list.items = Append(l.items, p) /\ a.list.array = TRUE
          /\ a.list.capacity # 0 /\ Len(a.list.items) <= a.list.capacity

LEMMA AppendIs ==
    ASSUME NEW l \in PtrLists, l.array = TRUE, l.capacity # 0, Len(l.items) <= l.capacity,
           NEW p \in Nat, NEW ok \in BOOLEAN
    PROVE  Appends(l, p, ok, Ptrs!cptrlist_append(l, p, ok))
<1> DEFINE n == Len(l.items)
           more == Append(l.items, p)
           a == Ptrs!cptrlist_append(l, p, ok)
<1>1. /\ l.capacity \in Nat /\ l.items \in Seq(Nat) /\ l.allow_resize = TRUE
      /\ ListCapacity \in Nat \ {0}
  BY SerializerAssumption DEF PtrLists
<1>2. n \in Nat /\ more \in Seq(Nat) /\ Len(more) = n + 1
  BY <1>1, LenProperties, AppendProperties
<1>3. Ptrs!Resizes(l) <=> Ptrs!Full(l)
  BY <1>1 DEF Ptrs!Resizes
<1>4. Ptrs!Full(l) <=> n = l.capacity
  BY DEF Ptrs!Full
<1>5. CASE Ptrs!Full(l) /\ ok = FALSE
  <2> DEFINE room == [l EXCEPT !.array = FALSE]
  <2>1. a = [list |-> room, index |-> 0, fault |-> FALSE]
    BY <1>3, <1>5 DEF Ptrs!cptrlist_append, Ptrs!_cptrlist_resize, Ptrs!Answer
  <2>2. /\ room \in PtrLists /\ room.items = l.items /\ room.capacity = l.capacity
        /\ room.array = FALSE
    BY ListWithout
  <2>3. l.items # << >>
    BY <1>4, <1>5
  <2> HIDE DEF room, a
  <2>4. Appends(l, p, ok, a)
    BY <1>5, <2>1, <2>2, <2>3 DEF Appends
  <2>5. QED BY <2>4 DEF a
<1>6. CASE ~Ptrs!Full(l)
  <2> DEFINE room == [l EXCEPT !.items = more]
  <2>1. a = [list |-> room, index |-> n + 1, fault |-> FALSE]
    BY <1>3, <1>6 DEF Ptrs!cptrlist_append, Ptrs!Answer
  <2> HIDE DEF more
  <2>2. /\ room \in PtrLists /\ room.items = more /\ room.capacity = l.capacity
        /\ room.array = l.array
    BY <1>2, ListWithItems
  <2>3. Len(more) <= l.capacity
    BY <1>1, <1>2, <1>4, <1>6
  <2>4. n + 1 > 0
    BY <1>2
  <2> HIDE DEF room, a, n
  <2>5. Appends(l, p, ok, a)
    BY <1>6, <2>1, <2>2, <2>3, <2>4 DEF Appends, more
  <2>6. QED BY <2>5 DEF a
<1>7. CASE Ptrs!Full(l) /\ ok = TRUE
  <2> DEFINE larger == Ptrs!_cptrlist_resize(l, TRUE)
             room == [larger EXCEPT !.items = Append(@, p)]
             c == l.capacity + 2 * ListCapacity
  <2>1. larger \in PtrLists /\ larger.items = l.items /\ larger.array = TRUE
        /\ larger.capacity = c
    BY ResizeIs
  <2>2. c \in Nat /\ c # 0 /\ n + 1 <= c /\ n # c
    BY <1>1, <1>2, <1>4, <1>7
  <2> HIDE DEF larger, c
  <2>3. ~Ptrs!Full(larger)
    BY <2>1, <2>2 DEF Ptrs!Full
  <2>4. a = [list |-> room, index |-> n + 1, fault |-> FALSE]
    BY <1>3, <1>7, <2>1, <2>3 DEF Ptrs!cptrlist_append, Ptrs!Answer, larger
  <2>5. room = [larger EXCEPT !.items = more]
    BY <2>1
  <2> HIDE DEF room, more, a
  <2>6. room \in PtrLists /\ room.items = more /\ room.capacity = c /\ room.array = TRUE
    BY <1>2, <2>1, <2>5, ListWithItems
  <2>7. n + 1 > 0
    BY <1>2
  <2> HIDE DEF n
  <2>8. Appends(l, p, ok, a)
    BY <1>2, <1>7, <2>2, <2>4, <2>6, <2>7 DEF Appends, more
  <2>9. QED BY <2>8 DEF a
<1>8. QED BY <1>5, <1>6, <1>7
-----------------------------------------------------------------------------
(* The heap in a step.                                                       *)

\* What is there is finite.
LEMMA LiveFinite ==
    ASSUME NEW m \in Heaps, NEW own
    PROVE  IsFiniteSet(Live(m) \ own) /\ Cardinality(Live(m) \ own) \in Nat
<1>1. Live(m) \subseteq 1 .. Len(m.strings) /\ Len(m.strings) \in Nat
  BY HeapIs
<1>2. IsFiniteSet(1 .. Len(m.strings))
  BY <1>1, FS_Interval
<1>3. Live(m) \ own \subseteq 1 .. Len(m.strings)
  BY <1>1
<1>4. IsFiniteSet(Live(m) \ own)
  BY <1>2, <1>3, FS_Subset
<1>5. QED BY <1>4, FS_CardinalityType

\* What is not owned is counted by the allocations that have failed.
LEMMA LossCounted ==
    ASSUME NEW m \in Heaps, NEW own, NEW lost, Kept(m, own, lost), IsFiniteSet(lost),
           NEW n \in Nat, Cardinality(lost) <= n,
           NEW k \in Nat, k >= n, Spent(m) => k >= n + 1
    PROVE  Cardinality(Live(m) \ own) <= k
<1> DEFINE rest == Live(m) \ own
<1>1. IsFiniteSet(rest) /\ Cardinality(rest) \in Nat
  BY LiveFinite
<1>2. Cardinality(lost) \in Nat
  BY FS_CardinalityType
<1> HIDE DEF rest
<1>3. CASE rest \subseteq lost
  <2>1. Cardinality(rest) <= Cardinality(lost)
    BY <1>3, FS_Subset
  <2>2. QED BY <1>1, <1>2, <2>1 DEF rest
<1>4. CASE Spent(m) /\ \E x : rest \subseteq lost \cup {x}
  <2>1. PICK x : rest \subseteq lost \cup {x}
    BY <1>4
  <2>2. IsFiniteSet(lost \cup {x})
    BY FS_AddElement
  <2>3. /\ Cardinality(lost \cup {x}) = Cardinality(lost)
           \/ Cardinality(lost \cup {x}) = Cardinality(lost) + 1
        /\ Cardinality(rest) <= Cardinality(lost \cup {x})
    BY <2>1, <2>2, FS_AddElement, FS_Subset
  <2>4. QED BY <1>1, <1>2, <1>4, <2>3 DEF rest
<1>5. QED BY <1>3, <1>4 DEF Kept, rest

\* A step begins.
LEMMA BeginIs ==
    ASSUME mem \in Heaps, mem.made = 0, mem.crash = FALSE, NEW k \in Nat
    PROVE  /\ Begin(k) \in Heaps /\ Begin(k).strings = mem.strings
           /\ Begin(k).plain = mem.plain /\ Begin(k).made = 0 /\ Begin(k).failing = k
           /\ Begin(k).crash = FALSE /\ Live(Begin(k)) = Live(mem)
           /\ Same(Begin(k), Begin(k))
           /\ Ok(Begin(k)) <=> k # 1
<1>1. Begin(k) \in Heaps /\ Begin(k).strings = mem.strings
      /\ Begin(k).plain = mem.plain /\ Begin(k).made = 0 /\ Begin(k).failing = k
      /\ Begin(k).crash = FALSE
  BY DEF Begin, Heaps
<1>2. Live(Begin(k)) = Live(mem)
  BY <1>1 DEF Live
<1>3. Ok(Begin(k)) <=> k # 1
  BY <1>1 DEF Ok
<1>4. QED BY <1>1, <1>2, <1>3 DEF Same

LEMMA BeginGood ==
    ASSUME mem \in Heaps, mem.made = 0, mem.crash = FALSE, NEW k \in Nat,
           NEW own, \A p \in own : p \in Live(mem) /\ mem.strings[p] \in BuiltString
    PROVE  Good(Begin(k), own, Live(mem) \ own)
BY BeginIs DEF Good, Kept

\* A step ends.
Commits(m, then) ==
    /\ mem' \in Heaps /\ mem'.strings = m.strings /\ mem'.plain = m.plain
    /\ mem'.made = 0 /\ mem'.failing = 0 /\ mem'.crash = m.crash
    /\ Live(mem') = Live(m)
    /\ pc' = IF m.crash THEN "crashed" ELSE then
    /\ fails' \in Nat /\ fails' >= fails
    /\ m.failing # 0 => Spent(m) /\ fails' >= fails + 1 /\ fails' # 0
    /\ Spent(m) => m.failing # 0

LEMMA CommitIs ==
    ASSUME NEW m \in Heaps, NEW then, Commit(m, then), fails \in Nat
    PROVE  Commits(m, then)
<1>1. /\ m.failing \in Nat /\ m.made \in Nat /\ m.failing <= m.made
      /\ fails' = fails + One(m.failing # 0)
      /\ mem' = [m EXCEPT !.made = 0, !.failing = 0]
      /\ pc' = IF m.crash THEN "crashed" ELSE then
  BY DEF Commit, Heaps
<1>2. /\ mem' \in Heaps /\ mem'.strings = m.strings /\ mem'.plain = m.plain
      /\ mem'.made = 0 /\ mem'.failing = 0 /\ mem'.crash = m.crash
  BY <1>1 DEF Heaps
<1>3. Live(mem') = Live(m)
  BY <1>2 DEF Live
<1>4. fails' = fails + (IF m.failing # 0 THEN 1 ELSE 0)
  BY <1>1 DEF One
<1>5. fails' \in Nat /\ fails' >= fails
  BY <1>4
<1>6. m.failing # 0 => Spent(m) /\ fails' >= fails + 1 /\ fails' # 0
  BY <1>1, <1>4 DEF Spent
<1>7. Spent(m) => m.failing # 0
  BY DEF Spent
<1>8. QED BY <1>1, <1>2, <1>3, <1>5, <1>6, <1>7 DEF Commits
-----------------------------------------------------------------------------
(* The steps.                                                                *)

\* While the program has not crashed.
LEMMA InvIs ==
    ASSUME IInv, pc # "crashed"
    PROVE  /\ options \in Options /\ file \in Document /\ given \in Document
           /\ stack \in Seq(Frames) /\ Len(stack) \in Nat /\ Len(stack) <= 3
           /\ result.err \in Errors /\ result.value \in Nat \cup {NULL}
           /\ mem \in Heaps /\ mem.made = 0 /\ mem.crash = FALSE
           /\ fails \in Nat
           /\ Placed(file, stack, pc) /\ Apart(stack) /\ Sized(stack) /\ Holding(stack, mem)
           /\ Lossless(stack, result, mem, fails)
           /\ mem.plain = Len(stack) + One(Len(stack) = 3)
           /\ Settled(stack, result, mem, pc)
<1>1. Types /\ Running(file, stack, result, mem, pc, fails)
  BY DEF IInv
<1>2. mem.crash \in BOOLEAN /\ (mem.crash = TRUE <=> pc = "crashed")
  BY <1>1 DEF Types, Heaps
<1>3. mem.crash = FALSE
  BY <1>2
<1>4. Len(stack) \in Nat
  BY <1>1, LenProperties DEF Types
<1>5. result.err \in Errors /\ result.value \in Nat \cup {NULL}
  BY <1>1 DEF Types
<1>6. QED BY <1>1, <1>3, <1>4, <1>5 DEF Types, Running

\* The types behind a step.
LEMMA TypesKept ==
    ASSUME NEW m \in Heaps, NEW then \in {"idle", "loop", "collect", "exit", "returned"},
           Commits(m, then), options \in Options, options' = options,
           file' \in Document, given' \in Document,
           stack' \in Seq(Frames), Len(stack') <= 3,
           result' \in [err : Errors, value : Nat \cup {NULL}]
    PROVE  Types'
<1>1. m.crash \in BOOLEAN
  BY DEF Heaps
<1>2. mem'.crash = TRUE <=> pc' = "crashed"
  BY <1>1 DEF Commits
<1>3. pc' \in {"idle", "loop", "collect", "exit", "returned", "crashed"}
  BY DEF Commits
<1>4. mem' \in Heaps /\ mem'.made = 0 /\ mem'.failing = 0 /\ fails' \in Nat
  BY DEF Commits
<1>5. QED BY <1>2, <1>3, <1>4 DEF Types

\* What nobody owns stays as it was.
LEMMA LossKept ==
    ASSUME NEW s, NEW r, NEW s2, NEW r2, Ours(s2, r2) = Ours(s, r),
           NEW m \in Heaps, NEW m2, Live(m2) = Live(m),
           NEW n \in Nat, NEW n2 \in Nat, n2 >= n, Lossless(s, r, m, n)
    PROVE  Lossless(s2, r2, m2, n2)
<1> DEFINE c == Cardinality(Live(m) \ Ours(s, r))
<1>1. c \in Nat /\ c <= n
  BY LiveFinite DEF Lossless
<1>2. Cardinality(Live(m2) \ Ours(s2, r2)) = c
  OBVIOUS
<1> HIDE DEF c
<1>3. c <= n2
  BY <1>1
<1>4. QED BY <1>2, <1>3 DEF Lossless

\* Between its children a function owns what is in the lists, which have their
\* arrays.
LEMMA LoopIs ==
    ASSUME IInv, pc = "loop"
    PROVE  /\ Len(stack) \in {1, 2, 3}
           /\ \A d \in 1 .. Len(stack) : stack[d].list.array = TRUE
           /\ result.err = "MCFG_OK" /\ Ours(stack, result) = Held(stack)
           /\ Lossless(stack, result, mem, fails)
           /\ Cardinality(Live(mem) \ Held(stack)) <= fails
           /\ result.value \in {NULL} \cup ToSet(stack[Len(stack)].list.items)
<1>1. /\ stack \in Seq(Frames) /\ Len(stack) \in Nat /\ Len(stack) <= 3
      /\ Placed(file, stack, pc) /\ Settled(stack, result, mem, pc)
      /\ Lossless(stack, result, mem, fails)
  BY InvIs
<1>2. Len(stack) # 0
  BY <1>1 DEF Placed
<1>3. Len(stack) \in {1, 2, 3}
  <2>1. \A n \in Nat : n <= 3 /\ n # 0 => n \in {1, 2, 3}
    OBVIOUS
  <2>2. QED BY <1>1, <1>2, <2>1
<1>4. \A d \in 1 .. Len(stack) : stack[d].list.array \in BOOLEAN /\ stack[d].list.array # FALSE
  <2> TAKE d \in 1 .. Len(stack)
  <2>1. stack[d].list.array \in BOOLEAN
    BY <1>1, FrameIs DEF PtrLists
  <2>2. stack[d].list.array # FALSE
    BY <1>1 DEF Settled
  <2>3. QED BY <2>1, <2>2
<1>5. /\ result.err = "MCFG_OK"
      /\ result.value \in {NULL} \cup ToSet(stack[Len(stack)].list.items)
  BY <1>1 DEF Settled
<1>6. Len(stack) \in 1 .. Len(stack)
  BY <1>1, <1>2
<1>7. ToSet(stack[Len(stack)].list.items) \subseteq Held(stack)
  BY <1>6 DEF Held
<1>8. Ours(stack, result) = Held(stack)
  BY <1>5, <1>7 DEF Ours
<1>9. QED BY <1>1, <1>3, <1>4, <1>5, <1>8 DEF Lossless

\* The allocation of a block that is no string.
LEMMA PlainIs ==
    ASSUME NEW m \in Heaps
    PROVE  /\ Plain(m) \in Heaps /\ Plain(m).strings = m.strings /\ Live(Plain(m)) = Live(m)
           /\ Plain(m).crash = m.crash /\ Plain(m).failing = m.failing
           /\ Plain(m).made = m.made + 1
           /\ Plain(m).plain = IF Ok(m) THEN m.plain + 1 ELSE m.plain
<1>1. /\ Same(Plain(m), m) /\ Plain(m).plain = m.plain + One(Ok(m))
      /\ Plain(m).crash = m.crash /\ Plain(m).made = m.made + 1
  BY Counting, 0 \in Int
<1>2. Plain(m) \in Heaps /\ Plain(m).strings = m.strings /\ Plain(m).failing = m.failing
  BY <1>1 DEF Same
<1>3. Live(Plain(m)) = Live(m)
  BY <1>2 DEF Live
<1>4. m.plain \in Int
  BY DEF Heaps
<1>5. Plain(m).plain = IF Ok(m) THEN m.plain + 1 ELSE m.plain
  BY <1>1, <1>4 DEF One
<1>6. QED BY <1>1, <1>2, <1>3, <1>5

LEMMA CallStep ==
    ASSUME IInv, Call
    PROVE  IInv'
<1> USE DEF Errors
<1>1. pc = "idle" /\ given' = file /\ options' = options /\ file' = file
  BY DEF Call
<1>2. PICK k \in 0 .. StepAllocs :
          LET m == Plain(Begin(k))
          IN  \/ /\ Ok(Begin(k))
                 /\ Commit(m, "loop")
                 /\ stack' = <<NewFrame>> /\ result' = NoResult
              \/ /\ ~Ok(Begin(k))
                 /\ Commit(m, "returned")
                 /\ result' = [NoResult EXCEPT !.err = "MCFG_MALLOC_FAIL"]
                 /\ UNCHANGED stack
  BY DEF Call
<1> DEFINE b == Begin(k)
           m == Plain(b)
<1>3. k \in Nat
  BY SerializerAssumption
<1>4. /\ options \in Options /\ file \in Document /\ stack \in Seq(Frames)
      /\ mem \in Heaps /\ mem.made = 0 /\ mem.crash = FALSE
      /\ fails \in Nat /\ Placed(file, stack, pc) /\ Apart(stack) /\ Sized(stack)
      /\ Holding(stack, mem) /\ Lossless(stack, result, mem, fails)
      /\ mem.plain = Len(stack) + One(Len(stack) = 3)
      /\ Settled(stack, result, mem, pc)
  BY <1>1, InvIs
<1>5. Len(stack) = 0 /\ result = NoResult
  BY <1>1, <1>4 DEF Placed, Settled
<1>6. mem.plain = 0
  BY <1>4, <1>5 DEF One
<1>7. /\ b \in Heaps /\ b.strings = mem.strings /\ b.plain = mem.plain /\ b.failing = k
      /\ b.crash = FALSE /\ Live(b) = Live(mem) /\ (Ok(b) <=> k # 1)
  BY <1>3, <1>4, BeginIs
<1> HIDE DEF b
<1>8. /\ m \in Heaps /\ m.strings = mem.strings /\ m.crash = FALSE /\ m.failing = k
      /\ m.plain = IF Ok(b) THEN 1 ELSE 0
  BY <1>6, <1>7, PlainIs
<1>9. Live(m) = Live(mem)
  BY <1>7, PlainIs
<1> HIDE DEF m
<1>10. Held(stack) = {} /\ stack = << >>
  BY <1>4, <1>5, EmptySeq DEF Held
<1>11. Ours(stack, result) = {}
  BY <1>5, <1>10 DEF Ours, NoResult
<1>12. CASE Ok(b)
  <2>1. Commit(m, "loop") /\ stack' = <<NewFrame>> /\ result' = NoResult
    BY <1>2, <1>12 DEF b, m
  <2>2. Commits(m, "loop")
    BY <1>4, <1>8, <2>1, CommitIs
  <2>3. stack' = Append(stack, NewFrame)
    BY <1>10, <2>1
  <2>4. /\ stack' \in Seq(Frames) /\ Len(stack') = 1 /\ stack'[1] = NewFrame
        /\ Held(stack') = {} /\ Apart(stack') /\ Sized(stack')
    <3>1. /\ stack' \in Seq(Frames) /\ Len(stack') = Len(stack) + 1
          /\ stack'[Len(stack')] = NewFrame /\ Held(stack') = Held(stack)
          /\ Apart(stack') /\ Sized(stack')
      BY <1>4, <2>3, PushIs
    <3>2. QED BY <3>1, <1>5, <1>10
  <2>5. pc' = "loop" /\ mem'.plain = 1 /\ fails' \in Nat /\ fails' >= fails
        /\ Live(mem') = Live(mem) /\ mem'.strings = mem.strings
    BY <1>8, <1>9, <1>12, <2>2 DEF Commits, One
  <2>6. Types'
    <3>1. result' \in [err : Errors, value : Nat \cup {NULL}] /\ Len(stack') <= 3
      BY <2>1, <2>4 DEF NoResult
    <3>2. QED BY <1>1, <1>4, <1>8, <2>2, <2>4, <3>1, TypesKept
  <2>7. Sounds'
    BY <1>1, <2>1, <2>5 DEF Sounds, NoResult
  <2>8. Placed(file', stack', pc')
    <3>1. stack'[1].ix = 0 /\ 0 <= Len(file.sectors)
      BY <1>4, <2>4, NewFrameIs, LenProperties DEF Document
    <3>2. QED BY <1>1, <2>4, <2>5, <3>1 DEF Placed
  <2>9. Holding(stack', mem')
    BY <2>4 DEF Holding
  <2>10. Ours(stack', result') = {}
    BY <2>1, <2>4 DEF Ours, NoResult
  <2>11. Lossless(stack', result', mem', fails')
    BY <1>4, <1>11, <2>5, <2>10, LossKept
  <2>12. mem'.plain = Len(stack') + One(Len(stack') = 3)
    BY <2>4, <2>5 DEF One
  <2>13. Settled(stack', result', mem', pc')
    <3>1. \A d \in 1 .. Len(stack') : stack'[d].list.array # FALSE
      <4>1. \A d \in 1 .. 1 : d = 1
        OBVIOUS
      <4>2. QED BY <2>4, <4>1, NewFrameIs
    <3>2. QED BY <2>1, <2>5, <3>1 DEF Settled, NoResult
  <2>14. Running(file', stack', result', mem', pc', fails')
    BY <2>4, <2>8, <2>9, <2>11, <2>12, <2>13 DEF Running
  <2>15. QED BY <2>6, <2>7, <2>14 DEF IInv
<1>13. CASE ~Ok(b)
  <2>1. /\ Commit(m, "returned") /\ stack' = stack
        /\ result' = [NoResult EXCEPT !.err = "MCFG_MALLOC_FAIL"]
    BY <1>2, <1>13 DEF b, m
  <2>2. Commits(m, "returned")
    BY <1>4, <1>8, <2>1, CommitIs
  <2>3. result' = [err |-> "MCFG_MALLOC_FAIL", value |-> NULL]
    BY <2>1 DEF NoResult
  <2>4. /\ pc' = "returned" /\ mem'.plain = 0 /\ fails' \in Nat /\ fails' >= fails
        /\ Live(mem') = Live(mem) /\ mem'.strings = mem.strings /\ fails' # 0
    BY <1>7, <1>8, <1>9, <1>13, <2>2 DEF Commits, One
  <2>5. Types'
    <3>1. result' \in [err : Errors, value : Nat \cup {NULL}]
      BY <2>3
    <3>2. Len(stack') <= 3
      BY <1>5, <2>1
    <3>3. QED BY <1>1, <1>4, <1>8, <2>1, <2>2, <3>1, <3>2, TypesKept
  <2>6. Sounds'
    BY <1>1, <2>4 DEF Sounds
  <2>7. Placed(file', stack', pc')
    BY <1>5, <2>1, <2>4 DEF Placed
  <2>8. Holding(stack', mem')
    BY <1>10, <2>1 DEF Holding
  <2>9. Ours(stack', result') = {}
    BY <1>10, <2>1, <2>3 DEF Ours
  <2>10. Lossless(stack', result', mem', fails')
    BY <1>4, <1>11, <2>4, <2>9, LossKept
  <2>11. mem'.plain = Len(stack') + One(Len(stack') = 3)
    BY <1>5, <2>1, <2>4 DEF One
  <2>12. Settled(stack', result', mem', pc')
    <3>1. \A d \in 1 .. Len(stack') : FALSE
      BY <1>5, <2>1
    <3>2. QED BY <2>3, <2>4, <3>1 DEF Settled
  <2>13. Running(file', stack', result', mem', pc', fails')
    BY <1>4, <2>1, <2>7, <2>8, <2>10, <2>11, <2>12 DEF Running
  <2>14. QED BY <2>5, <2>6, <2>13 DEF IInv
<1>14. QED BY <1>12, <1>13

\* Freeing a string that is there.
LEMMA FreeThere ==
    ASSUME NEW m \in Heaps, NEW p \in Live(m)
    PROVE  /\ Free(m, p) \in Heaps /\ Live(Free(m, p)) = Live(m) \ {p}
           /\ Free(m, p).failing = m.failing /\ Free(m, p).plain = m.plain
           /\ Free(m, p).crash = m.crash /\ Free(m, p).made = m.made
<1> DEFINE f == Free(m, p)
           t == [m.strings EXCEPT ![p] = NULL]
<1>1. p # NULL /\ p \in DOMAIN m.strings
  BY HeapIs
<1>2. t \in Seq(FitString \cup {NULL})
  BY <1>1, SlotCleared
<1>3. f = WithStrings(m, t)
  BY <1>1 DEF Free, WithStrings
<1>4. DOMAIN t = DOMAIN m.strings
      /\ \A q \in DOMAIN m.strings : t[q] = IF q = p THEN NULL ELSE m.strings[q]
  OBVIOUS
<1> HIDE DEF f, t
<1>5. /\ f \in Heaps /\ f.strings = t /\ f.plain = m.plain /\ f.made = m.made
      /\ f.failing = m.failing /\ f.crash = m.crash
  BY <1>2, <1>3, StringsReplaced
<1>6. Live(f) = Live(m) \ {p}
  BY <1>1, <1>4, <1>5 DEF Live
<1>7. QED BY <1>5, <1>6 DEF f

LEMMA StoppedStep ==
    ASSUME IInv, UNCHANGED vars
    PROVE  IInv'
<1>1. /\ options' = options /\ file' = file /\ given' = given /\ stack' = stack
      /\ result' = result /\ mem' = mem /\ pc' = pc /\ fails' = fails
  BY DEF vars
<1>2. Types' /\ Sounds'
  BY <1>1 DEF IInv, Types, Sounds
<1>3. QED BY <1>1, <1>2 DEF IInv

LEMMA ReleaseStep ==
    ASSUME IInv, Release
    PROVE  IInv'
<1>1. /\ pc = "returned" /\ result' = NoResult /\ options' = options /\ file' = file
      /\ given' = given /\ stack' = stack
  BY DEF Release
<1> DEFINE b == Begin(0)
           p == result.value
           m == IF result.err = "MCFG_OK" THEN Free(b, p) ELSE b
<1>2. Commit(m, "idle")
  BY DEF Release
<1>3. /\ options \in Options /\ file \in Document /\ given \in Document
      /\ stack \in Seq(Frames) /\ result.err \in Errors /\ p \in Nat \cup {NULL}
      /\ mem \in Heaps /\ mem.made = 0 /\ mem.crash = FALSE /\ fails \in Nat
      /\ Placed(file, stack, pc) /\ Apart(stack) /\ Sized(stack)
      /\ Lossless(stack, result, mem, fails)
      /\ mem.plain = Len(stack) + One(Len(stack) = 3)
      /\ Settled(stack, result, mem, pc)
  BY <1>1, InvIs
<1>4. Len(stack) = 0
  BY <1>1, <1>3 DEF Placed
<1>5. result.err = "MCFG_OK" => p \in Live(mem)
  BY <1>1, <1>3 DEF Settled
<1>6. /\ b \in Heaps /\ b.plain = mem.plain /\ b.failing = 0 /\ b.crash = FALSE
      /\ Live(b) = Live(mem)
  BY <1>3, BeginIs, 0 \in Nat
<1> HIDE DEF b
<1>7. Held(stack) = {}
  BY <1>4 DEF Held
<1>8. /\ m \in Heaps /\ m.plain = mem.plain /\ m.failing = 0 /\ m.crash = FALSE
      /\ Live(m) = Live(mem) \ Ours(stack, result)
  <2>1. CASE result.err = "MCFG_OK"
    <3>1. p \in Live(b) /\ p # NULL
      BY <2>1, <1>3, <1>5, <1>6, HeapIs
    <3>2. Ours(stack, result) = {p}
      BY <2>1, <1>7, <3>1 DEF Ours
    <3> HIDE DEF p
    <3>3. /\ Free(b, p) \in Heaps /\ Live(Free(b, p)) = Live(b) \ {p}
          /\ Free(b, p).failing = b.failing /\ Free(b, p).plain = b.plain
          /\ Free(b, p).crash = b.crash
      BY <1>6, <3>1, FreeThere
    <3>4. QED BY <2>1, <3>2, <3>3, <1>6
  <2>2. CASE result.err # "MCFG_OK"
    <3>1. Ours(stack, result) = {}
      BY <2>2, <1>7 DEF Ours
    <3>2. QED BY <2>2, <3>1, <1>6
  <2>3. QED BY <2>1, <2>2
<1> HIDE DEF m, p
<1>9. Commits(m, "idle")
  BY <1>2, <1>3, <1>8, CommitIs
<1>10. /\ pc' = "idle" /\ mem'.plain = mem.plain /\ fails' \in Nat /\ fails' >= fails
       /\ Live(mem') = Live(mem) \ Ours(stack, result)
  BY <1>8, <1>9 DEF Commits
<1>11. Types'
  <2>1. result' \in [err : Errors, value : Nat \cup {NULL}]
    BY <1>1 DEF NoResult, Errors
  <2>2. Len(stack') <= 3
    BY <1>1, <1>4
  <2>3. QED BY <1>1, <1>3, <1>8, <1>9, <2>1, <2>2, TypesKept
<1>12. Sounds'
  <2>1. Sounds
    BY DEF IInv
  <2>2. fails' = 0 => fails = 0
    BY <1>3, <1>10
  <2>3. QED BY <1>1, <1>10, <2>1, <2>2 DEF Sounds, NoResult
<1>13. Placed(file', stack', pc')
  BY <1>1, <1>4, <1>10 DEF Placed
<1>14. Holding(stack', mem')
  BY <1>1, <1>7 DEF Holding
<1>15. Ours(stack', result') = {}
  BY <1>1, <1>7 DEF Ours, NoResult
<1>16. Lossless(stack', result', mem', fails')
  <2> DEFINE c == Cardinality(Live(mem) \ Ours(stack, result))
  <2>1. c \in Nat /\ c <= fails
    BY <1>3, LiveFinite DEF Lossless
  <2>2. Cardinality(Live(mem') \ Ours(stack', result')) = c
    <3>1. Live(mem') \ Ours(stack', result') = Live(mem) \ Ours(stack, result)
      BY <1>10, <1>15
    <3>2. QED BY <3>1
  <2> HIDE DEF c
  <2>3. c <= fails'
    BY <1>3, <1>10, <2>1
  <2>4. QED BY <2>2, <2>3 DEF Lossless
<1>17. Settled(stack', result', mem', pc')
  <2>1. \A d \in 1 .. Len(stack') : FALSE
    BY <1>1, <1>4
  <2>2. QED BY <1>1, <1>10, <2>1 DEF Settled, NoResult
<1>18. Running(file', stack', result', mem', pc', fails')
  BY <1>1, <1>3, <1>10, <1>13, <1>14, <1>16, <1>17 DEF Running
<1>19. QED BY <1>11, <1>12, <1>18 DEF IInv

\* The parts of a document.
LEMMA DocumentIs ==
    ASSUME NEW doc \in Document
    PROVE  /\ Len(doc.sectors) \in Nat /\ DOMAIN doc.sectors = 1 .. Len(doc.sectors)
           /\ \A i \in 1 .. Len(doc.sectors) : doc.sectors[i] \in DocSector
<1>1. doc.sectors \in Seq(DocSector)
  BY DEF Document
<1>2. QED BY <1>1, LenProperties, ElementOfSeq

LEMMA SectorIs ==
    ASSUME NEW sector \in DocSector
    PROVE  /\ sector.name.base \in Text
           /\ Len(sector.sections) \in Nat /\ DOMAIN sector.sections = 1 .. Len(sector.sections)
           /\ \A j \in 1 .. Len(sector.sections) : sector.sections[j] \in DocSection
<1>1. sector.sections \in Seq(DocSection) /\ sector.name \in Name
  BY DEF DocSector
<1>2. sector.name.base \in Text
  BY <1>1, SerializerAssumption DEF Name
<1>3. QED BY <1>1, <1>2, LenProperties, ElementOfSeq

LEMMA SectionIs ==
    ASSUME NEW section \in DocSection
    PROVE  /\ section.name.base \in Text
           /\ Len(section.fields) \in Nat /\ DOMAIN section.fields = 1 .. Len(section.fields)
           /\ \A k \in 1 .. Len(section.fields) : section.fields[k] \in DocField
<1>1. section.fields \in Seq(DocField) /\ section.name \in Name
  BY DEF DocSection
<1>2. section.name.base \in Text
  BY <1>1, SerializerAssumption DEF Name
<1>3. QED BY <1>1, <1>2, LenProperties, ElementOfSeq

\* The children of the function on top, and those of a child.
LEMMA ChildrenAre ==
    ASSUME file \in Document, stack \in Seq(Frames), Len(stack) \in {1, 2, 3},
           Placed(file, stack, pc)
    PROVE  /\ Len(Children) \in Nat /\ Top.ix \in Nat
           /\ Len(stack) >= 2 => stack[1].ix \in 1 .. Len(file.sectors)
                                 /\ ThisSector \in DocSector
           /\ Len(stack) = 3 => stack[2].ix \in 1 .. Len(ThisSector.sections)
                                /\ ThisSection \in DocSection
           /\ Len(stack) = 1 => Children = file.sectors
           /\ Len(stack) = 2 => Children = ThisSector.sections
           /\ Len(stack) = 3 => Children = ThisSection.fields
<1>1. \A d \in 1 .. Len(stack) : stack[d].ix \in Nat
  BY FrameIs
<1>2. Top.ix \in Nat
  BY <1>1 DEF Top, Depth
<1>3. ASSUME Len(stack) >= 2
      PROVE  stack[1].ix \in 1 .. Len(file.sectors) /\ ThisSector \in DocSector
  <2>1. stack[1].ix \in Nat /\ stack[1].ix # 0 /\ stack[1].ix <= Len(file.sectors)
    BY <1>1, <1>3 DEF Placed
  <2>2. stack[1].ix \in 1 .. Len(file.sectors)
    BY <2>1, DocumentIs
  <2>3. QED BY <2>2, DocumentIs DEF ThisSector
<1>4. ASSUME Len(stack) = 3
      PROVE  stack[2].ix \in 1 .. Len(ThisSector.sections) /\ ThisSection \in DocSection
  <2>1. stack[2].ix \in Nat /\ stack[2].ix # 0 /\ stack[2].ix <= Len(ThisSector.sections)
    BY <1>1, <1>4 DEF Placed, ThisSector
  <2>2. ThisSector \in DocSector
    BY <1>3, <1>4
  <2>3. Len(ThisSector.sections) \in Nat
    BY <2>2, SectorIs
  <2>4. stack[2].ix \in 1 .. Len(ThisSector.sections)
    BY <2>1, <2>3
  <2>5. QED BY <2>2, <2>4, SectorIs DEF ThisSection
<1>5. /\ Len(stack) = 1 => Children = file.sectors
      /\ Len(stack) = 2 => Children = ThisSector.sections
      /\ Len(stack) = 3 => Children = ThisSection.fields
  <2>1. CASE Len(stack) = 1
    BY <2>1 DEF Children, Depth
  <2>2. CASE Len(stack) = 2
    BY <2>2 DEF Children, Depth
  <2>3. CASE Len(stack) = 3
    BY <2>3 DEF Children, Depth
  <2>4. QED BY <2>1, <2>2, <2>3
<1>6. Len(Children) \in Nat
  <2>1. CASE Len(stack) = 1
    BY <2>1, <1>5, DocumentIs
  <2>2. CASE Len(stack) = 2
    BY <2>2, <1>3, <1>5, SectorIs
  <2>3. CASE Len(stack) = 3
    BY <2>3, <1>4, <1>5, SectionIs
  <2>4. QED BY <2>1, <2>2, <2>3
<1>7. QED BY <1>2, <1>3, <1>4, <1>5, <1>6

\* The next child is one.
LEMMA PlacedNext ==
    ASSUME file \in Document, stack \in Seq(Frames), Len(stack) \in {1, 2, 3},
           Placed(file, stack, pc), More, NEW p, p \notin {"idle", "returned"}
    PROVE  /\ Placed(file, NextChild, p)
           /\ NextChild \in Seq(Frames) /\ SameLists(NextChild, stack)
           /\ NextChild[Len(stack)].ix = Top.ix + 1
           /\ Top.ix + 1 \in 1 .. Len(Children)
           /\ \A d \in 1 .. Len(stack) - 1 : NextChild[d] = stack[d]
<1> DEFINE t == NextChild
           n == Len(stack)
<1>1. /\ t \in Seq(Frames) /\ SameLists(t, stack) /\ t[n].ix = stack[n].ix + 1
      /\ \A d \in 1 .. n - 1 : t[d] = stack[d]
  <2> DEFINE x == [stack EXCEPT ![Len(stack)].ix = @ + 1]
  <2>1. Len(stack) # 0
    OBVIOUS
  <2>2. /\ x \in Seq(Frames) /\ SameLists(x, stack)
        /\ x[Len(stack)].ix = stack[Len(stack)].ix + 1
        /\ \A d \in 1 .. Len(stack) - 1 : x[d] = stack[d]
    BY <2>1, NextChildIs
  <2>3. t = x
    BY DEF NextChild, Depth
  <2> HIDE DEF t, x
  <2>4. QED BY <2>2, <2>3
<1>2. Top.ix = stack[n].ix
  BY DEF Top, Depth
<1>3. Len(Children) \in Nat /\ Top.ix \in Nat
  BY ChildrenAre
<1>4. Top.ix + 1 \in 1 .. Len(Children)
  BY <1>3 DEF More
<1>5. Len(t) = n
  BY <1>1 DEF SameLists
<1> HIDE DEF t
<1>6. CASE n = 1
  <2>1. Children = file.sectors
    BY <1>6, ChildrenAre
  <2>2. t[1].ix <= Len(file.sectors)
    BY <1>1, <1>2, <1>4, <1>6, <2>1
  <2>3. Placed(file, t, p)
    BY <1>5, <1>6, <2>2 DEF Placed
  <2>4. QED BY <1>1, <1>2, <1>4, <2>3 DEF t
<1>7. CASE n = 2
  <2>1. Children = file.sectors[stack[1].ix].sections
    BY <1>7, ChildrenAre DEF ThisSector
  <2>2. t[1] = stack[1]
    BY <1>1, <1>7
  <2>3. t[2].ix <= Len(file.sectors[t[1].ix].sections)
    BY <1>1, <1>2, <1>4, <1>7, <2>1, <2>2
  <2>4. t[1].ix # 0 /\ t[1].ix <= Len(file.sectors)
    BY <1>7, <2>2 DEF Placed
  <2>5. Placed(file, t, p)
    BY <1>5, <1>7, <2>3, <2>4 DEF Placed
  <2>6. QED BY <1>1, <1>2, <1>4, <2>5 DEF t
<1>8. CASE n = 3
  <2>1. Children = file.sectors[stack[1].ix].sections[stack[2].ix].fields
    BY <1>8, ChildrenAre DEF ThisSector, ThisSection
  <2>2. t[1] = stack[1] /\ t[2] = stack[2]
    BY <1>1, <1>8
  <2>3. t[3].ix <= Len(file.sectors[t[1].ix].sections[t[2].ix].fields)
    BY <1>1, <1>2, <1>4, <1>8, <2>1, <2>2
  <2>4. /\ t[1].ix # 0 /\ t[1].ix <= Len(file.sectors)
        /\ t[2].ix # 0 /\ t[2].ix <= Len(file.sectors[t[1].ix].sections)
    BY <1>8, <2>2 DEF Placed
  <2>5. Placed(file, t, p)
    BY <1>5, <1>8, <2>3, <2>4 DEF Placed
  <2>6. QED BY <1>1, <1>2, <1>4, <2>5 DEF t
<1>9. QED BY <1>6, <1>7, <1>8

\* A function called for the next child is at its beginning.
LEMMA PlacedPush ==
    ASSUME file \in Document, NEW t \in Seq(Frames), Len(t) \in {1, 2},
           NEW q, q \notin {"idle", "returned"}, Placed(file, t, q), t[Len(t)].ix # 0,
           NEW u, u = Append(t, NewFrame)
    PROVE  Placed(file, u, q)
<1>1. /\ Len(u) = Len(t) + 1 /\ u[Len(u)] = NewFrame /\ \A d \in 1 .. Len(t) : u[d] = t[d]
  BY PushIs
<1>2. \A d \in 1 .. Len(t) : t[d].ix \in Nat
  BY FrameIs
<1>3. t[1].ix \in 1 .. Len(file.sectors)
  <2>1. t[1].ix \in Nat /\ t[1].ix # 0 /\ t[1].ix <= Len(file.sectors)
    BY <1>2 DEF Placed
  <2>2. QED BY <2>1, DocumentIs
<1>4. file.sectors[t[1].ix] \in DocSector
  BY <1>3, DocumentIs
<1>5. CASE Len(t) = 1
  <2>1. u[1] = t[1] /\ u[2].ix = 0 /\ Len(u) = 2
    BY <1>1, <1>5, NewFrameIs
  <2>2. 0 <= Len(file.sectors[t[1].ix].sections)
    BY <1>4, SectorIs
  <2>3. t[1].ix # 0 /\ t[1].ix <= Len(file.sectors)
    BY <1>5 DEF Placed
  <2>4. QED BY <2>1, <2>2, <2>3 DEF Placed
<1>6. CASE Len(t) = 2
  <2>1. u[1] = t[1] /\ u[2] = t[2] /\ u[3].ix = 0 /\ Len(u) = 3
    BY <1>1, <1>6, NewFrameIs
  <2>2. t[2].ix # 0 /\ t[2].ix <= Len(file.sectors[t[1].ix].sections)
    BY <1>6 DEF Placed
  <2>3. t[2].ix \in 1 .. Len(file.sectors[t[1].ix].sections)
    BY <1>2, <1>4, <1>6, <2>2, SectorIs
  <2>4. file.sectors[t[1].ix].sections[t[2].ix] \in DocSection
    BY <1>4, <2>3, SectorIs
  <2>5. 0 <= Len(file.sectors[t[1].ix].sections[t[2].ix].fields)
    BY <2>4, SectionIs
  <2>6. t[1].ix # 0 /\ t[1].ix <= Len(file.sectors)
    BY <1>6 DEF Placed
  <2>7. QED BY <2>1, <2>2, <2>5, <2>6 DEF Placed
<1>7. QED BY <1>5, <1>6

\* One block more for the indent of a section.
LEMMA OneMore == \A n : (n = 3 => One(n = 3) = 1) /\ (n # 3 => One(n = 3) = 0)
BY DEF One

\* A list and an indent, or neither.
LEMMA EnterAllocates ==
    ASSUME IInv, pc = "loop", Len(stack) \in {1, 2}, NEW k \in Nat,
           NEW m, m = IF Depth = 1 THEN Plain(Begin(k)) ELSE Plain(Plain(Begin(k)))
    PROVE  /\ m \in Heaps /\ m.strings = mem.strings /\ Live(m) = Live(mem)
           /\ m.crash = FALSE /\ m.failing = k
           /\ k = 0 => m.plain = mem.plain + Depth
<1> DEFINE b == Begin(k)
           c == Plain(b)
           e == Plain(c)
<1>1. mem \in Heaps /\ mem.made = 0 /\ mem.crash = FALSE
  BY InvIs
<1>2. /\ b \in Heaps /\ b.strings = mem.strings /\ b.plain = mem.plain /\ b.made = 0
      /\ b.failing = k /\ b.crash = FALSE /\ Live(b) = Live(mem)
  BY <1>1, BeginIs
<1> HIDE DEF b
<1>3. /\ c \in Heaps /\ c.strings = b.strings /\ Live(c) = Live(b)
      /\ c.crash = b.crash /\ c.failing = b.failing /\ c.made = b.made + 1
      /\ c.plain = IF Ok(b) THEN b.plain + 1 ELSE b.plain
  BY <1>2, PlainIs
<1> HIDE DEF c
<1>4. /\ e \in Heaps /\ e.strings = c.strings /\ Live(e) = Live(c)
      /\ e.crash = c.crash /\ e.failing = c.failing
      /\ e.plain = IF Ok(c) THEN c.plain + 1 ELSE c.plain
  BY <1>3, PlainIs
<1> HIDE DEF e
<1>5. mem.plain \in Int
  BY <1>1 DEF Heaps
<1>6. k = 0 => Ok(b) /\ Ok(c)
  BY <1>2, <1>3 DEF Ok
<1>7. k = 0 => c.plain = mem.plain + 1 /\ e.plain = mem.plain + 2
  BY <1>2, <1>3, <1>4, <1>5, <1>6
<1>8. CASE Len(stack) = 1
  <2>1. m = c
    BY <1>8 DEF Depth, c, b
  <2>2. QED BY <1>2, <1>3, <1>7, <1>8, <2>1 DEF Depth
<1>9. CASE Len(stack) = 2
  <2>1. m = e
    BY <1>9 DEF Depth, e, c, b
  <2>2. QED BY <1>2, <1>3, <1>4, <1>7, <1>9, <2>1 DEF Depth
<1>10. QED BY <1>8, <1>9

LEMMA EnterStep ==
    ASSUME IInv, Enter
    PROVE  IInv'
<1>1. /\ pc = "loop" /\ Depth < 3 /\ More
      /\ options' = options /\ file' = file /\ given' = given
  BY DEF Enter
<1>2. PICK k \in 0 .. StepAllocs :
          LET first == Begin(k)
              m     == IF Depth = 1 THEN Plain(first) ELSE Plain(Plain(first))
              ok    == m.plain = mem.plain + Depth
          IN  \/ /\ ok
                 /\ Commit(m, "loop")
                 /\ stack' = Append(NextChild, NewFrame) /\ result' = NoResult
              \/ /\ ~ok
                 /\ Commit([m EXCEPT !.plain = mem.plain], "collect")
                 /\ stack' = NextChild
                 /\ result' = [NoResult EXCEPT !.err = "MCFG_MALLOC_FAIL"]
  BY DEF Enter
<1> DEFINE m == IF Depth = 1 THEN Plain(Begin(k)) ELSE Plain(Plain(Begin(k)))
           n == Len(stack)
           t == NextChild
<1>3. k \in Nat
  BY SerializerAssumption
<1>4. /\ options \in Options /\ file \in Document /\ given \in Document
      /\ stack \in Seq(Frames) /\ Len(stack) \in Nat
      /\ mem \in Heaps /\ mem.made = 0 /\ mem.crash = FALSE
      /\ fails \in Nat /\ Placed(file, stack, pc) /\ Apart(stack) /\ Sized(stack)
      /\ Holding(stack, mem) /\ mem.plain = Len(stack) + One(Len(stack) = 3)
  BY <1>1, InvIs
<1>5. /\ Len(stack) \in {1, 2, 3} /\ \A d \in 1 .. n : stack[d].list.array = TRUE
      /\ Ours(stack, result) = Held(stack) /\ result.err = "MCFG_OK"
      /\ Lossless(stack, result, mem, fails)
  BY <1>1, LoopIs
<1>6. n \in {1, 2}
  BY <1>1, <1>5 DEF Depth
<1>7. mem.plain = n
  <2>1. mem.plain = n + One(n = 3)
    BY <1>4
  <2>2. One(n = 3) = 0
    BY <1>6, OneMore
  <2>3. QED BY <1>6, <2>1, <2>2
<1>8. /\ m \in Heaps /\ m.strings = mem.strings /\ Live(m) = Live(mem)
      /\ m.crash = FALSE /\ m.failing = k
      /\ k = 0 => m.plain = mem.plain + Depth
  BY <1>1, <1>3, <1>6, EnterAllocates
<1> HIDE DEF m
<1>9. /\ \A p : p \notin {"idle", "returned"} => Placed(file, t, p)
      /\ t \in Seq(Frames) /\ SameLists(t, stack) /\ t[n].ix = Top.ix + 1
      /\ Top.ix + 1 \in 1 .. Len(Children)
  BY <1>1, <1>4, <1>5, PlacedNext
<1>10. Len(t) = n /\ \A d \in 1 .. n : t[d].list = stack[d].list
  BY <1>9 DEF SameLists
<1> HIDE DEF t
<1>11. Held(t) = Held(stack) /\ Apart(t) /\ Sized(t)
  BY <1>4, <1>9, SameListsKeep
<1>12. Sounds
  BY DEF IInv
<1>13. CASE m.plain = mem.plain + Depth
  <2>1. Commit(m, "loop") /\ stack' = Append(t, NewFrame) /\ result' = NoResult
    BY <1>2, <1>13 DEF m, t
  <2>2. Commits(m, "loop")
    BY <1>4, <1>8, <2>1, CommitIs
  <2>3. /\ stack' \in Seq(Frames) /\ Len(stack') = n + 1
        /\ stack'[Len(stack')] = NewFrame /\ \A d \in 1 .. n : stack'[d] = t[d]
        /\ Held(stack') = Held(stack) /\ Apart(stack') /\ Sized(stack')
    BY <1>9, <1>10, <1>11, <2>1, PushIs
  <2>4. /\ pc' = "loop" /\ mem'.plain = n + n /\ fails' \in Nat /\ fails' >= fails
        /\ Live(mem') = Live(mem) /\ mem'.strings = mem.strings
    BY <1>7, <1>8, <1>13, <2>2 DEF Commits, Depth
  <2>5. Types'
    <3>1. result' \in [err : Errors, value : Nat \cup {NULL}]
      BY <2>1 DEF NoResult, Errors
    <3>2. Len(stack') <= 3
      <4>1. \A x \in {1, 2} : x + 1 <= 3
        OBVIOUS
      <4>2. QED BY <1>6, <2>3, <4>1
    <3>3. QED BY <1>1, <1>4, <1>8, <2>2, <2>3, <3>1, <3>2, TypesKept
  <2>6. Sounds'
    <3>1. fails' = 0 => fails = 0
      BY <1>4, <2>4
    <3>2. QED BY <1>1, <1>12, <2>1, <2>4, <3>1 DEF Sounds, NoResult
  <2>7. Placed(file', stack', pc')
    <3>1. t[n].ix # 0
      <4>1. \A x \in Nat : \A y \in 1 .. x : y # 0
        OBVIOUS
      <4>2. Len(Children) \in Nat
        BY <1>4, <1>5, ChildrenAre
      <4>3. QED BY <1>9, <4>1, <4>2
    <3>2. Placed(file, t, "loop")
      BY <1>9
    <3>3. Len(t) \in {1, 2} /\ t[Len(t)].ix # 0
      BY <1>6, <1>10, <3>1
    <3>4. Placed(file, stack', "loop")
      BY <1>4, <1>9, <2>1, <3>2, <3>3, PlacedPush
    <3>5. QED BY <1>1, <2>4, <3>4
  <2>8. Holding(stack', mem')
    BY <1>4, <2>3, <2>4 DEF Holding
  <2>9. Ours(stack', result') = Ours(stack, result)
    BY <1>5, <2>1, <2>3 DEF Ours, NoResult
  <2>10. Lossless(stack', result', mem', fails')
    BY <1>4, <1>5, <2>4, <2>9, LossKept
  <2>11. mem'.plain = Len(stack') + One(Len(stack') = 3)
    <3>1. CASE n = 1
      BY <2>3, <2>4, <3>1 DEF One
    <3>2. CASE n = 2
      BY <2>3, <2>4, <3>2 DEF One
    <3>3. QED BY <1>6, <3>1, <3>2
  <2>12. Settled(stack', result', mem', pc')
    <3>1. \A d \in 1 .. Len(stack') : stack'[d].list.array # FALSE
      <4> TAKE d \in 1 .. Len(stack')
      <4>1. d \in 1 .. n \/ d = n + 1
        BY <1>6, <2>3
      <4>2. CASE d \in 1 .. n
        BY <4>2, <1>5, <1>10, <2>3
      <4>3. CASE d = n + 1
        BY <4>3, <2>3, NewFrameIs
      <4>4. QED BY <4>1, <4>2, <4>3
    <3>2. QED BY <2>1, <2>4, <3>1 DEF Settled, NoResult
  <2>13. Running(file', stack', result', mem', pc', fails')
    BY <2>3, <2>7, <2>8, <2>10, <2>11, <2>12 DEF Running
  <2>14. QED BY <2>5, <2>6, <2>13 DEF IInv
<1>14. CASE m.plain # mem.plain + Depth
  <2> DEFINE m2 == [m EXCEPT !.plain = mem.plain]
  <2>1. /\ Commit(m2, "collect") /\ stack' = t
        /\ result' = [NoResult EXCEPT !.err = "MCFG_MALLOC_FAIL"]
    BY <1>2, <1>14 DEF m, t
  <2>2. result' = [err |-> "MCFG_MALLOC_FAIL", value |-> NULL]
    BY <2>1 DEF NoResult
  <2>3. /\ m2 \in Heaps /\ m2.strings = m.strings /\ m2.crash = FALSE /\ m2.failing = k
        /\ m2.plain = n
    BY <1>4, <1>7, <1>8 DEF Heaps
  <2>4. Live(m2) = Live(mem) /\ k # 0
    BY <1>8, <1>14, <2>3 DEF Live
  <2> HIDE DEF m2
  <2>5. Commits(m2, "collect")
    BY <1>4, <2>1, <2>3, CommitIs
  <2>6. /\ pc' = "collect" /\ mem'.plain = n /\ fails' \in Nat /\ fails' >= fails
        /\ Live(mem') = Live(mem) /\ mem'.strings = mem.strings /\ fails' # 0
    BY <1>8, <2>3, <2>4, <2>5 DEF Commits
  <2>7. Types'
    <3>1. result' \in [err : Errors, value : Nat \cup {NULL}]
      BY <2>2 DEF Errors
    <3>2. stack' \in Seq(Frames) /\ Len(stack') <= 3
      BY <1>6, <1>9, <1>10, <2>1
    <3>3. QED BY <1>1, <1>4, <2>3, <2>5, <3>1, <3>2, TypesKept
  <2>8. Sounds'
    BY <1>1, <1>12, <2>6 DEF Sounds
  <2>9. Placed(file', stack', pc')
    BY <1>1, <1>9, <2>1, <2>6
  <2>10. Holding(stack', mem')
    BY <1>4, <1>11, <2>1, <2>6 DEF Holding
  <2>11. Ours(stack', result') = Ours(stack, result)
    BY <1>5, <1>11, <2>1, <2>2 DEF Ours
  <2>12. Lossless(stack', result', mem', fails')
    BY <1>4, <1>5, <2>6, <2>11, LossKept
  <2>13. mem'.plain = Len(stack') + One(Len(stack') = 3)
    <3>1. Len(stack') = n /\ n # 3 /\ n \in Nat
      <4>1. \A x \in {1, 2} : x # 3 /\ x \in Nat
        OBVIOUS
      <4>2. n # 3 /\ n \in Nat
        BY <1>6, <4>1
      <4>3. Len(stack') = n
        BY <1>10, <2>1
      <4>4. QED BY <4>2, <4>3
    <3> HIDE DEF n
    <3>2. One(Len(stack') = 3) = 0
      BY <3>1, OneMore
    <3>3. QED BY <2>6, <3>1, <3>2
  <2>14. Settled(stack', result', mem', pc')
    <3>1. \A d \in 1 .. Len(stack') : stack'[d].list.array # FALSE
      BY <1>5, <1>10, <2>1
    <3>2. result'.value \notin Live(mem')
      BY <1>4, <2>2, <2>6, HeapIs
    <3>3. QED BY <2>2, <2>6, <3>1, <3>2 DEF Settled
  <2>15. Running(file', stack', result', mem', pc', fails')
    BY <1>11, <2>1, <2>9, <2>10, <2>12, <2>13, <2>14 DEF Running
  <2>16. QED BY <2>7, <2>8, <2>15 DEF IInv
<1>15. QED BY <1>13, <1>14

\* When a function has been called, the lists have their arrays.
LEMMA CollectIs ==
    ASSUME IInv, pc = "collect"
    PROVE  /\ Len(stack) \in {1, 2, 3} /\ Len(stack) # 0
           /\ \A d \in 1 .. Len(stack) : stack[d].list.array = TRUE
           /\ result.err = "MCFG_OK" =>
                 /\ result.value \in Nat /\ result.value \in Live(mem)
                 /\ result.value \notin Held(stack)
                 /\ mem.strings[result.value] \in BuiltString
                 /\ Ours(stack, result) = Held(stack) \cup {result.value}
           /\ result.err # "MCFG_OK" =>
                 /\ Ours(stack, result) = Held(stack)
                 /\ result.value \in Live(mem) =>
                       result.value \in ToSet(stack[Len(stack)].list.items)
<1>1. /\ stack \in Seq(Frames) /\ Len(stack) \in Nat /\ Len(stack) <= 3
      /\ Placed(file, stack, pc) /\ Settled(stack, result, mem, pc)
      /\ mem \in Heaps
  BY InvIs
<1>2. Len(stack) # 0
  BY <1>1 DEF Placed
<1>3. Len(stack) \in {1, 2, 3}
  <2>1. \A n \in Nat : n <= 3 /\ n # 0 => n \in {1, 2, 3}
    OBVIOUS
  <2>2. QED BY <1>1, <1>2, <2>1
<1>4. \A d \in 1 .. Len(stack) : stack[d].list.array = TRUE
  <2> TAKE d \in 1 .. Len(stack)
  <2>1. stack[d].list.array \in BOOLEAN
    BY <1>1, FrameIs DEF PtrLists
  <2>2. stack[d].list.array # FALSE
    BY <1>1 DEF Settled
  <2>3. QED BY <2>1, <2>2
<1>5. ASSUME result.err = "MCFG_OK"
      PROVE  /\ result.value \in Nat /\ result.value \in Live(mem)
             /\ result.value \notin Held(stack)
             /\ mem.strings[result.value] \in BuiltString
             /\ Ours(stack, result) = Held(stack) \cup {result.value}
  <2>1. /\ result.value \in Live(mem) \ Held(stack)
        /\ mem.strings[result.value] \in BuiltString
    BY <1>1, <1>5 DEF Settled
  <2>2. result.value \in Nat /\ result.value # NULL
    BY <1>1, <2>1, HeapIs
  <2>3. QED BY <1>5, <2>1, <2>2 DEF Ours
<1>6. ASSUME result.err # "MCFG_OK"
      PROVE  /\ Ours(stack, result) = Held(stack)
             /\ result.value \in Live(mem) =>
                   result.value \in ToSet(stack[Len(stack)].list.items)
  <2>1. result.value \in Live(mem) =>
           result.value \in ToSet(stack[Len(stack)].list.items)
              \/ stack[Len(stack)].list.array = FALSE
    BY <1>1, <1>6 DEF Settled
  <2>2. Len(stack) \in 1 .. Len(stack)
    BY <1>1, <1>2
  <2>3. Ours(stack, result) = Held(stack)
    BY <1>6 DEF Ours
  <2>4. stack[Len(stack)].list.array = TRUE
    BY <1>4, <2>2
  <2>5. QED BY <2>1, <2>3, <2>4
<1>7. QED BY <1>2, <1>3, <1>4, <1>5, <1>6

\* An error ends the caller too.
LEMMA CollectError ==
    ASSUME IInv, pc = "collect", result.err # "MCFG_OK", Commit(Begin(0), "exit"),
           options' = options, file' = file, given' = given, stack' = stack, result' = result
    PROVE  IInv'
<1> DEFINE m == Begin(0)
<1>1. /\ options \in Options /\ file \in Document /\ given \in Document
      /\ stack \in Seq(Frames) /\ Len(stack) \in Nat /\ Len(stack) <= 3
      /\ mem \in Heaps /\ mem.made = 0 /\ mem.crash = FALSE
      /\ fails \in Nat /\ Placed(file, stack, pc) /\ Apart(stack) /\ Sized(stack)
      /\ Holding(stack, mem) /\ mem.plain = Len(stack) + One(Len(stack) = 3)
      /\ Lossless(stack, result, mem, fails) /\ Settled(stack, result, mem, pc)
  BY InvIs
<1>2. result \in [err : Errors, value : Nat \cup {NULL}] /\ Sounds
  BY DEF IInv, Types
<1>3. /\ Len(stack) # 0 /\ \A d \in 1 .. Len(stack) : stack[d].list.array = TRUE
      /\ result.value \in Live(mem) => result.value \in ToSet(stack[Len(stack)].list.items)
  BY CollectIs
<1>4. /\ m \in Heaps /\ m.plain = mem.plain /\ m.strings = mem.strings /\ m.crash = FALSE
      /\ Live(m) = Live(mem)
  BY <1>1, BeginIs, 0 \in Nat
<1> HIDE DEF m
<1>5. Commits(m, "exit")
  BY <1>1, <1>4, CommitIs DEF m
<1>6. /\ pc' = "exit" /\ mem'.plain = mem.plain /\ fails' \in Nat /\ fails' >= fails
      /\ Live(mem') = Live(mem) /\ mem'.strings = mem.strings
  BY <1>4, <1>5 DEF Commits
<1>7. Types'
  BY <1>1, <1>2, <1>4, <1>5, TypesKept
<1>8. Sounds'
  <2>1. fails' = 0 => fails = 0
    BY <1>1, <1>6
  <2>2. QED BY <1>2, <1>6, <2>1 DEF Sounds
<1>9. Placed(file', stack', pc')
  BY <1>1, <1>3, <1>6 DEF Placed
<1>10. Holding(stack', mem')
  BY <1>1, <1>6 DEF Holding
<1>11. Lossless(stack', result', mem', fails')
  <2>1. Ours(stack', result') = Ours(stack, result)
    OBVIOUS
  <2>2. QED BY <1>1, <1>6, <2>1, LossKept
<1>12. Settled(stack', result', mem', pc')
  <2>1. \A d \in 1 .. Len(stack') : stack'[d].list.array # FALSE
    BY <1>3
  <2>2. QED BY <1>3, <1>6, <2>1 DEF Settled
<1>13. Running(file', stack', result', mem', pc', fails')
  BY <1>1, <1>6, <1>9, <1>10, <1>11, <1>12 DEF Running
<1>14. QED BY <1>7, <1>8, <1>13 DEF IInv

\* Memory for a larger list, if it is full.
LEMMA CollectAllocates ==
    ASSUME IInv, pc = "collect", NEW k \in Nat,
           NEW m, m = IF Ptrs!Full(Top.list) THEN Made(Begin(k)) ELSE Begin(k)
    PROVE  /\ m \in Heaps /\ m.strings = mem.strings /\ Live(m) = Live(mem)
           /\ m.crash = FALSE /\ m.failing = k /\ m.plain = mem.plain
<1> DEFINE b == Begin(k)
           c == Made(b)
<1>1. mem \in Heaps /\ mem.made = 0 /\ mem.crash = FALSE
  BY InvIs
<1>2. /\ b \in Heaps /\ b.strings = mem.strings /\ b.plain = mem.plain
      /\ b.failing = k /\ b.crash = FALSE /\ Live(b) = Live(mem)
  BY <1>1, BeginIs
<1> HIDE DEF b
<1>3. Same(c, b) /\ c.plain = b.plain /\ c.crash = b.crash
  BY <1>2, Counting, 0 \in Int
<1> HIDE DEF c
<1>4. c \in Heaps /\ c.strings = b.strings /\ c.failing = b.failing
  BY <1>3 DEF Same
<1>5. Live(c) = Live(b)
  BY <1>4 DEF Live
<1>6. m = IF Ptrs!Full(Top.list) THEN c ELSE b
  BY DEF b, c
<1>7. CASE m = c
  BY <1>2, <1>3, <1>4, <1>5, <1>7
<1>8. CASE m = b
  BY <1>2, <1>8
<1>9. QED BY <1>6, <1>7, <1>8

\* A text goes into the list of the caller.
Collects(k, add) ==
    /\ Appends(stack[Len(stack)].list, result.value, (k # 1), add)
    /\ \E m \in Heaps :
          /\ m.strings = mem.strings /\ Live(m) = Live(mem) /\ m.crash = FALSE
          /\ m.failing = k /\ m.plain = mem.plain
          /\ Commits(m, IF add.index > 0 THEN "loop" ELSE "exit")
    /\ stack' = [stack EXCEPT ![Len(stack)].list = add.list]
    /\ result' = IF add.index > 0 THEN result ELSE [result EXCEPT !.err = "MCFG_MALLOC_FAIL"]

LEMMA CollectsIs ==
    ASSUME IInv, Collect, result.err = "MCFG_OK"
    PROVE  \E k \in Nat : \E add : Collects(k, add)
<1>1. PICK k \in 0 .. StepAllocs :
         LET full == Ptrs!Full(Top.list)
             m    == IF full THEN Made(Begin(k)) ELSE Begin(k)
             add  == Ptrs!cptrlist_append(Top.list, result.value, Ok(Begin(k)))
         IN  /\ Commit(m, IF add.index > 0 THEN "loop" ELSE "exit")
             /\ stack' = [stack EXCEPT ![Depth].list = add.list]
             /\ result' = IF add.index > 0 THEN result
                          ELSE [result EXCEPT !.err = "MCFG_MALLOC_FAIL"]
  BY DEF Collect
<1> DEFINE b   == Begin(k)
           m   == IF Ptrs!Full(Top.list) THEN Made(b) ELSE b
           add == Ptrs!cptrlist_append(Top.list, result.value, Ok(b))
           then == IF add.index > 0 THEN "loop" ELSE "exit"
           l   == stack[Len(stack)].list
<1>2. k \in Nat /\ pc = "collect"
  BY SerializerAssumption DEF Collect
<1>3. /\ mem \in Heaps /\ mem.made = 0 /\ mem.crash = FALSE /\ fails \in Nat
      /\ stack \in Seq(Frames) /\ Sized(stack) /\ Len(stack) \in Nat
  BY <1>2, InvIs
<1>4. /\ Len(stack) # 0 /\ \A d \in 1 .. Len(stack) : stack[d].list.array = TRUE
      /\ result.value \in Nat
  BY <1>2, CollectIs
<1>5. Len(stack) \in 1 .. Len(stack)
  BY <1>3, <1>4
<1>6. l \in PtrLists /\ l.array = TRUE /\ l.capacity # 0 /\ Len(l.items) <= l.capacity
  BY <1>3, <1>4, <1>5, FrameIs DEF Sized
<1>7. Top.list = l
  BY DEF Top, Depth
<1>8. Ok(b) = (k # 1)
  <2>1. Ok(b) <=> k # 1
    BY <1>2, <1>3, BeginIs
  <2>2. Ok(b) \in BOOLEAN
    BY DEF Ok
  <2>3. QED BY <2>1, <2>2
<1>9. (k # 1) \in BOOLEAN
  OBVIOUS
<1>10. add = Ptrs!cptrlist_append(l, result.value, (k # 1))
  BY <1>7, <1>8
<1>11. /\ m \in Heaps /\ m.strings = mem.strings /\ Live(m) = Live(mem)
       /\ m.crash = FALSE /\ m.failing = k /\ m.plain = mem.plain
  BY <1>2, CollectAllocates
<1>12. Commit(m, then)
  BY <1>1
<1>13. /\ stack' = [stack EXCEPT ![Len(stack)].list = add.list]
       /\ result' = IF add.index > 0 THEN result
                    ELSE [result EXCEPT !.err = "MCFG_MALLOC_FAIL"]
  BY <1>1 DEF Depth
<1> HIDE DEF m, b, add, l
<1>14. Appends(l, result.value, (k # 1), add)
  BY <1>4, <1>6, <1>9, <1>10, AppendIs
<1>15. Commits(m, then)
  BY <1>3, <1>11, <1>12, CommitIs
<1>16. Collects(k, add)
  BY <1>11, <1>13, <1>14, <1>15 DEF Collects, l
<1>17. QED BY <1>2, <1>16

LEMMA CollectText ==
    ASSUME IInv, Collect, result.err = "MCFG_OK"
    PROVE  IInv'
<1> DEFINE p == result.value
           n == Len(stack)
           l == stack[n].list
<1>1. /\ pc = "collect" /\ options' = options /\ file' = file /\ given' = given
  BY DEF Collect
<1>2. PICK k \in Nat : \E add : Collects(k, add)
  BY CollectsIs
<1>3. PICK add : Collects(k, add)
  BY <1>2
<1>4. PICK m \in Heaps :
          /\ m.strings = mem.strings /\ Live(m) = Live(mem) /\ m.crash = FALSE
          /\ m.failing = k /\ m.plain = mem.plain
          /\ Commits(m, IF add.index > 0 THEN "loop" ELSE "exit")
  BY <1>3 DEF Collects
<1>5. /\ Appends(l, p, (k # 1), add)
      /\ stack' = [stack EXCEPT ![n].list = add.list]
      /\ result' = IF add.index > 0 THEN result ELSE [result EXCEPT !.err = "MCFG_MALLOC_FAIL"]
  BY <1>3 DEF Collects
<1>6. /\ options \in Options /\ file \in Document /\ given \in Document
      /\ stack \in Seq(Frames) /\ n \in Nat /\ n <= 3
      /\ mem \in Heaps /\ fails \in Nat /\ Placed(file, stack, pc) /\ Apart(stack)
      /\ Sized(stack) /\ Holding(stack, mem) /\ mem.plain = n + One(n = 3)
      /\ Lossless(stack, result, mem, fails)
  BY <1>1, InvIs
<1>7. result \in [err : Errors, value : Nat \cup {NULL}] /\ Sounds
  BY DEF IInv, Types
<1>8. /\ n # 0 /\ \A d \in 1 .. n : stack[d].list.array = TRUE
      /\ p \in Nat /\ p \in Live(mem) /\ p \notin Held(stack)
      /\ mem.strings[p] \in BuiltString /\ Ours(stack, result) = Held(stack) \cup {p}
  BY <1>1, CollectIs
<1>9. n \in 1 .. n
  BY <1>6, <1>8
<1>10. add.list \in PtrLists
  BY <1>5 DEF Appends
<1>11. Swapped(stack', stack, add.list)
  <2> DEFINE x == [stack EXCEPT ![Len(stack)].list = add.list]
  <2>1. Swapped(x, stack, add.list)
    BY <1>6, <1>8, <1>10, SwapIs
  <2>2. stack' = x
    BY <1>5
  <2> HIDE DEF x
  <2>3. QED BY <2>1, <2>2
<1>12. /\ stack' \in Seq(Frames) /\ Len(stack') = n /\ stack'[n].list = add.list
       /\ \A d \in 1 .. n : stack'[d].ix = stack[d].ix
       /\ \A d \in 1 .. n : d # n => stack'[d] = stack[d]
  BY <1>11 DEF Swapped
<1>13. \A q : q \notin {"idle", "returned"} => Placed(file, stack', q)
  <2>1. n >= 1 => 1 \in 1 .. n
    BY <1>6
  <2>2. n >= 2 => 1 \in 1 .. n /\ 2 \in 1 .. n
    BY <1>6
  <2>3. n = 3 => 1 \in 1 .. n /\ 2 \in 1 .. n /\ 3 \in 1 .. n
    OBVIOUS
  <2> HIDE DEF n
  <2>4. Placed(file, stack, "collect") /\ Len(stack) = n
    BY <1>1, <1>6 DEF n
  <2>5. QED BY <1>8, <1>12, <2>1, <2>2, <2>3, <2>4 DEF Placed
<1>14. /\ fails' \in Nat /\ fails' >= fails /\ mem'.plain = mem.plain
       /\ Live(mem') = Live(mem) /\ mem'.strings = mem.strings
       /\ pc' = IF add.index > 0 THEN "loop" ELSE "exit"
       /\ k # 0 => fails' >= fails + 1 /\ fails' # 0 /\ Spent(m)
  BY <1>4 DEF Commits
<1>15. mem'.plain = Len(stack') + One(Len(stack') = 3)
  BY <1>6, <1>12, <1>14
<1>16. ASSUME result' \in [err : Errors, value : Nat \cup {NULL}] PROVE Types'
  <2> DEFINE then == IF add.index > 0 THEN "loop" ELSE "exit"
  <2>1. then \in {"idle", "loop", "collect", "exit", "returned"}
    OBVIOUS
  <2>2. Commits(m, then)
    BY <1>4
  <2>3. Len(stack') <= 3
    BY <1>6, <1>12
  <2> HIDE DEF then
  <2>4. QED BY <1>1, <1>6, <1>12, <1>16, <2>1, <2>2, <2>3, TypesKept
<1> HIDE DEF p, n, l
<1>17. CASE Ptrs!Full(l) /\ (k # 1) = FALSE
  <2>1. /\ add.index = 0 /\ add.list.items = l.items /\ add.list.capacity = l.capacity
        /\ add.list.array = FALSE /\ l.items # << >>
    BY <1>5, <1>17 DEF Appends
  <2>2. k = 1
    BY <1>17
  <2>3. result' = [err |-> "MCFG_MALLOC_FAIL", value |-> p]
    BY <1>5, <1>7, <2>1 DEF p
  <2>4. pc' = "exit"
    BY <1>14, <2>1
  <2>5. fails' >= fails + 1 /\ fails' # 0 /\ Spent(m)
    BY <1>14, <2>2
  <2>6. Types'
    BY <1>8, <1>16, <2>3 DEF Errors
  <2>7. Sounds'
    BY <1>1, <1>7, <2>5 DEF Sounds
  <2>8. Held(stack') = Held(stack) /\ Apart(stack') /\ Sized(stack')
    BY <1>6, <1>8, <1>10, <1>11, <2>1, SwapKeeps DEF l, n
  <2>9. Placed(file', stack', pc')
    BY <1>1, <1>13, <2>4
  <2>10. Holding(stack', mem')
    BY <1>6, <1>14, <2>8 DEF Holding
  <2>11. Ours(stack', result') = Held(stack)
    BY <2>3, <2>8 DEF Ours
  <2>12. Lossless(stack', result', mem', fails')
    <3> DEFINE lost == Live(mem) \ Ours(stack, result)
               own  == Held(stack)
    <3>1. Live(m) \ own \subseteq lost \cup {p}
      BY <1>4, <1>8
    <3>2. Kept(m, own, lost)
      BY <2>5, <3>1 DEF Kept
    <3>3. IsFiniteSet(lost) /\ Cardinality(lost) <= fails
      BY <1>6, LiveFinite DEF Lossless
    <3> HIDE DEF lost, own
    <3>4. Cardinality(Live(m) \ own) <= fails'
      BY <1>6, <1>14, <2>5, <3>2, <3>3, LossCounted
    <3>5. Live(mem') = Live(m)
      BY <1>4, <1>14
    <3>6. QED BY <2>11, <3>4, <3>5 DEF Lossless, own
  <2>13. Settled(stack', result', mem', pc')
    <3>1. \A d \in 1 .. Len(stack') : stack'[d].list.array = FALSE => d = Len(stack')
      BY <1>8, <1>12
    <3>2. /\ stack'[Len(stack')].list.array = FALSE
          /\ stack'[Len(stack')].list.items # << >>
      BY <1>12, <2>1
    <3>3. result'.err # "MCFG_OK"
      BY <2>3
    <3>4. QED BY <2>4, <3>1, <3>2, <3>3 DEF Settled
  <2>14. Running(file', stack', result', mem', pc', fails')
    BY <1>15, <2>8, <2>9, <2>10, <2>12, <2>13 DEF Running
  <2>15. QED BY <2>6, <2>7, <2>14 DEF IInv
<1>18. CASE ~(Ptrs!Full(l) /\ (k # 1) = FALSE)
  <2>1. /\ add.index > 0 /\ add.list.items = Append(l.items, p) /\ add.list.array = TRUE
        /\ add.list.capacity # 0 /\ Len(add.list.items) <= add.list.capacity
    BY <1>5, <1>18 DEF Appends
  <2>2. result' = result /\ pc' = "loop"
    BY <1>5, <1>14, <2>1
  <2>3. Types'
    BY <1>7, <1>16, <2>2
  <2>4. Sounds'
    <3>1. fails' = 0 => fails = 0
      BY <1>6, <1>14
    <3>2. QED BY <1>1, <1>7, <2>2, <3>1 DEF Sounds
  <2>5. Held(stack') = Held(stack) \cup {p} /\ Apart(stack')
    BY <1>6, <1>8, <1>10, <1>11, <2>1, SwapAdds DEF l, n
  <2>6. Sized(stack')
    BY <1>6, <1>12, <2>1 DEF Sized, n
  <2>7. Placed(file', stack', pc')
    BY <1>1, <1>13, <2>2
  <2>8. Holding(stack', mem')
    BY <1>6, <1>8, <1>14, <2>5 DEF Holding
  <2>9. Ours(stack', result') = Ours(stack, result)
    BY <1>8, <2>2, <2>5 DEF Ours, p
  <2>10. Lossless(stack', result', mem', fails')
    BY <1>6, <1>14, <2>9, LossKept
  <2>11. Settled(stack', result', mem', pc')
    <3>1. \A d \in 1 .. Len(stack') : stack'[d].list.array # FALSE
      BY <1>8, <1>12, <2>1
    <3>2. p \in ToSet(stack'[Len(stack')].list.items)
      <4>1. l.items \in Seq(Nat)
        BY <1>6, <1>9, FrameIs DEF n, l
      <4>2. p \in ToSet(Append(l.items, p))
        BY <1>8, <4>1, AppendProperties, LenProperties DEF ToSet
      <4>3. QED BY <1>12, <2>1, <4>2
    <3>3. QED BY <2>2, <3>1, <3>2 DEF Settled, p
  <2>12. Running(file', stack', result', mem', pc', fails')
    BY <1>15, <2>5, <2>6, <2>7, <2>8, <2>10, <2>11 DEF Running
  <2>13. QED BY <2>3, <2>4, <2>12 DEF IInv
<1>19. QED BY <1>17, <1>18

LEMMA CollectStep ==
    ASSUME IInv, Collect
    PROVE  IInv'
<1>1. CASE result.err = "MCFG_OK"
  BY <1>1, CollectText
<1>2. CASE result.err # "MCFG_OK"
  <2>1. /\ pc = "collect" /\ Commit(Begin(0), "exit") /\ stack' = stack /\ result' = result
        /\ options' = options /\ file' = file /\ given' = given
    BY <1>2 DEF Collect
  <2>2. QED BY <1>2, <2>1, CollectError
<1>3. QED BY <1>1, <1>2

\* The list on top holds strings that are there.
LEMMA LoopTopBuilt ==
    ASSUME IInv, pc = "loop"
    PROVE  TopBuilt
<1> DEFINE n == Len(stack)
           items == stack[n].list.items
<1>1. stack \in Seq(Frames) /\ n \in Nat /\ Holding(stack, mem) /\ mem \in Heaps
  BY InvIs
<1>2. n \in {1, 2, 3}
  BY LoopIs
<1>3. n \in 1 .. n
  BY <1>1, <1>2
<1>4. items \in Seq(Nat)
  BY <1>1, <1>3, FrameIs
<1>5. ToSet(items) \subseteq Held(stack)
  BY <1>3 DEF Held
<1>6. \A p \in ToSet(items) : p \in Live(mem) /\ mem.strings[p] \in BuiltString
  BY <1>1, <1>5 DEF Holding
<1>7. Top.list.items = items
  BY DEF Top, Depth
<1> HIDE DEF items
<1>8. items \in Seq(Live(mem))
  <2>1. \A S, T : \A s \in Seq(S) : (\A i \in 1 .. Len(s) : s[i] \in T) => s \in Seq(T)
    OBVIOUS
  <2>2. \A i \in 1 .. Len(items) : items[i] \in Live(mem)
    BY <1>4, <1>6, LenProperties DEF ToSet
  <2>3. QED BY <1>4, <2>1, <2>2
<1>9. QED BY <1>1, <1>6, <1>7, <1>8 DEF TopBuilt

\* A text has been written, or memory has run out.
WritesText(w, m) ==
    /\ Wrote(w, m, Held(stack), Live(mem) \ Held(stack))
    /\ Len(stack) > 1 /\ w.err = "MCFG_OK" => w.m.strings[w.value] \in BuiltString

LEMMA WriteEnds ==
    ASSUME IInv, pc = "loop", NEW k \in Nat, NEW w, WritesText(w, Begin(k)),
           Commit(w.m, "exit"), result' = [err |-> w.err, value |-> w.value],
           options' = options, file' = file, given' = given, stack' = stack
    PROVE  IInv'
<1> DEFINE own  == Held(stack)
           lost == Live(mem) \ own
           m    == w.m
           v    == w.value
           e    == w.err
<1>1. /\ options \in Options /\ file \in Document /\ given \in Document
      /\ stack \in Seq(Frames) /\ Len(stack) \in Nat /\ Len(stack) <= 3
      /\ mem \in Heaps /\ mem.made = 0 /\ mem.crash = FALSE
      /\ fails \in Nat /\ Placed(file, stack, pc) /\ Apart(stack) /\ Sized(stack)
      /\ Holding(stack, mem) /\ mem.plain = Len(stack) + One(Len(stack) = 3)
  BY InvIs
<1>2. /\ Len(stack) # 0 /\ \A d \in 1 .. Len(stack) : stack[d].list.array = TRUE
      /\ Cardinality(lost) <= fails
  <2>1. /\ Len(stack) \in {1, 2, 3} /\ \A d \in 1 .. Len(stack) : stack[d].list.array = TRUE
        /\ Cardinality(lost) <= fails
    BY LoopIs
  <2>2. QED BY <2>1
<1>3. Sounds
  BY DEF IInv
<1>4. Begin(k).failing = k /\ Begin(k).plain = mem.plain
  BY <1>1, BeginIs
<1>5. Wrote(w, Begin(k), own, lost)
  BY DEF WritesText
<1>6. /\ w \in Builders /\ (e # "MCFG_OK" => v = NULL) /\ v \notin own
      /\ m.failing = k /\ m.plain = mem.plain /\ m.crash = FALSE
      /\ Plus(own, v) \subseteq Live(m)
      /\ \A p \in own : m.strings[p] \in BuiltString
      /\ Kept(m, Plus(own, v), lost)
      /\ e = "MCFG_OK" => v # NULL
      /\ k = 0 => e = "MCFG_OK"
  BY <1>4, <1>5 DEF Wrote, Clean
<1>7. Len(stack) > 1 /\ e = "MCFG_OK" => m.strings[v] \in BuiltString
  BY DEF WritesText
<1>8. m \in Heaps /\ v \in Nat \cup {NULL} /\ e \in Errors
  BY <1>6 DEF Builders
<1>9. NULL \notin Live(m) /\ NULL \notin Nat
  BY <1>8, HeapIs, NullIsNone
<1>10. result'.err = e /\ result'.value = v /\ result' \in [err : Errors, value : Nat \cup {NULL}]
  BY <1>8
<1> HIDE DEF m, v, e
<1>11. Commits(m, "exit")
  BY <1>1, <1>8, CommitIs DEF m
<1>12. /\ pc' = "exit" /\ mem'.plain = mem.plain /\ fails' \in Nat /\ fails' >= fails
       /\ Live(mem') = Live(m) /\ mem'.strings = m.strings
       /\ k # 0 => Spent(m) /\ fails' >= fails + 1 /\ fails' # 0
       /\ Spent(m) => k # 0
  BY <1>6, <1>11 DEF Commits
<1>13. Types'
  BY <1>1, <1>8, <1>10, <1>11, TypesKept
<1>14. Sounds'
  <2>1. fails' = 0 => fails = 0 /\ k = 0
    BY <1>1, <1>12
  <2>2. QED BY <1>3, <1>6, <1>10, <1>12, <2>1 DEF Sounds
<1>15. Placed(file', stack', pc')
  BY <1>1, <1>2, <1>12 DEF Placed
<1>16. Holding(stack', mem')
  <2>1. \A p \in own : p \in Live(m) /\ m.strings[p] \in BuiltString
    BY <1>6 DEF Plus
  <2>2. QED BY <1>12, <2>1 DEF Holding
<1>17. Ours(stack', result') = Plus(own, v)
  BY <1>6, <1>10 DEF Ours, Plus
<1>18. Lossless(stack', result', mem', fails')
  <2>1. IsFiniteSet(lost)
    BY <1>1, LiveFinite
  <2>2. Spent(m) => fails' >= fails + 1
    BY <1>12
  <2> HIDE DEF lost, own
  <2>3. Cardinality(Live(m) \ Plus(own, v)) <= fails'
    BY <1>1, <1>2, <1>6, <1>8, <1>12, <2>1, <2>2, LossCounted
  <2>4. QED BY <1>12, <1>17, <2>3 DEF Lossless
<1>19. Settled(stack', result', mem', pc')
  <2>1. \A d \in 1 .. Len(stack') : stack'[d].list.array # FALSE
    BY <1>2
  <2>2. result'.err = "MCFG_OK" =>
           /\ result'.value \in Live(mem') \ Held(stack')
           /\ Len(stack') > 1 => mem'.strings[result'.value] \in BuiltString
    BY <1>6, <1>7, <1>10, <1>12 DEF Plus
  <2>3. result'.err # "MCFG_OK" => result'.value \notin Live(mem')
    BY <1>6, <1>9, <1>10, <1>12
  <2>4. QED BY <1>12, <2>1, <2>2, <2>3 DEF Settled
<1>20. Running(file', stack', result', mem', pc', fails')
  BY <1>1, <1>12, <1>15, <1>16, <1>18, <1>19 DEF Running
<1>21. QED BY <1>13, <1>14, <1>20 DEF IInv

LEMMA WriteStep ==
    ASSUME IInv, Write
    PROVE  IInv'
<1>1. /\ pc = "loop" /\ options' = options /\ file' = file /\ given' = given /\ stack' = stack
  BY DEF Write
<1>2. PICK k \in 0 .. StepAllocs :
         LET m == Begin(k)
             w == CASE Depth = 3 -> AppendAll(NewSized(m, Lengths + strlen(_make_indent(1)) + 13
                                                         + strlen(ThisSection.name.base)), SectionPieces)
                    [] Depth = 2 -> AppendAll(NewSized(m, Lengths + 12
                                                         + strlen(ThisSector.name.base)), SectorPieces)
                    [] Depth = 1 -> FileString(m)
         IN  /\ Commit(w.m, "exit")
             /\ result' = [err |-> w.err, value |-> w.value]
  BY DEF Write
<1> DEFINE m    == Begin(k)
           own  == Held(stack)
           lost == Live(mem) \ own
           n3   == Lengths + strlen(_make_indent(1)) + 13 + strlen(ThisSection.name.base)
           n2   == Lengths + 12 + strlen(ThisSector.name.base)
           w3   == AppendAll(NewSized(m, n3), SectionPieces)
           w2   == AppendAll(NewSized(m, n2), SectorPieces)
           w1   == FileString(m)
<1>3. k \in Nat
  BY SerializerAssumption
<1>4. /\ options \in Options /\ file \in Document /\ stack \in Seq(Frames)
      /\ mem \in Heaps /\ mem.made = 0 /\ mem.crash = FALSE
      /\ Placed(file, stack, pc) /\ Holding(stack, mem)
  BY <1>1, InvIs
<1>5. Len(stack) \in {1, 2, 3}
  BY <1>1, LoopIs
<1>6. TopBuilt /\ Lengths \in Nat
  BY <1>1, LoopTopBuilt, LengthsSum
<1>7. m.crash = FALSE
  BY <1>3, <1>4, BeginIs
<1>8. Good(m, own, lost)
  <2>1. \A p \in own : p \in Live(mem) /\ mem.strings[p] \in BuiltString
    BY <1>4 DEF Holding
  <2>2. QED BY <1>3, <1>4, <2>1, BeginGood
<1> HIDE DEF m, own, lost
<1>9. CASE Len(stack) = 3
  <2>1. ThisSection.name.base \in Text
    BY <1>4, <1>5, <1>9, ChildrenAre, SectionIs
  <2>2. SectionPieces \in Seq(Text)
    BY <1>4, <1>6, <2>1, SectionPiecesType
  <2>3. n3 \in Nat
    <3>1. strlen(ThisSection.name.base) \in Nat /\ strlen(_make_indent(1)) \in Nat
      BY <1>4, <2>1, IndentType, StrlenType
    <3>2. QED BY <1>6, <3>1
  <2> HIDE DEF n3
  <2>4. /\ Wrote(w3, m, own, lost)
        /\ w3.err = "MCFG_OK" => w3.m.strings[w3.value] \in BuiltString
    BY <1>7, <1>8, <2>2, <2>3, PiecesWrote
  <2>5. Commit(w3.m, "exit") /\ result' = [err |-> w3.err, value |-> w3.value]
    BY <1>2, <1>9 DEF m, n3, Depth
  <2> HIDE DEF w3
  <2>6. WritesText(w3, Begin(k))
    BY <2>4 DEF WritesText, own, lost, m
  <2>7. QED BY <1>1, <1>3, <2>5, <2>6, WriteEnds
<1>10. CASE Len(stack) = 2
  <2>1. ThisSector.name.base \in Text
    BY <1>4, <1>5, <1>10, ChildrenAre, SectorIs
  <2>2. SectorPieces \in Seq(Text)
    BY <1>6, <2>1, SectorPiecesType
  <2>3. n2 \in Nat
    <3>1. strlen(ThisSector.name.base) \in Nat
      BY <2>1, StrlenType
    <3>2. QED BY <1>6, <3>1
  <2> HIDE DEF n2
  <2>4. /\ Wrote(w2, m, own, lost)
        /\ w2.err = "MCFG_OK" => w2.m.strings[w2.value] \in BuiltString
    BY <1>7, <1>8, <2>2, <2>3, PiecesWrote
  <2>5. Commit(w2.m, "exit") /\ result' = [err |-> w2.err, value |-> w2.value]
    BY <1>2, <1>10 DEF m, n2, Depth
  <2> HIDE DEF w2
  <2>6. WritesText(w2, Begin(k))
    BY <2>4 DEF WritesText, own, lost, m
  <2>7. QED BY <1>1, <1>3, <2>5, <2>6, WriteEnds
<1>11. CASE Len(stack) = 1
  <2>1. Wrote(w1, m, own, lost)
    BY <1>6, <1>7, <1>8, FileStringWrote
  <2>2. Commit(w1.m, "exit") /\ result' = [err |-> w1.err, value |-> w1.value]
    BY <1>2, <1>11 DEF m, Depth
  <2> HIDE DEF w1
  <2>3. WritesText(w1, Begin(k))
    BY <1>11, <2>1 DEF WritesText, own, lost, m
  <2>4. QED BY <1>1, <1>3, <2>2, <2>3, WriteEnds
<1>12. QED BY <1>5, <1>9, <1>10, <1>11

\* The data of a field of a document is replaced.
FieldWith(field, d) == [field EXCEPT !.data = d]
SectionWith(section, i, field)    == [section EXCEPT !.fields = [section.fields EXCEPT ![i] = field]]
SectorWith(sector, t, section) == [sector EXCEPT !.sections = [sector.sections EXCEPT ![t] = section]]
FileWith(doc, s, sector) == [doc EXCEPT !.sectors = [doc.sectors EXCEPT ![s] = sector]]

LEMMA FieldWithIs ==
    ASSUME NEW field \in DocField, NEW d \in {NULL} \cup DataOf(field.type)
    PROVE  /\ FieldWith(field, d) \in DocField /\ FieldWith(field, d).data = d
           /\ FieldWith(field, d).type = field.type
<1> DEFINE r == FieldWith(field, d)
<1>1. /\ field.name \in Name /\ field.type \in FieldTypes \cup {"TYPE_INVALID"}
      /\ field \in [name : Name, type : FieldTypes \cup {"TYPE_INVALID"}, data : {NULL} \cup Data]
  BY DEF DocField
<1>2. DataOf(field.type) \subseteq Data
  BY <1>1 DEF DataOf, Data, Value
<1>3. d \in {NULL} \cup Data
  BY <1>2
<1>4. r = [name |-> field.name, type |-> field.type, data |-> d]
  BY <1>1 DEF FieldWith
<1>5. r.type = field.type /\ r.data = d
  BY <1>4
<1>6. r \in [name : Name, type : FieldTypes \cup {"TYPE_INVALID"}, data : {NULL} \cup Data]
  BY <1>1, <1>3, <1>4
<1> HIDE DEF r
<1>7. r \in DocField
  BY <1>5, <1>6 DEF DocField
<1>8. QED BY <1>5, <1>7 DEF r

LEMMA SectionWithIs ==
    ASSUME NEW section \in DocSection, NEW i \in 1 .. Len(section.fields), NEW field \in DocField
    PROVE  LET r == SectionWith(section, i, field)
           IN  /\ r \in DocSection /\ Len(r.fields) = Len(section.fields)
               /\ r.fields[i] = field
               /\ \A j \in 1 .. Len(section.fields) : j # i => r.fields[j] = section.fields[j]
<1> DEFINE r == SectionWith(section, i, field)
           q == [section.fields EXCEPT ![i] = field]
<1>1. section.fields \in Seq(DocField) /\ section.name \in Name
      /\ section \in [name : Name, fields : Seq(DocField)]
  BY DEF DocSection
<1>2. /\ q \in Seq(DocField) /\ Len(q) = Len(section.fields) /\ q[i] = field
      /\ \A j \in 1 .. Len(section.fields) : j # i => q[j] = section.fields[j]
  BY <1>1, ExceptSeq
<1> HIDE DEF q
<1>3. r = [name |-> section.name, fields |-> q]
  BY <1>1 DEF SectionWith, q
<1>4. r \in DocSection /\ r.fields = q
  BY <1>1, <1>2, <1>3 DEF DocSection
<1> HIDE DEF r
<1>5. QED BY <1>2, <1>4 DEF r

LEMMA SectorWithIs ==
    ASSUME NEW sector \in DocSector, NEW t \in 1 .. Len(sector.sections), NEW section \in DocSection
    PROVE  LET r == SectorWith(sector, t, section)
           IN  /\ r \in DocSector /\ Len(r.sections) = Len(sector.sections)
               /\ r.sections[t] = section
               /\ \A j \in 1 .. Len(sector.sections) : j # t => r.sections[j] = sector.sections[j]
<1> DEFINE r == SectorWith(sector, t, section)
           q == [sector.sections EXCEPT ![t] = section]
<1>1. sector.sections \in Seq(DocSection) /\ sector.name \in Name
      /\ sector \in [name : Name, sections : Seq(DocSection)]
  BY DEF DocSector
<1>2. /\ q \in Seq(DocSection) /\ Len(q) = Len(sector.sections) /\ q[t] = section
      /\ \A j \in 1 .. Len(sector.sections) : j # t => q[j] = sector.sections[j]
  BY <1>1, ExceptSeq
<1> HIDE DEF q
<1>3. r = [name |-> sector.name, sections |-> q]
  BY <1>1 DEF SectorWith, q
<1>4. r \in DocSector /\ r.sections = q
  BY <1>1, <1>2, <1>3 DEF DocSector
<1> HIDE DEF r
<1>5. QED BY <1>2, <1>4 DEF r

LEMMA FileWithIs ==
    ASSUME NEW doc \in Document, NEW s \in 1 .. Len(doc.sectors), NEW sector \in DocSector
    PROVE  LET r == FileWith(doc, s, sector)
           IN  /\ r \in Document /\ Len(r.sectors) = Len(doc.sectors)
               /\ r.sectors[s] = sector
               /\ \A j \in 1 .. Len(doc.sectors) : j # s => r.sectors[j] = doc.sectors[j]
<1> DEFINE r == FileWith(doc, s, sector)
           q == [doc.sectors EXCEPT ![s] = sector]
<1>1. doc.sectors \in Seq(DocSector) /\ doc.dynfields \in Seq(DocField)
      /\ doc \in [sectors : Seq(DocSector), dynfields : Seq(DocField)]
  BY DEF Document
<1>2. /\ q \in Seq(DocSector) /\ Len(q) = Len(doc.sectors) /\ q[s] = sector
      /\ \A j \in 1 .. Len(doc.sectors) : j # s => q[j] = doc.sectors[j]
  BY <1>1, ExceptSeq
<1> HIDE DEF q
<1>3. r = [sectors |-> q, dynfields |-> doc.dynfields]
  BY <1>1 DEF FileWith, q
<1>4. r \in Document /\ r.sectors = q
  BY <1>1, <1>2, <1>3 DEF Document
<1> HIDE DEF r
<1>5. QED BY <1>2, <1>4 DEF r

\* A document of the same shape.
SameShape(r, doc) ==
    /\ Len(r.sectors) = Len(doc.sectors)
    /\ \A a \in 1 .. Len(doc.sectors) :
          /\ Len(r.sectors[a].sections) = Len(doc.sectors[a].sections)
          /\ \A b \in 1 .. Len(doc.sectors[a].sections) :
                Len(r.sectors[a].sections[b].fields) = Len(doc.sectors[a].sections[b].fields)

SoundSection(section) == \A i \in 1 .. Len(section.fields) : SoundField(section.fields[i])
SoundSector(sector)   == \A t \in 1 .. Len(sector.sections) : SoundSection(sector.sections[t])

LEMMA SoundIs ==
    ASSUME NEW doc \in Document
    PROVE  Sound(doc) <=> \A s \in 1 .. Len(doc.sectors) : SoundSector(doc.sectors[s])
<1>1. \A s \in 1 .. Len(doc.sectors) : doc.sectors[s] \in DocSector
  BY DocumentIs
<1>2. \A sector \in DocSector : \A t \in 1 .. Len(sector.sections) :
          sector.sections[t] \in DocSection
  BY SectorIs
<1>3. \A section \in DocSection : DOMAIN section.fields = 1 .. Len(section.fields)
  BY SectionIs
<1>4. \A sector \in DocSector : DOMAIN sector.sections = 1 .. Len(sector.sections)
  BY SectorIs
<1>5. DOMAIN doc.sectors = 1 .. Len(doc.sectors)
  BY DocumentIs
<1>6. QED BY <1>1, <1>2, <1>3, <1>4, <1>5 DEF Sound, SoundSector, SoundSection

DataWith(doc, s, t, i, d) == [doc EXCEPT !.sectors[s].sections[t].fields[i].data = d]

\* A field that stays sound keeps the document sound.
LEMMA FieldOverwritten ==
    ASSUME NEW doc \in Document, NEW s \in 1 .. Len(doc.sectors),
           NEW t \in 1 .. Len(doc.sectors[s].sections),
           NEW i \in 1 .. Len(doc.sectors[s].sections[t].fields), NEW d,
           NEW field, field = doc.sectors[s].sections[t].fields[i],
           d \in {NULL} \cup DataOf(field.type),
           SoundField(field) => SoundField(FieldWith(field, d)),
           NEW r, r = DataWith(doc, s, t, i, d)
    PROVE  r \in Document /\ SameShape(r, doc) /\ (Sound(doc) => Sound(r))
<1> DEFINE sector  == doc.sectors[s]
           section == sector.sections[t]
           f2      == FieldWith(field, d)
           sec2    == SectionWith(section, i, f2)
           sector2 == SectorWith(sector, t, sec2)
           r2      == FileWith(doc, s, sector2)
<1>1. sector \in DocSector /\ section \in DocSection /\ field \in DocField
  BY DocumentIs, SectorIs, SectionIs
<1>2. r = r2
  BY DEF DataWith, FileWith, SectorWith, SectionWith, FieldWith
<1>3. SoundField(field) => SoundField(f2)
  OBVIOUS
<1>4. f2 \in DocField
  BY <1>1, FieldWithIs
<1> HIDE DEF f2
<1>5. /\ sec2 \in DocSection /\ Len(sec2.fields) = Len(section.fields) /\ sec2.fields[i] = f2
      /\ \A j \in 1 .. Len(section.fields) : j # i => sec2.fields[j] = section.fields[j]
  BY <1>1, <1>4, SectionWithIs
<1> HIDE DEF sec2
<1>6. /\ sector2 \in DocSector /\ Len(sector2.sections) = Len(sector.sections)
      /\ sector2.sections[t] = sec2
      /\ \A j \in 1 .. Len(sector.sections) : j # t => sector2.sections[j] = sector.sections[j]
  BY <1>1, <1>5, SectorWithIs
<1> HIDE DEF sector2
<1>7. /\ r2 \in Document /\ Len(r2.sectors) = Len(doc.sectors) /\ r2.sectors[s] = sector2
      /\ \A j \in 1 .. Len(doc.sectors) : j # s => r2.sectors[j] = doc.sectors[j]
  BY <1>6, FileWithIs
<1> HIDE DEF r2
<1>8. SameShape(r2, doc)
  <2>1. ASSUME NEW a \in 1 .. Len(doc.sectors)
        PROVE  /\ Len(r2.sectors[a].sections) = Len(doc.sectors[a].sections)
               /\ \A b \in 1 .. Len(doc.sectors[a].sections) :
                     Len(r2.sectors[a].sections[b].fields)
                        = Len(doc.sectors[a].sections[b].fields)
    <3>1. CASE a # s
      BY <3>1, <1>7
    <3>2. CASE a = s
      BY <3>2, <1>5, <1>6, <1>7
    <3>3. QED BY <3>1, <3>2
  <2>2. QED BY <2>1, <1>7 DEF SameShape
<1>9. ASSUME Sound(doc) PROVE Sound(r2)
  <2>1. \A a \in 1 .. Len(doc.sectors) : SoundSector(doc.sectors[a])
    BY <1>9, SoundIs
  <2>2. \A b \in 1 .. Len(sector.sections) : SoundSection(sector.sections[b])
    BY <2>1 DEF SoundSector
  <2>3. \A j \in 1 .. Len(section.fields) : SoundField(section.fields[j])
    BY <2>2 DEF SoundSection
  <2>4. SoundField(f2)
    BY <1>3, <2>3
  <2>5. SoundSection(sec2)
    BY <1>5, <2>3, <2>4 DEF SoundSection
  <2>6. SoundSector(sector2)
    BY <1>6, <2>2, <2>5 DEF SoundSector
  <2>7. \A a \in 1 .. Len(r2.sectors) : SoundSector(r2.sectors[a])
    BY <1>7, <2>1, <2>6
  <2>8. QED BY <1>7, <2>7, SoundIs
<1>10. r2 \in Document /\ SameShape(r2, doc) /\ (Sound(doc) => Sound(r2))
  BY <1>7, <1>8, <1>9
<1>11. QED BY <1>2, <1>10

\* Where the functions are does not depend on the data.
LEMMA PlacedSame ==
    ASSUME NEW doc \in Document, NEW r, SameShape(r, doc), NEW s \in Seq(Frames), Len(s) <= 3,
           NEW p, Placed(doc, s, p)
    PROVE  Placed(r, s, p)
<1> DEFINE n == Len(s)
<1>1. n \in Nat /\ \A d \in 1 .. n : s[d].ix \in Nat
  BY FrameIs, LenProperties
<1>2. /\ Len(r.sectors) = Len(doc.sectors)
      /\ \A a \in 1 .. Len(doc.sectors) :
            /\ Len(r.sectors[a].sections) = Len(doc.sectors[a].sections)
            /\ \A b \in 1 .. Len(doc.sectors[a].sections) :
                  Len(r.sectors[a].sections[b].fields) = Len(doc.sectors[a].sections[b].fields)
  BY DEF SameShape
<1>3. n >= 1 => s[1].ix <= Len(r.sectors)
  BY <1>2 DEF Placed
<1>4. ASSUME n >= 2
      PROVE  s[1].ix # 0 /\ s[1].ix \in 1 .. Len(doc.sectors)
             /\ s[2].ix <= Len(r.sectors[s[1].ix].sections)
  <2>1. s[1].ix # 0 /\ s[1].ix <= Len(doc.sectors) /\ s[1].ix \in Nat
        /\ s[2].ix <= Len(doc.sectors[s[1].ix].sections)
    BY <1>1, <1>4 DEF Placed
  <2>2. s[1].ix \in 1 .. Len(doc.sectors)
    BY <2>1, DocumentIs
  <2>3. QED BY <1>2, <2>1, <2>2
<1>5. ASSUME n = 3
      PROVE  s[2].ix # 0 /\ s[3].ix <= Len(r.sectors[s[1].ix].sections[s[2].ix].fields)
  <2>1. s[1].ix \in 1 .. Len(doc.sectors)
    BY <1>4, <1>5
  <2>2. s[2].ix # 0 /\ s[2].ix <= Len(doc.sectors[s[1].ix].sections) /\ s[2].ix \in Nat
        /\ s[3].ix <= Len(doc.sectors[s[1].ix].sections[s[2].ix].fields)
    BY <1>1, <1>5 DEF Placed
  <2>3. doc.sectors[s[1].ix] \in DocSector
    BY <2>1, DocumentIs
  <2>4. s[2].ix \in 1 .. Len(doc.sectors[s[1].ix].sections)
    BY <2>2, <2>3, SectorIs
  <2>5. QED BY <1>2, <2>1, <2>2, <2>4
<1>6. n = 0 <=> p \in {"idle", "returned"}
  BY DEF Placed
<1>7. QED BY <1>3, <1>4, <1>5, <1>6 DEF Placed

\* The field at hand, serialized: the document is one of the same shape.
LEMMA FieldWritten ==
    ASSUME file \in Document, stack \in Seq(Frames), Len(stack) = 3, Placed(file, stack, pc),
           NEW i, i = Top.ix + 1, i \in 1 .. Len(Children), NEW d,
           d \in {NULL} \cup DataOf(Children[i].type),
           SoundField(Children[i]) =>
              d # NULL /\ (Children[i].type = "TYPE_LIST" => d.type = Children[i].data.type),
           NEW r, r = DataWith(file, stack[1].ix, stack[2].ix, i, d)
    PROVE  r \in Document /\ SameShape(r, file) /\ (Sound(file) => Sound(r))
<1> DEFINE s == stack[1].ix
           t == stack[2].ix
           field == file.sectors[s].sections[t].fields[i]
<1>1. /\ s \in 1 .. Len(file.sectors) /\ ThisSector \in DocSector
      /\ t \in 1 .. Len(ThisSector.sections) /\ ThisSection \in DocSection
      /\ Children = ThisSection.fields
  BY ChildrenAre
<1>2. ThisSector = file.sectors[s] /\ ThisSection = file.sectors[s].sections[t]
  BY DEF ThisSector, ThisSection
<1>3. t \in 1 .. Len(file.sectors[s].sections) /\ i \in 1 .. Len(file.sectors[s].sections[t].fields)
      /\ field = Children[i]
  BY <1>1, <1>2
<1>4. field \in DocField
  BY <1>1, <1>3, SectionIs
<1> HIDE DEF s, t, field
<1>5. d \in {NULL} \cup DataOf(field.type)
  BY <1>3
<1>6. SoundField(field) => SoundField(FieldWith(field, d))
  <2>1. FieldWith(field, d).data = d /\ FieldWith(field, d).type = field.type
    BY <1>4, <1>5, FieldWithIs
  <2>2. SoundField(field) => d # NULL /\ (field.type = "TYPE_LIST" => d.type = field.data.type)
    BY <1>3
  <2>3. QED BY <2>1, <2>2 DEF SoundField
<1>7. r = DataWith(file, s, t, i, d)
  BY DEF s, t
<1>8. field = file.sectors[s].sections[t].fields[i]
  BY DEF field
<1>9. QED BY <1>1, <1>3, <1>5, <1>6, <1>7, <1>8, FieldOverwritten

LEMMA OneFieldEnds ==
    ASSUME IInv, pc = "loop", Len(stack) = 3, More, NEW k \in Nat, NEW w,
           Done(w, Begin(k), Held(stack), Live(mem) \ Held(stack)),
           Sound(file) => Sound(file') /\ (k = 0 => Succeeds(w)),
           Commit(w.m, "collect"), result' = [err |-> w.err, value |-> w.value],
           options' = options, file' \in Document, SameShape(file', file), given' = given,
           stack' = NextChild
    PROVE  IInv'
<1> DEFINE own  == Held(stack)
           lost == Live(mem) \ own
           m    == w.m
           v    == w.value
           e    == w.err
<1>1. /\ options \in Options /\ file \in Document /\ given \in Document
      /\ stack \in Seq(Frames)
      /\ mem \in Heaps /\ mem.made = 0 /\ mem.crash = FALSE
      /\ fails \in Nat /\ Placed(file, stack, pc) /\ Apart(stack) /\ Sized(stack)
      /\ mem.plain = 3 + One(Len(stack) = 3)
  BY InvIs
<1>2. /\ \A d \in 1 .. 3 : stack[d].list.array = TRUE
      /\ Cardinality(lost) <= fails
      /\ result.value \in {NULL} \cup ToSet(stack[3].list.items)
  BY LoopIs
<1>3. Sounds
  BY DEF IInv
<1>4. Begin(k).failing = k /\ Begin(k).plain = mem.plain
  BY <1>1, BeginIs
<1>5. /\ w \in Builders /\ m.failing = k
      /\ m.crash = FALSE =>
          /\ m.plain = mem.plain
          /\ e = "MCFG_OK" => v # NULL /\ v \notin own /\ Good(m, own \cup {v}, lost)
          /\ e # "MCFG_OK" => Good(m, own, lost) /\ (v \in Live(m) => v = result.value)
  BY <1>4 DEF Done
<1>6. m \in Heaps /\ v \in Nat \cup {NULL} /\ e \in Errors
  BY <1>5 DEF Builders
<1>7. result'.err = e /\ result'.value = v /\ result' \in [err : Errors, value : Nat \cup {NULL}]
  BY <1>6
<1>8. Sound(file) => Sound(file') /\ (k = 0 => m.crash = FALSE /\ e = "MCFG_OK")
  BY DEF Succeeds
<1>9. /\ Placed(file, NextChild, "collect") /\ stack' \in Seq(Frames) /\ SameLists(stack', stack)
  <2>1. Len(stack) \in {1, 2, 3}
    OBVIOUS
  <2>2. /\ Placed(file, NextChild, "collect") /\ NextChild \in Seq(Frames)
        /\ SameLists(NextChild, stack)
    BY <1>1, <2>1, PlacedNext
  <2>3. QED BY <2>2
<1> HIDE DEF m, v, e
<1>10. Commits(m, "collect")
  BY <1>1, <1>6, CommitIs DEF m
<1>11. /\ pc' = IF m.crash THEN "crashed" ELSE "collect"
       /\ mem'.plain = m.plain /\ fails' \in Nat /\ fails' >= fails
       /\ Live(mem') = Live(m) /\ mem'.strings = m.strings
       /\ k # 0 => Spent(m) /\ fails' >= fails + 1 /\ fails' # 0
  BY <1>5, <1>10 DEF Commits
<1>12. Held(stack') = own /\ Apart(stack') /\ Sized(stack')
       /\ Len(stack') = 3 /\ \A d \in 1 .. 3 : stack'[d].list = stack[d].list
  <2>1. Held(stack') = own /\ Apart(stack') /\ Sized(stack')
    BY <1>1, <1>9, SameListsKeep
  <2>2. Len(stack') = 3 /\ \A d \in 1 .. 3 : stack'[d].list = stack[d].list
    BY <1>9 DEF SameLists
  <2>3. QED BY <2>1, <2>2
<1>13. Types'
  BY <1>1, <1>6, <1>7, <1>9, <1>10, <1>12, TypesKept
<1>14. Sounds'
  <2>1. fails' = 0 => fails = 0 /\ k = 0
    BY <1>1, <1>11
  <2>2. QED BY <1>3, <1>7, <1>8, <1>11, <2>1 DEF Sounds
<1>15. ASSUME pc' # "crashed" PROVE Running(file', stack', result', mem', pc', fails')
  <2>1. m.crash = FALSE /\ pc' = "collect"
    BY <1>6, <1>11, <1>15 DEF Heaps
  <2>2. Placed(file', stack', pc')
    <3> DEFINE r == file'
               s == stack'
    <3>1. Len(s) <= 3 /\ Placed(file, s, "collect") /\ SameShape(r, file) /\ s \in Seq(Frames)
      BY <1>9, <1>12
    <3> HIDE DEF r, s
    <3>2. Placed(r, s, "collect")
      BY <1>1, <3>1, PlacedSame
    <3>3. QED BY <2>1, <3>2 DEF r, s
  <2>3. own \subseteq Live(m) /\ \A p \in own : m.strings[p] \in BuiltString
    BY <1>5, <2>1 DEF Good
  <2>4. Holding(stack', mem')
    BY <1>11, <1>12, <2>3 DEF Holding
  <2>5. IsFiniteSet(lost) /\ (Spent(m) => fails' >= fails + 1)
    <3>1. IsFiniteSet(lost)
      BY <1>1, LiveFinite
    <3>2. Spent(m) => k # 0
      BY <1>5 DEF Spent
    <3>3. QED BY <1>11, <3>1, <3>2
  <2>6. mem'.plain = Len(stack') + One(Len(stack') = 3)
    BY <1>1, <1>5, <1>11, <1>12, <2>1
  <2>7. \A d \in 1 .. Len(stack') : stack'[d].list.array # FALSE
    BY <1>2, <1>12
  <2>8. CASE e = "MCFG_OK"
    <3>1. v # NULL /\ v \notin own /\ v \in Live(m) /\ m.strings[v] \in BuiltString
          /\ Kept(m, own \cup {v}, lost)
      BY <1>5, <2>1, <2>8 DEF Good
    <3>2. Ours(stack', result') = own \cup {v}
      BY <1>7, <1>12, <2>8, <3>1 DEF Ours
    <3>3. Lossless(stack', result', mem', fails')
      <4> DEFINE all == own \cup {v}
      <4>1. Kept(m, all, lost)
        BY <3>1
      <4> HIDE DEF lost, own, all
      <4>2. Cardinality(Live(m) \ all) <= fails'
        BY <1>1, <1>2, <1>6, <1>11, <2>5, <4>1, LossCounted
      <4>3. QED BY <1>11, <3>2, <4>2 DEF Lossless, all
    <3>4. Settled(stack', result', mem', pc')
      BY <1>7, <1>11, <1>12, <2>1, <2>7, <2>8, <3>1 DEF Settled
    <3>5. QED BY <1>12, <2>2, <2>4, <2>6, <3>3, <3>4 DEF Running
  <2>9. CASE e # "MCFG_OK"
    <3>1. Kept(m, own, lost) /\ (v \in Live(m) => v = result.value) /\ NULL \notin Live(m)
      BY <1>5, <1>6, <2>1, <2>9, HeapIs DEF Good
    <3>2. Ours(stack', result') = own
      BY <1>7, <1>12, <2>9 DEF Ours
    <3>3. Lossless(stack', result', mem', fails')
      <4> HIDE DEF lost, own
      <4>1. Cardinality(Live(m) \ own) <= fails'
        BY <1>1, <1>2, <1>6, <1>11, <2>5, <3>1, LossCounted
      <4>2. QED BY <1>11, <3>2, <4>1 DEF Lossless
    <3>4. v \in Live(m) => v \in ToSet(stack'[3].list.items)
      <4>1. stack'[3].list = stack[3].list
        BY <1>12
      <4>2. QED BY <1>2, <3>1, <4>1
    <3>5. Settled(stack', result', mem', pc')
      BY <1>7, <1>11, <1>12, <2>1, <2>7, <2>9, <3>4 DEF Settled
    <3>6. QED BY <1>12, <2>2, <2>4, <2>6, <3>3, <3>5 DEF Running
  <2>10. QED BY <2>8, <2>9
<1>16. QED BY <1>13, <1>14, <1>15 DEF IInv

LEMMA OneFieldStep ==
    ASSUME IInv, OneField
    PROVE  IInv'
<1>1. /\ pc = "loop" /\ Len(stack) = 3 /\ More /\ stack' = NextChild
      /\ options' = options /\ given' = given
  BY DEF OneField, Depth
<1> DEFINE i == Top.ix + 1
           field == Children[i]
<1>2. PICK k \in 0 .. StepAllocs :
          \E r \in {SerializeField(Begin(k), field)} :
               /\ Commit(r.w.m, "collect")
               /\ result' = [err |-> r.w.err, value |-> r.w.value]
               /\ file' = [file EXCEPT
                             !.sectors[stack[1].ix].sections[stack[2].ix].fields[i].data = r.data]
  BY DEF OneField
<1> DEFINE b == Begin(k)
           r == SerializeField(b, field)
           own  == Held(stack)
           lost == Live(mem) \ own
<1>3. /\ Commit(r.w.m, "collect") /\ result' = [err |-> r.w.err, value |-> r.w.value]
      /\ file' = DataWith(file, stack[1].ix, stack[2].ix, i, r.data)
  BY <1>2 DEF DataWith
<1>4. k \in Nat
  BY SerializerAssumption
<1>5. /\ options \in Options /\ file \in Document /\ stack \in Seq(Frames)
      /\ mem \in Heaps /\ mem.made = 0 /\ mem.crash = FALSE
      /\ Placed(file, stack, pc) /\ Holding(stack, mem) /\ result.value \in Nat \cup {NULL}
  BY <1>1, InvIs
<1>6. i \in 1 .. Len(Children)
  <2>1. Len(stack) \in {1, 2, 3}
    BY <1>1
  <2>2. Placed(file, NextChild, "collect") /\ Top.ix + 1 \in 1 .. Len(Children)
    BY <1>1, <1>5, <2>1, PlacedNext
  <2>3. QED BY <2>2
<1>7. /\ field \in DocField /\ stack[1].ix \in 1 .. Len(file.sectors)
      /\ stack[2].ix \in 1 .. Len(file.sectors[stack[1].ix].sections)
      /\ Children = file.sectors[stack[1].ix].sections[stack[2].ix].fields
  <2>1. /\ stack[1].ix \in 1 .. Len(file.sectors)
        /\ stack[2].ix \in 1 .. Len(ThisSector.sections) /\ ThisSection \in DocSection
        /\ Children = ThisSection.fields
    BY <1>1, <1>5, ChildrenAre
  <2>2. field \in DocField
    BY <1>6, <2>1, SectionIs
  <2>3. QED BY <2>1, <2>2 DEF ThisSector, ThisSection
<1>8. b.crash = FALSE /\ b.failing = k
  BY <1>4, <1>5, BeginIs
<1>9. Good(b, own, lost)
  <2>1. \A p \in own : p \in Live(mem) /\ mem.strings[p] \in BuiltString
    BY <1>5 DEF Holding
  <2>2. QED BY <1>4, <1>5, <2>1, BeginGood
<1> HIDE DEF b, own, lost, i, field
<1>10. /\ Done(r.w, b, own, lost)
       /\ r.data \in {NULL} \cup DataOf(field.type)
       /\ SoundField(field) =>
             /\ r.data # NULL
             /\ field.type = "TYPE_LIST" => r.data.type = field.data.type
             /\ b.failing = 0 => Succeeds(r.w)
  BY <1>5, <1>7, <1>8, <1>9, SerializeFieldDone
<1> HIDE DEF r
<1>11. file' \in Document /\ SameShape(file', file) /\ (Sound(file) => Sound(file'))
  <2>1. r.data \in {NULL} \cup DataOf(Children[i].type)
    BY <1>10 DEF field
  <2>2. SoundField(Children[i]) =>
           r.data # NULL /\ (Children[i].type = "TYPE_LIST" => r.data.type = Children[i].data.type)
    BY <1>10 DEF field
  <2>3. i = Top.ix + 1
    BY DEF i
  <2> DEFINE d == r.data
  <2> HIDE DEF d
  <2>4. d \in {NULL} \cup DataOf(Children[i].type)
    BY <2>1 DEF d
  <2>5. SoundField(Children[i]) =>
           d # NULL /\ (Children[i].type = "TYPE_LIST" => d.type = Children[i].data.type)
    BY <2>2 DEF d
  <2>6. file' = DataWith(file, stack[1].ix, stack[2].ix, i, d)
    BY <1>3 DEF d
  <2>7. QED BY <1>1, <1>5, <1>6, <2>3, <2>4, <2>5, <2>6, FieldWritten
<1>12. Sound(file) => SoundField(field)
  <2>1. file.sectors[stack[1].ix] \in DocSector
    BY <1>5, <1>7, DocumentIs
  <2>2. file.sectors[stack[1].ix].sections[stack[2].ix] \in DocSection
    BY <1>7, <2>1, SectorIs
  <2>3. /\ stack[1].ix \in DOMAIN file.sectors
        /\ stack[2].ix \in DOMAIN file.sectors[stack[1].ix].sections
        /\ i \in DOMAIN file.sectors[stack[1].ix].sections[stack[2].ix].fields
    BY <1>5, <1>6, <1>7, <2>1, <2>2, DocumentIs, SectorIs, SectionIs
  <2>4. field = file.sectors[stack[1].ix].sections[stack[2].ix].fields[i]
    BY <1>7 DEF field
  <2>5. QED BY <2>3, <2>4 DEF Sound
<1>13. Sound(file) => Sound(file') /\ (k = 0 => Succeeds(r.w))
  BY <1>8, <1>10, <1>11, <1>12
<1>14. Done(r.w, Begin(k), Held(stack), Live(mem) \ Held(stack))
  BY <1>10 DEF b, own, lost
<1> DEFINE w == r.w
<1>15. /\ Done(w, Begin(k), Held(stack), Live(mem) \ Held(stack))
       /\ Sound(file) => Sound(file') /\ (k = 0 => Succeeds(w))
       /\ Commit(w.m, "collect") /\ result' = [err |-> w.err, value |-> w.value]
  BY <1>3, <1>13, <1>14
<1> HIDE DEF w
<1>16. QED BY <1>1, <1>4, <1>11, <1>15, OneFieldEnds

\* Where the functions are when the one on top has returned.
LEMMA PlacedPop ==
    ASSUME NEW doc, NEW s \in Seq(Frames), Len(s) \in {1, 2, 3},
           NEW p, Placed(doc, s, p),
           NEW t, Len(t) = Len(s) - 1, \A d \in 1 .. Len(s) - 1 : t[d] = s[d],
           NEW q, Len(s) = 1 <=> q \in {"idle", "returned"}
    PROVE  Placed(doc, t, q)
<1>1. CASE Len(s) = 1
  BY <1>1 DEF Placed
<1>2. CASE Len(s) = 2
  <2>1. t[1] = s[1] /\ Len(t) = 1
    BY <1>2
  <2>2. QED BY <1>2, <2>1 DEF Placed
<1>3. CASE Len(s) = 3
  <2>1. t[1] = s[1] /\ t[2] = s[2] /\ Len(t) = 2
    BY <1>3
  <2>2. QED BY <1>3, <2>1 DEF Placed
<1>4. QED BY <1>1, <1>2, <1>3

\* The function on top at its end.
LEMMA ExitIs ==
    ASSUME IInv, pc = "exit"
    PROVE  /\ Len(stack) \in {1, 2, 3} /\ Len(stack) # 0
           /\ \A d \in 1 .. Len(stack) - 1 : stack[d].list.array # FALSE
           /\ Top = stack[Len(stack)] /\ Top.list \in PtrLists /\ Once(Top.list.items)
           /\ ToSet(Top.list.items) \subseteq Held(stack)
           /\ Top.list.array = FALSE => result.err # "MCFG_OK" /\ Top.list.items # << >>
           /\ result.err = "MCFG_OK" =>
                 /\ result.value \in Live(mem) \ Held(stack)
                 /\ Len(stack) > 1 => mem.strings[result.value] \in BuiltString
           /\ result.err # "MCFG_OK" /\ Top.list.array # FALSE /\ result.value \in Live(mem) =>
                 result.value \in ToSet(Top.list.items)
<1> DEFINE n == Len(stack)
<1>1. /\ stack \in Seq(Frames) /\ n \in Nat /\ n <= 3
      /\ Placed(file, stack, pc) /\ Settled(stack, result, mem, pc) /\ Apart(stack)
  BY InvIs
<1>2. n # 0
  BY <1>1 DEF Placed
<1>3. n \in {1, 2, 3}
  <2>1. \A k \in Nat : k <= 3 /\ k # 0 => k \in {1, 2, 3}
    OBVIOUS
  <2> HIDE DEF n
  <2>2. QED BY <1>1, <1>2, <2>1
<1>4. n \in 1 .. n /\ \A d \in 1 .. n - 1 : d \in 1 .. n /\ d # n
  BY <1>1, <1>2
<1>5. Top = stack[n]
  BY DEF Top, Depth
<1>6. Top.list \in PtrLists
  BY <1>1, <1>4, <1>5, FrameIs
<1>7. Once(Top.list.items)
  BY <1>1, <1>4, <1>5 DEF Once, Apart
<1>8. ToSet(Top.list.items) \subseteq Held(stack)
  BY <1>4, <1>5 DEF Held
<1>9. \A d \in 1 .. n : stack[d].list.array = FALSE =>
          d = n /\ result.err # "MCFG_OK" /\ Top.list.items # << >>
  BY <1>1, <1>5 DEF Settled
<1>10. result.err = "MCFG_OK" =>
          /\ result.value \in Live(mem) \ Held(stack)
          /\ n > 1 => mem.strings[result.value] \in BuiltString
  BY <1>1 DEF Settled
<1>11. result.err # "MCFG_OK" /\ result.value \in Live(mem) =>
          result.value \in ToSet(Top.list.items) \/ Top.list.array = FALSE
  BY <1>1, <1>5 DEF Settled
<1>12. Top.list.array = FALSE => result.err # "MCFG_OK" /\ Top.list.items # << >>
  BY <1>4, <1>5, <1>9
<1>13. \A d \in 1 .. n - 1 : stack[d].list.array # FALSE
  BY <1>4, <1>9
<1>14. QED BY <1>2, <1>3, <1>5, <1>6, <1>7, <1>8, <1>10, <1>11, <1>12, <1>13

\* A list without an array ends the program.
LEMMA ExitBroken ==
    ASSUME IInv, pc = "exit", Top.list.array = FALSE, NEW m, m = Destroy(Begin(0), Top.list)
    PROVE  m \in Heaps /\ m.crash = TRUE /\ m.failing = 0
<1> DEFINE b == Begin(0)
<1>1. b \in Heaps /\ b.failing = 0
  BY InvIs, BeginIs, 0 \in Nat
<1>2. Top.list.items # << >>
  BY ExitIs
<1> HIDE DEF b
<1>3. m = Crashed(b)
  BY <1>2, DestroyBroken DEF b
<1>4. Same(Crashed(b), b) /\ Crashed(b).crash
  BY <1>1, Counting, 0 \in Int
<1>5. Crashed(b).crash \in BOOLEAN
  BY <1>4 DEF Same, Heaps
<1>6. QED BY <1>1, <1>3, <1>4, <1>5 DEF Same

\* The list is destroyed: its strings are gone, and the others untouched.
Gone(m, gone) ==
    /\ m \in Heaps /\ m.crash = FALSE /\ m.failing = 0 /\ m.plain = mem.plain - 1
    /\ Live(m) = Live(mem) \ gone
    /\ \A p \in Held(stack) \ gone : m.strings[p] = mem.strings[p]
    /\ result.err = "MCFG_OK" /\ Len(stack) > 1 =>
          m.strings[result.value] = mem.strings[result.value]

LEMMA ExitDestroys ==
    ASSUME IInv, pc = "exit", Top.list.array # FALSE, NEW m, m = Destroy(Begin(0), Top.list)
    PROVE  Gone(m, ToSet(Top.list.items))
<1> DEFINE b    == Begin(0)
           gone == ToSet(Top.list.items)
           own  == Held(stack) \cup
                      IF result.err = "MCFG_OK" /\ Len(stack) > 1 THEN {result.value} ELSE {}
           lost == Live(mem) \ own
<1>1. /\ mem \in Heaps /\ mem.made = 0 /\ mem.crash = FALSE /\ Holding(stack, mem)
  BY InvIs
<1>2. /\ Top.list \in PtrLists /\ Once(Top.list.items) /\ gone \subseteq Held(stack)
      /\ result.err = "MCFG_OK" =>
            /\ result.value \in Live(mem) \ Held(stack)
            /\ Len(stack) > 1 => mem.strings[result.value] \in BuiltString
  BY ExitIs
<1>3. Top.list.array = TRUE
  <2>1. Top.list.array \in BOOLEAN
    BY <1>2 DEF PtrLists
  <2>2. QED BY <2>1
<1>4. \A p \in own : p \in Live(mem) /\ mem.strings[p] \in BuiltString
  BY <1>1, <1>2 DEF Holding
<1>5. /\ b \in Heaps /\ b.strings = mem.strings /\ b.plain = mem.plain /\ b.failing = 0
      /\ b.crash = FALSE /\ Live(b) = Live(mem)
  BY <1>1, BeginIs, 0 \in Nat
<1>6. Good(b, own, lost)
  <2> HIDE DEF b, own
  <2>1. Good(Begin(0), own, Live(mem) \ own)
    BY <1>1, <1>4, BeginGood, 0 \in Nat
  <2>2. QED BY <2>1 DEF b
<1>7. gone \subseteq own
  BY <1>2
<1>8. /\ \A p \in Held(stack) \ gone : p \in own \ gone
      /\ result.err = "MCFG_OK" /\ Len(stack) > 1 => result.value \in own \ gone
  BY <1>2
<1> HIDE DEF b, own, lost
<1>9. PICK f : Without(f, b, own, lost, gone) /\ Destroy(b, Top.list) = FreePlain(f, 1)
  BY <1>2, <1>3, <1>6, <1>7, DestroyOwned
<1>10. /\ f \in Heaps /\ Live(f) = Live(b) \ gone
       /\ f.failing = b.failing /\ f.plain = b.plain /\ f.crash = b.crash
       /\ \A q \in own \ gone : f.strings[q] = b.strings[q]
  BY <1>9 DEF Without, Good
<1>11. m = FreePlain(f, 1)
  BY <1>9 DEF b
<1>12. Same(m, f) /\ m.plain = f.plain - 1 /\ m.crash = f.crash
  <2>1. \A n \in Int : Same(FreePlain(f, n), f) /\ FreePlain(f, n).plain = f.plain - n
                       /\ FreePlain(f, n).crash = f.crash
    BY <1>10, Counting
  <2>2. QED BY <1>11, <2>1
<1>13. m \in Heaps /\ m.strings = f.strings /\ m.failing = f.failing
  BY <1>12 DEF Same
<1>14. Live(m) = Live(f)
  BY <1>13 DEF Live
<1>15. \A p \in Held(stack) \ gone : m.strings[p] = mem.strings[p]
  BY <1>5, <1>8, <1>10, <1>13
<1>16. result.err = "MCFG_OK" /\ Len(stack) > 1 =>
          m.strings[result.value] = mem.strings[result.value]
  BY <1>5, <1>8, <1>10, <1>13
<1> HIDE DEF gone
<1>17. Gone(m, gone)
  BY <1>5, <1>10, <1>12, <1>13, <1>14, <1>15, <1>16 DEF Gone
<1>18. QED BY <1>17 DEF gone

\* Behind an error a section or a sector frees the result; by now that is no
\* string any more, and the program ends, or it is NULL.
Freeing(m) == IF result.err # "MCFG_OK" /\ Depth > 1 THEN Free(m, result.value) ELSE m
Leaving(m) == IF Depth = 3 THEN FreePlain(Freeing(m), 1) ELSE Freeing(m)

\* The heap that a function leaves behind: the program has crashed behind an
\* error, or the strings in the list are gone, and nothing else is.
Left(x, gone) ==
    /\ x \in Heaps /\ x.failing = 0
    /\ x.crash = TRUE => result.err # "MCFG_OK"
    /\ x.crash = FALSE =>
          /\ Live(x) = Live(mem) \ gone /\ x.plain = Len(stack) - 1
          /\ \A p \in Held(stack) \ gone : x.strings[p] = mem.strings[p]
          /\ result.err = "MCFG_OK" /\ Len(stack) > 1 =>
                x.strings[result.value] = mem.strings[result.value]
          /\ result.err # "MCFG_OK" /\ Len(stack) > 1 => result.value = NULL

\* The block of the indent.
LEMMA LeavingIs ==
    ASSUME IInv, pc = "exit", NEW m, Freeing(m) \in Heaps
    PROVE  /\ Leaving(m) \in Heaps /\ Leaving(m).strings = Freeing(m).strings
           /\ Leaving(m).failing = Freeing(m).failing /\ Leaving(m).crash = Freeing(m).crash
           /\ Freeing(m).plain = mem.plain - 1 => Leaving(m).plain = Len(stack) - 1
<1> DEFINE f == Freeing(m)
           g == FreePlain(f, 1)
           n == Len(stack)
<1>1. n \in {1, 2, 3} /\ mem.plain = n + One(n = 3)
  BY ExitIs, InvIs
<1>2. f.plain \in Int
  BY DEF Heaps
<1> HIDE DEF f, n
<1>3. Same(g, f) /\ g.plain = f.plain - 1 /\ g.crash = f.crash
  <2>1. \A k \in Int : Same(FreePlain(f, k), f) /\ FreePlain(f, k).plain = f.plain - k
                       /\ FreePlain(f, k).crash = f.crash
    BY Counting DEF f
  <2>2. QED BY <2>1
<1>4. g \in Heaps /\ g.strings = f.strings /\ g.failing = f.failing
  BY <1>3 DEF Same
<1> HIDE DEF g
<1>5. CASE n = 3
  <2>1. Leaving(m) = g
    BY <1>5 DEF Leaving, Depth, f, g, n
  <2>2. mem.plain = 4
    BY <1>1, <1>5, OneMore
  <2>3. QED BY <1>3, <1>4, <1>5, <2>1, <2>2 DEF f, n
<1>6. CASE n # 3
  <2>1. Leaving(m) = f
    BY <1>6 DEF Leaving, Depth, f, n
  <2>2. One(n = 3) = 0
    BY <1>6, OneMore
  <2>3. mem.plain = n
    BY <1>1, <2>2
  <2>4. QED BY <2>1, <2>3 DEF f, n
<1>7. QED BY <1>5, <1>6

LEMMA LeavesIs ==
    ASSUME IInv, pc = "exit", NEW x, x = Leaving(Destroy(Begin(0), Top.list))
    PROVE  Left(x, ToSet(Top.list.items))
<1> DEFINE m    == Destroy(Begin(0), Top.list)
           f    == Freeing(m)
           v    == result.value
           gone == ToSet(Top.list.items)
<1>1. /\ Len(stack) \in {1, 2, 3}
      /\ Top.list.array = FALSE => result.err # "MCFG_OK"
      /\ result.err # "MCFG_OK" /\ Top.list.array # FALSE /\ v \in Live(mem) => v \in gone
  BY ExitIs
<1>2. ASSUME f \in Heaps
      PROVE  /\ x \in Heaps /\ x.strings = f.strings /\ x.failing = f.failing
             /\ x.crash = f.crash /\ (f.plain = mem.plain - 1 => x.plain = Len(stack) - 1)
  <2> HIDE DEF m
  <2>1. Freeing(m) \in Heaps
    BY <1>2
  <2>2. /\ Leaving(m) \in Heaps /\ Leaving(m).strings = Freeing(m).strings
        /\ Leaving(m).failing = Freeing(m).failing /\ Leaving(m).crash = Freeing(m).crash
        /\ Freeing(m).plain = mem.plain - 1 => Leaving(m).plain = Len(stack) - 1
    BY <2>1, LeavingIs
  <2>3. x = Leaving(m)
    BY DEF m
  <2>4. QED BY <2>2, <2>3
<1>3. CASE Top.list.array = FALSE
  <2>1. m \in Heaps /\ m.crash = TRUE /\ m.failing = 0
    BY <1>3, ExitBroken
  <2> HIDE DEF m, v
  <2>2. Free(m, v) \in Heaps /\ Free(m, v).failing = 0 /\ Free(m, v).crash = TRUE
    <3>1. Free(m, v) \in Heaps /\ Free(m, v).failing = m.failing /\ (m.crash => Free(m, v).crash)
      BY <2>1, FreeType
    <3>2. Free(m, v).crash \in BOOLEAN
      BY <3>1 DEF Heaps
    <3>3. Free(m, v).crash
      BY <2>1, <3>1
    <3>4. QED BY <2>1, <3>1, <3>2, <3>3
  <2>3. f = m \/ f = Free(m, v)
    BY DEF Freeing, v
  <2>4. f \in Heaps /\ f.failing = 0 /\ f.crash = TRUE
    BY <2>1, <2>2, <2>3
  <2> HIDE DEF f
  <2>5. x \in Heaps /\ x.failing = 0 /\ x.crash = TRUE
    BY <1>2, <2>4
  <2>6. QED BY <1>1, <1>3, <2>5 DEF Left
<1>4. CASE Top.list.array # FALSE
  <2>1. Gone(m, gone)
    BY <1>4, ExitDestroys
  <2> HIDE DEF m, gone
  <2>2. /\ m \in Heaps /\ m.crash = FALSE /\ m.failing = 0 /\ m.plain = mem.plain - 1
        /\ Live(m) = Live(mem) \ gone
        /\ \A p \in Held(stack) \ gone : m.strings[p] = mem.strings[p]
        /\ result.err = "MCFG_OK" /\ Len(stack) > 1 =>
              m.strings[result.value] = mem.strings[result.value]
    BY <2>1 DEF Gone
  <2>3. CASE f = m /\ (result.err # "MCFG_OK" /\ Len(stack) > 1 => v = NULL)
    <3> HIDE DEF f
    <3>1. /\ x \in Heaps /\ x.strings = m.strings /\ x.failing = 0
          /\ x.crash = FALSE /\ x.plain = Len(stack) - 1
      BY <1>2, <2>2, <2>3
    <3>2. Live(x) = Live(m)
      BY <3>1 DEF Live
    <3>3. Left(x, gone)
      BY <2>2, <2>3, <3>1, <3>2 DEF Left
    <3>4. QED BY <3>3 DEF gone
  <2>4. CASE result.err = "MCFG_OK" \/ Len(stack) = 1
    <3>1. ~(result.err # "MCFG_OK" /\ Len(stack) > 1)
      <4>1. \A k : k = 1 => ~(k > 1)
        OBVIOUS
      <4>2. Len(stack) = 1 => ~(Len(stack) > 1)
        BY <4>1
      <4>3. QED BY <2>4, <4>2
    <3>2. f = m
      BY <3>1 DEF Freeing, Depth
    <3>3. QED BY <2>3, <3>1, <3>2
  <2>5. CASE result.err # "MCFG_OK" /\ Len(stack) > 1
    <3>1. f = Free(m, v)
      BY <2>5 DEF Freeing, Depth
    <3>2. v \notin Live(m)
      BY <1>1, <1>4, <2>2, <2>5 DEF gone
    <3>3. CASE v = NULL
      <4>1. NULL \notin Live(m)
        BY <2>2, HeapIs
      <4>2. Free(m, NULL) = m
        BY <4>1 DEF Free
      <4>3. f = m
        BY <3>1, <3>3, <4>2
      <4>4. QED BY <2>3, <3>3, <4>3
    <3>4. CASE v # NULL
      <4>1. f = Crashed(m)
        BY <3>1, <3>2, <3>4 DEF Free
      <4>2. Same(Crashed(m), m) /\ Crashed(m).crash
        BY <2>2, Counting, 0 \in Int
      <4>3. Crashed(m) \in Heaps /\ Crashed(m).failing = 0
        BY <2>2, <4>2 DEF Same
      <4>4. Crashed(m).crash \in BOOLEAN
        BY <4>3 DEF Heaps
      <4>5. Crashed(m).crash = TRUE
        BY <4>2, <4>4
      <4> HIDE DEF f
      <4>6. x \in Heaps /\ x.failing = 0 /\ x.crash = TRUE
        BY <1>2, <4>1, <4>3, <4>5
      <4>7. Left(x, gone)
        BY <2>5, <4>6 DEF Left
      <4>8. QED BY <4>7 DEF gone
    <3>5. QED BY <3>3, <3>4
  <2>6. Len(stack) = 1 \/ Len(stack) > 1
    <3>1. \A k \in {1, 2, 3} : k = 1 \/ k > 1
      OBVIOUS
    <3>2. QED BY <1>1, <3>1
  <2>7. QED BY <2>4, <2>5, <2>6
<1>5. QED BY <1>3, <1>4

LEMMA ExitStep ==
    ASSUME IInv, Exit
    PROVE  IInv'
<1> DEFINE n    == Len(stack)
           v    == result.value
           gone == ToSet(Top.list.items)
           x    == Leaving(Destroy(Begin(0), Top.list))
           then == IF Depth = 1 THEN "returned" ELSE "collect"
<1>1. /\ pc = "exit" /\ stack' = Front(stack) /\ result' = result
      /\ options' = options /\ file' = file /\ given' = given
  BY DEF Exit
<1>2. Commit(x, then)
  BY DEF Exit, Leaving, Freeing
<1>3. /\ options \in Options /\ file \in Document /\ given \in Document
      /\ stack \in Seq(Frames) /\ n \in Nat /\ n <= 3
      /\ mem \in Heaps /\ fails \in Nat
      /\ Placed(file, stack, pc) /\ Apart(stack) /\ Sized(stack)
      /\ Holding(stack, mem) /\ Lossless(stack, result, mem, fails)
  BY <1>1, InvIs
<1>4. result \in [err : Errors, value : Nat \cup {NULL}] /\ Sounds
  BY DEF IInv, Types
<1>5. /\ n \in {1, 2, 3} /\ n # 0
      /\ \A d \in 1 .. n - 1 : stack[d].list.array # FALSE
      /\ Top = stack[n] /\ gone \subseteq Held(stack)
      /\ result.err = "MCFG_OK" =>
            /\ v \in Live(mem) \ Held(stack)
            /\ n > 1 => mem.strings[v] \in BuiltString
  BY <1>1, ExitIs
<1>6. Left(x, gone)
  BY <1>1, LeavesIs
<1> HIDE DEF x
<1>7. then \in {"returned", "collect"} /\ (then = "returned" <=> n = 1)
  BY DEF Depth
<1> HIDE DEF then
<1>8. /\ x \in Heaps
      /\ x.crash = TRUE => result.err # "MCFG_OK"
      /\ x.crash = FALSE =>
          /\ Live(x) = Live(mem) \ gone /\ x.plain = n - 1
          /\ \A p \in Held(stack) \ gone : x.strings[p] = mem.strings[p]
          /\ result.err = "MCFG_OK" /\ n > 1 => x.strings[v] = mem.strings[v]
          /\ result.err # "MCFG_OK" /\ n > 1 => v = NULL
  BY <1>6 DEF Left
<1>9. Commits(x, then)
  BY <1>2, <1>3, <1>8, CommitIs
<1>10. /\ pc' = IF x.crash THEN "crashed" ELSE then
       /\ mem'.plain = x.plain /\ fails' \in Nat /\ fails' >= fails
       /\ Live(mem') = Live(x) /\ mem'.strings = x.strings
  BY <1>9 DEF Commits
<1>11. /\ stack' \in Seq(Frames) /\ Len(stack') = n - 1
       /\ \A d \in 1 .. n - 1 : stack'[d] = stack[d]
       /\ Held(stack') = Held(stack) \ gone
       /\ Apart(stack') /\ Sized(stack')
  BY <1>1, <1>3, <1>5, PopIs
<1> HIDE DEF gone
<1>12. Types'
  <2>1. Len(stack') <= 3
    BY <1>5, <1>11
  <2>2. QED BY <1>1, <1>3, <1>4, <1>7, <1>8, <1>9, <1>11, <2>1, TypesKept
<1>13. Sounds'
  <2>1. fails' = 0 => fails = 0
    BY <1>3, <1>10
  <2>2. x.crash \in BOOLEAN
    BY <1>8 DEF Heaps
  <2>3. x.crash = TRUE \/ pc' = then
    BY <1>10, <2>2
  <2>4. QED BY <1>1, <1>4, <1>7, <1>8, <2>1, <2>3 DEF Sounds
<1>14. ASSUME pc' # "crashed" PROVE Running(file', stack', result', mem', pc', fails')
  <2>1. x.crash = FALSE /\ pc' = then
    <3>1. x.crash \in BOOLEAN
      BY <1>8 DEF Heaps
    <3>2. QED BY <1>10, <1>14, <3>1
  <2>2. /\ Live(mem') = Live(mem) \ gone /\ mem'.plain = n - 1
        /\ \A p \in Held(stack) \ gone : mem'.strings[p] = mem.strings[p]
        /\ result.err = "MCFG_OK" /\ n > 1 => mem'.strings[v] = mem.strings[v]
        /\ result.err # "MCFG_OK" /\ n > 1 => v = NULL
    BY <1>8, <1>10, <2>1
  <2>3. Placed(file', stack', pc')
    <3>1. n = 1 <=> pc' \in {"idle", "returned"}
      BY <1>7, <2>1
    <3> DEFINE t == stack'
               q == pc'
    <3>2. /\ Len(t) = n - 1 /\ \A d \in 1 .. n - 1 : t[d] = stack[d]
          /\ n = 1 <=> q \in {"idle", "returned"}
      BY <1>11, <3>1
    <3> HIDE DEF t, q
    <3>3. Placed(file, t, q)
      BY <1>3, <1>5, <3>2, PlacedPop
    <3>4. QED BY <1>1, <3>3 DEF t, q
  <2>4. Holding(stack', mem')
    <3>1. \A p \in Held(stack') : p \in Live(mem) /\ mem.strings[p] \in BuiltString
      BY <1>3, <1>11 DEF Holding
    <3>2. QED BY <1>11, <2>2, <3>1 DEF Holding
  <2>5. Lossless(stack', result', mem', fails')
    <3> DEFINE c == Cardinality(Live(mem) \ Ours(stack, result))
    <3>1. c \in Nat /\ c <= fails
      BY <1>3, LiveFinite DEF Lossless
    <3>2. Live(mem') \ Ours(stack', result') = Live(mem) \ Ours(stack, result)
      BY <1>1, <1>5, <1>11, <2>2 DEF Ours
    <3>3. Cardinality(Live(mem') \ Ours(stack', result')) = c
      BY <3>2
    <3> HIDE DEF c
    <3>4. c <= fails'
      BY <1>3, <1>10, <3>1
    <3>5. QED BY <3>3, <3>4 DEF Lossless
  <2>6. mem'.plain = Len(stack') + One(Len(stack') = 3)
    <3> DEFINE k == Len(stack')
    <3>1. k \in {0, 1, 2} /\ mem'.plain = k
      BY <1>5, <1>11, <2>2
    <3> HIDE DEF k
    <3>2. One(k = 3) = 0
      BY <3>1, OneMore
    <3>3. mem'.plain = k + One(k = 3)
      BY <3>1, <3>2
    <3>4. QED BY <3>3 DEF k
  <2>7. Settled(stack', result', mem', pc')
    <3>1. \A d \in 1 .. Len(stack') : stack'[d].list.array # FALSE
      BY <1>5, <1>11
    <3>2. result'.err = "MCFG_OK" =>
             /\ v \in Live(mem') \ Held(stack')
             /\ pc' = "collect" => mem'.strings[v] \in BuiltString
      <4>1. pc' = "collect" => n > 1
        BY <1>5, <1>7, <2>1
      <4>2. QED BY <1>1, <1>5, <1>11, <2>2, <4>1
    <3>3. pc' = "collect" /\ result'.err # "MCFG_OK" => v \notin Live(mem')
      <4>1. pc' = "collect" => n > 1
        BY <1>5, <1>7, <2>1
      <4>2. NULL \notin Live(mem)
        BY <1>3, HeapIs
      <4>3. QED BY <1>1, <2>2, <4>1, <4>2
    <3>4. pc' \in {"returned", "collect"} /\ result'.value = v
      BY <1>1, <1>7, <2>1
    <3>5. QED BY <3>1, <3>2, <3>3, <3>4 DEF Settled
  <2>8. QED BY <1>11, <2>3, <2>4, <2>5, <2>6, <2>7 DEF Running
<1>15. QED BY <1>12, <1>13, <1>14 DEF IInv

-----------------------------------------------------------------------------
(* The theorems.                                                             *)

LEMMA InitInv ==
    ASSUME Init
    PROVE  IInv
<1> DEFINE none == << >>
<1>1. /\ options \in Options /\ file \in Docs /\ given = file /\ stack = none
      /\ result = NoResult /\ pc = "idle" /\ fails = 0
      /\ mem = [strings |-> none, plain |-> 0, made |-> 0, failing |-> 0, crash |-> FALSE]
  BY DEF Init, Heap
<1>2. Len(none) = 0 /\ DOMAIN none = {} /\ \A S : none \in Seq(S)
  BY EmptySeq
<1> HIDE DEF none
<1>3. file \in Document /\ given \in Document
  BY <1>1, SerializerAssumption
<1>4. mem \in Heaps
  <2>1. none \in Seq(FitString \cup {NULL})
    BY <1>2
  <2>2. QED BY <1>1, <2>1 DEF Heaps
<1>5. /\ mem.made = 0 /\ mem.failing = 0 /\ mem.crash = FALSE /\ mem.plain = 0
      /\ Live(mem) = {}
  <2>1. mem.strings = none
    BY <1>1
  <2>2. Live(mem) = {}
    BY <1>2, <2>1 DEF Live
  <2>3. QED BY <1>1, <2>2
<1>6. stack \in Seq(Frames) /\ Len(stack) = 0
  BY <1>1, <1>2
<1>7. Types
  BY <1>1, <1>3, <1>4, <1>5, <1>6 DEF Types, NoResult, Errors
<1>8. Sounds
  BY <1>1 DEF Sounds, NoResult
<1>9. \A d \in 1 .. Len(stack) : FALSE
  BY <1>6
<1>10. Held(stack) = {} /\ Apart(stack) /\ Sized(stack)
  BY <1>9 DEF Held, Apart, Sized
<1>11. Placed(file, stack, pc)
  BY <1>1, <1>6 DEF Placed
<1>12. Holding(stack, mem)
  BY <1>10 DEF Holding
<1>13. Lossless(stack, result, mem, fails)
  <2>1. Live(mem) \ Ours(stack, result) = {}
    BY <1>5
  <2> DEFINE c == Cardinality(Live(mem) \ Ours(stack, result))
  <2>2. c = 0
    BY <2>1, FS_EmptySet
  <2> HIDE DEF c
  <2>3. c <= fails
    BY <1>1, <2>2
  <2>4. QED BY <2>3 DEF Lossless, c
<1>14. mem.plain = Len(stack) + One(Len(stack) = 3)
  BY <1>5, <1>6 DEF One
<1>15. Settled(stack, result, mem, pc)
  BY <1>1, <1>9 DEF Settled
<1>16. Running(file, stack, result, mem, pc, fails)
  BY <1>10, <1>11, <1>12, <1>13, <1>14, <1>15 DEF Running
<1>17. QED BY <1>7, <1>8, <1>16 DEF IInv

LEMMA NextInv ==
    ASSUME IInv, [Next]_vars
    PROVE  IInv'
<1>1. CASE Call
  BY <1>1, CallStep
<1>2. CASE Enter
  BY <1>2, EnterStep
<1>3. CASE OneField
  BY <1>3, OneFieldStep
<1>4. CASE Collect
  BY <1>4, CollectStep
<1>5. CASE Write
  BY <1>5, WriteStep
<1>6. CASE Exit
  BY <1>6, ExitStep
<1>7. CASE Release
  BY <1>7, ReleaseStep
<1>8. CASE Stopped
  <2>1. UNCHANGED vars
    BY <1>8 DEF Stopped
  <2>2. QED BY <2>1, StoppedStep
<1>9. CASE UNCHANGED vars
  BY <1>9, StoppedStep
<1>10. QED BY <1>1, <1>2, <1>3, <1>4, <1>5, <1>6, <1>7, <1>8, <1>9 DEF Next

\* What is owned is there, and belongs to one list.
LEMMA OwnedOnce ==
    ASSUME IInv
    PROVE  EachBlockOwnedOnce
<1> SUFFICES ASSUME pc # "crashed"
             PROVE  /\ Owned \subseteq Live(mem)
                    /\ Cardinality(Live(mem) \ Owned) <= fails
                    /\ \A c, d \in 1 .. Depth : \A i \in DOMAIN stack[c].list.items,
                                                   j \in DOMAIN stack[d].list.items :
                          stack[c].list.items[i] = stack[d].list.items[j] => c = d /\ i = j
                    /\ mem.plain = Depth + One(Depth = 3)
  BY DEF EachBlockOwnedOnce
<1>1. /\ stack \in Seq(Frames) /\ Len(stack) \in Nat
      /\ Apart(stack) /\ Holding(stack, mem) /\ Lossless(stack, result, mem, fails)
      /\ mem.plain = Len(stack) + One(Len(stack) = 3)
      /\ Settled(stack, result, mem, pc) /\ Placed(file, stack, pc)
  BY InvIs
<1>2. Owned = Ours(stack, result)
  BY DEF Owned, Listed, Ours, Held, Depth
<1>3. result.err = "MCFG_OK" => result.value \in Live(mem) \cup {NULL}
  <2>1. CASE pc = "idle"
    BY <1>1, <2>1 DEF Settled, NoResult
  <2>2. CASE pc = "returned"
    BY <1>1, <2>2 DEF Settled
  <2>3. CASE pc = "loop"
    <3>1. result.value \in {NULL} \cup ToSet(stack[Len(stack)].list.items)
      BY <1>1, <2>3 DEF Settled
    <3>2. Len(stack) # 0
      BY <1>1, <2>3 DEF Placed
    <3>3. Len(stack) \in 1 .. Len(stack)
      BY <1>1, <3>2
    <3>4. ToSet(stack[Len(stack)].list.items) \subseteq Held(stack)
      BY <3>3 DEF Held
    <3>5. QED BY <1>1, <3>1, <3>4 DEF Holding
  <2>4. CASE pc \in {"collect", "exit"}
    BY <1>1, <2>4 DEF Settled
  <2>5. pc \in {"idle", "loop", "collect", "exit", "returned", "crashed"}
    BY DEF IInv, Types
  <2>6. QED BY <2>1, <2>2, <2>3, <2>4, <2>5
<1>4. Ours(stack, result) \subseteq Live(mem)
  BY <1>1, <1>3 DEF Ours, Holding
<1>5. Cardinality(Live(mem) \ Owned) <= fails
  BY <1>1, <1>2 DEF Lossless
<1>6. \A c, d \in 1 .. Depth : \A i \in DOMAIN stack[c].list.items,
                                  j \in DOMAIN stack[d].list.items :
         stack[c].list.items[i] = stack[d].list.items[j] => c = d /\ i = j
  BY <1>1 DEF Apart, Depth
<1>7. mem.plain = Depth + One(Depth = 3)
  BY <1>1 DEF Depth
<1>8. QED BY <1>2, <1>4, <1>5, <1>6, <1>7

\* Every step of the serializer keeps the invariant.
THEOREM Invariant == Spec => []IInv
<1>1. Init => IInv
  BY InitInv
<1>2. IInv /\ [Next]_vars => IInv'
  BY NextInv
<1>3. QED BY <1>1, <1>2, PTL DEF Spec

\* Whatever the document, the options and the allocations that fail, the
\* sizes that the functions of src/serialize.c ask for and string_append's
\* growing leave room for every text and the NUL behind it.
THEOREM EveryTextFits == Spec => []TextsFit
<1>1. IInv => TextsFit
  <2> SUFFICES ASSUME IInv, NEW p \in Live(mem)
               PROVE  /\ strlen(mem.strings[p].text) + 1 <= mem.strings[p].block
                      /\ mem.strings[p].length <= strlen(mem.strings[p].text)
    BY DEF TextsFit
  <2>1. mem \in Heaps
    BY DEF IInv, Types
  <2>2. mem.strings[p] \in FitString
    BY <2>1, HeapIs
  <2>3. QED BY <2>2 DEF FitString
<1>2. QED BY <1>1, Invariant, PTL

\* What the lists of serialize_file, _sector and _section and the result own
\* is there and has one owner; what nobody owns is at most one block for each
\* allocation that has failed. This is so as long as the program runs: an error
\* path that frees a string for a second time ends it.
THEOREM OneOwner == Spec => []EachBlockOwnedOnce
<1>1. IInv => EachBlockOwnedOnce
  BY OwnedOnce
<1>2. QED BY <1>1, Invariant, PTL

\* As long as no allocation has failed, a document whose fields have data is
\* written without an error, and no pointer that is not there is used.
THEOREM SoundWritten == Spec => []SoundIsWritten
<1>1. IInv => SoundIsWritten
  BY DEF IInv, Sounds, SoundIsWritten
<1>2. QED BY <1>1, Invariant, PTL
=============================================================================
