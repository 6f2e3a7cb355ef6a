------------------------- MODULE EmbedFormatProofs -------------------------
(* For every set of texts, every document and any failing allocations: what  *)
(* is written stays in the buffer, when nothing fails every block is given   *)
(* back or accounted for, and a crash has one of the seven causes.           *)
EXTENDS EmbedFormat, CommonTheorems

-----------------------------------------------------------------------------
(* The texts of values.                                                      *)

\* Every symbol that a text can be made of: those of the texts to format, and
\* those that values are printed with.
Chars == Characters \cup
         {"(", "n", "u", "l", "p", "t", "r", ")", "e", "f", "a", "s", "true", "false", "-"}
         \cup {"0", "1", "2", "3", "4", "5", "6", "7", "8", "9"}

\* A symbol is spelled with symbols,
LEMMA LettersType ==
    ASSUME NEW c \in Chars
    PROVE  Letters(c) \in Seq(Chars)
<1>1. /\ {"t", "r", "u", "e", "f", "a", "l", "s"} \subseteq Chars
      /\ <<"t", "r", "u", "e">> \in Seq({"t", "r", "u", "e", "f", "a", "l", "s"})
      /\ <<"f", "a", "l", "s", "e">> \in Seq({"t", "r", "u", "e", "f", "a", "l", "s"})
      /\ <<c>> \in Seq(Chars)
  BY DEF Chars
<1>2. Seq({"t", "r", "u", "e", "f", "a", "l", "s"}) \subseteq Seq(Chars)
  BY <1>1, SeqMonotonic
<1> QED
  BY <1>1, <1>2 DEF Letters

\* and so is a text.
LEMMA SpelledType ==
    ASSUME NEW text \in Seq(Chars)
    PROVE  Spelled(text) \in Seq(Chars)
<1> DEFINE n == Len(text)
           A == Seq(Chars)
           step == [p \in A \X (1 .. n) |-> p[1] \o Letters(text[p[2]])]
           Body(g) == [s \in SUBSET DOMAIN text |->
                          IF s = {} THEN << >> ELSE g[s \ {Max(s)}] \o Letters(text[Max(s)])]
           fold == CHOOSE g : g = Body(g)
<1>1. Spelled(text) = fold[DOMAIN text]
  BY DEF Spelled, FoldLeft, MapThenFoldSet
<1>2. /\ n \in Nat /\ DOMAIN text = 1 .. n /\ << >> \in A
      /\ \A s \in Chars : Letters(s) \in A
  BY LettersType
<1>3. step \in [A \X (1 .. n) -> A]
  <2>1. ASSUME NEW p \in A \X (1 .. n)
        PROVE  p[1] \o Letters(text[p[2]]) \in A
    <3>1. p[1] \in A /\ text[p[2]] \in Chars
      OBVIOUS
    <3>2. Letters(text[p[2]]) \in A
      BY <1>2, <3>1
    <3> QED
      BY <3>1, <3>2, ConcatProperties
  <2> QED
    BY <2>1
<1>4. ASSUME NEW a \in A, NEW i \in 1 .. n
      PROVE  step[a, i] = a \o Letters(text[i])
  OBVIOUS
<1>5. ASSUME NEW s \in SUBSET (1 .. n), s # {}
      PROVE  Max(s) \in 1 .. n
  BY <1>2, <1>5, MaxOfInterval
<1> HIDE DEF n, A, step
<1>6. PICK g \in [SUBSET (1 .. n) -> A] : Folds(g, << >>, step, n)
  BY <1>2, <1>3, FoldExists
<1>7. g = Body(g)
  <2>1. ASSUME NEW s \in SUBSET (1 .. n), s # {}
        PROVE  g[s] = g[s \ {Max(s)}] \o Letters(text[Max(s)])
    <3>1. g[s \ {Max(s)}] \in A
      BY <1>6
    <3> QED
      BY <1>4, <1>5, <1>6, <2>1, <3>1 DEF Folds
  <2>2. g[{}] = << >>
    BY <1>6 DEF Folds
  <2> QED
    BY <1>2, <1>6, <2>1, <2>2
<1>8. PICK f : f = Body(f) /\ Spelled(text) = f[DOMAIN text]
  BY <1>1, <1>7
<1>9. FoldsOver(f, A, << >>, step, n)
  <2>1. f[{}] = << >>
    BY <1>8
  <2>2. ASSUME NEW s \in SUBSET (1 .. n), s # {}, f[s \ {Max(s)}] \in A
        PROVE  f[s] = step[f[s \ {Max(s)}], Max(s)]
    <3>1. f[s] = f[s \ {Max(s)}] \o Letters(text[Max(s)])
      BY <1>2, <1>8, <2>2
    <3> QED
      BY <1>4, <1>5, <2>2, <3>1
  <2> QED
    BY <2>1, <2>2 DEF FoldsOver
<1>10. f[1 .. n] \in A
  <2>1. \A s \in SUBSET (1 .. n) : f[s] \in A
    BY <1>2, <1>3, <1>9, FoldTyped
  <2> QED
    BY <2>1
<1> QED
  BY <1>2, <1>8, <1>10 DEF A

\* What is inserted for a number or a truth value is a text.
LEMMA ValueType ==
    ASSUME NEW field, WellTyped(field), field.data # NULL,
           field.type \in FieldTypes \ {"TYPE_STRING", "TYPE_LIST"}
    PROVE  Spelled(mcfg_data_to_string(field.type, field.data)) \in Seq(Chars)
<1> DEFINE data == field.data
<1>1. data \in [bytes : Seq(0 .. 255)] /\ Len(data.bytes) = mcfg_sizeof(field.type)
  BY DEF WellTyped
<1>2. Len(data.bytes) \in {1, 2, 4}
  BY <1>1 DEF mcfg_sizeof, FieldTypes
<1>3. data.bytes # << >> /\ data.bytes \in Seq(0 .. 255)
  BY <1>1, <1>2
<1> HIDE DEF data
<1>4. mcfg_data_to_string(field.type, data) \in Seq(Figures)
  BY <1>3, ValueText
<1>5. Seq(Figures) \subseteq Seq(Chars)
  <2>1. Figures \subseteq Chars
    BY DEF Figures, Chars
  <2> QED
    BY <2>1, SeqMonotonic
<1>6. Spelled(mcfg_data_to_string(field.type, data)) \in Seq(Chars)
  BY <1>4, <1>5, SpelledType
<1> QED
  BY <1>6 DEF data

-----------------------------------------------------------------------------
(* Finding the embeds.                                                       *)

Embeds == [pos : Int, src_end_pos : Nat, ignore_me : BOOLEAN,
           field : {NULL, <<"garbage">>} \cup Seq(Characters)]

ScanState == [embeds : Seq(Embeds), array : BOOLEAN,
              err : {"MCFG_FMT_OK", "MCFG_FMT_MALLOC_FAIL"}, made : Nat, blocks : Nat,
              escaping : BOOLEAN, building_embed : BOOLEAN, building_field_name : BOOLEAN,
              field_pos : Int, field_name : Seq(Characters), exit : BOOLEAN]

\* The flags of a scan, and where the embed in the making starts.
SameFlags(r, x) ==
    /\ r.escaping = x.escaping /\ r.building_embed = x.building_embed
    /\ r.building_field_name = x.building_field_name /\ r.field_pos = x.field_pos
    /\ r.field_name = x.field_name /\ r.exit = x.exit

\* What an append makes of the embeds.
Appended(r, x, pos, src_end_pos) ==
    /\ r \in ScanState /\ SameFlags(r, x)
    /\ Len(r.embeds) = Len(x.embeds) + 1
    /\ \A j \in 1 .. Len(r.embeds) :
          \/ r.embeds[j] = Garbage
          \/ j <= Len(x.embeds) /\ r.embeds[j] = x.embeds[j]
          \/ r.embeds[j].pos = pos /\ r.embeds[j].src_end_pos = src_end_pos

\* An embed is put behind those there are, or they are all lost.
LEMMA AppendEmbedType ==
    ASSUME NEW x \in ScanState, NEW failing \in Nat, NEW field \in Seq(Characters),
           NEW pos \in Int, NEW src_end_pos \in Nat,
           NEW ignore_me, ignore_me \in {TRUE, FALSE},
           NEW r, r = _append_embed(x, failing, field, pos, src_end_pos, ignore_me)
    PROVE  Appended(r, x, pos, src_end_pos)
<1> DEFINE n == Len(x.embeds)
           embed == NewEmbed(IF failing = x.made + 1 THEN NULL ELSE field, pos, src_end_pos,
                             ignore_me)
           name == One(failing # x.made + 1)
           all == [k \in 1 .. n + 1 |-> Garbage]
           longer == Append(x.embeds, embed)
           lost == [x EXCEPT !.made = x.made + 2, !.blocks = x.blocks + name, !.array = FALSE,
                             !.embeds = all,
                             !.err = "MCFG_FMT_MALLOC_FAIL"]
           more == [x EXCEPT !.made = x.made + 2, !.blocks = x.blocks + name + One(~x.array),
                             !.array = TRUE, !.embeds = longer,
                             !.err = "MCFG_FMT_OK"]
<1>1. r = IF failing = x.made + 2 THEN lost ELSE more
  BY DEF _append_embed, ScanState
<1>2. /\ n \in Nat /\ x.embeds \in Seq(Embeds) /\ x.made \in Nat /\ x.blocks \in Nat
      /\ \A b : One(b) \in Nat
  BY DEF ScanState, One
<1>3. embed \in Embeds /\ embed.pos = pos /\ embed.src_end_pos = src_end_pos
  BY DEF Embeds, NewEmbed
<1>4. Garbage \in Embeds
  BY DEF Garbage, Embeds
<1>5. CASE failing = x.made + 2
  <2>1. all \in Seq(Embeds) /\ Len(all) = n + 1 /\ \A k \in 1 .. n + 1 : all[k] = Garbage
    BY <1>2, <1>4
  <2> HIDE DEF all, name
  <2>2. r = lost
    BY <1>1, <1>5
  <2>3. x.made + 2 \in Nat /\ x.blocks + name \in Nat
    BY <1>2 DEF name
  <2>4. r \in ScanState
    BY <2>1, <2>2, <2>3 DEF ScanState
  <2>5. r.embeds = all /\ SameFlags(r, x)
    BY <2>2 DEF ScanState, SameFlags
  <2> QED
    BY <2>1, <2>4, <2>5 DEF Appended
<1>6. CASE failing # x.made + 2
  <2> HIDE DEF embed
  <2>1. /\ longer \in Seq(Embeds) /\ Len(longer) = n + 1
        /\ \A k \in 1 .. n : longer[k] = x.embeds[k]
        /\ longer[n + 1] = embed
    BY <1>2, <1>3
  <2> HIDE DEF longer, name
  <2>2. r = more
    BY <1>1, <1>6
  <2>3. x.made + 2 \in Nat /\ x.blocks + name + One(~x.array) \in Nat
    BY <1>2 DEF name
  <2>4. r \in ScanState
    BY <2>1, <2>2, <2>3 DEF ScanState
  <2>5. r.embeds = longer /\ SameFlags(r, x)
    BY <2>2 DEF ScanState, SameFlags
  <2>6. \A j \in 1 .. n + 1 : j <= n \/ j = n + 1
    BY <1>2
  <2> QED
    BY <1>2, <1>3, <2>1, <2>4, <2>5, <2>6 DEF Appended
<1> QED
  BY <1>5, <1>6

\* With memory there is one more, in an array, and two more blocks are taken
\* for the first, one for any other.
Added(r, x, embed) ==
    /\ r.embeds = Append(x.embeds, embed)
    /\ r.array = TRUE /\ r.err = "MCFG_FMT_OK"
    /\ r.blocks = x.blocks + 1 + One(~x.array)

LEMMA AppendEmbedIs ==
    ASSUME NEW x \in ScanState, NEW field, NEW pos, NEW src_end_pos, NEW ignore_me,
           NEW r, r = _append_embed(x, 0, field, pos, src_end_pos, ignore_me)
    PROVE  Added(r, x, NewEmbed(field, pos, src_end_pos, ignore_me))
<1>1. x.made \in Nat /\ 0 # x.made + 1 /\ 0 # x.made + 2
  BY DEF ScanState
<1>2. r = [x EXCEPT !.made = x.made + 2, !.blocks = x.blocks + One(0 # x.made + 1) + One(~x.array),
                    !.array = TRUE,
                    !.embeds = Append(x.embeds, NewEmbed(field, pos, src_end_pos, ignore_me)),
                    !.err = "MCFG_FMT_OK"]
  BY <1>1 DEF _append_embed, ScanState
<1>3. One(0 # x.made + 1) = 1
  BY <1>1 DEF One
<1> QED
  BY <1>2, <1>3 DEF ScanState, Added

LEMMA AddsOne ==
    \A x \in ScanState : \A field, pos, src_end_pos, ignore_me :
       Added(_append_embed(x, 0, field, pos, src_end_pos, ignore_me), x,
             NewEmbed(field, pos, src_end_pos, ignore_me))
BY AppendEmbedIs

\* With any failure it is the one behind the others, or they are all lost.
LEMMA AppendsOrWipes ==
    ASSUME NEW x \in ScanState, NEW failing \in Nat, NEW field, NEW pos, NEW src_end_pos,
           NEW ignore_me,
           NEW r, r = _append_embed(x, failing, field, pos, src_end_pos, ignore_me)
    PROVE  \/ Garbage \in Range(r.embeds) /\ r.err = "MCFG_FMT_MALLOC_FAIL"
           \/ \E e : /\ r.embeds = Append(x.embeds, e)
                     /\ e.pos = pos /\ e.src_end_pos = src_end_pos /\ e.ignore_me = ignore_me
<1> DEFINE n == Len(x.embeds)
           all == [k \in 1 .. n + 1 |-> Garbage]
           f == IF failing = x.made + 1 THEN NULL ELSE field
           e == NewEmbed(f, pos, src_end_pos, ignore_me)
           longer == Append(x.embeds, e)
           name == One(failing # x.made + 1)
<1>1. n \in Nat
  BY DEF ScanState
<1>2. CASE failing = x.made + 2
  <2>1. Garbage \in Range(all)
    <3>1. n + 1 \in 1 .. n + 1 /\ DOMAIN all = 1 .. n + 1
      BY <1>1
    <3>2. all[n + 1] = Garbage
      BY <3>1
    <3> QED
      BY <3>1, <3>2 DEF Range
  <2> HIDE DEF all, name
  <2>2. r = [x EXCEPT !.made = x.made + 2, !.blocks = x.blocks + name, !.array = FALSE,
                      !.embeds = all, !.err = "MCFG_FMT_MALLOC_FAIL"]
    BY <1>2 DEF _append_embed, all, name, ScanState
  <2>3. r.embeds = all /\ r.err = "MCFG_FMT_MALLOC_FAIL"
    BY <2>2 DEF ScanState
  <2> QED
    BY <2>1, <2>3
<1>3. CASE failing # x.made + 2
  <2>1. e.pos = pos /\ e.src_end_pos = src_end_pos /\ e.ignore_me = ignore_me
    BY DEF NewEmbed
  <2> HIDE DEF name, f, longer
  <2>2. r = [x EXCEPT !.made = x.made + 2, !.blocks = x.blocks + name + One(~x.array),
                      !.array = TRUE, !.embeds = longer, !.err = "MCFG_FMT_OK"]
    BY <1>3 DEF _append_embed, name, f, longer, ScanState
  <2>3. r.embeds = longer
    BY <2>2 DEF ScanState
  <2> QED
    BY <2>1, <2>3 DEF longer
<1> QED
  BY <1>2, <1>3


\* What a character makes of the state of the scan.
Skips(r, x)   == r = x \/ r = [x EXCEPT !.escaping = FALSE]
Escapes(r, x, failing, ix) ==
    r = _append_embed([x EXCEPT !.building_embed = FALSE, !.escaping = TRUE],
                      failing, <<"\\">>, ix, ix + 1, TRUE)
Marks(r, x)     == r = [x EXCEPT !.building_embed = TRUE]
Opens(r, x, ix) == /\ x.building_embed = TRUE
                   /\ r = [x EXCEPT !.building_embed = FALSE, !.building_field_name = TRUE,
                                    !.field_pos = ix - 1]
Closes(r, x, failing, ix) ==
    /\ x.building_field_name = TRUE
    /\ \E z : /\ z = _append_embed([x EXCEPT !.building_embed = FALSE,
                                             !.building_field_name = FALSE,
                                             !.field_name = << >>],
                                   failing, x.field_name, x.field_pos, ix + 1, FALSE)
              /\ r = [z EXCEPT !.exit = (z.err # "MCFG_FMT_OK")]
Spells(r, x, s) == r = [x EXCEPT !.building_embed = FALSE, !.field_name = Append(x.field_name, s)]
Passes(r, x)    == r = [x EXCEPT !.building_embed = FALSE]

\* One round of the loop.
LEMMA ScanCharIs ==
    ASSUME NEW x \in ScanState, NEW failing, NEW s \in Characters, NEW ix \in Nat,
           NEW r, r = ScanChar(x, failing, s, ix)
    PROVE  \/ x.exit = TRUE /\ r = x
           \/ /\ x.exit = FALSE
              /\ \/ Skips(r, x) \/ Marks(r, x) \/ Opens(r, x, ix)
                 \/ s = "\\" /\ Escapes(r, x, failing, ix)
                 \/ Closes(r, x, failing, ix) \/ Spells(r, x, s) \/ Passes(r, x)
<1> DEFINE y == [x EXCEPT !.building_embed = (x.building_embed /\ s = "(")]
<1>1. /\ x.exit = TRUE \/ x.exit = FALSE
      /\ x.escaping = TRUE \/ x.escaping = FALSE
      /\ x.building_embed = TRUE \/ x.building_embed = FALSE
      /\ x.building_field_name = TRUE \/ x.building_field_name = FALSE
  BY DEF ScanState
<1>2. r = CASE x.exit -> x
          [] ~x.exit /\ x.escaping -> [x EXCEPT !.escaping = FALSE]
          [] ~x.exit /\ ~x.escaping /\ s = "\\" ->
                _append_embed([y EXCEPT !.escaping = TRUE], failing, <<"\\">>, ix, ix + 1, TRUE)
          [] ~x.exit /\ ~x.escaping /\ s = "$" -> [y EXCEPT !.building_embed = TRUE]
          [] ~x.exit /\ ~x.escaping /\ s = "(" /\ y.building_embed ->
                [y EXCEPT !.building_embed = FALSE, !.building_field_name = TRUE,
                          !.field_pos = ix - 1]
          [] ~x.exit /\ ~x.escaping /\ s = ")" /\ y.building_field_name ->
                LET z == _append_embed([y EXCEPT !.building_field_name = FALSE,
                                                 !.field_name = << >>],
                                       failing, y.field_name, y.field_pos, ix + 1, FALSE)
                IN  [z EXCEPT !.exit = (z.err # "MCFG_FMT_OK")]
          [] ~x.exit /\ ~x.escaping /\ s \notin {"\\", "$", "(", ")"}
             /\ y.building_field_name -> [y EXCEPT !.field_name = Append(y.field_name, s)]
          [] OTHER -> y
  BY DEF ScanChar
<1>3. /\ y \in ScanState /\ y.building_field_name = x.building_field_name
      /\ y.field_name = x.field_name /\ y.field_pos = x.field_pos
      /\ y.exit = x.exit /\ y.escaping = x.escaping
      /\ s # "(" => y = [x EXCEPT !.building_embed = FALSE]
      /\ s = "(" => y = x
  <2>1. s # "(" => y = [x EXCEPT !.building_embed = FALSE]
    BY DEF ScanState
  <2>2. s = "(" => y = x
    <3>1. ASSUME s = "(" PROVE (x.building_embed /\ s = "(") = x.building_embed
      BY <1>1, <3>1
    <3>2. x = [x EXCEPT !.building_embed = x.building_embed]
      BY DEF ScanState
    <3> QED
      BY <3>1, <3>2
  <2>3. [x EXCEPT !.building_embed = FALSE] \in ScanState
    BY DEF ScanState
  <2> HIDE DEF y
  <2>4. y = [x EXCEPT !.building_embed = FALSE] \/ y = x
    BY <2>1, <2>2
  <2> QED
    BY <2>1, <2>2, <2>3, <2>4 DEF ScanState
<1> HIDE DEF y
<1>4. CASE x.exit = TRUE
  BY <1>2, <1>4
<1>5. CASE x.exit = FALSE /\ x.escaping = TRUE
  BY <1>2, <1>5 DEF Skips
<1>6. CASE x.exit = FALSE /\ x.escaping = FALSE /\ s = "\\"
  <2>1. r = _append_embed([y EXCEPT !.escaping = TRUE], failing, <<"\\">>, ix, ix + 1, TRUE)
    BY <1>2, <1>6
  <2>2. [y EXCEPT !.escaping = TRUE] = [x EXCEPT !.building_embed = FALSE, !.escaping = TRUE]
    BY <1>3, <1>6 DEF ScanState
  <2>3. Escapes(r, x, failing, ix)
    BY <2>1, <2>2 DEF Escapes
  <2> QED
    BY <1>6, <2>3
<1>7. CASE x.exit = FALSE /\ x.escaping = FALSE /\ s = "$"
  <2>1. r = [y EXCEPT !.building_embed = TRUE]
    BY <1>2, <1>7
  <2>2. y = [x EXCEPT !.building_embed = FALSE]
    BY <1>3, <1>7
  <2>3. Marks(r, x)
    BY <2>1, <2>2 DEF Marks, ScanState
  <2> QED
    BY <1>7, <2>3
<1>8. CASE x.exit = FALSE /\ x.escaping = FALSE /\ s = "("
  <2>1. y = x
    BY <1>3, <1>8
  <2>2. CASE x.building_embed = TRUE
    <3>1. r = [y EXCEPT !.building_embed = FALSE, !.building_field_name = TRUE,
                        !.field_pos = ix - 1]
      BY <1>2, <1>8, <2>1, <2>2
    <3>2. Opens(r, x, ix)
      BY <2>1, <2>2, <3>1 DEF Opens
    <3> QED
      BY <1>8, <3>2
  <2>3. CASE x.building_embed = FALSE
    <3>1. r = x
      BY <1>2, <1>8, <2>1, <2>3
    <3> QED
      BY <1>8, <3>1 DEF Skips
  <2> QED
    BY <1>1, <2>2, <2>3
<1>9. CASE x.exit = FALSE /\ x.escaping = FALSE /\ s \notin {"\\", "$", "("}
  <2>1. y = [x EXCEPT !.building_embed = FALSE]
    BY <1>3, <1>9
  <2>2. CASE s = ")" /\ x.building_field_name = TRUE
    <3> DEFINE w == [y EXCEPT !.building_field_name = FALSE, !.field_name = << >>]
               z == _append_embed(w, failing, x.field_name, x.field_pos, ix + 1, FALSE)
    <3>1. r = [z EXCEPT !.exit = (z.err # "MCFG_FMT_OK")]
      BY <1>2, <1>3, <1>9, <2>2
    <3>2. w = [x EXCEPT !.building_embed = FALSE, !.building_field_name = FALSE,
                        !.field_name = << >>]
      BY <2>1 DEF ScanState
    <3> HIDE DEF w
    <3>3. Closes(r, x, failing, ix)
      BY <2>2, <3>1, <3>2 DEF Closes
    <3> QED
      BY <1>9, <3>3
  <2>3. CASE s # ")" /\ x.building_field_name = TRUE
    <3>1. r = [y EXCEPT !.field_name = Append(y.field_name, s)]
      BY <1>2, <1>3, <1>9, <2>3
    <3>2. Spells(r, x, s)
      BY <2>1, <3>1 DEF Spells, ScanState
    <3> QED
      BY <1>9, <3>2
  <2>4. CASE x.building_field_name = FALSE
    <3>1. r = y
      BY <1>2, <1>3, <1>9, <2>4
    <3> QED
      BY <1>9, <2>1, <3>1 DEF Passes
  <2> QED
    BY <1>1, <2>2, <2>3, <2>4
<1> QED
  BY <1>1, <1>4, <1>5, <1>6, <1>7, <1>8, <1>9

\* After k characters: the embeds, and the one in the making, are among them.
ScanIn(x, k) ==
    /\ x \in ScanState
    /\ \A j \in 1 .. Len(x.embeds) : /\ 0 <= x.embeds[j].pos /\ x.embeds[j].pos <= k
                                     /\ x.embeds[j].src_end_pos <= k
    /\ x.building_embed => k >= 1
    /\ x.building_field_name => 0 <= x.field_pos /\ x.field_pos <= k

\* a ends before b starts; only an escape can be inside of an embed.
Inner(a, b) == a.ignore_me = TRUE /\ b.pos < a.pos /\ a.pos < b.src_end_pos
Apart(a, b) == a.src_end_pos <= b.pos \/ Inner(a, b)

\* The embeds are apart, and apart from the one in the making.
ScanApart(x, k) ==
    /\ x.building_embed => \A j \in 1 .. Len(x.embeds) : x.embeds[j].src_end_pos <= k - 1
    /\ x.building_field_name =>
          /\ x.field_pos < k
          /\ \A j \in 1 .. Len(x.embeds) :
                \/ x.embeds[j].src_end_pos <= x.field_pos
                \/ x.embeds[j].ignore_me = TRUE /\ x.field_pos < x.embeds[j].pos
    /\ \A l \in 1 .. Len(x.embeds) : \A j \in 1 .. l - 1 : Apart(x.embeds[j], x.embeds[l])

\* There are entries that nobody has initialised.
Wiped(x) == Garbage \in Range(x.embeds)

\* No allocation has failed: there are the embeds, embed for embed, and no more.
ScanClean(x) ==
    /\ x.err = "MCFG_FMT_OK" /\ x.exit = FALSE
    /\ x.array = (Len(x.embeds) > 0)
    /\ x.blocks = Len(x.embeds) + One(x.array)
    /\ \A j \in 1 .. Len(x.embeds) : /\ x.embeds[j].field \in Seq(Characters)
                                     /\ x.embeds[j].pos < x.embeds[j].src_end_pos

\* The state of a scan, part by part.
LEMMA ScanParts ==
    ASSUME NEW x \in ScanState
    PROVE  /\ x.embeds \in Seq(Embeds) /\ Len(x.embeds) \in Nat
           /\ x.field_pos \in Int /\ x.field_name \in Seq(Characters) /\ x.blocks \in Nat
           /\ x.array = TRUE \/ x.array = FALSE
           /\ x.exit = TRUE \/ x.exit = FALSE
           /\ x.building_embed = TRUE \/ x.building_embed = FALSE
           /\ x.building_field_name = TRUE \/ x.building_field_name = FALSE
           /\ \A j \in 1 .. Len(x.embeds) : /\ x.embeds[j] \in Embeds
                                            /\ x.embeds[j].pos \in Int
                                            /\ x.embeds[j].src_end_pos \in Nat
<1>1. /\ x.embeds \in Seq(Embeds)
      /\ x.field_pos \in Int /\ x.field_name \in Seq(Characters) /\ x.blocks \in Nat
      /\ x.array = TRUE \/ x.array = FALSE
      /\ x.exit = TRUE \/ x.exit = FALSE
      /\ x.building_embed = TRUE \/ x.building_embed = FALSE
      /\ x.building_field_name = TRUE \/ x.building_field_name = FALSE
  BY DEF ScanState
<1>2. Len(x.embeds) \in Nat /\ \A j \in 1 .. Len(x.embeds) : x.embeds[j] \in Embeds
  BY <1>1
<1>3. \A e \in Embeds : e.pos \in Int /\ e.src_end_pos \in Nat
  BY DEF Embeds
<1> QED
  BY <1>1, <1>2, <1>3

\* What is there has been initialised.
LEMMA CleanIsWhole ==
    ASSUME NEW x, NEW k, ScanIn(x, k), ScanClean(x)
    PROVE  ~Wiped(x)
<1>1. \A j \in 1 .. Len(x.embeds) : x.embeds[j] # Garbage
  <2> TAKE j \in 1 .. Len(x.embeds)
  <2>1. x.embeds[j].pos < x.embeds[j].src_end_pos
    BY DEF ScanClean
  <2>2. ~ (Garbage.pos < Garbage.src_end_pos)
    BY DEF Garbage
  <2> QED
    BY <2>1, <2>2
<1>2. x.embeds \in Seq(Embeds)
  BY ScanParts DEF ScanIn
<1> QED
  BY <1>1, <1>2 DEF Wiped, Range

LEMMA Appends ==
    \A x \in ScanState, failing \in Nat, field \in Seq(Characters), pos \in Int,
       src_end_pos \in Nat, ignore_me \in {TRUE, FALSE} :
          Appended(_append_embed(x, failing, field, pos, src_end_pos, ignore_me), x, pos,
                   src_end_pos)
BY AppendEmbedType

\* An embed that ends there keeps them so.
LEMMA AppendEmbedIn ==
    ASSUME NEW m \in Nat, NEW w, ScanIn(w, m), NEW failing \in Nat,
           NEW field \in Seq(Characters), NEW pos \in Int, 0 <= pos, pos <= m,
           NEW ignore_me, ignore_me \in {TRUE, FALSE},
           NEW z, z = _append_embed(w, failing, field, pos, m, ignore_me)
    PROVE  ScanIn(z, m)
<1>1. w \in ScanState
  BY DEF ScanIn
<1>2. /\ z \in ScanState /\ SameFlags(z, w)
      /\ Len(z.embeds) = Len(w.embeds) + 1
      /\ \A j \in 1 .. Len(z.embeds) :
            \/ z.embeds[j] = Garbage
            \/ j <= Len(w.embeds) /\ z.embeds[j] = w.embeds[j]
            \/ z.embeds[j].pos = pos /\ z.embeds[j].src_end_pos = m
  <2>1. Appended(_append_embed(w, failing, field, pos, m, ignore_me), w, pos, m)
    BY <1>1, Appends
  <2> QED
    BY <2>1 DEF Appended
<1>3. ASSUME NEW j \in 1 .. Len(z.embeds)
      PROVE  0 <= z.embeds[j].pos /\ z.embeds[j].pos <= m /\ z.embeds[j].src_end_pos <= m
  <2>1. CASE z.embeds[j] = Garbage
    BY <2>1 DEF Garbage
  <2>2. CASE j <= Len(w.embeds) /\ z.embeds[j] = w.embeds[j]
    <3>1. j \in 1 .. Len(w.embeds)
      BY <1>1, <2>2, ScanParts
    <3> QED
      BY <2>2, <3>1 DEF ScanIn
  <2>3. CASE z.embeds[j].pos = pos /\ z.embeds[j].src_end_pos = m
    BY <2>3
  <2> QED
    BY <1>2, <2>1, <2>2, <2>3
<1>4. /\ z.building_embed => m >= 1
      /\ z.building_field_name => 0 <= z.field_pos /\ z.field_pos <= m
  BY <1>2 DEF SameFlags, ScanIn
<1> QED
  BY <1>2, <1>3, <1>4 DEF ScanIn

\* A round keeps the embeds among the characters,
LEMMA ScanCharIn ==
    ASSUME NEW k \in Nat, NEW m, m = k + 1, NEW x, ScanIn(x, k), NEW failing \in Nat,
           NEW s \in Characters, NEW r, r = ScanChar(x, failing, s, k)
    PROVE  ScanIn(r, m)
<1>1. x \in ScanState
  BY DEF ScanIn
<1>2. /\ x.embeds \in Seq(Embeds) /\ Len(x.embeds) \in Nat /\ x.field_pos \in Int
      /\ x.field_name \in Seq(Characters)
      /\ \A j \in 1 .. Len(x.embeds) : /\ 0 <= x.embeds[j].pos /\ x.embeds[j].pos <= m
                                       /\ x.embeds[j].src_end_pos <= m
      /\ x.building_embed => k >= 1
      /\ x.building_field_name => 0 <= x.field_pos /\ x.field_pos <= m
      /\ m >= 1 /\ m \in Nat
  <2>1. /\ \A j \in 1 .. Len(x.embeds) :
              /\ x.embeds[j].pos \in Int /\ x.embeds[j].src_end_pos \in Nat
              /\ 0 <= x.embeds[j].pos /\ x.embeds[j].pos <= k /\ x.embeds[j].src_end_pos <= k
        /\ x.building_embed => k >= 1
        /\ x.building_field_name => 0 <= x.field_pos /\ x.field_pos <= k
    BY <1>1, ScanParts DEF ScanIn
  <2>2. m >= 1 /\ m \in Nat /\ \A i \in Int : i <= k => i <= m
    OBVIOUS
  <2>3. /\ x.embeds \in Seq(Embeds) /\ Len(x.embeds) \in Nat /\ x.field_pos \in Int
        /\ x.field_name \in Seq(Characters)
    BY <1>1, ScanParts
  <2> QED
    BY <2>1, <2>2, <2>3
<1>3. ASSUME r \in ScanState, r.embeds = x.embeds,
             \/ r.building_field_name = x.building_field_name /\ r.field_pos = x.field_pos
             \/ r.field_pos = k - 1 /\ x.building_embed = TRUE
      PROVE  ScanIn(r, m)
  <2>1. r.building_field_name => 0 <= r.field_pos /\ r.field_pos <= m
    <3>1. x.building_field_name = TRUE \/ x.building_field_name = FALSE
      BY <1>1, ScanParts
    <3>2. CASE r.building_field_name = x.building_field_name /\ r.field_pos = x.field_pos
      BY <1>2, <3>1, <3>2
    <3>3. CASE r.field_pos = k - 1 /\ x.building_embed = TRUE
      BY <1>2, <3>3
    <3> QED
      BY <1>3, <3>2, <3>3
  <2> QED
    BY <1>2, <1>3, <2>1 DEF ScanIn
<1>3A. ASSUME NEW w \in ScanState, w.embeds = x.embeds, w.field_pos = x.field_pos,
              w.building_field_name = x.building_field_name \/ w.building_field_name = FALSE
       PROVE  ScanIn(w, m)
  <2>1. w.building_field_name => 0 <= w.field_pos /\ w.field_pos <= m
    BY <1>2, <1>3A
  <2> QED
    BY <1>2, <1>3A, <2>1 DEF ScanIn
<1>5. CASE x.exit = TRUE /\ r = x
  BY <1>1, <1>3, <1>5
<1>6. CASE Skips(r, x) \/ Marks(r, x) \/ Opens(r, x, k) \/ Spells(r, x, s) \/ Passes(r, x)
  <2>1. r \in ScanState /\ r.embeds = x.embeds
    <3>1. \A c \in Characters : Append(x.field_name, c) \in Seq(Characters)
      BY <1>2
    <3>2. k - 1 \in Int
      OBVIOUS
    <3> QED
      BY <1>1, <1>6, <3>1, <3>2 DEF Skips, Marks, Opens, Spells, Passes, ScanState
  <2>2. \/ r.building_field_name = x.building_field_name /\ r.field_pos = x.field_pos
        \/ r.field_pos = k - 1 /\ x.building_embed = TRUE
    BY <1>1, <1>6 DEF Skips, Marks, Opens, Spells, Passes, ScanState
  <2> QED
    BY <1>3, <2>1, <2>2
<1>7. CASE s = "\\" /\ Escapes(r, x, failing, k)
  <2> DEFINE w == [x EXCEPT !.building_embed = FALSE, !.escaping = TRUE]
  <2>1. /\ w \in ScanState /\ w.embeds = x.embeds /\ w.field_pos = x.field_pos
        /\ w.building_field_name = x.building_field_name
    BY <1>1 DEF ScanState
  <2>2. r = _append_embed(w, failing, <<"\\">>, k, m, TRUE)
    BY <1>7 DEF Escapes
  <2>3. <<"\\">> \in Seq(Characters) /\ TRUE \in {TRUE, FALSE} /\ k \in Int /\ 0 <= k /\ k <= m
    BY <1>7
  <2> HIDE DEF w
  <2>4. ScanIn(w, m)
    BY <1>3A, <2>1
  <2>5. <<"\\">> \in Seq(Characters) /\ TRUE \in {TRUE, FALSE} /\ k \in Int /\ m \in Nat
    BY <1>2, <2>3
  <2> QED
    BY <2>2, <2>3, <2>4, <2>5, AppendEmbedIn
<1>8. CASE Closes(r, x, failing, k)
  <2> DEFINE w == [x EXCEPT !.building_embed = FALSE, !.building_field_name = FALSE,
                            !.field_name = << >>]
  <2>1. /\ w \in ScanState /\ w.embeds = x.embeds /\ w.field_pos = x.field_pos
        /\ w.building_field_name = FALSE
    <3>1. << >> \in Seq(Characters)
      OBVIOUS
    <3> QED
      BY <1>1, <3>1 DEF ScanState
  <2>2. PICK z : /\ z = _append_embed(w, failing, x.field_name, x.field_pos, m, FALSE)
                 /\ r = [z EXCEPT !.exit = (z.err # "MCFG_FMT_OK")]
    BY <1>8 DEF Closes
  <2>3. FALSE \in {TRUE, FALSE} /\ 0 <= x.field_pos /\ x.field_pos <= m
    BY <1>2, <1>8 DEF Closes
  <2> HIDE DEF w
  <2>3a. ScanIn(w, m)
    BY <1>3A, <2>1
  <2>4. ScanIn(z, m)
    BY <1>2, <2>2, <2>3, <2>3a, AppendEmbedIn
  <2>5. /\ r \in ScanState /\ r.embeds = z.embeds /\ r.building_embed = z.building_embed
        /\ r.building_field_name = z.building_field_name /\ r.field_pos = z.field_pos
    BY <2>2, <2>4 DEF ScanIn, ScanState
  <2> QED
    BY <2>4, <2>5 DEF ScanIn
<1> QED
  BY <1>1, <1>5, <1>6, <1>7, <1>8, ScanCharIs

\* An embed from pos on may be put behind those there are,
Clear(w, pos, ignore_me) ==
    /\ w.building_embed = FALSE
    /\ w.building_field_name = TRUE => ignore_me = TRUE /\ w.field_pos < pos
    /\ \A j \in 1 .. Len(w.embeds) :
          \/ w.embeds[j].src_end_pos <= pos
          \/ w.embeds[j].ignore_me = TRUE /\ pos < w.embeds[j].pos

\* and that keeps them apart, unless it loses them.
LEMMA AppendEmbedApart ==
    ASSUME NEW k \in Nat, NEW m, m = k + 1, NEW w, ScanIn(w, k), ScanApart(w, k),
           NEW failing \in Nat, NEW field \in Seq(Characters),
           NEW pos \in Int, 0 <= pos, pos <= k,
           NEW ignore_me, ignore_me \in {TRUE, FALSE}, Clear(w, pos, ignore_me),
           NEW z, z = _append_embed(w, failing, field, pos, m, ignore_me)
    PROVE  Wiped(z) \/ ScanApart(z, m)
<1>1. w \in ScanState /\ m \in Nat /\ m > k
  BY DEF ScanIn
<1>2. CASE Wiped(z)
  BY <1>2
<1>3. CASE ~Wiped(z)
  <2> DEFINE n == Len(w.embeds)
  <2>1. PICK e : /\ z.embeds = Append(w.embeds, e)
                 /\ e.pos = pos /\ e.src_end_pos = m /\ e.ignore_me = ignore_me
    BY <1>1, <1>3, AppendsOrWipes DEF Wiped
  <2>2. SameFlags(z, w)
    <3>1. Appended(_append_embed(w, failing, field, pos, m, ignore_me), w, pos, m)
      BY <1>1, Appends
    <3> QED
      BY <3>1 DEF Appended
  <2>3. /\ w.embeds \in Seq(Embeds) /\ n \in Nat /\ w.field_pos \in Int
        /\ w.building_field_name = TRUE \/ w.building_field_name = FALSE
        /\ \A j \in 1 .. n : w.embeds[j].pos \in Int /\ w.embeds[j].src_end_pos \in Nat
    BY <1>1, ScanParts
  <2>4. /\ Len(z.embeds) = n + 1 /\ z.embeds[n + 1] = e
        /\ \A j \in 1 .. n : z.embeds[j] = w.embeds[j]
    BY <2>1, <2>3
  <2>5. \A j \in 1 .. n + 1 : j \in 1 .. n \/ j = n + 1
    BY <2>3
  <2>6. /\ w.building_embed = FALSE
        /\ w.building_field_name = TRUE => ignore_me = TRUE /\ w.field_pos < pos
        /\ \A j \in 1 .. n : \/ w.embeds[j].src_end_pos <= pos
                             \/ w.embeds[j].ignore_me = TRUE /\ pos < w.embeds[j].pos
    BY DEF Clear
  <2>7. /\ z.building_embed = FALSE /\ z.building_field_name = w.building_field_name
        /\ z.field_pos = w.field_pos
    BY <2>2, <2>6 DEF SameFlags
  <2>8. /\ \A j \in 1 .. n : w.embeds[j].pos <= k
        /\ w.building_field_name = TRUE =>
              /\ w.field_pos < k
              /\ \A j \in 1 .. n : \/ w.embeds[j].src_end_pos <= w.field_pos
                                   \/ /\ w.embeds[j].ignore_me = TRUE
                                      /\ w.field_pos < w.embeds[j].pos
        /\ \A l \in 1 .. n : \A j \in 1 .. l - 1 : Apart(w.embeds[j], w.embeds[l])
    BY DEF ScanIn, ScanApart
  <2>9. z.building_field_name =>
            /\ z.field_pos < m
            /\ \A j \in 1 .. Len(z.embeds) :
                  \/ z.embeds[j].src_end_pos <= z.field_pos
                  \/ z.embeds[j].ignore_me = TRUE /\ z.field_pos < z.embeds[j].pos
    <3> SUFFICES ASSUME w.building_field_name = TRUE
                 PROVE  /\ w.field_pos < m
                        /\ \A j \in 1 .. n + 1 :
                              \/ z.embeds[j].src_end_pos <= w.field_pos
                              \/ z.embeds[j].ignore_me = TRUE /\ w.field_pos < z.embeds[j].pos
      BY <2>3, <2>4, <2>7
    <3>1. w.field_pos < m
      BY <1>1, <2>3, <2>8
    <3>2. \A j \in 1 .. n : \/ z.embeds[j].src_end_pos <= w.field_pos
                            \/ z.embeds[j].ignore_me = TRUE /\ w.field_pos < z.embeds[j].pos
      BY <2>4, <2>8
    <3>3. z.embeds[n + 1].ignore_me = TRUE /\ w.field_pos < z.embeds[n + 1].pos
      BY <2>1, <2>4, <2>6
    <3> QED
      BY <2>5, <3>1, <3>2, <3>3
  <2>10. \A l \in 1 .. Len(z.embeds) : \A j \in 1 .. l - 1 : Apart(z.embeds[j], z.embeds[l])
    <3> TAKE l \in 1 .. Len(z.embeds)
    <3> TAKE j \in 1 .. l - 1
    <3>1. CASE l \in 1 .. n
      <4>1. j \in 1 .. n
        BY <2>3, <3>1
      <4> QED
        BY <2>4, <2>8, <3>1, <4>1
    <3>2. CASE l = n + 1
      <4>1. j \in 1 .. n
        BY <2>3, <3>2
      <4>2. z.embeds[j] = w.embeds[j] /\ z.embeds[l] = e
        BY <2>4, <3>2, <4>1
      <4>3. w.embeds[j].pos \in Int /\ w.embeds[j].pos <= k
        BY <2>3, <2>8, <4>1
      <4>4. w.embeds[j].pos < m
        BY <1>1, <4>3
      <4> QED
        BY <2>1, <2>6, <4>1, <4>2, <4>4 DEF Apart, Inner
    <3> QED
      BY <2>4, <2>5, <3>1, <3>2
  <2> QED
    BY <2>7, <2>9, <2>10 DEF ScanApart
<1> QED
  BY <1>2, <1>3

\* What is lost is not found again.
LEMMA AppendEmbedWiped ==
    ASSUME NEW w \in ScanState, NEW failing \in Nat, NEW field, NEW pos, NEW src_end_pos,
           NEW ignore_me, Wiped(w),
           NEW z, z = _append_embed(w, failing, field, pos, src_end_pos, ignore_me)
    PROVE  Wiped(z)
<1>1. CASE Garbage \in Range(z.embeds)
  BY <1>1 DEF Wiped
<1>2. ASSUME NEW e, z.embeds = Append(w.embeds, e)
      PROVE  Wiped(z)
  <2>1. w.embeds \in Seq(Embeds) /\ Len(w.embeds) \in Nat
    BY ScanParts
  <2>2. PICK j \in 1 .. Len(w.embeds) : w.embeds[j] = Garbage
    BY <2>1 DEF Wiped, Range
  <2>3. j \in DOMAIN z.embeds /\ z.embeds[j] = Garbage
    BY <1>2, <2>1, <2>2
  <2> QED
    BY <2>3 DEF Wiped, Range
<1>3. \/ Garbage \in Range(z.embeds) /\ z.err = "MCFG_FMT_MALLOC_FAIL"
      \/ \E e : /\ z.embeds = Append(w.embeds, e)
                /\ e.pos = pos /\ e.src_end_pos = src_end_pos /\ e.ignore_me = ignore_me
  BY AppendsOrWipes
<1> QED
  BY <1>1, <1>2, <1>3

\* With memory no embed is lost.
LEMMA AppendEmbedClean ==
    ASSUME NEW m \in Nat, NEW w \in ScanState, ScanClean(w),
           NEW field \in Seq(Characters), NEW pos \in Int, pos < m,
           NEW ignore_me, ignore_me \in {TRUE, FALSE},
           NEW z, z = _append_embed(w, 0, field, pos, m, ignore_me)
    PROVE  ScanClean(z)
<1> DEFINE e == NewEmbed(field, pos, m, ignore_me)
           n == Len(w.embeds)
<1>1. /\ z.embeds = Append(w.embeds, e) /\ z.array = TRUE /\ z.err = "MCFG_FMT_OK"
      /\ z.blocks = w.blocks + 1 + One(~w.array)
  <2>1. Added(_append_embed(w, 0, field, pos, m, ignore_me), w,
              NewEmbed(field, pos, m, ignore_me))
    BY AddsOne
  <2> QED
    BY <2>1 DEF Added
<1>2. SameFlags(z, w)
  <2>1. Appended(_append_embed(w, 0, field, pos, m, ignore_me), w, pos, m)
    BY Appends
  <2> QED
    BY <2>1 DEF Appended
<1>3. e.pos = pos /\ e.src_end_pos = m /\ e.field = field
  BY DEF NewEmbed
<1> HIDE DEF e
<1>4. /\ w.embeds \in Seq(Embeds) /\ n \in Nat /\ w.blocks \in Nat
      /\ w.array = TRUE \/ w.array = FALSE
  BY ScanParts
<1>5. /\ Len(z.embeds) = n + 1 /\ z.embeds[n + 1] = e
      /\ \A j \in 1 .. n : z.embeds[j] = w.embeds[j]
  BY <1>1, <1>4
<1>6. \A j \in 1 .. n + 1 : j \in 1 .. n \/ j = n + 1
  BY <1>4
<1>7. z.array = (Len(z.embeds) > 0) /\ z.blocks = Len(z.embeds) + One(z.array)
  <2>1. w.array = (n > 0) /\ w.blocks = n + One(w.array)
    BY DEF ScanClean
  <2>2. One(TRUE) = 1 /\ One(FALSE) = 0 /\ ~TRUE = FALSE /\ ~FALSE = TRUE
    BY DEF One
  <2> DEFINE new == One(~w.array)
  <2>3. w.blocks + new = n + 1 /\ new \in {0, 1}
    <3>1. CASE w.array = TRUE
      <4>1. One(w.array) = 1 /\ new = 0
        BY <3>1 DEF One
      <4> HIDE DEF new
      <4> QED
        BY <1>4, <2>1, <4>1
    <3>2. CASE w.array = FALSE
      <4>1. One(w.array) = 0 /\ new = 1
        BY <3>2 DEF One
      <4> HIDE DEF new
      <4> QED
        BY <1>4, <2>1, <4>1
    <3> QED
      BY <1>4, <3>1, <3>2
  <2>4. z.blocks = w.blocks + 1 + new
    BY <1>1
  <2> HIDE DEF new
  <2>5. z.blocks = Len(z.embeds) + 1
    BY <1>4, <1>5, <2>3, <2>4
  <2>6. (Len(z.embeds) > 0) = TRUE
    BY <1>4, <1>5
  <2> QED
    BY <1>1, <2>2, <2>5, <2>6
<1>8. \A j \in 1 .. Len(z.embeds) : /\ z.embeds[j].field \in Seq(Characters)
                                    /\ z.embeds[j].pos < z.embeds[j].src_end_pos
  <2> TAKE j \in 1 .. Len(z.embeds)
  <2>1. CASE j \in 1 .. n
    BY <1>5, <2>1 DEF ScanClean
  <2>2. CASE j = n + 1
    BY <1>3, <1>5, <2>2
  <2> QED
    BY <1>5, <1>6, <2>1, <2>2
<1>9. z.exit = FALSE
  BY <1>2 DEF SameFlags, ScanClean
<1> QED
  BY <1>1, <1>7, <1>8, <1>9 DEF ScanClean

\* A round keeps the embeds apart, unless it loses them,
LEMMA ScanCharApart ==
    ASSUME NEW k \in Nat, NEW m, m = k + 1, NEW x, ScanIn(x, k), ScanApart(x, k),
           NEW failing \in Nat, NEW s \in Characters, NEW r, r = ScanChar(x, failing, s, k)
    PROVE  Wiped(r) \/ ScanApart(r, m)
<1>1. x \in ScanState
  BY DEF ScanIn
<1>2. /\ x.field_pos \in Int /\ x.field_name \in Seq(Characters)
      /\ x.building_embed = TRUE \/ x.building_embed = FALSE
      /\ x.building_field_name = TRUE \/ x.building_field_name = FALSE
      /\ \A j \in 1 .. Len(x.embeds) : /\ x.embeds[j].pos \in Int
                                       /\ x.embeds[j].src_end_pos \in Nat
                                       /\ x.embeds[j].src_end_pos <= k
      /\ x.building_embed = TRUE =>
            \A j \in 1 .. Len(x.embeds) : x.embeds[j].src_end_pos <= k - 1
      /\ x.building_field_name = TRUE =>
            /\ 0 <= x.field_pos /\ x.field_pos < k
            /\ \A j \in 1 .. Len(x.embeds) :
                  \/ x.embeds[j].src_end_pos <= x.field_pos
                  \/ x.embeds[j].ignore_me = TRUE /\ x.field_pos < x.embeds[j].pos
  BY <1>1, ScanParts DEF ScanIn, ScanApart
<1>3. ASSUME NEW w, w.embeds = x.embeds, NEW i, i = k \/ i = m,
             w.building_embed = TRUE \/ w.building_embed = FALSE,
             w.building_embed = TRUE => i = m \/ x.building_embed = TRUE,
             w.building_field_name = TRUE \/ w.building_field_name = FALSE,
             w.building_field_name = TRUE =>
                \/ x.building_field_name = TRUE /\ w.field_pos = x.field_pos
                \/ w.field_pos = k - 1 /\ x.building_embed = TRUE
      PROVE  ScanApart(w, i)
  <2>1. w.building_embed => \A j \in 1 .. Len(w.embeds) : w.embeds[j].src_end_pos <= i - 1
    BY <1>2, <1>3
  <2>2. w.building_field_name =>
          /\ w.field_pos < i
          /\ \A j \in 1 .. Len(w.embeds) :
                \/ w.embeds[j].src_end_pos <= w.field_pos
                \/ w.embeds[j].ignore_me = TRUE /\ w.field_pos < w.embeds[j].pos
    BY <1>2, <1>3
  <2> QED
    BY <1>3, <2>1, <2>2 DEF ScanApart
<1>4. CASE r = x \/ Skips(r, x)
  <2>1. /\ r.embeds = x.embeds /\ r.building_embed = x.building_embed
        /\ r.building_field_name = x.building_field_name /\ r.field_pos = x.field_pos
    BY <1>1, <1>4 DEF Skips, ScanState
  <2> QED
    BY <1>2, <1>3, <2>1
<1>5. CASE Marks(r, x)
  <2>1. /\ r.embeds = x.embeds /\ r.building_embed = TRUE
        /\ r.building_field_name = x.building_field_name /\ r.field_pos = x.field_pos
    BY <1>1, <1>5 DEF Marks, ScanState
  <2> QED
    BY <1>2, <1>3, <2>1
<1>6. CASE Opens(r, x, k)
  <2>1. /\ r.embeds = x.embeds /\ r.building_embed = FALSE
        /\ r.building_field_name = TRUE /\ r.field_pos = k - 1 /\ x.building_embed = TRUE
    BY <1>1, <1>6 DEF Opens, ScanState
  <2> QED
    BY <1>2, <1>3, <2>1
<1>7. CASE Spells(r, x, s) \/ Passes(r, x)
  <2>1. /\ r.embeds = x.embeds /\ r.building_embed = FALSE
        /\ r.building_field_name = x.building_field_name /\ r.field_pos = x.field_pos
    BY <1>1, <1>7 DEF Spells, Passes, ScanState
  <2> QED
    BY <1>2, <1>3, <2>1
<1>8. CASE s = "\\" /\ Escapes(r, x, failing, k)
  <2> DEFINE w == [x EXCEPT !.building_embed = FALSE, !.escaping = TRUE]
  <2>1. /\ w.embeds = x.embeds /\ w.building_embed = FALSE /\ w \in ScanState
        /\ w.building_field_name = x.building_field_name /\ w.field_pos = x.field_pos
    BY <1>1, <1>8 DEF ScanState
  <2>2. r = _append_embed(w, failing, <<"\\">>, k, m, TRUE)
    BY <1>8 DEF Escapes
  <2> HIDE DEF w
  <2>3. ScanApart(w, k)
    BY <1>2, <1>3, <2>1
  <2>4. ScanIn(w, k)
    BY <2>1 DEF ScanIn
  <2>5. <<"\\">> \in Seq(Characters) /\ TRUE \in {TRUE, FALSE} /\ k \in Int /\ 0 <= k /\ k <= k
    BY <1>8
  <2>6. w.building_field_name = TRUE => TRUE = TRUE /\ w.field_pos < k
    BY <1>2, <2>1
  <2>7. \A j \in 1 .. Len(w.embeds) : \/ w.embeds[j].src_end_pos <= k
                                      \/ w.embeds[j].ignore_me = TRUE /\ k < w.embeds[j].pos
    BY <1>2, <2>1
  <2>8. Clear(w, k, TRUE)
    BY <2>1, <2>6, <2>7 DEF Clear
  <2> QED
    BY <2>2, <2>3, <2>4, <2>5, <2>8, AppendEmbedApart
<1>9. CASE Closes(r, x, failing, k)
  <2> DEFINE w == [x EXCEPT !.building_embed = FALSE, !.building_field_name = FALSE,
                            !.field_name = << >>]
  <2>1. /\ w.embeds = x.embeds /\ w.building_embed = FALSE /\ w \in ScanState
        /\ w.building_field_name = FALSE /\ w.field_pos = x.field_pos
    <3>1. << >> \in Seq(Characters)
      OBVIOUS
    <3> QED
      BY <1>1, <1>9, <3>1 DEF ScanState
  <2>2. PICK z : /\ z = _append_embed(w, failing, x.field_name, x.field_pos, m, FALSE)
                 /\ r = [z EXCEPT !.exit = (z.err # "MCFG_FMT_OK")]
    BY <1>9 DEF Closes
  <2> HIDE DEF w
  <2>3. ScanApart(w, k)
    BY <1>2, <1>3, <2>1
  <2>4. ScanIn(w, k)
    BY <2>1 DEF ScanIn
  <2>5. /\ x.field_name \in Seq(Characters) /\ FALSE \in {TRUE, FALSE}
        /\ x.field_pos \in Int /\ 0 <= x.field_pos /\ x.field_pos <= k /\ m \in Nat
    BY <1>2, <1>9 DEF Closes
  <2>6. \A j \in 1 .. Len(w.embeds) :
           \/ w.embeds[j].src_end_pos <= x.field_pos
           \/ w.embeds[j].ignore_me = TRUE /\ x.field_pos < w.embeds[j].pos
    BY <1>2, <1>9, <2>1 DEF Closes
  <2>7. Wiped(z) \/ ScanApart(z, m)
    <3>1. Clear(w, x.field_pos, FALSE)
      BY <2>1, <2>6 DEF Clear
    <3> QED
      BY <2>2, <2>3, <2>4, <2>5, <3>1, AppendEmbedApart
  <2>8. z \in ScanState
    <3>1. Appended(_append_embed(w, failing, x.field_name, x.field_pos, m, FALSE), w,
                   x.field_pos, m)
      BY <2>1, <2>5, Appends
    <3> QED
      BY <2>2, <3>1 DEF Appended
  <2>9. /\ r.embeds = z.embeds /\ r.building_embed = z.building_embed
        /\ r.building_field_name = z.building_field_name /\ r.field_pos = z.field_pos
    BY <2>2, <2>8 DEF ScanState
  <2> QED
    BY <2>7, <2>9 DEF ScanApart, Wiped
<1> QED
  BY <1>1, <1>4, <1>5, <1>6, <1>7, <1>8, <1>9, ScanCharIs

\* does not find what is lost,
LEMMA ScanCharWiped ==
    ASSUME NEW k \in Nat, NEW x \in ScanState, Wiped(x), NEW failing \in Nat,
           NEW s \in Characters, NEW r, r = ScanChar(x, failing, s, k)
    PROVE  Wiped(r)
<1>1. CASE \/ r = x \/ Skips(r, x) \/ Marks(r, x) \/ Opens(r, x, k) \/ Spells(r, x, s)
           \/ Passes(r, x)
  <2>1. r.embeds = x.embeds
    BY <1>1 DEF Skips, Marks, Opens, Spells, Passes, ScanState
  <2> QED
    BY <2>1 DEF Wiped
<1>2. CASE s = "\\" /\ Escapes(r, x, failing, k)
  <2> DEFINE w == [x EXCEPT !.building_embed = FALSE, !.escaping = TRUE]
  <2>1. w \in ScanState /\ w.embeds = x.embeds
    BY DEF ScanState
  <2>2. r = _append_embed(w, failing, <<"\\">>, k, k + 1, TRUE)
    BY <1>2 DEF Escapes
  <2> HIDE DEF w
  <2>3. Wiped(w)
    BY <2>1 DEF Wiped
  <2> QED
    BY <2>1, <2>2, <2>3, AppendEmbedWiped
<1>3. CASE Closes(r, x, failing, k)
  <2> DEFINE w == [x EXCEPT !.building_embed = FALSE, !.building_field_name = FALSE,
                            !.field_name = << >>]
  <2>1. w \in ScanState /\ w.embeds = x.embeds
    <3>1. << >> \in Seq(Characters)
      OBVIOUS
    <3> QED
      BY <3>1 DEF ScanState
  <2>2. PICK z : /\ z = _append_embed(w, failing, x.field_name, x.field_pos, k + 1, FALSE)
                 /\ r = [z EXCEPT !.exit = (z.err # "MCFG_FMT_OK")]
    BY <1>3 DEF Closes
  <2> HIDE DEF w
  <2>3. Wiped(w)
    BY <2>1 DEF Wiped
  <2>4. Wiped(z)
    BY <2>1, <2>2, <2>3, AppendEmbedWiped
  <2>5. z \in ScanState
    <3>1. x.field_name \in Seq(Characters) /\ x.field_pos \in Int
      BY ScanParts
    <3>2. k + 1 \in Nat /\ FALSE \in {TRUE, FALSE}
      OBVIOUS
    <3>3. Appended(_append_embed(w, failing, x.field_name, x.field_pos, k + 1, FALSE), w,
                   x.field_pos, k + 1)
      BY <2>1, <3>1, <3>2, Appends
    <3> QED
      BY <2>2, <3>3 DEF Appended
  <2>6. r.embeds = z.embeds
    BY <2>2, <2>5 DEF ScanState
  <2> QED
    BY <2>4, <2>6 DEF Wiped
<1> QED
  BY <1>1, <1>2, <1>3, ScanCharIs

\* and with memory loses none.
LEMMA ScanCharClean ==
    ASSUME NEW k \in Nat, NEW x, ScanIn(x, k), ScanApart(x, k), ScanClean(x),
           NEW s \in Characters, NEW r, r = ScanChar(x, 0, s, k)
    PROVE  ScanClean(r)
<1>1. x \in ScanState /\ x.exit = FALSE
  BY DEF ScanIn, ScanClean
<1>2. /\ x.field_pos \in Int /\ x.field_name \in Seq(Characters)
      /\ x.building_field_name = TRUE => x.field_pos < k
  BY <1>1, ScanParts DEF ScanApart
<1>3. ASSUME NEW w, w.embeds = x.embeds, w.array = x.array, w.blocks = x.blocks,
             w.err = x.err, w.exit = x.exit
      PROVE  ScanClean(w)
  BY <1>3 DEF ScanClean
<1>4. CASE \/ Skips(r, x) \/ Marks(r, x) \/ Opens(r, x, k) \/ Spells(r, x, s) \/ Passes(r, x)
  <2>1. /\ r.embeds = x.embeds /\ r.array = x.array /\ r.blocks = x.blocks /\ r.err = x.err
        /\ r.exit = x.exit
    BY <1>1, <1>4 DEF Skips, Marks, Opens, Spells, Passes, ScanState
  <2> QED
    BY <1>3, <2>1
<1>5. CASE s = "\\" /\ Escapes(r, x, 0, k)
  <2> DEFINE w == [x EXCEPT !.building_embed = FALSE, !.escaping = TRUE]
  <2>1. /\ w.embeds = x.embeds /\ w.array = x.array /\ w.blocks = x.blocks /\ w.err = x.err
        /\ w.exit = x.exit /\ w \in ScanState
    BY <1>1 DEF ScanState
  <2>2. r = _append_embed(w, 0, <<"\\">>, k, k + 1, TRUE)
    BY <1>5 DEF Escapes
  <2> HIDE DEF w
  <2>3. ScanClean(w)
    BY <1>3, <2>1
  <2>4. <<"\\">> \in Seq(Characters) /\ TRUE \in {TRUE, FALSE} /\ k \in Int /\ k < k + 1
        /\ k + 1 \in Nat
    BY <1>5
  <2> QED
    BY <2>1, <2>2, <2>3, <2>4, AppendEmbedClean
<1>6. CASE Closes(r, x, 0, k)
  <2> DEFINE w == [x EXCEPT !.building_embed = FALSE, !.building_field_name = FALSE,
                            !.field_name = << >>]
  <2>1. /\ w.embeds = x.embeds /\ w.array = x.array /\ w.blocks = x.blocks /\ w.err = x.err
        /\ w.exit = x.exit /\ w \in ScanState
    <3>1. << >> \in Seq(Characters)
      OBVIOUS
    <3> QED
      BY <1>1, <3>1 DEF ScanState
  <2>2. PICK z : /\ z = _append_embed(w, 0, x.field_name, x.field_pos, k + 1, FALSE)
                 /\ r = [z EXCEPT !.exit = (z.err # "MCFG_FMT_OK")]
    BY <1>6 DEF Closes
  <2> HIDE DEF w
  <2>3. ScanClean(w)
    BY <1>3, <2>1
  <2>4. /\ FALSE \in {TRUE, FALSE} /\ x.field_pos < k + 1 /\ k + 1 \in Nat
    BY <1>2, <1>6 DEF Closes
  <2>5. ScanClean(z)
    BY <1>2, <2>1, <2>2, <2>3, <2>4, AppendEmbedClean
  <2>6. z \in ScanState
    <3>1. Appended(_append_embed(w, 0, x.field_name, x.field_pos, k + 1, FALSE), w,
                   x.field_pos, k + 1)
      BY <1>2, <2>1, <2>4, Appends
    <3> QED
      BY <2>2, <3>1 DEF Appended
  <2>7. r = z
    <3>1. z.exit = FALSE /\ (z.err # "MCFG_FMT_OK") = FALSE
      BY <2>5 DEF ScanClean
    <3>2. r = [z EXCEPT !.exit = FALSE]
      BY <2>2, <3>1
    <3>3. [z EXCEPT !.exit = z.exit] = z
      BY <2>6 DEF ScanState
    <3> QED
      BY <3>1, <3>2, <3>3
  <2> QED
    BY <2>5, <2>7
<1> QED
  BY <1>1, <1>4, <1>5, <1>6, ScanCharIs

\* A round leaves a state of the scan.
LEMMA ScanCharType ==
    ASSUME NEW x \in ScanState, NEW failing \in Nat, NEW s \in Characters, NEW ix \in Nat,
           NEW r, r = ScanChar(x, failing, s, ix)
    PROVE  r \in ScanState
<1>1. /\ x.field_pos \in Int /\ x.field_name \in Seq(Characters) /\ << >> \in Seq(Characters)
      /\ Append(x.field_name, s) \in Seq(Characters)
      /\ ix \in Int /\ ix - 1 \in Int /\ ix + 1 \in Nat
  <2>1. x.field_pos \in Int /\ x.field_name \in Seq(Characters)
    BY ScanParts
  <2> QED
    BY <2>1
<1>2. CASE Skips(r, x) \/ Marks(r, x) \/ Opens(r, x, ix) \/ Spells(r, x, s) \/ Passes(r, x)
  BY <1>1, <1>2 DEF Skips, Marks, Opens, Spells, Passes, ScanState
<1>3. CASE s = "\\" /\ Escapes(r, x, failing, ix)
  <2> DEFINE w == [x EXCEPT !.building_embed = FALSE, !.escaping = TRUE]
  <2>1. w \in ScanState
    BY DEF ScanState
  <2>2. r = _append_embed(w, failing, <<"\\">>, ix, ix + 1, TRUE)
    BY <1>3 DEF Escapes
  <2>3. <<"\\">> \in Seq(Characters) /\ TRUE \in {TRUE, FALSE}
    BY <1>3
  <2> HIDE DEF w
  <2>4. Appended(_append_embed(w, failing, <<"\\">>, ix, ix + 1, TRUE), w, ix, ix + 1)
    BY <1>1, <2>1, <2>3, Appends
  <2> QED
    BY <2>2, <2>4 DEF Appended
<1>4. CASE Closes(r, x, failing, ix)
  <2> DEFINE w == [x EXCEPT !.building_embed = FALSE, !.building_field_name = FALSE,
                            !.field_name = << >>]
  <2>1. w \in ScanState
    BY <1>1 DEF ScanState
  <2>2. PICK z : /\ z = _append_embed(w, failing, x.field_name, x.field_pos, ix + 1, FALSE)
                 /\ r = [z EXCEPT !.exit = (z.err # "MCFG_FMT_OK")]
    BY <1>4 DEF Closes
  <2> HIDE DEF w
  <2>3. FALSE \in {TRUE, FALSE}
    OBVIOUS
  <2>4. Appended(_append_embed(w, failing, x.field_name, x.field_pos, ix + 1, FALSE), w,
                 x.field_pos, ix + 1)
    BY <1>1, <2>1, <2>3, Appends
  <2>5. z \in ScanState
    BY <2>2, <2>4 DEF Appended
  <2> QED
    BY <2>2, <2>5 DEF ScanState
<1>5. CASE r = x
  BY <1>5
<1> QED
  BY <1>2, <1>3, <1>4, <1>5, ScanCharIs

\* The states of a scan, character by character.
Scans(h, text, failing) ==
    /\ h[0] = Scan
    /\ \A i \in 1 .. Len(text) : h[i] = ScanChar(h[i - 1], failing, text[i], i - 1)

LEMMA ScanIsLoop ==
    ASSUME NEW text \in Seq(Characters), NEW failing \in Nat, failing # 1
    PROVE  \E h \in [0 .. Len(text) -> ScanState] :
              Scans(h, text, failing) /\ h[Len(text)] = _extract_embeds(text, failing)
<1> DEFINE n == Len(text)
           A == ScanState
           ks == [k \in DOMAIN text |-> k]
           step == [p \in A \X (1 .. n) |-> ScanChar(p[1], failing, text[p[2]], p[2] - 1)]
           Body(g) == [s \in SUBSET DOMAIN ks |->
                          IF s = {} THEN Scan
                          ELSE ScanChar(g[s \ {Max(s)}], failing, text[ks[Max(s)]],
                                        ks[Max(s)] - 1)]
           fold == CHOOSE g : g = Body(g)
<1>1. _extract_embeds(text, failing) = fold[DOMAIN ks]
  BY DEF _extract_embeds, FoldLeft, MapThenFoldSet
<1>2. /\ n \in Nat /\ DOMAIN ks = 1 .. n /\ \A k \in 1 .. n : ks[k] = k
      /\ \A k \in 1 .. n : text[k] \in Characters
  OBVIOUS
<1>3. Scan \in A
  BY DEF ScanState, Scan
<1>4. step \in [A \X (1 .. n) -> A]
  <2>1. ASSUME NEW p \in A \X (1 .. n)
        PROVE  ScanChar(p[1], failing, text[p[2]], p[2] - 1) \in A
    <3>1. p[1] \in ScanState /\ text[p[2]] \in Characters /\ p[2] - 1 \in Nat
      BY <1>2
    <3> QED
      BY <3>1, ScanCharType
  <2> QED
    BY <2>1
<1>5. ASSUME NEW a \in A, NEW i \in 1 .. n
      PROVE  step[a, i] = ScanChar(a, failing, text[i], i - 1)
  OBVIOUS
<1>6. ASSUME NEW s \in SUBSET (1 .. n), s # {}
      PROVE  Max(s) \in 1 .. n
  BY <1>2, <1>6, MaxOfInterval
<1> HIDE DEF n, A, step, ks
<1>7. PICK g \in [SUBSET (1 .. n) -> A] : Folds(g, Scan, step, n)
  BY <1>2, <1>3, <1>4, FoldExists
<1>8. g = Body(g)
  <2>1. ASSUME NEW s \in SUBSET (1 .. n), s # {}
        PROVE  g[s] = ScanChar(g[s \ {Max(s)}], failing, text[ks[Max(s)]], ks[Max(s)] - 1)
    <3>1. g[s \ {Max(s)}] \in A
      BY <1>7
    <3> QED
      BY <1>2, <1>5, <1>6, <1>7, <2>1, <3>1 DEF Folds
  <2>2. g[{}] = Scan
    BY <1>7 DEF Folds
  <2> QED
    BY <1>2, <1>7, <2>1, <2>2
<1>9. PICK f : f = Body(f) /\ _extract_embeds(text, failing) = f[DOMAIN ks]
  BY <1>1, <1>8
<1>10. FoldsOver(f, A, Scan, step, n)
  <2>1. f[{}] = Scan
    BY <1>9
  <2>2. ASSUME NEW s \in SUBSET (1 .. n), s # {}, f[s \ {Max(s)}] \in A
        PROVE  f[s] = step[f[s \ {Max(s)}], Max(s)]
    <3>1. f[s] = ScanChar(f[s \ {Max(s)}], failing, text[ks[Max(s)]], ks[Max(s)] - 1)
      BY <1>2, <1>9, <2>2
    <3> QED
      BY <1>2, <1>5, <1>6, <2>2, <3>1
  <2> QED
    BY <2>1, <2>2 DEF FoldsOver
<1>11. Loops(f[1 .. n], A, Scan, step, n)
  BY <1>2, <1>3, <1>4, <1>10, FoldIsLoop
<1>12. PICK h \in [0 .. n -> A] : /\ h[0] = Scan /\ h[n] = f[1 .. n]
                                  /\ \A i \in 1 .. n : h[i] = step[h[i - 1], i]
  BY <1>11 DEF Loops
<1>13. \A i \in 1 .. n : h[i] = ScanChar(h[i - 1], failing, text[i], i - 1)
  <2> TAKE i \in 1 .. n
  <2>1. h[i - 1] \in A
    <3>1. i - 1 \in 0 .. n
      BY <1>2
    <3> QED
      BY <1>12, <3>1
  <2> QED
    BY <1>5, <1>12, <2>1
<1>14. h \in [0 .. Len(text) -> ScanState] /\ Scans(h, text, failing)
  BY <1>12, <1>13 DEF Scans, n, A
<1>15. h[Len(text)] = _extract_embeds(text, failing)
  BY <1>2, <1>9, <1>12 DEF n
<1> QED
  BY <1>14, <1>15

\* The embeds that are found lie in the text,
LEMMA EmbedsIn ==
    ASSUME NEW text \in Seq(Characters), NEW failing \in Nat
    PROVE  ScanIn(_extract_embeds(text, failing), Len(text))
<1>1. Len(text) \in Nat
  OBVIOUS
<1>2. \A k \in Nat : ScanIn(Scan, k)
  BY DEF ScanIn, Scan, ScanState
<1>3. CASE failing = 1
  BY <1>1, <1>2, <1>3 DEF _extract_embeds
<1>4. CASE failing # 1
  <2> DEFINE n == Len(text)
  <2>1. PICK h \in [0 .. n -> ScanState] :
           Scans(h, text, failing) /\ h[n] = _extract_embeds(text, failing)
    BY <1>4, ScanIsLoop
  <2> DEFINE T == {i \in Nat : i <= n => ScanIn(h[i], i)}
  <2>2. 0 \in T
    BY <1>2, <2>1 DEF Scans
  <2>3. \A i \in Nat : i \in T => i + 1 \in T
    <3>1. SUFFICES ASSUME NEW i \in Nat, i \in T, i + 1 <= n
                   PROVE  ScanIn(h[i + 1], i + 1)
      OBVIOUS
    <3>2. ScanIn(h[i], i) /\ i + 1 \in 1 .. n /\ (i + 1) - 1 = i /\ text[i + 1] \in Characters
      BY <1>1, <3>1
    <3>3. h[i + 1] = ScanChar(h[i], failing, text[i + 1], i)
      BY <2>1, <3>2 DEF Scans
    <3> QED
      BY <3>2, <3>3, ScanCharIn
  <2> HIDE DEF T
  <2>4. n \in T
    BY <1>1, <2>2, <2>3, SetInduction
  <2>5. ScanIn(h[n], n)
    BY <1>1, <2>4 DEF T
  <2> QED
    BY <2>1, <2>5
<1> QED
  BY <1>3, <1>4

\* apart from one another, or lost,
LEMMA EmbedsApart ==
    ASSUME NEW text \in Seq(Characters), NEW failing \in Nat,
           NEW x, x = _extract_embeds(text, failing)
    PROVE  \/ Wiped(x)
           \/ \A l \in 1 .. Len(x.embeds) : \A j \in 1 .. l - 1 :
                 Apart(x.embeds[j], x.embeds[l])
<1> DEFINE n == Len(text)
<1>1. n \in Nat
  OBVIOUS
<1>2. \A k \in Nat : ScanApart(Scan, k)
  <2>1. Len(Scan.embeds) = 0 /\ Scan.building_embed = FALSE /\ Scan.building_field_name = FALSE
    BY DEF Scan
  <2> QED
    BY <2>1 DEF ScanApart
<1>3. CASE failing = 1
  BY <1>1, <1>2, <1>3 DEF _extract_embeds, ScanApart
<1>4. CASE failing # 1
  <2>1. PICK h \in [0 .. n -> ScanState] :
           Scans(h, text, failing) /\ h[n] = _extract_embeds(text, failing)
    BY <1>4, ScanIsLoop
  <2> DEFINE Sound(i) == ScanIn(h[i], i) /\ (Wiped(h[i]) \/ ScanApart(h[i], i))
             T == {i \in Nat : i <= n => Sound(i)}
  <2>2. 0 \in T
    <3>1. ScanIn(Scan, 0)
      BY DEF ScanIn, Scan, ScanState
    <3> QED
      BY <1>2, <2>1, <3>1 DEF Scans
  <2>3. \A i \in Nat : i \in T => i + 1 \in T
    <3>1. SUFFICES ASSUME NEW i \in Nat, i \in T, i + 1 <= n
                   PROVE  Sound(i + 1)
      OBVIOUS
    <3>2. Sound(i) /\ i + 1 \in 1 .. n /\ (i + 1) - 1 = i /\ text[i + 1] \in Characters
          /\ i + 1 \in Nat
      BY <1>1, <3>1
    <3>3. h[i + 1] = ScanChar(h[i], failing, text[i + 1], i)
      BY <2>1, <3>2 DEF Scans
    <3>4. ScanIn(h[i + 1], i + 1)
      BY <3>2, <3>3, ScanCharIn
    <3>5. h[i] \in ScanState
      BY <3>2 DEF ScanIn
    <3>6. CASE Wiped(h[i])
      BY <3>2, <3>3, <3>4, <3>5, <3>6, ScanCharWiped
    <3>7. CASE ScanApart(h[i], i)
      BY <3>2, <3>3, <3>4, <3>7, ScanCharApart
    <3> QED
      BY <3>2, <3>6, <3>7
  <2> HIDE DEF T
  <2>4. n \in T
    BY <1>1, <2>2, <2>3, SetInduction
  <2>5. Wiped(h[n]) \/ ScanApart(h[n], n)
    BY <1>1, <2>4 DEF T
  <2> QED
    BY <2>1, <2>5 DEF ScanApart
<1> QED
  BY <1>3, <1>4

\* and when no allocation fails they are all there.
LEMMA EmbedsClean ==
    ASSUME NEW text \in Seq(Characters)
    PROVE  ScanClean(_extract_embeds(text, 0))
<1> DEFINE n == Len(text)
<1>1. n \in Nat /\ 0 \in Nat /\ 0 # 1
  OBVIOUS
<1>2. ScanIn(Scan, 0) /\ ScanApart(Scan, 0) /\ ScanClean(Scan)
  <2>1. Scan.embeds = << >> /\ Len(Scan.embeds) = 0 /\ Scan \in ScanState
    BY DEF Scan, ScanState
  <2>2. /\ Scan.array = FALSE /\ Scan.blocks = 0 /\ Scan.exit = FALSE
        /\ Scan.err = "MCFG_FMT_OK" /\ Scan.building_embed = FALSE
        /\ Scan.building_field_name = FALSE
    BY DEF Scan
  <2>3. One(Scan.array) = 0 /\ Scan.array = (Len(Scan.embeds) > 0)
    <3>1. (Len(Scan.embeds) > 0) = FALSE
      BY <2>1
    <3>2. One(FALSE) = 0
      BY DEF One
    <3> QED
      BY <2>2, <3>1, <3>2
  <2>4. ScanIn(Scan, 0)
    BY <2>1, <2>2 DEF ScanIn
  <2>5. ScanApart(Scan, 0)
    BY <2>1, <2>2 DEF ScanApart
  <2>6. ScanClean(Scan)
    BY <2>1, <2>2, <2>3 DEF ScanClean
  <2> QED
    BY <2>4, <2>5, <2>6
<1>3. PICK h \in [0 .. n -> ScanState] :
         Scans(h, text, 0) /\ h[n] = _extract_embeds(text, 0)
  BY <1>1, ScanIsLoop
<1> DEFINE Sound(i) == ScanIn(h[i], i) /\ ScanApart(h[i], i) /\ ScanClean(h[i])
           T == {i \in Nat : i <= n => Sound(i)}
<1>4. 0 \in T
  BY <1>2, <1>3 DEF Scans
<1>5. \A i \in Nat : i \in T => i + 1 \in T
  <2>1. SUFFICES ASSUME NEW i \in Nat, i \in T, i + 1 <= n
                 PROVE  Sound(i + 1)
    OBVIOUS
  <2>2. /\ Sound(i) /\ i + 1 \in Nat
        /\ i + 1 \in 1 .. n /\ (i + 1) - 1 = i /\ text[i + 1] \in Characters
    BY <1>1, <2>1
  <2>3. h[i + 1] = ScanChar(h[i], 0, text[i + 1], i)
    BY <1>3, <2>2 DEF Scans
  <2>4. ScanIn(h[i + 1], i + 1)
    BY <1>1, <2>2, <2>3, ScanCharIn
  <2>5. ScanClean(h[i + 1])
    BY <2>2, <2>3, ScanCharClean
  <2>6. ~Wiped(h[i + 1])
    BY <2>4, <2>5, CleanIsWhole
  <2>7. ScanApart(h[i + 1], i + 1)
    BY <1>1, <2>2, <2>3, <2>6, ScanCharApart
  <2> QED
    BY <2>4, <2>5, <2>7
<1> HIDE DEF T
<1>6. n \in T
  BY <1>1, <1>4, <1>5, SetInduction
<1>7. ScanClean(h[n])
  BY <1>1, <1>6 DEF T
<1> QED
  BY <1>3, <1>7

-----------------------------------------------------------------------------
(* The calls on the stack.                                                   *)

TypedField == {f \in Field : WellTyped(f)}

Frame == [input : Inputs \cup {<< >>}, phase : {"extract", "start", "copy", "look", "insert"},
          embeds : Seq(Embeds), array : BOOLEAN, ix : Nat \ {0}, cpy_offs : Nat,
          write_offs : Int, out : Seq(Chars), size : Nat, block : Nat,
          field : Seq(TypedField), list : BOOLEAN]

\* The output fits its block, and what is written next starts in it; while a
\* list is formatted the text in front of it is taken back, maybe too much.
Written(frame) ==
    /\ frame.size <= frame.block /\ Len(frame.out) <= frame.block
    /\ frame.write_offs <= Len(frame.out)
    /\ frame.list = FALSE => 0 <= frame.write_offs

\* The embeds, and what has been copied, lie in the text.
Inside(frame) ==
    /\ \A j \in 1 .. Len(frame.embeds) : /\ 0 <= frame.embeds[j].pos
                                         /\ frame.embeds[j].pos <= Len(frame.input)
                                         /\ frame.embeds[j].src_end_pos <= Len(frame.input)
    /\ frame.cpy_offs <= Len(frame.input) \/ frame.cpy_offs = Far

\* How far the call is.
Phased(frame) ==
    /\ frame.phase = "extract" => frame.embeds = << >> /\ frame.array = FALSE
    /\ frame.phase \in {"extract", "start"} => frame.out = << >>
    /\ frame.phase \in {"look", "insert"} => frame.ix <= Len(frame.embeds)
    /\ frame.phase = "insert" => frame.field # << >>
    /\ frame.input = << >> => /\ frame.embeds = << >>
                              /\ frame.phase \in {"extract", "start"}

\* The text has been copied to the end of the embed before, or skipped further.
Follows(frame) ==
    /\ frame.phase \in {"extract", "start"} => frame.ix = 1 /\ frame.cpy_offs = 0
    /\ frame.phase = "copy" =>
          \/ frame.ix = 1 /\ frame.cpy_offs = 0
          \/ \E j \in 1 .. Len(frame.embeds) :
                frame.ix = j + 1 /\ frame.embeds[j].src_end_pos <= frame.cpy_offs
    /\ frame.phase \in {"look", "insert"} =>
          frame.embeds[frame.ix].src_end_pos <= frame.cpy_offs

FrameOK(frame) ==
    /\ frame \in Frame
    /\ Written(frame) /\ Inside(frame) /\ Phased(frame) /\ Follows(frame)

\* The calls below wait for a field to insert, and for a list they wait for
\* the empty text.
Waiting(s) ==
    /\ s \in Seq(Frame)
    /\ \A k \in 1 .. Len(s) : FrameOK(s[k])
    /\ \A k \in 1 .. Len(s) - 1 : /\ s[k].phase = "insert"
                                  /\ s[k].list = TRUE => s[k + 1].input = << >>

\* The call on top runs, or waits for the result of the one before.
TopOK ==
    /\ pc = "idle" => stack = << >>
    /\ pc = "run" => stack # << >> /\ Top.list = FALSE
    /\ pc = "return" /\ stack # << >> =>
         /\ Top.phase = "insert"
         /\ Top.list = TRUE /\ ret.err = "MCFG_FMT_OK" => ret.formatted = << >>
    /\ pc = "return" /\ ret.err = "MCFG_FMT_OK" => ret.formatted \in Seq(Chars)

Chosen == file \in Files /\ input \in Inputs \cup {NULL}

IInv == Chosen /\ Waiting(stack) /\ TopOK

\* The texts that are formatted are sequences of characters.
LEMMA InputTypes ==
    /\ \A text \in Inputs \cup {<< >>} : text \in Seq(Characters) /\ Len(text) \in Nat
    /\ << >> \in Seq(Characters)
    /\ \A text \in Seq(Characters) : text \in Seq(Chars)
    /\ Far \in Nat
<1>1. \A text \in Inputs : text \in Seq(Characters)
  BY FormatAssumption
<1>2. Characters \subseteq Chars
  BY DEF Chars
<1>3. Seq(Characters) \subseteq Seq(Chars)
  BY <1>2, SeqMonotonic
<1>4. Far \in Nat
  BY FormatAssumption
<1>5. << >> \in Seq(Characters) /\ \A text \in Seq(Characters) : Len(text) \in Nat
  OBVIOUS
<1>6. \A text \in Inputs \cup {<< >>} : text \in Seq(Characters)
  BY <1>1, <1>5
<1> QED
  BY <1>3, <1>4, <1>5, <1>6

\* A frame, part by part.
LEMMA FrameParts ==
    ASSUME NEW f, FrameOK(f)
    PROVE  /\ f \in Frame
           /\ f.input \in Inputs \cup {<< >>} /\ f.input \in Seq(Characters)
           /\ Len(f.input) \in Nat
           /\ f.embeds \in Seq(Embeds) /\ Len(f.embeds) \in Nat
           /\ f.ix \in Nat /\ f.ix >= 1
           /\ f.cpy_offs \in Nat /\ f.write_offs \in Int /\ f.out \in Seq(Chars)
           /\ Len(f.out) \in Nat /\ f.size \in Nat /\ f.block \in Nat
           /\ f.array \in {TRUE, FALSE} /\ f.list \in {TRUE, FALSE}
           /\ f.field \in Seq(TypedField)
           /\ \A j \in 1 .. Len(f.embeds) :
                 f.embeds[j].pos \in Nat /\ f.embeds[j].src_end_pos \in Nat
<1>1. /\ f \in Frame
      /\ f.input \in Inputs \cup {<< >>}
      /\ f.embeds \in Seq(Embeds)
      /\ f.ix \in Nat /\ f.ix >= 1
      /\ f.cpy_offs \in Nat /\ f.write_offs \in Int /\ f.out \in Seq(Chars)
      /\ f.size \in Nat /\ f.block \in Nat
      /\ f.field \in Seq(TypedField)
  BY DEF FrameOK, Frame
<1>2. f.array \in {TRUE, FALSE} /\ f.list \in {TRUE, FALSE}
  BY <1>1 DEF Frame
<1>3. Len(f.embeds) \in Nat /\ Len(f.out) \in Nat
  BY <1>1
<1>4. f.input \in Seq(Characters) /\ Len(f.input) \in Nat
  BY <1>1, InputTypes
<1>5. \A e \in Embeds : e.pos \in Int /\ e.src_end_pos \in Nat
  BY DEF Embeds
<1>6. \A j \in 1 .. Len(f.embeds) : f.embeds[j].pos \in Nat /\ f.embeds[j].src_end_pos \in Nat
  <2> TAKE j \in 1 .. Len(f.embeds)
  <2>1. f.embeds[j] \in Embeds
    BY <1>1
  <2>2. 0 <= f.embeds[j].pos
    BY DEF FrameOK, Inside
  <2> QED
    BY <1>5, <2>1, <2>2
<1> QED
  BY <1>1, <1>2, <1>3, <1>4, <1>6

\* The call on top.
LEMMA TopFrame ==
    ASSUME IInv, stack # << >>
    PROVE  Depth \in 1 .. Len(stack) /\ Depth = Len(stack) /\ FrameOK(Top)
<1>1. stack \in Seq(Frame) /\ \A k \in 1 .. Len(stack) : FrameOK(stack[k])
  BY DEF IInv, Waiting
<1>2. Len(stack) \in Nat /\ Len(stack) # 0
  BY <1>1, EmptySeq
<1> QED
  BY <1>1, <1>2 DEF Depth, Top

\* The program ends.
LEMMA StopsKeeps ==
    ASSUME IInv, Given, UNCHANGED stack, pc' \in {"returned", "crashed", "overrun"}
    PROVE  IInv'
BY DEF IInv, Given, Chosen, TopOK

\* The call on top goes on.
LEMMA TopKeeps ==
    ASSUME IInv, stack # << >>, Given, NEW f, FrameOK(f), f.list = FALSE,
           f.input = Top.input, stack' = [stack EXCEPT ![Depth] = f], pc' = "run"
    PROVE  IInv'
<1>2. Depth \in 1 .. Len(stack) /\ Depth = Len(stack)
  BY TopFrame
<1>3. stack' = [stack EXCEPT ![Depth] = f] /\ pc' = "run"
  OBVIOUS
<1>4. f \in Frame /\ stack \in Seq(Frame)
  BY DEF FrameOK, IInv, Waiting
<1>5. /\ stack' \in Seq(Frame) /\ Len(stack') = Len(stack)
      /\ stack'[Depth] = f
      /\ \A k \in 1 .. Len(stack) : k # Depth => stack'[k] = stack[k]
  BY <1>2, <1>3, <1>4
<1>6. Top' = f /\ stack' # << >>
  <2>1. Depth' = Depth
    BY <1>2, <1>5 DEF Depth
  <2>2. Top' = f
    BY <1>5, <2>1 DEF Top
  <2>3. Len(stack') # 0
    BY <1>2, <1>5
  <2> QED
    BY <1>5, <2>2, <2>3, EmptySeq
<1>7. Waiting(stack)'
  <2>1. \A k \in 1 .. Len(stack) : FrameOK(stack[k])
    BY DEF IInv, Waiting
  <2>2. \A k \in 1 .. Len(stack') : FrameOK(stack'[k])
    BY <1>5, <2>1
  <2>3. ASSUME NEW k \in 1 .. Len(stack') - 1
        PROVE  /\ stack'[k].phase = "insert"
               /\ stack'[k].list = TRUE => stack'[k + 1].input = << >>
    <3>1. k \in 1 .. Len(stack) /\ k # Depth /\ k \in 1 .. Len(stack) - 1
          /\ k + 1 \in 1 .. Len(stack)
      BY <1>2, <1>5
    <3>2. /\ stack[k].phase = "insert"
          /\ stack[k].list = TRUE => stack[k + 1].input = << >>
      BY <3>1 DEF IInv, Waiting
    <3>3. stack'[k + 1].input = stack[k + 1].input
      BY <1>5, <3>1 DEF Top
    <3> QED
      BY <1>5, <3>1, <3>2, <3>3
  <2> QED
    BY <1>5, <2>2, <2>3 DEF Waiting
<1>8. TopOK'
  BY <1>3, <1>6 DEF TopOK
<1>9. Chosen'
  BY DEF IInv, Chosen, Given
<1> QED
  BY <1>7, <1>8, <1>9 DEF IInv

LEMMA GoesKeeps ==
    ASSUME IInv, pc = "run", Given, NEW f, FrameOK(f), f.list = FALSE, f.input = Top.input,
           NEW n, Goes(f, n)
    PROVE  IInv'
<1>1. stack # << >>
  BY DEF IInv, TopOK
<1> QED
  BY <1>1, TopKeeps DEF Goes

\* The calls below the one on top.
LEMMA FrontWaits ==
    ASSUME IInv, stack # << >>
    PROVE  /\ Waiting(Front(stack)) /\ Len(Front(stack)) = Depth - 1
           /\ \A k \in 1 .. Depth - 1 : Front(stack)[k] = stack[k]
           /\ Front(stack) # << >> =>
                 /\ Depth - 1 \in 1 .. Len(stack) - 1
                 /\ Front(stack)[Depth - 1].phase = "insert"
                 /\ Front(stack)[Depth - 1].list = TRUE => Top.input = << >>
<1> DEFINE m == Len(stack) - 1
<1>1. Depth \in 1 .. Len(stack) /\ Depth = Len(stack) /\ stack \in Seq(Frame)
  BY TopFrame DEF IInv, Waiting
<1>2. m \in Nat /\ m <= Len(stack) /\ m = Depth - 1
  BY <1>1
<1>3. \A i \in 1 .. m : stack[i] \in Frame
  BY <1>1
<1>4. Front(stack) = SubSeq(stack, 1, m)
  BY DEF Front
<1> HIDE DEF m
<1>5. /\ Front(stack) \in Seq(Frame) /\ Len(Front(stack)) = m
      /\ \A i \in 1 .. m : Front(stack)[i] = stack[i]
  <2>1. /\ SubSeq(stack, 1, m) \in Seq(Frame)
        /\ Len(SubSeq(stack, 1, m)) = IF 1 <= m THEN m - 1 + 1 ELSE 0
        /\ \A i \in 1 .. m - 1 + 1 : SubSeq(stack, 1, m)[i] = stack[1 + i - 1]
    BY <1>2, <1>3, SubSeqProperties
  <2> QED
    BY <1>2, <1>4, <2>1
<1>6. \A k \in 1 .. m : k \in 1 .. Len(stack) /\ k \in 1 .. Len(stack) - 1 /\ k + 1 \in Nat
  BY <1>1, <1>2
<1>7. \A k \in 1 .. m - 1 : k \in 1 .. m /\ k + 1 \in 1 .. m
  BY <1>2
<1>8. \A k \in 1 .. m : /\ FrameOK(stack[k]) /\ stack[k].phase = "insert"
                        /\ stack[k].list = TRUE => stack[k + 1].input = << >>
  BY <1>6 DEF IInv, Waiting
<1>9. Waiting(Front(stack))
  BY <1>5, <1>7, <1>8 DEF Waiting
<1>10. ASSUME Front(stack) # << >>
       PROVE  /\ m \in 1 .. Len(stack) - 1
              /\ Front(stack)[m].phase = "insert"
              /\ Front(stack)[m].list = TRUE => Top.input = << >>
  <2>1. m \in 1 .. m
    BY <1>2, <1>5, <1>10, EmptySeq
  <2>2. m + 1 = Depth
    BY <1>1, <1>2
  <2> QED
    BY <1>5, <1>6, <1>8, <2>1, <2>2 DEF Top
<1> QED
  BY <1>2, <1>5, <1>9, <1>10

\* The call on top returns.
LEMMA LeavesKeeps ==
    ASSUME IInv, stack # << >>, Given, NEW result, NEW n, Leaves(result, n),
           result.err = "MCFG_FMT_OK" =>
              /\ result.formatted \in Seq(Chars)
              /\ Top.input = << >> => result.formatted = << >>
    PROVE  IInv'
<1>1. CASE FreeFaults(Top)
  <2>1. UNCHANGED stack /\ pc' = "crashed"
    BY <1>1 DEF Leaves, Stops
  <2> QED
    BY <2>1, StopsKeeps
<1>2. CASE ~ FreeFaults(Top)
  <2>1. stack' = Front(stack) /\ ret' = result /\ pc' = "return"
    BY <1>2 DEF Leaves
  <2>2. Waiting(stack)'
    BY <2>1, FrontWaits DEF Waiting
  <2>3. stack' # << >> =>
           Top'.phase = "insert" /\ (Top'.list = TRUE => Top.input = << >>)
    <3>1. Top' = Front(stack)[Depth - 1]
      BY <2>1, FrontWaits DEF Top, Depth
    <3> QED
      BY <2>1, <3>1, FrontWaits
  <2>4. TopOK'
    BY <2>1, <2>3 DEF TopOK
  <2>5. Chosen'
    BY DEF IInv, Chosen, Given
  <2> QED
    BY <2>2, <2>4, <2>5 DEF IInv
<1> QED
  BY <1>1, <1>2

\* A call that starts.
LEMMA NewFrameOK ==
    ASSUME NEW text \in Inputs \cup {<< >>}
    PROVE  FrameOK(NewFrame(text)) /\ NewFrame(text).list = FALSE
           /\ NewFrame(text).input = text
<1>1. << >> \in Seq(Embeds) /\ << >> \in Seq(Chars) /\ << >> \in Seq(TypedField)
      /\ Len(<< >>) = 0
  OBVIOUS
<1>2. NewFrame(text) \in Frame
  BY <1>1 DEF NewFrame, Frame
<1>3. Len(text) \in Nat
  BY InputTypes
<1>4. /\ Written(NewFrame(text)) /\ Inside(NewFrame(text)) /\ Phased(NewFrame(text))
      /\ Follows(NewFrame(text))
  BY <1>1, <1>3 DEF NewFrame, Written, Inside, Phased, Follows
<1> QED
  BY <1>2, <1>4 DEF FrameOK, NewFrame

\* A call is made, under the calls that wait for it.
LEMMA EntersKeeps ==
    ASSUME IInv, Given, NEW under, Waiting(under), NEW text \in Inputs \cup {<< >>},
           under # << >> => /\ under[Len(under)].phase = "insert"
                            /\ under[Len(under)].list = TRUE => text = << >>,
           NEW n, Enters(under, text, n)
    PROVE  IInv'
<1> DEFINE f == NewFrame(text)
           d == Len(under)
<1>1. FrameOK(f) /\ f.list = FALSE /\ f.input = text
  BY NewFrameOK
<1> HIDE DEF f
<1>2. CASE Len(under) < StackLimit
  <2>1. stack' = Append(under, f) /\ pc' = "run"
    BY <1>2 DEF Enters, f
  <2>2. under \in Seq(Frame) /\ f \in Frame
    BY <1>1 DEF Waiting, FrameOK
  <2>3. /\ stack' \in Seq(Frame) /\ Len(stack') = d + 1 /\ d \in Nat
        /\ \A k \in 1 .. d : stack'[k] = under[k]
        /\ stack'[d + 1] = f
    BY <2>1, <2>2
  <2>4. Top' = f /\ stack' # << >>
    BY <2>3, EmptySeq DEF Top, Depth
  <2>5. \A k \in 1 .. d : FrameOK(under[k])
    BY DEF Waiting
  <2>6. \A k \in 1 .. Len(stack') : FrameOK(stack'[k])
    <3> TAKE k \in 1 .. Len(stack')
    <3>1. k \in 1 .. d \/ k = d + 1
      BY <2>3
    <3> QED
      BY <1>1, <2>3, <2>5, <3>1
  <2>7. ASSUME NEW k \in 1 .. Len(stack') - 1
        PROVE  /\ stack'[k].phase = "insert"
               /\ stack'[k].list = TRUE => stack'[k + 1].input = << >>
    <3>1. k \in 1 .. d
      BY <2>3
    <3>2. CASE k = d
      <4>1. under # << >>
        BY <3>1, <3>2
      <4>2. under[d].phase = "insert" /\ (under[d].list = TRUE => text = << >>)
        BY <4>1
      <4> QED
        BY <1>1, <2>3, <3>1, <3>2, <4>2
    <3>3. CASE k # d
      <4>1. k \in 1 .. d - 1 /\ k + 1 \in 1 .. d
        BY <2>3, <3>1, <3>3
      <4>2. under[k].phase = "insert" /\ (under[k].list = TRUE => under[k + 1].input = << >>)
        BY <4>1 DEF Waiting
      <4> QED
        BY <2>3, <3>1, <4>1, <4>2
    <3> QED
      BY <3>2, <3>3
  <2>8. Waiting(stack)'
    BY <2>3, <2>6, <2>7 DEF Waiting
  <2>9. TopOK'
    BY <1>1, <2>1, <2>4 DEF TopOK
  <2>10. Chosen'
    BY DEF IInv, Chosen, Given
  <2> QED
    BY <2>8, <2>9, <2>10 DEF IInv
<1>3. CASE ~ (Len(under) < StackLimit)
  <2>1. UNCHANGED stack /\ pc' = "crashed"
    BY <1>3 DEF Enters, Stops
  <2> QED
    BY <2>1, StopsKeeps
<1> QED
  BY <1>2, <1>3

-----------------------------------------------------------------------------
(* Writing.                                                                  *)

\* The same call, with as much read.
SameCall(r, f) ==
    /\ r.input = f.input /\ r.embeds = f.embeds /\ r.array = f.array /\ r.size = f.size
    /\ r.list = f.list

\* What is put behind the text that is there fits.
LEMMA PutOK ==
    ASSUME NEW f, FrameOK(f), 0 <= f.write_offs, f.phase \notin {"extract", "start"}, NEW text \in Seq(Chars),
           NEW r, r = Put(f, text)
    PROVE  /\ FrameOK(r) /\ SameCall(r, f) /\ r.phase = f.phase /\ r.ix = f.ix
           /\ r.field = f.field /\ r.cpy_offs = f.cpy_offs
           /\ r.write_offs = f.write_offs + Len(text) /\ 0 <= r.write_offs
           /\ Len(r.out) = r.write_offs
<1> DEFINE n == Len(text)
           w == f.write_offs + n
           head == SubSeq(f.out, 1, f.write_offs)
           out == head \o text
           block == IF AppendCheck(f, n) THEN w ELSE f.block
<1>1. /\ f \in Frame /\ n \in Nat /\ f.write_offs \in Nat /\ f.out \in Seq(Chars)
      /\ Len(f.out) \in Nat /\ f.size \in Nat /\ f.block \in Nat /\ w \in Nat
  <2>1. /\ f \in Frame /\ f.write_offs \in Int /\ f.out \in Seq(Chars)
        /\ Len(f.out) \in Nat /\ f.size \in Nat /\ f.block \in Nat
    BY FrameParts
  <2>2. n \in Nat
    OBVIOUS
  <2> HIDE DEF n
  <2> QED
    BY <2>1, <2>2
<1>2. r = [f EXCEPT !.out = out, !.write_offs = w, !.block = block]
  BY <1>1 DEF Put, Frame
<1>3. head \in Seq(Chars) /\ Len(head) = f.write_offs
  <2>1. f.write_offs <= Len(f.out)
    BY DEF FrameOK, Written
  <2>2. \A i \in 1 .. f.write_offs : f.out[i] \in Chars
    BY <1>1, <2>1
  <2>3. /\ head \in Seq(Chars)
        /\ Len(head) = IF 1 <= f.write_offs THEN f.write_offs - 1 + 1 ELSE 0
    BY <1>1, <2>2, SubSeqProperties
  <2> HIDE DEF head
  <2> QED
    BY <1>1, <2>3
<1> HIDE DEF head
<1>4. out \in Seq(Chars) /\ Len(out) = w
  BY <1>1, <1>3, ConcatProperties
<1>5. block \in Nat /\ f.size <= block /\ w <= block
  <2>1. f.size <= f.block
    BY DEF FrameOK, Written
  <2> QED
    BY <1>1, <2>1 DEF AppendCheck
<1> HIDE DEF n, w, out, block
<1>6. /\ r \in Frame /\ r.out = out /\ r.write_offs = w /\ r.block = block
      /\ SameCall(r, f) /\ r.phase = f.phase /\ r.ix = f.ix
      /\ r.field = f.field /\ r.cpy_offs = f.cpy_offs
  <2>1. f \in Frame /\ out \in Seq(Chars) /\ w \in Int /\ block \in Nat
    BY <1>1, <1>4, <1>5
  <2>2. r \in Frame
    BY <1>2, <2>1 DEF Frame
  <2> QED
    BY <1>2, <2>1, <2>2 DEF Frame, SameCall
<1>7. Written(r)
  BY <1>1, <1>4, <1>5, <1>6 DEF Written, SameCall
<1>8. Inside(r) /\ Phased(r) /\ Follows(r)
  BY <1>6 DEF FrameOK, Inside, Phased, Follows, SameCall
<1>9. FrameOK(r)
  BY <1>6, <1>7, <1>8 DEF FrameOK
<1> QED
  BY <1>1, <1>4, <1>6, <1>9 DEF n, w

\* The next embed.
LEMMA NextOK ==
    ASSUME NEW f, FrameOK(f), f.input # << >>, f.phase \in {"look", "insert"},
           NEW r, r = NextEmbed(f)
    PROVE  /\ FrameOK(r) /\ SameCall(r, f) /\ r.phase = "copy" /\ r.ix = f.ix + 1
           /\ r.cpy_offs = f.cpy_offs
<1>1. f \in Frame /\ f.ix \in Nat /\ f.ix + 1 \in Nat \ {0} /\ << >> \in Seq(TypedField)
  <2>1. f \in Frame /\ f.ix \in Nat
    BY FrameParts
  <2> QED
    BY <2>1
<1>2. r = [f EXCEPT !.ix = f.ix + 1, !.phase = "copy", !.field = << >>]
  BY <1>1 DEF NextEmbed, Frame
<1>3. /\ r \in Frame /\ SameCall(r, f) /\ r.phase = "copy" /\ r.ix = f.ix + 1
      /\ r.cpy_offs = f.cpy_offs /\ r.out = f.out /\ r.write_offs = f.write_offs
      /\ r.block = f.block
  BY <1>1, <1>2 DEF Frame, SameCall
<1>4. Written(r) /\ Inside(r) /\ Phased(r)
  BY <1>3 DEF FrameOK, Written, Inside, Phased, SameCall
<1>5. Follows(r)
  <2>1. f.ix \in 1 .. Len(f.embeds) /\ f.embeds[f.ix].src_end_pos <= f.cpy_offs
    <3>1. f.ix <= Len(f.embeds) /\ f.embeds[f.ix].src_end_pos <= f.cpy_offs
      BY DEF FrameOK, Phased, Follows
    <3>2. f.ix \in Nat /\ f.ix >= 1 /\ Len(f.embeds) \in Nat
      BY FrameParts
    <3> QED
      BY <3>1, <3>2
  <2>2. \E j \in 1 .. Len(r.embeds) :
           r.ix = j + 1 /\ r.embeds[j].src_end_pos <= r.cpy_offs
    BY <1>3, <2>1 DEF SameCall
  <2> QED
    BY <1>3, <2>2 DEF Follows
<1> QED
  BY <1>3, <1>4, <1>5 DEF FrameOK

\* The call on top has an embed.
LEMMA AtEmbed ==
    ASSUME IInv, stack # << >>, Top.ix <= Len(Top.embeds)
    PROVE  /\ Top.ix \in 1 .. Len(Top.embeds) /\ Embed \in Embeds /\ Top.input # << >>
           /\ Embed.pos \in Nat /\ Embed.src_end_pos \in Nat
           /\ Embed.pos <= Len(Top.input) /\ Embed.src_end_pos <= Len(Top.input)
<1>1. FrameOK(Top)
  BY TopFrame
<1>2. /\ Top.embeds \in Seq(Embeds) /\ Len(Top.embeds) \in Nat
      /\ Top.ix \in 1 .. Len(Top.embeds)
  <2>1. /\ Top.embeds \in Seq(Embeds) /\ Len(Top.embeds) \in Nat
        /\ Top.ix \in Nat /\ Top.ix >= 1
    BY <1>1, FrameParts
  <2> QED
    BY <2>1
<1>3. Top.embeds # << >>
  BY <1>2, EmptySeq
<1>4. Top.input # << >>
  BY <1>1, <1>3 DEF FrameOK, Phased
<1>5. Embed \in Embeds
  BY <1>2 DEF Embed
<1>6. Embed.pos \in Nat /\ Embed.src_end_pos \in Nat
  BY <1>1, <1>2, FrameParts DEF Embed
<1>7. Embed.pos <= Len(Top.input) /\ Embed.src_end_pos <= Len(Top.input)
  BY <1>1, <1>2 DEF FrameOK, Inside, Embed
<1> QED
  BY <1>2, <1>4, <1>5, <1>6, <1>7

-----------------------------------------------------------------------------
(* The steps.                                                                *)

\* A step ends the program or fails the call on top,
Errs ==
    \/ pc' \in {"crashed", "overrun"} /\ UNCHANGED stack
    \/ \E result, n : result.err # "MCFG_FMT_OK" /\ Leaves(result, n)

\* or the call on top goes on, with n more blocks.
Writes(n) ==
    \E f : /\ FrameOK(f) /\ SameCall(f, Top) /\ f.phase \in {"copy", "look", "insert"}
           /\ Goes(f, n)

\* pc = "run": there is a call on top, and no list is formatted in it.
LEMMA RunningTop ==
    ASSUME IInv, NEW phase, Running(phase)
    PROVE  /\ pc = "run" /\ Top.phase = phase /\ stack # << >> /\ Top.list = FALSE
           /\ FrameOK(Top) /\ 0 <= Top.write_offs
<1>1. pc = "run" /\ Top.phase = phase /\ stack # << >> /\ Top.list = FALSE
  BY DEF Running, IInv, TopOK
<1>2. FrameOK(Top)
  BY <1>1, TopFrame
<1> QED
  BY <1>1, <1>2 DEF FrameOK, Written

LEMMA ErrsKeep ==
    ASSUME IInv, stack # << >>, Given, Errs
    PROVE  IInv'
<1>1. CASE pc' \in {"crashed", "overrun"} /\ UNCHANGED stack
  BY <1>1, StopsKeeps
<1>2. CASE \E result, n : result.err # "MCFG_FMT_OK" /\ Leaves(result, n)
  BY <1>2, LeavesKeeps
<1> QED
  BY <1>1, <1>2 DEF Errs

LEMMA WritesKeep ==
    ASSUME IInv, pc = "run", Given, NEW n, Writes(n)
    PROVE  IInv'
<1>1. PICK f : FrameOK(f) /\ SameCall(f, Top) /\ Goes(f, n)
  BY DEF Writes
<1>2. f.list = FALSE /\ f.input = Top.input
  BY <1>1 DEF SameCall, IInv, TopOK
<1> QED
  BY <1>1, <1>2, GoesKeeps

LEMMA CallKeeps ==
    ASSUME IInv, Call
    PROVE  IInv'
<1>1. Given
  BY DEF Call, Same
<1>2. CASE input = NULL
  <2>1. UNCHANGED stack /\ pc' = "returned"
    BY <1>2 DEF Call
  <2> QED
    BY <1>1, <2>1, StopsKeeps
<1>3. CASE input # NULL
  <2>1. Enters(<< >>, input, 0)
    BY <1>3 DEF Call
  <2>2. input \in Inputs \cup {<< >>}
    BY <1>3 DEF IInv, Chosen
  <2>3. Waiting(<< >>)
    BY DEF Waiting
  <2> QED
    BY <1>1, <2>1, <2>2, <2>3, EntersKeeps
<1> QED
  BY <1>2, <1>3

\* Nothing is found in no text.
LEMMA NoEmbeds ==
    ASSUME NEW failing \in Nat
    PROVE  _extract_embeds(<< >>, failing) = Scan
<1>1. CASE failing = 1
  BY <1>1 DEF _extract_embeds
<1>2. CASE failing # 1
  <2>1. << >> \in Seq(Characters) /\ Len(<< >>) = 0
    OBVIOUS
  <2>2. \E h \in [0 .. Len(<< >>) -> ScanState] :
           Scans(h, << >>, failing) /\ h[Len(<< >>)] = _extract_embeds(<< >>, failing)
    BY <1>2, <2>1, ScanIsLoop
  <2> QED
    BY <2>1, <2>2 DEF Scans
<1> QED
  BY <1>1, <1>2

\* The embeds are found.
Finds(f, x) ==
    /\ FrameOK(f) /\ f.list = FALSE /\ f.phase = "start" /\ f.input = Top.input
    /\ f.embeds = x.embeds /\ f.array = x.array
    /\ Goes(f, x.blocks)

LEMMA ExtractDoes ==
    ASSUME IInv, Extract
    PROVE  Errs \/ \E k \in 0 .. StepAllocs :
                      /\ Allocates(k, _extract_embeds(Top.input, 0).made)
                      /\ \E f : Finds(f, _extract_embeds(Top.input, k))
<1>1. /\ Given /\ pc = "run" /\ stack # << >> /\ Top.list = FALSE /\ FrameOK(Top)
      /\ Top.phase = "extract"
  BY RunningTop DEF Extract, Same
<1>2. PICK k \in 0 .. StepAllocs :
         LET x == _extract_embeds(Top.input, k)
         IN  /\ Allocates(k, _extract_embeds(Top.input, 0).made)
             /\ \/ /\ x.err = "MCFG_FMT_OK"
                   /\ Goes([Top EXCEPT !.phase = "start", !.embeds = x.embeds,
                                       !.array = x.array], x.blocks)
                \/ /\ x.err # "MCFG_FMT_OK"
                   /\ Leaves(Failed(x.err), x.blocks)
  BY DEF Extract
<1> DEFINE x == _extract_embeds(Top.input, k)
           f == [Top EXCEPT !.phase = "start", !.embeds = x.embeds, !.array = x.array]
<1>3. k \in Nat /\ Top.input \in Seq(Characters) /\ Top \in Frame
  <2>1. StepAllocs \in Nat
    BY FormatAssumption
  <2>2. Top.input \in Seq(Characters) /\ Top \in Frame
    BY <1>1, FrameParts
  <2> QED
    BY <2>1, <2>2
<1>4. ScanIn(x, Len(Top.input))
  BY <1>3, EmbedsIn
<1>5. Top.input = << >> => x.embeds = << >>
  BY <1>3, NoEmbeds DEF Scan
<1> HIDE DEF x
<1>6. CASE x.err = "MCFG_FMT_OK" /\ Goes(f, x.blocks)
  <2>1. x.embeds \in Seq(Embeds) /\ x.array \in BOOLEAN
    BY <1>4 DEF ScanIn, ScanState
  <2>2. /\ f \in Frame /\ f.array = x.array /\ f.input = Top.input /\ f.list = FALSE /\ f.phase = "start"
        /\ f.embeds = x.embeds /\ f.cpy_offs = Top.cpy_offs /\ f.out = Top.out
        /\ f.write_offs = Top.write_offs /\ f.size = Top.size /\ f.block = Top.block
    BY <1>1, <1>3, <2>1 DEF Frame
  <2>3. Inside(f)
    BY <1>1, <1>4, <2>2 DEF ScanIn, Inside, FrameOK
  <2>4. Written(f) /\ Phased(f) /\ Follows(f)
    <3>1. f.ix = Top.ix
      BY <1>3 DEF Frame
    <3> QED
      BY <1>1, <1>5, <2>2, <3>1 DEF Written, Phased, Follows, FrameOK
  <2> HIDE DEF f
  <2>5. FrameOK(f)
    BY <2>2, <2>3, <2>4 DEF FrameOK
  <2>6. Finds(f, x)
    BY <1>1, <1>6, <2>2, <2>5 DEF Finds
  <2> QED
    BY <1>2, <2>6 DEF x
<1>7. CASE x.err # "MCFG_FMT_OK" /\ Leaves(Failed(x.err), x.blocks)
  <2>1. Failed(x.err).err # "MCFG_FMT_OK"
    BY <1>7 DEF Failed
  <2> QED
    BY <1>7, <2>1 DEF Errs
<1> QED
  BY <1>2, <1>6, <1>7 DEF x

LEMMA ExtractKeeps ==
    ASSUME IInv, Extract
    PROVE  IInv'
<1>1. Given /\ pc = "run" /\ stack # << >>
  BY RunningTop DEF Extract, Same
<1>2. CASE Errs
  BY <1>1, <1>2, ErrsKeep
<1>3. ASSUME NEW x, NEW f, Finds(f, x)
      PROVE  IInv'
  BY <1>1, <1>3, GoesKeeps DEF Finds
<1> QED
  BY <1>2, <1>3, ExtractDoes

\* A call that fails returns nothing.
LEMMA FailedKeeps ==
    ASSUME IInv, stack # << >>, Given, NEW err, err # "MCFG_FMT_OK", NEW n,
           Leaves(Failed(err), n)
    PROVE  IInv'
<1>1. Failed(err).err # "MCFG_FMT_OK"
  BY DEF Failed
<1> QED
  BY <1>1, LeavesKeeps

\* The buffer is there.
Begins(f) ==
    /\ FrameOK(f) /\ f.list = FALSE /\ f.phase = "copy" /\ f.input = Top.input
    /\ f.embeds = Top.embeds /\ f.array = Top.array
    /\ Goes(f, 1)

Copied == [NoResult EXCEPT !.formatted = Top.input]

LEMMA StartDoes ==
    ASSUME IInv, Start
    PROVE  \/ Leaves(Failed("MCFG_FMT_MALLOC_FAIL"), 0)
           \/ Leaves(Copied, 1)
           \/ \E f : Begins(f)
<1>1. /\ Given /\ pc = "run" /\ stack # << >> /\ Top.list = FALSE /\ FrameOK(Top)
      /\ Top.phase = "start"
  BY RunningTop DEF Start, Same
<1> DEFINE size == Len(Top.input) + 1
           f == [Top EXCEPT !.phase = "copy", !.size = size, !.block = size]
<1>2. PICK k \in 0 .. 1 :
         CASE k = 1 -> Leaves(Failed("MCFG_FMT_MALLOC_FAIL"), 0)
           [] k = 0 /\ Top.embeds = << >> -> Leaves([NoResult EXCEPT !.formatted = Top.input], 1)
           [] OTHER -> Goes(f, 1)
  BY DEF Start
<1>3. CASE k = 1
  BY <1>2, <1>3
<1>4. CASE k = 0 /\ Top.embeds = << >>
  BY <1>2, <1>4 DEF Copied
<1>5. CASE k = 0 /\ Top.embeds # << >>
  <2>1. Goes(f, 1)
    BY <1>2, <1>5
  <2>2. size \in Nat /\ Top \in Frame
    <3>1. Len(Top.input) \in Nat /\ Top \in Frame
      BY <1>1, FrameParts
    <3> QED
      BY <3>1
  <2>3. Top.input # << >>
    BY <1>1, <1>5 DEF FrameOK, Phased
  <2>4. /\ f \in Frame /\ f.ix = Top.ix /\ f.array = Top.array /\ f.input = Top.input /\ f.list = FALSE /\ f.phase = "copy"
        /\ f.embeds = Top.embeds /\ f.cpy_offs = Top.cpy_offs /\ f.out = Top.out
        /\ f.write_offs = Top.write_offs /\ f.size = size /\ f.block = size
    BY <1>1, <2>2 DEF Frame
  <2> HIDE DEF size, f
  <2>5. Inside(f) /\ Phased(f) /\ Follows(f)
    BY <1>1, <2>3, <2>4 DEF Inside, Phased, Follows, FrameOK
  <2>6. Written(f)
    <3>1. Top.out = << >> /\ Len(<< >>) = 0
      BY <1>1 DEF FrameOK, Phased
    <3> QED
      BY <1>1, <2>2, <2>4, <3>1 DEF Written, FrameOK
  <2>7. FrameOK(f)
    BY <2>4, <2>5, <2>6 DEF FrameOK
  <2> QED
    BY <1>1, <2>1, <2>4, <2>7 DEF Begins
<1> QED
  BY <1>3, <1>4, <1>5

LEMMA StartKeeps ==
    ASSUME IInv, Start
    PROVE  IInv'
<1>1. Given /\ pc = "run" /\ stack # << >> /\ FrameOK(Top)
  BY RunningTop DEF Start, Same
<1>2. CASE Leaves(Failed("MCFG_FMT_MALLOC_FAIL"), 0)
  BY <1>1, <1>2, FailedKeeps
<1>3. CASE Leaves(Copied, 1)
  <2>1. Copied.formatted = Top.input
    BY DEF Copied, NoResult
  <2>2. Top.input \in Seq(Chars)
    BY <1>1, FrameParts, InputTypes
  <2> QED
    BY <1>1, <1>3, <2>1, <2>2, LeavesKeeps
<1>4. ASSUME NEW f, Begins(f)
      PROVE  IInv'
  BY <1>1, <1>4, GoesKeeps DEF Begins
<1> QED
  BY <1>2, <1>3, <1>4, StartDoes

\* Part of a text.
LEMMA PartOfText ==
    ASSUME NEW S, NEW s \in Seq(S), NEW a \in Nat, NEW b \in Nat, b <= Len(s),
           NEW t, t = SubSeq(s, a + 1, b)
    PROVE  t \in Seq(S) /\ Len(t) = IF a < b THEN b - a ELSE 0
<1>1. a + 1 \in Nat /\ \A i \in a + 1 .. b : s[i] \in S
  OBVIOUS
<1>2. /\ SubSeq(s, a + 1, b) \in Seq(S)
      /\ Len(SubSeq(s, a + 1, b)) = IF a + 1 <= b THEN b - (a + 1) + 1 ELSE 0
  BY <1>1, SubSeqProperties
<1>3. Len(t) = IF a + 1 <= b THEN b - (a + 1) + 1 ELSE 0
  BY <1>2
<1>4. (a + 1 <= b) = (a < b) /\ b - (a + 1) + 1 = b - a
  OBVIOUS
<1> QED
  BY <1>2, <1>3, <1>4

LEMMA FailedErrs ==
    ASSUME NEW err, err # "MCFG_FMT_OK", NEW n, Leaves(Failed(err), n)
    PROVE  Errs
<1>1. Failed(err).err # "MCFG_FMT_OK"
  BY DEF Failed
<1> QED
  BY <1>1 DEF Errs

LEMMA CopyDoes ==
    ASSUME IInv, Copy
    PROVE  Errs \/ Writes(0)
<1>1. /\ Given /\ pc = "run" /\ stack # << >> /\ Top.list = FALSE /\ FrameOK(Top)
      /\ Top.phase = "copy" /\ 0 <= Top.write_offs /\ Top.ix <= Len(Top.embeds)
  BY RunningTop DEF Copy, Same
<1> DEFINE chunk == Embed.pos - Top.cpy_offs
           text == SubSeq(Top.input, Top.cpy_offs + 1, Embed.pos)
           p == Put(Top, text)
           frame == [p EXCEPT !.cpy_offs = Embed.src_end_pos, !.phase = "look"]
           next == IF Embed.ignore_me THEN NextEmbed(frame) ELSE frame
<1>2. \/ Stops("crashed")
      \/ Leaves(Failed("MCFG_FMT_MALLOC_FAIL"), 0)
      \/ chunk >= 0 /\ Goes(next, 0)
  BY DEF Copy
<1>3. CASE Stops("crashed")
  BY <1>3 DEF Errs, Stops
<1>4. CASE Leaves(Failed("MCFG_FMT_MALLOC_FAIL"), 0)
  BY <1>4, FailedErrs
<1>5. CASE chunk >= 0 /\ Goes(next, 0)
  <2>1. /\ Embed.pos \in Nat /\ Embed.src_end_pos \in Nat /\ Embed.pos <= Len(Top.input)
        /\ Embed.src_end_pos <= Len(Top.input) /\ Top.input # << >>
    BY <1>1, AtEmbed
  <2>2. Top.cpy_offs \in Nat /\ Top.input \in Seq(Characters)
    BY <1>1, FrameParts
  <2>3. text \in Seq(Chars)
    BY <2>1, <2>2, PartOfText, InputTypes
  <2> HIDE DEF text
  <2>4. FrameOK(p) /\ SameCall(p, Top) /\ p.ix = Top.ix
    BY <1>1, <2>3, PutOK
  <2> HIDE DEF p
  <2>5. /\ frame \in Frame /\ SameCall(frame, p) /\ frame.ix = p.ix /\ frame.phase = "look"
        /\ frame.cpy_offs = Embed.src_end_pos /\ frame.out = p.out
        /\ frame.write_offs = p.write_offs /\ frame.block = p.block
    <3>1. p \in Frame
      BY <2>4 DEF FrameOK
    <3> QED
      BY <2>1, <3>1 DEF Frame, SameCall
  <2> HIDE DEF frame
  <2>6. FrameOK(frame)
    <3>1. Written(frame)
      BY <2>4, <2>5 DEF FrameOK, Written, SameCall
    <3>2. Inside(frame)
      BY <2>1, <2>4, <2>5 DEF FrameOK, Inside, SameCall
    <3>3. Phased(frame)
      BY <1>1, <2>1, <2>4, <2>5 DEF Phased, SameCall
    <3>4. Follows(frame)
      <4>1. frame.embeds = Top.embeds /\ frame.ix = Top.ix
        BY <2>4, <2>5 DEF SameCall
      <4>2. frame.embeds[frame.ix].src_end_pos <= frame.cpy_offs
        BY <2>1, <2>5, <4>1 DEF Embed
      <4> QED
        BY <2>5, <4>2 DEF Follows
    <3> QED
      BY <2>5, <3>1, <3>2, <3>3, <3>4 DEF FrameOK
  <2>7. SameCall(frame, Top)
    BY <2>4, <2>5 DEF SameCall
  <2>8. FrameOK(next) /\ SameCall(next, Top) /\ next.phase \in {"copy", "look"}
    <3>1. frame.input # << >>
      BY <2>1, <2>7 DEF SameCall
    <3>2. /\ FrameOK(NextEmbed(frame)) /\ SameCall(NextEmbed(frame), frame)
          /\ NextEmbed(frame).phase = "copy"
      BY <2>5, <2>6, <3>1, NextOK
    <3>3. SameCall(NextEmbed(frame), Top)
      BY <2>7, <3>2 DEF SameCall
    <3> QED
      BY <2>5, <2>6, <2>7, <3>2, <3>3
  <2> HIDE DEF next
  <2> QED
    BY <1>5, <2>8 DEF Writes
<1> QED
  BY <1>2, <1>3, <1>4, <1>5

\* An entry that is found is there,
LEMMA GetIn ==
    ASSUME NEW S, NEW seq \in Seq(S), NEW name, mcfg_get(seq, name) # 0
    PROVE  mcfg_get(seq, name) \in 1 .. Len(seq)
<1>1. Hits(seq, name) # {}
  BY DEF mcfg_get
<1>2. Hits(seq, name) \in SUBSET (1 .. Len(seq)) /\ Hits(seq, name) \in SUBSET Nat
  BY DEF Hits
<1>3. \E i \in Hits(seq, name) : \A j \in Hits(seq, name) : i <= j
  BY <1>1, <1>2, LeastExists
<1> HIDE DEF Hits
<1>4. mcfg_get(seq, name) \in Hits(seq, name)
  BY <1>1, <1>3 DEF mcfg_get
<1> QED
  BY <1>2, <1>4

\* and a field that is found is one of the document.
LEMMA FieldFound ==
    ASSUME NEW f \in Files, NEW path
    PROVE  mcfg_get_field_by_path(f, path) \in Seq(TypedField)
<1> DEFINE At(seq, text) == IF mcfg_get(seq, Named(text)) = 0 THEN << >>
                            ELSE <<seq[mcfg_get(seq, Named(text))]>>
           sector == At(f.sectors, path.sector)
           section == At(sector[1].sections, path.section)
           found == mcfg_get_field_by_path(f, path)
<1>1. found = CASE path.dynfield_path -> At(f.dynfields, path.field)
                [] ~path.dynfield_path
                   /\ (~path.absolute \/ NULL \in {path.sector, path.section, path.field}) -> << >>
                [] OTHER -> IF sector = << >> \/ section = << >> THEN << >>
                            ELSE At(section[1].fields, path.field)
  BY DEF mcfg_get_field_by_path
<1>2. found = << >> \/ found = At(f.dynfields, path.field)
      \/ (sector # << >> /\ section # << >> /\ found = At(section[1].fields, path.field))
  <2> HIDE DEF At, sector, section, found
  <2> QED
    BY <1>1
<1>3. /\ f \in File
      /\ \A field \in Range(f.dynfields) : WellTyped(field)
      /\ \A x \in Range(f.sectors) : \A y \in Range(x.sections) :
            \A field \in Range(y.fields) : WellTyped(field)
  BY FormatAssumption
<1>4. ASSUME NEW S, NEW seq \in Seq(S), NEW text
      PROVE  /\ At(seq, text) \in Seq(S)
             /\ At(seq, text) # << >> => /\ At(seq, text)[1] \in Range(seq)
                                         /\ At(seq, text)[1] \in S
             /\ At(seq, text) # << >> => At(seq, text) = <<At(seq, text)[1]>>
  <2>1. CASE mcfg_get(seq, Named(text)) = 0
    BY <2>1
  <2>2. CASE mcfg_get(seq, Named(text)) # 0
    <3>1. mcfg_get(seq, Named(text)) \in 1 .. Len(seq)
      BY <2>2, GetIn
    <3>2. /\ seq[mcfg_get(seq, Named(text))] \in S
          /\ seq[mcfg_get(seq, Named(text))] \in Range(seq)
      BY <3>1 DEF Range
    <3> QED
      BY <2>2, <3>2
  <2> QED
    BY <2>1, <2>2
<1>5. f.sectors \in Seq(Sector) /\ f.dynfields \in Seq(Field)
  BY <1>3 DEF File
<1> HIDE DEF At
<1>6. ASSUME NEW seq \in Seq(Field), \A field \in Range(seq) : WellTyped(field), NEW text
      PROVE  At(seq, text) \in Seq(TypedField)
  <2>1. CASE At(seq, text) = << >>
    BY <2>1
  <2>2. CASE At(seq, text) # << >>
    <3>1. At(seq, text)[1] \in TypedField /\ At(seq, text) = <<At(seq, text)[1]>>
      BY <1>4, <1>6, <2>2 DEF TypedField
    <3> DEFINE field == At(seq, text)[1]
    <3> HIDE DEF field
    <3>2. field \in TypedField => <<field>> \in Seq(TypedField)
      OBVIOUS
    <3> QED
      BY <3>1, <3>2 DEF field
  <2> QED
    BY <2>1, <2>2
<1>7. CASE found = << >>
  <2> QED
    BY <1>7
<1>8. CASE found = At(f.dynfields, path.field)
  <2> QED
    BY <1>3, <1>5, <1>6, <1>8
<1>9. CASE sector # << >> /\ section # << >> /\ found = At(section[1].fields, path.field)
  <2>1. sector[1] \in Range(f.sectors) /\ sector[1] \in Sector
    BY <1>4, <1>5, <1>9
  <2>2. sector[1].sections \in Seq(Section)
    BY <2>1 DEF Sector
  <2> HIDE DEF sector
  <2>3. section[1] \in Range(sector[1].sections) /\ section[1] \in Section
    BY <1>4, <1>9, <2>2
  <2>4. section[1].fields \in Seq(Field)
    BY <2>3 DEF Section
  <2> HIDE DEF section
  <2>5. \A field \in Range(section[1].fields) : WellTyped(field)
    BY <1>3, <2>1, <2>3
  <2> QED
    BY <1>6, <1>9, <2>4, <2>5
<1> QED
  BY <1>2, <1>7, <1>8, <1>9

\* The blocks of the path go but those of the elements that are left behind.
LEMMA LookDoes ==
    ASSUME IInv, Look
    PROVE  Errs \/ \E k \in 0 .. StepAllocs :
                      /\ Allocates(k, ParseAllocs(Embed.field)
                                      + Missing(mcfg_parse_path(Embed.field, k).path))
                      /\ mcfg_parse_path(Embed.field, k).crash # TRUE
                      /\ Writes(mcfg_parse_path(Embed.field, k).lost)
<1>1. /\ Given /\ pc = "run" /\ stack # << >> /\ Top.list = FALSE /\ FrameOK(Top)
      /\ Top.phase = "look" /\ 0 <= Top.write_offs
  BY RunningTop DEF Look
<1>2. PICK k \in 0 .. StepAllocs :
         LET parsed == mcfg_parse_path(Embed.field, k)
             path   == _insert_path_elems(parsed.path, rel, k - ParseAllocs(Embed.field))
             field  == mcfg_get_field_by_path(file, path)
         IN  /\ Allocates(k, ParseAllocs(Embed.field) + Missing(parsed.path))
             /\ CASE parsed.crash -> Stops("crashed")
                  [] ~parsed.crash /\ field # << >> ->
                        Goes([Top EXCEPT !.field = field, !.phase = "insert"], parsed.lost)
                  [] ~parsed.crash /\ field = << >>
                     /\ Top.write_offs + Len(Nullptr) + 1 > Top.block -> Stops("overrun")
                  [] OTHER ->
                        Goes(NextEmbed([Put(Top, Nullptr) EXCEPT !.block = Top.block]),
                             parsed.lost)
  BY DEF Look
<1> DEFINE parsed == mcfg_parse_path(Embed.field, k)
           path   == _insert_path_elems(parsed.path, rel, k - ParseAllocs(Embed.field))
           field  == mcfg_get_field_by_path(file, path)
           inserts == [Top EXCEPT !.field = field, !.phase = "insert"]
           p == Put(Top, Nullptr)
           places == [p EXCEPT !.block = Top.block]
           full == Top.write_offs + Len(Nullptr) + 1 > Top.block
<1>3. (CASE parsed.crash -> Stops("crashed")
         [] ~parsed.crash /\ field # << >> -> Goes(inserts, parsed.lost)
         [] ~parsed.crash /\ field = << >> /\ full -> Stops("overrun")
         [] OTHER -> Goes(NextEmbed(places), parsed.lost))
  BY <1>2
<1>4. Top.ix <= Len(Top.embeds) /\ Top.input # << >>
  BY <1>1 DEF FrameOK, Phased
<1>5. field \in Seq(TypedField)
  BY FieldFound DEF IInv, Chosen
<1>6. CASE parsed.crash
  <2>1. Stops("crashed")
    <3> HIDE DEF parsed, field, full, inserts, places
    <3> QED
      BY <1>3, <1>6
  <2> QED
    BY <2>1 DEF Errs, Stops
<1> HIDE DEF field
<1>7. CASE ~parsed.crash /\ field # << >>
  <2>1. Goes(inserts, parsed.lost)
    <3> HIDE DEF parsed, full, inserts, places
    <3> QED
      BY <1>3, <1>7
  <2>2. /\ inserts \in Frame /\ SameCall(inserts, Top) /\ inserts.ix = Top.ix
        /\ inserts.phase = "insert" /\ inserts.field = field
        /\ inserts.cpy_offs = Top.cpy_offs /\ inserts.out = Top.out
        /\ inserts.write_offs = Top.write_offs /\ inserts.block = Top.block
    <3>1. Top \in Frame
      BY <1>1 DEF FrameOK
    <3> QED
      BY <1>5, <3>1 DEF Frame, SameCall
  <2> HIDE DEF inserts
  <2>3. Written(inserts) /\ Inside(inserts) /\ Phased(inserts) /\ Follows(inserts)
    BY <1>1, <1>4, <1>7, <2>2 DEF FrameOK, Written, Inside, Phased, Follows, SameCall
  <2>4. FrameOK(inserts)
    BY <2>2, <2>3 DEF FrameOK
  <2>5. Writes(parsed.lost)
    BY <2>1, <2>2, <2>4 DEF Writes
  <2>6. parsed.crash # TRUE
    BY <1>7
  <2> QED
    BY <1>2, <2>5, <2>6
<1>8. CASE ~parsed.crash /\ field = << >> /\ full
  <2>1. Stops("overrun")
    <3> HIDE DEF parsed, full, inserts, places
    <3> QED
      BY <1>3, <1>8
  <2> QED
    BY <2>1 DEF Errs, Stops
<1>9. CASE ~parsed.crash /\ field = << >> /\ ~full
  <2>1. Goes(NextEmbed(places), parsed.lost)
    <3> HIDE DEF parsed, full, inserts, places
    <3> QED
      BY <1>3, <1>9
  <2>2. Nullptr \in Seq(Chars) /\ Len(Nullptr) = 9
    BY DEF Nullptr, Chars
  <2>3. /\ FrameOK(p) /\ SameCall(p, Top) /\ p.ix = Top.ix /\ p.phase = "look"
        /\ p.write_offs = Top.write_offs + 9 /\ Len(p.out) = p.write_offs
    <3>1. Top.phase \notin {"extract", "start"}
      BY <1>1
    <3>2. p.write_offs = Top.write_offs + Len(Nullptr) /\ p.phase = Top.phase
      BY <1>1, <2>2, <3>1, PutOK
    <3>3. FrameOK(p) /\ SameCall(p, Top) /\ p.ix = Top.ix /\ Len(p.out) = p.write_offs
      BY <1>1, <2>2, <3>1, PutOK
    <3> QED
      BY <1>1, <2>2, <3>2, <3>3
  <2>4. Top.block \in Nat /\ Top.write_offs \in Int /\ Top.size <= Top.block
        /\ Top.write_offs + 9 + 1 <= Top.block
    <3>1. Top.block \in Nat /\ Top.write_offs \in Int
      BY <1>1, FrameParts
    <3>2. Top.size <= Top.block
      BY <1>1 DEF FrameOK, Written
    <3> QED
      BY <1>9, <2>2, <3>1, <3>2
  <2> HIDE DEF p
  <2>5. /\ places \in Frame /\ SameCall(places, p) /\ places.ix = p.ix
        /\ places.phase = p.phase /\ places.field = p.field
        /\ places.cpy_offs = p.cpy_offs /\ places.out = p.out
        /\ places.write_offs = p.write_offs /\ places.block = Top.block
    <3>1. p \in Frame
      BY <2>3 DEF FrameOK
    <3> QED
      BY <2>4, <3>1 DEF Frame, SameCall
  <2> HIDE DEF places
  <2>6. Inside(places) /\ Phased(places) /\ Follows(places)
    BY <2>3, <2>5 DEF FrameOK, Inside, Phased, Follows, SameCall
  <2>7. Written(places)
    BY <1>1, <2>3, <2>4, <2>5 DEF Written, SameCall, FrameOK
  <2>8. FrameOK(places) /\ SameCall(places, Top) /\ places.input # << >>
    BY <1>4, <2>3, <2>5, <2>6, <2>7 DEF FrameOK, SameCall
  <2>9. /\ FrameOK(NextEmbed(places)) /\ SameCall(NextEmbed(places), places)
        /\ NextEmbed(places).phase = "copy"
    BY <2>3, <2>5, <2>8, NextOK
  <2>10. SameCall(NextEmbed(places), Top)
    BY <2>8, <2>9 DEF SameCall
  <2>11. Writes(parsed.lost)
    BY <2>1, <2>9, <2>10 DEF Writes
  <2>12. parsed.crash # TRUE
    BY <1>9
  <2> QED
    BY <1>2, <2>11, <2>12
<1> QED
  BY <1>6, <1>7, <1>8, <1>9

\* The field to insert.
LEMMA AtField ==
    ASSUME IInv, Running("insert")
    PROVE  /\ Top.field[1] \in TypedField /\ WellTyped(Top.field[1])
           /\ Type \in FieldTypes /\ Top.input # << >>
           /\ Top.ix <= Len(Top.embeds) /\ Top.phase \notin {"extract", "start"}
<1>1. FrameOK(Top) /\ Top.phase = "insert"
  BY RunningTop
<1>2. Top.field # << >> /\ Top.input # << >> /\ Top.ix <= Len(Top.embeds)
  BY <1>1 DEF FrameOK, Phased
<1>3. Top.field \in Seq(TypedField)
  BY <1>1, FrameParts
<1>4. Top.field[1] \in TypedField
  BY <1>2, <1>3, EmptySeq
<1> QED
  BY <1>1, <1>2, <1>4 DEF TypedField, Field, Type

LEMMA InsertValueDoes ==
    ASSUME IInv, InsertValue
    PROVE  Errs \/ Writes(0)
<1>1. /\ Given /\ pc = "run" /\ stack # << >> /\ Top.list = FALSE /\ FrameOK(Top)
      /\ 0 <= Top.write_offs /\ Running("insert") /\ Type \notin {"TYPE_STRING", "TYPE_LIST"}
  BY RunningTop DEF InsertValue, Same
<1> DEFINE text == Spelled(mcfg_data_to_string(Type, Data))
           p == Put(Top, text)
           next == NextEmbed(p)
<1>2. \/ Stops("crashed")
      \/ /\ Data # NULL
         /\ \E k \in 0 .. 2 :
               CASE k = 1 -> Stops("crashed")
                 [] k = 2 -> Leaves(Failed("MCFG_FMT_MALLOC_FAIL"), 1)
                 [] OTHER -> Goes(next, 0)
  BY DEF InsertValue
<1>3. CASE Stops("crashed")
  BY <1>3 DEF Errs, Stops
<1>4. CASE Leaves(Failed("MCFG_FMT_MALLOC_FAIL"), 1)
  BY <1>4, FailedErrs
<1>5. CASE Data # NULL /\ Goes(next, 0)
  <2>1. text \in Seq(Chars)
    BY <1>1, <1>5, AtField, ValueType DEF Type, Data
  <2> HIDE DEF text
  <2>2. FrameOK(p) /\ SameCall(p, Top) /\ p.phase = "insert"
    <3>1. Top.phase = "insert"
      BY <1>1 DEF Running
    <3> QED
      BY <1>1, <2>1, <3>1, AtField, PutOK
  <2> HIDE DEF p
  <2>3. p.input = Top.input /\ p.input # << >>
    BY <1>1, <2>2, AtField DEF SameCall
  <2>4. FrameOK(next) /\ SameCall(next, p) /\ next.phase = "copy"
    BY <2>2, <2>3, NextOK
  <2> HIDE DEF next
  <2>5. SameCall(next, Top)
    BY <2>2, <2>4 DEF SameCall
  <2> QED
    BY <1>5, <2>4, <2>5 DEF Writes
<1>6. \/ Stops("crashed") \/ Leaves(Failed("MCFG_FMT_MALLOC_FAIL"), 1)
      \/ Data # NULL /\ Goes(next, 0)
  <2> HIDE DEF next
  <2> QED
    BY <1>2
<1> QED
  BY <1>3, <1>4, <1>5, <1>6

LEMMA InsertStringKeeps ==
    ASSUME IInv, InsertString
    PROVE  IInv'
<1>1. /\ Given /\ pc = "run" /\ stack # << >> /\ Top.list = FALSE /\ FrameOK(Top)
      /\ Top.phase = "insert" /\ Running("insert") /\ Type = "TYPE_STRING"
  BY RunningTop DEF InsertString, Same
<1>2. CASE Data = NULL
  <2>1. pc' = "return" /\ ret' = Failed("MCFG_FMT_NULLPTR") /\ UNCHANGED stack
    BY <1>2 DEF InsertString
  <2>2. Waiting(stack)' /\ Top' = Top
    BY <2>1 DEF IInv, Waiting, Top, Depth
  <2>3. TopOK'
    BY <1>1, <2>1, <2>2 DEF TopOK, Failed
  <2> QED
    BY <1>1, <2>2, <2>3 DEF IInv, Chosen, Given
<1>3. CASE Data # NULL
  <2>1. Enters(stack, Data.text, 0)
    BY <1>3 DEF InsertString
  <2>2. Data.text \in Inputs
    BY <1>1, <1>3, AtField DEF WellTyped, Type, Data
  <2>3. Waiting(stack) /\ stack[Len(stack)] = Top
    BY DEF IInv, Top, Depth
  <2> QED
    BY <1>1, <2>1, <2>2, <2>3, EntersKeeps
<1> QED
  BY <1>2, <1>3

\* What goes with an element is part of the text in front of the embed.
LEMMA PrefixType ==
    ASSUME Embed.pos \in Nat
    PROVE  PrefixLength \in Nat
<1> DEFINE spaces == {i \in 1 .. Embed.pos - 1 : Top.input[i + 1] = " "}
           length == IF Embed.pos = 0 THEN 0 ELSE Embed.pos - 1 - Max(spaces \cup {0})
<1>1. PrefixLength = length - One(length > 0 /\ Top.input[Embed.pos] = "LF")
  BY DEF PrefixLength
<1>2. length \in Nat
  <2>1. CASE Embed.pos = 0
    BY <2>1
  <2>2. CASE Embed.pos # 0
    <3> DEFINE n == Embed.pos - 1
               m == Max(spaces \cup {0})
    <3>1. n \in Nat /\ spaces \cup {0} \in SUBSET (0 .. n) /\ spaces \cup {0} # {}
      <4>1. n \in Nat
        BY <2>2
      <4>2. spaces \in SUBSET (1 .. n)
        OBVIOUS
      <4> HIDE DEF n, spaces
      <4> QED
        BY <4>1, <4>2
    <3>2. m \in spaces \cup {0}
      BY <3>1, MaxProperties
    <3>3. m \in 0 .. n
      BY <3>1, <3>2
    <3>4. n - m \in Nat
      <4>1. n \in Nat
        BY <3>1
      <4>2. \A a \in Nat : \A b \in 0 .. a : a - b \in Nat
        OBVIOUS
      <4> HIDE DEF m, n
      <4> QED
        BY <3>3, <4>1, <4>2
    <3> HIDE DEF m
    <3> QED
      BY <2>2, <3>4 DEF m
  <2> QED
    BY <2>1, <2>2
<1> HIDE DEF length
<1>3. CASE length > 0
  BY <1>1, <1>2, <1>3 DEF One
<1>4. CASE ~ (length > 0)
  BY <1>1, <1>2, <1>4 DEF One
<1> QED
  BY <1>3, <1>4

\* The text goes on inside of it, or where strchr says when there is no space.
LEMMA NextSpaceType ==
    ASSUME Embed.src_end_pos \in Nat, Len(Top.input) \in Nat
    PROVE  /\ NextSpace \in Nat /\ (NextSpace < Len(Top.input) \/ NextSpace = Far)
           /\ Embed.src_end_pos <= NextSpace \/ NextSpace = Far
<1> DEFINE s == {i \in Embed.src_end_pos .. Len(Top.input) - 1 : Top.input[i + 1] = " "}
<1>1. Far \in Nat
  BY InputTypes
<1>2. \A i \in s : i \in Nat /\ i < Len(Top.input) /\ Embed.src_end_pos <= i
  <2>1. s \subseteq Embed.src_end_pos .. Len(Top.input) - 1
    OBVIOUS
  <2>2. \A a \in Nat, b \in Nat : \A i \in a .. b - 1 : i \in Nat /\ i < b /\ a <= i
    OBVIOUS
  <2> HIDE DEF s
  <2> QED
    BY <2>1, <2>2
<1>3. NextSpace = Min(s \cup {Far})
  BY DEF NextSpace
<1> HIDE DEF s
<1>4. s \cup {Far} \in SUBSET Nat /\ s \cup {Far} # {}
  BY <1>1, <1>2
<1>5. NextSpace \in s \cup {Far}
  BY <1>3, <1>4, MinProperties
<1> QED
  BY <1>1, <1>2, <1>5

\* The call that has an empty list to insert, while it waits for its text.
Lists(f) ==
    /\ FrameOK(f) /\ f.list = TRUE /\ f.phase = "insert"
    /\ f.input = Top.input /\ f.embeds = Top.embeds /\ f.array = Top.array

LEMMA InsertListDoes ==
    ASSUME IInv, InsertList
    PROVE  Errs \/ \E f : Lists(f) /\ Enters([stack EXCEPT ![Depth] = f], << >>, 1)
<1>1. /\ Given /\ pc = "run" /\ stack # << >> /\ Top.list = FALSE /\ FrameOK(Top)
      /\ Top.phase = "insert" /\ Running("insert")
  BY RunningTop DEF InsertList, Same
<1> DEFINE under == [stack EXCEPT ![Depth].cpy_offs = NextSpace,
                                  ![Depth].write_offs = @ - PrefixLength,
                                  ![Depth].list = TRUE]
           f == [Top EXCEPT !.cpy_offs = NextSpace,
                            !.write_offs = Top.write_offs - PrefixLength, !.list = TRUE]
<1>2. PICK k \in 0 .. 3 :
         LET list == mcfg_format_list(Data.elems, k = 0)
         IN  CASE k \in {1, 2} -> Leaves(Failed("MCFG_FMT_NULLPTR"), k - 1)
               [] k \in {0, 3} /\ Data = NULL -> k = 0 /\ Stops("crashed")
               [] k \in {0, 3} /\ Data # NULL /\ list.crash -> Stops("crashed")
               [] k \in {0, 3} /\ Data # NULL /\ ~list.crash /\ list.text = NULL ->
                     Leaves(Failed("MCFG_FMT_NULLPTR"), list.lost)
               [] OTHER -> Enters(under, list.text, 1)
  BY DEF InsertList
<1> DEFINE list == mcfg_format_list(Data.elems, k = 0)
<1>3. \/ \E n : Leaves(Failed("MCFG_FMT_NULLPTR"), n)
      \/ Stops("crashed")
      \/ list.text # NULL /\ Enters(under, list.text, 1)
  <2> HIDE DEF under, list
  <2>1. (CASE k \in {1, 2} -> Leaves(Failed("MCFG_FMT_NULLPTR"), k - 1)
           [] k \in {0, 3} /\ Data = NULL -> k = 0 /\ Stops("crashed")
           [] k \in {0, 3} /\ Data # NULL /\ list.crash -> Stops("crashed")
           [] k \in {0, 3} /\ Data # NULL /\ ~list.crash /\ list.text = NULL ->
                 Leaves(Failed("MCFG_FMT_NULLPTR"), list.lost)
           [] OTHER -> Enters(under, list.text, 1))
    BY <1>2 DEF list, under
  <2>2. k \in {1, 2} \/ k \in {0, 3}
    OBVIOUS
  <2> QED
    BY <2>1, <2>2
<1>4. CASE \E n : Leaves(Failed("MCFG_FMT_NULLPTR"), n)
  BY <1>4, FailedErrs
<1>5. CASE Stops("crashed")
  BY <1>5 DEF Errs, Stops
<1>6. CASE list.text # NULL /\ Enters(under, list.text, 1)
  <2>1. list.text = << >>
    BY <1>6 DEF mcfg_format_list
  <2> HIDE DEF list
  <2>2. Depth \in 1 .. Len(stack) /\ Depth = Len(stack) /\ stack \in Seq(Frame)
    BY <1>1, TopFrame DEF IInv, Waiting
  <2>3. under = [stack EXCEPT ![Depth] = f]
    BY <2>2 DEF Top, Frame
  <2>4. /\ Embed.pos \in Nat /\ Embed.src_end_pos \in Nat /\ Top.input # << >>
        /\ Len(Top.input) \in Nat /\ Top.write_offs \in Int
    BY <1>1, AtField, AtEmbed, FrameParts
  <2>5. PrefixLength \in Nat /\ NextSpace \in Nat
        /\ (NextSpace < Len(Top.input) \/ NextSpace = Far)
        /\ (Embed.src_end_pos <= NextSpace \/ NextSpace = Far)
    BY <2>4, PrefixType, NextSpaceType
  <2> DEFINE offs == Top.write_offs - PrefixLength
  <2>6. offs \in Int /\ offs <= Top.write_offs
    BY <2>4, <2>5
  <2>7. /\ f \in Frame /\ f.array = Top.array /\ f.input = Top.input /\ f.embeds = Top.embeds /\ f.ix = Top.ix
        /\ f.phase = "insert" /\ f.field = Top.field /\ f.list = TRUE
        /\ f.cpy_offs = NextSpace /\ f.out = Top.out /\ f.write_offs = offs
        /\ f.size = Top.size /\ f.block = Top.block
    <3> HIDE DEF offs
    <3>1. Top \in Frame /\ f = [Top EXCEPT !.cpy_offs = NextSpace, !.write_offs = offs,
                                           !.list = TRUE]
      BY <1>1 DEF FrameOK, offs
    <3> QED
      BY <1>1, <2>5, <2>6, <3>1 DEF Frame
  <2> HIDE DEF f, offs
  <2>8. Written(f)
    <3>1. Top.write_offs <= Len(Top.out) /\ Len(Top.out) \in Nat
      BY <1>1, FrameParts DEF FrameOK, Written
    <3>2. offs <= Len(Top.out)
      BY <2>4, <2>6, <3>1
    <3> QED
      BY <1>1, <2>7, <3>2 DEF FrameOK, Written
  <2>9. Inside(f) /\ Phased(f) /\ Follows(f)
    <3>1. Inside(f) /\ Phased(f)
      BY <1>1, <2>4, <2>5, <2>7 DEF FrameOK, Inside, Phased
    <3>2. Embed.src_end_pos <= Len(Top.input)
      BY <1>1, AtField, AtEmbed
    <3>3. Len(Top.input) < Far /\ Far \in Nat
      <4>1. Top.input \in Inputs
        BY <1>1, <2>4, FrameParts
      <4> QED
        BY <4>1, FormatAssumption
    <3>4. Embed.src_end_pos <= NextSpace
      BY <2>4, <2>5, <3>2, <3>3
    <3> QED
      BY <2>7, <3>1, <3>4 DEF Follows, Embed
  <2>10. FrameOK(f)
    BY <2>7, <2>8, <2>9 DEF FrameOK
  <2>11. Lists(f)
    BY <2>7, <2>10 DEF Lists
  <2> QED
    BY <1>6, <2>1, <2>3, <2>11
<1> QED
  BY <1>3, <1>4, <1>5, <1>6

LEMMA InsertListKeeps ==
    ASSUME IInv, InsertList
    PROVE  IInv'
<1>1. Given /\ pc = "run" /\ stack # << >> /\ Top.list = FALSE
  BY RunningTop DEF InsertList, Same
<1>2. CASE Errs
  BY <1>1, <1>2, ErrsKeep
<1>3. ASSUME NEW f, Lists(f), Enters([stack EXCEPT ![Depth] = f], << >>, 1)
      PROVE  IInv'
  <2> DEFINE under == [stack EXCEPT ![Depth] = f]
  <2>1. Depth \in 1 .. Len(stack) /\ Depth = Len(stack) /\ stack \in Seq(Frame)
    BY <1>1, TopFrame DEF IInv, Waiting
  <2>2. f \in Frame /\ FrameOK(f) /\ f.input = Top.input /\ f.phase = "insert"
    BY <1>3 DEF Lists, FrameOK
  <2>3. /\ under \in Seq(Frame) /\ Len(under) = Len(stack) /\ under[Depth] = f
        /\ \A j \in 1 .. Len(stack) : j # Depth => under[j] = stack[j]
    BY <2>1, <2>2
  <2>4. Enters(under, << >>, 1)
    BY <1>3
  <2> HIDE DEF under
  <2>5. Waiting(under)
    <3>1. \A j \in 1 .. Len(stack) : FrameOK(stack[j])
      BY DEF IInv, Waiting
    <3>2. \A j \in 1 .. Len(under) : FrameOK(under[j])
      BY <2>2, <2>3, <3>1
    <3>3. ASSUME NEW j \in 1 .. Len(under) - 1
          PROVE  /\ under[j].phase = "insert"
                 /\ under[j].list = TRUE => under[j + 1].input = << >>
      <4>1. j \in 1 .. Len(stack) /\ j # Depth /\ j \in 1 .. Len(stack) - 1
            /\ j + 1 \in 1 .. Len(stack)
        BY <2>1, <2>3
      <4>2. /\ stack[j].phase = "insert"
            /\ stack[j].list = TRUE => stack[j + 1].input = << >>
        BY <4>1 DEF IInv, Waiting
      <4>3. under[j + 1].input = stack[j + 1].input
        BY <2>2, <2>3, <4>1 DEF Top
      <4> QED
        BY <2>3, <4>1, <4>2, <4>3
    <3> QED
      BY <2>3, <3>2, <3>3 DEF Waiting
  <2>6. under[Len(under)].phase = "insert"
    BY <2>1, <2>2, <2>3
  <2> QED
    BY <1>1, <2>4, <2>5, <2>6, EntersKeeps
<1> QED
  BY <1>2, <1>3, InsertListDoes

\* What waited goes on, the list inserted.
GoesBack(f) ==
    /\ FrameOK(f) /\ f.list = FALSE /\ f.phase = "copy"
    /\ f.input = Top.input /\ f.embeds = Top.embeds /\ f.array = Top.array
    /\ stack' = [stack EXCEPT ![Depth] = f] /\ pc' = "run"

LEMMA ReturnDoes ==
    ASSUME IInv, Return
    PROVE  \/ Errs
           \/ /\ ret.err = "MCFG_FMT_OK" /\ blocks' = blocks - Taken(Top)
              /\ \E f : GoesBack(f)
<1>1. /\ Given /\ pc = "return" /\ stack # << >> /\ FrameOK(Top) /\ Top.phase = "insert"
      /\ Top.input # << >>
  <2>1. Given /\ pc = "return" /\ stack # << >>
    BY DEF Return, Same
  <2>2. FrameOK(Top) /\ Top.phase = "insert"
    BY <2>1, TopFrame DEF IInv, TopOK
  <2> QED
    BY <2>1, <2>2 DEF FrameOK, Phased
<1> DEFINE n == Len(ret.formatted)
           p == Put(Top, ret.formatted)
           next == NextEmbed(p)
           f == [next EXCEPT !.list = FALSE]
           back == One(Top.list)
<1>2. PICK k \in 0 .. 1 :
         CASE ret.err # "MCFG_FMT_OK" ->
                /\ k = 0 /\ UNCHANGED fails
                /\ Leaves(ret, -back)
           [] ret.err = "MCFG_FMT_OK" /\ Top.write_offs + n < 0 ->
                /\ k = 0 /\ UNCHANGED fails
                /\ Leaves(Failed("MCFG_FMT_MALLOC_FAIL"), -back)
           [] OTHER ->
                /\ Allocates(k, One(AppendCheck(Top, n)))
                /\ IF k = 1 THEN Leaves(Failed("MCFG_FMT_MALLOC_FAIL"), -back)
                   ELSE /\ stack' = [stack EXCEPT ![Depth] = f]
                        /\ blocks' = blocks - Taken(Top)
                        /\ pc' = "run"
                        /\ UNCHANGED ret
  BY DEF Return
<1>3. \/ ret.err # "MCFG_FMT_OK" /\ Leaves(ret, -back)
      \/ Leaves(Failed("MCFG_FMT_MALLOC_FAIL"), -back)
      \/ /\ ret.err = "MCFG_FMT_OK" /\ ~ (Top.write_offs + n < 0)
         /\ stack' = [stack EXCEPT ![Depth] = f] /\ pc' = "run"
         /\ blocks' = blocks - Taken(Top)
  <2> HIDE DEF n, f, back
  <2> QED
    BY <1>2
<1>4. CASE ret.err # "MCFG_FMT_OK" /\ Leaves(ret, -back)
  BY <1>4 DEF Errs
<1>5. CASE Leaves(Failed("MCFG_FMT_MALLOC_FAIL"), -back)
  BY <1>5, FailedErrs
<1>6. CASE /\ ret.err = "MCFG_FMT_OK" /\ ~ (Top.write_offs + n < 0)
           /\ stack' = [stack EXCEPT ![Depth] = f] /\ pc' = "run"
           /\ blocks' = blocks - Taken(Top)
  <2>1. ret.formatted \in Seq(Chars) /\ n \in Nat
    BY <1>1, <1>6 DEF IInv, TopOK
  <2>2. 0 <= Top.write_offs
    <3>1. Top.list \in {TRUE, FALSE} /\ Top.write_offs \in Int
      BY <1>1, FrameParts
    <3>2. CASE Top.list = TRUE
      <4>1. ret.formatted = << >>
        BY <1>1, <1>6, <3>2 DEF IInv, TopOK
      <4>2. n = 0
        BY <4>1
      <4> HIDE DEF n
      <4> QED
        BY <1>6, <3>1, <4>2
    <3>3. CASE Top.list = FALSE
      BY <1>1, <3>3 DEF FrameOK, Written
    <3> QED
      BY <3>1, <3>2, <3>3
  <2>3. Top.phase \notin {"extract", "start"}
    BY <1>1
  <2>4. FrameOK(p) /\ SameCall(p, Top) /\ 0 <= p.write_offs /\ p.phase = "insert"
    BY <1>1, <2>1, <2>2, <2>3, PutOK
  <2>5. p.input = Top.input
    BY <2>4 DEF SameCall
  <2> HIDE DEF p
  <2>6. /\ FrameOK(next) /\ SameCall(next, p) /\ next.write_offs = p.write_offs
        /\ next.phase = "copy"
    <3>1. FrameOK(next) /\ SameCall(next, p) /\ next.phase = "copy"
      BY <1>1, <2>4, <2>5, NextOK
    <3>2. p \in Frame
      BY <2>4 DEF FrameOK
    <3>3. next.write_offs = p.write_offs
      BY <3>2 DEF NextEmbed, Frame
    <3> QED
      BY <3>1, <3>3
  <2> HIDE DEF next
  <2>7. /\ f \in Frame /\ f.list = FALSE /\ f.input = next.input /\ f.embeds = next.embeds
        /\ f.phase = next.phase /\ f.ix = next.ix /\ f.field = next.field
        /\ f.cpy_offs = next.cpy_offs /\ f.out = next.out /\ f.size = next.size
        /\ f.block = next.block /\ f.write_offs = next.write_offs /\ f.array = next.array
    <3>1. next \in Frame
      BY <2>6 DEF FrameOK
    <3> QED
      BY <3>1 DEF Frame
  <2> HIDE DEF f
  <2>8. Written(f)
    BY <2>4, <2>6, <2>7 DEF FrameOK, Written
  <2>9. Inside(f) /\ Phased(f) /\ Follows(f)
    BY <2>6, <2>7 DEF FrameOK, Inside, Phased, Follows
  <2>10. FrameOK(f)
    BY <2>7, <2>8, <2>9 DEF FrameOK
  <2>11. f.input = Top.input /\ f.embeds = Top.embeds /\ f.array = Top.array
    BY <2>4, <2>6, <2>7 DEF SameCall
  <2> QED
    BY <1>6, <2>6, <2>7, <2>10, <2>11 DEF GoesBack
<1> QED
  BY <1>3, <1>4, <1>5, <1>6

LEMMA FinishKeeps ==
    ASSUME IInv, Finish
    PROVE  IInv'
<1>1. /\ Given /\ pc = "run" /\ stack # << >> /\ Top.list = FALSE /\ FrameOK(Top)
      /\ Top.phase = "copy" /\ 0 <= Top.write_offs
  BY RunningTop DEF Finish, Same
<1> DEFINE rest == SubSeq(Top.input, Top.cpy_offs + 1, Len(Top.input))
           p == Put(Top, rest)
           result == [NoResult EXCEPT !.formatted = p.out]
<1>2. Leaves(Failed("MCFG_FMT_MALLOC_FAIL"), 0) \/ Leaves(result, 0)
  BY DEF Finish
<1>3. CASE Leaves(Failed("MCFG_FMT_MALLOC_FAIL"), 0)
  BY <1>1, <1>3, FailedKeeps
<1>4. CASE Leaves(result, 0)
  <2>1. /\ Top.cpy_offs \in Nat /\ Top.input \in Seq(Characters) /\ Len(Top.input) \in Nat
        /\ Len(Top.input) <= Len(Top.input)
    <3>1. Top.cpy_offs \in Nat /\ Top.input \in Seq(Characters) /\ Len(Top.input) \in Nat
      BY <1>1, FrameParts
    <3> QED
      BY <3>1
  <2>2. rest \in Seq(Chars)
    BY <2>1, PartOfText, InputTypes
  <2> HIDE DEF rest
  <2>3. Top.phase \notin {"extract", "start"}
    BY <1>1
  <2>4. FrameOK(p)
    BY <1>1, <2>2, <2>3, PutOK
  <2> HIDE DEF p
  <2>5. p.out \in Seq(Chars)
    BY <2>4, FrameParts
  <2>6. result.formatted = p.out
    BY DEF NoResult
  <2>7. Top.input # << >>
    BY <1>1 DEF FrameOK, Phased
  <2> HIDE DEF result
  <2> QED
    BY <1>1, <1>4, <2>5, <2>6, <2>7, LeavesKeeps
<1> QED
  BY <1>2, <1>3, <1>4

\* No step undoes it.
LEMMA NextKeeps ==
    ASSUME IInv, [Next]_vars
    PROVE  IInv'
<1>1. CASE Call
  BY <1>1, CallKeeps
<1>2. CASE Extract
  BY <1>2, ExtractKeeps
<1>3. CASE Start
  BY <1>3, StartKeeps
<1>4. CASE Copy
  <2>1. Given /\ pc = "run" /\ stack # << >>
    BY <1>4, RunningTop DEF Copy, Same
  <2> QED
    BY <1>4, <2>1, CopyDoes, ErrsKeep, WritesKeep
<1>5. CASE Look
  <2>1. Given /\ pc = "run" /\ stack # << >>
    BY <1>5, RunningTop DEF Look
  <2> QED
    BY <1>5, <2>1, LookDoes, ErrsKeep, WritesKeep
<1>6. CASE InsertValue
  <2>1. Given /\ pc = "run" /\ stack # << >>
    BY <1>6, RunningTop DEF InsertValue, Same
  <2> QED
    BY <1>6, <2>1, InsertValueDoes, ErrsKeep, WritesKeep
<1>7. CASE InsertString
  BY <1>7, InsertStringKeeps
<1>8. CASE InsertList
  BY <1>8, InsertListKeeps
<1>9. CASE Return
  <2>1. Given /\ stack # << >>
    BY <1>9 DEF Return, Same
  <2>2. CASE \E f : GoesBack(f)
    BY <2>1, <2>2, TopKeeps DEF GoesBack
  <2> QED
    BY <1>9, <2>1, <2>2, ReturnDoes, ErrsKeep
<1>10. CASE Finish
  BY <1>10, FinishKeeps
<1>11. CASE Returned
  BY <1>11, StopsKeeps DEF Returned, Given
<1>12. CASE Stopped \/ UNCHANGED vars
  BY <1>12 DEF Stopped, vars, IInv, Chosen, Waiting, TopOK, Top, Depth
<1> QED
  BY <1>1, <1>2, <1>3, <1>4, <1>5, <1>6, <1>7, <1>8, <1>9, <1>10, <1>11, <1>12 DEF Next

LEMMA InitHolds == Init => IInv
<1> SUFFICES ASSUME Init PROVE IInv
  OBVIOUS
<1>1. Waiting(<< >>)
  BY DEF Waiting
<1> QED
  BY <1>1 DEF Init, IInv, Chosen, TopOK

\* The calls are as described, whatever is allocated and whatever is formatted.
THEOREM CallsAreSound == Spec => []IInv
<1>1. Init => IInv
  BY InitHolds
<1>2. IInv /\ [Next]_vars => IInv'
  BY NextKeeps
<1> QED
  BY <1>1, <1>2, PTL DEF Spec

\* Nothing but the placeholder is written behind the end of the buffer, even
\* though its size is always compared with what it was at first (APPEND_CHECK).
THEOREM OutputStaysInBuffer == Spec => []OutputFits
<1>1. IInv => OutputFits
  BY DEF IInv, Waiting, FrameOK, Written, OutputFits
<1> QED
  BY <1>1, CallsAreSound, PTL

-----------------------------------------------------------------------------
(* The elements of a path.                                                   *)

\* The state of strtok_r.
TokenState(S) == [tokens : Seq(Seq(S)), token : Seq(S)]

LEMMA CutTokenType ==
    ASSUME NEW S, NEW t \in TokenState(S)
    PROVE  CutToken(t) \in TokenState(S)
<1>1. t.tokens \in Seq(Seq(S)) /\ t.token \in Seq(S) /\ << >> \in Seq(S)
  BY DEF TokenState
<1>2. Append(t.tokens, t.token) \in Seq(Seq(S))
  <2> DEFINE T == Seq(S)
  <2>1. t.tokens \in Seq(T) /\ t.token \in T
    BY <1>1
  <2> HIDE DEF T
  <2>2. Append(t.tokens, t.token) \in Seq(T)
    BY <2>1
  <2> QED
    BY <2>2 DEF T
<1> QED
  BY <1>1, <1>2 DEF CutToken, TokenState

LEMMA TokenisedType ==
    ASSUME NEW S, NEW t \in TokenState(S), NEW s \in S
    PROVE  Tokenised(t, s) \in TokenState(S)
<1>1. CASE s = "/"
  BY <1>1, CutTokenType DEF Tokenised
<1>2. CASE s # "/"
  <2>1. t.token \in Seq(S)
    BY DEF TokenState
  <2>2. Append(t.token, s) \in Seq(S)
    BY <2>1
  <2>3. Tokenised(t, s) = [t EXCEPT !.token = Append(t.token, s)]
    BY <1>2 DEF Tokenised, TokenState
  <2> QED
    BY <2>2, <2>3 DEF TokenState
<1> QED
  BY <1>1, <1>2

\* The elements of a path are texts.
LEMMA TokensType ==
    ASSUME NEW S, NEW text \in Seq(S)
    PROVE  Tokens(text) \in Seq(Seq(S)) /\ Len(Tokens(text)) \in Nat
<1> DEFINE n == Len(text)
           A == TokenState(S)
           base == [tokens |-> << >>, token |-> << >>]
           step == [p \in A \X (1 .. n) |-> Tokenised(p[1], text[p[2]])]
           Body(g) == [s \in SUBSET DOMAIN text |->
                          IF s = {} THEN base ELSE Tokenised(g[s \ {Max(s)}], text[Max(s)])]
           fold == CHOOSE g : g = Body(g)
<1>1. Tokens(text) = CutToken(fold[DOMAIN text]).tokens
  BY DEF Tokens, FoldLeft, MapThenFoldSet
<1>2. /\ n \in Nat /\ DOMAIN text = 1 .. n
      /\ \A a \in A : \A s \in S : Tokenised(a, s) \in A
  BY TokenisedType
<1>3. base \in A
  <2>1. << >> \in Seq(S) /\ << >> \in Seq(Seq(S))
    OBVIOUS
  <2> QED
    BY <2>1 DEF TokenState
<1> HIDE DEF base
<1>4. step \in [A \X (1 .. n) -> A]
  <2>1. ASSUME NEW p \in A \X (1 .. n)
        PROVE  Tokenised(p[1], text[p[2]]) \in A
    <3>1. p[1] \in A /\ text[p[2]] \in S
      OBVIOUS
    <3> QED
      BY <1>2, <3>1
  <2> QED
    BY <2>1
<1>5. ASSUME NEW a \in A, NEW i \in 1 .. n
      PROVE  step[a, i] = Tokenised(a, text[i])
  OBVIOUS
<1>6. ASSUME NEW s \in SUBSET (1 .. n), s # {}
      PROVE  Max(s) \in 1 .. n
  BY <1>2, <1>6, MaxOfInterval
<1> HIDE DEF n, A, step
<1>7. PICK g \in [SUBSET (1 .. n) -> A] : Folds(g, base, step, n)
  BY <1>2, <1>3, <1>4, FoldExists
<1>8. g = Body(g)
  <2>1. ASSUME NEW s \in SUBSET (1 .. n), s # {}
        PROVE  g[s] = Tokenised(g[s \ {Max(s)}], text[Max(s)])
    <3>1. g[s \ {Max(s)}] \in A
      BY <1>7
    <3> QED
      BY <1>5, <1>6, <1>7, <2>1, <3>1 DEF Folds
  <2>2. g[{}] = base
    BY <1>7 DEF Folds
  <2> QED
    BY <1>2, <1>7, <2>1, <2>2
<1>9. PICK f : f = Body(f) /\ Tokens(text) = CutToken(f[DOMAIN text]).tokens
  BY <1>1, <1>8
<1>10. FoldsOver(f, A, base, step, n)
  <2>1. f[{}] = base
    BY <1>9
  <2>2. ASSUME NEW s \in SUBSET (1 .. n), s # {}, f[s \ {Max(s)}] \in A
        PROVE  f[s] = step[f[s \ {Max(s)}], Max(s)]
    <3>1. f[s] = Tokenised(f[s \ {Max(s)}], text[Max(s)])
      BY <1>2, <1>9, <2>2
    <3> QED
      BY <1>5, <1>6, <2>2, <3>1
  <2> QED
    BY <2>1, <2>2 DEF FoldsOver
<1>11. f[1 .. n] \in TokenState(S)
  <2>1. \A s \in SUBSET (1 .. n) : f[s] \in A
    BY <1>2, <1>3, <1>4, <1>10, FoldTyped
  <2> QED
    BY <2>1 DEF A
<1>12. CutToken(f[DOMAIN text]) \in TokenState(S)
  BY <1>2, <1>11, CutTokenType
<1>13. Tokens(text) \in Seq(Seq(S))
  BY <1>9, <1>12 DEF TokenState
<1> QED
  BY <1>13

\* What parsing leaves behind, memory permitting, are the elements behind the
\* third.
LEMMA ParseLeaves ==
    ASSUME NEW S, NEW text, text = NULL \/ text \in Seq(S),
           mcfg_parse_path(text, 0).crash # TRUE
    PROVE  /\ mcfg_parse_path(text, 0).lost = Beyond(text)
           /\ Beyond(text) \in Int
<1> DEFINE parsed == mcfg_parse_path(text, 0)
           n == Len(Tokens(text))
<1>1. CASE text = NULL
  <2>1. parsed = Parsed(NoPath, 0)
    BY <1>1 DEF mcfg_parse_path
  <2> QED
    BY <1>1, <2>1 DEF Parsed, Beyond
<1>2. CASE text = << >>
  <2>1. parsed = Parsed(NoPath, 0)
    BY <1>2 DEF mcfg_parse_path
  <2> QED
    BY <1>2, <2>1 DEF Parsed, Beyond
<1>3. CASE text # NULL /\ text # << >>
  <2>1. parsed = ParseCrash \/ \E path : parsed = Parsed(path, Max({0, n - 3}))
    <3> HIDE DEF parsed
    <3>1. parsed = LET elements == Tokens(text)
                       absolute == Head(text) = "/"
                       dynfield == n = 1 /\ ~absolute /\ IsDynfield(elements[1])
                   IN  IF dynfield /\ (elements[1] = <<"%">> \/ 0 = 2 * n + 2)
                       THEN ParseCrash
                       ELSE Parsed(PathOf(elements, absolute), Max({0, n - 3}))
      <4>1. n \in Nat
        BY <1>3, TokensType
      <4>2. 0 \notin 2 .. 2 * n + 1 /\ 0 \notin 1 .. 2 * n + 1 /\ 0 # 1
        BY <4>1
      <4> HIDE DEF n
      <4> QED
        BY <1>3, <4>2 DEF mcfg_parse_path, parsed, n
    <3> QED
      BY <3>1
  <2>2. parsed.lost = Max({0, n - 3})
    <3> DEFINE lost == Max({0, n - 3})
    <3> HIDE DEF lost
    <3>1. parsed # ParseCrash
      <4>1. ParseCrash.crash = TRUE
        BY DEF ParseCrash
      <4>2. parsed.crash # TRUE
        OBVIOUS
      <4> HIDE DEF parsed
      <4> QED
        BY <4>1, <4>2
    <3>2. PICK path : parsed = Parsed(path, lost)
      BY <2>1, <3>1 DEF lost
    <3>3. parsed.lost = lost
      BY <3>2 DEF Parsed
    <3> QED
      BY <3>3 DEF lost
  <2>3. Max({0, n - 3}) \in Int
    <3>1. n - 3 \in Int
      BY <1>3, TokensType
    <3>2. \A x \in Int : \E y \in {0, x} : \A z \in {0, x} : y >= z
      <4> TAKE x \in Int
      <4>1. CASE x >= 0
        BY <4>1
      <4>2. CASE ~ (x >= 0)
        BY <4>2
      <4> QED
        BY <4>1, <4>2
    <3> HIDE DEF n
    <3>3. \E y \in {0, n - 3} : \A z \in {0, n - 3} : y >= z
      BY <3>1, <3>2
    <3>4. Max({0, n - 3}) \in {0, n - 3}
      BY <3>3 DEF Max
    <3> QED
      BY <3>1, <3>4
  <2> QED
    BY <1>3, <2>2, <2>3 DEF Beyond
<1> QED
  BY <1>1, <1>2, <1>3

-----------------------------------------------------------------------------
(* The blocks.                                                               *)

\* The blocks of a call: its embeds, its buffer, and the text of a list.
HeldBy == [f \in Frame |-> EmbedBlocks(f) + One(f.phase \in {"copy", "look", "insert"})
                                          + One(f.list)]

\* No allocation has failed, and nothing else.
Clean ==
    /\ fails = 0
    /\ pc \notin {"crashed", "overrun"}
    /\ pc \in {"return", "returned"} => ret.err = "MCFG_FMT_OK"

\* What is in use is held by a call, is what is returned, or is spare.
Balanced(s, answers) ==
    /\ blocks \in Int /\ spare \in Int
    /\ blocks = spare + SumOver(HeldBy, s) + answers

BInv ==
    /\ fails \in Nat
    /\ pc = "returned" => stack = << >>
    /\ Clean => Balanced(stack, One(pc \in {"return", "returned"}))

LEMMA OneType == \A b : One(b) \in Nat
BY DEF One

LEMMA HeldType ==
    /\ HeldBy \in [Frame -> Nat]
    /\ \A f \in Frame : /\ EmbedBlocks(f) \in Nat
                        /\ HeldBy[f] = EmbedBlocks(f)
                                       + One(f.phase \in {"copy", "look", "insert"})
                                       + One(f.list)
<1>1. ASSUME NEW f \in Frame
      PROVE  EmbedBlocks(f) \in Nat
  <2> DEFINE s == {k \in DOMAIN f.embeds : f.embeds[k].field # NULL}
  <2>1. f.embeds \in Seq(Embeds)
    BY DEF Frame
  <2>2. s \subseteq 1 .. Len(f.embeds) /\ Len(f.embeds) \in Nat
    BY <2>1
  <2>3. EmbedBlocks(f) = One(f.array) + Cardinality(s)
    BY DEF EmbedBlocks
  <2> HIDE DEF s
  <2>4. IsFiniteSet(1 .. Len(f.embeds))
    BY <2>2, FS_Interval
  <2>5. IsFiniteSet(s)
    BY <2>2, <2>4, FS_Subset
  <2>6. Cardinality(s) \in Nat
    BY <2>5, FS_CardinalityType
  <2> QED
    BY <2>3, <2>6, OneType
<1>2. \A f \in Frame : EmbedBlocks(f) + One(f.phase \in {"copy", "look", "insert"})
                          + One(f.list) \in Nat
  BY <1>1, OneType
<1> QED
  BY <1>1, <1>2 DEF HeldBy

\* What two calls with the same embeds hold.
LEMMA SameEmbedsHeld ==
    ASSUME NEW f \in Frame, NEW g \in Frame, f.embeds = g.embeds, f.array = g.array
    PROVE  EmbedBlocks(f) = EmbedBlocks(g)
BY DEF EmbedBlocks

\* What a call holds behind and before its buffer is there.
LEMMA HeldWithout ==
    ASSUME NEW f \in Frame, f.phase \in {"extract", "start"}, f.list = FALSE
    PROVE  HeldBy[f] = EmbedBlocks(f)
<1>1. One(f.phase \in {"copy", "look", "insert"}) = 0 /\ One(f.list) = 0
  BY DEF One
<1> QED
  BY <1>1, HeldType

LEMMA HeldWith ==
    ASSUME NEW f \in Frame, f.phase \in {"copy", "look", "insert"}
    PROVE  HeldBy[f] = EmbedBlocks(f) + 1 + One(f.list)
<1>1. One(f.phase \in {"copy", "look", "insert"}) = 1
  BY DEF One
<1> QED
  BY <1>1, HeldType

\* What is found in a text is what the array of embeds holds.
LEMMA FoundHeld ==
    ASSUME NEW text \in Seq(Characters), NEW x, x = _extract_embeds(text, 0),
           NEW f \in Frame, f.embeds = x.embeds, f.array = x.array
    PROVE  EmbedBlocks(f) = x.blocks
<1> DEFINE n == Len(x.embeds)
           s == {k \in DOMAIN f.embeds : f.embeds[k].field # NULL}
<1>1. ScanClean(x)
  BY EmbedsClean
<1>2. x.blocks = n + One(x.array) /\ \A j \in 1 .. n : x.embeds[j].field \in Seq(Characters)
  BY <1>1 DEF ScanClean
<1>3. NULL \notin Seq(Characters)
  BY FormatAssumption
<1>4. f.embeds \in Seq(Embeds)
  BY DEF Frame
<1>5. n \in Nat /\ DOMAIN f.embeds = 1 .. n
  BY <1>4
<1>6. s = 1 .. n
  BY <1>2, <1>3, <1>5
<1>7. Cardinality(1 .. n) = n
  <2> HIDE DEF n, s
  <2>1. 1 \in Int /\ n \in Int
    BY <1>5
  <2>2. Cardinality(1 .. n) = IF 1 > n THEN 0 ELSE n - 1 + 1
    BY <2>1, FS_Interval
  <2> QED
    BY <1>5, <2>2
<1>8. EmbedBlocks(f) = One(x.array) + Cardinality(s)
  BY DEF EmbedBlocks
<1> HIDE DEF n, s
<1> QED
  BY <1>2, <1>5, <1>6, <1>7, <1>8, OneType

\* The calls on the stack and what they hold.
LEMMA FrontHolds ==
    ASSUME IInv, stack # << >>
    PROVE  /\ SumOver(HeldBy, Front(stack)) \in Int /\ HeldBy[Top] \in Nat
           /\ SumOver(HeldBy, stack) = SumOver(HeldBy, Front(stack)) + HeldBy[Top]
<1>1. Depth \in 1 .. Len(stack) /\ Depth = Len(stack) /\ stack \in Seq(Frame) /\ Top \in Frame
  BY TopFrame DEF IInv, Waiting, FrameOK
<1>2. /\ Front(stack) \in Seq(Frame) /\ Len(Front(stack)) = Depth - 1
      /\ \A k \in 1 .. Depth - 1 : Front(stack)[k] = stack[k]
  BY FrontWaits DEF Waiting
<1> DEFINE s == Front(stack)
           t == Append(s, Top)
<1> HIDE DEF s
<1>3. /\ t \in Seq(Frame) /\ Len(t) = Depth /\ t[Depth] = Top
      /\ \A k \in 1 .. Depth - 1 : t[k] = s[k]
  <2>1. s \in Seq(Frame) /\ Len(s) = Depth - 1
    BY <1>2 DEF s
  <2>2. /\ t \in Seq(Frame) /\ Len(t) = Len(s) + 1 /\ t[Len(s) + 1] = Top
        /\ \A k \in 1 .. Len(s) : t[k] = s[k]
    BY <1>1, <2>1
  <2> HIDE DEF t
  <2> QED
    BY <1>1, <2>1, <2>2
<1>4. t = stack
  <2>1. \A k \in 1 .. Depth : k = Depth \/ k \in 1 .. Depth - 1
    BY <1>1
  <2>2. \A k \in 1 .. Len(stack) : t[k] = stack[k]
    BY <1>1, <1>2, <1>3, <2>1 DEF s, Top
  <2> HIDE DEF t
  <2> QED
    BY <1>1, <1>3, <2>2, SeqEqual
<1>5. SumOver(HeldBy, t) = SumOver(HeldBy, s) + HeldBy[Top]
  <2>1. s \in Seq(Frame) /\ HeldBy \in [Frame -> Nat] /\ Top \in Frame
    BY <1>1, <1>2, HeldType DEF s
  <2> QED
    BY <2>1, SumOfAppend
<1>6. SumOver(HeldBy, s) \in Nat
  BY <1>2, HeldType, SumOverIs DEF s
<1>7. HeldBy[Top] \in Nat
  BY <1>1, HeldType
<1> QED
  BY <1>4, <1>5, <1>6, <1>7 DEF s

LEMMA StackHolds ==
    ASSUME NEW s \in Seq(Frame)
    PROVE  SumOver(HeldBy, s) \in Nat
BY HeldType, SumOverIs

\* A call that has changed.
LEMMA ChangedHolds ==
    ASSUME IInv, stack # << >>, NEW f \in Frame
    PROVE  SumOver(HeldBy, [stack EXCEPT ![Depth] = f])
              = SumOver(HeldBy, stack) + HeldBy[f] - HeldBy[Top]
<1>1. Depth \in 1 .. Len(stack) /\ stack \in Seq(Frame) /\ HeldBy \in [Frame -> Nat]
  BY TopFrame, HeldType DEF IInv, Waiting
<1>2. SumOver(HeldBy, [stack EXCEPT ![Depth] = f])
         = SumOver(HeldBy, stack) + HeldBy[f] - HeldBy[stack[Depth]]
  BY <1>1, SumOfExcept
<1> QED
  BY <1>2 DEF Top

\* A step that spoils a clean run owes nothing any more.
Spoilt == fails' \in Nat /\ pc' # "returned" /\ Clean' # TRUE

LEMMA SpoiltKeeps ==
    ASSUME Spoilt
    PROVE  BInv'
BY DEF Spoilt, BInv

LEMMA ErrsSpoil ==
    ASSUME fails' \in Nat, Errs
    PROVE  Spoilt
<1>1. CASE pc' \in {"crashed", "overrun"} /\ UNCHANGED stack
  BY <1>1 DEF Spoilt, Clean
<1>2. ASSUME NEW result, NEW n, result.err # "MCFG_FMT_OK", Leaves(result, n)
      PROVE  Spoilt
  <2>1. CASE FreeFaults(Top)
    BY <1>2, <2>1 DEF Leaves, Stops, Spoilt, Clean
  <2>2. CASE ~FreeFaults(Top)
    <3>1. ret' = result /\ pc' = "return"
      BY <1>2, <2>2 DEF Leaves
    <3> QED
      BY <1>2, <3>1 DEF Spoilt, Clean
  <2> QED
    BY <2>1, <2>2
<1> QED
  BY <1>1, <1>2 DEF Errs

\* The step counts its failures.
Counts == fails \in Nat /\ fails' \in Nat /\ fails <= fails'

LEMMA AllocatesCounts ==
    ASSUME fails \in Nat, NEW k \in Nat, NEW made, Allocates(k, made)
    PROVE  Counts /\ (fails' = 0 => k = 0)
<1>1. fails' = fails + One(k # 0)
  BY DEF Allocates
<1>2. CASE k = 0
  BY <1>1, <1>2 DEF One, Counts
<1>3. CASE k # 0
  BY <1>1, <1>3 DEF One, Counts
<1> QED
  BY <1>2, <1>3

LEMMA StaysCounts ==
    ASSUME fails \in Nat, UNCHANGED fails
    PROVE  Counts
BY DEF Counts

LEMMA StepCounts ==
    ASSUME fails \in Nat, [Next]_vars
    PROVE  Counts
<1>1. ASSUME NEW k \in Nat, NEW made, Allocates(k, made)
      PROVE  Counts
  BY <1>1, AllocatesCounts
<1>2. CASE UNCHANGED fails
  BY <1>2, StaysCounts
<1>3. CASE Extract \/ Look
  <2>1. \E k \in 0 .. StepAllocs : \E made : Allocates(k, made)
    BY <1>3 DEF Extract, Look
  <2>2. \A k \in 0 .. StepAllocs : k \in Nat
    BY FormatAssumption
  <2> QED
    BY <1>1, <2>1, <2>2
<1>4. CASE Start \/ Copy \/ InsertValue \/ InsertList \/ Return \/ Finish
  <2>1. UNCHANGED fails \/ \E k \in 0 .. 3 : \E made : Allocates(k, made)
    <3>1. CASE Start
      BY <3>1 DEF Start
    <3>2. CASE Copy
      BY <3>2 DEF Copy
    <3>3. CASE InsertValue
      BY <3>3 DEF InsertValue
    <3>4. CASE InsertList
      BY <3>4 DEF InsertList
    <3>5. CASE Return
      BY <3>5 DEF Return
    <3>6. CASE Finish
      BY <3>6 DEF Finish
    <3> QED
      BY <1>4, <3>1, <3>2, <3>3, <3>4, <3>5, <3>6
  <2>2. \A k \in 0 .. 3 : k \in Nat
    OBVIOUS
  <2> QED
    BY <1>1, <1>2, <2>1, <2>2
<1>5. CASE Call \/ InsertString \/ Returned \/ Stopped \/ UNCHANGED vars
  BY <1>2, <1>5 DEF Call, InsertString, Returned, Stopped, vars
<1> QED
  BY <1>3, <1>4, <1>5 DEF Next

\* A call that runs is clean when the step it takes is.
LEMMA WasClean ==
    ASSUME Counts, Clean', pc \in {"idle", "run"}
    PROVE  Clean
BY DEF Counts, Clean

LEMMA RunBalanced ==
    ASSUME BInv, Clean, pc \in {"idle", "run"}
    PROVE  Balanced(stack, 0)
<1>1. One(pc \in {"return", "returned"}) = 0
  BY DEF One
<1> QED
  BY <1>1 DEF BInv

\* The call on top goes on as f, with n blocks more, m of them spare.
LEMMA GoesBalances ==
    ASSUME IInv, BInv, Clean, pc = "run", NEW f \in Frame, NEW n \in Int, NEW m \in Int,
           Goes(f, n), spare' = spare + m, HeldBy[f] = HeldBy[Top] + n - m, fails' \in Nat
    PROVE  BInv'
<1>1. stack # << >>
  BY DEF IInv, TopOK
<1>2. /\ stack' = [stack EXCEPT ![Depth] = f] /\ blocks' = blocks + n
      /\ pc' = "run"
  BY DEF Goes
<1>3. /\ blocks \in Int /\ spare \in Int
      /\ blocks = spare + SumOver(HeldBy, stack) + 0
  BY RunBalanced DEF Balanced
<1>4. SumOver(HeldBy, stack') = SumOver(HeldBy, stack) + HeldBy[f] - HeldBy[Top]
  BY <1>1, <1>2, ChangedHolds
<1>5. SumOver(HeldBy, stack) \in Nat
  BY StackHolds DEF IInv, Waiting
<1>6. HeldBy[Top] \in Nat
  BY <1>1, FrontHolds
<1>7. /\ blocks' \in Int /\ spare' \in Int
      /\ blocks' = spare' + SumOver(HeldBy, stack') + 0
  BY <1>2, <1>3, <1>4, <1>5, <1>6
<1>8. One(pc' \in {"return", "returned"}) = 0 /\ pc' # "returned"
  BY <1>2 DEF One
<1> QED
  BY <1>7, <1>8 DEF BInv, Balanced

\* The call on top returns its buffer, n blocks of it new.
LEMMA LeavesBalances ==
    ASSUME IInv, BInv, Clean, pc = "run", NEW result, NEW n \in Int, Leaves(result, n),
           UNCHANGED spare, HeldBy[Top] = EmbedBlocks(Top) + 1 - n, fails' \in Nat
    PROVE  BInv'
<1>1. stack # << >>
  BY DEF IInv, TopOK
<1>2. CASE FreeFaults(Top)
  <2>1. pc' = "crashed"
    BY <1>2 DEF Leaves, Stops
  <2> QED
    BY <2>1, SpoiltKeeps DEF Spoilt, Clean
<1>3. CASE ~FreeFaults(Top)
  <2>1. stack' = Front(stack) /\ blocks' = blocks + n - EmbedBlocks(Top) /\ pc' = "return"
    BY <1>3 DEF Leaves
  <2>2. /\ blocks \in Int /\ spare \in Int
        /\ blocks = spare + SumOver(HeldBy, stack) + 0
    BY RunBalanced DEF Balanced
  <2>3. /\ SumOver(HeldBy, stack') \in Int /\ HeldBy[Top] \in Nat
        /\ SumOver(HeldBy, stack) = SumOver(HeldBy, stack') + HeldBy[Top]
    BY <1>1, <2>1, FrontHolds
  <2>4. EmbedBlocks(Top) \in Nat
    BY <1>1, TopFrame, HeldType DEF FrameOK
  <2>5. /\ blocks' \in Int /\ spare' \in Int
        /\ blocks' = spare' + SumOver(HeldBy, stack') + 1
    BY <2>1, <2>2, <2>3, <2>4
  <2>6. One(pc' \in {"return", "returned"}) = 1 /\ pc' # "returned"
    BY <2>1 DEF One
  <2> QED
    BY <2>5, <2>6 DEF BInv, Balanced
<1> QED
  BY <1>2, <1>3

\* A call is made under the calls of the stack, which hold n blocks more.
LEMMA EntersBalances ==
    ASSUME IInv, BInv, Clean, pc \in {"idle", "run"}, NEW under \in Seq(Frame),
           NEW text \in Inputs \cup {<< >>}, NEW n \in Int, Enters(under, text, n),
           UNCHANGED spare, SumOver(HeldBy, under) = SumOver(HeldBy, stack) + n, fails' \in Nat
    PROVE  BInv'
<1> DEFINE f == NewFrame(text)
<1>1. f \in Frame
  BY NewFrameOK DEF FrameOK
<1>2. HeldBy[f] = 0
  <2>1. f.phase = "extract" /\ f.list = FALSE /\ f.array = FALSE /\ f.embeds = << >>
    BY DEF NewFrame
  <2>2. HeldBy[f] = EmbedBlocks(f)
    BY <1>1, <2>1, HeldWithout
  <2>3. {k \in DOMAIN f.embeds : f.embeds[k].field # NULL} = {}
    BY <2>1
  <2>4. EmbedBlocks(f) = 0
    BY <2>1, <2>3, FS_EmptySet DEF EmbedBlocks, One
  <2> QED
    BY <2>2, <2>4
<1> HIDE DEF f
<1>3. CASE Len(under) < StackLimit
  <2>1. stack' = Append(under, f) /\ blocks' = blocks + n /\ pc' = "run"
    BY <1>3 DEF Enters, f
  <2>2. /\ blocks \in Int /\ spare \in Int
        /\ blocks = spare + SumOver(HeldBy, stack) + 0
    BY RunBalanced DEF Balanced
  <2>3. SumOver(HeldBy, stack') = SumOver(HeldBy, under) + HeldBy[f]
    BY <1>1, <2>1, HeldType, SumOfAppend
  <2>4. SumOver(HeldBy, stack) \in Nat
    BY StackHolds DEF IInv, Waiting
  <2>5. /\ blocks' \in Int /\ spare' \in Int
        /\ blocks' = spare' + SumOver(HeldBy, stack') + 0
    BY <1>2, <2>1, <2>2, <2>3, <2>4
  <2>6. One(pc' \in {"return", "returned"}) = 0 /\ pc' # "returned"
    BY <2>1 DEF One
  <2> QED
    BY <2>5, <2>6 DEF BInv, Balanced
<1>4. CASE ~ (Len(under) < StackLimit)
  <2>1. pc' = "crashed"
    BY <1>4 DEF Enters, Stops
  <2> QED
    BY <2>1, SpoiltKeeps DEF Spoilt, Clean
<1> QED
  BY <1>3, <1>4

LEMMA CallBalances ==
    ASSUME IInv, BInv, Call
    PROVE  BInv'
<1>1. UNCHANGED fails /\ UNCHANGED spare /\ pc = "idle" /\ fails \in Nat
  BY DEF Call, Same, BInv
<1>2. stack = << >>
  BY <1>1 DEF IInv, TopOK
<1>3. CASE input = NULL
  <2>1. UNCHANGED stack /\ pc' = "returned" /\ ret' = Failed("MCFG_FMT_NULLPTR")
    BY <1>3 DEF Call
  <2>2. Clean' # TRUE
    BY <2>1 DEF Clean, Failed
  <2> QED
    BY <1>1, <1>2, <2>1, <2>2 DEF BInv
<1>4. CASE input # NULL
  <2>1. Enters(<< >>, input, 0)
    BY <1>4 DEF Call
  <2>2. input \in Inputs \cup {<< >>} /\ << >> \in Seq(Frame)
    BY <1>4 DEF IInv, Chosen
  <2>3. SumOver(HeldBy, << >>) = SumOver(HeldBy, stack) + 0
    <3>1. SumOver(HeldBy, << >>) = 0
      BY HeldType, SumOfEmpty
    <3> QED
      BY <1>2, <3>1
  <2>4. fails' \in Nat /\ Counts
    BY <1>1, StaysCounts DEF Counts
  <2>5. CASE Clean'
    <3>1. Clean
      BY <1>1, <2>4, <2>5, WasClean
    <3>2. 0 \in Int /\ pc \in {"idle", "run"}
      BY <1>1
    <3> QED
      BY <1>1, <2>1, <2>2, <2>3, <2>4, <3>1, <3>2, EntersBalances
  <2>6. CASE ~Clean'
    <3>1. pc' # "returned"
      BY <2>1 DEF Enters, Stops
    <3> QED
      BY <2>4, <2>6, <3>1, SpoiltKeeps DEF Spoilt
  <2> QED
    BY <2>5, <2>6
<1> QED
  BY <1>3, <1>4

LEMMA ExtractBalances ==
    ASSUME IInv, BInv, Extract
    PROVE  BInv'
<1>1. /\ UNCHANGED spare /\ pc = "run" /\ stack # << >> /\ FrameOK(Top) /\ Top.list = FALSE
      /\ Top.phase = "extract" /\ fails \in Nat
  BY RunningTop DEF Extract, Same, BInv
<1>2. Counts
  BY <1>1, StepCounts DEF Next
<1>3. fails' \in Nat
  BY <1>2 DEF Counts
<1>4. CASE Errs
  BY <1>3, <1>4, ErrsSpoil, SpoiltKeeps
<1>5. ASSUME NEW k \in 0 .. StepAllocs, Allocates(k, _extract_embeds(Top.input, 0).made),
             NEW f, Finds(f, _extract_embeds(Top.input, k))
      PROVE  BInv'
  <2> DEFINE x == _extract_embeds(Top.input, k)
  <2>1. /\ FrameOK(f) /\ f.list = FALSE /\ f.phase = "start" /\ f.embeds = x.embeds
        /\ f.array = x.array /\ Goes(f, x.blocks)
    BY <1>5 DEF Finds
  <2>2. CASE ~Clean'
    <3>1. pc' # "returned"
      BY <1>1, <2>1 DEF Goes
    <3> QED
      BY <1>3, <2>2, <3>1, SpoiltKeeps DEF Spoilt
  <2>3. CASE Clean'
    <3>1. Clean
      BY <1>1, <1>2, <2>3, WasClean
    <3>2. k = 0
      <4>1. k \in Nat
        BY FormatAssumption
      <4> QED
        BY <1>1, <1>5, <2>3, <4>1, AllocatesCounts DEF Clean
    <3>3. f \in Frame /\ Top \in Frame /\ Top.input \in Seq(Characters)
      BY <1>1, <2>1, FrameParts
    <3>4. EmbedBlocks(f) = x.blocks
      BY <2>1, <3>2, <3>3, FoundHeld
    <3> HIDE DEF x
    <3>5. HeldBy[f] = EmbedBlocks(f) /\ HeldBy[Top] = EmbedBlocks(Top)
      BY <1>1, <2>1, <3>3, HeldWithout
    <3>6. EmbedBlocks(Top) = 0
      <4>1. Top.embeds = << >> /\ Top.array = FALSE
        BY <1>1 DEF FrameOK, Phased
      <4>2. {i \in DOMAIN Top.embeds : Top.embeds[i].field # NULL} = {}
        BY <4>1
      <4> QED
        BY <4>1, <4>2, FS_EmptySet DEF EmbedBlocks, One
    <3>7. EmbedBlocks(f) \in Nat
      BY <3>3, HeldType
    <3>8. x.blocks \in Int /\ 0 \in Int /\ HeldBy[f] = HeldBy[Top] + x.blocks - 0
          /\ spare' = spare + 0
      <4>1. spare \in Int
        BY <1>1, <3>1, RunBalanced DEF Balanced
      <4> QED
        BY <1>1, <3>4, <3>5, <3>6, <3>7, <4>1
    <3> QED
      BY <1>1, <1>3, <2>1, <3>1, <3>3, <3>8, GoesBalances
  <2> QED
    BY <2>2, <2>3
<1> QED
  BY <1>4, <1>5, ExtractDoes

LEMMA StartBalances ==
    ASSUME IInv, BInv, Start
    PROVE  BInv'
<1>1. /\ UNCHANGED spare /\ pc = "run" /\ stack # << >> /\ FrameOK(Top) /\ Top.list = FALSE
      /\ Top.phase = "start" /\ fails \in Nat
  BY RunningTop DEF Start, Same, BInv
<1>2. Counts
  BY <1>1, StepCounts DEF Next
<1>3. fails' \in Nat
  BY <1>2 DEF Counts
<1>4. Top \in Frame /\ HeldBy[Top] = EmbedBlocks(Top) /\ EmbedBlocks(Top) \in Nat
  BY <1>1, HeldWithout, HeldType DEF FrameOK
<1>5. CASE Leaves(Failed("MCFG_FMT_MALLOC_FAIL"), 0)
  <2>1. Errs
    BY <1>5, FailedErrs
  <2> QED
    BY <1>3, <2>1, ErrsSpoil, SpoiltKeeps
<1>6. CASE Leaves(Copied, 1)
  <2>1. CASE ~Clean'
    <3>1. pc' # "returned"
      BY <1>1, <1>6 DEF Leaves, Stops
    <3> QED
      BY <1>3, <2>1, <3>1, SpoiltKeeps DEF Spoilt
  <2>2. CASE Clean'
    <3>1. Clean
      BY <1>1, <1>2, <2>2, WasClean
    <3>2. HeldBy[Top] = EmbedBlocks(Top) + 1 - 1
      BY <1>4
    <3> QED
      BY <1>1, <1>3, <1>6, <3>1, <3>2, LeavesBalances
  <2> QED
    BY <2>1, <2>2
<1>7. ASSUME NEW f, Begins(f)
      PROVE  BInv'
  <2>1. /\ f \in Frame /\ f.list = FALSE /\ f.phase = "copy" /\ f.embeds = Top.embeds
        /\ f.array = Top.array /\ Goes(f, 1)
    BY <1>7 DEF Begins, FrameOK
  <2>2. CASE ~Clean'
    <3>1. pc' # "returned"
      BY <1>1, <2>1 DEF Goes
    <3> QED
      BY <1>3, <2>2, <3>1, SpoiltKeeps DEF Spoilt
  <2>3. CASE Clean'
    <3>1. Clean
      BY <1>1, <1>2, <2>3, WasClean
    <3>2. HeldBy[f] = EmbedBlocks(f) + 1 + One(f.list)
      BY <2>1, HeldWith
    <3>3. EmbedBlocks(f) = EmbedBlocks(Top)
      BY <1>4, <2>1, SameEmbedsHeld
    <3>4. One(f.list) = 0
      BY <2>1 DEF One
    <3>5. HeldBy[f] = HeldBy[Top] + 1 - 0
      BY <1>4, <3>2, <3>3, <3>4
    <3>6. spare' = spare + 0
      <4>1. spare \in Int
        BY <1>1, <3>1, RunBalanced DEF Balanced
      <4> QED
        BY <1>1, <4>1
    <3> QED
      BY <1>1, <1>3, <2>1, <3>1, <3>5, <3>6, GoesBalances
  <2> QED
    BY <2>2, <2>3
<1> QED
  BY <1>5, <1>6, <1>7, StartDoes

\* A call with a buffer that goes on holds what it held, and m blocks are spare.
LEMMA WritesBalance ==
    ASSUME IInv, BInv, Counts, NEW phase \in {"copy", "look", "insert"}, Running(phase),
           NEW m, Writes(m), Clean' => m \in Int /\ spare' = spare + m
    PROVE  BInv'
<1>1. /\ pc = "run" /\ stack # << >> /\ FrameOK(Top) /\ Top.phase = phase
      /\ fails' \in Nat
  BY RunningTop DEF Counts
<1>2. PICK f : /\ FrameOK(f) /\ SameCall(f, Top) /\ f.phase \in {"copy", "look", "insert"}
               /\ Goes(f, m)
  BY DEF Writes
<1>3. CASE ~Clean'
  <2>1. pc' # "returned"
    BY <1>1, <1>2 DEF Goes
  <2> QED
    BY <1>1, <1>3, <2>1, SpoiltKeeps DEF Spoilt
<1>4. CASE Clean'
  <2>1. Clean
    BY <1>1, <1>4, WasClean
  <2>2. f \in Frame /\ Top \in Frame
    BY <1>1, <1>2 DEF FrameOK
  <2>3. /\ HeldBy[f] = EmbedBlocks(f) + 1 + One(f.list)
        /\ HeldBy[Top] = EmbedBlocks(Top) + 1 + One(Top.list)
    BY <1>1, <1>2, <2>2, HeldWith
  <2>4. EmbedBlocks(f) = EmbedBlocks(Top) /\ f.list = Top.list
    BY <1>2, <2>2, SameEmbedsHeld DEF SameCall
  <2>5. HeldBy[Top] \in Nat /\ m \in Int /\ spare' = spare + m
    BY <1>4, <2>2, HeldType
  <2>6. HeldBy[f] = HeldBy[Top]
    BY <2>3, <2>4
  <2>7. HeldBy[f] = HeldBy[Top] + m - m
    BY <2>5, <2>6
  <2> QED
    BY <1>1, <1>2, <2>1, <2>2, <2>5, <2>7, GoesBalances
<1> QED
  BY <1>3, <1>4

LEMMA CopyBalances ==
    ASSUME IInv, BInv, Copy
    PROVE  BInv'
<1>1. Running("copy") /\ UNCHANGED spare /\ fails \in Nat /\ pc = "run"
  BY DEF Copy, Same, BInv, Running
<1>2. Counts
  BY <1>1, StepCounts DEF Next
<1>3. CASE Errs
  BY <1>2, <1>3, ErrsSpoil, SpoiltKeeps DEF Counts
<1>4. CASE Writes(0)
  <2>1. Clean' => 0 \in Int /\ spare' = spare + 0
    BY <1>1, <1>2, WasClean, RunBalanced DEF Balanced
  <2> QED
    BY <1>1, <1>2, <1>4, <2>1, WritesBalance
<1> QED
  BY <1>3, <1>4, CopyDoes

LEMMA InsertValueBalances ==
    ASSUME IInv, BInv, InsertValue
    PROVE  BInv'
<1>1. Running("insert") /\ UNCHANGED spare /\ fails \in Nat /\ pc = "run"
  BY DEF InsertValue, Same, BInv, Running
<1>2. Counts
  BY <1>1, StepCounts DEF Next
<1>3. CASE Errs
  BY <1>2, <1>3, ErrsSpoil, SpoiltKeeps DEF Counts
<1>4. CASE Writes(0)
  <2>1. Clean' => 0 \in Int /\ spare' = spare + 0
    BY <1>1, <1>2, WasClean, RunBalanced DEF Balanced
  <2> QED
    BY <1>1, <1>2, <1>4, <2>1, WritesBalance
<1> QED
  BY <1>3, <1>4, InsertValueDoes

\* What a path leaves behind is spare.
LEMMA LookBalances ==
    ASSUME IInv, BInv, Look
    PROVE  BInv'
<1>1. /\ Running("look") /\ spare' = spare + Beyond(Embed.field) /\ fails \in Nat
      /\ pc = "run" /\ FrameOK(Top) /\ stack # << >> /\ Top.phase = "look"
  <2>1. Running("look") /\ spare' = spare + Beyond(Embed.field)
    BY DEF Look
  <2> QED
    BY <2>1, RunningTop DEF BInv
<1>2. Counts
  BY <1>1, StepCounts DEF Next
<1>3. CASE Errs
  BY <1>2, <1>3, ErrsSpoil, SpoiltKeeps DEF Counts
<1>4. ASSUME NEW k \in 0 .. StepAllocs, NEW made, Allocates(k, made),
             mcfg_parse_path(Embed.field, k).crash # TRUE,
             Writes(mcfg_parse_path(Embed.field, k).lost)
      PROVE  BInv'
  <2> DEFINE lost == mcfg_parse_path(Embed.field, k).lost
  <2>1. ASSUME Clean'
        PROVE  lost \in Int /\ spare' = spare + lost
    <3>1. k = 0
      <4>1. k \in Nat
        BY FormatAssumption
      <4> QED
        BY <1>1, <1>4, <2>1, <4>1, AllocatesCounts DEF Clean
    <3> DEFINE S == Characters \cup {"garbage"}
    <3>2. Embed.field = NULL \/ Embed.field \in Seq(S)
      <4>1. Embed \in Embeds
        BY <1>1, AtEmbed DEF FrameOK, Phased
      <4>2. Embed.field \in {NULL, <<"garbage">>} \cup Seq(Characters)
        BY <4>1 DEF Embeds
      <4>3. Seq(Characters) \subseteq Seq(S)
        BY SeqMonotonic
      <4>4. <<"garbage">> \in Seq(S)
        OBVIOUS
      <4> QED
        BY <4>2, <4>3, <4>4
    <3>3. mcfg_parse_path(Embed.field, 0).crash # TRUE
      BY <1>4, <3>1
    <3>4. lost = Beyond(Embed.field) /\ Beyond(Embed.field) \in Int
      BY <3>1, <3>2, <3>3, ParseLeaves
    <3> QED
      BY <1>1, <3>4
  <2>2. Writes(lost)
    BY <1>4
  <2> HIDE DEF lost
  <2> QED
    BY <1>1, <1>2, <2>1, <2>2, WritesBalance
<1> QED
  BY <1>3, <1>4, LookDoes

LEMMA InsertStringBalances ==
    ASSUME IInv, BInv, InsertString
    PROVE  BInv'
<1>1. /\ Running("insert") /\ UNCHANGED spare /\ UNCHANGED fails /\ fails \in Nat /\ pc = "run"
      /\ Type = "TYPE_STRING"
  BY DEF InsertString, Same, BInv, Running
<1>2. Counts /\ fails' \in Nat
  BY <1>1, StaysCounts DEF Counts
<1>3. CASE Data = NULL
  <2>1. pc' = "return" /\ ret' = Failed("MCFG_FMT_NULLPTR")
    BY <1>3 DEF InsertString
  <2> QED
    BY <1>2, <2>1, SpoiltKeeps DEF Spoilt, Clean, Failed
<1>4. CASE Data # NULL
  <2>1. Enters(stack, Data.text, 0)
    BY <1>4 DEF InsertString
  <2>2. CASE ~Clean'
    <3>1. pc' # "returned"
      BY <2>1 DEF Enters, Stops
    <3> QED
      BY <1>2, <2>2, <3>1, SpoiltKeeps DEF Spoilt
  <2>3. CASE Clean'
    <3>1. Clean
      BY <1>1, <1>2, <2>3, WasClean
    <3>2. Data.text \in Inputs \cup {<< >>}
      BY <1>1, <1>4, AtField DEF WellTyped, Type, Data
    <3>3. stack \in Seq(Frame) /\ 0 \in Int /\ pc \in {"idle", "run"}
      BY <1>1 DEF IInv, Waiting
    <3>4. SumOver(HeldBy, stack) = SumOver(HeldBy, stack) + 0
      BY <3>3, StackHolds
    <3> QED
      BY <1>1, <1>2, <2>1, <3>1, <3>2, <3>3, <3>4, EntersBalances
  <2> QED
    BY <2>2, <2>3
<1> QED
  BY <1>3, <1>4

LEMMA InsertListBalances ==
    ASSUME IInv, BInv, InsertList
    PROVE  BInv'
<1>1. /\ UNCHANGED spare /\ fails \in Nat /\ pc = "run" /\ stack # << >>
      /\ FrameOK(Top) /\ Top.list = FALSE /\ Top.phase = "insert"
  BY RunningTop DEF InsertList, Same, BInv
<1>2. Counts
  BY <1>1, StepCounts DEF Next
<1>3. fails' \in Nat
  BY <1>2 DEF Counts
<1>4. CASE Errs
  BY <1>3, <1>4, ErrsSpoil, SpoiltKeeps
<1>5. ASSUME NEW f, Lists(f), Enters([stack EXCEPT ![Depth] = f], << >>, 1)
      PROVE  BInv'
  <2> DEFINE under == [stack EXCEPT ![Depth] = f]
  <2>1. CASE ~Clean'
    <3>1. pc' # "returned"
      BY <1>5 DEF Enters, Stops
    <3> QED
      BY <1>3, <2>1, <3>1, SpoiltKeeps DEF Spoilt
  <2>2. CASE Clean'
    <3>1. Clean
      BY <1>1, <1>2, <2>2, WasClean
    <3>2. f \in Frame /\ Top \in Frame /\ f.list = TRUE /\ f.phase = "insert"
          /\ f.embeds = Top.embeds /\ f.array = Top.array
      BY <1>1, <1>5 DEF Lists, FrameOK
    <3>3. /\ HeldBy[f] = EmbedBlocks(f) + 1 + One(f.list)
          /\ HeldBy[Top] = EmbedBlocks(Top) + 1 + One(Top.list)
      BY <1>1, <3>2, HeldWith
    <3>4. EmbedBlocks(f) = EmbedBlocks(Top) /\ EmbedBlocks(Top) \in Nat
      BY <3>2, SameEmbedsHeld, HeldType
    <3>5. One(f.list) = 1 /\ One(Top.list) = 0
      BY <1>1, <3>2 DEF One
    <3>6. HeldBy[f] = HeldBy[Top] + 1 /\ HeldBy[Top] \in Nat
      BY <3>3, <3>4, <3>5
    <3>7. SumOver(HeldBy, under) = SumOver(HeldBy, stack) + HeldBy[f] - HeldBy[Top]
      BY <1>1, <3>2, ChangedHolds
    <3>8. stack \in Seq(Frame) /\ Depth \in 1 .. Len(stack)
      BY <1>1, TopFrame DEF IInv, Waiting
    <3>9. SumOver(HeldBy, stack) \in Nat
      BY <3>8, StackHolds
    <3>10. under \in Seq(Frame)
      BY <3>2, <3>8
    <3>11. Enters(under, << >>, 1)
      BY <1>5
    <3> HIDE DEF under
    <3>12. SumOver(HeldBy, under) = SumOver(HeldBy, stack) + 1
      BY <3>6, <3>7, <3>9
    <3>13. 1 \in Int /\ pc \in {"idle", "run"} /\ << >> \in Inputs \cup {<< >>}
      BY <1>1
    <3> QED
      BY <1>1, <1>3, <3>1, <3>10, <3>11, <3>12, <3>13, EntersBalances
  <2> QED
    BY <2>1, <2>2
<1> QED
  BY <1>4, <1>5, InsertListDoes

\* The text of the field goes, and that of a list.
LEMMA ReturnBalances ==
    ASSUME IInv, BInv, Return
    PROVE  BInv'
<1>1. UNCHANGED spare /\ fails \in Nat /\ pc = "return" /\ stack # << >>
  BY DEF Return, Same, BInv
<1>2. Counts
  BY <1>1, StepCounts DEF Next
<1>3. fails' \in Nat
  BY <1>2 DEF Counts
<1>4. CASE Errs
  BY <1>3, <1>4, ErrsSpoil, SpoiltKeeps
<1>5. ASSUME ret.err = "MCFG_FMT_OK", blocks' = blocks - Taken(Top), NEW f, GoesBack(f)
      PROVE  BInv'
  <2>1. /\ f \in Frame /\ f.list = FALSE /\ f.phase = "copy" /\ f.embeds = Top.embeds
        /\ f.array = Top.array /\ stack' = [stack EXCEPT ![Depth] = f] /\ pc' = "run"
    BY <1>5 DEF GoesBack, FrameOK
  <2>2. CASE ~Clean'
    BY <1>3, <2>1, <2>2, SpoiltKeeps DEF Spoilt
  <2>3. CASE Clean'
    <3>1. Clean
      BY <1>1, <1>2, <1>5, <2>3 DEF Clean, Counts
    <3>2. Balanced(stack, 1)
      <4>1. One(pc \in {"return", "returned"}) = 1
        BY <1>1 DEF One
      <4> QED
        BY <3>1, <4>1 DEF BInv
    <3>3. /\ blocks \in Int /\ spare \in Int
          /\ blocks = spare + SumOver(HeldBy, stack) + 1
      BY <3>2 DEF Balanced
    <3>4. Top \in Frame /\ Top.phase = "insert" /\ stack \in Seq(Frame)
      BY <1>1, TopFrame DEF FrameOK, IInv, TopOK, Waiting
    <3>5. /\ HeldBy[f] = EmbedBlocks(f) + 1 + One(f.list)
          /\ HeldBy[Top] = EmbedBlocks(Top) + 1 + One(Top.list)
      BY <2>1, <3>4, HeldWith
    <3>6. EmbedBlocks(f) = EmbedBlocks(Top) /\ EmbedBlocks(Top) \in Nat
      BY <2>1, <3>4, SameEmbedsHeld, HeldType
    <3>7. One(f.list) = 0 /\ One(Top.list) \in Nat
      BY <2>1, OneType DEF One
    <3>8. SumOver(HeldBy, stack') = SumOver(HeldBy, stack) + HeldBy[f] - HeldBy[Top]
      BY <1>1, <2>1, ChangedHolds
    <3>9. SumOver(HeldBy, stack) \in Nat
      BY <3>4, StackHolds
    <3>10. blocks' = blocks - (1 + One(Top.list))
      BY <1>5 DEF Taken
    <3>11. SumOver(HeldBy, stack') = SumOver(HeldBy, stack) - One(Top.list)
      BY <3>5, <3>6, <3>7, <3>8, <3>9
    <3>12. /\ blocks' \in Int /\ spare' \in Int
           /\ blocks' = spare' + SumOver(HeldBy, stack') + 0
      BY <1>1, <3>3, <3>7, <3>9, <3>10, <3>11
    <3>13. One(pc' \in {"return", "returned"}) = 0 /\ pc' # "returned"
      BY <2>1 DEF One
    <3> QED
      BY <1>3, <3>12, <3>13 DEF BInv, Balanced
  <2> QED
    BY <2>2, <2>3
<1> QED
  BY <1>4, <1>5, ReturnDoes

LEMMA FinishBalances ==
    ASSUME IInv, BInv, Finish
    PROVE  BInv'
<1>1. /\ UNCHANGED spare /\ pc = "run" /\ stack # << >> /\ FrameOK(Top) /\ Top.list = FALSE
      /\ Top.phase = "copy" /\ fails \in Nat
  BY RunningTop DEF Finish, Same, BInv
<1>2. Counts
  BY <1>1, StepCounts DEF Next
<1>3. fails' \in Nat
  BY <1>2 DEF Counts
<1>4. Leaves(Failed("MCFG_FMT_MALLOC_FAIL"), 0) \/ \E result : Leaves(result, 0)
  BY DEF Finish
<1>5. CASE Leaves(Failed("MCFG_FMT_MALLOC_FAIL"), 0)
  <2>1. Errs
    BY <1>5, FailedErrs
  <2> QED
    BY <1>3, <2>1, ErrsSpoil, SpoiltKeeps
<1>6. ASSUME NEW result, Leaves(result, 0)
      PROVE  BInv'
  <2>1. CASE ~Clean'
    <3>1. pc' # "returned"
      BY <1>1, <1>6 DEF Leaves, Stops
    <3> QED
      BY <1>3, <2>1, <3>1, SpoiltKeeps DEF Spoilt
  <2>2. CASE Clean'
    <3>1. Clean
      BY <1>1, <1>2, <2>2, WasClean
    <3>2. Top \in Frame /\ One(Top.list) = 0
      BY <1>1 DEF FrameOK, One
    <3>3. HeldBy[Top] = EmbedBlocks(Top) + 1 + One(Top.list) /\ EmbedBlocks(Top) \in Nat
      BY <1>1, <3>2, HeldWith, HeldType
    <3>4. 0 \in Int /\ HeldBy[Top] = EmbedBlocks(Top) + 1 - 0
      BY <3>2, <3>3
    <3> QED
      BY <1>1, <1>3, <1>6, <3>1, <3>4, LeavesBalances
  <2> QED
    BY <2>1, <2>2
<1> QED
  BY <1>4, <1>5, <1>6

LEMMA ReturnedBalances ==
    ASSUME IInv, BInv, Returned
    PROVE  BInv'
<1>1. /\ pc = "return" /\ stack = << >> /\ pc' = "returned"
      /\ UNCHANGED <<stack, ret, blocks, spare, fails>>
  BY DEF Returned
<1>2. Clean' => Clean
  BY <1>1 DEF Clean
<1>3. One(pc' \in {"return", "returned"}) = One(pc \in {"return", "returned"})
  BY <1>1 DEF One
<1> QED
  BY <1>1, <1>2, <1>3 DEF BInv, Balanced

LEMMA BalanceKept ==
    ASSUME IInv, BInv, [Next]_vars
    PROVE  BInv'
<1>1. CASE Call
  BY <1>1, CallBalances
<1>2. CASE Extract
  BY <1>2, ExtractBalances
<1>3. CASE Start
  BY <1>3, StartBalances
<1>4. CASE Copy
  BY <1>4, CopyBalances
<1>5. CASE Look
  BY <1>5, LookBalances
<1>6. CASE InsertValue
  BY <1>6, InsertValueBalances
<1>7. CASE InsertString
  BY <1>7, InsertStringBalances
<1>8. CASE InsertList
  BY <1>8, InsertListBalances
<1>9. CASE Return
  BY <1>9, ReturnBalances
<1>10. CASE Finish
  BY <1>10, FinishBalances
<1>11. CASE Returned
  BY <1>11, ReturnedBalances
<1>12. CASE Stopped \/ UNCHANGED vars
  BY <1>12 DEF Stopped, vars, BInv, Clean, Balanced
<1> QED
  BY <1>1, <1>2, <1>3, <1>4, <1>5, <1>6, <1>7, <1>8, <1>9, <1>10, <1>11, <1>12 DEF Next

LEMMA InitBalanced == Init => BInv
<1> SUFFICES ASSUME Init PROVE BInv
  OBVIOUS
<1>1. blocks = 0 /\ spare = 0 /\ stack = << >> /\ pc = "idle" /\ fails = 0
  BY DEF Init
<1>2. SumOver(HeldBy, << >>) = 0
  BY HeldType, SumOfEmpty
<1>3. One(pc \in {"return", "returned"}) = 0
  BY <1>1 DEF One
<1>4. blocks \in Int /\ spare \in Int /\ blocks = spare + SumOver(HeldBy, stack) + 0
  BY <1>1, <1>2
<1> QED
  BY <1>1, <1>3, <1>4 DEF BInv, Balanced

\* When no call fails, every block is freed again but the one that is returned
\* and the elements of paths behind the third (_free__embeds, and the calls of
\* free in _format).
THEOREM FreedWhenFormatted == Spec => []FreesWhatItTook
<1>1. Init => IInv /\ BInv
  BY InitHolds, InitBalanced
<1>2. IInv /\ BInv /\ [Next]_vars => IInv' /\ BInv'
  BY NextKeeps, BalanceKept
<1>3. BInv => FreesWhatItTook
  <2> SUFFICES ASSUME BInv, pc = "returned", ret.err = "MCFG_FMT_OK", fails = 0
               PROVE  blocks = 1 + spare
    BY DEF FreesWhatItTook
  <2>1. Clean /\ stack = << >>
    BY DEF Clean, BInv
  <2>2. One(pc \in {"return", "returned"}) = 1
    BY DEF One
  <2>3. spare \in Int /\ blocks = spare + SumOver(HeldBy, << >>) + 1
    BY <2>1, <2>2 DEF BInv, Balanced
  <2>4. SumOver(HeldBy, << >>) = 0
    BY HeldType, SumOfEmpty
  <2> QED
    BY <2>3, <2>4
<1> QED
  BY <1>1, <1>2, <1>3, PTL DEF Spec

-----------------------------------------------------------------------------
(* The crashes.                                                              *)

\* The embeds of a call when n allocations have failed: in order, or lost.
Tidy(frame, n) ==
    \/ Wiped(frame) /\ n > 0
    \/ /\ ~Wiped(frame)
       /\ \A l \in 1 .. Len(frame.embeds) : \A j \in 1 .. l - 1 :
             Apart(frame.embeds[j], frame.embeds[l])

AllTidy(s, n) == \A k \in 1 .. Len(s) : Tidy(s[k], n)

\* The calls on the stack are so.
CallsTidy == fails \in Nat /\ AllTidy(stack, fails)

\* There is room for a call for each text: it is recursion that ends the stack.
RoomForTexts == IsFiniteSet(Inputs) /\ Cardinality(Inputs) < StackLimit

\* The causes of a crash.
FieldsRecur == \E j, k \in DOMAIN stack : j # k /\ stack[j].input = stack[k].input
Skipped     == Top.phase = "copy" /\ Top.cpy_offs > Top.embeds[Top.ix - 1].src_end_pos
Cause ==
    \/ fails > 0 /\ (Wiped(Top) \/ Top.phase \in {"look", "insert"})
    \/ FieldsRecur
    \/ EscapeInside(Top.embeds)
    \/ Skipped
    \/ Top.phase = "insert" /\ Data = NULL
    \/ Tokens(Embed.field) = << <<"%">> >>

LEMMA CauseIs == CrashHasCause = (pc = "crashed" => Cause)
BY DEF CrashHasCause, Cause, FieldsRecur, Skipped, Wiped

LEMMA SameTidy ==
    ASSUME NEW f, NEW g, NEW n, f.embeds = g.embeds, Tidy(g, n)
    PROVE  Tidy(f, n)
BY DEF Tidy, Wiped

\* What was tidy is so when more allocations have failed.
LEMMA MoreFail ==
    ASSUME NEW n \in Nat, NEW m \in Nat, n <= m, NEW s, AllTidy(s, n)
    PROVE  AllTidy(s, m)
<1>1. n > 0 => m > 0
  OBVIOUS
<1> QED
  BY <1>1 DEF AllTidy, Tidy

\* What is found is tidy.
LEMMA FoundTidy ==
    ASSUME NEW text \in Seq(Characters), NEW k \in Nat, NEW n \in Nat, k # 0 => n > 0,
           NEW f, f.embeds = _extract_embeds(text, k).embeds
    PROVE  Tidy(f, n)
<1> DEFINE x == _extract_embeds(text, k)
<1>1. \/ Wiped(x)
      \/ \A l \in 1 .. Len(x.embeds) : \A j \in 1 .. l - 1 : Apart(x.embeds[j], x.embeds[l])
  BY EmbedsApart
<1>2. k = 0 => ~Wiped(x)
  <2> SUFFICES ASSUME k = 0 PROVE ~Wiped(x)
    OBVIOUS
  <2>1. ScanIn(x, Len(text)) /\ ScanClean(x)
    BY EmbedsIn, EmbedsClean
  <2> HIDE DEF x
  <2> QED
    BY <2>1, CleanIsWhole
<1>3. f.embeds = x.embeds
  OBVIOUS
<1> HIDE DEF x
<1> QED
  BY <1>1, <1>2, <1>3 DEF Tidy, Wiped

\* The calls stay tidy while they go on, return and are made.
LEMMA TopTidy ==
    ASSUME IInv, stack # << >>, NEW m, AllTidy(stack, m), NEW f \in Frame, Tidy(f, m),
           NEW s, s = [stack EXCEPT ![Depth] = f]
    PROVE  AllTidy(s, m) /\ s \in Seq(Frame) /\ Len(s) = Len(stack)
<1>1. Depth \in 1 .. Len(stack) /\ stack \in Seq(Frame)
  BY TopFrame DEF IInv, Waiting
<1>2. /\ s \in Seq(Frame) /\ Len(s) = Len(stack) /\ s[Depth] = f
      /\ \A k \in 1 .. Len(stack) : k # Depth => s[k] = stack[k]
  BY <1>1
<1> QED
  BY <1>2 DEF AllTidy

LEMMA LeavesTidy ==
    ASSUME IInv, stack # << >>, NEW m, AllTidy(stack, m),
           NEW result, NEW n, Leaves(result, n)
    PROVE  AllTidy(stack', m)
<1>1. CASE UNCHANGED stack
  BY <1>1 DEF AllTidy
<1>2. CASE stack' = Front(stack)
  <2>1. /\ Len(stack') = Depth - 1 /\ Depth \in 1 .. Len(stack) /\ Len(stack) = Depth
        /\ \A k \in 1 .. Depth - 1 : stack'[k] = stack[k]
    BY <1>2, FrontWaits, TopFrame
  <2>2. \A k \in 1 .. Depth - 1 : k \in 1 .. Len(stack)
    BY <2>1
  <2> QED
    BY <2>1, <2>2 DEF AllTidy
<1> QED
  BY <1>1, <1>2 DEF Leaves, Stops

LEMMA EntersTidy ==
    ASSUME IInv, NEW under \in Seq(Frame), NEW m, AllTidy(under, m), AllTidy(stack, m),
           NEW text \in Inputs \cup {<< >>}, NEW n, Enters(under, text, n)
    PROVE  AllTidy(stack', m)
<1> DEFINE f == NewFrame(text)
<1>1. f \in Frame /\ f.embeds = << >>
  BY NewFrameOK DEF FrameOK, NewFrame
<1>2. Tidy(f, m)
  <2>1. Range(<< >>) = {} /\ Len(<< >>) = 0
    BY DEF Range
  <2> QED
    BY <1>1, <2>1 DEF Tidy, Wiped
<1> HIDE DEF f
<1>3. CASE UNCHANGED stack
  BY <1>3 DEF AllTidy
<1>4. CASE stack' = Append(under, f)
  <2>1. /\ Len(stack') = Len(under) + 1 /\ stack'[Len(under) + 1] = f /\ Len(under) \in Nat
        /\ \A k \in 1 .. Len(under) : stack'[k] = under[k]
    BY <1>1, <1>4
  <2>2. \A k \in 1 .. Len(under) + 1 : k \in 1 .. Len(under) \/ k = Len(under) + 1
    BY <2>1
  <2> QED
    BY <1>2, <2>1, <2>2 DEF AllTidy
<1> QED
  BY <1>3, <1>4 DEF Enters, Stops, f

LEMMA ErrsTidy ==
    ASSUME IInv, stack # << >>, NEW m, AllTidy(stack, m), Errs
    PROVE  AllTidy(stack', m)
<1>1. CASE UNCHANGED stack
  BY <1>1 DEF AllTidy
<1> QED
  BY <1>1, LeavesTidy DEF Errs

\* The call on top goes on with the embeds it has.
LEMMA GoesTidy ==
    ASSUME IInv, stack # << >>, NEW m, AllTidy(stack, m),
           NEW f, FrameOK(f), f.embeds = Top.embeds,
           NEW s, s = [stack EXCEPT ![Depth] = f]
    PROVE  AllTidy(s, m) /\ s \in Seq(Frame) /\ Len(s) = Len(stack)
<1>1. Tidy(Top, m)
  BY TopFrame DEF AllTidy, Top
<1>2. Tidy(f, m) /\ f \in Frame
  BY <1>1, SameTidy DEF FrameOK
<1> QED
  BY <1>2, TopTidy

LEMMA WritesTidy ==
    ASSUME IInv, stack # << >>, NEW m, AllTidy(stack, m), NEW n, Writes(n)
    PROVE  AllTidy(stack', m)
<1>1. PICK f : FrameOK(f) /\ SameCall(f, Top) /\ Goes(f, n)
  BY DEF Writes
<1> QED
  BY <1>1, GoesTidy DEF SameCall, Goes

LEMMA TidyKept ==
    ASSUME IInv, CallsTidy, [Next]_vars, NEW m, m = fails'
    PROVE  AllTidy(stack', m)
<1>1. fails \in Nat /\ m \in Nat /\ AllTidy(stack, m)
  BY StepCounts, MoreFail DEF CallsTidy, Counts
<1>2. CASE UNCHANGED stack
  BY <1>1, <1>2 DEF AllTidy
<1>3. ASSUME NEW phase, Running(phase)
      PROVE  stack # << >> /\ stack \in Seq(Frame)
  BY <1>3, RunningTop DEF IInv, Waiting
<1>4. CASE Call
  <2>1. CASE input = NULL
    BY <1>2, <1>4, <2>1 DEF Call
  <2>2. CASE input # NULL
    <3>1. Enters(<< >>, input, 0)
      BY <1>4, <2>2 DEF Call
    <3>2. << >> \in Seq(Frame) /\ AllTidy(<< >>, m)
      BY DEF AllTidy
    <3>3. input \in Inputs \cup {<< >>}
      BY <2>2 DEF IInv, Chosen
    <3> QED
      BY <1>1, <3>1, <3>2, <3>3, EntersTidy
  <2> QED
    BY <2>1, <2>2
<1>5. CASE Extract
  <2>1. stack # << >> /\ FrameOK(Top)
    BY <1>5, RunningTop DEF Extract
  <2>2. ASSUME NEW k \in 0 .. StepAllocs,
               Allocates(k, _extract_embeds(Top.input, 0).made),
               NEW f, Finds(f, _extract_embeds(Top.input, k))
        PROVE  AllTidy(stack', m)
    <3>1. k \in Nat /\ (k # 0 => m > 0)
      <4>1. k \in Nat
        BY FormatAssumption
      <4> QED
        BY <1>1, <2>2, <4>1, AllocatesCounts
    <3>2. FrameOK(f) /\ f.embeds = _extract_embeds(Top.input, k).embeds
          /\ stack' = [stack EXCEPT ![Depth] = f]
      BY <2>2 DEF Finds, Goes
    <3>3. Top.input \in Seq(Characters)
      BY <2>1, FrameParts
    <3>4. Tidy(f, m) /\ f \in Frame
      BY <1>1, <3>1, <3>2, <3>3, FoundTidy DEF FrameOK
    <3> QED
      BY <1>1, <2>1, <3>2, <3>4, TopTidy
  <2> QED
    BY <1>1, <1>5, <2>1, <2>2, ErrsTidy, ExtractDoes
<1>6. CASE Start
  <2>1. stack # << >>
    BY <1>6, RunningTop DEF Start
  <2>2. ASSUME NEW f, Begins(f)
        PROVE  AllTidy(stack', m)
    <3>1. FrameOK(f) /\ f.embeds = Top.embeds /\ stack' = [stack EXCEPT ![Depth] = f]
      BY <2>2 DEF Begins, Goes
    <3> QED
      BY <1>1, <2>1, <3>1, GoesTidy
  <2> QED
    BY <1>1, <1>6, <2>1, <2>2, LeavesTidy, StartDoes
<1>7. CASE Copy
  <2>1. stack # << >>
    BY <1>7, RunningTop DEF Copy
  <2> QED
    BY <1>1, <1>7, <2>1, CopyDoes, ErrsTidy, WritesTidy
<1>8. CASE Look
  <2>1. stack # << >>
    BY <1>8, RunningTop DEF Look
  <2> QED
    BY <1>1, <1>8, <2>1, LookDoes, ErrsTidy, WritesTidy
<1>9. CASE InsertValue
  <2>1. stack # << >>
    BY <1>9, RunningTop DEF InsertValue
  <2> QED
    BY <1>1, <1>9, <2>1, InsertValueDoes, ErrsTidy, WritesTidy
<1>10. CASE InsertString
  <2>1. Running("insert") /\ Type = "TYPE_STRING" /\ stack \in Seq(Frame)
    BY <1>10 DEF InsertString, IInv, Waiting
  <2>2. CASE Data = NULL
    BY <1>2, <1>10, <2>2 DEF InsertString
  <2>3. CASE Data # NULL
    <3>1. Enters(stack, Data.text, 0)
      BY <1>10, <2>3 DEF InsertString
    <3>2. Data.text \in Inputs \cup {<< >>}
      BY <2>1, <2>3, AtField DEF WellTyped, Type, Data
    <3> QED
      BY <1>1, <2>1, <3>1, <3>2, EntersTidy
  <2> QED
    BY <2>2, <2>3
<1>11. CASE InsertList
  <2>1. stack # << >>
    BY <1>11, RunningTop DEF InsertList
  <2>2. ASSUME NEW f, Lists(f), Enters([stack EXCEPT ![Depth] = f], << >>, 1)
        PROVE  AllTidy(stack', m)
    <3>1. FrameOK(f) /\ f.embeds = Top.embeds
      BY <2>2 DEF Lists
    <3> DEFINE under == [stack EXCEPT ![Depth] = f]
    <3>2. Enters(under, << >>, 1)
      BY <2>2
    <3>3. AllTidy(under, m) /\ under \in Seq(Frame)
      BY <1>1, <2>1, <3>1, GoesTidy
    <3> HIDE DEF under
    <3>4. << >> \in Inputs \cup {<< >>}
      OBVIOUS
    <3> QED
      BY <1>1, <3>2, <3>3, <3>4, EntersTidy
  <2> QED
    BY <1>1, <1>11, <2>1, <2>2, ErrsTidy, InsertListDoes
<1>12. CASE Return
  <2>1. stack # << >>
    BY <1>12 DEF Return
  <2>2. ASSUME NEW f, GoesBack(f)
        PROVE  AllTidy(stack', m)
    <3>1. FrameOK(f) /\ f.embeds = Top.embeds /\ stack' = [stack EXCEPT ![Depth] = f]
      BY <2>2 DEF GoesBack
    <3> QED
      BY <1>1, <2>1, <3>1, GoesTidy
  <2> QED
    BY <1>1, <1>12, <2>1, <2>2, ErrsTidy, ReturnDoes
<1>13. CASE Finish
  <2>1. stack # << >>
    BY <1>13, RunningTop DEF Finish
  <2>2. \E result : Leaves(result, 0)
    BY <1>13 DEF Finish
  <2> QED
    BY <1>1, <2>1, <2>2, LeavesTidy
<1>14. CASE Returned \/ Stopped \/ UNCHANGED vars
  BY <1>2, <1>14 DEF Returned, Stopped, vars
<1> QED
  BY <1>4, <1>5, <1>6, <1>7, <1>8, <1>9, <1>10, <1>11, <1>12, <1>13, <1>14 DEF Next

\* A call that crashes when it frees its embeds has lost them before.
LEMMA LeavesCrash ==
    ASSUME IInv, CallsTidy, stack # << >>, NEW result, NEW n, Leaves(result, n),
           pc' = "crashed"
    PROVE  UNCHANGED stack /\ Cause
<1>1. Tidy(Top, fails)
  BY TopFrame DEF CallsTidy, AllTidy, Top
<1>2. FreeFaults(Top) /\ UNCHANGED stack
  BY DEF Leaves, Stops
<1>3. Wiped(Top)
  BY <1>2 DEF FreeFaults, Wiped
<1>4. fails > 0
  BY <1>1, <1>3 DEF Tidy
<1> QED
  BY <1>2, <1>3, <1>4 DEF Cause

\* Only a lone percent sign crashes the parser of paths, memory permitting.
LEMMA ParseCrashes ==
    ASSUME NEW S, NEW text, text = NULL \/ text \in Seq(S),
           mcfg_parse_path(text, 0).crash = TRUE
    PROVE  Tokens(text) = << <<"%">> >>
<1> DEFINE parsed == mcfg_parse_path(text, 0)
           n == Len(Tokens(text))
<1>1. \A path, lost : Parsed(path, lost).crash = FALSE
  BY DEF Parsed
<1>2. text # NULL /\ text # << >>
  <2>1. text = NULL \/ text = << >> => parsed = Parsed(NoPath, 0)
    <3>1. text = NULL => parsed = Parsed(NoPath, 0)
      BY DEF mcfg_parse_path
    <3>2. text = << >> => parsed = Parsed(NoPath, 0)
      BY DEF mcfg_parse_path
    <3> QED
      BY <3>1, <3>2
  <2> QED
    BY <1>1, <2>1
<1>3. Tokens(text) \in Seq(Seq(S)) /\ n \in Nat
  BY <1>2, TokensType
<1>4. parsed = LET elements == Tokens(text)
                   absolute == Head(text) = "/"
                   dynfield == n = 1 /\ ~absolute /\ IsDynfield(elements[1])
               IN  IF dynfield /\ (elements[1] = <<"%">> \/ 0 = 2 * n + 2)
                   THEN ParseCrash
                   ELSE Parsed(PathOf(elements, absolute), Max({0, n - 3}))
  <2>1. 0 \notin 2 .. 2 * n + 1 /\ 0 \notin 1 .. 2 * n + 1 /\ 0 # 1
    BY <1>3
  <2> HIDE DEF n
  <2> QED
    BY <1>2, <2>1 DEF mcfg_parse_path, parsed, n
<1>5. 0 # 2 * n + 2
  BY <1>3
<1> HIDE DEF parsed, n
<1>6. n = 1 /\ Tokens(text)[1] = <<"%">>
  BY <1>1, <1>4, <1>5 DEF parsed
<1> QED
  BY <1>3, <1>6 DEF n

\* A stack that has no room for another call holds a text twice.
LEMMA FullRecurs ==
    ASSUME RoomForTexts, IInv, Running("insert"), ~ (Len(stack) < StackLimit)
    PROVE  FieldsRecur
<1> DEFINE n == Len(stack)
           f == [k \in 1 .. n |-> stack[k].input]
<1>1. stack # << >> /\ Top.phase = "insert" /\ stack \in Seq(Frame)
  BY RunningTop DEF IInv, Waiting
<1>2. Depth \in 1 .. n /\ Depth = n /\ n \in Nat /\ DOMAIN stack = 1 .. n
  BY <1>1, TopFrame
<1>3. ASSUME NEW k \in 1 .. n
      PROVE  stack[k].input \in Inputs
  <2>1. FrameOK(stack[k])
    BY DEF IInv, Waiting
  <2>2. stack[k].phase = "insert"
    <3>1. CASE k = n
      BY <1>1, <1>2, <3>1 DEF Top
    <3>2. CASE k # n
      <4>1. k \in 1 .. Len(stack) - 1
        BY <1>2, <3>2
      <4> QED
        BY <4>1 DEF IInv, Waiting
    <3> QED
      BY <3>1, <3>2
  <2>3. stack[k].input \in Inputs \cup {<< >>}
    BY <2>1, FrameParts
  <2>4. stack[k].input # << >>
    BY <2>1, <2>2 DEF FrameOK, Phased
  <2> QED
    BY <2>3, <2>4
<1>4. f \in [1 .. n -> Inputs]
  BY <1>3
<1>5. IsFiniteSet(1 .. n) /\ Cardinality(1 .. n) = n
  <2> HIDE DEF n
  <2>1. 1 \in Int /\ n \in Int
    BY <1>2
  <2>2. /\ IsFiniteSet(1 .. n)
        /\ Cardinality(1 .. n) = IF 1 > n THEN 0 ELSE n - 1 + 1
    BY <2>1, FS_Interval
  <2> QED
    BY <1>2, <2>2
<1>6. IsFiniteSet(Inputs) /\ Cardinality(Inputs) < Cardinality(1 .. n)
  <2>1. IsFiniteSet(Inputs) /\ Cardinality(Inputs) < StackLimit
    BY DEF RoomForTexts
  <2>2. Cardinality(Inputs) \in Nat /\ StackLimit \in Nat
    BY <2>1, FS_CardinalityType, FormatAssumption
  <2>3. ~ (n < StackLimit)
    OBVIOUS
  <2> HIDE DEF n
  <2> QED
    BY <1>2, <1>5, <2>1, <2>2, <2>3
<1> HIDE DEF f
<1>7. PICK x \in 1 .. n, y \in 1 .. n : x # y /\ f[x] = f[y]
  BY <1>4, <1>5, <1>6, FS_PigeonHole
<1>8. stack[x].input = stack[y].input
  BY <1>7 DEF f
<1> QED
  BY <1>2, <1>7, <1>8 DEF FieldsRecur

\* There is a cause, or what the step could not allocate is one.
NowCause == Cause \/ (fails' > 0 /\ Top.phase \in {"look", "insert"})

\* What has been a cause before a step is one after it.
LEMMA CauseStays ==
    ASSUME fails \in Nat, Counts, UNCHANGED stack, NowCause
    PROVE  Cause'
<1> DEFINE Unready == Wiped(Top) \/ Top.phase \in {"look", "insert"}
           Others == \/ FieldsRecur \/ EscapeInside(Top.embeds) \/ Skipped
                     \/ Top.phase = "insert" /\ Data = NULL
                     \/ Tokens(Embed.field) = << <<"%">> >>
<1>1. Others' = Others /\ Unready' = Unready
  BY DEF FieldsRecur, Skipped, Top, Depth, Embed, Data, EscapeInside, Wiped
<1>2. fails > 0 => fails' > 0
  BY DEF Counts
<1>3. (fails' > 0 /\ Unready) \/ Others
  <2> HIDE DEF Others, Unready
  <2>1. CASE Cause
    BY <1>2, <2>1 DEF Cause, Others, Unready
  <2>2. CASE fails' > 0 /\ Top.phase \in {"look", "insert"}
    BY <2>2 DEF Unready
  <2> QED
    BY <2>1, <2>2 DEF NowCause
<1>4. (fails' > 0 /\ Unready') \/ Others'
  BY <1>1, <1>3
<1> QED
  BY <1>4 DEF Cause

\* A call whose embeds are tidy and that cannot copy the text in front of the
\* next one has found an escape in it, or has skipped text.
LEMMA CopyBack ==
    ASSUME IInv, Running("copy"), Top.ix <= Len(Top.embeds), ~Wiped(Top), Tidy(Top, fails),
           Embed.pos < Top.cpy_offs
    PROVE  EscapeInside(Top.embeds) \/ Skipped
<1>1. /\ stack # << >> /\ FrameOK(Top) /\ Top.phase = "copy" /\ Top.embeds \in Seq(Embeds)
      /\ Len(Top.embeds) \in Nat /\ Top.cpy_offs \in Nat
      /\ \A j \in 1 .. Len(Top.embeds) : Top.embeds[j].src_end_pos \in Nat
  BY RunningTop, FrameParts
<1>2. Top.ix \in 1 .. Len(Top.embeds) /\ Embed.pos \in Nat
  BY <1>1, AtEmbed
<1>3. PICK j \in 1 .. Len(Top.embeds) :
         Top.ix = j + 1 /\ Top.embeds[j].src_end_pos <= Top.cpy_offs
  <2>1. Top.cpy_offs # 0
    BY <1>1, <1>2
  <2> QED
    BY <1>1, <2>1 DEF FrameOK, Follows
<1>4. j \in 1 .. Top.ix - 1 /\ Top.ix - 1 = j
  BY <1>3
<1>5. CASE Top.embeds[j].src_end_pos < Top.cpy_offs
  BY <1>1, <1>4, <1>5 DEF Skipped
<1>6. CASE ~ (Top.embeds[j].src_end_pos < Top.cpy_offs)
  <2>1. Apart(Top.embeds[j], Embed)
    BY <1>2, <1>4 DEF Tidy, Embed
  <2>2. ~ (Top.embeds[j].src_end_pos <= Embed.pos)
    <3>1. Top.embeds[j].src_end_pos \in Nat /\ Top.cpy_offs \in Nat /\ Embed.pos \in Nat
      BY <1>1, <1>2
    <3>2. Top.embeds[j].src_end_pos = Top.cpy_offs
      BY <1>3, <1>6, <3>1
    <3> QED
      BY <3>1, <3>2
  <2>3. Inner(Top.embeds[j], Top.embeds[Top.ix])
    BY <2>1, <2>2 DEF Apart, Embed
  <2>4. j \in DOMAIN Top.embeds /\ Top.ix \in DOMAIN Top.embeds
    BY <1>1, <1>2
  <2> QED
    BY <2>3, <2>4 DEF Inner, EscapeInside
<1> QED
  BY <1>5, <1>6

\* The first call does not crash, and where another step that fails no
\* allocation does there is a cause, as there was before the step.
LEMMA CallCrash ==
    ASSUME RoomForTexts, IInv, Call, pc' = "crashed"
    PROVE  FALSE
<1>1. Enters(<< >>, input, 0)
  BY DEF Call
<1>2. Len(<< >>) = 0
  OBVIOUS
<1>3. 0 < StackLimit
  <2>1. IsFiniteSet(Inputs) /\ Cardinality(Inputs) < StackLimit
    BY DEF RoomForTexts
  <2>2. Cardinality(Inputs) \in Nat /\ StackLimit \in Nat
    BY <2>1, FS_CardinalityType, FormatAssumption
  <2> QED
    BY <2>1, <2>2
<1>4. pc' = "run"
  BY <1>1, <1>2, <1>3 DEF Enters
<1> QED
  BY <1>4

LEMMA CopyCrash ==
    ASSUME IInv, CallsTidy, Copy, pc' = "crashed"
    PROVE  UNCHANGED stack /\ Cause
<1>1. /\ Running("copy") /\ stack # << >> /\ Top.ix <= Len(Top.embeds) /\ pc = "run"
      /\ Top.embeds \in Seq(Embeds) /\ Top.cpy_offs \in Nat
  <2>1. Running("copy") /\ Top.ix <= Len(Top.embeds)
    BY DEF Copy
  <2> QED
    BY <2>1, RunningTop, FrameParts
<1>2. Embed.pos \in Nat /\ Top.ix \in DOMAIN Top.embeds
  BY <1>1, AtEmbed
<1>3. Tidy(Top, fails)
  BY <1>1, TopFrame DEF CallsTidy, AllTidy, Top
<1>4. ASSUME NEW f, NEW n, Goes(f, n)
      PROVE  FALSE
  BY <1>1, <1>4 DEF Goes
<1>5. CASE \E result, n : Leaves(result, n)
  BY <1>1, <1>5, LeavesCrash
<1>6. CASE Embed = Garbage /\ Stops("crashed")
  <2>1. Wiped(Top)
    BY <1>2, <1>6 DEF Wiped, Range, Embed
  <2>2. fails > 0
    BY <1>3, <2>1 DEF Tidy
  <2> QED
    BY <1>6, <2>1, <2>2 DEF Stops, Cause
<1>7. CASE Embed # Garbage /\ Embed.pos - Top.cpy_offs < 0 /\ Stops("crashed")
  <2>1. Embed.pos < Top.cpy_offs
    BY <1>1, <1>2, <1>7
  <2>2. CASE Wiped(Top)
    <3>1. fails > 0
      BY <1>3, <2>2 DEF Tidy
    <3> QED
      BY <1>7, <2>2, <3>1 DEF Stops, Cause
  <2>3. CASE ~Wiped(Top)
    BY <1>1, <1>3, <1>7, <2>1, <2>3, CopyBack DEF Stops, Cause
  <2> QED
    BY <2>2, <2>3
<1> QED
  BY <1>4, <1>5, <1>6, <1>7 DEF Copy

LEMMA LookCrash ==
    ASSUME IInv, fails \in Nat, Look, pc' = "crashed"
    PROVE  UNCHANGED stack /\ NowCause
<1>1. /\ Running("look") /\ stack # << >> /\ pc = "run" /\ Top.ix <= Len(Top.embeds)
      /\ Top.phase = "look"
  <2>1. Running("look")
    BY DEF Look
  <2> QED
    BY <2>1, RunningTop DEF FrameOK, Phased
<1>2. PICK k \in 0 .. StepAllocs :
         LET parsed == mcfg_parse_path(Embed.field, k)
             path   == _insert_path_elems(parsed.path, rel, k - ParseAllocs(Embed.field))
             field  == mcfg_get_field_by_path(file, path)
         IN  /\ Allocates(k, ParseAllocs(Embed.field) + Missing(parsed.path))
             /\ CASE parsed.crash -> Stops("crashed")
                  [] ~parsed.crash /\ field # << >> ->
                        Goes([Top EXCEPT !.field = field, !.phase = "insert"], parsed.lost)
                  [] ~parsed.crash /\ field = << >>
                     /\ Top.write_offs + Len(Nullptr) + 1 > Top.block -> Stops("overrun")
                  [] OTHER ->
                        Goes(NextEmbed([Put(Top, Nullptr) EXCEPT !.block = Top.block]),
                             parsed.lost)
  BY DEF Look
<1>3. k # 0 => fails' > 0
  <2>1. k \in Nat
    BY FormatAssumption
  <2>2. \E made : Allocates(k, made)
    BY <1>2
  <2> QED
    BY <2>1, <2>2, AllocatesCounts DEF Counts
<1>4. ASSUME NEW f, NEW n, Goes(f, n)
      PROVE  FALSE
  BY <1>1, <1>4 DEF Goes
<1>5. mcfg_parse_path(Embed.field, k).crash /\ Stops("crashed")
  <2>1. ~Stops("overrun")
    BY DEF Stops
  <2> QED
    BY <1>2, <1>4, <2>1
<1>6. CASE k # 0
  BY <1>1, <1>3, <1>5, <1>6 DEF Stops, NowCause
<1>7. CASE k = 0
  <2> DEFINE S == Characters \cup {"garbage"}
  <2>1. mcfg_parse_path(Embed.field, 0).crash = TRUE
    <3>1. \A path, lost : Parsed(path, lost).crash = FALSE /\ ParseCrash.crash = TRUE
      BY DEF Parsed, ParseCrash
    <3>2. mcfg_parse_path(Embed.field, 0).crash \in {TRUE, FALSE}
      BY <3>1 DEF mcfg_parse_path
    <3> QED
      BY <1>5, <1>7, <3>2
  <2>2. Embed.field = NULL \/ Embed.field \in Seq(S)
    <3>1. Embed \in Embeds
      BY <1>1, AtEmbed
    <3>2. Embed.field \in {NULL, <<"garbage">>} \cup Seq(Characters)
      BY <3>1 DEF Embeds
    <3>3. Seq(Characters) \subseteq Seq(S)
      BY SeqMonotonic
    <3>4. <<"garbage">> \in Seq(S)
      OBVIOUS
    <3> QED
      BY <3>2, <3>3, <3>4
  <2>3. Tokens(Embed.field) = << <<"%">> >>
    BY <2>1, <2>2, ParseCrashes
  <2> QED
    BY <1>5, <2>3 DEF Stops, Cause, NowCause
<1> QED
  BY <1>6, <1>7

LEMMA InsertValueCrash ==
    ASSUME IInv, CallsTidy, InsertValue, pc' = "crashed"
    PROVE  UNCHANGED stack /\ NowCause
<1>1. /\ Running("insert") /\ stack # << >> /\ pc = "run" /\ Top.phase = "insert"
  <2>1. Running("insert")
    BY DEF InsertValue
  <2> QED
    BY <2>1, RunningTop
<1>2. CASE Data = NULL
  <2>1. Stops("crashed")
    BY <1>2 DEF InsertValue
  <2> QED
    BY <1>1, <1>2, <2>1 DEF Stops, Cause, NowCause
<1>3. CASE Data # NULL
  <2> DEFINE text == Spelled(mcfg_data_to_string(Type, Data))
  <2>1. PICK k \in 0 .. 2 :
           /\ Allocates(k, 1 + One(AppendCheck(Top, Len(text))))
           /\ CASE k = 1 -> Stops("crashed")
                [] k = 2 -> Leaves(Failed("MCFG_FMT_MALLOC_FAIL"), 1)
                [] OTHER -> Goes(NextEmbed(Put(Top, text)), 0)
    BY <1>3 DEF InsertValue
  <2>2. k # 0 => fails' > 0
    <3>1. k \in Nat /\ fails \in Nat
      BY DEF CallsTidy
    <3>2. \E made : Allocates(k, made)
      BY <2>1
    <3> QED
      BY <3>1, <3>2, AllocatesCounts DEF Counts
  <2>3. CASE k = 0
    <3>1. Goes(NextEmbed(Put(Top, text)), 0)
      BY <2>1, <2>3
    <3> QED
      BY <1>1, <3>1 DEF Goes
  <2>4. CASE k = 1
    <3>1. Stops("crashed")
      BY <2>1, <2>4
    <3> QED
      BY <1>1, <2>2, <2>4, <3>1 DEF Stops, NowCause
  <2>5. CASE k = 2
    <3>1. Leaves(Failed("MCFG_FMT_MALLOC_FAIL"), 1)
      BY <2>1, <2>5
    <3> QED
      BY <1>1, <3>1, LeavesCrash DEF NowCause
  <2> QED
    BY <2>3, <2>4, <2>5
<1> QED
  BY <1>2, <1>3

LEMMA InsertStringCrash ==
    ASSUME RoomForTexts, IInv, InsertString, pc' = "crashed"
    PROVE  UNCHANGED stack /\ Cause
<1>1. Running("insert") /\ Data # NULL /\ Enters(stack, Data.text, 0)
  BY DEF InsertString
<1>2. ~ (Len(stack) < StackLimit) /\ UNCHANGED stack
  <2>1. Len(stack) < StackLimit => pc' = "run"
    BY <1>1 DEF Enters
  <2>2. ~ (Len(stack) < StackLimit)
    BY <2>1
  <2> QED
    BY <1>1, <2>2 DEF Enters, Stops
<1> QED
  BY <1>1, <1>2, FullRecurs DEF Cause

LEMMA InsertListCrash ==
    ASSUME RoomForTexts, IInv, CallsTidy, InsertList, pc' = "crashed"
    PROVE  UNCHANGED stack /\ NowCause
<1>1. /\ Running("insert") /\ stack # << >> /\ pc = "run" /\ Top.phase = "insert"
      /\ stack \in Seq(Frame)
  <2>1. Running("insert")
    BY DEF InsertList
  <2> QED
    BY <2>1, RunningTop DEF IInv, Waiting
<1> DEFINE under == [stack EXCEPT ![Depth].cpy_offs = NextSpace,
                                  ![Depth].write_offs = @ - PrefixLength,
                                  ![Depth].list = TRUE]
<1>2. Len(under) = Len(stack)
  BY <1>1
<1> HIDE DEF under
<1>3. PICK k \in 0 .. 3 :
         LET list == mcfg_format_list(Data.elems, k = 0)
         IN  /\ Allocates(k, 3)
             /\ CASE k \in {1, 2} -> Leaves(Failed("MCFG_FMT_NULLPTR"), k - 1)
                  [] k \in {0, 3} /\ Data = NULL -> k = 0 /\ Stops("crashed")
                  [] k \in {0, 3} /\ Data # NULL /\ list.crash -> Stops("crashed")
                  [] k \in {0, 3} /\ Data # NULL /\ ~list.crash /\ list.text = NULL ->
                        Leaves(Failed("MCFG_FMT_NULLPTR"), list.lost)
                  [] OTHER -> Enters(under, list.text, 1)
  BY DEF InsertList, under
<1>4. k # 0 => fails' > 0
  <2>1. k \in Nat /\ fails \in Nat
    BY DEF CallsTidy
  <2>2. \E made : Allocates(k, made)
    BY <1>3
  <2> QED
    BY <2>1, <2>2, AllocatesCounts DEF Counts
<1>5. ASSUME NEW text, Enters(under, text, 1)
      PROVE  UNCHANGED stack /\ Cause
  <2>1. Len(under) < StackLimit => pc' = "run"
    BY <1>5 DEF Enters
  <2>2. ~ (Len(under) < StackLimit)
    BY <2>1
  <2> QED
    BY <1>1, <1>2, <1>5, <2>2, FullRecurs DEF Enters, Stops, Cause
<1>6. CASE \E result, n : Leaves(result, n)
  BY <1>1, <1>6, LeavesCrash DEF NowCause
<1>7. CASE k # 0 /\ Stops("crashed")
  BY <1>1, <1>4, <1>7 DEF Stops, NowCause
<1>8. CASE Data = NULL /\ Stops("crashed")
  BY <1>1, <1>8 DEF Stops, Cause, NowCause
<1>9. CASE \E text : Enters(under, text, 1)
  BY <1>5, <1>9 DEF NowCause
<1>10. k = 0 => mcfg_format_list(Data.elems, k = 0).crash = FALSE
  BY DEF mcfg_format_list
<1>11. \/ \E result, n : Leaves(result, n)
       \/ k # 0 /\ Stops("crashed")
       \/ Data = NULL /\ Stops("crashed")
       \/ \E text : Enters(under, text, 1)
  <2> DEFINE list == mcfg_format_list(Data.elems, k = 0)
  <2>1. k = 0 => list.crash = FALSE
    BY <1>10
  <2>2. (CASE k \in {1, 2} -> Leaves(Failed("MCFG_FMT_NULLPTR"), k - 1)
           [] k \in {0, 3} /\ Data = NULL -> k = 0 /\ Stops("crashed")
           [] k \in {0, 3} /\ Data # NULL /\ list.crash -> Stops("crashed")
           [] k \in {0, 3} /\ Data # NULL /\ ~list.crash /\ list.text = NULL ->
                 Leaves(Failed("MCFG_FMT_NULLPTR"), list.lost)
           [] OTHER -> Enters(under, list.text, 1))
    BY <1>3
  <2> HIDE DEF list
  <2> QED
    BY <2>1, <2>2
<1> QED
  BY <1>6, <1>7, <1>8, <1>9, <1>11

\* The other steps of a call crash only when they free its embeds.
LEMMA PlainStep ==
    ASSUME IInv, CallsTidy, pc' = "crashed", Extract \/ Start \/ Return \/ Finish
    PROVE  UNCHANGED stack /\ Cause
<1>1. stack # << >> /\ pc # "crashed"
  <2>1. ASSUME NEW phase, Running(phase)
        PROVE  stack # << >> /\ pc # "crashed"
    BY <2>1, RunningTop
  <2>2. CASE Extract
    BY <2>1, <2>2 DEF Extract
  <2>3. CASE Start
    BY <2>1, <2>3 DEF Start
  <2>4. CASE Return
    BY <2>4 DEF Return
  <2>5. CASE Finish
    BY <2>1, <2>5 DEF Finish
  <2> QED
    BY <2>2, <2>3, <2>4, <2>5
<1>2. ASSUME NEW result, NEW n, Leaves(result, n)
      PROVE  UNCHANGED stack /\ Cause
  BY <1>1, <1>2, LeavesCrash
<1>3. ASSUME NEW f, NEW n, Goes(f, n)
      PROVE  FALSE
  BY <1>1, <1>3 DEF Goes
<1>4. CASE Extract
  <2>1. \E result, n : Goes(result, n) \/ Leaves(result, n)
    BY <1>4 DEF Extract
  <2> QED
    BY <1>2, <1>3, <2>1
<1>5. CASE Start
  <2>1. (\E result, n : Leaves(result, n)) \/ \E f : Begins(f)
    BY <1>5, StartDoes
  <2>2. ASSUME NEW f, Begins(f)
        PROVE  Goes(f, 1)
    BY <2>2 DEF Begins
  <2> QED
    BY <1>2, <1>3, <2>1, <2>2
<1>6. CASE Return
  <2>1. (\E result, n : Leaves(result, n)) \/ pc' = "run"
    <3> DEFINE n == Len(ret.formatted)
               frame == [NextEmbed(Put(Top, ret.formatted)) EXCEPT !.list = FALSE]
    <3>1. CASE ret.err # "MCFG_FMT_OK"
      BY <1>6, <3>1 DEF Return
    <3>2. CASE ret.err = "MCFG_FMT_OK" /\ Top.write_offs + n < 0
      BY <1>6, <3>2 DEF Return
    <3>3. CASE ret.err = "MCFG_FMT_OK" /\ ~ (Top.write_offs + n < 0)
      BY <1>6, <3>3 DEF Return
    <3> QED
      BY <3>1, <3>2, <3>3
  <2> QED
    BY <1>2, <2>1
<1>7. CASE Finish
  <2>1. \E result : Leaves(result, 0)
    BY <1>7 DEF Finish
  <2> QED
    BY <1>2, <2>1
<1> QED
  BY <1>4, <1>5, <1>6, <1>7

LEMMA CrashesCaused ==
    ASSUME RoomForTexts, IInv, CallsTidy, CrashHasCause, [Next]_vars
    PROVE  CrashHasCause'
<1>1. SUFFICES ASSUME pc' = "crashed"
               PROVE  Cause'
  BY DEF CrashHasCause, Cause, FieldsRecur, Skipped, Wiped
<1>2. Counts /\ fails \in Nat
  BY StepCounts DEF CallsTidy
<1>3. UNCHANGED stack /\ NowCause
  <2>1. CASE Call
    BY <1>1, <2>1, CallCrash
  <2>2. CASE Extract \/ Start \/ Return \/ Finish
    BY <1>1, <2>2, PlainStep DEF NowCause
  <2>3. CASE Copy
    BY <1>1, <2>3, CopyCrash DEF NowCause
  <2>4. CASE Look
    BY <1>1, <1>2, <2>4, LookCrash
  <2>5. CASE InsertValue
    BY <1>1, <2>5, InsertValueCrash
  <2>6. CASE InsertString
    BY <1>1, <2>6, InsertStringCrash DEF NowCause
  <2>7. CASE InsertList
    BY <1>1, <2>7, InsertListCrash
  <2>8. CASE Returned
    BY <1>1, <2>8 DEF Returned
  <2>9. CASE Stopped \/ UNCHANGED vars
    BY <1>1, <2>9, CauseIs DEF Stopped, vars, NowCause
  <2> QED
    BY <2>1, <2>2, <2>3, <2>4, <2>5, <2>6, <2>7, <2>8, <2>9 DEF Next
<1> QED
  BY <1>2, <1>3, CauseStays

\* As long as the stack has room for a call for each of the texts, so that
\* only fields that embed one another end it, the program crashes for one of
\* the seven reasons only (the steps of _format, and of _free__embeds behind
\* them): behind an allocation that has failed a call goes on with embeds that
\* nobody has initialised, or uses at once what it could not allocate, and in
\* no other way; it frees what is there to free, and copies no text backwards
\* but behind an escape or a list.
THEOREM CrashesHaveACause == ASSUME RoomForTexts PROVE Spec => []CrashHasCause
<1>1. Init => IInv /\ CallsTidy /\ CrashHasCause
  <2> SUFFICES ASSUME Init PROVE CallsTidy /\ CrashHasCause
    BY InitHolds
  <2>1. stack = << >> /\ pc = "idle" /\ fails = 0 /\ Len(<< >>) = 0
    BY DEF Init
  <2> QED
    BY <2>1 DEF CallsTidy, AllTidy, CrashHasCause
<1>2. IInv /\ CallsTidy /\ CrashHasCause /\ [Next]_vars
        => (IInv /\ CallsTidy /\ CrashHasCause)'
  <2> SUFFICES ASSUME IInv, CallsTidy, CrashHasCause, [Next]_vars
               PROVE  IInv' /\ CallsTidy' /\ CrashHasCause'
    OBVIOUS
  <2>1. IInv'
    BY NextKeeps
  <2>2. Counts
    BY StepCounts DEF CallsTidy
  <2>3. PICK m : m = fails'
    OBVIOUS
  <2>4. AllTidy(stack', m)
    BY <2>3, TidyKept
  <2>5. CallsTidy'
    BY <2>2, <2>3, <2>4 DEF CallsTidy, Counts, AllTidy, Tidy, Wiped, Apart, Inner
  <2>6. CrashHasCause'
    BY CrashesCaused
  <2> QED
    BY <2>1, <2>5, <2>6
<1> QED
  BY <1>1, <1>2, PTL DEF Spec
=============================================================================
