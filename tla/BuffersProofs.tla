--------------------------- MODULE BuffersProofs ---------------------------
(* The strings of Buffers fit their blocks, keep their text and lose their   *)
(* owner only to an allocation that fails, for any number of strings,        *)
(* alignment and sequence of calls.                                          *)
EXTENDS Buffers, CommonTheorems

\* The code gives every string one byte more than its capacity says.
Block == {a \in StringBlock : StringOK(a) /\ a.block = a.capacity + 1}

-----------------------------------------------------------------------------
(* The functions of mcfg_string_t.                                           *)

\* A new string fits its block.
LEMMA NewFits ==
    ASSUME NEW size \in Nat
    PROVE  mcfg_string_new_sized(size) \in Block
BY DEF Block, StringOK, StringBlock, Fits, mcfg_string_new_sized

\* A new string fits its block.
LEMMA InitialFits ==
    ASSUME NEW text \in Seq(Chars)
    PROVE  mcfg_string_new(text, Len(text)) \in Block
BY DEF Block, StringOK, StringBlock, Fits, mcfg_string_new

\* string_resize makes room for the new length, its NUL and one byte more.
LEMMA ResizeFits ==
    ASSUME NEW a \in StringBlock, NEW n \in Nat, NEW b, b = string_resize(a, n)
    PROVE  /\ b \in StringBlock /\ b.capacity \in Nat
           /\ b.text = a.text /\ b.length = a.length
           /\ b.capacity >= n + 2 /\ b.block = b.capacity + 1
<1> DEFINE size == n + 1 + Alignment
           amount == size - (size % Alignment)
<1>1. size \in Nat /\ Alignment \in Nat /\ Alignment > 0
  BY AlignmentAssumption
<1>2. size % Alignment \in 0 .. (Alignment - 1)
  BY <1>1
<1>3. amount \in Nat /\ amount + 1 \in Nat /\ amount >= n + 2
  BY <1>1, <1>2
<1>4. PICK m \in Nat, k \in Nat :
        m >= n + 2 /\ k = m + 1 /\ b = [a EXCEPT !.capacity = m, !.block = k]
  BY <1>3 DEF string_resize
<1>5. b \in StringBlock
  BY <1>4 DEF StringBlock
<1>6. b.text = a.text /\ b.length = a.length
  BY <1>4 DEF StringBlock
<1>7. b.capacity = m /\ b.block = k
  BY <1>4 DEF StringBlock
<1> QED
  BY <1>4, <1>5, <1>6, <1>7

\* Appending keeps the text that is there, and the result fits its block.
LEMMA AppendFits ==
    ASSUME NEW a \in Block, NEW b \in Seq(Chars)
    PROVE  /\ string_append(a, b, Len(b)) \in Block
           /\ string_append(a, b, Len(b)).text = a.text \o b
<1> DEFINE room == IF Grows(a, Len(b)) THEN string_resize(a, a.length + Len(b)) ELSE a
           c    == string_append(a, b, Len(b))
<1>1. /\ a \in StringBlock /\ a.text \in Seq(Chars) /\ Len(b) \in Nat
      /\ a.length \in Nat /\ a.capacity \in Nat /\ a.block \in Nat
      /\ a.length = Len(a.text) /\ a.block = a.capacity + 1
  BY DEF Block, StringBlock, StringOK
<1>2. /\ room \in StringBlock /\ room.text = a.text /\ room.length = a.length
      /\ a.length + Len(b) + 1 <= room.capacity /\ room.block = room.capacity + 1
      /\ room.capacity \in Nat
  <2>1. CASE Grows(a, Len(b))
    <3>1. PICK n \in Nat : n = a.length + Len(b)
      BY <1>1
    <3>2. room = string_resize(a, n)
      BY <2>1, <3>1
    <3> HIDE DEF room
    <3>3. /\ room \in StringBlock /\ room.capacity \in Nat
          /\ room.text = a.text /\ room.length = a.length
          /\ room.capacity >= n + 2 /\ room.block = room.capacity + 1
      BY <1>1, <3>1, <3>2, ResizeFits
    <3> QED
      BY <1>1, <3>1, <3>3
  <2>2. CASE ~Grows(a, Len(b))
    BY <1>1, <2>2 DEF Grows
  <2> QED
    BY <2>1, <2>2
<1>3. c = [room EXCEPT !.text = room.text \o b, !.length = room.length + Len(b)]
  BY DEF string_append
<1> HIDE DEF room, c
<1>4. PICK n \in Nat, text \in Seq(Chars) :
        n = room.length + Len(b) /\ n = Len(text) /\ text = room.text \o b
  <2>1. a.text \o b \in Seq(Chars) /\ Len(a.text \o b) = Len(a.text) + Len(b)
    BY <1>1
  <2>2. Len(a.text) + Len(b) \in Nat
    BY <1>1
  <2> QED
    BY <1>1, <1>2, <2>1, <2>2
<1>5. c = [room EXCEPT !.text = text, !.length = n]
  BY <1>3, <1>4
<1>6. c \in StringBlock
  BY <1>2, <1>5 DEF StringBlock
<1>7. c.text = text /\ c.length = n
  BY <1>2, <1>5 DEF StringBlock
<1>8. c.capacity = room.capacity /\ c.block = room.block
  BY <1>2, <1>5 DEF StringBlock
<1>9. c \in Block
  BY <1>1, <1>2, <1>4, <1>6, <1>7, <1>8 DEF Block, StringOK, Fits
<1> QED
  BY <1>2, <1>4, <1>7, <1>9 DEF c

-----------------------------------------------------------------------------
(* The invariant: blocks are strings that fit, and no two variables hold one. *)

Holds(h) == held[h] # NULL

IInv ==
    /\ heap \in Seq(Block \cup {NULL})
    /\ held \in [Holders -> (1 .. Len(heap)) \cup {NULL}]
    /\ \A h \in Holders : Holds(h) => heap[held[h]] # NULL
    /\ \A g, h \in Holders : Holds(g) /\ held[g] = held[h] => g = h

\* What becomes of a text: nothing, it is longer by a source, or it is doubled.
KeptIn(h) ==
    LET text == heap[held[h]].text
        now  == heap'[held'[h]].text
    IN  \/ now = text
        \/ \E s \in Sources : now = text \o s
        \/ Doubled(h)

Kept == \A h \in Holders : held[h] # NULL /\ held'[h] # NULL => KeptIn(h)

\* A text that has not moved, or not changed, is kept.
LEMMA SameKept ==
    ASSUME NEW h \in Holders, heap'[held'[h]].text = heap[held[h]].text
    PROVE  KeptIn(h)
BY DEF KeptIn

\* The null pointer is neither a block nor the address of one.
LEMMA NullIsNoBlock == NULL \notin Block /\ NULL \notin Nat
BY BuffersAssumption DEF Block

\* What a variable holds.
LEMMA HeldBlock ==
    ASSUME IInv, NEW h \in Holders, held[h] # NULL
    PROVE  /\ held[h] \in 1 .. Len(heap) /\ heap[held[h]] \in Block
           /\ heap[held[h]].text \in Seq(Chars)
           /\ heap[held[h]].length = Len(heap[held[h]].text)
<1>1. held[h] \in 1 .. Len(heap)
  BY DEF IInv
<1>2. heap[held[h]] \in Block \cup {NULL}
  BY <1>1, ElementOfSeq DEF IInv
<1>3. heap[held[h]] \in Block
  BY <1>2 DEF IInv, Holds
<1> QED
  BY <1>1, <1>3 DEF Block, StringBlock, StringOK

\* A text is a prefix of itself, and of itself with another one behind it.
LEMMA PrefixOfConcat ==
    ASSUME NEW s \in Seq(Chars), NEW t \in Seq(Chars)
    PROVE  SubSeq(s \o t, 1, Len(s)) = s
<1>1. /\ s \o t \in Seq(Chars) /\ Len(s) \in Nat /\ Len(t) \in Nat
      /\ \A i \in 1 .. Len(s) + Len(t) : (s \o t)[i] = IF i <= Len(s) THEN s[i] ELSE t[i - Len(s)]
  BY ConcatProperties, LenProperties
<1>2. \A i \in 1 .. Len(s) : (s \o t)[i] = s[i] /\ s[i] \in Chars
  BY <1>1, ElementOfSeq
<1>3. /\ SubSeq(s \o t, 1, Len(s)) \in Seq(Chars)
      /\ Len(SubSeq(s \o t, 1, Len(s))) = Len(s)
      /\ \A i \in 1 .. Len(s) : SubSeq(s \o t, 1, Len(s))[i] = (s \o t)[i]
  BY <1>1, <1>2, SubSeqProperties
<1> QED
  BY <1>2, <1>3, SeqEqual

\* Nothing changes but that a variable may give up its string.
LEMMA Unchanged ==
    ASSUME IInv, heap' = heap,
           held' = held \/ \E x \in Holders : held' = [held EXCEPT ![x] = NULL]
    PROVE  IInv' /\ Kept
<1>1. \A h \in Holders : held'[h] = held[h] \/ held'[h] = NULL
  BY DEF IInv
<1>2. held' \in [Holders -> (1 .. Len(heap')) \cup {NULL}]
  BY DEF IInv
<1>3. IInv'
  BY <1>1, <1>2 DEF IInv, Holds
<1>4. Kept
  BY <1>1, SameKept DEF Kept
<1> QED
  BY <1>3, <1>4

\* A string is appended to where it is.
LEMMA InPlaceStep ==
    ASSUME IInv, NEW h \in Holders, held[h] # NULL, NEW text \in Seq(Chars),
           text \in Sources, InPlace(h, text, Len(text))
    PROVE  IInv' /\ Kept
<1> DEFINE p == held[h]
           a == heap[p]
           c == string_append(a, text, Len(text))
<1>1. p \in 1 .. Len(heap) /\ a \in Block /\ a.text \in Seq(Chars)
  BY HeldBlock
<1>2. c \in Block /\ c.text = a.text \o text
  BY <1>1, AppendFits
<1>3. heap' = [heap EXCEPT ![p] = c] /\ held' = held
  BY <1>1, LenProperties DEF InPlace, IInv
<1> HIDE DEF c
<1>4. /\ heap' \in Seq(Block \cup {NULL}) /\ Len(heap') = Len(heap)
      /\ \A q \in 1 .. Len(heap) : heap'[q] = IF q = p THEN c ELSE heap[q]
  BY <1>1, <1>2, <1>3, ExceptSeq DEF IInv
<1>5. IInv'
  BY <1>1, <1>2, <1>3, <1>4, NullIsNoBlock DEF IInv, Holds
<1>6. ASSUME NEW g \in Holders, held[g] # NULL, held'[g] # NULL
      PROVE  KeptIn(g)
  <2>1. held[g] \in 1 .. Len(heap)
    BY <1>6, HeldBlock
  <2>2. CASE held[g] = p
    <3>1. heap'[held'[g]].text = heap[held[g]].text \o text
      BY <1>1, <1>2, <1>3, <1>4, <2>2
    <3> QED
      BY <3>1 DEF KeptIn
  <2>3. CASE held[g] # p
    BY <1>3, <1>4, <2>1, <2>3, SameKept
  <2> QED
    BY <2>2, <2>3
<1> QED
  BY <1>5, <1>6 DEF Kept

\* A string is appended to in a block of its own.
LEMMA MovedStep ==
    ASSUME IInv, NEW h \in Holders, held[h] # NULL, NEW text \in Seq(Chars),
           text \in Sources \/ Len(text) = Len(heap[held[h]].text),
           Moved(h, text, Len(text))
    PROVE  IInv' /\ Kept
<1> DEFINE p == held[h]
           n == Len(heap) + 1
           a == heap[p]
           c == string_append(a, text, Len(text))
           old == [heap EXCEPT ![p] = NULL]
<1>1. p \in 1 .. Len(heap) /\ a \in Block /\ a.text \in Seq(Chars)
  BY HeldBlock
<1>2. c \in Block /\ c.text = a.text \o text
  BY <1>1, AppendFits
<1>3. heap' = Append(old, c) /\ held' = [held EXCEPT ![h] = n]
  BY DEF Moved
<1> HIDE DEF c
<1>4. /\ old \in Seq(Block \cup {NULL}) /\ Len(old) = Len(heap) /\ Len(heap) \in Nat
      /\ \A q \in 1 .. Len(heap) : old[q] = IF q = p THEN NULL ELSE heap[q]
  BY <1>1, ExceptSeq, LenProperties DEF IInv
<1> HIDE DEF old
<1>5. /\ heap' \in Seq(Block \cup {NULL}) /\ Len(heap') = n /\ heap'[n] = c
      /\ \A q \in 1 .. Len(heap) : heap'[q] = old[q]
  BY <1>2, <1>3, <1>4
<1>6. held' \in [Holders -> (1 .. n) \cup {NULL}] /\ held'[h] = n
      /\ \A g \in Holders \ {h} : held'[g] = held[g]
  BY <1>3, <1>4 DEF IInv
<1>7. \A g \in Holders \ {h} :
        held[g] # NULL => held[g] \in 1 .. Len(heap) /\ held[g] # p /\ held[g] # n
  BY <1>1, <1>4, HeldBlock DEF IInv, Holds
<1>8. n # NULL
  BY <1>4, NullIsNoBlock
<1>9. IInv'
  <2>1. \A g \in Holders : Holds(g)' => heap'[held'[g]] # NULL
    BY <1>2, <1>4, <1>5, <1>6, <1>7, NullIsNoBlock DEF IInv, Holds
  <2>2. \A g, k \in Holders : Holds(g)' /\ held'[g] = held'[k] => g = k
    BY <1>6, <1>7, <1>8 DEF IInv, Holds
  <2> QED
    BY <1>5, <1>6, <2>1, <2>2 DEF IInv
<1>10. ASSUME NEW g \in Holders, held[g] # NULL, held'[g] # NULL
       PROVE  KeptIn(g)
  <2>1. held[g] \in 1 .. Len(heap)
    BY <1>10, HeldBlock
  <2>2. CASE g = h
    <3> DEFINE now == heap'[held'[h]].text
    <3>1. now = a.text \o text /\ held'[h] # held[h]
      BY <1>1, <1>2, <1>4, <1>5, <1>6
    <3>2. SubSeq(now, 1, Len(a.text)) = a.text
      BY <1>1, <3>1, PrefixOfConcat
    <3>3. Len(now) = Len(a.text) + Len(text) /\ Len(a.text) \in Nat
      BY <1>1, <3>1, ConcatProperties, LenProperties
    <3>4. text \in Sources => KeptIn(h)
      BY <3>1 DEF KeptIn
    <3>5. Len(text) = Len(a.text) => Doubled(h)
      BY <3>1, <3>2, <3>3 DEF Doubled
    <3> QED
      BY <2>2, <3>4, <3>5 DEF KeptIn
  <2>3. CASE g # h
    <3>1. heap'[held'[g]] = heap[held[g]]
      BY <1>4, <1>5, <1>6, <1>7, <1>10, <2>1, <2>3
    <3> QED
      BY <3>1, SameKept
  <2> QED
    BY <2>2, <2>3
<1> QED
  BY <1>9, <1>10 DEF Kept

\* A string is made.
LEMMA CreateStep ==
    ASSUME IInv, NEW h \in Holders, NEW string \in Block, Create(h, string)
    PROVE  IInv' /\ Kept
<1>1. CASE heap' = heap /\ held' = held
  BY <1>1, Unchanged
<1>2. CASE heap' = Append(heap, string) /\ held' = [held EXCEPT ![h] = Len(heap) + 1]
  <2> DEFINE n == Len(heap) + 1
  <2>1. Len(heap) \in Nat /\ held[h] = NULL /\ n # NULL
    BY LenProperties, NullIsNoBlock DEF IInv, Create
  <2>2. /\ heap' \in Seq(Block \cup {NULL}) /\ Len(heap') = n /\ heap'[n] = string
        /\ \A q \in 1 .. Len(heap) : heap'[q] = heap[q]
    BY <1>2 DEF IInv
  <2>3. /\ held' \in [Holders -> (1 .. n) \cup {NULL}] /\ held'[h] = n
        /\ \A g \in Holders \ {h} : held'[g] = held[g]
    BY <1>2, <2>1 DEF IInv
  <2>4. \A g \in Holders : held[g] # NULL =>
          g # h /\ held[g] \in 1 .. Len(heap) /\ held[g] # n
    BY <2>1, HeldBlock
  <2>5. \A g \in Holders : Holds(g)' => heap'[held'[g]] # NULL
    BY <2>2, <2>3, <2>4, NullIsNoBlock DEF IInv, Holds
  <2>6. \A g, k \in Holders : Holds(g)' /\ held'[g] = held'[k] => g = k
    BY <2>1, <2>3, <2>4 DEF IInv, Holds
  <2>7. IInv'
    BY <2>2, <2>3, <2>5, <2>6 DEF IInv
  <2>8. Kept
    BY <2>2, <2>3, <2>4, SameKept DEF Kept
  <2> QED
    BY <2>7, <2>8
<1> QED
  BY <1>1, <1>2 DEF Create

\* Strings are freed, and the variables that held them forget them.
LEMMA FreeStep ==
    ASSUME IInv, NEW freed,
           heap' = [p \in DOMAIN heap |-> IF p \in freed THEN NULL ELSE heap[p]],
           held' = [h \in Holders |-> IF held[h] \in freed THEN NULL ELSE held[h]]
    PROVE  IInv' /\ Kept
<1>1. Len(heap) \in Nat /\ DOMAIN heap = 1 .. Len(heap)
  BY LenProperties DEF IInv
<1>2. \A q \in 1 .. Len(heap) :
        (IF q \in freed THEN NULL ELSE heap[q]) \in Block \cup {NULL}
  BY ElementOfSeq DEF IInv
<1>3. heap' \in [1 .. Len(heap) -> Block \cup {NULL}]
  BY <1>1, <1>2
<1>4. heap' \in Seq(Block \cup {NULL})
  BY <1>1, <1>3, SeqDef
<1>5. Len(heap') = Len(heap)
  BY <1>1, <1>3, <1>4, LenProperties
<1>6. \A q \in 1 .. Len(heap) : q \notin freed => heap'[q] = heap[q]
  BY <1>1
<1>7. /\ held' \in [Holders -> (1 .. Len(heap)) \cup {NULL}]
      /\ \A h \in Holders : held'[h] # NULL => held'[h] = held[h] /\ held[h] \notin freed
  BY DEF IInv
<1>8. \A h \in Holders : Holds(h)' => heap'[held'[h]] # NULL
  BY <1>6, <1>7, HeldBlock DEF IInv, Holds
<1>9. \A g, k \in Holders : Holds(g)' /\ held'[g] = held'[k] => g = k
  BY <1>7 DEF IInv, Holds
<1>10. IInv'
  BY <1>4, <1>5, <1>7, <1>8, <1>9 DEF IInv
<1>11. Kept
  BY <1>6, <1>7, HeldBlock, SameKept DEF Kept
<1> QED
  BY <1>10, <1>11

\* mcfg_string_free and its like give back one block and disturb no other.
LEMMA ReleaseStep ==
    ASSUME IInv, NEW call, NEW result, NEW then, Release(call, result, then)
    PROVE  IInv' /\ Kept
BY FreeStep DEF Release

-----------------------------------------------------------------------------
(* Steps.                                                                    *)

\* Appending the bytes of a C string keeps every string in its block.
LEMMA AppendCStringStep ==
    ASSUME IInv, NEW h \in Holders, NEW text \in Initials, AppendCString(h, text)
    PROVE  IInv' /\ Kept
<1>1. text \in Seq(Chars) /\ text \in Sources
  BY BuffersAssumption DEF Sources
<1>2. CASE held[h] = NULL
  BY <1>2, Unchanged DEF AppendCString, NoString
<1>3. CASE held[h] # NULL
  <2>1. InPlace(h, text, Len(text)) \/ Moved(h, text, Len(text)) \/ Unmoved(h, Len(text))
    BY <1>3 DEF AppendCString
  <2>2. Unmoved(h, Len(text)) => IInv' /\ Kept
    BY Unchanged DEF Unmoved
  <2> QED
    BY <1>1, <1>3, <2>1, <2>2, InPlaceStep, MovedStep
<1> QED
  BY <1>2, <1>3

\* So does appending one string to another, or to itself.
LEMMA AppendStringStep ==
    ASSUME IInv, NEW h \in Holders, NEW g \in Holders, AppendString(h, g)
    PROVE  IInv' /\ Kept
<1>1. CASE held[g] = NULL \/ held[h] = NULL
  BY <1>1, Unchanged DEF AppendString, Crashes, NoString
<1>2. CASE held[g] # NULL /\ held[h] # NULL
  <2> DEFINE b == heap[held[g]]
  <2>1. b.text \in Seq(Chars) /\ b.length = Len(b.text) /\ b.text \in Sources
    BY <1>2, HeldBlock DEF Sources
  <2>2. \A text \in Remains(b.text) : text \in Seq(Chars) /\ Len(text) = b.length
    <3>1. Len(b.text) \in Nat /\ DOMAIN b.text = 1 .. Len(b.text)
      BY <2>1, LenProperties
    <3>2. SUFFICES ASSUME NEW text \in [1 .. Len(b.text) -> Chars]
                   PROVE  text \in Seq(Chars) /\ Len(text) = Len(b.text)
      BY <2>1, <3>1 DEF Remains
    <3>3. text \in Seq(Chars)
      BY <3>1, SeqDef
    <3> QED
      BY <3>1, <3>3, LenProperties
  <2>3. InPlace(h, b.text, b.length) => IInv' /\ Kept
    BY <1>2, <2>1, InPlaceStep
  <2>4. ASSUME NEW text \in IF held[h] = held[g] THEN Remains(b.text) ELSE {b.text},
               Moved(h, text, b.length)
        PROVE  IInv' /\ Kept
    <3>1. text \in Seq(Chars) /\ Len(text) = b.length
      BY <2>1, <2>2
    <3>2. text \in Sources \/ Len(text) = Len(heap[held[h]].text)
      BY <2>1, <2>2
    <3> QED
      BY <1>2, <2>4, <3>1, <3>2, MovedStep
  <2>5. Unmoved(h, b.length) => IInv' /\ Kept
    BY Unchanged DEF Unmoved
  <2> QED
    BY <1>2, <2>3, <2>4, <2>5 DEF AppendString
<1> QED
  BY <1>1, <1>2

\* Freeing a string leaves the others as they were.
LEMMA FreeStringStep ==
    ASSUME IInv, NEW h \in Holders, FreeString(h)
    PROVE  IInv' /\ Kept
<1>1. held[h] \in 1 .. Len(heap) /\ DOMAIN heap = 1 .. Len(heap)
  BY HeldBlock, LenProperties DEF FreeString, IInv
<1>2. heap' = [p \in DOMAIN heap |-> IF p \in {held[h]} THEN NULL ELSE heap[p]]
  BY <1>1, LenProperties DEF FreeString, IInv
<1>3. held' = [g \in Holders |-> IF held[g] \in {held[h]} THEN NULL ELSE held[g]]
  BY DEF FreeString
<1> QED
  BY <1>2, <1>3, FreeStep

\* A string that a list takes over is only no longer the variable's.
LEMMA GiveStep ==
    ASSUME IInv, NEW h \in Holders, AppendItem(h) \/ InsertItem(h)
    PROVE  IInv' /\ Kept
<1>1. /\ heap' = heap
      /\ held' = held \/ \E x \in Holders : held' = [held EXCEPT ![x] = NULL]
  BY DEF AppendItem, InsertItem, Give
<1> QED
  BY <1>1, Unchanged

\* Every step keeps the invariant, and what the strings held before it.
LEMMA Stepwise ==
    ASSUME IInv, [Next]_vars
    PROVE  IInv' /\ Kept
<1>1. CASE UNCHANGED vars
  BY <1>1, Unchanged DEF vars
<1>2. ASSUME NEW h \in Holders, NEW text \in Initials,
             Create(h, mcfg_string_new(text, Len(text)))
      PROVE  IInv' /\ Kept
  BY <1>2, BuffersAssumption, InitialFits, CreateStep
<1>3. ASSUME NEW h \in Holders, NEW size \in Sizes,
             Create(h, mcfg_string_new_sized(size))
      PROVE  IInv' /\ Kept
  BY <1>3, BuffersAssumption, NewFits, CreateStep
<1>4. ASSUME NEW k, FreeAt(k)
      PROVE  IInv' /\ Kept
  BY <1>4, ReleaseStep DEF FreeAt
<1>5. ASSUME NEW h \in Holders, FreeFound(h)
      PROVE  IInv' /\ Kept
  BY <1>4, <1>5, Unchanged DEF FreeFound, Crashes
<1>6. ASSUME NEW h \in Holders, FreeItem(h)
      PROVE  IInv' /\ Kept
  BY <1>6, ReleaseStep DEF FreeItem
<1>7. CASE ForbidResize
  BY <1>7, Unchanged DEF ForbidResize
<1>8. CASE Destroy
  BY <1>8, ReleaseStep DEF Destroy
<1> QED
  BY <1>1, <1>2, <1>3, <1>4, <1>5, <1>6, <1>7, <1>8, AppendCStringStep,
     AppendStringStep, FreeStringStep, GiveStep DEF Next

\* Before the first call there is nothing to keep.
LEMMA InitHolds ==
    ASSUME Init
    PROVE  IInv
BY EmptySeq DEF Init, IInv, Holds

\* The heap holds strings, the program their pointers, and every string fits
\* its block, whatever is appended to what (mcfg_string_append).
THEOREM StringsAreBlocks == Spec => [](HeapOK /\ HeldOK /\ StringsFit)
<1>1. ASSUME IInv
      PROVE  HeapOK /\ HeldOK /\ StringsFit
  <2>1. heap \in Seq(StringBlock \cup {NULL})
    BY <1>1, SeqMonotonic DEF IInv, Block
  <2>2. DOMAIN heap = 1 .. Len(heap) /\ \A p \in 1 .. Len(heap) : heap[p] \in Block \cup {NULL}
    BY <1>1, LenProperties, ElementOfSeq DEF IInv
  <2>3. StringsFit
    BY <2>2 DEF StringsFit, Live, Block
  <2>4. HeldOK
    BY <1>1, <2>2 DEF HeldOK, Live, IInv, Holds
  <2> QED
    BY <2>1, <2>3, <2>4 DEF HeapOK
<1> QED
  BY <1>1, InitHolds, Stepwise, PTL DEF Spec

\* Behind every call of the library a text is as it was, or has one of the
\* sources behind it, or is doubled by a move.
THEOREM TextIsKept == Spec => KeepsText
<1>1. Kept => \A h \in Holders :
                held[h] # NULL /\ held'[h] # NULL =>
                    LET text == heap[held[h]].text
                        now  == heap'[held'[h]].text
                    IN  \/ now = text
                        \/ \E s \in Sources : now = text \o s
                        \/ Doubled(h)
  BY DEF Kept, KeptIn
<1> QED
  BY <1>1, InitHolds, Stepwise, PTL DEF Spec, KeepsText
-----------------------------------------------------------------------------
(* The functions of CPtrList.                                                *)

Pointers == Nat \cup {NULL}

Lists == [capacity : Nat, items : Seq(Pointers), array : BOOLEAN,
          allow_resize : BOOLEAN, resize_align : Nat \ {0}]

Items(l) == {l.items[k] : k \in DOMAIN l.items} \ {NULL}

\* The items of a list, one by one.
LEMMA ItemsOfList ==
    ASSUME NEW l \in Lists
    PROVE  /\ Len(l.items) \in Nat /\ DOMAIN l.items = 1 .. Len(l.items)
           /\ \A k \in 1 .. Len(l.items) : l.items[k] \in Pointers
           /\ \A p : p \in Items(l) <=> p # NULL /\ \E k \in 1 .. Len(l.items) : l.items[k] = p
           /\ l.array = TRUE \/ l.array = FALSE
           /\ l.allow_resize = TRUE \/ l.allow_resize = FALSE
<1>1. l.items \in Seq(Pointers) /\ l.array \in BOOLEAN /\ l.allow_resize \in BOOLEAN
  BY DEF Lists
<1>2. /\ Len(l.items) \in Nat /\ DOMAIN l.items = 1 .. Len(l.items)
      /\ \A k \in 1 .. Len(l.items) : l.items[k] \in Pointers
  BY <1>1, LenProperties, ElementOfSeq
<1> QED
  BY <1>1, <1>2 DEF Items

\* A list with other items.
LEMMA WithItems ==
    ASSUME NEW l \in Lists, NEW s \in Seq(Pointers)
    PROVE  /\ [l EXCEPT !.items = s] \in Lists
           /\ [l EXCEPT !.items = s].items = s
           /\ [l EXCEPT !.items = s].array = l.array
           /\ [l EXCEPT !.items = s].capacity = l.capacity
           /\ [l EXCEPT !.items = s].allow_resize = l.allow_resize
BY DEF Lists

\* Without its last slot a list has the others.
LEMMA Shorter ==
    ASSUME NEW l \in Lists, l.items # << >>
    PROVE  /\ Ptrs!DropLast(l) \in Lists
           /\ Ptrs!DropLast(l).array = l.array
           /\ Len(Ptrs!DropLast(l).items) = Len(l.items) - 1
           /\ \A k \in 1 .. Len(l.items) - 1 : Ptrs!DropLast(l).items[k] = l.items[k]
<1> DEFINE n == Len(l.items)
           s == SubSeq(l.items, 1, n - 1)
<1>1. n \in Nat /\ n # 0 /\ \A k \in 1 .. n : l.items[k] \in Pointers
  BY ItemsOfList, EmptySeq DEF Lists
<1>2. \A k \in 1 .. n - 1 : l.items[k] \in Pointers
  BY <1>1
<1>3. s \in Seq(Pointers) /\ Len(s) = n - 1 /\ \A k \in 1 .. n - 1 : s[k] = l.items[k]
  <2>1. /\ s \in Seq(Pointers)
        /\ Len(s) = IF 1 <= n - 1 THEN (n - 1) - 1 + 1 ELSE 0
        /\ \A k \in 1 .. (n - 1) - 1 + 1 : s[k] = l.items[1 + k - 1]
    BY <1>1, <1>2, SubSeqProperties
  <2> HIDE DEF s
  <2> QED
    BY <1>1, <2>1
<1>4. Ptrs!DropLast(l) = [l EXCEPT !.items = s]
  BY DEF Ptrs!DropLast, Ptrs!Front
<1> HIDE DEF s
<1> QED
  BY <1>3, <1>4, WithItems

\* What freeing an item comes to: nothing, or it is freed once and all of its
\* slots are cleared, the last of which may go.
FreedItem(l, item, r) ==
    \/ r.freed = << >> /\ r.list = l /\ item \notin Items(l)
    \/ /\ r.freed = <<item>> /\ item \in Items(l)
       /\ r.list \in Lists /\ r.list.array = l.array
       /\ Items(r.list) = Items(l) \ {item}
       /\ Len(r.list.items) <= Len(l.items)
       /\ \A k \in 1 .. Len(r.list.items) :
             r.list.items[k] = IF l.items[k] = item THEN NULL ELSE l.items[k]

\* cptrlist_free frees an item once, wherever and however often it is listed.
LEMMA FreeIsFreed ==
    ASSUME NEW l \in Lists, NEW item \in Pointers
    PROVE  LET r == Ptrs!cptrlist_free(l, item)
           IN  IF item # NULL /\ l.items # << >> /\ l.array = FALSE
               THEN r.fault = TRUE /\ r.list = l /\ r.freed = << >>
               ELSE r.fault = FALSE /\ FreedItem(l, item, r)
<1> DEFINE r == Ptrs!cptrlist_free(l, item)
           n == Len(l.items)
           hits == Ptrs!SlotsOf(l, item)
           s == [k \in DOMAIN l.items |-> IF k \in hits THEN NULL ELSE l.items[k]]
           c == [l EXCEPT !.items = s]
<1>1. /\ n \in Nat /\ DOMAIN l.items = 1 .. n
      /\ \A k \in 1 .. n : l.items[k] \in Pointers
      /\ \A p : p \in Items(l) <=> p # NULL /\ \E k \in 1 .. n : l.items[k] = p
      /\ l.array = TRUE \/ l.array = FALSE
  BY ItemsOfList
<1>2. hits = {k \in 1 .. n : l.items[k] = item}
  BY <1>1 DEF Ptrs!SlotsOf
<1>3. /\ s \in Seq(Pointers) /\ Len(s) = n
      /\ \A k \in 1 .. n : s[k] = IF l.items[k] = item THEN NULL ELSE l.items[k]
  <2>1. s \in [1 .. n -> Pointers]
    BY <1>1 DEF Pointers
  <2>2. s \in Seq(Pointers)
    BY <1>1, <2>1, SeqDef
  <2>3. Len(s) = n
    BY <1>1, <2>1, <2>2, LenProperties
  <2> QED
    BY <1>1, <1>2, <2>2, <2>3
<1>4. r = CASE item = NULL \/ l.items = << >> -> Ptrs!Freed(l, << >>)
            [] item # NULL /\ l.items # << >> /\ ~l.array -> Ptrs!FreeFault(l)
            [] item # NULL /\ l.array /\ hits = {} -> Ptrs!Freed(l, << >>)
            [] OTHER -> Ptrs!Freed(IF n \in hits THEN Ptrs!DropLast(c) ELSE c, <<item>>)
  BY DEF Ptrs!cptrlist_free
<1> HIDE DEF r, hits, s
<1>5. /\ \A x, y : Ptrs!Freed(x, y).list = x /\ Ptrs!Freed(x, y).freed = y
                   /\ Ptrs!Freed(x, y).fault = FALSE
      /\ \A x : /\ Ptrs!FreeFault(x).fault = TRUE /\ Ptrs!FreeFault(x).list = x
               /\ Ptrs!FreeFault(x).freed = << >>
  BY DEF Ptrs!Freed, Ptrs!FreeFault
<1>6. CASE item = NULL
  <2>1. r = Ptrs!Freed(l, << >>)
    BY <1>4, <1>6
  <2>2. item \notin Items(l)
    BY <1>6 DEF Items
  <2> QED
    BY <1>5, <1>6, <2>1, <2>2 DEF FreedItem, r
<1>7. CASE item # NULL /\ l.items = << >>
  <2>1. r = Ptrs!Freed(l, << >>)
    BY <1>4, <1>7
  <2>2. item \notin Items(l)
    BY <1>1, <1>7, EmptySeq
  <2> QED
    BY <1>5, <1>7, <2>1, <2>2 DEF FreedItem, r
<1>8. CASE item # NULL /\ l.items # << >> /\ l.array = FALSE
  <2>1. r = Ptrs!FreeFault(l)
    BY <1>4, <1>8
  <2> QED
    BY <1>5, <1>8, <2>1 DEF r
<1>9. CASE item # NULL /\ l.items # << >> /\ l.array = TRUE /\ hits = {}
  <2>1. r = Ptrs!Freed(l, << >>)
    BY <1>4, <1>9
  <2>2. item \notin Items(l)
    BY <1>1, <1>2, <1>9
  <2> QED
    BY <1>5, <1>9, <2>1, <2>2 DEF FreedItem, r
<1>10. CASE item # NULL /\ l.items # << >> /\ l.array = TRUE /\ hits # {}
  <2> DEFINE d == IF n \in hits THEN Ptrs!DropLast(c) ELSE c
  <2>1. r = Ptrs!Freed(d, <<item>>)
    BY <1>4, <1>10
  <2>2. item \in Items(l)
    BY <1>1, <1>2, <1>10
  <2>3. c \in Lists /\ c.items = s /\ c.array = l.array
    BY <1>3, WithItems
  <2> HIDE DEF c
  <2>4. c.items # << >> /\ n # 0
    BY <1>1, <1>2, <1>3, <1>10, <2>3, EmptySeq
  <2>5. /\ d \in Lists /\ d.array = l.array /\ Len(d.items) \in Nat
        /\ Len(d.items) = n \/ (Len(d.items) = n - 1 /\ n \in hits)
        /\ \A k \in 1 .. Len(d.items) : d.items[k] = s[k]
    <3>1. CASE n \in hits
      <4>1. /\ d \in Lists /\ d.array = c.array /\ Len(d.items) = Len(c.items) - 1
            /\ \A k \in 1 .. Len(c.items) - 1 : d.items[k] = c.items[k]
        BY <2>3, <2>4, <3>1, Shorter
      <4> HIDE DEF d
      <4> QED
        BY <1>1, <1>3, <2>3, <2>4, <3>1, <4>1
    <3>2. CASE n \notin hits
      <4>1. d = c
        BY <3>2
      <4>2. d \in Lists /\ d.array = l.array /\ d.items = s
        BY <2>3, <4>1
      <4> HIDE DEF d
      <4> QED
        BY <1>1, <1>3, <4>2
    <3> QED
      BY <3>1, <3>2
  <2> HIDE DEF d
  <2>6. \A k \in 1 .. Len(d.items) : k \in 1 .. n
    BY <1>1, <2>5
  <2>7. Len(d.items) <= n
    BY <1>1, <2>5
  <2>8. \A p : p \in Items(d) <=> p # NULL /\ \E k \in 1 .. Len(d.items) : d.items[k] = p
    BY <2>5, ItemsOfList
  <2>9. \A k \in 1 .. Len(d.items) : d.items[k] = IF l.items[k] = item THEN NULL ELSE l.items[k]
    BY <1>3, <2>5, <2>6
  <2>10. Items(d) = Items(l) \ {item}
    <3>1. ASSUME NEW p, p \in Items(d)
          PROVE  p \in Items(l) \ {item}
      <4>1. PICK k \in 1 .. Len(d.items) : d.items[k] = p
        BY <2>8, <3>1
      <4>2. p # NULL
        BY <2>8, <3>1
      <4>3. l.items[k] = p /\ p # item
        BY <2>9, <4>1, <4>2
      <4> QED
        BY <1>1, <2>6, <4>2, <4>3
    <3>2. ASSUME NEW p, p \in Items(l), p # item
          PROVE  p \in Items(d)
      <4>1. PICK k \in 1 .. n : l.items[k] = p
        BY <1>1, <3>2
      <4>2. p # NULL
        BY <1>1, <3>2
      <4>3. k \in 1 .. Len(d.items)
        BY <1>1, <1>2, <2>5, <3>2, <4>1
      <4>4. d.items[k] = p
        BY <2>9, <3>2, <4>1, <4>3
      <4> QED
        BY <2>8, <4>2, <4>3, <4>4
    <3> QED
      BY <3>1, <3>2
  <2> QED
    BY <1>5, <1>10, <2>1, <2>2, <2>5, <2>7, <2>9, <2>10 DEF FreedItem, r
<1> QED
  BY <1>1, <1>6, <1>7, <1>8, <1>9, <1>10 DEF r
\* A sequence of pointers with one more has one more pointer.
LEMMA OneMore ==
    ASSUME NEW s \in Seq(Pointers), NEW p \in Pointers
    PROVE  /\ s \o <<p>> \in Seq(Pointers) /\ Len(s \o <<p>>) = Len(s) + 1
           /\ ToSet(s \o <<p>>) = ToSet(s) \cup {p}
<1> DEFINE n == Len(s)
           t == s \o <<p>>
<1>1. /\ n \in Nat /\ <<p>> \in Seq(Pointers) /\ Len(<<p>>) = 1 /\ <<p>>[1] = p
      /\ DOMAIN s = 1 .. n
  BY LenProperties
<1>2. /\ t \in Seq(Pointers) /\ Len(t) = n + Len(<<p>>)
      /\ \A i \in 1 .. n + Len(<<p>>) : t[i] = IF i <= n THEN s[i] ELSE <<p>>[i - n]
  BY <1>1, ConcatProperties
<1>3. Len(t) = n + 1 /\ DOMAIN t = 1 .. n + 1
  BY <1>1, <1>2, LenProperties
<1>4. /\ n + 1 \in 1 .. n + 1 /\ ~(n + 1 <= n) /\ (n + 1) - n = 1
      /\ \A i \in 1 .. n : i \in 1 .. n + 1 /\ i <= n
      /\ \A i \in 1 .. n + 1 : i \in 1 .. n \/ i = n + 1
  BY <1>1
<1> HIDE DEF t, n
<1>5. t[n + 1] = p /\ \A i \in 1 .. n : t[i] = s[i]
  BY <1>1, <1>2, <1>4
<1>6. ToSet(t) = ToSet(s) \cup {p}
  BY <1>1, <1>3, <1>4, <1>5 DEF ToSet
<1> QED
  BY <1>2, <1>3, <1>6 DEF t, n

Results == [list : Lists, freed : Seq(Pointers), fault : BOOLEAN]

\* Behind k of the n slots of l what is freed has been freed once, and is what
\* l held and the list holds no more.
Emptied(l, n, k, a) ==
    /\ a \in Results /\ a.fault = FALSE
    /\ n # 0 => a.list.array = TRUE
    /\ Len(a.list.items) <= n
    /\ IsFiniteSet(ToSet(a.freed)) /\ Cardinality(ToSet(a.freed)) = Len(a.freed)
    /\ \A p \in Items(a.list) : p \notin ToSet(a.freed)
    /\ ToSet(a.freed) \cup Items(a.list) = Items(l)
    /\ \A j \in 1 .. Len(a.list.items) : j <= k => a.list.items[j] = NULL

\* One slot gives a list and pointers again.
LEMMA NextTyped ==
    ASSUME NEW a \in Results, NEW k \in Nat, k >= 1
    PROVE  Ptrs!FreeNext(a, k) \in Results
<1> DEFINE one == Ptrs!cptrlist_free(a.list, a.list.items[k])
<1>1. a.list \in Lists /\ a.freed \in Seq(Pointers) /\ Len(a.list.items) \in Nat
  BY ItemsOfList DEF Results
<1>2. CASE k > Len(a.list.items)
  BY <1>2 DEF Ptrs!FreeNext
<1>3. CASE ~(k > Len(a.list.items))
  <2>1. a.list.items[k] \in Pointers
    <3>1. k \in 1 .. Len(a.list.items)
      BY <1>1, <1>3
    <3> QED
      BY <1>1, <3>1, ItemsOfList
  <2>2. one.list \in Lists /\ (one.freed = << >> \/ one.freed = <<a.list.items[k]>>)
    <3>1. \/ one.list = a.list /\ one.freed = << >>
          \/ FreedItem(a.list, a.list.items[k], one)
      BY <1>1, <2>1, FreeIsFreed
    <3> QED
      BY <1>1, <3>1 DEF FreedItem
  <2>3. one.freed \in Seq(Pointers)
    <3>1. << >> \in Seq(Pointers) /\ <<a.list.items[k]>> \in Seq(Pointers)
      BY <2>1, EmptySeq
    <3> QED
      BY <2>2, <3>1
  <2>4. a.freed \o one.freed \in Seq(Pointers)
    BY <1>1, <2>3, ConcatProperties
  <2>5. Ptrs!FreeNext(a, k) = Ptrs!Freed(one.list, a.freed \o one.freed)
    BY <1>3 DEF Ptrs!FreeNext
  <2> HIDE DEF one
  <2> QED
    BY <2>2, <2>4, <2>5 DEF Ptrs!Freed, Results
<1> QED
  BY <1>2, <1>3

\* One slot more is empty, and its pointer is freed unless it has been.
LEMMA NextEmptied ==
    ASSUME NEW l \in Lists, NEW n \in Nat, NEW k \in Nat, NEW m \in Nat, m = k + 1, m <= n,
           NEW a, Emptied(l, n, k, a)
    PROVE  Emptied(l, n, m, Ptrs!FreeNext(a, m))
<1> DEFINE item == a.list.items[m]
           one  == Ptrs!cptrlist_free(a.list, item)
           b    == Ptrs!FreeNext(a, m)
<1>1. /\ a.list \in Lists /\ a.freed \in Seq(Pointers) /\ Len(a.list.items) \in Nat
      /\ a.list.array = TRUE
  BY ItemsOfList DEF Results, Emptied
<1>2. b \in Results
  BY NextTyped DEF Emptied
<1>3. CASE m > Len(a.list.items)
  <2>1. b = a
    BY <1>3 DEF Ptrs!FreeNext
  <2>2. \A j \in 1 .. Len(a.list.items) : j <= k
    BY <1>1, <1>3
  <2> HIDE DEF b
  <2> QED
    BY <2>1, <2>2 DEF Emptied, b
<1>4. CASE ~(m > Len(a.list.items))
  <2>1. item \in Pointers /\ m \in 1 .. Len(a.list.items)
    <3>1. m \in 1 .. Len(a.list.items)
      BY <1>1, <1>4
    <3> QED
      BY <1>1, <3>1, ItemsOfList
  <2>2. FreedItem(a.list, item, one)
    BY <1>1, <2>1, FreeIsFreed
  <2>3. b = Ptrs!Freed(one.list, a.freed \o one.freed)
    BY <1>4 DEF Ptrs!FreeNext
  <2>4. b.list = one.list /\ b.freed = a.freed \o one.freed /\ b.fault = FALSE
    <3>1. \A x, y : /\ Ptrs!Freed(x, y).list = x /\ Ptrs!Freed(x, y).freed = y
                    /\ Ptrs!Freed(x, y).fault = FALSE
      BY DEF Ptrs!Freed
    <3> HIDE DEF b, one
    <3> QED
      BY <2>3, <3>1
  <2>5. CASE one.freed = << >> /\ one.list = a.list /\ item \notin Items(a.list)
    <3>1. a.freed \o << >> = a.freed
      BY <1>1, ConcatEmptySeq
    <3>2. b.freed = a.freed /\ b.list = a.list
      BY <2>4, <2>5, <3>1
    <3>3. item = NULL
      BY <1>1, <2>1, <2>5, ItemsOfList
    <3>4. \A j \in 1 .. Len(a.list.items) : j <= m => j <= k \/ j = m
      BY <1>1
    <3>5. \A j \in 1 .. Len(a.list.items) : j <= m => a.list.items[j] = NULL
      BY <3>3, <3>4 DEF Emptied
    <3> HIDE DEF b
    <3> QED
      BY <1>2, <2>4, <3>2, <3>5 DEF Emptied, b
  <2>6. CASE /\ one.freed = <<item>> /\ item \in Items(a.list)
             /\ one.list \in Lists /\ one.list.array = a.list.array
             /\ Items(one.list) = Items(a.list) \ {item}
             /\ Len(one.list.items) <= Len(a.list.items)
             /\ \A j \in 1 .. Len(one.list.items) :
                   one.list.items[j] = IF a.list.items[j] = item THEN NULL ELSE a.list.items[j]
    <3>1. /\ Len(b.freed) = Len(a.freed) + 1
          /\ ToSet(b.freed) = ToSet(a.freed) \cup {item}
      BY <1>1, <2>1, <2>4, <2>6, OneMore
    <3>2. item \notin ToSet(a.freed)
      BY <2>6 DEF Emptied
    <3>3. IsFiniteSet(ToSet(b.freed)) /\ Cardinality(ToSet(b.freed)) = Len(b.freed)
      BY <3>1, <3>2, FS_AddElement DEF Emptied
    <3>4. \A p \in Items(b.list) : p \notin ToSet(b.freed)
      BY <2>4, <2>6, <3>1 DEF Emptied
    <3>5. ToSet(b.freed) \cup Items(b.list) = Items(l)
      BY <2>4, <2>6, <3>1 DEF Emptied
    <3>6. Len(b.list.items) \in Nat /\ Len(b.list.items) <= n
      BY <1>1, <2>4, <2>6, ItemsOfList DEF Emptied
    <3>7. \A j \in 1 .. Len(b.list.items) :
             j <= m => j \in 1 .. Len(a.list.items) /\ (j <= k \/ j = m)
      BY <1>1, <2>4, <2>6, <3>6
    <3>8. \A j \in 1 .. Len(b.list.items) : j <= m => b.list.items[j] = NULL
      BY <2>4, <2>6, <3>7 DEF Emptied
    <3> HIDE DEF b
    <3> QED
      BY <1>1, <1>2, <2>4, <2>6, <3>3, <3>4, <3>5, <3>6, <3>8 DEF Emptied, b
  <2> QED
    BY <2>2, <2>5, <2>6 DEF FreedItem
<1> QED
  BY <1>3, <1>4
\* The loop of cptrlist_destroy.
LEMMA DestroyLoop ==
    ASSUME NEW l \in Lists, l.items = << >> \/ l.array = TRUE
    PROVE  \E h \in [0 .. Len(l.items) -> Results] :
               /\ h[0] = Ptrs!Freed(l, << >>)
               /\ h[Len(l.items)] = Ptrs!cptrlist_destroy(l)
               /\ \A i \in 1 .. Len(l.items) : h[i] = Ptrs!FreeNext(h[i - 1], i)
<1> DEFINE n == Len(l.items)
           slots == [k \in DOMAIN l.items |-> k]
           base == Ptrs!Freed(l, << >>)
           step == [p \in Results \X (1 .. n) |-> Ptrs!FreeNext(p[1], p[2])]
           Body(g) == [s \in SUBSET DOMAIN slots |->
                          IF s = {} THEN base
                          ELSE Ptrs!FreeNext(g[s \ {Max(s)}], slots[Max(s)])]
           fold == CHOOSE g : g = Body(g)
<1>1. Ptrs!cptrlist_destroy(l) = fold[DOMAIN slots]
  <2>1. ~(l.items # << >> /\ ~l.array)
    OBVIOUS
  <2>2. Ptrs!cptrlist_destroy(l) = FoldLeft(Ptrs!FreeNext, base, slots)
    BY <2>1 DEF Ptrs!cptrlist_destroy, Ptrs!FoldLeft, FoldLeft, Ptrs!MapThenFoldSet, MapThenFoldSet, Ptrs!Max, Max
  <2>3. FoldLeft(Ptrs!FreeNext, base, slots) = fold[DOMAIN slots]
    BY DEF FoldLeft, MapThenFoldSet
  <2> QED
    BY <2>2, <2>3
<1>2. n \in Nat /\ DOMAIN l.items = 1 .. n
  BY ItemsOfList
<1>3. DOMAIN slots = 1 .. n /\ \A i \in 1 .. n : slots[i] = i
  BY <1>2
<1>4. base \in Results
  BY EmptySeq DEF Ptrs!Freed, Results
<1>5. step \in [Results \X (1 .. n) -> Results]
  <2>1. ASSUME NEW p \in Results \X (1 .. n)
        PROVE  Ptrs!FreeNext(p[1], p[2]) \in Results
    <3>1. p[1] \in Results /\ p[2] \in Nat /\ p[2] >= 1
      BY <1>2
    <3> QED
      BY <3>1, NextTyped
  <2> QED
    BY <2>1
<1>6. ASSUME NEW a \in Results, NEW i \in 1 .. n
      PROVE  step[a, i] = Ptrs!FreeNext(a, i)
  OBVIOUS
<1>7. ASSUME NEW s \in SUBSET (1 .. n), s # {}
      PROVE  Max(s) \in 1 .. n /\ slots[Max(s)] = Max(s)
  BY <1>2, <1>3, <1>7, MaxOfInterval
<1> HIDE DEF n, step, base, slots
<1>8. PICK g \in [SUBSET (1 .. n) -> Results] : Folds(g, base, step, n)
  BY <1>2, <1>4, <1>5, FoldExists
<1>9. g = Body(g)
  <2>1. ASSUME NEW s \in SUBSET (1 .. n), s # {}
        PROVE  g[s] = Ptrs!FreeNext(g[s \ {Max(s)}], slots[Max(s)])
    <3>1. g[s \ {Max(s)}] \in Results
      BY <1>8
    <3>2. g[s] = step[g[s \ {Max(s)}], Max(s)]
      BY <1>8, <2>1 DEF Folds
    <3> QED
      BY <1>6, <1>7, <2>1, <3>1, <3>2
  <2>2. g[{}] = base
    BY <1>8 DEF Folds
  <2> QED
    BY <1>3, <1>8, <2>1, <2>2
<1>10. PICK f : f = Body(f) /\ Ptrs!cptrlist_destroy(l) = f[1 .. n]
  BY <1>1, <1>3, <1>9
<1>11. FoldsOver(f, Results, base, step, n)
  <2>1. f[{}] = base
    BY <1>10
  <2>2. ASSUME NEW s \in SUBSET (1 .. n), s # {}, f[s \ {Max(s)}] \in Results
        PROVE  f[s] = step[f[s \ {Max(s)}], Max(s)]
    <3>1. f[s] = Ptrs!FreeNext(f[s \ {Max(s)}], slots[Max(s)])
      BY <1>3, <1>10, <2>2
    <3> QED
      BY <1>6, <1>7, <2>2, <3>1
  <2> QED
    BY <2>1, <2>2 DEF FoldsOver
<1>12. PICK h \in [0 .. n -> Results] :
         /\ h[0] = base /\ h[n] = f[1 .. n]
         /\ \A i \in 1 .. n : h[i] = step[h[i - 1], i]
  <2>1. Loops(f[1 .. n], Results, base, step, n)
    BY <1>2, <1>4, <1>5, <1>11, FoldIsLoop
  <2> QED
    BY <2>1 DEF Loops
<1>13. \A i \in 1 .. n : h[i] = Ptrs!FreeNext(h[i - 1], i)
  <2> TAKE i \in 1 .. n
  <2>1. i - 1 \in 0 .. n
    BY <1>2
  <2> QED
    BY <1>6, <1>12, <2>1
<1> QED
  BY <1>2, <1>10, <1>12, <1>13 DEF n, base

\* cptrlist_destroy frees every item of a list once.
LEMMA DestroyIsFreed ==
    ASSUME NEW l \in Lists
    PROVE  LET r == Ptrs!cptrlist_destroy(l)
           IN  /\ r \in Results /\ (l.array = TRUE => r.list.array = TRUE)
               /\ IF l.items # << >> /\ l.array = FALSE
                  THEN r.fault = TRUE
                  ELSE /\ r.fault = FALSE /\ ToSet(r.freed) = Items(l)
                       /\ Cardinality(ToSet(r.freed)) = Len(r.freed)
<1>1. CASE l.items # << >> /\ l.array = FALSE
  <2>1. Ptrs!cptrlist_destroy(l) = Ptrs!FreeFault(l)
    BY <1>1 DEF Ptrs!cptrlist_destroy
  <2> QED
    BY <1>1, <2>1, EmptySeq DEF Ptrs!FreeFault, Results
<1>2. CASE ~(l.items # << >> /\ l.array = FALSE)
  <2> DEFINE n == Len(l.items)
  <2>1. n \in Nat /\ (l.items = << >> \/ l.array = TRUE) /\ (l.items = << >> => n = 0)
    BY <1>2, ItemsOfList, EmptySeq
  <2>2. PICK h \in [0 .. n -> Results] :
          /\ h[0] = Ptrs!Freed(l, << >>) /\ h[n] = Ptrs!cptrlist_destroy(l)
          /\ \A i \in 1 .. n : h[i] = Ptrs!FreeNext(h[i - 1], i)
    BY <2>1, DestroyLoop
  <2> DEFINE T == {k \in Nat : k <= n => Emptied(l, n, k, h[k])}
  <2>3. 0 \in T
    <3>1. /\ h[0].list = l /\ h[0].freed = << >> /\ h[0].fault = FALSE
          /\ h[0] \in Results
      BY <2>1, <2>2 DEF Ptrs!Freed
    <3>2. /\ ToSet(<< >>) = {} /\ Len(<< >>) = 0
          /\ IsFiniteSet({}) /\ Cardinality({}) = 0
      BY FS_EmptySet DEF ToSet
    <3>3. \A j \in 1 .. Len(l.items) : ~(j <= 0)
      BY <2>1
    <3> QED
      BY <2>1, <3>1, <3>2, <3>3 DEF Emptied
  <2>4. ASSUME NEW k \in Nat, k \in T
        PROVE  k + 1 \in T
    <3>1. ASSUME k + 1 <= n
          PROVE  Emptied(l, n, k + 1, h[k + 1])
      <4>1. PICK m \in Nat : m = k + 1
        OBVIOUS
      <4>2. m \in 1 .. n /\ m - 1 = k /\ k <= n /\ m <= n
        BY <2>1, <3>1, <4>1
      <4>3. Emptied(l, n, k, h[k])
        BY <2>4, <4>2
      <4>4. h[m] = Ptrs!FreeNext(h[k], m)
        BY <2>2, <4>2
      <4>5. Emptied(l, n, m, Ptrs!FreeNext(h[k], m))
        BY <2>1, <4>1, <4>2, <4>3, NextEmptied
      <4> QED
        BY <4>1, <4>4, <4>5
    <3>2. k + 1 \in Nat
      OBVIOUS
    <3> QED
      BY <3>1, <3>2
  <2>5. n \in T
    <3> HIDE DEF T, n
    <3> QED
      BY <2>1, <2>3, <2>4, SetInduction
  <2> DEFINE r == h[n]
  <2>6. Emptied(l, n, n, r)
    BY <2>1, <2>5
  <2> HIDE DEF r, n
  <2>7. r \in Results /\ r.list \in Lists
    BY <2>6 DEF Emptied, Results
  <2>8. Items(r.list) = {}
    <3>1. \A j \in 1 .. Len(r.list.items) : j <= n
      BY <2>1, <2>6, <2>7, ItemsOfList DEF Emptied
    <3>2. \A j \in 1 .. Len(r.list.items) : r.list.items[j] = NULL
      BY <2>6, <3>1 DEF Emptied
    <3> QED
      BY <2>7, <3>2, ItemsOfList
  <2>9. /\ r.fault = FALSE /\ ToSet(r.freed) = Items(l)
        /\ Cardinality(ToSet(r.freed)) = Len(r.freed)
    BY <2>6, <2>8 DEF Emptied
  <2>10. r = Ptrs!cptrlist_destroy(l)
    BY <2>2 DEF r
  <2>11. l.array = TRUE => r.list.array = TRUE
    <3>1. n = 0 => r.list = l
      BY <2>2 DEF Ptrs!Freed, r
    <3> QED
      BY <2>6, <3>1 DEF Emptied
  <2> HIDE DEF r
  <2> QED
    BY <1>2, <2>7, <2>9, <2>10, <2>11
<1> QED
  BY <1>1, <1>2
\* A list that holds the items of another and one more item at most.
Takes(l, item, m) ==
    Items(l) \subseteq Items(m) /\ (item = NULL \/ item \in Items(m))

\* Whether it does can be seen slot by slot.
LEMMA TakesIs ==
    ASSUME NEW l \in Lists, NEW m \in Lists, NEW item \in Pointers,
           \A k \in 1 .. Len(l.items) :
               l.items[k] # NULL => \E j \in 1 .. Len(m.items) : m.items[j] = l.items[k],
           item # NULL => \E j \in 1 .. Len(m.items) : m.items[j] = item
    PROVE  Takes(l, item, m)
<1>1. ASSUME NEW p, p \in Items(l)
      PROVE  p \in Items(m)
  <2>1. p # NULL /\ \E k \in 1 .. Len(l.items) : l.items[k] = p
    BY <1>1, ItemsOfList
  <2>2. \E j \in 1 .. Len(m.items) : m.items[j] = p
    BY <2>1
  <2> QED
    BY <2>1, <2>2, ItemsOfList
<1>2. item # NULL => item \in Items(m)
  BY ItemsOfList
<1> QED
  BY <1>1, <1>2 DEF Takes

\* An item in a slot of its own.
LEMMA AppendTakes ==
    ASSUME NEW l \in Lists, NEW item \in Pointers
    PROVE  /\ [l EXCEPT !.items = Append(l.items, item)] \in Lists
           /\ [l EXCEPT !.items = Append(l.items, item)].array = l.array
           /\ Takes(l, item, [l EXCEPT !.items = Append(l.items, item)])
<1> DEFINE s == Append(l.items, item)
           n == Len(l.items)
           m == [l EXCEPT !.items = s]
<1>1. /\ s \in Seq(Pointers) /\ Len(s) = n + 1 /\ s[n + 1] = item
      /\ \A k \in 1 .. n : s[k] = l.items[k]
  BY AppendProperties DEF Lists
<1>2. n \in Nat /\ n + 1 \in 1 .. n + 1 /\ \A k \in 1 .. n : k \in 1 .. n + 1
  BY ItemsOfList
<1>3. m \in Lists /\ m.items = s /\ m.array = l.array
  BY <1>1, WithItems
<1> HIDE DEF s, m
<1>4. Takes(l, item, m)
  <2>1. /\ Len(m.items) = n + 1 /\ m.items[n + 1] = item
        /\ \A k \in 1 .. n : m.items[k] = l.items[k]
    BY <1>1, <1>3
  <2>2. \A k \in 1 .. n : \E j \in 1 .. Len(m.items) : m.items[j] = l.items[k]
    BY <1>2, <2>1
  <2>3. \E j \in 1 .. Len(m.items) : m.items[j] = item
    BY <1>2, <2>1
  <2> QED
    BY <1>3, <2>2, <2>3, TakesIs
<1> QED
  BY <1>3, <1>4 DEF m, s

\* An item in an empty slot.
LEMMA FillTakes ==
    ASSUME NEW l \in Lists, NEW item \in Pointers,
           NEW i \in 1 .. Len(l.items), l.items[i] = NULL
    PROVE  /\ [l EXCEPT !.items[i] = item] \in Lists
           /\ [l EXCEPT !.items[i] = item].array = l.array
           /\ Takes(l, item, [l EXCEPT !.items[i] = item])
<1> DEFINE s == [l.items EXCEPT ![i] = item]
           n == Len(l.items)
           m == [l EXCEPT !.items = s]
<1>1. /\ s \in Seq(Pointers) /\ Len(s) = n
      /\ \A k \in 1 .. n : s[k] = IF k = i THEN item ELSE l.items[k]
  BY ExceptSeq DEF Lists
<1>2. m \in Lists /\ m.items = s /\ m.array = l.array
  BY <1>1, WithItems
<1>3. [l EXCEPT !.items[i] = item] = m
  BY DEF Lists
<1> HIDE DEF s, m
<1>4. Takes(l, item, m)
  <2>1. \A k \in 1 .. n : l.items[k] # NULL => k \in 1 .. Len(m.items) /\ m.items[k] = l.items[k]
    BY <1>1, <1>2
  <2>2. i \in 1 .. Len(m.items) /\ m.items[i] = item
    BY <1>1, <1>2
  <2> QED
    BY <1>2, <2>1, <2>2, TakesIs
<1> QED
  BY <1>2, <1>3, <1>4

\* What comes of an append or insert.  It goes wrong only where the array is
\* missing, or full with no leave to grow, and a list that cannot grow has no array.
Added(l, item, ok, r) ==
    /\ r.list \in Lists /\ (r.fault = TRUE \/ r.fault = FALSE)
    /\ r.fault = TRUE => l.array = FALSE \/ (Ptrs!Full(l) /\ l.allow_resize = FALSE)
    /\ ok = TRUE /\ r.fault = FALSE =>
          /\ r.list.array = TRUE
          /\ item = NULL \/ item \in Items(r.list)
          /\ l.array = TRUE => Items(l) \subseteq Items(r.list)
    /\ ok = FALSE /\ Ptrs!Resizes(l) /\ r.index = 0 => r.list.array = FALSE

\* A list that has grown has room.
LEMMA ResizeGivesRoom ==
    ASSUME NEW l \in Lists, Ptrs!Full(l)
    PROVE  LET m == Ptrs!_cptrlist_resize(l, TRUE)
           IN  /\ m \in Lists /\ m.array = TRUE /\ ~Ptrs!Full(m)
               /\ l.array = TRUE => m.items = l.items
<1> DEFINE cap == l.capacity + 2 * l.resize_align
           s == IF l.array THEN l.items ELSE [k \in DOMAIN l.items |-> NULL]
           m == Ptrs!_cptrlist_resize(l, TRUE)
<1>1. l.capacity \in Nat /\ l.resize_align \in Nat \ {0} /\ Len(l.items) = l.capacity
  BY DEF Lists, Ptrs!Full
<1>2. cap \in Nat /\ cap # l.capacity
  BY <1>1
<1>3. /\ Len(l.items) \in Nat /\ DOMAIN l.items = 1 .. Len(l.items)
      /\ l.items \in Seq(Pointers) /\ (l.array = TRUE \/ l.array = FALSE)
  BY ItemsOfList DEF Lists
<1>4. s \in Seq(Pointers) /\ Len(s) = Len(l.items)
  <2>1. CASE l.array = TRUE
    BY <1>3, <2>1
  <2>2. CASE l.array = FALSE
    <3>1. s = [k \in 1 .. Len(l.items) |-> NULL]
      BY <1>3, <2>2
    <3>2. s \in [1 .. Len(l.items) -> Pointers]
      BY <3>1 DEF Pointers
    <3>3. s \in Seq(Pointers)
      BY <1>3, <3>2, SeqDef
    <3> QED
      BY <1>3, <3>2, <3>3, LenProperties
  <2> QED
    BY <1>3, <2>1, <2>2
<1>5. m = [l EXCEPT !.array = TRUE, !.capacity = cap, !.items = s]
  BY DEF Ptrs!_cptrlist_resize, Lists
<1>6. l.array = TRUE => s = l.items
  OBVIOUS
<1> HIDE DEF s, cap, m
<1>7. m \in Lists /\ m.array = TRUE /\ m.capacity = cap /\ m.items = s
  BY <1>2, <1>4, <1>5 DEF Lists
<1>8. ~Ptrs!Full(m)
  BY <1>1, <1>2, <1>4, <1>7 DEF Ptrs!Full
<1> QED
  BY <1>6, <1>7, <1>8 DEF m

\* cptrlist_append adds the item, or goes wrong for a cause.
LEMMA AppendAdds ==
    ASSUME NEW l \in Lists, NEW item \in Pointers, NEW ok \in BOOLEAN
    PROVE  Added(l, item, ok, Ptrs!cptrlist_append(l, item, ok))
<1> DEFINE r == Ptrs!cptrlist_append(l, item, ok)
           room == IF Ptrs!Resizes(l) THEN Ptrs!_cptrlist_resize(l, ok) ELSE l
           more == [room EXCEPT !.items = Append(room.items, item)]
<1>1. /\ l.array = TRUE \/ l.array = FALSE
      /\ l.allow_resize = TRUE \/ l.allow_resize = FALSE
      /\ ok = TRUE \/ ok = FALSE
  BY ItemsOfList
<1>2. r = CASE Ptrs!Resizes(l) /\ ~ok -> Ptrs!Answer(room, 0)
            [] ~(Ptrs!Resizes(l) /\ ~ok) /\ (~room.array \/ Ptrs!Full(room)) -> Ptrs!Fault(room)
            [] OTHER -> Ptrs!Answer(more, Len(room.items) + 1)
  BY DEF Ptrs!cptrlist_append
<1>3. \A x, y : /\ Ptrs!Answer(x, y).list = x /\ Ptrs!Answer(x, y).fault = FALSE
                /\ Ptrs!Answer(x, y).index = y
                /\ Ptrs!Fault(x).list = x /\ Ptrs!Fault(x).fault = TRUE
  BY DEF Ptrs!Answer, Ptrs!Fault
<1> HIDE DEF r
<1>4. CASE Ptrs!Resizes(l) /\ ok = FALSE
  <2>1. room = [l EXCEPT !.array = FALSE]
    BY <1>4 DEF Ptrs!_cptrlist_resize
  <2>2. room \in Lists /\ room.array = FALSE
    BY <2>1 DEF Lists
  <2> HIDE DEF room, more
  <2>3. r = Ptrs!Answer(room, 0)
    <3>1. Ptrs!Resizes(l) /\ ~ok
      BY <1>4
    <3> QED
      BY <1>2, <3>1
  <2> QED
    BY <1>3, <1>4, <2>2, <2>3 DEF Added, r
<1>5. CASE Ptrs!Resizes(l) /\ ok = TRUE
  <2>1. /\ room \in Lists /\ room.array = TRUE /\ ~Ptrs!Full(room)
        /\ l.array = TRUE => room.items = l.items
    BY <1>5, ResizeGivesRoom DEF Ptrs!Resizes
  <2> HIDE DEF room
  <2>2. more \in Lists /\ more.array = TRUE /\ Takes(room, item, more)
    BY <2>1, AppendTakes
  <2>3. /\ item = NULL \/ item \in Items(more)
        /\ l.array = TRUE => Items(l) \subseteq Items(more)
    BY <2>1, <2>2 DEF Takes, Items
  <2> HIDE DEF more
  <2>4. r = Ptrs!Answer(more, Len(room.items) + 1)
    BY <1>2, <1>5, <2>1
  <2> QED
    BY <1>3, <1>5, <2>2, <2>3, <2>4 DEF Added, r
<1>6. CASE ~Ptrs!Resizes(l)
  <2>1. room = l
    BY <1>6
  <2> HIDE DEF room
  <2>2. more \in Lists /\ more.array = l.array /\ Takes(l, item, more)
    BY <2>1, AppendTakes
  <2> HIDE DEF more
  <2>3. CASE l.array = FALSE \/ Ptrs!Full(l)
    <3>1. r = Ptrs!Fault(l)
      BY <1>2, <1>6, <2>1, <2>3
    <3>2. l.array = FALSE \/ (Ptrs!Full(l) /\ l.allow_resize = FALSE)
      BY <1>1, <1>6, <2>3 DEF Ptrs!Resizes
    <3> QED
      BY <1>3, <1>6, <3>1, <3>2 DEF Added, r
  <2>4. CASE ~(l.array = FALSE \/ Ptrs!Full(l))
    <3>1. r = Ptrs!Answer(more, Len(room.items) + 1)
      BY <1>1, <1>2, <1>6, <2>1, <2>4
    <3> QED
      BY <1>1, <1>3, <1>6, <2>2, <2>4, <3>1 DEF Added, Takes, r
  <2> QED
    BY <2>3, <2>4
<1> QED
  BY <1>1, <1>4, <1>5, <1>6

\* So does cptrlist_insert_or_append.
LEMMA InsertAdds ==
    ASSUME NEW l \in Lists, NEW item \in Pointers, NEW ok \in BOOLEAN
    PROVE  Added(l, item, ok, Ptrs!cptrlist_insert_or_append(l, item, ok))
<1> DEFINE r == Ptrs!cptrlist_insert_or_append(l, item, ok)
           empty == Ptrs!SlotsOf(l, NULL)
           i == Min(empty)
<1>1. /\ l.array = TRUE \/ l.array = FALSE
      /\ Len(l.items) \in Nat /\ DOMAIN l.items = 1 .. Len(l.items)
  BY ItemsOfList
<1>2. r = CASE ~l.array /\ l.items # << >> -> Ptrs!Fault(l)
            [] l.array /\ empty # {} -> Ptrs!Answer([l EXCEPT !.items[i] = item], i)
            [] OTHER -> Ptrs!cptrlist_append(l, item, ok)
  BY DEF Ptrs!cptrlist_insert_or_append, Ptrs!Min, Min
<1>3. \A x, y : /\ Ptrs!Answer(x, y).list = x /\ Ptrs!Answer(x, y).fault = FALSE
                /\ Ptrs!Answer(x, y).index = y
                /\ Ptrs!Fault(x).list = x /\ Ptrs!Fault(x).fault = TRUE
  BY DEF Ptrs!Answer, Ptrs!Fault
<1>4. empty = {k \in 1 .. Len(l.items) : l.items[k] = NULL}
  BY <1>1 DEF Ptrs!SlotsOf
<1> HIDE DEF r, empty
<1>5. empty # {} => i \in 1 .. Len(l.items) /\ l.items[i] = NULL
  <2>1. empty \in SUBSET Nat
    BY <1>1, <1>4
  <2> QED
    BY <1>4, <2>1, MinProperties
<1> HIDE DEF i
<1>6. CASE l.array = FALSE /\ l.items # << >>
  <2>1. r = Ptrs!Fault(l)
    BY <1>2, <1>6
  <2> QED
    BY <1>3, <1>6, <2>1 DEF Added, r
<1>7. CASE l.array = TRUE /\ empty # {}
  <2>1. r = Ptrs!Answer([l EXCEPT !.items[i] = item], i)
    BY <1>2, <1>7
  <2> DEFINE m == [l EXCEPT !.items[i] = item]
  <2>2. m \in Lists /\ m.array = l.array /\ Takes(l, item, m)
    BY <1>5, <1>7, FillTakes
  <2> HIDE DEF m
  <2>3. r.list = m /\ r.fault = FALSE /\ r.index = i /\ i # 0
    BY <1>3, <1>5, <1>7, <2>1 DEF m
  <2> QED
    BY <1>7, <2>2, <2>3 DEF Added, Takes, r
<1>8. CASE ~(l.array = FALSE /\ l.items # << >>) /\ ~(l.array = TRUE /\ empty # {})
  <2>1. r = Ptrs!cptrlist_append(l, item, ok)
    BY <1>1, <1>2, <1>8
  <2> QED
    BY <2>1, AppendAdds DEF r
<1> QED
  BY <1>6, <1>7, <1>8

\* What comes of freeing a slot: nothing, or its item is freed, and is listed
\* no more if the slot was the last one.
LEMMA FreeAtIsFreed ==
    ASSUME NEW l \in Lists, NEW index \in Nat
    PROVE  LET r == Ptrs!cptrlist_free_at(l, index)
           IN  /\ r.list \in Lists /\ r.list.array = l.array
               /\ r.fault = TRUE \/ r.fault = FALSE
               /\ r.fault = TRUE => l.array = FALSE /\ r.freed = << >> /\ r.list = l
               /\ \/ r.freed = << >> /\ r.list = l
                  \/ \E p \in Items(l) : /\ r.freed = <<p>>
                                         /\ Items(l) \subseteq Items(r.list) \cup {p}
<1> DEFINE r == Ptrs!cptrlist_free_at(l, index)
           n == Len(l.items)
           p == l.items[index]
           d == IF index = n THEN Ptrs!DropLast(l) ELSE l
<1>1. /\ n \in Nat /\ DOMAIN l.items = 1 .. n
      /\ \A q : q \in Items(l) <=> q # NULL /\ \E k \in 1 .. n : l.items[k] = q
      /\ l.array = TRUE \/ l.array = FALSE
  BY ItemsOfList
<1>2. r = CASE index \notin 1 .. n -> Ptrs!Freed(l, << >>)
            [] index \in 1 .. n /\ ~l.array -> Ptrs!FreeFault(l)
            [] index \in 1 .. n /\ l.array /\ p = NULL -> Ptrs!Freed(l, << >>)
            [] OTHER -> Ptrs!Freed(d, <<p>>)
  BY <1>1 DEF Ptrs!cptrlist_free_at
<1>3. /\ \A x, y : Ptrs!Freed(x, y).list = x /\ Ptrs!Freed(x, y).freed = y
                   /\ Ptrs!Freed(x, y).fault = FALSE
      /\ \A x : /\ Ptrs!FreeFault(x).fault = TRUE /\ Ptrs!FreeFault(x).list = x
                /\ Ptrs!FreeFault(x).freed = << >>
  BY DEF Ptrs!Freed, Ptrs!FreeFault
<1> HIDE DEF r
<1>4. CASE index \notin 1 .. n \/ (l.array = TRUE /\ p = NULL)
  <2>1. r = Ptrs!Freed(l, << >>)
    BY <1>2, <1>4
  <2> QED
    BY <1>3, <2>1 DEF r
<1>5. CASE index \in 1 .. n /\ l.array = FALSE
  <2>1. r = Ptrs!FreeFault(l)
    BY <1>2, <1>5
  <2> QED
    BY <1>3, <1>5, <2>1 DEF r
<1>6. CASE index \in 1 .. n /\ l.array = TRUE /\ p # NULL
  <2>1. r = Ptrs!Freed(d, <<p>>)
    BY <1>2, <1>6
  <2>2. p \in Items(l)
    BY <1>1, <1>6
  <2>3. d \in Lists /\ d.array = l.array /\ Items(l) \subseteq Items(d) \cup {p}
    <3>1. CASE index = n
      <4>1. l.items # << >>
        BY <1>1, <1>6, EmptySeq
      <4>2. d = Ptrs!DropLast(l)
        BY <3>1
      <4> HIDE DEF d
      <4>3. /\ d \in Lists /\ d.array = l.array /\ Len(d.items) = n - 1
            /\ \A k \in 1 .. n - 1 : d.items[k] = l.items[k]
        BY <4>1, <4>2, Shorter
      <4>4. ASSUME NEW q, q \in Items(l), q # p
            PROVE  q \in Items(d)
        <5>1. q # NULL
          BY <1>1, <4>4
        <5>2. PICK k \in 1 .. n : l.items[k] = q
          BY <1>1, <4>4
        <5>3. k \in 1 .. n - 1
          BY <1>1, <3>1, <4>4, <5>2
        <5>4. k \in 1 .. Len(d.items) /\ d.items[k] = q
          BY <4>3, <5>2, <5>3
        <5> QED
          BY <4>3, <5>1, <5>4, ItemsOfList
      <4> QED
        BY <4>3, <4>4
    <3>2. CASE index # n
      BY <3>2
    <3> QED
      BY <3>1, <3>2
  <2> HIDE DEF d, p
  <2> QED
    BY <1>3, <2>1, <2>2, <2>3 DEF r
<1> QED
  BY <1>1, <1>4, <1>5, <1>6
-----------------------------------------------------------------------------
(* Every string has an owner, and every crash its cause.                     *)

Mine == {held[h] : h \in Holders}

ListOK == list \in Lists /\ fails \in Nat

OwnInv == IInv /\ ListOK

\* A variable gives up a string, memory being short.
Drops(p) == fails' > fails /\ \E h \in Holders : held[h] = p /\ held'[h] = NULL

\* No string is lost without an allocation that fails.
Loses ==
    phase' \notin Functions =>
      \A p \in Orphans' \ Orphans :
          /\ fails' > fails
          /\ \/ \E h \in Holders : held[h] = p /\ held'[h] = NULL
             \/ p \in Listed /\ ~list'.array

Caused ==
    phase' \in Functions =>
      CASE phase' = "mcfg_string_append" -> \E g \in Holders : held[g] = NULL
        [] phase' \in {"cptrlist_append", "cptrlist_insert_or_append"} ->
              ~list.array \/ (Ptrs!Full(list) /\ ~list.allow_resize)
        [] phase' \in {"cptrlist_free", "cptrlist_find"} -> ~list.array
        [] OTHER -> ~list.array \/ StaleSlots # {}

\* What a variable holds is a pointer, and one to a string if it is not NULL.
LEMMA HeldPointer ==
    ASSUME IInv, NEW h \in Holders
    PROVE  held[h] \in Pointers /\ (held[h] # NULL => held[h] \in Live)
<1>1. Len(heap) \in Nat /\ DOMAIN heap = 1 .. Len(heap)
  BY LenProperties DEF IInv
<1> QED
  BY <1>1 DEF IInv, Holds, Pointers, Live

\* A string is listed, by a list that has its array, or some variable's.
LEMMA OrphanIs ==
    /\ \A p : p \in Orphans <=>
          p \in Live /\ p \notin Mine /\ (list.array => p \notin Items(list))
    /\ \A p : p \in Orphans' <=>
          p \in Live' /\ p \notin Mine' /\ (list'.array => p \notin Items(list'))
BY DEF Orphans, Owned, Mine, Listed, Items

\* A call that leaves the list alone, and no string without a variable that
\* had one, unless memory is short.
LEMMA OpenStep ==
    ASSUME OwnInv, phase = "open", phase' = phase, list' = list, fails' \in Nat,
           \A p \in Live' \ Mine' : p \in Live \ Mine \/ Drops(p)
    PROVE  ListOK' /\ Loses /\ Caused
<1>1. phase \notin Functions
  BY DEF Functions
<1>2. ListOK'
  BY DEF OwnInv, ListOK
<1>3. ASSUME NEW p \in Orphans' \ Orphans
      PROVE  Drops(p)
  <2>1. p \in Live' \ Mine' /\ (list.array => p \notin Items(list))
    BY <1>3, OrphanIs
  <2>2. ~(p \in Live \ Mine)
    BY <1>3, <2>1, OrphanIs
  <2> QED
    BY <2>1, <2>2
<1>4. Loses
  BY <1>3 DEF Loses, Drops
<1> QED
  BY <1>1, <1>2, <1>4 DEF Caused

\* A call that memory is too short for costs one variable its string at most.
LEMMA ShortStep ==
    ASSUME OwnInv, phase = "open", UNCHANGED <<heap, list, phase>>, Fail,
           held' = held \/ \E h \in Holders : held' = [held EXCEPT ![h] = NULL]
    PROVE  ListOK' /\ Loses /\ Caused
<1>1. fails' \in Nat /\ fails' > fails
  BY DEF Fail, OwnInv, ListOK
<1>2. \A h \in Holders : held'[h] = held[h] \/ held'[h] = NULL
  BY DEF OwnInv, IInv
<1>3. ASSUME NEW p \in Live' \ Mine'
      PROVE  p \in Live \ Mine \/ Drops(p)
  <2>1. p \in Live
    BY <1>3 DEF Live
  <2>2. CASE p \in Mine
    <3>1. PICK h \in Holders : held[h] = p
      BY <2>2 DEF Mine
    <3>2. held'[h] = NULL
      BY <1>2, <1>3, <3>1 DEF Mine
    <3> QED
      BY <1>1, <3>1, <3>2 DEF Drops
  <2> QED
    BY <2>1, <2>2
<1> QED
  BY <1>1, <1>3, OpenStep

\* A new string is its variable's.
LEMMA CreateOwned ==
    ASSUME OwnInv, phase = "open", NEW h \in Holders, NEW string, Create(h, string)
    PROVE  ListOK' /\ Loses /\ Caused
<1>1. CASE UNCHANGED <<heap, held>> /\ Fail
  BY <1>1, ShortStep DEF Create
<1>2. CASE /\ heap' = Append(heap, string) /\ held' = [held EXCEPT ![h] = Len(heap) + 1]
           /\ fails' = fails
  <2>1. /\ heap \in Seq(Block \cup {NULL}) /\ Len(heap) \in Nat /\ DOMAIN heap = 1 .. Len(heap)
        /\ held \in [Holders -> (1 .. Len(heap)) \cup {NULL}]
    BY LenProperties DEF OwnInv, IInv
  <2>2. /\ DOMAIN heap' = 1 .. Len(heap) + 1
        /\ \A p \in 1 .. Len(heap) : heap'[p] = heap[p]
    <3>1. heap \in Seq(Block \cup {NULL, string})
      BY <2>1, SeqMonotonic
    <3>2. heap' \in Seq(Block \cup {NULL, string}) /\ Len(heap') = Len(heap) + 1
          /\ \A p \in 1 .. Len(heap) : heap'[p] = heap[p]
      BY <1>2, <3>1, AppendProperties
    <3> QED
      BY <3>2, LenProperties
  <2>3. held'[h] = Len(heap) + 1 /\ \A g \in Holders \ {h} : held'[g] = held[g]
    BY <1>2, <2>1
  <2>4. ASSUME NEW p \in Live', p \notin Mine'
        PROVE  p \in Live \ Mine
    <3>1. p \in 1 .. Len(heap) + 1 /\ p # Len(heap) + 1
      BY <2>2, <2>3, <2>4 DEF Live, Mine
    <3>2. p \in 1 .. Len(heap) /\ heap'[p] = heap[p] /\ p \in Nat
      BY <2>1, <2>2, <3>1
    <3>3. p \in Live
      BY <2>1, <2>4, <3>2 DEF Live
    <3>4. held[h] = NULL /\ NULL # p
      BY <3>2, NullIsNoBlock DEF Create
    <3>5. p \notin Mine
      BY <2>3, <2>4, <3>4 DEF Mine
    <3> QED
      BY <3>3, <3>5
  <2>5. phase' = phase /\ list' = list /\ fails' \in Nat
    BY <1>2 DEF Create, OwnInv, ListOK
  <2> QED
    BY <2>4, <2>5, OpenStep
<1> QED
  BY <1>1, <1>2 DEF Create

\* A string that is appended to in place stays whose it was.
LEMMA InPlaceOwned ==
    ASSUME OwnInv, phase = "open", NEW h \in Holders, held[h] # NULL, NEW text, NEW len,
           InPlace(h, text, len), UNCHANGED <<list, phase>>
    PROVE  ListOK' /\ Loses /\ Caused
<1>1. /\ DOMAIN heap' = DOMAIN heap
      /\ \A p \in DOMAIN heap : p # held[h] => heap'[p] = heap[p]
  BY DEF InPlace
<1>2. held[h] \in Live /\ Mine' = Mine
  BY HeldPointer DEF OwnInv, InPlace, Mine
<1>3. Live' \subseteq Live
  BY <1>1, <1>2 DEF Live
<1>4. fails' \in Nat
  BY DEF InPlace, OwnInv, ListOK
<1> QED
  BY <1>2, <1>3, <1>4, OpenStep

\* A string that moves takes the variable along.
LEMMA MovedOwned ==
    ASSUME OwnInv, phase = "open", NEW h \in Holders, held[h] # NULL,
           NEW text \in Seq(Chars), Moved(h, text, Len(text)), UNCHANGED <<list, phase>>
    PROVE  ListOK' /\ Loses /\ Caused
<1> DEFINE p == held[h]
           n == Len(heap) + 1
           c == string_append(heap[p], text, Len(text))
           old == [heap EXCEPT ![p] = NULL]
<1>1. /\ p \in 1 .. Len(heap) /\ heap[p] \in Block /\ Len(heap) \in Nat
      /\ heap \in Seq(Block \cup {NULL}) /\ DOMAIN heap = 1 .. Len(heap)
  BY HeldBlock, LenProperties DEF OwnInv, IInv
<1>2. c \in Block
  BY <1>1, AppendFits
<1>3. heap' = Append(old, c) /\ held' = [held EXCEPT ![h] = n] /\ fails' = fails
  BY DEF Moved
<1> HIDE DEF c
<1>4. /\ old \in Seq(Block \cup {NULL}) /\ Len(old) = Len(heap)
      /\ \A q \in 1 .. Len(heap) : old[q] = IF q = p THEN NULL ELSE heap[q]
  BY <1>1, ExceptSeq
<1> HIDE DEF old
<1>5. /\ DOMAIN heap' = 1 .. n
      /\ \A q \in 1 .. Len(heap) : heap'[q] = old[q]
  <2>1. /\ heap' \in Seq(Block \cup {NULL}) /\ Len(heap') = n
        /\ \A q \in 1 .. Len(heap) : heap'[q] = old[q]
    BY <1>2, <1>3, <1>4, AppendProperties
  <2> QED
    BY <2>1, LenProperties
<1>6. held'[h] = n /\ \A g \in Holders \ {h} : held'[g] = held[g]
  BY <1>3 DEF OwnInv, IInv
<1>7. ASSUME NEW q \in Live', q \notin Mine'
      PROVE  q \in Live \ Mine
  <2>1. q \in 1 .. n /\ q # n
    BY <1>5, <1>6, <1>7 DEF Live, Mine
  <2>2. q \in 1 .. Len(heap) /\ heap'[q] = old[q]
    BY <1>1, <1>5, <2>1
  <2>3. q # p /\ q \in Live
    BY <1>1, <1>4, <1>7, <2>2 DEF Live
  <2>4. q \notin Mine
    BY <1>6, <1>7, <2>3 DEF Mine
  <2> QED
    BY <2>3, <2>4
<1>8. fails' \in Nat
  BY <1>3 DEF OwnInv, ListOK
<1> QED
  BY <1>7, <1>8, OpenStep

\* Bytes are appended without a string losing its owner,
LEMMA AppendCStringOwned ==
    ASSUME OwnInv, phase = "open", NEW h \in Holders, NEW text \in Initials,
           AppendCString(h, text)
    PROVE  ListOK' /\ Loses /\ Caused
<1>1. text \in Seq(Chars) /\ UNCHANGED <<list, phase>>
  BY BuffersAssumption DEF AppendCString
<1>2. CASE held[h] = NULL
  <2>1. heap' = heap /\ held' = held /\ fails' = fails /\ fails' \in Nat
    BY <1>2 DEF AppendCString, NoString, OwnInv, ListOK
  <2>2. Live' = Live /\ Mine' = Mine
    BY <2>1 DEF Live, Mine
  <2> QED
    BY <1>1, <2>1, <2>2, OpenStep
<1>3. CASE held[h] # NULL
  <2>1. InPlace(h, text, Len(text)) \/ Moved(h, text, Len(text)) \/ Unmoved(h, Len(text))
    BY <1>3 DEF AppendCString
  <2>2. CASE Unmoved(h, Len(text))
    BY <1>1, <2>2, ShortStep DEF Unmoved
  <2> QED
    BY <1>1, <1>3, <2>1, <2>2, InPlaceOwned, MovedOwned
<1> QED
  BY <1>2, <1>3

\* and so is a string, if it is there.
LEMMA AppendStringOwned ==
    ASSUME OwnInv, phase = "open", NEW h \in Holders, NEW g \in Holders, AppendString(h, g)
    PROVE  ListOK' /\ Loses /\ Caused
<1>1. CASE held[g] = NULL
  <2>1. phase' = "mcfg_string_append" /\ UNCHANGED <<heap, held, list, fails>>
    BY <1>1 DEF AppendString, Crashes
  <2>2. "mcfg_string_append" \in Functions
    BY DEF Functions
  <2>3. ListOK' /\ Loses
    BY <2>1, <2>2 DEF OwnInv, ListOK, Loses
  <2> QED
    BY <1>1, <2>1, <2>3 DEF Caused
<1>2. CASE held[g] # NULL /\ held[h] = NULL
  <2>1. /\ heap' = heap /\ held' = held /\ fails' = fails /\ fails' \in Nat
        /\ UNCHANGED <<list, phase>>
    BY <1>2 DEF AppendString, NoString, OwnInv, ListOK
  <2>2. Live' = Live /\ Mine' = Mine
    BY <2>1 DEF Live, Mine
  <2> QED
    BY <2>1, <2>2, OpenStep
<1>3. CASE held[g] # NULL /\ held[h] # NULL
  <2> DEFINE b == heap[held[g]]
  <2>1. b.text \in Seq(Chars) /\ b.length = Len(b.text) /\ UNCHANGED <<list, phase>>
    BY <1>3, HeldBlock DEF AppendString, OwnInv
  <2>2. \A text \in Remains(b.text) : text \in Seq(Chars) /\ Len(text) = b.length
    <3>1. Len(b.text) \in Nat /\ DOMAIN b.text = 1 .. Len(b.text)
      BY <2>1, LenProperties
    <3>2. SUFFICES ASSUME NEW text \in [1 .. Len(b.text) -> Chars]
                   PROVE  text \in Seq(Chars) /\ Len(text) = Len(b.text)
      BY <2>1, <3>1 DEF Remains
    <3>3. text \in Seq(Chars)
      BY <3>1, SeqDef
    <3> QED
      BY <3>1, <3>3, LenProperties
  <2>3. CASE InPlace(h, b.text, b.length)
    BY <1>3, <2>1, <2>3, InPlaceOwned
  <2>4. ASSUME NEW text \in Remains(b.text) \cup {b.text}, Moved(h, text, b.length)
        PROVE  ListOK' /\ Loses /\ Caused
    BY <1>3, <2>1, <2>2, <2>4, MovedOwned
  <2>5. CASE Unmoved(h, b.length)
    BY <2>1, <2>5, ShortStep DEF Unmoved
  <2> QED
    BY <1>3, <2>3, <2>4, <2>5 DEF AppendString
<1> QED
  BY <1>1, <1>2, <1>3

\* Freeing a string leaves the others their owners.
LEMMA FreeStringOwned ==
    ASSUME OwnInv, phase = "open", NEW h \in Holders, FreeString(h)
    PROVE  ListOK' /\ Loses /\ Caused
<1>1. /\ DOMAIN heap' = DOMAIN heap
      /\ \A p \in DOMAIN heap : heap'[p] = IF p = held[h] THEN NULL ELSE heap[p]
      /\ \A g \in Holders : held'[g] = IF held[g] = held[h] THEN NULL ELSE held[g]
      /\ fails' \in Nat /\ UNCHANGED <<list, phase>>
  BY DEF FreeString, OwnInv, ListOK
<1>2. ASSUME NEW p \in Live', p \notin Mine'
      PROVE  p \in Live \ Mine
  <2>1. p # held[h] /\ p \in Live
    BY <1>1, <1>2 DEF Live
  <2>2. p \notin Mine
    BY <1>1, <1>2, <2>1 DEF Mine
  <2> QED
    BY <2>1, <2>2
<1> QED
  BY <1>1, <1>2, OpenStep

\* The list: what it is given is listed, and what leaves it is freed.
LEMMA GiveOwned ==
    ASSUME OwnInv, phase = "open", NEW h \in Holders,
           NEW call \in {"cptrlist_append", "cptrlist_insert_or_append"},
           NEW add, \A ok \in BOOLEAN : Added(list, held[h], ok, add[ok]),
           Give(h, call, add)
    PROVE  ListOK' /\ Loses /\ Caused
<1>1. PICK ok \in BOOLEAN :
         /\ list' = add[ok].list
         /\ phase' = IF add[ok].fault THEN call ELSE phase
         /\ IF ok THEN /\ UNCHANGED fails
                       /\ held' \in {held, [held EXCEPT ![h] = NULL]}
                  ELSE /\ Ptrs!Resizes(list) /\ add[ok].index = 0 /\ Fail
                       /\ UNCHANGED held
  BY DEF Give
<1> DEFINE r == add[ok]
<1>2. /\ r.list \in Lists /\ (r.fault = TRUE \/ r.fault = FALSE)
      /\ r.fault = TRUE => list.array = FALSE \/ (Ptrs!Full(list) /\ list.allow_resize = FALSE)
      /\ ok = TRUE /\ r.fault = FALSE =>
            /\ r.list.array = TRUE
            /\ held[h] = NULL \/ held[h] \in Items(r.list)
            /\ list.array = TRUE => Items(list) \subseteq Items(r.list)
      /\ ok = FALSE /\ Ptrs!Resizes(list) /\ r.index = 0 => r.list.array = FALSE
  BY DEF Added
<1>3. /\ list' = r.list /\ phase' = IF r.fault THEN call ELSE phase
      /\ ok = FALSE => Ptrs!Resizes(list) /\ r.index = 0 /\ Fail /\ held' = held
      /\ ok = TRUE => fails' = fails /\ held' \in {held, [held EXCEPT ![h] = NULL]}
  BY <1>1
<1> HIDE DEF r
<1>4. /\ heap' = heap /\ Live' = Live /\ call \in Functions /\ phase \notin Functions
      /\ fails \in Nat /\ fails + 1 > fails /\ fails + 1 \in Nat
      /\ list.array = TRUE \/ list.array = FALSE
      /\ list.allow_resize = TRUE \/ list.allow_resize = FALSE
  BY ItemsOfList DEF Functions, OwnInv, ListOK, Give, Live
<1>5. Caused
  <2>1. CASE r.fault = TRUE
    <3>1. phase' = call /\ call # "mcfg_string_append"
      BY <1>3, <2>1
    <3> QED
      BY <1>2, <1>4, <2>1, <3>1 DEF Caused
  <2>2. CASE r.fault = FALSE
    BY <1>3, <1>4, <2>2 DEF Caused
  <2> QED
    BY <1>2, <2>1, <2>2
<1>6. CASE ok = FALSE
  <2>1. fails' = fails + 1 /\ held' = held /\ list'.array = FALSE
    BY <1>2, <1>3, <1>6 DEF Fail
  <2>2. ListOK'
    BY <1>2, <1>3, <1>4, <2>1 DEF ListOK
  <2>3. ASSUME NEW p \in Orphans' \ Orphans
        PROVE  p \in Listed /\ ~list'.array /\ fails' > fails
    <3>1. Mine' = Mine
      BY <2>1 DEF Mine
    <3>2. p \in Items(list)
      BY <1>4, <2>3, <3>1, OrphanIs
    <3> QED
      BY <1>4, <2>1, <3>2 DEF Items, Listed
  <2>4. Loses
    BY <2>3 DEF Loses
  <2> QED
    BY <1>5, <2>2, <2>4
<1>7. CASE ok = TRUE
  <2>1. fails' = fails /\ held' \in {held, [held EXCEPT ![h] = NULL]}
    BY <1>3, <1>7
  <2>2. ListOK'
    BY <1>2, <1>3, <1>4, <2>1 DEF ListOK
  <2>3. ASSUME phase' \notin Functions, NEW p \in Orphans'
        PROVE  p \in Orphans
    <3>1. r.fault = FALSE
      BY <1>2, <1>3, <1>4, <2>3
    <3>2. p \in Live /\ p \notin Mine' /\ p \notin Items(list')
      BY <1>2, <1>3, <1>4, <1>7, <2>3, <3>1, OrphanIs
    <3>3. NULL \notin Live
      <4>1. heap \in Seq(Block \cup {NULL})
        BY DEF OwnInv, IInv
      <4>2. DOMAIN heap = 1 .. Len(heap) /\ Len(heap) \in Nat
        BY <4>1, LenProperties
      <4> QED
        BY <4>2, NullIsNoBlock DEF Live
    <3>4. p # held[h]
      BY <1>2, <1>3, <1>7, <3>1, <3>2, <3>3
    <3>5. \A g \in Holders : held'[g] = held[g] \/ g = h
      BY <2>1 DEF OwnInv, IInv
    <3>6. p \notin Mine
      BY <3>2, <3>4, <3>5 DEF Mine
    <3>7. list.array = TRUE => p \notin Items(list)
      BY <1>2, <1>3, <1>7, <3>1, <3>2
    <3> QED
      BY <1>4, <3>2, <3>6, <3>7, OrphanIs
  <2>4. Loses
    BY <2>3 DEF Loses
  <2> QED
    BY <1>5, <2>2, <2>4
<1> QED
  BY <1>6, <1>7

\* The two functions that add do so.
LEMMA AppendItemOwned ==
    ASSUME OwnInv, phase = "open", NEW h \in Holders, AppendItem(h) \/ InsertItem(h)
    PROVE  ListOK' /\ Loses /\ Caused
<1>1. list \in Lists /\ held[h] \in Pointers
  BY HeldPointer DEF OwnInv, ListOK
<1>2. CASE AppendItem(h)
  <2> DEFINE add == [ok \in BOOLEAN |-> Ptrs!cptrlist_append(list, held[h], ok)]
  <2>1. \A ok \in BOOLEAN : Added(list, held[h], ok, add[ok])
    BY <1>1, AppendAdds
  <2>2. Give(h, "cptrlist_append", add)
    BY <1>2 DEF AppendItem
  <2> HIDE DEF add
  <2> QED
    BY <2>1, <2>2, GiveOwned
<1>3. CASE InsertItem(h)
  <2> DEFINE add == [ok \in BOOLEAN |-> Ptrs!cptrlist_insert_or_append(list, held[h], ok)]
  <2>1. \A ok \in BOOLEAN : Added(list, held[h], ok, add[ok])
    BY <1>1, InsertAdds
  <2>2. Give(h, "cptrlist_insert_or_append", add)
    BY <1>3 DEF InsertItem
  <2> HIDE DEF add
  <2> QED
    BY <2>1, <2>2, GiveOwned
<1> QED
  BY <1>2, <1>3

\* What a release takes off the list it frees.
LEMMA ReleaseOwned ==
    ASSUME OwnInv, phase = "open", NEW call \in Functions, NEW result, NEW then,
           result.list \in Lists, list.array = TRUE => result.list.array = TRUE,
           result.fault = TRUE \/ result.fault = FALSE,
           \/ result.fault = TRUE
           \/ Items(list) \subseteq Items(result.list) \cup ToSet(result.freed),
           Release(call, result, then)
    PROVE  ListOK' /\ Loses
<1> DEFINE freed == ToSet(result.freed)
<1>1. /\ list' = result.list /\ fails' = fails
      /\ heap' = [p \in DOMAIN heap |-> IF p \in freed THEN NULL ELSE heap[p]]
      /\ held' = [h \in Holders |-> IF held[h] \in freed THEN NULL ELSE held[h]]
      /\ result.fault = TRUE => phase' = call
  BY DEF Release
<1> HIDE DEF freed
<1>2. ListOK'
  BY <1>1 DEF OwnInv, ListOK
<1>3. ASSUME phase' \notin Functions, NEW p \in Orphans'
      PROVE  p \in Orphans
  <2>1. p \in Live' /\ p \notin Mine' /\ (list'.array => p \notin Items(list'))
    BY <1>3, OrphanIs
  <2>2. p \in Live /\ p \notin freed
    BY <1>1, <2>1 DEF Live
  <2>3. p \notin Mine
    BY <1>1, <2>1, <2>2 DEF Mine
  <2>4. Items(list) \subseteq Items(list') \cup freed
    BY <1>1, <1>3 DEF freed
  <2>5. list.array = TRUE \/ list.array = FALSE
    BY ItemsOfList DEF OwnInv, ListOK
  <2>6. list.array = TRUE => p \notin Items(list)
    BY <1>1, <2>1, <2>2, <2>4
  <2> QED
    BY <2>2, <2>3, <2>5, <2>6, OrphanIs
<1>4. Loses
  BY <1>3 DEF Loses
<1> QED
  BY <1>2, <1>4

\* A release of strings that are there, each once, does not end the program.
LEMMA ReleaseGoesOn ==
    ASSUME NEW call, NEW result, NEW then, result.fault = FALSE,
           ToSet(result.freed) \subseteq Live,
           Cardinality(ToSet(result.freed)) = Len(result.freed),
           Release(call, result, then)
    PROVE  phase' = then
BY DEF Release

\* No pointer, or one.
LEMMA FewPointers ==
    /\ ToSet(<< >>) = {} /\ Cardinality(ToSet(<< >>)) = Len(<< >>)
    /\ \A p : ToSet(<<p>>) = {p} /\ Cardinality(ToSet(<<p>>)) = Len(<<p>>)
<1>1. ToSet(<< >>) = {} /\ Len(<< >>) = 0
  BY DEF ToSet
<1>2. ASSUME NEW p PROVE ToSet(<<p>>) = {p} /\ Len(<<p>>) = 1
  BY DEF ToSet
<1> QED
  BY <1>1, <1>2, FS_EmptySet, FS_Singleton

\* A slot is freed.
LEMMA FreeAtOwned ==
    ASSUME OwnInv, phase = "open", NEW k \in Nat, FreeAt(k)
    PROVE  ListOK' /\ Loses /\ Caused
<1> DEFINE r == Ptrs!cptrlist_free_at(list, k)
<1>1. /\ r.list \in Lists /\ r.list.array = list.array
      /\ r.fault = TRUE \/ r.fault = FALSE
      /\ r.fault = TRUE => list.array = FALSE
      /\ \/ r.freed = << >> /\ r.list = list
         \/ \E p \in Items(list) : /\ r.freed = <<p>>
                                   /\ Items(list) \subseteq Items(r.list) \cup {p}
  BY FreeAtIsFreed DEF OwnInv, ListOK
<1>2. Release("cptrlist_free_at", r, phase)
  BY DEF FreeAt
<1> HIDE DEF r
<1>3. /\ Items(list) \subseteq Items(r.list) \cup ToSet(r.freed)
      /\ ToSet(r.freed) \subseteq Items(list)
      /\ Cardinality(ToSet(r.freed)) = Len(r.freed)
  BY <1>1, FewPointers
<1>4. "cptrlist_free_at" \in Functions /\ phase \notin Functions
  BY DEF Functions
<1>5. ListOK' /\ Loses
  BY <1>1, <1>2, <1>3, <1>4, ReleaseOwned
<1>6. Caused
  <2>1. phase' = "cptrlist_free_at" \/ phase' = phase
    BY <1>2 DEF Release
  <2>2. CASE list.array = TRUE /\ StaleSlots = {}
    <3>1. ToSet(r.freed) \subseteq Live /\ r.fault = FALSE
      BY <1>1, <1>3, <2>2 DEF StaleSlots, Listed, Items
    <3>2. phase' = phase
      BY <1>2, <1>3, <3>1, ReleaseGoesOn
    <3> QED
      BY <1>4, <3>2 DEF Caused
  <2>3. CASE ~(list.array = TRUE /\ StaleSlots = {})
    <3>1. ~list.array \/ StaleSlots # {}
      BY <2>3
    <3> QED
      BY <1>4, <2>1, <3>1 DEF Caused
  <2> QED
    BY <2>2, <2>3
<1> QED
  BY <1>5, <1>6

\* A string is looked for, and its slot freed.
LEMMA FreeFoundOwned ==
    ASSUME OwnInv, phase = "open", NEW h \in Holders, FreeFound(h)
    PROVE  ListOK' /\ Loses /\ Caused
<1> DEFINE l == list
           hits == {k \in DOMAIN l.items : l.items[k] \in {held[h]}}
           found == Ptrs!cptrlist_find(list, {held[h]})
<1>1. /\ list \in Lists /\ (list.array = TRUE \/ list.array = FALSE)
      /\ Len(list.items) \in Nat /\ DOMAIN list.items = 1 .. Len(list.items)
  BY ItemsOfList DEF OwnInv, ListOK
<1>2. found = CASE ~l.array /\ l.items # << >> -> Ptrs!Fault(l)
                [] l.array /\ hits # {} -> Ptrs!Answer(l, Min(hits))
                [] OTHER -> Ptrs!Answer(l, 0)
  BY DEF Ptrs!cptrlist_find, Ptrs!Min, Min
<1>3. \A x, y : /\ Ptrs!Answer(x, y).index = y /\ Ptrs!Answer(x, y).fault = FALSE
                /\ Ptrs!Fault(x).index = 0 /\ Ptrs!Fault(x).fault = TRUE
  BY DEF Ptrs!Answer, Ptrs!Fault
<1>4. hits # {} => Min(hits) \in Nat
  <2>1. hits \in SUBSET Nat
    BY <1>1
  <2> QED
    BY <2>1, MinProperties
<1>5. IF found.fault THEN Crashes("cptrlist_find") ELSE FreeAt(found.index)
  BY DEF FreeFound
<1> HIDE DEF found, hits
<1>6. CASE l.array = FALSE /\ l.items # << >>
  <2>1. found.fault = TRUE
    BY <1>2, <1>3, <1>6
  <2>2. phase' = "cptrlist_find" /\ UNCHANGED <<heap, held, list, fails>>
    BY <1>5, <2>1 DEF Crashes
  <2>3. "cptrlist_find" \in Functions
    BY DEF Functions
  <2> QED
    BY <1>6, <2>2, <2>3 DEF OwnInv, ListOK, Loses, Caused
<1>7. CASE ~(l.array = FALSE /\ l.items # << >>)
  <2>1. found.fault = FALSE /\ found.index \in Nat
    <3>1. CASE l.array = TRUE /\ hits # {}
      BY <1>2, <1>3, <1>4, <3>1
    <3>2. CASE ~(l.array = TRUE /\ hits # {})
      <4>1. found = Ptrs!Answer(l, 0)
        BY <1>1, <1>2, <1>7, <3>2
      <4> QED
        BY <1>3, <4>1
    <3> QED
      BY <3>1, <3>2
  <2> QED
    BY <1>5, <2>1, FreeAtOwned
<1> QED
  BY <1>6, <1>7

\* A string is freed through the list.
LEMMA FreeItemOwned ==
    ASSUME OwnInv, phase = "open", NEW h \in Holders, FreeItem(h)
    PROVE  ListOK' /\ Loses /\ Caused
<1> DEFINE item == held[h]
           r == Ptrs!cptrlist_free(list, item)
<1>1. list \in Lists /\ item \in Pointers /\ item \in Live /\ item # NULL
  BY HeldPointer DEF OwnInv, ListOK, FreeItem
<1>2. IF item # NULL /\ list.items # << >> /\ list.array = FALSE
      THEN r.fault = TRUE /\ r.list = list /\ r.freed = << >>
      ELSE r.fault = FALSE /\ FreedItem(list, item, r)
  BY <1>1, FreeIsFreed
<1>3. Release("cptrlist_free", r, phase)
  BY DEF FreeItem
<1> HIDE DEF r, item
<1>4. "cptrlist_free" \in Functions /\ phase \notin Functions
  BY DEF Functions
<1>5. CASE r.fault = TRUE
  <2>1. list.array = FALSE /\ r.list = list
    BY <1>2, <1>5
  <2>2. phase' = "cptrlist_free"
    BY <1>3, <1>5 DEF Release
  <2>3. ListOK' /\ Loses
    BY <1>1, <1>3, <1>4, <1>5, <2>1, ReleaseOwned
  <2> QED
    BY <2>1, <2>2, <2>3 DEF Caused
<1>6. CASE r.fault = FALSE
  <2>1. FreedItem(list, item, r)
    BY <1>2, <1>6
  <2>2. /\ r.list \in Lists /\ r.list.array = list.array
        /\ Items(list) \subseteq Items(r.list) \cup ToSet(r.freed)
        /\ ToSet(r.freed) \subseteq {item}
        /\ Cardinality(ToSet(r.freed)) = Len(r.freed)
    BY <1>1, <2>1, FewPointers DEF FreedItem
  <2>3. ListOK' /\ Loses
    BY <1>3, <1>4, <1>6, <2>2, ReleaseOwned
  <2>4. phase' = phase
    BY <1>1, <1>3, <1>6, <2>2, ReleaseGoesOn
  <2> QED
    BY <1>4, <2>3, <2>4 DEF Caused
<1> QED
  BY <1>2, <1>5, <1>6

\* All strings of the list are freed.
LEMMA DestroyOwned ==
    ASSUME OwnInv, phase = "open", Destroy
    PROVE  ListOK' /\ Loses /\ Caused
<1> DEFINE d == Ptrs!cptrlist_destroy(list)
           r == [d EXCEPT !.list.items = << >>]
<1>1. list \in Lists
  BY DEF OwnInv, ListOK
<1>2. /\ d \in Results /\ (list.array = TRUE => d.list.array = TRUE)
      /\ IF list.items # << >> /\ list.array = FALSE
         THEN d.fault = TRUE
         ELSE /\ d.fault = FALSE /\ ToSet(d.freed) = Items(list)
              /\ Cardinality(ToSet(d.freed)) = Len(d.freed)
  BY <1>1, DestroyIsFreed
<1>3. Release("cptrlist_destroy", r, "closed")
  BY DEF Destroy
<1> HIDE DEF d
<1>4. /\ r.list = [d.list EXCEPT !.items = << >>] /\ r.freed = d.freed
      /\ r.fault = d.fault /\ d.list \in Lists
  BY <1>2 DEF Results
<1> HIDE DEF r
<1>5. r.list \in Lists /\ r.list.array = d.list.array
  <2>1. << >> \in Seq(Pointers)
    BY EmptySeq
  <2>2. \A l \in Lists : /\ [l EXCEPT !.items = << >>] \in Lists
                         /\ [l EXCEPT !.items = << >>].array = l.array
    BY <2>1, WithItems
  <2> QED
    BY <1>4, <2>2
<1>6. "cptrlist_destroy" \in Functions /\ "closed" \notin Functions
  BY DEF Functions
<1>7. r.fault = TRUE \/ r.fault = FALSE
  BY <1>2, <1>4
<1>8. r.fault = TRUE \/ Items(list) \subseteq Items(r.list) \cup ToSet(r.freed)
  BY <1>2, <1>4
<1>9. ListOK' /\ Loses
  BY <1>2, <1>3, <1>5, <1>6, <1>7, <1>8, ReleaseOwned
<1>10. Caused
  <2>1. phase' = "cptrlist_destroy" \/ phase' = "closed"
    BY <1>3 DEF Release
  <2>2. CASE list.array = TRUE /\ StaleSlots = {}
    <3>1. /\ r.fault = FALSE /\ ToSet(r.freed) = Items(list)
          /\ Cardinality(ToSet(r.freed)) = Len(r.freed)
      BY <1>2, <1>4, <2>2
    <3>2. ToSet(r.freed) \subseteq Live
      BY <2>2, <3>1 DEF StaleSlots, Listed, Items
    <3>3. phase' = "closed"
      BY <1>3, <3>1, <3>2, ReleaseGoesOn
    <3> QED
      BY <1>6, <3>3 DEF Caused
  <2>3. CASE ~(list.array = TRUE /\ StaleSlots = {})
    <3>1. ~list.array \/ StaleSlots # {}
      BY <2>3
    <3> QED
      BY <1>6, <2>1, <3>1 DEF Caused
  <2> QED
    BY <2>2, <2>3
<1> QED
  BY <1>9, <1>10

\* Leave to grow owns nothing.
LEMMA ForbidOwned ==
    ASSUME OwnInv, phase = "open", ForbidResize
    PROVE  ListOK' /\ Loses /\ Caused
<1>1. /\ list' = [list EXCEPT !.allow_resize = FALSE]
      /\ heap' = heap /\ held' = held /\ phase' = phase /\ fails' = fails
  BY DEF ForbidResize
<1>2. list' \in Lists /\ list'.array = list.array /\ list'.items = list.items
  BY <1>1 DEF OwnInv, ListOK, Lists
<1>3. Orphans' = Orphans
  BY <1>1, <1>2 DEF Orphans, Owned, Listed, Live
<1>4. ListOK' /\ Loses
  BY <1>1, <1>2, <1>3 DEF OwnInv, ListOK, Loses
<1>5. phase' \notin Functions
  BY <1>1 DEF Functions
<1> QED
  BY <1>4, <1>5 DEF Caused

\* Every step loses a string to a failing allocation only, and ends the program for a cause only.
LEMMA OwnStep ==
    ASSUME OwnInv, [Next]_vars
    PROVE  OwnInv' /\ [Loses]_vars /\ [Caused]_vars
<1>1. IInv'
  BY Stepwise DEF OwnInv
<1>2. CASE UNCHANGED vars
  <2>1. ListOK'
    BY <1>2 DEF vars, OwnInv, ListOK
  <2> QED
    BY <1>1, <1>2, <2>1 DEF OwnInv
<1>3. CASE phase = "open" /\ ~UNCHANGED vars
  <2>1. ASSUME NEW k \in DOMAIN list.items, FreeAt(k)
        PROVE  ListOK' /\ Loses /\ Caused
    <3>1. k \in Nat
      <4>1. list \in Lists
        BY DEF OwnInv, ListOK
      <4>2. Len(list.items) \in Nat /\ k \in 1 .. Len(list.items)
        BY <4>1, ItemsOfList
      <4> QED
        BY <4>2
    <3> QED
      BY <1>3, <2>1, <3>1, FreeAtOwned
  <2> QED
    BY <1>1, <1>3, <2>1, CreateOwned, AppendCStringOwned, AppendStringOwned,
       FreeStringOwned, AppendItemOwned, FreeFoundOwned, FreeItemOwned, ForbidOwned,
       DestroyOwned DEF Next, OwnInv
<1> QED
  BY <1>2, <1>3 DEF Next

\* The list is empty, and there are no strings.
LEMMA InitOwned ==
    ASSUME Init
    PROVE  OwnInv
<1>1. list = [capacity |-> ListCapacity, items |-> << >>, array |-> TRUE,
              allow_resize |-> TRUE, resize_align |-> ResizeAlign]
  BY DEF Init, Ptrs!cptrlist_init
<1>2. ListOK
  <2>1. << >> \in Seq(Pointers) /\ ListCapacity \in Nat /\ ResizeAlign \in Nat \ {0}
    BY BuffersAssumption, EmptySeq
  <2>2. list \in Lists /\ list.array = TRUE
    BY <1>1, <2>1 DEF Lists
  <2> QED
    BY <2>2 DEF Init, ListOK
<1> QED
  BY <1>2, InitHolds DEF OwnInv

\* Whatever is appended, moved, listed, freed by slot, by item or by search, or
\* destroyed, a string is lost only by the reallocation of its own block or of
\* the array of the list that has it, where that fails.
THEOREM NothingIsLost == Spec => NothingLost
<1>1. Loses <=>
        (phase' \notin Functions =>
          \A p \in Orphans' \ Orphans :
              /\ fails' > fails
              /\ \/ \E h \in Holders : held[h] = p /\ held'[h] = NULL
                 \/ p \in Listed /\ ~list'.array)
  BY DEF Loses
<1> QED
  BY <1>1, InitOwned, OwnStep, PTL DEF Spec, NothingLost

\* The functions crash for the causes of CrashHasCause alone: in particular a
\* list without stale slots is destroyed without freeing anything twice.
THEOREM CrashesHaveACause == Spec => CrashHasCause
<1>1. Caused <=>
        (phase' \in Functions =>
          CASE phase' = "mcfg_string_append" -> \E g \in Holders : held[g] = NULL
            [] phase' \in {"cptrlist_append", "cptrlist_insert_or_append"} ->
                  ~list.array \/ (Ptrs!Full(list) /\ ~list.allow_resize)
            [] phase' \in {"cptrlist_free", "cptrlist_find"} -> ~list.array
            [] OTHER -> ~list.array \/ StaleSlots # {})
  BY DEF Caused
<1> QED
  BY <1>1, InitOwned, OwnStep, PTL DEF Spec, CrashHasCause
=============================================================================
