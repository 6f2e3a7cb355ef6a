------------------------------ MODULE Buffers ------------------------------
(* A program with growing strings (mcfg_string_t) and a pointer list that    *)
(* owns some of them.  Every allocation may fail, and a block that realloc   *)
(* makes larger may move.  The program leaves a string alone once the list   *)
(* owns it, and forgets a pointer when it frees it; what else can go wrong   *)
(* is up to the library.                                                     *)
EXTENDS McfgString, Pointers, SequencesExt

CONSTANTS
    Chars,          \* what a byte of a string can be
    Holders,        \* the variables of the program that hold a string
    Initials,       \* the C strings it makes strings of and appends
    Sizes,          \* the sizes it allocates empty strings with
    ListCapacity,   \* capacity of the list
    ResizeAlign,    \* resize_align of the list
    MaxBlocks,      \* bound on the blocks of strings
    MaxLength,      \* bound on the length of a string
    MaxItems,       \* bound on the size of the list
    MaxFails        \* bound on the allocations that fail

StringBlock ==
    [capacity : Nat, length : Nat, text : Seq(Chars), block : Nat]

ASSUME BuffersAssumption ==
    /\ Initials \subseteq Seq(Chars)
    /\ Sizes \subseteq Nat
    /\ {ListCapacity, ResizeAlign} \subseteq Nat \ {0}
    /\ {MaxBlocks, MaxLength, MaxItems, MaxFails} \subseteq Nat
    /\ NULL \notin Nat /\ NULL \notin StringBlock

Ptrs == INSTANCE CPtrList

VARIABLES
    heap,       \* the strings in the order of their blocks, NULL where freed
    held,       \* the pointers of the program
    list,       \* the CPtrList
    phase,      \* "open", "closed" behind cptrlist_destroy, or the function
                \* that has crashed
    fails       \* allocations that have failed

vars == <<heap, held, list, phase, fails>>

Live    == {p \in DOMAIN heap : heap[p] # NULL}
Listed  == {list.items[k] : k \in DOMAIN list.items} \ {NULL}

Init ==
    /\ heap = << >>
    /\ held = [h \in Holders |-> NULL]
    /\ list = Ptrs!cptrlist_init(ListCapacity, ResizeAlign, TRUE)
    /\ phase = "open"
    /\ fails = 0

\* An allocation that fails, of which there are MaxFails at most.
Fail ==
    /\ fails < MaxFails
    /\ fails' = fails + 1

Crashes(call) == /\ phase' = call
                 /\ UNCHANGED <<heap, held, list, fails>>

Room == Len(heap) < MaxBlocks

-----------------------------------------------------------------------------
(* Strings.                                                                  *)

\* mcfg_string_new and mcfg_string_new_sized, for a variable that is not in use.
Create(h, string) ==
    /\ held[h] = NULL
    /\ \/ /\ Room
          /\ heap' = Append(heap, string)
          /\ held' = [held EXCEPT ![h] = Len(heap) + 1]
          /\ UNCHANGED fails
       \/ /\ Fail
          /\ UNCHANGED <<heap, held>>
    /\ UNCHANGED <<list, phase>>

\* string_append with memory enough; a block that grows stays or moves.
\* text is what is read from the source then.
InPlace(h, text, len) ==
    /\ heap' = [heap EXCEPT ![held[h]] = string_append(@, text, len)]
    /\ UNCHANGED <<held, fails>>

Moved(h, text, len) ==
    /\ Room
    /\ Grows(heap[held[h]], len)
    /\ heap' = Append([heap EXCEPT ![held[h]] = NULL],
                      string_append(heap[held[h]], text, len))
    /\ held' = [held EXCEPT ![h] = Len(heap) + 1]
    /\ UNCHANGED fails

\* realloc fails: the only pointer to the string is overwritten.
Unmoved(h, len) ==
    /\ Grows(heap[held[h]], len)
    /\ held' = [held EXCEPT ![h] = NULL]
    /\ Fail
    /\ UNCHANGED heap

\* Without a destination nothing is done.
NoString == UNCHANGED <<heap, held, fails>>

\* What a program may append to.
Appendable(h, len) ==
    /\ held[h] \notin Listed
    /\ held[h] # NULL => heap[held[h]].length + len <= MaxLength

AppendCString(h, text) ==
    /\ Appendable(h, Len(text))
    /\ IF held[h] = NULL THEN NoString
       ELSE InPlace(h, text, Len(text)) \/ Moved(h, text, Len(text)) \/ Unmoved(h, Len(text))
    /\ UNCHANGED <<list, phase>>

\* What is read from a block that has been freed: its text, or anything.
Remains(text) == [DOMAIN text -> Chars]

\* mcfg_string_append.  The source's pointer is taken before the destination
\* moves: a string appended to itself is read from the block it has left.
\* A source that is not there is dereferenced.
AppendString(h, g) ==
    \/ /\ held[g] = NULL
       /\ Crashes("mcfg_string_append")
    \/ /\ held[g] # NULL
       /\ LET b == heap[held[g]]
          IN  /\ Appendable(h, b.length)
              /\ IF held[h] = NULL THEN NoString
                 ELSE \/ InPlace(h, b.text, b.length)
                      \/ \E text \in IF held[h] = held[g] THEN Remains(b.text) ELSE {b.text} :
                            Moved(h, text, b.length)
                      \/ Unmoved(h, b.length)
       /\ UNCHANGED <<list, phase>>

\* The program frees a string that is its own.
FreeString(h) ==
    /\ held[h] # NULL /\ held[h] \notin Listed
    /\ heap' = [heap EXCEPT ![held[h]] = NULL]
    /\ held' = [g \in Holders |-> IF held[g] = held[h] THEN NULL ELSE held[g]]
    /\ UNCHANGED <<list, phase, fails>>

-----------------------------------------------------------------------------
(* The list.                                                                 *)

\* The program gives a pointer to the list, add being what comes of it, and may go on reading through it.
Give(h, call, add) ==
    /\ Len(list.items) < MaxItems
    /\ \E ok \in BOOLEAN :
         /\ list' = add[ok].list
         /\ phase' = IF add[ok].fault THEN call ELSE phase
         /\ IF ok
            THEN /\ UNCHANGED fails
                 /\ held' \in {held, [held EXCEPT ![h] = NULL]}
            ELSE /\ Ptrs!Resizes(list) /\ add[ok].index = 0 /\ Fail
                 /\ UNCHANGED held
    /\ UNCHANGED heap

AppendItem(h) ==
    Give(h, "cptrlist_append", [ok \in BOOLEAN |-> Ptrs!cptrlist_append(list, held[h], ok)])
InsertItem(h) ==
    Give(h, "cptrlist_insert_or_append",
         [ok \in BOOLEAN |-> Ptrs!cptrlist_insert_or_append(list, held[h], ok)])

\* The pointers in freed are passed to free in turn.  A pointer that has been
\* freed before ends the program.
Release(call, result, then) ==
    LET freed == ToSet(result.freed)
    IN  /\ list' = result.list
        /\ heap' = [p \in DOMAIN heap |-> IF p \in freed THEN NULL ELSE heap[p]]
        /\ held' = [h \in Holders |-> IF held[h] \in freed THEN NULL ELSE held[h]]
        /\ phase' = IF /\ ~result.fault /\ freed \subseteq Live
                       /\ Len(result.freed) = Cardinality(freed)
                    THEN then ELSE call
        /\ UNCHANGED fails

\* The program frees a slot, or looks for a string and frees its slot.
FreeAt(k) == Release("cptrlist_free_at", Ptrs!cptrlist_free_at(list, k), phase)

FreeFound(h) ==
    LET found == Ptrs!cptrlist_find(list, {held[h]})
    IN  /\ held[h] # NULL
        /\ IF found.fault THEN Crashes("cptrlist_find") ELSE FreeAt(found.index)

FreeItem(h) ==
    /\ held[h] # NULL
    /\ Release("cptrlist_free", Ptrs!cptrlist_free(list, held[h]), phase)

\* allow_resize is the program's to set.
ForbidResize ==
    /\ list.allow_resize
    /\ list' = [list EXCEPT !.allow_resize = FALSE]
    /\ UNCHANGED <<heap, held, phase, fails>>

\* The list is gone; items is what the model keeps for it, nothing.
Destroy ==
    LET destroyed == Ptrs!cptrlist_destroy(list)
    IN  Release("cptrlist_destroy", [destroyed EXCEPT !.list.items = << >>], "closed")

-----------------------------------------------------------------------------

Next ==
    \/ /\ phase = "open"
       /\ \/ \E h \in Holders : \/ \E text \in Initials :
                                      \/ Create(h, mcfg_string_new(text, Len(text)))
                                      \/ AppendCString(h, text)
                                \/ \E size \in Sizes : Create(h, mcfg_string_new_sized(size))
                                \/ \E g \in Holders : AppendString(h, g)
                                \/ FreeString(h)
                                \/ AppendItem(h) \/ InsertItem(h)
                                \/ FreeFound(h) \/ FreeItem(h)
          \/ \E k \in DOMAIN list.items : FreeAt(k)
          \/ ForbidResize
          \/ Destroy
    \/ /\ phase # "open"
       /\ UNCHANGED vars

Spec == Init /\ [][Next]_vars

-----------------------------------------------------------------------------

\* The functions that can end the program.
Functions == {"mcfg_string_append", "cptrlist_append", "cptrlist_insert_or_append",
              "cptrlist_find", "cptrlist_free_at", "cptrlist_free", "cptrlist_destroy"}

HeapOK == heap \in Seq(StringBlock \cup {NULL})

\* A pointer of the program is NULL, or that of a string that is there.
HeldOK == held \in [Holders -> Live \cup {NULL}]

StringOK(a) ==
    /\ a.length = Len(a.text)
    /\ Fits(a)
    /\ a.capacity <= a.block

\* However strings are made and appended to one another (string_append with
\* string_resize), the length is that of the text, and the text with its NUL
\* fits the block, of which the capacity never promises more than there is.
\* Whether the capacity counts the NUL is left open: mcfg.h:319-320 says that it
\* does, and a string of mcfg_string_new has room for one byte more than it says.
StringsFit == \A p \in Live : StringOK(heap[p])

\* The texts a call of the library can append.
Sources == Initials \cup {heap[held[g]].text : g \in {g \in Holders : held[g] # NULL}}

\* A string that has moved with a text as long as its own behind it: what
\* mcfg_string_append makes of a string that it appends to itself.
Doubled(h) ==
    LET text == heap[held[h]].text
        now  == heap'[held'[h]].text
    IN  /\ held'[h] # held[h]
        /\ Len(now) = 2 * Len(text)
        /\ SubSeq(now, 1, Len(text)) = text

\* A text that a program holds is as it was behind every call, or has one of
\* the sources behind it, also where blocks move (string_append).  Only a string
\* that is appended to itself and moves may end in anything, since it is read
\* from the block it has left (mcfg_string_append).
KeepsText ==
    [][ \A h \in Holders :
          held[h] # NULL /\ held'[h] # NULL =>
              LET text == heap[held[h]].text
                  now  == heap'[held'[h]].text
              IN  \/ now = text
                  \/ \E s \in Sources : now = text \o s
                  \/ Doubled(h) ]_vars

\* The strings that a program can still reach, and those it cannot.
Owned   == (IF list.array THEN Listed ELSE {}) \cup {held[h] : h \in Holders}
Orphans == Live \ Owned

\* A string is lost only by an allocation that fails: the one whose block
\* string_resize wanted larger, its only pointer being overwritten, or those of
\* a list that _cptrlist_resize has cost its array.  No other call loses one, at
\* any time before or behind such a failure.
NothingLost ==
    [][ phase' \notin Functions =>
          \A p \in Orphans' \ Orphans :
              /\ fails' > fails
              /\ \/ \E h \in Holders : held[h] = p /\ held'[h] = NULL
                 \/ p \in Listed /\ ~list'.array ]_vars

\* What makes the library crash: a source that is NULL; a list whose array a
\* failing realloc has cost; a full list that must not grow; and a slot that
\* cptrlist_free_at has freed and not cleared.
StaleSlots == Listed \ Live
CrashHasCause ==
    [][ phase' \in Functions =>
          CASE phase' = "mcfg_string_append" -> \E g \in Holders : held[g] = NULL
            [] phase' \in {"cptrlist_append", "cptrlist_insert_or_append"} ->
                  ~list.array \/ (Ptrs!Full(list) /\ ~list.allow_resize)
            [] phase' \in {"cptrlist_free", "cptrlist_find"} -> ~list.array
            [] OTHER -> ~list.array \/ StaleSlots # {} ]_vars
=============================================================================
