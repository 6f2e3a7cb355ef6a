------------------------------ MODULE CPtrList ------------------------------
(* The pointer list of src/cptrlist.c: an array of pointers that owns what   *)
(* they point to.  items are the slots below size; array says whether the    *)
(* items pointer is set.  Positions count from 1, and 0 is what the code     *)
(* returns as -1.  ok says whether the allocation of a call succeeds.  A     *)
(* "fault" is an access through a null pointer or behind the array.          *)
EXTENDS Integers, Pointers, SequencesExt

cptrlist_init(capacity, resize_align, ok) ==
    [capacity |-> capacity, items |-> << >>, array |-> ok,
     allow_resize |-> TRUE, resize_align |-> resize_align]

\* The slots that hold the item.
SlotsOf(list, item) == {k \in DOMAIN list.items : list.items[k] = item}

\* Subtracting ~(align - 1) adds align.  An array that is not there is made
\* anew with empty slots; realloc, where it fails, costs the list its array.
_cptrlist_resize(list, ok) ==
    IF ~ok THEN [list EXCEPT !.array = FALSE]
    ELSE [list EXCEPT
            !.array = TRUE,
            !.capacity = @ + 2 * list.resize_align,
            !.items = IF list.array THEN @ ELSE [k \in DOMAIN @ |-> NULL]]

Answer(list, index) == [list |-> list, index |-> index, fault |-> FALSE]
Fault(list)         == [list |-> list, index |-> 0, fault |-> TRUE]

Full(list)     == Len(list.items) = list.capacity
Resizes(list)  == Full(list) /\ list.allow_resize

\* Mutant: a full array is not made larger.
AppendUnresized(list, item, ok) ==
    IF ~Full(list) /\ list.array
    THEN Answer([list EXCEPT !.items = Append(@, item)], Len(list.items) + 1)
    ELSE Fault(list)

\* Without allow_resize a full list is written to all the same.
cptrlist_append(list, item, ok) ==
    LET room == IF Resizes(list) THEN _cptrlist_resize(list, ok) ELSE list
    IN  CASE Resizes(list) /\ ~ok -> Answer(room, 0)
          [] ~(Resizes(list) /\ ~ok) /\ (~room.array \/ Full(room)) -> Fault(room)
          [] OTHER -> Answer([room EXCEPT !.items = Append(@, item)],
                             Len(room.items) + 1)

cptrlist_insert_or_append(list, item, ok) ==
    LET empty == SlotsOf(list, NULL)
    IN  CASE ~list.array /\ list.items # << >> -> Fault(list)
          [] list.array /\ empty # {} ->
                Answer([list EXCEPT !.items[Min(empty)] = item], Min(empty))
          [] OTHER -> cptrlist_append(list, item, ok)

\* The first slot whose item is among those the search function accepts.
cptrlist_find(list, accepted) ==
    LET hits == {k \in DOMAIN list.items : list.items[k] \in accepted}
    IN  CASE ~list.array /\ list.items # << >> -> Fault(list)
          [] list.array /\ hits # {}           -> Answer(list, Min(hits))
          [] OTHER                             -> Answer(list, 0)

\* A list, the pointers passed to free on the way to it, in order.
Freed(list, pointers) == [list |-> list, freed |-> pointers, fault |-> FALSE]
FreeFault(list)       == [list |-> list, freed |-> << >>, fault |-> TRUE]

DropLast(list) == [list EXCEPT !.items = Front(@)]

\* Mutant: whichever slot is freed, the list becomes shorter.
FreeAtShrinks(list, index) ==
    IF index \notin DOMAIN list.items \/ list.items[index] = NULL
    THEN Freed(list, << >>)
    ELSE Freed(DropLast(list), <<list.items[index]>>)

\* The slot keeps its pointer, unless it is the last one.
cptrlist_free_at(list, index) ==
    CASE index \notin DOMAIN list.items -> Freed(list, << >>)
      [] index \in DOMAIN list.items /\ ~list.array -> FreeFault(list)
      [] index \in DOMAIN list.items /\ list.array /\ list.items[index] = NULL ->
            Freed(list, << >>)
      [] OTHER -> Freed(IF index = Len(list.items) THEN DropLast(list) ELSE list,
                        <<list.items[index]>>)

\* Mutant: only the first slot of the item is cleared.
FreeFirstSlot(list, item) ==
    LET hits == SlotsOf(list, item)
    IN  IF item = NULL \/ hits = {} THEN Freed(list, << >>)
        ELSE Freed([list EXCEPT !.items[Min(hits)] = NULL], <<item>>)

\* The item is freed once, all of its slots are cleared, and one is dropped
\* if it was the last.
cptrlist_free(list, item) ==
    LET hits    == SlotsOf(list, item)
        cleared == [list EXCEPT !.items =
                       [k \in DOMAIN @ |-> IF k \in hits THEN NULL ELSE @[k]]]
    IN  CASE item = NULL \/ list.items = << >> -> Freed(list, << >>)
          [] item # NULL /\ list.items # << >> /\ ~list.array -> FreeFault(list)
          [] item # NULL /\ list.array /\ hits = {}           -> Freed(list, << >>)
          [] OTHER -> Freed(IF Len(list.items) \in hits THEN DropLast(cleared)
                            ELSE cleared, <<item>>)

\* One slot behind another: a slot is skipped if the list has become shorter.
FreeNext(result, k) ==
    LET one == cptrlist_free(result.list, result.list.items[k])
    IN  IF k > Len(result.list.items) THEN result
        ELSE Freed(one.list, result.freed \o one.freed)

\* Every slot is freed in turn, as long as the list is that long.
cptrlist_destroy(list) ==
    IF list.items # << >> /\ ~list.array THEN FreeFault(list)
    ELSE FoldLeft(FreeNext, Freed(list, << >>), [k \in DOMAIN list.items |-> k])
=============================================================================
