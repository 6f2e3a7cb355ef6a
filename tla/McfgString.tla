----------------------------- MODULE McfgString -----------------------------
(* mcfg_string_t of src/mcfg_util.c: a text in a block that grows.  The text *)
(* is a sequence of symbols, length the characters they take, and block what *)
(* malloc has given the data, which the code does not store.                 *)
EXTENDS Integers, Sequences

CONSTANT Alignment      \* MCFG_STRING_RESIZE_ALIGNMENT

ASSUME AlignmentAssumption == Alignment \in Nat \ {0}

\* What must hold of a string: the text and the NUL behind it fit the block.
Fits(a) == a.length + 1 <= a.block

\* The data is not initialised: there is no NUL behind the empty text yet.
mcfg_string_new_sized(size) ==
    [capacity |-> size, length |-> 0, text |-> << >>, block |-> size + 1]

mcfg_string_new(initial, len) ==
    [capacity |-> len, length |-> len, text |-> initial, block |-> len + 1]

\* Mutant: the size is rounded down without the alignment added first.
ResizedShort(a, new_length) ==
    LET amount == (new_length + 1) - ((new_length + 1) % Alignment)
    IN  [a EXCEPT !.capacity = amount, !.block = amount + 1]

\* string_resize, memory permitting.  The mask clears the low bits of the
\* size, the alignment being a power of two.
string_resize(a, new_length) ==
    LET size   == new_length + 1 + Alignment
        amount == size - (size % Alignment)
    IN  [a EXCEPT !.capacity = amount, !.block = amount + 1]

\* Whether appending b_len characters asks for memory.
Grows(a, b_len) == a.length + b_len + 1 > a.capacity

\* Mutant: the text is copied to the front of the block.
AppendAtFront(a, b, b_len) ==
    LET room == IF Grows(a, b_len) THEN string_resize(a, a.length + b_len) ELSE a
    IN  [room EXCEPT !.text = b, !.length = @ + b_len]

\* string_append, memory permitting.
string_append(a, b, b_len) ==
    LET room == IF Grows(a, b_len) THEN string_resize(a, a.length + b_len) ELSE a
    IN  [room EXCEPT !.text = @ \o b, !.length = @ + b_len]
=============================================================================
