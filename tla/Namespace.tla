----------------------------- MODULE Namespace -----------------------------
(* What the library promises about a document while it is built: it is a     *)
(* tree of named entries that only grows.  An entry, once declared, keeps    *)
(* its path and its value until the whole document is freed; a child exists  *)
(* only below its parent; and every entry stored is one that a path reaches. *)
EXTENDS Integers, Sequences, FiniteSets, SequencesExt

VARIABLES
    tree,       \* function from the paths declared so far to their values
    size,       \* the number of entries stored
    closed      \* the document has been freed

vars == <<tree, size, closed>>

PrefixClosed(paths) == \A p \in paths : Len(p) > 1 => Front(p) \in paths

Init ==
    /\ tree = << >>
    /\ size = 0
    /\ closed = FALSE

\* Declare one entry, or one field with all elements of its list.
Declare ==
    /\ ~closed
    /\ DOMAIN tree \subseteq DOMAIN tree'
    /\ \A p \in DOMAIN tree : tree'[p] = tree[p]
    /\ PrefixClosed(DOMAIN tree')
    /\ size' = Cardinality(DOMAIN tree')
    /\ UNCHANGED closed

Discard ==
    /\ tree' = << >>
    /\ size' = 0
    /\ closed' = TRUE

Spec == Init /\ [][Declare \/ Discard]_vars
=============================================================================
