------------------------------ MODULE Pointers ------------------------------
(* The null pointer, which all modules share.                                *)
CONSTANT NULL
=============================================================================
