---------------------------- MODULE MCMcfgFile -----------------------------
(* McfgFile for TLC: names over one or two texts with and without a line     *)
(* feed, a number, a string without data and an empty list as fields.        *)
EXTENDS McfgFile

CONSTANTS a, b

MCBases == {a, b}
MCNames == [base : {a}, newlines : 0 .. 1] \cup [base : {b}, newlines : {0}]
MCTexts == {}

Byte1 == [bytes |-> <<1>>]
MCFieldData == { [type |-> "TYPE_U8", data |-> Byte1],
                 [type |-> "TYPE_LIST", data |-> [type |-> "TYPE_U8", elems |-> <<>>]],
                 [type |-> "TYPE_LIST", data |-> [type |-> "TYPE_U8",
                     elems |-> <<[name |-> 1, data |-> Byte1]>>]],
                 [type |-> "TYPE_STRING", data |-> NULL] }
MCElementData == {Byte1, NULL}
=============================================================================
