------------------------------ MODULE McfgData ------------------------------
(* Reading the data of a field (src/mcfg_util.c): its value, and the text it *)
(* is written as.  A text is a sequence of symbols: a character, or a whole  *)
(* word that is never taken apart.                                           *)
EXTENDS McfgStore, SequencesExt

\* The little-endian number in the given bytes, its last byte counted as top.
NumberOf(bytes, top) == FoldLeft(LAMBDA n, byte : 256 * n + byte, top, Reverse(Front(bytes)))

\* mcfg_data_as_bool, _u8, _i8, ... and _string.
mcfg_data_as(type, data) ==
    LET top == Last(data.bytes)
    IN  CASE type = "TYPE_STRING" -> data
          [] type = "TYPE_BOOL"   -> [truth |-> data.bytes # <<0>>]
          [] type \in {"TYPE_U8", "TYPE_U16", "TYPE_U32"} ->
                [number |-> NumberOf(data.bytes, top)]
          [] OTHER ->
                [number |-> NumberOf(data.bytes, IF top > 127 THEN top - 256 ELSE top)]

-----------------------------------------------------------------------------
(* Numbers as text.                                                          *)

DigitSymbols == <<"0", "1", "2", "3", "4", "5", "6", "7", "8", "9">>

\* printf's %ld.
Decimal(number) ==
    LET abs == IF number < 0 THEN -number ELSE number
        digits[n \in Nat] ==
            IF n < 10 THEN <<DigitSymbols[n + 1]>>
            ELSE Append(digits[n \div 10], DigitSymbols[(n % 10) + 1])
    IN  (IF number < 0 THEN <<"-">> ELSE << >>) \o digits[abs]

\* strtol, for a text of digits that may start with a minus.
strtol(text) ==
    LET value(d)  == (CHOOSE k \in DOMAIN DigitSymbols : DigitSymbols[k] = d) - 1
        abs(ds)   == FoldLeft(LAMBDA n, d : 10 * n + value(d), 0, ds)
    IN  IF text[1] = "-" THEN -abs(Tail(text)) ELSE abs(text)

\* The text of a string, a truth value or a number; any other type has none.
\* The data must be there: every case dereferences it.
ScalarText(type, data) ==
    CASE type = "TYPE_STRING" -> data.text
      [] type = "TYPE_BOOL"   -> IF mcfg_data_as(type, data).truth
                                 THEN <<"true">> ELSE <<"false">>
      [] type \in FieldTypes \ {"TYPE_STRING", "TYPE_BOOL", "TYPE_LIST"} ->
                                 Decimal(mcfg_data_as(type, data).number)
      [] OTHER                -> <<"(invalid type)">>

\* The texts of the elements with a comma and a space between them, memory
\* permitting.  No element is a list itself (McfgStore).
mcfg_list_as_string(list) ==
    IF list.elems = << >> THEN << >>
    ELSE FoldLeft(LAMBDA text, e : text \o <<",", " ">> \o ScalarText(list.type, e.data),
                  ScalarText(list.type, Head(list.elems).data), Tail(list.elems))

mcfg_data_to_string(type, data) ==
    IF type = "TYPE_LIST" THEN mcfg_list_as_string(data) ELSE ScalarText(type, data)
=============================================================================
