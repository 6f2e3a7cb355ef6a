---------------------------- MODULE MCSerializer ----------------------------
(* Serializer for TLC: documents with every kind of field, strings with      *)
(* quotes at their edges, containers of several sizes, and documents that    *)
(* lack data or a type.                                                      *)
EXTENDS Serializer

w  == <<"w">>
ww == <<"w", "w">>

MCSymbols == Written
MCBases == {w, ww}
MCTexts == {<< >>, <<"'">>, <<"'", "w", "'", "'">>, <<"w", "LF", "'", " ">>}

N(base)               == [base |-> base, newlines |-> 0]
F(type, name, data)   == [name |-> N(name), type |-> type, data |-> data]
B(bytes)              == [bytes |-> bytes]
T(text)               == [text |-> text]
L(type, name, values) ==
    F("TYPE_LIST", name,
      [type |-> type,
       elems |-> [i \in DOMAIN values |-> [name |-> i, data |-> values[i]]]])
Sec(name, fields)     == [name |-> N(name), fields |-> fields]
Top_(name, sections)  == [name |-> N(name), sections |-> sections]
Doc(sectors)          == [sectors |-> sectors, dynfields |-> << >>]
WithFields(fields)    == Doc(<<Top_(w, <<Sec(ww, fields)>>)>>)

\* Names of more than one length; numbers with and without a sign.
Kinds ==
    { F("TYPE_BOOL", w, B(<<1>>)), F("TYPE_U8", ww, B(<<200>>)), F("TYPE_I8", w, B(<<246>>)),
      F("TYPE_I32", w, B(<<1, 0, 0, 128>>)),
      L("TYPE_U16", w, <<B(<<255, 255>>), B(<<0, 0>>), B(<<10, 0>>)>>),
      L("TYPE_BOOL", ww, <<B(<<0>>), B(<<1>>)>>), L("TYPE_I8", w, << >>),
      L("TYPE_STRING", w, <<T(<<"'">>), T(<< >>)>>) }
    \cup {F("TYPE_STRING", w, T(text)) : text \in MCTexts}

\* What an application can declare, and the serializer has to refuse.
Unsound ==
    { F("TYPE_INVALID", ww, NULL), F("TYPE_STRING", ww, NULL), F("TYPE_BOOL", ww, NULL),
      F("TYPE_U8", ww, NULL), F("TYPE_LIST", ww, NULL), L("TYPE_LIST", ww, <<B(<<0>>)>>) }

First == F("TYPE_U8", w, B(<<7>>))

SoundDocs ==
    { Doc(<< >>), Doc(<<Top_(w, << >>)>>), WithFields(<< >>),
      Doc(<<Top_(w, <<Sec(w, << >>), Sec(ww, <<First>>)>>), Top_(ww, << >>), Top_(w, << >>)>>) }
    \cup {WithFields(<<kind>>) : kind \in Kinds}
    \cup {WithFields(<<First, F("TYPE_STRING", ww, T(<<"'">>)),
                       L("TYPE_STRING", w, <<T(<<"w", "'">>), T(<<"'", "'">>)>>)>>)}

MCDocs ==
    SoundDocs \cup {WithFields(<<kind>>) : kind \in Unsound}
              \cup {WithFields(<<First, kind>>) : kind \in Unsound}

Tabs   == [tabs |-> TRUE, spaces |-> 0, stale |-> << >>]
Spaces == [tabs |-> FALSE, spaces |-> 2, stale |-> << >>]
Stale  == [Spaces EXCEPT !.stale = <<"w">>]
MCOptions == {Tabs, Spaces, Stale}
QuoteDocs == {WithFields(<<F("TYPE_STRING", w, T(<<"'">>))>>)}
=============================================================================
