------------------------------ MODULE MCParse ------------------------------
(* McfgParse for TLC: the texts of documents with every kind of field, and   *)
(* texts that are in error or no document at all.                            *)
EXTENDS McfgParse

MCTexts == Seq(L!Symbols)

w  == <<"w">>
ww == <<"w", "w">>

N(base)             == [base |-> base, newlines |-> 0]
F(type, name, data) == [name |-> N(name), type |-> type, data |-> data]
B(bytes)            == [bytes |-> bytes]
T(value)            == [text |-> value]
List_(type, name, values) ==
    F("TYPE_LIST", name,
      [type |-> type,
       elems |-> [i \in DOMAIN values |-> [name |-> i, data |-> values[i]]]])
Sec(name, fields)    == [name |-> N(name), fields |-> fields]
Sect(name, sections) == [name |-> N(name), sections |-> sections]
Doc(sectors)         == [sectors |-> sectors, dynfields |-> << >>]
WithField(field)     == Doc(<<Sect(w, <<Sec(ww, <<field>>)>>)>>)

MCDocs ==
    { WithField(field) : field \in
        { F("TYPE_BOOL", w, B(<<1>>)), F("TYPE_U8", ww, B(<<200>>)), F("TYPE_I8", w, B(<<246>>)),
          F("TYPE_I32", w, B(<<1, 0, 0, 128>>)),
          List_("TYPE_U16", w, <<B(<<255, 255>>), B(<<0, 0>>), B(<<10, 0>>)>>),
          List_("TYPE_BOOL", ww, <<B(<<0>>), B(<<1>>)>>), List_("TYPE_I8", w, << >>),
          List_("TYPE_STRING", w, <<T(<<"'">>), T(<< >>), T(<<",", " ", "'", "w">>)>>),
          F("TYPE_STRING", ww, T(<< >>)), F("TYPE_STRING", w, T(<<"'">>)),
          F("TYPE_STRING", w, T(<<"'", "w", "'", "'">>)),
          F("TYPE_STRING", w, T(<<"w", "LF", "'", " ", ";">>)) } }
    \cup
    { Doc(<< >>), Doc(<<Sect(w, << >>)>>), Doc(<<Sect(w, <<Sec(w, << >>)>>)>>),
      Doc(<<Sect(w, <<Sec(w, << >>), Sec(ww, <<F("TYPE_U8", w, B(<<7>>)),
                                               F("TYPE_STRING", ww, T(<<"w", "LF">>))>>)>>),
            Sect(ww, << >>)>>) }

\* Errors in the first and in the last line, behind a string of two lines, at
\* the end of the text; and texts without a token.
Open_ == <<"sector", " ", "w", "LF", "section", " ", "w", "LF">>
MCOtherTexts ==
    { <<"end">>, <<"LF", "w">>, <<" ", ";", "w", "LF">>, <<"LF">>, <<" ", ";", "w">>,
      <<"sector">>, <<"sector", " ", "end">>,
      Open_ \o <<"u8", " ", "w", " ", "w">>,
      Open_ \o <<"str", " ", "w", " ", "'", "LF", "'", " ", "w">>,
      Open_ \o <<"list", " ", "bool", " ", "w", " ", "true", ",", "1">>,
      Open_ \o <<"str", " ", "w", " ", "'", "w">>,
      Open_ \o <<"list", " ", "u8", " ", "w">>,
      Open_ \o <<"list", " ", "u8", " ", "w", " ", "LF", ";", "LF">>,
      Open_ \o <<"u8", " ", "w", " ", "1", "LF", "u8", " ", "w", " ", "2">> }

MCRoots == { [token |-> "TK_UNASSIGNED_TOKEN", line |-> 0, prev |-> "NULL"],
             [token |-> "garbage", line |-> 9, prev |-> "wild"] }
=============================================================================
