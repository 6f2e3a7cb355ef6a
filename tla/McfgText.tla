------------------------------ MODULE McfgText ------------------------------
(* The text of a document: what the serializer is to write, and what lexer   *)
(* and parser read back.  A text is a sequence of the symbols of Lexer: a    *)
(* keyword or a truth value is one symbol, a blank stands for a tab too, and *)
(* LF for the line feed.  A name is the sequence of its symbols.             *)
EXTENDS McfgData, McfgQuotes, SequencesExt

Keyword(type) ==
    CASE type = "TYPE_STRING" -> "str"  [] type = "TYPE_BOOL" -> "bool"
      [] type = "TYPE_I8"     -> "i8"   [] type = "TYPE_U8"   -> "u8"
      [] type = "TYPE_I16"    -> "i16"  [] type = "TYPE_U16"  -> "u16"
      [] type = "TYPE_I32"    -> "i32"  [] type = "TYPE_U32"  -> "u32"

\* strlen of a text.
WordLength == [sector |-> 6, section |-> 7, end |-> 3, list |-> 4, str |-> 3,
               bool |-> 4, i8 |-> 2, u8 |-> 2, i16 |-> 3, u16 |-> 3, i32 |-> 3,
               u32 |-> 3, true |-> 4, false |-> 5]
Width(s)     == IF s \in DOMAIN WordLength THEN WordLength[s] ELSE 1
strlen(text) == FoldLeft(LAMBDA n, s : n + Width(s), 0, text)

Blanks(n) == [k \in 1 .. n |-> " "]

TextOfAll(TextOf(_), seq) == FoldLeft(LAMBDA text, x : text \o TextOf(x), << >>, seq)

\* The texts of a sequence with a separator between them.
Joined(TextOf(_), seq, separator) ==
    IF seq = << >> THEN << >>
    ELSE TextOf(Head(seq)) \o TextOfAll(LAMBDA x : separator \o TextOf(x), Tail(seq))

\* A text without the NULs in it.
WithoutNul(text) == TextOfAll(LAMBDA s : IF s = "NUL" THEN << >> ELSE <<s>>, text)

\* A string in quotes, or the text of any other value.  A string ends at no
\* NUL that is inside of it.
Literal(type, data) ==
    IF type = "TYPE_STRING" THEN <<"'">> \o Redouble(WithoutNul(data.text)) \o <<"'">>
    ELSE mcfg_data_to_string(type, data)

\* indent is the text of one level.
FieldText(field, indent) ==
    indent \o indent
    \o IF field.type = "TYPE_LIST"
       THEN <<"list", " ", Keyword(field.data.type), " ">> \o field.name.base \o <<" ">>
            \o Joined(LAMBDA e : Literal(field.data.type, e.data), field.data.elems, <<",", " ">>)
       ELSE <<Keyword(field.type), " ">> \o field.name.base \o <<" ">>
            \o Literal(field.type, field.data)

SectionText(section, indent) ==
    indent \o <<"section", " ">> \o section.name.base \o <<"LF">>
    \o TextOfAll(LAMBDA f : FieldText(f, indent) \o <<"LF">>, section.fields)
    \o indent \o <<"end", "LF">>

SectorText(sector, indent) ==
    <<"sector", " ">> \o sector.name.base \o <<"LF">>
    \o Joined(LAMBDA section : SectionText(section, indent), sector.sections, <<"LF">>)
    \o <<"end", "LF", "LF">>

DocText(doc, indent) == TextOfAll(LAMBDA sector : SectorText(sector, indent), doc.sectors)
=============================================================================
