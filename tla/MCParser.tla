----------------------------- MODULE MCParser ------------------------------
(* Parser for TLC: valid documents, every edit of one token of them, and     *)
(* every short continuation of an open section.                              *)
EXTENDS Parser, SequencesExt

CONSTANTS x, y, z, s

MCBases == {x, y, z}
MCTexts == {s}

N(base)   == [base |-> base, newlines |-> 0]
B(bytes)  == [bytes |-> bytes]
Text      == [text |-> s]
F(type, name, data)     == [name |-> N(name), type |-> type, data |-> data]
L(type, name, values)   ==
    F("TYPE_LIST", name,
      [type |-> type,
       elems |-> [i \in DOMAIN values |-> [name |-> i, data |-> values[i]]]])
Sec(name, fields)   == [name |-> N(name), fields |-> fields]
Doc(sectors)        == [sectors |-> sectors, dynfields |-> << >>]
Top(name, sections) == [name |-> N(name), sections |-> sections]

\* Names reused on every level, empty containers, every kind of literal.
Fields1 == << F("TYPE_I8", x, B(<<100>>)), F("TYPE_STRING", z, Text),
              F("TYPE_BOOL", y, B(<<1>>)) >>
Fields2 == << L("TYPE_U8", x, <<B(<<0>>), B(<<1>>)>>), L("TYPE_STRING", y, <<Text, Text>>) >>
Docs == { Doc(<< >>),
          Doc(<<Top(x, <<Sec(x, Fields1), Sec(y, << >>)>>)>>),
          Doc(<<Top(x, << >>), Top(y, <<Sec(x, Fields2)>>)>>) }

\* Numbers at the limits of their types.
Limits == << F("TYPE_I8", x, B(<<128>>)), F("TYPE_U16", y, B(<<255, 255>>)),
             L("TYPE_I32", z, <<B(<<255, 255, 255, 127>>), B(<<1, 255, 255, 255>>)>>) >>
LimitDoc == Doc(<<Top(z, <<Sec(z, Limits)>>)>>)

Terminated(tokens) == Append(tokens, Token("TK_UNASSIGNED_TOKEN", NULL))
EditedTokens == {Unparse(doc, "PTS_IDLE") : doc \in Docs}
ValidTokens  == EditedTokens \cup {Unparse(LimitDoc, "PTS_IDLE")}

\* What one edit can put in: a token, or a string with its quotes.  Without
\* memory for its node the lexer loses the opening quote of a string, and
\* without memory for its text a truth value has none.
Q == Keyword("TK_QUOTE")
S == <<Token("TK_STRING", Text)>>
Chunks ==
    {Keyword(k) : k \in {"TK_SECTOR", "TK_SECTION", "TK_END", "TK_LIST", "TK_COMMA",
                         "TK_U8", "TK_BOOL", "TK_STR"}}
    \cup {Word(N(x)), Word(N(y)), <<Token("TK_NUMBER", [number |-> 1])>>,
          <<Token("TK_BOOLEAN", [truth |-> FALSE])>>, <<Token("TK_BOOLEAN", NULL)>>,
          Q \o S \o Q, S \o Q}

\* A string comes as quote, string, quote: no edit takes one of them away.
Whole(tokens) ==
    \A i \in DOMAIN tokens :
        /\ tokens[i].token = "TK_STRING" => i < Len(tokens) /\ tokens[i + 1].token = "TK_QUOTE"
        /\ tokens[i].token = "TK_QUOTE" =>
              \/ i > 1 /\ tokens[i - 1].token = "TK_STRING"
              \/ i < Len(tokens) /\ tokens[i + 1].token = "TK_STRING"

Edited(tokens) ==
    LET Cut(i, j, chunk) == SubSeq(tokens, 1, i) \o chunk \o SubSeq(tokens, j, Len(tokens))
    IN  {Cut(i, i + 1, chunk) : i \in 0 .. Len(tokens), chunk \in Chunks}
        \cup {Cut(i, i + 2, chunk) : i \in 0 .. Len(tokens) - 1, chunk \in Chunks \cup {<< >>}}

Open == Keyword("TK_SECTOR") \o Word(N(x)) \o Keyword("TK_SECTION") \o Word(N(y))
ShortInputs ==
    {Open \o FlattenSeq(c) : c \in BoundedSeq(Chunks, 3)}
    \cup {Keyword("TK_LIST") \o Keyword("TK_U8") \o Word(N(x))}
    \cup {Open \o FieldTokens(F("TYPE_I8", x, B(<<1>>)))
                \o ListTokens(N(z), [type |-> "TYPE_BOOL",
                                     elems |-> <<[name |-> 1, data |-> B(<<1>>)]>>])
                \o Keyword("TK_COMMA") \o <<Token("TK_BOOLEAN", NULL)>>}

\* Numbers in and out of the range of their type, in a field and in a list.
\* A negative number as a u32 is none that TLC can compute with.
Numbers    == {-129, -128, -1, 127, 128, 255, 256, 300, 32768, 65535, 65536}
NumberTexts(t, n) ==
    LET number(i) == <<Token("TK_NUMBER", [number |-> i])>>
    IN  Open \o Keyword(t) \o Word(N(x)) \o number(n)
        \o Keyword("TK_LIST") \o Keyword(t) \o Word(N(y)) \o number(1)
        \o Keyword("TK_COMMA") \o number(n)
NumberInputs ==
    {NumberTexts(t, n) : t \in TypeTokens \ {"TK_STR", "TK_BOOL", "TK_U32"}, n \in Numbers}
    \cup {NumberTexts("TK_U32", n) : n \in Numbers \cap Nat}

MCInputs ==
    {Terminated(t) : t \in {t \in (UNION {Edited(v) : v \in EditedTokens})
                                  \cup ValidTokens \cup ShortInputs \cup NumberInputs : Whole(t)}}
=============================================================================
