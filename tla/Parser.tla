------------------------------ MODULE Parser -------------------------------
(* parse_tree of src/parse.c with the functions it calls, and what           *)
(* mcfg_parse and its caller do with the result.  The input is the list of   *)
(* tokens lex_input has left; a step is one iteration of the loop of         *)
(* parse_tree or of the loop of _parse_list_field.  Allocations may fail.    *)
EXTENDS McfgData, SequencesExt

CONSTANTS
    Inputs,         \* the token lists to parse
    MaxFails        \* bound on the allocations that fail

-----------------------------------------------------------------------------
(* Tokens.  A value is the text the lexer has stored: a name, the number or  *)
(* the truth value that a literal spells, or the text of a string.           *)

Token(token, value) == [token |-> token, value |-> value]

_token_to_type(token) ==
    CASE token = "TK_I8"   -> "TYPE_I8"
      [] token = "TK_U8"   -> "TYPE_U8"
      [] token = "TK_I16"  -> "TYPE_I16"
      [] token = "TK_U16"  -> "TYPE_U16"
      [] token = "TK_I32"  -> "TYPE_I32"
      [] token = "TK_U32"  -> "TYPE_U32"
      [] token = "TK_BOOL" -> "TYPE_BOOL"
      [] token = "TK_STR"  -> "TYPE_STRING"
      [] OTHER             -> "TYPE_INVALID"

TypeTokens == {"TK_I8", "TK_U8", "TK_I16", "TK_U16", "TK_I32", "TK_U32",
               "TK_BOOL", "TK_STR"}

_type_to_literal_type(token) ==
    CASE token = "TK_BOOL" -> "TK_BOOLEAN"
      [] token = "TK_STR"  -> "TK_STRING"
      [] token \in TypeTokens \ {"TK_BOOL", "TK_STR"} -> "TK_NUMBER"
      [] OTHER             -> "TK_UNASSIGNED_TOKEN"

TokenKinds ==
    TypeTokens \cup
    {"TK_UNASSIGNED_TOKEN", "TK_SECTOR", "TK_SECTION", "TK_END", "TK_LIST",
     "TK_QUOTE", "TK_COMMA", "TK_UNKNOWN", "TK_NUMBER", "TK_BOOLEAN", "TK_STRING"}

\* What parse.h requires of a list of tokens: keywords and single characters
\* have no value, all others have one, and TK_UNASSIGNED_TOKEN ends the list.
\* Only true and false may lack their value, where its strdup has failed.
LexedToken ==
    [token : TokenKinds \ {"TK_UNKNOWN", "TK_NUMBER", "TK_BOOLEAN", "TK_STRING"},
     value : {NULL}]
    \cup [token : {"TK_UNKNOWN"}, value : [base : Bases, newlines : {0}]]
    \cup [token : {"TK_NUMBER"},  value : [number : Int]]
    \cup [token : {"TK_BOOLEAN"}, value : {NULL} \cup [truth : BOOLEAN]]
    \cup [token : {"TK_STRING"},  value : [text : Texts]]

\* The list under construction with its name, and the token of its type.
ListRecord == [name : Name \cup {NULL}, token : TypeTokens, list : List]

ASSUME ParserAssumption ==
    /\ MaxFails \in Nat
    /\ NULL \notin ListRecord \cup [number : Int]
    /\ \A in \in Inputs :
         /\ in \in Seq(LexedToken)
         /\ in # <<>>
         /\ \A i \in DOMAIN in : in[i].token = "TK_UNASSIGNED_TOKEN" <=> i = Len(in)

VARIABLES
    input,      \* the tokens
    cur,        \* index of the token current points to
    pts,        \* the parse_tree_state
    pc,         \* where control is: see Control
    list,       \* the ListRecord, or NULL
    file,       \* the mcfg_file_t the parser fills
    err,        \* the error in the result
    errAt,      \* index of the token whose linespan the result holds
    live,       \* heap blocks allocated for the document and not freed
    fails       \* allocations that have failed

vars == <<input, cur, pts, pc, list, file, err, errAt, live, fails>>

Control == {"tree",             \* at the top of parse_tree's loop
            "literal",          \* in _parse_list_field, PLFS_LITERAL
            "comma",            \* in _parse_list_field, PLFS_COMMA
            "returned",         \* mcfg_parse has returned MCFG_OK
            "failed",           \* parse_tree has returned an error
            "cleaned",          \* mcfg_parse has freed the file and returned it
            "freed",            \* the caller has freed the file
            "crashed"}          \* undefined behaviour has ended the program

Errors == {"MCFG_OK", "MCFG_SYNTAX_ERROR", "MCFG_STRUCTURE_ERROR",
           "MCFG_END_IN_NOWHERE", "MCFG_INVALID_TYPE", "MCFG_MALLOC_FAIL",
           "MCFG_DUPLICATE_SECTOR", "MCFG_DUPLICATE_SECTION", "MCFG_DUPLICATE_FIELD"}

TypeOK ==
    /\ input \in Seq(LexedToken)
    /\ cur \in DOMAIN input
    /\ pts \in {"PTS_IDLE", "PTS_IN_SECTOR", "PTS_IN_SECTION"}
    /\ pc \in Control
    /\ list \in ListRecord \cup {NULL}
    /\ file \in File
    /\ err \in Errors
    /\ errAt \in DOMAIN input
    /\ fails \in 0 .. MaxFails

Init ==
    /\ input \in Inputs
    /\ cur = 1 /\ errAt = 1
    /\ pts = "PTS_IDLE" /\ pc = "tree" /\ err = "MCFG_OK"
    /\ list = NULL
    /\ file = EmptyFile
    /\ live = 0 /\ fails = 0

-----------------------------------------------------------------------------
(* Reading tokens and literals.                                              *)

At(token) == pc = "tree" /\ input[cur].token = token

\* The token at i exists and is a name; another one follows it.
NameAt(i) ==
    /\ i < Len(input)
    /\ input[i].token = "TK_UNKNOWN"
    /\ input[i].value # NULL

\* _parse_string_literal finds quote, string and quote; a number or a truth
\* value is one token of the right kind.
LiteralAt(i, typeToken) ==
    IF typeToken = "TK_STR"
    THEN /\ i + 2 <= Len(input)
         /\ input[i].token = "TK_QUOTE"
         /\ input[i + 1].token = "TK_STRING"
         /\ input[i + 2].token = "TK_QUOTE"
    ELSE input[i].token = _type_to_literal_type(typeToken)

\* The text of the literal is there.
HasText(i, typeToken) == typeToken = "TK_STR" \/ input[i].value # NULL

LiteralLen(typeToken) == IF typeToken = "TK_STR" THEN 3 ELSE 1

\* Byte k of an integer in two's complement, the lowest first.
Weight == <<1, 256, 65536, 16777216>>

\* Mutants: all of the number is stored, and its lowest byte in every place.
ByteUnmasked(n, k)  == n \div Weight[k]
ByteUnshifted(n, k) == n % 256

Byte(n, k) == (n \div Weight[k]) % 256

\* What _parse_literal and _parse_string_literal store: the low bytes of the
\* int64_t that strtol returns, or a copy of the string.
_parse_literal(i, typeToken) ==
    LET type == _token_to_type(typeToken)
    IN  CASE type = "TYPE_STRING" -> input[i + 1].value
          [] type = "TYPE_BOOL"   -> [bytes |-> <<IF input[i].value.truth THEN 1 ELSE 0>>]
          [] OTHER -> [bytes |-> [k \in 1 .. mcfg_sizeof(type) |->
                                     Byte(input[i].value.number, k)]]

-----------------------------------------------------------------------------
(* Steps the handlers end with.                                              *)

One(ok)      == IF ok THEN 1 ELSE 0
FirstIn(seq) == 1 - ArrayOf(seq)    \* the array is allocated with this element

\* The allocations a handler makes, and whether each succeeds.
Allocations(oks) ==
    /\ fails' = fails + Cardinality({i \in DOMAIN oks : ~oks[i]})
    /\ fails' <= MaxFails

strdup(i, ok) == IF ok THEN input[i].value ELSE NULL

\* parse_tree returns the error e with the linespan of the token at.
Return(e, at) ==
    /\ pc' = "failed"
    /\ err' = e
    /\ errAt' = at
    /\ list' = NULL
    /\ UNCHANGED <<input, cur, pts, file>>

Fail(e) == Return(e, cur) /\ UNCHANGED <<live, fails>>

Crash == pc' = "crashed" /\ UNCHANGED <<input, cur, pts, list, file, err, errAt, live>>

\* An add succeeds: the file owns the given blocks, and parse_tree goes on
\* with the token next.
Accepted(add, next, state, blocks) ==
    /\ add.err = "MCFG_OK"
    /\ file' = add.file
    /\ cur' = next
    /\ pts' = state
    /\ pc' = "tree"
    /\ list' = NULL
    /\ live' = live + blocks
    /\ UNCHANGED <<input, err>>

\* An add does not succeed: the given blocks are lost.
Refused(add, at, blocks) ==
    \/ /\ add.err \notin {"MCFG_OK", "fault"}
       /\ Return(add.err, at)
       /\ live' = live + blocks
    \/ add.err = "fault" /\ Crash

-----------------------------------------------------------------------------
(* parse_tree: one action per case of its switch.                            *)

\* New containers and fields go into the last sector and its last section.
LastSector  == Len(file.sectors)
LastSection == Len(file.sectors[LastSector].sections)

ParseSector ==
    /\ At("TK_SECTOR")
    /\ \/ pts # "PTS_IDLE" /\ Fail("MCFG_STRUCTURE_ERROR")
       \/ pts = "PTS_IDLE" /\ ~NameAt(cur + 1) /\ Fail("MCFG_SYNTAX_ERROR")
       \/ /\ pts = "PTS_IDLE" /\ NameAt(cur + 1)
          /\ \E nameOk, arrayOk \in BOOLEAN :
               LET add == mcfg_add_sector(file, strdup(cur + 1, nameOk), arrayOk)
               IN  /\ arrayOk \/ add.err = "MCFG_MALLOC_FAIL"
                   /\ Allocations(<<nameOk, arrayOk>>)
                   /\ \/ /\ Accepted(add, cur + 2, "PTS_IN_SECTOR",
                                     One(nameOk) + FirstIn(file.sectors))
                         /\ UNCHANGED errAt
                      \/ Refused(add, cur, One(nameOk))

ParseSection ==
    /\ At("TK_SECTION")
    /\ \/ pts # "PTS_IN_SECTOR" /\ Fail("MCFG_STRUCTURE_ERROR")
       \/ pts = "PTS_IN_SECTOR" /\ ~NameAt(cur + 1) /\ Fail("MCFG_SYNTAX_ERROR")
       \/ /\ pts = "PTS_IN_SECTOR" /\ NameAt(cur + 1)
          /\ \E nameOk, arrayOk \in BOOLEAN :
               LET add == mcfg_add_section(file, LastSector,
                                           strdup(cur + 1, nameOk), arrayOk)
               IN  /\ arrayOk \/ add.err = "MCFG_MALLOC_FAIL"
                   /\ Allocations(<<nameOk, arrayOk>>)
                   /\ \/ /\ Accepted(add, cur + 2, "PTS_IN_SECTION", One(nameOk)
                                     + FirstIn(file.sectors[LastSector].sections))
                         /\ UNCHANGED errAt
                      \/ Refused(add, cur, One(nameOk))

\* Mutants: the wrong state, and every state at once, are left.
EnclosingSwapped(state) == IF state = "PTS_IN_SECTOR" THEN "PTS_IN_SECTION" ELSE "PTS_IDLE"
EnclosingIdle(state)    == "PTS_IDLE"

\* The state an end leads back to.
Enclosing(state) == IF state = "PTS_IN_SECTION" THEN "PTS_IN_SECTOR" ELSE "PTS_IDLE"

ParseEnd ==
    /\ At("TK_END")
    /\ \/ pts = "PTS_IDLE" /\ Fail("MCFG_END_IN_NOWHERE")
       \/ /\ pts # "PTS_IDLE"
          /\ pts' = Enclosing(pts)
          /\ cur' = cur + 1
          /\ UNCHANGED <<input, pc, list, file, err, errAt, live, fails>>

FieldArray == file.sectors[LastSector].sections[LastSection].fields

\* _parse_field behind its name.  The name is lost on every error; the value
\* is lost on none.  A string whose copy fails is added without data.
FieldValueOf(token) ==
    \E nameOk, valueOk, arrayOk \in BOOLEAN :
        LET data == IF valueOk THEN _parse_literal(cur + 2, token) ELSE NULL
            add  == mcfg_add_field(file, LastSector, LastSection, _token_to_type(token),
                                   strdup(cur + 1, nameOk), data, arrayOk)
            failsAlone == ~valueOk /\ token # "TK_STR"
        IN  /\ arrayOk \/ (add.err = "MCFG_MALLOC_FAIL" /\ ~failsAlone)
            /\ Allocations(<<nameOk, valueOk, arrayOk>>)
            /\ \/ /\ failsAlone
                  /\ Return("MCFG_MALLOC_FAIL", cur)
                  /\ live' = live + One(nameOk)
               \/ /\ ~failsAlone
                  /\ Accepted(add, cur + 2 + LiteralLen(token), pts,
                              One(nameOk) + One(valueOk) + FirstIn(FieldArray))
                  /\ errAt' = cur
               \/ ~failsAlone /\ Refused(add, cur, One(nameOk))

ParseField ==
    /\ pc = "tree"
    /\ input[cur].token \in TypeTokens
    /\ \/ pts # "PTS_IN_SECTION" /\ Fail("MCFG_STRUCTURE_ERROR")
       \/ pts = "PTS_IN_SECTION" /\ ~NameAt(cur + 1) /\ Fail("MCFG_SYNTAX_ERROR")
       \/ /\ pts = "PTS_IN_SECTION" /\ NameAt(cur + 1)
          /\ ~(LiteralAt(cur + 2, input[cur].token) /\ HasText(cur + 2, input[cur].token))
          /\ \E nameOk \in BOOLEAN :
               /\ Allocations(<<nameOk>>)
               /\ Return(IF input[cur].token = "TK_STR" \/ input[cur + 2].value = NULL
                         THEN "MCFG_SYNTAX_ERROR" ELSE "MCFG_INVALID_TYPE", cur)
               /\ live' = live + One(nameOk)
       \/ /\ pts = "PTS_IN_SECTION" /\ NameAt(cur + 1)
          /\ LiteralAt(cur + 2, input[cur].token) /\ HasText(cur + 2, input[cur].token)
          /\ FieldValueOf(input[cur].token)

\* _parse_list_field up to its loop.  The name is lost if there is no block
\* for the list.
ParseList ==
    /\ At("TK_LIST")
    /\ \/ pts # "PTS_IN_SECTION" /\ Fail("MCFG_STRUCTURE_ERROR")
       \/ /\ pts = "PTS_IN_SECTION" /\ input[cur + 1].token \notin TypeTokens
          /\ Fail("MCFG_INVALID_TYPE")
       \/ /\ pts = "PTS_IN_SECTION" /\ input[cur + 1].token \in TypeTokens
          /\ ~NameAt(cur + 2)
          /\ Fail("MCFG_SYNTAX_ERROR")
       \/ /\ pts = "PTS_IN_SECTION" /\ input[cur + 1].token \in TypeTokens
          /\ NameAt(cur + 2)
          /\ \E nameOk, listOk \in BOOLEAN :
               /\ Allocations(<<nameOk, listOk>>)
               /\ live' = live + One(nameOk) + One(listOk)
               /\ \/ ~listOk /\ Return("MCFG_MALLOC_FAIL", cur)
                  \/ /\ listOk
                     /\ pc' = "literal"
                     /\ cur' = cur + 3
                     /\ errAt' = cur
                     /\ list' = [name  |-> strdup(cur + 2, nameOk),
                                 token |-> input[cur + 1].token,
                                 list  |-> [type |-> _token_to_type(input[cur + 1].token),
                                            elems |-> <<>>]]
                     /\ UNCHANGED <<input, pts, file, err>>

SyntaxError ==
    /\ pc = "tree"
    /\ input[cur].token \in {"TK_UNKNOWN", "TK_QUOTE", "TK_COMMA", "TK_NUMBER",
                             "TK_BOOLEAN", "TK_STRING"}
    /\ Fail("MCFG_SYNTAX_ERROR")

\* Mutant: the loop goes round at the end of the tokens.
FinishWaits == At("TK_UNASSIGNED_TOKEN") /\ UNCHANGED vars

\* The end of the tokens: parse_tree returns whatever its state is.
Finish ==
    /\ At("TK_UNASSIGNED_TOKEN")
    /\ pc' = "returned"
    /\ UNCHANGED <<input, cur, pts, list, file, err, errAt, live, fails>>

-----------------------------------------------------------------------------
(* The loop of _parse_list_field.                                            *)

\* The list is freed and the error returned; the name of the list is lost.
\* The array pointer of a list without elements was never assigned.
DropList(e, at) ==
    \/ Return(e, at) /\ live' = live - mcfg_free_list(list.list) - 1
    \/ list.list.elems = <<>> /\ Crash

\* The error of mcfg_add_list_field is ignored: its element is missing then,
\* and the blocks of the element are lost.
AddElement(valueOk, nameOk, arrayOk) ==
    LET data == IF valueOk THEN _parse_literal(cur, list.token) ELSE NULL
        add  == mcfg_add_list_field(list.list, data, nameOk, arrayOk)
    IN  \/ /\ add.err # "fault"
           /\ list' = [list EXCEPT !.list = add.list]
           /\ live' = live + One(valueOk)
                      + CASE add.err = "MCFG_OK"     -> 1 + FirstIn(list.list.elems)
                          [] add.err = "MCFG_NULLPTR" -> 0
                          [] OTHER                    -> 1
           /\ cur' = cur + LiteralLen(list.token)
           /\ pc' = "comma"
           /\ UNCHANGED <<input, pts, file, err, errAt>>
        \/ add.err = "fault" /\ Crash

ListLiteral ==
    /\ pc = "literal"
    /\ \/ /\ ~LiteralAt(cur, list.token)
          /\ DropList("MCFG_SYNTAX_ERROR", cur)
          /\ UNCHANGED fails
       \/ /\ LiteralAt(cur, list.token)
          /\ \E valueOk, nameOk, arrayOk \in BOOLEAN :
               /\ Cardinality({i \in 1 .. 3 : ~<<valueOk, nameOk, arrayOk>>[i]}) <= 1
               /\ Allocations(<<valueOk, nameOk, arrayOk>>)
               /\ \/ /\ ~valueOk /\ list.token # "TK_STR"
                     /\ DropList("MCFG_MALLOC_FAIL", cur)
                  \/ /\ valueOk /\ nameOk /\ arrayOk /\ ~HasText(cur, list.token)
                     /\ Crash
                  \/ /\ valueOk \/ list.token = "TK_STR"
                     /\ HasText(cur, list.token)
                     /\ AddElement(valueOk, nameOk, arrayOk)

ListComma ==
    /\ pc = "comma"
    /\ input[cur].token = "TK_COMMA"
    /\ pc' = "literal"
    /\ cur' = cur + 1
    /\ UNCHANGED <<input, pts, list, file, err, errAt, live, fails>>

\* PLFS_DONE: the list is added to the section.  parse_tree goes on with the
\* token that ended the list.
ListDone ==
    /\ pc = "comma"
    /\ input[cur].token # "TK_COMMA"
    /\ \E arrayOk \in BOOLEAN :
         LET add == mcfg_add_field(file, LastSector, LastSection, "TYPE_LIST",
                                   list.name, list.list, arrayOk)
         IN  /\ arrayOk \/ add.err = "MCFG_MALLOC_FAIL"
             /\ Allocations(<<arrayOk>>)
             /\ \/ Accepted(add, cur, pts, FirstIn(FieldArray)) /\ UNCHANGED errAt
                \/ add.err \notin {"MCFG_OK", "fault"} /\ DropList(add.err, errAt)
                \/ add.err = "fault" /\ Crash

-----------------------------------------------------------------------------
(* mcfg_parse frees the file behind an error; its caller frees it behind     *)
(* MCFG_OK.                                                                  *)

\* Mutant: the array of a list is freed a second time.
FreesListTwice(f) ==
    \E s \in DOMAIN f.sectors : \E t \in DOMAIN f.sectors[s].sections :
        \E i \in DOMAIN f.sectors[s].sections[t].fields :
            f.sectors[s].sections[t].fields[i].type = "TYPE_LIST"

FreesWildList(f) ==
    \E s \in DOMAIN f.sectors : \E t \in DOMAIN f.sectors[s].sections :
        \E i \in DOMAIN f.sectors[s].sections[t].fields :
            LET field == f.sectors[s].sections[t].fields[i]
            IN  field.type = "TYPE_LIST" /\ field.data.elems = <<>>

FreeFile(then) ==
    /\ \/ /\ pc' = then
          /\ live' = live - mcfg_free_file(file)
          /\ file' = EmptyFile
       \/ /\ FreesWildArray(file) \/ FreesWildList(file)
          /\ pc' = "crashed"
          /\ UNCHANGED <<live, file>>
    /\ UNCHANGED <<input, cur, pts, list, err, errAt, fails>>

CleanUp    == pc = "failed" /\ FreeFile("cleaned")
CallerFrees == pc = "returned" /\ FreeFile("freed")

Parse ==
    \/ ParseSector \/ ParseSection \/ ParseEnd \/ ParseField \/ ParseList
    \/ SyntaxError \/ Finish \/ ListLiteral \/ ListComma \/ ListDone \/ CleanUp

\* The program is done with the document.
Stopped == pc \in {"cleaned", "freed", "crashed"} /\ UNCHANGED vars

Next == Parse \/ CallerFrees \/ Stopped

Spec == Init /\ [][Next]_vars

\* A call of mcfg_parse runs on: the caller's thread does nothing else.
FairSpec == Spec /\ WF_vars(Parse)

-----------------------------------------------------------------------------
(* Reading the document back, and writing it down again as tokens.           *)

Keyword(token)  == <<Token(token, NULL)>>
Word(name)      == <<Token("TK_UNKNOWN", name)>>
TypeToken(type) == CHOOSE token \in TypeTokens : _token_to_type(token) = type
Literal(type, data) ==
    LET token == <<Token(_type_to_literal_type(TypeToken(type)), mcfg_data_as(type, data))>>
    IN  IF type = "TYPE_STRING"
        THEN Keyword("TK_QUOTE") \o token \o Keyword("TK_QUOTE")
        ELSE token

Concat(TokensOf(_), seq) == FoldLeft(LAMBDA acc, x : acc \o TokensOf(x), << >>, seq)

ListTokens(name, l) ==
    LET first   == IF l.elems = << >> THEN << >> ELSE Literal(l.type, Head(l.elems).data)
        Rest(e) == Keyword("TK_COMMA") \o Literal(l.type, e.data)
    IN  Keyword("TK_LIST") \o Keyword(TypeToken(l.type)) \o Word(name) \o first
        \o IF l.elems = << >> THEN << >> ELSE Concat(Rest, Tail(l.elems))

FieldTokens(field) ==
    IF field.type = "TYPE_LIST"
    THEN ListTokens(field.name, field.data)
    ELSE Keyword(TypeToken(field.type)) \o Word(field.name)
         \o Literal(field.type, field.data)

SectionTokens(section) ==
    Keyword("TK_SECTION") \o Word(section.name)
    \o Concat(FieldTokens, section.fields) \o Keyword("TK_END")

SectorTokens(sector) ==
    Keyword("TK_SECTOR") \o Word(sector.name)
    \o Concat(SectionTokens, sector.sections) \o Keyword("TK_END")

\* The tokens of a document, the last ends left out as far as they are due.
Unparse(f, state) ==
    LET tokens == Concat(SectorTokens, f.sectors)
        due    == CASE state = "PTS_IDLE" -> 0
                    [] state = "PTS_IN_SECTOR" -> 1
                    [] state = "PTS_IN_SECTION" -> 2
    IN  SubSeq(tokens, 1, Len(tokens) - due)

-----------------------------------------------------------------------------
(* Properties.                                                               *)

HasFile == pc \notin {"cleaned", "freed"}

\* The parser indexes the last sector and the last section without a check
\* (sector_count - 1 wraps below zero): whenever its state says that it is
\* inside of one, there is one.
Aligned ==
    HasFile =>
        /\ pts # "PTS_IDLE" => file.sectors # << >>
        /\ pts = "PTS_IN_SECTION" => file.sectors[LastSector].sections # << >>
        /\ pc \in {"literal", "comma"} => pts = "PTS_IN_SECTION" /\ list # NULL

\* No two siblings have one name, also where a failed strdup leaves a name NULL.
NamesUnique == AllNamesUnique(file)

\* A number is one of the type it is a literal of, that of the last type token
\* in front of it, when its highest byte holds all that is left of it.
InRange(type, n) ==
    n \div Weight[mcfg_sizeof(type)] \in
        IF type \in {"TYPE_I8", "TYPE_I16", "TYPE_I32"} THEN -128 .. 127 ELSE 0 .. 255

TooWide(i) ==
    LET type == Max({j \in 1 .. i - 1 : input[j].token \in TypeTokens})
    IN  /\ input[i].token = "TK_NUMBER"
        /\ ~InRange(_token_to_type(input[type].token), input[i].value.number)

\* What has been parsed says what the tokens said: writing the document (and
\* the list under construction) down again gives the tokens consumed, in order
\* and with their values.  Of a number out of the range of its type only the
\* place is the same: parse.c:972 asks for a literal valid for the datatype,
\* parse.c:692-693 takes any and keeps its low bytes.  Behind an error it gives
\* what came before the declaration at fault, and the linespan returned lies in
\* that declaration.
ParsedExactly ==
    fails = 0 /\ HasFile /\ pc # "crashed" =>
        LET parsed   == Unparse(file, pts)
            ongoing  == IF list = NULL THEN << >>
                        ELSE ListTokens(list.name, list.list)
                             \o IF pc = "literal" /\ list.list.elems # << >>
                                THEN Keyword("TK_COMMA") ELSE << >>
            consumed == parsed \o ongoing
        IN  /\ \A i \in DOMAIN consumed :
                  /\ i <= Len(input) /\ consumed[i].token = input[i].token
                  /\ consumed[i].value = input[i].value \/ TooWide(i)
            /\ IF pc = "failed"
               THEN Len(consumed) < errAt /\ errAt <= cur
               ELSE Len(consumed) = cur - 1

\* Freeing the document gives back every block of a parse that succeeds.  A
\* parse that fails loses one block at most, and so does, twice, an
\* allocation that fails; nothing is ever freed that is not live.
FreeIsComplete ==
    LET building == IF list = NULL THEN 0
                    ELSE BlockOf(list.name) + 1 + mcfg_free_list(list.list)
        lost     == live - mcfg_free_file(file) - building
    IN  pc # "crashed" => lost \in 0 .. One(err # "MCFG_OK") + 2 * fails

\* Memory permitting, while the text is lexed and while it is parsed, there is
\* one thing an input can crash the program with: a sector, section or list
\* that stays empty until it is freed.
TruthWasLost ==
    \E i \in DOMAIN input : input[i].token = "TK_BOOLEAN" /\ input[i].value = NULL
LacksSomething(field) == field.type = "TYPE_LIST" /\ field.data.elems = <<>>
SomethingIsEmpty ==
    \/ list # NULL /\ list.list.elems = <<>>
    \/ \E s \in DOMAIN file.sectors :
          LET sections == file.sectors[s].sections
          IN  \/ sections = <<>>
              \/ \E t \in DOMAIN sections :
                    \/ sections[t].fields = <<>>
                    \/ \E i \in DOMAIN sections[t].fields : LacksSomething(sections[t].fields[i])
CrashHasCause == pc = "crashed" => fails > 0 \/ TruthWasLost \/ SomethingIsEmpty

\* The document under construction is a namespace that only grows.
NS == INSTANCE Namespace WITH tree   <- Tree(file),
                              size   <- EntryCount(file),
                              closed <- ~HasFile
IsNamespace == NS!Spec

\* mcfg_parse returns, with a document or an error, unless the program crashes.
Terminates == <>(pc \in {"returned", "cleaned", "crashed"})
=============================================================================
