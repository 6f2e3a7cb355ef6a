------------------------------- MODULE Lexer -------------------------------
(* lex_input of src/parse.c: a text becomes a list of nodes, each a token    *)
(* with its value and the lines it sits on.  A step is one iteration of the  *)
(* loop.  A text is a sequence of symbols: a character, or the whole text of *)
(* a keyword, which the lexer compares as one.  Positions count from 1, and  *)
(* the NUL that ends the text is at Len(input) + 1.                          *)
EXTENDS Integers, McfgQuotes, Pointers, SequencesExt

CONSTANTS
    Inputs,         \* the texts to lex
    Roots,          \* what malloc may leave in the first node
    MaxFails        \* bound on the allocations that fail

token_t == {"TK_UNASSIGNED_TOKEN", "TK_SECTOR", "TK_SECTION", "TK_END", "TK_QUOTE",
            "TK_COMMA", "TK_UNKNOWN", "TK_STR", "TK_LIST", "TK_BOOL", "TK_I8", "TK_U8",
            "TK_I16", "TK_U16", "TK_I32", "TK_U32", "TK_NUMBER", "TK_BOOLEAN", "TK_STRING"}

\* The keywords, with their tokens.
Keywords == [bool |-> "TK_BOOL", i8 |-> "TK_I8", i16 |-> "TK_I16", i32 |-> "TK_I32",
             u8 |-> "TK_U8", u16 |-> "TK_U16", u32 |-> "TK_U32", list |-> "TK_LIST",
             str |-> "TK_STR", sector |-> "TK_SECTOR", section |-> "TK_SECTION",
             end |-> "TK_END"]
Truths  == {"true", "false"}
Digits  == {"0", "1", "2", "3", "4", "5", "6", "7", "8", "9"}
Spaces  == {" ", "LF"}
Symbols == DOMAIN Keywords \cup Truths \cup Digits \cup Spaces
           \cup {"'", ",", ";", "-", "w"}      \* w: any other character

Root == [token : {"TK_UNASSIGNED_TOKEN", "garbage"}, line : Nat,
         prev : {"NULL", "wild"}]

ASSUME LexerAssumption ==
    /\ Inputs \subseteq Seq(Symbols)
    /\ Roots # {} /\ Roots \subseteq Root
    /\ MaxFails \in Nat
    /\ NULL \notin Seq(Symbols)

VARIABLES
    input,      \* the text
    root,       \* the first node as malloc returned it
    ix,         \* position of the character to look at
    lines,      \* line_number
    nodes,      \* the list of nodes; the last one is current_node
    pc,         \* "lexing", "done", "failed", or "crashed"
    fails       \* allocations that have failed

vars == <<input, root, ix, lines, nodes, pc, fails>>

\* from and to are the first and the last position of the token in the text;
\* they are not part of the code's nodes.
Node == [token : token_t \cup {"garbage"}, value : Seq(Symbols) \cup {NULL},
         line : Nat, count : Nat, from : Nat, to : Nat]

Unassigned == [token |-> "TK_UNASSIGNED_TOKEN", value |-> NULL, line |-> 0,
               count |-> 1, from |-> 0, to |-> 0]

TypeOK ==
    /\ input \in Seq(Symbols)
    /\ root \in Root
    /\ ix \in Nat \ {0}
    /\ lines \in Nat \ {0}
    /\ nodes \in Seq(Node) /\ nodes # << >>
    /\ pc \in {"lexing", "done", "failed", "crashed"}
    /\ fails \in 0 .. MaxFails

Init ==
    /\ input \in Inputs
    /\ root \in Roots
    /\ ix = 1
    /\ lines = 1
    /\ nodes = <<[Unassigned EXCEPT !.token = root.token, !.line = root.line]>>
    /\ pc = IF input = << >> THEN "done" ELSE "lexing"
    /\ fails = 0

-----------------------------------------------------------------------------
(* Looking at the text.                                                      *)

Sym(i)     == IF i <= Len(input) THEN input[i] ELSE "NUL"
IsSpace(i) == Sym(i) \in Spaces
IsDigit(i) == Sym(i) \in Digits
IsEnd(i)   == i > Len(input)

LineFeeds(text) == Cardinality({i \in DOMAIN text : text[i] = "LF"})

\* Where the string opened at ix closes: quotes that follow one another come
\* in pairs, and the first one without a partner ends the string.  Without
\* one it is the NUL that does.
StringEnd ==
    LET quotes(p) == Cardinality({k \in ix + 1 .. p : Sym(k) = "'"})
        closing   == {p \in ix + 1 .. Len(input) :
                         Sym(p) = "'" /\ Sym(p + 1) # "'" /\ quotes(p) % 2 = 1}
    IN  IF closing = {} THEN Len(input) + 1 ELSE Min(closing)

-----------------------------------------------------------------------------
(* Setting nodes.                                                            *)

\* The nodes after _set_node has filled the last one, and appended a new one
\* unless malloc fails (ok).
Set(ns, token, value, count, from, to, ok) ==
    LET node   == Last(ns)
        inherited == IF Len(ns) > 1 THEN ns[Len(ns) - 1].line ELSE 1
        filled == [token |-> token, value |-> value, count |-> count,
                   line  |-> IF node.line = 0 THEN inherited ELSE node.line,
                   from  |-> from, to |-> to]
    IN  Front(ns) \o <<filled>> \o IF ok THEN <<Unassigned>> ELSE << >>

\* _set_node follows the prev pointer of the first node, which nobody has set.
\* Where memory answers with a line, that is a first node with that line.
FollowsWild == Len(nodes) = 1 /\ nodes[1].line = 0 /\ root.prev = "wild"

Allocations(failed) ==
    /\ fails' = fails + failed
    /\ fails' <= MaxFails

Failed(ok) == IF ok THEN 0 ELSE 1

Crash ==
    /\ FollowsWild
    /\ pc' = "crashed"
    /\ UNCHANGED <<input, root, ix, lines, nodes, fails>>

\* Mutant: the error is returned as MCFG_OK.
FailIgnored == pc' = "done" /\ UNCHANGED <<input, root, ix, lines>>

Fail ==
    /\ pc' = "failed"
    /\ UNCHANGED <<input, root, ix, lines>>

\* The loop goes on at position i.
Advance(i) ==
    /\ ix' = i
    /\ pc' = IF IsEnd(i) THEN "done" ELSE "lexing"
    /\ UNCHANGED <<input, root>>

Lexing(symbols) == pc = "lexing" /\ Sym(ix) \in symbols

-----------------------------------------------------------------------------
(* One action per case of the switch.                                        *)

\* Mutant: without a line feed the loop stays at the semicolon.
CommentStays ==
    /\ Lexing({";"})
    /\ LET feeds == {i \in ix .. Len(input) : Sym(i) = "LF"}
       IN  Advance(IF feeds = {} THEN ix ELSE Min(feeds))
    /\ UNCHANGED <<lines, nodes, fails>>

\* Mutant: without a line feed the loop goes one character back.
CommentGoesBack ==
    /\ Lexing({";"})
    /\ LET feeds == {i \in ix .. Len(input) : Sym(i) = "LF"}
       IN  Advance(IF feeds = {} THEN ix - 1 ELSE Min(feeds))
    /\ UNCHANGED <<lines, nodes, fails>>

\* Up to the line feed; without one, only the semicolon is left out.
Comment ==
    /\ Lexing({";"})
    /\ LET feeds == {i \in ix .. Len(input) : Sym(i) = "LF"}
       IN  Advance(IF feeds = {} THEN ix + 1 ELSE Min(feeds))
    /\ UNCHANGED <<lines, nodes, fails>>

\* The loop looks at the byte behind the NUL: a 0 ends it, anything else is
\* memory that is not part of the text.
ReadBeyond ==
    /\ ix' = Len(input) + 2
    /\ pc' \in {"done", "crashed"}
    /\ UNCHANGED <<input, root>>

\* A node of one token that ends at last; malloc or strdup have failed the
\* given number of times for its value.
OneNode(token, value, last, failed) ==
    \/ Crash
    \/ /\ ~FollowsWild
       /\ \E ok \in BOOLEAN :
            /\ Allocations(failed + Failed(ok))
            /\ nodes' = Set(nodes, token, value, 1, ix, last, ok)
            /\ \/ ok /\ Advance(last + 1) /\ UNCHANGED lines
               \/ ~ok /\ Fail

\* Mutant: no node is set for a comma.
CommaDropped == Lexing({","}) /\ Advance(ix + 1) /\ UNCHANGED <<lines, nodes, fails>>

\* The result of _set_node is ignored: without memory for the next node this
\* one is overwritten by the next token.
Comma ==
    /\ Lexing({","})
    /\ \/ Crash
       \/ /\ ~FollowsWild
          /\ \E ok \in BOOLEAN :
               /\ Allocations(Failed(ok))
               /\ nodes' = Set(nodes, "TK_COMMA", NULL, 1, ix, ix, ok)
          /\ Advance(ix + 1)
          /\ UNCHANGED lines

\* The opening quote, the string and the closing quote.  The result for the
\* opening quote is ignored; the other allocations (two buffers, two nodes)
\* are checked, and the first that fails ends the lexing.
String ==
    /\ Lexing({"'"})
    /\ \/ Crash
       \/ /\ ~FollowsWild
          /\ \E openOk \in BOOLEAN, lost \in {"none", "buffer", "string", "close"} :
               LET last   == StringEnd
                   raw    == SubSeq(input, ix + 1, last - 1)
                   feeds  == LineFeeds(raw)
                   open   == Set(nodes, "TK_QUOTE", NULL, 1, ix, ix, openOk)
                   text   == Set(open, "TK_STRING", Undouble(raw), feeds,
                                 ix + 1, last - 1, lost # "string")
                   closed == Set(text, "TK_QUOTE", NULL, 1, last, last, lost # "close")
               IN  /\ Allocations(Failed(openOk) + Failed(lost = "none"))
                   /\ nodes' = CASE lost = "buffer" -> open
                                 [] lost = "string" -> text
                                 [] OTHER           -> closed
                   /\ \/ lost # "none" /\ Fail
                      \/ /\ lost = "none"
                         /\ lines' = lines + feeds
                         /\ \/ last <= Len(input) /\ Advance(last + 1)
                            \/ last > Len(input) /\ ReadBeyond

\* A keyword, or true or false, is one only in front of a space or the NUL;
\* true and false also in front of a comma.
AtKeyword == Sym(ix) \in DOMAIN Keywords /\ (IsSpace(ix + 1) \/ IsEnd(ix + 1))
AtTruth   == Sym(ix) \in Truths
             /\ (IsSpace(ix + 1) \/ IsEnd(ix + 1) \/ Sym(ix + 1) = ",")

\* Mutant: the node of a keyword keeps its text.
KeywordWithText == pc = "lexing" /\ AtKeyword /\ OneNode(Keywords[Sym(ix)], <<Sym(ix)>>, ix, 0)

Keyword ==
    /\ pc = "lexing" /\ AtKeyword
    /\ OneNode(Keywords[Sym(ix)], NULL, ix, 0)

\* The result of strdup is not checked.
Truth ==
    /\ pc = "lexing" /\ AtTruth
    /\ \E ok \in BOOLEAN :
         OneNode("TK_BOOLEAN", IF ok THEN <<Sym(ix)>> ELSE NULL, ix, Failed(ok))

\* _extract_word: a number goes on while there are digits, any other word up
\* to the next space or the NUL.
AtNumber == IsDigit(ix) \/ (Sym(ix) = "-" /\ IsDigit(ix + 1))

LastDigit == Min({j \in ix .. Len(input) : ~IsDigit(j + 1)})
LastOfWord == Min({j \in ix .. Len(input) : IsSpace(j + 1) \/ IsEnd(j + 1)})

_extract_word(token, last) ==
    \/ OneNode(token, SubSeq(input, ix, last), last, 0)
    \/ Allocations(1) /\ Fail /\ UNCHANGED nodes

Number ==
    /\ pc = "lexing" /\ AtNumber
    /\ _extract_word("TK_NUMBER", LastDigit)

Word ==
    /\ pc = "lexing" /\ Sym(ix) \notin Spaces \cup {";", ",", "'"}
    /\ ~AtKeyword /\ ~AtTruth /\ ~AtNumber
    /\ _extract_word("TK_UNKNOWN", LastOfWord)

\* Mutant: the node gets the line before it is counted on.
LineFeedLate ==
    /\ Lexing({"LF"})
    /\ lines' = lines + 1
    /\ nodes' = [nodes EXCEPT ![Len(nodes)].line = lines]
    /\ Advance(ix + 1)
    /\ UNCHANGED fails

LineFeed ==
    /\ Lexing({"LF"})
    /\ lines' = lines + 1
    /\ nodes' = [nodes EXCEPT ![Len(nodes)].line = lines + 1]
    /\ Advance(ix + 1)
    /\ UNCHANGED fails

Space ==
    /\ Lexing({" "})
    /\ Advance(ix + 1)
    /\ UNCHANGED <<lines, nodes, fails>>

Lex == Comment \/ Comma \/ String \/ Keyword \/ Truth \/ Number \/ Word \/ LineFeed \/ Space

Stopped == pc # "lexing" /\ UNCHANGED vars

Next == Lex \/ Stopped

Spec == Init /\ [][Next]_vars

\* lex_input runs on until it returns.
FairSpec == Spec /\ WF_vars(Lex)

-----------------------------------------------------------------------------
(* Properties.                                                               *)

\* The nodes that hold a token.
Tokens == {k \in DOMAIN nodes : nodes[k].from > 0}

\* The position up to which the text has become tokens.
Covered(k) == IF k = 1 THEN 0 ELSE nodes[k - 1].to

\* Nothing but spaces, symbols of extra, and comments, each of which starts
\* with a semicolon and ends at a line feed.  A semicolon that no line feed
\* follows counts as a comment of its own: that is what the code makes of it.
Skippable(i, j, extra) ==
    \A p \in i .. j :
        \/ Sym(p) \in Spaces \cup {";"} \cup extra
        \/ \E q \in i .. p - 1, r \in p + 1 .. Len(input) :
              /\ Sym(q) = ";" /\ Sym(r) = "LF"
              /\ \A k \in q .. p : Sym(k) # "LF"

Covers(extra) ==
    /\ \A k \in Tokens : /\ Covered(k) < nodes[k].from
                         /\ Skippable(Covered(k) + 1, nodes[k].from - 1, extra)
    /\ LET k == Len(nodes)
       IN  Skippable((IF k \in Tokens THEN nodes[k].to ELSE Covered(k)) + 1, ix - 1, extra)

\* The tokens are the text, in order: each starts behind the one before it,
\* with nothing between them but spaces and comments, and what is behind the
\* last one is only that.  Without failed allocations no text gets lost.
TextIsCovered == fails = 0 /\ pc # "crashed" => Covers({}) /\ Len(nodes) \notin Tokens

\* When allocations fail and the lexer still reports success, all it has lost
\* are commas and opening quotes: every other failure is reported.
OkLosesOnlySeparators == pc = "done" => ix > Len(input) /\ Covers({",", "'"})

\* Doubling the quotes of a string gives the text between its quotes, and in
\* that text every quote is one of a pair.
StringsAreExact ==
    \A k \in Tokens :
        nodes[k].token = "TK_STRING" =>
            Redouble(nodes[k].value) = SubSeq(input, nodes[k].from, nodes[k].to)

\* The tokens that have a value.
Valued == {"TK_UNKNOWN", "TK_NUMBER", "TK_BOOLEAN", "TK_STRING"}

\* What parse_tree builds on.  However many allocations have failed, keywords
\* and characters have no value and every other token has one, but for a
\* boolean whose text an allocation has lost.  Without failures a string comes
\* behind a quote, one that is closed in the text also in front of one; quotes
\* come around a string, and the list ends with an unassigned token.  Of a
\* string that is not closed this says no more: rule 4 of the tree
\* (parse.h:106-107, relied on at parse.c:965-968) has no quote behind it, and
\* the lexer sets one all the same (parse.c:325).
IsTreeForParser ==
    LET Is(k, token) == k \in DOMAIN nodes /\ nodes[k].token = token
        Closed(k)    == nodes[k].to < Len(input)
    IN  pc = "done" =>
            /\ \A k \in DOMAIN nodes :
                 /\ nodes[k].value # NULL => nodes[k].token \in Valued
                 /\ nodes[k].value = NULL /\ nodes[k].token \in Valued =>
                        nodes[k].token = "TK_BOOLEAN" /\ fails > 0
            /\ fails = 0 /\ nodes[1].token # "garbage" => \A k \in DOMAIN nodes :
                 /\ Is(k, "TK_STRING") => Is(k - 1, "TK_QUOTE")
                                          /\ (Closed(k) => Is(k + 1, "TK_QUOTE"))
                 /\ Is(k, "TK_QUOTE") => Is(k - 1, "TK_STRING") # Is(k + 1, "TK_STRING")
                 /\ Is(k, "TK_UNASSIGNED_TOKEN") <=> k = Len(nodes)

\* The line of a token, counted in the text.
LineOf(i) == 1 + LineFeeds(SubSeq(input, 1, i - 1))

InString(i) == \E k \in Tokens : nodes[k].token = "TK_STRING" /\ i \in nodes[k].from .. nodes[k].to

\* line_number is exact, line feeds inside of strings and behind comments
\* included.  A node has the line its token starts on (mcfg.h:265), in all the
\* cases in which code and header agree: for a token behind a string of several
\* lines, up to the next line feed, the code keeps the line the string started
\* on (parse.c:156, 453), and in front of the first line feed it keeps what
\* malloc left in the first node (mcfg.c:410).  The line count of a token on a
\* single line is 1, or the 0 that stands for it (mcfg.h:268-273); that of a
\* string of several lines is one less than the header says (parse.c:324).
LinesAreExact ==
    pc # "crashed" /\ fails = 0 =>
        /\ ix <= Len(input) + 1 => lines = LineOf(ix)
        /\ \A k \in Tokens :
              LET feeds == {i \in 1 .. nodes[k].from - 1 : Sym(i) = "LF"}
              IN  nodes[k].from <= Len(input) =>
                    /\ (IF feeds = {} THEN root.line = 0 ELSE ~InString(Max(feeds))) =>
                           nodes[k].line = LineOf(nodes[k].from)
                    /\ LineFeeds(SubSeq(input, nodes[k].from, nodes[k].to)) = 0 =>
                           nodes[k].count \in {0, 1}

\* The lexer comes to an end: no iteration leaves the position where it was.
Terminates == <>(pc # "lexing")

-----------------------------------------------------------------------------
(* Not what the code does.                                                   *)

\* The lexer reads no byte behind the NUL.
StaysInText == ix <= Len(input) + 1
=============================================================================
