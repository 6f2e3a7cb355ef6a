----------------------------- MODULE McfgParse -----------------------------
(* mcfg_parse and mcfg_parse_from_file of src/mcfg.c: a file is read, its    *)
(* text lexed, the nodes parsed, and the nodes and the text are freed again. *)
(* Composes Lexer and Parser, which take their own steps here.               *)
EXTENDS McfgText, SequencesExt

CONSTANTS
    Docs,           \* documents, in whose texts the program is interested
    OtherTexts,     \* texts of no document
    Roots,          \* what malloc may leave in the first node
    MaxFails        \* bound on the calls that fail

VARIABLES
    text, root, ix, lines, nodes, lexing,       \* of lex_input
    tokens, cur, pts, parsing, list, file, err, errAt, live,    \* of parse_tree
    fails,
    pc,
    result,     \* error and line of the mcfg_parse_result_t
    held        \* what is open or allocated besides the document

lexVars   == <<text, root, ix, lines, nodes, lexing>>
parseVars == <<tokens, cur, pts, parsing, list, file, err, errAt, live>>
vars      == <<lexVars, parseVars, fails, pc, result, held>>

Indent   == <<" ">>
Contents == {DocText(doc, Indent) : doc \in Docs} \cup OtherTexts

L == INSTANCE Lexer WITH
        Inputs <- Contents, input <- text, pc <- lexing

\* Before there are tokens the list of the parser is empty.
NoTokens == <<[token |-> "TK_UNASSIGNED_TOKEN", value |-> NULL]>>
P == INSTANCE Parser WITH
        Inputs <- {NoTokens}, input <- tokens, pc <- parsing

\* A text that ends in a comma may become a list of nodes without an end (see
\* Lexer), which Parser does not know.
ASSUME ParseAssumption ==
    \A content \in Contents : content = << >> \/ Last(content) # ","

Init ==
    /\ L!Init
    /\ P!Init
    /\ pc = "idle"
    /\ result = [err |-> "MCFG_OK", line |-> 0]
    /\ held = {}

-----------------------------------------------------------------------------

May(ok) ==
    /\ fails' = fails + IF ok THEN 0 ELSE 1
    /\ fails' <= MaxFails

Resting == UNCHANGED <<lexVars, parseVars>>

Fail(e, kept) ==
    /\ result' = [err |-> e, line |-> 0]
    /\ held' = kept
    /\ pc' = "returned"

Goes(to, kept) == pc' = to /\ held' = kept /\ UNCHANGED result

Closed(kept) == kept \ {"raw_file"}

\* mcfg_parse_from_file: the file is opened, ...
Open ==
    /\ pc = "idle"
    /\ \E ok \in BOOLEAN :
         /\ May(ok)
         /\ IF ok THEN Goes("opened", {"raw_file"}) ELSE Fail("MCFG_OS_ERROR", {})
    /\ Resting

\* ... its size is asked for, not looking whether fseek and ftell succeed, ...
Measure ==
    /\ pc = "opened"
    /\ \E ok \in BOOLEAN :
         /\ May(ok)
         /\ Goes(IF ok THEN "measured" ELSE "unmeasured", held)
    /\ Resting

\* ... a buffer is allocated, ...
Allocate ==
    /\ pc \in {"measured", "unmeasured"}
    /\ \E ok \in BOOLEAN :
         /\ May(ok)
         /\ IF ok THEN Goes(IF pc = "measured" THEN "reading" ELSE "misreading",
                            held \cup {"data"})
                  ELSE Fail("MCFG_MALLOC_FAIL", Closed(held))
    /\ Resting

\* ... and filled.  fread finds no item of size 0 in an empty file, which
\* counts as an error.  Behind an error the buffer stays.
Read ==
    /\ pc = "reading"
    /\ \E ok \in BOOLEAN :
         /\ May(ok)
         /\ IF ok /\ text # << >> THEN Goes("start", Closed(held))
                                  ELSE Fail("MCFG_OS_ERROR", Closed(held))
    /\ Resting

\* A file that was not measured has size 0, and fread finds no item, or size
\* -1, and fread writes what there is behind a buffer of no bytes.
Misread ==
    /\ pc = "misreading"
    /\ \/ Fail("MCFG_OS_ERROR", Closed(held))
       \/ text # << >> /\ pc' = "crashed" /\ UNCHANGED <<result, held>>
    /\ Resting /\ UNCHANGED fails

\* mcfg_parse, called by the program or from there.
Call == pc = "idle" /\ Goes("start", held) /\ Resting /\ UNCHANGED fails

\* Back from mcfg_parse, the buffer is freed.
Done(e, line, kept) ==
    /\ result' = [err |-> e, line |-> line]
    /\ held' = kept \ {"data"}
    /\ pc' = "returned"

Start ==
    /\ pc = "start"
    /\ \E ok \in BOOLEAN :
         /\ May(ok)
         /\ IF ok THEN Goes("lex", held \cup {"tree"}) ELSE Done("MCFG_MALLOC_FAIL", 0, held)
    /\ Resting

Lex ==
    /\ pc = "lex"
    /\ L!Lex
    /\ UNCHANGED <<parseVars, pc, result, held>>

\* The value of a node, as parse_tree reads it.
Value(node) ==
    CASE node.value = NULL                        -> NULL
      [] node.value # NULL /\ node.token = "TK_UNKNOWN" -> [base |-> node.value, newlines |-> 0]
      [] node.value # NULL /\ node.token = "TK_NUMBER"  -> [number |-> strtol(node.value)]
      [] node.value # NULL /\ node.token = "TK_BOOLEAN" -> [truth |-> node.value = <<"true">>]
      [] OTHER                                    -> [text |-> node.value]

\* A node that malloc has not cleared and no token has been written to.  What
\* it says is anything; to follow its pointers, or free them, may be fatal.
RootIsStale == root.token = "garbage" /\ nodes[1].from = 0

\* lex_input has returned MCFG_OK: its nodes are what parse_tree gets.
HandOver ==
    /\ pc = "lex" /\ lexing = "done"
    /\ \/ /\ RootIsStale
          /\ pc' = "crashed"
          /\ UNCHANGED tokens
       \/ /\ pc' = "parse"
          /\ tokens' = IF RootIsStale THEN NoTokens
                       ELSE [k \in DOMAIN nodes |-> P!Token(nodes[k].token, Value(nodes[k]))]
    /\ UNCHANGED <<lexVars, cur, pts, parsing, list, file, err, errAt, live, fails, result, held>>

\* parse_tree, and mcfg_free_file behind an error.
Parse ==
    /\ pc = "parse"
    /\ P!Parse
    /\ pc' = IF parsing' = "crashed" THEN "crashed" ELSE "parse"
    /\ UNCHANGED <<lexVars, result, held>>

\* Mutant: an error leaves the nodes behind.
free_tree_only_ok(kept) == IF lexing = "done" THEN kept \ {"tree"} ELSE kept

free_tree(kept) == kept \ {"tree"}

\* The text could not be lexed.  Behind a first node without a successor
\* free_tree follows the pointer that malloc left there.
Rejected ==
    /\ pc = "lex" /\ lexing \in {"failed", "crashed"}
    /\ \/ /\ lexing = "failed"
          /\ Done("MCFG_MALLOC_FAIL", 0, free_tree(held))
       \/ /\ lexing = "crashed" \/ (root.token = "garbage" /\ Len(nodes) = 1)
          /\ pc' = "crashed"
          /\ UNCHANGED <<result, held>>
    /\ Resting /\ UNCHANGED fails

\* The text has been parsed.  The line is that of the node at fault.
Parsed ==
    /\ pc = "parse" /\ parsing \in {"returned", "cleaned"}
    /\ Done(err, nodes[errAt].line, free_tree(held))
    /\ Resting /\ UNCHANGED fails

\* The program frees the document it has been given.
CallerFrees ==
    /\ pc = "returned" /\ parsing = "returned"
    /\ P!CallerFrees
    /\ pc' = IF parsing' = "crashed" THEN "crashed" ELSE pc
    /\ UNCHANGED <<lexVars, result, held>>

Ended == pc = "crashed" \/ (pc = "returned" /\ parsing # "returned")

Stopped == Ended /\ UNCHANGED vars

Next ==
    \/ Open \/ Measure \/ Allocate \/ Read \/ Misread \/ Call \/ Start \/ Lex \/ HandOver \/ Parse
    \/ Rejected \/ Parsed \/ CallerFrees \/ Stopped

\* The thread of the program goes on until it has freed the document.  Every
\* state but the last has a step that changes it, so this is WF_vars(Next).
Fairness == <>[]Ended \/ []<><<Next>>_vars

Spec == Init /\ [][Next]_vars /\ Fairness

-----------------------------------------------------------------------------
(* Properties.                                                               *)

\* Every variable has its type, and the parser is given what parse.h promises
\* it: the assumption that Parser makes on its tokens holds of the lexer's.
TypeOK ==
    /\ L!TypeOK
    /\ pc \in {"idle", "opened", "measured", "unmeasured", "reading", "misreading",
              "start", "lex", "parse", "returned", "crashed"}
    /\ result.line \in Nat
    /\ held \subseteq {"raw_file", "data", "tree"}
    /\ parsing # "crashed" => P!TypeOK
    /\ \A k \in DOMAIN tokens : tokens[k].token = "TK_UNASSIGNED_TOKEN" <=> k = Len(tokens)

\* A list without elements is written as its name alone, which is no list.
EmptyList(field) == field.type = "TYPE_LIST" /\ field.data.elems = << >>
HasEmptyList(doc) ==
    \E a \in Range(doc.sectors) : \E b \in Range(a.sections) : \E c \in Range(b.fields) : EmptyList(c)

\* Parsing undoes serializing: the text of a document, from a string or a file,
\* becomes that document again, without an error.
TextBecomesDocument ==
    pc = "returned" /\ fails = 0 /\ parsing # "freed" =>
        \A doc \in Docs :
            text = DocText(doc, Indent) /\ ~HasEmptyList(doc) /\ text # << >> =>
                result.err = "MCFG_OK" /\ file = doc

\* Whatever fails, the nodes are freed before mcfg_parse returns and the file
\* is closed; all that is left behind is the buffer that could not be filled.
NothingStaysBehind ==
    pc = "returned" => held = {} \/ (held = {"data"} /\ result.err = "MCFG_OS_ERROR")

\* Behind an error the document has been freed, whatever the pointers say that
\* the program gets, and what is left of it is one block at most, and two for
\* each allocation that has failed.
ErrorLeavesNoDocument ==
    pc = "returned" /\ result.err # "MCFG_OK" => file = EmptyFile /\ live <= 1 + 2 * fails

\* The line of an error is the line of the text on which the token at fault is,
\* if no string of several lines comes before it and the first node had no
\* line from the start.  Behind the last token there is no line but the one
\* that a line feed has led to, or 0.
ErrorIsOnItsLine ==
    LET node == nodes[errAt]
    IN  /\ pc = "returned" /\ parsing = "cleaned" /\ root.line = 0
        /\ \A k \in 1 .. errAt : nodes[k].token = "TK_STRING" => nodes[k].count = 0
        => result.line = CASE node.from > 0 -> L!LineOf(node.from)
                           [] node.from = 0 /\ Last(text) = "LF" -> lines
                           [] OTHER -> 0

\* A call returns or crashes, and the program frees what it gets.
Terminates == <>Ended
=============================================================================
