# TLA+ models of MCFG/2

MCFG/2 is a C library for a configuration format: a text of *sectors* that
contain *sections* that contain typed *fields* is parsed into a document, which
a program can also build, search, change, format and serialise by itself. This
directory holds models of the parts of it that decide whether a document is
right, the TLC runs that check them, and proofs that TLAPS checks. Paths are
those of the repository; `PROJECT.json` maps every definition to its lines.

## Inventory

| Component | Source | State | Operations |
|---|---|---|---|
| Document store | `src/mcfg.c`, `include/mcfg.h`, `remove_newline` | `mcfg_file_t`: nested arrays with counts, owned names and data | `mcfg_add_*`, `mcfg_get_*`, `mcfg_free_*`, `mcfg_add_list_field` |
| Lexer | `src/parse.c` 86-501, `src/parse.h` | index, line number, list of nodes | `lex_input`, `_set_node`, `_extract_string`, `_process_mcfg_string`, `_extract_word`, `free_tree` |
| Parser | `src/parse.c` 503-1109 | node pointer, state, list under construction, document | `parse_tree`, `_parse_field`, `_parse_list_field`, literal parsers |
| Parsing a text or file | `src/mcfg.c` 401-476 | result, file, buffer, nodes | `mcfg_parse`, `mcfg_parse_from_file`, `free_tree` |
| Field data access | `src/mcfg_util.c` 230-462 | none | `mcfg_data_as_*`, `mcfg_data_to_string`, `mcfg_format_list` |
| Paths | `src/mcfg_util.c` 24-228 | none | `mcfg_parse_path`, `mcfg_path_to_str`, `mcfg_get_field_by_path` |
| Growing strings | `src/mcfg_util.c` 464-547 | length, capacity, block | `mcfg_string_new*`, `mcfg_string_append*` |
| Serializer | `src/serialize.c` | buffers, owned lists of strings | `serialize_file`, `_sector`, `_section`, `_field` |
| Embed formatter | `src/mcfg_format.c` | buffer, size, list of embeds | `mcfg_format_field_embeds` |
| Pointer list | `src/cptrlist.c` | items, size, capacity | `cptrlist_init`, `append`, `free_at`, `destroy` |
| Tables, demo, tests, bindings | `src/main.c`, `tests/`, `bindings/`, `misc/` | none | |

How they interact: everything is one thread of calls. `mcfg_parse` allocates
the first node, calls the lexer, hands the list of nodes to the parser, which
calls the add functions of the store, and frees the partial document behind an
error. The caller then owns the document: it searches, adds and frees through
the store; serializer and formatter read it through the store's structures and
build their output in growing strings, which they keep in pointer lists.

What is hard here is not concurrency. It is

- *failed allocations*: nearly every step allocates, some results are checked
  and some are not, and what was allocated before must be given back;
- *ownership*: who frees a name, a datum, a list or an array, and whether the
  pointer passed to `free` was ever assigned;
- *agreement between state machines*: the lexer promises the parser a certain
  shape of list, the parser's state must be in step with the document it
  indexes without a check, the scan for a closing quote must agree with the
  removal of doubled quotes;
- *positions and lines*: every case of the lexer must move on, must stop at
  the NUL, and must keep the line numbers that errors are reported with;
- *narrowing*: numbers lose what their type cannot hold;
- *sizes computed in advance*: the serializer adds up lengths, the formatter
  remembers the size of its first buffer, a growing string rounds its capacity;
  what is written has to fit all the same;
- *sharing*: the serializer cuts the caller's strings up in place, an append
  reads from a block that may move, a pointer list may hold what is freed.

What makes the components correct: the store is a tree in which every entry is
found under its name, and freeing it gives back exactly what it owns; the lexer
turns all of a text, and nothing else, into tokens; the parser accepts the
documents it should, and what it builds says what the tokens said; a parse
leaves nothing but its result; a serialised document is written as it was, and
parses back; a formatted text is its template with every embed replaced; every
block has one owner, and every write stays in its block.

## Modules

```
Namespace  <- refined by McfgFile, Parser
McfgStore  <- McfgData <- McfgText
    ^             McfgQuotes          McfgString   CPtrList
    |                 ^                   ^  ^        ^
McfgFile   Parser   Lexer                 |  '- Buffers
               ^      ^                   |        |
               '------'-- McfgParse       Serializer
McfgPath <- EmbedFormat

CommonTheorems <- LexerProofs, BuffersProofs, McfgFileProofs, ParserProofs,
                  EmbedFormatProofs, SerializerProofs <- SerializerTextProofs
```

Modules without state, operators for the functions of a file:

- `Pointers`: the null pointer, the one constant that all of them share.
- `McfgStore`: the document as records and sequences and the functions of
  `src/mcfg.c`: what an add returns and leaves behind, what a lookup finds, how
  many heap blocks a free gives back. A C array with its count is a sequence; it
  is one heap block once it has an element. A name is its text and the number of
  line feeds behind it, because `remove_newline` takes one off.
- `McfgData`, `McfgText`, `McfgQuotes`: the accessors `mcfg_data_as_*`,
  `mcfg_list_as_string` and `mcfg_data_to_string`, the text of a document as it should be, `strlen` over
  symbols, and the removal of doubled quotes. `McfgText` is the reference that
  the serializer is checked against and the source of the texts for the parser.
- `McfgPath`: `mcfg_parse_path` with its allocations, `mcfg_path_to_str`,
  `mcfg_get_field_by_path`.
- `McfgString`, `CPtrList`: the growing string and the pointer list. Their
  functions take a list and return the list behind the call, whether `realloc`
  has failed, and whether the call has read through a NULL pointer.

State machines:

- `Namespace` is the abstract specification of the store: a tree of named
  entries that only grows. An entry keeps its value, has a parent, and all
  entries that are stored are reachable by a path.
- `McfgFile` is a program that calls the public functions in any order. One
  action stands for one call, `live` counts the heap blocks the library owns,
  `ret` is the outcome of the last call. Any allocation may fail (`ok`
  parameters, bounded by `MaxFails`).
- `Lexer` is `lex_input`; one action is one case of its switch. A text is a
  sequence of symbols: a character, or the whole of a keyword, because the code
  compares keywords as a whole. The `from` and `to` of a node record where its
  token came from and are not part of the code. `Roots` are the contents that
  `malloc` may leave in the first node.
- `Parser` is `parse_tree` with `_parse_field`, `_parse_list_field` and the
  literal parsers; one action is one iteration of a loop. `cur` is the node
  `current` points to when the iteration starts, `pc` says which loop control
  is in and, behind it, whether `mcfg_parse` has returned, cleaned up, or the
  program has crashed. The adds are those of `McfgStore`. `Unparse` writes a
  document down as tokens again, through `mcfg_data_as_*`: that is how the
  properties compare a document with its input.
- `McfgParse` composes the two as `mcfg_parse` does, for a text or a file: open,
  measure, allocate, read, lex, `HandOver` (the nodes become the parser's input), parse,
  `free_tree`. The steps of `Lexer` and `Parser` are theirs (`INSTANCE`); this
  module adds who frees what (`held`), the result and the line of an error.
- `Buffers` is a program with string variables and one pointer list. An append
  that grows may leave the block where it is, move it, or fail; a source that
  was read from a block which has moved is a choice over the characters.
- `Serializer` is `src/serialize.c`. `stack` holds the calls of
  `serialize_file`, `_sector`, `_section`, each with its child at hand and its
  pointer list; a function for a field is one step, in which each allocation
  may be the one that fails (`StepAllocs`). `mem` is the heap of strings, and
  `file` is changed as the code changes it. `Symbols` are the symbols of texts,
  and `Document` says which documents a program can pass: data, where there is
  any, is of the type that its field or its list names. Neither restricts what
  the code does; the proofs need to know where a text comes from.
- `EmbedFormat` is `src/mcfg_format.c`. `stack` holds the nested calls of
  `mcfg_format_field_embeds_str`, each with its embeds, its output and the size
  it believes its buffer to have. `spare` counts the blocks that paths of more than
  three elements leave behind and is not part of the code. Templates are given part by part, so that
  `Meaning` can say what their text stands for without reading it.
- `MC*` give the constants values. `*Proofs` hold the theorems.

Undefined behaviour is a choice: `free` of a pointer that was never assigned
either does nothing (the memory happened to be zero) or ends in the state
`crashed`; a read through NULL always does; a byte that `malloc` has left may be
a NUL or not. In `McfgFile` and `Parser` `live` counts blocks only; the order of
the calls of `free` is not modelled.

An operator marked `Mutant:` stands before the definition it is a faulty
version of. It is used by no specification: with it in place of that
definition, a run finds its property violated, which shows that the property
depends on that piece of the code.

Every property is commented where it is defined. `FreeIsSafe`, `StaysInText`,
`DocumentIsKept`, `WritesInBuffer` and `ListsAreInserted` state what a comment,
test or document of the repository says and the code does not do; each is the
subject of one run that TLC ends with a counterexample, and of an entry under
`findings`.

## Runs

| Run | Bounds | What it shows |
|---|---|---|
| `MCMcfgFile` | 3 names over 2 texts, 3 kinds of field data, 5 entries, 1 failed allocation | every entry is found by its name; errors are true, but for that of a duplicate section, and failing calls change nothing; `Namespace` is refined; frees are complete up to one block per failed allocation |
| `MCParser` | 4 valid documents, every replacement, removal or insertion of one token in three of them, all continuations of an open section by 3 chunks; any 2 allocations fail | the document says what the tokens said, but for numbers too wide for their type, up to the declaration at fault; `Namespace` is refined; names are unique; the program crashes only for an empty container or a failed allocation; a failing parse loses one block, and two for each failed allocation, at most; parsing ends |
| `MCLexer` | all texts of 4 symbols over 10, texts of 6 symbols for strings and for comments, 3 contents of the first node; 1 failed allocation | the tokens are the text, in order, with only spaces and comments between them; strings keep their quotes; line feeds are counted exactly, and a token has its line unless a string of several lines stands before it on that line; the list has the shape the parser needs; `MCFG_OK` has lost nothing but commas and opening quotes; lexing ends |
| `MCParse` | 16 documents with every kind of field, 14 texts in error, from a text or a file, 2 contents of the first node; any 1 call fails | the text of a document becomes that document; nodes, file and document are given back whatever fails; an error names its line; what the lexer hands over satisfies the parser's assumption (`TypeOK`); it ends |
| `MCSerializer` | 4 small documents, 12 kinds of field alone and 3 together, 12 documents without data or type; tabs, spaces and a stale byte; lists that have to grow; 2 calls; any 1 allocation fails | the text is that of the document as it was; it fits its block; every block has one owner; a sound document is written; only quotes of the document are lost, in order |
| `MCBuffers` | 2 variables, 3 string blocks, lengths to 4, a list of capacity 1 growing by 1 to 3 items, 1 failed allocation | texts fit their blocks and stay as they are in front of what is appended; a string is lost only by the allocation that fails, its own or its list's; each function crashes for its stated cause only |
| `MCFormat` | 29 texts, one document with two sections and two dynamic fields, 2 relativities, 4 nested calls; any 2 allocations fail | the result is the expansion; it stays in its buffer but for the placeholder; all blocks are freed but those of path elements behind the third; crashes have one of seven causes, of which a failed allocation is two only where what is missing is used; a path is printed as it is parsed; formatting ends |

Every number above is a constant of the `.cfg` or a set of the `MC*` module.

Why the bounds are enough. Five entries allow a sector, a section, a field, a
list element and one duplicate at any of these levels; names that collide only
after their line feed is gone need one text in two forms. The parser keeps no
more state than its position, two loops and the end of the document, so that
one edit of a valid document reaches every error of every state; the three
documents hold every kind of field, empty containers, names reused on every
level and a field behind a list. Two failures cover a failure whose
cleanup fails. The lexer looks one symbol ahead except in strings and comments,
for which there are longer texts: six symbols are two doubled quotes in a
string, or two comments. A pointer list that has to grow once, in the middle of
a document, meets the same code as one that grows at its seventeenth child. The
serializer keeps nothing between two calls but what it has done to the document,
so two calls show what a third would see. A string of `Buffers` reaches its
second resize at length 4. The templates of `MCFormat` combine each kind of
embed with one before and one behind it, values shorter and longer than the
embed, and two levels of values that embed values; `StackLimit` only ends the
recursion of those that embed one another.

Runs that end with a counterexample:

- `MCMcfgFileFree` (`FreeIsSafe`): a sector is added and the file freed, and an
  array pointer that was never assigned reaches `free`.
- `MCLexerBeyond` (`StaysInText`): behind a string that is not closed the lexer
  reads on behind the NUL.
- `MCSerializerKeeps` (`DocumentIsKept`): serialising a string with a quote
  overwrites the quote in the document.
- `MCFormatOverflow` (`WritesInBuffer`): the placeholder for a missing field is
  written without the check of the buffer's size.
- `MCFormatLists` (`ListsAreInserted`): embedding a list is always an error,
  because `mcfg_format_list` takes the success of `malloc` for its failure.

`CHECK_DEADLOCK FALSE` is used where a program may stop for good after its last
call (`McfgFile`); in every other module the end is an explicit stuttering step
(`Stopped` in most), and every other state must have a successor.

### Other differences

The models contain further differences between the code and what its comments
and documents say, or what a caller would expect. They have no run of their own.

Store and parser:

- a duplicate section is reported as `MCFG_DUPLICATE_FIELD` (`src/mcfg.c:146`),
  not as `MCFG_DUPLICATE_SECTION` (`include/mcfg.h:147`); `AddReportsTruth` asks
  for the documented error of every other kind of entry;
- the cleanup of `mcfg_parse` (`src/mcfg.c:427`) meets the same unassigned
  array pointers as `FreeIsSafe`, behind any error in an empty container, and so
  does the list parser when the first token of a list is no literal
  (`src/parse.c:789`);
- sectors and sections that are not closed by `end` are accepted, against
  `README.md:48`; a number too wide for its type is truncated, though a literal
  has to be "valid for the datatype of the field" (`src/parse.c:972`):
  `ParsedExactly` says of such a number only where it is (`TooWide`);
- the result of `mcfg_add_list_field` is dropped (`src/parse.c:810`), a failed
  `strdup` of a name or boolean is not noticed (`src/parse.c:1026`, `132`): the
  parse goes on and may return `MCFG_OK`;
- the text that is written for an empty list does not parse: a list needs an
  element (`TextBecomesDocument` excepts it).

Lexer:

- a string that is not closed gets a closing quote token (`src/parse.c:325`),
  against rule 4 of `src/parse.h:106` (`IsTreeForParser` speaks of the quote
  behind a closed string only); `true` and `false` are `TK_BOOLEAN`, where rule 5
  (`src/parse.h:108`) has `TK_NUMBER`; a text without tokens leaves the first
  node as `malloc` returned it, against rule 6 (`src/parse.h:110`), and its
  token, value and successor are then read;
- a token behind a string of several lines has the line the string starts on
  (`src/parse.c:156`), not "the first line on which it resides"
  (`include/mcfg.h:265`), and the line count of a string is one less than its
  lines (`src/parse.c:324`, `include/mcfg.h:269`): `LinesAreExact` says nothing
  of either; an error behind the last
  token is reported for line 0;
- a comment without a line feed behind it is lexed (`src/parse.c:393`), while
  the syntax file (`misc/mcfg.vim:17`) ends a comment at the end of its line;
- a comma or opening quote is overwritten when there is no memory for the next
  node (`src/parse.c:401`); `OkLosesOnlySeparators` shows that nothing else is.
  When that comma is the last token of the text, the list of nodes has no end;
- an empty file is reported as `MCFG_OS_ERROR`, and its buffer is lost
  (`src/mcfg.c:462`); `fseek` and `ftell` are not checked
  (`src/mcfg.c:450`): the size -1 of a file that cannot be measured becomes a
  buffer of no bytes that `fread` fills (`Misread`).

Strings and lists:

- the capacity of a string made by `mcfg_string_new` does not count the NUL
  (`src/mcfg_util.c:488`), against `include/mcfg.h:319` and
  `doc/usage/serializing.md:39`: `StringsFit` leaves open which of the two it is,
  and asks for a block that is no smaller than the capacity and the text;
- a string appended to itself is read from the block it has moved from
  (`src/mcfg_util.c:541`); a failed `realloc` overwrites the only pointer to a
  string (`src/mcfg_util.c:508`);
- `cptrlist_free_at` is documented to set the slot to NULL and does not
  (`src/cptrlist.c:134`); behind a failed resize the next append that has to
  grow makes an array anew and the items are gone; a full list whose
  `allow_resize` is false is written behind its end (`src/cptrlist.c:84`).

Serializer:

- the NUL of an indent of spaces is one byte behind its block, and the byte
  before it is as `malloc` left it (`src/serialize.c:90`): with any other byte
  than zero the text is wrong, which is why `WritesDocument` is stated for a zero;
- the length of the returned text stays 0 (`src/serialize.c:212`);
- behind an error some results are freed by a function and again by its caller
  (`EachBlockOwnedOnce` is about the states before such a crash).

Formatter and paths:

- the accessors of `mcfg_util.c` are documented to return a default for missing
  data, and `mcfg_data_to_string` reads through the NULL;
- the elements of a list cannot be embedded as `name:index`, which
  `doc/embed_formatting.md` describes: the placeholder is written;
- the first character of the text is never part of the prefix of a list's
  elements, and text behind an empty list is dropped up to the next space; when
  there is an embed in that text, the size to copy wraps around;
- an escape inside of an embed makes the size to copy wrap around;
- a relative path of three elements is not marked absolute and is never found;
  the elements of a path behind the third are lost blocks; a lone `%`, and `%/`, has
  a name of -1 characters; `mcfg_path_to_str` loses the percent signs of a dynamic
  field, and writes no NUL for an empty path.

## Fairness

`FairSpec` of `Lexer` and `Parser` assumes weak fairness of the function's own
steps: it is a call in one thread that waits for nothing, so it keeps taking
steps until it returns. Nothing is assumed of the caller (`CallerFrees` is not
fair). `McfgParse` and `EmbedFormat` have the program in the model as well, up to
its last step; their `Fairness` is `<>[]Ended \/ []<><<Next>>_vars`. Every state
that is not `Ended` has a step that changes it, so this is `WF_vars(Next)`,
written without the `ENABLED` that is expensive for TLC to evaluate. `McfgFile`,
`Buffers` and `Serializer` assume none: they are programs that may stop calling.
That a call of the serializer ends is not stated; its loops count through the
document.

## Proofs

All theorems hold for every value of the constants that satisfies the module's
assumption: any sets of names, texts and data, documents of any size, token
lists of any length, any bound on failures.

- `CommonTheorems`, first part: minima, maxima, and what the folds of the
  community modules compute. The induction is over the members of a set
  (`SetInduction`, from the well-foundedness of `<`), so that its hypothesis is a
  set and no operator:
  the numbers up to which a fold is the loop one reads it as (`FoldIsLoop`) are
  all numbers. `SumOver` and its theorems say how a sum over an array changes
  when an element is appended or exchanged.
- `CommonTheorems`, the operators of `McfgStore` and `McfgData`: for each add
  function, that it keeps a document well typed and its names unique. The shared part is `AddNamedUnique`: the entry appended
  has a name the array did not hold. `ReplaceSector` and `ReplaceSection` carry
  a change of one array up to the document. `UniqueAllFound` shows that unique
  names make every lookup find its entry. The lemmas on `mcfg_free_file`
  (`AddSectorFrees` and the like) say by how many blocks an add makes a later
  free give back more: the heap accounting of the two programs below.
  Its second half shows that the store implements a tree. `Entries` of a document
  is a set of paths; `Under(path, step, p)` says that `p` passes through a child, so
  that the entries of two siblings of different names are apart. One level
  after the other (`FieldGrows`, `SectionGrows`, `SectorGrows`, `FileGrows`) a
  change of one array is a change of that branch alone (`Grows`), and each add
  is shown to `Adds` exactly one entry at a path that was free below one that is
  there. `TreeGrows` is the step of the abstract tree that follows. `AllLists`,
  that a field of type list holds elements in their places, is the part of the
  invariant that appending to a list needs.
- `McfgFileProofs`: `TypeOK /\ NamesUnique` is inductive (`NextInv`). From it
  follow `TypeCorrect`, `NamesStayUnique` and `EntriesStayFound`.
  `FreedCompletely` strengthens `FreeIsComplete` to `Owned`: `live` is what a
  free of the document would give back, and at most one block for each failed
  allocation. `AddsReportTruth` and `DocumentIsNamespace` follow from one case
  distinction (`StepOutcome`): a call has declared one entry, has been refused
  and has changed nothing that a lookup sees, or has emptied the document.
- `ParserProofs`: the invariant is
  `TypeOK /\ input \in Inputs /\ Aligned /\ NamesUnique`. `TypeOK` includes
  that `cur` stays inside of the list. That needs `ParserAssumption`: a list
  ends with its only unassigned token, so that a token of any other kind has
  one behind it (`AnotherFollows`); the lexer's side of that assumption is
  the part of `IsTreeForParser` about values and the end of the list, which
  `LexerProofs` proves. `Aligned` is what makes the
  unchecked indexing of the last sector and section meet a place (`Placed`), and
  the type of the data stored needs that a literal of the kind its type asks for
  spells a value that fits the type's width (`LiteralFits`). There is one lemma
  for each action. On top of it stand three invariants: `Owned`, which counts
  the list under construction with the document (`FreedCompletely`); `Caused`,
  which adds to `CrashHasCause` that without a failed allocation every entry has
  a name, because a lookup compares the names it has stored with `strcmp`
  (`CrashesHaveACause`); and `TreeInv`, the document as a tree
  (`DocumentIsNamespace`).
- `LexerProofs`: `Steps` says what an iteration of the loop is, whatever case of
  the switch it takes: it skips, appends one token, appends the tokens of a
  string, fails, or crashes. `TokenIs`, `StringIs` and `SkipIs` derive that from
  the code's scans, which search for the least position. Each property has its
  invariant over these steps: `Placed` (an iteration looks at the text),
  `AllExact` (what a string's value is; `RedoubleUndouble` is why that is
  lossless), `InOrder` (each token begins behind the one before it, with nothing
  but white space, comments, and after a failure separators between them),
  `Building` (the unassigned node is the last one, quotes stand around strings),
  and `Lining`: each token has the line that is due where it starts, and the
  node in the making has the one that is due at the index. A node's line is set
  by the last line feed outside of a string and inherited from the node before,
  so the invariant has to speak of the node that has no token yet. `Lining` says
  what the code does, behind strings of several lines too; `ExactLines` follows
  for the tokens whose line code and header agree on.
- `BuffersProofs`: `StringsAreBlocks` and `TextIsKept`, for every alignment, any
  number of strings and of blocks. `ResizeFits` is the arithmetic: a size that
  is rounded down after the alignment was added leaves room for the length, the
  NUL and one byte. `AppendFits` carries it to an append, and one lemma for each
  action to the heap. `TextIsKept` follows because an append leaves the text of the
  source behind the one it finds (`KeptIn`) and a block that moves takes its text
  along; the one exception is the block a string appended to itself has left.
  `NothingIsLost` is about steps: a live string that no variable and no list
  holds was lost before, or is lost by the failed `realloc` of its own block
  (`Drops`) or of the array it was listed in (`Loses`). Its invariant is
  `OwnInv`: the list is typed and its array is gone only behind a failure. `Emptied` is the loop of `cptrlist_destroy`, which takes items away
  while it counts down: what it frees has been freed once, and is exactly what
  the list held and holds no more. `Added` says the same of what an append or
  insertion puts in, `FreedItem` of `cptrlist_free_at`. With what is held known,
  `CrashesHaveACause` is one case for each action (`Caused`).
- `EmbedFormatProofs`: the scan for embeds is a fold over the text; `ScanIsLoop`
  turns it into the states of a loop, and `ScanIn`, `ScanApart` and `ScanClean`
  are its invariants: every embed lies in the text; of those that are
  initialised none begins inside of another one unless it is an escape, and an
  allocation that fails leaves either all of them or a list in which one is not
  initialised (`Wiped`); and when nothing fails there is one block for each and one
  for the array. The invariant of the calls is `IInv`: every frame is
  typed, has its embeds and what it has copied inside of its text (`Inside`) and
  its output inside of its block (`Written`), has copied at least to the end of
  the embed before (`Follows`), and those that wait do so for a field. `write_offs` may be negative while a list is formatted, because its
  prefix is taken back from text that may not be there; it is used again only
  behind an empty list, whose text has no characters (`Waiting`, `TopOK`). Each
  action is first described by what it does to the call on top (`Errs`,
  `Writes`, `Finds`, `Begins`, `Lists`, `GoesBack`). `OutputStaysInBuffer` is a
  part of `IInv`. For `FreedWhenFormatted` `BInv` balances `blocks` with the sum
  of what the calls hold (`HeldBy`: embeds, array, buffer, the text of a list),
  by the theorems on `SumOver`; `ParseLeaves` is what a path leaves behind. For
  `CrashesHaveACause`, the embeds of every call are initialised and apart, or one of
  them is not behind an allocation that has failed (`Tidy`, `CallsTidy`), so that
  what is freed can be, and text is copied backwards only behind an escape or a
  list (`CopyBack`); a failure is a cause only where the call has such an embed,
  and where it looks a path up or inserts a value (`NowCause`). It assumes that
  the stack has room for a call for each text (`RoomForTexts`): then one that is
  full holds a text twice, by the pigeonhole principle (`FullRecurs`). Without
  that room a long chain of different fields ends the program too, which is no
  cause of `CrashHasCause`. `MCFormat` keeps the stack shorter than its list of
  texts, and its documents have no chain of different texts that long.
- The end of `ParserProofs` is about `McfgParse`, which runs the parser
  (`Reader`): `NothingIsKept`. The property speaks of the return only; its
  strengthening `HeldByPc` says what is held at each point of the two functions.
- `SerializerProofs`: `EveryTextFits`, `OneOwner` and `SoundWritten`, from one
  invariant, `IInv`, which TLC has checked on the run's instance, with two
  failing allocations as well. A string under construction is followed through
  the appends of a step (`Building`): what is owned besides it is untouched, only
  the allocation that is to fail in this step ends it (`Spent`), and that costs
  one block at most (`Kept`). `AppendTextBuilding` is the step of that;
  `AppendBuilt` is its arithmetic: an append leaves room for the NUL behind the
  text, and the length it counts is the text's. `SerializeFieldDone` carries it through the functions
  for fields, with a case for the error paths that free a value twice or never
  check an allocation (`Dangling`, `Broken`): they end the program, which
  `EachBlockOwnedOnce` excludes and `SoundIsWritten` allows behind a failure
  only. Between the steps, `Holding`, `Apart` and `Lossless` say that the lists on the
  stack hold strings that are there, each in one place, and that what nobody
  holds is counted by the failures. `EachBlockOwnedOnce` is not inductive without
  `Settled`, which says what `result.value` still is: at a text for the list, it
  is in no list yet; behind an error it is dangling, or a string of the list
  that is about to be destroyed, so that the second `free` (`src/serialize.c:350`)
  meets either a NULL or no string; and a list has lost its array only if it has
  items, so that destroying it is the crash that follows. `Placed` keeps the
  three counters within the document, which no step changes the shape of
  (`SameShape`), and `DestroyFrees` is the loop of `cptrlist_destroy`, which
  steps over a list that becomes shorter.
- `SerializerTextProofs`: `TextWritten`, which is `WritesDocument`: what `mcfg_serialize` returns behind
  `MCFG_OK` is the text of the document it was given, with tabs or spaces, as long
  as the byte in front of the NUL of an indent of spaces is zero. It needs a second
  invariant, `TInv`, for the property speaks of the return only. `TInv` says that
  what has not been serialized yet is as it was when the call began (`Rest`; a
  string that has been written is cut at its quotes, `src/serialize.c:114`, so the
  document itself is no longer what was given), that each list on the stack holds the texts of
  its children in order (`Listing`) and of all that have returned (`Counted`), and
  that the result is the text of the child that has just returned (`Resulting`).
  The induction over the texts is over positions: `StringPiecesJoined` is the
  quoting of a string piece by piece, `AppendAllLoop` and `SerializeElementsLoop` are the
  loops, and `WholeSection`, `WholeSector` and `WholeFile` join what the children
  are written as into the text of a section, a sector and a document.

Only model-checked: termination (liveness and fairness are beyond the prover);
`ParsedExactly`, `TextBecomesDocument`, `CutsInOrder`,
`OkIsExpansion` and `PathsReadBack`, whose two sides are folds over the same
document or text. Comparing them takes an induction over its positions that
follows the loops of the code, which only `TextWritten` has so far;
and `TypeOK`, `ErrorLeavesNoDocument` and `ErrorIsOnItsLine` of `McfgParse`. These
compose theorems of `LexerProofs` and `ParserProofs`, but the parser that
`McfgParse` runs begins with an empty list and receives its input in
`HandOver`, where the theorems about the parser have it from the start.

## Not modelled

- A NULL argument for the container, and the tests of `next` for NULL that the
  terminated list makes unreachable.
- Pointers into the document that a caller keeps across an add: entries are
  addressed by index, and no function of the library keeps one.
- What `strtol` does beyond its range: TLC's integers have 32 bits, the numbers
  checked are at the limits of the fields' types up to `i32`.
- The build variant `_MCFG_REALLOC_LEXED_STRINGS`.
- `mcfg_data_as_int` and `mcfg_free_path`, which nothing in the library calls,
  and the part of `mcfg_format_list` that is never reached.
- Dynamic fields in a serialised text: `serialize_file` writes none.
- Texts of errors and tokens, the demo, the tests, bindings and build scripts.

## Plan

1. `McfgHandles`: a program that keeps the pointers `mcfg_get_*` returns across
   adds that may move the arrays.
2. Proofs: the composition of lexer and parser in `McfgParse`, for which the
   parser's invariant has to be stated for an input that arrives late.
