----------------------------- MODULE Serializer -----------------------------
(* src/serialize.c: a document becomes text, function by function.  A call   *)
(* of a function for a field is a step; serialize_file, _sector and _section *)
(* take one to start, one for each result they collect, one to write their   *)
(* text and one to clean up.  Any allocation may fail.                       *)
EXTENDS McfgText, McfgString, SequencesExt

CONSTANTS
    Docs,           \* the documents to serialize
    Options,        \* the mcfg_serialize_options_t to do it with
    Symbols,        \* the symbols that texts consist of
    ListCapacity,   \* capacity and alignment of a CPtrList
    MaxCalls,       \* bound on the calls of mcfg_serialize
    MaxFails,       \* bound on the allocations that fail
    StepAllocs      \* bound on the allocations of one step that are told apart

\* What the serializer writes by itself, or malloc leaves behind an indent.
Written == {" ", ",", "'", "LF", "NUL", "w", "sector", "section", "end", "list",
            "str", "bool", "i8", "u8", "i16", "u16", "i32", "u32", "true", "false",
            "-", "0", "1", "2", "3", "4", "5", "6", "7", "8", "9"}

\* What the serializer is given: the texts of a document are sequences of
\* symbols, of which it overwrites some, and where a field or an element has
\* data it is of the field's or the list's type.
Text == Seq(Symbols)

Value(type) ==
    IF type = "TYPE_STRING" THEN [text : Text]
    ELSE [bytes : Seq(0 .. 255) \ {<< >>}]

DocList ==
    {l \in [type : FieldTypes,
            elems : Seq([name : Nat, data : Value("TYPE_STRING") \cup Value("TYPE_BOOL")])] :
        \A k \in DOMAIN l.elems : l.elems[k].data \in Value(l.type)}

DataOf(type) == IF type = "TYPE_LIST" THEN DocList ELSE Value(type)
Data         == DocList \cup Value("TYPE_STRING") \cup Value("TYPE_BOOL")

DocField ==
    {f \in [name : Name, type : FieldTypes \cup {"TYPE_INVALID"}, data : {NULL} \cup Data] :
        f.data \in {NULL} \cup DataOf(f.type)}
DocSection == [name : Name, fields : Seq(DocField)]
DocSector  == [name : Name, sections : Seq(DocSection)]
Document   == [sectors : Seq(DocSector), dynfields : Seq(DocField)]

\* A block that holds a string.
String == [capacity : Nat, length : Nat, text : Text, block : Nat]

ASSUME SerializerAssumption ==
    /\ ListCapacity \in Nat \ {0}
    /\ {MaxCalls, MaxFails, StepAllocs} \subseteq Nat
    /\ Options \subseteq [tabs : BOOLEAN, spaces : Nat, stale : {<< >>, <<"w">>}]
    /\ Written \subseteq Symbols /\ Bases \subseteq Text
    /\ Docs \subseteq Document
    /\ NULL \notin Data \cup String

Ptrs == INSTANCE CPtrList

VARIABLES
    options,    \* the options; stale is what malloc leaves in the last byte of
                \* an indent of spaces: a NUL or something else
    file,       \* the document
    given,      \* the document as it was when mcfg_serialize was called
    stack,      \* serialize_file, _sector and _section as far as they run: the
                \* number of the child at hand and the list of child texts
    result,     \* the result in the function on top of the stack
    mem,        \* the heap
    pc,
    calls,      \* calls of mcfg_serialize
    fails       \* allocations that have failed

vars == <<options, file, given, stack, result, mem, pc, calls, fails>>

NoResult == [err |-> "MCFG_OK", value |-> NULL]

\* strings holds the mcfg_string_t blocks in the order in which they have been
\* allocated, NULL where one has been freed; plain counts the other blocks.
\* made and failing concern the step under way: the allocations it has made
\* and the number of the one that fails.
Heap == [strings |-> << >>, plain |-> 0, made |-> 0, failing |-> 0, crash |-> FALSE]

Live(m) == {p \in DOMAIN m.strings : m.strings[p] # NULL}

Init ==
    /\ options \in Options
    /\ file \in Docs
    /\ given = file
    /\ stack = << >>
    /\ result = NoResult
    /\ mem = Heap
    /\ pc = "idle"
    /\ calls = 0
    /\ fails = 0

-----------------------------------------------------------------------------
(* The heap.  Every operator takes a heap to the next one.                   *)

Crashed(m) == [m EXCEPT !.crash = TRUE]
Ok(m)      == m.made + 1 # m.failing            \* the next allocation succeeds
Made(m)    == [m EXCEPT !.made = @ + 1]

\* malloc and free of a block that is no string.
Plain(m)        == IF Ok(m) THEN [Made(m) EXCEPT !.plain = @ + 1] ELSE Made(m)
FreePlain(m, n) == [m EXCEPT !.plain = @ - n]
One(ok)         == IF ok THEN 1 ELSE 0

\* Freeing what is not there ends the program.
Free(m, ptr) ==
    CASE ptr = NULL    -> m
      [] ptr \in Live(m) -> [m EXCEPT !.strings[ptr] = NULL]
      [] OTHER         -> Crashed(m)

\* A string under construction: heap, pointer, error, and how many appends
\* have succeeded.
NewSized(m, size) ==
    IF Ok(m)
    THEN [m |-> [Made(m) EXCEPT !.strings = Append(@, mcfg_string_new_sized(size))],
          value |-> Len(m.strings) + 1, err |-> "MCFG_OK", appended |-> 0]
    ELSE [m |-> Made(m), value |-> NULL, err |-> "MCFG_MALLOC_FAIL", appended |-> 0]

\* ERR_CHECK of an append.  Where realloc fails the block stays behind.
AppendText(w, text) ==
    LET a      == w.m.strings[w.value]
        grows  == Grows(a, strlen(text))
        m      == IF grows THEN Made(w.m) ELSE w.m
    IN  CASE w.err # "MCFG_OK" -> w
          [] w.err = "MCFG_OK" /\ grows /\ ~Ok(w.m) ->
                [w EXCEPT !.m = m, !.value = NULL, !.err = "MCFG_MALLOC_FAIL"]
          [] OTHER ->
                [w EXCEPT !.m = [m EXCEPT !.strings[w.value] =
                                    string_append(a, text, strlen(text))],
                          !.appended = @ + 1]

AppendAll(w, texts) == FoldLeft(AppendText, w, texts)

\* Behind an error a function frees its string, but returns the pointer.
FreeOnError(w) == IF w.err = "MCFG_OK" THEN w ELSE [w EXCEPT !.m = Free(@, w.value)]

Failure(m, err) == [m |-> m, value |-> NULL, err |-> err, appended |-> 0]

-----------------------------------------------------------------------------
(* Strings.                                                                  *)

\* One level and two levels of indentation.  An indent of spaces is given its
\* NUL one byte too far: the byte in front of it is as malloc left it.
_make_indent(depth) ==
    IF options.tabs THEN Blanks(depth)
    ELSE Blanks(options.spaces * depth) \o options.stale

\* Mutant: a quote is written as it is.
PiecesUndoubled(text) == << text >>

\* What _serialize_string appends between the outer quotes: the text up to a
\* quote or a NUL, and two quotes for a quote.
Pieces(text) ==
    FoldLeft(LAMBDA pieces, s :
                CASE s = "'"   -> pieces \o << <<"'", "'">>, << >> >>
                  [] s = "NUL" -> Append(pieces, << >>)
                  [] OTHER     -> Append(Front(pieces), Append(Last(pieces), s)),
             << << >> >>, text)

\* Mutant: the quotes are given back to the document.
CutNone(text, count) == text

\* The document's own text, its first quotes overwritten.
Cut(text, count) ==
    LET rank(k) == Cardinality({i \in 1 .. k : text[i] = "'"})
    IN  [k \in DOMAIN text |->
            IF text[k] = "'" /\ rank(k) <= count THEN "NUL" ELSE text[k]]

\* The string w behind its appends, and the data then: a quote is overwritten
\* before the text in front of it is appended.
Quoted(w, texts, data) ==
    LET tried  == SubSeq(texts, 1, Min({Len(texts), w.appended + 2}))
        quotes == {i \in DOMAIN tried : tried[i] = <<"'", "'">>}
    IN  [w |-> FreeOnError(w), data |-> [text |-> Cut(data.text, Cardinality(quotes))]]

\* The string for the data, and the data afterwards.
_serialize_string(m, data) ==
    LET text  == IF data = NULL THEN << >> ELSE data.text
        texts == << <<"'">> >> \o Pieces(text) \o << <<"'">> >>
        new   == NewSized(m, strlen(text) + 3)
    IN  CASE new.err # "MCFG_OK" -> [w |-> new, data |-> data]
          [] new.err = "MCFG_OK" /\ data = NULL ->
                [w |-> FreeOnError([new EXCEPT !.err = "MCFG_MALLOC_FAIL"]), data |-> data]
          [] OTHER -> Quoted(AppendAll(new, texts), texts, data)

-----------------------------------------------------------------------------
(* Fields.  Each function returns its string and the data afterwards.        *)

\* The field around its value; without memory for the indent there is none.
\* Value and indent are freed behind success and failure alike.
AroundString(name, value, indented) ==
    LET v     == value.w
        block == v.m.strings[v.value]
        build == AppendAll(NewSized(v.m, 4 + strlen(name) + block.length),
                           <<_make_indent(2), <<"str", " ">>, name, <<" ">>, block.text>>)
        w     == CASE v.err # "MCFG_OK" -> Failure(v.m, v.err)
                   [] v.err = "MCFG_OK" /\ ~indented -> Failure(v.m, "MCFG_MALLOC_FAIL")
                   [] OTHER -> FreeOnError(build)
    IN  [w |-> [w EXCEPT !.m = FreePlain(Free(@, v.value), One(indented))],
         data |-> value.data]

serialize_string_field(m, field) ==
    AroundString(field.name.base, _serialize_string(Plain(m), field.data), Ok(m))

\* The text of a number is not checked before sprintf writes to it.
serialize_number_field(m, field) ==
    LET indent == _make_indent(2)
        m1     == Plain(m)
        m2     == Plain(m1)
        text   == mcfg_data_to_string(field.type, field.data)
        head   == <<Keyword(field.type), " ">>
        build  == AppendAll(NewSized(m2, strlen(indent) + strlen(head)
                                         + strlen(field.name.base) + strlen(text) + 3),
                            <<indent, head, field.name.base, <<" ">>, text>>)
        w      == IF Ok(m1) THEN FreeOnError(build) ELSE Failure(m2, "MCFG_MALLOC_FAIL")
    IN  [w    |-> IF field.data = NULL \/ ~Ok(m) THEN Failure(Crashed(m1), "MCFG_OK")
                  ELSE [w EXCEPT !.m = FreePlain(@, 1 + One(Ok(m1)))],
         data |-> field.data]

serialize_bool_field(m, field) ==
    LET indent == _make_indent(2)
        m1     == Plain(m)
        text   == <<" ">> \o mcfg_data_to_string(field.type, field.data)
        w      == AppendAll(NewSized(m1, strlen(indent) + 5 + strlen(field.name.base)
                                         + strlen(text)),
                            <<indent, <<"bool", " ">>, field.name.base, text>>)
    IN  [w    |-> CASE ~Ok(m) -> Failure(m1, "MCFG_MALLOC_FAIL")
                    [] Ok(m) /\ field.data = NULL -> Failure(Crashed(m1), "MCFG_OK")
                    [] OTHER  -> [w EXCEPT !.m = FreePlain(@, 1)],
         data |-> field.data]

\* A string element is a string of its own first, freed once it is appended;
\* behind an error of its own the string under construction stays what it was.
AppendString(w, inner) ==
    LET i == inner.w
    IN  [w    |-> IF i.err # "MCFG_OK"
                  THEN [w EXCEPT !.m = Free(i.m, i.value), !.err = i.err]
                  ELSE [AppendText([w EXCEPT !.m = i.m], i.m.strings[i.value].text)
                          EXCEPT !.m = Free(@, i.value)],
         data |-> inner.data]

\* serialize_func: the element is appended to the string under construction.
SerializeElement(w, type, data) ==
    LET text == mcfg_data_to_string(type, data)
    IN  CASE type = "TYPE_STRING" -> AppendString(w, _serialize_string(w.m, data))
          [] type = "TYPE_BOOL"   -> [w |-> AppendText(w, text), data |-> data]
          [] type \notin {"TYPE_STRING", "TYPE_BOOL"} /\ ~Ok(w.m) ->
                [w |-> [w EXCEPT !.m = Crashed(@), !.err = "MCFG_MALLOC_FAIL"], data |-> data]
          [] OTHER ->
                LET printed == AppendText([w EXCEPT !.m = Plain(@)], text)
                IN  [w |-> [printed EXCEPT !.m = FreePlain(@, 1)], data |-> data]

\* The elements from the first to the last, a comma behind all but the last.
WithElement(list, k, one) ==
    [w    |-> IF k < Len(list.elems) THEN AppendText(one.w, <<",", " ">>) ELSE one.w,
     list |-> [list EXCEPT !.elems[k].data = one.data]]

SerializeElements(w, list) ==
    FoldLeft(LAMBDA acc, k :
                IF acc.w.err # "MCFG_OK" THEN acc
                ELSE WithElement(acc.list, k,
                                 SerializeElement(acc.w, list.type, list.elems[k].data)),
             [w |-> w, list |-> list], [k \in DOMAIN list.elems |-> k])

\* Behind the elements the indent is freed, and on an error the string.
ListWritten(all) ==
    [w |-> [FreeOnError(all.w) EXCEPT !.m = FreePlain(@, 1)], data |-> all.list]

\* The indent is measured before it is checked.
serialize_list_field(m, field) ==
    LET list   == field.data
        indent == _make_indent(2)
        head   == <<"list", " ", Keyword(list.type), " ">>
        new    == NewSized(Plain(m), strlen(indent) + strlen(head)
                                     + strlen(field.name.base) + 2)
        opened == AppendAll(new, <<indent, head, field.name.base, <<" ">> >>)
    IN  CASE list = NULL -> [w |-> Failure(m, "MCFG_NULLPTR"), data |-> list]
          [] list # NULL /\ list.type \notin FieldTypes \ {"TYPE_LIST"} ->
                [w |-> Failure(m, "MCFG_INVALID_TYPE"), data |-> list]
          [] list # NULL /\ list.type \in FieldTypes \ {"TYPE_LIST"} /\ ~Ok(m) ->
                [w |-> Failure(Crashed(Made(m)), "MCFG_OK"), data |-> list]
          [] OTHER -> ListWritten(SerializeElements(opened, list))

\* The error leaves result.value what it was: the text of the field before.
InvalidType(m, field) ==
    [w |-> [Failure(m, "MCFG_INVALID_TYPE") EXCEPT !.value = result.value],
     data |-> field.data]

SerializeField(m, field) ==
    CASE field.type = "TYPE_STRING" -> serialize_string_field(m, field)
      [] field.type = "TYPE_LIST"   -> serialize_list_field(m, field)
      [] field.type = "TYPE_BOOL"   -> serialize_bool_field(m, field)
      [] field.type \in FieldTypes \ {"TYPE_STRING", "TYPE_LIST", "TYPE_BOOL"} ->
                                       serialize_number_field(m, field)
      [] OTHER                      -> InvalidType(m, field)

-----------------------------------------------------------------------------
(* Steps.                                                                    *)

Depth  == Len(stack)
Top    == stack[Depth]
ThisSector  == file.sectors[stack[1].ix]
ThisSection == ThisSector.sections[stack[2].ix]

\* What the function on top goes over.
Children == CASE Depth = 1 -> file.sectors
              [] Depth = 2 -> ThisSector.sections
              [] Depth = 3 -> ThisSection.fields
More == Top.ix < Len(Children)

Begin(k) == [mem EXCEPT !.failing = k]

\* The step ends with heap m: the allocation that was to fail has been made.
Commit(m, then) ==
    /\ m.failing <= m.made
    /\ fails' = fails + One(m.failing # 0)
    /\ fails' <= MaxFails
    /\ mem' = [m EXCEPT !.made = 0, !.failing = 0]
    /\ pc' = IF m.crash THEN "crashed" ELSE then

NextChild == [stack EXCEPT ![Depth].ix = @ + 1]
NewFrame  == [ix |-> 0, list |-> Ptrs!cptrlist_init(ListCapacity, ListCapacity, TRUE)]

\* mcfg_serialize and serialize_file, up to its loop.
Call ==
    /\ pc = "idle" /\ calls < MaxCalls
    /\ calls' = calls + 1
    /\ given' = file
    /\ \E k \in 0 .. StepAllocs :
         LET m == Plain(Begin(k))
         IN  \/ /\ Ok(Begin(k))
                /\ Commit(m, "loop")
                /\ stack' = <<NewFrame>> /\ result' = NoResult
             \/ /\ ~Ok(Begin(k))
                /\ Commit(m, "returned")
                /\ result' = [NoResult EXCEPT !.err = "MCFG_MALLOC_FAIL"]
                /\ UNCHANGED stack
    /\ UNCHANGED <<options, file>>

\* serialize_sector and serialize_section, up to their loops: a list, and the
\* indent of a section.  One of the two that fails, the other one is freed.
Enter ==
    /\ pc = "loop" /\ Depth < 3 /\ More
    /\ \E k \in 0 .. StepAllocs :
         LET first == Begin(k)
             m     == IF Depth = 1 THEN Plain(first) ELSE Plain(Plain(first))
             ok    == m.plain = mem.plain + Depth
         IN  \/ /\ ok
                /\ Commit(m, "loop")
                /\ stack' = Append(NextChild, NewFrame) /\ result' = NoResult
             \/ /\ ~ok
                /\ Commit([m EXCEPT !.plain = mem.plain], "collect")
                /\ stack' = NextChild
                /\ result' = [NoResult EXCEPT !.err = "MCFG_MALLOC_FAIL"]
    /\ UNCHANGED <<options, file, given, calls>>

\* One field of a section.
OneField ==
    /\ pc = "loop" /\ Depth = 3 /\ More
    /\ \E k \in 0 .. StepAllocs :
         LET i == Top.ix + 1
         IN  \E r \in {SerializeField(Begin(k), Children[i])} :
               /\ Commit(r.w.m, "collect")
               /\ result' = [err |-> r.w.err, value |-> r.w.value]
               /\ file' = [file EXCEPT
                             !.sectors[stack[1].ix].sections[stack[2].ix].fields[i].data = r.data]
    /\ stack' = NextChild
    /\ UNCHANGED <<options, given, calls>>

\* The result of the function called: an error ends the caller too, a text
\* goes into the list.  (Behind MCFG_OK the text is never NULL.)
Collect ==
    /\ pc = "collect"
    /\ \/ /\ result.err # "MCFG_OK"
          /\ Commit(Begin(0), "exit")
          /\ UNCHANGED <<stack, result>>
       \/ /\ result.err = "MCFG_OK"
          /\ \E k \in 0 .. StepAllocs :
               LET full == Ptrs!Full(Top.list)
                   m    == IF full THEN Made(Begin(k)) ELSE Begin(k)
                   add  == Ptrs!cptrlist_append(Top.list, result.value, Ok(Begin(k)))
               IN  /\ Commit(m, IF add.index > 0 THEN "loop" ELSE "exit")
                   /\ stack' = [stack EXCEPT ![Depth].list = add.list]
                   /\ result' = IF add.index > 0 THEN result
                                ELSE [result EXCEPT !.err = "MCFG_MALLOC_FAIL"]
    /\ UNCHANGED <<options, file, given, calls>>

\* The texts in the list on top.
TextAt(p) == mem.strings[p].text
Lengths   == FoldLeft(LAMBDA n, p : n + mem.strings[p].length, 0, Top.list.items)

Lines(f) == FlattenSeq(f)
SectionPieces ==
    LET indent == _make_indent(1)
    IN  <<indent, <<"section", " ">>, ThisSection.name.base, <<"LF">> >>
        \o Lines([k \in DOMAIN Top.list.items |-> <<TextAt(Top.list.items[k]), <<"LF">> >>])
        \o <<indent, <<"end", "LF">> >>

SectorPieces ==
    << <<"sector", " ">>, ThisSector.name.base, <<"LF">> >>
    \o Lines([k \in DOMAIN Top.list.items |->
                IF k < Len(Top.list.items) THEN <<TextAt(Top.list.items[k]), <<"LF">> >>
                ELSE <<TextAt(Top.list.items[k])>>])
    \o << <<"end", "LF", "LF">> >>

\* The text of a file is copied without append: its length stays 0.
FileString(m) ==
    LET new == NewSized(m, Lengths + 1)
    IN  IF new.err # "MCFG_OK" THEN new
        ELSE [new EXCEPT !.m.strings[new.value].text =
                FlattenSeq([k \in DOMAIN Top.list.items |-> TextAt(Top.list.items[k])])]

\* The text of the section, the sector or the file, all its parts being there.
Write ==
    /\ pc = "loop" /\ ~More
    /\ \E k \in 0 .. StepAllocs :
         LET m == Begin(k)
             w == CASE Depth = 3 -> AppendAll(NewSized(m, Lengths + strlen(_make_indent(1)) + 13
                                                         + strlen(ThisSection.name.base)), SectionPieces)
                    [] Depth = 2 -> AppendAll(NewSized(m, Lengths + 12
                                                         + strlen(ThisSector.name.base)), SectorPieces)
                    [] Depth = 1 -> FileString(m)
         IN  /\ Commit(w.m, "exit")
             /\ result' = [err |-> w.err, value |-> w.value]
    /\ UNCHANGED <<options, file, given, stack, calls>>

\* Mutant: the texts of the parts are kept.
DestroyKeepsItems(m, list) == FreePlain(m, 1)

Destroy(m, list) ==
    LET destroyed == Ptrs!cptrlist_destroy(list)
    IN  IF destroyed.fault THEN Crashed(m)
        ELSE FreePlain(FoldLeft(Free, m, destroyed.freed), 1)

\* The end of a function: its list goes, and behind an error a section or a
\* sector frees the result too, whatever that still is.
Exit ==
    /\ pc = "exit"
    /\ LET m == Destroy(Begin(0), Top.list)
           freed == IF result.err # "MCFG_OK" /\ Depth > 1 THEN Free(m, result.value) ELSE m
       IN  Commit(IF Depth = 3 THEN FreePlain(freed, 1) ELSE freed,
                IF Depth = 1 THEN "returned" ELSE "collect")
    /\ stack' = Front(stack)
    /\ UNCHANGED <<options, file, given, result, calls>>

\* The program is done with the text, and may serialize the document again.
Release ==
    /\ pc = "returned"
    /\ Commit(IF result.err = "MCFG_OK" THEN Free(Begin(0), result.value) ELSE Begin(0), "idle")
    /\ result' = NoResult
    /\ UNCHANGED <<options, file, given, stack, calls>>

Stopped ==
    /\ pc = "crashed" \/ (pc = "idle" /\ calls = MaxCalls)
    /\ UNCHANGED vars

Next ==
    \/ Call \/ Enter \/ OneField \/ Collect \/ Write \/ Exit
    \/ Release \/ Stopped

Spec == Init /\ [][Next]_vars

-----------------------------------------------------------------------------
(* Properties.                                                               *)

\* The text of one level, as the options ask for it.
AskedIndent == Blanks(IF options.tabs THEN 1 ELSE options.spaces)

\* The text returned behind MCFG_OK is that of the document, as it was when
\* the call began, no matter what the call has done to it since.  Indents of
\* spaces are right as long as malloc leaves zeroes behind them.
WritesDocument ==
    pc = "returned" /\ result.err = "MCFG_OK" /\ options.stale = << >> =>
        mem.strings[result.value].text = DocText(given, AskedIndent)

\* Every text fits its block, the NUL behind it included.
TextsFit ==
    \A p \in Live(mem) :
        /\ strlen(mem.strings[p].text) + 1 <= mem.strings[p].block
        /\ mem.strings[p].length <= strlen(mem.strings[p].text)

\* The strings that somebody is going to free: those in the lists of the
\* functions that run, and a result on its way to its list or to the caller.
Listed == UNION {ToSet(stack[d].list.items) : d \in 1 .. Depth}
Owned  == Listed \cup IF result.err = "MCFG_OK" THEN {result.value} \ {NULL} ELSE {}

\* What is owned has one owner and is there, and what is there is owned: each
\* failed allocation costs one block at most, and no other path leaks any.
EachBlockOwnedOnce ==
    pc # "crashed" =>
        /\ Owned \subseteq Live(mem)
        /\ Cardinality(Live(mem) \ Owned) <= fails
        /\ \A c, d \in 1 .. Depth : \A i \in DOMAIN stack[c].list.items,
                                       j \in DOMAIN stack[d].list.items :
              stack[c].list.items[i] = stack[d].list.items[j] => c = d /\ i = j
        /\ mem.plain = Depth + One(Depth = 3)

\* A document whose fields have data of a type.
SoundField(field) ==
    /\ field.type \in FieldTypes
    /\ field.data # NULL
    /\ field.type = "TYPE_LIST" => field.data.type \in FieldTypes \ {"TYPE_LIST"}
Sound(doc) ==
    \A s \in DOMAIN doc.sectors : \A t \in DOMAIN doc.sectors[s].sections :
        \A i \in DOMAIN doc.sectors[s].sections[t].fields :
            SoundField(doc.sectors[s].sections[t].fields[i])

\* Memory permitting, a sound document is serialized without an error.
SoundIsWritten ==
    fails = 0 /\ Sound(given) =>
        pc # "crashed" /\ (pc = "returned" => result.err = "MCFG_OK")

\* The texts of the strings of a document, in order.
TextsOf(field) ==
    CASE field.type = "TYPE_STRING" /\ field.data # NULL -> <<field.data.text>>
      [] field.type = "TYPE_LIST" /\ field.data # NULL /\ field.data.type = "TYPE_STRING" ->
            [k \in DOMAIN field.data.elems |-> field.data.elems[k].data.text]
      [] OTHER -> << >>
AllTexts(doc) ==
    TextOfAll(LAMBDA sector :
                 TextOfAll(LAMBDA section : TextOfAll(TextsOf, section.fields), sector.sections),
              doc.sectors)

\* What a call does to the document it is given: it overwrites quotes, in the
\* order in which it writes them, and nothing else.
CutsInOrder ==
    LET texts == AllTexts(file)
        before == AllTexts(given)
        Cuts(k)  == {i \in DOMAIN texts[k] : texts[k][i] # before[k][i]}
        Quotes(k) == {i \in DOMAIN texts[k] : before[k][i] = "'"}
    IN  /\ \A k \in DOMAIN texts :
              /\ DOMAIN texts[k] = DOMAIN before[k]
              /\ Cuts(k) \subseteq Quotes(k) /\ \A i \in Cuts(k) : texts[k][i] = "NUL"
              /\ \A i \in Cuts(k), j \in Quotes(k) : j < i => j \in Cuts(k)
              /\ Cuts(k) # {} => \A j \in 1 .. k - 1 : Cuts(j) = Quotes(j)
        /\ pc = "returned" /\ result.err = "MCFG_OK" =>
              \A k \in DOMAIN texts : Cuts(k) = Quotes(k)

\* Not what the code does: serializing a document leaves it as it was.
DocumentIsKept == file = given
=============================================================================
