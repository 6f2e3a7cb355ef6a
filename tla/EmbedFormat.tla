---------------------------- MODULE EmbedFormat ----------------------------
(* src/mcfg_format.c: the fields that are embedded in a string, $(path), are *)
(* replaced by their values, and so are those that a value embeds in turn.   *)
(* A call of mcfg_format_field_embeds_str is a frame of the stack.  It takes *)
(* a step to find its embeds, one to start, and for each embed one to copy   *)
(* the text in front of it, one to look the field up and one to insert it.   *)
(* Any allocation may fail.  Texts are spelled, a symbol for each character. *)
EXTENDS McfgPath, McfgText, SequencesExt

CONSTANTS
    Files,          \* the documents
    Relativities,   \* the paths that complete the paths of the embeds
    Templates,      \* the texts to format and to embed, part by part
    StackLimit,     \* bound on the calls that fit the stack of the program
    MaxFails,       \* bound on the allocations that fail
    StepAllocs,     \* bound on the allocations of one step that are told apart
    Far             \* the offset that strchr(...) - input is without a space

\* A part is text that stays, or an embed with the elements of its path and
\* where they lead from: the root, the relativity, or the dynamic fields.
TextOf(parts) == FoldLeft(LAMBDA text, part : text \o part.text, << >>, parts)
Inputs        == {TextOf(parts) : parts \in Templates}

Characters    == UNION {Range(text) : text \in Inputs}

\* The strings of a document are texts that may be formatted, its numbers and
\* truth values have the bytes of their type.
WellTyped(field) ==
    \/ field.data = NULL
    \/ field.type = "TYPE_STRING" /\ field.data \in [text : Inputs]
    \/ field.type = "TYPE_LIST" /\ field.data \in List
    \/ /\ field.type \in FieldTypes \ {"TYPE_STRING", "TYPE_LIST"}
       /\ field.data \in [bytes : Seq(0 .. 255)]
       /\ Len(field.data.bytes) = mcfg_sizeof(field.type)

ASSUME FormatAssumption ==
    /\ {StackLimit, MaxFails, StepAllocs, Far} \subseteq Nat
    /\ \A text \in Inputs : text \in Seq(Characters) /\ Len(text) < Far
    /\ NULL \notin Seq(Characters)
    /\ \A f \in Files :
         /\ f \in File
         /\ \A field \in Range(f.dynfields) : WellTyped(field)
         /\ \A sector \in Range(f.sectors) : \A section \in Range(sector.sections) :
               \A field \in Range(section.fields) : WellTyped(field)

VARIABLES
    file,
    rel,
    input,      \* what the program asked for
    stack,
    ret,        \* what the call before has returned
    blocks,     \* heap blocks in use
    spare,      \* of them, elements of paths behind the third: not in the code
    pc,
    fails       \* allocations that have failed

vars == <<file, rel, input, stack, ret, blocks, spare, pc, fails>>

One(b) == IF b THEN 1 ELSE 0

Nullptr == <<"(", "n", "u", "l", "l", "p", "t", "r", ")">>
Null    == <<"(", "n", "u", "l", "l", ")">>

Letters(symbol) ==
    CASE symbol = "true"  -> <<"t", "r", "u", "e">>
      [] symbol = "false" -> <<"f", "a", "l", "s", "e">>
      [] OTHER            -> <<symbol>>

Spelled(text) == FoldLeft(LAMBDA out, symbol : out \o Letters(symbol), << >>, text)

NoResult    == [err |-> "MCFG_FMT_OK", formatted |-> NULL]
Failed(err) == [err |-> err, formatted |-> NULL]

-----------------------------------------------------------------------------
(* Finding the embeds.  Positions count from 0, as in the code.              *)

\* Mutant: the end of an embed is one character behind its bracket.
NewEmbedPast(field, pos, src_end_pos, ignore_me) ==
    [pos |-> pos, src_end_pos |-> src_end_pos + 1, ignore_me |-> ignore_me, field |-> field]

NewEmbed(field, pos, src_end_pos, ignore_me) ==
    [pos |-> pos, src_end_pos |-> src_end_pos, ignore_me |-> ignore_me, field |-> field]

Garbage == [pos |-> 0, src_end_pos |-> 0, ignore_me |-> FALSE, field |-> <<"garbage">>]

\* x is what _extract_embeds has so far, with the allocations it has made.
\* An array that could not grow is lost, but its count goes up: its entries
\* are not initialised in the array that is allocated next.
_append_embed(x, failing, field, pos, src_end_pos, ignore_me) ==
    LET embed == NewEmbed(IF failing = x.made + 1 THEN NULL ELSE field, pos, src_end_pos,
                          ignore_me)
        name  == One(failing # x.made + 1)
        grown == [x EXCEPT !.made = @ + 2, !.blocks = @ + name + One(~x.array)]
    IN  IF failing = x.made + 2
        THEN [x EXCEPT !.made = @ + 2, !.blocks = @ + name, !.array = FALSE,
                       !.embeds = [k \in 1 .. Len(@) + 1 |-> Garbage],
                       !.err = "MCFG_FMT_MALLOC_FAIL"]
        ELSE [grown EXCEPT !.array = TRUE, !.embeds = Append(@, embed), !.err = "MCFG_FMT_OK"]

Scan == [embeds |-> << >>, array |-> FALSE, err |-> "MCFG_FMT_OK", made |-> 1, blocks |-> 0,
         escaping |-> FALSE, building_embed |-> FALSE, building_field_name |-> FALSE,
         field_pos |-> 0, field_name |-> << >>, exit |-> FALSE]

\* One round of the loop, for the character s at ix.
ScanChar(x, failing, s, ix) ==
    LET y == [x EXCEPT !.building_embed = @ /\ s = "("]
    IN  CASE x.exit -> x
          [] ~x.exit /\ x.escaping -> [x EXCEPT !.escaping = FALSE]
          [] ~x.exit /\ ~x.escaping /\ s = "\\" ->
                _append_embed([y EXCEPT !.escaping = TRUE], failing, <<"\\">>, ix, ix + 1, TRUE)
          [] ~x.exit /\ ~x.escaping /\ s = "$" -> [y EXCEPT !.building_embed = TRUE]
          [] ~x.exit /\ ~x.escaping /\ s = "(" /\ y.building_embed ->
                [y EXCEPT !.building_embed = FALSE, !.building_field_name = TRUE,
                          !.field_pos = ix - 1]
          [] ~x.exit /\ ~x.escaping /\ s = ")" /\ y.building_field_name ->
                LET z == _append_embed([y EXCEPT !.building_field_name = FALSE,
                                                 !.field_name = << >>],
                                       failing, y.field_name, y.field_pos, ix + 1, FALSE)
                IN  [z EXCEPT !.exit = z.err # "MCFG_FMT_OK"]
          [] ~x.exit /\ ~x.escaping /\ s \notin {"\\", "$", "(", ")"}
             /\ y.building_field_name -> [y EXCEPT !.field_name = Append(@, s)]
          [] OTHER -> y

\* Without memory for the name there are no embeds, and no error.
_extract_embeds(text, failing) ==
    IF failing = 1 THEN Scan
    ELSE FoldLeft(LAMBDA x, k : ScanChar(x, failing, text[k], k - 1), Scan,
                  [k \in DOMAIN text |-> k])

-----------------------------------------------------------------------------
(* The paths of the embeds.                                                  *)

Missing(path) == Cardinality({e \in {"sector", "section", "field"} : path[e] = NULL})

\* failing is the number of the element whose copy cannot be made.  Only a
\* path that names no sector becomes an absolute one.
_insert_path_elems(src, rela, failing) ==
    LET elements == <<"sector", "section", "field">>
        Copied(k) == IF failing = Cardinality({j \in 1 .. k : src[elements[j]] = NULL})
                     THEN NULL
                     ELSE IF rela[elements[k]] # NULL THEN rela[elements[k]] ELSE Null
        Elem(k) == IF src[elements[k]] # NULL THEN src[elements[k]] ELSE Copied(k)
    IN  [src EXCEPT !.absolute = @ \/ src.sector = NULL, !.sector = Elem(1),
                    !.section = Elem(2), !.field = Elem(3)]

-----------------------------------------------------------------------------
(* The buffer.                                                               *)

\* size is what _format has allocated first, block what there is by now.
NewFrame(text) ==
    [input |-> text, phase |-> "extract", embeds |-> << >>, array |-> FALSE, ix |-> 1,
     cpy_offs |-> 0, write_offs |-> 0, out |-> << >>, size |-> 0, block |-> 0,
     field |-> << >>, list |-> FALSE]

\* Mutant: the size is compared without what is to be written.
AppendCheckLate(frame, n) == frame.write_offs > frame.size

\* APPEND_CHECK: whether n characters ask for memory, and the buffer with it.
AppendCheck(frame, n) == frame.write_offs + n > frame.size

Put(frame, text) ==
    LET n == Len(text)
    IN  [frame EXCEPT !.out = SubSeq(@, 1, frame.write_offs) \o text,
                      !.write_offs = @ + n,
                      !.block = IF AppendCheck(frame, n) THEN frame.write_offs + n ELSE @]

\* Mutant: the loop starts over.
NextEmbedOver(frame) ==
    [frame EXCEPT !.ix = 1, !.cpy_offs = 0, !.write_offs = 0, !.phase = "copy", !.field = << >>]

NextEmbed(frame) == [frame EXCEPT !.ix = @ + 1, !.phase = "copy", !.field = << >>]

\* _free__embeds.  A pointer that is not initialised cannot be freed.
EmbedBlocks(frame) ==
    One(frame.array) + Cardinality({k \in DOMAIN frame.embeds : frame.embeds[k].field # NULL})
FreeFaults(frame) == frame.array /\ Garbage \in Range(frame.embeds)

-----------------------------------------------------------------------------
(* Steps.                                                                    *)

Init ==
    /\ file \in Files
    /\ rel \in Relativities
    /\ input \in Inputs \cup {NULL}
    /\ stack = << >>
    /\ ret = NoResult
    /\ blocks = 0
    /\ spare = 0
    /\ pc = "idle"
    /\ fails = 0

Depth == Len(stack)
Top   == stack[Depth]
Embed == Top.embeds[Top.ix]

\* The step makes up to made allocations, and the k-th of them fails.
Allocates(k, made) ==
    /\ k <= made
    /\ fails' = fails + One(k # 0)
    /\ fails' <= MaxFails

Given == UNCHANGED <<file, rel, input>>
Same  == Given /\ UNCHANGED spare

\* The function on top goes on as frame, having taken n blocks.
Goes(frame, n) ==
    /\ stack' = [stack EXCEPT ![Depth] = frame]
    /\ blocks' = blocks + n
    /\ UNCHANGED <<ret, pc>>

\* The program ends there: a crash, or a write behind the end of the buffer.
Stops(how) == pc' = how /\ UNCHANGED <<stack, ret, blocks>>

\* The function on top returns.  It has n blocks more than before, and frees
\* the embeds.  Behind an error the buffer is not freed, and nobody has it.
Leaves(result, n) ==
    IF FreeFaults(Top) THEN Stops("crashed")
    ELSE /\ stack' = Front(stack)
         /\ ret' = result
         /\ blocks' = blocks + n - EmbedBlocks(Top)
         /\ pc' = "return"

\* mcfg_format_field_embeds_str is called.
Enters(under, text, n) ==
    IF Len(under) < StackLimit
    THEN /\ stack' = Append(under, NewFrame(text))
         /\ blocks' = blocks + n
         /\ pc' = "run"
         /\ UNCHANGED ret
    ELSE Stops("crashed")

Call ==
    /\ pc = "idle"
    /\ \/ /\ input = NULL
          /\ pc' = "returned" /\ ret' = Failed("MCFG_FMT_NULLPTR")
          /\ UNCHANGED <<stack, blocks>>
       \/ /\ input # NULL
          /\ Enters(<< >>, input, 0)
    /\ UNCHANGED fails /\ Same

Running(phase) == pc = "run" /\ Top.phase = phase

\* An error leaves the array as it is: there is none.
Extract ==
    /\ Running("extract")
    /\ \E k \in 0 .. StepAllocs :
         LET x == _extract_embeds(Top.input, k)
         IN  /\ Allocates(k, _extract_embeds(Top.input, 0).made)
             /\ \/ /\ x.err = "MCFG_FMT_OK"
                   /\ Goes([Top EXCEPT !.phase = "start", !.embeds = x.embeds,
                                       !.array = x.array], x.blocks)
                \/ /\ x.err # "MCFG_FMT_OK"
                   /\ Leaves(Failed(x.err), x.blocks)
    /\ Same

\* The first buffer; a text without embeds is copied there as it is.
Start ==
    /\ Running("start")
    /\ \E k \in 0 .. 1 :
         LET size  == Len(Top.input) + 1
             frame == [Top EXCEPT !.phase = "copy", !.size = size, !.block = size]
         IN  /\ Allocates(k, 1)
             /\ CASE k = 1 -> Leaves(Failed("MCFG_FMT_MALLOC_FAIL"), 0)
                  [] k = 0 /\ Top.embeds = << >> ->
                        Leaves([NoResult EXCEPT !.formatted = Top.input], 1)
                  [] OTHER -> Goes(frame, 1)
    /\ Same

\* The text up to the next embed.  The sizes are unsigned: less than no text
\* is more than memcpy can copy, and a size below 0 more than realloc can give.
Copy ==
    /\ Running("copy") /\ Top.ix <= Len(Top.embeds)
    /\ LET chunk == Embed.pos - Top.cpy_offs
           frame == [Put(Top, SubSeq(Top.input, Top.cpy_offs + 1, Embed.pos))
                        EXCEPT !.cpy_offs = Embed.src_end_pos, !.phase = "look"]
       IN  \/ /\ Embed = Garbage \/ (chunk < 0 /\ Top.write_offs + chunk >= 0)
              /\ Stops("crashed") /\ UNCHANGED fails
           \/ /\ Embed # Garbage /\ chunk < 0 /\ Top.write_offs + chunk < 0
              /\ Leaves(Failed("MCFG_FMT_MALLOC_FAIL"), 0) /\ UNCHANGED fails
           \/ /\ Embed # Garbage /\ chunk >= 0
              /\ \E k \in 0 .. 1 :
                   /\ Allocates(k, One(AppendCheck(Top, chunk)))
                   /\ IF k = 1 THEN Leaves(Failed("MCFG_FMT_MALLOC_FAIL"), 0)
                      ELSE Goes(IF Embed.ignore_me THEN NextEmbed(frame) ELSE frame, 0)
    /\ Same

\* A path has three elements.
Beyond(text) == IF text \in {NULL, << >>} THEN 0 ELSE Max({0, Len(Tokens(text)) - 3})

\* The field of the embed.  Where there is none a placeholder is written, a
\* NUL behind it, whatever room there is.
Look ==
    /\ Running("look")
    /\ \E k \in 0 .. StepAllocs :
         LET parsed == mcfg_parse_path(Embed.field, k)
             path   == _insert_path_elems(parsed.path, rel, k - ParseAllocs(Embed.field))
             field  == mcfg_get_field_by_path(file, path)
         IN  /\ Allocates(k, ParseAllocs(Embed.field) + Missing(parsed.path))
             /\ CASE parsed.crash -> Stops("crashed")
                  [] ~parsed.crash /\ field # << >> ->
                        Goes([Top EXCEPT !.field = field, !.phase = "insert"], parsed.lost)
                  [] ~parsed.crash /\ field = << >>
                     /\ Top.write_offs + Len(Nullptr) + 1 > Top.block -> Stops("overrun")
                  [] OTHER ->
                        Goes(NextEmbed([Put(Top, Nullptr) EXCEPT !.block = Top.block]),
                             parsed.lost)
             /\ spare' = spare + Beyond(Embed.field)
    /\ Given

Type == Top.field[1].type
Data == Top.field[1].data

\* A number or a truth value.  Its text is not checked before it is used.
InsertValue ==
    /\ Running("insert") /\ Type \notin {"TYPE_STRING", "TYPE_LIST"}
    /\ \E k \in 0 .. 2 :
         LET text == Spelled(mcfg_data_to_string(Type, Data))
         IN  IF Data = NULL THEN k = 0 /\ Stops("crashed") /\ UNCHANGED fails
             ELSE /\ Allocates(k, 1 + One(AppendCheck(Top, Len(text))))
                  /\ CASE k = 1 -> Stops("crashed")
                       [] k = 2 -> Leaves(Failed("MCFG_FMT_MALLOC_FAIL"), 1)
                       [] OTHER -> Goes(NextEmbed(Put(Top, text)), 0)
    /\ Same

\* mcfg_format_field_embeds.
InsertString ==
    /\ Running("insert") /\ Type = "TYPE_STRING"
    /\ \/ /\ Data = NULL
          /\ pc' = "return" /\ ret' = Failed("MCFG_FMT_NULLPTR")
          /\ UNCHANGED <<stack, blocks>>
       \/ /\ Data # NULL
          /\ Enters(stack, Data.text, 0)
    /\ UNCHANGED fails /\ Same

\* How much of the text in front of the embed goes with each element: back to
\* a space, the first character of the text left out, less a line feed.
PrefixLength ==
    LET spaces == {i \in 1 .. Embed.pos - 1 : Top.input[i + 1] = " "}
        length == IF Embed.pos = 0 THEN 0 ELSE Embed.pos - 1 - Max(spaces \cup {0})
    IN  length - One(length > 0 /\ Top.input[Embed.pos] = "LF")

\* Where the text goes on: at the next space.
NextSpace ==
    Min({i \in Embed.src_end_pos .. Len(Top.input) - 1 : Top.input[i + 1] = " "} \cup {Far})

\* mcfg_format_list takes the success of malloc for its failure: a list with
\* elements is never formatted.  ok is whether its first allocation succeeds.
mcfg_format_list(elems, ok) ==
    [text  |-> IF elems = << >> /\ ok THEN << >> ELSE NULL,
     lost  |-> One(elems # << >> /\ ok),
     crash |-> elems # << >> /\ ~ok]

\* A list: a prefix, a postfix and its text are allocated.
InsertList ==
    /\ Running("insert") /\ Type = "TYPE_LIST"
    /\ \E k \in 0 .. 3 :
         LET list == mcfg_format_list(Data.elems, k = 0)
         IN  /\ Allocates(k, 3)
             /\ CASE k \in {1, 2} -> Leaves(Failed("MCFG_FMT_NULLPTR"), k - 1)
                  [] k \in {0, 3} /\ Data = NULL -> k = 0 /\ Stops("crashed")
                  [] k \in {0, 3} /\ Data # NULL /\ list.crash -> Stops("crashed")
                  [] k \in {0, 3} /\ Data # NULL /\ ~list.crash /\ list.text = NULL ->
                        Leaves(Failed("MCFG_FMT_NULLPTR"), list.lost)
                  [] OTHER ->
                        Enters([stack EXCEPT ![Depth].cpy_offs = NextSpace,
                                             ![Depth].write_offs = @ - PrefixLength,
                                             ![Depth].list = TRUE], list.text, 1)
    /\ Same

\* Mutant: the text of the field is not freed.
TakenKept(frame) == One(frame.list)

\* The blocks that go when the text of a field has been inserted.
Taken(frame) == 1 + One(frame.list)

\* What an embedded field has become is inserted.
Return ==
    /\ pc = "return" /\ stack # << >>
    /\ \E k \in 0 .. 1 :
         LET n == Len(ret.formatted)
         IN  CASE ret.err # "MCFG_FMT_OK" ->
                    /\ k = 0 /\ UNCHANGED fails
                    /\ Leaves(ret, -One(Top.list))
               [] ret.err = "MCFG_FMT_OK" /\ Top.write_offs + n < 0 ->
                    /\ k = 0 /\ UNCHANGED fails
                    /\ Leaves(Failed("MCFG_FMT_MALLOC_FAIL"), -One(Top.list))
               [] OTHER ->
                    /\ Allocates(k, One(AppendCheck(Top, n)))
                    /\ IF k = 1 THEN Leaves(Failed("MCFG_FMT_MALLOC_FAIL"), -One(Top.list))
                       ELSE /\ stack' = [stack EXCEPT ![Depth] =
                                            [NextEmbed(Put(Top, ret.formatted)) EXCEPT !.list = FALSE]]
                            /\ blocks' = blocks - Taken(Top)
                            /\ pc' = "run"
                            /\ UNCHANGED ret
    /\ Same

\* The rest of the text, the NUL behind it, and the buffer cut to size.
Finish ==
    /\ Running("copy") /\ Top.ix > Len(Top.embeds)
    /\ \E k \in 0 .. 3 :
         LET rest == SubSeq(Top.input, Top.cpy_offs + 1, Len(Top.input))
             n    == Len(rest)
         IN  /\ Allocates(k, One(n > 0 /\ AppendCheck(Top, n)) + One(AppendCheck(Top, n + 1)) + 1)
             /\ IF k > 0 THEN Leaves(Failed("MCFG_FMT_MALLOC_FAIL"), 0)
                ELSE Leaves([NoResult EXCEPT !.formatted = Put(Top, rest).out], 0)
    /\ Same

Returned ==
    /\ pc = "return" /\ stack = << >>
    /\ pc' = "returned"
    /\ UNCHANGED <<file, rel, input, stack, ret, blocks, spare, fails>>

Ended == pc \in {"returned", "crashed", "overrun"}

Stopped == Ended /\ UNCHANGED vars

Next ==
    \/ Call \/ Extract \/ Start \/ Copy \/ Look \/ InsertValue \/ InsertString
    \/ InsertList \/ Return \/ Finish \/ Returned \/ Stopped

\* The thread of the caller takes steps until it has ended.  Every other state
\* has a step that changes it, so this is WF_vars(Next), without the
\* enabledness that TLC would have to compute.
Fairness == <>[]Ended \/ []<><<Next>>_vars

Spec == Init /\ [][Next]_vars /\ Fairness

-----------------------------------------------------------------------------
(* Properties.                                                               *)

\* The field that an embed names, by the tree of the document.
Target(part) ==
    LET r     == <<rel.sector, rel.section, rel.field>>
        own   == [k \in 1 .. 3 |-> IF r[k] = NULL THEN Null ELSE r[k]]
        n     == Len(part.elements)
        kinds == <<"sector", "section", "field">>
        path  == CASE part.from = "root" -> part.elements \o SubSeq(own, n + 1, 3)
                   [] part.from = "here" -> SubSeq(own, 1, 3 - n) \o part.elements
                   [] OTHER              -> part.elements
    IN  IF part.from = "dynfields" THEN <<Step("dynfield", Named(path[1]))>>
        ELSE [k \in DOMAIN path |-> Step(kinds[k], Named(path[k]))]

\* What a text stands for: every embed is its value, to the last one.
Meaning(text) ==
    LET tree == Tree(file)
        Value(data, type, strings) ==
            CASE type = "TYPE_STRING" -> strings[data.text]
              [] type = "TYPE_LIST"   -> << >>
              [] OTHER                -> Spelled(mcfg_data_to_string(type, data))
        OfPart(part, strings) ==
            IF part.from = "text" THEN part.stays
            ELSE IF Target(part) \in DOMAIN tree
                 THEN Value(tree[Target(part)].data, tree[Target(part)].type, strings)
                 ELSE Nullptr
        at[d \in 0 .. StackLimit] ==
            [t \in Inputs |->
                IF d = 0 THEN << >>
                ELSE FoldLeft(LAMBDA out, part : out \o OfPart(part, at[d - 1]), << >>,
                              CHOOSE parts \in Templates : TextOf(parts) = t)]
    IN  at[StackLimit][text]

\* What is returned as formatted is the text with every embed replaced by its
\* value, embeds of values included, and with nothing else changed.
OkIsExpansion ==
    pc = "returned" /\ ret.err = "MCFG_FMT_OK" /\ fails = 0 => ret.formatted = Meaning(input)

\* Nothing but the placeholder is written behind the end of the buffer, even
\* though its size is always compared with what it was at first.
OutputFits == \A k \in DOMAIN stack : Len(stack[k].out) <= stack[k].block

\* When no call fails, every block is freed again but the one that is returned
\* and what mcfg_parse_path leaves behind of a path of more than three elements.
FreesWhatItTook ==
    pc = "returned" /\ ret.err = "MCFG_FMT_OK" /\ fails = 0 => blocks = 1 + spare

\* The program crashes for one of these reasons only: an embed has not been
\* initialised behind an allocation that failed, the copy of a path or of a
\* value could not be allocated and is used all the same, the fields embed one
\* another, an escape is in the middle of an embed, the text behind an embedded
\* list has been skipped with an embed in it, a field has no data, or the path
\* is a lone percent sign.
EscapeInside(embeds) ==
    \E j, k \in DOMAIN embeds : /\ embeds[j].ignore_me
                                /\ embeds[k].pos < embeds[j].pos
                                /\ embeds[j].pos < embeds[k].src_end_pos
CrashHasCause ==
    pc = "crashed" =>
        \/ fails > 0 /\ (Garbage \in Range(Top.embeds) \/ Top.phase \in {"look", "insert"})
        \/ \E j, k \in DOMAIN stack : j # k /\ stack[j].input = stack[k].input
        \/ EscapeInside(Top.embeds)
        \/ Top.phase = "copy" /\ Top.cpy_offs > Top.embeds[Top.ix - 1].src_end_pos
        \/ Top.phase = "insert" /\ Data = NULL
        \/ Tokens(Embed.field) = << <<"%">> >>

\* The path of an embed, written as a text and parsed again, is the same path;
\* but for a dynamic field, whose percent signs are lost, and no path at all.
PathsReadBack ==
    \A k \in DOMAIN stack : \A e \in Range(stack[k].embeds) :
        e # Garbage /\ e.field \notin {NULL, <<"%">>} =>
            LET path == mcfg_parse_path(e.field, 0).path
                str  == mcfg_path_to_str(path)
            IN  path # NoPath /\ ~path.dynfield_path =>
                    str.terminated /\ mcfg_parse_path(str.text, 0).path = path

\* Formatting comes to an end, even if it is that of the stack.
Terminates == <>Ended

\* The comment on APPEND_CHECK (mcfg_format.c:71): "to ensure that we never
\* write outside of the buffer".
WritesInBuffer == pc # "overrun"

\* doc/embed_formatting.md:31: a list that is embedded as a whole is inserted,
\* element by element.
ListsAreInserted ==
    [][ Running("insert") /\ Type = "TYPE_LIST" /\ Data # NULL /\ fails' = 0 =>
          ret'.err = "MCFG_FMT_OK" ]_vars
=============================================================================
