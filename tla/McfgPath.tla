------------------------------ MODULE McfgPath ------------------------------
(* Paths to fields (src/mcfg_util.c).  The text of a path is a sequence of   *)
(* symbols, a "/" between its elements; a path that is looked up starts with *)
(* one, that of a dynamic field is in "%".                                   *)
EXTENDS McfgStore, SequencesExt

NoPath == [absolute |-> FALSE, dynfield_path |-> FALSE,
           sector |-> NULL, section |-> NULL, field |-> NULL]

\* strtok_r: what is between the separators, nothing being no element.
CutToken(t) == IF t.token = << >> THEN t
               ELSE [tokens |-> Append(t.tokens, t.token), token |-> << >>]
Tokenised(t, s) == IF s = "/" THEN CutToken(t) ELSE [t EXCEPT !.token = Append(@, s)]
Tokens(text) == CutToken(FoldLeft(Tokenised, [tokens |-> << >>, token |-> << >>], text)).tokens

\* A parsed path, the blocks that are left behind, and whether the program is
\* still there.
Parsed(path, lost) == [path |-> path, lost |-> lost, crash |-> FALSE]
ParseCrash         == [path |-> NoPath, lost |-> 0, crash |-> TRUE]

IsDynfield(element) == Head(element) = "%" /\ Last(element) = "%"

\* Mutant: both percent signs are counted off a copy that starts at the first.
StrippedShort(element) == SubSeq(element, 1, Len(element) - 2)

Stripped(element) == SubSeq(element, 2, Len(element) - 1)

\* The path of the elements.  What is more than three elements is ignored: of
\* an absolute path the last ones, else the first ones.
PathOf(elements, absolute) ==
    LET n == Len(elements)
        Nth(i) == IF i \in 1 .. n THEN elements[i] ELSE NULL
    IN  CASE n = 0 -> NoPath
          [] n > 0 /\ absolute ->
                [NoPath EXCEPT !.absolute = TRUE, !.sector = Nth(1),
                               !.section = Nth(2), !.field = Nth(3)]
          [] n = 1 /\ ~absolute /\ IsDynfield(elements[1]) ->
                [NoPath EXCEPT !.dynfield_path = TRUE, !.field = Stripped(elements[1])]
          [] OTHER ->
                [NoPath EXCEPT !.field = Nth(n), !.section = Nth(n - 1),
                               !.sector = Nth(n - 2)]

\* The allocations: a copy of the text, for each element the array and the
\* element, and a copy of a dynamic field's name.  failing is the number of
\* the one that fails, 0 for none; it leaves what there is behind.  The copies
\* are not checked, and a lone "%" has -1 characters inside.
mcfg_parse_path(text, failing) ==
    LET elements == Tokens(text)
        n        == Len(elements)
        absolute == Head(text) = "/"
    IN  CASE text = NULL -> Parsed(NoPath, 0)
          [] text # NULL /\ failing = 1 -> ParseCrash
          [] text # NULL /\ failing \in 2 .. 2 * n + 1 ->
                Parsed(NoPath, IF failing = 2 THEN 0 ELSE failing \div 2)
          [] text # NULL /\ failing \notin 1 .. 2 * n + 1 /\ text = << >> -> Parsed(NoPath, 0)
          [] OTHER ->
                LET dynfield == n = 1 /\ ~absolute /\ IsDynfield(elements[1])
                IN  IF dynfield /\ (elements[1] = <<"%">> \/ failing = 2 * n + 2)
                    THEN ParseCrash
                    ELSE Parsed(PathOf(elements, absolute), Max({0, n - 3}))

\* How many allocations parsing makes, memory permitting.
ParseAllocs(text) ==
    IF text = NULL THEN 0
    ELSE LET elements == Tokens(text)
             n == Len(elements)
         IN  1 + 2 * n + IF n = 1 /\ Head(text) # "/" /\ IsDynfield(elements[1]) THEN 1 ELSE 0

\* Mutant: a separator is written in front of every element but the first.
SlashAlways(a, b) == IF b # NULL THEN <<"/">> ELSE << >>

Slash(a, b) == IF a # NULL /\ b # NULL THEN <<"/">> ELSE << >>

\* The text of a path; "terminated" is whether a NUL has been written behind
\* it.  The percent signs of a dynamic field are not put back.
mcfg_path_to_str(path) ==
    LET Or(text) == IF text = NULL THEN << >> ELSE text
    IN  [text |-> (IF path.absolute THEN <<"/">> ELSE << >>)
                  \o Or(path.sector) \o Slash(path.sector, path.section)
                  \o Or(path.section) \o Slash(path.section, path.field) \o Or(path.field),
         terminated |-> {path.sector, path.section, path.field} # {NULL}]

Named(text) == [base |-> text, newlines |-> 0]

\* The field, as a sequence of no or one field.
mcfg_get_field_by_path(f, path) ==
    LET At(seq, text) == LET i == mcfg_get(seq, Named(text))
                         IN  IF i = 0 THEN << >> ELSE <<seq[i]>>
        sector  == At(f.sectors, path.sector)
        section == At(sector[1].sections, path.section)
    IN  CASE path.dynfield_path -> At(f.dynfields, path.field)
          [] ~path.dynfield_path
             /\ (~path.absolute \/ NULL \in {path.sector, path.section, path.field}) -> << >>
          [] OTHER -> IF sector = << >> \/ section = << >> THEN << >>
                      ELSE At(section[1].fields, path.field)
=============================================================================
