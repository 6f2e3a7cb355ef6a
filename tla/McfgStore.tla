----------------------------- MODULE McfgStore -----------------------------
(* The document MCFG/2 keeps in memory (include/mcfg.h) and the functions    *)
(* of src/mcfg.c that build it, search it and free it.                       *)
(*                                                                           *)
(* The C arrays with their counts are sequences.  An array is allocated when *)
(* its first element is added and grown by realloc afterwards, so it is one  *)
(* heap block exactly when it has an element.  A NULL argument for the       *)
(* container itself is rejected by every function and is left out.           *)
EXTENDS Integers, Pointers, SequencesExt

CONSTANTS
    Bases,      \* the texts of names, without the line feeds that end them
    Texts       \* the texts of string fields

-----------------------------------------------------------------------------
(* Field types, names and data.                                              *)

FieldTypes == {"TYPE_STRING", "TYPE_LIST", "TYPE_BOOL", "TYPE_I8", "TYPE_U8",
               "TYPE_I16", "TYPE_U16", "TYPE_I32", "TYPE_U32"}

mcfg_sizeof(type) ==
    CASE type \in {"TYPE_BOOL", "TYPE_I8", "TYPE_U8"} -> 1
      [] type \in {"TYPE_I16", "TYPE_U16"}            -> 2
      [] type \in {"TYPE_I32", "TYPE_U32"}            -> 4
      [] OTHER                                        -> -1

\* A name is a C string: what matters is its text and how many LFs end it.
Name == [base : Bases, newlines : Nat]

\* What the data pointer of a field refers to: the bytes of a bool or a
\* number, lowest first, the text of a string, or a list.
Scalar  == [bytes : Seq(0 .. 255)] \cup [text : Texts]
Element == [name : Nat, data : Scalar]
List    == [type : FieldTypes, elems : Seq(Element)]
Typed   == {d \in [type : FieldTypes, data : {NULL} \cup Scalar \cup List] :
               d.type = "TYPE_LIST" => d.data \in {NULL} \cup List}
Field   == {f \in [name : Name \cup {NULL}, type : FieldTypes,
                   data : {NULL} \cup Scalar \cup List] :
               f.type = "TYPE_LIST" => f.data \in {NULL} \cup List}
Section == [name : Name \cup {NULL}, fields : Seq(Field)]
Sector  == [name : Name \cup {NULL}, sections : Seq(Section)]
File    == [sectors : Seq(Sector), dynfields : Seq(Field)]

EmptyFile == [sectors |-> <<>>, dynfields |-> <<>>]

\* The null pointer points to nothing that a document consists of.
ASSUME StoreAssumption == NULL \notin Name \cup Nat \cup Scalar \cup List

-----------------------------------------------------------------------------
(* Searching: mcfg_get_sector, mcfg_get_section, mcfg_get_field and          *)
(* mcfg_get_dynfield are one loop over different arrays.                     *)

\* Mutant: the loop ends one entry too early.
HitsButLast(seq, name) == {i \in 1 .. Len(seq) - 1 : seq[i].name = name}

Hits(seq, name) == {i \in DOMAIN seq : seq[i].name = name}

\* The index of the first entry of that name, 0 where the code returns NULL.
mcfg_get(seq, name) ==
    IF Hits(seq, name) = {} THEN 0
    ELSE CHOOSE i \in Hits(seq, name) : \A j \in Hits(seq, name) : i <= j

\* The loop calls strcmp with a null pointer before it finds the name.
LookupFaults(seq, name) ==
    \E i \in DOMAIN seq :
        /\ seq[i].name = NULL \/ name = NULL
        /\ \A j \in 1 .. i : seq[j].name # name \/ name = NULL

-----------------------------------------------------------------------------
(* Building.  Every add function returns the error it reports and the array  *)
(* as it leaves it; "fault" is a null pointer dereference.  arrayOk says     *)
(* whether the malloc or realloc of the array succeeds.                      *)

\* Mutant: the last character goes, whether it is a line feed or not.
RemoveLast(name) == [base |-> name.base, newlines |-> name.newlines - 1]

remove_newline(name) ==
    IF name = NULL \/ name.newlines = 0
    THEN name
    ELSE [base |-> name.base, newlines |-> name.newlines - 1]

\* Mutant: the name is looked for before its line feed is removed.
AddNamedUnstripped(seq, item, duplicate, arrayOk) ==
    IF Hits(seq, item.name) # {}
    THEN [err |-> duplicate, seq |-> seq]
    ELSE [err |-> "MCFG_OK",
          seq |-> Append(seq, [item EXCEPT !.name = remove_newline(item.name)])]

AddNamed(seq, item, duplicate, arrayOk) ==
    LET name == remove_newline(item.name)
        Refuse(err) == [err |-> err, seq |-> seq]
    IN  CASE LookupFaults(seq, name)  -> Refuse("fault")
          [] ~LookupFaults(seq, name) /\ Hits(seq, name) # {}
                                      -> Refuse(duplicate)
          [] ~LookupFaults(seq, name) /\ Hits(seq, name) = {} /\ ~arrayOk
                                      -> Refuse("MCFG_MALLOC_FAIL")
          [] OTHER -> [err |-> "MCFG_OK",
                       seq |-> Append(seq, [item EXCEPT !.name = name])]

mcfg_add_sector(f, name, arrayOk) ==
    LET add == AddNamed(f.sectors, [name |-> name, sections |-> <<>>],
                        "MCFG_DUPLICATE_SECTOR", arrayOk)
    IN  [err |-> add.err, file |-> [f EXCEPT !.sectors = add.seq]]

mcfg_add_section(f, s, name, arrayOk) ==
    LET add == AddNamed(f.sectors[s].sections, [name |-> name, fields |-> <<>>],
                        "MCFG_DUPLICATE_FIELD", arrayOk)
    IN  [err |-> add.err, file |-> [f EXCEPT !.sectors[s].sections = add.seq]]

mcfg_add_field(f, s, t, type, name, data, arrayOk) ==
    LET add == AddNamed(f.sectors[s].sections[t].fields,
                        [name |-> name, type |-> type, data |-> data],
                        "MCFG_DUPLICATE_FIELD", arrayOk)
    IN  [err  |-> add.err,
         file |-> [f EXCEPT !.sectors[s].sections[t].fields = add.seq]]

mcfg_add_dynfield(f, type, name, data, arrayOk) ==
    LET add == AddNamed(f.dynfields, [name |-> name, type |-> type, data |-> data],
                        "MCFG_DUPLICATE_DYNFIELD", arrayOk)
    IN  [err |-> add.err, file |-> [f EXCEPT !.dynfields = add.seq]]

\* Mutant: the name is printed from the count before the element is added.
AddListFieldFrom0(list, data, nameOk, arrayOk) ==
    IF data = NULL \/ ~nameOk \/ ~arrayOk
    THEN [err |-> "MCFG_NULLPTR", list |-> list]
    ELSE [err  |-> "MCFG_OK",
          list |-> [list EXCEPT !.elems =
                      Append(@, [name |-> Len(@), data |-> data])]]

\* The name of an element is its position, printed into a block of its own.
\* That block is not checked before sprintf writes to it.
mcfg_add_list_field(list, data, nameOk, arrayOk) ==
    LET Refuse(err) == [err |-> err, list |-> list]
    IN  CASE data = NULL                         -> Refuse("MCFG_NULLPTR")
          [] data # NULL /\ ~nameOk              -> Refuse("fault")
          [] data # NULL /\ nameOk /\ ~arrayOk   -> Refuse("MCFG_MALLOC_FAIL")
          [] OTHER ->
                [err  |-> "MCFG_OK",
                 list |-> [list EXCEPT !.elems =
                             Append(@, [name |-> Len(@) + 1, data |-> data])]]

-----------------------------------------------------------------------------
(* Freeing: how many heap blocks each mcfg_free function gives back.         *)

Total(Blocks(_), seq) == FoldLeft(LAMBDA sum, x : sum + Blocks(x), 0, seq)

BlockOf(pointer) == IF pointer = NULL THEN 0 ELSE 1
ArrayOf(seq)     == IF seq = <<>> THEN 0 ELSE 1

\* Mutant: the names of the elements are kept.
FreeListWithoutNames(list) ==
    Total(LAMBDA e : BlockOf(e.data), list.elems) + ArrayOf(list.elems)

mcfg_free_list(list) ==
    Total(LAMBDA e : BlockOf(e.name) + BlockOf(e.data), list.elems)
    + ArrayOf(list.elems)

mcfg_free_field(field) ==
    BlockOf(field.name) + BlockOf(field.data)
    + IF field.data # NULL /\ field.type = "TYPE_LIST"
      THEN mcfg_free_list(field.data) ELSE 0

\* Mutant: the name of the section is kept.
FreeSectionWithoutName(section) ==
    Total(mcfg_free_field, section.fields) + ArrayOf(section.fields)

mcfg_free_section(section) ==
    Total(mcfg_free_field, section.fields)
    + ArrayOf(section.fields) + BlockOf(section.name)

mcfg_free_sector(sector) ==
    Total(mcfg_free_section, sector.sections)
    + ArrayOf(sector.sections) + BlockOf(sector.name)

mcfg_free_file(f) ==
    Total(mcfg_free_field, f.dynfields) + ArrayOf(f.dynfields)
    + Total(mcfg_free_sector, f.sectors) + ArrayOf(f.sectors)

\* mcfg_add_sector and mcfg_add_section set the count of the new container to
\* 0 and leave its array pointer as malloc returned it.  The free functions
\* pass that pointer to free() all the same.
FreesWildArray(f) ==
    \E s \in DOMAIN f.sectors :
        \/ f.sectors[s].sections = <<>>
        \/ \E t \in DOMAIN f.sectors[s].sections :
              f.sectors[s].sections[t].fields = <<>>

-----------------------------------------------------------------------------
(* What a document must be: no two siblings of one name.                     *)

UniqueNames(seq) ==
    \A i, j \in DOMAIN seq : seq[i].name = seq[j].name => i = j

SectorOK(sector) ==
    /\ UniqueNames(sector.sections)
    /\ \A t \in DOMAIN sector.sections : UniqueNames(sector.sections[t].fields)

AllNamesUnique(f) ==
    /\ UniqueNames(f.sectors)
    /\ UniqueNames(f.dynfields)
    /\ \A s \in DOMAIN f.sectors : SectorOK(f.sectors[s])

\* A lookup for the name of an entry finds that entry.
Found(seq) == \A i \in DOMAIN seq : mcfg_get(seq, seq[i].name) = i

AllFound(f) ==
    /\ Found(f.sectors)
    /\ Found(f.dynfields)
    /\ \A s \in DOMAIN f.sectors :
         LET sections == f.sectors[s].sections
         IN  Found(sections) /\ \A t \in DOMAIN sections : Found(sections[t].fields)

-----------------------------------------------------------------------------
(* A document as a tree: the entries it holds, each with the path that leads *)
(* to it.  Siblings of one name have one path, so a document with duplicates *)
(* has more entries than paths.                                              *)

Step(kind, name)   == [kind |-> kind, name |-> name]
Entry(path, value) == [path |-> path, value |-> value]

FieldValue(field) ==
    IF field.type = "TYPE_LIST" /\ field.data # NULL
    THEN [type |-> field.type, data |-> [list |-> field.data.type]]
    ELSE [type |-> field.type, data |-> field.data]

ElementStep(position) == Step("element", [position |-> position])

\* A list as mcfg_add_list_field leaves it: its elements are named by their
\* positions.
Positioned(list) == \A i \in DOMAIN list.elems : list.elems[i].name = i
WellListed(field) ==
    field.type = "TYPE_LIST" /\ field.data # NULL => Positioned(field.data)

EntriesOfField(path, field, kind) ==
    LET here == Append(path, Step(kind, field.name))
    IN  {Entry(here, FieldValue(field))}
        \cup IF field.type = "TYPE_LIST" /\ field.data # NULL
             THEN { Entry(Append(here, ElementStep(e.name)),
                          [type |-> field.data.type, data |-> e.data])
                    : e \in ToSet(field.data.elems) }
             ELSE {}

FieldEntries(path, fields, kind) ==
    UNION { EntriesOfField(path, fields[i], kind) : i \in DOMAIN fields }

EntriesOfSection(path, section) ==
    LET here == Append(path, Step("section", section.name))
    IN  {Entry(here, [type |-> "section", data |-> NULL])}
        \cup FieldEntries(here, section.fields, "field")

EntriesOfSector(sector) ==
    LET here == <<Step("sector", sector.name)>>
    IN  {Entry(here, [type |-> "sector", data |-> NULL])}
        \cup UNION { EntriesOfSection(here, sector.sections[t]) : t \in DOMAIN sector.sections }

Entries(f) ==
    FieldEntries(<<>>, f.dynfields, "dynfield")
    \cup UNION { EntriesOfSector(f.sectors[s]) : s \in DOMAIN f.sectors }

Tree(f) ==
    [path \in {e.path : e \in Entries(f)} |->
        (CHOOSE e \in Entries(f) : e.path = path).value]

\* The number of entries, counted array by array.
FieldCount(field) ==
    1 + IF field.type = "TYPE_LIST" /\ field.data # NULL
        THEN Len(field.data.elems) ELSE 0
SectionCount(section) == 1 + Total(FieldCount, section.fields)
SectorCount(sector)   == 1 + Total(SectionCount, sector.sections)
EntryCount(f) == Total(SectorCount, f.sectors) + Total(FieldCount, f.dynfields)
=============================================================================
