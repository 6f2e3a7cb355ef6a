----------------------------- MODULE McfgFile ------------------------------
(* A program that builds a document through the public functions of          *)
(* include/mcfg.h and then frees it.  The program allocates the names and    *)
(* the data it passes; a successful call takes ownership of both.  The calls *)
(* may come in any order and any allocation the library makes may fail.      *)
EXTENDS McfgStore

CONSTANTS
    Names,          \* the names the program uses
    FieldData,      \* the [type, data] of the fields it adds
    ElementData,    \* the data of the list elements it adds
    MaxEntries,     \* bound on the entries of the document
    MaxFails        \* bound on the allocations that fail

ASSUME FileAssumption ==
    /\ Names \subseteq Name
    /\ FieldData \subseteq Typed
    /\ \A value \in FieldData : WellListed(value)
    /\ ElementData \subseteq Scalar \cup {NULL}
    /\ MaxEntries \in Nat
    /\ MaxFails \in Nat

VARIABLES
    file,       \* the mcfg_file_t
    phase,      \* "open", "freed", or "crashed" by undefined behaviour
    live,       \* heap blocks the library owns
    fails,      \* allocations that have failed
    ret         \* path the last call was to declare, and the error it returned

vars == <<file, phase, live, fails, ret>>

TypeOK ==
    /\ file \in File
    /\ phase \in {"open", "freed", "crashed"}
    /\ fails \in 0 .. MaxFails

Init ==
    /\ file = EmptyFile
    /\ phase = "open"
    /\ live = 0
    /\ fails = 0
    /\ ret = [path |-> <<>>, err |-> "MCFG_OK"]

-----------------------------------------------------------------------------

\* An allocation fails only where one is made, and MaxFails times in all.
Allocation(ok, err) ==
    /\ ok \/ err \in {"MCFG_MALLOC_FAIL", "fault"}
    /\ fails' = fails + (IF ok THEN 0 ELSE 1)
    /\ fails' <= MaxFails

\* The outcome of a call that was to declare path and, if it succeeds, to take
\* over the given number of blocks.
Outcome(add, path, blocks) ==
    /\ ret' = [path |-> path, err |-> add.err]
    /\ file' = add.file
    /\ live' = live + IF add.err = "MCFG_OK" THEN blocks ELSE 0
    /\ phase' = IF add.err = "fault" THEN "crashed" ELSE phase

Room == EntryCount(file) < MaxEntries

AddSector(name, arrayOk) ==
    LET add == mcfg_add_sector(file, name, arrayOk)
    IN  /\ phase = "open" /\ Room
        /\ Allocation(arrayOk, add.err)
        /\ Outcome(add, <<Step("sector", remove_newline(name))>>,
                   1 + (1 - ArrayOf(file.sectors)))

AddSection(s, name, arrayOk) ==
    LET add  == mcfg_add_section(file, s, name, arrayOk)
        path == <<Step("sector", file.sectors[s].name),
                  Step("section", remove_newline(name))>>
    IN  /\ phase = "open" /\ Room
        /\ Allocation(arrayOk, add.err)
        /\ Outcome(add, path, 1 + (1 - ArrayOf(file.sectors[s].sections)))

\* The blocks of the data a field is added with.
DataBlocks(value) ==
    mcfg_free_field([name |-> NULL, type |-> value.type, data |-> value.data])

AddField(s, t, name, value, arrayOk) ==
    LET section == file.sectors[s].sections[t]
        add  == mcfg_add_field(file, s, t, value.type, name, value.data, arrayOk)
        path == <<Step("sector", file.sectors[s].name), Step("section", section.name),
                  Step("field", remove_newline(name))>>
    IN  /\ phase = "open" /\ Room
        /\ Allocation(arrayOk, add.err)
        /\ Outcome(add, path, 1 + DataBlocks(value) + (1 - ArrayOf(section.fields)))

AddDynfield(name, value, arrayOk) ==
    LET add == mcfg_add_dynfield(file, value.type, name, value.data, arrayOk)
    IN  /\ phase = "open" /\ Room
        /\ Allocation(arrayOk, add.err)
        /\ Outcome(add, <<Step("dynfield", remove_newline(name))>>,
                   1 + DataBlocks(value) + (1 - ArrayOf(file.dynfields)))

\* The program adds an element to a list it has put into the document.  The
\* block of the element's name is lost if the array cannot be allocated.
AddListField(s, t, i, data, nameOk, arrayOk) ==
    LET section == file.sectors[s].sections[t]
        field   == section.fields[i]
        add     == mcfg_add_list_field(field.data, data, nameOk, arrayOk)
        path    == <<Step("sector", file.sectors[s].name),
                     Step("section", section.name), Step("field", field.name),
                     ElementStep(Len(field.data.elems) + 1)>>
    IN  /\ phase = "open" /\ Room
        /\ field.type = "TYPE_LIST" /\ field.data # NULL
        /\ nameOk \/ arrayOk
        /\ Allocation(nameOk /\ arrayOk, add.err)
        /\ ret' = [path |-> path, err |-> add.err]
        /\ file' = [file EXCEPT !.sectors[s].sections[t].fields[i].data = add.list]
        /\ live' = live + CASE add.err = "MCFG_OK" ->
                                    2 + (1 - ArrayOf(field.data.elems))
                            [] add.err = "MCFG_MALLOC_FAIL" -> 1
                            [] OTHER -> 0
        /\ phase' = IF add.err = "fault" THEN "crashed" ELSE phase

\* mcfg_free_file.  Where it passes a pointer that was never assigned to
\* free(), it may return (the pointer happens to be NULL) or crash.
FreeFile ==
    /\ phase = "open"
    /\ \/ /\ phase' = "freed"
          /\ live' = live - mcfg_free_file(file)
          /\ file' = EmptyFile
       \/ /\ FreesWildArray(file)
          /\ phase' = "crashed"
          /\ UNCHANGED <<live, file>>
    /\ UNCHANGED <<fails, ret>>

Next ==
    \/ \E name \in Names, ok \in BOOLEAN : AddSector(name, ok)
    \/ \E s \in DOMAIN file.sectors, name \in Names, ok \in BOOLEAN :
            AddSection(s, name, ok)
    \/ \E s \in DOMAIN file.sectors : \E t \in DOMAIN file.sectors[s].sections :
         \E name \in Names, value \in FieldData, ok \in BOOLEAN :
            AddField(s, t, name, value, ok)
    \/ \E name \in Names, value \in FieldData, ok \in BOOLEAN :
            AddDynfield(name, value, ok)
    \/ \E s \in DOMAIN file.sectors : \E t \in DOMAIN file.sectors[s].sections :
         \E i \in DOMAIN file.sectors[s].sections[t].fields :
           \E data \in ElementData, nameOk, ok \in BOOLEAN :
              AddListField(s, t, i, data, nameOk, ok)
    \/ FreeFile

Spec == Init /\ [][Next]_vars

-----------------------------------------------------------------------------

\* However calls are mixed, and whichever of them fail, no two siblings of the
\* document ever have one name, although a name may lose its line feed on the
\* way in.  Lookups stop at the first match, so a second entry of a name
\* could never be reached.
NamesUnique == AllNamesUnique(file)

\* Every entry of the document is found under the name it carries.
EntriesFound == AllFound(file)

\* mcfg_free_file gives back what the library owns: it never frees more, and
\* what it misses is at most one block for each allocation that failed.
FreeIsComplete ==
    LET missed == live - mcfg_free_file(file)
    IN  phase # "crashed" => missed \in 0 .. fails

DuplicateErrors ==
    {"MCFG_DUPLICATE_SECTOR", "MCFG_DUPLICATE_SECTION", "MCFG_DUPLICATE_FIELD",
     "MCFG_DUPLICATE_DYNFIELD"}

\* The error that include/mcfg.h promises for an entry that is there already.
\* A section has none here, because code and header disagree: mcfg.h:147 says
\* MCFG_DUPLICATE_SECTION, and mcfg.c:146 returns MCFG_DUPLICATE_FIELD.
DuplicateOf == [sector   |-> "MCFG_DUPLICATE_SECTOR",
                field    |-> "MCFG_DUPLICATE_FIELD",
                dynfield |-> "MCFG_DUPLICATE_DYNFIELD"]

NamesTheDuplicate(path, err) ==
    LET kind == Last(path).kind
    IN  kind = "section" \/ (kind \in DOMAIN DuplicateOf /\ err = DuplicateOf[kind])

\* An add reports what happened: success only if the entry is new and now in
\* the document, with its elements and nothing else; a duplicate only for an
\* entry that was there before, and by the error that is documented for one of
\* its kind, sections excepted (see DuplicateOf); and a call that fails leaves
\* the document as it was.
AddReportsTruth ==
    [][ phase' = "open" =>
          LET before == DOMAIN Tree(file)
              after  == DOMAIN Tree(file')
              added  == {path \in after : IsPrefix(ret'.path, path)}
          IN  CASE ret'.err = "MCFG_OK" ->
                        /\ ret'.path \in after \ before
                        /\ added = after \ before
                [] ret'.err \in DuplicateErrors ->
                        /\ ret'.path \in before /\ file' = file
                        /\ NamesTheDuplicate(ret'.path, ret'.err)
                [] OTHER -> file' = file ]_vars

\* The document is a namespace that only grows until it is freed.
NS == INSTANCE Namespace WITH tree   <- Tree(file),
                              size   <- EntryCount(file),
                              closed <- (phase = "freed")
IsNamespace == NS!Spec

\* Not what the code does: freeing a document built by successful calls only
\* is safe.
FreeIsSafe == fails = 0 => phase # "crashed"
=============================================================================
