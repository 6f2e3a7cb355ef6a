--------------------------- MODULE McfgFileProofs ---------------------------
(* For every set of names and data, every order of calls and every failing   *)
(* allocation: the document stays well typed and its names stay unique.      *)
EXTENDS McfgFile, CommonTheorems

\* Names are unique because every add looks for its name first and because no
\* step changes the name of an entry.  That it finds an entry of the same
\* name needs the document to be well typed, and nothing else.
Inv == TypeOK /\ NamesUnique

\* The invariant holds of the empty document.
LEMMA InitInv == Init => Inv
<1> SUFFICES ASSUME Init PROVE Inv
  OBVIOUS
<1> USE FileAssumption
<1>1. file \in File
  <2>1. << >> \in Seq(Sector) /\ << >> \in Seq(Field)
    OBVIOUS
  <2> QED
    BY <2>1 DEF Init, EmptyFile, File
<1>2. AllNamesUnique(file)
  BY DEF Init, EmptyFile, AllNamesUnique, UniqueNames
<1> QED
  BY <1>1, <1>2 DEF Init, Inv, TypeOK, NamesUnique

\* The part of an add that all adds share: whatever it makes of the document,
\* the other variables stay well typed.
LEMMA AddStep ==
    ASSUME TypeOK, phase = "open", NEW ok, NEW e, Allocation(ok, e),
           phase' = IF e = "fault" THEN "crashed" ELSE phase,
           file' \in File, AllNamesUnique(file')
    PROVE  Inv'
<1>1. fails' \in 0 .. MaxFails
  BY FileAssumption DEF TypeOK, Allocation
<1> QED
  BY <1>1 DEF Inv, TypeOK, NamesUnique

\* Every call keeps it, whether it succeeds or not.
LEMMA NextInv == Inv /\ [Next]_vars => Inv'
<1> SUFFICES ASSUME Inv, [Next]_vars PROVE Inv'
  OBVIOUS
<1> USE DEF Inv
<1>0. file \in File /\ AllNamesUnique(file) /\ TypeOK
  BY DEF TypeOK, NamesUnique
<1>1. ASSUME NEW name \in Names, NEW ok \in BOOLEAN, AddSector(name, ok) PROVE Inv'
  <2> DEFINE add == mcfg_add_sector(file, name, ok)
  <2>1. file' = add.file /\ phase = "open" /\ Allocation(ok, add.err)
        /\ phase' = IF add.err = "fault" THEN "crashed" ELSE phase
    BY <1>1 DEF AddSector, Outcome
  <2>2. file' \in File /\ AllNamesUnique(file')
    BY <1>0, <2>1, AddSectorKeeps, FileAssumption
  <2> QED
    BY <1>0, <2>1, <2>2, AddStep
<1>2. ASSUME NEW s \in DOMAIN file.sectors, NEW name \in Names, NEW ok \in BOOLEAN,
             AddSection(s, name, ok)
      PROVE  Inv'
  <2> DEFINE add == mcfg_add_section(file, s, name, ok)
  <2>1. file' = add.file /\ phase = "open" /\ Allocation(ok, add.err)
        /\ phase' = IF add.err = "fault" THEN "crashed" ELSE phase
    BY <1>2 DEF AddSection, Outcome
  <2>2. file' \in File /\ AllNamesUnique(file')
    BY <1>0, <2>1, AddSectionKeeps, FileAssumption
  <2> QED
    BY <1>0, <2>1, <2>2, AddStep
<1>3. ASSUME NEW s \in DOMAIN file.sectors, NEW t \in DOMAIN file.sectors[s].sections,
             NEW name \in Names, NEW value \in FieldData, NEW ok \in BOOLEAN,
             AddField(s, t, name, value, ok)
      PROVE  Inv'
  <2> DEFINE add == mcfg_add_field(file, s, t, value.type, name, value.data, ok)
  <2>1. file' = add.file /\ phase = "open" /\ Allocation(ok, add.err)
        /\ phase' = IF add.err = "fault" THEN "crashed" ELSE phase
    BY <1>3 DEF AddField, Outcome
  <2>2. [type |-> value.type, data |-> value.data] \in Typed /\ name \in Name \cup {NULL}
    BY FileAssumption DEF Typed
  <2>3. file' \in File /\ AllNamesUnique(file')
    BY <1>0, <2>1, <2>2, AddFieldKeeps
  <2> QED
    BY <1>0, <2>1, <2>3, AddStep
<1>4. ASSUME NEW name \in Names, NEW value \in FieldData, NEW ok \in BOOLEAN,
             AddDynfield(name, value, ok)
      PROVE  Inv'
  <2> DEFINE add == mcfg_add_dynfield(file, value.type, name, value.data, ok)
  <2>1. file' = add.file /\ phase = "open" /\ Allocation(ok, add.err)
        /\ phase' = IF add.err = "fault" THEN "crashed" ELSE phase
    BY <1>4 DEF AddDynfield, Outcome
  <2>2. value \in Typed /\ name \in Name \cup {NULL}
    BY FileAssumption
  <2>3. file' \in File /\ AllNamesUnique(file')
    BY <1>0, <2>1, <2>2, AddDynfieldKeeps
  <2> QED
    BY <1>0, <2>1, <2>3, AddStep
<1>5. ASSUME NEW s \in DOMAIN file.sectors, NEW t \in DOMAIN file.sectors[s].sections,
             NEW i \in DOMAIN file.sectors[s].sections[t].fields,
             NEW data \in ElementData, NEW nameOk \in BOOLEAN, NEW ok \in BOOLEAN,
             AddListField(s, t, i, data, nameOk, ok)
      PROVE  Inv'
  <2> DEFINE field == file.sectors[s].sections[t].fields[i]
             add   == mcfg_add_list_field(field.data, data, nameOk, ok)
  <2>1. /\ file' = [file EXCEPT !.sectors[s].sections[t].fields[i].data = add.list]
        /\ phase = "open" /\ Allocation(nameOk /\ ok, add.err)
        /\ field.type = "TYPE_LIST" /\ field.data # NULL
        /\ phase' = IF add.err = "fault" THEN "crashed" ELSE phase
    BY <1>5 DEF AddListField
  <2>2. field \in Field
    <3>1. file.sectors[s] \in Sector
      BY <1>0, FileParts
    <3>2. file.sectors[s].sections[t] \in Section
      BY <3>1, SectorParts
    <3> QED
      BY <3>2, SectionParts
  <2>3. field.data \in List
    BY <2>1, <2>2 DEF Field
  <2>4. add.list \in List
    BY <2>3, AddListFieldKeeps, FileAssumption
  <2>5. [type |-> field.type, data |-> add.list] \in Typed
    BY <2>1, <2>2, <2>4 DEF Typed, Field
  <2>6. file' \in File /\ AllNamesUnique(file')
    BY <1>0, <2>1, <2>5, SetDataKeeps
  <2> QED
    BY <1>0, <2>1, <2>6, AddStep
<1>6. CASE FreeFile
  <2>1. file' = EmptyFile \/ UNCHANGED file
    BY <1>6 DEF FreeFile
  <2>2. EmptyFile \in File /\ AllNamesUnique(EmptyFile)
    <3>1. << >> \in Seq(Sector) /\ << >> \in Seq(Field)
      OBVIOUS
    <3> QED
      BY <3>1 DEF EmptyFile, File, AllNamesUnique, UniqueNames
  <2> QED
    BY <1>0, <1>6, <2>1, <2>2 DEF FreeFile, TypeOK, NamesUnique
<1>7. CASE UNCHANGED vars
  BY <1>0, <1>7 DEF vars, TypeOK, NamesUnique
<1> QED
  BY <1>1, <1>2, <1>3, <1>4, <1>5, <1>6, <1>7 DEF Next

\* The invariant holds throughout every program.
THEOREM SpecInv == Spec => []Inv
BY InitInv, NextInv, PTL DEF Spec

\* Whatever calls a program makes and whichever allocations fail, what the
\* library keeps is a document: containers, fields, lists of their types.
THEOREM TypeCorrect == Spec => []TypeOK
BY SpecInv, PTL DEF Inv

\* Whatever calls a program makes and whichever allocations fail, no two
\* siblings ever have one name.
THEOREM NamesStayUnique == Spec => []NamesUnique
BY SpecInv, PTL DEF Inv

\* Whatever a program has declared, mcfg_get_sector, mcfg_get_section,
\* mcfg_get_field and mcfg_get_dynfield find it: no entry is hidden behind
\* another one of its name.
THEOREM EntriesStayFound == Spec => []EntriesFound
<1>1. Inv => EntriesFound
  BY UniqueAllFound DEF Inv, TypeOK, NamesUnique, EntriesFound
<1> QED
  BY SpecInv, <1>1, PTL

-----------------------------------------------------------------------------
(* Freeing.                                                                  *)

\* FreeIsComplete is inductive together with the types: the blocks that an add
\* takes over are those that the document with its entry is freed of.
Owned == live \in Int /\ FreeIsComplete

\* No step but those that fail has the library own what it does not free.
LEMMA OwnedStep ==
    ASSUME Inv, Owned, phase = "open", NEW taken \in Int, NEW lost \in 0 .. 1,
           live' = live + taken + lost, fails' \in Nat, fails' >= fails + lost,
           mcfg_free_file(file') \in Nat,
           phase' # "crashed" => mcfg_free_file(file') = mcfg_free_file(file) + taken
    PROVE  Owned'
<1>1. mcfg_free_file(file) \in Nat /\ fails \in Nat /\ live \in Int
  BY FreeFileIs, FileAssumption DEF Inv, TypeOK, Owned
<1>2. live - mcfg_free_file(file) \in 0 .. fails
  BY DEF Owned, FreeIsComplete
<1>3. live' \in Int
  BY <1>1
<1>4. ASSUME phase' # "crashed"
      PROVE  live' - mcfg_free_file(file') \in 0 .. fails'
  BY <1>1, <1>2, <1>4
<1> QED
  BY <1>3, <1>4 DEF Owned, FreeIsComplete

\* The allocations of a step that fail are counted.
LEMMA FailsGrow ==
    ASSUME Inv, NEW ok \in BOOLEAN, NEW e, Allocation(ok, e)
    PROVE  /\ fails' \in Nat /\ fails' >= fails + 0
           /\ ~ok => fails' >= fails + 1
<1>1. fails \in Nat
  BY FileAssumption DEF Inv, TypeOK
<1> QED
  BY <1>1 DEF Allocation

\* Every call keeps it: what an add takes over is what freeing gives back later,
\* and what is lost comes with a failure that has been counted.
LEMMA OwnedNext == Inv /\ Owned /\ [Next]_vars => Owned'
<1> SUFFICES ASSUME Inv, Owned, [Next]_vars PROVE Owned'
  OBVIOUS
<1>0. /\ file \in File /\ file' \in File /\ mcfg_free_file(file') \in Nat
      /\ mcfg_free_file(file) \in Nat /\ file.sectors \in Seq(Sector)
      /\ Names \subseteq Name /\ FieldData \subseteq Typed
      /\ ElementData \subseteq Scalar \cup {NULL}
  BY NextInv, FreeFileIs, FileParts, FileAssumption DEF Inv, TypeOK
<1>1. ASSUME NEW name \in Names, NEW ok \in BOOLEAN, AddSector(name, ok) PROVE Owned'
  <2> DEFINE add   == mcfg_add_sector(file, name, ok)
             taken == IF add.err = "MCFG_OK" THEN 1 + (1 - ArrayOf(file.sectors)) ELSE 0
  <2>1. /\ file' = add.file /\ phase = "open" /\ Allocation(ok, add.err)
        /\ live' = live + taken
    BY <1>1 DEF AddSector, Outcome
  <2>2. mcfg_free_file(file') = mcfg_free_file(file) + taken
    <3>1. name \in Name /\ BlockOf(name) = 1
      BY <1>0, StoreAssumption DEF BlockOf
    <3>2. CASE add.err = "MCFG_OK"
      <4>1. mcfg_free_file(add.file) = mcfg_free_file(file) + BlockOf(name) + 1 - ArrayOf(file.sectors)
        BY <1>0, <3>1, <3>2, AddSectorFrees
      <4> HIDE DEF add
      <4> QED
        BY <1>0, <2>1, <3>1, <3>2, <4>1 DEF ArrayOf
    <3>3. CASE add.err # "MCFG_OK"
      <4>1. add.file = file
        BY <1>0, <3>3, AddSectorRefused
      <4> QED
        BY <1>0, <2>1, <3>3, <4>1
    <3> QED
      BY <3>2, <3>3
  <2>3. taken \in Int
    BY DEF ArrayOf
  <2>4. live' = live + taken + 0 /\ fails' \in Nat /\ fails' >= fails + 0
    BY <2>1, <2>3, FailsGrow DEF Owned
  <2> HIDE DEF add, taken
  <2> QED
    BY <1>0, <2>1, <2>2, <2>3, <2>4, OwnedStep
<1>2. ASSUME NEW s \in DOMAIN file.sectors, NEW name \in Names, NEW ok \in BOOLEAN,
             AddSection(s, name, ok)
      PROVE  Owned'
  <2> DEFINE add   == mcfg_add_section(file, s, name, ok)
             taken == IF add.err = "MCFG_OK"
                      THEN 1 + (1 - ArrayOf(file.sectors[s].sections)) ELSE 0
  <2>1. /\ file' = add.file /\ phase = "open" /\ Allocation(ok, add.err)
        /\ live' = live + taken
    BY <1>2 DEF AddSection, Outcome
  <2>2. mcfg_free_file(file') = mcfg_free_file(file) + taken
    <3>1. name \in Name /\ BlockOf(name) = 1 /\ s \in 1 .. Len(file.sectors)
      BY <1>0, StoreAssumption DEF BlockOf
    <3>2. CASE add.err = "MCFG_OK"
      <4>1. mcfg_free_file(add.file)
              = mcfg_free_file(file) + BlockOf(name) + 1 - ArrayOf(file.sectors[s].sections)
        BY <1>0, <3>1, <3>2, AddSectionFrees
      <4> HIDE DEF add
      <4> QED
        BY <1>0, <2>1, <3>1, <3>2, <4>1 DEF ArrayOf
    <3>3. CASE add.err # "MCFG_OK"
      <4>1. add.file = file
        BY <1>0, <3>3, AddSectionRefused
      <4> QED
        BY <1>0, <2>1, <3>3, <4>1
    <3> QED
      BY <3>2, <3>3
  <2>3. taken \in Int
    BY DEF ArrayOf
  <2>4. live' = live + taken + 0 /\ fails' \in Nat /\ fails' >= fails + 0
    BY <2>1, <2>3, FailsGrow DEF Owned
  <2> HIDE DEF add, taken
  <2> QED
    BY <1>0, <2>1, <2>2, <2>3, <2>4, OwnedStep
<1>3. ASSUME NEW s \in DOMAIN file.sectors, NEW t \in DOMAIN file.sectors[s].sections,
             NEW name \in Names, NEW value \in FieldData, NEW ok \in BOOLEAN,
             AddField(s, t, name, value, ok)
      PROVE  Owned'
  <2> DEFINE add   == mcfg_add_field(file, s, t, value.type, name, value.data, ok)
             fields == file.sectors[s].sections[t].fields
             taken == IF add.err = "MCFG_OK"
                      THEN 1 + DataBlocks(value) + (1 - ArrayOf(fields)) ELSE 0
  <2>1. /\ file' = add.file /\ phase = "open" /\ Allocation(ok, add.err)
        /\ live' = live + taken
    BY <1>3 DEF AddField, Outcome
  <2>2. /\ name \in Name /\ BlockOf(name) = 1 /\ s \in 1 .. Len(file.sectors)
        /\ t \in 1 .. Len(file.sectors[s].sections)
        /\ [type |-> value.type, data |-> value.data] \in Typed
    BY <1>0, FileParts, SectorParts, StoreAssumption DEF BlockOf, Typed
  <2>3. /\ DataBlocks(value) \in Nat
        /\ mcfg_free_field(FieldOf(name, value.type, value.data)) = 1 + DataBlocks(value)
    BY <2>2, FieldItem DEF DataBlocks, FieldOf
  <2>4. mcfg_free_file(file') = mcfg_free_file(file) + taken
    <3>1. CASE add.err = "MCFG_OK"
      <4>1. mcfg_free_file(add.file)
              = mcfg_free_file(file) + mcfg_free_field(FieldOf(name, value.type, value.data))
                + 1 - ArrayOf(fields)
        <5>1. mcfg_free_file(add.file) = FreedWith(file, s, t, name, value.type, value.data)
          BY <1>0, <2>2, <3>1, AddFieldFrees
        <5> QED
          BY <5>1 DEF FreedWith
      <4> HIDE DEF add
      <4> QED
        BY <1>0, <2>1, <2>3, <3>1, <4>1 DEF ArrayOf
    <3>2. CASE add.err # "MCFG_OK"
      <4>1. add.file = file
        BY <1>0, <2>2, <3>2, AddFieldRefused
      <4> QED
        BY <1>0, <2>1, <3>2, <4>1
    <3> QED
      BY <3>1, <3>2
  <2>5. taken \in Int
    BY <2>3 DEF ArrayOf
  <2>6. live' = live + taken + 0 /\ fails' \in Nat /\ fails' >= fails + 0
    BY <2>1, <2>5, FailsGrow DEF Owned
  <2> HIDE DEF add, taken
  <2> QED
    BY <1>0, <2>1, <2>4, <2>5, <2>6, OwnedStep
<1>4. ASSUME NEW name \in Names, NEW value \in FieldData, NEW ok \in BOOLEAN,
             AddDynfield(name, value, ok)
      PROVE  Owned'
  <2> DEFINE add   == mcfg_add_dynfield(file, value.type, name, value.data, ok)
             taken == IF add.err = "MCFG_OK"
                      THEN 1 + DataBlocks(value) + (1 - ArrayOf(file.dynfields)) ELSE 0
  <2>1. /\ file' = add.file /\ phase = "open" /\ Allocation(ok, add.err)
        /\ live' = live + taken
    BY <1>4 DEF AddDynfield, Outcome
  <2>2. /\ name \in Name /\ BlockOf(name) = 1
        /\ [type |-> value.type, data |-> value.data] \in Typed
    BY <1>0, StoreAssumption DEF BlockOf, Typed
  <2>3. /\ DataBlocks(value) \in Nat
        /\ mcfg_free_field(FieldOf(name, value.type, value.data)) = 1 + DataBlocks(value)
    BY <2>2, FieldItem DEF DataBlocks, FieldOf
  <2>4. mcfg_free_file(file') = mcfg_free_file(file) + taken
    <3>1. CASE add.err = "MCFG_OK"
      <4>1. mcfg_free_file(add.file)
              = mcfg_free_file(file) + mcfg_free_field(FieldOf(name, value.type, value.data))
                + 1 - ArrayOf(file.dynfields)
        BY <1>0, <2>2, <3>1, AddDynfieldFrees
      <4> HIDE DEF add
      <4> QED
        BY <1>0, <2>1, <2>3, <3>1, <4>1 DEF ArrayOf
    <3>2. CASE add.err # "MCFG_OK"
      <4>1. add.file = file
        BY <1>0, <3>2, AddDynfieldRefused
      <4> QED
        BY <1>0, <2>1, <3>2, <4>1
    <3> QED
      BY <3>1, <3>2
  <2>5. taken \in Int
    BY <2>3 DEF ArrayOf
  <2>6. live' = live + taken + 0 /\ fails' \in Nat /\ fails' >= fails + 0
    BY <2>1, <2>5, FailsGrow DEF Owned
  <2> HIDE DEF add, taken
  <2> QED
    BY <1>0, <2>1, <2>4, <2>5, <2>6, OwnedStep
<1>5. ASSUME NEW s \in DOMAIN file.sectors, NEW t \in DOMAIN file.sectors[s].sections,
             NEW i \in DOMAIN file.sectors[s].sections[t].fields,
             NEW data \in ElementData, NEW nameOk \in BOOLEAN, NEW ok \in BOOLEAN,
             AddListField(s, t, i, data, nameOk, ok)
      PROVE  Owned'
  <2> DEFINE field == file.sectors[s].sections[t].fields[i]
             add   == mcfg_add_list_field(field.data, data, nameOk, ok)
             now   == [field EXCEPT !.data = add.list]
             taken == IF add.err = "MCFG_OK" THEN 2 + (1 - ArrayOf(field.data.elems)) ELSE 0
             lost  == IF add.err = "MCFG_MALLOC_FAIL" THEN 1 ELSE 0
  <2>1. /\ file' = [file EXCEPT !.sectors[s].sections[t].fields[i].data = add.list]
        /\ phase = "open" /\ Allocation(nameOk /\ ok, add.err)
        /\ field.type = "TYPE_LIST" /\ field.data # NULL
        /\ live' = live + CASE add.err = "MCFG_OK" -> 2 + (1 - ArrayOf(field.data.elems))
                            [] add.err = "MCFG_MALLOC_FAIL" -> 1
                            [] OTHER -> 0
    BY <1>5 DEF AddListField
  <2>2. /\ s \in 1 .. Len(file.sectors) /\ t \in 1 .. Len(file.sectors[s].sections)
        /\ i \in 1 .. Len(file.sectors[s].sections[t].fields) /\ field \in Field
    <3>1. s \in 1 .. Len(file.sectors) /\ file.sectors[s] \in Sector
      BY <1>0, FileParts
    <3>2. t \in 1 .. Len(file.sectors[s].sections) /\ file.sectors[s].sections[t] \in Section
      BY <3>1, SectorParts
    <3> QED
      BY <3>1, <3>2, SectionParts
  <2>3. field.data \in List
    BY <2>1, <2>2 DEF Field
  <2>4. add.list \in List /\ add.list # NULL
    <3>1. add.list \in List
      BY <1>0, <2>3, AddListFieldKeeps
    <3> QED
      BY <3>1, StoreAssumption
  <2>5. [type |-> field.type, data |-> add.list] \in Typed
    BY <2>1, <2>2, <2>4 DEF Typed, Field
  <2>6. mcfg_free_file(file')
          = mcfg_free_file(file) + mcfg_free_field(now) - mcfg_free_field(field)
    <3>1. mcfg_free_file([file EXCEPT !.sectors[s].sections[t].fields[i].data = add.list])
            = mcfg_free_file(file)
              + mcfg_free_field([file.sectors[s].sections[t].fields[i] EXCEPT !.data = add.list])
              - mcfg_free_field(file.sectors[s].sections[t].fields[i])
      <4> HIDE DEF add
      <4> QED
        BY <1>0, <2>2, <2>5, SetDataFrees
    <3> QED
      BY <2>1, <3>1
  <2>7. mcfg_free_list(add.list) = mcfg_free_list(field.data) + taken
    <3>1. /\ add.err = "MCFG_OK" =>
               mcfg_free_list(add.list)
                 = mcfg_free_list(field.data) + 3 - ArrayOf(field.data.elems)
          /\ add.err # "MCFG_OK" => add.list = field.data
      <4>1. data \in Scalar \cup {NULL}
        BY <1>0
      <4>2. ASSUME NEW l \in List, NEW more, more = mcfg_add_list_field(l, data, nameOk, ok)
            PROVE  /\ more.err = "MCFG_OK" =>
                         mcfg_free_list(more.list) = mcfg_free_list(l) + 3 - ArrayOf(l.elems)
                   /\ more.err # "MCFG_OK" => more.list = l
        BY <4>1, <4>2, AddElementFrees
      <4> HIDE DEF field
      <4> QED
        BY <2>3, <4>2
    <3>2. mcfg_free_list(field.data) \in Nat /\ ArrayOf(field.data.elems) \in {0, 1}
      BY <2>3, FreeListIs DEF ArrayOf
    <3> HIDE DEF add
    <3> QED
      BY <3>1, <3>2
  <2>8. mcfg_free_field(now) = mcfg_free_field(field) + taken /\ taken \in Int
    <3>1. now.data = add.list /\ now.type = "TYPE_LIST" /\ now.name = field.name
      BY <2>1, <2>2 DEF Field
    <3>2. mcfg_free_list(field.data) \in Nat /\ taken \in Int /\ BlockOf(field.name) \in Nat
      BY <2>3, FreeListIs DEF ArrayOf, BlockOf
    <3>3. mcfg_free_field(now) = BlockOf(field.name) + 1 + mcfg_free_list(add.list)
      BY <2>4, <3>1 DEF mcfg_free_field, BlockOf
    <3>4. mcfg_free_field(field) = BlockOf(field.name) + 1 + mcfg_free_list(field.data)
      BY <2>1 DEF mcfg_free_field, BlockOf
    <3> HIDE DEF add, field, now, taken
    <3> QED
      BY <2>7, <3>2, <3>3, <3>4
  <2>9. mcfg_free_field(field) \in Nat
    BY <2>2, FreeFieldType
  <2>10. add.err = "MCFG_MALLOC_FAIL" => nameOk = TRUE /\ ok = FALSE
    BY DEF mcfg_add_list_field
  <2>11. lost \in 0 .. 1 /\ live' = live + taken + lost
    <3>1. live \in Int /\ taken \in Int
      BY <2>8 DEF Owned
    <3>2. lost \in 0 .. 1
      OBVIOUS
    <3>3. live' = live + taken + lost
      <4> HIDE DEF add, field
      <4>1. CASE add.err = "MCFG_OK"
        <5>1. lost = 0 /\ taken = 2 + (1 - ArrayOf(field.data.elems))
          BY <4>1
        <5>2. live' = live + (2 + (1 - ArrayOf(field.data.elems)))
          BY <2>1, <4>1
        <5> QED
          BY <3>1, <5>1, <5>2
      <4>2. CASE add.err = "MCFG_MALLOC_FAIL"
        <5>1. lost = 1 /\ taken = 0
          BY <4>2
        <5>2. live' = live + 1
          BY <2>1, <4>2
        <5> QED
          BY <3>1, <5>1, <5>2
      <4>3. CASE add.err # "MCFG_OK" /\ add.err # "MCFG_MALLOC_FAIL"
        <5>1. lost = 0 /\ taken = 0
          BY <4>3
        <5>2. live' = live + 0
          BY <2>1, <4>3
        <5> QED
          BY <3>1, <5>1, <5>2
      <4> QED
        BY <4>1, <4>2, <4>3
    <3> QED
      BY <3>2, <3>3
  <2>12. fails' \in Nat /\ fails' >= fails + lost
    <3>1. (nameOk /\ ok) \in BOOLEAN
      OBVIOUS
    <3>2. /\ fails' \in Nat /\ fails' >= fails + 0
          /\ ~(nameOk /\ ok) => fails' >= fails + 1
      BY <2>1, <3>1, FailsGrow
    <3> QED
      BY <2>10, <3>2
  <2> HIDE DEF add, field, now, taken, lost
  <2>13. mcfg_free_file(file') = mcfg_free_file(file) + taken
    BY <1>0, <2>6, <2>8, <2>9
  <2> QED
    BY <1>0, <2>1, <2>8, <2>11, <2>12, <2>13, OwnedStep
<1>6. CASE FreeFile
  <2>1. fails' = fails /\ fails \in Nat /\ live \in Int /\ phase = "open"
    BY <1>6, FileAssumption DEF FreeFile, Inv, TypeOK, Owned
  <2>2. live - mcfg_free_file(file) \in 0 .. fails
    BY <2>1 DEF Owned, FreeIsComplete
  <2>3. CASE phase' = "crashed" /\ UNCHANGED live
    BY <2>1, <2>3 DEF Owned, FreeIsComplete
  <2>4. CASE phase' = "freed" /\ live' = live - mcfg_free_file(file) /\ file' = EmptyFile
    <3>1. mcfg_free_file(EmptyFile) = 0
      <4>1. EmptyFile \in File /\ EmptyFile.sectors = << >> /\ EmptyFile.dynfields = << >>
        BY <1>0, <2>4 DEF EmptyFile
      <4>2. SumOver(FieldBlocks, << >>) = 0 /\ SumOver(SectorBlocks, << >>) = 0
        <5>1. << >> \in Seq(Field) /\ << >> \in Seq(Sector)
          OBVIOUS
        <5> QED
          BY <5>1, FieldsTotal, SectorsTotal, SumOfEmpty
      <4> QED
        BY <4>1, <4>2, FreeFileIs DEF ArrayOf
    <3> QED
      BY <1>0, <2>1, <2>2, <2>4, <3>1 DEF Owned, FreeIsComplete
  <2> QED
    BY <1>6, <2>3, <2>4 DEF FreeFile
<1>7. CASE UNCHANGED vars
  BY <1>7 DEF vars, Owned, FreeIsComplete
<1> QED
  BY <1>1, <1>2, <1>3, <1>4, <1>5, <1>6, <1>7 DEF Next

\* Whatever calls a program makes and whichever allocations fail: freeing the
\* document frees what the library owns, never more, and misses at most one
\* block for each allocation that has failed.
THEOREM FreedCompletely == Spec => []FreeIsComplete
<1>1. Init => Owned
  <2> SUFFICES ASSUME Init PROVE Owned
    OBVIOUS
  <2>1. file \in File /\ file.sectors = << >> /\ file.dynfields = << >>
    BY InitInv DEF Inv, TypeOK, Init, EmptyFile
  <2>2. SumOver(FieldBlocks, << >>) = 0 /\ SumOver(SectorBlocks, << >>) = 0
    <3>1. << >> \in Seq(Field) /\ << >> \in Seq(Sector)
      OBVIOUS
    <3> QED
      BY <3>1, FieldsTotal, SectorsTotal, SumOfEmpty
  <2>3. mcfg_free_file(file) = 0
    BY <2>1, <2>2, FreeFileIs DEF ArrayOf
  <2> QED
    BY <2>3 DEF Init, Owned, FreeIsComplete
<1>2. Owned => FreeIsComplete
  BY DEF Owned
<1> QED
  BY InitInv, NextInv, OwnedNext, <1>1, <1>2, PTL DEF Spec
-----------------------------------------------------------------------------
(* The document as a tree.                                                   *)

\* What an add needs to find, besides names that are unique.
TreeInv == AllLists(file) /\ IsTree(file)

\* A call that succeeds: the document has a new child, at the path the call
\* was to declare.
Declared ==
    /\ phase = "open" /\ phase' = "open" /\ ret'.err = "MCFG_OK"
    /\ AllLists(file')
    /\ \E path, step, N :
          Adds(file, file', path, step, N) /\ ret'.path = Append(path, step)

\* A call that fails.
Refused ==
    /\ phase = "open" /\ phase' # "freed" /\ ret'.err # "MCFG_OK"
    /\ ret'.err \in DuplicateErrors =>
          ret'.path \in Paths(Entries(file)) /\ NamesTheDuplicate(ret'.path, ret'.err)
    /\ file' = file

\* What an add leaves behind is one or the other.
LEMMA AddOutcome ==
    ASSUME phase = "open", NEW add, NEW path, NEW step, NEW blocks,
           Outcome(add, Append(path, step), blocks),
           add.err = "MCFG_OK" => /\ AllLists(add.file)
                                  /\ \E N : Adds(file, add.file, path, step, N),
           add.err # "MCFG_OK" => add.file = file,
           add.err \notin {"MCFG_OK", "fault", "MCFG_MALLOC_FAIL"} =>
              Append(path, step) \in Paths(Entries(file)),
           add.err \in DuplicateErrors => NamesTheDuplicate(Append(path, step), add.err)
    PROVE  Declared \/ Refused
<1>1. ret'.path = Append(path, step) /\ ret'.err = add.err /\ file' = add.file
      /\ phase' = IF add.err = "fault" THEN "crashed" ELSE "open"
  BY DEF Outcome
<1>2. CASE add.err = "MCFG_OK"
  BY <1>1, <1>2 DEF Declared
<1>3. CASE add.err # "MCFG_OK"
  BY <1>1, <1>3 DEF Refused, DuplicateErrors
<1> QED
  BY <1>2, <1>3

\* A field that is refused leaves the document as it was.
LEMMA FieldRefused ==
    ASSUME NEW f \in File, NEW s \in 1 .. Len(f.sectors),
           NEW t \in 1 .. Len(f.sectors[s].sections), NEW name \in Names,
           NEW value \in FieldData, NEW ok \in BOOLEAN
    PROVE  mcfg_add_field(f, s, t, value.type, name, value.data, ok).err # "MCFG_OK" =>
              mcfg_add_field(f, s, t, value.type, name, value.data, ok).file = f
<1> DEFINE type == value.type
           data == value.data
<1> HIDE DEF type, data
<1>1. mcfg_add_field(f, s, t, type, name, data, ok).err # "MCFG_OK" =>
         mcfg_add_field(f, s, t, type, name, data, ok).file = f
  BY AddFieldRefused
<1> QED
  BY <1>1 DEF type, data

\* The error of a duplicate is the one of its kind, but for a section.
LEMMA DuplicateNamed ==
    /\ \A f, name, ok :
          LET err == mcfg_add_sector(f, name, ok).err
          IN  err \in DuplicateErrors =>
                 NamesTheDuplicate(<<Step("sector", remove_newline(name))>>, err)
    /\ \A f, s, name, ok, sector :
          LET err == mcfg_add_section(f, s, name, ok).err
          IN  NamesTheDuplicate(<<sector, Step("section", remove_newline(name))>>, err)
    /\ \A f, s, t, type, name, data, ok, sector, section :
          LET err == mcfg_add_field(f, s, t, type, name, data, ok).err
          IN  err \in DuplicateErrors =>
                 NamesTheDuplicate(<<sector, section, Step("field", remove_newline(name))>>, err)
    /\ \A f, type, name, data, ok :
          LET err == mcfg_add_dynfield(f, type, name, data, ok).err
          IN  err \in DuplicateErrors =>
                 NamesTheDuplicate(<<Step("dynfield", remove_newline(name))>>, err)
<1>1. \A seq, item, duplicate, ok :
         AddNamed(seq, item, duplicate, ok).err
            \in {duplicate, "fault", "MCFG_MALLOC_FAIL", "MCFG_OK"}
  BY DEF AddNamed
<1>2. \A a, b, c : Last(<<a>>) = a /\ Last(<<a, b>>) = b /\ Last(<<a, b, c>>) = c
  BY DEF Last
<1>3. {"fault", "MCFG_MALLOC_FAIL", "MCFG_OK"} \cap DuplicateErrors = {}
  BY DEF DuplicateErrors
<1>4. \A f, name, ok :
         mcfg_add_sector(f, name, ok).err \in DuplicateErrors =>
            mcfg_add_sector(f, name, ok).err = "MCFG_DUPLICATE_SECTOR"
  BY <1>1, <1>3 DEF mcfg_add_sector
<1>5. \A f, s, t, type, name, data, ok :
         mcfg_add_field(f, s, t, type, name, data, ok).err \in DuplicateErrors =>
            mcfg_add_field(f, s, t, type, name, data, ok).err = "MCFG_DUPLICATE_FIELD"
  BY <1>1, <1>3 DEF mcfg_add_field
<1>6. \A f, type, name, data, ok :
         mcfg_add_dynfield(f, type, name, data, ok).err \in DuplicateErrors =>
            mcfg_add_dynfield(f, type, name, data, ok).err = "MCFG_DUPLICATE_DYNFIELD"
  BY <1>1, <1>3 DEF mcfg_add_dynfield
<1> QED
  BY <1>2, <1>4, <1>5, <1>6 DEF NamesTheDuplicate, DuplicateOf, Step

\* Every step declares an entry, is refused, frees the document or does
\* nothing.
LEMMA StepOutcome ==
    ASSUME Inv, AllLists(file), [Next]_vars
    PROVE  Declared \/ Refused \/ FreeFile \/ UNCHANGED vars
<1>0. /\ file \in File /\ AllNamesUnique(file)
      /\ Names \subseteq Name /\ FieldData \subseteq Typed
      /\ (\A value \in FieldData : WellListed(value))
      /\ ElementData \subseteq Scalar \cup {NULL}
  BY FileAssumption DEF Inv, TypeOK, NamesUnique
<1>1. ASSUME NEW name \in Names, NEW ok \in BOOLEAN, AddSector(name, ok)
      PROVE  Declared \/ Refused
  <2> DEFINE add  == mcfg_add_sector(file, name, ok)
             step == Step("sector", remove_newline(name))
             taken == 1 + (1 - ArrayOf(file.sectors))
  <2>1. phase = "open" /\ Outcome(add, <<step>>, taken)
    BY <1>1 DEF AddSector
  <2>2. add.err = "MCFG_OK" => /\ AllLists(add.file)
                               /\ \E N : Adds(file, add.file, << >>, step, N)
    BY <1>0, AddSectorAdds, AddSectorLists
  <2>3. add.err # "MCFG_OK" => add.file = file
    BY <1>0, AddSectorRefused
  <2>4. add.err \notin {"MCFG_OK", "fault", "MCFG_MALLOC_FAIL"} =>
           Append(<< >>, step) \in Paths(Entries(file))
    BY <1>0, SectorThere
  <2> HIDE DEF add, step, taken
  <2>5. Append(<< >>, step) = <<step>>
    OBVIOUS
  <2>6. add.err \in DuplicateErrors => NamesTheDuplicate(<<step>>, add.err)
    BY DuplicateNamed DEF add, step
  <2> QED
    BY <2>1, <2>2, <2>3, <2>4, <2>5, <2>6, AddOutcome
<1>2. ASSUME NEW s \in DOMAIN file.sectors, NEW name \in Names, NEW ok \in BOOLEAN,
             AddSection(s, name, ok)
      PROVE  Declared \/ Refused
  <2> DEFINE add  == mcfg_add_section(file, s, name, ok)
             sector == Step("sector", file.sectors[s].name)
             step == Step("section", remove_newline(name))
             taken == 1 + (1 - ArrayOf(file.sectors[s].sections))
             path == SectorPath(file, s)
  <2>1. phase = "open" /\ Outcome(add, <<sector, step>>, taken)
    BY <1>2 DEF AddSection
  <2>2. s \in 1 .. Len(file.sectors)
    BY <1>0, FileParts
  <2>3. add.err = "MCFG_OK" => /\ AllLists(add.file)
                               /\ \E N : Adds(file, add.file, path, step, N)
    BY <1>0, <2>2, AddSectionAdds, AddSectionLists
  <2>4. add.err # "MCFG_OK" => add.file = file
    BY <1>0, <2>2, AddSectionRefused
  <2>5. add.err \notin {"MCFG_OK", "fault", "MCFG_MALLOC_FAIL"} =>
           Append(path, step) \in Paths(Entries(file))
    BY <1>0, <2>2, SectionThere
  <2>6. path = <<sector>>
    BY DEF SectorPath
  <2> HIDE DEF add, sector, step, taken, path
  <2>7. Append(path, step) = <<sector, step>>
    BY <2>6, PathSteps
  <2>8. add.err \in DuplicateErrors => NamesTheDuplicate(<<sector, step>>, add.err)
    BY DuplicateNamed DEF add, step
  <2> QED
    BY <2>1, <2>3, <2>4, <2>5, <2>7, <2>8, AddOutcome
<1>3. ASSUME NEW s \in DOMAIN file.sectors, NEW t \in DOMAIN file.sectors[s].sections,
             NEW name \in Names, NEW value \in FieldData, NEW ok \in BOOLEAN,
             AddField(s, t, name, value, ok)
      PROVE  Declared \/ Refused
  <2> DEFINE add  == mcfg_add_field(file, s, t, value.type, name, value.data, ok)
             sector  == Step("sector", file.sectors[s].name)
             section == Step("section", file.sectors[s].sections[t].name)
             step == Step("field", remove_newline(name))
             taken == 1 + DataBlocks(value)
                      + (1 - ArrayOf(file.sectors[s].sections[t].fields))
             path == SectionPath(file, s, t)
  <2>1. phase = "open" /\ Outcome(add, <<sector, section, step>>, taken)
    BY <1>3 DEF AddField
  <2>2. s \in 1 .. Len(file.sectors) /\ t \in 1 .. Len(file.sectors[s].sections)
    BY <1>0, FileParts, SectorParts
  <2>3. /\ name \in Name /\ [type |-> value.type, data |-> value.data] \in Typed
        /\ WellListed([type |-> value.type, data |-> value.data])
    BY <1>0 DEF Typed, WellListed
  <2>4. add.err = "MCFG_OK" => AllLists(add.file)
    BY <1>0, <2>2, <2>3, AddFieldLists
  <2>5. add.err = "MCFG_OK" => \E N : Adds(file, add.file, path, step, N)
    BY <1>0, <2>2, <2>3, AddFieldAdds
  <2>6. add.err # "MCFG_OK" => add.file = file
    BY <1>0, <2>2, FieldRefused
  <2>7. add.err \notin {"MCFG_OK", "fault", "MCFG_MALLOC_FAIL"} =>
           Append(path, step) \in Paths(Entries(file))
    BY <1>0, <2>2, FieldThere
  <2>8. path = <<sector, section>>
    BY DEF SectionPath
  <2> HIDE DEF add, sector, section, step, taken, path
  <2>9. Append(path, step) = <<sector, section, step>>
    BY <2>8, PathSteps
  <2>10. add.err \in DuplicateErrors => NamesTheDuplicate(<<sector, section, step>>, add.err)
    BY DuplicateNamed DEF add, step
  <2> QED
    BY <2>1, <2>4, <2>5, <2>6, <2>7, <2>9, <2>10, AddOutcome
<1>4. ASSUME NEW name \in Names, NEW value \in FieldData, NEW ok \in BOOLEAN,
             AddDynfield(name, value, ok)
      PROVE  Declared \/ Refused
  <2> DEFINE add  == mcfg_add_dynfield(file, value.type, name, value.data, ok)
             step == Step("dynfield", remove_newline(name))
             taken == 1 + DataBlocks(value) + (1 - ArrayOf(file.dynfields))
  <2>1. phase = "open" /\ Outcome(add, <<step>>, taken)
    BY <1>4 DEF AddDynfield
  <2>2. /\ name \in Name /\ [type |-> value.type, data |-> value.data] \in Typed
        /\ WellListed([type |-> value.type, data |-> value.data])
    BY <1>0 DEF Typed, WellListed
  <2>3. add.err = "MCFG_OK" => /\ AllLists(add.file)
                               /\ \E N : Adds(file, add.file, << >>, step, N)
    BY <1>0, <2>2, AddDynfieldAdds, AddDynfieldLists
  <2>4. add.err # "MCFG_OK" => add.file = file
    BY <1>0, AddDynfieldRefused
  <2>5. add.err \notin {"MCFG_OK", "fault", "MCFG_MALLOC_FAIL"} =>
           Append(<< >>, step) \in Paths(Entries(file))
    BY <1>0, DynfieldThere
  <2> HIDE DEF add, step, taken
  <2>6. Append(<< >>, step) = <<step>>
    OBVIOUS
  <2>7. add.err \in DuplicateErrors => NamesTheDuplicate(<<step>>, add.err)
    BY DuplicateNamed DEF add, step
  <2> QED
    BY <2>1, <2>3, <2>4, <2>5, <2>6, <2>7, AddOutcome
<1>5. ASSUME NEW s \in DOMAIN file.sectors, NEW t \in DOMAIN file.sectors[s].sections,
             NEW i \in DOMAIN file.sectors[s].sections[t].fields,
             NEW data \in ElementData, NEW nameOk \in BOOLEAN, NEW ok \in BOOLEAN,
             AddListField(s, t, i, data, nameOk, ok)
      PROVE  Declared \/ Refused
  <2> DEFINE fields == file.sectors[s].sections[t].fields
             field  == fields[i]
             list   == field.data
             add    == mcfg_add_list_field(list, data, nameOk, ok)
             sector  == Step("sector", file.sectors[s].name)
             section == Step("section", file.sectors[s].sections[t].name)
             own  == Step("field", field.name)
             step == ElementStep(Len(list.elems) + 1)
             path == FieldPath(file, s, t, i)
  <2>1. /\ file' = [file EXCEPT !.sectors[s].sections[t].fields[i].data = add.list]
        /\ phase = "open"
        /\ field.type = "TYPE_LIST" /\ list # NULL
        /\ ret' = [path |-> <<sector, section, own, step>>, err |-> add.err]
        /\ phase' = IF add.err = "fault" THEN "crashed" ELSE phase
    BY <1>5 DEF AddListField
  <2>2. /\ s \in 1 .. Len(file.sectors) /\ t \in 1 .. Len(file.sectors[s].sections)
        /\ i \in 1 .. Len(file.sectors[s].sections[t].fields)
        /\ field \in Field /\ ListsOK(fields)
    <3>1. s \in 1 .. Len(file.sectors) /\ file.sectors[s] \in Sector
      BY <1>0, FileParts
    <3>2. t \in 1 .. Len(file.sectors[s].sections) /\ file.sectors[s].sections[t] \in Section
      BY <3>1, SectorParts
    <3> QED
      BY <3>1, <3>2, SectionParts DEF AllLists, SectorLists
  <2>3. IsList(field)
    <3>1. WellListed(field)
      BY <2>2 DEF ListsOK
    <3> QED
      BY <2>1, <3>1 DEF IsList
  <2>4. CASE add.err = "MCFG_OK"
    <3> DEFINE now == Longer(field, data)
    <3>1. data \in Scalar
      BY <1>0, <2>4 DEF mcfg_add_list_field
    <3>2. now = [field EXCEPT !.data = add.list]
      BY <2>4 DEF mcfg_add_list_field, Longer
    <3>3. ElementAdded(file, s, t, i, data)
      BY <1>0, <2>2, <2>3, <3>1, AddElementAdds
    <3>4. /\ Adds(file, [file EXCEPT !.sectors[s].sections[t].fields[i] = now],
                  path, step, {ElementEntry(path, now, Len(list.elems) + 1)})
          /\ WellListed(now)
      BY <3>3 DEF ElementAdded
    <3>5. file' = [file EXCEPT !.sectors[s].sections[t].fields[i]
                                  = [field EXCEPT !.data = add.list]]
      BY <2>1
    <3>6. path = <<sector, section, own>>
      BY DEF FieldPath
    <3> HIDE DEF now, field, add, path, sector, section, own, step
    <3>7. Append(path, step) = <<sector, section, own, step>>
      BY <3>6, PathOfElement
    <3>8. AllLists([file EXCEPT !.sectors[s].sections[t].fields[i] = now])
      BY <1>0, <2>2, <3>4, SetFieldLists
    <3> QED
      BY <2>1, <2>4, <3>2, <3>4, <3>5, <3>7, <3>8 DEF Declared
  <2>5. CASE add.err # "MCFG_OK"
    <3>1. add.list = list /\ add.err \notin DuplicateErrors
      BY <2>5 DEF mcfg_add_list_field, DuplicateErrors
    <3>2. [file EXCEPT !.sectors[s].sections[t].fields[i].data = list] = file
      BY <1>0, <2>2, SameData
    <3>3. file' = file
      BY <2>1, <3>1, <3>2
    <3> HIDE DEF add
    <3> QED
      BY <2>1, <2>5, <3>1, <3>3 DEF Refused
  <2> QED
    BY <2>4, <2>5
<1> QED
  BY <1>1, <1>2, <1>3, <1>4, <1>5 DEF Next
\* Counting is the same for the document and the namespace.
LEMMA SameCount == \A S : NS!Cardinality(S) = Cardinality(S)
BY DEF NS!Cardinality, Cardinality

\* A step that declares an entry grows the tree by it and what lies below it.
LEMMA DeclaredGrows ==
    ASSUME IsTree(file), Declared
    PROVE  /\ IsTree(file')
           /\ DOMAIN Tree(file) \subseteq DOMAIN Tree(file')
           /\ \A p \in DOMAIN Tree(file) : Tree(file')[p] = Tree(file)[p]
           /\ ret'.path \in DOMAIN Tree(file') \ DOMAIN Tree(file)
           /\ {p \in DOMAIN Tree(file') : IsPrefix(ret'.path, p)}
                = DOMAIN Tree(file') \ DOMAIN Tree(file)
<1>1. PICK path, step, N : Adds(file, file', path, step, N) /\ ret'.path = Append(path, step)
  BY DEF Declared
<1>2. /\ IsTree(file')
      /\ DOMAIN Tree(file') = DOMAIN Tree(file) \cup Paths(N)
      /\ \A p \in DOMAIN Tree(file) : Tree(file')[p] = Tree(file)[p] /\ p \notin Paths(N)
      /\ \A p \in DOMAIN Tree(file') : IsPrefix(Append(path, step), p) <=> p \in Paths(N)
      /\ Append(path, step) \in Paths(N)
  BY <1>1, TreeGrows
<1> QED
  BY <1>1, <1>2

\* The document stays a tree.
LEMMA TreeNext == Inv /\ TreeInv /\ [Next]_vars => TreeInv'
<1> SUFFICES ASSUME Inv, TreeInv, [Next]_vars PROVE TreeInv'
  OBVIOUS
<1>1. Declared \/ Refused \/ FreeFile \/ UNCHANGED vars
  BY StepOutcome DEF TreeInv
<1>2. CASE Declared
  BY <1>2, DeclaredGrows DEF TreeInv, Declared
<1>3. CASE file' = file
  BY <1>3 DEF TreeInv
<1>4. CASE file' = EmptyFile
  BY <1>4, EmptyTree DEF TreeInv
<1> QED
  BY <1>1, <1>2, <1>3, <1>4 DEF Refused, FreeFile, vars

\* It is one throughout every program.
LEMMA TreeHolds == Spec => [](Inv /\ TreeInv)
<1>1. Init => TreeInv
  BY EmptyTree DEF Init, TreeInv
<1> QED
  BY InitInv, NextInv, TreeNext, <1>1, PTL DEF Spec

\* Whatever calls a program makes and whichever allocations fail, every add
\* reports what happened: success for an entry that was new and is now in the
\* document with its elements and nothing else, a duplicate for an entry that
\* was there before, by the error that the header documents for its kind (not
\* for a section, mcfg.c:146), and any other error for a document left as it was.
THEOREM AddsReportTruth == Spec => AddReportsTruth
<1> DEFINE Truth == phase' = "open" =>
             LET before == DOMAIN Tree(file)
                 after  == DOMAIN Tree(file')
                 added  == {path \in after : IsPrefix(ret'.path, path)}
             IN  CASE ret'.err = "MCFG_OK" ->
                           /\ ret'.path \in after \ before
                           /\ added = after \ before
                   [] ret'.err \in DuplicateErrors ->
                           /\ ret'.path \in before /\ file' = file
                           /\ NamesTheDuplicate(ret'.path, ret'.err)
                   [] OTHER -> file' = file
<1>1. ASSUME Inv, TreeInv, [Next]_vars PROVE [Truth]_vars
  <2>1. Declared \/ Refused \/ FreeFile \/ UNCHANGED vars
    BY <1>1, StepOutcome DEF TreeInv
  <2>2. CASE Declared
    <3>1. ret'.err = "MCFG_OK" /\ ret'.err \notin DuplicateErrors
      BY <2>2 DEF Declared, DuplicateErrors
    <3>2. /\ ret'.path \in DOMAIN Tree(file') \ DOMAIN Tree(file)
          /\ {p \in DOMAIN Tree(file') : IsPrefix(ret'.path, p)}
               = DOMAIN Tree(file') \ DOMAIN Tree(file)
      BY <1>1, <2>2, DeclaredGrows DEF TreeInv
    <3> QED
      BY <3>1, <3>2
  <2>3. CASE Refused
    <3>1. DOMAIN Tree(file) = Paths(Entries(file))
      BY <1>1, TreeIs DEF TreeInv, IsTree
    <3> QED
      BY <2>3, <3>1 DEF Refused
  <2>4. CASE FreeFile
    BY <2>4 DEF FreeFile
  <2>5. CASE UNCHANGED vars
    BY <2>5
  <2> QED
    BY <2>1, <2>2, <2>3, <2>4, <2>5
<1>2. Inv /\ TreeInv /\ [Next]_vars => [Truth]_vars
  BY <1>1
<1> QED
  BY <1>2, TreeHolds, PTL DEF Spec, AddReportsTruth

\* Whatever calls a program makes and whichever allocations fail, the document
\* is a namespace: entries keep their paths and values until it is freed, a
\* child exists only below its parent, and every entry stored is reached by a
\* path of its own.
THEOREM DocumentIsNamespace == Spec => IsNamespace
<1>1. ASSUME Init PROVE NS!Init
  BY <1>1, EmptyTree DEF Init, NS!Init
<1>2. ASSUME Inv, TreeInv, [Next]_vars PROVE [NS!Declare \/ NS!Discard]_(NS!vars)
  <2>1. Declared \/ Refused \/ FreeFile \/ UNCHANGED vars
    BY <1>2, StepOutcome DEF TreeInv
  <2>2. CASE Declared
    <3>1. /\ IsTree(file')
          /\ DOMAIN Tree(file) \subseteq DOMAIN Tree(file')
          /\ \A p \in DOMAIN Tree(file) : Tree(file')[p] = Tree(file)[p]
      BY <1>2, <2>2, DeclaredGrows DEF TreeInv
    <3>2. DOMAIN Tree(file') = Paths(Entries(file'))
      BY <3>1, TreeIs DEF IsTree
    <3>3. /\ NS!PrefixClosed(DOMAIN Tree(file'))
          /\ EntryCount(file') = Cardinality(DOMAIN Tree(file'))
      BY <3>1, <3>2 DEF IsTree, Closed, NS!PrefixClosed, Front, NS!Front
    <3>4. (phase = "freed") = FALSE /\ (phase = "freed")' = (phase = "freed")
      BY <2>2 DEF Declared
    <3>5. NS!Declare
      BY <3>1, <3>3, <3>4, SameCount DEF NS!Declare
    <3> QED
      BY <3>5
  <2>3. CASE Refused
    BY <2>3 DEF Refused, NS!vars
  <2>4. CASE FreeFile
    <3>1. CASE phase' = "freed" /\ file' = EmptyFile
      BY <3>1, EmptyTree DEF NS!Discard
    <3>2. CASE phase' = "crashed" /\ file' = file
      BY <2>4, <3>2 DEF FreeFile, NS!vars
    <3> QED
      BY <2>4, <3>1, <3>2 DEF FreeFile
  <2>5. CASE UNCHANGED vars
    BY <2>5 DEF vars, NS!vars
  <2> QED
    BY <2>1, <2>2, <2>3, <2>4, <2>5
<1>3. Inv /\ TreeInv /\ [Next]_vars => [NS!Declare \/ NS!Discard]_(NS!vars)
  BY <1>2
<1> QED
  BY <1>1, <1>3, TreeHolds, PTL DEF Spec, IsNamespace, NS!Spec
=============================================================================
