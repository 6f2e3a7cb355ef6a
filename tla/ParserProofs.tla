---------------------------- MODULE ParserProofs ----------------------------
(* For every input that keeps the rules of parse.h and every failing         *)
(* allocation: the parser stays within its tokens, fills in a well typed     *)
(* document, and never indexes a sector or a section that is not there.      *)
EXTENDS Parser, CommonTheorems

\* Aligned alone is not inductive.  That a step finds a token where it looks
\* for one needs the shape of the input: the unassigned token is its last and
\* no other, so whatever token a step consumes another one follows.  Names are
\* unique because every add looks for the name first.
Inv ==
    /\ TypeOK
    /\ input \in Inputs
    /\ Aligned
    /\ NamesUnique

\* Every type that _token_to_type gives for a type token is one of a scalar.
LEMMA TokenTypes ==
    ASSUME NEW token \in TypeTokens
    PROVE  /\ _token_to_type(token) \in FieldTypes \ {"TYPE_LIST"}
           /\ _token_to_type(token) = "TYPE_STRING" <=> token = "TK_STR"
           /\ _token_to_type(token) = "TYPE_BOOL" <=> token = "TK_BOOL"
           /\ token \notin {"TK_STR", "TK_BOOL"} =>
                 /\ _type_to_literal_type(token) = "TK_NUMBER"
                 /\ mcfg_sizeof(_token_to_type(token)) \in {1, 2, 4}
BY DEF TypeTokens, _token_to_type, FieldTypes, _type_to_literal_type, mcfg_sizeof

\* A byte of an integer is in 0 .. 255, the integer negative or not.
LEMMA ByteType ==
    ASSUME NEW n \in Int, NEW k \in 1 .. 4
    PROVE  Byte(n, k) \in 0 .. 255
<1>1. Weight[k] \in {1, 256, 65536, 16777216}
  BY DEF Weight
<1>2. \A w \in {1, 256, 65536, 16777216} : n \div w \in Int
  OBVIOUS
<1>3. \A m \in Int : m % 256 \in 0 .. 255
  OBVIOUS
<1> QED
  BY <1>1, <1>2, <1>3 DEF Byte

\* What _parse_literal stores for a literal that it accepts is a scalar.
LEMMA LiteralType ==
    ASSUME TypeOK, NEW i \in DOMAIN input, NEW token \in TypeTokens,
           LiteralAt(i, token), HasText(i, token)
    PROVE  _parse_literal(i, token) \in Scalar
<1>1. input \in Seq(LexedToken) /\ input[i] \in LexedToken
  BY DEF TypeOK
<1>2. CASE token = "TK_STR"
  <2>1. input[i + 1] \in LexedToken /\ input[i + 1].token = "TK_STRING"
    BY <1>1, <1>2 DEF LiteralAt
  <2>2. input[i + 1].value \in [text : Texts]
    BY <2>1 DEF LexedToken
  <2> QED
    BY <1>2, <2>2, TokenTypes DEF _parse_literal, Scalar
<1>3. CASE token = "TK_BOOL"
  <2>1. <<IF input[i].value.truth THEN 1 ELSE 0>> \in Seq(0 .. 255)
    OBVIOUS
  <2>2. [bytes |-> <<IF input[i].value.truth THEN 1 ELSE 0>>] \in [bytes : Seq(0 .. 255)]
    BY <2>1
  <2> QED
    BY <1>3, <2>2, TokenTypes DEF _parse_literal, Scalar
<1>4. CASE token \notin {"TK_STR", "TK_BOOL"}
  <2> DEFINE size  == mcfg_sizeof(_token_to_type(token))
             n     == input[i].value.number
             bytes == [k \in 1 .. size |-> Byte(n, k)]
  <2>1. input[i].token = "TK_NUMBER"
    BY <1>4, TokenTypes DEF LiteralAt
  <2>2. n \in Int
    BY <1>1, <2>1 DEF LexedToken
  <2>3. size \in {1, 2, 4}
    BY <1>4, TokenTypes
  <2> HIDE DEF size, n
  <2>4. \A k \in 1 .. size : Byte(n, k) \in 0 .. 255
    BY <2>2, <2>3, ByteType
  <2>5. bytes \in Seq(0 .. 255)
    BY <2>3, <2>4
  <2>6. _parse_literal(i, token) = [bytes |-> bytes]
    BY <1>4, TokenTypes DEF _parse_literal, size, n
  <2> QED
    BY <2>5, <2>6 DEF Scalar
<1> QED
  BY <1>2, <1>3, <1>4

-----------------------------------------------------------------------------
(* Staying within the tokens.                                                *)

\* A token other than TK_UNASSIGNED_TOKEN is not the last one.
LEMMA AnotherFollows ==
    ASSUME Inv, NEW i \in DOMAIN input, input[i].token # "TK_UNASSIGNED_TOKEN"
    PROVE  i + 1 \in DOMAIN input
<1>1. i # Len(input) /\ input \in Seq(LexedToken)
  BY ParserAssumption DEF Inv, TypeOK
<1> QED
  BY <1>1

\* The copy of a name is a name, or NULL; the token behind a name exists.
LEMMA NameType ==
    ASSUME Inv, NEW i \in DOMAIN input, NameAt(i), NEW ok
    PROVE  strdup(i, ok) \in Name \cup {NULL} /\ i + 1 \in DOMAIN input
<1>1. input \in Seq(LexedToken) /\ input[i] \in LexedToken /\ Len(input) \in Nat
  BY DEF Inv, TypeOK
<1>2. input[i].value \in [base : Bases, newlines : {0}]
  BY <1>1 DEF NameAt, LexedToken
<1>3. input[i].value \in Name
  BY <1>2 DEF Name
<1> QED
  BY <1>1, <1>3 DEF strdup, NameAt

\* Behind a literal that is accepted there is another token.
LEMMA LiteralFits ==
    ASSUME Inv, NEW i \in DOMAIN input, NEW token \in TypeTokens, LiteralAt(i, token)
    PROVE  i + LiteralLen(token) \in DOMAIN input
<1>1. input \in Seq(LexedToken) /\ i \in 1 .. Len(input) /\ Len(input) \in Nat
  BY DEF Inv, TypeOK
<1>2. CASE token = "TK_STR"
  <2>1. i + 2 \in DOMAIN input /\ input[i + 2].token = "TK_QUOTE"
    BY <1>1, <1>2 DEF LiteralAt
  <2>2. (i + 2) + 1 \in DOMAIN input
    BY <2>1, AnotherFollows
  <2> QED
    BY <1>1, <1>2, <2>2 DEF LiteralLen
<1>3. CASE token # "TK_STR"
  <2>1. input[i].token = _type_to_literal_type(token)
    BY <1>3 DEF LiteralAt
  <2>2. input[i].token # "TK_UNASSIGNED_TOKEN"
    BY <2>1 DEF TypeTokens, _type_to_literal_type
  <2> QED
    BY <1>3, <2>2, AnotherFollows DEF LiteralLen
<1> QED
  BY <1>2, <1>3

-----------------------------------------------------------------------------
(* How a handler ends.                                                       *)

\* Allocations counts those that fail.
LEMMA FailsType ==
    ASSUME fails \in 0 .. MaxFails, NEW n \in Nat, NEW oks, DOMAIN oks = 1 .. n,
           Allocations(oks)
    PROVE  fails' \in 0 .. MaxFails
<1> DEFINE failed == {i \in DOMAIN oks : ~oks[i]}
<1>1. IsFiniteSet(1 .. n)
  BY FS_Interval
<1>2. failed \subseteq 1 .. n
  OBVIOUS
<1>3. Cardinality(failed) \in Nat
  BY <1>1, <1>2, FS_Subset, FS_CardinalityType
<1> QED
  BY <1>3, ParserAssumption DEF Allocations

\* An error leaves the document as it is.
LEMMA ReturnInv ==
    ASSUME Inv, pc \in {"tree", "literal", "comma"}, fails' \in 0 .. MaxFails,
           NEW e \in Errors, NEW at \in DOMAIN input, Return(e, at)
    PROVE  Inv'
<1>1. TypeOK'
  BY DEF Inv, TypeOK, Return, Control
<1>2. Aligned'
  BY DEF Inv, Aligned, HasFile, Return, LastSector
<1>3. NamesUnique' /\ input' \in Inputs
  BY DEF Inv, NamesUnique, Return
<1> QED
  BY <1>1, <1>2, <1>3 DEF Inv

\* So does a crash.
LEMMA CrashInv ==
    ASSUME Inv, pc \in {"tree", "literal", "comma"}, fails' \in 0 .. MaxFails, Crash
    PROVE  Inv'
<1>1. TypeOK'
  BY DEF Inv, TypeOK, Crash, Control
<1>2. Aligned'
  BY DEF Inv, Aligned, HasFile, Crash, LastSector
<1>3. NamesUnique' /\ input' \in Inputs
  BY DEF Inv, NamesUnique, Crash
<1> QED
  BY <1>1, <1>2, <1>3 DEF Inv

\* A document that has a place for the state the parser is in.
HasPlace(f, state) ==
    /\ state # "PTS_IDLE" => f.sectors # << >>
    /\ state = "PTS_IN_SECTION" => f.sectors[Len(f.sectors)].sections # << >>

\* An add that succeeds keeps the invariant if it keeps that of the document.
LEMMA AcceptedInv ==
    ASSUME Inv, fails' \in 0 .. MaxFails, errAt' \in DOMAIN input,
           NEW add, NEW next \in DOMAIN input, NEW blocks,
           NEW state \in {"PTS_IDLE", "PTS_IN_SECTOR", "PTS_IN_SECTION"},
           add.file \in File, AllNamesUnique(add.file), HasPlace(add.file, state),
           Accepted(add, next, state, blocks)
    PROVE  Inv'
<1>1. /\ file' = add.file /\ cur' = next /\ pts' = state /\ pc' = "tree"
      /\ list' = NULL /\ UNCHANGED <<input, err>>
  BY DEF Accepted
<1>2. TypeOK'
  BY <1>1 DEF Inv, TypeOK, Control
<1>3. Aligned'
  BY <1>1 DEF Aligned, HasFile, HasPlace, LastSector
<1>4. NamesUnique' /\ input' \in Inputs
  BY <1>1 DEF Inv, NamesUnique
<1> QED
  BY <1>2, <1>3, <1>4 DEF Inv

\* An add that does not succeed keeps it, whatever the add reports.
LEMMA RefusedInv ==
    ASSUME Inv, pc \in {"tree", "literal", "comma"}, fails' \in 0 .. MaxFails,
           NEW add, add.err \in Errors \cup {"fault"},
           NEW at \in DOMAIN input, NEW blocks, Refused(add, at, blocks)
    PROVE  Inv'
BY ReturnInv, CrashInv DEF Refused

-----------------------------------------------------------------------------
(* The place of a new entry: the last sector, and its last section.          *)

\* Where there is a place, its indices are in the arrays.
LEMMA PlaceIndices ==
    ASSUME NEW f \in File, NEW state, HasPlace(f, state)
    PROVE  /\ state # "PTS_IDLE" => Len(f.sectors) \in DOMAIN f.sectors
           /\ state = "PTS_IN_SECTION" =>
                 Len(f.sectors[Len(f.sectors)].sections)
                   \in DOMAIN f.sectors[Len(f.sectors)].sections
<1>1. f.sectors \in Seq(Sector)
  BY DEF File
<1>2. state # "PTS_IDLE" => Len(f.sectors) \in DOMAIN f.sectors
  BY <1>1 DEF HasPlace
<1>3. ASSUME state = "PTS_IN_SECTION"
      PROVE  f.sectors[Len(f.sectors)].sections \in Seq(Section)
  BY <1>2, <1>3, FileParts, SectorParts
<1> QED
  BY <1>2, <1>3 DEF HasPlace

\* The errors an add may return.
LEMMA AddErrors ==
    ASSUME NEW seq, NEW item, NEW duplicate, NEW arrayOk
    PROVE  AddNamed(seq, item, duplicate, arrayOk).err
             \in {"fault", "MCFG_MALLOC_FAIL", "MCFG_OK", duplicate}
BY DEF AddNamed

\* A sector that has been added is there.
LEMMA AddSectorPlace ==
    ASSUME NEW f \in File, NEW name, NEW arrayOk,
           mcfg_add_sector(f, name, arrayOk).err = "MCFG_OK"
    PROVE  HasPlace(mcfg_add_sector(f, name, arrayOk).file, "PTS_IN_SECTOR")
<1> DEFINE item == [name |-> name, sections |-> << >>]
           new  == [item EXCEPT !.name = remove_newline(item.name)]
           g    == mcfg_add_sector(f, name, arrayOk).file
<1>1. f.sectors \in Seq(Sector)
  BY DEF File
<1>2. mcfg_add_sector(f, name, arrayOk).err
        = AddNamed(f.sectors, item, "MCFG_DUPLICATE_SECTOR", arrayOk).err
  BY DEF mcfg_add_sector
<1>3. AddNamed(f.sectors, item, "MCFG_DUPLICATE_SECTOR", arrayOk).seq
        = Append(f.sectors, new)
  BY <1>2 DEF AddNamed
<1>4. g.sectors = Append(f.sectors, new)
  BY <1>3 DEF mcfg_add_sector, File
<1>5. Append(f.sectors, new) # << >>
  BY <1>1
<1> QED
  BY <1>4, <1>5 DEF HasPlace

\* A section that has been added to the last sector is in it.
LEMMA AddSectionPlace ==
    ASSUME NEW f \in File, HasPlace(f, "PTS_IN_SECTOR"), NEW name, NEW arrayOk,
           mcfg_add_section(f, Len(f.sectors), name, arrayOk).err = "MCFG_OK"
    PROVE  HasPlace(mcfg_add_section(f, Len(f.sectors), name, arrayOk).file,
                    "PTS_IN_SECTION")
<1> DEFINE s    == Len(f.sectors)
           item == [name |-> name, fields |-> << >>]
           new  == [item EXCEPT !.name = remove_newline(item.name)]
           r    == Append(f.sectors[s].sections, new)
           g    == mcfg_add_section(f, s, name, arrayOk).file
<1>1. s \in DOMAIN f.sectors /\ f.sectors \in Seq(Sector)
  BY PlaceIndices DEF File
<1>2. f.sectors[s] \in Sector /\ f.sectors[s].sections \in Seq(Section)
  BY <1>1, FileParts, SectorParts
<1>3. mcfg_add_section(f, s, name, arrayOk).err
        = AddNamed(f.sectors[s].sections, item, "MCFG_DUPLICATE_FIELD", arrayOk).err
  BY DEF mcfg_add_section
<1>4. AddNamed(f.sectors[s].sections, item, "MCFG_DUPLICATE_FIELD", arrayOk).seq = r
  BY <1>3 DEF AddNamed
<1>5. g = [f EXCEPT !.sectors[s].sections = r]
  BY <1>4 DEF mcfg_add_section
<1>6. Len(g.sectors) = s /\ g.sectors # << >> /\ g.sectors[s].sections = r
  BY <1>1, <1>2, <1>5 DEF File, Sector
<1>7. r # << >>
  BY <1>2
<1> QED
  BY <1>6, <1>7 DEF HasPlace

\* A new field takes no sector and no section away.
LEMMA AddFieldPlace ==
    ASSUME NEW f \in File, HasPlace(f, "PTS_IN_SECTION"), NEW type, NEW name,
           NEW data, NEW arrayOk
    PROVE  LET s == Len(f.sectors)
               t == Len(f.sectors[s].sections)
           IN  HasPlace(mcfg_add_field(f, s, t, type, name, data, arrayOk).file,
                        "PTS_IN_SECTION")
<1> DEFINE s    == Len(f.sectors)
           t    == Len(f.sectors[s].sections)
           r    == AddNamed(f.sectors[s].sections[t].fields,
                            [name |-> name, type |-> type, data |-> data],
                            "MCFG_DUPLICATE_FIELD", arrayOk).seq
           g    == mcfg_add_field(f, s, t, type, name, data, arrayOk).file
<1>1. s \in DOMAIN f.sectors /\ t \in DOMAIN f.sectors[s].sections
      /\ f.sectors \in Seq(Sector)
  BY PlaceIndices DEF File
<1>2. f.sectors[s] \in Sector /\ f.sectors[s].sections \in Seq(Section)
  BY <1>1, FileParts, SectorParts
<1>3. g = [f EXCEPT !.sectors[s].sections[t].fields = r]
  BY DEF mcfg_add_field
<1> HIDE DEF r
<1>4. /\ Len(g.sectors) = s /\ g.sectors # << >>
      /\ Len(g.sectors[s].sections) = t /\ g.sectors[s].sections # << >>
  BY <1>1, <1>2, <1>3 DEF File, Sector
<1> QED
  BY <1>4 DEF HasPlace

-----------------------------------------------------------------------------
(* The steps, one lemma per action that can disturb the invariant.           *)

\* What the invariant says about the file, in the words of HasPlace.
LEMMA Placed ==
    ASSUME Inv, pc \in {"tree", "literal", "comma"}
    PROVE  /\ file \in File /\ AllNamesUnique(file) /\ HasPlace(file, pts)
           /\ pc \in {"literal", "comma"} => pts = "PTS_IN_SECTION" /\ list # NULL
           /\ fails \in 0 .. MaxFails /\ cur \in DOMAIN input /\ errAt \in DOMAIN input
BY DEF Inv, TypeOK, Aligned, NamesUnique, HasFile, HasPlace, LastSector

\* An error without an allocation.
LEMMA FailInv ==
    ASSUME Inv, pc = "tree", NEW e \in Errors, Fail(e)
    PROVE  Inv'
<1>1. Return(e, cur) /\ fails' \in 0 .. MaxFails /\ cur \in DOMAIN input
  BY Placed DEF Fail
<1> QED
  BY <1>1, ReturnInv

\* The head of a sector,
LEMMA SectorStep == Inv /\ ParseSector => Inv'
<1> SUFFICES ASSUME Inv, ParseSector PROVE Inv'
  OBVIOUS
<1>1. pc = "tree" /\ input[cur].token = "TK_SECTOR" /\ cur + 1 \in DOMAIN input
  <2>1. pc = "tree" /\ input[cur].token = "TK_SECTOR"
    BY DEF ParseSector, At
  <2> QED
    BY <2>1, Placed, AnotherFollows
<1>2. ASSUME NEW e \in {"MCFG_STRUCTURE_ERROR", "MCFG_SYNTAX_ERROR"}, Fail(e)
      PROVE  Inv'
  BY <1>1, <1>2, FailInv DEF Errors
<1>3. ASSUME NEW nameOk \in BOOLEAN, NEW arrayOk \in BOOLEAN, NameAt(cur + 1),
             LET add == mcfg_add_sector(file, strdup(cur + 1, nameOk), arrayOk)
             IN  /\ Allocations(<<nameOk, arrayOk>>)
                 /\ \/ /\ Accepted(add, cur + 2, "PTS_IN_SECTOR",
                                   One(nameOk) + FirstIn(file.sectors))
                       /\ UNCHANGED errAt
                    \/ Refused(add, cur, One(nameOk))
      PROVE  Inv'
  <2> DEFINE name == strdup(cur + 1, nameOk)
             add  == mcfg_add_sector(file, name, arrayOk)
  <2>1. name \in Name \cup {NULL} /\ cur + 2 \in DOMAIN input
    <3>1. (cur + 1) + 1 \in DOMAIN input /\ name \in Name \cup {NULL}
      BY <1>1, <1>3, NameType
    <3> QED
      BY <3>1, <1>1 DEF Inv, TypeOK
  <2>2. fails' \in 0 .. MaxFails
    <3>1. DOMAIN <<nameOk, arrayOk>> = 1 .. 2
      OBVIOUS
    <3>2. Allocations(<<nameOk, arrayOk>>)
      BY <1>3
    <3> QED
      BY <1>1, <3>1, <3>2, Placed, FailsType
  <2>3. add.file \in File /\ AllNamesUnique(add.file)
    BY <1>1, <2>1, Placed, AddSectorKeeps
  <2>4. add.err \in Errors \cup {"fault"}
    BY AddErrors DEF mcfg_add_sector, Errors
  <2>5. add.err = "MCFG_OK" => HasPlace(add.file, "PTS_IN_SECTOR")
    BY <1>1, Placed, AddSectorPlace
  <2> HIDE DEF add
  <2>6. CASE /\ Accepted(add, cur + 2, "PTS_IN_SECTOR",
                         One(nameOk) + FirstIn(file.sectors))
             /\ UNCHANGED errAt
    <3>1. HasPlace(add.file, "PTS_IN_SECTOR") /\ errAt' \in DOMAIN input
      BY <1>1, <2>5, <2>6, Placed DEF Accepted
    <3> QED
      BY <2>1, <2>2, <2>3, <2>6, <3>1, AcceptedInv
  <2>7. CASE Refused(add, cur, One(nameOk))
    BY <1>1, <2>2, <2>4, <2>7, Placed, RefusedInv
  <2> QED
    BY <1>3, <2>6, <2>7 DEF add
<1> QED
  BY <1>2, <1>3 DEF ParseSector

\* the head of a section,
LEMMA SectionStep == Inv /\ ParseSection => Inv'
<1> SUFFICES ASSUME Inv, ParseSection PROVE Inv'
  OBVIOUS
<1>1. pc = "tree" /\ input[cur].token = "TK_SECTION" /\ cur + 1 \in DOMAIN input
  <2>1. pc = "tree" /\ input[cur].token = "TK_SECTION"
    BY DEF ParseSection, At
  <2> QED
    BY <2>1, Placed, AnotherFollows
<1>2. ASSUME NEW e \in {"MCFG_STRUCTURE_ERROR", "MCFG_SYNTAX_ERROR"}, Fail(e)
      PROVE  Inv'
  BY <1>1, <1>2, FailInv DEF Errors
<1>3. ASSUME NEW nameOk \in BOOLEAN, NEW arrayOk \in BOOLEAN,
             pts = "PTS_IN_SECTOR", NameAt(cur + 1),
             LET add == mcfg_add_section(file, LastSector,
                                         strdup(cur + 1, nameOk), arrayOk)
             IN  /\ Allocations(<<nameOk, arrayOk>>)
                 /\ \/ /\ Accepted(add, cur + 2, "PTS_IN_SECTION", One(nameOk)
                                   + FirstIn(file.sectors[LastSector].sections))
                       /\ UNCHANGED errAt
                    \/ Refused(add, cur, One(nameOk))
      PROVE  Inv'
  <2> DEFINE name   == strdup(cur + 1, nameOk)
             add    == mcfg_add_section(file, LastSector, name, arrayOk)
             blocks == One(nameOk) + FirstIn(file.sectors[LastSector].sections)
  <2>1. name \in Name \cup {NULL} /\ cur + 2 \in DOMAIN input
    <3>1. (cur + 1) + 1 \in DOMAIN input /\ name \in Name \cup {NULL}
      BY <1>1, <1>3, NameType
    <3> QED
      BY <3>1, <1>1 DEF Inv, TypeOK
  <2>2. fails' \in 0 .. MaxFails
    <3>1. DOMAIN <<nameOk, arrayOk>> = 1 .. 2
      OBVIOUS
    <3>2. Allocations(<<nameOk, arrayOk>>)
      BY <1>3
    <3> QED
      BY <1>1, <3>1, <3>2, Placed, FailsType
  <2>3. HasPlace(file, "PTS_IN_SECTOR") /\ file \in File /\ AllNamesUnique(file)
    BY <1>1, <1>3, Placed
  <2>4. LastSector \in DOMAIN file.sectors
    BY <2>3, PlaceIndices DEF LastSector
  <2>5. add.file \in File /\ AllNamesUnique(add.file)
    BY <2>1, <2>3, <2>4, AddSectionKeeps
  <2>6. add.err \in Errors \cup {"fault"}
    BY AddErrors DEF mcfg_add_section, Errors
  <2>7. add.err = "MCFG_OK" => HasPlace(add.file, "PTS_IN_SECTION")
    BY <2>3, AddSectionPlace DEF LastSector
  <2> HIDE DEF add, blocks
  <2>8. CASE Accepted(add, cur + 2, "PTS_IN_SECTION", blocks) /\ UNCHANGED errAt
    <3>1. HasPlace(add.file, "PTS_IN_SECTION") /\ errAt' \in DOMAIN input
      BY <1>1, <2>7, <2>8, Placed DEF Accepted
    <3> QED
      BY <2>1, <2>2, <2>5, <2>8, <3>1, AcceptedInv
  <2>9. CASE Refused(add, cur, One(nameOk))
    BY <1>1, <2>2, <2>6, <2>9, Placed, RefusedInv
  <2> QED
    BY <1>3, <2>8, <2>9 DEF add, blocks
<1> QED
  BY <1>2, <1>3 DEF ParseSection

\* an end,
LEMMA EndStep == Inv /\ ParseEnd => Inv'
<1> SUFFICES ASSUME Inv, ParseEnd PROVE Inv'
  OBVIOUS
<1>1. pc = "tree" /\ input[cur].token = "TK_END" /\ cur + 1 \in DOMAIN input
  <2>1. pc = "tree" /\ input[cur].token = "TK_END"
    BY DEF ParseEnd, At
  <2> QED
    BY <2>1, Placed, AnotherFollows
<1>2. CASE Fail("MCFG_END_IN_NOWHERE")
  BY <1>1, <1>2, FailInv DEF Errors
<1>3. CASE /\ pts # "PTS_IDLE"
           /\ pts' = Enclosing(pts)
           /\ cur' = cur + 1
           /\ UNCHANGED <<input, pc, list, file, err, errAt, live, fails>>
  <2>1. TypeOK'
    BY <1>1, <1>3 DEF Inv, TypeOK, Enclosing
  <2>2. Aligned'
    BY <1>1, <1>3 DEF Inv, Aligned, HasFile, LastSector, Enclosing
  <2> QED
    BY <1>3, <2>1, <2>2 DEF Inv, NamesUnique
<1> QED
  BY <1>2, <1>3 DEF ParseEnd

\* What a field or a list adds to the last section.
LEMMA FieldAdded ==
    ASSUME Inv, pc \in {"tree", "literal", "comma"}, pts = "PTS_IN_SECTION",
           NEW type, NEW data, [type |-> type, data |-> data] \in Typed,
           NEW name \in Name \cup {NULL}, NEW arrayOk
    PROVE  LET add == mcfg_add_field(file, LastSector, LastSection, type, name,
                                     data, arrayOk)
           IN  /\ add.file \in File /\ AllNamesUnique(add.file)
               /\ HasPlace(add.file, "PTS_IN_SECTION")
               /\ add.err \in Errors \cup {"fault"}
<1> DEFINE add == mcfg_add_field(file, LastSector, LastSection, type, name, data, arrayOk)
<1>1. file \in File /\ AllNamesUnique(file) /\ HasPlace(file, "PTS_IN_SECTION")
  BY Placed
<1>2. LastSector \in DOMAIN file.sectors
      /\ LastSection \in DOMAIN file.sectors[LastSector].sections
  BY <1>1, PlaceIndices DEF LastSector, LastSection
<1>3. add.file \in File /\ AllNamesUnique(add.file)
  BY <1>1, <1>2, AddFieldKeeps
<1>4. HasPlace(add.file, "PTS_IN_SECTION")
  BY <1>1, AddFieldPlace DEF LastSector, LastSection
<1>5. add.err \in Errors \cup {"fault"}
  BY AddErrors DEF mcfg_add_field, Errors
<1> QED
  BY <1>3, <1>4, <1>5

\* a field, its name and its literal,
LEMMA FieldStep == Inv /\ ParseField => Inv'
<1> SUFFICES ASSUME Inv, ParseField PROVE Inv'
  OBVIOUS
<1> DEFINE token == input[cur].token
<1>1. pc = "tree" /\ token \in TypeTokens /\ cur \in DOMAIN input
      /\ cur + 1 \in DOMAIN input
  <2>1. pc = "tree" /\ token \in TypeTokens
    BY DEF ParseField
  <2>2. token # "TK_UNASSIGNED_TOKEN"
    BY <2>1 DEF TypeTokens
  <2> QED
    BY <2>1, <2>2, Placed, AnotherFollows
<1>2. ASSUME NEW e \in {"MCFG_STRUCTURE_ERROR", "MCFG_SYNTAX_ERROR"}, Fail(e)
      PROVE  Inv'
  BY <1>1, <1>2, FailInv DEF Errors
<1>3. ASSUME NEW nameOk \in BOOLEAN, NEW e \in {"MCFG_SYNTAX_ERROR", "MCFG_INVALID_TYPE"},
             Allocations(<<nameOk>>), Return(e, cur)
      PROVE  Inv'
  <2>1. DOMAIN <<nameOk>> = 1 .. 1
    OBVIOUS
  <2>2. fails' \in 0 .. MaxFails
    BY <1>1, <1>3, <2>1, Placed, FailsType
  <2>3. e \in Errors
    BY DEF Errors
  <2> QED
    BY <1>1, <1>3, <2>2, <2>3, ReturnInv
<1>4. ASSUME pts = "PTS_IN_SECTION", NameAt(cur + 1), LiteralAt(cur + 2, token),
             HasText(cur + 2, token), FieldValueOf(token)
      PROVE  Inv'
  <2>1. cur + 2 \in DOMAIN input
    <3>1. (cur + 1) + 1 \in DOMAIN input
      BY <1>1, <1>4, NameType
    <3> QED
      BY <1>1, <3>1 DEF Inv, TypeOK
  <2>2. _parse_literal(cur + 2, token) \in Scalar
    BY <1>1, <1>4, <2>1, LiteralType DEF Inv
  <2>3. cur + 2 + LiteralLen(token) \in DOMAIN input
    BY <1>1, <1>4, <2>1, LiteralFits
  <2>4. ASSUME NEW nameOk \in BOOLEAN, NEW valueOk \in BOOLEAN, NEW arrayOk \in BOOLEAN,
               LET data == IF valueOk THEN _parse_literal(cur + 2, token) ELSE NULL
                   add  == mcfg_add_field(file, LastSector, LastSection,
                                          _token_to_type(token), strdup(cur + 1, nameOk),
                                          data, arrayOk)
               IN  /\ Allocations(<<nameOk, valueOk, arrayOk>>)
                   /\ \/ Return("MCFG_MALLOC_FAIL", cur)
                      \/ /\ Accepted(add, cur + 2 + LiteralLen(token), pts,
                                     One(nameOk) + One(valueOk) + FirstIn(FieldArray))
                         /\ errAt' = cur
                      \/ Refused(add, cur, One(nameOk))
        PROVE  Inv'
    <3> DEFINE data   == IF valueOk THEN _parse_literal(cur + 2, token) ELSE NULL
               name   == strdup(cur + 1, nameOk)
               type   == _token_to_type(token)
               add    == mcfg_add_field(file, LastSector, LastSection, type, name,
                                        data, arrayOk)
               blocks == One(nameOk) + One(valueOk) + FirstIn(FieldArray)
    <3>1. fails' \in 0 .. MaxFails
      <4>1. DOMAIN <<nameOk, valueOk, arrayOk>> = 1 .. 3
        OBVIOUS
      <4>2. Allocations(<<nameOk, valueOk, arrayOk>>)
        BY <2>4
      <4> QED
        BY <1>1, <4>1, <4>2, Placed, FailsType
    <3>2. [type |-> type, data |-> data] \in Typed
      BY <1>1, <2>2, TokenTypes DEF Typed
    <3>3. name \in Name \cup {NULL}
      BY <1>1, <1>4, NameType
    <3>4. /\ add.file \in File /\ AllNamesUnique(add.file)
          /\ HasPlace(add.file, "PTS_IN_SECTION")
          /\ add.err \in Errors \cup {"fault"}
      BY <1>1, <1>4, <3>2, <3>3, FieldAdded
    <3> HIDE DEF add, blocks
    <3>5. CASE Return("MCFG_MALLOC_FAIL", cur)
      BY <1>1, <3>1, <3>5, ReturnInv DEF Errors
    <3>6. CASE Accepted(add, cur + 2 + LiteralLen(token), pts, blocks) /\ errAt' = cur
      BY <1>1, <1>4, <2>3, <3>1, <3>4, <3>6, AcceptedInv
    <3>7. CASE Refused(add, cur, One(nameOk))
      BY <1>1, <3>1, <3>4, <3>7, RefusedInv
    <3> QED
      BY <2>4, <3>5, <3>6, <3>7 DEF add, blocks
  <2> QED
    BY <1>4, <2>4 DEF FieldValueOf
<1> QED
  BY <1>2, <1>3, <1>4 DEF ParseField

\* and the head of a list keep the invariant.
LEMMA ListStep == Inv /\ ParseList => Inv'
<1> SUFFICES ASSUME Inv, ParseList PROVE Inv'
  OBVIOUS
<1> DEFINE token == input[cur + 1].token
<1>1. pc = "tree" /\ cur \in DOMAIN input /\ cur + 1 \in DOMAIN input
  <2>1. pc = "tree" /\ input[cur].token = "TK_LIST"
    BY DEF ParseList, At
  <2> QED
    BY <2>1, Placed, AnotherFollows
<1>2. ASSUME NEW e \in {"MCFG_STRUCTURE_ERROR", "MCFG_SYNTAX_ERROR", "MCFG_INVALID_TYPE"},
             Fail(e)
      PROVE  Inv'
  BY <1>1, <1>2, FailInv DEF Errors
<1>3. ASSUME pts = "PTS_IN_SECTION", token \in TypeTokens, NameAt(cur + 2),
             NEW nameOk \in BOOLEAN, NEW listOk \in BOOLEAN,
             Allocations(<<nameOk, listOk>>),
             \/ Return("MCFG_MALLOC_FAIL", cur)
             \/ /\ pc' = "literal"
                /\ cur' = cur + 3
                /\ errAt' = cur
                /\ list' = [name  |-> strdup(cur + 2, nameOk),
                            token |-> token,
                            list  |-> [type |-> _token_to_type(token), elems |-> << >>]]
                /\ UNCHANGED <<input, pts, file, err>>
      PROVE  Inv'
  <2>1. fails' \in 0 .. MaxFails
    <3>1. DOMAIN <<nameOk, listOk>> = 1 .. 2
      OBVIOUS
    <3> QED
      BY <1>1, <1>3, <3>1, Placed, FailsType
  <2>2. CASE Return("MCFG_MALLOC_FAIL", cur)
    BY <1>1, <2>1, <2>2, ReturnInv DEF Errors
  <2>3. CASE /\ pc' = "literal"
             /\ cur' = cur + 3
             /\ errAt' = cur
             /\ list' = [name  |-> strdup(cur + 2, nameOk),
                         token |-> token,
                         list  |-> [type |-> _token_to_type(token), elems |-> << >>]]
             /\ UNCHANGED <<input, pts, file, err>>
    <3>1. cur + 2 \in DOMAIN input
      <4>1. token # "TK_UNASSIGNED_TOKEN"
        BY <1>3 DEF TypeTokens
      <4>2. (cur + 1) + 1 \in DOMAIN input
        BY <1>1, <4>1, AnotherFollows
      <4> QED
        BY <1>1, <4>2 DEF Inv, TypeOK
    <3>2. cur + 3 \in DOMAIN input /\ strdup(cur + 2, nameOk) \in Name \cup {NULL}
      <4>1. (cur + 2) + 1 \in DOMAIN input
            /\ strdup(cur + 2, nameOk) \in Name \cup {NULL}
        BY <1>3, <3>1, NameType
      <4> QED
        BY <1>1, <4>1 DEF Inv, TypeOK
    <3>3. list' \in ListRecord
      <4>1. << >> \in Seq(Element) /\ _token_to_type(token) \in FieldTypes
        BY <1>3, TokenTypes
      <4>2. [type |-> _token_to_type(token), elems |-> << >>] \in List
        BY <4>1 DEF List
      <4> QED
        BY <1>3, <2>3, <3>2, <4>2 DEF ListRecord
    <3>4. TypeOK'
      BY <1>1, <2>1, <2>3, <3>2, <3>3 DEF Inv, TypeOK, Control
    <3>5. Aligned'
      <4>1. list' # NULL
        BY <3>3, ParserAssumption
      <4> QED
        BY <1>1, <1>3, <2>3, <4>1 DEF Inv, Aligned, HasFile, LastSector
    <3> QED
      BY <2>3, <3>4, <3>5 DEF Inv, NamesUnique
  <2> QED
    BY <1>3, <2>2, <2>3
<1> QED
  BY <1>2, <1>3 DEF ParseList

\* In the loop of a list there is a list, and the file has a section for it.
LEMMA Building ==
    ASSUME Inv, pc \in {"literal", "comma"}
    PROVE  /\ list \in ListRecord /\ pts = "PTS_IN_SECTION"
           /\ list.list \in List /\ list.token \in TypeTokens
           /\ list.name \in Name \cup {NULL}
<1>1. list # NULL /\ pts = "PTS_IN_SECTION"
  BY Placed
<1>2. list \in ListRecord
  BY <1>1 DEF Inv, TypeOK
<1> QED
  BY <1>1, <1>2 DEF ListRecord

\* The list is dropped, or freeing it crashes.
LEMMA DropInv ==
    ASSUME Inv, pc \in {"literal", "comma"}, fails' \in 0 .. MaxFails,
           NEW e \in Errors, NEW at \in DOMAIN input, DropList(e, at)
    PROVE  Inv'
BY ReturnInv, CrashInv DEF DropList

\* A literal of a list,
LEMMA LiteralStep == Inv /\ ListLiteral => Inv'
<1> SUFFICES ASSUME Inv, ListLiteral PROVE Inv'
  OBVIOUS
<1>1. /\ pc = "literal" /\ cur \in DOMAIN input /\ fails \in 0 .. MaxFails
      /\ {"MCFG_SYNTAX_ERROR", "MCFG_MALLOC_FAIL"} \subseteq Errors
  BY Placed DEF ListLiteral, Errors
<1>2. list \in ListRecord /\ list.list \in List /\ list.token \in TypeTokens
  BY <1>1, Building
<1>3. CASE DropList("MCFG_SYNTAX_ERROR", cur) /\ UNCHANGED fails
  BY <1>1, <1>3, DropInv
<1>4. ASSUME NEW valueOk \in BOOLEAN, NEW nameOk \in BOOLEAN, NEW arrayOk \in BOOLEAN,
             LiteralAt(cur, list.token),
             Allocations(<<valueOk, nameOk, arrayOk>>),
             \/ DropList("MCFG_MALLOC_FAIL", cur)
             \/ Crash
             \/ HasText(cur, list.token) /\ AddElement(valueOk, nameOk, arrayOk)
      PROVE  Inv'
  <2>1. fails' \in 0 .. MaxFails
    <3>1. DOMAIN <<valueOk, nameOk, arrayOk>> = 1 .. 3
      OBVIOUS
    <3> QED
      BY <1>1, <1>4, <3>1, FailsType
  <2>2. CASE DropList("MCFG_MALLOC_FAIL", cur)
    BY <1>1, <2>1, <2>2, DropInv
  <2>3. CASE Crash
    BY <1>1, <2>1, <2>3, CrashInv
  <2>4. CASE HasText(cur, list.token) /\ AddElement(valueOk, nameOk, arrayOk)
    <3> DEFINE data == IF valueOk THEN _parse_literal(cur, list.token) ELSE NULL
               add  == mcfg_add_list_field(list.list, data, nameOk, arrayOk)
               next == cur + LiteralLen(list.token)
    <3>1. data \in Scalar \cup {NULL}
      BY <1>1, <1>2, <1>4, <2>4, LiteralType DEF Inv
    <3>2. add.list \in List
      BY <1>2, <3>1, AddListFieldKeeps
    <3>3. next \in DOMAIN input
      BY <1>1, <1>2, <1>4, LiteralFits
    <3> HIDE DEF add, next
    <3>4. CASE /\ list' = [list EXCEPT !.list = add.list]
               /\ cur' = next
               /\ pc' = "comma"
               /\ UNCHANGED <<input, pts, file, err, errAt>>
      <4>1. list' \in ListRecord
        BY <1>2, <3>2, <3>4 DEF ListRecord
      <4>2. TypeOK'
        BY <2>1, <3>3, <3>4, <4>1 DEF Inv, TypeOK, Control
      <4>3. Aligned'
        BY <1>1, <3>4, <4>1, ParserAssumption DEF Inv, Aligned, HasFile, LastSector
      <4> QED
        BY <3>4, <4>2, <4>3 DEF Inv, NamesUnique
    <3> QED
      BY <1>1, <2>1, <2>4, <3>4, CrashInv DEF AddElement, add, next
  <2> QED
    BY <1>4, <2>2, <2>3, <2>4
<1> QED
  BY <1>3, <1>4 DEF ListLiteral

\* the comma behind it,
LEMMA CommaStep == Inv /\ ListComma => Inv'
<1> SUFFICES ASSUME Inv, ListComma PROVE Inv'
  OBVIOUS
<1>1. pc = "comma" /\ cur + 1 \in DOMAIN input
  <2>1. pc = "comma" /\ input[cur].token = "TK_COMMA"
    BY DEF ListComma
  <2> QED
    BY <2>1, Placed, AnotherFollows
<1>2. TypeOK'
  BY <1>1 DEF Inv, TypeOK, ListComma, Control
<1>3. Aligned'
  BY <1>1 DEF Inv, Aligned, HasFile, ListComma, LastSector
<1> QED
  BY <1>2, <1>3 DEF Inv, NamesUnique, ListComma

\* and the end of the list keep the invariant.
LEMMA DoneStep == Inv /\ ListDone => Inv'
<1> SUFFICES ASSUME Inv, ListDone PROVE Inv'
  OBVIOUS
<1>1. pc = "comma" /\ cur \in DOMAIN input /\ errAt \in DOMAIN input
      /\ fails \in 0 .. MaxFails
  BY Placed DEF ListDone
<1>2. /\ list.list \in List /\ list.name \in Name \cup {NULL}
      /\ pts = "PTS_IN_SECTION"
  BY <1>1, Building
<1>3. PICK arrayOk \in BOOLEAN :
         LET add == mcfg_add_field(file, LastSector, LastSection, "TYPE_LIST",
                                   list.name, list.list, arrayOk)
         IN  /\ Allocations(<<arrayOk>>)
             /\ \/ Accepted(add, cur, pts, FirstIn(FieldArray)) /\ UNCHANGED errAt
                \/ add.err \notin {"MCFG_OK", "fault"} /\ DropList(add.err, errAt)
                \/ add.err = "fault" /\ Crash
  BY DEF ListDone
<1> DEFINE add    == mcfg_add_field(file, LastSector, LastSection, "TYPE_LIST",
                                    list.name, list.list, arrayOk)
           blocks == FirstIn(FieldArray)
<1>4. fails' \in 0 .. MaxFails
  <2>1. DOMAIN <<arrayOk>> = 1 .. 1
    OBVIOUS
  <2> QED
    BY <1>1, <1>3, <2>1, FailsType
<1>5. /\ add.file \in File /\ AllNamesUnique(add.file)
      /\ HasPlace(add.file, "PTS_IN_SECTION")
      /\ add.err \in Errors \cup {"fault"}
  <2>1. [type |-> "TYPE_LIST", data |-> list.list] \in Typed
    BY <1>2 DEF Typed, FieldTypes
  <2> QED
    BY <1>1, <1>2, <2>1, FieldAdded
<1> HIDE DEF add, blocks
<1>6. CASE Accepted(add, cur, pts, blocks) /\ UNCHANGED errAt
  BY <1>1, <1>2, <1>4, <1>5, <1>6, AcceptedInv
<1>7. CASE add.err \notin {"MCFG_OK", "fault"} /\ DropList(add.err, errAt)
  BY <1>1, <1>4, <1>5, <1>7, DropInv
<1>8. CASE Crash
  BY <1>1, <1>4, <1>8, CrashInv
<1> QED
  BY <1>3, <1>6, <1>7, <1>8 DEF add, blocks

\* Freeing the file leaves an empty document, or crashes.
LEMMA FreeStep ==
    ASSUME Inv, pc \in {"failed", "returned"},
           NEW then \in {"cleaned", "freed"}, FreeFile(then)
    PROVE  Inv'
<1>1. EmptyFile \in File /\ AllNamesUnique(EmptyFile)
  <2>1. << >> \in Seq(Sector) /\ << >> \in Seq(Field)
    OBVIOUS
  <2> QED
    BY <2>1 DEF EmptyFile, File, AllNamesUnique, UniqueNames
<1>2. UNCHANGED <<input, cur, pts, list, err, errAt, fails>>
  BY DEF FreeFile
<1>3. CASE pc' = then /\ file' = EmptyFile
  <2>1. TypeOK'
    BY <1>1, <1>2, <1>3 DEF Inv, TypeOK, Control
  <2>2. Aligned' /\ NamesUnique'
    BY <1>1, <1>3 DEF Aligned, HasFile, NamesUnique
  <2> QED
    BY <1>2, <2>1, <2>2 DEF Inv
<1>4. CASE pc' = "crashed" /\ pc \in {"failed", "returned"} /\ UNCHANGED file
  <2>1. TypeOK'
    BY <1>2, <1>4 DEF Inv, TypeOK, Control
  <2>2. Aligned'
    BY <1>2, <1>4 DEF Inv, Aligned, HasFile, LastSector
  <2> QED
    BY <1>2, <1>4, <2>1, <2>2 DEF Inv, NamesUnique
<1> QED
  BY <1>3, <1>4 DEF FreeFile

-----------------------------------------------------------------------------
(* The theorems.                                                             *)

\* The invariant holds in the initial states, whatever the input.
LEMMA InitInv == Init => Inv
<1> SUFFICES ASSUME Init PROVE Inv
  OBVIOUS
<1>1. EmptyFile \in File /\ AllNamesUnique(EmptyFile)
  <2>1. << >> \in Seq(Sector) /\ << >> \in Seq(Field)
    OBVIOUS
  <2> QED
    BY <2>1 DEF EmptyFile, File, AllNamesUnique, UniqueNames
<1>2. 1 \in DOMAIN input
  BY ParserAssumption DEF Init
<1>3. TypeOK
  BY <1>1, <1>2, ParserAssumption DEF Init, TypeOK, Control, Errors
<1> QED
  BY <1>1, <1>3 DEF Init, Inv, Aligned, NamesUnique

\* Every step keeps it.
LEMMA NextInv == Inv /\ [Next]_vars => Inv'
<1> SUFFICES ASSUME Inv, [Next]_vars PROVE Inv'
  OBVIOUS
<1>1. CASE SyntaxError
  BY <1>1, FailInv DEF SyntaxError, Errors
<1>2. CASE Finish
  <2>1. TypeOK'
    BY <1>2 DEF Inv, TypeOK, Finish, Control
  <2>2. Aligned'
    BY <1>2 DEF Inv, Aligned, HasFile, Finish, At, LastSector
  <2> QED
    BY <1>2, <2>1, <2>2 DEF Inv, NamesUnique, Finish
<1>3. CASE CleanUp
  BY <1>3, FreeStep DEF CleanUp
<1>4. CASE CallerFrees
  BY <1>4, FreeStep DEF CallerFrees
<1>5. CASE Stopped \/ UNCHANGED vars
  <2>1. UNCHANGED vars
    BY <1>5 DEF Stopped
  <2>2. TypeOK' /\ Aligned'
    BY <2>1 DEF Inv, TypeOK, Aligned, HasFile, LastSector, vars
  <2> QED
    BY <2>1, <2>2 DEF Inv, NamesUnique, vars
<1> QED
  BY <1>1, <1>2, <1>3, <1>4, <1>5, SectorStep, SectionStep, EndStep, FieldStep,
     ListStep, LiteralStep, CommaStep, DoneStep
  DEF Next, Parse

\* The invariant holds throughout every parse.
THEOREM SpecInv == Spec => []Inv
BY InitInv, NextInv, PTL DEF Spec

\* Whatever the tokens and whichever allocations fail, the parser never leaves
\* its list of tokens, and what it fills in is a well typed document.
THEOREM TypeCorrect == Spec => []TypeOK
BY SpecInv, PTL DEF Inv

\* Whatever the tokens and whichever allocations fail, the last sector and the
\* last section exist whenever the parser indexes them: the counts it
\* subtracts 1 from are never 0.
THEOREM StaysAligned == Spec => []Aligned
BY SpecInv, PTL DEF Inv

\* Whatever the tokens and whichever allocations fail, no two siblings of the
\* document have one name.
THEOREM NamesStayUnique == Spec => []NamesUnique
BY SpecInv, PTL DEF Inv
-----------------------------------------------------------------------------
(* Freeing.                                                                  *)

\* The blocks of the list under construction.
BlocksOf(l) == IF l = NULL THEN 0 ELSE BlockOf(l.name) + 1 + mcfg_free_list(l.list)

\* FreeIsComplete is not inductive: an error loses a block, so it takes that
\* there was none before; and a list that a handler drops is not lost, so it
\* takes that there is one in the loop of _parse_list_field only.
Owned ==
    /\ live \in Int
    /\ pc \in {"tree", "literal", "comma", "returned"} => err = "MCFG_OK"
    /\ pc \notin {"literal", "comma", "crashed"} => list = NULL
    /\ FreeIsComplete

Lost == live - mcfg_free_file(file) - BlocksOf(list)

\* What FreeIsComplete says, in these words.
LEMMA LostIs == FreeIsComplete <=> (pc # "crashed" => Lost \in 0 .. One(err # "MCFG_OK") + 2 * fails)
BY DEF FreeIsComplete, Lost, BlocksOf

\* The same of the next state.
LEMMA LostPrime ==
    FreeIsComplete' <=> (pc' # "crashed" => Lost' \in 0 .. One(err' # "MCFG_OK") + 2 * fails')
BY DEF FreeIsComplete, Lost, BlocksOf

\* The numbers of blocks are numbers.
LEMMA BlocksType ==
    ASSUME Inv
    PROVE  /\ mcfg_free_file(file) \in Nat /\ BlocksOf(list) \in Nat /\ fails \in Nat
           /\ BlocksOf(NULL) = 0
<1>1. file \in File /\ list \in ListRecord \cup {NULL} /\ fails \in Nat
  BY ParserAssumption DEF Inv, TypeOK
<1>2. CASE list = NULL
  BY <1>1, <1>2, FreeFileIs DEF BlocksOf
<1>3. CASE list \in ListRecord
  <2>1. mcfg_free_list(list.list) \in Nat
    BY <1>3, FreeListIs DEF ListRecord
  <2> QED
    BY <1>1, <2>1, FreeFileIs DEF BlocksOf, BlockOf
<1> QED
  BY <1>1, <1>2, <1>3

\* Allocations that fail are counted.
LEMMA FailsCounted ==
    ASSUME fails \in Nat, NEW n \in Nat, NEW oks, DOMAIN oks = 1 .. n, Allocations(oks)
    PROVE  /\ fails' \in Nat /\ fails' >= fails
           /\ (\E i \in 1 .. n : ~oks[i]) => fails' >= fails + 1
<1> DEFINE failed == {i \in DOMAIN oks : ~oks[i]}
<1>1. IsFiniteSet(1 .. n)
  BY FS_Interval
<1>2. failed \subseteq 1 .. n
  OBVIOUS
<1>3. IsFiniteSet(failed) /\ Cardinality(failed) \in Nat
  BY <1>1, <1>2, FS_Subset, FS_CardinalityType
<1>4. ASSUME \E i \in 1 .. n : ~oks[i]
      PROVE  Cardinality(failed) # 0
  <2>1. failed # {}
    BY <1>4
  <2> QED
    BY <1>3, <2>1, FS_EmptySet
<1>5. fails' = fails + Cardinality(failed)
  BY DEF Allocations
<1> HIDE DEF failed
<1> QED
  BY <1>3, <1>4, <1>5

\* Two blocks for each allocation that has failed, and one for an error.
LEMMA Between ==
    ASSUME NEW a \in Nat, NEW b \in Nat, b >= a, NEW x \in 0 .. 2 * a, NEW k \in 0 .. 1
    PROVE  x + k \in 0 .. 1 + 2 * b /\ x \in 0 .. 0 + 2 * b
OBVIOUS

\* An error loses one block at most; a list under construction is freed.
LEMMA OwnedReturn ==
    ASSUME Inv, Owned, pc \in {"tree", "literal", "comma"},
           fails' \in Nat, fails' >= fails,
           NEW e, e # "MCFG_OK", NEW at, Return(e, at),
           NEW k \in 0 .. 1, live' = live - BlocksOf(list) + k
    PROVE  Owned'
<1>1. /\ pc' = "failed" /\ err' = e /\ list' = NULL /\ file' = file
      /\ err = "MCFG_OK" /\ live \in Int /\ pc # "crashed"
  BY DEF Return, Owned
<1>2. mcfg_free_file(file) \in Nat /\ BlocksOf(list) \in Nat /\ fails \in Nat /\ BlocksOf(NULL) = 0
  BY BlocksType
<1>3. Lost \in 0 .. 2 * fails
  <2>1. One(err # "MCFG_OK") = 0
    BY <1>1 DEF One
  <2>2. Lost \in 0 .. One(err # "MCFG_OK") + 2 * fails
    BY <1>1, LostIs DEF Owned
  <2> QED
    BY <1>2, <2>1, <2>2
<1>4. One(err' # "MCFG_OK") = 1
  BY <1>1 DEF One
<1>5. Lost' = Lost + k
  <2>1. Lost' = live' - mcfg_free_file(file) - BlocksOf(NULL)
    BY <1>1 DEF Lost
  <2> QED
    BY <1>1, <1>2, <2>1 DEF Lost
<1>6. Lost' \in 0 .. 1 + 2 * fails'
  BY <1>2, <1>3, <1>5, Between
<1>7. FreeIsComplete'
  BY <1>4, <1>6, LostPrime
<1>8. live' \in Int
  BY <1>1, <1>2
<1> QED
  BY <1>1, <1>7, <1>8 DEF Owned

\* Behind a crash nothing is freed any more.
LEMMA OwnedCrash == Owned /\ Crash => Owned'
BY DEF Crash, Owned, FreeIsComplete

\* An add that succeeds takes over what is under construction.
LEMMA OwnedAccepted ==
    ASSUME Inv, Owned, pc \in {"tree", "literal", "comma"},
           fails' \in Nat, fails' >= fails,
           NEW add, NEW next, NEW state, NEW blocks \in Int,
           Accepted(add, next, state, blocks),
           mcfg_free_file(add.file) = mcfg_free_file(file) + blocks + BlocksOf(list)
    PROVE  Owned'
<1>1. /\ pc' = "tree" /\ err' = err /\ list' = NULL /\ file' = add.file
      /\ err = "MCFG_OK" /\ live \in Int /\ live' = live + blocks /\ pc # "crashed"
  BY DEF Accepted, Owned
<1>2. mcfg_free_file(file) \in Nat /\ BlocksOf(list) \in Nat /\ fails \in Nat /\ BlocksOf(NULL) = 0
  BY BlocksType
<1>3. One(err # "MCFG_OK") = 0 /\ One(err' # "MCFG_OK") = 0
  BY <1>1 DEF One
<1>4. Lost \in 0 .. 2 * fails
  <2>1. Lost \in 0 .. One(err # "MCFG_OK") + 2 * fails
    BY <1>1, LostIs DEF Owned
  <2> QED
    BY <1>2, <1>3, <2>1
<1>5. Lost' = Lost
  <2>1. Lost' = live' - mcfg_free_file(add.file) - BlocksOf(NULL)
    BY <1>1 DEF Lost
  <2> QED
    BY <1>1, <1>2, <2>1 DEF Lost
<1>6. Lost' \in 0 .. 0 + 2 * fails'
  <2>1. 0 \in 0 .. 1
    OBVIOUS
  <2> QED
    BY <1>2, <1>4, <1>5, <2>1, Between
<1>7. FreeIsComplete'
  BY <1>3, <1>6, LostPrime
<1>8. live' \in Int
  BY <1>1
<1> QED
  BY <1>1, <1>7, <1>8 DEF Owned

\* An add that does not succeed loses a block at most.
LEMMA OwnedRefused ==
    ASSUME Inv, Owned, pc = "tree", fails' \in Nat, fails' >= fails,
           NEW add, NEW at, NEW k \in 0 .. 1, Refused(add, at, k)
    PROVE  Owned'
<1>1. list = NULL /\ live \in Int /\ BlocksOf(NULL) = 0
  BY BlocksType DEF Owned
<1>2. CASE add.err \notin {"MCFG_OK", "fault"} /\ Return(add.err, at) /\ live' = live + k
  <2>1. live' = live - BlocksOf(list) + k
    BY <1>1, <1>2
  <2> QED
    BY <1>2, <2>1, OwnedReturn
<1>3. CASE Crash
  BY <1>3, OwnedCrash
<1> QED
  BY <1>2, <1>3 DEF Refused

\* An error without an allocation loses nothing.
LEMMA OwnedFail ==
    ASSUME Inv, Owned, pc = "tree", NEW e, e # "MCFG_OK", Fail(e)
    PROVE  Owned'
<1>1. /\ list = NULL /\ live \in Int /\ BlocksOf(NULL) = 0 /\ Return(e, cur)
      /\ live' = live /\ fails' = fails /\ fails \in Nat
  BY BlocksType DEF Owned, Fail
<1>2. live' = live - BlocksOf(list) + 0 /\ fails' >= fails
  BY <1>1
<1> QED
  BY <1>1, <1>2, OwnedReturn
\* The copy of a name is a block if it is made, and the first entry of an
\* array comes with the array.
LEMMA CopyBlock ==
    ASSUME Inv, NEW i \in DOMAIN input, NameAt(i), NEW ok \in BOOLEAN
    PROVE  /\ strdup(i, ok) \in Name \cup {NULL}
           /\ BlockOf(strdup(i, ok)) = One(ok) /\ One(ok) \in 0 .. 1
           /\ ok = TRUE => strdup(i, ok) # NULL
BY NameType, StoreAssumption DEF strdup, NameAt, BlockOf, One

\* The first entry of an array takes a block, every other one takes none.
LEMMA FirstIs == ASSUME NEW seq PROVE FirstIn(seq) = 1 - ArrayOf(seq) /\ FirstIn(seq) \in {0, 1}
BY DEF FirstIn, ArrayOf

\* The allocations of a handler, in the words of the lemmas above.
LEMMA OwnedFails ==
    ASSUME Inv, NEW n \in Nat, NEW oks, DOMAIN oks = 1 .. n, Allocations(oks)
    PROVE  /\ fails' \in Nat /\ fails' >= fails /\ fails \in Nat
           /\ (\E i \in 1 .. n : ~oks[i]) => fails' >= fails + 1
BY BlocksType, FailsCounted

\* A sector and its name,
LEMMA OwnedSector == Inv /\ Owned /\ ParseSector => Owned'
<1> SUFFICES ASSUME Inv, Owned, ParseSector PROVE Owned'
  OBVIOUS
<1>1. pc = "tree" /\ input[cur].token = "TK_SECTOR" /\ cur + 1 \in DOMAIN input
  <2>1. pc = "tree" /\ input[cur].token = "TK_SECTOR"
    BY DEF ParseSector, At
  <2> QED
    BY <2>1, Placed, AnotherFollows
<1>2. ASSUME NEW e \in {"MCFG_STRUCTURE_ERROR", "MCFG_SYNTAX_ERROR"}, Fail(e)
      PROVE  Owned'
  BY <1>1, <1>2, OwnedFail
<1>3. ASSUME NEW nameOk \in BOOLEAN, NEW arrayOk \in BOOLEAN, NameAt(cur + 1),
             LET add == mcfg_add_sector(file, strdup(cur + 1, nameOk), arrayOk)
             IN  /\ Allocations(<<nameOk, arrayOk>>)
                 /\ \/ Accepted(add, cur + 2, "PTS_IN_SECTOR",
                                One(nameOk) + FirstIn(file.sectors))
                    \/ Refused(add, cur, One(nameOk))
      PROVE  Owned'
  <2> DEFINE name == strdup(cur + 1, nameOk)
             add  == mcfg_add_sector(file, name, arrayOk)
  <2>1. name \in Name \cup {NULL} /\ BlockOf(name) = One(nameOk) /\ One(nameOk) \in 0 .. 1
    BY <1>1, <1>3, CopyBlock
  <2>2. fails' \in Nat /\ fails' >= fails
    <3>1. DOMAIN <<nameOk, arrayOk>> = 1 .. 2
      OBVIOUS
    <3>2. Allocations(<<nameOk, arrayOk>>)
      BY <1>3
    <3> QED
      BY <3>1, <3>2, OwnedFails
  <2>3. ASSUME add.err = "MCFG_OK"
        PROVE  mcfg_free_file(add.file)
                 = mcfg_free_file(file) + BlockOf(name) + 1 - ArrayOf(file.sectors)
    <3>1. file \in File
      BY <1>1, Placed
    <3> QED
      BY <2>1, <2>3, <3>1, AddSectorFrees
  <2> HIDE DEF add, name
  <2>4. CASE Accepted(add, cur + 2, "PTS_IN_SECTOR", One(nameOk) + FirstIn(file.sectors))
    <3>1. add.err = "MCFG_OK" /\ BlocksOf(list) = 0 /\ mcfg_free_file(file) \in Nat
      BY <1>1, <2>4, BlocksType DEF Accepted, Owned
    <3>2. FirstIn(file.sectors) = 1 - ArrayOf(file.sectors) /\ FirstIn(file.sectors) \in {0, 1}
      BY FirstIs
    <3>3. /\ One(nameOk) + FirstIn(file.sectors) \in Int
          /\ mcfg_free_file(add.file)
               = mcfg_free_file(file) + (One(nameOk) + FirstIn(file.sectors)) + BlocksOf(list)
      BY <2>1, <2>3, <3>1, <3>2 DEF ArrayOf
    <3> QED
      BY <1>1, <2>2, <2>4, <3>3, OwnedAccepted
  <2>5. CASE Refused(add, cur, One(nameOk))
    BY <1>1, <2>1, <2>2, <2>5, OwnedRefused
  <2> QED
    BY <1>3, <2>4, <2>5 DEF add, name
<1> QED
  BY <1>2, <1>3 DEF ParseSector

\* a section and its name,
LEMMA OwnedSection == Inv /\ Owned /\ ParseSection => Owned'
<1> SUFFICES ASSUME Inv, Owned, ParseSection PROVE Owned'
  OBVIOUS
<1>1. pc = "tree" /\ input[cur].token = "TK_SECTION" /\ cur + 1 \in DOMAIN input
  <2>1. pc = "tree" /\ input[cur].token = "TK_SECTION"
    BY DEF ParseSection, At
  <2> QED
    BY <2>1, Placed, AnotherFollows
<1>2. ASSUME NEW e \in {"MCFG_STRUCTURE_ERROR", "MCFG_SYNTAX_ERROR"}, Fail(e)
      PROVE  Owned'
  BY <1>1, <1>2, OwnedFail
<1>3. ASSUME NEW nameOk \in BOOLEAN, NEW arrayOk \in BOOLEAN,
             pts = "PTS_IN_SECTOR", NameAt(cur + 1),
             LET add == mcfg_add_section(file, LastSector,
                                         strdup(cur + 1, nameOk), arrayOk)
             IN  /\ Allocations(<<nameOk, arrayOk>>)
                 /\ \/ Accepted(add, cur + 2, "PTS_IN_SECTION", One(nameOk)
                                + FirstIn(file.sectors[LastSector].sections))
                    \/ Refused(add, cur, One(nameOk))
      PROVE  Owned'
  <2> DEFINE name  == strdup(cur + 1, nameOk)
             add   == mcfg_add_section(file, LastSector, name, arrayOk)
             first == FirstIn(file.sectors[LastSector].sections)
  <2>1. name \in Name \cup {NULL} /\ BlockOf(name) = One(nameOk) /\ One(nameOk) \in 0 .. 1
    BY <1>1, <1>3, CopyBlock
  <2>2. fails' \in Nat /\ fails' >= fails
    <3>1. DOMAIN <<nameOk, arrayOk>> = 1 .. 2
      OBVIOUS
    <3>2. Allocations(<<nameOk, arrayOk>>)
      BY <1>3
    <3> QED
      BY <3>1, <3>2, OwnedFails
  <2>3. ASSUME add.err = "MCFG_OK"
        PROVE  mcfg_free_file(add.file)
                 = mcfg_free_file(file) + BlockOf(name) + 1
                   - ArrayOf(file.sectors[LastSector].sections)
    <3>1. file \in File /\ HasPlace(file, "PTS_IN_SECTOR") /\ file.sectors \in Seq(Sector)
      BY <1>1, <1>3, Placed, FileParts
    <3>2. LastSector \in 1 .. Len(file.sectors)
      BY <3>1, PlaceIndices DEF LastSector
    <3> QED
      BY <2>1, <2>3, <3>1, <3>2, AddSectionFrees
  <2> HIDE DEF add, name
  <2>4. CASE Accepted(add, cur + 2, "PTS_IN_SECTION", One(nameOk) + first)
    <3>1. add.err = "MCFG_OK" /\ BlocksOf(list) = 0 /\ mcfg_free_file(file) \in Nat
      BY <1>1, <2>4, BlocksType DEF Accepted, Owned
    <3>2. first = 1 - ArrayOf(file.sectors[LastSector].sections) /\ first \in {0, 1}
      BY FirstIs
    <3>3. /\ One(nameOk) + first \in Int
          /\ mcfg_free_file(add.file)
               = mcfg_free_file(file) + (One(nameOk) + first) + BlocksOf(list)
      BY <2>1, <2>3, <3>1, <3>2 DEF ArrayOf
    <3> HIDE DEF first
    <3> QED
      BY <1>1, <2>2, <2>4, <3>3, OwnedAccepted
  <2>5. CASE Refused(add, cur, One(nameOk))
    BY <1>1, <2>1, <2>2, <2>5, OwnedRefused
  <2> QED
    BY <1>3, <2>4, <2>5 DEF add, name
<1> QED
  BY <1>2, <1>3 DEF ParseSection

\* What a field or a list adds to the blocks of the document.
LEMMA FieldFrees ==
    ASSUME Inv, pc \in {"tree", "literal", "comma"}, pts = "PTS_IN_SECTION",
           NEW type, NEW data, [type |-> type, data |-> data] \in Typed,
           NEW name \in Name \cup {NULL}, NEW arrayOk,
           mcfg_add_field(file, LastSector, LastSection, type, name, data, arrayOk).err = "MCFG_OK"
    PROVE  mcfg_free_file(mcfg_add_field(file, LastSector, LastSection, type, name, data, arrayOk).file)
             = mcfg_free_file(file) + mcfg_free_field(FieldOf(name, type, data))
               + 1 - ArrayOf(FieldArray)
<1>1. file \in File /\ HasPlace(file, "PTS_IN_SECTION") /\ file.sectors \in Seq(Sector)
  BY Placed, FileParts
<1>2. LastSector \in 1 .. Len(file.sectors) /\ file.sectors[LastSector] \in Sector
  BY <1>1, PlaceIndices, FileParts DEF LastSector
<1>3. LastSection \in 1 .. Len(file.sectors[LastSector].sections)
  BY <1>1, <1>2, PlaceIndices, SectorParts DEF LastSector, LastSection
<1>4. mcfg_free_file(mcfg_add_field(file, LastSector, LastSection, type, name, data, arrayOk).file)
        = FreedWith(file, LastSector, LastSection, name, type, data)
  BY <1>1, <1>2, <1>3, AddFieldFrees
<1> QED
  BY <1>4 DEF FieldArray, FreedWith

\* a field, its name and its value,
LEMMA OwnedField == Inv /\ Owned /\ ParseField => Owned'
<1> SUFFICES ASSUME Inv, Owned, ParseField PROVE Owned'
  OBVIOUS
<1> DEFINE token == input[cur].token
<1>1. pc = "tree" /\ token \in TypeTokens /\ cur \in DOMAIN input
      /\ cur + 1 \in DOMAIN input
  <2>1. pc = "tree" /\ token \in TypeTokens
    BY DEF ParseField
  <2>2. token # "TK_UNASSIGNED_TOKEN"
    BY <2>1 DEF TypeTokens
  <2> QED
    BY <2>1, <2>2, Placed, AnotherFollows
<1>2. list = NULL /\ BlocksOf(list) = 0 /\ mcfg_free_file(file) \in Nat /\ live \in Int
  BY <1>1, BlocksType DEF Owned
<1>3. ASSUME NEW e \in {"MCFG_STRUCTURE_ERROR", "MCFG_SYNTAX_ERROR"}, Fail(e)
      PROVE  Owned'
  BY <1>1, <1>3, OwnedFail
<1>4. ASSUME NEW nameOk \in BOOLEAN, NEW e \in {"MCFG_SYNTAX_ERROR", "MCFG_INVALID_TYPE"},
             Allocations(<<nameOk>>), Return(e, cur), live' = live + One(nameOk)
      PROVE  Owned'
  <2>1. DOMAIN <<nameOk>> = 1 .. 1
    OBVIOUS
  <2>2. fails' \in Nat /\ fails' >= fails
    BY <1>4, <2>1, OwnedFails
  <2>3. live' = live - BlocksOf(list) + One(nameOk) /\ One(nameOk) \in 0 .. 1
    BY <1>2, <1>4 DEF One
  <2> QED
    BY <1>1, <1>4, <2>2, <2>3, OwnedReturn
<1>5. ASSUME pts = "PTS_IN_SECTION", NameAt(cur + 1), LiteralAt(cur + 2, token),
             HasText(cur + 2, token), FieldValueOf(token)
      PROVE  Owned'
  <2>1. cur + 2 \in DOMAIN input
    <3>1. (cur + 1) + 1 \in DOMAIN input
      BY <1>1, <1>5, NameType
    <3> QED
      BY <1>1, <3>1 DEF Inv, TypeOK
  <2>2. _parse_literal(cur + 2, token) \in Scalar
    BY <1>1, <1>5, <2>1, LiteralType DEF Inv
  <2>3. ASSUME NEW nameOk \in BOOLEAN, NEW valueOk \in BOOLEAN, NEW arrayOk \in BOOLEAN,
               LET data == IF valueOk THEN _parse_literal(cur + 2, token) ELSE NULL
                   add  == mcfg_add_field(file, LastSector, LastSection,
                                          _token_to_type(token), strdup(cur + 1, nameOk),
                                          data, arrayOk)
               IN  /\ Allocations(<<nameOk, valueOk, arrayOk>>)
                   /\ \/ Return("MCFG_MALLOC_FAIL", cur) /\ live' = live + One(nameOk)
                      \/ Accepted(add, cur + 2 + LiteralLen(token), pts,
                                  One(nameOk) + One(valueOk) + FirstIn(FieldArray))
                      \/ Refused(add, cur, One(nameOk))
        PROVE  Owned'
    <3> DEFINE data   == IF valueOk THEN _parse_literal(cur + 2, token) ELSE NULL
               name   == strdup(cur + 1, nameOk)
               type   == _token_to_type(token)
               add    == mcfg_add_field(file, LastSector, LastSection, type, name,
                                        data, arrayOk)
               blocks == One(nameOk) + One(valueOk) + FirstIn(FieldArray)
    <3>1. fails' \in Nat /\ fails' >= fails
      <4>1. DOMAIN <<nameOk, valueOk, arrayOk>> = 1 .. 3
        OBVIOUS
      <4>2. Allocations(<<nameOk, valueOk, arrayOk>>)
        BY <2>3
      <4> QED
        BY <4>1, <4>2, OwnedFails
    <3>2. [type |-> type, data |-> data] \in Typed /\ type # "TYPE_LIST"
      BY <1>1, <2>2, TokenTypes DEF Typed
    <3>3. name \in Name \cup {NULL} /\ BlockOf(name) = One(nameOk) /\ One(nameOk) \in 0 .. 1
      BY <1>1, <1>5, CopyBlock
    <3>4. BlockOf(data) = One(valueOk) /\ One(valueOk) \in 0 .. 1
      BY <2>2, StoreAssumption DEF BlockOf, One
    <3> HIDE DEF data, name, type
    <3>5. mcfg_free_field(FieldOf(name, type, data)) = One(nameOk) + One(valueOk)
      <4>1. /\ FieldOf(name, type, data).name = name /\ FieldOf(name, type, data).data = data
            /\ FieldOf(name, type, data).type # "TYPE_LIST"
        BY <3>2 DEF FieldOf
      <4>2. mcfg_free_field(FieldOf(name, type, data)) = BlockOf(name) + BlockOf(data) + 0
        BY <4>1 DEF mcfg_free_field
      <4> QED
        BY <3>3, <3>4, <4>2
    <3>6. ASSUME add.err = "MCFG_OK"
          PROVE  mcfg_free_file(add.file)
                   = mcfg_free_file(file) + (One(nameOk) + One(valueOk)) + 1 - ArrayOf(FieldArray)
      BY <1>1, <1>5, <3>2, <3>3, <3>5, <3>6, FieldFrees
    <3> HIDE DEF add
    <3>7. CASE Return("MCFG_MALLOC_FAIL", cur) /\ live' = live + One(nameOk)
      <4>1. live' = live - BlocksOf(list) + One(nameOk)
        BY <1>2, <3>3, <3>7
      <4> QED
        BY <1>1, <3>1, <3>3, <3>7, <4>1, OwnedReturn
    <3>8. CASE Accepted(add, cur + 2 + LiteralLen(token), pts, blocks)
      <4>1. add.err = "MCFG_OK"
        BY <3>8 DEF Accepted
      <4>2. FirstIn(FieldArray) = 1 - ArrayOf(FieldArray) /\ ArrayOf(FieldArray) \in {0, 1}
        BY FirstIs DEF ArrayOf
      <4>3. /\ blocks \in Int
            /\ mcfg_free_file(add.file) = mcfg_free_file(file) + blocks + BlocksOf(list)
        BY <1>2, <3>3, <3>4, <3>6, <4>1, <4>2
      <4> HIDE DEF blocks
      <4> QED
        BY <1>1, <3>1, <3>8, <4>3, OwnedAccepted
    <3>9. CASE Refused(add, cur, One(nameOk))
      BY <1>1, <3>1, <3>3, <3>9, OwnedRefused
    <3> QED
      BY <2>3, <3>7, <3>8, <3>9 DEF add, data, name, type
  <2> QED
    BY <1>5, <2>3 DEF FieldValueOf
<1> QED
  BY <1>3, <1>4, <1>5 DEF ParseField
\* the head of a list, whose blocks are under construction from here on,
LEMMA OwnedList == Inv /\ Owned /\ ParseList => Owned'
<1> SUFFICES ASSUME Inv, Owned, ParseList PROVE Owned'
  OBVIOUS
<1> DEFINE token == input[cur + 1].token
<1>1. pc = "tree" /\ cur \in DOMAIN input /\ cur + 1 \in DOMAIN input
  <2>1. pc = "tree" /\ input[cur].token = "TK_LIST"
    BY DEF ParseList, At
  <2> QED
    BY <2>1, Placed, AnotherFollows
<1>2. /\ list = NULL /\ BlocksOf(list) = 0 /\ mcfg_free_file(file) \in Nat
      /\ live \in Int /\ err = "MCFG_OK"
  BY <1>1, BlocksType DEF Owned
<1>3. ASSUME NEW e \in {"MCFG_STRUCTURE_ERROR", "MCFG_SYNTAX_ERROR", "MCFG_INVALID_TYPE"},
             Fail(e)
      PROVE  Owned'
  BY <1>1, <1>3, OwnedFail
<1>4. ASSUME token \in TypeTokens, NameAt(cur + 2),
             NEW nameOk \in BOOLEAN, NEW listOk \in BOOLEAN,
             Allocations(<<nameOk, listOk>>),
             live' = live + One(nameOk) + One(listOk),
             \/ ~listOk /\ Return("MCFG_MALLOC_FAIL", cur)
             \/ /\ listOk
                /\ pc' = "literal"
                /\ list' = [name  |-> strdup(cur + 2, nameOk),
                            token |-> token,
                            list  |-> [type |-> _token_to_type(token), elems |-> << >>]]
                /\ UNCHANGED <<file, err>>
      PROVE  Owned'
  <2>1. fails' \in Nat /\ fails' >= fails /\ fails \in Nat
    <3>1. DOMAIN <<nameOk, listOk>> = 1 .. 2
      OBVIOUS
    <3> QED
      BY <1>4, <3>1, OwnedFails
  <2>2. One(nameOk) \in 0 .. 1
    BY DEF One
  <2>3. CASE ~listOk /\ Return("MCFG_MALLOC_FAIL", cur)
    <3>1. One(listOk) = 0
      BY <2>3 DEF One
    <3>2. live' = live - BlocksOf(list) + One(nameOk)
      BY <1>2, <1>4, <2>2, <3>1
    <3> QED
      BY <1>1, <2>1, <2>2, <2>3, <3>2, OwnedReturn
  <2>4. CASE /\ listOk
             /\ pc' = "literal"
             /\ list' = [name  |-> strdup(cur + 2, nameOk),
                         token |-> token,
                         list  |-> [type |-> _token_to_type(token), elems |-> << >>]]
             /\ UNCHANGED <<file, err>>
    <3> DEFINE name  == strdup(cur + 2, nameOk)
               empty == [type |-> _token_to_type(token), elems |-> << >>]
               new   == [name |-> name, token |-> token, list |-> empty]
    <3>1. cur + 2 \in DOMAIN input
      <4>1. token # "TK_UNASSIGNED_TOKEN"
        BY <1>4 DEF TypeTokens
      <4>2. (cur + 1) + 1 \in DOMAIN input
        BY <1>1, <4>1, AnotherFollows
      <4> QED
        BY <1>1, <4>2 DEF Inv, TypeOK
    <3>2. BlockOf(name) = One(nameOk) /\ name \in Name \cup {NULL}
      BY <1>4, <3>1, CopyBlock
    <3>3. << >> \in Seq(Element) /\ _token_to_type(token) \in FieldTypes
      BY <1>4, TokenTypes
    <3>4. empty \in List /\ empty.elems = << >>
      BY <3>3 DEF List
    <3>5. mcfg_free_list(empty) = 0
      <4>1. SumOver(ElementBlocks, << >>) = 0
        BY <3>3, ElementsTotal, SumOfEmpty
      <4> HIDE DEF empty
      <4> QED
        BY <3>4, <4>1, FreeListIs DEF ArrayOf
    <3>6. new \in ListRecord /\ new # NULL
      BY <1>4, <3>2, <3>4, ParserAssumption DEF ListRecord
    <3>7. BlocksOf(new) = One(nameOk) + 1
      <4>1. new.name = name /\ new.list = empty
        OBVIOUS
      <4> HIDE DEF new, name, empty
      <4> QED
        BY <2>2, <3>2, <3>5, <3>6, <4>1 DEF BlocksOf
    <3> HIDE DEF new, name, empty
    <3>8. One(listOk) = 1 /\ list' = new /\ file' = file /\ err' = err
      BY <2>4 DEF One, new, name, empty
    <3>9. Lost' = Lost
      <4>1. Lost' = live' - mcfg_free_file(file) - BlocksOf(new)
        BY <3>8 DEF Lost
      <4> QED
        BY <1>2, <1>4, <2>2, <3>7, <3>8, <4>1 DEF Lost
    <3>10. One(err # "MCFG_OK") = 0 /\ One(err' # "MCFG_OK") = 0
      BY <1>2, <3>8 DEF One
    <3>11. Lost \in 0 .. 2 * fails
      <4>1. Lost \in 0 .. One(err # "MCFG_OK") + 2 * fails
        BY <1>1, LostIs DEF Owned
      <4> QED
        BY <2>1, <3>10, <4>1
    <3>12. FreeIsComplete'
      <4>1. 0 \in 0 .. 1
        OBVIOUS
      <4>2. Lost' \in 0 .. 0 + 2 * fails'
        BY <2>1, <3>9, <3>11, <4>1, Between
      <4> QED
        BY <3>10, <4>2, LostPrime
    <3>13. live' \in Int /\ err' = "MCFG_OK" /\ pc' = "literal"
      <4>1. live' = live + One(nameOk) + 1
        BY <1>4, <3>8
      <4>2. live \in Int /\ live' \in Int
        BY <1>2, <2>2, <4>1
      <4> QED
        BY <1>2, <2>4, <3>8, <4>2
    <3> QED
      BY <3>12, <3>13 DEF Owned
  <2> QED
    BY <1>4, <2>3, <2>4
<1> QED
  BY <1>3, <1>4 DEF ParseList

\* The list in the loop, and what its name is.
LEMMA ListBlocks ==
    ASSUME Inv, pc \in {"literal", "comma"}
    PROVE  /\ BlocksOf(list) = BlockOf(list.name) + 1 + mcfg_free_list(list.list)
           /\ BlockOf(list.name) \in 0 .. 1 /\ mcfg_free_list(list.list) \in Nat
<1>1. list \in ListRecord /\ list.list \in List
  BY Building
<1>2. list # NULL
  BY <1>1, ParserAssumption
<1> QED
  BY <1>1, <1>2, FreeListIs DEF BlocksOf, BlockOf

\* A list is dropped with all it has but its name.
LEMMA OwnedDrop ==
    ASSUME Inv, Owned, pc \in {"literal", "comma"}, fails' \in Nat, fails' >= fails,
           NEW e, e # "MCFG_OK", NEW at, DropList(e, at)
    PROVE  Owned'
<1>1. CASE Return(e, at) /\ live' = live - mcfg_free_list(list.list) - 1
  <2>1. live' = live - BlocksOf(list) + BlockOf(list.name)
    BY <1>1, ListBlocks DEF Owned
  <2> QED
    BY <1>1, <2>1, ListBlocks, OwnedReturn
<1>2. CASE Crash
  BY <1>2, OwnedCrash
<1> QED
  BY <1>1, <1>2 DEF DropList

\* What an element adds to the blocks that are live, in each of its outcomes;
\* the block of its name, and that of its data, are lost with the array.
ElementBuilt(l, value, valueOk, nameOk, arrayOk) ==
    mcfg_add_list_field(l, IF valueOk THEN value ELSE NULL, nameOk, arrayOk)

Taken(valueOk, e, elems) ==
    One(valueOk) + CASE e = "MCFG_OK"      -> 1 + FirstIn(elems)
                     [] e = "MCFG_NULLPTR" -> 0
                     [] OTHER              -> 1

Outcome(l, add, taken, arrayOk) ==
    /\ taken \in Int /\ add.list \in List
    /\ \/ mcfg_free_list(add.list) = mcfg_free_list(l) + taken
       \/ arrayOk = FALSE /\ taken = 2 /\ add.list = l

\* An element that is added takes the blocks counted for it; of one that is not,
\* at most two blocks are lost, and an allocation has failed.
LEMMA ElementOutcome ==
    ASSUME NEW l \in List, NEW valueOk \in BOOLEAN, NEW nameOk \in BOOLEAN,
           NEW arrayOk \in BOOLEAN, NEW value \in Scalar,
           ElementBuilt(l, value, valueOk, nameOk, arrayOk).err # "fault"
    PROVE  Outcome(l, ElementBuilt(l, value, valueOk, nameOk, arrayOk),
                   Taken(valueOk, ElementBuilt(l, value, valueOk, nameOk, arrayOk).err, l.elems),
                   arrayOk)
<1> DEFINE add   == ElementBuilt(l, value, valueOk, nameOk, arrayOk)
           taken == Taken(valueOk, add.err, l.elems)
           data  == IF valueOk THEN value ELSE NULL
<1>1. value # NULL /\ (valueOk = TRUE <=> data # NULL) /\ data \in Scalar \cup {NULL}
  BY StoreAssumption
<1>2. add = mcfg_add_list_field(l, data, nameOk, arrayOk) /\ add.err # "fault"
  BY DEF ElementBuilt
<1> HIDE DEF data, add
<1>3. /\ add.err = "MCFG_OK" => mcfg_free_list(add.list) = mcfg_free_list(l) + 3 - ArrayOf(l.elems)
      /\ add.err # "MCFG_OK" => add.list = l
      /\ add.list \in List
  BY <1>1, <1>2, AddElementFrees, AddListFieldKeeps
<1>4. /\ add.err \in {"MCFG_OK", "MCFG_NULLPTR", "MCFG_MALLOC_FAIL"}
      /\ add.err = "MCFG_NULLPTR" <=> data = NULL
      /\ add.err = "MCFG_MALLOC_FAIL" => arrayOk = FALSE
  BY <1>2 DEF mcfg_add_list_field
<1>5. mcfg_free_list(l) \in Nat /\ FirstIn(l.elems) = 1 - ArrayOf(l.elems) /\ FirstIn(l.elems) \in {0, 1}
  BY FreeListIs, FirstIs
<1>6. CASE add.err = "MCFG_OK"
  <2>1. One(valueOk) = 1
    BY <1>1, <1>4, <1>6 DEF One
  <2>2. taken = 1 + (1 + FirstIn(l.elems))
    BY <1>6, <2>1 DEF Taken
  <2> QED
    BY <1>3, <1>5, <1>6, <2>2 DEF ArrayOf, add, Outcome
<1>7. CASE add.err = "MCFG_NULLPTR"
  <2>1. One(valueOk) = 0
    BY <1>1, <1>4, <1>7 DEF One
  <2>2. taken = 0 /\ add.list = l
    BY <1>3, <1>7, <2>1 DEF Taken
  <2> QED
    BY <1>3, <1>5, <2>2 DEF add, Outcome
<1>8. CASE add.err = "MCFG_MALLOC_FAIL"
  <2>1. One(valueOk) = 1
    BY <1>1, <1>4, <1>8 DEF One
  <2>2. taken = 2 /\ add.list = l
    BY <1>3, <1>8, <2>1 DEF Taken
  <2> QED
    BY <1>3, <1>4, <1>8, <2>2 DEF add, Outcome
<1> QED
  BY <1>4, <1>6, <1>7, <1>8

\* A literal of a list,
LEMMA OwnedLiteral == Inv /\ Owned /\ ListLiteral => Owned'
<1> SUFFICES ASSUME Inv, Owned, ListLiteral PROVE Owned'
  OBVIOUS
<1>1. pc = "literal" /\ cur \in DOMAIN input /\ fails \in Nat
  BY Placed, BlocksType DEF ListLiteral
<1>2. list \in ListRecord /\ list.list \in List /\ list.token \in TypeTokens
  BY <1>1, Building
<1>3. CASE DropList("MCFG_SYNTAX_ERROR", cur) /\ UNCHANGED fails
  <2>1. fails' \in Nat /\ fails' >= fails
    BY <1>1, <1>3
  <2> QED
    BY <1>1, <1>3, <2>1, OwnedDrop
<1>4. ASSUME NEW valueOk \in BOOLEAN, NEW nameOk \in BOOLEAN, NEW arrayOk \in BOOLEAN,
             LiteralAt(cur, list.token),
             Allocations(<<valueOk, nameOk, arrayOk>>),
             \/ DropList("MCFG_MALLOC_FAIL", cur)
             \/ Crash
             \/ HasText(cur, list.token) /\ AddElement(valueOk, nameOk, arrayOk)
      PROVE  Owned'
  <2>1. /\ fails' \in Nat /\ fails' >= fails
        /\ arrayOk = FALSE => fails' >= fails + 1
    <3>1. DOMAIN <<valueOk, nameOk, arrayOk>> = 1 .. 3
      OBVIOUS
    <3>2. arrayOk = FALSE => \E i \in 1 .. 3 : ~<<valueOk, nameOk, arrayOk>>[i]
      <4>1. ASSUME arrayOk = FALSE PROVE ~<<valueOk, nameOk, arrayOk>>[3]
        BY <4>1
      <4> QED
        BY <4>1
    <3> HIDE DEF One
    <3> QED
      BY <1>1, <1>4, <3>1, <3>2, OwnedFails
  <2>2. CASE DropList("MCFG_MALLOC_FAIL", cur)
    BY <1>1, <2>1, <2>2, OwnedDrop
  <2>3. CASE Crash
    BY <2>3, OwnedCrash
  <2>4. CASE HasText(cur, list.token) /\ AddElement(valueOk, nameOk, arrayOk)
    <3> DEFINE value == _parse_literal(cur, list.token)
               l     == list.list
               add   == ElementBuilt(l, value, valueOk, nameOk, arrayOk)
               taken == Taken(valueOk, add.err, l.elems)
    <3>1. value \in Scalar
      BY <1>1, <1>2, <1>4, <2>4, LiteralType DEF Inv
    <3>2. CASE /\ add.err # "fault"
               /\ list' = [list EXCEPT !.list = add.list]
               /\ live' = live + taken
               /\ pc' = "comma"
               /\ UNCHANGED <<file, err>>
      <4>1. /\ taken \in Int /\ add.list \in List
            /\ \/ mcfg_free_list(add.list) = mcfg_free_list(l) + taken
               \/ arrayOk = FALSE /\ taken = 2 /\ add.list = l
        <5>1. l \in List /\ add.err # "fault"
          BY <1>2, <3>2
        <5> HIDE DEF value, l
        <5>2. Outcome(l, add, taken, arrayOk)
          BY <3>1, <5>1, ElementOutcome
        <5> QED
          BY <5>2 DEF Outcome
      <4>2. add.list \in List
        BY <4>1
      <4> HIDE DEF taken, add, value
      <4>3. list' \in ListRecord /\ list'.list = add.list /\ list'.name = list.name
        BY <1>2, <3>2, <4>2 DEF ListRecord
      <4>4. BlocksOf(list') = BlockOf(list.name) + 1 + mcfg_free_list(add.list)
        <5>1. list' # NULL
          BY <4>3, ParserAssumption
        <5> QED
          BY <4>3, <5>1 DEF BlocksOf
      <4>5. mcfg_free_list(add.list) \in Nat
        BY <4>2, FreeListIs
      <4>6. /\ live \in Int /\ err = "MCFG_OK" /\ file' = file /\ err' = err
            /\ mcfg_free_file(file) \in Nat
        BY <1>1, <3>2, BlocksType DEF Owned
      <4>7. /\ Lost = live - mcfg_free_file(file) - (BlockOf(list.name) + 1 + mcfg_free_list(list.list))
            /\ Lost' = live' - mcfg_free_file(file)
                       - (BlockOf(list.name) + 1 + mcfg_free_list(add.list))
            /\ live' = live + taken
            /\ BlockOf(list.name) \in 0 .. 1 /\ mcfg_free_list(list.list) \in Nat
        <5>1. Lost = live - mcfg_free_file(file) - BlocksOf(list)
              /\ Lost' = live' - mcfg_free_file(file') - BlocksOf(list')
          BY DEF Lost
        <5>2. /\ BlocksOf(list) = BlockOf(list.name) + 1 + mcfg_free_list(list.list)
              /\ BlockOf(list.name) \in 0 .. 1 /\ mcfg_free_list(list.list) \in Nat
          BY <1>1, ListBlocks
        <5>3. live' = live + taken
          BY <3>2
        <5>4. Lost = live - mcfg_free_file(file)
                     - (BlockOf(list.name) + 1 + mcfg_free_list(list.list))
          BY <5>1, <5>2
        <5>5. Lost' = live' - mcfg_free_file(file)
                      - (BlockOf(list.name) + 1 + mcfg_free_list(add.list))
          BY <4>4, <4>6, <5>1
        <5> QED
          BY <5>2, <5>3, <5>4, <5>5
      <4>8. One(err # "MCFG_OK") = 0 /\ One(err' # "MCFG_OK") = 0
        BY <4>6 DEF One
      <4>9. Lost \in 0 .. 2 * fails
        <5>1. Lost \in 0 .. One(err # "MCFG_OK") + 2 * fails
          BY <1>1, LostIs DEF Owned
        <5> QED
          BY <1>1, <4>8, <5>1
      <4>10. \/ Lost' = Lost
             \/ arrayOk = FALSE /\ Lost' = Lost + 2
        <5>1. CASE mcfg_free_list(add.list) = mcfg_free_list(list.list) + taken
          BY <4>1, <4>5, <4>6, <4>7, <5>1
        <5>2. CASE arrayOk = FALSE /\ taken = 2 /\ add.list = list.list
          <6>1. Lost' = Lost + 2
            BY <4>5, <4>6, <4>7, <5>2
          <6> QED
            BY <5>2, <6>1
        <5> QED
          BY <4>1, <5>1, <5>2
      <4>11. Lost' \in 0 .. 0 + 2 * fails'
        <5>1. CASE Lost' = Lost
          <6>1. 0 \in 0 .. 1
            OBVIOUS
          <6> QED
            BY <1>1, <2>1, <4>9, <5>1, <6>1, Between
        <5>2. CASE arrayOk = FALSE /\ Lost' = Lost + 2
          <6>1. fails' >= fails + 1
            BY <2>1, <5>2
          <6>2. \A n \in Nat, m \in Nat : \A k \in 0 .. 2 * n :
                   m >= n + 1 => k + 2 \in 0 .. 0 + 2 * m
            OBVIOUS
          <6> QED
            BY <1>1, <2>1, <4>9, <5>2, <6>1, <6>2
        <5> QED
          BY <4>10, <5>1, <5>2
      <4>12. FreeIsComplete'
        BY <4>8, <4>11, LostPrime
      <4> QED
        BY <3>2, <4>1, <4>6, <4>12 DEF Owned
    <3>3. CASE Crash
      BY <3>3, OwnedCrash
    <3>4. \/ /\ add.err # "fault"
             /\ list' = [list EXCEPT !.list = add.list]
             /\ live' = live + One(valueOk)
                        + CASE add.err = "MCFG_OK"      -> 1 + FirstIn(list.list.elems)
                            [] add.err = "MCFG_NULLPTR" -> 0
                            [] OTHER                    -> 1
             /\ pc' = "comma"
             /\ UNCHANGED <<file, err>>
          \/ Crash
      BY <2>4 DEF AddElement, ElementBuilt
    <3>5. live \in Int /\ One(valueOk) \in Int /\ FirstIn(list.list.elems) \in Int
      BY FirstIs DEF Owned, One
    <3> HIDE DEF add
    <3>6. ASSUME NEW more, live' = live + One(valueOk) + more, more \in Int,
                 taken = One(valueOk) + more
          PROVE  live' = live + taken
      <4> HIDE DEF taken
      <4> QED
        BY <3>5, <3>6
    <3> QED
      BY <3>2, <3>3, <3>4, <3>5, <3>6 DEF Taken
  <2> QED
    BY <1>4, <2>2, <2>3, <2>4
<1> QED
  BY <1>3, <1>4 DEF ListLiteral
\* the end of the list, which the document takes over,
LEMMA OwnedDone == Inv /\ Owned /\ ListDone => Owned'
<1> SUFFICES ASSUME Inv, Owned, ListDone PROVE Owned'
  OBVIOUS
<1>1. pc = "comma" /\ cur \in DOMAIN input /\ errAt \in DOMAIN input
  BY Placed DEF ListDone
<1>2. /\ list \in ListRecord /\ list.list \in List /\ list.name \in Name \cup {NULL}
      /\ pts = "PTS_IN_SECTION"
  BY <1>1, Building
<1>3. PICK arrayOk \in BOOLEAN :
         LET add == mcfg_add_field(file, LastSector, LastSection, "TYPE_LIST",
                                   list.name, list.list, arrayOk)
         IN  /\ Allocations(<<arrayOk>>)
             /\ \/ Accepted(add, cur, pts, FirstIn(FieldArray)) /\ UNCHANGED errAt
                \/ add.err \notin {"MCFG_OK", "fault"} /\ DropList(add.err, errAt)
                \/ add.err = "fault" /\ Crash
  BY DEF ListDone
<1> DEFINE name   == list.name
           l      == list.list
           add    == mcfg_add_field(file, LastSector, LastSection, "TYPE_LIST",
                                    name, l, arrayOk)
           blocks == FirstIn(FieldArray)
<1>4. fails' \in Nat /\ fails' >= fails
  <2>1. DOMAIN <<arrayOk>> = 1 .. 1
    OBVIOUS
  <2> QED
    BY <1>3, <2>1, OwnedFails
<1>5. l # NULL /\ [type |-> "TYPE_LIST", data |-> l] \in Typed
  BY <1>2, StoreAssumption DEF Typed, FieldTypes
<1>6. mcfg_free_field(FieldOf(name, "TYPE_LIST", l)) = BlocksOf(list)
  <2>1. /\ FieldOf(name, "TYPE_LIST", l).name = name /\ FieldOf(name, "TYPE_LIST", l).data = l
        /\ FieldOf(name, "TYPE_LIST", l).type = "TYPE_LIST"
    BY DEF FieldOf
  <2>2. mcfg_free_field(FieldOf(name, "TYPE_LIST", l)) = BlockOf(name) + BlockOf(l) + mcfg_free_list(l)
    BY <1>5, <2>1 DEF mcfg_free_field
  <2>3. BlockOf(l) = 1
    BY <1>5 DEF BlockOf
  <2> QED
    BY <1>1, <2>2, <2>3, ListBlocks
<1>7. ASSUME add.err = "MCFG_OK"
      PROVE  mcfg_free_file(add.file) = mcfg_free_file(file) + BlocksOf(list) + 1 - ArrayOf(FieldArray)
  <2>1. mcfg_free_file(add.file)
          = mcfg_free_file(file) + mcfg_free_field(FieldOf(name, "TYPE_LIST", l))
            + 1 - ArrayOf(FieldArray)
    <3>1. name \in Name \cup {NULL}
      BY <1>2
    <3> HIDE DEF name, l
    <3> QED
      BY <1>1, <1>2, <1>5, <1>7, <3>1, FieldFrees
  <2> HIDE DEF name, l, add
  <2> QED
    BY <1>6, <2>1
<1> HIDE DEF add
<1>8. CASE Accepted(add, cur, pts, blocks)
  <2>1. add.err = "MCFG_OK" /\ mcfg_free_file(file) \in Nat /\ BlocksOf(list) \in Nat
    BY <1>8, BlocksType DEF Accepted
  <2>2. FirstIn(FieldArray) = 1 - ArrayOf(FieldArray) /\ ArrayOf(FieldArray) \in {0, 1}
    BY FirstIs DEF ArrayOf
  <2>3. /\ blocks \in Int
        /\ mcfg_free_file(add.file) = mcfg_free_file(file) + blocks + BlocksOf(list)
    BY <1>7, <2>1, <2>2
  <2> HIDE DEF blocks
  <2> QED
    BY <1>1, <1>4, <1>8, <2>3, OwnedAccepted
<1>9. CASE add.err \notin {"MCFG_OK", "fault"} /\ DropList(add.err, errAt)
  BY <1>1, <1>4, <1>9, OwnedDrop
<1>10. CASE Crash
  BY <1>10, OwnedCrash
<1> QED
  BY <1>3, <1>8, <1>9, <1>10 DEF add

\* and freeing the file at last.
LEMMA OwnedFree ==
    ASSUME Inv, Owned, pc \in {"failed", "returned"},
           NEW then \in {"cleaned", "freed"}, FreeFile(then)
    PROVE  Owned'
<1>1. /\ list' = list /\ list = NULL /\ err' = err /\ fails' = fails /\ live \in Int
      /\ pc # "crashed"
  BY DEF FreeFile, Owned
<1>2. CASE pc' = "crashed" /\ UNCHANGED live
  BY <1>1, <1>2 DEF Owned, FreeIsComplete
<1>3. CASE pc' = then /\ live' = live - mcfg_free_file(file) /\ file' = EmptyFile
  <2>1. mcfg_free_file(EmptyFile) = 0
    <3>1. << >> \in Seq(Field) /\ << >> \in Seq(Sector)
      OBVIOUS
    <3>2. EmptyFile \in File /\ EmptyFile.sectors = << >> /\ EmptyFile.dynfields = << >>
      BY <3>1 DEF EmptyFile, File
    <3>3. SumOver(FieldBlocks, << >>) = 0 /\ SumOver(SectorBlocks, << >>) = 0
      BY <3>1, FieldsTotal, SectorsTotal, SumOfEmpty
    <3> QED
      BY <3>2, <3>3, FreeFileIs DEF ArrayOf
  <2>2. mcfg_free_file(file) \in Nat /\ BlocksOf(NULL) = 0
    BY BlocksType
  <2>3. Lost = live - mcfg_free_file(file) - BlocksOf(NULL)
        /\ Lost' = live' - mcfg_free_file(EmptyFile) - BlocksOf(NULL)
    BY <1>1, <1>3 DEF Lost
  <2>4. Lost' = Lost /\ live' \in Int
    BY <1>1, <1>3, <2>1, <2>2, <2>3
  <2>5. Lost \in 0 .. One(err # "MCFG_OK") + 2 * fails
    BY <1>1, LostIs DEF Owned
  <2>6. FreeIsComplete'
    BY <1>1, <2>4, <2>5, LostPrime
  <2> QED
    BY <1>1, <1>3, <2>4, <2>6 DEF Owned
<1> QED
  BY <1>2, <1>3 DEF FreeFile

\* Steps that allocate and free nothing.
LEMMA OwnedSame ==
    ASSUME Owned, UNCHANGED <<list, file, err, live, fails>>,
           \/ pc' = pc
           \/ pc' = "literal" /\ pc = "comma"
           \/ pc' = "returned" /\ pc = "tree"
    PROVE  Owned'
BY DEF Owned, FreeIsComplete

\* Every step keeps it.
LEMMA OwnedNext == Inv /\ Owned /\ [Next]_vars => Owned'
<1> SUFFICES ASSUME Inv, Owned, [Next]_vars PROVE Owned'
  OBVIOUS
<1>1. CASE SyntaxError
  BY <1>1, OwnedFail DEF SyntaxError
<1>2. CASE ParseEnd
  <2>1. pc = "tree"
    BY <1>2 DEF ParseEnd, At
  <2>2. CASE Fail("MCFG_END_IN_NOWHERE")
    BY <2>1, <2>2, OwnedFail
  <2>3. CASE UNCHANGED <<input, pc, list, file, err, errAt, live, fails>>
    BY <2>3, OwnedSame
  <2> QED
    BY <1>2, <2>2, <2>3 DEF ParseEnd
<1>3. CASE Finish
  BY <1>3, OwnedSame DEF Finish, At
<1>4. CASE ListComma
  BY <1>4, OwnedSame DEF ListComma
<1>5. CASE CleanUp \/ CallerFrees
  BY <1>5, OwnedFree DEF CleanUp, CallerFrees
<1>6. CASE Stopped \/ UNCHANGED vars
  BY <1>6, OwnedSame DEF Stopped, vars
<1> QED
  BY <1>1, <1>2, <1>3, <1>4, <1>5, <1>6, OwnedSector, OwnedSection, OwnedField,
     OwnedList, OwnedLiteral, OwnedDone
  DEF Next, Parse

\* Whatever the tokens and whichever allocations fail: freeing the document
\* gives back every block of a parse that succeeds, a parse that fails loses
\* one block at most and a failing allocation two, and no block is freed that
\* is not live.
THEOREM FreedCompletely == Spec => []FreeIsComplete
<1>1. Init => Owned
  <2> SUFFICES ASSUME Init PROVE Owned
    OBVIOUS
  <2>1. mcfg_free_file(file) = 0
    <3>1. << >> \in Seq(Field) /\ << >> \in Seq(Sector)
      OBVIOUS
    <3>2. file \in File /\ file.sectors = << >> /\ file.dynfields = << >>
      BY <3>1 DEF Init, EmptyFile, File
    <3>3. SumOver(FieldBlocks, << >>) = 0 /\ SumOver(SectorBlocks, << >>) = 0
      BY <3>1, FieldsTotal, SectorsTotal, SumOfEmpty
    <3> QED
      BY <3>2, <3>3, FreeFileIs DEF ArrayOf
  <2>2. BlocksOf(list) = 0
    BY DEF Init, BlocksOf
  <2>3. Lost = 0 /\ One(err # "MCFG_OK") = 0 /\ fails = 0
    BY <2>1, <2>2 DEF Init, Lost, One
  <2>4. FreeIsComplete
    BY <2>3, LostIs
  <2> QED
    BY <2>4 DEF Init, Owned
<1>2. Owned => FreeIsComplete
  BY DEF Owned
<1> QED
  BY InitInv, NextInv, OwnedNext, <1>1, <1>2, PTL DEF Spec
-----------------------------------------------------------------------------
(* What can crash the program.                                               *)

\* Everything in the document, and the list under construction, has its name.
Named == AllNamed(file) /\ (list # NULL => list.name # NULL)

\* CrashHasCause alone is not inductive: that no lookup passes a null pointer
\* to strcmp takes that every name is there as long as no allocation fails.
Caused == CrashHasCause /\ (fails = 0 => Named)

\* A handler whose allocations leave the count at 0 has made all of them.
LEMMA NoneFailed ==
    ASSUME Inv, NEW n \in Nat, NEW oks, DOMAIN oks = 1 .. n, Allocations(oks),
           NEW ok \in BOOLEAN, NEW k \in 1 .. n, oks[k] = ok
    PROVE  fails' \in Nat /\ (fails' = 0 => fails = 0 /\ ok = TRUE)
<1>1. fails' \in Nat /\ fails' >= fails /\ fails \in Nat
  BY OwnedFails
<1>2. CASE ok = FALSE
  <2>1. ~oks[k]
    BY <1>2
  <2>2. fails' >= fails + 1
    BY <2>1, OwnedFails
  <2> QED
    BY <1>1, <2>2
<1>3. CASE ok = TRUE
  <2>1. fails' = 0 => fails = 0
    BY <1>1
  <2> QED
    BY <1>1, <1>3, <2>1
<1> QED
  BY <1>2, <1>3

\* An error leaves the names as they are.
LEMMA CausedReturn ==
    ASSUME Inv, Caused, fails' = 0 => fails = 0, NEW e, NEW at, Return(e, at)
    PROVE  Caused'
<1>1. file' = file /\ list' = NULL /\ pc' = "failed"
  BY DEF Return
<1>2. CrashHasCause'
  BY <1>1 DEF CrashHasCause
<1>3. fails' = 0 => Named'
  BY <1>1 DEF Caused, Named
<1> QED
  BY <1>2, <1>3 DEF Caused

\* A crash needs its cause.
LEMMA CausedCrash ==
    ASSUME Inv, Caused, fails' \in Nat, fails' = 0 => fails = 0, Crash,
           fails' = 0 => TruthWasLost \/ SomethingIsEmpty
    PROVE  Caused'
<1>1. UNCHANGED <<input, list, file>>
  BY DEF Crash
<1>2. TruthWasLost' <=> TruthWasLost
  BY <1>1 DEF TruthWasLost
<1>3. SomethingIsEmpty' <=> SomethingIsEmpty
  BY <1>1 DEF SomethingIsEmpty
<1>4. CrashHasCause'
  BY <1>2, <1>3 DEF CrashHasCause
<1>5. fails' = 0 => Named'
  BY <1>1 DEF Caused, Named
<1> QED
  BY <1>4, <1>5 DEF Caused

\* An add that succeeds needs its names.
LEMMA CausedAccepted ==
    ASSUME NEW add, NEW next, NEW state, NEW blocks,
           Accepted(add, next, state, blocks), fails' = 0 => AllNamed(add.file)
    PROVE  Caused'
<1>1. file' = add.file /\ list' = NULL /\ pc' = "tree"
  BY DEF Accepted
<1> QED
  BY <1>1 DEF Caused, CrashHasCause, Named

\* One that does not only crashes where an allocation has failed.
LEMMA CausedRefused ==
    ASSUME Inv, Caused, fails' \in Nat, fails' = 0 => fails = 0,
           NEW add, NEW at, NEW blocks, Refused(add, at, blocks),
           fails' = 0 => add.err # "fault"
    PROVE  Caused'
BY CausedReturn, CausedCrash DEF Refused

\* An error without an allocation.
LEMMA CausedFail == ASSUME Inv, Caused, NEW e, Fail(e) PROVE Caused'
BY CausedReturn DEF Fail

\* A list without elements is something empty.
LEMMA CausedDrop ==
    ASSUME Inv, Caused, pc \in {"literal", "comma"}, fails' \in Nat,
           fails' = 0 => fails = 0, NEW e, NEW at, DropList(e, at)
    PROVE  Caused'
<1>1. list # NULL
  BY Building, ParserAssumption
<1>2. list.list.elems = <<>> => SomethingIsEmpty
  BY <1>1 DEF SomethingIsEmpty
<1> QED
  BY <1>2, CausedReturn, CausedCrash DEF DropList

\* A name that has been copied.
LEMMA CopiedName ==
    ASSUME Inv, NEW i \in DOMAIN input, NameAt(i), NEW ok \in BOOLEAN, ok = TRUE
    PROVE  strdup(i, ok) \in Name
BY CopyBlock

\* A sector,
LEMMA CausedSector == Inv /\ Caused /\ ParseSector => Caused'
<1> SUFFICES ASSUME Inv, Caused, ParseSector PROVE Caused'
  OBVIOUS
<1>1. pc = "tree" /\ input[cur].token = "TK_SECTOR" /\ cur + 1 \in DOMAIN input
  <2>1. pc = "tree" /\ input[cur].token = "TK_SECTOR"
    BY DEF ParseSector, At
  <2> QED
    BY <2>1, Placed, AnotherFollows
<1>2. ASSUME NEW e, Fail(e)
      PROVE  Caused'
  BY <1>2, CausedFail
<1>3. ASSUME NEW nameOk \in BOOLEAN, NEW arrayOk \in BOOLEAN, NameAt(cur + 1),
             LET add == mcfg_add_sector(file, strdup(cur + 1, nameOk), arrayOk)
             IN  /\ Allocations(<<nameOk, arrayOk>>)
                 /\ \/ Accepted(add, cur + 2, "PTS_IN_SECTOR",
                                One(nameOk) + FirstIn(file.sectors))
                    \/ Refused(add, cur, One(nameOk))
      PROVE  Caused'
  <2> DEFINE name == strdup(cur + 1, nameOk)
             add  == mcfg_add_sector(file, name, arrayOk)
  <2>1. fails' \in Nat /\ (fails' = 0 => fails = 0 /\ nameOk = TRUE)
    <3>1. /\ DOMAIN <<nameOk, arrayOk>> = 1 .. 2 /\ <<nameOk, arrayOk>>[1] = nameOk
          /\ 1 \in 1 .. 2
      OBVIOUS
    <3>2. Allocations(<<nameOk, arrayOk>>)
      BY <1>3
    <3> QED
      BY <3>1, <3>2, NoneFailed
  <2>2. ASSUME fails' = 0 PROVE add.err # "fault" /\ AllNamed(add.file)
    <3>1. name \in Name
      BY <1>1, <1>3, <2>1, <2>2, CopiedName
    <3>2. AllNamed(file) /\ file \in File
      BY <1>1, <2>1, <2>2, Placed DEF Caused, Named
    <3> QED
      BY <3>1, <3>2, AddSectorNamed
  <2> HIDE DEF add
  <2>3. CASE Accepted(add, cur + 2, "PTS_IN_SECTOR", One(nameOk) + FirstIn(file.sectors))
    BY <2>2, <2>3, CausedAccepted
  <2>4. CASE Refused(add, cur, One(nameOk))
    BY <2>1, <2>2, <2>4, CausedRefused
  <2> QED
    BY <1>3, <2>3, <2>4 DEF add
<1> QED
  BY <1>2, <1>3 DEF ParseSector

\* a section,
LEMMA CausedSection == Inv /\ Caused /\ ParseSection => Caused'
<1> SUFFICES ASSUME Inv, Caused, ParseSection PROVE Caused'
  OBVIOUS
<1>1. pc = "tree" /\ input[cur].token = "TK_SECTION" /\ cur + 1 \in DOMAIN input
  <2>1. pc = "tree" /\ input[cur].token = "TK_SECTION"
    BY DEF ParseSection, At
  <2> QED
    BY <2>1, Placed, AnotherFollows
<1>2. ASSUME NEW e, Fail(e)
      PROVE  Caused'
  BY <1>2, CausedFail
<1>3. ASSUME pts = "PTS_IN_SECTOR", NEW nameOk \in BOOLEAN, NEW arrayOk \in BOOLEAN,
             NameAt(cur + 1),
             LET add == mcfg_add_section(file, LastSector, strdup(cur + 1, nameOk), arrayOk)
             IN  /\ Allocations(<<nameOk, arrayOk>>)
                 /\ \/ Accepted(add, cur + 2, "PTS_IN_SECTION", One(nameOk)
                                + FirstIn(file.sectors[LastSector].sections))
                    \/ Refused(add, cur, One(nameOk))
      PROVE  Caused'
  <2> DEFINE name == strdup(cur + 1, nameOk)
             add  == mcfg_add_section(file, LastSector, name, arrayOk)
             blocks == One(nameOk) + FirstIn(file.sectors[LastSector].sections)
  <2>1. fails' \in Nat /\ (fails' = 0 => fails = 0 /\ nameOk = TRUE)
    <3>1. /\ DOMAIN <<nameOk, arrayOk>> = 1 .. 2 /\ <<nameOk, arrayOk>>[1] = nameOk
          /\ 1 \in 1 .. 2
      OBVIOUS
    <3>2. Allocations(<<nameOk, arrayOk>>)
      BY <1>3
    <3> QED
      BY <3>1, <3>2, NoneFailed
  <2>2. ASSUME fails' = 0 PROVE add.err # "fault" /\ AllNamed(add.file)
    <3>1. name \in Name
      BY <1>1, <1>3, <2>1, <2>2, CopiedName
    <3>2. AllNamed(file) /\ file \in File /\ HasPlace(file, pts)
      BY <1>1, <2>1, <2>2, Placed DEF Caused, Named
    <3>3. LastSector \in DOMAIN file.sectors
      BY <1>3, <3>2, PlaceIndices DEF LastSector
    <3> QED
      BY <3>1, <3>2, <3>3, AddSectionNamed
  <2> HIDE DEF add, blocks
  <2>3. CASE Accepted(add, cur + 2, "PTS_IN_SECTION", blocks)
    BY <2>2, <2>3, CausedAccepted
  <2>4. CASE Refused(add, cur, One(nameOk))
    BY <2>1, <2>2, <2>4, CausedRefused
  <2> QED
    BY <1>3, <2>3, <2>4 DEF add, blocks
<1> QED
  BY <1>2, <1>3 DEF ParseSection

\* An entry with a name for the last section.
LEMMA LastFieldNamed ==
    ASSUME Inv, Caused, fails = 0, pc \in {"tree", "literal", "comma"},
           pts = "PTS_IN_SECTION", NEW type, NEW data, NEW name \in Name, NEW arrayOk
    PROVE  LET add == mcfg_add_field(file, LastSector, LastSection, type, name,
                                     data, arrayOk)
           IN  add.err # "fault" /\ AllNamed(add.file)
<1>1. AllNamed(file) /\ file \in File /\ HasPlace(file, pts)
  BY Placed DEF Caused, Named
<1>2. LastSector \in DOMAIN file.sectors
      /\ LastSection \in DOMAIN file.sectors[LastSector].sections
  BY <1>1, PlaceIndices DEF LastSector, LastSection
<1> QED
  BY <1>1, <1>2, AddFieldNamed

\* a field,
LEMMA CausedField == Inv /\ Caused /\ ParseField => Caused'
<1> SUFFICES ASSUME Inv, Caused, ParseField PROVE Caused'
  OBVIOUS
<1> DEFINE token == input[cur].token
<1>1. pc = "tree" /\ token \in TypeTokens /\ cur \in DOMAIN input
      /\ cur + 1 \in DOMAIN input
  <2>1. pc = "tree" /\ token \in TypeTokens
    BY DEF ParseField
  <2>2. token # "TK_UNASSIGNED_TOKEN"
    BY <2>1 DEF TypeTokens
  <2> QED
    BY <2>1, <2>2, Placed, AnotherFollows
<1>2. ASSUME NEW e, Fail(e)
      PROVE  Caused'
  BY <1>2, CausedFail
<1>3. ASSUME NEW nameOk \in BOOLEAN, NEW e, Allocations(<<nameOk>>), Return(e, cur)
      PROVE  Caused'
  <2>1. DOMAIN <<nameOk>> = 1 .. 1 /\ <<nameOk>>[1] = nameOk /\ 1 \in 1 .. 1
    OBVIOUS
  <2>2. fails' = 0 => fails = 0
    BY <1>3, <2>1, NoneFailed
  <2> QED
    BY <1>3, <2>2, CausedReturn
<1>4. ASSUME pts = "PTS_IN_SECTION", NameAt(cur + 1), FieldValueOf(token)
      PROVE  Caused'
  <2>1. ASSUME NEW nameOk \in BOOLEAN, NEW valueOk \in BOOLEAN, NEW arrayOk \in BOOLEAN,
               LET data == IF valueOk THEN _parse_literal(cur + 2, token) ELSE NULL
                   add  == mcfg_add_field(file, LastSector, LastSection,
                                          _token_to_type(token), strdup(cur + 1, nameOk),
                                          data, arrayOk)
               IN  /\ Allocations(<<nameOk, valueOk, arrayOk>>)
                   /\ \/ Return("MCFG_MALLOC_FAIL", cur)
                      \/ Accepted(add, cur + 2 + LiteralLen(token), pts,
                                  One(nameOk) + One(valueOk) + FirstIn(FieldArray))
                      \/ Refused(add, cur, One(nameOk))
        PROVE  Caused'
    <3> DEFINE data   == IF valueOk THEN _parse_literal(cur + 2, token) ELSE NULL
               name   == strdup(cur + 1, nameOk)
               type   == _token_to_type(token)
               add    == mcfg_add_field(file, LastSector, LastSection, type, name,
                                        data, arrayOk)
               next   == cur + 2 + LiteralLen(token)
               blocks == One(nameOk) + One(valueOk) + FirstIn(FieldArray)
    <3>1. fails' \in Nat /\ (fails' = 0 => fails = 0 /\ nameOk = TRUE)
      <4>1. DOMAIN <<nameOk, valueOk, arrayOk>> = 1 .. 3
            /\ <<nameOk, valueOk, arrayOk>>[1] = nameOk /\ 1 \in 1 .. 3
        OBVIOUS
      <4>2. Allocations(<<nameOk, valueOk, arrayOk>>)
        BY <2>1
      <4> QED
        BY <4>1, <4>2, NoneFailed
    <3>2. ASSUME fails' = 0 PROVE add.err # "fault" /\ AllNamed(add.file)
      <4>1. name \in Name
        BY <1>1, <1>4, <3>1, <3>2, CopiedName
      <4> HIDE DEF data, name, type
      <4> QED
        BY <1>1, <1>4, <3>1, <3>2, <4>1, LastFieldNamed
    <3> HIDE DEF add, next, blocks
    <3>3. CASE Return("MCFG_MALLOC_FAIL", cur)
      BY <3>1, <3>3, CausedReturn
    <3>4. CASE Accepted(add, next, pts, blocks)
      BY <3>2, <3>4, CausedAccepted
    <3>5. CASE Refused(add, cur, One(nameOk))
      BY <3>1, <3>2, <3>5, CausedRefused
    <3> QED
      BY <2>1, <3>3, <3>4, <3>5 DEF add, next, blocks
  <2> QED
    BY <1>4, <2>1 DEF FieldValueOf
<1> QED
  BY <1>2, <1>3, <1>4 DEF ParseField

\* the head of a list,
LEMMA CausedList == Inv /\ Caused /\ ParseList => Caused'
<1> SUFFICES ASSUME Inv, Caused, ParseList PROVE Caused'
  OBVIOUS
<1>1. pc = "tree" /\ cur \in DOMAIN input /\ cur + 1 \in DOMAIN input
  <2>1. pc = "tree" /\ input[cur].token = "TK_LIST"
    BY DEF ParseList, At
  <2> QED
    BY <2>1, Placed, AnotherFollows
<1>2. ASSUME NEW e, Fail(e)
      PROVE  Caused'
  BY <1>2, CausedFail
<1>3. ASSUME input[cur + 1].token \in TypeTokens, NameAt(cur + 2),
             NEW nameOk \in BOOLEAN, NEW listOk \in BOOLEAN,
             Allocations(<<nameOk, listOk>>),
             \/ Return("MCFG_MALLOC_FAIL", cur)
             \/ /\ pc' = "literal"
                /\ list' = [name  |-> strdup(cur + 2, nameOk),
                            token |-> input[cur + 1].token,
                            list  |-> [type |-> _token_to_type(input[cur + 1].token),
                                       elems |-> <<>>]]
                /\ UNCHANGED file
      PROVE  Caused'
  <2>1. fails' \in Nat /\ (fails' = 0 => fails = 0 /\ nameOk = TRUE)
    <3>1. /\ DOMAIN <<nameOk, listOk>> = 1 .. 2 /\ <<nameOk, listOk>>[1] = nameOk
          /\ 1 \in 1 .. 2
      OBVIOUS
    <3> QED
      BY <1>3, <3>1, NoneFailed
  <2>2. CASE Return("MCFG_MALLOC_FAIL", cur)
    BY <2>1, <2>2, CausedReturn
  <2>3. CASE pc' = "literal" /\ list'.name = strdup(cur + 2, nameOk) /\ UNCHANGED file
    <3>1. CrashHasCause'
      BY <2>3 DEF CrashHasCause
    <3>2. ASSUME fails' = 0 PROVE Named'
      <4>1. cur + 2 \in DOMAIN input
        <5>1. input[cur + 1].token # "TK_UNASSIGNED_TOKEN"
          BY <1>3 DEF TypeTokens
        <5>2. (cur + 1) + 1 \in DOMAIN input
          BY <1>1, <5>1, AnotherFollows
        <5> QED
          BY <1>1, <5>2 DEF Inv, TypeOK
      <4>2. strdup(cur + 2, nameOk) \in Name
        BY <1>3, <2>1, <3>2, <4>1, CopiedName
      <4> QED
        BY <2>1, <2>3, <3>2, <4>2, StoreAssumption DEF Caused, Named
    <3> QED
      BY <3>1, <3>2 DEF Caused
  <2> QED
    BY <1>3, <2>2, <2>3
<1> QED
  BY <1>2, <1>3 DEF ParseList

\* a literal of a list, which lacks its text only where a truth value does,
LEMMA CausedLiteral == Inv /\ Caused /\ ListLiteral => Caused'
<1> SUFFICES ASSUME Inv, Caused, ListLiteral PROVE Caused'
  OBVIOUS
<1>1. pc = "literal" /\ cur \in DOMAIN input /\ fails \in Nat
  BY Placed, BlocksType DEF ListLiteral
<1>2. list \in ListRecord /\ list.list \in List /\ list.token \in TypeTokens
  BY <1>1, Building
<1>3. CASE DropList("MCFG_SYNTAX_ERROR", cur) /\ UNCHANGED fails
  BY <1>1, <1>3, CausedDrop
<1>4. ASSUME NEW valueOk \in BOOLEAN, NEW nameOk \in BOOLEAN, NEW arrayOk \in BOOLEAN,
             LiteralAt(cur, list.token),
             Allocations(<<valueOk, nameOk, arrayOk>>),
             \/ DropList("MCFG_MALLOC_FAIL", cur)
             \/ ~HasText(cur, list.token) /\ Crash
             \/ HasText(cur, list.token) /\ AddElement(valueOk, nameOk, arrayOk)
      PROVE  Caused'
  <2>1. /\ fails' \in Nat
        /\ fails' = 0 => fails = 0 /\ nameOk = TRUE
    <3>1. DOMAIN <<valueOk, nameOk, arrayOk>> = 1 .. 3
          /\ <<valueOk, nameOk, arrayOk>>[2] = nameOk /\ 2 \in 1 .. 3
      OBVIOUS
    <3> QED
      BY <1>4, <3>1, NoneFailed
  <2>2. CASE DropList("MCFG_MALLOC_FAIL", cur)
    BY <1>1, <2>1, <2>2, CausedDrop
  <2>3. CASE ~HasText(cur, list.token) /\ Crash
    <3>1. input[cur] \in LexedToken /\ input[cur].value = NULL
      BY <1>1, <2>3 DEF Inv, TypeOK, HasText
    <3>2. list.token # "TK_STR"
      BY <2>3 DEF HasText
    <3>3. input[cur].token \in {"TK_NUMBER", "TK_BOOLEAN"}
      BY <1>2, <1>4, <3>2 DEF LiteralAt, _type_to_literal_type, TypeTokens
    <3>4. input[cur].token # "TK_NUMBER"
      <4>1. ASSUME input[cur].token = "TK_NUMBER" PROVE input[cur].value \in [number : Int]
        BY <3>1, <4>1 DEF LexedToken
      <4> QED
        BY <3>1, <4>1, ParserAssumption
    <3>5. TruthWasLost
      BY <1>1, <3>1, <3>3, <3>4 DEF TruthWasLost
    <3> QED
      BY <2>1, <2>3, <3>5, CausedCrash
  <2>4. CASE HasText(cur, list.token) /\ AddElement(valueOk, nameOk, arrayOk)
    <3> DEFINE data == IF valueOk THEN _parse_literal(cur, list.token) ELSE NULL
               add  == mcfg_add_list_field(list.list, data, nameOk, arrayOk)
    <3>1. add.err = "fault" => nameOk = FALSE
      <4> HIDE DEF data
      <4> QED
        BY DEF mcfg_add_list_field
    <3> HIDE DEF add
    <3>2. CASE list' = [list EXCEPT !.list = add.list] /\ pc' = "comma" /\ UNCHANGED file
      <4>1. list'.name = list.name /\ list # NULL
        BY <1>2, <3>2, ParserAssumption DEF ListRecord
      <4> QED
        BY <2>1, <3>2, <4>1 DEF Caused, CrashHasCause, Named
    <3>3. CASE add.err = "fault" /\ Crash
      BY <2>1, <3>1, <3>3, CausedCrash
    <3> QED
      BY <2>4, <3>2, <3>3 DEF AddElement, add
  <2> QED
    BY <1>4, <2>2, <2>3, <2>4
<1> QED
  BY <1>3, <1>4 DEF ListLiteral

\* the end of the list,
LEMMA CausedDone == Inv /\ Caused /\ ListDone => Caused'
<1> SUFFICES ASSUME Inv, Caused, ListDone PROVE Caused'
  OBVIOUS
<1>1. pc = "comma"
  BY DEF ListDone
<1>2. /\ list.list \in List /\ list.name \in Name \cup {NULL} /\ list # NULL
      /\ pts = "PTS_IN_SECTION"
  BY <1>1, Building, ParserAssumption
<1>3. PICK arrayOk \in BOOLEAN :
         LET add == mcfg_add_field(file, LastSector, LastSection, "TYPE_LIST",
                                   list.name, list.list, arrayOk)
         IN  /\ Allocations(<<arrayOk>>)
             /\ \/ Accepted(add, cur, pts, FirstIn(FieldArray)) /\ UNCHANGED errAt
                \/ add.err \notin {"MCFG_OK", "fault"} /\ DropList(add.err, errAt)
                \/ add.err = "fault" /\ Crash
  BY DEF ListDone
<1> DEFINE name   == list.name
           data   == list.list
           add    == mcfg_add_field(file, LastSector, LastSection, "TYPE_LIST",
                                    name, data, arrayOk)
           blocks == FirstIn(FieldArray)
<1>4. fails' \in Nat /\ (fails' = 0 => fails = 0)
  <2>1. DOMAIN <<arrayOk>> = 1 .. 1 /\ <<arrayOk>>[1] = arrayOk /\ 1 \in 1 .. 1
    OBVIOUS
  <2> QED
    BY <1>3, <2>1, NoneFailed
<1>5. ASSUME fails' = 0 PROVE add.err # "fault" /\ AllNamed(add.file)
  <2>1. name \in Name
    BY <1>2, <1>4, <1>5 DEF Caused, Named
  <2> HIDE DEF name, data
  <2> QED
    BY <1>1, <1>2, <1>4, <1>5, <2>1, LastFieldNamed
<1> HIDE DEF add, blocks
<1>6. CASE Accepted(add, cur, pts, blocks)
  BY <1>5, <1>6, CausedAccepted
<1>7. CASE DropList(add.err, errAt)
  BY <1>1, <1>4, <1>7, CausedDrop
<1>8. CASE add.err = "fault" /\ Crash
  BY <1>4, <1>5, <1>8, CausedCrash
<1> QED
  BY <1>3, <1>6, <1>7, <1>8 DEF add, blocks

\* and freeing the file, where an array that was never assigned is one of
\* something empty.
LEMMA CausedFree ==
    ASSUME Inv, Caused, pc \in {"failed", "returned"},
           NEW then \in {"cleaned", "freed"}, FreeFile(then)
    PROVE  Caused'
<1>1. UNCHANGED <<input, list, fails>>
  BY DEF FreeFile
<1>2. CASE pc' = then /\ file' = EmptyFile
  <2>1. AllNamed(EmptyFile)
    BY DEF EmptyFile, AllNamed, HasNames
  <2> QED
    BY <1>1, <1>2, <2>1 DEF Caused, CrashHasCause, Named
<1>3. CASE /\ FreesWildArray(file) \/ FreesWildList(file)
           /\ UNCHANGED file
  <2>1. SomethingIsEmpty
    BY <1>3 DEF SomethingIsEmpty, FreesWildArray, FreesWildList, LacksSomething
  <2>2. SomethingIsEmpty'
    BY <1>1, <1>3, <2>1 DEF SomethingIsEmpty
  <2> QED
    BY <1>1, <1>3, <2>2 DEF Caused, CrashHasCause, Named
<1> QED
  BY <1>2, <1>3 DEF FreeFile

\* Steps that change nothing the two conjuncts speak of.
LEMMA CausedSame ==
    ASSUME Caused, UNCHANGED <<input, list, file, fails>>, pc' = pc \/ pc' # "crashed"
    PROVE  Caused'
<1>1. TruthWasLost' <=> TruthWasLost
  BY DEF TruthWasLost
<1>2. SomethingIsEmpty' <=> SomethingIsEmpty
  BY DEF SomethingIsEmpty
<1> QED
  BY <1>1, <1>2 DEF Caused, CrashHasCause, Named

\* Every step keeps both.
LEMMA CausedNext == Inv /\ Caused /\ [Next]_vars => Caused'
<1> SUFFICES ASSUME Inv, Caused, [Next]_vars PROVE Caused'
  OBVIOUS
<1>1. CASE SyntaxError
  BY <1>1, CausedFail DEF SyntaxError
<1>2. CASE ParseEnd
  <2>1. CASE Fail("MCFG_END_IN_NOWHERE")
    BY <2>1, CausedFail
  <2>2. CASE UNCHANGED <<input, pc, list, file, err, errAt, live, fails>>
    BY <2>2, CausedSame
  <2> QED
    BY <1>2, <2>1, <2>2 DEF ParseEnd
<1>3. CASE Finish
  BY <1>3, CausedSame DEF Finish
<1>4. CASE ListComma
  BY <1>4, CausedSame DEF ListComma
<1>5. CASE CleanUp \/ CallerFrees
  BY <1>5, CausedFree DEF CleanUp, CallerFrees
<1>6. CASE Stopped \/ UNCHANGED vars
  BY <1>6, CausedSame DEF Stopped, vars
<1> QED
  BY <1>1, <1>2, <1>3, <1>4, <1>5, <1>6, CausedSector, CausedSection, CausedField,
     CausedList, CausedLiteral, CausedDone
  DEF Next, Parse

\* Whatever the tokens: as long as memory lasts, the parser and the freeing of
\* its document crash for one reason only, a sector, a section or a list that
\* is still empty when it is freed.
THEOREM CrashesHaveACause == Spec => []CrashHasCause
<1>1. Init => Caused
  BY DEF Init, Caused, CrashHasCause, Named, EmptyFile, AllNamed, HasNames
<1>2. Caused => CrashHasCause
  BY DEF Caused
<1> QED
  BY InitInv, NextInv, CausedNext, <1>1, <1>2, PTL DEF Spec
-----------------------------------------------------------------------------
(* The document under construction as a tree.                                *)

\* What an add needs to find, besides names that are unique: the lists are as
\* mcfg_add_list_field makes them, the one under construction as well.
TreeInv ==
    /\ AllLists(file) /\ IsTree(file)
    /\ list # NULL => Positioned(list.list)

\* A step that declares an entry.
Declared ==
    /\ HasFile /\ HasFile' /\ AllLists(file') /\ list' = NULL
    /\ \E path, step, N : Adds(file, file', path, step, N)

\* A step that does not.
Kept ==
    /\ HasFile <=> HasFile'
    /\ file' = file
    /\ list' # NULL => Positioned(list'.list)

\* A step that frees the document.
Discarded == file' = EmptyFile /\ ~HasFile' /\ list' = list

\* What the ends of the handlers are,
LEMMA KeptReturn ==
    ASSUME HasFile, NEW e, NEW at, Return(e, at)
    PROVE  Kept
BY DEF Return, Kept, HasFile

\* and so does a crash,
LEMMA KeptCrash ==
    ASSUME HasFile, TreeInv, Crash
    PROVE  Kept
BY DEF Crash, Kept, HasFile, TreeInv

\* an add that does not succeed,
LEMMA KeptRefused ==
    ASSUME HasFile, TreeInv, NEW add, NEW at, NEW blocks, Refused(add, at, blocks)
    PROVE  Kept
BY KeptReturn, KeptCrash DEF Refused

\* an error without an allocation,
LEMMA KeptFail ==
    ASSUME HasFile, NEW e, Fail(e)
    PROVE  Kept
BY KeptReturn DEF Fail

\* and a list that is dropped.
LEMMA KeptDrop ==
    ASSUME HasFile, TreeInv, NEW e, NEW at, DropList(e, at)
    PROVE  Kept
BY KeptReturn, KeptCrash DEF DropList

\* An add that succeeds declares its entry.
LEMMA DeclaredAccepted ==
    ASSUME HasFile, NEW add, NEW next, NEW state, NEW blocks,
           Accepted(add, next, state, blocks),
           AllLists(add.file), \E path, step, N : Adds(file, add.file, path, step, N)
    PROVE  Declared
BY DEF Accepted, Declared, HasFile

\* A sector,
LEMMA TreeSector == Inv /\ TreeInv /\ ParseSector => Declared \/ Kept
<1> SUFFICES ASSUME Inv, TreeInv, ParseSector PROVE Declared \/ Kept
  OBVIOUS
<1>1. pc = "tree" /\ input[cur].token = "TK_SECTOR" /\ cur + 1 \in DOMAIN input
      /\ HasFile
  <2>1. pc = "tree" /\ input[cur].token = "TK_SECTOR" /\ HasFile
    BY DEF ParseSector, At, HasFile
  <2> QED
    BY <2>1, Placed, AnotherFollows
<1>2. ASSUME NEW e, Fail(e)
      PROVE  Kept
  BY <1>1, <1>2, KeptFail
<1>3. ASSUME NEW nameOk \in BOOLEAN, NEW arrayOk \in BOOLEAN, NameAt(cur + 1),
             LET add == mcfg_add_sector(file, strdup(cur + 1, nameOk), arrayOk)
             IN  \/ Accepted(add, cur + 2, "PTS_IN_SECTOR",
                             One(nameOk) + FirstIn(file.sectors))
                 \/ Refused(add, cur, One(nameOk))
      PROVE  Declared \/ Kept
  <2> DEFINE name == strdup(cur + 1, nameOk)
             add  == mcfg_add_sector(file, name, arrayOk)
             blocks == One(nameOk) + FirstIn(file.sectors)
  <2>1. name \in Name \cup {NULL} /\ file \in File /\ AllLists(file)
    BY <1>1, <1>3, NameType, Placed DEF TreeInv
  <2> HIDE DEF name
  <2>2. AllLists(add.file)
    BY <2>1, AddSectorLists
  <2>3. ASSUME add.err = "MCFG_OK"
        PROVE  \E path, step, N : Adds(file, add.file, path, step, N)
    BY <2>1, <2>3, AddSectorAdds
  <2> HIDE DEF add, blocks
  <2>4. CASE Accepted(add, cur + 2, "PTS_IN_SECTOR", blocks)
    <3>1. add.err = "MCFG_OK"
      BY <2>4 DEF Accepted
    <3> QED
      BY <1>1, <2>2, <2>3, <2>4, <3>1, DeclaredAccepted
  <2>5. CASE Refused(add, cur, One(nameOk))
    BY <1>1, <2>5, KeptRefused
  <2> QED
    BY <1>3, <2>4, <2>5 DEF add, name, blocks
<1> QED
  BY <1>2, <1>3 DEF ParseSector

\* a section,
LEMMA TreeSection == Inv /\ TreeInv /\ ParseSection => Declared \/ Kept
<1> SUFFICES ASSUME Inv, TreeInv, ParseSection PROVE Declared \/ Kept
  OBVIOUS
<1>1. pc = "tree" /\ input[cur].token = "TK_SECTION" /\ cur + 1 \in DOMAIN input
      /\ HasFile
  <2>1. pc = "tree" /\ input[cur].token = "TK_SECTION" /\ HasFile
    BY DEF ParseSection, At, HasFile
  <2> QED
    BY <2>1, Placed, AnotherFollows
<1>2. ASSUME NEW e, Fail(e)
      PROVE  Kept
  BY <1>1, <1>2, KeptFail
<1>3. ASSUME pts = "PTS_IN_SECTOR", NEW nameOk \in BOOLEAN, NEW arrayOk \in BOOLEAN,
             NameAt(cur + 1),
             LET add == mcfg_add_section(file, LastSector, strdup(cur + 1, nameOk), arrayOk)
             IN  \/ Accepted(add, cur + 2, "PTS_IN_SECTION", One(nameOk)
                             + FirstIn(file.sectors[LastSector].sections))
                 \/ Refused(add, cur, One(nameOk))
      PROVE  Declared \/ Kept
  <2> DEFINE name == strdup(cur + 1, nameOk)
             add  == mcfg_add_section(file, LastSector, name, arrayOk)
             blocks == One(nameOk) + FirstIn(file.sectors[LastSector].sections)
  <2>1. name \in Name \cup {NULL} /\ file \in File /\ AllLists(file)
        /\ AllNamesUnique(file)
    BY <1>1, <1>3, NameType, Placed DEF TreeInv
  <2>2. LastSector \in 1 .. Len(file.sectors)
    <3>1. LastSector \in DOMAIN file.sectors
      BY <1>1, <1>3, <2>1, Placed, PlaceIndices DEF LastSector
    <3> QED
      BY <2>1, <3>1, FileParts
  <2> HIDE DEF name
  <2>3. AllLists(add.file)
    BY <2>1, <2>2, AddSectionLists
  <2>4. ASSUME add.err = "MCFG_OK"
        PROVE  \E path, step, N : Adds(file, add.file, path, step, N)
    BY <2>1, <2>2, <2>4, AddSectionAdds
  <2> HIDE DEF add, blocks
  <2>5. CASE Accepted(add, cur + 2, "PTS_IN_SECTION", blocks)
    <3>1. add.err = "MCFG_OK"
      BY <2>5 DEF Accepted
    <3> QED
      BY <1>1, <2>3, <2>4, <2>5, <3>1, DeclaredAccepted
  <2>6. CASE Refused(add, cur, One(nameOk))
    BY <1>1, <2>6, KeptRefused
  <2> QED
    BY <1>3, <2>5, <2>6 DEF add, name, blocks
<1> QED
  BY <1>2, <1>3 DEF ParseSection

\* A field for the last section.
LEMMA LastFieldAdds ==
    ASSUME Inv, TreeInv, pc \in {"tree", "literal", "comma"}, pts = "PTS_IN_SECTION",
           NEW type, NEW data, [type |-> type, data |-> data] \in Typed,
           WellListed([type |-> type, data |-> data]),
           NEW name \in Name \cup {NULL}, NEW arrayOk
    PROVE  LET add == mcfg_add_field(file, LastSector, LastSection, type, name,
                                     data, arrayOk)
           IN  /\ AllLists(add.file)
               /\ add.err = "MCFG_OK" =>
                     \E path, step, N : Adds(file, add.file, path, step, N)
<1> DEFINE s == LastSector
           t == LastSection
<1>1. file \in File /\ AllLists(file) /\ AllNamesUnique(file)
  BY Placed DEF TreeInv
<1>2. s \in 1 .. Len(file.sectors) /\ t \in 1 .. Len(file.sectors[s].sections)
  <2>1. s \in DOMAIN file.sectors /\ t \in DOMAIN file.sectors[s].sections
    BY <1>1, Placed, PlaceIndices DEF LastSector, LastSection
  <2> HIDE DEF s, t
  <2> QED
    BY <1>1, <2>1, FileParts, SectorParts
<1> HIDE DEF s, t
<1>3. AllLists(mcfg_add_field(file, s, t, type, name, data, arrayOk).file)
  BY <1>1, <1>2, AddFieldLists
<1>4. ASSUME mcfg_add_field(file, s, t, type, name, data, arrayOk).err = "MCFG_OK"
      PROVE  \E N : Adds(file, mcfg_add_field(file, s, t, type, name, data, arrayOk).file,
                         SectionPath(file, s, t), Step("field", remove_newline(name)), N)
  BY <1>1, <1>2, <1>4, AddFieldAdds
<1> QED
  BY <1>3, <1>4 DEF s, t

\* a field, whose value is not a list,
LEMMA TreeField == Inv /\ TreeInv /\ ParseField => Declared \/ Kept
<1> SUFFICES ASSUME Inv, TreeInv, ParseField PROVE Declared \/ Kept
  OBVIOUS
<1> DEFINE token == input[cur].token
<1>1. pc = "tree" /\ token \in TypeTokens /\ cur \in DOMAIN input
      /\ cur + 1 \in DOMAIN input /\ HasFile
  <2>1. pc = "tree" /\ token \in TypeTokens /\ HasFile
    BY DEF ParseField, HasFile
  <2>2. token # "TK_UNASSIGNED_TOKEN"
    BY <2>1 DEF TypeTokens
  <2> QED
    BY <2>1, <2>2, Placed, AnotherFollows
<1>2. ASSUME NEW e, Fail(e)
      PROVE  Kept
  BY <1>1, <1>2, KeptFail
<1>3. ASSUME NEW e, Return(e, cur)
      PROVE  Kept
  BY <1>1, <1>3, KeptReturn
<1>4. ASSUME pts = "PTS_IN_SECTION", NameAt(cur + 1),
             LiteralAt(cur + 2, token), HasText(cur + 2, token), FieldValueOf(token)
      PROVE  Declared \/ Kept
  <2>1. ASSUME NEW nameOk \in BOOLEAN, NEW valueOk \in BOOLEAN, NEW arrayOk \in BOOLEAN,
               LET data == IF valueOk THEN _parse_literal(cur + 2, token) ELSE NULL
                   add  == mcfg_add_field(file, LastSector, LastSection,
                                          _token_to_type(token), strdup(cur + 1, nameOk),
                                          data, arrayOk)
               IN  \/ Return("MCFG_MALLOC_FAIL", cur)
                   \/ Accepted(add, cur + 2 + LiteralLen(token), pts,
                               One(nameOk) + One(valueOk) + FirstIn(FieldArray))
                   \/ Refused(add, cur, One(nameOk))
        PROVE  Declared \/ Kept
    <3> DEFINE data   == IF valueOk THEN _parse_literal(cur + 2, token) ELSE NULL
               name   == strdup(cur + 1, nameOk)
               type   == _token_to_type(token)
               add    == mcfg_add_field(file, LastSector, LastSection, type, name,
                                        data, arrayOk)
               next   == cur + 2 + LiteralLen(token)
               blocks == One(nameOk) + One(valueOk) + FirstIn(FieldArray)
    <3>1. name \in Name \cup {NULL} /\ (cur + 1) + 1 \in DOMAIN input
      BY <1>1, <1>4, NameType
    <3>2. data \in Scalar \cup {NULL}
      <4>1. cur + 2 \in DOMAIN input
        BY <1>1, <3>1 DEF Inv, TypeOK
      <4>2. _parse_literal(cur + 2, token) \in Scalar
        BY <1>1, <1>4, <4>1, LiteralType DEF Inv
      <4> QED
        BY <4>2
    <3>3. type \in FieldTypes \ {"TYPE_LIST"}
      BY <1>1, TokenTypes
    <3> HIDE DEF data, name, type
    <3>4. /\ [type |-> type, data |-> data] \in Typed
          /\ WellListed([type |-> type, data |-> data])
      BY <3>2, <3>3 DEF Typed, WellListed
    <3>5. AllLists(add.file)
          /\ (add.err = "MCFG_OK" => \E path, step, N : Adds(file, add.file, path, step, N))
      BY <1>1, <1>4, <3>1, <3>4, LastFieldAdds
    <3> HIDE DEF add, next, blocks
    <3>6. CASE Return("MCFG_MALLOC_FAIL", cur)
      BY <1>3, <3>6
    <3>7. CASE Accepted(add, next, pts, blocks)
      <4>1. add.err = "MCFG_OK"
        BY <3>7 DEF Accepted
      <4> QED
        BY <1>1, <3>5, <3>7, <4>1, DeclaredAccepted
    <3>8. CASE Refused(add, cur, One(nameOk))
      BY <1>1, <3>8, KeptRefused
    <3> QED
      BY <2>1, <3>6, <3>7, <3>8 DEF add, data, name, type, next, blocks
  <2> QED
    BY <1>4, <2>1 DEF FieldValueOf
<1> QED
  BY <1>2, <1>3, <1>4 DEF ParseField

\* the head of a list, which has no element yet,
LEMMA TreeList == Inv /\ TreeInv /\ ParseList => Kept
<1> SUFFICES ASSUME Inv, TreeInv, ParseList PROVE Kept
  OBVIOUS
<1>1. pc = "tree" /\ HasFile
  BY DEF ParseList, At, HasFile
<1>2. ASSUME NEW e, Fail(e)
      PROVE  Kept
  BY <1>1, <1>2, KeptFail
<1>3. ASSUME NEW nameOk \in BOOLEAN, NEW listOk \in BOOLEAN,
             \/ Return("MCFG_MALLOC_FAIL", cur)
             \/ /\ pc' = "literal"
                /\ list' = [name  |-> strdup(cur + 2, nameOk),
                            token |-> input[cur + 1].token,
                            list  |-> [type |-> _token_to_type(input[cur + 1].token),
                                       elems |-> <<>>]]
                /\ UNCHANGED file
      PROVE  Kept
  <2>1. CASE Return("MCFG_MALLOC_FAIL", cur)
    BY <1>1, <2>1, KeptReturn
  <2>2. CASE pc' = "literal" /\ list'.list.elems = << >> /\ UNCHANGED file
    BY <1>1, <2>2 DEF Kept, HasFile, Positioned
  <2> QED
    BY <1>3, <2>1, <2>2
<1> QED
  BY <1>2, <1>3 DEF ParseList

\* an element of the list, which is not in the document yet,
LEMMA TreeLiteral == Inv /\ TreeInv /\ ListLiteral => Kept
<1> SUFFICES ASSUME Inv, TreeInv, ListLiteral PROVE Kept
  OBVIOUS
<1>1. pc = "literal" /\ HasFile
  BY DEF ListLiteral, HasFile
<1>2. list \in ListRecord /\ list.list \in List /\ Positioned(list.list)
  BY <1>1, Building, ParserAssumption DEF TreeInv
<1>3. ASSUME NEW e, DropList(e, cur)
      PROVE  Kept
  BY <1>1, <1>3, KeptDrop
<1>4. ASSUME NEW valueOk \in BOOLEAN, NEW nameOk \in BOOLEAN, NEW arrayOk \in BOOLEAN,
             AddElement(valueOk, nameOk, arrayOk)
      PROVE  Kept
  <2> DEFINE data == IF valueOk THEN _parse_literal(cur, list.token) ELSE NULL
             old  == list.list
             add  == mcfg_add_list_field(old, data, nameOk, arrayOk)
  <2>1. Positioned(add.list)
    <3> HIDE DEF data, old
    <3> QED
      BY <1>2, AddPositioned DEF old
  <2> HIDE DEF add
  <2>2. CASE list' = [list EXCEPT !.list = add.list] /\ pc' = "comma" /\ UNCHANGED file
    <3>1. list'.list = add.list
      BY <1>2, <2>2 DEF ListRecord
    <3> QED
      BY <1>1, <2>1, <2>2, <3>1 DEF Kept, HasFile
  <2>3. CASE Crash
    BY <1>1, <2>3, KeptCrash
  <2> QED
    BY <1>4, <2>2, <2>3 DEF AddElement, add
<1>5. CASE Crash
  BY <1>1, <1>5, KeptCrash
<1> QED
  BY <1>3, <1>4, <1>5 DEF ListLiteral

\* and its end, where it enters the document with all its elements.
LEMMA TreeDone == Inv /\ TreeInv /\ ListDone => Declared \/ Kept
<1> SUFFICES ASSUME Inv, TreeInv, ListDone PROVE Declared \/ Kept
  OBVIOUS
<1>1. pc = "comma" /\ HasFile
  BY DEF ListDone, HasFile
<1>2. /\ list.list \in List /\ list.name \in Name \cup {NULL} /\ list # NULL
      /\ pts = "PTS_IN_SECTION" /\ Positioned(list.list)
  BY <1>1, Building, ParserAssumption DEF TreeInv
<1>3. PICK arrayOk \in BOOLEAN :
         LET add == mcfg_add_field(file, LastSector, LastSection, "TYPE_LIST",
                                   list.name, list.list, arrayOk)
         IN  \/ Accepted(add, cur, pts, FirstIn(FieldArray)) /\ UNCHANGED errAt
             \/ add.err \notin {"MCFG_OK", "fault"} /\ DropList(add.err, errAt)
             \/ add.err = "fault" /\ Crash
  BY DEF ListDone
<1> DEFINE name   == list.name
           data   == list.list
           add    == mcfg_add_field(file, LastSector, LastSection, "TYPE_LIST",
                                    name, data, arrayOk)
           blocks == FirstIn(FieldArray)
<1>4. AllLists(add.file)
      /\ (add.err = "MCFG_OK" => \E path, step, N : Adds(file, add.file, path, step, N))
  <2>1. /\ [type |-> "TYPE_LIST", data |-> data] \in Typed
        /\ WellListed([type |-> "TYPE_LIST", data |-> data])
    BY <1>2 DEF Typed, FieldTypes, WellListed
  <2> HIDE DEF data, name
  <2>2. name \in Name \cup {NULL}
    BY <1>2 DEF name
  <2> QED
    BY <1>1, <1>2, <2>1, <2>2, LastFieldAdds
<1> HIDE DEF add, blocks
<1>5. CASE Accepted(add, cur, pts, blocks)
  <2>1. add.err = "MCFG_OK"
    BY <1>5 DEF Accepted
  <2> QED
    BY <1>1, <1>4, <1>5, <2>1, DeclaredAccepted
<1>6. CASE DropList(add.err, errAt)
  BY <1>1, <1>6, KeptDrop
<1>7. CASE Crash
  BY <1>1, <1>7, KeptCrash
<1> QED
  BY <1>3, <1>5, <1>6, <1>7 DEF add, blocks

\* Freeing the file discards it, or crashes.
LEMMA TreeFree ==
    ASSUME TreeInv, pc \in {"failed", "returned"}, NEW then \in {"cleaned", "freed"},
           FreeFile(then)
    PROVE  Discarded \/ Kept
BY DEF FreeFile, Discarded, Kept, HasFile, TreeInv

\* Every step is one of these.
LEMMA StepOutcome ==
    ASSUME Inv, TreeInv, [Next]_vars
    PROVE  Declared \/ Kept \/ Discarded
<1>1. CASE SyntaxError
  BY <1>1, KeptFail DEF SyntaxError, HasFile
<1>2. CASE ParseEnd
  <2>1. CASE Fail("MCFG_END_IN_NOWHERE")
    BY <1>2, <2>1, KeptFail DEF ParseEnd, At, HasFile
  <2>2. CASE UNCHANGED <<input, pc, list, file, err, errAt, live, fails>>
    BY <2>2 DEF Kept, HasFile, TreeInv
  <2> QED
    BY <1>2, <2>1, <2>2 DEF ParseEnd
<1>3. CASE Finish
  BY <1>3 DEF Finish, At, Kept, HasFile, TreeInv
<1>4. CASE ListComma
  BY <1>4 DEF ListComma, Kept, HasFile, TreeInv
<1>5. CASE CleanUp \/ CallerFrees
  BY <1>5, TreeFree DEF CleanUp, CallerFrees
<1>6. CASE Stopped \/ UNCHANGED vars
  BY <1>6 DEF Stopped, vars, Kept, HasFile, TreeInv
<1> QED
  BY <1>1, <1>2, <1>3, <1>4, <1>5, <1>6, TreeSector, TreeSection, TreeField,
     TreeList, TreeLiteral, TreeDone
  DEF Next, Parse

\* A step that declares an entry grows the tree.
LEMMA DeclaredGrows ==
    ASSUME IsTree(file), Declared
    PROVE  /\ IsTree(file')
           /\ DOMAIN Tree(file) \subseteq DOMAIN Tree(file')
           /\ \A p \in DOMAIN Tree(file) : Tree(file')[p] = Tree(file)[p]
<1>1. PICK path, step, N : Adds(file, file', path, step, N)
  BY DEF Declared
<1>2. /\ IsTree(file')
      /\ DOMAIN Tree(file') = DOMAIN Tree(file) \cup Paths(N)
      /\ \A p \in DOMAIN Tree(file) : Tree(file')[p] = Tree(file)[p] /\ p \notin Paths(N)
      /\ \A p \in DOMAIN Tree(file') : IsPrefix(Append(path, step), p) <=> p \in Paths(N)
      /\ Append(path, step) \in Paths(N)
  BY <1>1, TreeGrows
<1> QED
  BY <1>2

\* The document stays a tree.
LEMMA TreeNext == Inv /\ TreeInv /\ [Next]_vars => TreeInv'
<1> SUFFICES ASSUME Inv, TreeInv, [Next]_vars PROVE TreeInv'
  OBVIOUS
<1>1. CASE Declared
  BY <1>1, DeclaredGrows DEF TreeInv, Declared
<1>2. CASE Kept
  BY <1>2 DEF TreeInv, Kept
<1>3. CASE Discarded
  BY <1>3, EmptyTree DEF TreeInv, Discarded
<1> QED
  BY <1>1, <1>2, <1>3, StepOutcome

\* Counting is the same for the document and the namespace.
LEMMA SameCount == \A S : NS!Cardinality(S) = Cardinality(S)
BY DEF NS!Cardinality, Cardinality

\* Whatever the tokens and whichever allocations fail, the document under
\* construction is a namespace: an entry that has been parsed keeps its path
\* and its value until the document is freed, a child exists only below its
\* parent, and every entry stored is reached by a path of its own.
THEOREM DocumentIsNamespace == Spec => IsNamespace
<1>1. ASSUME Init PROVE NS!Init /\ TreeInv
  <2>1. file = EmptyFile /\ HasFile /\ list = NULL
    BY <1>1 DEF Init, HasFile
  <2> QED
    BY <2>1, EmptyTree DEF TreeInv, NS!Init
<1>2. ASSUME Inv, TreeInv, [Next]_vars PROVE [NS!Declare \/ NS!Discard]_(NS!vars)
  <2>1. Declared \/ Kept \/ Discarded
    BY <1>2, StepOutcome
  <2>2. CASE Declared
    <3>1. /\ IsTree(file')
          /\ DOMAIN Tree(file) \subseteq DOMAIN Tree(file')
          /\ \A p \in DOMAIN Tree(file) : Tree(file')[p] = Tree(file)[p]
      BY <1>2, <2>2, DeclaredGrows DEF TreeInv
    <3>2. DOMAIN Tree(file') = Paths(Entries(file'))
      BY <3>1, TreeIs DEF IsTree
    <3>3. /\ NS!PrefixClosed(DOMAIN Tree(file'))
          /\ EntryCount(file') = Cardinality(DOMAIN Tree(file'))
      BY <3>1, <3>2 DEF IsTree, Closed, NS!PrefixClosed, Front, NS!Front
    <3>4. (~HasFile) = FALSE /\ (~HasFile)' = (~HasFile)
      BY <2>2 DEF Declared
    <3>5. NS!Declare
      BY <3>1, <3>3, <3>4, SameCount DEF NS!Declare
    <3> QED
      BY <3>5
  <2>3. CASE Kept
    <3>1. UNCHANGED file /\ (~HasFile)' = (~HasFile)
      BY <2>3 DEF Kept, HasFile
    <3> QED
      BY <3>1 DEF NS!vars
  <2>4. CASE Discarded
    <3>1. file' = EmptyFile /\ (~HasFile)' = TRUE
      BY <2>4 DEF Discarded, HasFile
    <3> QED
      BY <3>1, EmptyTree DEF NS!Discard
  <2> QED
    BY <2>1, <2>2, <2>3, <2>4
<1>3. Inv /\ TreeInv /\ [Next]_vars => [NS!Declare \/ NS!Discard]_(NS!vars)
  BY <1>2
<1> QED
  BY InitInv, NextInv, TreeNext, <1>1, <1>3, PTL DEF Spec, IsNamespace, NS!Spec

-----------------------------------------------------------------------------
(* Around the parser: what mcfg_parse and mcfg_parse_from_file leave behind. *)
(* Reader is the module that runs it, on the tokens in input and with the    *)
(* parser's pc; at is its own.                                               *)

CONSTANTS Docs, OtherTexts, Roots
VARIABLES text, root, ix, lines, nodes, lexing, at, result, held

Reader == INSTANCE McfgParse WITH tokens <- input, parsing <- pc, pc <- at

\* What is held at each point of the two functions, whoever has called them.
HeldByPc ==
    /\ at \in {"idle", "opened", "measured", "unmeasured", "reading", "misreading",
              "start", "lex", "parse", "returned", "crashed"}
    /\ at = "idle"    => held = {}
    /\ at \in {"opened", "measured", "unmeasured"} => held = {"raw_file"}
    /\ at \in {"reading", "misreading"} => held = {"raw_file", "data"}
    /\ at = "start"   => held \subseteq {"data"}
    /\ at \in {"lex", "parse"} => held \subseteq {"data", "tree"}

Holds == HeldByPc /\ Reader!NothingStaysBehind

\* Before the call nothing is allocated.
LEMMA HeldInit == Reader!Init => Holds
  BY DEF Reader!Init, Holds, HeldByPc, Reader!NothingStaysBehind

\* No step of the two functions disturbs the invariant.
LEMMA HeldNext == Holds /\ [Reader!Next]_(Reader!vars) => Holds'
<1> SUFFICES ASSUME Holds, [Reader!Next]_(Reader!vars) PROVE Holds'
  OBVIOUS
<1> USE DEF Holds, HeldByPc, Reader!NothingStaysBehind
<1>1. CASE Reader!Open
  BY <1>1 DEF Reader!Open, Reader!Goes, Reader!Fail
<1>2. CASE Reader!Allocate
  BY <1>2 DEF Reader!Allocate, Reader!Goes, Reader!Fail, Reader!Closed
<1>3. CASE Reader!Read
  BY <1>3 DEF Reader!Read, Reader!Goes, Reader!Fail, Reader!Closed
<1>4. CASE Reader!Call
  BY <1>4 DEF Reader!Call, Reader!Goes
<1>5. CASE Reader!Start
  BY <1>5 DEF Reader!Start, Reader!Goes, Reader!Done
<1>6. CASE Reader!Lex
  BY <1>6 DEF Reader!Lex
<1>7. CASE Reader!HandOver
  BY <1>7 DEF Reader!HandOver
<1>8. CASE Reader!Parse
  BY <1>8 DEF Reader!Parse
<1>9. CASE Reader!Rejected
  BY <1>9 DEF Reader!Rejected, Reader!Done, Reader!free_tree
<1>10. CASE Reader!Parsed
  BY <1>10 DEF Reader!Parsed, Reader!Done, Reader!free_tree
<1>11. CASE Reader!CallerFrees
  BY <1>11 DEF Reader!CallerFrees
<1>12. CASE Reader!Stopped \/ UNCHANGED Reader!vars
  BY <1>12 DEF Reader!Stopped, Reader!vars
<1>13. CASE Reader!Measure
  BY <1>13 DEF Reader!Measure, Reader!Goes
<1>14. CASE Reader!Misread
  BY <1>14 DEF Reader!Misread, Reader!Fail, Reader!Closed
<1> QED
  BY <1>1, <1>2, <1>3, <1>4, <1>5, <1>6, <1>7, <1>8, <1>9, <1>10, <1>11, <1>12, <1>13, <1>14
     DEF Reader!Next

\* Whatever fails and wherever mcfg_parse returns, the nodes have been freed
\* and the file is closed; only the buffer of a file that could not be read is
\* left behind.
THEOREM NothingIsKept == Reader!Spec => []Reader!NothingStaysBehind
<1>1. Reader!Init => Holds
  BY HeldInit
<1>2. Holds /\ [Reader!Next]_(Reader!vars) => Holds'
  BY HeldNext
<1>3. Holds => Reader!NothingStaysBehind
  BY DEF Holds
<1> QED
  BY <1>1, <1>2, <1>3, PTL DEF Reader!Spec
=============================================================================
