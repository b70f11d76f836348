------------------------------- MODULE Relocation -------------------------------
(***************************************************************************)
(* The loader's work on one dynamic module: placing each of its segments   *)
(* in target memory, moving the symbols, the entry point and the section   *)
(* addresses of the dynamic table with them (DLOAD/dload.c), resolving the *)
(* symbols of the relocation entries (DLOAD_SYM/symtab.c) and relocating   *)
(* the segments one at a time (C60_DLOAD_REL/c60_reloc.c).                 *)
(*                                                                         *)
(* The file, and the global symbols of the modules on its DT_NEEDED list,  *)
(* which are placed by then, are chosen in the initial state.  Entries of  *)
(* Elf32_Rel tables, on which the C6000 code exits, are out of the model.  *)
(* Definitions with an underscore and a suffix are seeded faults.          *)
(***************************************************************************)
EXTENDS RelocationFields, SequencesExt, FiniteSetsExt

CONSTANTS
  Images,     (* the files: see ImageType                                  *)
  Addresses,  (* the addresses the client may give to a segment            *)
  HostOffset  (* where DLIF_copy has a segment, less its target address;   *)
              (* 0 for the client in dlw_client.c                          *)

Symbol == [name : STRING, bind : {"local", "global"}, vis : {"default", "hidden"},
           def : BOOLEAN, value : Nat]

LoadSegment == [vaddr : Nat, memsz : Nat, filled : BOOLEAN]
RelaEntry == [offset : Nat, type : RelocType, sym : Nat, addend : Int]

(* Local symbols come first, locals is how many there are of them; the last *)
(* plt entries of rela are the PLTGOT table.                                *)
ImageType ==
  [segs : Seq(LoadSegment), entry : Nat, phdr : Seq(Nat), symtab : Seq(Symbol),
   locals : Nat, tags : Seq(Nat), rela : Seq(RelaEntry), plt : Nat,
   needs : Seq(Seq(Symbol)), dsbt_index : Nat]

(* What the loader takes from the linker without looking: an entry names a *)
(* symbol of the table, segments are apart, and a module has one symbol of *)
(* a global name and one static base.                                      *)
WellLinked(f) ==
  /\ \A k \in DOMAIN f.rela : f.rela[k].sym \in DOMAIN f.symtab
  /\ \A i, j \in DOMAIN f.segs :
       \/ i = j
       \/ f.segs[i].vaddr + f.segs[i].memsz <= f.segs[j].vaddr
       \/ f.segs[j].vaddr + f.segs[j].memsz <= f.segs[i].vaddr
  /\ \A d \in DOMAIN f.needs : \A a, b \in DOMAIN f.needs[d] :
       f.needs[d][a].name = f.needs[d][b].name => a = b
  /\ \A a, b \in DOMAIN f.symtab :
       f.symtab[a].name = "__TI_STATIC_BASE" /\ f.symtab[b].name = "__TI_STATIC_BASE"
         => a = b

ASSUME RelocationAssumption ==
  /\ Images \subseteq ImageType
  /\ \A f \in Images : WellLinked(f)
  /\ Addresses \subseteq Nat
  /\ HostOffset \in Int

VARIABLES
  image,     (* the file, as read                                          *)
  placed,    (* the target address of each segment placed so far           *)
  entry,     (* e_entry                                                    *)
  entry_due, (* relocate_entry_point                                       *)
  phdr,      (* p_vaddr of the program headers                             *)
  symtab,    (* the module's symbol table; moved is the INT16_MAX mark     *)
  gsymtab,   (* the values of the global symbols other modules see         *)
  tags,      (* the section addresses of the dynamic table                 *)
  pc,        (* where the loader is                                        *)
  turn,      (* the segment process_got_relocs is at                       *)
  field,     (* the relocated field of each entry                          *)
  applied,   (* how often reloc_do wrote each entry                        *)
  reported   (* entries an error was reported for, and which               *)

placement == << entry, entry_due, phdr, symtab, gsymtab >>
relocation == << field, applied, reported >>
vars == << image, placed, placement, tags, pc, turn, relocation >>

Segments == DOMAIN image.segs
Entries  == DOMAIN image.rela
Globals  == image.locals + 1 .. Len(image.symtab)

Init ==
  /\ image \in Images
  /\ placed = << >>
  /\ entry = image.entry
  /\ entry_due = TRUE
  /\ phdr = image.phdr
  /\ symtab = [j \in DOMAIN image.symtab |->
       [def |-> image.symtab[j].def, value |-> image.symtab[j].value, moved |-> FALSE]]
  /\ gsymtab = [j \in Globals |-> image.symtab[j].value]
  /\ tags = image.tags
  /\ pc = "place"
  /\ turn = 1
  /\ field = [k \in Entries |-> 0]
  /\ applied = [k \in Entries |-> 0]
  /\ reported = {}

-----------------------------------------------------------------------------
(* Placement: allocate_dynamic_segments_and_relocate_symbols.              *)

Within(a, start, size) == start <= a /\ a < start + size

LinkedIn(a, i) == Within(a, image.segs[i].vaddr, image.segs[i].memsz)

(* What the client promises of an address: 32-byte aligned and unused.     *)
Free(a, size) ==
  /\ a % 32 = 0
  /\ \A i \in DOMAIN placed :
       a + size <= placed[i] \/ placed[i] + image.segs[i].memsz <= a

MovesEntry(i) == entry_due /\ LinkedIn(entry, i)

(* Only the first header with the old address is moved.                    *)
MovedHeaders(old, offset) ==
  LET found == {j \in DOMAIN phdr : phdr[j] = old}
  IN  IF found = {} THEN phdr ELSE [phdr EXCEPT ![Min(found)] = @ + offset]

MovesSymbol_Unmarked(j, i) == LinkedIn(symtab[j].value, i)

MovesSymbol(j, i) == LinkedIn(symtab[j].value, i) /\ ~symtab[j].moved

PlaceSegment(address) ==
  LET i == Len(placed) + 1
      old == image.segs[i].vaddr
      offset == address - old
  IN  /\ pc = "place"
      /\ i \in Segments
      /\ Free(address, image.segs[i].memsz)
      /\ placed' = Append(placed, address)
      /\ entry' = IF MovesEntry(i) THEN entry + offset ELSE entry
      /\ entry_due' = (entry_due /\ ~MovesEntry(i))
      /\ phdr' = MovedHeaders(old, offset)
      /\ symtab' = [j \in DOMAIN symtab |->
           IF MovesSymbol(j, i)
             THEN [def |-> TRUE, value |-> symtab[j].value + offset, moved |-> TRUE]
             ELSE symtab[j]]
      /\ gsymtab' = [j \in Globals |->
           IF MovesSymbol(j, i) THEN symtab[j].value + offset ELSE gsymtab[j]]
      /\ UNCHANGED << image, tags, pc, turn, relocation >>

(* DLIF_allocate has no memory for the next segment.                       *)
FailPlacement ==
  /\ pc = "place"
  /\ Len(placed) + 1 \in Segments
  /\ pc' = "failed"
  /\ UNCHANGED << image, placed, placement, tags, turn, relocation >>

(* The first segment a section address was linked in.                      *)
SectionOf(a) == {i \in Segments : LinkedIn(a, i)}

NewAddress(a) ==
  LET i == Min(SectionOf(a)) IN a + placed[i] - image.segs[i].vaddr

NewTag(a) == NewAddress(a)

(* relocate_dynamic_tag_info, after the last segment: DT_INIT and the like *)
(* move with their section; one that is in no segment fails the load, the  *)
(* tags before it are moved by then.                                       *)
MoveTags ==
  LET lost == {n \in DOMAIN tags : SectionOf(tags[n]) = {}}
      before(n) == \A l \in lost : n < l
  IN  /\ pc = "place"
      /\ Len(placed) = Len(image.segs)
      /\ tags' = [n \in DOMAIN tags |-> IF before(n) THEN NewTag(tags[n]) ELSE tags[n]]
      /\ pc' = IF lost = {} THEN "plt" ELSE "failed"
      /\ UNCHANGED << image, placed, placement, turn, relocation >>

-----------------------------------------------------------------------------
(* Symbol lookup: DLSYM_canonical_lookup, DLSYM_global_lookup.             *)

NotFound == [found |-> FALSE, value |-> 0]
Found(value) == [found |-> TRUE, value |-> value]

Defines(table, name) ==
  {j \in DOMAIN table : table[j].def /\ table[j].bind = "global" /\ table[j].name = name}

(* The modules on the DT_NEEDED list in order, the first definition wins.  *)
GlobalLookup(name) ==
  LET hits == {d \in DOMAIN image.needs : Defines(image.needs[d], name) # {}}
  IN  IF hits = {} THEN NotFound
      ELSE LET table == image.needs[Min(hits)]
           IN  Found(table[Min(Defines(table, name))].value)

(* A local or non-default symbol is the module's own or an error; any other *)
(* is looked up in the modules it needs, even when it has its own.         *)
CanonicalLookup(j) ==
  IF image.symtab[j].bind = "local" \/ image.symtab[j].vis # "default"
    THEN IF symtab[j].def THEN Found(symtab[j].value) ELSE NotFound
    ELSE GlobalLookup(image.symtab[j].name)

(* The static base is 0 when no local symbol has its name.                 *)
StaticBaseSymbols ==
  {j \in DOMAIN symtab : /\ image.symtab[j].bind = "local"
                         /\ image.symtab[j].name = "__TI_STATIC_BASE"
                         /\ symtab[j].def}

StaticBase == IF StaticBaseSymbols = {} THEN 0 ELSE symtab[Min(StaticBaseSymbols)].value

-----------------------------------------------------------------------------
(* The relocation tables: DLREL_relocate.                                  *)

PltEntries == {k \in Entries : k > Len(image.rela) - image.plt}

(* DT_RELASZ counts the PLTGOT entries too: relasz -= pltrelsz.            *)
GotEntries == Entries \ PltEntries

OfSegment(k, i) == LinkedIn(image.rela[k].offset, i)

RunOfEntries_FromStart(table, i) ==
  {k \in table : \A l \in table : l <= k => OfSegment(l, i)}

(* process_rela_table: skip to the first entry of the segment, and stop at *)
(* the first after it that is of another.                                  *)
RunOfEntries(table, i) ==
  {k \in table : /\ OfSegment(k, i)
                 /\ \A l, m \in table : l < m /\ m < k /\ OfSegment(l, i) => OfSegment(m, i)}

(* Where the field of entry k is for the loader, of segment i.             *)
HostAddress(k, i) ==
  placed[i] + HostOffset + image.rela[k].offset - image.segs[i].vaddr

ValueOf(k, i) ==
  RelocValue(image.rela[k].type, CanonicalLookup(image.rela[k].sym).value,
             image.rela[k].addend, HostAddress(k, i), StaticBase, image.dsbt_index)

Resolved(k) == CanonicalLookup(image.rela[k].sym).found

(* An entry whose symbol is not found is skipped, one that overflows is    *)
(* written all the same; either is only reported.                          *)
ProcessTable(table, i) ==
  LET run == RunOfEntries(table, i)
      written == {k \in run : Resolved(k)}
      overflown == {k \in written : RelOverflow(image.rela[k].type, ValueOf(k, i))}
  IN  /\ field' = [k \in Entries |->
           IF k \in written THEN FieldOf(image.rela[k].type, ValueOf(k, i)) ELSE field[k]]
      /\ applied' = [k \in Entries |->
           IF k \in written THEN applied[k] + 1 ELSE applied[k]]
      /\ reported' = reported \cup {<< k, "unresolved" >> : k \in run \ written}
                              \cup {<< k, "overflow" >> : k \in overflown}

(* process_pltgot_relocs: the segment of the first entry has them all.     *)
PltSegment ==
  {i \in Segments : image.segs[i].filled /\ OfSegment(Min(PltEntries), i)}

RelocatePlt ==
  /\ pc = "plt"
  /\ IF PltEntries # {} /\ PltSegment # {}
       THEN ProcessTable(PltEntries, Min(PltSegment))
       ELSE UNCHANGED relocation
  /\ pc' = "got"
  /\ UNCHANGED << image, placed, placement, tags, turn >>

(* process_got_relocs: one segment; one without file contents is skipped.  *)
RelocateSegment ==
  /\ pc = "got"
  /\ turn \in Segments
  /\ IF image.segs[turn].filled THEN ProcessTable(GotEntries, turn)
     ELSE UNCHANGED relocation
  /\ turn' = turn + 1
  /\ UNCHANGED << image, placed, placement, tags, pc >>

Finish ==
  /\ pc = "got"
  /\ turn \notin Segments
  /\ pc' = "done"
  /\ UNCHANGED << image, placed, placement, tags, turn, relocation >>

Next ==
  \/ \E address \in Addresses : PlaceSegment(address)
  \/ FailPlacement \/ MoveTags
  \/ RelocatePlt \/ RelocateSegment \/ Finish

Spec == Init /\ [][Next]_vars

-----------------------------------------------------------------------------
(* Properties.                                                             *)

(* Every table keeps its shape, and a field its width: what mask_result    *)
(* leaves of a value fits the bits of its type.                            *)
TypeOK ==
  /\ image \in Images
  /\ placed \in Seq(Addresses) /\ Len(placed) <= Len(image.segs)
  /\ entry \in Nat /\ entry_due \in BOOLEAN
  /\ phdr \in Seq(Nat) /\ tags \in Seq(Nat)
  /\ symtab \in [DOMAIN image.symtab -> [def : BOOLEAN, value : Nat, moved : BOOLEAN]]
  /\ gsymtab \in [Globals -> Nat]
  /\ pc \in {"place", "plt", "got", "done", "failed"}
  /\ turn \in 1 .. Len(image.segs) + 1
  /\ applied \in [Entries -> Nat]
  /\ \A k \in Entries : image.rela[k].type \notin {"ABS32", "PREL31"} =>
       field[k] \in 0 .. FieldSize[image.rela[k].type] - 1
  /\ reported \subseteq Entries \X {"unresolved", "overflow"}

PlacedIn(a) == {i \in DOMAIN placed : LinkedIn(a, i)}

MovesWith(a, now) ==
  PlacedIn(a) # {} => now = NewAddress(a)

(* A symbol defined in a segment, the entry point and the public copy of a *)
(* global symbol move exactly once, with their own segment, although the   *)
(* segments go to addresses that other segments were linked at.  A file     *)
(* that loads has every section address of its dynamic table moved with    *)
(* the section: the DSBT is then found where it is (dload.c:511-814).       *)
MoveWithSegment ==
  /\ \A j \in DOMAIN symtab :
       image.symtab[j].def => MovesWith(image.symtab[j].value, symtab[j].value)
  /\ \A j \in Globals : gsymtab[j] = symtab[j].value
  /\ MovesWith(image.entry, entry)
  /\ pc \in {"plt", "got", "done"} =>
       \A n \in DOMAIN tags :
         PlacedIn(image.tags[n]) # {} /\ tags[n] = NewAddress(image.tags[n])

(* Entries are grouped by segment.                                         *)
Grouped ==
  \A k, l, m \in GotEntries : \A i \in Segments :
    k < l /\ l < m /\ OfSegment(k, i) /\ OfSegment(m, i) => OfSegment(l, i)

OneSegmentPlt ==
  \A k, l \in PltEntries : \A i \in Segments : OfSegment(k, i) => OfSegment(l, i)

(* Once the load is done each entry of a segment with file contents was    *)
(* written once, or its symbol was reported, whatever table it is in and   *)
(* whatever order the segments come in (c60_reloc.c:741-1052).             *)
EveryEntryOnce ==
  pc = "done" /\ Grouped /\ OneSegmentPlt =>
    \A k \in Entries : (\E i \in Segments : image.segs[i].filled /\ OfSegment(k, i)) =>
      applied[k] = IF << k, "unresolved" >> \in reported THEN 0 ELSE 1

(* The symbol the first needed module that has the name calls so.          *)
NamedFirst(name) ==
  LET d == CHOOSE d \in DOMAIN image.needs :
             /\ Defines(image.needs[d], name) # {}
             /\ \A e \in 1 .. d - 1 : Defines(image.needs[e], name) = {}
  IN  CHOOSE s \in ToSet(image.needs[d]) : s.def /\ s.name = name

(* Where the file means entry k to point: its own symbol where the segment *)
(* of the symbol went, or the one of another module.                       *)
Means(k) ==
  LET sym == image.symtab[image.rela[k].sym]
  IN  image.rela[k].addend +
      IF sym.bind = "local" \/ sym.vis = "hidden" THEN NewAddress(sym.value)
      ELSE NamedFirst(sym.name).value

HasMeaning(k) ==
  LET sym == image.symtab[image.rela[k].sym]
  IN  sym.bind = "local" \/ sym.vis = "hidden" => sym.def /\ PlacedIn(sym.value) # {}

BaseOfModule ==
  NewAddress((CHOOSE s \in ToSet(image.symtab) : s.name = "__TI_STATIC_BASE").value)

HasBase == \E j \in StaticBaseSymbols : PlacedIn(image.symtab[j].value) # {}

(* What the processor adds to the operand of entry k.                      *)
Origin(k) ==
  LET type == image.rela[k].type
      place == NewAddress(image.rela[k].offset)
  IN  CASE type \in BranchType -> FetchPacket(place)
        [] type = "PREL31" -> place
        [] type \in BaseType -> BaseOfModule
        [] type = "DSBT_INDEX" -> BaseOfModule - 4 * image.dsbt_index
        [] type \in AbsoluteType -> 0

NeedsBase(k) == image.rela[k].type \in BaseType \cup {"DSBT_INDEX"}

Written(k) == applied[k] > 0 /\ HasMeaning(k) /\ (NeedsBase(k) => HasBase)

(* After the load, an instruction whose relocation was written without a   *)
(* reported overflow addresses the thing its symbol names, wherever the    *)
(* segments of the two were placed: the value, the range check, the shift  *)
(* and the mask of each type agree with the instruction                    *)
(* (c60_reloc.c:91-545).                                                   *)
ReachesTarget ==
  pc = "done" => \A k \in Entries :
    LET type == image.rela[k].type
    IN  /\ type \in WholeType /\ Written(k)
        /\ << k, "overflow" >> \notin reported
        /\ Aligned(type, Means(k) - Origin(k))
        => Operand(type, field[k]) + Origin(k) = Means(k)

HighOf(low) ==
  CASE low = "ABS_L16" -> "ABS_H16"
    [] low = "SBR_L16_B" -> "SBR_H16_B"
    [] low = "SBR_L16_H" -> "SBR_H16_H"
    [] low = "SBR_L16_W" -> "SBR_H16_W"

SameTarget(k, l) ==
  image.rela[k].sym = image.rela[l].sym /\ image.rela[k].addend = image.rela[l].addend

(* The two halves of an address loaded by MVKL and MVKH make the whole     *)
(* address, also when it is below the static base: neither half is range   *)
(* checked (c60_reloc.c:196-236, 336-346).                                 *)
PairsCombine ==
  pc = "done" => \A k, l \in Entries :
    LET low == image.rela[k].type
    IN  /\ low \in LowType \cup {"ABS_L16"}
        /\ image.rela[l].type = HighOf(low)
        /\ SameTarget(k, l) /\ Written(k) /\ Written(l)
        /\ Aligned(low, Means(k) - Origin(k))
        => Unit(low) * Pair(field[k], field[l]) + Origin(k) = Means(k)
=============================================================================
