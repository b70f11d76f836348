-------------------------------- MODULE ElfFile --------------------------------
(***************************************************************************)
(* One ELF file from its first byte to its last function: how dload.c reads *)
(* the headers, the dynamic table and the tables it leads to, in either     *)
(* byte order, which files it turns down, and which functions of the file  *)
(* it has called when the module was initialised and terminated.           *)
(*                                                                         *)
(* A file is given as its linker meant it.  What lies in the file is the    *)
(* same in the byte order of its target; a word has two bytes of ByteSize   *)
(* values each.  Sizes count words, and a dynamic table ends with DT_NULL.  *)
(* Symbols and segments move one by one in Relocation; here a module takes  *)
(* its place in one step, and only words that hold addresses are relocated. *)
(***************************************************************************)
EXTENDS Integers, SequencesExt, FiniteSetsExt

CONSTANTS
  FileImage,  (* the files there are                                       *)
  ByteSize,   (* the number of values of a byte                            *)
  Placement   (* where DLIF_allocate may put the segments of a file        *)

(* A byte has 256 values; a place is an address for each segment.          *)
ASSUME ElfFileAssumption ==
  /\ ByteSize \in Nat \ 0 .. 2
  /\ Placement \subseteq Seq(Nat)

VARIABLES
  file,          (* the file, as its linker meant it                       *)
  pc,            (* what comes next                                        *)
  wrong_endian,  (* the file has the other byte order than the host        *)
  header,        (* the file header as read                                *)
  phdr,          (* the program headers as read                            *)
  dyntab,        (* the dynamic table as read, later with moved addresses  *)
  i,             (* the tag process_dynamic_table looks at                 *)
  noted,         (* by tag, what it has noted                              *)
  tables,        (* the number of symbols, the symbols and the so_name      *)
  base,          (* by segment, where it runs                              *)
  memory,        (* target memory, by address                              *)
  fini,          (* what the loaded module keeps for its termination       *)
  calls          (* the calls of DLIF_execute, oldest first                *)

elf_vars == << file, pc, wrong_endian, header, phdr, dyntab, i, noted, tables,
               base, memory, fini, calls >>
-----------------------------------------------------------------------------
(* Numbers of the format.  Those that a word of the model cannot hold are  *)
(* small ones here: EM_TI_C6000 is 140, ELFOSABI_C6000_ELFABI 64, ELFMAG0   *)
(* 127, and the DT_C6000 tags lie above 0x70000000.                        *)

ET_EXEC == 2
ET_DYN  == 3
PT_LOAD == 1
PT_DYNAMIC == 2
EM_TI_C6000 == 14
ELFOSABI_C6000_ELFABI == 6
ELFMAG0 == ByteSize - 1

DT_NULL == 0
DT_HASH == 4
DT_STRTAB == 5
DT_SYMTAB == 6
DT_STRSZ == 10
DT_INIT == 12
DT_FINI == 13
DT_SONAME == 14
DT_INIT_ARRAY == 25
DT_FINI_ARRAY == 26
DT_INIT_ARRAYSZ == 27
DT_FINI_ARRAYSZ == 28
DT_PREINIT_ARRAY == 32
DT_PREINIT_ARRAYSZ == 33
DT_C6000_DSBT_BASE == 48
DT_C6000_DSBT_SIZE == 49

(* Tags whose value is noted, and those whose place in the table is.       *)
ValueNoted == {DT_SONAME, DT_STRSZ, DT_STRTAB, DT_HASH, DT_SYMTAB,
               DT_PREINIT_ARRAYSZ, DT_INIT_ARRAYSZ, DT_C6000_DSBT_SIZE}
PlaceNoted == {DT_PREINIT_ARRAY, DT_INIT, DT_INIT_ARRAY, DT_C6000_DSBT_BASE}

(* Tags that hold the address of a section, and tags left as they are.     *)
SectionTags == PlaceNoted \cup {DT_FINI_ARRAY, DT_FINI}
OtherTags   == ValueNoted \cup {DT_FINI_ARRAYSZ}

(* The fields of a program header, a dynamic tag and a symbol.             *)
PhdrFields == {"p_type", "p_offset", "p_vaddr", "p_filesz", "p_memsz"}
DynFields  == {"d_tag", "d_val"}
SymFields  == {"st_name", "st_value", "st_size", "st_info", "st_shndx"}
PhdrSize   == Cardinality(PhdrFields)

(* The fields DLIMP_change_*_endian swaps.                                 *)
EhdrSwapped == {"e_type", "e_machine"}
PhdrSwapped_ButSize == {"p_type", "p_offset", "p_vaddr", "p_filesz"}
PhdrSwapped == {"p_type", "p_offset", "p_vaddr", "p_filesz", "p_memsz"}
DynSwapped  == {"d_tag", "d_val"}
SymSwapped  == {"st_name", "st_value", "st_size", "st_shndx"}

Word == 0 .. ByteSize * ByteSize - 1
Swap_Unmasked(w) == w * ByteSize + w \div ByteSize

Swap(w) == (w % ByteSize) * ByteSize + w \div ByteSize

(* Fields of one byte, which have no order.                                *)
ByteFields == {"e_data", "e_osabi", "e_magic", "st_info"}

Foreign == file.ehdr.e_data # "host"

(* What lies in the file where its linker meant word w. *)
Stored(w) == IF Foreign THEN Swap(w) ELSE w

(* A record of the file, with the fields swapped that the loader swaps.    *)
ReadRecord(meant, swapped, swap) ==
  [f \in DOMAIN meant |->
     IF f \in ByteFields THEN meant[f]
     ELSE IF swap /\ f \in swapped THEN Swap(Stored(meant[f])) ELSE Stored(meant[f])]

ReadRecords(meant, swapped) ==
  [k \in DOMAIN meant |-> ReadRecord(meant[k], swapped, wrong_endian)]

NothingNoted == [t \in ValueNoted \cup PlaceNoted |-> IF t \in ValueNoted THEN 0 ELSE -1]
NoTables == [symnum |-> 0, symtab |-> << >>, name |-> ""]
NoFini == [fini |-> 0, fini_array |-> 0, fini_arraysz |-> 0]

Init ==
  /\ file \in FileImage
  /\ pc = "file_header"
  /\ wrong_endian = FALSE
  /\ header = << >>
  /\ phdr = << >>
  /\ dyntab = << >>
  /\ i = 0
  /\ noted = NothingNoted
  /\ tables = NoTables
  /\ base = << >>
  /\ memory = [a \in Word |-> 0]
  /\ fini = NoFini
  /\ calls = << >>

-----------------------------------------------------------------------------
(* Reading.                                                                *)

Reject == pc' = "rejected"

Not(x) == IF x = 0 THEN 1 ELSE 0

(* !header->e_ident[EI_MAG0] == ELFMAG0: what is compared is 0 or 1.        *)
MagicInvalid(h) == Not(h.e_magic) = ELFMAG0

HeaderValid(h) ==
  /\ ~MagicInvalid(h)
  /\ h.e_machine = EM_TI_C6000
  /\ h.e_type \in {ET_EXEC, ET_DYN}

(* dload_file_header *)
ReadFileHeader ==
  /\ pc = "file_header"
  /\ wrong_endian' = (file.ehdr.e_data # "host")
  /\ header' = ReadRecord(file.ehdr, EhdrSwapped, wrong_endian')
  /\ IF HeaderValid(header') THEN pc' = "program_headers" ELSE Reject
  /\ UNCHANGED << file, phdr, dyntab, i, noted, tables, base, memory, fini, calls >>

(* dload_program_header_table *)
ReadProgramHeaders ==
  /\ pc = "program_headers"
  /\ phdr' = ReadRecords(file.phdr, PhdrSwapped)
  /\ pc' = "dynamic_segment"
  /\ UNCHANGED << file, wrong_endian, header, dyntab, i, noted, tables, base,
                  memory, fini, calls >>

Relocatable == \E k \in DOMAIN phdr : phdr[k].p_type = PT_DYNAMIC

(* find_dynamic_segment, DLDYN_c60_process_eiosabi and copy_dynamic_table. *)
ReadDynamicTable ==
  /\ pc = "dynamic_segment"
  /\ IF ~Relocatable
       THEN pc' = "sanity" /\ UNCHANGED << dyntab, i >>
       ELSE IF header.e_osabi = ELFOSABI_C6000_ELFABI
       THEN /\ dyntab' = ReadRecords(file.tags, DynSwapped)
            /\ i' = 1
            /\ pc' = "tags"
       ELSE Reject /\ UNCHANGED << dyntab, i >>
  /\ UNCHANGED << file, wrong_endian, header, phdr, noted, tables, base, memory,
                  fini, calls >>

(* One turn of the loop of process_dynamic_table. *)
ProcessTag ==
  /\ pc = "tags"
  /\ dyntab[i].d_tag # DT_NULL
  /\ noted' = [t \in DOMAIN noted |->
                 IF t # dyntab[i].d_tag THEN noted[t]
                 ELSE IF t \in PlaceNoted THEN i ELSE dyntab[i].d_val]
  /\ i' = i + 1
  /\ UNCHANGED << file, pc, wrong_endian, header, phdr, dyntab, tables, base,
                  memory, fini, calls >>

WordRead(w) == IF wrong_endian THEN Swap(Stored(w)) ELSE Stored(w)

NameAt(offset) == IF offset \in DOMAIN file.strings THEN file.strings[offset] ELSE ""

(* A table is found where it lies; elsewhere the file has nothing of use.  *)
Symbols(offset) ==
  IF offset # file.at_symtab THEN << >>
  ELSE LET read == ReadRecords(file.symtab, SymSwapped)
       IN  [k \in DOMAIN read |-> [read[k] EXCEPT !.st_name = NameAt(@)]]

SymbolCount(offset) == IF offset = file.at_hash THEN WordRead(file.nchain) ELSE 0

MandatoryMissing == \E t \in {DT_STRTAB, DT_STRSZ, DT_HASH, DT_SYMTAB} : noted[t] = 0

(* The end of process_dynamic_table: the tables the tags have led to.  A    *)
(* file without DT_SONAME gets the name "", as string 0 has it.            *)
ReadTables ==
  /\ pc = "tags"
  /\ dyntab[i].d_tag = DT_NULL
  /\ IF MandatoryMissing THEN Reject /\ UNCHANGED tables
     ELSE /\ tables' = [symnum |-> SymbolCount(noted[DT_HASH]),
                        symtab |-> Symbols(noted[DT_SYMTAB]),
                        name   |-> NameAt(noted[DT_SONAME])]
          /\ pc' = "sanity"
  /\ UNCHANGED << file, wrong_endian, header, phdr, dyntab, i, noted, base, memory,
                  fini, calls >>

SegmentInFile_OffsetOnly(seg) == seg.p_offset < file.size

(* 32-bit words: a sum that wraps around passes for a small one.           *)
SegmentInFile(seg) == (seg.p_offset + seg.p_filesz) % (ByteSize * ByteSize) < file.size

(* is_valid_elf_object_file; without a dynamic table there are no symbols. *)
ValidObjectFile ==
  /\ noted[DT_STRSZ] < file.size
  /\ tables.symnum < file.size
  /\ Len(phdr) * PhdrSize < file.size
  /\ Relocatable => tables.name # ""
  /\ \A k \in DOMAIN phdr :
        /\ phdr[k].p_type = PT_LOAD => phdr[k].p_filesz <= phdr[k].p_memsz
        /\ SegmentInFile(phdr[k])
  /\ header.e_type = ET_DYN => Relocatable

(* A file without a dynamic segment is loaded where it was linked, without *)
(* what follows here: McoreLoader.                                         *)
CheckFile ==
  /\ pc = "sanity"
  /\ IF ~ValidObjectFile THEN Reject
     ELSE pc' = IF Relocatable THEN "allocate" ELSE "static"
  /\ UNCHANGED << file, wrong_endian, header, phdr, dyntab, i, noted, tables, base,
                  memory, fini, calls >>

-----------------------------------------------------------------------------
(* Placement.                                                              *)

Loads(segs) == {k \in DOMAIN segs : segs[k].p_type = PT_LOAD}
LinkRange(seg) == seg.p_vaddr .. seg.p_vaddr + seg.p_memsz - 1

(* Where what was linked at a runs, when the segments run from where.      *)
Moved(a, segs, where) ==
  LET k == CHOOSE k \in Loads(segs) : a \in LinkRange(segs[k])
  IN  a + where[k] - segs[k].p_vaddr

InSomeSegment(a) == \E k \in Loads(phdr) : a \in LinkRange(phdr[k])

Content(a) == IF a \in DOMAIN file.words THEN Stored(file.words[a]) ELSE 0

RunRange(seg, at) == at .. at + seg.p_memsz - 1

(* What is assumed of the answers of DLIF_allocate: each segment has memory *)
(* of its own, and none has address 0.  The reference build keeps this      *)
(* while its list is intact (TargetMemory), not after.                      *)
Apart(segs, where) ==
  \A k \in Loads(segs) :
     /\ k \in DOMAIN where
     /\ RunRange(segs[k], where[k]) \subseteq Word \ {0}
     /\ \A j \in Loads(segs) \ {k} :
           RunRange(segs[j], where[j]) \cap RunRange(segs[k], where[k]) = {}

(* DLIF_allocate for every segment: it clears its memory and reads the     *)
(* segment from the file.                                                  *)
AllocateSegments ==
  /\ pc = "allocate"
  /\ base' \in {where \in Placement : Apart(phdr, where)}
  /\ memory' = [a \in Word |->
                  LET here == {k \in Loads(phdr) : a \in RunRange(phdr[k], base'[k])}
                  IN  IF here = {} THEN memory[a]
                      ELSE LET k == CHOOSE k \in here : TRUE
                           IN  Content(a - base'[k] + phdr[k].p_vaddr)]
  /\ i' = 1
  /\ pc' = "dynamic_tags"
  /\ UNCHANGED << file, wrong_endian, header, phdr, dyntab, noted, tables, fini, calls >>

FiniAfter(tag, value) ==
  CASE tag = DT_FINI         -> [fini EXCEPT !.fini = value]
    [] tag = DT_FINI_ARRAY   -> [fini EXCEPT !.fini_array = value]
    [] tag = DT_FINI_ARRAYSZ -> [fini EXCEPT !.fini_arraysz = value]
    [] OTHER                 -> fini

(* One turn of the loop of relocate_dynamic_tag_info.  The addresses of     *)
(* sections move; a section in no segment, or a tag that means nothing     *)
(* here, ends the load with its segments still allocated.                  *)
MoveTag ==
  /\ pc = "dynamic_tags"
  /\ LET tag == dyntab[i].d_tag
         val == dyntab[i].d_val
     IN  /\ tag # DT_NULL
         /\ \/ /\ tag \in SectionTags /\ InSomeSegment(val)
               /\ dyntab' = [dyntab EXCEPT ![i].d_val = Moved(val, phdr, base)]
               /\ fini' = FiniAfter(tag, Moved(val, phdr, base))
               /\ UNCHANGED pc
            \/ /\ tag \in OtherTags
               /\ fini' = FiniAfter(tag, val)
               /\ UNCHANGED << pc, dyntab >>
            \/ /\ IF tag \in SectionTags THEN ~InSomeSegment(val) ELSE tag \notin OtherTags
               /\ pc' = "failed"
               /\ UNCHANGED << dyntab, fini >>
  /\ i' = i + 1
  /\ UNCHANGED << file, wrong_endian, header, phdr, noted, tables, base, memory, calls >>

-----------------------------------------------------------------------------
(* Calling the functions of the module.                                    *)

WordsAt(loc, size) == [j \in 1 .. size |-> memory[loc + j - 1]]
Call(phase, fcns) == [j \in DOMAIN fcns |-> [by |-> phase, at |-> fcns[j]]]
NotedTag(tag) == dyntab[noted[tag]].d_val

(* execute_module_pre_initialization, for executables: before relocation.  *)
PreInitialize ==
  /\ pc = "dynamic_tags"
  /\ dyntab[i].d_tag = DT_NULL
  /\ calls' = IF header.e_type # ET_EXEC \/ noted[DT_PREINIT_ARRAYSZ] = 0 THEN calls
              ELSE calls \o Call("preinit", WordsAt(NotedTag(DT_PREINIT_ARRAY),
                                                    noted[DT_PREINIT_ARRAYSZ]))
  /\ pc' = "relocate"
  /\ UNCHANGED << file, wrong_endian, header, phdr, dyntab, i, noted, tables, base,
                  memory, fini >>

(* process_dynamic_module_relocations, for words that hold an address.     *)
Relocate ==
  /\ pc = "relocate"
  /\ memory' = [a \in Word |->
                  LET entries == {r \in file.relocated : Moved(r, phdr, base) = a}
                  IN  IF entries = {} THEN memory[a]
                      ELSE LET r == CHOOSE r \in entries : TRUE
                           IN  Stored(Moved(file.words[r], phdr, base))]
  /\ pc' = "initialize"
  /\ UNCHANGED << file, wrong_endian, header, phdr, dyntab, i, noted, tables, base,
                  fini, calls >>

InitFcns ==
  (IF noted[DT_INIT] = -1 THEN << >> ELSE << NotedTag(DT_INIT) >>)
  \o (IF noted[DT_INIT_ARRAYSZ] = 0 THEN << >>
      ELSE WordsAt(NotedTag(DT_INIT_ARRAY), noted[DT_INIT_ARRAYSZ]))

(* execute_module_initialization; then the dynamic module is deleted.      *)
Initialize ==
  /\ pc = "initialize"
  /\ calls' = calls \o Call("init", InitFcns)
  /\ phdr' = << >> /\ dyntab' = << >> /\ noted' = NothingNoted /\ tables' = NoTables
  /\ pc' = "loaded"
  /\ UNCHANGED << file, wrong_endian, header, i, base, memory, fini >>

FiniFcns_Forward ==
  WordsAt(fini.fini_array, fini.fini_arraysz)
  \o (IF fini.fini = 0 THEN << >> ELSE << fini.fini >>)

FiniFcns ==
  Reverse(WordsAt(fini.fini_array, fini.fini_arraysz))
  \o (IF fini.fini = 0 THEN << >> ELSE << fini.fini >>)

(* execute_module_termination *)
Terminate ==
  /\ pc = "loaded"
  /\ calls' = calls \o Call("fini", FiniFcns)
  /\ pc' = "terminated"
  /\ UNCHANGED << file, wrong_endian, header, phdr, dyntab, i, noted, tables, base,
                  memory, fini >>

Next ==
  \/ ReadFileHeader \/ ReadProgramHeaders \/ ReadDynamicTable \/ ProcessTag
  \/ ReadTables \/ CheckFile
  \/ AllocateSegments \/ MoveTag \/ PreInitialize \/ Relocate \/ Initialize \/ Terminate

Spec == Init /\ [][Next]_elf_vars

-----------------------------------------------------------------------------
(* The files.                                                              *)

Tagged(f, t) == {k \in DOMAIN f.tags : f.tags[k].d_tag = t}
HasSegment(f, a) == \E k \in Loads(f.phdr) : a \in LinkRange(f.phdr[k])

(* The words of a file; its table ends with DT_NULL and has a tag once.    *)
Written(f) ==
  /\ DOMAIN f.ehdr = EhdrSwapped \cup {"e_data", "e_osabi", "e_magic"}
  /\ {f.ehdr.e_type, f.ehdr.e_machine} \subseteq Word
  /\ f.phdr \in Seq([PhdrFields -> Word])
  /\ f.tags \in Seq([DynFields -> Word])
  /\ \E k \in DOMAIN f.tags : f.tags[k].d_tag = DT_NULL
  /\ \A j, k \in DOMAIN f.tags : f.tags[j].d_tag = f.tags[k].d_tag => j = k
  /\ \A k \in DOMAIN f.tags : f.tags[k].d_tag = DT_NULL => k = Len(f.tags)
  /\ f.nchain \in Word /\ f.size \in Word
  /\ f.symtab \in Seq([SymFields -> Word])
  /\ \A k \in DOMAIN f.symtab : f.symtab[k].st_name \in DOMAIN f.strings
  /\ DOMAIN f.words \subseteq Word
  /\ \A a \in DOMAIN f.words : f.words[a] \in Word
  /\ f.relocated \subseteq DOMAIN f.words

(* An array of functions lies in one segment, and its words are there.      *)
ArrayLinked(f, array, size, there) ==
  \A s \in Tagged(f, size) : f.tags[s].d_val > 0 =>
    \E t \in Tagged(f, array), k \in Loads(f.phdr) :
       f.tags[t].d_val .. f.tags[t].d_val + f.tags[s].d_val - 1
         \subseteq LinkRange(f.phdr[k]) \cap there

(* What a linker sees to: segments are apart, tables are where their tags   *)
(* say, string 0 is "", what is relocated is the address of something, and *)
(* what is called is in a segment.                                         *)
Linked(f) ==
  /\ \A j, k \in Loads(f.phdr) : j # k => LinkRange(f.phdr[j]) \cap LinkRange(f.phdr[k]) = {}
  /\ \A k \in Tagged(f, DT_HASH) : f.tags[k].d_val = f.at_hash
  /\ \A k \in Tagged(f, DT_SYMTAB) : f.tags[k].d_val = f.at_symtab
  /\ 0 \in DOMAIN f.strings => f.strings[0] = ""
  /\ \A r \in f.relocated : HasSegment(f, r) /\ HasSegment(f, f.words[r])
  /\ ArrayLinked(f, DT_PREINIT_ARRAY, DT_PREINIT_ARRAYSZ,
                 {a \in DOMAIN f.words : HasSegment(f, f.words[a])})
  /\ ArrayLinked(f, DT_INIT_ARRAY, DT_INIT_ARRAYSZ, f.relocated)
  /\ ArrayLinked(f, DT_FINI_ARRAY, DT_FINI_ARRAYSZ, f.relocated)

HasDynamic(f) == \E k \in DOMAIN f.phdr : f.phdr[k].p_type = PT_DYNAMIC

ASSUME FileAssumption == \A f \in FileImage : Written(f) /\ Linked(f)

(* A dynamic table that leads to all a C6000 module must have.  The file    *)
(* holds its header beside the tables, so each of them is smaller.         *)
TableSound(f) ==
  /\ f.ehdr.e_osabi = ELFOSABI_C6000_ELFABI
  /\ \A t \in {DT_STRTAB, DT_STRSZ, DT_HASH, DT_SYMTAB} :
        \E k \in Tagged(f, t) : f.tags[k].d_val # 0
  /\ \A k \in Tagged(f, DT_STRSZ) : f.tags[k].d_val < f.size
  /\ f.nchain < f.size
  /\ \E k \in Tagged(f, DT_SONAME) :
        f.tags[k].d_val \in DOMAIN f.strings /\ f.strings[f.tags[k].d_val] # ""
  /\ \A k \in DOMAIN f.tags :
        LET t == f.tags[k].d_tag
        IN  t \in OtherTags \cup {DT_NULL} \/ (t \in SectionTags /\ HasSegment(f, f.tags[k].d_val))

(* Nothing is wrong with the file but, perhaps, its magic number and where  *)
(* its segments lie in it.                                                 *)
SoundInside(f) ==
  /\ f.ehdr.e_machine = EM_TI_C6000
  /\ f.ehdr.e_type \in {ET_EXEC, ET_DYN}
  /\ f.ehdr.e_type = ET_DYN => HasDynamic(f)
  /\ \A k \in Loads(f.phdr) : f.phdr[k].p_filesz <= f.phdr[k].p_memsz
  /\ Len(f.phdr) * PhdrSize < f.size
  /\ HasDynamic(f) => TableSound(f)

(* The offset behind a segment, as a number and not as a word.             *)
FileEnd(seg) == seg.p_offset + seg.p_filesz

(* A good file.                                                            *)
Sound(f) ==
  /\ f.ehdr.e_magic = ELFMAG0
  /\ SoundInside(f)
  /\ \A k \in DOMAIN f.phdr : FileEnd(f.phdr[k]) <= f.size

-----------------------------------------------------------------------------
(* What the properties speak of: the file as its linker meant it.          *)

TagValue(t) ==
  LET k == CHOOSE k \in DOMAIN file.tags : file.tags[k].d_tag = t IN file.tags[k].d_val
HasTag(t) == \E k \in DOMAIN file.tags : file.tags[k].d_tag = t

LinkedAt(tag) == IF HasTag(tag) THEN << TagValue(tag) >> ELSE << >>

Listed(array, size) ==
  IF ~HasTag(size) THEN << >>
  ELSE [j \in 1 .. TagValue(size) |-> file.words[TagValue(array) + j - 1]]

RunAddresses(fcns) == [j \in DOMAIN fcns |-> Moved(fcns[j], file.phdr, base)]

TypeOK ==
  /\ file \in FileImage
  /\ pc \in {"file_header", "program_headers", "dynamic_segment", "tags", "sanity", "static",
             "allocate", "dynamic_tags", "relocate", "initialize", "loaded", "terminated",
             "rejected", "failed"}
  /\ wrong_endian \in BOOLEAN
  /\ pc # "file_header" => {header.e_type, header.e_machine} \subseteq Word
  /\ \A k \in DOMAIN phdr : phdr[k] \in [PhdrFields -> Word]
  /\ \A k \in DOMAIN dyntab : dyntab[k] \in [DynFields -> Word]
  /\ tables.symnum \in Word
  /\ DOMAIN noted = ValueNoted \cup PlaceNoted
  /\ \A t \in ValueNoted : noted[t] \in Word
  /\ \A t \in PlaceNoted : noted[t] \in DOMAIN file.tags \cup {-1}
  /\ memory \in [Word -> Word]
  /\ fini \in [fini : Word, fini_array : Word, fini_arraysz : Word]
  /\ i \in 0 .. Len(file.tags) + 1
  /\ calls \in Seq([by : {"preinit", "init", "fini"}, at : Word])

(* Once the tags are read everything the loader goes on with is what the   *)
(* linker meant, whichever byte order the file has and in whichever order  *)
(* its tags come: DT_SONAME may precede the table it is an offset into.     *)
ReadAsLinked ==
  pc = "allocate" =>
    /\ phdr = file.phdr
    /\ dyntab = file.tags
    /\ \A t \in ValueNoted : noted[t] = IF HasTag(t) THEN TagValue(t) ELSE 0
    /\ \A t \in PlaceNoted : noted[t] = -1 <=> ~HasTag(t)
    /\ tables.symnum = file.nchain
    /\ Len(tables.symtab) = Len(file.symtab)
    /\ \A k \in DOMAIN file.symtab :
          tables.symtab[k] = [file.symtab[k] EXCEPT !.st_name = file.strings[@]]

(* A good file is turned down by none of the checks, unless a segment of it *)
(* ends where the file ends; and a file with a fault is turned down by some *)
(* check before an initialiser of it runs, unless its fault is the magic    *)
(* number or a segment whose end wraps around.  Of the files excepted       *)
(* nothing is claimed: the magic number is meant to be verified             *)
(* (dload.c:1212) and a segment not to go off the end (dload.c:1135).       *)
TurnedDownForCause ==
  /\ pc \in {"rejected", "failed"} =>
       ~Sound(file) \/ \E k \in DOMAIN file.phdr : FileEnd(file.phdr[k]) = file.size
  /\ pc \in {"static", "loaded", "terminated"} =>
       /\ SoundInside(file)
       /\ \A k \in DOMAIN file.phdr :
             \/ FileEnd(file.phdr[k]) <= file.size
             \/ FileEnd(file.phdr[k]) >= ByteSize * ByteSize

PreinitListed ==
  IF file.ehdr.e_type = ET_EXEC THEN Listed(DT_PREINIT_ARRAY, DT_PREINIT_ARRAYSZ) ELSE << >>
InitListed == LinkedAt(DT_INIT) \o Listed(DT_INIT_ARRAY, DT_INIT_ARRAYSZ)
FiniListed == Reverse(Listed(DT_FINI_ARRAY, DT_FINI_ARRAYSZ)) \o LinkedAt(DT_FINI)

Unmoved == \A k \in Loads(file.phdr) : base[k] = file.phdr[k].p_vaddr

(* In a file of the byte order of the host the functions called are those   *)
(* its linker listed, in their order and where they run: when the module is *)
(* loaded its initialisers, and long after the dynamic table is gone its    *)
(* terminators in reverse.  The functions of .preinit_array come first;     *)
(* they are called before any word is relocated, and that they are called   *)
(* where they run is claimed for a file that was not moved only.            *)
CalledWhereTheyRun ==
  LET preinit == IF Unmoved THEN Call("preinit", RunAddresses(PreinitListed))
                 ELSE SubSeq(calls, 1, Len(PreinitListed))
  IN  ~Foreign /\ pc \in {"loaded", "terminated"} =>
        calls = preinit
                \o Call("init", RunAddresses(InitListed))
                \o (IF pc = "loaded" THEN << >> ELSE Call("fini", RunAddresses(FiniListed)))
=============================================================================
