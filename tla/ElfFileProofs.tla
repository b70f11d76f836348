---------------------------- MODULE ElfFileProofs ----------------------------
(***************************************************************************)
(* One ELF file, proved for any file a linker could have written, in either *)
(* byte order, with its tags in any order and its segments placed anywhere. *)
(***************************************************************************)
EXTENDS ElfFile, TLAPS, SequenceTheorems, FiniteSetTheorems

-----------------------------------------------------------------------------
(* Words and records.                                                      *)

(* Two digits of any base come back from the number they make.              *)
LEMMA Digits ==
  ASSUME NEW B \in Nat \ {0}, NEW high \in 0 .. B - 1, NEW low \in 0 .. B - 1
  PROVE  /\ (high * B + low) \div B = high
         /\ (high * B + low) % B = low
         /\ high * B + low \in 0 .. B * B - 1
<1> DEFINE w == high * B + low
           d == w \div B
           m == w % B
<1>1. w \in Nat
  OBVIOUS
<1>2. w = B * d + m /\ m \in 0 .. B - 1 /\ d \in Int
  BY <1>1
<1>3. high * B \in Int /\ B * d \in Int /\ high * B = B * high
  BY <1>1, <1>2
<1> QED OBVIOUS

(* A number of two digits has them.                                        *)
LEMMA TwoDigits ==
  ASSUME NEW B \in Nat \ {0}, NEW w \in 0 .. B * B - 1
  PROVE  \E high, low \in 0 .. B - 1 : w = high * B + low
<1> DEFINE d == w \div B
           m == w % B
<1>1. B * B \in Nat
  OBVIOUS
<1>2. w \in Nat /\ w < B * B
  BY <1>1
<1>3. w = B * d + m /\ m \in 0 .. B - 1 /\ d \in Nat
  BY <1>2
<1> HIDE DEF d, m
<1>4. d < B
  <2> SUFFICES ASSUME d >= B PROVE FALSE
    BY <1>3
  <2>1. PICK e \in Nat : d = B + e
    <3>1. d - B \in Nat /\ d = B + (d - B)
      BY <1>3
    <3> QED BY <3>1
  <2>2. B * (B + e) = B * B + B * e /\ B * e \in Nat
    OBVIOUS
  <2> QED BY <1>1, <1>2, <1>3, <2>1, <2>2
<1>5. B * d = d * B
  BY <1>3
<1> QED BY <1>3, <1>4, <1>5

(* DLIMP_change_endian32 twice is nothing.                                 *)
LEMMA SwapTwice ==
  ASSUME NEW w \in Word
  PROVE  Swap(w) \in Word /\ Swap(Swap(w)) = w
<1>1. ByteSize \in Nat \ {0}
  BY ElfFileAssumption
<1>2. PICK high, low \in 0 .. ByteSize - 1 : w = high * ByteSize + low
  BY <1>1, TwoDigits DEF Word
<1>3. Swap(w) = low * ByteSize + high
  BY <1>1, <1>2, Digits DEF Swap
<1>4. /\ (low * ByteSize + high) \div ByteSize = low
      /\ (low * ByteSize + high) % ByteSize = high
      /\ low * ByteSize + high \in 0 .. ByteSize * ByteSize - 1
  BY <1>1, <1>2, Digits
<1>5. Swap(Swap(w)) = high * ByteSize + low
  BY <1>3, <1>4 DEF Swap
<1> QED BY <1>2, <1>3, <1>4, <1>5 DEF Word

(* What lies in the file, and what a loader that swaps makes of it.         *)
LEMMA StoredRead ==
  ASSUME NEW w \in Word
  PROVE  /\ Stored(w) \in Word
         /\ Foreign => Swap(Stored(w)) = w
         /\ ~Foreign => Stored(w) = w
  BY SwapTwice DEF Stored

(* A record is read as it was meant if every word of it is swapped.         *)
LEMMA RecordRead ==
  ASSUME NEW Field, NEW meant \in [Field -> Word], NEW swapped, Field \ ByteFields \subseteq swapped
  PROVE  ReadRecord(meant, swapped, Foreign) = meant
<1> DEFINE read == ReadRecord(meant, swapped, Foreign)
<1>1. read = [f \in Field |->
     IF f \in ByteFields THEN meant[f]
     ELSE IF Foreign /\ f \in swapped THEN Swap(Stored(meant[f])) ELSE Stored(meant[f])]
  BY DEF ReadRecord
<1>2. ASSUME NEW f \in Field PROVE read[f] = meant[f]
  <2>1. read[f] = IF f \in ByteFields THEN meant[f]
     ELSE IF Foreign /\ f \in swapped THEN Swap(Stored(meant[f])) ELSE Stored(meant[f])
    BY <1>1
  <2>2. meant[f] \in Word
    OBVIOUS
  <2> QED BY <2>1, <2>2, StoredRead
<1> HIDE DEF read
<1>3. read = [f \in Field |-> meant[f]]
  BY <1>1, <1>2
<1> QED BY <1>3 DEF read

(* So is a table of records.                                               *)
LEMMA RecordsRead ==
  ASSUME NEW Field, NEW meant \in Seq([Field -> Word]), NEW swapped,
         Field \ ByteFields \subseteq swapped, wrong_endian = Foreign
  PROVE  ReadRecords(meant, swapped) = meant
<1>1. \A k \in DOMAIN meant : meant[k] \in [Field -> Word]
  BY ElementOfSeq
<1>2. \A k \in DOMAIN meant : ReadRecord(meant[k], swapped, Foreign) = meant[k]
  BY <1>1, RecordRead
<1>3. ReadRecords(meant, swapped) = [k \in DOMAIN meant |-> meant[k]]
  BY <1>2 DEF ReadRecords
<1>4. meant = [k \in DOMAIN meant |-> meant[k]]
  OBVIOUS
<1> QED BY <1>3, <1>4

(* The tags, by what is done with them.                                    *)
LEMMA TagSets ==
  /\ DT_NULL \notin ValueNoted \cup PlaceNoted \cup SectionTags \cup OtherTags
  /\ ValueNoted \cap PlaceNoted = {} /\ SectionTags \cap OtherTags = {}
  /\ DT_INIT \in SectionTags \cap PlaceNoted /\ DT_INIT_ARRAY \in SectionTags \cap PlaceNoted
  /\ DT_PREINIT_ARRAY \in SectionTags \cap PlaceNoted
  /\ DT_FINI \in SectionTags /\ DT_FINI_ARRAY \in SectionTags /\ DT_FINI_ARRAYSZ \in OtherTags
  /\ {DT_SONAME, DT_STRSZ, DT_STRTAB, DT_HASH, DT_SYMTAB,
      DT_PREINIT_ARRAYSZ, DT_INIT_ARRAYSZ} \subseteq ValueNoted
  /\ DT_FINI # DT_FINI_ARRAY /\ DT_FINI # DT_FINI_ARRAYSZ /\ DT_FINI_ARRAY # DT_FINI_ARRAYSZ
  BY DEF DT_NULL, DT_HASH, DT_STRTAB, DT_SYMTAB, DT_STRSZ, DT_INIT, DT_FINI, DT_SONAME,
         DT_INIT_ARRAY, DT_FINI_ARRAY, DT_INIT_ARRAYSZ, DT_FINI_ARRAYSZ, DT_PREINIT_ARRAY,
         DT_PREINIT_ARRAYSZ, DT_C6000_DSBT_BASE, DT_C6000_DSBT_SIZE,
         ValueNoted, PlaceNoted, SectionTags, OtherTags
-----------------------------------------------------------------------------
(* The invariant.                                                          *)

(* A choice of the segment allocator (DLIF_allocate) for the segments of   *)
(* f.                                                                      *)
Chosen(f, where) == where \in Placement /\ Apart(f.phdr, where)

(* What the loader has noted when it has looked at the tags before place n. *)
NotedBefore(n) ==
  /\ noted \in [ValueNoted \cup PlaceNoted -> Int]
  /\ \A t \in ValueNoted :
        /\ \A k \in Tagged(file, t) : k < n => noted[t] = file.tags[k].d_val
        /\ (\A k \in Tagged(file, t) : k >= n) => noted[t] = 0
  /\ \A t \in PlaceNoted :
        /\ \A k \in Tagged(file, t) : k < n => noted[t] = k
        /\ (\A k \in Tagged(file, t) : k >= n) => noted[t] = -1

(* The file header as it was meant, in the fields the loader looks at.      *)
HeaderRead ==
  pc # "file_header" =>
    /\ wrong_endian = Foreign
    /\ header.e_type = file.ehdr.e_type
    /\ header.e_machine = file.ehdr.e_machine
    /\ header.e_osabi = file.ehdr.e_osabi

(* What the string, symbol and hash tables gave.                           *)
TablesRead ==
  /\ tables.symnum = file.nchain
  /\ tables.symtab = [k \in DOMAIN file.symtab |-> [file.symtab[k] EXCEPT !.st_name = file.strings[@]]]
  /\ \A k \in Tagged(file, DT_SONAME) :
        tables.name = IF file.tags[k].d_val \in DOMAIN file.strings
                      THEN file.strings[file.tags[k].d_val] ELSE ""
  /\ Tagged(file, DT_SONAME) = {} => tables.name = ""

(* The tables no dynamic module does without have a tag.                   *)
MandatoryThere ==
  \A t \in {DT_STRTAB, DT_STRSZ, DT_HASH, DT_SYMTAB} :
     \E k \in Tagged(file, t) : file.tags[k].d_val # 0

(* What is kept until the dynamic module is deleted.                       *)
WithHeaders == {"dynamic_segment", "tags", "sanity", "allocate", "dynamic_tags", "relocate",
                "initialize"}
Accepted == {"allocate", "dynamic_tags", "relocate", "initialize", "loaded", "terminated"}

(* The program headers are kept as the file has them.                      *)
HeadersRead == pc \in WithHeaders => phdr = file.phdr

(* Past the file header only C6000 images are left.                        *)
HeaderGood ==
  pc \notin {"file_header", "rejected"} =>
    file.ehdr.e_machine = EM_TI_C6000 /\ file.ehdr.e_type \in {ET_EXEC, ET_DYN}

(* The dynamic table, and what is noted of it so far.                      *)
TagsRead ==
  /\ pc \in {"tags", "sanity", "allocate"} /\ HasDynamic(file) =>
       file.ehdr.e_osabi = ELFOSABI_C6000_ELFABI /\ dyntab = file.tags
  /\ pc = "tags" => HasDynamic(file) /\ i \in DOMAIN file.tags /\ NotedBefore(i)
  /\ pc \in {"sanity", "allocate"} /\ HasDynamic(file) =>
       NotedBefore(Len(file.tags)) /\ TablesRead /\ MandatoryThere
  /\ pc \in {"dynamic_tags", "relocate", "initialize"} => NotedBefore(Len(file.tags))
  /\ pc \in {"file_header", "program_headers", "dynamic_segment"}
       \/ (pc = "sanity" /\ ~HasDynamic(file))
     => noted = NothingNoted /\ tables = NoTables /\ dyntab = << >>

(* A tag relocate_dynamic_tag_info goes past.                              *)
TagGood(k) ==
  LET t == file.tags[k].d_tag
  IN  t \in OtherTags \/ (t \in SectionTags /\ HasSegment(file, file.tags[k].d_val))

(* What the checks of the loader let through, taken as one: is_valid_*,     *)
(* the tables the tags lead to, and relocate_dynamic_tag_info.             *)
Passes(f) ==
  /\ f.ehdr.e_machine = EM_TI_C6000
  /\ f.ehdr.e_type \in {ET_EXEC, ET_DYN}
  /\ f.ehdr.e_type = ET_DYN => HasDynamic(f)
  /\ \A k \in DOMAIN f.phdr :
        /\ f.phdr[k].p_type = PT_LOAD => f.phdr[k].p_filesz <= f.phdr[k].p_memsz
        /\ FileEnd(f.phdr[k]) % (ByteSize * ByteSize) < f.size
  /\ Len(f.phdr) * PhdrSize < f.size
  /\ IF HasDynamic(f) THEN TableSound(f) ELSE 0 < f.size

(* A file is turned down only if it does not pass, and relocated only if it *)
(* does; between the two the tags that were moved were good.               *)
Verdict ==
  /\ pc \in {"rejected", "failed"} => ~Passes(file)
  /\ pc = "static" => Passes(file)
  /\ pc \in Accepted =>
       /\ HasDynamic(file)
       /\ (\A k \in DOMAIN file.tags : file.tags[k].d_tag # DT_NULL => TagGood(k)) => Passes(file)
  /\ pc \in {"relocate", "initialize", "loaded", "terminated"} => Passes(file)

(* Tag k as relocate_dynamic_tag_info leaves it ...                        *)
AsMoved(k) ==
  IF file.tags[k].d_tag \in SectionTags
    THEN [file.tags[k] EXCEPT !.d_val = Moved(@, file.phdr, base)] ELSE file.tags[k]

(* ... which has gone past the tags before place n ...                     *)
TagsMoved(n) ==
  /\ DOMAIN dyntab = DOMAIN file.tags
  /\ \A k \in DOMAIN file.tags : dyntab[k] = IF k < n THEN AsMoved(k) ELSE file.tags[k]
  /\ \A k \in DOMAIN file.tags : k < n => TagGood(k)

(* ... and kept what the terminators are called from.                      *)
FiniMoved(n) ==
  /\ \A k \in Tagged(file, DT_FINI) : k < n => fini.fini = Moved(file.tags[k].d_val, file.phdr, base)
  /\ (\A k \in Tagged(file, DT_FINI) : k >= n) => fini.fini = 0
  /\ \A k \in Tagged(file, DT_FINI_ARRAY) :
        k < n => fini.fini_array = Moved(file.tags[k].d_val, file.phdr, base)
  /\ \A k \in Tagged(file, DT_FINI_ARRAYSZ) : k < n => fini.fini_arraysz = file.tags[k].d_val
  /\ (\A k \in Tagged(file, DT_FINI_ARRAYSZ) : k >= n) => fini.fini_arraysz = 0

(* The segments stand apart, and the tags follow them.                     *)
Placed ==
  /\ pc \in Accepted \ {"allocate"} => Chosen(file, base)
  /\ pc = "dynamic_tags" => i \in DOMAIN file.tags /\ TagsMoved(i) /\ FiniMoved(i)
  /\ pc \in {"relocate", "initialize"} => TagsMoved(Len(file.tags))
  /\ pc \in {"relocate", "initialize", "loaded", "terminated"} => FiniMoved(Len(file.tags))
  /\ pc \notin (Accepted \ {"allocate"}) \cup {"failed"} => fini = NoFini

(* Every word of a segment is where the segment was put, and from the      *)
(* relocation on a relocated one points to where its target was put.       *)
InMemory ==
  /\ pc \in {"dynamic_tags", "relocate"} =>
       \A a \in DOMAIN file.words :
          HasSegment(file, a) => memory[Moved(a, file.phdr, base)] = Stored(file.words[a])
  /\ pc \in {"initialize", "loaded", "terminated"} =>
       \A r \in file.relocated :
          memory[Moved(r, file.phdr, base)] = Stored(Moved(file.words[r], file.phdr, base))

(* The calls there are.                                                    *)
CallSet == [by : {"preinit", "init", "fini"}, at : Word]

(* The calls a file lists, by phase.                                       *)
PreinitCalls == Call("preinit", PreinitListed)
InitCalls == Call("init", RunAddresses(InitListed))
FiniCalls == Call("fini", RunAddresses(FiniListed))

(* The calls made so far are those listed for the phases done.             *)
Called ==
  /\ pc \notin {"relocate", "initialize", "loaded", "terminated"} => calls = << >>
  /\ ~Foreign /\ pc \in {"relocate", "initialize"} => calls = PreinitCalls
  /\ ~Foreign /\ pc = "loaded" => calls = PreinitCalls \o InitCalls
  /\ ~Foreign /\ pc = "terminated" => calls = PreinitCalls \o InitCalls \o FiniCalls
  /\ ~Foreign /\ pc \in {"loaded", "terminated"} => InitCalls \in Seq(CallSet)
  /\ ~Foreign /\ pc = "terminated" => FiniCalls \in Seq(CallSet)

(* The inductive invariant.                                                *)
ElfInv ==
  /\ TypeOK /\ HeaderRead /\ HeadersRead /\ HeaderGood /\ TagsRead /\ Verdict
  /\ Placed /\ InMemory /\ Called

(* What is assumed of the file at hand.                                    *)
LEMMA FileWritten ==
  ASSUME TypeOK
  PROVE  Written(file) /\ Linked(file)
  BY FileAssumption DEF TypeOK

(* Its dynamic table.                                                      *)
LEMMA TagTable ==
  ASSUME Written(file)
  PROVE  /\ Len(file.tags) \in Nat \ {0} /\ DOMAIN file.tags = 1 .. Len(file.tags)
         /\ \A k \in DOMAIN file.tags : file.tags[k] \in [DynFields -> Word]
         /\ \A k \in DOMAIN file.tags : file.tags[k].d_tag = DT_NULL <=> k = Len(file.tags)
         /\ \A t : \A j, k \in Tagged(file, t) : j = k
<1>1. Len(file.tags) \in Nat /\ DOMAIN file.tags = 1 .. Len(file.tags)
  BY LenProperties DEF Written
<1>2. \A k \in DOMAIN file.tags : file.tags[k] \in [DynFields -> Word]
  BY ElementOfSeq, <1>1 DEF Written
<1>3. PICK n \in DOMAIN file.tags : file.tags[n].d_tag = DT_NULL
  BY DEF Written
<1>4. n = Len(file.tags)
  BY <1>3 DEF Written
<1>5. \A k \in DOMAIN file.tags : file.tags[k].d_tag = DT_NULL <=> k = Len(file.tags)
  BY <1>3, <1>4 DEF Written
<1>6. \A t : \A j, k \in Tagged(file, t) : j = k
  BY DEF Written, Tagged
<1> QED BY <1>1, <1>2, <1>3, <1>4, <1>5, <1>6

(* A word is a number, and 0 is one.                                       *)
LEMMA ZeroWord == 0 \in Word /\ \A w \in Word : w \in Nat /\ w \in Int
<1>1. ByteSize \in Nat /\ ByteSize >= 1
  BY ElfFileAssumption
<1>2. ByteSize * ByteSize \in Nat /\ ByteSize * ByteSize >= 1
  BY <1>1
<1> QED BY <1>2 DEF Word

(* It holds before a file is opened.                                       *)
LEMMA InitElfInv == Init => ElfInv
<1> SUFFICES ASSUME Init PROVE ElfInv
  OBVIOUS
<1>1. TypeOK
  <2>1. file \in FileImage /\ Written(file)
    BY FileAssumption DEF Init
  <2>2. Len(file.tags) \in Nat
    BY <2>1, TagTable
  <2>3. calls \in Seq([by : {"preinit", "init", "fini"}, at : Word])
    BY EmptySeq DEF Init
  <2>4. DOMAIN phdr = {} /\ DOMAIN dyntab = {}
    BY EmptySeq DEF Init
  <2>5. /\ DOMAIN noted = ValueNoted \cup PlaceNoted
        /\ \A t \in ValueNoted : noted[t] \in Word
        /\ \A t \in PlaceNoted : noted[t] \in DOMAIN file.tags \cup {-1}
    BY ZeroWord, TagSets DEF Init, NothingNoted
  <2>6. /\ memory \in [Word -> Word]
        /\ fini \in [fini : Word, fini_array : Word, fini_arraysz : Word] /\ tables.symnum \in Word
    BY ZeroWord DEF Init, NoTables, NoFini
  <2>7. i \in 0 .. Len(file.tags) + 1
    BY <2>2 DEF Init
  <2> QED BY <2>1, <2>3, <2>4, <2>5, <2>6, <2>7 DEF Init, TypeOK
<1>2. HeaderRead /\ HeadersRead /\ HeaderGood /\ TagsRead /\ Verdict
  BY DEF Init, HeaderRead, HeadersRead, HeaderGood, TagsRead, Verdict, WithHeaders, Accepted
<1>3. Placed /\ InMemory /\ Called
  BY DEF Init, Placed, InMemory, Called, Accepted
<1> QED BY <1>1, <1>2, <1>3 DEF ElfInv
-----------------------------------------------------------------------------
(* Reading.                                                                *)

(* No magic number is refused: what is compared is 0 or 1.                 *)
LEMMA NoMagicInvalid == ASSUME NEW h PROVE ~MagicInvalid(h)
  BY ElfFileAssumption DEF MagicInvalid, Not, ELFMAG0

(* dload_file_header keeps it.                                             *)
LEMMA ReadFileHeaderInv ==
  ASSUME ElfInv, ReadFileHeader
  PROVE  ElfInv'
<1>1. Written(file)
  BY FileWritten DEF ElfInv
<1>2. wrong_endian' = Foreign /\ header' = ReadRecord(file.ehdr, EhdrSwapped, Foreign)
  BY DEF ReadFileHeader, Foreign
<1>3. /\ header'.e_type = file.ehdr.e_type
      /\ header'.e_machine = file.ehdr.e_machine
      /\ header'.e_osabi = file.ehdr.e_osabi
  <2>1. {"e_type", "e_machine", "e_osabi"} \subseteq DOMAIN file.ehdr
    BY <1>1 DEF Written, EhdrSwapped
  <2>2. file.ehdr.e_type \in Word /\ file.ehdr.e_machine \in Word
    BY <1>1 DEF Written
  <2>3. \A f \in {"e_type", "e_machine"} :
          header'[f] = IF Foreign THEN Swap(Stored(file.ehdr[f])) ELSE Stored(file.ehdr[f])
    BY <1>2, <2>1 DEF ReadRecord, ByteFields, EhdrSwapped
  <2>4. header'.e_osabi = file.ehdr.e_osabi
    BY <1>2, <2>1 DEF ReadRecord, ByteFields
  <2> QED BY <2>2, <2>3, <2>4, StoredRead
<1>4. HeaderValid(header') <=>
        file.ehdr.e_machine = EM_TI_C6000 /\ file.ehdr.e_type \in {ET_EXEC, ET_DYN}
  BY <1>3, NoMagicInvalid DEF HeaderValid
<1>5. \/ HeaderValid(header') /\ pc' = "program_headers"
      \/ ~HeaderValid(header') /\ pc' = "rejected"
  BY DEF ReadFileHeader, Reject
<1>6. /\ UNCHANGED << file, phdr, dyntab, i, noted, tables, base, memory, fini, calls >>
      /\ pc = "file_header"
  BY DEF ReadFileHeader
<1>7. TypeOK'
  <2>1. {header'.e_type, header'.e_machine} \subseteq Word /\ wrong_endian' \in BOOLEAN
    BY <1>1, <1>2, <1>3 DEF Written, Foreign
  <2> QED BY <1>5, <1>6, <2>1 DEF ElfInv, TypeOK
<1>8. HeaderRead' /\ HeadersRead' /\ HeaderGood'
  BY <1>2, <1>3, <1>4, <1>5, <1>6 DEF HeaderRead, HeadersRead, HeaderGood, WithHeaders, Foreign
<1>9. TagsRead'
  BY <1>5, <1>6 DEF ElfInv, TagsRead
<1>10. Verdict'
  BY <1>4, <1>5, <1>6 DEF Verdict, Accepted, Passes
<1>11. Placed' /\ InMemory' /\ Called'
  BY <1>5, <1>6 DEF ElfInv, Placed, InMemory, Called, Accepted
<1> QED BY <1>7, <1>8, <1>9, <1>10, <1>11 DEF ElfInv

(* dload_program_header_table keeps it.                                    *)
LEMMA ReadProgramHeadersInv ==
  ASSUME ElfInv, ReadProgramHeaders
  PROVE  ElfInv'
<1>1. Written(file) /\ wrong_endian = Foreign
  BY FileWritten DEF ElfInv, HeaderRead, ReadProgramHeaders
<1>2. phdr' = file.phdr
  <2>1. PhdrFields \ ByteFields \subseteq PhdrSwapped /\ file.phdr \in Seq([PhdrFields -> Word])
    BY <1>1 DEF Written, PhdrFields, PhdrSwapped
  <2> QED BY <1>1, <2>1, RecordsRead DEF ReadProgramHeaders
<1>3. /\ UNCHANGED << file, wrong_endian, header, dyntab, i, noted, tables, base, memory, fini, calls >>
      /\ pc = "program_headers" /\ pc' = "dynamic_segment"
  BY DEF ReadProgramHeaders
<1>4. TypeOK'
  <2>1. \A k \in DOMAIN phdr' : phdr'[k] \in [PhdrFields -> Word]
    BY <1>1, <1>2, ElementOfSeq, LenProperties DEF Written
  <2> QED BY <1>3, <2>1 DEF ElfInv, TypeOK
<1>5. HeaderRead' /\ HeadersRead' /\ HeaderGood'
  BY <1>2, <1>3 DEF ElfInv, HeaderRead, HeadersRead, HeaderGood, WithHeaders, Foreign
<1>6. TagsRead' /\ Verdict'
  BY <1>3 DEF ElfInv, TagsRead, Verdict, Accepted
<1>7. Placed' /\ InMemory' /\ Called'
  BY <1>3 DEF ElfInv, Placed, InMemory, Called, Accepted
<1> QED BY <1>4, <1>5, <1>6, <1>7 DEF ElfInv

(* Before any tag nothing is noted.                                        *)
LEMMA NothingNotedYet ==
  ASSUME Written(file), noted = NothingNoted
  PROVE  NotedBefore(1)
<1>1. \A t : \A k \in Tagged(file, t) : ~(k < 1)
  BY TagTable DEF Tagged
<1>2. noted \in [ValueNoted \cup PlaceNoted -> Int]
  BY DEF NothingNoted
<1> QED BY <1>1, <1>2, TagSets DEF NotedBefore, NothingNoted

(* dload_headers' way to the dynamic segment keeps it.                     *)
LEMMA ReadDynamicTableInv ==
  ASSUME ElfInv, ReadDynamicTable
  PROVE  ElfInv'
<1>1. Written(file) /\ wrong_endian = Foreign /\ phdr = file.phdr
  BY FileWritten DEF ElfInv, HeaderRead, HeadersRead, WithHeaders, ReadDynamicTable
<1>2. Relocatable <=> HasDynamic(file)
  BY <1>1 DEF Relocatable, HasDynamic
<1>3. /\ UNCHANGED << file, wrong_endian, header, phdr, noted, tables, base, memory, fini, calls >>
      /\ pc = "dynamic_segment"
      /\ noted = NothingNoted /\ tables = NoTables /\ dyntab = << >>
      /\ header.e_osabi = file.ehdr.e_osabi
  BY DEF ElfInv, ReadDynamicTable, TagsRead, HeaderRead
<1>4. ReadRecords(file.tags, DynSwapped) = file.tags
  <2>1. DynFields \ ByteFields \subseteq DynSwapped /\ file.tags \in Seq([DynFields -> Word])
    BY <1>1 DEF Written, DynFields, DynSwapped
  <2> QED BY <1>1, <2>1, RecordsRead
<1>5. \/ ~HasDynamic(file) /\ pc' = "sanity" /\ UNCHANGED << dyntab, i >>
      \/ /\ HasDynamic(file) /\ file.ehdr.e_osabi = ELFOSABI_C6000_ELFABI
         /\ dyntab' = file.tags /\ i' = 1 /\ pc' = "tags"
      \/ /\ HasDynamic(file) /\ file.ehdr.e_osabi # ELFOSABI_C6000_ELFABI
         /\ pc' = "rejected" /\ UNCHANGED << dyntab, i >>
  BY <1>2, <1>3, <1>4 DEF ReadDynamicTable, Reject
<1>6. TypeOK'
  <2>1. \A k \in DOMAIN dyntab' : dyntab'[k] \in [DynFields -> Word]
    BY <1>1, <1>5, TagTable DEF ElfInv, TypeOK
  <2>2. i' \in 0 .. Len(file.tags) + 1
    BY <1>1, <1>5, TagTable DEF ElfInv, TypeOK
  <2> QED BY <1>3, <1>5, <2>1, <2>2 DEF ElfInv, TypeOK
<1>7. HeaderRead' /\ HeadersRead' /\ HeaderGood'
  BY <1>1, <1>3, <1>5 DEF ElfInv, HeaderRead, HeadersRead, HeaderGood, WithHeaders, Foreign
<1>8. TagsRead'
  <2>1. NotedBefore(1)
    BY <1>1, <1>3, NothingNotedYet
  <2>2. NotedBefore(1)'
    BY <1>3, <2>1 DEF NotedBefore
  <2>3. pc' = "tags" => NotedBefore(i)' /\ i' \in DOMAIN file'.tags
    <3>1. 1 \in DOMAIN file.tags
      BY <1>1, TagTable
    <3> QED BY <1>3, <1>5, <2>2, <3>1 DEF NotedBefore
  <2> QED BY <1>3, <1>5, <2>3 DEF TagsRead
<1>9. Verdict'
  BY <1>3, <1>5 DEF ElfInv, Verdict, Accepted, Passes, TableSound
<1>10. Placed' /\ InMemory' /\ Called'
  BY <1>3, <1>5 DEF ElfInv, Placed, InMemory, Called, Accepted
<1> QED BY <1>6, <1>7, <1>8, <1>9, <1>10 DEF ElfInv

(* Noting one dynamic tag keeps it.                                        *)
LEMMA ProcessTagInv ==
  ASSUME ElfInv, ProcessTag
  PROVE  ElfInv'
<1>1. Written(file) /\ HasDynamic(file) /\ dyntab = file.tags /\ i \in DOMAIN file.tags /\ NotedBefore(i)
  BY FileWritten DEF ElfInv, TagsRead, ProcessTag
<1>2. /\ UNCHANGED << file, pc, wrong_endian, header, phdr, dyntab, tables, base, memory, fini, calls >>
      /\ pc = "tags" /\ i' = i + 1
      /\ noted' = [t \in DOMAIN noted |->
                     IF t # file.tags[i].d_tag THEN noted[t]
                     ELSE IF t \in PlaceNoted THEN i ELSE file.tags[i].d_val]
      /\ file.tags[i].d_tag # DT_NULL
  BY <1>1 DEF ProcessTag
<1>3. i + 1 \in DOMAIN file.tags /\ i \in Nat /\ \A k \in DOMAIN file.tags : k \in Int
  BY <1>1, <1>2, TagTable
<1>4. DOMAIN noted = ValueNoted \cup PlaceNoted
  BY DEF ElfInv, TypeOK
<1>5. file.tags[i].d_val \in Word
  BY <1>1, TagTable DEF DynFields
<1>6. TypeOK'
  <2>1. /\ DOMAIN noted' = ValueNoted \cup PlaceNoted
        /\ \A t \in ValueNoted : noted'[t] \in Word
        /\ \A t \in PlaceNoted : noted'[t] \in DOMAIN file.tags \cup {-1}
    BY <1>1, <1>2, <1>4, <1>5, TagSets DEF ElfInv, TypeOK
  <2>2. i' \in 0 .. Len(file.tags) + 1
    BY <1>1, <1>2, <1>3, TagTable
  <2> QED BY <1>2, <2>1, <2>2 DEF ElfInv, TypeOK
<1>7. HeaderRead' /\ HeadersRead' /\ HeaderGood'
  BY <1>2 DEF ElfInv, HeaderRead, HeadersRead, HeaderGood, WithHeaders, Foreign
<1>8. NotedBefore(i)'
  <2>1. noted' \in [ValueNoted \cup PlaceNoted -> Int]
    <3>1. \A t \in ValueNoted \cup PlaceNoted : noted[t] \in Int
      BY <1>1 DEF NotedBefore
    <3>2. /\ DOMAIN noted' = DOMAIN noted /\ noted' = [t \in DOMAIN noted' |-> noted'[t]]
          /\ \A t \in DOMAIN noted :
               noted'[t] = IF t # file.tags[i].d_tag THEN noted[t]
                           ELSE IF t \in PlaceNoted THEN i ELSE file.tags[i].d_val
      BY <1>2
    <3>3. i \in Int
      BY <1>3
    <3>4. file.tags[i].d_val \in Int
      BY <1>5, ZeroWord
    <3>5. \A t \in ValueNoted \cup PlaceNoted :
            (IF t # file.tags[i].d_tag THEN noted[t]
             ELSE IF t \in PlaceNoted THEN i ELSE file.tags[i].d_val) \in Int
      BY <3>1, <3>3, <3>4
    <3> QED BY <1>4, <3>2, <3>5
  <2>2. ASSUME NEW t \in ValueNoted, NEW k \in Tagged(file, t), k < i + 1
        PROVE  noted'[t] = file.tags[k].d_val
    <3>1. k = i \/ k < i
      BY <1>3, <2>2 DEF Tagged
    <3>2. CASE k = i
      BY <1>2, <1>4, <3>2, TagSets DEF Tagged
    <3>3. CASE k < i
      <4>1. t # file.tags[i].d_tag
        BY <1>1, <1>3, <3>3 DEF Written, Tagged
      <4> QED BY <1>1, <1>2, <1>4, <3>3, <4>1 DEF NotedBefore
    <3> QED BY <3>1, <3>2, <3>3
  <2>3. ASSUME NEW t \in PlaceNoted, NEW k \in Tagged(file, t), k < i + 1
        PROVE  noted'[t] = k
    <3>1. k = i \/ k < i
      BY <1>3, <2>3 DEF Tagged
    <3>2. CASE k = i
      BY <1>2, <1>4, <3>2, TagSets DEF Tagged
    <3>3. CASE k < i
      <4>1. t # file.tags[i].d_tag
        BY <1>1, <1>3, <3>3 DEF Written, Tagged
      <4> QED BY <1>1, <1>2, <1>4, <3>3, <4>1 DEF NotedBefore
    <3> QED BY <3>1, <3>2, <3>3
  <2>4. ASSUME NEW t \in ValueNoted \cup PlaceNoted, \A k \in Tagged(file, t) : k >= i + 1
        PROVE  noted'[t] = noted[t] /\ \A k \in Tagged(file, t) : k >= i
    <3>1. t # file.tags[i].d_tag
      BY <1>1, <1>3, <2>4 DEF Tagged
    <3>2. \A k \in Tagged(file, t) : k >= i
      BY <1>3, <2>4 DEF Tagged
    <3> QED BY <1>2, <1>4, <3>1, <3>2
  <2>5. \A t \in ValueNoted : (\A k \in Tagged(file, t) : k >= i + 1) => noted'[t] = 0
    BY <1>1, <2>4 DEF NotedBefore
  <2>6. \A t \in PlaceNoted : (\A k \in Tagged(file, t) : k >= i + 1) => noted'[t] = -1
    BY <1>1, <2>4 DEF NotedBefore
  <2> QED BY <1>2, <2>1, <2>2, <2>3, <2>5, <2>6 DEF NotedBefore
<1>9. TagsRead'
  <2>1. i' \in DOMAIN file'.tags /\ HasDynamic(file')
    BY <1>1, <1>2, <1>3
  <2> QED BY <1>2, <1>8, <2>1 DEF ElfInv, TagsRead
<1>10. Verdict'
  BY <1>2 DEF ElfInv, Verdict, Accepted
<1>11. Placed' /\ InMemory' /\ Called'
  BY <1>2 DEF ElfInv, Placed, InMemory, Called, Accepted
<1> QED BY <1>6, <1>7, <1>8, <1>9, <1>10, <1>11 DEF ElfInv
(* What the whole table has left noted.                                    *)
LEMMA NotedValue ==
  ASSUME Written(file), NotedBefore(Len(file.tags))
  PROVE  /\ \A t \in ValueNoted :
               /\ \A k \in Tagged(file, t) : noted[t] = file.tags[k].d_val
               /\ Tagged(file, t) = {} => noted[t] = 0
         /\ \A t \in PlaceNoted :
               /\ \A k \in Tagged(file, t) : noted[t] = k
               /\ Tagged(file, t) = {} => noted[t] = -1
<1>1. ASSUME NEW t \in ValueNoted \cup PlaceNoted, NEW k \in Tagged(file, t)
      PROVE  k < Len(file.tags)
  <2>1. k \in DOMAIN file.tags /\ k # Len(file.tags)
    BY TagTable, TagSets DEF Tagged
  <2> QED BY <2>1, TagTable
<1> QED BY <1>1 DEF NotedBefore

(* Reading the string, hash and symbol tables keeps it.                    *)
LEMMA ReadTablesInv ==
  ASSUME ElfInv, ReadTables
  PROVE  ElfInv'
<1>1. /\ Written(file) /\ Linked(file) /\ HasDynamic(file) /\ wrong_endian = Foreign
      /\ i = Len(file.tags) /\ NotedBefore(Len(file.tags))
  <2>1. /\ Written(file) /\ Linked(file) /\ HasDynamic(file) /\ wrong_endian = Foreign
        /\ i \in DOMAIN file.tags /\ NotedBefore(i) /\ file.tags[i].d_tag = DT_NULL
    BY FileWritten DEF ElfInv, TagsRead, HeaderRead, ReadTables
  <2>2. i = Len(file.tags)
    BY <2>1, TagTable
  <2> QED BY <2>1, <2>2
<1>2. /\ UNCHANGED << file, wrong_endian, header, phdr, dyntab, i, noted, base, memory, fini, calls >>
      /\ pc = "tags"
      /\ \/ MandatoryMissing /\ pc' = "rejected" /\ UNCHANGED tables
         \/ /\ ~MandatoryMissing /\ pc' = "sanity"
            /\ tables' = [symnum |-> SymbolCount(noted[DT_HASH]),
                          symtab |-> Symbols(noted[DT_SYMTAB]),
                          name   |-> NameAt(noted[DT_SONAME])]
  BY DEF ReadTables, Reject
<1>3. ~MandatoryMissing <=> MandatoryThere
  BY <1>1, NotedValue, TagSets DEF MandatoryMissing, MandatoryThere
<1>4. ASSUME MandatoryThere
      PROVE  /\ SymbolCount(noted[DT_HASH]) = file.nchain
             /\ Symbols(noted[DT_SYMTAB])
                  = [k \in DOMAIN file.symtab |-> [file.symtab[k] EXCEPT !.st_name = file.strings[@]]]
  <2>1. noted[DT_HASH] = file.at_hash /\ noted[DT_SYMTAB] = file.at_symtab
    <3>1. /\ \E k \in Tagged(file, DT_HASH) : file.tags[k].d_val # 0
          /\ \E k \in Tagged(file, DT_SYMTAB) : file.tags[k].d_val # 0
      BY <1>4 DEF MandatoryThere
    <3>2. PICK h \in Tagged(file, DT_HASH), s \in Tagged(file, DT_SYMTAB) : TRUE
      BY <3>1
    <3>3. noted[DT_HASH] = file.tags[h].d_val /\ noted[DT_SYMTAB] = file.tags[s].d_val
      BY <1>1, NotedValue, TagSets
    <3> QED BY <1>1, <3>3 DEF Linked
  <2>2. WordRead(file.nchain) = file.nchain
    BY <1>1, StoredRead DEF WordRead, Written
  <2>3. ReadRecords(file.symtab, SymSwapped) = file.symtab
    <3>1. /\ SymFields \ ByteFields \subseteq SymSwapped
          /\ file.symtab \in Seq([SymFields -> Word])
      BY <1>1 DEF ByteFields, Written, SymFields, SymSwapped
    <3> QED BY <1>1, <3>1, RecordsRead
  <2>4. \A k \in DOMAIN file.symtab : NameAt(file.symtab[k].st_name) = file.strings[file.symtab[k].st_name]
    BY <1>1 DEF Written, NameAt
  <2> QED BY <2>1, <2>2, <2>3, <2>4 DEF SymbolCount, Symbols
<1>5. /\ \A k \in Tagged(file, DT_SONAME) :
           NameAt(noted[DT_SONAME]) = IF file.tags[k].d_val \in DOMAIN file.strings
                                      THEN file.strings[file.tags[k].d_val] ELSE ""
      /\ Tagged(file, DT_SONAME) = {} => NameAt(noted[DT_SONAME]) = ""
  BY <1>1, NotedValue, TagSets DEF NameAt, Linked
<1>6. pc' = "sanity" => MandatoryThere' /\ TablesRead'
  <2> SUFFICES ASSUME pc' = "sanity" PROVE MandatoryThere' /\ TablesRead'
    OBVIOUS
  <2>1. MandatoryThere
    BY <1>2, <1>3
  <2>2. /\ tables'.symnum = file.nchain
        /\ tables'.symtab = [k \in DOMAIN file.symtab |-> [file.symtab[k] EXCEPT !.st_name = file.strings[@]]]
        /\ tables'.name = NameAt(noted[DT_SONAME])
    BY <1>2, <1>4, <2>1
  <2> QED BY <1>2, <1>5, <2>1, <2>2 DEF TablesRead, MandatoryThere
<1>7. TypeOK'
  <2>1. tables'.symnum \in Word
    BY <1>1, <1>2, <1>3, <1>4 DEF ElfInv, TypeOK, Written
  <2> QED BY <1>2, <2>1 DEF ElfInv, TypeOK
<1>8. HeaderRead' /\ HeadersRead' /\ HeaderGood'
  BY <1>2 DEF ElfInv, HeaderRead, HeadersRead, HeaderGood, WithHeaders, Foreign
<1>9. TagsRead'
  <2>1. NotedBefore(Len(file.tags))'
    BY <1>1, <1>2 DEF NotedBefore
  <2> QED BY <1>1, <1>2, <1>6, <2>1 DEF ElfInv, TagsRead
<1>10. Verdict'
  BY <1>1, <1>2, <1>3 DEF Verdict, Accepted, Passes, TableSound, MandatoryThere
<1>11. Placed' /\ InMemory' /\ Called'
  BY <1>2 DEF ElfInv, Placed, InMemory, Called, Accepted
<1> QED BY <1>7, <1>8, <1>9, <1>10, <1>11 DEF ElfInv

(* The checks of the object file, as its linker meant it.                  *)
ObjectSound(f) ==
  /\ f.ehdr.e_type = ET_DYN => HasDynamic(f)
  /\ \A k \in DOMAIN f.phdr :
        /\ f.phdr[k].p_type = PT_LOAD => f.phdr[k].p_filesz <= f.phdr[k].p_memsz
        /\ FileEnd(f.phdr[k]) % (ByteSize * ByteSize) < f.size
  /\ Len(f.phdr) * PhdrSize < f.size
  /\ IF HasDynamic(f)
       THEN /\ \A k \in Tagged(f, DT_STRSZ) : f.tags[k].d_val < f.size
            /\ f.nchain < f.size
            /\ \E k \in Tagged(f, DT_SONAME) :
                  f.tags[k].d_val \in DOMAIN f.strings /\ f.strings[f.tags[k].d_val] # ""
       ELSE 0 < f.size

(* The sanity checks keep it: what they let through has none of the        *)
(* defects they look for.                                                  *)
LEMMA CheckFileInv ==
  ASSUME ElfInv, CheckFile
  PROVE  ElfInv'
<1>1. /\ Written(file) /\ phdr = file.phdr
      /\ header.e_type = file.ehdr.e_type
      /\ file.ehdr.e_machine = EM_TI_C6000 /\ file.ehdr.e_type \in {ET_EXEC, ET_DYN}
      /\ HasDynamic(file) =>
           /\ file.ehdr.e_osabi = ELFOSABI_C6000_ELFABI
           /\ NotedBefore(Len(file.tags)) /\ TablesRead /\ MandatoryThere
      /\ ~HasDynamic(file) => noted = NothingNoted /\ tables = NoTables
  BY FileWritten DEF ElfInv, HeaderRead, HeadersRead, HeaderGood, TagsRead, WithHeaders, CheckFile
<1>2. Relocatable <=> HasDynamic(file)
  BY <1>1 DEF Relocatable, HasDynamic
<1>3. ValidObjectFile <=> ObjectSound(file)
  <2>1. CASE HasDynamic(file)
    <3>1. PICK s \in Tagged(file, DT_STRSZ) : file.tags[s].d_val # 0
      BY <1>1, <2>1 DEF MandatoryThere
    <3>2. noted[DT_STRSZ] = file.tags[s].d_val /\ \A k \in Tagged(file, DT_STRSZ) : k = s
      BY <1>1, <2>1, <3>1, NotedValue, TagSets, TagTable
    <3>3. tables.symnum = file.nchain
      BY <1>1, <2>1 DEF TablesRead
    <3>4. tables.name # "" <=>
            \E k \in Tagged(file, DT_SONAME) :
              file.tags[k].d_val \in DOMAIN file.strings /\ file.strings[file.tags[k].d_val] # ""
      <4>1. CASE Tagged(file, DT_SONAME) = {}
        BY <1>1, <2>1, <4>1 DEF TablesRead
      <4>2. CASE Tagged(file, DT_SONAME) # {}
        <5>1. PICK n \in Tagged(file, DT_SONAME) : \A k \in Tagged(file, DT_SONAME) : k = n
          BY <1>1, <4>2, TagTable
        <5> QED BY <1>1, <2>1, <5>1 DEF TablesRead
      <4> QED BY <4>1, <4>2
    <3> QED BY <1>1, <1>2, <2>1, <3>1, <3>2, <3>3, <3>4
            DEF ValidObjectFile, ObjectSound, SegmentInFile, FileEnd
  <2>2. CASE ~HasDynamic(file)
    <3>1. noted[DT_STRSZ] = 0
      <4>1. noted = NothingNoted /\ DT_STRSZ \in ValueNoted
        BY <1>1, <2>2, TagSets
      <4> QED BY <4>1 DEF NothingNoted
    <3>2. tables.symnum = 0
      <4>1. tables = NoTables
        BY <1>1, <2>2
      <4> QED BY <4>1 DEF NoTables
    <3>3. /\ noted[DT_STRSZ] < file.size <=> 0 < file.size
          /\ tables.symnum < file.size <=> 0 < file.size
      BY <3>1, <3>2
    <3> QED BY <1>1, <1>2, <2>2, <3>3 DEF ValidObjectFile, ObjectSound, SegmentInFile, FileEnd
  <2> QED BY <2>1, <2>2
<1>4. /\ UNCHANGED << file, wrong_endian, header, phdr, dyntab, i, noted, tables, base, memory, fini, calls >>
      /\ pc = "sanity"
      /\ \/ ~ObjectSound(file) /\ pc' = "rejected"
         \/ ObjectSound(file) /\ HasDynamic(file) /\ pc' = "allocate"
         \/ ObjectSound(file) /\ ~HasDynamic(file) /\ pc' = "static"
  BY <1>2, <1>3 DEF CheckFile, Reject
<1>5. TypeOK'
  BY <1>4 DEF ElfInv, TypeOK
<1>6. HeaderRead' /\ HeadersRead' /\ HeaderGood'
  BY <1>4 DEF ElfInv, HeaderRead, HeadersRead, HeaderGood, WithHeaders, Foreign
<1>7. TagsRead'
  <2>1. HasDynamic(file) => NotedBefore(Len(file.tags))' /\ TablesRead' /\ MandatoryThere'
    BY <1>1, <1>4 DEF NotedBefore, TablesRead, MandatoryThere
  <2> QED BY <1>4, <2>1 DEF ElfInv, TagsRead
<1>8. Verdict'
  <2>1. ~ObjectSound(file) => ~Passes(file)
    BY DEF Passes, TableSound, ObjectSound
  <2>2. ObjectSound(file) /\ ~HasDynamic(file) => Passes(file)
    BY <1>1 DEF Passes, ObjectSound
  <2>3. ASSUME ObjectSound(file), HasDynamic(file),
               \A k \in DOMAIN file.tags : file.tags[k].d_tag # DT_NULL => TagGood(k)
        PROVE  Passes(file)
    <3>1. TableSound(file)
      BY <1>1, <2>3 DEF TableSound, ObjectSound, MandatoryThere, TagGood
    <3> QED BY <1>1, <2>3, <3>1 DEF Passes, ObjectSound
  <2> QED BY <1>4, <2>1, <2>2, <2>3 DEF Verdict, Accepted, TagGood
<1>9. Placed' /\ InMemory' /\ Called'
  BY <1>4 DEF ElfInv, Placed, InMemory, Called, Accepted
<1> QED BY <1>5, <1>6, <1>7, <1>8, <1>9 DEF ElfInv
-----------------------------------------------------------------------------
(* Placement.                                                              *)

(* What was linked into a segment runs at the same distance from where the *)
(* segment runs as it was linked from where the segment was.               *)
LEMMA MovedTo ==
  ASSUME NEW f \in FileImage, NEW where, Chosen(f, where),
         NEW k \in Loads(f.phdr), NEW a \in LinkRange(f.phdr[k])
  PROVE  /\ a \in Int /\ where[k] \in Int /\ f.phdr[k].p_vaddr \in Int
         /\ Moved(a, f.phdr, where) = a + where[k] - f.phdr[k].p_vaddr
         /\ Moved(a, f.phdr, where) \in RunRange(f.phdr[k], where[k])
         /\ Moved(a, f.phdr, where) \in Word \ {0}
<1>1. Written(f) /\ Linked(f)
  BY FileAssumption
<1>2. k \in DOMAIN f.phdr /\ f.phdr[k] \in [PhdrFields -> Word]
  BY <1>1, ElementOfSeq, LenProperties DEF Loads, Written
<1>3. f.phdr[k].p_vaddr \in Word /\ f.phdr[k].p_memsz \in Word
  BY <1>2 DEF PhdrFields
<1>4. f.phdr[k].p_vaddr \in Int /\ f.phdr[k].p_memsz \in Int
  BY <1>3, ZeroWord
<1>5. where[k] \in Int
  <2>1. k \in DOMAIN where /\ where \in Seq(Nat)
    BY ElfFileAssumption DEF Chosen, Apart
  <2> QED BY <2>1, ElementOfSeq, LenProperties
<1>6. a \in Int /\ a >= f.phdr[k].p_vaddr /\ a <= f.phdr[k].p_vaddr + f.phdr[k].p_memsz - 1
  BY <1>4 DEF LinkRange
<1>7. \A j \in Loads(f.phdr) : a \in LinkRange(f.phdr[j]) => j = k
  BY <1>1 DEF Linked
<1>8. Moved(a, f.phdr, where) = a + where[k] - f.phdr[k].p_vaddr
  <2>1. (CHOOSE j \in Loads(f.phdr) : a \in LinkRange(f.phdr[j])) = k
    BY <1>7
  <2> QED BY <2>1 DEF Moved
<1>9. a + where[k] - f.phdr[k].p_vaddr \in RunRange(f.phdr[k], where[k])
  BY <1>4, <1>5, <1>6 DEF RunRange
<1>10. RunRange(f.phdr[k], where[k]) \subseteq Word \ {0}
  BY DEF Chosen, Apart
<1> QED BY <1>4, <1>5, <1>6, <1>8, <1>9, <1>10

(* No two addresses of a file run at the same place.                       *)
LEMMA MovedOnce ==
  ASSUME NEW f \in FileImage, NEW where, Chosen(f, where),
         NEW a, NEW b, HasSegment(f, a), HasSegment(f, b),
         Moved(a, f.phdr, where) = Moved(b, f.phdr, where)
  PROVE  a = b
<1>1. PICK k \in Loads(f.phdr) : a \in LinkRange(f.phdr[k])
  BY DEF HasSegment
<1>2. PICK j \in Loads(f.phdr) : b \in LinkRange(f.phdr[j])
  BY DEF HasSegment
<1>3. /\ a \in Int /\ where[k] \in Int /\ f.phdr[k].p_vaddr \in Int
      /\ Moved(a, f.phdr, where) = a + where[k] - f.phdr[k].p_vaddr
      /\ Moved(a, f.phdr, where) \in RunRange(f.phdr[k], where[k])
  BY <1>1, MovedTo
<1>4. /\ b \in Int
      /\ Moved(b, f.phdr, where) = b + where[j] - f.phdr[j].p_vaddr
      /\ Moved(b, f.phdr, where) \in RunRange(f.phdr[j], where[j])
  BY <1>2, MovedTo
<1>5. j = k
  BY <1>3, <1>4 DEF Chosen, Apart
<1>6. a + where[k] - f.phdr[k].p_vaddr = b + where[k] - f.phdr[k].p_vaddr
  BY <1>3, <1>4, <1>5
<1> QED BY <1>3, <1>4, <1>6

(* What is in a segment runs at an address.                                *)
LEMMA MovedWord ==
  ASSUME NEW f \in FileImage, NEW where, Chosen(f, where), NEW a, HasSegment(f, a)
  PROVE  Moved(a, f.phdr, where) \in Word \ {0}
<1>1. PICK k \in Loads(f.phdr) : a \in LinkRange(f.phdr[k])
  BY DEF HasSegment
<1> QED BY <1>1, MovedTo

(* What lies in the file at an address is a word, 0 where it has none.      *)
LEMMA ContentWord ==
  ASSUME Written(file), NEW a
  PROVE  Content(a) \in Word
  BY ZeroWord, StoredRead DEF Content, Written

(* DLIF_allocate has put every word of a segment where it runs.            *)
LEMMA AllocatedWords ==
  ASSUME ElfInv, AllocateSegments
  PROVE  /\ memory' \in [Word -> Word]
         /\ \A a \in DOMAIN file.words : HasSegment(file, a) =>
              memory'[Moved(a, file.phdr, base')] = Stored(file.words[a])
<1>1. file \in FileImage /\ Written(file) /\ Chosen(file, base') /\ phdr = file.phdr
  BY FileWritten DEF ElfInv, TypeOK, AllocateSegments, Chosen, HeadersRead, WithHeaders
<1> DEFINE here(x) == {k \in Loads(file.phdr) : x \in RunRange(file.phdr[k], base'[k])}
           new(x)  == LET k == CHOOSE k \in here(x) : TRUE
                      IN  Content(x - base'[k] + file.phdr[k].p_vaddr)
<1>2. memory' = [x \in Word |-> IF here(x) = {} THEN memory[x] ELSE new(x)]
  BY <1>1 DEF AllocateSegments
<1>3. \A x \in Word : memory[x] \in Word /\ new(x) \in Word
  BY <1>1, ContentWord DEF ElfInv, TypeOK
<1>4. memory' \in [Word -> Word]
  <2> HIDE DEF here, new
  <2> QED BY <1>2, <1>3
<1>5. ASSUME NEW a \in DOMAIN file.words, HasSegment(file, a)
      PROVE  memory'[Moved(a, file.phdr, base')] = Stored(file.words[a])
  <2> DEFINE x == Moved(a, file.phdr, base')
  <2>1. PICK k \in Loads(file.phdr) : a \in LinkRange(file.phdr[k])
    BY <1>5 DEF HasSegment
  <2>2. /\ a \in Int /\ base'[k] \in Int /\ file.phdr[k].p_vaddr \in Int
        /\ x = a + base'[k] - file.phdr[k].p_vaddr
        /\ x \in RunRange(file.phdr[k], base'[k])
        /\ x \in Word
    BY <1>1, <2>1, MovedTo
  <2> HIDE DEF x
  <2>3. here(x) = {k}
    BY <1>1, <2>1, <2>2 DEF Chosen, Apart
  <2>4. new(x) = Content(x - base'[k] + file.phdr[k].p_vaddr)
    BY <2>3
  <2>5. x - base'[k] + file.phdr[k].p_vaddr = a
    BY <2>2
  <2>6. memory'[x] = Content(a)
    <3>1. here(x) # {}
      BY <2>3
    <3> HIDE DEF here, new
    <3> QED BY <1>2, <2>2, <2>4, <2>5, <3>1
  <2> QED BY <1>5, <2>6 DEF Content, x
<1> QED BY <1>4, <1>5

(* Placing and filling the segments keeps it.                              *)
LEMMA AllocateSegmentsInv ==
  ASSUME ElfInv, AllocateSegments
  PROVE  ElfInv'
<1>1. /\ UNCHANGED << file, wrong_endian, header, phdr, dyntab, noted, tables, fini, calls >>
      /\ pc = "allocate" /\ pc' = "dynamic_tags" /\ i' = 1
  BY DEF AllocateSegments
<1>2. /\ Written(file) /\ phdr = file.phdr /\ HasDynamic(file) /\ dyntab = file.tags
      /\ NotedBefore(Len(file.tags)) /\ fini = NoFini
      /\ Chosen(file, base')
  BY <1>1, FileWritten
  DEF ElfInv, TypeOK, HeadersRead, TagsRead, Verdict, Placed, WithHeaders, Accepted, AllocateSegments, Chosen
<1>3. 1 \in DOMAIN file.tags /\ 1 \in 0 .. Len(file.tags) + 1
  BY <1>2, TagTable
<1>4. TypeOK'
  BY <1>1, <1>3, AllocatedWords DEF ElfInv, TypeOK
<1>5. HeaderRead' /\ HeadersRead' /\ HeaderGood'
  BY <1>1 DEF ElfInv, HeaderRead, HeadersRead, HeaderGood, WithHeaders, Foreign
<1>6. TagsRead'
  <2>1. NotedBefore(Len(file.tags))'
    BY <1>1, <1>2 DEF NotedBefore
  <2> QED BY <1>1, <2>1 DEF TagsRead
<1>7. Verdict'
  BY <1>1 DEF ElfInv, Verdict, Accepted, TagGood
<1>8. Placed'
  <2>1. \A k \in DOMAIN file.tags : ~(k < 1) /\ k >= 1
    BY <1>2, TagTable
  <2>2. TagsMoved(i)'
    BY <1>1, <1>2, <2>1 DEF TagsMoved
  <2>3. fini'.fini = 0 /\ fini'.fini_arraysz = 0
    BY <1>1, <1>2 DEF NoFini
  <2>4. FiniMoved(i)'
    BY <1>1, <2>1, <2>3 DEF FiniMoved, Tagged
  <2> QED BY <1>1, <1>2, <1>3, <2>2, <2>4 DEF Placed, Accepted, Chosen
<1>9. InMemory'
  <2>1. \A a \in DOMAIN file.words : HasSegment(file, a) =>
          memory'[Moved(a, file.phdr, base')] = Stored(file.words[a])
    BY AllocatedWords
  <2> QED BY <1>1, <2>1 DEF InMemory, Stored, Foreign
<1>10. Called'
  BY <1>1 DEF ElfInv, Called
<1> QED BY <1>4, <1>5, <1>6, <1>7, <1>8, <1>9, <1>10 DEF ElfInv

(* A tag that takes relocate_dynamic_tag_info further is moved, or kept.    *)
LEMMA TagMovedWord ==
  ASSUME Written(file), file \in FileImage, Chosen(file, base), NEW k \in DOMAIN file.tags, TagGood(k)
  PROVE  /\ AsMoved(k) \in [DynFields -> Word]
         /\ AsMoved(k).d_tag = file.tags[k].d_tag
         /\ file.tags[k].d_tag \in SectionTags =>
              AsMoved(k).d_val = Moved(file.tags[k].d_val, file.phdr, base)
         /\ file.tags[k].d_tag \notin SectionTags => AsMoved(k).d_val = file.tags[k].d_val
<1>1. file.tags[k] \in [DynFields -> Word]
  BY TagTable
<1>2. CASE file.tags[k].d_tag \in SectionTags
  <2>1. HasSegment(file, file.tags[k].d_val)
    BY <1>2, TagSets DEF TagGood
  <2>2. Moved(file.tags[k].d_val, file.phdr, base) \in Word
    BY <2>1, MovedWord
  <2>3. AsMoved(k) = [file.tags[k] EXCEPT !.d_val = Moved(file.tags[k].d_val, file.phdr, base)]
    BY <1>2 DEF AsMoved
  <2> QED BY <1>1, <1>2, <2>2, <2>3 DEF DynFields
<1>3. CASE file.tags[k].d_tag \notin SectionTags
  BY <1>1, <1>3 DEF AsMoved
<1> QED BY <1>2, <1>3

(* Moving one dynamic tag with its segment keeps it.                       *)
LEMMA MoveTagInv ==
  ASSUME ElfInv, MoveTag
  PROVE  ElfInv'
<1>1. /\ file \in FileImage /\ Written(file) /\ phdr = file.phdr /\ Chosen(file, base)
      /\ i \in DOMAIN file.tags /\ TagsMoved(i) /\ FiniMoved(i) /\ NotedBefore(Len(file.tags))
      /\ calls = << >> /\ HasDynamic(file)
  BY FileWritten
  DEF ElfInv, TypeOK, HeadersRead, TagsRead, Verdict, Placed, Called, WithHeaders, Accepted, MoveTag
<1> DEFINE tag == file.tags[i].d_tag
           val == file.tags[i].d_val
<1>2. dyntab[i] = file.tags[i] /\ DOMAIN dyntab = DOMAIN file.tags
  <2>1. ~(i < i)
    BY <1>1, TagTable
  <2> QED BY <1>1, <2>1 DEF TagsMoved
<1>3. tag # DT_NULL
  BY <1>2 DEF MoveTag
<1>4. /\ UNCHANGED << file, wrong_endian, header, phdr, noted, tables, base, memory, calls >>
      /\ i' = i + 1 /\ pc = "dynamic_tags"
  BY DEF MoveTag
<1>5. /\ i \in Nat /\ i < Len(file.tags) /\ Len(file.tags) \in Nat
      /\ i + 1 \in DOMAIN file.tags
      /\ \A k \in DOMAIN file.tags : k \in Int /\ (k < i + 1 <=> k < i \/ k = i) /\ (k >= i + 1 <=> k >= i /\ k # i)
  BY <1>1, <1>3, TagTable
<1>6. InSomeSegment(val) <=> HasSegment(file, val)
  BY <1>1 DEF InSomeSegment, HasSegment
<1>7. \/ /\ TagGood(i) /\ pc' = "dynamic_tags"
         /\ DOMAIN dyntab' = DOMAIN dyntab
         /\ \A k \in DOMAIN dyntab : dyntab'[k] = IF k = i THEN AsMoved(i) ELSE dyntab[k]
         /\ fini' = FiniAfter(tag, AsMoved(i).d_val)
      \/ /\ ~TagGood(i) /\ pc' = "failed" /\ UNCHANGED << dyntab, fini >>
  <2>1. CASE tag \in SectionTags /\ HasSegment(file, val)
    <3>1. TagGood(i) /\ tag \notin OtherTags
      BY <2>1, TagSets DEF TagGood
    <3>2. /\ dyntab' = [dyntab EXCEPT ![i].d_val = Moved(val, file.phdr, base)]
          /\ fini' = FiniAfter(tag, Moved(val, file.phdr, base))
          /\ pc' = pc
      BY <1>1, <1>2, <1>6, <2>1, <3>1 DEF MoveTag
    <3>3. AsMoved(i) = [dyntab[i] EXCEPT !.d_val = Moved(val, file.phdr, base)]
      BY <1>2, <2>1 DEF AsMoved
    <3>4. AsMoved(i).d_val = Moved(val, file.phdr, base)
      BY <1>1, <2>1, <3>1, TagMovedWord
    <3> QED BY <1>4, <3>1, <3>2, <3>3, <3>4
  <2>2. CASE tag \in OtherTags
    <3>1. TagGood(i) /\ tag \notin SectionTags
      BY <2>2, TagSets DEF TagGood
    <3>2. UNCHANGED << pc, dyntab >> /\ fini' = FiniAfter(tag, val)
      BY <1>2, <2>2, <3>1 DEF MoveTag
    <3>3. AsMoved(i) = dyntab[i]
      BY <1>2, <3>1 DEF AsMoved
    <3> QED BY <1>2, <1>4, <3>1, <3>2, <3>3
  <2>3. CASE ~(tag \in SectionTags /\ HasSegment(file, val)) /\ tag \notin OtherTags
    <3>1. ~TagGood(i)
      BY <2>3 DEF TagGood
    <3>2. pc' = "failed" /\ UNCHANGED << dyntab, fini >>
      BY <1>1, <1>2, <1>6, <2>3 DEF MoveTag
    <3> QED BY <3>1, <3>2
  <2> QED BY <2>1, <2>2, <2>3
<1>8. TypeOK'
  <2>1. /\ \A k \in DOMAIN dyntab' : dyntab'[k] \in [DynFields -> Word]
        /\ fini' \in [fini : Word, fini_array : Word, fini_arraysz : Word]
    <3>1. CASE ~TagGood(i)
      BY <1>7, <3>1 DEF ElfInv, TypeOK
    <3>2. CASE TagGood(i)
      <4>1. AsMoved(i) \in [DynFields -> Word]
        BY <1>1, <3>2, TagMovedWord
      <4>2. AsMoved(i).d_val \in Word
        BY <4>1 DEF DynFields
      <4>3. FiniAfter(tag, AsMoved(i).d_val) \in [fini : Word, fini_array : Word, fini_arraysz : Word]
        BY <4>2 DEF ElfInv, TypeOK, FiniAfter
      <4>4. \A k \in DOMAIN dyntab' : dyntab'[k] \in [DynFields -> Word]
        BY <1>2, <1>7, <3>2, <4>1 DEF ElfInv, TypeOK
      <4> QED BY <1>7, <3>2, <4>3, <4>4
    <3> QED BY <3>1, <3>2
  <2>2. i' \in 0 .. Len(file.tags) + 1
    BY <1>4, <1>5
  <2>3. pc' \in {"dynamic_tags", "failed"}
    BY <1>7
  <2> QED BY <1>4, <2>1, <2>2, <2>3 DEF ElfInv, TypeOK
<1>9. HeaderRead' /\ HeadersRead' /\ HeaderGood'
  BY <1>4, <1>7 DEF ElfInv, HeaderRead, HeadersRead, HeaderGood, WithHeaders, Foreign
<1>10. TagsRead'
  <2>1. NotedBefore(Len(file.tags))'
    BY <1>1, <1>4 DEF NotedBefore
  <2>2. pc' \in {"dynamic_tags", "failed"}
    BY <1>7
  <2> QED BY <1>4, <2>1, <2>2 DEF TagsRead
<1>11. Verdict'
  <2>1. CASE TagGood(i)
    BY <1>4, <1>7, <2>1 DEF ElfInv, Verdict, Accepted, TagGood
  <2>2. CASE ~TagGood(i)
    <3>1. ~Passes(file)
      BY <1>1, <1>3, <2>2 DEF Passes, TableSound, TagGood
    <3> QED BY <1>4, <1>7, <2>2, <3>1 DEF Verdict, Accepted
  <2> QED BY <2>1, <2>2
<1>12. Placed'
  <2>1. CASE ~TagGood(i)
    <3>1. pc' = "failed"
      BY <1>7, <2>1
    <3> QED BY <3>1 DEF Placed, Accepted
  <2>2. CASE TagGood(i)
    <3>1. \A k \in DOMAIN file.tags : AsMoved(k)' = AsMoved(k) /\ (TagGood(k)' <=> TagGood(k))
      BY <1>4 DEF AsMoved, TagGood
    <3>2. /\ DOMAIN dyntab' = DOMAIN file.tags
          /\ \A k \in DOMAIN file.tags : dyntab'[k] = IF k = i THEN AsMoved(i) ELSE dyntab[k]
      BY <1>2, <1>7, <2>2
    <3>3. TagsMoved(i)'
      <4>1. \A k \in DOMAIN file.tags :
              dyntab'[k] = IF k < i + 1 THEN AsMoved(k) ELSE file.tags[k]
        BY <1>1, <1>5, <3>2 DEF TagsMoved
      <4>2. \A k \in DOMAIN file.tags : k < i + 1 => TagGood(k)
        BY <1>1, <1>5, <2>2 DEF TagsMoved
      <4> QED BY <1>4, <3>1, <3>2, <4>1, <4>2 DEF TagsMoved
    <3>4. FiniMoved(i)'
      <4>1. /\ tag \in SectionTags => AsMoved(i).d_val = Moved(val, file.phdr, base)
            /\ tag \notin SectionTags => AsMoved(i).d_val = val
        BY <1>1, <2>2, TagMovedWord
      <4>2. fini' = FiniAfter(tag, AsMoved(i).d_val)
        BY <1>7, <2>2
      <4>3. /\ fini'.fini = IF tag = DT_FINI THEN Moved(val, file.phdr, base) ELSE fini.fini
            /\ fini'.fini_array = IF tag = DT_FINI_ARRAY THEN Moved(val, file.phdr, base)
                                  ELSE fini.fini_array
            /\ fini'.fini_arraysz = IF tag = DT_FINI_ARRAYSZ THEN val ELSE fini.fini_arraysz
        <5>1. fini \in [fini : Word, fini_array : Word, fini_arraysz : Word]
          BY DEF ElfInv, TypeOK
        <5>2. CASE tag = DT_FINI
          BY <4>1, <4>2, <5>1, <5>2, TagSets DEF FiniAfter
        <5>3. CASE tag = DT_FINI_ARRAY
          BY <4>1, <4>2, <5>1, <5>3, TagSets DEF FiniAfter
        <5>4. CASE tag = DT_FINI_ARRAYSZ
          BY <4>1, <4>2, <5>1, <5>4, TagSets DEF FiniAfter
        <5>5. CASE tag \notin {DT_FINI, DT_FINI_ARRAY, DT_FINI_ARRAYSZ}
          BY <4>2, <5>5 DEF FiniAfter
        <5> QED BY <5>2, <5>3, <5>4, <5>5
      <4>4. \A t : /\ t = tag => i \in Tagged(file, t) /\ \A k \in Tagged(file, t) : k = i
                   /\ t # tag => \A k \in Tagged(file, t) : k # i
        BY <1>1, TagTable DEF Tagged
      <4>5. \A t : \A k \in Tagged(file, t) : k \in DOMAIN file.tags
        BY DEF Tagged
      <4>6. /\ \A k \in Tagged(file, DT_FINI) :
                 k < i + 1 => fini'.fini = Moved(file.tags[k].d_val, file.phdr, base)
            /\ (\A k \in Tagged(file, DT_FINI) : k >= i + 1) => fini'.fini = 0
        BY <1>1, <1>5, <4>3, <4>4, <4>5 DEF FiniMoved
      <4>7. \A k \in Tagged(file, DT_FINI_ARRAY) :
              k < i + 1 => fini'.fini_array = Moved(file.tags[k].d_val, file.phdr, base)
        BY <1>1, <1>5, <4>3, <4>4, <4>5 DEF FiniMoved
      <4>8. /\ \A k \in Tagged(file, DT_FINI_ARRAYSZ) :
                 k < i + 1 => fini'.fini_arraysz = file.tags[k].d_val
            /\ (\A k \in Tagged(file, DT_FINI_ARRAYSZ) : k >= i + 1) => fini'.fini_arraysz = 0
        BY <1>1, <1>5, <4>3, <4>4, <4>5 DEF FiniMoved
      <4> QED BY <1>4, <4>6, <4>7, <4>8 DEF FiniMoved
    <3>5. i' \in DOMAIN file'.tags
      BY <1>4, <1>5
    <3> QED BY <1>1, <1>4, <1>7, <2>2, <3>3, <3>4, <3>5 DEF Placed, Accepted, Chosen
  <2> QED BY <2>1, <2>2
<1>13. InMemory' /\ Called'
  BY <1>4, <1>7 DEF ElfInv, InMemory, Called, Stored, Foreign
<1> QED BY <1>8, <1>9, <1>10, <1>11, <1>12, <1>13 DEF ElfInv
-----------------------------------------------------------------------------
(* The functions of the module.                                            *)

(* The value of a tag, and whether the file has it.                        *)
LEMMA TagOfFile ==
  ASSUME Written(file), NEW t
  PROVE  /\ HasTag(t) <=> Tagged(file, t) # {}
         /\ \A k \in Tagged(file, t) : TagValue(t) = file.tags[k].d_val
<1>1. HasTag(t) <=> Tagged(file, t) # {}
  BY DEF HasTag, Tagged
<1>2. ASSUME NEW k \in Tagged(file, t) PROVE TagValue(t) = file.tags[k].d_val
  <2>1. (CHOOSE j \in DOMAIN file.tags : file.tags[j].d_tag = t) = k
    BY TagTable DEF Tagged
  <2> QED BY <2>1 DEF TagValue
<1> QED BY <1>1, <1>2

(* An array stays in one piece: its entries, and where each of them runs.   *)
LEMMA ArrayMoved ==
  ASSUME Written(file), file \in FileImage, Chosen(file, base), NEW array, NEW size, NEW there,
         ArrayLinked(file, array, size, there),
         NEW s \in Tagged(file, size), file.tags[s].d_val > 0
  PROVE  \E t \in Tagged(file, array) :
           /\ HasSegment(file, file.tags[t].d_val)
           /\ file.tags[t].d_val \in Int /\ file.tags[s].d_val \in Nat
           /\ \A j \in 1 .. file.tags[s].d_val :
                 /\ file.tags[t].d_val + j - 1 \in there
                 /\ HasSegment(file, file.tags[t].d_val + j - 1)
                 /\ Moved(file.tags[t].d_val, file.phdr, base) + j - 1
                      = Moved(file.tags[t].d_val + j - 1, file.phdr, base)
<1>1. PICK t \in Tagged(file, array), k \in Loads(file.phdr) :
        file.tags[t].d_val .. file.tags[t].d_val + file.tags[s].d_val - 1
          \subseteq LinkRange(file.phdr[k]) \cap there
  BY DEF ArrayLinked
<1> DEFINE a == file.tags[t].d_val
           n == file.tags[s].d_val
<1>2. a \in Nat /\ n \in Nat /\ n > 0
  <2>1. file.tags[t] \in [DynFields -> Word] /\ file.tags[s] \in [DynFields -> Word]
    BY TagTable DEF Tagged
  <2>2. a \in Word /\ n \in Word
    BY <2>1 DEF DynFields
  <2> QED BY <2>2, ZeroWord
<1>3. a .. a + n - 1 \subseteq LinkRange(file.phdr[k]) \cap there
  BY <1>1
<1> HIDE DEF a, n
<1>4. ASSUME NEW j \in 1 .. n
      PROVE  a + j - 1 \in LinkRange(file.phdr[k]) \cap there
  BY <1>2, <1>3
<1>5. a \in LinkRange(file.phdr[k])
  BY <1>2, <1>3
<1>6. /\ Moved(a, file.phdr, base) = a + base[k] - file.phdr[k].p_vaddr
      /\ base[k] \in Int /\ file.phdr[k].p_vaddr \in Int
  BY <1>5, MovedTo
<1>7. ASSUME NEW j \in 1 .. n
      PROVE  Moved(a, file.phdr, base) + j - 1 = Moved(a + j - 1, file.phdr, base)
  <2>1. Moved(a + j - 1, file.phdr, base) = (a + j - 1) + base[k] - file.phdr[k].p_vaddr
    BY <1>4, MovedTo
  <2>2. (a + base[k] - file.phdr[k].p_vaddr) + j - 1 = (a + j - 1) + base[k] - file.phdr[k].p_vaddr
    BY <1>2, <1>6
  <2> QED BY <1>6, <2>1, <2>2
<1>8. HasSegment(file, a) /\ \A j \in 1 .. n : HasSegment(file, a + j - 1)
  BY <1>4, <1>5 DEF HasSegment
<1>9. \A j \in 1 .. n : a + j - 1 \in there
  BY <1>4
<1> QED BY <1>2, <1>7, <1>8, <1>9 DEF a, n

(* Where a tag's section runs, once the table has moved.                    *)
LEMMA NotedSection ==
  ASSUME Written(file), file \in FileImage, Chosen(file, base),
         NotedBefore(Len(file.tags)), TagsMoved(Len(file.tags)),
         NEW tag \in PlaceNoted \cap SectionTags, NEW t \in Tagged(file, tag)
  PROVE  /\ NotedTag(tag) = Moved(file.tags[t].d_val, file.phdr, base)
         /\ HasSegment(file, file.tags[t].d_val)
<1>1. noted[tag] = t /\ t \in DOMAIN file.tags /\ file.tags[t].d_tag = tag
  BY NotedValue DEF Tagged
<1>2. t < Len(file.tags)
  <2>1. t # Len(file.tags)
    BY <1>1, TagTable, TagSets
  <2> QED BY <1>1, <2>1, TagTable
<1>3. dyntab[t] = AsMoved(t) /\ TagGood(t)
  BY <1>1, <1>2 DEF TagsMoved
<1>4. AsMoved(t).d_val = Moved(file.tags[t].d_val, file.phdr, base)
  BY <1>1, <1>3, TagMovedWord
<1>5. HasSegment(file, file.tags[t].d_val)
  BY <1>1, <1>3, TagSets DEF TagGood
<1> QED BY <1>1, <1>3, <1>4, <1>5 DEF NotedTag

(* The calls of a list of functions.                                       *)
LEMMA CallsTyped ==
  ASSUME NEW phase \in {"preinit", "init", "fini"}, NEW fcns \in Seq(Word)
  PROVE  Call(phase, fcns) \in Seq(CallSet)
<1>1. DOMAIN fcns = 1 .. Len(fcns) /\ Len(fcns) \in Nat /\ \A j \in DOMAIN fcns : fcns[j] \in Word
  BY ElementOfSeq, LenProperties
<1>2. Call(phase, fcns) = [j \in 1 .. Len(fcns) |-> [by |-> phase, at |-> fcns[j]]]
  BY <1>1 DEF Call
<1>3. \A j \in 1 .. Len(fcns) : [by |-> phase, at |-> fcns[j]] \in CallSet
  BY <1>1 DEF CallSet
<1> QED BY <1>1, <1>2, <1>3, IsASeq

(* The words of an array in target memory are addresses.                   *)
LEMMA WordsTyped ==
  ASSUME memory \in [Word -> Word], NEW loc, NEW size \in Nat,
         \A j \in 1 .. size : loc + j - 1 \in Word
  PROVE  WordsAt(loc, size) \in Seq(Word) /\ Len(WordsAt(loc, size)) = size
<1>1. \A j \in 1 .. size : memory[loc + j - 1] \in Word
  OBVIOUS
<1>2. WordsAt(loc, size) \in Seq(Word)
  BY <1>1, IsASeq DEF WordsAt
<1>3. DOMAIN WordsAt(loc, size) = 1 .. size
  BY DEF WordsAt
<1> QED BY <1>2, <1>3, LenProperties

(* The calls of .preinit_array keep it.                                    *)
LEMMA PreInitializeInv ==
  ASSUME ElfInv, PreInitialize
  PROVE  ElfInv'
<1>1. /\ UNCHANGED << file, wrong_endian, header, phdr, dyntab, i, noted, tables, base, memory, fini >>
      /\ pc = "dynamic_tags" /\ pc' = "relocate"
      /\ calls' = IF header.e_type # ET_EXEC \/ noted[DT_PREINIT_ARRAYSZ] = 0 THEN calls
                  ELSE calls \o Call("preinit", WordsAt(NotedTag(DT_PREINIT_ARRAY),
                                                        noted[DT_PREINIT_ARRAYSZ]))
  BY DEF PreInitialize
<1>2. /\ file \in FileImage /\ Written(file) /\ Linked(file) /\ Chosen(file, base)
      /\ i \in DOMAIN file.tags /\ TagsMoved(i) /\ FiniMoved(i) /\ NotedBefore(Len(file.tags))
      /\ calls = << >> /\ header.e_type = file.ehdr.e_type
      /\ memory \in [Word -> Word]
      /\ \A a \in DOMAIN file.words :
           HasSegment(file, a) => memory[Moved(a, file.phdr, base)] = Stored(file.words[a])
  BY <1>1, FileWritten
  DEF ElfInv, TypeOK, HeaderRead, TagsRead, Placed, InMemory, Called, Accepted
<1>3. i = Len(file.tags)
  <2>1. ~(i < i)
    BY <1>2, TagTable
  <2>2. dyntab[i] = file.tags[i]
    BY <1>2, <2>1 DEF TagsMoved
  <2>3. file.tags[i].d_tag = DT_NULL
    BY <2>2 DEF PreInitialize
  <2> QED BY <1>2, <2>3, TagTable
<1>4. TagsMoved(Len(file.tags)) /\ FiniMoved(Len(file.tags))
  BY <1>2, <1>3
<1>5. calls' \in Seq(CallSet) /\ (~Foreign => calls' = PreinitCalls)
  <2>1. CASE file.ehdr.e_type # ET_EXEC
    <3>1. calls' = << >>
      BY <1>1, <1>2, <2>1
    <3>2. PreinitCalls = << >>
      BY <2>1 DEF PreinitCalls, PreinitListed, Call
    <3> QED BY <3>1, <3>2, EmptySeq
  <2>2. CASE file.ehdr.e_type = ET_EXEC /\ noted[DT_PREINIT_ARRAYSZ] = 0
    <3>1. calls' = << >>
      BY <1>1, <1>2, <2>2
    <3>2. Listed(DT_PREINIT_ARRAY, DT_PREINIT_ARRAYSZ) = << >>
      <4>1. CASE Tagged(file, DT_PREINIT_ARRAYSZ) = {}
        BY <1>2, <4>1, TagOfFile DEF Listed
      <4>2. CASE Tagged(file, DT_PREINIT_ARRAYSZ) # {}
        <5>1. TagValue(DT_PREINIT_ARRAYSZ) = 0
          BY <1>2, <2>2, <4>2, TagOfFile, NotedValue, TagSets
        <5>2. HasTag(DT_PREINIT_ARRAYSZ)
          BY <1>2, <4>2, TagOfFile
        <5> QED BY <5>1, <5>2 DEF Listed
      <4> QED BY <4>1, <4>2
    <3>3. PreinitCalls = << >>
      BY <2>2, <3>2 DEF PreinitCalls, PreinitListed, Call
    <3> QED BY <3>1, <3>3, EmptySeq
  <2>3. CASE file.ehdr.e_type = ET_EXEC /\ noted[DT_PREINIT_ARRAYSZ] # 0
    <3>1. PICK s \in Tagged(file, DT_PREINIT_ARRAYSZ) :
            noted[DT_PREINIT_ARRAYSZ] = file.tags[s].d_val
      BY <1>2, <2>3, NotedValue, TagSets
    <3> DEFINE n == file.tags[s].d_val
    <3>2. n > 0
      <4>1. file.tags[s] \in [DynFields -> Word]
        BY <1>2, TagTable DEF Tagged
      <4>2. n \in Word
        BY <4>1 DEF DynFields
      <4>3. n \in Nat /\ n # 0
        BY <2>3, <3>1, <4>2, ZeroWord
      <4> QED BY <4>3
    <3>3. ArrayLinked(file, DT_PREINIT_ARRAY, DT_PREINIT_ARRAYSZ, DOMAIN file.words)
      BY <1>2 DEF Linked, ArrayLinked
    <3>4. PICK t \in Tagged(file, DT_PREINIT_ARRAY) :
            /\ HasSegment(file, file.tags[t].d_val)
            /\ file.tags[t].d_val \in Int /\ n \in Nat
            /\ \A j \in 1 .. n :
                  /\ file.tags[t].d_val + j - 1 \in DOMAIN file.words
                  /\ HasSegment(file, file.tags[t].d_val + j - 1)
                  /\ Moved(file.tags[t].d_val, file.phdr, base) + j - 1
                       = Moved(file.tags[t].d_val + j - 1, file.phdr, base)
      BY <1>2, <3>2, <3>3, ArrayMoved
    <3> DEFINE a == file.tags[t].d_val
               loc == Moved(a, file.phdr, base)
    <3>5. NotedTag(DT_PREINIT_ARRAY) = loc
      BY <1>2, <1>4, <3>4, NotedSection, TagSets
    <3>6. WordsAt(loc, n) \in Seq(Word)
      <4>1. \A j \in 1 .. n : loc + j - 1 \in Word
        BY <1>2, <3>4, MovedWord
      <4> QED BY <1>2, <3>4, <4>1, WordsTyped
    <3>7. calls' = Call("preinit", WordsAt(loc, n))
      <4>1. calls' = << >> \o Call("preinit", WordsAt(loc, n))
        BY <1>1, <1>2, <2>3, <3>1, <3>5
      <4> QED BY <3>6, <4>1, CallsTyped, ConcatEmptySeq
    <3>8. ASSUME ~Foreign PROVE WordsAt(loc, n) = PreinitListed
      <4>1. HasTag(DT_PREINIT_ARRAYSZ) /\ TagValue(DT_PREINIT_ARRAYSZ) = n
            /\ TagValue(DT_PREINIT_ARRAY) = a
        BY <1>2, <3>1, <3>4, TagOfFile
      <4>2. \A j \in 1 .. n : memory[loc + j - 1] = file.words[a + j - 1]
        BY <1>2, <3>4, <3>8, StoredRead DEF Written
      <4> HIDE DEF n, a, loc
      <4>3. PreinitListed = [j \in 1 .. n |-> file.words[a + j - 1]]
        BY <2>3, <4>1 DEF PreinitListed, Listed
      <4> QED BY <4>2, <4>3 DEF WordsAt
    <3> HIDE DEF n, a, loc
    <3> QED BY <3>6, <3>7, <3>8, CallsTyped DEF PreinitCalls
  <2> QED BY <2>1, <2>2, <2>3
<1>6. TypeOK'
  BY <1>1, <1>5 DEF ElfInv, TypeOK, CallSet
<1>7. HeaderRead' /\ HeadersRead' /\ HeaderGood'
  BY <1>1 DEF ElfInv, HeaderRead, HeadersRead, HeaderGood, WithHeaders, Foreign
<1>8. TagsRead'
  <2>1. NotedBefore(Len(file.tags))'
    BY <1>1, <1>2 DEF NotedBefore
  <2> QED BY <1>1, <2>1 DEF TagsRead
<1>9. Verdict'
  <2>1. \A k \in DOMAIN file.tags : file.tags[k].d_tag # DT_NULL => TagGood(k)
    <3>1. \A k \in DOMAIN file.tags : file.tags[k].d_tag # DT_NULL => k < Len(file.tags)
      BY <1>2, TagTable
    <3> QED BY <1>4, <3>1 DEF TagsMoved
  <2>2. Passes(file) /\ HasDynamic(file)
    BY <1>1, <2>1 DEF ElfInv, Verdict, Accepted
  <2> QED BY <1>1, <2>2 DEF Verdict, Accepted
<1>10. Placed'
  <2>1. TagsMoved(Len(file.tags))'
    BY <1>1, <1>4 DEF TagsMoved, AsMoved, TagGood
  <2>2. FiniMoved(Len(file.tags))'
    BY <1>1, <1>4 DEF FiniMoved
  <2> QED BY <1>1, <1>2, <2>1, <2>2 DEF Placed, Accepted, Chosen
<1>11. InMemory'
  BY <1>1, <1>2 DEF InMemory, Stored, Foreign
<1>12. Called'
  <2>1. PreinitCalls' = PreinitCalls /\ (Foreign' <=> Foreign)
    BY <1>1 DEF PreinitCalls, PreinitListed, Listed, HasTag, TagValue, Foreign
  <2> QED BY <1>1, <1>5, <2>1 DEF Called
<1> QED BY <1>6, <1>7, <1>8, <1>9, <1>10, <1>11, <1>12 DEF ElfInv

(* The relocations make every word that holds an address that of where its *)
(* target runs.                                                            *)
LEMMA RelocatedWords ==
  ASSUME ElfInv, Relocate
  PROVE  /\ memory' \in [Word -> Word]
         /\ \A r \in file.relocated :
              memory'[Moved(r, file.phdr, base)] = Stored(Moved(file.words[r], file.phdr, base))
<1>1. /\ file \in FileImage /\ Written(file) /\ Linked(file) /\ Chosen(file, base)
      /\ phdr = file.phdr /\ memory \in [Word -> Word]
  BY FileWritten DEF ElfInv, TypeOK, Placed, HeadersRead, WithHeaders, Accepted, Relocate
<1> DEFINE entries(a) == {r \in file.relocated : Moved(r, file.phdr, base) = a}
           new(a) == LET r == CHOOSE r \in entries(a) : TRUE
                     IN  Stored(Moved(file.words[r], file.phdr, base))
<1>2. memory' = [a \in Word |-> IF entries(a) = {} THEN memory[a] ELSE new(a)]
  BY <1>1 DEF Relocate
<1>3. ASSUME NEW r \in file.relocated
      PROVE  /\ HasSegment(file, r)
             /\ Moved(r, file.phdr, base) \in Word
             /\ Stored(Moved(file.words[r], file.phdr, base)) \in Word
  BY <1>1, MovedWord, StoredRead DEF Linked
<1>4. ASSUME NEW a, entries(a) # {} PROVE new(a) \in Word
  BY <1>3, <1>4
<1>5. ASSUME NEW r \in file.relocated
      PROVE  memory'[Moved(r, file.phdr, base)] = Stored(Moved(file.words[r], file.phdr, base))
  <2> DEFINE a == Moved(r, file.phdr, base)
  <2>1. entries(a) = {r}
    BY <1>1, <1>3, MovedOnce
  <2>2. new(a) = Stored(Moved(file.words[r], file.phdr, base)) /\ entries(a) # {}
    BY <2>1
  <2>3. a \in Word
    BY <1>3
  <2> HIDE DEF entries, new, a
  <2>4. memory'[a] = new(a)
    BY <1>2, <2>2, <2>3
  <2> QED BY <2>2, <2>4 DEF a
<1>6. memory' \in [Word -> Word]
  <2>1. \A a \in Word : memory[a] \in Word
    BY <1>1
  <2> HIDE DEF entries, new
  <2> QED BY <1>2, <1>4, <2>1
<1> QED BY <1>5, <1>6

(* Relocating every word keeps it.                                         *)
LEMMA RelocateInv ==
  ASSUME ElfInv, Relocate
  PROVE  ElfInv'
<1>1. /\ UNCHANGED << file, wrong_endian, header, phdr, dyntab, i, noted, tables, base, fini, calls >>
      /\ pc = "relocate" /\ pc' = "initialize"
  BY DEF Relocate
<1>2. TypeOK'
  BY <1>1, RelocatedWords DEF ElfInv, TypeOK
<1>3. HeaderRead' /\ HeadersRead' /\ HeaderGood'
  BY <1>1 DEF ElfInv, HeaderRead, HeadersRead, HeaderGood, WithHeaders, Foreign
<1>4. TagsRead'
  BY <1>1 DEF ElfInv, TagsRead, NotedBefore
<1>5. Verdict'
  BY <1>1 DEF ElfInv, Verdict, Accepted
<1>6. Placed'
  BY <1>1 DEF ElfInv, Placed, Accepted, Chosen, TagsMoved, FiniMoved, AsMoved, TagGood
<1>7. InMemory'
  <2>1. \A r \in file.relocated :
          memory'[Moved(r, file.phdr, base)] = Stored(Moved(file.words[r], file.phdr, base))
    BY RelocatedWords
  <2> QED BY <1>1, <2>1 DEF InMemory, Stored, Foreign
<1>8. Called'
  <2>1. PreinitCalls' = PreinitCalls /\ (Foreign' <=> Foreign)
    BY <1>1 DEF PreinitCalls, PreinitListed, Listed, HasTag, TagValue, Foreign
  <2> QED BY <1>1, <2>1 DEF ElfInv, Called
<1> QED BY <1>2, <1>3, <1>4, <1>5, <1>6, <1>7, <1>8 DEF ElfInv

(* The words of an array of initialisers or terminators, once the module is *)
(* relocated: addresses, and those where the listed functions run.         *)
LEMMA ArrayCalled ==
  ASSUME Written(file), file \in FileImage, Chosen(file, base), memory \in [Word -> Word],
         \A r \in file.relocated :
           memory[Moved(r, file.phdr, base)] = Stored(Moved(file.words[r], file.phdr, base)),
         Linked(file), NEW array, NEW size, ArrayLinked(file, array, size, file.relocated),
         NEW s \in Tagged(file, size), file.tags[s].d_val > 0
  PROVE  \E t \in Tagged(file, array) :
           LET fcns == WordsAt(Moved(file.tags[t].d_val, file.phdr, base), file.tags[s].d_val)
           IN  /\ fcns \in Seq(Word) /\ Listed(array, size) \in Seq(Word)
               /\ ~Foreign => fcns = RunAddresses(Listed(array, size))
<1> DEFINE n == file.tags[s].d_val
<1>1. PICK t \in Tagged(file, array) :
        /\ HasSegment(file, file.tags[t].d_val)
        /\ file.tags[t].d_val \in Int /\ n \in Nat
        /\ \A j \in 1 .. n :
              /\ file.tags[t].d_val + j - 1 \in file.relocated
              /\ HasSegment(file, file.tags[t].d_val + j - 1)
              /\ Moved(file.tags[t].d_val, file.phdr, base) + j - 1
                   = Moved(file.tags[t].d_val + j - 1, file.phdr, base)
  BY ArrayMoved
<1> DEFINE a == file.tags[t].d_val
           loc == Moved(a, file.phdr, base)
<1>2. WordsAt(loc, n) \in Seq(Word)
  <2>1. \A j \in 1 .. n : loc + j - 1 \in Word
    BY <1>1, MovedWord
  <2> QED BY <1>1, <2>1, WordsTyped
<1>3. Listed(array, size) = [j \in 1 .. n |-> file.words[a + j - 1]]
  <2>1. HasTag(size) /\ TagValue(size) = n /\ TagValue(array) = a
    BY <1>1, TagOfFile
  <2> HIDE DEF n, a
  <2> QED BY <2>1 DEF Listed
<1>4. Listed(array, size) \in Seq(Word)
  <2>1. \A j \in 1 .. n : file.words[a + j - 1] \in Word
    BY <1>1 DEF Written
  <2> HIDE DEF n, a
  <2> QED BY <1>1, <1>3, <2>1, IsASeq DEF n
<1>5. ASSUME ~Foreign PROVE WordsAt(loc, n) = RunAddresses(Listed(array, size))
  <2>2. \A j \in 1 .. n : memory[loc + j - 1] = Moved(file.words[a + j - 1], file.phdr, base)
    <3> SUFFICES ASSUME NEW j \in 1 .. n
                 PROVE  memory[loc + j - 1] = Moved(file.words[a + j - 1], file.phdr, base)
      OBVIOUS
    <3>1. memory[loc + j - 1] = Stored(Moved(file.words[a + j - 1], file.phdr, base))
      BY <1>1
    <3>2. Moved(file.words[a + j - 1], file.phdr, base) \in Word
      BY <1>1, MovedWord DEF Linked
    <3> QED BY <1>5, <3>1, <3>2, StoredRead
  <2> HIDE DEF n, a, loc
  <2>3. RunAddresses(Listed(array, size)) = [j \in 1 .. n |-> Moved(file.words[a + j - 1], file.phdr, base)]
    BY <1>3 DEF RunAddresses
  <2> QED BY <2>2, <2>3 DEF WordsAt
<1> QED BY <1>2, <1>4, <1>5

(* A list of functions: where it has an array of none, or no array.        *)
LEMMA NoneListed ==
  ASSUME Written(file), NEW array, NEW size,
         \A s \in Tagged(file, size) : file.tags[s].d_val = 0
  PROVE  Listed(array, size) = << >> /\ RunAddresses(Listed(array, size)) = << >>
<1>1. Listed(array, size) = << >>
  <2>1. CASE Tagged(file, size) = {}
    BY <2>1, TagOfFile DEF Listed
  <2>2. CASE Tagged(file, size) # {}
    <3>1. HasTag(size) /\ TagValue(size) = 0
      BY <2>2, TagOfFile
    <3> QED BY <3>1 DEF Listed
  <2> QED BY <2>1, <2>2
<1> QED BY <1>1 DEF RunAddresses

(* Where the functions of two lists run is where those of each run.        *)
LEMMA RunConcat ==
  ASSUME NEW S, NEW s \in Seq(S), NEW t \in Seq(S)
  PROVE  RunAddresses(s \o t) = RunAddresses(s) \o RunAddresses(t)
<1> DEFINE T == {Moved(a, file.phdr, base) : a \in S}
           m == Len(s)
           n == Len(t)
<1>1. /\ m \in Nat /\ n \in Nat /\ DOMAIN s = 1 .. m /\ DOMAIN t = 1 .. n
      /\ \A j \in 1 .. m : s[j] \in S
      /\ \A j \in 1 .. n : t[j] \in S
  BY ElementOfSeq, LenProperties
<1>2. /\ s \o t \in Seq(S) /\ Len(s \o t) = m + n
      /\ \A j \in 1 .. m + n : (s \o t)[j] = IF j <= m THEN s[j] ELSE t[j - m]
  BY ConcatProperties
<1>3. DOMAIN (s \o t) = 1 .. m + n
  BY <1>2, LenProperties
<1> HIDE DEF m, n
<1>4. /\ RunAddresses(s) = [j \in 1 .. m |-> Moved(s[j], file.phdr, base)]
      /\ RunAddresses(t) = [j \in 1 .. n |-> Moved(t[j], file.phdr, base)]
      /\ RunAddresses(s \o t) = [j \in 1 .. m + n |-> Moved((s \o t)[j], file.phdr, base)]
  BY <1>1, <1>3 DEF RunAddresses
<1> DEFINE u == RunAddresses(s)
           v == RunAddresses(t)
<1>5. u \in Seq(T) /\ v \in Seq(T)
  BY <1>1, <1>4, IsASeq
<1>6. Len(u) = m /\ Len(v) = n
  <2>1. DOMAIN u = 1 .. m /\ DOMAIN v = 1 .. n
    BY <1>4
  <2> QED BY <1>1, <1>5, <2>1, LenProperties
<1> HIDE DEF T, u, v
<1>7. /\ u \o v \in Seq(T) /\ Len(u \o v) = m + n
      /\ \A j \in 1 .. m + n : (u \o v)[j] = IF j <= m THEN u[j] ELSE v[j - m]
  BY <1>5, <1>6, ConcatProperties
<1>8. \A j \in 1 .. m + n : (u \o v)[j] = Moved((s \o t)[j], file.phdr, base)
  <2> SUFFICES ASSUME NEW j \in 1 .. m + n
               PROVE  (u \o v)[j] = Moved((s \o t)[j], file.phdr, base)
    OBVIOUS
  <2>1. CASE j <= m
    <3>1. j \in 1 .. m
      BY <1>1, <2>1
    <3> QED BY <1>2, <1>4, <1>7, <2>1, <3>1 DEF u
  <2>2. CASE ~(j <= m)
    <3>1. j - m \in 1 .. n
      BY <1>1, <2>2
    <3> QED BY <1>2, <1>4, <1>7, <2>2, <3>1 DEF v
  <2> QED BY <2>1, <2>2
<1>9. u \o v = [j \in 1 .. m + n |-> (u \o v)[j]]
  <2>1. DOMAIN (u \o v) = 1 .. m + n
    BY <1>7, LenProperties
  <2> QED BY <1>7, <2>1, LenProperties
<1> QED BY <1>4, <1>8, <1>9 DEF u, v

(* Reversed, a list of functions runs where it ran before.                 *)
LEMMA RunReverse ==
  ASSUME NEW S, NEW s \in Seq(S)
  PROVE  /\ Reverse(s) \in Seq(S)
         /\ RunAddresses(Reverse(s)) = Reverse(RunAddresses(s))
<1> DEFINE n == Len(s)
           T == {Moved(a, file.phdr, base) : a \in S}
<1>1. n \in Nat /\ DOMAIN s = 1 .. n /\ \A j \in 1 .. n : s[j] \in S
  BY ElementOfSeq, LenProperties
<1>2. Reverse(s) = [j \in 1 .. n |-> s[(n - j) + 1]]
  BY DEF Reverse
<1> HIDE DEF n
<1>3. \A j \in 1 .. n : (n - j) + 1 \in 1 .. n
  BY <1>1
<1>4. Reverse(s) \in Seq(S)
  BY <1>1, <1>2, <1>3, IsASeq
<1>5. RunAddresses(s) = [j \in 1 .. n |-> Moved(s[j], file.phdr, base)]
  BY <1>1 DEF RunAddresses
<1>6. RunAddresses(s) \in Seq(T) /\ Len(RunAddresses(s)) = n
  <2>1. RunAddresses(s) \in Seq(T)
    BY <1>1, <1>5, IsASeq
  <2>2. DOMAIN RunAddresses(s) = 1 .. n
    BY <1>5
  <2> HIDE DEF T
  <2> QED BY <1>1, <2>1, <2>2, LenProperties
<1>7. Reverse(RunAddresses(s)) = [j \in 1 .. n |-> RunAddresses(s)[(n - j) + 1]]
  BY <1>6 DEF Reverse
<1>8. RunAddresses(Reverse(s)) = [j \in 1 .. n |-> Moved(s[(n - j) + 1], file.phdr, base)]
  BY <1>2 DEF RunAddresses
<1>9. \A j \in 1 .. n : RunAddresses(s)[(n - j) + 1] = Moved(s[(n - j) + 1], file.phdr, base)
  BY <1>3, <1>5
<1> QED BY <1>4, <1>7, <1>8, <1>9

(* One function, or none: DT_INIT and DT_FINI.                             *)
LEMMA LinkedAtRuns ==
  ASSUME Written(file), NEW tag
  PROVE  /\ LinkedAt(tag) \in Seq(Word)
         /\ Tagged(file, tag) = {} => RunAddresses(LinkedAt(tag)) = << >>
         /\ \A t \in Tagged(file, tag) :
              RunAddresses(LinkedAt(tag)) = << Moved(file.tags[t].d_val, file.phdr, base) >>
<1>1. CASE Tagged(file, tag) = {}
  <2>1. LinkedAt(tag) = << >>
    BY <1>1, TagOfFile DEF LinkedAt
  <2> QED BY <1>1, <2>1, EmptySeq DEF RunAddresses
<1>2. ASSUME NEW t \in Tagged(file, tag)
      PROVE  /\ LinkedAt(tag) \in Seq(Word)
             /\ RunAddresses(LinkedAt(tag)) = << Moved(file.tags[t].d_val, file.phdr, base) >>
  <2>1. LinkedAt(tag) = << file.tags[t].d_val >>
    BY TagOfFile DEF LinkedAt
  <2>2. file.tags[t].d_val \in Word
    <3>1. file.tags[t] \in [DynFields -> Word]
      BY TagTable DEF Tagged
    <3> QED BY <3>1 DEF DynFields
  <2> QED BY <2>1, <2>2 DEF RunAddresses
<1> QED BY <1>1, <1>2

(* The initialisers the loader finds are those of the file, where they run. *)
LEMMA InitFcnsRun ==
  ASSUME Written(file), Linked(file), file \in FileImage, Chosen(file, base),
         memory \in [Word -> Word],
         \A r \in file.relocated :
           memory[Moved(r, file.phdr, base)] = Stored(Moved(file.words[r], file.phdr, base)),
         NotedBefore(Len(file.tags)), TagsMoved(Len(file.tags))
  PROVE  InitFcns \in Seq(Word) /\ (~Foreign => InitFcns = RunAddresses(InitListed))
<1> DEFINE A == IF noted[DT_INIT] = -1 THEN << >> ELSE << NotedTag(DT_INIT) >>
           B == IF noted[DT_INIT_ARRAYSZ] = 0 THEN << >>
                ELSE WordsAt(NotedTag(DT_INIT_ARRAY), noted[DT_INIT_ARRAYSZ])
<1>1. A \in Seq(Word) /\ A = RunAddresses(LinkedAt(DT_INIT))
  <2>1. CASE Tagged(file, DT_INIT) = {}
    <3>1. noted[DT_INIT] = -1
      BY <2>1, NotedValue, TagSets
    <3> QED BY <2>1, <3>1, LinkedAtRuns, EmptySeq
  <2>2. CASE Tagged(file, DT_INIT) # {}
    <3>1. PICK t \in Tagged(file, DT_INIT) : TRUE
      BY <2>2
    <3>2. noted[DT_INIT] = t /\ t \in DOMAIN file.tags
      BY NotedValue, TagSets DEF Tagged
    <3>3. noted[DT_INIT] # -1
      BY <3>2, TagTable
    <3>4. NotedTag(DT_INIT) = Moved(file.tags[t].d_val, file.phdr, base)
          /\ HasSegment(file, file.tags[t].d_val)
      BY NotedSection, TagSets
    <3>5. NotedTag(DT_INIT) \in Word
      BY <3>4, MovedWord
    <3>6. A = << NotedTag(DT_INIT) >>
      BY <3>3
    <3> QED BY <3>4, <3>5, <3>6, LinkedAtRuns
  <2> QED BY <2>1, <2>2
<1>2. /\ B \in Seq(Word) /\ Listed(DT_INIT_ARRAY, DT_INIT_ARRAYSZ) \in Seq(Word)
      /\ ~Foreign => B = RunAddresses(Listed(DT_INIT_ARRAY, DT_INIT_ARRAYSZ))
  <2>1. CASE noted[DT_INIT_ARRAYSZ] = 0
    <3>1. \A s \in Tagged(file, DT_INIT_ARRAYSZ) : file.tags[s].d_val = 0
      BY <2>1, NotedValue, TagSets
    <3> QED BY <2>1, <3>1, NoneListed, EmptySeq
  <2>2. CASE noted[DT_INIT_ARRAYSZ] # 0
    <3>1. PICK s \in Tagged(file, DT_INIT_ARRAYSZ) : noted[DT_INIT_ARRAYSZ] = file.tags[s].d_val
      BY <2>2, NotedValue, TagSets
    <3>2. file.tags[s].d_val > 0
      <4>1. file.tags[s] \in [DynFields -> Word]
        BY TagTable DEF Tagged
      <4>2. file.tags[s].d_val \in Word
        BY <4>1 DEF DynFields
      <4>3. file.tags[s].d_val \in Nat /\ file.tags[s].d_val # 0
        BY <2>2, <3>1, <4>2, ZeroWord
      <4> QED BY <4>3
    <3>3. ArrayLinked(file, DT_INIT_ARRAY, DT_INIT_ARRAYSZ, file.relocated)
      BY DEF Linked
    <3>4. PICK t \in Tagged(file, DT_INIT_ARRAY) :
            LET fcns == WordsAt(Moved(file.tags[t].d_val, file.phdr, base), file.tags[s].d_val)
            IN  /\ fcns \in Seq(Word) /\ Listed(DT_INIT_ARRAY, DT_INIT_ARRAYSZ) \in Seq(Word)
                /\ ~Foreign => fcns = RunAddresses(Listed(DT_INIT_ARRAY, DT_INIT_ARRAYSZ))
      BY <3>2, <3>3, ArrayCalled
    <3>5. NotedTag(DT_INIT_ARRAY) = Moved(file.tags[t].d_val, file.phdr, base)
      BY NotedSection, TagSets
    <3>6. B = WordsAt(Moved(file.tags[t].d_val, file.phdr, base), file.tags[s].d_val)
      BY <2>2, <3>1, <3>5
    <3> QED BY <3>4, <3>6
  <2> QED BY <2>1, <2>2
<1>3. InitFcns = A \o B
  BY DEF InitFcns
<1> HIDE DEF A, B
<1>4. InitFcns \in Seq(Word)
  BY <1>1, <1>2, <1>3, ConcatProperties
<1>5. RunAddresses(InitListed)
        = RunAddresses(LinkedAt(DT_INIT)) \o RunAddresses(Listed(DT_INIT_ARRAY, DT_INIT_ARRAYSZ))
  BY <1>2, LinkedAtRuns, RunConcat DEF InitListed
<1> QED BY <1>1, <1>2, <1>3, <1>4, <1>5

(* Calling the initialisers keeps it, and forgets the dynamic table.       *)
LEMMA InitializeInv ==
  ASSUME ElfInv, Initialize
  PROVE  ElfInv'
<1>1. /\ UNCHANGED << file, wrong_endian, header, i, base, memory, fini >>
      /\ pc = "initialize" /\ pc' = "loaded"
      /\ phdr' = << >> /\ dyntab' = << >> /\ noted' = NothingNoted /\ tables' = NoTables
      /\ calls' = calls \o Call("init", InitFcns)
  BY DEF Initialize
<1>2. /\ file \in FileImage /\ Written(file) /\ Linked(file) /\ Chosen(file, base)
      /\ memory \in [Word -> Word] /\ calls \in Seq(CallSet)
      /\ \A r \in file.relocated :
           memory[Moved(r, file.phdr, base)] = Stored(Moved(file.words[r], file.phdr, base))
      /\ NotedBefore(Len(file.tags)) /\ TagsMoved(Len(file.tags)) /\ FiniMoved(Len(file.tags))
      /\ (~Foreign => calls = PreinitCalls)
  BY <1>1, FileWritten DEF ElfInv, TypeOK, TagsRead, Placed, InMemory, Called, Accepted, CallSet
<1>3. InitFcns \in Seq(Word) /\ (~Foreign => InitFcns = RunAddresses(InitListed))
  BY <1>2, InitFcnsRun
<1>4. calls' \in Seq(CallSet)
  <2>1. Call("init", InitFcns) \in Seq(CallSet)
    BY <1>3, CallsTyped
  <2> QED BY <1>1, <1>2, <2>1, ConcatProperties
<1>5. TypeOK'
  <2>1. DOMAIN phdr' = {} /\ DOMAIN dyntab' = {}
    BY <1>1, EmptySeq
  <2>2. /\ DOMAIN noted' = ValueNoted \cup PlaceNoted
        /\ \A t \in ValueNoted : noted'[t] \in Word
        /\ \A t \in PlaceNoted : noted'[t] \in DOMAIN file.tags \cup {-1}
    BY <1>1, ZeroWord, TagSets DEF NothingNoted
  <2>3. tables'.symnum \in Word
    BY <1>1, ZeroWord DEF NoTables
  <2> QED BY <1>1, <1>4, <2>1, <2>2, <2>3 DEF ElfInv, TypeOK, CallSet
<1>6. HeaderRead' /\ HeadersRead' /\ HeaderGood'
  BY <1>1 DEF ElfInv, HeaderRead, HeadersRead, HeaderGood, WithHeaders, Foreign
<1>7. TagsRead' /\ Verdict'
  BY <1>1 DEF ElfInv, TagsRead, Verdict, Accepted
<1>8. Placed' /\ InMemory'
  BY <1>1, <1>2 DEF Placed, InMemory, Accepted, Chosen, FiniMoved, Stored, Foreign
<1>9. Called'
  <2>1. /\ PreinitCalls' = PreinitCalls /\ InitCalls' = InitCalls /\ (Foreign' <=> Foreign)
    BY <1>1 DEF PreinitCalls, PreinitListed, InitCalls, InitListed, RunAddresses, Listed, LinkedAt,
                HasTag, TagValue, Foreign
  <2>2. ~Foreign => calls' = PreinitCalls \o InitCalls /\ InitCalls \in Seq(CallSet)
    BY <1>1, <1>2, <1>3, CallsTyped DEF InitCalls
  <2> QED BY <1>1, <2>1, <2>2 DEF Called
<1> QED BY <1>5, <1>6, <1>7, <1>8, <1>9 DEF ElfInv

(* The terminators the loaded module has kept are those of the file, where  *)
(* they run, the last of the array first.                                  *)
LEMMA FiniFcnsRun ==
  ASSUME Written(file), Linked(file), file \in FileImage, Chosen(file, base), Passes(file),
         HasDynamic(file), memory \in [Word -> Word],
         fini \in [fini : Word, fini_array : Word, fini_arraysz : Word],
         \A r \in file.relocated :
           memory[Moved(r, file.phdr, base)] = Stored(Moved(file.words[r], file.phdr, base)),
         FiniMoved(Len(file.tags))
  PROVE  FiniFcns \in Seq(Word) /\ (~Foreign => FiniFcns = RunAddresses(FiniListed))
<1> DEFINE A == WordsAt(fini.fini_array, fini.fini_arraysz)
           B == IF fini.fini = 0 THEN << >> ELSE << fini.fini >>
<1>1. ASSUME NEW t \in {DT_FINI, DT_FINI_ARRAY, DT_FINI_ARRAYSZ}, NEW k \in Tagged(file, t)
      PROVE  k < Len(file.tags)
  <2>1. k \in DOMAIN file.tags /\ file.tags[k].d_tag # DT_NULL
    BY TagSets DEF Tagged
  <2> QED BY <2>1, TagTable
<1>2. /\ A \in Seq(Word) /\ Listed(DT_FINI_ARRAY, DT_FINI_ARRAYSZ) \in Seq(Word)
      /\ ~Foreign => A = RunAddresses(Listed(DT_FINI_ARRAY, DT_FINI_ARRAYSZ))
  <2>1. CASE \A s \in Tagged(file, DT_FINI_ARRAYSZ) : file.tags[s].d_val = 0
    <3>1. fini.fini_arraysz = 0
      <4>1. CASE Tagged(file, DT_FINI_ARRAYSZ) = {}
        BY <4>1 DEF FiniMoved
      <4>2. CASE Tagged(file, DT_FINI_ARRAYSZ) # {}
        BY <1>1, <2>1, <4>2 DEF FiniMoved
      <4> QED BY <4>1, <4>2
    <3>2. A = << >>
      BY <3>1 DEF WordsAt
    <3> QED BY <2>1, <3>2, NoneListed, EmptySeq
  <2>2. CASE \E s \in Tagged(file, DT_FINI_ARRAYSZ) : file.tags[s].d_val # 0
    <3>1. PICK s \in Tagged(file, DT_FINI_ARRAYSZ) : file.tags[s].d_val # 0
      BY <2>2
    <3>2. file.tags[s].d_val > 0
      <4>1. file.tags[s] \in [DynFields -> Word]
        BY TagTable DEF Tagged
      <4>2. file.tags[s].d_val \in Word
        BY <4>1 DEF DynFields
      <4>3. file.tags[s].d_val \in Nat
        BY <4>2, ZeroWord
      <4> QED BY <3>1, <4>3
    <3>3. ArrayLinked(file, DT_FINI_ARRAY, DT_FINI_ARRAYSZ, file.relocated)
      BY DEF Linked
    <3>4. PICK t \in Tagged(file, DT_FINI_ARRAY) :
            LET fcns == WordsAt(Moved(file.tags[t].d_val, file.phdr, base), file.tags[s].d_val)
            IN  /\ fcns \in Seq(Word) /\ Listed(DT_FINI_ARRAY, DT_FINI_ARRAYSZ) \in Seq(Word)
                /\ ~Foreign => fcns = RunAddresses(Listed(DT_FINI_ARRAY, DT_FINI_ARRAYSZ))
      BY <3>2, <3>3, ArrayCalled
    <3>5. /\ fini.fini_arraysz = file.tags[s].d_val
          /\ fini.fini_array = Moved(file.tags[t].d_val, file.phdr, base)
      BY <1>1 DEF FiniMoved
    <3> QED BY <3>4, <3>5
  <2> QED BY <2>1, <2>2
<1>3. B \in Seq(Word) /\ B = RunAddresses(LinkedAt(DT_FINI))
  <2>1. CASE Tagged(file, DT_FINI) = {}
    <3>1. fini.fini = 0
      BY <2>1 DEF FiniMoved
    <3> QED BY <2>1, <3>1, LinkedAtRuns, EmptySeq
  <2>2. CASE Tagged(file, DT_FINI) # {}
    <3>1. PICK t \in Tagged(file, DT_FINI) : TRUE
      BY <2>2
    <3>2. fini.fini = Moved(file.tags[t].d_val, file.phdr, base)
      BY <1>1 DEF FiniMoved
    <3>3. HasSegment(file, file.tags[t].d_val)
      BY <3>1, TagSets DEF Passes, TableSound, Tagged
    <3>4. fini.fini \in Word \ {0}
      BY <3>2, <3>3, MovedWord
    <3>5. B = << fini.fini >>
      BY <3>4
    <3> QED BY <3>2, <3>4, <3>5, LinkedAtRuns
  <2> QED BY <2>1, <2>2
<1>4. FiniFcns = Reverse(A) \o B
  BY DEF FiniFcns
<1> HIDE DEF A, B
<1> DEFINE L == Listed(DT_FINI_ARRAY, DT_FINI_ARRAYSZ)
<1>5. /\ Reverse(A) \in Seq(Word) /\ Reverse(L) \in Seq(Word)
      /\ RunAddresses(Reverse(L)) = Reverse(RunAddresses(L))
  BY <1>2, RunReverse
<1>6. FiniFcns \in Seq(Word)
  BY <1>3, <1>4, <1>5, ConcatProperties
<1>7. RunAddresses(FiniListed) = RunAddresses(Reverse(L)) \o RunAddresses(LinkedAt(DT_FINI))
  BY <1>5, LinkedAtRuns, RunConcat DEF FiniListed
<1> HIDE DEF L
<1>8. ~Foreign => A = RunAddresses(L)
  BY <1>2 DEF L
<1> QED BY <1>3, <1>4, <1>5, <1>6, <1>7, <1>8

(* Calling the terminators keeps it.                                       *)
LEMMA TerminateInv ==
  ASSUME ElfInv, Terminate
  PROVE  ElfInv'
<1>1. /\ UNCHANGED << file, wrong_endian, header, phdr, dyntab, i, noted, tables, base, memory, fini >>
      /\ pc = "loaded" /\ pc' = "terminated"
      /\ calls' = calls \o Call("fini", FiniFcns)
  BY DEF Terminate
<1>2. /\ file \in FileImage /\ Written(file) /\ Linked(file) /\ Chosen(file, base)
      /\ Passes(file) /\ HasDynamic(file)
      /\ memory \in [Word -> Word] /\ calls \in Seq(CallSet)
      /\ fini \in [fini : Word, fini_array : Word, fini_arraysz : Word]
      /\ \A r \in file.relocated :
           memory[Moved(r, file.phdr, base)] = Stored(Moved(file.words[r], file.phdr, base))
      /\ FiniMoved(Len(file.tags))
      /\ (~Foreign => calls = PreinitCalls \o InitCalls /\ InitCalls \in Seq(CallSet))
  BY <1>1, FileWritten DEF ElfInv, TypeOK, Verdict, Placed, InMemory, Called, Accepted, CallSet
<1>3. FiniFcns \in Seq(Word) /\ (~Foreign => FiniFcns = RunAddresses(FiniListed))
  BY <1>2, FiniFcnsRun
<1>4. calls' \in Seq(CallSet)
  <2>1. Call("fini", FiniFcns) \in Seq(CallSet)
    BY <1>3, CallsTyped
  <2> QED BY <1>1, <1>2, <2>1, ConcatProperties
<1>5. TypeOK'
  BY <1>1, <1>4 DEF ElfInv, TypeOK, CallSet
<1>6. HeaderRead' /\ HeadersRead' /\ HeaderGood'
  BY <1>1 DEF ElfInv, HeaderRead, HeadersRead, HeaderGood, WithHeaders, Foreign
<1>7. TagsRead' /\ Verdict'
  BY <1>1 DEF ElfInv, TagsRead, Verdict, Accepted
<1>8. Placed' /\ InMemory'
  BY <1>1, <1>2 DEF Placed, InMemory, Accepted, Chosen, FiniMoved, Stored, Foreign
<1>9. Called'
  <2>1. /\ PreinitCalls' = PreinitCalls /\ InitCalls' = InitCalls /\ FiniCalls' = FiniCalls
        /\ (Foreign' <=> Foreign)
    BY <1>1 DEF PreinitCalls, PreinitListed, InitCalls, InitListed, FiniCalls, FiniListed,
                RunAddresses, Listed, LinkedAt, HasTag, TagValue, Foreign
  <2>2. ~Foreign => /\ calls' = PreinitCalls \o InitCalls \o FiniCalls
                    /\ InitCalls \in Seq(CallSet) /\ FiniCalls \in Seq(CallSet)
    BY <1>1, <1>2, <1>3, CallsTyped DEF FiniCalls
  <2> QED BY <1>1, <2>1, <2>2 DEF Called
<1> QED BY <1>5, <1>6, <1>7, <1>8, <1>9 DEF ElfInv

(* Nothing else happens.                                                   *)
LEMMA ElfStutter ==
  ASSUME ElfInv, UNCHANGED elf_vars
  PROVE  ElfInv'
<1>1. UNCHANGED << file, pc, wrong_endian, header, phdr, dyntab, i, noted, tables, base, memory, fini, calls >>
  BY DEF elf_vars
<1>2. TypeOK' /\ HeaderRead' /\ HeadersRead' /\ HeaderGood'
  BY <1>1 DEF ElfInv, TypeOK, HeaderRead, HeadersRead, HeaderGood, WithHeaders, Foreign
<1>3. TagsRead' /\ Verdict'
  BY <1>1 DEF ElfInv, TagsRead, NotedBefore, TablesRead, MandatoryThere, Verdict, Accepted, TagGood
<1>4. Placed' /\ InMemory'
  BY <1>1 DEF ElfInv, Placed, InMemory, Accepted, Chosen, TagsMoved, FiniMoved, AsMoved, TagGood,
              Stored, Foreign
<1>5. Called'
  <2>1. /\ PreinitCalls' = PreinitCalls /\ InitCalls' = InitCalls /\ FiniCalls' = FiniCalls
        /\ (Foreign' <=> Foreign)
    BY <1>1 DEF PreinitCalls, PreinitListed, InitCalls, InitListed, FiniCalls, FiniListed,
                RunAddresses, Listed, LinkedAt, HasTag, TagValue, Foreign
  <2> QED BY <1>1, <2>1 DEF ElfInv, Called
<1> QED BY <1>2, <1>3, <1>4, <1>5 DEF ElfInv

-----------------------------------------------------------------------------
(* The theorems.                                                           *)

(* The invariant holds of every file, in whatever order its tags come.      *)
THEOREM ElfInvariance == Spec => []ElfInv
<1>1. ElfInv /\ [Next]_elf_vars => ElfInv'
  BY ReadFileHeaderInv, ReadProgramHeadersInv, ReadDynamicTableInv, ProcessTagInv, ReadTablesInv,
     CheckFileInv, AllocateSegmentsInv, MoveTagInv, PreInitializeInv, RelocateInv, InitializeInv,
     TerminateInv, ElfStutter DEF Next
<1> QED BY InitElfInv, <1>1, PTL DEF Spec

(* The types of everything read, placed and called.                        *)
THEOREM ElfTypeCorrect == Spec => []TypeOK
<1>1. ElfInv => TypeOK
  BY DEF ElfInv
<1> QED BY ElfInvariance, <1>1, PTL

(* Every file is read as its linker meant it, in either byte order.         *)
THEOREM FilesReadAsLinked == Spec => []ReadAsLinked
<1>1. ElfInv => ReadAsLinked
  <2> SUFFICES ASSUME ElfInv, pc = "allocate" PROVE ReadAsLinked
    BY DEF ReadAsLinked
  <2>1. /\ Written(file) /\ HasDynamic(file) /\ phdr = file.phdr /\ dyntab = file.tags
        /\ NotedBefore(Len(file.tags)) /\ TablesRead
    BY FileWritten DEF ElfInv, HeadersRead, TagsRead, Verdict, WithHeaders, Accepted
  <2>2. \A t \in ValueNoted : noted[t] = IF HasTag(t) THEN TagValue(t) ELSE 0
    BY <2>1, NotedValue, TagOfFile
  <2>3. \A t \in PlaceNoted : noted[t] = -1 <=> ~HasTag(t)
    <3> SUFFICES ASSUME NEW t \in PlaceNoted PROVE noted[t] = -1 <=> ~HasTag(t)
      OBVIOUS
    <3>1. CASE Tagged(file, t) = {}
      BY <2>1, <3>1, NotedValue, TagOfFile
    <3>2. CASE Tagged(file, t) # {}
      <4>1. PICK k \in Tagged(file, t) : noted[t] = k
        BY <2>1, <3>2, NotedValue
      <4>2. k \in 1 .. Len(file.tags)
        BY <2>1, TagTable DEF Tagged
      <4> QED BY <2>1, <3>2, <4>1, <4>2, TagOfFile
    <3> QED BY <3>1, <3>2
  <2>4. tables.symnum = file.nchain
    BY <2>1 DEF TablesRead
  <2>5. /\ Len(tables.symtab) = Len(file.symtab)
        /\ \A k \in DOMAIN file.symtab :
              tables.symtab[k] = [file.symtab[k] EXCEPT !.st_name = file.strings[@]]
    <3>1. tables.symtab = [k \in DOMAIN file.symtab |-> [file.symtab[k] EXCEPT !.st_name = file.strings[@]]]
      BY <2>1 DEF TablesRead
    <3>2. DOMAIN file.symtab = 1 .. Len(file.symtab) /\ Len(file.symtab) \in Nat
      BY <2>1, LenProperties DEF Written
    <3> QED BY <3>1, <3>2
  <2> QED BY <2>1, <2>2, <2>3, <2>4, <2>5 DEF ReadAsLinked
<1> QED BY ElfInvariance, <1>1, PTL

(* A program header has some number of fields.                             *)
LEMMA FiveFields == Cardinality(PhdrFields) \in Nat
<1>1. IsFiniteSet({"p_type", "p_offset", "p_vaddr"} \cup {"p_filesz", "p_memsz"})
  <2>1. ASSUME NEW a, NEW b PROVE IsFiniteSet({a, b})
    <3>1. IsFiniteSet({a})
      BY FS_Singleton
    <3>2. IsFiniteSet({a} \cup {b})
      BY <3>1, FS_AddElement
    <3>3. {a, b} = {a} \cup {b}
      OBVIOUS
    <3> QED BY <3>2, <3>3
  <2>2. IsFiniteSet({"p_type", "p_offset"} \cup {"p_vaddr"})
    BY <2>1, FS_AddElement
  <2>3. {"p_type", "p_offset", "p_vaddr"} = {"p_type", "p_offset"} \cup {"p_vaddr"}
    OBVIOUS
  <2> QED BY <2>1, <2>2, <2>3, FS_Union
<1>2. PhdrFields = {"p_type", "p_offset", "p_vaddr"} \cup {"p_filesz", "p_memsz"}
  BY DEF PhdrFields
<1> QED BY <1>1, <1>2, FS_CardinalityType

(* The checks find every fault but the two excepted, and for a good file    *)
(* none but a segment that ends where the file ends.                       *)
LEMMA WhatPasses ==
  ASSUME NEW f, Written(f)
  PROVE  /\ ~Passes(f) => ~Sound(f) \/ \E k \in DOMAIN f.phdr : FileEnd(f.phdr[k]) = f.size
         /\ Passes(f) => /\ SoundInside(f)
                         /\ \A k \in DOMAIN f.phdr :
                               \/ FileEnd(f.phdr[k]) <= f.size
                               \/ FileEnd(f.phdr[k]) >= ByteSize * ByteSize
<1>1. ByteSize * ByteSize \in Nat /\ f.size \in Nat /\ f.size < ByteSize * ByteSize
  BY ElfFileAssumption DEF Written, Word
<1>2. ASSUME NEW k \in DOMAIN f.phdr
      PROVE  /\ FileEnd(f.phdr[k]) \in Nat
             /\ FileEnd(f.phdr[k]) < ByteSize * ByteSize
                  => FileEnd(f.phdr[k]) % (ByteSize * ByteSize) = FileEnd(f.phdr[k])
  <2>1. f.phdr[k] \in [PhdrFields -> Word]
    BY ElementOfSeq DEF Written
  <2>2. f.phdr[k].p_offset \in Nat /\ f.phdr[k].p_filesz \in Nat
    BY <2>1, ZeroWord DEF PhdrFields
  <2>3. FileEnd(f.phdr[k]) \in Nat
    BY <2>2 DEF FileEnd
  <2> QED BY <1>1, <2>3
<1>3. ASSUME Sound(f), \A k \in DOMAIN f.phdr : FileEnd(f.phdr[k]) # f.size PROVE Passes(f)
  <2>1. \A k \in DOMAIN f.phdr : FileEnd(f.phdr[k]) % (ByteSize * ByteSize) < f.size
    BY <1>1, <1>2, <1>3 DEF Sound
  <2>2. Len(f.phdr) * PhdrSize \in Nat
    <3>1. Cardinality(PhdrFields) \in Nat
      BY FiveFields
    <3>2. Len(f.phdr) \in Nat
      BY LenProperties DEF Written
    <3> QED BY <3>1, <3>2 DEF PhdrSize
  <2>3. 0 < f.size
    BY <1>1, <1>3, <2>2 DEF Sound, SoundInside
  <2> QED BY <1>3, <2>1, <2>3 DEF Sound, SoundInside, Passes, Loads
<1>4. ASSUME Passes(f)
      PROVE  /\ SoundInside(f)
             /\ \A k \in DOMAIN f.phdr :
                   FileEnd(f.phdr[k]) <= f.size \/ FileEnd(f.phdr[k]) >= ByteSize * ByteSize
  <2>1. SoundInside(f)
    BY <1>4 DEF Passes, SoundInside, Loads
  <2>2. \A k \in DOMAIN f.phdr : FileEnd(f.phdr[k]) % (ByteSize * ByteSize) < f.size
    BY <1>4 DEF Passes
  <2> QED BY <1>1, <1>2, <2>1, <2>2
<1> QED BY <1>3, <1>4

(* A good file is turned down only for a segment that ends with it, and of  *)
(* the bad ones those pass whose magic number or wrapping segment nobody   *)
(* sees.                                                                   *)
THEOREM OnlyDefectsTurnDown == Spec => []TurnedDownForCause
<1>1. ElfInv => TurnedDownForCause
  <2> SUFFICES ASSUME ElfInv PROVE TurnedDownForCause
    OBVIOUS
  <2>1. Written(file)
    BY FileWritten DEF ElfInv
  <2>2. pc \in {"rejected", "failed"} => ~Passes(file)
    BY DEF ElfInv, Verdict
  <2>3. pc \in {"static", "loaded", "terminated"} => Passes(file)
    BY DEF ElfInv, Verdict
  <2> QED BY <2>1, <2>2, <2>3, WhatPasses DEF TurnedDownForCause
<1> QED BY ElfInvariance, <1>1, PTL

(* Pre-initialisers are words of the file that lie in a segment ...         *)
LEMMA PreinitInSegments ==
  ASSUME Written(file), Linked(file)
  PROVE  /\ PreinitListed \in Seq(Word)
         /\ \A j \in DOMAIN PreinitListed : HasSegment(file, PreinitListed[j])
<1> DEFINE L == Listed(DT_PREINIT_ARRAY, DT_PREINIT_ARRAYSZ)
<1>1. L \in Seq(Word) /\ \A j \in DOMAIN L : HasSegment(file, L[j])
  <2>1. CASE Tagged(file, DT_PREINIT_ARRAYSZ) = {}
    <3>1. L = << >>
      BY <2>1, TagOfFile DEF Listed
    <3> QED BY <3>1, EmptySeq
  <2>2. CASE Tagged(file, DT_PREINIT_ARRAYSZ) # {}
    <3>1. PICK s \in Tagged(file, DT_PREINIT_ARRAYSZ) : TRUE
      BY <2>2
    <3> DEFINE n == file.tags[s].d_val
               a == TagValue(DT_PREINIT_ARRAY)
    <3>2. n \in Nat
      <4>1. file.tags[s] \in [DynFields -> Word]
        BY TagTable DEF Tagged
      <4> QED BY <4>1, ZeroWord DEF DynFields
    <3>3. HasTag(DT_PREINIT_ARRAYSZ) /\ TagValue(DT_PREINIT_ARRAYSZ) = n
      BY <3>1, TagOfFile
    <3>4. L = [j \in 1 .. n |-> file.words[a + j - 1]]
      BY <3>3 DEF Listed
    <3>5. ASSUME NEW j \in 1 .. n
          PROVE  file.words[a + j - 1] \in Word /\ HasSegment(file, file.words[a + j - 1])
      <4> DEFINE there == {x \in DOMAIN file.words : HasSegment(file, file.words[x])}
      <4>1. PICK t \in Tagged(file, DT_PREINIT_ARRAY) :
              file.tags[t].d_val .. file.tags[t].d_val + n - 1 \subseteq there
        <5>1. ArrayLinked(file, DT_PREINIT_ARRAY, DT_PREINIT_ARRAYSZ, there)
          BY DEF Linked
        <5>2. n > 0
          BY <3>2
        <5> HIDE DEF there
        <5> QED BY <3>1, <5>1, <5>2 DEF ArrayLinked
      <4>2. file.tags[t].d_val = a
        BY TagOfFile
      <4>3. file.tags[t] \in [DynFields -> Word]
        BY TagTable DEF Tagged
      <4>4. a \in Nat
        BY <4>2, <4>3, ZeroWord DEF DynFields
      <4> HIDE DEF a, n, there
      <4>5. a + j - 1 \in a .. a + n - 1
        BY <3>2, <4>4
      <4>6. a + j - 1 \in there
        BY <4>1, <4>2, <4>5 DEF n
      <4> QED BY <4>6 DEF Written, there
    <3> HIDE DEF a, n, L
    <3>6. L \in Seq(Word)
      BY <3>2, <3>4, <3>5, IsASeq
    <3> QED BY <3>4, <3>5, <3>6
  <2> QED BY <2>1, <2>2
<1>2. PreinitListed = IF file.ehdr.e_type = ET_EXEC THEN L ELSE << >>
  BY DEF PreinitListed
<1> HIDE DEF L
<1> QED BY <1>1, <1>2, EmptySeq

(* ... and where that segment was linked unless the file was moved.        *)
LEMMA UnmovedRuns ==
  ASSUME file \in FileImage, Written(file), Linked(file), Chosen(file, base), Unmoved
  PROVE  RunAddresses(PreinitListed) = PreinitListed
<1>1. ASSUME NEW j \in DOMAIN PreinitListed
      PROVE  Moved(PreinitListed[j], file.phdr, base) = PreinitListed[j]
  <2> DEFINE a == PreinitListed[j]
  <2>1. HasSegment(file, a)
    BY PreinitInSegments
  <2> HIDE DEF a
  <2>2. PICK k \in Loads(file.phdr) : a \in LinkRange(file.phdr[k])
    BY <2>1 DEF HasSegment
  <2>3. /\ a \in Int /\ base[k] \in Int /\ file.phdr[k].p_vaddr \in Int
        /\ Moved(a, file.phdr, base) = a + base[k] - file.phdr[k].p_vaddr
    BY <2>2, MovedTo
  <2>4. base[k] = file.phdr[k].p_vaddr
    BY DEF Unmoved
  <2> QED BY <2>3, <2>4 DEF a
<1>2. RunAddresses(PreinitListed) = [j \in DOMAIN PreinitListed |-> PreinitListed[j]]
  BY <1>1 DEF RunAddresses
<1>3. PreinitListed = [j \in DOMAIN PreinitListed |-> PreinitListed[j]]
  BY PreinitInSegments
<1> QED BY <1>2, <1>3

(* The first calls of a concatenation are those of its first part.         *)
LEMMA FirstPart ==
  ASSUME NEW S, NEW s \in Seq(S), NEW t \in Seq(S)
  PROVE  SubSeq(s \o t, 1, Len(s)) = s
<1>1. Len(s) \in Nat
  BY LenProperties
<1>2. CASE Len(s) = 0
  <2>1. s = << >>
    BY <1>2, EmptySeq
  <2> QED BY <1>2, <2>1, SubSeqEmpty
<1>3. CASE Len(s) > 0
  <2>1. 1 \in 1 .. Len(s) /\ Len(s) \in 1 .. Len(s)
    BY <1>1, <1>3
  <2>2. SubSeq(s \o t, 1, Len(s)) = SubSeq(s, 1, Len(s))
    BY <2>1, SubSeqOfConcat1
  <2> QED BY <2>2, SubSeqFull
<1> QED BY <1>1, <1>2, <1>3

(* The functions of a file of the byte order of the host are called where   *)
(* they run; those of .preinit_array come first, and are called where they *)
(* run if the file was not moved.                                          *)
THEOREM CallsReachFunctions == Spec => []CalledWhereTheyRun
<1>1. ElfInv => CalledWhereTheyRun
  <2> SUFFICES ASSUME ElfInv, ~Foreign, pc \in {"loaded", "terminated"} PROVE CalledWhereTheyRun
    BY DEF CalledWhereTheyRun
  <2> DEFINE preinit == IF Unmoved THEN Call("preinit", RunAddresses(PreinitListed))
                        ELSE SubSeq(calls, 1, Len(PreinitListed))
             rest == InitCalls \o (IF pc = "loaded" THEN << >> ELSE FiniCalls)
  <2>1. file \in FileImage /\ Written(file) /\ Linked(file) /\ Chosen(file, base)
    BY FileWritten DEF ElfInv, TypeOK, Placed, Accepted
  <2>2. PreinitCalls \in Seq(CallSet) /\ Len(PreinitCalls) = Len(PreinitListed)
    <3>1. PreinitListed \in Seq(Word)
      BY <2>1, PreinitInSegments
    <3>2. DOMAIN PreinitCalls = DOMAIN PreinitListed
      BY DEF PreinitCalls, Call
    <3>3. PreinitCalls \in Seq(CallSet)
      BY <3>1, CallsTyped DEF PreinitCalls
    <3> QED BY <3>1, <3>2, <3>3, LenProperties
  <2>3. /\ calls = PreinitCalls \o rest /\ rest \in Seq(CallSet)
        /\ calls = PreinitCalls \o InitCalls \o (IF pc = "loaded" THEN << >> ELSE FiniCalls)
    <3>1. CASE pc = "loaded"
      <4>1. calls = PreinitCalls \o InitCalls /\ InitCalls \in Seq(CallSet) /\ calls \in Seq(CallSet)
        BY <3>1 DEF ElfInv, Called, TypeOK, CallSet
      <4>2. calls \o << >> = calls /\ InitCalls \o << >> = InitCalls
        BY <4>1, ConcatEmptySeq
      <4> QED BY <3>1, <4>1, <4>2
    <3>2. CASE pc = "terminated"
      <4>1. /\ calls = PreinitCalls \o InitCalls \o FiniCalls
            /\ InitCalls \in Seq(CallSet) /\ FiniCalls \in Seq(CallSet)
        BY <3>2 DEF ElfInv, Called
      <4>2. PreinitCalls \o (InitCalls \o FiniCalls) = PreinitCalls \o InitCalls \o FiniCalls
        BY <2>2, <4>1, ConcatAssociative
      <4>3. InitCalls \o FiniCalls \in Seq(CallSet)
        BY <4>1, ConcatProperties
      <4> QED BY <3>2, <4>1, <4>2, <4>3
    <3> QED BY <3>1, <3>2
  <2> HIDE DEF rest
  <2>4. preinit = PreinitCalls
    <3>1. CASE Unmoved
      BY <2>1, <3>1, UnmovedRuns DEF PreinitCalls
    <3>2. CASE ~Unmoved
      BY <2>2, <2>3, <3>2, FirstPart
    <3> QED BY <3>1, <3>2
  <2> QED BY <2>3, <2>4 DEF CalledWhereTheyRun, InitCalls, FiniCalls
<1> QED BY ElfInvariance, <1>1, PTL
=============================================================================
