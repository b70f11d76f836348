------------------------------- MODULE MCElfFile -------------------------------
(***************************************************************************)
(* Files for ElfFile: an executable and a library with functions of every   *)
(* kind, each in both byte orders and with its tags in many orders, files   *)
(* with faults, and files that lack what is not needed.  Words have two     *)
(* bytes of eight values.                                                  *)
(***************************************************************************)
EXTENDS ElfFile

Size == 60

Mandatory ==
  << [d_tag |-> DT_SONAME, d_val |-> 1],   [d_tag |-> DT_STRTAB, d_val |-> 41],
     [d_tag |-> DT_STRSZ, d_val |-> 7],    [d_tag |-> DT_HASH, d_val |-> 49],
     [d_tag |-> DT_SYMTAB, d_val |-> 51] >>

(* Functions are linked at 8 to 13, their arrays at 16 to 21. *)
Functions ==
  << [d_tag |-> DT_INIT, d_val |-> 8],          [d_tag |-> DT_INIT_ARRAY, d_val |-> 17],
     [d_tag |-> DT_INIT_ARRAYSZ, d_val |-> 2],  [d_tag |-> DT_FINI_ARRAY, d_val |-> 19],
     [d_tag |-> DT_FINI_ARRAYSZ, d_val |-> 2],  [d_tag |-> DT_FINI, d_val |-> 11],
     [d_tag |-> DT_PREINIT_ARRAY, d_val |-> 16], [d_tag |-> DT_PREINIT_ARRAYSZ, d_val |-> 1],
     [d_tag |-> DT_C6000_DSBT_BASE, d_val |-> 22], [d_tag |-> DT_C6000_DSBT_SIZE, d_val |-> 3] >>

End == << [d_tag |-> DT_NULL, d_val |-> 0] >>

Segment(type, offset, vaddr, filesz, memsz) ==
  [p_type |-> type, p_offset |-> offset, p_vaddr |-> vaddr, p_filesz |-> filesz, p_memsz |-> memsz]

Symbol(name, value, shndx) ==
  [st_name |-> name, st_value |-> value, st_size |-> 1, st_info |-> 2, st_shndx |-> shndx]

Whole(order, type, tags) ==
  [ehdr |-> [e_data |-> order, e_magic |-> ELFMAG0, e_osabi |-> ELFOSABI_C6000_ELFABI,
             e_machine |-> EM_TI_C6000, e_type |-> type],
   phdr |-> << Segment(PT_LOAD, 9, 8, 6, 6), Segment(PT_LOAD, 17, 16, 7, 9),
               Segment(PT_DYNAMIC, 25, 0, 14, 14) >>,
   tags |-> tags \o End,
   at_hash |-> 49, nchain |-> 2,
   at_symtab |-> 51, symtab |-> << Symbol(0, 0, 0), Symbol(3, 9, 1) >>,
   strings |-> 0 :> "" @@ 1 :> "so" @@ 3 :> "f",
   words |-> 16 :> 13 @@ 17 :> 9 @@ 18 :> 10 @@ 19 :> 12 @@ 20 :> 13,
   relocated |-> 16 .. 20,
   size |-> Size]

Orders == {"host", "foreign"}

Shuffled ==
  {[k \in 1 .. 5 |-> Mandatory[p[k]]] : p \in {q \in [1 .. 5 -> 1 .. 5] : IsInjective(q)}}

SoundFiles ==
  {Whole(o, t, m \o Functions) : o \in Orders, t \in {ET_EXEC, ET_DYN}, m \in Shuffled}
  \cup {Whole(o, ET_EXEC, Functions \o Mandatory) : o \in Orders}

Plain(o) == Whole(o, ET_DYN, Mandatory \o Functions)
WithTags(f, tags) == [f EXCEPT !.tags = tags \o End]
Without(tag) == SelectSeq(Mandatory \o Functions, LAMBDA t : t.d_tag # tag)

(* Files with a fault each, of the header, the tables, the segments or the  *)
(* tags: a tag of a type the loader does not know, and an empty array at    *)
(* the very end of its segment.                                            *)
FaultyFiles ==
  UNION {LET f == Plain(o)
         IN  {[f EXCEPT !.ehdr.e_magic = 3],
              [f EXCEPT !.ehdr.e_magic = 0],
              [f EXCEPT !.ehdr.e_machine = 3],
              [f EXCEPT !.ehdr.e_machine = 3, !.ehdr.e_magic = 3],
              [f EXCEPT !.ehdr.e_type = 1],
              [f EXCEPT !.ehdr.e_osabi = 0],
              [f EXCEPT !.phdr = SubSeq(@, 1, 2)],
              [f EXCEPT !.nchain = Size],
              [f EXCEPT !.phdr[2].p_memsz = 5],
              [f EXCEPT !.phdr[2].p_offset = Size - 6],
              [f EXCEPT !.phdr[3].p_offset = Size],
              [f EXCEPT !.phdr[3].p_offset = Size, !.phdr[2].p_memsz = 5],
              WithTags(f, << [d_tag |-> 3, d_val |-> 8] >> \o Mandatory),
              WithTags(f, Append(Mandatory, [d_tag |-> DT_INIT_ARRAY, d_val |-> 25]))}
             \cup {WithTags(f, Without(t)) :
                     t \in {DT_SONAME, DT_STRTAB, DT_STRSZ, DT_HASH, DT_SYMTAB}}
         : o \in Orders}

(* Good files that lack something: a dynamic table, terminators, the        *)
(* functions altogether; and one whose segment ends with the file.         *)
LeanFiles ==
  UNION {LET f == Plain(o)
         IN  {[f EXCEPT !.phdr = SubSeq(@, 1, 2), !.ehdr.e_type = ET_EXEC, !.ehdr.e_osabi = 0],
              [f EXCEPT !.phdr[2].p_offset = Size - 7],
              [f EXCEPT !.phdr[2].p_offset = Size - 8],
              WithTags(f, Mandatory)}
             \cup {WithTags(f, Without(t)) : t \in {DT_INIT, DT_FINI}}
         : o \in Orders}

Files == SoundFiles \cup FaultyFiles \cup LeanFiles

(* As linked, one segment moved, both moved, and one moved to where the    *)
(* other was linked.                                                       *)
Places == {<< 8, 16 >>, << 32, 16 >>, << 40, 48 >>, << 16, 32 >>}
=============================================================================
