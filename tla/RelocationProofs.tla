--------------------------- MODULE RelocationProofs ---------------------------
(***************************************************************************)
(* Proofs about Relocation, for every file, every placement of its         *)
(* segments and every value of a relocated field.                          *)
(***************************************************************************)
EXTENDS Relocation, QueueLemmas

-----------------------------------------------------------------------------
(* The high half of a word is not below the smallest 16-bit number.        *)
LEMMA HighHalfFromBelow ==
  ASSUME NEW packed \in Int, NEW upper \in Int, NEW lower \in Int,
         lower < 65536, packed = 65536 * upper + lower, -2147483648 <= packed
  PROVE  -32768 <= upper
  BY SMT

(* The high half of a word is below the first number too large for it.     *)
LEMMA HighHalfFromAbove ==
  ASSUME NEW packed \in Int, NEW upper \in Int, NEW lower \in Int,
         0 <= lower, packed = 65536 * upper + lower, packed < 2147483648
  PROVE  upper < 32768
  BY SMT

(* A number in range comes back from its size low bits, sign extended: the *)
(* mask of mask_result on one side, the extension of the processor on the  *)
(* other (c60_reloc.c:243-297).                                            *)
LEMMA SignedRoundTrip ==
  ASSUME NEW size \in {128, 1024, 4096, 65536, 2097152}, NEW packed \in Int,
         -size <= 2 * packed, 2 * packed < size
  PROVE  SignExtend(packed % size, size) = packed
<1>1. CASE size = 128
  BY SMT, <1>1 DEF SignExtend
<1>2. CASE size = 1024
  BY SMT, <1>2 DEF SignExtend
<1>3. CASE size = 4096
  BY SMT, <1>3 DEF SignExtend
<1>4. CASE size = 65536
  BY SMT, <1>4 DEF SignExtend
<1>5. CASE size = 2097152
  BY SMT, <1>5 DEF SignExtend
<1> QED
  BY SMT, <1>1, <1>2, <1>3, <1>4, <1>5

(* The displacement of a branch that is in range is the one the branch     *)
(* makes of its field (c60_reloc.c:206-218, 322-329).                      *)
THEOREM BranchFieldDecodes ==
  ASSUME NEW type \in BranchType, NEW value \in Int,
         ~RelOverflow(type, value), Aligned(type, value)
  PROVE  Operand(type, FieldOf(type, value)) = value
<1> DEFINE size == FieldSize[type]
<1>1. /\ PackShift[type] = 4 /\ Unit(type) = 4
      /\ BranchReach[type] = 2 * size /\ size \in {128, 1024, 4096, 2097152}
  BY SMT DEF PackShift, FieldSize, BranchReach, BranchType, Unit, WordType
<1> HIDE DEF size
<1>2. PICK packed \in Int : value = 4 * packed /\ value \div 4 = packed
  BY SMT, <1>1 DEF Aligned
<1>3. -size <= 2 * packed /\ 2 * packed < size
  <2>1. ~OutOf(value, -BranchReach[type], BranchReach[type] - 1)
    BY SMT DEF RelOverflow
  <2> QED
    BY SMT, <2>1, <1>1, <1>2 DEF OutOf
<1>4. SignExtend(packed % size, size) = packed
  BY SMT, <1>1, <1>3, SignedRoundTrip
<1>5. FieldOf(type, value) = packed % size
  BY SMT, <1>1, <1>2 DEF FieldOf, BranchType, size
<1>6. Operand(type, packed % size) = 4 * SignExtend(packed % size, size)
  BY SMT, <1>1 DEF Operand, SignedType, BranchType, size
<1> QED
  BY SMT, <1>2, <1>4, <1>5, <1>6

(* A 16-bit signed value in range is what the instruction makes of it      *)
(* (c60_reloc.c:330-333).                                                  *)
THEOREM SignedFieldDecodes ==
  ASSUME NEW type \in {"SBR_S16", "ABS_S16"}, NEW value \in Int,
         ~RelOverflow(type, value)
  PROVE  Operand(type, FieldOf(type, value)) = value
<1>1. PackShift[type] = 1 /\ FieldSize[type] = 65536 /\ Unit(type) = 1
  BY SMT DEF PackShift, FieldSize, Unit, WordType, HalfType, BranchType
<1>2. -32768 <= value /\ value <= 32767
  BY SMT DEF RelOverflow, OutOf
<1>3. value \div 1 = value
  BY SMT
<1>4. FieldOf(type, value) = value % 65536
  BY SMT, <1>1, <1>3 DEF FieldOf
<1>5. Operand(type, value % 65536) = SignExtend(value % 65536, 65536)
  <2>1. SignExtend(value % 65536, 65536) \in Int
    BY SMT DEF SignExtend
  <2> QED
    BY SMT, <1>1, <2>1 DEF Operand, SignedType, BranchType
<1> QED
  BY SMT, <1>2, <1>4, <1>5, SignedRoundTrip

(* An offset from the static base that is in range, and that of a module's *)
(* slot in its DSBT, is what the instruction makes of it, scaled by its    *)
(* unit; an offset below the static base is never in range                 *)
(* (c60_reloc.c:334-339).                                                  *)
THEOREM UnsignedFieldDecodes ==
  ASSUME NEW type \in UnsignedType \cup {"DSBT_INDEX"}, NEW value \in Int,
         ~RelOverflow(type, value), Aligned(type, value)
  PROVE  Operand(type, FieldOf(type, value)) = value
<1> DEFINE unit == Unit(type)
<1>1. PackShift[type] = unit /\ unit \in {1, 2, 4} /\ FieldSize[type] = 32768
  BY SMT DEF PackShift, FieldSize, UnsignedType, Unit, WordType, HalfType, BranchType
<1>2. 0 <= value /\ value < 32768 * unit
  BY SMT DEF RelOverflow, OutOf, UnsignedType, Unit, WordType, HalfType, BranchType
<1>3. value % unit = 0
  BY SMT DEF Aligned
<1> HIDE DEF unit
<1>4. (value \div unit) % 32768 = value \div unit /\ unit * (value \div unit) = value
  <2>1. CASE unit = 1
    BY SMT, <2>1, <1>2
  <2>2. CASE unit = 2
    BY SMT, <2>2, <1>2, <1>3
  <2>3. CASE unit = 4
    BY SMT, <2>3, <1>2, <1>3
  <2> QED
    BY SMT, <1>1, <2>1, <2>2, <2>3
<1>5. FieldOf(type, value) = value \div unit
  BY SMT, <1>1, <1>4 DEF FieldOf, UnsignedType, unit
<1>6. Operand(type, value \div unit) = unit * (value \div unit)
  BY SMT DEF Operand, SignedType, UnsignedType, BranchType, unit
<1> QED
  BY SMT, <1>4, <1>5, <1>6

(* The distance from a place, of any two 32-bit addresses below 2^31, fits *)
(* the 31 bits it has without a range check (c60_reloc.c:206-208, 352).    *)
THEOREM PlaceFieldDecodes ==
  ASSUME NEW value \in Int, -2147483648 <= value, value < 2147483648,
         Aligned("PREL31", value)
  PROVE  Operand("PREL31", FieldOf("PREL31", value)) = value
<1>1. PackShift["PREL31"] = 2 /\ Unit("PREL31") = 2
  BY SMT DEF PackShift, Unit, WordType, HalfType, BranchType
<1>2. FieldOf("PREL31", value) = Low31Bits(value \div 2)
  BY SMT, <1>1 DEF FieldOf
<1>3. Operand("PREL31", Low31Bits(value \div 2)) = 2 * SignExtend31(Low31Bits(value \div 2))
  BY SMT, <1>1 DEF Operand
<1>4. value % 2 = 0
  BY SMT, <1>1 DEF Aligned
<1>5. 2 * SignExtend31(Low31Bits(value \div 2)) = value
  BY SMT, <1>4 DEF SignExtend31, Low31Bits
<1> QED
  BY SMT, <1>2, <1>3, <1>5

(* The halves MVKL and MVKH load make the whole address, or offset from    *)
(* the static base in units of 1, 2 or 4, of any 32-bit value               *)
(* (c60_reloc.c:196-236, 255-266).                                         *)
THEOREM HalvesDecode ==
  ASSUME NEW value \in Int, -2147483648 <= value, value < 2147483648,
         NEW low \in {"ABS_L16", "SBR_L16_B", "SBR_L16_H", "SBR_L16_W"},
         NEW high \in {"ABS_H16", "SBR_H16_B", "SBR_H16_H", "SBR_H16_W"},
         PackShift[high] = 65536 * PackShift[low],
         Aligned(low, value)
  PROVE  Unit(low) * Pair(FieldOf(low, value), FieldOf(high, value)) = value
<1> DEFINE unit == Unit(low)
<1>1. /\ PackShift[low] = unit /\ unit \in {1, 2, 4}
      /\ FieldSize[low] = 65536 /\ FieldSize[high] = 65536
  BY SMT DEF PackShift, FieldSize, Unit, WordType, HalfType, BranchType
<1>2. FieldOf(low, value) = (value \div unit) % 65536
  BY SMT, <1>1 DEF FieldOf
<1>3. FieldOf(high, value) = (value \div (65536 * unit)) % 65536
  BY SMT, <1>1 DEF FieldOf
<1>4. value % unit = 0
  BY SMT DEF Aligned
<1> HIDE DEF unit
<1>5. PICK packed \in Int : value = unit * packed /\ value \div unit = packed
                            /\ value \div (65536 * unit) = packed \div 65536
  <2>1. CASE unit = 1
    BY SMT, <2>1
  <2>2. CASE unit = 2
    BY SMT, <2>2, <1>4
  <2>3. CASE unit = 4
    BY SMT, <2>3, <1>4
  <2> QED
    BY SMT, <1>1, <2>1, <2>2, <2>3
<1>6. packed \div 65536 \in Int /\ packed = 65536 * (packed \div 65536) + (packed % 65536)
  BY SMT
<1> DEFINE upper == packed \div 65536
<1> HIDE DEF upper
<1>7. SignExtend(upper % 65536, 65536) = upper
  <2>1. -2147483648 <= packed /\ packed < 2147483648
    BY SMT, <1>1, <1>5
  <2>2. upper \in Int /\ packed = 65536 * upper + (packed % 65536)
    BY SMT, <1>6 DEF upper
  <2>3. packed % 65536 \in Int /\ 0 <= packed % 65536 /\ packed % 65536 < 65536
    BY SMT
  <2>4. -32768 <= upper
    BY SMT, <2>1, <2>2, <2>3, HighHalfFromBelow
  <2>5. upper < 32768
    BY SMT, <2>1, <2>2, <2>3, HighHalfFromAbove
  <2>6. -65536 <= 2 * upper /\ 2 * upper < 65536
    BY SMT, <2>2, <2>4, <2>5
  <2> QED
    BY SMTT(30), <2>2, <2>6, SignedRoundTrip
<1>8. Pair(FieldOf(low, value), FieldOf(high, value)) = packed
  BY SMTT(30), <1>2, <1>3, <1>5, <1>6, <1>7 DEF Pair, upper
<1> QED
  BY SMT, <1>5, <1>8 DEF unit
-----------------------------------------------------------------------------
(* What is known of the file.                                              *)
LEMMA FileFacts ==
  ASSUME image \in Images
  PROVE  /\ Len(image.segs) \in Nat /\ Segments = 1 .. Len(image.segs)
         /\ \A i \in Segments : image.segs[i].vaddr \in Nat /\ image.segs[i].memsz \in Nat
         /\ image.entry \in Nat /\ image.phdr \in Seq(Nat) /\ image.tags \in Seq(Nat)
         /\ Globals \subseteq DOMAIN image.symtab
         /\ DOMAIN image.symtab \subseteq Nat
         /\ \A j \in DOMAIN image.symtab :
              image.symtab[j].value \in Nat /\ image.symtab[j].def \in BOOLEAN
         /\ Entries \subseteq Nat /\ image.dsbt_index \in Nat
         /\ \A k \in Entries :
              /\ image.rela[k].offset \in Nat /\ image.rela[k].type \in RelocType
              /\ image.rela[k].sym \in DOMAIN image.symtab /\ image.rela[k].addend \in Int
<1>1. image \in ImageType /\ WellLinked(image)
  BY RelocationAssumption
<1>2. /\ image.segs \in Seq(LoadSegment) /\ image.symtab \in Seq(Symbol) /\ image.rela \in Seq(RelaEntry)
      /\ image.entry \in Nat /\ image.phdr \in Seq(Nat) /\ image.tags \in Seq(Nat)
      /\ image.locals \in Nat /\ image.dsbt_index \in Nat
  BY <1>1 DEF ImageType
<1>3. /\ Len(image.segs) \in Nat /\ Segments = 1 .. Len(image.segs)
      /\ \A i \in Segments : image.segs[i] \in LoadSegment
  BY <1>2, LenProperties, ElementOfSeq DEF Segments
<1>4. /\ Len(image.symtab) \in Nat /\ DOMAIN image.symtab = 1 .. Len(image.symtab)
      /\ \A j \in DOMAIN image.symtab : image.symtab[j] \in Symbol
  BY <1>2, LenProperties, ElementOfSeq
<1>5. /\ Entries = 1 .. Len(image.rela) /\ Len(image.rela) \in Nat
      /\ \A k \in Entries : image.rela[k] \in RelaEntry
  BY <1>2, LenProperties, ElementOfSeq DEF Entries
<1>6. \A i \in Segments : image.segs[i].vaddr \in Nat /\ image.segs[i].memsz \in Nat
  BY <1>3 DEF LoadSegment
<1>7. \A j \in DOMAIN image.symtab :
         image.symtab[j].value \in Nat /\ image.symtab[j].def \in BOOLEAN
  BY <1>4 DEF Symbol
<1>8. Globals \subseteq DOMAIN image.symtab /\ DOMAIN image.symtab \subseteq Nat
  BY <1>2, <1>4 DEF Globals
<1>9. \A k \in Entries :
         /\ image.rela[k].offset \in Nat /\ image.rela[k].type \in RelocType
         /\ image.rela[k].sym \in DOMAIN image.symtab /\ image.rela[k].addend \in Int
  BY <1>1, <1>5 DEF RelaEntry, WellLinked, Entries
<1> QED BY SMTT(30), <1>2, <1>3, <1>5, <1>6, <1>7, <1>8, <1>9

(* Segments are relocated when all of them are placed, in their order.     *)
InOrder ==
  /\ pc \in {"plt", "got", "done"} => Len(placed) = Len(image.segs)
  /\ pc \in {"place", "plt", "failed"} => turn = 1
  /\ pc = "done" => turn = Len(image.segs) + 1

(* What is known of the segments placed so far.                            *)
PlacedFacts == /\ Len(placed) \in Nat /\ DOMAIN placed = 1 .. Len(placed)
               /\ DOMAIN placed \subseteq Segments
               /\ \A i \in DOMAIN placed : placed[i] \in Nat

(* They are segments of the file, at addresses.                            *)
LEMMA PlacedOnes == TypeOK => PlacedFacts
<1> SUFFICES ASSUME TypeOK PROVE PlacedFacts
  OBVIOUS
<1>1. placed \in Seq(Addresses) /\ Len(placed) <= Len(image.segs) /\ image \in Images
  BY DEF TypeOK
<1>2. Len(placed) \in Nat /\ DOMAIN placed = 1 .. Len(placed)
  BY <1>1, LenProperties
<1>3. Len(image.segs) \in Nat /\ Segments = 1 .. Len(image.segs)
  BY <1>1, FileFacts
<1>4. DOMAIN placed \subseteq Segments
  BY <1>1, <1>2, <1>3
<1>5. \A i \in DOMAIN placed : placed[i] \in Nat
  BY <1>1, <1>2, ElementOfSeq, RelocationAssumption
<1> QED BY <1>2, <1>4, <1>5 DEF PlacedFacts

(* The first segment an address was linked in, once one of them is placed, *)
(* is a placed one, and the address it has now is an address.              *)
LEMMA FirstSection ==
  ASSUME TypeOK, NEW a \in Nat, PlacedIn(a) # {}
  PROVE  /\ Min(SectionOf(a)) \in PlacedIn(a)
         /\ \A i \in SectionOf(a) : Min(SectionOf(a)) <= i
         /\ NewAddress(a) \in Nat
<1> DEFINE i == Min(SectionOf(a))
<1>1. PlacedFacts
  BY PlacedOnes
<1>2. PlacedIn(a) \subseteq SectionOf(a) /\ SectionOf(a) \subseteq Segments
  BY <1>1 DEF PlacedIn, SectionOf, PlacedFacts
<1>3. Segments \subseteq Nat /\ \A s \in Segments : image.segs[s].vaddr \in Nat
  BY FileFacts DEF TypeOK
<1>4. i \in SectionOf(a) /\ \A s \in SectionOf(a) : i <= s
  BY <1>2, <1>3, FirstOfPlaces
<1>5. PICK s \in PlacedIn(a) : TRUE
  OBVIOUS
<1> HIDE DEF i
<1>6. i <= s /\ i \in Nat /\ s \in 1 .. Len(placed) /\ i >= 1
  BY <1>1, <1>2, <1>3, <1>4, <1>5, FileFacts DEF PlacedIn, PlacedFacts, TypeOK
<1>7. i \in DOMAIN placed /\ LinkedIn(a, i)
  BY <1>1, <1>4, <1>6 DEF PlacedFacts, SectionOf
<1>8. placed[i] \in Nat /\ image.segs[i].vaddr \in Nat /\ image.segs[i].vaddr <= a
  BY <1>1, <1>3, <1>7 DEF PlacedFacts, LinkedIn, Within
<1>9. a + placed[i] - image.segs[i].vaddr \in Nat
  BY <1>8
<1> QED BY <1>4, <1>7, <1>9 DEF i, PlacedIn, NewAddress

-----------------------------------------------------------------------------
(* Where a thing linked at a is now.                                       *)
NowAt(a) == IF PlacedIn(a) = {} THEN a ELSE NewAddress(a)

(* What it takes to say where things are in the next state.                *)
LEMMA SectionsStay ==
  ASSUME image' = image, NEW a
  PROVE  /\ Segments' = Segments /\ SectionOf(a)' = SectionOf(a)
         /\ PlacedIn(a)' = {i \in DOMAIN placed' : LinkedIn(a, i)}
         /\ NewAddress(a)' = a + placed'[Min(SectionOf(a))] - image.segs[Min(SectionOf(a))].vaddr
<1>1. Segments' = Segments /\ SectionOf(a)' = SectionOf(a)
  BY DEF Segments, SectionOf, LinkedIn
<1> QED BY <1>1 DEF PlacedIn, LinkedIn, NewAddress

(* Placing the next segment moves what is linked in it, unless it moved    *)
(* before, and nothing else.                                               *)
LEMMA PlacingMoves ==
  ASSUME TypeOK, NEW address \in Addresses, PlaceSegment(address), NEW a \in Nat
  PROVE  /\ (PlacedIn(a)' = {}) <=> (PlacedIn(a) = {} /\ ~LinkedIn(a, Len(placed) + 1))
         /\ NowAt(a)' = IF PlacedIn(a) = {} /\ LinkedIn(a, Len(placed) + 1)
                          THEN a + (address - image.segs[Len(placed) + 1].vaddr)
                          ELSE NowAt(a)
<1> DEFINE i == Len(placed) + 1
           m == Min(SectionOf(a))
<1>1. /\ i \in Segments /\ placed' = Append(placed, address) /\ image' = image
      /\ placed \in Seq(Addresses) /\ image \in Images
  BY DEF PlaceSegment, TypeOK
<1>2. PlacedFacts
  BY PlacedOnes
<1>3. /\ DOMAIN placed' = DOMAIN placed \cup {i} /\ i \notin DOMAIN placed
      /\ \A j \in DOMAIN placed : placed'[j] = placed[j]
      /\ placed'[i] = address
  <2>1. /\ Append(placed, address) \in Seq(Addresses) /\ Len(Append(placed, address)) = i
        /\ \A j \in 1 .. Len(placed) : Append(placed, address)[j] = placed[j]
        /\ Append(placed, address)[i] = address
    BY <1>1, AppendProperties
  <2>2. DOMAIN Append(placed, address) = 1 .. i
    BY <2>1, LenProperties
  <2>3. Len(placed) \in Nat /\ DOMAIN placed = 1 .. Len(placed)
    BY <1>2 DEF PlacedFacts
  <2> QED BY <1>1, <2>1, <2>2, <2>3
<1>4. /\ PlacedIn(a)' = {j \in DOMAIN placed' : LinkedIn(a, j)}
      /\ NewAddress(a)' = a + placed'[m] - image.segs[m].vaddr
  BY <1>1, SectionsStay
<1>5. /\ Segments \subseteq Nat /\ \A s \in Segments : image.segs[s].vaddr \in Nat
  BY <1>1, FileFacts
<1>6. address \in Nat
  BY RelocationAssumption
<1>7. (PlacedIn(a)' = {}) <=> (PlacedIn(a) = {} /\ ~LinkedIn(a, i))
  <2> HIDE DEF i, m
  <2> QED BY <1>3, <1>4 DEF PlacedIn
<1>8. CASE PlacedIn(a) # {}
  <2>1. m \in PlacedIn(a)
    BY <1>8, FirstSection
  <2> HIDE DEF i, m
  <2>2. NewAddress(a)' = a + placed[m] - image.segs[m].vaddr
    BY <1>3, <1>4, <2>1 DEF PlacedIn
  <2>3. NewAddress(a) = a + placed[m] - image.segs[m].vaddr
    BY DEF NewAddress, m
  <2>4. PlacedIn(a)' # {}
    BY <1>7, <1>8
  <2>5. NowAt(a)' = NowAt(a)
    BY <1>8, <2>2, <2>3, <2>4 DEF NowAt
  <2> QED BY <1>7, <1>8, <2>5 DEF i
<1>9. CASE PlacedIn(a) = {} /\ LinkedIn(a, i)
  <2>1. i \in SectionOf(a) /\ SectionOf(a) \subseteq Segments
    BY <1>1, <1>9 DEF SectionOf
  <2>2. m \in SectionOf(a) /\ m <= i
    BY <1>5, <2>1, FirstOfPlaces
  <2>3. m \notin DOMAIN placed
    BY <1>9, <2>2 DEF PlacedIn, SectionOf
  <2>4. m = i
    <3>1. m \in Nat /\ m >= 1 /\ Len(placed) \in Nat /\ ~(m \in 1 .. Len(placed))
      BY <1>1, <1>2, <2>1, <2>2, <2>3, FileFacts DEF PlacedFacts
    <3> HIDE DEF m
    <3> QED BY <2>2, <3>1
  <2> HIDE DEF i, m
  <2>5. NewAddress(a)' = a + address - image.segs[i].vaddr
    BY <1>3, <1>4, <2>4
  <2>6. image.segs[i].vaddr \in Nat
    BY <1>1, <1>5
  <2>7. a + address - image.segs[i].vaddr = a + (address - image.segs[i].vaddr)
    BY <1>6, <2>6
  <2>8. NowAt(a)' = a + (address - image.segs[i].vaddr)
    BY <1>7, <1>9, <2>5, <2>7 DEF NowAt
  <2> QED BY <1>7, <1>9, <2>8 DEF i
<1>10. CASE PlacedIn(a) = {} /\ ~LinkedIn(a, i)
  <2> HIDE DEF i, m
  <2>1. NowAt(a)' = a /\ NowAt(a) = a
    BY <1>7, <1>10 DEF NowAt
  <2> QED BY <1>7, <1>10, <2>1 DEF i
<1> QED BY <1>8, <1>9, <1>10

(* An address that moves with the next segment stays an address.           *)
LEMMA MovesToAddress ==
  ASSUME image \in Images, NEW address \in Nat, NEW i \in Segments, NEW a \in Nat, LinkedIn(a, i)
  PROVE  a + (address - image.segs[i].vaddr) \in Nat
<1>1. image.segs[i].vaddr \in Nat /\ image.segs[i].vaddr <= a
  BY FileFacts DEF LinkedIn, Within
<1> QED BY <1>1

(* Placing a segment keeps the types.                                      *)
LEMMA PlacingTypes ==
  ASSUME TypeOK, InOrder, NEW address \in Addresses, PlaceSegment(address)
  PROVE  TypeOK' /\ InOrder'
<1> DEFINE i == Len(placed) + 1
           offset == address - image.segs[i].vaddr
<1>1. /\ i \in Segments /\ placed' = Append(placed, address) /\ pc = "place"
      /\ UNCHANGED << image, tags, pc, turn, field, applied, reported >>
      /\ image \in Images /\ placed \in Seq(Addresses)
  BY DEF PlaceSegment, relocation, TypeOK
<1>2. /\ placed' \in Seq(Addresses) /\ Len(placed') <= Len(image.segs)
  <2>1. placed' \in Seq(Addresses) /\ Len(placed') = i
    BY <1>1, AppendProperties
  <2>2. Segments = 1 .. Len(image.segs) /\ Len(image.segs) \in Nat
    BY <1>1, FileFacts
  <2> QED BY <1>1, <2>1, <2>2
<1>3. address \in Nat
  BY RelocationAssumption
<1> HIDE DEF i
<1>4. entry' \in Nat /\ entry_due' \in BOOLEAN
  <2>1. /\ entry' = IF MovesEntry(i) THEN entry + offset ELSE entry
        /\ entry_due' = (entry_due /\ ~MovesEntry(i))
    BY DEF PlaceSegment, i
  <2>2. entry \in Nat /\ entry_due \in BOOLEAN
    BY DEF TypeOK
  <2>3. MovesEntry(i) => entry + offset \in Nat
    BY <1>1, <1>3, <2>2, MovesToAddress DEF MovesEntry
  <2> QED BY <2>1, <2>2, <2>3
<1>5. phdr' \in Seq(Nat)
  <2> DEFINE found == {j \in DOMAIN phdr : phdr[j] = image.segs[i].vaddr}
  <2>1. phdr' = IF found = {} THEN phdr ELSE [phdr EXCEPT ![Min(found)] = @ + offset]
    BY DEF PlaceSegment, MovedHeaders, i
  <2>2. phdr \in Seq(Nat) /\ DOMAIN phdr = 1 .. Len(phdr) /\ Len(phdr) \in Nat
    BY LenProperties DEF TypeOK
  <2>3. ASSUME found # {} PROVE [phdr EXCEPT ![Min(found)] = @ + offset] \in Seq(Nat)
    <3>1. Min(found) \in found
      <4>1. found \in SUBSET Nat
        BY <2>2
      <4> HIDE DEF found
      <4> QED BY <2>3, <4>1, FirstOfPlaces
    <3>2. image.segs[i].vaddr \in Nat
      BY <1>1, FileFacts
    <3>3. PICK m \in 1 .. Len(phdr) : m = Min(found) /\ phdr[m] = image.segs[i].vaddr
      BY <2>2, <3>1
    <3>4. phdr[m] + offset \in Nat
      BY <1>3, <3>2, <3>3
    <3> HIDE DEF offset, found
    <3>5. [phdr EXCEPT ![m] = @ + offset] = [phdr EXCEPT ![m] = phdr[m] + offset]
      OBVIOUS
    <3>6. [phdr EXCEPT ![m] = phdr[m] + offset] \in Seq(Nat)
      BY <2>2, <3>4, ExceptSeq
    <3> QED BY <3>3, <3>5, <3>6
  <2> QED BY <2>1, <2>2, <2>3
<1>6. /\ symtab' \in [DOMAIN image.symtab -> [def : BOOLEAN, value : Nat, moved : BOOLEAN]]
      /\ gsymtab' \in [Globals -> Nat]
  <2>1. /\ symtab' = [j \in DOMAIN symtab |->
             IF MovesSymbol(j, i)
               THEN [def |-> TRUE, value |-> symtab[j].value + offset, moved |-> TRUE]
               ELSE symtab[j]]
        /\ gsymtab' = [j \in Globals |->
             IF MovesSymbol(j, i) THEN symtab[j].value + offset ELSE gsymtab[j]]
    BY DEF PlaceSegment, i
  <2>2. /\ symtab \in [DOMAIN image.symtab -> [def : BOOLEAN, value : Nat, moved : BOOLEAN]]
        /\ gsymtab \in [Globals -> Nat]
    BY DEF TypeOK
  <2>3. \A j \in DOMAIN symtab : symtab[j].value \in Nat
    BY <2>2
  <2>4. \A j \in DOMAIN symtab : MovesSymbol(j, i) => symtab[j].value + offset \in Nat
    BY <1>1, <1>3, <2>3, MovesToAddress DEF MovesSymbol
  <2>5. Globals \subseteq DOMAIN symtab
    BY <1>1, <2>2, FileFacts
  <2> QED BY <2>1, <2>2, <2>4, <2>5
<1>7. /\ Globals' = Globals /\ Entries' = Entries
  BY <1>1 DEF Globals, Entries
<1> QED BY <1>1, <1>2, <1>4, <1>5, <1>6, <1>7 DEF TypeOK, InOrder

-----------------------------------------------------------------------------
(* What symbol lookup answers: the first definition of the modules in the  *)
(* order of the DT_NEEDED list.                                            *)
FirstDefinition(name, d, s) ==
  /\ d \in DOMAIN image.needs /\ d \in Nat
  /\ \A e \in DOMAIN image.needs : Defines(image.needs[e], name) # {} => e \in Nat /\ d <= e
  /\ s \in Defines(image.needs[d], name)
  /\ image.needs[d][s].value \in Nat
  /\ GlobalLookup(name) = Found(image.needs[d][s].value)

(* The walk over the modules finds it, if there is one.                     *)
LEMMA GlobalFirst ==
  ASSUME image \in Images, NEW name
  PROVE  \/ GlobalLookup(name) = NotFound
         \/ \E d, s : FirstDefinition(name, d, s)
<1> DEFINE hits == {d \in DOMAIN image.needs : Defines(image.needs[d], name) # {}}
<1>1. image.needs \in Seq(Seq(Symbol))
  BY RelocationAssumption DEF ImageType
<1>2. /\ DOMAIN image.needs \subseteq Nat
      /\ \A d \in DOMAIN image.needs : image.needs[d] \in Seq(Symbol)
  <2>1. DOMAIN image.needs = 1 .. Len(image.needs) /\ Len(image.needs) \in Nat
    BY <1>1, LenProperties
  <2> QED BY <1>1, <2>1, ElementOfSeq
<1>3. CASE hits = {}
  BY <1>3 DEF GlobalLookup
<1>4. CASE hits # {}
  <2>1. PICK d \in hits : d = Min(hits) /\ \A e \in hits : d <= e
    <3>1. hits \in SUBSET Nat
      BY <1>2
    <3> HIDE DEF hits
    <3> QED BY <1>4, <3>1, FirstOfPlaces
  <2> DEFINE table == image.needs[d]
             places == Defines(table, name)
  <2>2. table \in Seq(Symbol) /\ places # {} /\ d \in DOMAIN image.needs
    BY <1>2
  <2>3. DOMAIN table = 1 .. Len(table) /\ Len(table) \in Nat
    BY <2>2, LenProperties
  <2>4. places \in SUBSET Nat /\ places \subseteq DOMAIN table
    BY <2>3 DEF Defines
  <2>5. PICK s \in places : s = Min(places)
    <3> HIDE DEF places
    <3> QED BY <2>2, <2>4, FirstOfPlaces
  <2>6. GlobalLookup(name) = Found(table[s].value)
    BY <1>4, <2>1, <2>5 DEF GlobalLookup
  <2>7. table[s] \in Symbol
    <3> HIDE DEF table, places
    <3> QED BY <2>2, <2>3, <2>4, ElementOfSeq
  <2>8. table[s].value \in Nat
    BY <2>7 DEF Symbol
  <2>9. \A e \in DOMAIN image.needs : Defines(image.needs[e], name) # {} => e \in Nat /\ d <= e
    BY <1>2, <2>1
  <2>10. FirstDefinition(name, d, s)
    BY <1>2, <2>2, <2>6, <2>8, <2>9 DEF FirstDefinition
  <2> QED BY <2>10
<1> QED BY <1>3, <1>4

(* A lookup answers with a number.                                         *)
LEMMA LookupIsNumber ==
  ASSUME TypeOK, NEW j \in DOMAIN image.symtab
  PROVE  CanonicalLookup(j).value \in Nat
<1>1. image \in Images /\ symtab[j].value \in Nat
  BY DEF TypeOK
<1>2. GlobalLookup(image.symtab[j].name).value \in Nat
  <2>1. CASE GlobalLookup(image.symtab[j].name) = NotFound
    BY <2>1 DEF NotFound
  <2>2. ASSUME NEW d, NEW s, FirstDefinition(image.symtab[j].name, d, s)
        PROVE  GlobalLookup(image.symtab[j].name).value \in Nat
    BY <2>2 DEF FirstDefinition, Found
  <2> QED BY <1>1, <2>1, <2>2, GlobalFirst
<1> QED BY <1>1, <1>2 DEF CanonicalLookup, Found, NotFound

(* The static base is a number too.                                        *)
LEMMA BaseIsNumber ==
  ASSUME TypeOK
  PROVE  /\ StaticBase \in Nat
         /\ StaticBaseSymbols # {} =>
              \E j \in StaticBaseSymbols : StaticBase = symtab[j].value
<1>1. CASE StaticBaseSymbols = {}
  BY <1>1 DEF StaticBase
<1>2. CASE StaticBaseSymbols # {}
  <2>1. StaticBaseSymbols \in SUBSET Nat /\ StaticBaseSymbols \subseteq DOMAIN symtab
    BY FileFacts DEF TypeOK, StaticBaseSymbols
  <2>2. Min(StaticBaseSymbols) \in StaticBaseSymbols
    BY <1>2, <2>1, FirstOfPlaces
  <2>3. StaticBase = symtab[Min(StaticBaseSymbols)].value
    BY <1>2 DEF StaticBase
  <2>4. \A j \in DOMAIN symtab : symtab[j].value \in Nat
    BY DEF TypeOK
  <2> QED BY <2>1, <2>2, <2>3, <2>4
<1> QED BY <1>1, <1>2

(* A value is a number, whatever the type of its entry.                     *)
LEMMA ValueIsNumber ==
  ASSUME NEW type \in RelocType, NEW symval \in Int, NEW addend \in Int,
         NEW address \in Int, NEW base \in Int, NEW index \in Int
  PROVE  RelocValue(type, symval, addend, address, base, index) \in Int
<1>1. FetchPacket(address) \in Int
  BY DEF FetchPacket
<1>2. CASE type \in AbsoluteType
  BY <1>2 DEF RelocValue, AbsoluteType, BranchType, BaseType, UnsignedType, LowType, HighType
<1>3. CASE type \in BranchType
  BY <1>1, <1>3 DEF RelocValue, AbsoluteType, BranchType, BaseType, UnsignedType, LowType, HighType
<1>4. CASE type \in BaseType
  BY <1>4 DEF RelocValue, AbsoluteType, BranchType, BaseType, UnsignedType, LowType, HighType
<1>5. CASE type = "PREL31"
  BY <1>5 DEF RelocValue, AbsoluteType, BranchType, BaseType, UnsignedType, LowType, HighType
<1>6. CASE type = "DSBT_INDEX"
  BY <1>6 DEF RelocValue, AbsoluteType, BranchType, BaseType, UnsignedType, LowType, HighType
<1> QED BY <1>2, <1>3, <1>4, <1>5, <1>6 DEF RelocType

(* What mask_result leaves of a value fits the field.                       *)
LEMMA FieldFits ==
  ASSUME NEW type \in RelocType \ {"ABS32", "PREL31"}, NEW value \in Int
  PROVE  /\ FieldOf(type, value) \in 0 .. FieldSize[type] - 1
         /\ 0 \in 0 .. FieldSize[type] - 1
<1>1. PackShift[type] \in {1, 2, 4, 65536, 131072, 262144}
  BY DEF RelocType, AbsoluteType, BranchType, BaseType, UnsignedType, LowType, HighType, PackShift
<1>2. FieldSize[type] \in {128, 256, 1024, 4096, 32768, 65536, 2097152}
  BY DEF RelocType, AbsoluteType, BranchType, BaseType, UnsignedType, LowType, HighType, FieldSize
<1>3. value \div PackShift[type] \in Int
  BY <1>1
<1>4. (value \div PackShift[type]) % FieldSize[type] \in 0 .. FieldSize[type] - 1
  BY <1>2, <1>3
<1>5. FieldOf(type, value) = (value \div PackShift[type]) % FieldSize[type]
  BY DEF FieldOf
<1> QED BY <1>2, <1>4, <1>5

(* The value of an entry in a placed segment is a number.                   *)
LEMMA EntryValue ==
  ASSUME TypeOK, NEW k \in Entries, NEW i \in DOMAIN placed
  PROVE  ValueOf(k, i) \in Int
<1>1. PlacedFacts /\ image \in Images
  BY PlacedOnes DEF TypeOK
<1>2. /\ image.rela[k].offset \in Nat /\ image.rela[k].type \in RelocType
      /\ image.rela[k].sym \in DOMAIN image.symtab /\ image.rela[k].addend \in Int
      /\ image.dsbt_index \in Nat
      /\ placed[i] \in Nat /\ image.segs[i].vaddr \in Nat
  BY <1>1, FileFacts DEF PlacedFacts
<1>3. HostAddress(k, i) \in Int
  BY <1>2, RelocationAssumption DEF HostAddress
<1>4. CanonicalLookup(image.rela[k].sym).value \in Int /\ StaticBase \in Int
  BY <1>2, LookupIsNumber, BaseIsNumber
<1> QED BY <1>2, <1>3, <1>4, ValueIsNumber DEF ValueOf

(* A pass over a relocation table keeps the types.                         *)
LEMMA PassTypes ==
  ASSUME TypeOK, NEW table \in SUBSET Entries, NEW i \in DOMAIN placed, ProcessTable(table, i),
         image' = image
  PROVE  /\ applied' \in [Entries' -> Nat]
         /\ \A k \in Entries' : image'.rela[k].type \notin {"ABS32", "PREL31"} =>
              field'[k] \in 0 .. FieldSize[image'.rela[k].type] - 1
         /\ reported' \subseteq Entries' \X {"unresolved", "overflow"}
<1> DEFINE run == RunOfEntries(table, i)
           written == {k \in run : Resolved(k)}
           overflown == {k \in written : RelOverflow(image.rela[k].type, ValueOf(k, i))}
<1>1. /\ field' = [k \in Entries |->
              IF k \in written THEN FieldOf(image.rela[k].type, ValueOf(k, i)) ELSE field[k]]
      /\ applied' = [k \in Entries |-> IF k \in written THEN applied[k] + 1 ELSE applied[k]]
      /\ reported' = reported \cup {<< k, "unresolved" >> : k \in run \ written}
                              \cup {<< k, "overflow" >> : k \in overflown}
  BY DEF ProcessTable
<1>2. run \subseteq Entries /\ overflown \subseteq Entries
  BY DEF RunOfEntries
<1> HIDE DEF run
<1>3. applied' \in [Entries -> Nat]
  BY <1>1 DEF TypeOK
<1>4. reported' \subseteq Entries \X {"unresolved", "overflow"}
  BY <1>1, <1>2 DEF TypeOK
<1>5. ASSUME NEW k \in Entries, image.rela[k].type \notin {"ABS32", "PREL31"}
      PROVE  field'[k] \in 0 .. FieldSize[image.rela[k].type] - 1
  <2>1. ValueOf(k, i) \in Int /\ image.rela[k].type \in RelocType
    BY EntryValue, FileFacts DEF TypeOK
  <2>2. FieldOf(image.rela[k].type, ValueOf(k, i)) \in 0 .. FieldSize[image.rela[k].type] - 1
    BY <1>5, <2>1, FieldFits
  <2>3. field[k] \in 0 .. FieldSize[image.rela[k].type] - 1
    BY <1>5 DEF TypeOK
  <2> QED BY <1>1, <2>2, <2>3
<1>6. Entries' = Entries
  BY DEF Entries
<1> QED BY <1>3, <1>4, <1>5, <1>6

(* The move of the dynamic tags keeps the types.                           *)
LEMMA TagTypes ==
  ASSUME TypeOK, InOrder, MoveTags
  PROVE  tags' \in Seq(Nat) /\ DOMAIN tags' = DOMAIN tags
<1> DEFINE lost == {n \in DOMAIN tags : SectionOf(tags[n]) = {}}
           before(n) == \A l \in lost : n < l
           moved(n) == IF before(n) THEN NewTag(tags[n]) ELSE tags[n]
<1>1. /\ tags' = [n \in DOMAIN tags |-> moved(n)]
      /\ Len(placed) = Len(image.segs)
  BY DEF MoveTags
<1>2. tags \in Seq(Nat) /\ DOMAIN tags = 1 .. Len(tags) /\ Len(tags) \in Nat
  BY LenProperties DEF TypeOK
<1>3. ASSUME NEW n \in DOMAIN tags PROVE moved(n) \in Nat
  <2>1. tags[n] \in Nat
    BY <1>2, ElementOfSeq
  <2>2. CASE before(n)
    <3>1. SectionOf(tags[n]) # {}
      <4>1. ASSUME n \in lost PROVE FALSE
        <5>1. n < n
          BY <2>2, <4>1
        <5> QED BY <1>2, <5>1
      <4> QED BY <4>1
    <3>2. SectionOf(tags[n]) = PlacedIn(tags[n])
      BY <1>1, PlacedOnes, FileFacts DEF PlacedFacts, SectionOf, PlacedIn, TypeOK
    <3>3. NewAddress(tags[n]) \in Nat
      BY <2>1, <3>1, <3>2, FirstSection
    <3> HIDE DEF lost
    <3> QED BY <2>2, <3>3 DEF NewTag
  <2> HIDE DEF before
  <2> QED BY <2>1, <2>2
<1> HIDE DEF moved
<1>4. [n \in 1 .. Len(tags) |-> moved(n)] \in [1 .. Len(tags) -> Nat]
  BY <1>2, <1>3
<1>5. tags' \in [1 .. Len(tags) -> Nat]
  BY <1>1, <1>2, <1>4
<1>6. tags' \in Seq(Nat)
  BY <1>2, <1>5, SeqDef
<1> QED BY <1>1, <1>6

(* The stages follow one another, and every step keeps the types.          *)
LEMMA TypesNext == TypeOK /\ InOrder /\ [Next]_vars => TypeOK' /\ InOrder'
<1> SUFFICES ASSUME TypeOK, InOrder, [Next]_vars PROVE TypeOK' /\ InOrder'
  OBVIOUS
<1> DEFINE Tables == << placed, entry, entry_due, phdr, symtab, gsymtab >>
<1>1. ASSUME NEW address \in Addresses, PlaceSegment(address) PROVE TypeOK' /\ InOrder'
  BY <1>1, PlacingTypes
<1>2. CASE FailPlacement
  BY <1>2 DEF FailPlacement, placement, relocation, TypeOK, InOrder, Globals, Entries
<1>3. CASE MoveTags
  <2>1. tags' \in Seq(Nat)
    BY <1>3, TagTypes
  <2>2. /\ UNCHANGED << image, Tables, turn, field, applied, reported >>
        /\ pc = "place" /\ pc' \in {"plt", "failed"} /\ Len(placed) = Len(image.segs)
    BY <1>3 DEF MoveTags, placement, relocation
  <2> QED BY <2>1, <2>2 DEF TypeOK, InOrder, Globals, Entries
<1>4. CASE RelocatePlt
  <2>1. /\ UNCHANGED << image, Tables, tags, turn >> /\ pc = "plt" /\ pc' = "got"
    BY <1>4 DEF RelocatePlt, placement
  <2>2. CASE PltEntries # {} /\ PltSegment # {}
    <3>1. ProcessTable(PltEntries, Min(PltSegment))
      BY <1>4, <2>2 DEF RelocatePlt
    <3>2. PltEntries \in SUBSET Entries /\ PltSegment \subseteq Segments
      BY DEF PltEntries, PltSegment
    <3>3. Min(PltSegment) \in DOMAIN placed
      <4>1. PltSegment \in SUBSET Nat
        BY <3>2, FileFacts DEF TypeOK
      <4>2. Min(PltSegment) \in Segments
        BY <2>2, <3>2, <4>1, FirstOfPlaces
      <4> QED BY <2>1, <4>2, PlacedOnes, FileFacts DEF PlacedFacts, InOrder, TypeOK
    <3> QED BY <2>1, <3>1, <3>2, <3>3, PassTypes DEF TypeOK, InOrder, Globals
  <2>3. CASE UNCHANGED << field, applied, reported >>
    BY <2>1, <2>3 DEF TypeOK, InOrder, Globals, Entries
  <2> QED BY <1>4, <2>2, <2>3 DEF RelocatePlt, relocation
<1>5. CASE RelocateSegment
  <2>1. /\ UNCHANGED << image, Tables, tags, pc >> /\ turn' = turn + 1
        /\ pc = "got" /\ turn \in Segments
    BY <1>5 DEF RelocateSegment, placement
  <2>2. turn' \in 1 .. Len(image.segs) + 1 /\ turn \in DOMAIN placed
    BY <2>1, PlacedOnes, FileFacts DEF PlacedFacts, InOrder, TypeOK
  <2>3. CASE image.segs[turn].filled
    <3>1. ProcessTable(GotEntries, turn) /\ GotEntries \in SUBSET Entries
      BY <1>5, <2>3 DEF RelocateSegment, GotEntries
    <3> QED BY <2>1, <2>2, <3>1, PassTypes DEF TypeOK, InOrder, Globals
  <2>4. CASE UNCHANGED << field, applied, reported >>
    BY <2>1, <2>2, <2>4 DEF TypeOK, InOrder, Globals, Entries
  <2> QED BY <1>5, <2>3, <2>4 DEF RelocateSegment, relocation
<1>6. CASE Finish
  <2>1. /\ UNCHANGED << image, Tables, tags, turn, field, applied, reported >>
        /\ pc = "got" /\ pc' = "done" /\ turn \notin Segments
    BY <1>6 DEF Finish, placement, relocation
  <2>2. turn = Len(image.segs) + 1
    <3>1. PICK n \in Nat : n = Len(image.segs) /\ Segments = 1 .. n
      BY FileFacts DEF TypeOK
    <3>2. turn \in 1 .. n + 1 /\ ~(turn \in 1 .. n)
      BY <2>1, <3>1 DEF TypeOK
    <3>3. turn = n + 1
      BY <3>2
    <3> QED BY <3>1, <3>3
  <2>3. TypeOK'
    BY <2>1 DEF TypeOK, Globals, Entries
  <2>4. InOrder'
    BY <2>1, <2>2 DEF InOrder
  <2> QED BY <2>3, <2>4
<1>7. CASE UNCHANGED vars
  BY <1>7 DEF vars, placement, relocation, TypeOK, InOrder, Globals, Entries
<1> QED BY <1>1, <1>2, <1>3, <1>4, <1>5, <1>6, <1>7 DEF Next

(* The loader starts with the file as the linker left it.                  *)
LEMMA TypesInit == Init => TypeOK /\ InOrder
<1> SUFFICES ASSUME Init PROVE TypeOK /\ InOrder
  OBVIOUS
<1>1. /\ image \in Images /\ placed = << >> /\ entry = image.entry /\ entry_due = TRUE
      /\ phdr = image.phdr /\ tags = image.tags /\ pc = "place" /\ turn = 1 /\ reported = {}
  BY DEF Init
<1>2. /\ symtab = [j \in DOMAIN image.symtab |->
             [def |-> image.symtab[j].def, value |-> image.symtab[j].value, moved |-> FALSE]]
      /\ gsymtab = [j \in Globals |-> image.symtab[j].value]
      /\ field = [k \in Entries |-> 0] /\ applied = [k \in Entries |-> 0]
  BY DEF Init
<1>3. /\ Len(image.segs) \in Nat /\ image.entry \in Nat
      /\ image.phdr \in Seq(Nat) /\ image.tags \in Seq(Nat) /\ Globals \subseteq DOMAIN image.symtab
      /\ \A j \in DOMAIN image.symtab :
           image.symtab[j].value \in Nat /\ image.symtab[j].def \in BOOLEAN
      /\ \A k \in Entries : image.rela[k].type \in RelocType
  BY <1>1, FileFacts
<1>4. placed \in Seq(Addresses) /\ Len(placed) <= Len(image.segs)
  BY <1>1, <1>3, EmptySeq
<1>5. /\ symtab \in [DOMAIN image.symtab -> [def : BOOLEAN, value : Nat, moved : BOOLEAN]]
      /\ gsymtab \in [Globals -> Nat] /\ applied \in [Entries -> Nat]
  BY <1>2, <1>3
<1>6. \A k \in Entries : image.rela[k].type \notin {"ABS32", "PREL31"} =>
        field[k] \in 0 .. FieldSize[image.rela[k].type] - 1
  BY <1>2, <1>3, FieldFits
<1> QED BY <1>1, <1>3, <1>4, <1>5, <1>6 DEF TypeOK, InOrder

(* Every table keeps its shape and every field its width, for any files and *)
(* any placement (dload.c:693-821, c60_reloc.c:85-298, 747-1048).          *)
THEOREM RelocationTypes == Spec => []TypeOK
BY TypesInit, TypesNext, PTL DEF Spec

-----------------------------------------------------------------------------
(* Symbols, their public copies and the entry point are where their segment *)
(* went, and the marks say which of them moved; the section addresses      *)
(* follow when all segments are placed.                                    *)
SymbolsMoved ==
  \A j \in DOMAIN image.symtab :
    /\ symtab[j].value = NowAt(image.symtab[j].value)
    /\ symtab[j].moved <=> PlacedIn(image.symtab[j].value) # {}
    /\ symtab[j].def <=> image.symtab[j].def \/ symtab[j].moved

(* The public copies of the global symbols are up to date.                 *)
CopiesFollow == \A j \in Globals : gsymtab[j] = symtab[j].value

(* So is the entry point, and it is due as long as its segment is not placed. *)
EntryMoved ==
  /\ entry = NowAt(image.entry)
  /\ entry_due <=> PlacedIn(image.entry) = {}

(* The dynamic table is as linked, and as placed once it was moved.          *)
TagsMoved ==
  /\ pc = "place" => tags = image.tags
  /\ pc \in {"plt", "got", "done"} =>
       \A n \in DOMAIN tags :
         SectionOf(image.tags[n]) # {} /\ tags[n] = NewAddress(image.tags[n])

(* The invariant of the placement.                                         *)
Moves == SymbolsMoved /\ CopiesFollow /\ EntryMoved /\ TagsMoved

(* The next segment takes its symbols and the entry point along.            *)
LEMMA PlacingKeepsMoves ==
  ASSUME TypeOK, Moves, NEW address \in Addresses, PlaceSegment(address)
  PROVE  Moves'
<1> DEFINE i == Len(placed) + 1
           offset == address - image.segs[i].vaddr
<1>1. /\ image' = image /\ tags' = tags /\ pc' = "place" /\ pc = "place"
      /\ Globals' = Globals
  BY DEF PlaceSegment, Globals
<1>2. ASSUME NEW a \in Nat
      PROVE  /\ (PlacedIn(a)' = {}) <=> (PlacedIn(a) = {} /\ ~LinkedIn(a, i))
             /\ NowAt(a)' = IF PlacedIn(a) = {} /\ LinkedIn(a, i) THEN a + offset ELSE NowAt(a)
             /\ PlacedIn(a) = {} => NowAt(a) = a
  BY PlacingMoves DEF NowAt
<1>3. /\ image.entry \in Nat /\ Globals \subseteq DOMAIN image.symtab
      /\ \A j \in DOMAIN image.symtab : image.symtab[j].value \in Nat
      /\ DOMAIN symtab = DOMAIN image.symtab
  BY FileFacts DEF TypeOK
<1>4. /\ entry' = IF MovesEntry(i) THEN entry + offset ELSE entry
      /\ entry_due' = (entry_due /\ ~MovesEntry(i))
      /\ symtab' = [j \in DOMAIN symtab |->
           IF MovesSymbol(j, i)
             THEN [def |-> TRUE, value |-> symtab[j].value + offset, moved |-> TRUE]
             ELSE symtab[j]]
      /\ gsymtab' = [j \in Globals |->
           IF MovesSymbol(j, i) THEN symtab[j].value + offset ELSE gsymtab[j]]
  BY DEF PlaceSegment
<1> HIDE DEF i, offset
<1>5. EntryMoved'
  <2>1. PICK a \in Nat : /\ a = image.entry
                         /\ entry = NowAt(a) /\ (entry_due <=> PlacedIn(a) = {})
    BY <1>3 DEF Moves, EntryMoved
  <2>2. MovesEntry(i) <=> PlacedIn(a) = {} /\ LinkedIn(a, i)
    BY <1>2, <2>1 DEF MovesEntry
  <2>3. entry' = NowAt(a)' /\ (entry_due' <=> PlacedIn(a)' = {})
    BY <1>2, <1>4, <2>1, <2>2
  <2>4. image'.entry = a
    BY <1>1, <2>1
  <2> QED BY <2>3, <2>4 DEF EntryMoved
<1>6. SymbolsMoved'
  <2>1. ASSUME NEW j \in DOMAIN image.symtab
        PROVE  /\ symtab'[j].value = NowAt(image.symtab[j].value)'
               /\ symtab'[j].moved <=> PlacedIn(image.symtab[j].value)' # {}
               /\ symtab'[j].def <=> image.symtab[j].def \/ symtab'[j].moved
    <3>1. PICK a \in Nat :
          /\ a = image.symtab[j].value /\ symtab[j].value = NowAt(a) /\ (symtab[j].moved <=> PlacedIn(a) # {})
          /\ symtab[j].def <=> image.symtab[j].def \/ symtab[j].moved
      BY <1>3 DEF Moves, SymbolsMoved
    <3>0. image'.symtab[j].value = a
      BY <1>1, <3>1
    <3>2. MovesSymbol(j, i) <=> PlacedIn(a) = {} /\ LinkedIn(a, i)
      BY <1>2, <3>1 DEF MovesSymbol
    <3>3. symtab'[j] = IF MovesSymbol(j, i)
             THEN [def |-> TRUE, value |-> symtab[j].value + offset, moved |-> TRUE]
             ELSE symtab[j]
      BY <1>3, <1>4
    <3>4. CASE MovesSymbol(j, i)
      <4>1. symtab'[j].value = a + offset /\ symtab'[j].moved /\ symtab'[j].def
        BY <1>2, <3>1, <3>2, <3>3, <3>4
      <4>2. NowAt(a)' = a + offset /\ PlacedIn(a)' # {}
        BY <1>2, <3>1, <3>2, <3>4
      <4> QED BY <1>1, <3>0, <4>1, <4>2
    <3>5. CASE ~MovesSymbol(j, i)
      <4>1. symtab'[j] = symtab[j]
        BY <3>3, <3>5
      <4>2. NowAt(a)' = NowAt(a) /\ ((PlacedIn(a)' = {}) <=> (PlacedIn(a) = {}))
        BY <1>2, <3>1, <3>2, <3>5
      <4> QED BY <1>1, <3>0, <3>1, <4>1, <4>2
    <3> QED BY <3>4, <3>5
  <2> QED BY <1>1, <2>1 DEF SymbolsMoved
<1>7. CopiesFollow'
  <2>1. ASSUME NEW j \in Globals PROVE gsymtab'[j] = symtab'[j].value
    <3>1. gsymtab[j] = symtab[j].value /\ j \in DOMAIN symtab
      BY <1>3 DEF Moves, CopiesFollow
    <3> QED BY <1>4, <3>1
  <2> QED BY <1>1, <2>1 DEF CopiesFollow
<1>8. TagsMoved'
  BY <1>1 DEF Moves, TagsMoved
<1> QED BY <1>5, <1>6, <1>7, <1>8 DEF Moves

(* A step that places nothing moves nothing.                               *)
LEMMA NothingPlaced ==
  ASSUME UNCHANGED << image, placed, symtab, gsymtab, entry, entry_due >>,
         SymbolsMoved, CopiesFollow, EntryMoved
  PROVE  SymbolsMoved' /\ CopiesFollow' /\ EntryMoved'
<1>1. ASSUME NEW a PROVE PlacedIn(a)' = PlacedIn(a) /\ NewAddress(a)' = NewAddress(a)
  BY SectionsStay DEF PlacedIn, NewAddress
<1>2. Globals' = Globals
  BY DEF Globals
<1>3. SymbolsMoved'
  BY <1>1 DEF SymbolsMoved, NowAt
<1>4. EntryMoved'
  BY <1>1 DEF EntryMoved, NowAt
<1> QED BY <1>2, <1>3, <1>4 DEF CopiesFollow

(* The section addresses of a file that loads move with their sections.     *)
LEMMA TagsFollow ==
  ASSUME TypeOK, InOrder, Moves, MoveTags
  PROVE  TagsMoved'
<1> DEFINE lost == {n \in DOMAIN tags : SectionOf(tags[n]) = {}}
<1>1. /\ pc = "place" /\ image' = image /\ placed' = placed
      /\ tags' = [n \in DOMAIN tags |->
                    IF \A l \in lost : n < l THEN NewTag(tags[n]) ELSE tags[n]]
      /\ pc' = IF lost = {} THEN "plt" ELSE "failed"
  BY DEF MoveTags
<1>2. tags = image.tags
  BY <1>1 DEF Moves, TagsMoved
<1>3. \A a : SectionOf(a)' = SectionOf(a) /\ NewAddress(a)' = NewAddress(a)
  BY <1>1, SectionsStay DEF NewAddress
<1>4. CASE lost = {}
  <2>1. \A n \in DOMAIN tags : SectionOf(tags[n]) # {} /\ tags'[n] = NewAddress(tags[n])
    BY <1>1, <1>4 DEF NewTag
  <2>2. DOMAIN tags' = DOMAIN tags /\ pc' = "plt"
    BY <1>1, <1>4
  <2> QED BY <1>1, <1>2, <1>3, <2>1, <2>2 DEF TagsMoved
<1>5. CASE lost # {}
  <2> HIDE DEF lost
  <2> QED BY <1>1, <1>5 DEF TagsMoved
<1> QED BY <1>4, <1>5

(* Every step keeps things with their segments.                            *)
LEMMA MovesNext == TypeOK /\ InOrder /\ Moves /\ [Next]_vars => Moves'
<1> SUFFICES ASSUME TypeOK, InOrder, Moves, [Next]_vars PROVE Moves'
  OBVIOUS
<1> DEFINE Tables == << image, placed, symtab, gsymtab, entry, entry_due >>
<1>1. ASSUME NEW address \in Addresses, PlaceSegment(address) PROVE Moves'
  BY <1>1, PlacingKeepsMoves
<1>2. CASE MoveTags
  <2>1. UNCHANGED Tables
    BY <1>2 DEF MoveTags, placement
  <2> QED BY <1>2, <2>1, NothingPlaced, TagsFollow DEF Moves
<1>3. CASE UNCHANGED Tables /\ tags' = tags /\ (pc' \in {"got", "done"} => pc \in {"plt", "got"})
           /\ pc' # "plt" /\ pc' # "place"
  <2>1. TagsMoved'
    <3>1. \A a : SectionOf(a)' = SectionOf(a) /\ NewAddress(a)' = NewAddress(a)
      BY <1>3, SectionsStay DEF NewAddress
    <3> QED BY <1>3, <3>1 DEF TagsMoved, Moves
  <2> QED BY <1>3, <2>1, NothingPlaced DEF Moves
<1>4. CASE UNCHANGED << Tables, tags, pc >>
  <2>1. TagsMoved'
    <3>1. \A a : SectionOf(a)' = SectionOf(a) /\ NewAddress(a)' = NewAddress(a)
      BY <1>4, SectionsStay DEF NewAddress
    <3> QED BY <1>4, <3>1 DEF TagsMoved, Moves
  <2> QED BY <1>4, <2>1, NothingPlaced DEF Moves
<1>5. CASE FailPlacement
  BY <1>3, <1>5 DEF FailPlacement, placement
<1>6. CASE RelocatePlt
  BY <1>3, <1>6 DEF RelocatePlt, placement
<1>7. CASE RelocateSegment
  BY <1>4, <1>7 DEF RelocateSegment, placement
<1>8. CASE Finish
  BY <1>3, <1>8 DEF Finish, placement
<1>9. CASE UNCHANGED vars
  BY <1>4, <1>9 DEF vars, placement
<1> QED BY <1>1, <1>2, <1>5, <1>6, <1>7, <1>8, <1>9 DEF Next

(* Nothing is placed at first.                                             *)
LEMMA MovesInit == Init => Moves
<1> SUFFICES ASSUME Init PROVE Moves
  OBVIOUS
<1>1. \A a : PlacedIn(a) = {} /\ NowAt(a) = a
  <2>1. DOMAIN placed = {}
    BY DEF Init
  <2> QED BY <2>1 DEF PlacedIn, NowAt
<1>2. Globals \subseteq DOMAIN image.symtab
  BY FileFacts DEF Init
<1> QED BY <1>1, <1>2 DEF Init, Moves, SymbolsMoved, CopiesFollow, EntryMoved, TagsMoved

(* A symbol, its public copy, the entry point and, once the file is        *)
(* placed, every section address move exactly once and with their own      *)
(* segment, whatever segments a file has and wherever they are put, also   *)
(* where other segments were linked (dload.c:511-814).                     *)
THEOREM EverythingMoves == Spec => []MoveWithSegment
<1>1. TypeOK /\ InOrder /\ Moves => MoveWithSegment
  <2> SUFFICES ASSUME TypeOK, InOrder, Moves PROVE MoveWithSegment
    OBVIOUS
  <2>1. DOMAIN symtab = DOMAIN image.symtab
    BY DEF TypeOK
  <2>2. \A j \in DOMAIN symtab : image.symtab[j].def => MovesWith(image.symtab[j].value, symtab[j].value)
    BY <2>1 DEF Moves, SymbolsMoved, MovesWith, NowAt
  <2>3. MovesWith(image.entry, entry)
    BY DEF Moves, EntryMoved, MovesWith, NowAt
  <2>4. ASSUME pc \in {"plt", "got", "done"}, NEW n \in DOMAIN tags
        PROVE  PlacedIn(image.tags[n]) # {} /\ tags[n] = NewAddress(image.tags[n])
    <3>1. SectionOf(image.tags[n]) # {} /\ tags[n] = NewAddress(image.tags[n])
      BY <2>4 DEF Moves, TagsMoved
    <3>2. DOMAIN placed = Segments
      BY <2>4, PlacedOnes, FileFacts DEF PlacedFacts, InOrder, TypeOK
    <3> QED BY <3>1, <3>2 DEF SectionOf, PlacedIn
  <2> QED BY <2>2, <2>3, <2>4 DEF MoveWithSegment, Moves, CopiesFollow
<1> QED BY <1>1, TypesInit, TypesNext, MovesInit, MovesNext, PTL DEF Spec

-----------------------------------------------------------------------------
(* The segment an entry is in, and the value that is written for it.        *)
HomeOf(k) == Min(SectionOf(image.rela[k].offset))

(* The value reloc_do computes there.                                      *)
Value(k) == ValueOf(k, HomeOf(k))

(* The entries the loader has been at so far.                              *)
Visited(k) ==
  IF k \in PltEntries
    THEN /\ pc \in {"got", "done"} /\ PltSegment # {}
         /\ k \in RunOfEntries(PltEntries, Min(PltSegment))
    ELSE \E i \in Segments : /\ i < turn /\ image.segs[i].filled
                             /\ k \in RunOfEntries(GotEntries, i)

(* Each of them was written once with its value, or its symbol reported.    *)
Relocated ==
  \A k \in Entries :
    /\ applied[k] = IF Visited(k) /\ Resolved(k) THEN 1 ELSE 0
    /\ << k, "unresolved" >> \in reported <=> (Visited(k) /\ ~Resolved(k))
    /\ << k, "overflow" >> \in reported <=>
         (Visited(k) /\ Resolved(k) /\ RelOverflow(image.rela[k].type, Value(k)))
    /\ (Visited(k) /\ Resolved(k)) => field[k] = FieldOf(image.rela[k].type, Value(k))

(* Segments are apart: an entry is in one at most.                         *)
LEMMA OneHome ==
  ASSUME image \in Images, NEW k \in Entries, NEW i \in Segments, OfSegment(k, i)
  PROVE  i = HomeOf(k)
<1> DEFINE a == image.rela[k].offset
           m == Min(SectionOf(a))
<1>1. /\ a \in Nat /\ Segments \subseteq Nat
      /\ \A s \in Segments : image.segs[s].vaddr \in Nat /\ image.segs[s].memsz \in Nat
  BY FileFacts
<1>2. i \in SectionOf(a) /\ SectionOf(a) \in SUBSET Nat
  BY <1>1 DEF SectionOf, OfSegment
<1>3. m \in SectionOf(a)
  <2> HIDE DEF a
  <2> QED BY <1>2, FirstOfPlaces
<1> HIDE DEF m
<1>4. m \in Segments /\ LinkedIn(a, m) /\ LinkedIn(a, i)
  BY <1>2, <1>3 DEF SectionOf
<1>5. \/ i = m
      \/ image.segs[i].vaddr + image.segs[i].memsz <= image.segs[m].vaddr
      \/ image.segs[m].vaddr + image.segs[m].memsz <= image.segs[i].vaddr
  BY <1>4, RelocationAssumption DEF WellLinked, Segments
<1>6. i = m
  <2>1. /\ image.segs[i].vaddr <= a /\ a < image.segs[i].vaddr + image.segs[i].memsz
        /\ image.segs[m].vaddr <= a /\ a < image.segs[m].vaddr + image.segs[m].memsz
    BY <1>4 DEF LinkedIn, Within
  <2> HIDE DEF a
  <2> QED BY <1>1, <1>4, <1>5, <2>1
<1> QED BY <1>6 DEF m, HomeOf

(* What lookup and placement say does not change while segments are        *)
(* relocated.                                                              *)
LEMMA ValuesStay ==
  ASSUME UNCHANGED << image, placed, symtab >>, NEW k
  PROVE  Resolved(k)' = Resolved(k) /\ Value(k)' = Value(k)
<1>1. \A name : GlobalLookup(name)' = GlobalLookup(name)
  BY DEF GlobalLookup
<1>2. \A j : CanonicalLookup(j)' = CanonicalLookup(j)
  BY <1>1 DEF CanonicalLookup
<1>3. StaticBase' = StaticBase
  BY DEF StaticBase, StaticBaseSymbols
<1>4. HomeOf(k)' = HomeOf(k)
  BY DEF HomeOf, SectionOf, Segments, LinkedIn
<1>5. \A i : HostAddress(k, i)' = HostAddress(k, i)
  BY DEF HostAddress
<1> QED BY <1>2, <1>3, <1>4, <1>5 DEF Resolved, Value, ValueOf

(* The tables and the segments of a file do not change.                     *)
LEMMA TablesStay ==
  ASSUME image' = image
  PROVE  /\ Entries' = Entries /\ Segments' = Segments
         /\ PltEntries' = PltEntries /\ GotEntries' = GotEntries /\ PltSegment' = PltSegment
         /\ \A k, i : OfSegment(k, i)' = OfSegment(k, i)
         /\ \A i : RunOfEntries(PltEntries, i)' = RunOfEntries(PltEntries, i)
         /\ \A i : RunOfEntries(GotEntries, i)' = RunOfEntries(GotEntries, i)
<1>1. Entries' = Entries /\ Segments' = Segments
  BY DEF Entries, Segments
<1>2. \A k, i : OfSegment(k, i)' = OfSegment(k, i)
  BY DEF OfSegment, LinkedIn
<1>3. PltEntries' = PltEntries /\ GotEntries' = GotEntries
  BY <1>1 DEF PltEntries, GotEntries
<1>4. PltSegment' = PltSegment
  BY <1>1, <1>2, <1>3 DEF PltSegment
<1> QED BY <1>1, <1>2, <1>3, <1>4 DEF RunOfEntries

(* A pass over entries none of which was visited before.                   *)
LEMMA PassRelocates ==
  ASSUME TypeOK, Relocated, NEW table \in SUBSET Entries, NEW i \in Segments,
         ProcessTable(table, i), UNCHANGED << image, placed, symtab >>,
         \A k \in Entries : Visited(k)' <=> (Visited(k) \/ k \in RunOfEntries(table, i)),
         \A k \in RunOfEntries(table, i) : ~Visited(k)
  PROVE  Relocated'
<1> DEFINE run == RunOfEntries(table, i)
           written == {k \in run : Resolved(k)}
           overflown == {k \in written : RelOverflow(image.rela[k].type, ValueOf(k, i))}
<1>1. /\ field' = [k \in Entries |->
              IF k \in written THEN FieldOf(image.rela[k].type, ValueOf(k, i)) ELSE field[k]]
      /\ applied' = [k \in Entries |-> IF k \in written THEN applied[k] + 1 ELSE applied[k]]
      /\ reported' = reported \cup {<< k, "unresolved" >> : k \in run \ written}
                              \cup {<< k, "overflow" >> : k \in overflown}
  BY DEF ProcessTable
<1>2. /\ \A k \in Entries : Visited(k)' <=> (Visited(k) \/ k \in run)
      /\ \A k \in run : ~Visited(k)
  OBVIOUS
<1>3. run \subseteq Entries /\ \A k \in run : OfSegment(k, i)
  BY DEF RunOfEntries
<1>4. \A k \in run : ValueOf(k, i) = Value(k)
  BY <1>3, OneHome DEF Value, TypeOK
<1> HIDE DEF run
<1>5. ASSUME NEW k \in Entries
      PROVE  /\ applied'[k] = IF Visited(k)' /\ Resolved(k)' THEN 1 ELSE 0
             /\ << k, "unresolved" >> \in reported' <=> (Visited(k)' /\ ~Resolved(k)')
             /\ << k, "overflow" >> \in reported' <=>
                  (Visited(k)' /\ Resolved(k)' /\ RelOverflow(image.rela[k].type, Value(k)'))
             /\ (Visited(k)' /\ Resolved(k)')
                  => field'[k] = FieldOf(image.rela[k].type, Value(k)')
  <2>1. Resolved(k)' = Resolved(k) /\ Value(k)' = Value(k)
    BY ValuesStay
  <2>2. /\ applied[k] = IF Visited(k) /\ Resolved(k) THEN 1 ELSE 0
        /\ << k, "unresolved" >> \in reported <=> (Visited(k) /\ ~Resolved(k))
        /\ << k, "overflow" >> \in reported <=>
             (Visited(k) /\ Resolved(k) /\ RelOverflow(image.rela[k].type, Value(k)))
        /\ (Visited(k) /\ Resolved(k)) => field[k] = FieldOf(image.rela[k].type, Value(k))
    BY DEF Relocated
  <2>3. /\ << k, "unresolved" >> \in reported' <=>
             (<< k, "unresolved" >> \in reported \/ k \in run \ written)
        /\ << k, "overflow" >> \in reported' <=>
             (<< k, "overflow" >> \in reported \/ k \in overflown)
    <3> HIDE DEF written, overflown
    <3> QED BY <1>1
  <2>4. CASE k \in run
    <3>1. ~Visited(k) /\ Visited(k)' /\ ValueOf(k, i) = Value(k)
      BY <1>2, <1>4, <2>4
    <3>2. CASE Resolved(k)
      <4>1. applied'[k] = 1 /\ field'[k] = FieldOf(image.rela[k].type, Value(k))
        BY <1>1, <2>2, <2>4, <3>1, <3>2
      <4> QED BY <2>1, <2>2, <2>3, <2>4, <3>1, <3>2, <4>1
    <3>3. CASE ~Resolved(k)
      <4>1. applied'[k] = 0
        BY <1>1, <2>2, <2>4, <3>1, <3>3
      <4> QED BY <2>1, <2>2, <2>3, <2>4, <3>1, <3>3, <4>1
    <3> QED BY <3>2, <3>3
  <2>5. CASE k \notin run
    <3>1. applied'[k] = applied[k] /\ field'[k] = field[k] /\ (Visited(k)' <=> Visited(k))
      BY <1>1, <1>2, <2>5
    <3> QED BY <2>1, <2>2, <2>3, <2>5, <3>1
  <2> QED BY <2>4, <2>5
<1>6. Entries' = Entries /\ image' = image
  BY TablesStay
<1> QED BY <1>5, <1>6 DEF Relocated

(* Nothing is visited before the relocation starts.                        *)
LEMMA NoneVisited ==
  ASSUME image \in Images, pc \in {"place", "plt", "failed"}, turn = 1
  PROVE  \A k \in Entries : ~Visited(k)
<1>1. \A i \in Segments : ~(i < turn)
  BY FileFacts
<1> QED BY <1>1 DEF Visited

(* When the PLTGOT table was processed, or there is nothing to process.     *)
LEMMA PltRelocated ==
  ASSUME TypeOK, InOrder, Relocated, RelocatePlt
  PROVE  Relocated'
<1>1. /\ UNCHANGED << image, placed, symtab, turn >> /\ pc = "plt" /\ pc' = "got"
      /\ image \in Images /\ turn = 1
  BY DEF RelocatePlt, placement, InOrder, TypeOK
<1>2. \A k \in Entries : ~Visited(k)
  BY <1>1, NoneVisited
<1>3. ASSUME NEW k \in Entries
      PROVE  Visited(k)' <=> /\ k \in PltEntries /\ PltSegment # {}
                             /\ k \in RunOfEntries(PltEntries, Min(PltSegment))
  <2>1. CASE k \in PltEntries
    BY <1>1, <2>1, TablesStay DEF Visited
  <2>2. CASE k \notin PltEntries
    BY <1>1, <1>2, <2>2, TablesStay DEF Visited
  <2> QED BY <2>1, <2>2
<1>4. CASE PltEntries # {} /\ PltSegment # {}
  <2> DEFINE i == Min(PltSegment)
  <2>1. ProcessTable(PltEntries, i) /\ PltEntries \in SUBSET Entries
    BY <1>4 DEF RelocatePlt, PltEntries
  <2>2. i \in Segments
    <3>1. PltSegment \subseteq Segments /\ PltSegment \in SUBSET Nat
      BY <1>1, FileFacts DEF PltSegment
    <3> QED BY <1>4, <3>1, FirstOfPlaces
  <2>3. RunOfEntries(PltEntries, i) \subseteq PltEntries
    BY DEF RunOfEntries
  <2> HIDE DEF i
  <2>4. \A k \in Entries : Visited(k)' <=> (Visited(k) \/ k \in RunOfEntries(PltEntries, i))
    BY <1>2, <1>3, <1>4, <2>3 DEF i
  <2>5. \A k \in RunOfEntries(PltEntries, i) : ~Visited(k)
    BY <1>2, <2>1, <2>3
  <2> QED BY <1>1, <2>1, <2>2, <2>4, <2>5, PassRelocates
<1>5. CASE ~(PltEntries # {} /\ PltSegment # {})
  <2>1. UNCHANGED << field, applied, reported >>
    BY <1>5 DEF RelocatePlt, relocation
  <2>2. \A k \in Entries : Visited(k)' <=> Visited(k)
    BY <1>2, <1>3, <1>5
  <2> QED BY <1>1, <2>1, <2>2, ValuesStay, TablesStay DEF Relocated
<1> QED BY <1>4, <1>5

(* When a segment was.                                                     *)
LEMMA SegmentRelocated ==
  ASSUME TypeOK, InOrder, Relocated, RelocateSegment
  PROVE  Relocated'
<1>1. /\ UNCHANGED << image, placed, symtab, pc >> /\ turn' = turn + 1 /\ pc = "got"
      /\ turn \in Segments /\ image \in Images
  BY DEF RelocateSegment, placement, TypeOK
<1>2. ASSUME NEW k \in Entries
      PROVE  Visited(k)' <=> \/ Visited(k)
                             \/ image.segs[turn].filled /\ k \in RunOfEntries(GotEntries, turn)
  <2>1. CASE k \in PltEntries
    <3>1. k \notin RunOfEntries(GotEntries, turn)
      BY <2>1 DEF RunOfEntries, GotEntries
    <3> QED BY <1>1, <2>1, <3>1, TablesStay DEF Visited
  <2>2. CASE k \notin PltEntries
    <3>1. \A i \in Segments : i < turn' <=> (i < turn \/ i = turn)
      BY <1>1, FileFacts
    <3>2. Visited(k)' <=> \E i \in Segments : /\ i < turn' /\ image.segs[i].filled
                                              /\ k \in RunOfEntries(GotEntries, i)
      BY <1>1, <2>2, TablesStay DEF Visited
    <3> QED BY <1>1, <2>2, <3>1, <3>2 DEF Visited
  <2> QED BY <2>1, <2>2
<1>3. \A k \in RunOfEntries(GotEntries, turn) : ~Visited(k)
  <2> SUFFICES ASSUME NEW k \in RunOfEntries(GotEntries, turn), Visited(k) PROVE FALSE
    OBVIOUS
  <2>1. k \in GotEntries /\ OfSegment(k, turn) /\ k \in Entries /\ k \notin PltEntries
    BY DEF RunOfEntries, GotEntries
  <2>2. PICK i \in Segments : i < turn /\ OfSegment(k, i)
    BY <2>1 DEF Visited, RunOfEntries
  <2>3. i = turn
    BY <1>1, <2>1, <2>2, OneHome
  <2> QED BY <1>1, <2>2, <2>3, FileFacts
<1>4. CASE image.segs[turn].filled
  <2>1. ProcessTable(GotEntries, turn) /\ GotEntries \in SUBSET Entries
    BY <1>4 DEF RelocateSegment, GotEntries
  <2>2. \A k \in Entries : Visited(k)' <=> (Visited(k) \/ k \in RunOfEntries(GotEntries, turn))
    BY <1>2, <1>4
  <2>3. PICK i \in Segments : i = turn
    BY <1>1
  <2> QED BY <1>1, <1>3, <2>1, <2>2, <2>3, PassRelocates
<1>5. CASE ~image.segs[turn].filled
  <2>1. UNCHANGED << field, applied, reported >>
    BY <1>5 DEF RelocateSegment, relocation
  <2>2. \A k \in Entries : Visited(k)' <=> Visited(k)
    BY <1>2, <1>5
  <2> QED BY <1>1, <2>1, <2>2, ValuesStay, TablesStay DEF Relocated
<1> QED BY <1>4, <1>5

(* Every step keeps it.                                                    *)
LEMMA RelocatedNext == TypeOK /\ InOrder /\ Relocated /\ [Next]_vars => Relocated'
<1> SUFFICES ASSUME TypeOK, InOrder, Relocated, [Next]_vars PROVE Relocated'
  OBVIOUS
<1>1. CASE RelocatePlt
  BY <1>1, PltRelocated
<1>2. CASE RelocateSegment
  BY <1>2, SegmentRelocated
<1>3. CASE /\ UNCHANGED << image, field, applied, reported, turn >>
           /\ pc = "place" /\ pc' \in {"place", "plt", "failed"}
  <2>1. image \in Images /\ turn = 1 /\ image' = image /\ turn' = 1
    BY <1>3 DEF TypeOK, InOrder
  <2>2. \A k \in Entries : ~Visited(k)
    BY <1>3, <2>1, NoneVisited
  <2>3. \A k \in Entries : ~Visited(k)'
    <3>1. \A i \in Segments : ~(i < turn')
      BY <2>1, FileFacts
    <3> QED BY <1>3, <2>1, <3>1, TablesStay DEF Visited
  <2>4. Entries' = Entries
    BY <2>1, TablesStay
  <2> QED BY <1>3, <2>2, <2>3, <2>4 DEF Relocated
<1>4. CASE /\ UNCHANGED << image, placed, symtab, field, applied, reported, turn >>
           /\ pc' = pc \/ (pc = "got" /\ pc' = "done")
  <2>1. \A k \in Entries : Visited(k)' <=> Visited(k)
    BY <1>4, TablesStay DEF Visited
  <2> QED BY <1>4, <2>1, ValuesStay, TablesStay DEF Relocated
<1>5. ASSUME NEW address \in Addresses, PlaceSegment(address) PROVE Relocated'
  BY <1>3, <1>5 DEF PlaceSegment, relocation
<1>6. CASE FailPlacement
  BY <1>3, <1>6 DEF FailPlacement, relocation
<1>7. CASE MoveTags
  BY <1>3, <1>7 DEF MoveTags, relocation
<1>8. CASE Finish
  BY <1>4, <1>8 DEF Finish, placement, relocation
<1>9. CASE UNCHANGED vars
  BY <1>4, <1>9 DEF vars, placement, relocation
<1> QED BY <1>1, <1>2, <1>5, <1>6, <1>7, <1>8, <1>9 DEF Next

(* Nothing is relocated at first.                                          *)
LEMMA RelocatedInit == Init => Relocated
<1> SUFFICES ASSUME Init PROVE Relocated
  OBVIOUS
<1>1. \A k \in Entries : ~Visited(k)
  BY NoneVisited DEF Init
<1> QED BY <1>1 DEF Init, Relocated

(* After a load each entry of a segment with file contents was written     *)
(* once or its symbol reported, however many segments and entries there    *)
(* are, in which order, and in which table (c60_reloc.c:741-1052).         *)
THEOREM EachEntryOnce == Spec => []EveryEntryOnce
<1>1. TypeOK /\ InOrder /\ Relocated => EveryEntryOnce
  <2> SUFFICES ASSUME TypeOK, InOrder, Relocated, pc = "done", Grouped, OneSegmentPlt,
                      NEW k \in Entries, NEW i \in Segments,
                      image.segs[i].filled, OfSegment(k, i)
               PROVE  applied[k] = IF << k, "unresolved" >> \in reported THEN 0 ELSE 1
    BY DEF EveryEntryOnce
  <2>1. image \in Images
    BY DEF TypeOK
  <2>2. Visited(k)
    <3>1. CASE k \in PltEntries
      <4> DEFINE first == Min(PltEntries)
                 home == Min(PltSegment)
      <4>1. first \in PltEntries
        <5>1. PltEntries \in SUBSET Nat
          BY <2>1, FileFacts DEF PltEntries
        <5> QED BY <3>1, <5>1, FirstOfPlaces
      <4>2. i \in PltSegment
        BY <3>1, <4>1 DEF OneSegmentPlt, PltSegment
      <4>3. home \in PltSegment
        <5>1. PltSegment \in SUBSET Nat
          BY <2>1, FileFacts DEF PltSegment
        <5> QED BY <4>2, <5>1, FirstOfPlaces
      <4>4. home \in Segments /\ OfSegment(first, home)
        BY <4>3 DEF PltSegment
      <4> HIDE DEF first, home
      <4>5. \A l \in PltEntries : OfSegment(l, home)
        BY <4>1, <4>4 DEF OneSegmentPlt
      <4>6. k \in RunOfEntries(PltEntries, home)
        BY <3>1, <4>5 DEF RunOfEntries
      <4> QED BY <3>1, <4>2, <4>6 DEF Visited, home
    <3>2. CASE k \notin PltEntries
      <4>1. k \in GotEntries
        BY <3>2 DEF GotEntries
      <4>2. k \in RunOfEntries(GotEntries, i)
        BY <4>1 DEF RunOfEntries, Grouped
      <4>3. i < turn
        BY <2>1, FileFacts DEF InOrder
      <4> QED BY <3>2, <4>2, <4>3 DEF Visited
    <3> QED BY <3>1, <3>2
  <2> QED BY <2>2 DEF Relocated
<1> QED BY <1>1, TypesInit, TypesNext, RelocatedInit, RelocatedNext, PTL DEF Spec

-----------------------------------------------------------------------------
(* The walks over tables that name each symbol once find what the file      *)
(* means: the symbol of the first needed module that has the name.          *)
LEMMA GlobalMeaning ==
  ASSUME image \in Images, NEW name, NEW d, NEW s, FirstDefinition(name, d, s)
  PROVE  GlobalLookup(name).value = NamedFirst(name).value
<1> DEFINE First(e) == /\ Defines(image.needs[e], name) # {}
                       /\ \A f \in 1 .. e - 1 : Defines(image.needs[f], name) = {}
           table == image.needs[d]
           Named(t) == t.def /\ t.name = name
<1>1. image.needs \in Seq(Seq(Symbol)) /\ WellLinked(image)
  BY RelocationAssumption DEF ImageType
<1>2. /\ DOMAIN image.needs = 1 .. Len(image.needs) /\ Len(image.needs) \in Nat
      /\ d \in DOMAIN image.needs /\ d \in Nat /\ s \in Defines(table, name)
      /\ \A e \in DOMAIN image.needs : Defines(image.needs[e], name) # {} => d <= e
      /\ GlobalLookup(name).value = table[s].value
  <2>1. DOMAIN image.needs = 1 .. Len(image.needs) /\ Len(image.needs) \in Nat
    BY <1>1, LenProperties
  <2>2. /\ d \in DOMAIN image.needs /\ d \in Nat /\ s \in Defines(table, name)
        /\ \A e \in DOMAIN image.needs : Defines(image.needs[e], name) # {} => d <= e
    BY DEF FirstDefinition
  <2>3. GlobalLookup(name) = [found |-> TRUE, value |-> table[s].value]
    BY DEF FirstDefinition, Found
  <2>4. GlobalLookup(name).value = table[s].value
    <3> HIDE DEF table
    <3> QED BY <2>3
  <2> QED BY <2>1, <2>2, <2>4
<1>3. First(d)
  <2>1. \A f \in 1 .. d - 1 : f \in DOMAIN image.needs /\ ~(d <= f)
    BY <1>2
  <2> QED BY <1>2, <2>1
<1>4. ASSUME NEW e \in DOMAIN image.needs, First(e) PROVE e = d
  <2>1. Defines(image.needs[e], name) # {} /\ ~(d \in 1 .. e - 1)
    BY <1>2, <1>4
  <2>2. e \in Nat /\ d \in Nat /\ d >= 1
    BY <1>2
  <2>3. d <= e
    BY <1>2, <2>1
  <2> QED BY <2>1, <2>2, <2>3
<1> HIDE DEF First
<1>5. (CHOOSE e \in DOMAIN image.needs : First(e)) = d
  BY <1>2, <1>3, <1>4
<1>6. /\ s \in DOMAIN table /\ Named(table[s]) /\ table[s] \in ToSet(table)
      /\ \A t \in ToSet(table) : \E a \in DOMAIN table : t = table[a]
  BY <1>2 DEF Defines, ToSet
<1>7. ASSUME NEW t \in ToSet(table), Named(t) PROVE t = table[s]
  <2>1. PICK a \in DOMAIN table : t = table[a]
    BY <1>6
  <2>2. a = s
    BY <1>1, <1>2, <1>6, <1>7, <2>1 DEF WellLinked
  <2> QED BY <2>1, <2>2
<1> HIDE DEF Named, table
<1>8. (CHOOSE t \in ToSet(table) : Named(t)) = table[s]
  BY <1>6, <1>7
<1> QED BY <1>2, <1>5, <1>8 DEF NamedFirst, First, Named, table

(* After a load a lookup that succeeds answers with what the file means.    *)
LEMMA LookupMeans ==
  ASSUME TypeOK, Moves, NEW k \in Entries, Resolved(k), HasMeaning(k)
  PROVE  /\ Means(k) = image.rela[k].addend + CanonicalLookup(image.rela[k].sym).value
         /\ Means(k) \in Int
<1>1. PICK j : j = image.rela[k].sym
  OBVIOUS
<1>2. j \in DOMAIN image.symtab /\ image.rela[k].addend \in Int /\ image \in Images
  BY <1>1, FileFacts DEF TypeOK
<1>3. CASE image.symtab[j].bind = "local" \/ image.symtab[j].vis = "hidden"
  <2>1. CanonicalLookup(j) = Found(symtab[j].value)
    BY <1>1, <1>3 DEF CanonicalLookup, Resolved, NotFound
  <2>2. symtab[j].value = NewAddress(image.symtab[j].value)
    BY <1>1, <1>2, <1>3 DEF HasMeaning, Moves, SymbolsMoved, NowAt
  <2>3. Means(k) = image.rela[k].addend + NewAddress(image.symtab[j].value)
    BY <1>1, <1>3 DEF Means
  <2>4. symtab[j].value \in Nat
    BY <1>2 DEF TypeOK
  <2> QED BY <1>1, <1>2, <2>1, <2>2, <2>3, <2>4 DEF Found
<1>4. CASE ~(image.symtab[j].bind = "local" \/ image.symtab[j].vis = "hidden")
  <2> DEFINE name == image.symtab[j].name
  <2>1. image.symtab[j].vis = "default"
    <3>1. image.symtab \in Seq(Symbol)
      BY <1>2, RelocationAssumption DEF ImageType
    <3>2. image.symtab[j] \in Symbol
      BY <1>2, <3>1, LenProperties, ElementOfSeq
    <3> QED BY <1>4, <3>2 DEF Symbol
  <2>2. CanonicalLookup(j) = GlobalLookup(name)
    BY <1>4, <2>1 DEF CanonicalLookup
  <2>3. PICK d, s : FirstDefinition(name, d, s)
    BY <1>1, <1>2, <2>2, GlobalFirst DEF Resolved, NotFound
  <2>4. Means(k) = image.rela[k].addend + GlobalLookup(name).value
    BY <1>1, <1>2, <1>4, <2>3, GlobalMeaning DEF Means
  <2>5. GlobalLookup(name).value \in Nat
    BY <2>3 DEF FirstDefinition, Found
  <2> QED BY <1>1, <1>2, <2>2, <2>4, <2>5
<1> QED BY <1>3, <1>4

(* The static base the loader finds is the one of the module.              *)
LEMMA BaseMeans ==
  ASSUME TypeOK, Moves, HasBase
  PROVE  StaticBase = BaseOfModule /\ BaseOfModule \in Nat
<1> DEFINE Named(s) == s.name = "__TI_STATIC_BASE"
<1>1. PICK j \in StaticBaseSymbols : PlacedIn(image.symtab[j].value) # {}
  BY DEF HasBase
<1>2. \A i \in StaticBaseSymbols : i \in DOMAIN image.symtab /\ Named(image.symtab[i])
  BY DEF StaticBaseSymbols, TypeOK
<1>3. \A a, b \in DOMAIN image.symtab : Named(image.symtab[a]) /\ Named(image.symtab[b]) => a = b
  BY RelocationAssumption DEF WellLinked, TypeOK
<1>4. StaticBase \in Nat /\ StaticBase = symtab[j].value
  BY <1>1, <1>2, <1>3, BaseIsNumber
<1>5. symtab[j].value = NewAddress(image.symtab[j].value)
  BY <1>1, <1>2 DEF Moves, SymbolsMoved, NowAt
<1>6. image.symtab[j] \in ToSet(image.symtab)
      /\ \A s \in ToSet(image.symtab) : \E a \in DOMAIN image.symtab : s = image.symtab[a]
  BY <1>1, <1>2 DEF ToSet
<1>7. \A s \in ToSet(image.symtab) : Named(s) => s = image.symtab[j]
  BY <1>1, <1>2, <1>3, <1>6
<1>8. Named(image.symtab[j])
  BY <1>1, <1>2
<1> HIDE DEF Named
<1>9. (CHOOSE s \in ToSet(image.symtab) : Named(s)) = image.symtab[j]
  BY <1>6, <1>7, <1>8
<1> QED BY <1>4, <1>5, <1>9 DEF BaseOfModule, Named

(* What was written for an entry is made of the distance the instruction   *)
(* has to bridge, for a client whose buffers are where the segments run.    *)
LEMMA WrittenDistance ==
  ASSUME HostOffset = 0, TypeOK, InOrder, Moves, Relocated, pc = "done",
         NEW k \in Entries, Written(k)
  PROVE  /\ Value(k) \in Int /\ Means(k) \in Int /\ Origin(k) \in Int
         /\ Value(k) = Means(k) - Origin(k)
         /\ field[k] = FieldOf(image.rela[k].type, Value(k))
         /\ << k, "overflow" >> \in reported <=> RelOverflow(image.rela[k].type, Value(k))
<1>1. PICK type, offset, addend, index, symval :
        /\ type = image.rela[k].type /\ offset = image.rela[k].offset
        /\ addend = image.rela[k].addend /\ index = image.dsbt_index
        /\ symval = CanonicalLookup(image.rela[k].sym).value
  OBVIOUS
<1>2. /\ type \in RelocType /\ offset \in Nat /\ addend \in Int /\ index \in Nat /\ symval \in Nat
      /\ image \in Images
  BY <1>1, FileFacts, LookupIsNumber DEF TypeOK
<1>3. Visited(k) /\ Resolved(k)
  <2>1. applied[k] > 0 /\ applied[k] = IF Visited(k) /\ Resolved(k) THEN 1 ELSE 0
    BY DEF Relocated, Written
  <2> QED BY <2>1
<1>4. PICK i \in Segments : OfSegment(k, i)
  <2>1. CASE k \in PltEntries
    <3>1. PltSegment # {} /\ k \in RunOfEntries(PltEntries, Min(PltSegment))
      BY <1>3, <2>1 DEF Visited
    <3>2. PltSegment \in SUBSET Nat /\ PltSegment \subseteq Segments
      BY <1>2, FileFacts DEF PltSegment
    <3>3. Min(PltSegment) \in Segments
      BY <3>1, <3>2, FirstOfPlaces
    <3> QED BY <3>1, <3>3 DEF RunOfEntries
  <2>2. CASE k \notin PltEntries
    BY <1>3, <2>2 DEF Visited, RunOfEntries
  <2> QED BY <2>1, <2>2
<1>5. i = HomeOf(k) /\ i = Min(SectionOf(offset))
  BY <1>1, <1>2, <1>4, OneHome DEF HomeOf
<1>6. i \in DOMAIN placed /\ placed[i] \in Nat /\ image.segs[i].vaddr \in Nat
      /\ image.segs[i].vaddr <= offset
  BY <1>1, <1>2, <1>4, PlacedOnes, FileFacts DEF PlacedFacts, InOrder, OfSegment, LinkedIn, Within
<1>7. PICK place : place = NewAddress(offset)
  OBVIOUS
<1>8. place \in Nat /\ HostAddress(k, i) = place
  <2>1. NewAddress(offset) = offset + placed[i] - image.segs[i].vaddr
    BY <1>5 DEF NewAddress
  <2>2. HostAddress(k, i) = placed[i] + 0 + offset - image.segs[i].vaddr
    BY <1>1 DEF HostAddress
  <2> QED BY <1>2, <1>6, <1>7, <2>1, <2>2
<1>9. Value(k) = RelocValue(type, symval, addend, place, StaticBase, index)
  BY <1>1, <1>5, <1>8 DEF Value, ValueOf
<1>10. Means(k) = addend + symval /\ Means(k) \in Int
  BY <1>1, <1>3, LookupMeans DEF Written
<1>11. FetchPacket(place) \in Int
  BY <1>8 DEF FetchPacket
<1>12. NeedsBase(k) => StaticBase = BaseOfModule /\ BaseOfModule \in Nat
  BY BaseMeans DEF Written
<1>13. Origin(k) \in Int /\ Value(k) = Means(k) - Origin(k)
  <2>1. CASE type \in AbsoluteType
    <3>1. /\ type \in AbsoluteType /\ type \notin BranchType
          /\ type # "PREL31" /\ type \notin BaseType /\ type # "DSBT_INDEX"
      BY <2>1 DEF AbsoluteType, BranchType, BaseType, UnsignedType, LowType, HighType
    <3>2. /\ image.rela[k].type \in AbsoluteType /\ image.rela[k].type \notin BranchType
          /\ image.rela[k].type # "PREL31" /\ image.rela[k].type \notin BaseType
          /\ image.rela[k].type # "DSBT_INDEX"
      BY <1>1, <3>1
    <3>3. Origin(k) = 0
      BY <1>1, <3>2, Zenon DEF Origin
    <3>4. Value(k) = symval + addend
      BY <1>9, <3>1, Zenon DEF RelocValue
    <3> QED BY <1>2, <1>10, <3>3, <3>4
  <2>2. CASE type \in BranchType
    <3>1. /\ type \notin AbsoluteType /\ type \in BranchType
          /\ type # "PREL31" /\ type \notin BaseType /\ type # "DSBT_INDEX"
      BY <2>2 DEF AbsoluteType, BranchType, BaseType, UnsignedType, LowType, HighType
    <3>2. /\ image.rela[k].type \notin AbsoluteType /\ image.rela[k].type \in BranchType
          /\ image.rela[k].type # "PREL31" /\ image.rela[k].type \notin BaseType
          /\ image.rela[k].type # "DSBT_INDEX"
      BY <1>1, <3>1
    <3>3. Origin(k) = FetchPacket(place)
      BY <1>1, <1>7, <3>2, Zenon DEF Origin
    <3>4. Value(k) = symval + addend - FetchPacket(place)
      BY <1>9, <3>1, Zenon DEF RelocValue
    <3> QED BY <1>2, <1>10, <1>11, <3>3, <3>4
  <2>3. CASE type = "PREL31"
    <3>1. /\ type \notin AbsoluteType /\ type \notin BranchType
          /\ type = "PREL31" /\ type \notin BaseType /\ type # "DSBT_INDEX"
      BY <2>3 DEF AbsoluteType, BranchType, BaseType, UnsignedType, LowType, HighType
    <3>2. /\ image.rela[k].type \notin AbsoluteType /\ image.rela[k].type \notin BranchType
          /\ image.rela[k].type = "PREL31" /\ image.rela[k].type \notin BaseType
          /\ image.rela[k].type # "DSBT_INDEX"
      BY <1>1, <3>1
    <3>3. Origin(k) = place
      BY <1>1, <1>7, <3>2, Zenon DEF Origin
    <3>4. Value(k) = symval + addend - place
      BY <1>9, <3>1, Zenon DEF RelocValue
    <3> QED BY <1>2, <1>8, <1>10, <3>3, <3>4
  <2>4. CASE type \in BaseType
    <3>1. /\ type \notin AbsoluteType /\ type \notin BranchType
          /\ type # "PREL31" /\ type \in BaseType /\ type # "DSBT_INDEX"
      BY <2>4 DEF AbsoluteType, BranchType, BaseType, UnsignedType, LowType, HighType
    <3>2. /\ image.rela[k].type \notin AbsoluteType /\ image.rela[k].type \notin BranchType
          /\ image.rela[k].type # "PREL31" /\ image.rela[k].type \in BaseType
          /\ image.rela[k].type # "DSBT_INDEX"
      BY <1>1, <3>1
    <3>3. Origin(k) = BaseOfModule /\ NeedsBase(k)
      BY <1>1, <3>2, Zenon DEF Origin, NeedsBase
    <3>4. Value(k) = symval + addend - StaticBase
      BY <1>9, <3>1, Zenon DEF RelocValue
    <3> QED BY <1>2, <1>10, <1>12, <3>3, <3>4
  <2>5. CASE type = "DSBT_INDEX"
    <3>1. /\ type \notin AbsoluteType /\ type \notin BranchType
          /\ type # "PREL31" /\ type \notin BaseType /\ type = "DSBT_INDEX"
      BY <2>5 DEF AbsoluteType, BranchType, BaseType, UnsignedType, LowType, HighType
    <3>2. /\ image.rela[k].type \notin AbsoluteType /\ image.rela[k].type \notin BranchType
          /\ image.rela[k].type # "PREL31" /\ image.rela[k].type \notin BaseType
          /\ image.rela[k].type = "DSBT_INDEX"
      BY <1>1, <3>1
    <3>3. Origin(k) = BaseOfModule - 4 * index /\ NeedsBase(k)
      BY <1>1, <3>2, Zenon DEF Origin, NeedsBase
    <3>4. Value(k) = symval + addend - StaticBase + 4 * index
      BY <1>9, <3>1, Zenon DEF RelocValue
    <3> QED BY <1>2, <1>10, <1>12, <3>3, <3>4
  <2> QED BY <1>2, <2>1, <2>2, <2>3, <2>4, <2>5 DEF RelocType
<1>14. Value(k) \in Int
  BY <1>10, <1>13
<1> QED BY <1>3, <1>10, <1>13, <1>14 DEF Relocated

(* The types whose value is not range checked have room for a word.        *)
WordSized ==
  pc = "done" => \A k \in Entries :
    Written(k) /\ image.rela[k].type \in LowType \cup {"ABS_L16", "PREL31"} =>
      /\ -2147483648 <= Means(k) - Origin(k)
      /\ Means(k) - Origin(k) < 2147483648

(* What an instruction makes of a field that held the distance.            *)
LEMMA WholeDecodes ==
  ASSUME NEW type \in WholeType, NEW value \in Int, ~RelOverflow(type, value), Aligned(type, value),
         type = "PREL31" => -2147483648 <= value /\ value < 2147483648
  PROVE  Operand(type, FieldOf(type, value)) = value
<1>1. CASE type \in BranchType
  BY <1>1, BranchFieldDecodes
<1>2. CASE type \in {"SBR_S16", "ABS_S16"}
  BY <1>2, SignedFieldDecodes
<1>3. CASE type \in UnsignedType \cup {"DSBT_INDEX"}
  BY <1>3, UnsignedFieldDecodes
<1>4. CASE type = "PREL31"
  BY <1>4, PlaceFieldDecodes
<1>5. CASE type = "ABS32"
  <2>1. FieldOf(type, value) = value
    <3>1. PackShift[type] = 1 /\ value \div 1 = value
      BY <1>5 DEF PackShift
    <3> QED BY <1>5, <3>1 DEF FieldOf
  <2>2. Operand(type, value) = value
    <3>1. Unit(type) = 1
      BY <1>5 DEF Unit, WordType, HalfType, BranchType
    <3>2. Operand(type, value) = 1 * value
      BY <1>5, <3>1 DEF Operand, SignedType, BranchType
    <3> QED BY <3>2
  <2> QED BY <2>1, <2>2
<1> QED BY <1>1, <1>2, <1>3, <1>4, <1>5 DEF WholeType

(* After a load an instruction whose relocation was written without a      *)
(* reported overflow addresses what its symbol names, for every file and   *)
(* every placement, by a client whose buffers are where the segments run   *)
(* and as far as PREL31 distances are words (c60_reloc.c:91-545).          *)
THEOREM InstructionsReach ==
  ASSUME HostOffset = 0
  PROVE  Spec /\ []WordSized => []ReachesTarget
<1>1. TypeOK /\ InOrder /\ Moves /\ Relocated /\ WordSized => ReachesTarget
  <2> SUFFICES ASSUME TypeOK, InOrder, Moves, Relocated, WordSized, pc = "done", NEW k \in Entries,
                      image.rela[k].type \in WholeType, Written(k), << k, "overflow" >> \notin reported,
                      Aligned(image.rela[k].type, Means(k) - Origin(k))
               PROVE  Operand(image.rela[k].type, field[k]) + Origin(k) = Means(k)
    BY DEF ReachesTarget
  <2>1. PICK type, value, means, origin :
          /\ type = image.rela[k].type /\ value = Value(k) /\ means = Means(k) /\ origin = Origin(k)
    OBVIOUS
  <2>2. /\ value \in Int /\ means \in Int /\ origin \in Int
        /\ value = means - origin /\ field[k] = FieldOf(type, value) /\ ~RelOverflow(type, value)
    BY <2>1, WrittenDistance
  <2>3. ASSUME type = "PREL31" PROVE -2147483648 <= value /\ value < 2147483648
    <3>1. image.rela[k].type \in LowType \cup {"ABS_L16", "PREL31"}
      BY <2>1, <2>3
    <3> QED BY <2>1, <2>2, <3>1, SMT DEF WordSized
  <2>4. Operand(type, FieldOf(type, value)) = value
    BY <2>1, <2>2, <2>3, WholeDecodes
  <2> QED BY <2>1, <2>2, <2>4
<1> QED BY <1>1, TypesInit, TypesNext, MovesInit, MovesNext, RelocatedInit, RelocatedNext,
           PTL DEF Spec

(* The halves MVKL and MVKH load make the whole address, also one below    *)
(* the static base, for every file and every placement                     *)
(* (c60_reloc.c:196-236, 336-346).                                         *)
THEOREM HalvesCombine ==
  ASSUME HostOffset = 0
  PROVE  Spec /\ []WordSized => []PairsCombine
<1>1. TypeOK /\ InOrder /\ Moves /\ Relocated /\ WordSized => PairsCombine
  <2> SUFFICES ASSUME TypeOK, InOrder, Moves, Relocated, WordSized, pc = "done",
                      NEW k \in Entries, NEW l \in Entries,
                      image.rela[k].type \in LowType \cup {"ABS_L16"},
                      image.rela[l].type = HighOf(image.rela[k].type),
                      SameTarget(k, l), Written(k), Written(l),
                      Aligned(image.rela[k].type, Means(k) - Origin(k))
               PROVE  Unit(image.rela[k].type) * Pair(field[k], field[l]) + Origin(k) = Means(k)
    BY DEF PairsCombine
  <2>1. PICK low, high, value, means, origin :
          /\ low = image.rela[k].type /\ high = image.rela[l].type
          /\ value = Value(k) /\ means = Means(k) /\ origin = Origin(k)
    OBVIOUS
  <2>2. /\ low \in {"ABS_L16", "SBR_L16_B", "SBR_L16_H", "SBR_L16_W"}
        /\ high \in {"ABS_H16", "SBR_H16_B", "SBR_H16_H", "SBR_H16_W"}
        /\ PackShift[high] = 65536 * PackShift[low]
        /\ low = "ABS_L16" <=> high = "ABS_H16"
    BY <2>1 DEF LowType, HighOf, PackShift
  <2>3. /\ value \in Int /\ means \in Int /\ origin \in Int
        /\ value = means - origin /\ field[k] = FieldOf(low, value)
    BY <2>1, WrittenDistance
  <2>4. Means(l) = means /\ Origin(l) = origin
    <3>1. Means(l) = means
      BY <2>1 DEF SameTarget, Means
    <3>2. CASE low = "ABS_L16"
      <4>1. /\ image.rela[k].type \in AbsoluteType /\ image.rela[k].type \notin BranchType
            /\ image.rela[k].type # "PREL31" /\ image.rela[k].type \notin BaseType
            /\ image.rela[k].type # "DSBT_INDEX"
        BY <2>1, <2>2, <3>2 DEF AbsoluteType, BranchType, BaseType, UnsignedType, LowType, HighType
      <4>2. /\ image.rela[l].type \in AbsoluteType /\ image.rela[l].type \notin BranchType
            /\ image.rela[l].type # "PREL31" /\ image.rela[l].type \notin BaseType
            /\ image.rela[l].type # "DSBT_INDEX"
        BY <2>1, <2>2, <3>2 DEF AbsoluteType, BranchType, BaseType, UnsignedType, LowType, HighType
      <4>3. Origin(k) = 0
        BY <4>1, Zenon DEF Origin
      <4>4. Origin(l) = 0
        BY <4>2, Zenon DEF Origin
      <4> QED BY <2>1, <3>1, <4>3, <4>4
    <3>3. CASE low # "ABS_L16"
      <4>1. /\ image.rela[k].type \notin AbsoluteType /\ image.rela[k].type \notin BranchType
            /\ image.rela[k].type # "PREL31" /\ image.rela[k].type \in BaseType
            /\ image.rela[k].type # "DSBT_INDEX"
        BY <2>1, <2>2, <3>3 DEF AbsoluteType, BranchType, BaseType, UnsignedType, LowType, HighType
      <4>2. /\ image.rela[l].type \notin AbsoluteType /\ image.rela[l].type \notin BranchType
            /\ image.rela[l].type # "PREL31" /\ image.rela[l].type \in BaseType
            /\ image.rela[l].type # "DSBT_INDEX"
        BY <2>1, <2>2, <3>3 DEF AbsoluteType, BranchType, BaseType, UnsignedType, LowType, HighType
      <4>3. Origin(k) = BaseOfModule
        BY <4>1, Zenon DEF Origin
      <4>4. Origin(l) = BaseOfModule
        BY <4>2, Zenon DEF Origin
      <4> QED BY <2>1, <3>1, <4>3, <4>4
    <3> QED BY <3>1, <3>2, <3>3
  <2>5. field[l] = FieldOf(high, value)
    <3>1. Value(l) = value
      BY <2>1, <2>3, <2>4, WrittenDistance
    <3> QED BY <2>1, <3>1, WrittenDistance
  <2>6. -2147483648 <= value /\ value < 2147483648 /\ Aligned(low, value)
    BY <2>1, <2>3 DEF WordSized
  <2>7. Unit(low) * Pair(FieldOf(low, value), FieldOf(high, value)) = value
    BY <2>2, <2>3, <2>6, HalvesDecode
  <2> QED BY <2>1, <2>3, <2>5, <2>7
<1> QED BY <1>1, TypesInit, TypesNext, MovesInit, MovesNext, RelocatedInit, RelocatedNext,
           PTL DEF Spec
===============================================================================
