---------------------------- MODULE RelocationFields ----------------------------
(***************************************************************************)
(* What one C6000 relocation computes (C60_DLOAD_REL/c60_reloc.c): the     *)
(* value, the range check, the packing of the value and the field that is  *)
(* written into the instruction or datum, per type; and, from the processor's *)
(* side, the value an instruction makes of its field.                      *)
(*                                                                         *)
(* A type is the name of its R_C6000_ constant.  A field is the number its *)
(* bits spell; a 32-bit field is the int32_t itself.  The other bits of    *)
(* the container are left alone by the code and are out of the model.      *)
(* Fields are in the byte order of the host (wrong_endian is FALSE) and    *)
(* the linker left them 0, as entries with addends of their own have it.   *)
(***************************************************************************)
EXTENDS Integers

AbsoluteType == {"ABS32", "ABS16", "ABS8", "ABS_S16", "ABS_L16", "ABS_H16"}
BranchType   == {"PCR_S21", "PCR_S12", "PCR_S10", "PCR_S7"}
UnsignedType == {"SBR_U15_B", "SBR_U15_H", "SBR_U15_W"}
LowType      == {"SBR_L16_B", "SBR_L16_H", "SBR_L16_W"}
HighType     == {"SBR_H16_B", "SBR_H16_H", "SBR_H16_W"}
BaseType     == UnsignedType \cup LowType \cup HighType \cup {"SBR_S16"}

RelocType == AbsoluteType \cup BranchType \cup BaseType \cup {"PREL31", "DSBT_INDEX"}

FetchPacket(pc) == pc - (pc % 32)

(* The first half of reloc_do.  address is where the field is for the      *)
(* loader, index the DSBT index of the module.                             *)
RelocValue(type, symval, addend, address, base, index) ==
  CASE type \in AbsoluteType -> symval + addend
    [] type \in BranchType   -> symval + addend - FetchPacket(address)
    [] type = "PREL31"       -> symval + addend - address
    [] type \in BaseType     -> symval + addend - base
    [] type = "DSBT_INDEX"   -> symval + addend - base + 4 * index

OutOf(value, low, high) == value < low \/ value > high

BranchReach == [PCR_S21 |-> 4194304, PCR_S12 |-> 8192, PCR_S10 |-> 2048, PCR_S7 |-> 256]

RelOverflow_OffByOne(type, value) ==
  \/ type \in BranchType /\ OutOf(value, -BranchReach[type], BranchReach[type])
  \/ type \in UnsignedType /\ OutOf(value, 0, 131072)

(* A range per type; the types that are not listed are not checked.        *)
RelOverflow(type, value) ==
  \/ type = "ABS16" /\ OutOf(value, -32768, 65535)
  \/ type = "ABS8" /\ OutOf(value, -128, 255)
  \/ type \in BranchType /\ OutOf(value, -BranchReach[type], BranchReach[type] - 1)
  \/ type \in {"SBR_S16", "ABS_S16"} /\ OutOf(value, -32768, 32767)
  \/ type = "SBR_U15_B" /\ OutOf(value, 0, 32767)
  \/ type = "SBR_U15_H" /\ OutOf(value, 0, 65534)
  \/ type \in {"SBR_U15_W", "DSBT_INDEX"} /\ OutOf(value, 0, 131068)

PackShift_NoUnit ==
  [type \in RelocType |-> IF type \in {"ABS_H16"} \cup HighType THEN 65536 ELSE 1]

(* 2 to the number of low bits pack_result shifts out.                     *)
PackShift ==
  [ABS32 |-> 1, ABS16 |-> 1, ABS8 |-> 1, ABS_S16 |-> 1, ABS_L16 |-> 1, ABS_H16 |-> 65536,
   PCR_S21 |-> 4, PCR_S12 |-> 4, PCR_S10 |-> 4, PCR_S7 |-> 4, PREL31 |-> 2,
   SBR_U15_B |-> 1, SBR_U15_H |-> 2, SBR_U15_W |-> 4, DSBT_INDEX |-> 4, SBR_S16 |-> 1,
   SBR_L16_B |-> 1, SBR_L16_H |-> 2, SBR_L16_W |-> 4,
   SBR_H16_B |-> 65536, SBR_H16_H |-> 131072, SBR_H16_W |-> 262144]

(* 2 to the number of bits mask_result keeps.  ABS32 and PREL31 hold any   *)
(* value that was packed and are told apart in FieldOf.                    *)
FieldSize ==
  [ABS8 |-> 256, ABS16 |-> 65536, ABS_S16 |-> 65536, ABS_L16 |-> 65536, ABS_H16 |-> 65536,
   PCR_S21 |-> 2097152, PCR_S12 |-> 4096, PCR_S10 |-> 1024, PCR_S7 |-> 128,
   SBR_U15_B |-> 32768, SBR_U15_H |-> 32768, SBR_U15_W |-> 32768, DSBT_INDEX |-> 32768,
   SBR_S16 |-> 65536, SBR_L16_B |-> 65536, SBR_L16_H |-> 65536, SBR_L16_W |-> 65536,
   SBR_H16_B |-> 65536, SBR_H16_H |-> 65536, SBR_H16_W |-> 65536]

FieldOf_Unmasked(type, value) == value \div PackShift[type]

Low31Bits(packed) == IF packed < 0 THEN packed + 2147483647 + 1 ELSE packed

(* pack_result, mask_result and write_reloc_r.                             *)
FieldOf(type, value) ==
  LET packed == value \div PackShift[type]
  IN  IF type = "ABS32" THEN packed
      ELSE IF type = "PREL31" THEN Low31Bits(packed)
      ELSE packed % FieldSize[type]

-----------------------------------------------------------------------------
(* The processor's side.                                                   *)

SignExtend(field, size) == IF field < size \div 2 THEN field ELSE field - size

SignExtend31(field) == IF field < 1073741824 THEN field ELSE field - 2147483647 - 1

WordType == BranchType \cup {"SBR_U15_W", "SBR_L16_W", "DSBT_INDEX"}
HalfType == {"SBR_U15_H", "SBR_L16_H", "PREL31"}

(* The bytes an operand counts in.                                         *)
Unit(type) == IF type \in WordType THEN 4 ELSE IF type \in HalfType THEN 2 ELSE 1

SignedType == BranchType \cup {"SBR_S16", "ABS_S16"}

(* The displacement or address an instruction makes of its field.          *)
Operand(type, field) ==
  Unit(type) *
    (IF type = "PREL31" THEN SignExtend31(field)
     ELSE IF type \in SignedType THEN SignExtend(field, FieldSize[type])
     ELSE field)

(* A load in two instructions, MVKL for the low half and MVKH for the high. *)
Pair(low, high) == 65536 * SignExtend(high, 65536) + low

(* The types whose one field holds the whole value, if it is in range.     *)
WholeType == BranchType \cup UnsignedType \cup
             {"ABS32", "PREL31", "SBR_S16", "ABS_S16", "DSBT_INDEX"}

Aligned(type, value) == value % Unit(type) = 0
=============================================================================
