------------------------------ MODULE RidlProofs ------------------------------
(*************************************************************************)
(* The shell, the loader core and the debug list together, for any       *)
(* names, any files, any faults, any sequence of commands and any        *)
(* bounds: the types of all three, the list in target memory that stays  *)
(* linked, the entry point and the record of the shell's program, what a *)
(* handle given up twice does to the others, and what a debugger sees    *)
(* between two commands.                                                 *)
(*                                                                       *)
(* The invariant is that of the core and that of the list side by side,  *)
(* and that the shell only remembers handles the core gave out.  The     *)
(* invariant of the list, ListInv, is that of DebugList alone, and the   *)
(* facts about it are proved first.                                      *)
(*                                                                       *)
(* Then two properties of the shell.  A session may give up a handle     *)
(* twice, so the use counts of DloadProofs' Unfailing sessions do not    *)
(* hold here; what does is SessionCalls, the order of the calls under    *)
(* way.  On it rest ProgramStays (what "execute" would call is in        *)
(* memory) and RecordInv (the program has its debug record until its     *)
(* unload has come back).                                                *)
(*                                                                       *)
(* Next, what giving up a handle twice does to the others                *)
(* (StaleUnloads): nothing, because nobody shares the shell's own module *)
(* (SoleInv).                                                            *)
(*                                                                       *)
(* Last, the modules a debugger finds (DebuggerSees).  DebugInv says     *)
(* where the record of every loaded file is while a command is under     *)
(* way: in the list in target memory, or on the host stack of its load   *)
(* or its unload, and nowhere twice.  It needs the base address that     *)
(* names a record to stay with its file: a file is placed once, its      *)
(* address is handed to nobody else, and what was freed stays gone       *)
(* (FreedIsGone).                                                        *)
(*************************************************************************)
EXTENDS Ridl, DloadProofs

ListInv == ListTypeOK /\ LinkedInOrder

Mirror == mirror_debug_list
HostRecords == [module_name : ModuleName, segs : Seq(Nat)]

-----------------------------------------------------------------------------
(* The list starts empty.                                                  *)
LEMMA ListInitInv == ListInit => ListInv
<1> SUFFICES ASSUME ListInit PROVE ListInv
  OBVIOUS
<1>1. ListTypeOK
  BY EmptySeq DEF ListInit, ListTypeOK, NULL, Nothing
<1>2. LinkedInOrder
  BY DEF ListInit, LinkedInOrder
<1> QED BY <1>1, <1>2 DEF ListInv

(* Steps that leave the list alone leave its order alone.                  *)
LEMMA ListLeftAlone ==
  ASSUME LinkedInOrder, UNCHANGED << mirror_debug_list, next_module_ptr >>
  PROVE  LinkedInOrder'
  BY DEF LinkedInOrder, AddressOf, NULL

(* base_image.                                                             *)
LEMMA FindInv ==
  ASSUME ListInv, NEW found \in BOOLEAN, NEW loc, found => loc \in Header,
         FindDLModules(found, loc)
  PROVE  ListInv'
<1>1. ListTypeOK'
  BY DEF ListInv, ListTypeOK, FindDLModules, MirrorRecord, NULL, Nothing
<1>2. LinkedInOrder'
  BY ListLeftAlone DEF ListInv, FindDLModules
<1> QED BY <1>1, <1>2 DEF ListInv

(* A host record is pushed before a load.                                  *)
LEMMA PushInv ==
  ASSUME ListInv, NEW name \in ModuleName, AddHostRecord(name)
  PROVE  ListInv'
<1>1. dl_debug_stk' \in Seq(HostRecords)
  <2>1. HostRecord(name) \in HostRecords
    BY EmptySeq DEF HostRecord, HostRecords
  <2> QED BY <2>1, AppendProperties DEF ListInv, ListTypeOK, AddHostRecord, HostRecords
<1>2. ListTypeOK'
  BY <1>1 DEF ListInv, ListTypeOK, AddHostRecord, MirrorRecord, NULL, Nothing, HostRecords
<1>3. LinkedInOrder'
  BY ListLeftAlone DEF ListInv, AddHostRecord
<1> QED BY <1>2, <1>3 DEF ListInv

(* The record on the top collects a segment.                               *)
LEMMA SegmentInv ==
  ASSUME ListInv, NEW seg \in Nat, AddSegmentRecord(seg)
  PROVE  ListInv'
<1> DEFINE top == dl_debug_stk[TopOfStack]
           grown == [top EXCEPT !.segs = Append(top.segs, seg)]
<1>1. dl_debug_stk \in Seq(HostRecords) /\ dl_debug_stk # << >>
  BY DEF ListInv, ListTypeOK, AddSegmentRecord, HostRecords
<1>2. TopOfStack \in 1 .. Len(dl_debug_stk)
  BY <1>1, EmptySeq DEF TopOfStack
<1>3. top \in HostRecords
  BY <1>1, <1>2, ElementOfSeq
<1>4. grown \in HostRecords
  BY <1>3, AppendProperties DEF HostRecords
<1>5. dl_debug_stk' = [dl_debug_stk EXCEPT ![TopOfStack] = grown]
  BY DEF AddSegmentRecord
<1>6. dl_debug_stk' \in Seq(HostRecords)
  <2> HIDE DEF grown
  <2> QED BY <1>1, <1>2, <1>4, <1>5, ExceptSeq
<1>7. ListTypeOK'
  BY <1>6 DEF ListInv, ListTypeOK, AddSegmentRecord, MirrorRecord, NULL, Nothing, HostRecords
<1>8. LinkedInOrder'
  BY ListLeftAlone DEF ListInv, AddSegmentRecord
<1> QED BY <1>7, <1>8 DEF ListInv

-----------------------------------------------------------------------------
(* Where the records of the list are, as positions 1 to its length.        *)
LEMMA MirrorEntries ==
  ASSUME ListTypeOK
  PROVE  /\ Mirror \in Seq(MirrorRecord)
         /\ Len(Mirror) \in Nat
         /\ DOMAIN Mirror = 1 .. Len(Mirror)
         /\ \A i \in 1 .. Len(Mirror) :
               Mirror[i] \in MirrorRecord /\ AddressOf(i) \in Address
<1>1. Mirror \in Seq(MirrorRecord)
  BY DEF ListTypeOK, Mirror
<1>2. Len(Mirror) \in Nat /\ DOMAIN Mirror = 1 .. Len(Mirror)
  BY <1>1, LenProperties
<1>3. \A i \in 1 .. Len(Mirror) : Mirror[i] \in MirrorRecord
  BY <1>1, ElementOfSeq
<1> QED BY <1>1, <1>2, <1>3 DEF AddressOf, Mirror, MirrorRecord

(* The list with another next pointer in the mirror of record k.           *)
LEMMA Relinked ==
  ASSUME ListTypeOK, NEW k \in 1 .. Len(Mirror), NEW p \in Address \cup {NULL}
  PROVE  LET new == [Mirror EXCEPT ![k].next = p]
         IN  /\ new \in Seq(MirrorRecord)
             /\ Len(new) = Len(Mirror)
             /\ \A i \in 1 .. Len(Mirror) :
                   /\ new[i].target_address = AddressOf(i) /\ new[i].handle = Mirror[i].handle
                   /\ new[i].next = IF i = k THEN p ELSE Mirror[i].next
<1> DEFINE rec == [Mirror[k] EXCEPT !.next = p]
           new == [Mirror EXCEPT ![k] = rec]
<1>1. Mirror \in Seq(MirrorRecord) /\ Mirror[k] \in MirrorRecord
  BY MirrorEntries
<1>2. /\ rec \in MirrorRecord /\ rec.next = p
      /\ rec.target_address = Mirror[k].target_address /\ rec.handle = Mirror[k].handle
  BY <1>1 DEF MirrorRecord
<1>3. /\ new \in Seq(MirrorRecord) /\ Len(new) = Len(Mirror)
      /\ \A i \in 1 .. Len(Mirror) : new[i] = IF i = k THEN rec ELSE Mirror[i]
  <2> HIDE DEF rec
  <2> QED BY <1>1, <1>2, ExceptSeq
<1> QED BY <1>2, <1>3 DEF AddressOf, Mirror

-----------------------------------------------------------------------------
(* The mirror after DLDBG_add_target_record: one record more, at a, to     *)
(* which the last one before it leads.                                     *)
LEMMA AddedEntries ==
  ASSUME ListTypeOK, NEW handle \in Nat, NEW a \in Address, AddTargetRecord(handle, a),
         NEW n \in Nat, n = Len(Mirror)
  PROVE  /\ Mirror' \in Seq(MirrorRecord)
         /\ Len(Mirror') = n + 1
         /\ AddressOf(n + 1)' = a
         /\ Mirror'[n + 1].next = NULL /\ Mirror'[n + 1].handle = handle
         /\ \A i \in 1 .. n :
               /\ AddressOf(i)' = AddressOf(i) /\ Mirror'[i].handle = Mirror[i].handle
               /\ Mirror'[i].next = IF i = n THEN a ELSE Mirror[i].next
<1> DEFINE rec == [handle |-> handle, module_name |-> Last(dl_debug_stk).module_name,
                   target_address |-> a, next |-> NULL]
           linked == LinkLast(a)
<1>1. /\ Mirror \in Seq(MirrorRecord)
      /\ \A i \in 1 .. n : Mirror[i] \in MirrorRecord
  BY MirrorEntries
<1>2. Last(dl_debug_stk) \in HostRecords
  BY FrontEntries DEF ListTypeOK, AddTargetRecord, HostRecords
<1>3. rec \in MirrorRecord
  BY <1>2 DEF HostRecords, MirrorRecord, NULL
<1>4. /\ linked \in Seq(MirrorRecord) /\ Len(linked) = n
      /\ \A i \in 1 .. n :
            /\ linked[i].target_address = AddressOf(i) /\ linked[i].handle = Mirror[i].handle
            /\ linked[i].next = IF i = n THEN a ELSE Mirror[i].next
  <2>1. CASE Mirror = << >>
    BY <1>1, <2>1, EmptySeq DEF LinkLast, Mirror
  <2>2. CASE Mirror # << >>
    <3>1. n \in 1 .. n
      BY <1>1, <2>2, EmptySeq
    <3>2. linked = [Mirror EXCEPT ![n].next = a]
      BY <2>2 DEF LinkLast, Mirror
    <3> HIDE DEF linked
    <3> QED BY <3>1, <3>2, Relinked
  <2> QED BY <2>1, <2>2
<1>5. Mirror' = Append(linked, rec)
  BY DEF AddTargetRecord, Mirror
<1> HIDE DEF linked
<1>6. /\ Append(linked, rec) \in Seq(MirrorRecord)
      /\ Len(Append(linked, rec)) = n + 1
      /\ \A i \in 1 .. n : Append(linked, rec)[i] = linked[i]
      /\ Append(linked, rec)[n + 1] = rec
  <2> HIDE DEF rec
  <2> QED BY <1>3, <1>4, AppendProperties
<1>7. AddressOf(n + 1)' = a /\ Mirror'[n + 1].next = NULL /\ Mirror'[n + 1].handle = handle
  BY <1>5, <1>6 DEF AddressOf, Mirror
<1>8. \A i \in 1 .. n :
         /\ AddressOf(i)' = AddressOf(i) /\ Mirror'[i].handle = Mirror[i].handle
         /\ Mirror'[i].next = IF i = n THEN a ELSE Mirror[i].next
  BY <1>4, <1>5, <1>6 DEF AddressOf, Mirror
<1> QED BY <1>5, <1>6, <1>7, <1>8

(* A load that succeeded adds its record behind the last one.              *)
LEMMA AddInv ==
  ASSUME ListInv, DLL_debug, NEW handle \in Nat, NEW a \in Address, AddTargetRecord(handle, a)
  PROVE  ListInv'
<1>1. ListTypeOK
  BY DEF ListInv
<1>2. PICK n \in Nat : n = Len(Mirror)
  BY <1>1, MirrorEntries
<1>3. /\ DOMAIN Mirror = 1 .. n
      /\ \A i \in 1 .. n : Mirror[i] \in MirrorRecord /\ AddressOf(i) \in Address
  BY <1>2, <1>1, MirrorEntries
<1>4. /\ Mirror' \in Seq(MirrorRecord) /\ Len(Mirror') = n + 1
      /\ AddressOf(n + 1)' = a /\ Mirror'[n + 1].next = NULL
      /\ \A i \in 1 .. n :
            /\ AddressOf(i)' = AddressOf(i)
            /\ Mirror'[i].next = IF i = n THEN a ELSE Mirror[i].next
  BY <1>2, <1>1, AddedEntries
<1>5. DOMAIN Mirror' = 1 .. n + 1
  BY <1>4, LenProperties
<1>6. \A i \in 1 .. n : AddressOf(i) # a
  BY <1>3 DEF AddTargetRecord, Free, InUse, Mirror
<1>7. /\ \A i, j \in 1 .. n : AddressOf(i) = AddressOf(j) => i = j
      /\ \A i \in 1 .. n :
            IF i = n THEN Mirror[i].next = NULL
            ELSE /\ Mirror[i].next = AddressOf(i + 1)
                 /\ next_module_ptr[AddressOf(i)] = AddressOf(i + 1)
  BY <1>3 DEF ListInv, LinkedInOrder, Mirror
<1>8. next_module_ptr' = IF n = 0 THEN next_module_ptr
                         ELSE [next_module_ptr EXCEPT ![AddressOf(n)] = a]
  <2>1. Mirror = << >> <=> n = 0
    BY <1>2, <1>1, MirrorEntries, EmptySeq
  <2> QED BY <1>2, <2>1 DEF AddTargetRecord, Mirror
<1>9. next_module_ptr \in [Address -> Address \cup {NULL}]
  BY <1>1 DEF ListTypeOK
<1>10. \A i \in 1 .. n :
         next_module_ptr'[AddressOf(i)] = IF i = n THEN a ELSE next_module_ptr[AddressOf(i)]
  BY <1>3, <1>7, <1>8, <1>9
<1>11. ListTypeOK'
  <2>1. Last(dl_debug_stk) \in HostRecords /\ dl_debug_stk' \in Seq(HostRecords)
    BY <1>1, FrontEntries DEF ListTypeOK, AddTargetRecord, HostRecords
  <2>2. segments' \in [Address -> {Nothing} \cup (ModuleName \X Seq(Nat))]
    BY <1>1, <2>1 DEF ListTypeOK, AddTargetRecord, HostRecords
  <2>3. next_module_ptr' \in [Address -> Address \cup {NULL}]
    BY <1>3, <1>8, <1>9
  <2>4. first_module_ptr' \in [Header -> Address \cup {NULL}]
    BY <1>1 DEF ListTypeOK, AddTargetRecord
  <2>5. UNCHANGED << DLL_debug, DLModules_loc >>
    BY DEF AddTargetRecord
  <2> QED BY <1>1, <1>4, <2>1, <2>2, <2>3, <2>4, <2>5
          DEF ListTypeOK, MirrorRecord, HostRecords, Mirror, NULL, Nothing
<1>12. LinkedInOrder'
  <2>1. \A i, j \in 1 .. n + 1 : AddressOf(i)' = AddressOf(j)' => i = j
    BY <1>3, <1>4, <1>6, <1>7
  <2>2. ASSUME NEW i \in 1 .. n + 1
        PROVE  IF i = n + 1 THEN Mirror'[i].next = NULL
               ELSE /\ Mirror'[i].next = AddressOf(i + 1)'
                    /\ next_module_ptr'[AddressOf(i)'] = AddressOf(i + 1)'
    <3>1. CASE i = n + 1
      BY <1>4, <3>1
    <3>2. CASE i = n
      BY <1>3, <1>4, <1>10, <3>2
    <3>3. CASE i \in 1 .. n - 1
      <4>1. i \in 1 .. n /\ i + 1 \in 1 .. n /\ i # n /\ i # n + 1
        BY <1>3, <3>3
      <4> QED BY <1>4, <1>7, <1>10, <4>1
    <3> QED BY <1>3, <3>1, <3>2, <3>3
  <2> QED BY <1>4, <1>5, <2>1, <2>2 DEF LinkedInOrder, Mirror
<1> QED BY <1>11, <1>12 DEF ListInv

-----------------------------------------------------------------------------
(* The record that is taken off stands in the list.                        *)
LEMMA PositionInList ==
  ASSUME ListTypeOK, NEW handle, Position(handle) # 0
  PROVE  Position(handle) \in 1 .. Len(Mirror)
<1> DEFINE found == {i \in DOMAIN mirror_debug_list : mirror_debug_list[i].handle = handle}
<1>1. found \in SUBSET (1 .. Len(Mirror)) /\ found \in SUBSET Nat
  BY MirrorEntries DEF Mirror
<1>2. found # {} /\ Position(handle) = Min(found)
  BY DEF Position
<1> HIDE DEF found
<1> QED BY <1>1, <1>2, FirstOfPlaces

(* The mirror after DLDBG_rm_target_record: without record k, and with the *)
(* record before it linked to the one after it.                            *)
LEMMA RemovedEntries ==
  ASSUME ListTypeOK, NEW n \in Nat, n = Len(Mirror), NEW k \in 1 .. n,
         mirror_debug_list' = RemoveRecord(k)
  PROVE  /\ Mirror' \in Seq(MirrorRecord)
         /\ Len(Mirror') = n - 1
         /\ \A i \in 1 .. n - 1 :
               /\ Earlier(i, k) \in 1 .. n
               /\ Earlier(i, k) # k
               /\ AddressOf(i)' = AddressOf(Earlier(i, k))
               /\ Mirror'[i].handle = Mirror[Earlier(i, k)].handle
               /\ Mirror'[i].next = IF Earlier(i, k) = k - 1 THEN Mirror[k].next
                                    ELSE Mirror[Earlier(i, k)].next
<1> DEFINE unlinked == Unlink(k)
<1>1. /\ Mirror \in Seq(MirrorRecord)
      /\ \A i \in 1 .. n : Mirror[i] \in MirrorRecord
  BY MirrorEntries
<1>2. Mirror[k].next \in Address \cup {NULL}
  BY <1>1 DEF MirrorRecord
<1>3. /\ unlinked \in Seq(MirrorRecord) /\ Len(unlinked) = n
      /\ \A i \in 1 .. n :
            /\ unlinked[i].target_address = AddressOf(i) /\ unlinked[i].handle = Mirror[i].handle
            /\ unlinked[i].next = IF i = k - 1 THEN Mirror[k].next ELSE Mirror[i].next
  <2>1. CASE k = 1
    BY <1>1, <2>1 DEF Unlink, Mirror, AddressOf
  <2>2. CASE k # 1
    <3>1. k - 1 \in 1 .. n
      BY <2>2
    <3>2. unlinked = [Mirror EXCEPT ![k - 1].next = Mirror[k].next]
      BY <2>2 DEF Unlink, Mirror
    <3> HIDE DEF unlinked
    <3> QED BY SMTT(30), <1>2, <3>1, <3>2, Relinked
  <2> QED BY <2>1, <2>2
<1>4. Mirror' = RemoveAt(unlinked, k)
  BY DEF RemoveRecord, Mirror
<1> HIDE DEF unlinked
<1>5. /\ RemoveAt(unlinked, k) \in Seq(MirrorRecord)
      /\ Len(RemoveAt(unlinked, k)) = n - 1
      /\ \A i \in 1 .. n - 1 :
            /\ Earlier(i, k) \in 1 .. n
            /\ Earlier(i, k) # k
            /\ RemoveAt(unlinked, k)[i] = unlinked[Earlier(i, k)]
  BY <1>3, RemoveAtEntries
<1>6. \A i \in 1 .. n - 1 :
         /\ AddressOf(i)' = AddressOf(Earlier(i, k))
         /\ Mirror'[i].handle = Mirror[Earlier(i, k)].handle
  BY <1>3, <1>4, <1>5 DEF AddressOf, Mirror
<1>7. \A i \in 1 .. n - 1 :
         Mirror'[i].next = IF Earlier(i, k) = k - 1 THEN Mirror[k].next
                           ELSE Mirror[Earlier(i, k)].next
  BY <1>3, <1>4, <1>5
<1> QED BY <1>4, <1>5, <1>6, <1>7

(* An unload that freed its module takes the record of that module off.    *)
LEMMA RemoveInv ==
  ASSUME ListInv, DLL_debug, NEW handle, RmTargetRecord(handle)
  PROVE  ListInv'
<1>1. ListTypeOK
  BY DEF ListInv
<1>2. PICK n \in Nat : n = Len(Mirror)
  BY <1>1, MirrorEntries
<1>3. PICK k \in 1 .. n : k = Position(handle)
  BY <1>1, <1>2, PositionInList DEF RmTargetRecord
<1>4. /\ DOMAIN Mirror = 1 .. n
      /\ \A i \in 1 .. n : Mirror[i] \in MirrorRecord /\ AddressOf(i) \in Address
  BY <1>1, <1>2, MirrorEntries
<1>5. /\ Mirror' \in Seq(MirrorRecord) /\ Len(Mirror') = n - 1
      /\ \A i \in 1 .. n - 1 :
            /\ Earlier(i, k) \in 1 .. n
            /\ Earlier(i, k) # k
            /\ AddressOf(i)' = AddressOf(Earlier(i, k))
            /\ Mirror'[i].next = IF Earlier(i, k) = k - 1 THEN Mirror[k].next
                                 ELSE Mirror[Earlier(i, k)].next
  <2>1. mirror_debug_list' = RemoveRecord(k)
    BY <1>3 DEF RmTargetRecord
  <2> QED BY <1>1, <1>2, <2>1, RemovedEntries
<1>6. DOMAIN Mirror' = 1 .. n - 1
  BY <1>5, LenProperties
<1>7. /\ \A i, j \in 1 .. n : AddressOf(i) = AddressOf(j) => i = j
      /\ \A i \in 1 .. n :
            IF i = n THEN Mirror[i].next = NULL
            ELSE /\ Mirror[i].next = AddressOf(i + 1)
                 /\ next_module_ptr[AddressOf(i)] = AddressOf(i + 1)
  BY <1>2, <1>4 DEF ListInv, LinkedInOrder, Mirror
<1>8. next_module_ptr \in [Address -> Address \cup {NULL}]
  BY <1>1 DEF ListTypeOK
<1>9. Mirror[k].next \in Address \cup {NULL}
  BY <1>4 DEF MirrorRecord
<1>10. next_module_ptr' = IF k = 1 THEN next_module_ptr
                          ELSE [next_module_ptr EXCEPT ![AddressOf(k - 1)] = Mirror[k].next]
  BY <1>3 DEF RmTargetRecord, Mirror
<1>11. \A i \in 1 .. n :
          next_module_ptr'[AddressOf(i)] =
            IF i = k - 1 THEN Mirror[k].next ELSE next_module_ptr[AddressOf(i)]
  <2>1. CASE k = 1
    BY <1>10, <2>1
  <2>2. CASE k # 1
    <3>1. k - 1 \in 1 .. n
      BY <2>2
    <3> QED BY <1>4, <1>7, <1>8, <1>10, <2>2, <3>1
  <2> QED BY <2>1, <2>2
<1>12. ListTypeOK'
  <2>1. next_module_ptr' \in [Address -> Address \cup {NULL}]
    BY <1>8, <1>9, <1>10
  <2>2. first_module_ptr' \in [Header -> Address \cup {NULL}]
    BY <1>1, <1>3, <1>9 DEF ListTypeOK, RmTargetRecord, Mirror
  <2>3. UNCHANGED << DLL_debug, DLModules_loc, dl_debug_stk, segments >>
    BY DEF RmTargetRecord
  <2> QED BY <1>1, <1>5, <2>1, <2>2, <2>3
          DEF ListTypeOK, MirrorRecord, Mirror, NULL, Nothing
<1>13. LinkedInOrder'
  <2>1. \A i, j \in 1 .. n - 1 : AddressOf(i)' = AddressOf(j)' => i = j
    <3>1. \A i, j \in 1 .. n - 1 : Earlier(i, k) = Earlier(j, k) => i = j
      BY DEF Earlier
    <3> QED BY <1>5, <1>7, <3>1
  <2>2. ASSUME NEW i \in 1 .. n - 1
        PROVE  IF i = n - 1 THEN Mirror'[i].next = NULL
               ELSE /\ Mirror'[i].next = AddressOf(i + 1)'
                    /\ next_module_ptr'[AddressOf(i)'] = AddressOf(i + 1)'
    <3>1. CASE i = k - 1
      <4>1. Earlier(i, k) = k - 1 /\ i + 1 = k
        BY <3>1 DEF Earlier
      <4>2. Mirror'[i].next = Mirror[k].next /\ next_module_ptr'[AddressOf(i)'] = Mirror[k].next
        BY <1>5, <1>11, <4>1
      <4>3. CASE i = n - 1
        <5>1. k = n
          BY <4>1, <4>3
        <5> QED BY <1>7, <4>2, <4>3, <5>1
      <4>4. CASE i # n - 1
        <5>1. i + 1 \in 1 .. n - 1 /\ k # n /\ Earlier(i + 1, k) = k + 1
          BY <4>1, <4>4 DEF Earlier
        <5> QED BY <1>5, <1>7, <4>2, <4>4, <5>1
      <4> QED BY <4>3, <4>4
    <3>2. CASE i # k - 1
      <4>1. /\ Earlier(i, k) # k - 1
            /\ Earlier(i, k) = n <=> i = n - 1
            /\ i # n - 1 => i + 1 \in 1 .. n - 1 /\ Earlier(i + 1, k) = Earlier(i, k) + 1
        BY <3>2 DEF Earlier
      <4>2. /\ Mirror'[i].next = Mirror[Earlier(i, k)].next
            /\ next_module_ptr'[AddressOf(i)'] = next_module_ptr[AddressOf(Earlier(i, k))]
        BY <1>5, <1>11, <4>1
      <4>3. CASE i = n - 1
        BY <1>5, <1>7, <4>1, <4>2, <4>3
      <4>4. CASE i # n - 1
        BY <1>5, <1>7, <4>1, <4>2, <4>4
      <4> QED BY <4>3, <4>4
    <3> QED BY <3>1, <3>2
  <2> QED BY <1>5, <1>6, <2>1, <2>2 DEF LinkedInOrder, Mirror
<1> QED BY <1>12, <1>13 DEF ListInv

-----------------------------------------------------------------------------
(* Every step of the client on the list keeps the invariant.               *)
LEMMA ListNextInv == ListInv /\ [ListNext]_debug_vars => ListInv'
<1> SUFFICES ASSUME ListInv, [ListNext]_debug_vars PROVE ListInv'
  OBVIOUS
<1>1. CASE UNCHANGED debug_vars
  BY <1>1 DEF ListInv, ListTypeOK, LinkedInOrder, AddressOf, debug_vars, MirrorRecord, NULL, Nothing
<1>2. CASE \E found \in BOOLEAN, loc \in Header : FindDLModules(found, loc)
  BY <1>2, FindInv
<1>3. CASE \E name \in ModuleName : AddHostRecord(name)
  BY <1>3, PushInv
<1>4. CASE \E seg \in Nat : AddSegmentRecord(seg)
  BY <1>4, SegmentInv
<1>5. CASE \E handle \in Nat, a \in Address : DLL_debug /\ AddTargetRecord(handle, a)
  BY <1>5, AddInv
<1>6. CASE \E handle \in Nat : DLL_debug /\ (RmTargetRecord(handle) \/ RmNothing(handle))
  BY <1>1, <1>6, RemoveInv DEF RmNothing
<1> QED BY <1>1, <1>2, <1>3, <1>4, <1>5, <1>6 DEF ListNext

(* The types of the host's mirror and of the records in target memory.     *)
THEOREM ListTypeCorrect == ListSpec => []ListTypeOK
<1>1. ListInv => ListTypeOK
  BY DEF ListInv
<1> QED
  BY ListInitInv, ListNextInv, <1>1, PTL DEF ListSpec

(* Whatever is loaded and unloaded, no two records overlap, and each record *)
(* but the last leads to the next one in target memory as in the mirror.   *)
THEOREM ListStaysLinked == ListSpec => []LinkedInOrder
<1>1. ListInv => LinkedInOrder
  BY DEF ListInv
<1> QED
  BY ListInitInv, ListNextInv, <1>1, PTL DEF ListSpec

-----------------------------------------------------------------------------
ShellInv ==
  /\ script \in BOOLEAN
  /\ prog_handle \in 0 .. Len(loaded)
  /\ loaded_program \in 0 .. Len(loaded)
  /\ status \in {"running", "exited", "crashed"}

RidlInv == CoreInv /\ ListInv /\ ShellInv

-----------------------------------------------------------------------------
(* Handles are never taken back: no step of the core forgets a module.     *)
LEMMA HandlesStay ==
  ASSUME CoreInv, CoreInv',
         \/ UNCHANGED loaded
         \/ \E f \in File, base \in BOOLEAN : Enqueue(f, base)
         \/ \E h \in Nat : loaded' = AddDependency(Me.h, h)
         \/ \E h \in Nat : loaded' = ShareModule(Me.h, h)
         \/ \E h, c : loaded' = [loaded EXCEPT ![h].use_count = c]
  PROVE  Len(loaded) \in Nat /\ Len(loaded') \in Nat /\ Len(loaded) <= Len(loaded')
<1>1. /\ loaded \in Seq(Module) /\ loaded' \in Seq(Module)
      /\ Len(loaded) \in Nat /\ Len(loaded') \in Nat
  BY DEF CoreInv, ModulesOK
<1>2. DOMAIN loaded = 1 .. Len(loaded) /\ DOMAIN loaded' = 1 .. Len(loaded')
  BY <1>1, LenProperties
<1>3. CASE \E f \in File, base \in BOOLEAN : Enqueue(f, base)
  BY <1>1, <1>3 DEF Enqueue
<1>4. CASE DOMAIN loaded' = DOMAIN loaded
  <2>1. 1 .. Len(loaded) = 1 .. Len(loaded')
    BY <1>2, <1>4
  <2>2. CASE Len(loaded) = 0
    BY <1>1, <2>2
  <2>3. CASE Len(loaded) \in 1 .. Len(loaded)
    BY <1>1, <2>1, <2>3
  <2> QED BY <1>1, <2>2, <2>3
<1>5. ASSUME NEW h \in Nat, loaded' = AddDependency(Me.h, h)
      PROVE  DOMAIN loaded' = DOMAIN loaded
  BY <1>5 DEF AddDependency
<1>6. ASSUME NEW h \in Nat, loaded' = ShareModule(Me.h, h)
      PROVE  DOMAIN loaded' = DOMAIN loaded
  BY <1>6 DEF ShareModule, AddDependency
<1>7. ASSUME NEW h, NEW c, loaded' = [loaded EXCEPT ![h].use_count = c]
      PROVE  DOMAIN loaded' = DOMAIN loaded
  BY <1>7
<1> QED BY <1>1, <1>3, <1>4, <1>5, <1>6, <1>7

(* The core hands no handle back in a step of its own.                     *)
LEMMA StepKeepsHandles ==
  ASSUME CoreInv, CoreInv', LoadStep \/ UnloadStep \/ TopReturned
  PROVE  Len(loaded) \in Nat /\ Len(loaded') \in Nat /\ Len(loaded) <= Len(loaded')
<1>1. PICK n \in Nat :
        /\ n = Len(loaded) /\ FramesOK(frames, n) /\ OrdersOK(n) /\ ret \in Answer(n)
  BY Parts
<1>2. CASE FailAllocation \/ PlaceModule
  <2>1. Me.file \in File /\ Enqueue(Me.file, FALSE)
    BY <1>1, <1>2, RunningCall DEF FailAllocation, PlaceModule
  <2> QED BY <2>1, HandlesStay
<1>3. CASE NeededIsLoaded
  <2>1. FirstMatch(Needed(Me.file)[Me.next]) \in 1 .. n
    BY <1>1, <1>3, FirstMatchHandle DEF NeededIsLoaded
  <2>2. loaded' = ShareModule(Me.h, FirstMatch(Needed(Me.file)[Me.next]))
    BY <1>3 DEF NeededIsLoaded
  <2>3. FirstMatch(Needed(Me.file)[Me.next]) \in Nat
    BY <2>1
  <2> QED BY <2>2, <2>3, HandlesStay
<1>4. CASE DependentNotFound
  BY <1>4, HandlesStay DEF DependentNotFound
<1>5. CASE DependentReturned
  <2>1. ret.val \in Nat /\ loaded' = AddDependency(Me.h, ret.val)
    BY <1>1, <1>5 DEF DependentReturned, Answer
  <2> QED BY <2>1, HandlesStay
<1>6. CASE UnloadDependent
  BY <1>6, HandlesStay DEF UnloadDependent, EnterUnload
<1>7. CASE \/ RejectFile \/ RejectCircular \/ LoadDependent \/ NeededDone \/ Relocate
           \/ RelocateDone \/ DependentUnloaded \/ UnloadDone \/ AbortOnDoubleFree
           \/ TopReturned
  <2>1. UNCHANGED loaded
    BY <1>7 DEF RejectFile, RejectCircular, LoadDependent, NeededDone, Relocate,
                RelocateDone, DependentUnloaded, UnloadDone, AbortOnDoubleFree, TopReturned
  <2> QED BY <2>1, HandlesStay
<1> QED BY <1>2, <1>3, <1>4, <1>5, <1>6, <1>7 DEF LoadStep, UnloadStep

(* The shell's handles stay valid while the core works.                    *)
LEMMA ShellKept ==
  ASSUME ShellInv, Len(loaded) \in Nat, Len(loaded') \in Nat, Len(loaded) <= Len(loaded'),
         script' = script, prog_handle' \in 0 .. Len(loaded'),
         loaded_program' \in 0 .. Len(loaded) \/ loaded_program' = loaded_program,
         status' \in {"running", "exited", "crashed"}
  PROVE  ShellInv'
<1>1. loaded_program' \in 0 .. Len(loaded')
  BY DEF ShellInv
<1> QED BY <1>1 DEF ShellInv

(* A step that leaves the list alone.                                      *)
LEMMA ListUnmoved == ListInv /\ UNCHANGED debug_vars => ListInv'
  BY DEF ListInv, ListTypeOK, LinkedInOrder, AddressOf, debug_vars, MirrorRecord, NULL, Nothing

-----------------------------------------------------------------------------
(* What the client does to the list around the core's steps.               *)
LEMMA RecordingAdd ==
  ASSUME ListInv, NEW h \in Nat, Recording(\E a \in Address : AddTargetRecord(h, a))
  PROVE  ListInv'
<1>1. CASE DLL_debug
  BY <1>1, AddInv DEF Recording
<1>2. CASE ~DLL_debug
  BY <1>2, ListUnmoved DEF Recording
<1> QED BY <1>1, <1>2

(* The record of a module that was freed is taken off.                     *)
LEMMA UnrecordInv ==
  ASSUME ListInv, ShellInv, NEW h, Unrecord(h)
  PROVE  ListInv' /\ status' \in {"running", "exited", "crashed"}
<1>1. CASE Recording(RmTargetRecord(h) \/ RmNothing(h)) /\ UNCHANGED status
  <2>1. CASE DLL_debug /\ RmTargetRecord(h)
    BY <1>1, <2>1, RemoveInv DEF ShellInv
  <2>2. CASE UNCHANGED debug_vars
    BY <1>1, <2>2, ListUnmoved DEF ShellInv
  <2> QED BY <1>1, <2>1, <2>2 DEF Recording, RmNothing
<1>2. CASE status' = "crashed" /\ UNCHANGED debug_vars
  BY <1>2, ListUnmoved
<1> QED BY <1>1, <1>2 DEF Unrecord

(* A step of the core with the client's callbacks.                         *)
LEMMA CoreStepInv ==
  ASSUME RidlInv, CoreStep
  PROVE  RidlInv'
<1>1. PICK n \in Nat :
        /\ n = Len(loaded) /\ ret \in Answer(n) /\ NewHandle = n + 1
  BY Parts DEF RidlInv
<1>2. LoadStep \/ UnloadStep
  BY DEF CoreStep, CoreAlone, Placing, NestedLoad, NestedLoadReturned, NestedUnloadReturned,
         LoadStep, UnloadStep
<1>3. CoreInv'
  BY <1>2, LoadStepInv, UnloadStepInv DEF RidlInv, CoreStep
<1>4. ListInv' /\ status' \in {"running", "exited", "crashed"}
  <2>1. CASE CoreAlone /\ UNCHANGED status
    BY <2>1, ListUnmoved DEF CoreAlone, RidlInv, ShellInv
  <2>2. CASE Placing /\ UNCHANGED status
    <3>1. NewHandle \in Nat
      BY <1>1
    <3>2. CASE AddSegmentRecord(NewHandle)
      BY <2>2, <3>1, <3>2, SegmentInv DEF RidlInv, ShellInv
    <3>3. CASE UNCHANGED debug_vars
      BY <2>2, <3>3, ListUnmoved DEF RidlInv, ShellInv
    <3> QED BY <2>2, <3>2, <3>3 DEF Placing, Recording
  <2>3. CASE NestedLoad /\ UNCHANGED status
    <3>1. Needed(Me.file)[Me.next] \in ModuleName
      BY <2>3, NeededFile, RidlAssumption DEF NestedLoad, LoadDependent, RidlInv
    <3>2. CASE AddHostRecord(Needed(Me.file)[Me.next])
      BY <2>3, <3>1, <3>2, PushInv DEF RidlInv, ShellInv
    <3>3. CASE UNCHANGED debug_vars
      BY <2>3, <3>3, ListUnmoved DEF RidlInv, ShellInv
    <3> QED BY <2>3, <3>2, <3>3 DEF NestedLoad, Recording
  <2>4. CASE NestedLoadReturned
    <3>1. ret.val \in Nat
      BY <1>1 DEF Answer
    <3>2. CASE UNCHANGED debug_vars
      BY <2>4, <3>2, ListUnmoved DEF NestedLoadReturned, RidlInv, ShellInv
    <3>3. CASE Recording(\E a \in Address : AddTargetRecord(ret.val, a)) /\ UNCHANGED status
      BY <3>1, <3>3, RecordingAdd DEF RidlInv, ShellInv
    <3> QED BY <2>4, <3>2, <3>3 DEF NestedLoadReturned
  <2>5. CASE NestedUnloadReturned
    <3>1. CASE Unrecord(Unloaded)
      BY <3>1, UnrecordInv DEF RidlInv
    <3>2. CASE UNCHANGED << debug_vars, status >>
      BY <3>2, ListUnmoved DEF RidlInv, ShellInv
    <3> QED BY <2>5, <3>1, <3>2 DEF NestedUnloadReturned
  <2> QED BY <2>1, <2>2, <2>3, <2>4, <2>5 DEF CoreStep
<1>5. Len(loaded) \in Nat /\ Len(loaded') \in Nat /\ Len(loaded) <= Len(loaded')
  BY <1>2, <1>3, StepKeepsHandles DEF RidlInv
<1>6. ShellInv'
  <2>1. script' = script /\ prog_handle' \in 0 .. Len(loaded') /\ loaded_program' = loaded_program
    BY <1>5 DEF CoreStep, RidlInv, ShellInv
  <2> QED BY <1>4, <1>5, <2>1, ShellKept DEF RidlInv
<1> QED BY <1>3, <1>4, <1>6 DEF RidlInv

(* The shell takes the answer of its load or unload.                       *)
LEMMA ShellReturnedInv ==
  ASSUME RidlInv, ShellReturned
  PROVE  RidlInv'
<1>1. PICK n \in Nat : n = Len(loaded) /\ ret \in Answer(n)
  BY Parts DEF RidlInv
<1>2. ret.val \in 0 .. n /\ ret.val \in Nat
  BY <1>1 DEF Answer
<1>3. CoreInv'
  BY TopReturnedInv DEF RidlInv, ShellReturned
<1>4. /\ Len(loaded) = n /\ Len(loaded') = n
      /\ prog_handle \in 0 .. n /\ 0 \in 0 .. n
  BY <1>1 DEF ShellReturned, TopReturned, RidlInv, ShellInv
<1>5. CASE ShellLoadFailed
  <2>1. ListInv'
    BY <1>5, ListUnmoved DEF ShellLoadFailed, RidlInv
  <2>2. /\ script' = script /\ prog_handle' = 0 /\ loaded_program' = loaded_program
        /\ status' \in {"running", "exited", "crashed"}
    BY <1>5 DEF ShellLoadFailed, EndIfScriptFailed, RidlInv, ShellInv
  <2>3. ShellInv'
    BY <1>1, <1>4, <2>2, ShellKept DEF RidlInv
  <2> QED BY <1>3, <2>1, <2>3 DEF RidlInv
<1>6. CASE ShellLoadDone
  <2>1. ListInv'
    <3>1. CASE Recording(\E a \in Address : AddTargetRecord(ret.val, a))
      BY <1>2, <3>1, RecordingAdd DEF RidlInv
    <3>2. CASE UNCHANGED debug_vars
      BY <3>2, ListUnmoved DEF RidlInv
    <3> QED BY <1>6, <3>1, <3>2 DEF ShellLoadDone
  <2>2. /\ script' = script /\ prog_handle' = ret.val
        /\ loaded_program' = ret.val \/ loaded_program' = loaded_program
        /\ status' \in {"running", "exited", "crashed"}
    BY <1>6 DEF ShellLoadDone, RidlInv, ShellInv
  <2>3. ShellInv'
    BY <1>1, <1>2, <1>4, <2>2, ShellKept DEF RidlInv
  <2> QED BY <1>3, <2>1, <2>3 DEF RidlInv
<1>7. CASE ShellUnloadDone
  <2>1. ListInv' /\ status' \in {"running", "exited", "crashed"}
    <3>1. CASE Unrecord(prog_handle)
      BY <3>1, UnrecordInv DEF RidlInv
    <3>2. CASE UNCHANGED << debug_vars, status >>
      BY <3>2, ListUnmoved DEF RidlInv, ShellInv
    <3> QED BY <1>7, <3>1, <3>2 DEF ShellUnloadDone
  <2>2. script' = script /\ prog_handle' = prog_handle /\ loaded_program' = 0
    BY <1>7 DEF ShellUnloadDone, ProgramAfterUnload
  <2>3. ShellInv'
    BY <1>1, <1>4, <2>1, <2>2, ShellKept DEF RidlInv
  <2> QED BY <1>3, <2>1, <2>3 DEF RidlInv
<1> QED BY <1>5, <1>6, <1>7 DEF ShellReturned

-----------------------------------------------------------------------------
(* Commands.                                                               *)
LEMMA ShellLoadInv ==
  ASSUME RidlInv, NEW file \in File, ShellLoad(file), UNCHANGED disk
  PROVE  RidlInv'
<1>1. CoreInv'
  BY TopLoadInv DEF RidlInv, ShellLoad
<1>2. ListInv'
  <2>1. file \in ModuleName
    BY RidlAssumption
  <2>2. CASE AddHostRecord(file)
    BY <2>1, <2>2, PushInv DEF RidlInv
  <2>3. CASE UNCHANGED debug_vars
    BY <2>3, ListUnmoved DEF RidlInv
  <2> QED BY <2>2, <2>3 DEF ShellLoad, Recording
<1>3. ShellInv'
  BY DEF ShellLoad, TopLoad, NoShellChange, shell_vars, RidlInv, ShellInv
<1> QED BY <1>1, <1>2, <1>3 DEF RidlInv

(* base_image.                                                             *)
LEMMA BaseImageInv ==
  ASSUME RidlInv, NEW file \in File, BaseImage(file)
  PROVE  RidlInv'
<1> DEFINE handle == IF InProcessOfLoading(file) THEN 0 ELSE NewHandle
<1>1. CoreInv'
  BY LoadSymbolsInv DEF RidlInv, BaseImage
<1>2. /\ Len(loaded) \in Nat /\ Len(loaded') \in Nat /\ Len(loaded) <= Len(loaded')
  <2>1. UNCHANGED loaded \/ Enqueue(file, TRUE)
    BY DEF BaseImage, LoadSymbols
  <2> QED BY <1>1, <2>1, HandlesStay DEF RidlInv
<1>3. handle \in 0 .. Len(loaded') /\ handle \in 0 .. HandleBound
  <2>1. CASE InProcessOfLoading(file)
    BY <1>2, <2>1, DloadAssumption
  <2>2. CASE ~InProcessOfLoading(file)
    <3>1. loaded' = Append(loaded, NewModule(file, TRUE)) /\ Len(loaded) < HandleBound
      BY <2>2 DEF BaseImage, LoadSymbols, Enqueue
    <3>2. loaded \in Seq(Module)
      BY DEF RidlInv, CoreInv, ModulesOK
    <3>3. Len(loaded') = Len(loaded) + 1
      BY <3>1, <3>2
    <3> QED BY <1>2, <2>2, <3>1, <3>3, DloadAssumption DEF NewHandle
  <2> QED BY <2>1, <2>2
<1>4. /\ prog_handle' = handle
      /\ FindDLModules(handle # 0 /\ file \in WithDLModules, handle)
      /\ script' = script /\ loaded_program' = loaded_program
      /\ status' \in {"running", "exited", "crashed"}
  BY DEF BaseImage, EndIfScriptFailed, RidlInv, ShellInv
<1> HIDE DEF handle
<1>5. ListInv'
  <2>1. handle # 0 => handle \in Header
    BY <1>3, RidlAssumption, DloadAssumption
  <2> QED BY <1>4, <2>1, FindInv DEF RidlInv
<1>6. ShellInv'
  BY <1>2, <1>3, <1>4, ShellKept DEF RidlInv
<1> QED BY <1>1, <1>5, <1>6 DEF RidlInv

(* unload.                                                                 *)
LEMMA ShellUnloadInv ==
  ASSUME RidlInv, ShellUnload
  PROVE  RidlInv'
<1>1. CoreInv'
  BY ClientUnloadInv DEF RidlInv, ShellUnload, AtPrompt
<1>2. ListInv'
  BY ListUnmoved DEF ShellUnload, RidlInv
<1>3. Len(loaded) \in Nat /\ Len(loaded') \in Nat /\ Len(loaded) <= Len(loaded')
  BY <1>1, HandlesStay DEF ShellUnload, EnterUnload, RidlInv
<1>4. /\ script' = script /\ prog_handle' = prog_handle /\ loaded_program' = loaded_program
      /\ status' \in {"running", "exited", "crashed"}
      /\ prog_handle \in 0 .. Len(loaded)
  BY DEF ShellUnload, shell_vars, RidlInv, ShellInv
<1>5. ShellInv'
  BY <1>3, <1>4, ShellKept DEF RidlInv
<1> QED BY <1>1, <1>2, <1>5 DEF RidlInv

(* The commands that do not reach the core.                                *)
LEMMA OtherCommandInv ==
  ASSUME RidlInv, ShellLoadNotFound \/ BaseImageRejected \/ Leave
  PROVE  RidlInv'
<1>1. CoreInv' /\ loaded' = loaded
  BY Unmoved DEF RidlInv, ShellLoadNotFound, BaseImageRejected, Leave, vars
<1>2. ListInv'
  <2>1. CASE UNCHANGED debug_vars
    BY <2>1, ListUnmoved DEF RidlInv
  <2>2. CASE FindDLModules(FALSE, 0)
    BY <2>2, FindInv DEF RidlInv
  <2> QED BY <2>1, <2>2 DEF ShellLoadNotFound, BaseImageRejected, Leave
<1>3. ShellInv'
  <2>1. Len(loaded) \in Nat
    BY DEF RidlInv, CoreInv
  <2>2. CASE ShellLoadNotFound \/ Leave
    BY <1>1, <2>2 DEF ShellLoadNotFound, Leave, RidlInv, ShellInv
  <2>3. CASE BaseImageRejected
    BY <1>1, <2>1, <2>3 DEF BaseImageRejected, EndIfScriptFailed, RidlInv, ShellInv
  <2> QED BY <2>2, <2>3
<1> QED BY <1>1, <1>2, <1>3 DEF RidlInv

-----------------------------------------------------------------------------
(* Every step of the shell, the core and the client keeps the invariant.   *)
LEMMA RidlNextInv == RidlInv /\ [RidlNext]_ridl_vars => RidlInv'
<1> SUFFICES ASSUME RidlInv, [RidlNext]_ridl_vars PROVE RidlInv'
  OBVIOUS
<1>1. CASE UNCHANGED ridl_vars
  BY <1>1, Unmoved, ListUnmoved DEF ridl_vars, shell_vars, vars, RidlInv, ShellInv
<1>2. CASE CoreStep
  BY <1>2, CoreStepInv
<1>3. CASE ShellReturned
  BY <1>3, ShellReturnedInv
<1>4. CASE Command
  BY <1>4, ShellLoadInv, BaseImageInv, ShellUnloadInv, OtherCommandInv DEF Command
<1> QED BY <1>1, <1>2, <1>3, <1>4 DEF RidlNext

(* The invariant at the start.                                             *)
LEMMA RidlInitInv == RidlInit => RidlInv
<1> SUFFICES ASSUME RidlInit PROVE RidlInv
  OBVIOUS
<1>1. CoreInv /\ ListInv
  BY CoreInitInv, ListInitInv DEF RidlInit
<1>2. ShellInv
  <2>1. Len(loaded) = 0
    BY DEF RidlInit, Init
  <2> QED BY <2>1 DEF RidlInit, ShellInv
<1> QED BY <1>1, <1>2 DEF RidlInv

(* The types of the shell, the core and the list, in every session.        *)
THEOREM RidlTypeCorrect == RidlSpec => []RidlTypeOK
<1>1. RidlInv => RidlTypeOK
  <2> SUFFICES ASSUME RidlInv PROVE RidlTypeOK
    OBVIOUS
  <2>1. TypeOK /\ ListTypeOK
    BY CoreTypes DEF RidlInv, ListInv
  <2>2. Len(loaded) \in Nat /\ Handles = 1 .. Len(loaded)
    BY DEF RidlInv, CoreInv, Handles
  <2> QED BY <2>1, <2>2 DEF RidlInv, ShellInv, RidlTypeOK
<1> QED
  BY RidlInitInv, RidlNextInv, <1>1, PTL DEF RidlSpec

(* In every session, whichever loads fail, the records the debugger follows *)
(* stay linked in target memory as the client's mirror has them.           *)
THEOREM SessionStaysLinked == RidlSpec => []LinkedInOrder
<1>1. RidlInv => LinkedInOrder
  BY DEF RidlInv, ListInv
<1> QED
  BY RidlInitInv, RidlNextInv, <1>1, PTL DEF RidlSpec

-----------------------------------------------------------------------------
(* The calls of the core in a session.  The shell may give up a handle     *)
(* again that it gave up before, so a use_count can be below the uses, but *)
(* what is being unloaded has no use left that a second unload could end.  *)
Spent ==
  \A i \in DOMAIN frames :
     frames[i].op = "unload" => loaded[frames[i].h].use_count <= 0

SessionCalls == ControlInv /\ Spent

(* The steps of a load keep the calls in order; none of them answers an    *)
(* unload.                                                                 *)
LEMMA LoadStepCalls ==
  ASSUME CoreInv, CoreInv', SessionCalls, LoadStep
  PROVE  /\ SessionCalls' /\ Loading /\ Loading' /\ frames # << >>
         /\ ret.of \notin {"unload", "abort"} /\ ret'.of \notin {"unload", "abort"}
<1>1. PICK pc : Running("load", pc)
  BY DEF LoadStep, RejectFile, RejectCircular, FailAllocation, PlaceModule, NeededIsLoaded,
         LoadDependent, DependentNotFound, DependentReturned, NeededDone, Relocate, RelocateDone,
         PendingNeeded
<1>2. /\ frames # << >> /\ Me \in Frame /\ Me.op = "load" /\ Me.pc = pc /\ Loading
      /\ Me = frames[Len(frames)] /\ Len(frames) \in DOMAIN frames
  BY <1>1, RunningTop, CallArray DEF SessionCalls, ControlInv
<1>3. ret.of \notin {"unload", "abort"}
  BY <1>2 DEF SessionCalls, ControlInv, ReturnOK, Unloading
<1>4. client' = client
  BY DEF LoadStep, RejectFile, RejectCircular, FailAllocation, PlaceModule, NeededIsLoaded,
         LoadDependent, DependentNotFound, DependentReturned, NeededDone, Relocate, RelocateDone
<1>5. QueuedOnce'
  <2>1. CASE FailAllocation \/ PlaceModule
    BY <2>1, JoinsQueue DEF FailAllocation, PlaceModule, Enqueue, SessionCalls, ControlInv
  <2>2. CASE UNCHANGED loaded_objects
    BY <2>2 DEF SessionCalls, ControlInv, QueuedOnce
  <2> QED BY <2>1, <2>2 DEF LoadStep, RejectFile, RejectCircular, NeededIsLoaded, LoadDependent,
             DependentNotFound, DependentReturned, NeededDone, Relocate, RelocateDone
<1>6. CASE \E v \in {0, Me.h} : Return("load", v)
  <2>1. PICK v \in {0, Me.h} : Return("load", v)
    BY <1>6
  <2>2. ControlInv' /\ Loading'
    BY <1>1, <1>4, <1>5, <2>1, LoadReturned DEF SessionCalls
  <2>3. ret'.of = "load"
    BY <2>1 DEF Return
  <2> QED BY <1>2, <1>3, <2>2, <2>3 DEF SessionCalls, Spent, Loading
<1>7. CASE /\ ret' = NoReturn
           /\ \E f \in Frame : /\ frames' = Append(Front(frames), f) /\ f.op = "load"
                               /\ f.pc \in {"needed", "relocate"} /\ (f.h = Me.h \/ f.h = NewHandle)
  <2>1. PICK f \in Frame : /\ frames' = Append(Front(frames), f) /\ f.op = "load"
                           /\ f.pc \in {"needed", "relocate"} /\ (f.h = Me.h \/ f.h = NewHandle)
    BY <1>7
  <2>2. ControlInv' /\ Loading'
    BY <1>1, <1>4, <1>5, <1>7, <2>1, LoadGoesOn DEF SessionCalls
  <2>3. ret'.of = "none"
    BY <1>7 DEF NoReturn
  <2> QED BY <1>2, <1>3, <2>2, <2>3 DEF SessionCalls, Spent, Loading
<1>8. CASE LoadDependent
  <2>1. PICK f \in File : frames' = Append(frames, Call("load", f, 0, "headers"))
    BY <1>8, NeededFile DEF LoadDependent
  <2>2. ret = NoReturn /\ UNCHANGED << ret, client, loaded_objects >> /\ Me.pc = "needed"
    BY <1>2, <1>8 DEF LoadDependent, PendingNeeded, Running, Me
  <2>3. ControlInv' /\ Loading'
    BY <1>2, <2>1, <2>2, LoadCalled DEF SessionCalls
  <2>4. ret'.of = "none"
    BY <2>2 DEF NoReturn
  <2> QED BY <1>2, <1>3, <2>3, <2>4 DEF SessionCalls, Spent, Loading
<1>9. CASE Relocate
  <2>1. UNCHANGED << frames, ret, client, loaded_objects, loaded >>
    BY <1>9 DEF Relocate
  <2>2. ControlInv' /\ Loading'
    BY <1>2, <2>1 DEF SessionCalls, ControlInv, CallsOK, ReturnOK, OneHolder, QueuedOnce, Loading,
                      Unloading, Me
  <2> QED BY <1>2, <1>3, <2>1, <2>2 DEF SessionCalls, Spent, Loading
<1>10. CASE PlaceModule
  <2> DEFINE f == Call("load", Me.file, NewHandle, "needed")
  <2>1. f \in Frame /\ f.op = "load" /\ f.pc = "needed" /\ f.h = NewHandle
    BY <1>2, CallArray DEF Call, Frame, NewHandle
  <2>2. CASE frames' = Append(Front(frames), f) /\ UNCHANGED ret
    <3>1. ret' = NoReturn
      <4>1. Me.pc = "headers"
        BY <1>10 DEF PlaceModule, Running, Me
      <4> QED BY <1>2, <2>2, <4>1 DEF SessionCalls, ControlInv, ReturnOK
    <3> HIDE DEF f
    <3> QED BY <1>7, <2>1, <2>2, <3>1
  <2>3. CASE Return("load", 0)
    BY <1>6, <2>3
  <2> QED BY <1>10, <2>2, <2>3 DEF PlaceModule
<1>11. ASSUME frames' = NextNeeded, ret' = NoReturn, Me.pc = "needed"
       PROVE  \E f \in Frame : /\ frames' = Append(Front(frames), f) /\ f.op = "load"
                               /\ f.pc \in {"needed", "relocate"} /\ (f.h = Me.h \/ f.h = NewHandle)
  <2>1. CallsOK
    BY DEF SessionCalls, ControlInv
  <2> QED BY <1>1, <1>2, <1>11, <2>1, NextCall DEF NextNeeded
<1>12. CASE NeededIsLoaded
  <2>1. ret' = NoReturn /\ frames' = NextNeeded /\ Me.pc = "needed"
    BY <1>12 DEF NeededIsLoaded, PendingNeeded, Running, Me
  <2> QED BY <1>7, <1>11, <2>1
<1>13. CASE DependentReturned
  <2>1. CASE Return("load", 0)
    BY <1>6, <2>1
  <2>2. CASE frames' = NextNeeded /\ ret' = NoReturn
    <3>1. Me.pc = "needed"
      BY <1>13 DEF DependentReturned, Running, Me
    <3> QED BY <1>7, <1>11, <2>2, <3>1
  <2> QED BY <1>13, <2>1, <2>2 DEF DependentReturned
<1>14. CASE NeededDone
  <2>1. CASE Return("load", Me.h)
    BY <1>6, <2>1
  <2>2. CASE frames' = Append(Front(frames), [Me EXCEPT !.pc = "relocate"]) /\ UNCHANGED ret
    <3>1. /\ [Me EXCEPT !.pc = "relocate"] \in Frame /\ [Me EXCEPT !.pc = "relocate"].op = "load"
          /\ [Me EXCEPT !.pc = "relocate"].pc = "relocate" /\ [Me EXCEPT !.pc = "relocate"].h = Me.h
      BY <1>2 DEF Frame
    <3>2. ret' = NoReturn
      BY <1>14, <2>2 DEF NeededDone
    <3> QED BY <1>7, <2>2, <3>1, <3>2
  <2> QED BY <1>14, <2>1, <2>2 DEF NeededDone
<1>15. CASE RejectFile \/ RejectCircular \/ FailAllocation \/ DependentNotFound \/ RelocateDone
  BY <1>6, <1>15 DEF RejectFile, RejectCircular, FailAllocation, DependentNotFound, RelocateDone
<1> QED BY <1>8, <1>9, <1>10, <1>12, <1>13, <1>14, <1>15 DEF LoadStep

(* They take no module from memory, bring in new ones only, and terminate  *)
(* none.                                                                   *)
LEMMA LoadStepModules ==
  ASSUME CoreInv, SessionCalls, LoadStep
  PROVE  /\ Handles \subseteq Handles' /\ Live \subseteq Live'
         /\ \A m \in Handles : m \in Live' => m \in Live
         /\ \A m \in Handles : loaded'[m].base = loaded[m].base
         /\ fini_order' = fini_order
<1>1. fini_order' = fini_order
  BY DEF LoadStep, RejectFile, RejectCircular, FailAllocation, PlaceModule, NeededIsLoaded,
         LoadDependent, DependentNotFound, DependentReturned, NeededDone, Relocate, RelocateDone
<1>2. Len(loaded) \in Nat /\ Handles = 1 .. Len(loaded) /\ loaded \in Seq(Module)
  BY CallArray DEF CoreInv, ModulesOK
<1>3. CASE FailAllocation \/ PlaceModule
  <2>1. Enqueue(Me.file, FALSE)
    BY <1>3 DEF FailAllocation, PlaceModule
  <2>2. Live' = Live \cup {NewHandle} /\ NewHandle \notin Handles
    BY <2>1, JoinsQueue DEF Enqueue, SessionCalls, ControlInv
  <2>3. NewModule(Me.file, FALSE) \in Module
    <3>1. Me.file \in File
      BY <1>3, RunningTop DEF FailAllocation, PlaceModule, Frame, SessionCalls, ControlInv
    <3> QED BY <3>1, EmptySeq DEF NewModule, Module
  <2>4. /\ Len(loaded') = Len(loaded) + 1
        /\ \A m \in Handles : loaded'[m] = loaded[m]
    BY <1>2, <2>1, <2>3, AppendProperties DEF Enqueue
  <2>5. Handles \subseteq Handles'
    BY <1>2, <2>4 DEF Handles
  <2> QED BY <1>1, <2>2, <2>4, <2>5
<1>4. ASSUME Len(loaded') = Len(loaded), UNCHANGED loaded_objects,
             \A m \in Handles : loaded'[m].base = loaded[m].base
      PROVE  /\ Handles \subseteq Handles' /\ Live \subseteq Live'
             /\ \A m \in Handles : m \in Live' => m \in Live
  BY <1>4 DEF Handles, Live
<1>5. ASSUME NEW pc, Running("load", pc), pc # "headers" PROVE Me.h \in Handles
  <2>1. Me = frames[Len(frames)] /\ Len(frames) \in 1 .. Len(frames) /\ Me.pc = pc
    BY <1>5, RunningTop DEF SessionCalls, ControlInv
  <2>2. Me.h \in 0 .. Len(loaded) /\ Me.h # 0
    BY <1>5, <2>1, CallArray
  <2> QED BY <1>2, <2>2
<1>6. CASE NeededIsLoaded
  <2>1. PICK d \in Handles : loaded' = ShareModule(Me.h, d)
    BY <1>6, FoundIsLive DEF NeededIsLoaded
  <2>2. Me.h \in Handles /\ UNCHANGED loaded_objects
    BY <1>5, <1>6 DEF NeededIsLoaded, PendingNeeded
  <2> QED BY <1>1, <1>4, <2>1, <2>2, ModuleShared
<1>7. CASE DependentNotFound \/ DependentReturned
  <2>1. PICK d \in Nat : loaded' = AddDependency(Me.h, d)
    <3>1. ret.val \in Nat
      BY <1>2 DEF CoreInv, Answer
    <3> QED BY <1>7, <3>1 DEF DependentNotFound, DependentReturned
  <2>2. Me.h \in Handles /\ UNCHANGED loaded_objects
    BY <1>5, <1>7 DEF DependentNotFound, DependentReturned, PendingNeeded
  <2> QED BY <1>1, <1>4, <2>1, <2>2, DependencyAdded
<1>8. CASE UNCHANGED << loaded, loaded_objects >>
  BY <1>1, <1>4, <1>8
<1> QED BY <1>3, <1>6, <1>7, <1>8 DEF LoadStep, RejectFile, RejectCircular, LoadDependent,
           NeededDone, Relocate, RelocateDone

(* What DLOAD_unload does when it is entered with whatever handle: nothing *)
(* to unload, or the last use of a module ends and its unload begins.      *)
LEMMA SessionEnters ==
  ASSUME CoreInv, NEW h, NEW stack, EnterUnload(h, stack)
  PROVE  /\ Handles' = Handles
         /\ \A m \in Handles :
              /\ loaded'[m].deps = loaded[m].deps /\ loaded'[m].base = loaded[m].base
              /\ loaded'[m].file = loaded[m].file
              /\ loaded[m].use_count <= 0 => loaded'[m].use_count <= 0
         /\ \/ frames' = stack /\ ret' = [of |-> "unload", val |-> 0]
            \/ /\ h \in Live /\ h \in Handles
               /\ loaded[h].use_count = 1 /\ loaded'[h].use_count = 0
               /\ frames' = Append(stack, Call("unload", loaded[h].file, h, "depend"))
               /\ ret' = NoReturn
<1>1. CASE h \notin Live
  BY <1>1 DEF EnterUnload, Handles
<1>2. CASE h \in Live
  <2>1. h \in Handles /\ loaded' = [loaded EXCEPT ![h].use_count = @ - 1]
    BY <1>2, LiveHandles DEF EnterUnload
  <2>2. /\ Handles' = Handles
        /\ \A m \in Handles :
             /\ loaded'[m].use_count = loaded[m].use_count - (IF m = h THEN 1 ELSE 0)
             /\ loaded'[m].deps = loaded[m].deps /\ loaded'[m].base = loaded[m].base
             /\ loaded'[m].file = loaded[m].file
    BY <2>1, CountDropped
  <2>3. \A m \in Handles : loaded[m].use_count \in Int
    BY ModuleRecord
  <2>4. \A m \in Handles : loaded[m].use_count <= 0 => loaded'[m].use_count <= 0
    BY <2>2, <2>3
  <2>5. CASE StillUsed(h)
    BY <1>2, <2>2, <2>4, <2>5 DEF EnterUnload
  <2>6. CASE ~StillUsed(h)
    <3>1. loaded[h].use_count = 1 /\ loaded'[h].use_count = 0
      BY <2>1, <2>2, <2>6 DEF StillUsed
    <3> QED BY <1>2, <2>1, <2>2, <2>4, <2>6, <3>1 DEF EnterUnload
  <2> QED BY <2>5, <2>6
<1> QED BY <1>1, <1>2

(* Where an unload stands on the list of its module.                       *)
Given(i) == loaded[frames[i].h].deps[frames[i].next]

(* The call that unloads.                                                  *)
LEMMA SessionUnloads ==
  ASSUME CoreInv, SessionCalls, Running("unload", "depend")
  PROVE  /\ frames # << >> /\ Len(frames) \in Nat \ {0} /\ DOMAIN frames = 1 .. Len(frames)
         /\ Me = frames[Len(frames)] /\ Me \in Frame /\ Me.op = "unload" /\ Unloading
         /\ Me.h \in Handles
         /\ \A i \in DOMAIN frames : frames[i].h \in Handles /\ frames[i].op = "unload"
<1>1. /\ frames # << >> /\ Len(frames) \in Nat \ {0} /\ DOMAIN frames = 1 .. Len(frames)
      /\ Me = frames[Len(frames)] /\ Me \in Frame /\ Me.op = "unload" /\ Unloading
  BY RunningTop, CallArray DEF SessionCalls, ControlInv
<1>2. ASSUME NEW i \in DOMAIN frames PROVE frames[i].h \in Handles /\ frames[i].op = "unload"
  <2>1. frames[i].op = "unload" /\ frames[i].pc = "depend"
    BY <1>1 DEF Unloading, SessionCalls, ControlInv, CallsOK
  <2>2. frames[i].h \in 0 .. Len(loaded) /\ frames[i].h # 0
    BY <1>1, <2>1, CallArray
  <2>3. Handles = 1 .. Len(loaded) /\ Len(loaded) \in Nat
    BY CallArray
  <2> QED BY <2>1, <2>2, <2>3
<1> QED BY <1>1, <1>2

(* The next dependent is given up: its use only ends, or its unload begins. *)
LEMMA DependentCalls ==
  ASSUME CoreInv, CoreInv', SessionCalls, UnloadDependent
  PROVE  /\ SessionCalls' /\ Unloading'
         /\ \/ /\ Replaced([Me EXCEPT !.next = Me.next + 1])
               /\ ret' = [of |-> "unload", val |-> 0]
            \/ \E g \in Frame :
                 /\ ReplacedPushed([Me EXCEPT !.next = Me.next + 1], g)
                 /\ ret' = NoReturn
                 /\ g.h = Given(Len(frames))
                 /\ loaded[g.h].use_count = 1 /\ g.h \in Live
<1> DEFINE h == loaded[Me.h].deps[Me.next]
<1>1. /\ Running("unload", "depend") /\ EnterUnload(h, NextDependent)
      /\ UNCHANGED << client, loaded_objects >>
  BY DEF UnloadDependent
<1>2. /\ frames # << >> /\ Len(frames) \in Nat \ {0} /\ DOMAIN frames = 1 .. Len(frames)
      /\ Me = frames[Len(frames)] /\ Me \in Frame /\ Me.op = "unload" /\ Unloading
      /\ \A i \in DOMAIN frames : frames[i].h \in Handles /\ frames[i].op = "unload"
  BY <1>1, SessionUnloads
<1>3. h = Given(Len(frames))
  BY <1>2 DEF Given
<1> HIDE DEF h
<1>4. /\ Handles' = Handles
      /\ \A m \in Handles : loaded[m].use_count <= 0 => loaded'[m].use_count <= 0
      /\ \/ frames' = NextDependent /\ ret' = [of |-> "unload", val |-> 0]
         \/ /\ h \in Live /\ h \in Handles
            /\ loaded[h].use_count = 1 /\ loaded'[h].use_count = 0
            /\ frames' = Append(NextDependent, Call("unload", loaded[h].file, h, "depend"))
            /\ ret' = NoReturn
  BY <1>1, SessionEnters
<1>5. \A i \in DOMAIN frames : loaded[frames[i].h].use_count <= 0 /\ loaded'[frames[i].h].use_count <= 0
  BY <1>2, <1>4 DEF SessionCalls, Spent
<1>6. CASE frames' = NextDependent /\ ret' = [of |-> "unload", val |-> 0]
  <2>1. ControlInv' /\ Unloading' /\ Replaced([Me EXCEPT !.next = Me.next + 1])
    BY <1>1, <1>6, UnloadSkips DEF SessionCalls
  <2>2. [Me EXCEPT !.next = Me.next + 1].h = Me.h
    BY <1>2 DEF Frame
  <2>3. \A i \in 1 .. Len(frames) : frames'[i].h = frames[i].h
    BY <1>2, <2>1, <2>2 DEF Replaced
  <2>4. Spent'
    BY <1>2, <1>5, <2>1, <2>3 DEF Spent, Replaced
  <2> QED BY <1>6, <2>1, <2>4 DEF SessionCalls
<1>7. CASE /\ h \in Live /\ h \in Handles
           /\ loaded[h].use_count = 1 /\ loaded'[h].use_count = 0
           /\ frames' = Append(NextDependent, Call("unload", loaded[h].file, h, "depend"))
           /\ ret' = NoReturn
  <2> DEFINE g == Call("unload", loaded[h].file, h, "depend")
             f == [Me EXCEPT !.next = Me.next + 1]
  <2>1. loaded[h].file \in File /\ h \in Nat
    BY <1>7, ModuleRecord, CallArray DEF Module
  <2>2. g \in Frame /\ g.h = h
    BY <2>1 DEF Call, Frame
  <2>3. \A i \in DOMAIN frames : frames[i].h # h
    BY <1>5, <1>7
  <2>4. ControlInv' /\ Unloading' /\ ReplacedPushed(f, g)
    BY <1>1, <1>7, <2>1, <2>3, UnloadNests DEF SessionCalls
  <2>5. f.h = Me.h
    BY <1>2 DEF Frame
  <2> HIDE DEF f, g
  <2>6. ASSUME NEW i \in 1 .. Len(frames) + 1 PROVE loaded'[frames'[i].h].use_count <= 0
    <3>1. CASE i = Len(frames) + 1
      <4>1. frames'[i] = g
        BY <2>4, <3>1 DEF ReplacedPushed
      <4>2. loaded'[frames'[i].h].use_count = 0
        BY <1>7, <2>2, <4>1
      <4> QED BY <4>2
    <3>2. CASE i # Len(frames) + 1
      <4>1. i \in 1 .. Len(frames)
        BY <1>2, <3>2
      <4>2. frames'[i].h = frames[i].h
        BY <1>2, <2>4, <2>5, <3>2 DEF ReplacedPushed
      <4> QED BY <1>2, <1>5, <4>1, <4>2
    <3> QED BY <3>1, <3>2
  <2>7. Spent'
    BY <2>4, <2>6 DEF Spent, ReplacedPushed
  <2> QED BY <1>3, <1>7, <2>2, <2>4, <2>7 DEF SessionCalls, f
<1> QED BY <1>4, <1>6, <1>7

(* The other steps of an unload: the nested one came back, the module is   *)
(* freed, or the program ends while it is.                                 *)
LEMMA UnloadEndCalls ==
  ASSUME CoreInv, CoreInv', SessionCalls, DependentUnloaded \/ UnloadDone \/ AbortOnDoubleFree
  PROVE  /\ SessionCalls' /\ Unloading /\ Unloading' /\ frames # << >>
         /\ UNCHANGED << loaded, client >> /\ Handles' = Handles /\ Live' \subseteq Live
         /\ \/ /\ UNCHANGED << frames, loaded_objects >>
               /\ ret.of = "unload" /\ ret' = NoReturn
            \/ Popped /\ ret' = [of |-> "unload", val |-> 1] /\ Me.h \notin Live'
            \/ UNCHANGED frames /\ ret' = [of |-> "abort", val |-> 0]
<1>1. Running("unload", "depend") /\ UNCHANGED << loaded, client >>
  BY DEF DependentUnloaded, UnloadDone, AbortOnDoubleFree
<1>2. frames # << >> /\ Unloading /\ Me.h \in Handles /\ DOMAIN frames = 1 .. Len(frames)
      /\ Me.pc = "depend"
  BY <1>1, SessionUnloads DEF Running, Me
<1>3. Handles' = Handles
  BY <1>1 DEF Handles
<1>4. CASE DependentUnloaded
  <2>1. ret.of = "unload" /\ ret' = NoReturn /\ UNCHANGED << frames, loaded_objects >>
    BY <1>4 DEF DependentUnloaded
  <2>2. ControlInv' /\ Unloading'
    BY <1>1, <1>2, <2>1 DEF SessionCalls, ControlInv, CallsOK, ReturnOK, OneHolder, QueuedOnce,
                            Loading, Unloading, Me, NoReturn
  <2>3. Spent' /\ Live' = Live
    BY <1>1, <2>1 DEF SessionCalls, Spent, Live
  <2> QED BY <1>1, <1>2, <1>3, <2>1, <2>2, <2>3 DEF SessionCalls
<1>5. ASSUME loaded_objects' = RemoveLoaded(Me.h)
      PROVE  QueuedOnce' /\ Live' \subseteq Live /\ Me.h \notin Live'
  <2>1. PICK u : u = Me.h
    OBVIOUS
  <2>2. CASE u \in Live
    <3>1. Live' = Live \ {u} /\ QueuedOnce'
      BY <1>5, <2>1, <2>2, LeavesQueue DEF SessionCalls, ControlInv
    <3> QED BY <2>1, <3>1
  <2>3. CASE u \notin Live
    <3>1. NodesOf(u) = {}
      BY <2>3 DEF NodesOf, Live, ToSet
    <3>2. UNCHANGED loaded_objects
      BY <1>5, <2>1, <3>1 DEF RemoveLoaded
    <3>3. Live' = Live
      BY <3>2 DEF Live
    <3> QED BY <2>1, <2>3, <3>2, <3>3 DEF SessionCalls, ControlInv, QueuedOnce
  <2> QED BY <2>2, <2>3
<1>6. CASE UnloadDone
  <2>1. loaded_objects' = RemoveLoaded(Me.h) /\ Return("unload", 1)
    BY <1>6 DEF UnloadDone
  <2>2. QueuedOnce' /\ Live' \subseteq Live /\ Me.h \notin Live'
    BY <1>5, <2>1
  <2>3. ControlInv' /\ Unloading' /\ Popped
    BY <1>1, <2>1, <2>2, UnloadReturns DEF SessionCalls
  <2>4. Spent'
    <3>1. \A i \in DOMAIN frames' : i \in DOMAIN frames /\ frames'[i] = frames[i]
      BY <1>2, <2>3, CallArray DEF Popped
    <3> QED BY <1>1, <3>1 DEF SessionCalls, Spent
  <2> QED BY <1>1, <1>2, <1>3, <2>1, <2>2, <2>3, <2>4 DEF SessionCalls, Return
<1>7. CASE AbortOnDoubleFree
  <2>1. /\ loaded_objects' = RemoveLoaded(Me.h) /\ UNCHANGED frames
        /\ ret' = [of |-> "abort", val |-> 0] /\ ret = NoReturn
    BY <1>7 DEF AbortOnDoubleFree
  <2>2. QueuedOnce' /\ Live' \subseteq Live
    BY <1>5, <2>1
  <2>3. CallsOK' /\ Unloading'
    BY <1>2, <2>1 DEF SessionCalls, ControlInv, CallsOK, Loading, Unloading
  <2>4. ReturnOK' /\ OneHolder'
    BY <1>1, <1>2, <2>1, <2>3 DEF ReturnOK, OneHolder, SessionCalls, ControlInv, Me
  <2>5. Spent'
    BY <1>1, <2>1 DEF SessionCalls, Spent
  <2> QED BY <1>1, <1>2, <1>3, <2>1, <2>2, <2>3, <2>4, <2>5 DEF SessionCalls, ControlInv
<1> QED BY <1>4, <1>6, <1>7

(* The shell gives up the handle it remembers, one it holds or not.        *)
LEMMA ShellUnloadCalls ==
  ASSUME CoreInv, CoreInv', SessionCalls, ShellUnload
  PROVE  /\ SessionCalls' /\ Unloading' /\ Live' = Live /\ Handles' = Handles
         /\ \A m \in Handles : loaded'[m].base = loaded[m].base
         /\ \/ frames' = << >> /\ ret' = [of |-> "unload", val |-> 0]
            \/ /\ Len(frames') = 1 /\ DOMAIN frames' = {1} /\ frames'[1].h = prog_handle
               /\ frames'[1].op = "unload" /\ ret' = NoReturn /\ prog_handle \in Live
<1>1. /\ Idle /\ EnterUnload(prog_handle, << >>) /\ client' = client \ {prog_handle}
      /\ UNCHANGED loaded_objects
  BY DEF ShellUnload, AtPrompt
<1>2. /\ Handles' = Handles
      /\ \A m \in Handles : loaded'[m].base = loaded[m].base
      /\ \/ frames' = << >> /\ ret' = [of |-> "unload", val |-> 0]
         \/ /\ prog_handle \in Live /\ prog_handle \in Handles
            /\ loaded'[prog_handle].use_count = 0
            /\ frames' = Append(<< >>, Call("unload", loaded[prog_handle].file, prog_handle, "depend"))
            /\ ret' = NoReturn
  BY <1>1, SessionEnters
<1>3. QueuedOnce' /\ Live' = Live
  BY <1>1 DEF SessionCalls, ControlInv, QueuedOnce, Live
<1>4. CASE frames' = << >> /\ ret' = [of |-> "unload", val |-> 0]
  <2>1. DOMAIN frames' = {}
    BY <1>4
  <2>2. CallsOK' /\ ReturnOK' /\ OneHolder' /\ Unloading' /\ Spent'
    BY <1>4, <2>1 DEF CallsOK, ReturnOK, OneHolder, Loading, Unloading, Spent
  <2> QED BY <1>2, <1>3, <1>4, <2>2 DEF SessionCalls, ControlInv
<1>5. CASE /\ prog_handle \in Live /\ prog_handle \in Handles
           /\ loaded'[prog_handle].use_count = 0
           /\ frames' = Append(<< >>, Call("unload", loaded[prog_handle].file, prog_handle, "depend"))
           /\ ret' = NoReturn
  <2> DEFINE g == Call("unload", loaded[prog_handle].file, prog_handle, "depend")
  <2>1. g.op = "unload" /\ g.pc = "depend" /\ g.h = prog_handle /\ prog_handle # 0
    BY <1>5, CallArray DEF Call
  <2>2. Len(frames') = 1 /\ DOMAIN frames' = {1} /\ frames'[1] = g
    <3>1. frames' = << g >>
      BY <1>5
    <3> HIDE DEF g
    <3> QED BY <3>1
  <2> HIDE DEF g
  <2>3. Unloading' /\ CallsOK'
    BY <2>1, <2>2 DEF CallsOK, Unloading, Loading
  <2>4. Me' = g
    <3>1. frames' # << >>
      BY <2>2, EmptySeq
    <3> QED BY <2>2, <3>1, FrontEntries DEF CoreInv, FramesOK, Me
  <2>5. ReturnOK' /\ OneHolder'
    BY <1>5, <2>1, <2>2, <2>3, <2>4 DEF ReturnOK, OneHolder, NoReturn
  <2>6. Spent'
    <3>1. \A i \in DOMAIN frames' : loaded'[frames'[i].h].use_count = 0
      BY <1>5, <2>1, <2>2
    <3>2. ASSUME NEW i \in DOMAIN frames' PROVE loaded'[frames'[i].h].use_count <= 0
      BY <3>1
    <3> QED BY <3>2 DEF Spent
  <2> QED BY <1>2, <1>3, <1>5, <2>1, <2>2, <2>3, <2>5, <2>6 DEF SessionCalls, ControlInv
<1> QED BY <1>2, <1>4, <1>5

(* With no call under way, a load is asked for, a base image is added, or   *)
(* an answer is taken.                                                     *)
LEMMA PromptCalls ==
  ASSUME CoreInv, CoreInv', SessionCalls,
         \/ \E f \in File : TopLoad(f) /\ UNCHANGED disk
         \/ \E f \in File : LoadSymbols(f) /\ UNCHANGED disk
         \/ TopReturned
  PROVE  SessionCalls'
<1>1. frames = << >> /\ Idle /\ Loading /\ DOMAIN frames = {}
  <2>1. Idle
    BY DEF TopLoad, LoadSymbols, TopReturned
  <2>2. frames = << >> /\ DOMAIN frames = {}
    BY <2>1 DEF Idle
  <2> QED BY <2>1, <2>2 DEF Loading
<1>2. ASSUME NEW f \in File, TopLoad(f) PROVE SessionCalls'
  <2>1. frames' = Append(frames, Call("load", f, 0, "headers"))
    BY <1>1, <1>2 DEF TopLoad, Call
  <2>2. ret = NoReturn /\ UNCHANGED << ret, client, loaded_objects >>
    BY <1>2 DEF TopLoad
  <2>3. ControlInv' /\ Loading'
    BY <1>1, <2>1, <2>2, LoadCalled DEF SessionCalls
  <2> QED BY <2>3 DEF SessionCalls, Spent, Loading
<1>3. CASE TopReturned
  <2>1. ControlInv' /\ frames' = frames
    BY <1>3, ClientTakes DEF SessionCalls, TopReturned
  <2> QED BY <1>1, <2>1 DEF SessionCalls, Spent
<1>4. ASSUME NEW f \in File, LoadSymbols(f) PROVE SessionCalls'
  <2>1. UNCHANGED << frames, ret >> /\ ret = NoReturn
    BY <1>4 DEF LoadSymbols
  <2>2. CASE UNCHANGED << loaded, loaded_objects, client >>
    <3>1. ControlInv'
      BY <1>1, <2>1, <2>2 DEF SessionCalls, ControlInv, CallsOK, ReturnOK, OneHolder, QueuedOnce,
                              Loading, Unloading, Me
    <3> QED BY <1>1, <2>1, <3>1 DEF SessionCalls, Spent
  <2>3. CASE Enqueue(f, TRUE) /\ client' = client \cup {NewHandle}
    <3>1. QueuedOnce'
      BY <2>3, JoinsQueue DEF Enqueue, SessionCalls, ControlInv
    <3>2. ControlInv'
      BY <1>1, <2>1, <2>3, <3>1, ClientAddsImage DEF SessionCalls
    <3> QED BY <1>1, <2>1, <3>2 DEF SessionCalls, Spent
  <2> QED BY <1>4, <2>2, <2>3 DEF LoadSymbols
<1> QED BY <1>2, <1>3, <1>4

(* Steps that leave the core alone.                                        *)
LEMMA UnmovedCalls ==
  ASSUME SessionCalls, UNCHANGED << loaded, loaded_objects, frames, ret, client >>
  PROVE  SessionCalls'
<1>1. ControlInv'
  <2>1. CallsOK' /\ Loading' = Loading /\ Unloading' = Unloading
    BY DEF SessionCalls, ControlInv, CallsOK, Loading, Unloading
  <2>2. ReturnOK' /\ OneHolder' /\ QueuedOnce'
    BY <2>1 DEF SessionCalls, ControlInv, ReturnOK, OneHolder, QueuedOnce, Me
  <2> QED BY <2>1, <2>2 DEF ControlInv
<1> QED BY <1>1 DEF SessionCalls, Spent

(* Every step of a session keeps the calls in order.                       *)
LEMMA SessionCallsNext ==
  RidlInv /\ RidlInv' /\ SessionCalls /\ [RidlNext]_ridl_vars => SessionCalls'
<1> SUFFICES ASSUME CoreInv, CoreInv', SessionCalls, [RidlNext]_ridl_vars PROVE SessionCalls'
  BY DEF RidlInv
<1>1. CASE UNCHANGED vars
  BY <1>1, UnmovedCalls DEF vars
<1>2. CASE CoreStep
  <2>1. LoadStep \/ UnloadStep
    BY <1>2 DEF CoreStep, CoreAlone, Placing, NestedLoad, NestedLoadReturned,
                NestedUnloadReturned, LoadStep, UnloadStep
  <2> QED BY <2>1, LoadStepCalls, DependentCalls, UnloadEndCalls DEF UnloadStep
<1>3. CASE ShellReturned
  BY <1>3, PromptCalls DEF ShellReturned
<1>4. CASE Command
  <2>1. ASSUME NEW f \in File, ShellLoad(f), UNCHANGED disk PROVE SessionCalls'
    BY <2>1, PromptCalls DEF ShellLoad
  <2>2. ASSUME NEW f \in File, BaseImage(f) PROVE SessionCalls'
    BY <2>2, PromptCalls DEF BaseImage
  <2>3. CASE ShellUnload
    BY <2>3, ShellUnloadCalls
  <2>4. CASE ShellLoadNotFound \/ BaseImageRejected \/ Leave
    BY <1>1, <2>4 DEF ShellLoadNotFound, BaseImageRejected, Leave
  <2> QED BY <1>4, <2>1, <2>2, <2>3, <2>4 DEF Command
<1>5. CASE UNCHANGED ridl_vars
  BY <1>1, <1>5 DEF ridl_vars
<1> QED BY <1>2, <1>3, <1>4, <1>5 DEF RidlNext

(* They start in order.                                                    *)
LEMMA SessionCallsInit == RidlInit => SessionCalls
<1> SUFFICES ASSUME RidlInit PROVE SessionCalls
  OBVIOUS
<1>1. /\ DOMAIN frames = {} /\ DOMAIN loaded_objects = {} /\ frames = << >>
      /\ ret = NoReturn
  BY DEF RidlInit, Init
<1> QED BY <1>1 DEF SessionCalls, Spent, ControlInv, CallsOK, ReturnOK, OneHolder, QueuedOnce,
                    Loading, Unloading, NoReturn

-----------------------------------------------------------------------------
(* The module whose entry point the shell remembers.                       *)
Stays(m) == m \in Live /\ ~Terminated(m)

(* An unload is under way, or its answer is not taken yet.                 *)
GivingUp == (frames # << >> /\ Unloading) \/ ret.of \in {"unload", "abort"}

(* Between unloads the program the shell remembers stays; so do, during a   *)
(* load, the modules being loaded and the one that was just answered.      *)
ProgramStays ==
  /\ (~GivingUp /\ loaded_program # 0) => Stays(loaded_program)
  /\ \A i \in DOMAIN frames : frames[i].op = "load" /\ frames[i].h # 0 => Stays(frames[i].h)
  /\ (ret.of = "load" /\ ret.val # 0) => Stays(ret.val)

(* Whom a call that loads works on: whom one worked on before, or a new     *)
(* module, just placed.                                                    *)
LEMMA LoadStepHolders ==
  ASSUME CoreInv, SessionCalls, LoadStep
  PROVE  /\ \A i \in DOMAIN frames' :
              \/ frames'[i].h = 0
              \/ \E j \in DOMAIN frames : frames'[i].h = frames[j].h
              \/ frames'[i].h = NewHandle /\ NewHandle \in Live'
         /\ ret'.of = "load" /\ ret'.val # 0 => \E j \in DOMAIN frames : ret'.val = frames[j].h
<1>1. PICK pc : Running("load", pc)
  BY DEF LoadStep, RejectFile, RejectCircular, FailAllocation, PlaceModule, NeededIsLoaded,
         LoadDependent, DependentNotFound, DependentReturned, NeededDone, Relocate, RelocateDone,
         PendingNeeded
<1>2. /\ frames # << >> /\ Me \in Frame /\ Me.pc = pc
      /\ Me = frames[Len(frames)] /\ Len(frames) \in DOMAIN frames
      /\ DOMAIN frames = 1 .. Len(frames) /\ Len(frames) \in Nat \ {0}
  BY <1>1, RunningTop, CallArray DEF SessionCalls, ControlInv
<1>3. CallsOK
  BY DEF SessionCalls, ControlInv
<1>4. CASE \E v \in {0, Me.h} : Return("load", v)
  <2>1. PICK v \in {0, Me.h} : Return("load", v)
    BY <1>4
  <2>2. Popped /\ ret'.val = v
    BY <1>2, <2>1, PopFrames DEF Return
  <2> QED BY <1>2, <2>1, <2>2 DEF Popped
<1>5. ASSUME NEW f \in Frame, frames' = Append(Front(frames), f), ret' = NoReturn,
             f.h = Me.h \/ (f.h = NewHandle /\ NewHandle \in Live')
      PROVE  /\ \A i \in DOMAIN frames' :
                  \/ frames'[i].h = 0
                  \/ \E j \in DOMAIN frames : frames'[i].h = frames[j].h
                  \/ frames'[i].h = NewHandle /\ NewHandle \in Live'
             /\ ret'.of # "load"
  <2>1. Replaced(f)
    BY <1>2, <1>5, ReplaceFrame
  <2>2. ret'.of # "load"
    BY <1>5 DEF NoReturn
  <2> QED BY <1>2, <1>5, <2>1, <2>2 DEF Replaced
<1>6. CASE LoadDependent
  <2>1. PICK file \in File : frames' = Append(frames, Call("load", file, 0, "headers"))
    BY <1>6, NeededFile DEF LoadDependent
  <2>2. Call("load", file, 0, "headers") \in Frame /\ Call("load", file, 0, "headers").h = 0
    BY DEF Call, Frame
  <2>3. Pushed(Call("load", file, 0, "headers"))
    BY <2>1, <2>2, PushFrame
  <2>4. ret'.of # "load"
    BY <1>6 DEF LoadDependent, PendingNeeded, NoReturn
  <2> QED BY <1>2, <2>2, <2>3, <2>4 DEF Pushed
<1>7. CASE Relocate
  <2>1. ret' = ret /\ frames' = frames /\ Me.pc = "relocate"
    BY <1>7 DEF Relocate, Running, Me
  <2>2. ret'.of # "load"
    BY <1>2, <2>1 DEF SessionCalls, ControlInv, ReturnOK, NoReturn
  <2> QED BY <2>1, <2>2
<1>8. CASE PlaceModule
  <2> DEFINE f == Call("load", Me.file, NewHandle, "needed")
  <2>1. f \in Frame /\ f.h = NewHandle
    BY <1>2, CallArray DEF Call, Frame, NewHandle
  <2>2. NewHandle \in Live'
    BY <1>8, JoinsQueue DEF PlaceModule, Enqueue, SessionCalls, ControlInv
  <2>3. CASE frames' = Append(Front(frames), f) /\ UNCHANGED ret
    <3>1. Me.pc = "headers"
      BY <1>8 DEF PlaceModule, Running, Me
    <3>2. ret' = NoReturn
      BY <1>2, <2>3, <3>1 DEF SessionCalls, ControlInv, ReturnOK
    <3> HIDE DEF f
    <3> QED BY <1>5, <2>1, <2>2, <2>3, <3>2
  <2>4. CASE Return("load", 0)
    BY <1>4, <2>4
  <2> QED BY <1>8, <2>3, <2>4 DEF PlaceModule
<1>9. CASE frames' = NextNeeded /\ ret' = NoReturn
  <2>1. PICK f \in Frame : frames' = Append(Front(frames), f) /\ f.h = Me.h
    BY <1>1, <1>3, <1>9, NextCall DEF NextNeeded
  <2> QED BY <1>5, <1>9, <2>1
<1>10. CASE NeededIsLoaded
  BY <1>9, <1>10 DEF NeededIsLoaded, PendingNeeded
<1>11. CASE DependentReturned
  <2>1. CASE Return("load", 0)
    BY <1>4, <2>1
  <2> QED BY <1>9, <1>11, <2>1 DEF DependentReturned
<1>12. CASE NeededDone
  <2>1. CASE Return("load", Me.h)
    BY <1>4, <2>1
  <2>2. CASE frames' = Append(Front(frames), [Me EXCEPT !.pc = "relocate"]) /\ UNCHANGED ret
    <3>1. [Me EXCEPT !.pc = "relocate"] \in Frame /\ [Me EXCEPT !.pc = "relocate"].h = Me.h
      BY <1>2 DEF Frame
    <3>2. ret' = NoReturn
      BY <1>12, <2>2 DEF NeededDone
    <3> QED BY <1>5, <2>2, <3>1, <3>2
  <2> QED BY <1>12, <2>1, <2>2 DEF NeededDone
<1>13. CASE RejectFile \/ RejectCircular \/ FailAllocation \/ DependentNotFound \/ RelocateDone
  BY <1>4, <1>13 DEF RejectFile, RejectCircular, FailAllocation, DependentNotFound, RelocateDone
<1> QED BY <1>6, <1>7, <1>8, <1>10, <1>11, <1>12, <1>13 DEF LoadStep

(* What is in memory and was not terminated stays so when modules are added *)
(* and none is terminated; a new one was not terminated before it came.    *)
LEMMA StaysLoading ==
  ASSUME CoreInv, Live \subseteq Live', fini_order' = fini_order, NEW k, k = NewHandle
  PROVE  /\ \A m : Stays(m) => Stays(m)'
         /\ k \in Live' => Stays(k)'
<1>1. \A m : Terminated(m)' <=> Terminated(m)
  BY DEF Terminated
<1>2. ~Terminated(k)
  <2>1. fini_order \in Seq(1 .. Len(loaded)) /\ Len(loaded) \in Nat
    BY DEF CoreInv, OrdersOK
  <2>2. \A i \in 1 .. Len(fini_order) : fini_order[i] \in 1 .. Len(loaded)
    BY <2>1, ElementOfSeq
  <2>3. DOMAIN fini_order = 1 .. Len(fini_order)
    BY <2>1, LenProperties
  <2>4. Len(loaded) + 1 \notin 1 .. Len(loaded)
    BY <2>1
  <2> QED BY <2>2, <2>3, <2>4 DEF Terminated, Contains, NewHandle
<1> QED BY <1>1, <1>2 DEF Stays

(* A step of a load.                                                       *)
LEMMA ProgramLoading ==
  ASSUME CoreInv, CoreInv', SessionCalls, ProgramStays, LoadStep, loaded_program' = loaded_program
  PROVE  ProgramStays'
<1>1. /\ Loading /\ frames # << >> /\ ret.of \notin {"unload", "abort"} /\ Loading'
  BY LoadStepCalls
<1>2. ~GivingUp
  <2>1. Len(frames) \in DOMAIN frames
    BY <1>1, TopOfCalls, CallArray
  <2> QED BY <1>1, <2>1 DEF GivingUp, Loading, Unloading
<1>3. PICK k : k = NewHandle
  OBVIOUS
<1>4. /\ \A m : Stays(m) => Stays(m)'
      /\ k \in Live' => Stays(k)'
  <2>1. Live \subseteq Live' /\ fini_order' = fini_order
    BY LoadStepModules
  <2> QED BY <1>3, <2>1, StaysLoading
<1>5. ASSUME NEW a, a # 0, \E j \in DOMAIN frames : a = frames[j].h PROVE Stays(a)'
  BY <1>1, <1>4, <1>5 DEF ProgramStays, Loading
<1>6. ASSUME NEW a, a = loaded_program, a # 0 PROVE Stays(a)'
  BY <1>2, <1>4, <1>6 DEF ProgramStays
<1>7. ASSUME NEW i \in DOMAIN frames', NEW a, a = frames'[i].h, a # 0 PROVE Stays(a)'
  <2>1. (\E j \in DOMAIN frames : a = frames[j].h) \/ (a = k /\ k \in Live')
    BY <1>3, <1>7, LoadStepHolders
  <2> QED BY <1>4, <1>5, <1>7, <2>1
<1>8. ASSUME NEW a, ret'.of = "load", a = ret'.val, a # 0 PROVE Stays(a)'
  <2>1. \E j \in DOMAIN frames : a = frames[j].h
    BY <1>8, LoadStepHolders
  <2> QED BY <1>5, <1>8, <2>1
<1> QED BY <1>6, <1>7, <1>8 DEF ProgramStays, Stays, Terminated

(* A step of an unload: what the program is does not matter until its       *)
(* answer is taken.                                                        *)
LEMMA ProgramUnloading ==
  ASSUME CoreInv, CoreInv', SessionCalls, UnloadStep
  PROVE  ProgramStays'
<1>1. CASE UnloadDependent
  <2>1. Unloading' /\ ret'.of # "load"
    BY <1>1, DependentCalls DEF NoReturn
  <2>2. DOMAIN frames' # {}
    <3>1. Len(frames) \in Nat \ {0}
      BY <1>1, SessionUnloads DEF UnloadDependent
    <3>2. Len(frames) \in DOMAIN frames'
      BY <1>1, <3>1, DependentCalls DEF Replaced, ReplacedPushed
    <3> QED BY <3>2
  <2>3. GivingUp'
    <3>1. frames' # << >>
      BY <2>2
    <3> QED BY <2>1, <3>1 DEF GivingUp
  <2> QED BY <2>1, <2>3 DEF ProgramStays, Unloading
<1>2. CASE DependentUnloaded \/ UnloadDone \/ AbortOnDoubleFree
  <2>1. Unloading' /\ ret'.of # "load"
    BY <1>2, UnloadEndCalls DEF NoReturn
  <2>2. GivingUp'
    BY <1>2, UnloadEndCalls DEF GivingUp
  <2> QED BY <2>1, <2>2 DEF ProgramStays, Unloading
<1> QED BY <1>1, <1>2 DEF UnloadStep

(* The shell takes the answer of its load or unload.                       *)
LEMMA ProgramReturned ==
  ASSUME CoreInv, ProgramStays, ShellReturned
  PROVE  ProgramStays'
<1>1. /\ frames = << >> /\ DOMAIN frames' = {} /\ ret' = NoReturn
      /\ UNCHANGED << loaded_objects, fini_order >>
  BY DEF ShellReturned, TopReturned, Idle
<1>2. \A m : Stays(m) => Stays(m)'
  BY <1>1 DEF Stays, Live, Terminated
<1>3. ASSUME NEW a, a = loaded_program', a # 0 PROVE Stays(a)'
  <2>1. CASE ret.of = "load"
    <3>1. ~GivingUp
      BY <1>1, <2>1 DEF GivingUp
    <3>2. a = loaded_program \/ (a = ret.val /\ ret.val # 0)
      <4>1. ~ShellUnloadDone
        BY <2>1 DEF ShellUnloadDone
      <4>2. CASE ShellLoadFailed
        BY <1>3, <4>2 DEF ShellLoadFailed
      <4>3. CASE ShellLoadDone
        <5>1. ret.val # 0 /\ (loaded_program' = ret.val \/ loaded_program' = loaded_program)
          BY <4>3 DEF ShellLoadDone
        <5> QED BY <1>3, <5>1
      <4> QED BY <4>1, <4>2, <4>3 DEF ShellReturned
    <3> QED BY <1>2, <1>3, <2>1, <3>1, <3>2 DEF ProgramStays
  <2>2. CASE ret.of # "load"
    <3>1. ~ShellLoadFailed /\ ~ShellLoadDone
      <4>1. ShellLoadFailed => ret = [of |-> "load", val |-> 0]
        BY DEF ShellLoadFailed
      <4>2. ShellLoadDone => ret.of = "load"
        BY DEF ShellLoadDone
      <4>3. ret # [of |-> "load", val |-> 0]
        BY <2>2
      <4> QED BY <2>2, <4>1, <4>2, <4>3
    <3>2. loaded_program' = 0
      BY <3>1 DEF ShellReturned, ShellUnloadDone, ProgramAfterUnload
    <3> QED BY <1>3, <3>2
  <2> QED BY <2>1, <2>2
<1> QED BY <1>1, <1>3 DEF ProgramStays, Stays, Terminated, NoReturn

(* Commands.  A load and a base image take nothing from memory; while the  *)
(* answer of an unload is out, the program does not matter.                *)
LEMMA ProgramCommand ==
  ASSUME CoreInv, CoreInv', SessionCalls, ProgramStays, Command
  PROVE  ProgramStays'
<1>1. AtPrompt
  BY DEF Command, ShellLoad, BaseImage, ShellLoadNotFound, BaseImageRejected, ShellUnload, Leave
<1>2. frames = << >> /\ ret = NoReturn /\ DOMAIN frames = {} /\ ~GivingUp
  BY <1>1 DEF AtPrompt, Idle, GivingUp, NoReturn
<1>3. CASE ShellUnload
  <2>1. Unloading' /\ ret'.of # "load" /\ GivingUp'
    <3>1. CASE frames' = << >> /\ ret' = [of |-> "unload", val |-> 0]
      <4>1. DOMAIN frames' = {}
        BY <3>1
      <4> QED BY <3>1, <4>1 DEF Unloading, GivingUp
    <3>2. CASE DOMAIN frames' = {1} /\ ret' = NoReturn
      <4>1. frames' # << >>
        BY <3>2
      <4> QED BY <1>3, <3>2, <4>1, ShellUnloadCalls DEF GivingUp, NoReturn
    <3> QED BY <1>3, <3>1, <3>2, ShellUnloadCalls
  <2> QED BY <2>1 DEF ProgramStays, Unloading
<1>4. ASSUME loaded_program' = loaded_program, ret' = NoReturn,
             Live \subseteq Live', fini_order' = fini_order,
             \A i \in DOMAIN frames' : frames'[i].h = 0
      PROVE  ProgramStays'
  <2>1. \A m : Stays(m) => Stays(m)'
    BY <1>4, StaysLoading
  <2>2. ASSUME NEW a, a = loaded_program, a # 0 PROVE Stays(a)'
    BY <1>2, <2>1, <2>2 DEF ProgramStays
  <2> QED BY <1>4, <2>2 DEF ProgramStays, Stays, Terminated, NoReturn
<1>5. ASSUME NEW f \in File, ShellLoad(f) PROVE ProgramStays'
  <2>1. /\ frames' = << Call("load", f, 0, "headers") >> /\ ret' = NoReturn
        /\ UNCHANGED << loaded_objects, fini_order, loaded_program >>
    BY <1>2, <1>5 DEF ShellLoad, TopLoad, NoShellChange, shell_vars
  <2>2. Live' = Live
    BY <2>1 DEF Live
  <2>3. Call("load", f, 0, "headers").h = 0
    BY DEF Call
  <2>4. \A i \in DOMAIN frames' : frames'[i].h = 0
    BY <2>1, <2>3
  <2> QED BY <1>4, <2>1, <2>2, <2>4
<1>6. ASSUME NEW f \in File, BaseImage(f) PROVE ProgramStays'
  <2>1. /\ UNCHANGED << frames, ret, fini_order, loaded_program >>
        /\ UNCHANGED loaded_objects \/ Enqueue(f, TRUE)
    BY <1>6 DEF BaseImage, LoadSymbols
  <2>2. Live \subseteq Live'
    <3>1. CASE Enqueue(f, TRUE)
      BY <3>1, JoinsQueue DEF Enqueue, SessionCalls, ControlInv
    <3>2. CASE UNCHANGED loaded_objects
      BY <3>2 DEF Live
    <3> QED BY <2>1, <3>1, <3>2
  <2> QED BY <1>2, <1>4, <2>1, <2>2
<1>7. CASE ShellLoadNotFound \/ BaseImageRejected \/ Leave
  <2>1. UNCHANGED << frames, ret, fini_order, loaded_program, loaded_objects >>
    BY <1>7 DEF ShellLoadNotFound, BaseImageRejected, Leave, vars
  <2>2. Live' = Live
    BY <2>1 DEF Live
  <2> QED BY <1>2, <1>4, <2>1, <2>2
<1> QED BY <1>3, <1>5, <1>6, <1>7 DEF Command

(* Every step of a session.                                                *)
LEMMA ProgramNext ==
  RidlInv /\ RidlInv' /\ SessionCalls /\ ProgramStays /\ [RidlNext]_ridl_vars => ProgramStays'
<1> SUFFICES ASSUME CoreInv, CoreInv', SessionCalls, ProgramStays, [RidlNext]_ridl_vars
             PROVE  ProgramStays'
  BY DEF RidlInv
<1>1. CASE CoreStep
  <2>1. LoadStep \/ UnloadStep
    BY <1>1 DEF CoreStep, CoreAlone, Placing, NestedLoad, NestedLoadReturned,
                NestedUnloadReturned, LoadStep, UnloadStep
  <2>2. loaded_program' = loaded_program
    BY <1>1 DEF CoreStep
  <2> QED BY <2>1, <2>2, ProgramLoading, ProgramUnloading
<1>2. CASE UNCHANGED ridl_vars
  <2>1. UNCHANGED << frames, ret, fini_order, loaded_program, loaded_objects >>
    BY <1>2 DEF ridl_vars, vars, shell_vars
  <2>2. \A m : Stays(m)' <=> Stays(m)
    BY <2>1 DEF Stays, Live, Terminated
  <2>3. GivingUp' <=> GivingUp
    BY <2>1 DEF GivingUp, Unloading
  <2> QED BY <2>1, <2>2, <2>3 DEF ProgramStays, Stays, Terminated
<1> QED BY <1>1, <1>2, ProgramReturned, ProgramCommand DEF RidlNext

(* In every session, whichever loads fail and whatever is given up, the     *)
(* entry point "execute" would call is that of a module in memory that was *)
(* not terminated.                                                         *)
THEOREM ExecutedStays == RidlSpec => []ExecutedIsInMemory
<1>1. RidlInit => ProgramStays
  BY DEF RidlInit, Init, ProgramStays, NoReturn
<1>2. ProgramStays => ExecutedIsInMemory
  BY DEF ProgramStays, ExecutedIsInMemory, CanExecute, AtPrompt, Idle, GivingUp, NoReturn, Stays
<1> QED
  BY RidlInitInv, RidlNextInv, SessionCallsInit, SessionCallsNext, ProgramNext, <1>1, <1>2, PTL
     DEF RidlSpec

-----------------------------------------------------------------------------
(* The record of the program the shell would unload.                       *)
Recorded(h) == \E i \in DOMAIN mirror_debug_list : mirror_debug_list[i].handle = h

(* A record that is added leaves the others in the list.                   *)
LEMMA AddKeepsRecords ==
  ASSUME ListTypeOK, NEW handle \in Nat, NEW a \in Address, AddTargetRecord(handle, a)
  PROVE  Recorded(handle)' /\ \A h : Recorded(h) => Recorded(h)'
<1> DEFINE rec == [handle |-> handle, module_name |-> Last(dl_debug_stk).module_name,
                   target_address |-> a, next |-> NULL]
           linked == LinkLast(a)
<1>1. PICK n \in Nat :
        /\ n = Len(Mirror) /\ Mirror \in Seq(MirrorRecord) /\ DOMAIN Mirror = 1 .. n
        /\ \A i \in 1 .. n : Mirror[i] \in MirrorRecord
  BY MirrorEntries
<1>2. Last(dl_debug_stk) \in HostRecords
  BY FrontEntries DEF ListTypeOK, AddTargetRecord, HostRecords
<1>3. rec \in MirrorRecord /\ rec.handle = handle
  BY <1>2 DEF HostRecords, MirrorRecord, NULL
<1>4. /\ linked \in Seq(MirrorRecord) /\ Len(linked) = n
      /\ \A i \in 1 .. n : linked[i].handle = Mirror[i].handle
  <2>1. CASE Mirror = << >>
    BY <1>1, <2>1, EmptySeq DEF LinkLast, Mirror
  <2>2. CASE Mirror # << >>
    <3> DEFINE last == [Mirror[n] EXCEPT !.next = a]
               new == [Mirror EXCEPT ![n] = last]
    <3>1. n \in 1 .. n
      BY <1>1, <2>2, EmptySeq
    <3>2. linked = new
      BY <1>1, <2>2 DEF LinkLast, Mirror
    <3>3. last \in MirrorRecord /\ last.handle = Mirror[n].handle
      BY <1>1, <3>1 DEF MirrorRecord
    <3> HIDE DEF last, linked
    <3>4. /\ new \in Seq(MirrorRecord) /\ Len(new) = n
          /\ \A i \in 1 .. n : new[i] = IF i = n THEN last ELSE Mirror[i]
      BY <1>1, <3>1, <3>3, ExceptSeq
    <3> HIDE DEF new
    <3> QED BY <3>2, <3>3, <3>4
  <2> QED BY <2>1, <2>2
<1>5. Mirror' = Append(linked, rec)
  BY DEF AddTargetRecord, Mirror
<1> HIDE DEF linked, rec
<1>6. /\ Append(linked, rec) \in Seq(MirrorRecord)
      /\ Len(Append(linked, rec)) = n + 1
      /\ \A i \in 1 .. n : Append(linked, rec)[i] = linked[i]
      /\ Append(linked, rec)[n + 1] = rec
  BY <1>3, <1>4, AppendProperties
<1>7. DOMAIN Mirror' = 1 .. n + 1
  BY <1>5, <1>6, LenProperties
<1>8. n + 1 \in 1 .. n + 1 /\ \A i \in 1 .. n : i \in 1 .. n + 1
  BY <1>1
<1>9. Recorded(handle)'
  BY <1>3, <1>5, <1>6, <1>7, <1>8 DEF Recorded, Mirror
<1>10. ASSUME NEW h, Recorded(h) PROVE Recorded(h)'
  <2>1. PICK i \in 1 .. n : Mirror[i].handle = h
    BY <1>1, <1>10 DEF Recorded, Mirror
  <2>2. i \in DOMAIN Mirror' /\ Mirror'[i].handle = h
    BY <1>4, <1>5, <1>6, <1>7, <1>8, <2>1
  <2> QED BY <2>2 DEF Recorded, Mirror
<1> QED BY <1>9, <1>10

(* A record that is taken off leaves those of other handles in the list.   *)
LEMMA RemoveKeepsRecords ==
  ASSUME ListTypeOK, NEW handle, RmTargetRecord(handle)
  PROVE  \A h : h # handle /\ Recorded(h) => Recorded(h)'
<1> DEFINE found == {i \in DOMAIN mirror_debug_list : mirror_debug_list[i].handle = handle}
<1>1. PICK n \in Nat :
        /\ n = Len(Mirror) /\ Mirror \in Seq(MirrorRecord) /\ DOMAIN Mirror = 1 .. n
        /\ \A i \in 1 .. n : Mirror[i] \in MirrorRecord
  BY MirrorEntries
<1>2. PICK k \in 1 .. n : k = Position(handle) /\ Mirror[k].handle = handle
  <2>1. found # {} /\ Position(handle) = Min(found)
    BY DEF RmTargetRecord, Position
  <2>2. found \in SUBSET (1 .. n) /\ found \in SUBSET Nat
    BY <1>1 DEF Mirror
  <2>3. \A i \in found : Mirror[i].handle = handle
    BY DEF Mirror
  <2> HIDE DEF found
  <2>4. Min(found) \in found
    BY <2>1, <2>2, FirstOfPlaces
  <2> QED BY <2>1, <2>2, <2>3, <2>4
<1> DEFINE unlinked == Unlink(k)
<1>3. /\ unlinked \in Seq(MirrorRecord) /\ Len(unlinked) = n
      /\ \A i \in 1 .. n : unlinked[i].handle = Mirror[i].handle
  <2>1. CASE k = 1
    BY <1>1, <2>1 DEF Unlink, Mirror
  <2>2. CASE k # 1
    <3> DEFINE prev == [Mirror[k - 1] EXCEPT !.next = Mirror[k].next]
               new == [Mirror EXCEPT ![k - 1] = prev]
    <3>1. k - 1 \in 1 .. n
      BY <2>2
    <3>2. unlinked = new
      BY <2>2 DEF Unlink, Mirror
    <3>3. prev \in MirrorRecord /\ prev.handle = Mirror[k - 1].handle
      <4>1. Mirror[k] \in MirrorRecord /\ Mirror[k - 1] \in MirrorRecord
        BY <1>1, <3>1
      <4> QED BY <4>1 DEF MirrorRecord
    <3> HIDE DEF prev, unlinked
    <3>4. /\ new \in Seq(MirrorRecord) /\ Len(new) = n
          /\ \A i \in 1 .. n : new[i] = IF i = k - 1 THEN prev ELSE Mirror[i]
      BY <1>1, <3>1, <3>3, ExceptSeq
    <3> HIDE DEF new
    <3> QED BY <3>2, <3>3, <3>4
  <2> QED BY <2>1, <2>2
<1>4. Mirror' = RemoveAt(unlinked, k)
  BY <1>2 DEF RmTargetRecord, RemoveRecord, Mirror
<1> HIDE DEF unlinked, found
<1>5. /\ RemoveAt(unlinked, k) \in Seq(MirrorRecord)
      /\ Len(RemoveAt(unlinked, k)) = n - 1
      /\ \A i \in 1 .. n - 1 :
            /\ Earlier(i, k) \in 1 .. n
            /\ RemoveAt(unlinked, k)[i] = unlinked[Earlier(i, k)]
  BY <1>3, RemoveAtEntries
<1>6. DOMAIN Mirror' = 1 .. n - 1
  BY <1>4, <1>5, LenProperties
<1>7. ASSUME NEW h, h # handle, Recorded(h) PROVE Recorded(h)'
  <2>1. PICK b \in 1 .. n : Mirror[b].handle = h
    BY <1>1, <1>7 DEF Recorded, Mirror
  <2>2. b # k
    BY <1>2, <1>7, <2>1
  <2>3. PICK i \in 1 .. n - 1 : Earlier(i, k) = b
    <3>1. CASE b < k
      <4>1. b \in 1 .. n - 1 /\ Earlier(b, k) = b
        BY <3>1 DEF Earlier
      <4> QED BY <4>1
    <3>2. CASE b > k
      <4>1. b - 1 \in 1 .. n - 1 /\ Earlier(b - 1, k) = b
        BY <3>2 DEF Earlier
      <4> QED BY <4>1
    <3> QED BY <2>2, <3>1, <3>2
  <2>4. i \in DOMAIN Mirror' /\ Mirror'[i].handle = h
    BY <1>3, <1>4, <1>5, <1>6, <2>1, <2>3
  <2> QED BY <2>4 DEF Recorded, Mirror
<1> QED BY <1>7

(* The nested unload or the unload of the shell just freed its module.     *)
Freed == ret = [of |-> "unload", val |-> 1]

UnloadUnderWay == frames # << >> /\ Unloading

(* The shell's last program, when it is not a base image, has a record as   *)
(* long as it is in memory and while it is unloaded.                       *)
ProgramRecorded ==
  (/\ status = "running" /\ DLL_debug
   /\ prog_handle # 0 /\ ~loaded[prog_handle].base
   /\ prog_handle \in Live \/ UnloadUnderWay \/ Freed) => Recorded(prog_handle)

(* An unload is of that program, and each call further in of the dependent *)
(* the call before it has just passed.                                     *)
UnloadOfProgram ==
  UnloadUnderWay =>
    /\ frames[1].h = prog_handle
    /\ \A i \in 2 .. Len(frames) :
         frames[i].h = loaded[frames[i - 1].h].deps[frames[i - 1].next - 1]

(* So what a nested unload freed is another module.                        *)
FreedLast ==
  Freed => IF frames = << >> THEN prog_handle # 0 /\ prog_handle \notin Live
           ELSE Unloaded # prog_handle

RecordInv == ProgramRecorded /\ UnloadOfProgram /\ FreedLast /\ CrashOnlyOnBaseImage

(* No call both loads and unloads.                                         *)
LEMMA OneKind == CoreInv /\ Loading => ~UnloadUnderWay
<1> SUFFICES ASSUME CoreInv, Loading, frames # << >> PROVE ~Unloading
  BY DEF UnloadUnderWay
<1>1. Len(frames) \in DOMAIN frames
  BY TopOfCalls, CallArray
<1> QED BY <1>1 DEF Loading, Unloading

(* A step without an unload, that keeps the shell's program.               *)
LEMMA RecordKept ==
  ASSUME RidlInv, RecordInv, status = "running", status' # "crashed",
         ~UnloadUnderWay', ~Freed',
         prog_handle' = prog_handle, DLL_debug' = DLL_debug,
         prog_handle \in Handles =>
           /\ prog_handle \in Live' => prog_handle \in Live
           /\ loaded'[prog_handle].base = loaded[prog_handle].base,
         status' = "running" => \A h : Recorded(h) => Recorded(h)'
  PROVE  RecordInv'
<1>1. prog_handle # 0 => prog_handle \in Handles
  BY CallArray DEF RidlInv, ShellInv
<1>2. ASSUME NEW p, p = prog_handle, status' = "running", DLL_debug, p # 0, ~loaded'[p].base, p \in Live'
      PROVE  Recorded(p)'
  <2>1. ~loaded[p].base /\ p \in Live
    BY <1>1, <1>2
  <2>2. Recorded(p)
    BY <1>2, <2>1 DEF RecordInv, ProgramRecorded
  <2> QED BY <1>2, <2>2
<1>3. ProgramRecorded'
  BY <1>2 DEF ProgramRecorded, Recorded
<1> QED BY <1>3 DEF RecordInv, UnloadOfProgram, FreedLast, CrashOnlyOnBaseImage

(* A step of a load.                                                       *)
LEMMA RecordLoading ==
  ASSUME RidlInv, RidlInv', SessionCalls, RecordInv, CoreStep, LoadStep
  PROVE  RecordInv'
<1>1. Loading' /\ ret'.of \notin {"unload", "abort"} /\ Loading
  BY LoadStepCalls DEF RidlInv
<1>2. ~UnloadUnderWay'
  <2>1. CoreInv' /\ Loading' => ~UnloadUnderWay'
    BY OneKind, PTL
  <2> QED BY <1>1, <2>1 DEF RidlInv
<1>3. ~Freed'
  BY <1>1 DEF Freed
<1>4. ~Running("unload", "depend")
  BY <1>1, RunningTop, CallArray DEF RidlInv, SessionCalls, ControlInv, Loading
<1>5. /\ \A m \in Handles : m \in Live' => m \in Live
      /\ \A m \in Handles : loaded'[m].base = loaded[m].base
  BY LoadStepModules DEF RidlInv
<1>6. CASE NestedLoadReturned
  <2>1. CASE UNCHANGED debug_vars /\ status' # "crashed"
    BY <1>2, <1>3, <1>5, <1>6, <2>1, RecordKept DEF CoreStep, Recorded, debug_vars
  <2>2. CASE Recording(\E a \in Address : AddTargetRecord(ret.val, a)) /\ UNCHANGED status
    <3>1. CASE UNCHANGED debug_vars
      BY <2>1, <2>2, <3>1 DEF CoreStep
    <3>2. ASSUME NEW a \in Address, AddTargetRecord(ret.val, a)
          PROVE  RecordInv'
      <4>1. ret.val \in Nat
        BY CallArray DEF RidlInv, CoreInv, Answer
      <4>2. \A h : Recorded(h) => Recorded(h)'
        BY <3>2, <4>1, AddKeepsRecords DEF RidlInv, ListInv
      <4>3. DLL_debug' = DLL_debug
        BY <3>2 DEF AddTargetRecord
      <4> QED BY <1>2, <1>3, <1>5, <2>2, <4>2, <4>3, RecordKept DEF CoreStep
    <3> QED BY <2>2, <3>1, <3>2 DEF Recording
  <2>3. CASE status' = "exited" /\ UNCHANGED debug_vars
    BY <2>1, <2>3
  <2>4. CASE UNCHANGED debug_vars /\ UNCHANGED status
    BY <2>1, <2>4 DEF CoreStep
  <2> QED BY <1>6, <2>2, <2>3, <2>4 DEF NestedLoadReturned
<1>7. CASE (CoreAlone \/ Placing \/ NestedLoad) /\ UNCHANGED status
  <2>1. UNCHANGED << mirror_debug_list, DLL_debug >>
    BY <1>7 DEF CoreAlone, Placing, NestedLoad, Recording, AddSegmentRecord, AddHostRecord, debug_vars
  <2>2. \A h : Recorded(h) => Recorded(h)'
    BY <2>1 DEF Recorded
  <2> QED BY <1>2, <1>3, <1>5, <1>7, <2>1, <2>2, RecordKept DEF CoreStep
<1>8. ~NestedUnloadReturned
  BY <1>4 DEF NestedUnloadReturned, DependentUnloaded
<1> QED BY <1>6, <1>7, <1>8 DEF CoreStep

(* While its program is unloaded, the shell knows of its record.           *)
LEMMA RecordedNow ==
  ASSUME RidlInv, SessionCalls, RecordInv, status = "running", UnloadUnderWay
  PROVE  /\ prog_handle \in Handles /\ prog_handle # 0 /\ prog_handle = frames[1].h
         /\ DLL_debug /\ ~loaded[prog_handle].base => Recorded(prog_handle)
<1>1. prog_handle = frames[1].h
  BY DEF RecordInv, UnloadOfProgram
<1>2. 1 \in DOMAIN frames /\ DOMAIN frames = 1 .. Len(frames)
  <2>1. Len(frames) \in Nat \ {0} /\ DOMAIN frames = 1 .. Len(frames)
    BY TopOfCalls, CallArray DEF RidlInv, UnloadUnderWay
  <2> QED BY <2>1
<1>3. frames[1].pc = "depend"
  BY <1>2 DEF UnloadUnderWay, Unloading, SessionCalls, ControlInv, CallsOK
<1>4. frames[1].h \in 0 .. Len(loaded) /\ frames[1].h # 0
  BY <1>2, <1>3, CallArray DEF RidlInv
<1>5. prog_handle \in Handles /\ prog_handle # 0
  BY <1>1, <1>4, CallArray DEF RidlInv
<1> QED BY <1>1, <1>5 DEF RecordInv, ProgramRecorded

(* What the removal of the record of h does to those of the others.        *)
LEMMA UnrecordKeeps ==
  ASSUME ListTypeOK, NEW h, NEW p, Unrecord(h)
  PROVE  /\ DLL_debug' = DLL_debug
         /\ p # h /\ Recorded(p) => Recorded(p)'
         /\ \/ status' = status
            \/ status' = "crashed" /\ DLL_debug /\ ~Recorded(p)
<1>1. CASE RmTargetRecord(h) /\ status' = status
  <2>1. DLL_debug' = DLL_debug
    BY <1>1 DEF RmTargetRecord
  <2>2. \A q : q # h /\ Recorded(q) => Recorded(q)'
    BY <1>1, RemoveKeepsRecords
  <2> QED BY <1>1, <2>1, <2>2
<1>2. CASE UNCHANGED debug_vars /\ status' = status
  BY <1>2 DEF debug_vars, Recorded
<1>3. CASE DLL_debug /\ ReadsNull /\ status' = "crashed" /\ UNCHANGED debug_vars
  <2>1. DOMAIN mirror_debug_list = {}
    BY <1>3 DEF ReadsNull
  <2> QED BY <1>3, <2>1 DEF debug_vars, Recorded
<1> QED BY <1>1, <1>2, <1>3 DEF Unrecord, Recording, RmNothing

(* The next dependent of a module is given up.                             *)
LEMMA RecordDependent ==
  ASSUME RidlInv, RidlInv', SessionCalls, RecordInv, status = "running", UnloadDependent,
         UNCHANGED << prog_handle, status, debug_vars >>
  PROVE  RecordInv'
<1> DEFINE n == Len(frames)
           f == [Me EXCEPT !.next = Me.next + 1]
<1>1. /\ Running("unload", "depend") /\ EnterUnload(loaded[Me.h].deps[Me.next], NextDependent)
      /\ UNCHANGED loaded_objects
  BY DEF UnloadDependent
<1>2. /\ frames # << >> /\ n \in Nat \ {0} /\ DOMAIN frames = 1 .. n
      /\ Me = frames[n] /\ Me \in Frame /\ UnloadUnderWay
      /\ \A i \in 1 .. n : frames[i].h \in Handles
  BY <1>1, SessionUnloads DEF RidlInv, UnloadUnderWay
<1>3. /\ prog_handle \in Handles /\ prog_handle # 0 /\ prog_handle = frames[1].h
      /\ DLL_debug /\ ~loaded[prog_handle].base => Recorded(prog_handle)
  BY <1>2, RecordedNow
<1>4. \A m \in Handles : loaded'[m].deps = loaded[m].deps /\ loaded'[m].base = loaded[m].base
  BY <1>1, SessionEnters DEF RidlInv
<1>5. \/ Replaced(f) /\ ret' = [of |-> "unload", val |-> 0]
      \/ \E g \in Frame : ReplacedPushed(f, g) /\ ret' = NoReturn /\ g.h = Given(n)
  BY DependentCalls DEF RidlInv
<1>6. f.h = Me.h /\ f.next - 1 = Me.next
  <2>1. Me.next \in Nat
    BY <1>2 DEF Frame
  <2> QED BY <1>2, <2>1 DEF Frame
<1> HIDE DEF f
<1>7. ASSUME NEW i \in 2 .. n, \A j \in 1 .. n : frames'[j].h = frames[j].h,
             frames'[i - 1] = frames[i - 1]
      PROVE  frames'[i].h = loaded'[frames'[i - 1].h].deps[frames'[i - 1].next - 1]
  <2>1. i \in 1 .. n /\ i - 1 \in 1 .. n
    BY <1>2
  <2>2. frames[i].h = loaded[frames[i - 1].h].deps[frames[i - 1].next - 1]
    BY <1>2 DEF RecordInv, UnloadOfProgram
  <2>3. frames[i - 1].h \in Handles
    BY <1>2, <2>1
  <2> QED BY <1>4, <1>7, <2>1, <2>2, <2>3
<1>8. UnloadOfProgram' /\ ~Freed'
  <2>1. 1 \in 1 .. n /\ n \in 1 .. n
    BY <1>2
  <2>2. CASE Replaced(f) /\ ret' = [of |-> "unload", val |-> 0]
    <3>1. Len(frames') = n /\ \A j \in 1 .. n : frames'[j].h = frames[j].h
      BY <1>2, <1>6, <2>2 DEF Replaced
    <3>2. \A i \in 2 .. n : frames'[i - 1] = frames[i - 1]
      <4>1. \A i \in 2 .. n : i - 1 \in 1 .. n /\ i - 1 # n
        BY <1>2
      <4> QED BY <2>2, <4>1 DEF Replaced
    <3>3. \A i \in 2 .. n : frames'[i].h = loaded'[frames'[i - 1].h].deps[frames'[i - 1].next - 1]
      BY <1>7, <3>1, <3>2
    <3> QED BY <1>3, <2>1, <2>2, <3>1, <3>3 DEF UnloadOfProgram, Freed
  <2>3. ASSUME NEW g \in Frame, ReplacedPushed(f, g), ret' = NoReturn, g.h = Given(n)
        PROVE  UnloadOfProgram' /\ ~Freed'
    <3>1. /\ Len(frames') = n + 1
          /\ \A i \in 1 .. n + 1 :
               frames'[i] = IF i = n + 1 THEN g ELSE IF i = n THEN f ELSE frames[i]
      BY <2>3 DEF ReplacedPushed
    <3>2. /\ n \in 1 .. n + 1 /\ n + 1 \in 1 .. n + 1 /\ n # n + 1
          /\ \A j \in 1 .. n : j \in 1 .. n + 1 /\ j # n + 1
      <4>1. n \in Nat \ {0}
        BY <1>2
      <4> HIDE DEF n
      <4> QED BY <4>1
    <3>3. Len(frames') = n + 1 /\ frames'[n] = f /\ frames'[n + 1] = g
      BY <3>1, <3>2
    <3>4. \A j \in 1 .. n : j # n => frames'[j] = frames[j]
      BY <3>1, <3>2
    <3>5. \A j \in 1 .. n : frames'[j].h = frames[j].h
      BY <1>2, <1>6, <3>3, <3>4
    <3>6. \A i \in 2 .. n : frames'[i - 1] = frames[i - 1]
      <4>1. \A i \in 2 .. n : i - 1 \in 1 .. n /\ i - 1 # n
        BY <1>2
      <4> QED BY <3>4, <4>1
    <3>7. \A i \in 2 .. n : frames'[i].h = loaded'[frames'[i - 1].h].deps[frames'[i - 1].next - 1]
      BY <1>7, <3>5, <3>6
    <3>8. frames'[n + 1].h = loaded'[frames'[n].h].deps[frames'[n].next - 1]
      <4>1. g.h = loaded[Me.h].deps[Me.next]
        BY <1>2, <2>3 DEF Given
      <4>2. Me.h \in Handles
        BY <1>2, <2>1
      <4> QED BY <1>4, <1>6, <3>3, <4>1, <4>2
    <3>9. ASSUME NEW i \in 2 .. Len(frames')
          PROVE  frames'[i].h = loaded'[frames'[i - 1].h].deps[frames'[i - 1].next - 1]
      <4>1. CASE i \in 2 .. n
        BY <3>7, <4>1
      <4>2. CASE i = n + 1
        <5>1. i - 1 = n
          BY <1>2, <4>2
        <5> QED BY <3>8, <4>2, <5>1
      <4>3. i \in 2 .. n \/ i = n + 1
        BY <1>2, <3>3
      <4> QED BY <4>1, <4>2, <4>3
    <3>10. frames'[1].h = prog_handle
      BY <1>3, <2>1, <3>5
    <3> QED BY <2>3, <3>9, <3>10 DEF UnloadOfProgram, Freed, NoReturn
  <2> QED BY <1>5, <2>2, <2>3
<1>9. ProgramRecorded'
  BY <1>3, <1>4 DEF ProgramRecorded, Recorded, debug_vars
<1> QED BY <1>8, <1>9 DEF RecordInv, FreedLast, CrashOnlyOnBaseImage

(* The call on top stands last.                                            *)
TopIsLast == frames # << >> => Len(frames) # 0 /\ Me = frames[Len(frames)]

(* As every call array of the core has it.                                 *)
LEMMA TopStandsLast == CoreInv => TopIsLast
  BY TopOfCalls DEF TopIsLast

(* A nested unload came back, or the module is freed, or the program ends.  *)
LEMMA RecordUnloadEnds ==
  ASSUME RidlInv, RidlInv', SessionCalls, RecordInv, status = "running", prog_handle' = prog_handle,
         \/ (UnloadDone \/ AbortOnDoubleFree) /\ UNCHANGED << status, debug_vars >>
         \/ NestedUnloadReturned
  PROVE  RecordInv'
<1> DEFINE n == Len(frames)
<1>1. DependentUnloaded \/ UnloadDone \/ AbortOnDoubleFree
  BY DEF NestedUnloadReturned
<1>2. /\ SessionCalls' /\ Unloading /\ Unloading' /\ frames # << >> /\ loaded' = loaded
      /\ \/ UNCHANGED frames /\ ~Freed'
         \/ Popped /\ Freed' /\ Me.h \notin Live'
  BY <1>1, UnloadEndCalls DEF RidlInv, Freed, NoReturn
<1>3. /\ n \in Nat \ {0} /\ DOMAIN frames = 1 .. n /\ Me = frames[n] /\ UnloadUnderWay
      /\ \A i \in 1 .. n : frames[i].h \in Handles /\ frames[i].h # 0
  <2>1. Running("unload", "depend")
    BY <1>1 DEF DependentUnloaded, UnloadDone, AbortOnDoubleFree
  <2>2. \A i \in 1 .. n : frames[i].h \in Handles => frames[i].h # 0
    BY CallArray DEF RidlInv
  <2> QED BY <2>1, <2>2, SessionUnloads DEF RidlInv, UnloadUnderWay
<1>4. /\ prog_handle \in Handles /\ prog_handle # 0 /\ prog_handle = frames[1].h
      /\ DLL_debug /\ ~loaded[prog_handle].base => Recorded(prog_handle)
  BY <1>3, RecordedNow
<1>5. \A i \in 2 .. n : frames[i].h = loaded[frames[i - 1].h].deps[frames[i - 1].next - 1]
  BY <1>3 DEF RecordInv, UnloadOfProgram
<1>6. UnloadOfProgram'
  <2>1. CASE UNCHANGED frames
    BY <1>2, <1>4, <1>5, <2>1 DEF UnloadOfProgram
  <2>2. CASE Popped
    <3>1. SUFFICES ASSUME frames' # << >> PROVE UnloadOfProgram'
      BY DEF UnloadOfProgram, UnloadUnderWay
    <3>2. Len(frames') = n - 1 /\ \A i \in 1 .. n - 1 : frames'[i] = frames[i]
      BY <2>2 DEF Popped
    <3>3. n - 1 # 0
      <4>1. Len(frames') # 0
        BY <3>1, EmptySeq, CallArray DEF RidlInv, CoreInv, FramesOK
      <4> QED BY <3>2, <4>1
    <3>4. 1 \in 1 .. n - 1
      BY <1>3, <3>3
    <3>5. ASSUME NEW i \in 2 .. n - 1
          PROVE  frames'[i].h = loaded'[frames'[i - 1].h].deps[frames'[i - 1].next - 1]
      <4>1. i \in 1 .. n - 1 /\ i - 1 \in 1 .. n - 1 /\ i \in 2 .. n
        BY <1>3
      <4> QED BY <1>2, <1>5, <3>2, <4>1
    <3> QED BY <1>4, <3>2, <3>4, <3>5 DEF UnloadOfProgram
  <2> QED BY <1>2, <2>1, <2>2
<1>7. FreedLast'
  <2>1. SUFFICES ASSUME Popped, Me.h \notin Live' PROVE FreedLast'
    BY <1>2 DEF FreedLast
  <2>2. Len(frames') = n - 1 /\ \A i \in 1 .. n - 1 : frames'[i] = frames[i]
    BY <2>1 DEF Popped
  <2>3. CASE frames' = << >>
    <3>1. Len(frames') = 0
      BY <2>3
    <3>2. n = 1
      <4>1. n - 1 = 0
        BY <2>2, <3>1
      <4>2. n \in Nat
        BY <1>3
      <4> HIDE DEF n
      <4> QED BY <4>1, <4>2
    <3> QED BY <1>3, <1>4, <2>1, <2>3, <3>2 DEF FreedLast
  <2>4. CASE frames' # << >>
    <3>1. Len(frames') # 0 /\ Me' = frames'[Len(frames')]
      <4>1. CoreInv' => TopIsLast'
        BY TopStandsLast, PTL
      <4> QED BY <2>4, <4>1 DEF RidlInv, TopIsLast
    <3>2. n \in 2 .. n /\ n - 1 \in 1 .. n - 1 /\ 1 \in 1 .. n /\ n \in 1 .. n /\ n # 1
      BY <1>3, <2>2, <3>1
    <3>3. Me' = frames[n - 1]
      BY <2>2, <3>1, <3>2
    <3>4. Unloaded' = frames[n].h
      BY <1>2, <1>5, <3>2, <3>3 DEF Unloaded
    <3>5. frames[n].h # frames[1].h
      BY <1>3, <3>2 DEF SessionCalls, ControlInv, CallsOK
    <3> QED BY <1>4, <2>4, <3>4, <3>5 DEF FreedLast
  <2> QED BY <2>3, <2>4
<1>8. CASE UNCHANGED << status, debug_vars >>
  <2>1. ProgramRecorded'
    BY <1>2, <1>4, <1>8 DEF ProgramRecorded, Recorded, debug_vars
  <2> QED BY <1>6, <1>7, <1>8, <2>1 DEF RecordInv, CrashOnlyOnBaseImage
<1>9. CASE NestedUnloadReturned /\ ret.val = 1
  <2>1. Unrecord(Unloaded)
    BY <1>9 DEF NestedUnloadReturned
  <2>2. Freed
    BY <1>9 DEF NestedUnloadReturned, DependentUnloaded, RidlInv, CoreInv, Answer, Freed
  <2>3. prog_handle # Unloaded
    BY <1>2, <2>2 DEF RecordInv, FreedLast
  <2>4. /\ DLL_debug' = DLL_debug
        /\ Recorded(prog_handle) => Recorded(prog_handle)'
        /\ \/ status' = status
           \/ status' = "crashed" /\ DLL_debug /\ ~Recorded(prog_handle)
    <3>1. PICK p : p = prog_handle
      OBVIOUS
    <3>2. /\ DLL_debug' = DLL_debug
          /\ Recorded(p) => Recorded(p)'
          /\ \/ status' = status
             \/ status' = "crashed" /\ DLL_debug /\ ~Recorded(p)
      BY <2>1, <2>3, <3>1, UnrecordKeeps DEF RidlInv, ListInv
    <3> QED BY <3>1, <3>2 DEF Recorded
  <2>5. ProgramRecorded' /\ CrashOnlyOnBaseImage'
    BY <1>2, <1>4, <2>4 DEF ProgramRecorded, CrashOnlyOnBaseImage
  <2> QED BY <1>6, <1>7, <2>5 DEF RecordInv
<1> QED BY <1>8, <1>9 DEF NestedUnloadReturned

(* The shell takes the answer of its load or unload.                       *)
LEMMA RecordReturned ==
  ASSUME RidlInv, RecordInv, ShellReturned
  PROVE  RecordInv'
<1>1. /\ status = "running" /\ frames = << >> /\ frames' = << >> /\ ret' = NoReturn
      /\ UNCHANGED << loaded, loaded_objects >>
      /\ ShellLoadFailed \/ ShellLoadDone \/ ShellUnloadDone
  BY DEF ShellReturned, TopReturned, Idle
<1>2. ~UnloadUnderWay' /\ ~Freed'
  BY <1>1 DEF UnloadUnderWay, Freed, NoReturn
<1>3. UnloadOfProgram' /\ FreedLast'
  BY <1>2 DEF UnloadOfProgram, FreedLast
<1>4. CASE ShellLoadFailed
  <2>1. prog_handle' = 0 /\ status' # "crashed"
    BY <1>1, <1>4 DEF ShellLoadFailed, EndIfScriptFailed
  <2> QED BY <1>3, <2>1 DEF RecordInv, ProgramRecorded, CrashOnlyOnBaseImage
<1>5. CASE ShellLoadDone
  <2>1. PICK p : p = ret.val
    OBVIOUS
  <2>2. p \in Nat /\ prog_handle' = p
    BY <1>5, <2>1, CallArray DEF ShellLoadDone, RidlInv, CoreInv, Answer
  <2>3. CASE Recording(\E a \in Address : AddTargetRecord(ret.val, a)) /\ UNCHANGED status
    <3>1. CASE UNCHANGED debug_vars /\ ~DLL_debug
      BY <1>1, <1>3, <2>3, <3>1 DEF RecordInv, ProgramRecorded, CrashOnlyOnBaseImage, debug_vars
    <3>2. ASSUME NEW a \in Address, AddTargetRecord(p, a)
          PROVE  RecordInv'
      <4>1. Recorded(p)'
        BY <2>2, <3>2, AddKeepsRecords DEF RidlInv, ListInv
      <4>2. ProgramRecorded'
        BY <2>2, <4>1 DEF ProgramRecorded, Recorded
      <4> QED BY <1>1, <1>3, <2>3, <4>2 DEF RecordInv, CrashOnlyOnBaseImage
    <3> QED BY <2>1, <2>3, <3>1, <3>2 DEF Recording
  <2>4. CASE status' = "exited"
    BY <1>3, <2>4 DEF RecordInv, ProgramRecorded, CrashOnlyOnBaseImage
  <2> QED BY <1>5, <2>3, <2>4 DEF ShellLoadDone
<1>6. CASE ShellUnloadDone
  <2>1. prog_handle' = prog_handle
    BY <1>6 DEF ShellUnloadDone
  <2>2. CASE ret.val = 1
    <3>1. Unrecord(prog_handle)
      BY <1>6, <2>2 DEF ShellUnloadDone
    <3>2. Freed
      BY <1>6, <2>2 DEF ShellUnloadDone, RidlInv, CoreInv, Answer, Freed
    <3>3. prog_handle # 0 /\ prog_handle \notin Live
      BY <1>1, <3>2 DEF RecordInv, FreedLast
    <3>4. Live' = Live
      BY <1>1 DEF Live
    <3>5. ProgramRecorded'
      BY <1>2, <2>1, <3>3, <3>4 DEF ProgramRecorded
    <3>6. \/ status' = status
          \/ status' = "crashed" /\ DLL_debug /\ ~Recorded(prog_handle)
      <4>1. PICK p : p = prog_handle
        OBVIOUS
      <4>2. \/ status' = status
            \/ status' = "crashed" /\ DLL_debug /\ ~Recorded(p)
        BY <3>1, <4>1, UnrecordKeeps DEF RidlInv, ListInv
      <4> QED BY <4>1, <4>2
    <3>7. CrashOnlyOnBaseImage'
      <4>1. CASE status' = status
        BY <1>1, <4>1 DEF CrashOnlyOnBaseImage
      <4>2. CASE DLL_debug /\ ~Recorded(prog_handle)
        <5>1. loaded[prog_handle].base
          BY <1>1, <3>2, <3>3, <4>2 DEF RecordInv, ProgramRecorded
        <5> QED BY <1>1, <2>1, <5>1 DEF CrashOnlyOnBaseImage
      <4> QED BY <3>6, <4>1, <4>2
    <3> QED BY <1>3, <3>5, <3>7 DEF RecordInv
  <2>3. CASE ret.val # 1
    <3>1. UNCHANGED << debug_vars, status >>
      BY <1>6, <2>3 DEF ShellUnloadDone
    <3>2. Live' = Live /\ DLL_debug' = DLL_debug /\ \A h : Recorded(h) => Recorded(h)'
      BY <1>1, <3>1 DEF Live, Recorded, debug_vars
    <3> QED BY <1>1, <1>2, <2>1, <3>1, <3>2, RecordKept
  <2> QED BY <2>2, <2>3
<1> QED BY <1>1, <1>4, <1>5, <1>6

(* A load is asked for.                                                    *)
LEMMA RecordShellLoad ==
  ASSUME RidlInv, RecordInv, NEW f \in File, ShellLoad(f)
  PROVE  RecordInv'
<1>1. /\ status = "running" /\ ret' = NoReturn /\ frames' = << Call("load", f, 0, "headers") >>
      /\ UNCHANGED << loaded, loaded_objects, prog_handle, status >>
  BY DEF ShellLoad, AtPrompt, TopLoad, NoShellChange, shell_vars
<1>2. ~UnloadUnderWay' /\ ~Freed'
  <2>1. Call("load", f, 0, "headers").op # "unload"
    BY DEF Call
  <2>2. 1 \in DOMAIN frames' /\ frames'[1].op # "unload"
    BY <1>1, <2>1
  <2>3. ~Unloading'
    BY <2>2 DEF Unloading
  <2> QED BY <1>1, <2>3 DEF UnloadUnderWay, Freed, NoReturn
<1>3. UNCHANGED << mirror_debug_list, DLL_debug >>
  BY DEF ShellLoad, Recording, AddHostRecord, debug_vars
<1>4. Live' = Live /\ \A h : Recorded(h) => Recorded(h)'
  BY <1>1, <1>3 DEF Live, Recorded
<1> QED BY <1>1, <1>2, <1>3, <1>4, RecordKept

(* A base image becomes the shell's program: it needs no record.           *)
LEMMA RecordBaseImage ==
  ASSUME RidlInv, RecordInv, NEW f \in File, BaseImage(f)
  PROVE  RecordInv'
<1>1. /\ status' # "crashed" /\ frames' = << >> /\ ret' = NoReturn
      /\ prog_handle' = IF InProcessOfLoading(f) THEN 0 ELSE NewHandle
  BY DEF BaseImage, AtPrompt, Idle, LoadSymbols, EndIfScriptFailed
<1>2. ~UnloadUnderWay' /\ ~Freed'
  BY <1>1 DEF UnloadUnderWay, Freed, NoReturn
<1>3. CASE InProcessOfLoading(f)
  <2>1. prog_handle' = 0
    BY <1>1, <1>3
  <2> QED BY <1>1, <1>2, <2>1 DEF RecordInv, ProgramRecorded, UnloadOfProgram, FreedLast,
                                  CrashOnlyOnBaseImage
<1>4. CASE ~InProcessOfLoading(f)
  <2>1. loaded' = Append(loaded, NewModule(f, TRUE)) /\ prog_handle' = NewHandle
    BY <1>1, <1>4 DEF BaseImage, LoadSymbols, Enqueue
  <2>2. NewModule(f, TRUE) \in Module /\ NewModule(f, TRUE).base
    BY EmptySeq DEF NewModule, Module
  <2>3. loaded'[NewHandle] = NewModule(f, TRUE)
    BY <2>1, <2>2, AppendProperties DEF RidlInv, CoreInv, ModulesOK, NewHandle
  <2>4. loaded'[prog_handle'].base
    BY <2>1, <2>2, <2>3
  <2> QED BY <1>1, <1>2, <2>4 DEF RecordInv, ProgramRecorded, UnloadOfProgram, FreedLast,
                                  CrashOnlyOnBaseImage
<1> QED BY <1>3, <1>4

(* The unload of the shell's program begins.                               *)
LEMMA RecordShellUnload ==
  ASSUME RidlInv, RidlInv', SessionCalls, RecordInv, ShellUnload
  PROVE  RecordInv'
<1>1. status = "running" /\ UNCHANGED << debug_vars, prog_handle, status >>
  BY DEF ShellUnload, AtPrompt, shell_vars
<1>2. /\ Live' = Live /\ DLL_debug' = DLL_debug /\ \A h : Recorded(h) => Recorded(h)'
      /\ \A m \in Handles : loaded'[m].base = loaded[m].base
  BY <1>1, ShellUnloadCalls DEF RidlInv, Recorded, debug_vars
<1>3. CASE frames' = << >> /\ ret' = [of |-> "unload", val |-> 0]
  <2>1. ~UnloadUnderWay' /\ ~Freed'
    BY <1>3 DEF UnloadUnderWay, Freed
  <2> QED BY <1>1, <1>2, <2>1, RecordKept
<1>4. CASE /\ Len(frames') = 1 /\ DOMAIN frames' = {1} /\ frames'[1].h = prog_handle
           /\ ret' = NoReturn /\ prog_handle \in Live
  <2>1. prog_handle \in Handles
    BY <1>4, LiveHandles DEF RidlInv
  <2>2. ProgramRecorded'
    <3>1. SUFFICES ASSUME DLL_debug, prog_handle # 0, ~loaded'[prog_handle].base
                   PROVE  ProgramRecorded'
      BY <1>1, <1>2 DEF ProgramRecorded
    <3>2. Recorded(prog_handle)
      BY <1>1, <1>2, <1>4, <2>1, <3>1 DEF RecordInv, ProgramRecorded
    <3> QED BY <1>1, <3>2 DEF ProgramRecorded, Recorded, debug_vars
  <2>3. UnloadOfProgram' /\ FreedLast'
    <3>1. 2 .. Len(frames') = {}
      BY <1>4
    <3> QED BY <1>1, <1>4, <3>1 DEF UnloadOfProgram, FreedLast, Freed, NoReturn
  <2> QED BY <1>1, <2>2, <2>3 DEF RecordInv, CrashOnlyOnBaseImage
<1> QED BY <1>3, <1>4, ShellUnloadCalls DEF RidlInv

(* The commands.                                                           *)
LEMMA RecordCommand ==
  ASSUME RidlInv, RidlInv', SessionCalls, RecordInv, Command
  PROVE  RecordInv'
<1>1. CASE ShellLoadNotFound \/ Leave
  <2>1. /\ status = "running" /\ frames = << >> /\ ret = NoReturn /\ status' # "crashed"
        /\ UNCHANGED << vars, debug_vars, prog_handle >>
    BY <1>1 DEF ShellLoadNotFound, Leave, AtPrompt, Idle
  <2>2. ~UnloadUnderWay' /\ ~Freed'
    BY <2>1 DEF UnloadUnderWay, Freed, NoReturn, vars
  <2>3. /\ Live' = Live /\ loaded' = loaded /\ DLL_debug' = DLL_debug
        /\ \A h : Recorded(h) => Recorded(h)'
    BY <2>1 DEF Live, Recorded, vars, debug_vars
  <2> QED BY <2>1, <2>2, <2>3, RecordKept
<1>2. CASE BaseImageRejected
  <2>1. /\ frames = << >> /\ ret = NoReturn /\ status' # "crashed"
        /\ UNCHANGED vars /\ prog_handle' = 0
    BY <1>2 DEF BaseImageRejected, AtPrompt, Idle, EndIfScriptFailed
  <2>2. ~UnloadUnderWay' /\ ~Freed'
    BY <2>1 DEF UnloadUnderWay, Freed, NoReturn, vars
  <2> QED BY <2>1, <2>2 DEF RecordInv, ProgramRecorded, UnloadOfProgram, FreedLast,
                            CrashOnlyOnBaseImage
<1> QED BY <1>1, <1>2, RecordShellLoad, RecordBaseImage, RecordShellUnload DEF Command

(* Every step of a session.                                                *)
LEMMA RecordNext ==
  RidlInv /\ RidlInv' /\ SessionCalls /\ RecordInv /\ [RidlNext]_ridl_vars => RecordInv'
<1> SUFFICES ASSUME RidlInv, RidlInv', SessionCalls, RecordInv, [RidlNext]_ridl_vars
             PROVE  RecordInv'
  OBVIOUS
<1>1. CASE CoreStep
  <2>1. CASE LoadStep
    BY <1>1, <2>1, RecordLoading
  <2>2. CASE ~LoadStep
    <3>1. status = "running" /\ prog_handle' = prog_handle
      BY <1>1 DEF CoreStep
    <3>2. \/ /\ UnloadDependent \/ UnloadDone \/ AbortOnDoubleFree
             /\ UNCHANGED << status, debug_vars >>
          \/ NestedUnloadReturned
      BY <1>1, <2>2 DEF CoreStep, CoreAlone, Placing, NestedLoad, NestedLoadReturned, LoadStep
    <3> QED BY <3>1, <3>2, RecordDependent, RecordUnloadEnds
  <2> QED BY <2>1, <2>2
<1>2. CASE UNCHANGED ridl_vars
  <2>1. UNCHANGED << loaded, loaded_objects, frames, ret, DLL_debug, mirror_debug_list,
                     prog_handle, status >>
    BY <1>2 DEF ridl_vars, vars, debug_vars, shell_vars
  <2>2. ProgramRecorded' /\ UnloadOfProgram' /\ FreedLast' /\ CrashOnlyOnBaseImage'
    <3>1. UnloadUnderWay' <=> UnloadUnderWay
      BY <2>1 DEF UnloadUnderWay, Unloading
    <3>2. ProgramRecorded'
      BY <2>1, <3>1 DEF RecordInv, ProgramRecorded, Recorded, Freed, Live
    <3>3. UnloadOfProgram'
      BY <2>1, <3>1 DEF RecordInv, UnloadOfProgram
    <3>4. FreedLast' /\ CrashOnlyOnBaseImage'
      BY <2>1 DEF RecordInv, FreedLast, Freed, Live, Unloaded, Me, CrashOnlyOnBaseImage
    <3> QED BY <3>2, <3>3, <3>4
  <2> QED BY <2>2 DEF RecordInv
<1> QED BY <1>1, <1>2, RecordReturned, RecordCommand DEF RidlNext

(* No program, no record.                                                  *)
LEMMA RecordInit == RidlInit => RecordInv
<1> SUFFICES ASSUME RidlInit PROVE RecordInv
  OBVIOUS
<1>1. frames = << >> /\ ret = NoReturn /\ prog_handle = 0 /\ status = "running"
  BY DEF RidlInit, Init
<1> QED BY <1>1 DEF RecordInv, ProgramRecorded, UnloadOfProgram, UnloadUnderWay, FreedLast,
                    Freed, NoReturn, CrashOnlyOnBaseImage

(* In every session the debug list ends the program only when the handle   *)
(* the shell was told to unload is that of a base image: a program it      *)
(* loaded has its record until its own unload has come back, whatever was  *)
(* unloaded with it.                                                       *)
THEOREM CrashNeedsBaseImage == RidlSpec => []CrashOnlyOnBaseImage
<1>1. RecordInv => CrashOnlyOnBaseImage
  BY DEF RecordInv
<1> QED
  BY RidlInitInv, RidlNextInv, SessionCallsInit, SessionCallsNext, RecordInit, RecordNext, <1>1, PTL
     DEF RidlSpec

-----------------------------------------------------------------------------
(* A handle that is given up again.  What the shell remembers is used by    *)
(* nobody else: a load always makes a module of its own, and what that     *)
(* brings in later has a lower rank, so that it cannot find the module by   *)
(* any name.  Giving the handle up once frees the module, then, and giving *)
(* it up again finds nothing.                                              *)

(* No list in memory has h, and its one use is that of its holder.          *)
Alone(h) ==
  /\ \A m \in Live : \A i \in 1 .. Len(loaded[m].deps) : loaded[m].deps[i] # h
  /\ loaded[h].use_count = 1

(* A load works on the file it was called for.                             *)
OwnFile ==
  \A i \in DOMAIN frames : (frames[i].op = "load" /\ frames[i].h # 0) =>
     loaded[frames[i].h].file = frames[i].file

(* The loads further in are of files below the one at the bottom.           *)
BelowBottom ==
  \A i \in DOMAIN frames : (frames[i].op = "load" /\ i > 1) =>
     \A rank \in NameRanks : rank[frames[i].file] < rank[frames[1].file]

(* The module at the bottom is alone until the client has it ...            *)
LoadedAlone ==
  /\ (frames # << >> /\ frames[1].op = "load" /\ frames[1].h # 0) => Alone(frames[1].h)
  /\ (frames = << >> /\ ret.of = "load" /\ ret.val # 0) => Alone(ret.val)

(* ... and after that until the shell gives it up ...                       *)
RememberedAlone ==
  (frames = << >> /\ ret = NoReturn /\ prog_handle \in Live) =>
    prog_handle \in client /\ Alone(prog_handle)

(* ... which is when it leaves memory.                                     *)
GivenUpLeaves ==
  /\ (frames = << >> /\ ret.of = "unload") => prog_handle \notin Live
  /\ (frames # << >> /\ frames[1].op = "unload") => frames[1].h = prog_handle

SoleInv == OwnFile /\ BelowBottom /\ LoadedAlone /\ RememberedAlone /\ GivenUpLeaves

StaleInv == AcyclicByName => UseInv /\ SoleInv

(* An entry on a list of another handle leaves a module alone.             *)
LEMMA AloneEntry ==
  ASSUME CoreInv, UNCHANGED loaded_objects, NEW u \in Handles, NEW d \in Nat,
         \/ loaded' = AddDependency(u, d)
         \/ d \in Handles /\ loaded' = ShareModule(u, d)
  PROVE  /\ Handles' = Handles
         /\ \A m \in Handles : loaded'[m].file = loaded[m].file
         /\ \A b \in Handles : (b # d /\ Alone(b)) => Alone(b)'
<1>1. /\ Len(loaded') = Len(loaded)
      /\ \A m \in Handles :
           /\ loaded'[m].deps = IF m = u THEN Append(loaded[u].deps, d) ELSE loaded[m].deps
           /\ loaded'[m].file = loaded[m].file
           /\ m # d => loaded'[m].use_count = loaded[m].use_count
  <2>1. CASE loaded' = AddDependency(u, d)
    BY <2>1, DependencyAdded
  <2>2. CASE d \in Handles /\ loaded' = ShareModule(u, d)
    <3>1. \A m \in Handles : loaded[m].use_count \in Int
      BY ModuleRecord
    <3>2. /\ Len(loaded') = Len(loaded)
          /\ \A m \in Handles :
               /\ loaded'[m].deps = IF m = u THEN Append(loaded[u].deps, d) ELSE loaded[m].deps
               /\ loaded'[m].file = loaded[m].file
               /\ loaded'[m].use_count = loaded[m].use_count + (IF m = d THEN 1 ELSE 0)
      <4>1. /\ Len(ShareModule(u, d)) = Len(loaded)
            /\ \A m \in Handles :
                 /\ ShareModule(u, d)[m].deps =
                      IF m = u THEN Append(loaded[u].deps, d) ELSE loaded[m].deps
                 /\ ShareModule(u, d)[m].file = loaded[m].file
                 /\ ShareModule(u, d)[m].use_count = loaded[m].use_count + (IF m = d THEN 1 ELSE 0)
        BY <2>2, ModuleShared
      <4> QED BY <2>2, <4>1
    <3> QED BY <3>1, <3>2
  <2> QED BY <2>1, <2>2
<1>2. Handles' = Handles /\ Live' = Live /\ Live \subseteq Handles
  BY <1>1, LiveHandles DEF Handles, Live
<1>3. ASSUME NEW b \in Handles, b # d, Alone(b) PROVE Alone(b)'
  <2>1. ASSUME NEW m \in Live, NEW i \in 1 .. Len(loaded'[m].deps)
        PROVE  loaded'[m].deps[i] # b
    <3>1. m \in Handles
      BY <1>2
    <3>2. CASE m # u
      BY <1>1, <1>3, <2>1, <3>1, <3>2 DEF Alone
    <3>3. CASE m = u
      <4>1. loaded[u].deps \in Seq(Nat) /\ Len(loaded[u].deps) \in Nat
        BY ModuleRecord
      <4>2. loaded'[m].deps = Append(loaded[u].deps, d)
        BY <1>1, <3>1, <3>3
      <4>3. /\ Len(loaded'[m].deps) = Len(loaded[u].deps) + 1
            /\ \A j \in 1 .. Len(loaded[u].deps) : loaded'[m].deps[j] = loaded[u].deps[j]
            /\ loaded'[m].deps[Len(loaded[u].deps) + 1] = d
        BY <4>1, <4>2, AppendProperties
      <4>4. i = Len(loaded[u].deps) + 1 \/ i \in 1 .. Len(loaded[u].deps)
        BY <4>1, <4>3
      <4> QED BY <1>3, <3>3, <4>3, <4>4 DEF Alone
    <3> QED BY <3>2, <3>3
  <2>2. loaded'[b].use_count = 1
    BY <1>1, <1>3 DEF Alone
  <2> QED BY <1>2, <2>1, <2>2 DEF Alone
<1> QED BY <1>1, <1>2, <1>3

(* A new module is alone, and so are those that were before.               *)
LEMMA AlonePlaced ==
  ASSUME CoreInv, QueuedOnce, NEW k, k = NewHandle,
         NEW file \in File, NEW base \in BOOLEAN, Enqueue(file, base)
  PROVE  /\ Handles' = Handles \cup {k} /\ k \notin Handles /\ k # 0 /\ Live' = Live \cup {k}
         /\ \A m \in Handles : /\ loaded'[m].file = loaded[m].file
                               /\ loaded'[m].base = loaded[m].base
         /\ loaded'[k].file = file /\ loaded'[k].base = base
         /\ Alone(k)'
         /\ \A b \in Handles : Alone(b) => Alone(b)'
<1> DEFINE new == NewModule(file, base)
<1>1. /\ new \in Module /\ new.deps = << >> /\ new.use_count = 1
      /\ new.file = file /\ new.base = base /\ Len(new.deps) = 0
  BY EmptySeq DEF NewModule, Module
<1>2. loaded \in Seq(Module) /\ loaded' = Append(loaded, new) /\ Len(loaded) \in Nat
  BY DEF CoreInv, ModulesOK, Enqueue
<1> HIDE DEF new
<1>3. /\ Live' = Live \cup {k} /\ k \notin Handles /\ Live \subseteq Handles
      /\ k = Len(loaded) + 1 /\ Handles = 1 .. Len(loaded)
  BY <1>2, JoinsQueue, LiveHandles, CallArray DEF Enqueue, NewHandle
<1>4. Len(loaded') = k /\ loaded'[k] = new /\ \A m \in Handles : loaded'[m] = loaded[m]
  BY <1>1, <1>2, <1>3, AppendProperties
<1>5. Handles' = Handles \cup {k} /\ k # 0
  BY <1>2, <1>3, <1>4 DEF Handles
<1>6. \A m \in Handles : \A i \in 1 .. Len(loaded[m].deps) : loaded[m].deps[i] # k
  BY <1>2, <1>3, ModuleRecord
<1>7. \A b \in Handles \cup {k} :
         (\A m \in Live : \A i \in 1 .. Len(loaded[m].deps) : loaded[m].deps[i] # b) =>
         \A m \in Live' : \A i \in 1 .. Len(loaded'[m].deps) : loaded'[m].deps[i] # b
  BY <1>1, <1>3, <1>4
<1>8. Alone(k)'
  BY <1>1, <1>3, <1>4, <1>6, <1>7 DEF Alone
<1>9. \A b \in Handles : Alone(b) => Alone(b)'
  BY <1>4, <1>7 DEF Alone
<1> QED BY <1>1, <1>3, <1>4, <1>5, <1>8, <1>9

(* What a step of a load does to the calls: the one on top returns, goes on *)
(* for the same file, or calls for a file it needs.                        *)
LoadReturns == \E v \in {0, Me.h} : Popped /\ ret' = [of |-> "load", val |-> v]

LoadGoesOnAs(f) ==
  /\ Replaced(f) /\ ret' = NoReturn
  /\ f \in Frame /\ f.op = "load" /\ f.file = Me.file
  /\ f.h = Me.h \/ (Me.h = 0 /\ f.h = NewHandle /\ Enqueue(Me.file, FALSE))

LoadCalls(g) ==
  /\ g \in File /\ g \in ToSet(Needed(Me.file))
  /\ Pushed(Call("load", g, 0, "headers"))
  /\ ret' = NoReturn
  /\ UNCHANGED << loaded, loaded_objects >>

LoadCallKept == UNCHANGED << frames, ret, loaded, loaded_objects >> /\ ret = NoReturn

(* The next entry is on the list.                                          *)
LEMMA EntryOnList ==
  ASSUME CoreInv, PendingNeeded
  PROVE  Needed(Me.file)[Me.next] \in ToSet(Needed(Me.file))
<1>1. PICK n \in Nat : FramesOK(frames, n)
  BY Parts
<1>2. Me.file \in File /\ Me.next \in Nat \ {0}
  BY <1>1, RunningCall DEF PendingNeeded
<1>3. Needed(Me.file) \in Seq(File)
  BY <1>2, DiskEntries DEF CoreInv
<1>4. Me.next \in 1 .. Len(Needed(Me.file)) /\ DOMAIN Needed(Me.file) = 1 .. Len(Needed(Me.file))
  BY <1>2, <1>3, LenProperties DEF PendingNeeded
<1> QED BY <1>4 DEF ToSet

(* Every step of a load is one of these.                                   *)
LEMMA LoadStepFrames ==
  ASSUME CoreInv, SessionCalls, LoadStep
  PROVE  LoadReturns \/ (\E f \in Frame : LoadGoesOnAs(f)) \/ (\E g \in File : LoadCalls(g))
         \/ LoadCallKept
<1>1. PICK pc : Running("load", pc)
  BY DEF LoadStep, RejectFile, RejectCircular, FailAllocation, PlaceModule, NeededIsLoaded,
         LoadDependent, DependentNotFound, DependentReturned, NeededDone, Relocate, RelocateDone,
         PendingNeeded
<1>2. /\ frames # << >> /\ Me \in Frame /\ Me.pc = pc /\ Me.op = "load"
      /\ Me = frames[Len(frames)] /\ Len(frames) \in DOMAIN frames
  BY <1>1, RunningTop, CallArray DEF SessionCalls, ControlInv
<1>3. CallsOK
  BY DEF SessionCalls, ControlInv
<1>4. CASE \E v \in {0, Me.h} : Return("load", v)
  <2>1. PICK v \in {0, Me.h} : Return("load", v)
    BY <1>4
  <2>2. Popped /\ ret' = [of |-> "load", val |-> v]
    BY <1>2, <2>1, PopFrames DEF Return
  <2> QED BY <2>2 DEF LoadReturns
<1>5. ASSUME NEW f \in Frame, frames' = Append(Front(frames), f), ret' = NoReturn,
             f.op = "load", f.file = Me.file,
             f.h = Me.h \/ (Me.h = 0 /\ f.h = NewHandle /\ Enqueue(Me.file, FALSE))
      PROVE  \E g \in Frame : LoadGoesOnAs(g)
  <2>1. Replaced(f)
    BY <1>2, <1>5, ReplaceFrame
  <2> QED BY <1>5, <2>1 DEF LoadGoesOnAs
<1>6. CASE LoadDependent
  <2> DEFINE g == Needed(Me.file)[Me.next]
  <2>1. g \in File /\ g \in ToSet(Needed(Me.file))
    BY <1>6, NeededFile, EntryOnList DEF LoadDependent
  <2>2. frames' = Append(frames, Call("load", g, 0, "headers"))
    BY <1>6 DEF LoadDependent
  <2> HIDE DEF g
  <2>3. Call("load", g, 0, "headers") \in Frame
    BY <2>1 DEF Call, Frame
  <2>4. Pushed(Call("load", g, 0, "headers"))
    BY <2>2, <2>3, PushFrame
  <2>5. ret' = NoReturn /\ UNCHANGED << loaded, loaded_objects >>
    BY <1>6 DEF LoadDependent, PendingNeeded
  <2>6. LoadCalls(g)
    BY <2>1, <2>4, <2>5 DEF LoadCalls
  <2> QED BY <2>1, <2>6
<1>7. CASE Relocate
  <2>1. UNCHANGED << frames, ret, loaded, loaded_objects >> /\ Me.pc = "relocate"
    BY <1>7 DEF Relocate, Running, Me
  <2>2. ret = NoReturn
    BY <1>2, <2>1 DEF SessionCalls, ControlInv, ReturnOK
  <2> QED BY <2>1, <2>2 DEF LoadCallKept
<1>8. CASE PlaceModule
  <2> DEFINE f == Call("load", Me.file, NewHandle, "needed")
  <2>1. f \in Frame /\ f.h = NewHandle /\ f.op = "load" /\ f.file = Me.file
    BY <1>2, CallArray DEF Call, Frame, NewHandle
  <2>2. Enqueue(Me.file, FALSE) /\ Me.pc = "headers"
    BY <1>8 DEF PlaceModule, Running, Me
  <2>3. Me.h = 0
    BY <1>2, <1>3, <2>2 DEF CallsOK
  <2>4. CASE frames' = Append(Front(frames), f) /\ UNCHANGED ret
    <3>1. ret' = NoReturn
      BY <1>2, <2>2, <2>4 DEF SessionCalls, ControlInv, ReturnOK
    <3> HIDE DEF f
    <3> QED BY <1>5, <2>1, <2>2, <2>3, <2>4, <3>1
  <2>5. CASE Return("load", 0)
    BY <1>4, <2>5
  <2> QED BY <1>8, <2>4, <2>5 DEF PlaceModule
<1>9. CASE frames' = NextNeeded /\ ret' = NoReturn
  <2>1. PICK f \in Frame : /\ frames' = Append(Front(frames), f) /\ f.h = Me.h
                           /\ f.op = "load" /\ f.file = Me.file
    BY <1>1, <1>3, <1>9, NextCall DEF NextNeeded
  <2> QED BY <1>5, <1>9, <2>1
<1>10. CASE NeededIsLoaded
  BY <1>9, <1>10 DEF NeededIsLoaded, PendingNeeded
<1>11. CASE DependentReturned
  <2>1. CASE Return("load", 0)
    BY <1>4, <2>1
  <2> QED BY <1>9, <1>11, <2>1 DEF DependentReturned
<1>12. CASE NeededDone
  <2>1. CASE Return("load", Me.h)
    BY <1>4, <2>1
  <2>2. CASE frames' = Append(Front(frames), [Me EXCEPT !.pc = "relocate"]) /\ UNCHANGED ret
    <3>1. /\ [Me EXCEPT !.pc = "relocate"] \in Frame /\ [Me EXCEPT !.pc = "relocate"].h = Me.h
          /\ [Me EXCEPT !.pc = "relocate"].op = "load"
          /\ [Me EXCEPT !.pc = "relocate"].file = Me.file
      BY <1>2 DEF Frame
    <3>2. ret' = NoReturn
      BY <1>12, <2>2 DEF NeededDone
    <3> QED BY <1>5, <2>2, <3>1, <3>2
  <2> QED BY <1>12, <2>1, <2>2 DEF NeededDone
<1>13. CASE RejectFile \/ RejectCircular \/ FailAllocation \/ DependentNotFound \/ RelocateDone
  BY <1>4, <1>13 DEF RejectFile, RejectCircular, FailAllocation, DependentNotFound, RelocateDone
<1> QED BY <1>6, <1>7, <1>8, <1>10, <1>11, <1>12, <1>13 DEF LoadStep

(* An entry on a module's list.                                            *)
LoadEntry(d) ==
  /\ Me.h \in Handles /\ UNCHANGED loaded_objects
  /\ \/ loaded' = AddDependency(Me.h, d)
     \/ d \in Handles /\ loaded' = ShareModule(Me.h, d)

(* What a step of a load does to the modules: nothing, or a new one enters, *)
(* or an entry joins a list, which is not that of the module at the bottom. *)
LEMMA LoadStepData ==
  ASSUME CoreInv, SessionCalls, OwnFile, BelowBottom, AcyclicByName, LoadStep
  PROVE  \/ UNCHANGED << loaded, loaded_objects >>
         \/ Enqueue(Me.file, FALSE) /\ Me.file \in File
         \/ \E d \in Nat : LoadEntry(d) /\ (frames[1].h # 0 => frames[1].h # d)
<1>1. ASSUME NEW pc, Running("load", pc)
      PROVE  /\ Me \in Frame /\ Me.op = "load" /\ Me = frames[Len(frames)]
             /\ frames # << >> /\ Loading
             /\ Len(frames) \in Nat \ {0} /\ DOMAIN frames = 1 .. Len(frames)
             /\ pc # "headers" => Me.h \in Handles /\ Me.h # 0
  <2>1. /\ Me \in Frame /\ Me.op = "load" /\ Me.pc = pc /\ Me = frames[Len(frames)]
        /\ frames # << >> /\ Loading /\ Len(frames) \in 1 .. Len(frames)
    BY <1>1, RunningTop DEF SessionCalls, ControlInv
  <2>2. Len(frames) \in Nat \ {0} /\ DOMAIN frames = 1 .. Len(frames)
    BY <2>1, CallArray
  <2>3. pc # "headers" => Me.h \in Handles /\ Me.h # 0
    BY <2>1, CallArray
  <2> QED BY <2>1, <2>2, <2>3
<1>2. CASE FailAllocation \/ PlaceModule
  <2>1. Me.file \in File
    BY <1>1, <1>2 DEF FailAllocation, PlaceModule, Frame
  <2> QED BY <1>2, <2>1 DEF FailAllocation, PlaceModule
<1>3. CASE NeededIsLoaded
  <2>1. /\ Running("load", "needed") /\ PendingNeeded /\ UNCHANGED loaded_objects
        /\ Matches(Needed(Me.file)[Me.next]) # {}
        /\ loaded' = ShareModule(Me.h, FirstMatch(Needed(Me.file)[Me.next]))
    BY <1>3 DEF NeededIsLoaded, PendingNeeded
  <2> DEFINE name == Needed(Me.file)[Me.next]
  <2>2. name \in ToSet(Needed(Me.file)) /\ Matches(name) # {}
    BY <2>1, EntryOnList
  <2>3. PICK d : d = FirstMatch(name)
    OBVIOUS
  <2>4. d \in Handles /\ d \in Nat /\ SoName(loaded[d].file) = name
    <3>1. d \in Handles
      BY <2>2, <2>3, FoundIsLive
    <3>2. Matches(name) \in SUBSET DOMAIN loaded_objects /\ Matches(name) \in SUBSET Nat
      <4>1. DOMAIN loaded_objects = 1 .. Len(loaded_objects)
        BY LiveHandles, LenProperties
      <4> QED BY <4>1 DEF Matches
    <3>3. Min(Matches(name)) \in Matches(name)
      BY <2>2, <3>2, FirstOfPlaces
    <3>4. SoName(loaded[d].file) = name
      BY <2>3, <3>3 DEF Matches, FirstMatch
    <3> QED BY <3>1, <3>4, CallArray
  <2>5. /\ Me = frames[Len(frames)] /\ Len(frames) \in Nat \ {0} /\ Me.h \in Handles
        /\ DOMAIN frames = 1 .. Len(frames) /\ Loading
    BY <1>1, <2>1
  <2>6. ASSUME frames[1].h # 0, frames[1].h = d PROVE FALSE
    <3>1. PICK rank : rank \in NameRanks
      BY DEF AcyclicByName
    <3>2. frames[1].file = loaded[d].file /\ frames[1].file \in File /\ Me.file \in File
      <4>1. 1 \in DOMAIN frames /\ Len(frames) \in 1 .. Len(frames)
        BY <2>5
      <4>2. frames[1].op = "load"
        BY <2>5, <4>1 DEF Loading
      <4>3. frames[1].file = loaded[d].file
        BY <2>6, <4>1, <4>2 DEF OwnFile
      <4> QED BY <2>5, <4>1, <4>3, CallArray
    <3>3. rank[frames[1].file] < rank[Me.file]
      BY <2>2, <2>4, <3>1, <3>2 DEF NameRanks
    <3>4. /\ rank[frames[1].file] \in 1 .. Cardinality(File) /\ Cardinality(File) \in Nat
          /\ rank[Me.file] \in 1 .. Cardinality(File)
      BY <3>1, <3>2, FS_CardinalityType, DloadAssumption DEF NameRanks
    <3>5. CASE Len(frames) = 1
      BY <2>5, <3>3, <3>4, <3>5
    <3>6. CASE Len(frames) > 1
      <4>1. Len(frames) \in DOMAIN frames /\ frames[Len(frames)].op = "load"
        BY <2>5 DEF Loading
      <4>2. rank[Me.file] < rank[frames[1].file]
        BY <2>5, <3>1, <3>6, <4>1 DEF BelowBottom
      <4> QED BY <3>3, <3>4, <4>2
    <3> QED BY <2>5, <3>5, <3>6
  <2>7. LoadEntry(d)
    BY <2>1, <2>3, <2>4, <2>5 DEF LoadEntry
  <2> QED BY <2>4, <2>6, <2>7
<1>4. CASE DependentNotFound
  <2>1. Running("load", "needed") /\ loaded' = AddDependency(Me.h, 0) /\ UNCHANGED loaded_objects
    BY <1>4 DEF DependentNotFound, PendingNeeded
  <2>2. LoadEntry(0)
    BY <1>1, <2>1 DEF LoadEntry
  <2> QED BY <2>2
<1>5. CASE DependentReturned
  <2>1. /\ Running("load", "needed") /\ loaded' = AddDependency(Me.h, ret.val)
        /\ ret.of = "load" /\ UNCHANGED loaded_objects
    BY <1>5 DEF DependentReturned
  <2>2. ret.val \in Nat
    BY CallArray DEF CoreInv, Answer
  <2>3. LoadEntry(ret.val)
    BY <1>1, <2>1 DEF LoadEntry
  <2>4. 1 \in DOMAIN frames
    BY <1>1, <2>1
  <2>5. frames[1].h # 0 => frames[1].h # ret.val
    BY <2>1, <2>4 DEF SessionCalls, ControlInv, OneHolder
  <2> QED BY <2>2, <2>3, <2>5
<1>6. CASE UNCHANGED << loaded, loaded_objects >>
  BY <1>6
<1> QED BY <1>2, <1>3, <1>4, <1>5, <1>6 DEF LoadStep, RejectFile, RejectCircular, LoadDependent,
           NeededDone, Relocate, RelocateDone

(* So a load keeps the module at its bottom alone, once it has one.        *)
LEMMA AloneLoading ==
  ASSUME CoreInv, SessionCalls, OwnFile, BelowBottom, AcyclicByName, LoadStep
  PROVE  /\ Handles \subseteq Handles'
         /\ \A m \in Handles : loaded'[m].file = loaded[m].file
         /\ \A b \in Handles : (b = frames[1].h /\ Alone(b)) => Alone(b)'
         /\ Enqueue(Me.file, FALSE) =>
              loaded'[NewHandle].file = Me.file /\ \A k : k = NewHandle => Alone(k)'
<1>1. Handles = 1 .. Len(loaded) /\ Len(loaded) \in Nat /\ 0 \notin Handles
  BY CallArray
<1>2. CASE UNCHANGED << loaded, loaded_objects >>
  <2>1. Handles' = Handles /\ Live' = Live
    BY <1>2 DEF Handles, Live
  <2>2. \A b \in Handles : Alone(b) => Alone(b)'
    BY <1>2, <2>1 DEF Alone
  <2>3. ~Enqueue(Me.file, FALSE)
    <3>1. ASSUME Enqueue(Me.file, FALSE) PROVE FALSE
      <4>1. loaded \in Seq(Module) /\ loaded' = Append(loaded, NewModule(Me.file, FALSE))
        BY <3>1 DEF Enqueue, CoreInv, ModulesOK
      <4>2. Len(loaded') = Len(loaded) + 1
        BY <4>1
      <4> QED BY <1>1, <1>2, <4>2
    <3> QED BY <3>1
  <2> QED BY <1>2, <2>1, <2>2, <2>3
<1>3. CASE Enqueue(Me.file, FALSE) /\ Me.file \in File
  <2>1. PICK k : k = NewHandle
    OBVIOUS
  <2> QED BY <1>3, <2>1, AlonePlaced DEF SessionCalls, ControlInv
<1>4. CASE \E d \in Nat : LoadEntry(d) /\ (frames[1].h # 0 => frames[1].h # d)
  <2>1. PICK d \in Nat : LoadEntry(d) /\ (frames[1].h # 0 => frames[1].h # d)
    BY <1>4
  <2>2. PICK u \in Handles : u = Me.h
    BY <2>1 DEF LoadEntry
  <2>3. /\ Handles' = Handles
        /\ \A m \in Handles : loaded'[m].file = loaded[m].file
        /\ \A b \in Handles : (b # d /\ Alone(b)) => Alone(b)'
    BY <2>1, <2>2, AloneEntry DEF LoadEntry
  <2>4. \A b \in Handles : b = frames[1].h => b # d
    BY <1>1, <2>1
  <2>5. ~Enqueue(Me.file, FALSE)
    <3>1. ASSUME Enqueue(Me.file, FALSE) PROVE FALSE
      <4>1. loaded_objects' = Append(loaded_objects, NewHandle) /\ loaded_objects' = loaded_objects
        BY <2>1, <3>1 DEF Enqueue, LoadEntry
      <4>2. loaded_objects \in Seq(Nat) /\ NewHandle \in Nat /\ Len(loaded_objects) \in Nat
        <5>1. loaded_objects \in Seq(Handles) /\ Handles \subseteq Nat
          BY <1>1, LiveHandles
        <5>2. NewHandle \in Nat
          BY <1>1 DEF NewHandle
        <5> QED BY <5>1, <5>2, SeqMonotonic, LenProperties
      <4>3. Len(Append(loaded_objects, NewHandle)) = Len(loaded_objects) + 1
        BY <4>2, AppendProperties
      <4> QED BY <4>1, <4>2, <4>3
    <3> QED BY <3>1
  <2> QED BY <2>3, <2>4, <2>5
<1> QED BY <1>2, <1>3, <1>4, LoadStepData

(* A step of a load.                                                       *)
LEMMA SoleLoading ==
  ASSUME CoreInv, CoreInv', SessionCalls, SoleInv, AcyclicByName, LoadStep, disk' = disk
  PROVE  SoleInv'
<1>1. /\ Loading /\ Loading' /\ frames # << >>
      /\ ret.of \notin {"unload", "abort"} /\ ret'.of \notin {"unload", "abort"}
  BY LoadStepCalls
<1>2. /\ Len(frames) \in Nat \ {0} /\ DOMAIN frames = 1 .. Len(frames)
      /\ 1 \in DOMAIN frames /\ Len(frames) \in DOMAIN frames
      /\ Me = frames[Len(frames)] /\ Me \in Frame
      /\ \A i \in DOMAIN frames :
           /\ frames[i].file \in File /\ frames[i].h \in 0 .. Len(loaded) /\ frames[i].op = "load"
           /\ frames[i].h # 0 => frames[i].h \in Handles
  <2>1. Len(frames) \in Nat \ {0} /\ DOMAIN frames = 1 .. Len(frames) /\ Me = frames[Len(frames)]
        /\ Me \in Frame
    BY <1>1, TopOfCalls, CallArray
  <2>2. \A i \in DOMAIN frames :
          /\ frames[i].file \in File /\ frames[i].h \in 0 .. Len(loaded) /\ frames[i].op = "load"
          /\ frames[i].h # 0 => frames[i].h \in Handles
    BY <1>1, <2>1, CallArray DEF Loading
  <2> QED BY <2>1, <2>2
<1>3. /\ Handles \subseteq Handles'
      /\ \A m \in Handles : loaded'[m].file = loaded[m].file
      /\ \A b \in Handles : (b = frames[1].h /\ Alone(b)) => Alone(b)'
      /\ Enqueue(Me.file, FALSE) =>
           loaded'[NewHandle].file = Me.file /\ \A k : k = NewHandle => Alone(k)'
  BY AloneLoading DEF SoleInv
<1>4. PICK ranks : ranks = NameRanks /\ NameRanks' = ranks
  BY DEF NameRanks, Needed, SoName
<1>5. ASSUME NEW r \in ranks, NEW f \in File PROVE r[f] \in Nat
  BY <1>4, FS_CardinalityType, DloadAssumption DEF NameRanks
<1>6. \A i \in DOMAIN frames' : frames'[i].op = "load"
  BY <1>1 DEF Loading
<1>7. PICK b : b = frames[1].h
  OBVIOUS
<1>8. b # 0 => b \in Handles /\ Alone(b) /\ Alone(b)'
  BY <1>1, <1>2, <1>3, <1>7 DEF SoleInv, LoadedAlone
<1>9. \A i \in DOMAIN frames : frames[i].h # 0 => loaded'[frames[i].h].file = frames[i].file
  BY <1>2, <1>3 DEF SoleInv, OwnFile
<1>10. \A i \in DOMAIN frames : i > 1 =>
          \A r \in ranks : r[frames[i].file] < r[frames[1].file]
  BY <1>2, <1>4 DEF SoleInv, BelowBottom
<1>11. GivenUpLeaves' /\ RememberedAlone'
  <2>1. ~(frames' # << >> /\ frames'[1].op = "unload")
    <3>1. frames' # << >> => 1 \in DOMAIN frames'
      <4>1. frames' \in Seq(Frame)
        BY DEF CoreInv, FramesOK
      <4> QED BY <4>1, EmptySeq, LenProperties
    <3> QED BY <1>6, <3>1
  <2>2. ~(frames' = << >> /\ ret' = NoReturn)
    <3>1. CASE LoadReturns
      <4>1. ret'.of = "load"
        BY <3>1 DEF LoadReturns
      <4> QED BY <4>1 DEF NoReturn
    <3>2. CASE \/ \E f \in Frame : LoadGoesOnAs(f)
               \/ \E g \in File : LoadCalls(g)
               \/ LoadCallKept
      <4>1. 1 \in DOMAIN frames'
        <5>1. ASSUME NEW f \in Frame, LoadGoesOnAs(f) PROVE 1 \in DOMAIN frames'
          BY <1>2, <5>1 DEF LoadGoesOnAs, Replaced
        <5>2. ASSUME NEW g \in File, LoadCalls(g) PROVE 1 \in DOMAIN frames'
          BY <1>2, <5>2 DEF LoadCalls, Pushed
        <5>3. CASE LoadCallKept
          BY <1>2, <5>3 DEF LoadCallKept
        <5> QED BY <3>2, <5>1, <5>2, <5>3
      <4>2. frames' # << >>
        BY <4>1
      <4> QED BY <4>2
    <3> QED BY <3>1, <3>2, LoadStepFrames
  <2>3. ret'.of # "unload"
    BY <1>1
  <2> QED BY <2>1, <2>2, <2>3 DEF GivenUpLeaves, RememberedAlone
<1>12. CASE LoadReturns
  <2>1. PICK v \in {0, Me.h} : Popped /\ ret' = [of |-> "load", val |-> v]
    BY <1>12 DEF LoadReturns
  <2>2. \A i \in DOMAIN frames' : i \in DOMAIN frames /\ frames'[i] = frames[i]
    BY <1>2, <2>1 DEF Popped
  <2>3. frames' # << >> => 1 \in DOMAIN frames'
    <3>1. frames' \in Seq(Frame)
      BY DEF CoreInv, FramesOK
    <3> QED BY <3>1, EmptySeq, LenProperties
  <2>4. OwnFile'
    BY <1>9, <2>2 DEF OwnFile
  <2>5. BelowBottom'
    <3>1. \A i \in DOMAIN frames' : i > 1 => 1 \in DOMAIN frames'
      BY <1>2, <2>1 DEF Popped
    <3> QED BY <1>4, <1>10, <2>2, <3>1 DEF BelowBottom
  <2>6. ASSUME NEW c, frames' # << >>, c = frames'[1].h, c # 0 PROVE Alone(c)'
    BY <1>7, <1>8, <2>2, <2>3, <2>6
  <2>7. ASSUME NEW c, frames' = << >>, c = ret'.val, c # 0 PROVE Alone(c)'
    <3>1. frames' = << >> /\ v # 0 /\ c = v
      BY <2>1, <2>7
    <3>2. Len(frames) = 1
      BY <1>2, <2>1, <3>1 DEF Popped
    <3>3. c = b
      BY <1>2, <1>7, <2>1, <3>1, <3>2
    <3> QED BY <1>8, <3>1, <3>3
  <2> QED BY <1>11, <2>4, <2>5, <2>6, <2>7 DEF SoleInv, LoadedAlone, Alone, Live
<1>13. ASSUME NEW f \in Frame, LoadGoesOnAs(f) PROVE SoleInv'
  <2>1. /\ Replaced(f) /\ ret' = NoReturn /\ f.file = Me.file
        /\ f.h = Me.h \/ (Me.h = 0 /\ f.h = NewHandle /\ Enqueue(Me.file, FALSE))
    BY <1>13 DEF LoadGoesOnAs
  <2>2. /\ DOMAIN frames' = DOMAIN frames
        /\ \A i \in DOMAIN frames : frames'[i] = IF i = Len(frames) THEN f ELSE frames[i]
    BY <1>2, <2>1 DEF Replaced
  <2>3. \A i \in DOMAIN frames : frames'[i].file = frames[i].file
    BY <1>2, <2>1, <2>2
  <2>4. OwnFile'
    <3>1. f.h # 0 => loaded'[f.h].file = f.file
      BY <1>2, <1>3, <1>9, <2>1
    <3> QED BY <1>9, <2>2, <3>1 DEF OwnFile
  <2>5. BelowBottom'
    BY <1>2, <1>4, <1>10, <2>2, <2>3 DEF BelowBottom
  <2>6. ret'.of # "load"
    BY <2>1 DEF NoReturn
  <2>7. PICK c : c = frames'[1].h
    OBVIOUS
  <2>8. c # 0 => Alone(c)'
    <3>1. CASE Len(frames) = 1
      <4>1. c = f.h /\ b = Me.h
        BY <1>2, <1>7, <2>2, <2>7, <3>1
      <4> QED BY <1>3, <1>8, <2>1, <4>1
    <3>2. CASE Len(frames) # 1
      <4>1. c = b
        BY <1>2, <1>7, <2>2, <2>7, <3>2
      <4> QED BY <1>8, <4>1
    <3> QED BY <3>1, <3>2
  <2> QED BY <1>11, <2>4, <2>5, <2>6, <2>7, <2>8 DEF SoleInv, LoadedAlone, Alone, Live
<1>14. ASSUME NEW g \in File, LoadCalls(g) PROVE SoleInv'
  <2> DEFINE call == Call("load", g, 0, "headers")
  <2>1. /\ Pushed(call) /\ ret' = NoReturn /\ g \in ToSet(Needed(Me.file))
    BY <1>14 DEF LoadCalls
  <2>2. call.h = 0 /\ call.file = g
    BY DEF Call
  <2> HIDE DEF call
  <2>3. /\ DOMAIN frames' = 1 .. Len(frames) + 1
        /\ \A i \in DOMAIN frames : frames'[i] = frames[i]
        /\ frames'[Len(frames) + 1] = call
        /\ \A i \in DOMAIN frames' : i = Len(frames) + 1 \/ i \in DOMAIN frames
    BY <1>2, <2>1 DEF Pushed
  <2>4. OwnFile'
    BY <1>9, <2>2, <2>3 DEF OwnFile
  <2>5. BelowBottom'
    <3>1. ASSUME NEW r \in ranks PROVE r[g] < r[frames[1].file]
      <4>1. r[g] < r[Me.file]
        BY <1>2, <1>4, <2>1 DEF NameRanks
      <4>2. r[g] \in Nat /\ r[Me.file] \in Nat /\ r[frames[1].file] \in Nat
        BY <1>2, <1>5
      <4>3. CASE Len(frames) = 1
        BY <1>2, <4>1, <4>3
      <4>4. CASE Len(frames) # 1
        <5>1. r[Me.file] < r[frames[1].file]
          BY <1>2, <1>10, <4>4
        <5> QED BY <4>1, <4>2, <5>1
      <4> QED BY <4>3, <4>4
    <3> QED BY <1>2, <1>4, <1>10, <2>2, <2>3, <3>1 DEF BelowBottom
  <2>6. ret'.of # "load" /\ frames'[1].h = b
    BY <1>2, <1>7, <2>1, <2>3 DEF NoReturn
  <2> QED BY <1>8, <1>11, <2>4, <2>5, <2>6 DEF SoleInv, LoadedAlone, Alone, Live
<1>15. CASE LoadCallKept
  <2>1. frames' = frames /\ ret'.of # "load"
    BY <1>15 DEF LoadCallKept, NoReturn
  <2>2. OwnFile' /\ BelowBottom'
    BY <1>2, <1>4, <1>9, <1>10, <2>1 DEF OwnFile, BelowBottom
  <2> QED BY <1>7, <1>8, <1>11, <2>1, <2>2 DEF SoleInv, LoadedAlone, Alone, Live
<1> QED BY <1>12, <1>13, <1>14, <1>15, LoadStepFrames

(* A step of an unload: only its end takes the shell's module from memory.  *)
LEMMA SoleUnloading ==
  ASSUME CoreInv, CoreInv', SessionCalls, SoleInv, UnloadStep, prog_handle' = prog_handle
  PROVE  SoleInv'
<1>1. /\ frames # << >> /\ Unloading /\ Me = frames[Len(frames)] /\ Me \in Frame
      /\ Len(frames) \in Nat \ {0} /\ DOMAIN frames = 1 .. Len(frames)
  <2>1. Running("unload", "depend")
    BY DEF UnloadStep, UnloadDependent, DependentUnloaded, UnloadDone, AbortOnDoubleFree
  <2> QED BY <2>1, SessionUnloads
<1>2. frames[1].op = "unload" /\ frames[1].h = prog_handle
  BY <1>1 DEF Unloading, SoleInv, GivenUpLeaves
<1>3. frames' # << >> => 1 \in DOMAIN frames'
  <2>1. frames' \in Seq(Frame)
    BY DEF CoreInv, FramesOK
  <2> QED BY <2>1, EmptySeq, LenProperties
<1>4. /\ Unloading' /\ ret'.of # "load"
      /\ frames' # << >> => frames'[1].h = prog_handle
      /\ frames' = << >> => ret'.of = "unload" /\ prog_handle \notin Live'
  <2>1. CASE UnloadDependent
    <3>1. PICK me : me = [Me EXCEPT !.next = Me.next + 1] /\ me.h = Me.h
      <4>1. [Me EXCEPT !.next = Me.next + 1].h = Me.h
        BY <1>1 DEF Frame
      <4> QED BY <4>1
    <3>2. Unloading'
      BY <2>1, DependentCalls
    <3>3. 1 \in DOMAIN frames' /\ frames'[1].h = frames[1].h /\ ret'.of # "load"
      <4>0. /\ 1 \in 1 .. Len(frames)
            /\ 1 \in 1 .. Len(frames) + 1 /\ 1 # Len(frames) + 1
            /\ 1 = Len(frames) => me.h = frames[1].h
        BY <1>1, <3>1
      <4>1. CASE Replaced(me) /\ ret' = [of |-> "unload", val |-> 0]
        <5>1. 1 \in DOMAIN frames'
          BY <4>0, <4>1 DEF Replaced
        <5>2. frames'[1] = IF 1 = Len(frames) THEN me ELSE frames[1]
          BY <4>0, <4>1 DEF Replaced
        <5>3. ret'.of # "load"
          BY <4>1
        <5> QED BY <4>0, <5>1, <5>2, <5>3
      <4>2. ASSUME NEW g \in Frame, ReplacedPushed(me, g), ret' = NoReturn
            PROVE  1 \in DOMAIN frames' /\ frames'[1].h = frames[1].h /\ ret'.of # "load"
        <5>1. 1 \in DOMAIN frames'
          BY <4>0, <4>2 DEF ReplacedPushed
        <5>2. frames'[1] = IF 1 = Len(frames) THEN me ELSE frames[1]
          BY <4>0, <4>2 DEF ReplacedPushed
        <5>3. ret'.of # "load"
          BY <4>2 DEF NoReturn
        <5> QED BY <4>0, <5>1, <5>2, <5>3
      <4> QED BY <2>1, <3>1, <4>1, <4>2, DependentCalls
    <3>4. frames' # << >>
      BY <3>3
    <3> QED BY <1>2, <3>2, <3>3, <3>4
  <2>2. CASE DependentUnloaded \/ UnloadDone \/ AbortOnDoubleFree
    <3>1. Unloading'
      BY <2>2, UnloadEndCalls
    <3>2. CASE UNCHANGED frames /\ ret'.of # "load"
      BY <1>1, <1>2, <3>1, <3>2
    <3>3. CASE Popped /\ ret' = [of |-> "unload", val |-> 1] /\ Me.h \notin Live'
      <4>1. ret'.of = "unload"
        BY <3>3
      <4>2. frames' # << >> => frames'[1].h = frames[1].h
        BY <1>3, <3>3 DEF Popped
      <4>3. frames' = << >> => Len(frames) = 1
        <5>1. Len(frames') = Len(frames) - 1
          BY <3>3 DEF Popped
        <5>2. Len(<< >>) = 0
          OBVIOUS
        <5>3. frames' = << >> => 0 = Len(frames) - 1
          BY <5>1, <5>2
        <5>4. Len(frames) \in Nat /\ (0 = Len(frames) - 1 => Len(frames) = 1)
          BY <1>1
        <5> QED BY <5>3, <5>4
      <4> QED BY <1>1, <1>2, <3>1, <3>3, <4>1, <4>2, <4>3
    <3>4. \/ UNCHANGED frames /\ ret'.of # "load"
          \/ Popped /\ ret' = [of |-> "unload", val |-> 1] /\ Me.h \notin Live'
      <4>1. NoReturn.of # "load" /\ [of |-> "abort", val |-> 0].of # "load"
        BY DEF NoReturn
      <4> QED BY <2>2, <4>1, UnloadEndCalls
    <3> QED BY <3>2, <3>3, <3>4
  <2> QED BY <2>1, <2>2 DEF UnloadStep
<1>5. OwnFile' /\ BelowBottom'
  BY <1>4 DEF Unloading, OwnFile, BelowBottom
<1>6. LoadedAlone' /\ RememberedAlone' /\ GivenUpLeaves'
  BY <1>3, <1>4 DEF LoadedAlone, RememberedAlone, GivenUpLeaves, Unloading, NoReturn
<1> QED BY <1>5, <1>6 DEF SoleInv

(* The shell takes an answer.                                              *)
LEMMA SoleReturned ==
  ASSUME CoreInv, SoleInv, ShellReturned
  PROVE  SoleInv'
<1>1. /\ frames = << >> /\ frames' = << >> /\ DOMAIN frames' = {} /\ ret' = NoReturn
      /\ UNCHANGED << loaded, loaded_objects >>
      /\ client' = IF ret.of = "load" /\ ret.val # 0 THEN client \cup {ret.val} ELSE client
  BY DEF ShellReturned, TopReturned, Idle
<1>2. /\ Live' = Live /\ 0 \notin Live /\ \A b : Alone(b) => Alone(b)'
  <2>1. 0 \notin Live
    BY LiveHandles, CallArray
  <2> QED BY <1>1, <2>1 DEF Live, Alone
<1>3. OwnFile' /\ BelowBottom' /\ LoadedAlone' /\ GivenUpLeaves'
  BY <1>1 DEF OwnFile, BelowBottom, LoadedAlone, GivenUpLeaves, NoReturn
<1>4. RememberedAlone'
  <2>1. PICK p : p = prog_handle'
    OBVIOUS
  <2>2. p \in Live => p \in client' /\ Alone(p)'
    <3>1. CASE ShellLoadFailed
      BY <1>2, <2>1, <3>1 DEF ShellLoadFailed
    <3>2. CASE ShellLoadDone
      BY <1>1, <1>2, <2>1, <3>2 DEF ShellLoadDone, SoleInv, LoadedAlone
    <3>3. CASE ShellUnloadDone
      BY <1>1, <2>1, <3>3 DEF ShellUnloadDone, SoleInv, GivenUpLeaves
    <3> QED BY <3>1, <3>2, <3>3 DEF ShellReturned
  <2> QED BY <1>2, <2>1, <2>2 DEF RememberedAlone, Alone, Live
<1> QED BY <1>3, <1>4 DEF SoleInv

(* The shell gives up its handle: one it holds, or one that is gone.       *)
LEMMA SoleShellUnload ==
  ASSUME CoreInv, CoreInv', SessionCalls, UseInv, SoleInv, ShellUnload, UNCHANGED disk
  PROVE  UseInv' /\ SoleInv'
<1>1. /\ Idle /\ frames = << >> /\ ret = NoReturn /\ EnterUnload(prog_handle, << >>)
      /\ client' = client \ {prog_handle} /\ UNCHANGED loaded_objects /\ prog_handle' = prog_handle
      /\ UNCHANGED << dependency_list, dependency_stack, init_order >>
  BY DEF ShellUnload, AtPrompt, Idle, shell_vars
<1>2. Live' = Live
  BY <1>1 DEF Live
<1>3. CASE prog_handle \in Live
  <2>1. prog_handle \in client /\ loaded[prog_handle].use_count = 1
    BY <1>1, <1>3 DEF SoleInv, RememberedAlone, Alone
  <2>2. UseInv'
    <3>1. TopUnload(prog_handle)
      BY <1>1, <2>1 DEF TopUnload
    <3>2. PICK h \in client : h = prog_handle
      BY <2>1
    <3> QED BY <3>1, <3>2, TopUnloadUses
  <2>3. /\ frames' = << Call("unload", loaded[prog_handle].file, prog_handle, "depend") >>
        /\ ret' = NoReturn
    BY <1>1, <1>3, <2>1 DEF EnterUnload, StillUsed
  <2>4. /\ DOMAIN frames' = {1} /\ frames' # << >>
        /\ frames'[1].h = prog_handle /\ frames'[1].op = "unload"
    BY <2>3 DEF Call
  <2> QED BY <1>1, <2>2, <2>3, <2>4
          DEF SoleInv, OwnFile, BelowBottom, LoadedAlone, RememberedAlone, GivenUpLeaves, NoReturn
<1>4. CASE prog_handle \notin Live
  <2>1. /\ frames' = << >> /\ ret' = [of |-> "unload", val |-> 0]
        /\ UNCHANGED << loaded, fini_order >>
    BY <1>1, <1>4 DEF EnterUnload
  <2>2. ret'.of = "unload" /\ DOMAIN frames' = {} /\ DOMAIN frames = {}
    BY <1>1, <2>1
  <2>3. SoleInv'
    BY <1>1, <1>2, <1>4, <2>1, <2>2
       DEF SoleInv, OwnFile, BelowBottom, LoadedAlone, RememberedAlone, GivenUpLeaves, NoReturn
  <2>4. client' = client
    <3>1. client \subseteq Handles
      BY DEF CoreInv, OrdersOK, Handles
    <3>2. client \subseteq Live
      BY <3>1 DEF UseInv, UsedIsLive, Outside
    <3> QED BY <1>1, <1>4, <3>2
  <2>5. ControlInv'
    BY ShellUnloadCalls DEF SessionCalls
  <2>6. Handles' = Handles
    BY <2>1 DEF Handles
  <2>7. \A h : Outside(h)' = Outside(h) /\ UsesByModules(h)' = UsesByModules(h)
    <3>1. \A h : Outside(h)' = Outside(h)
      BY <1>1, <2>1, <2>2, <2>4 DEF Outside, NoReturn
    <3> QED BY <1>1, <1>2, <2>1, <3>1 DEF UsesByModules, UsesBy, HeldPositions, UnloadFrames
  <2>8. ModuleState'
    <3>1. \A m : BeingUnloaded(m)' = BeingUnloaded(m) /\ Terminated(m)' = Terminated(m)
      BY <1>1, <2>1 DEF BeingUnloaded, Terminated
    <3>2. ret.of # "abort"
      BY <1>1 DEF NoReturn
    <3> QED BY <1>2, <2>1, <2>6, <3>1, <3>2 DEF UseInv, ModuleState
  <2>9. UsedIsLive' /\ Covered'
    BY <1>2, <2>1, <2>6, <2>7 DEF UseInv, UsedIsLive, Covered, AllUses
  <2> QED BY <2>3, <2>5, <2>8, <2>9 DEF UseInv
<1> QED BY <1>3, <1>4

(* Commands that call no unload.                                           *)
LEMMA SoleCommand ==
  ASSUME CoreInv, SessionCalls, SoleInv,
         \/ \E f \in File : ShellLoad(f) \/ BaseImage(f)
         \/ ShellLoadNotFound \/ BaseImageRejected \/ Leave
  PROVE  SoleInv'
<1>1. frames = << >> /\ ret = NoReturn /\ DOMAIN frames = {}
  <2>1. AtPrompt
    BY DEF ShellLoad, BaseImage, ShellLoadNotFound, BaseImageRejected, Leave
  <2> QED BY <2>1 DEF AtPrompt, Idle
<1>2. 0 \notin Live
  BY LiveHandles, CallArray
<1>3. ASSUME NEW f \in File, ShellLoad(f) PROVE SoleInv'
  <2>1. frames' = << Call("load", f, 0, "headers") >> /\ ret' = NoReturn
    BY <1>1, <1>3 DEF ShellLoad, TopLoad
  <2>2. /\ DOMAIN frames' = {1} /\ frames' # << >> /\ frames'[1].h = 0 /\ frames'[1].op = "load"
        /\ ret'.of # "unload"
    BY <2>1 DEF Call, NoReturn
  <2> QED BY <2>2
          DEF SoleInv, OwnFile, BelowBottom, LoadedAlone, RememberedAlone, GivenUpLeaves
<1>4. ASSUME frames' = << >>, ret' = NoReturn, NEW p, p = prog_handle',
             p \in Live' => p \in client' /\ Alone(p)'
      PROVE  SoleInv'
  <2>1. DOMAIN frames' = {}
    BY <1>4
  <2> QED BY <1>4, <2>1
          DEF SoleInv, OwnFile, BelowBottom, LoadedAlone, RememberedAlone, GivenUpLeaves, NoReturn,
              Alone, Live
<1>5. ASSUME NEW f \in File, BaseImage(f) PROVE SoleInv'
  <2>1. frames' = << >> /\ ret' = NoReturn
    BY <1>1, <1>5 DEF BaseImage, LoadSymbols
  <2>2. PICK p : p = prog_handle'
    OBVIOUS
  <2>3. CASE InProcessOfLoading(f)
    <3>1. p = 0 /\ loaded_objects' = loaded_objects
      BY <1>5, <2>2, <2>3 DEF BaseImage, LoadSymbols
    <3> QED BY <1>2, <1>4, <2>1, <2>2, <3>1 DEF Live
  <2>4. CASE ~InProcessOfLoading(f)
    <3>1. p = NewHandle /\ Enqueue(f, TRUE) /\ client' = client \cup {NewHandle}
      BY <1>5, <2>2, <2>4 DEF BaseImage, LoadSymbols
    <3>2. Alone(p)'
      BY <3>1, AlonePlaced DEF SessionCalls, ControlInv
    <3> QED BY <1>4, <2>1, <2>2, <3>1, <3>2
  <2> QED BY <2>3, <2>4
<1>6. CASE BaseImageRejected
  <2>1. UNCHANGED << frames, ret, loaded_objects >> /\ prog_handle' = 0
    BY <1>6 DEF BaseImageRejected, vars
  <2> QED BY <1>1, <1>2, <1>4, <2>1 DEF Live
<1>7. CASE ShellLoadNotFound \/ Leave
  <2>1. UNCHANGED << frames, ret, loaded_objects, loaded, client, prog_handle >>
    BY <1>7 DEF ShellLoadNotFound, Leave, vars
  <2>2. PICK p : p = prog_handle
    OBVIOUS
  <2>3. Live' = Live
    BY <2>1 DEF Live
  <2>4. p \in Live' => p \in client' /\ Alone(p)'
    BY <1>1, <2>1, <2>2, <2>3 DEF SoleInv, RememberedAlone, Alone
  <2> QED BY <1>1, <1>4, <2>1, <2>2, <2>4
<1> QED BY <1>3, <1>5, <1>6, <1>7

(* Every step of a session.                                                *)
LEMMA StaleNext ==
  RidlInv /\ RidlInv' /\ SessionCalls /\ StaleInv /\ [RidlNext]_ridl_vars => StaleInv'
<1> SUFFICES ASSUME CoreInv, CoreInv', SessionCalls, StaleInv, [RidlNext]_ridl_vars
             PROVE  StaleInv'
  BY DEF RidlInv
<1>1. disk' = disk
  BY DEF RidlNext, CoreStep, ShellReturned, Command, BaseImage, ShellLoadNotFound,
         BaseImageRejected, ShellUnload, Leave, ridl_vars, vars
<1>2. AcyclicByName' = AcyclicByName
  BY <1>1 DEF AcyclicByName, NameRanks, Needed, SoName
<1> SUFFICES ASSUME AcyclicByName PROVE UseInv' /\ SoleInv'
  BY <1>2 DEF StaleInv
<1>3. UseInv /\ SoleInv
  BY DEF StaleInv
<1>4. CASE CoreStep
  <2>1. LoadStep \/ UnloadStep
    BY <1>4 DEF CoreStep, CoreAlone, Placing, NestedLoad, NestedLoadReturned,
                NestedUnloadReturned, LoadStep, UnloadStep
  <2>2. Next
    BY <1>1, <2>1 DEF Next, LoaderStep
  <2>3. prog_handle' = prog_handle
    BY <1>4 DEF CoreStep
  <2> QED BY <1>1, <1>3, <2>1, <2>2, <2>3, UseNext, SoleLoading, SoleUnloading
<1>5. CASE ShellReturned
  <2>1. Next
    BY <1>1, <1>5 DEF ShellReturned, Next, LoaderStep
  <2> QED BY <1>3, <1>5, <2>1, UseNext, SoleReturned
<1>6. CASE ShellUnload
  BY <1>1, <1>3, <1>6, SoleShellUnload
<1>7. ASSUME NEW f \in File, ShellLoad(f) \/ BaseImage(f) PROVE UseInv' /\ SoleInv'
  <2>1. Next
    BY <1>1, <1>7 DEF ShellLoad, BaseImage, Next, ClientStep
  <2> QED BY <1>3, <1>7, <2>1, UseNext, SoleCommand
<1>8. CASE ShellLoadNotFound \/ BaseImageRejected \/ Leave
  <2>1. UNCHANGED vars
    BY <1>8 DEF ShellLoadNotFound, BaseImageRejected, Leave
  <2> QED BY <1>3, <1>8, <2>1, UseNext, SoleCommand
<1>9. CASE UNCHANGED ridl_vars
  <2>1. UNCHANGED vars /\ prog_handle' = prog_handle
    BY <1>9 DEF ridl_vars, shell_vars
  <2>2. UNCHANGED << frames, ret, loaded, loaded_objects, client, disk >>
    BY <2>1 DEF vars
  <2>3. SoleInv'
    BY <1>3, <2>1, <2>2 DEF SoleInv, OwnFile, BelowBottom, LoadedAlone, RememberedAlone,
                            GivenUpLeaves, Alone, Live, NameRanks, Needed, SoName
  <2> QED BY <1>3, <2>1, <2>3, UseNext
<1> QED BY <1>4, <1>5, <1>6, <1>7, <1>8, <1>9 DEF RidlNext, Command

(* Whatever the shell gives up, twice or not, and whichever loads fail: as  *)
(* long as no files need each other in a circle, by either of their names,  *)
(* no use count falls below the uses, and no module is freed or terminated  *)
(* while one still running needs it.                                       *)
THEOREM StaleUnloads == RidlSpec => []StaleUnloadHarmless
<1>1. RidlInit => StaleInv
  <2> SUFFICES ASSUME RidlInit PROVE UseInv /\ SoleInv
    BY DEF StaleInv
  <2>1. UseInv
    BY UseInit DEF RidlInit
  <2>2. frames = << >> /\ DOMAIN frames = {} /\ ret = NoReturn /\ Live = {}
    BY DEF RidlInit, Init, Live, ToSet
  <2>3. SoleInv
    BY <2>2 DEF SoleInv, OwnFile, BelowBottom, LoadedAlone, RememberedAlone, GivenUpLeaves,
                NoReturn
  <2> QED BY <2>1, <2>3
<1>2. RidlInv /\ StaleInv => StaleUnloadHarmless
  BY UseImplies DEF RidlInv, StaleInv, StaleUnloadHarmless
<1> QED
  BY RidlInitInv, RidlNextInv, SessionCallsInit, SessionCallsNext, StaleNext, <1>1, <1>2, PTL
     DEF RidlSpec

-----------------------------------------------------------------------------
(* What a debugger sees.  From the one base image with a list header on,    *)
(* each load under way has its host record on the context stack, above     *)
(* whatever failed loads left there, and the records in target memory are  *)
(* those of the loads that came back.                                      *)

(* The host record of a load of a file: its segments are known once the    *)
(* module has been placed.                                                 *)
RecordOfLoad(file, h) ==
  [module_name |-> file, segs |-> IF h = 0 THEN << >> ELSE << h >>]

FailedLoad == ret = [of |-> "load", val |-> 0]

(* The loads under way are of new modules ...                              *)
NewlyLoaded(h) == h \in Live /\ h > DLModules_loc /\ h \notin completed

LoadsAreNew ==
  /\ \A i \in DOMAIN frames : (frames[i].op = "load" /\ frames[i].h # 0) =>
        NewlyLoaded(frames[i].h) /\ loaded[frames[i].h].file = frames[i].file
  /\ (ret.of = "load" /\ ret.val # 0) => NewlyLoaded(ret.val)

(* ... and none of them has failed so far, or all will: then their records  *)
(* are the topmost on the stack, outermost load first, and that of a load  *)
(* that has just come back is above them.                                  *)
LoadsOnStack ==
  (Loading /\ ~FailedLoad) =>
    \E left \in 0 .. Len(dl_debug_stk) :
      /\ Len(dl_debug_stk) = left + Len(frames) + (IF ret.of = "load" THEN 1 ELSE 0)
      /\ \A i \in DOMAIN frames :
            dl_debug_stk[left + i] = RecordOfLoad(frames[i].file, frames[i].h)
      /\ ret.of = "load" =>
            dl_debug_stk[left + Len(frames) + 1] = RecordOfLoad(loaded[ret.val].file, ret.val)

(* The module a finished unload has just freed: its record is due to go.   *)
JustFreed ==
  IF ~Freed THEN {} ELSE IF frames = << >> THEN {prog_handle} ELSE {Unloaded}

(* The modules with a record.                                              *)
Due == completed \cap NewerThanBase \cap (Live \cup JustFreed)

RecordHandles == {Mirror[i].handle : i \in DOMAIN Mirror}

(* Each record has the name and the segments of its module, and the header  *)
(* leads to the first.                                                     *)
RecordsAreRight ==
  /\ first_module_ptr[DLModules_loc] = IF Mirror = << >> THEN NULL ELSE AddressOf(1)
  /\ \A i \in DOMAIN Mirror : segments[AddressOf(i)] = RecordOf(Mirror[i].handle)
  /\ \A i, j \in DOMAIN Mirror : Mirror[i].handle = Mirror[j].handle => i = j

(* Before the first base image there are no records.                       *)
NoRecordsYet ==
  BaseImages = {} =>
    /\ ~DLL_debug /\ Mirror = << >>
    /\ \A l \in Header : first_module_ptr[l] = NULL

Watched == KeptThroughout /\ status = "running" /\ ret.of # "abort"

(* What is being unloaded is still in memory ...                           *)
UnloadsInMemory ==
  (Unloading /\ ret.of # "abort") => \A i \in DOMAIN frames : frames[i].h \in Live

(* ... and what was just freed is not.                                     *)
FreedIsGone == JustFreed \subseteq Handles \ Live

DebugInv ==
  /\ completed \subseteq Handles
  /\ NoRecordsYet
  /\ UnloadsInMemory
  /\ FreedIsGone
  /\ Watched =>
       /\ DLModules_loc \in Handles
       /\ LoadsAreNew
       /\ LoadsOnStack
       /\ RecordsAreRight
       /\ RecordHandles = Due

(* An address is not NULL.                                                 *)
LEMMA AddressesAreReal == 0 \notin Address
  BY DebugListAssumption

(* Following the pointers from the header, record i of the list is the i-th *)
(* that is met.                                                            *)
LEMMA MetInOrder ==
  ASSUME ListInv, RecordsAreRight
  PROVE  Met(Len(Mirror)) = {RecordOf(h) : h \in RecordHandles}
<1>1. PICK n \in Nat : n = Len(Mirror)
  BY MirrorEntries DEF ListInv
<1>2. DOMAIN Mirror = 1 .. n
  BY <1>1, MirrorEntries DEF ListInv
<1>3. \A i \in 1 .. n : AddressOf(i) # NULL
  BY <1>2, MirrorEntries, AddressesAreReal DEF ListInv, NULL
<1> DEFINE Leads(at) == at = [i \in 1 .. n |-> IF i = 1 THEN first_module_ptr[DLModules_loc]
                                                ELSE IF at[i - 1] = NULL THEN NULL
                                                ELSE next_module_ptr[at[i - 1]]]
           place == [i \in 1 .. n |-> AddressOf(i)]
           met == CHOOSE at : Leads(at)
<1>4. \A i \in 1 .. n : i # 1 => i - 1 \in 1 .. n /\ next_module_ptr[AddressOf(i - 1)] = AddressOf(i)
  <2>1. ASSUME NEW i \in 1 .. n, i # 1
        PROVE  i - 1 \in 1 .. n /\ next_module_ptr[AddressOf(i - 1)] = AddressOf(i)
    <3>1. i - 1 \in 1 .. n /\ i - 1 # n /\ (i - 1) + 1 = i
      BY <2>1
    <3> QED BY <1>1, <1>2, <3>1 DEF ListInv, LinkedInOrder, Mirror
  <2> QED BY <2>1
<1>5. n # 0 => first_module_ptr[DLModules_loc] = AddressOf(1)
  <2>1. n # 0 => Mirror # << >>
    BY <1>1, EmptySeq
  <2> QED BY <2>1 DEF RecordsAreRight
<1>6. Leads(place)
  <2>1. ASSUME NEW i \in 1 .. n
        PROVE  place[i] = IF i = 1 THEN first_module_ptr[DLModules_loc]
                          ELSE IF place[i - 1] = NULL THEN NULL
                          ELSE next_module_ptr[place[i - 1]]
    BY <1>2, <1>4, <1>5, <1>3
  <2> QED BY <2>1
<1>7. Leads(met)
  <2> HIDE DEF Leads, place
  <2> QED BY <1>6
<1> HIDE DEF met
<1>8. \A i \in 1 .. n : met[i] = IF i = 1 THEN first_module_ptr[DLModules_loc]
                                 ELSE IF met[i - 1] = NULL THEN NULL
                                 ELSE next_module_ptr[met[i - 1]]
  BY <1>7
<1>9. \A i \in 1 .. n : met[i] = AddressOf(i)
  <2> DEFINE off == {i \in 1 .. n : met[i] # AddressOf(i)}
  <2>1. ASSUME off # {} PROVE FALSE
    <3>1. PICK x \in off : \A y \in off : x <= y
      <4>1. off \in SUBSET Nat
        OBVIOUS
      <4> QED BY <2>1, <4>1, LeastOfPlaces
    <3>2. CASE x = 1
      BY <1>5, <1>8, <3>1, <3>2
    <3>3. CASE x # 1
      <4>1. x - 1 \in 1 .. n /\ next_module_ptr[AddressOf(x - 1)] = AddressOf(x)
        BY <1>4, <3>1, <3>3
      <4>2. met[x - 1] = AddressOf(x - 1)
        BY <3>1, <4>1
      <4> QED BY <1>8, <1>3, <3>1, <3>3, <4>1, <4>2
    <3> QED BY <3>2, <3>3
  <2> QED BY <2>1
<1>10. Met(n) = {segments[met[i]] : i \in {j \in 1 .. n : met[j] # NULL}}
  BY DEF Met, met
<1>11. \A i \in 1 .. n : met[i] # NULL /\ segments[met[i]] = RecordOf(Mirror[i].handle)
  BY <1>2, <1>9, <1>3 DEF RecordsAreRight
<1>12. Met(n) = {RecordOf(Mirror[i].handle) : i \in 1 .. n}
  BY <1>10, <1>11
<1> QED BY <1>1, <1>2, <1>12 DEF RecordHandles

(* There are as many of them as modules with a record.                     *)
LEMMA AsManyRecords ==
  ASSUME ListInv, RecordsAreRight
  PROVE  Cardinality(RecordHandles) = Len(Mirror)
<1> DEFINE n == Len(Mirror)
           handle == [i \in 1 .. n |-> Mirror[i].handle]
<1>1. n \in Nat /\ DOMAIN Mirror = 1 .. n
  BY MirrorEntries DEF ListInv
<1>2. handle \in Bijection(1 .. n, RecordHandles)
  <2>1. handle \in [1 .. n -> RecordHandles]
    BY <1>1 DEF RecordHandles
  <2>2. \A i, j \in 1 .. n : handle[i] = handle[j] => i = j
    BY <1>1 DEF RecordsAreRight
  <2>3. \A h \in RecordHandles : \E i \in 1 .. n : handle[i] = h
    BY <1>1 DEF RecordHandles
  <2> HIDE DEF handle
  <2> QED BY <2>1, <2>2, <2>3 DEF Bijection, Injection, Surjection, IsInjective
<1> HIDE DEF handle, n
<1>3. IsFiniteSet(1 .. n) /\ Cardinality(1 .. n) = n
  <2>1. 1 \in Int /\ n \in Int
    BY <1>1
  <2>2. IsFiniteSet(1 .. n) /\ Cardinality(1 .. n) = IF 1 > n THEN 0 ELSE n - 1 + 1
    BY <2>1, FS_Interval
  <2> QED BY <1>1, <2>2
<1>4. ExistsBijection(1 .. n, RecordHandles)
  BY <1>2 DEF ExistsBijection
<1> QED BY <1>3, <1>4, FS_Bijection DEF n

(* The header says so when there are no records.                           *)
LEMMA HeaderNull ==
  ASSUME ListInv, RecordsAreRight
  PROVE  first_module_ptr[DLModules_loc] = NULL <=> Mirror = << >>
<1>1. CASE Mirror = << >>
  BY <1>1 DEF RecordsAreRight
<1>2. CASE Mirror # << >>
  <2>1. 1 \in 1 .. Len(Mirror)
    BY <1>2, MirrorEntries, EmptySeq DEF ListInv
  <2>2. AddressOf(1) \in Address
    BY <2>1, MirrorEntries DEF ListInv
  <2> QED BY <1>2, <2>2, AddressesAreReal DEF RecordsAreRight, NULL
<1> QED BY <1>1, <1>2

(* A module keeps its record as long as it keeps its file.                 *)
FilesStay(H) == \A m \in H : loaded'[m].file = loaded[m].file

(* Steps that leave the records alone.                                     *)
LEMMA RecordsLeftAlone ==
  ASSUME RecordsAreRight, FilesStay(RecordHandles),
         UNCHANGED << mirror_debug_list, first_module_ptr, segments, DLModules_loc >>
  PROVE  RecordsAreRight' /\ RecordHandles' = RecordHandles
<1>1. Mirror' = Mirror /\ \A i : AddressOf(i)' = AddressOf(i)
  BY DEF Mirror, AddressOf
<1>2. RecordHandles' = RecordHandles
  BY <1>1 DEF RecordHandles
<1>3. \A i \in DOMAIN Mirror' : 
        segments'[AddressOf(i)'] = << loaded'[Mirror'[i].handle].file, << Mirror'[i].handle >> >>
  <2>1. ASSUME NEW i \in DOMAIN Mirror
        PROVE  segments'[AddressOf(i)'] = << loaded'[Mirror[i].handle].file, << Mirror[i].handle >> >>
    <3>1. segments[AddressOf(i)] = << loaded[Mirror[i].handle].file, << Mirror[i].handle >> >>
      BY <2>1 DEF RecordsAreRight, RecordOf
    <3>2. Mirror[i].handle \in RecordHandles
      BY <2>1 DEF RecordHandles
    <3>3. loaded'[Mirror[i].handle].file = loaded[Mirror[i].handle].file
      BY <3>2 DEF FilesStay
    <3> QED BY <1>1, <3>1, <3>3
  <2> QED BY <1>1, <2>1
<1> QED BY <1>1, <1>2, <1>3 DEF RecordsAreRight, RecordOf

(* The load of h came back with its host record on the top of the stack.   *)
LEMMA RecordAdded ==
  ASSUME ListInv, DLL_debug, RecordsAreRight, NEW h \in Nat \ {0}, h \notin RecordHandles,
         NEW a \in Address, AddTargetRecord(h, a), FilesStay(RecordHandles \cup {h}),
         Last(dl_debug_stk) = RecordOfLoad(loaded[h].file, h)
  PROVE  RecordsAreRight' /\ RecordHandles' = RecordHandles \cup {h}
<1>1. ListTypeOK
  BY DEF ListInv
<1>2. PICK n \in Nat : n = Len(Mirror)
  BY <1>1, MirrorEntries
<1>3. /\ DOMAIN Mirror = 1 .. n
      /\ \A i \in 1 .. n : Mirror[i] \in MirrorRecord /\ AddressOf(i) \in Address
  BY <1>2, <1>1, MirrorEntries
<1>4. /\ Mirror' \in Seq(MirrorRecord) /\ Len(Mirror') = n + 1
      /\ AddressOf(n + 1)' = a /\ Mirror'[n + 1].handle = h
      /\ \A i \in 1 .. n : AddressOf(i)' = AddressOf(i) /\ Mirror'[i].handle = Mirror[i].handle
  BY <1>2, <1>1, AddedEntries
<1>5. DOMAIN Mirror' = 1 .. n + 1 /\ \A i \in 1 .. n + 1 : i = n + 1 \/ i \in 1 .. n
  BY <1>4, LenProperties
<1>6. \A i \in 1 .. n : AddressOf(i) # a
  BY <1>3 DEF AddTargetRecord, Free, InUse, Mirror
<1>7. /\ segments' = [segments EXCEPT ![a] = << loaded[h].file, << h >> >>]
      /\ segments \in [Address -> {Nothing} \cup (ModuleName \X Seq(Nat))]
      /\ DLModules_loc' = DLModules_loc
  BY <1>1 DEF AddTargetRecord, RecordOfLoad, ListTypeOK
<1>8. \A i \in 1 .. n : Mirror[i].handle \in RecordHandles
  BY <1>3 DEF RecordHandles
<1>9. ASSUME NEW i \in 1 .. n + 1
      PROVE  segments'[AddressOf(i)'] = << loaded'[Mirror'[i].handle].file, << Mirror'[i].handle >> >>
  <2>1. CASE i = n + 1
    <3>1. loaded'[h].file = loaded[h].file
      BY DEF FilesStay
    <3>2. segments'[a] = << loaded'[h].file, << h >> >>
      BY <1>7, <3>1
    <3> QED BY <1>4, <2>1, <3>2
  <2>2. CASE i \in 1 .. n
    <3>1. segments'[AddressOf(i)] = segments[AddressOf(i)]
      BY <1>3, <1>6, <1>7, <2>2
    <3>2. segments[AddressOf(i)] = << loaded[Mirror[i].handle].file, << Mirror[i].handle >> >>
      BY <1>3, <2>2 DEF RecordsAreRight, RecordOf
    <3>3. loaded'[Mirror[i].handle].file = loaded[Mirror[i].handle].file
      BY <1>8, <2>2 DEF FilesStay
    <3> QED BY <1>4, <2>2, <3>1, <3>2, <3>3
  <2> QED BY <1>5, <2>1, <2>2
<1>10. \A i, j \in 1 .. n + 1 : Mirror'[i].handle = Mirror'[j].handle => i = j
  <2>1. \A i, j \in 1 .. n : Mirror[i].handle = Mirror[j].handle => i = j
    BY <1>3 DEF RecordsAreRight
  <2>2. \A i \in 1 .. n : Mirror[i].handle # h
    BY <1>8
  <2> QED BY <1>4, <1>5, <2>1, <2>2
<1>11. first_module_ptr'[DLModules_loc'] = IF Mirror' = << >> THEN NULL ELSE AddressOf(1)'
  <2>1. Mirror' # << >>
    <3>1. n + 1 # 0
      OBVIOUS
    <3> QED BY <1>4, <3>1, EmptySeq
  <2>2. CASE n = 0
    <3>1. Mirror = << >>
      BY <1>2, <1>1, <2>2, MirrorEntries, EmptySeq
    <3>2. first_module_ptr' = [first_module_ptr EXCEPT ![DLModules_loc] = a]
      BY <3>1 DEF AddTargetRecord, Mirror
    <3>3. DLModules_loc \in Header /\ first_module_ptr \in [Header -> Address \cup {NULL}]
      BY <1>1 DEF ListTypeOK
    <3> QED BY <1>4, <1>7, <2>1, <2>2, <3>2, <3>3
  <2>3. CASE n # 0
    <3>1. Mirror # << >>
      BY <1>2, <2>3, EmptySeq
    <3>2. UNCHANGED first_module_ptr
      BY <3>1 DEF AddTargetRecord, Mirror
    <3>3. 1 \in 1 .. n
      BY <2>3
    <3> QED BY <1>4, <1>7, <2>1, <3>1, <3>2, <3>3 DEF RecordsAreRight
  <2> QED BY <2>2, <2>3
<1>12. RecordHandles' = RecordHandles \cup {h}
  <2>1. RecordHandles' = {Mirror'[i].handle : i \in 1 .. n + 1}
    BY <1>5 DEF RecordHandles
  <2>2. RecordHandles = {Mirror[i].handle : i \in 1 .. n}
    BY <1>3 DEF RecordHandles
  <2>3. n + 1 \in 1 .. n + 1 /\ \A i \in 1 .. n : i \in 1 .. n + 1
    OBVIOUS
  <2> QED BY <1>4, <1>5, <2>1, <2>2, <2>3
<1> QED BY <1>5, <1>9, <1>10, <1>11, <1>12 DEF RecordsAreRight, RecordOf

(* Where the record of h is.                                               *)
LEMMA RecordPosition ==
  ASSUME ListTypeOK, NEW h \in Nat
  PROVE  /\ Position(h) # 0 => Position(h) \in 1 .. Len(Mirror) /\ Mirror[Position(h)].handle = h
         /\ (Position(h) = 0 /\ h > 1) => h \notin RecordHandles
<1> DEFINE found == {i \in DOMAIN mirror_debug_list : mirror_debug_list[i].handle = h}
<1>1. found \in SUBSET (1 .. Len(Mirror)) /\ found \in SUBSET Nat
  BY MirrorEntries DEF Mirror
<1>2. \A i \in found : Mirror[i].handle = h
  BY DEF Mirror
<1>3. Position(h) = IF h <= 1 \/ found = {} THEN 0 ELSE Min(found)
  BY DEF Position
<1>4. found = {} => h \notin RecordHandles
  BY DEF RecordHandles, Mirror
<1> HIDE DEF found
<1>5. found # {} => Min(found) \in found
  BY <1>1, FirstOfPlaces
<1>6. found # {} => Min(found) # 0
  BY <1>1, <1>5
<1>7. Position(h) # 0 => Position(h) \in found
  BY <1>3, <1>5
<1>8. (Position(h) = 0 /\ ~(h <= 1)) => found = {}
  BY <1>3, <1>6
<1>9. h > 1 => ~(h <= 1)
  OBVIOUS
<1> QED BY <1>1, <1>2, <1>4, <1>7, <1>8, <1>9

(* The unload of h came back: its record is taken off.                     *)
LEMMA RecordRemoved ==
  ASSUME ListInv, DLL_debug, RecordsAreRight, NEW h \in Nat, RmTargetRecord(h),
         FilesStay(RecordHandles)
  PROVE  RecordsAreRight' /\ RecordHandles' = RecordHandles \ {h}
<1>1. ListTypeOK
  BY DEF ListInv
<1>2. PICK n \in Nat : n = Len(Mirror)
  BY <1>1, MirrorEntries
<1>3. /\ DOMAIN Mirror = 1 .. n
      /\ \A i \in 1 .. n : Mirror[i] \in MirrorRecord /\ AddressOf(i) \in Address
  BY <1>2, <1>1, MirrorEntries
<1>4. PICK k \in 1 .. n : k = Position(h) /\ Mirror[k].handle = h
  BY <1>1, <1>2, RecordPosition DEF RmTargetRecord
<1>5. /\ mirror_debug_list' = RemoveRecord(k) /\ UNCHANGED << segments, DLModules_loc >>
      /\ first_module_ptr' = IF k = 1 THEN [first_module_ptr EXCEPT ![DLModules_loc] = Mirror[k].next]
                             ELSE first_module_ptr
  BY <1>4 DEF RmTargetRecord, Mirror
<1>6. /\ Mirror' \in Seq(MirrorRecord) /\ Len(Mirror') = n - 1
      /\ \A i \in 1 .. n - 1 :
            /\ Earlier(i, k) \in 1 .. n /\ Earlier(i, k) # k
            /\ AddressOf(i)' = AddressOf(Earlier(i, k))
            /\ Mirror'[i].handle = Mirror[Earlier(i, k)].handle
  BY <1>2, <1>1, <1>5, RemovedEntries
<1>7. DOMAIN Mirror' = 1 .. n - 1
  BY <1>6, LenProperties
<1>8. \A i \in 1 .. n : Mirror[i].handle \in RecordHandles
  BY <1>3 DEF RecordHandles
<1>9. ASSUME NEW i \in 1 .. n - 1
      PROVE  segments'[AddressOf(i)'] = << loaded'[Mirror'[i].handle].file, << Mirror'[i].handle >> >>
  <2>1. PICK j \in 1 .. n : j = Earlier(i, k)
    BY <1>6
  <2>2. AddressOf(i)' = AddressOf(j) /\ Mirror'[i].handle = Mirror[j].handle
    BY <1>6, <2>1
  <2>3. segments[AddressOf(j)] = << loaded[Mirror[j].handle].file, << Mirror[j].handle >> >>
    BY <1>3 DEF RecordsAreRight, RecordOf
  <2>4. loaded'[Mirror[j].handle].file = loaded[Mirror[j].handle].file
    BY <1>8 DEF FilesStay
  <2> QED BY <1>5, <2>2, <2>3, <2>4
<1>10. \A i, j \in 1 .. n - 1 : Mirror'[i].handle = Mirror'[j].handle => i = j
  <2>1. \A i, j \in 1 .. n : Mirror[i].handle = Mirror[j].handle => i = j
    BY <1>3 DEF RecordsAreRight
  <2>2. \A i, j \in 1 .. n - 1 : Earlier(i, k) = Earlier(j, k) => i = j
    BY DEF Earlier
  <2> QED BY <1>6, <2>1, <2>2
<1>11. first_module_ptr'[DLModules_loc'] = IF Mirror' = << >> THEN NULL ELSE AddressOf(1)'
  <2>1. Mirror' = << >> <=> n = 1
    <3>1. Mirror' = << >> <=> Len(Mirror') = 0
      BY <1>6, EmptySeq
    <3> QED BY <1>6, <3>1
  <2>2. DLModules_loc \in Header /\ first_module_ptr \in [Header -> Address \cup {NULL}]
    BY <1>1 DEF ListTypeOK
  <2>3. CASE k = 1
    <3>1. first_module_ptr'[DLModules_loc'] = Mirror[1].next
      BY <1>5, <2>2, <2>3
    <3>2. Mirror[1].next = IF 1 = n THEN NULL ELSE AddressOf(1 + 1)
      BY <1>2, <1>3, <2>3 DEF ListInv, LinkedInOrder, Mirror
    <3>3. n # 1 => 1 \in 1 .. n - 1 /\ Earlier(1, k) = 1 + 1
      BY <2>3 DEF Earlier
    <3>4. n # 1 => AddressOf(1)' = AddressOf(1 + 1)
      BY <1>6, <3>3
    <3> QED BY <2>1, <3>1, <3>2, <3>4
  <2>4. CASE k # 1
    <3>1. n # 1 /\ 1 \in 1 .. n - 1 /\ Earlier(1, k) = 1
      BY <2>4 DEF Earlier
    <3>2. AddressOf(1)' = AddressOf(1) /\ Mirror' # << >>
      BY <1>6, <2>1, <3>1
    <3>3. Mirror # << >>
      BY <1>2, <3>1, EmptySeq
    <3>4. first_module_ptr[DLModules_loc] = AddressOf(1)
      BY <3>3 DEF RecordsAreRight
    <3>5. first_module_ptr'[DLModules_loc'] = first_module_ptr[DLModules_loc]
      BY <1>5, <2>4
    <3> QED BY <3>2, <3>4, <3>5
  <2> QED BY <2>3, <2>4
<1>12. RecordHandles' = RecordHandles \ {h}
  <2>1. RecordHandles' = {Mirror'[i].handle : i \in 1 .. n - 1}
    BY <1>7 DEF RecordHandles
  <2>2. RecordHandles = {Mirror[i].handle : i \in 1 .. n}
    BY <1>3 DEF RecordHandles
  <2>3. \A i \in 1 .. n : Mirror[i].handle = h => i = k
    BY <1>3, <1>4 DEF RecordsAreRight
  <2>4. ASSUME NEW i \in 1 .. n - 1
        PROVE  Mirror'[i].handle \in RecordHandles \ {h}
    BY <1>6, <1>8, <2>3
  <2>5. ASSUME NEW j \in 1 .. n, Mirror[j].handle # h
        PROVE  Mirror[j].handle \in RecordHandles'
    <3>1. j # k
      BY <1>4, <2>5
    <3>2. PICK i \in 1 .. n - 1 : Earlier(i, k) = j
      <4>1. CASE j < k
        <5>1. j \in 1 .. n - 1 /\ Earlier(j, k) = j
          BY <4>1 DEF Earlier
        <5> QED BY <5>1
      <4>2. CASE ~(j < k)
        <5>1. j - 1 \in 1 .. n - 1 /\ Earlier(j - 1, k) = j
          BY <3>1, <4>2 DEF Earlier
        <5> QED BY <5>1
      <4> QED BY <4>1, <4>2
    <3>3. Mirror'[i].handle = Mirror[j].handle
      BY <1>6, <3>2
    <3> QED BY <2>1, <3>3
  <2> QED BY <2>1, <2>2, <2>4, <2>5
<1> QED BY <1>5, <1>7, <1>9, <1>10, <1>11, <1>12 DEF RecordsAreRight, RecordOf

(* What an unload does to the records when it is over, the last one of h:   *)
(* none of h is left, the others stay.                                     *)
LEMMA RecordsAfterUnload ==
  ASSUME ListInv, DLL_debug, RecordsAreRight, NEW h \in Nat, Unrecord(h), status' = "running",
         status = "running", FilesStay(RecordHandles), \A g \in RecordHandles : g > 1
  PROVE  RecordsAreRight' /\ RecordHandles' = RecordHandles \ {h}
<1>1. CASE RmTargetRecord(h)
  BY <1>1, RecordRemoved
<1>2. CASE RmNothing(h)
  <2>1. UNCHANGED << mirror_debug_list, first_module_ptr, segments, DLModules_loc >>
    BY <1>2 DEF RmNothing, debug_vars
  <2>2. RecordsAreRight' /\ RecordHandles' = RecordHandles
    BY <2>1, RecordsLeftAlone
  <2>3. h \notin RecordHandles
    <3>1. Position(h) = 0
      BY <1>2 DEF RmNothing
    <3>2. CASE h > 1
      BY <3>1, <3>2, RecordPosition DEF ListInv
    <3> QED BY <3>2
  <2> QED BY <2>2, <2>3
<1>3. RmTargetRecord(h) \/ RmNothing(h)
  BY DEF Unrecord, Recording
<1> QED BY <1>1, <1>2, <1>3

-----------------------------------------------------------------------------
(* What no step but that of base_image changes: the files of the modules,  *)
(* and which of them are base images.                                      *)
ImagesKept == Handles \subseteq Handles' /\ FilesStay(Handles) /\ BaseImages' = BaseImages

(* A step of a load enters a new module, or an entry on a list, or neither. *)
LEMMA LoadStepChanges ==
  ASSUME CoreInv, SessionCalls, LoadStep
  PROVE  \/ UNCHANGED << loaded, loaded_objects >>
         \/ Enqueue(Me.file, FALSE) /\ Me.file \in File
         \/ \E d \in Nat : LoadEntry(d)
<1>1. ASSUME NEW pc, Running("load", pc)
      PROVE  Me \in Frame /\ (pc # "headers" => Me.h \in Handles)
  <2>1. /\ Me \in Frame /\ Me.pc = pc /\ Me = frames[Len(frames)] /\ Len(frames) \in 1 .. Len(frames)
    BY <1>1, RunningTop DEF SessionCalls, ControlInv
  <2> QED BY <2>1, CallArray
<1>2. CASE FailAllocation \/ PlaceModule
  <2>1. Me.file \in File
    BY <1>1, <1>2 DEF FailAllocation, PlaceModule, Frame
  <2> QED BY <1>2, <2>1 DEF FailAllocation, PlaceModule
<1>3. CASE NeededIsLoaded
  <2>1. /\ Running("load", "needed") /\ UNCHANGED loaded_objects
        /\ Matches(Needed(Me.file)[Me.next]) # {}
        /\ loaded' = ShareModule(Me.h, FirstMatch(Needed(Me.file)[Me.next]))
    BY <1>3 DEF NeededIsLoaded, PendingNeeded
  <2>2. PICK d : d = FirstMatch(Needed(Me.file)[Me.next])
    OBVIOUS
  <2>3. d \in Handles /\ d \in Nat
    BY <2>1, <2>2, FoundIsLive, CallArray
  <2>4. LoadEntry(d)
    BY <1>1, <2>1, <2>2, <2>3 DEF LoadEntry
  <2> QED BY <2>3, <2>4
<1>4. CASE DependentNotFound
  <2>1. Running("load", "needed") /\ loaded' = AddDependency(Me.h, 0) /\ UNCHANGED loaded_objects
    BY <1>4 DEF DependentNotFound, PendingNeeded
  <2>2. LoadEntry(0)
    BY <1>1, <2>1 DEF LoadEntry
  <2> QED BY <2>2
<1>5. CASE DependentReturned
  <2>1. /\ Running("load", "needed") /\ loaded' = AddDependency(Me.h, ret.val)
        /\ UNCHANGED loaded_objects
    BY <1>5 DEF DependentReturned
  <2>2. ret.val \in Nat
    BY CallArray DEF CoreInv, Answer
  <2>3. LoadEntry(ret.val)
    BY <1>1, <2>1 DEF LoadEntry
  <2> QED BY <2>2, <2>3
<1>6. CASE UNCHANGED << loaded, loaded_objects >>
  BY <1>6
<1> QED BY <1>2, <1>3, <1>4, <1>5, <1>6 DEF LoadStep, RejectFile, RejectCircular, LoadDependent,
           NeededDone, Relocate, RelocateDone

(* So the modules of before are what they were.                            *)
LEMMA LoadKeepsImages ==
  ASSUME CoreInv, SessionCalls, LoadStep
  PROVE  /\ ImagesKept
         /\ \A m \in Handles : m \in Live' <=> m \in Live
<1>1. /\ Handles \subseteq Handles' /\ \A m \in Handles : m \in Live' <=> m \in Live
      /\ \A m \in Handles : loaded'[m].base = loaded[m].base
  BY LoadStepModules
<1>2. CASE UNCHANGED << loaded, loaded_objects >>
  <2>1. FilesStay(Handles) /\ BaseImages' = BaseImages
    BY <1>2 DEF FilesStay, BaseImages, Handles
  <2> QED BY <1>1, <2>1 DEF ImagesKept
<1>3. CASE Enqueue(Me.file, FALSE) /\ Me.file \in File
  <2>1. PICK k : k = NewHandle
    OBVIOUS
  <2>2. /\ Handles' = Handles \cup {k} /\ k \notin Handles
        /\ \A m \in Handles : loaded'[m].file = loaded[m].file
        /\ loaded'[k].base = FALSE
    BY <1>3, <2>1, AlonePlaced DEF SessionCalls, ControlInv
  <2>3. BaseImages' = BaseImages
    BY <1>1, <2>2 DEF BaseImages
  <2> QED BY <1>1, <2>2, <2>3 DEF ImagesKept, FilesStay
<1>4. CASE \E d \in Nat : LoadEntry(d)
  <2>1. PICK d \in Nat : LoadEntry(d)
    BY <1>4
  <2>2. Handles' = Handles /\ \A m \in Handles : loaded'[m].file = loaded[m].file
    BY <2>1, AloneEntry DEF LoadEntry
  <2>3. BaseImages' = BaseImages
    BY <1>1, <2>2 DEF BaseImages
  <2> QED BY <1>1, <2>2, <2>3 DEF ImagesKept, FilesStay
<1> QED BY <1>2, <1>3, <1>4, LoadStepChanges

(* Neither does an unload change them, or its entry.                       *)
LEMMA EnteringKeepsImages ==
  ASSUME CoreInv, NEW h, NEW stack, EnterUnload(h, stack)
  PROVE  ImagesKept
<1>1. Handles' = Handles /\ \A m \in Handles : /\ loaded'[m].base = loaded[m].base
                                             /\ loaded'[m].file = loaded[m].file
  BY SessionEnters
<1>2. BaseImages' = BaseImages
  BY <1>1 DEF BaseImages
<1> QED BY <1>1, <1>2 DEF ImagesKept, FilesStay

(* Whatever leaves the modules alone keeps them.                           *)
LEMMA SameImages ==
  ASSUME UNCHANGED loaded
  PROVE  ImagesKept
  BY DEF ImagesKept, FilesStay, Handles, BaseImages

(* A step of an unload.                                                    *)
LEMMA UnloadKeepsImages ==
  ASSUME CoreInv, UnloadStep
  PROVE  ImagesKept
<1>1. CASE UnloadDependent
  BY <1>1, EnteringKeepsImages DEF UnloadDependent
<1>2. CASE DependentUnloaded \/ UnloadDone \/ AbortOnDoubleFree
  BY <1>2, SameImages DEF DependentUnloaded, UnloadDone, AbortOnDoubleFree
<1> QED BY <1>1, <1>2 DEF UnloadStep

(* The end of a step of the core, or of a command, but for base_image.     *)
LEMMA StepKeepsImages ==
  ASSUME CoreInv, SessionCalls,
         \/ CoreStep \/ ShellReturned
         \/ \E f \in File : ShellLoad(f)
         \/ ShellLoadNotFound \/ BaseImageRejected \/ ShellUnload \/ Leave
  PROVE  ImagesKept
<1>1. CASE CoreStep
  <2>1. LoadStep \/ UnloadStep
    BY <1>1 DEF CoreStep, CoreAlone, Placing, NestedLoad, NestedLoadReturned, NestedUnloadReturned,
                LoadStep, UnloadStep
  <2> QED BY <2>1, LoadKeepsImages, UnloadKeepsImages
<1>2. CASE ShellUnload
  BY <1>2, EnteringKeepsImages DEF ShellUnload
<1>3. CASE \/ ShellReturned \/ \E f \in File : ShellLoad(f)
           \/ ShellLoadNotFound \/ BaseImageRejected \/ Leave
  <2>1. UNCHANGED loaded
    BY <1>3 DEF ShellReturned, TopReturned, ShellLoad, TopLoad, ShellLoadNotFound, BaseImageRejected,
                Leave, vars
  <2> QED BY <2>1, SameImages
<1> QED BY <1>1, <1>2, <1>3

-----------------------------------------------------------------------------
(* Every step but the base_image command.                                  *)
NoImageStep ==
  \/ CoreStep \/ ShellReturned
  \/ \E f \in File : ShellLoad(f)
  \/ ShellLoadNotFound \/ ShellUnload \/ Leave

(* Records are kept from then on, or not, as before.                       *)
LEMMA RecordingGoesOn ==
  ASSUME NoImageStep
  PROVE  /\ DLL_debug' = DLL_debug /\ DLModules_loc' = DLModules_loc
         /\ ~DLL_debug => UNCHANGED debug_vars
         /\ status = "running"
<1>1. CASE UNCHANGED debug_vars
  <2>1. status = "running"
    BY DEF NoImageStep, CoreStep, ShellReturned, ShellLoad, ShellLoadNotFound, ShellUnload, Leave,
           AtPrompt
  <2> QED BY <1>1, <2>1 DEF debug_vars
<1>2. ASSUME NEW h, Unrecord(h)
      PROVE  /\ DLL_debug' = DLL_debug /\ DLModules_loc' = DLModules_loc
             /\ ~DLL_debug => UNCHANGED debug_vars
  BY <1>2 DEF Unrecord, Recording, RmTargetRecord, RmNothing, debug_vars
<1>3. ASSUME NEW h, Recording(\E a \in Address : AddTargetRecord(h, a))
      PROVE  /\ DLL_debug' = DLL_debug /\ DLModules_loc' = DLModules_loc
             /\ ~DLL_debug => UNCHANGED debug_vars
  BY <1>3 DEF Recording, AddTargetRecord, debug_vars
<1>4. ASSUME NEW g, Recording(AddHostRecord(g)) \/ Recording(AddSegmentRecord(g))
      PROVE  /\ DLL_debug' = DLL_debug /\ DLModules_loc' = DLModules_loc
             /\ ~DLL_debug => UNCHANGED debug_vars
  BY <1>4 DEF Recording, AddHostRecord, AddSegmentRecord, debug_vars
<1>5. CASE CoreStep
  <2>1. status = "running"
    BY <1>5 DEF CoreStep
  <2>2. CASE CoreAlone
    BY <1>1, <2>2 DEF CoreAlone
  <2>3. CASE Placing
    BY <1>1, <1>4, <2>1, <2>3 DEF Placing
  <2>4. CASE NestedLoad
    BY <1>4, <2>1, <2>4 DEF NestedLoad
  <2>5. CASE NestedLoadReturned
    BY <1>1, <1>3, <2>1, <2>5 DEF NestedLoadReturned
  <2>6. CASE NestedUnloadReturned
    <3>1. CASE Unrecord(Unloaded)
      BY <1>2, <2>1, <3>1
    <3> QED BY <1>1, <2>6, <3>1 DEF NestedUnloadReturned
  <2> QED BY <1>5, <2>2, <2>3, <2>4, <2>5, <2>6 DEF CoreStep
<1>6. CASE ShellReturned
  <2>1. status = "running"
    BY <1>6 DEF ShellReturned
  <2>2. CASE ShellLoadFailed
    BY <1>1, <2>2 DEF ShellLoadFailed
  <2>3. CASE ShellLoadDone
    BY <1>1, <1>3, <2>1, <2>3 DEF ShellLoadDone
  <2>4. CASE ShellUnloadDone
    <3>1. CASE Unrecord(prog_handle)
      BY <1>2, <2>1, <3>1
    <3> QED BY <1>1, <2>4, <3>1 DEF ShellUnloadDone
  <2> QED BY <1>6, <2>2, <2>3, <2>4 DEF ShellReturned
<1>7. CASE \E f \in File : ShellLoad(f)
  BY <1>4, <1>7 DEF ShellLoad, AtPrompt
<1>8. CASE ShellLoadNotFound \/ ShellUnload \/ Leave
  BY <1>1, <1>8 DEF ShellLoadNotFound, ShellUnload, Leave
<1> QED BY <1>5, <1>6, <1>7, <1>8 DEF NoImageStep

(* A program that goes on has not ended.                                   *)
LEMMA GoesOn ==
  ASSUME CoreInv, CoreInv', SessionCalls, NoImageStep
  PROVE  ret.of # "abort"
<1>1. CASE CoreStep
  <2>1. LoadStep \/ UnloadStep
    BY <1>1 DEF CoreStep, CoreAlone, Placing, NestedLoad, NestedLoadReturned, NestedUnloadReturned,
                LoadStep, UnloadStep
  <2>2. CASE LoadStep
    BY <2>2, LoadStepCalls
  <2>3. CASE UnloadStep
    BY <2>3 DEF UnloadStep, UnloadDependent, DependentUnloaded, UnloadDone, AbortOnDoubleFree, NoReturn
  <2> QED BY <2>1, <2>2, <2>3
<1>2. CASE ShellReturned
  BY <1>2 DEF ShellReturned, TopReturned
<1>3. CASE \/ \E f \in File : ShellLoad(f)
           \/ ShellLoadNotFound \/ ShellUnload \/ Leave
  BY <1>3 DEF ShellLoad, ShellLoadNotFound, ShellUnload, Leave, AtPrompt, NoReturn
<1> QED BY <1>1, <1>2, <1>3 DEF NoImageStep

(* So what holds of a session that is watched held before.                 *)
LEMMA WatchedBefore ==
  ASSUME CoreInv, CoreInv', SessionCalls, NoImageStep, Watched'
  PROVE  Watched /\ DLL_debug /\ DLModules_loc' = DLModules_loc /\ status' = "running"
<1>1. BaseImages' = BaseImages
  BY StepKeepsImages DEF NoImageStep, ImagesKept
<1>2. DLL_debug' = DLL_debug /\ DLModules_loc' = DLModules_loc /\ status = "running"
  BY RecordingGoesOn
<1>3. ret.of # "abort"
  BY GoesOn
<1>4. KeptThroughout' <=> KeptThroughout
  BY <1>1, <1>2 DEF KeptThroughout
<1> QED BY <1>2, <1>3, <1>4 DEF Watched, KeptThroughout

(* No records before the first base image.                                 *)
LEMMA NoRecordsNext ==
  ASSUME CoreInv, SessionCalls, NoRecordsYet,
         NoImageStep \/ BaseImageRejected \/ \E f \in File : BaseImage(f)
  PROVE  NoRecordsYet'
<1>1. CASE NoImageStep
  <2>1. BaseImages' = BaseImages
    BY <1>1, StepKeepsImages DEF NoImageStep, ImagesKept
  <2>2. DLL_debug' = DLL_debug /\ (~DLL_debug => UNCHANGED debug_vars)
    BY <1>1, RecordingGoesOn
  <2> QED BY <2>1, <2>2 DEF NoRecordsYet, debug_vars, Mirror
<1>2. CASE BaseImageRejected
  <2>1. BaseImages' = BaseImages
    BY <1>2, StepKeepsImages DEF ImagesKept
  <2> QED BY <1>2, <2>1 DEF NoRecordsYet, BaseImageRejected, FindDLModules, Mirror
<1>3. ASSUME NEW f \in File, BaseImage(f) PROVE NoRecordsYet'
  <2>1. CASE InProcessOfLoading(f)
    <3>1. UNCHANGED loaded /\ DLL_debug' = FALSE /\ UNCHANGED << mirror_debug_list, first_module_ptr >>
      BY <1>3, <2>1 DEF BaseImage, LoadSymbols, FindDLModules
    <3>2. BaseImages' = BaseImages
      BY <3>1, SameImages DEF ImagesKept
    <3> QED BY <3>1, <3>2 DEF NoRecordsYet, Mirror
  <2>2. CASE ~InProcessOfLoading(f)
    <3>1. PICK k : k = NewHandle
      OBVIOUS
    <3>2. Enqueue(f, TRUE)
      BY <1>3, <2>2 DEF BaseImage, LoadSymbols
    <3>3. k \in Handles' /\ loaded'[k].base = TRUE
      BY <3>1, <3>2, AlonePlaced DEF SessionCalls, ControlInv
    <3>4. BaseImages' # {}
      BY <3>3 DEF BaseImages
    <3> QED BY <3>4 DEF NoRecordsYet
  <2> QED BY <2>1, <2>2
<1> QED BY <1>1, <1>2, <1>3

-----------------------------------------------------------------------------
(* The host records of the loads under way.                                *)
Stacked(left) ==
  /\ Len(dl_debug_stk) = left + Len(frames)
  /\ \A i \in DOMAIN frames : dl_debug_stk[left + i] = RecordOfLoad(frames[i].file, frames[i].h)

LEMMA StackArray ==
  ASSUME ListInv
  PROVE  /\ dl_debug_stk \in Seq(HostRecords) /\ Len(dl_debug_stk) \in Nat
         /\ DOMAIN dl_debug_stk = 1 .. Len(dl_debug_stk)
<1>1. dl_debug_stk \in Seq(HostRecords)
  BY DEF ListInv, ListTypeOK, HostRecords
<1> QED BY <1>1, LenProperties

(* Where they are while no load has just come back ...                     *)
LEMMA OnStack ==
  ASSUME CoreInv, ListInv, Loading, ret = NoReturn, LoadsOnStack
  PROVE  \E left \in Nat : Stacked(left)
<1>1. ~FailedLoad /\ ret.of # "load"
  BY DEF FailedLoad, NoReturn
<1>2. PICK left \in 0 .. Len(dl_debug_stk) :
        /\ Len(dl_debug_stk) = left + Len(frames) + 0
        /\ \A i \in DOMAIN frames :
              dl_debug_stk[left + i] = RecordOfLoad(frames[i].file, frames[i].h)
  BY <1>1 DEF LoadsOnStack
<1>3. left \in Nat /\ Len(frames) \in Nat
  BY StackArray, CallArray
<1> QED BY <1>2, <1>3 DEF Stacked

(* ... and after a step that leaves all of them under way.                  *)
LEMMA OnStackNext ==
  ASSUME ListInv', NEW left \in Nat, ret' = NoReturn, Len(frames') \in Nat,
         Len(dl_debug_stk') = left + Len(frames'),
         \A i \in DOMAIN frames' :
            dl_debug_stk'[left + i] = RecordOfLoad(frames'[i].file, frames'[i].h)
  PROVE  LoadsOnStack'
<1>1. ~(ret'.of = "load")
  BY DEF NoReturn
<1>2. Len(dl_debug_stk') = left + Len(frames') + (IF ret'.of = "load" THEN 1 ELSE 0)
  BY <1>1
<1>3. left \in 0 .. Len(dl_debug_stk')
  OBVIOUS
<1> QED BY <1>1, <1>2, <1>3 DEF LoadsOnStack, RecordOfLoad

(* The load on top goes on.                                                *)
LEMMA StackGoesOn ==
  ASSUME CoreInv, ListInv', NEW left \in Nat, Stacked(left), UNCHANGED dl_debug_stk,
         NEW f, Replaced(f), f.h = Me.h, f.file = Me.file, ret' = NoReturn
  PROVE  LoadsOnStack'
<1>1. /\ frames # << >> /\ Me = frames[Len(frames)] /\ Len(frames) \in Nat
      /\ DOMAIN frames = 1 .. Len(frames)
  BY TopOfCalls, CallArray DEF Replaced
<1>2. Len(frames') = Len(frames) /\ DOMAIN frames' = DOMAIN frames
  BY <1>1 DEF Replaced
<1>3. \A i \in DOMAIN frames : frames'[i].file = frames[i].file /\ frames'[i].h = frames[i].h
  BY <1>1 DEF Replaced
<1> QED BY <1>1, <1>2, <1>3, OnStackNext DEF Stacked

(* The load on top comes back with its module.                             *)
LEMMA StackReturns ==
  ASSUME CoreInv, ListInv', NEW left \in Nat, Stacked(left), UNCHANGED dl_debug_stk,
         Popped, ret' = [of |-> "load", val |-> Me.h], loaded'[Me.h].file = Me.file
  PROVE  LoadsOnStack'
<1>1. PICK n \in Nat \ {0} : n = Len(frames)
  BY TopOfCalls DEF Popped
<1>2. Me = frames[n] /\ DOMAIN frames = 1 .. n
  BY <1>1, TopOfCalls, CallArray DEF Popped
<1>3. /\ Len(frames') = n - 1 /\ DOMAIN frames' = 1 .. n - 1
      /\ \A i \in 1 .. n - 1 : frames'[i] = frames[i]
  BY <1>1 DEF Popped
<1>4. ret'.of = "load" /\ ret'.val = Me.h
  OBVIOUS
<1>5. Len(dl_debug_stk') = left + Len(frames') + (IF ret'.of = "load" THEN 1 ELSE 0)
  <2>1. Len(dl_debug_stk') = left + n
    BY <1>1 DEF Stacked
  <2>2. left + n = left + Len(frames') + 1
    BY <1>1, <1>3
  <2> QED BY <1>4, <2>1, <2>2
<1>6. left \in 0 .. Len(dl_debug_stk')
  BY <1>1 DEF Stacked
<1>7. \A i \in DOMAIN frames' :
         dl_debug_stk'[left + i] = RecordOfLoad(frames'[i].file, frames'[i].h)
  BY <1>2, <1>3 DEF Stacked
<1>8. dl_debug_stk'[left + Len(frames') + 1] = RecordOfLoad(loaded'[ret'.val].file, ret'.val)
  <2>1. left + Len(frames') + 1 = left + n /\ n \in DOMAIN frames
    BY <1>1, <1>2, <1>3
  <2> QED BY <1>2, <1>4, <2>1 DEF Stacked
<1> QED BY <1>5, <1>6, <1>7, <1>8 DEF LoadsOnStack, RecordOfLoad

(* A load calls for another file, with a host record for it.               *)
LEMMA StackCalls ==
  ASSUME CoreInv, ListInv, ListInv', NEW left \in Nat, Stacked(left), NEW g,
         AddHostRecord(g), Pushed(Call("load", g, 0, "headers")), ret' = NoReturn,
         HostRecord(g) \in HostRecords
  PROVE  LoadsOnStack'
<1>1. PICK n \in Nat : n = Len(frames) /\ DOMAIN frames = 1 .. n
  BY CallArray
<1>2. /\ Len(frames') = n + 1 /\ DOMAIN frames' = 1 .. n + 1
      /\ \A i \in 1 .. n : frames'[i] = frames[i]
      /\ frames'[n + 1] = Call("load", g, 0, "headers")
  BY <1>1 DEF Pushed
<1>3. Call("load", g, 0, "headers").file = g /\ Call("load", g, 0, "headers").h = 0
  BY DEF Call
<1>4. /\ Len(dl_debug_stk') = Len(dl_debug_stk) + 1
      /\ \A j \in 1 .. Len(dl_debug_stk) : dl_debug_stk'[j] = dl_debug_stk[j]
      /\ dl_debug_stk'[Len(dl_debug_stk) + 1] = HostRecord(g)
  BY StackArray, AppendProperties DEF AddHostRecord
<1>5. Len(dl_debug_stk) = left + n
  BY <1>1 DEF Stacked
<1>6. HostRecord(g) = RecordOfLoad(g, 0)
  BY DEF HostRecord, RecordOfLoad
<1>7. ASSUME NEW i \in 1 .. n + 1
      PROVE  dl_debug_stk'[left + i] = RecordOfLoad(frames'[i].file, frames'[i].h)
  <2>1. CASE i = n + 1
    <3>1. left + i = Len(dl_debug_stk) + 1
      BY <1>5, <2>1
    <3> QED BY <1>2, <1>3, <1>4, <1>6, <2>1, <3>1
  <2>2. CASE i \in 1 .. n
    <3>1. left + i \in 1 .. Len(dl_debug_stk)
      BY <1>5, <2>2
    <3> QED BY <1>1, <1>2, <1>4, <2>2, <3>1 DEF Stacked
  <2> QED BY <2>1, <2>2
<1>8. Len(dl_debug_stk') = left + Len(frames') /\ Len(frames') \in Nat
  BY <1>2, <1>4, <1>5
<1> QED BY <1>2, <1>7, <1>8, OnStackNext

(* The load on top has been placed: its record gets the module's segment.   *)
LEMMA StackPlaced ==
  ASSUME CoreInv, ListInv, ListInv', NEW left \in Nat, Stacked(left), NEW k \in Nat \ {0},
         AddSegmentRecord(k), NEW f, Replaced(f), Me.h = 0, f.h = k, f.file = Me.file,
         ret' = NoReturn
  PROVE  LoadsOnStack'
<1>1. PICK n \in Nat \ {0} : n = Len(frames) /\ DOMAIN frames = 1 .. n /\ Me = frames[n]
  BY TopOfCalls, CallArray DEF Replaced
<1>2. /\ Len(frames') = n /\ DOMAIN frames' = 1 .. n
      /\ \A i \in 1 .. n : frames'[i] = IF i = n THEN f ELSE frames[i]
  BY <1>1 DEF Replaced
<1>3. PICK t \in Nat : t = Len(dl_debug_stk) /\ t = left + n
  BY <1>1, StackArray DEF Stacked
<1>4. PICK rec : rec = [dl_debug_stk[t] EXCEPT !.segs = Append(dl_debug_stk[t].segs, k)]
  OBVIOUS
<1>5. dl_debug_stk' = [dl_debug_stk EXCEPT ![t] = rec]
  BY <1>3, <1>4 DEF AddSegmentRecord, TopOfStack
<1>6. dl_debug_stk[t] = RecordOfLoad(Me.file, 0)
  BY <1>1, <1>3 DEF Stacked
<1>7. rec = RecordOfLoad(f.file, k)
  <2>1. dl_debug_stk[t] = [module_name |-> f.file, segs |-> << >>]
    BY <1>6 DEF RecordOfLoad
  <2>2. rec = [module_name |-> f.file, segs |-> Append(<< >>, k)]
    BY <1>4, <2>1
  <2>3. Append(<< >>, k) = << k >>
    OBVIOUS
  <2> QED BY <2>2, <2>3 DEF RecordOfLoad
<1>8. /\ dl_debug_stk \in Seq(HostRecords) /\ dl_debug_stk' \in Seq(HostRecords)
      /\ DOMAIN dl_debug_stk = 1 .. t /\ DOMAIN dl_debug_stk' = 1 .. t /\ Len(dl_debug_stk') = t
  <2>1. dl_debug_stk \in Seq(HostRecords) /\ DOMAIN dl_debug_stk = 1 .. t
    BY <1>3, StackArray
  <2>2. dl_debug_stk' \in Seq(HostRecords)
    BY DEF ListInv, ListTypeOK, HostRecords
  <2>3. DOMAIN dl_debug_stk' = 1 .. t
    BY <1>5, <2>1
  <2>4. Len(dl_debug_stk') = t
    BY <1>3, <2>2, <2>3, LenProperties
  <2> QED BY <2>1, <2>2, <2>3, <2>4
<1>9. ASSUME NEW i \in 1 .. n
      PROVE  dl_debug_stk'[left + i] = RecordOfLoad(frames'[i].file, frames'[i].h)
  <2>1. left + i \in 1 .. t /\ (left + i = t <=> i = n)
    BY <1>3
  <2>2. dl_debug_stk'[left + i] = IF left + i = t THEN rec ELSE dl_debug_stk[left + i]
    BY <1>5, <1>8, <2>1
  <2> QED BY <1>1, <1>2, <1>7, <2>1, <2>2 DEF Stacked
<1>10. Len(dl_debug_stk') = left + Len(frames') /\ Len(frames') \in Nat
  BY <1>2, <1>3, <1>8
<1> QED BY <1>2, <1>9, <1>10, OnStackNext

(* A load that has just come back has its record on top.                   *)
LEMMA StackTop ==
  ASSUME CoreInv, ListInv, LoadsOnStack, Loading, ret.of = "load", ret.val # 0
  PROVE  \E left \in Nat :
           /\ Len(dl_debug_stk) = left + Len(frames) + 1
           /\ \A i \in DOMAIN frames :
                 dl_debug_stk[left + i] = RecordOfLoad(frames[i].file, frames[i].h)
           /\ Last(dl_debug_stk) = RecordOfLoad(loaded[ret.val].file, ret.val)
<1>1. ~FailedLoad
  <2>1. ASSUME FailedLoad PROVE FALSE
    BY <2>1 DEF FailedLoad
  <2> QED BY <2>1
<1>2. PICK left \in 0 .. Len(dl_debug_stk) :
        /\ Len(dl_debug_stk) = left + Len(frames) + 1
        /\ \A i \in DOMAIN frames :
              dl_debug_stk[left + i] = RecordOfLoad(frames[i].file, frames[i].h)
        /\ dl_debug_stk[left + Len(frames) + 1] = RecordOfLoad(loaded[ret.val].file, ret.val)
  BY <1>1 DEF LoadsOnStack
<1>3. left \in Nat /\ Len(frames) \in Nat /\ dl_debug_stk \in Seq(HostRecords)
  BY StackArray, CallArray
<1>4. dl_debug_stk # << >>
  <2>1. Len(dl_debug_stk) # 0
    BY <1>2, <1>3
  <2> QED BY <2>1, <1>3, EmptySeq
<1>5. Last(dl_debug_stk) = dl_debug_stk[Len(dl_debug_stk)]
  BY <1>3, <1>4, FrontEntries
<1> QED BY <1>2, <1>3, <1>5

(* Its user goes on once the record is in target memory.                   *)
LEMMA StackRecorded ==
  ASSUME CoreInv, ListInv, ListInv', LoadsOnStack, Loading, ret.of = "load", ret.val # 0,
         NEW f, Replaced(f), f.h = Me.h, f.file = Me.file, ret' = NoReturn,
         NEW a, AddTargetRecord(ret.val, a)
  PROVE  LoadsOnStack'
<1>1. PICK left \in Nat :
        /\ Len(dl_debug_stk) = left + Len(frames) + 1
        /\ \A i \in DOMAIN frames :
              dl_debug_stk[left + i] = RecordOfLoad(frames[i].file, frames[i].h)
  BY StackTop
<1>2. PICK n \in Nat \ {0} : n = Len(frames) /\ DOMAIN frames = 1 .. n /\ Me = frames[n]
  BY TopOfCalls, CallArray DEF Replaced
<1>3. /\ Len(frames') = n /\ DOMAIN frames' = 1 .. n
      /\ \A i \in 1 .. n : frames'[i].file = frames[i].file /\ frames'[i].h = frames[i].h
  BY <1>2 DEF Replaced
<1>4. dl_debug_stk' = Front(dl_debug_stk) /\ dl_debug_stk # << >>
  BY DEF AddTargetRecord
<1>5. /\ Len(dl_debug_stk') = Len(dl_debug_stk) - 1
      /\ \A j \in 1 .. Len(dl_debug_stk) - 1 : dl_debug_stk'[j] = dl_debug_stk[j]
  BY <1>4, StackArray, FrontEntries
<1>6. Len(dl_debug_stk') = left + Len(frames') /\ Len(frames') \in Nat
  BY <1>1, <1>2, <1>3, <1>5
<1>7. ASSUME NEW i \in 1 .. n
      PROVE  dl_debug_stk'[left + i] = RecordOfLoad(frames'[i].file, frames'[i].h)
  <2>1. left + i \in 1 .. Len(dl_debug_stk) - 1
    BY <1>1, <1>2
  <2> QED BY <1>1, <1>2, <1>3, <1>5, <2>1
<1> QED BY <1>3, <1>6, <1>7, OnStackNext

-----------------------------------------------------------------------------
(* A step of a load keeps the loads new, also when one of them, the answer  *)
(* that is taken, is done.                                                 *)
LEMMA LoadsStayNew ==
  ASSUME CoreInv, CoreInv', SessionCalls, LoadStep, LoadsAreNew, completed \subseteq Handles,
         DLModules_loc \in Handles, DLModules_loc' = DLModules_loc,
         \/ completed' = completed
         \/ ret.of = "load" /\ ret.val # 0 /\ completed' = completed \cup {ret.val}
  PROVE  LoadsAreNew'
<1> DEFINE StillNew(h) == h \in Live' /\ h > DLModules_loc' /\ h \notin completed'
<1>1. Loading /\ frames # << >>
  BY LoadStepCalls
<1>2. /\ Len(frames) \in Nat \ {0} /\ DOMAIN frames = 1 .. Len(frames)
      /\ Me = frames[Len(frames)] /\ Len(frames) \in DOMAIN frames
  BY <1>1, TopOfCalls, CallArray
<1>3. FilesStay(Handles) /\ Live \subseteq Handles /\ \A m \in Handles : m \in Live' <=> m \in Live
  BY LoadKeepsImages, LiveHandles DEF ImagesKept
<1>4. ASSUME NEW i \in DOMAIN frames, frames[i].h # 0
      PROVE  StillNew(frames[i].h) /\ loaded'[frames[i].h].file = frames[i].file
  <2>1. NewlyLoaded(frames[i].h) /\ loaded[frames[i].h].file = frames[i].file
    BY <1>1, <1>4 DEF Loading, LoadsAreNew
  <2>2. /\ frames[i].h \in Live /\ frames[i].h > DLModules_loc /\ frames[i].h \notin completed
        /\ frames[i].h \in Handles
    BY <1>3, <2>1 DEF NewlyLoaded
  <2>3. (ret.of = "load" /\ ret.val # 0) => frames[i].h # ret.val
    BY <1>4 DEF SessionCalls, ControlInv, OneHolder
  <2>4. frames[i].h \notin completed'
    BY <2>2, <2>3
  <2>5. loaded'[frames[i].h].file = loaded[frames[i].h].file
    BY <1>3, <2>2 DEF FilesStay
  <2> QED BY <1>3, <2>1, <2>2, <2>4, <2>5
<1>5. ASSUME NEW k, k = NewHandle, Enqueue(Me.file, FALSE), Me.file \in File
      PROVE  StillNew(k) /\ loaded'[k].file = Me.file
  <2>1. Live' = Live \cup {k} /\ k \notin Handles /\ loaded'[k].file = Me.file
    BY <1>5, AlonePlaced DEF SessionCalls, ControlInv
  <2>2. k = Len(loaded) + 1 /\ Len(loaded) \in Nat /\ Handles = 1 .. Len(loaded)
    BY <1>5, CallArray DEF NewHandle
  <2>3. ret.val # k
    <3>1. ret.val \in 0 .. Len(loaded)
      BY DEF CoreInv, Answer
    <3> QED BY <2>2, <3>1
  <2> QED BY <2>1, <2>2, <2>3
<1> HIDE DEF StillNew
<1>6. CASE LoadReturns
  <2>1. PICK v \in {0, Me.h} : Popped /\ ret' = [of |-> "load", val |-> v]
    BY <1>6 DEF LoadReturns
  <2>2. \A i \in DOMAIN frames' : i \in DOMAIN frames /\ frames'[i] = frames[i]
    BY <1>2, <2>1 DEF Popped
  <2>3. ret'.val = v
    BY <2>1
  <2>4. ret'.val # 0 => StillNew(ret'.val)
    BY <1>2, <1>4, <2>3
  <2> QED BY <1>4, <2>2, <2>4 DEF LoadsAreNew, NewlyLoaded, StillNew
<1>7. ASSUME NEW f \in Frame, LoadGoesOnAs(f) PROVE LoadsAreNew'
  <2>1. Replaced(f) /\ ret' = NoReturn /\ f.file = Me.file
    BY <1>7 DEF LoadGoesOnAs
  <2>2. f.h # 0 => StillNew(f.h) /\ loaded'[f.h].file = f.file
    <3>1. CASE f.h = Me.h
      BY <1>2, <1>4, <2>1, <3>1
    <3>2. CASE f.h = NewHandle /\ Enqueue(Me.file, FALSE)
      <4>1. Me.file \in File
        BY <1>2, CallArray
      <4> QED BY <1>5, <2>1, <3>2, <4>1
    <3> QED BY <1>7, <3>1, <3>2 DEF LoadGoesOnAs
  <2>3. \A i \in DOMAIN frames' :
           /\ i \in DOMAIN frames
           /\ frames'[i] = IF i = Len(frames) THEN f ELSE frames[i]
    BY <1>2, <2>1 DEF Replaced
  <2>4. ret'.of # "load"
    BY <2>1 DEF NoReturn
  <2>5. \A i \in DOMAIN frames' : frames'[i].h # 0 =>
           StillNew(frames'[i].h) /\ loaded'[frames'[i].h].file = frames'[i].file
    BY <1>4, <2>2, <2>3
  <2> QED BY <2>4, <2>5 DEF LoadsAreNew, NewlyLoaded, StillNew
<1>8. ASSUME NEW g, LoadCalls(g) PROVE LoadsAreNew'
  <2>1. Pushed(Call("load", g, 0, "headers")) /\ ret' = NoReturn
    BY <1>8 DEF LoadCalls
  <2>2. Call("load", g, 0, "headers").h = 0
    BY DEF Call
  <2>3. \A i \in DOMAIN frames' :
           \/ frames'[i].h = 0
           \/ i \in DOMAIN frames /\ frames'[i] = frames[i]
    <3>1. ASSUME NEW i \in DOMAIN frames'
          PROVE  \/ frames'[i].h = 0
                 \/ i \in DOMAIN frames /\ frames'[i] = frames[i]
      <4>1. /\ i = Len(frames) + 1 \/ i \in DOMAIN frames
            /\ frames'[i] = IF i = Len(frames) + 1 THEN Call("load", g, 0, "headers") ELSE frames[i]
        BY <1>2, <2>1, <3>1 DEF Pushed
      <4>2. i \in DOMAIN frames => i # Len(frames) + 1
        BY <1>2
      <4> QED BY <2>2, <4>1, <4>2
    <3> QED BY <3>1
  <2>4. ret'.of # "load"
    BY <2>1 DEF NoReturn
  <2>5. \A i \in DOMAIN frames' : frames'[i].h # 0 =>
           StillNew(frames'[i].h) /\ loaded'[frames'[i].h].file = frames'[i].file
    BY <1>4, <2>3
  <2> QED BY <2>4, <2>5 DEF LoadsAreNew, NewlyLoaded, StillNew
<1>9. CASE LoadCallKept
  <2>1. UNCHANGED << frames, ret >> /\ ret'.of # "load"
    BY <1>9 DEF LoadCallKept, NoReturn
  <2>2. \A i \in DOMAIN frames' : frames'[i].h # 0 =>
           StillNew(frames'[i].h) /\ loaded'[frames'[i].h].file = frames'[i].file
    BY <1>4, <2>1
  <2> QED BY <2>1, <2>2 DEF LoadsAreNew, NewlyLoaded, StillNew
<1> QED BY <1>6, <1>7, <1>8, <1>9, LoadStepFrames

(* What is due when nothing that has a record came or went.                *)
LEMMA DueStays ==
  ASSUME completed \subseteq Handles, completed' = completed, DLModules_loc' = DLModules_loc,
         Handles \subseteq Handles',
         \A m \in Handles : m \in Live' \cup JustFreed' <=> m \in Live \cup JustFreed
  PROVE  Due' = Due
  BY DEF Due, NewerThanBase

(* A step of a load that only touches the context stack.                   *)
LEMMA LoadLeavesRecords ==
  ASSUME CoreInv, CoreInv', SessionCalls, LoadStep, completed \subseteq Handles,
         RecordsAreRight, RecordHandles = Due, completed' = completed,
         UNCHANGED << mirror_debug_list, first_module_ptr, segments, DLModules_loc >>
  PROVE  RecordsAreRight' /\ RecordHandles' = Due'
<1>1. ImagesKept /\ \A m \in Handles : m \in Live' <=> m \in Live
  BY LoadKeepsImages
<1>2. JustFreed = {} /\ JustFreed' = {}
  <2>1. ret.of # "unload" /\ ret'.of # "unload"
    BY LoadStepCalls
  <2>2. ~Freed /\ ~Freed'
    BY <2>1 DEF Freed
  <2> QED BY <2>2 DEF JustFreed
<1>3. Due' = Due
  BY <1>1, <1>2, DueStays DEF ImagesKept
<1>4. FilesStay(RecordHandles)
  <2>1. RecordHandles \subseteq Handles
    BY DEF Due
  <2> QED BY <1>1, <2>1 DEF ImagesKept, FilesStay
<1> QED BY <1>3, <1>4, RecordsLeftAlone

-----------------------------------------------------------------------------
(* A step of a load, and what the client does around it.                   *)
LEMMA CoreLoads ==
  ASSUME CoreInv, CoreInv', SessionCalls, CoreStep, LoadStep
  PROVE  \/ /\ RejectFile \/ RejectCircular \/ DependentNotFound
            /\ UNCHANGED << debug_vars, completed >>
         \/ /\ NeededIsLoaded \/ NeededDone \/ Relocate \/ RelocateDone
            /\ UNCHANGED << debug_vars, completed >>
         \/ Placing /\ UNCHANGED completed
         \/ NestedLoad /\ UNCHANGED completed
         \/ NestedLoadReturned
<1>1. Loading /\ frames # << >> /\ ret.of # "unload"
  BY LoadStepCalls
<1>2. Me.op = "load"
  BY <1>1, TopOfCalls, CallArray DEF Loading
<1>3. ~(UnloadDependent \/ UnloadDone \/ AbortOnDoubleFree \/ DependentUnloaded)
  BY <1>2 DEF UnloadDependent, UnloadDone, AbortOnDoubleFree, DependentUnloaded, Running, Me
<1> QED BY <1>3 DEF CoreStep, CoreAlone, NestedUnloadReturned

(* The calls go on, or the load has failed and fails all the way out.      *)
LEMMA CoreLoadsOnStack ==
  ASSUME CoreInv, ListInv, ListInv', SessionCalls, SessionCalls', LoadsOnStack, LoadsAreNew,
         FilesStay(Handles), Loading, DLL_debug,
         \/ RejectFile \/ RejectCircular \/ DependentNotFound \/ FailAllocation
         \/ /\ NeededIsLoaded \/ NeededDone \/ Relocate \/ RelocateDone
            /\ UNCHANGED dl_debug_stk
         \/ PlaceModule /\ Recording(AddSegmentRecord(NewHandle))
         \/ NestedLoad
  PROVE  LoadsOnStack'
<1>1. ASSUME Return("load", 0) PROVE LoadsOnStack'
  <2>1. FailedLoad'
    BY <1>1 DEF Return, FailedLoad
  <2> QED BY <2>1 DEF LoadsOnStack
<1>2. ASSUME NEW pc, Running("load", pc)
      PROVE  /\ frames # << >> /\ Me \in Frame /\ Me.pc = pc /\ Me.op = "load"
             /\ Me = frames[Len(frames)] /\ Len(frames) \in DOMAIN frames /\ CallsOK
             /\ pc # "headers" => Me.h # 0
  <2>1. /\ frames # << >> /\ Me \in Frame /\ Me.pc = pc /\ Me.op = "load"
        /\ Me = frames[Len(frames)] /\ Len(frames) \in 1 .. Len(frames)
    BY <1>2, RunningTop DEF SessionCalls, ControlInv
  <2> QED BY <2>1, CallArray DEF SessionCalls, ControlInv
<1>3. CASE RejectFile \/ RejectCircular \/ DependentNotFound \/ FailAllocation
  BY <1>1, <1>3 DEF RejectFile, RejectCircular, DependentNotFound, FailAllocation
<1>4. ASSUME NEW left \in Nat, Stacked(left), UNCHANGED dl_debug_stk, NEW pc, pc # "headers",
             Running("load", pc), Return("load", Me.h)
      PROVE  LoadsOnStack'
  <2>1. Popped /\ ret' = [of |-> "load", val |-> Me.h]
    BY <1>2, <1>4, PopFrames DEF Return
  <2>2. Me.h \in Live /\ loaded[Me.h].file = Me.file
    BY <1>2, <1>4 DEF LoadsAreNew, NewlyLoaded
  <2>3. loaded'[Me.h].file = Me.file
    BY <2>2, LiveHandles DEF FilesStay
  <2> QED BY <1>4, <2>1, <2>3, StackReturns
<1>5. ASSUME NEW left \in Nat, Stacked(left), UNCHANGED dl_debug_stk, NEW f \in Frame,
             frames # << >>, frames' = Append(Front(frames), f), f.h = Me.h, f.file = Me.file,
             ret' = NoReturn
      PROVE  LoadsOnStack'
  <2>1. Replaced(f)
    BY <1>5, ReplaceFrame
  <2> QED BY <1>5, <2>1, StackGoesOn
<1>6. CASE NeededIsLoaded /\ UNCHANGED dl_debug_stk
  <2>1. Running("load", "needed") /\ ret = NoReturn /\ ret' = NoReturn /\ frames' = NextNeeded
    BY <1>6 DEF NeededIsLoaded, PendingNeeded
  <2>2. PICK left \in Nat : Stacked(left)
    BY <2>1, OnStack
  <2>3. PICK f \in Frame : frames' = Append(Front(frames), f) /\ f.h = Me.h /\ f.file = Me.file
    BY <1>2, <2>1, NextCall DEF NextNeeded
  <2> QED BY <1>2, <1>5, <1>6, <2>1, <2>2, <2>3
<1>7. CASE NeededDone /\ UNCHANGED dl_debug_stk
  <2>1. Running("load", "needed") /\ ret = NoReturn
    BY <1>7 DEF NeededDone
  <2>2. PICK left \in Nat : Stacked(left)
    BY <2>1, OnStack
  <2>3. CASE Return("load", Me.h)
    BY <1>4, <1>7, <2>1, <2>2, <2>3
  <2>4. CASE frames' = Append(Front(frames), [Me EXCEPT !.pc = "relocate"]) /\ UNCHANGED ret
    <3>1. /\ [Me EXCEPT !.pc = "relocate"] \in Frame /\ [Me EXCEPT !.pc = "relocate"].h = Me.h
          /\ [Me EXCEPT !.pc = "relocate"].file = Me.file
      BY <1>2, <2>1 DEF Frame
    <3>2. frames # << >> /\ ret' = NoReturn
      BY <1>2, <2>1, <2>4
    <3> QED BY <1>5, <1>7, <2>2, <2>4, <3>1, <3>2
  <2> QED BY <1>7, <2>3, <2>4 DEF NeededDone
<1>8. ASSUME Running("load", "relocate") PROVE ret = NoReturn
  BY <1>2, <1>8 DEF SessionCalls, ControlInv, ReturnOK
<1>9. CASE Relocate /\ UNCHANGED dl_debug_stk
  <2>1. UNCHANGED << frames, ret >> /\ ret = NoReturn /\ Len(frames) \in Nat
    BY <1>8, <1>9, CallArray DEF Relocate
  <2>2. PICK left \in Nat : Stacked(left)
    BY <2>1, OnStack
  <2> QED BY <1>9, <2>1, <2>2, OnStackNext DEF Stacked
<1>10. CASE RelocateDone /\ UNCHANGED dl_debug_stk
  <2>1. Running("load", "relocate") /\ ret = NoReturn /\ Return("load", Me.h)
    BY <1>8, <1>10 DEF RelocateDone
  <2>2. PICK left \in Nat : Stacked(left)
    BY <2>1, OnStack
  <2> QED BY <1>4, <1>10, <2>1, <2>2
<1>11. CASE PlaceModule /\ Recording(AddSegmentRecord(NewHandle))
  <2>1. Running("load", "headers")
    BY <1>11 DEF PlaceModule
  <2>2. CASE Return("load", 0)
    BY <1>1, <2>2
  <2>3. CASE frames' = Append(Front(frames), Call("load", Me.file, NewHandle, "needed")) /\ UNCHANGED ret
    <3>1. PICK k : k = NewHandle
      OBVIOUS
    <3>2. k \in Nat \ {0} /\ AddSegmentRecord(k)
      BY <1>11, <3>1, CallArray DEF NewHandle, Recording
    <3>3. PICK f : f = Call("load", Me.file, k, "needed")
      OBVIOUS
    <3>4. f \in Frame /\ f.h = k /\ f.file = Me.file
      BY <1>2, <2>1, <3>2, <3>3 DEF Call, Frame
    <3>5. Replaced(f)
      BY <1>2, <2>1, <2>3, <3>1, <3>3, <3>4, ReplaceFrame
    <3>6. Me.h = 0 /\ ret = NoReturn /\ ret' = NoReturn
      BY <1>2, <2>1, <2>3 DEF CallsOK, SessionCalls, ControlInv, ReturnOK
    <3>7. PICK left \in Nat : Stacked(left)
      BY <3>6, OnStack
    <3> QED BY <3>2, <3>4, <3>5, <3>6, <3>7, StackPlaced
  <2> QED BY <1>11, <2>2, <2>3 DEF PlaceModule
<1>12. CASE NestedLoad
  <2>1. PICK g : g = Needed(Me.file)[Me.next]
    OBVIOUS
  <2>2. /\ ret = NoReturn /\ ret' = NoReturn
        /\ frames' = Append(frames, Call("load", g, 0, "headers"))
        /\ AddHostRecord(g) /\ LoadDependent
    BY <1>12, <2>1 DEF NestedLoad, LoadDependent, PendingNeeded, Recording
  <2>3. g \in File
    BY <2>1, <2>2, NeededFile DEF LoadDependent
  <2>4. Pushed(Call("load", g, 0, "headers"))
    <3>1. Call("load", g, 0, "headers") \in Frame
      BY <2>3 DEF Call, Frame
    <3> QED BY <2>2, <3>1, PushFrame
  <2>5. HostRecord(g) \in HostRecords
    BY <2>3, EmptySeq, RidlAssumption DEF HostRecord, HostRecords
  <2>6. PICK left \in Nat : Stacked(left)
    BY <2>2, OnStack
  <2> QED BY <2>2, <2>4, <2>5, <2>6, StackCalls
<1> QED BY <1>3, <1>6, <1>7, <1>9, <1>10, <1>11, <1>12

-----------------------------------------------------------------------------
(* A load came back with its module: it gets its record.                   *)
LEMMA RecordComes ==
  ASSUME CoreInv, ListInv, DLL_debug, completed \subseteq Handles, DLModules_loc \in Handles,
         DLModules_loc' = DLModules_loc, LoadsAreNew, LoadsOnStack, RecordsAreRight,
         RecordHandles = Due, Loading, ret.of = "load", ret.val # 0,
         NEW a \in Address, AddTargetRecord(ret.val, a), ImagesKept, JustFreed = {}, JustFreed' = {},
         completed' = completed \cup {ret.val}, \A m \in Handles : m \in Live' <=> m \in Live
  PROVE  RecordsAreRight' /\ RecordHandles' = Due'
<1>1. PICK h : h = ret.val
  OBVIOUS
<1>2. /\ h \in Live /\ h > DLModules_loc /\ h \notin completed /\ h \in Handles
      /\ h \in Nat \ {0}
  BY <1>1, LiveHandles, CallArray DEF LoadsAreNew, NewlyLoaded
<1>3. RecordsAreRight' /\ RecordHandles' = RecordHandles \cup {h}
  <2>1. h \notin RecordHandles
    BY <1>2 DEF Due
  <2>2. FilesStay(RecordHandles \cup {h})
    <3>1. RecordHandles \cup {h} \subseteq Handles
      BY <1>2 DEF Due
    <3> QED BY <3>1 DEF ImagesKept, FilesStay
  <2>3. Last(dl_debug_stk) = RecordOfLoad(loaded[h].file, h)
    BY <1>1, StackTop
  <2>4. AddTargetRecord(h, a)
    BY <1>1
  <2> QED BY <1>2, <2>1, <2>2, <2>3, <2>4, RecordAdded
<1>4. Due' = Due \cup {h}
  <2>1. completed' = completed \cup {h}
    BY <1>1
  <2>2. Due' = {m \in completed' : m \in Handles' /\ m > DLModules_loc /\ m \in Live'}
    BY DEF Due, NewerThanBase
  <2>3. Due = {m \in completed : m \in Handles /\ m > DLModules_loc /\ m \in Live}
    BY DEF Due, NewerThanBase
  <2>4. Handles \subseteq Handles'
    BY DEF ImagesKept
  <2> QED BY <1>2, <2>1, <2>2, <2>3, <2>4
<1> QED BY <1>3, <1>4

(* A nested one, and its user goes on.                                     *)
LEMMA RecordedNested ==
  ASSUME RidlInv, RidlInv', SessionCalls, DebugInv, NestedLoadReturned, ret.val # 0,
         DLL_debug, DLModules_loc \in Handles, DLModules_loc' = DLModules_loc, LoadsAreNew, LoadsOnStack,
         RecordsAreRight, RecordHandles = Due, status' = "running"
  PROVE  LoadsOnStack' /\ RecordsAreRight' /\ RecordHandles' = Due'
<1>1. CoreInv /\ CoreInv' /\ ListInv /\ ListInv' /\ completed \subseteq Handles
  BY DEF RidlInv, DebugInv
<1>2. DependentReturned /\ Running("load", "needed") /\ ret.of = "load" /\ LoadStep
  BY DEF NestedLoadReturned, DependentReturned, LoadStep
<1>3. Loading /\ JustFreed = {} /\ JustFreed' = {}
  <2>1. Loading /\ ret.of # "unload" /\ ret'.of # "unload"
    BY <1>1, <1>2, LoadStepCalls
  <2>2. ~Freed /\ ~Freed'
    BY <2>1 DEF Freed
  <2> QED BY <2>1, <2>2 DEF JustFreed
<1>4. ImagesKept /\ \A m \in Handles : m \in Live' <=> m \in Live
  BY <1>1, <1>2, LoadKeepsImages
<1>5. PICK a \in Address : AddTargetRecord(ret.val, a)
  <2>1. status' # "exited"
    OBVIOUS
  <2> QED BY <2>1 DEF NestedLoadReturned, Recording
<1>6. PICK f \in Frame : Replaced(f) /\ f.h = Me.h /\ f.file = Me.file
  <2>1. frames # << >> /\ CallsOK
    BY <1>2 DEF Running, SessionCalls, ControlInv
  <2>2. frames' = NextNeeded
    BY <1>2 DEF DependentReturned
  <2>3. PICK f \in Frame : frames' = Append(Front(frames), f) /\ f.h = Me.h /\ f.file = Me.file
    BY <1>1, <1>2, <2>1, <2>2, NextCall DEF NextNeeded
  <2> QED BY <1>1, <2>1, <2>3, ReplaceFrame
<1>7. ret' = NoReturn
  BY <1>2 DEF DependentReturned
<1>8. LoadsOnStack'
  BY <1>1, <1>2, <1>3, <1>5, <1>6, <1>7, StackRecorded
<1>9. completed' = completed \cup {ret.val}
  BY DEF NestedLoadReturned
<1>10. RecordsAreRight' /\ RecordHandles' = Due'
  BY <1>1, <1>2, <1>3, <1>4, <1>5, <1>9, RecordComes
<1> QED BY <1>8, <1>10

(* A step of a load.                                                       *)
LEMMA DebugLoading ==
  ASSUME RidlInv, RidlInv', SessionCalls, SessionCalls', DebugInv, CoreStep, LoadStep
  PROVE  DebugInv'
<1>1. CoreInv /\ CoreInv' /\ ListInv /\ ListInv' /\ completed \subseteq Handles /\ NoImageStep
  BY DEF RidlInv, DebugInv, NoImageStep
<1>2. Loading /\ Loading' /\ ret.of # "unload" /\ ret'.of # "unload"
  BY <1>1, LoadStepCalls
<1>3. ImagesKept
  BY <1>1, LoadKeepsImages
<1>4. NoRecordsYet'
  BY <1>1, NoRecordsNext DEF DebugInv
<1>5. UnloadsInMemory'
  BY <1>2 DEF UnloadsInMemory, Loading, Unloading
<1>9. FreedIsGone'
  <2>1. ~Freed'
    BY <1>2 DEF Freed
  <2> QED BY <2>1 DEF FreedIsGone, JustFreed
<1>6. \/ /\ RejectFile \/ RejectCircular \/ DependentNotFound
         /\ UNCHANGED << debug_vars, completed >>
      \/ /\ NeededIsLoaded \/ NeededDone \/ Relocate \/ RelocateDone
         /\ UNCHANGED << debug_vars, completed >>
      \/ Placing /\ UNCHANGED completed
      \/ NestedLoad /\ UNCHANGED completed
      \/ NestedLoadReturned
  BY <1>1, CoreLoads
<1>7. completed' \subseteq Handles'
  <2>1. Handles \subseteq Handles'
    BY <1>3 DEF ImagesKept
  <2>2. CASE NestedLoadReturned
    <3>1. ret.val \in 0 .. Len(loaded) /\ Handles = 1 .. Len(loaded) /\ Len(loaded) \in Nat
      BY <1>1, CallArray DEF CoreInv, Answer
    <3>2. {ret.val} \ {0} \subseteq Handles
      BY <3>1
    <3> QED BY <1>1, <2>1, <2>2, <3>2 DEF NestedLoadReturned
  <2> QED BY <1>1, <1>6, <2>1, <2>2
<1>8. ASSUME Watched'
      PROVE  /\ DLModules_loc' \in Handles' /\ LoadsAreNew' /\ LoadsOnStack'
             /\ RecordsAreRight' /\ RecordHandles' = Due'
  <2>1. Watched /\ DLL_debug /\ DLModules_loc' = DLModules_loc /\ status' = "running"
    BY <1>1, <1>8, WatchedBefore
  <2>2. DLModules_loc \in Handles /\ LoadsAreNew /\ LoadsOnStack /\ RecordsAreRight /\ RecordHandles = Due
    BY <2>1 DEF DebugInv
  <2>3. DLModules_loc' \in Handles'
    BY <1>3, <2>1, <2>2 DEF ImagesKept
  <2>4. ASSUME completed' = completed,
               UNCHANGED << mirror_debug_list, first_module_ptr, segments, DLModules_loc >>,
               \/ RejectFile \/ RejectCircular \/ DependentNotFound \/ FailAllocation
               \/ /\ NeededIsLoaded \/ NeededDone \/ Relocate \/ RelocateDone
                  /\ UNCHANGED dl_debug_stk
               \/ PlaceModule /\ Recording(AddSegmentRecord(NewHandle))
               \/ NestedLoad
        PROVE  LoadsAreNew' /\ LoadsOnStack' /\ RecordsAreRight' /\ RecordHandles' = Due'
    <3>1. LoadsAreNew'
      BY <1>1, <2>1, <2>2, <2>4, LoadsStayNew
    <3>2. LoadsOnStack'
      <4>1. FilesStay(Handles)
        BY <1>3 DEF ImagesKept
      <4> QED BY <1>1, <1>2, <2>1, <2>2, <2>4, <4>1, CoreLoadsOnStack
    <3>3. RecordsAreRight' /\ RecordHandles' = Due'
      BY <1>1, <2>2, <2>4, LoadLeavesRecords
    <3> QED BY <3>1, <3>2, <3>3
  <2>5. CASE /\ RejectFile \/ RejectCircular \/ DependentNotFound
             /\ UNCHANGED << debug_vars, completed >>
    BY <2>3, <2>4, <2>5 DEF debug_vars
  <2>6. CASE /\ NeededIsLoaded \/ NeededDone \/ Relocate \/ RelocateDone
             /\ UNCHANGED << debug_vars, completed >>
    BY <2>3, <2>4, <2>6 DEF debug_vars
  <2>7. CASE Placing /\ UNCHANGED completed
    <3>1. UNCHANGED << mirror_debug_list, first_module_ptr, segments, DLModules_loc >>
      BY <2>7 DEF Placing, Recording, AddSegmentRecord, debug_vars
    <3>2. FailAllocation \/ (PlaceModule /\ Recording(AddSegmentRecord(NewHandle)))
      BY <2>7 DEF Placing
    <3>3. completed' = completed
      BY <2>7
    <3> QED BY <2>3, <2>4, <3>1, <3>2, <3>3
  <2>8. CASE NestedLoad /\ UNCHANGED completed
    <3>1. UNCHANGED << mirror_debug_list, first_module_ptr, segments, DLModules_loc >>
      BY <2>8 DEF NestedLoad, Recording, AddHostRecord, debug_vars
    <3> QED BY <2>3, <2>4, <2>8, <3>1
  <2>9. CASE NestedLoadReturned /\ ret.val = 0
    <3>1. /\ completed' = completed
          /\ UNCHANGED << mirror_debug_list, first_module_ptr, segments, DLModules_loc >>
      BY <2>9 DEF NestedLoadReturned, debug_vars
    <3>2. LoadsAreNew'
      BY <1>1, <2>1, <2>2, <3>1, LoadsStayNew
    <3>3. LoadsOnStack'
      <4>1. FailedLoad'
        BY <2>9 DEF NestedLoadReturned, DependentReturned, Return, FailedLoad
      <4> QED BY <4>1 DEF LoadsOnStack
    <3>4. RecordsAreRight' /\ RecordHandles' = Due'
      BY <1>1, <2>2, <3>1, LoadLeavesRecords
    <3> QED BY <2>3, <3>2, <3>3, <3>4
  <2>10. CASE NestedLoadReturned /\ ret.val # 0
    <3>1. ret.of = "load" /\ completed' = completed \cup {ret.val}
      BY <2>10 DEF NestedLoadReturned, DependentReturned
    <3>2. LoadsAreNew'
      BY <1>1, <2>1, <2>2, <2>10, <3>1, LoadsStayNew
    <3>3. LoadsOnStack' /\ RecordsAreRight' /\ RecordHandles' = Due'
      BY <2>1, <2>2, <2>10, RecordedNested
    <3> QED BY <2>3, <3>2, <3>3
  <2> QED BY <1>6, <2>5, <2>6, <2>7, <2>8, <2>9, <2>10
<1> QED BY <1>4, <1>5, <1>7, <1>8, <1>9 DEF DebugInv

-----------------------------------------------------------------------------
(* While a module is unloaded, and when no call is left, no load is under  *)
(* way.                                                                    *)
LEMMA NothingLoads ==
  ASSUME CoreInv', ListInv', Unloading', ret'.of # "load"
  PROVE  LoadsAreNew' /\ LoadsOnStack'
<1>1. LoadsAreNew'
  BY DEF LoadsAreNew, Unloading
<1>2. ASSUME Loading' PROVE LoadsOnStack'
  <2>1. frames' \in Seq(Frame) /\ dl_debug_stk' \in Seq(HostRecords)
    BY DEF CoreInv, FramesOK, ListInv, ListTypeOK, HostRecords
  <2>2. DOMAIN frames' = {}
    BY <1>2 DEF Loading, Unloading
  <2>3. Len(frames') = 0 /\ Len(dl_debug_stk') \in Nat
    BY <2>1, <2>2, LenProperties
  <2>4. PICK left \in 0 .. Len(dl_debug_stk') : left = Len(dl_debug_stk')
    BY <2>3
  <2>5. Len(dl_debug_stk') = left + Len(frames') + (IF ret'.of = "load" THEN 1 ELSE 0)
    BY <2>3, <2>4
  <2> QED BY <2>2, <2>4, <2>5 DEF LoadsOnStack
<1>3. ASSUME ~Loading' PROVE LoadsOnStack'
  BY <1>3 DEF LoadsOnStack
<1> QED BY <1>1, <1>2, <1>3

(* What is being unloaded is in memory until its unload is done.           *)
LEMMA UnloadMemory ==
  ASSUME CoreInv, CoreInv', SessionCalls, UnloadsInMemory, UnloadStep
  PROVE  /\ UnloadsInMemory' /\ Unloading /\ Unloading' /\ frames # << >>
         /\ ret.of \in {"none", "unload"} /\ ret'.of \in {"none", "unload", "abort"}
         /\ UnloadDone => Me.h \in Live /\ Live' = Live \ {Me.h} /\ Popped
<1>1. Running("unload", "depend") /\ ret.of \in {"none", "unload"}
  BY DEF UnloadStep, UnloadDependent, DependentUnloaded, UnloadDone, AbortOnDoubleFree, NoReturn
<1>2. /\ frames # << >> /\ Len(frames) \in Nat \ {0} /\ DOMAIN frames = 1 .. Len(frames)
      /\ Me = frames[Len(frames)] /\ Me \in Frame /\ Unloading
  BY <1>1, SessionUnloads
<1>3. \A i \in DOMAIN frames : frames[i].h \in Live
  BY <1>1, <1>2 DEF UnloadsInMemory
<1>4. Me.h \in Live /\ Len(frames) \in DOMAIN frames
  BY <1>2, <1>3
<1>5. CASE UnloadDependent
  <2>1. Live' = Live
    BY <1>5 DEF UnloadDependent, Live
  <2>2. PICK f : f = [Me EXCEPT !.next = Me.next + 1]
    OBVIOUS
  <2>3. f.h = Me.h
    BY <1>2, <2>2 DEF Frame
  <2>4. /\ Unloading'
        /\ \/ Replaced(f) /\ ret' = [of |-> "unload", val |-> 0]
           \/ \E g \in Frame : ReplacedPushed(f, g) /\ ret' = NoReturn /\ g.h \in Live
    BY <1>5, <2>2, DependentCalls
  <2>5. ret'.of \in {"none", "unload"}
    BY <2>4 DEF NoReturn
  <2>6. ASSUME Replaced(f) PROVE UnloadsInMemory'
    <3>1. \A i \in DOMAIN frames' : frames'[i].h \in Live'
      BY <1>2, <1>3, <1>4, <2>1, <2>3, <2>6 DEF Replaced
    <3> QED BY <3>1 DEF UnloadsInMemory
  <2>7. ASSUME NEW g \in Frame, ReplacedPushed(f, g), g.h \in Live
        PROVE  UnloadsInMemory'
    <3>1. ASSUME NEW i \in DOMAIN frames' PROVE frames'[i].h \in Live
      <4>1. /\ i \in 1 .. Len(frames) + 1
            /\ frames'[i] = IF i = Len(frames) + 1 THEN g
                            ELSE IF i = Len(frames) THEN f ELSE frames[i]
        BY <2>7, <3>1 DEF ReplacedPushed
      <4>2. i = Len(frames) + 1 \/ i = Len(frames) \/ i \in DOMAIN frames
        BY <1>2, <4>1
      <4>3. f.h \in Live /\ g.h \in Live
        BY <1>4, <2>3, <2>7
      <4> QED BY <1>3, <4>1, <4>2, <4>3
    <3> QED BY <2>1, <3>1 DEF UnloadsInMemory
  <2>8. UnloadsInMemory'
    BY <2>4, <2>6, <2>7
  <2>9. ~UnloadDone
    BY <1>5, <2>4, DependentCalls DEF UnloadDone, UnloadDependent, DependentsLeft
  <2> QED BY <1>1, <1>2, <2>4, <2>5, <2>8, <2>9
<1>6. CASE DependentUnloaded
  <2>1. /\ UNCHANGED << frames, loaded_objects >> /\ ret' = NoReturn /\ Unloading' /\ ret.of = "unload"
    BY <1>6, UnloadEndCalls DEF DependentUnloaded
  <2>2. UnloadsInMemory'
    BY <1>3, <2>1 DEF UnloadsInMemory, Live
  <2>3. ~UnloadDone /\ ret'.of = "none"
    BY <2>1 DEF UnloadDone, NoReturn
  <2> QED BY <1>1, <1>2, <2>1, <2>2, <2>3
<1>7. CASE UnloadDone
  <2>1. loaded_objects' = RemoveLoaded(Me.h) /\ Return("unload", 1)
    BY <1>7 DEF UnloadDone
  <2>2. Live' = Live \ {Me.h}
    <3>1. PICK u \in Live : u = Me.h
      BY <1>4
    <3>2. Live' = Live \ {u}
      BY <2>1, <3>1, LeavesQueue DEF SessionCalls, ControlInv
    <3> QED BY <3>1, <3>2
  <2>3. Popped /\ ret'.of = "unload" /\ Unloading'
    BY <1>2, <1>7, <2>1, PopFrames, UnloadEndCalls DEF Return
  <2>4. \A i \in DOMAIN frames' : i \in DOMAIN frames /\ i # Len(frames) /\ frames'[i] = frames[i]
    BY <1>2, <2>3 DEF Popped
  <2>5. Me.h # 0
    BY <1>4, LiveHandles, CallArray
  <2>6. \A i \in DOMAIN frames : i # Len(frames) => frames[i].h # Me.h
    BY <1>2, <1>4, <2>5 DEF SessionCalls, ControlInv, CallsOK
  <2>7. UnloadsInMemory'
    BY <1>3, <2>2, <2>4, <2>6 DEF UnloadsInMemory
  <2> QED BY <1>1, <1>2, <1>4, <2>2, <2>3, <2>7
<1>8. CASE AbortOnDoubleFree
  <2>1. ret' = [of |-> "abort", val |-> 0] /\ UNCHANGED frames /\ Unloading'
    BY <1>8, UnloadEndCalls DEF AbortOnDoubleFree
  <2>2. UnloadsInMemory'
    BY <2>1 DEF UnloadsInMemory
  <2>3. ~UnloadDone
    <3>1. ASSUME UnloadDone PROVE FALSE
      <4>1. ret' = [of |-> "unload", val |-> 1]
        BY <3>1 DEF UnloadDone, Return
      <4> QED BY <2>1, <4>1
    <3> QED BY <3>1
  <2> QED BY <1>1, <1>2, <2>1, <2>2, <2>3
<1> QED BY <1>5, <1>6, <1>7, <1>8 DEF UnloadStep

(* The module that was just freed is the one whose record goes next.       *)
LEMMA FreedNow ==
  ASSUME RidlInv, RidlInv', SessionCalls, RecordInv, UnloadsInMemory, status = "running",
         prog_handle' = prog_handle, UnloadDone
  PROVE  JustFreed' = {Me.h}
<1>1. CoreInv /\ CoreInv' /\ UnloadStep
  BY DEF RidlInv, UnloadStep
<1>2. Unloading /\ Unloading' /\ frames # << >> /\ Popped
  BY <1>1, UnloadMemory
<1>3. PICK n \in Nat \ {0} : n = Len(frames) /\ DOMAIN frames = 1 .. n /\ Me = frames[n]
  BY <1>1, <1>2, TopOfCalls, CallArray
<1>4. UnloadUnderWay /\ UNCHANGED loaded /\ ret' = [of |-> "unload", val |-> 1]
  BY <1>2 DEF UnloadUnderWay, UnloadDone, Return
<1>5. /\ prog_handle = frames[1].h
      /\ \A i \in 2 .. n : frames[i].h = loaded[frames[i - 1].h].deps[frames[i - 1].next - 1]
  BY <1>3, <1>4 DEF RecordInv, UnloadOfProgram
<1>6. Len(frames') = n - 1 /\ \A i \in 1 .. n - 1 : frames'[i] = frames[i]
  BY <1>2, <1>3 DEF Popped
<1>7. Freed'
  BY <1>4 DEF Freed
<1>8. CASE frames' = << >>
  <2>1. Len(frames') = 0
    BY <1>8
  <2>2. n = 1
    BY <1>6, <2>1
  <2> QED BY <1>3, <1>5, <1>7, <1>8, <2>2 DEF JustFreed
<1>9. CASE frames' # << >>
  <2>1. Len(frames') # 0 /\ Me' = frames'[Len(frames')]
    <3>1. CoreInv' => TopIsLast'
      BY TopStandsLast, PTL
    <3> QED BY <1>1, <1>9, <3>1 DEF TopIsLast
  <2>2. n \in 2 .. n /\ n - 1 \in 1 .. n - 1
    BY <1>6, <2>1
  <2>3. Me' = frames[n - 1]
    BY <1>6, <2>1, <2>2
  <2>4. Unloaded' = frames[n].h
    BY <1>4, <1>5, <2>2, <2>3 DEF Unloaded
  <2> QED BY <1>3, <1>7, <1>9, <2>4 DEF JustFreed
<1> QED BY <1>8, <1>9

-----------------------------------------------------------------------------
(* What is due leaves no record to handle 1, and has been given a handle.   *)
LEMMA DueHandles ==
  ASSUME CoreInv, completed \subseteq Handles, DLModules_loc \in Handles
  PROVE  Due \subseteq Handles /\ \A g \in Due : g > 1
<1>1. Handles = 1 .. Len(loaded) /\ Len(loaded) \in Nat
  BY CallArray
<1>2. \A g \in Due : g \in Handles /\ g > DLModules_loc
  BY DEF Due, NewerThanBase
<1>3. ASSUME NEW g \in Due PROVE g > 1
  <2>1. g \in Nat /\ DLModules_loc \in Nat /\ DLModules_loc >= 1 /\ g > DLModules_loc
    BY <1>1, <1>2
  <2> QED BY <2>1
<1> QED BY <1>2, <1>3

(* The unload of a module came back with its end: the records are those of  *)
(* the modules in memory again.                                            *)
LEMMA RecordGoes ==
  ASSUME CoreInv, ListInv, DLL_debug, completed \subseteq Handles, DLModules_loc \in Handles,
         RecordsAreRight, RecordHandles = Due, FreedIsGone, NEW h, JustFreed = {h}, Unrecord(h),
         status = "running", status' = "running", ~Freed', completed' = completed,
         DLModules_loc' = DLModules_loc, ImagesKept, Handles' = Handles, Live' = Live
  PROVE  RecordsAreRight' /\ RecordHandles' = Due'
<1>1. h \in Handles /\ h \notin Live /\ h \in Nat
  <2>1. Handles = 1 .. Len(loaded)
    BY CallArray
  <2>2. h \in Handles /\ h \notin Live
    BY DEF FreedIsGone
  <2> QED BY <2>1, <2>2
<1>2. RecordHandles \subseteq Handles /\ \A g \in RecordHandles : g > 1
  BY DueHandles
<1>3. FilesStay(RecordHandles)
  BY <1>2 DEF ImagesKept, FilesStay
<1>4. RecordsAreRight' /\ RecordHandles' = RecordHandles \ {h}
  BY <1>1, <1>2, <1>3, RecordsAfterUnload
<1>5. JustFreed' = {}
  BY DEF JustFreed
<1>6. Due' = Due \ {h}
  BY <1>1, <1>5 DEF Due, NewerThanBase
<1> QED BY <1>4, <1>6

(* A step of an unload, or the end of one, that leaves the list alone.      *)
LEMMA RecordsStay ==
  ASSUME CoreInv, completed \subseteq Handles, DLModules_loc \in Handles, RecordsAreRight,
         RecordHandles = Due, ImagesKept,
         UNCHANGED << mirror_debug_list, first_module_ptr, segments, DLModules_loc, completed >>,
         \A m \in Handles : m \in Live' \cup JustFreed' <=> m \in Live \cup JustFreed
  PROVE  RecordsAreRight' /\ RecordHandles' = Due'
<1>1. FilesStay(RecordHandles)
  <2>1. RecordHandles \subseteq Handles
    BY DueHandles
  <2> QED BY <2>1 DEF ImagesKept, FilesStay
<1>2. RecordsAreRight' /\ RecordHandles' = RecordHandles
  BY <1>1, RecordsLeftAlone
<1>3. Handles \subseteq Handles'
  BY DEF ImagesKept
<1>4. Due' = Due
  BY <1>3, DueStays
<1> QED BY <1>2, <1>4

(* A step of an unload.                                                    *)
LEMMA DebugUnloading ==
  ASSUME RidlInv, RidlInv', SessionCalls, RecordInv, DebugInv, CoreStep, ~LoadStep
  PROVE  DebugInv'
<1>1. CoreInv /\ CoreInv' /\ ListInv /\ ListInv' /\ completed \subseteq Handles /\ NoImageStep
  BY DEF RidlInv, DebugInv, NoImageStep
<1>2. /\ status = "running" /\ prog_handle' = prog_handle
      /\ \/ /\ UnloadDependent \/ UnloadDone \/ AbortOnDoubleFree
            /\ UNCHANGED << debug_vars, status, completed >>
         \/ NestedUnloadReturned
  BY DEF CoreStep, CoreAlone, Placing, NestedLoad, NestedLoadReturned, LoadStep
<1>3. UnloadStep
  BY <1>2 DEF NestedUnloadReturned, UnloadStep
<1>4. completed' = completed
  BY <1>2 DEF NestedUnloadReturned
<1>5. /\ UnloadsInMemory' /\ Unloading /\ Unloading' /\ frames # << >>
      /\ ret.of \in {"none", "unload"} /\ ret'.of \in {"none", "unload", "abort"}
      /\ UnloadDone => Me.h \in Live /\ Live' = Live \ {Me.h} /\ Popped
  BY <1>1, <1>3, UnloadMemory DEF DebugInv
<1>6. ImagesKept
  BY <1>1, <1>3, UnloadKeepsImages
<1>7. completed' \subseteq Handles'
  BY <1>1, <1>4, <1>6 DEF ImagesKept
<1>8. NoRecordsYet'
  BY <1>1, NoRecordsNext DEF DebugInv
<1>9. UnloadDone => JustFreed' = {Me.h} /\ JustFreed = {}
  <2>1. UnloadDone => JustFreed' = {Me.h}
    BY <1>2, FreedNow DEF DebugInv
  <2>2. UnloadDone => ~Freed
    BY DEF UnloadDone, Freed, NoReturn
  <2> QED BY <2>1, <2>2 DEF JustFreed
<1>10. UnloadDependent => ~Freed /\ ~Freed' /\ Live' = Live
  <2>1. ASSUME UnloadDependent PROVE ~Freed /\ ~Freed' /\ Live' = Live
    <3>1. ret = NoReturn /\ UNCHANGED loaded_objects
      BY <2>1 DEF UnloadDependent
    <3>2. ret' = [of |-> "unload", val |-> 0] \/ ret' = NoReturn
      BY <1>1, <2>1, DependentCalls
    <3> QED BY <3>1, <3>2 DEF Freed, NoReturn, Live
  <2> QED BY <2>1
<1>11. NestedUnloadReturned => ~Freed' /\ UNCHANGED << loaded, loaded_objects, frames >>
  BY DEF NestedUnloadReturned, DependentUnloaded, Freed, NoReturn
<1>12. AbortOnDoubleFree => ~Freed' /\ ret'.of = "abort"
  BY DEF AbortOnDoubleFree, Freed
<1>13. FreedIsGone'
  <2>1. CASE UnloadDone
    <3>1. Me.h \in Handles /\ Handles \subseteq Handles' /\ Me.h \notin Live'
      BY <1>1, <1>5, <1>6, <2>1, LiveHandles DEF ImagesKept
    <3> QED BY <1>9, <2>1, <3>1 DEF FreedIsGone
  <2>2. ASSUME ~Freed' PROVE FreedIsGone'
    BY <2>2 DEF FreedIsGone, JustFreed
  <2> QED BY <1>2, <1>10, <1>11, <1>12, <2>1, <2>2
<1>14. ASSUME Watched'
       PROVE  /\ DLModules_loc' \in Handles' /\ LoadsAreNew' /\ LoadsOnStack'
              /\ RecordsAreRight' /\ RecordHandles' = Due'
  <2>1. Watched /\ DLL_debug /\ DLModules_loc' = DLModules_loc /\ status' = "running"
    BY <1>1, <1>14, WatchedBefore
  <2>2. DLModules_loc \in Handles /\ RecordsAreRight /\ RecordHandles = Due
    BY <2>1 DEF DebugInv
  <2>3. DLModules_loc' \in Handles'
    BY <1>6, <2>1, <2>2 DEF ImagesKept
  <2>4. LoadsAreNew' /\ LoadsOnStack'
    <3>1. ret'.of # "load"
      BY <1>5
    <3> QED BY <1>1, <1>5, <3>1, NothingLoads
  <2>5. ~AbortOnDoubleFree
    BY <1>12, <1>14 DEF Watched
  <2>6. ASSUME UnloadDependent \/ UnloadDone, UNCHANGED << debug_vars, completed >>
        PROVE  RecordsAreRight' /\ RecordHandles' = Due'
    <3>1. CASE UnloadDependent
      <4>1. JustFreed = {} /\ JustFreed' = {} /\ Live' = Live
        BY <1>10, <3>1 DEF JustFreed
      <4> QED BY <1>1, <1>6, <2>2, <2>6, <4>1, RecordsStay DEF debug_vars
    <3>2. CASE UnloadDone
      <4>1. \A m \in Handles : m \in Live' \cup JustFreed' <=> m \in Live \cup JustFreed
        BY <1>5, <1>9, <3>2
      <4> QED BY <1>1, <1>6, <2>2, <2>6, <4>1, RecordsStay DEF debug_vars
    <3> QED BY <2>6, <3>1, <3>2
  <2>7. ASSUME NestedUnloadReturned
        PROVE  RecordsAreRight' /\ RecordHandles' = Due'
    <3>1. ~Freed' /\ Handles' = Handles /\ Live' = Live
      BY <1>11, <2>7 DEF Handles, Live
    <3>2. ret.of = "unload" /\ (ret.val = 1 <=> Freed)
      BY <1>1, <2>7 DEF NestedUnloadReturned, DependentUnloaded, Freed, CoreInv, Answer
    <3>3. CASE ret.val = 1
      <4>1. PICK h : h = Unloaded
        OBVIOUS
      <4>2. JustFreed = {h} /\ Unrecord(h)
        BY <1>5, <2>7, <3>2, <3>3, <4>1 DEF JustFreed, NestedUnloadReturned
      <4>3. FreedIsGone
        BY DEF DebugInv
      <4> QED BY <1>1, <1>2, <1>4, <1>6, <2>1, <2>2, <3>1, <4>2, <4>3, RecordGoes
    <3>4. CASE ret.val # 1
      <4>1. JustFreed = {} /\ JustFreed' = {}
        BY <3>1, <3>2, <3>4 DEF JustFreed
      <4>2. UNCHANGED << debug_vars, completed >>
        BY <1>4, <2>7, <3>4 DEF NestedUnloadReturned
      <4> QED BY <1>1, <1>6, <2>2, <3>1, <4>1, <4>2, RecordsStay DEF debug_vars
    <3> QED BY <3>3, <3>4
  <2> QED BY <1>2, <2>3, <2>4, <2>5, <2>6, <2>7
<1> QED BY <1>5, <1>7, <1>8, <1>13, <1>14 DEF DebugInv

-----------------------------------------------------------------------------
(* The shell takes the answer of its load or unload.                       *)
LEMMA DebugReturned ==
  ASSUME RidlInv, RidlInv', SessionCalls, DebugInv, ShellReturned
  PROVE  DebugInv'
<1>1. /\ CoreInv /\ CoreInv' /\ ListInv /\ ListInv' /\ completed \subseteq Handles /\ NoImageStep
      /\ FreedIsGone
  BY DEF RidlInv, DebugInv, NoImageStep
<1>2. /\ status = "running" /\ frames = << >> /\ frames' = << >> /\ ret' = NoReturn
      /\ DOMAIN frames = {} /\ DOMAIN frames' = {} /\ UNCHANGED << loaded, loaded_objects >>
      /\ ShellLoadFailed \/ ShellLoadDone \/ ShellUnloadDone
  BY DEF ShellReturned, TopReturned, Idle
<1>3. Handles' = Handles /\ Live' = Live /\ ImagesKept
  BY <1>2, SameImages DEF Handles, Live
<1>4. ~Freed' /\ ret'.of = "none"
  BY <1>2 DEF Freed, NoReturn
<1>5. Loading /\ Unloading'
  BY <1>2 DEF Loading, Unloading
<1>6. UnloadsInMemory' /\ FreedIsGone' /\ JustFreed' = {}
  BY <1>2, <1>4 DEF UnloadsInMemory, FreedIsGone, JustFreed
<1>7. NoRecordsYet'
  BY <1>1, NoRecordsNext DEF DebugInv
<1>8. completed' \subseteq Handles'
  <2>1. CASE ShellLoadDone
    <3>1. ret.val \in 0 .. Len(loaded) /\ ret.val # 0 /\ Handles = 1 .. Len(loaded) /\ Len(loaded) \in Nat
      BY <1>1, <2>1, CallArray DEF CoreInv, Answer, ShellLoadDone
    <3>2. ret.val \in Handles
      BY <3>1
    <3> QED BY <1>1, <1>3, <2>1, <3>2 DEF ShellLoadDone
  <2> QED BY <1>1, <1>2, <1>3, <2>1 DEF ShellLoadFailed, ShellUnloadDone
<1>9. ASSUME Watched'
      PROVE  /\ DLModules_loc' \in Handles' /\ LoadsAreNew' /\ LoadsOnStack'
             /\ RecordsAreRight' /\ RecordHandles' = Due'
  <2>1. Watched /\ DLL_debug /\ DLModules_loc' = DLModules_loc /\ status' = "running"
    BY <1>1, <1>9, WatchedBefore
  <2>2. DLModules_loc \in Handles /\ LoadsAreNew /\ LoadsOnStack /\ RecordsAreRight /\ RecordHandles = Due
    BY <2>1 DEF DebugInv
  <2>3. LoadsAreNew' /\ LoadsOnStack'
    BY <1>1, <1>4, <1>5, NothingLoads
  <2>4. ASSUME ~Freed, UNCHANGED << debug_vars, completed >>
        PROVE  RecordsAreRight' /\ RecordHandles' = Due'
    <3>1. JustFreed = {}
      BY <2>4 DEF JustFreed
    <3> QED BY <1>1, <1>3, <1>6, <2>2, <2>4, <3>1, RecordsStay DEF debug_vars
  <2>5. CASE ShellLoadFailed
    <3>1. ~Freed /\ UNCHANGED << debug_vars, completed >>
      BY <2>5 DEF ShellLoadFailed, Freed
    <3> QED BY <1>3, <2>1, <2>2, <2>3, <2>4, <3>1
  <2>6. CASE ShellLoadDone
    <3>1. ret.of = "load" /\ ret.val # 0 /\ completed' = completed \cup {ret.val}
      BY <2>6 DEF ShellLoadDone
    <3>2. JustFreed = {}
      BY <3>1 DEF JustFreed, Freed
    <3>3. PICK a \in Address : AddTargetRecord(ret.val, a)
      <4>1. status' # "exited"
        BY <2>1
      <4> QED BY <2>1, <2>6, <4>1 DEF ShellLoadDone, Recording
    <3>4. RecordsAreRight' /\ RecordHandles' = Due'
      BY <1>1, <1>3, <1>5, <1>6, <2>1, <2>2, <3>1, <3>2, <3>3, RecordComes
    <3> QED BY <1>3, <2>1, <2>2, <2>3, <3>4
  <2>7. CASE ShellUnloadDone
    <3>1. completed' = completed /\ ret.of = "unload" /\ (ret.val = 1 <=> Freed)
      BY <1>1, <2>7 DEF ShellUnloadDone, Freed, CoreInv, Answer
    <3>2. CASE ret.val = 1
      <4>1. PICK h : h = prog_handle
        OBVIOUS
      <4>2. JustFreed = {h} /\ Unrecord(h)
        BY <1>2, <2>7, <3>1, <3>2, <4>1 DEF JustFreed, ShellUnloadDone
      <4>3. RecordsAreRight' /\ RecordHandles' = Due'
        BY <1>1, <1>2, <1>3, <1>4, <2>1, <2>2, <3>1, <4>2, RecordGoes
      <4> QED BY <1>3, <2>1, <2>2, <2>3, <4>3
    <3>3. CASE ret.val # 1
      <4>1. ~Freed /\ UNCHANGED << debug_vars, completed >>
        BY <2>7, <3>1, <3>3 DEF ShellUnloadDone
      <4> QED BY <1>3, <2>1, <2>2, <2>3, <2>4, <4>1
    <3> QED BY <3>2, <3>3
  <2> QED BY <1>2, <2>5, <2>6, <2>7
<1> QED BY <1>6, <1>7, <1>8, <1>9 DEF DebugInv

(* A load is asked for, and its host record pushed.                        *)
LEMMA DebugShellLoad ==
  ASSUME RidlInv, RidlInv', SessionCalls, DebugInv, NEW f \in File, ShellLoad(f)
  PROVE  DebugInv'
<1>1. CoreInv /\ CoreInv' /\ ListInv /\ ListInv' /\ completed \subseteq Handles /\ NoImageStep
  BY DEF RidlInv, DebugInv, NoImageStep
<1>2. /\ frames = << >> /\ ret = NoReturn /\ ret' = NoReturn
      /\ frames' = << Call("load", f, 0, "headers") >> /\ DOMAIN frames = {}
      /\ UNCHANGED << loaded, loaded_objects, completed >>
  BY DEF ShellLoad, AtPrompt, TopLoad, Idle, NoShellChange, shell_vars
<1>3. Handles' = Handles /\ Live' = Live /\ ImagesKept
  BY <1>2, SameImages DEF Handles, Live
<1>4. ~Freed /\ ~Freed' /\ ret.of # "load" /\ ret'.of # "load"
  BY <1>2 DEF Freed, NoReturn
<1>5. DOMAIN frames' = {1} /\ frames'[1].op = "load" /\ frames'[1].h = 0
  <2>1. Call("load", f, 0, "headers").op = "load" /\ Call("load", f, 0, "headers").h = 0
    BY DEF Call
  <2>2. PICK c : c = Call("load", f, 0, "headers")
    OBVIOUS
  <2>3. frames' = << c >>
    BY <1>2, <2>2
  <2>4. DOMAIN frames' = {1} /\ frames'[1] = c
    BY <2>3
  <2> QED BY <2>1, <2>2, <2>4
<1>6. UnloadsInMemory' /\ FreedIsGone' /\ JustFreed = {} /\ JustFreed' = {}
  BY <1>4, <1>5 DEF UnloadsInMemory, Unloading, FreedIsGone, JustFreed
<1>7. NoRecordsYet'
  BY <1>1, NoRecordsNext DEF DebugInv
<1>8. ASSUME Watched'
      PROVE  /\ DLModules_loc' \in Handles' /\ LoadsAreNew' /\ LoadsOnStack'
             /\ RecordsAreRight' /\ RecordHandles' = Due'
  <2>1. Watched /\ DLL_debug /\ DLModules_loc' = DLModules_loc /\ status' = "running"
    BY <1>1, <1>8, WatchedBefore
  <2>2. DLModules_loc \in Handles /\ RecordsAreRight /\ RecordHandles = Due
    BY <2>1 DEF DebugInv
  <2>3. AddHostRecord(f)
    BY <2>1 DEF ShellLoad, Recording
  <2>4. LoadsAreNew'
    BY <1>4, <1>5 DEF LoadsAreNew
  <2>5. LoadsOnStack'
    <3>1. PICK left \in Nat : left = Len(dl_debug_stk)
      BY <1>1, StackArray
    <3>2. Stacked(left)
      <4>1. Len(frames) = 0
        BY <1>2
      <4> QED BY <1>2, <3>1, <4>1 DEF Stacked
    <3>3. Pushed(Call("load", f, 0, "headers"))
      <4>1. Call("load", f, 0, "headers") \in Frame
        BY DEF Call, Frame
      <4>2. frames' = Append(frames, Call("load", f, 0, "headers"))
        BY <1>2
      <4> QED BY <1>1, <4>1, <4>2, PushFrame
    <3>4. HostRecord(f) \in HostRecords
      BY EmptySeq, RidlAssumption DEF HostRecord, HostRecords
    <3> QED BY <1>1, <1>2, <2>3, <3>2, <3>3, <3>4, StackCalls
  <2>6. UNCHANGED << mirror_debug_list, first_module_ptr, segments, DLModules_loc, completed >>
    BY <1>2, <2>3 DEF AddHostRecord
  <2>7. RecordsAreRight' /\ RecordHandles' = Due'
    BY <1>1, <1>3, <1>6, <2>2, <2>6, RecordsStay
  <2> QED BY <1>3, <2>1, <2>2, <2>4, <2>5, <2>7
<1> QED BY <1>1, <1>2, <1>3, <1>6, <1>7, <1>8 DEF DebugInv

(* The unload of the shell's program begins, or finds nothing to unload.    *)
LEMMA DebugShellUnload ==
  ASSUME RidlInv, RidlInv', SessionCalls, DebugInv, ShellUnload
  PROVE  DebugInv'
<1>1. CoreInv /\ CoreInv' /\ ListInv /\ ListInv' /\ completed \subseteq Handles /\ NoImageStep
  BY DEF RidlInv, DebugInv, NoImageStep
<1>2. /\ Unloading' /\ Live' = Live /\ Handles' = Handles
      /\ \/ frames' = << >> /\ ret' = [of |-> "unload", val |-> 0]
         \/ /\ Len(frames') = 1 /\ DOMAIN frames' = {1} /\ frames'[1].h = prog_handle
            /\ frames'[1].op = "unload" /\ ret' = NoReturn /\ prog_handle \in Live
  BY <1>1, ShellUnloadCalls
<1>3. ret = NoReturn /\ UNCHANGED << debug_vars, completed >>
  BY DEF ShellUnload, AtPrompt, shell_vars
<1>4. ~Freed /\ ~Freed' /\ ret'.of # "load"
  BY <1>2, <1>3 DEF Freed, NoReturn
<1>5. UnloadsInMemory'
  BY <1>2 DEF UnloadsInMemory
<1>6. FreedIsGone' /\ JustFreed = {} /\ JustFreed' = {}
  BY <1>4 DEF FreedIsGone, JustFreed
<1>7. NoRecordsYet' /\ ImagesKept
  BY <1>1, NoRecordsNext, StepKeepsImages DEF DebugInv
<1>8. ASSUME Watched'
      PROVE  /\ DLModules_loc' \in Handles' /\ LoadsAreNew' /\ LoadsOnStack'
             /\ RecordsAreRight' /\ RecordHandles' = Due'
  <2>1. Watched /\ DLModules_loc' = DLModules_loc
    BY <1>1, <1>8, WatchedBefore
  <2>2. DLModules_loc \in Handles /\ RecordsAreRight /\ RecordHandles = Due
    BY <2>1 DEF DebugInv
  <2>3. LoadsAreNew' /\ LoadsOnStack'
    BY <1>1, <1>2, <1>4, NothingLoads
  <2>4. RecordsAreRight' /\ RecordHandles' = Due'
    BY <1>1, <1>2, <1>3, <1>6, <1>7, <2>2, RecordsStay DEF debug_vars
  <2> QED BY <1>2, <2>1, <2>2, <2>3, <2>4
<1> QED BY <1>1, <1>2, <1>3, <1>5, <1>6, <1>7, <1>8 DEF DebugInv

-----------------------------------------------------------------------------
(* A base image: the records start with the first one, and there is no     *)
(* other.                                                                  *)
LEMMA DebugImage ==
  ASSUME RidlInv, RidlInv', SessionCalls, DebugInv, NEW f \in File, BaseImage(f)
  PROVE  DebugInv'
<1>1. CoreInv /\ CoreInv' /\ ListInv /\ ListInv' /\ completed \subseteq Handles
  BY DEF RidlInv, DebugInv
<1>2. /\ frames = << >> /\ ret = NoReturn /\ UNCHANGED << frames, ret, completed >>
      /\ DOMAIN frames' = {}
  BY DEF BaseImage, AtPrompt, LoadSymbols, Idle
<1>3. ~Freed' /\ ret'.of # "load" /\ Unloading'
  BY <1>2 DEF Freed, NoReturn, Unloading
<1>4. UnloadsInMemory' /\ FreedIsGone' /\ JustFreed' = {}
  BY <1>2, <1>3 DEF UnloadsInMemory, FreedIsGone, JustFreed
<1>5. NoRecordsYet'
  BY <1>1, NoRecordsNext DEF DebugInv
<1>6. LoadsAreNew' /\ LoadsOnStack'
  BY <1>1, <1>3, NothingLoads
<1>7. CASE InProcessOfLoading(f)
  <2>1. UNCHANGED loaded /\ DLL_debug' = FALSE
    BY <1>7 DEF BaseImage, LoadSymbols, FindDLModules
  <2>2. Handles' = Handles /\ ~Watched'
    BY <2>1 DEF Handles, Watched, KeptThroughout
  <2> QED BY <1>1, <1>2, <1>4, <1>5, <2>2 DEF DebugInv
<1>8. CASE ~InProcessOfLoading(f)
  <2>1. PICK k : k = NewHandle
    OBVIOUS
  <2>2. Enqueue(f, TRUE)
    BY <1>8 DEF BaseImage, LoadSymbols
  <2>3. /\ Handles' = Handles \cup {k} /\ k \notin Handles /\ k # 0
        /\ \A m \in Handles : loaded'[m].base = loaded[m].base
        /\ loaded'[k].base = TRUE
    BY <1>1, <2>1, <2>2, AlonePlaced DEF SessionCalls, ControlInv
  <2>4. Handles = 1 .. Len(loaded) /\ Len(loaded) \in Nat /\ k = Len(loaded) + 1
    BY <1>1, <2>1, CallArray DEF NewHandle
  <2>5. ASSUME Watched'
        PROVE  DLModules_loc' \in Handles' /\ RecordsAreRight' /\ RecordHandles' = Due'
    <3>1. DLL_debug' /\ Cardinality(BaseImages') = 1
      BY <2>5 DEF Watched, KeptThroughout
    <3>2. /\ DLModules_loc' = k
          /\ UNCHANGED << mirror_debug_list, first_module_ptr >>
      BY <1>8, <2>1, <3>1 DEF BaseImage, FindDLModules
    <3>3. IsFiniteSet(BaseImages')
      <4>1. Handles' = 1 .. Len(loaded') /\ Len(loaded') \in Nat
        BY <1>1 DEF Handles, CoreInv
      <4>2. IsFiniteSet(Handles') /\ BaseImages' \in SUBSET Handles'
        BY <4>1, FS_Interval DEF BaseImages
      <4> QED BY <4>2, FS_Subset
    <3>4. BaseImages' = BaseImages \cup {k}
      BY <2>3 DEF BaseImages
    <3>5. BaseImages = {}
      <4>1. k \notin BaseImages
        BY <2>3 DEF BaseImages
      <4>2. \E x : BaseImages' = {x}
        BY <3>1, <3>3, FS_Singleton
      <4> QED BY <3>4, <4>1, <4>2
    <3>6. Mirror = << >> /\ \A l \in Header : first_module_ptr[l] = NULL
      BY <3>5 DEF DebugInv, NoRecordsYet
    <3>7. k \in Header
      BY <1>1, <3>1, <3>2 DEF ListInv, ListTypeOK
    <3>8. Mirror' = << >> /\ DOMAIN Mirror' = {} /\ first_module_ptr'[k] = NULL
      BY <3>2, <3>6, <3>7 DEF Mirror
    <3>9. RecordsAreRight' /\ RecordHandles' = {}
      BY <3>2, <3>8 DEF RecordsAreRight, RecordHandles
    <3>10. \A m \in completed' : ~(m > DLModules_loc')
      BY <1>1, <1>2, <2>4, <3>2
    <3>11. Due' = {}
      BY <3>10 DEF Due, NewerThanBase
    <3> QED BY <2>3, <3>2, <3>9, <3>11
  <2> QED BY <1>1, <1>2, <1>4, <1>5, <1>6, <2>3, <2>5 DEF DebugInv
<1> QED BY <1>7, <1>8

(* A step that changes neither the modules nor the list.                   *)
LEMMA DebugUnmoved ==
  ASSUME DebugInv, UNCHANGED << vars, debug_vars, prog_handle, completed >>, Watched' => Watched
  PROVE  DebugInv'
<1>1. UNCHANGED << loaded, loaded_objects, frames, ret >>
  BY DEF vars
<1>2. UNCHANGED << DLL_debug, DLModules_loc, dl_debug_stk, mirror_debug_list, first_module_ptr,
                   segments >>
  BY DEF debug_vars
<1>3. Handles' = Handles /\ Live' = Live /\ BaseImages' = BaseImages
  BY <1>1 DEF Handles, Live, BaseImages
<1>4. Mirror' = Mirror /\ \A i : AddressOf(i)' = AddressOf(i)
  BY <1>2 DEF Mirror, AddressOf
<1>5. completed' \subseteq Handles'
  BY <1>3 DEF DebugInv
<1>6. NoRecordsYet'
  BY <1>2, <1>3, <1>4 DEF DebugInv, NoRecordsYet
<1>7. UnloadsInMemory'
  BY <1>1, <1>3 DEF DebugInv, UnloadsInMemory, Unloading
<1>8. JustFreed' = JustFreed
  BY <1>1 DEF JustFreed, Freed, Unloaded, Me
<1>9. FreedIsGone'
  BY <1>3, <1>8 DEF DebugInv, FreedIsGone
<1>10. ASSUME Watched'
       PROVE  /\ DLModules_loc' \in Handles' /\ LoadsAreNew' /\ LoadsOnStack'
              /\ RecordsAreRight' /\ RecordHandles' = Due'
  <2>1. DLModules_loc \in Handles /\ LoadsAreNew /\ LoadsOnStack /\ RecordsAreRight /\ RecordHandles = Due
    BY <1>10 DEF DebugInv
  <2>2. LoadsAreNew'
    BY <1>1, <1>2, <1>3, <2>1 DEF LoadsAreNew, NewlyLoaded
  <2>3. LoadsOnStack'
    BY <1>1, <1>2, <2>1 DEF LoadsOnStack, Loading, FailedLoad, RecordOfLoad
  <2>4. RecordsAreRight' /\ RecordHandles' = RecordHandles
    <3>1. FilesStay(RecordHandles)
      BY <1>1 DEF FilesStay
    <3> QED BY <1>2, <2>1, <3>1, RecordsLeftAlone
  <2>5. Due' = Due
    BY <1>2, <1>3, <1>8 DEF Due, NewerThanBase
  <2> QED BY <1>2, <1>3, <2>1, <2>2, <2>3, <2>4, <2>5
<1> QED BY <1>5, <1>6, <1>7, <1>9, <1>10 DEF DebugInv

(* The other commands.                                                     *)
LEMMA DebugOther ==
  ASSUME RidlInv, RidlInv', SessionCalls, DebugInv, ShellLoadNotFound \/ BaseImageRejected \/ Leave
  PROVE  DebugInv'
<1>1. CoreInv /\ CoreInv' /\ completed \subseteq Handles
  BY DEF RidlInv, DebugInv
<1>2. CASE ShellLoadNotFound \/ Leave
  <2>1. UNCHANGED << vars, debug_vars, prog_handle, completed >>
    BY <1>2 DEF ShellLoadNotFound, Leave
  <2>2. Watched' => Watched
    BY <1>1, <1>2, WatchedBefore DEF NoImageStep
  <2> QED BY <2>1, <2>2, DebugUnmoved
<1>3. CASE BaseImageRejected
  <2>1. /\ ret = NoReturn /\ UNCHANGED << frames, ret, loaded, loaded_objects, completed >>
        /\ DLL_debug' = FALSE
    BY <1>3 DEF BaseImageRejected, AtPrompt, FindDLModules, vars
  <2>2. ~Freed' /\ ~Watched'
    BY <2>1 DEF Freed, NoReturn, Watched, KeptThroughout
  <2>3. Handles' = Handles /\ Live' = Live
    BY <2>1 DEF Handles, Live
  <2>4. UnloadsInMemory'
    BY <2>1, <2>3 DEF DebugInv, UnloadsInMemory, Unloading
  <2>5. FreedIsGone'
    BY <2>2 DEF FreedIsGone, JustFreed
  <2>6. NoRecordsYet'
    BY <1>1, <1>3, NoRecordsNext DEF DebugInv
  <2> QED BY <1>1, <2>1, <2>2, <2>3, <2>4, <2>5, <2>6 DEF DebugInv
<1> QED BY <1>2, <1>3

(* Every step of a session.                                                *)
LEMMA DebugNext ==
  /\ RidlInv /\ RidlInv' /\ SessionCalls /\ SessionCalls' /\ RecordInv /\ DebugInv
  /\ [RidlNext]_ridl_vars
  => DebugInv'
<1> SUFFICES ASSUME RidlInv, RidlInv', SessionCalls, SessionCalls', RecordInv, DebugInv,
                    [RidlNext]_ridl_vars
             PROVE  DebugInv'
  OBVIOUS
<1>1. CASE CoreStep
  BY <1>1, DebugLoading, DebugUnloading
<1>2. CASE ShellReturned
  BY <1>2, DebugReturned
<1>3. CASE Command
  BY <1>3, DebugShellLoad, DebugImage, DebugShellUnload, DebugOther DEF Command
<1>4. CASE UNCHANGED ridl_vars
  <2>1. UNCHANGED << vars, debug_vars, prog_handle, completed, status >>
    BY <1>4 DEF ridl_vars, shell_vars
  <2>2. UNCHANGED << loaded, ret, DLL_debug >>
    BY <2>1 DEF vars, debug_vars
  <2>3. Watched' => Watched
    BY <2>1, <2>2 DEF Watched, KeptThroughout, BaseImages, Handles
  <2> QED BY <2>1, <2>3, DebugUnmoved
<1> QED BY <1>1, <1>2, <1>3, <1>4 DEF RidlNext

(* In the beginning there are neither modules nor records.                 *)
LEMMA DebugInit == RidlInit => DebugInv
<1> SUFFICES ASSUME RidlInit PROVE DebugInv
  OBVIOUS
<1>1. /\ completed = {} /\ frames = << >> /\ ret = NoReturn /\ DLL_debug = FALSE
      /\ mirror_debug_list = << >> /\ first_module_ptr = [l \in Header |-> NULL]
  BY DEF RidlInit, Init, ListInit
<1>2. NoRecordsYet
  BY <1>1 DEF NoRecordsYet, Mirror
<1>3. DOMAIN frames = {}
  BY <1>1
<1>4. UnloadsInMemory
  BY <1>3 DEF UnloadsInMemory
<1>5. FreedIsGone
  BY <1>1 DEF FreedIsGone, JustFreed, Freed, NoReturn
<1>6. ~Watched
  BY <1>1 DEF Watched, KeptThroughout
<1> QED BY <1>1, <1>2, <1>4, <1>5, <1>6 DEF DebugInv

(* In every session, whichever loads fail, whatever is unloaded and in      *)
(* whatever order, a debugger that stops the target while the shell is at   *)
(* its prompt first meets the records of exactly the modules in memory      *)
(* whose load succeeded, each once.                                        *)
THEOREM DebuggerSees == RidlSpec => []DebuggerSeesModules
<1>1. RidlInv /\ DebugInv => DebuggerSeesModules
  <2> SUFFICES ASSUME RidlInv, DebugInv, AtPrompt, KeptThroughout
               PROVE  /\ first_module_ptr[DLModules_loc] = NULL <=> Debuggable = {}
                      /\ Met(Cardinality(Debuggable)) = {RecordOf(m) : m \in Debuggable}
    BY DEF DebuggerSeesModules
  <2>1. Watched /\ ~Freed
    BY DEF AtPrompt, NoReturn, Watched, Freed
  <2>2. ListInv /\ RecordsAreRight /\ RecordHandles = Due
    BY <2>1 DEF RidlInv, DebugInv
  <2>3. Debuggable = RecordHandles
    BY <2>1, <2>2 DEF Due, JustFreed, Debuggable
  <2>4. Mirror = << >> <=> RecordHandles = {}
    <3>1. Mirror = << >> <=> Len(Mirror) = 0
      BY <2>2, MirrorEntries, EmptySeq DEF ListInv
    <3>2. Len(Mirror) \in Nat /\ DOMAIN Mirror = 1 .. Len(Mirror)
      BY <2>2, MirrorEntries DEF ListInv
    <3>3. Len(Mirror) = 0 <=> DOMAIN Mirror = {}
      BY <3>2
    <3> QED BY <3>1, <3>3 DEF RecordHandles
  <2>5. Met(Cardinality(Debuggable)) = {RecordOf(m) : m \in Debuggable}
    BY <2>2, <2>3, MetInOrder, AsManyRecords
  <2> QED BY <2>2, <2>3, <2>4, <2>5, HeaderNull
<1> QED
  BY RidlInitInv, RidlNextInv, SessionCallsInit, SessionCallsNext, RecordInit, RecordNext,
     DebugInit, DebugNext, <1>1, PTL
     DEF RidlSpec
=============================================================================
