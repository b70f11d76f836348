------------------------------- MODULE DebugList -------------------------------
(***************************************************************************)
(* The list of module debug records the client keeps in target memory for  *)
(* the DLL View plug-in of the debugger (DLWRAPPER/dlw_debug.c).  A host    *)
(* record is pushed on a context stack before a module is loaded, collects *)
(* the module's segments, and is popped into target memory after the load. *)
(* The target records are linked through target addresses from a header in *)
(* the base image; the host keeps a mirror of the list to relink it.       *)
(*                                                                         *)
(* Names, segments and handles come from the caller.  An address stands    *)
(* for the target memory of one record, so two records never overlap; what *)
(* was written there before is still there when it is given out again.      *)
(***************************************************************************)
EXTENDS Integers, SequencesExt, FiniteSetsExt

CONSTANTS
  ModuleName,  (* the names modules are loaded by                          *)
  Address,     (* where target memory has room for a record                *)
  Header       (* where a base image may have its list header              *)

ASSUME DebugListAssumption == 0 \notin Address /\ Header \subseteq Nat

VARIABLES
  DLL_debug,          (* records are kept: a base image has _DLModules     *)
  DLModules_loc,      (* which header: the value of that symbol, or 0      *)
  dl_debug_stk,       (* host records of the loads under way, bottom first *)
  mirror_debug_list,  (* host records of the list, front first             *)
  first_module_ptr,   (* target: by header, the address of the first record *)
  next_module_ptr,    (* target: by record, the address of the next one    *)
  segments            (* target: by record, the name and the segments      *)

debug_vars == << DLL_debug, DLModules_loc, dl_debug_stk, mirror_debug_list,
                 first_module_ptr, next_module_ptr, segments >>

NULL == 0
Nothing == << >>

ListInit ==
  /\ DLL_debug = FALSE
  /\ DLModules_loc = 0
  /\ dl_debug_stk = << >>
  /\ mirror_debug_list = << >>
  /\ first_module_ptr = [l \in Header |-> NULL]
  /\ next_module_ptr = [a \in Address |-> NULL]
  /\ segments = [a \in Address |-> Nothing]

-----------------------------------------------------------------------------
FindDLModules_Always(found, loc) ==
  /\ DLL_debug' = TRUE
  /\ DLModules_loc' = IF found THEN loc ELSE DLModules_loc
  /\ UNCHANGED << dl_debug_stk, mirror_debug_list, first_module_ptr,
                  next_module_ptr, segments >>

(* The base_image command: does the image define _DLModules, and where.    *)
FindDLModules(found, loc) ==
  /\ DLL_debug' = found
  /\ DLModules_loc' = IF found THEN loc ELSE DLModules_loc
  /\ UNCHANGED << dl_debug_stk, mirror_debug_list, first_module_ptr,
                  next_module_ptr, segments >>

HostRecord(name) == [module_name |-> name, segs |-> << >>]

(* DLDBG_add_host_record *)
AddHostRecord(name) ==
  /\ dl_debug_stk' = Append(dl_debug_stk, HostRecord(name))
  /\ UNCHANGED << DLL_debug, DLModules_loc, mirror_debug_list, first_module_ptr,
                  next_module_ptr, segments >>

TopOfStack_Bottom == 1

TopOfStack == Len(dl_debug_stk)

(* DLDBG_add_segment_record, for a segment of the module under load. *)
AddSegmentRecord(seg) ==
  /\ dl_debug_stk # << >>
  /\ dl_debug_stk' = [dl_debug_stk EXCEPT ![TopOfStack].segs = Append(@, seg)]
  /\ UNCHANGED << DLL_debug, DLModules_loc, mirror_debug_list, first_module_ptr,
                  next_module_ptr, segments >>

AddressOf(i) == mirror_debug_list[i].target_address
InUse == {AddressOf(i) : i \in DOMAIN mirror_debug_list}
Free  == Address \ InUse

(* The mirror of the record at the end of the list gets its next pointer.  *)
LinkLast(a) ==
  IF mirror_debug_list = << >> THEN << >>
  ELSE [mirror_debug_list EXCEPT ![Len(mirror_debug_list)].next = a]

(* DLDBG_add_target_record: pop, write the record at a, and link it behind  *)
(* the last one.  Its own next pointer in target memory is not written.    *)
AddTargetRecord(handle, a) ==
  /\ dl_debug_stk # << >>
  /\ a \in Free
  /\ LET host == Last(dl_debug_stk)
     IN  /\ dl_debug_stk' = Front(dl_debug_stk)
         /\ segments' = [segments EXCEPT ![a] = << host.module_name, host.segs >>]
         /\ mirror_debug_list' =
              Append(LinkLast(a),
                     [handle |-> handle, module_name |-> host.module_name,
                      target_address |-> a, next |-> NULL])
  /\ IF mirror_debug_list = << >>
       THEN /\ first_module_ptr' = [first_module_ptr EXCEPT ![DLModules_loc] = a]
            /\ UNCHANGED next_module_ptr
       ELSE /\ next_module_ptr' =
                 [next_module_ptr EXCEPT ![AddressOf(Len(mirror_debug_list))] = a]
            /\ UNCHANGED first_module_ptr
  /\ UNCHANGED << DLL_debug, DLModules_loc >>

(* The position of the record DLDBG_rm_target_record takes off, 0 if none: *)
(* handle 1 is taken for the base image, which has no record.              *)
Position(handle) ==
  LET found == {i \in DOMAIN mirror_debug_list : mirror_debug_list[i].handle = handle}
  IN  IF handle <= 1 \/ found = {} THEN 0 ELSE Min(found)

(* The value of the front is read before the list is known to have one:    *)
(* the program may end here, or not, when the compiler drops the dead read. *)
ReadsNull == mirror_debug_list = << >>

Unlink_Target(i) == mirror_debug_list

(* The mirror with the record before i linked to the one after i.          *)
Unlink(i) ==
  IF i = 1 THEN mirror_debug_list
  ELSE [mirror_debug_list EXCEPT ![i - 1].next = mirror_debug_list[i].next]

RemoveRecord_AndRest(i) == SubSeq(mirror_debug_list, 1, i - 1)

RemoveRecord(i) == RemoveAt(Unlink(i), i)

(* The walk over the list does not stop at its end.                        *)
RmNothing_NoEnd(handle) ==
  /\ handle <= 1 \/ mirror_debug_list = << >>
  /\ UNCHANGED debug_vars

(* DLDBG_rm_target_record: nothing to do, or unlink the record, in target  *)
(* memory and in the mirror, and free it.                                  *)
RmNothing(handle) ==
  /\ Position(handle) = 0
  /\ UNCHANGED debug_vars

RmTargetRecord(handle) ==
  /\ Position(handle) # 0
  /\ LET i == Position(handle)
         next == mirror_debug_list[i].next
     IN  /\ IF i = 1
              THEN /\ first_module_ptr' = [first_module_ptr EXCEPT ![DLModules_loc] = next]
                   /\ UNCHANGED next_module_ptr
              ELSE /\ next_module_ptr' = [next_module_ptr EXCEPT ![AddressOf(i - 1)] = next]
                   /\ UNCHANGED first_module_ptr
         /\ mirror_debug_list' = RemoveRecord(i)
  /\ UNCHANGED << DLL_debug, DLModules_loc, dl_debug_stk, segments >>

-----------------------------------------------------------------------------
ListNext ==
  \/ \E found \in BOOLEAN, loc \in Header : FindDLModules(found, loc)
  \/ \E name \in ModuleName : AddHostRecord(name)
  \/ \E seg \in Nat : AddSegmentRecord(seg)
  \/ \E handle \in Nat, a \in Address : DLL_debug /\ AddTargetRecord(handle, a)
  \/ \E handle \in Nat : DLL_debug /\ (RmTargetRecord(handle) \/ RmNothing(handle))

ListSpec == ListInit /\ [][ListNext]_debug_vars

-----------------------------------------------------------------------------
MirrorRecord ==
  [handle : Nat, module_name : ModuleName, target_address : Address,
   next : Address \cup {NULL}]

ListTypeOK ==
  /\ DLL_debug \in BOOLEAN
  /\ DLModules_loc \in Header \cup {0}
  /\ DLL_debug => DLModules_loc \in Header
  /\ dl_debug_stk \in Seq([module_name : ModuleName, segs : Seq(Nat)])
  /\ mirror_debug_list \in Seq(MirrorRecord)
  /\ first_module_ptr \in [Header -> Address \cup {NULL}]
  /\ next_module_ptr \in [Address -> Address \cup {NULL}]
  /\ segments \in [Address -> {Nothing} \cup (ModuleName \X Seq(Nat))]

(* No two records share target memory, and every record but the last leads, *)
(* in target memory as in the mirror, to the record after it: whatever was  *)
(* removed from the middle, the debugger loses no record that follows.      *)
LinkedInOrder ==
  /\ \A i, j \in DOMAIN mirror_debug_list : AddressOf(i) = AddressOf(j) => i = j
  /\ \A i \in DOMAIN mirror_debug_list :
        IF i = Len(mirror_debug_list) THEN mirror_debug_list[i].next = NULL
        ELSE /\ mirror_debug_list[i].next = AddressOf(i + 1)
             /\ next_module_ptr[AddressOf(i)] = AddressOf(i + 1)

(* The mirror is a copy of the records in target memory, the end of the    *)
(* list included: the debugger that follows the pointers stops there.      *)
MirrorIsCopy ==
  \A i \in DOMAIN mirror_debug_list :
     next_module_ptr[AddressOf(i)] = mirror_debug_list[i].next
=============================================================================
