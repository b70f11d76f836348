--------------------------------- MODULE Ridl ---------------------------------
(***************************************************************************)
(* The loader shell (DLWRAPPER/dlw.c) over the loader core (Dload) and the *)
(* debug list (DebugList), with the client callbacks of dlw_client.c: the   *)
(* commands load, unload and base_image, from a script or by hand, and what *)
(* the client does around every nested load and unload.                    *)
(*                                                                         *)
(* The shell remembers one handle: that of its last load or base image.    *)
(* Dload's variable client keeps every handle that was given to the shell  *)
(* and not given up by it since, also those it has forgotten.              *)
(***************************************************************************)
EXTENDS Dload, DebugList

CONSTANTS
  WithDLModules, (* the files that define _DLModules                       *)
  StackBound     (* bound: no new load over so many host records           *)

ASSUME RidlAssumption ==
  /\ WithDLModules \subseteq File
  /\ StackBound \in Nat
  /\ File \subseteq ModuleName
  /\ 1 .. HandleBound \subseteq Header

VARIABLES
  script,         (* commands come from a script, not from the keyboard    *)
  prog_handle,    (* the handle of the last load or base image, or 0       *)
  loaded_program, (* the module whose entry point "execute" calls, or 0    *)
  status,         (* "running", "exited" or "crashed"                      *)
  completed       (* history: the handles DLOAD_load has answered so far   *)

shell_vars == << script, prog_handle, loaded_program, status, completed >>
ridl_vars == << vars, debug_vars, shell_vars >>

RidlInit ==
  /\ Init
  /\ ListInit
  /\ script \in BOOLEAN
  /\ prog_handle = 0
  /\ loaded_program = 0
  /\ status = "running"
  /\ completed = {}

AtPrompt == Idle /\ ret = NoReturn /\ status = "running"

(* What the client adds to a step of the core, when records are kept.      *)
Recording(Step) == IF DLL_debug THEN Step ELSE UNCHANGED debug_vars

NoShellChange == UNCHANGED shell_vars

-----------------------------------------------------------------------------
(* Commands.                                                               *)

(* load: the file is opened, a host record is pushed, the core is called.  *)
ShellLoad(file) ==
  /\ AtPrompt
  /\ Len(dl_debug_stk) < StackBound
  /\ TopLoad(file)
  /\ Recording(AddHostRecord(file))
  /\ NoShellChange

(* load, and the file cannot be opened: prog_handle is still the old one.  *)
ShellLoadNotFound ==
  /\ AtPrompt
  /\ "open" \in Faults
  /\ status' = IF script /\ prog_handle = 0 THEN "exited" ELSE status
  /\ UNCHANGED << vars, debug_vars, script, prog_handle, loaded_program, completed >>

EndIfScriptFailed(handle) ==
  status' = IF script /\ handle = 0 THEN "exited" ELSE status

(* Records share target memory with the segments of the modules.           *)
NoRoomForRecord == DLL_debug /\ (Free = {} \/ "allocate" \in Faults)

(* load_executable after the call: the record, the entry point; a script   *)
(* ends here when the load failed.                                         *)
ShellLoadFailed ==
  /\ ret = [of |-> "load", val |-> 0]
  /\ prog_handle' = 0
  /\ EndIfScriptFailed(0)
  /\ UNCHANGED << debug_vars, script, loaded_program, completed >>

ShellLoadDone ==
  /\ ret.of = "load" /\ ret.val # 0
  /\ prog_handle' = ret.val
  /\ completed' = completed \cup {ret.val}
  /\ \/ /\ Recording(\E a \in Address : AddTargetRecord(ret.val, a))
        /\ loaded_program' = ret.val
        /\ UNCHANGED << script, status >>
     \/ /\ NoRoomForRecord
        /\ status' = "exited"
        /\ UNCHANGED << debug_vars, script, loaded_program >>

(* What DLDBG_rm_target_record does to the program.                        *)
Unrecord(handle) ==
  \/ /\ Recording(RmTargetRecord(handle) \/ RmNothing(handle))
     /\ UNCHANGED status
  \/ /\ DLL_debug /\ ReadsNull
     /\ status' = "crashed"
     /\ UNCHANGED debug_vars

ProgramAfterUnload_Kept == loaded_program

ProgramAfterUnload == 0

(* unload: DLOAD_unload(prog_handle), whichever handle that is by now.     *)
ShellUnload ==
  /\ AtPrompt
  /\ client' = client \ {prog_handle}
  /\ EnterUnload(prog_handle, << >>)
  /\ UNCHANGED << disk, loaded_objects, dependency_list, dependency_stack, init_order >>
  /\ UNCHANGED << debug_vars, shell_vars >>

ShellUnloadDone ==
  /\ ret.of = "unload"
  /\ IF ret.val = 1 THEN Unrecord(prog_handle) ELSE UNCHANGED << debug_vars, status >>
  /\ loaded_program' = ProgramAfterUnload
  /\ UNCHANGED << script, prog_handle, completed >>

ShellReturned ==
  /\ status = "running"
  /\ TopReturned
  /\ UNCHANGED disk
  /\ ShellLoadFailed \/ ShellLoadDone \/ ShellUnloadDone

(* base_image: prog_handle is overwritten; records are kept from now on if *)
(* and only if this image defines _DLModules.                              *)
BaseImage(file) ==
  /\ AtPrompt
  /\ LoadSymbols(file)
  /\ LET handle == IF InProcessOfLoading(file) THEN 0 ELSE NewHandle
     IN  /\ prog_handle' = handle
         /\ FindDLModules(handle # 0 /\ file \in WithDLModules, handle)
         /\ EndIfScriptFailed(handle)
  /\ UNCHANGED << disk, script, loaded_program, completed >>

(* base_image with a file the core rejects.                                *)
BaseImageRejected ==
  /\ AtPrompt
  /\ "headers" \in Faults
  /\ prog_handle' = 0
  /\ FindDLModules(FALSE, 0)
  /\ EndIfScriptFailed(0)
  /\ UNCHANGED << vars, script, loaded_program, completed >>

-----------------------------------------------------------------------------
(* The core at work, and its calls of the client.                          *)

(* DLIF_allocate adds each segment to the record on the top of the stack.  *)
Placing ==
  \/ PlaceModule /\ Recording(AddSegmentRecord(NewHandle))
  \/ FailAllocation /\ (Recording(AddSegmentRecord(NewHandle)) \/ UNCHANGED debug_vars)

(* DLIF_load_dependent before and after its call of DLOAD_load.            *)
NestedLoad ==
  /\ LoadDependent
  /\ Recording(AddHostRecord(Needed(Me.file)[Me.next]))

NestedLoadReturned ==
  /\ DependentReturned
  /\ completed' = completed \cup ({ret.val} \ {0})
  /\ \/ /\ IF ret.val = 0 THEN UNCHANGED debug_vars
           ELSE Recording(\E a \in Address : AddTargetRecord(ret.val, a))
        /\ UNCHANGED status
     \/ /\ ret.val # 0 /\ NoRoomForRecord
        /\ status' = "exited"
        /\ UNCHANGED debug_vars

(* The handle the client was asked to unload. *)
Unloaded == loaded[Me.h].deps[Me.next - 1]

(* DLIF_unload_dependent after its call of DLOAD_unload.                   *)
NestedUnloadReturned ==
  /\ DependentUnloaded
  /\ IF ret.val = 1 THEN Unrecord(Unloaded) ELSE UNCHANGED << debug_vars, status >>
  /\ UNCHANGED completed

CoreAlone ==
  /\ \/ RejectFile \/ RejectCircular \/ NeededIsLoaded \/ DependentNotFound
     \/ NeededDone \/ Relocate \/ RelocateDone
     \/ UnloadDependent \/ UnloadDone \/ AbortOnDoubleFree
  /\ UNCHANGED debug_vars

CoreStep ==
  /\ status = "running"
  /\ UNCHANGED << disk, script, prog_handle, loaded_program >>
  /\ \/ (CoreAlone \/ Placing \/ NestedLoad) /\ UNCHANGED << status, completed >>
     \/ NestedLoadReturned
     \/ NestedUnloadReturned

(* exit, or the end of the script.                                         *)
Leave ==
  /\ AtPrompt
  /\ status' = "exited"
  /\ UNCHANGED << vars, debug_vars, script, prog_handle, loaded_program, completed >>

Command ==
  \/ \E file \in File : ShellLoad(file) /\ UNCHANGED disk
  \/ \E file \in File : BaseImage(file)
  \/ ShellLoadNotFound \/ BaseImageRejected \/ ShellUnload \/ Leave

RidlNext == CoreStep \/ ShellReturned \/ Command

RidlSpec == RidlInit /\ [][RidlNext]_ridl_vars /\ WF_ridl_vars(CoreStep \/ ShellReturned)
-----------------------------------------------------------------------------
(* What the properties speak of.                                           *)

(* execute calls the entry point it remembers, if it remembers one.        *)
CanExecute == AtPrompt /\ loaded_program # 0

BaseImages == {m \in Handles : loaded[m].base}

(* Records were kept from the first load after the one base image on.      *)
KeptThroughout == DLL_debug /\ Cardinality(BaseImages) = 1

NewerThanBase == {m \in Handles : m > DLModules_loc}

(* The modules whose load has succeeded and that are still there.          *)
Debuggable == completed \cap Live \cap NewerThanBase

(* The first n records a debugger meets that follows the pointers in target *)
(* memory from the header on.                                              *)
Met(n) ==
  LET at[i \in 1 .. n] ==
        IF i = 1 THEN first_module_ptr[DLModules_loc]
        ELSE IF at[i - 1] = NULL THEN NULL ELSE next_module_ptr[at[i - 1]]
  IN  {segments[at[i]] : i \in {j \in 1 .. n : at[j] # NULL}}

RecordOf(m) == << loaded[m].file, << m >> >>

RidlTypeOK ==
  /\ TypeOK
  /\ ListTypeOK
  /\ script \in BOOLEAN
  /\ prog_handle \in Handles \cup {0}
  /\ loaded_program \in Handles \cup {0}
  /\ status \in {"running", "exited", "crashed"}

(* At the prompt, with n modules in memory whose load succeeded, the first  *)
(* n records a debugger meets are those of these modules, each once, with   *)
(* the right name and the right segments, and it is told when there is      *)
(* none, whichever loads failed and left their host records on the context *)
(* stack.  Target memory holds no count of the records: what the last one  *)
(* leads to is for MirrorIsCopy to say.                                    *)
DebuggerSeesModules ==
  AtPrompt /\ KeptThroughout =>
    /\ first_module_ptr[DLModules_loc] = NULL <=> Debuggable = {}
    /\ Met(Cardinality(Debuggable)) = {RecordOf(m) : m \in Debuggable}

(* The entry point "execute" would call is that of a module that is still  *)
(* in memory and was not terminated, also after an unload of another one.  *)
ExecutedIsInMemory ==
  CanExecute =>
    loaded_program \in Live /\ ~Terminated(loaded_program)

(* The orders of the files in which each comes after every file that may be *)
(* found for a name on its list: the one with that name and, once it is in  *)
(* memory, any that carries it as DT_SONAME.                               *)
NameRanks ==
  {rank \in [File -> 1 .. Cardinality(File)] :
     \A f, g \in File :
        g \in ToSet(Needed(f)) \/ SoName(g) \in ToSet(Needed(f)) => rank[g] < rank[f]}

AcyclicByName == NameRanks # {}

(* The shell can give up a handle it gave up before: with no circle among   *)
(* the files, by either of their names, that takes no use from anyone else, *)
(* and no module is freed or terminated that one still running needs,      *)
(* whichever loads failed.                                                 *)
StaleUnloadHarmless == AcyclicByName => UseCountCovers /\ NoUseAfterTermination

(* The debug list ends the program only when a base image is unloaded.      *)
CrashOnlyOnBaseImage == status = "crashed" => loaded[prog_handle].base

(* The shell gets back to its prompt, or its process ends.                 *)
BackToPrompt == ~AtPrompt ~> (AtPrompt \/ status # "running" \/ ret.of = "abort")
=============================================================================
