-------------------------------- MODULE Dload --------------------------------
(***************************************************************************)
(* The core of the dynamic loader (DLOAD/dload.c, built with ORIGINAL_CODE *)
(* defined): loading a file with everything on its DT_NEEDED list,         *)
(* relocating and initialising the whole dependency graph, and unloading   *)
(* it again under use counts.  DLOAD_load and DLOAD_unload are re-entered  *)
(* through the client (DLIF_load_dependent, DLIF_unload_dependent), so the *)
(* C call stack is part of the state.                                      *)
(*                                                                         *)
(* A file is known by the string that names it in a DT_NEEDED tag; its     *)
(* so_name is the DT_SONAME it carries itself.  The content of the files   *)
(* is chosen in the initial state.  File handles are 1, 2, ... in the order *)
(* they are assigned, so the handle of a module is its index in loaded.    *)
(* The heap objects of a module that was freed are out of the model: its   *)
(* record stays in loaded, its handle leaves loaded_objects.               *)
(*                                                                         *)
(* Definitions with an underscore and a suffix, as StillUsed_Ignored, are   *)
(* seeded faults: what the definition after them would be with a bug.      *)
(***************************************************************************)
EXTENDS Integers, SequencesExt, FiniteSetsExt

CONSTANTS
  File,        (* the files the client can open                            *)
  Name,        (* the DT_SONAMEs they carry                                *)
  Disks,       (* what the files may contain: sets of files, by name       *)
  Faults,      (* what may fail: a subset of FaultKind                     *)
  HandleBound  (* bound: no new top-level load once so many were given out *)

FaultKind == {"open", "headers", "allocate", "register", "abort"}

ASSUME DloadAssumption ==
  /\ IsFiniteSet(File)
  /\ Disks \subseteq [File -> [needed : Seq(File), so_name : Name]]
  /\ Faults \subseteq FaultKind
  /\ HandleBound \in Nat \ {0}

VARIABLES
  disk,             (* each file's DT_NEEDED list and DT_SONAME            *)
  loaded,           (* every module ever given a handle                    *)
  loaded_objects,   (* DLIMP_loaded_objects: handles in queue order        *)
  dependency_list,  (* DLIMP_module_dependency_list: so_names              *)
  dependency_stack, (* DLIMP_dependency_stack: handles, bottom first       *)
  frames,           (* the calls of DLOAD_load and DLOAD_unload under way  *)
  ret,              (* what the call that just returned answered           *)
  client,           (* the handles the client holds                        *)
  init_order,       (* handles in the order their initialisers ran         *)
  fini_order        (* handles in the order their terminators ran          *)

vars == << disk, loaded, loaded_objects, dependency_list, dependency_stack, frames,
           ret, client, init_order, fini_order >>

-----------------------------------------------------------------------------
Needed(file) == disk[file].needed
SoName(file) == disk[file].so_name

Handles   == 1 .. Len(loaded)
Live      == ToSet(loaded_objects)
Idle      == frames = << >>
NoReturn  == [of |-> "none", val |-> 0]
Frame     == [op : {"load", "unload"}, file : File, h : Nat,
              next : Nat, pc : {"headers", "needed", "relocate", "depend"}]

Init ==
  /\ disk \in Disks
  /\ loaded = << >>
  /\ loaded_objects = << >>
  /\ dependency_list = << >>
  /\ dependency_stack = << >>
  /\ frames = << >>
  /\ ret = NoReturn
  /\ client = {}
  /\ init_order = << >>
  /\ fini_order = << >>

Running(op, pc) ==
  /\ frames # << >>
  /\ Last(frames).op = op
  /\ Last(frames).pc = pc

Me == Last(frames)

Return(of, val) ==
  /\ frames' = Front(frames)
  /\ ret' = [of |-> of, val |-> val]

Call(op, file, h, pc) ==
  [op |-> op, file |-> file, h |-> h, next |-> 1, pc |-> pc]

(* initialize_loaded_module: use_count 1, no dependencies, a new handle. *)
NewModule(file, base) ==
  [file |-> file, use_count |-> 1, deps |-> << >>, base |-> base]

NewHandle == Len(loaded) + 1

Enqueue(file, base) ==
  /\ loaded' = Append(loaded, NewModule(file, base))
  /\ loaded_objects' = Append(loaded_objects, NewHandle)

-----------------------------------------------------------------------------
(* Loading.                                                                *)

InProcessOfLoading_Never(file) == FALSE

(* check_circular_dependency *)
InProcessOfLoading(file) == Contains(dependency_list, SoName(file))

(* The front-most loaded module whose name is the DT_NEEDED string. *)
Matches(needed) ==
  {i \in DOMAIN loaded_objects : SoName(loaded[loaded_objects[i]].file) = needed}

FirstMatch(needed) == loaded_objects[Min(Matches(needed))]

(* The client asks for a file while no call is under way.                  *)
TopLoad(file) ==
  /\ Idle /\ ret = NoReturn
  /\ Len(loaded) < HandleBound
  /\ frames' = << Call("load", file, 0, "headers") >>
  /\ UNCHANGED << loaded, loaded_objects, dependency_list, dependency_stack,
                  ret, client, init_order, fini_order >>

(* dload_headers, the dynamic table or the sanity checks fail.             *)
RejectFile ==
  /\ Running("load", "headers")
  /\ "headers" \in Faults
  /\ Return("load", 0)
  /\ UNCHANGED << loaded, loaded_objects, dependency_list, dependency_stack,
                  client, init_order, fini_order >>

(* check_circular_dependency fails: the so_name is on the list.            *)
RejectCircular ==
  /\ Running("load", "headers")
  /\ InProcessOfLoading(Me.file)
  /\ Return("load", 0)
  /\ UNCHANGED << loaded, loaded_objects, dependency_list, dependency_stack,
                  client, init_order, fini_order >>

(* The module gets its handle and a place in the queue, then the client    *)
(* has no target memory for one of its segments.                           *)
FailAllocation ==
  /\ Running("load", "headers")
  /\ ~InProcessOfLoading(Me.file)
  /\ "allocate" \in Faults
  /\ Enqueue(Me.file, FALSE)
  /\ Return("load", 0)
  /\ UNCHANGED << dependency_list, dependency_stack, client, init_order,
                  fini_order >>

(* Placed in memory, on the list and on the stack; its DSBT index request  *)
(* is then registered, or refused.                                         *)
PlaceModule ==
  /\ Running("load", "headers")
  /\ ~InProcessOfLoading(Me.file)
  /\ Enqueue(Me.file, FALSE)
  /\ dependency_list' = Append(dependency_list, SoName(Me.file))
  /\ dependency_stack' = Append(dependency_stack, NewHandle)
  /\ \/ /\ frames' = Append(Front(frames), Call("load", Me.file, NewHandle, "needed"))
        /\ UNCHANGED ret
     \/ /\ "register" \in Faults
        /\ Return("load", 0)
  /\ UNCHANGED << client, init_order, fini_order >>

AddDependency(user, h) == [loaded EXCEPT ![user].deps = Append(@, h)]

ShareModule_NoBump(user, h) == AddDependency(user, h)

(* use_count++ on the module found, and its handle on the user's list.     *)
ShareModule(user, h) ==
  [AddDependency(user, h) EXCEPT ![h].use_count = @ + 1]

PendingNeeded ==
  /\ Running("load", "needed")
  /\ ret = NoReturn
  /\ Me.next <= Len(Needed(Me.file))

NextNeeded == Append(Front(frames), [Me EXCEPT !.next = @ + 1])

(* dload_and_allocate_dependencies, the DT_NEEDED file is loaded already.  *)
NeededIsLoaded ==
  /\ PendingNeeded
  /\ LET needed == Needed(Me.file)[Me.next]
     IN  /\ Matches(needed) # {}
         /\ loaded' = ShareModule(Me.h, FirstMatch(needed))
  /\ frames' = NextNeeded
  /\ UNCHANGED << loaded_objects, dependency_list, dependency_stack, ret,
                  client, init_order, fini_order >>

(* DLIF_load_dependent opens the file and re-enters DLOAD_load ...         *)
LoadDependent ==
  /\ PendingNeeded
  /\ LET needed == Needed(Me.file)[Me.next]
     IN  /\ Matches(needed) = {}
         /\ frames' = Append(frames, Call("load", needed, 0, "headers"))
  /\ UNCHANGED << loaded, loaded_objects, dependency_list, dependency_stack,
                  ret, client, init_order, fini_order >>

(* ... or cannot open it, and the load of the user fails.                  *)
DependentNotFound ==
  /\ PendingNeeded
  /\ "open" \in Faults
  /\ Matches(Needed(Me.file)[Me.next]) = {}
  /\ loaded' = AddDependency(Me.h, 0)
  /\ Return("load", 0)
  /\ UNCHANGED << loaded_objects, dependency_list, dependency_stack, client,
                  init_order, fini_order >>

(* The handle of the dependent is recorded even when it is 0.              *)
DependentReturned ==
  /\ Running("load", "needed")
  /\ ret.of = "load"
  /\ loaded' = AddDependency(Me.h, ret.val)
  /\ IF ret.val = 0 THEN Return("load", 0)
     ELSE frames' = NextNeeded /\ ret' = NoReturn
  /\ UNCHANGED << loaded_objects, dependency_list, dependency_stack, client,
                  init_order, fini_order >>

LeaveList_Skipped == dependency_list

(* DLIMP_module_dependency_list.size-- *)
LeaveList == Front(dependency_list)

AtStackBottom(h) == Head(dependency_stack) = h

(* All dependents are in memory.  Only the module at the bottom of the     *)
(* stack goes on to relocation; the others return to their user.           *)
NeededDone ==
  /\ Running("load", "needed")
  /\ ret = NoReturn
  /\ Me.next > Len(Needed(Me.file))
  /\ dependency_list' = LeaveList
  /\ IF AtStackBottom(Me.h)
       THEN /\ frames' = Append(Front(frames), [Me EXCEPT !.pc = "relocate"])
            /\ UNCHANGED ret
       ELSE Return("load", Me.h)
  /\ UNCHANGED << loaded, loaded_objects, dependency_stack, client,
                  init_order, fini_order >>

PopAt_Bottom == 1

PopAt == Len(dependency_stack)

(* One turn of the loop of relocate_dependency_graph_modules: pop a module, *)
(* relocate it, run its initialisers, detach and delete it.                *)
Relocate ==
  /\ Running("load", "relocate")
  /\ dependency_stack # << >>
  /\ init_order' = Append(init_order, dependency_stack[PopAt])
  /\ dependency_stack' = RemoveAt(dependency_stack, PopAt)
  /\ UNCHANGED << loaded, loaded_objects, dependency_list, frames, ret,
                  client, fini_order >>

RelocateDone ==
  /\ Running("load", "relocate")
  /\ dependency_stack = << >>
  /\ Return("load", Me.h)
  /\ UNCHANGED << loaded, loaded_objects, dependency_list, dependency_stack,
                  client, init_order, fini_order >>

(* DLOAD_load_symbols: a base image that already runs on the target enters  *)
(* the queue; it is pushed on the stack only while its DSBT is updated.    *)
LoadSymbols(file) ==
  /\ Idle /\ ret = NoReturn
  /\ Len(loaded) < HandleBound
  /\ IF InProcessOfLoading(file)
       THEN UNCHANGED << loaded, loaded_objects, client >>
       ELSE /\ Enqueue(file, TRUE)
            /\ client' = client \cup {NewHandle}
  /\ UNCHANGED << dependency_list, dependency_stack, frames, ret, init_order,
                  fini_order >>

-----------------------------------------------------------------------------
(* Unloading.                                                              *)

StillUsed_Ignored(h) == FALSE

(* --use_count is not 0. *)
StillUsed(h) == loaded[h].use_count # 1

(* Entry of DLOAD_unload: find the handle, drop one use; when it was the   *)
(* last one run the terminators and start on the dependents.               *)
EnterUnload(h, stack) ==
  IF h \notin Live
    THEN /\ frames' = stack
         /\ ret' = [of |-> "unload", val |-> 0]
         /\ UNCHANGED << loaded, fini_order >>
    ELSE /\ loaded' = [loaded EXCEPT ![h].use_count = @ - 1]
         /\ IF StillUsed(h)
              THEN /\ frames' = stack
                   /\ ret' = [of |-> "unload", val |-> 0]
                   /\ UNCHANGED fini_order
              ELSE /\ frames' = Append(stack, Call("unload", loaded[h].file, h, "depend"))
                   /\ ret' = NoReturn
                   /\ fini_order' = Append(fini_order, h)

(* The client gives up a handle it holds.                                  *)
TopUnload(h) ==
  /\ Idle /\ ret = NoReturn
  /\ h \in client
  /\ client' = client \ {h}
  /\ EnterUnload(h, << >>)
  /\ UNCHANGED << loaded_objects, dependency_list, dependency_stack, init_order >>

DependentsLeft_ButLast == Me.next < Len(loaded[Me.h].deps)

DependentsLeft == Me.next <= Len(loaded[Me.h].deps)

NextDependent == Append(Front(frames), [Me EXCEPT !.next = @ + 1])

(* DLIF_unload_dependent for the next handle on the module's list.         *)
UnloadDependent ==
  /\ Running("unload", "depend")
  /\ ret = NoReturn
  /\ DependentsLeft
  /\ EnterUnload(loaded[Me.h].deps[Me.next], NextDependent)
  /\ UNCHANGED << loaded_objects, dependency_list, dependency_stack, client,
                  init_order >>

(* The client's part after the nested call; nothing of the core changes.   *)
DependentUnloaded ==
  /\ Running("unload", "depend")
  /\ ret.of = "unload"
  /\ ret' = NoReturn
  /\ UNCHANGED << loaded, loaded_objects, dependency_list, dependency_stack,
                  frames, client, init_order, fini_order >>

RemoveLoaded_Front(h) == Tail(loaded_objects)

NodesOf(h) == {i \in DOMAIN loaded_objects : loaded_objects[i] = h}

(* remove_loaded_module: unlink the queue node and free the module.        *)
RemoveLoaded(h) ==
  IF NodesOf(h) = {} THEN loaded_objects ELSE RemoveAt(loaded_objects, Min(NodesOf(h)))

UnloadDone ==
  /\ Running("unload", "depend")
  /\ ret = NoReturn
  /\ ~DependentsLeft
  /\ loaded_objects' = RemoveLoaded(Me.h)
  /\ Return("unload", 1)
  /\ UNCHANGED << loaded, dependency_list, dependency_stack, client,
                  init_order, fini_order >>

(* The queue node is freed by the remove and again by unlink_loaded_module: *)
(* a host allocator that checks ends the program here.                     *)
AbortOnDoubleFree ==
  /\ Running("unload", "depend")
  /\ ret = NoReturn
  /\ ~DependentsLeft
  /\ "abort" \in Faults
  /\ loaded_objects' = RemoveLoaded(Me.h)
  /\ ret' = [of |-> "abort", val |-> 0]
  /\ UNCHANGED << loaded, dependency_list, dependency_stack, frames, client,
                  init_order, fini_order >>

(* The client takes the answer of its own call: a handle other than 0 is   *)
(* one more use it has to give up later.                                   *)
TopReturned ==
  /\ Idle /\ ret.of \in {"load", "unload"}
  /\ client' = IF ret.of = "load" /\ ret.val # 0 THEN client \cup {ret.val}
               ELSE client
  /\ ret' = NoReturn
  /\ UNCHANGED << loaded, loaded_objects, dependency_list, dependency_stack,
                  frames, init_order, fini_order >>

-----------------------------------------------------------------------------
LoadStep ==
  \/ RejectFile \/ RejectCircular \/ FailAllocation \/ PlaceModule
  \/ NeededIsLoaded \/ LoadDependent \/ DependentNotFound
  \/ DependentReturned \/ NeededDone \/ Relocate \/ RelocateDone

UnloadStep == UnloadDependent \/ DependentUnloaded \/ UnloadDone \/ AbortOnDoubleFree

(* The thread that entered the loader runs until the call returns.         *)
LoaderStep ==
  /\ LoadStep \/ UnloadStep \/ TopReturned
  /\ UNCHANGED disk

ClientStep ==
  /\ \/ \E file \in File : TopLoad(file) \/ LoadSymbols(file)
     \/ \E h \in client : TopUnload(h)
  /\ UNCHANGED disk

Next == LoaderStep \/ ClientStep

Spec == Init /\ [][Next]_vars /\ WF_vars(LoaderStep)

-----------------------------------------------------------------------------
(* What the properties speak of.                                           *)

UnloadFrames(m) == {i \in DOMAIN frames : frames[i].op = "unload" /\ frames[i].h = m}

(* The positions on m's list of the dependents m still has a use of.       *)
HeldPositions(m) ==
  LET from == IF UnloadFrames(m) = {} THEN 1
              ELSE frames[Max(UnloadFrames(m))].next
  IN  from .. Len(loaded[m].deps)

HeldDeps(m) == {loaded[m].deps[i] : i \in HeldPositions(m)} \ {0}

(* The entries on m's list by which m has a use of h.                      *)
UsesBy(m, h) == {m} \X {i \in HeldPositions(m) : loaded[m].deps[i] = h}

UsesByModules(h) == UNION {UsesBy(m, h) : m \in Live}

UsesOutside(h) ==
  Cardinality({i \in DOMAIN frames : frames[i].op = "load" /\ frames[i].h = h})
  + (IF h \in client THEN 1 ELSE 0)
  + (IF ret = [of |-> "load", val |-> h] THEN 1 ELSE 0)

Uses(h) == UsesOutside(h) + Cardinality(UsesByModules(h))

(* Everything reachable from the modules in S through dependency lists:    *)
(* what is in every set that has S and whatever its members need.          *)
Reach(S) ==
  LET complete == {T \in SUBSET Handles : S \subseteq T /\ \A m \in T : HeldDeps(m) \subseteq T}
  IN  {h \in Handles : \A T \in complete : h \in T}

Initialized(h) == loaded[h].base \/ Contains(init_order, h)
Terminated(h)  == Contains(fini_order, h)
Before(s, a, b) == \E i, j \in DOMAIN s : i < j /\ s[i] = a /\ s[j] = b

(* An order of the files in which each comes after those it needs. *)
Acyclic ==
  \E rank \in [File -> 1 .. Cardinality(File)] :
     \A f \in File : \A g \in ToSet(Needed(f)) : rank[g] < rank[f]

NeededOnce ==
  \A f, g \in File : \A i \in DOMAIN Needed(f), j \in DOMAIN Needed(g) :
     Needed(f)[i] = Needed(g)[j] => f = g /\ i = j

(* A use_count is signed: an unload of a stale handle takes it below 0.    *)
TypeOK ==
  /\ disk \in Disks
  /\ loaded \in Seq([file : File, use_count : Int, deps : Seq(Nat), base : BOOLEAN])
  /\ \A m \in Handles : ToSet(loaded[m].deps) \subseteq 0 .. Len(loaded)
  /\ loaded_objects \in Seq(Handles)
  /\ dependency_stack \in Seq(Handles)
  /\ ToSet(dependency_list) \subseteq {SoName(f) : f \in File}
  /\ frames \in Seq(Frame)
  /\ ret \in [of : {"none", "load", "unload", "abort"}, val : 0 .. Len(loaded)]
  /\ client \subseteq Handles
  /\ init_order \in Seq(Handles)
  /\ fini_order \in Seq(Handles)

(* Every use_count is exactly the number of uses: the handle the client     *)
(* holds, the load under way, and one per entry on the dependency list of   *)
(* a module that has not given that entry up yet.                           *)
UseCountExact == \A h \in Live : loaded[h].use_count = Uses(h)

(* With loads that fail half way a use_count may be too high, never too     *)
(* low: no module is freed while someone still counts on it.                *)
UseCountCovers == \A h \in Live : loaded[h].use_count >= Uses(h)

(* A module whose terminators have not run never depends on one that was    *)
(* terminated or freed: DLOAD_unload runs a module's own terminators before *)
(* it releases its dependents, and shared ones wait for the last user.      *)
NoUseAfterTermination ==
  \A m \in Live : ~Terminated(m) =>
     \A h \in HeldDeps(m) : h \in Live /\ ~Terminated(h)

(* The handles somebody outside the modules has a use of.                  *)
HeldOutside == {h \in Handles : UsesOutside(h) > 0}

Store == INSTANCE ModuleStore WITH
  Module     <- 1 .. HandleBound + Cardinality(File),
  memory     <- Live,
  held       <- HeldOutside,
  needs      <- [m \in Live |-> HeldDeps(m)],
  terminated <- {m \in Live : Terminated(m)}

(* Without failures the use counts, lists and nested calls implement the    *)
(* abstract store: DLOAD_unload terminates a module when, and only when,   *)
(* its last use ends, whoever the users are and in whatever order they     *)
(* give it up, and frees it after it has released its dependents.          *)
ImplementsStore == Store!Spec

(* A handle DLOAD_load gave to the client stands for a program that can     *)
(* run: the module and everything it needs, directly or not, is in memory,  *)
(* was relocated and initialised, and was not terminated.                   *)
HandleIsUsable ==
  \A m \in Reach(client) :
     /\ m \in Live
     /\ Initialized(m)
     /\ ~Terminated(m)
     /\ \A i \in DOMAIN loaded[m].deps : loaded[m].deps[i] # 0

(* A module's initialisers run after those of every module it needs.        *)
NeededInitializedFirst ==
  \A m \in ToSet(init_order) : \A h \in ToSet(loaded[m].deps) \ {0, m} :
     loaded[h].base \/ Before(init_order, h, m)

(* The reverse of the order of loading is such an order when no file is     *)
(* needed twice.                                                           *)
ForestInitializedFirst == NeededOnce /\ Acyclic => NeededInitializedFirst

(* When the client has given up every handle, nothing is left in memory,    *)
(* unless files need each other in a circle.                               *)
AllReleased ==
  Idle /\ ret = NoReturn /\ client = {} /\ Acyclic => loaded_objects = << >>

(* A load is refused as circular only when the same file is being loaded    *)
(* further out on the call stack.                                           *)
CircularOnlyIfLoading ==
  [][RejectCircular =>
       \E i \in 1 .. Len(frames) - 1 : frames[i].file = Me.file]_vars

(* No module ever comes to depend on itself through its dependents.         *)
NoCircularDependency ==
  \A m \in Live : m \notin Reach(HeldDeps(m))

(* The recursion through DLIF_load_dependent and DLIF_unload_dependent is   *)
(* no deeper than the dependencies: no so_name is being loaded twice at a   *)
(* time (the innermost call may be about to be refused), and no module is   *)
(* being unloaded by two calls.                                             *)
RecursionBounded ==
  LET placed == {i \in DOMAIN frames : frames[i].h # 0}
  IN  /\ Cardinality(DOMAIN frames \ placed) <= 1
      /\ \A i, j \in placed : i # j =>
            IF frames[i].op = "load"
              THEN SoName(frames[i].file) # SoName(frames[j].file)
              ELSE frames[i].h # frames[j].h
=============================================================================
