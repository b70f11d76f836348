----------------------------- MODULE DloadProofs ------------------------------
(***************************************************************************)
(* The loader core, proved for any files with any dependency lists, any    *)
(* names, any faults and any bound.                                        *)
(*                                                                         *)
(* CoreInv is about types: every list of handles only holds handles that   *)
(* were given out, every call under way works on a module that exists, and *)
(* no dependency list names a module to come.                              *)
(*                                                                         *)
(* UseInv is about the use counts.  ControlInv, its first half, says of the*)
(* calls under way that they all load or all unload, that none works on the*)
(* module of another, and that a handle is with one holder at most: the    *)
(* call that loads it, the answer of the call that just returned, or the   *)
(* client.  The rest says which use_counts are 0, that what is used is in  *)
(* memory, and that the uses are covered.                                  *)
(*                                                                         *)
(* NamesInv is about the so_names that bound the recursion: those of the   *)
(* loads under way are at the end of the list, in the order of the calls.  *)
(*                                                                         *)
(* The second half assumes Unfailing, that no load fails and every file     *)
(* carries the name that others know it by: the use counts are exact        *)
(* (Exact), a handle the client holds can be used, nothing stays in memory  *)
(* without a use, initialisers run in the order of the dependencies where   *)
(* each file is needed once, and the core implements ModuleStore.  GraphInv *)
(* is about the graph under load, which is what was given a handle since    *)
(* the call at the bottom of the stack placed its module; OrderInv is about *)
(* the order within that graph.                                            *)
(***************************************************************************)
EXTENDS Dload, QueueLemmas, FiniteSetTheorems

Module == [file : File, use_count : Int, deps : Seq(Nat), base : BOOLEAN]
Answer(n) == [of : {"none", "load", "unload", "abort"}, val : 0 .. n]

(* The records of the modules, and the calls under way, when n handles were *)
(* given out.  A call has its module once it is past the headers.          *)
ModulesOK(l, n) ==
  /\ l \in Seq(Module)
  /\ Len(l) = n
  /\ \A m \in 1 .. n : ToSet(l[m].deps) \subseteq 0 .. n

FrameOK(f, n) ==
  /\ f \in Frame
  /\ f.h <= n
  /\ f.next # 0
  /\ f.pc # "headers" => f.h # 0

FramesOK(fr, n) == fr \in Seq(Frame) /\ \A i \in 1 .. Len(fr) : FrameOK(fr[i], n)

OrdersOK(n) ==
  /\ loaded_objects \in Seq(1 .. n)
  /\ dependency_stack \in Seq(1 .. n)
  /\ init_order \in Seq(1 .. n)
  /\ fini_order \in Seq(1 .. n)
  /\ client \subseteq 1 .. n

NamesOK ==
  /\ dependency_list \in Seq(Name)
  /\ ToSet(dependency_list) \subseteq {SoName(f) : f \in File}

CoreInv ==
  /\ disk \in Disks
  /\ Len(loaded) \in Nat
  /\ ModulesOK(loaded, Len(loaded))
  /\ FramesOK(frames, Len(loaded))
  /\ OrdersOK(Len(loaded))
  /\ NamesOK
  /\ ret \in Answer(Len(loaded))

-----------------------------------------------------------------------------
(* What a file on a disk has.                                              *)
LEMMA DiskEntries ==
  ASSUME disk \in Disks, NEW f \in File
  PROVE  Needed(f) \in Seq(File) /\ SoName(f) \in Name
  BY DloadAssumption DEF Needed, SoName

(* More handles do no harm.                                                *)
LEMMA ModulesSize ==
  ASSUME NEW l \in Seq(Module)
  PROVE  Len(l) \in Nat /\ DOMAIN l = 1 .. Len(l) /\ \A m \in 1 .. Len(l) : l[m] \in Module
  BY LenProperties, ElementOfSeq

(* A call under way stays one when more handles are given out.             *)
LEMMA FramesGrow ==
  ASSUME NEW fr, NEW n \in Nat, NEW k \in Nat, n <= k, FramesOK(fr, n)
  PROVE  FramesOK(fr, k)
<1>1. ASSUME NEW i \in 1 .. Len(fr) PROVE FrameOK(fr[i], k)
  BY <1>1 DEF FramesOK, FrameOK, Frame
<1> QED BY <1>1 DEF FramesOK

(* A list of handles stays one when more handles are given out.            *)
LEMMA OrdersGrow ==
  ASSUME NEW n \in Nat, NEW k \in Nat, n <= k, OrdersOK(n)
  PROVE  OrdersOK(k)
<1>1. 1 .. n \subseteq 1 .. k
  OBVIOUS
<1>2. \A q \in Seq(1 .. n) : q \in Seq(1 .. k)
  BY <1>1, SeqMonotonic
<1> QED BY <1>1, <1>2 DEF OrdersOK

(* Popping and pushing calls.                                              *)
LEMMA TopCall ==
  ASSUME NEW n \in Nat, FramesOK(frames, n), frames # << >>
  PROVE  /\ FrameOK(Me, n)
         /\ FramesOK(Front(frames), n)
<1>1. /\ Len(frames) \in Nat \ {0} /\ Last(frames) = frames[Len(frames)]
      /\ Front(frames) \in Seq(Frame) /\ Len(Front(frames)) = Len(frames) - 1
      /\ \A i \in 1 .. Len(frames) - 1 : Front(frames)[i] = frames[i]
  BY FrontEntries DEF FramesOK
<1>2. FrameOK(Me, n)
  BY <1>1 DEF FramesOK, Me
<1>3. \A i \in 1 .. Len(Front(frames)) : FrameOK(Front(frames)[i], n)
  BY <1>1 DEF FramesOK
<1> QED BY <1>1, <1>2, <1>3 DEF FramesOK

(* A call pushed on the stack.                                             *)
LEMMA PushCall ==
  ASSUME NEW n \in Nat, NEW fr, FramesOK(fr, n), NEW f, FrameOK(f, n)
  PROVE  FramesOK(Append(fr, f), n)
<1>1. fr \in Seq(Frame) /\ f \in Frame /\ Len(fr) \in Nat
  BY LenProperties DEF FramesOK, FrameOK
<1>2. /\ Append(fr, f) \in Seq(Frame)
      /\ Len(Append(fr, f)) = Len(fr) + 1
      /\ \A i \in 1 .. Len(fr) : Append(fr, f)[i] = fr[i]
      /\ Append(fr, f)[Len(fr) + 1] = f
  BY <1>1, AppendProperties
<1>3. ASSUME NEW i \in 1 .. Len(fr) + 1 PROVE FrameOK(Append(fr, f)[i], n)
  <2>1. CASE i = Len(fr) + 1
    BY <1>2, <2>1
  <2>2. CASE i \in 1 .. Len(fr)
    BY <1>2, <2>2 DEF FramesOK
  <2> QED BY <1>1, <2>1, <2>2
<1> QED BY <1>2, <1>3 DEF FramesOK

(* A new call.                                                             *)
LEMMA NewCall ==
  ASSUME NEW n \in Nat, NEW f \in File, NEW op \in {"load", "unload"}, NEW h \in 0 .. n,
         NEW pc \in {"headers", "needed", "relocate", "depend"}, pc # "headers" => h # 0
  PROVE  FrameOK(Call(op, f, h, pc), n)
  BY DEF Call, FrameOK, Frame

(* A record of a module gets one dependency more, or another use_count.    *)
LEMMA Depends ==
  ASSUME NEW n \in Nat, ModulesOK(loaded, n), NEW u \in 1 .. n, NEW h \in 0 .. n
  PROVE  ModulesOK(AddDependency(u, h), n)
<1> DEFINE rec == [loaded[u] EXCEPT !.deps = Append(loaded[u].deps, h)]
           new == [loaded EXCEPT ![u] = rec]
<1>1. loaded \in Seq(Module) /\ Len(loaded) = n /\ loaded[u] \in Module
  BY ElementOfSeq DEF ModulesOK
<1>2. loaded[u].deps \in Seq(Nat) /\ Len(loaded[u].deps) \in Nat
  BY <1>1, LenProperties DEF Module
<1>3. /\ Append(loaded[u].deps, h) \in Seq(Nat)
      /\ Len(Append(loaded[u].deps, h)) = Len(loaded[u].deps) + 1
      /\ \A i \in 1 .. Len(loaded[u].deps) : Append(loaded[u].deps, h)[i] = loaded[u].deps[i]
      /\ Append(loaded[u].deps, h)[Len(loaded[u].deps) + 1] = h
  BY <1>2, AppendProperties
<1>4. ToSet(Append(loaded[u].deps, h)) \subseteq 0 .. n
  <2>1. DOMAIN Append(loaded[u].deps, h) = 1 .. Len(loaded[u].deps) + 1
    BY <1>3, LenProperties
  <2>2. \A i \in 1 .. Len(loaded[u].deps) : loaded[u].deps[i] \in 0 .. n
    BY <1>2, LenProperties DEF ModulesOK, ToSet
  <2>3. \A i \in 1 .. Len(loaded[u].deps) + 1 : Append(loaded[u].deps, h)[i] \in 0 .. n
    <3>1. \A i \in 1 .. Len(loaded[u].deps) + 1 :
             i \in 1 .. Len(loaded[u].deps) \/ i = Len(loaded[u].deps) + 1
      BY <1>2
    <3> QED BY <1>3, <2>2, <3>1
  <2> QED BY <2>1, <2>3 DEF ToSet
<1>5. rec \in Module /\ rec.deps = Append(loaded[u].deps, h)
  BY <1>1, <1>3 DEF Module
<1>6. /\ new \in Seq(Module) /\ Len(new) = n
      /\ \A m \in 1 .. n : new[m] = IF m = u THEN rec ELSE loaded[m]
  <2> HIDE DEF rec
  <2> QED BY <1>1, <1>5, ExceptSeq
<1>7. \A m \in 1 .. n : ToSet(new[m].deps) \subseteq 0 .. n
  <2> HIDE DEF rec, new
  <2> QED BY <1>4, <1>5, <1>6 DEF ModulesOK
<1>8. AddDependency(u, h) = new
  BY DEF AddDependency
<1> HIDE DEF new
<1> QED BY <1>6, <1>7, <1>8 DEF ModulesOK

(* A record of a module gets another use_count.                            *)
LEMMA Counted ==
  ASSUME NEW n \in Nat, NEW l, ModulesOK(l, n), NEW h \in 1 .. n, NEW c \in Int
  PROVE  ModulesOK([l EXCEPT ![h].use_count = c], n)
<1> DEFINE rec == [l[h] EXCEPT !.use_count = c]
           new == [l EXCEPT ![h] = rec]
<1>1. l \in Seq(Module) /\ Len(l) = n /\ l[h] \in Module
  BY ElementOfSeq DEF ModulesOK
<1>2. rec \in Module /\ rec.deps = l[h].deps
  BY <1>1 DEF Module
<1>3. /\ new \in Seq(Module) /\ Len(new) = n
      /\ \A m \in 1 .. n : new[m] = IF m = h THEN rec ELSE l[m]
  <2> HIDE DEF rec
  <2> QED BY <1>1, <1>2, ExceptSeq
<1>4. \A m \in 1 .. n : ToSet(new[m].deps) \subseteq 0 .. n
  <2> HIDE DEF rec, new
  <2> QED BY <1>2, <1>3 DEF ModulesOK
<1> QED BY <1>3, <1>4 DEF ModulesOK

-----------------------------------------------------------------------------
(* The parts of the invariant a step leaves alone, and how the parts make  *)
(* the whole.                                                              *)
LEMMA Parts ==
  ASSUME CoreInv
  PROVE  \E n \in Nat :
            /\ n = Len(loaded) /\ ModulesOK(loaded, n) /\ FramesOK(frames, n)
            /\ OrdersOK(n) /\ ret \in Answer(n) /\ Handles = 1 .. n /\ NewHandle = n + 1
  BY DEF CoreInv, Handles, NewHandle

(* A step that keeps every part keeps the whole.                           *)
LEMMA Whole ==
  ASSUME CoreInv, disk' = disk, NEW n \in Nat, ModulesOK(loaded', n), FramesOK(frames', n),
         OrdersOK(n)', NamesOK', ret' \in Answer(n)
  PROVE  CoreInv'
<1>1. Len(loaded') = n
  BY DEF ModulesOK
<1> QED BY <1>1 DEF CoreInv

(* The so_names are left alone.                                            *)
LEMMA SameNames ==
  ASSUME CoreInv, UNCHANGED << disk, dependency_list >>
  PROVE  NamesOK'
  BY DEF CoreInv, NamesOK, SoName

(* The lists of handles are left alone.                                    *)
LEMMA SameOrders ==
  ASSUME NEW n \in Nat, OrdersOK(n),
         UNCHANGED << loaded_objects, dependency_stack, init_order, fini_order, client >>
  PROVE  OrdersOK(n)'
  BY DEF OrdersOK

(* Steps that leave the core alone.                                        *)
LEMMA Unmoved == CoreInv /\ UNCHANGED vars => CoreInv'
  BY DEF vars, CoreInv, ModulesOK, FramesOK, FrameOK, OrdersOK, NamesOK, SoName, Answer

(* A call returns: its frame is popped.                                    *)
LEMMA Returned ==
  ASSUME NEW n \in Nat, FramesOK(frames, n), frames # << >>,
         NEW of \in {"load", "unload"}, NEW val \in 0 .. n, Return(of, val)
  PROVE  FramesOK(frames', n) /\ ret' \in Answer(n)
  BY TopCall DEF Return, Answer

(* The call under way has a file, and past the headers a module.           *)
LEMMA RunningCall ==
  ASSUME NEW n \in Nat, FramesOK(frames, n), NEW op, NEW pc, Running(op, pc)
  PROVE  /\ frames # << >>
         /\ FrameOK(Me, n) /\ Me.pc = pc /\ Me.op = op
         /\ Me.file \in File /\ Me.h \in 0 .. n /\ Me.next \in Nat \ {0}
         /\ pc # "headers" => Me.h \in 1 .. n
<1>1. frames # << >> /\ Me.pc = pc /\ Me.op = op
  BY DEF Running, Me
<1>2. FrameOK(Me, n)
  BY <1>1, TopCall
<1> QED BY <1>1, <1>2 DEF FrameOK, Frame

-----------------------------------------------------------------------------
(* Loading.                                                                *)

(* The client asks for a file.                                             *)
LEMMA TopLoadInv ==
  ASSUME CoreInv, NEW f \in File, TopLoad(f), disk' = disk
  PROVE  CoreInv'
<1>1. PICK n \in Nat :
        /\ n = Len(loaded) /\ ModulesOK(loaded, n) /\ FramesOK(frames, n)
        /\ OrdersOK(n) /\ ret \in Answer(n)
  BY Parts
<1>2. FrameOK(Call("load", f, 0, "headers"), n)
  BY NewCall
<1>3. frames' = Append(<< >>, Call("load", f, 0, "headers"))
  BY DEF TopLoad, Call
<1>4. FramesOK(<< >>, n)
  BY EmptySeq DEF FramesOK
<1>5. FramesOK(frames', n)
  BY <1>2, <1>3, <1>4, PushCall
<1>6. OrdersOK(n)' /\ NamesOK'
  BY <1>1, SameOrders, SameNames DEF TopLoad
<1> QED BY <1>1, <1>5, <1>6, Whole DEF TopLoad

(* A load that ends before its module is placed.                           *)
LEMMA RejectInv ==
  ASSUME CoreInv, RejectFile \/ RejectCircular, disk' = disk
  PROVE  CoreInv'
<1>1. PICK n \in Nat :
        /\ n = Len(loaded) /\ ModulesOK(loaded, n) /\ FramesOK(frames, n)
        /\ OrdersOK(n) /\ ret \in Answer(n)
  BY Parts
<1>2. Running("load", "headers") /\ Return("load", 0)
  BY DEF RejectFile, RejectCircular
<1>3. FramesOK(frames', n) /\ ret' \in Answer(n)
  BY <1>1, <1>2, RunningCall, Returned
<1>4. OrdersOK(n)' /\ NamesOK'
  BY <1>1, SameOrders, SameNames DEF RejectFile, RejectCircular
<1> QED BY <1>1, <1>3, <1>4, Whole DEF RejectFile, RejectCircular

(* A module gets its handle and its place in the queue.                    *)
LEMMA Enqueued ==
  ASSUME NEW n \in Nat, n = Len(loaded), ModulesOK(loaded, n), OrdersOK(n),
         NEW f \in File, NEW base \in BOOLEAN, Enqueue(f, base)
  PROVE  /\ ModulesOK(loaded', n + 1)
         /\ loaded_objects' \in Seq(1 .. n + 1)
<1> DEFINE new == NewModule(f, base)
<1>1. new \in Module /\ new.deps = << >>
  BY EmptySeq DEF NewModule, Module
<1>2. loaded \in Seq(Module) /\ Len(loaded) = n /\ loaded' = Append(loaded, new)
  BY DEF ModulesOK, Enqueue
<1>3. /\ loaded' \in Seq(Module) /\ Len(loaded') = n + 1
      /\ \A m \in 1 .. n : loaded'[m] = loaded[m]
      /\ loaded'[n + 1] = new
  <2> HIDE DEF new
  <2> QED BY <1>1, <1>2, AppendProperties
<1>4. ASSUME NEW m \in 1 .. n + 1 PROVE ToSet(loaded'[m].deps) \subseteq 0 .. n + 1
  <2>1. CASE m = n + 1
    <3>1. loaded'[m].deps = << >>
      BY <1>1, <1>3, <2>1
    <3> QED BY <3>1 DEF ToSet
  <2>2. CASE m \in 1 .. n
    <3>1. ToSet(loaded[m].deps) \subseteq 0 .. n
      BY <2>2 DEF ModulesOK
    <3>2. loaded'[m].deps = loaded[m].deps
      BY <1>3, <2>2
    <3> QED BY <3>1, <3>2
  <2> QED BY <2>1, <2>2
<1>5. loaded_objects' \in Seq(1 .. n + 1)
  <2>1. loaded_objects \in Seq(1 .. n + 1) /\ NewHandle \in 1 .. n + 1
    BY OrdersGrow DEF OrdersOK, NewHandle
  <2> QED BY <2>1, AppendProperties DEF Enqueue
<1> QED BY <1>3, <1>4, <1>5 DEF ModulesOK

(* A module gets its handle and no memory.                                 *)
LEMMA FailAllocationInv ==
  ASSUME CoreInv, FailAllocation, disk' = disk
  PROVE  CoreInv'
<1>1. PICK n \in Nat :
        /\ n = Len(loaded) /\ ModulesOK(loaded, n) /\ FramesOK(frames, n)
        /\ OrdersOK(n) /\ ret \in Answer(n)
  BY Parts
<1>2. n + 1 \in Nat /\ FramesOK(frames, n + 1) /\ OrdersOK(n + 1)
  BY <1>1, FramesGrow, OrdersGrow
<1>3. Me.file \in File /\ frames # << >>
  BY <1>1, RunningCall DEF FailAllocation
<1>4. ModulesOK(loaded', n + 1) /\ loaded_objects' \in Seq(1 .. n + 1)
  BY <1>1, <1>3, Enqueued DEF FailAllocation
<1>5. FramesOK(frames', n + 1) /\ ret' \in Answer(n + 1)
  BY <1>2, <1>3, Returned DEF FailAllocation
<1>6. OrdersOK(n + 1)'
  BY <1>2, <1>4 DEF OrdersOK, FailAllocation
<1>7. NamesOK'
  BY SameNames DEF FailAllocation
<1> QED BY <1>2, <1>4, <1>5, <1>6, <1>7, Whole

(* A module is placed in memory.                                           *)
LEMMA PlaceModuleInv ==
  ASSUME CoreInv, PlaceModule, disk' = disk
  PROVE  CoreInv'
<1>1. PICK n \in Nat :
        /\ n = Len(loaded) /\ ModulesOK(loaded, n) /\ FramesOK(frames, n)
        /\ OrdersOK(n) /\ ret \in Answer(n) /\ NewHandle = n + 1
  BY Parts
<1>2. n + 1 \in Nat /\ FramesOK(frames, n + 1) /\ OrdersOK(n + 1)
  BY <1>1, FramesGrow, OrdersGrow
<1>3. Me.file \in File /\ frames # << >> /\ FrameOK(Me, n) /\ Me.op = "load"
  BY <1>1, RunningCall DEF PlaceModule
<1>4. ModulesOK(loaded', n + 1) /\ loaded_objects' \in Seq(1 .. n + 1)
  BY <1>1, <1>3, Enqueued DEF PlaceModule
<1>5. FramesOK(frames', n + 1) /\ ret' \in Answer(n + 1)
  <2>1. CASE frames' = Append(Front(frames), Call("load", Me.file, NewHandle, "needed"))
             /\ UNCHANGED ret
    <3>1. FrameOK(Call("load", Me.file, NewHandle, "needed"), n + 1)
      BY <1>1, <1>3, NewCall
    <3>2. FramesOK(Front(frames), n + 1)
      BY <1>2, <1>3, TopCall
    <3>3. ret \in Answer(n + 1)
      BY <1>1 DEF Answer
    <3> QED BY <1>2, <2>1, <3>1, <3>2, <3>3, PushCall
  <2>2. CASE Return("load", 0)
    BY <1>2, <1>3, <2>2, Returned
  <2> QED BY <2>1, <2>2 DEF PlaceModule
<1>6. OrdersOK(n + 1)'
  <2>1. dependency_stack' \in Seq(1 .. n + 1)
    BY <1>1, <1>2, AppendProperties DEF OrdersOK, PlaceModule
  <2> QED BY <1>2, <1>4, <2>1 DEF OrdersOK, PlaceModule
<1>7. NamesOK'
  <2>1. dependency_list \in Seq(Name) /\ SoName(Me.file) \in Name
    BY <1>3, DiskEntries DEF CoreInv, NamesOK
  <2>2. /\ dependency_list' \in Seq(Name)
        /\ Len(dependency_list') = Len(dependency_list) + 1
        /\ Len(dependency_list) \in Nat
        /\ \A i \in 1 .. Len(dependency_list) : dependency_list'[i] = dependency_list[i]
        /\ dependency_list'[Len(dependency_list) + 1] = SoName(Me.file)
    BY <2>1, AppendProperties, LenProperties DEF PlaceModule
  <2>3. ToSet(dependency_list') \subseteq ToSet(dependency_list) \cup {SoName(Me.file)}
    BY <2>1, <2>2, LenProperties DEF ToSet
  <2> QED BY <1>3, <2>2, <2>3 DEF CoreInv, NamesOK, SoName
<1> QED BY <1>2, <1>4, <1>5, <1>6, <1>7, Whole

(* The call goes on to the next entry of its list.                         *)
LEMMA NextEntry ==
  ASSUME NEW n \in Nat, FramesOK(frames, n), NEW op, NEW pc, Running(op, pc)
  PROVE  FramesOK(Append(Front(frames), [Me EXCEPT !.next = Me.next + 1]), n)
<1>1. FrameOK(Me, n) /\ frames # << >>
  BY RunningCall
<1>2. FrameOK([Me EXCEPT !.next = Me.next + 1], n)
  BY <1>1 DEF FrameOK, Frame
<1> QED BY <1>1, <1>2, TopCall, PushCall

(* A needed file that is loaded already is among the modules.              *)
LEMMA FirstMatchHandle ==
  ASSUME NEW n \in Nat, OrdersOK(n), NEW f, Matches(f) # {}
  PROVE  FirstMatch(f) \in 1 .. n
<1>1. loaded_objects \in Seq(1 .. n) /\ DOMAIN loaded_objects = 1 .. Len(loaded_objects)
  BY LenProperties DEF OrdersOK
<1>2. Matches(f) \in SUBSET (1 .. Len(loaded_objects)) /\ Matches(f) \in SUBSET Nat
  BY <1>1 DEF Matches
<1>3. Min(Matches(f)) \in 1 .. Len(loaded_objects)
  BY <1>2, FirstOfPlaces
<1> QED BY <1>1, <1>3, ElementOfSeq DEF FirstMatch

(* A needed file that is loaded already is shared.                         *)
LEMMA NeededIsLoadedInv ==
  ASSUME CoreInv, NeededIsLoaded, disk' = disk
  PROVE  CoreInv'
<1>1. PICK n \in Nat :
        /\ n = Len(loaded) /\ ModulesOK(loaded, n) /\ FramesOK(frames, n)
        /\ OrdersOK(n) /\ ret \in Answer(n) /\ Handles = 1 .. n /\ NewHandle = n + 1
  BY Parts
<1> DEFINE h == FirstMatch(Needed(Me.file)[Me.next])
           l == AddDependency(Me.h, h)
<1>2. Running("load", "needed") /\ loaded' = ShareModule(Me.h, h) /\ h \in 1 .. n
  BY <1>1, FirstMatchHandle DEF NeededIsLoaded, PendingNeeded
<1>3. Me.h \in 1 .. n
  BY <1>1, <1>2, RunningCall
<1> HIDE DEF h
<1>4. ModulesOK(l, n)
  BY <1>1, <1>2, <1>3, Depends
<1>5. ModulesOK(loaded', n)
  <2>1. loaded' = [l EXCEPT ![h].use_count = l[h].use_count + 1]
    BY <1>2 DEF ShareModule
  <2> HIDE DEF l
  <2>2. l[h] \in Module
    BY <1>2, <1>4, ElementOfSeq DEF ModulesOK
  <2>3. l[h].use_count + 1 \in Int
    BY <2>2 DEF Module
  <2>4. ModulesOK([l EXCEPT ![h].use_count = l[h].use_count + 1], n)
    <3> DEFINE c == l[h].use_count + 1
    <3> HIDE DEF c
    <3>1. c \in Int
      BY <2>3 DEF c
    <3>2. ModulesOK([l EXCEPT ![h].use_count = c], n)
      BY <1>2, <1>4, <3>1, Counted
    <3> QED BY <3>2 DEF c
  <2> QED BY <2>1, <2>4
<1>6. FramesOK(frames', n)
  BY <1>1, <1>2, NextEntry DEF NeededIsLoaded, NextNeeded
<1>7. OrdersOK(n)' /\ NamesOK'
  BY <1>1, SameOrders, SameNames DEF NeededIsLoaded
<1> QED BY <1>1, <1>5, <1>6, <1>7, Whole DEF NeededIsLoaded

(* The next entry of a DT_NEEDED list names a file.                        *)
LEMMA NeededFile ==
  ASSUME CoreInv, PendingNeeded
  PROVE  Needed(Me.file)[Me.next] \in File
<1>1. PICK n \in Nat : FramesOK(frames, n)
  BY Parts
<1>2. Me.file \in File /\ Me.next \in Nat \ {0}
  BY <1>1, RunningCall DEF PendingNeeded
<1>3. Needed(Me.file) \in Seq(File)
  BY <1>2, DiskEntries DEF CoreInv
<1>4. Me.next \in 1 .. Len(Needed(Me.file))
  BY <1>2, <1>3, LenProperties DEF PendingNeeded
<1> QED BY <1>3, <1>4, ElementOfSeq

(* The client re-enters the loader.                                        *)
LEMMA LoadDependentInv ==
  ASSUME CoreInv, LoadDependent, disk' = disk
  PROVE  CoreInv'
<1>1. PICK n \in Nat :
        /\ n = Len(loaded) /\ ModulesOK(loaded, n) /\ FramesOK(frames, n)
        /\ OrdersOK(n) /\ ret \in Answer(n) /\ Handles = 1 .. n /\ NewHandle = n + 1
  BY Parts
<1>2. Needed(Me.file)[Me.next] \in File
  BY NeededFile DEF LoadDependent
<1>3. FrameOK(Call("load", Needed(Me.file)[Me.next], 0, "headers"), n)
  BY <1>2, NewCall
<1>4. FramesOK(frames', n)
  BY <1>1, <1>3, PushCall DEF LoadDependent
<1>5. OrdersOK(n)' /\ NamesOK'
  BY <1>1, SameOrders, SameNames DEF LoadDependent
<1> QED BY <1>1, <1>4, <1>5, Whole DEF LoadDependent

(* The client cannot open a needed file.                                   *)
LEMMA DependentNotFoundInv ==
  ASSUME CoreInv, DependentNotFound, disk' = disk
  PROVE  CoreInv'
<1>1. PICK n \in Nat :
        /\ n = Len(loaded) /\ ModulesOK(loaded, n) /\ FramesOK(frames, n)
        /\ OrdersOK(n) /\ ret \in Answer(n) /\ Handles = 1 .. n /\ NewHandle = n + 1
  BY Parts
<1>2. frames # << >> /\ Me.h \in 1 .. n
  BY <1>1, RunningCall DEF DependentNotFound, PendingNeeded
<1>3. ModulesOK(loaded', n)
  BY <1>1, <1>2, Depends DEF DependentNotFound
<1>4. FramesOK(frames', n) /\ ret' \in Answer(n)
  BY <1>1, <1>2, Returned DEF DependentNotFound
<1>5. OrdersOK(n)' /\ NamesOK'
  BY <1>1, SameOrders, SameNames DEF DependentNotFound
<1> QED BY <1>3, <1>4, <1>5, Whole

(* The nested load came back.                                              *)
LEMMA DependentReturnedInv ==
  ASSUME CoreInv, DependentReturned, disk' = disk
  PROVE  CoreInv'
<1>1. PICK n \in Nat :
        /\ n = Len(loaded) /\ ModulesOK(loaded, n) /\ FramesOK(frames, n)
        /\ OrdersOK(n) /\ ret \in Answer(n) /\ Handles = 1 .. n /\ NewHandle = n + 1
  BY Parts
<1>2. Running("load", "needed") /\ frames # << >> /\ Me.h \in 1 .. n /\ ret.val \in 0 .. n
  BY <1>1, RunningCall DEF DependentReturned, Answer
<1>3. ModulesOK(loaded', n)
  BY <1>1, <1>2, Depends DEF DependentReturned
<1>4. FramesOK(frames', n) /\ ret' \in Answer(n)
  <2>1. CASE ret.val = 0
    BY <1>1, <1>2, <2>1, Returned DEF DependentReturned
  <2>2. CASE ret.val # 0
    <3>1. frames' = NextNeeded /\ ret' = NoReturn
      BY <2>2 DEF DependentReturned
    <3>2. FramesOK(NextNeeded, n)
      BY <1>1, <1>2, NextEntry DEF NextNeeded
    <3>3. NoReturn \in Answer(n)
      BY DEF NoReturn, Answer
    <3> QED BY <3>1, <3>2, <3>3
  <2> QED BY <2>1, <2>2
<1>5. OrdersOK(n)' /\ NamesOK'
  BY <1>1, SameOrders, SameNames DEF DependentReturned
<1> QED BY <1>3, <1>4, <1>5, Whole

(* Everything on the DT_NEEDED list is in memory.                          *)
LEMMA NeededDoneInv ==
  ASSUME CoreInv, NeededDone, disk' = disk
  PROVE  CoreInv'
<1>1. PICK n \in Nat :
        /\ n = Len(loaded) /\ ModulesOK(loaded, n) /\ FramesOK(frames, n)
        /\ OrdersOK(n) /\ ret \in Answer(n) /\ Handles = 1 .. n /\ NewHandle = n + 1
  BY Parts
<1>2. frames # << >> /\ FrameOK(Me, n) /\ Me.h \in 1 .. n
  BY <1>1, RunningCall DEF NeededDone
<1>3. FramesOK(frames', n) /\ ret' \in Answer(n)
  <2>1. CASE frames' = Append(Front(frames), [Me EXCEPT !.pc = "relocate"]) /\ UNCHANGED ret
    <3>1. FrameOK([Me EXCEPT !.pc = "relocate"], n)
      BY <1>2 DEF FrameOK, Frame
    <3> QED BY <1>1, <1>2, <2>1, <3>1, TopCall, PushCall
  <2>2. CASE Return("load", Me.h)
    BY <1>1, <1>2, <2>2, Returned
  <2> QED BY <2>1, <2>2 DEF NeededDone
<1>4. NamesOK'
  <2>1. dependency_list \in Seq(Name)
    BY DEF CoreInv, NamesOK
  <2>2. CASE dependency_list = << >>
    <3>1. dependency_list' = << >>
      BY <2>2, SubSeqEmpty DEF NeededDone, LeaveList, Front
    <3> QED BY <2>1, <2>2, <3>1 DEF CoreInv, NamesOK, SoName
  <2>3. CASE dependency_list # << >>
    <3>1. /\ dependency_list' \in Seq(Name)
          /\ Len(dependency_list) \in Nat \ {0}
          /\ Len(dependency_list') = Len(dependency_list) - 1
          /\ \A i \in 1 .. Len(dependency_list) - 1 : dependency_list'[i] = dependency_list[i]
      BY <2>1, <2>3, FrontEntries DEF NeededDone, LeaveList
    <3>2. ToSet(dependency_list') \subseteq ToSet(dependency_list)
      BY <2>1, <3>1, LenProperties DEF ToSet
    <3> QED BY <3>1, <3>2 DEF CoreInv, NamesOK, SoName
  <2> QED BY <2>2, <2>3
<1>5. OrdersOK(n)'
  BY <1>1, SameOrders DEF NeededDone
<1> QED BY <1>1, <1>3, <1>4, <1>5, Whole DEF NeededDone

(* One module of the graph is relocated.                                   *)
LEMMA RelocateInv ==
  ASSUME CoreInv, Relocate, disk' = disk
  PROVE  CoreInv'
<1>1. PICK n \in Nat :
        /\ n = Len(loaded) /\ ModulesOK(loaded, n) /\ FramesOK(frames, n)
        /\ OrdersOK(n) /\ ret \in Answer(n) /\ Handles = 1 .. n /\ NewHandle = n + 1
  BY Parts
<1>2. dependency_stack \in Seq(1 .. n) /\ PopAt \in 1 .. Len(dependency_stack)
  BY <1>1, EmptySeq DEF OrdersOK, Relocate, PopAt
<1>3. dependency_stack[PopAt] \in 1 .. n /\ dependency_stack' \in Seq(1 .. n)
  BY <1>2, ElementOfSeq, RemoveAtEntries DEF Relocate
<1>4. init_order' \in Seq(1 .. n)
  BY <1>1, <1>3, AppendProperties DEF OrdersOK, Relocate
<1>5. OrdersOK(n)' /\ NamesOK'
  BY <1>1, <1>3, <1>4, SameNames DEF OrdersOK, Relocate
<1> QED BY <1>1, <1>5, Whole DEF Relocate

(* The whole graph is relocated.                                           *)
LEMMA RelocateDoneInv ==
  ASSUME CoreInv, RelocateDone, disk' = disk
  PROVE  CoreInv'
<1>1. PICK n \in Nat :
        /\ n = Len(loaded) /\ ModulesOK(loaded, n) /\ FramesOK(frames, n)
        /\ OrdersOK(n) /\ ret \in Answer(n) /\ Handles = 1 .. n /\ NewHandle = n + 1
  BY Parts
<1>2. frames # << >> /\ Me.h \in 1 .. n
  BY <1>1, RunningCall DEF RelocateDone
<1>3. FramesOK(frames', n) /\ ret' \in Answer(n)
  BY <1>1, <1>2, Returned DEF RelocateDone
<1>4. OrdersOK(n)' /\ NamesOK'
  BY <1>1, SameOrders, SameNames DEF RelocateDone
<1> QED BY <1>1, <1>3, <1>4, Whole DEF RelocateDone

(* The symbols of a base image are loaded.                                 *)
LEMMA LoadSymbolsInv ==
  ASSUME CoreInv, NEW f \in File, LoadSymbols(f), disk' = disk
  PROVE  CoreInv'
<1>1. PICK n \in Nat :
        /\ n = Len(loaded) /\ ModulesOK(loaded, n) /\ FramesOK(frames, n)
        /\ OrdersOK(n) /\ ret \in Answer(n) /\ Handles = 1 .. n /\ NewHandle = n + 1
  BY Parts
<1>2. CASE InProcessOfLoading(f)
  BY <1>2, Unmoved DEF LoadSymbols, vars
<1>3. CASE ~InProcessOfLoading(f)
  <2>1. n + 1 \in Nat /\ FramesOK(frames, n + 1) /\ OrdersOK(n + 1)
    BY <1>1, FramesGrow, OrdersGrow
  <2>2. ModulesOK(loaded', n + 1) /\ loaded_objects' \in Seq(1 .. n + 1)
    BY <1>1, <1>3, Enqueued DEF LoadSymbols
  <2>3. OrdersOK(n + 1)'
    <3>1. client' \subseteq 1 .. n + 1
      <4>1. client' = client \cup {n + 1}
        BY <1>1, <1>3 DEF LoadSymbols
      <4>2. client \subseteq 1 .. n + 1
        BY <2>1 DEF OrdersOK
      <4> QED BY <4>1, <4>2
    <3>2. UNCHANGED << dependency_stack, init_order, fini_order >>
      BY DEF LoadSymbols
    <3> QED BY <2>1, <2>2, <3>1, <3>2 DEF OrdersOK
  <2>4. NamesOK'
    BY SameNames DEF LoadSymbols
  <2>5. FramesOK(frames', n + 1) /\ ret' \in Answer(n + 1)
    BY <1>1, <2>1 DEF LoadSymbols, Answer
  <2> QED BY <2>1, <2>2, <2>3, <2>4, <2>5, Whole
<1> QED BY <1>2, <1>3

-----------------------------------------------------------------------------
(* Unloading.                                                              *)

(* The queue without the node of a module.                                 *)
LEMMA QueueShrinks ==
  ASSUME NEW n \in Nat, OrdersOK(n), NEW h
  PROVE  RemoveLoaded(h) \in Seq(1 .. n)
<1>1. loaded_objects \in Seq(1 .. n) /\ DOMAIN loaded_objects = 1 .. Len(loaded_objects)
  BY LenProperties DEF OrdersOK
<1>2. CASE NodesOf(h) = {}
  BY <1>1, <1>2 DEF RemoveLoaded
<1>3. CASE NodesOf(h) # {}
  <2>1. NodesOf(h) \in SUBSET (1 .. Len(loaded_objects)) /\ NodesOf(h) \in SUBSET Nat
    BY <1>1 DEF NodesOf
  <2>2. Min(NodesOf(h)) \in 1 .. Len(loaded_objects)
    BY <1>3, <2>1, FirstOfPlaces
  <2>3. RemoveAt(loaded_objects, Min(NodesOf(h))) \in Seq(1 .. n)
    BY <1>1, <2>2, RemoveAtEntries
  <2> QED BY <1>3, <2>3 DEF RemoveLoaded
<1> QED BY <1>2, <1>3

(* DLOAD_unload is entered with whatever handle: one that is not in memory  *)
(* changes nothing.                                                        *)
LEMMA Entered ==
  ASSUME NEW n \in Nat, ModulesOK(loaded, n), OrdersOK(n), ret \in Answer(n),
         NEW stack, FramesOK(stack, n), NEW h, EnterUnload(h, stack)
  PROVE  /\ ModulesOK(loaded', n)
         /\ FramesOK(frames', n)
         /\ ret' \in Answer(n)
         /\ fini_order' \in Seq(1 .. n)
<1>1. CASE h \notin Live
  <2>1. frames' = stack /\ ret' = [of |-> "unload", val |-> 0] /\ UNCHANGED << loaded, fini_order >>
    BY <1>1 DEF EnterUnload
  <2> QED BY <2>1 DEF Answer, OrdersOK
<1>2. CASE h \in Live
  <2>1. h \in 1 .. n
    BY <1>2, LenProperties, ElementOfSeq DEF OrdersOK, Live, ToSet
  <2>2. loaded[h] \in Module
    BY <2>1, ElementOfSeq DEF ModulesOK
  <2>3. ModulesOK(loaded', n)
    <3> DEFINE c == loaded[h].use_count - 1
    <3>1. c \in Int /\ loaded' = [loaded EXCEPT ![h].use_count = c]
      BY <1>2, <2>2 DEF EnterUnload, Module
    <3> HIDE DEF c
    <3> QED BY <2>1, <3>1, Counted
  <2>4. CASE StillUsed(h)
    <3>1. frames' = stack /\ ret' = [of |-> "unload", val |-> 0] /\ UNCHANGED fini_order
      BY <1>2, <2>4 DEF EnterUnload
    <3> QED BY <2>3, <3>1 DEF Answer, OrdersOK
  <2>5. CASE ~StillUsed(h)
    <3>1. /\ frames' = Append(stack, Call("unload", loaded[h].file, h, "depend"))
          /\ ret' = NoReturn
          /\ fini_order' = Append(fini_order, h)
      BY <1>2, <2>5 DEF EnterUnload
    <3>2. FrameOK(Call("unload", loaded[h].file, h, "depend"), n)
      BY <2>1, <2>2, NewCall DEF Module
    <3>3. fini_order' \in Seq(1 .. n)
      BY <2>1, <3>1, AppendProperties DEF OrdersOK
    <3> QED BY <2>3, <3>1, <3>2, <3>3, PushCall DEF Answer, NoReturn
  <2> QED BY <2>4, <2>5
<1> QED BY <1>1, <1>2

(* The client unloads a handle, one it holds or any other.                 *)
LEMMA ClientUnloadInv ==
  ASSUME CoreInv, Idle, NEW h, EnterUnload(h, << >>), client' = client \ {h}, disk' = disk,
         UNCHANGED << loaded_objects, dependency_list, dependency_stack, init_order >>
  PROVE  CoreInv'
<1>1. PICK n \in Nat :
        /\ n = Len(loaded) /\ ModulesOK(loaded, n) /\ FramesOK(frames, n)
        /\ OrdersOK(n) /\ ret \in Answer(n) /\ Handles = 1 .. n /\ NewHandle = n + 1
  BY Parts
<1>2. FramesOK(<< >>, n)
  BY EmptySeq DEF FramesOK
<1>3. /\ ModulesOK(loaded', n) /\ FramesOK(frames', n) /\ ret' \in Answer(n)
      /\ fini_order' \in Seq(1 .. n)
  BY <1>1, <1>2, Entered
<1>4. OrdersOK(n)' /\ NamesOK'
  BY <1>1, <1>3, SameNames DEF OrdersOK
<1> QED BY <1>3, <1>4, Whole

(* A nested unload.                                                        *)
LEMMA UnloadDependentInv ==
  ASSUME CoreInv, UnloadDependent, disk' = disk
  PROVE  CoreInv'
<1>1. PICK n \in Nat :
        /\ n = Len(loaded) /\ ModulesOK(loaded, n) /\ FramesOK(frames, n)
        /\ OrdersOK(n) /\ ret \in Answer(n) /\ Handles = 1 .. n /\ NewHandle = n + 1
  BY Parts
<1>2. FramesOK(NextDependent, n)
  BY <1>1, NextEntry DEF UnloadDependent, NextDependent
<1>3. /\ ModulesOK(loaded', n) /\ FramesOK(frames', n) /\ ret' \in Answer(n)
      /\ fini_order' \in Seq(1 .. n)
  BY <1>1, <1>2, Entered DEF UnloadDependent
<1>4. UNCHANGED << loaded_objects, dependency_list, dependency_stack, client, init_order >>
  BY DEF UnloadDependent
<1>5. OrdersOK(n)' /\ NamesOK'
  BY <1>1, <1>3, <1>4, SameNames DEF OrdersOK
<1> QED BY <1>3, <1>5, Whole

(* The nested unload came back.                                            *)
LEMMA DependentUnloadedInv ==
  ASSUME CoreInv, DependentUnloaded, disk' = disk
  PROVE  CoreInv'
<1>1. PICK n \in Nat :
        /\ n = Len(loaded) /\ ModulesOK(loaded, n) /\ FramesOK(frames, n)
        /\ OrdersOK(n) /\ ret \in Answer(n) /\ Handles = 1 .. n /\ NewHandle = n + 1
  BY Parts
<1>2. ret' \in Answer(n)
  BY DEF DependentUnloaded, NoReturn, Answer
<1>3. OrdersOK(n)' /\ NamesOK'
  BY <1>1, SameOrders, SameNames DEF DependentUnloaded
<1> QED BY <1>1, <1>2, <1>3, Whole DEF DependentUnloaded

(* A module is freed, or the program aborted.                              *)
LEMMA UnloadDoneInv ==
  ASSUME CoreInv, UnloadDone \/ AbortOnDoubleFree, disk' = disk
  PROVE  CoreInv'
<1>1. PICK n \in Nat :
        /\ n = Len(loaded) /\ ModulesOK(loaded, n) /\ FramesOK(frames, n)
        /\ OrdersOK(n) /\ ret \in Answer(n) /\ Handles = 1 .. n /\ NewHandle = n + 1
  BY Parts
<1>2. frames # << >>
  BY <1>1, RunningCall DEF UnloadDone, AbortOnDoubleFree
<1>3. /\ loaded_objects' = RemoveLoaded(Me.h)
      /\ UNCHANGED << loaded, dependency_list, dependency_stack, client, init_order, fini_order >>
  BY DEF UnloadDone, AbortOnDoubleFree
<1>4. FramesOK(frames', n) /\ ret' \in Answer(n)
  <2>1. 0 \in 0 .. n /\ 1 \in 0 .. n
    <3>1. Me.h \in 1 .. n
      BY <1>1, RunningCall DEF UnloadDone, AbortOnDoubleFree
    <3> QED BY <3>1
  <2>2. CASE UnloadDone
    BY <1>1, <1>2, <2>1, <2>2, Returned DEF UnloadDone
  <2>3. CASE AbortOnDoubleFree
    BY <1>1, <2>1, <2>3 DEF AbortOnDoubleFree, Answer
  <2> QED BY <2>2, <2>3
<1>5. OrdersOK(n)' /\ NamesOK'
  BY <1>1, <1>3, QueueShrinks, SameNames DEF OrdersOK
<1> QED BY <1>1, <1>3, <1>4, <1>5, Whole

(* The client takes the answer.                                            *)
LEMMA TopReturnedInv ==
  ASSUME CoreInv, TopReturned, disk' = disk
  PROVE  CoreInv'
<1>1. PICK n \in Nat :
        /\ n = Len(loaded) /\ ModulesOK(loaded, n) /\ FramesOK(frames, n)
        /\ OrdersOK(n) /\ ret \in Answer(n) /\ Handles = 1 .. n /\ NewHandle = n + 1
  BY Parts
<1>2. client' \subseteq 1 .. n
  <2>1. client \subseteq 1 .. n /\ ret.val \in 0 .. n
    BY <1>1 DEF OrdersOK, Answer
  <2>2. CASE ret.of = "load" /\ ret.val # 0
    <3>1. ret.val \in 1 .. n /\ client' = client \cup {ret.val}
      BY <2>1, <2>2 DEF TopReturned
    <3> QED BY <2>1, <3>1
  <2>3. CASE ~(ret.of = "load" /\ ret.val # 0)
    BY <2>1, <2>3 DEF TopReturned
  <2> QED BY <2>2, <2>3
<1>3. ret' \in Answer(n)
  BY DEF TopReturned, NoReturn, Answer
<1>4. UNCHANGED << loaded, loaded_objects, dependency_list, dependency_stack, frames,
                   init_order, fini_order >>
  BY DEF TopReturned
<1>5. OrdersOK(n)' /\ NamesOK'
  BY <1>1, <1>2, <1>4, SameNames DEF OrdersOK
<1> QED BY <1>1, <1>3, <1>4, <1>5, Whole

-----------------------------------------------------------------------------
(* Every step of the loader and of its client.                             *)
LEMMA LoadStepInv ==
  ASSUME CoreInv, LoadStep, disk' = disk
  PROVE  CoreInv'
  BY RejectInv, FailAllocationInv, PlaceModuleInv, NeededIsLoadedInv, LoadDependentInv,
     DependentNotFoundInv, DependentReturnedInv, NeededDoneInv, RelocateInv, RelocateDoneInv
     DEF LoadStep

(* Every step of an unload.                                                *)
LEMMA UnloadStepInv ==
  ASSUME CoreInv, UnloadStep, disk' = disk
  PROVE  CoreInv'
  BY UnloadDependentInv, DependentUnloadedInv, UnloadDoneInv DEF UnloadStep

(* Every step of the core and of its client.                               *)
LEMMA CoreNextInv == CoreInv /\ [Next]_vars => CoreInv'
<1> SUFFICES ASSUME CoreInv, [Next]_vars PROVE CoreInv'
  OBVIOUS
<1>1. CASE UNCHANGED vars
  BY <1>1, Unmoved
<1>2. CASE LoaderStep
  BY <1>2, LoadStepInv, UnloadStepInv, TopReturnedInv DEF LoaderStep
<1>3. ASSUME NEW f \in File, TopLoad(f) \/ LoadSymbols(f), disk' = disk PROVE CoreInv'
  BY <1>3, TopLoadInv, LoadSymbolsInv
<1>4. ASSUME NEW h \in client, TopUnload(h), disk' = disk PROVE CoreInv'
  BY <1>4, ClientUnloadInv DEF TopUnload
<1> QED BY <1>1, <1>2, <1>3, <1>4 DEF Next, ClientStep

(* The invariant at the start.                                             *)
LEMMA CoreInitInv == Init => CoreInv
<1> SUFFICES ASSUME Init PROVE CoreInv
  OBVIOUS
<1>1. Len(loaded) = 0 /\ ModulesOK(loaded, 0) /\ FramesOK(frames, 0)
  BY EmptySeq DEF Init, ModulesOK, FramesOK
<1>2. OrdersOK(0) /\ NamesOK /\ ret \in Answer(0)
  BY EmptySeq DEF Init, OrdersOK, NamesOK, Answer, NoReturn, ToSet
<1> QED BY <1>1, <1>2 DEF CoreInv, Init

(* The invariant implies the types.                                        *)
LEMMA CoreTypes == CoreInv => TypeOK
<1> SUFFICES ASSUME CoreInv PROVE TypeOK
  OBVIOUS
<1>1. PICK n \in Nat :
        /\ n = Len(loaded) /\ ModulesOK(loaded, n) /\ FramesOK(frames, n)
        /\ OrdersOK(n) /\ ret \in Answer(n) /\ Handles = 1 .. n
  BY Parts
<1> QED BY <1>1 DEF CoreInv, TypeOK, ModulesOK, Module, FramesOK, OrdersOK, NamesOK, Answer

(* The type invariant of the loader core, with any faults.                 *)
THEOREM CoreTypeCorrect == Spec => []TypeOK
  BY CoreInitInv, CoreNextInv, CoreTypes, PTL DEF Spec

-----------------------------------------------------------------------------
(* Somebody other than a module has a use of h.                            *)
Outside(h) ==
  \/ h \in client
  \/ ret = [of |-> "load", val |-> h]
  \/ \E i \in DOMAIN frames : frames[i].op = "load" /\ frames[i].h = h

(* A call gives up what m needs.                                           *)
BeingUnloaded(m) == \E i \in DOMAIN frames : frames[i].op = "unload" /\ frames[i].h = m

(* The calls under way are all of one kind.                                *)
Loading   == \A i \in DOMAIN frames : frames[i].op = "load"
Unloading == \A i \in DOMAIN frames : frames[i].op = "unload"

(* The calls: only the one on top is elsewhere than at its list, and no     *)
(* two work on the same module.                                            *)
CallsOK ==
  /\ Loading \/ Unloading
  /\ \A i \in DOMAIN frames :
       /\ frames[i].op = "unload" <=> frames[i].pc = "depend"
       /\ frames[i].pc = "headers" => frames[i].h = 0
       /\ i < Len(frames) => frames[i].pc \in {"needed", "depend"}
  /\ \A i, j \in DOMAIN frames : (frames[i].h = frames[j].h /\ frames[i].h # 0) => i = j

(* The answer: it is of the kind of the calls, and somebody waits for it.  *)
ReturnOK ==
  /\ (frames # << >> /\ Me.pc \in {"headers", "relocate"}) => ret = NoReturn
  /\ ret.of = "none" => ret.val = 0
  /\ ret.of = "load" => Loading
  /\ ret.of \in {"unload", "abort"} => Unloading
  /\ ret.of = "abort" => frames # << >>

(* A handle is with the call that loads it, or in the answer, or with the   *)
(* client.                                                                 *)
OneHolder ==
  /\ \A i \in DOMAIN frames : frames[i].op = "load" => frames[i].h \notin client
  /\ (ret.of = "load" /\ ret.val # 0) =>
       ret.val \notin client /\ \A i \in DOMAIN frames : frames[i].h # ret.val

(* No module is in the queue twice.                                        *)
QueuedOnce ==
  \A i, j \in DOMAIN loaded_objects : loaded_objects[i] = loaded_objects[j] => i = j

(* The calls under way.                                                    *)
ControlInv == CallsOK /\ ReturnOK /\ OneHolder /\ QueuedOnce

(* What is being unloaded has no use left and was terminated; the rest of   *)
(* what is in memory has a use, and was not.                               *)
ModuleState ==
  /\ \A m \in Live : IF BeingUnloaded(m) THEN loaded[m].use_count = 0 /\ Terminated(m)
                     ELSE loaded[m].use_count >= 1 /\ ~Terminated(m)
  /\ ret.of # "abort" => \A m \in Handles : BeingUnloaded(m) => m \in Live

(* What somebody has a use of is in memory.                                *)
UsedIsLive ==
  \A h \in Handles : Outside(h) \/ UsesByModules(h) # {} => h \in Live

(* The uses of h: one outside the modules at most, and one per entry.      *)
AllUses(h) == (IF Outside(h) THEN 1 ELSE 0) + Cardinality(UsesByModules(h))

(* The use counts cover the uses.                                          *)
Covered == \A h \in Live : loaded[h].use_count >= AllUses(h)

(* The modules in memory.                                                  *)
UseInv == ControlInv /\ ModuleState /\ UsedIsLive /\ Covered

-----------------------------------------------------------------------------
(* The calls under way as an array.                                        *)
LEMMA CallArray ==
  ASSUME CoreInv
  PROVE  /\ frames \in Seq(Frame) /\ Len(frames) \in Nat /\ DOMAIN frames = 1 .. Len(frames)
         /\ Len(loaded) \in Nat /\ Handles = 1 .. Len(loaded)
         /\ \A i \in 1 .. Len(frames) :
              /\ frames[i] \in Frame /\ frames[i].h \in 0 .. Len(loaded)
              /\ frames[i].file \in File /\ frames[i].next \in Nat \ {0}
              /\ frames[i].pc # "headers" => frames[i].h # 0
<1>1. frames \in Seq(Frame) /\ Len(loaded) \in Nat
  BY DEF CoreInv, FramesOK
<1>2. Len(frames) \in Nat /\ DOMAIN frames = 1 .. Len(frames)
  BY <1>1, LenProperties
<1>3. ASSUME NEW i \in 1 .. Len(frames)
      PROVE  /\ frames[i] \in Frame /\ frames[i].h \in 0 .. Len(loaded)
             /\ frames[i].file \in File /\ frames[i].next \in Nat \ {0}
             /\ frames[i].pc # "headers" => frames[i].h # 0
  <2>1. FrameOK(frames[i], Len(loaded))
    BY DEF CoreInv, FramesOK
  <2> QED BY <1>1, <2>1 DEF FrameOK, Frame
<1> QED BY <1>1, <1>2, <1>3 DEF Handles

(* The call on top of the stack.                                           *)
LEMMA TopOfCalls ==
  ASSUME CoreInv, frames # << >>
  PROVE  Len(frames) \in Nat \ {0} /\ Me = frames[Len(frames)] /\ Me \in Frame
  BY FrontEntries DEF CoreInv, FramesOK, Me

(* A call returns.                                                         *)
Popped ==
  /\ frames # << >>
  /\ Len(frames') = Len(frames) - 1 /\ DOMAIN frames' = 1 .. Len(frames) - 1
  /\ \A i \in 1 .. Len(frames) - 1 : frames'[i] = frames[i]

(* The call on top goes on as f.                                           *)
Replaced(f) ==
  /\ frames # << >>
  /\ Len(frames') = Len(frames) /\ DOMAIN frames' = 1 .. Len(frames)
  /\ \A i \in 1 .. Len(frames) : frames'[i] = IF i = Len(frames) THEN f ELSE frames[i]

(* The call f is made.                                                     *)
Pushed(f) ==
  /\ Len(frames') = Len(frames) + 1 /\ DOMAIN frames' = 1 .. Len(frames) + 1
  /\ \A i \in 1 .. Len(frames) + 1 : frames'[i] = IF i = Len(frames) + 1 THEN f ELSE frames[i]

(* The call on top goes on as f and makes the call g.                      *)
ReplacedPushed(f, g) ==
  /\ frames # << >>
  /\ Len(frames') = Len(frames) + 1 /\ DOMAIN frames' = 1 .. Len(frames) + 1
  /\ \A i \in 1 .. Len(frames) + 1 :
       frames'[i] = IF i = Len(frames) + 1 THEN g ELSE IF i = Len(frames) THEN f ELSE frames[i]

(* Front pops a call.                                                      *)
LEMMA PopFrames ==
  ASSUME CoreInv, frames # << >>, frames' = Front(frames)
  PROVE  Popped
<1>1. /\ Len(frames) \in Nat \ {0} /\ frames' \in Seq(Frame) /\ Len(frames') = Len(frames) - 1
      /\ \A i \in 1 .. Len(frames) - 1 : frames'[i] = frames[i]
  BY FrontEntries DEF CoreInv, FramesOK
<1>2. DOMAIN frames' = 1 .. Len(frames')
  BY <1>1, LenProperties
<1> QED BY <1>1, <1>2 DEF Popped

(* Front and Append replace a call.                                        *)
LEMMA ReplaceFrame ==
  ASSUME CoreInv, frames # << >>, NEW f \in Frame, frames' = Append(Front(frames), f)
  PROVE  Replaced(f)
<1> DEFINE rest == Front(frames)
<1>1. /\ Len(frames) \in Nat \ {0} /\ rest \in Seq(Frame) /\ Len(rest) = Len(frames) - 1
      /\ \A i \in 1 .. Len(frames) - 1 : rest[i] = frames[i]
  BY FrontEntries DEF CoreInv, FramesOK
<1> HIDE DEF rest
<1>2. /\ Append(rest, f) \in Seq(Frame) /\ Len(Append(rest, f)) = Len(rest) + 1
      /\ \A i \in 1 .. Len(rest) : Append(rest, f)[i] = rest[i]
      /\ Append(rest, f)[Len(rest) + 1] = f
  BY <1>1, AppendProperties
<1>3. frames' = Append(rest, f)
  BY DEF rest
<1>4. DOMAIN frames' = 1 .. Len(frames')
  BY <1>2, <1>3, LenProperties
<1>5. \A i \in 1 .. Len(frames) : i = Len(frames) \/ i \in 1 .. Len(frames) - 1
  BY <1>1
<1> QED BY <1>1, <1>2, <1>3, <1>4, <1>5 DEF Replaced

(* Append makes a call.                                                    *)
LEMMA PushFrame ==
  ASSUME CoreInv, NEW f \in Frame, frames' = Append(frames, f)
  PROVE  Pushed(f)
<1>1. frames \in Seq(Frame) /\ Len(frames) \in Nat
  BY CallArray
<1>2. /\ frames' \in Seq(Frame) /\ Len(frames') = Len(frames) + 1
      /\ \A i \in 1 .. Len(frames) : frames'[i] = frames[i]
      /\ frames'[Len(frames) + 1] = f
  BY <1>1, AppendProperties
<1>3. DOMAIN frames' = 1 .. Len(frames')
  BY <1>2, LenProperties
<1>4. \A i \in 1 .. Len(frames) + 1 : i = Len(frames) + 1 \/ i \in 1 .. Len(frames)
  BY <1>1
<1> QED BY <1>1, <1>2, <1>3, <1>4 DEF Pushed

(* Front and two Appends replace a call and make one.                      *)
LEMMA ReplacePushFrame ==
  ASSUME CoreInv, frames # << >>, NEW f \in Frame, NEW g \in Frame,
         frames' = Append(Append(Front(frames), f), g)
  PROVE  ReplacedPushed(f, g)
<1> DEFINE rest == Front(frames)
           mid == Append(rest, f)
<1>1. /\ Len(frames) \in Nat \ {0} /\ rest \in Seq(Frame) /\ Len(rest) = Len(frames) - 1
      /\ \A i \in 1 .. Len(frames) - 1 : rest[i] = frames[i]
  BY FrontEntries DEF CoreInv, FramesOK
<1> HIDE DEF rest
<1>2. /\ mid \in Seq(Frame) /\ Len(mid) = Len(rest) + 1
      /\ \A i \in 1 .. Len(rest) : mid[i] = rest[i]
      /\ mid[Len(rest) + 1] = f
  BY <1>1, AppendProperties
<1>3. frames' = Append(mid, g)
  BY DEF mid, rest
<1> HIDE DEF mid
<1>4. /\ frames' \in Seq(Frame) /\ Len(frames') = Len(mid) + 1
      /\ \A i \in 1 .. Len(mid) : frames'[i] = mid[i]
      /\ frames'[Len(mid) + 1] = g
  BY <1>2, <1>3, AppendProperties
<1>5. DOMAIN frames' = 1 .. Len(frames')
  BY <1>4, LenProperties
<1>6. \A i \in 1 .. Len(frames) + 1 :
         i = Len(frames) + 1 \/ i = Len(frames) \/ i \in 1 .. Len(frames) - 1
  BY <1>1
<1> QED BY <1>1, <1>2, <1>4, <1>5, <1>6 DEF ReplacedPushed

-----------------------------------------------------------------------------
(* The call that runs, and what it says of all the others.                 *)
LEMMA RunningTop ==
  ASSUME CoreInv, CallsOK, NEW op, NEW pc, Running(op, pc)
  PROVE  /\ frames # << >> /\ Len(frames) \in Nat \ {0}
         /\ Me = frames[Len(frames)] /\ Me \in Frame /\ Me.op = op /\ Me.pc = pc
         /\ op = "load" => Loading
         /\ op = "unload" => Unloading
<1>1. frames # << >> /\ Me.op = op /\ Me.pc = pc
  BY DEF Running, Me
<1>2. Len(frames) \in Nat \ {0} /\ Me = frames[Len(frames)] /\ Me \in Frame
  BY <1>1, TopOfCalls
<1>3. Len(frames) \in DOMAIN frames
  BY <1>2, CallArray
<1> QED BY <1>1, <1>2, <1>3 DEF CallsOK, Loading, Unloading

(* When a call returns the calls below it are as they were, and the one    *)
(* that goes on is at its list.                                            *)
LEMMA CallsPopped ==
  ASSUME CoreInv, CoreInv', CallsOK, Popped
  PROVE  CallsOK' /\ (frames' # << >> => Me'.pc \in {"needed", "depend"})
<1>1. DOMAIN frames = 1 .. Len(frames) /\ Len(frames) \in Nat
  BY CallArray
<1>2. CallsOK'
  BY <1>1 DEF CallsOK, Popped, Loading, Unloading
<1>3. ASSUME frames' # << >> PROVE Me'.pc \in {"needed", "depend"}
  <2>1. Len(frames') \in Nat \ {0} /\ Me' = frames'[Len(frames')]
    BY <1>3, FrontEntries DEF CoreInv, FramesOK, Me
  <2>2. Len(frames') \in 1 .. Len(frames) - 1 /\ Me' = frames[Len(frames) - 1]
    BY <1>1, <2>1 DEF Popped
  <2> QED BY <1>1, <2>1, <2>2 DEF CallsOK, Popped
<1> QED BY <1>2, <1>3

(* The call that runs goes on with the module it has, or with a new one.   *)
LEMMA CallsReplaced ==
  ASSUME CoreInv, CoreInv', CallsOK, NEW f, Replaced(f), f.op = Me.op,
         f.op = "unload" <=> f.pc = "depend", f.pc = "headers" => f.h = 0,
         f.h = Me.h \/ f.h \notin Handles
  PROVE  CallsOK' /\ Me' = f
<1>1. /\ DOMAIN frames = 1 .. Len(frames) /\ Len(frames) \in Nat \ {0} /\ Me = frames[Len(frames)]
      /\ \A i \in 1 .. Len(frames) : frames[i].h = 0 \/ frames[i].h \in Handles
  <2>1. \A i \in 1 .. Len(frames) : frames[i].h = 0 \/ frames[i].h \in 1 .. Len(loaded)
    <3>1. \A x \in 0 .. Len(loaded) : x = 0 \/ x \in 1 .. Len(loaded)
      BY CallArray
    <3> QED BY <3>1, CallArray
  <2> QED BY <2>1, CallArray, TopOfCalls DEF Replaced
<1>2. Loading' \/ Unloading'
  BY <1>1 DEF CallsOK, Replaced, Loading, Unloading
<1>3. \A i, j \in 1 .. Len(frames) :
        (frames'[i].h = frames'[j].h /\ frames'[i].h # 0) => i = j
  <2>1. ASSUME NEW i \in 1 .. Len(frames), NEW j \in 1 .. Len(frames),
               frames'[i].h = frames'[j].h, frames'[i].h # 0, i # j
        PROVE  FALSE
    <3>1. CASE f.h = Me.h
      BY <1>1, <2>1, <3>1 DEF CallsOK, Replaced
    <3>2. CASE f.h \notin Handles
      BY <1>1, <2>1, <3>2 DEF CallsOK, Replaced
    <3> QED BY <3>1, <3>2
  <2> QED BY <2>1
<1>4. \A i \in 1 .. Len(frames) :
       /\ frames'[i].op = "unload" <=> frames'[i].pc = "depend"
       /\ frames'[i].pc = "headers" => frames'[i].h = 0
       /\ i < Len(frames) => frames'[i].pc \in {"needed", "depend"}
  <2>1. ASSUME NEW i \in 1 .. Len(frames), i = Len(frames)
        PROVE  /\ frames'[i].op = "unload" <=> frames'[i].pc = "depend"
               /\ frames'[i].pc = "headers" => frames'[i].h = 0
               /\ ~(i < Len(frames))
    <3>1. frames'[i] = f
      BY <2>1 DEF Replaced
    <3> QED BY <1>1, <2>1, <3>1
  <2>2. ASSUME NEW i \in 1 .. Len(frames), i # Len(frames)
        PROVE  /\ frames'[i].op = "unload" <=> frames'[i].pc = "depend"
               /\ frames'[i].pc = "headers" => frames'[i].h = 0
               /\ i < Len(frames) => frames'[i].pc \in {"needed", "depend"}
    BY <1>1, <2>2 DEF CallsOK, Replaced
  <2> QED BY <2>1, <2>2
<1>5. CallsOK'
  BY <1>2, <1>3, <1>4 DEF CallsOK, Replaced
<1>6. Me' = f
  <2>1. frames' # << >> => Me' = frames'[Len(frames')]
    BY FrontEntries DEF CoreInv, FramesOK, Me
  <2>2. frames' # << >>
    BY <1>1, EmptySeq DEF Replaced
  <2> QED BY <2>1, <2>2 DEF Replaced
<1> QED BY <1>5, <1>6

(* A call is made from a list, on a module no call works on yet.           *)
LEMMA CallsPushed ==
  ASSUME CoreInv, CoreInv', CallsOK, NEW f, Pushed(f),
         f.op = "unload" <=> f.pc = "depend", f.pc = "headers" => f.h = 0,
         \A i \in 1 .. Len(frames) :
            /\ frames[i].op = f.op
            /\ frames[i].pc \in {"needed", "depend"}
            /\ f.h # 0 => frames[i].h # f.h,
         f.op \in {"load", "unload"}
  PROVE  CallsOK' /\ Me' = f
<1>1. DOMAIN frames = 1 .. Len(frames) /\ Len(frames) \in Nat
  BY CallArray
<1>2. CallsOK'
  BY <1>1 DEF CallsOK, Pushed, Loading, Unloading
<1>3. Me' = f
  <2>1. frames' # << >> => Me' = frames'[Len(frames')]
    BY FrontEntries DEF CoreInv, FramesOK, Me
  <2>2. frames' # << >>
    BY <1>1, EmptySeq DEF Pushed
  <2> QED BY <2>1, <2>2 DEF Pushed
<1> QED BY <1>2, <1>3

(* A load returns: its handle goes over into the answer, or is lost.       *)
LEMMA LoadReturned ==
  ASSUME CoreInv, CoreInv', ControlInv, NEW pc, Running("load", pc), NEW v, v = 0 \/ v = Me.h,
         Return("load", v), client' = client, QueuedOnce'
  PROVE  /\ ControlInv' /\ Loading /\ Loading'
         /\ \A h \in Handles : Outside(h)' => Outside(h)
         /\ ret'.of # "abort"
<1>1. /\ DOMAIN frames = 1 .. Len(frames) /\ Len(frames) \in Nat \ {0}
      /\ Me = frames[Len(frames)] /\ Me.op = "load" /\ Loading /\ Handles = 1 .. Len(loaded)
      /\ Popped /\ ret' = [of |-> "load", val |-> v]
  BY RunningTop, CallArray, PopFrames DEF Return, ControlInv
<1>2. CallsOK' /\ (frames' # << >> => Me'.pc \in {"needed", "depend"})
  BY <1>1, CallsPopped DEF ControlInv
<1>3. Loading'
  BY <1>1 DEF Loading, Popped
<1>4. ReturnOK'
  BY <1>1, <1>2, <1>3 DEF ReturnOK
<1>5. OneHolder'
  BY <1>1 DEF ControlInv, OneHolder, CallsOK, Loading, Popped
<1>6. \A h \in Handles : Outside(h)' => Outside(h)
  <2>1. ASSUME NEW h \in Handles, Outside(h)' PROVE Outside(h)
    <3>1. CASE h \in client'
      BY <3>1 DEF Outside
    <3>2. CASE ret' = [of |-> "load", val |-> h]
      <4>1. Me.h = h
        BY <1>1, <3>2
      <4> QED BY <1>1, <4>1 DEF Outside
    <3>3. CASE \E i \in DOMAIN frames' : frames'[i].op = "load" /\ frames'[i].h = h
      BY <1>1, <3>3 DEF Outside, Popped
    <3> QED BY <2>1, <3>1, <3>2, <3>3 DEF Outside
  <2> QED BY <2>1
<1> QED BY <1>1, <1>2, <1>3, <1>4, <1>5, <1>6 DEF ControlInv

(* A load goes on: with the module it has, or with the one it just placed. *)
LEMMA LoadGoesOn ==
  ASSUME CoreInv, CoreInv', ControlInv, NEW pc, Running("load", pc), NEW f \in Frame,
         frames' = Append(Front(frames), f), f.op = "load", f.pc \in {"needed", "relocate"},
         f.h = Me.h \/ f.h = NewHandle, ret' = NoReturn, client' = client, QueuedOnce'
  PROVE  /\ ControlInv' /\ Loading /\ Loading'
         /\ \A h \in Handles : Outside(h)' => Outside(h)
         /\ \A h \in Handles : ret = [of |-> "load", val |-> h] => Outside(h) /\ ~Outside(h)'
         /\ ret'.of # "abort"
<1>1. /\ DOMAIN frames = 1 .. Len(frames) /\ Len(frames) \in Nat \ {0}
      /\ Me = frames[Len(frames)] /\ Me.op = "load" /\ Loading
      /\ Handles = 1 .. Len(loaded) /\ Len(loaded) \in Nat
      /\ NewHandle \notin Handles
      /\ Replaced(f) /\ client \subseteq Handles
  BY RunningTop, CallArray, ReplaceFrame DEF ControlInv, NewHandle, CoreInv, OrdersOK
<1>2. CallsOK' /\ Me' = f
  BY <1>1, CallsReplaced DEF ControlInv
<1>3. Loading'
  BY <1>1 DEF Loading, Replaced
<1>4. ReturnOK'
  BY <1>2, <1>3 DEF ReturnOK, NoReturn
<1>5. OneHolder'
  BY <1>1 DEF ControlInv, OneHolder, Replaced, NoReturn, Loading
<1>6. ASSUME NEW h \in Handles, Outside(h)'
      PROVE  h \in client \/ \E i \in DOMAIN frames : frames[i].op = "load" /\ frames[i].h = h
  <2>1. h \in client' \/ \E i \in DOMAIN frames' : frames'[i].op = "load" /\ frames'[i].h = h
    BY <1>6 DEF Outside, NoReturn
  <2>2. CASE \E i \in DOMAIN frames' : frames'[i].op = "load" /\ frames'[i].h = h
    <3>1. PICK i \in DOMAIN frames' : frames'[i].op = "load" /\ frames'[i].h = h
      BY <2>2
    <3>2. CASE i = Len(frames)
      BY <1>1, <3>1, <3>2 DEF Replaced
    <3>3. CASE i # Len(frames)
      BY <1>1, <3>1, <3>3 DEF Replaced
    <3> QED BY <3>2, <3>3
  <2> QED BY <2>1, <2>2
<1>7. \A h \in Handles : Outside(h)' => Outside(h)
  BY <1>6 DEF Outside
<1>8. ASSUME NEW h \in Handles, ret = [of |-> "load", val |-> h]
      PROVE  Outside(h) /\ ~Outside(h)'
  <2>1. h # 0 /\ ret.of = "load" /\ ret.val = h
    BY <1>1, <1>8
  <2>2. h \notin client /\ \A i \in DOMAIN frames : frames[i].h # h
    BY <2>1 DEF ControlInv, OneHolder
  <2>3. Outside(h)
    BY <1>8 DEF Outside
  <2> QED BY <1>6, <2>2, <2>3
<1>9. ret'.of # "abort"
  BY DEF NoReturn
<1>10. ControlInv'
  BY <1>2, <1>4, <1>5 DEF ControlInv
<1> QED BY <1>1, <1>3, <1>7, <1>8, <1>9, <1>10

(* A load is called, by the client or for a dependent.                     *)
LEMMA LoadCalled ==
  ASSUME CoreInv, CoreInv', ControlInv, Loading, NEW f \in File,
         frames' = Append(frames, Call("load", f, 0, "headers")),
         frames # << >> => Me.pc = "needed",
         ret = NoReturn, UNCHANGED << ret, client, loaded_objects >>
  PROVE  /\ ControlInv' /\ Loading'
         /\ \A h \in Handles : Outside(h)' => Outside(h)
<1> DEFINE g == Call("load", f, 0, "headers")
<1>1. g \in Frame /\ g.op = "load" /\ g.pc = "headers" /\ g.h = 0
  BY DEF Call, Frame
<1> HIDE DEF g
<1>2. /\ DOMAIN frames = 1 .. Len(frames) /\ Len(frames) \in Nat /\ Handles = 1 .. Len(loaded)
      /\ frames # << >> => Len(frames) # 0 /\ Me = frames[Len(frames)]
      /\ frames = << >> => Len(frames) = 0
  BY CallArray, TopOfCalls
<1>3. Pushed(g)
  BY <1>1, PushFrame DEF g
<1>4. CallsOK' /\ Me' = g
  <2>1. \A i \in 1 .. Len(frames) :
            /\ frames[i].op = g.op
            /\ frames[i].pc \in {"needed", "depend"}
            /\ g.h # 0 => frames[i].h # g.h
    BY <1>1, <1>2 DEF ControlInv, CallsOK, Loading
  <2>2. CallsOK
    BY DEF ControlInv
  <2>3. g.op \in {"load", "unload"} /\ (g.op = "unload" <=> g.pc = "depend") /\ (g.pc = "headers" => g.h = 0)
    BY <1>1
  <2> QED BY <1>3, <2>1, <2>2, <2>3, CallsPushed
<1>5. Loading'
  BY <1>1, <1>2, <1>3 DEF Loading, Pushed
<1>6. ReturnOK'
  BY <1>5 DEF ReturnOK, NoReturn
<1>7. OneHolder'
  <2>1. 0 \notin client
    BY <1>2 DEF CoreInv, OrdersOK
  <2> QED BY <1>1, <1>2, <1>3, <2>1 DEF ControlInv, OneHolder, Pushed, NoReturn
<1>8. \A h \in Handles : Outside(h)' => Outside(h)
  BY <1>1, <1>2, <1>3 DEF Outside, Pushed
<1>9. QueuedOnce'
  BY DEF ControlInv, QueuedOnce
<1> QED BY <1>4, <1>5, <1>6, <1>7, <1>8, <1>9 DEF ControlInv

(* An unload goes on to the next entry, past one it had only to count.     *)
LEMMA UnloadSkips ==
  ASSUME CoreInv, CoreInv', ControlInv, Running("unload", "depend"),
         frames' = NextDependent, ret' = [of |-> "unload", val |-> 0],
         UNCHANGED << client, loaded_objects >>
  PROVE  ControlInv' /\ Unloading /\ Unloading' /\ Replaced([Me EXCEPT !.next = Me.next + 1])
<1> DEFINE f == [Me EXCEPT !.next = Me.next + 1]
<1>1. /\ DOMAIN frames = 1 .. Len(frames) /\ Len(frames) \in Nat \ {0}
      /\ Me = frames[Len(frames)] /\ Me.op = "unload" /\ Me.pc = "depend" /\ Me \in Frame /\ Unloading
  BY RunningTop, CallArray DEF ControlInv
<1>2. f \in Frame /\ f.op = "unload" /\ f.pc = "depend" /\ f.h = Me.h
  BY <1>1 DEF Frame
<1>3. frames' = Append(Front(frames), f) /\ frames # << >>
  BY DEF NextDependent, Running
<1> HIDE DEF f
<1>4. Replaced(f)
  BY <1>2, <1>3, ReplaceFrame
<1>5. CallsOK' /\ Me' = f
  <2>1. CallsOK
    BY DEF ControlInv
  <2> QED BY <1>1, <1>2, <1>4, <2>1, CallsReplaced
<1>6. Unloading'
  BY <1>1, <1>2, <1>4 DEF Unloading, Replaced
<1>7. ReturnOK'
  BY <1>2, <1>5, <1>6 DEF ReturnOK
<1>8. OneHolder'
  BY <1>1, <1>2, <1>4, <1>6 DEF OneHolder, Unloading
<1>9. QueuedOnce'
  BY DEF ControlInv, QueuedOnce
<1> QED BY <1>1, <1>4, <1>5, <1>6, <1>7, <1>8, <1>9 DEF ControlInv, f

(* An unload calls the unload of a dependent whose last use it gave up.    *)
LEMMA UnloadNests ==
  ASSUME CoreInv, CoreInv', ControlInv, Running("unload", "depend"),
         NEW file \in File, NEW h \in Handles, \A i \in DOMAIN frames : frames[i].h # h,
         frames' = Append(NextDependent, Call("unload", file, h, "depend")), ret' = NoReturn,
         UNCHANGED << client, loaded_objects >>
  PROVE  /\ ControlInv' /\ Unloading /\ Unloading'
         /\ ReplacedPushed([Me EXCEPT !.next = Me.next + 1], Call("unload", file, h, "depend"))
<1> DEFINE f == [Me EXCEPT !.next = Me.next + 1]
           g == Call("unload", file, h, "depend")
<1>1. /\ DOMAIN frames = 1 .. Len(frames) /\ Len(frames) \in Nat \ {0} /\ Handles = 1 .. Len(loaded)
      /\ Me = frames[Len(frames)] /\ Me.op = "unload" /\ Me.pc = "depend" /\ Me \in Frame /\ Unloading
  BY RunningTop, CallArray DEF ControlInv
<1>2. f \in Frame /\ f.op = "unload" /\ f.pc = "depend" /\ f.h = Me.h
  BY <1>1 DEF Frame
<1>3. g \in Frame /\ g.op = "unload" /\ g.pc = "depend" /\ g.h = h /\ h # 0
  BY <1>1 DEF Frame, Call
<1>4. frames' = Append(Append(Front(frames), f), g) /\ frames # << >>
  BY DEF NextDependent, Running
<1> HIDE DEF f, g
<1>5. ReplacedPushed(f, g)
  BY <1>2, <1>3, <1>4, ReplacePushFrame
<1>6. ASSUME NEW i \in 1 .. Len(frames) + 1
      PROVE  /\ i = Len(frames) + 1 => frames'[i] = g
             /\ i # Len(frames) + 1 => i \in 1 .. Len(frames) /\ frames'[i].h = frames[i].h /\ frames'[i].h # h
             /\ frames'[i].op = "unload" /\ frames'[i].pc = "depend"
  <2>1. \A k \in 1 .. Len(frames) : frames[k].op = "unload" /\ frames[k].pc = "depend" /\ frames[k].h # h
    BY <1>1 DEF ControlInv, CallsOK, Unloading
  <2>2. Len(frames) \in Nat \ {0}
    BY <1>1
  <2>3. CASE i = Len(frames) + 1
    <3>1. frames'[i] = g
      BY <1>5, <2>3 DEF ReplacedPushed
    <3> QED BY <1>3, <2>3, <3>1
  <2>4. CASE i = Len(frames)
    <3>1. i \in 1 .. Len(frames) /\ i # Len(frames) + 1
      BY <2>4, <2>2
    <3>2. frames'[i] = f
      BY <1>5, <2>4, <3>1 DEF ReplacedPushed
    <3> QED BY <1>1, <1>2, <2>1, <2>4, <3>1, <3>2
  <2>5. CASE i # Len(frames) + 1 /\ i # Len(frames)
    <3>1. i \in 1 .. Len(frames)
      BY <2>5, <2>2
    <3>2. frames'[i] = frames[i]
      BY <1>5, <2>5, <3>1 DEF ReplacedPushed
    <3> QED BY <2>1, <2>5, <3>1, <3>2
  <2> QED BY <2>3, <2>4, <2>5
<1>7. DOMAIN frames' = 1 .. Len(frames) + 1 /\ Len(frames') = Len(frames) + 1
  BY <1>5 DEF ReplacedPushed
<1>8. Unloading'
  BY <1>6, <1>7 DEF Unloading
<1>9. CallsOK'
  <2>1. ASSUME NEW i \in 1 .. Len(frames) + 1, NEW j \in 1 .. Len(frames) + 1,
               frames'[i].h = frames'[j].h, frames'[i].h # 0
        PROVE  i = j
    <3>1. CASE i = Len(frames) + 1 \/ j = Len(frames) + 1
      BY <1>3, <1>6, <2>1, <3>1
    <3>2. CASE i # Len(frames) + 1 /\ j # Len(frames) + 1
      <4>1. i \in 1 .. Len(frames) /\ j \in 1 .. Len(frames) /\ frames[i].h = frames[j].h /\ frames[i].h # 0
        BY <1>6, <2>1, <3>2
      <4> QED BY <1>1, <4>1 DEF ControlInv, CallsOK
    <3> QED BY <3>1, <3>2
  <2> QED BY <1>6, <1>7, <1>8, <2>1 DEF CallsOK
<1>10. ReturnOK'
  <2>1. Me' = g
    <3>1. frames' # << >>
      BY <1>1, <1>7, EmptySeq
    <3>2. Me' = frames'[Len(frames')]
      BY <3>1, FrontEntries DEF CoreInv, FramesOK, Me
    <3>3. Len(frames) + 1 \in 1 .. Len(frames) + 1
      BY <1>1
    <3> QED BY <1>6, <1>7, <3>2, <3>3
  <2> QED BY <1>3, <1>8, <2>1 DEF ReturnOK, NoReturn
<1>11. OneHolder'
  BY <1>8 DEF OneHolder, Unloading, NoReturn
<1>12. QueuedOnce'
  BY DEF ControlInv, QueuedOnce
<1> QED BY <1>1, <1>5, <1>8, <1>9, <1>10, <1>11, <1>12 DEF ControlInv, f, g

(* An unload returns.                                                      *)
LEMMA UnloadReturns ==
  ASSUME CoreInv, CoreInv', ControlInv, Running("unload", "depend"),
         Return("unload", 1), client' = client, QueuedOnce'
  PROVE  ControlInv' /\ Unloading /\ Unloading' /\ Popped
<1>1. /\ DOMAIN frames = 1 .. Len(frames) /\ Len(frames) \in Nat \ {0}
      /\ Unloading /\ Popped /\ ret' = [of |-> "unload", val |-> 1]
  BY RunningTop, CallArray, PopFrames DEF Return, ControlInv
<1>2. CallsOK' /\ (frames' # << >> => Me'.pc \in {"needed", "depend"})
  BY <1>1, CallsPopped DEF ControlInv
<1>3. Unloading'
  BY <1>1 DEF Unloading, Popped
<1>4. ReturnOK'
  BY <1>1, <1>2, <1>3 DEF ReturnOK
<1>5. OneHolder'
  BY <1>1, <1>3 DEF OneHolder, Unloading
<1> QED BY <1>1, <1>2, <1>3, <1>4, <1>5 DEF ControlInv

(* The client gives up a handle, with or without an unload to follow.      *)
LEMMA ClientGivesUp ==
  ASSUME CoreInv, CoreInv', ControlInv, Idle, NEW h \in client, client' = client \ {h},
         UNCHANGED loaded_objects,
         \/ frames' = << >> /\ ret' = [of |-> "unload", val |-> 0]
         \/ \E file \in File : frames' = << Call("unload", file, h, "depend") >> /\ ret' = NoReturn
  PROVE  ControlInv' /\ Unloading /\ Unloading'
<1>1. frames = << >> /\ DOMAIN frames = {} /\ Unloading
  BY DEF Idle, Unloading
<1>2. h # 0
  BY CallArray DEF CoreInv, OrdersOK
<1>3. QueuedOnce'
  BY DEF ControlInv, QueuedOnce
<1>4. CASE frames' = << >> /\ ret' = [of |-> "unload", val |-> 0]
  <2>1. DOMAIN frames' = {}
    BY <1>4
  <2>2. CallsOK' /\ ReturnOK' /\ OneHolder'
    BY <1>4, <2>1 DEF CallsOK, ReturnOK, OneHolder, Loading, Unloading
  <2>3. Unloading'
    BY <2>1 DEF Unloading
  <2> QED BY <1>1, <1>3, <2>2, <2>3 DEF ControlInv
<1>5. ASSUME NEW file \in File, frames' = << Call("unload", file, h, "depend") >>, ret' = NoReturn
      PROVE  ControlInv' /\ Unloading'
  <2> DEFINE g == Call("unload", file, h, "depend")
  <2>1. g.op = "unload" /\ g.pc = "depend" /\ g.h = h
    BY DEF Call
  <2>2. Len(frames') = 1 /\ DOMAIN frames' = {1} /\ frames'[1] = g
    BY <1>5
  <2> HIDE DEF g
  <2>3. Unloading' /\ CallsOK'
    BY <1>2, <2>1, <2>2 DEF CallsOK, Unloading, Loading
  <2>4. Me' = g
    <3>1. frames' # << >>
      BY <2>2, EmptySeq
    <3> QED BY <2>2, <3>1, FrontEntries DEF CoreInv, FramesOK, Me
  <2>5. ReturnOK' /\ OneHolder'
    BY <1>5, <2>1, <2>2, <2>3, <2>4 DEF ReturnOK, OneHolder, NoReturn
  <2> QED BY <1>3, <2>3, <2>5 DEF ControlInv
<1> QED BY <1>1, <1>4, <1>5, <1>3

(* The client takes the handle of its load.                                *)
LEMMA ClientTakes ==
  ASSUME CoreInv, CoreInv', ControlInv, TopReturned
  PROVE  /\ ControlInv' /\ \A h \in Handles : Outside(h)' => Outside(h)
<1>1. frames = << >> /\ DOMAIN frames = {} /\ frames' = frames /\ ret' = NoReturn
  BY DEF TopReturned, Idle
<1>2. QueuedOnce'
  BY DEF ControlInv, QueuedOnce, TopReturned
<1>3. CallsOK' /\ ReturnOK' /\ OneHolder'
  BY <1>1 DEF ControlInv, CallsOK, ReturnOK, OneHolder, Loading, Unloading, NoReturn
<1>4. ASSUME NEW h \in Handles, Outside(h)' PROVE Outside(h)
  <2>1. h \in client'
    BY <1>1, <1>4 DEF Outside, NoReturn
  <2>2. CASE h \in client
    BY <2>2 DEF Outside
  <2>3. CASE h \notin client
    <3>1. ret.of = "load" /\ ret.val = h
      BY <2>1, <2>3 DEF TopReturned
    <3>2. ret = [of |-> "load", val |-> h]
      BY <3>1 DEF CoreInv, Answer
    <3> QED BY <3>2 DEF Outside
  <2> QED BY <2>2, <2>3
<1> QED BY <1>2, <1>3, <1>4 DEF ControlInv

(* The client takes the handle of a base image.                            *)
LEMMA ClientAddsImage ==
  ASSUME CoreInv, CoreInv', ControlInv, Idle, ret = NoReturn, client' = client \cup {NewHandle},
         UNCHANGED << frames, ret >>, QueuedOnce'
  PROVE  /\ ControlInv' /\ Loading /\ Loading' /\ \A h \in Handles : Outside(h)' => Outside(h)
<1>1. frames = << >> /\ DOMAIN frames = {} /\ NewHandle \notin Handles
  BY CallArray DEF Idle, NewHandle
<1>2. CallsOK' /\ ReturnOK' /\ OneHolder'
  BY <1>1 DEF ControlInv, CallsOK, ReturnOK, OneHolder, Loading, Unloading, NoReturn
<1>3. \A h \in Handles : Outside(h)' => Outside(h)
  BY <1>1 DEF Outside
<1> QED BY <1>1, <1>2, <1>3 DEF ControlInv, Loading

-----------------------------------------------------------------------------
(* The entries of a dependency list that are still held.                   *)

(* What a module's record has.                                             *)
LEMMA ModuleRecord ==
  ASSUME CoreInv, NEW h \in Handles
  PROVE  /\ loaded[h] \in Module /\ loaded[h].use_count \in Int
         /\ loaded[h].deps \in Seq(Nat) /\ Len(loaded[h].deps) \in Nat
         /\ DOMAIN loaded[h].deps = 1 .. Len(loaded[h].deps)
         /\ \A i \in 1 .. Len(loaded[h].deps) : loaded[h].deps[i] \in 0 .. Len(loaded)
<1>1. loaded[h] \in Module
  BY ElementOfSeq DEF CoreInv, ModulesOK, Handles
<1>2. /\ loaded[h].use_count \in Int /\ loaded[h].deps \in Seq(Nat) /\ Len(loaded[h].deps) \in Nat
      /\ DOMAIN loaded[h].deps = 1 .. Len(loaded[h].deps)
  BY <1>1, LenProperties DEF Module
<1>3. ToSet(loaded[h].deps) \subseteq 0 .. Len(loaded)
  BY DEF CoreInv, ModulesOK, Handles
<1> QED BY <1>1, <1>2, <1>3 DEF ToSet

(* Every entry of every list is held.                                      *)
AllHeld ==
  \A m \in Handles : ~BeingUnloaded(m) /\ HeldPositions(m) = 1 .. Len(loaded[m].deps)

(* While modules are loaded every entry is.                                *)
LEMMA HeldWhileLoading == Loading => AllHeld
<1> SUFFICES ASSUME Loading, NEW m \in Handles
             PROVE  ~BeingUnloaded(m) /\ HeldPositions(m) = 1 .. Len(loaded[m].deps)
  BY DEF AllHeld
<1>1. UnloadFrames(m) = {}
  BY DEF Loading, UnloadFrames
<1> QED BY <1>1 DEF HeldPositions, BeingUnloaded, Loading

(* Of a list that is being given up the rest is held, of every other all.  *)
RestHeld ==
  \A m \in Handles :
    /\ loaded[m].deps \in Seq(Nat) /\ Len(loaded[m].deps) \in Nat
    /\ ~BeingUnloaded(m) => HeldPositions(m) = 1 .. Len(loaded[m].deps)
    /\ \A i \in DOMAIN frames : frames[i].op = "unload" /\ frames[i].h = m =>
          HeldPositions(m) = frames[i].next .. Len(loaded[m].deps)
    /\ HeldPositions(m) \subseteq 1 .. Len(loaded[m].deps)

(* A list that is being given up is held from its next entry on.           *)
LEMMA HeldPlaces == CoreInv /\ CallsOK => RestHeld
<1> SUFFICES ASSUME CoreInv, CallsOK, NEW m \in Handles
             PROVE  /\ loaded[m].deps \in Seq(Nat) /\ Len(loaded[m].deps) \in Nat
                    /\ ~BeingUnloaded(m) => HeldPositions(m) = 1 .. Len(loaded[m].deps)
                    /\ \A i \in DOMAIN frames : frames[i].op = "unload" /\ frames[i].h = m =>
                          HeldPositions(m) = frames[i].next .. Len(loaded[m].deps)
                    /\ HeldPositions(m) \subseteq 1 .. Len(loaded[m].deps)
  BY DEF RestHeld
<1>1. loaded[m].deps \in Seq(Nat) /\ Len(loaded[m].deps) \in Nat
  <2>1. loaded[m] \in Module
    BY ElementOfSeq DEF CoreInv, ModulesOK, Handles
  <2> QED BY <2>1, LenProperties DEF Module
<1>2. m # 0 /\ DOMAIN frames = 1 .. Len(frames) /\ \A i \in DOMAIN frames : frames[i].next \in Nat \ {0}
  BY CallArray
<1>3. ASSUME ~BeingUnloaded(m) PROVE HeldPositions(m) = 1 .. Len(loaded[m].deps)
  <2>1. UnloadFrames(m) = {}
    BY <1>3 DEF BeingUnloaded, UnloadFrames
  <2> QED BY <2>1 DEF HeldPositions
<1>4. ASSUME NEW i \in DOMAIN frames, frames[i].op = "unload", frames[i].h = m
      PROVE  HeldPositions(m) = frames[i].next .. Len(loaded[m].deps)
  <2>1. UnloadFrames(m) = {i}
    BY <1>2, <1>4 DEF UnloadFrames, CallsOK
  <2>2. Max({i}) = i
    BY <1>2 DEF Max
  <2> QED BY <2>1, <2>2 DEF HeldPositions
<1>5. HeldPositions(m) \subseteq 1 .. Len(loaded[m].deps)
  <2>1. CASE ~BeingUnloaded(m)
    BY <1>3, <2>1
  <2>2. CASE BeingUnloaded(m)
    <3>1. PICK i \in DOMAIN frames : frames[i].op = "unload" /\ frames[i].h = m
      BY <2>2 DEF BeingUnloaded
    <3>2. HeldPositions(m) = frames[i].next .. Len(loaded[m].deps) /\ frames[i].next \in Nat \ {0}
      BY <1>2, <1>4, <3>1
    <3> QED BY <1>1, <3>2
  <2> QED BY <2>1, <2>2
<1> QED BY <1>1, <1>3, <1>4, <1>5

(* What a use of h by a module is, and that there are finitely many.       *)
LEMMA UsesAre ==
  ASSUME NEW h
  PROVE  \A u : u \in UsesByModules(h) <=>
            \E m \in Live : \E i \in HeldPositions(m) : u = << m, i >> /\ loaded[m].deps[i] = h
  BY DEF UsesByModules, UsesBy

(* The uses of a module can be counted.                                    *)
FiniteUses == \A h : IsFiniteSet(UsesByModules(h)) /\ Cardinality(UsesByModules(h)) \in Nat

(* There are finitely many uses.                                           *)
LEMMA UsesFinite == CoreInv /\ CallsOK => FiniteUses
<1> SUFFICES ASSUME CoreInv, CallsOK, NEW h PROVE IsFiniteSet(UsesByModules(h))
  BY FS_CardinalityType DEF FiniteUses
<1>1. Live \subseteq Handles /\ IsFiniteSet(Live)
  <2>1. loaded_objects \in Seq(Handles) /\ DOMAIN loaded_objects = 1 .. Len(loaded_objects)
    BY LenProperties DEF CoreInv, OrdersOK, Handles
  <2>2. Live \subseteq Handles
    BY <2>1, ElementOfSeq DEF Live, ToSet
  <2>3. IsFiniteSet(Handles)
    BY CallArray, FS_Interval
  <2> QED BY <2>2, <2>3, FS_Subset
<1>2. ASSUME NEW m \in Live PROVE IsFiniteSet(UsesBy(m, h))
  <2>1. Len(loaded[m].deps) \in Nat /\ HeldPositions(m) \subseteq 1 .. Len(loaded[m].deps)
    BY <1>1, HeldPlaces DEF RestHeld
  <2>2. IsFiniteSet(1 .. Len(loaded[m].deps))
    BY <2>1, FS_Interval
  <2>3. IsFiniteSet({i \in HeldPositions(m) : loaded[m].deps[i] = h})
    BY <2>1, <2>2, FS_Subset
  <2>4. IsFiniteSet({m})
    BY FS_Singleton
  <2> QED BY <2>3, <2>4, FS_Product DEF UsesBy
<1>3. IsFiniteSet({UsesBy(m, h) : m \in Live})
  <2> DEFINE f == [m \in Live |-> UsesBy(m, h)]
  <2>1. f \in Surjection(Live, {UsesBy(m, h) : m \in Live})
    BY DEF Surjection
  <2> QED BY <1>1, <2>1, FS_Surjection
<1> QED BY <1>2, <1>3, FS_UNION DEF UsesByModules

(* What is in memory was given a handle.                                   *)
LEMMA LiveHandles ==
  ASSUME CoreInv
  PROVE  Live \subseteq Handles /\ loaded_objects \in Seq(Handles)
<1>1. loaded_objects \in Seq(Handles) /\ DOMAIN loaded_objects = 1 .. Len(loaded_objects)
  BY LenProperties DEF CoreInv, OrdersOK, Handles
<1> QED BY <1>1, ElementOfSeq DEF Live, ToSet

(* A module enters the queue.                                              *)
LEMMA JoinsQueue ==
  ASSUME CoreInv, QueuedOnce, loaded_objects' = Append(loaded_objects, NewHandle)
  PROVE  Live' = Live \cup {NewHandle} /\ QueuedOnce' /\ NewHandle \notin Handles
<1>1. /\ loaded_objects \in Seq(Handles) /\ Len(loaded_objects) \in Nat
      /\ DOMAIN loaded_objects = 1 .. Len(loaded_objects) /\ Live \subseteq Handles
      /\ Handles \subseteq Nat /\ NewHandle \in Nat /\ NewHandle \notin Handles
  BY LenProperties, LiveHandles, CallArray DEF NewHandle
<1>2. /\ loaded_objects' \in Seq(Nat) /\ Len(loaded_objects') = Len(loaded_objects) + 1
      /\ \A i \in 1 .. Len(loaded_objects) : loaded_objects'[i] = loaded_objects[i]
      /\ loaded_objects'[Len(loaded_objects) + 1] = NewHandle
  <2>1. loaded_objects \in Seq(Nat)
    BY <1>1, SeqMonotonic
  <2> QED BY <1>1, <2>1, AppendProperties
<1>3. DOMAIN loaded_objects' = 1 .. Len(loaded_objects) + 1
  BY <1>2, LenProperties
<1>4. \A i \in 1 .. Len(loaded_objects) + 1 : i = Len(loaded_objects) + 1 \/ i \in 1 .. Len(loaded_objects)
  BY <1>1
<1>5. \A i \in 1 .. Len(loaded_objects) : loaded_objects[i] \in Handles
  BY <1>1, ElementOfSeq
<1>6. Live' = Live \cup {NewHandle}
  BY <1>1, <1>2, <1>3, <1>4 DEF Live, ToSet
<1>7. QueuedOnce'
  BY <1>1, <1>2, <1>3, <1>4, <1>5 DEF QueuedOnce
<1> QED BY <1>1, <1>6, <1>7

(* A module leaves the queue.                                              *)
LEMMA LeavesQueue ==
  ASSUME CoreInv, QueuedOnce, NEW h \in Live, loaded_objects' = RemoveLoaded(h)
  PROVE  Live' = Live \ {h} /\ QueuedOnce'
<1>1. /\ loaded_objects \in Seq(Handles) /\ Len(loaded_objects) \in Nat
      /\ DOMAIN loaded_objects = 1 .. Len(loaded_objects)
  BY LenProperties, LiveHandles
<1>2. PICK k \in 1 .. Len(loaded_objects) : loaded_objects[k] = h
  BY <1>1 DEF Live, ToSet
<1>3. NodesOf(h) = {k}
  BY <1>1, <1>2 DEF NodesOf, QueuedOnce
<1>4. Min(NodesOf(h)) = k
  BY <1>3 DEF Min
<1>5. loaded_objects' = RemoveAt(loaded_objects, k)
  BY <1>3, <1>4 DEF RemoveLoaded
<1>6. /\ loaded_objects' \in Seq(Handles) /\ Len(loaded_objects') = Len(loaded_objects) - 1
      /\ \A a \in 1 .. Len(loaded_objects) - 1 :
            /\ Earlier(a, k) \in 1 .. Len(loaded_objects)
            /\ Earlier(a, k) # k
            /\ loaded_objects'[a] = loaded_objects[Earlier(a, k)]
  <2>1. /\ RemoveAt(loaded_objects, k) \in Seq(Handles)
        /\ Len(RemoveAt(loaded_objects, k)) = Len(loaded_objects) - 1
        /\ \A a \in 1 .. Len(loaded_objects) - 1 :
              /\ Earlier(a, k) \in 1 .. Len(loaded_objects)
              /\ Earlier(a, k) # k
              /\ RemoveAt(loaded_objects, k)[a] = loaded_objects[Earlier(a, k)]
    BY <1>1, <1>2, RemoveAtEntries
  <2> QED BY <1>5, <2>1
<1>7. DOMAIN loaded_objects' = 1 .. Len(loaded_objects) - 1
  BY <1>6, LenProperties
<1>8. Live' \subseteq Live \ {h}
  BY <1>1, <1>2, <1>6, <1>7 DEF Live, ToSet, QueuedOnce
<1>9. ASSUME NEW m \in Live, m # h PROVE m \in Live'
  <2>1. PICK b \in 1 .. Len(loaded_objects) : loaded_objects[b] = m
    BY <1>1 DEF Live, ToSet
  <2>2. b # k
    BY <1>2, <1>9, <2>1
  <2>3. \E a \in 1 .. Len(loaded_objects) - 1 : Earlier(a, k) = b
    <3>1. CASE b < k
      BY <1>1, <3>1 DEF Earlier
    <3>2. CASE b > k
      <4>1. b - 1 \in 1 .. Len(loaded_objects) - 1 /\ Earlier(b - 1, k) = b
        BY <1>1, <3>2 DEF Earlier
      <4> QED BY <4>1
    <3> QED BY <1>1, <2>2, <3>1, <3>2
  <2> QED BY <1>6, <1>7, <2>1, <2>3 DEF Live, ToSet
<1>10. QueuedOnce'
  <2>1. ASSUME NEW i \in 1 .. Len(loaded_objects) - 1, NEW j \in 1 .. Len(loaded_objects) - 1,
               loaded_objects'[i] = loaded_objects'[j]
        PROVE  i = j
    <3>1. Earlier(i, k) = Earlier(j, k)
      BY <1>1, <1>6, <2>1 DEF QueuedOnce
    <3> QED BY <1>1, <3>1 DEF Earlier
  <2> QED BY <1>7, <2>1 DEF QueuedOnce
<1> QED BY <1>8, <1>9, <1>10

-----------------------------------------------------------------------------
(* The uses, by what a step does to them.                                  *)

(* Nothing: no count, no use and no holder changes.                        *)
LEMMA CountsKept ==
  ASSUME CoreInv, UseInv, ControlInv', UNCHANGED << loaded, loaded_objects, fini_order >>,
         \A h \in Handles : UsesByModules(h)' = UsesByModules(h),
         \A m \in Handles : BeingUnloaded(m)' <=> BeingUnloaded(m),
         \A h \in Handles : Outside(h)' => Outside(h),
         ret'.of # "abort" => ret.of # "abort"
  PROVE  UseInv'
<1>1. Live' = Live /\ Live \subseteq Handles /\ Handles' = Handles
  BY LiveHandles DEF Live, Handles
<1>2. ModuleState'
  BY <1>1 DEF UseInv, ModuleState, Terminated
<1>3. UsedIsLive'
  BY <1>1 DEF UseInv, UsedIsLive
<1>4. ASSUME NEW h \in Live' PROVE loaded'[h].use_count >= AllUses(h)'
  <2>1. h \in Handles /\ loaded'[h].use_count = loaded[h].use_count /\ loaded[h].use_count \in Int
    BY <1>1, ModuleRecord
  <2>2. loaded[h].use_count >= AllUses(h)
    BY <1>1 DEF UseInv, Covered
  <2>3. Cardinality(UsesByModules(h)) \in Nat
    BY UsesFinite DEF FiniteUses, UseInv, ControlInv
  <2> QED BY <2>1, <2>2, <2>3 DEF AllUses
<1> QED BY <1>2, <1>3, <1>4 DEF UseInv, Covered

(* Nothing: no list and no holder changes.                                 *)
LEMMA SameUses ==
  ASSUME CoreInv, UseInv, ControlInv', UNCHANGED << loaded, loaded_objects, fini_order >>,
         \A m \in Handles : HeldPositions(m)' = HeldPositions(m),
         \A m \in Handles : BeingUnloaded(m)' <=> BeingUnloaded(m),
         \A h \in Handles : Outside(h)' => Outside(h),
         ret'.of # "abort" => ret.of # "abort"
  PROVE  UseInv'
<1>1. Live' = Live /\ Live \subseteq Handles
  BY LiveHandles DEF Live
<1>2. \A h \in Handles : UsesByModules(h)' = UsesByModules(h)
  BY <1>1 DEF UsesByModules, UsesBy
<1> QED BY <1>2, CountsKept

(* Nothing, as long as modules are loaded.                                 *)
LEMMA SameUsesLoading ==
  ASSUME CoreInv, UseInv, ControlInv', UNCHANGED << loaded, loaded_objects, fini_order >>,
         Loading, Loading', \A h \in Handles : Outside(h)' => Outside(h)
  PROVE  UseInv'
<1>1. AllHeld /\ AllHeld' /\ Handles' = Handles
  <2>1. Loading' => AllHeld'
    BY HeldWhileLoading, PTL
  <2> QED BY <2>1, HeldWhileLoading DEF Handles
<1>2. /\ \A m \in Handles : HeldPositions(m)' = HeldPositions(m)
      /\ \A m \in Handles : BeingUnloaded(m)' <=> BeingUnloaded(m)
  BY <1>1 DEF AllHeld
<1>3. ret.of # "abort"
  BY EmptySeq, CallArray DEF UseInv, ControlInv, ReturnOK, Loading, Unloading
<1> QED BY <1>2, <1>3, SameUses

(* A new module: nothing is on its list, and it is on none.                *)
LEMMA ModuleAdded ==
  ASSUME CoreInv, CoreInv', QueuedOnce, Loading, Loading', NEW k, k = NewHandle,
         NEW file \in File, NEW base \in BOOLEAN, Enqueue(file, base)
  PROVE  /\ Live' = Live \cup {k} /\ k \notin Handles /\ Handles' = Handles \cup {k}
         /\ \A m \in Handles : loaded'[m] = loaded[m]
         /\ loaded'[k] = NewModule(file, base)
         /\ HeldPositions(k)' = {} /\ \A m \in Handles : HeldPositions(m)' = HeldPositions(m)
         /\ \A h : UsesByModules(h)' = UsesByModules(h)
         /\ UsesByModules(k) = {}
         /\ AllHeld /\ AllHeld'
<1>1. /\ Live' = Live \cup {k} /\ k \notin Handles /\ Live \subseteq Handles
      /\ k = Len(loaded) + 1 /\ Len(loaded) \in Nat /\ Handles = 1 .. Len(loaded)
  BY JoinsQueue, LiveHandles, CallArray DEF Enqueue, NewHandle
<1>2. /\ Len(loaded') = k /\ \A m \in Handles : loaded'[m] = loaded[m]
      /\ loaded'[k] = NewModule(file, base) /\ loaded'[k].deps = << >>
  <2> DEFINE new == NewModule(file, base)
  <2>1. new \in Module /\ new.deps = << >> /\ new.use_count = 1
    BY EmptySeq DEF NewModule, Module
  <2>2. loaded \in Seq(Module) /\ loaded' = Append(loaded, new)
    BY DEF CoreInv, ModulesOK, Enqueue
  <2> HIDE DEF new
  <2>3. Len(loaded') = k /\ loaded'[k] = new /\ \A m \in Handles : loaded'[m] = loaded[m]
    BY <1>1, <2>1, <2>2, AppendProperties
  <2> QED BY <2>1, <2>3 DEF new
<1>3. Handles' = Handles \cup {k}
  BY <1>1, <1>2 DEF Handles
<1>4. AllHeld /\ AllHeld'
  <2>1. Loading' => AllHeld'
    BY HeldWhileLoading, PTL
  <2> QED BY <2>1, HeldWhileLoading
<1>5. HeldPositions(k)' = {} /\ \A m \in Handles : HeldPositions(m)' = HeldPositions(m)
  <2>1. HeldPositions(k)' = 1 .. Len(loaded'[k].deps)
    BY <1>3, <1>4 DEF AllHeld
  <2>2. Len(loaded'[k].deps) = 0
    BY <1>2, EmptySeq
  <2>3. ASSUME NEW m \in Handles PROVE HeldPositions(m)' = HeldPositions(m)
    BY <1>2, <1>3, <1>4 DEF AllHeld
  <2> QED BY <2>1, <2>2, <2>3
<1>6. ASSUME NEW h PROVE UsesByModules(h)' = UsesByModules(h)
  <2>1. ASSUME NEW u \in UsesByModules(h)' PROVE u \in UsesByModules(h)
    <3>1. PICK m, i : m \in Live' /\ i \in HeldPositions(m)' /\ u = << m, i >> /\ loaded'[m].deps[i] = h
      BY <2>1 DEF UsesByModules, UsesBy
    <3>2. m \in Live /\ i \in HeldPositions(m) /\ loaded[m].deps[i] = h
      BY <1>1, <1>2, <1>5, <3>1
    <3> QED BY <3>1, <3>2, UsesAre
  <2>2. ASSUME NEW u \in UsesByModules(h) PROVE u \in UsesByModules(h)'
    <3>1. PICK m, i : m \in Live /\ i \in HeldPositions(m) /\ u = << m, i >> /\ loaded[m].deps[i] = h
      BY <2>2, UsesAre
    <3>2. m \in Live' /\ i \in HeldPositions(m)' /\ loaded'[m].deps[i] = h
      BY <1>1, <1>2, <1>5, <3>1
    <3> QED BY <3>1, <3>2 DEF UsesByModules, UsesBy
  <2> QED BY <2>1, <2>2
<1>7. UsesByModules(k) = {}
  <2>1. ASSUME NEW u \in UsesByModules(k) PROVE FALSE
    <3>1. PICK m, i : m \in Live /\ i \in HeldPositions(m) /\ loaded[m].deps[i] = k
      BY <2>1, UsesAre
    <3>2. m \in Handles /\ i \in 1 .. Len(loaded[m].deps)
      BY <1>1, <1>4, <3>1 DEF AllHeld
    <3>3. loaded[m].deps[i] \in 0 .. Len(loaded)
      BY <3>2, ModuleRecord
    <3> QED BY <1>1, <3>1, <3>3
  <2> QED BY <2>1
<1> QED BY <1>1, <1>2, <1>3, <1>4, <1>5, <1>6, <1>7

(* It has one use, by the call that loads it.                              *)
LEMMA OneModuleMore ==
  ASSUME CoreInv, CoreInv', UseInv, ControlInv', Loading, Loading', NEW k, k = NewHandle,
         NEW file \in File, NEW base \in BOOLEAN, Enqueue(file, base), UNCHANGED fini_order,
         \A h \in Handles : Outside(h)' => Outside(h), ret'.of # "abort"
  PROVE  UseInv'
<1>1. /\ Live' = Live \cup {k} /\ k \notin Handles /\ Live \subseteq Handles
      /\ k = Len(loaded) + 1 /\ Len(loaded) \in Nat /\ Handles = 1 .. Len(loaded)
  BY JoinsQueue, LiveHandles, CallArray DEF UseInv, ControlInv, Enqueue, NewHandle
<1>2. /\ \A m \in Handles : loaded'[m] = loaded[m]
      /\ loaded'[k].use_count = 1
  <2>1. \A m \in Handles : loaded'[m] = loaded[m]
    BY ModuleAdded DEF UseInv, ControlInv
  <2>2. loaded'[k] = NewModule(file, base)
    BY ModuleAdded DEF UseInv, ControlInv
  <2> QED BY <2>1, <2>2 DEF NewModule
<1>3. Handles' = Handles \cup {k}
  BY ModuleAdded DEF UseInv, ControlInv
<1>4. AllHeld /\ AllHeld'
  BY ModuleAdded DEF UseInv, ControlInv
<1>5. \A h : UsesByModules(h)' = UsesByModules(h)
  BY ModuleAdded DEF UseInv, ControlInv
<1>6. UsesByModules(k) = {}
  BY ModuleAdded DEF UseInv, ControlInv
<1>7. ~Terminated(k)'
  <2>1. fini_order' \in Seq(Handles) /\ DOMAIN fini_order' = 1 .. Len(fini_order')
    BY LenProperties DEF CoreInv, OrdersOK, Handles
  <2>2. \A i \in DOMAIN fini_order' : fini_order'[i] # k
    BY <1>1, <2>1, ElementOfSeq
  <2> QED BY <2>2 DEF Terminated, Contains
<1>8. ModuleState'
  <2>1. ASSUME NEW m \in Live'
        PROVE  ~BeingUnloaded(m)' /\ loaded'[m].use_count >= 1 /\ ~Terminated(m)'
    <3>1. ~BeingUnloaded(m)'
      BY <1>1, <1>3, <1>4 DEF AllHeld
    <3>2. CASE m = k
      BY <1>2, <1>7, <3>1, <3>2
    <3>3. CASE m \in Live
      <4>1. ~BeingUnloaded(m) /\ m \in Handles
        BY <1>1, <1>4, <3>3 DEF AllHeld
      <4>2. loaded[m].use_count >= 1 /\ ~Terminated(m)
        BY <3>3, <4>1 DEF UseInv, ModuleState
      <4> QED BY <1>2, <3>1, <4>1, <4>2 DEF Terminated
    <3> QED BY <1>1, <3>2, <3>3
  <2> QED BY <1>4, <2>1 DEF ModuleState, AllHeld
<1>9. UsedIsLive'
  BY <1>1, <1>3, <1>5 DEF UseInv, UsedIsLive
<1>10. ASSUME NEW h \in Live' PROVE loaded'[h].use_count >= AllUses(h)'
  <2>1. CASE h = k
    <3>1. Cardinality(UsesByModules(h)') = 0
      BY <1>5, <1>6, <2>1, FS_EmptySet
    <3> QED BY <1>2, <2>1, <3>1 DEF AllUses
  <2>2. CASE h \in Live
    <3>1. h \in Handles /\ loaded'[h] = loaded[h] /\ loaded[h].use_count \in Int
      BY <1>1, <1>2, <2>2, ModuleRecord
    <3>2. loaded[h].use_count >= AllUses(h)
      BY <2>2 DEF UseInv, Covered
    <3>3. Cardinality(UsesByModules(h)) \in Nat
      BY UsesFinite DEF FiniteUses, UseInv, ControlInv
    <3> QED BY <1>5, <3>1, <3>2, <3>3 DEF AllUses
  <2> QED BY <1>1, <2>1, <2>2
<1> QED BY <1>8, <1>9, <1>10 DEF UseInv, Covered

(* One more entry on a list.                                               *)
LEMMA EntryAdded ==
  ASSUME CoreInv, CoreInv', Loading, Loading', NEW u \in Live, NEW d \in 0 .. Len(loaded),
         Len(loaded') = Len(loaded),
         \A m \in Handles : loaded'[m].deps = IF m = u THEN Append(loaded[u].deps, d) ELSE loaded[m].deps,
         UNCHANGED loaded_objects
  PROVE  /\ Live' = Live /\ Handles' = Handles
         /\ << u, Len(loaded[u].deps) + 1 >> \notin UsesByModules(d)
         /\ \A h : UsesByModules(h)' = UsesByModules(h) \cup
                     (IF h = d THEN {<< u, Len(loaded[u].deps) + 1 >>} ELSE {})
         /\ \A m \in Handles : HeldDeps(m)' = HeldDeps(m) \cup (IF m = u THEN {d} \ {0} ELSE {})
<1> DEFINE p == Len(loaded[u].deps) + 1
<1>1. /\ Live' = Live /\ Live \subseteq Handles /\ Handles' = Handles /\ Handles = 1 .. Len(loaded)
      /\ Len(loaded) \in Nat
  BY LiveHandles, CallArray DEF Live, Handles
<1>2. u \in Handles /\ loaded[u].deps \in Seq(Nat) /\ Len(loaded[u].deps) \in Nat /\ d \in Nat
  BY <1>1, ModuleRecord
<1>3. /\ loaded'[u].deps = Append(loaded[u].deps, d)
      /\ Len(loaded'[u].deps) = p
      /\ \A i \in 1 .. Len(loaded[u].deps) : loaded'[u].deps[i] = loaded[u].deps[i]
      /\ loaded'[u].deps[p] = d
  <2>1. loaded'[u].deps = Append(loaded[u].deps, d)
    BY <1>2
  <2> QED BY <1>2, <2>1, AppendProperties
<1>4. AllHeld /\ AllHeld'
  <2>1. Loading' => AllHeld'
    BY HeldWhileLoading, PTL
  <2> QED BY <2>1, HeldWhileLoading
<1>5. /\ HeldPositions(u) = 1 .. Len(loaded[u].deps)
      /\ HeldPositions(u)' = HeldPositions(u) \cup {p} /\ p \notin HeldPositions(u)
      /\ \A m \in Handles \ {u} : HeldPositions(m)' = HeldPositions(m) /\ loaded'[m].deps = loaded[m].deps
  <2>1. HeldPositions(u) = 1 .. Len(loaded[u].deps) /\ HeldPositions(u)' = 1 .. p
    BY <1>1, <1>2, <1>3, <1>4 DEF AllHeld
  <2>2. 1 .. p = (1 .. Len(loaded[u].deps)) \cup {p} /\ p \notin 1 .. Len(loaded[u].deps)
    BY <1>2
  <2>3. \A m \in Handles \ {u} : HeldPositions(m)' = HeldPositions(m) /\ loaded'[m].deps = loaded[m].deps
    BY <1>1, <1>4 DEF AllHeld
  <2> QED BY <2>1, <2>2, <2>3
<1> HIDE DEF p
<1>6. ASSUME NEW h
      PROVE  UsesByModules(h)' = UsesByModules(h) \cup (IF h = d THEN {<< u, p >>} ELSE {})
  <2>1. ASSUME NEW e \in UsesByModules(h)', e # << u, p >> \/ h # d PROVE e \in UsesByModules(h)
    <3>1. PICK m, i : m \in Live' /\ i \in HeldPositions(m)' /\ e = << m, i >> /\ loaded'[m].deps[i] = h
      BY <2>1 DEF UsesByModules, UsesBy
    <3>2. m \in Live /\ i \in HeldPositions(m) /\ loaded[m].deps[i] = h
      <4>1. CASE m = u
        BY <1>1, <1>3, <1>5, <2>1, <3>1, <4>1
      <4>2. CASE m # u
        BY <1>1, <1>5, <3>1, <4>2
      <4> QED BY <4>1, <4>2
    <3> QED BY <3>1, <3>2, UsesAre
  <2>2. ASSUME NEW e \in UsesByModules(h) PROVE e \in UsesByModules(h)'
    <3>1. PICK m, i : m \in Live /\ i \in HeldPositions(m) /\ e = << m, i >> /\ loaded[m].deps[i] = h
      BY <2>2, UsesAre
    <3>2. m \in Live' /\ i \in HeldPositions(m)' /\ loaded'[m].deps[i] = h
      <4>1. CASE m = u
        BY <1>1, <1>3, <1>5, <3>1, <4>1
      <4>2. CASE m # u
        BY <1>1, <1>5, <3>1, <4>2
      <4> QED BY <4>1, <4>2
    <3> QED BY <3>1, <3>2 DEF UsesByModules, UsesBy
  <2>3. h = d => << u, p >> \in UsesByModules(h)'
    <3>1. u \in Live' /\ p \in HeldPositions(u)' /\ loaded'[u].deps[p] = d
      BY <1>1, <1>3, <1>5
    <3> QED BY <3>1 DEF UsesByModules, UsesBy
  <2> QED BY <2>1, <2>2, <2>3
<1>7. << u, p >> \notin UsesByModules(d)
  BY <1>5, UsesAre
<1>8. ASSUME NEW m \in Handles PROVE HeldDeps(m)' = HeldDeps(m) \cup (IF m = u THEN {d} \ {0} ELSE {})
  <2>1. CASE m = u
    <3>1. /\ \A i \in HeldPositions(u) : loaded'[u].deps[i] = loaded[u].deps[i]
          /\ loaded'[u].deps[p] = d /\ HeldPositions(u)' = HeldPositions(u) \cup {p}
      BY <1>3, <1>5
    <3>2. HeldDeps(u)' = {loaded'[u].deps[i] : i \in HeldPositions(u)'} \ {0}
      BY DEF HeldDeps
    <3>3. HeldDeps(u) = {loaded[u].deps[i] : i \in HeldPositions(u)} \ {0}
      BY DEF HeldDeps
    <3>4. HeldDeps(u)' = HeldDeps(u) \cup ({d} \ {0})
      BY <3>1, <3>2, <3>3
    <3> QED BY <2>1, <3>4
  <2>2. CASE m # u
    BY <1>5, <2>2 DEF HeldDeps
  <2> QED BY <2>1, <2>2
<1> QED BY <1>1, <1>6, <1>7, <1>8 DEF p

(* One more entry on a list: it is counted, or a holder gives it up for it. *)
LEMMA OneUseMore ==
  ASSUME CoreInv, CoreInv', UseInv, ControlInv', Loading, Loading',
         NEW u \in Live, NEW d \in 0 .. Len(loaded), d # 0 => d \in Live,
         Len(loaded') = Len(loaded),
         \A m \in Handles : loaded'[m].deps = IF m = u THEN Append(loaded[u].deps, d) ELSE loaded[m].deps,
         \A m \in Handles : \/ loaded'[m].use_count = loaded[m].use_count
                            \/ m = d /\ loaded'[m].use_count = loaded[m].use_count + 1,
         d # 0 => \/ loaded'[d].use_count = loaded[d].use_count + 1
                  \/ Outside(d) /\ ~Outside(d)',
         UNCHANGED << loaded_objects, fini_order >>, \A h \in Handles : Outside(h)' => Outside(h)
  PROVE  UseInv'
<1> DEFINE p == Len(loaded[u].deps) + 1
<1>1. /\ Live' = Live /\ Live \subseteq Handles /\ Handles' = Handles /\ Handles = 1 .. Len(loaded)
      /\ Len(loaded) \in Nat
  BY LiveHandles, CallArray DEF Live, Handles
<1>2. AllHeld /\ AllHeld'
  <2>1. Loading' => AllHeld'
    BY HeldWhileLoading, PTL
  <2> QED BY <2>1, HeldWhileLoading
<1>3. /\ << u, p >> \notin UsesByModules(d)
      /\ \A h : UsesByModules(h)' = UsesByModules(h) \cup (IF h = d THEN {<< u, p >>} ELSE {})
  BY EntryAdded
<1> HIDE DEF p
<1>4. ModuleState'
  <2>1. ASSUME NEW m \in Live'
        PROVE  ~BeingUnloaded(m)' /\ loaded'[m].use_count >= 1 /\ ~Terminated(m)'
    <3>1. m \in Handles /\ ~BeingUnloaded(m) /\ ~BeingUnloaded(m)' /\ loaded[m].use_count \in Int
      BY <1>1, <1>2, ModuleRecord DEF AllHeld
    <3>2. loaded[m].use_count >= 1 /\ ~Terminated(m)
      BY <1>1, <3>1 DEF UseInv, ModuleState
    <3> QED BY <3>1, <3>2 DEF Terminated
  <2> QED BY <1>1, <1>2, <2>1 DEF ModuleState, AllHeld
<1>5. UsedIsLive'
  BY <1>1, <1>3 DEF UseInv, UsedIsLive
<1>6. ASSUME NEW h \in Live' PROVE loaded'[h].use_count >= AllUses(h)'
  <2>1. h \in Handles /\ h # 0 /\ loaded[h].use_count \in Int
    BY <1>1, ModuleRecord
  <2>2. loaded[h].use_count >= AllUses(h)
    BY <1>1 DEF UseInv, Covered
  <2>3. IsFiniteSet(UsesByModules(h)) /\ Cardinality(UsesByModules(h)) \in Nat
    BY UsesFinite DEF FiniteUses, UseInv, ControlInv
  <2>4. CASE h = d
    <3>1. Cardinality(UsesByModules(h)') = Cardinality(UsesByModules(h)) + 1
      BY <1>3, <2>3, <2>4, FS_AddElement
    <3>2. CASE loaded'[h].use_count = loaded[h].use_count + 1
      BY <2>1, <2>2, <2>3, <3>1, <3>2 DEF AllUses
    <3>3. CASE Outside(h) /\ ~Outside(h)' /\ loaded'[h].use_count = loaded[h].use_count
      BY <2>1, <2>2, <2>3, <3>1, <3>3 DEF AllUses
    <3> QED BY <2>1, <2>4, <3>2, <3>3
  <2>5. CASE h # d
    <3>1. UsesByModules(h)' = UsesByModules(h) /\ loaded'[h].use_count = loaded[h].use_count
      BY <1>3, <2>1, <2>5
    <3> QED BY <2>1, <2>2, <2>3, <3>1 DEF AllUses
  <2> QED BY <2>4, <2>5
<1> QED BY <1>4, <1>5, <1>6 DEF UseInv, Covered

(* What the two ways of recording a dependency do to the records.          *)
LEMMA DependencyAdded ==
  ASSUME CoreInv, NEW u \in Handles, NEW d \in Nat
  PROVE  /\ AddDependency(u, d) \in Seq(Module) /\ Len(AddDependency(u, d)) = Len(loaded)
         /\ \A m \in Handles :
              /\ AddDependency(u, d)[m].deps = IF m = u THEN Append(loaded[u].deps, d) ELSE loaded[m].deps
              /\ AddDependency(u, d)[m].use_count = loaded[m].use_count
              /\ AddDependency(u, d)[m].file = loaded[m].file
              /\ AddDependency(u, d)[m].base = loaded[m].base
<1> DEFINE rec == [loaded[u] EXCEPT !.deps = Append(loaded[u].deps, d)]
           l == [loaded EXCEPT ![u] = rec]
<1>1. /\ loaded \in Seq(Module) /\ Handles = 1 .. Len(loaded) /\ loaded[u] \in Module
      /\ loaded[u].deps \in Seq(Nat)
  BY ModuleRecord, CallArray DEF CoreInv, ModulesOK
<1>2. Append(loaded[u].deps, d) \in Seq(Nat)
  BY <1>1, AppendProperties
<1>3. /\ rec \in Module /\ rec.deps = Append(loaded[u].deps, d) /\ rec.use_count = loaded[u].use_count
      /\ rec.file = loaded[u].file /\ rec.base = loaded[u].base
  BY <1>1, <1>2 DEF Module
<1> HIDE DEF rec
<1>4. /\ l \in Seq(Module) /\ Len(l) = Len(loaded)
      /\ \A m \in 1 .. Len(loaded) : l[m] = IF m = u THEN rec ELSE loaded[m]
  BY <1>1, <1>3, ExceptSeq
<1>5. AddDependency(u, d) = l
  BY DEF AddDependency, rec
<1> HIDE DEF l
<1> QED BY <1>1, <1>3, <1>4, <1>5

(* A module's use_count is changed.                                        *)
LEMMA CountChanged ==
  ASSUME NEW l \in Seq(Module), NEW h \in 1 .. Len(l), NEW c \in Int
  PROVE  /\ [l EXCEPT ![h].use_count = c] \in Seq(Module)
         /\ Len([l EXCEPT ![h].use_count = c]) = Len(l)
         /\ \A m \in 1 .. Len(l) :
              /\ [l EXCEPT ![h].use_count = c][m].deps = l[m].deps
              /\ [l EXCEPT ![h].use_count = c][m].file = l[m].file
              /\ [l EXCEPT ![h].use_count = c][m].base = l[m].base
              /\ [l EXCEPT ![h].use_count = c][m].use_count = IF m = h THEN c ELSE l[m].use_count
<1> DEFINE rec == [l[h] EXCEPT !.use_count = c]
           new == [l EXCEPT ![h] = rec]
<1>1. l[h] \in Module
  BY ElementOfSeq
<1>2. /\ rec \in Module /\ rec.deps = l[h].deps /\ rec.use_count = c /\ rec.file = l[h].file
      /\ rec.base = l[h].base
  BY <1>1 DEF Module
<1>3. [l EXCEPT ![h].use_count = c] = new
  OBVIOUS
<1> HIDE DEF rec
<1>4. /\ new \in Seq(Module) /\ Len(new) = Len(l)
      /\ \A m \in 1 .. Len(l) : new[m] = IF m = h THEN rec ELSE l[m]
  BY <1>1, <1>2, ExceptSeq
<1> HIDE DEF new
<1> QED BY <1>2, <1>3, <1>4

(* A module that is shared has one use more.                               *)
LEMMA ModuleShared ==
  ASSUME CoreInv, NEW u \in Handles, NEW h \in Handles
  PROVE  /\ Len(ShareModule(u, h)) = Len(loaded)
         /\ \A m \in Handles :
              /\ ShareModule(u, h)[m].deps = IF m = u THEN Append(loaded[u].deps, h) ELSE loaded[m].deps
              /\ ShareModule(u, h)[m].use_count = loaded[m].use_count + (IF m = h THEN 1 ELSE 0)
              /\ ShareModule(u, h)[m].file = loaded[m].file
              /\ ShareModule(u, h)[m].base = loaded[m].base
<1> DEFINE k == AddDependency(u, h)
           c == k[h].use_count + 1
           new == [k EXCEPT ![h].use_count = c]
<1>1. Handles = 1 .. Len(loaded) /\ \A m \in Handles : loaded[m].use_count \in Int
  BY CallArray, ModuleRecord
<1>2. /\ k \in Seq(Module) /\ Len(k) = Len(loaded)
      /\ \A m \in Handles :
           /\ k[m].deps = IF m = u THEN Append(loaded[u].deps, h) ELSE loaded[m].deps
           /\ k[m].use_count = loaded[m].use_count
           /\ k[m].file = loaded[m].file
           /\ k[m].base = loaded[m].base
  <2>1. h \in Nat
    BY CallArray
  <2> QED BY <2>1, DependencyAdded
<1>3. ShareModule(u, h) = new
  BY DEF ShareModule
<1>4. c \in Int /\ c = loaded[h].use_count + 1
  BY <1>1, <1>2
<1> HIDE DEF k, c
<1>5. /\ Len(new) = Len(k)
      /\ \A m \in 1 .. Len(k) :
           /\ new[m].deps = k[m].deps /\ new[m].file = k[m].file /\ new[m].base = k[m].base
           /\ new[m].use_count = IF m = h THEN c ELSE k[m].use_count
  BY <1>1, <1>2, <1>4, CountChanged
<1> HIDE DEF new
<1> QED BY <1>1, <1>2, <1>3, <1>4, <1>5

-----------------------------------------------------------------------------
(* The steps of a load.                                                    *)

(* A load is asked for, or a needed file is not loaded yet.                *)
LEMMA LoadCalledUses ==
  ASSUME CoreInv, CoreInv', UseInv, (\E f \in File : TopLoad(f)) \/ LoadDependent
  PROVE  UseInv'
<1>1. \E f \in File : frames' = Append(frames, Call("load", f, 0, "headers"))
  <2>1. ASSUME NEW f \in File, TopLoad(f) PROVE frames' = Append(frames, Call("load", f, 0, "headers"))
    BY <2>1 DEF TopLoad, Idle, Call
  <2>2. CASE LoadDependent
    BY <2>2, NeededFile DEF LoadDependent
  <2> QED BY <2>1, <2>2
<1>2. Loading /\ (frames # << >> => Me.pc = "needed")
  <2>1. CASE LoadDependent
    BY <2>1, RunningTop DEF LoadDependent, PendingNeeded, UseInv, ControlInv
  <2>2. CASE frames = << >>
    BY <2>2 DEF Loading
  <2> QED BY <2>1, <2>2 DEF TopLoad, Idle
<1>3. ret = NoReturn /\ UNCHANGED << loaded, loaded_objects, fini_order, ret, client >>
  BY DEF TopLoad, LoadDependent, PendingNeeded
<1>4. ControlInv' /\ Loading' /\ \A h \in Handles : Outside(h)' => Outside(h)
  BY <1>1, <1>2, <1>3, LoadCalled DEF UseInv
<1> QED BY <1>2, <1>3, <1>4, SameUsesLoading

(* A load that fails before its module is placed, one that is done, or one *)
(* that leaves the rest to the load at the bottom of the stack.            *)
LEMMA LoadReturnedUses ==
  ASSUME CoreInv, CoreInv', UseInv,
         RejectFile \/ RejectCircular \/ RelocateDone \/ (NeededDone /\ Return("load", Me.h))
  PROVE  UseInv'
<1>1. /\ \E pc : Running("load", pc)
      /\ Return("load", 0) \/ Return("load", Me.h)
      /\ UNCHANGED << loaded, loaded_objects, fini_order, client >>
  BY DEF RejectFile, RejectCircular, RelocateDone, NeededDone
<1>2. QueuedOnce'
  BY <1>1 DEF UseInv, ControlInv, QueuedOnce
<1>3. /\ ControlInv' /\ Loading /\ Loading'
      /\ \A h \in Handles : Outside(h)' => Outside(h)
  BY <1>1, <1>2, LoadReturned DEF UseInv
<1> QED BY <1>1, <1>3, SameUsesLoading

(* A module is placed, or its handle is given and its load fails.          *)
LEMMA PlacedUses ==
  ASSUME CoreInv, CoreInv', UseInv, FailAllocation \/ PlaceModule
  PROVE  UseInv'
<1>1. Running("load", "headers") /\ Enqueue(Me.file, FALSE) /\ UNCHANGED << client, fini_order >>
  BY DEF FailAllocation, PlaceModule
<1>2. Me.file \in File /\ Me \in Frame /\ Me.op = "load" /\ Me.pc = "headers" /\ frames # << >>
  BY <1>1, RunningTop DEF UseInv, ControlInv, Frame
<1>3. QueuedOnce'
  BY <1>1, JoinsQueue DEF UseInv, ControlInv, Enqueue
<1>4. /\ ControlInv' /\ Loading /\ Loading' /\ ret'.of # "abort"
      /\ \A h \in Handles : Outside(h)' => Outside(h)
  <2>1. CASE Return("load", 0)
    BY <1>1, <1>3, <2>1, LoadReturned DEF UseInv
  <2>2. CASE frames' = Append(Front(frames), Call("load", Me.file, NewHandle, "needed")) /\ UNCHANGED ret
    <3> DEFINE f == Call("load", Me.file, NewHandle, "needed")
    <3>1. f \in Frame /\ f.op = "load" /\ f.pc = "needed" /\ f.h = NewHandle
      BY <1>2, CallArray DEF Call, Frame, NewHandle
    <3>2. ret' = NoReturn
      BY <1>2, <2>2 DEF UseInv, ControlInv, ReturnOK
    <3> HIDE DEF f
    <3>3. frames' = Append(Front(frames), f)
      BY <2>2 DEF f
    <3> QED BY <1>1, <1>3, <3>1, <3>2, <3>3, LoadGoesOn DEF UseInv
  <2> QED BY <2>1, <2>2 DEF FailAllocation, PlaceModule
<1> QED BY <1>1, <1>2, <1>4, OneModuleMore

(* The symbols of a base image are loaded.                                 *)
LEMMA LoadSymbolsUses ==
  ASSUME CoreInv, CoreInv', UseInv, NEW f \in File, LoadSymbols(f), disk' = disk
  PROVE  UseInv'
<1>1. CASE InProcessOfLoading(f)
  <2>1. Loading
    BY DEF LoadSymbols, Idle, Loading
  <2>2. UNCHANGED << loaded, loaded_objects, fini_order, frames, ret, client >>
    BY <1>1 DEF LoadSymbols
  <2>3. ControlInv' /\ Loading' /\ \A h \in Handles : Outside(h)' => Outside(h)
    BY <2>1, <2>2 DEF UseInv, ControlInv, CallsOK, ReturnOK, OneHolder, QueuedOnce, Loading, Unloading,
                      Outside, Me
  <2> QED BY <2>1, <2>2, <2>3, SameUsesLoading
<1>2. CASE ~InProcessOfLoading(f)
  <2>1. Enqueue(f, TRUE) /\ client' = client \cup {NewHandle} /\ UNCHANGED << frames, ret, fini_order >>
    BY <1>2 DEF LoadSymbols
  <2>2. QueuedOnce'
    BY <2>1, JoinsQueue DEF UseInv, ControlInv, Enqueue
  <2>3. Idle /\ ret = NoReturn
    BY DEF LoadSymbols
  <2>4. /\ ControlInv' /\ Loading /\ Loading'
        /\ \A h \in Handles : Outside(h)' => Outside(h)
    BY <2>1, <2>2, <2>3, ClientAddsImage DEF UseInv
  <2>5. ret'.of # "abort"
    BY <2>1, <2>3 DEF NoReturn
  <2> QED BY <2>1, <2>4, <2>5, OneModuleMore
<1> QED BY <1>1, <1>2

(* A module in memory is found for a needed file.                          *)
LEMMA FoundIsLive ==
  ASSUME CoreInv, NEW f, Matches(f) # {}
  PROVE  FirstMatch(f) \in Live /\ FirstMatch(f) \in Handles
<1>1. loaded_objects \in Seq(Handles) /\ DOMAIN loaded_objects = 1 .. Len(loaded_objects)
  BY LiveHandles, LenProperties
<1>2. Matches(f) \in SUBSET DOMAIN loaded_objects /\ Matches(f) \in SUBSET Nat
  BY <1>1 DEF Matches
<1>3. Min(Matches(f)) \in DOMAIN loaded_objects
  BY <1>2, FirstOfPlaces
<1> QED BY <1>3, LiveHandles DEF FirstMatch, Live, ToSet

(* The call under way works on a module in memory.                         *)
LEMMA LoadedIsLive ==
  ASSUME CoreInv, UseInv, NEW pc, Running("load", pc), pc # "headers"
  PROVE  Me.h \in Live /\ Me.h \in Handles /\ Me.h # 0
<1>1. /\ Len(frames) \in DOMAIN frames /\ Me = frames[Len(frames)] /\ Me.op = "load" /\ Me.pc = pc
      /\ Me.h \in Handles /\ Me.h # 0
  <2>1. Me = frames[Len(frames)] /\ Len(frames) \in 1 .. Len(frames) /\ Me.op = "load" /\ Me.pc = pc
    BY RunningTop DEF UseInv, ControlInv
  <2> QED BY <2>1, CallArray
<1> QED BY <1>1 DEF UseInv, UsedIsLive, Outside

(* What a call that goes on to its next entry is.                          *)
LEMMA NextCall ==
  ASSUME CoreInv, CallsOK, NEW op, NEW pc, Running(op, pc)
  PROVE  \E f \in Frame :
            /\ Append(Front(frames), [Me EXCEPT !.next = @ + 1]) = Append(Front(frames), f)
            /\ f.op = op /\ f.pc = pc /\ f.h = Me.h /\ f.next = Me.next + 1 /\ f.file = Me.file
<1>1. Me \in Frame /\ Me.op = op /\ Me.pc = pc
  BY RunningTop
<1>2. [Me EXCEPT !.next = Me.next + 1] \in Frame
  BY <1>1 DEF Frame
<1> QED BY <1>1, <1>2 DEF Frame

(* A needed file that is loaded already gets one more user.                *)
LEMMA NeededIsLoadedUses ==
  ASSUME CoreInv, CoreInv', UseInv, NeededIsLoaded
  PROVE  UseInv'
<1>1. PICK d : /\ d \in Live /\ d \in Handles /\ loaded' = ShareModule(Me.h, d)
               /\ Running("load", "needed") /\ ret = NoReturn
  BY FoundIsLive DEF NeededIsLoaded, PendingNeeded
<1>2. Me.h \in Live /\ Me.h \in Handles
  BY <1>1, LoadedIsLive
<1>3. PICK u : u = Me.h
  OBVIOUS
<1>4. /\ Len(loaded') = Len(loaded)
      /\ \A m \in Handles : loaded'[m].deps = IF m = u THEN Append(loaded[u].deps, d) ELSE loaded[m].deps
      /\ \A m \in Handles : loaded'[m].use_count = loaded[m].use_count + (IF m = d THEN 1 ELSE 0)
  BY <1>1, <1>2, <1>3, ModuleShared
<1>5. PICK f \in Frame : frames' = Append(Front(frames), f) /\ f.op = "load" /\ f.pc = "needed" /\ f.h = Me.h
  BY <1>1, NextCall DEF NeededIsLoaded, NextNeeded, UseInv, ControlInv
<1>6. UNCHANGED << loaded_objects, fini_order, client, ret >>
  BY DEF NeededIsLoaded
<1>7. QueuedOnce'
  BY <1>6 DEF UseInv, ControlInv, QueuedOnce
<1>8. ControlInv' /\ Loading /\ Loading' /\ \A h \in Handles : Outside(h)' => Outside(h)
  BY <1>1, <1>5, <1>6, <1>7, LoadGoesOn DEF UseInv
<1>9. /\ d \in 0 .. Len(loaded) /\ d # 0
      /\ \A m \in Handles : \/ loaded'[m].use_count = loaded[m].use_count
                            \/ m = d /\ loaded'[m].use_count = loaded[m].use_count + 1
      /\ loaded'[d].use_count = loaded[d].use_count + 1
  BY <1>1, <1>4, CallArray, ModuleRecord
<1> QED BY <1>1, <1>2, <1>3, <1>4, <1>6, <1>8, <1>9, OneUseMore

(* A needed file that cannot be opened leaves a 0 on the list.             *)
LEMMA DependentNotFoundUses ==
  ASSUME CoreInv, CoreInv', UseInv, DependentNotFound
  PROVE  UseInv'
<1>1. Running("load", "needed") /\ Return("load", 0) /\ UNCHANGED << loaded_objects, fini_order, client >>
  BY DEF DependentNotFound, PendingNeeded
<1>2. Me.h \in Live /\ Me.h \in Handles
  BY <1>1, LoadedIsLive
<1>3. PICK u : u = Me.h
  OBVIOUS
<1>4. /\ Len(loaded') = Len(loaded)
      /\ \A m \in Handles : loaded'[m].deps = IF m = u THEN Append(loaded[u].deps, 0) ELSE loaded[m].deps
      /\ \A m \in Handles : loaded'[m].use_count = loaded[m].use_count
  BY <1>2, <1>3, DependencyAdded DEF DependentNotFound
<1>5. QueuedOnce'
  BY <1>1 DEF UseInv, ControlInv, QueuedOnce
<1>6. ControlInv' /\ Loading /\ Loading' /\ \A h \in Handles : Outside(h)' => Outside(h)
  BY <1>1, <1>5, LoadReturned DEF UseInv
<1>7. 0 \in 0 .. Len(loaded)
  BY CallArray
<1> QED BY <1>1, <1>2, <1>3, <1>4, <1>6, <1>7, OneUseMore

(* The handle that a nested load answers goes over to the list of the user. *)
LEMMA DependentReturnedUses ==
  ASSUME CoreInv, CoreInv', UseInv, DependentReturned
  PROVE  UseInv'
<1>1. /\ Running("load", "needed") /\ ret.of = "load" /\ loaded' = AddDependency(Me.h, ret.val)
      /\ UNCHANGED << loaded_objects, fini_order, client >>
  BY DEF DependentReturned
<1>2. Me.h \in Live /\ Me.h \in Handles
  BY <1>1, LoadedIsLive
<1>3. PICK d : /\ d = ret.val /\ d \in 0 .. Len(loaded) /\ d \in Nat
               /\ ret = [of |-> "load", val |-> d] /\ (d # 0 => d \in Handles)
  <2>1. ret \in Answer(Len(loaded)) /\ Len(loaded) \in Nat /\ Handles = 1 .. Len(loaded)
    BY CallArray DEF CoreInv
  <2> QED BY <1>1, <2>1 DEF Answer
<1>4. PICK u : u = Me.h
  OBVIOUS
<1>5. /\ Len(loaded') = Len(loaded)
      /\ \A m \in Handles : loaded'[m].deps = IF m = u THEN Append(loaded[u].deps, d) ELSE loaded[m].deps
      /\ \A m \in Handles : loaded'[m].use_count = loaded[m].use_count
  BY <1>1, <1>2, <1>3, <1>4, DependencyAdded
<1>6. QueuedOnce'
  BY <1>1 DEF UseInv, ControlInv, QueuedOnce
<1>7. d # 0 => d \in Live
  BY <1>3 DEF UseInv, UsedIsLive, Outside
<1>8. CASE d = 0
  <2>1. ControlInv' /\ Loading /\ Loading' /\ \A h \in Handles : Outside(h)' => Outside(h)
    BY <1>1, <1>3, <1>6, <1>8, LoadReturned DEF UseInv, DependentReturned
  <2> QED BY <1>1, <1>2, <1>3, <1>4, <1>5, <1>8, <2>1, OneUseMore
<1>9. CASE d # 0
  <2>1. PICK f \in Frame : frames' = Append(Front(frames), f) /\ f.op = "load" /\ f.pc = "needed" /\ f.h = Me.h
    BY <1>1, <1>3, <1>9, NextCall DEF DependentReturned, NextNeeded, UseInv, ControlInv
  <2>2. ret' = NoReturn
    BY <1>3, <1>9 DEF DependentReturned
  <2>3. /\ ControlInv' /\ Loading /\ Loading' /\ \A h \in Handles : Outside(h)' => Outside(h)
        /\ \A h \in Handles : ret = [of |-> "load", val |-> h] => Outside(h) /\ ~Outside(h)'
    BY <1>1, <1>6, <2>1, <2>2, LoadGoesOn DEF UseInv
  <2>4. Outside(d) /\ ~Outside(d)'
    BY <1>3, <1>9, <2>3
  <2> QED BY <1>1, <1>2, <1>3, <1>4, <1>5, <1>7, <2>3, <2>4, OneUseMore
<1> QED BY <1>8, <1>9

(* The load at the bottom of the stack goes on to relocation.              *)
LEMMA NeededDoneUses ==
  ASSUME CoreInv, CoreInv', UseInv, NeededDone
  PROVE  UseInv'
<1>1. CASE Return("load", Me.h)
  BY <1>1, LoadReturnedUses
<1>2. CASE frames' = Append(Front(frames), [Me EXCEPT !.pc = "relocate"]) /\ UNCHANGED ret
  <2>1. /\ Running("load", "needed") /\ ret = NoReturn
        /\ UNCHANGED << loaded, loaded_objects, fini_order, client >>
    BY DEF NeededDone
  <2>2. Me \in Frame /\ Me.op = "load"
    BY <2>1, RunningTop DEF UseInv, ControlInv
  <2>3. PICK f \in Frame : frames' = Append(Front(frames), f) /\ f.op = "load" /\ f.pc = "relocate" /\ f.h = Me.h
    <3>1. /\ [Me EXCEPT !.pc = "relocate"] \in Frame /\ [Me EXCEPT !.pc = "relocate"].op = "load"
          /\ [Me EXCEPT !.pc = "relocate"].pc = "relocate" /\ [Me EXCEPT !.pc = "relocate"].h = Me.h
      BY <2>2 DEF Frame
    <3> QED BY <1>2, <3>1
  <2>4. QueuedOnce'
    BY <2>1 DEF UseInv, ControlInv, QueuedOnce
  <2>5. ControlInv' /\ Loading /\ Loading' /\ \A h \in Handles : Outside(h)' => Outside(h)
    BY <1>2, <2>1, <2>3, <2>4, LoadGoesOn DEF UseInv
  <2> QED BY <2>1, <2>5, SameUsesLoading
<1> QED BY <1>1, <1>2 DEF NeededDone

(* A module of the graph is relocated.                                     *)
LEMMA RelocateUses ==
  ASSUME CoreInv, CoreInv', UseInv, Relocate
  PROVE  UseInv'
<1>1. Loading /\ UNCHANGED << loaded, loaded_objects, frames, ret, client, fini_order >>
  BY RunningTop DEF Relocate, UseInv, ControlInv
<1>2. ControlInv' /\ Loading' /\ \A h \in Handles : Outside(h)' => Outside(h)
  BY <1>1 DEF UseInv, ControlInv, CallsOK, ReturnOK, OneHolder, QueuedOnce, Loading, Unloading, Outside, Me
<1> QED BY <1>1, <1>2, SameUsesLoading

-----------------------------------------------------------------------------
(* The steps of an unload.                                                 *)

(* A step that ends one use of h, the last one or not.                     *)
OneUseGone(h) ==
  /\ loaded' = [loaded EXCEPT ![h].use_count = @ - 1]
  /\ UNCHANGED loaded_objects
  /\ \A g \in Handles \ {h} : /\ Outside(g)' <=> Outside(g)
                             /\ UsesByModules(g)' = UsesByModules(g)
  /\ AllUses(h) >= 1 /\ AllUses(h)' = AllUses(h) - 1
  /\ \/ /\ StillUsed(h) /\ UNCHANGED fini_order
        /\ \A m \in Handles : BeingUnloaded(m)' <=> BeingUnloaded(m)
     \/ /\ ~StillUsed(h) /\ fini_order' = Append(fini_order, h)
        /\ \A m \in Handles : BeingUnloaded(m)' <=> BeingUnloaded(m) \/ m = h

(* What it does to the records.                                            *)
LEMMA CountDropped ==
  ASSUME CoreInv, NEW h \in Handles, loaded' = [loaded EXCEPT ![h].use_count = @ - 1]
  PROVE  /\ Handles' = Handles /\ Len(loaded') = Len(loaded)
         /\ \A m \in Handles :
              /\ loaded'[m].use_count = loaded[m].use_count - (IF m = h THEN 1 ELSE 0)
              /\ loaded'[m].deps = loaded[m].deps /\ loaded'[m].file = loaded[m].file
              /\ loaded'[m].base = loaded[m].base
<1> DEFINE c == loaded[h].use_count - 1
           new == [loaded EXCEPT ![h].use_count = c]
<1>1. /\ loaded \in Seq(Module) /\ Handles = 1 .. Len(loaded)
      /\ \A m \in Handles : loaded[m].use_count \in Int
  BY CallArray, ModuleRecord DEF CoreInv, ModulesOK
<1>2. c \in Int /\ loaded' = new
  BY <1>1
<1> HIDE DEF c
<1>3. /\ Len(new) = Len(loaded)
      /\ \A m \in 1 .. Len(loaded) :
           /\ new[m].deps = loaded[m].deps /\ new[m].file = loaded[m].file /\ new[m].base = loaded[m].base
           /\ new[m].use_count = IF m = h THEN c ELSE loaded[m].use_count
  BY <1>1, <1>2, CountChanged
<1> HIDE DEF new
<1> QED BY <1>1, <1>2, <1>3 DEF c, Handles

(* One use less of a module that stays.                                    *)
LEMMA OneUseLess ==
  ASSUME CoreInv, CoreInv', UseInv, ControlInv', NEW h \in Live, OneUseGone(h),
         ret'.of # "abort" => ret.of # "abort"
  PROVE  UseInv'
<1>1. /\ Live' = Live /\ Live \subseteq Handles /\ Handles = 1 .. Len(loaded) /\ h \in Handles
      /\ \A m \in Handles : loaded[m].use_count \in Int
  BY LiveHandles, CallArray, ModuleRecord DEF Live, OneUseGone
<1>2. /\ Handles' = Handles
      /\ \A m \in Handles : loaded'[m].use_count = loaded[m].use_count - (IF m = h THEN 1 ELSE 0)
  BY <1>1, CountDropped DEF OneUseGone
<1>3. /\ IsFiniteSet(UsesByModules(h)) /\ Cardinality(UsesByModules(h)) \in Nat
      /\ \A g : Cardinality(UsesByModules(g)) \in Nat /\ Cardinality(UsesByModules(g)') \in Nat
      /\ IsFiniteSet(UsesByModules(h)')
  <2>1. CoreInv' /\ CallsOK' => FiniteUses'
    BY UsesFinite, PTL
  <2> QED BY <2>1, UsesFinite DEF UseInv, ControlInv, FiniteUses
<1>4. /\ loaded[h].use_count >= AllUses(h) /\ ~BeingUnloaded(h) /\ ~Terminated(h)
      /\ AllUses(h) \in Nat /\ loaded[h].use_count >= 1
  <2>1. AllUses(h) \in Nat
    BY <1>3 DEF AllUses
  <2>2. AllUses(h) >= 1 /\ loaded[h].use_count >= AllUses(h)
    BY DEF OneUseGone, UseInv, Covered
  <2>3. loaded[h].use_count >= 1
    BY <1>1, <2>1, <2>2
  <2> QED BY <1>1, <2>1, <2>2, <2>3 DEF UseInv, ModuleState
<1>5. \A m \in Live : loaded'[m].use_count >= AllUses(m)'
  <2>1. ASSUME NEW m \in Live PROVE loaded'[m].use_count >= AllUses(m)'
    <3>1. CASE m = h
      BY <1>1, <1>2, <1>4, <3>1 DEF OneUseGone
    <3>2. CASE m # h
      <4>1. loaded[m].use_count >= AllUses(m) /\ m \in Handles
        BY <1>1 DEF UseInv, Covered
      <4> QED BY <1>1, <1>2, <1>3, <3>2, <4>1 DEF AllUses, OneUseGone
    <3> QED BY <3>1, <3>2
  <2> QED BY <2>1
<1>6. UsedIsLive'
  <2>1. ASSUME NEW g \in Handles, Outside(g)' \/ UsesByModules(g)' # {} PROVE g \in Live
    BY <1>1, <2>1 DEF UseInv, UsedIsLive, OneUseGone
  <2> QED BY <1>1, <1>2, <2>1 DEF UsedIsLive
<1>7. ModuleState'
  <2>1. CASE StillUsed(h) /\ UNCHANGED fini_order
             /\ \A m \in Handles : BeingUnloaded(m)' <=> BeingUnloaded(m)
    <3>1. loaded[h].use_count >= 2
      BY <1>1, <1>4, <2>1 DEF StillUsed
    <3>2. ASSUME NEW m \in Live
          PROVE  IF BeingUnloaded(m)' THEN loaded'[m].use_count = 0 /\ Terminated(m)'
                 ELSE loaded'[m].use_count >= 1 /\ ~Terminated(m)'
      <4>1. CASE m = h
        BY <1>1, <1>2, <1>4, <2>1, <3>1, <4>1 DEF Terminated
      <4>2. CASE m # h
        BY <1>1, <1>2, <2>1, <4>2 DEF Terminated, UseInv, ModuleState
      <4> QED BY <4>1, <4>2
    <3> QED BY <1>1, <1>2, <2>1, <3>2 DEF ModuleState, UseInv
  <2>2. CASE ~StillUsed(h) /\ fini_order' = Append(fini_order, h)
             /\ \A m \in Handles : BeingUnloaded(m)' <=> BeingUnloaded(m) \/ m = h
    <3>1. \A m : Terminated(m)' <=> Terminated(m) \/ m = h
      <4>1. fini_order \in Seq(Handles)
        BY DEF CoreInv, OrdersOK, Handles
      <4>2. \A e : Contains(Append(fini_order, h), e) <=> Contains(fini_order, e) \/ e = h
        BY <1>1, <4>1, AppendContains
      <4> QED BY <2>2, <4>2 DEF Terminated
    <3>2. loaded'[h].use_count = 0
      BY <1>1, <1>2, <2>2 DEF StillUsed
    <3>3. ASSUME NEW m \in Live
          PROVE  IF BeingUnloaded(m)' THEN loaded'[m].use_count = 0 /\ Terminated(m)'
                 ELSE loaded'[m].use_count >= 1 /\ ~Terminated(m)'
      <4>1. CASE m = h
        BY <1>1, <2>2, <3>1, <3>2, <4>1
      <4>2. CASE m # h
        BY <1>1, <1>2, <2>2, <3>1, <4>2 DEF UseInv, ModuleState
      <4> QED BY <4>1, <4>2
    <3> QED BY <1>1, <1>2, <2>2, <3>3 DEF ModuleState, UseInv
  <2> QED BY <2>1, <2>2 DEF OneUseGone
<1> QED BY <1>1, <1>5, <1>6, <1>7 DEF UseInv, Covered

(* A list nobody works on, or works on where it did, is held as it was.    *)
LEMMA RestKept ==
  ASSUME CoreInv, CoreInv', CallsOK, CallsOK', NEW m \in Handles, m \in Handles',
         loaded'[m].deps = loaded[m].deps,
         \/ ~BeingUnloaded(m) /\ ~BeingUnloaded(m)'
         \/ ~BeingUnloaded(m) /\ \E j \in DOMAIN frames' :
               frames'[j].op = "unload" /\ frames'[j].h = m /\ frames'[j].next = 1
         \/ \E i \in DOMAIN frames : \E j \in DOMAIN frames' :
               /\ frames[i].op = "unload" /\ frames[i].h = m
               /\ frames'[j].op = "unload" /\ frames'[j].h = m
               /\ frames'[j].next = frames[i].next
  PROVE  HeldPositions(m)' = HeldPositions(m)
<1>1. RestHeld /\ RestHeld'
  <2>1. CoreInv' /\ CallsOK' => RestHeld'
    BY HeldPlaces, PTL
  <2> QED BY <2>1, HeldPlaces
<1>2. ASSUME ~BeingUnloaded(m), ~BeingUnloaded(m)' PROVE HeldPositions(m)' = HeldPositions(m)
  BY <1>1, <1>2 DEF RestHeld
<1>3. ASSUME ~BeingUnloaded(m), NEW j \in DOMAIN frames',
             frames'[j].op = "unload", frames'[j].h = m, frames'[j].next = 1
      PROVE  HeldPositions(m)' = HeldPositions(m)
  BY <1>1, <1>3 DEF RestHeld
<1>4. ASSUME NEW i \in DOMAIN frames, NEW j \in DOMAIN frames',
             frames[i].op = "unload", frames[i].h = m, frames'[j].op = "unload", frames'[j].h = m,
             frames'[j].next = frames[i].next
      PROVE  HeldPositions(m)' = HeldPositions(m)
  BY <1>1, <1>4 DEF RestHeld
<1> QED BY <1>2, <1>3, <1>4

(* The client gives up a handle, which is a module in memory.              *)
LEMMA HandleGivenUp ==
  ASSUME CoreInv, CoreInv', UseInv, NEW h \in client, TopUnload(h)
  PROVE  /\ h \in Live /\ ControlInv' /\ Unloading /\ Unloading' /\ OneUseGone(h)
         /\ \A m \in Handles : HeldPositions(m)' = HeldPositions(m)
         /\ Outside(h) /\ ~Outside(h)' /\ ret.of # "abort" /\ ret'.of # "load"
<1>1. h \in Handles /\ Outside(h) /\ h \in Live
  BY CallArray DEF CoreInv, OrdersOK, Outside, UseInv, UsedIsLive
<1>2. /\ frames = << >> /\ DOMAIN frames = {} /\ ret = NoReturn /\ client' = client \ {h}
      /\ UNCHANGED loaded_objects /\ loaded' = [loaded EXCEPT ![h].use_count = @ - 1]
  BY <1>1 DEF TopUnload, Idle, EnterUnload
<1>3. \/ /\ StillUsed(h) /\ frames' = << >> /\ ret' = [of |-> "unload", val |-> 0] /\ UNCHANGED fini_order
      \/ /\ ~StillUsed(h) /\ frames' = << Call("unload", loaded[h].file, h, "depend") >> /\ ret' = NoReturn
         /\ fini_order' = Append(fini_order, h)
  BY <1>1 DEF TopUnload, EnterUnload
<1>4. loaded[h].file \in File
  BY <1>1, ModuleRecord DEF Module
<1>5. ControlInv' /\ Unloading /\ Unloading'
  <2>1. Idle
    BY <1>2 DEF Idle
  <2> QED BY <1>2, <1>3, <1>4, <2>1, ClientGivesUp DEF UseInv
<1>6. Handles' = Handles /\ \A m \in Handles : loaded'[m].deps = loaded[m].deps
  BY <1>1, <1>2, CountDropped
<1>7. /\ \A m \in Handles : ~BeingUnloaded(m)
      /\ ~StillUsed(h) => \A m \in Handles : BeingUnloaded(m)' <=> m = h
      /\ StillUsed(h) => \A m \in Handles : ~BeingUnloaded(m)'
      /\ ~StillUsed(h) => \E j \in DOMAIN frames' :
               frames'[j].op = "unload" /\ frames'[j].h = h /\ frames'[j].next = 1
  <2>1. \A m \in Handles : ~BeingUnloaded(m)
    BY <1>2 DEF BeingUnloaded
  <2>2. CASE StillUsed(h)
    <3>1. DOMAIN frames' = {}
      BY <1>3, <2>2
    <3> QED BY <2>1, <2>2, <3>1 DEF BeingUnloaded
  <2>3. CASE ~StillUsed(h)
    <3> DEFINE g == Call("unload", loaded[h].file, h, "depend")
    <3>1. frames' = << g >>
      BY <1>3, <2>3
    <3>2. g.op = "unload" /\ g.h = h /\ g.next = 1
      BY DEF Call
    <3> HIDE DEF g
    <3>3. DOMAIN frames' = {1} /\ frames'[1] = g
      BY <3>1
    <3> QED BY <2>1, <2>3, <3>2, <3>3 DEF BeingUnloaded
  <2> QED BY <2>2, <2>3
<1>8. \A m \in Handles : HeldPositions(m)' = HeldPositions(m)
  <2>1. ASSUME NEW m \in Handles PROVE HeldPositions(m)' = HeldPositions(m)
    BY <1>5, <1>6, <1>7, RestKept DEF UseInv, ControlInv
  <2> QED BY <2>1
<1>9. \A g : UsesByModules(g)' = UsesByModules(g)
  <2>1. Live' = Live /\ Live \subseteq Handles
    BY <1>2, LiveHandles DEF Live
  <2> QED BY <1>6, <1>8, <2>1 DEF UsesByModules, UsesBy
<1>10. /\ \A g \in Handles \ {h} : Outside(g)' <=> Outside(g)
       /\ ~Outside(h)'
  <2>1. ret'.of # "load" /\ \A i \in DOMAIN frames' : frames'[i].op = "unload"
    BY <1>3, <1>5 DEF NoReturn, Unloading
  <2>2. ret.of # "load" /\ \A i \in DOMAIN frames : frames[i].op # "load"
    BY <1>2 DEF NoReturn
  <2>3. \A g : Outside(g)' <=> g \in client'
    BY <2>1 DEF Outside
  <2>4. \A g : Outside(g) <=> g \in client
    BY <2>2 DEF Outside
  <2> QED BY <1>2, <2>3, <2>4
<1>11. AllUses(h) >= 1 /\ AllUses(h)' = AllUses(h) - 1
  <2>1. Cardinality(UsesByModules(h)) \in Nat
    BY UsesFinite DEF FiniteUses, UseInv, ControlInv
  <2>2. UsesByModules(h)' = UsesByModules(h)
    BY <1>9
  <2> QED BY <1>1, <1>10, <2>1, <2>2 DEF AllUses
<1>12. ret.of # "abort" /\ ret'.of # "load"
  BY <1>2, <1>3 DEF NoReturn
<1>13. OneUseGone(h)
  BY <1>2, <1>3, <1>7, <1>9, <1>10, <1>11 DEF OneUseGone
<1> QED BY <1>1, <1>5, <1>8, <1>10, <1>12, <1>13

(* Its use count goes down with its uses.                                  *)
LEMMA TopUnloadUses ==
  ASSUME CoreInv, CoreInv', UseInv, NEW h \in client, TopUnload(h)
  PROVE  UseInv'
  BY HandleGivenUp, OneUseLess

(* The call that unloads, and the module it works on.                      *)
LEMMA UnloadedIsLive ==
  ASSUME CoreInv, UseInv, Running("unload", "depend"), ret.of # "abort"
  PROVE  /\ Me.h \in Live /\ Me.h \in Handles /\ Unloading
         /\ Len(frames) \in DOMAIN frames /\ Me = frames[Len(frames)] /\ Me.op = "unload"
         /\ BeingUnloaded(Me.h)
         /\ HeldPositions(Me.h) = Me.next .. Len(loaded[Me.h].deps) /\ Me.next \in Nat \ {0}
         /\ Len(loaded[Me.h].deps) \in Nat
<1>1. /\ Len(frames) \in 1 .. Len(frames) /\ Me = frames[Len(frames)] /\ Me.op = "unload" /\ Me.pc = "depend"
      /\ Unloading
  BY RunningTop DEF UseInv, ControlInv
<1>2. DOMAIN frames = 1 .. Len(frames) /\ Me.h \in Handles /\ Me.next \in Nat \ {0}
  BY <1>1, CallArray
<1>3. BeingUnloaded(Me.h)
  BY <1>1, <1>2 DEF BeingUnloaded
<1>4. Me.h \in Live
  BY <1>2, <1>3 DEF UseInv, ModuleState
<1>5. HeldPositions(Me.h) = Me.next .. Len(loaded[Me.h].deps) /\ Len(loaded[Me.h].deps) \in Nat
  BY <1>1, <1>2, HeldPlaces DEF RestHeld, UseInv, ControlInv
<1> QED BY <1>1, <1>2, <1>3, <1>4, <1>5

(* The client's part after a nested unload.                                *)
LEMMA DependentUnloadedUses ==
  ASSUME CoreInv, UseInv, DependentUnloaded
  PROVE  UseInv'
<1>1. /\ UNCHANGED << loaded, loaded_objects, fini_order, frames, client >> /\ ret.of = "unload"
      /\ ret' = NoReturn
  BY DEF DependentUnloaded
<1>2. ControlInv'
  BY <1>1 DEF UseInv, ControlInv, CallsOK, ReturnOK, OneHolder, QueuedOnce, Loading, Unloading, Me, NoReturn
<1>3. /\ \A m \in Handles : HeldPositions(m)' = HeldPositions(m)
      /\ \A m \in Handles : BeingUnloaded(m)' <=> BeingUnloaded(m)
      /\ \A h \in Handles : Outside(h)' => Outside(h)
  BY <1>1 DEF HeldPositions, UnloadFrames, BeingUnloaded, Outside, NoReturn
<1>4. ret.of # "abort"
  BY <1>1
<1> QED BY <1>1, <1>2, <1>3, <1>4, SameUses

(* The client takes the answer.                                            *)
LEMMA TopReturnedUses ==
  ASSUME CoreInv, CoreInv', UseInv, TopReturned
  PROVE  UseInv'
<1>1. UNCHANGED << loaded, loaded_objects, fini_order, frames >> /\ Loading /\ Loading'
  BY DEF TopReturned, Idle, Loading
<1>2. ControlInv' /\ \A h \in Handles : Outside(h)' => Outside(h)
  BY ClientTakes DEF UseInv
<1> QED BY <1>1, <1>2, SameUsesLoading

(* The next entry of a list is given up: the uses it was lose one, whatever *)
(* becomes of the module it names.                                         *)
LEMMA EntryGivenUp ==
  ASSUME CoreInv, CoreInv', UseInv, ControlInv', UNCHANGED << loaded_objects, client >>,
         Handles' = Handles, \A m \in Handles : loaded'[m].deps = loaded[m].deps,
         Running("unload", "depend"), ret = NoReturn, Unloading', ret'.of # "load",
         NEW u, u = Me.h, NEW x, x = Me.next, x <= Len(loaded[u].deps),
         NEW h, h = loaded[u].deps[x],
         NEW N,
         \/ N = {} /\ Replaced([Me EXCEPT !.next = Me.next + 1])
         \/ /\ N = {h} /\ h \in Handles /\ ~BeingUnloaded(h)
            /\ \E file \in File :
                  ReplacedPushed([Me EXCEPT !.next = Me.next + 1], Call("unload", file, h, "depend"))
  PROVE  /\ << u, x >> \in UsesByModules(h)
         /\ UsesByModules(h)' = UsesByModules(h) \ {<< u, x >>}
         /\ \A g \in Handles \ {h} : UsesByModules(g)' = UsesByModules(g)
         /\ HeldPositions(u)' = HeldPositions(u) \ {x} /\ x \in HeldPositions(u)
         /\ \A m \in Handles \ {u} : HeldPositions(m)' = HeldPositions(m)
         /\ \A m \in Handles : BeingUnloaded(m)' <=> BeingUnloaded(m) \/ m \in N
         /\ \A g : Outside(g)' <=> Outside(g)
<1> DEFINE f == [Me EXCEPT !.next = Me.next + 1]
           n == Len(frames)
<1>1. /\ u \in Live /\ u \in Handles /\ Unloading /\ n \in DOMAIN frames /\ Me = frames[n]
      /\ Me.op = "unload" /\ BeingUnloaded(u) /\ Me \in Frame
      /\ HeldPositions(u) = x .. Len(loaded[u].deps) /\ x \in Nat \ {0} /\ Len(loaded[u].deps) \in Nat
      /\ DOMAIN frames = 1 .. n /\ n \in Nat \ {0} /\ u # 0
  BY UnloadedIsLive, RunningTop, CallArray DEF NoReturn, UseInv, ControlInv
<1>2. f \in Frame /\ f.op = "unload" /\ f.h = u /\ f.next = x + 1
  BY <1>1 DEF Frame
<1> HIDE DEF f
<1>3. /\ frames'[n] = f /\ n \in DOMAIN frames'
      /\ \A i \in 1 .. n - 1 : i \in DOMAIN frames' /\ frames'[i] = frames[i]
      /\ N = {} => DOMAIN frames' = 1 .. n
      /\ N = {h} => /\ DOMAIN frames' = 1 .. n + 1
                   /\ frames'[n + 1].op = "unload" /\ frames'[n + 1].h = h /\ frames'[n + 1].next = 1
  <2>1. CASE N = {}
    <3>1. n \in Nat \ {0}
      BY <1>1
    <3>2. Replaced(f) /\ N # {h}
      BY <2>1 DEF f
    <3>3. n \in 1 .. n /\ \A i \in 1 .. n - 1 : i \in 1 .. n /\ i # n
      BY <3>1
    <3>4. DOMAIN frames' = 1 .. n
      BY <3>2 DEF Replaced
    <3>5. frames'[n] = f /\ \A i \in 1 .. n - 1 : frames'[i] = frames[i]
      BY <3>2, <3>3 DEF Replaced
    <3> QED BY <2>1, <3>2, <3>3, <3>4, <3>5
  <2>2. CASE N = {h}
    <3>1. PICK file \in File : ReplacedPushed(f, Call("unload", file, h, "depend"))
      BY <2>2 DEF f
    <3> DEFINE g == Call("unload", file, h, "depend")
    <3>2. g.op = "unload" /\ g.h = h /\ g.next = 1
      BY DEF Call
    <3> HIDE DEF g
    <3>3. ReplacedPushed(f, g)
      BY <3>1 DEF g
    <3>4. DOMAIN frames' = 1 .. n + 1
      BY <3>3 DEF ReplacedPushed
    <3>5. n \in Nat \ {0}
      BY <1>1
    <3>6. /\ n \in 1 .. n + 1 /\ n + 1 \in 1 .. n + 1 /\ n # n + 1
          /\ \A i \in 1 .. n - 1 : i \in 1 .. n + 1 /\ i # n /\ i # n + 1
      BY <3>5
    <3>7. frames'[n] = f /\ frames'[n + 1] = g /\ \A i \in 1 .. n - 1 : frames'[i] = frames[i]
      BY <3>3, <3>6 DEF ReplacedPushed
    <3> QED BY <2>2, <3>2, <3>4, <3>6, <3>7
  <2> QED BY <2>1, <2>2
<1>4. \A i \in DOMAIN frames : frames[i].op = "unload" /\ (i = n \/ i \in 1 .. n - 1)
  BY <1>1 DEF Unloading
<1>5. \A j \in DOMAIN frames' : frames'[j].op = "unload" /\ (j = n \/ j \in 1 .. n - 1 \/ (N = {h} /\ j = n + 1))
  <2>1. \A j \in 1 .. n + 1 : j = n \/ j \in 1 .. n - 1 \/ j = n + 1
    BY <1>1
  <2>2. \A j \in 1 .. n : j = n \/ j \in 1 .. n - 1
    BY <1>1
  <2> QED BY <1>3, <2>1, <2>2 DEF Unloading
<1>6. ASSUME NEW m \in Handles PROVE BeingUnloaded(m)' <=> BeingUnloaded(m) \/ m \in N
  <2>1. ASSUME BeingUnloaded(m)' PROVE BeingUnloaded(m) \/ m \in N
    <3>1. PICK j \in DOMAIN frames' : frames'[j].h = m
      BY <2>1 DEF BeingUnloaded
    <3> QED BY <1>1, <1>2, <1>3, <1>4, <1>5, <3>1 DEF BeingUnloaded
  <2>2. ASSUME BeingUnloaded(m) PROVE BeingUnloaded(m)'
    <3>1. PICK i \in DOMAIN frames : frames[i].h = m
      BY <2>2 DEF BeingUnloaded
    <3> QED BY <1>1, <1>2, <1>3, <1>4, <1>5, <3>1 DEF BeingUnloaded
  <2>3. ASSUME m \in N PROVE BeingUnloaded(m)'
    <3>1. n + 1 \in DOMAIN frames'
      BY <1>1, <1>3, <2>3
    <3> QED BY <1>3, <2>3, <3>1 DEF BeingUnloaded
  <2> QED BY <2>1, <2>2, <2>3
<1>7. \A g : Outside(g)' <=> Outside(g)
  <2>1. \A i \in DOMAIN frames : frames[i].op # "load"
    BY <1>4
  <2>2. \A i \in DOMAIN frames' : frames'[i].op # "load"
    BY <1>5
  <2> QED BY <2>1, <2>2 DEF Outside, NoReturn
<1>8. HeldPositions(u)' = HeldPositions(u) \ {x} /\ x \in HeldPositions(u)
  <2>1. RestHeld'
    <3>1. CoreInv' /\ CallsOK' => RestHeld'
      BY HeldPlaces, PTL
    <3> QED BY <3>1 DEF ControlInv
  <2>2. HeldPositions(u)' = x + 1 .. Len(loaded'[u].deps)
    BY <1>1, <1>2, <1>3, <2>1 DEF RestHeld
  <2>3. loaded'[u].deps = loaded[u].deps
    BY <1>1
  <2>4. x \in Nat /\ Len(loaded[u].deps) \in Nat
    BY <1>1
  <2>5. x + 1 .. Len(loaded[u].deps) = (x .. Len(loaded[u].deps)) \ {x} /\ x \in x .. Len(loaded[u].deps)
    BY <2>4
  <2> QED BY <1>1, <2>2, <2>3, <2>5
<1>9. ASSUME NEW m \in Handles, m # u PROVE HeldPositions(m)' = HeldPositions(m)
  <2>1. CASE BeingUnloaded(m)
    <3>1. PICK i \in DOMAIN frames : frames[i].h = m
      BY <2>1 DEF BeingUnloaded
    <3>2. i \in 1 .. n - 1
      BY <1>1, <1>4, <1>9, <3>1
    <3>3. i \in DOMAIN frames' /\ frames'[i] = frames[i] /\ frames[i].op = "unload"
      BY <1>3, <1>4, <3>2
    <3> QED BY <3>1, <3>3, RestKept DEF UseInv, ControlInv
  <2>2. CASE ~BeingUnloaded(m) /\ ~BeingUnloaded(m)'
    BY <2>2, RestKept DEF UseInv, ControlInv
  <2>3. CASE ~BeingUnloaded(m) /\ m \in N
    <3>1. n + 1 \in DOMAIN frames'
      BY <1>1, <1>3, <2>3
    <3> QED BY <1>3, <2>3, <3>1, RestKept DEF UseInv, ControlInv
  <2> QED BY <1>6, <2>1, <2>2, <2>3
<1>10. Live' = Live /\ Live \subseteq Handles
  BY LiveHandles DEF Live
<1>11. << u, x >> \in UsesByModules(h)
  BY <1>1, <1>8, UsesAre
<1>12. ASSUME NEW g, NEW e
       PROVE  e \in UsesByModules(g)' <=> e \in UsesByModules(g) /\ e # << u, x >>
  <2>1. ASSUME e \in UsesByModules(g)' PROVE e \in UsesByModules(g) /\ e # << u, x >>
    <3>1. PICK m, i : m \in Live' /\ i \in HeldPositions(m)' /\ e = << m, i >> /\ loaded'[m].deps[i] = g
      BY <2>1 DEF UsesByModules, UsesBy
    <3>2. m \in Live /\ i \in HeldPositions(m) /\ loaded[m].deps[i] = g /\ (m # u \/ i # x)
      BY <1>8, <1>9, <1>10, <3>1
    <3> QED BY <3>1, <3>2, UsesAre
  <2>2. ASSUME e \in UsesByModules(g), e # << u, x >> PROVE e \in UsesByModules(g)'
    <3>1. PICK m, i : m \in Live /\ i \in HeldPositions(m) /\ e = << m, i >> /\ loaded[m].deps[i] = g
      BY <2>2, UsesAre
    <3>2. m \in Live' /\ i \in HeldPositions(m)' /\ loaded'[m].deps[i] = g
      BY <1>8, <1>9, <1>10, <2>2, <3>1
    <3> QED BY <3>1, <3>2 DEF UsesByModules, UsesBy
  <2> QED BY <2>1, <2>2
<1>13. \A g \in Handles \ {h} : << u, x >> \notin UsesByModules(g)
  BY UsesAre
<1>14. UsesByModules(h)' = UsesByModules(h) \ {<< u, x >>}
  BY <1>12
<1>15. ASSUME NEW g \in Handles \ {h} PROVE UsesByModules(g)' = UsesByModules(g)
  BY <1>12, <1>13
<1> QED BY <1>6, <1>7, <1>8, <1>9, <1>11, <1>14, <1>15

(* A nested unload whose module is not in memory: the entry was a 0.       *)
LEMMA NothingGivenUp ==
  ASSUME CoreInv, CoreInv', UseInv, UnloadDependent, loaded[Me.h].deps[Me.next] \notin Live
  PROVE  /\ ControlInv' /\ loaded[Me.h].deps[Me.next] \notin Handles
         /\ UNCHANGED << loaded, loaded_objects, fini_order >>
         /\ \A g \in Handles : UsesByModules(g)' = UsesByModules(g)
         /\ \A m \in Handles : BeingUnloaded(m)' <=> BeingUnloaded(m)
         /\ \A g : Outside(g)' <=> Outside(g)
         /\ ret.of # "abort" /\ Unloading /\ Unloading' /\ ret'.of # "load"
<1>1. PICK u, x, h : u = Me.h /\ x = Me.next /\ h = loaded[u].deps[x]
  OBVIOUS
<1>2. /\ Running("unload", "depend") /\ ret = NoReturn /\ x <= Len(loaded[u].deps)
      /\ EnterUnload(h, NextDependent) /\ UNCHANGED << loaded_objects, client >>
  BY <1>1 DEF UnloadDependent, DependentsLeft
<1>3. /\ u \in Live /\ u \in Handles /\ x \in 1 .. Len(loaded[u].deps) /\ x \in HeldPositions(u)
      /\ ret.of # "abort"
  BY <1>1, <1>2, UnloadedIsLive DEF NoReturn
<1>4. << u, x >> \in UsesByModules(h)
  BY <1>1, <1>3, UsesAre
<1>5. /\ frames' = NextDependent /\ ret' = [of |-> "unload", val |-> 0] /\ UNCHANGED << loaded, fini_order >>
      /\ h \notin Live
  BY <1>1, <1>2 DEF EnterUnload
<1>6. h \notin Handles
  BY <1>4, <1>5 DEF UseInv, UsedIsLive
<1>7. ControlInv' /\ Unloading /\ Unloading' /\ Replaced([Me EXCEPT !.next = Me.next + 1])
  BY <1>2, <1>5, UnloadSkips DEF UseInv
<1>8. Handles' = Handles /\ ret'.of = "unload"
  BY <1>5 DEF Handles
<1>9. PICK N : N = {}
  OBVIOUS
<1>10. /\ UsesByModules(h)' = UsesByModules(h) \ {<< u, x >>}
       /\ \A g \in Handles \ {h} : UsesByModules(g)' = UsesByModules(g)
       /\ HeldPositions(u)' = HeldPositions(u) \ {x}
       /\ \A m \in Handles : BeingUnloaded(m)' <=> BeingUnloaded(m) \/ m \in N
       /\ \A g : Outside(g)' <=> Outside(g)
  <2>1. \A m \in Handles : loaded'[m].deps = loaded[m].deps
    BY <1>5
  <2>2. ret'.of # "load"
    BY <1>8
  <2>3. N = {} /\ Replaced([Me EXCEPT !.next = Me.next + 1])
    BY <1>7, <1>9
  <2>4. /\ Running("unload", "depend") /\ ret = NoReturn /\ Unloading' /\ ret'.of # "load"
        /\ ControlInv' /\ UNCHANGED << loaded_objects, client >> /\ Handles' = Handles
        /\ u = Me.h /\ x = Me.next /\ x <= Len(loaded[u].deps) /\ h = loaded[u].deps[x]
        /\ \/ N = {} /\ Replaced([Me EXCEPT !.next = Me.next + 1])
           \/ /\ N = {h} /\ h \in Handles /\ ~BeingUnloaded(h)
              /\ \E file \in File :
                    ReplacedPushed([Me EXCEPT !.next = Me.next + 1], Call("unload", file, h, "depend"))
    BY <1>1, <1>2, <1>7, <1>8, <2>2, <2>3
  <2> QED BY <2>1, <2>4, EntryGivenUp
<1>11. \A g \in Handles : UsesByModules(g)' = UsesByModules(g)
  <2>1. ASSUME NEW g \in Handles PROVE g \in Handles \ {h}
    BY <1>6
  <2> QED BY <1>10, <2>1
<1>12. \A m \in Handles : BeingUnloaded(m)' <=> BeingUnloaded(m)
  BY <1>9, <1>10
<1>13. loaded[Me.h].deps[Me.next] \notin Handles
  BY <1>1, <1>6
<1>14. \A g : Outside(g)' <=> Outside(g)
  BY <1>10
<1>15. ret'.of # "load" /\ UNCHANGED << loaded, loaded_objects, fini_order >>
  BY <1>2, <1>5, <1>8
<1>16. ControlInv' /\ ret.of # "abort" /\ Unloading /\ Unloading'
  BY <1>3, <1>7
<1> QED BY <1>11, <1>12, <1>13, <1>14, <1>15, <1>16

(* A nested unload of a module in memory, which loses a use.               *)
LEMMA DependentGivenUp ==
  ASSUME CoreInv, CoreInv', UseInv, UnloadDependent,
         NEW u, u = Me.h, NEW x, x = Me.next, NEW h \in Live, h = loaded[u].deps[x]
  PROVE  /\ ControlInv' /\ OneUseGone(h) /\ u \in Live /\ BeingUnloaded(u)
         /\ HeldPositions(u)' = HeldPositions(u) \ {x} /\ x \in HeldPositions(u)
         /\ \A m \in Handles \ {u} : HeldPositions(m)' = HeldPositions(m)
         /\ \A g : Outside(g)' <=> Outside(g)
         /\ ret.of # "abort" /\ Unloading /\ Unloading' /\ ret'.of # "load"
<1>1. /\ Running("unload", "depend") /\ ret = NoReturn /\ x <= Len(loaded[u].deps)
      /\ EnterUnload(h, NextDependent) /\ UNCHANGED << loaded_objects, client >>
  BY DEF UnloadDependent, DependentsLeft
<1>2. /\ u \in Live /\ u \in Handles /\ x \in 1 .. Len(loaded[u].deps) /\ x \in HeldPositions(u)
      /\ Handles = 1 .. Len(loaded) /\ Len(loaded) \in Nat /\ ret.of # "abort" /\ BeingUnloaded(u)
  BY <1>1, UnloadedIsLive, CallArray DEF NoReturn
<1>3. << u, x >> \in UsesByModules(h)
  BY <1>2, UsesAre
<1>4. /\ loaded' = [loaded EXCEPT ![h].use_count = @ - 1] /\ h \in Handles
      /\ \/ /\ StillUsed(h) /\ frames' = NextDependent /\ ret' = [of |-> "unload", val |-> 0]
            /\ UNCHANGED fini_order
         \/ /\ ~StillUsed(h) /\ ret' = NoReturn /\ fini_order' = Append(fini_order, h)
            /\ frames' = Append(NextDependent, Call("unload", loaded[h].file, h, "depend"))
  BY <1>1, LiveHandles DEF EnterUnload
<1>5. IsFiniteSet(UsesByModules(h)) /\ Cardinality(UsesByModules(h)) \in Nat
  BY UsesFinite DEF FiniteUses, UseInv, ControlInv
<1>6. /\ Cardinality(UsesByModules(h)) >= 1
      /\ Cardinality(UsesByModules(h) \ {<< u, x >>}) = Cardinality(UsesByModules(h)) - 1
  <2>1. Cardinality(UsesByModules(h) \ {<< u, x >>}) = Cardinality(UsesByModules(h)) - 1
    BY <1>3, <1>5, FS_RemoveElement
  <2>2. Cardinality(UsesByModules(h) \ {<< u, x >>}) \in Nat
    BY <1>5, FS_RemoveElement, FS_CardinalityType
  <2> QED BY <1>5, <2>1, <2>2
<1>7. AllUses(h) >= 1 /\ AllUses(h) \in Nat /\ loaded[h].use_count \in Int
  <2>1. AllUses(h) >= 1 /\ AllUses(h) \in Nat
    BY <1>5, <1>6 DEF AllUses
  <2>2. loaded[h].use_count \in Int
    BY <1>4, ModuleRecord
  <2> QED BY <2>1, <2>2
<1>8. ~BeingUnloaded(h)
  BY <1>7 DEF UseInv, Covered, ModuleState
<1>9. Handles' = Handles /\ \A m \in Handles : loaded'[m].deps = loaded[m].deps
  BY <1>4, CountDropped
<1>10. CASE StillUsed(h)
  <2>1. frames' = NextDependent /\ ret' = [of |-> "unload", val |-> 0] /\ UNCHANGED fini_order
    BY <1>4, <1>10
  <2>2. ControlInv' /\ Unloading /\ Unloading' /\ Replaced([Me EXCEPT !.next = Me.next + 1])
    BY <1>1, <2>1, UnloadSkips DEF UseInv
  <2>3. PICK N : N = {}
    OBVIOUS
  <2>4. ret'.of # "load"
    BY <2>1
  <2>5. /\ UsesByModules(h)' = UsesByModules(h) \ {<< u, x >>}
        /\ \A g \in Handles \ {h} : UsesByModules(g)' = UsesByModules(g)
        /\ HeldPositions(u)' = HeldPositions(u) \ {x}
        /\ \A m \in Handles \ {u} : HeldPositions(m)' = HeldPositions(m)
        /\ \A m \in Handles : BeingUnloaded(m)' <=> BeingUnloaded(m) \/ m \in N
        /\ \A g : Outside(g)' <=> Outside(g)
    BY <1>1, <1>9, <2>2, <2>3, <2>4, EntryGivenUp
  <2>6. AllUses(h)' = AllUses(h) - 1
    BY <1>5, <1>6, <2>5 DEF AllUses
  <2>7. \A m \in Handles : BeingUnloaded(m)' <=> BeingUnloaded(m)
    BY <2>3, <2>5
  <2>8. OneUseGone(h)
    BY <1>1, <1>4, <1>7, <1>10, <2>1, <2>5, <2>6, <2>7 DEF OneUseGone
  <2> QED BY <1>2, <2>2, <2>4, <2>5, <2>8
<1>11. CASE ~StillUsed(h)
  <2>1. PICK file : file = loaded[h].file
    OBVIOUS
  <2>2. /\ ret' = NoReturn /\ fini_order' = Append(fini_order, h) /\ file \in File
        /\ frames' = Append(NextDependent, Call("unload", file, h, "depend"))
    BY <1>4, <1>11, <2>1, ModuleRecord DEF Module
  <2>3. \A i \in DOMAIN frames : frames[i].h # h
    <3>1. Unloading
      BY <1>1, RunningTop DEF UseInv, ControlInv
    <3> QED BY <1>8, <3>1 DEF Unloading, BeingUnloaded
  <2>4. /\ ControlInv' /\ Unloading /\ Unloading'
        /\ ReplacedPushed([Me EXCEPT !.next = Me.next + 1], Call("unload", file, h, "depend"))
    BY <1>1, <1>4, <2>2, <2>3, UnloadNests DEF UseInv
  <2>5. PICK N : N = {h}
    OBVIOUS
  <2>6. /\ ret'.of # "load" /\ N = {h} /\ h \in Handles /\ ~BeingUnloaded(h)
        /\ \E f \in File :
              ReplacedPushed([Me EXCEPT !.next = Me.next + 1], Call("unload", f, h, "depend"))
    BY <1>4, <1>8, <2>2, <2>4, <2>5 DEF NoReturn
  <2>7. /\ UsesByModules(h)' = UsesByModules(h) \ {<< u, x >>}
        /\ \A g \in Handles \ {h} : UsesByModules(g)' = UsesByModules(g)
        /\ HeldPositions(u)' = HeldPositions(u) \ {x}
        /\ \A m \in Handles \ {u} : HeldPositions(m)' = HeldPositions(m)
        /\ \A m \in Handles : BeingUnloaded(m)' <=> BeingUnloaded(m) \/ m \in N
        /\ \A g : Outside(g)' <=> Outside(g)
    BY <1>1, <1>9, <2>4, <2>6, EntryGivenUp
  <2>8. AllUses(h)' = AllUses(h) - 1
    BY <1>5, <1>6, <2>7 DEF AllUses
  <2>9. \A m \in Handles : BeingUnloaded(m)' <=> BeingUnloaded(m) \/ m = h
    BY <2>5, <2>7
  <2>10. OneUseGone(h)
    BY <1>1, <1>4, <1>7, <1>11, <2>2, <2>7, <2>8, <2>9 DEF OneUseGone
  <2> QED BY <1>2, <2>4, <2>6, <2>7, <2>10
<1> QED BY <1>10, <1>11

(* A nested unload: the module loses a use, or it was not in memory.       *)
LEMMA UnloadDependentUses ==
  ASSUME CoreInv, CoreInv', UseInv, UnloadDependent
  PROVE  UseInv'
<1>1. PICK u, x, h : u = Me.h /\ x = Me.next /\ h = loaded[u].deps[x]
  OBVIOUS
<1>2. CASE h \in Live
  BY <1>1, <1>2, DependentGivenUp, OneUseLess
<1>3. CASE h \notin Live
  <2>1. loaded[Me.h].deps[Me.next] \notin Live
    BY <1>1, <1>3
  <2> QED BY <2>1, NothingGivenUp, CountsKept
<1> QED BY <1>2, <1>3

(* A module that gave up its whole list is freed; or the program ends while *)
(* it frees it.                                                            *)
LEMMA ModuleFreed ==
  ASSUME CoreInv, CoreInv', UseInv, UnloadDone \/ AbortOnDoubleFree, NEW u, u = Me.h
  PROVE  /\ ControlInv' /\ Unloading'
         /\ u \in Live /\ BeingUnloaded(u) /\ ~Outside(u) /\ UsesByModules(u) = {}
         /\ Live' = Live \ {u} /\ Handles' = Handles
         /\ HeldPositions(u) = {}
         /\ \A m \in Handles \ {u} : HeldPositions(m)' = HeldPositions(m)
         /\ \A m \in Handles \ {u} : BeingUnloaded(m)' <=> BeingUnloaded(m)
         /\ \A g : UsesByModules(g)' = UsesByModules(g)
         /\ \A g : Outside(g)' <=> Outside(g)
         /\ Popped \/ (frames' = frames /\ ret'.of = "abort")
<1>1. u = Me.h
  OBVIOUS
<1>2. /\ Running("unload", "depend") /\ ret = NoReturn /\ loaded_objects' = RemoveLoaded(u)
      /\ ~(Me.next <= Len(loaded[u].deps)) /\ UNCHANGED << loaded, client, fini_order >>
  BY <1>1 DEF UnloadDone, AbortOnDoubleFree, DependentsLeft
<1>3. /\ u \in Live /\ u \in Handles /\ Unloading /\ BeingUnloaded(u) /\ ret.of # "abort"
      /\ HeldPositions(u) = Me.next .. Len(loaded[u].deps) /\ Me.next \in Nat \ {0}
      /\ Len(loaded[u].deps) \in Nat
      /\ DOMAIN frames = 1 .. Len(frames) /\ Len(frames) \in Nat \ {0}
      /\ frames[Len(frames)].h = u
  BY <1>1, <1>2, UnloadedIsLive, CallArray, RunningTop DEF NoReturn, UseInv, ControlInv
<1>4. HeldPositions(u) = {}
  BY <1>2, <1>3
<1>5. Live' = Live \ {u} /\ QueuedOnce' /\ Live \subseteq Handles /\ Handles' = Handles
  BY <1>2, <1>3, LeavesQueue, LiveHandles DEF UseInv, ControlInv, Handles
<1>6. /\ ControlInv' /\ Unloading'
      /\ \/ Popped /\ ret'.of = "unload"
         \/ frames' = frames /\ ret'.of = "abort"
  <2>1. CASE UnloadDone
    <3>1. Return("unload", 1) /\ client' = client
      BY <2>1 DEF UnloadDone
    <3>2. ret'.of = "unload"
      BY <3>1 DEF Return
    <3> QED BY <1>2, <1>5, <3>1, <3>2, UnloadReturns DEF UseInv
  <2>2. CASE AbortOnDoubleFree
    <3>1. frames' = frames /\ client' = client /\ ret' = [of |-> "abort", val |-> 0]
      BY <2>2 DEF AbortOnDoubleFree
    <3>2. Unloading' /\ CallsOK'
      BY <1>3, <3>1 DEF UseInv, ControlInv, CallsOK, Loading, Unloading
    <3>3. ReturnOK' /\ OneHolder'
      BY <1>2, <3>1, <3>2 DEF ReturnOK, OneHolder, UseInv, ControlInv, Me, Running
    <3> QED BY <1>5, <3>1, <3>2, <3>3 DEF ControlInv
  <2> QED BY <2>1, <2>2
<1>7. \A g : Outside(g)' <=> Outside(g)
  <2>1. \A i \in DOMAIN frames : frames[i].op # "load"
    BY <1>3 DEF Unloading
  <2>2. \A i \in DOMAIN frames' : frames'[i].op # "load"
    BY <1>6 DEF Unloading
  <2> QED BY <1>2, <1>6, <2>1, <2>2 DEF Outside, NoReturn
<1>8. ASSUME NEW m \in Handles, m # u
      PROVE  HeldPositions(m)' = HeldPositions(m) /\ (BeingUnloaded(m)' <=> BeingUnloaded(m))
  <2>1. CASE frames' = frames
    BY <1>2, <2>1 DEF HeldPositions, UnloadFrames, BeingUnloaded
  <2>2. CASE Popped
    <3>1. \A i \in DOMAIN frames : frames[i].op = "unload" /\ (i = Len(frames) \/ i \in 1 .. Len(frames) - 1)
      BY <1>3 DEF Unloading
    <3>2. /\ DOMAIN frames' = 1 .. Len(frames) - 1
          /\ \A i \in 1 .. Len(frames) - 1 : frames'[i] = frames[i] /\ i \in DOMAIN frames
      BY <1>3, <2>2 DEF Popped
    <3>3. ASSUME BeingUnloaded(m)
          PROVE  \E i \in DOMAIN frames : \E j \in DOMAIN frames' :
                   /\ frames[i].op = "unload" /\ frames[i].h = m
                   /\ frames'[j].op = "unload" /\ frames'[j].h = m
                   /\ frames'[j].next = frames[i].next
      <4>1. PICK i \in DOMAIN frames : frames[i].h = m
        BY <3>3 DEF BeingUnloaded
      <4>2. i \in 1 .. Len(frames) - 1
        BY <1>3, <1>8, <3>1, <4>1
      <4> QED BY <3>1, <3>2, <4>1, <4>2
    <3>4. BeingUnloaded(m)' <=> BeingUnloaded(m)
      BY <3>2, <3>3 DEF BeingUnloaded
    <3> QED BY <1>2, <1>5, <1>6, <3>3, <3>4, RestKept DEF UseInv, ControlInv
  <2> QED BY <1>6, <2>1, <2>2
<1>9. ASSUME NEW g PROVE UsesByModules(g)' = UsesByModules(g)
  <2>1. ASSUME NEW e PROVE e \in UsesByModules(g)' <=> e \in UsesByModules(g)
    <3>1. ASSUME e \in UsesByModules(g)' PROVE e \in UsesByModules(g)
      <4>1. PICK m, i : m \in Live' /\ i \in HeldPositions(m)' /\ e = << m, i >> /\ loaded'[m].deps[i] = g
        BY <3>1 DEF UsesByModules, UsesBy
      <4>2. m \in Live /\ i \in HeldPositions(m) /\ loaded[m].deps[i] = g
        BY <1>2, <1>5, <1>8, <4>1
      <4> QED BY <4>1, <4>2, UsesAre
    <3>2. ASSUME e \in UsesByModules(g) PROVE e \in UsesByModules(g)'
      <4>1. PICK m, i : m \in Live /\ i \in HeldPositions(m) /\ e = << m, i >> /\ loaded[m].deps[i] = g
        BY <3>2, UsesAre
      <4>2. m \in Live' /\ i \in HeldPositions(m)' /\ loaded'[m].deps[i] = g
        BY <1>2, <1>4, <1>5, <1>8, <4>1
      <4> QED BY <4>1, <4>2 DEF UsesByModules, UsesBy
    <3> QED BY <3>1, <3>2
  <2> QED BY <2>1
<1>10. \A g : Cardinality(UsesByModules(g)) \in Nat
  BY UsesFinite DEF FiniteUses, UseInv, ControlInv
<1>11. ~Outside(u) /\ UsesByModules(u) = {}
  <2>1. loaded[u].use_count = 0 /\ loaded[u].use_count >= AllUses(u)
    BY <1>3 DEF UseInv, ModuleState, Covered
  <2>2. Cardinality(UsesByModules(u)) = 0 /\ ~Outside(u)
    BY <1>10, <2>1 DEF AllUses
  <2> QED BY <2>2, FS_EmptySet, UsesFinite DEF FiniteUses, UseInv, ControlInv
<1> QED BY <1>3, <1>4, <1>5, <1>6, <1>7, <1>8, <1>9, <1>11

(* What it leaves behind is used and counted as before.                    *)
LEMMA FreedUses ==
  ASSUME CoreInv, CoreInv', UseInv, UnloadDone \/ AbortOnDoubleFree
  PROVE  UseInv'
<1>1. PICK u : u = Me.h
  OBVIOUS
<1>2. UNCHANGED << loaded, fini_order >> /\ Live \subseteq Handles
  BY LiveHandles DEF UnloadDone, AbortOnDoubleFree
<1>3. /\ ControlInv' /\ u \in Live /\ BeingUnloaded(u)
      /\ Live' = Live \ {u} /\ Handles' = Handles
  BY <1>1, ModuleFreed
<1>4. /\ ~Outside(u) /\ UsesByModules(u) = {}
      /\ \A g : UsesByModules(g)' = UsesByModules(g)
      /\ \A g : Outside(g)' <=> Outside(g)
  BY <1>1, ModuleFreed
<1>5. \A m \in Handles \ {u} : BeingUnloaded(m)' <=> BeingUnloaded(m)
  BY <1>1, ModuleFreed
<1>6. ModuleState'
  <2>1. \A m \in Live' : IF BeingUnloaded(m)' THEN loaded'[m].use_count = 0 /\ Terminated(m)'
                         ELSE loaded'[m].use_count >= 1 /\ ~Terminated(m)'
    BY <1>2, <1>3, <1>5 DEF UseInv, ModuleState, Terminated
  <2>2. ret'.of # "abort" => \A m \in Handles : BeingUnloaded(m)' => m \in Live'
    <3>1. ASSUME ret'.of # "abort", NEW m \in Handles, BeingUnloaded(m)' PROVE m \in Live'
      <4>1. Popped /\ DOMAIN frames = 1 .. Len(frames) /\ Len(frames) \in Nat /\ m # 0
        BY <1>1, <3>1, ModuleFreed, CallArray
      <4>2. m # u
        <5>1. PICK j \in DOMAIN frames' : frames'[j].h = m
          BY <3>1 DEF BeingUnloaded
        <5>2. j \in DOMAIN frames /\ frames[j].h = m /\ j # Len(frames) /\ Len(frames) \in DOMAIN frames
          BY <4>1, <5>1 DEF Popped
        <5>3. Me = frames[Len(frames)]
          BY <4>1, TopOfCalls DEF Popped
        <5> QED BY <1>1, <4>1, <5>2, <5>3 DEF UseInv, ControlInv, CallsOK
      <4>3. ret.of # "abort"
        BY DEF UnloadDone, AbortOnDoubleFree, NoReturn
      <4> QED BY <1>3, <1>5, <3>1, <4>2, <4>3 DEF UseInv, ModuleState
    <3> QED BY <3>1
  <2> QED BY <1>3, <2>1, <2>2 DEF ModuleState
<1>7. UsedIsLive'
  BY <1>3, <1>4 DEF UseInv, UsedIsLive
<1>8. ASSUME NEW h \in Live' PROVE loaded'[h].use_count >= AllUses(h)'
  <2>1. h \in Live /\ loaded[h].use_count >= AllUses(h) /\ loaded'[h] = loaded[h]
    BY <1>2, <1>3 DEF UseInv, Covered
  <2>2. AllUses(h)' = AllUses(h)
    BY <1>4 DEF AllUses
  <2> QED BY <2>1, <2>2
<1> QED BY <1>3, <1>6, <1>7, <1>8 DEF UseInv, Covered

-----------------------------------------------------------------------------
(* At the start no call is under way and nothing is in memory.             *)
LEMMA UseInit == Init => UseInv
<1> SUFFICES ASSUME Init PROVE UseInv
  OBVIOUS
<1>1. /\ DOMAIN frames = {} /\ DOMAIN loaded_objects = {} /\ Live = {} /\ frames = << >>
      /\ ret = NoReturn /\ client = {}
  BY DEF Init, Live, ToSet
<1>2. ControlInv
  BY <1>1 DEF ControlInv, CallsOK, ReturnOK, OneHolder, QueuedOnce, Loading, Unloading, NoReturn
<1>3. \A h : UsesByModules(h) = {} /\ ~Outside(h)
  BY <1>1 DEF UsesByModules, Outside, NoReturn
<1>4. ModuleState /\ UsedIsLive /\ Covered
  BY <1>1, <1>3 DEF ModuleState, UsedIsLive, Covered, BeingUnloaded
<1> QED BY <1>2, <1>4 DEF UseInv

(* Every step keeps the invariant.                                         *)
LEMMA UseNext == CoreInv /\ CoreInv' /\ UseInv /\ [Next]_vars => UseInv'
<1> SUFFICES ASSUME CoreInv, CoreInv', UseInv, [Next]_vars PROVE UseInv'
  OBVIOUS
<1>1. CASE UNCHANGED vars
  <2>1. UNCHANGED << loaded, loaded_objects, fini_order, frames, ret, client >>
    BY <1>1 DEF vars
  <2>2. ControlInv'
    <3>1. CallsOK' /\ Loading' = Loading /\ Unloading' = Unloading
      BY <2>1 DEF UseInv, ControlInv, CallsOK, Loading, Unloading
    <3>2. ReturnOK' /\ OneHolder' /\ QueuedOnce'
      BY <2>1, <3>1 DEF UseInv, ControlInv, ReturnOK, OneHolder, QueuedOnce, Me
    <3> QED BY <3>1, <3>2 DEF ControlInv
  <2>3. Live' = Live /\ Handles' = Handles
    BY <2>1 DEF Live, Handles
  <2>4. \A h : Outside(h)' = Outside(h) /\ UsesByModules(h)' = UsesByModules(h)
    BY <2>1, <2>3 DEF Outside, UsesByModules, UsesBy, HeldPositions, UnloadFrames
  <2>5. ModuleState'
    <3>1. \A m : BeingUnloaded(m)' = BeingUnloaded(m) /\ Terminated(m)' = Terminated(m)
      BY <2>1 DEF BeingUnloaded, Terminated
    <3> QED BY <2>1, <2>3, <3>1 DEF UseInv, ModuleState
  <2>6. UsedIsLive' /\ Covered'
    BY <2>1, <2>3, <2>4 DEF UseInv, UsedIsLive, Covered, AllUses
  <2> QED BY <2>2, <2>5, <2>6 DEF UseInv
<1>2. ASSUME LoadStep PROVE UseInv'
  <2>1. CASE RejectFile \/ RejectCircular \/ RelocateDone
    BY <2>1, LoadReturnedUses
  <2>2. CASE FailAllocation \/ PlaceModule
    BY <2>2, PlacedUses
  <2>3. CASE NeededIsLoaded \/ LoadDependent \/ DependentNotFound \/ DependentReturned
    BY <2>3, NeededIsLoadedUses, LoadCalledUses, DependentNotFoundUses, DependentReturnedUses
  <2>4. CASE NeededDone \/ Relocate
    BY <2>4, NeededDoneUses, RelocateUses
  <2> QED BY <1>2, <2>1, <2>2, <2>3, <2>4 DEF LoadStep
<1>3. ASSUME UnloadStep PROVE UseInv'
  BY <1>3, UnloadDependentUses, DependentUnloadedUses, FreedUses DEF UnloadStep
<1>4. ASSUME TopReturned PROVE UseInv'
  BY <1>4, TopReturnedUses
<1>5. ASSUME NEW f \in File, TopLoad(f) PROVE UseInv'
  BY <1>5, LoadCalledUses
<1>6. ASSUME NEW f \in File, LoadSymbols(f), disk' = disk PROVE UseInv'
  BY <1>6, LoadSymbolsUses
<1>7. ASSUME NEW h \in client, TopUnload(h) PROVE UseInv'
  BY <1>7, TopUnloadUses
<1> QED BY <1>1, <1>2, <1>3, <1>4, <1>5, <1>6, <1>7 DEF Next, LoaderStep, ClientStep

(* The uses outside the modules are one at most.                           *)
LEMMA OneUseOutside ==
  ASSUME CoreInv, UseInv, NEW h \in Handles
  PROVE  UsesOutside(h) = IF Outside(h) THEN 1 ELSE 0
<1> DEFINE on == {i \in DOMAIN frames : frames[i].op = "load" /\ frames[i].h = h}
<1>1. h # 0
  BY CallArray
<1>2. CASE on = {}
  <2>1. Cardinality(on) = 0
    BY <1>2, FS_EmptySet
  <2>2. ~(h \in client /\ ret = [of |-> "load", val |-> h])
    BY <1>1 DEF UseInv, ControlInv, OneHolder
  <2>3. Outside(h) <=> h \in client \/ ret = [of |-> "load", val |-> h]
    BY <1>2 DEF Outside
  <2> HIDE DEF on
  <2>4. UsesOutside(h) = Cardinality(on) + (IF h \in client THEN 1 ELSE 0)
                         + (IF ret = [of |-> "load", val |-> h] THEN 1 ELSE 0)
    BY DEF UsesOutside, on
  <2> QED BY <2>1, <2>2, <2>3, <2>4
<1>3. CASE on # {}
  <2>1. PICK i : i \in on
    BY <1>3
  <2>2. on = {i}
    BY <1>1, <2>1 DEF UseInv, ControlInv, CallsOK
  <2>3. Cardinality(on) = 1
    BY <2>2, FS_Singleton
  <2>4. h \notin client /\ ret # [of |-> "load", val |-> h]
    BY <1>1, <2>1 DEF UseInv, ControlInv, OneHolder
  <2>5. Outside(h)
    BY <2>1 DEF Outside
  <2> HIDE DEF on
  <2>6. UsesOutside(h) = Cardinality(on) + (IF h \in client THEN 1 ELSE 0)
                         + (IF ret = [of |-> "load", val |-> h] THEN 1 ELSE 0)
    BY DEF UsesOutside, on
  <2> QED BY <2>3, <2>4, <2>5, <2>6
<1> QED BY <1>2, <1>3

(* The uses are those of the invariant.                                    *)
LEMMA UsesAreAllUses ==
  ASSUME CoreInv, UseInv, NEW h \in Handles
  PROVE  Uses(h) = AllUses(h) /\ AllUses(h) \in Nat
<1>1. Cardinality(UsesByModules(h)) \in Nat
  BY UsesFinite DEF FiniteUses, UseInv, ControlInv
<1> QED BY <1>1, OneUseOutside DEF Uses, AllUses

(* What the invariant says of the use counts and the terminators.          *)
LEMMA UseImplies == CoreInv /\ UseInv => UseCountCovers /\ NoUseAfterTermination
<1> SUFFICES ASSUME CoreInv, UseInv PROVE UseCountCovers /\ NoUseAfterTermination
  OBVIOUS
<1>1. UseCountCovers
  BY UsesAreAllUses, LiveHandles DEF UseCountCovers, UseInv, Covered
<1>2. ASSUME NEW m \in Live, ~Terminated(m), NEW h \in HeldDeps(m)
      PROVE  h \in Live /\ ~Terminated(h)
  <2>1. m \in Handles
    BY LiveHandles
  <2>2. PICK i \in HeldPositions(m) : h = loaded[m].deps[i] /\ h # 0
    BY <1>2 DEF HeldDeps
  <2>3. << m, i >> \in UsesByModules(h)
    BY <2>2, UsesAre
  <2>4. i \in 1 .. Len(loaded[m].deps)
    BY <2>1, HeldPlaces DEF RestHeld, UseInv, ControlInv
  <2>5. h \in Handles
    <3>1. h \in 0 .. Len(loaded)
      BY <2>1, <2>2, <2>4, ModuleRecord
    <3> QED BY <2>2, <3>1, CallArray
  <2>6. h \in Live
    BY <2>3, <2>5 DEF UseInv, UsedIsLive
  <2>7. loaded[h].use_count >= 1 /\ loaded[h].use_count \in Int
    <3>1. IsFiniteSet(UsesByModules(h)) /\ Cardinality(UsesByModules(h)) \in Nat
      BY UsesFinite DEF FiniteUses, UseInv, ControlInv
    <3>2. Cardinality(UsesByModules(h)) # 0
      BY <2>3, <3>1, FS_EmptySet
    <3>3. loaded[h].use_count >= AllUses(h) /\ loaded[h].use_count \in Int
      BY <2>5, <2>6, ModuleRecord DEF UseInv, Covered
    <3> QED BY <3>1, <3>2, <3>3 DEF AllUses
  <2> QED BY <2>6, <2>7 DEF UseInv, ModuleState
<1> QED BY <1>1, <1>2 DEF NoUseAfterTermination

(* The invariant of the use counts holds throughout.                       *)
LEMMA UseInvariant == Spec => [](CoreInv /\ UseInv)
  BY CoreInitInv, CoreNextInv, UseInit, UseNext, PTL DEF Spec

(* However loads fail half way, a use_count is never below the number of   *)
(* uses: no module is freed while someone still counts on it.              *)
THEOREM UseCountsCover == Spec => []UseCountCovers
  BY UseInvariant, UseImplies, PTL

(* However loads fail, a module that still runs never needs one that was   *)
(* terminated or freed.                                                    *)
THEOREM NeededStaysUsable == Spec => []NoUseAfterTermination
  BY UseInvariant, UseImplies, PTL

-----------------------------------------------------------------------------
(* The so_names of the loads under way.                                    *)

(* The load under way is about to fail, up to the client.                  *)
Failing == ret.of = "load" /\ ret.val = 0

(* The so_names of the calls that work on their lists are on the list of    *)
(* so_names, and no two loads are of the same one.                         *)
NamesListed ==
  \A i \in DOMAIN frames : frames[i].pc = "needed" => Contains(dependency_list, SoName(frames[i].file))

NamesDistinct ==
  \A i, j \in DOMAIN frames :
     (/\ frames[i].op = "load" /\ frames[j].op = "load" /\ frames[i].h # 0 /\ frames[j].h # 0
      /\ SoName(frames[i].file) = SoName(frames[j].file)) => i = j

(* They are the last ones on it, in the order of the calls, as long as no   *)
(* load fails; before them are s names that loads which failed have left.  *)
ListEndsAt(s) ==
  /\ Len(dependency_list) = s + (IF Me.pc = "needed" THEN Len(frames) ELSE Len(frames) - 1)
  /\ \A i \in DOMAIN frames : frames[i].pc = "needed" => dependency_list[s + i] = SoName(frames[i].file)

ListEnds == ~Failing /\ frames # << >> /\ Loading => \E s \in Nat : ListEndsAt(s)

NamesInv == NamesListed /\ NamesDistinct /\ ListEnds

(* No call is new, and no name leaves the list.                            *)
LEMMA NamesKept ==
  ASSUME CoreInv, NamesInv, disk' = disk,
         \A x : Contains(dependency_list, x) => Contains(dependency_list', x),
         \A i \in DOMAIN frames' : /\ i \in DOMAIN frames /\ frames'[i].op = frames[i].op
                                   /\ frames'[i].h = frames[i].h /\ frames'[i].file = frames[i].file
                                   /\ (frames'[i].pc = "needed" => frames[i].pc = "needed")
  PROVE  NamesListed' /\ NamesDistinct'
<1>1. NamesListed'
  BY DEF NamesInv, NamesListed, SoName
<1>2. NamesDistinct'
  BY DEF NamesInv, NamesDistinct, SoName
<1> QED BY <1>1, <1>2

(* A load that fails leaves the list as it is, or with its own name on it.  *)
LEMMA NamesFail ==
  ASSUME CoreInv, NamesInv, disk' = disk, frames # << >>, Return("load", 0),
         \/ UNCHANGED dependency_list
         \/ \E x \in Name : dependency_list' = Append(dependency_list, x)
  PROVE  NamesInv'
<1>1. DOMAIN frames = 1 .. Len(frames) /\ Len(frames) \in Nat
  BY CallArray
<1>2. Popped
  BY PopFrames DEF Return
<1>3. \A i \in DOMAIN frames' : i \in DOMAIN frames /\ frames'[i] = frames[i]
  BY <1>1, <1>2 DEF Popped
<1>4. \A x : Contains(dependency_list, x) => Contains(dependency_list', x)
  <2>1. CASE UNCHANGED dependency_list
    BY <2>1
  <2>2. ASSUME NEW x \in Name, dependency_list' = Append(dependency_list, x)
        PROVE  \A y : Contains(dependency_list, y) => Contains(dependency_list', y)
    BY <2>2, AppendContains DEF CoreInv, NamesOK
  <2> QED BY <2>1, <2>2
<1>5. Failing'
  BY DEF Failing, Return
<1> QED BY <1>3, <1>4, <1>5, NamesKept DEF NamesInv, ListEnds

(* Without a call that works on its list there is nothing to say.          *)
LEMMA NamesUnload ==
  ASSUME CoreInv, CoreInv', CallsOK', Unloading'
  PROVE  NamesInv'
<1>1. \A i \in DOMAIN frames' : frames'[i].op = "unload" /\ frames'[i].pc # "needed"
  BY DEF CallsOK, Unloading
<1>2. NamesListed' /\ NamesDistinct'
  BY <1>1 DEF NamesListed, NamesDistinct
<1>3. ~(frames' # << >> /\ Loading')
  <2>1. frames' # << >> => 1 \in DOMAIN frames'
    BY EmptySeq, LenProperties DEF CoreInv, FramesOK
  <2> QED BY <1>1, <2>1 DEF Loading
<1> QED BY <1>2, <1>3 DEF NamesInv, ListEnds

(* A load is called.                                                       *)
LEMMA LoadCalledNames ==
  ASSUME CoreInv, CoreInv', UseInv, NamesInv, disk' = disk, (\E f \in File : TopLoad(f)) \/ LoadDependent
  PROVE  NamesInv'
<1>1. PICK file \in File : frames' = Append(frames, Call("load", file, 0, "headers"))
  <2>1. ASSUME NEW f \in File, TopLoad(f) PROVE frames' = Append(frames, Call("load", f, 0, "headers"))
    BY <2>1 DEF TopLoad, Idle, Call
  <2>2. CASE LoadDependent
    BY <2>2, NeededFile DEF LoadDependent
  <2> QED BY <2>1, <2>2
<1>2. Loading /\ (frames # << >> => Me.pc = "needed") /\ ret = NoReturn /\ UNCHANGED dependency_list
  <2>1. CASE LoadDependent
    BY <2>1, RunningTop DEF LoadDependent, PendingNeeded, UseInv, ControlInv
  <2>2. ASSUME NEW f \in File, TopLoad(f)
        PROVE  Loading /\ frames = << >> /\ ret = NoReturn /\ UNCHANGED dependency_list
    BY <2>2 DEF TopLoad, Idle, Loading
  <2> QED BY <2>1, <2>2
<1> DEFINE f == Call("load", file, 0, "headers")
<1>3. f \in Frame /\ f.op = "load" /\ f.pc = "headers" /\ f.h = 0
  BY DEF Call, Frame
<1> HIDE DEF f
<1>4. PICK n : n = Len(frames)
  OBVIOUS
<1>5. /\ DOMAIN frames = 1 .. n /\ n \in Nat
      /\ Len(frames') = n + 1 /\ DOMAIN frames' = 1 .. n + 1
      /\ \A i \in 1 .. n + 1 : frames'[i] = IF i = n + 1 THEN f ELSE frames[i]
  BY <1>1, <1>3, <1>4, PushFrame, CallArray DEF Pushed, f
<1>6. \A i \in 1 .. n + 1 : i = n + 1 \/ i \in 1 .. n
  BY <1>5
<1>7. NamesListed'
  BY <1>2, <1>3, <1>5, <1>6 DEF NamesInv, NamesListed, SoName
<1>8. NamesDistinct'
  BY <1>3, <1>5, <1>6 DEF NamesInv, NamesDistinct, SoName
<1>9. ListEnds'
  <2>1. Me' = f /\ ~Failing
    <3>1. frames' # << >>
      BY <1>5, EmptySeq
    <3>2. Me' = frames'[n + 1]
      BY <1>5, <3>1, FrontEntries DEF CoreInv, FramesOK, Me
    <3>3. n + 1 \in 1 .. n + 1
      BY <1>5
    <3> QED BY <1>2, <1>5, <3>2, <3>3 DEF Failing, NoReturn
  <2>2. PICK s \in Nat : /\ Len(dependency_list) = s + n
                         /\ \A i \in 1 .. n : frames[i].pc = "needed" =>
                               dependency_list[s + i] = SoName(frames[i].file)
    <3>1. CASE frames = << >>
      <4>1. n = 0
        BY <1>4, <3>1, EmptySeq
      <4>2. Len(dependency_list) \in Nat
        BY LenProperties DEF CoreInv, NamesOK
      <4> QED BY <4>1, <4>2
    <3>2. CASE frames # << >>
      BY <1>2, <1>4, <1>5, <2>1, <3>2 DEF NamesInv, ListEnds, ListEndsAt
    <3> QED BY <3>1, <3>2
  <2>3. Len(dependency_list') = s + (n + 1 - 1)
    BY <1>2, <1>5, <2>2
  <2>4. \A i \in 1 .. n + 1 : frames'[i].pc = "needed" => dependency_list'[s + i] = SoName(frames'[i].file)
    BY <1>2, <1>3, <1>5, <1>6, <2>2 DEF SoName
  <2>5. ListEndsAt(s)'
    BY <1>3, <1>5, <2>1, <2>3, <2>4 DEF ListEndsAt, SoName
  <2> QED BY <2>5 DEF ListEnds
<1> QED BY <1>7, <1>8, <1>9 DEF NamesInv

(* The call on top goes on with its file and its module, at its list or on  *)
(* to relocation.                                                          *)
LEMMA LoadGoesOnNames ==
  ASSUME CoreInv, CoreInv', UseInv, NamesInv, disk' = disk, Running("load", "needed"), ~Failing,
         UNCHANGED dependency_list, NEW f \in Frame, frames' = Append(Front(frames), f),
         f.op = "load", f.h = Me.h, f.file = Me.file, f.pc = "needed"
  PROVE  NamesInv'
<1>1. PICK n : n = Len(frames)
  OBVIOUS
<1>2. /\ frames # << >> /\ n \in Nat \ {0} /\ n \in 1 .. n /\ DOMAIN frames = 1 .. n /\ Me = frames[n]
      /\ Me.op = "load" /\ Me.pc = "needed" /\ Loading
  BY <1>1, RunningTop, CallArray DEF UseInv, ControlInv
<1>3. /\ Len(frames') = n /\ DOMAIN frames' = 1 .. n
      /\ \A i \in 1 .. n : frames'[i] = IF i = n THEN f ELSE frames[i]
  BY <1>1, <1>2, ReplaceFrame DEF Replaced
<1>4. \A i \in 1 .. n : /\ frames'[i].op = frames[i].op /\ frames'[i].h = frames[i].h
                        /\ frames'[i].file = frames[i].file /\ frames'[i].pc = frames[i].pc
  BY <1>2, <1>3
<1>5. NamesListed' /\ NamesDistinct'
  BY <1>2, <1>3, <1>4, NamesKept
<1>6. ListEnds'
  <2>1. PICK s \in Nat : ListEndsAt(s)
    BY <1>2 DEF NamesInv, ListEnds
  <2>2. Me' = f
    <3>1. frames' # << >>
      BY <1>2, <1>3, EmptySeq
    <3> QED BY <1>2, <1>3, <3>1, FrontEntries DEF CoreInv, FramesOK, Me
  <2>3. Len(dependency_list') = s + n
    BY <1>1, <1>2, <2>1 DEF ListEndsAt
  <2>4. \A i \in 1 .. n : frames'[i].pc = "needed" => dependency_list'[s + i] = SoName(frames'[i].file)
    BY <1>2, <1>4, <2>1 DEF ListEndsAt, SoName
  <2>5. ListEndsAt(s)'
    BY <1>3, <2>2, <2>3, <2>4 DEF ListEndsAt, SoName
  <2> QED BY <2>5 DEF ListEnds
<1> QED BY <1>5, <1>6 DEF NamesInv

(* A list left is the list without its last name.                          *)
LEMMA ListLeft ==
  ASSUME CoreInv, NEW s \in Nat, NEW n \in Nat \ {0}, Len(dependency_list) = s + n,
         dependency_list' = Front(dependency_list)
  PROVE  /\ Len(dependency_list') = s + (n - 1) /\ dependency_list' \in Seq(Name)
         /\ \A i \in 1 .. n - 1 : dependency_list'[s + i] = dependency_list[s + i]
<1>1. s + n # 0 /\ s + n - 1 = s + (n - 1) /\ \A i \in 1 .. n - 1 : s + i \in 1 .. s + n - 1
  OBVIOUS
<1>2. dependency_list \in Seq(Name) /\ dependency_list # << >>
  BY <1>1, EmptySeq DEF CoreInv, NamesOK
<1>3. /\ Front(dependency_list) \in Seq(Name) /\ Len(Front(dependency_list)) = Len(dependency_list) - 1
      /\ \A j \in 1 .. Len(dependency_list) - 1 : Front(dependency_list)[j] = dependency_list[j]
  BY <1>2, FrontEntries
<1> QED BY <1>1, <1>3

(* The call on top returns a module: with its list done, or relocated.     *)
LEMMA LoadReturnedNames ==
  ASSUME CoreInv, CoreInv', UseInv, NamesInv, disk' = disk, NEW pc, Running("load", pc), ~Failing, Popped,
         \/ pc = "needed" /\ dependency_list' = Front(dependency_list)
         \/ pc # "needed" /\ UNCHANGED dependency_list
  PROVE  NamesInv'
<1>1. PICK n : n = Len(frames)
  OBVIOUS
<1>2. /\ frames # << >> /\ n \in Nat \ {0} /\ DOMAIN frames = 1 .. n /\ Me.pc = pc /\ Loading
  BY <1>1, RunningTop, CallArray DEF UseInv, ControlInv
<1>3. /\ Len(frames') = n - 1 /\ DOMAIN frames' = 1 .. n - 1
      /\ \A i \in 1 .. n - 1 : frames'[i] = frames[i]
  BY <1>1 DEF Popped
<1>4. CallsOK' /\ (frames' # << >> => Me'.pc \in {"needed", "depend"})
  BY CallsPopped DEF UseInv, ControlInv
<1>5. PICK s \in Nat : ListEndsAt(s)
  BY <1>2 DEF NamesInv, ListEnds
<1>6. /\ Len(dependency_list') = s + (n - 1) /\ dependency_list' \in Seq(Name)
      /\ \A i \in 1 .. n - 1 : dependency_list'[s + i] = dependency_list[s + i]
  <2>1. CASE pc # "needed"
    BY <1>1, <1>2, <1>5, <2>1 DEF ListEndsAt, CoreInv, NamesOK
  <2>2. CASE pc = "needed"
    <3>1. Len(dependency_list) = s + n
      BY <1>1, <1>2, <1>5, <2>2 DEF ListEndsAt
    <3> QED BY <1>2, <2>2, <3>1, ListLeft
  <2> QED BY <2>1, <2>2
<1>7. \A i \in 1 .. n - 1 : frames'[i].pc = "needed" => dependency_list'[s + i] = SoName(frames'[i].file)
  <2>1. \A i \in 1 .. n - 1 : i \in 1 .. n
    BY <1>2
  <2> QED BY <1>2, <1>3, <1>5, <1>6, <2>1 DEF ListEndsAt, SoName
<1>8. NamesListed'
  <2>1. \A i \in 1 .. n - 1 : s + i \in DOMAIN dependency_list'
    <3>1. DOMAIN dependency_list' = 1 .. s + (n - 1)
      BY <1>6, LenProperties
    <3> QED BY <1>2, <3>1
  <2>2. ASSUME NEW i \in DOMAIN frames', frames'[i].pc = "needed"
        PROVE  Contains(dependency_list', SoName(frames'[i].file))
    BY <1>3, <1>7, <2>1, <2>2 DEF Contains
  <2> QED BY <2>2 DEF NamesListed, SoName
<1>9. NamesDistinct'
  <2>1. \A i \in 1 .. n - 1 : i \in 1 .. n
    BY <1>2
  <2> QED BY <1>2, <1>3, <2>1 DEF NamesInv, NamesDistinct, SoName
<1>10. ListEnds'
  <2>1. ASSUME frames' # << >>, Loading' PROVE ListEndsAt(s)'
    <3>1. Len(frames') \in DOMAIN frames' /\ Me' = frames'[Len(frames')]
      <4>1. frames' \in Seq(Frame)
        BY DEF CoreInv, FramesOK
      <4>2. Len(frames') \in Nat \ {0} /\ Last(frames') = frames'[Len(frames')]
        BY <2>1, <4>1, FrontEntries
      <4>3. DOMAIN frames' = 1 .. Len(frames')
        BY <4>1, LenProperties
      <4> QED BY <4>2, <4>3 DEF Me
    <3>2. Me'.pc = "needed"
      BY <1>4, <2>1, <3>1 DEF CallsOK, Loading
    <3>3. Len(dependency_list') = s + Len(frames')
      BY <1>3, <1>6
    <3> QED BY <1>3, <1>7, <3>2, <3>3 DEF ListEndsAt, SoName
  <2> QED BY <2>1 DEF ListEnds
<1> QED BY <1>8, <1>9, <1>10 DEF NamesInv

(* The call on top has its list done and goes on to relocation.            *)
LEMMA RelocatingNames ==
  ASSUME CoreInv, CoreInv', UseInv, NamesInv, disk' = disk, Running("load", "needed"), ~Failing,
         frames' = Append(Front(frames), [Me EXCEPT !.pc = "relocate"]),
         dependency_list' = Front(dependency_list)
  PROVE  NamesInv'
<1>1. PICK n : n = Len(frames)
  OBVIOUS
<1>2. /\ frames # << >> /\ n \in Nat \ {0} /\ DOMAIN frames = 1 .. n /\ Me.pc = "needed" /\ Loading
      /\ Me \in Frame /\ Me.op = "load" /\ Me = frames[n] /\ n \in 1 .. n
  BY <1>1, RunningTop, CallArray DEF UseInv, ControlInv
<1>3. PICK f : f = [Me EXCEPT !.pc = "relocate"]
  OBVIOUS
<1>4. f \in Frame /\ f.op = "load" /\ f.pc = "relocate" /\ f.h = Me.h /\ f.file = Me.file
  BY <1>2, <1>3 DEF Frame
<1>5. /\ Len(frames') = n /\ DOMAIN frames' = 1 .. n
      /\ \A i \in 1 .. n : frames'[i] = IF i = n THEN f ELSE frames[i]
  BY <1>1, <1>2, <1>3, <1>4, ReplaceFrame DEF Replaced
<1>6. PICK s \in Nat : ListEndsAt(s)
  BY <1>2 DEF NamesInv, ListEnds
<1>7. Len(dependency_list) = s + n
  BY <1>1, <1>2, <1>6 DEF ListEndsAt
<1>8. /\ Len(dependency_list') = s + (n - 1) /\ dependency_list' \in Seq(Name)
      /\ \A i \in 1 .. n - 1 : dependency_list'[s + i] = dependency_list[s + i]
  BY <1>2, <1>7, ListLeft
<1>9. \A i \in 1 .. n : i = n \/ i \in 1 .. n - 1
  BY <1>2
<1>10. ASSUME NEW i \in 1 .. n, frames'[i].pc = "needed"
       PROVE  i \in 1 .. n - 1 /\ dependency_list'[s + i] = SoName(frames'[i].file)
  <2>1. i \in 1 .. n - 1 /\ frames'[i] = frames[i]
    BY <1>4, <1>5, <1>9, <1>10
  <2> QED BY <1>2, <1>6, <1>8, <1>10, <2>1 DEF ListEndsAt
<1>11. NamesListed'
  <2>1. ASSUME NEW i \in 1 .. n, frames'[i].pc = "needed"
        PROVE  Contains(dependency_list', SoName(frames'[i].file))
    <3>1. i \in 1 .. n - 1 /\ dependency_list'[s + i] = SoName(frames'[i].file)
      BY <1>10, <2>1
    <3>2. s + i \in 1 .. s + (n - 1)
      BY <1>2, <3>1
    <3> QED BY <1>8, <3>1, <3>2 DEF Contains
  <2> QED BY <1>5, <2>1 DEF NamesListed, SoName
<1>12. NamesDistinct'
  BY <1>2, <1>4, <1>5 DEF NamesInv, NamesDistinct, SoName
<1>13. ListEnds'
  <2>1. Me' = f
    <3>1. frames' # << >>
      BY <1>2, <1>5, EmptySeq
    <3> QED BY <1>2, <1>5, <3>1, FrontEntries DEF CoreInv, FramesOK, Me
  <2>2. ListEndsAt(s)'
    BY <1>4, <1>5, <1>8, <1>10, <2>1 DEF ListEndsAt, SoName
  <2> QED BY <2>2 DEF ListEnds
<1> QED BY <1>11, <1>12, <1>13 DEF NamesInv

(* A module is placed: its so_name is new on the list.                     *)
LEMMA PlaceModuleNames ==
  ASSUME CoreInv, CoreInv', UseInv, NamesInv, disk' = disk, PlaceModule
  PROVE  NamesInv'
<1>1. PICK n : n = Len(frames)
  OBVIOUS
<1>2. PICK name : name = SoName(Me.file)
  OBVIOUS
<1>3. /\ Running("load", "headers") /\ ~Contains(dependency_list, name)
      /\ dependency_list' = Append(dependency_list, name)
      /\ \/ frames' = Append(Front(frames), Call("load", Me.file, NewHandle, "needed")) /\ UNCHANGED ret
         \/ Return("load", 0)
  BY <1>2 DEF PlaceModule, InProcessOfLoading
<1>4. /\ frames # << >> /\ n \in Nat \ {0} /\ n \in 1 .. n /\ DOMAIN frames = 1 .. n /\ Me = frames[n]
      /\ Me \in Frame /\ Me.op = "load" /\ Me.pc = "headers" /\ Loading
  BY <1>1, <1>3, RunningTop, CallArray DEF UseInv, ControlInv
<1>5. Me.file \in File /\ name \in Name
  BY <1>2, <1>4, DiskEntries DEF Frame, CoreInv
<1>6. CASE Return("load", 0)
  BY <1>3, <1>4, <1>5, <1>6, NamesFail
<1>7. CASE frames' = Append(Front(frames), Call("load", Me.file, NewHandle, "needed")) /\ UNCHANGED ret
  <2>1. PICK f : f = Call("load", Me.file, NewHandle, "needed")
    OBVIOUS
  <2>2. f \in Frame /\ f.op = "load" /\ f.pc = "needed" /\ f.file = Me.file
    <3>1. NewHandle \in Nat
      BY CallArray DEF NewHandle
    <3> QED BY <1>5, <2>1, <3>1 DEF Call, Frame
  <2>3. /\ Len(frames') = n /\ DOMAIN frames' = 1 .. n
        /\ \A i \in 1 .. n : frames'[i] = IF i = n THEN f ELSE frames[i]
    BY <1>1, <1>4, <1>7, <2>1, <2>2, ReplaceFrame DEF Replaced
  <2>4. PICK s \in Nat : ListEndsAt(s)
    BY <1>1, <1>3, <1>4 DEF NamesInv, ListEnds, Failing, UseInv, ControlInv, ReturnOK, NoReturn
  <2>5. /\ dependency_list \in Seq(Name) /\ Len(dependency_list) = s + (n - 1)
        /\ \A i \in 1 .. n : frames[i].pc = "needed" => dependency_list[s + i] = SoName(frames[i].file)
    BY <1>1, <1>4, <2>4 DEF ListEndsAt, CoreInv, NamesOK
  <2>6. /\ Len(dependency_list') = s + n
        /\ \A j \in 1 .. s + (n - 1) : dependency_list'[j] = dependency_list[j]
        /\ dependency_list'[s + n] = name
    <3>1. s + (n - 1) + 1 = s + n
      BY <1>4
    <3> QED BY <1>3, <1>5, <2>5, <3>1, AppendProperties
  <2>7. \A x : Contains(dependency_list', x) <=> Contains(dependency_list, x) \/ x = name
    BY <1>3, <1>5, <2>5, AppendContains
  <2>8. \A i \in 1 .. n : i = n \/ (i \in 1 .. n - 1 /\ s + i \in 1 .. s + (n - 1))
    BY <1>4
  <2>9. \A i \in 1 .. n : SoName(frames'[i].file) = IF i = n THEN name ELSE SoName(frames[i].file)
    BY <1>2, <2>2, <2>3 DEF SoName
  <2>10. NamesListed'
    <3>1. ASSUME NEW i \in 1 .. n, frames'[i].pc = "needed"
          PROVE  Contains(dependency_list', SoName(frames'[i].file))
      <4>1. CASE i = n
        BY <2>7, <2>9, <4>1
      <4>2. CASE i # n
        <5>1. frames'[i] = frames[i]
          BY <2>3, <4>2
        <5> QED BY <1>4, <2>7, <3>1, <5>1 DEF NamesInv, NamesListed
      <4> QED BY <4>1, <4>2
    <3> QED BY <2>3, <3>1 DEF NamesListed, SoName
  <2>11. NamesDistinct'
    <3>1. \A i \in 1 .. n : i # n => frames[i].pc = "needed"
      <4>1. \A i \in 1 .. n : i # n => i < n
        BY <1>4
      <4> QED BY <1>1, <1>4, <4>1 DEF UseInv, ControlInv, CallsOK, Loading
    <3>2. \A i \in 1 .. n : i # n => SoName(frames[i].file) # name
      BY <1>3, <1>4, <3>1 DEF NamesInv, NamesListed
    <3>3. \A i \in 1 .. n : i # n => frames'[i].h = frames[i].h /\ frames'[i].op = frames[i].op
      BY <2>3
    <3>4. ASSUME NEW i \in 1 .. n, NEW j \in 1 .. n, frames'[i].op = "load", frames'[j].op = "load",
                 frames'[i].h # 0, frames'[j].h # 0, SoName(frames'[i].file) = SoName(frames'[j].file)
          PROVE  i = j
      BY <1>4, <2>9, <3>2, <3>3, <3>4 DEF NamesInv, NamesDistinct
    <3> QED BY <2>3, <3>4 DEF NamesDistinct, SoName
  <2>12. ListEnds'
    <3>1. Me' = f
      <4>1. frames' # << >>
        BY <1>4, <2>3, EmptySeq
      <4> QED BY <1>4, <2>3, <4>1, FrontEntries DEF CoreInv, FramesOK, Me
    <3>2. \A i \in 1 .. n : frames'[i].pc = "needed" => dependency_list'[s + i] = SoName(frames'[i].file)
      BY <2>3, <2>5, <2>6, <2>8, <2>9
    <3>3. ListEndsAt(s)'
      BY <2>2, <2>3, <2>6, <3>1, <3>2 DEF ListEndsAt, SoName
    <3> QED BY <3>3 DEF ListEnds
  <2> QED BY <2>10, <2>11, <2>12 DEF NamesInv
<1> QED BY <1>3, <1>6, <1>7

(* A step that is none of the loader leaves all of it.                     *)
LEMMA UnmovedNames ==
  ASSUME CoreInv, NamesInv, UNCHANGED << disk, frames, ret, dependency_list >>
  PROVE  NamesInv'
<1>1. Failing' = Failing /\ Loading' = Loading
  BY DEF Failing, Loading
<1>2. NamesListed' /\ NamesDistinct'
  BY DEF NamesInv, NamesListed, NamesDistinct, SoName
<1>3. \A s : ListEndsAt(s)' = ListEndsAt(s)
  BY DEF ListEndsAt, Me, SoName
<1>4. ListEnds'
  BY <1>1, <1>3 DEF NamesInv, ListEnds
<1> QED BY <1>2, <1>4 DEF NamesInv

(* Without a call nothing is being loaded.                                 *)
LEMMA IdleNames ==
  ASSUME frames' = << >>
  PROVE  NamesInv'
<1>1. DOMAIN frames' = {}
  OBVIOUS
<1> QED BY <1>1 DEF NamesInv, NamesListed, NamesDistinct, ListEnds

(* One step of a load.                                                     *)
LEMMA LoadNames ==
  ASSUME CoreInv, CoreInv', UseInv, NamesInv, disk' = disk, LoadStep
  PROVE  NamesInv'
<1>1. CASE RejectFile \/ RejectCircular \/ FailAllocation \/ DependentNotFound
  <2>1. frames # << >> /\ Return("load", 0) /\ UNCHANGED dependency_list
    BY <1>1 DEF RejectFile, RejectCircular, FailAllocation, DependentNotFound, PendingNeeded, Running
  <2> QED BY <2>1, NamesFail
<1>2. CASE PlaceModule
  BY <1>2, PlaceModuleNames
<1>3. CASE LoadDependent
  BY <1>3, LoadCalledNames
<1>4. CASE NeededIsLoaded \/ DependentReturned
  <2>1. Running("load", "needed") /\ UNCHANGED dependency_list
    BY <1>4 DEF NeededIsLoaded, PendingNeeded, DependentReturned
  <2>2. CASE Return("load", 0)
    BY <2>1, <2>2, NamesFail DEF Running
  <2>3. CASE frames' = NextNeeded /\ ~Failing
    <3>1. PICK f \in Frame : /\ frames' = Append(Front(frames), f)
                             /\ f.op = "load" /\ f.pc = "needed" /\ f.h = Me.h /\ f.file = Me.file
      BY <2>1, <2>3, NextCall DEF NextNeeded, UseInv, ControlInv
    <3> QED BY <2>1, <2>3, <3>1, LoadGoesOnNames
  <2> QED BY <1>4, <2>2, <2>3 DEF NeededIsLoaded, PendingNeeded, DependentReturned, NoReturn, Failing
<1>5. CASE NeededDone
  <2>1. Running("load", "needed") /\ ~Failing /\ dependency_list' = Front(dependency_list)
    BY <1>5 DEF NeededDone, Failing, NoReturn, LeaveList
  <2>2. CASE Return("load", Me.h)
    <3>1. Popped
      BY <2>1, <2>2, PopFrames DEF Return, Running
    <3> QED BY <2>1, <3>1, LoadReturnedNames
  <2>3. CASE frames' = Append(Front(frames), [Me EXCEPT !.pc = "relocate"]) /\ UNCHANGED ret
    BY <2>1, <2>3, RelocatingNames
  <2> QED BY <1>5, <2>2, <2>3 DEF NeededDone
<1>6. CASE Relocate
  BY <1>6, UnmovedNames DEF Relocate
<1>7. CASE RelocateDone
  <2>1. Running("load", "relocate") /\ Return("load", Me.h) /\ UNCHANGED dependency_list
    BY <1>7 DEF RelocateDone
  <2>2. ~Failing
    BY <2>1, RunningTop DEF UseInv, ControlInv, ReturnOK, Failing, NoReturn
  <2>3. Popped
    BY <2>1, PopFrames DEF Return, Running
  <2> QED BY <2>1, <2>2, <2>3, LoadReturnedNames
<1> QED BY <1>1, <1>2, <1>3, <1>4, <1>5, <1>6, <1>7 DEF LoadStep

(* A step of an unload leaves only calls that unload.                      *)
LEMMA StaysUnloading ==
  ASSUME CoreInv, CoreInv', UseInv, UnloadStep, Unloading
  PROVE  Unloading'
<1>1. CASE UnloadDependent
  BY <1>1, NothingGivenUp, DependentGivenUp
<1>2. CASE DependentUnloaded \/ AbortOnDoubleFree
  BY <1>2 DEF DependentUnloaded, AbortOnDoubleFree, Unloading
<1>3. CASE UnloadDone
  <2>1. Popped /\ Len(frames) \in Nat /\ DOMAIN frames = 1 .. Len(frames)
    BY <1>3, PopFrames, CallArray DEF UnloadDone, Return, Running
  <2> QED BY <2>1 DEF Unloading, Popped
<1> QED BY <1>1, <1>2, <1>3 DEF UnloadStep

(* Every step keeps the names.                                             *)
LEMMA NamesNext == CoreInv /\ CoreInv' /\ UseInv /\ UseInv' /\ NamesInv /\ [Next]_vars => NamesInv'
<1> SUFFICES ASSUME CoreInv, CoreInv', UseInv, UseInv', NamesInv, [Next]_vars PROVE NamesInv'
  OBVIOUS
<1>1. CASE UNCHANGED vars
  BY <1>1, UnmovedNames DEF vars
<1>2. ASSUME LoadStep, disk' = disk PROVE NamesInv'
  BY <1>2, LoadNames
<1>3. ASSUME UnloadStep, disk' = disk PROVE NamesInv'
  <2>1. Running("unload", "depend") /\ Unloading /\ UNCHANGED dependency_list
    BY <1>3, RunningTop DEF UnloadStep, UnloadDependent, DependentUnloaded, UnloadDone, AbortOnDoubleFree,
         UseInv, ControlInv
  <2>2. Unloading'
    BY <1>3, <2>1, StaysUnloading
  <2> QED BY <2>2, NamesUnload DEF UseInv, ControlInv
<1>4. ASSUME TopReturned PROVE NamesInv'
  BY <1>4, IdleNames DEF TopReturned, Idle
<1>5. ASSUME NEW f \in File, TopLoad(f), disk' = disk PROVE NamesInv'
  BY <1>5, LoadCalledNames
<1>6. ASSUME NEW f \in File, LoadSymbols(f) PROVE NamesInv'
  BY <1>6, IdleNames DEF LoadSymbols, Idle
<1>7. ASSUME NEW h \in client, TopUnload(h) PROVE NamesInv'
  BY <1>7, HandleGivenUp, NamesUnload DEF UseInv, ControlInv
<1> QED BY <1>1, <1>2, <1>3, <1>4, <1>5, <1>6, <1>7 DEF Next, LoaderStep, ClientStep

(* What the invariant says of the depth of the recursion.                  *)
LEMMA NamesImply == CoreInv /\ UseInv /\ NamesInv => RecursionBounded
<1> SUFFICES ASSUME CoreInv, UseInv, NamesInv PROVE RecursionBounded
  OBVIOUS
<1> DEFINE placed == {i \in DOMAIN frames : frames[i].h # 0}
<1>1. DOMAIN frames = 1 .. Len(frames) /\ Len(frames) \in Nat
  BY CallArray
<1>2. DOMAIN frames \ placed \subseteq {Len(frames)}
  <2>1. ASSUME NEW i \in 1 .. Len(frames), frames[i].h = 0 PROVE i = Len(frames)
    <3>1. frames[i].pc = "headers"
      BY <2>1, CallArray
    <3>2. ~(i < Len(frames))
      BY <1>1, <3>1 DEF UseInv, ControlInv, CallsOK
    <3>3. PICK n \in Nat : n = Len(frames)
      BY <1>1
    <3>4. i \in 1 .. n /\ ~(i < n)
      BY <3>2, <3>3
    <3> QED BY <3>3, <3>4
  <2> QED BY <1>1, <2>1
<1>3. Cardinality(DOMAIN frames \ placed) <= 1
  <2> HIDE DEF placed
  <2>1. DOMAIN frames \ placed = {} \/ DOMAIN frames \ placed = {Len(frames)}
    BY <1>2
  <2>2. CASE DOMAIN frames \ placed = {}
    BY <2>2, FS_EmptySet
  <2>3. CASE DOMAIN frames \ placed = {Len(frames)}
    <3>1. Cardinality(DOMAIN frames \ placed) = 1
      BY <2>3, FS_Singleton
    <3> QED BY <3>1
  <2> QED BY <2>1, <2>2, <2>3
<1>4. ASSUME NEW i \in placed, NEW j \in placed, i # j
      PROVE  IF frames[i].op = "load" THEN SoName(frames[i].file) # SoName(frames[j].file)
             ELSE frames[i].h # frames[j].h
  <2>1. frames[i].h # frames[j].h
    BY <1>4 DEF UseInv, ControlInv, CallsOK
  <2>2. frames[i].op = "load" => frames[j].op = "load"
    BY <1>4 DEF UseInv, ControlInv, CallsOK, Loading, Unloading
  <2> QED BY <1>4, <2>1, <2>2 DEF NamesInv, NamesDistinct
<1> QED BY <1>3, <1>4 DEF RecursionBounded

(* At the start there are no names.                                        *)
LEMMA NamesStart == Init => NamesInv
<1> SUFFICES ASSUME Init PROVE NamesInv
  OBVIOUS
<1>1. frames = << >> /\ DOMAIN frames = {}
  BY DEF Init
<1> QED BY <1>1 DEF NamesInv, NamesListed, NamesDistinct, ListEnds

(* The recursion of the loader through its client is bounded: no so_name   *)
(* is being loaded twice at a time, and no module unloaded by two calls,   *)
(* whatever the files are, whatever names they carry and whatever fails.   *)
THEOREM RecursionIsBounded == Spec => []RecursionBounded
<1>1. NamesInv /\ (CoreInv /\ CoreInv') /\ (UseInv /\ UseInv') /\ [Next]_vars => NamesInv'
  BY NamesNext
<1>2. Spec => [](CoreInv /\ UseInv /\ NamesInv)
  BY <1>1, UseInvariant, NamesStart, PTL DEF Spec
<1> QED BY <1>2, NamesImply, PTL

-----------------------------------------------------------------------------
(* Nothing fails, and the files are named as the others name them.          *)
Unfailing == Faults = {} /\ \A d \in Disks : \A f \in File : d[f].so_name = f

(* The module at the bottom of the load under way; without one, the next.   *)
Bottom ==
  IF frames # << >> /\ frames[1].op = "load" /\ frames[1].h # 0 THEN frames[1].h ELSE NewHandle

(* A load works on the file it was called for, which its caller needs and   *)
(* which is not in memory before the load has placed it.  Only the call at  *)
(* the bottom relocates.                                                   *)
CallsNest ==
  \A i \in DOMAIN frames : frames[i].op = "load" =>
     /\ frames[i].h # 0 => loaded[frames[i].h].file = frames[i].file
     /\ i > 1 => frames[i].file \in ToSet(Needed(frames[i - 1].file))
     /\ i > 1 /\ frames[i].h = 0 => \A m \in Live : loaded[m].file # frames[i].file
     /\ frames[i].pc = "relocate" => i = 1

(* Every load has an answer, and the answer is what its caller needs.       *)
AnswerIsNeeded ==
  ret.of = "load" =>
    /\ ret.val # 0
    /\ frames # << >> => loaded[ret.val].file \in ToSet(Needed(Me.file))

(* The list of so_names is that of the files whose lists are worked on.    *)
ListIsCalls ==
  /\ DOMAIN dependency_list = {i \in DOMAIN frames : frames[i].pc = "needed"}
  /\ \A i \in DOMAIN dependency_list : dependency_list[i] = SoName(frames[i].file)

(* What is on a module's list are modules of files it needs.               *)
DependsOnNeeded ==
  \A m \in Handles : \A i \in 1 .. Len(loaded[m].deps) :
     /\ loaded[m].deps[i] # 0
     /\ loaded[loaded[m].deps[i]].file \in ToSet(Needed(loaded[m].file))

(* The stack has the modules under load that still wait: what is not on it  *)
(* has run its initialisers.                                               *)
StackOrder ==
  /\ Bottom = NewHandle => dependency_stack = << >>
  /\ \A i \in DOMAIN dependency_stack : dependency_stack[i] >= Bottom
  /\ frames # << >> /\ frames[1].pc = "needed" =>
       dependency_stack # << >> /\ dependency_stack[1] = frames[1].h
  /\ \A m \in Live : Initialized(m) \/ Contains(dependency_stack, m)

(* What was loaded before does not depend on the graph under load.         *)
GraphApart ==
  /\ \A i \in DOMAIN frames : frames[i].op = "load" /\ frames[i].h # 0 => frames[i].h >= Bottom
  /\ \A m \in client : m < Bottom
  /\ \A m \in Handles : m < Bottom => \A i \in 1 .. Len(loaded[m].deps) : loaded[m].deps[i] < Bottom

(* No file of the graph under load is in it twice.                         *)
GraphSmall ==
  /\ frames # << >> /\ frames[1].op = "load" => Bottom <= HandleBound
  /\ \A m, n \in Handles : (m >= Bottom /\ n >= Bottom /\ loaded[m].file = loaded[n].file) => m = n
  /\ \A m \in Handles : m >= Bottom => m \in Live

GraphInv ==
  CallsNest /\ AnswerIsNeeded /\ ListIsCalls /\ DependsOnNeeded /\ StackOrder /\ GraphApart /\ GraphSmall

(* The use counts are the uses.                                            *)
Exact == \A h \in Live : loaded[h].use_count = AllUses(h)

-----------------------------------------------------------------------------
(* The steps of an unload, and those of the client between calls, leave the *)
(* graph as it is.                                                         *)

(* No module is under load.                                                *)
GraphIsNext == Bottom = NewHandle /\ \A i \in DOMAIN frames : frames[i].op # "load"

(* Without a load under way the graph is what comes next.                  *)
LEMMA NoGraph == CoreInv /\ Unloading => GraphIsNext
<1> SUFFICES ASSUME CoreInv, Unloading PROVE GraphIsNext
  OBVIOUS
<1>1. \A i \in DOMAIN frames : frames[i].op # "load"
  BY DEF Unloading
<1>2. frames # << >> => 1 \in DOMAIN frames
  BY CallArray, TopOfCalls
<1> QED BY <1>1, <1>2 DEF Bottom, GraphIsNext

(* What every file on the disk needs and is named stays the same.          *)
LEMMA DiskKept ==
  ASSUME disk' = disk, NEW f
  PROVE  Needed(f)' = Needed(f) /\ SoName(f)' = SoName(f)
  BY DEF Needed, SoName

(* The lists of the modules and their files stay; new modules need nothing. *)
FilesKept ==
  /\ Handles \subseteq Handles'
  /\ \A m \in Handles : loaded'[m].deps = loaded[m].deps /\ loaded'[m].file = loaded[m].file
  /\ \A m \in Handles' \ Handles : Len(loaded'[m].deps) = 0

(* Then every list still has what the file needs.                          *)
LEMMA DependsKept ==
  ASSUME CoreInv, DependsOnNeeded, disk' = disk, FilesKept
  PROVE  DependsOnNeeded'
<1>1. ASSUME NEW m \in Handles, NEW i \in 1 .. Len(loaded[m].deps)
      PROVE  /\ loaded[m].deps[i] # 0
             /\ loaded'[loaded[m].deps[i]].file \in ToSet(Needed(loaded[m].file)')
  <2>1. loaded[m].deps[i] # 0 /\ loaded[loaded[m].deps[i]].file \in ToSet(Needed(loaded[m].file))
    BY DEF DependsOnNeeded
  <2>2. loaded[m].deps[i] \in 0 .. Len(loaded) /\ Handles = 1 .. Len(loaded) /\ Len(loaded) \in Nat
    BY ModuleRecord, CallArray
  <2>3. loaded[m].deps[i] \in Handles
    BY <2>1, <2>2
  <2>4. Needed(loaded[m].file)' = Needed(loaded[m].file)
    BY DEF Needed, FilesKept
  <2> QED BY <2>1, <2>3 DEF Needed, FilesKept
<1>2. ASSUME NEW m \in Handles' \ Handles PROVE 1 .. Len(loaded'[m].deps) = {}
  BY <1>2 DEF FilesKept
<1> QED BY <1>1, <1>2 DEF DependsOnNeeded, FilesKept, Needed

(* The call at the bottom is a call.                                       *)
LEMMA FirstCall ==
  ASSUME CoreInv'
  PROVE  frames' # << >> => 1 \in DOMAIN frames'
  BY EmptySeq, LenProperties DEF CoreInv, FramesOK

(* No list, file or order of initialisers changes.                         *)
LEMMA GraphKept ==
  ASSUME CoreInv, CoreInv', GraphInv, CallsOK, CallsOK', Unloading, Unloading', ret'.of # "load",
         Len(loaded') = Len(loaded),
         \A m \in Handles : /\ loaded'[m].deps = loaded[m].deps /\ loaded'[m].file = loaded[m].file
                            /\ loaded'[m].base = loaded[m].base,
         UNCHANGED << disk, dependency_list, dependency_stack, init_order >>,
         Live' \subseteq Live
  PROVE  GraphInv'
<1>1. GraphIsNext /\ GraphIsNext'
  <2>1. CoreInv' /\ Unloading' => GraphIsNext'
    BY NoGraph, PTL
  <2> QED BY <2>1, NoGraph
<1>2. /\ Handles' = Handles /\ Handles = 1 .. Len(loaded) /\ Len(loaded) \in Nat
      /\ NewHandle = Len(loaded) + 1 /\ Bottom' = Bottom /\ Bottom = NewHandle
  BY <1>1, CallArray DEF Handles, NewHandle, GraphIsNext
<1>3. CallsNest' /\ AnswerIsNeeded'
  BY <1>1 DEF CallsNest, AnswerIsNeeded, GraphIsNext
<1>4. /\ \A i \in DOMAIN frames : frames[i].pc # "needed"
      /\ \A i \in DOMAIN frames' : frames'[i].pc # "needed"
  BY DEF CallsOK, Unloading
<1>5. ListIsCalls'
  <2>1. DOMAIN dependency_list = {}
    BY <1>4 DEF GraphInv, ListIsCalls
  <2> QED BY <1>4, <2>1 DEF ListIsCalls
<1>6. DependsOnNeeded'
  BY <1>2, DependsKept DEF GraphInv, FilesKept
<1>7. StackOrder'
  <2>1. dependency_stack' = << >> /\ DOMAIN dependency_stack' = {}
    BY <1>2 DEF GraphInv, StackOrder
  <2>2. ASSUME NEW m \in Live' PROVE Initialized(m)' \/ Contains(dependency_stack, m)'
    <3>1. m \in Live /\ m \in Handles
      BY LiveHandles
    <3> QED BY <3>1 DEF GraphInv, StackOrder, Initialized
  <2>3. frames' # << >> => frames'[1].pc # "needed"
    <3>1. frames' # << >> => 1 \in DOMAIN frames'
      BY FirstCall
    <3> QED BY <1>4, <3>1
  <2> QED BY <2>1, <2>2, <2>3 DEF StackOrder
<1>8. GraphApart'
  <2>1. client' \subseteq Handles
    BY <1>2 DEF CoreInv, OrdersOK
  <2>2. ASSUME NEW m \in Handles, NEW i \in 1 .. Len(loaded[m].deps) PROVE loaded[m].deps[i] < Bottom
    BY <1>2, ModuleRecord
  <2>3. \A m \in Handles : m < Bottom
    BY <1>2
  <2> QED BY <1>1, <1>2, <2>1, <2>2, <2>3 DEF GraphIsNext, GraphApart
<1>9. GraphSmall'
  <2>1. \A m \in Handles : ~(m >= Bottom)
    BY <1>2
  <2>2. frames' # << >> => frames'[1].op # "load"
    BY <1>1, FirstCall DEF GraphIsNext
  <2> QED BY <1>2, <2>1, <2>2 DEF GraphSmall
<1> QED BY <1>3, <1>5, <1>6, <1>7, <1>8, <1>9 DEF GraphInv

(* Every module and what it needs was given a handle.                      *)
HandlesBounded ==
  \A m \in Handles : /\ m < NewHandle /\ ~(m >= NewHandle)
                     /\ \A i \in 1 .. Len(loaded[m].deps) : loaded[m].deps[i] < NewHandle

(* None is the next handle.                                                *)
LEMMA BoundedHandles == CoreInv => HandlesBounded
<1> SUFFICES ASSUME CoreInv, NEW m \in Handles
             PROVE  /\ m < NewHandle /\ ~(m >= NewHandle)
                    /\ \A i \in 1 .. Len(loaded[m].deps) : loaded[m].deps[i] < NewHandle
  BY DEF HandlesBounded
<1>1. Len(loaded) \in Nat /\ Handles = 1 .. Len(loaded) /\ NewHandle = Len(loaded) + 1
  BY CallArray DEF NewHandle
<1>2. \A i \in 1 .. Len(loaded[m].deps) : loaded[m].deps[i] \in 0 .. Len(loaded)
  BY ModuleRecord
<1>3. \A x \in 0 .. Len(loaded) : x < NewHandle /\ ~(x >= NewHandle)
  BY <1>1
<1> QED BY <1>1, <1>2, <1>3

-----------------------------------------------------------------------------
(* The steps of a load.                                                    *)

(* The calls while a load runs.                                            *)
LEMMA LoadUnderWay ==
  ASSUME CoreInv, UseInv, NEW pc, Running("load", pc)
  PROVE  /\ frames # << >> /\ Len(frames) \in Nat \ {0} /\ DOMAIN frames = 1 .. Len(frames)
         /\ 1 \in 1 .. Len(frames) /\ Len(frames) \in 1 .. Len(frames)
         /\ Me = frames[Len(frames)] /\ Me \in Frame /\ Me.op = "load" /\ Me.pc = pc
         /\ \A i \in 1 .. Len(frames) : frames[i].op = "load"
         /\ \A i \in 1 .. Len(frames) : i # Len(frames) =>
               frames[i].pc = "needed" /\ frames[i].h # 0 /\ frames[i].h \in Handles
         /\ pc # "headers" => Me.h # 0 /\ Me.h \in Live /\ Me.h \in Handles
         /\ pc = "headers" => Me.h = 0
         /\ Handles = 1 .. Len(loaded) /\ Len(loaded) \in Nat /\ NewHandle = Len(loaded) + 1
         /\ Live \subseteq Handles
<1>1. /\ frames # << >> /\ Len(frames) \in Nat \ {0} /\ DOMAIN frames = 1 .. Len(frames)
      /\ Me = frames[Len(frames)] /\ Me \in Frame /\ Me.op = "load" /\ Me.pc = pc /\ Loading
      /\ Handles = 1 .. Len(loaded) /\ Len(loaded) \in Nat
  BY RunningTop, CallArray DEF UseInv, ControlInv
<1>2. \A i \in 1 .. Len(frames) : frames[i].op = "load"
  BY <1>1 DEF Loading
<1>3. ASSUME NEW i \in 1 .. Len(frames), i # Len(frames)
      PROVE  frames[i].pc = "needed" /\ frames[i].h # 0 /\ frames[i].h \in Handles
  <2>1. i < Len(frames)
    <3>1. Len(frames) \in Nat
      BY <1>1
    <3> QED BY <1>3, <3>1
  <2>2. frames[i].pc = "needed"
    BY <1>1, <1>2, <2>1 DEF UseInv, ControlInv, CallsOK
  <2>3. frames[i].h \in 0 .. Len(loaded) /\ frames[i].h # 0
    BY <2>2, CallArray
  <2> QED BY <1>1, <2>2, <2>3
<1>4. pc # "headers" => Me.h # 0 /\ Me.h \in Live /\ Me.h \in Handles
  BY LoadedIsLive
<1>5. 1 \in 1 .. Len(frames) /\ Len(frames) \in 1 .. Len(frames)
  BY <1>1
<1>6. pc = "headers" => Me.h = 0
  BY <1>1, <1>5 DEF UseInv, ControlInv, CallsOK
<1> QED BY <1>1, <1>2, <1>3, <1>4, <1>5, <1>6, LiveHandles DEF NewHandle

(* The graph begins with the module of the call at the bottom.             *)
LEMMA BottomIs ==
  ASSUME CoreInv, UseInv, NEW pc, Running("load", pc)
  PROVE  /\ Bottom = IF Len(frames) = 1 /\ pc = "headers" THEN NewHandle ELSE frames[1].h
         /\ Bottom \in Nat /\ Bottom <= NewHandle
         /\ (Len(frames) = 1 /\ pc = "headers") \/ Bottom \in Handles
<1>1. /\ frames # << >> /\ Len(frames) \in Nat \ {0}
      /\ 1 \in 1 .. Len(frames) /\ Me = frames[Len(frames)] /\ frames[1].op = "load"
      /\ Handles = 1 .. Len(loaded) /\ Len(loaded) \in Nat /\ NewHandle = Len(loaded) + 1
      /\ pc = "headers" => Me.h = 0
  BY LoadUnderWay
<1>2. ~(Len(frames) = 1 /\ pc = "headers") => frames[1].h # 0 /\ frames[1].h \in Handles
  <2>1. CASE Len(frames) = 1
    BY <1>1, <2>1, LoadUnderWay
  <2>2. CASE Len(frames) # 1
    BY <1>1, <2>2, LoadUnderWay
  <2> QED BY <2>1, <2>2
<1> QED BY <1>1, <1>2 DEF Bottom

(* What the graph needs and is named is known while every so_name is the    *)
(* name of its file.                                                       *)
LEMMA NamedAsNeeded ==
  ASSUME Unfailing, CoreInv, NEW f \in File
  PROVE  SoName(f) = f
  BY DEF Unfailing, CoreInv, SoName

(* A load is not refused: the files further out on the call stack are in    *)
(* memory, and the file it loads is not.                                   *)
LEMMA NeverCircular ==
  ASSUME Unfailing, CoreInv, UseInv, GraphInv, Running("load", "headers")
  PROVE  ~InProcessOfLoading(Me.file)
<1> SUFFICES ASSUME InProcessOfLoading(Me.file) PROVE FALSE
  OBVIOUS
<1> DEFINE n == Len(frames)
<1>1. /\ n \in 1 .. n /\ n \in Nat \ {0} /\ DOMAIN frames = 1 .. n /\ Me = frames[n]
      /\ Me.op = "load" /\ Me.pc = "headers" /\ Me.h = 0
      /\ \A i \in 1 .. n : frames[i].op = "load"
      /\ \A i \in 1 .. n : i # n => frames[i].h # 0 /\ frames[i].h \in Handles
  BY LoadUnderWay
<1>2. \A i \in 1 .. n : frames[i].file \in File
  BY CallArray
<1>3. PICK i \in DOMAIN dependency_list : dependency_list[i] = SoName(Me.file)
  BY DEF InProcessOfLoading, Contains
<1>4. i \in 1 .. n /\ i # n /\ SoName(frames[i].file) = SoName(Me.file)
  BY <1>1, <1>3 DEF GraphInv, ListIsCalls
<1>5. frames[i].file = Me.file
  BY <1>1, <1>2, <1>4, NamedAsNeeded
<1>6. frames[i].h \in Live /\ loaded[frames[i].h].file = Me.file
  BY <1>1, <1>4, <1>5 DEF UseInv, UsedIsLive, Outside, GraphInv, CallsNest
<1>7. n > 1
  <2>1. n \in Nat /\ i \in 1 .. n /\ i # n
    BY <1>1, <1>4
  <2> QED BY <2>1
<1>8. \A m \in Live : loaded[m].file # frames[n].file
  <2>1. frames[n].op = "load" /\ frames[n].h = 0 /\ n \in DOMAIN frames
    BY <1>1
  <2> QED BY <1>7, <2>1 DEF GraphInv, CallsNest
<1> QED BY <1>1, <1>6, <1>8

(* The module that is found has the name that is looked for.               *)
LEMMA FoundIsNamed ==
  ASSUME CoreInv, NEW f, Matches(f) # {}
  PROVE  SoName(loaded[FirstMatch(f)].file) = f
<1>1. DOMAIN loaded_objects = 1 .. Len(loaded_objects) /\ Len(loaded_objects) \in Nat
  BY LiveHandles, LenProperties
<1>2. Matches(f) \in SUBSET Nat
  BY <1>1 DEF Matches
<1>3. Min(Matches(f)) \in Matches(f)
  BY <1>2, FirstOfPlaces
<1> QED BY <1>3 DEF Matches, FirstMatch

(* A load is asked for, or a needed file is not loaded yet.                *)
LEMMA LoadCalledGraph ==
  ASSUME Unfailing, CoreInv, CoreInv', UseInv, GraphInv, disk' = disk,
         NEW file \in File,
         \/ TopLoad(file)
         \/ LoadDependent /\ file = Needed(Me.file)[Me.next]
  PROVE  GraphInv'
<1> DEFINE n == Len(frames)
           f == Call("load", file, 0, "headers")
<1>1. f \in Frame /\ f.op = "load" /\ f.h = 0 /\ f.pc = "headers" /\ f.file = file
  BY DEF Call, Frame
<1> HIDE DEF f
<1>2. /\ frames' = Append(frames, f) /\ ret' = ret /\ ret = NoReturn
      /\ UNCHANGED << loaded, loaded_objects, dependency_list, dependency_stack, client, init_order >>
  <2>1. CASE TopLoad(file)
    BY <2>1 DEF TopLoad, Idle, f, Call
  <2>2. CASE LoadDependent /\ file = Needed(Me.file)[Me.next]
    BY <2>2 DEF LoadDependent, PendingNeeded, f
  <2> QED BY <2>1, <2>2
<1>3. Pushed(f) /\ n \in Nat /\ DOMAIN frames = 1 .. n
  BY <1>1, <1>2, PushFrame, CallArray
<1>4. /\ DOMAIN frames' = 1 .. n + 1 /\ frames'[n + 1] = f /\ frames' # << >>
      /\ \A i \in 1 .. n : frames'[i] = frames[i]
      /\ \A i \in 1 .. n + 1 : i = n + 1 \/ i \in 1 .. n
  <2>1. \A i \in 1 .. n : i \in 1 .. n + 1 /\ i # n + 1
    BY <1>3
  <2>2. \A i \in 1 .. n + 1 : i = n + 1 \/ i \in 1 .. n
    BY <1>3
  <2>3. n + 1 \in 1 .. n + 1 /\ n + 1 # 0
    BY <1>3
  <2>4. DOMAIN frames' = 1 .. n + 1
    BY <1>3 DEF Pushed
  <2>5. frames' # << >>
    BY <2>3, <2>4
  <2> QED BY <1>3, <2>1, <2>2, <2>3, <2>4, <2>5 DEF Pushed
<1>5. /\ n = 0 => frames = << >> /\ Unloading
      /\ n # 0 => /\ Running("load", "needed") /\ file \in ToSet(Needed(frames[n].file))
                  /\ \A m \in Live : loaded[m].file # file
  <2>1. CASE TopLoad(file)
    BY <1>3, <2>1, EmptySeq DEF TopLoad, Idle, Unloading
  <2>2. CASE LoadDependent /\ file = Needed(Me.file)[Me.next]
    <3>1. Running("load", "needed") /\ Me.next <= Len(Needed(Me.file)) /\ Matches(file) = {}
      BY <2>2 DEF LoadDependent, PendingNeeded
    <3>2. Me = frames[n] /\ n # 0 /\ Me \in Frame /\ Me.next \in Nat \ {0}
      BY <3>1, LoadUnderWay, CallArray
    <3>3. file \in ToSet(Needed(frames[n].file))
      <4>1. Needed(Me.file) \in Seq(File)
        BY <3>2, DiskEntries DEF Frame, CoreInv
      <4>2. Me.next \in DOMAIN Needed(Me.file)
        BY <3>1, <3>2, <4>1, LenProperties
      <4> QED BY <2>2, <3>2, <4>2 DEF ToSet
    <3>4. ASSUME NEW m \in Live PROVE loaded[m].file # file
      <4>1. loaded[m].file \in File
        BY LiveHandles, ModuleRecord DEF Module
      <4>2. PICK i \in DOMAIN loaded_objects : loaded_objects[i] = m
        BY DEF Live, ToSet
      <4>3. SoName(loaded[m].file) # file
        BY <3>1, <4>2 DEF Matches
      <4> QED BY <4>1, <4>3, NamedAsNeeded
    <3> QED BY <3>1, <3>2, <3>3, <3>4
  <2> QED BY <2>1, <2>2
<1>6. CallsNest'
  <2>1. ASSUME NEW i \in 1 .. n, frames[i].op = "load"
        PROVE  /\ frames'[i].h # 0 => loaded'[frames'[i].h].file = frames'[i].file
               /\ i > 1 => frames'[i].file \in ToSet(Needed(frames'[i - 1].file))
               /\ i > 1 /\ frames'[i].h = 0 => \A m \in Live' : loaded'[m].file # frames'[i].file
               /\ frames'[i].pc = "relocate" => i = 1
    <3>1. i > 1 => i - 1 \in 1 .. n
      BY <1>3
    <3>2. Live' = Live
      BY <1>2 DEF Live
    <3>3. /\ frames[i].h # 0 => loaded[frames[i].h].file = frames[i].file
          /\ i > 1 => frames[i].file \in ToSet(Needed(frames[i - 1].file))
          /\ i > 1 /\ frames[i].h = 0 => \A m \in Live : loaded[m].file # frames[i].file
          /\ frames[i].pc = "relocate" => i = 1
      BY <1>3, <2>1 DEF GraphInv, CallsNest
    <3>4. frames'[i] = frames[i] /\ (i > 1 => frames'[i - 1] = frames[i - 1])
      BY <1>4, <3>1
    <3> QED BY <1>2, <3>2, <3>3, <3>4
  <2>2. /\ frames'[n + 1].h = 0 /\ frames'[n + 1].pc # "relocate"
        /\ n + 1 > 1 => frames'[n + 1].file \in ToSet(Needed(frames'[n].file))
        /\ n + 1 > 1 => \A m \in Live' : loaded'[m].file # frames'[n + 1].file
    <3>1. n + 1 > 1 => n # 0 /\ n \in 1 .. n
      BY <1>3
    <3>2. n # 0 => frames'[n] = frames[n]
      BY <1>3, <1>4
    <3> QED BY <1>1, <1>2, <1>4, <1>5, <3>1, <3>2 DEF Live
  <2>3. n + 1 - 1 = n
    BY <1>3
  <2>4. \A i \in 1 .. n : frames'[i].op = frames[i].op
    BY <1>4
  <2> QED BY <1>4, <2>1, <2>2, <2>3, <2>4 DEF CallsNest, Needed
<1>7. AnswerIsNeeded'
  BY <1>2 DEF AnswerIsNeeded, NoReturn
<1>8. ListIsCalls'
  <2>1. {i \in DOMAIN frames' : frames'[i].pc = "needed"} = {i \in DOMAIN frames : frames[i].pc = "needed"}
    BY <1>1, <1>3, <1>4
  <2> QED BY <1>2, <1>3, <1>4, <2>1 DEF GraphInv, ListIsCalls, SoName
<1>9. DependsOnNeeded'
  BY <1>2, DependsKept DEF GraphInv, FilesKept, Handles
<1>10. /\ Bottom' = Bottom /\ NewHandle' = NewHandle
       /\ n = 0 => Bottom = NewHandle
       /\ n # 0 => frames[1].op = "load" /\ frames'[1] = frames[1] /\ frames # << >>
  <2>1. CASE n = 0
    <3>1. frames'[1] = f
      BY <1>4, <2>1
    <3> QED BY <1>1, <1>2, <1>5, <2>1, <3>1 DEF Bottom, NewHandle
  <2>2. CASE n # 0
    <3>1. frames'[1] = frames[1] /\ frames # << >> /\ frames[1].op = "load"
      BY <1>4, <1>5, <2>2, LoadUnderWay
    <3> QED BY <1>2, <1>4, <2>2, <3>1 DEF Bottom, NewHandle
  <2> QED BY <2>1, <2>2
<1>11. StackOrder'
  <2>1. frames'[1].pc = "needed" => n # 0
    BY <1>1, <1>4
  <2> QED BY <1>2, <1>10, <2>1 DEF GraphInv, StackOrder, Live, Initialized
<1>12. GraphApart'
  BY <1>1, <1>2, <1>3, <1>4, <1>10 DEF GraphInv, GraphApart, Handles
<1>13. GraphSmall'
  <2>1. Bottom <= HandleBound
    <3>1. CASE n = 0
      <4>1. TopLoad(file)
        BY <1>3, <3>1, EmptySeq, LoadUnderWay DEF LoadDependent, PendingNeeded
      <4> QED BY <1>10, <3>1, <4>1, CallArray, DloadAssumption DEF TopLoad, NewHandle
    <3>2. CASE n # 0
      BY <1>10, <3>2 DEF GraphInv, GraphSmall
    <3> QED BY <3>1, <3>2
  <2> QED BY <1>2, <1>10, <2>1 DEF GraphInv, GraphSmall, Handles, Live
<1> QED BY <1>6, <1>7, <1>8, <1>9, <1>11, <1>12, <1>13 DEF GraphInv

(* A module is placed: the graph has one more, with a file it did not have, *)
(* on top of the stack.                                                    *)
LEMMA PlacedEffect ==
  ASSUME Unfailing, CoreInv, CoreInv', UseInv, PlaceModule
  PROVE  \E k, f, n :
           /\ k = NewHandle /\ n = Len(frames) /\ Running("load", "headers") /\ ret = NoReturn
           /\ f \in Frame /\ f.op = "load" /\ f.pc = "needed" /\ f.h = k /\ f.file = Me.file /\ f.next = 1
           /\ DOMAIN frames' = 1 .. n /\ frames'[n] = f
           /\ \A i \in 1 .. n : i # n => frames'[i] = frames[i]
           /\ Live' = Live \cup {k} /\ k \notin Handles /\ Handles' = Handles \cup {k}
           /\ NewHandle' = k + 1
           /\ \A m \in Handles : loaded'[m] = loaded[m]
           /\ loaded'[k] = NewModule(Me.file, FALSE)
           /\ dependency_list' = Append(dependency_list, SoName(Me.file))
           /\ dependency_stack' = Append(dependency_stack, k)
           /\ Loading /\ Loading' /\ Enqueue(Me.file, FALSE)
           /\ UNCHANGED << ret, client, init_order, fini_order >>
<1> DEFINE n == Len(frames)
           k == NewHandle
           f == Call("load", Me.file, k, "needed")
<1>1. frames' = Append(Front(frames), f) /\ UNCHANGED ret
  BY DEF Unfailing, PlaceModule
<1>2. /\ Running("load", "headers") /\ Enqueue(Me.file, FALSE)
      /\ dependency_list' = Append(dependency_list, SoName(Me.file))
      /\ dependency_stack' = Append(dependency_stack, k)
      /\ UNCHANGED << client, init_order, fini_order >>
  BY DEF PlaceModule
<1>3. /\ frames # << >> /\ n \in Nat \ {0} /\ DOMAIN frames = 1 .. n /\ Me = frames[n] /\ Me \in Frame
      /\ Me.pc = "headers" /\ \A i \in 1 .. n : frames[i].op = "load"
      /\ Len(loaded) \in Nat /\ k = Len(loaded) + 1
  BY <1>2, LoadUnderWay
<1>4. f \in Frame /\ f.op = "load" /\ f.pc = "needed" /\ f.h = k /\ f.file = Me.file /\ f.next = 1
  BY <1>3 DEF Call, Frame
<1> HIDE DEF f
<1>5. Replaced(f)
  BY <1>1, <1>3, <1>4, ReplaceFrame
<1>6. DOMAIN frames' = 1 .. n /\ frames'[n] = f /\ \A i \in 1 .. n : i # n => frames'[i] = frames[i]
  <2>1. n \in 1 .. n
    BY <1>3
  <2> QED BY <1>5, <2>1 DEF Replaced
<1>7. Loading /\ Loading'
  <2>1. ASSUME NEW i \in 1 .. n PROVE frames'[i].op = "load"
    <3>1. CASE i = n
      BY <1>4, <1>6, <3>1
    <3>2. CASE i # n
      BY <1>3, <1>6, <3>2
    <3> QED BY <3>1, <3>2
  <2> QED BY <1>3, <1>6, <2>1 DEF Loading
<1>8. ret = NoReturn
  BY <1>3 DEF UseInv, ControlInv, ReturnOK
<1>9. /\ Live' = Live \cup {k} /\ k \notin Handles /\ Handles' = Handles \cup {k}
      /\ \A m \in Handles : loaded'[m] = loaded[m]
      /\ loaded'[k] = NewModule(Me.file, FALSE)
  <2>1. Me.file \in File /\ FALSE \in BOOLEAN
    BY <1>3 DEF Frame
  <2> QED BY <1>2, <1>7, <2>1, ModuleAdded DEF UseInv, ControlInv
<1>10. NewHandle' = k + 1
  <2>1. loaded \in Seq(Module)
    BY DEF CoreInv, ModulesOK
  <2>2. NewModule(Me.file, FALSE) \in Module
    BY <1>3, EmptySeq DEF NewModule, Module, Frame
  <2>3. Len(loaded') = k
    BY <1>2, <1>3, <2>1, <2>2, AppendProperties DEF Enqueue
  <2> QED BY <2>3 DEF NewHandle
<1> QED BY <1>1, <1>2, <1>4, <1>6, <1>7, <1>8, <1>9, <1>10

(* The graph after a module was placed.                                    *)
LEMMA PlacedGraph ==
  ASSUME Unfailing, CoreInv, CoreInv', UseInv, GraphInv, disk' = disk, PlaceModule
  PROVE  GraphInv'
<1>1. PICK k, f, n :
           /\ k = NewHandle /\ n = Len(frames) /\ Running("load", "headers") /\ ret = NoReturn
           /\ f \in Frame /\ f.op = "load" /\ f.pc = "needed" /\ f.h = k /\ f.file = Me.file /\ f.next = 1
           /\ DOMAIN frames' = 1 .. n /\ frames'[n] = f
           /\ \A i \in 1 .. n : i # n => frames'[i] = frames[i]
           /\ Live' = Live \cup {k} /\ k \notin Handles /\ Handles' = Handles \cup {k}
           /\ NewHandle' = k + 1
           /\ \A m \in Handles : loaded'[m] = loaded[m]
           /\ loaded'[k] = NewModule(Me.file, FALSE)
           /\ dependency_list' = Append(dependency_list, SoName(Me.file))
           /\ dependency_stack' = Append(dependency_stack, k)
           /\ Loading /\ Loading' /\ Enqueue(Me.file, FALSE)
           /\ UNCHANGED << ret, client, init_order, fini_order >>
  BY PlacedEffect
<1>2. /\ frames # << >> /\ n \in Nat \ {0} /\ DOMAIN frames = 1 .. n /\ n \in 1 .. n /\ 1 \in 1 .. n
      /\ Me = frames[n] /\ Me \in Frame /\ Me.pc = "headers" /\ Me.h = 0 /\ Me.file \in File
      /\ \A i \in 1 .. n : frames[i].op = "load"
      /\ \A i \in 1 .. n : i # n => frames[i].pc = "needed" /\ frames[i].h # 0 /\ frames[i].h \in Handles
      /\ Handles = 1 .. Len(loaded) /\ Len(loaded) \in Nat /\ k = Len(loaded) + 1
      /\ Live \subseteq Handles
  BY <1>1, LoadUnderWay DEF Frame
<1>3. /\ loaded'[k].file = Me.file /\ Len(loaded'[k].deps) = 0 /\ loaded'[k].base = FALSE
  BY <1>1, EmptySeq DEF NewModule
<1>4. \A i \in 1 .. n : /\ frames'[i].op = "load" /\ frames'[i].file = frames[i].file
                        /\ frames'[i].pc = "needed" /\ frames'[i].h # 0
                        /\ frames'[i].h = k \/ (frames'[i].h = frames[i].h /\ i # n)
  <2>1. ASSUME NEW i \in 1 .. n
        PROVE  /\ frames'[i].op = "load" /\ frames'[i].file = frames[i].file
               /\ frames'[i].pc = "needed" /\ frames'[i].h # 0
               /\ frames'[i].h = k \/ (frames'[i].h = frames[i].h /\ i # n)
    <3>1. k # 0
      BY <1>2
    <3>2. CASE i = n
      BY <1>1, <1>2, <3>1, <3>2
    <3>3. CASE i # n
      BY <1>1, <1>2, <3>3
    <3> QED BY <3>2, <3>3
  <2> QED BY <2>1
<1>5. CallsNest'
  <2>1. ASSUME NEW i \in 1 .. n
        PROVE  /\ loaded'[frames'[i].h].file = frames'[i].file
               /\ i > 1 => frames'[i].file \in ToSet(Needed(frames'[i - 1].file))
    <3>1. loaded'[frames'[i].h].file = frames'[i].file
      <4>1. CASE i = n
        BY <1>1, <1>2, <1>3, <4>1
      <4>2. CASE i # n
        <5>1. frames[i].h \in Handles /\ frames[i].h # 0 /\ frames[i].op = "load"
          BY <1>2, <4>2
        <5>2. loaded[frames[i].h].file = frames[i].file
          BY <1>2, <5>1 DEF GraphInv, CallsNest
        <5> QED BY <1>1, <4>2, <5>1, <5>2
      <4> QED BY <4>1, <4>2
    <3>2. ASSUME i > 1 PROVE frames'[i].file \in ToSet(Needed(frames'[i - 1].file))
      <4>1. i - 1 \in 1 .. n
        <5>1. n \in Nat
          BY <1>2
        <5> QED BY <3>2, <5>1
      <4>2. frames[i].file \in ToSet(Needed(frames[i - 1].file))
        BY <1>2, <3>2 DEF GraphInv, CallsNest
      <4> QED BY <1>4, <4>1, <4>2
    <3> QED BY <3>1, <3>2
  <2> QED BY <1>1, <1>4, <2>1 DEF CallsNest, Needed
<1>6. AnswerIsNeeded'
  BY <1>1 DEF AnswerIsNeeded, NoReturn
<1>7. ListIsCalls'
  <2>1. /\ dependency_list \in Seq(Name) /\ SoName(Me.file) \in Name
        /\ DOMAIN dependency_list = 1 .. Len(dependency_list) /\ Len(dependency_list) \in Nat
    BY <1>2, DiskEntries, LenProperties DEF CoreInv, NamesOK
  <2>2. {i \in 1 .. n : frames[i].pc = "needed"} = 1 .. n - 1
    <3>1. \A i \in 1 .. n : i \in 1 .. n - 1 <=> i # n
      <4>1. n \in Nat
        BY <1>2
      <4> QED BY <4>1
    <3>2. \A i \in 1 .. n : frames[i].pc = "needed" <=> i # n
      BY <1>2
    <3>3. 1 .. n - 1 \subseteq 1 .. n
      BY <1>2
    <3> QED BY <3>1, <3>2, <3>3
  <2>3. Len(dependency_list) = n - 1
    <3>1. 1 .. Len(dependency_list) = 1 .. n - 1
      BY <1>2, <2>1, <2>2 DEF GraphInv, ListIsCalls
    <3> QED BY <1>2, <2>1, <3>1
  <2>4. /\ dependency_list' \in Seq(Name) /\ Len(dependency_list') = n
        /\ \A i \in 1 .. n - 1 : dependency_list'[i] = dependency_list[i]
        /\ dependency_list'[n] = SoName(Me.file)
    <3> DEFINE l == Append(dependency_list, SoName(Me.file))
    <3>1. /\ l \in Seq(Name) /\ Len(l) = Len(dependency_list) + 1
          /\ \A i \in 1 .. Len(dependency_list) : l[i] = dependency_list[i]
          /\ l[Len(dependency_list) + 1] = SoName(Me.file)
      BY <2>1, AppendProperties
    <3> HIDE DEF l
    <3>2. Len(dependency_list) + 1 = n
      BY <1>2, <2>3
    <3>3. dependency_list' = l
      BY <1>1 DEF l
    <3> QED BY <2>3, <3>1, <3>2, <3>3
  <2>5. DOMAIN dependency_list' = 1 .. n
    BY <2>4, LenProperties
  <2>6. ASSUME NEW i \in 1 .. n PROVE dependency_list'[i] = SoName(frames'[i].file)
    <3>1. CASE i = n
      BY <1>2, <1>4, <2>4, <3>1
    <3>2. CASE i # n
      <4>1. i \in 1 .. n - 1
        <5>1. n \in Nat
          BY <1>2
        <5> QED BY <3>2, <5>1
      <4>2. dependency_list[i] = SoName(frames[i].file)
        BY <2>1, <2>3, <4>1 DEF GraphInv, ListIsCalls
      <4> QED BY <1>4, <2>4, <4>1, <4>2
    <3> QED BY <3>1, <3>2
  <2>7. {i \in DOMAIN frames' : frames'[i].pc = "needed"} = 1 .. n
    BY <1>1, <1>4
  <2> QED BY <2>5, <2>6, <2>7 DEF ListIsCalls, SoName
<1>8. DependsOnNeeded'
  <2>1. FilesKept
    BY <1>1, <1>3 DEF FilesKept
  <2> QED BY <2>1, DependsKept DEF GraphInv
<1>9. /\ Bottom' = Bottom /\ Bottom \in Nat /\ Bottom <= k /\ NewHandle' = k + 1
      /\ n # 1 => Bottom \in Handles
  <2>1. /\ Bottom = IF n = 1 THEN k ELSE frames[1].h
        /\ Bottom \in Nat /\ Bottom <= k /\ (n # 1 => Bottom \in Handles)
    BY <1>1, BottomIs
  <2>2. Bottom' = frames'[1].h
    <3>1. frames' # << >>
      BY <1>1, <1>2
    <3> QED BY <1>2, <1>4, <3>1 DEF Bottom
  <2>3. frames'[1].h = IF n = 1 THEN k ELSE frames[1].h
    BY <1>1, <1>2
  <2> QED BY <1>1, <2>1, <2>2, <2>3
<1>10. StackOrder'
  <2>1. /\ dependency_stack \in Seq(Handles) /\ Len(dependency_stack) \in Nat
        /\ DOMAIN dependency_stack = 1 .. Len(dependency_stack)
    BY LenProperties DEF CoreInv, OrdersOK, Handles
  <2>2. /\ dependency_stack' \in Seq(Handles') /\ Len(dependency_stack') = Len(dependency_stack) + 1
        /\ \A i \in 1 .. Len(dependency_stack) : dependency_stack'[i] = dependency_stack[i]
        /\ dependency_stack'[Len(dependency_stack) + 1] = k
        /\ \A x : Contains(dependency_stack', x) <=> Contains(dependency_stack, x) \/ x = k
    <3> DEFINE T == Handles \cup {k}
    <3>1. dependency_stack \in Seq(T) /\ k \in T
      BY <2>1, SeqMonotonic
    <3> HIDE DEF T
    <3>2. /\ Append(dependency_stack, k) \in Seq(T)
          /\ Len(Append(dependency_stack, k)) = Len(dependency_stack) + 1
          /\ \A i \in 1 .. Len(dependency_stack) : Append(dependency_stack, k)[i] = dependency_stack[i]
          /\ Append(dependency_stack, k)[Len(dependency_stack) + 1] = k
      BY <3>1, AppendProperties
    <3>3. \A x : Contains(Append(dependency_stack, k), x) <=> Contains(dependency_stack, x) \/ x = k
      BY <3>1, AppendContains
    <3> QED BY <1>1, <3>2, <3>3 DEF T
  <2>3. DOMAIN dependency_stack' = 1 .. Len(dependency_stack) + 1
    BY <2>2, LenProperties
  <2>4. \A i \in DOMAIN dependency_stack' : dependency_stack'[i] >= Bottom
    <3>1. \A i \in 1 .. Len(dependency_stack) : dependency_stack[i] >= Bottom
      BY <2>1 DEF GraphInv, StackOrder
    <3>2. \A i \in 1 .. Len(dependency_stack) + 1 :
             i = Len(dependency_stack) + 1 \/ i \in 1 .. Len(dependency_stack)
      BY <2>1
    <3>3. k >= Bottom
      BY <1>2, <1>9
    <3> QED BY <2>2, <2>3, <3>1, <3>2, <3>3
  <2>5. dependency_stack' # << >> /\ dependency_stack'[1] = frames'[1].h
    <3>1. Len(dependency_stack) + 1 \in DOMAIN dependency_stack'
      BY <2>1, <2>3
    <3>2. CASE n = 1
      <4>1. Bottom = k
        BY <1>1, <3>2, BottomIs
      <4>2. Len(dependency_stack) = 0
        BY <1>1, <4>1, EmptySeq DEF GraphInv, StackOrder
      <4> QED BY <1>1, <2>2, <3>1, <3>2, <4>2
    <3>3. CASE n # 1
      <4>1. frames[1].pc = "needed" /\ frames'[1] = frames[1]
        BY <1>1, <1>2, <3>3
      <4>2. dependency_stack # << >> /\ dependency_stack[1] = frames[1].h
        BY <1>2, <4>1 DEF GraphInv, StackOrder
      <4>3. 1 \in 1 .. Len(dependency_stack)
        BY <2>1, <4>2, EmptySeq
      <4> QED BY <2>2, <3>1, <4>1, <4>2, <4>3
    <3> QED BY <3>2, <3>3
  <2>6. ASSUME NEW m \in Live' PROVE Initialized(m)' \/ Contains(dependency_stack', m)
    <3>1. CASE m = k
      BY <2>2, <3>1
    <3>2. CASE m \in Live
      <4>1. Initialized(m) \/ Contains(dependency_stack, m)
        BY <3>2 DEF GraphInv, StackOrder
      <4>2. m \in Handles /\ loaded'[m] = loaded[m]
        BY <1>1, <1>2, <3>2
      <4> QED BY <1>1, <2>2, <4>1, <4>2 DEF Initialized
    <3> QED BY <1>1, <3>1, <3>2
  <2>7. Bottom' # NewHandle'
    BY <1>2, <1>9
  <2> QED BY <1>9, <2>4, <2>5, <2>6, <2>7 DEF StackOrder
<1>11. GraphApart'
  <2>1. \A i \in DOMAIN frames' : frames'[i].h >= Bottom
    <3>1. k >= Bottom
      BY <1>2, <1>9
    <3>2. \A i \in 1 .. n : i # n => frames[i].h >= Bottom
      BY <1>2 DEF GraphInv, GraphApart
    <3> QED BY <1>1, <1>4, <3>1, <3>2
  <2>2. \A m \in client' : m < Bottom
    BY <1>1 DEF GraphInv, GraphApart
  <2>3. \A m \in Handles' : m < Bottom => \A i \in 1 .. Len(loaded'[m].deps) : loaded'[m].deps[i] < Bottom
    <3>1. \A m \in Handles : m < Bottom => \A i \in 1 .. Len(loaded'[m].deps) : loaded'[m].deps[i] < Bottom
      BY <1>1 DEF GraphInv, GraphApart
    <3>2. ~(k < Bottom)
      BY <1>2, <1>9
    <3> QED BY <1>1, <3>1, <3>2
  <2> QED BY <1>9, <2>1, <2>2, <2>3 DEF GraphApart
<1>12. GraphSmall'
  <2>1. Bottom <= HandleBound
    BY <1>2 DEF GraphInv, GraphSmall
  <2>2. ASSUME NEW m \in Handles, m >= Bottom PROVE loaded[m].file # Me.file /\ m \in Live
    <3>1. m \in Live
      BY <2>2 DEF GraphInv, GraphSmall
    <3>2. n > 1
      <4>1. n # 1
        <5>1. CASE n = 1
          <6>1. Bottom = k
            BY <1>1, <5>1, BottomIs
          <6> QED BY <1>2, <2>2, <6>1
        <5> QED BY <5>1
      <4>2. n \in Nat \ {0}
        BY <1>2
      <4> QED BY <4>1, <4>2
    <3>3. \A x \in Live : loaded[x].file # frames[n].file
      BY <1>2, <3>2 DEF GraphInv, CallsNest
    <3> QED BY <1>2, <3>1, <3>3
  <2>3. ASSUME NEW m \in Handles', NEW j \in Handles', m >= Bottom, j >= Bottom,
               loaded'[m].file = loaded'[j].file
        PROVE  m = j
    <3>1. CASE m = k
      BY <1>1, <1>3, <2>2, <2>3, <3>1
    <3>2. CASE j = k
      BY <1>1, <1>3, <2>2, <2>3, <3>2
    <3>3. CASE m \in Handles /\ j \in Handles
      <4>1. loaded[m].file = loaded[j].file
        BY <1>1, <2>3, <3>3
      <4> QED BY <2>3, <3>3, <4>1 DEF GraphInv, GraphSmall
    <3> QED BY <1>1, <3>1, <3>2, <3>3
  <2>4. \A m \in Handles' : m >= Bottom => m \in Live'
    BY <1>1, <2>2
  <2> QED BY <1>9, <2>1, <2>3, <2>4 DEF GraphSmall
<1> QED BY <1>5, <1>6, <1>7, <1>8, <1>10, <1>11, <1>12 DEF GraphInv

(* An entry is added to the list of the module under load: the needed file  *)
(* is in memory, or was loaded for it just now.                            *)
LEMMA EntryEffect ==
  ASSUME Unfailing, CoreInv, CoreInv', UseInv, UseInv', GraphInv, NeededIsLoaded \/ DependentReturned
  PROVE  \E u, d, f, n :
           /\ u = Me.h /\ n = Len(frames) /\ Running("load", "needed") /\ u \in Live /\ u # 0
           /\ d \in Live /\ d # 0 /\ u \in Handles /\ d \in Handles
           /\ loaded[d].file \in ToSet(Needed(loaded[u].file))
           /\ f \in Frame /\ f.op = "load" /\ f.pc = "needed" /\ f.h = u /\ f.file = Me.file
           /\ DOMAIN frames' = 1 .. n /\ frames'[n] = f
           /\ \A i \in 1 .. n : i # n => frames'[i] = frames[i]
           /\ Len(loaded') = Len(loaded)
           /\ \A m \in Handles :
                /\ loaded'[m].deps = IF m = u THEN Append(loaded[u].deps, d) ELSE loaded[m].deps
                /\ loaded'[m].file = loaded[m].file /\ loaded'[m].base = loaded[m].base
           /\ Loading /\ Loading' /\ ret' = NoReturn
           /\ UNCHANGED << loaded_objects, dependency_list, dependency_stack, client, init_order, fini_order >>
           /\ \/ /\ NeededIsLoaded /\ ret = NoReturn
                 /\ \A m \in Handles : loaded'[m].use_count = loaded[m].use_count + (IF m = d THEN 1 ELSE 0)
              \/ /\ DependentReturned /\ ret = [of |-> "load", val |-> d]
                 /\ \A m \in Handles : loaded'[m].use_count = loaded[m].use_count
<1>1. PICK u, n : u = Me.h /\ n = Len(frames)
  OBVIOUS
<1>2. Running("load", "needed")
  BY DEF NeededIsLoaded, DependentReturned, PendingNeeded
<1>3. /\ n \in Nat \ {0} /\ n \in 1 .. n /\ DOMAIN frames = 1 .. n /\ Me = frames[n] /\ Me \in Frame
      /\ Me.op = "load" /\ Me.pc = "needed" /\ \A i \in 1 .. n : frames[i].op = "load"
      /\ u \in Live /\ u \in Handles /\ u # 0 /\ frames # << >>
      /\ Handles = 1 .. Len(loaded) /\ Len(loaded) \in Nat
  BY <1>1, <1>2, LoadUnderWay
<1>4. loaded[u].file = Me.file
  BY <1>1, <1>3 DEF GraphInv, CallsNest
<1>5. \E d : /\ d \in Live /\ d # 0 /\ d \in Handles
             /\ loaded[d].file \in ToSet(Needed(Me.file))
             /\ Len(loaded') = Len(loaded)
             /\ \A m \in Handles :
                  /\ loaded'[m].deps = IF m = u THEN Append(loaded[u].deps, d) ELSE loaded[m].deps
                  /\ loaded'[m].file = loaded[m].file /\ loaded'[m].base = loaded[m].base
             /\ \/ /\ NeededIsLoaded /\ ret = NoReturn
                   /\ \A m \in Handles : loaded'[m].use_count = loaded[m].use_count + (IF m = d THEN 1 ELSE 0)
                \/ /\ DependentReturned /\ ret = [of |-> "load", val |-> d]
                   /\ \A m \in Handles : loaded'[m].use_count = loaded[m].use_count
  <2>1. CASE NeededIsLoaded
    <3>1. PICK needed : needed = Needed(Me.file)[Me.next]
      OBVIOUS
    <3>2. PICK d : d = FirstMatch(needed)
      OBVIOUS
    <3>3. /\ Matches(needed) # {} /\ loaded' = ShareModule(u, d) /\ ret = NoReturn
          /\ Me.next <= Len(Needed(Me.file))
      BY <1>1, <2>1, <3>1, <3>2 DEF NeededIsLoaded, PendingNeeded
    <3>4. d \in Live /\ d \in Handles
      BY <3>2, <3>3, FoundIsLive
    <3>5. needed \in ToSet(Needed(Me.file))
      <4>1. Needed(Me.file) \in Seq(File)
        BY <1>3, DiskEntries DEF Frame, CoreInv
      <4>2. Me.next \in DOMAIN Needed(Me.file)
        BY <1>1, <1>3, <3>3, <4>1, LenProperties, CallArray
      <4> QED BY <3>1, <4>2 DEF ToSet
    <3>6. loaded[d].file = needed
      <4>1. SoName(loaded[d].file) = needed
        BY <3>2, <3>3, FoundIsNamed
      <4>2. loaded[d].file \in File
        BY <3>4, ModuleRecord DEF Module
      <4> QED BY <4>1, <4>2, NamedAsNeeded
    <3>7. /\ Len(loaded') = Len(loaded)
          /\ \A m \in Handles :
               /\ loaded'[m].deps = IF m = u THEN Append(loaded[u].deps, d) ELSE loaded[m].deps
               /\ loaded'[m].use_count = loaded[m].use_count + (IF m = d THEN 1 ELSE 0)
               /\ loaded'[m].file = loaded[m].file /\ loaded'[m].base = loaded[m].base
      BY <1>3, <3>3, <3>4, ModuleShared
    <3>8. d # 0
      BY <1>3, <3>4
    <3> QED BY <2>1, <3>3, <3>4, <3>5, <3>6, <3>7, <3>8
  <2>2. CASE DependentReturned
    <3>1. PICK d : d = ret.val
      OBVIOUS
    <3>2. ret = [of |-> "load", val |-> d] /\ d \in 0 .. Len(loaded)
      <4>1. ret \in Answer(Len(loaded)) /\ ret.of = "load"
        BY <2>2 DEF CoreInv, DependentReturned
      <4> QED BY <3>1, <4>1 DEF Answer
    <3>3. d # 0 /\ loaded[d].file \in ToSet(Needed(Me.file))
      BY <1>3, <3>1, <3>2 DEF GraphInv, AnswerIsNeeded
    <3>4. d \in Handles /\ d \in Nat
      BY <1>3, <3>2, <3>3
    <3>5. d \in Live
      BY <3>2, <3>4 DEF UseInv, UsedIsLive, Outside
    <3>6. loaded' = AddDependency(u, d)
      BY <1>1, <2>2, <3>1 DEF DependentReturned
    <3>7. /\ Len(loaded') = Len(loaded)
          /\ \A m \in Handles :
               /\ loaded'[m].deps = IF m = u THEN Append(loaded[u].deps, d) ELSE loaded[m].deps
               /\ loaded'[m].use_count = loaded[m].use_count
               /\ loaded'[m].file = loaded[m].file /\ loaded'[m].base = loaded[m].base
      BY <1>3, <3>4, <3>6, DependencyAdded
    <3> QED BY <2>2, <3>2, <3>3, <3>4, <3>5, <3>7
  <2> QED BY <2>1, <2>2
<1>6. PICK d : /\ d \in Live /\ d # 0 /\ d \in Handles
               /\ loaded[d].file \in ToSet(Needed(Me.file))
               /\ Len(loaded') = Len(loaded)
               /\ \A m \in Handles :
                    /\ loaded'[m].deps = IF m = u THEN Append(loaded[u].deps, d) ELSE loaded[m].deps
                    /\ loaded'[m].file = loaded[m].file /\ loaded'[m].base = loaded[m].base
               /\ \/ /\ NeededIsLoaded /\ ret = NoReturn
                     /\ \A m \in Handles : loaded'[m].use_count = loaded[m].use_count + (IF m = d THEN 1 ELSE 0)
                  \/ /\ DependentReturned /\ ret = [of |-> "load", val |-> d]
                     /\ \A m \in Handles : loaded'[m].use_count = loaded[m].use_count
  BY <1>5
<1>7. /\ frames' = NextNeeded /\ ret' = NoReturn
      /\ UNCHANGED << loaded_objects, dependency_list, dependency_stack, client, init_order, fini_order >>
  <2>1. CASE NeededIsLoaded
    BY <1>6, <2>1 DEF NeededIsLoaded, PendingNeeded
  <2>2. CASE DependentReturned
    <3>1. ret.val # 0
      BY <2>2 DEF DependentReturned, GraphInv, AnswerIsNeeded
    <3> QED BY <2>2, <3>1 DEF DependentReturned
  <2> QED BY <2>1, <2>2
<1>8. PICK f \in Frame : /\ frames' = Append(Front(frames), f)
                         /\ f.op = "load" /\ f.pc = "needed" /\ f.h = u /\ f.file = Me.file
  BY <1>1, <1>2, <1>7, NextCall DEF NextNeeded, UseInv, ControlInv
<1>9. DOMAIN frames' = 1 .. n /\ frames'[n] = f /\ \A i \in 1 .. n : i # n => frames'[i] = frames[i]
  <2>1. Replaced(f)
    BY <1>3, <1>8, ReplaceFrame
  <2> QED BY <1>1, <1>3, <2>1 DEF Replaced
<1>10. Loading /\ Loading'
  <2>1. ASSUME NEW i \in 1 .. n PROVE frames'[i].op = "load"
    <3>1. CASE i = n
      BY <1>8, <1>9, <3>1
    <3>2. CASE i # n
      BY <1>3, <1>9, <3>2
    <3> QED BY <3>1, <3>2
  <2> QED BY <1>3, <1>9, <2>1 DEF Loading
<1>11. loaded[d].file \in ToSet(Needed(loaded[u].file))
  <2>1. loaded[u].file = Me.file
    BY <1>4
  <2>2. loaded[d].file \in ToSet(Needed(Me.file))
    BY <1>6
  <2> QED BY <2>1, <2>2
<1> WITNESS u, d, f, n
<1> QED BY <1>1, <1>2, <1>3, <1>6, <1>7, <1>8, <1>9, <1>10, <1>11

(* Calls that go on with the file and the module they had.                 *)
LEMMA NestKept ==
  ASSUME CoreInv, CallsNest, disk' = disk, Live' = Live,
         NEW n \in Nat, DOMAIN frames = 1 .. n, NEW k \in Nat, k <= n, DOMAIN frames' = 1 .. k,
         \A i \in 1 .. k : /\ frames'[i].op = "load" /\ frames[i].op = "load" /\ frames'[i].h = frames[i].h
                           /\ frames'[i].file = frames[i].file /\ (frames'[i].pc = "relocate" => i = 1),
         \A m \in Handles : loaded'[m].file = loaded[m].file
  PROVE  CallsNest'
<1> SUFFICES ASSUME NEW i \in 1 .. k
             PROVE  /\ frames'[i].h # 0 => loaded'[frames'[i].h].file = frames'[i].file
                    /\ i > 1 => frames'[i].file \in ToSet(Needed(frames'[i - 1].file))
                    /\ i > 1 /\ frames'[i].h = 0 => \A m \in Live' : loaded'[m].file # frames'[i].file
  BY DEF CallsNest, Needed
<1>1. i \in 1 .. n /\ (i > 1 => i - 1 \in 1 .. k)
  OBVIOUS
<1>2. /\ frames[i].h # 0 => loaded[frames[i].h].file = frames[i].file
      /\ i > 1 => frames[i].file \in ToSet(Needed(frames[i - 1].file))
      /\ i > 1 /\ frames[i].h = 0 => \A m \in Live : loaded[m].file # frames[i].file
  BY <1>1 DEF CallsNest
<1>3. frames[i].h # 0 => frames[i].h \in Handles
  BY <1>1, CallArray
<1>4. frames'[i].h # 0 => loaded'[frames'[i].h].file = frames'[i].file
  BY <1>2, <1>3
<1>5. i > 1 => frames'[i].file \in ToSet(Needed(frames'[i - 1].file))
  BY <1>1, <1>2
<1>6. i > 1 /\ frames'[i].h = 0 => \A m \in Live' : loaded'[m].file # frames'[i].file
  BY <1>2, LiveHandles
<1> QED BY <1>4, <1>5, <1>6

(* The graph begins where it did.                                          *)
LEMMA BottomKept ==
  ASSUME CoreInv, UseInv, NEW pc, Running("load", pc), pc # "headers",
         frames' # << >>, frames'[1].op = "load", frames'[1].h = frames[1].h
  PROVE  Bottom' = Bottom
<1>1. Bottom = frames[1].h /\ Bottom \in Handles
  BY BottomIs
<1>2. frames[1].h # 0
  BY <1>1, CallArray
<1> QED BY <1>1, <1>2 DEF Bottom

(* The list of the module under load grows by what it needs.               *)
LEMMA EntryGraph ==
  ASSUME Unfailing, CoreInv, CoreInv', UseInv, UseInv', GraphInv, disk' = disk,
         NeededIsLoaded \/ DependentReturned
  PROVE  GraphInv'
<1>1. PICK u, d, f, n :
           /\ u = Me.h /\ n = Len(frames) /\ Running("load", "needed") /\ u \in Live /\ u # 0
           /\ d \in Live /\ d # 0 /\ u \in Handles /\ d \in Handles
           /\ loaded[d].file \in ToSet(Needed(loaded[u].file))
           /\ f \in Frame /\ f.op = "load" /\ f.pc = "needed" /\ f.h = u /\ f.file = Me.file
           /\ DOMAIN frames' = 1 .. n /\ frames'[n] = f
           /\ \A i \in 1 .. n : i # n => frames'[i] = frames[i]
           /\ Len(loaded') = Len(loaded)
           /\ \A m \in Handles :
                /\ loaded'[m].deps = IF m = u THEN Append(loaded[u].deps, d) ELSE loaded[m].deps
                /\ loaded'[m].file = loaded[m].file /\ loaded'[m].base = loaded[m].base
           /\ Loading /\ Loading' /\ ret' = NoReturn
           /\ UNCHANGED << loaded_objects, dependency_list, dependency_stack, client, init_order, fini_order >>
  BY EntryEffect
<1>2. /\ n \in Nat \ {0} /\ n \in 1 .. n /\ 1 \in 1 .. n /\ DOMAIN frames = 1 .. n /\ Me = frames[n]
      /\ Me.pc = "needed" /\ \A i \in 1 .. n : frames[i].op = "load"
      /\ \A i \in 1 .. n : i # n => frames[i].pc = "needed"
      /\ Handles = 1 .. Len(loaded) /\ Len(loaded) \in Nat /\ NewHandle = Len(loaded) + 1
      /\ Live \subseteq Handles
  BY <1>1, LoadUnderWay
<1>3. Handles' = Handles /\ NewHandle' = NewHandle /\ Live' = Live
  BY <1>1 DEF Handles, NewHandle, Live
<1>4. \A i \in 1 .. n : /\ frames'[i].op = "load" /\ frames[i].op = "load" /\ frames'[i].h = frames[i].h
                        /\ frames'[i].file = frames[i].file
                        /\ frames'[i].pc = "needed" /\ frames[i].pc = "needed"
  <2>1. ASSUME NEW i \in 1 .. n
        PROVE  /\ frames'[i].op = "load" /\ frames[i].op = "load" /\ frames'[i].h = frames[i].h
               /\ frames'[i].file = frames[i].file /\ frames'[i].pc = "needed" /\ frames[i].pc = "needed"
    <3>1. CASE i = n
      BY <1>1, <1>2, <3>1
    <3>2. CASE i # n
      BY <1>1, <1>2, <3>2
    <3> QED BY <3>1, <3>2
  <2> QED BY <2>1
<1>5. CallsNest'
  <2>1. n \in Nat /\ n <= n
    BY <1>2
  <2> QED BY <1>1, <1>2, <1>3, <1>4, <2>1, NestKept DEF GraphInv
<1>6. AnswerIsNeeded'
  BY <1>1 DEF AnswerIsNeeded, NoReturn
<1>7. ListIsCalls'
  <2>1. {i \in DOMAIN frames' : frames'[i].pc = "needed"} = {i \in DOMAIN frames : frames[i].pc = "needed"}
    BY <1>1, <1>2, <1>4
  <2> QED BY <1>1, <1>2, <1>4, <2>1 DEF GraphInv, ListIsCalls, SoName
<1>8. /\ loaded[u].deps \in Seq(Nat) /\ Len(loaded[u].deps) \in Nat
      /\ Len(Append(loaded[u].deps, d)) = Len(loaded[u].deps) + 1
      /\ \A i \in 1 .. Len(loaded[u].deps) : Append(loaded[u].deps, d)[i] = loaded[u].deps[i]
      /\ Append(loaded[u].deps, d)[Len(loaded[u].deps) + 1] = d
  <2>1. loaded[u].deps \in Seq(Nat) /\ Len(loaded[u].deps) \in Nat /\ d \in Nat
    BY <1>1, <1>2, ModuleRecord
  <2> QED BY <2>1, AppendProperties
<1>9. \A i \in 1 .. Len(loaded[u].deps) + 1 : i = Len(loaded[u].deps) + 1 \/ i \in 1 .. Len(loaded[u].deps)
  BY <1>8
<1>10. ASSUME NEW m \in Handles, NEW i \in 1 .. Len(loaded'[m].deps)
       PROVE  \/ i \in 1 .. Len(loaded[m].deps) /\ loaded'[m].deps[i] = loaded[m].deps[i]
              \/ m = u /\ loaded'[m].deps[i] = d
  BY <1>1, <1>8, <1>9, <1>10
<1>11. DependsOnNeeded'
  <2>1. ASSUME NEW m \in Handles, NEW i \in 1 .. Len(loaded'[m].deps)
        PROVE  /\ loaded'[m].deps[i] # 0
               /\ loaded'[loaded'[m].deps[i]].file \in ToSet(Needed(loaded'[m].file))
    <3>1. CASE i \in 1 .. Len(loaded[m].deps) /\ loaded'[m].deps[i] = loaded[m].deps[i]
      <4>1. loaded[m].deps[i] # 0 /\ loaded[loaded[m].deps[i]].file \in ToSet(Needed(loaded[m].file))
        BY <3>1 DEF GraphInv, DependsOnNeeded
      <4>2. loaded[m].deps[i] \in Handles
        BY <1>2, <3>1, <4>1, ModuleRecord
      <4> QED BY <1>1, <3>1, <4>1, <4>2
    <3>2. CASE m = u /\ loaded'[m].deps[i] = d
      BY <1>1, <3>2
    <3> QED BY <1>10, <2>1, <3>1, <3>2
  <2> QED BY <1>3, <2>1 DEF DependsOnNeeded, Needed
<1>12. Bottom' = Bottom /\ frames' # << >> /\ frames # << >>
  BY <1>1, <1>2, <1>4, BottomKept, LoadUnderWay
<1>13. StackOrder'
  <2>1. \A m \in Live : Initialized(m)' <=> Initialized(m)
    BY <1>1, <1>2 DEF Initialized
  <2>2. frames'[1].pc = frames[1].pc /\ frames'[1].h = frames[1].h
    BY <1>2, <1>4
  <2> QED BY <1>1, <1>3, <1>12, <2>1, <2>2 DEF GraphInv, StackOrder
<1>14. GraphApart'
  <2>1. \A i \in DOMAIN frames' : frames'[i].op = "load" /\ frames'[i].h # 0 => frames'[i].h >= Bottom
    BY <1>1, <1>2, <1>4 DEF GraphInv, GraphApart
  <2>2. u >= Bottom /\ Bottom \in Nat
    BY <1>1, <1>2, BottomIs DEF GraphInv, GraphApart
  <2>3. ASSUME NEW m \in Handles, m < Bottom, NEW i \in 1 .. Len(loaded'[m].deps)
        PROVE  loaded'[m].deps[i] < Bottom
    <3>1. m # u
      <4>1. m \in Nat /\ u \in Nat
        BY <1>1, <1>2
      <4> QED BY <2>2, <2>3, <4>1
    <3>2. i \in 1 .. Len(loaded[m].deps) /\ loaded'[m].deps[i] = loaded[m].deps[i]
      BY <1>10, <2>3, <3>1
    <3> QED BY <2>3, <3>2 DEF GraphInv, GraphApart
  <2>4. \A m \in client' : m < Bottom
    BY <1>1 DEF GraphInv, GraphApart
  <2> QED BY <1>3, <1>12, <2>1, <2>3, <2>4 DEF GraphApart
<1>15. GraphSmall'
  <2>1. Bottom <= HandleBound
    BY <1>2, <1>12 DEF GraphInv, GraphSmall
  <2> QED BY <1>1, <1>3, <1>12, <2>1 DEF GraphInv, GraphSmall
<1> QED BY <1>5, <1>6, <1>7, <1>11, <1>13, <1>14, <1>15 DEF GraphInv

(* The list of so_names is as long as the list of the calls that are not    *)
(* done with theirs.                                                       *)
LEMMA ListWithoutTop ==
  ASSUME CoreInv, UseInv, GraphInv, disk' = disk, Running("load", "needed"),
         dependency_list' = Front(dependency_list),
         \A i \in DOMAIN frames' : frames'[i].pc = "needed" <=> i # Len(frames),
         DOMAIN frames' \subseteq 1 .. Len(frames), 1 .. Len(frames) - 1 \subseteq DOMAIN frames',
         \A i \in 1 .. Len(frames) - 1 : frames'[i] = frames[i]
  PROVE  ListIsCalls'
<1>1. PICK n : n = Len(frames)
  OBVIOUS
<1>2. /\ n \in Nat \ {0} /\ n \in 1 .. n /\ DOMAIN frames = 1 .. n /\ Me = frames[n] /\ Me.pc = "needed"
      /\ \A i \in 1 .. n : i # n => frames[i].pc = "needed"
  BY <1>1, LoadUnderWay
<1>3. {i \in DOMAIN frames : frames[i].pc = "needed"} = 1 .. n
  BY <1>2
<1>4. /\ dependency_list \in Seq(Name) /\ Len(dependency_list) \in Nat
      /\ DOMAIN dependency_list = 1 .. Len(dependency_list)
  BY LenProperties DEF CoreInv, NamesOK
<1>5. Len(dependency_list) = n
  <2>1. 1 .. Len(dependency_list) = 1 .. n
    BY <1>3, <1>4 DEF GraphInv, ListIsCalls
  <2> QED BY <1>2, <1>4, <2>1
<1>6. /\ dependency_list' \in Seq(Name) /\ Len(dependency_list') = n - 1
      /\ \A i \in 1 .. n - 1 : dependency_list'[i] = dependency_list[i]
  <2>1. dependency_list # << >>
    BY <1>2, <1>5, EmptySeq
  <2> QED BY <1>4, <1>5, <2>1, FrontEntries
<1>7. DOMAIN dependency_list' = 1 .. n - 1
  BY <1>6, LenProperties
<1>8. \A i \in 1 .. n : i \in 1 .. n - 1 <=> i # n
  <2>1. n \in Nat
    BY <1>2
  <2> QED BY <2>1
<1>9. {i \in DOMAIN frames' : frames'[i].pc = "needed"} = 1 .. n - 1
  BY <1>1, <1>8
<1>10. ASSUME NEW i \in 1 .. n - 1 PROVE dependency_list'[i] = SoName(frames'[i].file)
  <2>1. i \in 1 .. n
    BY <1>2
  <2>2. dependency_list[i] = SoName(frames[i].file)
    BY <1>4, <1>5, <2>1 DEF GraphInv, ListIsCalls
  <2> QED BY <1>1, <1>6, <2>2
<1> QED BY <1>7, <1>9, <1>10 DEF ListIsCalls, SoName

(* A load has brought everything it needs into memory: it relocates the    *)
(* graph if it is the one at the bottom, and returns to its user if not.   *)
LEMMA NeededDoneGraph ==
  ASSUME Unfailing, CoreInv, CoreInv', UseInv, GraphInv, disk' = disk, NeededDone
  PROVE  GraphInv'
<1>1. PICK n : n = Len(frames)
  OBVIOUS
<1>2. /\ Running("load", "needed") /\ ret = NoReturn /\ dependency_list' = Front(dependency_list)
      /\ UNCHANGED << loaded, loaded_objects, dependency_stack, client, init_order >>
  BY DEF NeededDone, LeaveList
<1>3. /\ frames # << >> /\ n \in Nat \ {0} /\ n \in 1 .. n /\ 1 \in 1 .. n /\ DOMAIN frames = 1 .. n
      /\ Me = frames[n] /\ Me \in Frame /\ Me.op = "load" /\ Me.pc = "needed" /\ Me.h \in Handles /\ Me.h # 0
      /\ \A i \in 1 .. n : frames[i].op = "load"
      /\ \A i \in 1 .. n : i # n => frames[i].pc = "needed"
  BY <1>1, <1>2, LoadUnderWay
<1>4. frames[1].pc = "needed" /\ dependency_stack # << >> /\ dependency_stack[1] = frames[1].h
  BY <1>3 DEF GraphInv, StackOrder
<1>5. AtStackBottom(Me.h) <=> n = 1
  <2>1. Head(dependency_stack) = dependency_stack[1]
    BY <1>4, TailEntries DEF CoreInv, OrdersOK
  <2>2. AtStackBottom(Me.h) <=> frames[1].h = frames[n].h
    BY <1>3, <1>4, <2>1 DEF AtStackBottom
  <2>3. frames[1].h = frames[n].h <=> n = 1
    BY <1>3 DEF UseInv, ControlInv, CallsOK
  <2> QED BY <2>2, <2>3
<1>6. \A i \in 1 .. n - 1 : i \in 1 .. n /\ i # n
  <2>1. n \in Nat
    BY <1>3
  <2> QED BY <2>1
<1>7. PICK k \in Nat :
        /\ k <= n /\ DOMAIN frames' = 1 .. k
        /\ \A i \in 1 .. n - 1 : i \in 1 .. k /\ frames'[i] = frames[i]
        /\ \A i \in 1 .. k : /\ frames'[i].op = "load" /\ frames'[i].h = frames[i].h
                             /\ frames'[i].file = frames[i].file /\ (frames'[i].pc = "relocate" => i = 1)
                             /\ frames'[i].pc = "needed" <=> i # n
        /\ frames' # << >> /\ 1 \in 1 .. k
        /\ \/ n = 1 /\ ret' = NoReturn
           \/ n # 1 /\ k = n - 1 /\ ret' = [of |-> "load", val |-> Me.h]
  <2>1. CASE n = 1
    <3> DEFINE f == [Me EXCEPT !.pc = "relocate"]
    <3>1. /\ f \in Frame /\ f.op = "load" /\ f.h = Me.h /\ f.file = Me.file /\ f.pc = "relocate"
      BY <1>3 DEF Frame
    <3>2. frames' = Append(Front(frames), f) /\ ret' = NoReturn
      BY <1>2, <1>5, <2>1 DEF NeededDone
    <3> HIDE DEF f
    <3>3. Replaced(f)
      BY <1>3, <3>1, <3>2, ReplaceFrame
    <3>4. DOMAIN frames' = 1 .. 1 /\ frames'[1] = f /\ frames[1] = Me /\ 1 .. 0 = {} /\ 1 \in 1 .. 1
      <4>1. Len(frames) = 1 /\ frames[1] = Me
        BY <1>1, <1>3, <2>1
      <4>2. 1 \in 1 .. 1 /\ 1 .. 0 = {}
        OBVIOUS
      <4> QED BY <3>3, <4>1, <4>2 DEF Replaced
    <3>5. frames' # << >>
      BY <3>4
    <3> HIDE <3>3
    <3>6. \A i \in 1 .. 1 : i = 1
      OBVIOUS
    <3>7. 1 \in Nat /\ 1 <= n /\ n - 1 = 0
      BY <2>1
    <3> QED BY <2>1, <3>1, <3>2, <3>4, <3>5, <3>6, <3>7
  <2>2. CASE n # 1
    <3>1. Return("load", Me.h)
      BY <1>5, <2>2 DEF NeededDone
    <3>2. Popped
      BY <1>3, <3>1, PopFrames DEF Return
    <3>3. /\ DOMAIN frames' = 1 .. n - 1 /\ \A i \in 1 .. n - 1 : frames'[i] = frames[i]
      BY <1>1, <3>2 DEF Popped
    <3>4. 1 \in 1 .. n - 1 /\ n - 1 \in Nat /\ n - 1 <= n
      BY <1>3, <2>2
    <3>5. frames' # << >>
      BY <3>3, <3>4
    <3>6. \A i \in 1 .. n - 1 : frames[i].op = "load" /\ frames[i].pc = "needed"
      BY <1>3, <1>6
    <3>7. ret' = [of |-> "load", val |-> Me.h]
      BY <3>1 DEF Return
    <3> QED BY <1>6, <2>2, <3>3, <3>4, <3>5, <3>6, <3>7
  <2> QED BY <2>1, <2>2
<1>8. Handles' = Handles /\ NewHandle' = NewHandle /\ Live' = Live
  BY <1>2 DEF Handles, NewHandle, Live
<1>9. CallsNest'
  <2>1. n \in Nat /\ \A i \in 1 .. k : i \in 1 .. n
    <3>1. n \in Nat
      BY <1>3
    <3> QED BY <1>7, <3>1
  <2> QED BY <1>2, <1>3, <1>7, <1>8, <2>1, NestKept DEF GraphInv
<1>10. AnswerIsNeeded'
  <2>1. CASE ret' = NoReturn
    BY <2>1 DEF AnswerIsNeeded, NoReturn
  <2>2. CASE n # 1 /\ k = n - 1 /\ ret' = [of |-> "load", val |-> Me.h]
    <3>1. n > 1 /\ n - 1 \in 1 .. n - 1
      <4>1. n \in Nat \ {0}
        BY <1>3
      <4> QED BY <2>2, <4>1
    <3>2. frames[n].file \in ToSet(Needed(frames[n - 1].file)) /\ loaded[Me.h].file = frames[n].file
      BY <1>3, <3>1 DEF GraphInv, CallsNest
    <3>3. Me' = frames[n - 1]
      <4>1. Me' = frames'[Len(frames')] /\ Len(frames') \in Nat
        BY <1>7, FrontEntries DEF CoreInv, FramesOK, Me
      <4>2. DOMAIN frames' = 1 .. Len(frames')
        BY LenProperties DEF CoreInv, FramesOK
      <4>3. Len(frames') = n - 1
        <5>1. n - 1 \in Nat /\ 1 .. Len(frames') = 1 .. n - 1
          BY <1>3, <1>7, <2>2, <4>2
        <5> QED BY <4>1, <5>1
      <4> QED BY <1>7, <3>1, <4>1, <4>3
    <3> QED BY <1>2, <1>3, <2>2, <3>2, <3>3 DEF AnswerIsNeeded, Needed
  <2> QED BY <1>7, <2>1, <2>2
<1>11. ListIsCalls'
  <2>1. \A i \in 1 .. k : i \in 1 .. n
    <3>1. n \in Nat
      BY <1>3
    <3> QED BY <1>7, <3>1
  <2> QED BY <1>1, <1>2, <1>7, <2>1, ListWithoutTop
<1>12. DependsOnNeeded'
  BY <1>2, <1>8, DependsKept DEF GraphInv, FilesKept
<1>13. Bottom' = Bottom
  BY <1>2, <1>7, BottomKept
<1>14. StackOrder'
  <2>1. \A m \in Live : Initialized(m)' <=> Initialized(m)
    BY <1>2 DEF Initialized
  <2> QED BY <1>2, <1>4, <1>7, <1>8, <1>13, <2>1 DEF GraphInv, StackOrder
<1>15. GraphApart'
  <2>1. \A i \in 1 .. k : i \in 1 .. n
    <3>1. n \in Nat
      BY <1>3
    <3> QED BY <1>7, <3>1
  <2>2. \A i \in DOMAIN frames' : frames'[i].h # 0 => frames'[i].h >= Bottom
    BY <1>3, <1>7, <2>1 DEF GraphInv, GraphApart
  <2> QED BY <1>2, <1>8, <1>13, <2>2 DEF GraphInv, GraphApart
<1>16. GraphSmall'
  BY <1>2, <1>3, <1>8, <1>13 DEF GraphInv, GraphSmall
<1> QED BY <1>9, <1>10, <1>11, <1>12, <1>14, <1>15, <1>16 DEF GraphInv

(* The call that relocates is the one at the bottom, and alone.            *)
LEMMA RelocatesAlone ==
  ASSUME CoreInv, UseInv, GraphInv, Running("load", "relocate")
  PROVE  /\ Len(frames) = 1 /\ DOMAIN frames = {1} /\ Me = frames[1] /\ Me.op = "load" /\ Me.pc = "relocate"
         /\ frames # << >> /\ Me.h # 0 /\ Me.h \in Live /\ Me.h \in Handles
         /\ Bottom = Me.h /\ ret = NoReturn
<1>1. /\ frames # << >> /\ Len(frames) \in Nat \ {0} /\ DOMAIN frames = 1 .. Len(frames)
      /\ Len(frames) \in 1 .. Len(frames) /\ Me = frames[Len(frames)] /\ Me.op = "load" /\ Me.pc = "relocate"
      /\ Me.h # 0 /\ Me.h \in Live /\ Me.h \in Handles
  BY LoadUnderWay
<1>2. Len(frames) = 1
  BY <1>1 DEF GraphInv, CallsNest
<1>3. Bottom = frames[1].h
  BY BottomIs
<1>4. ret = NoReturn
  BY <1>1 DEF UseInv, ControlInv, ReturnOK
<1>5. 1 .. 1 = {1}
  OBVIOUS
<1> QED BY <1>1, <1>2, <1>3, <1>4, <1>5

(* The module on top of the stack runs its initialisers.                   *)
LEMMA RelocateGraph ==
  ASSUME Unfailing, CoreInv, CoreInv', UseInv, GraphInv, disk' = disk, Relocate
  PROVE  GraphInv'
<1>1. /\ Running("load", "relocate") /\ dependency_stack # << >>
      /\ init_order' = Append(init_order, dependency_stack[PopAt])
      /\ dependency_stack' = RemoveAt(dependency_stack, PopAt)
      /\ UNCHANGED << loaded, loaded_objects, dependency_list, frames, ret, client >>
  BY DEF Relocate
<1>2. /\ DOMAIN frames = {1} /\ Me = frames[1] /\ Me.pc = "relocate" /\ frames # << >>
      /\ Bottom = Me.h /\ ret = NoReturn /\ Me.h \in Handles /\ Me.h # 0
  BY <1>1, RelocatesAlone
<1>3. /\ Handles' = Handles /\ NewHandle' = NewHandle /\ Live' = Live /\ Bottom' = Bottom
  BY <1>1 DEF Handles, NewHandle, Live, Bottom
<1>4. CallsNest' /\ AnswerIsNeeded' /\ ListIsCalls'
  BY <1>1, <1>3 DEF GraphInv, CallsNest, AnswerIsNeeded, ListIsCalls, Needed, SoName, Me
<1>5. DependsOnNeeded'
  BY <1>1, <1>3, DependsKept DEF GraphInv, FilesKept
<1>6. GraphApart' /\ GraphSmall'
  BY <1>1, <1>3 DEF GraphInv, GraphApart, GraphSmall
<1>7. StackOrder'
  <2> DEFINE p == Len(dependency_stack)
  <2>1. /\ dependency_stack \in Seq(Handles) /\ p \in Nat \ {0} /\ DOMAIN dependency_stack = 1 .. p
        /\ p \in 1 .. p /\ PopAt = p
    <3>1. dependency_stack \in Seq(Handles) /\ p \in Nat
      BY LenProperties DEF CoreInv, OrdersOK, Handles
    <3>2. p # 0 /\ DOMAIN dependency_stack = 1 .. p
      BY <1>1, <3>1, EmptySeq, LenProperties
    <3> QED BY <3>1, <3>2 DEF PopAt
  <2>2. /\ dependency_stack' \in Seq(Handles) /\ Len(dependency_stack') = p - 1
        /\ \A a \in 1 .. p - 1 : a \in 1 .. p /\ dependency_stack'[a] = dependency_stack[a]
    <3>1. /\ RemoveAt(dependency_stack, p) \in Seq(Handles)
          /\ Len(RemoveAt(dependency_stack, p)) = p - 1
          /\ \A a \in 1 .. p - 1 : RemoveAt(dependency_stack, p)[a] = dependency_stack[Earlier(a, p)]
      BY <2>1, RemoveAtEntries
    <3>2. \A a \in 1 .. p - 1 : Earlier(a, p) = a /\ a \in 1 .. p
      BY <2>1 DEF Earlier
    <3> QED BY <1>1, <2>1, <3>1, <3>2
  <2>3. DOMAIN dependency_stack' = 1 .. p - 1
    BY <2>2, LenProperties
  <2>4. \A i \in DOMAIN dependency_stack' : dependency_stack'[i] >= Bottom
    BY <2>1, <2>2, <2>3 DEF GraphInv, StackOrder
  <2>5. ASSUME NEW m \in Live PROVE Initialized(m)' \/ Contains(dependency_stack, m)'
    <3>1. init_order' = Append(init_order, dependency_stack[p]) /\ init_order \in Seq(Handles)
          /\ dependency_stack[p] \in Handles
      BY <1>1, <2>1, ElementOfSeq DEF CoreInv, OrdersOK, Handles
    <3>2. \A x : Contains(init_order', x) <=> Contains(init_order, x) \/ x = dependency_stack[p]
      BY <3>1, AppendContains
    <3>3. CASE Initialized(m)
      BY <1>1, <3>2, <3>3 DEF Initialized
    <3>4. CASE Contains(dependency_stack, m)
      <4>1. PICK i \in 1 .. p : dependency_stack[i] = m
        BY <2>1, <3>4 DEF Contains
      <4>2. CASE i = p
        BY <3>2, <4>1, <4>2 DEF Initialized
      <4>3. CASE i # p
        <5>1. i \in 1 .. p - 1
          <6>1. p \in Nat /\ i \in 1 .. p
            BY <2>1
          <6> QED BY <4>3, <6>1
        <5> QED BY <2>2, <2>3, <4>1, <5>1 DEF Contains
      <4> QED BY <4>2, <4>3
    <3> QED BY <3>3, <3>4 DEF GraphInv, StackOrder
  <2>6. Bottom # NewHandle
    BY <1>2, CallArray DEF NewHandle
  <2> QED BY <1>1, <1>2, <1>3, <2>4, <2>5, <2>6 DEF StackOrder
<1> QED BY <1>4, <1>5, <1>6, <1>7 DEF GraphInv

(* The graph is ready and the load returns.                                *)
LEMMA RelocateDoneGraph ==
  ASSUME Unfailing, CoreInv, CoreInv', UseInv, GraphInv, disk' = disk, RelocateDone
  PROVE  GraphInv'
<1>1. /\ Running("load", "relocate") /\ dependency_stack = << >> /\ Return("load", Me.h)
      /\ UNCHANGED << loaded, loaded_objects, dependency_list, dependency_stack, client, init_order >>
  BY DEF RelocateDone
<1>2. /\ DOMAIN frames = {1} /\ Len(frames) = 1 /\ Me = frames[1] /\ Me.pc = "relocate" /\ frames # << >>
      /\ Me.h # 0 /\ Me.h \in Handles
  BY <1>1, RelocatesAlone
<1>3. frames' = << >> /\ DOMAIN frames' = {} /\ ret' = [of |-> "load", val |-> Me.h]
  <2>1. Popped
    BY <1>1, <1>2, PopFrames DEF Return
  <2>2. Len(frames') = 0 /\ DOMAIN frames' = 1 .. 0
    BY <1>2, <2>1 DEF Popped
  <2>3. frames' \in Seq(Frame)
    BY DEF CoreInv, FramesOK
  <2> QED BY <1>1, <2>2, <2>3, EmptySeq DEF Return
<1>4. /\ Handles' = Handles /\ NewHandle' = NewHandle /\ Live' = Live /\ Bottom' = NewHandle
      /\ Handles = 1 .. Len(loaded) /\ Len(loaded) \in Nat /\ NewHandle = Len(loaded) + 1
  BY <1>1, <1>3, CallArray DEF Handles, NewHandle, Live, Bottom
<1>5. CallsNest' /\ AnswerIsNeeded'
  BY <1>2, <1>3 DEF CallsNest, AnswerIsNeeded
<1>6. ListIsCalls'
  <2>1. DOMAIN dependency_list = {}
    BY <1>2 DEF GraphInv, ListIsCalls
  <2> QED BY <1>1, <1>3, <2>1 DEF ListIsCalls
<1>7. DependsOnNeeded'
  BY <1>1, <1>4, DependsKept DEF GraphInv, FilesKept
<1>8. StackOrder'
  <2>1. DOMAIN dependency_stack' = {} /\ dependency_stack' = << >>
    BY <1>1
  <2> QED BY <1>1, <1>3, <1>4, <2>1 DEF GraphInv, StackOrder, Initialized
<1>9. GraphApart'
  <2>1. client' \subseteq Handles
    BY <1>1, <1>4 DEF CoreInv, OrdersOK
  <2>2. ASSUME NEW m \in Handles, NEW i \in 1 .. Len(loaded[m].deps) PROVE loaded[m].deps[i] < NewHandle
    BY <1>4, ModuleRecord
  <2>3. \A m \in Handles : m < NewHandle
    BY <1>4
  <2> QED BY <1>1, <1>3, <1>4, <2>1, <2>2, <2>3 DEF GraphApart
<1>10. GraphSmall'
  <2>1. \A m \in Handles : ~(m >= NewHandle)
    BY <1>4
  <2> QED BY <1>3, <1>4, <2>1 DEF GraphSmall
<1> QED BY <1>5, <1>6, <1>7, <1>8, <1>9, <1>10 DEF GraphInv

(* The symbols of a base image, which runs already.                        *)
LEMMA LoadSymbolsGraph ==
  ASSUME Unfailing, CoreInv, CoreInv', UseInv, UseInv', GraphInv, disk' = disk,
         NEW file \in File, LoadSymbols(file)
  PROVE  GraphInv'
<1>1. /\ frames = << >> /\ frames' = << >> /\ ret = NoReturn /\ ret' = NoReturn
      /\ DOMAIN frames = {} /\ DOMAIN frames' = {} /\ Unloading /\ Unloading' /\ Loading /\ Loading'
      /\ UNCHANGED << dependency_list, dependency_stack, init_order >>
  BY DEF LoadSymbols, Idle, Unloading, Loading
<1>2. CASE InProcessOfLoading(file)
  <2>1. UNCHANGED << loaded, loaded_objects >> /\ Live' = Live
    BY <1>2 DEF LoadSymbols, Live
  <2>2. ret'.of # "load"
    BY <1>1 DEF NoReturn
  <2> QED BY <1>1, <2>1, <2>2, GraphKept DEF UseInv, ControlInv
<1>3. CASE ~InProcessOfLoading(file)
  <2>1. PICK k : k = NewHandle
    OBVIOUS
  <2>2. Enqueue(file, TRUE) /\ client' = client \cup {k}
    BY <1>3, <2>1 DEF LoadSymbols
  <2>3. /\ Live' = Live \cup {k} /\ k \notin Handles /\ Handles' = Handles \cup {k}
        /\ \A m \in Handles : loaded'[m] = loaded[m]
        /\ loaded'[k] = NewModule(file, TRUE)
    BY <1>1, <2>1, <2>2, ModuleAdded DEF UseInv, ControlInv
  <2>4. loaded'[k].base = TRUE /\ Len(loaded'[k].deps) = 0
    BY <2>3, EmptySeq DEF NewModule
  <2>5. GraphIsNext'
    <3>1. CoreInv' /\ Unloading' => GraphIsNext'
      BY NoGraph, PTL
    <3> QED BY <1>1, <3>1
  <2>6. \A m \in Handles' : /\ m < Bottom' /\ ~(m >= Bottom')
                            /\ \A i \in 1 .. Len(loaded'[m].deps) : loaded'[m].deps[i] < Bottom'
    <3>1. CoreInv' => HandlesBounded'
      BY BoundedHandles, PTL
    <3> QED BY <2>5, <3>1 DEF HandlesBounded, GraphIsNext
  <2>7. CallsNest' /\ AnswerIsNeeded'
    BY <1>1 DEF CallsNest, AnswerIsNeeded, NoReturn
  <2>8. ListIsCalls'
    <3>1. DOMAIN dependency_list = {}
      BY <1>1 DEF GraphInv, ListIsCalls
    <3> QED BY <1>1, <3>1 DEF ListIsCalls
  <2>9. DependsOnNeeded'
    BY <2>3, <2>4, DependsKept DEF GraphInv, FilesKept
  <2>10. StackOrder'
    <3>1. GraphIsNext
      BY <1>1, NoGraph
    <3>2. dependency_stack' = << >> /\ DOMAIN dependency_stack' = {}
      BY <1>1, <3>1 DEF GraphInv, StackOrder, GraphIsNext
    <3>3. \A m \in Live' : Initialized(m)' \/ Contains(dependency_stack, m)'
      BY <1>1, <2>3, <2>4, LiveHandles DEF GraphInv, StackOrder, Initialized
    <3> QED BY <1>1, <3>2, <3>3 DEF StackOrder
  <2>11. GraphApart' /\ GraphSmall'
    <3>1. client' \subseteq Handles'
      BY DEF CoreInv, OrdersOK, Handles
    <3> QED BY <1>1, <2>6, <3>1 DEF GraphApart, GraphSmall
  <2> QED BY <2>7, <2>8, <2>9, <2>10, <2>11 DEF GraphInv
<1> QED BY <1>2, <1>3

-----------------------------------------------------------------------------
(* The invariant of the graph.                                             *)

(* The client gives up a handle.                                           *)
LEMMA TopUnloadGraph ==
  ASSUME CoreInv, CoreInv', UseInv, UseInv', GraphInv, disk' = disk, NEW h \in client, TopUnload(h)
  PROVE  GraphInv'
<1>1. /\ h \in Live /\ Unloading /\ Unloading' /\ ret'.of # "load"
      /\ loaded' = [loaded EXCEPT ![h].use_count = @ - 1] /\ Live' = Live
  BY HandleGivenUp DEF OneUseGone, Live
<1>2. UNCHANGED << dependency_list, dependency_stack, init_order >>
  BY DEF TopUnload
<1> QED BY <1>1, <1>2, LiveHandles, CountDropped, GraphKept DEF UseInv, ControlInv

(* A module gives up an entry of its list.                                 *)
LEMMA UnloadDependentGraph ==
  ASSUME CoreInv, CoreInv', UseInv, UseInv', GraphInv, disk' = disk, UnloadDependent
  PROVE  GraphInv'
<1>1. UNCHANGED << dependency_list, dependency_stack, init_order >>
  BY DEF UnloadDependent
<1>2. PICK u, x, h : u = Me.h /\ x = Me.next /\ h = loaded[u].deps[x]
  OBVIOUS
<1>3. CASE h \in Live
  <2>1. Unloading /\ Unloading' /\ ret'.of # "load" /\ OneUseGone(h)
    BY <1>2, <1>3, DependentGivenUp
  <2>2. loaded' = [loaded EXCEPT ![h].use_count = @ - 1] /\ Live' = Live
    BY <2>1 DEF OneUseGone, Live
  <2> QED BY <1>1, <1>3, <2>1, <2>2, LiveHandles, CountDropped, GraphKept DEF UseInv, ControlInv
<1>4. CASE h \notin Live
  <2>1. loaded[Me.h].deps[Me.next] \notin Live
    BY <1>2, <1>4
  <2>2. Unloading /\ Unloading' /\ ret'.of # "load" /\ UNCHANGED loaded /\ Live' = Live
    BY <2>1, NothingGivenUp DEF Live
  <2> QED BY <1>1, <2>2, GraphKept DEF UseInv, ControlInv
<1> QED BY <1>3, <1>4

(* The client's part of an unload, and the end of one.                     *)
LEMMA UnloadedGraph ==
  ASSUME CoreInv, CoreInv', UseInv, UseInv', GraphInv, disk' = disk,
         DependentUnloaded \/ UnloadDone \/ AbortOnDoubleFree \/ TopReturned
  PROVE  GraphInv'
<1>1. UNCHANGED << loaded, dependency_list, dependency_stack, init_order >>
  BY DEF DependentUnloaded, UnloadDone, AbortOnDoubleFree, TopReturned
<1>2. Unloading /\ Unloading' /\ ret'.of # "load" /\ Live' \subseteq Live
  <2>1. CASE DependentUnloaded
    <3>1. Unloading
      BY <2>1, RunningTop DEF DependentUnloaded, UseInv, ControlInv
    <3> QED BY <2>1, <3>1 DEF DependentUnloaded, Unloading, NoReturn, Live
  <2>2. CASE UnloadDone \/ AbortOnDoubleFree
    <3>1. PICK u : u = Me.h
      OBVIOUS
    <3>2. Unloading' /\ Live' = Live \ {u}
      BY <2>2, <3>1, ModuleFreed
    <3>3. Unloading /\ ret'.of # "load"
      BY <2>2, RunningTop DEF UnloadDone, AbortOnDoubleFree, Return, UseInv, ControlInv
    <3> QED BY <3>2, <3>3
  <2>3. CASE TopReturned
    BY <2>3 DEF TopReturned, Idle, Unloading, NoReturn, Live
  <2> QED BY <2>1, <2>2, <2>3
<1> QED BY <1>1, <1>2, GraphKept DEF UseInv, ControlInv

(* Nothing is loaded at the start.                                         *)
LEMMA GraphInit == Init => GraphInv
<1> SUFFICES ASSUME Init PROVE GraphInv
  OBVIOUS
<1>1. /\ frames = << >> /\ DOMAIN frames = {} /\ ret = NoReturn /\ client = {} /\ loaded = << >>
      /\ dependency_list = << >> /\ DOMAIN dependency_list = {}
      /\ dependency_stack = << >> /\ DOMAIN dependency_stack = {} /\ Live = {}
  BY DEF Init, Live, ToSet
<1>2. Handles = {}
  BY <1>1, EmptySeq DEF Handles
<1>3. CallsNest /\ AnswerIsNeeded /\ ListIsCalls /\ DependsOnNeeded
  BY <1>1, <1>2 DEF CallsNest, AnswerIsNeeded, ListIsCalls, DependsOnNeeded, NoReturn
<1>4. StackOrder /\ GraphApart /\ GraphSmall
  BY <1>1, <1>2 DEF StackOrder, GraphApart, GraphSmall
<1> QED BY <1>3, <1>4 DEF GraphInv

(* Every step keeps the invariant.                                         *)
LEMMA GraphNext ==
  ASSUME Unfailing
  PROVE  CoreInv /\ CoreInv' /\ UseInv /\ UseInv' /\ GraphInv /\ [Next]_vars => GraphInv'
<1> SUFFICES ASSUME CoreInv, CoreInv', UseInv, UseInv', GraphInv, [Next]_vars PROVE GraphInv'
  OBVIOUS
<1>1. CASE UNCHANGED vars
  <2>1. /\ UNCHANGED << disk, loaded, loaded_objects, dependency_list, dependency_stack, frames, ret,
                        client, init_order >>
        /\ Handles' = Handles /\ NewHandle' = NewHandle /\ Live' = Live /\ Bottom' = Bottom
    BY <1>1 DEF vars, Handles, NewHandle, Live, Bottom
  <2>2. CallsNest' /\ AnswerIsNeeded' /\ ListIsCalls' /\ DependsOnNeeded'
    BY <2>1 DEF GraphInv, CallsNest, AnswerIsNeeded, ListIsCalls, DependsOnNeeded, Needed, SoName, Me
  <2>3. StackOrder' /\ GraphApart' /\ GraphSmall'
    BY <2>1 DEF GraphInv, StackOrder, GraphApart, GraphSmall, Initialized
  <2> QED BY <2>2, <2>3 DEF GraphInv
<1>2. ASSUME LoadStep, disk' = disk PROVE GraphInv'
  <2>1. ~RejectFile /\ ~FailAllocation /\ ~DependentNotFound
    BY DEF Unfailing, RejectFile, FailAllocation, DependentNotFound
  <2>2. ~RejectCircular
    BY NeverCircular DEF RejectCircular
  <2>3. CASE PlaceModule
    BY <1>2, <2>3, PlacedGraph
  <2>4. CASE NeededIsLoaded \/ DependentReturned
    BY <1>2, <2>4, EntryGraph
  <2>5. CASE LoadDependent
    <3>1. Needed(Me.file)[Me.next] \in File
      BY <2>5, NeededFile DEF LoadDependent
    <3> QED BY <1>2, <2>5, <3>1, LoadCalledGraph
  <2>6. CASE NeededDone \/ Relocate \/ RelocateDone
    BY <1>2, <2>6, NeededDoneGraph, RelocateGraph, RelocateDoneGraph
  <2> QED BY <1>2, <2>1, <2>2, <2>3, <2>4, <2>5, <2>6 DEF LoadStep
<1>3. ASSUME UnloadStep, disk' = disk PROVE GraphInv'
  BY <1>3, UnloadDependentGraph, UnloadedGraph DEF UnloadStep
<1>4. ASSUME TopReturned, disk' = disk PROVE GraphInv'
  BY <1>4, UnloadedGraph
<1>5. ASSUME NEW f \in File, TopLoad(f), disk' = disk PROVE GraphInv'
  BY <1>5, LoadCalledGraph
<1>6. ASSUME NEW f \in File, LoadSymbols(f), disk' = disk PROVE GraphInv'
  BY <1>6, LoadSymbolsGraph
<1>7. ASSUME NEW h \in client, TopUnload(h), disk' = disk PROVE GraphInv'
  BY <1>7, TopUnloadGraph
<1> QED BY <1>1, <1>2, <1>3, <1>4, <1>5, <1>6, <1>7 DEF Next, LoaderStep, ClientStep

(* The graph, throughout.                                                  *)
LEMMA GraphInvariant ==
  ASSUME Unfailing
  PROVE  Spec => [](CoreInv /\ UseInv /\ GraphInv)
  BY CoreInitInv, CoreNextInv, UseInit, UseNext, GraphInit, GraphNext, PTL DEF Spec

-----------------------------------------------------------------------------
(* What each step does to the uses.                                        *)

(* A step that only passes a handle on: from a call to its answer, from the *)
(* answer to the client, or not at all.                                    *)
PassesOn ==
  /\ UNCHANGED << loaded, loaded_objects, fini_order >>
  /\ \A h \in Handles : Outside(h)' <=> Outside(h)

(* The handle of a call that returns is in the answer.                     *)
LEMMA AnswerPassesOn ==
  ASSUME CoreInv, CoreInv', UseInv, NEW pc, Running("load", pc), pc # "headers", ret = NoReturn,
         Return("load", Me.h), UNCHANGED << loaded, loaded_objects, fini_order, client >>
  PROVE  PassesOn /\ Loading /\ Loading'
<1>1. PICK n : n = Len(frames)
  OBVIOUS
<1>2. /\ frames # << >> /\ n \in Nat \ {0} /\ n \in 1 .. n /\ DOMAIN frames = 1 .. n /\ Me = frames[n]
      /\ \A i \in 1 .. n : frames[i].op = "load"
  BY <1>1, LoadUnderWay
<1>3. frames' = Front(frames) /\ ret' = [of |-> "load", val |-> Me.h]
  BY DEF Return
<1>4. DOMAIN frames' = 1 .. n - 1 /\ \A i \in 1 .. n - 1 : frames'[i] = frames[i]
  BY <1>1, <1>2, <1>3, PopFrames DEF Popped
<1>5. \A i \in 1 .. n : i = n \/ i \in 1 .. n - 1
  BY <1>2
<1>6. \A i \in 1 .. n - 1 : i \in 1 .. n
  BY <1>2
<1>7. \A h \in Handles : Outside(h)' <=> Outside(h)
  <2>1. ASSUME NEW h \in Handles
        PROVE  Outside(h)' <=> h \in client \/ h = Me.h \/ \E i \in 1 .. n - 1 : frames[i].h = h
    BY <1>2, <1>3, <1>4, <1>6 DEF Outside
  <2>2. ASSUME NEW h \in Handles
        PROVE  Outside(h) <=> h \in client \/ h = Me.h \/ \E i \in 1 .. n - 1 : frames[i].h = h
    BY <1>2, <1>5, <1>6 DEF Outside, NoReturn
  <2> QED BY <2>1, <2>2
<1>8. Loading /\ Loading'
  BY <1>2, <1>4, <1>6 DEF Loading
<1> QED BY <1>7, <1>8 DEF PassesOn

(* A load is called, is done with its list, relocates or returns, or the   *)
(* client takes an answer.                                                 *)
LEMMA LoadPassesOn ==
  ASSUME CoreInv, CoreInv', UseInv,
         \/ \E f \in File : TopLoad(f)
         \/ LoadDependent \/ NeededDone \/ Relocate \/ RelocateDone \/ TopReturned
  PROVE  PassesOn /\ Loading /\ Loading'
<1>1. CASE \/ \E f \in File : TopLoad(f)
           \/ LoadDependent
  <2>1. /\ Loading /\ ret = NoReturn /\ ret' = NoReturn
        /\ UNCHANGED << loaded, loaded_objects, fini_order, client >>
    <3>1. CASE LoadDependent
      BY <3>1, RunningTop DEF LoadDependent, PendingNeeded, UseInv, ControlInv
    <3>2. CASE \E f \in File : TopLoad(f)
      BY <3>2 DEF TopLoad, Idle, Loading
    <3> QED BY <1>1, <3>1, <3>2
  <2>2. PICK file \in File : frames' = Append(frames, Call("load", file, 0, "headers"))
    <3>1. ASSUME NEW f \in File, TopLoad(f) PROVE frames' = Append(frames, Call("load", f, 0, "headers"))
      BY <3>1 DEF TopLoad, Idle, Call
    <3>2. CASE LoadDependent
      BY <3>2, NeededFile DEF LoadDependent
    <3> QED BY <1>1, <3>1, <3>2
  <2> DEFINE f == Call("load", file, 0, "headers")
  <2>3. f \in Frame /\ f.op = "load" /\ f.h = 0
    BY DEF Call, Frame
  <2> HIDE DEF f
  <2>4. Pushed(f)
    BY <2>2, <2>3, PushFrame DEF f
  <2>5. /\ DOMAIN frames = 1 .. Len(frames) /\ Len(frames) \in Nat
        /\ \A h \in Handles : h # 0
    BY CallArray
  <2>6. /\ \A i \in 1 .. Len(frames) + 1 : i = Len(frames) + 1 \/ i \in 1 .. Len(frames)
        /\ \A i \in 1 .. Len(frames) : i \in 1 .. Len(frames) + 1 /\ i # Len(frames) + 1
    BY <2>5
  <2>7. /\ DOMAIN frames' = 1 .. Len(frames) + 1
        /\ \A i \in 1 .. Len(frames) : i \in DOMAIN frames' /\ frames'[i] = frames[i]
        /\ \A i \in DOMAIN frames' : i \in 1 .. Len(frames) \/ frames'[i] = f
    BY <2>4, <2>6 DEF Pushed
  <2>8. \A h \in Handles : Outside(h)' <=> Outside(h)
    <3>1. ASSUME NEW h \in Handles, Outside(h) PROVE Outside(h)'
      BY <2>1, <2>5, <2>7, <3>1 DEF Outside
    <3>2. ASSUME NEW h \in Handles, Outside(h)' PROVE Outside(h)
      BY <2>1, <2>3, <2>5, <2>7, <3>2 DEF Outside
    <3> QED BY <3>1, <3>2
  <2>9. Loading'
    BY <2>1, <2>3, <2>5, <2>7 DEF Loading
  <2> QED BY <2>1, <2>8, <2>9 DEF PassesOn
<1>2. CASE NeededDone
  <2>1. /\ Running("load", "needed") /\ ret = NoReturn
        /\ UNCHANGED << loaded, loaded_objects, fini_order, client >>
        /\ \/ Return("load", Me.h)
           \/ frames' = Append(Front(frames), [Me EXCEPT !.pc = "relocate"]) /\ ret' = ret
    BY <1>2 DEF NeededDone
  <2>2. CASE Return("load", Me.h)
    BY <2>1, <2>2, AnswerPassesOn
  <2>3. CASE frames' = Append(Front(frames), [Me EXCEPT !.pc = "relocate"]) /\ ret' = ret
    <3> DEFINE f == [Me EXCEPT !.pc = "relocate"]
    <3>1. PICK n : n = Len(frames)
      OBVIOUS
    <3>2. /\ frames # << >> /\ n \in 1 .. n /\ DOMAIN frames = 1 .. n /\ Me = frames[n] /\ Me \in Frame
          /\ Me.op = "load" /\ \A i \in 1 .. n : frames[i].op = "load"
      BY <2>1, <3>1, LoadUnderWay
    <3>3. f \in Frame /\ f.op = "load" /\ f.h = Me.h
      BY <3>2 DEF Frame
    <3> HIDE DEF f
    <3>4. Replaced(f)
      BY <2>3, <3>2, <3>3, ReplaceFrame DEF f
    <3>5. DOMAIN frames' = 1 .. n /\ \A i \in 1 .. n : frames'[i].op = "load" /\ frames'[i].h = frames[i].h
      BY <3>1, <3>2, <3>3, <3>4 DEF Replaced
    <3> QED BY <2>1, <2>3, <3>2, <3>5 DEF PassesOn, Outside, Loading
  <2> QED BY <2>1, <2>2, <2>3
<1>3. CASE Relocate
  <2>1. /\ UNCHANGED << loaded, loaded_objects, fini_order, frames, ret, client >>
        /\ Running("load", "relocate")
    BY <1>3 DEF Relocate
  <2>2. Loading
    BY <2>1, RunningTop DEF UseInv, ControlInv
  <2> QED BY <2>1, <2>2 DEF PassesOn, Outside, Loading
<1>4. CASE RelocateDone
  <2>1. /\ Running("load", "relocate") /\ Return("load", Me.h)
        /\ UNCHANGED << loaded, loaded_objects, fini_order, client >>
    BY <1>4 DEF RelocateDone
  <2>2. ret = NoReturn
    BY <2>1, RunningTop DEF UseInv, ControlInv, ReturnOK
  <2> QED BY <2>1, <2>2, AnswerPassesOn
<1>5. CASE TopReturned
  <2>1. /\ frames = << >> /\ UNCHANGED << loaded, loaded_objects, fini_order, frames >>
        /\ client' = (IF ret.of = "load" /\ ret.val # 0 THEN client \cup {ret.val} ELSE client)
        /\ ret' = NoReturn /\ ret.of \in {"load", "unload"}
    BY <1>5 DEF TopReturned, Idle
  <2>2. DOMAIN frames = {} /\ \A h \in Handles : h # 0
    BY <2>1, CallArray
  <2>3. ret.of = "load" => ret = [of |-> "load", val |-> ret.val]
    BY DEF CoreInv, Answer
  <2>4. \A h : ret = [of |-> "load", val |-> h] <=> ret.of = "load" /\ ret.val = h
    BY <2>3
  <2>5. \A h \in Handles : Outside(h)' <=> Outside(h)
    BY <2>1, <2>2, <2>4 DEF Outside, NoReturn
  <2> QED BY <2>1, <2>2, <2>5 DEF PassesOn, Loading
<1> QED BY <1>1, <1>2, <1>3, <1>4, <1>5

(* Then the modules have the uses they had.                                *)
LEMMA PassedOn ==
  ASSUME CoreInv, PassesOn, Loading, Loading'
  PROVE  /\ Live' = Live /\ Handles' = Handles
         /\ \A m \in Handles : HeldPositions(m)' = HeldPositions(m)
         /\ \A g : UsesByModules(g)' = UsesByModules(g)
<1>1. Live' = Live /\ Handles' = Handles /\ Live \subseteq Handles /\ UNCHANGED loaded
  BY LiveHandles DEF PassesOn, Live, Handles
<1>2. AllHeld /\ AllHeld'
  <2>1. Loading' => AllHeld'
    BY HeldWhileLoading, PTL
  <2> QED BY <2>1, HeldWhileLoading
<1>3. \A m \in Handles : HeldPositions(m)' = HeldPositions(m)
  BY <1>1, <1>2 DEF AllHeld
<1> QED BY <1>1, <1>3 DEF UsesByModules, UsesBy

(* A module enters memory with one use, by the call that loads it or by the *)
(* client.                                                                 *)
Brings(k) ==
  /\ k = NewHandle /\ k \notin Handles /\ Handles' = Handles \cup {k} /\ Live' = Live \cup {k}
  /\ \A m \in Handles : loaded'[m] = loaded[m]
  /\ loaded'[k].use_count = 1 /\ loaded'[k].deps = << >>
  /\ Outside(k)' /\ \A h \in Handles : Outside(h)' <=> Outside(h)
  /\ HeldPositions(k)' = {} /\ \A m \in Handles : HeldPositions(m)' = HeldPositions(m)
  /\ UsesByModules(k) = {} /\ \A g : UsesByModules(g)' = UsesByModules(g)
  /\ UNCHANGED fini_order

(* A module is placed, or the symbols of a base image are loaded.          *)
LEMMA ModuleBrought ==
  ASSUME Unfailing, CoreInv, CoreInv', UseInv, UseInv', GraphInv, disk' = disk,
         PlaceModule \/ \E file \in File : LoadSymbols(file)
  PROVE  \E k : Brings(k)
<1>1. CASE PlaceModule
  <2>1. PICK k, f, n :
           /\ k = NewHandle /\ n = Len(frames) /\ Running("load", "headers") /\ ret = NoReturn
           /\ f \in Frame /\ f.op = "load" /\ f.h = k
           /\ DOMAIN frames' = 1 .. n /\ frames'[n] = f
           /\ \A i \in 1 .. n : i # n => frames'[i] = frames[i]
           /\ Live' = Live \cup {k} /\ k \notin Handles /\ Handles' = Handles \cup {k}
           /\ \A m \in Handles : loaded'[m] = loaded[m]
           /\ loaded'[k] = NewModule(Me.file, FALSE)
           /\ Loading /\ Loading' /\ Enqueue(Me.file, FALSE)
           /\ UNCHANGED << ret, client, fini_order >>
    BY <1>1, PlacedEffect
  <2>2. /\ n \in 1 .. n /\ DOMAIN frames = 1 .. n /\ Me = frames[n] /\ Me \in Frame /\ Me.h = 0
        /\ \A i \in 1 .. n : frames[i].op = "load"
    BY <2>1, LoadUnderWay
  <2>3. Me.file \in File /\ \A h \in Handles : h # 0
    BY <2>2, CallArray DEF Frame
  <2>4. loaded'[k].use_count = 1 /\ loaded'[k].deps = << >>
    BY <2>1 DEF NewModule
  <2>5. Outside(k)'
    BY <2>1, <2>2 DEF Outside
  <2>6. \A h \in Handles : Outside(h)' <=> Outside(h)
    <3>1. ASSUME NEW h \in Handles, NEW i \in 1 .. n
          PROVE  /\ frames'[i].op = "load" /\ frames[i].op = "load"
                 /\ frames'[i].h = h <=> frames[i].h = h
      <4>1. CASE i = n
        BY <2>1, <2>2, <2>3, <4>1
      <4>2. CASE i # n
        BY <2>1, <2>2, <4>2
      <4> QED BY <4>1, <4>2
    <3> QED BY <2>1, <2>2, <3>1 DEF Outside
  <2>7. FALSE \in BOOLEAN /\ QueuedOnce
    BY DEF UseInv, ControlInv
  <2>8. /\ HeldPositions(k)' = {} /\ \A m \in Handles : HeldPositions(m)' = HeldPositions(m)
        /\ \A g : UsesByModules(g)' = UsesByModules(g)
        /\ UsesByModules(k) = {}
    BY <2>1, <2>3, <2>7, ModuleAdded
  <2> QED BY <2>1, <2>4, <2>5, <2>6, <2>8 DEF Brings
<1>2. ASSUME NEW file \in File, LoadSymbols(file) PROVE \E k : Brings(k)
  <2>1. /\ frames = << >> /\ DOMAIN frames = {} /\ UNCHANGED << frames, ret, fini_order >>
    BY <1>2 DEF LoadSymbols, Idle
  <2>2. ~InProcessOfLoading(file)
    <3>1. DOMAIN dependency_list = {}
      BY <2>1 DEF GraphInv, ListIsCalls
    <3> QED BY <3>1 DEF InProcessOfLoading, Contains
  <2>3. Enqueue(file, TRUE) /\ client' = client \cup {NewHandle}
    BY <1>2, <2>2 DEF LoadSymbols
  <2>4. PICK k : k = NewHandle
    OBVIOUS
  <2>5. Loading /\ Loading' /\ TRUE \in BOOLEAN /\ QueuedOnce
    BY <2>1 DEF Loading, UseInv, ControlInv
  <2>6. /\ Live' = Live \cup {k} /\ k \notin Handles /\ Handles' = Handles \cup {k}
        /\ \A m \in Handles : loaded'[m] = loaded[m]
        /\ loaded'[k] = NewModule(file, TRUE)
        /\ HeldPositions(k)' = {} /\ \A m \in Handles : HeldPositions(m)' = HeldPositions(m)
        /\ \A g : UsesByModules(g)' = UsesByModules(g)
        /\ UsesByModules(k) = {}
    BY <2>3, <2>4, <2>5, ModuleAdded
  <2>7. loaded'[k].use_count = 1 /\ loaded'[k].deps = << >>
    BY <2>6 DEF NewModule
  <2>8. Outside(k)' /\ \A h \in Handles : Outside(h)' <=> Outside(h)
    BY <2>1, <2>3, <2>4, <2>6 DEF Outside
  <2> QED BY <2>1, <2>4, <2>6, <2>7, <2>8 DEF Brings
<1> QED BY <1>1, <1>2

(* The module u under load comes to need d: with one more use of d, or with *)
(* the one that d was loaded with.                                         *)
Needs(u, d) ==
  /\ u \in Live /\ d \in Live /\ d # 0 /\ u \in Handles /\ d \in Handles
  /\ Live' = Live /\ Handles' = Handles
  /\ Loading /\ Loading' /\ UNCHANGED fini_order /\ Outside(u)
  /\ << u, Len(loaded[u].deps) + 1 >> \notin UsesByModules(d)
  /\ \A h : UsesByModules(h)' =
              UsesByModules(h) \cup (IF h = d THEN {<< u, Len(loaded[u].deps) + 1 >>} ELSE {})
  /\ \A m \in Handles : HeldDeps(m)' = HeldDeps(m) \cup (IF m = u THEN {d} \ {0} ELSE {})
  /\ \A h \in Handles \ {d} : Outside(h)' <=> Outside(h)
  /\ \/ /\ Outside(d)' <=> Outside(d)
        /\ \A m \in Handles : loaded'[m].use_count = loaded[m].use_count + (IF m = d THEN 1 ELSE 0)
     \/ /\ Outside(d) /\ ~Outside(d)'
        /\ \A m \in Handles : loaded'[m].use_count = loaded[m].use_count

(* A needed file is in memory, or was loaded just now.                     *)
LEMMA NeedAdded ==
  ASSUME Unfailing, CoreInv, CoreInv', UseInv, UseInv', GraphInv, NeededIsLoaded \/ DependentReturned
  PROVE  \E u, d : Needs(u, d)
<1>1. PICK u, d, f, n :
           /\ u = Me.h /\ n = Len(frames) /\ Running("load", "needed") /\ u \in Live /\ u # 0
           /\ d \in Live /\ d # 0 /\ u \in Handles /\ d \in Handles
           /\ f \in Frame /\ f.op = "load" /\ f.pc = "needed" /\ f.h = u /\ f.file = Me.file
           /\ DOMAIN frames' = 1 .. n /\ frames'[n] = f
           /\ \A i \in 1 .. n : i # n => frames'[i] = frames[i]
           /\ Len(loaded') = Len(loaded)
           /\ \A m \in Handles :
                loaded'[m].deps = IF m = u THEN Append(loaded[u].deps, d) ELSE loaded[m].deps
           /\ Loading /\ Loading' /\ ret' = NoReturn
           /\ UNCHANGED << loaded_objects, client, fini_order >>
           /\ \/ /\ ret = NoReturn
                 /\ \A m \in Handles : loaded'[m].use_count = loaded[m].use_count + (IF m = d THEN 1 ELSE 0)
              \/ /\ ret = [of |-> "load", val |-> d]
                 /\ \A m \in Handles : loaded'[m].use_count = loaded[m].use_count
  BY EntryEffect
<1>2. d \in 0 .. Len(loaded)
  BY <1>1, CallArray
<1>3. /\ Live' = Live /\ Handles' = Handles
      /\ << u, Len(loaded[u].deps) + 1 >> \notin UsesByModules(d)
      /\ \A h : UsesByModules(h)' = UsesByModules(h) \cup
                     (IF h = d THEN {<< u, Len(loaded[u].deps) + 1 >>} ELSE {})
      /\ \A m \in Handles : HeldDeps(m)' = HeldDeps(m) \cup (IF m = u THEN {d} \ {0} ELSE {})
  BY <1>1, <1>2, EntryAdded
<1>4. /\ n \in 1 .. n /\ DOMAIN frames = 1 .. n /\ Me = frames[n]
      /\ \A i \in 1 .. n : frames[i].op = "load"
  BY <1>1, LoadUnderWay
<1>5. \A i \in 1 .. n : frames'[i].h = frames[i].h /\ frames'[i].op = "load" /\ frames[i].op = "load"
  BY <1>1, <1>4
<1>6. ASSUME NEW h \in Handles
      PROVE  Outside(h)' <=> h \in client \/ \E i \in 1 .. n : frames[i].h = h
  BY <1>1, <1>5 DEF Outside, NoReturn
<1>7. ASSUME NEW h \in Handles
      PROVE  Outside(h) <=> h \in client \/ ret = [of |-> "load", val |-> h] \/ \E i \in 1 .. n : frames[i].h = h
  BY <1>4 DEF Outside
<1>8. /\ u \in Live /\ d \in Live /\ d # 0 /\ u \in Handles /\ d \in Handles
      /\ Loading /\ Loading' /\ UNCHANGED fini_order /\ Outside(u)
  BY <1>1, <1>4, <1>7
<1>9. CASE /\ ret = NoReturn
           /\ \A m \in Handles : loaded'[m].use_count = loaded[m].use_count + (IF m = d THEN 1 ELSE 0)
  <2>1. \A h \in Handles : Outside(h)' <=> Outside(h)
    BY <1>6, <1>7, <1>9 DEF NoReturn
  <2> QED BY <1>3, <1>8, <1>9, <2>1 DEF Needs
<1>10. CASE /\ ret = [of |-> "load", val |-> d]
           /\ \A m \in Handles : loaded'[m].use_count = loaded[m].use_count
  <2>1. ret.of = "load" /\ ret.val = d
    BY <1>10
  <2>2. d \notin client /\ \A i \in 1 .. n : frames[i].h # d
    BY <1>1, <1>4, <2>1 DEF UseInv, ControlInv, OneHolder
  <2>3. \A h \in Handles : ret = [of |-> "load", val |-> h] <=> h = d
    BY <1>10
  <2>4. Outside(d) /\ ~Outside(d)' /\ \A h \in Handles \ {d} : Outside(h)' <=> Outside(h)
    BY <1>1, <1>6, <1>7, <2>2, <2>3
  <2> QED BY <1>3, <1>8, <1>10, <2>4 DEF Needs
<1> QED BY <1>1, <1>9, <1>10

-----------------------------------------------------------------------------
(* The use counts.                                                         *)

(* Nothing but what the handles pass through.                              *)
LEMMA PassedOnExact ==
  ASSUME CoreInv, Exact, PassesOn, Loading, Loading'
  PROVE  Exact'
  BY PassedOn, LiveHandles DEF Exact, AllUses, PassesOn

(* The new module has one use, and it is counted.                          *)
LEMMA BroughtExact ==
  ASSUME CoreInv, Exact, NEW k, Brings(k)
  PROVE  Exact'
<1>1. ASSUME NEW h \in Live PROVE loaded'[h].use_count = AllUses(h)'
  <2>1. h \in Handles /\ loaded'[h] = loaded[h] /\ (Outside(h)' <=> Outside(h))
        /\ UsesByModules(h)' = UsesByModules(h)
    BY LiveHandles DEF Brings
  <2> QED BY <2>1 DEF Exact, AllUses
<1>2. loaded'[k].use_count = AllUses(k)'
  <2>1. loaded'[k].use_count = 1 /\ Outside(k)' /\ UsesByModules(k)' = {}
    BY DEF Brings
  <2>2. Cardinality(UsesByModules(k)') = 0
    BY <2>1, FS_EmptySet
  <2> QED BY <2>1, <2>2 DEF AllUses
<1> QED BY <1>1, <1>2 DEF Exact, Brings

(* The use is counted, or was counted for the call that loaded the module. *)
LEMMA NeedExact ==
  ASSUME CoreInv, UseInv, Exact, NEW u, NEW d, Needs(u, d)
  PROVE  Exact'
<1>1. ASSUME NEW h \in Live, h # d PROVE loaded'[h].use_count = AllUses(h)'
  <2>1. /\ h \in Handles /\ loaded[h].use_count \in Int /\ UsesByModules(h)' = UsesByModules(h)
        /\ Outside(h)' <=> Outside(h)
    BY <1>1, LiveHandles, ModuleRecord DEF Needs
  <2>2. loaded'[h].use_count = loaded[h].use_count
    BY <1>1, <2>1 DEF Needs
  <2> QED BY <2>1, <2>2 DEF Exact, AllUses
<1>2. loaded'[d].use_count = AllUses(d)'
  <2> DEFINE e == << u, Len(loaded[u].deps) + 1 >>
  <2>1. IsFiniteSet(UsesByModules(d)) /\ Cardinality(UsesByModules(d)) \in Nat
    BY UsesFinite DEF FiniteUses, Needs, UseInv, ControlInv
  <2>2. e \notin UsesByModules(d) /\ UsesByModules(d)' = UsesByModules(d) \cup {e}
    BY DEF Needs
  <2> HIDE DEF e
  <2>3. Cardinality(UsesByModules(d)') = Cardinality(UsesByModules(d)) + 1
    BY <2>1, <2>2, FS_AddElement
  <2>4. d \in Live /\ d \in Handles /\ loaded[d].use_count = AllUses(d)
    BY DEF Exact, Needs
  <2>5. \/ (Outside(d)' <=> Outside(d)) /\ loaded'[d].use_count = loaded[d].use_count + 1
        \/ Outside(d) /\ ~Outside(d)' /\ loaded'[d].use_count = loaded[d].use_count
    BY <2>4 DEF Needs
  <2> QED BY <2>1, <2>3, <2>4, <2>5 DEF AllUses
<1> QED BY <1>1, <1>2 DEF Exact, Needs

(* A use that ends is no longer counted.                                   *)
LEMMA UseGoneExact ==
  ASSUME CoreInv, UseInv, Exact, NEW h \in Live, OneUseGone(h)
  PROVE  Exact'
<1>1. /\ Live' = Live /\ h \in Handles /\ Live \subseteq Handles
      /\ \A m \in Handles : /\ loaded[m].use_count \in Int
                            /\ loaded'[m].use_count = loaded[m].use_count - (IF m = h THEN 1 ELSE 0)
  BY LiveHandles, CountDropped, ModuleRecord DEF OneUseGone, Live
<1>2. ASSUME NEW g \in Live, g # h PROVE loaded'[g].use_count = AllUses(g)'
  <2>1. (Outside(g)' <=> Outside(g)) /\ UsesByModules(g)' = UsesByModules(g) /\ g \in Handles
    BY <1>1, <1>2 DEF OneUseGone
  <2> QED BY <1>1, <1>2, <2>1 DEF Exact, AllUses
<1>3. loaded'[h].use_count = AllUses(h)'
  BY <1>1 DEF Exact, OneUseGone
<1> QED BY <1>1, <1>2, <1>3 DEF Exact

(* Without a use that ends, no count changes.                              *)
LEMMA SameExact ==
  ASSUME CoreInv, Exact, UNCHANGED loaded, Live' \subseteq Live,
         \A g \in Handles : UsesByModules(g)' = UsesByModules(g),
         \A g : Outside(g)' <=> Outside(g)
  PROVE  Exact'
  BY LiveHandles DEF Exact, AllUses

(* The steps of an unload.                                                 *)
LEMMA UnloadExact ==
  ASSUME CoreInv, CoreInv', UseInv, Exact, UnloadStep
  PROVE  Exact'
<1>1. CASE UnloadDependent
  <2>1. PICK u, x, h : u = Me.h /\ x = Me.next /\ h = loaded[u].deps[x]
    OBVIOUS
  <2>2. CASE h \in Live
    <3>1. OneUseGone(h)
      BY <1>1, <2>1, <2>2, DependentGivenUp
    <3> QED BY <2>2, <3>1, UseGoneExact
  <2>3. CASE h \notin Live
    <3>1. loaded[Me.h].deps[Me.next] \notin Live
      BY <2>1, <2>3
    <3>2. /\ UNCHANGED loaded /\ Live' = Live
          /\ \A g \in Handles : UsesByModules(g)' = UsesByModules(g)
          /\ \A g : Outside(g)' <=> Outside(g)
      BY <1>1, <3>1, NothingGivenUp DEF Live
    <3> QED BY <3>2, SameExact
  <2> QED BY <2>2, <2>3
<1>2. CASE UnloadDone \/ AbortOnDoubleFree
  <2>1. PICK u : u = Me.h
    OBVIOUS
  <2>2. /\ UNCHANGED loaded /\ Live' \subseteq Live
        /\ \A g : UsesByModules(g)' = UsesByModules(g)
        /\ \A g : Outside(g)' <=> Outside(g)
    <3>1. UNCHANGED loaded
      BY <1>2 DEF UnloadDone, AbortOnDoubleFree
    <3> QED BY <1>2, <2>1, <3>1, ModuleFreed
  <2> QED BY <2>2, SameExact
<1>3. CASE DependentUnloaded
  <2>1. UNCHANGED << loaded, loaded_objects, frames, client >> /\ ret.of = "unload" /\ ret' = NoReturn
    BY <1>3 DEF DependentUnloaded
  <2>2. Live' = Live /\ (\A g : UsesByModules(g)' = UsesByModules(g))
    BY <2>1 DEF Live, UsesByModules, UsesBy, HeldPositions, UnloadFrames
  <2>3. \A g : Outside(g)' <=> Outside(g)
    BY <2>1 DEF Outside, NoReturn
  <2> QED BY <2>1, <2>2, <2>3, SameExact
<1> QED BY <1>1, <1>2, <1>3 DEF UnloadStep

(* A load step passes a handle on, brings a module or adds a need.         *)
LEMMA LoadSteps ==
  ASSUME Unfailing, CoreInv, UseInv, GraphInv, LoadStep
  PROVE  \/ LoadDependent \/ NeededDone \/ Relocate \/ RelocateDone
         \/ PlaceModule
         \/ NeededIsLoaded \/ DependentReturned
<1>1. ~RejectFile /\ ~FailAllocation /\ ~DependentNotFound
  BY DEF Unfailing, RejectFile, FailAllocation, DependentNotFound
<1>2. ~RejectCircular
  BY NeverCircular DEF RejectCircular
<1> QED BY <1>1, <1>2 DEF LoadStep

(* The use counts stay exact.                                              *)
LEMMA ExactNext ==
  ASSUME Unfailing
  PROVE  CoreInv /\ CoreInv' /\ UseInv /\ UseInv' /\ GraphInv /\ Exact /\ [Next]_vars => Exact'
<1> SUFFICES ASSUME CoreInv, CoreInv', UseInv, UseInv', GraphInv, Exact, [Next]_vars PROVE Exact'
  OBVIOUS
<1>1. CASE UNCHANGED vars
  <2>1. UNCHANGED << loaded, loaded_objects, frames, ret, client >>
    BY <1>1 DEF vars
  <2>2. Live' = Live /\ (\A g : UsesByModules(g)' = UsesByModules(g))
    BY <2>1 DEF Live, UsesByModules, UsesBy, HeldPositions, UnloadFrames
  <2>3. \A g : Outside(g)' <=> Outside(g)
    BY <2>1 DEF Outside
  <2> QED BY <2>1, <2>2, <2>3, SameExact
<1>2. ASSUME PlaceModule \/ (\E f \in File : LoadSymbols(f)), disk' = disk PROVE Exact'
  BY <1>2, ModuleBrought, BroughtExact
<1>3. ASSUME NeededIsLoaded \/ DependentReturned PROVE Exact'
  BY <1>3, NeedAdded, NeedExact
<1>4. ASSUME \/ \E f \in File : TopLoad(f)
             \/ LoadDependent \/ NeededDone \/ Relocate \/ RelocateDone \/ TopReturned
      PROVE  Exact'
  BY <1>4, LoadPassesOn, PassedOnExact
<1>5. ASSUME UnloadStep PROVE Exact'
  BY <1>5, UnloadExact
<1>6. ASSUME NEW h \in client, TopUnload(h) PROVE Exact'
  BY <1>6, HandleGivenUp, UseGoneExact
<1>7. ASSUME LoadStep, disk' = disk PROVE Exact'
  BY <1>2, <1>3, <1>4, <1>7, LoadSteps
<1> QED BY <1>1, <1>2, <1>4, <1>5, <1>6, <1>7 DEF Next, LoaderStep, ClientStep

(* Nothing is counted at the start.                                        *)
LEMMA ExactInit == Init => Exact
<1> SUFFICES ASSUME Init PROVE Exact
  OBVIOUS
<1>1. Live = {}
  BY DEF Init, Live, ToSet
<1> QED BY <1>1 DEF Exact

(* The invariant of the use counts implies the property of the runs.       *)
LEMMA ExactImplies == CoreInv /\ UseInv /\ Exact => UseCountExact
  BY UsesAreAllUses, LiveHandles DEF Exact, UseCountExact

(* All invariants of the unfailing loader.                                 *)
LEMMA ExactInvariant ==
  ASSUME Unfailing
  PROVE  Spec => [](CoreInv /\ UseInv /\ GraphInv /\ Exact)
  BY CoreInitInv, CoreNextInv, UseInit, UseNext, GraphInit, GraphNext, ExactInit, ExactNext, PTL DEF Spec

(* Without failures every use_count is exactly the number of uses, at every *)
(* step of loads and unloads nested to any depth.                          *)
THEOREM UseCountsExact ==
  ASSUME Unfailing
  PROVE  Spec => []UseCountExact
  BY ExactInvariant, ExactImplies, PTL

-----------------------------------------------------------------------------
(* The loader core implements ModuleStore.                                 *)

(* What is held is what somebody outside the modules has a use of.         *)
HeldIs == HeldOutside = {h \in Handles : Outside(h)}

(* It is what the properties call held.                                    *)
LEMMA HeldIsOutside == CoreInv /\ UseInv => HeldIs
<1> SUFFICES ASSUME CoreInv, UseInv, NEW h \in Handles PROVE UsesOutside(h) > 0 <=> Outside(h)
  BY DEF HeldIs, HeldOutside
<1> QED BY OneUseOutside

(* The store starts as the loader does.                                    *)
LEMMA StoreInit == Init => Store!Init
<1> SUFFICES ASSUME Init PROVE Store!Init
  OBVIOUS
<1>1. Live = {}
  BY DEF Init, Live, ToSet
<1>2. Handles = {}
  BY EmptySeq DEF Init, Handles
<1> QED BY <1>1, <1>2 DEF Store!Init, HeldOutside

(* Nothing of the store changes.                                           *)
LEMMA StoreStutters ==
  ASSUME CoreInv, HeldIs, HeldIs', Live' = Live, Handles' = Handles, UNCHANGED fini_order,
         \A h \in Handles : Outside(h)' <=> Outside(h),
         \A m \in Live : HeldDeps(m)' = HeldDeps(m)
  PROVE  UNCHANGED Store!store_vars
<1>1. HeldOutside' = HeldOutside
  BY DEF HeldIs
<1>2. [m \in Live |-> HeldDeps(m)]' = [m \in Live |-> HeldDeps(m)]
  OBVIOUS
<1>3. {m \in Live : Terminated(m)}' = {m \in Live : Terminated(m)}
  BY DEF Terminated
<1> QED BY <1>1, <1>2, <1>3 DEF Store!store_vars

(* Positions that stay on lists that stay are the same modules.            *)
LEMMA DepsKept ==
  ASSUME NEW m, HeldPositions(m)' = HeldPositions(m), loaded'[m].deps = loaded[m].deps
  PROVE  HeldDeps(m)' = HeldDeps(m)
  BY DEF HeldDeps

(* A handle that passes from a call to its answer, or to the client, stays  *)
(* held.                                                                   *)
LEMMA PassOnIsStutter ==
  ASSUME CoreInv, HeldIs, HeldIs', PassesOn, Loading, Loading'
  PROVE  UNCHANGED Store!store_vars
<1>1. Live' = Live /\ Handles' = Handles /\ \A m \in Handles : HeldPositions(m)' = HeldPositions(m)
  BY PassedOn
<1>2. /\ UNCHANGED << loaded, fini_order >> /\ Live \subseteq Handles
      /\ \A h \in Handles : Outside(h)' <=> Outside(h)
  BY LiveHandles DEF PassesOn
<1>3. \A m \in Live : HeldDeps(m)' = HeldDeps(m)
  BY <1>1, <1>2, DepsKept
<1> QED BY <1>1, <1>2, <1>3, StoreStutters

(* A module that enters memory is brought, held by the call that loads it. *)
LEMMA BroughtIsBring ==
  ASSUME CoreInv, CoreInv', HeldIs, HeldIs', NEW k, Brings(k)
  PROVE  Store!Bring(k)
<1>1. /\ Live' = Live \cup {k} /\ k \notin Live /\ Live \subseteq Handles
  BY LiveHandles DEF Brings
<1>2. HeldOutside' = HeldOutside \cup {k}
  BY DEF Brings, HeldIs
<1>3. \A m \in Live : HeldDeps(m)' = HeldDeps(m)
  BY <1>1, DepsKept DEF Brings
<1>4. HeldDeps(k)' = {}
  BY DEF HeldDeps, Brings
<1>5. [m \in Live |-> HeldDeps(m)]' =
        [n \in Live' |-> IF n = k THEN {} ELSE [m \in Live |-> HeldDeps(m)][n]]
  <2>1. \A n \in Live' : n # k => n \in Live
    BY <1>1
  <2> QED BY <1>3, <1>4, <2>1
<1>6. {m \in Live : Terminated(m)}' = {m \in Live : Terminated(m)}
  <2>1. fini_order \in Seq(Handles) /\ UNCHANGED fini_order
    BY DEF CoreInv, OrdersOK, Handles, Brings
  <2>2. ~Terminated(k)
    BY <2>1, ElementOfSeq DEF Brings, Terminated, Contains
  <2> QED BY <1>1, <2>1, <2>2 DEF Terminated
<1> QED BY <1>1, <1>2, <1>5, <1>6 DEF Store!Bring

(* A module needs one that is in memory and still runs.                    *)
LEMMA NeedIsNeed ==
  ASSUME CoreInv, UseInv, HeldIs, HeldIs', NEW u, NEW d, Needs(u, d)
  PROVE  Store!Need(u, d)
<1>1. /\ u \in Live /\ d \in Live /\ d # 0 /\ u \in Handles /\ d \in Handles /\ Outside(u)
      /\ Live' = Live /\ Handles' = Handles /\ Live \subseteq Handles /\ UNCHANGED fini_order
  BY LiveHandles DEF Needs
<1>2. u \in HeldOutside
  BY <1>1 DEF HeldIs
<1>3. d \notin {m \in Live : Terminated(m)}
  <2>1. ~BeingUnloaded(d)
    BY DEF Needs, Loading, BeingUnloaded
  <2> QED BY <1>1, <2>1 DEF UseInv, ModuleState
<1>4. \A m \in Live : HeldDeps(m)' = HeldDeps(m) \cup (IF m = u THEN {d} ELSE {})
  <2>1. \A m \in Handles : HeldDeps(m)' = HeldDeps(m) \cup (IF m = u THEN {d} \ {0} ELSE {})
    BY DEF Needs
  <2>2. {d} \ {0} = {d}
    BY <1>1
  <2> QED BY <1>1, <2>1, <2>2
<1>5. [m \in Live |-> HeldDeps(m)]' = [[m \in Live |-> HeldDeps(m)] EXCEPT ![u] = @ \cup {d}]
  <2>1. \A m \in Live : m # u => HeldDeps(m)' = HeldDeps(m)
    BY <1>4
  <2>2. HeldDeps(u)' = HeldDeps(u) \cup {d}
    BY <1>1, <1>4
  <2> QED BY <1>1, <2>1, <2>2
<1>6. HeldOutside' = HeldOutside \/ HeldOutside' = HeldOutside \ {d}
  <2>1. \A h \in Handles \ {d} : Outside(h)' <=> Outside(h)
    BY DEF Needs
  <2>2. (Outside(d)' <=> Outside(d)) \/ ~Outside(d)'
    BY DEF Needs
  <2> QED BY <1>1, <2>1, <2>2 DEF HeldIs
<1>7. {m \in Live : Terminated(m)}' = {m \in Live : Terminated(m)}
  BY <1>1 DEF Terminated
<1> QED BY <1>1, <1>2, <1>3, <1>5, <1>6, <1>7 DEF Store!Need

(* A module is used by others when it is on one of their lists.            *)
NeedsAreUses ==
  \A h \in Handles : UsesByModules(h) # {} <=> \E n \in Live : h \in HeldDeps(n)

(* The two ways of saying it.                                              *)
LEMMA NeedIsUse == CoreInv => NeedsAreUses
<1> SUFFICES ASSUME CoreInv, NEW h \in Handles
             PROVE  UsesByModules(h) # {} <=> \E n \in Live : h \in HeldDeps(n)
  BY DEF NeedsAreUses
<1>1. h # 0
  BY CallArray
<1>2. ASSUME NEW e \in UsesByModules(h) PROVE \E n \in Live : h \in HeldDeps(n)
  BY <1>1, UsesAre DEF HeldDeps
<1>3. ASSUME NEW n \in Live, h \in HeldDeps(n) PROVE UsesByModules(h) # {}
  <2>1. PICK i \in HeldPositions(n) : loaded[n].deps[i] = h
    BY <1>3 DEF HeldDeps
  <2>2. << n, i >> \in UsesByModules(h)
    BY <2>1, UsesAre
  <2> QED BY <2>2
<1> QED BY <1>2, <1>3

(* Where the counts are exact, the last use is the one that ends when no   *)
(* other is left.                                                          *)
LEMMA LastUseEnds ==
  ASSUME CoreInv, CoreInv', UseInv, ControlInv', Exact, NEW h \in Live, OneUseGone(h)
  PROVE  StillUsed(h) <=> Outside(h)' \/ UsesByModules(h)' # {}
<1>1. loaded[h].use_count = AllUses(h) /\ AllUses(h)' = AllUses(h) - 1
  BY DEF Exact, OneUseGone
<1>2. IsFiniteSet(UsesByModules(h)') /\ Cardinality(UsesByModules(h)') \in Nat
  <2>1. CoreInv' /\ CallsOK' => FiniteUses'
    BY UsesFinite, PTL
  <2> QED BY <2>1 DEF FiniteUses, ControlInv
<1>3. Cardinality(UsesByModules(h)') = 0 <=> UsesByModules(h)' = {}
  BY <1>2, FS_EmptySet
<1>4. AllUses(h) \in Nat
  BY UsesAreAllUses, LiveHandles
<1> QED BY <1>1, <1>2, <1>3, <1>4 DEF AllUses, StillUsed

(* So it is terminated when, and only when, nobody needs it after that.    *)
LEMMA UseGoneIsTermination ==
  ASSUME CoreInv, CoreInv', UseInv, UseInv', Exact, HeldIs', NEW h \in Live, OneUseGone(h)
  PROVE  Store!TerminatedAfter(h)
<1>1. Live' = Live /\ h \in Handles /\ Handles' = Handles
  BY LiveHandles, CountDropped DEF OneUseGone, Live
<1>2. StillUsed(h) <=> h \in HeldOutside' \/ \E n \in Live : h \in [m \in Live |-> HeldDeps(m)]'[n]
  <2>1. StillUsed(h) <=> Outside(h)' \/ UsesByModules(h)' # {}
    BY LastUseEnds DEF UseInv
  <2>2. Outside(h)' <=> h \in HeldOutside'
    BY <1>1 DEF HeldIs
  <2>3. CoreInv' => NeedsAreUses'
    BY NeedIsUse, PTL
  <2>4. UsesByModules(h)' # {} <=> \E n \in Live' : h \in HeldDeps(n)'
    BY <1>1, <2>3 DEF NeedsAreUses
  <2>5. \A n \in Live' : [m \in Live |-> HeldDeps(m)]'[n] = HeldDeps(n)'
    OBVIOUS
  <2> QED BY <1>1, <2>1, <2>2, <2>4, <2>5
<1>3. CASE StillUsed(h)
  <2>1. UNCHANGED fini_order
    BY <1>3 DEF OneUseGone
  <2>2. {m \in Live : Terminated(m)}' = {m \in Live : Terminated(m)}
    BY <1>1, <2>1 DEF Terminated
  <2> QED BY <1>2, <1>3, <2>2 DEF Store!TerminatedAfter
<1>4. CASE ~StillUsed(h)
  <2>1. fini_order' = Append(fini_order, h)
    BY <1>4 DEF OneUseGone
  <2>2. fini_order \in Seq(Handles)
    BY DEF CoreInv, OrdersOK, Handles
  <2>3. \A m : Contains(Append(fini_order, h), m) <=> Contains(fini_order, m) \/ m = h
    BY <1>1, <2>2, AppendContains
  <2>4. {m \in Live : Terminated(m)}' = {m \in Live : Terminated(m)} \cup {h}
    BY <1>1, <2>1, <2>3 DEF Terminated
  <2> QED BY <1>2, <1>4, <2>4 DEF Store!TerminatedAfter
<1> QED BY <1>3, <1>4

(* The client gives up a handle.                                           *)
LEMMA TopUnloadIsGiveUp ==
  ASSUME CoreInv, CoreInv', UseInv, UseInv', Exact, HeldIs, HeldIs', NEW h \in client, TopUnload(h)
  PROVE  h \in Live /\ Store!GiveUp(h)
<1>1. /\ h \in Live /\ h \in Handles /\ OneUseGone(h) /\ Outside(h) /\ ~Outside(h)'
      /\ \A m \in Handles : HeldPositions(m)' = HeldPositions(m)
  BY HandleGivenUp, LiveHandles
<1>2. /\ Live' = Live /\ Handles' = Handles /\ Live \subseteq Handles
      /\ \A m \in Handles : loaded'[m].deps = loaded[m].deps
  BY <1>1, LiveHandles, CountDropped DEF OneUseGone, Live
<1>3. h \in HeldOutside /\ HeldOutside' = HeldOutside \ {h}
  <2>1. \A g \in Handles \ {h} : Outside(g)' <=> Outside(g)
    BY <1>1 DEF OneUseGone
  <2> QED BY <1>1, <1>2, <2>1 DEF HeldIs
<1>4. \A m \in Live : HeldDeps(m)' = HeldDeps(m)
  BY <1>1, <1>2, DepsKept
<1>5. [m \in Live |-> HeldDeps(m)]' = [m \in Live |-> HeldDeps(m)]
  BY <1>2, <1>4
<1>6. Store!TerminatedAfter(h)
  BY <1>1, UseGoneIsTermination
<1> QED BY <1>1, <1>2, <1>3, <1>5, <1>6 DEF Store!GiveUp

(* Without failures there is a module behind every entry.                  *)
LEMMA EntryIsModule ==
  ASSUME CoreInv, CoreInv', UseInv, GraphInv, UnloadDependent
  PROVE  loaded[Me.h].deps[Me.next] \in Live
<1>1. PICK u, x : u = Me.h /\ x = Me.next
  OBVIOUS
<1>2. u \in Handles /\ x \in 1 .. Len(loaded[u].deps)
  <2>1. Running("unload", "depend") /\ ret.of # "abort" /\ x <= Len(loaded[u].deps)
    BY <1>1 DEF UnloadDependent, DependentsLeft, NoReturn
  <2>2. u \in Handles /\ x \in Nat \ {0} /\ Len(loaded[u].deps) \in Nat
    BY <1>1, <2>1, UnloadedIsLive
  <2> QED BY <2>1, <2>2
<1>3. loaded[u].deps[x] # 0
  BY <1>2 DEF GraphInv, DependsOnNeeded
<1>4. loaded[u].deps[x] \in 0 .. Len(loaded)
  <2>1. ToSet(loaded[u].deps) \subseteq 0 .. Len(loaded) /\ loaded[u].deps \in Seq(Nat)
    BY <1>2, CallArray, ModuleRecord DEF CoreInv, ModulesOK
  <2>2. loaded[u].deps[x] \in ToSet(loaded[u].deps)
    BY <1>2, <2>1, LenProperties DEF ToSet
  <2> QED BY <2>1, <2>2
<1>5. loaded[u].deps[x] \in Handles
  BY <1>3, <1>4, CallArray
<1>6. CASE loaded[Me.h].deps[Me.next] \notin Live
  BY <1>1, <1>5, <1>6, NothingGivenUp
<1> QED BY <1>6

(* A terminated module gives up an entry: its need of the module with the  *)
(* last entry for it, nothing with an entry that has a double.             *)
LEMMA UnloadDependentIsRelease ==
  ASSUME CoreInv, CoreInv', UseInv, UseInv', GraphInv, Exact, HeldIs, HeldIs', UnloadDependent
  PROVE  \/ \E m \in {n \in Live : Terminated(n)} : \E h \in [n \in Live |-> HeldDeps(n)][m] : Store!Release(m, h)
         \/ UNCHANGED Store!store_vars
<1>1. PICK u, x, h : u = Me.h /\ x = Me.next /\ h = loaded[u].deps[x]
  OBVIOUS
<1>2. h \in Live /\ h \in Handles /\ h # 0 /\ Live \subseteq Handles
  BY <1>1, EntryIsModule, LiveHandles, CallArray
<1>3. /\ OneUseGone(h) /\ u \in Live /\ BeingUnloaded(u)
      /\ HeldPositions(u)' = HeldPositions(u) \ {x} /\ x \in HeldPositions(u)
      /\ \A m \in Handles \ {u} : HeldPositions(m)' = HeldPositions(m)
      /\ \A g : Outside(g)' <=> Outside(g)
  BY <1>1, <1>2, DependentGivenUp
<1>4. /\ Live' = Live /\ Handles' = Handles
      /\ \A m \in Handles : loaded'[m].deps = loaded[m].deps
  BY <1>2, <1>3, CountDropped DEF OneUseGone, Live
<1>5. HeldOutside' = HeldOutside
  BY <1>3, <1>4 DEF HeldIs
<1>6. u \in {n \in Live : Terminated(n)}
  BY <1>3 DEF UseInv, ModuleState
<1>7. h \in HeldDeps(u)
  BY <1>1, <1>2, <1>3 DEF HeldDeps
<1>8. \A m \in Live : m # u => HeldDeps(m)' = HeldDeps(m)
  BY <1>2, <1>3, <1>4, DepsKept
<1>9. CASE h \in HeldDeps(u)'
  <2>1. HeldDeps(u)' = HeldDeps(u)
    <3>1. \A i \in HeldPositions(u) : loaded[u].deps[i] = h \/ i # x
      BY <1>1
    <3>2. HeldDeps(u)' = {loaded[u].deps[i] : i \in HeldPositions(u) \ {x}} \ {0}
      BY <1>2, <1>3, <1>4 DEF HeldDeps
    <3>3. HeldDeps(u) = {loaded[u].deps[i] : i \in HeldPositions(u)} \ {0}
      BY DEF HeldDeps
    <3> QED BY <1>1, <1>9, <3>2, <3>3
  <2>2. StillUsed(h)
    <3>1. CoreInv' => NeedsAreUses'
      BY NeedIsUse, PTL
    <3>2. UsesByModules(h)' # {}
      BY <1>2, <1>3, <1>4, <1>9, <3>1 DEF NeedsAreUses
    <3> QED BY <1>2, <1>3, <3>2, LastUseEnds DEF UseInv
  <2>3. UNCHANGED fini_order
    BY <1>3, <2>2 DEF OneUseGone
  <2>4. \A m \in Live : HeldDeps(m)' = HeldDeps(m)
    BY <1>8, <2>1
  <2> QED BY <1>3, <1>4, <2>3, <2>4, StoreStutters
<1>10. CASE h \notin HeldDeps(u)'
  <2>1. HeldDeps(u)' = HeldDeps(u) \ {h}
    <3>2. HeldDeps(u)' = {loaded[u].deps[i] : i \in HeldPositions(u) \ {x}} \ {0}
      BY <1>2, <1>3, <1>4 DEF HeldDeps
    <3>3. HeldDeps(u) = {loaded[u].deps[i] : i \in HeldPositions(u)} \ {0}
      BY DEF HeldDeps
    <3> QED BY <1>1, <1>10, <3>2, <3>3
  <2>2. [m \in Live |-> HeldDeps(m)]' = [[m \in Live |-> HeldDeps(m)] EXCEPT ![u] = @ \ {h}]
    BY <1>3, <1>4, <1>8, <2>1
  <2>3. Store!TerminatedAfter(h)
    BY <1>2, <1>3, UseGoneIsTermination
  <2>4. h \in [n \in Live |-> HeldDeps(n)][u]
    BY <1>3, <1>7
  <2>5. Store!Release(u, h)
    BY <1>4, <1>5, <1>6, <2>2, <2>3, <2>4 DEF Store!Release
  <2> QED BY <1>6, <2>4, <2>5
<1> QED BY <1>9, <1>10

(* A terminated module that has given up all it needs leaves memory.       *)
LEMMA UnloadDoneIsFree ==
  ASSUME CoreInv, CoreInv', UseInv, HeldIs, HeldIs', UnloadDone
  PROVE  \E m \in {n \in Live : Terminated(n)} : Store!Free(m)
<1>1. PICK u : u = Me.h
  OBVIOUS
<1>2. /\ u \in Live /\ BeingUnloaded(u) /\ Live' = Live \ {u} /\ Handles' = Handles
      /\ HeldPositions(u) = {} /\ \A m \in Handles \ {u} : HeldPositions(m)' = HeldPositions(m)
      /\ \A g : Outside(g)' <=> Outside(g)
  BY <1>1, ModuleFreed
<1>3. UNCHANGED << loaded, fini_order >> /\ Live \subseteq Handles
  BY LiveHandles DEF UnloadDone
<1>4. u \in {n \in Live : Terminated(n)}
  BY <1>2 DEF UseInv, ModuleState
<1>5. HeldDeps(u) = {}
  BY <1>2 DEF HeldDeps
<1>6. \A m \in Live' : HeldDeps(m)' = HeldDeps(m) /\ m \in Live
  BY <1>2, <1>3, DepsKept
<1>7. [m \in Live |-> HeldDeps(m)]' = [n \in Live' |-> [m \in Live |-> HeldDeps(m)][n]]
  BY <1>6
<1>8. {m \in Live : Terminated(m)}' = {m \in Live : Terminated(m)} \ {u}
  BY <1>2, <1>3 DEF Terminated
<1>9. HeldOutside' = HeldOutside
  BY <1>2 DEF HeldIs
<1>10. Store!Free(u)
  BY <1>2, <1>4, <1>5, <1>7, <1>8, <1>9 DEF Store!Free
<1> QED BY <1>4, <1>10

(* No more handles are given out than the client may ask for and the files *)
(* of one graph take.                                                      *)
LEMMA HandleInBound ==
  ASSUME Unfailing, CoreInv, CoreInv', UseInv, GraphInv', NEW k, Brings(k),
         PlaceModule \/ \E f \in File : LoadSymbols(f)
  PROVE  k \in 1 .. HandleBound + Cardinality(File)
<1>1. /\ IsFiniteSet(File) /\ Cardinality(File) \in Nat /\ HandleBound \in Nat \ {0}
      /\ k = Len(loaded) + 1 /\ Len(loaded) \in Nat /\ Handles' = 1 .. k
  BY DloadAssumption, FS_CardinalityType, CallArray DEF Brings, NewHandle
<1>2. CASE PlaceModule
  <2>1. PICK f, n :
           /\ n = Len(frames) /\ Running("load", "headers") /\ f.op = "load" /\ f.h = k
           /\ DOMAIN frames' = 1 .. n /\ frames'[n] = f
           /\ \A i \in 1 .. n : i # n => frames'[i] = frames[i]
           /\ loaded'[k] = NewModule(Me.file, FALSE)
    BY <1>2, PlacedEffect DEF Brings
  <2>2. /\ 1 \in 1 .. n /\ Me.file \in File
        /\ \A i \in 1 .. n : frames[i].op = "load"
        /\ \A i \in 1 .. n : i # n => frames[i].h # 0 /\ frames[i].h \in Handles
    BY <2>1, LoadUnderWay DEF Frame
  <2>3. PICK b : b = frames'[1].h
    OBVIOUS
  <2>4. b \in 1 .. k /\ frames'[1].op = "load"
    <3>1. CASE n = 1
      BY <1>1, <2>1, <2>3, <3>1
    <3>2. CASE n # 1
      BY <1>1, <2>1, <2>2, <2>3, <3>2 DEF Brings
    <3> QED BY <3>1, <3>2
  <2>5. Bottom' = b /\ frames' # << >>
    BY <2>1, <2>2, <2>3, <2>4 DEF Bottom
  <2>6. /\ b <= HandleBound
        /\ \A m, j \in 1 .. k : (m >= b /\ j >= b /\ loaded'[m].file = loaded'[j].file) => m = j
    BY <1>1, <2>4, <2>5 DEF GraphInv, GraphSmall
  <2>7. \A m \in 1 .. k : loaded'[m].file \in File
    <3>1. \A m \in Handles : loaded'[m].file \in File
      BY ModuleRecord DEF Brings, Module
    <3>2. loaded'[k].file \in File
      BY <2>1, <2>2 DEF NewModule
    <3> QED BY <1>1, <3>1, <3>2 DEF Brings
  <2> DEFINE file == [m \in b .. k |-> loaded'[m].file]
  <2>8. b .. k \subseteq 1 .. k /\ \A m \in b .. k : m >= b
    BY <1>1, <2>4
  <2>9. file \in Injection(b .. k, File)
    BY <2>6, <2>7, <2>8 DEF Injection, IsInjective
  <2> HIDE DEF file
  <2>10. Cardinality(b .. k) <= Cardinality(File)
    BY <1>1, <2>9, FS_Injection
  <2>11. Cardinality(b .. k) = k - b + 1
    <3>1. b \in Int /\ k \in Int /\ b <= k
      BY <1>1, <2>4
    <3>2. Cardinality(b .. k) = IF b > k THEN 0 ELSE k - b + 1
      BY <3>1, FS_Interval
    <3> QED BY <3>1, <3>2
  <2> QED BY <1>1, <2>4, <2>6, <2>10, <2>11
<1>3. CASE \E f \in File : LoadSymbols(f)
  BY <1>1, <1>3 DEF LoadSymbols
<1> QED BY <1>2, <1>3

(* Every step is a step of the store, or none of it.                       *)
LEMMA StoreNext ==
  ASSUME Unfailing
  PROVE  /\ CoreInv /\ CoreInv' /\ UseInv /\ UseInv' /\ GraphInv /\ GraphInv' /\ Exact /\ HeldIs /\ HeldIs'
         /\ [Next]_vars
         => [Store!Next]_Store!store_vars
<1> SUFFICES ASSUME CoreInv, CoreInv', UseInv, UseInv', GraphInv, GraphInv', Exact, HeldIs, HeldIs',
                    [Next]_vars
             PROVE  Store!Next \/ UNCHANGED Store!store_vars
  OBVIOUS
<1>1. CASE UNCHANGED vars
  <2>1. UNCHANGED << loaded, loaded_objects, frames, ret, client, fini_order >>
    BY <1>1 DEF vars
  <2>2. Live' = Live /\ Handles' = Handles /\ (\A m \in Live : HeldDeps(m)' = HeldDeps(m))
    BY <2>1 DEF Live, Handles, HeldDeps, HeldPositions, UnloadFrames
  <2>3. \A g : Outside(g)' <=> Outside(g)
    BY <2>1 DEF Outside
  <2> QED BY <2>1, <2>2, <2>3, StoreStutters
<1>2. ASSUME PlaceModule \/ (\E f \in File : LoadSymbols(f)), disk' = disk PROVE Store!Next
  <2>1. PICK k : Brings(k)
    BY <1>2, ModuleBrought
  <2>2. k \in 1 .. HandleBound + Cardinality(File)
    BY <1>2, <2>1, HandleInBound
  <2>3. Store!Bring(k)
    BY <2>1, BroughtIsBring
  <2> QED BY <2>2, <2>3 DEF Store!Next
<1>3. ASSUME NeededIsLoaded \/ DependentReturned PROVE Store!Next
  <2>1. PICK u, d : Needs(u, d)
    BY <1>3, NeedAdded
  <2>2. Store!Need(u, d) /\ u \in Live /\ d \in Live
    BY <2>1, NeedIsNeed DEF Needs
  <2> QED BY <2>2 DEF Store!Next
<1>4. ASSUME \/ \E f \in File : TopLoad(f)
             \/ LoadDependent \/ NeededDone \/ Relocate \/ RelocateDone \/ TopReturned
      PROVE  UNCHANGED Store!store_vars
  BY <1>4, LoadPassesOn, PassOnIsStutter
<1>5. ASSUME UnloadDependent PROVE Store!Next \/ UNCHANGED Store!store_vars
  BY <1>5, UnloadDependentIsRelease DEF Store!Next
<1>6. ASSUME UnloadDone PROVE Store!Next
  BY <1>6, UnloadDoneIsFree DEF Store!Next
<1>7. ASSUME DependentUnloaded PROVE UNCHANGED Store!store_vars
  <2>1. /\ UNCHANGED << loaded, loaded_objects, frames, client, fini_order >>
        /\ ret.of = "unload" /\ ret' = NoReturn
    BY <1>7 DEF DependentUnloaded
  <2>2. Live' = Live /\ Handles' = Handles /\ (\A m \in Live : HeldDeps(m)' = HeldDeps(m))
    BY <2>1 DEF Live, Handles, HeldDeps, HeldPositions, UnloadFrames
  <2>3. \A g : Outside(g)' <=> Outside(g)
    BY <2>1 DEF Outside, NoReturn
  <2> QED BY <2>1, <2>2, <2>3, StoreStutters
<1>8. ~AbortOnDoubleFree
  BY DEF AbortOnDoubleFree, Unfailing
<1>9. ASSUME NEW h \in client, TopUnload(h) PROVE Store!Next
  BY <1>9, TopUnloadIsGiveUp DEF Store!Next
<1>10. ASSUME LoadStep, disk' = disk PROVE Store!Next \/ UNCHANGED Store!store_vars
  BY <1>2, <1>3, <1>4, <1>10, LoadSteps
<1> QED BY <1>1, <1>2, <1>4, <1>5, <1>6, <1>7, <1>8, <1>9, <1>10 DEF Next, LoaderStep, ClientStep, UnloadStep

(* Without failures the loader core is the abstract store: its modules are  *)
(* brought, needed, given up, released and freed as the store's are, and   *)
(* terminated when their last use ends.                                    *)
THEOREM LoaderImplementsStore ==
  ASSUME Unfailing
  PROVE  Spec => ImplementsStore
<1>1. Spec => [](CoreInv /\ UseInv /\ GraphInv /\ Exact)
  BY ExactInvariant
<1>2. CoreInv /\ UseInv => HeldIs
  BY HeldIsOutside
<1>3. Init => Store!Init
  BY StoreInit
<1>4. /\ CoreInv /\ CoreInv' /\ UseInv /\ UseInv' /\ GraphInv /\ GraphInv' /\ Exact /\ HeldIs /\ HeldIs'
      /\ [Next]_vars
      => [Store!Next]_Store!store_vars
  BY StoreNext
<1> QED BY <1>1, <1>2, <1>3, <1>4, PTL DEF Spec, ImplementsStore, Store!Spec

-----------------------------------------------------------------------------
(* What ModuleStore promises of the modules in memory, and so the loader    *)
(* core where it implements the store.                                     *)

(* What the modules in memory need, as the store has it.                   *)
StoreNeeds == [m \in Live |-> HeldDeps(m)]
(* The modules whose terminators have run.                                 *)
StoreEnded == {m \in Live : Terminated(m)}

(* The handles there can be.                                               *)
StoreModule == 1 .. HandleBound + Cardinality(File)

(* What the store promises.                                                *)
StoreInv == Store!TypeOK /\ Store!TerminatedWhenUnused

(* The store starts empty.                                                 *)
LEMMA StoreInitInv == Store!Init => StoreInv
  BY DEF Store!Init, StoreInv, Store!TypeOK, Store!TerminatedWhenUnused, Store!Used, Store!Needed

(* Every step keeps the types: what is needed is in memory, because a       *)
(* module that is freed is terminated, and a terminated one is needed by    *)
(* no one.                                                                 *)
LEMMA StoreNextType == StoreInv /\ [Store!Next]_Store!store_vars => Store!TypeOK'
<1> SUFFICES ASSUME StoreInv, [Store!Next]_Store!store_vars PROVE Store!TypeOK'
  OBVIOUS
<1> USE DEF StoreInv, Store!TypeOK
<1>1. ASSUME NEW m \in StoreModule, Store!Bring(m) PROVE Store!TypeOK'
  BY <1>1 DEF Store!Bring, StoreModule
<1>2. ASSUME NEW m \in Live, NEW h \in Live, Store!Need(m, h) PROVE Store!TypeOK'
  BY <1>2 DEF Store!Need
<1>3. ASSUME NEW h \in Live, Store!GiveUp(h) PROVE Store!TypeOK'
  BY <1>3 DEF Store!GiveUp, Store!TerminatedAfter
<1>4. ASSUME NEW m \in StoreEnded, NEW h \in StoreNeeds[m], Store!Release(m, h)
      PROVE Store!TypeOK'
  <2>1. /\ Live' = Live /\ HeldOutside' = HeldOutside
        /\ StoreNeeds' = [StoreNeeds EXCEPT ![m] = @ \ {h}]
        /\ StoreEnded' \in {StoreEnded, StoreEnded \cup {h}}
    BY <1>4 DEF Store!Release, Store!TerminatedAfter, StoreNeeds, StoreEnded
  <2>2. /\ Live \subseteq StoreModule /\ HeldOutside \subseteq Live
        /\ StoreEnded \subseteq Live /\ StoreNeeds \in [Live -> SUBSET Live]
    BY DEF StoreNeeds, StoreEnded, StoreModule
  <2>3. h \in Live /\ m \in Live
    BY <1>4, <2>2
  <2>4. /\ Live' \subseteq StoreModule /\ HeldOutside' \subseteq Live'
        /\ StoreEnded' \subseteq Live' /\ StoreNeeds' \in [Live' -> SUBSET Live']
    BY <2>1, <2>2, <2>3
  <2> QED BY <2>4 DEF StoreNeeds, StoreEnded, StoreModule
<1>5. ASSUME NEW m \in StoreEnded, Store!Free(m) PROVE Store!TypeOK'
  BY <1>5 DEF Store!Free, Store!TerminatedWhenUnused, Store!Used, Store!Needed
<1>6. ASSUME UNCHANGED Store!store_vars PROVE Store!TypeOK'
  BY <1>6 DEF Store!store_vars
<1> QED
  BY <1>1, <1>2, <1>3, <1>4, <1>5, <1>6 DEF Store!Next, StoreModule, StoreEnded, StoreNeeds

(* Every step keeps that the terminated modules are those without a user.  *)
LEMMA StoreNextTerminated == StoreInv /\ [Store!Next]_Store!store_vars => Store!TerminatedWhenUnused'
<1> SUFFICES ASSUME StoreInv, [Store!Next]_Store!store_vars PROVE Store!TerminatedWhenUnused'
  OBVIOUS
<1> USE DEF StoreInv, Store!TypeOK, Store!TerminatedWhenUnused, Store!Used, Store!Needed
<1>1. ASSUME NEW m \in StoreModule, Store!Bring(m) PROVE Store!TerminatedWhenUnused'
  BY <1>1 DEF Store!Bring, StoreModule
<1>2. ASSUME NEW m \in Live, NEW h \in Live, Store!Need(m, h) 
      PROVE Store!TerminatedWhenUnused'
  <2>1. /\ m \in HeldOutside /\ h \notin StoreEnded /\ Live' = Live /\ StoreEnded' = StoreEnded
        /\ StoreNeeds' = [StoreNeeds EXCEPT ![m] = @ \cup {h}]
        /\ HeldOutside' \in {HeldOutside, HeldOutside \ {h}}
    BY <1>2 DEF Store!Need, StoreNeeds, StoreEnded
  <2>2. /\ StoreEnded \subseteq Live /\ StoreNeeds \in [Live -> SUBSET Live]
        /\ \A x \in Live : x \in StoreEnded <=> ~(x \in HeldOutside \/ \E n \in Live : x \in StoreNeeds[n])
    BY DEF StoreNeeds, StoreEnded
  <2>3. \A x \in Live' : x \in StoreEnded'
                        <=> ~(x \in HeldOutside' \/ \E n \in Live' : x \in StoreNeeds'[n])
    BY <1>2, <2>1, <2>2
  <2> QED BY <2>3 DEF StoreNeeds, StoreEnded
<1>3. ASSUME NEW h \in Live, Store!GiveUp(h) PROVE Store!TerminatedWhenUnused'
  BY <1>3 DEF Store!GiveUp, Store!TerminatedAfter
<1>4. ASSUME NEW m \in StoreEnded, NEW h \in StoreNeeds[m], Store!Release(m, h)
      PROVE Store!TerminatedWhenUnused'
  <2>1. /\ Live' = Live /\ HeldOutside' = HeldOutside
        /\ StoreNeeds' = [StoreNeeds EXCEPT ![m] = @ \ {h}]
        /\ StoreEnded' = IF h \in HeldOutside' \/ \E n \in Live : h \in StoreNeeds'[n]
                          THEN StoreEnded ELSE StoreEnded \cup {h}
    BY <1>4 DEF Store!Release, Store!TerminatedAfter, StoreNeeds, StoreEnded
  <2>2. /\ StoreEnded \subseteq Live /\ StoreNeeds \in [Live -> SUBSET Live]
        /\ \A x \in Live : x \in StoreEnded <=> ~(x \in HeldOutside \/ \E n \in Live : x \in StoreNeeds[n])
    BY DEF StoreNeeds, StoreEnded
  <2>3. \A x \in Live' : x \in StoreEnded'
                        <=> ~(x \in HeldOutside' \/ \E n \in Live' : x \in StoreNeeds'[n])
    BY <1>4, <2>1, <2>2
  <2> QED BY <2>3 DEF StoreNeeds, StoreEnded
<1>5. ASSUME NEW m \in StoreEnded, Store!Free(m) PROVE Store!TerminatedWhenUnused'
  BY <1>5 DEF Store!Free
<1>6. ASSUME UNCHANGED Store!store_vars PROVE Store!TerminatedWhenUnused'
  BY <1>6 DEF Store!store_vars
<1> QED
  BY <1>1, <1>2, <1>3, <1>4, <1>5, <1>6 DEF Store!Next, StoreModule, StoreEnded, StoreNeeds

(* The types of the store, whatever its steps are made of.                 *)
LEMMA StoreTypes == Store!Spec => []Store!TypeOK
<1>1. StoreInv /\ [Store!Next]_Store!store_vars => StoreInv'
  BY StoreNextType, StoreNextTerminated DEF StoreInv
<1>2. StoreInv => Store!TypeOK
  BY DEF StoreInv
<1> QED
  BY StoreInitInv, <1>1, <1>2, PTL DEF Store!Spec

(* A module's terminators have run exactly when its last user is gone, for  *)
(* any number of modules that need each other in any way.                  *)
LEMMA TerminatedExactly == Store!Spec => []Store!TerminatedWhenUnused
<1>1. StoreInv /\ [Store!Next]_Store!store_vars => StoreInv'
  BY StoreNextType, StoreNextTerminated DEF StoreInv
<1>2. StoreInv => Store!TerminatedWhenUnused
  BY DEF StoreInv
<1> QED
  BY StoreInitInv, <1>1, <1>2, PTL DEF Store!Spec

(* Of the loader core: a module in memory has run its terminators exactly   *)
(* when neither the client nor a call under way holds it and no module in   *)
(* memory still has it on its list.                                        *)
EndedWhenUnused ==
  \A m \in Live : Terminated(m) <=> ~(m \in HeldOutside \/ \E n \in Live : m \in HeldDeps(n))

(* Where no load fails this holds between any two steps of DLOAD_load and    *)
(* DLOAD_unload, in the middle of their recursion too.                     *)
THEOREM TerminatedWithTheLastUse ==
  ASSUME Unfailing
  PROVE  Spec => []EndedWhenUnused
<1>1. Store!TerminatedWhenUnused => EndedWhenUnused
  BY DEF Store!TerminatedWhenUnused, Store!Used, Store!Needed, EndedWhenUnused
<1> QED BY LoaderImplementsStore, TerminatedExactly, <1>1, PTL DEF ImplementsStore

-----------------------------------------------------------------------------
(* What the client may count on.                                           *)

(* What the modules that run and were not loaded last need is among them:   *)
(* everything a handle of the client reaches is initialised.               *)
LEMMA ReachedIsUsable == CoreInv /\ UseInv /\ GraphInv => HandleIsUsable
<1> SUFFICES ASSUME CoreInv, UseInv, GraphInv PROVE HandleIsUsable
  OBVIOUS
<1> DEFINE T == {m \in Live : ~Terminated(m) /\ m < Bottom}
<1>1. NoUseAfterTermination
  BY UseImplies
<1>2. ASSUME NEW m \in client PROVE m \in T
  <2>1. m \in Handles /\ Outside(m) /\ m < Bottom
    BY CallArray DEF CoreInv, OrdersOK, Outside, GraphInv, GraphApart
  <2>2. m \in Live
    BY <2>1 DEF UseInv, UsedIsLive
  <2>3. loaded[m].use_count >= AllUses(m) /\ loaded[m].use_count \in Int
    BY <2>1, <2>2, ModuleRecord DEF UseInv, Covered
  <2>4. Cardinality(UsesByModules(m)) \in Nat
    BY UsesFinite DEF FiniteUses, UseInv, ControlInv
  <2>5. loaded[m].use_count # 0
    BY <2>1, <2>3, <2>4 DEF AllUses
  <2>6. ~Terminated(m)
    BY <2>2, <2>5 DEF UseInv, ModuleState
  <2> QED BY <2>1, <2>2, <2>6
<1>3. ASSUME NEW m \in T, NEW h \in HeldDeps(m) PROVE h \in T
  <2>1. h \in Live /\ ~Terminated(h)
    BY <1>1 DEF NoUseAfterTermination
  <2>2. m \in Handles
    BY LiveHandles
  <2>3. PICK i \in HeldPositions(m) : h = loaded[m].deps[i]
    BY DEF HeldDeps
  <2>4. i \in 1 .. Len(loaded[m].deps)
    BY <2>2, HeldPlaces DEF RestHeld, UseInv, ControlInv
  <2>5. h < Bottom
    BY <2>2, <2>3, <2>4 DEF GraphInv, GraphApart
  <2> QED BY <2>1, <2>5
<1>4. ASSUME NEW m \in Reach(client) PROVE m \in T
  <2>1. T \in SUBSET Handles
    BY LiveHandles
  <2> HIDE DEF T
  <2>2. client \subseteq T /\ \A n \in T : HeldDeps(n) \subseteq T
    BY <1>2, <1>3
  <2> QED BY <1>4, <2>1, <2>2 DEF Reach
<1>5. ASSUME NEW m \in T
      PROVE  /\ m \in Live /\ Initialized(m) /\ ~Terminated(m)
             /\ \A i \in DOMAIN loaded[m].deps : loaded[m].deps[i] # 0
  <2>1. m \in Live /\ m \in Handles /\ ~Terminated(m) /\ m < Bottom
    BY LiveHandles
  <2>2. Initialized(m)
    <3>1. Bottom \in Nat /\ m \in Nat
      <4>1. Bottom = NewHandle \/ (frames # << >> /\ Bottom = frames[1].h)
        BY DEF Bottom
      <4>2. frames # << >> => 1 \in 1 .. Len(frames)
        BY CallArray, EmptySeq
      <4> QED BY <2>1, <4>1, <4>2, CallArray DEF NewHandle
    <3>2. ~Contains(dependency_stack, m)
      BY <2>1, <3>1 DEF GraphInv, StackOrder, Contains
    <3> QED BY <2>1, <3>2 DEF GraphInv, StackOrder
  <2>3. \A i \in DOMAIN loaded[m].deps : loaded[m].deps[i] # 0
    BY <2>1, ModuleRecord DEF GraphInv, DependsOnNeeded
  <2> QED BY <2>1, <2>2, <2>3
<1> HIDE DEF T
<1> QED BY <1>4, <1>5 DEF HandleIsUsable

(* A handle the client holds stands for a program that can run, for every   *)
(* dependency graph: all it needs is in memory, initialised, and not       *)
(* terminated.                                                             *)
THEOREM HandlesAreUsable ==
  ASSUME Unfailing
  PROVE  Spec => []HandleIsUsable
  BY GraphInvariant, ReachedIsUsable, PTL

(* A module nobody outside uses is needed by a module in memory.           *)
LEMMA SomebodyNeeds ==
  ASSUME CoreInv, UseInv, GraphInv, Exact, Idle, ret = NoReturn, client = {}, NEW m \in Live
  PROVE  \E n \in Live : loaded[m].file \in ToSet(Needed(loaded[n].file))
<1>1. m \in Handles /\ frames = << >> /\ DOMAIN frames = {}
  BY LiveHandles DEF Idle
<1>2. ~BeingUnloaded(m) /\ ~Outside(m)
  BY <1>1 DEF BeingUnloaded, Outside, NoReturn
<1>3. loaded[m].use_count >= 1 /\ loaded[m].use_count = Cardinality(UsesByModules(m))
  <2>1. loaded[m].use_count >= 1
    BY <1>2 DEF UseInv, ModuleState
  <2>2. Cardinality(UsesByModules(m)) \in Nat
    BY UsesFinite DEF FiniteUses, UseInv, ControlInv
  <2> QED BY <1>2, <2>1, <2>2 DEF Exact, AllUses
<1>4. UsesByModules(m) # {}
  BY <1>3, FS_EmptySet
<1>5. PICK n \in Live : m \in HeldDeps(n)
  BY <1>1, <1>4, NeedIsUse DEF NeedsAreUses
<1>6. n \in Handles
  BY LiveHandles
<1>7. PICK i \in HeldPositions(n) : m = loaded[n].deps[i]
  BY <1>5 DEF HeldDeps
<1>8. i \in 1 .. Len(loaded[n].deps)
  BY <1>6, HeldPlaces DEF RestHeld, UseInv, ControlInv
<1>9. loaded[m].file \in ToSet(Needed(loaded[n].file))
  BY <1>6, <1>7, <1>8 DEF GraphInv, DependsOnNeeded
<1> QED BY <1>9

(* So without a circle among the files there is none.                      *)
LEMMA NothingLeft == CoreInv /\ UseInv /\ GraphInv /\ Exact => AllReleased
<1> SUFFICES ASSUME CoreInv, UseInv, GraphInv, Exact, Idle, ret = NoReturn, client = {}, Acyclic
             PROVE  loaded_objects = << >>
  BY DEF AllReleased
<1>1. PICK N : N = Cardinality(File)
  OBVIOUS
<1>2. N \in Nat
  BY <1>1, DloadAssumption, FS_CardinalityType
<1>3. PICK rank \in [File -> 1 .. N] : \A f \in File : \A g \in ToSet(Needed(f)) : rank[g] < rank[f]
  BY <1>1 DEF Acyclic
<1> DEFINE place(m) == N - rank[loaded[m].file]
           T == {place(m) : m \in Live}
<1>4. ASSUME NEW m \in Live PROVE loaded[m].file \in File /\ place(m) \in Nat
  <2>1. loaded[m].file \in File
    BY LiveHandles, ModuleRecord DEF Module
  <2>2. rank[loaded[m].file] \in 1 .. N
    BY <1>3, <2>1
  <2>3. \A r \in 1 .. N : N - r \in Nat
    BY <1>2
  <2> QED BY <2>1, <2>2, <2>3
<1>5. Live = {}
  <2> SUFFICES ASSUME Live # {} PROVE FALSE
    OBVIOUS
  <2>1. T \in SUBSET Nat /\ T # {}
    BY <1>4
  <2>2. PICK m \in Live : \A n \in Live : ~(place(n) < place(m))
    <3> HIDE DEF T
    <3>1. PICK x \in T : \A y \in T : x <= y
      BY <2>1, LeastOfPlaces
    <3> USE DEF T
    <3>2. PICK m \in Live : x = place(m)
      OBVIOUS
    <3>3. \A n \in Live : place(m) <= place(n)
      BY <3>1, <3>2
    <3> QED BY <1>4, <3>3
  <2>3. PICK n \in Live : loaded[m].file \in ToSet(Needed(loaded[n].file))
    BY SomebodyNeeds
  <2>4. rank[loaded[m].file] < rank[loaded[n].file]
    BY <1>3, <1>4, <2>3
  <2>5. rank[loaded[m].file] \in 1 .. N /\ rank[loaded[n].file] \in 1 .. N
    BY <1>3, <1>4
  <2>6. place(n) < place(m)
    <3>1. \A a, b \in 1 .. N : a < b => N - b < N - a
      BY <1>2
    <3> QED BY <2>4, <2>5, <3>1
  <2> QED BY <2>2, <2>6
<1>6. DOMAIN loaded_objects = {}
  BY <1>5 DEF Live, ToSet
<1>7. loaded_objects \in Seq(Handles) /\ DOMAIN loaded_objects = 1 .. Len(loaded_objects)
      /\ Len(loaded_objects) \in Nat
  BY LenProperties DEF CoreInv, OrdersOK, Handles
<1>8. Len(loaded_objects) = 0
  BY <1>6, <1>7
<1> QED BY <1>7, <1>8, EmptySeq

(* When the client has given up every handle nothing stays in memory, for   *)
(* any files that do not need each other in a circle.                      *)
THEOREM EverythingReleased ==
  ASSUME Unfailing
  PROVE  Spec => []AllReleased
  BY ExactInvariant, NothingLeft, PTL

(* With files named as they are needed no load is refused as circular, in   *)
(* a circle or out of one: the module under load is found in the queue     *)
(* before a second load is asked for.  So none is refused wrongly.         *)
THEOREM NoneIsRefused ==
  ASSUME Unfailing
  PROVE  Spec => [][~RejectCircular]_vars /\ CircularOnlyIfLoading
<1>1. CoreInv /\ UseInv /\ GraphInv => ~RejectCircular
  BY NeverCircular DEF RejectCircular
<1>2. ~RejectCircular
      => /\ [~RejectCircular]_vars
         /\ [RejectCircular => \E i \in 1 .. Len(frames) - 1 : frames[i].file = Me.file]_vars
  OBVIOUS
<1> QED BY <1>1, <1>2, GraphInvariant, PTL DEF CircularOnlyIfLoading

-----------------------------------------------------------------------------
(* The order of the initialisers, of files that need each other neither    *)
(* twice nor in a circle.                                                  *)

(* A load under way is for the entry its user is at, and later calls have   *)
(* later handles.                                                          *)
CallsInOrder ==
  /\ \A i \in DOMAIN frames : (i > 1 /\ frames[i].op = "load") =>
        /\ frames[i - 1].next \in DOMAIN Needed(frames[i - 1].file)
        /\ frames[i].file = Needed(frames[i - 1].file)[frames[i - 1].next]
  /\ \A i, j \in DOMAIN frames :
        (frames[i].op = "load" /\ i < j /\ frames[j].h # 0) => frames[i].h < frames[j].h
  /\ (ret.of = "load" /\ frames # << >>) => Me.h < ret.val

(* What was placed later is higher on the stack.                           *)
StackInOrder ==
  \A i, j \in DOMAIN dependency_stack : i < j => dependency_stack[i] < dependency_stack[j]

(* No module of the graph is initialised before the graph is complete.      *)
NoneStarted ==
  (frames # << >> /\ frames[1].pc = "needed") =>
    \A i \in DOMAIN init_order : init_order[i] < Bottom

(* The load of w, if it is not done, has dealt with its entry p.            *)
Passed(w, p) ==
  \A i \in DOMAIN frames : (frames[i].op = "load" /\ frames[i].h = w) =>
     /\ p <= frames[i].next
     /\ (i = Len(frames) /\ ret = NoReturn) => p < frames[i].next

(* The load of w called the load of h.                                     *)
BroughtBy(w, h) ==
  \E p \in DOMAIN Needed(loaded[w].file) :
     Needed(loaded[w].file)[p] = loaded[h].file /\ Passed(w, p)

(* Everything in the graph but its bottom was brought by a part of it.      *)
Brought == \A h \in Handles : h > Bottom => \E w \in Handles : w >= Bottom /\ BroughtBy(w, h)

(* The ranks that show that no files need each other in a circle.           *)
Ranks ==
  {rank \in [File -> 1 .. Cardinality(File)] :
     \A f \in File : \A g \in ToSet(Needed(f)) : rank[g] < rank[f]}

(* The files of the graph are below that of its bottom.                    *)
Descends ==
  \A rank \in Ranks : \A h \in Handles :
     h > Bottom => rank[loaded[h].file] < rank[loaded[Bottom].file]

(* The files are as ForestInitializedFirst has them.                       *)
Forest == NeededOnce /\ Acyclic

(* No module of the graph depends on an earlier one of the graph.           *)
NoneBack ==
  \A m \in Handles : m >= Bottom => \A i \in 1 .. Len(loaded[m].deps) :
     loaded[m].deps[i] < Bottom \/ m < loaded[m].deps[i]

OrderInv ==
  /\ CallsInOrder /\ StackInOrder /\ NoneStarted /\ Brought /\ Descends
  /\ Forest => NoneBack /\ NeededInitializedFirst

(* What was initialised are modules.                                       *)
LEMMA StartedAreModules ==
  ASSUME CoreInv
  PROVE  /\ init_order \in Seq(Handles)
         /\ \A i \in DOMAIN init_order : init_order[i] \in Handles
         /\ \A m \in ToSet(init_order) : m \in Handles
<1>1. init_order \in Seq(Handles)
  BY DEF CoreInv, OrdersOK, Handles
<1>2. DOMAIN init_order = 1 .. Len(init_order)
  BY <1>1, LenProperties
<1>3. \A i \in DOMAIN init_order : init_order[i] \in Handles
  BY <1>1, <1>2, ElementOfSeq
<1> QED BY <1>1, <1>3 DEF ToSet

(* Nothing is initialised, and the lists of what was are the same.          *)
LEMMA InitializedFirstKept ==
  ASSUME CoreInv, NeededInitializedFirst, init_order' = init_order,
         \A m \in ToSet(init_order) : loaded'[m].deps = loaded[m].deps,
         \A m \in Handles : loaded'[m].base = loaded[m].base
  PROVE  NeededInitializedFirst'
<1> SUFFICES ASSUME NEW m \in ToSet(init_order), NEW h \in ToSet(loaded[m].deps) \ {0, m}
             PROVE  loaded'[h].base \/ Before(init_order, h, m)
  BY DEF NeededInitializedFirst, Before
<1>1. m \in Handles
  BY StartedAreModules
<1>2. h \in Handles
  <2>1. PICK i \in DOMAIN loaded[m].deps : h = loaded[m].deps[i]
    BY DEF ToSet
  <2>2. h \in 0 .. Len(loaded) /\ Handles = 1 .. Len(loaded) /\ Len(loaded) \in Nat
    BY <1>1, <2>1, ModuleRecord, CallArray
  <2> QED BY <2>2
<1>3. loaded[h].base \/ Before(init_order, h, m)
  BY DEF NeededInitializedFirst
<1> QED BY <1>2, <1>3

(* No load is at its list and nothing is in the graph.                     *)
GraphEmpty ==
  /\ Bottom = NewHandle /\ dependency_stack = << >>
  /\ \A i \in DOMAIN frames : /\ frames[i].pc # "needed"
                              /\ frames[i].op = "load" => Len(frames) = 1
  /\ ret.of = "load" => frames = << >>

(* Then only the order so far matters.                                     *)
LEMMA EmptyInOrder ==
  CoreInv /\ GraphEmpty =>
    CallsInOrder /\ StackInOrder /\ NoneStarted /\ Brought /\ Descends /\ NoneBack
<1> SUFFICES ASSUME CoreInv, GraphEmpty
             PROVE  CallsInOrder /\ StackInOrder /\ NoneStarted /\ Brought /\ Descends /\ NoneBack
  OBVIOUS
<1>1. /\ DOMAIN frames = 1 .. Len(frames) /\ Len(frames) \in Nat /\ DOMAIN dependency_stack = {}
      /\ \A m \in Handles : ~(m >= Bottom) /\ ~(m > Bottom)
  <2>1. \A m \in Handles : m \in Nat /\ Bottom \in Nat /\ m < Bottom
    BY CallArray DEF GraphEmpty, NewHandle
  <2>2. \A a, b \in Nat : a < b => ~(a >= b) /\ ~(a > b)
    OBVIOUS
  <2> QED BY <2>1, <2>2, CallArray DEF GraphEmpty
<1>2. CallsInOrder
  <2>1. \A i \in 1 .. 1 : ~(i > 1) /\ \A j \in 1 .. 1 : ~(i < j)
    OBVIOUS
  <2> QED BY <1>1, <2>1 DEF GraphEmpty, CallsInOrder
<1>3. frames # << >> => 1 \in DOMAIN frames
  BY CallArray, TopOfCalls
<1> QED BY <1>1, <1>2, <1>3 DEF GraphEmpty, StackInOrder, NoneStarted, Brought, Descends, NoneBack

(* A step after which there is no graph keeps what was initialised.         *)
LEMMA OrderWithoutGraph ==
  ASSUME CoreInv, CoreInv', OrderInv, GraphEmpty', disk' = disk, init_order' = init_order,
         \A m \in Handles : loaded'[m].deps = loaded[m].deps /\ loaded'[m].base = loaded[m].base
  PROVE  OrderInv'
<1>1. CallsInOrder' /\ StackInOrder' /\ NoneStarted' /\ Brought' /\ Descends' /\ NoneBack'
  BY EmptyInOrder, PTL
<1>2. Forest' <=> Forest
  BY DEF Forest, NeededOnce, Acyclic, Needed
<1>3. ASSUME Forest PROVE NeededInitializedFirst'
  <2>1. \A m \in ToSet(init_order) : m \in Handles
    BY StartedAreModules
  <2> QED BY <1>3, <2>1, InitializedFirstKept DEF OrderInv
<1> QED BY <1>1, <1>2, <1>3 DEF OrderInv

(* A load is asked for by one that is at its list.                         *)
LEMMA LoadDependentOrder ==
  ASSUME CoreInv, CoreInv', UseInv, GraphInv, OrderInv, disk' = disk, LoadDependent
  PROVE  OrderInv'
<1>1. PICK n, file, f :
        n = Len(frames) /\ file = Needed(Me.file)[Me.next] /\ f = Call("load", file, 0, "headers")
  OBVIOUS
<1>2. /\ PendingNeeded /\ Running("load", "needed") /\ ret = NoReturn /\ Me.next <= Len(Needed(Me.file))
      /\ frames' = Append(frames, f)
      /\ UNCHANGED << loaded, dependency_stack, ret, init_order >>
  BY <1>1 DEF LoadDependent, PendingNeeded
<1>3. /\ frames # << >> /\ n \in Nat \ {0} /\ n \in 1 .. n /\ 1 \in 1 .. n /\ DOMAIN frames = 1 .. n
      /\ Me = frames[n] /\ Me \in Frame /\ Handles = 1 .. Len(loaded) /\ Len(loaded) \in Nat
  BY <1>1, <1>2, LoadUnderWay
<1>4. file \in File
  BY <1>1, <1>2, NeededFile
<1>5. f \in Frame /\ f.op = "load" /\ f.h = 0 /\ f.file = file
  BY <1>1, <1>4 DEF Call, Frame
<1>6. /\ DOMAIN frames' = 1 .. n + 1 /\ Len(frames') = n + 1 /\ frames'[n + 1] = f
      /\ \A i \in 1 .. n : i \in 1 .. n + 1 /\ i # n + 1 /\ frames'[i] = frames[i]
      /\ \A i \in 1 .. n + 1 : i # n + 1 => i \in 1 .. n
  <2>1. Pushed(f)
    BY <1>2, <1>5, PushFrame
  <2>2. \A i \in 1 .. n : i \in 1 .. n + 1 /\ i # n + 1
    BY <1>3
  <2>3. \A i \in 1 .. n + 1 : i # n + 1 => i \in 1 .. n
    BY <1>3
  <2>4. n + 1 \in 1 .. n + 1
    BY <1>3
  <2> QED BY <1>1, <2>1, <2>2, <2>3, <2>4 DEF Pushed
<1>7. frames' # << >> /\ frames'[1] = frames[1]
  <2>1. frames'[1] = frames[1] /\ 1 \in DOMAIN frames'
    BY <1>3, <1>6
  <2> QED BY <2>1
<1>8. Handles' = Handles /\ NewHandle' = NewHandle /\ Bottom' = Bottom
  BY <1>2, <1>3, <1>7 DEF Handles, NewHandle, Bottom
<1>9. CallsInOrder'
  <2>1. ASSUME NEW i \in 1 .. n + 1, i > 1
        PROVE  /\ frames'[i - 1].next \in DOMAIN Needed(frames'[i - 1].file)
               /\ frames'[i].op = "load" => frames'[i].file = Needed(frames'[i - 1].file)[frames'[i - 1].next]
    <3>1. CASE i = n + 1
      <4>1. i - 1 = n /\ frames'[i - 1] = Me
        BY <1>3, <1>6, <3>1
      <4>2. Me.next \in DOMAIN Needed(Me.file)
        <5>1. Needed(Me.file) \in Seq(File) /\ Me.next \in Nat \ {0}
          BY <1>3, CallArray, DiskEntries DEF CoreInv
        <5> QED BY <1>2, <5>1, LenProperties
      <4> QED BY <1>1, <1>5, <1>6, <3>1, <4>1, <4>2
    <3>2. CASE i # n + 1
      <4>1. i \in 1 .. n /\ i - 1 \in 1 .. n /\ frames'[i] = frames[i] /\ frames'[i - 1] = frames[i - 1]
        <5>1. i \in 1 .. n /\ i - 1 \in 1 .. n
          BY <1>3, <2>1, <3>2
        <5> QED BY <1>6, <5>1
      <4>2. frames[i].op = "load"
        BY <1>1, <1>2, <4>1, LoadUnderWay
      <4> QED BY <1>3, <2>1, <4>1, <4>2 DEF OrderInv, CallsInOrder
    <3> QED BY <3>1, <3>2
  <2>2. ASSUME NEW i \in 1 .. n + 1, NEW j \in 1 .. n + 1,
               frames'[i].op = "load", i < j, frames'[j].h # 0
        PROVE  frames'[i].h < frames'[j].h
    <3>1. j \in 1 .. n
      BY <1>5, <1>6, <2>2
    <3>2. i \in 1 .. n
      BY <1>3, <2>2, <3>1
    <3> QED BY <1>3, <1>6, <2>2, <3>1, <3>2 DEF OrderInv, CallsInOrder
  <2>3. ret'.of # "load"
    BY <1>2 DEF NoReturn
  <2> QED BY <1>6, <2>1, <2>2, <2>3 DEF CallsInOrder, Needed
<1>10. StackInOrder' /\ NoneStarted'
  BY <1>2, <1>3, <1>7, <1>8 DEF OrderInv, StackInOrder, NoneStarted
<1>11. Brought'
  <2>1. ASSUME NEW w \in Handles, NEW p, Passed(w, p) PROVE Passed(w, p)'
    <3>1. w # 0
      BY <1>3
    <3>2. ASSUME NEW i \in 1 .. n + 1, frames'[i].op = "load", frames'[i].h = w
          PROVE  p <= frames'[i].next /\ i # n + 1
      <4>1. i \in 1 .. n
        BY <1>5, <1>6, <3>1, <3>2
      <4> QED BY <1>3, <1>6, <2>1, <3>2, <4>1 DEF Passed
    <3> QED BY <1>6, <3>2 DEF Passed
  <2> QED BY <1>2, <1>8, <2>1 DEF OrderInv, Brought, BroughtBy, Needed
<1>12. Descends'
  BY <1>2, <1>8 DEF OrderInv, Descends, Ranks, Needed
<1>13. Forest => NoneBack' /\ NeededInitializedFirst'
  BY <1>2, <1>8 DEF OrderInv, NoneBack, NeededInitializedFirst, Before
<1>14. Forest' <=> Forest
  BY DEF Forest, NeededOnce, Acyclic, Needed
<1> QED BY <1>9, <1>10, <1>11, <1>12, <1>13, <1>14 DEF OrderInv

(* A module is placed, on top of the stack and as the last of the graph.   *)
LEMMA PlacedOrder ==
  ASSUME Unfailing, CoreInv, CoreInv', UseInv, UseInv', GraphInv, OrderInv, disk' = disk, PlaceModule
  PROVE  OrderInv'
<1>1. PICK k, f, n :
           /\ k = NewHandle /\ n = Len(frames) /\ Running("load", "headers") /\ ret = NoReturn
           /\ f \in Frame /\ f.op = "load" /\ f.pc = "needed" /\ f.h = k /\ f.file = Me.file /\ f.next = 1
           /\ DOMAIN frames' = 1 .. n /\ frames'[n] = f
           /\ \A i \in 1 .. n : i # n => frames'[i] = frames[i]
           /\ Live' = Live \cup {k} /\ k \notin Handles /\ Handles' = Handles \cup {k}
           /\ NewHandle' = k + 1
           /\ \A m \in Handles : loaded'[m] = loaded[m]
           /\ loaded'[k] = NewModule(Me.file, FALSE)
           /\ dependency_list' = Append(dependency_list, SoName(Me.file))
           /\ dependency_stack' = Append(dependency_stack, k)
           /\ Loading /\ Loading' /\ Enqueue(Me.file, FALSE)
           /\ UNCHANGED << ret, client, init_order, fini_order >>
  BY PlacedEffect
<1>2. /\ frames # << >> /\ n \in Nat \ {0} /\ DOMAIN frames = 1 .. n /\ n \in 1 .. n /\ 1 \in 1 .. n
      /\ Me = frames[n] /\ Me \in Frame /\ Me.h = 0 /\ Me.file \in File
      /\ \A i \in 1 .. n : frames[i].op = "load"
      /\ \A i \in 1 .. n : i # n => frames[i].h # 0 /\ frames[i].h \in Handles
      /\ Handles = 1 .. Len(loaded) /\ Len(loaded) \in Nat /\ k = Len(loaded) + 1
  BY <1>1, LoadUnderWay DEF Frame
<1>3. k \in Nat \ {0} /\ \A m \in Handles : m \in Nat /\ m < k /\ ~(m > k)
  BY <1>2
<1>4. loaded'[k].file = Me.file /\ Len(loaded'[k].deps) = 0
  BY <1>1, EmptySeq DEF NewModule
<1>5. Bottom' = IF n = 1 THEN k ELSE frames[1].h
  <2>1. frames' # << >> /\ frames'[1].op = "load" /\ frames'[1].h # 0
        /\ frames'[1].h = IF n = 1 THEN k ELSE frames[1].h
    <3>1. CASE n = 1
      BY <1>1, <1>2, <1>3, <3>1
    <3>2. CASE n # 1
      BY <1>1, <1>2, <3>2
    <3> QED BY <3>1, <3>2
  <2> QED BY <2>1 DEF Bottom
<1>6. Bottom' = Bottom /\ Bottom \in Nat
  BY <1>1, <1>5, BottomIs
<1>7. CallsInOrder'
  <2>1. ASSUME NEW i \in 1 .. n, i > 1
        PROVE  /\ frames'[i - 1].next \in DOMAIN Needed(frames'[i - 1].file)
               /\ frames'[i].file = Needed(frames'[i - 1].file)[frames'[i - 1].next]
    <3>1. i - 1 \in 1 .. n /\ i - 1 # n
      <4>1. n \in Nat
        BY <1>2
      <4> QED BY <2>1, <4>1
    <3>2. frames'[i - 1] = frames[i - 1] /\ frames'[i].file = frames[i].file
      <4>1. CASE i = n
        BY <1>1, <1>2, <3>1, <4>1
      <4>2. CASE i # n
        BY <1>1, <3>1, <4>2
      <4> QED BY <4>1, <4>2
    <3>3. frames[i].op = "load" /\ i \in DOMAIN frames
      BY <1>2
    <3> QED BY <2>1, <3>2, <3>3 DEF OrderInv, CallsInOrder
  <2>2. ASSUME NEW i \in 1 .. n, NEW j \in 1 .. n, i < j, frames'[j].h # 0
        PROVE  frames'[i].h < frames'[j].h
    <3>1. i # n /\ frames'[i] = frames[i] /\ frames[i].h \in Handles
      <4>1. i # n
        <5>1. n \in Nat
          BY <1>2
        <5> QED BY <2>2, <5>1
      <4> QED BY <1>1, <1>2, <4>1
    <3>2. CASE j = n
      BY <1>1, <1>3, <3>1, <3>2
    <3>3. CASE j # n
      BY <1>1, <1>2, <2>2, <3>1, <3>3 DEF OrderInv, CallsInOrder
    <3> QED BY <3>2, <3>3
  <2>3. ret'.of # "load"
    BY <1>1 DEF NoReturn
  <2> QED BY <1>1, <2>1, <2>2, <2>3 DEF CallsInOrder, Needed
<1>8. StackInOrder'
  <2>1. /\ dependency_stack \in Seq(Handles) /\ Len(dependency_stack) \in Nat
        /\ DOMAIN dependency_stack = 1 .. Len(dependency_stack)
        /\ \A i \in 1 .. Len(dependency_stack) : dependency_stack[i] \in Handles
    BY LenProperties, ElementOfSeq DEF CoreInv, OrdersOK, Handles
  <2> DEFINE s == Len(dependency_stack)
  <2>2. /\ DOMAIN dependency_stack' = 1 .. s + 1 /\ dependency_stack'[s + 1] = k
        /\ \A i \in 1 .. s : dependency_stack'[i] = dependency_stack[i]
    <3>1. dependency_stack \in Seq(Nat) /\ k \in Nat
      BY <1>3, <2>1, LenProperties
    <3> QED BY <1>1, <3>1, AppendProperties, LenProperties
  <2>3. ASSUME NEW i \in 1 .. s + 1, NEW j \in 1 .. s + 1, i < j
        PROVE  dependency_stack'[i] < dependency_stack'[j]
    <3>1. i \in 1 .. s /\ (j = s + 1 \/ j \in 1 .. s)
      BY <2>1, <2>3
    <3>2. CASE j = s + 1
      BY <1>3, <2>1, <2>2, <3>1, <3>2
    <3>3. CASE j \in 1 .. s
      BY <2>1, <2>2, <2>3, <3>1, <3>3 DEF OrderInv, StackInOrder
    <3> QED BY <3>1, <3>2, <3>3
  <2> QED BY <2>2, <2>3 DEF StackInOrder
<1>9. NoneStarted'
  <2>1. CASE n = 1
    <3>1. \A i \in DOMAIN init_order : init_order[i] \in Handles
      BY StartedAreModules
    <3> QED BY <1>1, <1>3, <1>5, <2>1, <3>1 DEF NoneStarted
  <2>2. CASE n # 1
    BY <1>1, <1>2, <1>6, <2>2 DEF OrderInv, NoneStarted
  <2> QED BY <2>1, <2>2
<1>10. Brought'
  <2>1. CASE n = 1
    <3>1. \A h \in Handles' : ~(h > Bottom')
      BY <1>1, <1>3, <1>5, <2>1
    <3> QED BY <3>1 DEF Brought
  <2>2. ASSUME NEW h \in Handles, h > Bottom
        PROVE  \E w \in Handles' : w >= Bottom /\ BroughtBy(w, h)'
    <3>1. PICK w \in Handles : w >= Bottom /\ BroughtBy(w, h)
      BY <2>2 DEF OrderInv, Brought
    <3>2. PICK p \in DOMAIN Needed(loaded[w].file) :
             Needed(loaded[w].file)[p] = loaded[h].file /\ Passed(w, p)
      BY <3>1 DEF BroughtBy
    <3>3. Passed(w, p)'
      <4>1. ASSUME NEW i \in 1 .. n, frames'[i].h = w PROVE i # n /\ frames'[i] = frames[i]
        <5>1. i # n
          BY <1>1, <4>1
        <5> QED BY <1>1, <5>1
      <4>2. Len(frames') = n
        <5>1. Len(frames') \in Nat /\ 1 .. Len(frames') = 1 .. n
          BY <1>1, LenProperties DEF CoreInv, FramesOK
        <5> QED BY <1>2, <5>1
      <4> QED BY <1>1, <1>2, <3>2, <4>1, <4>2 DEF Passed
    <3>4. BroughtBy(w, h)'
      BY <1>1, <3>2, <3>3 DEF BroughtBy, Needed
    <3> QED BY <1>1, <3>1, <3>4
  <2>3. ASSUME n # 1
        PROVE  \E w \in Handles' : w >= Bottom /\ BroughtBy(w, k)'
    <3>0. PICK w, p : w = frames[n - 1].h /\ p = frames[n - 1].next
      OBVIOUS
    <3>1. n > 1 /\ n - 1 \in 1 .. n /\ n - 1 # n
      <4>1. n \in Nat \ {0}
        BY <1>2
      <4> QED BY <2>3, <4>1
    <3>2. w \in Handles /\ w # 0 /\ w >= Bottom /\ loaded[w].file = frames[n - 1].file
      BY <1>2, <3>0, <3>1 DEF GraphInv, CallsNest, GraphApart
    <3>3. p \in DOMAIN Needed(loaded[w].file) /\ Needed(loaded[w].file)[p] = Me.file /\ p \in Nat
      <4>1. p \in DOMAIN Needed(frames[n - 1].file) /\ frames[n].file = Needed(frames[n - 1].file)[p]
        BY <1>2, <3>0, <3>1 DEF OrderInv, CallsInOrder
      <4>2. p \in Nat
        BY <1>1, <3>0, <3>1, CallArray
      <4> QED BY <1>2, <3>2, <4>1, <4>2
    <3>4. frames'[n - 1] = frames[n - 1]
      BY <1>1, <3>1
    <3>5. \A i \in 1 .. n : frames'[i].h = w => i = n - 1
      <4>1. frames'[n - 1].h = w /\ n - 1 \in DOMAIN frames'
        BY <1>1, <3>0, <3>1, <3>4
      <4> QED BY <1>1, <3>2, <4>1 DEF UseInv, ControlInv, CallsOK
    <3>6. Len(frames') = n
      <4>1. Len(frames') \in Nat /\ 1 .. Len(frames') = 1 .. n
        BY <1>1, LenProperties DEF CoreInv, FramesOK
      <4> QED BY <1>2, <4>1
    <3>7. loaded'[w].file = loaded[w].file /\ loaded'[k].file = Me.file
      BY <1>1, <1>4, <3>2
    <3>8. Passed(w, p)'
      <4>1. ASSUME NEW i \in 1 .. n, frames'[i].h = w PROVE p <= frames'[i].next /\ i # Len(frames')
        <5>1. i = n - 1 /\ frames'[i].next = p
          BY <3>0, <3>4, <3>5, <4>1
        <5>2. p <= p
          BY <3>3
        <5> QED BY <3>1, <3>6, <5>1, <5>2
      <4> QED BY <1>1, <4>1 DEF Passed
    <3>9. BroughtBy(w, k)'
      BY <3>3, <3>7, <3>8 DEF BroughtBy, Needed
    <3> QED BY <1>1, <3>2, <3>9
  <2>4. CASE n # 1
    BY <1>1, <1>6, <2>2, <2>3, <2>4 DEF Brought
  <2> QED BY <2>1, <2>4
<1>11. Descends'
  <2>1. CASE n = 1
    <3>1. \A h \in Handles' : ~(h > Bottom')
      BY <1>1, <1>3, <1>5, <2>1
    <3> QED BY <3>1 DEF Descends
  <2>2. CASE n # 1
    <3>1. Bottom \in Handles /\ Ranks' = Ranks
      BY <1>2, <1>5, <1>6, <2>2 DEF Ranks, Needed
    <3>2. ASSUME NEW rank \in Ranks PROVE rank[Me.file] < rank[loaded[Bottom].file]
      <4> DEFINE w == frames[n - 1].h
      <4>1. n > 1 /\ n - 1 \in 1 .. n /\ n - 1 # n
        <5>1. n \in Nat \ {0}
          BY <1>2
        <5> QED BY <2>2, <5>1
      <4>2. w \in Handles /\ w >= Bottom /\ loaded[w].file = frames[n - 1].file
            /\ Me.file \in ToSet(Needed(loaded[w].file))
        BY <1>2, <4>1 DEF GraphInv, CallsNest, GraphApart
      <4> HIDE DEF w
      <4>3. loaded[w].file \in File /\ loaded[Bottom].file \in File
        BY <3>1, <4>2, ModuleRecord DEF Module
      <4>4. rank[Me.file] < rank[loaded[w].file]
        BY <4>2, <4>3 DEF Ranks
      <4>5. w = Bottom \/ rank[loaded[w].file] < rank[loaded[Bottom].file]
        <5>1. w = Bottom \/ w > Bottom
          BY <1>3, <1>6, <4>2
        <5> QED BY <4>2, <5>1 DEF OrderInv, Descends
      <4>6. rank[Me.file] \in Nat /\ rank[loaded[w].file] \in Nat /\ rank[loaded[Bottom].file] \in Nat
        <5>1. \A x \in File : rank[x] \in 1 .. Cardinality(File)
          BY DEF Ranks
        <5>2. \A x \in 1 .. Cardinality(File) : x \in Nat
          OBVIOUS
        <5> QED BY <1>2, <4>3, <5>1, <5>2
      <4> QED BY <4>4, <4>5, <4>6
    <3>3. ASSUME NEW rank \in Ranks, NEW h \in Handles', h > Bottom
          PROVE  rank[loaded'[h].file] < rank[loaded'[Bottom].file]
      <4>1. loaded'[Bottom] = loaded[Bottom]
        BY <1>1, <3>1
      <4>2. CASE h = k
        BY <1>4, <3>2, <4>1, <4>2
      <4>3. CASE h \in Handles
        BY <1>1, <3>3, <4>1, <4>3 DEF OrderInv, Descends
      <4> QED BY <1>1, <4>2, <4>3
    <3> QED BY <1>6, <3>1, <3>3 DEF Descends
  <2> QED BY <2>1, <2>2
<1>12. Forest => NoneBack' /\ NeededInitializedFirst'
  <2> SUFFICES ASSUME Forest PROVE NoneBack' /\ NeededInitializedFirst'
    OBVIOUS
  <2>1. NoneBack'
    <3>1. 1 .. 0 = {}
      OBVIOUS
    <3> QED BY <1>1, <1>4, <1>6, <3>1 DEF OrderInv, NoneBack
  <2>2. \A m \in ToSet(init_order) : m \in Handles
    BY StartedAreModules
  <2> QED BY <1>1, <2>1, <2>2, InitializedFirstKept DEF OrderInv
<1>13. Forest' <=> Forest
  BY DEF Forest, NeededOnce, Acyclic, Needed
<1> QED BY <1>7, <1>8, <1>9, <1>10, <1>11, <1>12, <1>13 DEF OrderInv

(* The call goes on to the next entry.                                     *)
LEMMA EntryIsNext ==
  ASSUME CoreInv, UseInv, GraphInv, NeededIsLoaded \/ DependentReturned
  PROVE  Len(frames') = Len(frames) /\ frames'[Len(frames)].next = Me.next + 1
<1> DEFINE f == [Me EXCEPT !.next = Me.next + 1]
<1>1. Running("load", "needed")
  BY DEF NeededIsLoaded, DependentReturned, PendingNeeded
<1>2. /\ frames # << >> /\ Len(frames) \in 1 .. Len(frames) /\ Me \in Frame /\ Me = frames[Len(frames)]
  BY <1>1, LoadUnderWay
<1>3. f \in Frame /\ f.next = Me.next + 1
  BY <1>2 DEF Frame
<1>4. frames' = Append(Front(frames), f)
  <2>1. CASE NeededIsLoaded
    BY <2>1 DEF NeededIsLoaded, NextNeeded
  <2>2. CASE DependentReturned
    <3>1. ret.val # 0
      BY <2>2 DEF DependentReturned, GraphInv, AnswerIsNeeded
    <3> QED BY <2>2, <3>1 DEF DependentReturned, NextNeeded
  <2> QED BY <2>1, <2>2
<1> HIDE DEF f
<1>5. Replaced(f)
  BY <1>2, <1>3, <1>4, ReplaceFrame
<1> QED BY <1>2, <1>3, <1>5 DEF Replaced

(* The module that is found, by its count, is of the file at the entry.     *)
LEMMA FoundIsNext ==
  ASSUME Unfailing, CoreInv, UseInv, NeededIsLoaded, NEW d \in Handles,
         \A m \in Handles : loaded'[m].use_count = loaded[m].use_count + (IF m = d THEN 1 ELSE 0)
  PROVE  /\ Me.next \in DOMAIN Needed(Me.file)
         /\ loaded[d].file = Needed(Me.file)[Me.next]
<1>1. PICK needed : needed = Needed(Me.file)[Me.next]
  OBVIOUS
<1>2. PICK g, u : g = FirstMatch(needed) /\ u = Me.h
  OBVIOUS
<1>3. /\ Matches(needed) # {} /\ loaded' = ShareModule(u, g) /\ Me.next <= Len(Needed(Me.file))
      /\ Running("load", "needed") /\ PendingNeeded
  BY <1>1, <1>2 DEF NeededIsLoaded, PendingNeeded
<1>4. g \in Live /\ g \in Handles
  BY <1>2, <1>3, FoundIsLive
<1>5. u \in Handles /\ Me \in Frame /\ Len(frames) \in 1 .. Len(frames) /\ Me = frames[Len(frames)]
  BY <1>2, <1>3, LoadUnderWay
<1>6. \A m \in Handles : loaded'[m].use_count = loaded[m].use_count + (IF m = g THEN 1 ELSE 0)
  BY <1>3, <1>4, <1>5, ModuleShared
<1>7. g = d
  <2>1. loaded[d].use_count + 1 = loaded[d].use_count + (IF d = g THEN 1 ELSE 0)
    BY <1>6
  <2>2. loaded[d].use_count \in Int
    BY ModuleRecord
  <2>3. \A x \in Int : x + 1 # x + 0
    OBVIOUS
  <2> QED BY <2>1, <2>2, <2>3
<1>8. loaded[g].file = needed
  <2>1. SoName(loaded[g].file) = needed
    BY <1>2, <1>3, FoundIsNamed
  <2>2. loaded[g].file \in File
    BY <1>4, ModuleRecord DEF Module
  <2> QED BY <2>1, <2>2, NamedAsNeeded
<1>9. Me.next \in DOMAIN Needed(Me.file)
  <2>1. Needed(Me.file) \in Seq(File)
    BY <1>5, DiskEntries DEF Frame, CoreInv
  <2>2. Me.next \in Nat \ {0}
    BY <1>5, CallArray
  <2> QED BY <1>3, <2>1, <2>2, LenProperties
<1> QED BY <1>1, <1>7, <1>8, <1>9

(* What is found in memory was there before the graph: a part of the graph  *)
(* has the one user that brought it, and its bottom has none in it.        *)
LEMMA FoundIsBelow ==
  ASSUME CoreInv, UseInv, GraphInv, OrderInv, Forest, Running("load", "needed"), ret = NoReturn,
         Me.next \in DOMAIN Needed(Me.file),
         NEW d \in Handles, loaded[d].file = Needed(Me.file)[Me.next]
  PROVE  d < Bottom
<1>1. PICK u, n, x : u = Me.h /\ n = Len(frames) /\ x = Me.next
  OBVIOUS
<1>2. /\ n \in 1 .. n /\ DOMAIN frames = 1 .. n /\ Me = frames[n] /\ Me.op = "load"
      /\ u \in Handles /\ u # 0 /\ Handles = 1 .. Len(loaded) /\ Len(loaded) \in Nat
  BY <1>1, LoadUnderWay
<1>3. loaded[u].file = Me.file /\ u >= Bottom /\ Bottom \in Handles
  BY <1>1, <1>2, BottomIs DEF GraphInv, CallsNest, GraphApart
<1>4. \A h \in Handles : loaded[h].file \in File
  BY ModuleRecord DEF Module
<1>5. d # Bottom
  <2> SUFFICES ASSUME d = Bottom PROVE FALSE
    OBVIOUS
  <2>1. PICK rank \in [File -> 1 .. Cardinality(File)] :
          \A f \in File : \A g \in ToSet(Needed(f)) : rank[g] < rank[f]
    BY DEF Forest, Acyclic
  <2>2. rank \in Ranks
    BY <2>1 DEF Ranks
  <2>3. loaded[d].file \in ToSet(Needed(loaded[u].file))
    BY <1>3 DEF ToSet
  <2>4. rank[loaded[Bottom].file] < rank[loaded[u].file]
    BY <1>2, <1>4, <2>1, <2>3
  <2>5. u = Bottom \/ rank[loaded[u].file] < rank[loaded[Bottom].file]
    <3>1. u = Bottom \/ u > Bottom
      BY <1>2, <1>3
    <3> QED BY <1>2, <2>2, <3>1 DEF OrderInv, Descends
  <2>6. rank[loaded[Bottom].file] \in Nat /\ rank[loaded[u].file] \in Nat
    <3>1. \A r \in 1 .. Cardinality(File) : r \in Nat
      OBVIOUS
    <3> QED BY <1>2, <1>3, <1>4, <2>1, <3>1
  <2> QED BY <2>4, <2>5, <2>6
<1>6. ~(d > Bottom)
  <2> SUFFICES ASSUME d > Bottom PROVE FALSE
    OBVIOUS
  <2>1. PICK w \in Handles : w >= Bottom /\ BroughtBy(w, d)
    BY DEF OrderInv, Brought
  <2>2. PICK p \in DOMAIN Needed(loaded[w].file) :
          Needed(loaded[w].file)[p] = loaded[d].file /\ Passed(w, p)
    BY <2>1 DEF BroughtBy
  <2>3. loaded[w].file = loaded[u].file /\ p = x
    BY <1>1, <1>2, <1>3, <1>4, <2>2 DEF Forest, NeededOnce
  <2>4. w = u
    BY <1>2, <1>3, <2>1, <2>3 DEF GraphInv, GraphSmall
  <2>5. x < x
    BY <1>1, <1>2, <2>2, <2>3, <2>4 DEF Passed
  <2>6. x \in Nat
    BY <1>1, <1>2, CallArray
  <2> QED BY <2>5, <2>6
<1>7. d \in Nat /\ Bottom \in Nat
  BY <1>2, <1>3
<1> QED BY <1>5, <1>6, <1>7

(* The list of the module under load grows: by what was there before the   *)
(* graph, or by what was loaded after the module.                          *)
LEMMA EntryOrder ==
  ASSUME Unfailing, CoreInv, CoreInv', UseInv, UseInv', GraphInv, OrderInv, disk' = disk,
         NeededIsLoaded \/ DependentReturned
  PROVE  OrderInv'
<1>1. PICK u, d, f, n :
           /\ u = Me.h /\ n = Len(frames) /\ Running("load", "needed") /\ u \in Live /\ u # 0
           /\ d \in Live /\ d # 0 /\ u \in Handles /\ d \in Handles
           /\ f \in Frame /\ f.op = "load" /\ f.pc = "needed" /\ f.h = u /\ f.file = Me.file
           /\ DOMAIN frames' = 1 .. n /\ frames'[n] = f
           /\ \A i \in 1 .. n : i # n => frames'[i] = frames[i]
           /\ Len(loaded') = Len(loaded)
           /\ \A m \in Handles :
                /\ loaded'[m].deps = IF m = u THEN Append(loaded[u].deps, d) ELSE loaded[m].deps
                /\ loaded'[m].file = loaded[m].file /\ loaded'[m].base = loaded[m].base
           /\ ret' = NoReturn
           /\ UNCHANGED << loaded_objects, dependency_list, dependency_stack, client, init_order, fini_order >>
           /\ \/ /\ NeededIsLoaded /\ ret = NoReturn
                 /\ \A m \in Handles : loaded'[m].use_count = loaded[m].use_count + (IF m = d THEN 1 ELSE 0)
              \/ /\ DependentReturned /\ ret = [of |-> "load", val |-> d]
                 /\ \A m \in Handles : loaded'[m].use_count = loaded[m].use_count
  BY EntryEffect
<1>2. /\ n \in Nat \ {0} /\ n \in 1 .. n /\ 1 \in 1 .. n /\ DOMAIN frames = 1 .. n /\ Me = frames[n]
      /\ Me.pc = "needed" /\ frames # << >> /\ \A i \in 1 .. n : frames[i].op = "load"
      /\ \A i \in 1 .. n : i # n => frames[i].pc = "needed"
      /\ Handles = 1 .. Len(loaded) /\ Len(loaded) \in Nat
  BY <1>1, LoadUnderWay
<1>3. Len(frames') = n /\ frames'[n].next = frames[n].next + 1
  BY <1>1, <1>2, EntryIsNext
<1>4. \A i \in 1 .. n : /\ frames'[i].op = "load" /\ frames'[i].h = frames[i].h
                        /\ frames'[i].file = frames[i].file
                        /\ frames'[i].pc = "needed" /\ frames[i].pc = "needed"
  <2>1. ASSUME NEW i \in 1 .. n
        PROVE  /\ frames'[i].op = "load" /\ frames'[i].h = frames[i].h
               /\ frames'[i].file = frames[i].file /\ frames'[i].pc = "needed" /\ frames[i].pc = "needed"
    <3>1. CASE i = n
      BY <1>1, <1>2, <3>1
    <3>2. CASE i # n
      BY <1>1, <1>2, <3>2
    <3> QED BY <3>1, <3>2
  <2> QED BY <2>1
<1>5. Handles' = Handles /\ Bottom' = Bottom /\ frames' # << >>
  <2>1. frames' # << >>
    BY <1>1, <1>2
  <2> QED BY <1>1, <1>2, <1>4, <2>1, BottomKept DEF Handles
<1>6. \A i \in 1 .. n : frames[i].next \in Nat
  BY <1>2, CallArray
<1>7. CallsInOrder'
  <2>1. ASSUME NEW i \in 1 .. n, i > 1
        PROVE  /\ frames'[i - 1].next \in DOMAIN Needed(frames'[i - 1].file)
               /\ frames'[i].file = Needed(frames'[i - 1].file)[frames'[i - 1].next]
    <3>1. i - 1 \in 1 .. n /\ i - 1 # n
      <4>1. n \in Nat
        BY <1>2
      <4> QED BY <2>1, <4>1
    <3>2. frames'[i - 1] = frames[i - 1] /\ frames'[i].file = frames[i].file
      BY <1>1, <1>4, <3>1
    <3> QED BY <1>2, <2>1, <3>2 DEF OrderInv, CallsInOrder
  <2>2. ASSUME NEW i \in 1 .. n, NEW j \in 1 .. n, i < j, frames'[j].h # 0
        PROVE  frames'[i].h < frames'[j].h
    BY <1>2, <1>4, <2>2 DEF OrderInv, CallsInOrder
  <2> QED BY <1>1, <2>1, <2>2 DEF CallsInOrder, Needed, NoReturn
<1>8. StackInOrder' /\ NoneStarted'
  <2>1. frames[1].pc = "needed"
    BY <1>2, <1>4
  <2> QED BY <1>1, <1>2, <1>5, <2>1 DEF OrderInv, StackInOrder, NoneStarted
<1>9. Brought'
  <2>1. ASSUME NEW w \in Handles, NEW p \in Nat, Passed(w, p) PROVE Passed(w, p)'
    <3>1. ASSUME NEW i \in 1 .. n, frames'[i].h = w
          PROVE  /\ p <= frames'[i].next
                 /\ i = n => p < frames'[i].next
      <4>1. p <= frames[i].next /\ frames[i].next \in Nat
        BY <1>2, <1>4, <1>6, <2>1, <3>1 DEF Passed
      <4>2. CASE i = n
        <5>1. frames'[i].next = frames[i].next + 1
          BY <1>3, <4>2
        <5> QED BY <4>1, <5>1
      <4>3. CASE i # n
        BY <1>1, <4>1, <4>3
      <4> QED BY <4>2, <4>3
    <3> QED BY <1>1, <1>3, <3>1 DEF Passed
  <2>2. ASSUME NEW w \in Handles, NEW h \in Handles, BroughtBy(w, h) PROVE BroughtBy(w, h)'
    <3>1. PICK p \in DOMAIN Needed(loaded[w].file) :
            Needed(loaded[w].file)[p] = loaded[h].file /\ Passed(w, p)
      BY <2>2 DEF BroughtBy
    <3>2. p \in Nat
      <4>1. loaded[w].file \in File
        BY ModuleRecord DEF Module
      <4>2. Needed(loaded[w].file) \in Seq(File)
        BY <4>1, DiskEntries DEF CoreInv
      <4>3. DOMAIN Needed(loaded[w].file) = 1 .. Len(Needed(loaded[w].file))
        BY <4>2, LenProperties
      <4> QED BY <4>3
    <3> QED BY <1>1, <2>1, <3>1, <3>2 DEF BroughtBy, Needed
  <2> QED BY <1>5, <2>2 DEF OrderInv, Brought
<1>10. Descends'
  <2>1. Bottom \in Handles
    BY <1>1, BottomIs
  <2> QED BY <1>1, <1>5, <2>1 DEF OrderInv, Descends, Ranks, Needed
<1>11. ASSUME Forest PROVE d < Bottom \/ u < d
  <2>1. CASE NeededIsLoaded /\ ret = NoReturn
             /\ \A m \in Handles : loaded'[m].use_count = loaded[m].use_count + (IF m = d THEN 1 ELSE 0)
    <3>1. Me.next \in DOMAIN Needed(Me.file) /\ loaded[d].file = Needed(Me.file)[Me.next]
      BY <1>1, <2>1, FoundIsNext
    <3> QED BY <1>1, <1>11, <2>1, <3>1, FoundIsBelow
  <2>2. CASE ret = [of |-> "load", val |-> d]
    BY <1>1, <1>2, <2>2 DEF OrderInv, CallsInOrder
  <2> QED BY <1>1, <2>1, <2>2
<1>12. ASSUME Forest PROVE NoneBack'
  <2>1. /\ loaded[u].deps \in Seq(Nat) /\ Len(loaded[u].deps) \in Nat
        /\ Len(Append(loaded[u].deps, d)) = Len(loaded[u].deps) + 1
        /\ \A i \in 1 .. Len(loaded[u].deps) : Append(loaded[u].deps, d)[i] = loaded[u].deps[i]
        /\ Append(loaded[u].deps, d)[Len(loaded[u].deps) + 1] = d
    <3>1. loaded[u].deps \in Seq(Nat) /\ Len(loaded[u].deps) \in Nat /\ d \in Nat
      BY <1>1, <1>2, ModuleRecord
    <3> QED BY <3>1, AppendProperties
  <2>2. \A i \in 1 .. Len(loaded[u].deps) + 1 : i = Len(loaded[u].deps) + 1 \/ i \in 1 .. Len(loaded[u].deps)
    BY <2>1
  <2>3. ASSUME NEW m \in Handles, m >= Bottom, NEW i \in 1 .. Len(loaded'[m].deps)
        PROVE  loaded'[m].deps[i] < Bottom \/ m < loaded'[m].deps[i]
    <3>1. \/ i \in 1 .. Len(loaded[m].deps) /\ loaded'[m].deps[i] = loaded[m].deps[i]
          \/ m = u /\ loaded'[m].deps[i] = d
      BY <1>1, <2>1, <2>2, <2>3
    <3> QED BY <1>11, <1>12, <2>3, <3>1 DEF OrderInv, NoneBack
  <2> QED BY <1>5, <2>3 DEF NoneBack
<1>13. ASSUME Forest PROVE NeededInitializedFirst'
  <2>1. u >= Bottom /\ u \in Nat /\ Bottom \in Nat
    BY <1>1, <1>2, BottomIs DEF GraphInv, GraphApart
  <2>2. \A m \in ToSet(init_order) : m \in Handles /\ m # u
    <3>1. frames[1].pc = "needed"
      BY <1>2, <1>4
    <3>2. \A m \in ToSet(init_order) : m \in Handles /\ m < Bottom
      <4>1. \A i \in DOMAIN init_order : init_order[i] \in Handles
        BY StartedAreModules
      <4> QED BY <1>2, <3>1, <4>1 DEF OrderInv, NoneStarted, ToSet
    <3>3. ~(u < Bottom)
      BY <2>1
    <3> QED BY <3>2, <3>3
  <2> QED BY <1>1, <1>13, <2>2, InitializedFirstKept DEF OrderInv
<1>14. Forest' <=> Forest
  BY DEF Forest, NeededOnce, Acyclic, Needed
<1> QED BY <1>7, <1>8, <1>9, <1>10, <1>12, <1>13, <1>14 DEF OrderInv

(* A load is done with its list: it relocates, or its handle goes to the    *)
(* caller, whose module is an earlier one.                                 *)
LEMMA NeededDoneOrder ==
  ASSUME Unfailing, CoreInv, CoreInv', UseInv, GraphInv, OrderInv, disk' = disk, NeededDone
  PROVE  OrderInv'
<1>1. PICK n : n = Len(frames)
  OBVIOUS
<1>2. /\ Running("load", "needed") /\ ret = NoReturn
      /\ UNCHANGED << loaded, loaded_objects, dependency_stack, client, init_order >>
  BY DEF NeededDone
<1>3. /\ frames # << >> /\ n \in Nat \ {0} /\ n \in 1 .. n /\ 1 \in 1 .. n /\ DOMAIN frames = 1 .. n
      /\ Me = frames[n] /\ Me \in Frame /\ Me.op = "load" /\ Me.pc = "needed" /\ Me.h \in Handles /\ Me.h # 0
      /\ \A i \in 1 .. n : frames[i].op = "load"
      /\ \A i \in 1 .. n : i # n => frames[i].pc = "needed"
  BY <1>1, <1>2, LoadUnderWay
<1>4. PICK k \in Nat :
        /\ k <= n /\ DOMAIN frames' = 1 .. k /\ Len(frames') = k /\ frames' # << >> /\ 1 \in 1 .. k
        /\ \A i \in 1 .. k : /\ frames'[i].op = "load" /\ frames'[i].h = frames[i].h
                             /\ frames'[i].file = frames[i].file /\ frames'[i].next = frames[i].next
                             /\ i \in 1 .. n
        /\ \/ n = 1 /\ k = 1 /\ ret' = NoReturn
           \/ n > 1 /\ k = n - 1 /\ k # n /\ ret' = [of |-> "load", val |-> Me.h] /\ Me' = frames[n - 1]
              /\ k \in 1 .. n
  <2>1. CASE frames' = Append(Front(frames), [Me EXCEPT !.pc = "relocate"]) /\ ret' = NoReturn /\ n = 1
    <3> DEFINE f == [Me EXCEPT !.pc = "relocate"]
    <3>1. /\ f \in Frame /\ f.op = "load" /\ f.h = Me.h /\ f.file = Me.file /\ f.next = Me.next
      BY <1>3 DEF Frame
    <3>2. frames' = Append(Front(frames), f)
      BY <2>1
    <3> HIDE DEF f
    <3>3. Replaced(f)
      BY <1>3, <3>1, <3>2, ReplaceFrame
    <3>4. Len(frames') = 1 /\ DOMAIN frames' = 1 .. 1 /\ frames'[1] = f /\ frames[1] = Me /\ 1 \in 1 .. 1
      <4>1. Len(frames) = 1 /\ frames[1] = Me
        BY <1>1, <1>3, <2>1
      <4>2. 1 \in 1 .. 1
        OBVIOUS
      <4> QED BY <3>3, <4>1, <4>2 DEF Replaced
    <3>5. frames' # << >>
      BY <3>4
    <3> HIDE <3>3
    <3>6. \A i \in 1 .. 1 : i = 1
      OBVIOUS
    <3>7. 1 \in Nat /\ 1 <= n
      BY <2>1
    <3> QED BY <2>1, <3>1, <3>4, <3>5, <3>6, <3>7
  <2>2. CASE Return("load", Me.h) /\ n # 1
    <3>1. Popped /\ ret' = [of |-> "load", val |-> Me.h]
      BY <1>3, <2>2, PopFrames DEF Return
    <3>2. /\ DOMAIN frames' = 1 .. n - 1 /\ Len(frames') = n - 1
          /\ \A i \in 1 .. n - 1 : frames'[i] = frames[i]
      BY <1>1, <3>1 DEF Popped
    <3>3. 1 \in 1 .. n - 1 /\ n - 1 \in Nat /\ n - 1 <= n /\ n > 1 /\ n - 1 # n /\ n - 1 \in 1 .. n
          /\ n - 1 \in 1 .. n - 1
      BY <1>3, <2>2
    <3>4. \A i \in 1 .. n - 1 : i \in 1 .. n
      <4>1. n \in Nat
        BY <1>3
      <4> QED BY <4>1
    <3>5. frames' # << >>
      BY <3>2, <3>3
    <3>6. \A i \in 1 .. n - 1 : frames[i].op = "load"
      BY <1>3, <3>4
    <3>7. Me' = frames[n - 1]
      <4>1. Me' = frames'[Len(frames')]
        BY <3>5, FrontEntries DEF CoreInv, FramesOK, Me
      <4> QED BY <3>2, <3>3, <4>1
    <3> QED BY <3>1, <3>2, <3>3, <3>4, <3>5, <3>6, <3>7
  <2>3. AtStackBottom(Me.h) <=> n = 1
    <3>1. dependency_stack # << >> /\ dependency_stack[1] = frames[1].h
      BY <1>3 DEF GraphInv, StackOrder
    <3>2. Head(dependency_stack) = dependency_stack[1]
      BY <3>1, TailEntries DEF CoreInv, OrdersOK
    <3>3. AtStackBottom(Me.h) <=> frames[1].h = frames[n].h
      BY <1>3, <3>1, <3>2 DEF AtStackBottom
    <3>4. frames[1].h = frames[n].h <=> n = 1
      BY <1>3 DEF UseInv, ControlInv, CallsOK
    <3> QED BY <3>3, <3>4
  <2> QED BY <1>2, <2>1, <2>2, <2>3 DEF NeededDone
<1>5. Handles' = Handles /\ Bottom' = Bottom
  BY <1>2, <1>4, BottomKept DEF Handles
<1>6. CallsInOrder'
  <2>1. ASSUME NEW i \in 1 .. k, i > 1
        PROVE  /\ frames'[i - 1].next \in DOMAIN Needed(frames'[i - 1].file)
               /\ frames'[i].file = Needed(frames'[i - 1].file)[frames'[i - 1].next]
    <3>1. i - 1 \in 1 .. k
      BY <2>1
    <3> QED BY <1>3, <1>4, <2>1, <3>1 DEF OrderInv, CallsInOrder
  <2>2. ASSUME NEW i \in 1 .. k, NEW j \in 1 .. k, i < j, frames'[j].h # 0
        PROVE  frames'[i].h < frames'[j].h
    BY <1>3, <1>4, <2>2 DEF OrderInv, CallsInOrder
  <2>3. ASSUME ret'.of = "load" PROVE Me'.h < ret'.val
    <3>1. n > 1 /\ n - 1 \in 1 .. n /\ ret'.val = Me.h /\ Me' = frames[n - 1]
      BY <1>4, <2>3 DEF NoReturn
    <3>2. n - 1 < n
      BY <1>3
    <3>3. frames[n - 1].h < frames[n].h
      BY <1>3, <3>1, <3>2 DEF OrderInv, CallsInOrder
    <3> QED BY <1>3, <3>1, <3>3
  <2> QED BY <1>4, <2>1, <2>2, <2>3 DEF CallsInOrder, Needed
<1>7. StackInOrder'
  BY <1>2 DEF OrderInv, StackInOrder
<1>8. NoneStarted'
  <2>1. frames[1].pc = "needed"
    BY <1>3
  <2> QED BY <1>2, <1>3, <1>5, <2>1 DEF OrderInv, NoneStarted
<1>9. Brought'
  <2>1. ASSUME NEW w \in Handles, NEW p, Passed(w, p) PROVE Passed(w, p)'
    <3>1. ASSUME NEW i \in 1 .. k, frames'[i].h = w
          PROVE  p <= frames'[i].next /\ (i = k /\ ret' = NoReturn => p < frames'[i].next)
      <4>1. p <= frames[i].next /\ (i = n => p < frames[i].next)
        BY <1>1, <1>2, <1>3, <1>4, <2>1, <3>1 DEF Passed
      <4>2. ret' = NoReturn => k = n
        BY <1>4 DEF NoReturn
      <4> QED BY <1>4, <4>1, <4>2
    <3> QED BY <1>4, <3>1 DEF Passed
  <2> QED BY <1>2, <1>5, <2>1 DEF OrderInv, Brought, BroughtBy, Needed
<1>10. Descends'
  BY <1>2, <1>5 DEF OrderInv, Descends, Ranks, Needed
<1>11. Forest => NoneBack' /\ NeededInitializedFirst'
  BY <1>2, <1>5 DEF OrderInv, NoneBack, NeededInitializedFirst, Before
<1>12. Forest' <=> Forest
  BY DEF Forest, NeededOnce, Acyclic, Needed
<1> QED BY <1>6, <1>7, <1>8, <1>9, <1>10, <1>11, <1>12 DEF OrderInv

(* What is appended comes after what is there.                             *)
LEMMA AppendedLast ==
  ASSUME NEW S, NEW q \in Seq(S), NEW e \in S
  PROVE  /\ \A a, b : Before(q, a, b) => Before(Append(q, e), a, b)
         /\ \A a : Contains(q, a) => Before(Append(q, e), a, e)
<1> DEFINE r == Append(q, e)
<1>1. Len(q) \in Nat /\ DOMAIN q = 1 .. Len(q)
  BY LenProperties
<1>2. /\ r \in Seq(S) /\ Len(r) = Len(q) + 1
      /\ \A i \in 1 .. Len(q) : r[i] = q[i]
      /\ r[Len(q) + 1] = e
  BY AppendProperties
<1> HIDE DEF r
<1>3. DOMAIN r = 1 .. Len(q) + 1
  BY <1>2, LenProperties
<1>4. /\ Len(q) + 1 \in 1 .. Len(q) + 1
      /\ \A i \in 1 .. Len(q) : i \in 1 .. Len(q) + 1 /\ i < Len(q) + 1
  BY <1>1
<1>5. ASSUME NEW a, NEW b, Before(q, a, b) PROVE Before(r, a, b)
  BY <1>1, <1>2, <1>3, <1>4, <1>5 DEF Before
<1>6. ASSUME NEW a, Contains(q, a) PROVE Before(r, a, e)
  <2>1. PICK i \in 1 .. Len(q) : q[i] = a
    BY <1>1, <1>6 DEF Contains
  <2> QED BY <1>2, <1>3, <1>4, <2>1 DEF Before
<1> QED BY <1>5, <1>6 DEF r

(* What a part of the graph needs is in memory while the graph is loaded.   *)
LEMMA GraphNeedsLive ==
  ASSUME CoreInv, UseInv, GraphInv, Loading, NEW m \in Handles, m >= Bottom,
         NEW i \in 1 .. Len(loaded[m].deps)
  PROVE  loaded[m].deps[i] \in Live /\ loaded[m].deps[i] \in Handles
<1>1. PICK h : h = loaded[m].deps[i]
  OBVIOUS
<1>2. h # 0 /\ h \in 0 .. Len(loaded)
  BY <1>1, ModuleRecord DEF GraphInv, DependsOnNeeded
<1>3. h \in Handles
  BY <1>2, CallArray
<1>4. m \in Live
  BY DEF GraphInv, GraphSmall
<1>5. h \in HeldDeps(m)
  <2>1. i \in HeldPositions(m)
    BY HeldWhileLoading DEF AllHeld
  <2> QED BY <1>1, <1>2, <2>1 DEF HeldDeps
<1>6. UsesByModules(h) # {}
  BY <1>3, <1>4, <1>5, NeedIsUse DEF NeedsAreUses
<1>7. h \in Live
  BY <1>3, <1>6 DEF UseInv, UsedIsLive
<1> QED BY <1>1, <1>3, <1>7

(* The module on top of the stack runs its initialisers: what it needs was  *)
(* higher on the stack, or runs since before the load.                     *)
LEMMA RelocateOrder ==
  ASSUME Unfailing, CoreInv, CoreInv', UseInv, GraphInv, OrderInv, disk' = disk, Relocate
  PROVE  OrderInv'
<1>1. /\ Running("load", "relocate") /\ dependency_stack # << >>
      /\ init_order' = Append(init_order, dependency_stack[PopAt])
      /\ dependency_stack' = RemoveAt(dependency_stack, PopAt)
      /\ UNCHANGED << loaded, loaded_objects, dependency_list, frames, ret, client >>
  BY DEF Relocate
<1>2. /\ DOMAIN frames = {1} /\ Me = frames[1] /\ Me.pc = "relocate" /\ Me.op = "load" /\ frames # << >>
      /\ Bottom = Me.h /\ ret = NoReturn /\ Me.h \in Handles
  BY <1>1, RelocatesAlone
<1>3. /\ Handles' = Handles /\ NewHandle' = NewHandle /\ Bottom' = Bottom /\ Me' = Me
  BY <1>1 DEF Handles, NewHandle, Bottom, Me
<1>4. CallsInOrder' /\ NoneStarted' /\ Brought' /\ Descends'
  BY <1>1, <1>2, <1>3 DEF OrderInv, CallsInOrder, NoneStarted, Brought, BroughtBy, Passed, Descends, Ranks, Needed
<1>5. PICK p, m : p = Len(dependency_stack) /\ m = dependency_stack[p]
  OBVIOUS
<1>6. /\ dependency_stack \in Seq(Handles) /\ p \in Nat \ {0} /\ DOMAIN dependency_stack = 1 .. p
      /\ p \in 1 .. p /\ PopAt = p /\ m \in Handles
  <2>1. dependency_stack \in Seq(Handles) /\ p \in Nat
    BY <1>5, LenProperties DEF CoreInv, OrdersOK, Handles
  <2>2. p # 0 /\ DOMAIN dependency_stack = 1 .. p
    BY <1>1, <1>5, <2>1, EmptySeq, LenProperties
  <2>3. p \in 1 .. p
    BY <2>1, <2>2
  <2> QED BY <1>5, <2>1, <2>2, <2>3, ElementOfSeq DEF PopAt
<1>7. StackInOrder'
  <2>1. /\ RemoveAt(dependency_stack, p) \in Seq(Handles)
        /\ Len(RemoveAt(dependency_stack, p)) = p - 1
        /\ \A a \in 1 .. p - 1 : RemoveAt(dependency_stack, p)[a] = dependency_stack[Earlier(a, p)]
    BY <1>5, <1>6, RemoveAtEntries
  <2>2. \A a \in 1 .. p - 1 : Earlier(a, p) = a /\ a \in 1 .. p
    BY <1>6 DEF Earlier
  <2>3. DOMAIN dependency_stack' = 1 .. p - 1
    BY <1>1, <1>6, <2>1, LenProperties
  <2> QED BY <1>1, <1>6, <2>1, <2>2, <2>3 DEF OrderInv, StackInOrder
<1>8. init_order \in Seq(Handles) /\ init_order' = Append(init_order, m)
  BY <1>1, <1>5, <1>6 DEF CoreInv, OrdersOK, Handles
<1>9. ASSUME Forest, NEW h \in ToSet(loaded[m].deps) \ {0, m}
      PROVE  loaded[h].base \/ Contains(init_order, h)
  <2>1. PICK i \in 1 .. Len(loaded[m].deps) : h = loaded[m].deps[i]
    BY <1>6, ModuleRecord DEF ToSet
  <2>2. m >= Bottom
    BY <1>5, <1>6 DEF GraphInv, StackOrder
  <2>3. Loading
    BY <1>2 DEF Loading
  <2>4. h \in Live /\ h \in Handles
    BY <1>6, <2>1, <2>2, <2>3, GraphNeedsLive
  <2>5. h < Bottom \/ m < h
    BY <1>6, <1>9, <2>1, <2>2 DEF OrderInv, NoneBack
  <2>6. \A x \in Handles : x \in Nat
    BY CallArray
  <2>7. ~Contains(dependency_stack, h)
    <3> SUFFICES ASSUME NEW j \in 1 .. p, dependency_stack[j] = h PROVE FALSE
      BY <1>6 DEF Contains
    <3>1. h >= Bottom
      BY <1>6 DEF GraphInv, StackOrder
    <3>2. j = p \/ j < p
      BY <1>6
    <3>3. h = m \/ h < m
      BY <1>5, <1>6, <3>2 DEF OrderInv, StackInOrder
    <3>4. h \in Nat /\ m \in Nat /\ Bottom \in Nat
      BY <1>2, <1>6, <2>4, <2>6
    <3> QED BY <2>5, <3>1, <3>3, <3>4
  <2> QED BY <2>4, <2>7 DEF GraphInv, StackOrder, Initialized
<1>10. ASSUME Forest PROVE NeededInitializedFirst'
  <2>1. ToSet(init_order') = ToSet(init_order) \cup {m}
    BY <1>6, <1>8, AppendContains
  <2>2. ASSUME NEW a \in ToSet(init_order), NEW h \in ToSet(loaded[a].deps) \ {0, a}
        PROVE  loaded[h].base \/ Before(init_order', h, a)
    <3>1. loaded[h].base \/ Before(init_order, h, a)
      BY <1>10 DEF OrderInv, NeededInitializedFirst
    <3> QED BY <1>6, <1>8, <3>1, AppendedLast
  <2>3. ASSUME NEW h \in ToSet(loaded[m].deps) \ {0, m}
        PROVE  loaded[h].base \/ Before(init_order', h, m)
    BY <1>6, <1>8, <1>9, <1>10, AppendedLast
  <2> QED BY <1>1, <2>1, <2>2, <2>3 DEF NeededInitializedFirst, Before
<1>11. Forest => NoneBack'
  BY <1>1, <1>3 DEF OrderInv, NoneBack
<1>12. Forest' <=> Forest
  BY DEF Forest, NeededOnce, Acyclic, Needed
<1> QED BY <1>4, <1>7, <1>10, <1>11, <1>12 DEF OrderInv

(* No load is under way.                                                   *)
NoneLoaded == Unloading /\ (ret.of = "load" => frames = << >>)

(* Then there is no graph.                                                 *)
LEMMA NoneLoadedEmpty == CoreInv /\ UseInv /\ GraphInv /\ NoneLoaded => GraphEmpty
<1> SUFFICES ASSUME CoreInv, UseInv, GraphInv, NoneLoaded PROVE GraphEmpty
  OBVIOUS
<1>1. GraphIsNext
  BY NoGraph DEF NoneLoaded
<1>2. dependency_stack = << >>
  BY <1>1 DEF GraphIsNext, GraphInv, StackOrder
<1>3. \A i \in DOMAIN frames : frames[i].pc # "needed"
  BY DEF NoneLoaded, Unloading, UseInv, ControlInv, CallsOK
<1> QED BY <1>1, <1>2, <1>3 DEF GraphEmpty, GraphIsNext, NoneLoaded

(* A step after which no load is under way.                                *)
LEMMA NoneLoadedOrder ==
  ASSUME CoreInv, CoreInv', UseInv', GraphInv', OrderInv, NoneLoaded', disk' = disk, init_order' = init_order,
         \A m \in Handles : loaded'[m].deps = loaded[m].deps /\ loaded'[m].base = loaded[m].base
  PROVE  OrderInv'
<1>1. CoreInv' /\ UseInv' /\ GraphInv' /\ NoneLoaded' => GraphEmpty'
  BY NoneLoadedEmpty, PTL
<1> QED BY <1>1, OrderWithoutGraph

(* The client asks for a file.                                             *)
LEMMA TopLoadOrder ==
  ASSUME CoreInv, CoreInv', GraphInv', OrderInv, disk' = disk, NEW file \in File, TopLoad(file)
  PROVE  OrderInv'
<1>1. PICK f : f = Call("load", file, 0, "headers")
  OBVIOUS
<1>2. /\ frames = << >> /\ ret' = NoReturn /\ frames' = << f >>
      /\ UNCHANGED << loaded, init_order >>
  BY <1>1 DEF TopLoad, Idle
<1>3. f.h = 0 /\ f.pc = "headers"
  BY <1>1 DEF Call
<1>4. DOMAIN frames' = {1} /\ Len(frames') = 1 /\ frames'[1] = f
  BY <1>2
<1>5. Bottom' = NewHandle'
  BY <1>3, <1>4 DEF Bottom
<1>6. GraphEmpty'
  BY <1>2, <1>3, <1>4, <1>5 DEF GraphEmpty, GraphInv, StackOrder, NoReturn
<1> QED BY <1>2, <1>6, OrderWithoutGraph

(* The steps of an unload, and those of the client between calls.           *)
LEMMA BetweenLoadsOrder ==
  ASSUME CoreInv, CoreInv', UseInv, UseInv', GraphInv, GraphInv', OrderInv, disk' = disk,
         \/ UnloadStep \/ TopReturned \/ RelocateDone
         \/ \E f \in File : LoadSymbols(f)
         \/ \E h \in client : TopUnload(h)
  PROVE  OrderInv'
<1>1. CASE RelocateDone
  <2>1. /\ Running("load", "relocate") /\ frames' = Front(frames) /\ UNCHANGED << loaded, init_order >>
    BY <1>1 DEF RelocateDone, Return
  <2>2. frames' = << >>
    <3>1. Len(frames) = 1 /\ frames # << >>
      BY <2>1, RelocatesAlone
    <3>2. Popped
      BY <2>1, <3>1, PopFrames
    <3>3. frames' \in Seq(Frame) /\ Len(frames') = 0
      BY <3>1, <3>2 DEF Popped, CoreInv, FramesOK
    <3> QED BY <3>3, EmptySeq
  <2>3. NoneLoaded'
    BY <2>2 DEF NoneLoaded, Unloading
  <2> QED BY <2>1, <2>3, NoneLoadedOrder
<1>2. ASSUME NEW f \in File, LoadSymbols(f) PROVE OrderInv'
  <2>1. frames' = << >> /\ init_order' = init_order
    BY <1>2 DEF LoadSymbols, Idle
  <2>2. NoneLoaded'
    BY <2>1 DEF NoneLoaded, Unloading
  <2>3. \A m \in Handles : loaded'[m] = loaded[m]
    <3>1. CASE InProcessOfLoading(f)
      BY <1>2, <3>1 DEF LoadSymbols
    <3>2. CASE ~InProcessOfLoading(f)
      <4>1. Enqueue(f, TRUE)
        BY <1>2, <3>2 DEF LoadSymbols
      <4>2. Loading /\ Loading'
        BY <1>2, <2>1 DEF LoadSymbols, Idle, Loading
      <4>3. PICK k : k = NewHandle
        OBVIOUS
      <4> QED BY <4>1, <4>2, <4>3, ModuleAdded DEF UseInv, ControlInv
    <3> QED BY <3>1, <3>2
  <2> QED BY <2>1, <2>2, <2>3, NoneLoadedOrder
<1>3. ASSUME NEW h \in client, TopUnload(h) PROVE OrderInv'
  <2>1. /\ h \in Live /\ Unloading' /\ ret'.of # "load"
        /\ loaded' = [loaded EXCEPT ![h].use_count = @ - 1]
    BY <1>3, HandleGivenUp DEF OneUseGone
  <2>2. init_order' = init_order
    BY <1>3 DEF TopUnload
  <2> QED BY <2>1, <2>2, LiveHandles, CountDropped, NoneLoadedOrder DEF NoneLoaded
<1>4. CASE UnloadDependent
  <2>1. init_order' = init_order
    BY <1>4 DEF UnloadDependent
  <2>2. PICK u, x, h : u = Me.h /\ x = Me.next /\ h = loaded[u].deps[x]
    OBVIOUS
  <2>3. CASE h \in Live
    <3>1. Unloading' /\ ret'.of # "load" /\ OneUseGone(h)
      BY <1>4, <2>2, <2>3, DependentGivenUp
    <3>2. loaded' = [loaded EXCEPT ![h].use_count = @ - 1]
      BY <3>1 DEF OneUseGone
    <3> QED BY <2>1, <2>3, <3>1, <3>2, LiveHandles, CountDropped, NoneLoadedOrder DEF NoneLoaded
  <2>4. CASE h \notin Live
    <3>1. loaded[Me.h].deps[Me.next] \notin Live
      BY <2>2, <2>4
    <3>2. Unloading' /\ ret'.of # "load" /\ UNCHANGED loaded
      BY <1>4, <3>1, NothingGivenUp
    <3> QED BY <2>1, <3>2, NoneLoadedOrder DEF NoneLoaded
  <2> QED BY <2>3, <2>4
<1>5. CASE DependentUnloaded \/ UnloadDone \/ AbortOnDoubleFree \/ TopReturned
  <2>1. UNCHANGED << loaded, init_order >>
    BY <1>5 DEF DependentUnloaded, UnloadDone, AbortOnDoubleFree, TopReturned
  <2>2. Unloading' /\ ret'.of # "load"
    <3>1. CASE DependentUnloaded
      <4>1. Unloading
        BY <3>1, RunningTop DEF DependentUnloaded, UseInv, ControlInv
      <4> QED BY <3>1, <4>1 DEF DependentUnloaded, Unloading, NoReturn
    <3>2. CASE UnloadDone \/ AbortOnDoubleFree
      <4>1. Unloading'
        BY <3>2, ModuleFreed
      <4> QED BY <3>2, <4>1 DEF UnloadDone, AbortOnDoubleFree, Return
    <3>3. CASE TopReturned
      BY <3>3 DEF TopReturned, Idle, Unloading, NoReturn
    <3> QED BY <1>5, <3>1, <3>2, <3>3
  <2> QED BY <2>1, <2>2, NoneLoadedOrder DEF NoneLoaded
<1> QED BY <1>1, <1>2, <1>3, <1>4, <1>5 DEF UnloadStep

(* There is no graph at the start.                                         *)
LEMMA OrderInit == Init => OrderInv
<1> SUFFICES ASSUME Init PROVE OrderInv
  OBVIOUS
<1>1. /\ frames = << >> /\ DOMAIN frames = {} /\ ret = NoReturn /\ loaded = << >>
      /\ dependency_stack = << >> /\ DOMAIN dependency_stack = {} /\ init_order = << >>
      /\ ToSet(init_order) = {}
  BY DEF Init, ToSet
<1>2. Handles = {}
  BY <1>1, EmptySeq DEF Handles
<1>3. CallsInOrder /\ StackInOrder /\ NoneStarted
  BY <1>1 DEF CallsInOrder, StackInOrder, NoneStarted, NoReturn
<1>4. Brought /\ Descends /\ NoneBack /\ NeededInitializedFirst
  BY <1>1, <1>2 DEF Brought, Descends, NoneBack, NeededInitializedFirst
<1> QED BY <1>3, <1>4 DEF OrderInv

(* Every step keeps the order.                                             *)
LEMMA OrderNext ==
  ASSUME Unfailing
  PROVE  /\ CoreInv /\ CoreInv' /\ UseInv /\ UseInv' /\ GraphInv /\ GraphInv' /\ OrderInv /\ [Next]_vars
         => OrderInv'
<1> SUFFICES ASSUME CoreInv, CoreInv', UseInv, UseInv', GraphInv, GraphInv', OrderInv, [Next]_vars
             PROVE  OrderInv'
  OBVIOUS
<1>1. CASE UNCHANGED vars
  <2>1. /\ UNCHANGED << disk, loaded, dependency_stack, frames, ret, init_order >>
        /\ Handles' = Handles /\ Bottom' = Bottom /\ Me' = Me
    BY <1>1 DEF vars, Handles, NewHandle, Bottom, Me
  <2>2. CallsInOrder' /\ StackInOrder' /\ NoneStarted'
    BY <2>1 DEF OrderInv, CallsInOrder, StackInOrder, NoneStarted, Needed
  <2>3. Brought' /\ Descends'
    BY <2>1 DEF OrderInv, Brought, BroughtBy, Passed, Descends, Ranks, Needed
  <2>4. Forest => NoneBack' /\ NeededInitializedFirst'
    BY <2>1 DEF OrderInv, NoneBack, NeededInitializedFirst, Before
  <2>5. Forest' <=> Forest
    BY <2>1 DEF Forest, NeededOnce, Acyclic, Needed
  <2> QED BY <2>2, <2>3, <2>4, <2>5 DEF OrderInv
<1>2. ASSUME LoadStep, disk' = disk PROVE OrderInv'
  <2>1. ~RejectFile /\ ~FailAllocation /\ ~DependentNotFound
    BY DEF Unfailing, RejectFile, FailAllocation, DependentNotFound
  <2>2. ~RejectCircular
    BY NeverCircular DEF RejectCircular
  <2>3. CASE PlaceModule
    BY <1>2, <2>3, PlacedOrder
  <2>4. CASE NeededIsLoaded \/ DependentReturned
    BY <1>2, <2>4, EntryOrder
  <2>5. CASE LoadDependent
    BY <1>2, <2>5, LoadDependentOrder
  <2>6. CASE NeededDone \/ Relocate
    BY <1>2, <2>6, NeededDoneOrder, RelocateOrder
  <2>7. CASE RelocateDone
    BY <1>2, <2>7, BetweenLoadsOrder
  <2> QED BY <1>2, <2>1, <2>2, <2>3, <2>4, <2>5, <2>6, <2>7 DEF LoadStep
<1>3. ASSUME UnloadStep \/ TopReturned, disk' = disk PROVE OrderInv'
  BY <1>3, BetweenLoadsOrder
<1>4. ASSUME NEW f \in File, TopLoad(f), disk' = disk PROVE OrderInv'
  BY <1>4, TopLoadOrder
<1>5. ASSUME NEW f \in File, LoadSymbols(f), disk' = disk PROVE OrderInv'
  BY <1>5, BetweenLoadsOrder
<1>6. ASSUME NEW h \in client, TopUnload(h), disk' = disk PROVE OrderInv'
  BY <1>6, BetweenLoadsOrder
<1> QED BY <1>1, <1>2, <1>3, <1>4, <1>5, <1>6 DEF Next, LoaderStep, ClientStep

(* When every file is needed in one place at most, and none in a circle,    *)
(* the initialisers of a module run after those of all it needs: a user is  *)
(* below what it needs on the stack that relocate_dependency_graph_modules *)
(* pops.                                                                   *)
THEOREM ForestInOrder ==
  ASSUME Unfailing
  PROVE  Spec => []ForestInitializedFirst
<1>1. Spec => [](CoreInv /\ UseInv /\ GraphInv)
  BY GraphInvariant
<1>2. CoreInv /\ CoreInv' /\ UseInv /\ UseInv' /\ GraphInv /\ GraphInv' /\ OrderInv /\ [Next]_vars => OrderInv'
  BY OrderNext
<1>3. OrderInv => ForestInitializedFirst
  BY DEF OrderInv, Forest, ForestInitializedFirst
<1> QED BY <1>1, <1>2, <1>3, OrderInit, PTL DEF Spec
=============================================================================
