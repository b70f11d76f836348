--------------------------- MODULE McoreLoaderProofs ---------------------------
(***************************************************************************)
(* Proofs about McoreLoader for any number of processes, cores and files,  *)
(* whichever device fails: a core that was booted has the whole image of   *)
(* the program it was booted for, and the exit status tells what runs.     *)
(***************************************************************************)
EXTENDS McoreLoader, TLAPS, SequenceTheorems

Active(p) == pc[p] \notin {"open", "exited", "aborted"}

Loading(p) == pc[p] \in {"load", "segment", "entry", "unload", "run"}

(* What load_static_segment has written after n segments.                  *)
Prefix(p, n) == [i \in 1 .. n |-> << p, i >>]

MemoryType == memory \in [Target -> Seq(Process \X Nat)]

(* One loader at a time has to do with a core.                             *)
Exclusive ==
  \A p, q \in Process : p # q /\ core[p] = core[q] => ~Active(p) \/ ~Active(q)

(* From its reset until it is booted the core is in reset, and nobody's.   *)
CoreWaits(p) == Loading(p) => cpu[core[p]] = "reset" /\ booted[core[p]] = Nobody

(* What the core has in memory at each place of main().                    *)
Written(p) ==
  /\ pc[p] \in {"open", "reset", "load"} => segment[p] = 0
  /\ pc[p] \in {"load", "segment"} => memory[core[p]] = Prefix(p, segment[p])
  /\ pc[p] \in {"unload", "run"} \/ (pc[p] = "entry" /\ handle[p] = 1)
       => memory[core[p]] = Image(p)

(* What ret and the core have to do with each other at each place.         *)
Status(p) ==
  /\ pc[p] \notin {"error", "exited", "aborted"} => ret[p] = 0
  /\ pc[p] = "aborted" => ret[p] # 0
  /\ booted[core[p]] = p => ret[p] = 0 /\ pc[p] \in {"close", "error", "exited"}
  /\ pc[p] \in {"close", "error", "exited"} /\ ret[p] = 0 /\ Alone(p)
       => booted[core[p]] = p

BootedForItsCore == \A c \in Target : booted[c] # Nobody => core[booted[c]] = c

Inv ==
  /\ TypeOK /\ MemoryType /\ Exclusive
  /\ \A p \in Process : CoreWaits(p) /\ Written(p) /\ Status(p)
  /\ BootedForItsCore /\ BootedImageIsWhole

-----------------------------------------------------------------------------
(* A segment number of a file is a natural number.                         *)
LEMMA Types ==
  ASSUME TypeOK, NEW p \in Process
  PROVE  /\ core \in [Process -> Target] /\ core[p] \in Target
         /\ Len(file[p].segments) \in Nat
<1>1. file[p] \in File /\ core \in [Process -> Target]
  BY McoreAssumption DEF TypeOK
<1>2. file[p] \in [valid : BOOLEAN, static : BOOLEAN, aligned : BOOLEAN,
                   vecs : BOOLEAN, segments : Seq(Region \cup {"nowhere"})]
  BY <1>1, McoreAssumption
<1> QED BY <1>1, <1>2

(* Placing the next segment is one more entry in the memory of the core.   *)
LEMMA PrefixGrows ==
  ASSUME NEW p \in Process, NEW n \in Nat
  PROVE  /\ Prefix(p, n) \in Seq(Process \X Nat)
         /\ Prefix(p, 0) = << >>
         /\ Append(Prefix(p, n), << p, n + 1 >>) = Prefix(p, n + 1)
<1>1. ASSUME NEW m \in Nat
      PROVE  /\ Prefix(p, m) \in Seq(Process \X Nat) /\ Len(Prefix(p, m)) = m
             /\ \A i \in 1 .. m : Prefix(p, m)[i] = << p, i >>
  <2>1. Prefix(p, m) \in [1 .. m -> Process \X Nat]
    BY DEF Prefix
  <2>2. Prefix(p, m) \in Seq(Process \X Nat) /\ DOMAIN Prefix(p, m) = 1 .. m
    BY <2>1
  <2>3. Len(Prefix(p, m)) = m
    BY <2>2
  <2> QED BY <2>2, <2>3 DEF Prefix
<1>2. Prefix(p, 0) = << >>
  BY <1>1, EmptySeq
<1>3. Append(Prefix(p, n), << p, n + 1 >>) = Prefix(p, n + 1)
  <2> DEFINE longer == Append(Prefix(p, n), << p, n + 1 >>)
  <2>1. << p, n + 1 >> \in Process \X Nat /\ n + 1 \in Nat
    OBVIOUS
  <2>2. /\ longer \in Seq(Process \X Nat) /\ Len(longer) = n + 1
        /\ \A i \in 1 .. n : longer[i] = << p, i >>
        /\ longer[n + 1] = << p, n + 1 >>
    <3>1. /\ Prefix(p, n) \in Seq(Process \X Nat) /\ Len(Prefix(p, n)) = n
          /\ \A i \in 1 .. n : Prefix(p, n)[i] = << p, i >>
      BY <1>1
    <3>2. /\ longer \in Seq(Process \X Nat) /\ Len(longer) = Len(Prefix(p, n)) + 1
          /\ \A i \in 1 .. Len(Prefix(p, n)) : longer[i] = Prefix(p, n)[i]
          /\ longer[Len(Prefix(p, n)) + 1] = << p, n + 1 >>
      BY <3>1, <2>1, AppendProperties
    <3> QED BY <3>1, <3>2
  <2>3. \A i \in 1 .. n + 1 : longer[i] = Prefix(p, n + 1)[i]
    <3>1. \A i \in 1 .. n + 1 : Prefix(p, n + 1)[i] = << p, i >>
      BY <1>1, <2>1
    <3>2. \A i \in 1 .. n + 1 : i \in 1 .. n \/ i = n + 1
      OBVIOUS
    <3> QED BY <2>2, <3>1, <3>2
  <2>4. Prefix(p, n + 1) \in Seq(Process \X Nat) /\ Len(Prefix(p, n + 1)) = n + 1
    BY <1>1, <2>1
  <2> HIDE DEF longer
  <2>5. longer = Prefix(p, n + 1)
    BY <2>2, <2>3, <2>4, SeqEqual
  <2> QED BY <2>5 DEF longer
<1> QED BY <1>1, <1>2, <1>3

(* A step of one process leaves what is known of the others: those for      *)
(* other cores share nothing with it, and those for its core are not        *)
(* active.                                                                 *)
LEMMA OthersKept ==
  ASSUME Inv, NEW p \in Process, NEW where,
         Active(p) \/ HasTurn(p),
         pc' = [pc EXCEPT ![p] = where], where # "open",
         UNCHANGED arguments,
         \A q \in Process \ {p} :
            segment'[q] = segment[q] /\ handle'[q] = handle[q] /\ ret'[q] = ret[q],
         \A c \in Target \ {core[p]} :
            cpu'[c] = cpu[c] /\ memory'[c] = memory[c] /\ booted'[c] = booted[c],
         booted'[core[p]] \in {booted[core[p]], Nobody, p}
  PROVE  /\ Exclusive'
         /\ \A q \in Process \ {p} : CoreWaits(q)' /\ Written(q)' /\ Status(q)'
<1>1. pc'[p] = where /\ \A q \in Process \ {p} : pc'[q] = pc[q]
  BY DEF Inv, TypeOK
<1>2. core' = core /\ file' = file /\ \A q \in Process : core[q] \in Target
  BY Types DEF Inv, arguments
<1>3. \A q \in Process \ {p} : core[q] = core[p] => ~Active(q)
  BY DEF Inv, Exclusive, HasTurn, Ended, Active
<1>4. Exclusive'
  BY <1>1, <1>2, <1>3 DEF Inv, Exclusive, Active
<1>5. ASSUME NEW q \in Process \ {p} PROVE CoreWaits(q)' /\ Written(q)' /\ Status(q)'
  <2>1. CoreWaits(q) /\ Written(q) /\ Status(q)
    BY DEF Inv
  <2>2. /\ pc'[q] = pc[q] /\ segment'[q] = segment[q] /\ handle'[q] = handle[q]
        /\ ret'[q] = ret[q] /\ core'[q] = core[q] /\ Image(q)' = Image(q)
    BY <1>1, <1>2 DEF Image
  <2>3. Alone(q)' => Alone(q) /\ core[q] # core[p]
    BY <1>1, <1>2 DEF Alone
  <2>4. CASE core[q] # core[p]
    <3>1. /\ cpu'[core[q]] = cpu[core[q]] /\ memory'[core[q]] = memory[core[q]]
          /\ booted'[core[q]] = booted[core[q]]
      BY <2>4, <1>2
    <3> QED BY <2>1, <2>2, <2>3, <3>1 DEF CoreWaits, Loading, Written, Prefix, Status
  <2>5. CASE core[q] = core[p]
    <3>1. ~Active(q)
      BY <2>5, <1>3
    <3>2. booted'[core[q]] = q => booted[core[q]] = q
      BY <2>5, McoreAssumption
    <3> QED BY <2>1, <2>2, <2>3, <2>5, <3>1, <3>2
        DEF CoreWaits, Loading, Written, Status, Active
  <2> QED BY <2>4, <2>5
<1> QED BY <1>4, <1>5

(* Before any process runs.                                                *)
LEMMA InitInv == Init => Inv
<1> SUFFICES ASSUME Init PROVE Inv
  OBVIOUS
<1>1. core \in [Process -> Target]
  BY McoreAssumption DEF Init
<1>2. TypeOK /\ MemoryType
  BY <1>1 DEF Init, TypeOK, MemoryType, Device
<1>3. \A c \in Target : booted[c] = Nobody
  BY DEF Init
<1>4. \A p \in Process : CoreWaits(p) /\ Written(p) /\ Status(p)
  BY <1>1, <1>3, McoreAssumption DEF Init, CoreWaits, Loading, Written, Status
<1>5. Exclusive
  BY DEF Init, Exclusive, Active
<1> QED BY <1>2, <1>3, <1>4, <1>5 DEF Inv, BootedForItsCore, BootedImageIsWhole

(* A step that leaves the cores alone has its own process to account for.  *)
LEMMA CoresKept ==
  ASSUME Inv, NEW p \in Process, NEW where,
         Active(p) \/ HasTurn(p),
         pc' = [pc EXCEPT ![p] = where], where # "open",
         UNCHANGED << arguments, core_vars >>,
         \A q \in Process \ {p} :
            segment'[q] = segment[q] /\ handle'[q] = handle[q] /\ ret'[q] = ret[q],
         TypeOK', CoreWaits(p)', Written(p)', Status(p)'
  PROVE  Inv'
<1>1. Exclusive' /\ \A q \in Process \ {p} : CoreWaits(q)' /\ Written(q)' /\ Status(q)'
  <2>1. UNCHANGED << cpu, memory, booted, arguments >>
    BY DEF core_vars
  <2> QED BY <2>1, OthersKept
<1>2. \A q \in Process : Image(q)' = Image(q)
  BY DEF Image, arguments
<1>3. MemoryType' /\ BootedForItsCore' /\ BootedImageIsWhole'
  <2>1. \A c \in Target : booted[c] \in Process \cup {Nobody}
    BY DEF Inv, TypeOK
  <2> QED BY <1>2, <2>1
      DEF Inv, MemoryType, BootedForItsCore, BootedImageIsWhole, core_vars, arguments
<1> QED BY <1>1, <1>3 DEF Inv

(* fopen.                                                                  *)
LEMMA OpenFileInv ==
  ASSUME Inv, NEW p \in Process, OpenFile(p)
  PROVE  Inv'
<1>1. /\ pc[p] = "open" /\ HasTurn(p)
      /\ UNCHANGED << arguments, segment, handle, boot, fds, cpu, memory, booted >>
      /\ \/ pc' = [pc EXCEPT ![p] = "reset"] /\ ret' = ret
         \/ pc' = [pc EXCEPT ![p] = "exited"] /\ ret' = [ret EXCEPT ![p] = -1]
  BY DEF OpenFile, GoTo, core_vars
<1>2. TypeOK'
  BY <1>1 DEF Inv, TypeOK, arguments
<1>3. Status(p) /\ Written(p) /\ core[p] \in Target
  BY Types DEF Inv
<1>4. pc'[p] \in {"reset", "exited"} /\ (pc'[p] = "exited" => ret'[p] # 0) /\ (pc'[p] = "reset" => ret'[p] = 0)
  BY <1>1, <1>3 DEF Inv, TypeOK, Status
<1>5. CoreWaits(p)' /\ Written(p)' /\ Status(p)'
  BY <1>1, <1>3, <1>4 DEF CoreWaits, Loading, Written, Status, arguments
<1>6. \A q \in Process \ {p} : ret'[q] = ret[q]
  BY <1>1 DEF Inv, TypeOK
<1>7. PICK where : pc' = [pc EXCEPT ![p] = where] /\ where # "open"
  BY <1>1
<1> QED BY <1>1, <1>2, <1>5, <1>6, <1>7, CoresKept DEF core_vars

(* goto error, from a place where the core was not booted.                 *)
LEMMA FailInv ==
  ASSUME Inv, NEW p \in Process, Active(p), pc[p] \notin {"close", "error"}, Fail(p),
         UNCHANGED << arguments, segment, handle, core_vars >>, TypeOK'
  PROVE  Inv'
<1>1. /\ pc' = [pc EXCEPT ![p] = "error"] /\ ret' = [ret EXCEPT ![p] = -1]
      /\ pc'[p] = "error" /\ ret'[p] = -1
      /\ \A q \in Process \ {p} : ret'[q] = ret[q]
  BY DEF Fail, GoTo, Inv, TypeOK
<1>2. booted'[core'[p]] # p
  <2>1. Status(p)
    BY DEF Inv
  <2> QED BY <2>1 DEF Status, Active, core_vars, arguments
<1>3. CoreWaits(p)' /\ Written(p)' /\ Status(p)'
  BY <1>1, <1>2 DEF CoreWaits, Loading, Written, Status
<1> QED BY <1>1, <1>3, CoresKept

(* The core is put in reset and forgets what was recorded of it.            *)
LEMMA ResetCoreInv ==
  ASSUME Inv, NEW p \in Process, ResetCore(p)
  PROVE  Inv'
<1>1. /\ pc[p] = "reset" /\ UNCHANGED << arguments, segment, handle, boot, fds >>
      /\ Active(p) /\ core[p] \in Target
  BY Types DEF ResetCore, Active, Inv
<1>2. CASE Fail(p) /\ UNCHANGED core_vars
  <2>1. TypeOK'
    BY <1>1, <1>2 DEF Fail, GoTo, Inv, TypeOK, core_vars, arguments
  <2> QED BY <1>1, <1>2, <2>1, FailInv
<1>3. CASE /\ pc' = [pc EXCEPT ![p] = "load"] /\ ret' = ret
           /\ cpu' = [cpu EXCEPT ![core[p]] = "reset"]
           /\ booted' = [booted EXCEPT ![core[p]] = Nobody]
           /\ memory' = [memory EXCEPT ![core[p]] = << >>]
  <2>1. TypeOK' /\ MemoryType'
    BY <1>1, <1>3 DEF Inv, TypeOK, MemoryType, arguments
  <2>2. /\ pc'[p] = "load" /\ cpu'[core[p]] = "reset" /\ booted'[core[p]] = Nobody
        /\ memory'[core[p]] = << >>
        /\ \A c \in Target \ {core[p]} :
             cpu'[c] = cpu[c] /\ memory'[c] = memory[c] /\ booted'[c] = booted[c]
    BY <1>1, <1>3 DEF Inv, TypeOK, MemoryType
  <2>3. Exclusive' /\ \A q \in Process \ {p} : CoreWaits(q)' /\ Written(q)' /\ Status(q)'
    BY <1>1, <1>3, <2>2, OthersKept
  <2>4. /\ core' = core /\ file' = file /\ segment'[p] = 0 /\ ret'[p] = 0
    BY <1>1, <1>3 DEF Inv, Written, Status, arguments
  <2>5. CoreWaits(p)' /\ Written(p)' /\ Status(p)'
    <3>1. Prefix(p, segment'[p]) = << >>
      BY <2>4, PrefixGrows
    <3>2. CoreWaits(p)'
      BY <2>2, <2>4 DEF CoreWaits
    <3>3. Written(p)'
      BY <2>2, <2>4, <3>1, McoreAssumption DEF Written, Prefix
    <3>4. Status(p)'
      BY <2>2, <2>4, McoreAssumption DEF Status
    <3> QED BY <3>2, <3>3, <3>4
  <2>6. BootedForItsCore'
    BY <2>2, <2>4 DEF Inv, TypeOK, BootedForItsCore
  <2>7. BootedImageIsWhole'
    <3>1. \A q : Image(q)' = Image(q)
      BY <2>4 DEF Image
    <3>2. \A c \in Target : booted[c] # Nobody => memory[c] = Image(booted[c])
      BY DEF Inv, BootedImageIsWhole
    <3>3. ASSUME NEW c \in Target, booted'[c] # Nobody
          PROVE  memory'[c] = Image(booted[c])'
      <4>1. c # core[p] /\ memory'[c] = memory[c] /\ booted'[c] = booted[c]
        BY <2>2, <3>3
      <4> QED BY <3>1, <3>2, <3>3, <4>1
    <3> QED BY <3>3 DEF BootedImageIsWhole
  <2> QED BY <2>1, <2>3, <2>5, <2>6, <2>7 DEF Inv
<1> QED BY <1>2, <1>3 DEF ResetCore, GoTo, CpuAfterReset

(* The file is read: rejected, not static, or loaded from here on.          *)
LEMMA LoadHeadersInv ==
  ASSUME Inv, NEW p \in Process, LoadHeaders(p)
  PROVE  Inv'
<1>1. /\ pc[p] = "load" /\ Active(p)
      /\ UNCHANGED << arguments, segment, boot, fds, core_vars >>
  BY DEF LoadHeaders, Active
<1>2. CASE Fail(p) /\ UNCHANGED handle
  <2>1. TypeOK'
    BY <1>1, <1>2 DEF Fail, GoTo, Inv, TypeOK, core_vars, arguments
  <2> QED BY <1>1, <1>2, <2>1, FailInv
<1>3. CASE /\ pc' = [pc EXCEPT ![p] = "entry"]
           /\ handle' = [handle EXCEPT ![p] = -1] /\ ret' = ret
  <2>1. /\ TypeOK' /\ pc'[p] = "entry" /\ handle'[p] = -1
        /\ \A q \in Process \ {p} : handle'[q] = handle[q]
    BY <1>1, <1>3 DEF Inv, TypeOK, core_vars, arguments
  <2>2. CoreWaits(p)' /\ Written(p)' /\ Status(p)'
    BY <1>1, <1>3, <2>1
    DEF Inv, CoreWaits, Loading, Written, Status, core_vars, arguments
  <2> QED BY <1>1, <1>3, <2>1, <2>2, CoresKept
<1>4. CASE pc' = [pc EXCEPT ![p] = "segment"] /\ UNCHANGED << handle, ret >>
  <2>1. TypeOK' /\ pc'[p] = "segment"
    BY <1>1, <1>4 DEF Inv, TypeOK, core_vars, arguments
  <2>2. CoreWaits(p)' /\ Written(p)' /\ Status(p)'
    BY <1>1, <1>4, <2>1
    DEF Inv, CoreWaits, Loading, Written, Prefix, Status, core_vars, arguments
  <2> QED BY <1>1, <1>4, <2>1, <2>2, CoresKept
<1> QED BY <1>2, <1>3, <1>4 DEF LoadHeaders, GoTo

(* trg_minit.                                                              *)
LEMMA OpenDevicesInv ==
  ASSUME Inv, NEW p \in Process, OpenDevices(p)
  PROVE  Inv'
<1>1. /\ pc[p] = "segment" /\ Active(p)
      /\ UNCHANGED << arguments, segment, handle, boot, core_vars >>
  BY DEF OpenDevices, Active
<1>2. \E opened \in SUBSET Device : fds' = [fds EXCEPT ![p] = opened]
  <2>1. \A opened \in {{}, {[core |-> c, region |-> "sram"] : c \in Core}} :
           opened \in SUBSET Device
    BY DEF Device, Region
  <2> QED BY <2>1 DEF OpenDevices
<1>3. CASE Fail(p)
  <2>1. TypeOK'
    BY <1>1, <1>2, <1>3 DEF Fail, GoTo, Inv, TypeOK, core_vars, arguments
  <2> QED BY <1>1, <1>3, <2>1, FailInv
<1>4. CASE UNCHANGED << pc, ret >>
  <2>1. TypeOK' /\ pc' = [pc EXCEPT ![p] = "segment"]
    BY <1>1, <1>2, <1>4 DEF Inv, TypeOK, core_vars, arguments
  <2>2. CoreWaits(p)' /\ Written(p)' /\ Status(p)'
    BY <1>1, <1>4
    DEF Inv, CoreWaits, Loading, Written, Prefix, Status, Image, Alone, core_vars, arguments
  <2> QED BY <1>1, <1>4, <2>1, <2>2, CoresKept
<1> QED BY <1>3, <1>4 DEF OpenDevices

(* DLIF_allocate writes to a core that is in reset and nobody's, so no       *)
(* image that was booted is touched, whether the write succeeds or not.     *)
LEMMA LoadSegmentInv ==
  ASSUME Inv, NEW p \in Process, LoadSegment(p)
  PROVE  Inv'
<1> DEFINE c == core[p]
           i == segment[p] + 1
<1>1. /\ pc[p] = "segment" /\ Active(p) /\ UNCHANGED << arguments, handle, boot, fds, cpu, booted >>
      /\ c \in Target /\ segment[p] \in Nat
      /\ cpu[c] = "reset" /\ booted[c] = Nobody /\ ret[p] = 0
      /\ memory[c] = Prefix(p, segment[p]) /\ core' = core /\ file' = file
  BY Types DEF LoadSegment, Active, Inv, TypeOK, CoreWaits, Loading, Written, Status, arguments
<1>2. \A d \in Target \ {c} : memory'[d] = memory[d]
  BY <1>1 DEF LoadSegment, Inv, MemoryType
<1>3. BootedForItsCore' /\ BootedImageIsWhole'
  <2>1. \A d \in Target : booted'[d] # Nobody => d # c /\ memory'[d] = memory[d]
    BY <1>1, <1>2
  <2> QED BY <1>1, <2>1 DEF Inv, BootedForItsCore, BootedImageIsWhole, Image
<1>4. << p, 0 >> \in Process \X Nat /\ << p, i >> \in Process \X Nat
  BY <1>1
<1>5. CASE /\ memory' = [memory EXCEPT ![c] = Append(@, << p, i >>)]
           /\ segment' = [segment EXCEPT ![p] = i] /\ UNCHANGED << pc, ret >>
  <2>1. memory[c] \in Seq(Process \X Nat)
    BY <1>1 DEF Inv, MemoryType
  <2>2. memory'[c] = Prefix(p, i) /\ MemoryType'
    <3>1. Append(memory[c], << p, i >>) \in Seq(Process \X Nat)
      BY <2>1, <1>4, AppendProperties
    <3>2. Append(memory[c], << p, i >>) = Prefix(p, i)
      BY <1>1, PrefixGrows
    <3> QED BY <1>1, <1>5, <3>1, <3>2 DEF Inv, MemoryType
  <2>3. TypeOK' /\ pc' = [pc EXCEPT ![p] = "segment"] /\ segment'[p] = i
        /\ \A q \in Process \ {p} : segment'[q] = segment[q]
    BY <1>1, <1>5 DEF Inv, TypeOK, arguments
  <2>4. Exclusive' /\ \A q \in Process \ {p} : CoreWaits(q)' /\ Written(q)' /\ Status(q)'
    BY <1>1, <1>2, <1>5, <2>3, OthersKept
  <2>5. CoreWaits(p)' /\ Written(p)' /\ Status(p)'
    BY <1>1, <1>5, <2>2, <2>3, McoreAssumption
    DEF CoreWaits, Loading, Written, Prefix, Status
  <2> QED BY <1>3, <2>2, <2>3, <2>4, <2>5 DEF Inv
<1>6. CASE /\ memory' \in {memory, [memory EXCEPT ![c] = Append(@, << p, 0 >>)]}
           /\ Fail(p) /\ UNCHANGED segment
  <2>1. MemoryType'
    <3>1. Append(memory[c], << p, 0 >>) \in Seq(Process \X Nat)
      BY <1>1, <1>4, AppendProperties DEF Inv, MemoryType
    <3> QED BY <1>1, <1>6, <3>1 DEF Inv, MemoryType
  <2>2. /\ TypeOK' /\ pc' = [pc EXCEPT ![p] = "error"] /\ pc'[p] = "error" /\ ret'[p] = -1
        /\ \A q \in Process \ {p} : ret'[q] = ret[q]
    BY <1>1, <1>6 DEF Inv, TypeOK, Fail, GoTo, arguments
  <2>3. Exclusive' /\ \A q \in Process \ {p} : CoreWaits(q)' /\ Written(q)' /\ Status(q)'
    BY <1>1, <1>2, <1>6, <2>2, OthersKept
  <2>4. CoreWaits(p)' /\ Written(p)' /\ Status(p)'
    BY <1>1, <2>2, McoreAssumption DEF CoreWaits, Loading, Written, Status
  <2> QED BY <1>3, <2>1, <2>2, <2>3, <2>4 DEF Inv
<1> QED BY <1>5, <1>6 DEF LoadSegment, AfterFailedSegment

(* Every segment has been placed, so the image is whole.                   *)
LEMMA FinishLoadInv ==
  ASSUME Inv, NEW p \in Process, FinishLoad(p)
  PROVE  Inv'
<1>1. /\ pc[p] = "segment" /\ Placed(p) /\ pc' = [pc EXCEPT ![p] = "entry"]
      /\ handle' = [handle EXCEPT ![p] = 1]
      /\ UNCHANGED << arguments, segment, boot, fds, ret, core_vars >> /\ Active(p)
  BY DEF FinishLoad, GoTo, Active
<1>2. /\ TypeOK' /\ pc'[p] = "entry"
      /\ \A q \in Process \ {p} : handle'[q] = handle[q]
  BY <1>1 DEF Inv, TypeOK, core_vars, arguments
<1>3. memory[core[p]] = Image(p)
  BY <1>1 DEF Inv, Written, Placed, Prefix, Image
<1>4. CoreWaits(p)' /\ Written(p)' /\ Status(p)'
  BY <1>1, <1>2, <1>3
  DEF Inv, CoreWaits, Loading, Written, Status, Image, core_vars, arguments
<1> QED BY <1>1, <1>2, <1>4, CoresKept

(* Only the handle of a whole load finds an entry point.                   *)
LEMMA GetEntryPointInv ==
  ASSUME Inv, NEW p \in Process, GetEntryPoint(p)
  PROVE  Inv'
<1>1. /\ pc[p] = "entry" /\ Active(p)
      /\ UNCHANGED << arguments, segment, handle, fds, core_vars >>
      /\ boot' \in {boot, [boot EXCEPT ![p] = "entry"], [boot EXCEPT ![p] = "vector"],
                    [boot EXCEPT ![p] = "zero"]}
  BY DEF GetEntryPoint, Active, VectorAddress
<1>2. CASE Fail(p)
  <2>1. TypeOK'
    BY <1>1, <1>2 DEF Fail, GoTo, Inv, TypeOK, core_vars, arguments
  <2> QED BY <1>1, <1>2, <2>1, FailInv
<1>3. CASE handle[p] = 1 /\ pc' = [pc EXCEPT ![p] = "unload"] /\ UNCHANGED ret
  <2>1. TypeOK' /\ pc'[p] = "unload"
    BY <1>1, <1>3 DEF Inv, TypeOK, core_vars, arguments
  <2>2. CoreWaits(p)' /\ Written(p)' /\ Status(p)'
    BY <1>1, <1>3, <2>1
    DEF Inv, CoreWaits, Loading, Written, Status, Image, core_vars, arguments
  <2> QED BY <1>1, <1>3, <2>1, <2>2, CoresKept
<1> QED BY <1>2, <1>3 DEF GetEntryPoint, GoTo

(* The double free ends the process before the core is booted, or nothing. *)
LEMMA UnloadInv ==
  ASSUME Inv, NEW p \in Process, Unload(p)
  PROVE  Inv'
<1>1. /\ pc[p] = "unload" /\ Active(p)
      /\ UNCHANGED << arguments, segment, handle, boot, fds, core_vars >>
      /\ booted[core[p]] # p /\ core[p] \in Target
  BY Types DEF Unload, Active, Inv, Status
<1>2. CASE pc' = [pc EXCEPT ![p] = "run"] /\ UNCHANGED ret
  <2>1. TypeOK' /\ pc'[p] = "run"
    BY <1>1, <1>2 DEF Inv, TypeOK, core_vars, arguments
  <2>2. CoreWaits(p)' /\ Written(p)' /\ Status(p)'
    BY <1>1, <1>2, <2>1
    DEF Inv, CoreWaits, Loading, Written, Status, Image, core_vars, arguments
  <2> QED BY <1>1, <1>2, <2>1, <2>2, CoresKept
<1>3. CASE pc' = [pc EXCEPT ![p] = "aborted"] /\ ret' = [ret EXCEPT ![p] = -1]
  <2>1. /\ TypeOK' /\ pc'[p] = "aborted" /\ ret'[p] = -1
        /\ \A q \in Process \ {p} : ret'[q] = ret[q]
    BY <1>1, <1>3 DEF Inv, TypeOK, core_vars, arguments
  <2>2. CoreWaits(p)' /\ Written(p)' /\ Status(p)'
    BY <1>1, <2>1 DEF CoreWaits, Loading, Written, Status, core_vars, arguments
  <2> QED BY <1>1, <1>3, <2>1, <2>2, CoresKept
<1> QED BY <1>2, <1>3 DEF Unload, GoTo

(* The core is booted with the image that stands in its memory, which is   *)
(* that of the process.                                                    *)
LEMMA RunCoreInv ==
  ASSUME Inv, NEW p \in Process, RunCore(p)
  PROVE  Inv'
<1>1. /\ pc[p] = "run" /\ Active(p) /\ core[p] \in Target
      /\ UNCHANGED << arguments, segment, handle, boot, fds, memory >>
  BY Types DEF RunCore, Active, Inv
<1>2. CASE Fail(p) /\ UNCHANGED << cpu, booted >>
  <2>1. TypeOK' /\ UNCHANGED core_vars
    BY <1>1, <1>2 DEF Fail, GoTo, Inv, TypeOK, core_vars, arguments
  <2> QED BY <1>1, <1>2, <2>1, FailInv
<1>3. CASE /\ pc' = [pc EXCEPT ![p] = "close"] /\ UNCHANGED ret
           /\ cpu' = [cpu EXCEPT ![core[p]] = "running"]
           /\ booted' = [booted EXCEPT ![core[p]] = p]
  <2>1. /\ TypeOK' /\ pc'[p] = "close" /\ booted'[core[p]] = p
        /\ \A d \in Target \ {core[p]} : cpu'[d] = cpu[d] /\ booted'[d] = booted[d]
    BY <1>1, <1>3 DEF Inv, TypeOK, arguments
  <2>2. /\ core' = core /\ file' = file /\ memory' = memory /\ ret'[p] = 0
        /\ memory[core[p]] = Image(p)
    BY <1>1, <1>3 DEF Inv, Written, Status, arguments
  <2>3. Exclusive' /\ \A q \in Process \ {p} : CoreWaits(q)' /\ Written(q)' /\ Status(q)'
    BY <1>1, <1>3, <2>1, OthersKept
  <2>4. CoreWaits(p)' /\ Written(p)' /\ Status(p)'
    BY <2>1, <2>2 DEF CoreWaits, Loading, Written, Status
  <2>5. MemoryType' /\ \A q \in Process : Image(q)' = Image(q)
    BY <2>2 DEF Inv, MemoryType, Image
  <2>6. ASSUME NEW c \in Target, booted'[c] # Nobody
        PROVE  core'[booted'[c]] = c /\ memory'[c] = Image(booted[c])'
    <3>1. CASE c = core[p]
      BY <3>1, <2>1, <2>2, <2>5
    <3>2. CASE c # core[p]
      <4>1. booted'[c] = booted[c] /\ booted[c] \in Process
        BY <3>2, <2>1, <2>6 DEF Inv, TypeOK
      <4>2. core[booted[c]] = c /\ memory[c] = Image(booted[c])
        BY <4>1, <2>6 DEF Inv, BootedForItsCore, BootedImageIsWhole
      <4>3. Image(booted[c])' = Image(booted[c])
        BY <4>1, <2>2 DEF Image
      <4> QED BY <4>1, <4>2, <4>3, <2>2
    <3> QED BY <3>1, <3>2
  <2>7. BootedForItsCore' /\ BootedImageIsWhole'
    BY <2>6 DEF BootedForItsCore, BootedImageIsWhole
  <2> QED BY <2>1, <2>3, <2>4, <2>5, <2>7 DEF Inv
<1> QED BY <1>2, <1>3 DEF RunCore, GoTo, AfterFailedRun

(* What follows the boot changes neither the core nor the status.          *)
LEMMA CloseExitInv ==
  ASSUME Inv, NEW p \in Process, CloseDevices(p) \/ Exit(p)
  PROVE  Inv'
<1>1. PICK where \in {"error", "exited"} :
         /\ pc' = [pc EXCEPT ![p] = where]
         /\ pc[p] \in {"close", "error"} /\ Active(p)
         /\ UNCHANGED << arguments, segment, handle, boot, ret, core_vars >>
         /\ fds' \in {fds, [fds EXCEPT ![p] = {}]}
  BY DEF CloseDevices, Closed, Exit, ExitFrom, GoTo, Active
<1>2. /\ TypeOK' /\ pc'[p] = where
      /\ \A q \in Process \ {p} : pc'[q] = pc[q]
  BY <1>1 DEF Inv, TypeOK, core_vars, arguments
<1>3. Alone(p)' => Alone(p)
  BY <1>1, <1>2 DEF Alone, arguments
<1>4. CoreWaits(p)' /\ Written(p)' /\ Status(p)'
  BY <1>1, <1>2, <1>3
  DEF Inv, CoreWaits, Loading, Written, Status, core_vars, arguments
<1> QED BY <1>1, <1>2, <1>4, CoresKept

(* Every step of every process.                                            *)
LEMMA NextInv == Inv /\ [Next]_vars => Inv'
<1>1. ASSUME Inv, NEW p \in Process, Step(p) PROVE Inv'
  BY <1>1, OpenFileInv, ResetCoreInv, LoadHeadersInv, OpenDevicesInv, LoadSegmentInv,
     FinishLoadInv, GetEntryPointInv, UnloadInv, RunCoreInv, CloseExitInv DEF Step
<1>2. ASSUME Inv, UNCHANGED vars PROVE Inv'
  <2>1. UNCHANGED << pc, core, file, segment, handle, boot, fds, ret, cpu, memory, booted >>
    BY <1>2 DEF vars
  <2>2. TypeOK' /\ MemoryType' /\ Exclusive'
    BY <1>2, <2>1 DEF Inv, TypeOK, MemoryType, Exclusive, Active
  <2>3. ASSUME NEW p \in Process PROVE CoreWaits(p)' /\ Written(p)' /\ Status(p)'
    <3>1. CoreWaits(p) /\ Written(p) /\ Status(p)
      BY <1>2 DEF Inv
    <3>2. CoreWaits(p)' /\ Status(p)'
      BY <2>1, <3>1 DEF CoreWaits, Loading, Status, Alone
    <3>3. Image(p)' = Image(p) /\ Prefix(p, segment[p])' = Prefix(p, segment[p])
      BY <2>1 DEF Image, Prefix
    <3>4. Written(p)'
      BY <2>1, <3>1, <3>3 DEF Written
    <3> QED BY <3>2, <3>4
  <2>4. BootedForItsCore' /\ BootedImageIsWhole'
    BY <1>2, <2>1 DEF Inv, BootedForItsCore, BootedImageIsWhole, Image
  <2> QED BY <2>2, <2>3, <2>4 DEF Inv
<1> QED BY <1>1, <1>2 DEF Next
-----------------------------------------------------------------------------
(* Everything above holds in every state the loaders reach.                *)
THEOREM Invariance == Spec => []Inv
<1> QED BY InitInv, NextInv, PTL DEF Spec

(* The type invariant, for any number of processes and cores.              *)
THEOREM TypeCorrect == Spec => []TypeOK
<1>1. Inv => TypeOK
  BY DEF Inv
<1> QED BY <1>1, Invariance, PTL

(* A core that was booted has every segment of its program in memory and    *)
(* nothing else, whatever failed on the way and whatever was loaded before  *)
(* (main.c:31-81, dload.c:421-476, 1978-2010).                              *)
THEOREM WholeImageBooted == Spec => []BootedImageIsWhole
<1>1. Inv => BootedImageIsWhole
  BY DEF Inv
<1> QED BY <1>1, Invariance, PTL

(* The exit status of main() tells whether its program runs on the core     *)
(* (main.c:14-88).                                                          *)
THEOREM StatusTells == Spec => []StatusTellsWhatRuns
<1>1. Inv => StatusTellsWhatRuns
  <2>1. ASSUME Inv, NEW p \in Process, Ended(p)
        PROVE  /\ ret[p] # 0 => booted[core[p]] # p
               /\ ret[p] = 0 /\ Alone(p) => booted[core[p]] = p
    BY <2>1 DEF Inv, Status, Ended
  <2> QED BY <2>1 DEF StatusTellsWhatRuns
<1> QED BY <1>1, Invariance, PTL

(* No segment is written into the memory of a core that runs: a write       *)
(* follows the reset of that core, and nobody boots it in between           *)
(* (main.c:44-68, dload.c:421-476).                                         *)
THEOREM NothingWrittenToARunningCore == Spec => WrittenInReset
<1>1. ASSUME Inv, NEW p \in Process, Step(p), NEW c \in Target, memory'[c] # memory[c]
      PROVE  cpu[c] = "reset" \/ cpu'[c] = "reset"
  <2>1. core[p] \in Target
    BY <1>1, Types DEF Inv
  <2>2. CASE ResetCore(p)
    BY <1>1, <2>1, <2>2
    DEF ResetCore, Fail, CpuAfterReset, core_vars, Inv, TypeOK, MemoryType
  <2>3. CASE LoadSegment(p)
    <3>1. cpu[core[p]] = "reset"
      BY <1>1, <2>3 DEF LoadSegment, Inv, CoreWaits, Loading
    <3>2. c = core[p]
      BY <1>1, <2>1, <2>3 DEF LoadSegment, Inv, MemoryType
    <3> QED BY <3>1, <3>2
  <2>4. CASE ~ResetCore(p) /\ ~LoadSegment(p)
    BY <1>1, <2>4
    DEF Step, OpenFile, LoadHeaders, OpenDevices, FinishLoad, GetEntryPoint, Unload,
        RunCore, CloseDevices, Exit, core_vars
  <2> QED BY <2>2, <2>3, <2>4
<1>2. Inv /\ [Next]_vars
        => [\A c \in Target : memory'[c] # memory[c] => cpu[c] = "reset" \/ cpu'[c] = "reset"]_vars
  BY <1>1 DEF Next
<1> QED BY <1>2, Invariance, PTL DEF Spec, WrittenInReset
=============================================================================
