----------------------------- MODULE McoreLoader -----------------------------
(***************************************************************************)
(* The shipped program: mcoreloader <core> <ELF file>                      *)
(* (DLWRAPPER/main.c, built without ORIGINAL_CODE).  A process puts a core *)
(* in reset, writes the segments of a static executable into the memory of *)
(* that core through the files under /proc/mcore, and boots it.  Several   *)
(* processes may run at once for different cores; those for one core run    *)
(* one after the other, as whoever starts them sees to.                    *)
(*                                                                         *)
(* A file is what the loader tells apart in it: whether it is valid and    *)
(* static, the memory each segment lies in, whether its entry point can be *)
(* booted from (10 low bits zero) and whether it has a .vecs section.  The *)
(* devices under /proc/mcore are outside the repository: opening or        *)
(* writing one may fail at any time.                                       *)
(***************************************************************************)
EXTENDS Integers, Sequences

CONSTANTS
  Process,  (* running instances of the program                            *)
  File,     (* the ELF files they may be given                             *)
  Target,   (* the core numbers they may be given                          *)
  CoreArgs, (* how those may be given to the processes                     *)
  Core,     (* the cores of the SoC, without the one the loader runs on    *)
  Nobody    (* no process                                                  *)

Region == {"sram", "ddr", "msm"}

ASSUME McoreAssumption ==
  /\ Nobody \notin Process
  /\ Core \subseteq Target
  /\ CoreArgs \subseteq [Process -> Target]
  /\ File \subseteq [valid : BOOLEAN, static : BOOLEAN, aligned : BOOLEAN,
                     vecs : BOOLEAN, segments : Seq(Region \cup {"nowhere"})]

VARIABLES
  pc,       (* where main() is                                             *)
  core,     (* argv[1]                                                     *)
  file,     (* argv[2]                                                     *)
  segment,  (* the number of segments load_static_segment has placed       *)
  handle,   (* prog_handle                                                 *)
  boot,     (* what entry_address is the address of                        *)
  fds,      (* the files of /proc/mcore that the process has open          *)
  ret,      (* the exit status, 0 until something failed                   *)
  cpu,      (* the state of each core                                      *)
  memory,   (* what was written to each core since its reset: whose, which *)
  booted    (* the process that booted the core                            *)

process_vars == << pc, segment, handle, boot, fds, ret >>
core_vars == << cpu, memory, booted >>
arguments == << core, file >>
vars == << pc, core, file, segment, handle, boot, fds, ret, cpu, memory, booted >>

Device == [core : Core, region : Region]

Init ==
  /\ core \in CoreArgs
  /\ file \in [Process -> File]
  /\ pc = [p \in Process |-> "open"]
  /\ segment = [p \in Process |-> 0]
  /\ handle = [p \in Process |-> 0]
  /\ boot = [p \in Process |-> "none"]
  /\ fds = [p \in Process |-> {}]
  /\ ret = [p \in Process |-> 0]
  /\ cpu = [c \in Target |-> "running"]
  /\ memory = [c \in Target |-> << >>]
  /\ booted = [c \in Target |-> Nobody]

GoTo(p, where) == pc' = [pc EXCEPT ![p] = where]

(* ret = -1; goto error                                                    *)
Fail(p) ==
  /\ GoTo(p, "error")
  /\ ret' = [ret EXCEPT ![p] = -1]

-----------------------------------------------------------------------------
Ended(p) == pc[p] \in {"exited", "aborted"}

(* The scripts start the loader for a core when the last one has ended.    *)
HasTurn(p) ==
  \A q \in Process \ {p} : core[q] = core[p] => pc[q] = "open" \/ Ended(q)

OpenFile(p) ==
  /\ pc[p] = "open" /\ HasTurn(p)
  /\ \/ GoTo(p, "reset") /\ UNCHANGED ret
     \/ GoTo(p, "exited") /\ ret' = [ret EXCEPT ![p] = -1]
  /\ UNCHANGED << arguments, segment, handle, boot, fds, core_vars >>

CpuAfterReset_Running(c) == cpu

CpuAfterReset(c) == [cpu EXCEPT ![c] = "reset"]

(* DLIF_reset_core: "r<core>" written to /proc/mcore/control               *)
ResetCore(p) ==
  /\ pc[p] = "reset"
  /\ \/ /\ GoTo(p, "load") /\ UNCHANGED ret
        /\ cpu' = CpuAfterReset(core[p])
        /\ booted' = [booted EXCEPT ![core[p]] = Nobody]
        /\ memory' = [memory EXCEPT ![core[p]] = << >>]
     \/ Fail(p) /\ UNCHANGED core_vars
  /\ UNCHANGED << arguments, segment, handle, boot, fds >>

(* DLOAD_initialize and DLOAD_load up to the first segment                 *)
LoadHeaders(p) ==
  /\ pc[p] = "load"
  /\ IF ~file[p].valid THEN Fail(p) /\ UNCHANGED handle
     ELSE IF ~file[p].static
       THEN /\ GoTo(p, "entry")
            /\ handle' = [handle EXCEPT ![p] = -1]
            /\ UNCHANGED ret
     ELSE GoTo(p, "segment") /\ UNCHANGED << handle, ret >>
  /\ UNCHANGED << arguments, segment, boot, fds, core_vars >>

(* trg_minit, at the first segment: the three files of every core but our  *)
(* own are opened; after a failure those opened so far stay open.          *)
OpenDevices(p) ==
  /\ pc[p] = "segment"
  /\ file[p].segments # << >>
  /\ fds[p] = {}
  /\ \/ fds' = [fds EXCEPT ![p] = Device] /\ UNCHANGED << pc, ret >>
     \/ /\ \E opened \in {{}, {[core |-> c, region |-> "sram"] : c \in Core}} :
             fds' = [fds EXCEPT ![p] = opened]
        /\ Fail(p)
  /\ UNCHANGED << arguments, segment, handle, boot, core_vars >>

Placed(p) == segment[p] = Len(file[p].segments)

(* DLTMM_malloc: a core of the SoC, and an address in one of its memories  *)
CanAllocate(p, i) == core[p] \in Core /\ file[p].segments[i] \in Region

AfterFailedSegment_Next(p) ==
  /\ segment' = [segment EXCEPT ![p] = @ + 1]
  /\ UNCHANGED << pc, ret >>

(* DLOAD_load answers 0.                                                   *)
AfterFailedSegment(p) == Fail(p) /\ UNCHANGED segment

(* DLIF_allocate: the memory of the segment is cleared, then filled from    *)
(* the file.  A write that fails leaves it cleared, or filled in part.     *)
LoadSegment(p) ==
  /\ pc[p] = "segment"
  /\ fds[p] # {} /\ ~Placed(p)
  /\ LET i == segment[p] + 1
     IN  \/ /\ CanAllocate(p, i)
            /\ memory' = [memory EXCEPT ![core[p]] = Append(@, << p, i >>)]
            /\ segment' = [segment EXCEPT ![p] = i]
            /\ UNCHANGED << pc, ret >>
         \/ /\ memory' \in {memory, [memory EXCEPT ![core[p]] = Append(@, << p, 0 >>)]}
            /\ ~CanAllocate(p, i) => memory' = memory
            /\ AfterFailedSegment(p)
  /\ UNCHANGED << arguments, handle, boot, fds, cpu, booted >>

(* DLOAD_load answers the handle of the module.                            *)
FinishLoad(p) ==
  /\ pc[p] = "segment"
  /\ Placed(p)
  /\ GoTo(p, "entry")
  /\ handle' = [handle EXCEPT ![p] = 1]
  /\ UNCHANGED << arguments, segment, boot, fds, ret, core_vars >>

(* reset_vec_addr is 0 when no section is called .vecs.                    *)
VectorAddress(p) == IF file[p].vecs THEN "vector" ELSE "zero"

(* DLOAD_get_entry_point and DLOAD_get_reset_vector_section: both look for *)
(* the handle among the loaded modules.                                    *)
GetEntryPoint(p) ==
  /\ pc[p] = "entry"
  /\ IF handle[p] = 1
       THEN /\ boot' = [boot EXCEPT ![p] =
                          IF file[p].aligned THEN "entry" ELSE VectorAddress(p)]
            /\ GoTo(p, "unload") /\ UNCHANGED ret
       ELSE Fail(p) /\ UNCHANGED boot
  /\ UNCHANGED << arguments, segment, handle, fds, core_vars >>

(* DLOAD_unload.  unlink_loaded_module frees the queue node that the queue *)
(* has freed: the C library ends the process, or goes on.                  *)
Unload(p) ==
  /\ pc[p] = "unload"
  /\ \/ GoTo(p, "run") /\ UNCHANGED ret
     \/ GoTo(p, "aborted") /\ ret' = [ret EXCEPT ![p] = -1]
  /\ UNCHANGED << arguments, segment, handle, boot, fds, core_vars >>

AfterFailedRun_Close(p) == GoTo(p, "close") /\ UNCHANGED ret

AfterFailedRun_Status(p) ==
  GoTo(p, "error") /\ ret' = [ret EXCEPT ![p] = 1]

AfterFailedRun(p) == Fail(p)

(* DLIF_run_core: "b<core> <address>" written to /proc/mcore/control       *)
RunCore(p) ==
  /\ pc[p] = "run"
  /\ \/ /\ GoTo(p, "close") /\ UNCHANGED ret
        /\ cpu' = [cpu EXCEPT ![core[p]] = "running"]
        /\ booted' = [booted EXCEPT ![core[p]] = p]
     \/ AfterFailedRun(p) /\ UNCHANGED << cpu, booted >>
  /\ UNCHANGED << arguments, segment, handle, boot, fds, memory >>

Closed(p) == {}

(* DLTMM_close                                                             *)
CloseDevices(p) ==
  /\ pc[p] = "close"
  /\ fds' = [fds EXCEPT ![p] = Closed(p)]
  /\ GoTo(p, "error")
  /\ UNCHANGED << arguments, segment, handle, boot, ret, core_vars >>

ExitFrom_NotOnError(p) == pc[p] = "error" /\ ret[p] = 0

ExitFrom(p) == pc[p] = "error"

(* error: fclose(fp); return ret;                                          *)
Exit(p) ==
  /\ ExitFrom(p)
  /\ GoTo(p, "exited")
  /\ UNCHANGED << arguments, segment, handle, boot, fds, ret, core_vars >>

-----------------------------------------------------------------------------
Step(p) ==
  \/ OpenFile(p) \/ ResetCore(p) \/ LoadHeaders(p)
  \/ OpenDevices(p) \/ LoadSegment(p) \/ FinishLoad(p)
  \/ GetEntryPoint(p) \/ Unload(p) \/ RunCore(p) \/ CloseDevices(p) \/ Exit(p)

Next == \E p \in Process : Step(p)

(* A process is scheduled by the system until it exits.                    *)
Fairness == \A p \in Process : WF_vars(Step(p))

Spec == Init /\ [][Next]_vars /\ Fairness

-----------------------------------------------------------------------------
TypeOK ==
  /\ pc \in [Process -> {"open", "reset", "load", "segment", "entry", "unload",
                         "run", "close", "error", "exited", "aborted"}]
  /\ core \in CoreArgs
  /\ file \in [Process -> File]
  /\ segment \in [Process -> Nat]
  /\ handle \in [Process -> {-1, 0, 1}]
  /\ boot \in [Process -> {"none", "entry", "vector", "zero"}]
  /\ fds \in [Process -> SUBSET Device]
  /\ ret \in [Process -> {-1, 0}]
  /\ cpu \in [Target -> {"running", "reset"}]
  /\ booted \in [Target -> Process \cup {Nobody}]

Image(p) == [i \in 1 .. Len(file[p].segments) |-> << p, i >>]

(* A core that was booted has in its memory every segment of the file it    *)
(* was booted for, and nothing else was written since its reset.           *)
BootedImageIsWhole ==
  \A c \in Target : booted[c] # Nobody => memory[c] = Image(booted[c])

Alone(p) == \A q \in Process \ {p} : core[q] = core[p] => pc[q] = "open"

(* The exit status tells whether the program runs on the core, until the   *)
(* core is given to another process.                                       *)
StatusTellsWhatRuns ==
  \A p \in Process : Ended(p) =>
    /\ ret[p] # 0 => booted[core[p]] # p
    /\ ret[p] = 0 /\ Alone(p) => booted[core[p]] = p

(* The memory of a core is written only while the core is in reset; what   *)
(* is recorded of it is forgotten when it is put there.                    *)
WrittenInReset ==
  [][\A c \in Target : memory'[c] # memory[c] => cpu[c] = "reset" \/ cpu'[c] = "reset"]_vars

(* Every process ends, and its core runs or is left in reset.              *)
EveryProcessEnds == \A p \in Process : <>Ended(p)
=============================================================================
