------------------------------ MODULE DsbtMaster ------------------------------
(***************************************************************************)
(* The client's model of the master DSBT (DLWRAPPER/dlw_dsbt.c).  A module *)
(* asks for a slot while it is loaded; when the top-level load has placed  *)
(* everything, DLIF_assign_dsbt_indices serves the queue (specific indices *)
(* first, then the general requests) and DLIF_update_all_dsbts copies the  *)
(* master into the table of every module; DSBT_release_entry gives a slot   *)
(* back when its module is unloaded.                                       *)
(*                                                                         *)
(* A request is the handle of its module: the index it asks for and the    *)
(* size of the module's own table are functions of the handle.  What is    *)
(* written into a table is the static base of a module, so the handle      *)
(* stands for it.  Definitions with a suffix after an underscore, as       *)
(* Conflict_MasterOnly, are seeded faults of the definition after them.    *)
(***************************************************************************)
EXTENDS Integers, SequencesExt

CONSTANTS
  Handle,     (* file handles of the modules that use the DSBT model       *)
  NoModule,   (* an available slot                                         *)
  Requested,  (* the index each module asks for, -1 for any                *)
  DsbtSize    (* the number of words reserved for each module's own table  *)

DSBT_INDEX_INVALID == -1

ASSUME DsbtAssumption ==
  /\ NoModule \notin Handle
  /\ Requested \in [Handle -> Nat \cup {DSBT_INDEX_INVALID}]
  /\ DsbtSize \in [Handle -> Nat]

VARIABLES
  queue,        (* DSBT_index_request_queue                                *)
  size,         (* AL_size(&DSBT_master)                                   *)
  master,       (* the slots 0 .. size - 1 of DSBT_master                  *)
  first_avail,  (* DSBT_first_avail_index                                  *)
  assigned,     (* the assigned_index of each request                      *)
  known,        (* modules that asked for a slot, unloaded ones too        *)
  memory,       (* modules in target memory                                *)
  table,        (* what stands in each module's own table                  *)
  pc,           (* which loop of assign/update the client is in            *)
  clean         (* history: no load failed while requests were queued      *)

master_vars == << size, master, first_avail, assigned >>
vars == << queue, size, master, first_avail, assigned, known, memory, table, pc,
           clean >>

Slot == 0 .. size - 1

Init ==
  /\ queue = << >>
  /\ size = 0
  /\ master = [i \in Slot |-> NoModule]
  /\ first_avail = 0
  /\ assigned = [h \in Handle |-> DSBT_INDEX_INVALID]
  /\ known = {}
  /\ memory = {}
  /\ table = [h \in Handle |-> [i \in Slot |-> NoModule]]
  /\ pc = "idle"
  /\ clean = TRUE

Specific(h) == Requested[h] # DSBT_INDEX_INVALID

-----------------------------------------------------------------------------
(* DLIF_register_dsbt_index_request                                        *)

Conflict_MasterOnly(h) ==
  Specific(h) /\ Requested[h] \in Slot /\ master[Requested[h]] # NoModule

Conflict_QueueOnly(h) ==
  Specific(h) /\ \E i \in DOMAIN queue :
                    queue[i] = h \/ Requested[queue[i]] = Requested[h]

(* Only a specific request is compared with what was asked for before.     *)
Conflict(h) ==
  /\ Specific(h)
  /\ \/ Requested[h] \in Slot /\ master[Requested[h]] # NoModule
     \/ \E i \in DOMAIN queue :
           queue[i] = h \/ Requested[queue[i]] = Requested[h]

Register(h) ==
  /\ pc = "idle"
  /\ h \notin known
  /\ ~Conflict(h)
  /\ queue' = Append(queue, h)
  /\ known' = known \cup {h}
  /\ memory' = memory \cup {h}
  /\ UNCHANGED << master_vars, table, pc, clean >>

(* A conflict, or __TI_STATIC_BASE is not in the module's symbol table:     *)
(* FALSE is returned and no request is kept.                               *)
RefuseRequest(h) ==
  /\ pc = "idle"
  /\ h \notin known
  /\ known' = known \cup {h}
  /\ clean' = (clean /\ queue = << >>)
  /\ UNCHANGED << queue, master_vars, memory, table, pc >>

-----------------------------------------------------------------------------
(* DLIF_assign_dsbt_indices and assign_dsbt_entry                          *)

BeginAssign ==
  /\ pc = "idle"
  /\ pc' = "specific"
  /\ UNCHANGED << queue, master_vars, known, memory, table, clean >>

FirstSpecific(i) ==
  /\ i \in DOMAIN queue
  /\ Specific(queue[i])
  /\ \A j \in 1 .. i - 1 : ~Specific(queue[j])

(* The slots after the request of h was put in slot i, and the array grown *)
(* to n slots to hold it.                                                  *)
PutAt(h, i, n) ==
  [j \in 0 .. n - 1 |-> IF j = i THEN h ELSE IF j \in Slot THEN master[j] ELSE NoModule]

SizeFor_Short(i) == IF i < size THEN size ELSE i

SizeFor(i) == IF i < size THEN size ELSE i + 1

(* request->assigned_index = request->assigned_index                       *)
IndexOfSpecific(h) == assigned[h]

SlotOfSpecific_Append(h) == size

SlotOfSpecific(h) == Requested[h]

AssignSpecific ==
  /\ pc = "specific"
  /\ \E i \in DOMAIN queue :
       LET h == queue[i]
           slot == SlotOfSpecific(h)
       IN  /\ FirstSpecific(i)
           /\ size' = SizeFor(slot)
           /\ master' = PutAt(h, slot, SizeFor(slot))
           /\ assigned' = [assigned EXCEPT ![h] = IndexOfSpecific(h)]
           /\ queue' = RemoveAt(queue, i)
  /\ UNCHANGED << first_avail, known, memory, table, pc, clean >>

SpecificsDone ==
  /\ pc = "specific"
  /\ \A i \in DOMAIN queue : ~Specific(queue[i])
  /\ pc' = "general"
  /\ UNCHANGED << queue, master_vars, known, memory, table, clean >>

(* The scan stops at the first free slot from first_avail on, or at the end. *)
FirstFree(i) ==
  /\ i \in first_avail .. size
  /\ i < size => master[i] = NoModule
  /\ \A j \in first_avail .. i - 1 : master[j] # NoModule

(* DSBT_first_avail_index is counted past the occupied slots, not past the *)
(* one that was just taken.                                                *)
AvailAfterScan(i) == i

IndexOfGeneral(i) == i

AssignGeneral ==
  /\ pc = "general"
  /\ queue # << >>
  /\ LET h == Head(queue)
     IN  \E i \in 0 .. size :
           /\ FirstFree(i)
           /\ size' = SizeFor(i)
           /\ master' = PutAt(h, i, SizeFor(i))
           /\ first_avail' = AvailAfterScan(i)
           /\ assigned' = [assigned EXCEPT ![h] = IndexOfGeneral(i)]
  /\ queue' = Tail(queue)
  /\ UNCHANGED << known, memory, table, pc, clean >>

AssignDone ==
  /\ pc = "general"
  /\ queue = << >>
  /\ pc' = "update"
  /\ UNCHANGED << queue, master_vars, known, memory, table, clean >>

-----------------------------------------------------------------------------
(* DLIF_update_all_dsbts                                                   *)

Holders == {master[i] : i \in Slot} \ {NoModule}

AllFit == \A h \in Holders : DsbtSize[h] >= size

Entry(h, j) == IF j \in DOMAIN table[h] THEN table[h][j] ELSE NoModule

Rewritten_OwnSlot(h) ==
  [j \in Slot |-> IF master[j] = h THEN h ELSE Entry(h, j)]

(* Only occupied slots are written: what stood in a free one stays.        *)
Rewritten(h) ==
  [j \in Slot |-> IF master[j] # NoModule THEN master[j] ELSE Entry(h, j)]

UpdateAll ==
  /\ pc = "update"
  /\ table' = IF AllFit
                THEN [h \in Handle |-> IF h \in Holders THEN Rewritten(h) ELSE table[h]]
                ELSE table
  /\ pc' = "idle"
  /\ UNCHANGED << queue, master_vars, known, memory, clean >>

-----------------------------------------------------------------------------
(* DSBT_release_entry                                                      *)

AvailAfterRelease_Kept(h) == first_avail

AvailAfterRelease_OneLess(h) == first_avail - 1

AvailAfterRelease(h) ==
  IF \E i \in Slot : master[i] = h /\ i < first_avail
    THEN CHOOSE i \in Slot : master[i] = h
    ELSE first_avail

SlotsWithout(h) == [i \in Slot |-> IF master[i] = h THEN NoModule ELSE master[i]]

(* The module is unloaded.  A request that is queued then was left there by *)
(* a load that failed.                                                     *)
Release(h) ==
  /\ pc = "idle"
  /\ h \in memory
  /\ master' = SlotsWithout(h)
  /\ first_avail' = AvailAfterRelease(h)
  /\ memory' = memory \ {h}
  /\ clean' = (clean /\ queue = << >>)
  /\ UNCHANGED << queue, size, assigned, known, table, pc >>

-----------------------------------------------------------------------------
Next ==
  \/ \E h \in Handle : Register(h) \/ RefuseRequest(h) \/ Release(h)
  \/ BeginAssign \/ AssignSpecific \/ SpecificsDone
  \/ AssignGeneral \/ AssignDone \/ UpdateAll

Spec == Init /\ [][Next]_vars

-----------------------------------------------------------------------------
TypeOK ==
  /\ queue \in Seq(Handle)
  /\ size \in Nat
  /\ master \in [Slot -> Handle \cup {NoModule}]
  /\ first_avail \in 0 .. size
  /\ assigned \in [Handle -> Nat \cup {DSBT_INDEX_INVALID}]
  /\ known \subseteq Handle
  /\ memory \subseteq known
  /\ pc \in {"idle", "specific", "general", "update"}
  /\ clean \in BOOLEAN

(* The cached start of the scan for a free slot is never past one: no slot *)
(* below DSBT_first_avail_index is available.                              *)
BelowFirstAvailOccupied == \A i \in 0 .. first_avail - 1 : master[i] # NoModule

(* A module has at most one slot, and one that asked for a specific index  *)
(* has that one.                                                           *)
SlotIsOwn ==
  \A i \in Slot : master[i] # NoModule =>
    /\ Specific(master[i]) => Requested[master[i]] = i
    /\ \A j \in Slot : master[j] = master[i] => j = i

(* What register checks when a request is queued still holds when its slot  *)
(* is assigned: a request is queued once, for a module with no slot; no two *)
(* queued requests want the same slot, nor one that is in use; and the      *)
(* loops that follow find the queue without specific requests, then empty.  *)
QueuedOnce == \A i, j \in DOMAIN queue : queue[i] = queue[j] => i = j

QueuedHasNoSlot ==
  \A i \in DOMAIN queue :
    queue[i] \in known /\ \A s \in Slot : master[s] # queue[i]

HolderIsKnown == \A s \in Slot : master[s] # NoModule => master[s] \in known

SpecificsDiffer ==
  \A i, j \in DOMAIN queue :
    (Specific(queue[i]) /\ Requested[queue[i]] = Requested[queue[j]]) => i = j

SpecificIsFree ==
  \A i \in DOMAIN queue :
    (Specific(queue[i]) /\ Requested[queue[i]] \in Slot)
      => master[Requested[queue[i]]] = NoModule

PhaseOfQueue ==
  /\ pc \in {"general", "update"} => \A i \in DOMAIN queue : ~Specific(queue[i])
  /\ pc = "update" => queue = << >>

RequestsKept ==
  /\ QueuedOnce /\ QueuedHasNoSlot /\ HolderIsKnown
  /\ SpecificsDiffer /\ SpecificIsFree /\ PhaseOfQueue

(* A slot in use is never handed to another module: it becomes available   *)
(* first.  The checks of register are made long before the assignment.     *)
SlotNeverTakenOver ==
  [][\A i \in Slot : master[i] # NoModule => master'[i] \in {master[i], NoModule}]_vars

(* DLIF_get_dsbt_index answers with the slot of a module that made a       *)
(* general request.                                                        *)
GeneralKnowsIndex ==
  \A i \in Slot : (master[i] # NoModule /\ ~Specific(master[i])) => assigned[master[i]] = i

(* As long as no load failed: after a complete load every module in memory *)
(* that asked for a slot has one, and every slot in use is that of a module *)
(* in memory.                                                              *)
SlotsAreModulesInMemory ==
  clean /\ pc = "idle" /\ queue = << >> => Holders = memory

(* After a complete load the table of every module in memory leads to the  *)
(* static base of every module in memory.                                  *)
TablesComplete ==
  pc = "idle" =>
    \A h \in Holders : \A i \in Slot : master[i] # NoModule => Entry(h, i) = master[i]
=============================================================================
