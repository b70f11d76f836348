# TLA+ verification of the mcoreloader / RIDL dynamic loader

This directory holds the TLA+ models of the one substantial program of the
linux-c6x project: the ELF dynamic loader under `src/tools/elfloader`. The rest
of the repository is a build system (make rules, kernel fragments, root file
system trees, boot blob templates), test scripts and samples without run-time
state of their own.

The loader exists in two builds of the same sources, told apart by the macro
`ORIGINAL_CODE`:

- the **shipped program** `mcoreloader <core> <ELF file>` (macro undefined):
  resets a DSP core, writes a *static* executable into its memory through the
  files of `/proc/mcore`, boots it and exits;
- the **reference loader** (macro defined): a shell that loads and unloads
  *dynamic* modules with everything they need, keeps use counts, assigns DSBT
  slots, relocates, and manages target memory itself.

`McoreLoader` is a model of the first, the other modules of the second (placement,
relocation and ELF reading are common to both).

## 1. Inventory

| Part | Source | State it keeps | Operations |
|---|---|---|---|
| Loader core | `DLOAD/dload.c`, `dload.h` | queue of loaded modules, `DLIMP_module_dependency_list`, `DLIMP_dependency_stack`, use counts, dependency lists of handles | `DLOAD_load`, `DLOAD_unload`, `DLOAD_load_symbols`, queries of a handle |
| DSBT client | `DLWRAPPER/dlw_dsbt.c` | request queue, master DSBT, `DSBT_first_avail_index`, each module's own table | register a request, assign indices, update all tables, release a slot |
| Target memory, reference build | `DLWRAPPER/dlw_trgmem.c` | linked list of packets that tile the pool | `DLTMM_malloc`, `DLTMM_free` |
| Target memory, shipped build | same file | three files of `/proc/mcore` per core | `trg_minit`, `DLTMM_malloc`, `DLTMM_set`, `DLTMM_writefd`, `DLTMM_close` |
| Program | `DLWRAPPER/main.c`, `dlw_client.c` | the handle, the boot address, the exit status | reset, load, find the entry, unload, boot |
| Placement | `DLOAD/dload.c` | segment addresses, symbol values, entry point, program headers, dynamic tags | one step per segment, then the tags |
| Symbols | `DLOAD_SYM/symtab.c` | local table, global copy | canonical lookup, global lookup |
| Relocation | `C60_DLOAD_REL/c60_reloc.c` | the relocated fields | PLTGOT pass, one GOT pass per segment, `reloc_do` per entry |
| Dynamic table | `C60_DLOAD_DYN/c60_dynamic.c`, `dload.c` | the tags and what was noted of them | scan, move of section addresses |
| ELF reading | `DLOAD/elf32.h`, `dload_endian.c`, `dload.c` | the dynamic module while a load lasts; the terminators' addresses after it | header and sanity checks, byte swapping, calls of initialisers and terminators |
| Shell | `DLWRAPPER/dlw.c` | `prog_handle`, `loaded_program`, `DLL_debug` | one per command |
| Debug list | `DLWRAPPER/dlw_debug.c` | context stack, mirror of the target's list | push at a load, pop into the target at success, remove at an unload |
| Containers | `ArrayList.c`, `Queue.h`, `Stack.h` | linked nodes or a growing buffer | sequence operations |
| Sample scripts | `scripts/syslink/*.sh` | none | run the loader once per core, then the application |

**How they interact.** The core calls its client through the `DLIF_` functions;
`DLIF_load_dependent` and `DLIF_unload_dependent` call straight back into
`DLOAD_load` and `DLOAD_unload`, so both are re-entered while the outer call
walks the shared queue, list and stack. All three are globals; nothing cleans
them when a load returns early. Requests for DSBT slots pile up during the
nested loads and are served by the outermost one. Target memory is shared by
everything loaded. Processes of `mcoreloader` share only the cores.

**What is hard.** Re-entrance under shared state; loads that fail half way and
the state they leave for the next call; use counts over shared and circular
dependencies; checks made at one time and relied on at another (slot indices);
links of a list that go stale; a boot after a partial write; the range and bit
arithmetic of twenty relocation types; the order of initialisers.

**What makes each part correct.**

- core: a module lives exactly as long as someone uses it; a handle given to the
  client stands for a whole, initialised program; initialisers run after those
  of the modules needed; each call returns;
- shell and debug list: the list in target memory names what is in memory; a
  handle given up twice takes nothing from anybody; every command ends;
- ELF reading: a file is read as its linker meant it, in either byte order, turned
  down for cause only, and its functions are called where they run;
- DSBT: one slot per module, never taken over, found through every table;
- target memory: blocks in the pool and apart; nothing lost; no stale link used (which
  the code keeps until it first leaves a neighbor of a new packet untold);
- shipped program: a booted core has the whole image of its program and the exit
  status tells so; it ends, whatever fails;
- placement and relocation: everything moves once, with its segment; each entry
  is applied once; the instruction reaches what its symbol names.

The hazards of the code, each at its line, are listed in `PROJECT.json`.

## 2. Modules

| Module | Models | Used with |
|---|---|---|
| `ModuleStore` | abstract: modules, who needs them, when they end | refined by `Dload`; proofs in `DloadProofs` |
| `Dload` | the loader core and the callbacks that re-enter it | `MCDload`, proofs in `DloadProofs` |
| `DebugList` | the list of debug records in target memory and its mirror | proofs in `RidlProofs` |
| `Ridl` | the shell and its callbacks: composes `Dload` and `DebugList` | `MCRidl`, proofs in `RidlProofs` |
| `ElfFile` | one dynamic file from its header to its terminators | `MCElfFile`, proofs in `ElfFileProofs` |
| `DsbtMaster` | the DSBT client | `MCDsbtMaster`, proofs in `DsbtMasterProofs` |
| `TargetPool` | abstract: memory with one owner | refined by `TargetMemory` |
| `TargetMemory` | the packet list | `MCTargetMemory`, proofs in `TargetMemoryProofs` |
| `McoreLoader` | the shipped program, several processes | `MCMcoreLoader`, proofs in `McoreLoaderProofs` |
| `RelocationFields` | arithmetic of each relocation type, and the processor's reading of it | proofs in `RelocationProofs` |
| `Relocation` | placement, symbols and relocation of one module | `MCRelocation`, proofs in `RelocationProofs` |
| `QueueLemmas` | facts about removal, front, tail and search in sequences | the proof modules of the lists |

A definition with an underscore and a suffix (`StillUsed_Ignored`) is a seeded
fault: a plausible bug in the definition that follows it. `PROJECT.json` names
for each property of each passing run the fault that breaks it.

### Dload

The C call stack is state: `frames` has one record per call of `DLOAD_load` or
`DLOAD_unload` under way, with the file or handle it works on, the next
dependency and where it stands; `ret` is the value the innermost call has just
returned. Each action is what the code does between two callbacks:

- `TopLoad`, `TopUnload`, `LoadSymbols`: the client enters, only when idle (one
  thread, `dlw.c`);
- `RejectFile`, `RejectCircular`, `FailAllocation`, `PlaceModule`: `DLOAD_load` up
  to the dependency loop, one action per way out;
- `NeededIsLoaded`, `LoadDependent`, `DependentNotFound`, `DependentReturned`: one
  entry of the `DT_NEEDED` list in `dload_and_allocate_dependencies`;
- `NeededDone`, `Relocate`, `RelocateDone`: `relocate_dependency_graph_modules`
  with the test of the stack's bottom;
- `UnloadDependent`, `DependentUnloaded`, `UnloadDone`: the body of
  `DLOAD_unload`; its entry is `EnterUnload`;
- `AbortOnDoubleFree`: the queue node is freed twice (dload.c:2669-2670), and a C
  library that checks ends the program.

`loaded` keeps every record ever made, so a handle is an index and a freed
module is one that is no longer in `loaded_objects`. The contents of the files
(`disk`) are chosen in the initial state; what can fail is the constant `Faults`.

`ImplementsStore` is the refinement to `ModuleStore`: memory is the queue, what is
held is what the client, a call under way or its answer holds, and the needs of a
module are the entries of its dependency list it has not given up. Use counts,
list, stack and nested calls are hidden by it. It holds where no load fails.

### DebugList and Ridl

`DebugList` has the list twice, as the code does: `mirror_debug_list` on the host,
and `first_module_ptr`, `next_module_ptr`, `segments` in target memory, by address.
Memory keeps its content when it is released, so a next pointer that is not written
is the one that stood there. An address stands for the room of one record: that
two allocated blocks are apart is the business of `TargetMemory`. A segment is
named by the handle of its module.

`Ridl` adds to each step of the core what the client does around it, in one action:
`ShellLoad` pushes the host record and enters `DLOAD_load`; `NestedLoad`,
`NestedLoadReturned` and `NestedUnloadReturned` are the callbacks of `dlw_client.c`;
`Placing` gives the record on the top of the stack its segment; `ShellLoadDone`,
`ShellLoadFailed` and `ShellUnloadDone` are the rest of the command. `ShellUnload`
unloads `prog_handle` whatever it is by then: unlike the client of `Dload` the shell
may give up a handle it does not hold. `completed` is history: the handles
`DLOAD_load` has answered.

### ElfFile

One file, from `dload_file_header` to `execute_module_termination`, with `pc` for
the function that works on it. A file is what its linker meant (headers, tags,
symbols, words with addresses to relocate) and a byte order; what is read is
`Stored`, swapped when the order is that of the file and `Swap` puts it right
record by record (`EhdrSwapped`, `PhdrSwapped`, `DynSwapped`, `SymSwapped` are the
fields each function of `dload_endian.c` swaps). Numbers are scaled down: two
bytes to a word, one word to an address. `wrong_endian`, `noted` (the fields of
the dynamic module a tag fills) and `fini` (what is left of them in the loaded
module) are the code's. What a linker sees to is `FileAssumption`: tables
are where their tags say, segments are apart, an array of functions lies in one
segment, what is relocated or listed is the address of something (`Written`, `Linked`).
TLC evaluates it on every file of the run. What a good file is (`Sound`) is said of the
file alone, with plain numbers and without the loader's checks; the property compares it
with the outcome. `Apart` is an assumption on the answers of `DLIF_allocate`: each
segment has memory of its own. `TargetMemory` keeps it while its list is intact, and
after that it may not.

### DsbtMaster

`queue`, `size`/`master`, `first_avail`, `assigned` are the variables of
`dlw_dsbt.c`; `table` is target memory. The two loops of
`DLIF_assign_dsbt_indices` are stepped one request at a time under `pc`. `clean`
is history: no load failed while requests were queued. A request that a failed
load left in the queue is served by the next load; properties that a failed load
breaks are stated under `clean`, the others hold with it too.

### TargetMemory and TargetPool

Packets have names, as they have addresses in the host's heap, and carry the
links the code leaves in them, stale ones too. A name that some packet still
refers to is not used again: reuse by `malloc` could only hide a stale link.
Following a link to a freed packet is undefined; the model has no step that does.
`trg_alloc_pkt` does not tell every neighbor of the packets it makes: the packet behind
a split keeps its old prev link (line 297), and padding in front is linked backwards only
(lines 264-269). The history variable `intact` is TRUE until that has first happened, or
an address in a packet in use was asked for. The client is any client: any size,
alignment and address, blocks given back in any order; the properties hold of it while
the list is intact, and section 6 has what happens after. `Nested` restricts the client
to one that releases its latest block or everything, as `DLOAD_unload` of a program does;
only `Target_aligned` uses it, to show that even such a client gets blocks that overlap.
`ImplementsPool` is the refinement: the set of blocks handed out is the pool's
`owned`.

### McoreLoader

One process per running `mcoreloader`. Those for different cores run at once, those
for the same core one after the other (`HasTurn`), as the scripts start them. `pc` follows `main()`; the static
executable path of `DLOAD_load` is `LoadHeaders`, `OpenDevices`, `LoadSegment`
(once per segment) and `FinishLoad`. `cpu`, `memory` and `booted` are the cores
behind `/proc/mcore`, which is a kernel driver outside the repository: any open
or write may fail. `memory` records whose segments were written since the reset,
with 0 for a segment that was cleared and only filled in part.

### RelocationFields and Relocation

`RelocationFields` has the four stages of `reloc_do`: value (`RelocValue`), range
check (`RelOverflow`), `PackShift` and the mask (`FieldOf`). `Operand`, `Pair`,
`Unit` and `Aligned` are the processor's side, from the C6000 instruction
formats; they are external and are what the code is checked against.
`Relocation` places the segments one at a time at addresses the client chooses
(`PlaceSegment`, `FailPlacement`), moves the dynamic tags (`MoveTags`), then runs
the PLTGOT pass (`RelocatePlt`) and a GOT pass per segment (`RelocateSegment`).
`HostOffset` is where the client buffers a segment relative to where it runs:
0 for the client of this repository. `PlaceSegment` moves the `p_vaddr` of every program
header the code moves; `p_paddr`, where line 772 changes header i in place of header j,
is left out: nothing after it reads the field.

## 3. Runs

| Run | Question | Bounds | States, time |
|---|---|---|---|
| `Dload_disks` | Without failures, for every dependency graph: use counts, usable handles, order, complete release, the abstract store | every graph on three files with every order of its lists (125), three top-level loads | 1,007,474; 40 s |
| `Ridl_sessions` | Sessions of the shell, by hand or from a script, with every failure at every place | chain, diamond, circle, a circle through a renamed file, a file that carries the name of another as `DT_SONAME`; no new command once three handles are given out; three debug records, two host records on the stack before a new command | 1,128,385; 80 s |
| `Elf_files` | Every kind of file, good and bad, in both byte orders | executables and libraries, every order of the five mandatory tags, one fault at a time; four placements | 50,538; 7 s |
| `Dsbt_loads` | Five modules with specific and general requests, loads that fail, releases in any order | five modules, one conflict, one gap in the table | 375,240; 6 s |
| `Target_clients` | Any client: blocks of any alignment, for any address or for a given one, given back in any order | pool of 6 words, sizes 1 to 3, alignments 1 and 4, addresses at the start and in the middle, three blocks, 9 packet names; not explored beyond the first neighbor left untold | 19,914; 34 s |
| `Mcore_processes` | Two processes for different cores at once, or for one core in turn, each with one of five files; devices that fail at any step; a core the SoC lacks | two processes, three core numbers | 19,739; 3 s |
| `Reloc_images` | Every relocation type at the limits of its field; symbols of every binding; table passes over three segments | 64-byte segments, three addresses, up to four entries | 11,978; 7 s |

Five more runs each show one statement of the documentation violated:
`Dload_circular_missed`, `Dload_init_order`, `Dload_not_usable`, `Ridl_list_end`,
`Target_aligned` (section 6).

### What each property says, briefly

*Loader core, no failures.* `UseCountExact`: each use count equals the client's
handles, loads under way and dependency entries not yet given up.
`HandleIsUsable`: what the client holds is in memory, relocated and initialised
with everything it reaches. `ForestInitializedFirst`: the order of initialisers is
right when no file is needed twice. `AllReleased`: giving up every handle empties
the queue, unless the graph has a circle. `CircularOnlyIfLoading`: no false refusal.
`ImplementsStore`: a module is terminated when its last use ends, not before and
not later, and is freed after it gave up what it needs.

*Loader core, with failures.* `UseCountCovers`: a use count is never below the uses.
`NoUseAfterTermination`: a module that still runs needs none that was terminated or
freed. Both are theorems for a client that gives each handle up once;
`StaleUnloadHarmless` states them for the shell, whose user may give a handle twice.
`RecursionBounded`: no name is being loaded twice at a time and no module unloaded by
two calls, so the re-entrance is no deeper than the dependencies; a theorem for that
client, and checked in sessions of the shell.

*Sessions, with failures.* `DebuggerSeesModules`: at the prompt, if there was one base
image and n modules are in memory whose load succeeded, the first n records a debugger
meets from the list header on are exactly these, each once, with its name and its
segments; with none the header is NULL. n is counted in the modules, not in the host's
mirror. Where the n-th record leads is not claimed: target memory holds no count, and
`Ridl_list_end` shows that the pointer there may be an old one, so that a debugger which
goes on meets a record for the second time or one that is gone. `LinkedInOrder`: no two
records share memory and each but the last leads to the next, in target memory as in
the mirror. `ExecutedIsInMemory`: `execute` never jumps into a module that is gone.
`StaleUnloadHarmless`: without circles no use count is ever lower than the uses, and
no module that runs depends on one that was terminated, although the shell unloads
handles it does not hold any more and loads fail half way. A circle is one by either
name of a file (`AcyclicByName`): a list names files, but the search of the loaded modules
compares `DT_SONAME` too, so a file whose `DT_SONAME` is the file name of another stands
in for it once it is loaded. Without a circle of file names alone the property is false: such
a file can become a user of the module that the user of the shell gives up twice. `RecursionBounded`: the
re-entrance is no deeper than the dependencies. `CrashOnlyOnBaseImage`: the list is
only found empty by an unload of a base image. `BackToPrompt` (liveness): every
command ends.

*ELF reading.* `ReadAsLinked`: after the tag scan headers, tags, symbols and names
are what the linker meant. `TurnedDownForCause`: a good file passes every check, a
bad one fails some check before one of its initialisers runs. Good is what the file's
linker means by it: the magic number of ELF, and segments that end before or where the
file ends. The code differs in three cases, which the property excepts by name and
section 6 lists: a segment that ends exactly with the file is refused; a wrong magic number
is not; nor is a segment far off the end, when the sum wraps around. `CalledWhereTheyRun`,
for files of the byte order of the host: the functions called are those listed and no
others, in the order listed (terminators in reverse), at the addresses where they run. For
`.preinit_array` this is claimed only of an executable that was not moved: its words are
called before they are relocated, in a moved file at addresses where something else is.

*DSBT.* `BelowFirstAvailOccupied` (the cache), `SlotIsOwn`, `RequestsKept` (what was
checked at registration still holds at assignment), `SlotNeverTakenOver`,
`SlotsAreModulesInMemory`, `TablesComplete`.

*Target memory*, for any client while the list is intact. `ListTilesPool`: the list tiles
the pool, and no two free packets are neighbors. `RoomIsListed`: a request is refused only
when no stretch that nobody holds is large enough at its alignment. `LinksAreLive`: no
walk or release meets a packet that was freed. `ImplementsPool`: a block handed out shares
no address with what is held, and a release gives back the block of its address.

*Shipped program.* `BootedImageIsWhole`, `StatusTellsWhatRuns`, `WrittenInReset`,
`EveryProcessEnds` (liveness).

*Relocation.* `MoveWithSegment` (segments, symbols, entry point, section tags),
`EveryEntryOnce`, `ReachesTarget`, `PairsCombine`.

### Why the bounds are enough

- Three files give every shape the dependency code tells apart: a shared module, a
  chain, circles of two and three, two lists in each order. `HandleBound` = 3 lets
  the client load a program again beside or after another one; the guard applies
  to new top-level calls only, so a nested load is never cut off.
- In `Ridl_sessions` three handles are enough for a base image with a list header,
  a program and one it needs; five graphs have the shapes failures and names tell
  apart (one of them loads a fourth module inside a command). Three records fill the memory
  for them, so that the fourth has none; with two host records left by failed loads
  a third load still works above them.
- A word of two bytes is the smallest that a swap can change and that can wrap
  around; the mandatory tags come in every order, each of them is missing once, and
  each check of the code has a file that fails just that one. The placements move no
  segment, one, both, and one to where the other was linked.
- Five modules fill specific slot 0 twice (a conflict), leave a gap below slot 2
  and fill it with general requests, and release in any order.
- A pool of 6 words with up to three blocks and gaps between them: each merge occurs
  (with the packet before, after, both or neither, at the head and at the end), gaps that
  fit exactly are given out again, and the states after the first untold neighbor are
  reached and checked. `PacketBound` only has to exceed the packets and stale names alive
  at a time. The proofs cover any pool and any client.
- Two processes interleave when their cores differ, and the second finds what the
  first left, after a success or any failure, when the cores are the same; the
  proofs cover any number of processes and cores.
- Relocation values are tried at, just inside and just outside each limit; the
  theorems of `RelocationProofs` cover the values between.

### Fairness and deadlock

`Dload` has `WF_vars(LoaderStep)`: the loader runs in the thread of its caller and
does not block, so a call that is under way takes its next step. Nothing is
assumed of the client. `McoreLoader` has weak fairness per process: the operating
system schedules each one; nothing is assumed about which outcome a device call
has. `RidlSpec` has weak fairness of `CoreStep \/ ShellReturned`, for the reason given
for `Dload`: they are one thread; the user need not type anything. `DsbtMaster`,
`TargetMemory`, `Relocation` and `ElfFile` have no liveness property and no fairness. Deadlock is not checked where the program may stop: after an abort or
when every process or the shell ended (`Dload`, `Ridl`, `McoreLoader`), when the one file is done
(`Relocation`, `ElfFile`), and in `Target_aligned` where a release without its packet ends
the program. It is checked in `Dsbt_loads` and `Target_clients`: there some
operation is always possible.

## 4. Proofs

`DsbtMasterProofs` proves for any set of modules, any requests and any table
sizes, from `DsbtAssumption` alone:

- `TypeCorrect`, `FirstAvailable`, `SlotOwnership`, `QueueKept`: the invariants
  `TypeOK`, `BelowFirstAvailOccupied`, `SlotIsOwn`, `RequestsKept`;
- `IndexAnswered`: a general request is answered with the slot the module holds
  (`GeneralKnowsIndex`, not the property of a run);
- `NoTakeOver`: the action property `SlotNeverTakenOver`.

The argument: `SlotIsOwn` alone is not inductive, because `assign_dsbt_entry` does
not look at the slot it takes. It relies on the check made at registration, so
the invariant `Inv` adds `RequestsKept`, what a queued request knows: it is queued
once, for a module without a slot; no two want the same slot, nor one in use; and
the loops that follow find the queue as they expect it (`PhaseOfQueue`). The
general requests keep this because the specific loop has emptied the queue of
specific ones before the first general one is served: a general request could
otherwise take a slot somebody was promised. There is one lemma per action.

Two more follow from it. `SlotsOfMemory` (`SlotsAreModulesInMemory`) needs `HoldOrWait`:
as long as no load failed, what is in memory holds a slot or has its request queued.
`TablesLeadEverywhere` (`TablesComplete`) has the hypothesis `[]AllFit`: every module's
own table has room for the whole master. Without it the code writes no table at all
(section 6), so the property cannot hold.

`RelocationProofs` has two parts. The first proves for every integer value that a value
that passed the range check of its type, and has none of the bits the packing drops, is
what the processor makes of the field: branches (`BranchFieldDecodes`), 16-bit signed
(`SignedFieldDecodes`), 15-bit unsigned base-relative (`UnsignedFieldDecodes`), `PREL31`
(`PlaceFieldDecodes`), and that two 16-bit halves make a 32-bit value (`HalvesDecode`).
The second proves for any files, any number of segments, symbols and entries, and any
addresses the client chooses:

- `RelocationTypes` (`TypeOK`), with `InOrder`: the loader is where the segments placed
  and passed say it is;
- `EverythingMoves` (`MoveWithSegment`), from `Moves`: after each segment every symbol,
  its public copy and the entry point are at `NowAt` of their linked address, and the
  marks `moved` and `entry_due` say which of them were in a placed segment. The marks
  are what keeps a symbol from moving again when a later segment was linked where an
  earlier one was placed;
- `EachEntryOnce` (`EveryEntryOnce`), from `Relocated`: the entries written or reported
  so far are those `Visited`, each once with `FieldOf` of its value;
- `InstructionsReach` (`ReachesTarget`) and `HalvesCombine` (`PairsCombine`): the value
  is the distance between what the symbol means and the origin of the instruction
  (`WrittenDistance`), and the first part says what the processor makes of it.

`RelocationAssumption` has what a linker guarantees of a file (`WellLinked`): an entry's
symbol is in the table, segments are apart, a module defines a global name once, and
there is one static base. The last two theorems have two hypotheses. `HostOffset = 0`: the
client's buffers are where the segments run, as in this repository (section 6 has what
happens otherwise). `[]WordSized`: distances of the types that are not range checked fit
in 32 bits, as they do on a processor with 32-bit addresses; addresses are natural
numbers here.

`McoreLoaderProofs` proves for any number of processes, cores and files, whichever
device fails: `TypeCorrect` (`TypeOK`), `WholeImageBooted` (`BootedImageIsWhole`),
`StatusTells` (`StatusTellsWhatRuns`) and `NothingWrittenToARunningCore`
(`WrittenInReset`). The argument: what a core was booted with is decided long
before it is booted, so the invariant says for each place of `main()` what the
memory of its core holds (`Written`), that the core stays in reset and nobody's
from its reset to its boot (`CoreWaits`), and what the status and the core have
to do with each other (`Status`). That another process does not disturb this is
`Exclusive`, which rests on `HasTurn`: the proofs show what the scripts' order of
starting the loaders is good for. `OthersKept` carries it through every action.

`DloadProofs` proves for any files with any dependency lists and names, any faults and
any bound:

- `CoreTypeCorrect` (`TypeOK`): every handle in the queue, on the stack, on a dependency
  list or in the client's hands is one that was given out. The invariant `CoreInv` says it
  with the number n of handles given out as a parameter of each part; steps that give
  out a handle use that every part for n is one for n + 1 (`FramesGrow`, `OrdersGrow`);
- `UseCountsCover` (`UseCountCovers`) and `NeededStaysUsable` (`NoUseAfterTermination`):
  the invariant `UseInv` adds the shape of the calls under way (`ControlInv`: all loads or
  all unloads, only the top one elsewhere than at its list), that a module in memory
  has a use unless a call unloads it (`ModuleState`), that what is used is in memory
  (`UsedIsLive`), and that use counts are at least `AllUses`: one for the client, the
  call or the answer that has the handle, and one for every entry of a dependency list
  not given up. Uses are counted as a set of pairs of a module and a position, so a
  use taken or given up adds or removes one pair (`OneUseMore`, `OneUseLess`);
- `RecursionIsBounded` (`RecursionBounded`), from `NamesInv`: the so_names of the loads
  under way are on `DLIMP_module_dependency_list` in the order of the calls. What a
  failed load left on it is in front of them and only makes more files count as
  circular.

`Reach` (what a module needs, directly or through others) is the intersection of the sets
closed under need, so that nothing in `Dload` is recursive.

The second half of `DloadProofs` assumes `Unfailing`, that no fault occurs and each file has the
so_name others know it by, as `Dload_disks` does; the files, their lists and `HandleBound`
are any:

- `UseCountsExact` (`UseCountExact`), from `Exact`;
- `HandlesAreUsable` (`HandleIsUsable`), from `GraphInv`: the graph under load is what was
  given a handle since the call at the bottom of the C stack placed its module
  (`Bottom`). What is older does not depend on it (`GraphApart`), everything that is in
  memory has run its initialisers or waits on the dependency stack (`StackOrder`), and
  no file is in the graph twice (`GraphSmall`), so loads do not run out of handles;
- `EverythingReleased` (`AllReleased`): a module in memory that nobody outside holds has
  a user in memory, whose rank in an acyclic graph is higher; so the one with the
  highest rank is nowhere (the acyclicity the code relies on is stated by ranks);
- `NoneIsRefused` (`CircularOnlyIfLoading`);
- `ForestInOrder` (`ForestInitializedFirst`), from `OrderInv`: handles grow along the call
  stack and along the dependency stack (`CallsInOrder`, `StackInOrder`); whatever is in
  the graph besides its bottom was brought there by an entry its user has dealt with
  (`Brought`). With each file needed in one place that user is the only one, so a file
  found in memory is never part of the graph (`FoundIsBelow`; that it is not the bottom
  either takes the ranks, `Descends`), and every module of the graph depends on modules
  older than the graph or younger than itself (`NoneBack`). The stack, popped from the
  top, then runs what a module needs before it. TLC checked `OrderInv` on the 125
  graphs of three files of `Dload_disks` first;
- `LoaderImplementsStore` (`ImplementsStore`): the refinement, with a lemma for each
  step that says which step of `ModuleStore` it is;
- `TerminatedWithTheLastUse`: a module in memory has run its terminators exactly when no
  one outside holds it and nothing in memory has it on its list, between any two steps
  of the nested calls. It is what the abstract store promises (the lemma
  `TerminatedExactly`), brought down to the loader through the refinement.

`RidlProofs` first proves `ListTypeOK` and `LinkedInOrder` of the debug list for any client
(`ListSpec`). The argument is by positions: adding makes position n + 1 and links n
to it; removing position k moves position i to `Earlier(i, k)`, and the one before k
gets the pointer of k, which led to k + 1. Then it puts the list and the core together
for the shell: `RidlTypeCorrect` (`RidlTypeOK`) and `SessionStaysLinked` (`LinkedInOrder`)
hold in every session of any length, with any files and failures. `RidlInv` is the two
invariants side by side with the shell's own; that the shell's handle stays one is
`HandlesStay`: no step of the core forgets a module. It uses
`1 .. HandleBound \subseteq Header` from `RidlAssumption`, which says that each module
could be a base image with a list header.

Two properties of the shell itself follow. A session can give up a handle twice, so
the use counts that `DloadProofs` reasons with may be too low here, and failures
are allowed; what still holds in every session is `SessionCalls`: the calls under way
are all loads or all unloads, no two of them work on one module, and what is being
unloaded has no use left, so a second unload of it ends nothing (`Spent`). On it rest

- `ExecutedStays` (`ExecutedIsInMemory`), from `ProgramStays`: what `execute` would call
  is in memory, was not terminated and is not being loaded still, unless an unload is
  under way or its answer is out, and that answer makes the shell forget the program.
  The handle that a load answers with is in the same state, so the shell may take it;
- `CrashNeedsBaseImage` (`CrashOnlyOnBaseImage`), from `RecordInv`: the shell's program,
  when it is not a base image, has its debug record while it is in memory and while it
  is being unloaded (`ProgramRecorded`), so the list is not empty when
  `DLDBG_rm_target_record` is entered. The records taken off meanwhile are of other
  modules (`FreedLast`): each call is of the dependent the call outside it has just
  passed (`UnloadOfProgram`), and the outermost is of the program.

The last two theorems are about what a session leaves behind.

- `StaleUnloads` (`StaleUnloadHarmless`), from `SoleInv`: the module a load at the prompt
  makes is used by nobody but the shell (`LoadedAlone`, `RememberedAlone`). A load always
  makes a new module, and the files loaded inside it rank below its own
  (`BelowBottom`), by either name, so that none of them finds it. Giving the handle up
  therefore frees the module, whichever loads failed (`GivenUpLeaves`), and giving it
  up again finds nothing. `UseInv` then holds as it does for the client of `Dload`. That
  both names count TLC shows on the disk `Shadowed`.
- `DebuggerSees` (`DebuggerSeesModules`), from `DebugInv`: while a command is under way the
  record of each loaded file is in one of three places. A load has its record on the
  host stack, in the order of the calls and above what failed loads left there
  (`LoadsOnStack`); what has come back is in the list in target memory, with its name and
  segments (`RecordsAreRight`), and the list has no others (`Due`); what an unload has
  just freed is still in the list but out of memory (`FreedIsGone`), and is taken out in the step
  that follows. That the pointers lead through all of it in order is `ListInv`, above; that the records a
  debugger meets first are as many as the modules it may meet is `AsManyRecords`.

TLC checked `SessionCalls`, `ProgramStays`, `RecordInv`, `SoleInv` and `DebugInv` on
`Ridl_sessions` before they were proved.

`ElfFileProofs` proves for any files a linker may write (`FileAssumption`), any size of a
byte and any placement of the segments apart from each other, from `ElfInv`:

- `ElfTypeCorrect` (`TypeOK`);
- `FilesReadAsLinked` (`ReadAsLinked`): swapping undoes the file's byte order
  (`SwapTwice`), so a record is read as meant when each field of several bytes is
  among those swapped (`RecordsRead`); and what has been noted of the tags passed so
  far does not depend on their order (`NotedBefore`);
- `OnlyDefectsTurnDown` (`TurnedDownForCause`), from `Verdict`: what a check refuses does not
  pass (`Passes` takes the loader's checks as one), and what passed all of them does, once
  its tags have moved too. `WhatPasses` then compares `Passes` with `Sound`: they differ in
  the three cases the property names and in no other;
- `CallsReachFunctions` (`CalledWhereTheyRun`), from `Placed`, `InMemory` and `Called`. Every word
  of a segment is where the segment was put, because segments stand apart; tags are moved one
  by one with their segment (`TagsMoved`) and the three that the terminators need are copied
  when they are (`FiniMoved`); after relocation the words of an array point to where
  their functions were put. An array lies in one segment, so walking it in target memory
  (`WordsAt`) meets the words the linker put there. The words of `.preinit_array` are those
  of the file; where no segment was moved they are also the addresses they stand for
  (`UnmovedRuns`).

TLC checked `ElfInv` on the states of `Elf_files` first.

`TargetMemoryProofs` proves for a pool of any size, any sizes, alignments and addresses asked
for, any number of packet names and any client, which gives its blocks back in whatever order:
`MemoryTypeCorrect` (`TypeOK`, also when the list is not intact any more), `ListIsTiling`
(`ListTilesPool`), `NoStaleLink` (`LinksAreLive`), `RefusedWhenFull` (`RoomIsListed`),
`BlocksApart` (`HeldApart` while the list is intact) and the refinement `ListImplementsPool`
(`ImplementsPool`). The only assumption is `TargetMemoryAssumption`. The statements end with
the first split that leaves a neighbor untold (`intact`) because after it they are false
of the code: `Target_aligned` shows it of `HeldApart`, section 6 of merges.
The invariant `MemoryInv` says, while the list is intact: links agree in both directions and
a packet ends where the next starts (`Linked`), no two free ones are neighbors
(`NoFreePair`), and the packets in use are the blocks held (`HeldInv`). A split keeps it when
it told all it concerns (`SplitLinked`). A release goes through two merges; `Joined` says
what either makes of two neighbors, `MergeKeeps` what both leave alone, and `JoinedLinked`
that the list they leave tiles the pool. That the walk from the head visits every packet, in
the order of addresses, is `ListComplete` and `ListSorted`, by a least counterexample. TLC
checked `MemoryInv` on `Target_clients` first.

`QueueLemmas` has what `RemoveAt`, `Front`,
`Tail` and a search for the first position do to a sequence; the library has no
theorems about them.

Only model-checked: what `Target_aligned` shows of a list that is not intact any more,
the other runs that end in a violation, and the two liveness properties `BackToPrompt` and `EveryProcessEnds`: fairness and `ENABLED` are beyond
the prover. Every other property of a passing run is a theorem, under the hypotheses
named above.

## 5. What is left out

- **Heap damage.** The double free of the queue node is an abort or harmless.
- **`Elf32_Rel` tables**: the C6000 code exits on them. Fields are 0 before the
  relocation, as in files with explicit addends. The branch of the global lookup
  that searches breadth first is dead: `direct_dependent_only` is always TRUE
  (dload.c:946).
- **Relocation in foreign byte order.** `ElfFile` has both orders but relocates whole
  words; `Relocation` has every field type in the order of the host.
- **Two loaders on one core at the same time.** Nothing in the code excludes it and
  nothing would hold; the scripts start them one after the other.
- **Handle overflow** after 2^31 loads.
- **Target memory after undefined behaviour**: the model stops there.
- **The shell's other commands.** `execute` calls the program and waits for it;
  `dump_trgmem`, the debug switches and `help` change nothing the loader reads; the
  `core` command belongs to the shipped client, whose statement
  `loaded_core = core_id` does not compile in the reference build. Parsing of
  arguments is left out.
- **The nodes of the containers**: queue, stack and array list are sequences.
- **Queries of a module** (`DLOAD_query_symbol`, entry names, static base) read and
  change nothing; their answers are not modelled.
- Printing of headers and relocations, the scripts, the build system, the kernel
  test modules.

## 6. Where the code and its documentation differ

Shown by a run:

1. `Dload_circular_missed`: circular needs are accepted (dload.c:186-197 against
   1855-1857).
2. `Dload_init_order`: a diamond initialises a module before one it needs
   (dload.c:2243-2246 against 2238-2241).
3. `Dload_not_usable`: after a failed load the next one answers a handle of a
   program that was never relocated (dload.c:2224 against dload_api.h:105-107).
4. `Ridl_list_end`: the last record in target memory keeps an old next pointer, so
   the mirror is no copy of the list (dlw_debug.c:213, 182-185 against 132-134).
5. `Target_aligned`: alignment padding leaves the list, and blocks overlap later
   (dlw_trgmem.c:264-269).

Seen while modelling, without a run:

- a DSBT that is too small does not fail the load: `DLIF_update_all_dsbts` writes no
  table then and its answer is not looked at (dload.c:2235 against
  dload_api.h:546-547);
- PC-relative branches are computed from the address of the host buffer
  (c60_reloc.c:427-428, 801): right only for a client, like the one here, whose
  buffers are target memory (against dload_api.h:398-400);
- the test of the magic number never refuses a file: `!x == y` compares a truth value
  (dload.c:1045-1048 against 1212-1214; excepted in `TurnedDownForCause`);
- a segment that ends exactly at the end of the file is refused, and the sum of its
  offset and size can wrap around, so that one that goes off the end passes
  (dload.c:1137 against 1134-1136; both excepted in `TurnedDownForCause`);
- pre-initialisers are called before relocation (dload.c:2439 against 2072-2076), so in a
  moved file at the addresses it was linked at (`CalledWhereTheyRun` says nothing of them);
- the words of initialiser and terminator arrays are not swapped in files of the
  other byte order (dload.c:2115);
- a tag no handler knows, or an array of size zero behind the last byte of a segment,
  fails the load only after its memory was allocated (dload.c:636);
- no failing path of `DLOAD_load` calls the destructor of the dynamic module
  (dload.c:2348-2382 against dload.h:136-140);
- unloading a program twice, when its files need each other in a circle, takes a use
  away that somebody still has, and a count can fall below zero;
- a second `base_image` overwrites `DLL_debug` and the list header's address
  (dlw.c:836): records already in target memory are then left as they are;
- `DLOAD_get_entry_names` writes every name to the first place (dload.c:2530);
- the dependency stack and list keep what a failed load pushed (dload.h:200,
  dload.c:1787-1790); the memory of its modules stays (dload.c:972-974, 2431);
- modules without `DT_SONAME` have the name "" and count as circular together
  (dload.c:1736-1741);
- `assigned_index` is assigned to itself for specific requests (dlw_dsbt.c:248), so
  `DLIF_get_dsbt_index` answers -1 for them (against dload_api.h:608-613);
- splitting a packet leaves the prev link of the packet behind it as it was
  (dlw_trgmem.c:297-299), so a free neighbor may not be merged, although one is "merged
  with any free neighbors" (171-172): take A of two words and B of one, give A back, take C
  of one word. C gets the front of A's packet, a free packet F of one word is made behind
  it, and B still has C's packet as the one before it. Now give B back: the code looks at
  C's packet, which is in use, and F and B stay apart. A request for as many words as they
  have together may then be refused;
- a request for an address ignores whether the packet is in use, and its end is not
  compared with the packet's (dlw_trgmem.c:399-406);
- a relocatable file makes the shipped `DLOAD_load` answer -1 (dload.c:2419-2420),
  where 0 means failure; main() fails a step later;
- without a `.vecs` section `DLOAD_get_reset_vector_section` answers TRUE and 0
  (dload.c:2594-2597 against 2578-2580);
- `PREL31` masks bits 30..0 of a value already shifted (c60_reloc.c:118, 285-286);
- foreign byte order swaps 32 bits around 16-bit and 8-bit writes (c60_reloc.c:525);
- the comment at symtab.c:217-222 has the base image searched first, the code
  searches only the modules needed;
- unresolved symbols and overflows are reported and the load still succeeds
  (c60_reloc.c:509, 793);
- program headers can be moved twice, and phdr[i] is changed for phdr[j]
  (dload.c:768-774);
- the scripts ignore the exit status of the loader
  (scripts/syslink/notify_app_test_4_core.sh:18).

## 7. Plan

Order: what the system does for its user first, then what it rests on.

1. Done: `Dload` refining `ModuleStore`, with its proofs; `Ridl`, which composes it with
   `DebugList`, with its proofs; `ElfFile`; `DsbtMaster` with its proofs; `TargetMemory`
   refining `TargetPool`, with its proofs; `McoreLoader` with its proofs; `Relocation` with
   `RelocationFields` and its proofs.
2. Done: the proofs of `Ridl` and of `ElfFile`; every safety property a run checks is a
   theorem.
3. `Dload` with `DsbtMaster`: the client's requests driven by the loads, with
   failed loads, to replace the `clean` history variable.
4. Base images in target memory: `Dload` with `TargetMemory` under it, for the
   release of segments that were never allocated (dload.c:872).
