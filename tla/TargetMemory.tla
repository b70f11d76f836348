----------------------------- MODULE TargetMemory -----------------------------
(***************************************************************************)
(* The target memory manager of the reference build                        *)
(* (DLWRAPPER/dlw_trgmem.c, ORIGINAL_CODE): one doubly linked list of       *)
(* packets, in use and free, that tile the pool.  Allocation splits a free  *)
(* packet, DLTMM_free merges the packet it frees with its neighbors.        *)
(*                                                                         *)
(* Every link is kept as the code leaves it, so a link may be out of date   *)
(* and may even name a packet that free() took back; a packet that is made  *)
(* anew gets a name nobody still refers to.  Following a link to a packet   *)
(* that was freed is undefined: the model has no step that does.            *)
(*                                                                         *)
(* trg_alloc_pkt does not tell the neighbors of every packet it makes.      *)
(* The history variable intact is TRUE until that has happened; what is     *)
(* promised while it is TRUE is promised to every client, whatever it asks  *)
(* for and in whatever order it gives its blocks back.                      *)
(***************************************************************************)
EXTENDS Integers, FiniteSetsExt, SequencesExt

CONSTANTS
  PoolStart,    (* trg_mem_pool_addr                                       *)
  PoolSize,     (* trg_mem_pool_sz                                         *)
  Sizes,        (* memsz_in_bytes of the segments asked for                *)
  Aligns,       (* their alignments, powers of 2                           *)
  Addresses,    (* target addresses that may be asked for                  *)
  PacketBound,  (* names of packets in host memory                         *)
  HeldBound,    (* blocks the client may have                              *)
  Nested        (* TRUE: the client releases its latest block, or all      *)

ASSUME TargetMemoryAssumption ==
  /\ PoolStart \in Nat /\ PoolSize \in Nat \ {0}
  /\ Sizes \subseteq Nat \ {0} /\ Aligns \subseteq Nat \ {0}
  /\ Addresses \subseteq Nat
  /\ PacketBound \in Nat \ {0} /\ HeldBound \in Nat
  /\ Nested \in BOOLEAN

NULL == 0
Name == 1 .. PacketBound
PoolEnd == PoolStart + PoolSize

VARIABLES
  packet,        (* the packets in host memory, by name                    *)
  trg_mem_head,  (* the name of the first packet of the list               *)
  held,          (* the blocks the client has, in the order it got them    *)
  unloading,     (* a nested client is giving everything back              *)
  intact         (* history: every neighbor was told of every split so far *)

vars == << packet, trg_mem_head, held, unloading, intact >>

Init ==
  /\ packet = [x \in {1} |-> [addr |-> PoolStart, size |-> PoolSize,
                              prev |-> NULL, next |-> NULL, used |-> FALSE]]
  /\ trg_mem_head = 1
  /\ held = << >>
  /\ unloading = FALSE
  /\ intact = TRUE

(* The packets the for loops visit, following next from the head.          *)
NextOf(x) == IF x \in DOMAIN packet THEN packet[x].next ELSE NULL

Walk[k \in Name] == IF k = 1 THEN trg_mem_head ELSE NextOf(Walk[k - 1])

List == [k \in {j \in Name : Walk[j] # NULL} |-> Walk[k]]

ListIsLive == \A i \in DOMAIN List : List[i] \in DOMAIN packet

(* Names of no packet, which no link of p leads to.                        *)
Unnamed(p) ==
  Name \ (DOMAIN p \cup {p[x].prev : x \in DOMAIN p} \cup {p[x].next : x \in DOMAIN p})

Fresh(p) == Min(Unnamed(p))

HasFresh == Cardinality(Unnamed(packet)) >= 2

(* p with one more packet.                                                 *)
Added(p, f, record) == [y \in DOMAIN p \cup {f} |-> IF y = f THEN record ELSE p[y]]

-----------------------------------------------------------------------------
(* trg_align and trg_alloc_pkt                                             *)

trg_align(addr, n) == ((addr + n - 1) \div n) * n

(* The front of x, up to the requested or to the aligned address, becomes  *)
(* a free packet.  It is linked backwards only: neither the packet before  *)
(* nor the head leads to it.  The size of x is reduced by lost.            *)
SplitFront(p, x, front, lost, used) ==
  IF front = 0 THEN p
  ELSE LET f == Fresh(p)
       IN  Added([p EXCEPT ![x].addr = @ + front, ![x].size = @ - lost, ![x].prev = f], f,
                 [addr |-> p[x].addr, size |-> front, prev |-> p[x].prev, next |-> x,
                  used |-> used])

SplitTail_WholeSize(p, x, size) ==
  LET f == Fresh(p)
  IN  IF p[x].size > size
        THEN Added([p EXCEPT ![x].next = f, ![x].size = size, ![x].used = TRUE], f,
                   [addr |-> p[x].addr + size, size |-> p[x].size, prev |-> x,
                    next |-> p[x].next, used |-> FALSE])
        ELSE [p EXCEPT ![x].used = TRUE]

(* What size leaves of x becomes a free packet after it.  The packet that  *)
(* came after x still has x as the one before it.                          *)
SplitTail(p, x, size) ==
  LET f == Fresh(p)
      taken == [p EXCEPT ![x].size = size, ![x].used = TRUE]
  IN  IF p[x].size > size
        THEN Added([taken EXCEPT ![x].next = f], f,
                   [addr |-> p[x].addr + size, size |-> p[x].size - size, prev |-> x,
                    next |-> p[x].next, used |-> FALSE])
        ELSE taken

-----------------------------------------------------------------------------
(* trg_malloc, called by DLTMM_malloc                                      *)

Pad(x, align) == trg_align(packet[x].addr, align) - packet[x].addr

Fits_Strict(x, size, align) ==
  /\ ~packet[x].used
  /\ packet[x].size - Pad(x, align) > size

Fits_InUse(x, size, align) ==
  /\ packet[x].size > Pad(x, align)
  /\ packet[x].size - Pad(x, align) >= size

Fits(x, size, align) ==
  /\ ~packet[x].used
  /\ packet[x].size > Pad(x, align)
  /\ packet[x].size - Pad(x, align) >= size

(* The smallest free packet that is large enough, the first of those.      *)
BestFit(i, size, align) ==
  /\ Fits(List[i], size, align)
  /\ \A j \in DOMAIN List :
       Fits(List[j], size, align) =>
         \/ packet[List[i]].size < packet[List[j]].size
         \/ packet[List[i]].size = packet[List[j]].size /\ i <= j

MayAllocate == ListIsLive /\ HasFresh /\ Len(held) < HeldBound /\ ~unloading

(* x is handed out whole, or it was the last packet: no packet but x has a *)
(* new neighbor.                                                           *)
TellsAll(x, front, size) == front = 0 /\ (packet[x].size > size => packet[x].next = NULL)

(* A request for any address.  used_packet of the packet made for the       *)
(* alignment padding is not initialized: it may read as either.  Without a  *)
(* packet that fits the request is refused and nothing changes.            *)
Allocate(size, align) ==
  /\ MayAllocate
  /\ \E i \in DOMAIN List :
       LET x == List[i]
           pad == Pad(x, align)
       IN  /\ BestFit(i, size, align)
           /\ \E used \in (IF pad = 0 THEN {FALSE} ELSE BOOLEAN) :
                packet' = SplitTail(SplitFront(packet, x, pad, pad, used), x, size)
           /\ held' = Append(held, [addr |-> packet[x].addr + pad, size |-> size])
           /\ intact' = (intact /\ TellsAll(x, pad, size))
  /\ UNCHANGED << trg_mem_head, unloading >>

Within(addr, x) == packet[x].addr <= addr /\ addr < packet[x].addr + packet[x].size

FreeAt(addr) == \A i \in DOMAIN held : addr < held[i].addr \/ held[i].addr + held[i].size <= addr

(* A request for one address goes to the packet that contains it, in use   *)
(* or not: one in use, which the client has, is in disorder from then on.  *)
(* A nested client asks for addresses it does not have.                    *)
AllocateAt(addr, size, align) ==
  /\ MayAllocate
  /\ Nested => FreeAt(addr)
  /\ trg_align(addr, align) = addr
  /\ \E i \in DOMAIN List :
       LET x == List[i]
       IN  /\ Within(addr, x)
           /\ \A j \in 1 .. i - 1 : ~Within(addr, List[j])
           /\ packet[x].size >= size
           /\ packet' = SplitTail(SplitFront(packet, x, addr - packet[x].addr, 0, FALSE), x, size)
           /\ intact' = (intact /\ ~packet[x].used /\ TellsAll(x, addr - packet[x].addr, size))
  /\ held' = Append(held, [addr |-> addr, size |-> size])
  /\ UNCHANGED << trg_mem_head, unloading >>

-----------------------------------------------------------------------------
(* DLTMM_free and trg_free_pkt                                             *)

(* Where the packets in use stand before the first one past addr.          *)
Passed(list, addr) ==
  LET used == {k \in DOMAIN list : packet[list[k]].used}
  IN  {k \in used : \A j \in used : j <= k => packet[list[j]].addr <= addr}

(* The last packet in use, before the first one past addr.                 *)
Found(addr, k) ==
  LET passed == Passed(List, addr)
  IN  k \in passed /\ \A j \in passed : j <= k

Live(p, x) == x = NULL \/ x \in DOMAIN p

Mergeable(p, x) == x # NULL /\ ~p[x].used

MergePrev(p, x) ==
  LET q == p[x].prev
      b == p[q].prev
      joined == [p EXCEPT ![x].addr = p[q].addr, ![x].size = @ + p[q].size, ![x].prev = b]
      linked == IF b = NULL THEN joined ELSE [joined EXCEPT ![b].next = x]
  IN  IF Mergeable(p, q) THEN Restrict(linked, DOMAIN p \ {q}) ELSE p

MergeNext_NoLink(p, x) ==
  LET q == p[x].next
  IN  IF Mergeable(p, q)
        THEN Restrict([p EXCEPT ![x].size = @ + p[q].size, ![x].next = p[q].next], DOMAIN p \ {q})
        ELSE p

MergeNext(p, x) ==
  LET q == p[x].next
      a == p[q].next
      joined == [p EXCEPT ![x].size = @ + p[q].size, ![x].next = a]
      linked == IF a = NULL THEN joined ELSE [joined EXCEPT ![a].prev = x]
  IN  IF Mergeable(p, q) THEN Restrict(linked, DOMAIN p \ {q}) ELSE p

(* The links that freeing x follows.                                       *)
FollowedLive(x) ==
  /\ Live(packet, packet[x].prev) /\ Live(packet, packet[x].next)
  /\ Mergeable(packet, packet[x].prev) => Live(packet, packet[packet[x].prev].prev)
  /\ Mergeable(packet, packet[x].next) => Live(packet, packet[packet[x].next].next)
  /\ packet[x].prev = packet[x].next => ~Mergeable(packet, packet[x].prev)

HeadAfter_Next(p, x) == IF p[x].prev = NULL THEN p[x].next ELSE trg_mem_head

HeadAfter(p, x) == IF p[x].prev = NULL THEN x ELSE trg_mem_head

(* Without a packet in use at or before the address the program exits.     *)
Release(i) ==
  /\ ListIsLive
  /\ \E k \in DOMAIN List :
       LET x == List[k]
           merged == MergeNext(MergePrev(packet, x), x)
       IN  /\ Found(held[i].addr, k)
           /\ FollowedLive(x)
           /\ packet' = [merged EXCEPT ![x].used = FALSE]
           /\ trg_mem_head' = HeadAfter(merged, x)
  /\ held' = RemoveAt(held, i)
  /\ unloading' = (Nested /\ held' # << >> /\ (unloading \/ i < Len(held)))
  /\ UNCHANGED intact

-----------------------------------------------------------------------------
Next ==
  \/ \E size \in Sizes, align \in Aligns :
       Allocate(size, align) \/ \E addr \in Addresses : AllocateAt(addr, size, align)
  \/ \E i \in DOMAIN held : Release(i)

Spec == Init /\ [][Next]_vars

-----------------------------------------------------------------------------
TypeOK ==
  /\ DOMAIN packet \subseteq Name
  /\ \A x \in DOMAIN packet :
       packet[x] \in [addr : Nat, size : Nat, prev : Name \cup {NULL},
                     next : Name \cup {NULL}, used : BOOLEAN]
  /\ trg_mem_head \in Name
  /\ held \in Seq([addr : Nat, size : Nat])
  /\ unloading \in BOOLEAN /\ intact \in BOOLEAN

Owned == {held[i] : i \in DOMAIN held}

Pool == INSTANCE TargetPool WITH owned <- Owned

(* The packet list implements the pool, for any client, as long as the     *)
(* list is intact: what trg_malloc hands out lies in the pool and shares   *)
(* no address with what is still held, and DLTMM_free gives back the block *)
(* it is given the address of.                                             *)
ImplementsPool == Pool!Init /\ [][intact' => Pool!Next]_Owned

(* trg_free_pkt merges a packet that becomes free "with any free neighbors  *)
(* on the target memory packet list" (dlw_trgmem.c:171-172): no two free    *)
(* packets stand side by side.                                             *)
NeighborsMerged ==
  \A i \in DOMAIN List : i + 1 \in DOMAIN List => packet[List[i]].used \/ packet[List[i + 1]].used

(* While the list is intact it is ordered by address and its packets cover *)
(* the pool: the next packet starts where a packet ends; and free packets   *)
(* have been merged.                                                       *)
ListTilesPool ==
  intact =>
    /\ packet[List[1]].addr = PoolStart
    /\ \A i \in DOMAIN List :
         packet[List[i]].addr + packet[List[i]].size =
           IF i + 1 \in DOMAIN List THEN packet[List[i + 1]].addr ELSE PoolEnd
    /\ NeighborsMerged

(* While the list is intact a request is refused only when no stretch of   *)
(* the pool that nobody holds is large enough at that alignment.           *)
RoomIsListed ==
  intact =>
    \A size \in Sizes, align \in Aligns :
      (\E addr \in PoolStart .. PoolEnd - size :
         /\ addr % align = 0
         /\ \A i \in DOMAIN held :
              addr + size <= held[i].addr \/ held[i].addr + held[i].size <= addr)
      => \E i \in DOMAIN List : Fits(List[i], size, align)

(* While the list is intact no walk and no release follows a link to a     *)
(* packet that was freed: the merges of trg_free_pkt leave neither a next  *)
(* nor a prev link behind, in whatever order blocks are given back.        *)
LinksAreLive ==
  intact =>
    /\ ListIsLive
    /\ \A i \in DOMAIN held : \A k \in DOMAIN List :
         Found(held[i].addr, k) => FollowedLive(List[k])

(* Blocks that are held at the same time share no address.                 *)
HeldApart ==
  \A i, j \in DOMAIN held :
    i < j => \/ held[i].addr + held[i].size <= held[j].addr
             \/ held[j].addr + held[j].size <= held[i].addr
=============================================================================
