------------------------------ MODULE TargetPool ------------------------------
(***************************************************************************)
(* What the client's target memory manager promises the loader: memory     *)
(* handed out lies in the pool and belongs to one owner until it is given  *)
(* back.  TargetMemory implements it with the packet list of               *)
(* DLWRAPPER/dlw_trgmem.c.                                                 *)
(***************************************************************************)
EXTENDS Integers

CONSTANTS
  PoolStart,  (* trg_mem_pool_addr                                         *)
  PoolSize    (* trg_mem_pool_sz                                           *)

VARIABLE owned  (* the blocks handed out and not given back                *)

PoolEnd == PoolStart + PoolSize

Block == [addr : PoolStart .. PoolEnd - 1, size : 1 .. PoolSize]

Last(b) == b.addr + b.size - 1

Apart(b, c) == Last(b) < c.addr \/ Last(c) < b.addr

Init == owned = {}

Allocate ==
  \E b \in Block :
    /\ Last(b) < PoolEnd
    /\ \A c \in owned : Apart(b, c)
    /\ owned' = owned \cup {b}

Release == \E b \in owned : owned' = owned \ {b}

Next == Allocate \/ Release

Spec == Init /\ [][Next]_owned
=============================================================================
