----------------------------- MODULE MCDsbtMaster -----------------------------
(***************************************************************************)
(* Instances of DsbtMaster for TLC: an executable that asks for slot 0 and *)
(* libraries that ask for specific slots or for any.                       *)
(***************************************************************************)
EXTENDS DsbtMaster

Handles == 1 .. 5

(* 1 and 4 want slot 0 (two executables), 3 wants slot 2, the rest any. *)
MixedRequests == << 0, -1, 2, 0, -1 >>

RoomyTables == [h \in Handles |-> 8]
=============================================================================
