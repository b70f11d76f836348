---------------------------- MODULE MCTargetMemory ----------------------------
(***************************************************************************)
(* Instances of TargetMemory for TLC: a pool of a few words.               *)
(***************************************************************************)
EXTENDS TargetMemory

OneToThree == {1, 2, 3}
OneAndTwo == {1, 2}
Aligned == {1, 4}
NoAddress == {}
StartAndMiddle == {PoolStart, PoolStart + 3}

(* Bounds the run: states in which the list is not intact any more are     *)
(* checked, but not explored further.                                      *)
StillIntact == intact
=============================================================================
