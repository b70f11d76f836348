---------------------------- MODULE MCMcoreLoader ----------------------------
(***************************************************************************)
(* An instance of McoreLoader for TLC: two processes, at once for different *)
(* cores or one after the other for the same; core 9 is one the SoC does    *)
(* not have.  Every file has a segment.                                    *)
(***************************************************************************)
EXTENDS McoreLoader, TLC

CONSTANTS a, b

Two == {a, b}
Cores == {1, 2}
CoreNumbers == Cores \cup {9}
CoresGiven == {(a :> 1) @@ (b :> c) : c \in CoreNumbers}

Elf == [valid |-> TRUE, static |-> TRUE, aligned |-> TRUE, vecs |-> FALSE,
        segments |-> << "ddr", "sram" >>]

Files == {Elf, [Elf EXCEPT !.aligned = FALSE, !.vecs = TRUE, !.segments = << "msm", "ddr", "ddr" >>],
          [Elf EXCEPT !.valid = FALSE], [Elf EXCEPT !.static = FALSE],
          [Elf EXCEPT !.segments = << "ddr", "nowhere" >>]}
=============================================================================
