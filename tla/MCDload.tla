------------------------------- MODULE MCDload -------------------------------
(***************************************************************************)
(* Instances of Dload for TLC: small dependency graphs over the files      *)
(* "a", "b", "c".                                                          *)
(***************************************************************************)
EXTENDS Dload

Files == {"a", "b", "c"}
Names == Files \cup {"A"}

Disk(a, b, c, name_of_a) ==
  [f \in Files |-> CASE f = "a" -> [needed |-> a, so_name |-> name_of_a]
                     [] f = "b" -> [needed |-> b, so_name |-> "b"]
                     [] OTHER   -> [needed |-> c, so_name |-> "c"]]

(* Every dependency graph of three files, with every order of its lists. *)
Lists(f, g) == {<<>>, <<f>>, <<g>>, <<f, g>>, <<g, f>>}

EveryDisk ==
  {Disk(a, b, c, "a") : a \in Lists("b", "c"), b \in Lists("a", "c"), c \in Lists("a", "b")}

Chain   == Disk(<<"b">>, <<"c">>, <<>>, "a")
Diamond == Disk(<<"b", "c">>, <<>>, <<"b">>, "a")
Cycle   == Disk(<<"b">>, <<"c", "a">>, <<>>, "a")

(* "a" carries a so_name that is not the name of its file. *)
Renamed == Disk(<<"b">>, <<"c", "a">>, <<>>, "A")

ForFaults == {Chain, Diamond, Cycle, Renamed}
OneDiamond == {Diamond}
OneChain == {Chain}
OneCycle == {Cycle}

NoFaults  == {}
AllFaults == FaultKind
=============================================================================
