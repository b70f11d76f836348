-------------------------------- MODULE MCRidl --------------------------------
(***************************************************************************)
(* Instances of Ridl for TLC, over the files of MCDload: room for a few    *)
(* debug records, and one file that can serve as a base image with a list  *)
(* header.                                                                 *)
(***************************************************************************)
EXTENDS Ridl, MCDload

Cells   == 11 .. 13
Headers == 1 .. HandleBound
Images  == {"c"}

(* "a" needs nothing and carries the name by which "c" needs another file. *)
Shadowed == Disk(<<>>, <<>>, <<"b">>, "b")

ForSessions == ForFaults \cup {Shadowed}
=============================================================================
