------------------------------ MODULE ModuleStore ------------------------------
(***************************************************************************)
(* What the loader core promises about the modules in memory, without its  *)
(* use counts, lists and call stack: a module is held by the client, by a   *)
(* call under way, or because another module needs it.  It is terminated   *)
(* the moment its last use is given up, and only then; a module that was   *)
(* terminated gives up what it needs, and leaves memory after that.        *)
(* Dload implements this where no load fails.                              *)
(***************************************************************************)
CONSTANT Module

VARIABLES
  memory,      (* the modules in memory                                    *)
  held,        (* those the client or a call under way holds               *)
  needs,       (* by module in memory, what it has a use of                *)
  terminated   (* those in memory whose terminators have run               *)

store_vars == << memory, held, needs, terminated >>

Init ==
  /\ memory = {}
  /\ held = {}
  /\ needs = [m \in {} |-> {}]
  /\ terminated = {}

Needed(m) == \E n \in memory : m \in needs[n]
Used(m) == m \in held \/ Needed(m)

(* A file is loaded: its module is held by the call that loads it.         *)
Bring(m) ==
  /\ m \notin memory
  /\ memory' = memory \cup {m}
  /\ held' = held \cup {m}
  /\ needs' = [n \in memory' |-> IF n = m THEN {} ELSE needs[n]]
  /\ UNCHANGED terminated

(* m, under load, needs h: h is shared, or handed over by the call that     *)
(* loaded it for m.                                                        *)
Need(m, h) ==
  /\ m \in held
  /\ h \notin terminated
  /\ needs' = [needs EXCEPT ![m] = @ \cup {h}]
  /\ \/ UNCHANGED held
     \/ held' = held \ {h}
  /\ UNCHANGED << memory, terminated >>

(* The last use of h ends with this step.                                  *)
TerminatedAfter(h) ==
  terminated' = IF h \in held' \/ \E n \in memory : h \in needs'[n] THEN terminated
                ELSE terminated \cup {h}

GiveUp(h) ==
  /\ h \in held
  /\ held' = held \ {h}
  /\ UNCHANGED << memory, needs >>
  /\ TerminatedAfter(h)

(* A terminated module gives up one of the modules it needs ...            *)
Release(m, h) ==
  /\ m \in terminated
  /\ h \in needs[m]
  /\ needs' = [needs EXCEPT ![m] = @ \ {h}]
  /\ UNCHANGED << memory, held >>
  /\ TerminatedAfter(h)

(* ... and is freed when it has given up all of them.                      *)
Free(m) ==
  /\ m \in terminated
  /\ needs[m] = {}
  /\ memory' = memory \ {m}
  /\ needs' = [n \in memory' |-> needs[n]]
  /\ terminated' = terminated \ {m}
  /\ UNCHANGED held

Next ==
  \/ \E m \in Module : Bring(m)
  \/ \E m \in memory, h \in memory : Need(m, h)
  \/ \E h \in memory : GiveUp(h)
  \/ \E m \in terminated : \E h \in needs[m] : Release(m, h)
  \/ \E m \in terminated : Free(m)

Spec == Init /\ [][Next]_store_vars

TypeOK ==
  /\ memory \subseteq Module
  /\ held \subseteq memory
  /\ terminated \subseteq memory
  /\ needs \in [memory -> SUBSET memory]

(* A module in memory is terminated exactly when nobody uses it any more:   *)
(* neither is one in use terminated, nor is one without a use left to run. *)
TerminatedWhenUnused == \A m \in memory : m \in terminated <=> ~Used(m)
=============================================================================
