---------------------------- MODULE DurableStore ----------------------------
(***************************************************************************)
(* What the file persistence driver promises, with no files in sight: the  *)
(* state that reads show, the state that a restart brings back and the     *)
(* state that also survives the machine.  A state is the set of writes it  *)
(* includes.                                                               *)
(***************************************************************************)
CONSTANT Writes

VARIABLES visible,    \* what reads show
          stored,     \* what a restart brings back
          stable,     \* what a restart after a power failure brings back
          acked       \* writes whose save was reported, and that no power
                      \* failure undid

vars == <<visible, stored, stable, acked>>

Init == visible = {} /\ stored = {} /\ stable = {} /\ acked = {}

Write(w) == visible' = visible \cup {w} /\ UNCHANGED <<stored, stable, acked>>

\* The whole visible state is stored at once, never a part of it.
Store == stored' = visible /\ UNCHANGED <<visible, stable, acked>>

Settle == stable' = stored /\ UNCHANGED <<visible, stored, acked>>

Acknowledge(w) == /\ w \in stored
                  /\ acked' = acked \cup {w}
                  /\ UNCHANGED <<visible, stored, stable>>

Restart == visible' = stored /\ UNCHANGED <<stored, stable, acked>>

\* The writes that are lost with the power are owed to nobody any more.
PowerFailure == /\ visible' = stable /\ stored' = stable
                /\ acked' = acked \cap stable
                /\ UNCHANGED stable

Next == \/ \E w \in Writes : Write(w) \/ Acknowledge(w)
        \/ Store \/ Settle \/ Restart \/ PowerFailure

Spec == Init /\ [][Next]_vars
=============================================================================
