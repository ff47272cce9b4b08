----------------------------- MODULE FencedSlot -----------------------------
(* What a fleet's authority slot promises to everyone who kept a copy of    *)
(* its generation: a slot has one holder at most, and the generation grows  *)
(* with every change of holder, so a generation never names two holders;    *)
(* and the counter has room for every change (its column is an int4).       *)
(* services/fleet-source-observation.ts and fleet-lifecycle.ts are to       *)
(* implement it; the detail is in FleetSource.                              *)
EXTENDS Naturals

CONSTANTS Slots, Holders, Nobody,
          Last       \* the last value of the column
VARIABLES holder, generation
slotVars == <<holder, generation>>

Init == /\ holder = [f \in Slots |-> Nobody]
        /\ generation = [f \in Slots |-> 0]

Changes(f, h) == /\ holder[f] # h
                 /\ holder' = [holder EXCEPT ![f] = h]
                 /\ generation' = [generation EXCEPT ![f] = @ + 1]

Acquire(f) == \E h \in Holders : Changes(f, h)
Withdraw(F) ==
  /\ F # {}
  /\ \A f \in F : holder[f] # Nobody
  /\ holder' = [f \in Slots |-> IF f \in F THEN Nobody ELSE holder[f]]
  /\ generation' = [f \in Slots |-> IF f \in F THEN generation[f] + 1 ELSE generation[f]]

Next == /\ \/ \E f \in Slots : Acquire(f)
           \/ \E F \in SUBSET Slots : Withdraw(F)
        /\ \A f \in Slots : generation'[f] <= Last

Spec == Init /\ [][Next]_slotVars
=============================================================================
