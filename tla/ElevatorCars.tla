---------------------------- MODULE ElevatorCars -----------------------------
(***************************************************************************)
(* Elevator cars as riders see them: each car has a position and the set  *)
(* of floors it has been asked to stop at.  A request adds floors; a car   *)
(* moves one floor at a time and only towards some requested floor; a      *)
(* request is cleared only by the car standing at that floor.  Cars act    *)
(* independently, and several may act in one step (they share a clock).   *)
(* ElevatorSim refines this with pos <- currFloor, requests <- localSched. *)
(***************************************************************************)
EXTENDS Integers

CONSTANTS Floors, Cars

VARIABLES pos, requests

Init == pos \in [Cars -> Floors] /\ requests = [c \in Cars |-> {}]

\* A command arrives at car c: its floors are added.
Request(c) ==
    \E F \in SUBSET Floors :
        F # {} /\ requests'[c] = requests[c] \cup F /\ pos'[c] = pos[c]

\* Car c stops at a requested floor and clears it.
Serve(c) ==
    /\ pos[c] \in requests[c]
    /\ requests'[c] = requests[c] \ {pos[c]}
    /\ pos'[c] = pos[c]

\* Car c goes one floor on, towards a requested floor; a stop at the new
\* floor may be cleared in the same step.
Move(c) ==
    /\ \E f \in requests[c], d \in {-1, 1} :
          /\ (f - pos[c]) * d > 0
          /\ pos'[c] = pos[c] + d
    /\ requests'[c] \in {requests[c], requests[c] \ {pos'[c]}}

Idle(c) == pos'[c] = pos[c] /\ requests'[c] = requests[c]

Next ==
    /\ pos' \in [Cars -> Floors] /\ requests' \in [Cars -> SUBSET Floors]
    /\ \A c \in Cars : Request(c) \/ Serve(c) \/ Move(c) \/ Idle(c)

Spec == Init /\ [][Next]_<<pos, requests>>
==============================================================================
