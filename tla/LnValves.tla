------------------------------ MODULE LnValves ------------------------------
(***************************************************************************)
(* What a fill promises of the valves, without the table, the commands and *)
(* the readings that drive it: liquid is let into the detectors only from  *)
(* an open tank past a shut manifold vent, and a fill that is carried to   *)
(* its end shuts the tank before it vents the manifold.  LnFill implements *)
(* this (its property LV!Spec).                                            *)
(***************************************************************************)
CONSTANT Dets

VARIABLES phase, tank, mani, det

vars == <<phase, tank, mani, det>>

Valve  == {"open", "closed"}
Phases == {"rest", "cool", "fill", "vent"}

Init ==
    /\ phase = "rest"
    /\ tank = "closed" /\ mani = "closed"
    /\ det = [d \in Dets |-> "closed"]

(* Between fills the valves are worked by hand, one at a time. *)
Manual ==
    /\ phase = "rest"
    /\ \/ tank' \in Valve /\ UNCHANGED <<mani, det>>
       \/ mani' \in Valve /\ UNCHANGED <<tank, det>>
       \/ \E d \in Dets, v \in Valve : /\ det' = [det EXCEPT ![d] = v]
                                       /\ UNCHANGED <<tank, mani>>
    /\ UNCHANGED phase

StartCooling ==
    /\ phase = "rest"
    /\ phase' = "cool"
    /\ tank' = "open"
    /\ UNCHANGED <<mani, det>>

VentWhileCooling ==
    /\ phase = "cool"
    /\ mani' = "open"
    /\ UNCHANGED <<phase, tank, det>>

(* The manifold is cold: the vent is shut and detectors may be opened. *)
StartFilling ==
    /\ phase = "cool" /\ tank = "open"
    /\ phase' = "fill"
    /\ mani' = "closed"
    /\ UNCHANGED <<tank, det>>

OpenDet(d) ==
    /\ phase = "fill" /\ tank = "open" /\ mani = "closed"
    /\ det' = [det EXCEPT ![d] = "open"]
    /\ UNCHANGED <<phase, tank, mani>>

CloseDet(d) ==
    /\ phase = "fill"
    /\ det' = [det EXCEPT ![d] = "closed"]
    /\ UNCHANGED <<phase, tank, mani>>

(* An interrupted fill leaves the valves to the user; the step that opens  *)
(* a detector may be its last.                                             *)
Interrupt ==
    /\ phase \in {"cool", "fill"}
    /\ phase' = "rest"
    /\ \/ UNCHANGED det
       \/ /\ phase = "fill"
          /\ \E d \in Dets : det' = [det EXCEPT ![d] = "open"]
    /\ UNCHANGED <<tank, mani>>

(* The program that works the valves dies in a fill; the last valve it was *)
(* at has moved or has not.                                                *)
Abandon ==
    /\ phase' = "rest"
    /\ \/ phase \in {"cool", "vent"} /\ mani' \in Valve /\ UNCHANGED <<tank, det>>
       \/ phase = "fill" /\ tank' \in {tank, "closed"} /\ UNCHANGED <<mani, det>>
       \/ /\ phase = "fill"
          /\ \E d \in Dets, v \in Valve : det' = [det EXCEPT ![d] = v]
          /\ UNCHANGED <<tank, mani>>

ShutTank ==
    /\ phase = "fill"
    /\ phase' = "vent"
    /\ tank' = "closed"
    /\ UNCHANGED <<mani, det>>

Vent ==
    /\ phase = "vent"
    /\ mani' = "open"
    /\ UNCHANGED <<phase, tank, det>>

ShutVent ==
    /\ phase = "vent"
    /\ phase' = "rest"
    /\ mani' = "closed"
    /\ UNCHANGED <<tank, det>>

Next ==
    \/ Manual \/ StartCooling \/ VentWhileCooling \/ StartFilling
    \/ \E d \in Dets : OpenDet(d) \/ CloseDet(d)
    \/ Interrupt \/ Abandon \/ ShutTank \/ Vent \/ ShutVent

Spec == Init /\ [][Next]_vars

=============================================================================
