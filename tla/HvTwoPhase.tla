----------------------------- MODULE HvTwoPhase -----------------------------
(***************************************************************************)
(* What hvmon promises of one two-phase channel, without the commands, the *)
(* segment and the loops by which it gets there: the channel is sent to    *)
(* its full voltage for good only from about 50 V on, and a full voltage   *)
(* that was sent below that is taken back or turned off.  HvMon implements *)
(* this for each of its two-phase channels (its property TwoPhaseImpl).    *)
(***************************************************************************)
EXTENDS Integers

VARIABLES
    state,      (* "off", "under" on, but set to less than 50 V, "low"      *)
                (* towards 50 V, "full" towards the setting, or "sent": the *)
                (* same, by a change that is not done yet                   *)
    volt,       (* the voltage it is at: 0, Low, Full                       *)
    exempt      (* it reads as negative, was edited in a change of it, or   *)
                (* left below 50 V, or on the way, by an hvmon that stopped *)

vars == <<state, volt, exempt>>

States == {"off", "under", "low", "sent", "full"}

Low  == 1
Full == 2

Init ==
    /\ state = "off"
    /\ volt = 0
    /\ exempt \in BOOLEAN

TurnOff == state' = "off"

Lower == state' \in {"under", "low"}

(* A change sends the voltage of the segment before it has dealt with the  *)
(* phases: the crate may follow it until the change goes on.               *)
Send == state # "off" /\ state' = "sent"

Raise ==
    /\ state \in {"off", "under", "low", "sent"}
    /\ volt >= Low
    /\ state' = "full"

Exempt == exempt /\ state' \in States

Set == (TurnOff \/ Lower \/ Send \/ Raise \/ Exempt) /\ UNCHANGED <<volt, exempt>>

(* The crate nears what it was told. *)
Goal == CASE state \in {"off", "under"} -> 0
          [] state = "low" -> Low
          [] OTHER         -> Full
Near == /\ volt # Goal
        /\ volt' = IF volt < Goal THEN volt + 1 ELSE volt - 1
        /\ UNCHANGED <<state, exempt>>

(* It is edited in a change, or hvmon is stopped, and then what has been   *)
(* sent stays sent.                                                        *)
Excuse == /\ exempt' = TRUE
          /\ \/ state' = state
             \/ state = "sent" /\ state' = "full"
          /\ UNCHANGED volt

Next == Set \/ Near \/ Excuse

Spec == Init /\ [][Next]_vars

=============================================================================
