------------------------------- MODULE LnScan -------------------------------
(***************************************************************************)
(* One pass of updateRTD() (lnfill-u6-shm.c) over the detector table: the  *)
(* LabJack is read for every detector that is on, in table order, and the  *)
(* status word of each detector is derived from its reading.               *)
(*                                                                         *)
(* A reading of a detector RTD is abstracted to the three classes the code *)
(* tells apart:                                                            *)
(*   "hot"   rtd >= limit                                                  *)
(*   "none"  below the limit and <= 70 or >= 500: a broken or absent RTD   *)
(*           (readRTD returns 0 when the LabJack does not answer)          *)
(*   "cold"  anything else                                                 *)
(* The overflow reading is abstracted to oflo < olimit (TRUE) or not.      *)
(***************************************************************************)
EXTENDS Integers

CONSTANT NDet      (* detectors in the table; the code has room for 20 *)

ASSUME NDetAssumption == NDet \in 1..20

Dets == 0..(NDet - 1)

Readings == {"cold", "hot", "none"}

(* "" is the status of a segment that was just created. *)
Statuses == {"", "OK", "FILL", "ALARM", "NO RTD", "LONG", "OFF"}

-----------------------------------------------------------------------------
(* The scan leaves its loop at this detector: `break` where the comment    *)
(* says "don't write over LONG fill or ALARM".                             *)
Stops(d, onoff, status, rtd) ==
    /\ onoff[d]
    /\ rtd[d] = "cold"
    /\ status[d] \in {"LONG", "ALARM"}

(* The detectors whose two RTDs this scan reads. *)
Reached(onoff, status, rtd) ==
    {d \in Dets : /\ onoff[d]
                  /\ \A e \in Dets : e < d => ~Stops(e, onoff, status, rtd)}

(* The status of the detectors after the scan; `filling` is the test       *)
(* command == 7 || command == 8.                                           *)
ScanStatus(onoff, status, rtd, filling) ==
    [d \in Dets |->
        IF d \notin Reached(onoff, status, rtd)
           \/ Stops(d, onoff, status, rtd) THEN status[d]
        ELSE CASE rtd[d] = "hot"  -> "ALARM"
               [] rtd[d] = "none" -> "NO RTD"
               [] OTHER           -> IF filling THEN "FILL" ELSE "OK"]

(* The overflow readings after the scan: those not reached keep the value  *)
(* of an earlier scan.                                                     *)
ScanOflo(onoff, status, rtd, oflo, fresh) ==
    [d \in Dets |-> IF d \in Reached(onoff, status, rtd) THEN fresh[d]
                                                         ELSE oflo[d]]

=============================================================================
