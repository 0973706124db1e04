------------------------------- MODULE LnFill -------------------------------
(***************************************************************************)
(* The liquid-nitrogen filling daemon (LNfill/src/lnfill-u6-shm.c) and the *)
(* menu programs (lnfill-read-shm.c) that command it through one integer,  *)
(* `command`, in a shared memory segment.                                  *)
(*                                                                         *)
(* The daemon is one thread: `pc` is where it is, every action of it is    *)
(* the code between two points where it sleeps, waits for the outlet strip *)
(* or looks at the segment again, and the menu programs write the segment  *)
(* between any two of them.  SIGALRM only cuts a sleep short (its handler  *)
(* prints), so it is not modelled: a sleep here may end at any time.       *)
(*                                                                         *)
(* Left to other modules or left out, each because no action below reads   *)
(* it: com2 and the HV shutdown (LnAlarm), pressure, `last`, comStatus and *)
(* bitstatus (display), e-mail (sendEmail's body is commented out).        *)
(***************************************************************************)
EXTENDS LnScan, FiniteSets

CONSTANTS
    Interval,   (* fill interval of each detector in lnfill.conf, in ticks  *)
    FillMax,    (* the "max" of each there: give up its fill after          *)
    InitNext,   (* the one hour of an initial fill, in ticks                *)
    NCold,      (* consecutive cold readings that mean full; 4 in the code  *)
    MaxOn,      (* detectors the menu lets be on at once; 6 in the code     *)
    InitOn,     (* the detectors lnfill.conf turns on                       *)
    InitCom1,   (* com1 of the segment the daemon attaches to               *)
    Readers,    (* the menu programs running                                *)
    Ops,        (* the menu items their users choose                        *)
    Params,     (* the items of parametersGe(), the menu of item 2, among   *)
                (* 1 on/off, 3 interval, 4 max, 7 overflow limit, 14 next   *)
    RtdSeen,    (* classes of RTD readings that occur                       *)
    OfloSeen,   (* overflow readings that occur: TRUE is cold               *)
    Delays,     (* the delays, in ticks, users give item 2 for a next fill  *)
    Times,      (* the intervals and "max" times users give it              *)
    MayDie      (* requests to the outlet strip may stay without an answer  *)

ASSUME FillAssumption ==
    /\ Interval \in [Dets -> Nat]
    /\ FillMax \in [Dets -> Nat]
    /\ InitNext \in Nat
    /\ NCold \in 1..4
    /\ MaxOn \in Nat
    /\ InitOn \subseteq Dets
    /\ InitCom1 \subseteq -1..NDet
    /\ RtdSeen \subseteq Readings
    /\ OfloSeen \subseteq BOOLEAN
    /\ Delays \subseteq Nat \ {0}
    /\ Times \subseteq Nat \ {0}
    /\ MayDie \in BOOLEAN

VARIABLES
    (* struct lnfill, in shared memory *)
    command,    (* the command slot                                         *)
    com1,       (* entry a fill is for, -1 for all                          *)
    onoff, status,
    oflo,       (* its overflow reads below its limit                       *)
    interval,   (* ticks between two fills                                  *)
    max,        (* ticks after which a fill is given up                     *)
    next,       (* ticks until the next fill is due, 0 when it is due       *)
    (* the outlets of the iBootBar *)
    tank, mani, det,
    (* the daemon *)
    pc,
    active,     (* detectors of this fill                                   *)
    actkk,      (* consecutive cold overflow readings, Full when finished   *)
    mm,         (* the while count of the fill loop                         *)
    kk,         (* consecutive cold manifold readings                       *)
    todo,       (* detectors the running for loop has still to visit        *)
    init,       (* this fill is an initial fill                             *)
    elapsed,    (* ticks since the fill loop began                          *)
    twice,      (* history: this fill has counted a detector twice          *)
    (* the menu programs *)
    rpc

times == <<interval, max, next>>
shm   == <<command, com1, onoff, status, oflo, times>>
bar   == <<tank, mani, det>>
local == <<active, actkk, mm, kk, todo, init, elapsed, twice>>
vars  == <<shm, bar, pc, local, rpc>>

Valve == {"open", "closed"}
Full  == 9                               (* actkk of a finished detector *)

(* A menu program sends the answer to item 7 unchecked, so com1 may name   *)
(* an entry outside the table.  NDet stands for all of these.  They lie in *)
(* the zeroed rest of the segment, where the outlet is number 0, the one   *)
(* of the first detector in lnfill.conf, and overflow and limit are 0, or  *)
(* beyond it, where the daemon dies when it comes to open the detector.    *)
Entries == 0..NDet
Outlet(d) == IF d \in Dets THEN d ELSE 0

CloseCmd(d) == 21 + d
OpenCmd(d)  == 41 + d
PlainCmds   == {10, 11, 12, 13, 14, 17, 61}    (* command = the menu item *)
FillCmds    == {7, 8, 9}
Commands    == {-1, 0, 1, 18} \cup PlainCmds \cup FillCmds
               \cup {CloseCmd(d) : d \in Dets} \cup {OpenCmd(d) : d \in Dets}

Interruptible == {"f_cool", "f_chkcool", "f_open", "f_read", "f_det",
                  "f_over", "f_chk"}
FillLoop  == {"f_read", "f_det", "f_over", "f_chk"}
FillStep  == {"f_tank", "f_mani", "f_shutmani", "f_off", "f_vent", "f_close"}
             \cup Interruptible
PC == {"test", "scan", "due", "dispatch", "update", "tank+", "tank-", "mani+",
       "mani-", "det+", "det-", "all_tank", "all_mani", "all_det",
       "all_vent", "f_done", "ack", "sleep", "exit", "dead"} \cup FillStep

-----------------------------------------------------------------------------
Init ==
    /\ command = 0
    /\ com1 \in InitCom1
    /\ onoff = [d \in Dets |-> d \in InitOn]
    /\ status = [d \in Dets |-> ""]
    /\ oflo = [d \in Entries |-> d \in Dets]
    /\ interval = Interval /\ max = FillMax
    /\ next = [d \in Dets |-> IF d \in InitOn THEN Interval[d] ELSE 0]
    /\ tank = "closed" /\ mani = "closed"
    /\ det = [d \in Dets |-> "closed"]
    /\ pc = "test"
    /\ active = {} /\ todo = {}
    /\ actkk = [d \in Entries |-> 0]
    /\ mm = 0 /\ kk = 0 /\ elapsed = 0
    /\ init = FALSE /\ twice = FALSE
    /\ rpc = [r \in Readers |-> "menu"]

-----------------------------------------------------------------------------
(* updateRTD(), with the status of the detectors in `forced` overwritten   *)
(* by `word` right after it (the callers that do that are below).          *)
ScanThen(forced, word) ==
    \E rtd \in [Dets -> RtdSeen], fresh \in [Dets -> OfloSeen] :
        LET new == ScanStatus(onoff, status, rtd, command \in {7, 8})
        IN  /\ status' = [d \in Dets |-> IF d \in forced THEN word
                                                         ELSE new[d]]
            /\ LET read == ScanOflo(onoff, status, rtd, oflo, fresh)
               IN oflo' = [d \in Entries |-> IF d \in Dets THEN read[d]
                                                            ELSE oflo[d]]

Scan == ScanThen({}, "OK")

(* The detector a loop in table order visits next. *)
First(d) == d \in todo /\ \A e \in todo : d <= e

(* The index of detector d in active[]: what the overtime test indexes     *)
(* ge[] with (ge[ii].max, not ge[active[ii]].max).                         *)
Pos(d) == Cardinality({e \in active : e < d})
WarmOvertime(d) == oflo[d] /\ elapsed > max[Pos(d)]        (* mutant *)
Overtime(d) == elapsed > max[Pos(d)]

(* `next = curtime + interval`, or one hour after an initial fill. *)
Rearm(d) == [e \in Dets |-> IF e # d THEN next[e]
                            ELSE IF init THEN InitNext ELSE interval[e]]
Shut(d) == [det EXCEPT ![Outlet(d)] = "closed"]

(* mutants: the count or the mark forgotten when a detector is finished *)
UncountedFinish(d, word) ==
    /\ mm' = mm
    /\ det' = Shut(d)
    /\ actkk' = [actkk EXCEPT ![d] = Full]
    /\ next' = Rearm(d)
    /\ ScanThen({d}, word)
UnmarkedFinish(d, word) ==
    /\ mm' = mm - 1
    /\ det' = Shut(d)
    /\ actkk' = [actkk EXCEPT ![d] = 0]
    /\ next' = Rearm(d)
    /\ ScanThen({d}, word)

(* closeDet of a detector of the fill: the count drops by one, the outlet  *)
(* is closed, everything is scanned again, and actkk is set to 9 "so it    *)
(* doesn't get reset to 0".                                                *)
Finish(d, word) ==
    /\ mm' = mm - 1
    /\ det' = Shut(d)
    /\ actkk' = [actkk EXCEPT ![d] = Full]
    /\ next' = Rearm(d)
    /\ ScanThen({d}, word)

-----------------------------------------------------------------------------
(* The monitoring loop of main().                                          *)

(* while(lnptr->command != -1) *)
Test ==
    /\ pc = "test"
    /\ pc' = IF command = -1 THEN "exit" ELSE "scan"
    /\ UNCHANGED <<shm, bar, local, rpc>>

MainScan ==
    /\ pc = "scan"
    /\ Scan
    /\ pc' = "due"
    /\ UNCHANGED <<command, com1, onoff, times, bar, local, rpc>>

(* A detector past its time to fill makes the command 8, whatever it was;  *)
(* com1 is left as it is.                                                  *)
DueCommand == IF \E d \in Dets : onoff[d] /\ next[d] = 0 THEN 8 ELSE command

Due ==
    /\ pc = "due"
    /\ command' = DueCommand
    /\ pc' = "dispatch"
    /\ UNCHANGED <<com1, onoff, status, oflo, times, bar, local, rpc>>

(* The entry of fillGe() and the cases 7, 8 and 9 that call it. *)
ShortFillList ==                             (* mutant: the last is left out *)
    IF com1 = -1 THEN {d \in Dets : onoff[d] /\ d < NDet - 1} ELSE {com1}
FillList == IF com1 = -1 THEN {d \in Dets : onoff[d]} ELSE {com1}

StartFill ==
    /\ pc = "dispatch"
    /\ command \in FillCmds
    /\ init' = (command = 9)
    /\ command' = 8
    /\ active' = FillList
    /\ pc' = IF active' = {} THEN "ack" ELSE "f_tank"
    /\ actkk' = [d \in Entries |-> 0]
    /\ twice' = FALSE
    /\ UNCHANGED <<com1, onoff, status, oflo, times, bar, mm, kk,
                   todo, elapsed, rpc>>

(* The other cases: where each command is carried out. *)
Target(c) ==
    CASE c = 0  -> "sleep"
      [] c = 1  -> "update"
      [] c = 10 -> "all_tank"
      [] c = 11 -> "tank-"
      [] c = 12 -> "tank+"
      [] c = 13 -> "mani-"
      [] c = 14 -> "mani+"
      [] \E d \in Dets : c = CloseCmd(d) -> "det-"
      [] \E d \in Dets : c = OpenCmd(d)  -> "det+"
      [] OTHER  -> "ack"

(* closeDet(command-21) and openDet(command-41) take their argument here. *)
Dispatch ==
    /\ pc = "dispatch"
    /\ command \notin FillCmds
    /\ pc' = Target(command)
    /\ todo' = {d \in Dets : command \in {CloseCmd(d), OpenCmd(d)}}
    /\ UNCHANGED <<shm, bar, active, actkk, mm, kk, init, elapsed,
                   twice, rpc>>

(* What fillGe() has on its stack is gone. *)
Forget == /\ active' = {} /\ todo' = {}
          /\ actkk' = [d \in Entries |-> 0]
          /\ mm' = 0 /\ kk' = 0 /\ elapsed' = 0
          /\ init' = FALSE /\ twice' = FALSE

(* lnptr->command=0 at the end of every case. *)
Ack ==
    /\ pc \in {"ack", "f_done"}
    /\ command' = 0
    /\ pc' = "sleep"
    /\ Forget
    /\ UNCHANGED <<com1, onoff, status, oflo, times, bar, rpc>>

Sleep ==
    /\ pc = "sleep"
    /\ pc' = "test"
    /\ UNCHANGED <<shm, bar, local, rpc>>

-----------------------------------------------------------------------------
(* Single valves.  Each routine repeats the set request until the outlet   *)
(* reports the state asked for: an action is the attempt that succeeds.    *)

Update ==
    /\ pc = "update"
    /\ Scan
    /\ pc' = "ack"
    /\ UNCHANGED <<command, com1, onoff, times, bar, local, rpc>>

TankValve ==
    /\ \/ pc = "tank+" /\ tank' = "open"
       \/ pc = "tank-" /\ tank' = "closed"
    /\ pc' = "ack"
    /\ UNCHANGED <<shm, mani, det, local, rpc>>

ManiValve ==
    /\ \/ pc = "mani+" /\ mani' = "open"
       \/ pc = "mani-" /\ mani' = "closed"
    /\ pc' = "ack"
    /\ UNCHANGED <<shm, tank, det, local, rpc>>

OpenDet ==
    /\ pc = "det+"
    /\ det' = [d \in Dets |-> IF d \in todo THEN "open" ELSE det[d]]
    /\ status' = [d \in Dets |-> IF d \in todo THEN "FILL" ELSE status[d]]
    /\ pc' = "ack"
    /\ UNCHANGED <<command, com1, onoff, oflo, times, tank, mani, local, rpc>>

CloseDet ==
    /\ pc = "det-"
    /\ det' = [d \in Dets |-> IF d \in todo THEN "closed" ELSE det[d]]
    /\ Scan
    /\ pc' = "ack"
    /\ UNCHANGED <<command, com1, onoff, times, tank, mani, local, rpc>>

(* closeAllValves(). *)
AllTank ==
    /\ pc = "all_tank"
    /\ tank' = "closed"
    /\ pc' = "all_mani"
    /\ UNCHANGED <<shm, mani, det, local, rpc>>

AllMani ==
    /\ pc = "all_mani"
    /\ mani' = "open"
    /\ todo' = Dets
    /\ pc' = "all_det"
    /\ UNCHANGED <<shm, tank, det, active, actkk, mm, kk, init, elapsed, twice,
                   rpc>>

(* for (ii=0; ii<20; ii++) if (onoff == 1) closeDet(ii) *)
AllDet ==
    /\ pc = "all_det"
    /\ \E d \in todo :
         /\ First(d)
         /\ todo' = todo \ {d}
         /\ IF onoff[d]
            THEN det' = [det EXCEPT ![d] = "closed"] /\ Scan
            ELSE UNCHANGED <<det, status, oflo>>
    /\ pc' = IF todo' = {} THEN "all_vent" ELSE "all_det"
    /\ UNCHANGED <<command, com1, onoff, times, tank, mani, active, actkk, mm,
                   kk, init, elapsed, twice, rpc>>

AllVent ==
    /\ pc = "all_vent"
    /\ mani' = "closed"
    /\ pc' = "ack"
    /\ UNCHANGED <<shm, tank, det, local, rpc>>

-----------------------------------------------------------------------------
(* fillGe(): cool the manifold.                                            *)

FillOpenTank ==
    /\ pc = "f_tank"
    /\ tank' = "open"
    /\ pc' = "f_mani"
    /\ UNCHANGED <<shm, mani, det, local, rpc>>

FillOpenMani ==
    /\ pc = "f_mani"
    /\ mani' = "open"
    /\ Scan
    /\ kk' = 0
    /\ pc' = "f_cool"
    /\ UNCHANGED <<command, com1, onoff, times, tank, det, active, actkk, mm,
                   todo, init, elapsed, twice, rpc>>

(* One pass of the cooling loop: after NCold consecutive cold readings of  *)
(* the manifold it is left; a warm one starts the count again.  xtime, set *)
(* to the tank's timeout, is not tested.                                   *)
LateFillCool ==                                (* mutant: off by one *)
    /\ pc = "f_cool"
    /\ Scan
    /\ \E cold \in BOOLEAN : kk' = IF cold THEN kk + 1 ELSE 0
    /\ pc' = IF kk' > NCold THEN "f_shutmani" ELSE "f_chkcool"
    /\ UNCHANGED <<command, com1, onoff, times, bar, active, actkk, mm, todo,
                   init, elapsed, twice, rpc>>
FillCool ==
    /\ pc = "f_cool"
    /\ Scan
    /\ \E cold \in BOOLEAN : kk' = IF cold THEN kk + 1 ELSE 0
    /\ pc' = IF kk' >= NCold THEN "f_shutmani" ELSE "f_chkcool"
    /\ UNCHANGED <<command, com1, onoff, times, bar, active, actkk, mm, todo,
                   init, elapsed, twice, rpc>>

(* A command other than 8: "FILL INTERRUPTED", return. *)
DeafCheckCool ==                          (* mutant: the test is missing *)
    /\ pc = "f_chkcool"
    /\ pc' = "f_cool"
    /\ UNCHANGED <<shm, bar, local, rpc>>
FillCheckCool ==
    /\ pc = "f_chkcool"
    /\ pc' = IF command # 8 THEN "ack" ELSE "f_cool"
    /\ UNCHANGED <<shm, bar, local, rpc>>

BareBreak ==                        (* mutant: break without closeMani() *)
    /\ pc = "f_shutmani"
    /\ todo' = active
    /\ pc' = "f_open"
    /\ UNCHANGED <<shm, bar, active, actkk, mm, kk, init, elapsed,
                   twice, rpc>>

FillShutMani ==
    /\ pc = "f_shutmani"
    /\ mani' = "closed"
    /\ todo' = active
    /\ pc' = "f_open"
    /\ UNCHANGED <<shm, tank, det, active, actkk, mm, kk, init, elapsed, twice,
                   rpc>>

EarlyRearm ==                (* mutant: the next fill set when this begins *)
    /\ pc = "f_open"
    /\ \E d \in todo :
         /\ First(d)
         /\ todo' = todo \ {d}
         /\ det' = [det EXCEPT ![Outlet(d)] = "open"]
         /\ status' = [e \in Dets |-> IF e = d THEN "FILL" ELSE status[e]]
         /\ next' = Rearm(d)
    /\ pc' = CASE command # 8              -> "ack"
               [] command = 8 /\ todo' # {} -> "f_open"
               [] OTHER                     -> "f_read"
    /\ mm' = Cardinality(active)
    /\ elapsed' = 0
    /\ UNCHANGED <<command, com1, onoff, oflo, interval, max, tank, mani,
                   active, actkk, kk, init, twice, rpc>>

(* openDet of each detector of the fill, the command tested after each. *)
FillOpenDet ==
    /\ pc = "f_open"
    /\ \E d \in todo :
         /\ First(d)
         /\ todo' = todo \ {d}
         /\ det' = [det EXCEPT ![Outlet(d)] = "open"]
         /\ status' = [e \in Dets |-> IF e = d THEN "FILL" ELSE status[e]]
    /\ pc' = CASE command # 8              -> "ack"
               [] command = 8 /\ todo' # {} -> "f_open"
               [] OTHER                     -> "f_read"
    /\ mm' = Cardinality(active)
    /\ elapsed' = 0
    /\ UNCHANGED <<command, com1, onoff, oflo, times, tank, mani, active,
                   actkk, kk, init, twice, rpc>>

-----------------------------------------------------------------------------
(* fillGe(): fill the detectors, while (mm > 0).                           *)

FillRead ==
    /\ pc = "f_read"
    /\ Scan
    /\ todo' = active
    /\ pc' = "f_det"
    /\ UNCHANGED <<command, com1, onoff, times, bar, active, actkk, mm, kk,
                   init, elapsed, twice, rpc>>

Advance(d) == /\ todo' = todo \ {d}
              /\ pc' = IF todo' = {} THEN "f_chk" ELSE "f_det"

(* actkk[ii] == 9: the detector has finished. *)
FillSkip(d) ==
    /\ actkk[d] = Full
    /\ Advance(d)
    /\ UNCHANGED <<shm, bar, active, actkk, mm, kk, init, elapsed,
                   twice, rpc>>

(* A cold overflow is counted, a warm one clears the count. *)
FillCount(d) ==
    /\ actkk[d] # Full
    /\ ~(oflo[d] /\ actkk[d] + 1 >= NCold)
    /\ actkk' = [actkk EXCEPT ![d] = IF oflo[d] THEN actkk[d] + 1 ELSE 0]
    /\ pc' = "f_over"
    /\ UNCHANGED <<shm, bar, active, mm, kk, todo, init, elapsed, twice, rpc>>

(* The count is reached: the detector is full. *)
FillFull(d) ==
    /\ actkk[d] # Full
    /\ oflo[d] /\ actkk[d] + 1 >= NCold
    /\ Finish(d, "OK")
    /\ pc' = "f_over"
    /\ UNCHANGED <<command, com1, onoff, interval, max, tank, mani, active, kk,
                   todo, init, elapsed, twice, rpc>>

FillDet ==
    /\ pc = "f_det"
    /\ \E d \in todo : First(d) /\ (FillSkip(d) \/ FillCount(d) \/ FillFull(d))

(* The test for a fill that took too long, made of every detector that was *)
(* unfinished when this pass came to it, the one just finished included.   *)
FillOver ==
    /\ pc = "f_over"
    /\ \E d \in todo :
         /\ First(d)
         /\ IF Overtime(d)
            THEN Finish(d, "LONG") /\ twice' = (twice \/ actkk[d] = Full)
            ELSE UNCHANGED <<mm, det, actkk, next, status, oflo, twice>>
         /\ Advance(d)
    /\ UNCHANGED <<command, com1, onoff, interval, max, tank, mani, active, kk,
                   init, elapsed, rpc>>

HastyCheck ==                              (* mutant: while (mm > 1) *)
    /\ pc = "f_chk"
    /\ pc' = CASE command # 8            -> "ack"
               [] command = 8 /\ mm > 1  -> "f_read"
               [] OTHER                  -> "f_off"
    /\ UNCHANGED <<shm, bar, local, rpc>>

(* The end of a pass: "FILL ALL INTERRUPTED", or the while test. *)
FillCheck ==
    /\ pc = "f_chk"
    /\ pc' = CASE command # 8            -> "ack"
               [] command = 8 /\ mm > 0  -> "f_read"
               [] OTHER                  -> "f_off"
    /\ UNCHANGED <<shm, bar, local, rpc>>

-----------------------------------------------------------------------------
(* fillGe(): shut the tank and let the manifold vent.                      *)

FillCloseTank ==
    /\ pc = "f_off"
    /\ tank' = "closed"
    /\ pc' = "f_vent"
    /\ UNCHANGED <<shm, mani, det, local, rpc>>

FillVent ==
    /\ pc = "f_vent"
    /\ mani' = "open"
    /\ Scan
    /\ pc' = "f_close"
    /\ UNCHANGED <<command, com1, onoff, times, tank, det, local, rpc>>

FillClose ==
    /\ pc = "f_close"
    /\ mani' = "closed"
    /\ pc' = "f_done"
    /\ UNCHANGED <<shm, tank, det, local, rpc>>

-----------------------------------------------------------------------------
(* The end of the daemon and its next start.                               *)

(* A request to the outlet strip stays without an answer: readOnOff()      *)
(* copies from what strstr() did not find and the daemon dies.  The outlet *)
(* may have obeyed all the same; it and the segment stay as they are.      *)
Shuts(d) == \/ pc = "det-"
            \/ pc = "all_det" /\ onoff[d]
            \/ pc = "f_det" /\ actkk[d] # Full /\ oflo[d]
                            /\ actkk[d] + 1 >= NCold
            \/ pc = "f_over" /\ Overtime(d)

DyingTank ==
    /\ \/ pc \in {"tank+", "f_tank"} /\ tank' \in {tank, "open"}
       \/ pc \in {"tank-", "all_tank", "f_off"} /\ tank' \in {tank, "closed"}
    /\ UNCHANGED <<mani, det>>

DyingMani ==
    /\ \/ /\ pc \in {"mani+", "all_mani", "f_mani", "f_vent"}
          /\ mani' \in {mani, "open"}
       \/ /\ pc \in {"mani-", "all_vent", "f_shutmani", "f_close"}
          /\ mani' \in {mani, "closed"}
    /\ UNCHANGED <<tank, det>>

DyingDet ==
    /\ \E d \in todo :
         /\ First(d)
         /\ \/ /\ pc \in {"det+", "f_open"}
               /\ det' \in {det, [det EXCEPT ![Outlet(d)] = "open"]}
            \/ /\ Shuts(d)
               /\ det' \in {det, Shut(d)}
    /\ UNCHANGED <<tank, mani>>

DyingStatus == pc = "dispatch" /\ command = 17 /\ UNCHANGED bar

(* The entry to be opened is not in memory. *)
DyingFar == pc = "f_open" /\ NDet \in todo /\ UNCHANGED bar

Die ==
    /\ \/ MayDie /\ (DyingTank \/ DyingMani \/ DyingDet \/ DyingStatus)
       \/ DyingFar
    /\ pc' = "dead"
    /\ Forget
    /\ UNCHANGED <<shm, rpc>>

(* It is started again on the segment it left: lnfill.conf says anew which *)
(* detectors are on and their times, everything is read, and each is next  *)
(* filled a whole interval from now.  No outlet is looked at, nothing      *)
(* behind the table is touched.                                            *)
Restart ==
    /\ pc = "dead"
    /\ \A r \in Readers : rpc[r] # "gone"
    /\ onoff' = [d \in Dets |-> d \in InitOn]
    /\ \E rtd \in [Dets -> RtdSeen], fresh \in [Dets -> OfloSeen] :
         /\ status' = ScanStatus(onoff', status, rtd, command \in {7, 8})
         /\ LET read == ScanOflo(onoff', status, rtd, oflo, fresh)
            IN oflo' = [d \in Entries |-> IF d \in Dets THEN read[d]
                                                         ELSE oflo[d]]
    /\ interval' = Interval /\ max' = FillMax
    /\ next' = [d \in Dets |-> IF d \in InitOn THEN Interval[d] ELSE 0]
    /\ command' = 0
    /\ pc' = "test"
    /\ UNCHANGED <<com1, bar, local, rpc>>

-----------------------------------------------------------------------------
(* The menu programs.  A menu item that asks its user something tests      *)
(* `command` before the question and writes after the answer: two actions. *)

Menu(r, item) == rpc[r] = "menu" /\ item \in Ops
Goto(r, where) == rpc' = [rpc EXCEPT ![r] = where]
Issue(c) == /\ command' = c
            /\ UNCHANGED <<onoff, status, oflo, times, bar, pc, local>>

AskUpdate(r) ==                                              (* item 1 *)
    /\ Menu(r, 1)
    /\ command \notin {7, 8, 18}
    /\ Issue(1)
    /\ UNCHANGED <<com1, rpc>>

AskEdit(r) ==                                                (* item 2 *)
    /\ Menu(r, 2)
    /\ command \notin {7, 8, 18}
    /\ Goto(r, "edit")
    /\ UNCHANGED <<shm, bar, pc, local>>

AskOne(r) ==                                                 (* item 7 *)
    /\ Menu(r, 7)
    /\ command \notin {7, 8}
    /\ Goto(r, "one")
    /\ UNCHANGED <<shm, bar, pc, local>>

(* An answer below zero does nothing; the detectors are numbered from 1,   *)
(* and nobody tells an answer behind the last of them.                     *)
AnswerOne(r) ==
    /\ rpc[r] = "one"
    /\ Goto(r, "menu")
    /\ \/ UNCHANGED <<shm, bar, pc, local>>
       \/ \E nn \in 0..(NDet + 1) : com1' = nn - 1 /\ Issue(8)

AskAll(r) ==                                                 (* item 8 *)
    /\ Menu(r, 8)
    /\ command \notin {7, 8}
    /\ com1' = -1
    /\ Issue(8)
    /\ UNCHANGED rpc

(* Answers above 6 are refused here, and the table has 20 entries. *)
AskInitial(r) ==                                             (* item 9 *)
    /\ Menu(r, 9)
    /\ \E nn \in 0..NDet : nn <= 6 /\ com1' = nn - 1
    /\ Issue(18)
    /\ UNCHANGED rpc

AskPlain(r) ==                                  (* items 10-14, 17, 61 *)
    /\ \E c \in PlainCmds : Menu(r, c) /\ Issue(c)
    /\ UNCHANGED <<com1, rpc>>

(* The answer is added to 20 or 40 whatever it is: any command can result. *)
AskValve(r) ==                                       (* items 15 and 16 *)
    /\ Menu(r, 15) \/ Menu(r, 16)
    /\ \E c \in Commands : Issue(c)
    /\ UNCHANGED <<com1, rpc>>

(* Every status is set by the onoff of one entry, the one item 2 was asked *)
(* for last; entry 20 is the memory behind the table, toggled or not.      *)
ResetAlarms(r) ==                                           (* item 18 *)
    /\ Menu(r, 18)
    /\ \E on \in BOOLEAN :
         status' = [d \in Dets |-> IF on THEN "OK" ELSE "OFF"]
    /\ UNCHANGED <<command, com1, onoff, oflo, times, bar, pc, local,
                   rpc>>

(* Item 2 asks for a detector "1-20" and takes the answer for an index of  *)
(* the table, which begins at 0: it never reaches the first entry, and the *)
(* last answer changes memory behind the table that no loop visits, only a *)
(* fill that item 7 asked for.                                             *)
Edited == 1..NDet

(* parametersGe(): the on/off toggle, the times, the limit of the overflow *)
(* RTD, the next fill, back to the menu.  The toggle first lists and       *)
(* counts the detectors that are on (activeList).                          *)
Param(r, item) == rpc[r] = "edit" /\ item \in Params

LaxToggle(r) ==                                       (* mutant: onn <= 6 *)
    /\ Param(r, 1)
    /\ Goto(r, IF Cardinality({d \in Dets : onoff[d]}) <= MaxOn
                THEN "few" ELSE "many")
    /\ UNCHANGED <<shm, bar, pc, local>>
AskToggle(r) ==
    /\ Param(r, 1)
    /\ Goto(r, IF Cardinality({d \in Dets : onoff[d]}) < MaxOn
                THEN "few" ELSE "many")
    /\ UNCHANGED <<shm, bar, pc, local>>

Toggle(r) ==
    /\ \E e \in Edited :
         \/ rpc[r] = "few"
            /\ onoff' = [d \in Dets |-> IF d = e THEN ~onoff[d] ELSE onoff[d]]
         \/ rpc[r] = "many"
            /\ onoff' = [d \in Dets |-> d # e /\ onoff[d]]
    /\ Goto(r, "edit")
    /\ UNCHANGED <<command, com1, status, oflo, times, bar, pc, local>>

SetNext(r) ==
    /\ Param(r, 14)
    /\ \E e \in Edited, n \in Delays :
         next' = [d \in Dets |-> IF d = e THEN n ELSE next[d]]
    /\ UNCHANGED <<command, com1, onoff, status, oflo, interval, max, bar, pc,
                   local, rpc>>

SetInterval(r) ==
    /\ Param(r, 3)
    /\ \E e \in Edited, t \in Times :
         interval' = [d \in Dets |-> IF d = e THEN t ELSE interval[d]]
    /\ UNCHANGED <<command, com1, onoff, status, oflo, max, next, bar, pc,
                   local, rpc>>

SetMax(r) ==
    /\ Param(r, 4)
    /\ \E e \in Edited, t \in Times :
         max' = [d \in Dets |-> IF d = e THEN t ELSE max[d]]
    /\ UNCHANGED <<command, com1, onoff, status, oflo, interval, next, bar, pc,
                   local, rpc>>

(* Everything may be warm or cold by a new limit; behind the table, where  *)
(* nothing is read, it is a 0 that any limit makes cold.                   *)
SetLimit(r) ==
    /\ Param(r, 7)
    /\ \E e \in Edited, cold \in BOOLEAN :
         /\ e = NDet => cold
         /\ oflo' = [oflo EXCEPT ![e] = cold]
    /\ UNCHANGED <<command, com1, onoff, status, times, bar, pc, local, rpc>>

LeaveEdit(r) ==
    /\ rpc[r] = "edit"
    /\ Goto(r, "menu")
    /\ UNCHANGED <<shm, bar, pc, local>>

(* The reader ends itself and removes the segment name: no new reader can  *)
(* attach, those attached stay so.                                         *)
EndAll(r) ==                                               (* item 100 *)
    /\ Menu(r, 100)
    /\ Issue(-1)
    /\ Goto(r, "gone")
    /\ UNCHANGED com1

-----------------------------------------------------------------------------
(* A tick of time: due times come nearer, a fill gets longer; elapsed is   *)
(* not counted beyond the tick in which every detector is overtime.        *)
Tick ==
    /\ next' = [d \in Dets |-> IF next[d] = 0 THEN 0 ELSE next[d] - 1]
    /\ elapsed' = IF pc \in FillLoop /\ \E d \in Dets : elapsed <= max[d]
                  THEN elapsed + 1 ELSE elapsed
    /\ next' # next \/ elapsed' # elapsed
    /\ UNCHANGED <<command, com1, onoff, status, oflo, interval, max, bar, pc,
                   active, actkk, mm, kk, todo, init, twice, rpc>>

Cycle == Test \/ MainScan \/ Due \/ StartFill \/ Dispatch \/ Ack \/ Sleep
Valves == Update \/ TankValve \/ ManiValve \/ OpenDet \/ CloseDet
          \/ AllTank \/ AllMani \/ AllDet \/ AllVent
Cooling == FillOpenTank \/ FillOpenMani \/ FillCool \/ FillCheckCool
           \/ FillShutMani \/ FillOpenDet
Filling == FillRead \/ FillDet \/ FillOver \/ FillCheck
           \/ FillCloseTank \/ FillVent \/ FillClose
Daemon == Cycle \/ Valves \/ Cooling \/ Filling

Reader(r) == \/ AskUpdate(r) \/ AskEdit(r) \/ AskOne(r) \/ AnswerOne(r)
             \/ AskAll(r) \/ AskInitial(r) \/ AskPlain(r) \/ AskValve(r)
             \/ ResetAlarms(r) \/ AskToggle(r) \/ Toggle(r) \/ SetNext(r)
             \/ SetInterval(r) \/ SetMax(r) \/ SetLimit(r) \/ LeaveEdit(r)
             \/ EndAll(r)

Next == Daemon \/ Die \/ Restart \/ (\E r \in Readers : Reader(r)) \/ Tick

Spec == Init /\ [][Next]_vars

(* The daemon is scheduled, its sleeps end and the outlets obey in the     *)
(* end; time passes.  Nothing is assumed of the users.                     *)
FairSpec == Spec /\ WF_vars(Daemon) /\ WF_vars(Tick)

-----------------------------------------------------------------------------
(* Properties.                                                             *)

TypeOK ==
    /\ command \in Commands
    /\ com1 \in -1..NDet
    /\ onoff \in [Dets -> BOOLEAN]
    /\ status \in [Dets -> Statuses]
    /\ oflo \in [Entries -> BOOLEAN]
    /\ interval \in [Dets -> Nat]
    /\ max \in [Dets -> Nat]
    /\ next \in [Dets -> Nat]
    /\ tank \in Valve /\ mani \in Valve
    /\ det \in [Dets -> Valve]
    /\ pc \in PC
    /\ active \subseteq Entries
    /\ todo \subseteq Entries
    /\ actkk \in [Entries -> 0..(NCold - 1) \cup {Full}]
    /\ mm \in Int
    /\ kk \in 0..NCold
    /\ init \in BOOLEAN
    /\ elapsed \in Nat
    /\ twice \in BOOLEAN
    /\ rpc \in [Readers -> {"menu", "edit", "few", "many", "one", "gone"}]

(* The detectors of the running fill that it has not finished. *)
Unfinished == {d \in active : actkk[d] # Full}

(* In the fill loop the marks in actkk are the truth about the outlets: a  *)
(* detector of the fill has its valve open exactly while it is not marked  *)
(* finished, whatever the users command meanwhile (fillGe's "set the       *)
(* counter high so it doesn't get reset to 0").                            *)
LoopValves == pc \in FillLoop => \A d \in active :
                             actkk[d] # Full <=> det[Outlet(d)] = "open"

(* Liquid nitrogen only flows to detectors from an open tank and past a    *)
(* shut manifold vent: throughout the fill loop the tank valve is open and *)
(* the manifold valve is shut (fillGe opens the first and waits for the    *)
(* cold manifold to shut the second before any openDet).                   *)
LoopSupply == pc \in FillLoop \cup {"f_open"} =>
                  tank = "open" /\ mani = "closed"

(* The while count never exceeds the number of unfinished detectors, and   *)
(* only a detector that was full and overtime in the same pass makes it    *)
(* smaller: any other sequence of readings, times given up, times edited   *)
(* meanwhile and commands keeps count and detectors together.              *)
LoopCount ==
    pc \in FillLoop =>
        /\ mm <= Cardinality(Unfinished)
        /\ ~twice => mm = Cardinality(Unfinished)

(* A fill that ran to its end has shut the tank and the manifold, and      *)
(* every detector valve it opened, if it counted none of them twice.       *)
DoneShut ==
    pc = "f_done" =>
        /\ tank = "closed" /\ mani = "closed"
        /\ ~twice => \A d \in active : det[Outlet(d)] = "closed"

(* The daemon postpones the next fill of a detector only in a fill of that *)
(* detector and by a step that leaves its valve shut: a fill that was      *)
(* interrupted is still due.                                               *)
RearmedWhenShut ==
    [][Daemon => \A d \in Dets :
          next'[d] > next[d] =>
              d \in active /\ det'[d] = "closed"]_vars

(* The list of a fill of all fits the MaxOn places of active[] and actkk[] *)
(* (six in the code), whose limit is kept by item 2 of another program.    *)
(* Every menu program but the first may bring one detector more: it counts *)
(* before another has toggled.  So of one menu program, however it         *)
(* interleaves with the daemon that makes the list, the list fits.         *)
FillFits == pc \in FillStep =>
                Cardinality(active) < MaxOn + Cardinality(Readers)

(* A fill works the valves in the order LnValves promises: the phase of    *)
(* the fill is read off pc, everything else maps to itself.                *)
Phase == CASE pc \in {"f_mani", "f_cool", "f_chkcool", "f_shutmani"} -> "cool"
           [] pc \in {"f_open", "f_off"} \cup FillLoop               -> "fill"
           [] pc \in {"f_vent", "f_close"}                           -> "vent"
           [] OTHER                                                  -> "rest"
LV == INSTANCE LnValves WITH phase <- Phase
ValveOrder == LV!Spec

(* Once detectors are being filled the loop comes to its end, even when no *)
(* overflow ever turns cold: "max" is the "time to wait before giving up   *)
(* this fill" (lnfill-shm.h), and a menu command also ends it.             *)
LoopEnds == []<>(pc \notin FillLoop)

(* A command other than 8 that stays in the slot ends the cooling of the   *)
(* manifold, the only way out while the manifold is warm.                  *)
InterruptEndsCooling ==
    []<>(pc \notin {"f_cool", "f_chkcool"} \/ command = 8)

(* Every detector that is on is filled again and again: main() turns a     *)
(* detector past its `next` into command 8 ("start a fill ...set command   *)
(* to 8 = Fill All!"), which fills all with com1 = -1.  It leaves com1     *)
(* alone, so with the com1 of an earlier fill of one detector, or the 0 of *)
(* a new segment, only that detector is ever filled: the others are        *)
(* excepted, and so are a manifold that never gets cold, fills that go     *)
(* overtime for ever, users who send other commands for ever, and a daemon *)
(* that is not started again.                                              *)
DueServed ==
    \A d \in Dets :
        \/ []<>(onoff[d] => next[d] > 0)
        \/ []<>(com1 \notin {-1, d})
        \/ <>[](pc \in {"f_cool", "f_chkcool"})
        \/ []<>(pc = "f_over" /\ \E e \in active : Overtime(e))
        \/ []<>(command \notin {0, 8})
        \/ <>[](pc = "dead")

-----------------------------------------------------------------------------
(* What comments say and the code does not do; each is checked by a run of *)
(* its own that TLC ends with a counterexample.                            *)

(* At "Fill completed" every detector of the fill is shut.  A detector     *)
(* that fills up in the pass in which it is also overtime takes two off    *)
(* the while count ("reduce the while count by 1", twice), so the loop     *)
(* ends with another detector open.                                        *)
CompletedShut ==
    pc = "f_done" => \A d \in active : det[Outlet(d)] = "closed"

-----------------------------------------------------------------------------
(* The inductive invariant of LnFill_proofs.  Each conjunct says what the  *)
(* daemon has established when it is at the lines it names.                *)

Cooled  == {"f_cool", "f_chkcool"}
Filled  == {"f_open"} \cup FillLoop
Before  == {"f_tank", "f_mani", "f_shutmani", "f_open"} \cup Cooled
Closing == {"f_off", "f_vent", "f_close", "f_done"}
OneValve == {"det+", "det-"}

Control ==
    /\ pc \in Cooled => kk < NCold
    /\ pc \in {"f_mani", "f_shutmani"} \cup Cooled \cup Filled => tank = "open"
    /\ pc \in Filled => mani = "closed"
    /\ pc \in {"f_open", "f_det", "f_over"} => todo \subseteq active
    /\ pc \in Before => ~twice /\ \A d \in Entries : actkk[d] = 0
    /\ NDet \in active => active = {NDet}
    /\ pc = "f_open" => \A d \in active \ todo : det[Outlet(d)] = "open"
    /\ LoopValves
    /\ LoopCount
    /\ pc \in Closing /\ ~twice =>
           \A d \in active : det[Outlet(d)] = "closed"
    /\ pc \in Closing \ {"f_off"} => tank = "closed"
    /\ pc = "f_done" => mani = "closed"
    /\ pc \in OneValve \cup {"all_det"} => todo \subseteq Dets
    /\ pc \in OneValve => \A d, e \in todo : d = e

IInv == TypeOK /\ Control

(* What keeps FillFits: the detectors that are on, and those the menu      *)
(* programs that have counted may still turn on.                           *)
On == {d \in Dets : onoff[d]}
Counted == {r \in Readers : rpc[r] = "few"}
FitInv ==
    /\ Cardinality(On) + Cardinality(Counted) < MaxOn + Cardinality(Readers)
    /\ FillFits

=============================================================================
