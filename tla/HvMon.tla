------------------------------- MODULE HvMon -------------------------------
(***************************************************************************)
(* The high voltage daemon hvmon (hv-mpod/src/hvmon.mpod-shm.c), its menu  *)
(* programs (hvmon-read-shm.c), the MPOD crate it works by SNMP and the    *)
(* temperatures it finds in the segment of the thermometer daemon kelvin.  *)
(*                                                                         *)
(* A step of the daemon is what it does to one channel (the requests of a  *)
(* getHVmpodChan, a setOnOffPhase1), and two for a changeParam; between    *)
(* two steps the menu programs write the segment, voltages ramp and kelvin *)
(* writes new temperatures.  SIGALRM cuts the sleep short, so a sleep may  *)
(* end at any time.  Voltages are 0, Low (about 50 V) and Full, the        *)
(* setting of hvmon.conf; current limits, ramp rates and the clearing of   *)
(* trip events are left out, no step below depends on them.  Commands 1    *)
(* and 18 of the daemon are sent by no program.  kelvin's segment exists   *)
(* (what becomes of it is in Kelvin), and every channel is a two-phase or  *)
(* a germanium channel (a name with a Y would keep it out of both).        *)
(***************************************************************************)
EXTENDS Integers, FiniteSets

CONSTANTS
    NChan,      (* channels in hvmon.conf                                   *)
    NTherm,     (* thermometers of kelvin, 16 at most                       *)
    TwoPhase,   (* channels named PA...: ramped up in two phases            *)
    Letter,     (* Letter[c]: the thermometer with c's first letter         *)
    ConfOn,     (* channels hvmon.conf turns on                             *)
    ConfReset,  (* channels hvmon.conf resets: a 10 in the last column      *)
    Readers,    (* the menu programs running                                *)
    Ops,        (* the menu items their users choose                        *)
    Negative,   (* channels whose sense voltage may read below 0 V at 0 V   *)
    MayStop     (* hvmon may be stopped and started again                   *)

Chans  == 0..(NChan - 1)
Therms == 0..(NTherm - 1)
Ge     == Chans \ TwoPhase

ASSUME HvAssumption ==
    /\ NChan \in Nat \ {0}
    /\ NTherm \in 1..16
    /\ TwoPhase \subseteq Chans
    /\ Letter \in [Ge -> Therms]
    /\ ConfOn \subseteq Chans
    /\ ConfReset \subseteq Chans \ ConfOn
    /\ Negative \subseteq Chans
    /\ MayStop \in BOOLEAN

VARIABLES
    (* struct hvmon, in shared memory *)
    com0,       (* the command slot                                         *)
    com1,       (* the channel of command 16, or Outside                    *)
    onoff, vSet, reset,
    (* struct thermometer, in shared memory *)
    hot,        (* thermometers not between -500 and their limit            *)
    (* the MPOD crate *)
    switch,     (* outputSwitch                                             *)
    target,     (* outputVoltage                                            *)
    volt,       (* outputMeasurementSenseVoltage                            *)
    (* the daemon *)
    pc,
    todo,       (* what the running for loop has still to visit             *)
    again,      (* phase2 # 0: a two-phase channel is not at its full yet   *)
    good,       (* thermometers that were good when last checked (tOK)      *)
    job,        (* the locals of changeParam                                *)
    (* the menu programs *)
    rpc,
    excused     (* auxiliary: channels whose onoff was edited in the middle *)
                (* of a changeParam of them, or that were on and below 50 V *)
                (* or set to less when hvmon was stopped or died            *)

shm   == <<com0, com1, onoff, vSet, reset>>
crate == <<switch, target, volt>>
local == <<todo, again, good, job>>
vars  == <<shm, hot, crate, pc, local, rpc, excused>>

Low   == 1
Full  == 2
Volts == 0..Full

(* What a menu program is at, if not at the parameters of a channel; and   *)
(* every channel number that is not in the table (scan2int() returns -1    *)
(* for what is no number, and nobody looks whether a channel exists).      *)
Menu    == -1
Ended   == -2
Outside == -3

Commands == {-1, 0, 2, 3, 4, 5, 16}
Loops == {"conf", "ramp", "read", "shut", "on", "off"}
PC == Loops \cup {"test", "switch", "change", "kick", "temp", "sleep",
                 "exit", "stopped"}

Jobs == [chan : Chans, how : {"up", "stay", "down"}, clear : BOOLEAN]
Idle == [chan |-> 0, how |-> "stay", clear |-> FALSE]

-----------------------------------------------------------------------------
Init ==
    /\ com0 = 0 /\ com1 = 0
    /\ onoff = [c \in Chans |-> 0]
    /\ vSet = [c \in Chans |-> 0]
    /\ reset = {}
    /\ hot \in SUBSET Therms
    /\ switch = [c \in Chans |-> 0]
    /\ target \in [Chans -> {0, Full}]
    /\ volt = [c \in Chans |-> 0]
    /\ pc = "conf"
    /\ todo = Chans
    /\ again = FALSE
    /\ good = {}
    /\ rpc = [r \in Readers |-> Menu]
    /\ job = Idle
    /\ excused = {}

(* Loops visit the table in order. *)
First(c) == c \in todo /\ \A e \in todo : c <= e

(* The end of a for loop, and what comes after it. *)
Finished(loop) == pc = loop /\ todo = {}
Begin(loop, what) == pc' = loop /\ todo' = what
Done(c0) == com0' = c0 /\ pc' = "test" /\ UNCHANGED todo

(* vMeas < 50: of a channel at about 50 V, it may be or not. *)
Below(c) == {b \in BOOLEAN : /\ volt[c] = 0 => b
                             /\ volt[c] = Full => ~b}

(* setOnOffPhase1(): 50 V, and on. *)
Phase1(c) == /\ target' = [target EXCEPT ![c] = Low]
             /\ switch' = [switch EXCEPT ![c] = 1]

-----------------------------------------------------------------------------
(* readConf(): one line of hvmon.conf.  What the crate has is read; the    *)
(* voltage is set if it differs, and the switch if it differs and, for a   *)
(* germanium channel, as checkTemp() lets it: with a thermometer that is   *)
(* not good only the channels of the good ones are touched, and turned off.*)
SloppyConfState(c) ==          (* mutant: the 10 of a reset is left there *)
    IF c \in ConfOn THEN 1 ELSE IF c \in ConfReset THEN 10 ELSE 0
ConfState(c) == IF c \in ConfOn THEN 1 ELSE 0

ConfTwoPhase(c) ==
    /\ c \in TwoPhase
    /\ IF ConfState(c) = 1
       THEN Phase1(c) /\ again' = TRUE
       ELSE /\ switch' = [switch EXCEPT ![c] = 0]
            /\ target' = [target EXCEPT ![c] = Full]
            /\ UNCHANGED again
    /\ onoff' = [onoff EXCEPT ![c] = ConfState(c)]

ConfGe(c) ==
    /\ c \in Ge
    /\ LET state == CASE hot = {}            -> ConfState(c)
                      [] hot # {} /\ Letter[c] \notin hot -> 0
                      [] OTHER               -> switch[c]
       IN  /\ switch' = [switch EXCEPT ![c] = state]
           /\ onoff' = [onoff EXCEPT ![c] = state]
    /\ target' = [target EXCEPT ![c] = Full]
    /\ UNCHANGED again

ConfSame(c) ==
    /\ switch[c] = ConfState(c)
    /\ onoff' = [onoff EXCEPT ![c] = switch[c]]
    /\ target' = [target EXCEPT ![c] = Full]
    /\ UNCHANGED <<switch, again>>

(* The variable that holds the 10 of one line is not cleared for the next. *)
ConfLine ==
    /\ pc = "conf"
    /\ \E c \in todo :
         /\ First(c)
         /\ todo' = todo \ {c}
         /\ \/ ConfSame(c)
            \/ switch[c] # ConfState(c) /\ (ConfTwoPhase(c) \/ ConfGe(c))
         /\ vSet' = [vSet EXCEPT ![c] = Full]
         /\ reset' = IF \E e \in ConfReset : e <= c THEN reset \cup {c}
                                                    ELSE reset \ {c}
    /\ UNCHANGED <<com0, com1, hot, volt, pc, good, job, rpc, excused>>

(* With channels in phase 1 on to phase 2; main() then asks for a reading. *)
ConfEnd ==
    /\ Finished("conf")
    /\ again' = FALSE
    /\ IF again THEN Begin("ramp", Chans) /\ UNCHANGED com0 ELSE Done(2)
    /\ UNCHANGED <<com1, onoff, vSet, reset, hot, crate, good, job, rpc, excused>>

(* setOnPhase2(): passes over ALL two-phase channels, until a pass finds   *)
(* every one of them at about 50 V.  Those it finds there get their full   *)
(* voltage, and may not be there in the next pass.  The test is            *)
(* abs(50.-volts)/volts < 0.05, which a negative reading passes.           *)
Near(c) == \/ volt[c] = Low
           \/ volt[c] = 0 /\ c \in Negative
Far(c)  == volt[c] # Low
Phase2(c) == /\ target' = [target EXCEPT ![c] = vSet[c]]
             /\ switch' = [switch EXCEPT ![c] = onoff[c]]
             /\ UNCHANGED again
BlindRampOne(c) ==                       (* mutant: the voltage is not read *)
    /\ c \in TwoPhase
    /\ Phase2(c)
RampOne(c) ==
    /\ c \in TwoPhase
    /\ \/ Near(c) /\ Phase2(c)
       \/ Far(c) /\ again' = TRUE /\ UNCHANGED <<switch, target>>
RampAll ==
    /\ pc = "ramp"
    /\ \E c \in todo :
         /\ First(c)
         /\ todo' = todo \ {c}
         /\ IF c \in TwoPhase THEN RampOne(c)
                              ELSE UNCHANGED <<switch, target, again>>
    /\ UNCHANGED <<shm, hot, volt, pc, good, job, rpc, excused>>

StuckRampEnd ==          (* mutant: phase2 is not cleared before a new pass *)
    /\ Finished("ramp")
    /\ IF again THEN Begin("ramp", Chans) /\ UNCHANGED com0 ELSE Done(2)
    /\ UNCHANGED <<com1, onoff, vSet, reset, hot, crate, again, good, job, rpc,
                   excused>>
RampEnd ==
    /\ Finished("ramp")
    /\ again' = FALSE
    /\ IF again THEN Begin("ramp", Chans) /\ UNCHANGED com0 ELSE Done(2)
    /\ UNCHANGED <<com1, onoff, vSet, reset, hot, crate, good, job, rpc, excused>>

-----------------------------------------------------------------------------
(* The command loop of main().                                             *)

(* while(hvptr->com0 != -1) *)
Test ==
    /\ pc = "test"
    /\ pc' = IF com0 = -1 THEN "exit" ELSE "switch"
    /\ UNCHANGED <<shm, hot, crate, local, rpc, excused>>

(* switch ( hvptr->com0 ): what is no command becomes 2, whatever a menu   *)
(* program sent since the while test, and hvmon sleeps.                    *)
Switch ==
    /\ pc = "switch"
    /\ CASE com0 = 2 -> Begin("read", Chans)
         [] com0 = 3 -> Begin("kick", todo)
         [] com0 = 4 -> Begin("on", Chans)
         [] com0 = 5 -> Begin("off", Chans)
         [] OTHER    -> Begin("sleep", todo)
    /\ com0 # 16
    /\ com0' = IF com0 \in {2, 3, 4, 5} THEN com0 ELSE 2
    /\ UNCHANGED <<com1, onoff, vSet, reset, hot, crate, again, good, job, rpc,
                   excused>>

(* The two sleeps: INTERVAL seconds, and two seconds for kelvin. *)
Sleep ==
    /\ \/ pc = "sleep" /\ pc' = "test"
       \/ pc = "kick" /\ pc' = "temp"
    /\ UNCHANGED <<shm, hot, crate, local, rpc, excused>>

(* Command 2.  getHVmpodChan(): the crate's settings replace those in the  *)
(* segment, and with them what a menu program has edited there.            *)
ReadOne ==
    /\ pc = "read"
    /\ \E c \in todo :
         /\ First(c)
         /\ todo' = todo \ {c}
         /\ vSet' = [vSet EXCEPT ![c] = target[c]]
         /\ onoff' = [onoff EXCEPT ![c] = switch[c]]
    /\ UNCHANGED <<com0, com1, reset, hot, crate, pc, again, good, job, rpc,
                   excused>>

ReadEnd ==
    /\ Finished("read")
    /\ Begin("temp", todo)
    /\ UNCHANGED <<shm, hot, crate, again, good, job, rpc, excused>>

(* getTemp(), checkTemp(): all good, or on to the shutdown. *)
LooseCheckTemp ==               (* mutant: one good thermometer is enough *)
    /\ pc = "temp"
    /\ good' = Therms \ hot
    /\ IF good' # {} THEN Done(0)
                     ELSE Begin("shut", good') /\ UNCHANGED com0
    /\ UNCHANGED <<com1, onoff, vSet, reset, hot, crate, again, job, rpc, excused>>
CheckTemp ==
    /\ pc = "temp"
    /\ good' = Therms \ hot
    /\ IF hot = {} THEN Done(0)
                   ELSE Begin("shut", good') /\ UNCHANGED com0
    /\ UNCHANGED <<com1, onoff, vSet, reset, hot, crate, again, job, rpc, excused>>

(* "Bad Temp: shutting Down!"  checkTemp() leaves '1' for a thermometer    *)
(* that is not good and the letter for one that is; the loop turns off the *)
(* channels of those that do not have a '1', and hvmon ends.               *)
ShutOne ==
    /\ pc = "shut"
    /\ \E t \in todo :
         /\ First(t)
         /\ todo' = todo \ {t}
         /\ LET mine == {c \in Ge : Letter[c] = t}
            IN  /\ switch' = [c \in Chans |-> IF c \in mine THEN 0
                                                          ELSE switch[c]]
                /\ onoff' = [c \in Chans |-> IF c \in mine THEN 0
                                                         ELSE onoff[c]]
    /\ UNCHANGED <<com0, com1, vSet, reset, hot, target, volt, pc, again,
                   good, job, rpc, excused>>

ShutEnd ==
    /\ Finished("shut")
    /\ Done(-1)
    /\ UNCHANGED <<com1, onoff, vSet, reset, hot, crate, again, good, job, rpc,
                   excused>>

(* Command 4, setHVmpodOn(): of the channels that are off those of two     *)
(* phases that are below 50 V begin phase 1; of the others only the onoff  *)
(* in the segment changes.                                                 *)
EagerOnOne ==                  (* mutant: the other channels are turned on *)
    /\ pc = "on"
    /\ \E c \in todo :
         /\ First(c)
         /\ todo' = todo \ {c}
         /\ IF switch[c] # 1
            THEN /\ onoff' = [onoff EXCEPT ![c] = 1]
                 /\ \E below \in Below(c) :
                      IF c \in TwoPhase /\ below
                      THEN Phase1(c) /\ again' = TRUE
                      ELSE /\ switch' = [switch EXCEPT ![c] = 1]
                           /\ UNCHANGED <<target, again>>
            ELSE UNCHANGED <<onoff, switch, target, again>>
    /\ UNCHANGED <<com0, com1, vSet, reset, hot, volt, pc, good, job, rpc, excused>>
OnOne ==
    /\ pc = "on"
    /\ \E c \in todo :
         /\ First(c)
         /\ todo' = todo \ {c}
         /\ IF switch[c] # 1
            THEN /\ onoff' = [onoff EXCEPT ![c] = 1]
                 /\ \E below \in Below(c) :
                      IF c \in TwoPhase /\ below
                      THEN Phase1(c) /\ again' = TRUE
                      ELSE UNCHANGED <<switch, target, again>>
            ELSE UNCHANGED <<onoff, switch, target, again>>
    /\ UNCHANGED <<com0, com1, vSet, reset, hot, volt, pc, good, job, rpc, excused>>

OnEnd ==
    /\ Finished("on")
    /\ again' = FALSE
    /\ IF again THEN Begin("ramp", Chans) /\ UNCHANGED com0 ELSE Done(2)
    /\ UNCHANGED <<com1, onoff, vSet, reset, hot, crate, good, job, rpc, excused>>

(* Command 5, setHVmpodOff(). *)
OffOne ==
    /\ pc = "off"
    /\ \E c \in todo :
         /\ First(c)
         /\ todo' = todo \ {c}
         /\ IF switch[c] # 0
            THEN /\ onoff' = [onoff EXCEPT ![c] = 0]
                 /\ switch' = [switch EXCEPT ![c] = 0]
            ELSE UNCHANGED <<onoff, switch>>
    /\ UNCHANGED <<com0, com1, vSet, reset, hot, target, volt, pc, again,
                   good, job, rpc, excused>>

OffEnd ==
    /\ Finished("off")
    /\ Done(2)
    /\ UNCHANGED <<com1, onoff, vSet, reset, hot, crate, again, good, job, rpc,
                   excused>>

(* Command 16, changeParam() of channel com1.  A two-phase channel that is *)
(* turned on begins phase 1 and is left there: the loop that would wait    *)
(* for phase 2 begins with phase2 = 0.  An onoff of 1 in any other channel *)
(* is not sent.  What is to be done is decided first, and setOnOff() sends *)
(* the onoff that it finds in the segment at the end.                      *)
BlindChangeVolts ==                      (* mutant: the voltage is not read *)
    /\ pc = "switch"
    /\ com0 = 16 /\ com1 \in Chans
    /\ job' = [chan  |-> com1,
               how   |-> IF onoff[com1] # 1 THEN "down" ELSE "stay",
               clear |-> com1 \in reset]
    /\ target' = [target EXCEPT ![com1] = vSet[com1]]
    /\ pc' = "change"
    /\ UNCHANGED <<shm, hot, switch, volt, todo, again, good, rpc, excused>>
ChangeVolts ==
    /\ pc = "switch"
    /\ com0 = 16 /\ com1 \in Chans
    /\ \E below \in Below(com1) :
         job' = [chan  |-> com1,
                 how   |-> IF onoff[com1] # 1 THEN "down"
                           ELSE IF com1 \in TwoPhase /\ below THEN "up"
                           ELSE "stay",
                 clear |-> com1 \in reset]
    /\ target' = [target EXCEPT ![com1] = vSet[com1]]
    /\ pc' = "change"
    /\ UNCHANGED <<shm, hot, switch, volt, todo, again, good, rpc, excused>>

BareChangeSwitch ==                         (* mutant: on, but not at 50 V *)
    /\ pc = "change"
    /\ LET c == job.chan
       IN  /\ switch' = [switch EXCEPT
                            ![c] = IF job.clear THEN 0
                                   ELSE IF job.how = "stay" THEN @ ELSE onoff[c]]
           /\ onoff' = [onoff EXCEPT ![c] = IF job.clear THEN 0 ELSE @]
           /\ reset' = IF job.clear THEN reset \ {c} ELSE reset
    /\ job' = Idle
    /\ Done(2)
    /\ UNCHANGED <<com1, vSet, hot, target, volt, again, good, rpc, excused>>
ChangeSwitch ==
    /\ pc = "change"
    /\ LET c == job.chan
       IN  /\ target' = IF job.how = "up" THEN [target EXCEPT ![c] = Low]
                                          ELSE target
           /\ switch' = [switch EXCEPT
                            ![c] = IF job.clear THEN 0
                                   ELSE IF job.how = "stay" THEN @ ELSE onoff[c]]
           /\ onoff' = [onoff EXCEPT ![c] = IF job.clear THEN 0 ELSE @]
           /\ reset' = IF job.clear THEN reset \ {c} ELSE reset
    /\ job' = Idle
    /\ Done(2)
    /\ UNCHANGED <<com1, vSet, hot, volt, again, good, rpc, excused>>

-----------------------------------------------------------------------------
(* hvmon is stopped, anywhere, or dies of a channel that is not in the     *)
(* table: no answer comes for it, and readFloat() copies from what         *)
(* strstr() did not find.  Run again, readConf() begins anew with the      *)
(* crate as it is.                                                         *)
Unsettled == {c \in TwoPhase : switch[c] = 1 /\ (volt[c] < Low \/ target[c] < Low)}
Halt ==
    /\ pc' = "stopped"
    /\ todo' = {} /\ again' = FALSE /\ good' = {} /\ job' = Idle
    /\ excused' = excused \cup Unsettled
    /\ UNCHANGED <<shm, hot, crate, rpc>>

Stop == MayStop /\ pc \notin {"exit", "stopped"} /\ Halt

ChangeNone ==
    /\ pc = "switch"
    /\ com0 = 16 /\ com1 \notin Chans
    /\ Halt

Restart ==
    /\ pc = "stopped"
    /\ Begin("conf", Chans)
    /\ UNCHANGED <<shm, hot, crate, again, good, job, rpc, excused>>

-----------------------------------------------------------------------------
(* The menu programs.  rpc[r] is Menu, Ended, Outside or the channel whose *)
(* parameters are being altered.                                           *)
AtMenu(r, item) == rpc[r] = Menu /\ item \in Ops

Command(r) ==                                              (* items 2 to 5 *)
    /\ \E c \in 2..5 : AtMenu(r, c) /\ com0' = c
    /\ UNCHANGED <<com1, onoff, vSet, reset, hot, crate, pc, local, rpc,
                   excused>>

(* Item 16, detParam(): the record in the segment is edited, and only then *)
(* is hvmon told.  A number far outside the table ends the menu program, a *)
(* near one edits memory that hvmon does not work by.                      *)
AskChange(r) ==
    /\ AtMenu(r, 16)
    /\ \E c \in Chans \cup {Outside, Ended} : rpc' = [rpc EXCEPT ![r] = c]
    /\ UNCHANGED <<shm, hot, crate, pc, local, excused>>

(* Any voltage up to the maximum of the channel is taken. *)
Edit(r) ==
    /\ rpc[r] \in Chans
    /\ LET c == rpc[r] IN
         \/ /\ \E v \in Volts : vSet' = [vSet EXCEPT ![c] = v]
            /\ UNCHANGED <<onoff, reset, excused>>
         \/ /\ onoff' = [onoff EXCEPT ![c] = 1 - @]
            /\ excused' = IF pc = "change" /\ job.chan = c THEN excused \cup {c}
                                                         ELSE excused
            /\ UNCHANGED <<vSet, reset>>
         \/ reset' = reset \cup {c} /\ UNCHANGED <<vSet, onoff, excused>>
    /\ UNCHANGED <<com0, com1, hot, crate, pc, local, rpc>>

(* "finished?", or an answer out of range, which leaves com1 as it was. *)
SendChange(r) ==
    /\ rpc[r] \in Chans \cup {Outside}
    /\ com1' \in {com1, rpc[r]}
    /\ com0' = 16
    /\ rpc' = [rpc EXCEPT ![r] = Menu]
    /\ UNCHANGED <<onoff, vSet, reset, hot, crate, pc, local, excused>>

(* Item 100.  The segment is marked for removal, too, and no menu program  *)
(* attaches to it again.                                                   *)
EndAll(r) ==
    /\ AtMenu(r, 100)
    /\ com0' = -1 /\ com1' = Outside
    /\ rpc' = [rpc EXCEPT ![r] = Ended]
    /\ UNCHANGED <<onoff, vSet, reset, hot, crate, pc, local, excused>>

-----------------------------------------------------------------------------
(* kelvin writes new temperatures. *)
Kelvin ==
    /\ hot' \in SUBSET Therms
    /\ UNCHANGED <<shm, crate, pc, local, rpc, excused>>

(* The voltage of a channel that is on nears its target, of one off, 0. *)
Goal(c) == IF switch[c] = 1 THEN target[c] ELSE 0
Ramp(c) ==
    /\ volt[c] # Goal(c)
    /\ volt' = [volt EXCEPT ![c] = IF @ < Goal(c) THEN @ + 1 ELSE @ - 1]
    /\ UNCHANGED <<shm, hot, switch, target, pc, local, rpc, excused>>

Conf   == ConfLine \/ ConfEnd \/ RampAll \/ RampEnd
Cycle  == Test \/ Switch \/ Sleep \/ ReadOne \/ ReadEnd
          \/ CheckTemp \/ ShutOne \/ ShutEnd
Orders == OnOne \/ OnEnd \/ OffOne \/ OffEnd
          \/ ChangeVolts \/ ChangeSwitch \/ ChangeNone
Daemon == Conf \/ Cycle \/ Orders

Reader(r) == Command(r) \/ AskChange(r) \/ Edit(r) \/ SendChange(r) \/ EndAll(r)

Next == \/ Daemon \/ Stop \/ Restart \/ Kelvin
        \/ \E r \in Readers : Reader(r)
        \/ \E c \in Chans : Ramp(c)

Spec == Init /\ [][Next]_vars

(* The daemon runs and the crate ramps; nothing is assumed of the users,   *)
(* and nothing of kelvin.                                                  *)
FairSpec == Spec /\ WF_vars(Daemon) /\ \A c \in Chans : WF_vars(Ramp(c))

-----------------------------------------------------------------------------
(* Properties.                                                             *)

TypeOK ==
    /\ com0 \in Commands
    /\ com1 \in Chans \cup {Outside}
    /\ onoff \in [Chans -> {0, 1}]
    /\ vSet \in [Chans -> Volts]
    /\ reset \subseteq Chans
    /\ hot \subseteq Therms
    /\ switch \in [Chans -> {0, 1}]
    /\ target \in [Chans -> Volts]
    /\ volt \in [Chans -> Volts]
    /\ pc \in PC
    /\ todo \subseteq IF pc = "shut" THEN Therms ELSE Chans
    /\ again \in BOOLEAN
    /\ good \subseteq Therms
    /\ rpc \in [Readers -> Chans \cup {Menu, Ended, Outside}]
    /\ job \in Jobs
    /\ excused \subseteq Chans

(* A two-phase channel that is on heads for more than 50 V only once it    *)
(* has been there ("'PA' keyword triggers 2phase ramping", Howto.txt),     *)
(* but for the moment in which changeParam() has sent the voltage and not  *)
(* yet phase 1: whatever is commanded, edited and read in which order and  *)
(* however often hvmon is stopped and started again.  Excused are channels *)
(* whose switch was edited while hvmon was changing them, or that were on, *)
(* below 50 V or on their way there, when it was stopped (readConf() sends *)
(* their voltage unseen), and those whose voltage may read as negative.    *)
Exempt(c) == c \in excused \/ c \in Negative
TwoPhaseRamp ==
    \A c \in TwoPhase :
        /\ ~Exempt(c)
        /\ switch[c] = 1
        /\ target[c] = Full
        /\ ~(pc = "change" /\ job.chan = c)
        => volt[c] >= Low

(* The same as a specification of one channel, HvTwoPhase, that every      *)
(* two-phase channel implements: what a voltage sent before its phase is   *)
(* decided turns into, and where the crate goes meanwhile.                 *)
Sent(c) == pc = "change" /\ job.chan = c /\ job.how # "stay"
State(c) ==
    IF switch[c] = 0 THEN "off"
    ELSE IF target[c] < Low THEN "under"
    ELSE IF target[c] = Low THEN "low"
    ELSE IF Sent(c) THEN "sent" ELSE "full"

TP(c) == INSTANCE HvTwoPhase WITH
            state <- State(c), volt <- volt[c], exempt <- Exempt(c)
TwoPhaseImpl ==
    /\ \A c \in TwoPhase : TP(c)!Init
    /\ [][\A c \in TwoPhase : [TP(c)!Next]_(TP(c)!vars)]_vars

(* What keeps both (HvMon_proofs).  changeParam() has decided on phase 1   *)
(* for a two-phase channel only, and to turn a channel off only if the     *)
(* segment said so, and still does; it has left a channel that is on alone *)
(* only above 50 V; and readConf() finds the two-phase channels of the     *)
(* lines it has not come to off, or at 50 V and set to 50 V at least, and  *)
(* so do they stay while no hvmon runs.                                    *)
ChangeSure ==
    pc = "change" =>
        /\ job.how = "up" => job.chan \in TwoPhase
        /\ job.how = "down" /\ job.chan \notin excused => onoff[job.chan] = 0
ChangeFull ==
    /\ pc = "change" /\ job.how = "stay" /\ job.chan \in TwoPhase
    /\ switch[job.chan] = 1 /\ target[job.chan] = Full
    => volt[job.chan] >= Low
Unread(c) == pc = "stopped" \/ (pc = "conf" /\ c \in todo)
ConfSafe == \A c \in TwoPhase :
                Unread(c) /\ ~Exempt(c) /\ switch[c] = 1
                => volt[c] >= Low /\ target[c] >= Low
RampInv ==
    /\ ChangeSure /\ ChangeFull /\ ConfSafe
    /\ TwoPhaseRamp

(* hvmon never turns a germanium channel on while a thermometer is not     *)
(* good, unless the switch is edited while it is changing that channel.    *)
GeOnlyWhenGood ==
    [][\A c \in Ge \ excused : switch[c] = 0 /\ switch'[c] = 1 => hot = {}]_vars

(* With a thermometer that stays bad hvmon comes to its end, unless it is  *)
(* kept busy by the commands that read no temperature, again and again, or *)
(* stays in setOnPhase2() for ever (RampEnds says when it does not).       *)
HotEnds ==
    <>[](hot # {}) => \/ []<>(com0 = -1 \/ pc \in {"exit", "stopped"})
                      \/ []<>(pc = "switch" /\ com0 \in {4, 5, 16})
                      \/ <>[](pc = "ramp")

(* setOnPhase2() comes to its end and hvmon goes back to its commands.  It *)
(* does with one two-phase channel; with two of which one is off it waits  *)
(* for ever, with SIGALRM blocked and the temperatures unread.             *)
RampEnds == pc = "ramp" ~> pc # "ramp"

(* "high temperature HV shutdown" (kelvin.conf): when hvmon has shut down  *)
(* for a bad temperature, the channels of the thermometers that were not   *)
(* good are off.  It turns off those of the good ones.                     *)
HotShut ==
    [][pc = "shut" /\ pc' = "test" =>
          \A c \in Ge : Letter[c] \notin good => switch'[c] = 0]_vars

=============================================================================
