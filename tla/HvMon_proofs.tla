---------------------------- MODULE HvMon_proofs ----------------------------
(***************************************************************************)
(* Proofs about HvMon, for every configuration, every number of channels,  *)
(* thermometers and menu programs and every choice of menu items: types,   *)
(* germanium channels turned on with good temperatures only, and the       *)
(* two-phase ramp.                                                         *)
(***************************************************************************)
EXTENDS HvMon, TLAPS

-----------------------------------------------------------------------------
(* Types. *)

LEMMA Constants ==
    /\ 0 \in Chans
    /\ Chans \subseteq Int /\ Therms \subseteq Int
    /\ Ge \subseteq Chans /\ Ge \cap TwoPhase = {}
    /\ TwoPhase \subseteq Chans
BY HvAssumption, SMT DEF Chans, Therms, Ge

LEMMA TypeInit ==
    ASSUME Init
    PROVE  TypeOK
<1>1. Idle \in Jobs
  BY Constants DEF Idle, Jobs
<1>2. com1 \in Chans \cup {Outside}
  BY Constants DEF Init
<1>3. /\ onoff \in [Chans -> {0, 1}] /\ switch \in [Chans -> {0, 1}]
      /\ vSet \in [Chans -> Volts] /\ volt \in [Chans -> Volts]
  BY DEF Init, Volts, Full
<1>4. target \in [Chans -> Volts]
  BY DEF Init, Volts, Full
<1>5. rpc \in [Readers -> Chans \cup {Menu, Ended, Outside}]
  BY DEF Init
<1>6. QED
  BY <1>1, <1>2, <1>3, <1>4, <1>5 DEF Init, TypeOK, Commands, PC, Loops

LEMMA TypeConf ==
    ASSUME TypeOK, Conf
    PROVE  TypeOK'
<1> USE DEF TypeOK, Commands, PC, Loops, Volts, Low, Full
<1>1. CASE ConfLine
  <2>1. PICK c \in todo :
          /\ todo' = todo \ {c}
          /\ \/ ConfSame(c)
             \/ switch[c] # ConfState(c) /\ (ConfTwoPhase(c) \/ ConfGe(c))
          /\ vSet' = [vSet EXCEPT ![c] = Full]
          /\ reset' = IF \E e \in ConfReset : e <= c THEN reset \cup {c}
                                                     ELSE reset \ {c}
    BY <1>1 DEF ConfLine
  <2>2. c \in Chans /\ pc = "conf"
    BY <1>1 DEF ConfLine
  <2>3. ConfState(c) \in {0, 1}
    BY DEF ConfState
  <2>4. /\ onoff' \in [Chans -> {0, 1}] /\ switch' \in [Chans -> {0, 1}]
        /\ target' \in [Chans -> 0..2] /\ again' \in BOOLEAN
    <3>1. CASE ConfSame(c)
      BY <3>1, <2>2 DEF ConfSame
    <3>2. CASE ConfTwoPhase(c)
      <4>1. CASE ConfState(c) = 1
        <5>1. again' = TRUE
          BY <3>2, <4>1 DEF ConfTwoPhase
        <5>2. /\ target' = [target EXCEPT ![c] = Low]
              /\ switch' = [switch EXCEPT ![c] = 1]
              /\ onoff' = [onoff EXCEPT ![c] = ConfState(c)]
          BY <3>2, <4>1 DEF ConfTwoPhase, Phase1
        <5>3. again' \in BOOLEAN
          BY <5>1, Zenon
        <5>4. QED
          BY <5>2, <5>3, <2>2, <4>1
      <4>2. CASE ConfState(c) = 0
        <5>1. UNCHANGED again
          BY <3>2, <4>2 DEF ConfTwoPhase
        <5>2. /\ target' = [target EXCEPT ![c] = Full]
              /\ switch' = [switch EXCEPT ![c] = 0]
              /\ onoff' = [onoff EXCEPT ![c] = ConfState(c)]
          BY <3>2, <4>2 DEF ConfTwoPhase
        <5>3. again' \in BOOLEAN
          BY <5>1, Zenon
        <5>4. QED
          BY <5>2, <5>3, <2>2, <4>2
      <4>3. QED
        BY <2>3, <4>1, <4>2
    <3>3. CASE ConfGe(c)
      BY <3>3, <2>2, <2>3 DEF ConfGe
    <3>4. QED
      BY <2>1, <3>1, <3>2, <3>3
  <2>5. vSet' \in [Chans -> 0..2] /\ reset' \subseteq Chans
    BY <2>1, <2>2
  <2>6. todo' \subseteq Chans
    BY <2>1, <2>2
  <2>7. UNCHANGED <<com0, com1, hot, volt, pc, good, job, rpc, excused>>
    BY <1>1 DEF ConfLine
  <2>8. QED
    BY <2>2, <2>4, <2>5, <2>6, <2>7
<1>2. CASE ConfEnd
  BY <1>2 DEF ConfEnd, Finished, Begin, Done, crate
<1>3. CASE RampAll
  <2>1. PICK c \in todo :
          /\ todo' = todo \ {c}
          /\ IF c \in TwoPhase THEN RampOne(c)
                               ELSE UNCHANGED <<switch, target, again>>
    BY <1>3 DEF RampAll
  <2>2. c \in Chans /\ pc = "ramp"
    BY <1>3 DEF RampAll
  <2>3. /\ switch' \in [Chans -> {0, 1}] /\ target' \in [Chans -> 0..2]
        /\ again' \in BOOLEAN
    <3>1. CASE c \in TwoPhase /\ Near(c) /\ Phase2(c)
      BY <3>1, <2>2 DEF Phase2
    <3>2. CASE again' = TRUE /\ UNCHANGED <<switch, target>>
      BY <3>2
    <3>3. CASE UNCHANGED <<switch, target, again>>
      BY <3>3
    <3>4. QED
      BY <2>1, <3>1, <3>2, <3>3 DEF RampOne
  <2>4. UNCHANGED <<shm, hot, volt, pc, good, job, rpc, excused>>
    BY <1>3 DEF RampAll
  <2>5. QED
    BY <2>1, <2>2, <2>3, <2>4 DEF shm
<1>4. CASE RampEnd
  BY <1>4 DEF RampEnd, Finished, Begin, Done, crate
<1>5. QED
  BY <1>1, <1>2, <1>3, <1>4 DEF Conf

LEMMA TypeCycle ==
    ASSUME TypeOK, Cycle
    PROVE  TypeOK'
<1> USE DEF TypeOK, Commands, PC, Loops
<1>1. CASE Test
  BY <1>1 DEF Test, shm, crate, local
<1>2. CASE Switch
  <2>1. pc = "switch" /\ todo \subseteq Chans
    BY <1>2 DEF Switch
  <2>2. pc' \in {"read", "kick", "on", "off", "sleep"} /\ todo' \subseteq Chans
    <3>1. CASE com0 = 2
      BY <1>2, <3>1 DEF Switch, Begin
    <3>2. CASE com0 = 3
      BY <1>2, <2>1, <3>2 DEF Switch, Begin
    <3>3. CASE com0 = 4
      BY <1>2, <3>3 DEF Switch, Begin
    <3>4. CASE com0 = 5
      BY <1>2, <3>4 DEF Switch, Begin
    <3>5. CASE com0 \notin {2, 3, 4, 5}
      BY <1>2, <2>1, <3>5 DEF Switch, Begin
    <3>6. QED
      BY <3>1, <3>2, <3>3, <3>4, <3>5
  <2>3. com0' \in {2, 3, 4, 5}
    BY <1>2 DEF Switch
  <2>4. UNCHANGED <<com1, onoff, vSet, reset, hot, crate, again, good, job,
                    rpc, excused>>
    BY <1>2 DEF Switch
  <2>5. QED
    BY <2>2, <2>3, <2>4 DEF crate
<1>3. CASE Sleep
  BY <1>3 DEF Sleep, shm, crate, local
<1>4. CASE ReadOne
  <2>1. PICK c \in todo :
          /\ todo' = todo \ {c}
          /\ vSet' = [vSet EXCEPT ![c] = target[c]]
          /\ onoff' = [onoff EXCEPT ![c] = switch[c]]
    BY <1>4 DEF ReadOne
  <2>2. c \in Chans /\ pc = "read"
    BY <1>4 DEF ReadOne
  <2>3. /\ vSet' \in [Chans -> Volts] /\ onoff' \in [Chans -> {0, 1}]
        /\ todo' \subseteq Chans
    BY <2>1, <2>2
  <2>4. QED
    BY <1>4, <2>2, <2>3 DEF ReadOne, crate
<1>5. CASE ReadEnd
  BY <1>5 DEF ReadEnd, Finished, Begin, shm, crate
<1>6. CASE CheckTemp
  BY <1>6 DEF CheckTemp, Begin, Done, crate
<1>7. CASE ShutOne
  <2>1. PICK t \in todo :
          /\ todo' = todo \ {t}
          /\ LET mine == {c \in Ge : Letter[c] = t}
             IN  /\ switch' = [c \in Chans |-> IF c \in mine THEN 0
                                                           ELSE switch[c]]
                 /\ onoff' = [c \in Chans |-> IF c \in mine THEN 0
                                                          ELSE onoff[c]]
    BY <1>7 DEF ShutOne
  <2>2. switch' \in [Chans -> {0, 1}] /\ onoff' \in [Chans -> {0, 1}]
    BY <2>1
  <2>3. QED
    BY <1>7, <2>1, <2>2 DEF ShutOne
<1>8. CASE ShutEnd
  BY <1>8 DEF ShutEnd, Finished, Done, crate
<1>9. QED
  BY <1>1, <1>2, <1>3, <1>4, <1>5, <1>6, <1>7, <1>8 DEF Cycle

LEMMA TypeHalt ==
    ASSUME TypeOK, Halt
    PROVE  TypeOK'
<1>1. Idle \in Jobs
  BY Constants DEF Idle, Jobs
<1>2. excused' \subseteq Chans
  BY Constants DEF Halt, TypeOK, Unsettled
<1>3. QED
  BY <1>1, <1>2 DEF Halt, TypeOK, shm, crate, PC

LEMMA TypeOrders ==
    ASSUME TypeOK, Orders
    PROVE  TypeOK'
<1> USE DEF TypeOK, Commands, PC, Loops, Volts, Low, Full
<1>1. CASE OnOne
  <2>1. PICK c \in todo :
          /\ todo' = todo \ {c}
          /\ IF switch[c] # 1
             THEN /\ onoff' = [onoff EXCEPT ![c] = 1]
                  /\ \E below \in Below(c) :
                       IF c \in TwoPhase /\ below
                       THEN Phase1(c) /\ again' = TRUE
                       ELSE UNCHANGED <<switch, target, again>>
             ELSE UNCHANGED <<onoff, switch, target, again>>
    BY <1>1 DEF OnOne
  <2>2. c \in Chans /\ pc = "on"
    BY <1>1 DEF OnOne
  <2>3. onoff' \in [Chans -> {0, 1}]
    BY <2>1, <2>2
  <2>4. /\ switch' \in [Chans -> {0, 1}] /\ target' \in [Chans -> 0..2]
        /\ again' \in BOOLEAN
    <3>1. CASE Phase1(c) /\ again' = TRUE
      <4>1. /\ target' = [target EXCEPT ![c] = Low]
            /\ switch' = [switch EXCEPT ![c] = 1]
        BY <3>1 DEF Phase1
      <4>2. again' = TRUE
        BY <3>1
      <4>3. again' \in BOOLEAN
        BY <4>2, Zenon
      <4>4. QED
        BY <2>2, <4>1, <4>3
    <3>2. CASE UNCHANGED <<switch, target, again>>
      BY <3>2
    <3>3. QED
      BY <2>1, <3>1, <3>2
  <2>5. QED
    BY <1>1, <2>1, <2>2, <2>3, <2>4 DEF OnOne
<1>2. CASE OnEnd
  BY <1>2 DEF OnEnd, Finished, Begin, Done, crate
<1>3. CASE OffOne
  <2>1. PICK c \in todo :
          /\ todo' = todo \ {c}
          /\ IF switch[c] # 0
             THEN /\ onoff' = [onoff EXCEPT ![c] = 0]
                  /\ switch' = [switch EXCEPT ![c] = 0]
             ELSE UNCHANGED <<onoff, switch>>
    BY <1>3 DEF OffOne
  <2>2. onoff' \in [Chans -> {0, 1}] /\ switch' \in [Chans -> {0, 1}]
    BY <2>1
  <2>3. QED
    BY <1>3, <2>1, <2>2 DEF OffOne
<1>4. CASE OffEnd
  BY <1>4 DEF OffEnd, Finished, Done, crate
<1>5. CASE ChangeVolts
  <2>1. job' \in Jobs
    BY <1>5 DEF ChangeVolts, Jobs
  <2>2. target' \in [Chans -> 0..2]
    BY <1>5 DEF ChangeVolts
  <2>3. QED
    BY <1>5, <2>1, <2>2 DEF ChangeVolts, shm
<1>6. CASE ChangeSwitch
  <2>1. job.chan \in Chans
    <3>1. job \in Jobs
      OBVIOUS
    <3>2. QED
      BY <3>1, SMT DEF Jobs
  <2>2. target' \in [Chans -> 0..2]
    <3>1. target' = target \/ target' = [target EXCEPT ![job.chan] = Low]
      BY <1>6 DEF ChangeSwitch
    <3>2. QED
      BY <3>1
  <2>3. switch' \in [Chans -> {0, 1}]
    <3> DEFINE new == IF job.clear THEN 0
                      ELSE IF job.how = "stay" THEN switch[job.chan]
                      ELSE onoff[job.chan]
    <3>1. onoff[job.chan] \in {0, 1} /\ switch[job.chan] \in {0, 1}
      BY <2>1
    <3>2. new \in {0, 1}
      BY <3>1
    <3>3. switch' = [switch EXCEPT ![job.chan] = new]
      BY <1>6 DEF ChangeSwitch
    <3> HIDE DEF new
    <3>4. QED
      BY <3>2, <3>3
  <2>4. onoff' \in [Chans -> {0, 1}] /\ reset' \subseteq Chans
    BY <1>6 DEF ChangeSwitch
  <2>5. Idle \in Jobs
    BY Constants DEF Idle, Jobs
  <2>6. QED
    BY <1>6, <2>2, <2>3, <2>4, <2>5 DEF ChangeSwitch, Done
<1>7. CASE ChangeNone
  BY <1>7, TypeHalt DEF ChangeNone
<1>8. QED
  BY <1>1, <1>2, <1>3, <1>4, <1>5, <1>6, <1>7 DEF Orders

LEMMA TypeReader ==
    ASSUME TypeOK, NEW r \in Readers, Reader(r)
    PROVE  TypeOK'
<1> USE DEF TypeOK, Commands, Volts, Full
<1>1. CASE Command(r)
  BY <1>1 DEF Command, AtMenu, crate, local
<1>2. CASE AskChange(r)
  BY <1>2 DEF AskChange, shm, crate, local
<1>3. CASE Edit(r)
  <2> DEFINE c == rpc[r]
  <2>1. c \in Chans
    BY <1>3 DEF Edit
  <2>2. UNCHANGED <<com0, com1, hot, crate, pc, local, rpc>>
    BY <1>3 DEF Edit
  <2>3. /\ vSet' \in [Chans -> 0..2] /\ onoff' \in [Chans -> {0, 1}]
        /\ reset' \subseteq Chans
        /\ excused' \subseteq Chans
    <3>1. CASE /\ \E v \in Volts : vSet' = [vSet EXCEPT ![c] = v]
               /\ UNCHANGED <<onoff, reset, excused>>
      BY <3>1, <2>1
    <3>2. CASE /\ onoff' = [onoff EXCEPT ![c] = 1 - @]
               /\ excused' = IF pc = "change" /\ job.chan = c
                           THEN excused \cup {c} ELSE excused
               /\ UNCHANGED <<vSet, reset>>
      BY <3>2, <2>1
    <3>3. CASE reset' = reset \cup {c} /\ UNCHANGED <<vSet, onoff, excused>>
      BY <3>3, <2>1
    <3>4. QED
      BY <1>3, <3>1, <3>2, <3>3 DEF Edit
  <2>4. QED
    BY <2>2, <2>3 DEF crate, local
<1>4. CASE SendChange(r)
  BY <1>4 DEF SendChange, crate, local
<1>5. CASE EndAll(r)
  BY <1>5 DEF EndAll, AtMenu, crate, local
<1>6. QED
  BY <1>1, <1>2, <1>3, <1>4, <1>5 DEF Reader

LEMMA TypeOther ==
    ASSUME TypeOK, Stop \/ Restart \/ Kelvin
    PROVE  TypeOK'
<1> USE DEF TypeOK
<1>1. CASE Stop
  BY <1>1, TypeHalt DEF Stop
<1>2. CASE Restart
  BY <1>2 DEF Restart, Begin, shm, crate, PC, Loops
<1>3. CASE Kelvin
  BY <1>3 DEF Kelvin, shm, crate, local
<1>4. QED
  BY <1>1, <1>2, <1>3

LEMMA TypeRamp ==
    ASSUME TypeOK, NEW c \in Chans, Ramp(c)
    PROVE  TypeOK'
<1>1. Goal(c) \in 0..2
  BY DEF TypeOK, Goal, Volts, Full
<1>2. volt' \in [Chans -> Volts]
  BY <1>1, SMT DEF TypeOK, Ramp, Volts, Full
<1>3. QED
  BY <1>2 DEF TypeOK, Ramp, shm, local

LEMMA TypeStep ==
    ASSUME TypeOK, [Next]_vars
    PROVE  TypeOK'
<1>1. CASE UNCHANGED vars
  BY <1>1 DEF TypeOK, vars, shm, crate, local
<1>2. CASE Next
  BY <1>2, TypeConf, TypeCycle, TypeOrders, TypeReader, TypeOther, TypeRamp
     DEF Next, Daemon
<1>3. QED
  BY <1>1, <1>2

(* Every variable of hvmon, its segment, the crate and the menu programs   *)
(* keeps its type: a loop visits entries of the table it is over, and      *)
(* changeParam() goes on only with a channel of the table.                 *)
THEOREM TypeCorrect == Spec => []TypeOK
<1>1. Init => TypeOK
  BY TypeInit
<1>2. TypeOK /\ [Next]_vars => TypeOK'
  BY TypeStep
<1>3. QED
  BY <1>1, <1>2, PTL DEF Spec

-----------------------------------------------------------------------------
(* changeParam() and the record in the segment. *)

LEMMA SureStep ==
    ASSUME TypeOK, ChangeSure, [Next]_vars
    PROVE  ChangeSure'
<1> SUFFICES ASSUME pc' = "change"
             PROVE  /\ job'.how = "up" => job'.chan \in TwoPhase
                    /\ job'.how = "down" /\ job'.chan \notin excused'
                          => onoff'[job'.chan] = 0
  BY DEF ChangeSure
<1> USE DEF TypeOK
<1>1. CASE UNCHANGED vars
  BY <1>1 DEF vars, shm, local, ChangeSure
<1>2. CASE Conf
  BY <1>2 DEF Conf, ConfLine, ConfEnd, RampAll, RampEnd, Finished, Begin, Done
<1>3. CASE Cycle
  <2>1. pc' # "change"
    <3>1. CASE Switch
      <4>1. CASE com0 \in {2, 3, 4, 5}
        BY <3>1, <4>1 DEF Switch, Begin
      <4>2. CASE com0 \notin {2, 3, 4, 5}
        BY <3>1, <4>2 DEF Switch, Begin
      <4>3. QED
        BY <4>1, <4>2
    <3>2. CASE Test \/ Sleep
      BY <3>2 DEF Test, Sleep
    <3>3. CASE ReadOne \/ ReadEnd
      BY <3>3 DEF ReadOne, ReadEnd, Finished, Begin
    <3>4. CASE CheckTemp \/ ShutOne \/ ShutEnd
      BY <3>4 DEF CheckTemp, ShutOne, ShutEnd, Finished, Begin, Done
    <3>5. QED
      BY <1>3, <3>1, <3>2, <3>3, <3>4 DEF Cycle
  <2>2. QED
    BY <2>1
<1>4. CASE OnOne \/ OnEnd \/ OffOne \/ OffEnd \/ ChangeSwitch
  BY <1>4 DEF OnOne, OnEnd, OffOne, OffEnd, ChangeSwitch, Finished, Begin, Done
<1>5. CASE ChangeVolts
  <2>1. PICK below \in Below(com1) :
          job' = [chan  |-> com1,
                  how   |-> IF onoff[com1] # 1 THEN "down"
                            ELSE IF com1 \in TwoPhase /\ below THEN "up"
                            ELSE "stay",
                  clear |-> com1 \in reset]
    BY <1>5 DEF ChangeVolts
  <2>2. /\ job'.chan = com1
        /\ job'.how = "down" => onoff[com1] # 1
        /\ job'.how = "up" => com1 \in TwoPhase
    BY <2>1
  <2>3. onoff' = onoff /\ com1 \in Chans
    BY <1>5 DEF ChangeVolts, shm
  <2>4. QED
    BY <2>2, <2>3
<1>6. ASSUME NEW r \in Readers, Reader(r)
      PROVE  /\ job'.how = "up" => job'.chan \in TwoPhase
             /\ job'.how = "down" /\ job'.chan \notin excused'
                   => onoff'[job'.chan] = 0
  <2>1. pc' = pc /\ job' = job
    BY <1>6 DEF Reader, Command, AskChange, Edit, SendChange, EndAll, local
  <2>2. excused \subseteq excused'
    BY <1>6 DEF Reader, Command, AskChange, Edit, SendChange, EndAll
  <2>3. SUFFICES ASSUME job.how = "down", job.chan \notin excused'
                 PROVE  onoff'[job.chan] = 0
    BY <2>1 DEF ChangeSure
  <2>4. onoff[job.chan] = 0
    BY <2>1, <2>2, <2>3 DEF ChangeSure
  <2>5. CASE onoff' = onoff
    BY <2>4, <2>5
  <2>6. CASE Edit(r) /\ onoff' # onoff
    <3>1. /\ onoff' = [onoff EXCEPT ![rpc[r]] = 1 - @]
          /\ excused' = IF pc = "change" /\ job.chan = rpc[r]
                      THEN excused \cup {rpc[r]} ELSE excused
      BY <2>6 DEF Edit
    <3>2. job.chan # rpc[r]
      BY <2>1, <2>3, <3>1
    <3>3. QED
      BY <2>4, <3>1, <3>2
  <2>7. onoff' = onoff \/ Edit(r)
    BY <1>6 DEF Reader, Command, AskChange, SendChange, EndAll, shm
  <2>8. QED
    BY <2>5, <2>6, <2>7
<1>7. CASE Stop \/ ChangeNone \/ Restart
  BY <1>7 DEF Stop, ChangeNone, Halt, Restart, Begin
<1>8. CASE Kelvin
  BY <1>8 DEF Kelvin, shm, local, ChangeSure
<1>9. ASSUME NEW c \in Chans, Ramp(c)
      PROVE  ChangeSure'
  BY <1>9 DEF Ramp, shm, local, ChangeSure
<1>10. QED
  BY <1>1, <1>2, <1>3, <1>4, <1>5, <1>6, <1>7, <1>8, <1>9
     DEF Next, Daemon, Orders, ChangeSure

(* No step of hvmon turns a germanium channel on over a bad temperature. *)
LEMMA GeStep ==
    ASSUME TypeOK, ChangeSure, [Next]_vars,
           NEW c \in Ge \ excused, switch[c] = 0, switch'[c] = 1
    PROVE  hot = {}
<1> USE DEF TypeOK
<1>1. c \in Chans /\ c \notin TwoPhase
  BY DEF Ge
<1>2. switch' # switch
  OBVIOUS
<1>3. CASE ConfLine
  <2>1. PICK e \in todo :
          \/ ConfSame(e)
          \/ switch[e] # ConfState(e) /\ (ConfTwoPhase(e) \/ ConfGe(e))
    BY <1>3 DEF ConfLine
  <2>2. CASE ConfSame(e)
    BY <1>2, <2>2 DEF ConfSame
  <2>3. CASE ConfTwoPhase(e)
    <3>1. e # c
      BY <1>1, <2>3 DEF ConfTwoPhase
    <3>2. \E v : switch' = [switch EXCEPT ![e] = v]
      BY <2>3, Zenon DEF ConfTwoPhase, Phase1
    <3>3. QED
      BY <1>1, <3>1, <3>2
  <2>4. CASE ConfGe(e)
    <3>1. SUFFICES ASSUME hot # {} PROVE FALSE
      OBVIOUS
    <3>2. CASE Letter[e] \notin hot
      BY <2>4, <3>1, <3>2 DEF ConfGe
    <3>3. CASE Letter[e] \in hot
      BY <2>4, <3>1, <3>3 DEF ConfGe
    <3>4. QED
      BY <3>2, <3>3
  <2>5. QED
    BY <2>1, <2>2, <2>3, <2>4
<1>4. CASE RampAll
  <2>1. PICK e \in todo :
          IF e \in TwoPhase THEN RampOne(e)
                            ELSE UNCHANGED <<switch, target, again>>
    BY <1>4 DEF RampAll
  <2>2. e # c
    BY <1>1, <1>2, <2>1
  <2>3. \E v : switch' = [switch EXCEPT ![e] = v]
    BY <1>2, <2>1, Zenon DEF RampOne, Phase2
  <2>4. QED
    BY <1>1, <2>2, <2>3
<1>5. CASE ShutOne
  BY <1>1, <1>5 DEF ShutOne
<1>6. CASE OnOne
  <2>1. PICK e \in todo :
          \/ e \in TwoPhase /\ Phase1(e)
          \/ UNCHANGED switch
    BY <1>6 DEF OnOne
  <2>2. e # c /\ Phase1(e)
    BY <1>1, <1>2, <2>1
  <2>3. switch'[c] = switch[c]
    BY <2>2 DEF Phase1
  <2>4. QED
    BY <2>3
<1>7. CASE OffOne
  <2>1. PICK e \in todo : switch' = [switch EXCEPT ![e] = 0]
    BY <1>2, <1>7 DEF OffOne
  <2>2. QED
    BY <1>1, <2>1
<1>8. CASE ChangeSwitch
  <2> DEFINE new == IF job.clear THEN 0
                    ELSE IF job.how = "stay" THEN switch[job.chan]
                    ELSE onoff[job.chan]
  <2>1. switch' = [switch EXCEPT ![job.chan] = new]
    BY <1>8 DEF ChangeSwitch
  <2>2. new = 1 /\ job.chan = c
    <3> HIDE DEF new
    <3>1. QED
      BY <1>1, <2>1
  <2>3. onoff[c] = 1 /\ job.how # "stay"
    BY <2>2
  <2>4. job.how \in {"up", "down"}
    <3>1. job \in Jobs
      OBVIOUS
    <3>2. job.how \in {"up", "stay", "down"}
      BY <3>1, SMT DEF Jobs
    <3>3. QED
      BY <2>3, <3>2
  <2>5. QED
    BY <1>1, <1>8, <2>2, <2>3, <2>4 DEF ChangeSure, ChangeSwitch
<1>9. CASE UNCHANGED switch
  BY <1>2, <1>9
<1>10. CASE UNCHANGED vars
  BY <1>9, <1>10 DEF vars, crate
<1>11. CASE ConfEnd \/ RampEnd \/ Test \/ Switch \/ Sleep \/ ReadOne \/ ReadEnd
            \/ CheckTemp \/ ShutEnd \/ OnEnd \/ OffEnd \/ ChangeVolts
  BY <1>9, <1>11 DEF ConfEnd, RampEnd, Test, Switch, Sleep, ReadOne, ReadEnd,
                     CheckTemp, ShutEnd, OnEnd, OffEnd, ChangeVolts, crate
<1>12. CASE \/ Stop \/ ChangeNone \/ Restart \/ Kelvin
            \/ \E e \in Chans : Ramp(e)
  BY <1>9, <1>12 DEF Stop, ChangeNone, Halt, Restart, Kelvin, Ramp, crate
<1>13. CASE \E r \in Readers : Reader(r)
  BY <1>9, <1>13 DEF Reader, Command, AskChange, Edit, SendChange, EndAll, crate
<1>14. QED
  BY <1>3, <1>4, <1>5, <1>6, <1>7, <1>8, <1>10, <1>11, <1>12, <1>13
     DEF Next, Daemon, Conf, Cycle, Orders

(* No germanium channel is turned on while a thermometer is not good,      *)
(* stops and restarts of hvmon included, unless the switch of a channel is *)
(* edited while changeParam() has it.                                      *)
THEOREM OnOnlyWhenGood == Spec => GeOnlyWhenGood
<1>1. Init => TypeOK /\ ChangeSure
  BY TypeInit DEF Init, ChangeSure
<1>2. TypeOK /\ ChangeSure /\ [Next]_vars => (TypeOK /\ ChangeSure)'
  BY TypeStep, SureStep
<1>3. TypeOK /\ ChangeSure /\ [Next]_vars
        => [\A c \in Ge \ excused : switch[c] = 0 /\ switch'[c] = 1
                                      => hot = {}]_vars
  BY GeStep
<1>4. QED
  BY <1>1, <1>2, <1>3, PTL DEF Spec, GeOnlyWhenGood

-----------------------------------------------------------------------------
(* The two-phase ramp, also of an hvmon that is stopped and run again.     *)

(* Outside changeParam() and readConf() only TwoPhaseRamp is left to show. *)
LEMMA Elsewhere ==
    ASSUME pc' \notin {"change", "conf", "stopped"}, TwoPhaseRamp'
    PROVE  (ChangeFull /\ ConfSafe /\ TwoPhaseRamp)'
BY DEF ChangeFull, ConfSafe, Unread

(* A step that leaves the crate alone. *)
LEMMA QuietStep ==
    ASSUME RampInv, pc # "change", excused \subseteq excused', UNCHANGED crate
    PROVE  TwoPhaseRamp'
BY DEF RampInv, TwoPhaseRamp, Exempt, crate

(* A step that turns channels off, or sends one to 50 V. *)
LEMMA LowStep ==
    ASSUME TypeOK, RampInv, pc # "change", UNCHANGED <<volt, excused>>,
           NEW c \in Chans,
           \A e \in TwoPhase \ {c} :
               switch'[e] = switch[e] /\ target'[e] = target[e],
           c \in TwoPhase /\ ~Exempt(c) => \/ switch'[c] = 0
                                           \/ target'[c] # Full
                                           \/ volt[c] >= Low
                                           \/ UNCHANGED <<switch, target>>
    PROVE  TwoPhaseRamp'
<1>1. SUFFICES ASSUME NEW e \in TwoPhase, ~Exempt(e),
                      switch'[e] = 1, target'[e] = Full
               PROVE  volt[e] >= Low
  BY DEF TwoPhaseRamp, Exempt
<1>2. CASE e # c \/ UNCHANGED <<switch, target>>
  BY <1>1, <1>2 DEF RampInv, TwoPhaseRamp
<1>3. CASE e = c /\ ~UNCHANGED <<switch, target>>
  BY <1>1, <1>3
<1>4. QED
  BY <1>2, <1>3

LEMMA RampConf ==
    ASSUME TypeOK, RampInv, Conf
    PROVE  (ChangeFull /\ ConfSafe /\ TwoPhaseRamp)'
<1> USE DEF TypeOK
<1>1. CASE ConfLine
  <2>1. PICK c \in todo :
          /\ todo' = todo \ {c}
          /\ \/ ConfSame(c)
             \/ switch[c] # ConfState(c) /\ (ConfTwoPhase(c) \/ ConfGe(c))
    BY <1>1 DEF ConfLine
  <2>2. /\ c \in Chans /\ pc = "conf" /\ pc' = "conf"
        /\ UNCHANGED <<volt, excused>>
    BY <1>1 DEF ConfLine
  <2>3. \A e \in Chans \ {c} : switch'[e] = switch[e] /\ target'[e] = target[e]
    <3>1. CASE ConfSame(c)
      BY <3>1, <2>2 DEF ConfSame
    <3>2. CASE ConfTwoPhase(c)
      <4>1. CASE ConfState(c) = 1
        BY <3>2, <4>1, <2>2 DEF ConfTwoPhase, Phase1
      <4>2. CASE ConfState(c) # 1
        BY <3>2, <4>2, <2>2 DEF ConfTwoPhase
      <4>3. QED
        BY <4>1, <4>2
    <3>3. CASE ConfGe(c)
      BY <3>3, <2>2 DEF ConfGe
    <3>4. QED
      BY <2>1, <3>1, <3>2, <3>3
  <2>4. ASSUME c \in TwoPhase, ~Exempt(c)
        PROVE  switch'[c] = 0 \/ target'[c] # Full \/ volt[c] >= Low
    <3>1. switch[c] = 0 \/ volt[c] >= Low
      BY <2>1, <2>2, <2>4 DEF RampInv, ConfSafe, Unread
    <3>2. CASE ConfSame(c)
      BY <3>1, <3>2 DEF ConfSame
    <3>3. CASE ConfTwoPhase(c)
      <4>1. CASE ConfState(c) = 1
        BY <3>3, <4>1, <2>2 DEF ConfTwoPhase, Phase1, Low, Full
      <4>2. CASE ConfState(c) # 1
        BY <3>3, <4>2, <2>2 DEF ConfTwoPhase
      <4>3. QED
        BY <4>1, <4>2
    <3>4. CASE ConfGe(c)
      BY <2>4, <3>4 DEF ConfGe, Ge
    <3>5. QED
      BY <2>1, <3>2, <3>3, <3>4
  <2>5. TwoPhaseRamp'
    BY <2>2, <2>3, <2>4, LowStep, Constants
  <2>6. ConfSafe'
    BY <2>1, <2>2, <2>3, Constants DEF RampInv, ConfSafe, Unread, Exempt
  <2>7. QED
    BY <2>2, <2>5, <2>6 DEF ChangeFull
<1>2. CASE ConfEnd \/ RampEnd
  <2>1. pc \in {"conf", "ramp"} /\ pc' \in {"ramp", "test"} /\ UNCHANGED crate
        /\ excused' = excused
    BY <1>2 DEF ConfEnd, RampEnd, Finished, Begin, Done
  <2>2. QED
    BY <2>1, QuietStep, Elsewhere
<1>3. CASE RampAll
  <2>1. PICK c \in todo : IF c \in TwoPhase THEN RampOne(c)
                          ELSE UNCHANGED <<switch, target, again>>
    BY <1>3 DEF RampAll
  <2>2. /\ c \in Chans /\ pc = "ramp" /\ pc' = "ramp"
        /\ UNCHANGED <<volt, excused>>
    BY <1>3 DEF RampAll
  <2>3. CASE UNCHANGED <<switch, target>>
    BY <2>2, <2>3, LowStep, Elsewhere
  <2>4. CASE Near(c) /\ Phase2(c)
    <3>1. ~Exempt(c) => volt[c] >= Low
      BY <2>4 DEF Near, Low, Exempt
    <3>2. \A e \in Chans \ {c} :
            switch'[e] = switch[e] /\ target'[e] = target[e]
      BY <2>2, <2>4 DEF Phase2
    <3>3. QED
      BY <2>2, <3>1, <3>2, LowStep, Elsewhere, Constants
  <2>5. QED
    BY <2>1, <2>3, <2>4 DEF RampOne
<1>4. QED
  BY <1>1, <1>2, <1>3 DEF Conf

LEMMA RampCycle ==
    ASSUME TypeOK, RampInv, Cycle
    PROVE  (ChangeFull /\ ConfSafe /\ TwoPhaseRamp)'
<1> USE DEF TypeOK
<1>1. CASE Test \/ Sleep \/ ReadOne \/ ReadEnd \/ CheckTemp \/ ShutEnd
  <2>1. pc # "change" /\ pc' \notin {"change", "conf", "stopped"}
    BY <1>1 DEF Test, Sleep, ReadOne, ReadEnd, CheckTemp, ShutEnd,
                Finished, Begin, Done
  <2>2. UNCHANGED crate /\ excused' = excused
    BY <1>1 DEF Test, Sleep, ReadOne, ReadEnd, CheckTemp, ShutEnd
  <2>3. QED
    BY <2>1, <2>2, QuietStep, Elsewhere
<1>2. CASE Switch
  <2>1. pc = "switch" /\ UNCHANGED crate /\ excused' = excused
    BY <1>2 DEF Switch
  <2>2. pc' \notin {"change", "conf", "stopped"}
    <3>1. CASE com0 \in {2, 3, 4, 5}
      BY <1>2, <3>1 DEF Switch, Begin
    <3>2. CASE com0 \notin {2, 3, 4, 5}
      BY <1>2, <3>2 DEF Switch, Begin
    <3>3. QED
      BY <3>1, <3>2
  <2>3. QED
    BY <2>1, <2>2, QuietStep, Elsewhere
<1>3. CASE ShutOne
  <2>1. PICK t \in todo :
          switch' = [c \in Chans |-> IF c \in {e \in Ge : Letter[e] = t} THEN 0
                                     ELSE switch[c]]
    BY <1>3 DEF ShutOne
  <2>2. pc = "shut" /\ pc' = "shut" /\ UNCHANGED <<target, volt, excused>>
    BY <1>3 DEF ShutOne
  <2>3. \A c \in TwoPhase : switch'[c] = switch[c]
    BY <2>1, Constants
  <2>4. TwoPhaseRamp'
    BY <2>2, <2>3 DEF RampInv, TwoPhaseRamp, Exempt
  <2>5. QED
    BY <2>2, <2>4, Elsewhere
<1>4. QED
  BY <1>1, <1>2, <1>3 DEF Cycle

(* What readConf() finds is excused or in order. *)
LEMMA RampHalt ==
    ASSUME TypeOK, Halt
    PROVE  (ChangeFull /\ ConfSafe /\ TwoPhaseRamp)'
<1>1. /\ UNCHANGED <<switch, target, volt>> /\ pc' = "stopped"
      /\ excused' = excused \cup Unsettled
  BY DEF Halt, crate
<1>2. ASSUME NEW c \in TwoPhase, ~Exempt(c)', switch[c] = 1
      PROVE  volt[c] >= Low /\ target[c] >= Low
  <2>1. ~(volt[c] < Low \/ target[c] < Low)
    BY <1>1, <1>2 DEF Exempt, Unsettled
  <2>2. volt[c] \in 0..2 /\ target[c] \in 0..2
    BY Constants DEF TypeOK, Volts, Full
  <2>3. QED
    BY <2>1, <2>2 DEF Low
<1>3. QED
  BY <1>1, <1>2 DEF ConfSafe, TwoPhaseRamp, ChangeFull

LEMMA RampOrders ==
    ASSUME TypeOK, ChangeSure, RampInv, Orders
    PROVE  (ChangeFull /\ ConfSafe /\ TwoPhaseRamp)'
<1> USE DEF TypeOK
<1>1. CASE OnOne
  <2>1. PICK c \in todo : Phase1(c) \/ UNCHANGED <<switch, target>>
    BY <1>1 DEF OnOne
  <2>2. /\ c \in Chans /\ pc = "on" /\ pc' = "on"
        /\ UNCHANGED <<volt, excused>>
    BY <1>1 DEF OnOne
  <2>3. CASE UNCHANGED <<switch, target>>
    BY <2>2, <2>3, LowStep, Elsewhere
  <2>4. CASE Phase1(c)
    <3>1. \A e \in Chans \ {c} :
            switch'[e] = switch[e] /\ target'[e] = target[e]
      BY <2>2, <2>4 DEF Phase1
    <3>2. target'[c] # Full
      BY <2>2, <2>4 DEF Phase1, Low, Full
    <3>3. QED
      BY <2>2, <3>1, <3>2, LowStep, Elsewhere, Constants
  <2>5. QED
    BY <2>1, <2>3, <2>4
<1>2. CASE OnEnd \/ OffEnd
  <2>1. pc \in {"on", "off"} /\ pc' \in {"ramp", "test"} /\ UNCHANGED crate
        /\ excused' = excused
    BY <1>2 DEF OnEnd, OffEnd, Finished, Begin, Done
  <2>2. QED
    BY <2>1, QuietStep, Elsewhere
<1>3. CASE OffOne
  <2>1. PICK c \in todo : \/ switch' = [switch EXCEPT ![c] = 0]
                          \/ UNCHANGED switch
    BY <1>3 DEF OffOne
  <2>2. /\ c \in Chans /\ pc = "off" /\ pc' = "off"
        /\ UNCHANGED <<target, volt, excused>>
    BY <1>3 DEF OffOne
  <2>3. \A e \in Chans : switch'[e] = switch[e] \/ switch'[e] = 0
    BY <2>1, <2>2
  <2>4. TwoPhaseRamp'
    BY <2>2, <2>3, Constants DEF RampInv, TwoPhaseRamp, Exempt
  <2>5. QED
    BY <2>2, <2>4, Elsewhere
<1>4. CASE ChangeVolts
  <2>1. PICK below \in Below(com1) :
          job' = [chan  |-> com1,
                  how   |-> IF onoff[com1] # 1 THEN "down"
                            ELSE IF com1 \in TwoPhase /\ below THEN "up"
                            ELSE "stay",
                  clear |-> com1 \in reset]
    BY <1>4 DEF ChangeVolts
  <2>2. /\ pc = "switch" /\ pc' = "change" /\ UNCHANGED <<switch, volt, excused>>
        /\ target' = [target EXCEPT ![com1] = vSet[com1]]
    BY <1>4 DEF ChangeVolts
  <2>3. /\ job'.chan = com1
        /\ job'.how = "stay" /\ com1 \in TwoPhase => ~below
    BY <2>1
  <2>4. ~below => volt[com1] >= Low
    <3>1. volt[com1] \in 0..2
      BY <1>4 DEF ChangeVolts, Volts, Full
    <3>2. below \in BOOLEAN /\ (volt[com1] = 0 => below)
      BY DEF Below
    <3>3. QED
      BY <3>1, <3>2 DEF Low
  <2>5. ChangeFull'
    BY <2>2, <2>3, <2>4 DEF ChangeFull
  <2>6. TwoPhaseRamp'
    <3>1. SUFFICES ASSUME NEW c \in TwoPhase, ~Exempt(c), switch[c] = 1,
                          target'[c] = Full, c # com1
                   PROVE  volt[c] >= Low
      BY <2>2, <2>3 DEF TwoPhaseRamp, Exempt
    <3>2. target[c] = Full
      BY <2>2, <3>1
    <3>3. QED
      BY <2>2, <3>1, <3>2 DEF RampInv, TwoPhaseRamp
  <2>7. QED
    BY <2>2, <2>5, <2>6 DEF ConfSafe, Unread
<1>5. CASE ChangeSwitch
  <2> DEFINE c   == job.chan
             new == IF job.clear THEN 0
                    ELSE IF job.how = "stay" THEN switch[c] ELSE onoff[c]
  <2>1. /\ target' = IF job.how = "up" THEN [target EXCEPT ![c] = Low]
                                       ELSE target
        /\ switch' = [switch EXCEPT ![c] = new]
    BY <1>5 DEF ChangeSwitch
  <2>2. /\ pc = "change" /\ pc' = "test" /\ UNCHANGED <<volt, excused>>
    BY <1>5 DEF ChangeSwitch, Done
  <2>3. job.how \in {"up", "stay", "down"} /\ c \in Chans
    <3>1. job \in Jobs
      OBVIOUS
    <3>2. QED
      BY <3>1, SMT DEF Jobs
  <2>4. SUFFICES ASSUME NEW e \in TwoPhase, ~Exempt(e),
                        switch'[e] = 1, target'[e] = Full
                 PROVE  volt[e] >= Low
    BY <2>2, Elsewhere DEF TwoPhaseRamp, Exempt
  <2>5. CASE e # c
    <3>1. switch[e] = 1 /\ target[e] = Full
      <4>1. switch'[e] = switch[e]
        <5> HIDE DEF new
        <5>1. QED
          BY <2>1, <2>5
      <4>2. target' = target \/ target' = [target EXCEPT ![c] = Low]
        BY <2>1
      <4>3. target'[e] = target[e]
        BY <2>5, <4>2, Constants
      <4>4. QED
        BY <2>4, <4>1, <4>3
    <3>2. QED
      BY <2>4, <2>5, <3>1 DEF RampInv, TwoPhaseRamp
  <2>6. CASE e = c
    <3>1. new = 1
      <4> HIDE DEF new
      <4>1. QED
        BY <2>1, <2>3, <2>4, <2>6
    <3>2. job.how # "up"
      <4>1. SUFFICES ASSUME job.how = "up" PROVE FALSE
        OBVIOUS
      <4>2. target' = [target EXCEPT ![c] = Low]
        BY <2>1, <4>1
      <4>3. target'[c] = Low
        BY <2>3, <4>2
      <4>4. QED
        BY <2>4, <2>6, <4>3 DEF Low, Full
    <3>3. job.how # "down"
      BY <2>2, <2>4, <2>6, <3>1 DEF ChangeSure, Exempt
    <3>4. job.how = "stay" /\ target[c] = Full /\ switch[c] = 1
      BY <2>1, <2>3, <2>4, <2>6, <3>1, <3>2, <3>3
    <3>5. QED
      BY <2>2, <2>4, <2>6, <3>4 DEF RampInv, ChangeFull
  <2>7. QED
    BY <2>5, <2>6
<1>6. CASE ChangeNone
  BY <1>6, RampHalt DEF ChangeNone
<1>7. QED
  BY <1>1, <1>2, <1>3, <1>4, <1>5, <1>6 DEF Orders

(* The crate moves towards the target, and does not leave 50 V for less if *)
(* the target is 50 V at least.                                            *)
LEMMA RampVolt ==
    ASSUME TypeOK, RampInv, NEW c \in Chans, Ramp(c)
    PROVE  (ChangeFull /\ ConfSafe /\ TwoPhaseRamp)'
<1>1. UNCHANGED <<switch, target, pc, todo, job, excused>>
  BY DEF Ramp, local
<1>2. ASSUME NEW e \in Chans, switch[e] = 1, target[e] >= Low, volt[e] >= Low
      PROVE  volt'[e] >= Low
  <2>1. CASE e # c
    BY <1>2, <2>1 DEF Ramp, TypeOK
  <2>2. CASE e = c
    <3>1. target[c] \in 1..2
      BY <1>2, <2>2 DEF TypeOK, Volts, Low, Full
    <3>2. Goal(c) \in 1..2
      BY <1>2, <2>2, <3>1 DEF Goal
    <3>3. volt[c] \in 1..2 /\ volt[c] # Goal(c)
      BY <1>2, <2>2 DEF TypeOK, Volts, Full, Low, Ramp
    <3>4. volt'[c] = IF volt[c] < Goal(c) THEN volt[c] + 1 ELSE volt[c] - 1
      BY SMT DEF Ramp, TypeOK
    <3>5. QED
      BY <2>2, <3>2, <3>3, <3>4, SMT DEF Low
  <2>3. QED
    BY <2>1, <2>2
<1>3. ChangeFull'
  <2>1. SUFFICES ASSUME pc = "change", job.how = "stay", job.chan \in TwoPhase,
                        switch[job.chan] = 1, target[job.chan] = Full
                 PROVE  volt'[job.chan] >= Low
    BY <1>1 DEF ChangeFull
  <2>2. volt[job.chan] >= Low
    BY <2>1 DEF RampInv, ChangeFull
  <2>3. job.chan \in Chans
    BY <2>1, Constants
  <2>4. target[job.chan] >= Low
    BY <2>1 DEF Low, Full
  <2>5. QED
    BY <1>2, <2>1, <2>2, <2>3, <2>4
<1>4. TwoPhaseRamp'
  BY <1>1, <1>2, Constants DEF RampInv, TwoPhaseRamp, Exempt, Low, Full
<1>5. ConfSafe'
  BY <1>1, <1>2, Constants DEF RampInv, ConfSafe, Unread, Exempt
<1>6. QED
  BY <1>3, <1>4, <1>5

LEMMA RampStep ==
    ASSUME TypeOK, RampInv, [Next]_vars
    PROVE  RampInv'
<1>1. ChangeSure /\ ChangeSure'
  BY SureStep DEF RampInv
<1>2. CASE /\ UNCHANGED <<switch, target, volt, pc, todo, job>>
           /\ excused \subseteq excused'
  BY <1>1, <1>2 DEF RampInv, ChangeFull, ConfSafe, Unread, TwoPhaseRamp, Exempt
<1>3. CASE \E r \in Readers : Reader(r)
  BY <1>2, <1>3 DEF Reader, Command, AskChange, Edit, SendChange, EndAll,
                    crate, local
<1>4. CASE UNCHANGED vars
  BY <1>2, <1>4 DEF vars, crate, local
<1>5. CASE Kelvin
  BY <1>2, <1>5 DEF Kelvin, crate, local
<1>6. CASE Daemon \/ \E c \in Chans : Ramp(c)
  BY <1>1, <1>6, RampConf, RampCycle, RampOrders, RampVolt DEF Daemon, RampInv
<1>7. CASE Stop
  BY <1>1, <1>7, RampHalt DEF Stop, RampInv
<1>8. CASE Restart
  <2>1. /\ UNCHANGED <<switch, target, volt, excused>>
        /\ pc = "stopped" /\ pc' = "conf"
    BY <1>8 DEF Restart, Begin, crate
  <2>2. ConfSafe' /\ TwoPhaseRamp'
    BY <2>1 DEF RampInv, ConfSafe, Unread, TwoPhaseRamp, Exempt
  <2>3. QED
    BY <1>1, <2>1, <2>2 DEF RampInv, ChangeFull
<1>9. QED
  BY <1>3, <1>4, <1>5, <1>6, <1>7, <1>8 DEF Next

(* RampInv holds throughout every run, stops and restarts of hvmon         *)
(* included: the sequence of changeParam(), the table of a readConf() and  *)
(* the crate agree on every two-phase channel that is not excused, for any *)
(* number of channels, menu programs and edits.                            *)
THEOREM RampSure == Spec => []RampInv
<1>1. Init => TypeOK /\ RampInv
  <2>1. SUFFICES ASSUME Init PROVE RampInv
    BY TypeInit
  <2>2. \A c \in Chans : switch[c] = 0 /\ Unread(c)
    BY <2>1 DEF Init, Unread
  <2>3. QED
    BY <2>1, <2>2, Constants DEF Init, RampInv, ChangeSure, ChangeFull,
                                 ConfSafe, TwoPhaseRamp
<1>2. TypeOK /\ RampInv /\ [Next]_vars => (TypeOK /\ RampInv)'
  BY TypeStep, RampStep
<1>3. QED
  BY <1>1, <1>2, PTL DEF Spec

(* A two-phase channel that is on heads for more than 50 V only once it    *)
(* has been there, however often hvmon is stopped and run again.           *)
THEOREM TwoPhaseFirst == Spec => []TwoPhaseRamp
<1>1. RampInv => TwoPhaseRamp
  BY DEF RampInv
<1>2. QED
  BY <1>1, RampSure, PTL

-----------------------------------------------------------------------------
(* HvMon implements HvTwoPhase, for each two-phase channel.  RampInv after *)
(* a step says almost all of where the step may have led: only for the end *)
(* of a change and for the crate it matters which step it was.             *)

StateRead(c) ==
    /\ c \in Chans
    /\ switch[c] \in {0, 1} /\ target[c] \in 0..2 /\ volt[c] \in 0..2
    /\ State(c) \in {"off", "under", "low", "sent", "full"}
    /\ State(c) = "off"  <=> switch[c] = 0
    /\ State(c) = "under" <=> switch[c] = 1 /\ target[c] = 0
    /\ State(c) = "low"  <=> switch[c] = 1 /\ target[c] = Low
    /\ State(c) = "sent" <=> switch[c] = 1 /\ target[c] = Full /\ Sent(c)
    /\ State(c) = "full" <=> switch[c] = 1 /\ target[c] = Full /\ ~Sent(c)

LEMMA StateOf ==
    ASSUME NEW c \in TwoPhase
    PROVE  TypeOK => StateRead(c)
<1>1. SUFFICES ASSUME TypeOK PROVE StateRead(c)
  OBVIOUS
<1>2. c \in Chans
  BY Constants
<1>3. switch[c] \in {0, 1} /\ target[c] \in 0..2 /\ volt[c] \in 0..2
  BY <1>1, <1>2 DEF TypeOK, Volts, Full
<1>4. QED
  BY <1>2, <1>3 DEF State, StateRead, Low, Full

LEMMA StateNext ==
    ASSUME NEW c \in TwoPhase
    PROVE  TypeOK' => StateRead(c)'
BY StateOf, PTL

Sinking == {"off", "under", "low"}
USE DEF Sinking

(* What is sent is a step of HvTwoPhase. *)
LEMMA TPSet ==
    ASSUME NEW c \in TwoPhase, UNCHANGED <<volt, excused>>,
           \/ State(c)' \in {State(c), "off", "under", "low"}
           \/ State(c) # "off" /\ State(c)' = "sent"
           \/ State(c) \in Sinking /\ volt[c] >= Low /\ State(c)' = "full"
           \/ Exempt(c) /\ State(c)' = "full"
    PROVE  [TP(c)!Next]_(TP(c)!vars)
<1>1. volt'[c] = volt[c] /\ Exempt(c)' = Exempt(c)
  BY DEF Exempt
<1>2. CASE State(c)' = State(c)
  BY <1>1, <1>2 DEF TP!vars
<1>3. CASE /\ State(c)' # State(c)
           /\ TP(c)!TurnOff \/ TP(c)!Lower \/ TP(c)!Send \/ TP(c)!Raise
              \/ TP(c)!Exempt
  <2>1. TP(c)!Set
    BY <1>1, <1>3 DEF TP!Set
  <2>2. QED
    BY <2>1 DEF TP!Next
<1>4. CASE State(c)' \in Sinking
  BY <1>2, <1>3, <1>4 DEF TP!TurnOff, TP!Lower
<1>5. CASE State(c) # "off" /\ State(c)' = "sent"
  BY <1>2, <1>3, <1>5 DEF TP!Send
<1>6. CASE State(c) \in Sinking /\ volt[c] >= Low /\ State(c)' = "full"
  BY <1>2, <1>3, <1>6 DEF TP!Raise, TP!Low, Low
<1>7. CASE Exempt(c) /\ State(c)' = "full"
  BY <1>2, <1>3, <1>7 DEF TP!Exempt, TP!States
<1>8. QED
  BY <1>2, <1>4, <1>5, <1>6, <1>7

(* Nothing happens to the channel, but that its switch may be edited. *)
LEMMA TPQuiet ==
    ASSUME NEW c \in TwoPhase, UNCHANGED <<switch, target, volt, pc, job>>,
           excused \subseteq excused'
    PROVE  [TP(c)!Next]_(TP(c)!vars)
<1>1. State(c)' = State(c)
  BY DEF State, Sent
<1>2. Exempt(c)' = Exempt(c) \/ Exempt(c)' = TRUE
  BY DEF Exempt
<1>3. QED
  BY <1>1, <1>2 DEF TP!Next, TP!vars, TP!Excuse

(* hvmon ends, in the middle of a change of the channel or not. *)
LEMMA TPHalt ==
    ASSUME TypeOK, NEW c \in TwoPhase, Halt
    PROVE  [TP(c)!Next]_(TP(c)!vars)
<1>1. /\ UNCHANGED crate /\ pc' = "stopped"
      /\ excused' = excused \cup Unsettled
  BY DEF Halt
<1>2. volt' = volt /\ switch' = switch /\ target' = target /\ ~Sent(c)'
  BY <1>1 DEF crate, Sent
<1>3. State(c)' = IF State(c) = "sent" THEN "full" ELSE State(c)
  BY <1>2 DEF State
<1>4. Exempt(c)' = Exempt(c) \/ Exempt(c)' = TRUE
  BY <1>1 DEF Exempt
<1>5. CASE Exempt(c)' = TRUE
  BY <1>2, <1>3, <1>5 DEF TP!Next, TP!Excuse
<1>6. CASE Exempt(c)' = Exempt(c) /\ State(c) # "sent"
  BY <1>2, <1>3, <1>6 DEF TP!vars
<1>7. CASE Exempt(c)' = Exempt(c) /\ ~Exempt(c)' /\ State(c) = "sent"
  <2>1. volt[c] \in 0..2 /\ switch[c] = 1
    BY <1>7, StateOf DEF StateRead
  <2>2. ~(volt[c] < Low)
    BY <1>1, <1>7, <2>1 DEF Exempt, Unsettled
  <2>3. volt[c] >= 1
    BY <2>1, <2>2 DEF Low
  <2>4. TP(c)!Raise
    BY <1>3, <1>7, <2>3 DEF TP!Raise, TP!Low
  <2>5. QED
    BY <1>2, <1>7, <2>4 DEF TP!Set, TP!Next
<1>8. QED
  BY <1>4, <1>5, <1>6, <1>7 DEF Exempt

(* Before a change and outside it, RampInv' leaves the channel no other    *)
(* way to its full voltage; a change begins with the voltage.              *)
LEMMA TPStep ==
    ASSUME TypeOK, TypeOK', RampInv', NEW c \in TwoPhase,
           pc # "change", UNCHANGED <<volt, excused>>,
           pc' = "change" => switch' = switch
    PROVE  [TP(c)!Next]_(TP(c)!vars)
<1>1. State(c) \in Sinking \cup {"full"}
  BY StateOf DEF StateRead, Sent
<1>2. CASE State(c)' \in Sinking
  BY <1>2, TPSet
<1>3. CASE State(c)' = "sent"
  <2>1. switch'[c] = 1 /\ pc' = "change"
    BY <1>3, StateNext DEF StateRead, Sent
  <2>2. State(c) # "off"
    BY <2>1, StateOf DEF StateRead
  <2>3. QED
    BY <1>3, <2>2, TPSet
<1>4. CASE State(c)' = "full"
  <2>1. switch'[c] = 1 /\ target'[c] = Full /\ ~Sent(c)'
    BY <1>4, StateNext DEF StateRead
  <2>2. pc' = "change" /\ job'.chan = c => job'.how = "stay"
    BY <2>1 DEF Sent
  <2>3. Exempt(c) \/ volt[c] >= Low
    BY <2>1, <2>2 DEF RampInv, TwoPhaseRamp, ChangeFull, Exempt
  <2>4. QED
    BY <1>1, <1>4, <2>3, TPSet
<1>5. QED
  BY <1>2, <1>3, <1>4 DEF State

(* The end of a change: what was sent is taken back or turned off. *)
LEMMA TPChange ==
    ASSUME TypeOK, TypeOK', RampInv, RampInv', NEW c \in TwoPhase, ChangeSwitch
    PROVE  [TP(c)!Next]_(TP(c)!vars)
<1>1. pc = "change" /\ pc' = "test" /\ UNCHANGED <<volt, excused>>
  BY DEF ChangeSwitch, Done
<1>2. State(c)' \in Sinking \cup {"full"}
  BY <1>1 DEF State, Sent
<1>3. CASE State(c)' \in Sinking
  BY <1>1, <1>3, TPSet
<1>4. CASE State(c)' = "full" /\ State(c) = "sent"
  <2>1. /\ c \in Chans /\ job.chan = c /\ job.how # "stay"
    BY <1>4, StateOf DEF StateRead, Sent
  <2>2. switch'[c] = 1 /\ target'[c] = Full
    BY <1>4, StateNext DEF StateRead
  <2>3. job.how \in {"up", "down"} /\ switch'[c] = onoff[c]
    BY <2>1, <2>2 DEF ChangeSwitch, TypeOK, Jobs
  <2>4. job.how # "up"
    BY <2>1, <2>2 DEF ChangeSwitch, TypeOK, Low, Full
  <2>5. onoff[c] = 1 /\ job.how = "down"
    BY <2>2, <2>3, <2>4
  <2>6. Exempt(c)
    BY <1>1, <2>1, <2>5 DEF RampInv, ChangeSure, Exempt
  <2>7. QED
    BY <1>1, <1>4, <2>6, TPSet
<1>5. CASE State(c)' = "full" /\ State(c) # "sent"
  <2>1. switch'[c] = 1 /\ target'[c] = Full
    BY <1>5, StateNext DEF StateRead
  <2>2. Exempt(c) \/ volt[c] >= Low
    BY <1>1, <2>1 DEF RampInv, TwoPhaseRamp, Exempt
  <2>3. State(c) \in Sinking \cup {"full"}
    BY <1>5, StateOf DEF StateRead
  <2>4. QED
    BY <1>1, <1>5, <2>2, <2>3, TPSet
<1>6. QED
  BY <1>2, <1>3, <1>4, <1>5

(* The crate: its voltage goes where HvTwoPhase says. *)
LEMMA TPRamp ==
    ASSUME TypeOK, RampInv, NEW c \in TwoPhase, NEW e \in Chans, Ramp(e)
    PROVE  [TP(c)!Next]_(TP(c)!vars)
<1>1. /\ UNCHANGED <<switch, target, pc, job, excused>>
      /\ volt[e] # Goal(e)
      /\ volt' = [volt EXCEPT ![e] = IF @ < Goal(e) THEN @ + 1 ELSE @ - 1]
  BY DEF Ramp, local
<1>2. State(c)' = State(c) /\ Exempt(c)' = Exempt(c)
  BY <1>1 DEF State, Sent, Exempt
<1>3. StateRead(c)
  BY StateOf
<1>4. CASE e # c
  <2>1. volt'[c] = volt[c]
    BY <1>1, <1>3, <1>4 DEF TypeOK
  <2>2. QED
    BY <1>2, <2>1 DEF TP!vars
<1>5. CASE e = c
  <2>1. Goal(c) = TP(c)!Goal
    <3>1. CASE switch[c] = 0
      BY <1>3, <3>1 DEF Goal, TP!Goal, StateRead
    <3>2. CASE switch[c] = 1 /\ target[c] # Full
      <4>1. CASE target[c] = 0
        BY <1>3, <3>2, <4>1 DEF Goal, TP!Goal, StateRead
      <4>2. CASE target[c] = 1
        BY <1>3, <3>2, <4>2 DEF Goal, TP!Goal, TP!Low, StateRead, Low
      <4>3. QED
        BY <1>3, <3>2, <4>1, <4>2 DEF StateRead, Full
    <3>3. CASE switch[c] = 1 /\ target[c] = Full
      <4>1. State(c) \in {"sent", "full"}
        BY <1>3, <3>3 DEF StateRead
      <4>2. QED
        BY <3>3, <4>1 DEF Goal, TP!Goal, TP!Full, Full
    <3>4. QED
      BY <1>3, <3>1, <3>2, <3>3 DEF StateRead
  <2>2. volt'[c] = IF volt[c] < TP(c)!Goal THEN volt[c] + 1 ELSE volt[c] - 1
    BY <1>1, <1>3, <1>5, <2>1 DEF TypeOK, StateRead
  <2>3. volt[c] # TP(c)!Goal
    BY <1>1, <1>5, <2>1
  <2>4. TP(c)!Near
    BY <1>2, <2>2, <2>3 DEF TP!Near
  <2>5. QED
    BY <2>4 DEF TP!Next
<1>6. QED
  BY <1>4, <1>5

LEMMA TPNext ==
    ASSUME TypeOK, TypeOK', RampInv, RampInv', NEW c \in TwoPhase,
           [Next]_vars
    PROVE  [TP(c)!Next]_(TP(c)!vars)
<1>1. CASE \/ Kelvin \/ UNCHANGED vars
           \/ \E r \in Readers : Reader(r)
  BY <1>1, TPQuiet DEF Kelvin, Reader, Command, AskChange, Edit, SendChange,
                       EndAll, vars, crate, local
<1>2. CASE \E e \in Chans : Ramp(e)
  BY <1>2, TPRamp
<1>3. CASE ChangeSwitch
  BY <1>3, TPChange
<1>4. CASE Conf \/ Cycle \/ (Orders /\ ~ChangeSwitch /\ ~ChangeNone)
  <2>1. pc # "change" /\ UNCHANGED <<volt, excused>>
    BY <1>4 DEF Conf, ConfLine, ConfEnd, RampAll, RampEnd,
                Cycle, Test, Switch, Sleep, ReadOne, ReadEnd, CheckTemp,
                ShutOne, ShutEnd,
                Orders, OnOne, OnEnd, OffOne, OffEnd, ChangeVolts,
                Finished, crate
  <2>2. pc' = "change" => switch' = switch
    <3>1. CASE Conf
      BY <3>1 DEF Conf, ConfLine, ConfEnd, RampAll, RampEnd, Begin, Done
    <3>2. CASE Cycle
      BY <3>2 DEF Cycle, Test, Switch, Sleep, ReadOne, ReadEnd, CheckTemp,
                  ShutOne, ShutEnd, Begin, Done, crate
    <3>3. CASE Orders /\ ~ChangeSwitch /\ ~ChangeNone
      BY <3>3 DEF Orders, OnOne, OnEnd, OffOne, OffEnd, ChangeVolts, Begin, Done
    <3>4. QED
      BY <1>4, <3>1, <3>2, <3>3
  <2>3. QED
    BY <2>1, <2>2, TPStep
<1>5. CASE Stop \/ ChangeNone
  BY <1>5, TPHalt DEF Stop, ChangeNone
<1>6. CASE Restart
  <2>1. pc = "stopped" /\ pc' = "conf" /\ UNCHANGED <<switch, volt, excused>>
    BY <1>6 DEF Restart, Begin, crate
  <2>2. QED
    BY <2>1, TPStep
<1>7. QED
  BY <1>1, <1>2, <1>3, <1>4, <1>5, <1>6 DEF Next, Daemon

(* Each two-phase channel behaves as HvTwoPhase: whatever commands, edits, *)
(* readings, ramps, stops and restarts come in which order, for every      *)
(* configuration and any number of menu programs.                          *)
THEOREM ImplementsTwoPhase == Spec => TwoPhaseImpl
<1>1. Init => \A c \in TwoPhase : TP(c)!Init
  <2>1. SUFFICES ASSUME Init, NEW c \in TwoPhase PROVE TP(c)!Init
    OBVIOUS
  <2>2. switch[c] = 0 /\ volt[c] = 0
    BY <2>1, Constants DEF Init
  <2>3. Exempt(c) \in BOOLEAN
    BY DEF Exempt
  <2>4. QED
    BY <2>2, <2>3 DEF TP!Init, State
<1>2. TypeOK /\ TypeOK' /\ RampInv /\ RampInv' /\ [Next]_vars
         => \A c \in TwoPhase : [TP(c)!Next]_(TP(c)!vars)
  BY TPNext
<1>3. QED
  BY <1>1, <1>2, TypeCorrect, RampSure, PTL DEF Spec, TwoPhaseImpl

=============================================================================
