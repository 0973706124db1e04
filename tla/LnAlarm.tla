------------------------------- MODULE LnAlarm ------------------------------
(***************************************************************************)
(* The emergency shutdown of the LN daemon: while com2 is 1, a detector    *)
(* that a scan finds at or over its limit has its high voltage set to 0    *)
(* (updateRTD() and snmpShutdown() of lnfill-u6-shm.c).  com2 is switched  *)
(* by item 19 of the menu programs (lnfill-read-shm.c), and is also the    *)
(* slot by which the logger (lnfill-log-shm.c) is started and ended: 5     *)
(* while it logs, 6 after.                                                 *)
(*                                                                         *)
(* LnScan has a scan as one step; here it is one step per detector,        *)
(* because an snmpset takes as long as its user needs to answer.  What the *)
(* daemon does between scans is in LnFill and here only what it writes to  *)
(* the statuses.  Of a status only matters whether it is LONG or ALARM,    *)
(* the two that are "not written over"; a reading is one of LnScan's       *)
(* classes, and one channel stands for the up to four of a detector.  SNMP *)
(* requests succeed.  The logger shares the segment, so ../conf/lnfill.conf *)
(* and the include/lnfill.conf of the others are taken for one file.       *)
(***************************************************************************)
EXTENDS LnScan

CONSTANTS
    InitOn,     (* the detectors lnfill.conf turns on                       *)
    Readers,    (* the menu programs running                                *)
    Ops,        (* the menu items their users choose                        *)
    MayLog,     (* the logger is run                                        *)
    MayStop     (* the daemon may be ended and started again                *)

ASSUME AlarmAssumption ==
    /\ InitOn \subseteq Dets
    /\ MayLog \in BOOLEAN
    /\ MayStop \in BOOLEAN

VARIABLES
    (* struct lnfill, in shared memory *)
    com2,
    on,         (* detectors with onoff = 1                                 *)
    held,       (* detectors whose status is LONG or ALARM                  *)
    (* the detectors and the MPOD crate *)
    rtd,        (* the reading of a detector, now                           *)
    up,         (* detectors whose high voltage is not 0                    *)
    (* the daemon *)
    pc,         (* "scan", "shut" within it, "rest" after it                *)
    at,         (* the detector the scan is at, or ended at                 *)
    (* the menu programs and the logger *)
    rpc, lpc,
    due         (* auxiliary: detectors on, at their limit and armed ever   *)
                (* since the scan began, not brought up again meanwhile     *)

shm    == <<com2, on, held>>
world  == <<rtd, up>>
daemon == <<pc, at>>
vars   == <<shm, world, daemon, rpc, lpc, due>>

Armed == com2 = 1

Init ==
    /\ com2 = 0
    /\ on = InitOn
    /\ held = {}
    /\ rtd \in [Dets -> Readings]
    /\ up \in SUBSET Dets
    /\ pc = "rest" /\ at = NDet
    /\ rpc = [r \in Readers |-> "menu"]
    /\ lpc = "off"
    /\ due = {}

-----------------------------------------------------------------------------
(* updateRTD().                                                            *)

Call ==
    /\ pc = "rest"
    /\ pc' = "scan" /\ at' = 0
    /\ UNCHANGED <<shm, world, rpc, lpc>>

(* One detector.  Over the limit, com2 is looked at once.  Below it, a     *)
(* status that is LONG or ALARM is not written over: break.                *)
LatchedScanOne ==        (* mutant: a status that is held is tested first *)
    /\ pc = "scan" /\ at # NDet
    /\ CASE at \in on \cap held ->
              pc' = "rest" /\ UNCHANGED <<at, held>>
         [] at \in on \ held /\ rtd[at] = "hot" ->
              /\ held' = held \cup {at}
              /\ IF Armed THEN pc' = "shut" /\ UNCHANGED at
                          ELSE at' = at + 1 /\ UNCHANGED pc
         [] OTHER ->
              at' = at + 1 /\ held' = held /\ UNCHANGED pc
    /\ UNCHANGED <<com2, on, world, rpc, lpc>>
ScanOne ==
    /\ pc = "scan" /\ at # NDet
    /\ CASE at \in on /\ rtd[at] = "hot" ->
              /\ held' = held \cup {at}
              /\ IF Armed THEN pc' = "shut" /\ UNCHANGED at
                          ELSE at' = at + 1 /\ UNCHANGED pc
         [] at \in on /\ rtd[at] = "none" ->
              at' = at + 1 /\ held' = held \ {at} /\ UNCHANGED pc
         [] at \in on \cap held /\ rtd[at] = "cold" ->
              pc' = "rest" /\ UNCHANGED <<at, held>>
         [] OTHER ->
              at' = at + 1 /\ UNCHANGED <<pc, held>>
    /\ UNCHANGED <<com2, on, world, rpc, lpc>>

(* snmpShutdown(): outputVoltage 0, of whatever detector was found hot     *)
(* before, armed or not by now.                                            *)
Shut ==
    /\ pc = "shut"
    /\ up' = up \ {at}
    /\ pc' = "scan" /\ at' = at + 1
    /\ UNCHANGED <<shm, rtd, rpc, lpc>>

Return ==
    /\ pc = "scan" /\ at = NDet
    /\ pc' = "rest"
    /\ UNCHANGED <<shm, world, at, rpc, lpc>>

(* What fills and item 16 write to the status between two scans: FILL when *)
(* a valve is opened, OK when the detector is full, LONG when the fill     *)
(* took too long.                                                          *)
Fill ==
    /\ pc = "rest"
    /\ \E d \in Dets : held' \in {held \ {d}, held \cup {d}}
    /\ UNCHANGED <<com2, on, world, daemon, rpc, lpc>>

(* The daemon is started again: lnfill.conf says anew which detectors are  *)
(* on.  One that was stopped, anywhere, finds com2 and the statuses as     *)
(* they were.  One that was told to end did so between two scans and       *)
(* removed its segment: the next begins with one all 0, to which menu      *)
(* programs and the logger attach anew, while those of before write where  *)
(* nobody reads.                                                           *)
Restart ==
    /\ MayStop
    /\ on' = InitOn
    /\ pc' = "scan" /\ at' = 0
    /\ \/ UNCHANGED <<com2, held, rpc, lpc>>
       \/ /\ pc = "rest"
          /\ com2' = 0 /\ held' = {}
          /\ rpc' = [r \in Readers |-> "menu"] /\ lpc' = "off"
    /\ UNCHANGED world

-----------------------------------------------------------------------------
(* The menu programs.                                                      *)

Menu(r, item) == rpc[r] = "menu" /\ item \in Ops
Goto(r, where) == rpc' = [rpc EXCEPT ![r] = where]

(* Item 2, the on/off toggle; whom it lets turn on is in LnFill. *)
Toggle(r) ==
    /\ Menu(r, 2)
    /\ \E d \in Dets \ {0} : on' = IF d \in on THEN on \ {d} ELSE on \cup {d}
    /\ UNCHANGED <<com2, held, world, daemon, rpc, lpc>>

(* Item 18: every status becomes OK, or every one OFF. *)
ResetAlarms(r) ==
    /\ Menu(r, 18)
    /\ held' = {}
    /\ UNCHANGED <<com2, on, world, daemon, rpc, lpc>>

(* Item 19: com2 is read, the user is asked, com2 is written. *)
AskShutdown(r) ==
    /\ Menu(r, 19)
    /\ Goto(r, IF com2 = 0 THEN "on?" ELSE "off?")
    /\ UNCHANGED <<shm, world, daemon, lpc>>

FlipAnswer(r) ==                        (* mutant: com2 is flipped instead *)
    /\ rpc[r] \in {"on?", "off?"}
    /\ com2' \in {com2, 1 - com2}
    /\ Goto(r, "menu")
    /\ UNCHANGED <<on, held, world, daemon, lpc>>
Answer(r) ==
    /\ rpc[r] \in {"on?", "off?"}
    /\ com2' \in {com2, IF rpc[r] = "on?" THEN 1 ELSE 0}
    /\ Goto(r, "menu")
    /\ UNCHANGED <<on, held, world, daemon, lpc>>

-----------------------------------------------------------------------------
(* The logger: com2 = 5 disarms; what is not 5 any more ends it, and it    *)
(* leaves a 6, whatever com2 has become.                                   *)

LogStart ==
    /\ MayLog /\ lpc = "off"
    /\ com2' = 5 /\ lpc' = "log"
    /\ UNCHANGED <<on, held, world, daemon, rpc>>

LogLook ==
    /\ lpc = "log" /\ com2 # 5
    /\ lpc' = "end"
    /\ UNCHANGED <<shm, world, daemon, rpc>>

LogEnd ==
    /\ lpc = "end"
    /\ com2' = 6 /\ lpc' = "off"
    /\ UNCHANGED <<on, held, world, daemon, rpc>>

-----------------------------------------------------------------------------
(* A reading changes, or hvmon or a user gives a detector its voltage.     *)

Warm ==
    /\ \E d \in Dets, x \in Readings : rtd' = [rtd EXCEPT ![d] = x]
    /\ UNCHANGED <<shm, up, daemon, rpc, lpc>>

HvUp ==
    /\ \E d \in Dets \ up : up' = up \cup {d}
    /\ UNCHANGED <<shm, rtd, daemon, rpc, lpc>>

Daemon == Call \/ ScanOne \/ Shut \/ Return
Reader(r) == Toggle(r) \/ ResetAlarms(r) \/ AskShutdown(r) \/ Answer(r)
Logger == LogStart \/ LogLook \/ LogEnd
Others == \/ Fill \/ Restart \/ Logger \/ Warm \/ HvUp
          \/ \E r \in Readers : Reader(r)

(* The auxiliary set: begun when the scan begins, and reduced from then on.*)
Wanted == {d \in on : rtd[d] = "hot" /\ Armed}
Note   == due' = IF pc' = "scan" /\ at' = 0 /\ <<pc, at>> # <<pc, at>>'
                 THEN Wanted'
                 ELSE (due \cap Wanted') \ (up' \ up)

Next == (Daemon \/ Others) /\ Note

Spec == Init /\ [][Next]_vars

(* The daemon scans again and again: all its loops do, those of a fill     *)
(* included.  Nothing is assumed of anybody else.                          *)
FairSpec == Spec /\ WF_vars(Daemon /\ Note)

-----------------------------------------------------------------------------
(* Properties.                                                             *)

TypeOK ==
    /\ com2 \in {0, 1, 5, 6}
    /\ on \subseteq Dets /\ held \subseteq Dets /\ up \subseteq Dets
    /\ rtd \in [Dets -> Readings]
    /\ pc \in {"scan", "shut", "rest"}
    /\ at \in IF pc = "shut" THEN Dets ELSE 0..NDet
    /\ rpc \in [Readers -> {"menu", "on?", "off?"}]
    /\ lpc \in {"off", "log", "end"}
    /\ due \subseteq Dets

(* A scan has shut down every detector that was on, at its limit, and the  *)
(* shutdown armed, all the time since the scan began, whatever the menu    *)
(* programs, the logger and hvmon did meanwhile; but for those behind a    *)
(* detector the scan ended at, whose LONG or ALARM it did not write over.  *)
ScanShuts == pc = "rest" => \A d \in due : d \in up => at < d

(* A detector that stays at its limit, on and armed, is without voltage    *)
(* again and again, however often hvmon gives it voltage, unless scans end *)
(* at one before it, or the daemon is started again, again and again.      *)
AlarmShuts ==
    \A d \in Dets : <>[](d \in Wanted) =>
        []<>(d \notin up) \/ []<>(pc = "rest" /\ at < d) \/ []<><<Restart>>_vars

(* What keeps the first (LnAlarm_proofs). *)
IInv ==
    /\ TypeOK
    /\ due \subseteq Wanted
    /\ pc # "rest" => \A d \in due : d < at => d \notin up
    /\ pc = "rest" => at \notin due
    /\ ScanShuts

-----------------------------------------------------------------------------
(* What a comment says and the code does not do; checked by a run of its   *)
(* own that TLC ends with a counterexample.                                *)

(* "over limit issue HV shutdown command to MPOD" (updateRTD): armed, a    *)
(* detector that stays over its limit loses its voltage.  One that has     *)
(* been LONG or in ALARM and is cold again hides it from every scan.       *)
EveryAlarmShuts ==
    \A d \in Dets : <>[](d \in Wanted) => []<>(d \notin up)

=============================================================================
