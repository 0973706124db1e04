------------------------------- MODULE Kelvin -------------------------------
(***************************************************************************)
(* The thermometer daemon (kelvin/src/kelvin-u3-shm.c), its menu programs  *)
(* (kelvin-read-shm.c), the segment they share, and the program that       *)
(* relies on it: hvmon, which ends and shuts down high voltage when a      *)
(* temperature it finds there is over its limit (hvmon.mpod-shm.c; what it *)
(* does to the crate is in HvMon).                                         *)
(*                                                                         *)
(* Any program creates the segment if its key names none, and hvmon        *)
(* removes it when it ends; who is attached then keeps the old one, and    *)
(* who attaches next gets a new one.  Segments are numbered in the order   *)
(* of their creation.                                                      *)
(*                                                                         *)
(* Time is counted in ticks; a step of a program takes less than one, and  *)
(* so do its sleeps of a few seconds.  What hvmon does without looking at  *)
(* a temperature, its configuration, its commands and the ramps in both,   *)
(* is the state "busy", which lasts for any time.  SIGALRM wakes kelvin if *)
(* it sleeps, kills it if its handler is not yet set, and is lost at any   *)
(* other time.  One temperature stands for all.  Left out, each because    *)
(* kelvin reads none of it: com2 and the loggers that watch it, com3, the  *)
(* clock data and the 10*degree of the data acquisition.  No user answers  *)
(* item 3 with an interval of 0, with which kelvin never sleeps.           *)
(***************************************************************************)
EXTENDS Integers

CONSTANTS
    Interval,   (* kelvin's interval, INTERVAL, in ticks                    *)
    Longest,    (* the longest interval users answer to item 3, in ticks    *)
    HvPeriod,   (* hvmon's own INTERVAL between two checks, in ticks        *)
    Old,        (* the age of a reading is not counted beyond this          *)
    MaxSeg,     (* segments created at most                                 *)
    Readers,    (* the menu programs                                        *)
    Ops,        (* the menu items their users choose                        *)
    MayFail     (* the LabJack may fail, here once for all                  *)

ASSUME KelvinAssumption ==
    /\ Longest \in Nat
    /\ Interval \in 1..Longest
    /\ HvPeriod \in Nat \ {0}
    /\ Old \in Nat
    /\ Old > Longest
    /\ MaxSeg \in Nat \ {0}
    /\ MayFail \in BOOLEAN

VARIABLES
    (* the segments *)
    key,        (* the one the key names, 0 if none                         *)
    made,       (* how many were created                                    *)
    (* struct thermometer, of each segment *)
    pid,        (* 0; the pid of the running kelvin; or of one that ended   *)
    com1, interval,
    degree,     (* "none" while maxchan is 0, "good" below the limit, "hot" *)
    (* kelvin *)
    kpc, kat,   (* where it is, and the segment it is attached to           *)
    left,       (* ticks of its sleep that are left, -1 if it never ends    *)
    unread,     (* auxiliary: it sleeps, or goes to, without having read    *)
    age,        (* auxiliary: ticks since its last reading                  *)
    (* the detectors and the LabJack *)
    warm,       (* the temperature is over its limit                        *)
    usb,        (* the LabJack answers                                      *)
    (* hvmon *)
    hpc, hat, hleft,
    (* the menu programs and the loggers *)
    rpc, rat,
    exposed     (* auxiliary: ticks that the temperature has been over its  *)
                (* limit with kelvin and hvmon there to see it, those not   *)
                (* counted in which hvmon was busy                          *)

names  == <<key, made>>
slots  == <<pid, com1, interval>>
kelvin == <<kpc, kat, left, unread>>
reading == <<degree, age>>
world  == <<warm, usb>>
hv     == <<hpc, hat, hleft>>
menus  == <<rpc, rat>>
vars   == <<names, slots, reading, kelvin, world, hv, menus, exposed>>

Segs    == 1..MaxSeg
Looping == {"test", "switch", "nap", "sleep"}
Answers == {-1} \cup 1..Longest      (* -1: what is no number, scan2int() *)

Init ==
    /\ key = 0 /\ made = 0
    /\ pid = [s \in Segs |-> "none"]
    /\ com1 = [s \in Segs |-> 0]
    /\ interval = [s \in Segs |-> 0]
    /\ degree = [s \in Segs |-> "none"]
    /\ kpc = "off" /\ kat = 0 /\ left = 0 /\ unread = FALSE /\ age = 0
    /\ warm \in BOOLEAN /\ usb = TRUE
    /\ hpc = "off" /\ hat = 0 /\ hleft = 0
    /\ rpc = [r \in Readers |-> "off"] /\ rat = [r \in Readers |-> 0]
    /\ exposed = 0

(* ftok(), shmget() with IPC_CREAT, shmat(): s is the segment of the key,  *)
(* or a new one, all 0.                                                    *)
Attach(s) ==
    /\ s \in Segs
    /\ \/ key # 0 /\ s = key /\ UNCHANGED made
       \/ key = 0 /\ s = made + 1 /\ made' = s
    /\ key' = s

(* tempCKF(): when eAIN() fails it returns 0, which is below every limit. *)
Read == IF warm /\ usb THEN "hot" ELSE "good"

(* kelvin is gone, and its pid the pid of no program. *)
Gone == /\ kpc' = "off" /\ kat' = 0 /\ left' = 0 /\ unread' = FALSE /\ age' = 0
        /\ pid' = [s \in Segs |-> IF pid[s] = "kelvin" THEN "old" ELSE pid[s]]

(* kill(degptr->pid, SIGALRM) by a program attached to s. *)
Signal(s) ==
    CASE pid[s] = "kelvin" /\ kpc = "sleep" ->
            kpc' = "test" /\ left' = 0 /\ UNCHANGED <<kat, unread, age, pid>>
      [] pid[s] = "kelvin" /\ kpc = "handler" -> Gone
      [] OTHER -> UNCHANGED <<kelvin, age, pid>>

-----------------------------------------------------------------------------
(* kelvin.                                                                 *)

KStart ==                                                   (* shmSetup() *)
    /\ kpc = "off"
    /\ \E s \in Segs : Attach(s) /\ kat' = s
    /\ kpc' = "conf"
    /\ UNCHANGED <<slots, reading, left, unread, world, hv, menus>>

(* readConf(): limits, maxchan and a first reading of every thermometer;   *)
(* then the pid.                                                           *)
RekeyedConf ==        (* mutant: it writes the segment the key names by now *)
    /\ kpc = "conf"
    /\ degree' = [degree EXCEPT ![key] = Read]
    /\ age' = 0
    /\ pid' = [pid EXCEPT ![kat] = "kelvin"]
    /\ kpc' = "handler"
    /\ UNCHANGED <<names, com1, interval, kat, left, unread, world, hv, menus>>
KConf ==
    /\ kpc = "conf"
    /\ degree' = [degree EXCEPT ![kat] = Read]
    /\ age' = 0
    /\ pid' = [pid EXCEPT ![kat] = "kelvin"]
    /\ kpc' = "handler"
    /\ UNCHANGED <<names, com1, interval, kat, left, unread, world, hv, menus>>

(* sigaction(), and what the loop begins with. *)
KReady ==
    /\ kpc = "handler"
    /\ interval' = [interval EXCEPT ![kat] = Interval]
    /\ com1' = [com1 EXCEPT ![kat] = 2]
    /\ kpc' = "test"
    /\ UNCHANGED <<names, pid, reading, kat, left, unread, world, hv, menus>>

(* while(degptr->com1 != -1) *)
KTest ==
    /\ kpc = "test"
    /\ IF com1[kat] = -1 THEN Gone
       ELSE kpc' = "switch" /\ UNCHANGED <<pid, kat, left, unread, age>>
    /\ UNCHANGED <<names, com1, interval, degree, world, hv, menus>>

(* switch ( degptr->com1 ): 2 is a reading; 3, and whatever else it finds, *)
(* the -1 included that came after the while test, becomes 2.              *)
StickySwitch ==              (* mutant: 3 stays, and nothing is read again *)
    /\ kpc = "switch"
    /\ IF com1[kat] = 2
       THEN /\ degree' = [degree EXCEPT ![kat] = Read]
            /\ age' = 0
            /\ unread' = FALSE
            /\ UNCHANGED com1
       ELSE /\ com1' = [com1 EXCEPT ![kat] = IF @ = 3 THEN 3 ELSE 2]
            /\ UNCHANGED <<degree, age, unread>>
    /\ kpc' = "nap"
    /\ UNCHANGED <<names, pid, interval, kat, left, world, hv, menus>>
KSwitch ==
    /\ kpc = "switch"
    /\ IF com1[kat] = 2
       THEN /\ degree' = [degree EXCEPT ![kat] = Read]
            /\ age' = 0
            /\ unread' = FALSE
            /\ UNCHANGED com1
       ELSE /\ com1' = [com1 EXCEPT ![kat] = 2]
            /\ unread' = TRUE
            /\ UNCHANGED <<degree, age>>
    /\ kpc' = "nap"
    /\ UNCHANGED <<names, pid, interval, kat, left, world, hv, menus>>

(* sleep (degptr->interval) *)
KSleep ==
    /\ kpc = "nap"
    /\ left' = interval[kat]
    /\ kpc' = "sleep"
    /\ UNCHANGED <<names, slots, reading, kat, unread, world, hv, menus>>

KWake ==
    /\ kpc = "sleep" /\ left = 0
    /\ kpc' = "test"
    /\ UNCHANGED <<names, slots, reading, kat, left, unread, world, hv, menus>>

(* kelvin is stopped, anywhere. *)
KDie ==
    /\ kpc # "off"
    /\ Gone
    /\ UNCHANGED <<names, com1, interval, degree, world, hv, menus>>

-----------------------------------------------------------------------------
(* hvmon.                                                                  *)

(* openTherm() is the first that readConf() does; the lines of hvmon.conf, *)
(* with an SNMP request or more for each setting of a channel, and the two *)
(* phases of the ramp follow.                                              *)
HStart ==
    /\ hpc = "off"
    /\ \E s \in Segs : Attach(s) /\ hat' = s
    /\ hpc' = "busy"
    /\ UNCHANGED <<slots, reading, kelvin, world, hleft, menus>>

(* com0 is 2 then, as it is after commands 4, 5 and 16. *)
HReady ==
    /\ hpc = "busy"
    /\ hpc' = "check"
    /\ UNCHANGED <<names, slots, reading, kelvin, world, hat, hleft, menus>>

(* The end of main(): the segment is removed, whoever is attached to it. *)
HEnd ==
    /\ hpc' = "off" /\ hat' = 0 /\ hleft' = 0
    /\ key' = IF hat = key THEN 0 ELSE key

(* checkTemp(): no thermometers are all good thermometers. *)
HCheck ==
    /\ hpc = "check"
    /\ IF degree[hat] = "hot" THEN HEnd
       ELSE hpc' = "sleep" /\ hleft' = HvPeriod /\ UNCHANGED <<hat, key>>
    /\ UNCHANGED <<made, slots, reading, kelvin, world, menus>>

(* The end of the sleep, or a menu program that cuts it short: hvmon       *)
(* checks, or it is busy before that, with commands 4, 5 and 16, with any  *)
(* number of these, or with sleeping once more (for an item 100 that came  *)
(* between its while test and its switch, which makes a 2 of it).          *)
HWake ==
    /\ hpc = "sleep"
    /\ hpc' \in {"check", "busy"} /\ hleft' = 0
    /\ UNCHANGED <<names, slots, reading, kelvin, world, hat, menus>>

(* hvmon's command 3: kelvin is asked for a reading, two seconds later     *)
(* what is in the segment is checked.  Kelvin needs less than those.  The  *)
(* "lost" only records that the signal did not find kelvin asleep.         *)
HAsk ==
    /\ hpc \in {"sleep", "busy"}
    /\ com1' = [com1 EXCEPT ![hat] = 2]
    /\ hpc' = "kick" /\ hleft' = 0
    /\ UNCHANGED <<names, pid, interval, reading, kelvin, world, hat, menus>>

HKick ==
    /\ hpc = "kick"
    /\ Signal(hat)
    /\ hpc' = IF pid[hat] = "kelvin" /\ kpc = "sleep" THEN "wait" ELSE "lost"
    /\ UNCHANGED <<names, com1, interval, degree, world, hat, hleft, menus>>

HWaited ==
    /\ hpc \in {"wait", "lost"}
    /\ kpc = "sleep" => left # 0
    /\ kpc \in {"off", "sleep"}
    /\ hpc' = "check"
    /\ UNCHANGED <<names, slots, reading, kelvin, world, hat, hleft, menus>>

(* hvmon is told to end (item 100 of its own menu). *)
HStop ==
    /\ hpc \in {"sleep", "busy"}
    /\ HEnd
    /\ UNCHANGED <<made, slots, reading, kelvin, world, menus>>

(* It is stopped anywhere, or dies: the segment stays. *)
HDie ==
    /\ hpc # "off"
    /\ hpc' = "off" /\ hat' = 0 /\ hleft' = 0
    /\ UNCHANGED <<names, slots, reading, kelvin, world, menus>>

-----------------------------------------------------------------------------
(* The menu programs.                                                      *)

RStart(r) ==
    /\ rpc[r] = "off"
    /\ \E s \in Segs : Attach(s) /\ rat' = [rat EXCEPT ![r] = s]
    /\ rpc' = [rpc EXCEPT ![r] = "menu"]
    /\ UNCHANGED <<slots, reading, kelvin, world, hv>>

(* An item that writes the segment and then calls kill(). *)
Item(r, n, then) ==
    /\ rpc[r] = "menu" /\ n \in Ops
    /\ rpc' = [rpc EXCEPT ![r] = then]
    /\ UNCHANGED <<names, pid, reading, kelvin, world, hv, rat>>

AskRead(r) ==                                                   (* item 2 *)
    /\ Item(r, 2, "kill")
    /\ com1' = [com1 EXCEPT ![rat[r]] = 2]
    /\ UNCHANGED interval

SwappedAsk(r) ==                  (* mutant: each written to the other's slot *)
    /\ Item(r, 3, "kill")
    /\ \E n \in Answers : com1' = [com1 EXCEPT ![rat[r]] = n]
    /\ interval' = [interval EXCEPT ![rat[r]] = 3]
AskInterval(r) ==                                               (* item 3 *)
    /\ Item(r, 3, "kill")
    /\ \E n \in Answers : interval' = [interval EXCEPT ![rat[r]] = n]
    /\ com1' = [com1 EXCEPT ![rat[r]] = 3]

AskEnd(r) ==                                                  (* item 100 *)
    /\ Item(r, 100, "last")
    /\ com1' = [com1 EXCEPT ![rat[r]] = -1]
    /\ UNCHANGED interval

(* With a pid of 0 kill() signals the menu program itself, which has no    *)
(* handler.                                                                *)
RKill(r) ==
    /\ rpc[r] \in {"kill", "last"}
    /\ Signal(rat[r])
    /\ IF rpc[r] = "last" \/ pid[rat[r]] = "none"
       THEN /\ rpc' = [rpc EXCEPT ![r] = "off"]
            /\ rat' = [rat EXCEPT ![r] = 0]
       ELSE rpc' = [rpc EXCEPT ![r] = "menu"] /\ UNCHANGED rat
    /\ UNCHANGED <<names, com1, interval, degree, world, hv>>

REnd(r) ==                                                      (* item 0 *)
    /\ rpc[r] = "menu"
    /\ rpc' = [rpc EXCEPT ![r] = "off"]
    /\ rat' = [rat EXCEPT ![r] = 0]
    /\ UNCHANGED <<names, slots, reading, kelvin, world, hv>>

-----------------------------------------------------------------------------
(* The world, and time.                                                    *)

Weather ==
    /\ warm' = ~warm
    /\ UNCHANGED <<names, slots, reading, kelvin, usb, hv, menus>>

(* eAIN() fails and tempCKF() closes the LabJack. *)
UsbFail ==
    /\ MayFail /\ usb
    /\ usb' = FALSE
    /\ UNCHANGED <<names, slots, reading, kelvin, warm, hv, menus>>

(* Kelvin and hvmon have done what takes less than a tick. *)
Tick ==
    /\ kpc \in {"off", "sleep"} /\ (kpc = "sleep" => left # 0)
    /\ hpc \in {"off", "busy", "sleep"} /\ (hpc = "sleep" => hleft # 0)
    /\ left' = IF left > 0 THEN left - 1 ELSE left
    /\ hleft' = IF hleft > 0 THEN hleft - 1 ELSE hleft
    /\ age' = IF age < Old THEN age + 1 ELSE Old
    /\ UNCHANGED <<names, slots, degree, kpc, kat, unread, world, hpc,
                   hat, menus>>

(* The high temperature is there to be seen: kelvin loops, its last sleep  *)
(* began with a reading and ends, its LabJack answers, and hvmon runs and  *)
(* is attached to the same segment.                                        *)
Watched ==
    /\ warm /\ usb
    /\ kpc \in Looping /\ ~unread /\ left # -1
    /\ hpc # "off" /\ hat = kat

(* The auxiliary count of ticks: it does not go on while hvmon is busy. *)
Count(tick) ==
    exposed' = IF ~Watched' THEN 0
               ELSE IF hpc' = "busy" THEN exposed ELSE exposed + tick

KelvinStep == \/ KStart \/ KConf \/ KReady
              \/ KTest \/ KSwitch \/ KSleep \/ KWake \/ KDie
HvStep == \/ HStart \/ HReady \/ HCheck \/ HWake \/ HAsk \/ HKick \/ HWaited
          \/ HStop \/ HDie
Reader(r) == \/ RStart(r) \/ AskRead(r) \/ AskInterval(r) \/ AskEnd(r)
             \/ RKill(r) \/ REnd(r)

Steps == \/ KelvinStep \/ HvStep
         \/ \E r \in Readers : Reader(r)
         \/ Weather \/ UsbFail
Next == (Steps /\ Count(0)) \/ (Tick /\ Count(1))

Spec == Init /\ [][Next]_vars

-----------------------------------------------------------------------------
(* Properties.                                                             *)

TypeOK ==
    /\ key \in 0..made /\ made \in 0..MaxSeg
    /\ pid \in [Segs -> {"none", "kelvin", "old"}]
    /\ com1 \in [Segs -> {-1, 0, 2, 3}]
    /\ interval \in [Segs -> {0} \cup Answers]
    /\ degree \in [Segs -> {"none", "good", "hot"}]
    /\ age \in 0..Old
    /\ kpc \in {"off", "conf", "handler"} \cup Looping
    /\ kat \in IF kpc = "off" THEN {0} ELSE Segs
    /\ left \in Answers \cup {0}
    /\ unread \in BOOLEAN /\ warm \in BOOLEAN /\ usb \in BOOLEAN
    /\ hpc \in {"off", "busy", "check", "sleep", "kick", "wait", "lost"}
    /\ hat \in IF hpc = "off" THEN {0} ELSE Segs
    /\ hleft \in 0..HvPeriod
    /\ rpc \in [Readers -> {"off", "menu", "kill", "last"}]
    /\ rat \in [Readers -> 0..MaxSeg]
    /\ \A r \in Readers : rat[r] = 0 <=> rpc[r] = "off"
    /\ exposed \in Nat

(* The interlock has a deadline: a temperature over its limit that kelvin  *)
(* and hvmon are there to see has ended hvmon after the longest interval   *)
(* and one period of hvmon, however the requests of menu programs and of   *)
(* hvmon, their signals, lost ones included, and the changes of the        *)
(* interval interleave.  The time hvmon is busy comes on top of these: it  *)
(* configures, carries out commands and ramps without looking at any       *)
(* temperature, and a ramp may last for ever (RampEnds of HvMon).          *)
ShutInTime == exposed <= Longest + HvPeriod

(* hvmon asks kelvin for a reading and checks what is there two seconds    *)
(* later: if the signal found kelvin asleep, that is a new reading, in the *)
(* segment hvmon is attached to (which a kelvin that died and was started  *)
(* again meanwhile found by its key), unless a menu program has changed    *)
(* the interval in between.                                                *)
AskedIsNew == hpc = "wait" /\ kpc = "sleep" =>
                  kat = hat /\ (age = 0 \/ unread)

(* An hvmon and a kelvin that run on different segments, because one that  *)
(* ended removed the first: hvmon finds no thermometers at all, never      *)
(* temperatures that nobody writes any more.                               *)
NoStaleSegment == hpc # "off" /\ kpc # "off" /\ kat # hat => degree[hat] = "none"

(* What keeps them (Kelvin_proofs).  A good reading is no younger than the  *)
(* exposure, kelvin sleeps no longer than an interval allows, and the      *)
(* exposure fits in an interval and what hvmon has slept since it checked. *)
LoopSure ==
    /\ kpc \in Looping => interval[kat] # 0
    /\ kpc = "nap" /\ ~unread => age = 0
    /\ kpc # "sleep" => left = 0
    /\ kpc = "sleep" /\ ~unread /\ left # -1 => age + left <= Longest
SeenSure ==
    /\ ~Watched => exposed = 0
    /\ Watched /\ degree[kat] # "hot" => exposed <= age /\ exposed <= Longest
    /\ Watched => exposed <= Longest + HvPeriod - hleft
FreshSure == hpc = "wait" /\ kpc = "sleep" => age = 0 \/ unread
IInv == TypeOK /\ LoopSure /\ SeenSure /\ FreshSure

(* The key names the last segment made; hvmon stays attached to it, kelvin *)
(* may stay behind, and only the kelvin that runs has its pid in a segment.*)
(* Of the segments made after kelvin's none has been written.              *)
SegSure ==
    /\ key \in {0, made} /\ kat <= made
    /\ hpc # "off" => hat = key
    /\ hpc = "wait" /\ kpc # "off" => kat = hat
    /\ \A s \in Segs : pid[s] = "kelvin" => kpc \notin {"off", "conf"} /\ s = kat
    /\ \A s \in Segs : s > made \/ (kpc # "off" /\ s > kat) => degree[s] = "none"

=============================================================================
