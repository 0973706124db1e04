# TLA+ models of the DAQ_BRIKEN slow control

DAQ_BRIKEN is the slow control of a germanium and helium-3 detector array: C
programs that keep the germanium detectors cold with liquid nitrogen, keep
their high voltage under control, and read thermometers. Each family is one
daemon and a few small programs that share a System V segment with it: a menu
program writes a number into a *command slot* of the segment and may send
SIGALRM, the daemon finds the number in its loop, acts, and clears the slot.
There is no lock anywhere. The daemons' hardware (an iBootBar outlet strip, a
Wiener MPOD crate, LabJacks) is worked by shell commands whose answers are
parsed.

This directory holds TLA+ modules of these programs, TLC configurations,
proofs checked by TLAPS, and `PROJECT.json`, the index from definitions to
source lines.

## 1. The system

| Component | State it keeps | Operations | Status |
|---|---|---|---|
| LN daemon `LNfill/src/lnfill-u6-shm.c` | segment: `command`, `com1`, `com2`, table `ge[20]` (onoff, status, next, oflo, ...); on its stack: `active[]`, `actkk[]`, `mm`, `kk`; the outlets | main loop, `updateRTD`, `fillGe`, open/close of tank, manifold and detectors, `closeAllValves`, HV shutdown | `LnFill`, `LnScan`, `LnAlarm` |
| LN menu program `lnfill-read-shm.c` | none of its own | about 20 menu items that write the segment | `LnFill`, `LnAlarm` |
| LN logger `lnfill-log-shm.c` | a file | logs while `com2` is 5 | `LnAlarm` (what it does to `com2`) |
| HV daemon `hv-mpod/src/hvmon.mpod-shm.c` | segment: `com0`, `com1`, table `xx[1000]`; the crate | `readConf`, two-phase ramp, read, on, off, change, temperature interlock | `HvMon`, `HvShm` |
| HV menu program `hvmon-read-shm.c` | none of its own | items 0, 2-5, 11, 16, 18, 100 | `HvMon`, `HvShm` |
| Thermometer daemon `kelvin/src/kelvin-u3-shm.c` | segment: `com1..3`, `temps[]` | read all, sleep, woken by SIGALRM, quit | `Kelvin` |
| Thermometer menu program `kelvin-read-shm.c`, logger | - | force a reading, change the interval, end; log | `Kelvin` (without the logger) |
| Copies (`*-mmap.c`, `*-u3-*`, `old/`, `test/`), vendored drivers, data | - | - | not modelled |

How they interact: by the segments only. hvmon reads kelvin's segment (and
writes its `com1` and signals it on command 3); lnfill switches MPOD channels
off itself, by SNMP, when a detector is hot and the shutdown is armed.

What is hard about them, and what correctness means:

* **Menu programs interleave with everything.** A command may be replaced in
  the middle of opening valves; a menu item may test the slot, wait for its
  user, and write after a fill has begun. The fill's own bookkeeping must
  agree with the outlets all the same.
* **Loops that wait for hardware.** The cooling loop, the fill loop and the
  voltage ramp each must end, or be interruptible.
* **Order.** Nitrogen may flow to a detector only with the tank open and the
  manifold vent shut; a two-phase channel must stay at 50 V first.
* **Death and restart.** A missing answer of the outlet strip kills the daemon
  (a null pointer), which starts again on the segment and the valves as they
  are. hvmon is stopped with ctrl+C to change its configuration.
* **Readings that are old**, because a scan stopped early, because kelvin's sleep
  was changed, or because the signal that should wake it was lost.
* **Segments that are removed.** hvmon removes kelvin's segment when it ends,
  and its own menu programs remove hvmon's; programs attached to it stay there,
  the next ones get a new one. A program that is stopped leaves its segment
  behind, with its last command.
* **One slot for two purposes.** The LN logger starts and ends by `com2`, which
  also arms the emergency shutdown of the high voltage.

The hazards, each with its line and the properties that watch it, are listed
in `PROJECT.json`.

## 2. Modules

| Module | What it is |
|---|---|
| `LnScan` | one scan `updateRTD()` as operators: which detectors it reaches, statuses and overflow readings after it |
| `LnFill` | the LN daemon, its menu programs, the outlets, death and restart (EXTENDS `LnScan`) |
| `LnValves` | abstract specification: in which order a fill works its valves |
| `LnFill_proofs` | theorems about `LnFill` |
| `LnAlarm` | the scan detector by detector with the HV shutdown, `com2`, its menu items and the logger (EXTENDS `LnScan`) |
| `LnAlarm_proofs` | theorems about `LnAlarm` |
| `HvMon` | the HV daemon, its menu programs, the crate and kelvin's temperatures |
| `HvTwoPhase` | abstract specification: one two-phase channel |
| `HvMon_proofs` | theorems about `HvMon` |
| `HvShm` | how hvmon and its menu programs find, use and remove their segment |
| `HvShm_proofs` | theorems about `HvShm` |
| `Kelvin` | the thermometer daemon, its menu programs, the segments, and hvmon as it uses them |
| `Kelvin_proofs` | theorems about `Kelvin` |
| `MCLnFill`, `MCHvMon` | constants of the TLC runs |

### LnFill

`pc` is where the single-threaded daemon is; each action is the code between
two points at which it sleeps, waits for the outlet strip or looks at the
segment again. `FillDet`/`FillOver` are the two halves of one pass of the fill
loop for one detector (a `closeDet`, with its sleeps and its scan, lies in
each). `Finish` is the whole of "count down, close, scan, mark, status, next
fill". `Ack` is the `command=0` at the end of each case, `Due` the test that
turns an overdue detector into command 8. A request and the test of its answer
are one step, and so are a measurement and the request it leads to.
`Die` is a request whose answer is missing, at any outlet request, `Restart`
the next start. `Tick` is time: `next[d]` is ticks until the fill is due,
`elapsed` ticks in the fill loop. `twice` is history: the running fill has
counted a detector twice.

Of the menu programs, items 1, 2, 7-18, 61 and 100 are actions, two if the item
asks its user something after it has tested the slot. Of item 2's own menu
(`Params`) those that a fill depends on: the on/off toggle, with the limit on how
many are on (`AskToggle`, `Toggle`), and `SetInterval`, `SetMax`, `SetLimit`,
`SetNext`, all of which the daemon reads from the segment whenever it needs them.
Nobody checks most answers, so these are what the code lets through: item 7 may
name an entry behind the table (`Entries` has one more than `Dets`, which stands
for all of them; its memory is 0, so its outlet is the first one's, `Outlet`, and
one too far off kills the daemon, `DyingFar`), items 15 and 16 may send any
command. Item 2 edits entries 1 to `NDet`, since it takes the number for an index.
Not modelled: names, the minimum time and the RTD limit (nothing here reads the
first two, and a reading may be of any class), and the numbers of the LabJack
channels and of the outlet, items 11 to 13: a detector keeps its outlet, and what
becomes of a fill whose detector is given another one meanwhile is not said.

Data kept abstract: a detector's RTD is one of `cold`, `hot`, `none`, an
overflow reading is cold or not, and both are chosen anew in each scan.
The request loop to the strip ends with success or with the daemon's death (the
code also takes an outlet that is still pending for an open one). Left out
because no modelled action reads it: `com2` (see `LnAlarm`), pressure, bit
patterns, `last`, e-mail, display, saving.

`LnValves` is what a fill promises of its valves without table, commands or
readings; `LnFill` implements it with `phase` read off `pc` (`LV`, `ValveOrder`).

### LnAlarm

`updateRTD()` visits the detectors in order, and an `snmpset` for a hot one
takes as long as the crate needs. `LnFill` has the scan as one step; here
`ScanOne` is one detector, `Shut` the `snmpShutdown()` of one, `Return` the end.
In between menu programs toggle (item 2), reset the statuses (18) and arm or
disarm (19, two steps: `com2` is read before its user is asked), the logger
writes its 5 and 6 to `com2`, readings change, voltages come back. `Fill` is
what fills write to the statuses between scans, `Restart` the end of the daemon
and its next start: stopped anywhere, it finds `com2` and the statuses as they
were; told to end, which it does between two scans, it has removed the segment,
and the next begins with one all 0. `held` are the detectors in LONG or ALARM, the two
statuses a scan does not write over; a cold one of them ends the scan.

`due` is auxiliary: the detectors that have been on, hot and armed ever since
the scan began and whose voltage was not given anew. What the scan owes is
stated about it.

### Kelvin

kelvin: `KStart` (attach), `KConf` (`readConf` with its first reading, then its
pid), `KReady` (`sigaction` and what the loop begins with), `KTest`, `KSwitch`,
`KSleep`, `KWake`, `KDie`. hvmon: `HStart` (`openTherm`), `HReady` (the end of its
configuration or of a command), `HCheck` (`checkTemp` and the end over a bad
temperature), `HWake`, command 3 in the three steps `HAsk`, `HKick`, `HWaited`,
`HStop` and `HDie`; `HEnd` removes the segment. While hvmon configures the crate,
carries out commands 4, 5 and 16 and ramps, it is attached and checks nothing:
that is its state `busy`, which lasts any number of ticks and, as a ramp may
(`howto`), for ever. The menu
programs: `AskRead`, `AskInterval`, `AskEnd`, each followed by the `kill()` in
`RKill`; with the pid 0 of a segment without a kelvin it ends the menu program.
`Signal` is SIGALRM: it wakes a sleeping kelvin, kills one whose handler is not
yet set, and is lost at any other time.

Segments are numbered; `key` is the one `ftok()`'s key names, and each program
has the one it is attached to. Time is in ticks; a program's own step takes less
than one. Auxiliary: `unread` (the sleep kelvin is in did not begin with a
reading), `age` of the last reading, and `exposed`, the ticks in a row that the
temperature is over its limit while kelvin and hvmon are both there to see it
(`Watched`: kelvin loops, its last sleep began with a reading and ends, its
LabJack answers, and hvmon is attached to the same segment). It stands still, and
does not start again, while hvmon is busy: the deadline is for the time hvmon does
look at temperatures, and what it is busy with comes on top of it. No user answers
item 3 with 0, an interval with which kelvin never sleeps and a tick never passes.

### HvMon

A step of the daemon is what it does to one channel, because between two
channels (each several SNMP processes) menu programs write, voltages ramp and
temperatures change. `changeParam()` has two steps: it decides by the record it
read first and sends the `onoff` that is in the record at the end. Actions
follow the code: `ConfLine`/`ConfEnd` (`readConf`), `RampAll`/`RampEnd`
(`setOnPhase2`), `Test`, `Switch` and `Sleep` (`main`), `ReadOne`/`ReadEnd`
(`getHVmpod`), `CheckTemp`, `ShutOne`/`ShutEnd` (the interlock),
`OnOne`/`OnEnd`, `OffOne`/`OffEnd`, `ChangeVolts`/`ChangeSwitch`; of the menu
program `Command`, `AskChange`, `Edit`, `SendChange`, `EndAll`; `Stop` and
`Restart` of hvmon; `Kelvin` and `Ramp` of the environment.

Item 16 is as unchecked as the code has it. `Edit` takes any voltage, 0 V
included. The channel may be any number: `Outside` is every one that is not in the
table. With one of these hvmon asks for the voltage of a channel without an
address, gets no answer, and dies (`ChangeNone`). `SendChange` sends its command
also when the user has left `detParam` by an answer out of range, with the `com1`
of before.

Data kept abstract: voltages are 0 (all that is clearly below 50 V), `Low` (about
50 V) and `Full` (all that is more); `hot` is the
set of thermometers that are not between -500 and their limit; `Letter[c]` is
the thermometer whose name begins with the letter of channel `c`. `Negative` is
the set of channels whose reading at 0 V may be negative, which the test
`abs(50.-volts)/volts < 0.05` lets pass. `Below` is `vMeas < 50`, which at about
50 V may go either way. SNMP requests for a channel of the table succeed. One
variable is auxiliary: `excused`, the channels
whose switch was edited in the middle of a `changeParam` of them, or that were on
and below 50 V, or set to less than 50 V, when hvmon was stopped or died
(`Unsettled`: the next `readConf` finds them on and sends them their full
voltage). kelvin is the
action `Kelvin`, a temperature that changes at any moment: whatever `Kelvin.tla`
does to it is one of its behaviours. Left out: currents, ramp
rates, the clearing of trip events, the e-mail, commands 1 and 18 (no program
sends them), items 11 and 18, names with a `Y`; and `HvMon` has one segment, which is
what `HvShm` is about.

`HvTwoPhase` is one two-phase channel without commands, segment and loops: off,
`under` (on, but set to less than 50 V), towards 50 V, towards its full voltage, or
`sent` there by a change that has not yet dealt with the phases. `HvMon` implements it once per channel (`TP(c)`,
`TwoPhaseImpl`; `State(c)` is read off the crate and the job of `changeParam`). It
says more than the invariant `TwoPhaseRamp`: that a full voltage sent below
50 V is always taken back to 50 V or turned off, and that the crate may follow
it only in between. `Exempt` are the `excused` channels and those whose voltage
may read as negative; its action `Excuse` is how a channel becomes one.

### HvShm

The command slots alone, and who reaches which. hvmon: `HStart` (`shmSetup`),
`HPid`, `HHandler` (`sigaction`), `HConf` (`readConf` and the first command),
`HTest`, `HSwitch`, `HWork` (the end of a case), `HWake`, `HExit` (the end of
`main` with its `IPC_RMID`); `HDie` is the ctrl+C of `Howto.txt`, or a crash. The
menu programs: `RStart`, the items that write `com0` (`Ask`, `Order`, `EndAll`),
`EndThis` (item 0), the `kill()` after an item and at the end of `main` (`Kill`),
`End` with its `IPC_RMID`, `RDie`. With a pid of 0 the `kill()` signals the menu
program itself; before hvmon's handler is set it kills hvmon. Segments, `key` and
`Attach` are as in `Kelvin`.

Auxiliary: `left` (hvmon's slot still holds what was there before it came),
`removed` and `late` (a menu program has removed hvmon's segment; the menu
programs started since hvmon), `died` (some program was stopped before its end).

## 3. Runs

All runs are small enough for a laptop (the largest, `kelvin`, visits 4.9
million states, `fits` 2.9, `edits` and `menu` about one). A "violation" run checks one statement of a document, comment or
message of the repository, and TLC's counterexample is the finding.

| Run | Instance | Checks | Shows |
|---|---|---|---|
| `menu` | 1 detector, all menu items and the parameters on/off, interval, max, overflow limit, next; the entry behind the table | `TypeOK`, `LoopSupply`, `RearmedWhenShut` | nitrogen only from an open tank past a shut vent; an interrupted fill stays due; what unchecked answers lead to |
| `pair` | 2 detectors with max 1 and 2, fill one (any answer), fill all and close all at any time, deaths, `com1` -1 or, as on a new segment, 0; fairness | `LoopValves`, `LoopCount`, `DoneShut`, `IInv`, `ValveOrder`, `LoopEnds`, `InterruptEndsCooling`, `DueServed` | marks, valves and count agree; `LnValves` is implemented; the fill loop ends; a command ends the cooling; every detector is filled again and again unless `com1` names another |
| `fits` | 4 detectors, limit 1, 2 menu programs that toggle and edit max | `FillFits`, `LoopCount` | every menu program but the first may bring the list one detector too many, and no more; the count stands an edited max |
| `overtime` | 2 detectors | violation of `CompletedShut` | a detector both full and overtime takes two off the count; a valve stays open |
| `alarm` | 2 detectors, items 2, 18, 19, the logger, restarts on the old and on a new segment; fairness | `TypeOK`, `IInv`, `ScanShuts`, `AlarmShuts` | a scan shuts down every detector hot and armed all along, but for those behind a detector it ends at; the shutdown is repeated |
| `hidden` | 2 detectors, item 19; fairness | violation of `EveryAlarmShuts` | a detector that was LONG or in ALARM hides a hot one from every scan |
| `interlock` | 2 two-phase and a germanium channel, 2 thermometers, items 3, 4, 100, stops; fairness | `GeOnlyWhenGood`, `HotEnds` | nothing is turned on over a bad temperature; a bad temperature ends hvmon, if the ramp does not hold it |
| `edits` | 1 two-phase channel, all items, any channel number and voltage, stops and restarts at any time; fairness | `TypeOK`, `TwoPhaseRamp`, `RampInv`, `TwoPhaseImpl`, `RampEnds` | 50 V first; the inductive invariant; `HvTwoPhase` is implemented; the ramp of one channel ends |
| `hot` | 2 germanium channels, 2 thermometers | violation of `HotShut` | the interlock turns off the channels of the *good* thermometers |
| `howto` | 2 two-phase channels, one on, one reset | violation of `RampEnds` | the ramp of Howto.txt's own example never ends |
| `kelvin` | 2 segments, 1 menu program with items 2, 3, 100, an interval of 1, changed to up to 2 or to -1, the LabJack may fail | `TypeOK`, `ShutInTime`, `AskedIsNew`, `NoStaleSegment` | the interlock has a deadline beside what hvmon is busy with; what hvmon checks after asking is new and its own; side by side on two segments hvmon finds no thermometers, never old ones |
| `segment` | 3 segments, 2 menu programs started any number of times, items 0, 2, 4, 100, stops of all | `TypeOK`, `NoOldCommand`, `SameSegment`, `NoneLeftBehind` | hvmon never carries out a command from before it; until a menu program has ended on hvmon's segment all later ones are on it; only a stop leaves a segment behind |

**Bounds and why they do.** Two detectors (or channels) are what the
interactions need: one that is finished, overtime, hot or on while another is
not. One detector suffices for the full menu, whose items do not relate
detectors. The code's 4 cold readings are `NCold = 2` in `menu` and `overtime`, the
smallest number that tells "count" from "clear the count", and 1 in `pair` and
`fits`, whose properties tell only finished detectors from the others; the proofs
are for 1 to 4. Ticks: an interval of 1 or 2 and times of 1 and 2 let a fill become
due during a fill and let one detector be overtime and another not; `elapsed` stops
counting when every detector is overtime and `next` counts down to 0. One class of
RTD reading is enough in the fill runs, where the statuses it leads to decide only
whether the scan goes on; `alarm` has all of them.
`fits` reaches its limit with `MaxOn = 1` and two menu programs, which are
interchangeable (`AnyOrder`). Of its four detectors item 2 reaches three, one more
than the bound allows to be on, so that it is the count that keeps them from it
(with `<=` for `<` in `AskToggle` TLC finds all three on). `alarm` needs a detector
before a hot one, so two. In `kelvin` two segments are one that was removed and its
successor, intervals of 1 and 2 let one be longer than another and than hvmon's
period, and `Old` is one more than the longest, beyond which the age of a reading decides nothing. In
`segment` a third segment lets the successor of hvmon's be removed or left behind
too, and one of items 4, 5 and 16 stands for them: they differ in what hvmon does
to the crate. One menu program already interleaves
at every point; two matter only where `PROJECT.json` says so. The theorems of
section 4 hold without any of these bounds.

**Deadlock** is not checked where the program may stop: the `menu` run and the
HvMon runs contain the command that ends a daemon, and in `kelvin` and
`segment` the bound on segments may leave nobody one to attach to.

**Fairness.** `FairSpec` of `LnFill` and `HvMon` assumes weak fairness of the daemon (a
process that is scheduled; its sleeps end; for LnFill the outlet strip obeys in
the end), and of time (`Tick`) or of the crate's ramps (`Ramp`). Nothing is
assumed of users, of kelvin, of deaths or restarts. `DueServed` names its
exceptions itself: a `com1` that names another detector, a manifold that never
gets cold, fills that go overtime for ever, users who send other commands for ever, a daemon that stays dead.
`FairSpec` of `LnAlarm` assumes only that scans go on, which all loops of the
daemon contain; `AlarmShuts` excepts scans that end before the detector and
restarts without end. `Kelvin` states its deadline as an invariant and needs no
fairness. `HotEnds` excepts users who keep hvmon busy with commands 4, 5 and 16, and a ramp
that never ends, which `interlock`, with two two-phase channels, has: hvmon looks
at no temperature in it. With one two-phase channel it does end (`RampEnds` in `edits`).

## 4. Theorems

`LnFill_proofs`, for every table, interval, limit, number of menu programs and
choice of menu items:

* `Invariant`: `Spec => []IInv`. `IInv` is `TypeOK` and `Control`, which says
  what `fillGe` has established at each of its lines. `LoopValves` alone is not
  inductive: that all valves of the fill are open when the loop begins comes
  from the opening loop (open so far, marks all 0), that a mark is 0 from the
  lines before it, and that the valves are shut at the end from the count, which
  is compared with the number of unmarked detectors (a cardinality argument,
  `OneLess`). That the count is right depends on no detector having been counted
  twice (`twice`), and so does the conclusion; the run `overtime` shows why. The
  times are not in it: they may be edited in every step.
* The entry behind the table is in `Control` by two conjuncts: it is filled alone,
  so two detectors of a fill never share an outlet (`OwnOutlet`), and no loop of
  single valves visits it.
* From it `TypeCorrect`, `LoopValvesHold`, `LoopSupplyHolds`, `LoopCountHolds`,
  `DoneShutHolds`, the action property `RearmedOnlyWhenShut`, and
  `ImplementsLnValves`: `Spec => ValveOrder`, each step of `LnFill` mapped to a
  step of `LnValves` or a stutter.

* `FillsFit`: `Spec => []FillFits`, for any finite number of menu programs: the
  list of a fill of all outgrows its `MaxOn` places by less than there are menu
  programs. It assumes a `lnfill.conf` that turns on no more than `MaxOn`, and
  fewer if the daemon ever dies (`[](pc = "dead" => ...)` is in its statement). `FitInv` counts the detectors that are
  on together with the menu programs that have counted and not yet toggled
  (`Counted`), each of which may still bring one.

`LnAlarm_proofs`, for every table, number of menu programs and choice of items,
with or without the logger and restarts:

* `TypeCorrect`, and `Invariant`: `Spec => []IInv`. What the scan owes
  is kept in `IInv` as: the detectors of `due` it has passed are without
  voltage, and it never ends at one of them. From it `ScanShutsDown`:
  `Spec => []ScanShuts`.

`Kelvin_proofs`, for every interval, period of hvmon, number of segments and
menu programs:

* `TypeCorrect`, `Deadline`: `Spec => []ShutInTime`, `AskedNew`:
  `Spec => []AskedIsNew`, and `NothingStale`: `Spec => []NoStaleSegment`. `ShutInTime` is not inductive. `LoopSure` says that the
  age of a reading and what is left of kelvin's sleep fit in an interval, also
  when the interval in the segment is changed meanwhile; `SeenSure` that as long
  as the reading in the segment is good the exposure is no longer than its age,
  and afterwards no longer than an interval and what hvmon has slept since it
  checked. The age goes on while hvmon is busy and the exposure does not, which
  both parts allow. The last two rest on `SegSure`: an hvmon that runs is on the key's
  segment, kelvin is there with it while it waits for a reading it has asked
  for, and a segment made after kelvin's holds no temperatures.

`HvMon_proofs`, for every configuration:

* `TypeCorrect`: `Spec => []TypeOK`.
* `OnOnlyWhenGood`: `Spec => GeOnlyWhenGood`, stops and restarts included. It
  rests on `ChangeSure`: between the two steps of `changeParam` the record still
  says "off" for a channel that is to be turned off, unless it has been edited
  meanwhile (`excused`).
* `RampSure`: `Spec => []RampInv`, from it `TwoPhaseFirst`:
  `Spec => []TwoPhaseRamp`, and `ImplementsTwoPhase`: `Spec => TwoPhaseImpl`,
  stops and restarts included. In `RampInv` `readConf` finds the two-phase
  channels of the lines still to come off, or at 50 V and set to 50 V at least
  (`ConfSafe`), and a `changeParam` that leaves a channel as it is has seen it above
  50 V. `ConfSafe` says it of a stopped hvmon too: a channel that is on does not
  sink below 50 V while nobody watches, because the crate's setting is no less. Of
  channels that a stop catches below 50 V or set to less it is not true
  (`excused`), nor would the theorems be: item 16 may set 0 V, and the next
  `readConf` sends the full voltage from whatever the channel has sunk to. For the refinement `RampInv` after a step already says where
  the step may have led; only the end of a change, a stop in the middle of one and
  the ramping of the crate are looked at by themselves.

`HvShm_proofs`, for any number of segments and menu programs and every choice of
items, stops anywhere included:

* `TypeCorrect`; `OldNever`: `Spec => []NoOldCommand`; `NothingLeft`:
  `Spec => []NoneLeftBehind`, both inductive with the types.
* `OneSegment`: `Spec => []SameSegment`. By itself it is not inductive: `KeySure`
  adds that the key stays with hvmon's segment until a menu program removes it,
  so that whoever attaches finds that one.

The assumptions are the modules' ASSUMEs (`NDetAssumption`, `FillAssumption`,
`HvAssumption`, `ShmAssumption`, `AlarmAssumption`, `KelvinAssumption`), which TLC evaluates in the runs.

**Only model-checked:** everything about liveness (`LoopEnds`,
`InterruptEndsCooling`, `DueServed`, `AlarmShuts`, `HotEnds`, `RampEnds`), which
the proof system cannot treat under fairness; and the violations.

## 5. What is found

* hvmon's interlock is inverted (`hot`): the channels of the thermometers that
  are good are turned off, those of the hot one are left on, and hvmon ends.
* The ramp with two or more two-phase channels, one of them off, never ends
  (`howto`); SIGALRM is blocked and temperatures are not looked at meanwhile.
* A detector full and overtime in one pass is counted twice (`overtime`).
* A hot detector may be hidden from every scan by one that was LONG or in ALARM
  and is cold again (`hidden`): its high voltage stays on although the shutdown is
  armed.

The models also show, without a run of its own: after a fill of one detector, or
on a new segment, the automatic "Fill All" of the LN daemon fills detector `com1`
only (the exception of `DueServed`). Every menu program of hvmon removes the
segment when it ends, by item 0 too ("end program but not kelvin"), so the orders
of the next one, its HV off among them, go to nobody, and the signal to pid 0 ends
the menu program itself (the exception of `SameSegment`); `NoneLeftBehind` does not
need that removal, since a menu program that gets that far is on a segment some
hvmon has been on, which that hvmon removes unless it was stopped. A channel that
was in phase 1 when hvmon was stopped gets its full voltage from the next
`readConf`, and so does one set to less than 50 V by item 16 (the exception of
`TwoPhaseRamp`).

And without a line that says otherwise: the daemon clears
commands it has not carried out; the regular reading of hvmon overwrites a
record that is being edited; logging disarms the LN shutdown; a hvmon started
after another has ended over a bad temperature checks a segment without
thermometers while kelvin writes the old one; a LabJack that fails reads as 0
degrees; item 100 of kelvin-read may be taken for a change of interval; item 7 of
the LN menu may fill an entry behind the table, and a channel number outside the
table ends hvmon. They are in `PROJECT.json` as hazards.

## 6. Plan

Done: `LnScan`, `LnFill`, `LnValves`, `LnAlarm`, `HvMon`, `Kelvin`, `HvShm`,
and the proofs about them. Left, in this order:

1. The request loop to the outlet strip with its answers (state, pending, none),
   shown to implement, or not, the single step that `LnFill` takes; the loops of
   `openTank`, `openMani` and `openDet` end on a pending outlet.
2. The thermometer logger, currents of a channel, items 11 and 18 of hvmon-read.

## 7. Not modelled, and why

Most of the repository's lines are copies: `LNfill/src/old` and `hv-mpod/src/old`
hold ancestors of the programs above, the mmap, U3 and `test/` variants differ
from them in how the segment is mapped or which LabJack is read, and
`kelvin/*.c` repeats `kelvin/src`. Their control is that of the modules here,
and they are not mapped a second time. The LabJack driver, the CAEN
demonstration and the headers of the acquisition are vendored. Temperatures,
conversions of ADC counts, text layout, log files and e-mail carry no control.
Composing `HvMon` with `Kelvin` in one specification is beyond TLC (each alone
has millions of states); `Kelvin` carries the part of hvmon that reads and
signals instead. What an induction over data would be needed for is not claimed.
