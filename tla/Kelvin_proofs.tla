--------------------------- MODULE Kelvin_proofs ---------------------------
(***************************************************************************)
(* Proofs about Kelvin, for every interval and period, every number of     *)
(* segments and menu programs and every choice of menu items: types, the   *)
(* deadline of the interlock, and the newness of a reading asked for.      *)
(***************************************************************************)
EXTENDS Kelvin, TLAPS

-----------------------------------------------------------------------------
(* Types. *)

LEMMA Numbers ==
    /\ Longest \in Nat /\ Interval \in 1..Longest /\ HvPeriod \in Nat \ {0}
    /\ Old \in Nat /\ Old > Longest /\ MaxSeg \in Nat \ {0}
    /\ Interval \in Answers /\ Answers \subseteq Int
BY KelvinAssumption, SMT DEF Answers

(* Attaching to a segment leaves the key and the count in their types. *)
LEMMA AttachType ==
    ASSUME TypeOK, NEW s \in Segs, Attach(s)
    PROVE  /\ made' \in 0..MaxSeg /\ key' \in 0..made'
           /\ s \in 1..MaxSeg
BY Numbers, SMT DEF TypeOK, Attach, Segs

(* What is left of kelvin when it is gone. *)
LEMMA GoneSure ==
    ASSUME TypeOK, Gone
    PROVE  /\ age' \in 0..Old /\ age' = 0
           /\ kpc' = "off" /\ kat' = 0 /\ left' = 0
           /\ unread' \in BOOLEAN
           /\ pid' \in [Segs -> {"none", "kelvin", "old"}]
<1>1. age' = 0 /\ kpc' = "off" /\ kat' = 0 /\ left' = 0
  BY DEF Gone
<1>2. unread' \in BOOLEAN
  BY DEF Gone
<1>3. pid' \in [Segs -> {"none", "kelvin", "old"}]
  BY DEF Gone, TypeOK
<1>4. QED
  BY <1>1, <1>2, <1>3, Numbers

(* A signal wakes kelvin, kills it before its handler is set, or is lost.  *)
LEMMA SignalCases ==
    ASSUME NEW s, Signal(s)
    PROVE  \/ /\ pid[s] = "kelvin" /\ kpc = "sleep" /\ kpc' = "test"
              /\ left' = 0 /\ UNCHANGED <<kat, unread, age, pid>>
           \/ kpc = "handler" /\ Gone
           \/ /\ UNCHANGED <<kpc, kat, left, unread, age, pid>>
              /\ ~(pid[s] = "kelvin" /\ kpc = "sleep")
<1>1. CASE pid[s] = "kelvin" /\ kpc = "sleep"
  BY <1>1 DEF Signal
<1>2. CASE pid[s] = "kelvin" /\ kpc = "handler"
  BY <1>2 DEF Signal
<1>3. CASE ~(pid[s] = "kelvin" /\ kpc \in {"sleep", "handler"})
  BY <1>3 DEF Signal, kelvin
<1>4. QED
  BY <1>1, <1>2, <1>3

LEMMA SignalType ==
    ASSUME TypeOK, NEW s, Signal(s)
    PROVE  /\ pid' \in [Segs -> {"none", "kelvin", "old"}]
           /\ kpc' \in {"off", "conf", "handler"} \cup Looping
           /\ kat' \in IF kpc' = "off" THEN {0} ELSE Segs
           /\ left' \in Answers \cup {0}
           /\ unread' \in BOOLEAN
           /\ age' \in 0..Old
<1> USE DEF TypeOK, Looping
<1>1. CASE /\ kpc = "sleep" /\ kpc' = "test"
           /\ left' = 0 /\ UNCHANGED <<kat, unread, age, pid>>
  BY <1>1
<1>2. CASE Gone
  BY <1>2, GoneSure
<1>3. CASE UNCHANGED <<kpc, kat, left, unread, age, pid>>
  BY <1>3
<1>4. QED
  BY <1>1, <1>2, <1>3, SignalCases

LEMMA TypeInit ==
    ASSUME Init
    PROVE  TypeOK
<1>1. unread \in BOOLEAN /\ usb \in BOOLEAN
  BY DEF Init
<1>2. age \in 0..Old /\ hleft \in 0..HvPeriod /\ key \in 0..made /\ made \in 0..MaxSeg
  BY Numbers DEF Init
<1>3. QED
  BY <1>1, <1>2 DEF Init, TypeOK

(* The part of the types that a step of kelvin can disturb. *)
LEMMA TypeKelvin ==
    ASSUME TypeOK, KelvinStep, Count(0)
    PROVE  TypeOK'
<1> USE DEF Looping
<1>1. exposed' \in Nat
  BY DEF Count, TypeOK
<1>2. CASE KStart
  <2>1. PICK s \in Segs : Attach(s) /\ kat' = s
    BY <1>2 DEF KStart
  <2>2. made' \in 0..MaxSeg /\ key' \in 0..made'
    BY <2>1, AttachType
  <2>3. QED
    BY <1>1, <1>2, <2>1, <2>2
       DEF KStart, TypeOK, slots, reading, world, hv, menus
<1>3. CASE KConf
  <2>1. Read \in {"good", "hot"}
    BY DEF Read
  <2>2. age' \in 0..Old
    BY <1>3, Numbers DEF KConf
  <2>3. QED
    BY <1>1, <1>3, <2>1, <2>2 DEF KConf, TypeOK, names, world, hv, menus
<1>4. CASE KReady
  BY <1>1, <1>4, Numbers
     DEF KReady, TypeOK, names, reading, world, hv, menus
<1>5. CASE KTest
  <2>1. CASE com1[kat] = -1
    BY <1>1, <1>5, <2>1, GoneSure DEF KTest, TypeOK, names, world, hv, menus
  <2>2. CASE com1[kat] # -1
    BY <1>1, <1>5, <2>2 DEF KTest, TypeOK, names, world, hv, menus
  <2>3. QED
    BY <2>1, <2>2
<1>6. CASE KSwitch
  <2>1. Read \in {"good", "hot"}
    BY DEF Read
  <2>2. unread' \in BOOLEAN
    BY <1>6 DEF KSwitch, TypeOK
  <2>3. age' \in 0..Old
    BY <1>6, Numbers DEF KSwitch, TypeOK
  <2>4. com1' \in [Segs -> {-1, 0, 2, 3}] /\ degree' \in [Segs -> {"none", "good", "hot"}]
    BY <1>6, <2>1 DEF KSwitch, TypeOK
  <2>5. QED
    BY <1>1, <1>6, <2>2, <2>3, <2>4 DEF KSwitch, TypeOK, names, world, hv, menus
<1>7. CASE KSleep
  BY <1>1, <1>7 DEF KSleep, TypeOK, names, slots, reading, world, hv, menus
<1>8. CASE KWake
  BY <1>1, <1>8 DEF KWake, TypeOK, names, slots, reading, world, hv, menus
<1>9. CASE KDie
  BY <1>1, <1>9, GoneSure DEF KDie, TypeOK, names, world, hv, menus
<1>10. QED
  BY <1>2, <1>3, <1>4, <1>5, <1>6, <1>7, <1>8, <1>9 DEF KelvinStep

LEMMA TypeHv ==
    ASSUME TypeOK, HvStep, Count(0)
    PROVE  TypeOK'
<1>1. exposed' \in Nat
  BY DEF Count, TypeOK
<1>2. HEnd => /\ hpc' = "off" /\ hat' = 0 /\ hleft' = 0 /\ 0 \in 0..HvPeriod
              /\ key' \in 0..made
  BY Numbers DEF HEnd, TypeOK
<1>3. CASE HStart
  <2>1. PICK s \in Segs : Attach(s) /\ hat' = s
    BY <1>3 DEF HStart
  <2>2. made' \in 0..MaxSeg /\ key' \in 0..made'
    BY <2>1, AttachType
  <2>3. QED
    BY <1>1, <1>3, <2>1, <2>2
       DEF HStart, TypeOK, slots, reading, kelvin, world, menus
<1>4. CASE HCheck
  <2>1. CASE degree[hat] = "hot"
    BY <1>1, <1>2, <1>4, <2>1
       DEF HCheck, TypeOK, slots, reading, kelvin, world, menus
  <2>2. CASE degree[hat] # "hot"
    BY <1>1, <1>4, <2>2, Numbers
       DEF HCheck, TypeOK, slots, reading, kelvin, world, menus
  <2>3. QED
    BY <2>1, <2>2
<1>5. CASE HWake
  BY <1>1, <1>5, Numbers
     DEF HWake, TypeOK, names, slots, reading, kelvin, world, menus
<1>6. CASE HAsk
  BY <1>1, <1>6, Numbers
     DEF HAsk, TypeOK, names, reading, kelvin, world, menus
<1>7. CASE HKick
  <2>1. /\ pid' \in [Segs -> {"none", "kelvin", "old"}]
        /\ kpc' \in {"off", "conf", "handler"} \cup Looping
        /\ kat' \in IF kpc' = "off" THEN {0} ELSE Segs
        /\ left' \in Answers \cup {0}
        /\ unread' \in BOOLEAN
        /\ age' \in 0..Old
    BY <1>7, SignalType DEF HKick
  <2>2. hpc' \in {"wait", "lost"} /\ hpc = "kick"
    BY <1>7 DEF HKick
  <2>3. QED
    BY <1>1, <1>7, <2>1, <2>2 DEF HKick, TypeOK, names, world, menus
<1>8. CASE HWaited
  BY <1>1, <1>8
     DEF HWaited, TypeOK, names, slots, reading, kelvin, world, menus
<1>9. CASE HStop
  BY <1>1, <1>2, <1>9
     DEF HStop, TypeOK, slots, reading, kelvin, world, menus
<1>10. CASE HReady
  BY <1>1, <1>10
     DEF HReady, TypeOK, names, slots, reading, kelvin, world, menus
<1>11. CASE HDie
  BY <1>1, <1>11, Numbers
     DEF HDie, TypeOK, names, slots, reading, kelvin, world, menus
<1>12. QED
  BY <1>3, <1>4, <1>5, <1>6, <1>7, <1>8, <1>9, <1>10, <1>11 DEF HvStep

LEMMA TypeReader ==
    ASSUME TypeOK, NEW r \in Readers, Reader(r), Count(0)
    PROVE  TypeOK'
<1>1. exposed' \in Nat
  BY DEF Count, TypeOK
<1>2. CASE RStart(r)
  <2>1. PICK s \in Segs : Attach(s) /\ rat' = [rat EXCEPT ![r] = s]
    BY <1>2 DEF RStart
  <2>2. made' \in 0..MaxSeg /\ key' \in 0..made' /\ s \in 1..MaxSeg
    BY <2>1, AttachType
  <2>3. rat' \in [Readers -> 0..MaxSeg] /\ rpc' \in [Readers -> {"off", "menu", "kill", "last"}]
    BY <1>2, <2>1, <2>2, Numbers DEF RStart, TypeOK
  <2>4. \A q \in Readers : rat'[q] = 0 <=> rpc'[q] = "off"
    BY <1>2, <2>1, <2>2, Numbers DEF RStart, TypeOK
  <2>5. QED
    BY <1>1, <1>2, <2>2, <2>3, <2>4
       DEF RStart, TypeOK, slots, reading, kelvin, world, hv
<1>3. ASSUME NEW n, NEW then \in {"kill", "last"}, Item(r, n, then)
      PROVE  /\ rpc' \in [Readers -> {"off", "menu", "kill", "last"}]
             /\ rat' = rat
             /\ \A q \in Readers : rat'[q] = 0 <=> rpc'[q] = "off"
             /\ rat[r] \in Segs
  BY <1>3, Numbers DEF Item, TypeOK, Segs
<1>4. CASE AskRead(r)
  <2>1. Item(r, 2, "kill")
    BY <1>4 DEF AskRead
  <2>2. QED
    BY <1>1, <1>3, <1>4, <2>1
       DEF AskRead, Item, TypeOK, names, reading, kelvin, world, hv
<1>5. CASE AskInterval(r)
  <2>1. Item(r, 3, "kill")
    BY <1>5 DEF AskInterval
  <2>2. interval' \in [Segs -> {0} \cup Answers]
    BY <1>5 DEF AskInterval, TypeOK
  <2>3. QED
    BY <1>1, <1>3, <1>5, <2>1, <2>2
       DEF AskInterval, Item, TypeOK, names, reading, kelvin, world, hv
<1>6. CASE AskEnd(r)
  <2>1. Item(r, 100, "last")
    BY <1>6 DEF AskEnd
  <2>2. QED
    BY <1>1, <1>3, <1>6, <2>1
       DEF AskEnd, Item, TypeOK, names, reading, kelvin, world, hv
<1>7. CASE RKill(r)
  <2>1. /\ pid' \in [Segs -> {"none", "kelvin", "old"}]
        /\ kpc' \in {"off", "conf", "handler"} \cup Looping
        /\ kat' \in IF kpc' = "off" THEN {0} ELSE Segs
        /\ left' \in Answers \cup {0}
        /\ unread' \in BOOLEAN
        /\ age' \in 0..Old
    BY <1>7, SignalType DEF RKill
  <2>2. /\ rpc' \in [Readers -> {"off", "menu", "kill", "last"}]
        /\ rat' \in [Readers -> 0..MaxSeg]
        /\ \A q \in Readers : rat'[q] = 0 <=> rpc'[q] = "off"
    BY <1>7, Numbers DEF RKill, TypeOK
  <2>3. QED
    BY <1>1, <1>7, <2>1, <2>2 DEF RKill, TypeOK, names, world, hv
<1>8. CASE REnd(r)
  <2>1. /\ rpc' \in [Readers -> {"off", "menu", "kill", "last"}]
        /\ rat' \in [Readers -> 0..MaxSeg]
        /\ \A q \in Readers : rat'[q] = 0 <=> rpc'[q] = "off"
    BY <1>8, Numbers DEF REnd, TypeOK
  <2>2. QED
    BY <1>1, <1>8, <2>1
       DEF REnd, TypeOK, names, slots, reading, kelvin, world, hv
<1>9. QED
  BY <1>2, <1>4, <1>5, <1>6, <1>7, <1>8 DEF Reader

LEMMA TypeRest ==
    ASSUME TypeOK, \/ (Weather \/ UsbFail) /\ Count(0)
                   \/ Tick /\ Count(1)
                   \/ UNCHANGED vars
    PROVE  TypeOK'
<1>1. CASE Weather /\ Count(0)
  <2>1. exposed' \in Nat
    BY <1>1 DEF Count, TypeOK
  <2>2. warm' \in BOOLEAN
    BY <1>1 DEF Weather
  <2>3. QED
    BY <1>1, <2>1, <2>2
       DEF Weather, TypeOK, names, slots, reading, kelvin, hv, menus
<1>2. CASE UsbFail /\ Count(0)
  <2>1. exposed' \in Nat
    BY <1>2 DEF Count, TypeOK
  <2>2. usb' \in BOOLEAN
    BY <1>2 DEF UsbFail
  <2>3. QED
    BY <1>2, <2>1, <2>2
       DEF UsbFail, TypeOK, names, slots, reading, kelvin, hv, menus
<1>3. CASE Tick /\ Count(1)
  <2>1. exposed' \in Nat
    BY <1>3 DEF Count, TypeOK
  <2>2. left' \in Answers \cup {0} /\ hleft' \in 0..HvPeriod /\ age' \in 0..Old
    BY <1>3, Numbers DEF Tick, TypeOK, Answers
  <2>3. QED
    BY <1>3, <2>1, <2>2 DEF Tick, TypeOK, names, slots, world, menus
<1>4. CASE UNCHANGED vars
  BY <1>4
     DEF TypeOK, vars, names, slots, reading, kelvin, world, hv, menus
<1>5. QED
  BY <1>1, <1>2, <1>3, <1>4

LEMMA TypeNext ==
    ASSUME TypeOK, [Next]_vars
    PROVE  TypeOK'
BY TypeKelvin, TypeHv, TypeReader, TypeRest DEF Next, Steps

(* The types of the segments, of kelvin, of hvmon and of the menu programs *)
(* hold whatever the programs do.                                          *)
THEOREM TypeCorrect == Spec => []TypeOK
<1>1. Init => TypeOK
  BY TypeInit
<1>2. TypeOK /\ [Next]_vars => TypeOK'
  BY TypeNext
<1>3. QED
  BY <1>1, <1>2, PTL DEF Spec

-----------------------------------------------------------------------------
(* The deadline of the interlock.                                          *)

LEMMA SureInit ==
    ASSUME Init
    PROVE  IInv
<1>1. TypeOK
  BY TypeInit
<1>2. LoopSure /\ FreshSure
  BY DEF Init, LoopSure, FreshSure, Looping
<1>3. SeenSure
  BY Numbers DEF Init, SeenSure, Watched, Looping
<1>4. QED
  BY <1>1, <1>2, <1>3 DEF IInv

(* The integers that the invariant compares. *)
LEMMA IntSure ==
    ASSUME TypeOK
    PROVE  /\ left \in Int /\ left >= -1 /\ age \in Nat /\ hleft \in 0..HvPeriod
           /\ exposed \in Nat
           /\ \A s \in Segs : interval[s] \in Int /\ interval[s] >= -1
                                           /\ interval[s] <= Longest
BY Numbers DEF TypeOK, Answers

LEMMA SureKelvin ==
    ASSUME IInv, KelvinStep, Count(0)
    PROVE  LoopSure' /\ SeenSure' /\ FreshSure'
<1> USE DEF Looping
<1>1. TypeOK /\ LoopSure /\ SeenSure /\ FreshSure
  BY DEF IInv
<1>2. exposed' = IF Watched' THEN exposed ELSE 0
  BY IntSure, <1>1 DEF Count
<1>3. CASE kpc' \in {"off", "conf", "handler"} /\ left' = 0
  <2>1. ~Watched'
    BY <1>3 DEF Watched
  <2>2. exposed' = 0
    BY <1>2, <2>1
  <2>3. QED
    BY <1>3, <2>1, <2>2 DEF LoopSure, SeenSure, FreshSure
<1>4. CASE KReady
  <2>1. /\ kpc = "handler" /\ kpc' = "test" /\ left = 0 /\ left' = 0
        /\ UNCHANGED <<kat, degree, hleft>>
    BY <1>1, <1>4 DEF KReady, hv, reading, LoopSure
  <2>2. exposed = 0 /\ exposed' = 0
    BY <1>1, <1>2, <2>1 DEF SeenSure, Watched
  <2>3. SeenSure'
    BY <1>1, <1>4, <2>1, <2>2, Numbers, IntSure DEF SeenSure, KReady, reading
  <2>4. interval'[kat'] # 0
    BY <1>1, <1>4, <2>1, Numbers DEF KReady, TypeOK
  <2>5. LoopSure'
    BY <2>1, <2>4 DEF LoopSure
  <2>6. QED
    BY <2>1, <2>3, <2>5 DEF FreshSure
<1>5. CASE KTest /\ com1[kat] # -1
  <2>1. /\ kpc = "test" /\ kpc' = "switch"
        /\ UNCHANGED <<kat, left, unread, age, degree, interval, warm, usb, hpc, hat, hleft>>
    BY <1>5 DEF KTest, world, hv
  <2>2. Watched' <=> Watched
    BY <2>1 DEF Watched
  <2>3. QED
    BY <1>1, <1>2, <2>1, <2>2 DEF LoopSure, SeenSure, FreshSure
<1>6. CASE KSwitch
  <2>1. /\ kpc = "switch" /\ kpc' = "nap"
        /\ UNCHANGED <<kat, left, interval, warm, usb, hpc, hat, hleft>>
    BY <1>6 DEF KSwitch, world, hv
  <2>2. CASE com1[kat] = 2
    <3>1. /\ degree' = [degree EXCEPT ![kat] = Read] /\ age' = 0 /\ ~unread'
      BY <1>6, <2>2 DEF KSwitch
    <3>2. degree'[kat'] = Read /\ Read \in {"good", "hot"}
      BY <1>1, <2>1, <3>1 DEF Read, TypeOK
    <3>3. LoopSure' /\ FreshSure'
      BY <1>1, <2>1, <3>1, <3>2 DEF LoopSure, FreshSure
    <3>4. ~(Watched' /\ degree'[kat'] # "hot")
      BY <2>1, <3>2 DEF Watched, Read
    <3>5. Watched => exposed <= Longest + HvPeriod - hleft
      BY <1>1 DEF SeenSure
    <3>6. ~Watched => exposed <= Longest + HvPeriod - hleft
      BY <1>1, Numbers, IntSure DEF SeenSure
    <3>7. SeenSure'
      BY <1>2, <2>1, <3>4, <3>5, <3>6 DEF SeenSure
    <3>8. QED
      BY <3>3, <3>7
  <2>3. CASE com1[kat] # 2
    <3>1. unread' = TRUE /\ UNCHANGED <<degree, age>>
      BY <1>6, <2>3 DEF KSwitch
    <3>2. ~Watched'
      BY <3>1 DEF Watched
    <3>3. QED
      BY <1>1, <1>2, <2>1, <3>1, <3>2 DEF LoopSure, SeenSure, FreshSure
  <2>4. QED
    BY <2>2, <2>3
<1>7. CASE KSleep
  <2>1. /\ kpc = "nap" /\ kpc' = "sleep" /\ left' = interval[kat] /\ left = 0
        /\ UNCHANGED <<kat, unread, age, degree, interval, warm, usb, hpc, hat, hleft>>
    BY <1>1, <1>7 DEF KSleep, world, hv, slots, reading, LoopSure
  <2>2. interval[kat] \in Int /\ interval[kat] <= Longest
    BY <1>1, <2>1, IntSure DEF TypeOK
  <2>3. LoopSure'
    BY <1>1, <2>1, <2>2, Numbers DEF LoopSure
  <2>4. Watched' => Watched
    BY <2>1 DEF Watched
  <2>5. SeenSure'
    BY <1>1, <1>2, <2>1, <2>4 DEF SeenSure
  <2>6. QED
    BY <1>1, <2>1, <2>3, <2>5 DEF FreshSure, LoopSure
<1>8. CASE KWake
  <2>1. /\ kpc = "sleep" /\ kpc' = "test" /\ left = 0
        /\ UNCHANGED <<kat, left, unread, age, degree, interval, warm, usb, hpc, hat, hleft>>
    BY <1>8 DEF KWake, world, hv, slots, reading
  <2>2. Watched' <=> Watched
    BY <2>1 DEF Watched
  <2>3. QED
    BY <1>1, <1>2, <2>1, <2>2 DEF LoopSure, SeenSure, FreshSure
<1>9. CASE KStart \/ KConf
  BY <1>1, <1>3, <1>9 DEF KStart, KConf, LoopSure
<1>10. CASE Gone
  BY <1>3, <1>10 DEF Gone
<1>11. QED
  BY <1>4, <1>5, <1>6, <1>7, <1>8, <1>9, <1>10 DEF KelvinStep, KTest, KDie

(* What a signal does to kelvin leaves the invariant. *)
LEMMA SureSignal ==
    ASSUME IInv, NEW s, Signal(s), Count(0),
           UNCHANGED <<interval, degree, warm, usb, hat, hleft>>,
           hpc' = "off" <=> hpc = "off",
           hpc' = "wait" => hpc = "wait" \/ (pid[s] = "kelvin" /\ kpc = "sleep")
    PROVE  LoopSure' /\ SeenSure' /\ FreshSure'
<1> USE DEF Looping
<1>1. TypeOK /\ LoopSure /\ SeenSure /\ FreshSure
  BY DEF IInv
<1>2. exposed' = IF Watched' THEN exposed ELSE 0
  BY IntSure, <1>1 DEF Count
<1>3. CASE /\ kpc = "sleep" /\ kpc' = "test"
           /\ left' = 0 /\ UNCHANGED <<kat, unread, age, pid>>
  <2>1. Watched => exposed <= Longest + HvPeriod - hleft
    BY <1>1 DEF SeenSure
  <2>2. CASE Watched' /\ ~Watched
    <3>1. exposed' = 0
      BY <1>1, <1>2, <2>2 DEF SeenSure
    <3>2. SeenSure'
      BY <1>1, <1>3, <2>2, <3>1, Numbers, IntSure DEF SeenSure
    <3>3. QED
      BY <1>1, <1>3, <3>2 DEF LoopSure, FreshSure
  <2>3. CASE Watched' => Watched
    BY <1>1, <1>2, <1>3, <2>3 DEF LoopSure, SeenSure, FreshSure
  <2>4. QED
    BY <2>2, <2>3
<1>4. CASE Gone
  <2>1. kpc' = "off" /\ left' = 0
    BY <1>4 DEF Gone
  <2>2. ~Watched' /\ exposed' = 0
    BY <1>2, <2>1 DEF Watched
  <2>3. QED
    BY <2>1, <2>2 DEF LoopSure, SeenSure, FreshSure
<1>5. CASE /\ UNCHANGED <<kpc, kat, left, unread, age, pid>>
           /\ ~(pid[s] = "kelvin" /\ kpc = "sleep")
  <2>1. Watched' <=> Watched
    BY <1>5 DEF Watched
  <2>2. QED
    BY <1>1, <1>2, <1>5, <2>1 DEF LoopSure, SeenSure, FreshSure
<1>6. QED
  BY <1>3, <1>4, <1>5, SignalCases

LEMMA SureHv ==
    ASSUME IInv, HvStep, Count(0)
    PROVE  LoopSure' /\ SeenSure' /\ FreshSure'
<1> USE DEF Looping
<1>1. TypeOK /\ LoopSure /\ SeenSure /\ FreshSure
  BY DEF IInv
<1>2. exposed' = IF Watched' THEN exposed ELSE 0
  BY IntSure, <1>1 DEF Count
<1>3. CASE HKick
  BY <1>3, SureSignal DEF HKick, world
<1>4. ASSUME \/ HStart \/ HReady \/ HCheck \/ HWake
             \/ HAsk \/ HWaited \/ HStop \/ HDie
      PROVE  /\ UNCHANGED <<interval, degree, age, kpc, kat, left, unread, warm, usb>>
             /\ LoopSure' /\ FreshSure'
  <2>1. /\ UNCHANGED <<interval, degree, age, kpc, kat, left, unread, warm, usb>>
        /\ hpc' # "wait"
    BY <1>4 DEF HStart, HReady, HCheck, HWake, HAsk, HWaited, HStop, HEnd,
                HDie, slots, reading, kelvin, world
  <2>2. QED
    BY <1>1, <2>1 DEF LoopSure, FreshSure
<1>5. CASE HStart
  <2>1. hpc = "off"
    BY <1>5 DEF HStart
  <2>2. exposed = 0 /\ exposed' = 0
    BY <1>1, <1>2, <2>1 DEF SeenSure, Watched
  <2>3. hleft' = hleft
    BY <1>5 DEF HStart
  <2>4. QED
    BY <1>1, <1>4, <1>5, <2>2, <2>3, Numbers, IntSure DEF SeenSure
<1>6. CASE ((HCheck \/ HStop) /\ HEnd) \/ HDie
  <2>1. hpc' = "off"
    BY <1>6 DEF HEnd, HDie
  <2>2. ~Watched' /\ exposed' = 0
    BY <1>2, <2>1 DEF Watched
  <2>3. SeenSure'
    BY <2>2 DEF SeenSure
  <2>4. QED
    BY <1>4, <1>6, <2>3
<1>7. CASE HCheck /\ degree[hat] # "hot"
  <2>1. hpc = "check" /\ hpc' = "sleep" /\ hleft' = HvPeriod /\ hat' = hat
    BY <1>7 DEF HCheck
  <2>2. Watched' <=> Watched
    BY <1>4, <1>7, <2>1 DEF Watched
  <2>3. Watched => degree[kat] # "hot" /\ exposed <= Longest
    BY <1>1, <1>7 DEF Watched, SeenSure
  <2>4. QED
    BY <1>1, <1>2, <1>4, <1>7, <2>1, <2>2, <2>3, Numbers, IntSure DEF SeenSure
<1>8. CASE HReady \/ HWake \/ HAsk \/ HWaited
  <2>1. /\ hpc # "off" /\ hpc' # "off" /\ hat' = hat
        /\ hleft' = 0 \/ hleft' = hleft
    BY <1>8 DEF HReady, HWake, HAsk, HWaited
  <2>2. Watched' <=> Watched
    BY <1>4, <1>8, <2>1 DEF Watched
  <2>3. QED
    <3>1. UNCHANGED <<degree, kat, age>> /\ exposed' = exposed
      BY <1>1, <1>2, <1>4, <1>8, <2>2 DEF SeenSure
    <3>2. Watched => exposed <= Longest + HvPeriod - hleft'
      BY <1>1, <2>1, Numbers, IntSure DEF SeenSure
    <3>3. SeenSure'
      BY <1>1, <2>2, <3>1, <3>2 DEF SeenSure
    <3>4. QED
      BY <1>4, <1>8, <3>3
<1>9. QED
  <2>1. CASE HCheck /\ degree[hat] = "hot"
    BY <1>6, <2>1 DEF HCheck
  <2>2. CASE HStop
    BY <1>6, <2>2 DEF HStop
  <2>3. QED
    BY <1>3, <1>5, <1>6, <1>7, <1>8, <2>1, <2>2 DEF HvStep

LEMMA SureReader ==
    ASSUME IInv, NEW r \in Readers, Reader(r), Count(0)
    PROVE  LoopSure' /\ SeenSure' /\ FreshSure'
<1> USE DEF Looping
<1>1. TypeOK /\ LoopSure /\ SeenSure /\ FreshSure
  BY DEF IInv
<1>2. exposed' = IF Watched' THEN exposed ELSE 0
  BY IntSure, <1>1 DEF Count
<1>3. CASE RKill(r)
  <2>1. /\ Signal(rat[r])
        /\ interval' = interval /\ degree' = degree /\ warm' = warm /\ usb' = usb
        /\ hpc' = hpc /\ hat' = hat /\ hleft' = hleft
    BY <1>3 DEF RKill, world, hv
  <2>2. QED
    BY <2>1, SureSignal
<1>4. CASE RStart(r) \/ AskRead(r) \/ AskInterval(r) \/ AskEnd(r) \/ REnd(r)
  <2>1. /\ UNCHANGED <<degree, age, kpc, kat, left, unread, warm, usb, hpc, hat, hleft>>
        /\ \A s \in Segs : interval[s] # 0 => interval'[s] # 0
    BY <1>1, <1>4 DEF RStart, AskRead, AskInterval, AskEnd, REnd, Item, Answers,
                     TypeOK, slots, reading, kelvin, world, hv
  <2>2. Watched' <=> Watched
    BY <2>1 DEF Watched
  <2>3. LoopSure'
    BY <1>1, <2>1 DEF LoopSure, TypeOK
  <2>4. SeenSure' /\ FreshSure'
    BY <1>1, <1>2, <2>1, <2>2 DEF SeenSure, FreshSure
  <2>5. QED
    BY <2>3, <2>4
<1>5. QED
  BY <1>3, <1>4 DEF Reader

LEMMA SureRest ==
    ASSUME IInv, \/ (Weather \/ UsbFail) /\ Count(0)
                 \/ Tick /\ Count(1)
                 \/ UNCHANGED vars
    PROVE  LoopSure' /\ SeenSure' /\ FreshSure'
<1> USE DEF Looping
<1>1. TypeOK /\ LoopSure /\ SeenSure /\ FreshSure
  BY DEF IInv
<1>2. CASE (Weather \/ UsbFail) /\ Count(0)
  <2>1. /\ UNCHANGED <<interval, degree, age, kpc, kat, left, unread, hpc, hat, hleft>>
        /\ exposed' = IF Watched' THEN exposed ELSE 0
    BY <1>1, <1>2, IntSure DEF Weather, UsbFail, Count, slots, reading, kelvin, hv
  <2>2. LoopSure' /\ FreshSure'
    BY <1>1, <2>1 DEF LoopSure, FreshSure
  <2>3. CASE ~Watched /\ Watched'
    <3>1. exposed = 0 /\ exposed' = 0
      BY <1>1, <2>1, <2>3 DEF SeenSure
    <3>2. SeenSure'
      BY <1>1, <2>1, <2>3, <3>1, Numbers, IntSure DEF SeenSure
    <3>3. QED
      BY <2>2, <3>2
  <2>4. CASE Watched' => Watched
    <3>1. SeenSure'
      BY <1>1, <2>1, <2>4 DEF SeenSure
    <3>2. QED
      BY <2>2, <3>1
  <2>5. QED
    BY <2>3, <2>4
<1>3. CASE Tick /\ Count(1)
  <2>1. /\ UNCHANGED <<interval, degree, kpc, kat, unread, warm, usb, hpc, hat>>
        /\ kpc = "sleep" => left # 0 /\ left' = IF left > 0 THEN left - 1 ELSE left
        /\ kpc # "sleep" => kpc = "off" /\ left' = left
        /\ age' = IF age < Old THEN age + 1 ELSE Old
        /\ hpc' \in {"off", "busy", "sleep"}
        /\ hpc = "sleep" => hleft > 0
        /\ hleft' = IF hleft > 0 THEN hleft - 1 ELSE hleft
    BY <1>1, <1>3, IntSure, Numbers DEF Tick, slots, world, LoopSure
  <2>2. LoopSure'
    BY <1>1, <2>1, Numbers, IntSure DEF LoopSure
  <2>3. FreshSure'
    BY <1>3 DEF Tick, FreshSure
  <2>4. /\ exposed' \in {0, exposed, exposed + 1}
        /\ ~Watched' => exposed' = 0
        /\ Watched' /\ hpc = "busy" => exposed' = exposed
    BY <1>3, <2>1 DEF Count
  <2>5. Watched' => /\ Watched /\ hpc \in {"busy", "sleep"}
                    /\ left > 0 /\ kpc = "sleep" /\ ~unread
    BY <1>1, <2>1, IntSure, Numbers DEF Watched
  <2>6. Watched => age + left <= Longest \/ kpc # "sleep"
    BY <1>1 DEF Watched, LoopSure
  <2>7. Watched' /\ degree'[kat'] # "hot" => exposed' <= age' /\ exposed' <= Longest
    BY <1>1, <2>1, <2>4, <2>5, <2>6, Numbers, IntSure DEF SeenSure
  <2>8. Watched' => exposed' <= Longest + HvPeriod - hleft'
    BY <1>1, <2>1, <2>4, <2>5, Numbers, IntSure DEF SeenSure
  <2>9. QED
    BY <2>2, <2>3, <2>4, <2>7, <2>8 DEF SeenSure
<1>4. CASE UNCHANGED vars
  BY <1>1, <1>4 DEF LoopSure, SeenSure, FreshSure, Watched, vars, slots,
                    reading, kelvin, world, hv
<1>5. QED
  BY <1>2, <1>3, <1>4

LEMMA SureNext ==
    ASSUME IInv, [Next]_vars
    PROVE  IInv'
<1>1. TypeOK
  BY DEF IInv
<1>2. TypeOK'
  BY <1>1, TypeNext
<1>3. LoopSure' /\ SeenSure' /\ FreshSure'
  BY SureKelvin, SureHv, SureReader, SureRest DEF Next, Steps
<1>4. QED
  BY <1>2, <1>3 DEF IInv

LEMMA Sure == Spec => []IInv
<1>1. Init => IInv
  BY SureInit
<1>2. IInv /\ [Next]_vars => IInv'
  BY SureNext
<1>3. QED
  BY <1>1, <1>2, PTL DEF Spec

(* A temperature over its limit that kelvin and hvmon are there to see has *)
(* ended hvmon after the longest interval and one period of hvmon, the     *)
(* time in which hvmon configures, ramps or carries out commands not       *)
(* counted, in which it checks nothing.                                    *)
THEOREM Deadline == Spec => []ShutInTime
<1>1. IInv => ShutInTime
  BY IntSure, Numbers DEF IInv, SeenSure, ShutInTime
<1>2. QED
  BY <1>1, Sure, PTL

-----------------------------------------------------------------------------
(* The segments.                                                           *)

(* Whoever attaches gets the last segment, which no kelvin has left.       *)
LEMMA LastAttached ==
    ASSUME TypeOK, SegSure, NEW s \in Segs, Attach(s)
    PROVE  /\ s = made' /\ key' = made' /\ made <= made' /\ made' \in Int
           /\ hpc # "off" => key' = key
<1>1. CASE key # 0 /\ s = key /\ made' = made
  BY <1>1 DEF SegSure, Attach, TypeOK
<1>2. CASE key = 0 /\ s = made + 1 /\ made' = s
  <2>1. hpc = "off"
    BY <1>2 DEF SegSure, TypeOK, Segs
  <2>2. QED
    BY <1>2, <2>1 DEF TypeOK, Attach
<1>3. QED
  BY <1>1, <1>2 DEF Attach

(* What changes neither kelvin, nor hvmon, nor what it finds. *)
LEMMA SegSame ==
    ASSUME SegSure, UNCHANGED <<key, made, hpc, hat, kat, pid, degree>>,
           kpc' = kpc \/ (kpc \notin {"off", "conf"} /\ kpc' \notin {"off", "conf"})
    PROVE  SegSure'
BY DEF SegSure

(* Nor does the end of kelvin change any of it. *)
LEMMA SegGone ==
    ASSUME TypeOK, SegSure, Gone, UNCHANGED <<key, made, hat, degree>>,
           hpc' = "off" <=> hpc = "off"
    PROVE  SegSure'
<1>1. kpc' = "off" /\ kat' = 0
  BY DEF Gone
<1>2. \A s \in Segs : pid'[s] # "kelvin"
  BY DEF Gone
<1>3. 0 <= made
  BY Numbers DEF TypeOK
<1>4. QED
  BY <1>1, <1>2, <1>3 DEF SegSure

LEMMA SegSignal ==
    ASSUME TypeOK, SegSure, NEW s \in Segs, Signal(s),
           UNCHANGED <<key, made, hat, degree>>, hpc' = "off" <=> hpc = "off",
           \/ hpc' = hpc
           \/ s = hat /\ (hpc' = "wait" => pid[s] = "kelvin")
    PROVE  SegSure'
<1>1. CASE Gone
  BY <1>1, SegGone
<1>2. CASE UNCHANGED <<kat, pid>>
           /\ (kpc' = kpc \/ (kpc = "sleep" /\ kpc' = "test"))
  <2>1. hpc' = "wait" /\ kpc' # "off" => kat = hat
    BY <1>2 DEF SegSure
  <2>2. QED
    BY <1>2, <2>1 DEF SegSure
<1>3. QED
  BY <1>1, <1>2, SignalCases

LEMMA SegKelvin ==
    ASSUME TypeOK, SegSure, KelvinStep
    PROVE  SegSure'
<1>1. CASE KStart
  <2>1. PICK s \in Segs : Attach(s) /\ kat' = s
    BY <1>1 DEF KStart
  <2>2. /\ kpc = "off" /\ kpc' = "conf"
        /\ UNCHANGED <<pid, degree, hpc, hat>>
    BY <1>1 DEF KStart, slots, reading, hv
  <2>3. /\ kat' = made' /\ key' = made' /\ made <= made' /\ made' \in Int
        /\ hpc # "off" => key' = key
    BY <2>1, LastAttached
  <2>4. \A t \in Segs : pid'[t] # "kelvin"
    BY <2>2 DEF SegSure
  <2>5. \A t \in Segs : t > made' => degree'[t] = "none"
    BY <2>2, <2>3 DEF SegSure, TypeOK, Segs
  <2>6. kat' <= made'
    BY <2>3
  <2>7. hpc' # "off" => hat' = key' /\ kat' = hat'
    BY <2>2, <2>3 DEF SegSure
  <2>8. QED
    BY <2>3, <2>4, <2>5, <2>6, <2>7 DEF SegSure
<1>2. CASE KConf
  <2>1. /\ kpc = "conf" /\ kpc' = "handler" /\ kat \in Segs
        /\ UNCHANGED <<key, made, kat, hpc, hat>>
        /\ degree' = [degree EXCEPT ![kat] = Read]
        /\ pid' = [pid EXCEPT ![kat] = "kelvin"]
    BY <1>2 DEF KConf, names, hv, TypeOK
  <2>2. \A s \in Segs : pid'[s] = "kelvin" => s = kat
    BY <2>1 DEF SegSure, TypeOK
  <2>3. \A s \in Segs : s # kat => degree'[s] = degree[s]
    BY <2>1 DEF TypeOK
  <2>4. kat <= made /\ made \in Int /\ kat \in Int
    BY <2>1 DEF SegSure, TypeOK, Segs
  <2>5. QED
    BY <2>1, <2>2, <2>3, <2>4 DEF SegSure, Segs
<1>3. CASE KSwitch
  <2>1. /\ kpc = "switch" /\ kpc' = "nap" /\ kat \in Segs
        /\ UNCHANGED <<key, made, kat, pid, hpc, hat>>
        /\ degree' = degree \/ degree' = [degree EXCEPT ![kat] = Read]
    BY <1>3 DEF KSwitch, names, hv, TypeOK, Looping
  <2>2. \A s \in Segs : s # kat => degree'[s] = degree[s]
    BY <2>1 DEF TypeOK
  <2>3. kat <= made /\ made \in Int /\ kat \in Int
    BY <2>1 DEF SegSure, TypeOK, Segs
  <2>4. QED
    BY <2>1, <2>2, <2>3 DEF SegSure, Segs
<1>4. CASE KReady \/ KSleep \/ KWake \/ (KTest /\ ~Gone)
  BY <1>4, SegSame DEF KReady, KSleep, KWake, KTest, names, slots, reading, hv
<1>5. CASE (KTest \/ KDie) /\ Gone
  BY <1>5, SegGone DEF KTest, KDie, names, hv
<1>6. QED
  BY <1>1, <1>2, <1>3, <1>4, <1>5 DEF KelvinStep, KDie

LEMMA SegHv ==
    ASSUME TypeOK, SegSure, HvStep
    PROVE  SegSure'
<1>1. CASE HStart
  <2>1. PICK s \in Segs : Attach(s) /\ hat' = s
    BY <1>1 DEF HStart
  <2>2. hpc' = "busy" /\ UNCHANGED <<kpc, kat, pid, degree>>
    BY <1>1 DEF HStart, slots, reading, kelvin
  <2>3. hat' = made' /\ key' = made' /\ made <= made' /\ made' \in Int
    BY <2>1, LastAttached
  <2>4. kat' <= made'
    BY <2>2, <2>3 DEF SegSure, TypeOK, Segs
  <2>5. \A t \in Segs : t > made' => t > made
    BY <2>3 DEF TypeOK, Segs
  <2>6. QED
    BY <2>2, <2>3, <2>4, <2>5 DEF SegSure
<1>2. CASE ((HCheck \/ HStop) /\ HEnd) \/ HDie
  <2>1. /\ hpc' = "off" /\ key' \in {0, key}
        /\ UNCHANGED <<made, kpc, kat, pid, degree>>
    BY <1>2 DEF HCheck, HStop, HEnd, HDie, names, slots, reading, kelvin
  <2>2. QED
    BY <2>1 DEF SegSure
<1>3. CASE (HCheck /\ ~HEnd) \/ HReady \/ HWake \/ HAsk \/ HWaited
  <2>1. /\ hpc # "off" /\ hpc' \in {"busy", "check", "sleep", "kick"}
        /\ UNCHANGED <<key, made, hat, kpc, kat, pid, degree>>
    BY <1>3 DEF HCheck, HReady, HWake, HAsk, HWaited, names, slots, reading,
                kelvin
  <2>2. QED
    BY <2>1 DEF SegSure
<1>4. CASE HKick
  <2>1. /\ Signal(hat) /\ hat \in Segs /\ UNCHANGED <<key, made, hat, degree>>
        /\ hpc = "kick" /\ hpc' \in {"wait", "lost"}
        /\ hpc' = "wait" => pid[hat] = "kelvin"
    BY <1>4 DEF HKick, names, TypeOK
  <2>2. QED
    BY <2>1, SegSignal
<1>5. QED
  BY <1>1, <1>2, <1>3, <1>4 DEF HvStep, HStop

LEMMA SegReader ==
    ASSUME TypeOK, SegSure, NEW r \in Readers, Reader(r)
    PROVE  SegSure'
<1>1. CASE RStart(r)
  <2>1. PICK s \in Segs : Attach(s)
    BY <1>1 DEF RStart
  <2>2. UNCHANGED <<kpc, kat, pid, degree, hpc, hat>>
    BY <1>1 DEF RStart, slots, reading, kelvin, hv
  <2>3. /\ key' = made' /\ made <= made' /\ made' \in Int
        /\ hpc # "off" => key' = key
    BY <2>1, LastAttached
  <2>4. kat' <= made'
    BY <2>2, <2>3 DEF SegSure, TypeOK, Segs
  <2>5. \A t \in Segs : t > made' => t > made
    BY <2>3 DEF TypeOK, Segs
  <2>6. QED
    BY <2>2, <2>3, <2>4, <2>5 DEF SegSure
<1>2. CASE RKill(r)
  <2>1. /\ Signal(rat[r]) /\ rat[r] \in 0..MaxSeg /\ rat[r] # 0
        /\ UNCHANGED <<key, made, hpc, hat, degree>>
    BY <1>2 DEF RKill, names, hv, TypeOK
  <2>2. rat[r] \in Segs
    BY <2>1, Numbers DEF Segs
  <2>3. QED
    BY <2>1, <2>2, SegSignal
<1>3. CASE AskRead(r) \/ AskInterval(r) \/ AskEnd(r) \/ REnd(r)
  BY <1>3, SegSame DEF AskRead, AskInterval, AskEnd, REnd, Item, names, slots,
                       reading, kelvin, hv
<1>4. QED
  BY <1>1, <1>2, <1>3 DEF Reader

LEMMA SegNext ==
    ASSUME TypeOK, SegSure, [Next]_vars
    PROVE  SegSure'
<1>1. CASE Weather \/ UsbFail \/ Tick \/ UNCHANGED vars
  BY <1>1, SegSame DEF Weather, UsbFail, Tick, vars, names, slots, reading,
                       kelvin, hv
<1>2. QED
  BY <1>1, SegKelvin, SegHv, SegReader DEF Next, Steps

LEMMA Segments == Spec => []SegSure
<1>1. Init => SegSure
  BY DEF Init, SegSure
<1>2. TypeOK /\ SegSure /\ [Next]_vars => SegSure'
  BY SegNext
<1>3. QED
  BY <1>1, <1>2, TypeCorrect, PTL DEF Spec

(* What hvmon checks two seconds after its signal found kelvin asleep is a *)
(* new reading in its own segment, unless a menu program changed the       *)
(* interval in between.                                                    *)
THEOREM AskedNew == Spec => []AskedIsNew
<1>1. IInv /\ SegSure => AskedIsNew
  BY DEF IInv, FreshSure, SegSure, AskedIsNew
<1>2. QED
  BY <1>1, Sure, Segments, PTL

(* An hvmon whose segment is not the one a running kelvin is attached to   *)
(* finds no thermometers there: it never decides by temperatures that have *)
(* been left in a segment.                                                 *)
THEOREM NothingStale == Spec => []NoStaleSegment
<1>1. TypeOK /\ SegSure => NoStaleSegment
  <2>1. SUFFICES ASSUME TypeOK, SegSure, hpc # "off", kpc # "off", kat # hat
                 PROVE  degree[hat] = "none"
    BY DEF NoStaleSegment
  <2>2. hat \in Segs /\ kat \in Segs /\ hat = made /\ kat <= made
    BY <2>1, Numbers DEF TypeOK, SegSure, Segs
  <2>3. hat > kat
    BY <2>1, <2>2, Numbers DEF Segs
  <2>4. QED
    BY <2>1, <2>2, <2>3 DEF SegSure
<1>2. QED
  BY <1>1, TypeCorrect, Segments, PTL

=============================================================================
