---------------------------- MODULE HvShm_proofs ----------------------------
(***************************************************************************)
(* Proofs about HvShm, for every number of segments and of menu programs   *)
(* and every choice of menu items.                                         *)
(***************************************************************************)
EXTENDS HvShm, TLAPS

-----------------------------------------------------------------------------
(* Types. *)

LEMMA Bound == MaxSeg \in Nat \ {0}
BY ShmAssumption

(* Where attaching leads, and that no segment in use is beyond it.         *)
LEMMA AttachType ==
    ASSUME TypeOK, NEW s \in Segs, Attach(s)
    PROVE  /\ made' \in 0..MaxSeg /\ made' >= made
           /\ key' = s /\ key' = made' /\ s \in 1..made'
BY Bound DEF TypeOK, Attach, Segs

LEMMA RemoveType ==
    ASSUME TypeOK, NEW s, Remove(s)
    PROVE  made' = made /\ key' \in {0, made}
BY DEF TypeOK, Remove

LEMMA GoneType ==
    ASSUME TypeOK, Gone
    PROVE  /\ hpc' = "off" /\ hat' = 0 /\ job' = 0
           /\ pid' \in [Segs -> {"none", "hvmon", "old"}]
<1>1. hpc' = "off" /\ hat' = 0 /\ job' = 0
  BY DEF Gone
<1>2. \A s \in Segs : pid[s] \in {"none", "hvmon", "old"}
  BY DEF TypeOK
<1>3. pid' \in [Segs -> {"none", "hvmon", "old"}]
  BY <1>2 DEF Gone
<1>4. QED
  BY <1>1, <1>3

(* What TypeOK says of hvmon, and of one menu program.                     *)
HvType == /\ hpc \in {"off", "pid", "handler", "conf", "exit"} \cup Looping
          /\ hat \in IF hpc = "off" THEN {0} ELSE 1..made
          /\ job \in {0} \cup Plain \cup Calls
MenuType == /\ rpc \in [Readers -> {"off", "menu", "kill", "last", "leave",
                                    "remove"}]
            /\ rat \in [Readers -> 0..made]
            /\ \A r \in Readers : rat[r] = 0 <=> rpc[r] = "off"
AuxType == /\ late \subseteq Readers
           /\ left \in BOOLEAN /\ removed \in BOOLEAN /\ died \in BOOLEAN
SegType == /\ made \in 0..MaxSeg /\ key \in {0, made}
           /\ pid \in [Segs -> {"none", "hvmon", "old"}]
           /\ com0 \in [Segs -> Commands]

LEMMA TypeParts == TypeOK <=> SegType /\ HvType /\ MenuType /\ AuxType
BY DEF TypeOK, SegType, HvType, MenuType, AuxType

LEMMA MenusQuiet ==
    ASSUME MenuType, UNCHANGED menus, made' >= made,
           made \in 0..MaxSeg, made' \in 0..MaxSeg
    PROVE  MenuType'
<1>1. rat \in [Readers -> 0..made']
  BY Bound DEF MenuType
<1>2. QED
  BY <1>1 DEF MenuType, menus

LEMMA OffType ==
    ASSUME MenuType, NEW r \in Readers, Off(r), UNCHANGED made, made \in 0..MaxSeg
    PROVE  MenuType'
<1>1. rpc' \in [Readers -> {"off", "menu", "kill", "last", "leave", "remove"}]
  BY DEF MenuType, Off
<1>2. rat' \in [Readers -> 0..made']
  BY Bound DEF MenuType, Off
<1>3. \A q \in Readers : rat'[q] = 0 <=> rpc'[q] = "off"
  BY DEF MenuType, Off
<1>4. QED
  BY <1>1, <1>2, <1>3 DEF MenuType

LEMMA TypeDaemon ==
    ASSUME TypeOK, Daemon
    PROVE  TypeOK'
<1> USE DEF TypeOK, names, slots, menus, aux
<1>1. CASE HStart
  <2>1. PICK s \in Segs : Attach(s) /\ hat' = s
    BY <1>1 DEF HStart
  <2>2. SegType'
    BY <1>1, <2>1, AttachType DEF HStart, SegType
  <2>3. HvType'
    BY <1>1, <2>1, AttachType DEF HStart, HvType
  <2>4. MenuType'
    BY <1>1, <2>1, AttachType, MenusQuiet, TypeParts DEF HStart
  <2>5. AuxType'
    BY <1>1 DEF HStart, AuxType
  <2>6. QED
    BY <2>2, <2>3, <2>4, <2>5 DEF SegType, HvType, MenuType, AuxType
<1>2. CASE HPid
  BY <1>2 DEF HPid, Segs
<1>3. CASE HHandler
  BY <1>3 DEF HHandler
<1>4. CASE HConf
  BY <1>4 DEF HConf, Segs, Commands, Looping, Plain
<1>5. CASE HTest
  BY <1>5 DEF HTest, Looping
<1>6. CASE HSwitch
  BY <1>6 DEF HSwitch, Looping, Commands, Plain
<1>7. CASE HWake
  BY <1>7 DEF HWake, Looping
<1>8. CASE HWork
  <2>1. PICK c \in {0, -1, 2} : com0' = [com0 EXCEPT ![hat] = c]
    BY <1>8 DEF HWork
  <2>2. com0' \in [Segs -> Commands]
    BY <2>1 DEF Commands, Plain
  <2>3. QED
    BY <1>8, <2>2 DEF HWork, Looping
<1>9. CASE HExit
  BY <1>9, GoneType, RemoveType DEF HExit
<1>10. CASE HDie
  BY <1>10, GoneType DEF HDie
<1>11. QED
  BY <1>1, <1>2, <1>3, <1>4, <1>5, <1>6, <1>7, <1>8, <1>9, <1>10 DEF Daemon

LEMMA TypeReader ==
    ASSUME TypeOK, NEW r \in Readers, Reader(r)
    PROVE  TypeOK'
<1> USE DEF TypeOK, names, slots, hv, menus, aux
<1>1. CASE RStart(r)
  <2>1. PICK s \in Segs : Attach(s) /\ rat' = [rat EXCEPT ![r] = s]
    BY <1>1 DEF RStart
  <2>2. SegType'
    BY <1>1, <2>1, AttachType DEF RStart, SegType
  <2>3. HvType'
    BY <1>1, <2>1, AttachType, Bound DEF RStart, HvType
  <2>4. MenuType'
    <3>1. rat' \in [Readers -> 0..made']
      BY <2>1, AttachType, Bound
    <3>2. rpc' = [rpc EXCEPT ![r] = "menu"] /\ s # 0
      BY <1>1, Bound DEF RStart, Segs
    <3>3. QED
      BY <2>1, <3>1, <3>2 DEF MenuType
  <2>5. AuxType'
    BY <1>1 DEF RStart, AuxType
  <2>6. QED
    BY <2>2, <2>3, <2>4, <2>5 DEF SegType, HvType, MenuType, AuxType
<1>2. ASSUME NEW c \in Commands, NEW p \in {"menu", "kill", "last"}, Item(r, c, p)
      PROVE  TypeOK'
  <2>1. left' \in BOOLEAN
    BY <1>2 DEF Item
  <2>2. QED
    BY <1>2, <2>1 DEF Item
<1>3. CASE Ask(r) \/ Order(r) \/ EndAll(r)
  BY <1>2, <1>3 DEF Ask, Order, EndAll, Commands
<1>4. CASE EndThis(r)
  BY <1>4 DEF EndThis
<1>5. CASE Kill(r)
  <2>1. SegType' /\ HvType'
    <3>1. CASE Gone
      BY <1>5, <3>1, GoneType DEF Kill, SegType, HvType
    <3>2. CASE UNCHANGED <<pid, hv>>
      BY <1>5, <3>2 DEF Kill, SegType, HvType
    <3>3. QED
      BY <1>5, <3>1, <3>2 DEF Kill
  <2>2. MenuType'
    <3>1. CASE Off(r)
      BY <1>5, <3>1, OffType, TypeParts DEF Kill
    <3>2. CASE ~Off(r)
      BY <1>5, <3>2 DEF Kill, MenuType
    <3>3. QED
      BY <3>1, <3>2
  <2>3. died' \in BOOLEAN
    BY <1>5 DEF Kill
  <2>4. AuxType'
    BY <1>5, <2>3 DEF Kill, AuxType
  <2>5. QED
    BY <2>1, <2>2, <2>4 DEF SegType, HvType, MenuType, AuxType
<1>6. CASE End(r)
  <2>1. removed' \in BOOLEAN
    BY <1>6 DEF End
  <2>2. MenuType'
    BY <1>6, OffType, RemoveType, TypeParts DEF End
  <2>3. SegType' /\ HvType' /\ AuxType'
    BY <1>6, <2>1, RemoveType DEF End, SegType, HvType, AuxType
  <2>4. QED
    BY <2>2, <2>3 DEF SegType, HvType, MenuType, AuxType
<1>7. CASE RDie(r)
  <2>1. MenuType'
    BY <1>7, OffType, TypeParts DEF RDie
  <2>2. SegType' /\ HvType' /\ AuxType'
    BY <1>7 DEF RDie, SegType, HvType, AuxType
  <2>3. QED
    BY <2>1, <2>2 DEF SegType, HvType, MenuType, AuxType
<1>8. QED
  BY <1>1, <1>3, <1>4, <1>5, <1>6, <1>7 DEF Reader

LEMMA TypeInit ==
    ASSUME Init
    PROVE  TypeOK
<1>1. left \in BOOLEAN /\ removed \in BOOLEAN /\ died \in BOOLEAN
  BY DEF Init
<1>2. QED
  BY <1>1, Bound DEF Init, TypeOK, Commands

(* Types are kept by every step of hvmon and of its menu programs.         *)
THEOREM TypeCorrect == Spec => []TypeOK
<1>1. Init => TypeOK
  BY TypeInit
<1>2. TypeOK /\ [Next]_vars => TypeOK'
  <2>1. SUFFICES ASSUME TypeOK, [Next]_vars PROVE TypeOK'
    OBVIOUS
  <2>2. CASE UNCHANGED vars
    BY <2>1, <2>2 DEF TypeOK, vars, names, slots, hv, menus, aux
  <2>3. QED
    BY <2>1, <2>2, TypeDaemon, TypeReader DEF Next
<1>3. QED
  BY <1>1, <1>2, PTL DEF Spec

-----------------------------------------------------------------------------
(* Commands from before. *)

(* hvmon never carries out, or ends on, a command it found in a segment    *)
(* that a stopped program left behind.                                     *)
THEOREM OldNever == Spec => []NoOldCommand
<1>1. Init => NoOldCommand
  BY DEF Init, NoOldCommand
<1>2. NoOldCommand /\ [Next]_vars => NoOldCommand'
  <2> SUFFICES ASSUME NoOldCommand, [Next]_vars PROVE NoOldCommand'
    OBVIOUS
  <2> USE DEF NoOldCommand, Looping
  <2>1. CASE Daemon
    BY <2>1 DEF Daemon, HStart, HPid, HHandler, HConf, HTest, HSwitch, HWake,
                HWork, HExit, HDie, Gone, aux
  <2>2. ASSUME NEW r \in Readers, Reader(r)
        PROVE  NoOldCommand'
    <3>1. CASE Ask(r) \/ Order(r) \/ EndAll(r)
      BY <3>1 DEF Ask, Order, EndAll, Item, hv
    <3>2. CASE RStart(r) \/ EndThis(r) \/ End(r) \/ RDie(r)
      BY <3>2 DEF RStart, EndThis, End, RDie, hv, aux
    <3>3. CASE Kill(r)
      BY <3>3 DEF Kill, Gone, hv
    <3>4. QED
      BY <2>2, <3>1, <3>2, <3>3 DEF Reader
  <2>3. CASE UNCHANGED vars
    BY <2>3 DEF vars, hv, aux
  <2>4. QED
    BY <2>1, <2>2, <2>3 DEF Next
<1>3. QED
  BY <1>1, <1>2, PTL DEF Spec

-----------------------------------------------------------------------------
(* The segment of hvmon. *)

(* The key stays with hvmon's segment until a menu program removes it, so  *)
(* whoever attaches finds that one.                                        *)
KeySure == hpc # "off" /\ ~removed => key = hat /\ key # 0

SegInv == KeySure /\ SameSegment

LEMMA SegDaemon ==
    ASSUME TypeOK, SegInv, Daemon
    PROVE  SegInv'
<1> USE DEF SegInv, KeySure, SameSegment
<1>1. CASE HStart
  BY <1>1, Bound DEF HStart, Attach, Segs
<1>2. CASE HExit \/ HDie
  BY <1>2 DEF HExit, HDie, Gone
<1>3. CASE \/ HPid \/ HHandler \/ HConf \/ HTest \/ HSwitch \/ HWake \/ HWork
  BY <1>3 DEF HPid, HHandler, HConf, HTest, HSwitch, HWake, HWork,
              names, menus, aux
<1>4. QED
  BY <1>1, <1>2, <1>3 DEF Daemon

LEMMA SegReader ==
    ASSUME TypeOK, SegInv, NEW r \in Readers, Reader(r)
    PROVE  SegInv'
<1> USE DEF SegInv, KeySure, SameSegment
<1>1. CASE RStart(r)
  <2>1. PICK s \in Segs : Attach(s) /\ rat' = [rat EXCEPT ![r] = s]
    BY <1>1 DEF RStart
  <2>2. hpc # "off" /\ ~removed => s = hat /\ key' = key
    BY <2>1 DEF Attach
  <2>3. QED
    BY <1>1, <2>1, <2>2 DEF RStart, TypeOK, hv
<1>2. CASE Ask(r) \/ Order(r) \/ EndAll(r) \/ EndThis(r)
  <2>1. /\ UNCHANGED <<names, hv, rat, removed, late>>
        /\ \A q \in Readers : rpc'[q] # "off" => rpc[q] # "off"
    BY <1>2 DEF Ask, Order, EndAll, EndThis, Item, TypeOK, aux
  <2>2. QED
    BY <2>1 DEF TypeOK, names, hv
<1>3. CASE Kill(r)
  <2>1. hpc' # "off" => UNCHANGED <<hpc, hat>>
    BY <1>3 DEF Kill, Gone, hv
  <2>2. \A q \in Readers : rpc'[q] # "off" => rpc[q] # "off" /\ rat'[q] = rat[q]
    BY <1>3 DEF Kill, Off, TypeOK
  <2>3. QED
    BY <1>3, <2>1, <2>2 DEF Kill, names, TypeOK
<1>4. CASE End(r) \/ RDie(r)
  <2>1. \A q \in Readers : rpc'[q] # "off" => rpc[q] # "off" /\ rat'[q] = rat[q]
    BY <1>4 DEF End, RDie, Off, TypeOK
  <2>2. UNCHANGED <<hv, late>>
    BY <1>4 DEF End, RDie
  <2>3. ~removed' => ~removed /\ key' = key
    <3>1. CASE End(r)
      <4>1. ~removed' => ~removed /\ rat[r] # key
        BY <3>1, Zenon DEF End
      <4>2. QED
        BY <3>1, <4>1 DEF End, Remove
    <3>2. CASE RDie(r)
      BY <3>2 DEF RDie, names
    <3>3. QED
      BY <1>4, <3>1, <3>2
  <2>4. QED
    BY <2>1, <2>2, <2>3 DEF TypeOK, hv
<1>5. QED
  BY <1>1, <1>2, <1>3, <1>4 DEF Reader

(* As long as no menu program has ended on it, every menu program started  *)
(* after hvmon is attached to hvmon's segment.                             *)
THEOREM OneSegment == Spec => []SameSegment
<1>1. Init => SegInv
  BY DEF Init, SegInv, KeySure, SameSegment
<1>2. TypeOK /\ SegInv /\ [Next]_vars => SegInv'
  <2>1. SUFFICES ASSUME TypeOK, SegInv, [Next]_vars PROVE SegInv'
    OBVIOUS
  <2>2. CASE UNCHANGED vars
    BY <2>1, <2>2 DEF SegInv, KeySure, SameSegment,
                      vars, names, hv, menus, aux
  <2>3. QED
    BY <2>1, <2>2, SegDaemon, SegReader DEF Next
<1>3. SegInv => SameSegment
  BY DEF SegInv
<1>4. QED
  BY <1>1, <1>2, <1>3, TypeCorrect, PTL DEF Spec

-----------------------------------------------------------------------------
(* What is left behind. *)

(* The segment of the key has somebody attached to it, unless a program    *)
(* was stopped before its end.                                             *)
THEOREM NothingLeft == Spec => []NoneLeftBehind
<1>1. Init => NoneLeftBehind
  BY DEF Init, NoneLeftBehind
<1>2. TypeOK /\ NoneLeftBehind /\ [Next]_vars => NoneLeftBehind'
  <2> SUFFICES ASSUME TypeOK, NoneLeftBehind, [Next]_vars
               PROVE  NoneLeftBehind'
    OBVIOUS
  <2> USE DEF NoneLeftBehind
  <2>1. CASE Daemon
    <3>1. CASE HStart
      BY <3>1 DEF HStart, Attach
    <3>2. CASE HExit
      BY <3>2 DEF HExit, Remove, menus, aux
    <3>3. CASE HDie
      BY <3>3 DEF HDie
    <3>4. CASE \/ HPid \/ HHandler \/ HConf \/ HTest \/ HSwitch \/ HWake
               \/ HWork
      BY <3>4 DEF HPid, HHandler, HConf, HTest, HSwitch, HWake, HWork,
                  names, menus, aux
    <3>5. QED
      BY <2>1, <3>1, <3>2, <3>3, <3>4 DEF Daemon
  <2>2. ASSUME NEW r \in Readers, Reader(r)
        PROVE  NoneLeftBehind'
    <3>1. CASE RStart(r)
      BY <3>1 DEF RStart, Attach, TypeOK
    <3>2. CASE Ask(r) \/ Order(r) \/ EndAll(r) \/ EndThis(r)
      BY <3>2 DEF Ask, Order, EndAll, EndThis, Item, names, hv, aux
    <3>3. CASE Kill(r)
      <4>1. ~died' => ~died /\ UNCHANGED <<rat, hv>>
        BY <3>3 DEF Kill
      <4>2. QED
        BY <3>3, <4>1 DEF Kill, names, hv
    <3>4. CASE End(r)
      <4>1. CASE rat[r] = key
        BY <3>4, <4>1 DEF End, Remove
      <4>2. CASE rat[r] # key
        <5>1. \A q \in Readers : rat[q] = key => rat'[q] = key
          BY <3>4, <4>2 DEF End, Off, TypeOK
        <5>2. QED
          BY <3>4, <4>2, <5>1 DEF End, Remove, hv
      <4>3. QED
        BY <4>1, <4>2
    <3>5. CASE RDie(r)
      BY <3>5 DEF RDie
    <3>6. QED
      BY <2>2, <3>1, <3>2, <3>3, <3>4, <3>5 DEF Reader
  <2>3. CASE UNCHANGED vars
    BY <2>3 DEF vars, names, hv, menus, aux
  <2>4. QED
    BY <2>1, <2>2, <2>3 DEF Next
<1>3. QED
  BY <1>1, <1>2, TypeCorrect, PTL DEF Spec

=============================================================================
