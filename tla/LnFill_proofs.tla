--------------------------- MODULE LnFill_proofs ---------------------------
(***************************************************************************)
(* Proofs about LnFill: its invariants hold for every table of detectors,  *)
(* every number of menu programs and every choice of intervals, limits and *)
(* menu items.  IInv (LnFill) is the inductive invariant.                  *)
(***************************************************************************)
EXTENDS LnFill, FiniteSetTheorems, TLAPS

-----------------------------------------------------------------------------
(* The entries a fill can be for are the table and the one behind it. *)
LEMMA Table ==
    /\ NDet \in Nat /\ NDet \in Entries /\ NDet \notin Dets
    /\ Dets \subseteq Entries /\ Entries \subseteq Nat
    /\ \A e \in Entries : e \in Dets \/ e = NDet
    /\ \A e \in Entries : Outlet(e) \in Dets
    /\ \A d \in Dets : Outlet(d) = d
    /\ 0 \in Dets
<1>1. NDet \in 1..20
  BY NDetAssumption
<1>2. /\ NDet \in Nat /\ NDet \in Entries /\ NDet \notin Dets
      /\ Dets \subseteq Entries /\ Entries \subseteq Nat
      /\ \A e \in Entries : e \in Dets \/ e = NDet
      /\ 0 \in Dets
  BY <1>1 DEF Dets, Entries
<1>3. QED
  BY <1>2 DEF Outlet

(* Sets of entries are finite and can be counted. *)
LEMMA DetSets ==
    ASSUME NEW S, S \subseteq Entries
    PROVE  IsFiniteSet(S) /\ Cardinality(S) \in Nat
<1>1. IsFiniteSet(Entries)
  BY NDetAssumption, FS_Interval, SMT DEF Entries
<1>2. IsFiniteSet(S)
  BY <1>1, FS_Subset
<1>3. QED
  BY <1>2, FS_CardinalityType

(* A detector taken from a set of detectors makes it smaller by one. *)
LEMMA OneLess ==
    ASSUME NEW S, S \subseteq Entries, NEW d \in S
    PROVE  Cardinality(S \ {d}) = Cardinality(S) - 1
BY DetSets, FS_RemoveElement

-----------------------------------------------------------------------------
(* Types. *)

(* What a scan makes of the overflow readings: those behind the table it   *)
(* leaves as they are.                                                     *)
LEMMA OfloTyped ==
    ASSUME TypeOK, NEW on, NEW rtd, NEW fresh \in [Dets -> OfloSeen],
           oflo' = [d \in Entries |->
                       IF d \in Dets THEN ScanOflo(on, status, rtd, oflo, fresh)[d]
                                     ELSE oflo[d]]
    PROVE  oflo' \in [Entries -> BOOLEAN]
<1>1. \A d \in Dets : ScanOflo(on, status, rtd, oflo, fresh)[d] \in BOOLEAN
  BY Table, FillAssumption DEF ScanOflo, TypeOK
<1>2. \A d \in Entries : oflo[d] \in BOOLEAN
  BY DEF TypeOK
<1>3. QED
  BY <1>1, <1>2

LEMMA ScanTyped ==
    ASSUME TypeOK, NEW forced, NEW word \in Statuses, ScanThen(forced, word)
    PROVE  /\ status' \in [Dets -> Statuses]
           /\ oflo' \in [Entries -> BOOLEAN]
<1>1. PICK rtd \in [Dets -> RtdSeen], fresh \in [Dets -> OfloSeen] :
        LET new == ScanStatus(onoff, status, rtd, command \in {7, 8})
        IN  /\ status' = [d \in Dets |-> IF d \in forced THEN word
                                                         ELSE new[d]]
            /\ LET read == ScanOflo(onoff, status, rtd, oflo, fresh)
               IN oflo' = [d \in Entries |-> IF d \in Dets THEN read[d]
                                                            ELSE oflo[d]]
  BY DEF ScanThen
<1> DEFINE new == ScanStatus(onoff, status, rtd, command \in {7, 8})
<1>2. new \in [Dets -> Statuses]
  BY DEF TypeOK, ScanStatus, Statuses
<1>3. oflo' \in [Entries -> BOOLEAN]
  BY <1>1, OfloTyped
<1>4. QED
  BY <1>1, <1>2, <1>3

LEMMA RearmTyped ==
    ASSUME TypeOK, NEW d
    PROVE  Rearm(d) \in [Dets -> Nat]
BY FillAssumption DEF TypeOK, Rearm

LEMMA FinishTyped ==
    ASSUME TypeOK, NEW d \in Entries, NEW word \in Statuses, Finish(d, word)
    PROVE  /\ mm' \in Int
           /\ det' \in [Dets -> Valve]
           /\ actkk' \in [Entries -> 0..(NCold - 1) \cup {Full}]
           /\ next' \in [Dets -> Nat]
           /\ status' \in [Dets -> Statuses]
           /\ oflo' \in [Entries -> BOOLEAN]
<1>1. ScanThen({d}, word)
  BY DEF Finish
<1>2. /\ status' \in [Dets -> Statuses]
      /\ oflo' \in [Entries -> BOOLEAN]
  BY <1>1, ScanTyped
<1>3. next' \in [Dets -> Nat]
  BY RearmTyped DEF Finish
<1>4. mm' \in Int
  BY DEF Finish, TypeOK
<1>5. det' \in [Dets -> Valve]
  BY DEF Finish, Shut, TypeOK, Valve
<1>6. actkk' \in [Entries -> 0..(NCold - 1) \cup {Full}]
  BY DEF Finish, TypeOK
<1>7. QED
  BY <1>2, <1>3, <1>4, <1>5, <1>6

LEMMA Zeros ==
    /\ 0 \in Int /\ 0 \in Nat /\ 0 \in 0..NCold
    /\ [d \in Entries |-> 0] \in [Entries -> 0..(NCold - 1) \cup {Full}]
<1>1. 0 \in Int /\ 0 \in Nat /\ 0 \in 0..NCold /\ 0 \in 0..(NCold - 1)
  BY FillAssumption
<1>2. QED
  BY <1>1

LEMMA InitInv == Init => IInv
<1> SUFFICES ASSUME Init PROVE IInv
  OBVIOUS
<1>1. TypeOK
  <2>1. 0 \in Commands /\ "test" \in PC
    BY DEF Commands, PC
  <2>2. next \in [Dets -> Nat]
    BY FillAssumption DEF Init
  <2>3. com1 \in -1..NDet
    BY FillAssumption DEF Init
  <2>4. mm \in Int /\ elapsed \in Nat /\ kk \in 0..NCold
    BY Zeros DEF Init
  <2>5. actkk \in [Entries -> 0..(NCold - 1) \cup {Full}]
    BY Zeros DEF Init
  <2>6. /\ onoff \in [Dets -> BOOLEAN] /\ oflo \in [Entries -> BOOLEAN]
        /\ init \in BOOLEAN /\ twice \in BOOLEAN
    <3>1. onoff \in [Dets -> BOOLEAN]
      <4>1. \A d \in Dets : (d \in InitOn) \in BOOLEAN
        OBVIOUS
      <4>2. onoff = [d \in Dets |-> d \in InitOn]
        BY DEF Init
      <4>3. QED
        BY <4>1, <4>2
    <3>2. oflo \in [Entries -> BOOLEAN]
      <4>1. \A d \in Entries : (d \in Dets) \in BOOLEAN
        OBVIOUS
      <4>2. oflo = [d \in Entries |-> d \in Dets]
        BY DEF Init
      <4>3. QED
        BY <4>1, <4>2
    <3>3. init = FALSE /\ twice = FALSE
      BY DEF Init
    <3>4. QED
      BY <3>1, <3>2, <3>3
  <2>7. /\ status \in [Dets -> Statuses] /\ det \in [Dets -> Valve]
        /\ tank \in Valve /\ mani \in Valve
    BY DEF Init, Valve, Statuses
  <2>8. /\ active \subseteq Entries /\ todo \subseteq Entries
        /\ rpc \in [Readers -> {"menu", "edit", "few", "many", "one", "gone"}]
    BY DEF Init
  <2>9. command \in Commands /\ pc \in PC
    BY <2>1 DEF Init
  <2>10. interval \in [Dets -> Nat] /\ max \in [Dets -> Nat]
    BY FillAssumption DEF Init
  <2>11. QED
    BY <2>2, <2>3, <2>4, <2>5, <2>6, <2>7, <2>8, <2>9, <2>10 DEF TypeOK
<1>2. Control
  BY DEF Init, Control, Cooled, Filled, Before, Closing, OneValve,
         LoopValves, LoopCount, FillLoop
<1>3. QED
  BY <1>1, <1>2 DEF IInv

(* Type correctness of the steps of the daemon's main loop. *)
LEMMA CycleTyped == ASSUME TypeOK, Cycle PROVE TypeOK'
<1> USE DEF TypeOK, shm, times, bar, local
<1>1. CASE Test
  BY <1>1 DEF Test, PC
<1>2. CASE MainScan
  <2>1. ScanThen({}, "OK") /\ "OK" \in Statuses
    BY <1>2 DEF MainScan, Scan, Statuses
  <2>2. /\ status' \in [Dets -> Statuses]
        /\ oflo' \in [Entries -> BOOLEAN]
    BY <2>1, ScanTyped
  <2>3. QED
    BY <1>2, <2>2 DEF MainScan, PC
<1>3. CASE Due
  BY <1>3 DEF Due, DueCommand, PC, Commands, FillCmds
<1>4. CASE StartFill
  <2>1. FillList \subseteq Entries
    <3>1. CASE com1 = -1
      BY <3>1, Table DEF FillList
    <3>2. CASE com1 # -1
      <4>1. com1 \in Entries
        BY <3>2, Table DEF Entries
      <4>2. QED
        BY <3>2, <4>1 DEF FillList
    <3>3. QED
      BY <3>1, <3>2
  <2>2. actkk' \in [Entries -> 0..(NCold - 1) \cup {Full}]
    BY <1>4, FillAssumption, SMT DEF StartFill
  <2>3. QED
    BY <1>4, <2>1, <2>2 DEF StartFill, PC, FillStep, Commands, FillCmds
<1>5. CASE Dispatch
  <2>1. Target(command) \in PC
    <3> DEFINE isClose == \E d \in Dets : command = CloseCmd(d)
               isOpen  == \E d \in Dets : command = OpenCmd(d)
    <3>1. Target(command) \in {"sleep", "update", "all_tank", "tank-",
                "tank+", "mani-", "mani+", "det-", "det+", "ack"}
      <4> HIDE DEF isClose, isOpen
      <4>1. Target(command) =
              CASE command = 0  -> "sleep"
                [] command = 1  -> "update"
                [] command = 10 -> "all_tank"
                [] command = 11 -> "tank-"
                [] command = 12 -> "tank+"
                [] command = 13 -> "mani-"
                [] command = 14 -> "mani+"
                [] isClose -> "det-"
                [] isOpen  -> "det+"
                [] OTHER  -> "ack"
        BY DEF Target, isClose, isOpen
      <4>2. QED
        BY <4>1
    <3>2. QED
      BY <3>1 DEF PC
  <2>2. QED
    BY <1>5, <2>1, Table DEF Dispatch
<1>6. CASE Ack
  <2> USE DEF Forget
  <2>1. mm' \in Int /\ elapsed' \in Nat /\ kk' \in 0..NCold
    BY <1>6, Zeros DEF Ack
  <2>2. actkk' \in [Entries -> 0..(NCold - 1) \cup {Full}]
    BY <1>6, Zeros DEF Ack
  <2>3. 0 \in Commands /\ "sleep" \in PC
    BY DEF PC, Commands
  <2>4. QED
    BY <1>6, <2>1, <2>2, <2>3 DEF Ack
<1>7. CASE Sleep
  BY <1>7 DEF Sleep, PC
<1>8. QED
  BY <1>1, <1>2, <1>3, <1>4, <1>5, <1>6, <1>7 DEF Cycle

(* ... of the single valves and closeAllValves ... *)
LEMMA ValvesTyped == ASSUME TypeOK, Valves PROVE TypeOK'
<1> USE DEF TypeOK, shm, times, bar, local
<1>1. ASSUME Scan
      PROVE  /\ status' \in [Dets -> Statuses]
             /\ oflo' \in [Entries -> BOOLEAN]
  <2>1. ScanThen({}, "OK") /\ "OK" \in Statuses
    BY <1>1 DEF Scan, Statuses
  <2>2. QED
    BY <2>1, ScanTyped
<1>2. CASE Update
  BY <1>1, <1>2 DEF Update, PC
<1>3. CASE TankValve
  BY <1>3 DEF TankValve, PC, Valve
<1>4. CASE ManiValve
  BY <1>4 DEF ManiValve, PC, Valve
<1>5. CASE OpenDet
  <2>1. det' \in [Dets -> Valve] /\ status' \in [Dets -> Statuses]
    BY <1>5 DEF OpenDet, Valve, Statuses
  <2>2. QED
    BY <1>5, <2>1 DEF OpenDet, PC
<1>6. CASE CloseDet
  <2>1. det' \in [Dets -> Valve]
    BY <1>6 DEF CloseDet, Valve
  <2>2. QED
    BY <1>1, <1>6, <2>1 DEF CloseDet, PC
<1>7. CASE AllTank
  BY <1>7 DEF AllTank, PC, Valve
<1>8. CASE AllMani
  BY <1>8, Table DEF AllMani, PC, Valve
<1>9. CASE AllDet
  <2>1. PICK d \in todo :
             /\ todo' = todo \ {d}
             /\ IF onoff[d]
                THEN det' = [det EXCEPT ![d] = "closed"] /\ Scan
                ELSE UNCHANGED <<det, status, oflo>>
    BY <1>9 DEF AllDet
  <2>2. det' \in [Dets -> Valve]
    BY <2>1 DEF Valve
  <2>3. /\ status' \in [Dets -> Statuses]
        /\ oflo' \in [Entries -> BOOLEAN]
    BY <1>1, <2>1
  <2>4. pc' \in PC
    BY <1>9 DEF AllDet, PC
  <2>5. QED
    BY <1>9, <2>1, <2>2, <2>3, <2>4 DEF AllDet
<1>10. CASE AllVent
  BY <1>10 DEF AllVent, PC, Valve
<1>11. QED
  BY <1>2, <1>3, <1>4, <1>5, <1>6, <1>7, <1>8, <1>9, <1>10 DEF Valves

(* ... of the cooling of the manifold and the opening of the detectors ... *)
LEMMA CoolingTyped == ASSUME TypeOK, Control, Cooling PROVE TypeOK'
<1> USE DEF TypeOK, shm, times, bar, local
<1>1. ASSUME Scan
      PROVE  /\ status' \in [Dets -> Statuses]
             /\ oflo' \in [Entries -> BOOLEAN]
  BY <1>1, ScanTyped DEF Scan, Statuses
<1>2. CASE FillOpenTank
  BY <1>2 DEF FillOpenTank, PC, FillStep, Valve
<1>3. CASE FillOpenMani
  <2>1. kk' \in 0..NCold
    BY <1>3, Zeros DEF FillOpenMani
  <2>2. mani' \in Valve /\ pc' \in PC
    BY <1>3 DEF FillOpenMani, Valve, PC, FillStep, Interruptible
  <2>3. Scan
    BY <1>3 DEF FillOpenMani
  <2>4. QED
    BY <1>3, <1>1, <2>1, <2>2, <2>3 DEF FillOpenMani
<1>4. CASE FillCool
  <2>1. PICK cold \in BOOLEAN : kk' = IF cold THEN kk + 1 ELSE 0
    BY <1>4 DEF FillCool
  <2>2. pc = "f_cool" /\ pc' \in PC /\ Scan
    BY <1>4 DEF FillCool, PC, FillStep, Interruptible
  <2>3. kk' \in 0..NCold
    <3>1. kk \in 0..(NCold - 1)
      BY <2>2, FillAssumption DEF Control, Cooled
    <3>2. QED
      BY <2>1, <3>1, FillAssumption
  <2>4. QED
    BY <1>4, <1>1, <2>2, <2>3 DEF FillCool
<1>5. CASE FillCheckCool
  BY <1>5 DEF FillCheckCool, PC, FillStep, Interruptible
<1>6. CASE FillShutMani
  BY <1>6 DEF FillShutMani, PC, FillStep, Interruptible, Valve
<1>7. CASE FillOpenDet
  <2>1. PICK d \in todo :
          /\ todo' = todo \ {d}
          /\ det' = [det EXCEPT ![Outlet(d)] = "open"]
          /\ status' = [e \in Dets |-> IF e = d THEN "FILL" ELSE status[e]]
    BY <1>7 DEF FillOpenDet
  <2>2. det' \in [Dets -> Valve] /\ status' \in [Dets -> Statuses]
    BY <2>1 DEF Valve, Statuses
  <2>3. pc' \in PC
    BY <1>7 DEF FillOpenDet, PC, FillStep, Interruptible
  <2>4. mm' \in Int /\ elapsed' \in Nat
    BY <1>7, DetSets, Zeros DEF FillOpenDet
  <2>5. QED
    BY <1>7, <2>1, <2>2, <2>3, <2>4 DEF FillOpenDet
<1>8. QED
  BY <1>2, <1>3, <1>4, <1>5, <1>6, <1>7 DEF Cooling

(* ... of the fill loop and the end of a fill ... *)
LEMMA FillingTyped == ASSUME TypeOK, Filling PROVE TypeOK'
<1> USE DEF TypeOK, shm, times, bar, local
<1>1. ASSUME Scan
      PROVE  /\ status' \in [Dets -> Statuses]
             /\ oflo' \in [Entries -> BOOLEAN]
  BY <1>1, ScanTyped DEF Scan, Statuses
<1>2. CASE FillRead
  BY <1>1, <1>2 DEF FillRead, PC, FillStep, Interruptible
<1>3. CASE FillDet
  <2>1. PICK d \in todo : FillSkip(d) \/ FillCount(d) \/ FillFull(d)
    BY <1>3 DEF FillDet
  <2>2. d \in Entries /\ "f_over" \in PC /\ "f_chk" \in PC /\ "f_det" \in PC
    BY DEF PC, FillStep, Interruptible
  <2>3. CASE FillSkip(d)
    BY <2>2, <2>3 DEF FillSkip, Advance
  <2>4. CASE FillCount(d)
    <3>1. actkk[d] \in 0..(NCold - 1) /\ NCold \in 1..4
      BY <2>2, <2>4, FillAssumption DEF FillCount
    <3>2. oflo[d] => actkk[d] + 1 \in 0..(NCold - 1)
      BY <2>4, <3>1 DEF FillCount
    <3>3. (IF oflo[d] THEN actkk[d] + 1 ELSE 0) \in 0..(NCold - 1)
      BY <3>1, <3>2
    <3>4. actkk' \in [Entries -> 0..(NCold - 1) \cup {Full}]
      BY <2>2, <2>4, <3>3 DEF FillCount
    <3>5. QED
      BY <2>2, <2>4, <3>4 DEF FillCount
  <2>5. CASE FillFull(d)
    <3>1. Finish(d, "OK") /\ "OK" \in Statuses
      BY <2>5 DEF FillFull, Statuses
    <3>2. QED
      BY <2>2, <2>5, <3>1, FinishTyped DEF FillFull
  <2>6. QED
    BY <2>1, <2>3, <2>4, <2>5
<1>4. CASE FillOver
  <2>1. PICK d \in todo :
             /\ IF Overtime(d)
                THEN Finish(d, "LONG") /\ twice' = (twice \/ actkk[d] = Full)
                ELSE UNCHANGED <<mm, det, actkk, next, status, oflo, twice>>
             /\ Advance(d)
    BY <1>4 DEF FillOver
  <2>2. d \in Entries /\ "LONG" \in Statuses
    BY DEF Statuses
  <2>3. todo' \subseteq Entries /\ pc' \in PC /\ twice' \in BOOLEAN
    BY <2>1 DEF Advance, PC, FillStep, Interruptible
  <2>4. CASE Overtime(d)
    BY <1>4, <2>1, <2>2, <2>3, <2>4, FinishTyped DEF FillOver
  <2>5. CASE ~Overtime(d)
    BY <1>4, <2>1, <2>3, <2>5 DEF FillOver
  <2>6. QED
    BY <2>4, <2>5
<1>5. CASE FillCheck
  BY <1>5 DEF FillCheck, PC, FillStep, Interruptible
<1>6. CASE FillCloseTank
  BY <1>6 DEF FillCloseTank, PC, FillStep, Valve
<1>7. CASE FillVent
  BY <1>1, <1>7 DEF FillVent, PC, FillStep, Valve
<1>8. CASE FillClose
  BY <1>8 DEF FillClose, PC, FillStep, Valve
<1>9. QED
  BY <1>2, <1>3, <1>4, <1>5, <1>6, <1>7, <1>8 DEF Filling

(* ... of the menu programs ... *)
LEMMA ReaderTyped ==
    ASSUME TypeOK, NEW r \in Readers, Reader(r)
    PROVE  TypeOK'
<1> USE DEF TypeOK, shm, times, bar, local, Menu, Goto, Issue, Param
<1>1. \A c \in {-1, 0, 1, 8, 18} \cup PlainCmds : c \in Commands
  BY DEF Commands, FillCmds
<1>3. CASE AskUpdate(r)
  BY <1>1, <1>3 DEF AskUpdate
<1>4. CASE AskEdit(r) \/ AskOne(r) \/ LeaveEdit(r)
  BY <1>4 DEF AskEdit, AskOne, LeaveEdit
<1>5. CASE AnswerOne(r)
  <2>1. CASE UNCHANGED <<shm, bar, pc, local>>
    BY <1>5, <2>1 DEF AnswerOne
  <2>2. CASE \E nn \in 0..(NDet + 1) : com1' = nn - 1 /\ Issue(8)
    <3>1. PICK nn \in 0..(NDet + 1) : com1' = nn - 1 /\ Issue(8)
      BY <2>2
    <3>2. com1' \in -1..NDet
      BY <3>1, NDetAssumption
    <3>3. QED
      BY <1>1, <1>5, <3>1, <3>2 DEF AnswerOne
  <2>3. QED
    BY <1>5, <2>1, <2>2 DEF AnswerOne
<1>6. CASE AskAll(r)
  <2>1. -1 \in -1..NDet
    BY NDetAssumption
  <2>2. QED
    BY <1>1, <1>6, <2>1 DEF AskAll
<1>7. CASE AskInitial(r)
  <2>1. com1' \in -1..NDet
    BY <1>7, NDetAssumption DEF AskInitial
  <2>2. QED
    BY <1>1, <1>7, <2>1 DEF AskInitial
<1>8. CASE AskPlain(r)
  BY <1>1, <1>8 DEF AskPlain
<1>9. CASE AskValve(r)
  BY <1>9 DEF AskValve
<1>10. CASE ResetAlarms(r)
  <2>1. status' \in [Dets -> Statuses]
    BY <1>10 DEF ResetAlarms, Statuses
  <2>2. QED
    BY <1>10, <2>1 DEF ResetAlarms
<1>11. CASE AskToggle(r) \/ Toggle(r)
  <2>1. onoff' \in [Dets -> BOOLEAN]
    BY <1>11 DEF AskToggle, Toggle
  <2>2. QED
    BY <1>11, <2>1 DEF AskToggle, Toggle
<1>12. CASE SetNext(r)
  <2>1. next' \in [Dets -> Nat]
    BY <1>12, FillAssumption DEF SetNext
  <2>2. QED
    BY <1>12, <2>1 DEF SetNext
<1>13. CASE EndAll(r)
  BY <1>1, <1>13 DEF EndAll
<1>14. CASE SetInterval(r) \/ SetMax(r)
  <2>1. interval' \in [Dets -> Nat] /\ max' \in [Dets -> Nat]
    BY <1>14, FillAssumption DEF SetInterval, SetMax
  <2>2. QED
    BY <1>14, <2>1 DEF SetInterval, SetMax
<1>15. CASE SetLimit(r)
  <2>1. oflo' \in [Entries -> BOOLEAN]
    BY <1>15 DEF SetLimit
  <2>2. QED
    BY <1>15, <2>1 DEF SetLimit
<1>16. QED
  BY <1>3, <1>4, <1>5, <1>6, <1>7, <1>8, <1>9, <1>10, <1>11, <1>12, <1>13,
     <1>14, <1>15 DEF Reader

(* ... and of time. *)
LEMMA TickTyped == ASSUME TypeOK, Tick PROVE TypeOK'
<1>1. next' \in [Dets -> Nat]
  BY DEF TypeOK, Tick
<1>2. elapsed' \in Nat
  BY DEF TypeOK, Tick
<1>3. QED
  BY <1>1, <1>2 DEF TypeOK, Tick, bar

(* ... of the daemon's death and its next start. *)
LEMMA DieTyped == ASSUME TypeOK, Die PROVE TypeOK'
<1> USE DEF TypeOK, shm, times
<1>1. tank' \in Valve /\ mani' \in Valve
  BY DEF Die, DyingTank, DyingMani, DyingDet, DyingStatus, DyingFar, Valve, bar
<1>2. det' \in [Dets -> Valve]
  <2>1. CASE DyingDet
    <3>1. PICK d \in todo :
            \/ det' \in {det, [det EXCEPT ![Outlet(d)] = "open"]}
            \/ det' \in {det, [det EXCEPT ![Outlet(d)] = "closed"]}
      BY <2>1 DEF DyingDet, Shut
    <3>2. QED
      BY <3>1 DEF Valve
  <2>2. CASE ~DyingDet
    BY <2>2 DEF Die, DyingTank, DyingMani, DyingStatus, DyingFar, bar
  <2>3. QED
    BY <2>1, <2>2
<1>3. /\ mm' \in Int /\ elapsed' \in Nat /\ kk' \in 0..NCold
      /\ twice' \in BOOLEAN
  BY Zeros DEF Die, Forget
<1>4. actkk' \in [Entries -> 0..(NCold - 1) \cup {Full}]
  BY Zeros DEF Die, Forget
<1>5. "dead" \in PC
  BY DEF PC
<1>6. QED
  BY <1>1, <1>2, <1>3, <1>4, <1>5 DEF Die, Forget

LEMMA RestartTyped == ASSUME TypeOK, Restart PROVE TypeOK'
<1> USE DEF TypeOK, bar, local
<1>1. PICK rtd \in [Dets -> RtdSeen], fresh \in [Dets -> OfloSeen] :
         /\ status' = ScanStatus(onoff', status, rtd, command \in {7, 8})
         /\ LET read == ScanOflo(onoff', status, rtd, oflo, fresh)
            IN oflo' = [d \in Entries |-> IF d \in Dets THEN read[d]
                                                         ELSE oflo[d]]
  BY DEF Restart
<1>2. status' \in [Dets -> Statuses]
  BY <1>1 DEF ScanStatus, Statuses
<1>3. oflo' \in [Entries -> BOOLEAN]
  BY <1>1, OfloTyped
<1>4. onoff' \in [Dets -> BOOLEAN]
  <2>1. \A d \in Dets : (d \in InitOn) \in BOOLEAN
    OBVIOUS
  <2>2. onoff' = [d \in Dets |-> d \in InitOn]
    BY DEF Restart
  <2>3. QED
    BY <2>1, <2>2
<1>5. /\ next' \in [Dets -> Nat]
      /\ interval' \in [Dets -> Nat] /\ max' \in [Dets -> Nat]
  BY FillAssumption DEF Restart
<1>6. 0 \in Commands /\ "test" \in PC
  BY DEF Commands, PC
<1>7. command' \in Commands /\ pc' \in PC
  BY <1>6 DEF Restart
<1>8. UNCHANGED <<com1, bar, local, rpc>>
  BY DEF Restart
<1>9. QED
  BY <1>2, <1>3, <1>4, <1>5, <1>7, <1>8

LEMMA TypeNext == ASSUME TypeOK, Control, [Next]_vars PROVE TypeOK'
<1>1. CASE Daemon
  BY <1>1, CycleTyped, ValvesTyped, CoolingTyped, FillingTyped DEF Daemon
<1>2. CASE \E r \in Readers : Reader(r)
  BY <1>2, ReaderTyped
<1>3. CASE Tick
  BY <1>3, TickTyped
<1>4. CASE Die \/ Restart
  BY <1>4, DieTyped, RestartTyped
<1>5. CASE UNCHANGED vars
  BY <1>5 DEF TypeOK, vars, shm, times, bar, local
<1>6. QED
  BY <1>1, <1>2, <1>3, <1>4, <1>5 DEF Next

-----------------------------------------------------------------------------
(* The control of a fill.                                                  *)

(* Outside a fill only the list of the last one is spoken of. *)
LEMMA RestControl ==
    ASSUME pc' \notin Cooled \cup Filled \cup Before \cup Closing \cup OneValve
                      \cup {"all_det"},
           NDet \in active' => active' = {NDet}
    PROVE  Control'
BY DEF Control, OneValve, Cooled, Filled, Before, Closing, FillLoop, LoopValves,
       LoopCount

LEMMA CycleControl == ASSUME TypeOK, Control, Cycle PROVE Control'
<1> USE DEF Cooled, Filled, Before, Closing, FillLoop, OneValve
<1>1. CASE Test \/ MainScan \/ Due \/ Ack \/ Sleep
  <2>1. active' = active \/ active' = {}
    BY <1>1 DEF Test, MainScan, Due, Ack, Forget, Sleep, local
  <2>2. QED
    BY <1>1, <2>1, RestControl DEF Test, MainScan, Due, Ack, Sleep, Control
<1>2. CASE StartFill
  <2>1. /\ pc' \in {"ack", "f_tank"} /\ \A d \in Entries : actkk'[d] = 0
        /\ ~twice'
    BY <1>2 DEF StartFill
  <2>2. NDet \in active' => active' = {NDet}
    BY <1>2, Table DEF StartFill, FillList
  <2>3. QED
    BY <2>1, <2>2 DEF Control, LoopValves, LoopCount
<1>3. CASE Dispatch
  <2>1. \A d, e \in todo' : d = e
    <3>1. \A d \in Dets : d \in 0..19
      BY NDetAssumption DEF Dets
    <3>2. \A d \in todo' : d \in Dets /\ (command = 21 + d \/ command = 41 + d)
      BY <1>3 DEF Dispatch, CloseCmd, OpenCmd
    <3>3. QED
      BY <3>1, <3>2
  <2>2. /\ pc' \notin Cooled \cup Filled \cup Before \cup Closing
        /\ todo' \subseteq Dets
    BY <1>3 DEF Dispatch, Target
  <2>3. NDet \in active' => active' = {NDet}
    BY <1>3 DEF Dispatch, Control
  <2>4. QED
    BY <2>1, <2>2, <2>3 DEF Control, LoopValves, LoopCount
<1>4. QED
  BY <1>1, <1>2, <1>3 DEF Cycle

LEMMA ValvesControl == ASSUME Control, Valves PROVE Control'
<1> USE DEF Control, Cooled, Filled, Before, Closing, FillLoop, OneValve
<1>1. /\ pc' \in {"ack", "all_mani", "all_det", "all_vent"}
      /\ active' = active
      /\ pc' = "all_det" => todo' \subseteq Dets
  BY DEF Valves, Update, TankValve, ManiValve, OpenDet, CloseDet, AllTank,
         AllMani, AllDet, AllVent, local
<1>2. QED
  BY <1>1 DEF LoopValves, LoopCount

(* The menu programs write none of the variables Control is about. *)
LEMMA ReaderControl ==
    ASSUME Control, NEW r \in Readers, Reader(r)
    PROVE  Control'
<1>1. UNCHANGED <<bar, pc, local>>
  BY DEF Reader, AskUpdate, AskEdit, AskOne, AnswerOne, AskAll, AskInitial,
         AskPlain, AskValve, ResetAlarms, AskToggle, Toggle, SetNext,
         SetInterval, SetMax, SetLimit, LeaveEdit, EndAll, Issue
<1>2. QED
  BY <1>1 DEF Control, LoopValves, LoopCount, Unfinished, bar, local

(* Nor does time. *)
LEMMA TickControl == ASSUME Control, Tick PROVE Control'
<1>1. UNCHANGED <<bar, pc, active, actkk, mm, kk, todo, twice>>
  BY DEF Tick
<1>2. QED
  BY <1>1 DEF Control, LoopValves, LoopCount, Unfinished, bar

LEMMA CoolingControl == ASSUME TypeOK, Control, Cooling PROVE Control'
<1> USE DEF Cooled, Filled, Before, Closing, FillLoop, OneValve
<1>1. CASE FillOpenTank
  BY <1>1 DEF FillOpenTank, Control, LoopValves, LoopCount, shm, local
<1>2. CASE FillOpenMani
  <2>1. 0 < NCold
    BY FillAssumption
  <2>2. QED
    BY <1>2, <2>1 DEF FillOpenMani, Control, LoopValves, LoopCount
<1>3. CASE FillCool
  <2>1. pc' = "f_chkcool" => kk' < NCold
    <3>1. kk' \in 0..NCold
      BY <1>3, CoolingTyped DEF Cooling, TypeOK
    <3>2. QED
      BY <1>3, <3>1, FillAssumption DEF FillCool
  <2>2. pc = "f_cool" /\ pc' \in {"f_chkcool", "f_shutmani"}
    BY <1>3 DEF FillCool
  <2>3. QED
    BY <1>3, <2>1, <2>2 DEF FillCool, Control, LoopValves, LoopCount, bar
<1>4. CASE FillCheckCool
  BY <1>4 DEF FillCheckCool, Control, LoopValves, LoopCount, shm, bar, local
<1>5. CASE FillShutMani
  BY <1>5 DEF FillShutMani, Control, LoopValves, LoopCount
<1>6. CASE FillOpenDet
  <2>1. PICK d \in todo : /\ todo' = todo \ {d}
                          /\ det' = [det EXCEPT ![Outlet(d)] = "open"]
    BY <1>6 DEF FillOpenDet
  <2>2. /\ tank' = "open" /\ mani' = "closed" /\ active' = active
        /\ todo' \subseteq active' /\ actkk' = actkk /\ ~twice'
        /\ \A e \in Entries : actkk[e] = 0
        /\ active \subseteq Entries
        /\ NDet \in active' => active' = {NDet}
    BY <1>6, <2>1 DEF FillOpenDet, Control, TypeOK
  <2>3. ASSUME NEW e \in active' \ todo'
        PROVE  det'[Outlet(e)] = "open"
    <3>1. Outlet(e) \in Dets
      BY <2>2, <2>3, Table
    <3>2. CASE e = d
      BY <2>1, <3>1, <3>2 DEF TypeOK
    <3>3. CASE e # d
      <4>1. det[Outlet(e)] = "open"
        BY <1>6, <2>1, <2>2, <2>3, <3>3 DEF FillOpenDet, Control
      <4>2. QED
        BY <2>1, <3>1, <4>1 DEF TypeOK
    <3>4. QED
      BY <3>2, <3>3
  <2>4. CASE pc' \in {"ack", "f_open"}
    BY <2>2, <2>3, <2>4 DEF Control, LoopValves, LoopCount
  <2>5. CASE pc' = "f_read"
    <3>1. todo' = {}
      BY <1>6, <2>5 DEF FillOpenDet
    <3>2. active' \subseteq Entries
      BY <2>2
    <3>3. \A e \in active' : actkk'[e] # Full /\ det'[Outlet(e)] = "open"
      BY <2>2, <2>3, <3>1, <3>2 DEF Full
    <3>4. Unfinished' = active'
      BY <3>3 DEF Unfinished
    <3>5. mm' = Cardinality(Unfinished')
      BY <1>6, <2>2, <3>4 DEF FillOpenDet
    <3>6. Cardinality(Unfinished') \in Nat
      BY <3>2, <3>4, DetSets
    <3>7. LoopValves' /\ LoopCount'
      BY <3>3, <3>5, <3>6 DEF LoopValves, LoopCount
    <3>8. QED
      BY <2>2, <2>5, <3>7 DEF Control
  <2>6. QED
    BY <1>6, <2>4, <2>5 DEF FillOpenDet
<1>7. QED
  BY <1>1, <1>2, <1>3, <1>4, <1>5, <1>6 DEF Cooling

(* An entry behind the table shares an outlet with a detector, but is the  *)
(* only one of its fill.                                                   *)
LEMMA OwnOutlet ==
    ASSUME TypeOK, NDet \in active => active = {NDet},
           NEW d \in active, NEW e \in active, Outlet(d) = Outlet(e)
    PROVE  d = e
<1>1. CASE NDet \in active
  BY <1>1
<1>2. CASE NDet \notin active
  <2>1. d \in Dets /\ e \in Dets
    BY <1>2, Table DEF TypeOK
  <2>2. QED
    BY <2>1, Table
<1>3. QED
  BY <1>1, <1>2

(* A detector finished in the loop, because it is full or overtime, leaves *)
(* marks and outlets in step and never the count above the unfinished, and *)
(* keeps the count unless it was finished before.                          *)
LEMMA FinishLoop ==
    ASSUME TypeOK, LoopValves, LoopCount, NDet \in active => active = {NDet},
           pc \in FillLoop, NEW d \in active, NEW word, Finish(d, word),
           twice' = (twice \/ actkk[d] = Full), active' = active
    PROVE  LoopValves' /\ LoopCount'
<1>1. /\ active \subseteq Entries /\ d \in Entries /\ mm \in Int
      /\ actkk' = [actkk EXCEPT ![d] = Full]
      /\ det' = [det EXCEPT ![Outlet(d)] = "closed"]
      /\ mm' = mm - 1
  BY DEF TypeOK, Finish, Shut
<1>2. \A e \in active :
         /\ actkk'[e] = IF e = d THEN Full ELSE actkk[e]
         /\ det'[Outlet(e)] = IF e = d THEN "closed" ELSE det[Outlet(e)]
  <2>1. ASSUME NEW e \in active
        PROVE  /\ e \in Entries /\ Outlet(e) \in Dets
               /\ Outlet(e) = Outlet(d) <=> e = d
    BY <1>1, <2>1, Table, OwnOutlet
  <2>2. QED
    BY <1>1, <2>1 DEF TypeOK
<1>3. LoopValves'
  BY <1>2 DEF LoopValves
<1>4. Unfinished' = Unfinished \ {d}
  BY <1>2 DEF Unfinished
<1>5. /\ Unfinished \subseteq Entries
      /\ Cardinality(Unfinished) \in Nat /\ Cardinality(Unfinished') \in Nat
  BY <1>1, <1>4, DetSets DEF Unfinished
<1>6. CASE actkk[d] # Full
  <2>1. d \in Unfinished
    BY <1>6 DEF Unfinished
  <2>2. Cardinality(Unfinished') = Cardinality(Unfinished) - 1
    BY <1>4, <1>5, <2>1, OneLess
  <2>3. twice' <=> twice
    BY <1>6
  <2>4. mm - 1 = Cardinality(Unfinished) - 1 \/ twice
    BY <1>5 DEF LoopCount
  <2>5. LoopCount'
    BY <1>1, <1>5, <2>2, <2>3, <2>4 DEF LoopCount
  <2>6. QED
    BY <1>3, <2>5
<1>7. CASE actkk[d] = Full
  <2>1. twice'
    BY <1>7
  <2>2. Unfinished' = Unfinished
    BY <1>4, <1>7 DEF Unfinished
  <2>3. mm' <= Cardinality(Unfinished')
    BY <1>1, <1>5, <2>2 DEF LoopCount
  <2>4. QED
    BY <1>3, <2>1, <2>3 DEF LoopCount
<1>8. QED
  BY <1>6, <1>7

LEMMA FillingControl == ASSUME TypeOK, Control, Filling PROVE Control'
<1> USE DEF Cooled, Filled, Before, Closing, FillLoop, OneValve
<1>1. ASSUME pc \in FillLoop, pc' \in FillLoop,
             UNCHANGED <<det, active, actkk, mm, twice>>
      PROVE  LoopValves' /\ LoopCount'
  BY <1>1 DEF Control, LoopValves, LoopCount, Unfinished
<1>2. CASE FillRead
  <2>1. LoopValves' /\ LoopCount'
    BY <1>1, <1>2 DEF FillRead, bar
  <2>2. QED
    BY <1>2, <2>1 DEF FillRead, Control, bar
<1>3. CASE FillDet
  <2>1. PICK d \in todo : FillSkip(d) \/ FillCount(d) \/ FillFull(d)
    BY <1>3 DEF FillDet
  <2>2. pc = "f_det" /\ d \in active /\ active \subseteq Entries
    BY <1>3 DEF FillDet, Control, TypeOK
  <2>3. CASE FillSkip(d)
    <3>1. pc' \in {"f_det", "f_chk"} /\ todo' \subseteq todo
      BY <2>3 DEF FillSkip, Advance
    <3>2. LoopValves' /\ LoopCount'
      BY <1>1, <2>2, <2>3, <3>1 DEF FillSkip, bar
    <3>3. QED
      BY <2>2, <2>3, <3>1, <3>2 DEF FillSkip, Control, bar
  <2>4. CASE FillCount(d)
    <3>1. \A e \in active : actkk'[e] = Full <=> actkk[e] = Full
      <4>1. actkk[d] \in 0..(NCold - 1) /\ NCold \in 1..4
        BY <2>2, <2>4, FillAssumption DEF FillCount, TypeOK
      <4>2. (IF oflo[d] THEN actkk[d] + 1 ELSE 0) # Full
        BY <2>4, <4>1 DEF FillCount, Full
      <4>3. QED
        BY <2>2, <2>4, <4>2 DEF FillCount, TypeOK
    <3>2. Unfinished' = Unfinished
      BY <2>4, <3>1 DEF FillCount, Unfinished
    <3>3. LoopValves'
      BY <2>2, <2>4, <3>1 DEF FillCount, Control, LoopValves, bar
    <3>4. LoopCount'
      BY <2>2, <2>4, <3>2 DEF FillCount, Control, LoopCount
    <3>5. QED
      BY <2>2, <2>4, <3>3, <3>4 DEF FillCount, Control, bar
  <2>5. CASE FillFull(d)
    <3>1. /\ Finish(d, "OK") /\ actkk[d] # Full
          /\ active' = active /\ twice' = twice /\ twice \in BOOLEAN
      BY <2>5 DEF FillFull, TypeOK
    <3>2. LoopValves' /\ LoopCount'
      BY <2>2, <3>1, FinishLoop DEF Control
    <3>3. QED
      BY <2>2, <2>5, <3>2 DEF FillFull, Control
  <2>6. QED
    BY <2>1, <2>3, <2>4, <2>5
<1>4. CASE FillOver
  <2>1. PICK d \in todo :
             /\ IF Overtime(d)
                THEN Finish(d, "LONG") /\ twice' = (twice \/ actkk[d] = Full)
                ELSE UNCHANGED <<mm, det, actkk, next, status, oflo, twice>>
             /\ Advance(d)
    BY <1>4 DEF FillOver
  <2>2. /\ pc = "f_over" /\ d \in active
        /\ pc' \in {"f_det", "f_chk"} /\ todo' \subseteq todo
        /\ UNCHANGED <<tank, mani, active>>
    BY <1>4, <2>1 DEF FillOver, Advance, Control
  <2>3. LoopValves' /\ LoopCount'
    <3>1. CASE Overtime(d)
      BY <2>1, <2>2, <3>1, FinishLoop DEF Control
    <3>2. CASE ~Overtime(d)
      BY <1>1, <2>1, <2>2, <3>2
    <3>3. QED
      BY <3>1, <3>2
  <2>4. QED
    BY <2>2, <2>3 DEF Control
<1>5. CASE FillCheck
  <2>1. /\ pc = "f_chk" /\ pc' \in {"ack", "f_read", "f_off"}
        /\ UNCHANGED <<shm, bar, local>>
    BY <1>5 DEF FillCheck
  <2>2. CASE pc' = "f_read"
    <3>1. LoopValves' /\ LoopCount'
      BY <1>1, <2>1, <2>2 DEF bar, local
    <3>2. QED
      BY <2>1, <2>2, <3>1 DEF Control, bar, local
  <2>3. CASE pc' = "f_off"
    <3>1. ASSUME ~twice
          PROVE  \A d \in active : det[Outlet(d)] = "closed"
      <4>1. Cardinality(Unfinished) = mm
        BY <2>1, <3>1 DEF Control, LoopCount
      <4>2. ~(mm > 0)
        BY <1>5, <2>3 DEF FillCheck
      <4>3. Unfinished \subseteq Entries
        BY DEF Unfinished, TypeOK
      <4>4. IsFiniteSet(Unfinished) /\ Cardinality(Unfinished) = 0
        BY <4>1, <4>2, <4>3, DetSets
      <4>5. Unfinished = {}
        BY <4>4, FS_EmptySet
      <4>6. \A d \in active : actkk[d] = Full
        BY <4>5 DEF Unfinished
      <4>7. \A d \in active : det[Outlet(d)] \in Valve
        BY Table DEF TypeOK
      <4>8. QED
        BY <2>1, <4>6, <4>7 DEF Control, LoopValves, Valve
    <3>2. QED
      BY <2>1, <2>3, <3>1 DEF Control, LoopValves, LoopCount, bar, local
  <2>4. CASE pc' = "ack"
    BY <2>1, <2>4, RestControl DEF Control, local
  <2>5. QED
    BY <2>1, <2>2, <2>3, <2>4
<1>6. ASSUME pc \in Closing, pc' \in Closing, UNCHANGED <<det, active, twice>>,
             pc' # "f_off" => tank' = "closed",
             pc' = "f_done" => mani' = "closed"
      PROVE  Control'
  BY <1>6 DEF Control, LoopValves, LoopCount
<1>7. CASE FillCloseTank \/ FillVent \/ FillClose
  BY <1>6, <1>7 DEF FillCloseTank, FillVent, FillClose, Control, local
<1>8. QED
  BY <1>2, <1>3, <1>4, <1>5, <1>7 DEF Filling

LEMMA ControlNext == ASSUME TypeOK, Control, [Next]_vars PROVE Control'
<1>1. CASE Daemon
  BY <1>1, CycleControl, ValvesControl, CoolingControl, FillingControl
     DEF Daemon
<1>2. CASE \E r \in Readers : Reader(r)
  BY <1>2, ReaderControl
<1>3. CASE Tick
  BY <1>3, TickControl
<1>4. CASE Die \/ Restart
  <2>1. active' = active \/ active' = {}
    BY <1>4 DEF Die, Forget, Restart, local
  <2>2. QED
    BY <1>4, <2>1, RestControl
       DEF Control, Die, Restart, Cooled, Filled, Before, Closing, FillLoop,
           OneValve
<1>5. CASE UNCHANGED vars
  BY <1>5 DEF Control, LoopValves, LoopCount, Unfinished, vars, bar, local
<1>6. QED
  BY <1>1, <1>2, <1>3, <1>4, <1>5 DEF Next

-----------------------------------------------------------------------------
(* IInv holds throughout every run of the daemon: of the variables, their  *)
(* types, and of the lines of fillGe() what Control says of each.          *)
THEOREM Invariant == Spec => []IInv
<1>1. IInv /\ [Next]_vars => IInv'
  BY TypeNext, ControlNext DEF IInv
<1>2. QED
  BY <1>1, InitInv, PTL DEF Spec

(* Every variable keeps its type whatever the users answer: a mark is a    *)
(* count below NCold or the 9 of a detector that is finished, the manifold *)
(* is left as soon as it was cold often enough, and com1 is -1 or an entry *)
(* of the table or, which nothing prevents, one behind it.                 *)
THEOREM TypeCorrect == Spec => []TypeOK
<1>1. IInv => TypeOK
  BY DEF IInv
<1>2. QED
  BY <1>1, Invariant, PTL

(* In the fill loop a detector valve is open exactly while its detector is *)
(* not marked finished, for any table and whatever the users command, an   *)
(* entry behind the table whose outlet is another's included.              *)
THEOREM LoopValvesHold == Spec => []LoopValves
<1>1. IInv => LoopValves
  BY DEF IInv, Control
<1>2. QED
  BY <1>1, Invariant, PTL

(* Detectors are filled from an open tank with the manifold vent shut.     *)
THEOREM LoopSupplyHolds == Spec => []LoopSupply
<1>1. IInv => LoopSupply
  BY DEF IInv, Control, LoopSupply, Filled
<1>2. QED
  BY <1>1, Invariant, PTL

(* The while count of the fill loop is at most, and unless a detector was  *)
(* counted twice exactly, the number of detectors still open.              *)
THEOREM LoopCountHolds == Spec => []LoopCount
<1>1. IInv => LoopCount
  BY DEF IInv, Control
<1>2. QED
  BY <1>1, Invariant, PTL

(* A fill carried to its end has shut the tank, the manifold and, if it    *)
(* counted none twice, every detector of it.                               *)
THEOREM DoneShutHolds == Spec => []DoneShut
<1>1. IInv => DoneShut
  BY DEF IInv, Control, DoneShut, Closing
<1>2. QED
  BY <1>1, Invariant, PTL

-----------------------------------------------------------------------------
(* Postponing.                                                             *)

LEMMA RearmStep ==
    ASSUME TypeOK, Control, Daemon, NEW d \in Dets, next'[d] > next[d]
    PROVE  d \in active /\ det'[d] = "closed"
<1>1. ASSUME NEW e \in active, NEW word, Finish(e, word)
      PROVE  d \in active /\ det'[d] = "closed"
  <2>1. next' = Rearm(e) /\ det' = [det EXCEPT ![Outlet(e)] = "closed"]
    BY <1>1 DEF Finish, Shut
  <2>2. d = e
    BY <2>1 DEF Rearm, TypeOK
  <2>3. Outlet(e) = d
    BY <2>2, Table
  <2>4. QED
    BY <1>1, <2>1, <2>2, <2>3 DEF TypeOK
<1>2. CASE FillDet
  <2>1. PICK e \in todo : FillSkip(e) \/ FillCount(e) \/ FillFull(e)
    BY <1>2 DEF FillDet
  <2>2. e \in active
    BY <1>2 DEF FillDet, Control
  <2>3. CASE FillSkip(e) \/ FillCount(e)
    BY <2>3 DEF FillSkip, FillCount, shm, times, TypeOK
  <2>4. CASE FillFull(e)
    BY <1>1, <2>2, <2>4 DEF FillFull
  <2>5. QED
    BY <2>1, <2>3, <2>4
<1>3. CASE FillOver
  <2>1. PICK e \in todo :
             IF Overtime(e)
             THEN Finish(e, "LONG") /\ twice' = (twice \/ actkk[e] = Full)
             ELSE UNCHANGED <<mm, det, actkk, next, status, oflo, twice>>
    BY <1>3 DEF FillOver
  <2>2. e \in active
    BY <1>3 DEF FillOver, Control
  <2>3. next' # next
    BY DEF TypeOK
  <2>4. QED
    BY <1>1, <2>1, <2>2, <2>3
<1>4. CASE ~FillDet /\ ~FillOver
  <2>1. next' = next
    BY <1>4 DEF Daemon, Cycle, Valves, Cooling, Filling, Test, MainScan, Due,
         StartFill, Dispatch, Ack, Sleep, Update, TankValve, ManiValve,
         OpenDet, CloseDet, AllTank, AllMani, AllDet, AllVent, FillOpenTank,
         FillOpenMani, FillCool, FillCheckCool, FillShutMani, FillOpenDet,
         FillRead, FillCheck, FillCloseTank, FillVent, FillClose, shm, times
  <2>2. QED
    BY <2>1 DEF TypeOK
<1>5. QED
  BY <1>2, <1>3, <1>4

(* The daemon postpones the next fill of a detector only in a fill of it   *)
(* and with a step that leaves its valve shut.                             *)
THEOREM RearmedOnlyWhenShut == Spec => RearmedWhenShut
<1>1. IInv /\ [Next]_vars =>
        [Daemon => \A d \in Dets : next'[d] > next[d] =>
                      d \in active /\ det'[d] = "closed"]_vars
  BY RearmStep DEF IInv
<1>2. QED
  BY <1>1, Invariant, PTL DEF Spec, RearmedWhenShut

-----------------------------------------------------------------------------
(* Implementation of LnValves.  A step keeps the promise when it is a step *)
(* of LnValves under the mapping of pc to the phase of a fill.             *)

LEMMA Stutter ==
    ASSUME Phase' = Phase, UNCHANGED bar
    PROVE  [LV!Next]_(LV!vars)
BY DEF LV!vars, bar

LEMMA CycleOrder == ASSUME Cycle PROVE [LV!Next]_(LV!vars)
<1>1. Phase = "rest" /\ Phase' = "rest"
  BY DEF Cycle, Test, MainScan, Due, StartFill, Dispatch, Target, Ack, Sleep,
         Phase, FillLoop
<1>2. UNCHANGED bar
  BY DEF Cycle, Test, MainScan, Due, StartFill, Dispatch, Ack, Sleep
<1>3. QED
  BY <1>1, <1>2, Stutter

LEMMA ValvesOrder == ASSUME TypeOK, Control, Valves PROVE [LV!Next]_(LV!vars)
<1>1. Phase = "rest" /\ Phase' = "rest"
  BY DEF Valves, Update, TankValve, ManiValve, OpenDet, CloseDet, AllTank,
         AllMani, AllDet, AllVent, Phase, FillLoop
<1>2. CASE Update
  BY <1>1, <1>2, Stutter DEF Update
<1>3. CASE TankValve \/ AllTank
  BY <1>1, <1>3 DEF TankValve, AllTank, LV!Next, LV!Manual, LV!Valve
<1>4. CASE ManiValve \/ AllMani \/ AllVent
  BY <1>1, <1>4 DEF ManiValve, AllMani, AllVent, LV!Next, LV!Manual, LV!Valve
<1>5. ASSUME NEW d \in Dets, NEW v \in {"open", "closed"},
             det' = [det EXCEPT ![d] = v], UNCHANGED <<tank, mani>>
      PROVE  LV!Next
  BY <1>1, <1>5 DEF LV!Next, LV!Manual, LV!Valve
<1>6. ASSUME NEW v \in {"open", "closed"}, pc \in OneValve,
             det' = [d \in Dets |-> IF d \in todo THEN v ELSE det[d]],
             UNCHANGED <<tank, mani>>
      PROVE  [LV!Next]_(LV!vars)
  <2>1. CASE todo = {}
    <3>1. det' = det
      BY <1>6, <2>1 DEF TypeOK
    <3>2. QED
      BY <1>1, <1>6, <3>1, Stutter DEF bar
  <2>2. ASSUME NEW d \in todo
        PROVE  LV!Next
    <3>1. d \in Dets /\ \A e \in todo : e = d
      BY <1>6 DEF Control
    <3>2. det' = [det EXCEPT ![d] = v]
      BY <1>6, <3>1 DEF TypeOK
    <3>3. QED
      BY <1>5, <1>6, <3>1, <3>2
  <2>3. QED
    BY <2>1, <2>2
<1>7. CASE OpenDet
  BY <1>6, <1>7 DEF OpenDet, OneValve
<1>8. CASE CloseDet
  BY <1>6, <1>8 DEF CloseDet, OneValve
<1>9. CASE AllDet
  <2>1. PICK d \in todo : IF onoff[d]
                          THEN det' = [det EXCEPT ![d] = "closed"] /\ Scan
                          ELSE UNCHANGED <<det, status, oflo>>
    BY <1>9 DEF AllDet
  <2>2. d \in Dets /\ UNCHANGED <<tank, mani>>
    BY <1>9 DEF AllDet, Control
  <2>3. CASE onoff[d]
    BY <1>5, <2>1, <2>2, <2>3
  <2>4. CASE ~onoff[d]
    BY <1>1, <2>1, <2>2, <2>4, Stutter DEF bar
  <2>5. QED
    BY <2>3, <2>4
<1>10. QED
  BY <1>2, <1>3, <1>4, <1>7, <1>8, <1>9 DEF Valves

LEMMA CoolingOrder == ASSUME TypeOK, Control, Cooling PROVE [LV!Next]_(LV!vars)
<1> USE DEF Phase, FillLoop
<1>1. CASE FillOpenTank
  BY <1>1 DEF FillOpenTank, LV!Next, LV!StartCooling
<1>2. CASE FillOpenMani
  BY <1>2 DEF FillOpenMani, LV!Next, LV!VentWhileCooling
<1>3. CASE FillCool
  <2>1. Phase' = Phase /\ UNCHANGED bar
    BY <1>3 DEF FillCool
  <2>2. QED
    BY <2>1, Stutter
<1>4. CASE FillCheckCool
  BY <1>4 DEF FillCheckCool, LV!Next, LV!Interrupt, LV!vars, bar
<1>5. CASE FillShutMani
  BY <1>5 DEF FillShutMani, Control, LV!Next, LV!StartFilling
<1>6. CASE FillOpenDet
  <2>1. PICK d \in todo : det' = [det EXCEPT ![Outlet(d)] = "open"]
    BY <1>6 DEF FillOpenDet
  <2>2. /\ Outlet(d) \in Dets /\ tank = "open" /\ mani = "closed"
        /\ UNCHANGED <<tank, mani>> /\ Phase = "fill"
    BY <1>6, Table DEF FillOpenDet, TypeOK, Control, Filled
  <2>3. CASE pc' = "ack"
    <3>1. Phase' = "rest"
      BY <2>3
    <3>2. QED
      BY <2>1, <2>2, <3>1 DEF LV!Next, LV!Interrupt
  <2>4. CASE pc' \in {"f_open", "f_read"}
    <3>1. Phase' = "fill"
      BY <2>4
    <3>2. QED
      BY <2>1, <2>2, <3>1 DEF LV!Next, LV!OpenDet
  <2>5. QED
    BY <1>6, <2>3, <2>4 DEF FillOpenDet
<1>7. QED
  BY <1>1, <1>2, <1>3, <1>4, <1>5, <1>6 DEF Cooling

LEMMA FillingOrder == ASSUME TypeOK, Control, Filling PROVE [LV!Next]_(LV!vars)
<1> USE DEF Phase, FillLoop
<1>1. ASSUME NEW d \in Entries, NEW word, Finish(d, word),
             pc \in FillLoop, pc' \in FillLoop, UNCHANGED <<tank, mani>>
      PROVE  LV!Next
  <2>1. Phase = "fill" /\ Phase' = "fill"
    BY <1>1
  <2>2. QED
    BY <1>1, <2>1, Table DEF Finish, Shut, LV!Next, LV!CloseDet
<1>2. CASE FillRead
  BY <1>2, Stutter DEF FillRead
<1>3. CASE FillDet
  <2>1. PICK d \in todo : FillSkip(d) \/ FillCount(d) \/ FillFull(d)
    BY <1>3 DEF FillDet
  <2>2. CASE FillSkip(d) \/ FillCount(d)
    <3>1. Phase' = Phase /\ UNCHANGED bar
      BY <1>3, <2>2 DEF FillDet, FillSkip, FillCount, Advance
    <3>2. QED
      BY <3>1, Stutter
  <2>3. CASE FillFull(d)
    BY <1>1, <1>3, <2>3 DEF FillDet, FillFull, TypeOK
  <2>4. QED
    BY <2>1, <2>2, <2>3
<1>4. CASE FillOver
  <2>1. PICK d \in todo :
             /\ IF Overtime(d)
                THEN Finish(d, "LONG") /\ twice' = (twice \/ actkk[d] = Full)
                ELSE UNCHANGED <<mm, det, actkk, next, status, oflo, twice>>
             /\ Advance(d)
    BY <1>4 DEF FillOver
  <2>2. /\ pc = "f_over" /\ pc' \in {"f_det", "f_chk"} /\ d \in Entries
        /\ UNCHANGED <<tank, mani>>
    BY <1>4, <2>1 DEF FillOver, Advance, TypeOK
  <2>3. CASE Overtime(d)
    BY <1>1, <2>1, <2>2, <2>3
  <2>4. CASE ~Overtime(d)
    BY <2>1, <2>2, <2>4, Stutter DEF bar
  <2>5. QED
    BY <2>3, <2>4
<1>5. CASE FillCheck
  BY <1>5 DEF FillCheck, LV!Next, LV!Interrupt, LV!vars, bar
<1>6. CASE FillCloseTank
  BY <1>6 DEF FillCloseTank, LV!Next, LV!ShutTank
<1>7. CASE FillVent
  BY <1>7 DEF FillVent, LV!Next, LV!Vent
<1>8. CASE FillClose
  BY <1>8 DEF FillClose, LV!Next, LV!ShutVent
<1>9. QED
  BY <1>2, <1>3, <1>4, <1>5, <1>6, <1>7, <1>8 DEF Filling

LEMMA DieOrder == ASSUME TypeOK, Die PROVE [LV!Next]_(LV!vars)
<1> USE DEF Phase, FillLoop, LV!Valve
<1>1. Phase' = "rest"
  BY DEF Die
<1>2. CASE DyingTank
  <2>1. \/ Phase = "rest" /\ tank' \in {tank, "open", "closed"}
        \/ Phase = "fill" /\ tank' \in {tank, "closed"}
    BY <1>2 DEF DyingTank
  <2>2. UNCHANGED <<mani, det>> /\ tank' \in {"open", "closed"}
    BY <1>2 DEF DyingTank, TypeOK, Valve
  <2>3. QED
    BY <1>1, <2>1, <2>2 DEF LV!Next, LV!Manual, LV!Abandon
<1>3. CASE DyingMani
  <2>1. Phase \in {"rest", "cool", "vent"}
    BY <1>3 DEF DyingMani
  <2>2. UNCHANGED <<tank, det>> /\ mani' \in {"open", "closed"}
    BY <1>3 DEF DyingMani, TypeOK, Valve
  <2>3. QED
    BY <1>1, <2>1, <2>2 DEF LV!Next, LV!Manual, LV!Abandon
<1>4. CASE DyingDet
  <2>1. PICK d \in todo :
           \/ det' \in {det, [det EXCEPT ![Outlet(d)] = "open"]}
           \/ det' \in {det, [det EXCEPT ![Outlet(d)] = "closed"]}
    BY <1>4 DEF DyingDet, Shut
  <2>2. Outlet(d) \in Dets /\ det[Outlet(d)] \in {"open", "closed"}
        /\ det = [det EXCEPT ![Outlet(d)] = det[Outlet(d)]]
    BY Table DEF TypeOK, Valve
  <2>3. \E v \in {"open", "closed"} : det' = [det EXCEPT ![Outlet(d)] = v]
    BY <2>1, <2>2
  <2>4. Phase \in {"rest", "fill"} /\ UNCHANGED <<tank, mani>>
    BY <1>4 DEF DyingDet, Shuts
  <2>5. QED
    BY <1>1, <2>2, <2>3, <2>4 DEF LV!Next, LV!Manual, LV!Abandon
<1>5. CASE DyingStatus
  <2>1. Phase = "rest" /\ UNCHANGED bar
    BY <1>5 DEF DyingStatus
  <2>2. QED
    BY <1>1, <2>1, Stutter
<1>6. CASE DyingFar
  <2>1. UNCHANGED bar /\ Phase = "fill"
    BY <1>6 DEF DyingFar
  <2>2. QED
    BY <1>1, <2>1 DEF bar, LV!Next, LV!Interrupt
<1>7. QED
  BY <1>2, <1>3, <1>4, <1>5, <1>6 DEF Die

LEMMA OtherOrder ==
    ASSUME Restart \/ Tick \/ \E r \in Readers : Reader(r)
    PROVE  [LV!Next]_(LV!vars)
<1>1. Phase' = Phase /\ UNCHANGED bar
  <2>1. CASE Restart
    BY <2>1 DEF Restart, Phase, FillLoop
  <2>2. CASE Tick
    BY <2>2 DEF Tick, Phase
  <2>3. CASE \E r \in Readers : Reader(r)
    <3>1. UNCHANGED <<bar, pc>>
      BY <2>3 DEF Reader, AskUpdate, AskEdit, AskOne, AnswerOne, AskAll,
             AskInitial, AskPlain, AskValve, ResetAlarms, AskToggle, Toggle,
             SetNext, SetInterval, SetMax, SetLimit, LeaveEdit, EndAll, Issue
    <3>2. QED
      BY <3>1 DEF Phase
  <2>4. QED
    BY <2>1, <2>2, <2>3
<1>2. QED
  BY <1>1, Stutter

(* Every fill, of any table and under any commands, a daemon that dies     *)
(* included, works the valves in the order of LnValves: no detector is     *)
(* opened but from an open tank past a shut vent, and the vent is opened   *)
(* at the end only after the tank was shut.                                *)
THEOREM ImplementsLnValves == Spec => ValveOrder
<1>1. Init => LV!Init
  BY DEF Init, LV!Init, Phase, FillLoop
<1>2. IInv /\ [Next]_vars => [LV!Next]_(LV!vars)
  <2>1. CASE Daemon
    BY <2>1, CycleOrder, ValvesOrder, CoolingOrder, FillingOrder
       DEF Daemon, IInv
  <2>2. CASE Die
    BY <2>2, DieOrder DEF IInv
  <2>3. CASE Restart \/ Tick \/ \E r \in Readers : Reader(r)
    BY <2>3, OtherOrder
  <2>4. CASE UNCHANGED vars
    BY <2>4, Stutter DEF vars, Phase
  <2>5. QED
    BY <2>1, <2>2, <2>3, <2>4 DEF Next
<1>3. QED
  BY <1>1, <1>2, Invariant, PTL DEF Spec, ValveOrder, LV!Spec

-----------------------------------------------------------------------------
(* The list of a fill fits, for every number of menu programs.             *)

LEMMA Menus ==
    ASSUME IsFiniteSet(Readers)
    PROVE  /\ IsFiniteSet(Counted) /\ IsFiniteSet(Counted')
           /\ Cardinality(Counted) \in Nat /\ Cardinality(Counted') \in Nat
           /\ Cardinality(Readers) \in Nat
           /\ Cardinality(Counted) <= Cardinality(Readers)
           /\ Cardinality(Counted') <= Cardinality(Readers)
<1>1. Counted \subseteq Readers /\ Counted' \subseteq Readers
  BY DEF Counted
<1>2. QED
  BY <1>1, FS_Subset, FS_CardinalityType

LEMMA OnFinite ==
    /\ IsFiniteSet(On) /\ IsFiniteSet(On')
    /\ Cardinality(On) \in Nat /\ Cardinality(On') \in Nat
    /\ MaxOn \in Nat
<1>1. On \subseteq Entries /\ On' \subseteq Entries
  BY Table DEF On
<1>2. QED
  BY <1>1, DetSets, FillAssumption

(* Whatever leaves the detectors that are on, the counts and the fill. *)
LEMMA FitSame ==
    ASSUME IsFiniteSet(Readers), FitInv, UNCHANGED <<onoff, active>>,
           Counted' \subseteq Counted, pc' \in FillStep => pc \in FillStep
    PROVE  FitInv'
<1>1. On' = On
  BY DEF On
<1>2. Cardinality(Counted') <= Cardinality(Counted)
  BY Menus, FS_Subset
<1>3. QED
  BY <1>1, <1>2, Menus, OnFinite, SMT DEF FitInv, FillFits

LEMMA FitStart ==
    ASSUME IsFiniteSet(Readers), Readers # {}, Cardinality(InitOn) <= MaxOn, Init
    PROVE  FitInv
<1>1. On = InitOn
  <2>1. onoff = [d \in Dets |-> d \in InitOn]
    BY DEF Init
  <2>2. \A d \in Dets : onoff[d] <=> d \in InitOn
    BY <2>1
  <2>3. QED
    BY <2>2, FillAssumption DEF On
<1>2. pc = "test" /\ rpc = [r \in Readers |-> "menu"]
  BY DEF Init
<1>3. pc \notin FillStep
  BY <1>2 DEF FillStep, Interruptible
<1>4. Counted = {}
  BY <1>2 DEF Counted
<1>5. Cardinality(Counted) = 0
  BY <1>4, FS_EmptySet
<1>6. Cardinality(Readers) # 0
  BY FS_EmptySet
<1>7. QED
  BY <1>1, <1>2, <1>3, <1>5, <1>6, Menus, OnFinite, SMT DEF FitInv, FillFits

LEMMA FitReader ==
    ASSUME TypeOK, IsFiniteSet(Readers), FitInv, NEW r \in Readers, Reader(r)
    PROVE  FitInv'
<1> USE DEF shm, times, local, Menu, Goto, Issue, Param
<1>1. CASE Toggle(r)
  <2>1. /\ UNCHANGED <<active, pc>> /\ rpc' = [rpc EXCEPT ![r] = "edit"]
        /\ rpc \in [Readers -> {"menu", "edit", "few", "many", "one", "gone"}]
    BY <1>1 DEF Toggle, TypeOK
  <2>2. Counted' = Counted \ {r}
    BY <2>1 DEF Counted
  <2>3. PICK e \in Edited :
          \/ rpc[r] = "few"
             /\ onoff' = [d \in Dets |-> IF d = e THEN ~onoff[d] ELSE onoff[d]]
          \/ rpc[r] = "many"
             /\ onoff' = [d \in Dets |-> d # e /\ onoff[d]]
    BY <1>1 DEF Toggle
  <2>4. Cardinality(On') + Cardinality(Counted')
          <= Cardinality(On) + Cardinality(Counted)
    <3>1. CASE rpc[r] = "few"
      <4>1. On' \subseteq On \cup {e}
        <5>1. SUFFICES ASSUME NEW d \in Dets, onoff'[d], d # e PROVE onoff[d]
          BY DEF On
        <5>2. onoff' = [c \in Dets |-> IF c = e THEN ~onoff[c] ELSE onoff[c]]
          BY <2>3, <3>1
        <5>3. onoff'[d] = onoff[d]
          BY <5>1, <5>2, Zenon
        <5>4. QED
          BY <5>1, <5>3
      <4>2. /\ IsFiniteSet(On \cup {e}) /\ Cardinality(On \cup {e}) \in Nat
            /\ Cardinality(On \cup {e}) <= Cardinality(On) + 1
        <5>1. /\ IsFiniteSet(On \cup {e})
              /\ Cardinality(On \cup {e}) =
                   IF e \in On THEN Cardinality(On) ELSE Cardinality(On) + 1
          BY OnFinite, FS_AddElement, Zenon
        <5>2. QED
          BY <5>1, OnFinite, SMT
      <4>3. Cardinality(On') <= Cardinality(On \cup {e})
        BY <4>1, <4>2, FS_Subset
      <4>4. r \in Counted
        BY <3>1 DEF Counted
      <4>5. Cardinality(Counted') = Cardinality(Counted) - 1
        BY <2>2, <4>4, Menus, FS_RemoveElement
      <4>6. QED
        BY <4>2, <4>3, <4>5, OnFinite, Menus, SMT
    <3>2. CASE rpc[r] = "many"
      <4>1. On' \subseteq On /\ Counted' \subseteq Counted
        BY <2>2, <2>3, <3>2 DEF On
      <4>2. /\ Cardinality(On') <= Cardinality(On)
            /\ Cardinality(Counted') <= Cardinality(Counted)
        BY OnFinite, Menus, <4>1, FS_Subset
      <4>3. QED
        BY OnFinite, Menus, <4>2, SMT
    <3>3. QED
      BY <2>3, <3>1, <3>2
  <2>5. QED
    BY <2>1, <2>4, OnFinite, Menus, SMT DEF FitInv, FillFits
<1>2. CASE AskToggle(r)
  <2>1. /\ UNCHANGED <<onoff, active, pc>>
        /\ rpc' = [rpc EXCEPT ![r] = IF Cardinality(On) < MaxOn
                                     THEN "few" ELSE "many"]
        /\ rpc \in [Readers -> {"menu", "edit", "few", "many", "one", "gone"}]
    BY <1>2 DEF AskToggle, TypeOK, On
  <2>2. CASE Cardinality(On) < MaxOn
    <3>1. On' = On
      BY <2>1 DEF On
    <3>2. QED
      BY <2>1, <2>2, <3>1, OnFinite, Menus, SMT DEF FitInv, FillFits
  <2>3. CASE ~(Cardinality(On) < MaxOn)
    <3>1. Counted' \subseteq Counted
      BY <2>1, <2>3 DEF Counted
    <3>2. QED
      BY <2>1, <3>1, FitSame
  <2>4. QED
    BY <2>2, <2>3
<1>3. CASE ~Toggle(r) /\ ~AskToggle(r)
  <2>1. UNCHANGED <<onoff, active, pc>>
    BY <1>3 DEF Reader, AskUpdate, AskEdit, AskOne, AnswerOne, AskAll,
                AskInitial, AskPlain, AskValve, ResetAlarms, SetNext,
                SetInterval, SetMax, SetLimit, LeaveEdit, EndAll
  <2>2. \/ rpc' = rpc
        \/ \E where \in {"edit", "one", "menu", "gone"} :
              rpc' = [rpc EXCEPT ![r] = where]
    BY <1>3 DEF Reader, AskUpdate, AskEdit, AskOne, AnswerOne, AskAll,
                AskInitial, AskPlain, AskValve, ResetAlarms, SetNext,
                SetInterval, SetMax, SetLimit, LeaveEdit, EndAll
  <2>3. Counted' \subseteq Counted
    BY <2>2 DEF TypeOK, Counted
  <2>4. QED
    BY <2>1, <2>3, FitSame
<1>4. QED
  BY <1>1, <1>2, <1>3

LEMMA FitDaemon ==
    ASSUME TypeOK, IsFiniteSet(Readers), Readers # {}, FitInv, MaxOn # 0, Daemon
    PROVE  FitInv'
<1>1. CASE StartFill
  <2>1. UNCHANGED <<onoff, rpc>> /\ active' = FillList
    BY <1>1 DEF StartFill
  <2>2. Cardinality(active') < MaxOn + Cardinality(Readers)
    <3>1. CASE com1 = -1
      <4>1. active' = On
        BY <2>1, <3>1 DEF FillList, On
      <4>2. QED
        BY <4>1, OnFinite, Menus, SMT DEF FitInv
    <3>2. CASE com1 # -1
      <4>1. Cardinality({com1}) = 1
        BY FS_Singleton
      <4>2. Cardinality(Readers) # 0
        BY FS_EmptySet
      <4>3. Cardinality(active') = 1
        BY <2>1, <3>2, <4>1 DEF FillList
      <4>4. QED
        BY <4>2, <4>3, OnFinite, Menus, SMT
    <3>3. QED
      BY <3>1, <3>2
  <2>3. On' = On /\ Counted' = Counted
    BY <2>1 DEF On, Counted
  <2>4. QED
    BY <2>2, <2>3 DEF FitInv, FillFits
<1>2. CASE Ack
  <2>1. UNCHANGED <<onoff, rpc>> /\ pc' = "sleep"
    BY <1>2 DEF Ack
  <2>2. pc' \notin FillStep
    BY <2>1 DEF FillStep, Interruptible
  <2>3. QED
    BY <2>1, <2>2 DEF FitInv, FillFits, On, Counted
<1>3. CASE Cycle /\ ~StartFill /\ ~Ack
  <2>1. UNCHANGED <<onoff, active, rpc>>
    BY <1>3 DEF Cycle, Test, MainScan, Due, Dispatch, Sleep, shm, local
  <2>2. pc' \in {"exit", "scan", "due", "dispatch", "test"}
               \cup {Target(command)}
    BY <1>3 DEF Cycle, Test, MainScan, Due, Dispatch, Sleep
  <2>3. pc' \notin FillStep
    BY <2>2 DEF Target, FillStep, Interruptible
  <2>4. QED
    BY <2>1, <2>3, FitSame DEF Counted
<1>4. CASE Valves
  <2>1. UNCHANGED <<onoff, active, rpc>>
    BY <1>4 DEF Valves, Update, TankValve, ManiValve, OpenDet, CloseDet,
                AllTank, AllMani, AllDet, AllVent, shm, local
  <2>2. pc' \in {"ack", "all_mani", "all_det", "all_vent"}
    BY <1>4 DEF Valves, Update, TankValve, ManiValve, OpenDet, CloseDet,
                AllTank, AllMani, AllDet, AllVent
  <2>3. pc' \notin FillStep
    BY <2>2 DEF FillStep, Interruptible
  <2>4. QED
    BY <2>1, <2>3, FitSame DEF Counted
<1>5. CASE Cooling \/ Filling
  <2>1. UNCHANGED <<onoff, active, rpc>>
    <3>1. CASE FillDet
      BY <3>1 DEF FillDet, FillSkip, FillCount, FillFull, shm
    <3>2. CASE ~FillDet
      BY <1>5, <3>2 DEF Cooling, Filling, FillOpenTank, FillOpenMani,
                  FillCool, FillCheckCool, FillShutMani, FillOpenDet,
                  FillRead, FillOver, FillCheck, FillCloseTank,
                  FillVent, FillClose, shm, local
    <3>3. QED
      BY <3>1, <3>2
  <2>2. pc \in FillStep
    BY <1>5 DEF Cooling, Filling, FillOpenTank, FillOpenMani,
                FillCool, FillCheckCool, FillShutMani, FillOpenDet, FillRead,
                FillDet, FillOver, FillCheck, FillCloseTank, FillVent,
                FillClose, FillStep, Interruptible
  <2>3. QED
    BY <2>1, <2>2, FitSame DEF Counted
<1>6. QED
  BY <1>1, <1>2, <1>3, <1>4, <1>5 DEF Daemon

LEMMA FitRest ==
    ASSUME TypeOK, IsFiniteSet(Readers), FitInv,
           pc = "dead" => Cardinality(InitOn) < MaxOn,
           Die \/ Restart \/ Tick \/ UNCHANGED vars
    PROVE  FitInv'
<1>1. CASE Restart
  <2>1. /\ onoff' = [d \in Dets |-> d \in InitOn]
        /\ rpc' = rpc /\ pc' = "test" /\ Cardinality(InitOn) < MaxOn
    BY <1>1 DEF Restart
  <2>2. On' = InitOn
    <3>1. \A d \in Dets : onoff'[d] <=> d \in InitOn
      BY <2>1
    <3>2. QED
      BY <3>1, FillAssumption DEF On
  <2>3. pc' \notin FillStep
    BY <2>1 DEF FillStep, Interruptible
  <2>4. QED
    BY <2>1, <2>2, <2>3, OnFinite, Menus, SMT DEF FitInv, FillFits
<1>2. CASE Die
  <2>1. UNCHANGED <<onoff, rpc>> /\ pc' = "dead"
    BY <1>2 DEF Die, shm
  <2>2. pc' \notin FillStep
    BY <2>1 DEF FillStep, Interruptible
  <2>3. QED
    BY <2>1, <2>2 DEF FitInv, FillFits, On, Counted
<1>3. CASE Tick \/ UNCHANGED vars
  <2>1. UNCHANGED <<onoff, active, rpc, pc>>
    BY <1>3 DEF Tick, vars, shm, local
  <2>2. QED
    BY <2>1, FitSame DEF Counted
<1>4. QED
  BY <1>1, <1>2, <1>3

(* However many menu programs count and toggle at once, and whatever the   *)
(* daemon lists meanwhile, the list of a fill of all outgrows the MaxOn    *)
(* places there are by less than there are menu programs: of one, it fits. *)
(* Of a lnfill.conf that turns on no more than MaxOn, and fewer if the     *)
(* daemon ever dies: it may be started again while a menu program is       *)
(* between its count and its toggle.                                       *)
THEOREM FillsFit ==
    ASSUME IsFiniteSet(Readers), Readers # {}, MaxOn # 0,
           Cardinality(InitOn) <= MaxOn
    PROVE  Spec /\ [](pc = "dead" => Cardinality(InitOn) < MaxOn) => []FillFits
<1> DEFINE Few == pc = "dead" => Cardinality(InitOn) < MaxOn
<1>1. Init => FitInv
  BY FitStart
<1>2. IInv /\ FitInv /\ Few /\ [Next]_vars => FitInv'
  BY FitDaemon, FitReader, FitRest DEF Next, IInv
<1>3. FitInv => FillFits
  BY DEF FitInv
<1> HIDE DEF Few
<1>4. Spec /\ []Few => []FitInv
  BY <1>1, <1>2, Invariant, PTL DEF Spec
<1>5. QED
  BY <1>3, <1>4, PTL DEF Few

=============================================================================
