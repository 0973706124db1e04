--------------------------- MODULE LnAlarm_proofs ---------------------------
(***************************************************************************)
(* Proofs about LnAlarm, for every table, number of menu programs and      *)
(* choice of menu items: types, and what a scan has shut down.             *)
(***************************************************************************)
EXTENDS LnAlarm, TLAPS

LEMMA Table ==
    /\ NDet \in 1..20 /\ InitOn \subseteq Dets
    /\ \A d \in Dets : d \in Nat /\ d < NDet /\ d + 1 \in 0..NDet
    /\ 0 \in Dets
BY NDetAssumption, AlarmAssumption, SMT DEF Dets

LEMMA TypeInit ==
    ASSUME Init
    PROVE  TypeOK
BY Table, NDetAssumption DEF Init, TypeOK

LEMMA NoteType ==
    ASSUME TypeOK, Note, on' \subseteq Dets
    PROVE  due' \subseteq Dets
BY DEF TypeOK, Note, Wanted

LEMMA TypeDaemon ==
    ASSUME TypeOK, Daemon
    PROVE  /\ com2' = com2 /\ on' = on /\ rtd' = rtd /\ rpc' = rpc /\ lpc' = lpc
           /\ held' \subseteq Dets /\ up' \subseteq up
           /\ pc' \in {"scan", "shut", "rest"}
           /\ at' \in IF pc' = "shut" THEN Dets ELSE 0..NDet
<1>1. CASE Call
  BY <1>1, Table DEF Call, TypeOK, shm, world
<1>2. CASE ScanOne
  <2>1. at \in Dets
    BY <1>2, NDetAssumption DEF ScanOne, TypeOK, Dets
  <2>2. QED
    BY <1>2, <2>1, Table DEF ScanOne, TypeOK, world, Armed
<1>3. CASE Shut
  BY <1>3, Table DEF Shut, TypeOK, shm
<1>4. CASE Return
  BY <1>4 DEF Return, TypeOK, shm, world
<1>5. QED
  BY <1>1, <1>2, <1>3, <1>4 DEF Daemon

LEMMA TypeReader ==
    ASSUME TypeOK, NEW r \in Readers, Reader(r)
    PROVE  /\ com2' \in {0, 1, 5, 6}
           /\ on' \subseteq Dets /\ held' \subseteq Dets
           /\ UNCHANGED <<rtd, up, pc, at, lpc>>
           /\ rpc' \in [Readers -> {"menu", "on?", "off?"}]
<1>1. CASE Toggle(r)
  BY <1>1 DEF Toggle, TypeOK, world, daemon
<1>2. CASE ResetAlarms(r)
  BY <1>2 DEF ResetAlarms, TypeOK, world, daemon
<1>3. CASE AskShutdown(r)
  BY <1>3 DEF AskShutdown, Goto, TypeOK, shm, world, daemon
<1>4. CASE Answer(r)
  BY <1>4 DEF Answer, Goto, TypeOK, world, daemon
<1>5. QED
  BY <1>1, <1>2, <1>3, <1>4 DEF Reader

LEMMA TypeNext ==
    ASSUME TypeOK, [Next]_vars
    PROVE  TypeOK'
<1>1. CASE Daemon /\ Note
  <2>1. on' \subseteq Dets
    BY <1>1, TypeDaemon DEF TypeOK
  <2>2. due' \subseteq Dets
    BY <1>1, <2>1, NoteType
  <2>3. QED
    BY <1>1, <2>2, TypeDaemon DEF TypeOK
<1>2. CASE (\E r \in Readers : Reader(r)) /\ Note
  <2>1. PICK r \in Readers : Reader(r)
    BY <1>2
  <2>2. on' \subseteq Dets
    BY <2>1, TypeReader
  <2>3. due' \subseteq Dets
    BY <1>2, <2>2, NoteType
  <2>4. QED
    BY <2>1, <2>3, TypeReader DEF TypeOK
<1>3. CASE (Fill \/ Restart \/ Logger \/ Warm \/ HvUp) /\ Note
  <2>1. on' \subseteq Dets
    BY <1>3, Table DEF Fill, Restart, Logger, LogStart, LogLook, LogEnd, Warm,
                       HvUp, shm, TypeOK
  <2>2. due' \subseteq Dets
    BY <1>3, <2>1, NoteType
  <2>3. CASE Fill
    BY <2>2, <2>3 DEF Fill, TypeOK, world, daemon
  <2>4. CASE Restart
    BY <2>2, <2>4, Table, NDetAssumption DEF Restart, TypeOK, world
  <2>5. CASE Logger
    BY <2>2, <2>5 DEF Logger, LogStart, LogLook, LogEnd, TypeOK, shm, world, daemon
  <2>6. CASE Warm
    BY <2>2, <2>6 DEF Warm, TypeOK, shm, daemon
  <2>7. CASE HvUp
    BY <2>2, <2>7 DEF HvUp, TypeOK, shm, daemon
  <2>8. QED
    BY <1>3, <2>3, <2>4, <2>5, <2>6, <2>7
<1>4. CASE UNCHANGED vars
  BY <1>4 DEF TypeOK, vars, shm, world, daemon
<1>5. QED
  BY <1>1, <1>2, <1>3, <1>4 DEF Next, Others

(* Types hold whatever the programs do. *)
THEOREM TypeCorrect == Spec => []TypeOK
<1>1. Init => TypeOK
  BY TypeInit
<1>2. TypeOK /\ [Next]_vars => TypeOK'
  BY TypeNext
<1>3. QED
  BY <1>1, <1>2, PTL DEF Spec

-----------------------------------------------------------------------------
(* What a scan has shut down. *)

(* The auxiliary set is of detectors that are on, hot and armed, and but   *)
(* for the step that begins a scan it only shrinks, by what comes up.      *)
LEMMA NoteSure ==
    ASSUME TypeOK, Note
    PROVE  /\ due' \subseteq Wanted'
           /\ \/ pc' = "scan" /\ at' = 0
              \/ due' \subseteq due /\ due' \cap (up' \ up) = {}
BY DEF Note

LEMMA SureNext ==
    ASSUME IInv, [Next]_vars
    PROVE  IInv'
<1>1. /\ TypeOK /\ due \subseteq Wanted
      /\ pc # "rest" => \A d \in due : d < at => d \notin up
      /\ pc = "rest" => at \notin due
      /\ pc = "rest" => \A d \in due : d \in up => at < d
  BY DEF IInv, ScanShuts
<1>2. TypeOK'
  BY <1>1, TypeNext
<1>3. \A d \in due : d \in Dets /\ d \in Nat
  BY <1>1, Table DEF TypeOK
<1>4. \A d \in due' : d \in Dets /\ d \in Nat
  BY <1>2, Table DEF TypeOK
<1>5. at \in 0..NDet
  BY <1>1, Table, NDetAssumption DEF TypeOK
<1>6. CASE pc' = "scan" /\ at' = 0 /\ Note
  <2>1. due' \subseteq Wanted'
    BY <1>1, <1>6, NoteSure
  <2>2. \A d \in due' : ~(d < at')
    BY <1>4, <1>6
  <2>3. QED
    BY <1>2, <1>6, <2>1, <2>2 DEF IInv, ScanShuts
<1>7. ASSUME ~(pc' = "scan" /\ at' = 0), Note
      PROVE  /\ due' \subseteq Wanted' /\ due' \subseteq due
             /\ due' \cap (up' \ up) = {}
  BY <1>1, <1>7, NoteSure
<1>8. CASE Call /\ Note
  BY <1>6, <1>8 DEF Call
<1>9. CASE ScanOne /\ Note
  <2>1. /\ pc = "scan" /\ at # NDet /\ at \in Dets /\ up' = up
        /\ at \in Nat /\ at + 1 # 0
    BY <1>5, <1>9, Table, NDetAssumption DEF ScanOne, world, Dets
  <2>2. CASE at \in on /\ rtd[at] = "hot"
    <3>1. CASE Armed
      <4>1. pc' = "shut" /\ at' = at
        BY <1>9, <2>2, <3>1 DEF ScanOne
      <4>2. QED
        BY <1>1, <1>2, <1>7, <1>9, <2>1, <4>1 DEF IInv, ScanShuts
    <3>2. CASE ~Armed
      <4>1. pc' = "scan" /\ at' = at + 1
        BY <1>9, <2>1, <2>2, <3>2 DEF ScanOne
      <4>2. at \notin due
        BY <1>1, <3>2 DEF Wanted
      <4>3. \A d \in due : d < at + 1 => d \notin up
        BY <1>1, <1>3, <2>1, <4>2
      <4>4. QED
        BY <1>2, <1>7, <1>9, <2>1, <4>1, <4>3 DEF IInv, ScanShuts
    <3>3. QED
      BY <3>1, <3>2
  <2>3. CASE ~(at \in on /\ rtd[at] = "hot")
    <3>1. at \notin due
      BY <1>1, <2>3 DEF Wanted
    <3>2. \A d \in due : d < at + 1 => d \notin up
      BY <1>1, <1>3, <2>1, <3>1
    <3>3. CASE pc' = "scan" /\ at' = at + 1
      BY <1>2, <1>7, <1>9, <2>1, <3>2, <3>3 DEF IInv, ScanShuts
    <3>4. CASE pc' = "rest" /\ at' = at
      <4>1. \A d \in due : d \in up => at < d
        BY <1>1, <1>3, <2>1, <3>1
      <4>2. QED
        BY <1>2, <1>7, <1>9, <2>1, <3>1, <3>4, <4>1 DEF IInv, ScanShuts
    <3>5. QED
      BY <1>9, <2>1, <2>3, <3>3, <3>4 DEF ScanOne
  <2>4. QED
    BY <2>2, <2>3
<1>10. CASE Shut /\ Note
  <2>1. /\ pc = "shut" /\ pc' = "scan" /\ at' = at + 1 /\ up' = up \ {at}
        /\ at \in Nat
    BY <1>5, <1>10 DEF Shut
  <2>2. \A d \in due : d < at + 1 => d \notin up'
    BY <1>1, <1>3, <2>1
  <2>3. QED
    BY <1>2, <1>7, <1>10, <2>1, <2>2 DEF IInv, ScanShuts
<1>11. CASE Return /\ Note
  <2>1. pc = "scan" /\ at = NDet /\ pc' = "rest" /\ at' = at /\ up' = up
    BY <1>11 DEF Return, world
  <2>2. \A d \in due : d # NDet /\ d < at
    BY <1>3, <2>1, Table
  <2>3. QED
    BY <1>1, <1>2, <1>7, <1>11, <2>1, <2>2 DEF IInv, ScanShuts
<1>12. CASE pc' = pc /\ at' = at /\ Note
  <2>1. CASE pc' = "scan" /\ at' = 0
    BY <1>6, <1>12, <2>1
  <2>2. CASE ~(pc' = "scan" /\ at' = 0)
    <3>1. /\ due' \subseteq Wanted' /\ due' \subseteq due
          /\ due' \cap (up' \ up) = {}
      BY <1>7, <1>12, <2>2
    <3>2. \A d \in due' : d \in due /\ (d \in up' => d \in up)
      BY <3>1
    <3>3. QED
      BY <1>1, <1>2, <1>12, <3>1, <3>2 DEF IInv, ScanShuts
  <2>3. QED
    BY <2>1, <2>2
<1>13. CASE Others /\ Note
  <2>1. CASE Restart
    BY <1>6, <1>13, <2>1 DEF Restart
  <2>2. CASE Fill \/ Logger \/ Warm \/ HvUp
    BY <1>12, <1>13, <2>2 DEF Fill, Logger, LogStart, LogLook, LogEnd, Warm,
                              HvUp, daemon
  <2>3. CASE \E r \in Readers : Reader(r)
    BY <1>1, <1>12, <1>13, <2>3, TypeReader
  <2>4. QED
    BY <1>13, <2>1, <2>2, <2>3 DEF Others
<1>14. CASE UNCHANGED vars
  BY <1>1, <1>2, <1>14 DEF IInv, ScanShuts, Wanted, Armed, vars, shm, world, daemon
<1>15. QED
  BY <1>8, <1>9, <1>10, <1>11, <1>13, <1>14 DEF Next, Daemon

(* The inductive invariant itself.  What was on, hot and armed ever since  *)
(* the scan began still is, and the detectors the scan has passed among    *)
(* these are without voltage; one that ends the scan is not among them.    *)
THEOREM Invariant == Spec => []IInv
<1>1. Init => IInv
  BY TypeInit DEF Init, IInv, ScanShuts
<1>2. IInv /\ [Next]_vars => IInv'
  BY SureNext
<1>3. QED
  BY <1>1, <1>2, PTL DEF Spec

(* A scan has shut down what was hot and armed all the time since it       *)
(* began, but for what it did not reach.                                   *)
THEOREM ScanShutsDown == Spec => []ScanShuts
<1>1. IInv => ScanShuts
  BY DEF IInv
<1>2. QED
  BY <1>1, Invariant, PTL

=============================================================================
