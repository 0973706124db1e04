------------------------------- MODULE HvShm -------------------------------
(***************************************************************************)
(* The segment of hvmon: how the daemon (hv-mpod/src/hvmon.mpod-shm.c) and *)
(* its menu programs (hvmon-read-shm.c) find it, command through it and    *)
(* remove it.  What the commands do to the crate is in HvMon.              *)
(*                                                                         *)
(* Any program creates the segment if its key names none.  hvmon removes   *)
(* it when it ends, and so does every menu program; who is attached then   *)
(* keeps the old one, and who attaches next gets a new one.  Segments are  *)
(* numbered in the order of their creation.                                *)
(*                                                                         *)
(* There is one hvmon at a time.  SIGALRM kills it before its handler is   *)
(* set, and wakes it if it sleeps, which it may do by itself.  The pid of  *)
(* a process that has ended is not used again, and a menu program is a     *)
(* process group of its own, as a shell makes it.  The daemon's commands 1 *)
(* and 18 are sent by no program.                                          *)
(***************************************************************************)
EXTENDS Integers

CONSTANTS
    MaxSeg,     (* segments created at most                                 *)
    Readers,    (* the menu programs, each started any number of times      *)
    Ops         (* the menu items their users choose                        *)

Plain == {2, 3}          (* items that only write their number to com0      *)
Calls == {4, 5, 16}      (* items that then signal hvmon                    *)

ASSUME ShmAssumption ==
    /\ MaxSeg \in Nat \ {0}
    /\ Ops \subseteq Plain \cup Calls \cup {100}

VARIABLES
    (* the segments *)
    key,        (* the one the key names, 0 if none                         *)
    made,       (* how many were created                                    *)
    (* struct hvmon, of each segment *)
    pid,        (* 0; the pid of the running hvmon; or of one that ended    *)
    com0,       (* the command slot                                         *)
    (* hvmon *)
    hpc, hat,   (* where it is, and the segment it is attached to           *)
    job,        (* the command it carries out                               *)
    (* the menu programs *)
    rpc, rat,
    (* auxiliary *)
    left,       (* hvmon's command slot holds what was there before it came *)
    removed,    (* a menu program has removed the key since hvmon started   *)
    late,       (* the menu programs started since                          *)
    died        (* a program has been stopped before its end                *)

names == <<key, made>>
slots == <<pid, com0>>
hv    == <<hpc, hat, job>>
menus == <<rpc, rat>>
aux   == <<left, removed, late, died>>
vars  == <<names, slots, hv, menus, aux>>

Segs     == 1..MaxSeg
Commands == {-1, 0} \cup Plain \cup Calls
Looping  == {"test", "switch", "work", "sleep"}

Init ==
    /\ key = 0 /\ made = 0
    /\ pid = [s \in Segs |-> "none"]
    /\ com0 = [s \in Segs |-> 0]
    /\ hpc = "off" /\ hat = 0 /\ job = 0
    /\ rpc = [r \in Readers |-> "off"] /\ rat = [r \in Readers |-> 0]
    /\ left = FALSE /\ removed = FALSE /\ late = {} /\ died = FALSE

(* ftok(), shmget() with IPC_CREAT, shmat(): s is the segment of the key,  *)
(* or a new one, all 0.                                                    *)
FreshAttach(s) ==                          (* mutant: always a new segment *)
    /\ s \in Segs
    /\ s = made + 1 /\ made' = s
    /\ key' = s
Attach(s) ==
    /\ s \in Segs
    /\ \/ key # 0 /\ s = key /\ UNCHANGED made
       \/ key = 0 /\ s = made + 1 /\ made' = s
    /\ key' = s

(* shmctl(s, IPC_RMID): if s is removed already, nothing. *)
Remove(s) == key' = (IF s = key THEN 0 ELSE key) /\ UNCHANGED made

(* hvmon is gone, and its pid the pid of no program. *)
Gone == /\ hpc' = "off" /\ hat' = 0 /\ job' = 0
        /\ pid' = [s \in Segs |-> IF pid[s] = "hvmon" THEN "old" ELSE pid[s]]

-----------------------------------------------------------------------------
(* hvmon.                                                                  *)

HStart ==                                                   (* shmSetup() *)
    /\ hpc = "off"
    /\ \E s \in Segs : Attach(s) /\ hat' = s
    /\ hpc' = "pid"
    /\ left' = TRUE /\ removed' = FALSE /\ late' = {}
    /\ UNCHANGED <<slots, job, menus, died>>

HPid ==
    /\ hpc = "pid"
    /\ pid' = [pid EXCEPT ![hat] = "hvmon"]
    /\ hpc' = "handler"
    /\ UNCHANGED <<names, com0, hat, job, menus, aux>>

HHandler ==                                                (* sigaction() *)
    /\ hpc = "handler"
    /\ hpc' = "conf"
    /\ UNCHANGED <<names, slots, hat, job, menus, aux>>

(* readConf(), and the first command is a reading, whatever is in the slot. *)
TrustingConf ==              (* mutant: the slot is left as it was found *)
    /\ hpc = "conf"
    /\ hpc' = "test"
    /\ UNCHANGED <<names, slots, hat, job, menus, aux>>
HConf ==
    /\ hpc = "conf"
    /\ com0' = [com0 EXCEPT ![hat] = 2]
    /\ left' = FALSE
    /\ hpc' = "test"
    /\ UNCHANGED <<names, pid, hat, job, menus, removed, late, died>>

(* while(hvptr->com0 != -1) *)
HTest ==
    /\ hpc = "test"
    /\ hpc' = IF com0[hat] = -1 THEN "exit" ELSE "switch"
    /\ UNCHANGED <<names, slots, hat, job, menus, aux>>

(* switch ( hvptr->com0 ): what is no command, the -1 included that came   *)
(* after the while test, becomes 2 before the sleep.                       *)
HSwitch ==
    /\ hpc = "switch"
    /\ IF com0[hat] \in Plain \cup Calls
       THEN hpc' = "work" /\ job' = com0[hat] /\ UNCHANGED <<com0, left>>
       ELSE /\ com0' = [com0 EXCEPT ![hat] = 2] /\ left' = FALSE
            /\ hpc' = "sleep" /\ UNCHANGED job
    /\ UNCHANGED <<names, pid, hat, menus, removed, late, died>>

HWake ==
    /\ hpc = "sleep"
    /\ hpc' = "test"
    /\ UNCHANGED <<names, slots, hat, job, menus, aux>>

(* The end of a case: a reading leaves 0, or -1 if a temperature was bad,  *)
(* and anything else asks for a reading.                                   *)
HWork ==
    /\ hpc = "work"
    /\ \E c \in IF job \in Plain THEN {0, -1} ELSE {2} :
           com0' = [com0 EXCEPT ![hat] = c]
    /\ hpc' = "test" /\ job' = 0 /\ left' = FALSE
    /\ UNCHANGED <<names, pid, hat, menus, removed, late, died>>

KeepingExit ==                       (* mutant: the segment is left behind *)
    /\ hpc = "exit"
    /\ Gone
    /\ UNCHANGED <<names, com0, menus, aux>>
HExit ==                                              (* the end of main() *)
    /\ hpc = "exit"
    /\ Remove(hat) /\ Gone
    /\ UNCHANGED <<com0, menus, aux>>

(* hvmon is stopped with ctrl+c, as Howto.txt says, or crashes. *)
HDie ==
    /\ hpc # "off"
    /\ Gone /\ died' = TRUE
    /\ UNCHANGED <<names, com0, menus, left, removed, late>>

-----------------------------------------------------------------------------
(* The menu programs.                                                      *)

RStart(r) ==                                                (* shmSetup() *)
    /\ rpc[r] = "off"
    /\ \E s \in Segs : Attach(s) /\ rat' = [rat EXCEPT ![r] = s]
    /\ rpc' = [rpc EXCEPT ![r] = "menu"]
    /\ late' = late \cup {r}
    /\ UNCHANGED <<slots, hv, left, removed, died>>

(* A menu item that writes com0. *)
Item(r, c, then) ==
    /\ rpc[r] = "menu"
    /\ com0' = [com0 EXCEPT ![rat[r]] = c]
    /\ left' = (left /\ rat[r] # hat)
    /\ rpc' = [rpc EXCEPT ![r] = then]
    /\ UNCHANGED <<names, pid, hv, rat, removed, late, died>>

Ask(r)    == \E n \in Ops \cap Plain : Item(r, n, "menu")   (* items 2, 3 *)
Order(r)  == \E n \in Ops \cap Calls : Item(r, n, "kill") (* items 4, 5, 16 *)
RawEndAll(r) ==                      (* mutant: the item's number, as above *)
    100 \in Ops /\ Item(r, 100, "last")
EndAll(r) == 100 \in Ops /\ Item(r, -1, "last")               (* item 100 *)

EndThis(r) ==                                                   (* item 0 *)
    /\ rpc[r] = "menu"
    /\ rpc' = [rpc EXCEPT ![r] = "leave"]
    /\ UNCHANGED <<names, slots, hv, rat, aux>>

(* The menu program is no more. *)
Off(r) == rpc' = [rpc EXCEPT ![r] = "off"] /\ rat' = [rat EXCEPT ![r] = 0]

(* kill(hvptr->pid,SIGALRM), after an item and before the end of main(): a *)
(* pid of 0 is the menu program itself, which has no handler.              *)
Kill(r) ==
    /\ rpc[r] \in {"kill", "last", "leave"}
    /\ IF pid[rat[r]] = "none" THEN Off(r)
       ELSE /\ rpc' = [rpc EXCEPT ![r] = CASE @ = "kill" -> "menu"
                                           [] @ = "last" -> "leave"
                                           [] OTHER      -> "remove"]
            /\ UNCHANGED rat
    /\ IF pid[rat[r]] = "hvmon" /\ hpc = "handler" THEN Gone
       ELSE UNCHANGED <<pid, hv>>
    /\ died' = (\/ died \/ pid[rat[r]] = "none"
                \/ pid[rat[r]] = "hvmon" /\ hpc = "handler")
    /\ UNCHANGED <<names, com0, left, removed, late>>

(* The end of main(), whichever item it was. *)
End(r) ==
    /\ rpc[r] = "remove"
    /\ Remove(rat[r]) /\ Off(r)
    /\ removed' = (removed \/ rat[r] = key)
    /\ UNCHANGED <<slots, hv, left, late, died>>

RDie(r) ==                                      (* it is stopped, anywhere *)
    /\ rpc[r] # "off"
    /\ Off(r) /\ died' = TRUE
    /\ UNCHANGED <<names, slots, hv, left, removed, late>>

Daemon == \/ HStart \/ HPid \/ HHandler \/ HConf \/ HTest \/ HSwitch \/ HWake
          \/ HWork \/ HExit \/ HDie
Reader(r) == \/ RStart(r) \/ Ask(r) \/ Order(r) \/ EndAll(r) \/ EndThis(r)
             \/ Kill(r) \/ End(r) \/ RDie(r)
Next == Daemon \/ \E r \in Readers : Reader(r)

Spec == Init /\ [][Next]_vars

-----------------------------------------------------------------------------
(* Properties.                                                             *)

TypeOK ==
    /\ made \in 0..MaxSeg /\ key \in {0, made}
    /\ pid \in [Segs -> {"none", "hvmon", "old"}]
    /\ com0 \in [Segs -> Commands]
    /\ hpc \in {"off", "pid", "handler", "conf", "exit"} \cup Looping
    /\ hat \in IF hpc = "off" THEN {0} ELSE 1..made
    /\ job \in {0} \cup Plain \cup Calls
    /\ rpc \in [Readers -> {"off", "menu", "kill", "last", "leave", "remove"}]
    /\ rat \in [Readers -> 0..made]
    /\ \A r \in Readers : rat[r] = 0 <=> rpc[r] = "off"
    /\ late \subseteq Readers
    /\ left \in BOOLEAN /\ removed \in BOOLEAN /\ died \in BOOLEAN

(* An hvmon carries out no command sent before it was there: a segment     *)
(* left behind by a program that was stopped may hold any ("All HV on",    *)
(* "end all HVmon"), and the next hvmon attaches to it.                    *)
NoOldCommand == hpc \in Looping \cup {"exit"} => ~left

(* While no menu program has ended on hvmon's segment, every menu program  *)
(* started after hvmon is on that segment, in whichever order the programs *)
(* before them were started, ended and stopped, and whatever they left.    *)
SameSegment ==
    hpc # "off" /\ ~removed => \A r \in late : rpc[r] # "off" => rat[r] = hat

(* The key names a segment that no program is attached to only if some     *)
(* program was stopped.                                                    *)
NoneLeftBehind ==
    key # 0 /\ ~died => hat = key \/ \E r \in Readers : rat[r] = key

=============================================================================
