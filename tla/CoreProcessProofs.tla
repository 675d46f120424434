-------------------------- MODULE CoreProcessProofs --------------------------
(***************************************************************************)
(* Proofs about CoreProcess for any set of pids and any faults: the types, *)
(* what the pid file and the controller know of live cores, and what a     *)
(* signal may reach.                                                       *)
(***************************************************************************)
EXTENDS CoreProcess, TLAPS

Live(p) == proc[p] \in {"user", "root"}
Maybe == Pids \cup {NoPid}

Typed ==
  /\ proc \in [Pids -> Kinds]
  /\ pidFile \in Maybe /\ child \in Maybe /\ hand \in Maybe /\ daemon \in Maybe
  /\ victim \in Maybe /\ listed \subseteq Pids /\ missed \subseteq Pids
  /\ up \in BOOLEAN
  /\ status \in {"stopped", "starting", "running", "error"}
  /\ job \in Jobs /\ pc \in Steps /\ why \in {"stop", "failed", "restart"}
  /\ late \in {"none", "stop", "start"}

(* Steps, and what is in the controller's hands at each.                   *)
Staged ==
  /\ pc = "idle" <=> job = "idle"
  /\ hand # NoPid <=> pc \in {"record", "adopt"}
  /\ ~up => pc = "idle" /\ child = NoPid /\ why = "stop"
  /\ (job = "launch" /\ pc \in {"reclaimPid", "scan", "sweep", "reclaim", "reclaimWait", "reclaimAgain"})
       => child = NoPid
  /\ pc \in {"reclaimPid", "scan", "sweep", "reclaimAgain"} => job = "launch"
  /\ listed # {} => pc = "sweep"
  /\ pc = "clear" => child = NoPid

(* One core holds the ports, and the daemon's child is a core or its       *)
(* remains; no other root core appears beside it, nor beside the pid that  *)
(* a daemon without a child is terminating.                                *)
Processes ==
  /\ \A p, q \in Pids : Live(p) /\ Live(q) => p = q
  /\ daemon # NoPid => proc[daemon] \in {"root", "exited"}
  /\ \A p \in Pids : proc[p] = "root" => daemon \in {p, NoPid}
  /\ victim # NoPid => daemon = NoPid /\ \A p \in Pids : proc[p] = "root" => p = victim
  /\ pc = "record" => proc[hand] \in {"user", "exited"} /\ hand # daemon
  /\ pc = "adopt" => proc[hand] # "user"

(* A core that replaces the child finds no live one in its place.          *)
Replaced ==
  pc \in {"spawn", "record", "clear", "helperStart", "adopt"} => ~Is(child, {"user", "root"})

(* What the sweep of a launch has not passed over it ends.                 *)
Swept ==
  up /\ (job = "launch" => pc \notin {"reclaimPid", "scan"})
    => \A p \in Pids : proc[p] = "user" => p \in {child, hand} \cup missed \cup listed

Inv == Typed /\ Staged /\ Processes /\ Replaced /\ HeldIsNamed /\ Swept

-----------------------------------------------------------------------------
LEMMA Initially == Init => Inv
<1> SUFFICES ASSUME Init PROVE Inv
  OBVIOUS
<1> USE PidsAssumption DEF Init
<1>1. Typed
  BY DEF Typed, Maybe, Kinds, Jobs, Steps
<1>2. Staged /\ Processes /\ Replaced /\ HeldIsNamed /\ Swept
  BY DEF Staged, Processes, Replaced, HeldIsNamed, Swept, Live, Is
<1> QED
  BY <1>1, <1>2 DEF Inv

LEMMA Preserved == Inv /\ [Next]_vars => Inv'
<1> SUFFICES ASSUME Inv, [Next]_vars PROVE Inv'
  OBVIOUS
<1> USE PidsAssumption DEF Inv, Maybe, controller, flow, helper, sweep, At, Goto, End, Can, Becomes, Live, Is, Kinds
<1>1. CASE Launch
  <2>1. Typed'
    BY <1>1 DEF Launch, Typed, Jobs, Steps
  <2>2. Staged' /\ Processes' /\ Replaced' /\ HeldIsNamed' /\ Swept'
    BY <1>1 DEF Launch, Typed,
           Staged, Processes, Replaced, HeldIsNamed, Swept
  <2> QED
    BY <2>1, <2>2
<1>2. CASE JobBegins
  <2>1. Typed'
    BY <1>2 DEF JobBegins, Typed, Jobs, Steps
  <2>2. Staged' /\ Processes' /\ Replaced' /\ HeldIsNamed' /\ Swept'
    BY <1>2 DEF JobBegins, Typed,
           Staged, Processes, Replaced, HeldIsNamed, Swept
  <2> QED
    BY <2>1, <2>2
<1>3. CASE Guard
  <2>1. Typed'
    BY <1>3 DEF Guard, PortsHeld, Typed, Jobs, Steps
  <2>2. Staged' /\ Processes' /\ Replaced' /\ HeldIsNamed' /\ Swept'
    BY <1>3 DEF Guard, PortsHeld, Typed,
           Staged, Processes, Replaced, HeldIsNamed, Swept
  <2> QED
    BY <2>1, <2>2
<1>4. CASE Spawn
  <2>1. Typed'
    BY <1>4 DEF Spawn, Unused, PortsHeld, Typed, Jobs, Steps
  <2>2. Staged' /\ Processes' /\ Replaced' /\ HeldIsNamed' /\ Swept'
    BY <1>4 DEF Spawn, Unused, PortsHeld, Typed,
           Staged, Processes, Replaced, HeldIsNamed, Swept
  <2> QED
    BY <2>1, <2>2
<1>5. CASE Record
  <2>1. Typed'
    BY <1>5 DEF Record, Typed, Jobs, Steps
  <2>2. Staged' /\ Processes' /\ Replaced' /\ HeldIsNamed' /\ Swept'
    BY <1>5 DEF Record, Typed,
           Staged, Processes, Replaced, HeldIsNamed, Swept
  <2> QED
    BY <2>1, <2>2
<1>6. CASE Health
  <2>1. Typed'
    BY <1>6 DEF Health, PortsHeld, Typed, Jobs, Steps
  <2>2. Staged' /\ Processes' /\ Replaced' /\ HeldIsNamed' /\ Swept'
    BY <1>6 DEF Health, PortsHeld, Typed,
           Staged, Processes, Replaced, HeldIsNamed, Swept
  <2> QED
    BY <2>1, <2>2
<1>7. CASE Kill
  <2>1. Typed'
    BY <1>7 DEF Kill, KillFails, KillSucceeds, Typed, Jobs, Steps
  <2>2. Staged' /\ Processes' /\ Replaced' /\ HeldIsNamed' /\ Swept'
    BY <1>7 DEF Kill, KillFails, KillSucceeds, Typed,
           Staged, Processes, Replaced, HeldIsNamed, Swept
  <2> QED
    BY <2>1, <2>2
<1>8. CASE Clear
  <2>1. Typed'
    <3>1. /\ job' \in Jobs /\ pc' \in Steps
          /\ status' \in {"stopped", "starting", "running", "error"} /\ pidFile' \in Maybe
      BY <1>8 DEF Clear, Cleared, KillFails, Typed, Jobs, Steps
    <3> QED
      BY <1>8, <3>1 DEF Clear, Typed
  <2>2. Staged' /\ Processes' /\ Replaced' /\ HeldIsNamed' /\ Swept'
    BY <1>8 DEF Clear, Cleared, KillFails, Typed,
           Staged, Processes, Replaced, HeldIsNamed, Swept
  <2> QED
    BY <2>1, <2>2
<1>9. CASE Signal
  <2>1. Typed'
    BY <1>9 DEF Signal, Typed, Jobs, Steps
  <2>2. Staged' /\ Processes' /\ Replaced' /\ HeldIsNamed' /\ Swept'
    BY <1>9 DEF Signal, Typed,
           Staged, Processes, Replaced, HeldIsNamed, Swept
  <2> QED
    BY <2>1, <2>2
<1>10. CASE Reclaim
  <2>1. Typed'
    BY <1>10 DEF Reclaim, Waiting, StopAnswered, StopUnanswered, StopAwaited, Terminated, Outlived, Remains, Parented, ServeStop, ServeStopFails, StopBegins, NotServed, Typed, Jobs, Steps
  <2>2. Staged' /\ Processes' /\ Replaced' /\ HeldIsNamed' /\ Swept'
    BY <1>10 DEF Reclaim, Waiting, StopAnswered, StopUnanswered, StopAwaited, Terminated, Outlived, Remains, Parented, ServeStop, ServeStopFails, StopBegins, NotServed, Typed,
           Staged, Processes, Replaced, HeldIsNamed, Swept
  <2> QED
    BY <2>1, <2>2
<1>11. CASE Release
  <2>1. Typed'
    BY <1>11 DEF Release, Waiting, StopAnswered, StopUnanswered, StopAwaited, Terminated, Outlived, Remains, Parented, ServeStop, ServeStopFails, StopBegins, NotServed, Typed, Jobs, Steps
  <2>2. Staged' /\ Processes' /\ Replaced' /\ HeldIsNamed' /\ Swept'
    BY <1>11 DEF Release, Waiting, StopAnswered, StopUnanswered, StopAwaited, Terminated, Outlived, Remains, Parented, ServeStop, ServeStopFails, StopBegins, NotServed, Typed,
           Staged, Processes, Replaced, HeldIsNamed, Swept
  <2> QED
    BY <2>1, <2>2
<1>12. CASE HelperStart
  <2>1. Typed'
    BY <1>12 DEF HelperStart, ServeStartOk, ServeStartFails, NotServed, Unused, PortsHeld, Typed, Jobs, Steps
  <2>2. Staged' /\ Processes' /\ Replaced' /\ HeldIsNamed' /\ Swept'
    BY <1>12 DEF HelperStart, ServeStartOk, ServeStartFails, NotServed, Unused, PortsHeld, Typed,
           Staged, Processes, Replaced, HeldIsNamed, Swept
  <2> QED
    BY <2>1, <2>2
<1>13. CASE Adopt
  <2>1. Typed'
    BY <1>13 DEF Adopt, Typed, Jobs, Steps
  <2>2. Staged' /\ Processes' /\ Replaced' /\ HeldIsNamed' /\ Swept'
    BY <1>13 DEF Adopt, Typed,
           Staged, Processes, Replaced, HeldIsNamed, Swept
  <2> QED
    BY <2>1, <2>2
<1>14. CASE ReclaimPid
  <2>1. Typed'
    BY <1>14 DEF ReclaimPid, Signalled, Typed, Jobs, Steps
  <2>2. Staged' /\ Processes' /\ Replaced' /\ HeldIsNamed' /\ Swept'
    BY <1>14 DEF ReclaimPid, Signalled, Typed,
           Staged, Processes, Replaced, HeldIsNamed, Swept
  <2> QED
    BY <2>1, <2>2
<1>15. CASE Scan
  <2>1. Typed'
    BY <1>15 DEF Scan, Typed, Jobs, Steps
  <2>2. Staged' /\ Processes' /\ Replaced' /\ HeldIsNamed' /\ Swept'
    BY <1>15 DEF Scan, Typed,
           Staged, Processes, Replaced, HeldIsNamed, Swept
  <2> QED
    BY <2>1, <2>2
<1>16. CASE Sweep
  <2>1. Typed'
    BY <1>16 DEF Sweep, SweepPid, Signalled, Typed, Jobs, Steps
  <2>2. Staged' /\ Processes' /\ Replaced' /\ HeldIsNamed' /\ Swept'
    BY <1>16 DEF Sweep, SweepPid, Signalled, Typed,
           Staged, Processes, Replaced, HeldIsNamed, Swept
  <2> QED
    BY <2>1, <2>2
<1>17. CASE Reap
  <2>1. Typed'
    BY <1>17 DEF Reap, Typed, Jobs, Steps
  <2>2. Staged' /\ Processes' /\ Replaced' /\ HeldIsNamed' /\ Swept'
    BY <1>17 DEF Reap, Typed,
           Staged, Processes, Replaced, HeldIsNamed, Swept
  <2> QED
    BY <2>1, <2>2
<1>18. CASE ServeLate
  <2>1. Typed'
    BY <1>18 DEF ServeLate, ServeStop, ServeStopFails, StopBegins, ServeStartOk, ServeStartFails, Unused, PortsHeld, Typed, Jobs, Steps
  <2>2. Staged' /\ Processes' /\ Replaced' /\ HeldIsNamed' /\ Swept'
    BY <1>18 DEF ServeLate, ServeStop, ServeStopFails, StopBegins, ServeStartOk, ServeStartFails, Unused, PortsHeld, Typed,
           Staged, Processes, Replaced, HeldIsNamed, Swept
  <2> QED
    BY <2>1, <2>2
<1>19. CASE ServeOn
  <2>1. Typed'
    BY <1>19 DEF ServeOn, Waiting, Terminated, Outlived, Remains, Parented, Typed, Jobs, Steps
  <2>2. Staged' /\ Processes' /\ Replaced' /\ HeldIsNamed' /\ Swept'
    BY <1>19 DEF ServeOn, Waiting, Terminated, Outlived, Remains, Parented, Typed,
           Staged, Processes, Replaced, HeldIsNamed, Swept
  <2> QED
    BY <2>1, <2>2
<1>20. CASE AppDies
  <2>1. Typed'
    BY <1>20 DEF AppDies, Typed, Jobs, Steps
  <2>2. Staged' /\ Processes' /\ Replaced' /\ HeldIsNamed' /\ Swept'
    BY <1>20 DEF AppDies, Typed,
           Staged, Processes, Replaced, HeldIsNamed, Swept
  <2> QED
    BY <2>1, <2>2
<1>21. CASE DaemonDies
  <2>1. Typed'
    BY <1>21 DEF DaemonDies, Typed, Jobs, Steps
  <2>2. Staged' /\ Processes' /\ Replaced' /\ HeldIsNamed' /\ Swept'
    BY <1>21 DEF DaemonDies, Typed,
           Staged, Processes, Replaced, HeldIsNamed, Swept
  <2> QED
    BY <2>1, <2>2
<1>22. ASSUME NEW p \in Pids, CoreExits(p) PROVE Inv'
  <2>1. Typed'
    BY <1>22 DEF CoreExits, Remains, Parented, Typed, Jobs, Steps
  <2>2. Staged' /\ Processes' /\ Replaced' /\ HeldIsNamed' /\ Swept'
    BY <1>22 DEF CoreExits, Remains, Parented, Typed,
           Staged, Processes, Replaced, HeldIsNamed, Swept
  <2> QED
    BY <2>1, <2>2
<1>23. ASSUME NEW p \in Pids, StrangerTakes(p) PROVE Inv'
  <2>1. Typed'
    BY <1>23 DEF StrangerTakes, Typed, Jobs, Steps
  <2>2. Staged' /\ Processes' /\ Replaced' /\ HeldIsNamed' /\ Swept'
    BY <1>23 DEF StrangerTakes, Typed,
           Staged, Processes, Replaced, HeldIsNamed, Swept
  <2> QED
    BY <2>1, <2>2
<1>24. ASSUME NEW p \in Pids, StrangerLeaves(p) PROVE Inv'
  <2>1. Typed'
    BY <1>24 DEF StrangerLeaves, Typed, Jobs, Steps
  <2>2. Staged' /\ Processes' /\ Replaced' /\ HeldIsNamed' /\ Swept'
    BY <1>24 DEF StrangerLeaves, Typed,
           Staged, Processes, Replaced, HeldIsNamed, Swept
  <2> QED
    BY <2>1, <2>2
<1>25. CASE UNCHANGED vars
  BY <1>25 DEF vars, Typed, Staged, Processes, Replaced, HeldIsNamed, Swept
<1> QED
  BY <1>1, <1>2, <1>3, <1>4, <1>5, <1>6, <1>7, <1>8, <1>9, <1>10, <1>11, <1>12, <1>13,
     <1>14, <1>15, <1>16, <1>17, <1>18, <1>19, <1>20, <1>21, <1>22, <1>23, <1>24, <1>25
     DEF Next, JobStep, Machine

-----------------------------------------------------------------------------
(* Processes, handles and the pid file stand to each other at every step   *)
(* as Staged, Processes, Replaced, HeldIsNamed and Swept say.              *)
THEOREM ProcessInvariant == Spec => []Inv
BY Initially, Preserved, PTL DEF Spec

(* Every variable keeps its type, for any pids and any faults.             *)
THEOREM TypeCorrect == Spec => []TypeOK
<1>1. Inv => TypeOK
  <2> SUFFICES ASSUME Inv PROVE TypeOK
    OBVIOUS
  <2>1. up \in BOOLEAN
    BY Zenon DEF Inv, Typed
  <2>2. (pc = "idle") = (job = "idle") /\ (hand # NoPid) = (pc \in {"record", "adopt"})
    BY DEF Inv, Staged
  <2> QED
    BY <2>1, <2>2 DEF Inv, Typed, Maybe, TypeOK
<1> QED
  BY <1>1, ProcessInvariant, PTL

(* Wherever the app dies and whatever kill or adoption fails, the core the *)
(* controller holds is named on disk (write_pid, kill_child_and_clear_pid).*)
THEOREM HeldAlwaysNamed == Spec => []HeldIsNamed
<1>1. Inv => HeldIsNamed
  BY DEF Inv
<1> QED
  BY <1>1, ProcessInvariant, PTL

(* After the sweep of a launch no core of the user's runs unseen, but for  *)
(* those the sweep could not list or was refused to kill                   *)
(* (reclaim_orphan_cores_with_config).                                     *)
THEOREM NothingForgotten == Spec => []NoneForgotten
<1>1. Inv => NoneForgotten
  BY DEF Inv, Staged, Swept, NoneForgotten
<1> QED
  BY <1>1, ProcessInvariant, PTL

(* A process that is not a core is not ended by a kill, a reclaim, a sweep *)
(* or a stop of the daemon, unless it took its pid after terminate_pid or  *)
(* the sweep had looked at it; no pid of its like is taken up by either    *)
(* (stop_orphan_from_pid_file, identity_still_holds).                      *)
THEOREM StrangersLeftAlone == Spec => StrangersLive
<1> DEFINE Left == \A p \in Pids : proc[p] = "other"
                     => /\ proc'[p] # "other" => StrangerLeaves(p) \/ p \in Marked
                        /\ p \in Marked' => p \in Marked
<1>1. Inv /\ [Next]_vars => [Left]_vars
  <2> SUFFICES ASSUME Inv, Next, NEW p \in Pids, proc[p] = "other", p \notin Marked
               PROVE  (proc'[p] # "other" => StrangerLeaves(p)) /\ p \notin Marked'
    <3>1. ASSUME Inv, [Next]_vars, NEW p \in Pids, proc[p] = "other", vars' # vars
          PROVE  /\ proc'[p] # "other" => StrangerLeaves(p) \/ p \in Marked
                 /\ p \in Marked' => p \in Marked
      <4>1. Next
        BY <3>1
      <4> QED
        BY <3>1, <4>1
    <3> QED
      BY <3>1
  <2> DEFINE Spared == proc'[p] = "other" /\ p \notin Marked'
             Served == proc'[p] = "other" /\ p # victim'
  <2> USE DEF Becomes, Is, Marked, helper, sweep
  <2>1. Launch \/ JobBegins \/ Guard \/ Health \/ Clear \/ Signal \/ Adopt \/ Scan => Spared
    BY DEF Inv, Typed, Launch, JobBegins, Guard, Health, Clear, Signal, Adopt, Scan
  <2>2. Spawn \/ Record \/ Kill \/ Reap \/ ReclaimPid => Spared
    BY DEF Inv, Typed, Processes, At, Unused, Spawn, Record, Kill, Reap, Signalled, ReclaimPid
  <2>3. Sweep => Spared
    BY DEF Inv, Typed, Sweep, SweepPid, Signalled
  <2>4. ServeStop \/ ServeStopFails \/ StopBegins \/ Terminated \/ Outlived \/ ServeStartFails
          => Served
    BY PidsAssumption DEF Inv, Typed, Processes, ServeStop, ServeStopFails, StopBegins, Terminated,
         Outlived, ServeStartFails
  <2>5. ASSUME NEW q \in Unused, ServeStartOk(q) PROVE Served
    <3>1. p # q /\ p # daemon
      BY PidsAssumption DEF Inv, Processes, Unused
    <3>2. proc'[p] = proc[p]
      BY <2>5, <3>1 DEF ServeStartOk
    <3> QED
      BY <2>5, <3>2 DEF ServeStartOk
  <2>6. ASSUME NEW r \in {"stop", "start"}, NotServed(r) PROVE Served
    BY <2>6 DEF NotServed
  <2>7. Reclaim \/ Release => Spared
    BY <2>4, <2>6 DEF Reclaim, Release, StopAnswered, StopUnanswered, StopAwaited
  <2>8. HelperStart \/ ServeLate \/ ServeOn => Spared
    BY <2>4, <2>5, <2>6 DEF HelperStart, ServeLate, ServeOn
  <2>9. AppDies \/ DaemonDies => Spared
    BY PidsAssumption DEF Inv, Typed, AppDies, DaemonDies
  <2>10. ASSUME NEW q \in Pids, CoreExits(q) \/ StrangerTakes(q) PROVE Spared
    BY <2>10 DEF Inv, Typed, CoreExits, StrangerTakes
  <2>11. ASSUME NEW q \in Pids, StrangerLeaves(q)
         PROVE  (proc'[p] # "other" => StrangerLeaves(p)) /\ p \notin Marked'
    BY <2>11 DEF Inv, Typed, StrangerLeaves
  <2> QED
    BY <2>1, <2>2, <2>3, <2>7, <2>8, <2>9, <2>10, <2>11 DEF Next, JobStep, Machine
<1> QED
  BY <1>1, ProcessInvariant, PTL DEF Spec, StrangersLive

(* A release the daemon confirmed leaves no root core that its own handle, *)
(* the controller or the pid file could name (ProcessCoreRunner::stop).    *)
THEOREM ReleaseIsComplete == Spec => ReleasedMeansGone
<1> DEFINE Gone ==
      (pc \in {"release", "releaseWait"} /\ pc' \in {"kill", "guard"} /\ job' # "stop")
        => \A p \in {daemon, child, pidFile} \cap Pids : proc'[p] # "root"
<1>1. Inv /\ [Next]_vars => [Gone]_vars
  <2> SUFFICES ASSUME Inv, Next, pc \in {"release", "releaseWait"},
                      pc' \in {"kill", "guard"}, job' # "stop",
                      NEW p \in {daemon, child, pidFile} \cap Pids
               PROVE  proc'[p] # "root"
    OBVIOUS
  <2>1. Release
    BY DEF Next, JobStep, Machine, At, Goto, controller, flow, helper, Launch, JobBegins, Guard,
         Spawn, Record, Health, Kill, Clear, Signal, Reclaim, HelperStart, Adopt, ReclaimPid,
         Scan, Sweep, SweepPid, Reap, ServeLate, ServeOn, AppDies, DaemonDies, CoreExits,
         StrangerTakes, StrangerLeaves
  <2>2. StopAnswered
    BY <2>1 DEF Release, StopAwaited, Goto, End
  <2>3. CASE Waiting
    BY <2>2, <2>3, PidsAssumption DEF StopAnswered, Terminated, Becomes, Remains, Inv, Typed,
         Maybe, Processes
  <2>4. CASE ~Waiting
    <3>1. ServeStop
      BY <2>2, <2>4 DEF StopAnswered
    <3>2. proc[p] # "root" \/ (daemon = NoPid /\ pidFile = p) \/ daemon = p
      BY PidsAssumption DEF Inv, Typed, Maybe, Processes, HeldIsNamed, Is
    <3> QED
      BY <3>1, <3>2, PidsAssumption DEF ServeStop, Becomes, Is, Inv, Typed, Maybe
  <2> QED
    BY <2>3, <2>4
<1> QED
  BY <1>1, ProcessInvariant, PTL DEF Spec, ReleasedMeansGone
=============================================================================
