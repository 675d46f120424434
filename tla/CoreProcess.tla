---------------------------- MODULE CoreProcess ----------------------------
(***************************************************************************)
(* The sing-box processes: the app's core controller (ice-core), the pid   *)
(* file it leaves for its successor, and the root daemon (ice-helper) that *)
(* runs the core when TUN captures.                                        *)
(*                                                                         *)
(* The app is one thread of jobs under the orchestrate and core locks and  *)
(* can be killed between any two steps.  The daemon can crash on its own   *)
(* and loses its child handle.  A pid that is reaped can be given to a     *)
(* stranger, not to another core while it is still written down.  A core   *)
(* that runs holds the ports: a second one exits.  Two killers work on     *)
(* bare pids after their only look at the process: the daemon, which waits *)
(* seconds between SIGTERM and SIGKILL, and the sweep of a launch, which   *)
(* goes down one listing of ps.                                            *)
(***************************************************************************)
CONSTANTS
  Pids,
  NoPid,
  Faults     (* what can go wrong: a subset of FaultKinds                  *)

FaultKinds == {"spawn", "pidFile", "health", "key", "unkillable", "helper", "late", "scan"}

ASSUME PidsAssumption == NoPid \notin Pids
ASSUME FaultsAssumption == Faults \subseteq FaultKinds

VARIABLES
  proc,      (* the process table: what each pid is                        *)
  pidFile,   (* sing-box.pid in the data directory                         *)
  up,        (* is the app running?                                        *)
  status,    (* CoreController.state.status                                *)
  child,     (* CoreController.child                                       *)
  job, pc,   (* the use case in progress and its next step                 *)
  why,       (* what the child is killed for                               *)
  hand,      (* the pid the job holds in a local variable                  *)
  daemon,    (* ProcessCoreRunner.child                                    *)
  late,      (* a request whose client gave up, not served yet             *)
  victim,    (* the pid in the hands of the daemon's terminate_pid         *)
  listed,    (* the pids of the sweep's listing still to be gone through   *)
  missed     (* history: the user's cores this launch's sweep passed over  *)

controller == <<status, child>>
flow == <<job, pc, why, hand>>
helper == <<daemon, late, victim>>
sweep == <<listed, missed>>
vars == <<proc, pidFile, up, controller, flow, helper, sweep>>

Kinds == {"free", "user", "root", "exited", "dying", "other"}
Jobs == {"idle", "launch", "start", "stop", "reload", "enable", "disable", "recover"}
Steps == {"idle", "reclaimPid", "scan", "sweep", "reclaim", "reclaimWait", "reclaimAgain",
          "guard", "spawn", "record", "health", "signal", "kill", "clear", "helperStart",
          "adopt", "release", "releaseWait"}

Can(fault) == fault \in Faults
At(step) == up /\ pc = step
Goto(step) == pc' = step /\ UNCHANGED job
End == pc' = "idle" /\ job' = "idle"
Is(p, kinds) == p # NoPid /\ proc[p] \in kinds
PortsHeld == \E p \in Pids : proc[p] \in {"user", "root"}
Unused == {p \in Pids \ {pidFile, child, daemon} : proc[p] = "free"}
Becomes(p, kind) == proc' = [proc EXCEPT ![p] = kind]
Waiting == pc \in {"reclaimWait", "releaseWait"}

(* A dead process stays in the table until its parent looks.               *)
Parented(p) ==
  \/ proc[p] = "root" /\ p = daemon
  \/ proc[p] \in {"user", "dying"} /\ p \in {child, hand}
Remains(p) == IF Parented(p) THEN "exited" ELSE "free"

Init ==
  /\ proc = [p \in Pids |-> "free"]
  /\ pidFile = NoPid
  /\ up = FALSE /\ status = "stopped" /\ child = NoPid
  /\ job = "idle" /\ pc = "idle" /\ why = "stop" /\ hand = NoPid
  /\ daemon = NoPid /\ late = "none" /\ victim = NoPid
  /\ listed = {} /\ missed = {}
-----------------------------------------------------------------------------
(***************************************************************************)
(* CoreController::start, and the parts it shares with reload and adopt    *)
(***************************************************************************)
(* Callers leave it alone unless it may start; ensure_listen_ports_free.   *)
Guard ==
  /\ At("guard")
  /\ IF status \in {"stopped", "error"} /\ ~PortsHeld
       THEN status' = "starting" /\ Goto("spawn")
       ELSE UNCHANGED status /\ End
  /\ UNCHANGED <<proc, pidFile, up, child, why, hand, helper, sweep>>

Spawn ==
  /\ At("spawn")
  /\ \/ \E p \in Unused :
          /\ Becomes(p, IF PortsHeld THEN "exited" ELSE "user")
          /\ hand' = p
          /\ missed' = missed \ {p}
          /\ Goto("record")
          /\ UNCHANGED status
     \/ /\ Can("spawn")
        /\ status' = "error"
        /\ End
        /\ UNCHANGED <<proc, hand, missed>>
  /\ UNCHANGED <<pidFile, up, child, why, helper, listed>>

(* Mutant: a failed write of the pid is only logged.                       *)
RecordUnchecked ==
  /\ At("record")
  /\ child' = hand /\ hand' = NoPid
  /\ pidFile' \in {hand} \cup (IF Can("pidFile") THEN {pidFile} ELSE {})
  /\ Goto("health")
  /\ UNCHANGED <<proc, up, status, why, helper, sweep>>

(* write_pid, and only then is the child the controller's.                 *)
Record ==
  /\ At("record")
  /\ \/ /\ pidFile' = hand /\ child' = hand
        /\ Goto("health")
        /\ UNCHANGED <<proc, status>>
     \/ /\ Can("pidFile")
        /\ Becomes(hand, "free")
        /\ pidFile' \in {NoPid, pidFile}
        /\ status' = "error"
        /\ End
        /\ UNCHANGED child
  /\ hand' = NoPid
  /\ UNCHANGED <<up, why, helper, sweep>>

(* wait_health_while_running: whatever holds the ports answers; an early   *)
(* exit may be seen first.                                                 *)
Health ==
  /\ At("health")
  /\ \/ /\ PortsHeld
        /\ status' = "running"
        /\ End
        /\ UNCHANGED why
     \/ /\ Can("health") \/ ~Is(child, {"user", "root"})
        /\ why' = "failed"
        /\ Goto("kill")
        /\ UNCHANGED status
  /\ UNCHANGED <<proc, pidFile, up, child, hand, helper, sweep>>
-----------------------------------------------------------------------------
(***************************************************************************)
(* kill_child_and_clear_pid, for stop, for restart_in_place and after a    *)
(* failed health check                                                     *)
(***************************************************************************)
KillFails ==
  /\ status' = "error"
  /\ UNCHANGED child
  /\ IF job = "enable" /\ why = "failed" THEN Goto("release") ELSE End

KillSucceeds == child' = NoPid /\ Goto("clear") /\ UNCHANGED status

(* stop_process: a user core goes or is seen dying, a root core refuses    *)
(* the signal; a stranger in its place is told apart by its start time.    *)
Kill ==
  /\ At("kill")
  /\ \/ /\ Is(child, {"user", "exited"})
        /\ Becomes(child, IF child = daemon THEN "exited" ELSE "free")
        /\ KillSucceeds
     \/ /\ Can("unkillable") /\ Is(child, {"user"})
        /\ Becomes(child, "dying")
        /\ KillFails
     \/ /\ Is(child, {"root", "dying"})
        /\ KillFails
        /\ UNCHANGED proc
     \/ /\ ~Is(child, {"user", "exited", "root", "dying"})
        /\ KillSucceeds
        /\ UNCHANGED proc
  /\ UNCHANGED <<pidFile, up, why, hand, helper, sweep>>

Cleared ==
  /\ CASE why = "stop" -> status' = "stopped"
       [] why = "failed" -> status' = "error"
       [] why = "restart" -> UNCHANGED status
  /\ CASE why = "restart" -> Goto("spawn")
       [] job = "enable" -> Goto(IF why = "failed" THEN "release" ELSE "helperStart")
       [] job = "disable" -> Goto("guard") \/ End
       [] OTHER -> End

(* The file is removed, then each caller goes on.  A file that stays is an *)
(* error, but for a stop that had nothing to stop.                         *)
Clear ==
  /\ At("clear")
  /\ \/ pidFile' = NoPid /\ Cleared
     \/ /\ Can("pidFile")
        /\ UNCHANGED pidFile
        /\ IF why = "stop" /\ status = "stopped" THEN Cleared ELSE KillFails
  /\ UNCHANGED <<proc, up, child, why, hand, helper, sweep>>

(* reload: SIGHUP keeps the process, anything else restarts it.            *)
Signal ==
  /\ At("signal")
  /\ \/ /\ Is(child, {"user", "root"})
        /\ End
        /\ UNCHANGED why
     \/ /\ Can("health") \/ ~Is(child, {"user", "root"})
        /\ why' = "restart"
        /\ Goto("kill")
  /\ UNCHANGED <<proc, pidFile, up, controller, hand, helper, sweep>>
-----------------------------------------------------------------------------
(***************************************************************************)
(* The daemon.  Commands are served one at a time under its runner mutex.  *)
(***************************************************************************)
(* Mutant: the daemon knows only its own child.                            *)
ServeStopOwn ==
  /\ victim = NoPid
  /\ IF daemon # NoPid THEN Becomes(daemon, "free") ELSE UNCHANGED proc
  /\ daemon' = NoPid
  /\ UNCHANGED victim

(* ProcessCoreRunner::stop that is over at once for the rest of the        *)
(* system: its own child, which keeps its pid until it is waited for, or   *)
(* nothing, when the app's pid file names no root core.                    *)
ServeStop ==
  /\ victim = NoPid
  /\ IF daemon # NoPid THEN Becomes(daemon, "free")
     ELSE ~Is(pidFile, {"root"}) /\ UNCHANGED proc
  /\ daemon' = NoPid
  /\ UNCHANGED victim

(* Its child outlives SIGTERM and SIGKILL: an error, and the handle stays. *)
ServeStopFails ==
  /\ victim = NoPid /\ Can("unkillable") /\ Is(daemon, {"root"})
  /\ UNCHANGED <<proc, daemon, victim>>

(* Mutant: the pid in the file is taken without a look at its image.       *)
StopBeginsBlindly ==
  /\ victim = NoPid /\ daemon = NoPid /\ Is(pidFile, {"root", "other"})
  /\ victim' = pidFile
  /\ UNCHANGED <<proc, daemon>>

(* stop_orphan_from_pid_file: no child, but the file names a live core of  *)
(* this installation's; terminate_pid sends it SIGTERM.                    *)
StopBegins ==
  /\ victim = NoPid /\ daemon = NoPid /\ Is(pidFile, {"root"})
  /\ victim' = pidFile
  /\ UNCHANGED <<proc, daemon>>

(* The rest of terminate_pid: whatever runs under the pid by now, if       *)
(* anything does, is sent SIGKILL, and is gone ...                         *)
Terminated ==
  /\ victim # NoPid /\ victim' = NoPid
  /\ Becomes(victim, IF proc[victim] = "exited" THEN "exited" ELSE Remains(victim))
  /\ UNCHANGED daemon

(* ... or outlives that too.                                               *)
Outlived ==
  /\ victim # NoPid /\ victim' = NoPid
  /\ Can("unkillable") /\ proc[victim] \notin {"free", "exited"}
  /\ UNCHANGED <<proc, daemon>>

(* ProcessCoreRunner::start: a live child refuses, a dead one is reaped;   *)
(* the new core must outlive the liveness wait.                            *)
ServeStartOk(p) ==
  /\ victim = NoPid /\ ~Is(daemon, {"root"}) /\ ~PortsHeld
  /\ proc' = [q \in Pids |-> IF q = p THEN "root" ELSE IF q = daemon THEN "free" ELSE proc[q]]
  /\ daemon' = p
  /\ UNCHANGED victim

ServeStartFails ==
  /\ victim = NoPid
  /\ Is(daemon, {"root"}) \/ PortsHeld \/ Can("spawn")
  /\ IF Is(daemon, {"exited"}) THEN Becomes(daemon, "free") /\ daemon' = NoPid
     ELSE UNCHANGED <<proc, daemon>>
  /\ UNCHANGED victim

(* A request that times out is served later all the same.                  *)
ServeLate ==
  /\ \/ /\ late = "stop"
        /\ ServeStop \/ ServeStopFails \/ StopBegins
     \/ /\ late = "start"
        /\ \/ \E p \in Unused : ServeStartOk(p)
           \/ ServeStartFails
  /\ late' = "none"
  /\ UNCHANGED <<pidFile, up, controller, flow, sweep>>

(* A stop nobody waits for any more goes on.                               *)
ServeOn ==
  /\ ~Waiting
  /\ Terminated \/ Outlived
  /\ UNCHANGED <<pidFile, up, controller, flow, late, sweep>>

NotServed(request) ==
  /\ \/ Can("helper") /\ UNCHANGED late
     \/ Can("late") /\ late = "none" /\ late' = request
  /\ UNCHANGED <<proc, daemon, victim>>
-----------------------------------------------------------------------------
(***************************************************************************)
(* Stop requests of the app: before an enable and at launch (reclaim), and *)
(* to release TUN (restore)                                                *)
(***************************************************************************)
StopAnswered ==
  /\ IF Waiting THEN Terminated ELSE ServeStop
  /\ UNCHANGED late

(* An error from the daemon, or none: it is not there or too slow.         *)
StopUnanswered ==
  \/ ~Waiting /\ ServeStopFails /\ UNCHANGED late
  \/ ~Waiting /\ NotServed("stop")
  \/ Waiting /\ Outlived /\ UNCHANGED late
  \/ Waiting /\ (victim = NoPid \/ Can("late")) /\ UNCHANGED <<proc, helper>>

StopAwaited(step) == ~Waiting /\ StopBegins /\ UNCHANGED late /\ Goto(step)

(* Launch goes on to the core's start whatever the daemon said.            *)
Reclaim ==
  /\ At("reclaim") \/ At("reclaimWait")
  /\ \/ StopAnswered /\ Goto(IF job = "launch" THEN "reclaimAgain" ELSE "kill")
     \/ StopUnanswered /\ (IF job = "launch" THEN Goto("guard") ELSE End)
     \/ StopAwaited("reclaimWait")
  /\ why' = "stop"
  /\ UNCHANGED <<pidFile, up, controller, hand, sweep>>

(* restore, then core.stop whatever came of it; an enable that failed      *)
(* brings the app's own core back when the release was confirmed.          *)
Release ==
  /\ At("release") \/ At("releaseWait")
  /\ \/ /\ StopAnswered
        /\ CASE job = "enable" -> Goto("guard")
             [] job = "disable" -> Goto("kill")
             [] OTHER -> End
     \/ /\ StopUnanswered
        /\ IF job = "disable" THEN pc' = "kill" /\ job' = "stop" ELSE End
     \/ StopAwaited("releaseWait")
  /\ why' = "stop"
  /\ UNCHANGED <<pidFile, up, controller, hand, sweep>>

(* The elevated core; without an answer the app's own core comes back.     *)
HelperStart ==
  /\ At("helperStart")
  /\ \/ \E p \in Unused :
          /\ ServeStartOk(p)
          /\ hand' = p
          /\ Goto("adopt")
          /\ UNCHANGED late
     \/ ServeStartFails /\ Goto("guard") /\ UNCHANGED <<hand, late>>
     \/ NotServed("start") /\ Goto("guard") /\ UNCHANGED hand
  /\ UNCHANGED <<pidFile, up, controller, why, sweep>>

(* adopt_external: the image is checked, the pid written, then health.     *)
Adopt ==
  /\ At("adopt")
  /\ \/ /\ Is(hand, {"root"})
        /\ pidFile' = hand /\ child' = hand /\ status' = "starting"
        /\ Goto("health")
     \/ /\ Can("key") /\ Is(hand, {"root"})
        /\ pidFile' = NoPid /\ status' = "error"
        /\ Goto("release")
        /\ UNCHANGED child
     \/ /\ Can("pidFile")
        /\ status' = "error"
        /\ Goto("release")
        /\ UNCHANGED <<pidFile, child>>
     \/ /\ ~Is(hand, {"root"})
        /\ Goto("release")
        /\ UNCHANGED <<pidFile, controller>>
  /\ hand' = NoPid
  /\ UNCHANGED <<proc, up, why, helper, sweep>>
-----------------------------------------------------------------------------
(***************************************************************************)
(* Launch: recover_launch_leftovers, then the core's start                 *)
(***************************************************************************)
(* force_kill_pid of a core of the user's; nobody waits for its end.       *)
Signalled(p) ==
  \/ Becomes(p, "free")
  \/ Can("unkillable") /\ Becomes(p, "dying")

(* reclaim_orphan_pid: a live core of ours is killed; one that refuses the *)
(* signal keeps the file; a stranger only loses it.                        *)
ReclaimPid ==
  /\ At("reclaimPid") \/ At("reclaimAgain")
  /\ Goto(IF pc = "reclaimPid" THEN "scan" ELSE "guard")
  /\ IF Is(pidFile, {"root"})
       THEN UNCHANGED <<proc, pidFile, controller>>
       ELSE /\ IF Is(pidFile, {"user"}) THEN Signalled(pidFile) ELSE UNCHANGED proc
            /\ pidFile' = NoPid
            /\ status' = "stopped" /\ child' = NoPid
  /\ UNCHANGED <<up, why, hand, helper, sweep>>

(* Mutant: only the pid file is gone by.                                   *)
ScanNothing ==
  /\ At("scan")
  /\ Goto("reclaim")
  /\ listed' = {} /\ missed' = {}
  /\ UNCHANGED <<proc, pidFile, up, controller, why, hand, helper>>

(* reclaim_orphan_cores_with_config: ps lists the cores that run this      *)
(* installation's config; a ps that cannot run is a sweep of nothing.      *)
Scan ==
  /\ At("scan")
  /\ \/ /\ listed' = {p \in Pids : proc[p] \in {"user", "root", "dying"}}
        /\ missed' = {}
        /\ Goto("sweep")
     \/ /\ Can("scan")
        /\ missed' = {p \in Pids : proc[p] = "user"}
        /\ Goto("reclaim")
        /\ UNCHANGED listed
  /\ UNCHANGED <<proc, pidFile, up, controller, why, hand, helper>>

(* The listed pids one by one, with up to a second's wait after each kill: *)
(* whatever this user may signal under that pid by now is killed; a kill   *)
(* that is refused is passed over.                                         *)
SweepPid(p) ==
  /\ \/ Is(p, {"user"}) /\ Signalled(p) /\ UNCHANGED missed
     \/ Is(p, {"other"}) /\ Becomes(p, "free") /\ UNCHANGED missed
     \/ ~Is(p, {"user"}) /\ UNCHANGED <<proc, missed>>
     \/ Can("scan") /\ Is(p, {"user"}) /\ missed' = missed \cup {p} /\ UNCHANGED proc
  /\ listed' = listed \ {p}
  /\ UNCHANGED <<job, pc>>

Sweep ==
  /\ At("sweep")
  /\ \/ \E p \in listed : SweepPid(p)
     \/ listed = {} /\ Goto("reclaim") /\ UNCHANGED <<proc, sweep>>
  /\ UNCHANGED <<pidFile, up, controller, why, hand, helper>>

Launch ==
  /\ ~up
  /\ up' = TRUE
  /\ job' = "launch" /\ pc' = "reclaimPid"
  /\ UNCHANGED <<proc, pidFile, controller, why, hand, helper, sweep>>

(* The use cases; which of them the app lets through depends on the status.*)
JobBegins ==
  /\ At("idle")
  /\ \/ job' = "start" /\ pc' = "guard"
     \/ job' = "stop" /\ pc' = "kill"
     \/ job' = "reload" /\ pc' = "signal" /\ status = "running"
     \/ job' = "enable" /\ pc' = "reclaim" /\ status = "running" /\ ~Is(child, {"root"})
     \/ job' = "disable" /\ pc' = "release"
     \/ job' = "recover" /\ pc' = "release"
  /\ why' = "stop"
  /\ UNCHANGED <<proc, pidFile, up, controller, hand, helper, sweep>>

(* reap_exited_child, on the watchdog's tick.                              *)
Reap ==
  /\ At("idle")
  /\ child # NoPid /\ ~Is(child, {"user", "root", "dying"})
  /\ IF Is(child, {"exited"}) /\ child # daemon THEN Becomes(child, "free") ELSE UNCHANGED proc
  /\ child' = NoPid /\ pidFile' = NoPid
  /\ status' = IF status = "running" THEN "error" ELSE status
  /\ UNCHANGED <<up, flow, helper, sweep>>
-----------------------------------------------------------------------------
(***************************************************************************)
(* The machine                                                             *)
(***************************************************************************)
CoreExits(p) ==
  /\ proc[p] \in {"user", "root", "dying"}
  /\ Becomes(p, Remains(p))
  /\ UNCHANGED <<pidFile, up, controller, flow, helper, sweep>>

(* Of the strangers, those under a pid that something still names.         *)
StrangerTakes(p) ==
  /\ proc[p] = "free" /\ p \in {pidFile, child, hand, victim} \cup listed
  /\ Becomes(p, "other")
  /\ UNCHANGED <<pidFile, up, controller, flow, helper, sweep>>

StrangerLeaves(p) ==
  /\ proc[p] = "other"
  /\ Becomes(p, "free")
  /\ UNCHANGED <<pidFile, up, controller, flow, helper, sweep>>

AppDies ==
  /\ up
  /\ up' = FALSE
  /\ proc' = [p \in Pids |-> IF proc[p] = "exited" /\ p # daemon THEN "free" ELSE proc[p]]
  /\ status' = "stopped" /\ child' = NoPid
  /\ job' = "idle" /\ pc' = "idle" /\ why' = "stop" /\ hand' = NoPid
  /\ listed' = {} /\ missed' = {}
  /\ UNCHANGED <<pidFile, helper>>

DaemonDies ==
  /\ daemon # NoPid \/ late # "none" \/ victim # NoPid
  /\ IF Is(daemon, {"exited"}) THEN Becomes(daemon, "free") ELSE UNCHANGED proc
  /\ daemon' = NoPid /\ late' = "none" /\ victim' = NoPid
  /\ UNCHANGED <<pidFile, up, controller, flow, sweep>>

JobStep ==
  \/ Guard \/ Spawn \/ Record \/ Health \/ Kill \/ Clear \/ Signal
  \/ Reclaim \/ Release \/ HelperStart \/ Adopt \/ ReclaimPid \/ Scan \/ Sweep

Machine ==
  \/ AppDies \/ DaemonDies
  \/ \E p \in Pids : CoreExits(p) \/ StrangerTakes(p) \/ StrangerLeaves(p)

Next == Launch \/ JobBegins \/ JobStep \/ Reap \/ ServeLate \/ ServeOn \/ Machine

Spec == Init /\ [][Next]_vars
-----------------------------------------------------------------------------
(***************************************************************************)
(* Properties                                                              *)
(***************************************************************************)
TypeOK ==
  /\ proc \in [Pids -> Kinds]
  /\ {pidFile, child, hand, daemon, victim} \subseteq Pids \cup {NoPid}
  /\ up \in BOOLEAN
  /\ status \in {"stopped", "starting", "running", "error"}
  /\ job \in Jobs /\ pc \in Steps /\ why \in {"stop", "failed", "restart"}
  /\ late \in {"none", "stop", "start"}
  /\ listed \subseteq Pids /\ missed \subseteq Pids
  /\ (pc = "idle") = (job = "idle")
  /\ (hand # NoPid) = (pc \in {"record", "adopt"})

(* A process that inherited a core's pid is not signalled in its place     *)
(* (reclaim_orphan_pid, stop_orphan_from_pid_file, identity_still_holds),  *)
(* but for a pid already looked at and marked: the one terminate_pid waits *)
(* for and the rest of the sweep's listing.  No stranger's pid is marked.  *)
Marked == {victim} \cup listed
StrangersLive ==
  [][\A p \in Pids : proc[p] = "other"
       => /\ proc'[p] # "other" => StrangerLeaves(p) \/ p \in Marked
          /\ p \in Marked' => p \in Marked]_vars

(* "Unrelated process; never terminate it" (stop_orphan_from_pid_file): as *)
(* root the daemon ends no process but cores.  Does not hold: terminate_pid*)
(* does not look again before SIGKILL.  StrangersLive excepts that pid.    *)
UnrelatedNeverTerminated ==
  [][\A p \in Pids : p = victim /\ proc[p] = "other" /\ proc'[p] # "other"
       => StrangerLeaves(p)]_vars

(* The core the controller holds is the one the pid file names: a crash at *)
(* any point, of an adoption or a failed kill too, leaves its successor    *)
(* the name of the process that may still run.                             *)
HeldIsNamed == Is(child, {"user", "root"}) => pidFile = child

(* Outside a launch, a live core of the user's is the controller's child,  *)
(* or one the launch's sweep could not list or was refused to kill: no     *)
(* other earlier session and no failed start leaves one behind unseen.     *)
NoneForgotten ==
  \A p \in Pids :
    up /\ proc[p] = "user" /\ job # "launch" => p \in {child, hand} \cup missed

(* A release the daemon confirmed leaves no root core that anyone could    *)
(* name: its own child, the controller's, or the pid file's, also after    *)
(* the daemon was restarted and lost its handle.                           *)
ReleasedMeansGone ==
  [][(pc \in {"release", "releaseWait"} /\ pc' \in {"kill", "guard"} /\ job' # "stop")
       => \A p \in {daemon, child, pidFile} \cap Pids : proc'[p] # "root"]_vars
=============================================================================
