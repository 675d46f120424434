------------------------- MODULE CaptureController -------------------------
(***************************************************************************)
(* Who captures traffic: the system proxy, TUN, or nobody                  *)
(* (apps/desktop/src-tauri/src/capture, and its callers under the          *)
(* orchestrate lock in application/, shutdown.rs and core_watch.rs).       *)
(*                                                                         *)
(* The controller keeps what it believes in memory (active, status); the   *)
(* disk keeps a mutation journal for TUN, the proxy record and the         *)
(* settings; the OS keeps what is really applied.  A job holds the         *)
(* orchestrate lock from its first step to its last, so there is one job   *)
(* at a time.  The process can die before any step, the elevated core can  *)
(* exit at any time, and the watchdog restores the OS proxy without taking *)
(* that lock.                                                              *)
(*                                                                         *)
(* A job calls procedures (enable TUN, release it, enable the proxy,       *)
(* restore it, recover): pc is the next step, a procedure ends at "return" *)
(* with its result, and the job's own step goes on from there.             *)
(***************************************************************************)
CONSTANT Faults  (* what can go wrong besides a crash                      *)

FaultKinds ==
  {"journal",   (* tun-state.json cannot be written                        *)
   "corrupt",   (* tun-state.json becomes unreadable                       *)
   "tun",       (* the TUN backend refuses, misbehaves or cannot restore   *)
   "elevated",  (* the coordinator cannot stop the elevated core           *)
   "core",      (* the app's own core does not start, stop or reload       *)
   "proxy",     (* the OS proxy or its record cannot be changed, or a      *)
                (* restore that answers Ok passed services over            *)
   "settings"}  (* settings.json cannot be written                         *)

ASSUME FaultsAssumption == Faults \subseteq FaultKinds

Can(fault) == fault \in Faults

VARIABLES
  up,        (* is the app running?                                        *)
  active,    (* CaptureInner: the backend claimed                          *)
  status,    (* CaptureInner: tun_status                                   *)
  core,      (* the app's core handle; "exited": dead and not yet reaped   *)
  journal,   (* tun-state.json: its state, and whether it names what TUN   *)
             (* created                                                    *)
  tun,       (* OS: "held" by a live elevated core, "residue" without it   *)
  record,    (* proxy-backup.json                                          *)
  proxied,   (* OS: does the system proxy point at ice-box?                *)
  desired,   (* settings.json: tun.enabled                                 *)
  pending,   (* does settings.pending.json exist?                          *)
  goal,      (* the candidate's tun.enabled                                *)
  prev,      (* the backend active when a switch began                     *)
  job, pc,
  result,    (* of the last procedure that returned                        *)
  reaped     (* the watchdog between reaping a dead core and restoring:    *)
             (* "no", "reaped", or the path it chose, "proxy" or "tun"     *)

memory == <<active, status>>
claims == <<record, proxied>>
tunState == <<journal, tun, core>>
request == <<desired, pending, goal, prev>>
control == <<job, pc, result>>
vars == <<up, active, status, core, journal, tun, record, proxied, desired,
          pending, goal, prev, job, pc, result, reaped>>

Backends == {"inactive", "proxy", "tun"}
Statuses == {"disabled", "preparing", "enabled", "stopping",
             "permission_required", "error", "recovery_required"}
CoreStates == {"stopped", "running", "adopted", "exited", "error"}
JournalStates == {"none", "clean", "preparing", "applied", "restoring",
                  "error", "recovery_required", "foreign", "unreadable"}
JournalRecords == [state : JournalStates, named : BOOLEAN]
TunStates == {"none", "held", "residue"}
Jobs == {"idle", "start", "startUndo", "startCore", "stop", "quit",
         "switchOff", "switchOn", "undoRecover", "undoOn", "commitOff",
         "commitOn", "applyOff", "applyOn", "applyRecover", "applyUndo",
         "apply", "recover", "launch", "watch"}
Steps == {"idle", "return", "startCore", "enableGuard", "reclaim",
          "saveIntent", "prepare", "release", "apply", "observe", "adopt",
          "unadopt", "verify", "unverify", "markApplied", "refuse", "deny",
          "markError", "disable", "restore", "markClean", "restart",
          "proxyGuard", "proxyApply", "proxySave", "proxyRestore",
          "drive", "reload", "launchProxy", "launchReclaim", "quitCore",
          "quitProxy", "watchMark", "watchRestore"}

Journal(state, named) == [state |-> state, named |-> named]
Mark(state) == [journal EXCEPT !.state = state]
CleanJournal == Journal("clean", FALSE)
IntentSaved == Journal("preparing", FALSE)
NamesSaved == Journal("preparing", TRUE)
Outstanding(j) == j.state \notin {"none", "clean"}
CoreRunning == core \in {"running", "adopted", "exited"}

(* begin, finish and fail_transition, and where control goes next.         *)
Claim(backend, s) == active' = backend /\ status' = s
Goto(step) == pc' = step /\ UNCHANGED <<job, result>>
Call(j, step) == job' = j /\ pc' = step /\ UNCHANGED result
Return(r) == pc' = "return" /\ result' = r /\ UNCHANGED job
End == job' = "idle" /\ pc' = "idle" /\ result' = "ok"
At(step) == up /\ pc = step
Returned(j) == At("return") /\ job = j
Ok == result = "ok"
-----------------------------------------------------------------------------
(* What a core or backend call can leave behind.                           *)

(* The elevated core is gone; only what the journal names can outlive it.  *)
AfterElevatedExit ==
  IF tun = "held"
    THEN {"none"} \cup (IF journal.named THEN {"residue"} ELSE {})
    ELSE {tun}

(* An adopted core whose process is gone is dead until somebody looks.     *)
Orphaned(c) == IF c = "adopted" THEN "exited" ELSE c

AfterFailedRestore ==
  (IF Can("elevated") THEN {tun} ELSE {}) \cup
  (IF Can("tun") \/ Can("journal") THEN AfterElevatedExit ELSE {})

HandleFor(c, t) == IF t = "held" THEN c ELSE Orphaned(c)

(* CoreController::stop: the app cannot signal a live elevated core.       *)
StopOutcomes(c, t) ==
  CASE c = "adopted"               -> {"error"}
    [] c = "error" /\ t = "held"   -> {"stopped", "error"}
    [] c = "stopped"               -> {"stopped"}
    [] OTHER -> {"stopped"} \cup (IF Can("core") THEN {"error"} ELSE {})

(* CoreController::start: the ports are taken while an elevated core runs. *)
StartOutcomes(c, t) ==
  IF t = "held" THEN {c}
  ELSE {"running"} \cup (IF Can("core") THEN {c, "error"} ELSE {})

(* TunJournal::record whose error is ignored.                              *)
TryMark(j) == journal' \in {j} \cup (IF Can("journal") THEN {journal} ELSE {})

(* A restore of the OS proxy that answers Ok can have passed over the      *)
(* services it was to give back (macos.rs restore).                        *)
GivenBack(before) == {FALSE} \cup (IF Can("proxy") THEN {before} ELSE {})

(* restore_and_clear_flag, and what it leaves where it fails or is cut     *)
(* short: the settings given back or not, and the record as it was.        *)
ProxyRestored ==
  /\ record' = "clear"
  /\ proxied' \in (IF record = "clear" THEN {proxied} ELSE GivenBack(proxied))
RestoreCutShort == record # "clear" /\ proxied' \in {proxied, FALSE} /\ UNCHANGED record
ProxyRestoreFails == Can("proxy") /\ RestoreCutShort
-----------------------------------------------------------------------------
Init ==
  /\ up = FALSE
  /\ active = "inactive" /\ status = "disabled"
  /\ core = "stopped"
  /\ journal \in {Journal("none", FALSE), Journal("foreign", FALSE)}
  /\ tun = "none"
  /\ record = "clear" /\ proxied = FALSE
  /\ desired \in BOOLEAN /\ pending = FALSE
  /\ goal = FALSE /\ prev = "inactive"
  /\ job = "idle" /\ pc = "idle" /\ result = "ok"
  /\ reaped = "no"
-----------------------------------------------------------------------------
(***************************************************************************)
(* enable_tun                                                              *)
(***************************************************************************)

(* The Err arm: a core that was released is brought back, and the status   *)
(* says whether the journal still needs recovery.                          *)
FailureStatus == IF Outstanding(journal') THEN "recovery_required" ELSE "error"

EnableFails(c, t, s) ==
  /\ core' \in (IF c = "stopped" THEN StartOutcomes(c, t) ELSE {c})
  /\ Claim("inactive", s)
  /\ Return("err")

EnableGuard ==
  /\ At("enableGuard")
  /\ \/ /\ active = "tun" /\ status = "enabled"
        /\ Return("ok") /\ UNCHANGED memory
     \/ /\ \/ status = "recovery_required"
           \/ active = "proxy"
           \/ active = "tun" /\ status # "enabled"
        /\ Return("err") /\ UNCHANGED memory
     \/ /\ status # "recovery_required" /\ active = "inactive"
        /\ Outstanding(journal)
        /\ Claim("inactive", "recovery_required") /\ Return("err")
     \/ /\ status # "recovery_required" /\ active = "inactive"
        /\ ~Outstanding(journal)
        /\ \/ Goto("reclaim") /\ UNCHANGED memory
           \/ (* the installed helper still has an old core *)
              /\ Can("tun")
              /\ Claim("inactive", "error") /\ Return("err")
  /\ UNCHANGED <<up, tunState, claims, request, reaped>>

Reclaim ==
  /\ At("reclaim")
  /\ \/ /\ tun' \in AfterElevatedExit
        /\ core' = HandleFor(core, tun')
        /\ Claim(active, "preparing")
        /\ Goto("saveIntent")
     \/ /\ Can("elevated")
        /\ Return("err")
        /\ UNCHANGED <<tun, core, memory>>
  /\ UNCHANGED <<up, journal, claims, request, reaped>>

(* Mutant: the privileged steps begin without the intent on disk.          *)
SaveIntentSkipped ==
  /\ At("saveIntent")
  /\ Goto("prepare")
  /\ UNCHANGED <<up, memory, tunState, claims, request, reaped>>

SaveIntent ==
  /\ At("saveIntent")
  /\ \/ /\ journal' = IntentSaved
        /\ Goto("prepare")
        /\ UNCHANGED <<core, memory>>
     \/ /\ Can("journal")
        /\ UNCHANGED journal
        /\ EnableFails(core, tun, FailureStatus)
  /\ UNCHANGED <<up, tun, claims, request, reaped>>

Prepare ==
  /\ At("prepare")
  /\ \/ /\ CoreRunning
        /\ Goto("release")
     \/ /\ ~CoreRunning \/ Can("tun")
        /\ Goto("refuse")
  /\ UNCHANGED <<up, memory, tunState, claims, request, reaped>>

ReleaseCore ==
  /\ At("release")
  /\ core' \in StopOutcomes(core, tun)
  /\ Goto(IF core' = "stopped" THEN "apply" ELSE "refuse")
  /\ UNCHANGED <<up, memory, journal, tun, claims, request, reaped>>

(* backend.apply up to the start of the elevated core.                     *)
Apply ==
  /\ At("apply")
  /\ \/ /\ tun' = "held"
        /\ Goto("observe")
     \/ /\ Can("tun")
        /\ \E step \in {"deny", "markError"} : Goto(step)
        /\ UNCHANGED tun
  /\ UNCHANGED <<up, memory, core, journal, claims, request, reaped>>

(* The rest of backend.apply: what was created is written down, or undone. *)
Observe ==
  /\ At("observe")
  /\ \/ /\ journal' = NamesSaved
        /\ Goto("adopt")
        /\ UNCHANGED tun
     \/ /\ Can("tun") \/ Can("journal")
        /\ journal' = NamesSaved \/ UNCHANGED journal
        /\ tun' \in {"none"} \cup (IF Can("elevated") THEN {tun} ELSE {})
        /\ Goto("markError")
  /\ UNCHANGED <<up, memory, core, claims, request, reaped>>

Adopt ==
  /\ At("adopt")
  /\ \/ /\ tun = "held"
        /\ core' = "adopted"
        /\ Goto("verify")
     \/ /\ Can("core") \/ tun # "held"
        /\ core' \in {"stopped", "error"}
        /\ Goto("unadopt")
  /\ UNCHANGED <<up, memory, journal, tun, claims, request, reaped>>

(* fail_after_adopt_failure                                                *)
Unadopt ==
  /\ At("unadopt")
  /\ \/ /\ tun' = "none"
        /\ TryMark(CleanJournal)
        /\ core' \in StartOutcomes(core, "none")
        /\ Claim("inactive", FailureStatus)
        /\ Return("err")
     \/ /\ tun' \in AfterFailedRestore
        /\ TryMark(Mark("error"))
        /\ EnableFails(core, tun', FailureStatus)
  /\ UNCHANGED <<up, claims, request, reaped>>

Verify ==
  /\ At("verify")
  /\ \/ /\ tun = "held" /\ Goto("markApplied")
        /\ UNCHANGED <<core, memory>>
     \/ /\ Can("tun") \/ tun # "held"
        /\ Goto("unverify")
        /\ UNCHANGED <<core, memory>>
     \/ /\ Can("tun")  \* the probes themselves fail
        /\ UNCHANGED <<journal, tun>>
        /\ EnableFails(core, tun, FailureStatus)
  /\ UNCHANGED <<up, journal, tun, claims, request, reaped>>

Unverify ==
  /\ At("unverify")
  /\ \E c \in StopOutcomes(core, tun) :
       /\ tun' \in {"none"} \cup AfterFailedRestore
       /\ TryMark(Mark("error"))
       /\ EnableFails(c, tun', FailureStatus)
  /\ UNCHANGED <<up, claims, request, reaped>>

(* Mutant: enabled is claimed although the journal write failed.           *)
MarkAppliedUnchecked ==
  /\ At("markApplied")
  /\ TryMark(Mark("applied"))
  /\ Claim("tun", "enabled")
  /\ Return("ok")
  /\ UNCHANGED <<up, core, tun, claims, request, reaped>>

MarkApplied ==
  /\ At("markApplied")
  /\ \/ /\ journal' = Mark("applied")
        /\ Claim("tun", "enabled")
        /\ Return("ok")
        /\ UNCHANGED core
     \/ /\ Can("journal")
        /\ UNCHANGED journal
        /\ EnableFails(core, tun, FailureStatus)
  /\ UNCHANGED <<up, tun, claims, request, reaped>>

(* Refused before anything was mutated.                                    *)
Refuse ==
  /\ \E denied \in BOOLEAN :
       /\ At(IF denied THEN "deny" ELSE "refuse")
       /\ TryMark(CleanJournal)
       /\ EnableFails(core, tun, IF denied /\ journal' = CleanJournal
                                THEN "permission_required" ELSE FailureStatus)
  /\ UNCHANGED <<up, tun, claims, request, reaped>>

MarkError ==
  /\ At("markError")
  /\ TryMark(Mark("error"))
  /\ EnableFails(core, tun, FailureStatus)
  /\ UNCHANGED <<up, tun, claims, request, reaped>>

EnableTun ==
  \/ EnableGuard \/ Reclaim \/ SaveIntent \/ Prepare \/ ReleaseCore \/ Apply
  \/ Observe \/ Adopt \/ Unadopt \/ Verify \/ Unverify \/ MarkApplied
  \/ Refuse \/ MarkError
-----------------------------------------------------------------------------
(***************************************************************************)
(* disable_tun.  An early error return leaves the claim as it was.         *)
(***************************************************************************)
Disable ==
  /\ At("disable")
  /\ Claim(active, "stopping")
  /\ \/ /\ journal.state \notin {"none", "unreadable"}
        /\ journal' = Mark("restoring")
        /\ Goto("restore")
     \/ /\ journal.state \in {"none", "unreadable"} \/ Can("journal")
        /\ Return("err")
        /\ UNCHANGED journal
  /\ UNCHANGED <<up, core, tun, claims, request, reaped>>

Unconfirmed ==
  /\ TryMark(Mark("recovery_required"))
  /\ Claim("inactive", "recovery_required")
  /\ Return("err")

(* Mutant: the result of the restore is ignored.                           *)
RestoreUnchecked ==
  /\ At("restore")
  /\ tun' \in {"none"} \cup AfterFailedRestore
  /\ core' \in StopOutcomes(HandleFor(core, tun'), tun')
  /\ Goto("markClean")
  /\ UNCHANGED <<up, memory, journal, claims, request, reaped>>

Restore ==
  /\ At("restore")
  /\ \/ /\ tun' = "none"
        /\ core' \in StopOutcomes(HandleFor(core, "none"), "none")
        /\ IF core' = "stopped"
             THEN Goto("markClean") /\ UNCHANGED <<journal, memory>>
             ELSE Unconfirmed
     \/ /\ tun' \in AfterFailedRestore
        /\ \E c \in StopOutcomes(HandleFor(core, tun'), tun') :
             core' \in StopOutcomes(c, tun')  \* a second attempt
        /\ Unconfirmed
  /\ UNCHANGED <<up, claims, request, reaped>>

MarkClean ==
  /\ At("markClean")
  /\ \/ /\ journal' = CleanJournal
        /\ Claim("inactive", "disabled")
        /\ IF job \in {"stop", "quit"} THEN Return("ok") ELSE Goto("restart")
     \/ /\ Can("journal")
        /\ Return("err")
        /\ UNCHANGED <<journal, memory>>
  /\ UNCHANGED <<up, core, tun, claims, request, reaped>>

RestartDiagnostic ==
  /\ At("restart")
  /\ core' \in StartOutcomes(core, tun)
  /\ Return(IF core' = "running" THEN "ok" ELSE "err")
  /\ UNCHANGED <<up, memory, journal, tun, claims, request, reaped>>

DisableTun == Disable \/ Restore \/ MarkClean \/ RestartDiagnostic
-----------------------------------------------------------------------------
(***************************************************************************)
(* enable_system_proxy and its release                                     *)
(***************************************************************************)
(* Mutant: the journal and the status are not asked before the OS proxy is *)
(* taken.                                                                  *)
ProxyGuardUnguarded ==
  /\ At("proxyGuard")
  /\ Goto("proxyApply")
  /\ UNCHANGED <<up, memory, tunState, claims, request, reaped>>

ProxyGuard ==
  /\ At("proxyGuard")
  /\ \/ /\ active = "proxy"
        /\ Return("ok") /\ UNCHANGED memory
     \/ /\ \/ active = "tun"
           \/ active = "inactive"
                /\ status \in {"preparing", "stopping", "recovery_required"}
        /\ Return("err") /\ UNCHANGED memory
     \/ /\ active = "inactive"
        /\ status \notin {"preparing", "stopping", "recovery_required"}
        /\ IF Outstanding(journal)
             THEN Claim("inactive", "recovery_required") /\ Return("err")
           ELSE IF ~CoreRunning
             THEN Return("err") /\ UNCHANGED memory
           ELSE IF record = "applied" /\ proxied
             THEN Claim("proxy", status) /\ Return("ok")
           ELSE Goto("proxyApply") /\ UNCHANGED memory
  /\ UNCHANGED <<up, tunState, claims, request, reaped>>

(* What a restore-then-apply that fails, or is cut short, can leave of the *)
(* proxy and its record.                                                   *)
ApplyCutShort ==
  \/ record' = "clear" /\ proxied' \in GivenBack(TRUE)
  \/ record' = "pending" /\ proxied' \in BOOLEAN
  \/ RestoreCutShort
ProxyApplyFails == Can("proxy") /\ ApplyCutShort

ProxyApply ==
  /\ At("proxyApply")
  /\ \/ /\ record' = "pending" /\ proxied' = TRUE
        /\ Goto("proxySave")
     \/ ProxyApplyFails /\ Return("err")
  /\ UNCHANGED <<up, memory, tunState, request, reaped>>

ProxySave ==
  /\ At("proxySave")
  /\ \/ /\ record' = "applied"
        /\ Claim("proxy", status)
        /\ Return("ok")
     \/ /\ Can("proxy")
        /\ Return("err")
        /\ UNCHANGED <<record, memory>>
  /\ UNCHANGED <<up, tunState, proxied, request, reaped>>

ProxyRestore ==
  /\ At("proxyRestore")
  /\ \/ ProxyRestored /\ Claim("inactive", "disabled") /\ Return("ok")
     \/ ProxyRestoreFails /\ UNCHANGED memory /\ Return("err")
  /\ UNCHANGED <<up, tunState, request, reaped>>

SystemProxy == ProxyGuard \/ ProxyApply \/ ProxySave \/ ProxyRestore

(* Release whichever backend is active (disable_active_backend).           *)
CallRelease(j) ==
  CASE active = "tun"      -> Call(j, "disable")
    [] active = "proxy"    -> Call(j, "proxyRestore")
    [] active = "inactive" -> job' = j /\ pc' = "return" /\ result' = "ok"
-----------------------------------------------------------------------------
(***************************************************************************)
(* recover: the journal driver and the backend's verification              *)
(***************************************************************************)
(* Mutant: the record on disk is not asked who owns the proxy.             *)
BaselineForgetful == Claim("inactive", "disabled") /\ Return("ok")

(* Mutant: nothing is claimed anew after a recovery.                       *)
BaselineKept == UNCHANGED memory /\ Return("ok")

Baseline ==
  /\ IF active = "proxy" \/ record = "applied"
       THEN UNCHANGED memory
       ELSE Claim("inactive", "disabled")
  /\ Return("ok")

(* recover's error, or its Ok with the warning "recover.tunCleanupRetry":  *)
(* callers tell the second from a success by the status, as here by result.*)
RecoveryUnverified ==
  /\ Claim("inactive", "recovery_required")
  /\ Return("err")

(* The backend looks for what the journal names, and only for that.        *)
VerifiedGone == tun = "none" \/ ~journal.named

Recovered ==
  \/ journal' = CleanJournal /\ Baseline
  \/ Can("journal") /\ UNCHANGED journal /\ RecoveryUnverified

Drive ==
  /\ At("drive")
  /\ pending' = FALSE
  /\ \/ /\ journal.state \in {"none", "clean", "foreign"}
        /\ Baseline
        /\ UNCHANGED tunState
     \/ /\ journal.state = "unreadable"
        /\ RecoveryUnverified
        /\ UNCHANGED tunState
     \/ /\ journal.state \notin {"none", "clean", "foreign", "unreadable"}
        /\ \/ VerifiedGone /\ Recovered /\ UNCHANGED <<tun, core>>
           \/ /\ ~VerifiedGone
              /\ tun' = "none" /\ core' = HandleFor(core, "none")
              /\ Recovered
           \/ /\ tun' \in (IF Can("tun") THEN {tun} ELSE {}) \cup
                          (IF VerifiedGone THEN {} ELSE AfterFailedRestore)
              /\ core' = HandleFor(core, tun')
              /\ TryMark(Mark("recovery_required"))
              /\ RecoveryUnverified
  /\ UNCHANGED <<up, claims, desired, goal, prev, reaped>>
-----------------------------------------------------------------------------
(***************************************************************************)
(* Jobs.  Each takes the orchestrate lock, so it begins when none runs.    *)
(***************************************************************************)
Idle == up /\ job = "idle"

(* start_service, and start_core, which claims no capture.                 *)
StartService ==
  /\ Idle
  /\ \E j \in {"start", "startCore"} : Call(j, "startCore")
  /\ UNCHANGED <<up, memory, tunState, claims, request, reaped>>

StartCore ==
  /\ At("startCore")
  /\ core' \in (IF CoreRunning THEN {core} ELSE StartOutcomes(core, tun))
  /\ IF job = "start" /\ core' \in {"running", "adopted", "exited"}
       THEN Goto(IF desired THEN "enableGuard" ELSE "proxyGuard")
       ELSE End
  /\ UNCHANGED <<up, memory, journal, tun, claims, request, reaped>>

(* The resolved interface name is committed last; if it cannot be, TUN is  *)
(* released again.                                                         *)
StartReturns ==
  /\ Returned("start")
  /\ \/ End
     \/ Ok /\ desired /\ Can("settings") /\ CallRelease("startUndo")
  /\ UNCHANGED <<up, memory, tunState, claims, request, reaped>>

(* stop_system_proxy: release the backend, keep the core.                  *)
StopService ==
  /\ Idle
  /\ active # "inactive"
  /\ CallRelease("stop")
  /\ UNCHANGED <<up, memory, tunState, claims, request, reaped>>

(* graceful_stop_locked: stop and stop_core commands, update and quit.     *)
GracefulStop ==
  /\ Idle
  /\ Call("quit", IF active = "tun" THEN "disable" ELSE "quitCore")
  /\ UNCHANGED <<up, memory, tunState, claims, request, reaped>>

QuitCore ==
  /\ At("quitCore") \/ Returned("quit")
  /\ core' \in StopOutcomes(core, tun)
  /\ IF core' = "stopped" THEN Goto("quitProxy") ELSE End
  /\ UNCHANGED <<up, memory, journal, tun, claims, request, reaped>>

QuitProxy ==
  /\ At("quitProxy")
  /\ ProxyRestored \/ ProxyRestoreFails
  /\ End
  /\ UNCHANGED <<up, memory, tunState, request, reaped>>

(* A config change without TUN: reload the core, sync the proxy.           *)
ApplyConfig ==
  /\ Idle
  /\ active # "tun"
  /\ Call("apply", "reload")
  /\ UNCHANGED <<up, memory, tunState, claims, request, reaped>>

Reload ==
  /\ At("reload")
  /\ \/ /\ record = "applied" /\ CoreRunning
        /\ ProxyApplyFails
        /\ UNCHANGED core
     \/ /\ CoreRunning
        /\ Can("core") \/ core = "adopted"
        /\ core' = "error"
        /\ ProxyRestored \/ ProxyRestoreFails
     \/ /\ core' \in {core} \cup (IF core = "exited" THEN {"running"} ELSE {})
        /\ UNCHANGED claims
  /\ End
  /\ UNCHANGED <<up, memory, journal, tun, request, reaped>>

(* apply_while_tun_active: release, enable again, roll back on failure.    *)
ApplyWhileTunActive ==
  /\ Idle
  /\ active = "tun"
  /\ Call("applyOff", "disable")
  /\ UNCHANGED <<up, memory, tunState, claims, request, reaped>>

GiveUp == Claim("inactive", "recovery_required") /\ End
Proceed == UNCHANGED memory

ApplyReturns ==
  /\ \/ /\ Returned("applyOff")
        /\ Proceed
        /\ IF Ok THEN Call("applyOn", "enableGuard") ELSE End
     \/ /\ Returned("applyOn")
        /\ Proceed
        /\ IF Ok THEN End ELSE Call("applyRecover", "drive")
     \/ /\ Returned("applyRecover")
        /\ IF Ok /\ status # "recovery_required"
             THEN Proceed /\ Call("applyUndo", "enableGuard")
             ELSE GiveUp
     \/ /\ Returned("applyUndo")
        /\ IF Ok THEN Proceed /\ End ELSE GiveUp
  /\ UNCHANGED <<up, tunState, claims, request, reaped>>
-----------------------------------------------------------------------------
(***************************************************************************)
(* save_settings and transition_tun_settings                               *)
(***************************************************************************)
SaveWhileInactive ==
  /\ Idle
  /\ active = "inactive"
  /\ desired' = ~desired
  /\ UNCHANGED control \/ Call("apply", "reload")  \* other fields changed too
  /\ UNCHANGED <<up, memory, tunState, claims, pending, goal, prev, reaped>>

(* The candidate's tun.enabled is want; keeping TUN on is a change of its  *)
(* topology.  The pending record is written before anything else.          *)
SwitchNeeded(want) ==
  \/ active = "proxy" /\ ~desired /\ want
  \/ active = "tun" /\ desired

Commit(want) == desired' = want /\ pending' = FALSE

(* Mutant: settings.json is written before the switch.                     *)
SaveWhileActiveEarly(want) ==
  /\ Idle
  /\ active # "inactive"
  /\ SwitchNeeded(want)
  /\ goal' = want /\ prev' = active
  /\ desired' = want /\ pending' = TRUE
  /\ CallRelease("switchOff")
  /\ UNCHANGED <<up, memory, tunState, claims, reaped>>

SaveWhileActive(want) ==
  /\ Idle
  /\ active # "inactive"
  /\ want # desired \/ (active = "tun" /\ want)
  /\ goal' = want
  /\ prev' = active
  /\ IF SwitchNeeded(want)
       THEN /\ pending' = TRUE
            /\ CallRelease("switchOff")
            /\ UNCHANGED desired
       ELSE \/ /\ Commit(want)
               /\ IF active = "tun" THEN UNCHANGED control ELSE Call("apply", "reload")
            \/ /\ Can("settings")
               /\ pending' \in {pending, TRUE}
               /\ UNCHANGED <<desired, control>>
  /\ UNCHANGED <<up, memory, tunState, claims, reaped>>

(* Bring back the backend of the committed settings.                       *)
CallPrevious(j) ==
  IF desired THEN Call(j, "enableGuard")
  ELSE IF prev = "proxy" THEN Call(j, "proxyGuard")
  ELSE job' = j /\ pc' = "return" /\ result' = "ok"

Undo ==
  IF Outstanding(journal) THEN Call("undoRecover", "drive") ELSE CallPrevious("undoOn")

SwitchReturns ==
  \/ /\ Returned("switchOff")
     /\ IF Ok THEN Call("switchOn", IF goal THEN "enableGuard" ELSE "proxyGuard") ELSE Undo
     /\ UNCHANGED <<memory, request>>
  \/ /\ Returned("switchOn") /\ Ok
     /\ \/ /\ Commit(goal)
           /\ IF goal THEN End ELSE Call("apply", "reload")
        \/ /\ Can("settings")
           /\ CallRelease("commitOff")
           /\ UNCHANGED <<desired, pending>>
     /\ UNCHANGED <<memory, goal, prev>>
  \/ /\ Returned("switchOn") /\ ~Ok
     /\ Undo
     /\ UNCHANGED <<memory, request>>

(* Mutant: a failed rollback is not reported as recovery_required.         *)
UndoReturnsSilent ==
  /\ \E j \in {"undoRecover", "undoOn", "commitOff", "commitOn"} : Returned(j)
  /\ IF job = "undoRecover" /\ Ok THEN CallPrevious("undoOn")
     ELSE IF job = "commitOff" /\ Ok THEN CallPrevious("commitOn")
     ELSE End
  /\ UNCHANGED <<memory, request>>

UndoReturns ==
  \/ /\ Returned("undoRecover")
     /\ IF Ok /\ status # "recovery_required"
          THEN Proceed /\ CallPrevious("undoOn") /\ UNCHANGED pending
          ELSE GiveUp /\ pending' = FALSE
     /\ UNCHANGED <<desired, goal, prev>>
  \/ /\ Returned("undoOn")
     /\ IF Ok THEN Proceed /\ End ELSE GiveUp
     /\ pending' = FALSE
     /\ UNCHANGED <<desired, goal, prev>>
  \/ /\ Returned("commitOff")
     /\ IF Ok THEN Proceed /\ CallPrevious("commitOn") ELSE GiveUp
     /\ UNCHANGED request
  \/ /\ Returned("commitOn")
     /\ IF Ok THEN Proceed /\ End ELSE GiveUp
     /\ UNCHANGED request

TransitionReturns ==
  /\ SwitchReturns \/ UndoReturns
  /\ UNCHANGED <<up, tunState, claims, reaped>>
-----------------------------------------------------------------------------
(***************************************************************************)
(* Recovery on demand, launch, the watchdog                                *)
(***************************************************************************)
RecoverTun ==
  /\ Idle
  /\ Call("recover", "drive")
  /\ UNCHANGED <<up, memory, tunState, claims, request, reaped>>

(* recover_launch_leftovers, then start_core_inner.                        *)
Launch ==
  /\ ~up
  /\ up' = TRUE
  /\ Call("launch", "launchProxy")
  /\ UNCHANGED <<memory, tunState, claims, request, reaped>>

(* Mutant: launch puts the proxy back on for a user who left it on.        *)
LaunchProxyResumes ==
  /\ At("launchProxy")
  /\ proxied' = (record = "applied" \/ proxied)
  /\ Claim(IF record = "applied" THEN "proxy" ELSE active, status)
  /\ Goto("launchReclaim")
  /\ UNCHANGED <<up, tunState, record, request, reaped>>

LaunchProxy ==
  /\ At("launchProxy")
  /\ ProxyRestored \/ ProxyRestoreFails
  /\ Claim(IF record' = "applied" THEN "proxy" ELSE active, status)
  /\ Goto("launchReclaim")
  /\ UNCHANGED <<up, tunState, request, reaped>>

LaunchReclaim ==
  /\ At("launchReclaim")
  /\ tun' \in AfterElevatedExit \cup (IF Can("elevated") THEN {tun} ELSE {})
  /\ Goto("drive")
  /\ UNCHANGED <<up, memory, core, journal, claims, request, reaped>>

(* Mutant: the job that undoes a start never gives the lock back.          *)
JobReturnsStuck ==
  /\ \/ Returned("launch") /\ Goto("startCore")
     \/ /\ \E j \in {"stop", "recover", "watch"} : Returned(j)
        /\ End
  /\ UNCHANGED <<up, memory, tunState, claims, request, reaped>>

JobReturns ==
  /\ \/ Returned("launch") /\ Goto("startCore")
     \/ /\ \E j \in {"startUndo", "stop", "recover", "watch"} : Returned(j)
        /\ End
  /\ UNCHANGED <<up, memory, tunState, claims, request, reaped>>

(* reconcile_unexpected_core_exit: the lock is released after the reaping. *)
WatchReap ==
  /\ Idle
  /\ reaped = "no"
  /\ core = "exited"
  /\ core' = "error"
  /\ reaped' = "reaped"
  /\ UNCHANGED <<up, memory, journal, tun, claims, request, control>>

(* Which jobs hold the core and the proxy mutex.                           *)
CoreFree ==
  \/ job = "idle"
  \/ job = "start" /\ pc \in {"startCore", "enableGuard", "proxyGuard"}
ProxyFree ==
  \/ job \in {"idle", "startCore", "recover", "watch"}
  \/ job = "start" /\ (desired \/ pc \in {"startCore", "proxyGuard"})
  \/ job = "launch" /\ pc # "launchProxy"

WatchDecide ==
  /\ up
  /\ reaped = "reaped"
  /\ CoreFree
  /\ reaped' = IF core # "error" THEN "no"
               ELSE IF active = "tun" THEN "tun" ELSE "proxy"
  /\ UNCHANGED <<up, memory, tunState, claims, request, control>>

(* The proxy is restored without the orchestrate lock.                     *)
WatchProxy ==
  /\ up
  /\ reaped = "proxy"
  /\ ProxyFree
  /\ ProxyRestored \/ ProxyRestoreFails
  /\ reaped' = "no"
  /\ UNCHANGED <<up, memory, tunState, request, control>>

(* try_lock: a job in flight ends the attempt.                             *)
WatchTun ==
  /\ up
  /\ reaped = "tun"
  /\ reaped' = "no"
  /\ IF job = "idle" /\ active = "tun"
       THEN Call("watch", "watchMark")
       ELSE UNCHANGED control
  /\ UNCHANGED <<up, memory, tunState, claims, request>>

WatchMark ==
  /\ At("watchMark")
  /\ \/ /\ journal.state \notin {"none", "unreadable"}
        /\ TryMark(Mark("restoring"))
        /\ Claim(active, "stopping")
        /\ Goto("watchRestore")
     \/ /\ journal.state \in {"none", "unreadable"}
        /\ RecoveryUnverified
        /\ UNCHANGED journal
  /\ UNCHANGED <<up, core, tun, claims, request, reaped>>

WatchRestore ==
  /\ At("watchRestore")
  /\ \/ /\ tun' = "none"
        /\ TryMark(CleanJournal)
        /\ Claim("inactive", "disabled")
        /\ Return("ok")
        /\ UNCHANGED core
     \/ /\ tun' \in AfterFailedRestore
        /\ TryMark(Mark("recovery_required"))
        /\ RecoveryUnverified
        /\ core' \in StopOutcomes(core, tun')
  /\ UNCHANGED <<up, claims, request, reaped>>
-----------------------------------------------------------------------------
(***************************************************************************)
(* The environment                                                         *)
(***************************************************************************)
CoreExits ==
  /\ core = "running"
  /\ core' = "exited"
  /\ UNCHANGED <<up, memory, journal, tun, claims, request, control, reaped>>

ElevatedCoreExits ==
  /\ tun = "held"
  /\ tun' \in AfterElevatedExit
  /\ core' = Orphaned(core)
  /\ UNCHANGED <<up, memory, journal, claims, request, control, reaped>>

(* The process dies inside a change of the proxy, the watchdog's too.      *)
ProxyCutShort ==
  \/ /\ pc \in {"proxyRestore", "launchProxy", "quitProxy", "reload"} \/ reaped = "proxy"
     /\ RestoreCutShort
  \/ /\ pc = "proxyApply" \/ (pc = "reload" /\ record = "applied")
     /\ ApplyCutShort

Crash ==
  /\ up
  /\ up' = FALSE
  /\ active' = "inactive" /\ status' = "disabled"
  /\ core' = "stopped"
  /\ reaped' = "no"
  /\ End
  /\ UNCHANGED claims \/ ProxyCutShort
  /\ UNCHANGED <<journal, tun, request>>

JournalUnreadable ==
  /\ Can("corrupt")
  /\ job = "idle"
  /\ journal.state \notin {"none", "unreadable"}
  /\ journal' = Mark("unreadable")
  /\ UNCHANGED <<up, memory, tun, core, claims, request, control, reaped>>

Procedure == EnableTun \/ DisableTun \/ SystemProxy \/ Drive

JobBegins ==
  \/ StartService \/ StopService \/ GracefulStop \/ ApplyConfig
  \/ ApplyWhileTunActive \/ SaveWhileInactive
  \/ \E want \in BOOLEAN : SaveWhileActive(want)
  \/ RecoverTun \/ Launch

JobStep ==
  \/ StartCore \/ StartReturns \/ QuitCore \/ QuitProxy \/ Reload
  \/ ApplyReturns \/ TransitionReturns \/ LaunchProxy \/ LaunchReclaim
  \/ JobReturns \/ WatchMark \/ WatchRestore

Watchdog == WatchReap \/ WatchDecide \/ WatchProxy \/ WatchTun

Environment == CoreExits \/ ElevatedCoreExits \/ Crash \/ JournalUnreadable

Next == Procedure \/ JobBegins \/ JobStep \/ Watchdog \/ Environment

Spec == Init /\ [][Next]_vars

(* A job that runs goes on; the user retries recovery, and verification    *)
(* does not fail every time.                                               *)
Fairness ==
  /\ WF_vars(Procedure \/ JobStep)
  /\ SF_vars(RecoverTun)
  /\ SF_vars(Drive /\ result' = "ok")

FairSpec == Spec /\ Fairness
-----------------------------------------------------------------------------
(***************************************************************************)
(* Properties                                                              *)
(***************************************************************************)
TypeOK ==
  /\ up \in BOOLEAN
  /\ active \in Backends /\ status \in Statuses
  /\ core \in CoreStates
  /\ journal \in JournalRecords
  /\ tun \in TunStates
  /\ record \in {"clear", "pending", "applied"} /\ proxied \in BOOLEAN
  /\ desired \in BOOLEAN /\ pending \in BOOLEAN
  /\ goal \in BOOLEAN /\ prev \in Backends
  /\ job \in Jobs /\ pc \in Steps /\ result \in {"ok", "err"}
  /\ reaped \in {"no", "reaped", "proxy", "tun"}

(* As long as the OS carries anything of TUN, the journal on disk says so, *)
(* at every step and after every crash (journal_has_outstanding_records).  *)
EvidenceKept == tun # "none" => Outstanding(journal)

(* TUN and the OS proxy never capture at the same time, also while one is  *)
(* switched to the other (enable_system_proxy, enable_tun guards).         *)
Exclusive == ~(tun = "held" /\ proxied)

(* What the controller reports as enabled is journaled as applied.         *)
EnabledIsJournaled ==
  active = "tun" /\ status = "enabled" => journal.state \in {"applied", "unreadable"}

(* tun.enabled changes on disk during a live session only after the        *)
(* backend it names is the active one.                                     *)
CommittedAfterHealthy ==
  [][desired' # desired /\ active # "inactive"
       => active = (IF desired' THEN "tun" ELSE "proxy")]_vars

(* Recovery, launch and the watchdog never put capture on the OS.          *)
RecoveryNeverCaptures ==
  [][(job \in {"recover", "launch", "watch", "undoRecover", "applyRecover"})
       => /\ tun' # "held" \/ tun = "held"
          /\ ~proxied' \/ proxied]_vars

(* A switch that does not commit leaves the previous backend claimed, or   *)
(* nothing claimed and recovery required.                                  *)
SwitchJobs == {"switchOff", "switchOn", "undoRecover", "undoOn", "commitOff", "commitOn"}
SwitchIsAtomic ==
  [][up' /\ job \in SwitchJobs /\ job' = "idle"
       => \/ active' = prev
          \/ active' = (IF desired' THEN "tun" ELSE "proxy") /\ ~pending'
          \/ active' = "inactive" /\ status' = "recovery_required"]_vars

(* While the record says the OS proxy is ours, the proxy is the backend    *)
(* claimed, or both are refused until recovery has run (recover: "must not *)
(* report Inactive while the system proxy is still owned").                *)
ReportsOwnedProxy ==
  Idle /\ record = "applied" => active = "proxy" \/ status = "recovery_required"

(* A recovery that reports success leaves recovery_required (docs/tun.md:  *)
(* both backends stay disabled "until recovery succeeds").                 *)
RecoverySettles == Returned("recover") /\ Ok => status # "recovery_required"

(* A job that began ends, so the orchestrate lock is always released.      *)
LockReleased == job # "idle" ~> job = "idle"

(* Recovery, retried, gets out of recovery_required.                       *)
RecoveryUnblocks == status = "recovery_required" ~> status # "recovery_required"

Ledger == INSTANCE TunLedger
            WITH noted <- Outstanding(journal), taken <- (tun # "none")
ImplementsLedger == Ledger!Spec
=============================================================================
