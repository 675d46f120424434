---------------------------- MODULE TunResolvers ----------------------------
(***************************************************************************)
(* The system resolvers while TUN captures on macOS: the backend points    *)
(* them at public servers, the journal remembers both sides, a restore     *)
(* compares before it gives back, and a self-heal puts ours in place again *)
(* after a wake.                                                           *)
(*                                                                         *)
(* One job runs at a time (the orchestrate lock); the app can be killed    *)
(* between any two steps, and the user or a network change can set the     *)
(* resolvers at any time.  CaptureController has the rest of the capture.  *)
(***************************************************************************)
CONSTANTS
  Resolvers,   (* what the primary service can point at                    *)
  Ours,        (* MACOS_TUN_DNS_SERVERS                                    *)
  None,
  Faults       (* what can go wrong: a subset of FaultKinds                *)

FaultKinds == {"disk", "stop", "setDns", "probe", "start"}

ASSUME OursAssumption == Ours \in Resolvers /\ None \notin Resolvers
ASSUME FaultsAssumption == Faults \subseteq FaultKinds

VARIABLES
  dns,       (* the resolvers of the primary service                       *)
  adapter,   (* the utun: "none", "up", or lingering after its core        *)
  file,      (* tun-state.json: [state, named, before, after]              *)
  alive,     (* is the app running?                                        *)
  active,    (* does the controller claim TUN?                             *)
  blocked,   (* tun_status = RecoveryRequired                              *)
  job, pc,   (* the job under the lock and its next step                   *)
  held,      (* the AppliedTun the job works with                          *)
  failed,    (* restore_error                                              *)
  owed,      (* history: what the user should find after a release         *)
  slips      (* history: the ways it was lost since the user last chose    *)

memory == <<active, blocked>>
flow == <<job, pc, held, failed>>
history == <<owed, slips>>
vars == <<dns, adapter, file, alive, memory, flow, history>>

Users == Resolvers \ {Ours}
States == {"none", "preparing", "applied", "restoring", "error", "recovery_required", "clean"}
Jobs == {"idle", "enable", "undo", "disable", "exit", "recover"}
Slips == {"unjournaled", "overwritten"}
Nothing == [named |-> FALSE, before |-> None, after |-> None]
Can(fault) == fault \in Faults
At(step) == alive /\ pc = step
Goto(step) == pc' = step /\ UNCHANGED job
Outstanding == file.state \notin {"none", "clean"}

Applied == [named |-> file.named, before |-> file.before, after |-> file.after]

(* Atomic: the whole record or the previous one.                           *)
Save(record) == file' = record
Marked(state) == [file EXCEPT !.state = state]
Closed == [state |-> "clean", named |-> FALSE, before |-> None, after |-> None]

Init ==
  /\ dns \in Users /\ owed = dns
  /\ adapter = "none"
  /\ file = [Closed EXCEPT !.state = "none"]
  /\ alive = TRUE /\ active = FALSE /\ blocked = FALSE
  /\ job = "idle" /\ pc = "idle" /\ held = Nothing /\ failed = FALSE
  /\ slips = {}
-----------------------------------------------------------------------------
(***************************************************************************)
(* Ends of a job                                                           *)
(***************************************************************************)
Return == job' = "idle" /\ pc' = "idle" /\ held' = Nothing /\ failed' = FALSE

(* finish_transition and fail_transition.                                  *)
Finish(captured) == active' = captured /\ blocked' = FALSE
Fail(unclean) == active' = FALSE /\ blocked' = unclean

(* enable_tun's error arm: the journal on disk decides.                    *)
EnableFails ==
  /\ active' = FALSE
  /\ blocked' = (file'.state \notin {"none", "clean"})
  /\ Return

(* StopCore may fail, or leave the adapter behind for a while.             *)
StopCore(stopped, notStopped) ==
  \/ /\ adapter' \in IF adapter = "up" THEN {"none", "lingers"} ELSE {adapter}
     /\ stopped
  \/ /\ Can("stop")
     /\ UNCHANGED adapter
     /\ notStopped

(* set_dns through the helper: a call that fails may have had its effect.  *)
SetDns(servers, set, notSet) ==
  \/ dns' = servers /\ set
  \/ Can("setDns") /\ dns' \in {dns, servers} /\ notSet
-----------------------------------------------------------------------------
(***************************************************************************)
(* Enable: intent, apply and its rollbacks                                 *)
(***************************************************************************)
BeginEnable ==
  /\ At("idle") /\ ~active /\ ~blocked
  /\ IF Outstanding
       THEN Fail(TRUE) /\ UNCHANGED <<file, flow>>
       ELSE \/ /\ Save([Closed EXCEPT !.state = "preparing"])
               /\ job' = "enable" /\ pc' = "startCore"
               /\ UNCHANGED <<memory, held, failed>>
            \/ /\ Can("disk")
               /\ UNCHANGED file /\ EnableFails
  /\ UNCHANGED <<dns, adapter, alive, history>>

(* Refused before any mutation, or failed: journal_clean, journal_error.   *)
StartCore ==
  /\ At("startCore")
  /\ \/ /\ adapter = "none" /\ adapter' = "up"
        /\ Goto("nameIt")
        /\ UNCHANGED <<file, memory, held, failed>>
     \/ /\ Can("start")
        /\ file' \in {Closed, Marked("error")} \cup (IF Can("disk") THEN {file} ELSE {})
        /\ EnableFails
        /\ UNCHANGED adapter
  /\ UNCHANGED <<dns, alive, history>>

(* INTERFACE_CREATED, addresses and routes.                                *)
NameInterface ==
  /\ At("nameIt")
  /\ \/ /\ Save([file EXCEPT !.named = TRUE])
        /\ held' = [held EXCEPT !.named = TRUE]
        /\ Goto("readBefore")
     \/ /\ Can("disk") \/ Can("probe")
        /\ file' \in {file, [file EXCEPT !.named = TRUE]}
        /\ Goto("rollback")
        /\ UNCHANGED held
  /\ UNCHANGED <<dns, adapter, alive, memory, failed, history>>

ReadBefore ==
  /\ At("readBefore")
  /\ \/ /\ held' = [held EXCEPT !.before = dns]
        /\ Goto("pointAtOurs")
     \/ Can("probe") /\ Goto("rollback") /\ UNCHANGED held
  /\ UNCHANGED <<dns, adapter, file, alive, memory, failed, history>>

PointAtOurs ==
  /\ At("pointAtOurs")
  /\ SetDns(Ours,
            Goto("recordDns") /\ held' = [held EXCEPT !.after = Ours],
            Goto("rollbackDns") /\ UNCHANGED held)
  /\ UNCHANGED <<adapter, file, alive, memory, failed, history>>

(* Mutant: only the applied side is written down.                          *)
RecordDnsAfterOnly ==
  /\ At("recordDns")
  /\ Save([file EXCEPT !.after = held.after])
  /\ Goto("probe")
  /\ UNCHANGED <<dns, adapter, alive, memory, held, failed, history>>

RecordDns ==
  /\ At("recordDns")
  /\ \/ /\ Save([file EXCEPT !.before = held.before, !.after = held.after])
        /\ Goto("probe")
     \/ /\ Can("disk")
        /\ Goto("rollbackDns")
        /\ UNCHANGED file
  /\ UNCHANGED <<dns, adapter, alive, memory, held, failed, history>>

Probe ==
  /\ At("probe")
  /\ \/ dns = Ours /\ Goto("verify")
     \/ (dns # Ours \/ Can("probe")) /\ Goto("rollbackDns")
  /\ UNCHANGED <<dns, adapter, file, alive, memory, held, failed, history>>

(* rollback_dns_after_apply_failure: no comparison here.                   *)
RollbackDns ==
  /\ At("rollbackDns")
  /\ SetDns(held.before, TRUE, TRUE)
  /\ slips' = IF dns' = Ours /\ file.after = None THEN slips \cup {"unjournaled"} ELSE slips
  /\ Goto("rollback")
  /\ UNCHANGED <<adapter, file, alive, memory, held, failed, owed>>

(* rollback_after_apply_failure, then journal_error.                       *)
Rollback ==
  /\ At("rollback")
  /\ StopCore(TRUE, TRUE)
  /\ file' \in {Marked("error")} \cup (IF Can("disk") THEN {file} ELSE {})
  /\ EnableFails
  /\ UNCHANGED <<dns, alive, history>>

(* Adoption and readiness, then the applied mark; without the mark the     *)
(* enable fails as it stands, without a release.                           *)
Verify ==
  /\ At("verify")
  /\ \/ /\ adapter = "up" /\ dns = Ours
        /\ Save(Marked("applied"))
        /\ Finish(TRUE) /\ Return
     \/ /\ Can("disk")
        /\ UNCHANGED file
        /\ EnableFails
     \/ /\ adapter # "up" \/ dns # Ours \/ Can("start")
        /\ job' = "undo" /\ pc' = "stop"
        /\ UNCHANGED <<file, memory, held, failed>>
  /\ UNCHANGED <<dns, adapter, alive, history>>
-----------------------------------------------------------------------------
(***************************************************************************)
(* Restore, and the jobs it serves                                         *)
(***************************************************************************)
(* disable_tun and handle_unexpected_core_exit.                            *)
BeginRelease ==
  /\ At("idle") /\ active
  /\ \/ /\ job' = "disable" /\ pc' = "stop"
        /\ Save(Marked("restoring"))
        /\ held' = Applied /\ failed' = FALSE
     \/ /\ Can("disk")
        /\ UNCHANGED <<file, flow>>
     \/ /\ adapter # "up"
        /\ job' = "exit" /\ pc' = "stop"
        /\ file' \in {Marked("restoring")} \cup (IF Can("disk") THEN {file} ELSE {})
        /\ held' = Applied /\ failed' = FALSE
  /\ UNCHANGED <<dns, adapter, alive, memory, history>>

(* RecoveryDriver::recover and the backend's first verification, at launch *)
(* and on demand.                                                          *)
Owned(applied) ==
  \/ applied.after # None /\ dns = applied.after
  \/ applied.named /\ adapter # "none"

BeginRecover ==
  /\ At("idle")
  /\ IF ~Outstanding THEN Finish(FALSE) /\ UNCHANGED <<file, flow>>
     ELSE \/ /\ ~Owned(Applied)
             /\ Save(Closed) /\ Finish(FALSE) /\ UNCHANGED flow
          \/ /\ Owned(Applied) \/ Can("probe")
             /\ job' = "recover" /\ pc' = "stop"
             /\ held' = Applied /\ failed' = FALSE
             /\ UNCHANGED <<file, memory>>
          \/ /\ Can("probe") \/ Can("disk")
             /\ file' \in {file, Marked("recovery_required")}
             /\ Fail(TRUE) /\ UNCHANGED flow
  /\ UNCHANGED <<dns, adapter, alive, history>>

(* What a restore that failed leads to.                                    *)
RestoreFails ==
  /\ LET mark == IF job = "undo" THEN "error" ELSE "recovery_required"
     IN  file' \in {Marked(mark)} \cup (IF Can("disk") THEN {file} ELSE {})
  /\ IF job = "undo" THEN EnableFails ELSE Fail(TRUE) /\ Return

Stop ==
  /\ At("stop")
  /\ StopCore(Goto("gone") /\ UNCHANGED <<file, memory, held, failed>>, RestoreFails)
  /\ UNCHANGED <<dns, alive, history>>

(* The adapter must be gone; the removal is journaled, or its failure kept *)
(* for the end.                                                            *)
AdapterGone ==
  /\ At("gone")
  /\ \/ /\ (held.named /\ adapter # "none") \/ Can("probe")
        /\ RestoreFails
     \/ /\ held.named => adapter = "none"
        /\ \/ Save([file EXCEPT !.named = FALSE]) /\ UNCHANGED failed
           \/ /\ Can("disk")
              /\ failed' = TRUE
              /\ file' \in {file, [file EXCEPT !.named = FALSE]}
        /\ Goto(IF held.after = None THEN "close" ELSE "compare")
        /\ UNCHANGED <<memory, held>>
  /\ UNCHANGED <<dns, adapter, alive, history>>

(* Mutant: given back without the comparison.                              *)
CompareNot ==
  /\ At("compare")
  /\ Goto("giveBack")
  /\ UNCHANGED <<dns, adapter, file, alive, memory, held, failed, history>>

(* Compare before restore; somebody else's change is kept and reported.    *)
Compare ==
  /\ At("compare")
  /\ \/ /\ dns = held.after /\ Goto("giveBack")
        /\ UNCHANGED <<file, memory, held, failed>>
     \/ /\ dns # held.after /\ failed' = TRUE /\ Goto("close")
        /\ UNCHANGED <<file, memory, held>>
     \/ /\ Can("probe")
        /\ RestoreFails
  /\ UNCHANGED <<dns, adapter, alive, history>>

GiveBack ==
  /\ At("giveBack")
  /\ SetDns(held.before,
            Goto("forget") /\ UNCHANGED failed,
            Goto("close") /\ failed' = TRUE)
  /\ UNCHANGED <<adapter, file, alive, memory, held, history>>

Forget ==
  /\ At("forget")
  /\ \/ Save([file EXCEPT !.before = None, !.after = None]) /\ UNCHANGED failed
     \/ Can("disk") /\ failed' = TRUE /\ UNCHANGED file
  /\ Goto("close")
  /\ UNCHANGED <<dns, adapter, alive, memory, held, history>>

(* The journal is closed only behind a restore without any error, a        *)
(* disable's stop of the controller and a recovery's second verification.  *)
(* An exit finishes even when the record cannot be written.                *)
Close ==
  /\ At("close")
  /\ IF failed THEN RestoreFails
     ELSE \/ /\ job = "recover" => ~Owned(held)
             /\ Save(Closed)
             /\ IF job = "undo" THEN EnableFails ELSE Finish(FALSE) /\ Return
          \/ /\ job = "undo"
             /\ Save(Marked("error")) /\ EnableFails
          \/ /\ \/ job = "recover" /\ (Owned(held) \/ Can("probe"))
                \/ job = "disable" /\ Can("stop")
             /\ RestoreFails
          \/ /\ Can("disk")
             /\ UNCHANGED file
             /\ CASE job = "undo" -> EnableFails
                  [] job = "disable" -> UNCHANGED memory /\ Return
                  [] job = "exit" -> Finish(FALSE) /\ Return
                  [] job = "recover" -> Fail(TRUE) /\ Return
  /\ UNCHANGED <<dns, adapter, alive, history>>
-----------------------------------------------------------------------------
(***************************************************************************)
(* Between jobs                                                            *)
(***************************************************************************)
(* Mutant: the watchdog does not take the lock.                            *)
HealUnlocked ==
  /\ alive /\ active
  /\ adapter = "up" /\ file.after # None /\ dns # file.after
  /\ dns' = file.after
  /\ owed' = file.before
  /\ UNCHANGED <<adapter, file, alive, memory, flow, slips>>

(* heal_tun_dns: under try_lock, with the capture intact and the resolvers *)
(* not what the journal says.  It takes every change for drift.            *)
Heal ==
  /\ At("idle") /\ active
  /\ adapter = "up" /\ file.after # None /\ dns # file.after
  /\ dns' = file.after
  /\ owed' = file.before
  /\ UNCHANGED <<adapter, file, alive, memory, flow, slips>>

(* Between a look and the write that relies on it, and up to the rollback, *)
(* which does not compare, a change is overwritten unseen.                 *)
Unseen == {"pointAtOurs", "recordDns", "probe", "rollbackDns", "giveBack"}

(* The user, DHCP or a wake sets the resolvers; a snapshot that holds ours *)
(* since an earlier slip still carries it.                                 *)
Change ==
  \E u \in Users :
    /\ dns' = u /\ dns # u
    /\ owed' = u
    /\ slips' = (IF Ours \in {file.before, held.before} THEN slips ELSE {})
                \cup (IF pc \in Unseen THEN {"overwritten"} ELSE {})
    /\ UNCHANGED <<adapter, file, alive, memory, flow>>

CoreExits ==
  /\ adapter \in {"up", "lingers"}
  /\ adapter' = "none"
  /\ UNCHANGED <<dns, file, alive, memory, flow, history>>

Crash ==
  /\ alive
  /\ alive' = FALSE
  /\ active' = FALSE /\ blocked' = FALSE
  /\ Return
  /\ slips' = IF dns = Ours /\ file.after = None THEN slips \cup {"unjournaled"} ELSE slips
  /\ UNCHANGED <<dns, adapter, file, owed>>

(* recover_launch_leftovers: a leftover core is stopped first, or not.     *)
Launch ==
  /\ ~alive
  /\ alive' = TRUE
  /\ StopCore(TRUE, TRUE)
  /\ UNCHANGED <<dns, file, memory, flow, history>>

Enabling ==
  \/ StartCore \/ NameInterface \/ ReadBefore \/ PointAtOurs \/ RecordDns \/ Probe
  \/ RollbackDns \/ Rollback \/ Verify

Restoring == Stop \/ AdapterGone \/ Compare \/ GiveBack \/ Forget \/ Close

Next ==
  \/ BeginEnable \/ BeginRelease \/ BeginRecover
  \/ Enabling \/ Restoring
  \/ Heal \/ Change \/ CoreExits \/ Crash \/ Launch

Spec == Init /\ [][Next]_vars
-----------------------------------------------------------------------------
(***************************************************************************)
(* Properties                                                              *)
(***************************************************************************)
TypeOK ==
  /\ dns \in Resolvers /\ owed \in Resolvers
  /\ adapter \in {"none", "up", "lingers"}
  /\ file \in [state : States, named : BOOLEAN, before : Resolvers \cup {None},
               after : {None, Ours}]
  /\ alive \in BOOLEAN /\ active \in BOOLEAN /\ blocked \in BOOLEAN
  /\ job \in Jobs
  /\ held \in [named : BOOLEAN, before : Resolvers \cup {None}, after : {None, Ours}]
  /\ failed \in BOOLEAN
  /\ slips \subseteq Slips

(* Resolvers that are ours can be given back: the journal holds what was   *)
(* there before, but for the step between the change and its record and    *)
(* for what was lost in it (apply sets the resolvers, then journals them). *)
ResolversRecoverable ==
  dns = Ours =>
    \/ Outstanding /\ file.after = Ours /\ file.before # None
    \/ pc \in {"recordDns", "rollbackDns"}
    \/ slips # {}

(* Once the journal says clean, the user has back what was there before    *)
(* the capture, or what was chosen since: through failed and repeated      *)
(* restores, rollbacks, crashes and self-heals ("compare before            *)
(* restoring", docs/tun.md), unless one of the two known slips occurred.   *)
CleanMeansGivenBack == ~Outstanding /\ slips = {} => dns = owed

(* Our resolvers are put in place by an enable or while a capture is       *)
(* claimed and journaled, never by anything else after it ended.           *)
HealsOnlyCaptures ==
  [][dns # Ours /\ dns' = Ours
       => \/ pc = "pointAtOurs"
          \/ active /\ job = "idle" /\ Outstanding
          \/ held.before = Ours]_vars
=============================================================================
