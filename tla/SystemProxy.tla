---------------------------- MODULE SystemProxy -----------------------------
(***************************************************************************)
(* The OS system proxy and the record that lets ice-box undo it            *)
(* (crates/ice-proxy-sys, and the callers in orchestrate.rs).              *)
(*                                                                         *)
(* proxy-backup.json holds the user's setting and two flags, written       *)
(* atomically.  Every operation is a sequence of file and OS calls; the    *)
(* process can die between any two of them, each call can fail, and a      *)
(* failed OS call can leave the setting half changed.  A restore can also  *)
(* answer Ok with nothing, or not everything, put back.  The app's callers *)
(* hold the state.proxy mutex for a whole operation, so the app is one     *)
(* actor.  The Windows session-end thread (session_end.rs) uses a backend  *)
(* of its own and takes no mutex: it is the second actor.                  *)
(***************************************************************************)
CONSTANTS
  Originals,      (* settings a user can have                              *)
  NoProxy,        (* the one of them with every proxy off                  *)
  Endpoints,      (* this installation's inbound, one per configured port  *)
  Partial,        (* a mixture left by a failed apply or restore           *)
  NoHint,         (* recovery called without endpoints                     *)
  Corruption,     (* can the record become unreadable?                     *)
  SessionEndHook  (* Windows: is the session-end thread installed?         *)

ASSUME ProxyAssumption ==
  /\ NoProxy \in Originals
  /\ Originals \cap Endpoints = {}
  /\ Partial \notin Originals \cup Endpoints
  /\ NoHint \notin Endpoints
  /\ Corruption \in BOOLEAN
  /\ SessionEndHook \in BOOLEAN

Settings == Originals \cup Endpoints \cup {Partial}
Actor == {"app", "session"}
Flags == {"missing", "corrupt", "clear", "pending", "applied"}
Steps == {"idle", "restore", "saveCleared", "resetDefaults", "writeClean",
          "snapshot", "savePending", "apply", "saveApplied", "rollback",
          "saveStuck"}

VARIABLES
  up,     (* is the app process running?                                   *)
  os,     (* the OS proxy setting                                          *)
  file,   (* proxy-backup.json: its flags as one value, and the backup     *)
  pc,     (* the call each actor makes next                                *)
  held,   (* the backup each actor holds in memory                         *)
  cont,   (* where an actor goes once the record is clear                  *)
  ep,     (* the endpoints the app is applying                             *)
  owed,   (* history: the user's own setting, the one to be given back     *)
  skipped,(* history: whose last restore answered Ok but passed over some  *)
  loan    (* history: was the record let go on such an answer?             *)

history == <<owed, skipped, loan>>
vars == <<up, os, file, pc, held, cont, ep, history>>

Forfeited == loan = "forfeited"
Flagged == file.flag \in {"pending", "applied"}
Record(flag, backup) == [flag |-> flag, backup |-> backup]

Go(a, step) == pc' = [pc EXCEPT ![a] = step]
At(a, step) == pc[a] = step
Idle(a) == At(a, "idle")

(* Does the live setting point at e?  A mixture can look either way.       *)
LooksLike(e) ==
  CASE os = e       -> {TRUE}
    [] os = Partial -> BOOLEAN
    [] OTHER        -> {FALSE}

(* What an OS write to target can leave behind when it reports failure.    *)
FailedWrite(target) == {os, Partial, target}

(* What a restore of target can leave behind when it reports success.  The *)
(* services that are not listed as enabled are passed over, which is every *)
(* one of them when the listing fails; on Windows, the connections and the *)
(* WinHTTP setting that cannot be written.                                 *)
Restored(a, target) ==
  /\ os' \in {os, Partial, target}
  /\ skipped' = IF os' = target THEN skipped \ {a} ELSE skipped \cup {a}
-----------------------------------------------------------------------------
Init ==
  /\ up = FALSE
  /\ os \in Originals
  /\ file = Record("missing", NoProxy)
  /\ pc = [a \in Actor |-> "idle"]
  /\ held = [a \in Actor |-> NoProxy]
  /\ cont = [a \in Actor |-> "idle"]
  /\ ep \in Endpoints
  /\ owed = os /\ skipped = {} /\ loan = "kept"

(* Mutant: an interrupted apply (pending) is not taken for ours.           *)
BeginRestoreAppliedOnly(a, hint, next) ==
  /\ cont' = [cont EXCEPT ![a] = next]
  /\ IF file.flag = "applied"
       THEN Go(a, "restore") /\ held' = [held EXCEPT ![a] = file.backup]
       ELSE Go(a, next) /\ UNCHANGED held
  /\ UNCHANGED <<os, file, history>>

(* restore_and_clear_flag and recover_if_applied_hinted up to their first  *)
(* OS or file write; next is where the caller goes when they return Ok.    *)
BeginRestore(a, hint, next) ==
  /\ cont' = [cont EXCEPT ![a] = next]
  /\ \/ /\ Flagged
        /\ Go(a, "restore")
        /\ held' = [held EXCEPT ![a] = file.backup]
     \/ /\ file.flag = "corrupt"
        /\ \/ \E ours \in (IF hint = NoHint THEN {FALSE} ELSE LooksLike(hint)) :
                Go(a, IF ours THEN "resetDefaults" ELSE "writeClean")
           \/ Go(a, "idle")  \* the live setting could not be read
        /\ UNCHANGED held
     \/ /\ file.flag \in {"missing", "clear"}
        /\ Go(a, next)
        /\ UNCHANGED held
  /\ UNCHANGED <<os, file, history>>

(* Launch: recover_launch_leftovers; unreadable settings give no hint.     *)
Launch ==
  /\ ~up
  /\ up' = TRUE
  /\ \E hint \in Endpoints \cup {NoHint} : BeginRestore("app", hint, "idle")
  /\ UNCHANGED ep

(* Mutant: enable trusts any record that is not flagged and skips recovery.*)
EnableSystemProxyAtOnce(e) ==
  /\ up
  /\ Idle("app")
  /\ ~Flagged
  /\ ep' = e
  /\ held' = [held EXCEPT !["app"] = os]
  /\ Go("app", "savePending")
  /\ UNCHANGED <<up, os, file, cont, history>>

(* orchestrate_enable_system_proxy, past its "already live" early return.  *)
EnableSystemProxy(e) ==
  /\ up
  /\ Idle("app")
  /\ ep' = e
  /\ BeginRestore("app", e, "snapshot")
  /\ UNCHANGED up

(* sync_system_proxy_after_reload: the inbound changed while applied.      *)
SyncAfterReload(e) ==
  /\ up
  /\ Idle("app")
  /\ \/ file.flag = "applied"
     \/ file.flag = "corrupt" /\ TRUE \in LooksLike(e)
  /\ ep' = e
  /\ BeginRestore("app", NoHint, "snapshot")
  /\ UNCHANGED up

(* Disable, stop and the watchdog all restore without endpoints.           *)
Disable ==
  /\ up
  /\ Idle("app")
  /\ BeginRestore("app", NoHint, "idle")
  /\ UNCHANGED <<up, ep>>

SessionEnd ==
  /\ SessionEndHook
  /\ up
  /\ Idle("session")
  /\ BeginRestore("session", NoHint, "idle")
  /\ UNCHANGED <<up, ep>>
-----------------------------------------------------------------------------
(* Mutant: restoring switches every proxy off.                             *)
RestoreOkAllOff(a) ==
  /\ At(a, "restore")
  /\ os' = NoProxy
  /\ skipped' = skipped \ {a}
  /\ Go(a, "saveCleared")
  /\ UNCHANGED <<up, file, held, cont, ep, owed, loan>>

(* Mutant: a failed restore clears the record all the same.                *)
RestoreFailsUnchecked(a) ==
  /\ At(a, "restore")
  /\ os' \in FailedWrite(held[a])
  /\ Go(a, "saveCleared")
  /\ UNCHANGED <<up, file, held, cont, ep, history>>

RestoreOk(a) ==
  /\ At(a, "restore")
  /\ Restored(a, held[a])
  /\ Go(a, "saveCleared")
  /\ UNCHANGED <<up, file, held, cont, ep, owed, loan>>

RestoreFails(a) ==
  /\ At(a, "restore")
  /\ os' \in FailedWrite(held[a])
  /\ Go(a, "idle")
  /\ UNCHANGED <<up, file, held, cont, ep, history>>

SaveCleared(a) ==
  /\ At(a, "saveCleared")
  /\ file' = Record("clear", held[a])
  /\ loan' = IF a \in skipped THEN "forfeited" ELSE loan
  /\ Go(a, cont[a])
  /\ UNCHANGED <<up, os, held, cont, ep, owed, skipped>>

(* recover_unknown_backup, the branch that believes the setting is ours:   *)
(* off on every enabled service, the others keep what they have.           *)
ResetDefaultsOk(a) ==
  /\ At(a, "resetDefaults")
  /\ os' \in {NoProxy, Partial}
  /\ Go(a, "writeClean")
  /\ UNCHANGED <<up, file, held, cont, ep, history>>

ResetDefaultsFails(a) ==
  /\ At(a, "resetDefaults")
  /\ os' \in FailedWrite(NoProxy)
  /\ Go(a, "idle")
  /\ UNCHANGED <<up, file, held, cont, ep, history>>

WriteClean(a) ==
  /\ At(a, "writeClean")
  /\ file' = Record("clear", NoProxy)
  /\ Go(a, cont[a])
  /\ UNCHANGED <<up, os, held, cont, ep, history>>
-----------------------------------------------------------------------------
(* apply_and_record, one action per call it makes.                         *)
Snapshot ==
  /\ At("app", "snapshot")
  /\ IF Flagged \/ file.flag = "corrupt"
       THEN Go("app", "idle") /\ UNCHANGED held
       ELSE Go("app", "savePending") /\ held' = [held EXCEPT !["app"] = os]
  /\ UNCHANGED <<up, os, file, cont, ep, history>>

(* Mutant: nothing is written before the OS is changed.                    *)
SavePendingSkipped ==
  /\ At("app", "savePending")
  /\ Go("app", "apply")
  /\ UNCHANGED <<up, os, file, held, cont, ep, history>>


SavePending ==
  /\ At("app", "savePending")
  /\ file' = Record("pending", held["app"])
  /\ Go("app", "apply")
  /\ UNCHANGED <<up, os, held, cont, ep, history>>

ApplyOk ==
  /\ At("app", "apply")
  /\ os' = ep
  /\ Go("app", "saveApplied")
  /\ UNCHANGED <<up, file, held, cont, ep, history>>

ApplyFails ==
  /\ At("app", "apply")
  /\ os' \in FailedWrite(ep)
  /\ Go("app", "rollback")
  /\ UNCHANGED <<up, file, held, cont, ep, history>>

SaveApplied ==
  /\ At("app", "saveApplied")
  /\ file' = Record("applied", held["app"])
  /\ Go("app", "idle")
  /\ UNCHANGED <<up, os, held, cont, ep, history>>

RollbackOk ==
  /\ At("app", "rollback")
  /\ Restored("app", held["app"])
  /\ Go("app", "saveCleared")
  /\ cont' = [cont EXCEPT !["app"] = "idle"]
  /\ UNCHANGED <<up, file, held, ep, owed, loan>>

RollbackFails ==
  /\ At("app", "rollback")
  /\ os' \in FailedWrite(held["app"])
  /\ Go("app", "saveStuck")
  /\ UNCHANGED <<up, file, held, cont, ep, history>>

SaveStuck ==
  /\ At("app", "saveStuck")
  /\ file' = Record("pending", held["app"])
  /\ Go("app", "idle")
  /\ UNCHANGED <<up, os, held, cont, ep, history>>

(* A snapshot that cannot be read or a record that cannot be written ends  *)
(* the operation with what was done so far (the `?` after backup and save).*)
CallFails(a) ==
  /\ pc[a] \in {"saveCleared", "writeClean", "snapshot", "savePending",
                "saveApplied", "saveStuck"}
  /\ Go(a, "idle")
  /\ UNCHANGED <<up, os, file, held, cont, ep, history>>
-----------------------------------------------------------------------------
(* The environment: the process dies, the user edits the OS setting while  *)
(* no operation runs, the record becomes unreadable.                       *)
Crash ==
  /\ up
  /\ up' = FALSE
  /\ pc' = [a \in Actor |-> "idle"]
  /\ UNCHANGED <<os, file, held, cont, ep, history>>

UserEdits(u) ==
  /\ \A a \in Actor : Idle(a)
  /\ os' = u
  /\ owed' = IF Flagged THEN owed ELSE u
  /\ loan' = IF Flagged THEN loan ELSE "kept"
  /\ UNCHANGED <<up, file, pc, held, cont, ep, skipped>>

Corrupt ==
  /\ Corruption
  /\ \A a \in Actor : Idle(a)
  /\ file.flag # "missing"
  /\ file' = Record("corrupt", NoProxy)
  /\ UNCHANGED <<up, os, pc, held, cont, ep, history>>

RestoreStep(a) ==
  \/ RestoreOk(a)
  \/ RestoreFails(a)
  \/ SaveCleared(a)
  \/ ResetDefaultsOk(a)
  \/ ResetDefaultsFails(a)
  \/ WriteClean(a)
  \/ CallFails(a)

ApplyStep ==
  \/ Snapshot
  \/ SavePending
  \/ ApplyOk
  \/ ApplyFails
  \/ SaveApplied
  \/ RollbackOk
  \/ RollbackFails
  \/ SaveStuck

Next ==
  \/ Launch
  \/ \E e \in Endpoints : EnableSystemProxy(e)
  \/ \E e \in Endpoints : SyncAfterReload(e)
  \/ Disable
  \/ SessionEnd
  \/ \E a \in Actor : RestoreStep(a)
  \/ ApplyStep
  \/ Crash
  \/ \E u \in Originals : UserEdits(u)
  \/ Corrupt

Spec == Init /\ [][Next]_vars

(* The user eventually stops the service or starts the app again, and the  *)
(* OS and the disk do not refuse the same call for ever.                   *)
Fairness ==
  /\ SF_vars(Launch)
  /\ SF_vars(Disable)
  /\ SF_vars(RestoreOk("app"))
  /\ SF_vars(SaveCleared("app"))
  /\ WF_vars(ApplyStep)

FairSpec == Spec /\ Fairness
-----------------------------------------------------------------------------
(***************************************************************************)
(* Properties                                                              *)
(***************************************************************************)
TypeOK ==
  /\ up \in BOOLEAN
  /\ os \in Settings
  /\ file \in [flag : Flags, backup : Settings]
  /\ pc \in [Actor -> Steps]
  /\ held \in [Actor -> Settings]
  /\ cont \in [Actor -> {"idle", "snapshot"}]
  /\ ep \in Endpoints
  /\ owed \in Originals
  /\ skipped \subseteq Actor
  /\ loan \in {"kept", "forfeited"}

(* Whenever the OS does not use a setting of the user's, the record on     *)
(* disk says so and holds the setting to give back, whatever call failed   *)
(* and wherever the process died (record.rs apply_and_record's order).     *)
(* The one exception: a restore that passed services over answered Ok, the *)
(* record was let go on that answer, and the user has not chosen since.    *)
UserSettingRecoverable ==
  os \notin Originals => Forfeited \/ (Flagged /\ file.backup = owed)

(* The backup in an outstanding record is a setting of the user's, never   *)
(* ice-box's own endpoints (record.rs: refuse to snapshot while applied),  *)
(* with the same exception.                                                *)
BackupIsUsers ==
  Flagged => Forfeited \/ file.backup \in Originals

(* An operation that lands the OS on a user setting lands it on the one    *)
(* owed; only the reset after an unreadable record may turn proxies off,   *)
(* and nothing is owed any more once the record was let go too early.      *)
GivesBackTheOwed ==
  [][(\E a \in Actor : ~Idle(a)) /\ os' # os /\ os' \in Originals
       => os' = owed \/ file.flag = "corrupt" \/ Forfeited]_vars

(* macos.rs restore, when the services cannot be listed: "fall back to     *)
(* restoring every backed-up service" and "restoring all backed-up         *)
(* services".  So an applied record is let go only with the OS off         *)
(* ice-box's endpoints.  Does not hold: every service is passed over.      *)
LetGoOnlyRestored ==
  [][file.flag = "applied" /\ ~Flagged' => os' \notin Endpoints]_vars

(* An unreadable record is never read as "not applied": only a clean       *)
(* record replaces it, and nothing is applied over it.                     *)
NothingAppliedOverCorrupt ==
  [][file.flag = "corrupt"
       => /\ file'.flag \in {"corrupt", "clear"}
          /\ os' \notin Endpoints \/ os' = os]_vars

(* No state traps the record: an outstanding one is eventually cleared.    *)
RecordEventuallyClears == Flagged ~> ~Flagged

(* The same operations seen as a loan of the user's setting.               *)
Captured == Partial
Lease == INSTANCE ProxyLease
           WITH setting <- (IF os \in Originals THEN os ELSE Captured),
                lent <- Flagged,
                forfeited <- Forfeited
ImplementsLease == Lease!Spec
=============================================================================
