------------------------------ MODULE Shutdown ------------------------------
(***************************************************************************)
(* Quit, update, stop and start around the background workers              *)
(* (shutdown.rs, app_update.rs, application/core.rs, subscription_watch.rs *)
(* and rule_set_watch.rs of apps/desktop/src-tauri/src).                   *)
(*                                                                         *)
(* Quit and update pause the workers, raise shutdown_requested, take the   *)
(* orchestrate lock and tear the runtime down; a failure lowers the flag   *)
(* and ends the pause, a success leads to the end of the process.  A user  *)
(* can stop and start the service meanwhile.  A worker's pass does its     *)
(* slow I/O without the lock, and applies the outcome under it.            *)
(***************************************************************************)
EXTENDS WorkerSupervisor

CONSTANT Nobody  (* the orchestrate lock is free                           *)

VARIABLES
  actor,      (* where each use case is                                    *)
  requested,  (* AppState::shutdown_requested                              *)
  orch,       (* who holds the orchestrate lock                            *)
  torn,       (* history: who tore it down for good and did not give up    *)
  gone        (* shutdown returned with no worker left                     *)

runtime == <<requested, orch, torn, gone>>
vars == <<supervisorVars, actor, runtime>>

Actors == {"quit", "update", "stop", "start"}
Stages == {"idle", "paused", "signal", "lock", "locked", "starting", "failed",
           "down", "install", "joining", "returned", "giveUp", "exiting"}

ASSUME ShutdownAssumption ==
  /\ Workers \cap Actors = {}
  /\ Nobody \notin Workers \cup Actors

Is(a, stage) == actor[a] = stage
Move(a, stage) == actor' = [actor EXCEPT ![a] = stage]
Lock(who) == orch = Nobody /\ orch' = who
Unlock == orch' = Nobody

Init ==
  /\ SupervisorInit
  /\ actor = [a \in Actors |-> "idle"]
  /\ requested = FALSE /\ orch = Nobody
  /\ torn = {} /\ gone = FALSE
-----------------------------------------------------------------------------
(***************************************************************************)
(* Quit and update: pause, signal, lock, tear down                         *)
(***************************************************************************)

(* Update pauses for the installation, then again for its stop.            *)
BeginPause(a) ==
  /\ \/ a = "quit" /\ Is(a, "idle") /\ Move(a, "signal")
     \/ a = "update" /\ Is(a, "idle") /\ Move(a, "paused")
     \/ a = "update" /\ Is(a, "paused") /\ Move(a, "signal")
  /\ Pause
  /\ UNCHANGED runtime

RaiseSignal(a) ==
  /\ Is(a, "signal")
  /\ requested' = TRUE
  /\ Move(a, "lock")
  /\ UNCHANGED <<supervisorVars, orch, torn, gone>>

TakeLock(a) ==
  /\ Is(a, "lock")
  /\ Lock(a)
  /\ Move(a, "locked")
  /\ UNCHANGED <<supervisorVars, requested, torn, gone>>

(* stop_with_persistent_shutdown_signal                                    *)
TearDown(a) ==
  /\ a \in {"quit", "update"}
  /\ Is(a, "locked")
  /\ \/ torn' = torn \cup {a}
        /\ UNCHANGED requested
        /\ Move(a, "down")
     \/ requested' = FALSE
        /\ UNCHANGED torn
        /\ Move(a, "failed")
  /\ Unlock
  /\ UNCHANGED <<supervisorVars, gone>>

(* The guard of a failed quit is dropped; update drops its inner one after *)
(* the stop and its outer one when it gives up.                            *)
EndPause(a) ==
  /\ \/ a = "quit" /\ Is(a, "failed") /\ Move(a, "idle")
     \/ a = "quit" /\ Is(a, "returned") /\ Move(a, "exiting")
     \/ a = "update" /\ Is(a, "failed") /\ Move(a, "giveUp")
     \/ a = "update" /\ Is(a, "down") /\ Move(a, "install")
     \/ a = "update" /\ Is(a, "giveUp") /\ Move(a, "idle")
  /\ Unpause
  /\ UNCHANGED runtime

(* clear_shutdown_request after an installation that failed.               *)
InstallFails ==
  /\ Is("update", "install")
  /\ requested' = FALSE
  /\ torn' = torn \ {"update"}
  /\ Move("update", "giveUp")
  /\ UNCHANGED <<supervisorVars, orch, gone>>

(* A quit and the restart of a finished installation end the workers.      *)
CancelWorkers(a) ==
  /\ Is(a, IF a = "quit" THEN "down" ELSE "install")
  /\ StopWorkers
  /\ Move(a, "joining")
  /\ UNCHANGED runtime

(* shutdown looks at the list again and again until its budget is spent.   *)
JoinRound(a) ==
  /\ Is(a, "joining")
  /\ JoinWorkers
  /\ gone' = (gone \/ roster' = {})
  /\ IF roster' = {} THEN Move(a, "returned") ELSE UNCHANGED actor
  /\ UNCHANGED <<requested, orch, torn>>

BudgetSpent(a) ==
  /\ Is(a, "joining")
  /\ Move(a, "returned")
  /\ UNCHANGED <<supervisorVars, runtime>>
-----------------------------------------------------------------------------
(***************************************************************************)
(* Stop and start by the user                                              *)
(***************************************************************************)

(* stop_core_with_binary: the flag is lowered whatever the outcome.        *)
BeginStop ==
  /\ Is("stop", "idle")
  /\ requested' = TRUE
  /\ Move("stop", "lock")
  /\ UNCHANGED <<supervisorVars, orch, torn, gone>>

StopCore ==
  /\ Is("stop", "locked")
  /\ requested' = FALSE
  /\ Unlock
  /\ Move("stop", "idle")
  /\ UNCHANGED <<supervisorVars, torn, gone>>

BeginStart ==
  /\ Is("start", "idle")
  /\ Move("start", "lock")
  /\ UNCHANGED <<supervisorVars, runtime>>

(* start_service: ensure_start_is_allowed is its first call under the lock.*)
StartAllowed ==
  /\ Is("start", "locked")
  /\ IF requested THEN Move("start", "idle") /\ Unlock
                  ELSE Move("start", "starting") /\ UNCHANGED orch
  /\ UNCHANGED <<supervisorVars, requested, torn, gone>>

StartCore ==
  /\ Is("start", "starting")
  /\ Unlock
  /\ Move("start", "idle")
  /\ UNCHANGED <<supervisorVars, requested, torn, gone>>
-----------------------------------------------------------------------------
(***************************************************************************)
(* A worker's pass: auto_update_due, refresh_pass                          *)
(***************************************************************************)
Idling == <<phase, list, signal>>

PassBegins(w) ==
  /\ w # Waiter
  /\ At(w, "work")
  /\ Free
  /\ ~PausedOrStopping
  /\ Go(w, "fetch")
  /\ UNCHANGED <<Idling, wait, actor, runtime>>

(* try_lock: a busy lock defers the outcome to a later pass.               *)
PassLocks(w) ==
  /\ At(w, "fetch")
  /\ \/ Lock(w) /\ Go(w, "recheck") /\ UNCHANGED wait
     \/ orch # Nobody /\ NextWait(w) /\ UNCHANGED orch
  /\ UNCHANGED <<Idling, actor, requested, torn, gone>>

(* Mutant: what was seen before the slow I/O is not looked at again.       *)
PassRechecksNot(w) ==
  /\ At(w, "recheck")
  /\ Go(w, "apply")
  /\ UNCHANGED <<Idling, wait, actor, runtime>>

PassRechecks(w) ==
  /\ At(w, "recheck")
  /\ Free
  /\ \/ /\ ~PausedOrStopping
        /\ Go(w, "apply")
        /\ UNCHANGED <<wait, orch>>
     \/ /\ PausedOrStopping
        /\ NextWait(w)
        /\ Unlock
  /\ UNCHANGED <<Idling, actor, requested, torn, gone>>

PassApplies(w) ==
  /\ At(w, "apply")
  /\ NextWait(w)
  /\ Unlock
  /\ UNCHANGED <<Idling, actor, requested, torn, gone>>
-----------------------------------------------------------------------------
Others == UNCHANGED <<actor, runtime>>

WorkerStep(w) ==
  (SpawnListed(w) \/ Check(w) \/ Park(w) \/ Sleep(w)) /\ Others

WorkerEvent(w) == (Spawn(w) \/ Timeout(w) \/ Panic(w)) /\ Others

WakerStep(k) == (WakeFind(k) \/ WakeSync(k) \/ WakeNotify(k)) /\ Others

WakerEvent(k) == Wake(k) /\ Others

Pass(w) ==
  PassBegins(w) \/ PassLocks(w) \/ PassRechecks(w) \/ PassApplies(w)

UseCase ==
  \/ \E a \in Actors : \/ BeginPause(a) \/ RaiseSignal(a) \/ TakeLock(a)
                       \/ TearDown(a) \/ EndPause(a) \/ CancelWorkers(a)
                       \/ JoinRound(a) \/ BudgetSpent(a)
  \/ InstallFails
  \/ BeginStop \/ StopCore \/ BeginStart \/ StartAllowed \/ StartCore

Next ==
  \/ \E w \in Workers : WorkerStep(w) \/ WorkerEvent(w) \/ Pass(w)
  \/ \E k \in Wakers : WakerStep(k) \/ WakerEvent(k)
  \/ UseCase

Spec == Init /\ [][Next]_vars
-----------------------------------------------------------------------------
(***************************************************************************)
(* Properties                                                              *)
(***************************************************************************)
TypeOK ==
  /\ stopping \in BOOLEAN /\ pauses \in 0..3
  /\ holder \in Workers \cup {NoWorker}
  /\ roster \in SUBSET Workers /\ spawning \in Workers \cup {NoWorker}
  /\ thread \in [Workers -> ThreadStates]
  /\ wait \in [Workers -> {"top", "sleep", "retry"}]
  /\ pending \in BOOLEAN /\ bound \in BOOLEAN
  /\ waker \in [Wakers -> WakerSteps]
  /\ actor \in [Actors -> Stages]
  /\ requested \in BOOLEAN
  /\ orch \in Actors \cup Workers \cup {Nobody}
  /\ torn \in SUBSET {"quit", "update"} /\ gone \in BOOLEAN

(* A wake is never lost: while it is pending and the waiter sleeps on its  *)
(* timer, somebody is on the way to notify it (WakeSignal::wake: "cannot   *)
(* slip between the check and the wait").                                  *)
NoLostWake ==
  pending /\ At(Waiter, "asleep") /\ wait[Waiter] = "sleep"
    => \E k \in Wakers : waker[k] # "idle"

(* Work that was fetched before a quit or an update is not applied after   *)
(* the runtime was torn down (auto_update_due: "never apply after          *)
(* teardown").                                                             *)
NoApplyAfterTeardown == torn # {} => \A w \in Workers : ~At(w, "apply")

(* When shutdown returns no name, no worker lives and none can be started. *)
GoneForGood == gone => \A w \in Workers : ~Alive(w) /\ spawning # w

(* Once the runtime is torn down for a quit or an update it stays down     *)
(* until the update gives up (shutdown.rs, test: "auto-start must remain   *)
(* cancelled while the updater replaces the app").                         *)
StaysDown == torn # {} => ~Is("start", "starting")

(* A cancellation ends every sleep at once, an hourly one too, and a pause *)
(* as well (wait: "cancellation interrupts even an hourly timer").         *)
NobodySleepsOn ==
  stopping => \A w \in Workers : ~At(w, "asleep") /\ ~At(w, "paused")
=============================================================================
