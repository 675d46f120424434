--------------------------- MODULE ShutdownProofs ---------------------------
(***************************************************************************)
(* Proofs about Shutdown for any set of workers and of wakers: the types   *)
(* and the four safety properties of its run, from one inductive invariant *)
(* with a part for each mechanism of the code.                             *)
(***************************************************************************)
EXTENDS Shutdown, TLAPS

(* The pause guards that each use case holds at each of its stages.        *)
QuitGuards ==
  IF actor["quit"] \in {"idle", "exiting"} THEN 0 ELSE 1
UpdateGuards ==
  IF actor["update"] = "idle" THEN 0
  ELSE IF actor["update"] \in {"paused", "giveUp", "install", "joining", "returned"} THEN 1
  ELSE 2

QuitStages == {"idle", "signal", "lock", "locked", "failed", "down",
               "joining", "returned", "exiting"}
UpdateStages == {"idle", "paused", "signal", "lock", "locked", "failed",
                 "down", "install", "giveUp", "joining", "returned"}

Typed ==
  /\ stopping \in BOOLEAN /\ pauses \in Nat
  /\ holder \in Workers \cup {NoWorker}
  /\ roster \in SUBSET Workers /\ spawning \in Workers \cup {NoWorker}
  /\ thread \in [Workers -> ThreadStates]
  /\ wait \in [Workers -> {"top", "sleep", "retry"}]
  /\ pending \in BOOLEAN /\ bound \in BOOLEAN
  /\ waker \in [Wakers -> WakerSteps]
  /\ actor \in [Actors -> Stages]
  /\ requested \in BOOLEAN
  /\ orch \in Actors \cup Workers \cup {Nobody}
  /\ torn \in SUBSET {"quit", "update"} /\ gone \in BOOLEAN

Staged ==
  /\ actor["quit"] \in QuitStages
  /\ actor["update"] \in UpdateStages
  /\ actor["stop"] \in {"idle", "lock", "locked"}
  /\ actor["start"] \in {"idle", "lock", "locked", "starting"}

(* Every pause is a guard that somebody still holds.                       *)
Guarded == pauses = QuitGuards + UpdateGuards

(* Who tore the runtime down has gone on and not back, and the workers     *)
(* are cancelled before anybody joins them.                                *)
Ending ==
  /\ "quit" \in torn => actor["quit"] \in {"down", "joining", "returned", "exiting"}
  /\ "update" \in torn => actor["update"] \in {"down", "install", "joining", "returned"}
  /\ actor["quit"] \in {"joining", "returned", "exiting"} => stopping
  /\ actor["update"] \in {"joining", "returned"} => stopping

(* The orchestrate lock is held where the code believes it holds it.       *)
Locked ==
  /\ \A w \in Workers : thread[w] \in {"recheck", "apply"} => orch = w
  /\ \A a \in Actors : actor[a] \in {"locked", "starting"} => orch = a

(* The phase mutex is held between the check and the wait, and nobody goes *)
(* to sleep after the cancellation.                                        *)
Awake ==
  /\ \A w \in Workers : At(w, "parking") => holder = w
  /\ stopping => \A w \in Workers : thread[w] \notin {"parking", "asleep", "paused"}

(* Every living thread is listed; when shutdown found none, none is left.  *)
Joined ==
  /\ \A w \in Workers : Alive(w) => w \in roster
  /\ gone => stopping

(* A pending wake has a waker on its way, and as long as the waiter holds  *)
(* the mutex that waker has not passed it.                                 *)
Waking ==
  /\ thread[Waiter] \notin {"fetch", "recheck", "apply"}
  /\ wait[Waiter] = "sleep" => bound
  /\ pending /\ At(Waiter, "parking") /\ wait[Waiter] = "sleep"
       => \E k \in Wakers : waker[k] \in {"stored", "found"}

ShutdownInv ==
  /\ Typed
  /\ Staged
  /\ Guarded
  /\ Ending
  /\ Locked
  /\ Awake
  /\ Joined
  /\ Waking
  /\ NoLostWake
  /\ NoApplyAfterTeardown
  /\ GoneForGood

LEMMA InitShutdownInv == Init => ShutdownInv
  <1> SUFFICES ASSUME Init PROVE ShutdownInv
    OBVIOUS
  <1>1. Typed /\ Staged
    BY DEF Init, SupervisorInit, Typed, Staged, ThreadStates, WakerSteps,
           Actors, Stages, QuitStages, UpdateStages
  <1>2. Guarded /\ Ending
    BY DEF Init, SupervisorInit, Guarded, Ending, QuitGuards, UpdateGuards,
           Actors
  <1>3. Locked /\ Awake /\ Joined /\ Waking
    BY SupervisorAssumption
       DEF Init, SupervisorInit, SupervisorAssumption, Locked, Awake, Joined,
           Waking, At, Alive
  <1>4. NoLostWake /\ NoApplyAfterTeardown /\ GoneForGood
    BY DEF Init, SupervisorInit, NoLostWake, NoApplyAfterTeardown, GoneForGood
  <1> QED BY <1>1, <1>2, <1>3, <1>4 DEF ShutdownInv

(* Who tore the runtime down still holds a guard or has ended the workers. *)
LEMMA TornIsPaused ==
  ASSUME Typed, Staged, Guarded, Ending, torn # {}
  PROVE  PausedOrStopping
  <1>1. CASE "quit" \in torn
    BY <1>1 DEF Typed, Guarded, Ending, QuitGuards, UpdateGuards,
                PausedOrStopping
  <1>2. CASE "update" \in torn
    BY <1>2 DEF Typed, Guarded, Ending, QuitGuards, UpdateGuards,
                PausedOrStopping
  <1> QED BY <1>1, <1>2 DEF Typed

(***************************************************************************)
(* The steps of the supervisor                                             *)
(***************************************************************************)
LEMMA CheckKeeps ==
  ASSUME ShutdownInv, NEW w \in Workers, Check(w), Others
  PROVE  ShutdownInv'
  <1> USE SupervisorAssumption
      DEF ShutdownInv, Typed, Check, Others, runtime, list, At, Go, Free
  <1>1. Typed'
    <2>1. thread' \in [Workers -> ThreadStates]
      BY DEF Resume, ThreadStates
    <2>2. wait' \in [Workers -> {"top", "sleep", "retry"}]
      BY DEF Resume
    <2>3. holder' \in Workers \cup {NoWorker}
      OBVIOUS
    <2>4. pending' \in BOOLEAN
      BY Zenon
    <2>5. UNCHANGED <<stopping, pauses, roster, spawning, bound, waker, actor,
                      requested, orch, torn, gone>>
      OBVIOUS
    <2> QED BY <2>1, <2>2, <2>3, <2>4, <2>5
  <1>2. Staged' /\ Guarded' /\ Ending'
    BY DEF Staged, Guarded, Ending, QuitGuards, UpdateGuards
  <1>3. Locked' /\ Joined' /\ NoApplyAfterTeardown' /\ GoneForGood'
    BY DEF Locked, Joined, NoApplyAfterTeardown, GoneForGood, Alive, Resume
  <1>4. Awake'
    BY DEF Awake, Resume, SupervisorAssumption
  <1>5. Waking' /\ NoLostWake'
    BY DEF Waking, NoLostWake, Resume, Woken, SupervisorAssumption
  <1> QED BY <1>1, <1>2, <1>3, <1>4, <1>5

LEMMA SupervisorKeeps ==
  ASSUME ShutdownInv, NEW w \in Workers, WorkerStep(w) \/ WorkerEvent(w)
  PROVE  ShutdownInv'
  <1> USE SupervisorAssumption
      DEF ShutdownInv, Others, runtime, At, Go
  <1>1. CASE Check(w) /\ Others
    BY <1>1, CheckKeeps
  <1>2. CASE Park(w) /\ Others
    <2>1. Typed' /\ Staged' /\ Guarded' /\ Ending'
      BY <1>2 DEF Park, Typed, ThreadStates, Staged, Guarded, Ending,
                  QuitGuards, UpdateGuards, list, signal
    <2>2. Locked' /\ Joined' /\ NoApplyAfterTeardown' /\ GoneForGood'
      BY <1>2 DEF Park, Typed, Locked, Joined, NoApplyAfterTeardown,
                  GoneForGood, Alive, list
    <2>3. Awake'
      BY <1>2 DEF Park, Typed, Awake
    <2>4. Waking' /\ NoLostWake'
      BY <1>2 DEF Park, Typed, Waking, NoLostWake, signal, WakerSteps,
                  SupervisorAssumption
    <2> QED BY <2>1, <2>2, <2>3, <2>4
  <1>3. CASE Timeout(w) /\ Others
    BY <1>3 DEF Timeout, Typed, ThreadStates, Staged, Guarded, Ending,
                QuitGuards, UpdateGuards, Locked, Joined, Awake, Waking,
                NoLostWake, NoApplyAfterTeardown, GoneForGood, Alive, phase,
                list, signal
  <1>4. CASE Sleep(w) /\ Others
    <2>1. Typed' /\ Staged' /\ Guarded' /\ Ending'
      BY <1>4 DEF Sleep, NextWait, Typed, ThreadStates, Staged, Guarded,
                  Ending, QuitGuards, UpdateGuards, phase, list
    <2>2. Locked' /\ Joined' /\ NoApplyAfterTeardown' /\ GoneForGood'
      BY <1>4 DEF Sleep, NextWait, Typed, Locked, Joined,
                  NoApplyAfterTeardown, GoneForGood, Alive, phase, list
    <2>3. Awake'
      BY <1>4 DEF Sleep, NextWait, Typed, Awake, phase
    <2>4. Waking' /\ NoLostWake'
      BY <1>4 DEF Sleep, NextWait, Typed, Waking, NoLostWake,
                  SupervisorAssumption
    <2> QED BY <2>1, <2>2, <2>3, <2>4
  <1>5. CASE Panic(w) /\ Others
    BY <1>5 DEF Panic, Notified, Typed, ThreadStates, Staged, Guarded, Ending,
                QuitGuards, UpdateGuards, Locked, Joined, Awake, Waking,
                NoLostWake, NoApplyAfterTeardown, GoneForGood, Alive, phase,
                list, signal
  <1>6. CASE Spawn(w) /\ Others
    BY <1>6 DEF Spawn, TakeList, Free, Typed, Staged, Guarded, Ending,
                QuitGuards, UpdateGuards, Locked, Joined, Awake, Waking,
                NoLostWake, NoApplyAfterTeardown, GoneForGood, Alive, phase,
                signal, threads
  <1>7. CASE SpawnListed(w) /\ Others
    BY <1>7 DEF SpawnListed, Typed, ThreadStates, Staged, Guarded, Ending,
                QuitGuards, UpdateGuards, Locked, Joined, Awake, Waking,
                NoLostWake, NoApplyAfterTeardown, GoneForGood, Alive, phase,
                signal
  <1> QED
    BY <1>1, <1>2, <1>3, <1>4, <1>5, <1>6, <1>7 DEF WorkerStep, WorkerEvent

LEMMA WakerKeeps ==
  ASSUME ShutdownInv, NEW k \in Wakers, WakerStep(k) \/ WakerEvent(k)
  PROVE  ShutdownInv'
  <1> USE SupervisorAssumption
      DEF ShutdownInv, Typed, Staged, Guarded, Ending, QuitGuards,
          UpdateGuards, Locked, Joined, Awake, Waking, NoLostWake,
          NoApplyAfterTeardown, GoneForGood, ThreadStates, WakerSteps, Alive,
          At, GoWaker, Others, runtime, phase, list, threads
  <1>1. CASE Wake(k) /\ Others
    BY <1>1 DEF Wake
  <1>2. CASE WakeFind(k) /\ Others
    BY <1>2 DEF WakeFind
  <1>3. CASE WakeSync(k) /\ Others
    BY <1>3 DEF WakeSync, Free, SupervisorAssumption
  <1>4. CASE WakeNotify(k) /\ Others
    BY <1>4 DEF WakeNotify, Notified
  <1> QED BY <1>1, <1>2, <1>3, <1>4 DEF WakerStep, WakerEvent

(***************************************************************************)
(* A worker's pass                                                         *)
(***************************************************************************)
LEMMA PassKeeps ==
  ASSUME ShutdownInv, NEW w \in Workers, Pass(w)
  PROVE  ShutdownInv'
  <1> USE SupervisorAssumption, ShutdownAssumption
      DEF ShutdownInv, ShutdownAssumption, Typed, Staged, Guarded, Ending,
          QuitGuards, UpdateGuards, Joined, Awake, Waking, NoLostWake,
          GoneForGood, ThreadStates, Alive, At, Go, NextWait, runtime, phase,
          list, signal, Idling
  <1>1. CASE PassBegins(w)
    BY <1>1 DEF PassBegins, Locked, NoApplyAfterTeardown
  <1>2. CASE PassLocks(w)
    BY <1>2 DEF PassLocks, Lock, Locked, NoApplyAfterTeardown
  <1>3. CASE PassRechecks(w)
    <2>1. NoApplyAfterTeardown'
      BY <1>3, TornIsPaused DEF PassRechecks, NoApplyAfterTeardown
    <2>2. Locked'
      BY <1>3 DEF PassRechecks, Unlock, Locked
    <2> QED BY <1>3, <2>1, <2>2 DEF PassRechecks, Unlock
  <1>4. CASE PassApplies(w)
    BY <1>4 DEF PassApplies, Unlock, Locked, NoApplyAfterTeardown
  <1> QED BY <1>1, <1>2, <1>3, <1>4 DEF Pass

(***************************************************************************)
(* The use cases                                                           *)
(***************************************************************************)
LEMMA PausesKeep ==
  ASSUME ShutdownInv, NEW a \in Actors, BeginPause(a) \/ EndPause(a)
  PROVE  ShutdownInv'
  <1> USE SupervisorAssumption, ShutdownAssumption
      DEF ShutdownInv, Typed, Staged, Guarded, Ending, QuitGuards,
          UpdateGuards, QuitStages, UpdateStages, Locked, Joined, Awake,
          Waking, NoLostWake, NoApplyAfterTeardown, GoneForGood, ThreadStates,
          Actors, Stages, Alive, At, Is, Move, Free, Notified, runtime, list,
          signal
  <1>1. CASE BeginPause(a)
    BY <1>1 DEF BeginPause, Pause
  <1>2. CASE EndPause(a)
    BY <1>2 DEF EndPause, Unpause
  <1> QED BY <1>1, <1>2

LEMMA TearDownKeeps ==
  ASSUME ShutdownInv, NEW a \in Actors, TearDown(a)
  PROVE  ShutdownInv'
  <1> USE ShutdownAssumption
      DEF ShutdownInv, TearDown, Actors, Is, Move, Unlock, supervisorVars,
          phase, list, signal, threads
  <1>1. Typed'
    <2>1. actor' \in [Actors -> Stages]
      BY DEF Typed, Stages
    <2>2. requested' \in BOOLEAN
      BY Zenon DEF Typed
    <2>3. torn' \in SUBSET {"quit", "update"}
      <3>1. a \in {"quit", "update"} /\ torn' \in {torn, torn \cup {a}}
        OBVIOUS
      <3> QED BY <3>1 DEF Typed
    <2> QED BY <2>1, <2>2, <2>3 DEF Typed
  <1>2. Staged' /\ Guarded' /\ Ending'
    BY DEF Typed, Staged, Guarded, Ending, QuitGuards, UpdateGuards,
           QuitStages, UpdateStages, Stages
  <1>3. Locked'
    BY DEF Typed, Locked, ShutdownAssumption
  <1>4. NoApplyAfterTeardown'
    <2>1. orch = a
      BY DEF Typed, Locked
    <2>2. \A w \in Workers : ~At(w, "apply")
      BY <2>1 DEF Locked, At, ShutdownAssumption
    <2> QED BY <2>2 DEF NoApplyAfterTeardown, At
  <1>5. Awake' /\ Joined' /\ Waking' /\ NoLostWake' /\ GoneForGood'
    BY DEF Awake, Joined, Waking, NoLostWake, GoneForGood, Alive, At
  <1> QED BY <1>1, <1>2, <1>3, <1>4, <1>5

LEMMA CancelKeeps ==
  ASSUME ShutdownInv, NEW a \in Actors,
         CancelWorkers(a) \/ JoinRound(a) \/ BudgetSpent(a)
  PROVE  ShutdownInv'
  <1> USE SupervisorAssumption
      DEF ShutdownInv, SupervisorAssumption, Typed, Staged, Guarded, Ending,
          QuitGuards, UpdateGuards, QuitStages, UpdateStages, Locked, Joined,
          Awake, Waking, NoLostWake, NoApplyAfterTeardown, GoneForGood,
          ThreadStates, Actors, Stages, Alive, At, Is, Move, runtime, phase,
          list, signal, threads
  <1>1. CASE CancelWorkers(a)
    BY <1>1 DEF CancelWorkers, StopWorkers, Free, Notified
  <1>2. CASE JoinRound(a)
    BY <1>2 DEF JoinRound, JoinWorkers
  <1>3. CASE BudgetSpent(a)
    BY <1>3 DEF BudgetSpent, supervisorVars
  <1> QED BY <1>1, <1>2, <1>3

LEMMA UseCaseKeeps ==
  ASSUME ShutdownInv, UseCase PROVE ShutdownInv'
  <1> USE ShutdownAssumption
      DEF ShutdownInv, ShutdownAssumption, Typed, Staged, Guarded, Ending,
          QuitGuards, UpdateGuards, QuitStages, UpdateStages, Locked, Actors,
          Stages, Is, Move, supervisorVars, phase, list, signal, threads
  (* The supervisor's own variables do not move in the cases below.        *)
  <1>1. ASSUME UNCHANGED <<supervisorVars, gone>> PROVE
          Awake' /\ Joined' /\ Waking' /\ NoLostWake' /\ GoneForGood'
    BY <1>1 DEF Awake, Joined, Waking, NoLostWake, GoneForGood, Alive, At
  <1>2. ASSUME UNCHANGED <<supervisorVars>>, torn' \subseteq torn PROVE
          NoApplyAfterTeardown'
    BY <1>2 DEF NoApplyAfterTeardown, At
  <1>3. ASSUME NEW a \in Actors, RaiseSignal(a) PROVE ShutdownInv'
    BY <1>3, <1>1, <1>2 DEF RaiseSignal
  <1>4. ASSUME NEW a \in Actors, TakeLock(a) PROVE ShutdownInv'
    BY <1>4, <1>1, <1>2 DEF TakeLock, Lock
  <1>5. CASE InstallFails
    <2>1. torn' \subseteq torn /\ torn' \subseteq {"quit"}
      BY <1>5 DEF InstallFails
    <2>2. Typed'
      <3>1. actor' \in [Actors -> Stages]
        BY <1>5 DEF InstallFails
      <3>2. requested' \in BOOLEAN
        BY <1>5, Zenon DEF InstallFails
      <3> QED BY <1>5, <2>1, <3>1, <3>2 DEF InstallFails
    <2>3. Staged' /\ Guarded' /\ Ending' /\ Locked'
      BY <1>5, <2>1 DEF InstallFails
    <2> QED BY <1>5, <2>1, <2>2, <2>3, <1>1, <1>2 DEF InstallFails
  <1>6. CASE BeginStop
    BY <1>6, <1>1, <1>2 DEF BeginStop
  <1>7. CASE StopCore
    <2>1. orch = "stop" /\ orch' = Nobody
      BY <1>7 DEF StopCore, Unlock
    <2>2. Locked'
      BY <1>7, <2>1 DEF StopCore
    <2>3. Typed'
      <3>1. actor' \in [Actors -> Stages]
        BY <1>7 DEF StopCore
      <3>2. requested' \in BOOLEAN
        BY <1>7, Zenon DEF StopCore
      <3> QED BY <1>7, <2>1, <3>1, <3>2 DEF StopCore
    <2>4. Staged' /\ Guarded' /\ Ending'
      BY <1>7 DEF StopCore
    <2> QED BY <1>7, <2>2, <2>3, <2>4, <1>1, <1>2 DEF StopCore
  <1>8. CASE BeginStart
    BY <1>8, <1>1, <1>2 DEF BeginStart, runtime
  <1>9. CASE StartAllowed
    BY <1>9, <1>1, <1>2 DEF StartAllowed, Unlock
  <1>10. CASE StartCore
    BY <1>10, <1>1, <1>2 DEF StartCore, Unlock
  <1> QED
    BY <1>3, <1>4, <1>5, <1>6, <1>7, <1>8, <1>9, <1>10, PausesKeep,
       TearDownKeeps, CancelKeeps
       DEF UseCase

(* The inductive invariant: the guards counted, the locks held, and what a *)
(* teardown, a cancellation and a wake leave behind.                       *)
THEOREM ShutdownInvariant == Spec => []ShutdownInv
  <1>1. ASSUME ShutdownInv, Next PROVE ShutdownInv'
    BY <1>1, SupervisorKeeps, WakerKeeps, PassKeeps, UseCaseKeeps DEF Next
  <1>2. ASSUME ShutdownInv, UNCHANGED vars PROVE ShutdownInv'
    BY <1>2 DEF ShutdownInv, Typed, Staged, Guarded, Ending, QuitGuards,
                UpdateGuards, Locked, Awake, Joined, Waking, NoLostWake,
                NoApplyAfterTeardown, GoneForGood, Alive, At, vars,
                supervisorVars, phase, list, signal, threads, runtime
  <1> QED BY InitShutdownInv, <1>1, <1>2, PTL DEF Spec

(* Every variable keeps its type; at most three pauses are ever nested.    *)
THEOREM TypeCorrect == Spec => []TypeOK
  <1>1. ShutdownInv => TypeOK
    BY DEF ShutdownInv, Typed, Guarded, QuitGuards, UpdateGuards, TypeOK
  <1> QED BY ShutdownInvariant, <1>1, PTL

(* WakeSignal::wake and wait_inner lose no wake, with any number of both.  *)
THEOREM WakesArrive == Spec => []NoLostWake
  <1>1. ShutdownInv => NoLostWake
    BY DEF ShutdownInv
  <1> QED BY ShutdownInvariant, <1>1, PTL

(* No pass applies what it fetched once a quit or an update tore down.     *)
THEOREM TeardownIsFinal == Spec => []NoApplyAfterTeardown
  <1>1. ShutdownInv => NoApplyAfterTeardown
    BY DEF ShutdownInv
  <1> QED BY ShutdownInvariant, <1>1, PTL

(* A shutdown that returns complete leaves no worker, now or later.        *)
THEOREM CompleteShutdown == Spec => []GoneForGood
  <1>1. ShutdownInv => GoneForGood
    BY DEF ShutdownInv
  <1> QED BY ShutdownInvariant, <1>1, PTL

(* A cancellation leaves nobody asleep on a timer or in a pause.           *)
THEOREM CancellationReaches == Spec => []NobodySleepsOn
  <1>1. ShutdownInv => NobodySleepsOn
    BY DEF ShutdownInv, Awake, NobodySleepsOn, At
  <1> QED BY ShutdownInvariant, <1>1, PTL
=============================================================================
