-------------------------- MODULE WorkerSupervisor --------------------------
(***************************************************************************)
(* Background workers, the pause that quit and update take, and the wake   *)
(* signal that cuts a worker's sleep short                                 *)
(* (apps/desktop/src-tauri/src/workers.rs).                                *)
(*                                                                         *)
(* One condition variable and one mutex, phase, serve every worker.  A     *)
(* critical section of phase is one step, except the check before a timed  *)
(* wait: it reads the wake signal, which is written without the mutex, so  *)
(* the mutex is seen held between that check and the wait that frees it.   *)
(***************************************************************************)
EXTENDS Naturals, FiniteSets

CONSTANTS
  Workers,   (* the threads                                                *)
  Waiter,    (* the one that also waits for the wake signal: the probes    *)
  Wakers,    (* threads that call WakeSignal::wake                         *)
  NoWorker   (* nobody                                                     *)

ASSUME SupervisorAssumption == Waiter \in Workers /\ NoWorker \notin Workers

VARIABLES
  stopping, pauses,  (* Phase                                              *)
  holder,            (* who holds phase between its check and its wait     *)
  roster,            (* WorkerSupervisor::workers: the threads listed      *)
  spawning,          (* who holds the mutex of that list in spawn          *)
  thread,            (* each worker: where its thread is                   *)
  wait,              (* the wait it is in: "top", "sleep" or "retry"       *)
  pending, bound,    (* WakeSignal: its flag, and does it know the phase?  *)
  waker              (* each waker: where its call is                      *)

phase == <<stopping, pauses, holder>>
list == <<roster, spawning>>
signal == <<pending, bound, waker>>
threads == <<thread, wait>>
supervisorVars == <<phase, list, signal, threads>>

ThreadStates == {"absent", "check", "parking", "asleep", "paused", "work",
                 "fetch", "recheck", "apply", "ended"}
WakerSteps == {"idle", "stored", "found", "synced"}

Free == holder = NoWorker
Go(w, state) == thread' = [thread EXCEPT ![w] = state]
At(w, state) == thread[w] = state
Alive(w) == thread[w] \notin {"absent", "ended"}

(* Condvar::notify_all: whoever waits checks again.                        *)
Notified(t) ==
  [w \in Workers |-> IF t[w] \in {"asleep", "paused"} THEN "check" ELSE t[w]]

SupervisorInit ==
  /\ stopping = FALSE /\ pauses = 0 /\ holder = NoWorker
  /\ roster = {} /\ spawning = NoWorker
  /\ thread = [w \in Workers |-> "absent"]
  /\ wait = [w \in Workers |-> "top"]
  /\ pending = FALSE /\ bound = FALSE
  /\ waker = [k \in Wakers |-> "idle"]
-----------------------------------------------------------------------------
(* spawn holds the mutex of the list from its check until the thread is    *)
(* started and in the list.                                                *)
TakeList(w) ==
  /\ At(w, "absent")
  /\ spawning = NoWorker
  /\ Free
  /\ spawning' = w
  /\ UNCHANGED <<phase, roster, signal, threads>>

(* Mutant: the thread is started without a look at stopping.               *)
SpawnUnchecked(w) == TakeList(w)

Spawn(w) == ~stopping /\ TakeList(w)

SpawnListed(w) ==
  /\ spawning = w
  /\ spawning' = NoWorker
  /\ roster' = roster \cup {w}
  /\ Go(w, "check")
  /\ wait' = [wait EXCEPT ![w] = "top"]
  /\ UNCHANGED <<phase, signal>>
-----------------------------------------------------------------------------
(***************************************************************************)
(* wait_inner.  The thread loop waits for nothing at its top, a job sleeps *)
(* on its timer (the waiter also on the signal), a panic is retried later. *)
(***************************************************************************)
Resume(w) ==
  /\ Go(w, IF wait[w] = "retry" THEN "check" ELSE "work")
  /\ wait' = [wait EXCEPT ![w] = "top"]

Woken(w) == w = Waiter /\ wait[w] = "sleep" /\ pending

Check(w) ==
  /\ At(w, "check")
  /\ Free
  /\ \/ /\ stopping
        /\ Go(w, "ended")
        /\ UNCHANGED <<holder, wait, pending>>
     \/ /\ ~stopping /\ pauses > 0
        /\ Go(w, "paused")
        /\ UNCHANGED <<holder, wait, pending>>
     \/ /\ ~stopping /\ pauses = 0
        /\ Woken(w)
        /\ pending' = FALSE
        /\ Resume(w)
        /\ UNCHANGED holder
     \/ /\ ~stopping /\ pauses = 0
        /\ ~Woken(w)
        /\ \/ (* the deadline has passed *)
              /\ Resume(w)
              /\ UNCHANGED holder
           \/ /\ wait[w] # "top"
              /\ holder' = w
              /\ Go(w, "parking")
              /\ UNCHANGED wait
        /\ UNCHANGED pending
  /\ UNCHANGED <<stopping, pauses, list, bound, waker>>

Park(w) ==
  /\ At(w, "parking")
  /\ holder' = NoWorker
  /\ Go(w, "asleep")
  /\ UNCHANGED <<stopping, pauses, list, signal, wait>>

Timeout(w) ==
  /\ At(w, "asleep")
  /\ Go(w, "check")
  /\ UNCHANGED <<phase, list, signal, wait>>

(* A pass is over and the job waits for the next one.                      *)
NextWait(w) == Go(w, "check") /\ wait' = [wait EXCEPT ![w] = "sleep"]

(* wait_or_wake binds the signal to phase before it looks at it.           *)
Sleep(w) ==
  /\ At(w, "work")
  /\ NextWait(w)
  /\ bound' = (bound \/ w = Waiter)
  /\ UNCHANGED <<phase, list, pending, waker>>

Panic(w) ==
  /\ At(w, "work")
  /\ thread' = [Notified(thread) EXCEPT ![w] = "check"]
  /\ wait' = [wait EXCEPT ![w] = "retry"]
  /\ UNCHANGED <<phase, list, signal>>
-----------------------------------------------------------------------------
(***************************************************************************)
(* WakeSignal::wake                                                        *)
(***************************************************************************)
GoWaker(k, step) == waker' = [waker EXCEPT ![k] = step]

Wake(k) ==
  /\ waker[k] = "idle"
  /\ pending' = TRUE
  /\ GoWaker(k, "stored")
  /\ UNCHANGED <<phase, list, threads, bound>>

WakeFind(k) ==
  /\ waker[k] = "stored"
  /\ GoWaker(k, IF bound THEN "found" ELSE "idle")
  /\ UNCHANGED <<phase, list, threads, pending, bound>>

(* Mutant: the phase mutex is not taken before the notification.           *)
WakeSyncUnlocked(k) ==
  /\ waker[k] = "found"
  /\ GoWaker(k, "synced")
  /\ UNCHANGED <<phase, list, threads, pending, bound>>

WakeSync(k) ==
  /\ waker[k] = "found"
  /\ Free
  /\ GoWaker(k, "synced")
  /\ UNCHANGED <<phase, list, threads, pending, bound>>

WakeNotify(k) ==
  /\ waker[k] = "synced"
  /\ thread' = Notified(thread)
  /\ GoWaker(k, "idle")
  /\ UNCHANGED <<phase, list, wait, pending, bound>>
-----------------------------------------------------------------------------
(***************************************************************************)
(* What callers of the supervisor do to it, in one step each.              *)
(***************************************************************************)
Pause ==
  /\ Free
  /\ pauses' = pauses + 1
  /\ thread' = Notified(thread)
  /\ UNCHANGED <<stopping, holder, list, signal, wait>>

(* Mutant: a dropped guard ends every pause.                               *)
UnpauseAll ==
  /\ Free
  /\ pauses' = 0
  /\ thread' = Notified(thread)
  /\ UNCHANGED <<stopping, holder, list, signal, wait>>

(* PauseGuard::drop                                                        *)
Unpause ==
  /\ Free
  /\ pauses' = IF pauses = 0 THEN 0 ELSE pauses - 1
  /\ thread' = Notified(thread)
  /\ UNCHANGED <<stopping, holder, list, signal, wait>>

(* Mutant: the waits are not interrupted by a cancellation.                *)
StopWorkersUnnotified ==
  /\ Free
  /\ stopping' = TRUE
  /\ UNCHANGED <<pauses, holder, list, signal, threads>>

(* shutdown: first the flag, then the finished threads leave the list.     *)
StopWorkers ==
  /\ Free
  /\ stopping' = TRUE
  /\ thread' = Notified(thread)
  /\ UNCHANGED <<pauses, holder, list, signal, wait>>

JoinWorkers ==
  /\ spawning = NoWorker
  /\ roster' = {w \in roster : ~At(w, "ended")}
  /\ UNCHANGED <<phase, spawning, signal, threads>>

PausedOrStopping == stopping \/ pauses > 0
=============================================================================
