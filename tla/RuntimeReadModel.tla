-------------------------- MODULE RuntimeReadModel --------------------------
(***************************************************************************)
(* What the user is told about the OS proxy                                *)
(* (runtime_status.rs, application/common.rs, core_watch.rs,               *)
(* core_snapshot.rs).                                                      *)
(*                                                                         *)
(* Reading the OS proxy is slow, so the answer goes through two caches: a  *)
(* memo of the last live check, and a sample that a probe worker takes and *)
(* status reads serve.  A mutation holds the orchestrate lock, invalidates *)
(* the sample when it begins and when it ends, and most of them also drop  *)
(* the memo.  A probe takes no lock while it looks, so it may begin before *)
(* a mutation and land after it.  The probe worker and an MCP status call  *)
(* both start probes, one at a time; the tray fills the memo as well.      *)
(*                                                                         *)
(* Epochs, core generations and settings signatures only grow and are only *)
(* compared for equality: each copy of one is kept as "is it current?".    *)
(***************************************************************************)
EXTENDS Naturals

CONSTANTS
  MaxJobs,    (* bound: mutations in a behaviour                           *)
  MaxDrifts   (* bound: changes of the OS proxy made by other programs     *)

ASSUME BoundsAssumption == MaxJobs \in Nat /\ MaxDrifts \in Nat

VARIABLES
  truth,      (* OS: does the system proxy point at ice-box?               *)
  memo,       (* proxy_applied_cache                                       *)
  cleared,    (* history: was the memo dropped since truth last changed?   *)
  proxyLock,  (* state.proxy: "free" or its holder                         *)
  orch,       (* state.orchestrate: "free" or its holder                   *)
  job,        (* the mutation in progress: its kind and its next step      *)
  sample,     (* ProbeSample                                               *)
  requested,  (* refresh_requested                                         *)
  dirty,      (* CoreSnapshotHub.probes_dirty                              *)
  probe,      (* the probe in flight (probe_refresh): who, where, what;    *)
              (* clean: history, it looked with the memo cleared           *)
  worker,     (* the probe worker's loop                                   *)
  asked,      (* history: a refresh was asked for, no probe began since    *)
  jobs, drifts

held == <<proxyLock, orch>>
caches == <<memo, cleared, sample>>
signals == <<requested, dirty, asked>>
budget == <<jobs, drifts>>
vars == <<truth, memo, cleared, proxyLock, orch, job, sample, requested,
          dirty, probe, worker, asked, jobs, drifts>>

Looks == {"on", "off"}
Kinds == {"toggle",    (* start_service, disable_active_backend_inner      *)
          "switch",    (* a live switch of backends: the core restarts     *)
          "fail"}      (* a toggle that fails after it touched the OS      *)
Ages == {"fresh", "due", "old"}  (* PROBE_INTERVAL, PROBE_MAX_AGE          *)
NoMemo == "none"
NoJob == [kind |-> "none", pc |-> "idle"]
NoProbe == [by |-> "none", pc |-> "idle", epoch |-> TRUE, world |-> TRUE, sees |-> "unknown",
            clean |-> TRUE]
(* A sample that was invalidated or that failed, or that was never taken:  *)
(* nothing of it is served, and a refresh is due.                          *)
Withheld == [sees |-> "unknown", world |-> FALSE, age |-> "old", clean |-> TRUE]

JobAt(step) == job.pc = step
JobGoes(step) == job' = [job EXCEPT !.pc = step]
ProbeAt(step) == probe.pc = step
ProbeGoes(step) == probe' = [probe EXCEPT !.pc = step]

(* What a status read says of the proxy (collect_status, probes_at); while *)
(* a mutation holds the lock, the last status is given again.              *)
Served == IF sample.age # "old" /\ sample.world THEN sample.sees ELSE "unknown"

Init ==
  /\ truth \in Looks
  /\ memo = NoMemo /\ cleared = TRUE
  /\ proxyLock = "free" /\ orch = "free"
  /\ job = NoJob
  /\ sample = Withheld
  /\ requested = FALSE /\ dirty = TRUE /\ asked = FALSE
  /\ probe = NoProbe /\ worker = "refresh"
  /\ jobs = 0 /\ drifts = 0
-----------------------------------------------------------------------------
(***************************************************************************)
(* Mutations (lock_orchestrate, MutationGuard)                             *)
(***************************************************************************)

(* invalidate_probes: no copy of the epoch is current any more.            *)
Invalidate == sample' = Withheld

Stale(p) == IF p.pc = "idle" THEN p ELSE [p EXCEPT !.epoch = FALSE]
Moved(p) == IF p.pc = "idle" THEN p ELSE [p EXCEPT !.world = FALSE]

JobBegins ==
  /\ JobAt("idle")
  /\ jobs < MaxJobs
  /\ orch = "free"
  /\ \E kind \in Kinds : job' = [kind |-> kind, pc |-> "lock"]
  /\ orch' = "job"
  /\ Invalidate
  /\ probe' = Stale(probe)
  /\ jobs' = jobs + 1
  /\ UNCHANGED <<truth, memo, cleared, proxyLock, requested, dirty, asked,
                 worker, drifts>>

JobTakesProxy ==
  /\ JobAt("lock")
  /\ proxyLock = "free"
  /\ proxyLock' = "job"
  /\ JobGoes("apply")
  /\ UNCHANGED <<truth, caches, orch, signals, probe, worker, budget>>

(* The OS calls.  A live switch also restarts the core, which publishes a  *)
(* snapshot of a new generation and asks for a probe.                      *)
JobApplies ==
  /\ JobAt("apply")
  /\ \E look \in Looks : truth' = look /\ cleared' = (cleared /\ look = truth)
  /\ IF job.kind = "switch"
       THEN /\ dirty' = TRUE
            /\ sample' = [sample EXCEPT !.world = FALSE]
            /\ probe' = Moved(probe)
       ELSE UNCHANGED <<dirty, sample, probe>>
  /\ JobGoes("release")
  /\ UNCHANGED <<memo, held, requested, asked, worker, budget>>

JobReleasesProxy ==
  /\ JobAt("release")
  /\ proxyLock' = "free"
  /\ JobGoes(IF job.kind = "toggle" THEN "clear" ELSE "end")
  /\ UNCHANGED <<truth, caches, orch, signals, probe, worker, budget>>

(* The settings record the toggle: their signature moves.                  *)
JobClearsMemo ==
  /\ JobAt("clear")
  /\ memo' = NoMemo /\ cleared' = TRUE
  /\ sample' = [sample EXCEPT !.world = FALSE]
  /\ probe' = Moved(probe)
  /\ JobGoes("end")
  /\ UNCHANGED <<truth, held, signals, worker, budget>>

(* MutationGuard::drop.                                                    *)
JobEnds ==
  /\ JobAt("end")
  /\ Invalidate
  /\ probe' = Stale(probe)
  /\ orch' = "free"
  /\ JobGoes("collect")
  /\ UNCHANGED <<truth, memo, cleared, proxyLock, requested, dirty, asked, worker, budget>>

(* The guard's collect_status, then broadcast_state_change; a use case that *)
(* failed returns before it.                                               *)
JobAnnounces ==
  /\ JobAt("collect")
  /\ job' = NoJob
  /\ IF job.kind = "fail"
       THEN UNCHANGED <<memo, cleared, dirty>>
       ELSE memo' = NoMemo /\ cleared' = TRUE /\ dirty' = TRUE
  /\ UNCHANGED <<truth, held, sample, requested, asked, probe, worker, budget>>

(* Window focus: request_runtime_probe_refresh.                            *)
WindowFocused ==
  /\ memo' = NoMemo /\ cleared' = TRUE
  /\ dirty' = TRUE
  /\ UNCHANGED <<truth, held, job, sample, requested, asked, probe, worker, budget>>
-----------------------------------------------------------------------------
(***************************************************************************)
(* The watchdog's tick (spawn_core_watchdog)                               *)
(***************************************************************************)

(* The machine was asleep between two ticks, or a refresh was asked for.   *)
WatchdogTick ==
  /\ \E resumed \in BOOLEAN :
       /\ resumed \/ dirty
       /\ dirty' = FALSE
       /\ memo' = NoMemo /\ cleared' = TRUE
       /\ IF resumed
            THEN /\ Invalidate
                 /\ probe' = Stale(probe)
                 /\ UNCHANGED <<requested, asked>>
            ELSE /\ requested' = TRUE /\ asked' = TRUE
                 /\ UNCHANGED <<sample, probe>>
  /\ UNCHANGED <<truth, held, job, worker, budget>>
-----------------------------------------------------------------------------
(***************************************************************************)
(* A probe (refresh_runtime_probes)                                        *)
(***************************************************************************)
Due == sample.age # "fresh"

(* begin_refresh: the epoch, and whether a refresh is due or asked for; the *)
(* generation and the signature the probe is about are read next.          *)
Claim(who) ==
  /\ requested' = FALSE
  /\ IF Due \/ requested
       THEN /\ probe' = [NoProbe EXCEPT !.by = who, !.pc = "memo"]
            /\ asked' = FALSE
       ELSE UNCHANGED <<probe, asked>>

(* cached_system_proxy_applied: the memo while it is fresh ...             *)
ProbeReadsMemo ==
  /\ ProbeAt("memo")
  /\ IF memo # NoMemo
       THEN probe' = [probe EXCEPT !.sees = memo, !.clean = cleared, !.pc = "compare"]
       ELSE ProbeGoes("lock")
  /\ UNCHANGED <<truth, caches, held, job, signals, worker, budget>>

(* ... else the live setting, unless a mutation holds the proxy: then the  *)
(* previous sample if it is of the same epoch (last_system_proxy_applied). *)
ProbeTriesProxy ==
  /\ ProbeAt("lock")
  /\ \/ /\ proxyLock = "free"
        /\ proxyLock' = "probe"
        /\ ProbeGoes("look")
     \/ /\ proxyLock # "free"
        /\ probe' = [probe EXCEPT !.pc = "compare",
                       !.clean = sample.clean,
                       !.sees = IF probe.epoch THEN sample.sees ELSE "unknown"]
        /\ UNCHANGED proxyLock
  /\ UNCHANGED <<truth, caches, orch, job, signals, worker, budget>>

(* Mutant: the proxy is released as soon as it has been read.              *)
ProbeLooksAndLets ==
  /\ ProbeAt("look")
  /\ IF memo # NoMemo
       THEN probe' = [probe EXCEPT !.sees = memo, !.clean = cleared, !.pc = "compare"]
       ELSE probe' = [probe EXCEPT !.sees = truth, !.clean = TRUE, !.pc = "publish"]
  /\ proxyLock' = "free"
  /\ UNCHANGED <<truth, caches, orch, job, signals, worker, budget>>

(* Another caller may have filled the memo before the lock was taken.      *)
ProbeLooks ==
  /\ ProbeAt("look")
  /\ IF memo # NoMemo
       THEN /\ probe' = [probe EXCEPT !.sees = memo, !.clean = cleared, !.pc = "compare"]
            /\ proxyLock' = "free"
       ELSE /\ probe' = [probe EXCEPT !.sees = truth, !.clean = TRUE, !.pc = "publish"]
            /\ UNCHANGED proxyLock
  /\ UNCHANGED <<truth, caches, orch, job, signals, worker, budget>>

ProbePublishesMemo ==
  /\ ProbeAt("publish")
  /\ memo' = probe.sees
  /\ proxyLock' = "free"
  /\ ProbeGoes("compare")
  /\ UNCHANGED <<truth, cleared, orch, job, sample, signals, worker, budget>>

(* The core or the settings moved during the probe: it describes neither.  *)
ProbeCompares ==
  /\ ProbeAt("compare")
  /\ IF probe.world
       THEN ProbeGoes("complete") /\ UNCHANGED sample
       ELSE Invalidate /\ probe' = NoProbe
  /\ UNCHANGED <<truth, memo, cleared, held, job, requested, dirty, asked, worker, budget>>

(* Mutant: the epoch is taken when the probe lands.                        *)
ProbeCompletesLate ==
  /\ ProbeAt("complete")
  /\ probe' = NoProbe
  /\ sample' = [sees |-> probe.sees, world |-> probe.world, age |-> "fresh",
                clean |-> probe.clean]
  /\ UNCHANGED <<truth, memo, cleared, held, job, signals, worker, budget>>

(* complete_probe.  The settings may have been unreadable.                 *)
ProbeCompletes ==
  /\ ProbeAt("complete")
  /\ probe' = NoProbe
  /\ IF probe.epoch
       THEN \/ sample' = [sees |-> probe.sees, world |-> probe.world, age |-> "fresh",
                          clean |-> probe.clean]
            \/ Invalidate
       ELSE UNCHANGED sample
  /\ UNCHANGED <<truth, memo, cleared, held, job, signals, worker, budget>>

Probe == ProbeReadsMemo \/ ProbeTriesProxy \/ ProbeLooks
           \/ ProbePublishesMemo \/ ProbeCompares \/ ProbeCompletes
-----------------------------------------------------------------------------
(***************************************************************************)
(* Who starts probes, and who else fills the memo                          *)
(***************************************************************************)

(* Mutant: the request is consumed whether or not the probe is ours.       *)
WorkerRefreshesGreedily ==
  /\ worker = "refresh"
  /\ IF ProbeAt("idle") THEN Claim("worker")
       ELSE requested' = FALSE /\ UNCHANGED <<probe, asked>>
  /\ worker' = "probing"
  /\ UNCHANGED <<truth, caches, held, job, dirty, budget>>

(* spawn_probe_watchdog.  A probe in flight elsewhere ends the attempt     *)
(* with nothing consumed.                                                  *)
WorkerRefreshes ==
  /\ worker = "refresh"
  /\ IF ProbeAt("idle") THEN Claim("worker") ELSE UNCHANGED <<probe, requested, asked>>
  /\ worker' = "probing"
  /\ UNCHANGED <<truth, caches, held, job, dirty, budget>>

WorkerCollects ==
  /\ worker = "probing"
  /\ probe.by # "worker"
  /\ worker' = "sleep"
  /\ UNCHANGED <<truth, caches, held, job, signals, probe, budget>>

(* wait_for_next_probe: a wake, or PROBE_INTERVAL has passed.              *)
WorkerWakes ==
  /\ worker = "sleep"
  /\ worker' = "refresh"
  /\ UNCHANGED <<truth, caches, held, job, requested, dirty, asked, probe, budget>>

(* The MCP get_status tool.                                                *)
McpRefreshes ==
  /\ ProbeAt("idle")
  /\ Claim("mcp")
  /\ UNCHANGED <<truth, caches, held, job, dirty, worker, budget>>

(* The tray's posture read fills the memo as a probe does; it holds the     *)
(* proxy lock meanwhile, so nothing it looks at can change.                *)
TrayFillsMemo ==
  /\ memo = NoMemo
  /\ proxyLock = "free"
  /\ memo' = truth
  /\ UNCHANGED <<truth, cleared, held, job, sample, signals, probe, worker, budget>>
-----------------------------------------------------------------------------
(***************************************************************************)
(* The environment                                                         *)
(***************************************************************************)

(* Another program changes the OS proxy.                                   *)
Drift ==
  /\ drifts < MaxDrifts
  /\ truth' \in Looks \ {truth}
  /\ drifts' = drifts + 1
  /\ UNCHANGED <<memo, cleared, held, job, sample, signals, probe, worker, jobs>>

SampleAges ==
  /\ sample.age # "old"
  /\ sample' = [sample EXCEPT !.age = IF sample.age = "fresh" THEN "due" ELSE "old"]
  /\ UNCHANGED <<truth, memo, cleared, held, job, signals, probe, worker, budget>>

(* Mutant: nobody looks at the age of the memo.                            *)
MemoNeverExpires == FALSE /\ UNCHANGED vars

(* PROXY_APPLIED_CACHE_TTL has passed.                                     *)
MemoExpires ==
  /\ memo # NoMemo
  /\ memo' = NoMemo
  /\ UNCHANGED <<truth, cleared, held, job, sample, signals, probe, worker, budget>>

Job == JobTakesProxy \/ JobApplies \/ JobReleasesProxy \/ JobClearsMemo
         \/ JobEnds \/ JobAnnounces
Worker == WorkerRefreshes \/ WorkerCollects \/ WorkerWakes

Next ==
  \/ JobBegins \/ Job \/ WindowFocused \/ WatchdogTick
  \/ Probe \/ Worker \/ McpRefreshes \/ TrayFillsMemo
  \/ Drift \/ SampleAges \/ MemoExpires

Spec == Init /\ [][Next]_vars

(* Every thread goes on with what it began, a lock that is free again and  *)
(* again is obtained, and time passes: the watchdog ticks, samples and     *)
(* memos age.  Nobody has to mutate, read, drift or call.                  *)
Fairness ==
  /\ SF_vars(JobTakesProxy) /\ WF_vars(Job)
  /\ WF_vars(WatchdogTick /\ dirty)
  /\ WF_vars(Probe) /\ WF_vars(Worker)
  /\ WF_vars(SampleAges) /\ SF_vars(MemoExpires)

FairSpec == Spec /\ Fairness
-----------------------------------------------------------------------------
(***************************************************************************)
(* Properties                                                              *)
(***************************************************************************)
Says == Looks \cup {"unknown"}
TypeOK ==
  /\ truth \in Looks /\ memo \in Looks \cup {NoMemo} /\ cleared \in BOOLEAN
  /\ proxyLock \in {"free", "job", "probe"}
  /\ orch \in {"free", "job"}
  /\ job \in [kind : Kinds \cup {"none"},
              pc : {"idle", "lock", "apply", "release", "clear", "end", "collect"}]
  /\ sample \in [sees : Says, world : BOOLEAN, age : Ages, clean : BOOLEAN]
  /\ probe \in [by : {"none", "worker", "mcp"},
                pc : {"idle", "memo", "lock", "look", "publish", "compare", "complete"},
                epoch : BOOLEAN, world : BOOLEAN, sees : Says, clean : BOOLEAN]
  /\ {requested, dirty, asked} \subseteq BOOLEAN
  /\ worker \in {"refresh", "probing", "sleep"}
  /\ jobs \in 0 .. MaxJobs /\ drifts \in 0 .. MaxDrifts

(* A memo dropped after a mutation is never filled again with what was     *)
(* seen before it (cached_system_proxy_applied: a probe "cannot write a    *)
(* pre-mutation value over that clear").                                   *)
MemoAfterClear == drifts = 0 /\ cleared /\ memo # NoMemo => memo = truth

(* Outside mutations, a sample that is served tells the truth: a probe     *)
(* that began before or during a mutation is not served after it.  (The    *)
(* exception is a probe that found a memo no mutation had dropped.)        *)
ServedIsTrue ==
  drifts = 0 /\ orch # "job" /\ sample.clean /\ Served # "unknown" => Served = truth

(* A refresh that was asked for stays asked for until a probe begins after *)
(* it: not one that was running already, and not an attempt that found     *)
(* another caller probing (begin_refresh: a request "that arrives during   *)
(* the probe stays pending").                                              *)
RequestKept == asked => requested

(* Once mutations and other programs leave the OS proxy alone, what is     *)
(* served becomes the truth or nothing for good, whatever a memo or a      *)
(* probe of an earlier time said (PROXY_APPLIED_CACHE_TTL, PROBE_MAX_AGE).  *)
TruthSettles == <>[](Served \in {"unknown", truth})
=============================================================================
