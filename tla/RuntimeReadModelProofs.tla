------------------------ MODULE RuntimeReadModelProofs -----------------------
(***************************************************************************)
(* Proofs about RuntimeReadModel, for any number of mutations: the types,  *)
(* and that neither the memo nor a served sample is older than the last    *)
(* mutation.                                                               *)
(***************************************************************************)
EXTENDS RuntimeReadModel, TLAPS

JobSteps == {"idle", "lock", "apply", "release", "clear", "end", "collect"}
JobType == [kind : Kinds \cup {"none"}, pc : JobSteps]
SampleType == [sees : Says, world : BOOLEAN, age : Ages, clean : BOOLEAN]
ProbeSteps == {"idle", "memo", "lock", "look", "publish", "compare", "complete"}
ProbeType == [by : {"none", "worker", "mcp"}, pc : ProbeSteps,
              epoch : BOOLEAN, world : BOOLEAN, sees : Says, clean : BOOLEAN]

Typed ==
  /\ truth \in Looks /\ memo \in Looks \cup {NoMemo} /\ cleared \in BOOLEAN
  /\ proxyLock \in {"free", "job", "probe"} /\ orch \in {"free", "job"}
  /\ job \in JobType /\ sample \in SampleType /\ probe \in ProbeType
  /\ requested \in BOOLEAN /\ dirty \in BOOLEAN /\ asked \in BOOLEAN
  /\ worker \in {"refresh", "probing", "sleep"}
  /\ jobs \in 0 .. MaxJobs /\ drifts \in 0 .. MaxDrifts

(* Who holds which lock, at which step.                                    *)
Locked ==
  /\ orch = "job" <=> job.pc \in {"lock", "apply", "release", "clear", "end"}
  /\ proxyLock = "job" <=> job.pc \in {"apply", "release"}
  /\ proxyLock = "probe" <=> probe.pc \in {"look", "publish"}

(* A look under the proxy lock is still true when it becomes the memo.     *)
Looked ==
  /\ probe.pc = "publish" => probe.sees \in Looks /\ (drifts = 0 => probe.sees = truth)
  /\ MemoAfterClear

(* Outside mutations, a probe whose epoch is current saw the truth, and so *)
(* did the sample that is served.                                          *)
Sampled ==
  drifts = 0 /\ orch # "job" =>
    /\ /\ probe.pc \in {"compare", "complete"} /\ probe.epoch /\ probe.clean
       /\ probe.sees # "unknown"
       => probe.sees = truth
    /\ /\ sample.world /\ sample.age # "old" /\ sample.clean
       /\ sample.sees # "unknown"
       => sample.sees = truth

Inv == Typed /\ Locked /\ Looked /\ Sampled /\ RequestKept

-----------------------------------------------------------------------------
LEMMA Initially == Init => Inv
<1> SUFFICES ASSUME Init PROVE Inv
  OBVIOUS
<1> USE DEF Init, NoJob, NoProbe, Withheld, Looks, Says, Kinds, Ages, NoMemo
<1>1. Typed
  <2>1. job \in JobType /\ sample \in SampleType /\ probe \in ProbeType
    BY DEF JobType, JobSteps, SampleType, ProbeType, ProbeSteps
  <2>2. cleared \in BOOLEAN /\ requested \in BOOLEAN /\ dirty \in BOOLEAN /\ asked \in BOOLEAN
    BY Zenon
  <2> QED
    BY BoundsAssumption, <2>1, <2>2 DEF Typed
<1>2. Locked /\ Looked /\ Sampled /\ RequestKept
  BY DEF Locked, Looked, Sampled, RequestKept, MemoAfterClear
<1> QED
  BY <1>1, <1>2 DEF Inv

(* What the records become.                                                *)
LEMMA StepTypes ==
  /\ NoProbe \in ProbeType /\ Withheld \in SampleType /\ NoJob \in JobType
  /\ \A p \in ProbeType : Stale(p) \in ProbeType /\ Moved(p) \in ProbeType
  /\ \A p \in ProbeType, s \in ProbeSteps : [p EXCEPT !.pc = s] \in ProbeType
  /\ \A w \in {"worker", "mcp"} : [NoProbe EXCEPT !.by = w, !.pc = "memo"] \in ProbeType
  /\ \A m \in SampleType : [m EXCEPT !.world = FALSE] \in SampleType
  /\ \A m \in SampleType, a \in Ages : [m EXCEPT !.age = a] \in SampleType
  /\ \A j \in JobType, s \in JobSteps : [j EXCEPT !.pc = s] \in JobType
<1> USE DEF Says, Looks, Ages, Kinds
<1>1. NoProbe \in ProbeType /\ Withheld \in SampleType /\ NoJob \in JobType
  BY DEF ProbeType, ProbeSteps, SampleType, JobType, JobSteps, NoProbe, Withheld, NoJob
<1>2. \A p \in ProbeType : Stale(p) \in ProbeType /\ Moved(p) \in ProbeType
  BY DEF ProbeType, Stale, Moved
<1>3. \A p \in ProbeType, s \in ProbeSteps : [p EXCEPT !.pc = s] \in ProbeType
  BY DEF ProbeType
<1>4. \A w \in {"worker", "mcp"} : [NoProbe EXCEPT !.by = w, !.pc = "memo"] \in ProbeType
  BY DEF ProbeType, ProbeSteps, NoProbe
<1>5. \A m \in SampleType : [m EXCEPT !.world = FALSE] \in SampleType
  BY DEF SampleType
<1>6. \A m \in SampleType, a \in Ages : [m EXCEPT !.age = a] \in SampleType
  BY DEF SampleType
<1>7. \A j \in JobType, s \in JobSteps : [j EXCEPT !.pc = s] \in JobType
  BY DEF JobType
<1> QED
  BY <1>1, <1>2, <1>3, <1>4, <1>5, <1>6, <1>7

LEMMA SeesTypes ==
  ASSUME NEW p \in ProbeType, NEW v \in Says, NEW c \in BOOLEAN, NEW s \in ProbeSteps
  PROVE  /\ [p EXCEPT !.sees = v, !.clean = c, !.pc = s] \in ProbeType
         /\ [p EXCEPT !.pc = s, !.clean = c, !.sees = v] \in ProbeType
BY DEF ProbeType

LEMMA SampleTypes ==
  ASSUME NEW p \in ProbeType
  PROVE  [sees |-> p.sees, world |-> p.world, age |-> "fresh", clean |-> p.clean] \in SampleType
BY DEF ProbeType, SampleType, Ages

LEMMA Preserved == Inv /\ [Next]_vars => Inv'
<1> SUFFICES ASSUME Inv, [Next]_vars PROVE Inv'
  OBVIOUS
<1> USE BoundsAssumption DEF Inv, Locked, Looked, Sampled, RequestKept, MemoAfterClear,
        held, caches, signals, budget, JobAt, JobGoes, ProbeAt, ProbeGoes, Invalidate,
        Looks, NoMemo
<1>1. CASE JobBegins
  <2>1. Typed'
    BY <1>1, StepTypes DEF JobBegins, Typed, JobType, JobSteps, ProbeSteps, Ages
  <2>2. Locked' /\ Looked' /\ Sampled' /\ RequestKept'
    BY <1>1 DEF JobBegins, Stale, Moved, Withheld, Typed, JobType, JobSteps, SampleType,
           ProbeType, ProbeSteps, Says, Ages, Kinds
  <2> QED
    BY <2>1, <2>2
<1>2. CASE JobTakesProxy
  <2>1. Typed'
    BY <1>2, StepTypes DEF JobTakesProxy, Typed, JobType, JobSteps, ProbeSteps, Ages
  <2>2. Locked' /\ Looked' /\ Sampled' /\ RequestKept'
    BY <1>2 DEF JobTakesProxy, Typed, JobType, JobSteps, SampleType,
           ProbeType, ProbeSteps, Says, Ages, Kinds
  <2> QED
    BY <2>1, <2>2
<1>3. CASE JobApplies
  <2>1. Typed'
    <3>1. probe' \in ProbeType
      BY <1>3, StepTypes DEF JobApplies, Typed, Says, ProbeSteps
    <3>2. sample' \in SampleType
      BY <1>3, StepTypes DEF JobApplies, Typed, Ages
    <3>3. job' \in JobType
      BY <1>3, StepTypes DEF JobApplies, Typed, JobSteps
    <3>4. /\ cleared' \in BOOLEAN /\ requested' \in BOOLEAN
          /\ dirty' \in BOOLEAN /\ asked' \in BOOLEAN
      BY <1>3, Zenon DEF JobApplies, Typed
    <3>5. /\ truth' \in Looks /\ memo' \in Looks \cup {NoMemo}
          /\ proxyLock' \in {"free", "job", "probe"} /\ orch' \in {"free", "job"}
          /\ worker' \in {"refresh", "probing", "sleep"}
          /\ jobs' \in 0 .. MaxJobs /\ drifts' \in 0 .. MaxDrifts
      BY <1>3 DEF JobApplies, Typed
    <3> QED
      BY <3>1, <3>2, <3>3, <3>4, <3>5 DEF Typed
  <2>2. Locked' /\ Looked' /\ Sampled' /\ RequestKept'
    BY <1>3 DEF JobApplies, Stale, Moved, Typed, JobType, JobSteps, SampleType,
           ProbeType, ProbeSteps, Says, Ages, Kinds
  <2> QED
    BY <2>1, <2>2
<1>4. CASE JobReleasesProxy
  <2>1. Typed'
    BY <1>4, StepTypes DEF JobReleasesProxy, Typed, JobType, JobSteps, ProbeSteps, Ages
  <2>2. Locked' /\ Looked' /\ Sampled' /\ RequestKept'
    BY <1>4 DEF JobReleasesProxy, Typed, JobType, JobSteps, SampleType,
           ProbeType, ProbeSteps, Says, Ages, Kinds
  <2> QED
    BY <2>1, <2>2
<1>5. CASE JobClearsMemo
  <2>1. Typed'
    <3>1. probe' \in ProbeType
      BY <1>5, StepTypes DEF JobClearsMemo, Typed, Says, ProbeSteps
    <3>2. sample' \in SampleType
      BY <1>5, StepTypes DEF JobClearsMemo, Typed, Ages
    <3>3. job' \in JobType
      BY <1>5, StepTypes DEF JobClearsMemo, Typed, JobSteps
    <3>4. /\ cleared' \in BOOLEAN /\ requested' \in BOOLEAN
          /\ dirty' \in BOOLEAN /\ asked' \in BOOLEAN
      BY <1>5, Zenon DEF JobClearsMemo, Typed
    <3>5. /\ truth' \in Looks /\ memo' \in Looks \cup {NoMemo}
          /\ proxyLock' \in {"free", "job", "probe"} /\ orch' \in {"free", "job"}
          /\ worker' \in {"refresh", "probing", "sleep"}
          /\ jobs' \in 0 .. MaxJobs /\ drifts' \in 0 .. MaxDrifts
      BY <1>5 DEF JobClearsMemo, Typed
    <3> QED
      BY <3>1, <3>2, <3>3, <3>4, <3>5 DEF Typed
  <2>2. Locked' /\ Looked' /\ Sampled' /\ RequestKept'
    BY <1>5 DEF JobClearsMemo, Stale, Moved, Typed, JobType, JobSteps, SampleType,
           ProbeType, ProbeSteps, Says, Ages, Kinds
  <2> QED
    BY <2>1, <2>2
<1>6. CASE JobEnds
  <2>1. Typed'
    <3>1. probe' \in ProbeType
      BY <1>6, StepTypes DEF JobEnds, Typed, Says, ProbeSteps
    <3>2. sample' \in SampleType
      BY <1>6, StepTypes DEF JobEnds, Typed, Ages
    <3>3. job' \in JobType
      BY <1>6, StepTypes DEF JobEnds, Typed, JobSteps
    <3>4. /\ cleared' \in BOOLEAN /\ requested' \in BOOLEAN
          /\ dirty' \in BOOLEAN /\ asked' \in BOOLEAN
      BY <1>6, Zenon DEF JobEnds, Typed
    <3>5. /\ truth' \in Looks /\ memo' \in Looks \cup {NoMemo}
          /\ proxyLock' \in {"free", "job", "probe"} /\ orch' \in {"free", "job"}
          /\ worker' \in {"refresh", "probing", "sleep"}
          /\ jobs' \in 0 .. MaxJobs /\ drifts' \in 0 .. MaxDrifts
      BY <1>6 DEF JobEnds, Typed
    <3> QED
      BY <3>1, <3>2, <3>3, <3>4, <3>5 DEF Typed
  <2>2. Locked' /\ Looked' /\ Sampled' /\ RequestKept'
    BY <1>6 DEF JobEnds, Stale, Moved, Withheld, Typed, JobType, JobSteps, SampleType,
           ProbeType, ProbeSteps, Says, Ages, Kinds
  <2> QED
    BY <2>1, <2>2
<1>7. CASE JobAnnounces
  <2>1. Typed'
    <3>1. probe' \in ProbeType
      BY <1>7, StepTypes DEF JobAnnounces, Typed, Says, ProbeSteps
    <3>2. sample' \in SampleType
      BY <1>7, StepTypes DEF JobAnnounces, Typed, Ages
    <3>3. job' \in JobType
      BY <1>7, StepTypes DEF JobAnnounces, Typed, JobSteps
    <3>4. /\ cleared' \in BOOLEAN /\ requested' \in BOOLEAN
          /\ dirty' \in BOOLEAN /\ asked' \in BOOLEAN
      BY <1>7, Zenon DEF JobAnnounces, Typed
    <3>5. /\ truth' \in Looks /\ memo' \in Looks \cup {NoMemo}
          /\ proxyLock' \in {"free", "job", "probe"} /\ orch' \in {"free", "job"}
          /\ worker' \in {"refresh", "probing", "sleep"}
          /\ jobs' \in 0 .. MaxJobs /\ drifts' \in 0 .. MaxDrifts
      BY <1>7 DEF JobAnnounces, Typed
    <3> QED
      BY <3>1, <3>2, <3>3, <3>4, <3>5 DEF Typed
  <2>2. Locked' /\ Looked' /\ Sampled' /\ RequestKept'
    BY <1>7 DEF JobAnnounces, NoJob, Typed, JobType, JobSteps, SampleType,
           ProbeType, ProbeSteps, Says, Ages, Kinds
  <2> QED
    BY <2>1, <2>2
<1>8. CASE WindowFocused
  <2>1. Typed'
    BY <1>8, StepTypes DEF WindowFocused, Typed, JobType, JobSteps, ProbeSteps, Ages
  <2>2. Locked' /\ Looked' /\ Sampled' /\ RequestKept'
    BY <1>8 DEF WindowFocused, Typed, JobType, JobSteps, SampleType,
           ProbeType, ProbeSteps, Says, Ages, Kinds
  <2> QED
    BY <2>1, <2>2
<1>9. CASE WatchdogTick
  <2>1. Typed'
    <3>1. probe' \in ProbeType
      BY <1>9, StepTypes DEF WatchdogTick, Typed, Says, ProbeSteps
    <3>2. sample' \in SampleType
      BY <1>9, StepTypes DEF WatchdogTick, Typed, Ages
    <3>3. job' \in JobType
      BY <1>9, StepTypes DEF WatchdogTick, Typed, JobSteps
    <3>4. /\ cleared' \in BOOLEAN /\ requested' \in BOOLEAN
          /\ dirty' \in BOOLEAN /\ asked' \in BOOLEAN
      BY <1>9, Zenon DEF WatchdogTick, Typed
    <3>5. /\ truth' \in Looks /\ memo' \in Looks \cup {NoMemo}
          /\ proxyLock' \in {"free", "job", "probe"} /\ orch' \in {"free", "job"}
          /\ worker' \in {"refresh", "probing", "sleep"}
          /\ jobs' \in 0 .. MaxJobs /\ drifts' \in 0 .. MaxDrifts
      BY <1>9 DEF WatchdogTick, Typed
    <3> QED
      BY <3>1, <3>2, <3>3, <3>4, <3>5 DEF Typed
  <2>2. Locked' /\ Looked' /\ Sampled' /\ RequestKept'
    BY <1>9 DEF WatchdogTick, Stale, Moved, Withheld, Typed, JobType, JobSteps, SampleType,
           ProbeType, ProbeSteps, Says, Ages, Kinds
  <2> QED
    BY <2>1, <2>2
<1>10. CASE ProbeReadsMemo
  <2>1. Typed'
    <3>1. probe' \in ProbeType
      <4>1. CASE memo # NoMemo
        <5>1. memo \in Says /\ "compare" \in ProbeSteps
          BY <4>1 DEF Typed, Says, ProbeSteps
        <5>2. [probe EXCEPT !.sees = memo, !.clean = cleared, !.pc = "compare"] \in ProbeType
          BY <5>1, SeesTypes, Zenon DEF Typed
        <5> QED
          BY <1>10, <4>1, <5>2 DEF ProbeReadsMemo
      <4>2. CASE memo = NoMemo
        BY <1>10, <4>2, StepTypes DEF ProbeReadsMemo, Typed, ProbeSteps
      <4> QED
        BY <4>1, <4>2
    <3>2. sample' \in SampleType
      BY <1>10, StepTypes DEF ProbeReadsMemo, Typed, Ages
    <3>3. job' \in JobType
      BY <1>10, StepTypes DEF ProbeReadsMemo, Typed, JobSteps
    <3>4. /\ cleared' \in BOOLEAN /\ requested' \in BOOLEAN
          /\ dirty' \in BOOLEAN /\ asked' \in BOOLEAN
      BY <1>10, Zenon DEF ProbeReadsMemo, Typed
    <3>5. /\ truth' \in Looks /\ memo' \in Looks \cup {NoMemo}
          /\ proxyLock' \in {"free", "job", "probe"} /\ orch' \in {"free", "job"}
          /\ worker' \in {"refresh", "probing", "sleep"}
          /\ jobs' \in 0 .. MaxJobs /\ drifts' \in 0 .. MaxDrifts
      BY <1>10 DEF ProbeReadsMemo, Typed
    <3> QED
      BY <3>1, <3>2, <3>3, <3>4, <3>5 DEF Typed
  <2>2. Locked' /\ Looked' /\ Sampled' /\ RequestKept'
    BY <1>10 DEF ProbeReadsMemo, Typed, JobType, JobSteps, SampleType,
           ProbeType, ProbeSteps, Says, Ages, Kinds
  <2> QED
    BY <2>1, <2>2
<1>11. CASE ProbeTriesProxy
  <2>1. Typed'
    <3>1. probe' \in ProbeType
      <4>1. CASE probe' = [probe EXCEPT !.pc = "look"]
        BY <4>1, StepTypes DEF Typed, ProbeSteps
      <4>2. CASE probe' = [probe EXCEPT !.pc = "compare", !.clean = sample.clean,
                                        !.sees = IF probe.epoch THEN sample.sees ELSE "unknown"]
        <5>1. sample.clean \in BOOLEAN /\ sample.sees \in Says /\ "unknown" \in Says
          BY DEF Typed, SampleType, Says
        <5> QED
          BY <4>2, <5>1, SeesTypes DEF Typed, ProbeSteps
      <4> QED
        BY <1>11, <4>1, <4>2 DEF ProbeTriesProxy
    <3>2. sample' \in SampleType
      BY <1>11, StepTypes DEF ProbeTriesProxy, Typed, Ages
    <3>3. job' \in JobType
      BY <1>11, StepTypes DEF ProbeTriesProxy, Typed, JobSteps
    <3>4. /\ cleared' \in BOOLEAN /\ requested' \in BOOLEAN
          /\ dirty' \in BOOLEAN /\ asked' \in BOOLEAN
      BY <1>11, Zenon DEF ProbeTriesProxy, Typed
    <3>5. /\ truth' \in Looks /\ memo' \in Looks \cup {NoMemo}
          /\ proxyLock' \in {"free", "job", "probe"} /\ orch' \in {"free", "job"}
          /\ worker' \in {"refresh", "probing", "sleep"}
          /\ jobs' \in 0 .. MaxJobs /\ drifts' \in 0 .. MaxDrifts
      BY <1>11 DEF ProbeTriesProxy, Typed
    <3> QED
      BY <3>1, <3>2, <3>3, <3>4, <3>5 DEF Typed
  <2>2. Locked' /\ Looked' /\ Sampled' /\ RequestKept'
    BY <1>11 DEF ProbeTriesProxy, Typed, JobType, JobSteps, SampleType,
           ProbeType, ProbeSteps, Says, Ages, Kinds
  <2> QED
    BY <2>1, <2>2
<1>12. CASE ProbeLooks
  <2>1. Typed'
    <3>1. probe' \in ProbeType
      <4>1. CASE memo # NoMemo
        <5>1. memo \in Says /\ "compare" \in ProbeSteps
          BY <4>1 DEF Typed, Says, ProbeSteps
        <5>2. [probe EXCEPT !.sees = memo, !.clean = cleared, !.pc = "compare"] \in ProbeType
          BY <5>1, SeesTypes, Zenon DEF Typed
        <5> QED
          BY <1>12, <4>1, <5>2 DEF ProbeLooks
      <4>2. CASE memo = NoMemo
        <5>1. truth \in Says /\ "publish" \in ProbeSteps /\ TRUE \in BOOLEAN
          BY DEF Typed, Says, ProbeSteps
        <5>2. [probe EXCEPT !.sees = truth, !.clean = TRUE, !.pc = "publish"] \in ProbeType
          BY <5>1, SeesTypes, Zenon DEF Typed
        <5> QED
          BY <1>12, <4>2, <5>2 DEF ProbeLooks
      <4> QED
        BY <4>1, <4>2
    <3>2. sample' \in SampleType
      BY <1>12, StepTypes DEF ProbeLooks, Typed, Ages
    <3>3. job' \in JobType
      BY <1>12, StepTypes DEF ProbeLooks, Typed, JobSteps
    <3>4. /\ cleared' \in BOOLEAN /\ requested' \in BOOLEAN
          /\ dirty' \in BOOLEAN /\ asked' \in BOOLEAN
      BY <1>12, Zenon DEF ProbeLooks, Typed
    <3>5. /\ truth' \in Looks /\ memo' \in Looks \cup {NoMemo}
          /\ proxyLock' \in {"free", "job", "probe"} /\ orch' \in {"free", "job"}
          /\ worker' \in {"refresh", "probing", "sleep"}
          /\ jobs' \in 0 .. MaxJobs /\ drifts' \in 0 .. MaxDrifts
      BY <1>12 DEF ProbeLooks, Typed
    <3> QED
      BY <3>1, <3>2, <3>3, <3>4, <3>5 DEF Typed
  <2>2. Locked' /\ Looked' /\ Sampled' /\ RequestKept'
    BY <1>12 DEF ProbeLooks, Typed, JobType, JobSteps, SampleType,
           ProbeType, ProbeSteps, Says, Ages, Kinds
  <2> QED
    BY <2>1, <2>2
<1>13. CASE ProbePublishesMemo
  <2>1. Typed'
    <3>1. probe' \in ProbeType
      BY <1>13, StepTypes DEF ProbePublishesMemo, Typed, Says, ProbeSteps
    <3>2. sample' \in SampleType
      BY <1>13, StepTypes DEF ProbePublishesMemo, Typed, Ages
    <3>3. job' \in JobType
      BY <1>13, StepTypes DEF ProbePublishesMemo, Typed, JobSteps
    <3>4. /\ cleared' \in BOOLEAN /\ requested' \in BOOLEAN
          /\ dirty' \in BOOLEAN /\ asked' \in BOOLEAN
      BY <1>13, Zenon DEF ProbePublishesMemo, Typed
    <3>5. /\ truth' \in Looks /\ memo' \in Looks \cup {NoMemo}
          /\ proxyLock' \in {"free", "job", "probe"} /\ orch' \in {"free", "job"}
          /\ worker' \in {"refresh", "probing", "sleep"}
          /\ jobs' \in 0 .. MaxJobs /\ drifts' \in 0 .. MaxDrifts
      BY <1>13 DEF ProbePublishesMemo, Typed
    <3> QED
      BY <3>1, <3>2, <3>3, <3>4, <3>5 DEF Typed
  <2>2. Locked' /\ Looked' /\ Sampled' /\ RequestKept'
    BY <1>13 DEF ProbePublishesMemo, Typed, JobType, JobSteps, SampleType,
           ProbeType, ProbeSteps, Says, Ages, Kinds
  <2> QED
    BY <2>1, <2>2
<1>14. CASE ProbeCompares
  <2>1. Typed'
    <3>1. probe' \in ProbeType
      BY <1>14, StepTypes DEF ProbeCompares, Typed, Says, ProbeSteps
    <3>2. sample' \in SampleType
      BY <1>14, StepTypes DEF ProbeCompares, Typed, Ages
    <3>3. job' \in JobType
      BY <1>14, StepTypes DEF ProbeCompares, Typed, JobSteps
    <3>4. /\ cleared' \in BOOLEAN /\ requested' \in BOOLEAN
          /\ dirty' \in BOOLEAN /\ asked' \in BOOLEAN
      BY <1>14, Zenon DEF ProbeCompares, Typed
    <3>5. /\ truth' \in Looks /\ memo' \in Looks \cup {NoMemo}
          /\ proxyLock' \in {"free", "job", "probe"} /\ orch' \in {"free", "job"}
          /\ worker' \in {"refresh", "probing", "sleep"}
          /\ jobs' \in 0 .. MaxJobs /\ drifts' \in 0 .. MaxDrifts
      BY <1>14 DEF ProbeCompares, Typed
    <3> QED
      BY <3>1, <3>2, <3>3, <3>4, <3>5 DEF Typed
  <2>2. Locked' /\ Looked' /\ Sampled' /\ RequestKept'
    BY <1>14 DEF ProbeCompares, NoProbe, Withheld, Typed, JobType, JobSteps, SampleType,
           ProbeType, ProbeSteps, Says, Ages, Kinds
  <2> QED
    BY <2>1, <2>2
<1>15. CASE ProbeCompletes
  <2>1. Typed'
    <3>1. probe' \in ProbeType
      BY <1>15, StepTypes DEF ProbeCompletes, Typed, Says, ProbeSteps
    <3>2. sample' \in SampleType
      BY <1>15, StepTypes, SampleTypes DEF ProbeCompletes, Typed
    <3>3. job' \in JobType
      BY <1>15, StepTypes DEF ProbeCompletes, Typed, JobSteps
    <3>4. /\ cleared' \in BOOLEAN /\ requested' \in BOOLEAN
          /\ dirty' \in BOOLEAN /\ asked' \in BOOLEAN
      BY <1>15, Zenon DEF ProbeCompletes, Typed
    <3>5. /\ truth' \in Looks /\ memo' \in Looks \cup {NoMemo}
          /\ proxyLock' \in {"free", "job", "probe"} /\ orch' \in {"free", "job"}
          /\ worker' \in {"refresh", "probing", "sleep"}
          /\ jobs' \in 0 .. MaxJobs /\ drifts' \in 0 .. MaxDrifts
      BY <1>15 DEF ProbeCompletes, Typed
    <3> QED
      BY <3>1, <3>2, <3>3, <3>4, <3>5 DEF Typed
  <2>2. Locked' /\ Looked' /\ Sampled' /\ RequestKept'
    BY <1>15 DEF ProbeCompletes, NoProbe, Withheld, Typed, JobType, JobSteps, SampleType,
           ProbeType, ProbeSteps, Says, Ages, Kinds
  <2> QED
    BY <2>1, <2>2
<1>16. CASE WorkerRefreshes
  <2>1. Typed'
    <3>1. probe' \in ProbeType
      BY <1>16, StepTypes DEF WorkerRefreshes, Claim, Due, Typed, Says, ProbeSteps
    <3>2. sample' \in SampleType
      BY <1>16, StepTypes DEF WorkerRefreshes, Claim, Due, Typed, Ages
    <3>3. job' \in JobType
      BY <1>16, StepTypes DEF WorkerRefreshes, Claim, Due, Typed, JobSteps
    <3>4. /\ cleared' \in BOOLEAN /\ requested' \in BOOLEAN
          /\ dirty' \in BOOLEAN /\ asked' \in BOOLEAN
      BY <1>16, Zenon DEF WorkerRefreshes, Claim, Due, Typed
    <3>5. /\ truth' \in Looks /\ memo' \in Looks \cup {NoMemo}
          /\ proxyLock' \in {"free", "job", "probe"} /\ orch' \in {"free", "job"}
          /\ worker' \in {"refresh", "probing", "sleep"}
          /\ jobs' \in 0 .. MaxJobs /\ drifts' \in 0 .. MaxDrifts
      BY <1>16 DEF WorkerRefreshes, Claim, Due, Typed
    <3> QED
      BY <3>1, <3>2, <3>3, <3>4, <3>5 DEF Typed
  <2>2. Locked' /\ Looked'
    BY <1>16 DEF WorkerRefreshes, Claim, Due, NoProbe, Typed, JobType, JobSteps, SampleType,
           ProbeType, ProbeSteps, Says, Ages, Kinds
  <2>3. Sampled' /\ RequestKept'
    BY <1>16 DEF WorkerRefreshes, Claim, Due, NoProbe, Typed, JobType, JobSteps, SampleType,
           ProbeType, ProbeSteps, Says, Ages, Kinds
  <2> QED
    BY <2>1, <2>2, <2>3
<1>17. CASE WorkerCollects
  <2>1. Typed'
    BY <1>17, StepTypes DEF WorkerCollects, Typed, JobType, JobSteps, ProbeSteps, Ages
  <2>2. Locked' /\ Looked' /\ Sampled' /\ RequestKept'
    BY <1>17 DEF WorkerCollects, Typed, JobType, JobSteps, SampleType,
           ProbeType, ProbeSteps, Says, Ages, Kinds
  <2> QED
    BY <2>1, <2>2
<1>18. CASE WorkerWakes
  <2>1. Typed'
    BY <1>18, StepTypes DEF WorkerWakes, Typed, JobType, JobSteps, ProbeSteps, Ages
  <2>2. Locked' /\ Looked' /\ Sampled' /\ RequestKept'
    BY <1>18 DEF WorkerWakes, Typed, JobType, JobSteps, SampleType,
           ProbeType, ProbeSteps, Says, Ages, Kinds
  <2> QED
    BY <2>1, <2>2
<1>19. CASE McpRefreshes
  <2>1. Typed'
    <3>1. probe' \in ProbeType
      BY <1>19, StepTypes DEF McpRefreshes, Claim, Due, Typed, Says, ProbeSteps
    <3>2. sample' \in SampleType
      BY <1>19, StepTypes DEF McpRefreshes, Claim, Due, Typed, Ages
    <3>3. job' \in JobType
      BY <1>19, StepTypes DEF McpRefreshes, Claim, Due, Typed, JobSteps
    <3>4. /\ cleared' \in BOOLEAN /\ requested' \in BOOLEAN
          /\ dirty' \in BOOLEAN /\ asked' \in BOOLEAN
      BY <1>19, Zenon DEF McpRefreshes, Claim, Due, Typed
    <3>5. /\ truth' \in Looks /\ memo' \in Looks \cup {NoMemo}
          /\ proxyLock' \in {"free", "job", "probe"} /\ orch' \in {"free", "job"}
          /\ worker' \in {"refresh", "probing", "sleep"}
          /\ jobs' \in 0 .. MaxJobs /\ drifts' \in 0 .. MaxDrifts
      BY <1>19 DEF McpRefreshes, Claim, Due, Typed
    <3> QED
      BY <3>1, <3>2, <3>3, <3>4, <3>5 DEF Typed
  <2>2. Locked' /\ Looked' /\ Sampled' /\ RequestKept'
    BY <1>19 DEF McpRefreshes, Claim, Due, NoProbe, Typed, JobType, JobSteps, SampleType,
           ProbeType, ProbeSteps, Says, Ages, Kinds
  <2> QED
    BY <2>1, <2>2
<1>20. CASE TrayFillsMemo
  <2>1. Typed'
    BY <1>20, StepTypes DEF TrayFillsMemo, Typed, JobType, JobSteps, ProbeSteps, Ages
  <2>2. Locked' /\ Looked' /\ Sampled' /\ RequestKept'
    BY <1>20 DEF TrayFillsMemo, Typed, JobType, JobSteps, SampleType,
           ProbeType, ProbeSteps, Says, Ages, Kinds
  <2> QED
    BY <2>1, <2>2
<1>21. CASE Drift
  <2>1. Typed'
    BY <1>21, StepTypes DEF Drift, Typed, JobType, JobSteps, ProbeSteps, Ages
  <2>2. Locked' /\ Looked' /\ Sampled' /\ RequestKept'
    BY <1>21 DEF Drift, Typed, JobType, JobSteps, SampleType,
           ProbeType, ProbeSteps, Says, Ages, Kinds
  <2> QED
    BY <2>1, <2>2
<1>22. CASE SampleAges
  <2>1. Typed'
    <3>1. probe' \in ProbeType
      BY <1>22, StepTypes DEF SampleAges, Typed, Says, ProbeSteps
    <3>2. sample' \in SampleType
      BY <1>22, StepTypes DEF SampleAges, Typed, Ages
    <3>3. job' \in JobType
      BY <1>22, StepTypes DEF SampleAges, Typed, JobSteps
    <3>4. /\ cleared' \in BOOLEAN /\ requested' \in BOOLEAN
          /\ dirty' \in BOOLEAN /\ asked' \in BOOLEAN
      BY <1>22, Zenon DEF SampleAges, Typed
    <3>5. /\ truth' \in Looks /\ memo' \in Looks \cup {NoMemo}
          /\ proxyLock' \in {"free", "job", "probe"} /\ orch' \in {"free", "job"}
          /\ worker' \in {"refresh", "probing", "sleep"}
          /\ jobs' \in 0 .. MaxJobs /\ drifts' \in 0 .. MaxDrifts
      BY <1>22 DEF SampleAges, Typed
    <3> QED
      BY <3>1, <3>2, <3>3, <3>4, <3>5 DEF Typed
  <2>2. Locked' /\ Looked' /\ Sampled' /\ RequestKept'
    BY <1>22 DEF SampleAges, Typed, JobType, JobSteps, SampleType,
           ProbeType, ProbeSteps, Says, Ages, Kinds
  <2> QED
    BY <2>1, <2>2
<1>23. CASE MemoExpires
  <2>1. Typed'
    BY <1>23, StepTypes DEF MemoExpires, Typed, JobType, JobSteps, ProbeSteps, Ages
  <2>2. Locked' /\ Looked' /\ Sampled' /\ RequestKept'
    BY <1>23 DEF MemoExpires, Typed, JobType, JobSteps, SampleType,
           ProbeType, ProbeSteps, Says, Ages, Kinds
  <2> QED
    BY <2>1, <2>2
<1>24. CASE UNCHANGED vars
  BY <1>24 DEF vars, Typed
<1> QED
  BY <1>1, <1>2, <1>3, <1>4, <1>5, <1>6, <1>7, <1>8, <1>9, <1>10, <1>11, <1>12, <1>13, <1>14, <1>15, <1>16, <1>17, <1>18, <1>19, <1>20, <1>21, <1>22, <1>23, <1>24 DEF Next, Job, Probe, Worker

-----------------------------------------------------------------------------
(* Locks, the look under a lock and what was sampled stand to each other   *)
(* as Locked, Looked and Sampled say.                                      *)
THEOREM ReadModelInvariant == Spec => []Inv
BY Initially, Preserved, PTL DEF Spec

(* Every variable keeps its type, for any bounds.                          *)
THEOREM TypeCorrect == Spec => []TypeOK
<1>1. Inv => TypeOK
  <2> SUFFICES ASSUME Inv PROVE TypeOK
    OBVIOUS
  <2>1. {requested, dirty, asked} \subseteq BOOLEAN
    BY Zenon DEF Inv, Typed
  <2> QED
    BY <2>1 DEF Inv, Typed, JobType, JobSteps, SampleType, ProbeType, ProbeSteps, TypeOK
<1> QED
  BY <1>1, ReadModelInvariant, PTL

(* However many mutations there are, no probe refills the memo that one of *)
(* them dropped with what it saw before (cached_system_proxy_applied).     *)
THEOREM MemoIsAfterClear == Spec => []MemoAfterClear
<1>1. Inv => MemoAfterClear
  BY DEF Inv, Looked
<1> QED
  BY <1>1, ReadModelInvariant, PTL

(* However many mutations there are, no probe that began before or during  *)
(* one is served after it (begin_refresh, complete_probe).                 *)
THEOREM ServedAfterMutation == Spec => []ServedIsTrue
<1>1. Inv => ServedIsTrue
  BY DEF Inv, Sampled, ServedIsTrue, Served
<1> QED
  BY <1>1, ReadModelInvariant, PTL

(* No attempt to probe consumes a request it does not serve.               *)
THEOREM RequestsKept == Spec => []RequestKept
<1>1. Inv => RequestKept
  BY DEF Inv
<1> QED
  BY <1>1, ReadModelInvariant, PTL
=============================================================================
