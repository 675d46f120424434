--------------------------- MODULE CaptureProofs ----------------------------
(***************************************************************************)
(* Proofs about CaptureController for every set of faults: the types, what *)
(* the controller claims, and, when the coordinator can always stop the    *)
(* elevated core, the write-ahead discipline of the TUN journal.  When the *)
(* OS proxy and its record can be changed, TUN and the proxy exclude each  *)
(* other and a recovery that succeeds settles.  README, section 6, shows   *)
(* what becomes of these where an assumption is dropped.                   *)
(***************************************************************************)
EXTENDS CaptureController, Naturals, TLAPS

(***************************************************************************)
(* The outcome sets stay within the types.                                 *)
(***************************************************************************)
LEMMA StopOutcomesType ==
  ASSUME NEW c \in CoreStates, NEW t \in TunStates
  PROVE  StopOutcomes(c, t) \subseteq CoreStates
  BY DEF StopOutcomes, CoreStates

LEMMA StartOutcomesType ==
  ASSUME NEW c \in CoreStates, NEW t \in TunStates
  PROVE  StartOutcomes(c, t) \subseteq CoreStates
  BY DEF StartOutcomes, CoreStates

LEMMA HandleForType ==
  ASSUME NEW c \in CoreStates, NEW t \in TunStates
  PROVE  HandleFor(c, t) \in CoreStates
  BY DEF HandleFor, Orphaned, CoreStates

LEMMA TunOutcomesType ==
  ASSUME tun \in TunStates
  PROVE  AfterElevatedExit \subseteq TunStates /\ AfterFailedRestore \subseteq TunStates
  BY DEF AfterElevatedExit, AfterFailedRestore, TunStates

LEMMA JournalType ==
  ASSUME NEW s \in JournalStates, NEW n \in BOOLEAN
  PROVE  Journal(s, n) \in JournalRecords
  BY DEF Journal, JournalRecords

LEMMA JournalRecordsType ==
  {CleanJournal, IntentSaved, NamesSaved} \subseteq JournalRecords
  BY JournalType DEF CleanJournal, IntentSaved, NamesSaved, JournalStates

LEMMA MarkType ==
  ASSUME journal \in JournalRecords, NEW s \in JournalStates
  PROVE  Mark(s) \in JournalRecords
  BY DEF Mark, JournalRecords

(***************************************************************************)
(* What a proxy call leaves, and where control goes after a release.       *)
(***************************************************************************)
RecordStates == {"clear", "pending", "applied"}

LEMMA RestoreCutShortType ==
  ASSUME TypeOK, RestoreCutShort
  PROVE  record' \in RecordStates /\ proxied' \in BOOLEAN
  <1>1. record' \in RecordStates
    BY DEF TypeOK, RecordStates, RestoreCutShort
  <1>2. proxied' \in BOOLEAN
    BY Zenon DEF TypeOK, RestoreCutShort
  <1> QED BY <1>1, <1>2

LEMMA ApplyCutShortType ==
  ASSUME TypeOK, ApplyCutShort
  PROVE  record' \in RecordStates /\ proxied' \in BOOLEAN
  <1>1. CASE RestoreCutShort
    BY <1>1, RestoreCutShortType
  <1>2. CASE ~RestoreCutShort
    <2>1. GivenBack(TRUE) \subseteq BOOLEAN
      BY DEF GivenBack
    <2> QED BY <1>2, <2>1, Zenon DEF ApplyCutShort, RecordStates
  <1> QED BY <1>1, <1>2

LEMMA ProxyOutcomesType ==
  ASSUME TypeOK, ProxyRestored \/ ProxyRestoreFails \/ ProxyApplyFails
  PROVE  record' \in RecordStates /\ proxied' \in BOOLEAN
  <1>1. CASE ProxyRestored
    BY <1>1, Zenon DEF TypeOK, ProxyRestored, GivenBack, RecordStates
  <1>2. CASE ProxyRestoreFails
    BY <1>2, RestoreCutShortType DEF ProxyRestoreFails
  <1>3. CASE ProxyApplyFails
    BY <1>3, ApplyCutShortType DEF ProxyApplyFails
  <1> QED BY <1>1, <1>2, <1>3

LEMMA CallReleaseType ==
  ASSUME TypeOK, NEW j \in Jobs, CallRelease(j)
  PROVE  job' \in Jobs /\ pc' \in Steps /\ result' \in {"ok", "err"}
  <1>1. active \in {"tun", "proxy", "inactive"}
    BY DEF TypeOK, Backends
  <1>2. CASE active = "tun"
    BY <1>2 DEF CallRelease, Call, TypeOK, Steps
  <1>3. CASE active = "proxy"
    BY <1>3 DEF CallRelease, Call, TypeOK, Steps
  <1>4. CASE active = "inactive"
    BY <1>4 DEF CallRelease, Call, TypeOK, Steps
  <1> QED BY <1>1, <1>2, <1>3, <1>4


LEMMA InitTypeOK == Init => TypeOK
  <1> SUFFICES ASSUME Init PROVE TypeOK
    OBVIOUS
  <1>1. journal \in JournalRecords
    BY JournalType DEF Init, JournalStates
  <1> QED
    BY <1>1 DEF Init, TypeOK, Backends, Statuses, CoreStates, TunStates, Jobs,
        Steps

LEMMA EnableTunTypeOK ==
  ASSUME TypeOK, EnableTun PROVE TypeOK'
  <1> USE DEF TypeOK
  <1>1. CASE EnableGuard
    BY <1>1
       DEF EnableGuard, At, Goto, memory, claims, tunState, request, control,
           Steps, Statuses, Backends, Claim, Return
  <1>2. CASE Reclaim
    BY <1>2, TunOutcomesType, HandleForType
       DEF Reclaim, At, Goto, memory, claims, tunState, request, control,
           Steps, Statuses, Backends, Claim, Return
  <1>3. CASE SaveIntent
    BY <1>3, JournalRecordsType, StartOutcomesType
       DEF SaveIntent, At, Goto, memory, claims, tunState, request, control,
           Steps, Statuses, Backends, EnableFails, FailureStatus, Claim,
           Return, JournalStates
  <1>4. CASE Prepare
    BY <1>4
       DEF Prepare, At, Goto, memory, claims, tunState, request, control,
           Steps, Statuses, Backends
  <1>5. CASE ReleaseCore
    BY <1>5, StopOutcomesType
       DEF ReleaseCore, At, Goto, memory, claims, tunState, request, control,
           Steps, Statuses, Backends
  <1>6. CASE Apply
    BY <1>6
       DEF Apply, At, Goto, memory, claims, tunState, request, control, Steps,
           Statuses, Backends, TunStates
  <1>7. CASE Observe
    BY <1>7, JournalRecordsType
       DEF Observe, At, Goto, memory, claims, tunState, request, control,
           Steps, Statuses, Backends, TunStates, JournalStates
  <1>8. CASE Adopt
    BY <1>8
       DEF Adopt, At, Goto, memory, claims, tunState, request, control, Steps,
           Statuses, Backends, CoreStates
  <1>9. CASE Unadopt
    BY <1>9, JournalRecordsType, MarkType, StartOutcomesType, TunOutcomesType
       DEF Unadopt, At, Goto, memory, claims, tunState, request, control,
           Steps, Statuses, Backends, EnableFails, FailureStatus, Claim,
           Return, TryMark, TunStates, JournalStates
  <1>10. CASE Verify
    BY <1>10, StartOutcomesType
       DEF Verify, At, Goto, memory, claims, tunState, request, control, Steps,
           Statuses, Backends, EnableFails, FailureStatus, Claim, Return
  <1>11. CASE Unverify
    BY <1>11, MarkType, StopOutcomesType, StartOutcomesType, TunOutcomesType
       DEF Unverify, At, Goto, memory, claims, tunState, request, control,
           Steps, Statuses, Backends, EnableFails, FailureStatus, Claim,
           Return, TryMark, TunStates, JournalStates
  <1>12. CASE MarkApplied
    BY <1>12, MarkType, StartOutcomesType
       DEF MarkApplied, At, Goto, memory, claims, tunState, request, control,
           Steps, Statuses, Backends, EnableFails, FailureStatus, Claim,
           Return, JournalStates
  <1>13. CASE Refuse
    BY <1>13, JournalRecordsType, StartOutcomesType
       DEF Refuse, At, Goto, memory, claims, tunState, request, control, Steps,
           Statuses, Backends, EnableFails, FailureStatus, Claim, Return,
           TryMark
  <1>14. CASE MarkError
    BY <1>14, MarkType, StartOutcomesType
       DEF MarkError, At, Goto, memory, claims, tunState, request, control,
           Steps, Statuses, Backends, EnableFails, FailureStatus, Claim,
           Return, TryMark, JournalStates
  <1> QED BY <1>1, <1>2, <1>3, <1>4, <1>5, <1>6, <1>7, <1>8, <1>9, <1>10,
      <1>11, <1>12, <1>13, <1>14 DEF EnableTun

LEMMA DisableTunTypeOK ==
  ASSUME TypeOK, DisableTun PROVE TypeOK'
  <1> USE DEF TypeOK
  <1>1. CASE Disable
    BY <1>1, MarkType
       DEF Disable, At, Goto, memory, claims, tunState, request, control,
           Steps, Statuses, Backends, Claim, Return, JournalStates
  <1>2. CASE Restore
    BY <1>2, MarkType, HandleForType, StopOutcomesType, TunOutcomesType
       DEF Restore, At, Goto, memory, claims, tunState, request, control,
           Steps, Statuses, Backends, Claim, Return, Unconfirmed, TryMark,
           TunStates, JournalStates
  <1>3. CASE MarkClean
    BY <1>3, JournalRecordsType
       DEF MarkClean, At, Goto, memory, claims, tunState, request, control,
           Steps, Statuses, Backends, Claim, Return
  <1>4. CASE RestartDiagnostic
    BY <1>4, StartOutcomesType
       DEF RestartDiagnostic, At, Goto, memory, claims, tunState, request,
           control, Steps, Statuses, Backends, Return
  <1> QED BY <1>1, <1>2, <1>3, <1>4 DEF DisableTun

LEMMA SystemProxyTypeOK ==
  ASSUME TypeOK, SystemProxy PROVE TypeOK'
  <1> USE DEF TypeOK
  <1>1. CASE ProxyGuard
    BY <1>1
       DEF ProxyGuard, At, Goto, memory, claims, tunState, request, control,
           Steps, Statuses, Backends, Claim, Return
  <1>2. CASE ProxyApply
    <2>1. record' \in RecordStates
      BY <1>2, ProxyOutcomesType DEF ProxyApply, RecordStates
    <2>2. proxied' \in BOOLEAN
      BY <1>2, ProxyOutcomesType, Zenon DEF ProxyApply
    <2> QED
      BY <1>2, <2>1, <2>2
         DEF ProxyApply, At, Goto, memory, tunState, request, Steps, Return,
             RecordStates
  <1>3. CASE ProxySave
    BY <1>3
       DEF ProxySave, At, Goto, memory, claims, tunState, request, control,
           Steps, Statuses, Backends, Claim, Return
  <1>4. CASE ProxyRestore
    BY <1>4, ProxyOutcomesType
       DEF ProxyRestore, At, Goto, memory, claims, tunState, request, control,
           Steps, Statuses, Backends, Claim, Return, RecordStates
  <1> QED BY <1>1, <1>2, <1>3, <1>4 DEF SystemProxy

LEMMA DriveTypeOK ==
  ASSUME TypeOK, Drive PROVE TypeOK'
  <1> USE DEF TypeOK
  <1>1. journal' \in JournalRecords /\ tun' \in TunStates
    BY JournalRecordsType, MarkType, TunOutcomesType
       DEF Drive, Recovered, TryMark, tunState, TunStates, JournalStates
  <1>2. core' \in CoreStates
    BY <1>1, HandleForType DEF Drive, Recovered, tunState, TunStates
  <1>3. /\ active' \in Backends /\ status' \in Statuses
        /\ pc' = "return" /\ result' \in {"ok", "err"}
        /\ UNCHANGED job
    BY DEF Drive, Recovered, Baseline, RecoveryUnverified, Claim, Return,
           memory, Statuses, Backends
  <1>4. UNCHANGED <<up, record, proxied, desired, goal, prev, reaped>>
        /\ pending' = FALSE
    BY DEF Drive, claims
  <1> QED
    BY <1>1, <1>2, <1>3, <1>4 DEF Steps

LEMMA JobBeginsTypeOK ==
  ASSUME TypeOK, JobBegins PROVE TypeOK'
  <1> USE DEF TypeOK
  <1>1. CASE StartService
    BY <1>1
       DEF StartService, At, Goto, memory, claims, tunState, request, control,
           Steps, Statuses, Backends, Jobs, Call, End, Returned, Idle
  <1>2. CASE StopService
    BY <1>2, CallReleaseType
       DEF StopService, At, Goto, memory, claims, tunState, request, control,
           Steps, Statuses, Backends, Jobs, Call, End, Returned, Idle
  <1>3. CASE GracefulStop
    BY <1>3
       DEF GracefulStop, At, Goto, memory, claims, tunState, request, control,
           Steps, Statuses, Backends, Jobs, Call, End, Returned, Idle
  <1>4. CASE ApplyConfig
    BY <1>4
       DEF ApplyConfig, At, Goto, memory, claims, tunState, request, control,
           Steps, Statuses, Backends, Jobs, Call, End, Returned, Idle
  <1>5. CASE ApplyWhileTunActive
    BY <1>5
       DEF ApplyWhileTunActive, At, Goto, memory, claims, tunState, request,
           control, Steps, Statuses, Backends, Jobs, Call, End, Returned, Idle
  <1>6. CASE SaveWhileInactive
    BY <1>6
       DEF SaveWhileInactive, At, Goto, memory, claims, tunState, request,
           control, Steps, Statuses, Backends, Jobs, Call, End, Returned, Idle
  <1>7. CASE \E want \in BOOLEAN : SaveWhileActive(want)
    BY <1>7, CallReleaseType
       DEF SaveWhileActive, At, Goto, memory, claims, tunState, request,
           control, Steps, Statuses, Backends, Jobs, Call, End, Returned, Idle,
           Commit
  <1>8. CASE RecoverTun
    BY <1>8
       DEF RecoverTun, At, Goto, memory, claims, tunState, request, control,
           Steps, Statuses, Backends, Jobs, Call, End, Returned, Idle
  <1>9. CASE Launch
    BY <1>9
       DEF Launch, At, Goto, memory, claims, tunState, request, control, Steps,
           Statuses, Backends, Jobs, Call, End, Returned
  <1> QED BY <1>1, <1>2, <1>3, <1>4, <1>5, <1>6, <1>7, <1>8, <1>9 DEF JobBegins

(***************************************************************************)
(* The steps of a switch.                                                  *)
(***************************************************************************)
LEMMA UndoType ==
  ASSUME TypeOK, NEW j \in Jobs, CallPrevious(j) \/ Undo
  PROVE  job' \in Jobs /\ pc' \in Steps /\ result' \in {"ok", "err"}
  BY DEF TypeOK, CallPrevious, Undo, Call, Jobs, Steps

Controlled ==
  /\ active' \in Backends /\ status' \in Statuses
  /\ desired' \in BOOLEAN /\ pending' \in BOOLEAN /\ goal' \in BOOLEAN
  /\ prev' \in Backends
  /\ job' \in Jobs /\ pc' \in Steps /\ result' \in {"ok", "err"}

LEMMA SwitchReturnsType == ASSUME TypeOK, SwitchReturns PROVE Controlled
  <1>1. active' \in Backends /\ status' \in Statuses
    BY DEF TypeOK, SwitchReturns, memory
  <1>2. prev' \in Backends /\ goal' \in BOOLEAN
    BY DEF TypeOK, SwitchReturns, request
  <1>3. desired' \in BOOLEAN /\ pending' \in BOOLEAN
    BY Zenon DEF TypeOK, SwitchReturns, Commit, request
  <1>4. job' \in Jobs /\ pc' \in Steps /\ result' \in {"ok", "err"}
    BY UndoType, CallReleaseType
       DEF TypeOK, SwitchReturns, Call, End, Jobs, Steps
  <1> QED BY <1>1, <1>2, <1>3, <1>4 DEF Controlled

LEMMA UndoReturnsType == ASSUME TypeOK, UndoReturns PROVE Controlled
  <1>1. active' \in Backends /\ status' \in Statuses
    BY DEF TypeOK, UndoReturns, Proceed, GiveUp, Claim, memory, Backends,
        Statuses
  <1>2. prev' \in Backends /\ goal' \in BOOLEAN /\ desired' \in BOOLEAN
    BY DEF TypeOK, UndoReturns, request
  <1>3. pending' \in BOOLEAN
    BY Zenon DEF TypeOK, UndoReturns, request
  <1>4. job' \in Jobs /\ pc' \in Steps /\ result' \in {"ok", "err"}
    BY UndoType DEF TypeOK, UndoReturns, GiveUp, End, Jobs, Steps
  <1> QED BY <1>1, <1>2, <1>3, <1>4 DEF Controlled

LEMMA JobStepTypeOK ==
  ASSUME TypeOK, JobStep PROVE TypeOK'
  <1> USE DEF TypeOK
  <1>1. CASE StartCore
    BY <1>1, StartOutcomesType
       DEF StartCore, At, Goto, memory, claims, tunState, request, control,
           Steps, Statuses, Backends, Jobs, Call, End, Returned
  <1>2. CASE StartReturns
    BY <1>2, CallReleaseType
       DEF StartReturns, At, Goto, memory, claims, tunState, request, control,
           Steps, Statuses, Backends, Jobs, Call, End, Returned
  <1>3. CASE QuitCore
    BY <1>3, StopOutcomesType
       DEF QuitCore, At, Goto, memory, claims, tunState, request, control,
           Steps, Statuses, Backends, Jobs, Call, End, Returned
  <1>4. CASE QuitProxy
    BY <1>4, ProxyOutcomesType
       DEF QuitProxy, At, Goto, memory, claims, tunState, request, control,
           Steps, Statuses, Backends, Jobs, Call, End, Returned, RecordStates
  <1>5. CASE Reload
    BY <1>5, ProxyOutcomesType
       DEF Reload, At, Goto, memory, claims, tunState, request, control, Steps,
           Statuses, Backends, Jobs, Call, End, Returned, RecordStates,
           CoreStates
  <1>6. CASE ApplyReturns
    BY <1>6
       DEF ApplyReturns, At, Goto, memory, claims, tunState, request, control,
           Steps, Statuses, Backends, Jobs, Call, End, Returned, Proceed,
           GiveUp, Claim
  <1>7. CASE TransitionReturns
    BY <1>7, SwitchReturnsType, UndoReturnsType
       DEF TransitionReturns, At, Goto, memory, claims, tunState, request,
           control, Steps, Statuses, Backends, Jobs, Call, End, Returned,
           Controlled
  <1>8. CASE LaunchProxy
    BY <1>8, ProxyOutcomesType
       DEF LaunchProxy, At, Goto, memory, claims, tunState, request, control,
           Steps, Statuses, Backends, Jobs, Call, End, Returned, RecordStates,
           Claim
  <1>9. CASE LaunchReclaim
    BY <1>9, TunOutcomesType
       DEF LaunchReclaim, At, Goto, memory, claims, tunState, request, control,
           Steps, Statuses, Backends, Jobs, Call, End, Returned
  <1>10. CASE JobReturns
    BY <1>10
       DEF JobReturns, At, Goto, memory, claims, tunState, request, control,
           Steps, Statuses, Backends, Jobs, Call, End, Returned
  <1>11. CASE WatchMark
    BY <1>11, MarkType
       DEF WatchMark, At, Goto, memory, claims, tunState, request, control,
           Steps, Statuses, Backends, Jobs, Call, End, Returned, TryMark,
           RecoveryUnverified, Claim, Return, JournalStates
  <1>12. CASE WatchRestore
    BY <1>12, JournalRecordsType, MarkType, TunOutcomesType, StopOutcomesType
       DEF WatchRestore, At, Goto, memory, claims, tunState, request, control,
           Steps, Statuses, Backends, Jobs, Call, End, Returned, TryMark,
           RecoveryUnverified, Claim, Return, JournalStates, TunStates
  <1> QED BY <1>1, <1>2, <1>3, <1>4, <1>5, <1>6, <1>7, <1>8, <1>9, <1>10,
      <1>11, <1>12 DEF JobStep

LEMMA WatchdogTypeOK ==
  ASSUME TypeOK, Watchdog PROVE TypeOK'
  <1> USE DEF TypeOK
  <1>1. CASE WatchReap
    BY <1>1
       DEF WatchReap, At, Goto, memory, claims, tunState, request, control,
           Steps, Statuses, Backends, Jobs, Call, End, Returned, CoreStates
  <1>2. CASE WatchDecide
    BY <1>2
       DEF WatchDecide, At, Goto, memory, claims, tunState, request, control,
           Steps, Statuses, Backends, Jobs, Call, End, Returned
  <1>3. CASE WatchProxy
    BY <1>3, ProxyOutcomesType
       DEF WatchProxy, At, Goto, memory, claims, tunState, request, control,
           Steps, Statuses, Backends, Jobs, Call, End, Returned, RecordStates
  <1>4. CASE WatchTun
    BY <1>4
       DEF WatchTun, At, Goto, memory, claims, tunState, request, control,
           Steps, Statuses, Backends, Jobs, Call, End, Returned
  <1> QED BY <1>1, <1>2, <1>3, <1>4 DEF Watchdog

LEMMA EnvironmentTypeOK ==
  ASSUME TypeOK, Environment PROVE TypeOK'
  <1> USE DEF TypeOK
  <1>1. CASE CoreExits
    BY <1>1
       DEF CoreExits, At, Goto, memory, claims, tunState, request, control,
           Steps, Statuses, Backends, Jobs, Call, End, Returned, CoreStates
  <1>2. CASE ElevatedCoreExits
    BY <1>2, TunOutcomesType
       DEF ElevatedCoreExits, At, Goto, memory, claims, tunState, request,
           control, Steps, Statuses, Backends, Jobs, Call, End, Returned,
           Orphaned, CoreStates
  <1>3. CASE Crash
    <2>1. record' \in RecordStates /\ proxied' \in BOOLEAN
      <3>1. CASE UNCHANGED claims
        BY <1>3, <3>1, Zenon DEF claims, RecordStates
      <3>2. CASE ProxyCutShort
        BY <3>2, RestoreCutShortType, ApplyCutShortType DEF ProxyCutShort
      <3> QED BY <1>3, <3>1, <3>2 DEF Crash
    <2> QED
      BY <1>3, <2>1
         DEF Crash, request, Steps, Statuses, Backends, Jobs, End, CoreStates,
             RecordStates
  <1>4. CASE JournalUnreadable
    BY <1>4, MarkType
       DEF JournalUnreadable, At, Goto, memory, claims, tunState, request,
           control, Steps, Statuses, Backends, Jobs, Call, End, Returned,
           JournalStates
  <1> QED BY <1>1, <1>2, <1>3, <1>4 DEF Environment

LEMMA StutterTypeOK == ASSUME TypeOK, UNCHANGED vars PROVE TypeOK'
  BY DEF TypeOK, vars

LEMMA NextTypeOK == ASSUME TypeOK, [Next]_vars PROVE TypeOK'
  BY EnableTunTypeOK, DisableTunTypeOK, SystemProxyTypeOK, DriveTypeOK,
     JobBeginsTypeOK, JobStepTypeOK, WatchdogTypeOK, EnvironmentTypeOK,
     StutterTypeOK
     DEF Next, Procedure

(* Every variable keeps its type, whatever faults occur.                   *)
THEOREM TypeCorrect == Spec => []TypeOK
  <1>1. TypeOK /\ [Next]_vars => TypeOK'
    BY NextTypeOK
  <1> QED BY InitTypeOK, <1>1, PTL DEF Spec

-----------------------------------------------------------------------------
(***************************************************************************)
(* The write-ahead discipline                                              *)
(***************************************************************************)
NoElevated == ~Can("elevated")

(* EvidenceKept is not inductive: it has to be known at which steps of a   *)
(* job nothing of TUN exists, where the intent is already on disk, and     *)
(* that a journal which does not name what was created is met only while   *)
(* the app is down, at launch, or between apply and the names' record.     *)
Quiet ==
  pc \in {"reclaim", "saveIntent", "prepare", "release", "apply", "refuse",
          "deny", "markClean"} => tun = "none"
Noted == pc \in {"prepare", "release", "apply"} => Outstanding(journal)
Named ==
  tun # "none" /\ ~journal.named
    => /\ tun = "held"
       /\ ~up \/ pc \in {"observe", "launchProxy", "launchReclaim"}

Resting == job = "idle" => pc = "idle"

EvidenceInv == TypeOK /\ EvidenceKept /\ Quiet /\ Noted /\ Named /\ Resting

LEMMA CallReleaseEffect ==
  ASSUME TypeOK, NEW j \in Jobs, CallRelease(j)
  PROVE  job' = j /\ pc' \in {"disable", "proxyRestore", "return"}
  <1>1. active \in {"tun", "proxy", "inactive"}
    BY DEF TypeOK, Backends
  <1>2. CASE active = "tun"
    BY <1>2 DEF CallRelease, Call
  <1>3. CASE active = "proxy"
    BY <1>3 DEF CallRelease, Call
  <1>4. CASE active = "inactive"
    BY <1>4 DEF CallRelease, Call
  <1> QED BY <1>1, <1>2, <1>3, <1>4

LEMMA UndoEffect ==
  ASSUME NEW j \in Jobs \ {"idle"}, CallPrevious(j) \/ Undo
  PROVE  job' # "idle" /\ pc' \in {"drive", "enableGuard", "proxyGuard", "return"}
  BY DEF CallPrevious, Undo, Call

LEMMA JournalFacts ==
  /\ CleanJournal.state = "clean" /\ ~CleanJournal.named
  /\ IntentSaved.state = "preparing" /\ ~IntentSaved.named
  /\ NamesSaved.state = "preparing" /\ NamesSaved.named
  BY DEF CleanJournal, IntentSaved, NamesSaved, Journal

LEMMA MarkFacts ==
  ASSUME journal \in JournalRecords, NEW s \in JournalStates
  PROVE  Mark(s).state = s /\ Mark(s).named = journal.named
  BY DEF Mark, JournalRecords

LEMMA ElevatedExit ==
  ASSUME NoElevated, TypeOK, Named,
         NEW t \in AfterElevatedExit \cup AfterFailedRestore
  PROVE  /\ t \in {"none", "residue"}
         /\ t = "residue" => tun # "none" /\ journal.named
  BY DEF NoElevated, TypeOK, Named, AfterElevatedExit, AfterFailedRestore,
         TunStates

LEMMA EnableTunEvidence ==
  ASSUME NoElevated, EvidenceInv, EnableTun PROVE EvidenceInv'
  <1>1. TypeOK'
    BY NextTypeOK DEF EvidenceInv, Next, Procedure, vars
  <1> USE DEF EvidenceInv, TypeOK, EvidenceKept, Quiet, Noted, Named, Resting,
      Outstanding
  <1>2. CASE EnableGuard
    BY <1>1, <1>2, JournalFacts, MarkFacts, ElevatedExit
       DEF EnableGuard, At, Goto, memory, claims, tunState, request, control,
           TryMark, JournalStates, Return, EnableFails, NoElevated, TunStates
  <1>3. CASE Reclaim
    BY <1>1, <1>3, JournalFacts, MarkFacts, ElevatedExit
       DEF Reclaim, At, Goto, memory, claims, tunState, request, control,
           TryMark, JournalStates, Return, EnableFails, NoElevated, TunStates
  <1>4. CASE SaveIntent
    BY <1>1, <1>4, JournalFacts, MarkFacts, ElevatedExit
       DEF SaveIntent, At, Goto, memory, claims, tunState, request, control,
           TryMark, JournalStates, Return, EnableFails, NoElevated, TunStates
  <1>5. CASE Prepare
    BY <1>1, <1>5, JournalFacts, MarkFacts, ElevatedExit
       DEF Prepare, At, Goto, memory, claims, tunState, request, control,
           TryMark, JournalStates, Return, EnableFails, NoElevated, TunStates
  <1>6. CASE ReleaseCore
    BY <1>1, <1>6, JournalFacts, MarkFacts, ElevatedExit
       DEF ReleaseCore, At, Goto, memory, claims, tunState, request, control,
           TryMark, JournalStates, Return, EnableFails, NoElevated, TunStates
  <1>7. CASE Apply
    BY <1>1, <1>7, JournalFacts, MarkFacts, ElevatedExit
       DEF Apply, At, Goto, memory, claims, tunState, request, control,
           TryMark, JournalStates, Return, EnableFails, NoElevated, TunStates
  <1>8. CASE Observe
    BY <1>1, <1>8, JournalFacts, MarkFacts, ElevatedExit
       DEF Observe, At, Goto, memory, claims, tunState, request, control,
           TryMark, JournalStates, Return, EnableFails, NoElevated, TunStates
  <1>9. CASE Adopt
    BY <1>1, <1>9, JournalFacts, MarkFacts, ElevatedExit
       DEF Adopt, At, Goto, memory, claims, tunState, request, control,
           TryMark, JournalStates, Return, EnableFails, NoElevated, TunStates
  <1>10. CASE Unadopt
    BY <1>1, <1>10, JournalFacts, MarkFacts, ElevatedExit
       DEF Unadopt, At, Goto, memory, claims, tunState, request, control,
           TryMark, JournalStates, Return, EnableFails, NoElevated, TunStates
  <1>11. CASE Verify
    BY <1>1, <1>11, JournalFacts, MarkFacts, ElevatedExit
       DEF Verify, At, Goto, memory, claims, tunState, request, control,
           TryMark, JournalStates, Return, EnableFails, NoElevated, TunStates
  <1>12. CASE Unverify
    BY <1>1, <1>12, JournalFacts, MarkFacts, ElevatedExit
       DEF Unverify, At, Goto, memory, claims, tunState, request, control,
           TryMark, JournalStates, Return, EnableFails, NoElevated, TunStates
  <1>13. CASE MarkApplied
    BY <1>1, <1>13, JournalFacts, MarkFacts, ElevatedExit
       DEF MarkApplied, At, Goto, memory, claims, tunState, request, control,
           TryMark, JournalStates, Return, EnableFails, NoElevated, TunStates
  <1>14. CASE Refuse
    BY <1>1, <1>14, JournalFacts, MarkFacts, ElevatedExit
       DEF Refuse, At, Goto, memory, claims, tunState, request, control,
           TryMark, JournalStates, Return, EnableFails, NoElevated, TunStates
  <1>15. CASE MarkError
    BY <1>1, <1>15, JournalFacts, MarkFacts, ElevatedExit
       DEF MarkError, At, Goto, memory, claims, tunState, request, control,
           TryMark, JournalStates, Return, EnableFails, NoElevated, TunStates
  <1> QED BY <1>2, <1>3, <1>4, <1>5, <1>6, <1>7, <1>8, <1>9, <1>10, <1>11,
      <1>12, <1>13, <1>14, <1>15 DEF EnableTun

LEMMA DisableTunEvidence ==
  ASSUME NoElevated, EvidenceInv, DisableTun PROVE EvidenceInv'
  <1>1. TypeOK'
    BY NextTypeOK DEF EvidenceInv, Next, Procedure, vars
  <1> USE DEF EvidenceInv, TypeOK, EvidenceKept, Quiet, Noted, Named, Resting,
      Outstanding
  <1>2. CASE Disable
    BY <1>1, <1>2, JournalFacts, MarkFacts, ElevatedExit
       DEF Disable, At, Goto, memory, claims, tunState, request, control,
           TryMark, JournalStates, Return, Claim, Unconfirmed, NoElevated
  <1>3. CASE Restore
    BY <1>1, <1>3, JournalFacts, MarkFacts, ElevatedExit
       DEF Restore, At, Goto, memory, claims, tunState, request, control,
           TryMark, JournalStates, Return, Claim, Unconfirmed, NoElevated
  <1>4. CASE MarkClean
    BY <1>1, <1>4, JournalFacts, MarkFacts, ElevatedExit
       DEF MarkClean, At, Goto, memory, claims, tunState, request, control,
           TryMark, JournalStates, Return, Claim, Unconfirmed, NoElevated
  <1>5. CASE RestartDiagnostic
    BY <1>1, <1>5, JournalFacts, MarkFacts, ElevatedExit
       DEF RestartDiagnostic, At, Goto, memory, claims, tunState, request,
           control, TryMark, JournalStates, Return, Claim, Unconfirmed,
           NoElevated
  <1> QED BY <1>2, <1>3, <1>4, <1>5 DEF DisableTun

LEMMA SystemProxyEvidence ==
  ASSUME NoElevated, EvidenceInv, SystemProxy PROVE EvidenceInv'
  <1>1. TypeOK'
    BY NextTypeOK DEF EvidenceInv, Next, Procedure, vars
  <1> USE DEF EvidenceInv, TypeOK, EvidenceKept, Quiet, Noted, Named, Resting,
      Outstanding
  <1>2. CASE ProxyGuard
    BY <1>1, <1>2, JournalFacts, MarkFacts, ElevatedExit
       DEF ProxyGuard, At, Goto, memory, claims, tunState, request, control,
           TryMark, JournalStates, Return
  <1>3. CASE ProxyApply
    BY <1>1, <1>3, JournalFacts, MarkFacts, ElevatedExit
       DEF ProxyApply, At, Goto, memory, claims, tunState, request, control,
           TryMark, JournalStates, Return
  <1>4. CASE ProxySave
    BY <1>1, <1>4, JournalFacts, MarkFacts, ElevatedExit
       DEF ProxySave, At, Goto, memory, claims, tunState, request, control,
           TryMark, JournalStates, Return
  <1>5. CASE ProxyRestore
    BY <1>1, <1>5, JournalFacts, MarkFacts, ElevatedExit
       DEF ProxyRestore, At, Goto, memory, claims, tunState, request, control,
           TryMark, JournalStates, Return
  <1> QED BY <1>2, <1>3, <1>4, <1>5 DEF SystemProxy

LEMMA DriveEvidence ==
  ASSUME NoElevated, EvidenceInv, Drive PROVE EvidenceInv'
  <1>1. TypeOK'
    BY NextTypeOK DEF EvidenceInv, Next, Procedure
  <1> QED
    BY <1>1, JournalFacts, MarkFacts, ElevatedExit
       DEF Drive, Recovered, Baseline, RecoveryUnverified, VerifiedGone,
           TryMark, Return, At, tunState, EvidenceInv, TypeOK, EvidenceKept,
           Quiet, Noted, Named, Resting, Outstanding, JournalStates, NoElevated

LEMMA JobBeginsEvidence ==
  ASSUME NoElevated, EvidenceInv, JobBegins PROVE EvidenceInv'
  <1>1. TypeOK'
    BY NextTypeOK DEF EvidenceInv, Next, Procedure, vars
  <1> USE DEF EvidenceInv, TypeOK, EvidenceKept, Quiet, Noted, Named, Resting,
      Outstanding
  <1>2. CASE StartService
    BY <1>1, <1>2, JournalFacts, MarkFacts, ElevatedExit
       DEF StartService, At, Goto, memory, claims, tunState, request, control,
           TryMark, JournalStates, Return, Call, End, Returned, Idle
  <1>3. CASE StopService
    BY <1>1, <1>3, CallReleaseEffect
       DEF StopService, At, Goto, memory, claims, tunState, request, control,
           TryMark, JournalStates, Return, Call, End, Returned, Idle, Jobs
  <1>4. CASE GracefulStop
    BY <1>1, <1>4, JournalFacts, MarkFacts, ElevatedExit
       DEF GracefulStop, At, Goto, memory, claims, tunState, request, control,
           TryMark, JournalStates, Return, Call, End, Returned, Idle, Jobs
  <1>5. CASE ApplyConfig
    BY <1>1, <1>5, JournalFacts, MarkFacts, ElevatedExit
       DEF ApplyConfig, At, Goto, memory, claims, tunState, request, control,
           TryMark, JournalStates, Return, Call, End, Returned, Idle
  <1>6. CASE ApplyWhileTunActive
    BY <1>1, <1>6, JournalFacts, MarkFacts, ElevatedExit
       DEF ApplyWhileTunActive, At, Goto, memory, claims, tunState, request,
           control, TryMark, JournalStates, Return, Call, End, Returned, Idle
  <1>7. CASE SaveWhileInactive
    BY <1>1, <1>7, JournalFacts, MarkFacts, ElevatedExit
       DEF SaveWhileInactive, At, Goto, memory, claims, tunState, request,
           control, TryMark, JournalStates, Return, Call, End, Returned, Idle
  <1>8. CASE \E want \in BOOLEAN : SaveWhileActive(want)
    BY <1>1, <1>8, CallReleaseEffect
       DEF SaveWhileActive, At, Goto, memory, claims, tunState, request,
           control, TryMark, JournalStates, Return, Call, End, Returned, Idle,
           Jobs
  <1>9. CASE RecoverTun
    BY <1>1, <1>9, JournalFacts, MarkFacts, ElevatedExit
       DEF RecoverTun, At, Goto, memory, claims, tunState, request, control,
           TryMark, JournalStates, Return, Call, End, Returned, Idle
  <1>10. CASE Launch
    BY <1>1, <1>10, JournalFacts, MarkFacts, ElevatedExit
       DEF Launch, At, Goto, memory, claims, tunState, request, control,
           TryMark, JournalStates, Return, Call, End, Returned, Idle
  <1> QED BY <1>2, <1>3, <1>4, <1>5, <1>6, <1>7, <1>8, <1>9, <1>10 DEF
      JobBegins

LEMMA JobStepEvidence ==
  ASSUME NoElevated, EvidenceInv, JobStep PROVE EvidenceInv'
  <1>1. TypeOK'
    BY NextTypeOK DEF EvidenceInv, Next, Procedure, vars
  <1> USE DEF EvidenceInv, TypeOK, EvidenceKept, Quiet, Noted, Named, Resting,
      Outstanding
  <1>2. CASE StartCore
    BY <1>1, <1>2, JournalFacts, MarkFacts, ElevatedExit
       DEF StartCore, At, Goto, memory, claims, tunState, request, control,
           TryMark, JournalStates, Return, Call, End, Returned, Idle
  <1>3. CASE StartReturns
    BY <1>1, <1>3, CallReleaseEffect
       DEF StartReturns, At, Goto, memory, claims, tunState, request, control,
           TryMark, JournalStates, Return, Call, End, Returned, Idle, Jobs
  <1>4. CASE QuitCore
    BY <1>1, <1>4, JournalFacts, MarkFacts, ElevatedExit
       DEF QuitCore, At, Goto, memory, claims, tunState, request, control,
           TryMark, JournalStates, Return, Call, End, Returned, Idle
  <1>5. CASE QuitProxy
    BY <1>1, <1>5, JournalFacts, MarkFacts, ElevatedExit
       DEF QuitProxy, At, Goto, memory, claims, tunState, request, control,
           TryMark, JournalStates, Return, Call, End, Returned, Idle
  <1>6. CASE Reload
    BY <1>1, <1>6, JournalFacts, MarkFacts, ElevatedExit
       DEF Reload, At, Goto, memory, claims, tunState, request, control,
           TryMark, JournalStates, Return, Call, End, Returned, Idle
  <1>7. CASE ApplyReturns
    BY <1>1, <1>7, JournalFacts, MarkFacts, ElevatedExit
       DEF ApplyReturns, At, Goto, memory, claims, tunState, request, control,
           TryMark, JournalStates, Return, Call, End, Returned, Idle, GiveUp
  <1>8. CASE TransitionReturns
    BY <1>1, <1>8, CallReleaseEffect, UndoEffect
       DEF TransitionReturns, At, Goto, memory, claims, tunState, request,
           control, TryMark, JournalStates, Return, Call, End, Returned, Idle,
           SwitchReturns, UndoReturns, GiveUp, Jobs
  <1>9. CASE LaunchProxy
    BY <1>1, <1>9, JournalFacts, MarkFacts, ElevatedExit
       DEF LaunchProxy, At, Goto, memory, claims, tunState, request, control,
           TryMark, JournalStates, Return, Call, End, Returned, Idle
  <1>10. CASE LaunchReclaim
    BY <1>1, <1>10, JournalFacts, MarkFacts, ElevatedExit
       DEF LaunchReclaim, At, Goto, memory, claims, tunState, request, control,
           TryMark, JournalStates, Return, Call, End, Returned, Idle,
           NoElevated
  <1>11. CASE JobReturns
    BY <1>1, <1>11, JournalFacts, MarkFacts, ElevatedExit
       DEF JobReturns, At, Goto, memory, claims, tunState, request, control,
           TryMark, JournalStates, Return, Call, End, Returned, Idle
  <1>12. CASE WatchMark
    BY <1>1, <1>12, JournalFacts, MarkFacts, ElevatedExit
       DEF WatchMark, At, Goto, memory, claims, tunState, request, control,
           TryMark, JournalStates, Return, Call, End, Returned, Idle,
           RecoveryUnverified
  <1>13. CASE WatchRestore
    BY <1>1, <1>13, JournalFacts, MarkFacts, ElevatedExit
       DEF WatchRestore, At, Goto, memory, claims, tunState, request, control,
           TryMark, JournalStates, Return, Call, End, Returned, Idle,
           RecoveryUnverified
  <1> QED BY <1>2, <1>3, <1>4, <1>5, <1>6, <1>7, <1>8, <1>9, <1>10, <1>11,
      <1>12, <1>13 DEF JobStep

LEMMA WatchdogEvidence ==
  ASSUME NoElevated, EvidenceInv, Watchdog PROVE EvidenceInv'
  <1>1. TypeOK'
    BY NextTypeOK DEF EvidenceInv, Next, Procedure, vars
  <1> USE DEF EvidenceInv, TypeOK, EvidenceKept, Quiet, Noted, Named, Resting,
      Outstanding
  <1>2. CASE WatchReap
    BY <1>1, <1>2, JournalFacts, MarkFacts, ElevatedExit
       DEF WatchReap, At, Goto, memory, claims, tunState, request, control,
           TryMark, JournalStates, Return, Call, Idle
  <1>3. CASE WatchDecide
    BY <1>1, <1>3, JournalFacts, MarkFacts, ElevatedExit
       DEF WatchDecide, At, Goto, memory, claims, tunState, request, control,
           TryMark, JournalStates, Return, Call, Idle
  <1>4. CASE WatchProxy
    BY <1>1, <1>4, JournalFacts, MarkFacts, ElevatedExit
       DEF WatchProxy, At, Goto, memory, claims, tunState, request, control,
           TryMark, JournalStates, Return, Call, Idle
  <1>5. CASE WatchTun
    BY <1>1, <1>5, JournalFacts, MarkFacts, ElevatedExit
       DEF WatchTun, At, Goto, memory, claims, tunState, request, control,
           TryMark, JournalStates, Return, Call, Idle
  <1> QED BY <1>2, <1>3, <1>4, <1>5 DEF Watchdog

LEMMA EnvironmentEvidence ==
  ASSUME NoElevated, EvidenceInv, Environment PROVE EvidenceInv'
  <1>1. TypeOK'
    BY NextTypeOK DEF EvidenceInv, Next, Procedure, vars
  <1> USE DEF EvidenceInv, TypeOK, EvidenceKept, Quiet, Noted, Named, Resting,
      Outstanding
  <1>2. CASE CoreExits
    BY <1>1, <1>2, JournalFacts, MarkFacts, ElevatedExit
       DEF CoreExits, At, Goto, memory, claims, tunState, request, control,
           TryMark, JournalStates, Return, End
  <1>3. CASE ElevatedCoreExits
    BY <1>1, <1>3, JournalFacts, MarkFacts, ElevatedExit
       DEF ElevatedCoreExits, At, Goto, memory, claims, tunState, request,
           control, TryMark, JournalStates, Return, End
  <1>4. CASE Crash
    BY <1>1, <1>4, JournalFacts, MarkFacts, ElevatedExit
       DEF Crash, At, Goto, memory, claims, tunState, request, control,
           TryMark, JournalStates, Return, End
  <1>5. CASE JournalUnreadable
    BY <1>1, <1>5, JournalFacts, MarkFacts, ElevatedExit
       DEF JournalUnreadable, At, Goto, memory, claims, tunState, request,
           control, TryMark, JournalStates, Return, End
  <1> QED BY <1>2, <1>3, <1>4, <1>5 DEF Environment

LEMMA InitEvidence == ASSUME Init PROVE EvidenceInv
  <1>1. TypeOK
    BY InitTypeOK
  <1> QED
    BY <1>1 DEF Init, EvidenceInv, EvidenceKept, Quiet, Noted, Named, Resting

LEMMA NextEvidence ==
  ASSUME NoElevated, EvidenceInv, [Next]_vars PROVE EvidenceInv'
  <1>1. CASE UNCHANGED vars
    <2>1. TypeOK'
      BY <1>1, StutterTypeOK DEF EvidenceInv
    <2> QED
      BY <1>1, <2>1
         DEF vars, EvidenceInv, EvidenceKept, Quiet, Noted, Named, Resting,
             Outstanding
  <1> QED
    BY <1>1, EnableTunEvidence, DisableTunEvidence, SystemProxyEvidence,
       DriveEvidence, JobBeginsEvidence, JobStepEvidence, WatchdogEvidence,
       EnvironmentEvidence
       DEF Next, Procedure

THEOREM EvidenceInvariant == ASSUME NoElevated PROVE Spec => []EvidenceInv
  <1>1. EvidenceInv /\ [Next]_vars => EvidenceInv'
    BY NextEvidence
  <1> QED BY InitEvidence, <1>1, PTL DEF Spec

(* As long as the coordinator can stop the elevated core: whatever of TUN  *)
(* is on the OS is on record, at every step and after every crash.         *)
THEOREM EvidenceAlwaysKept == ASSUME NoElevated PROVE Spec => []EvidenceKept
  <1>1. EvidenceInv => EvidenceKept
    BY DEF EvidenceInv
  <1> QED BY EvidenceInvariant, <1>1, PTL

(* Only Apply puts something of TUN on the OS, and by then it is noted.    *)
LEMMA TunAppears ==
  ASSUME NoElevated, EvidenceInv, Next, tun = "none", tun' # "none"
  PROVE  Outstanding(journal)
  <1>1. \A t \in AfterElevatedExit \cup AfterFailedRestore : t = "none"
    BY DEF NoElevated, AfterElevatedExit, AfterFailedRestore
  <1>2. CASE Apply
    BY <1>2 DEF EvidenceInv, Noted, Apply, At
  <1>3. CASE EnableTun
    BY <1>1, <1>2, <1>3
       DEF NoElevated, EnableTun, EnableGuard, Reclaim, SaveIntent, Prepare,
           ReleaseCore, Observe, Adopt, Unadopt, Verify, Unverify,
           MarkApplied, Refuse, MarkError, tunState
  <1>4. CASE DisableTun
    BY <1>1, <1>4
       DEF DisableTun, Disable, Restore, MarkClean, RestartDiagnostic
  <1>5. CASE SystemProxy
    BY <1>5
       DEF SystemProxy, ProxyGuard, ProxyApply, ProxySave, ProxyRestore,
           tunState
  <1>6. CASE Drive
    BY <1>1, <1>6 DEF Drive, tunState
  <1>7. CASE JobBegins
    BY <1>7
       DEF JobBegins, StartService, StopService, GracefulStop, ApplyConfig,
           ApplyWhileTunActive, SaveWhileInactive, SaveWhileActive, RecoverTun,
           Launch, tunState
  <1>8. CASE JobStep
    BY <1>1, <1>8
       DEF NoElevated, JobStep, StartCore, StartReturns, QuitCore, QuitProxy,
           Reload, ApplyReturns, TransitionReturns, LaunchProxy, LaunchReclaim,
           JobReturns, WatchMark, WatchRestore, tunState
  <1>9. CASE Watchdog
    BY <1>9
       DEF Watchdog, WatchReap, WatchDecide, WatchProxy, WatchTun, tunState
  <1>10. CASE Environment
    BY <1>1, <1>10
       DEF Environment, CoreExits, ElevatedCoreExits, Crash, JournalUnreadable
  <1> QED
    BY <1>3, <1>4, <1>5, <1>6, <1>7, <1>8, <1>9, <1>10 DEF Next, Procedure

(* The controller implements the ledger: what is put on the OS was noted   *)
(* in an earlier step, and a note is closed only when nothing is left.     *)
THEOREM KeepsTheLedger == ASSUME NoElevated PROVE Spec => ImplementsLedger
  <1>1. Init => Ledger!Init
    BY DEF Init, Ledger!Init, Outstanding
  <1>2. ASSUME EvidenceInv, EvidenceInv', [Next]_vars
        PROVE  [Ledger!Next]_Ledger!vars
    <2>1. tun = "none" /\ tun' # "none" => Outstanding(journal)
      BY <1>2, TunAppears DEF vars
    <2>2. /\ tun # "none" => Outstanding(journal)
          /\ tun' # "none" => Outstanding(journal)'
      BY <1>2 DEF EvidenceInv, EvidenceKept
    <2>3. CASE ~Outstanding(journal)'
      BY <2>2, <2>3 DEF Ledger!Next, Ledger!Close, Outstanding
    <2>4. CASE Outstanding(journal)' /\ (tun # "none" <=> tun' # "none")
      BY <2>4 DEF Ledger!Next, Ledger!Note, Outstanding
    <2>5. CASE Outstanding(journal)' /\ tun = "none" /\ tun' # "none"
      BY <2>1, <2>5 DEF Ledger!Next, Ledger!Take, Outstanding
    <2>6. CASE Outstanding(journal)' /\ tun # "none" /\ tun' = "none"
      BY <2>2, <2>6 DEF Ledger!Next, Ledger!Drop, Outstanding
    <2> QED
      BY <2>3, <2>4, <2>5, <2>6
  <1> QED
    BY <1>1, <1>2, EvidenceInvariant, PTL DEF Spec, Ledger!Spec,
        ImplementsLedger

-----------------------------------------------------------------------------
(***************************************************************************)
(* What the controller claims, under every fault.                          *)
(***************************************************************************)
Enabling == {"saveIntent", "prepare", "release", "apply", "observe", "adopt",
             "unadopt", "verify", "unverify", "markApplied", "refuse", "deny",
             "markError"}
Unclaimed == {"reclaim", "proxyApply", "proxySave"}

(* What is claimed at each step.                                           *)
Claimed ==
  /\ pc \in Enabling => active = "inactive" /\ status = "preparing"
  /\ pc \in Unclaimed => active = "inactive" /\ status # "recovery_required"
  /\ pc \in {"disable", "watchMark"} => active = "tun"
  /\ pc \in {"restore", "markClean", "watchRestore"}
       => active = "tun" /\ status = "stopping"
  /\ pc = "proxyRestore" => active = "proxy"
  /\ status = "recovery_required" => active # "tun"
  /\ ~up => job = "idle" /\ pc = "idle" /\ active = "inactive"
  /\ job = "idle" <=> pc = "idle"
  /\ pc = "launchProxy" => job = "launch" /\ active = "inactive"

(* ReportsOwnedProxy at every step, not only between jobs.                 *)
Owned ==
  record = "applied" =>
    ~up \/ pc = "launchProxy" \/ active = "proxy" \/ status = "recovery_required"

ClaimInv == Claimed /\ Owned /\ EnabledIsJournaled

(* Where a release starts, by the backend that is claimed.                 *)
LEMMA ReleaseCalled ==
  ASSUME TypeOK, NEW j, CallRelease(j)
  PROVE  /\ job' = j
         /\ \/ active = "tun" /\ pc' = "disable"
            \/ active = "proxy" /\ pc' = "proxyRestore"
            \/ active = "inactive" /\ pc' = "return" /\ result' = "ok"
  BY DEF TypeOK, Backends, CallRelease, Call

(* A save in a live session ends there, reloads, or releases the backend.  *)
LEMMA SaveStarts ==
  ASSUME TypeOK, NEW want \in BOOLEAN, SaveWhileActive(want)
  PROVE  /\ Idle
         /\ UNCHANGED <<up, memory, tunState, claims, reaped>>
         /\ \/ UNCHANGED control
            \/ job' = "apply" /\ pc' = "reload"
            \/ job' = "switchOff" /\ active = "tun" /\ pc' = "disable"
            \/ job' = "switchOff" /\ active = "proxy" /\ pc' = "proxyRestore"
  <1>1. Idle /\ active # "inactive" /\ UNCHANGED <<up, memory, tunState, claims, reaped>>
    BY Zenon DEF SaveWhileActive
  <1>2. \/ CallRelease("switchOff")
        \/ UNCHANGED control
        \/ Call("apply", "reload")
    BY Zenon DEF SaveWhileActive
  <1> QED
    BY <1>1, <1>2, ReleaseCalled, Zenon DEF Call

(* A switch that goes on calls the next procedure and changes nothing else. *)
LEMMA SwitchSteps ==
  ASSUME TypeOK, TransitionReturns
  PROVE  /\ At("return") /\ UNCHANGED <<up, tunState, claims, reaped>>
         /\ \/ /\ GiveUp
               /\ ~Ok \/ status = "recovery_required"
               /\ job \in SwitchJobs
            \/ UNCHANGED memory /\ End
            \/ UNCHANGED memory /\ Call("apply", "reload")
            \/ UNCHANGED memory /\ CallRelease("commitOff") /\ job = "switchOn" /\ Ok
            \/ /\ UNCHANGED memory
               /\ \/ job \in {"switchOff", "undoRecover", "commitOff"}
                  \/ job = "switchOn" /\ ~Ok
               /\ \/ job' = "undoRecover" /\ pc' = "drive"
                  \/ /\ job' \in {"switchOn", "undoOn", "commitOn"}
                     /\ pc' \in {"enableGuard", "proxyGuard", "return"}
  <1>1. At("return") /\ UNCHANGED <<up, tunState, claims, reaped>>
    BY Zenon DEF TransitionReturns, SwitchReturns, UndoReturns, Returned
  <1>2. ASSUME NEW j, CallPrevious(j)
        PROVE  job' = j /\ pc' \in {"enableGuard", "proxyGuard", "return"}
    BY <1>2, Zenon DEF CallPrevious, Call
  <1>3. ASSUME Undo
        PROVE  \/ job' = "undoRecover" /\ pc' = "drive"
               \/ job' = "undoOn" /\ pc' \in {"enableGuard", "proxyGuard", "return"}
    BY <1>2, <1>3, Zenon DEF Undo, Call
  <1>4. CASE Returned("switchOff")
    <2>1. SwitchReturns /\ job = "switchOff"
      BY <1>4 DEF TransitionReturns, UndoReturns, Returned
    <2>2. UNCHANGED memory /\ (Undo \/ (job' = "switchOn" /\ pc' \in {"enableGuard", "proxyGuard"}))
      <3>1. CASE Ok
        BY <2>1, <3>1, Zenon DEF SwitchReturns, Returned, Call
      <3>2. CASE ~Ok
        BY <2>1, <3>2, Zenon DEF SwitchReturns, Returned
      <3> QED BY <3>1, <3>2
    <2> QED BY <1>1, <1>3, <2>1, <2>2
  <1>5. CASE Returned("switchOn") /\ Ok
    <2>1. SwitchReturns /\ job = "switchOn"
      BY <1>5 DEF TransitionReturns, UndoReturns, Returned
    <2>2. UNCHANGED memory /\ (End \/ Call("apply", "reload") \/ CallRelease("commitOff"))
      BY <1>5, <2>1, Zenon DEF SwitchReturns, Returned
    <2> QED BY <1>1, <1>5, <2>1, <2>2
  <1>6. CASE Returned("switchOn") /\ ~Ok
    <2>1. SwitchReturns /\ job = "switchOn"
      BY <1>6 DEF TransitionReturns, UndoReturns, Returned
    <2>2. UNCHANGED memory /\ Undo
      BY <1>6, <2>1, Zenon DEF SwitchReturns, Returned
    <2> QED BY <1>1, <1>3, <1>6, <2>1, <2>2
  <1>7. CASE UndoReturns
    <2>1. job \in SwitchJobs
      BY <1>7 DEF UndoReturns, Returned, SwitchJobs
    <2> QED
      BY <1>1, <1>2, <1>7, <2>1, Zenon DEF UndoReturns, Returned, Proceed, Call
  <1> QED
    BY <1>4, <1>5, <1>6, <1>7 DEF TransitionReturns, SwitchReturns

(* What a restore of the proxy leaves when nothing about it can fail.      *)
LEMMA ProxyHolds ==
  ASSUME ~Can("proxy"), TypeOK
  PROVE  /\ ~ProxyApplyFails /\ ~ProxyRestoreFails
         /\ ProxyRestored
              => record' = "clear" /\ (proxied' => proxied /\ record = "clear")
  <1>1. ~ProxyApplyFails /\ ~ProxyRestoreFails
    BY Zenon DEF ProxyApplyFails, ApplyCutShort, ProxyRestoreFails, RestoreCutShort
  <1>2. ASSUME ProxyRestored PROVE record' = "clear" /\ (proxied' => proxied /\ record = "clear")
    <2>1. CASE record = "clear"
      BY <1>2, <2>1, Zenon DEF ProxyRestored
    <2>2. CASE record # "clear"
      BY <1>2, <2>2, Zenon DEF ProxyRestored, GivenBack
    <2> QED BY <2>1, <2>2
  <1> QED BY <1>1, <1>2

LEMMA EnableTunClaims ==
  ASSUME TypeOK, ClaimInv, EnableTun PROVE ClaimInv'
  <1>1. CASE EnableGuard
    BY <1>1 DEF EnableGuard, At, Goto, Return, Claim, Outstanding, Can,
       memory, claims, tunState, request, TypeOK, ClaimInv, Claimed,
       Owned, EnabledIsJournaled, Enabling, Unclaimed, Statuses, Backends
  <1>2. CASE Reclaim
    BY <1>2 DEF Reclaim, At, Goto, Return, Claim, HandleFor, Orphaned,
       Can, memory, claims, request, TypeOK, ClaimInv, Claimed, Owned,
       EnabledIsJournaled, Enabling, Unclaimed, Statuses, Backends
  <1>3. CASE SaveIntent
    BY <1>3 DEF SaveIntent, At, Goto, Return, Claim, EnableFails,
       FailureStatus, IntentSaved, Journal, Outstanding, Can, memory,
       claims, request, TypeOK, ClaimInv, Claimed, Owned,
       EnabledIsJournaled, Enabling, Unclaimed, Statuses, Backends
  <1>4. CASE Prepare
    BY <1>4 DEF Prepare, At, Goto, CoreRunning, Can, memory, claims,
       tunState, request, TypeOK, ClaimInv, Claimed, Owned,
       EnabledIsJournaled, Enabling, Unclaimed, Statuses, Backends
  <1>5. CASE ReleaseCore
    BY <1>5 DEF ReleaseCore, At, Goto, memory, claims, request, TypeOK,
       ClaimInv, Claimed, Owned, EnabledIsJournaled, Enabling, Unclaimed,
       Statuses, Backends
  <1>6. CASE Apply
    BY <1>6 DEF Apply, At, Goto, Can, memory, claims, request, TypeOK,
       ClaimInv, Claimed, Owned, EnabledIsJournaled, Enabling, Unclaimed,
       Statuses, Backends
  <1>7. CASE Observe
    BY <1>7 DEF Observe, At, Goto, NamesSaved, Journal, Can, memory,
       claims, request, TypeOK, ClaimInv, Claimed, Owned,
       EnabledIsJournaled, Enabling, Unclaimed, Statuses, Backends
  <1>8. CASE Adopt
    BY <1>8 DEF Adopt, At, Goto, Can, memory, claims, request, TypeOK,
       ClaimInv, Claimed, Owned, EnabledIsJournaled, Enabling, Unclaimed,
       Statuses, Backends
  <1>9. CASE Unadopt
    BY <1>9 DEF Unadopt, At, Return, Claim, EnableFails, FailureStatus,
       TryMark, Mark, CleanJournal, Journal, Outstanding, Can, claims,
       request, TypeOK, ClaimInv, Claimed, Owned, EnabledIsJournaled,
       Enabling, Unclaimed, Statuses, Backends
  <1>10. CASE Verify
    BY <1>10 DEF Verify, At, Goto, Return, Claim, EnableFails,
       FailureStatus, Outstanding, Can, memory, claims, request, TypeOK,
       ClaimInv, Claimed, Owned, EnabledIsJournaled, Enabling, Unclaimed,
       Statuses, Backends
  <1>11. CASE Unverify
    BY <1>11 DEF Unverify, At, Return, Claim, EnableFails, FailureStatus,
       TryMark, Mark, Outstanding, Can, claims, request, TypeOK, ClaimInv,
       Claimed, Owned, EnabledIsJournaled, Enabling, Unclaimed, Statuses,
       Backends
  <1>12. CASE MarkApplied
    <2>1. Mark("applied").state = "applied"
      BY DEF Mark, TypeOK, JournalRecords
    <2>2. Claimed' /\ Owned'
      BY <1>12 DEF MarkApplied, At, Return, Claim, EnableFails, FailureStatus,
         Outstanding, claims, request, ClaimInv, Claimed, Owned, Enabling,
         Unclaimed
    <2>3. EnabledIsJournaled'
      BY <1>12, <2>1 DEF MarkApplied, At, Claim, EnableFails,
         EnabledIsJournaled
    <2> QED BY <2>2, <2>3 DEF ClaimInv
  <1>13. CASE Refuse
    BY <1>13 DEF Refuse, At, Return, Claim, EnableFails, FailureStatus,
       TryMark, CleanJournal, Journal, Outstanding, Can, claims, request,
       TypeOK, ClaimInv, Claimed, Owned, EnabledIsJournaled, Enabling,
       Unclaimed, Statuses, Backends
  <1>14. CASE MarkError
    BY <1>14 DEF MarkError, At, Return, Claim, EnableFails, FailureStatus,
       TryMark, Mark, Outstanding, Can, claims, request, TypeOK, ClaimInv,
       Claimed, Owned, EnabledIsJournaled, Enabling, Unclaimed, Statuses,
       Backends
  <1> QED
    BY <1>1, <1>2, <1>3, <1>4, <1>5, <1>6, <1>7, <1>8, <1>9, <1>10, <1>11,
       <1>12, <1>13, <1>14 DEF EnableTun

LEMMA DisableTunClaims ==
  ASSUME TypeOK, ClaimInv, DisableTun PROVE ClaimInv'
  <1>1. CASE Disable
    BY <1>1 DEF Disable, At, Goto, Return, Claim, Mark, Can, claims,
       request, TypeOK, ClaimInv, Claimed, Owned, EnabledIsJournaled,
       Enabling, Unclaimed, Statuses, Backends
  <1>2. CASE Restore
    BY <1>2 DEF Restore, At, Goto, Return, Claim, Unconfirmed, TryMark,
       Mark, HandleFor, Orphaned, Can, memory, claims, request, TypeOK,
       ClaimInv, Claimed, Owned, EnabledIsJournaled, Enabling, Unclaimed,
       Statuses, Backends
  <1>3. CASE MarkClean
    BY <1>3 DEF MarkClean, At, Goto, Return, Claim, CleanJournal, Journal,
       Can, memory, claims, request, TypeOK, ClaimInv, Claimed, Owned,
       EnabledIsJournaled, Enabling, Unclaimed, Statuses, Backends
  <1>4. CASE RestartDiagnostic
    BY <1>4 DEF RestartDiagnostic, At, Return, memory, claims, request,
       TypeOK, ClaimInv, Claimed, Owned, EnabledIsJournaled, Enabling,
       Unclaimed, Statuses, Backends
  <1> QED
    BY <1>1, <1>2, <1>3, <1>4 DEF DisableTun

LEMMA SystemProxyClaims ==
  ASSUME TypeOK, ClaimInv, SystemProxy PROVE ClaimInv'
  <1>1. CASE ProxyGuard
    BY <1>1 DEF ProxyGuard, At, Goto, Return, Claim, Outstanding,
       CoreRunning, memory, claims, tunState, request, TypeOK, ClaimInv,
       Claimed, Owned, EnabledIsJournaled, Enabling, Unclaimed, Statuses,
       Backends
  <1>2. CASE ProxyApply
    BY <1>2 DEF ProxyApply, At, Goto, Return, ProxyRestoreFails, RestoreCutShort,
       ProxyApplyFails, ApplyCutShort, Can, memory, tunState, request, TypeOK, ClaimInv,
       Claimed, Owned, EnabledIsJournaled, Enabling, Unclaimed, Statuses,
       Backends
  <1>3. CASE ProxySave
    BY <1>3 DEF ProxySave, At, Return, Claim, Can, memory, tunState,
       request, TypeOK, ClaimInv, Claimed, Owned, EnabledIsJournaled,
       Enabling, Unclaimed, Statuses, Backends
  <1>4. CASE ProxyRestore
    BY <1>4 DEF ProxyRestore, At, Return, Claim, ProxyRestored,
       ProxyRestoreFails, RestoreCutShort, Can, memory, tunState, request, TypeOK,
       ClaimInv, Claimed, Owned, EnabledIsJournaled, Enabling, Unclaimed,
       Statuses, Backends
  <1> QED
    BY <1>1, <1>2, <1>3, <1>4 DEF SystemProxy

LEMMA DriveClaims ==
  ASSUME TypeOK, ClaimInv, Drive PROVE ClaimInv'
  BY DEF Drive, At, Return, Claim, RecoveryUnverified, Baseline, Recovered,
     VerifiedGone, TryMark, Mark, CleanJournal, Journal, HandleFor,
     Orphaned, Can, memory, claims, tunState, TypeOK, ClaimInv, Claimed,
     Owned, EnabledIsJournaled, Enabling, Unclaimed, Statuses, Backends

LEMMA JobBeginsClaims ==
  ASSUME TypeOK, ClaimInv, JobBegins PROVE ClaimInv'
  <1>1. CASE StartService
    BY <1>1 DEF StartService, Idle, Call, memory, claims, tunState,
       request, TypeOK, ClaimInv, Claimed, Owned, EnabledIsJournaled,
       Enabling, Unclaimed, Statuses, Backends
  <1>2. CASE StopService
    BY <1>2 DEF StopService, Idle, Call, CallRelease, memory, claims,
       tunState, request, TypeOK, ClaimInv, Claimed, Owned,
       EnabledIsJournaled, Enabling, Unclaimed, Statuses, Backends
  <1>3. CASE GracefulStop
    BY <1>3 DEF GracefulStop, Idle, Call, memory, claims, tunState,
       request, TypeOK, ClaimInv, Claimed, Owned, EnabledIsJournaled,
       Enabling, Unclaimed, Statuses, Backends
  <1>4. CASE ApplyConfig
    BY <1>4 DEF ApplyConfig, Idle, Call, memory, claims, tunState,
       request, TypeOK, ClaimInv, Claimed, Owned, EnabledIsJournaled,
       Enabling, Unclaimed, Statuses, Backends
  <1>5. CASE ApplyWhileTunActive
    BY <1>5 DEF ApplyWhileTunActive, Idle, Call, memory, claims, tunState,
       request, TypeOK, ClaimInv, Claimed, Owned, EnabledIsJournaled,
       Enabling, Unclaimed, Statuses, Backends
  <1>6. CASE SaveWhileInactive
    BY <1>6 DEF SaveWhileInactive, Idle, Call, memory, claims, tunState,
       control, TypeOK, ClaimInv, Claimed, Owned, EnabledIsJournaled,
       Enabling, Unclaimed, Statuses, Backends
  <1>7. CASE \E want \in BOOLEAN : SaveWhileActive(want)
    <2> PICK want \in BOOLEAN : SaveWhileActive(want)
      BY <1>7
    <2> QED
      BY SaveStarts DEF Idle, memory, claims, tunState, control, Returned, At,
         ClaimInv, Claimed, Owned, EnabledIsJournaled, Enabling, Unclaimed
  <1>8. CASE RecoverTun
    BY <1>8 DEF RecoverTun, Idle, Call, memory, claims, tunState, request,
       TypeOK, ClaimInv, Claimed, Owned, EnabledIsJournaled, Enabling,
       Unclaimed, Statuses, Backends
  <1>9. CASE Launch
    BY <1>9 DEF Launch, Call, memory, claims, tunState, request, TypeOK,
       ClaimInv, Claimed, Owned, EnabledIsJournaled, Enabling, Unclaimed,
       Statuses, Backends
  <1> QED
    BY <1>1, <1>2, <1>3, <1>4, <1>5, <1>6, <1>7, <1>8, <1>9 DEF JobBegins

LEMMA JobStepClaims ==
  ASSUME TypeOK, ClaimInv, JobStep PROVE ClaimInv'
  <1>1. CASE StartCore
    BY <1>1 DEF StartCore, At, Goto, End, CoreRunning, memory, claims,
       request, TypeOK, ClaimInv, Claimed, Owned, EnabledIsJournaled,
       Enabling, Unclaimed, Statuses, Backends
  <1>2. CASE StartReturns
    BY <1>2 DEF StartReturns, At, Returned, Ok, Call, End, CallRelease,
       Can, memory, claims, tunState, request, TypeOK, ClaimInv, Claimed,
       Owned, EnabledIsJournaled, Enabling, Unclaimed, Statuses, Backends
  <1>3. CASE QuitCore
    BY <1>3 DEF QuitCore, At, Returned, Goto, End, memory, claims,
       request, TypeOK, ClaimInv, Claimed, Owned, EnabledIsJournaled,
       Enabling, Unclaimed, Statuses, Backends
  <1>4. CASE QuitProxy
    BY <1>4 DEF QuitProxy, At, End, ProxyRestored, ProxyRestoreFails, RestoreCutShort, Can,
       memory, tunState, request, TypeOK, ClaimInv, Claimed, Owned,
       EnabledIsJournaled, Enabling, Unclaimed, Statuses, Backends
  <1>5. CASE Reload
    BY <1>5 DEF Reload, At, End, CoreRunning, ProxyRestored,
       ProxyRestoreFails, RestoreCutShort, ProxyApplyFails, ApplyCutShort, Can, memory, claims, request,
       TypeOK, ClaimInv, Claimed, Owned, EnabledIsJournaled, Enabling,
       Unclaimed, Statuses, Backends
  <1>6. CASE ApplyReturns
    BY <1>6 DEF ApplyReturns, At, Returned, Ok, Call, End, Claim, Proceed,
       GiveUp, memory, claims, tunState, request, TypeOK, ClaimInv,
       Claimed, Owned, EnabledIsJournaled, Enabling, Unclaimed, Statuses,
       Backends
  <1>7. CASE TransitionReturns
    BY <1>7 DEF TransitionReturns, At, Returned, Ok, Call, End, Claim,
       Proceed, GiveUp, Outstanding, CallRelease, CallPrevious, Undo,
       SwitchReturns, UndoReturns, Commit, Can, memory, claims, tunState,
       request, TypeOK, ClaimInv, Claimed, Owned, EnabledIsJournaled,
       Enabling, Unclaimed, Statuses, Backends
  <1>8. CASE LaunchProxy
    BY <1>8 DEF LaunchProxy, At, Goto, Claim, ProxyRestored,
       ProxyRestoreFails, RestoreCutShort, Can, tunState, request, TypeOK, ClaimInv,
       Claimed, Owned, EnabledIsJournaled, Enabling, Unclaimed, Statuses,
       Backends
  <1>9. CASE LaunchReclaim
    BY <1>9 DEF LaunchReclaim, At, Goto, Can, memory, claims, request,
       TypeOK, ClaimInv, Claimed, Owned, EnabledIsJournaled, Enabling,
       Unclaimed, Statuses, Backends
  <1>10. CASE JobReturns
    BY <1>10 DEF JobReturns, At, Returned, Goto, End, memory, claims,
       tunState, request, TypeOK, ClaimInv, Claimed, Owned,
       EnabledIsJournaled, Enabling, Unclaimed, Statuses, Backends
  <1>11. CASE WatchMark
    BY <1>11 DEF WatchMark, At, Goto, Return, Claim, RecoveryUnverified,
       TryMark, Mark, Can, claims, request, TypeOK, ClaimInv, Claimed,
       Owned, EnabledIsJournaled, Enabling, Unclaimed, Statuses, Backends
  <1>12. CASE WatchRestore
    BY <1>12 DEF WatchRestore, At, Return, Claim, RecoveryUnverified,
       TryMark, Mark, CleanJournal, Journal, Can, claims, request, TypeOK,
       ClaimInv, Claimed, Owned, EnabledIsJournaled, Enabling, Unclaimed,
       Statuses, Backends
  <1> QED
    BY <1>1, <1>2, <1>3, <1>4, <1>5, <1>6, <1>7, <1>8, <1>9, <1>10, <1>11,
       <1>12 DEF JobStep

LEMMA WatchdogClaims ==
  ASSUME TypeOK, ClaimInv, Watchdog PROVE ClaimInv'
  <1>1. CASE WatchReap
    BY <1>1 DEF WatchReap, Idle, memory, claims, request, control, TypeOK,
       ClaimInv, Claimed, Owned, EnabledIsJournaled, Enabling, Unclaimed,
       Statuses, Backends
  <1>2. CASE WatchDecide
    BY <1>2 DEF WatchDecide, CoreFree, memory, claims, tunState, request,
       control, TypeOK, ClaimInv, Claimed, Owned, EnabledIsJournaled,
       Enabling, Unclaimed, Statuses, Backends
  <1>3. CASE WatchProxy
    BY <1>3 DEF WatchProxy, ProxyRestored, ProxyRestoreFails, RestoreCutShort, ProxyFree,
       Can, memory, tunState, request, control, TypeOK, ClaimInv, Claimed,
       Owned, EnabledIsJournaled, Enabling, Unclaimed, Statuses, Backends
  <1>4. CASE WatchTun
    BY <1>4 DEF WatchTun, Call, memory, claims, tunState, request,
       control, TypeOK, ClaimInv, Claimed, Owned, EnabledIsJournaled,
       Enabling, Unclaimed, Statuses, Backends
  <1> QED
    BY <1>1, <1>2, <1>3, <1>4 DEF Watchdog

LEMMA EnvironmentClaims ==
  ASSUME TypeOK, ClaimInv, Environment PROVE ClaimInv'
  <1>1. CASE CoreExits
    BY <1>1 DEF CoreExits, memory, claims, request, control, TypeOK,
       ClaimInv, Claimed, Owned, EnabledIsJournaled, Enabling, Unclaimed,
       Statuses, Backends
  <1>2. CASE ElevatedCoreExits
    BY <1>2 DEF ElevatedCoreExits, Orphaned, memory, claims, request,
       control, TypeOK, ClaimInv, Claimed, Owned, EnabledIsJournaled,
       Enabling, Unclaimed, Statuses, Backends
  <1>3. CASE Crash
    BY <1>3 DEF Crash, End, claims, request, TypeOK, ClaimInv, Claimed,
       Owned, EnabledIsJournaled, Enabling, Unclaimed, Statuses, Backends
  <1>4. CASE JournalUnreadable
    BY <1>4 DEF JournalUnreadable, Mark, Can, memory, claims, request,
       control, TypeOK, ClaimInv, Claimed, Owned, EnabledIsJournaled,
       Enabling, Unclaimed, Statuses, Backends
  <1> QED
    BY <1>1, <1>2, <1>3, <1>4 DEF Environment

LEMMA NextClaims ==
  ASSUME TypeOK, ClaimInv, [Next]_vars PROVE ClaimInv'
  <1>1. CASE UNCHANGED vars
    BY <1>1 DEF vars, ClaimInv, Claimed, Owned, EnabledIsJournaled
  <1> QED
    BY <1>1, EnableTunClaims, DisableTunClaims, SystemProxyClaims, DriveClaims,
       JobBeginsClaims, JobStepClaims, WatchdogClaims, EnvironmentClaims
       DEF Next, Procedure

(* What is claimed, at every step of every job and under every fault.      *)
THEOREM ClaimsInvariant == Spec => []ClaimInv
  <1>1. Init => ClaimInv
    BY DEF Init, ClaimInv, Claimed, Owned, EnabledIsJournaled, Enabling, Unclaimed
  <1>2. TypeOK /\ ClaimInv /\ [Next]_vars => ClaimInv'
    BY NextClaims
  <1> QED
    BY <1>1, <1>2, TypeCorrect, PTL DEF Spec

(* Enabled is journaled as applied, whatever fails (MarkApplied).          *)
THEOREM EnabledAlwaysJournaled == Spec => []EnabledIsJournaled
  <1>1. ClaimInv => EnabledIsJournaled
    BY DEF ClaimInv
  <1> QED
    BY <1>1, ClaimsInvariant, PTL

(* An applied proxy record is claimed, or recovery is required (recover).  *)
THEOREM OwnedProxyReported == Spec => []ReportsOwnedProxy
  <1>1. ClaimInv => ReportsOwnedProxy
    BY DEF ClaimInv, Claimed, Owned, ReportsOwnedProxy, Idle
  <1> QED
    BY <1>1, ClaimsInvariant, PTL

-----------------------------------------------------------------------------
(***************************************************************************)
(* Which job runs which procedure, and what it left behind, under every    *)
(* fault.                                                                  *)
(***************************************************************************)
BackendOf(want) == IF want THEN "tun" ELSE "proxy"

Taking == Enabling \cup {"enableGuard", "reclaim"}
Proxying == {"proxyGuard", "proxyApply", "proxySave"}
Releasing == {"disable", "restore", "markClean", "restart", "proxyRestore"}
Turning == {"switchOn", "undoOn", "commitOn"}

(* Recovery, launch and the watchdog call nothing that takes a backend.    *)
Ran ==
  /\ pc \in Taking => job \in {"start", "applyOn", "applyUndo"} \cup Turning
  /\ pc \in Proxying => job \in {"start"} \cup Turning
  /\ pc \in Releasing
       => job \in {"startUndo", "stop", "quit", "switchOff", "commitOff", "applyOff"}
  /\ pc = "drive" => job \in {"recover", "launch", "undoRecover", "applyRecover"}
  /\ pc = "startCore" => job \in {"start", "startCore", "launch"}
  /\ pc = "reload" => job = "apply"
  /\ pc \in {"quitCore", "quitProxy"} => job = "quit"
  /\ pc \in {"launchProxy", "launchReclaim"} => job = "launch"
  /\ pc \in {"watchMark", "watchRestore"} => job = "watch"

(* A switch takes the backend it wants, and has it when that succeeds.     *)
Turned(want) ==
  /\ pc \in Taking => want
  /\ pc \in Proxying => ~want
  /\ pc = "return" /\ Ok => active = BackendOf(want)

(* Until it commits, the settings name the backend a switch began with.    *)
Switched ==
  /\ job \in SwitchJobs => prev = BackendOf(desired)
  /\ job = "switchOn" => Turned(goal)
  /\ job \in {"undoOn", "commitOn"} => Turned(desired)

FlowInv == Ran /\ Switched

LEMMA EnableTunStep ==
  ASSUME TypeOK, ClaimInv, EnableTun
  PROVE  /\ up /\ UNCHANGED <<up, job, desired, goal, prev>>
         /\ pc \in Taking /\ pc' \in Taking \cup {"return"}
         /\ pc' = "return" /\ Ok' => active' = "tun"
  <1>1. up /\ UNCHANGED <<up, job, desired, goal, prev>>
    BY Zenon DEF EnableTun, EnableGuard, Reclaim, SaveIntent, Prepare, ReleaseCore,
       Apply, Observe, Adopt, Unadopt, Verify, Unverify, MarkApplied, Refuse,
       MarkError, EnableFails, At, Goto, Return, request
  <1>2. /\ pc \in Taking /\ pc' \in Taking \cup {"return"}
        /\ pc' = "return" /\ result' = "ok" => active' = "tun"
    BY DEF EnableTun, EnableGuard, Reclaim, SaveIntent, Prepare, ReleaseCore,
       Apply, Observe, Adopt, Unadopt, Verify, Unverify, MarkApplied, Refuse,
       MarkError, EnableFails, At, Goto, Return, Claim, memory, Taking, Enabling
  <1> QED BY <1>1, <1>2 DEF Ok

LEMMA DisableTunStep ==
  ASSUME DisableTun
  PROVE  /\ up /\ UNCHANGED <<up, job, desired, goal, prev>>
         /\ pc \in Releasing /\ pc' \in Releasing \cup {"return"}
  <1>1. up /\ UNCHANGED <<up, job, desired, goal, prev>>
    BY Zenon DEF DisableTun, Disable, Restore, MarkClean, RestartDiagnostic,
       RecoveryUnverified, Unconfirmed, At, Goto, Return, request
  <1>2. pc \in Releasing /\ pc' \in Releasing \cup {"return"}
    BY DEF DisableTun, Disable, Restore, MarkClean, RestartDiagnostic,
       RecoveryUnverified, Unconfirmed, At, Goto, Return, Releasing
  <1> QED BY <1>1, <1>2

LEMMA SystemProxyStep ==
  ASSUME SystemProxy
  PROVE  /\ up /\ UNCHANGED <<up, job, desired, goal, prev>>
         /\ \/ /\ pc \in Proxying /\ pc' \in Proxying \cup {"return"}
               /\ pc' = "return" /\ Ok' => active' = "proxy"
            \/ pc \in Releasing /\ pc' = "return"
  <1>1. up /\ UNCHANGED <<up, job, desired, goal, prev>>
    BY Zenon DEF SystemProxy, ProxyGuard, ProxyApply, ProxySave, ProxyRestore,
       At, Goto, Return, request
  <1>2. \/ /\ pc \in Proxying /\ pc' \in Proxying \cup {"return"}
           /\ pc' = "return" /\ result' = "ok" => active' = "proxy"
        \/ pc \in Releasing /\ pc' = "return"
    BY DEF SystemProxy, ProxyGuard, ProxyApply, ProxySave, ProxyRestore, At,
       Goto, Return, Claim, memory, Proxying, Releasing
  <1> QED BY <1>1, <1>2 DEF Ok

LEMMA DriveStep ==
  ASSUME Drive
  PROVE  /\ up /\ UNCHANGED <<up, job, desired, goal, prev>>
         /\ pc = "drive" /\ pc' = "return"
  BY Zenon DEF Drive, Baseline, Recovered, RecoveryUnverified, At, Return

(* A procedure serves the job that called it until it returns to it.       *)
LEMMA ProcedureFlows ==
  ASSUME TypeOK, ClaimInv, FlowInv, Procedure PROVE FlowInv'
  <1>1. CASE EnableTun
    BY <1>1, EnableTunStep DEF FlowInv, Ran, Switched, Turned, BackendOf, Ok,
       Taking, Enabling, Proxying, Releasing, Turning, SwitchJobs
  <1>2. CASE DisableTun
    BY <1>2, DisableTunStep DEF FlowInv, Ran, Switched, Turned, BackendOf, Ok,
       Taking, Enabling, Proxying, Releasing, Turning, SwitchJobs
  <1>3. CASE SystemProxy
    BY <1>3, SystemProxyStep DEF FlowInv, Ran, Switched, Turned, BackendOf, Ok,
       Taking, Enabling, Proxying, Releasing, Turning, SwitchJobs
  <1>4. CASE Drive
    BY <1>4, DriveStep DEF FlowInv, Ran, Switched, Turned, BackendOf, Ok,
       Taking, Enabling, Proxying, Releasing, Turning, SwitchJobs
  <1> QED BY <1>1, <1>2, <1>3, <1>4 DEF Procedure

LEMMA JobBeginsFlows ==
  ASSUME TypeOK, ClaimInv, FlowInv, JobBegins PROVE FlowInv'
  <1> USE DEF FlowInv, Ran, Switched, Turned, BackendOf, Taking, Enabling,
              Proxying, Releasing, Turning, SwitchJobs
  <1>1. CASE StartService
    BY <1>1 DEF StartService, Call
  <1>2. CASE StopService
    BY <1>2, ReleaseCalled DEF StopService
  <1>3. CASE GracefulStop
    BY <1>3 DEF GracefulStop, Call
  <1>4. CASE ApplyConfig \/ ApplyWhileTunActive \/ RecoverTun \/ Launch
    BY <1>4 DEF ApplyConfig, ApplyWhileTunActive, RecoverTun, Launch, Call
  <1>5. CASE SaveWhileInactive
    BY <1>5 DEF SaveWhileInactive, Idle, Call, control, ClaimInv, Claimed
  <1>6. CASE \E want \in BOOLEAN : SaveWhileActive(want)
    <2> PICK want \in BOOLEAN : SaveWhileActive(want)
      BY <1>6
    <2>1. CASE job' = "switchOff"
      <3>1. SwitchNeeded(want) /\ prev' = active /\ UNCHANGED desired
        BY <2>1, SaveStarts, Zenon DEF SaveWhileActive, Call, Idle, control
      <3>2. active = BackendOf(desired)
        BY <3>1 DEF SwitchNeeded
      <3>3. pc' \in {"disable", "proxyRestore"}
        BY <2>1, SaveStarts DEF Idle, control
      <3> QED BY <2>1, <3>1, <3>2, <3>3
    <2>2. CASE job' # "switchOff"
      BY <2>2, SaveStarts DEF Idle, control, ClaimInv, Claimed
    <2> QED BY <2>1, <2>2
  <1> QED
    BY <1>1, <1>2, <1>3, <1>4, <1>5, <1>6 DEF JobBegins

(* What brings a backend back calls the procedure that takes that one.     *)
LEMMA PreviousCalled ==
  ASSUME TypeOK, FlowInv, job \in SwitchJobs, NEW j \in {"undoOn", "commitOn"},
         CallPrevious(j), UNCHANGED <<desired, goal, prev>>
  PROVE  FlowInv' /\ job' = j
  <1>1. prev = BackendOf(desired)
    BY DEF FlowInv, Switched
  <1>2. job' = j /\ pc' = IF desired THEN "enableGuard" ELSE "proxyGuard"
    BY <1>1, Zenon DEF CallPrevious, Call, BackendOf
  <1> QED
    BY <1>1, <1>2 DEF TypeOK, FlowInv, Ran, Switched, Turned, BackendOf, Taking,
       Enabling, Proxying, Releasing, Turning, SwitchJobs

LEMMA UndoFlows ==
  ASSUME TypeOK, FlowInv, job \in SwitchJobs, Undo,
         UNCHANGED <<desired, goal, prev>>
  PROVE  FlowInv' /\ job' \in {"undoRecover", "undoOn"}
  <1>1. CASE Call("undoRecover", "drive")
    BY <1>1 DEF Call, FlowInv, Ran, Switched, Turned, BackendOf, Taking,
       Enabling, Proxying, Releasing, Turning, SwitchJobs
  <1>2. CASE CallPrevious("undoOn")
    BY <1>2, PreviousCalled
  <1> QED
    BY <1>1, <1>2, Zenon DEF Undo

(* A switch ends committed, or it is undone, or it asks for recovery.      *)
LEMMA SwitchEnds ==
  ASSUME TypeOK, ClaimInv, FlowInv, TransitionReturns
  PROVE  /\ FlowInv'
         /\ desired' # desired /\ active # "inactive" => active = BackendOf(desired')
         /\ up' /\ job' = "idle"
              => \/ active' = prev
                 \/ active' = BackendOf(desired') /\ ~pending'
                 \/ active' = "inactive" /\ status' = "recovery_required"
  <1> DEFINE Fine ==
               /\ FlowInv'
               /\ desired' # desired /\ active # "inactive" => active = BackendOf(desired')
               /\ up' /\ job' = "idle"
                    => \/ active' = prev
                       \/ active' = BackendOf(desired') /\ ~pending'
                       \/ active' = "inactive" /\ status' = "recovery_required"
  <1>1. At("return") /\ job \in SwitchJobs
    BY DEF TransitionReturns, SwitchReturns, UndoReturns, Returned, SwitchJobs
  <1>2. ASSUME End PROVE FlowInv' /\ job' = "idle"
    BY <1>2 DEF End, FlowInv, Ran, Switched, Turned, BackendOf, Taking, Enabling,
       Proxying, Releasing, Turning, SwitchJobs
  <1>3. ASSUME GiveUp, UNCHANGED desired PROVE Fine
    BY <1>2, <1>3 DEF GiveUp, Claim
  <1>4. ASSUME Undo, UNCHANGED request PROVE Fine
    BY <1>1, <1>4, UndoFlows DEF request
  <1>5. ASSUME NEW j \in {"undoOn", "commitOn"}, CallPrevious(j),
               UNCHANGED <<desired, goal, prev>>
        PROVE  Fine
    BY <1>1, <1>5, PreviousCalled
  <1>6. CASE job = "switchOff"
    <2>1. /\ UNCHANGED <<memory, request>>
          /\ \/ Undo
             \/ Call("switchOn", IF goal THEN "enableGuard" ELSE "proxyGuard")
      BY <1>6, Zenon DEF TransitionReturns, SwitchReturns, UndoReturns, Returned
    <2>2. CASE Call("switchOn", IF goal THEN "enableGuard" ELSE "proxyGuard")
      BY <1>1, <2>1, <2>2 DEF Call, request, TypeOK, FlowInv, Ran, Switched, Turned,
         BackendOf, Taking, Enabling, Proxying, Releasing, Turning, SwitchJobs
    <2> QED BY <1>4, <2>1, <2>2
  <1>7. CASE job = "switchOn" /\ ~Ok
    BY <1>4, <1>7, Zenon DEF TransitionReturns, SwitchReturns, UndoReturns, Returned
  <1>8. CASE job = "switchOn" /\ Ok
    <2>1. active = BackendOf(goal)
      BY <1>1, <1>8 DEF FlowInv, Switched, Turned, At
    <2>2. /\ UNCHANGED <<memory, goal, prev>>
          /\ \/ Commit(goal) /\ (End \/ Call("apply", "reload"))
             \/ CallRelease("commitOff") /\ UNCHANGED <<desired, pending>>
      BY <1>8, Zenon DEF TransitionReturns, SwitchReturns, UndoReturns, Returned
    <2>3. CASE Commit(goal) /\ (End \/ Call("apply", "reload"))
      <3>1. FlowInv'
        BY <1>2, <2>3 DEF Call, FlowInv, Ran, Switched, Turned, BackendOf, Taking,
           Enabling, Proxying, Releasing, Turning, SwitchJobs
      <3>2. desired' = goal /\ ~pending' /\ active' = active
        BY <2>2, <2>3 DEF Commit, memory
      <3>3. BackendOf(desired') = BackendOf(goal)
        BY <3>2 DEF BackendOf
      <3> QED BY <2>1, <3>1, <3>2, <3>3
    <2>4. CASE CallRelease("commitOff") /\ UNCHANGED <<desired, pending>>
      BY <1>1, <2>2, <2>4, ReleaseCalled DEF FlowInv, Ran, Switched, Turned,
         BackendOf, Taking, Enabling, Proxying, Releasing, Turning, SwitchJobs
    <2> QED BY <2>2, <2>3, <2>4
  <1>9. CASE job = "undoRecover"
    BY <1>3, <1>5, <1>9, Zenon DEF TransitionReturns, SwitchReturns, UndoReturns,
       Returned
  <1>10. CASE job = "commitOff"
    BY <1>3, <1>5, <1>10, Zenon DEF TransitionReturns, SwitchReturns, UndoReturns,
       Returned, request
  <1>11. CASE job \in {"undoOn", "commitOn"}
    <2>1. Ok => active = prev
      BY <1>1, <1>11 DEF FlowInv, Switched, Turned, At
    <2>2. UNCHANGED desired /\ ((Ok /\ Proceed /\ End) \/ GiveUp)
      BY <1>11, Zenon DEF TransitionReturns, SwitchReturns, UndoReturns, Returned,
         request
    <2>3. CASE Ok /\ Proceed /\ End
      BY <1>2, <2>1, <2>2, <2>3 DEF Proceed, memory
    <2> QED BY <1>3, <2>2, <2>3
  <1> QED
    BY <1>1, <1>6, <1>7, <1>8, <1>9, <1>10, <1>11 DEF SwitchJobs

LEMMA JobStepFlows ==
  ASSUME TypeOK, ClaimInv, FlowInv, JobStep PROVE FlowInv'
  <1> USE DEF FlowInv, Ran, Switched, Turned, BackendOf, Taking, Enabling,
              Proxying, Releasing, Turning, SwitchJobs
  <1>1. CASE StartCore
    <2>1. /\ pc = "startCore"
          /\ \/ End
             \/ job = "start" /\ job' = job /\ pc' \in {"enableGuard", "proxyGuard"}
      BY <1>1 DEF StartCore, At, Goto
    <2> QED BY <2>1 DEF End
  <1>2. CASE StartReturns
    BY <1>2, ReleaseCalled DEF StartReturns, End
  <1>3. CASE QuitCore \/ QuitProxy
    BY <1>3 DEF QuitCore, QuitProxy, At, Returned, Goto, End
  <1>4. CASE Reload
    BY <1>4 DEF Reload, End
  <1>5. CASE ApplyReturns
    BY <1>5 DEF ApplyReturns, Returned, Call, End, GiveUp
  <1>6. CASE TransitionReturns
    BY <1>6, SwitchEnds
  <1>7. CASE LaunchProxy \/ LaunchReclaim
    BY <1>7 DEF LaunchProxy, LaunchReclaim, At, Goto
  <1>8. CASE JobReturns
    BY <1>8 DEF JobReturns, Returned, Goto, End
  <1>9. CASE WatchMark \/ WatchRestore
    BY <1>9 DEF WatchMark, WatchRestore, At, Goto, Return, RecoveryUnverified
  <1> QED
    BY <1>1, <1>2, <1>3, <1>4, <1>5, <1>6, <1>7, <1>8, <1>9 DEF JobStep

LEMMA NextFlows ==
  ASSUME TypeOK, ClaimInv, FlowInv, [Next]_vars PROVE FlowInv'
  <1> USE DEF FlowInv, Ran, Switched, Turned, BackendOf, Ok, Taking, Enabling,
              Proxying, Releasing, Turning, SwitchJobs
  <1>1. CASE Watchdog
    BY <1>1 DEF Watchdog, WatchReap, WatchDecide, WatchProxy, WatchTun, Call,
       memory, request, control, ClaimInv, Claimed
  <1>2. CASE Environment
    BY <1>2 DEF Environment, CoreExits, ElevatedCoreExits, Crash,
       JournalUnreadable, End, memory, request, control
  <1>3. CASE UNCHANGED vars
    BY <1>3 DEF vars
  <1> QED
    BY <1>1, <1>2, <1>3, ProcedureFlows, JobBeginsFlows, JobStepFlows DEF Next

(* Which job runs which procedure, at every step and under every fault.    *)
THEOREM FlowInvariant == Spec => []FlowInv
  <1>1. Init => FlowInv
    BY DEF Init, FlowInv, Ran, Switched, Turned, Taking, Enabling, Proxying,
       Releasing, SwitchJobs
  <1>2. TypeOK /\ ClaimInv /\ FlowInv /\ [Next]_vars => FlowInv'
    BY NextFlows
  <1> QED
    BY <1>1, <1>2, TypeCorrect, ClaimsInvariant, PTL DEF Spec

(* The settings change when a save finds no switch to make, or commits one. *)
LEMMA SettingsChange ==
  ASSUME TypeOK, ClaimInv, FlowInv, Next, desired' # desired, active # "inactive"
  PROVE  active = BackendOf(desired')
  <1>1. CASE \E want \in BOOLEAN : SaveWhileActive(want)
    <2> PICK want \in BOOLEAN : SaveWhileActive(want)
      BY <1>1
    <2>1. ~SwitchNeeded(want) /\ desired' = want
      BY Zenon DEF SaveWhileActive, Commit
    <2> QED
      BY <2>1 DEF SwitchNeeded, BackendOf, TypeOK, Backends
  <1>2. CASE TransitionReturns
    BY <1>2, SwitchEnds
  <1>3. CASE Procedure
    BY <1>3, EnableTunStep, DisableTunStep, SystemProxyStep, DriveStep DEF Procedure
  <1>4. CASE JobBegins /\ ~\E want \in BOOLEAN : SaveWhileActive(want)
    BY <1>4, Zenon DEF JobBegins, StartService, StopService, GracefulStop,
       ApplyConfig, ApplyWhileTunActive, SaveWhileInactive, RecoverTun, Launch,
       request
  <1>5. CASE JobStep /\ ~TransitionReturns
    BY <1>5, Zenon DEF JobStep, StartCore, StartReturns, QuitCore, QuitProxy,
       Reload, ApplyReturns, LaunchProxy, LaunchReclaim, JobReturns, WatchMark,
       WatchRestore, request
  <1>6. CASE Watchdog \/ Environment
    BY <1>6, Zenon DEF Watchdog, WatchReap, WatchDecide, WatchProxy, WatchTun,
       Environment, CoreExits, ElevatedCoreExits, Crash, JournalUnreadable,
       request
  <1> QED
    BY <1>1, <1>2, <1>3, <1>4, <1>5, <1>6 DEF Next

(* tun.enabled is written to disk in a live session only once its backend  *)
(* is the active one, whatever fails (transition_tun_settings).            *)
THEOREM CommitsAfterHealthy == Spec => CommittedAfterHealthy
  <1>1. ASSUME TypeOK, ClaimInv, FlowInv, [Next]_vars
        PROVE  [desired' # desired /\ active # "inactive"
                  => active = (IF desired' THEN "tun" ELSE "proxy")]_vars
    BY <1>1, SettingsChange DEF BackendOf
  <1> QED
    BY <1>1, TypeCorrect, ClaimsInvariant, FlowInvariant, PTL
       DEF Spec, CommittedAfterHealthy

(* No other step ends a switch, but for a crash.                           *)
LEMMA SwitchStops ==
  ASSUME TypeOK, ClaimInv, FlowInv, Next, up', job \in SwitchJobs, job' = "idle"
  PROVE  TransitionReturns
  <1>1. CASE Procedure
    BY <1>1, EnableTunStep, DisableTunStep, SystemProxyStep, DriveStep
       DEF Procedure, SwitchJobs
  <1>2. CASE JobBegins
    BY <1>2, SaveStarts DEF JobBegins, StartService, StopService, GracefulStop,
       ApplyConfig, ApplyWhileTunActive, SaveWhileInactive, RecoverTun, Launch,
       Idle, Call, SwitchJobs, ClaimInv, Claimed
  <1>3. CASE JobStep /\ ~TransitionReturns
    BY <1>3 DEF JobStep, StartCore, StartReturns, QuitCore, QuitProxy,
       Reload, ApplyReturns, LaunchProxy, LaunchReclaim, JobReturns, WatchMark,
       WatchRestore, At, Returned, Goto, Return, RecoveryUnverified, FlowInv,
       Ran, SwitchJobs
  <1>4. CASE Watchdog
    <2>1. job' \in {job, "watch"}
      BY <1>4, Zenon DEF Watchdog, WatchReap, WatchDecide, WatchProxy, WatchTun,
         Call, control
    <2> QED BY <2>1 DEF SwitchJobs
  <1>5. CASE Environment
    BY <1>5 DEF Environment, CoreExits, ElevatedCoreExits, Crash,
       JournalUnreadable, control, SwitchJobs
  <1> QED
    BY <1>1, <1>2, <1>3, <1>4, <1>5 DEF Next, JobStep

(* A switch ends with a commit, with the backend it began with, or with    *)
(* recovery required, whatever fails (rollback_backend).                   *)
THEOREM SwitchesAreAtomic == Spec => SwitchIsAtomic
  <1>1. ASSUME TypeOK, ClaimInv, FlowInv, [Next]_vars
        PROVE  [up' /\ job \in SwitchJobs /\ job' = "idle"
                  => \/ active' = prev
                     \/ active' = (IF desired' THEN "tun" ELSE "proxy") /\ ~pending'
                     \/ active' = "inactive" /\ status' = "recovery_required"]_vars
    BY <1>1, SwitchStops, SwitchEnds DEF BackendOf
  <1> QED
    BY <1>1, TypeCorrect, ClaimsInvariant, FlowInvariant, PTL
       DEF Spec, SwitchIsAtomic

(* TUN is put on the OS by the step that starts the elevated core alone.   *)
LEMMA TunTaken ==
  ASSUME Next, tun' = "held", tun # "held" PROVE pc = "apply"
  <1>1. "held" \notin AfterElevatedExit \cup AfterFailedRestore
    BY DEF AfterElevatedExit, AfterFailedRestore
  <1>2. CASE Apply
    BY <1>2 DEF Apply, At
  <1>3. CASE EnableTun
    BY <1>1, <1>2, <1>3
       DEF EnableTun, EnableGuard, Reclaim, SaveIntent, Prepare, ReleaseCore,
           Observe, Adopt, Unadopt, Verify, Unverify, MarkApplied, Refuse,
           MarkError, tunState
  <1>4. CASE DisableTun
    BY <1>1, <1>4
       DEF DisableTun, Disable, Restore, MarkClean, RestartDiagnostic
  <1>5. CASE SystemProxy
    BY <1>5
       DEF SystemProxy, ProxyGuard, ProxyApply, ProxySave, ProxyRestore,
           tunState
  <1>6. CASE Drive
    BY <1>1, <1>6 DEF Drive, tunState
  <1>7. CASE JobBegins
    BY <1>7
       DEF JobBegins, StartService, StopService, GracefulStop, ApplyConfig,
           ApplyWhileTunActive, SaveWhileInactive, SaveWhileActive, RecoverTun,
           Launch, tunState
  <1>8. CASE JobStep
    BY <1>1, <1>8
       DEF JobStep, StartCore, StartReturns, QuitCore, QuitProxy, Reload,
           ApplyReturns, TransitionReturns, LaunchProxy, LaunchReclaim,
           JobReturns, WatchMark, WatchRestore, tunState
  <1>9. CASE Watchdog
    BY <1>9
       DEF Watchdog, WatchReap, WatchDecide, WatchProxy, WatchTun, tunState
  <1>10. CASE Environment
    BY <1>1, <1>10
       DEF Environment, CoreExits, ElevatedCoreExits, Crash, JournalUnreadable
  <1> QED
    BY <1>3, <1>4, <1>5, <1>6, <1>7, <1>8, <1>9, <1>10 DEF Next, Procedure

(* The OS proxy is put on by an apply or by the sync of a reload alone.    *)
LEMMA ProxyTaken ==
  ASSUME Next, proxied', ~proxied PROVE pc \in {"proxyApply", "reload"}
  <1>1. ~ProxyRestored /\ ~ProxyRestoreFails
    BY Zenon DEF ProxyRestored, GivenBack, ProxyRestoreFails, RestoreCutShort
  <1>2. CASE ProxyApply \/ Reload
    BY <1>2, Zenon DEF ProxyApply, Reload, At
  <1>3. CASE EnableTun
    BY <1>3, Zenon
       DEF EnableTun, EnableGuard, Reclaim, SaveIntent, Prepare, ReleaseCore,
           Apply, Observe, Adopt, Unadopt, Verify, Unverify, MarkApplied, Refuse,
           MarkError, claims
  <1>4. CASE DisableTun
    BY <1>4, Zenon
       DEF DisableTun, Disable, Restore, MarkClean, RestartDiagnostic, claims
  <1>5. CASE SystemProxy
    BY <1>1, <1>2, <1>5, Zenon
       DEF SystemProxy, ProxyGuard, ProxySave, ProxyRestore, claims
  <1>6. CASE Drive
    BY <1>6, Zenon DEF Drive, claims
  <1>7. CASE JobBegins
    BY <1>7, Zenon
       DEF JobBegins, StartService, StopService, GracefulStop, ApplyConfig,
           ApplyWhileTunActive, SaveWhileInactive, SaveWhileActive, RecoverTun,
           Launch, claims
  <1>8. CASE JobStep
    BY <1>1, <1>2, <1>8, Zenon
       DEF JobStep, StartCore, StartReturns, QuitCore, QuitProxy, ApplyReturns,
           TransitionReturns, LaunchProxy, LaunchReclaim, JobReturns, WatchMark,
           WatchRestore, claims
  <1>9. CASE Watchdog
    BY <1>1, <1>9, Zenon
       DEF Watchdog, WatchReap, WatchDecide, WatchProxy, WatchTun, claims
  <1>10. CASE Environment
    <2>1. CASE Crash
      <3>1. ~RestoreCutShort
        BY Zenon DEF RestoreCutShort
      <3> QED
        BY <2>1, <3>1, Zenon DEF Crash, ProxyCutShort, claims
    <2> QED
      BY <1>10, <2>1, Zenon
         DEF Environment, CoreExits, ElevatedCoreExits, JournalUnreadable, claims
  <1> QED
    BY <1>3, <1>4, <1>5, <1>6, <1>7, <1>8, <1>9, <1>10 DEF Next, Procedure

(* No step of a job that recovers, launches or reaps puts a capture on the *)
(* OS, whatever fails in it (recover, recover_launch_leftovers).           *)
THEOREM RecoveryTakesNothing == Spec => RecoveryNeverCaptures
  <1>1. ASSUME FlowInv, [Next]_vars
        PROVE  [(job \in {"recover", "launch", "watch", "undoRecover", "applyRecover"})
                  => /\ tun' # "held" \/ tun = "held"
                     /\ ~proxied' \/ proxied]_vars
    <2>1. /\ pc = "apply" => job \in {"start", "applyOn", "applyUndo"} \cup Turning
          /\ pc = "proxyApply" => job \in {"start"} \cup Turning
          /\ pc = "reload" => job = "apply"
      BY <1>1 DEF FlowInv, Ran, Taking, Enabling, Proxying
    <2> QED BY <1>1, <2>1, TunTaken, ProxyTaken DEF Turning
  <1> QED
    BY <1>1, FlowInvariant, PTL DEF Spec, RecoveryNeverCaptures

-----------------------------------------------------------------------------
(***************************************************************************)
(* Every job comes to its end: the calls it has left, and the steps left   *)
(* of the one it makes, under every fault.                                 *)
(***************************************************************************)

(* The longest chain of jobs that can follow, with this one.               *)
CallsLeft ==
  IF job \in {"switchOff", "applyOff"} THEN 4
  ELSE IF job \in {"switchOn", "applyOn"} THEN 3
  ELSE IF job \in {"start", "commitOff", "undoRecover", "applyRecover"} THEN 2
  ELSE IF job # "idle" THEN 1
  ELSE 0

(* The longest way to the end of the procedure and back to the job.        *)
StepsLeft ==
  IF pc = "startCore" /\ job = "start" THEN 14
  ELSE IF pc = "enableGuard" THEN 13
  ELSE IF pc = "reclaim" THEN 12
  ELSE IF pc = "saveIntent" THEN 11
  ELSE IF pc = "prepare" THEN 10
  ELSE IF pc = "release" THEN 9
  ELSE IF pc = "apply" THEN 8
  ELSE IF pc \in {"observe", "disable"} THEN 7
  ELSE IF pc \in {"adopt", "restore", "proxyGuard", "launchProxy"} THEN 6
  ELSE IF pc \in {"verify", "proxyApply", "markClean", "launchReclaim", "watchMark"} THEN 5
  ELSE IF pc \in {"markApplied", "unverify", "unadopt", "refuse", "deny", "markError",
                  "restart", "drive", "proxySave", "proxyRestore", "reload",
                  "watchRestore"} THEN 4
  ELSE IF pc = "return" THEN 3
  ELSE IF pc \in {"startCore", "quitCore"} THEN 2
  ELSE IF pc = "quitProxy" THEN 1
  ELSE 0

Nearer ==
  \/ CallsLeft' < CallsLeft
  \/ CallsLeft' = CallsLeft /\ StepsLeft' < StepsLeft

(* A job that takes a step is nearer to its end, and nothing beside it     *)
(* takes it further away.                                                  *)
JobsEnd ==
  [][/\ Procedure \/ JobStep => Nearer
     /\ job # "idle" => Nearer \/ UNCHANGED control]_vars

(* Both are bounded, so a job has an end to come to.                       *)
LEMMA LeftBounds == CallsLeft \in 0..4 /\ StepsLeft \in 0..14 /\ (job # "idle" => CallsLeft > 0)
BY DEF CallsLeft, StepsLeft

LEMMA StepTaken == ASSUME job' = job, StepsLeft' < StepsLeft PROVE Nearer
  <1>1. CallsLeft' = CallsLeft
    BY DEF CallsLeft
  <1> QED BY <1>1 DEF Nearer

LEMMA CallMade == ASSUME CallsLeft' < CallsLeft PROVE Nearer
BY DEF Nearer

LEMMA JobOver == ASSUME End, job # "idle" PROVE Nearer
  <1>1. CallsLeft' = 0
    BY DEF End, CallsLeft
  <1> QED BY <1>1, LeftBounds, CallMade

(* Every procedure goes towards its return.                                *)
LEMMA ProcedureEnds == ASSUME TypeOK, ClaimInv, FlowInv, Procedure PROVE Nearer
  <1>1. job' = job
    BY EnableTunStep, DisableTunStep, SystemProxyStep, DriveStep DEF Procedure
  <1>2. ASSUME EnableTun PROVE StepsLeft' < StepsLeft
    <2>1. CASE EnableGuard
      BY <2>1 DEF EnableGuard, At, Goto, Return, StepsLeft
    <2>2. CASE Reclaim \/ SaveIntent
      BY <2>2 DEF Reclaim, SaveIntent, EnableFails, At, Goto, Return, StepsLeft
    <2>3. CASE Prepare \/ ReleaseCore
      BY <2>3 DEF Prepare, ReleaseCore, At, Goto, StepsLeft
    <2>4. CASE Apply \/ Observe \/ Adopt
      BY <2>4 DEF Apply, Observe, Adopt, At, Goto, StepsLeft
    <2>5. CASE Unadopt \/ Verify \/ Unverify
      BY <2>5 DEF Unadopt, Verify, Unverify, EnableFails, At, Goto, Return, StepsLeft
    <2>6. CASE MarkApplied \/ Refuse \/ MarkError
      BY <2>6 DEF MarkApplied, Refuse, MarkError, EnableFails, At, Return, StepsLeft
    <2> QED
      BY <1>2, <2>1, <2>2, <2>3, <2>4, <2>5, <2>6 DEF EnableTun
  <1>3. ASSUME DisableTun PROVE StepsLeft' < StepsLeft
    BY <1>3 DEF DisableTun, Disable, Restore, MarkClean, RestartDiagnostic,
       Unconfirmed, At, Goto, Return, StepsLeft
  <1>4. ASSUME SystemProxy PROVE StepsLeft' < StepsLeft
    BY <1>4 DEF SystemProxy, ProxyGuard, ProxyApply, ProxySave, ProxyRestore, At,
       Goto, Return, StepsLeft
  <1>5. ASSUME Drive PROVE StepsLeft' < StepsLeft
    BY <1>5, DriveStep DEF StepsLeft
  <1> QED
    BY <1>1, <1>2, <1>3, <1>4, <1>5, StepTaken DEF Procedure

(* What a job calls next is nearer to its end.                             *)
LEMMA TransitionEnds == ASSUME TypeOK, ClaimInv, FlowInv, TransitionReturns PROVE Nearer
  <1>1. At("return") /\ job \in SwitchJobs
    BY DEF TransitionReturns, SwitchReturns, UndoReturns, Returned, SwitchJobs
  <1>2. ASSUME End \/ GiveUp PROVE Nearer
    BY <1>1, <1>2, JobOver DEF GiveUp, SwitchJobs
  <1>3. ASSUME Undo, UNCHANGED request PROVE job' \in {"undoRecover", "undoOn"}
    BY <1>1, <1>3, UndoFlows DEF request
  <1>4. ASSUME NEW j \in {"undoOn", "commitOn"}, CallPrevious(j), UNCHANGED <<desired, goal, prev>>
        PROVE  job' = j
    BY <1>1, <1>4, PreviousCalled
  <1>5. CASE job = "switchOff"
    <2>1. /\ UNCHANGED request
          /\ Undo \/ Call("switchOn", IF goal THEN "enableGuard" ELSE "proxyGuard")
      BY <1>5, Zenon DEF TransitionReturns, SwitchReturns, UndoReturns, Returned
    <2>2. job' \in {"switchOn", "undoRecover", "undoOn"}
      BY <1>3, <2>1 DEF Call
    <2> QED BY <1>5, <2>2, CallMade DEF CallsLeft
  <1>6. CASE job = "switchOn"
    <2>1. \/ Undo /\ UNCHANGED request
          \/ End
          \/ Call("apply", "reload")
          \/ CallRelease("commitOff")
      BY <1>6, Zenon DEF TransitionReturns, SwitchReturns, UndoReturns, Returned
    <2>2. End \/ job' \in {"undoRecover", "undoOn", "apply", "commitOff"}
      BY <1>3, <2>1, ReleaseCalled DEF Call
    <2> QED BY <1>2, <1>6, <2>2, CallMade DEF CallsLeft
  <1>7. CASE job = "undoRecover"
    <2>1. End \/ job' = "undoOn"
      BY <1>4, <1>7, Zenon DEF TransitionReturns, SwitchReturns, UndoReturns, Returned, GiveUp
    <2> QED BY <1>2, <1>7, <2>1, CallMade DEF CallsLeft
  <1>8. CASE job = "commitOff"
    <2>1. End \/ job' = "commitOn"
      BY <1>4, <1>8, Zenon DEF TransitionReturns, SwitchReturns, UndoReturns, Returned, GiveUp,
         request
    <2> QED BY <1>2, <1>8, <2>1, CallMade DEF CallsLeft
  <1>9. CASE job \in {"undoOn", "commitOn"}
    BY <1>2, <1>9, Zenon DEF TransitionReturns, SwitchReturns, UndoReturns, Returned
  <1> QED
    BY <1>1, <1>5, <1>6, <1>7, <1>8, <1>9 DEF SwitchJobs

LEMMA JobStepEnds == ASSUME TypeOK, ClaimInv, FlowInv, JobStep PROVE Nearer
  <1>1. CASE StartCore
    <2>1. /\ pc = "startCore" /\ job # "idle"
          /\ \/ End
             \/ job = "start" /\ job' = job /\ pc' \in {"enableGuard", "proxyGuard"}
      BY <1>1 DEF StartCore, At, Goto, FlowInv, Ran
    <2>2. CASE End
      BY <2>1, <2>2, JobOver
    <2>3. CASE job = "start" /\ job' = job /\ pc' \in {"enableGuard", "proxyGuard"}
      BY <2>1, <2>3, StepTaken DEF StepsLeft
    <2> QED BY <2>1, <2>2, <2>3
  <1>2. CASE StartReturns
    <2>1. job = "start" /\ (End \/ CallRelease("startUndo"))
      BY <1>2 DEF StartReturns, Returned
    <2>2. CASE End
      BY <2>1, <2>2, JobOver
    <2>3. CASE CallRelease("startUndo")
      BY <2>1, <2>3, ReleaseCalled, CallMade DEF CallsLeft
    <2> QED BY <2>1, <2>2, <2>3
  <1>3. CASE QuitCore
    <2>1. job = "quit" /\ pc \in {"quitCore", "return"}
      BY <1>3 DEF QuitCore, At, Returned, FlowInv, Ran
    <2>2. End \/ Goto("quitProxy")
      BY <1>3 DEF QuitCore
    <2>3. CASE Goto("quitProxy")
      BY <2>1, <2>3, StepTaken DEF Goto, StepsLeft
    <2> QED BY <2>1, <2>2, <2>3, JobOver
  <1>4. CASE QuitProxy \/ Reload
    <2>1. End /\ job # "idle"
      BY <1>4 DEF QuitProxy, Reload, At, FlowInv, Ran
    <2> QED BY <2>1, JobOver
  <1>5. CASE ApplyReturns
    <2>1. /\ job \in {"applyOff", "applyOn", "applyRecover", "applyUndo"}
          /\ \/ End
             \/ job = "applyOff" /\ job' = "applyOn"
             \/ job = "applyOn" /\ job' = "applyRecover"
             \/ job = "applyRecover" /\ job' = "applyUndo"
      BY <1>5 DEF ApplyReturns, Returned, Call, GiveUp
    <2>2. CASE End
      BY <2>1, <2>2, JobOver
    <2>3. CASE ~End
      BY <2>1, <2>3, CallMade DEF CallsLeft
    <2> QED BY <2>2, <2>3
  <1>6. CASE TransitionReturns
    BY <1>6, TransitionEnds
  <1>7. CASE LaunchProxy \/ LaunchReclaim
    BY <1>7, StepTaken DEF LaunchProxy, LaunchReclaim, At, Goto, StepsLeft
  <1>8. CASE JobReturns
    <2>1. \/ job = "launch" /\ pc = "return" /\ Goto("startCore")
          \/ job \in {"startUndo", "stop", "recover", "watch"} /\ End
      BY <1>8 DEF JobReturns, Returned, At
    <2>2. CASE job = "launch" /\ pc = "return" /\ Goto("startCore")
      BY <2>2, StepTaken DEF Goto, StepsLeft
    <2> QED BY <2>1, <2>2, JobOver
  <1>9. CASE WatchMark \/ WatchRestore
    BY <1>9, StepTaken DEF WatchMark, WatchRestore, At, Goto, Return, RecoveryUnverified,
       StepsLeft
  <1> QED
    BY <1>1, <1>2, <1>3, <1>4, <1>5, <1>6, <1>7, <1>8, <1>9 DEF JobStep

LEMMA NextEnds ==
  ASSUME TypeOK, ClaimInv, FlowInv, Next, job # "idle" PROVE Nearer \/ UNCHANGED control
  <1>1. CASE Procedure \/ JobStep
    BY <1>1, ProcedureEnds, JobStepEnds
  <1>2. CASE JobBegins
    <2>1. Launch
      BY <1>2, Zenon DEF JobBegins, StartService, StopService, GracefulStop, ApplyConfig,
         ApplyWhileTunActive, SaveWhileInactive, SaveWhileActive, RecoverTun, Idle
    <2> QED BY <2>1 DEF Launch, ClaimInv, Claimed
  <1>3. CASE Watchdog
    <2>1. UNCHANGED control \/ WatchTun
      BY <1>3, Zenon DEF Watchdog, WatchReap, WatchDecide, WatchProxy
    <2>2. WatchTun => UNCHANGED control
      BY Zenon DEF WatchTun
    <2> QED BY <2>1, <2>2
  <1>4. CASE Environment
    <2>1. UNCHANGED control \/ Crash
      BY <1>4, Zenon DEF Environment, CoreExits, ElevatedCoreExits, JournalUnreadable
    <2>2. Crash => End
      BY Zenon DEF Crash
    <2> QED BY <2>1, <2>2, JobOver
  <1> QED
    BY <1>1, <1>2, <1>3, <1>4 DEF Next

(* Under every fault, a job ends: each of its steps is one of no more than *)
(* 74, and neither the watchdog nor another job adds to them (the retries, *)
(* rollbacks and recoveries of capture/ and application/).                 *)
THEOREM JobsComeToAnEnd == Spec => JobsEnd
  <1>1. TypeOK /\ ClaimInv /\ FlowInv /\ [Next]_vars
          => [/\ Procedure \/ JobStep => Nearer
              /\ job # "idle" => Nearer \/ UNCHANGED control]_vars
    BY ProcedureEnds, JobStepEnds, NextEnds
  <1> QED
    BY <1>1, TypeCorrect, ClaimsInvariant, FlowInvariant, PTL DEF Spec, JobsEnd
-----------------------------------------------------------------------------
(***************************************************************************)
(* One capture at a time, as long as the OS proxy and its record can be    *)
(* changed.                                                                *)
(***************************************************************************)
NoProxyFault == ~Can("proxy")

Untaken == {"saveIntent", "prepare", "release", "apply", "refuse", "deny",
            "markClean", "proxyApply", "proxySave", "restart"}

(* A proxied OS has its record, but for the last step of an apply, and an  *)
(* applied record means that TUN is not held, proxied or not.              *)
Proxied ==
  /\ proxied => /\ record # "clear"
                /\ record = "applied" \/ pc = "proxySave" \/ ~up \/ pc = "launchProxy"
  /\ tun = "held" => record # "applied"

(* No core of the app's own runs beside the elevated one, and the one it   *)
(* adopted is named in the journal.                                        *)
Held ==
  /\ pc \in Untaken => tun # "held"
  /\ pc \in Enabling \ {"saveIntent"} => Outstanding(journal)
  /\ pc \in {"verify", "unverify", "markApplied", "adopt", "unadopt"} => journal.named
  /\ pc \in {"apply", "observe", "adopt"} => core = "stopped"
  /\ pc = "unadopt" => core \in {"stopped", "error"}
  /\ tun = "held"
       => \/ core \in {"stopped", "error"}
          \/ core = "adopted" /\ Outstanding(journal) /\ journal.named

ExclInv == Proxied /\ Held /\ Exclusive

LEMMA EnableTunExcludes ==
  ASSUME NoProxyFault, TypeOK, ClaimInv, ExclInv, EnableTun PROVE ExclInv'
  <1>1. CASE EnableGuard
    BY <1>1 DEF EnableGuard, At, Goto, Return, Claim, Outstanding, Can,
       memory, claims, tunState, request, TypeOK, ClaimInv, Claimed,
       Owned, ExclInv, Proxied, Held, Exclusive, Enabling, Unclaimed,
       Untaken, NoProxyFault, StopOutcomes, StartOutcomes,
       AfterElevatedExit, AfterFailedRestore, JournalRecords
  <1>2. CASE Reclaim
    BY <1>2 DEF Reclaim, At, Goto, Return, Claim, HandleFor, Orphaned,
       Can, memory, claims, request, Outstanding, TypeOK, ClaimInv,
       Claimed, Owned, ExclInv, Proxied, Held, Exclusive, Enabling,
       Unclaimed, Untaken, NoProxyFault, StopOutcomes, StartOutcomes,
       AfterElevatedExit, AfterFailedRestore, JournalRecords
  <1>3. CASE SaveIntent
    BY <1>3 DEF SaveIntent, At, Goto, Return, Claim, EnableFails,
       FailureStatus, IntentSaved, Journal, Outstanding, Can, memory,
       claims, request, TypeOK, ClaimInv, Claimed, Owned, ExclInv,
       Proxied, Held, Exclusive, Enabling, Unclaimed, Untaken,
       NoProxyFault, StopOutcomes, StartOutcomes, AfterElevatedExit,
       AfterFailedRestore, JournalRecords
  <1>4. CASE Prepare
    BY <1>4 DEF Prepare, At, Goto, CoreRunning, Can, memory, claims,
       tunState, request, Outstanding, TypeOK, ClaimInv, Claimed, Owned,
       ExclInv, Proxied, Held, Exclusive, Enabling, Unclaimed, Untaken,
       NoProxyFault, StopOutcomes, StartOutcomes, AfterElevatedExit,
       AfterFailedRestore, JournalRecords
  <1>5. CASE ReleaseCore
    BY <1>5 DEF ReleaseCore, At, Goto, memory, claims, request,
       Outstanding, TypeOK, ClaimInv, Claimed, Owned, ExclInv, Proxied,
       Held, Exclusive, Enabling, Unclaimed, Untaken, NoProxyFault,
       StopOutcomes, StartOutcomes, AfterElevatedExit, AfterFailedRestore,
       JournalRecords
  <1>6. CASE Apply
    BY <1>6 DEF Apply, At, Goto, Can, memory, claims, request,
       Outstanding, TypeOK, ClaimInv, Claimed, Owned, ExclInv, Proxied,
       Held, Exclusive, Enabling, Unclaimed, Untaken, NoProxyFault,
       StopOutcomes, StartOutcomes, AfterElevatedExit, AfterFailedRestore,
       JournalRecords
  <1>7. CASE Observe
    BY <1>7 DEF Observe, At, Goto, NamesSaved, Journal, Can, memory,
       claims, request, Outstanding, TypeOK, ClaimInv, Claimed, Owned,
       ExclInv, Proxied, Held, Exclusive, Enabling, Unclaimed, Untaken,
       NoProxyFault, StopOutcomes, StartOutcomes, AfterElevatedExit,
       AfterFailedRestore, JournalRecords
  <1>8. CASE Adopt
    BY <1>8 DEF Adopt, At, Goto, Can, memory, claims, request,
       Outstanding, TypeOK, ClaimInv, Claimed, Owned, ExclInv, Proxied,
       Held, Exclusive, Enabling, Unclaimed, Untaken, NoProxyFault,
       StopOutcomes, StartOutcomes, AfterElevatedExit, AfterFailedRestore,
       JournalRecords
  <1>9. CASE Unadopt
    BY <1>9 DEF Unadopt, At, Return, Claim, EnableFails, FailureStatus,
       TryMark, Mark, CleanJournal, Journal, Outstanding, Can, claims,
       request, TypeOK, ClaimInv, Claimed, Owned, ExclInv, Proxied, Held,
       Exclusive, Enabling, Unclaimed, Untaken, NoProxyFault,
       StopOutcomes, StartOutcomes, AfterElevatedExit, AfterFailedRestore,
       JournalRecords
  <1>10. CASE Verify
    BY <1>10 DEF Verify, At, Goto, Return, Claim, EnableFails,
       FailureStatus, Outstanding, Can, memory, claims, request, TypeOK,
       ClaimInv, Claimed, Owned, ExclInv, Proxied, Held, Exclusive,
       Enabling, Unclaimed, Untaken, NoProxyFault, StopOutcomes,
       StartOutcomes, AfterElevatedExit, AfterFailedRestore,
       JournalRecords
  <1>11. CASE Unverify
    BY <1>11 DEF Unverify, At, Return, Claim, EnableFails, FailureStatus,
       TryMark, Mark, Outstanding, Can, claims, request, TypeOK, ClaimInv,
       Claimed, Owned, ExclInv, Proxied, Held, Exclusive, Enabling,
       Unclaimed, Untaken, NoProxyFault, StopOutcomes, StartOutcomes,
       AfterElevatedExit, AfterFailedRestore, JournalRecords
  <1>12. CASE MarkApplied
    BY <1>12 DEF MarkApplied, At, Return, Claim, EnableFails,
       FailureStatus, Mark, Outstanding, Can, claims, request, TypeOK,
       ClaimInv, Claimed, Owned, ExclInv, Proxied, Held, Exclusive,
       Enabling, Unclaimed, Untaken, NoProxyFault, StopOutcomes,
       StartOutcomes, AfterElevatedExit, AfterFailedRestore,
       JournalRecords
  <1>13. CASE Refuse
    BY <1>13 DEF Refuse, At, Return, Claim, EnableFails, FailureStatus,
       TryMark, CleanJournal, Journal, Outstanding, Can, claims, request,
       TypeOK, ClaimInv, Claimed, Owned, ExclInv, Proxied, Held,
       Exclusive, Enabling, Unclaimed, Untaken, NoProxyFault,
       StopOutcomes, StartOutcomes, AfterElevatedExit, AfterFailedRestore,
       JournalRecords
  <1>14. CASE MarkError
    BY <1>14 DEF MarkError, At, Return, Claim, EnableFails, FailureStatus,
       TryMark, Mark, Outstanding, Can, claims, request, TypeOK, ClaimInv,
       Claimed, Owned, ExclInv, Proxied, Held, Exclusive, Enabling,
       Unclaimed, Untaken, NoProxyFault, StopOutcomes, StartOutcomes,
       AfterElevatedExit, AfterFailedRestore, JournalRecords
  <1> QED
    BY <1>1, <1>2, <1>3, <1>4, <1>5, <1>6, <1>7, <1>8, <1>9, <1>10, <1>11,
       <1>12, <1>13, <1>14 DEF EnableTun

LEMMA DisableTunExcludes ==
  ASSUME NoProxyFault, TypeOK, ClaimInv, ExclInv, DisableTun PROVE ExclInv'
  <1>1. CASE Disable
    BY <1>1 DEF Disable, At, Goto, Return, Claim, Mark, Can, claims,
       request, Outstanding, TypeOK, ClaimInv, Claimed, Owned, ExclInv,
       Proxied, Held, Exclusive, Enabling, Unclaimed, Untaken,
       NoProxyFault, StopOutcomes, StartOutcomes, AfterElevatedExit,
       AfterFailedRestore, JournalRecords
  <1>2. CASE Restore
    BY <1>2 DEF Restore, At, Goto, Return, Claim, Unconfirmed, TryMark,
       Mark, HandleFor, Orphaned, Can, memory, claims, request,
       Outstanding, TypeOK, ClaimInv, Claimed, Owned, ExclInv, Proxied,
       Held, Exclusive, Enabling, Unclaimed, Untaken, NoProxyFault,
       StopOutcomes, StartOutcomes, AfterElevatedExit, AfterFailedRestore,
       JournalRecords
  <1>3. CASE MarkClean
    BY <1>3 DEF MarkClean, At, Goto, Return, Claim, CleanJournal, Journal,
       Can, memory, claims, request, Outstanding, TypeOK, ClaimInv,
       Claimed, Owned, ExclInv, Proxied, Held, Exclusive, Enabling,
       Unclaimed, Untaken, NoProxyFault, StopOutcomes, StartOutcomes,
       AfterElevatedExit, AfterFailedRestore, JournalRecords
  <1>4. CASE RestartDiagnostic
    BY <1>4 DEF RestartDiagnostic, At, Return, memory, claims, request,
       Outstanding, TypeOK, ClaimInv, Claimed, Owned, ExclInv, Proxied,
       Held, Exclusive, Enabling, Unclaimed, Untaken, NoProxyFault,
       StopOutcomes, StartOutcomes, AfterElevatedExit, AfterFailedRestore,
       JournalRecords
  <1> QED
    BY <1>1, <1>2, <1>3, <1>4 DEF DisableTun

LEMMA SystemProxyExcludes ==
  ASSUME NoProxyFault, TypeOK, ClaimInv, ExclInv, SystemProxy PROVE ExclInv'
  <1>1. CASE ProxyGuard
    BY <1>1 DEF ProxyGuard, At, Goto, Return, Claim, Outstanding,
       CoreRunning, memory, claims, tunState, request, TypeOK, ClaimInv,
       Claimed, Owned, ExclInv, Proxied, Held, Exclusive, Enabling,
       Unclaimed, Untaken, NoProxyFault, StopOutcomes, StartOutcomes,
       AfterElevatedExit, AfterFailedRestore, JournalRecords
  <1>2. CASE ProxyApply
    BY <1>2 DEF ProxyApply, At, Goto, Return, ProxyRestoreFails, RestoreCutShort,
       ProxyApplyFails, ApplyCutShort, Can, memory, tunState, request, Outstanding,
       TypeOK, ClaimInv, Claimed, Owned, ExclInv, Proxied, Held,
       Exclusive, Enabling, Unclaimed, Untaken, NoProxyFault,
       StopOutcomes, StartOutcomes, AfterElevatedExit, AfterFailedRestore,
       JournalRecords
  <1>3. CASE ProxySave
    BY <1>3 DEF ProxySave, At, Return, Claim, Can, memory, tunState,
       request, Outstanding, TypeOK, ClaimInv, Claimed, Owned, ExclInv,
       Proxied, Held, Exclusive, Enabling, Unclaimed, Untaken,
       NoProxyFault, StopOutcomes, StartOutcomes, AfterElevatedExit,
       AfterFailedRestore, JournalRecords
  <1>4. CASE ProxyRestore
    <2>1. record' = "clear" /\ (proxied' => proxied /\ record = "clear")
      BY <1>4, ProxyHolds, Zenon DEF ProxyRestore, NoProxyFault
    <2> QED
      BY <1>4, <2>1
         DEF ProxyRestore, At, Return, Claim, Can, memory, tunState, request,
             Outstanding, TypeOK, ClaimInv, Claimed, Owned, ExclInv, Proxied,
             Held, Exclusive, Enabling, Unclaimed, Untaken, NoProxyFault,
             StopOutcomes, StartOutcomes, AfterElevatedExit, AfterFailedRestore,
             JournalRecords
  <1> QED
    BY <1>1, <1>2, <1>3, <1>4 DEF SystemProxy

LEMMA DriveExcludes ==
  ASSUME NoProxyFault, TypeOK, ClaimInv, ExclInv, Drive PROVE ExclInv'
  BY DEF Drive, At, Return, Claim, RecoveryUnverified, Baseline, Recovered,
     VerifiedGone, TryMark, Mark, CleanJournal, Journal, HandleFor,
     Orphaned, Can, memory, claims, tunState, Outstanding, TypeOK, ClaimInv,
     Claimed, Owned, ExclInv, Proxied, Held, Exclusive, Enabling, Unclaimed,
     Untaken, NoProxyFault, StopOutcomes, StartOutcomes, AfterElevatedExit,
     AfterFailedRestore, JournalRecords

LEMMA JobBeginsExcludes ==
  ASSUME NoProxyFault, TypeOK, ClaimInv, ExclInv, JobBegins PROVE ExclInv'
  <1>1. CASE StartService
    BY <1>1 DEF StartService, Idle, Call, memory, claims, tunState,
       request, Outstanding, TypeOK, ClaimInv, Claimed, Owned, ExclInv,
       Proxied, Held, Exclusive, Enabling, Unclaimed, Untaken,
       NoProxyFault, StopOutcomes, StartOutcomes, AfterElevatedExit,
       AfterFailedRestore, JournalRecords
  <1>2. CASE StopService
    BY <1>2, ReleaseCalled DEF StopService, Idle, memory, claims, tunState,
       ClaimInv, Claimed, ExclInv, Proxied, Held, Exclusive, Enabling,
       Untaken, Outstanding
  <1>3. CASE GracefulStop
    BY <1>3 DEF GracefulStop, Idle, Call, memory, claims, tunState,
       request, Outstanding, TypeOK, ClaimInv, Claimed, Owned, ExclInv,
       Proxied, Held, Exclusive, Enabling, Unclaimed, Untaken,
       NoProxyFault, StopOutcomes, StartOutcomes, AfterElevatedExit,
       AfterFailedRestore, JournalRecords
  <1>4. CASE ApplyConfig
    BY <1>4 DEF ApplyConfig, Idle, Call, memory, claims, tunState,
       request, Outstanding, TypeOK, ClaimInv, Claimed, Owned, ExclInv,
       Proxied, Held, Exclusive, Enabling, Unclaimed, Untaken,
       NoProxyFault, StopOutcomes, StartOutcomes, AfterElevatedExit,
       AfterFailedRestore, JournalRecords
  <1>5. CASE ApplyWhileTunActive
    BY <1>5 DEF ApplyWhileTunActive, Idle, Call, memory, claims, tunState,
       request, Outstanding, TypeOK, ClaimInv, Claimed, Owned, ExclInv,
       Proxied, Held, Exclusive, Enabling, Unclaimed, Untaken,
       NoProxyFault, StopOutcomes, StartOutcomes, AfterElevatedExit,
       AfterFailedRestore, JournalRecords
  <1>6. CASE SaveWhileInactive
    BY <1>6 DEF SaveWhileInactive, Idle, Call, memory, claims, tunState,
       control, Outstanding, TypeOK, ClaimInv, Claimed, Owned, ExclInv,
       Proxied, Held, Exclusive, Enabling, Unclaimed, Untaken,
       NoProxyFault, StopOutcomes, StartOutcomes, AfterElevatedExit,
       AfterFailedRestore, JournalRecords
  <1>7. CASE \E want \in BOOLEAN : SaveWhileActive(want)
    <2> PICK want \in BOOLEAN : SaveWhileActive(want)
      BY <1>7
    <2> QED
      BY SaveStarts DEF Idle, memory, claims, tunState, control, Claimed,
         ClaimInv, ExclInv, Proxied, Held, Exclusive, Enabling, Untaken,
         Outstanding
  <1>8. CASE RecoverTun
    BY <1>8 DEF RecoverTun, Idle, Call, memory, claims, tunState, request,
       Outstanding, TypeOK, ClaimInv, Claimed, Owned, ExclInv, Proxied,
       Held, Exclusive, Enabling, Unclaimed, Untaken, NoProxyFault,
       StopOutcomes, StartOutcomes, AfterElevatedExit, AfterFailedRestore,
       JournalRecords
  <1>9. CASE Launch
    BY <1>9 DEF Launch, Call, memory, claims, tunState, request,
       Outstanding, TypeOK, ClaimInv, Claimed, Owned, ExclInv, Proxied,
       Held, Exclusive, Enabling, Unclaimed, Untaken, NoProxyFault,
       StopOutcomes, StartOutcomes, AfterElevatedExit, AfterFailedRestore,
       JournalRecords
  <1> QED
    BY <1>1, <1>2, <1>3, <1>4, <1>5, <1>6, <1>7, <1>8, <1>9 DEF JobBegins

LEMMA JobStepExcludes ==
  ASSUME NoProxyFault, TypeOK, ClaimInv, ExclInv, JobStep PROVE ExclInv'
  <1>1. CASE StartCore
    BY <1>1 DEF StartCore, At, Goto, End, CoreRunning, memory, claims,
       request, Outstanding, TypeOK, ClaimInv, Claimed, Owned, ExclInv,
       Proxied, Held, Exclusive, Enabling, Unclaimed, Untaken,
       NoProxyFault, StopOutcomes, StartOutcomes, AfterElevatedExit,
       AfterFailedRestore, JournalRecords
  <1>2. CASE StartReturns
    BY <1>2, ReleaseCalled DEF StartReturns, Returned, At, End, memory, claims,
       tunState, ClaimInv, Claimed, ExclInv, Proxied, Held, Exclusive,
       Enabling, Untaken, Outstanding
  <1>3. CASE QuitCore
    BY <1>3 DEF QuitCore, At, Returned, Goto, End, memory, claims,
       request, Outstanding, TypeOK, ClaimInv, Claimed, Owned, ExclInv,
       Proxied, Held, Exclusive, Enabling, Unclaimed, Untaken,
       NoProxyFault, StopOutcomes, StartOutcomes, AfterElevatedExit,
       AfterFailedRestore, JournalRecords
  <1>4. CASE QuitProxy
    <2>1. record' = "clear" /\ (proxied' => proxied /\ record = "clear")
      BY <1>4, ProxyHolds, Zenon DEF QuitProxy, NoProxyFault
    <2> QED
      BY <1>4, <2>1
         DEF QuitProxy, At, End, Can, memory, tunState, request, Outstanding,
             TypeOK, ClaimInv, Claimed, Owned, ExclInv, Proxied, Held,
             Exclusive, Enabling, Unclaimed, Untaken, NoProxyFault,
             StopOutcomes, StartOutcomes, AfterElevatedExit, AfterFailedRestore,
             JournalRecords
  <1>5. CASE Reload
    BY <1>5, ProxyHolds DEF Reload, At, End, memory, claims, ClaimInv,
       Claimed, NoProxyFault, CoreRunning, ExclInv, Proxied, Held, Exclusive,
       Enabling, Untaken, Outstanding
  <1>6. CASE ApplyReturns
    BY <1>6 DEF ApplyReturns, At, Returned, Ok, Call, End, Claim, Proceed,
       GiveUp, memory, claims, tunState, request, Outstanding, TypeOK,
       ClaimInv, Claimed, Owned, ExclInv, Proxied, Held, Exclusive,
       Enabling, Unclaimed, Untaken, NoProxyFault, StopOutcomes,
       StartOutcomes, AfterElevatedExit, AfterFailedRestore,
       JournalRecords
  <1>7. CASE TransitionReturns
    BY <1>7, SwitchSteps, ReleaseCalled DEF At, GiveUp, Claim, End, Call,
       memory, claims, tunState, ClaimInv, Claimed, ExclInv, Proxied, Held,
       Exclusive, Enabling, Untaken, Outstanding
  <1>8. CASE LaunchProxy
    BY <1>8, ProxyHolds DEF LaunchProxy, At, Goto, Claim, tunState, ClaimInv,
       Claimed, NoProxyFault, ExclInv, Proxied, Held, Exclusive, Enabling,
       Untaken, Outstanding
  <1>9. CASE LaunchReclaim
    BY <1>9 DEF LaunchReclaim, At, Goto, Can, memory, claims, request,
       Outstanding, TypeOK, ClaimInv, Claimed, Owned, ExclInv, Proxied,
       Held, Exclusive, Enabling, Unclaimed, Untaken, NoProxyFault,
       StopOutcomes, StartOutcomes, AfterElevatedExit, AfterFailedRestore,
       JournalRecords
  <1>10. CASE JobReturns
    BY <1>10 DEF JobReturns, At, Returned, Goto, End, memory, claims,
       tunState, request, Outstanding, TypeOK, ClaimInv, Claimed, Owned,
       ExclInv, Proxied, Held, Exclusive, Enabling, Unclaimed, Untaken,
       NoProxyFault, StopOutcomes, StartOutcomes, AfterElevatedExit,
       AfterFailedRestore, JournalRecords
  <1>11. CASE WatchMark
    BY <1>11 DEF WatchMark, At, Goto, Return, Claim, RecoveryUnverified,
       TryMark, Mark, Can, claims, request, Outstanding, TypeOK, ClaimInv,
       Claimed, Owned, ExclInv, Proxied, Held, Exclusive, Enabling,
       Unclaimed, Untaken, NoProxyFault, StopOutcomes, StartOutcomes,
       AfterElevatedExit, AfterFailedRestore, JournalRecords
  <1>12. CASE WatchRestore
    BY <1>12 DEF WatchRestore, At, Return, Claim, RecoveryUnverified,
       TryMark, Mark, CleanJournal, Journal, Can, claims, request,
       Outstanding, TypeOK, ClaimInv, Claimed, Owned, ExclInv, Proxied,
       Held, Exclusive, Enabling, Unclaimed, Untaken, NoProxyFault,
       StopOutcomes, StartOutcomes, AfterElevatedExit, AfterFailedRestore,
       JournalRecords
  <1> QED
    BY <1>1, <1>2, <1>3, <1>4, <1>5, <1>6, <1>7, <1>8, <1>9, <1>10, <1>11,
       <1>12 DEF JobStep

LEMMA WatchdogExcludes ==
  ASSUME NoProxyFault, TypeOK, ClaimInv, ExclInv, Watchdog PROVE ExclInv'
  <1>1. CASE WatchReap
    BY <1>1 DEF WatchReap, Idle, memory, claims, request, control,
       Outstanding, TypeOK, ClaimInv, Claimed, Owned, ExclInv, Proxied,
       Held, Exclusive, Enabling, Unclaimed, Untaken, NoProxyFault,
       StopOutcomes, StartOutcomes, AfterElevatedExit, AfterFailedRestore,
       JournalRecords
  <1>2. CASE WatchDecide
    BY <1>2 DEF WatchDecide, CoreFree, memory, claims, tunState, request,
       control, Outstanding, TypeOK, ClaimInv, Claimed, Owned, ExclInv,
       Proxied, Held, Exclusive, Enabling, Unclaimed, Untaken,
       NoProxyFault, StopOutcomes, StartOutcomes, AfterElevatedExit,
       AfterFailedRestore, JournalRecords
  <1>3. CASE WatchProxy
    <2>1. record' = "clear" /\ (proxied' => proxied /\ record = "clear")
      BY <1>3, ProxyHolds, Zenon DEF WatchProxy, NoProxyFault
    <2> QED
      BY <1>3, <2>1
         DEF WatchProxy, ProxyFree, Can, memory, tunState, request, control,
             Outstanding, TypeOK, ClaimInv, Claimed, Owned, ExclInv, Proxied,
             Held, Exclusive, Enabling, Unclaimed, Untaken, NoProxyFault,
             StopOutcomes, StartOutcomes, AfterElevatedExit, AfterFailedRestore,
             JournalRecords
  <1>4. CASE WatchTun
    BY <1>4 DEF WatchTun, Call, memory, claims, tunState, request,
       control, Outstanding, TypeOK, ClaimInv, Claimed, Owned, ExclInv,
       Proxied, Held, Exclusive, Enabling, Unclaimed, Untaken,
       NoProxyFault, StopOutcomes, StartOutcomes, AfterElevatedExit,
       AfterFailedRestore, JournalRecords
  <1> QED
    BY <1>1, <1>2, <1>3, <1>4 DEF Watchdog

LEMMA EnvironmentExcludes ==
  ASSUME NoProxyFault, TypeOK, ClaimInv, ExclInv, Environment PROVE ExclInv'
  <1>1. CASE CoreExits
    BY <1>1 DEF CoreExits, memory, claims, request, control, Outstanding,
       TypeOK, ClaimInv, Claimed, Owned, ExclInv, Proxied, Held,
       Exclusive, Enabling, Unclaimed, Untaken, NoProxyFault,
       StopOutcomes, StartOutcomes, AfterElevatedExit, AfterFailedRestore,
       JournalRecords
  <1>2. CASE ElevatedCoreExits
    BY <1>2 DEF ElevatedCoreExits, Orphaned, memory, claims, request,
       control, Outstanding, TypeOK, ClaimInv, Claimed, Owned, ExclInv,
       Proxied, Held, Exclusive, Enabling, Unclaimed, Untaken,
       NoProxyFault, StopOutcomes, StartOutcomes, AfterElevatedExit,
       AfterFailedRestore, JournalRecords
  <1>3. CASE Crash
    <2>1. (tun = "held" => ~proxied' /\ record' # "applied") /\ (proxied' => record' # "clear")
      <3>1. CASE UNCHANGED claims \/ RestoreCutShort
        <4>1. record' = record
          BY <3>1, Zenon DEF claims, RestoreCutShort
        <4>2. proxied' = proxied \/ proxied' = FALSE
          BY <3>1, Zenon DEF claims, RestoreCutShort
        <4>3. proxied' => proxied
          BY <4>2, Zenon
        <4> QED BY <4>1, <4>3, Zenon DEF ExclInv, Proxied, Exclusive
      <3>2. CASE ProxyCutShort /\ ~RestoreCutShort
        <4>1. tun # "held"
          BY <3>2, Zenon DEF ProxyCutShort, ExclInv, Proxied, Held, Untaken
        <4>2. record' \in {"clear", "pending"} /\ (proxied' => record' # "clear")
          BY <3>2, Zenon
             DEF ProxyCutShort, ApplyCutShort, GivenBack, NoProxyFault
        <4> QED BY <4>1, <4>2
      <3> QED BY <1>3, <3>1, <3>2 DEF Crash
    <2>2. UNCHANGED tun /\ ~up' /\ pc' = "idle" /\ core' = "stopped"
      BY <1>3 DEF Crash, End
    <2> QED
      BY <2>1, <2>2 DEF ExclInv, Proxied, Held, Exclusive, Enabling, Untaken
  <1>4. CASE JournalUnreadable
    BY <1>4 DEF JournalUnreadable, Mark, Can, memory, claims, request,
       control, Outstanding, TypeOK, ClaimInv, Claimed, Owned, ExclInv,
       Proxied, Held, Exclusive, Enabling, Unclaimed, Untaken,
       NoProxyFault, StopOutcomes, StartOutcomes, AfterElevatedExit,
       AfterFailedRestore, JournalRecords
  <1> QED
    BY <1>1, <1>2, <1>3, <1>4 DEF Environment

LEMMA NextExcludes ==
  ASSUME NoProxyFault, TypeOK, ClaimInv, ExclInv, [Next]_vars PROVE ExclInv'
  <1>1. CASE UNCHANGED vars
    BY <1>1 DEF vars, ExclInv, Proxied, Held, Exclusive, Outstanding
  <1> QED
    BY <1>1, EnableTunExcludes, DisableTunExcludes, SystemProxyExcludes,
       DriveExcludes, JobBeginsExcludes, JobStepExcludes, WatchdogExcludes,
       EnvironmentExcludes
       DEF Next, Procedure

(* TUN and the OS proxy never capture at once, an elevated core that       *)
(* cannot be stopped included (the guards of enable_tun and                *)
(* enable_system_proxy).                                                   *)
THEOREM AlwaysExclusive == ASSUME NoProxyFault PROVE Spec => []Exclusive
  <1>1. Init => ExclInv
    BY DEF Init, ExclInv, Proxied, Held, Exclusive, Enabling, Untaken
  <1>2. TypeOK /\ ClaimInv /\ ExclInv /\ [Next]_vars => ExclInv'
    BY NextExcludes
  <1>3. ExclInv => Exclusive
    BY DEF ExclInv
  <1> QED
    BY <1>1, <1>2, <1>3, TypeCorrect, ClaimsInvariant, PTL DEF Spec

-----------------------------------------------------------------------------
(***************************************************************************)
(* Recovery that succeeds ends recovery_required.                          *)
(***************************************************************************)
Switching == {"switchOff", "switchOn", "undoRecover", "undoOn", "commitOff",
              "commitOn", "applyOff", "applyOn", "applyRecover", "applyUndo"}

(* Nothing of the proxy is left where recovery_required was declared, but  *)
(* for a journal that became unreadable, over which no recovery succeeds;  *)
(* a switch claims the proxy only when it is about to release it or has    *)
(* just taken it.  A recovery is the driver and its return.                *)
Settled ==
  /\ up /\ pc # "launchProxy" /\ (active = "proxy" \/ record = "applied")
       => \/ ~Outstanding(journal) /\ status # "recovery_required"
          \/ journal.state = "unreadable"
  /\ pc \in {"proxyApply", "proxySave"} => ~Outstanding(journal)
  /\ job \in Switching /\ active = "proxy"
       => \/ pc = "proxyRestore"
          \/ pc = "return" /\ Ok /\ job \in {"switchOn", "undoOn", "commitOn"}
  /\ pc \in {"proxyGuard", "proxyApply", "proxySave"} /\ job \in Switching
       => job \in {"switchOn", "undoOn", "commitOn"}
  /\ job = "recover" => pc \in {"drive", "return"}

SettleInv == Settled /\ RecoverySettles

LEMMA EnableTunSettles ==
  ASSUME NoProxyFault, TypeOK, ClaimInv, SettleInv, EnableTun PROVE SettleInv'
  <1>1. CASE EnableGuard
    BY <1>1 DEF EnableGuard, At, Goto, Return, Claim, Outstanding, Can,
       memory, claims, tunState, request, Returned, Ok, TypeOK, ClaimInv,
       Claimed, Owned, SettleInv, Settled, RecoverySettles, Enabling,
       Unclaimed, Switching, NoProxyFault, JournalRecords
  <1>2. CASE Reclaim
    BY <1>2 DEF Reclaim, At, Goto, Return, Claim, HandleFor, Orphaned,
       Can, memory, claims, request, Returned, Ok, Outstanding, TypeOK,
       ClaimInv, Claimed, Owned, SettleInv, Settled, RecoverySettles,
       Enabling, Unclaimed, Switching, NoProxyFault, JournalRecords
  <1>3. CASE SaveIntent
    BY <1>3 DEF SaveIntent, At, Goto, Return, Claim, EnableFails,
       FailureStatus, IntentSaved, Journal, Outstanding, Can, memory,
       claims, request, Returned, Ok, TypeOK, ClaimInv, Claimed, Owned,
       SettleInv, Settled, RecoverySettles, Enabling, Unclaimed,
       Switching, NoProxyFault, JournalRecords
  <1>4. CASE Prepare
    BY <1>4 DEF Prepare, At, Goto, CoreRunning, Can, memory, claims,
       tunState, request, Returned, Ok, Outstanding, TypeOK, ClaimInv,
       Claimed, Owned, SettleInv, Settled, RecoverySettles, Enabling,
       Unclaimed, Switching, NoProxyFault, JournalRecords
  <1>5. CASE ReleaseCore
    BY <1>5 DEF ReleaseCore, At, Goto, memory, claims, request, Returned,
       Ok, Outstanding, TypeOK, ClaimInv, Claimed, Owned, SettleInv,
       Settled, RecoverySettles, Enabling, Unclaimed, Switching,
       NoProxyFault, JournalRecords
  <1>6. CASE Apply
    BY <1>6 DEF Apply, At, Goto, Can, memory, claims, request, Returned,
       Ok, Outstanding, TypeOK, ClaimInv, Claimed, Owned, SettleInv,
       Settled, RecoverySettles, Enabling, Unclaimed, Switching,
       NoProxyFault, JournalRecords
  <1>7. CASE Observe
    BY <1>7 DEF Observe, At, Goto, NamesSaved, Journal, Can, memory,
       claims, request, Returned, Ok, Outstanding, TypeOK, ClaimInv,
       Claimed, Owned, SettleInv, Settled, RecoverySettles, Enabling,
       Unclaimed, Switching, NoProxyFault, JournalRecords
  <1>8. CASE Adopt
    BY <1>8 DEF Adopt, At, Goto, Can, memory, claims, request, Returned,
       Ok, Outstanding, TypeOK, ClaimInv, Claimed, Owned, SettleInv,
       Settled, RecoverySettles, Enabling, Unclaimed, Switching,
       NoProxyFault, JournalRecords
  <1>9. CASE Unadopt
    BY <1>9 DEF Unadopt, At, Return, Claim, EnableFails, FailureStatus,
       TryMark, Mark, CleanJournal, Journal, Outstanding, Can, claims,
       request, Returned, Ok, TypeOK, ClaimInv, Claimed, Owned, SettleInv,
       Settled, RecoverySettles, Enabling, Unclaimed, Switching,
       NoProxyFault, JournalRecords
  <1>10. CASE Verify
    BY <1>10 DEF Verify, At, Goto, Return, Claim, EnableFails,
       FailureStatus, Outstanding, Can, memory, claims, request, Returned,
       Ok, TypeOK, ClaimInv, Claimed, Owned, SettleInv, Settled,
       RecoverySettles, Enabling, Unclaimed, Switching, NoProxyFault,
       JournalRecords
  <1>11. CASE Unverify
    BY <1>11 DEF Unverify, At, Return, Claim, EnableFails, FailureStatus,
       TryMark, Mark, Outstanding, Can, claims, request, Returned, Ok,
       TypeOK, ClaimInv, Claimed, Owned, SettleInv, Settled,
       RecoverySettles, Enabling, Unclaimed, Switching, NoProxyFault,
       JournalRecords
  <1>12. CASE MarkApplied
    BY <1>12 DEF MarkApplied, At, Return, Claim, EnableFails,
       FailureStatus, Mark, Outstanding, Can, claims, request, Returned,
       Ok, TypeOK, ClaimInv, Claimed, Owned, SettleInv, Settled,
       RecoverySettles, Enabling, Unclaimed, Switching, NoProxyFault,
       JournalRecords
  <1>13. CASE Refuse
    BY <1>13 DEF Refuse, At, Return, Claim, EnableFails, FailureStatus,
       TryMark, CleanJournal, Journal, Outstanding, Can, claims, request,
       Returned, Ok, TypeOK, ClaimInv, Claimed, Owned, SettleInv, Settled,
       RecoverySettles, Enabling, Unclaimed, Switching, NoProxyFault,
       JournalRecords
  <1>14. CASE MarkError
    BY <1>14 DEF MarkError, At, Return, Claim, EnableFails, FailureStatus,
       TryMark, Mark, Outstanding, Can, claims, request, Returned, Ok,
       TypeOK, ClaimInv, Claimed, Owned, SettleInv, Settled,
       RecoverySettles, Enabling, Unclaimed, Switching, NoProxyFault,
       JournalRecords
  <1> QED
    BY <1>1, <1>2, <1>3, <1>4, <1>5, <1>6, <1>7, <1>8, <1>9, <1>10, <1>11,
       <1>12, <1>13, <1>14 DEF EnableTun

LEMMA DisableTunSettles ==
  ASSUME NoProxyFault, TypeOK, ClaimInv, SettleInv, DisableTun PROVE SettleInv'
  <1>1. CASE Disable
    BY <1>1 DEF Disable, At, Goto, Return, Claim, Mark, Can, claims,
       request, Returned, Ok, Outstanding, TypeOK, ClaimInv, Claimed,
       Owned, SettleInv, Settled, RecoverySettles, Enabling, Unclaimed,
       Switching, NoProxyFault, JournalRecords
  <1>2. CASE Restore
    BY <1>2 DEF Restore, At, Goto, Return, Claim, Unconfirmed, TryMark,
       Mark, HandleFor, Orphaned, Can, memory, claims, request, Returned,
       Ok, Outstanding, TypeOK, ClaimInv, Claimed, Owned, SettleInv,
       Settled, RecoverySettles, Enabling, Unclaimed, Switching,
       NoProxyFault, JournalRecords
  <1>3. CASE MarkClean
    BY <1>3 DEF MarkClean, At, Goto, Return, Claim, CleanJournal, Journal,
       Can, memory, claims, request, Returned, Ok, Outstanding, TypeOK,
       ClaimInv, Claimed, Owned, SettleInv, Settled, RecoverySettles,
       Enabling, Unclaimed, Switching, NoProxyFault, JournalRecords
  <1>4. CASE RestartDiagnostic
    BY <1>4 DEF RestartDiagnostic, At, Return, memory, claims, request,
       Returned, Ok, Outstanding, TypeOK, ClaimInv, Claimed, Owned,
       SettleInv, Settled, RecoverySettles, Enabling, Unclaimed,
       Switching, NoProxyFault, JournalRecords
  <1> QED
    BY <1>1, <1>2, <1>3, <1>4 DEF DisableTun

LEMMA SystemProxySettles ==
  ASSUME NoProxyFault, TypeOK, ClaimInv, SettleInv, SystemProxy PROVE SettleInv'
  <1>1. CASE ProxyGuard
    BY <1>1 DEF ProxyGuard, At, Goto, Return, Claim, Outstanding,
       CoreRunning, memory, claims, tunState, request, Returned, Ok,
       TypeOK, ClaimInv, Claimed, Owned, SettleInv, Settled,
       RecoverySettles, Enabling, Unclaimed, Switching, NoProxyFault,
       JournalRecords
  <1>2. CASE ProxyApply
    BY <1>2 DEF ProxyApply, At, Goto, Return, ProxyRestoreFails, RestoreCutShort,
       ProxyApplyFails, ApplyCutShort, Can, memory, tunState, request, Returned, Ok,
       Outstanding, TypeOK, ClaimInv, Claimed, Owned, SettleInv, Settled,
       RecoverySettles, Enabling, Unclaimed, Switching, NoProxyFault,
       JournalRecords
  <1>3. CASE ProxySave
    BY <1>3 DEF ProxySave, At, Return, Claim, Can, memory, tunState,
       request, Returned, Ok, Outstanding, TypeOK, ClaimInv, Claimed,
       Owned, SettleInv, Settled, RecoverySettles, Enabling, Unclaimed,
       Switching, NoProxyFault, JournalRecords
  <1>4. CASE ProxyRestore
    BY <1>4 DEF ProxyRestore, At, Return, Claim, ProxyRestored,
       ProxyRestoreFails, RestoreCutShort, Can, memory, tunState, request, Returned, Ok,
       Outstanding, TypeOK, ClaimInv, Claimed, Owned, SettleInv, Settled,
       RecoverySettles, Enabling, Unclaimed, Switching, NoProxyFault,
       JournalRecords
  <1> QED
    BY <1>1, <1>2, <1>3, <1>4 DEF SystemProxy

LEMMA DriveSettles ==
  ASSUME NoProxyFault, TypeOK, ClaimInv, SettleInv, Drive PROVE SettleInv'
  BY DEF Drive, At, Return, Claim, RecoveryUnverified, Baseline, Recovered,
     VerifiedGone, TryMark, Mark, CleanJournal, Journal, HandleFor,
     Orphaned, Can, memory, claims, tunState, Returned, Ok, Outstanding,
     TypeOK, ClaimInv, Claimed, Owned, SettleInv, Settled, RecoverySettles,
     Enabling, Unclaimed, Switching, NoProxyFault, JournalRecords

LEMMA JobBeginsSettles ==
  ASSUME NoProxyFault, TypeOK, ClaimInv, SettleInv, JobBegins PROVE SettleInv'
  <1>1. CASE StartService
    BY <1>1 DEF StartService, Idle, Call, memory, claims, tunState,
       request, At, Returned, Ok, Outstanding, TypeOK, ClaimInv, Claimed,
       Owned, SettleInv, Settled, RecoverySettles, Enabling, Unclaimed,
       Switching, NoProxyFault, JournalRecords
  <1>2. CASE StopService
    BY <1>2, ReleaseCalled DEF StopService, Idle, At, Returned, Ok, memory,
       claims, tunState, ClaimInv, Claimed, SettleInv, Settled,
       RecoverySettles, Switching, Outstanding
  <1>3. CASE GracefulStop
    BY <1>3 DEF GracefulStop, Idle, Call, memory, claims, tunState,
       request, At, Returned, Ok, Outstanding, TypeOK, ClaimInv, Claimed,
       Owned, SettleInv, Settled, RecoverySettles, Enabling, Unclaimed,
       Switching, NoProxyFault, JournalRecords
  <1>4. CASE ApplyConfig
    BY <1>4 DEF ApplyConfig, Idle, Call, memory, claims, tunState,
       request, At, Returned, Ok, Outstanding, TypeOK, ClaimInv, Claimed,
       Owned, SettleInv, Settled, RecoverySettles, Enabling, Unclaimed,
       Switching, NoProxyFault, JournalRecords
  <1>5. CASE ApplyWhileTunActive
    BY <1>5 DEF ApplyWhileTunActive, Idle, Call, memory, claims, tunState,
       request, At, Returned, Ok, Outstanding, TypeOK, ClaimInv, Claimed,
       Owned, SettleInv, Settled, RecoverySettles, Enabling, Unclaimed,
       Switching, NoProxyFault, JournalRecords
  <1>6. CASE SaveWhileInactive
    BY <1>6 DEF SaveWhileInactive, Idle, Call, memory, claims, tunState,
       control, At, Returned, Ok, Outstanding, TypeOK, ClaimInv, Claimed,
       Owned, SettleInv, Settled, RecoverySettles, Enabling, Unclaimed,
       Switching, NoProxyFault, JournalRecords
  <1>7. CASE \E want \in BOOLEAN : SaveWhileActive(want)
    BY <1>7 DEF SaveWhileActive, Idle, Call, CallRelease, SwitchNeeded,
       Commit, Can, memory, claims, tunState, control, At, Returned, Ok,
       Outstanding, TypeOK, ClaimInv, Claimed, Owned, SettleInv, Settled,
       RecoverySettles, Enabling, Unclaimed, Switching, NoProxyFault,
       JournalRecords
  <1>8. CASE RecoverTun
    BY <1>8 DEF RecoverTun, Idle, Call, memory, claims, tunState, request,
       At, Returned, Ok, Outstanding, TypeOK, ClaimInv, Claimed, Owned,
       SettleInv, Settled, RecoverySettles, Enabling, Unclaimed,
       Switching, NoProxyFault, JournalRecords
  <1>9. CASE Launch
    BY <1>9 DEF Launch, Call, memory, claims, tunState, request, At,
       Returned, Ok, Outstanding, TypeOK, ClaimInv, Claimed, Owned,
       SettleInv, Settled, RecoverySettles, Enabling, Unclaimed,
       Switching, NoProxyFault, JournalRecords
  <1> QED
    BY <1>1, <1>2, <1>3, <1>4, <1>5, <1>6, <1>7, <1>8, <1>9 DEF JobBegins

LEMMA JobStepSettles ==
  ASSUME NoProxyFault, TypeOK, ClaimInv, SettleInv, JobStep PROVE SettleInv'
  <1>1. CASE StartCore
    BY <1>1 DEF StartCore, At, Goto, End, CoreRunning, memory, claims,
       request, Returned, Ok, Outstanding, TypeOK, ClaimInv, Claimed,
       Owned, SettleInv, Settled, RecoverySettles, Enabling, Unclaimed,
       Switching, NoProxyFault, JournalRecords
  <1>2. CASE StartReturns
    BY <1>2, ReleaseCalled DEF StartReturns, Returned, At, Ok, End, memory,
       claims, tunState, ClaimInv, Claimed, SettleInv, Settled,
       RecoverySettles, Switching, Outstanding
  <1>3. CASE QuitCore
    BY <1>3 DEF QuitCore, At, Returned, Goto, End, memory, claims,
       request, Ok, Outstanding, TypeOK, ClaimInv, Claimed, Owned,
       SettleInv, Settled, RecoverySettles, Enabling, Unclaimed,
       Switching, NoProxyFault, JournalRecords
  <1>4. CASE QuitProxy
    BY <1>4 DEF QuitProxy, At, End, ProxyRestored, ProxyRestoreFails, RestoreCutShort, Can,
       memory, tunState, request, Returned, Ok, Outstanding, TypeOK,
       ClaimInv, Claimed, Owned, SettleInv, Settled, RecoverySettles,
       Enabling, Unclaimed, Switching, NoProxyFault, JournalRecords
  <1>5. CASE Reload
    BY <1>5 DEF Reload, At, End, CoreRunning, ProxyRestored,
       ProxyRestoreFails, RestoreCutShort, ProxyApplyFails, ApplyCutShort, Can, memory, claims, request,
       Returned, Ok, Outstanding, TypeOK, ClaimInv, Claimed, Owned,
       SettleInv, Settled, RecoverySettles, Enabling, Unclaimed,
       Switching, NoProxyFault, JournalRecords
  <1>6. CASE ApplyReturns
    BY <1>6 DEF ApplyReturns, At, Returned, Ok, Call, End, Claim, Proceed,
       GiveUp, memory, claims, tunState, request, Outstanding, TypeOK,
       ClaimInv, Claimed, Owned, SettleInv, Settled, RecoverySettles,
       Enabling, Unclaimed, Switching, NoProxyFault, JournalRecords
  <1>7. CASE TransitionReturns
    BY <1>7, SwitchSteps, ReleaseCalled DEF At, Returned, Ok, GiveUp, Claim,
       End, Call, memory, claims, tunState, ClaimInv, Claimed, Owned,
       SettleInv, Settled, RecoverySettles, Switching, SwitchJobs,
       Outstanding
  <1>8. CASE LaunchProxy
    BY <1>8 DEF LaunchProxy, At, Goto, Claim, ProxyRestored,
       ProxyRestoreFails, RestoreCutShort, Can, tunState, request, Returned, Ok,
       Outstanding, TypeOK, ClaimInv, Claimed, Owned, SettleInv, Settled,
       RecoverySettles, Enabling, Unclaimed, Switching, NoProxyFault,
       JournalRecords
  <1>9. CASE LaunchReclaim
    BY <1>9 DEF LaunchReclaim, At, Goto, Can, memory, claims, request,
       Returned, Ok, Outstanding, TypeOK, ClaimInv, Claimed, Owned,
       SettleInv, Settled, RecoverySettles, Enabling, Unclaimed,
       Switching, NoProxyFault, JournalRecords
  <1>10. CASE JobReturns
    BY <1>10 DEF JobReturns, At, Returned, Goto, End, memory, claims,
       tunState, request, Ok, Outstanding, TypeOK, ClaimInv, Claimed,
       Owned, SettleInv, Settled, RecoverySettles, Enabling, Unclaimed,
       Switching, NoProxyFault, JournalRecords
  <1>11. CASE WatchMark
    BY <1>11 DEF WatchMark, At, Goto, Return, Claim, RecoveryUnverified,
       TryMark, Mark, Can, claims, request, Returned, Ok, Outstanding,
       TypeOK, ClaimInv, Claimed, Owned, SettleInv, Settled,
       RecoverySettles, Enabling, Unclaimed, Switching, NoProxyFault,
       JournalRecords
  <1>12. CASE WatchRestore
    BY <1>12 DEF WatchRestore, At, Return, Claim, RecoveryUnverified,
       TryMark, Mark, CleanJournal, Journal, Can, claims, request,
       Returned, Ok, Outstanding, TypeOK, ClaimInv, Claimed, Owned,
       SettleInv, Settled, RecoverySettles, Enabling, Unclaimed,
       Switching, NoProxyFault, JournalRecords
  <1> QED
    BY <1>1, <1>2, <1>3, <1>4, <1>5, <1>6, <1>7, <1>8, <1>9, <1>10, <1>11,
       <1>12 DEF JobStep

LEMMA WatchdogSettles ==
  ASSUME NoProxyFault, TypeOK, ClaimInv, SettleInv, Watchdog PROVE SettleInv'
  <1>1. CASE WatchReap
    BY <1>1 DEF WatchReap, Idle, memory, claims, request, control, At,
       Returned, Ok, Outstanding, TypeOK, ClaimInv, Claimed, Owned,
       SettleInv, Settled, RecoverySettles, Enabling, Unclaimed,
       Switching, NoProxyFault, JournalRecords
  <1>2. CASE WatchDecide
    BY <1>2 DEF WatchDecide, CoreFree, memory, claims, tunState, request,
       control, At, Returned, Ok, Outstanding, TypeOK, ClaimInv, Claimed,
       Owned, SettleInv, Settled, RecoverySettles, Enabling, Unclaimed,
       Switching, NoProxyFault, JournalRecords
  <1>3. CASE WatchProxy
    BY <1>3 DEF WatchProxy, ProxyRestored, ProxyRestoreFails, RestoreCutShort, ProxyFree,
       Can, memory, tunState, request, control, At, Returned, Ok,
       Outstanding, TypeOK, ClaimInv, Claimed, Owned, SettleInv, Settled,
       RecoverySettles, Enabling, Unclaimed, Switching, NoProxyFault,
       JournalRecords
  <1>4. CASE WatchTun
    BY <1>4 DEF WatchTun, Call, memory, claims, tunState, request,
       control, At, Returned, Ok, Outstanding, TypeOK, ClaimInv, Claimed,
       Owned, SettleInv, Settled, RecoverySettles, Enabling, Unclaimed,
       Switching, NoProxyFault, JournalRecords
  <1> QED
    BY <1>1, <1>2, <1>3, <1>4 DEF Watchdog

LEMMA EnvironmentSettles ==
  ASSUME NoProxyFault, TypeOK, ClaimInv, SettleInv, Environment PROVE SettleInv'
  <1>1. CASE CoreExits
    BY <1>1 DEF CoreExits, memory, claims, request, control, At, Returned,
       Ok, Outstanding, TypeOK, ClaimInv, Claimed, Owned, SettleInv,
       Settled, RecoverySettles, Enabling, Unclaimed, Switching,
       NoProxyFault, JournalRecords
  <1>2. CASE ElevatedCoreExits
    BY <1>2 DEF ElevatedCoreExits, Orphaned, memory, claims, request,
       control, At, Returned, Ok, Outstanding, TypeOK, ClaimInv, Claimed,
       Owned, SettleInv, Settled, RecoverySettles, Enabling, Unclaimed,
       Switching, NoProxyFault, JournalRecords
  <1>3. CASE Crash
    BY <1>3 DEF Crash, End, claims, request, At, Returned, Ok,
       Outstanding, TypeOK, ClaimInv, Claimed, Owned, SettleInv, Settled,
       RecoverySettles, Enabling, Unclaimed, Switching, NoProxyFault,
       JournalRecords
  <1>4. CASE JournalUnreadable
    BY <1>4 DEF JournalUnreadable, Mark, Can, memory, claims, request,
       control, At, Returned, Ok, Outstanding, TypeOK, ClaimInv, Claimed,
       Owned, SettleInv, Settled, RecoverySettles, Enabling, Unclaimed,
       Switching, NoProxyFault, JournalRecords
  <1> QED
    BY <1>1, <1>2, <1>3, <1>4 DEF Environment

LEMMA NextSettles ==
  ASSUME NoProxyFault, TypeOK, ClaimInv, SettleInv, [Next]_vars PROVE SettleInv'
  <1>1. CASE UNCHANGED vars
    BY <1>1 DEF vars, SettleInv, Settled, RecoverySettles, Returned, At, Ok, Outstanding
  <1> QED
    BY <1>1, EnableTunSettles, DisableTunSettles, SystemProxySettles,
       DriveSettles, JobBeginsSettles, JobStepSettles, WatchdogSettles,
       EnvironmentSettles
       DEF Next, Procedure

(* A recovery that reports success leaves recovery_required, whatever else *)
(* fails (recover, docs/tun.md).                                           *)
THEOREM RecoveryAlwaysSettles == ASSUME NoProxyFault PROVE Spec => []RecoverySettles
  <1>1. Init => SettleInv
    BY DEF Init, SettleInv, Settled, RecoverySettles, Returned, At, Switching
  <1>2. TypeOK /\ ClaimInv /\ SettleInv /\ [Next]_vars => SettleInv'
    BY NextSettles
  <1>3. SettleInv => RecoverySettles
    BY DEF SettleInv
  <1> QED
    BY <1>1, <1>2, <1>3, TypeCorrect, ClaimsInvariant, PTL DEF Spec
=============================================================================
