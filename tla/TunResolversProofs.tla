-------------------------- MODULE TunResolversProofs -------------------------
(***************************************************************************)
(* Proofs about TunResolvers for any set of resolvers and any faults: the  *)
(* types, that ours can be given back, that a clean journal means they     *)
(* were, and that nothing puts them in place after a capture.              *)
(***************************************************************************)
EXTENDS TunResolvers, TLAPS

EnableSteps == {"startCore", "nameIt", "readBefore", "pointAtOurs", "recordDns", "probe",
                "rollbackDns", "rollback", "verify"}
RestoreSteps == {"stop", "gone", "compare", "giveBack", "forget", "close"}

FileType == [state : States, named : BOOLEAN, before : Resolvers \cup {None}, after : {None, Ours}]
HeldType == [named : BOOLEAN, before : Resolvers \cup {None}, after : {None, Ours}]

Typed ==
  /\ dns \in Resolvers /\ owed \in Resolvers
  /\ adapter \in {"none", "up", "lingers"}
  /\ file \in FileType /\ held \in HeldType
  /\ alive \in BOOLEAN /\ active \in BOOLEAN /\ blocked \in BOOLEAN /\ failed \in BOOLEAN
  /\ job \in Jobs
  /\ slips \subseteq Slips

(* Jobs and their steps; a job runs, and a claim stands, only while the    *)
(* journal is outstanding.                                                 *)
Staged ==
  /\ job = "idle" <=> pc = "idle"
  /\ job = "enable" <=> pc \in EnableSteps
  /\ job \in {"undo", "disable", "exit", "recover"} <=> pc \in RestoreSteps
  /\ ~alive => pc = "idle" /\ ~active
  /\ job # "idle" \/ active => Outstanding

(* Both sides of the resolvers are known together, in the journal and in   *)
(* memory; what a restore works with is what the journal says.             *)
Recorded ==
  /\ file.after # None => file.before # None
  /\ held.after # None => held.before # None
  /\ pc \in {"startCore", "nameIt", "readBefore", "pointAtOurs", "recordDns"} => file.after = None
  /\ pc \in {"pointAtOurs", "recordDns", "probe", "rollbackDns"} => held.before # None
  /\ pc = "recordDns" => held.after = Ours
  /\ pc = "probe" => file.after = held.after /\ file.before = held.before
  /\ pc = "verify" => file.after = held.after /\ file.before = held.before
  /\ pc = "rollbackDns" /\ file.after # None => file.before = held.before
  /\ pc \in {"stop", "gone", "compare", "giveBack"}
       => file.after = held.after /\ file.before = held.before
  /\ pc \in {"compare", "giveBack", "forget"} => held.after = Ours

(* As long as nothing slipped, ours are never taken for the user's, a      *)
(* finished restore has left ours behind, and the user is owed what the    *)
(* journal or the enable in progress holds.                                *)
Owing ==
  \/ slips # {}
  \/ /\ file.before # Ours /\ held.before # Ours
     /\ pc \in {"forget", "close"} /\ ~failed => dns # Ours
     /\ pc = "forget" => dns # Ours
     /\ dns # Ours => dns = owed
     /\ dns = Ours /\ file.after = Ours => owed = file.before
     /\ pc \in {"pointAtOurs", "recordDns", "probe", "rollbackDns"} => owed = held.before
     /\ pc = "giveBack" => owed = held.before

Inv == Typed /\ Staged /\ Recorded /\ ResolversRecoverable /\ Owing

-----------------------------------------------------------------------------
LEMMA Initially == Init => Inv
<1> SUFFICES ASSUME Init PROVE Inv
  OBVIOUS
<1> USE OursAssumption DEF Init, Users, Closed, Nothing
<1>1. Typed
  BY DEF Typed, FileType, HeldType, States, Jobs, Slips
<1>2. Staged /\ Recorded /\ ResolversRecoverable /\ Owing
  BY DEF Staged, EnableSteps, RestoreSteps, Recorded, ResolversRecoverable, Outstanding, Owing
<1> QED
  BY <1>1, <1>2 DEF Inv

LEMMA StepTypes ==
  /\ Closed \in FileType /\ Nothing \in HeldType
  /\ [Closed EXCEPT !.state = "preparing"] \in FileType
  /\ \A s \in States, f \in FileType : [f EXCEPT !.state = s] \in FileType
  /\ \A b \in BOOLEAN, f \in FileType : [f EXCEPT !.named = b] \in FileType
  /\ \A f \in FileType : [f EXCEPT !.before = None, !.after = None] \in FileType
  /\ \A f \in FileType, h \in HeldType :
       [f EXCEPT !.before = h.before, !.after = h.after] \in FileType
  /\ \A h \in HeldType : [h EXCEPT !.named = TRUE] \in HeldType
  /\ \A h \in HeldType, d \in Resolvers : [h EXCEPT !.before = d] \in HeldType
  /\ \A h \in HeldType : [h EXCEPT !.after = Ours] \in HeldType
  /\ \A f \in FileType : [named |-> f.named, before |-> f.before, after |-> f.after] \in HeldType
BY OursAssumption DEF FileType, HeldType, Closed, Nothing, States

LEMMA Preserved == Inv /\ [Next]_vars => Inv'
<1> SUFFICES ASSUME Inv, [Next]_vars PROVE Inv'
  OBVIOUS
<1> USE OursAssumption DEF Inv, memory, flow, history, At, Goto, Save, Marked, Return, Finish, Fail,
        EnableFails, RestoreFails, StopCore, SetDns, Can, Users
<1>1. CASE BeginEnable
  <2>1. Typed'
    BY <1>1, StepTypes DEF BeginEnable, Outstanding, Typed, States, Jobs, Slips
  <2>2. Staged' /\ Recorded'
    BY <1>1 DEF BeginEnable, Outstanding, Closed, Applied, Nothing, Typed, FileType, HeldType,
           Staged, EnableSteps, RestoreSteps, Outstanding, Recorded, ResolversRecoverable, Owing
  <2>3. ResolversRecoverable' /\ Owing'
    BY <1>1 DEF BeginEnable, Outstanding, Closed, Applied, Nothing, Typed, FileType, HeldType,
           Staged, EnableSteps, RestoreSteps, Outstanding, Recorded, ResolversRecoverable, Owing
  <2> QED
    BY <2>1, <2>2, <2>3
<1>2. CASE StartCore
  <2>1. Typed'
    BY <1>2, StepTypes DEF StartCore, Typed, States, Jobs, Slips
  <2>2. Staged' /\ Recorded'
    BY <1>2 DEF StartCore, Closed, Applied, Nothing, Typed, FileType, HeldType,
           Staged, EnableSteps, RestoreSteps, Outstanding, Recorded, ResolversRecoverable, Owing
  <2>3. ResolversRecoverable' /\ Owing'
    BY <1>2 DEF StartCore, Closed, Applied, Nothing, Typed, FileType, HeldType,
           Staged, EnableSteps, RestoreSteps, Outstanding, Recorded, ResolversRecoverable, Owing
  <2> QED
    BY <2>1, <2>2, <2>3
<1>3. CASE NameInterface
  <2>1. Typed'
    BY <1>3, StepTypes DEF NameInterface, Typed, States, Jobs, Slips
  <2>2. Staged' /\ Recorded'
    BY <1>3 DEF NameInterface, Closed, Applied, Nothing, Typed, FileType, HeldType,
           Staged, EnableSteps, RestoreSteps, Outstanding, Recorded, ResolversRecoverable, Owing
  <2>3. ResolversRecoverable' /\ Owing'
    BY <1>3 DEF NameInterface, Closed, Applied, Nothing, Typed, FileType, HeldType,
           Staged, EnableSteps, RestoreSteps, Outstanding, Recorded, ResolversRecoverable, Owing
  <2> QED
    BY <2>1, <2>2, <2>3
<1>4. CASE ReadBefore
  <2>1. Typed'
    BY <1>4, StepTypes DEF ReadBefore, Typed, States, Jobs, Slips
  <2>2. Staged' /\ Recorded'
    BY <1>4 DEF ReadBefore, Closed, Applied, Nothing, Typed, FileType, HeldType,
           Staged, EnableSteps, RestoreSteps, Outstanding, Recorded, ResolversRecoverable, Owing
  <2>3. ResolversRecoverable' /\ Owing'
    BY <1>4 DEF ReadBefore, Closed, Applied, Nothing, Typed, FileType, HeldType,
           Staged, EnableSteps, RestoreSteps, Outstanding, Recorded, ResolversRecoverable, Owing
  <2> QED
    BY <2>1, <2>2, <2>3
<1>5. CASE PointAtOurs
  <2>1. Typed'
    BY <1>5, StepTypes DEF PointAtOurs, Typed, States, Jobs, Slips
  <2>2. Staged' /\ Recorded'
    BY <1>5 DEF PointAtOurs, Closed, Applied, Nothing, Typed, FileType, HeldType,
           Staged, EnableSteps, RestoreSteps, Outstanding, Recorded, ResolversRecoverable, Owing
  <2>3. ResolversRecoverable' /\ Owing'
    BY <1>5 DEF PointAtOurs, Closed, Applied, Nothing, Typed, FileType, HeldType,
           Staged, EnableSteps, RestoreSteps, Outstanding, Recorded, ResolversRecoverable, Owing
  <2> QED
    BY <2>1, <2>2, <2>3
<1>6. CASE RecordDns
  <2>1. Typed'
    BY <1>6, StepTypes DEF RecordDns, Typed, States, Jobs, Slips
  <2>2. Staged' /\ Recorded'
    BY <1>6 DEF RecordDns, Closed, Applied, Nothing, Typed, FileType, HeldType,
           Staged, EnableSteps, RestoreSteps, Outstanding, Recorded, ResolversRecoverable, Owing
  <2>3. ResolversRecoverable' /\ Owing'
    BY <1>6 DEF RecordDns, Closed, Applied, Nothing, Typed, FileType, HeldType,
           Staged, EnableSteps, RestoreSteps, Outstanding, Recorded, ResolversRecoverable, Owing
  <2> QED
    BY <2>1, <2>2, <2>3
<1>7. CASE Probe
  <2>1. Typed'
    BY <1>7, StepTypes DEF Probe, Typed, States, Jobs, Slips
  <2>2. Staged' /\ Recorded'
    BY <1>7 DEF Probe, Closed, Applied, Nothing, Typed, FileType, HeldType,
           Staged, EnableSteps, RestoreSteps, Outstanding, Recorded, ResolversRecoverable, Owing
  <2>3. ResolversRecoverable' /\ Owing'
    BY <1>7 DEF Probe, Closed, Applied, Nothing, Typed, FileType, HeldType,
           Staged, EnableSteps, RestoreSteps, Outstanding, Recorded, ResolversRecoverable, Owing
  <2> QED
    BY <2>1, <2>2, <2>3
<1>8. CASE RollbackDns
  <2>1. Typed'
    <3>1. file' \in FileType
      BY <1>8, StepTypes DEF RollbackDns, Typed, States
    <3>2. held' \in HeldType
      BY <1>8, StepTypes DEF RollbackDns, Typed
    <3>3. alive' \in BOOLEAN /\ active' \in BOOLEAN /\ failed' \in BOOLEAN
      BY <1>8, Zenon DEF RollbackDns, Typed
    <3>4. blocked' \in BOOLEAN
      BY <1>8 DEF RollbackDns, Typed
    <3>5. /\ dns' \in Resolvers /\ owed' \in Resolvers /\ slips' \subseteq Slips
          /\ adapter' \in {"none", "up", "lingers"} /\ job' \in Jobs
      BY <1>8 DEF RollbackDns, Typed, FileType, HeldType, Staged, Recorded, Jobs, Slips
    <3> QED
      BY <3>1, <3>2, <3>3, <3>4, <3>5 DEF Typed
  <2>2. Staged' /\ Recorded'
    BY <1>8 DEF RollbackDns, Closed, Applied, Nothing, Typed, FileType, HeldType,
           Staged, EnableSteps, RestoreSteps, Outstanding, Recorded, ResolversRecoverable, Owing
  <2>3. ResolversRecoverable' /\ Owing'
    BY <1>8 DEF RollbackDns, Closed, Applied, Nothing, Typed, FileType, HeldType,
           Staged, EnableSteps, RestoreSteps, Outstanding, Recorded, ResolversRecoverable, Owing
  <2> QED
    BY <2>1, <2>2, <2>3
<1>9. CASE Rollback
  <2>1. Typed'
    <3>1. file' \in FileType
      BY <1>9, StepTypes DEF Rollback, Typed, States
    <3>2. held' \in HeldType
      BY <1>9, StepTypes DEF Rollback, Typed
    <3>3. alive' \in BOOLEAN /\ active' \in BOOLEAN /\ failed' \in BOOLEAN
      BY <1>9, Zenon DEF Rollback, Typed
    <3>4. blocked' \in BOOLEAN
      BY <1>9 DEF Rollback, Typed
    <3>5. /\ dns' \in Resolvers /\ owed' \in Resolvers /\ slips' \subseteq Slips
          /\ adapter' \in {"none", "up", "lingers"} /\ job' \in Jobs
      BY <1>9 DEF Rollback, Typed, FileType, HeldType, Staged, Recorded, Jobs, Slips
    <3> QED
      BY <3>1, <3>2, <3>3, <3>4, <3>5 DEF Typed
  <2>2. Staged' /\ Recorded'
    BY <1>9 DEF Rollback, Closed, Applied, Nothing, Typed, FileType, HeldType,
           Staged, EnableSteps, RestoreSteps, Outstanding, Recorded, ResolversRecoverable, Owing
  <2>3. ResolversRecoverable' /\ Owing'
    BY <1>9 DEF Rollback, Closed, Applied, Nothing, Typed, FileType, HeldType,
           Staged, EnableSteps, RestoreSteps, Outstanding, Recorded, ResolversRecoverable, Owing
  <2> QED
    BY <2>1, <2>2, <2>3
<1>10. CASE Verify
  <2>1. Typed'
    <3>1. file' \in FileType
      BY <1>10, StepTypes DEF Verify, Typed, States
    <3>2. held' \in HeldType
      BY <1>10, StepTypes DEF Verify, Typed
    <3>3. alive' \in BOOLEAN /\ active' \in BOOLEAN /\ failed' \in BOOLEAN
      BY <1>10, Zenon DEF Verify, Typed
    <3>4. blocked' \in BOOLEAN
      BY <1>10 DEF Verify, Typed
    <3>5. /\ dns' \in Resolvers /\ owed' \in Resolvers /\ slips' \subseteq Slips
          /\ adapter' \in {"none", "up", "lingers"} /\ job' \in Jobs
      BY <1>10 DEF Verify, Typed, FileType, HeldType, Staged, Recorded, Jobs, Slips
    <3> QED
      BY <3>1, <3>2, <3>3, <3>4, <3>5 DEF Typed
  <2>2. Staged' /\ Recorded'
    BY <1>10 DEF Verify, Closed, Applied, Nothing, Typed, FileType, HeldType,
           Staged, EnableSteps, RestoreSteps, Outstanding, Recorded, ResolversRecoverable, Owing
  <2>3. ResolversRecoverable' /\ Owing'
    BY <1>10 DEF Verify, Closed, Applied, Nothing, Typed, FileType, HeldType,
           Staged, EnableSteps, RestoreSteps, Outstanding, Recorded, ResolversRecoverable, Owing
  <2> QED
    BY <2>1, <2>2, <2>3
<1>11. CASE BeginRelease
  <2>1. Typed'
    <3>1. file' \in FileType
      BY <1>11, StepTypes DEF BeginRelease, Applied, Typed, States
    <3>2. held' \in HeldType
      BY <1>11, StepTypes DEF BeginRelease, Applied, Typed
    <3>3. alive' \in BOOLEAN /\ active' \in BOOLEAN /\ failed' \in BOOLEAN
      BY <1>11, Zenon DEF BeginRelease, Typed
    <3>4. blocked' \in BOOLEAN
      BY <1>11 DEF BeginRelease, Typed
    <3>5. /\ dns' \in Resolvers /\ owed' \in Resolvers /\ slips' \subseteq Slips
          /\ adapter' \in {"none", "up", "lingers"} /\ job' \in Jobs
      BY <1>11 DEF BeginRelease, Typed, FileType, HeldType, Staged, Recorded, Jobs, Slips
    <3> QED
      BY <3>1, <3>2, <3>3, <3>4, <3>5 DEF Typed
  <2>2. Staged' /\ Recorded'
    BY <1>11 DEF BeginRelease, Applied, Closed, Applied, Nothing, Typed, FileType, HeldType,
           Staged, EnableSteps, RestoreSteps, Outstanding, Recorded, ResolversRecoverable, Owing
  <2>3. ResolversRecoverable' /\ Owing'
    BY <1>11 DEF BeginRelease, Applied, Closed, Applied, Nothing, Typed, FileType, HeldType,
           Staged, EnableSteps, RestoreSteps, Outstanding, Recorded, ResolversRecoverable, Owing
  <2> QED
    BY <2>1, <2>2, <2>3
<1>12. CASE BeginRecover
  <2>1. Typed'
    BY <1>12, StepTypes DEF BeginRecover, Outstanding, Owned, Applied, Typed, States, Jobs, Slips
  <2>2. Staged' /\ Recorded'
    BY <1>12 DEF BeginRecover, Outstanding, Owned, Applied, Closed, Applied, Nothing, Typed, FileType, HeldType,
           Staged, EnableSteps, RestoreSteps, Outstanding, Recorded, ResolversRecoverable, Owing
  <2>3. ResolversRecoverable' /\ Owing'
    BY <1>12 DEF BeginRecover, Outstanding, Owned, Applied, Closed, Applied, Nothing, Typed, FileType, HeldType,
           Staged, EnableSteps, RestoreSteps, Outstanding, Recorded, ResolversRecoverable, Owing
  <2> QED
    BY <2>1, <2>2, <2>3
<1>13. CASE Stop
  <2>1. Typed'
    <3>1. file' \in FileType
      BY <1>13, StepTypes DEF Stop, Typed, States
    <3>2. held' \in HeldType
      BY <1>13, StepTypes DEF Stop, Typed
    <3>3. alive' \in BOOLEAN /\ active' \in BOOLEAN /\ failed' \in BOOLEAN
      BY <1>13, Zenon DEF Stop, Typed
    <3>4. blocked' \in BOOLEAN
      BY <1>13 DEF Stop, Typed
    <3>5. /\ dns' \in Resolvers /\ owed' \in Resolvers /\ slips' \subseteq Slips
          /\ adapter' \in {"none", "up", "lingers"} /\ job' \in Jobs
      BY <1>13 DEF Stop, Typed, FileType, HeldType, Staged, Recorded, Jobs, Slips
    <3> QED
      BY <3>1, <3>2, <3>3, <3>4, <3>5 DEF Typed
  <2>2. Staged' /\ Recorded'
    BY <1>13 DEF Stop, Closed, Applied, Nothing, Typed, FileType, HeldType,
           Staged, EnableSteps, RestoreSteps, Outstanding, Recorded, ResolversRecoverable, Owing
  <2>3. ResolversRecoverable' /\ Owing'
    BY <1>13 DEF Stop, Closed, Applied, Nothing, Typed, FileType, HeldType,
           Staged, EnableSteps, RestoreSteps, Outstanding, Recorded, ResolversRecoverable, Owing
  <2> QED
    BY <2>1, <2>2, <2>3
<1>14. CASE AdapterGone
  <2>1. Typed'
    <3>1. file' \in FileType
      BY <1>14, StepTypes DEF AdapterGone, Typed, States
    <3>2. held' \in HeldType
      BY <1>14, StepTypes DEF AdapterGone, Typed
    <3>3. alive' \in BOOLEAN /\ active' \in BOOLEAN /\ failed' \in BOOLEAN
      BY <1>14, Zenon DEF AdapterGone, Typed
    <3>4. blocked' \in BOOLEAN
      BY <1>14 DEF AdapterGone, Typed
    <3>5. /\ dns' \in Resolvers /\ owed' \in Resolvers /\ slips' \subseteq Slips
          /\ adapter' \in {"none", "up", "lingers"} /\ job' \in Jobs
      BY <1>14 DEF AdapterGone, Typed, FileType, HeldType, Staged, Recorded, Jobs, Slips
    <3> QED
      BY <3>1, <3>2, <3>3, <3>4, <3>5 DEF Typed
  <2>2. Staged' /\ Recorded'
    BY <1>14 DEF AdapterGone, Closed, Applied, Nothing, Typed, FileType, HeldType,
           Staged, EnableSteps, RestoreSteps, Outstanding, Recorded, ResolversRecoverable, Owing
  <2>3. ResolversRecoverable' /\ Owing'
    BY <1>14 DEF AdapterGone, Closed, Applied, Nothing, Typed, FileType, HeldType,
           Staged, EnableSteps, RestoreSteps, Outstanding, Recorded, ResolversRecoverable, Owing
  <2> QED
    BY <2>1, <2>2, <2>3
<1>15. CASE Compare
  <2>1. Typed'
    <3>1. file' \in FileType
      BY <1>15, StepTypes DEF Compare, Typed, States
    <3>2. held' \in HeldType
      BY <1>15, StepTypes DEF Compare, Typed
    <3>3. alive' \in BOOLEAN /\ active' \in BOOLEAN /\ failed' \in BOOLEAN
      BY <1>15, Zenon DEF Compare, Typed
    <3>4. blocked' \in BOOLEAN
      BY <1>15 DEF Compare, Typed
    <3>5. /\ dns' \in Resolvers /\ owed' \in Resolvers /\ slips' \subseteq Slips
          /\ adapter' \in {"none", "up", "lingers"} /\ job' \in Jobs
      BY <1>15 DEF Compare, Typed, FileType, HeldType, Staged, Recorded, Jobs, Slips
    <3> QED
      BY <3>1, <3>2, <3>3, <3>4, <3>5 DEF Typed
  <2>2. Staged' /\ Recorded'
    BY <1>15 DEF Compare, Closed, Applied, Nothing, Typed, FileType, HeldType,
           Staged, EnableSteps, RestoreSteps, Outstanding, Recorded, ResolversRecoverable, Owing
  <2>3. ResolversRecoverable' /\ Owing'
    BY <1>15 DEF Compare, Closed, Applied, Nothing, Typed, FileType, HeldType,
           Staged, EnableSteps, RestoreSteps, Outstanding, Recorded, ResolversRecoverable, Owing
  <2> QED
    BY <2>1, <2>2, <2>3
<1>16. CASE GiveBack
  <2>1. Typed'
    <3>1. file' \in FileType
      BY <1>16, StepTypes DEF GiveBack, Typed, States
    <3>2. held' \in HeldType
      BY <1>16, StepTypes DEF GiveBack, Typed
    <3>3. alive' \in BOOLEAN /\ active' \in BOOLEAN /\ failed' \in BOOLEAN
      BY <1>16, Zenon DEF GiveBack, Typed
    <3>4. blocked' \in BOOLEAN
      BY <1>16 DEF GiveBack, Typed
    <3>5. /\ dns' \in Resolvers /\ owed' \in Resolvers /\ slips' \subseteq Slips
          /\ adapter' \in {"none", "up", "lingers"} /\ job' \in Jobs
      BY <1>16 DEF GiveBack, Typed, FileType, HeldType, Staged, Recorded, Jobs, Slips
    <3> QED
      BY <3>1, <3>2, <3>3, <3>4, <3>5 DEF Typed
  <2>2. Staged' /\ Recorded'
    BY <1>16 DEF GiveBack, Closed, Applied, Nothing, Typed, FileType, HeldType,
           Staged, EnableSteps, RestoreSteps, Outstanding, Recorded, ResolversRecoverable, Owing
  <2>3. ResolversRecoverable' /\ Owing'
    BY <1>16 DEF GiveBack, Closed, Applied, Nothing, Typed, FileType, HeldType,
           Staged, EnableSteps, RestoreSteps, Outstanding, Recorded, ResolversRecoverable, Owing
  <2> QED
    BY <2>1, <2>2, <2>3
<1>17. CASE Forget
  <2>1. Typed'
    BY <1>17, StepTypes DEF Forget, Typed, States, Jobs, Slips
  <2>2. Staged' /\ Recorded'
    BY <1>17 DEF Forget, Closed, Applied, Nothing, Typed, FileType, HeldType,
           Staged, EnableSteps, RestoreSteps, Outstanding, Recorded, ResolversRecoverable, Owing
  <2>3. ResolversRecoverable' /\ Owing'
    BY <1>17 DEF Forget, Closed, Applied, Nothing, Typed, FileType, HeldType,
           Staged, EnableSteps, RestoreSteps, Outstanding, Recorded, ResolversRecoverable, Owing
  <2> QED
    BY <2>1, <2>2, <2>3
<1>18. CASE Close
  <2>1. job \in {"undo", "disable", "exit", "recover"} /\ alive /\ pc = "close"
    BY <1>18 DEF Close, Staged, RestoreSteps
  <2>2. UNCHANGED <<dns, adapter, alive, owed, slips>>
    BY <1>18 DEF Close
  <2>3. Return
    BY <1>18, <2>1 DEF Close
  <2>4. \/ file' = Closed /\ ~failed /\ active' = FALSE
        \/ file' \in {file, Marked("error"), Marked("recovery_required")}
    BY <1>18, <2>1 DEF Close
  <2>5. active' = FALSE \/ active' = active
    BY <1>18, <2>1 DEF Close
  <2>6. blocked' \in BOOLEAN
    BY <1>18, <2>1 DEF Close, Typed
  <2>7. Typed'
    <3>1. file' \in FileType
      BY <2>4, StepTypes DEF Typed, States
    <3>2. held' \in HeldType
      BY <2>3, StepTypes
    <3>3. alive' \in BOOLEAN /\ active' \in BOOLEAN /\ failed' \in BOOLEAN
      BY <2>2, <2>3, <2>5, Zenon DEF Typed
    <3> QED
      BY <2>2, <2>3, <2>6, <3>1, <3>2, <3>3 DEF Typed, Jobs
  <2>8. Staged'
    BY <2>1, <2>2, <2>3, <2>4, <2>5
       DEF Staged, EnableSteps, RestoreSteps, Outstanding, Typed, FileType, Closed
  <2>9. Recorded'
    BY <2>2, <2>3, <2>4 DEF Recorded, Nothing, Closed, Typed, FileType
  <2>10. ResolversRecoverable'
    BY <2>1, <2>2, <2>3, <2>4 DEF ResolversRecoverable, Outstanding, Closed, Typed, FileType, Owing
  <2>11. Owing'
    BY <2>1, <2>2, <2>3, <2>4 DEF Owing, Nothing, Closed, Typed, FileType
  <2> QED
    BY <2>7, <2>8, <2>9, <2>10, <2>11
<1>19. CASE Heal
  <2>1. Typed'
    <3>1. file' \in FileType
      BY <1>19, StepTypes DEF Heal, Typed, States
    <3>2. held' \in HeldType
      BY <1>19, StepTypes DEF Heal, Typed
    <3>3. alive' \in BOOLEAN /\ active' \in BOOLEAN /\ failed' \in BOOLEAN
      BY <1>19, Zenon DEF Heal, Typed
    <3>4. blocked' \in BOOLEAN
      BY <1>19 DEF Heal, Typed
    <3>5. /\ dns' \in Resolvers /\ owed' \in Resolvers /\ slips' \subseteq Slips
          /\ adapter' \in {"none", "up", "lingers"} /\ job' \in Jobs
      BY <1>19 DEF Heal, Typed, FileType, HeldType, Staged, Recorded, Jobs, Slips
    <3> QED
      BY <3>1, <3>2, <3>3, <3>4, <3>5 DEF Typed
  <2>2. Staged' /\ Recorded'
    BY <1>19 DEF Heal, Closed, Applied, Nothing, Typed, FileType, HeldType,
           Staged, EnableSteps, RestoreSteps, Outstanding, Recorded, ResolversRecoverable, Owing
  <2>3. ResolversRecoverable' /\ Owing'
    BY <1>19 DEF Heal, Closed, Applied, Nothing, Typed, FileType, HeldType,
           Staged, EnableSteps, RestoreSteps, Outstanding, Recorded, ResolversRecoverable, Owing
  <2> QED
    BY <2>1, <2>2, <2>3
<1>20. CASE Change
  <2>1. Typed'
    BY <1>20, StepTypes DEF Change, Unseen, Typed, States, Jobs, Slips
  <2>2. Staged' /\ Recorded'
    BY <1>20 DEF Change, Unseen, Closed, Applied, Nothing, Typed, FileType, HeldType,
           Staged, EnableSteps, RestoreSteps, Outstanding, Recorded, ResolversRecoverable, Owing
  <2>3. ResolversRecoverable' /\ Owing'
    BY <1>20 DEF Change, Unseen, Closed, Applied, Nothing, Typed, FileType, HeldType,
           Staged, EnableSteps, RestoreSteps, Outstanding, Recorded, ResolversRecoverable, Owing
  <2> QED
    BY <2>1, <2>2, <2>3
<1>21. CASE CoreExits
  <2>1. Typed'
    BY <1>21, StepTypes DEF CoreExits, Typed, States, Jobs, Slips
  <2>2. Staged' /\ Recorded'
    BY <1>21 DEF CoreExits, Closed, Applied, Nothing, Typed, FileType, HeldType,
           Staged, EnableSteps, RestoreSteps, Outstanding, Recorded, ResolversRecoverable, Owing
  <2>3. ResolversRecoverable' /\ Owing'
    BY <1>21 DEF CoreExits, Closed, Applied, Nothing, Typed, FileType, HeldType,
           Staged, EnableSteps, RestoreSteps, Outstanding, Recorded, ResolversRecoverable, Owing
  <2> QED
    BY <2>1, <2>2, <2>3
<1>22. CASE Crash
  <2>1. Typed'
    BY <1>22, StepTypes DEF Crash, Typed, States, Jobs, Slips
  <2>2. Staged' /\ Recorded'
    BY <1>22 DEF Crash, Closed, Applied, Nothing, Typed, FileType, HeldType,
           Staged, EnableSteps, RestoreSteps, Outstanding, Recorded, ResolversRecoverable, Owing
  <2>3. ResolversRecoverable' /\ Owing'
    BY <1>22 DEF Crash, Closed, Applied, Nothing, Typed, FileType, HeldType,
           Staged, EnableSteps, RestoreSteps, Outstanding, Recorded, ResolversRecoverable, Owing
  <2> QED
    BY <2>1, <2>2, <2>3
<1>23. CASE Launch
  <2>1. Typed'
    BY <1>23, StepTypes DEF Launch, Typed, States, Jobs, Slips
  <2>2. Staged' /\ Recorded'
    BY <1>23 DEF Launch, Closed, Applied, Nothing, Typed, FileType, HeldType,
           Staged, EnableSteps, RestoreSteps, Outstanding, Recorded, ResolversRecoverable, Owing
  <2>3. ResolversRecoverable' /\ Owing'
    BY <1>23 DEF Launch, Closed, Applied, Nothing, Typed, FileType, HeldType,
           Staged, EnableSteps, RestoreSteps, Outstanding, Recorded, ResolversRecoverable, Owing
  <2> QED
    BY <2>1, <2>2, <2>3
<1>24. CASE UNCHANGED vars
  BY <1>24 DEF vars, Typed, Staged, Recorded, ResolversRecoverable, Outstanding, Owing
<1> QED
  BY <1>1, <1>2, <1>3, <1>4, <1>5, <1>6, <1>7, <1>8, <1>9, <1>10, <1>11, <1>12, <1>13, <1>14, <1>15, <1>16, <1>17, <1>18, <1>19, <1>20, <1>21, <1>22, <1>23, <1>24 DEF Next, Enabling, Restoring

-----------------------------------------------------------------------------
(* Jobs, journal, memory and what the user is owed agree at every step, as *)
(* Staged, Recorded and Owing say.                                         *)
THEOREM ResolversInvariant == Spec => []Inv
BY Initially, Preserved, PTL DEF Spec

(* Every variable keeps its type, for any resolvers and any faults.        *)
THEOREM TypeCorrect == Spec => []TypeOK
<1>1. Inv => TypeOK
  BY DEF Inv, Typed, FileType, HeldType, TypeOK
<1> QED
  BY <1>1, ResolversInvariant, PTL

(* Whatever fails and wherever the app dies, resolvers that are ours can   *)
(* be given back, up to the one window the property names                  *)
(* (TunBackend::apply, restore).                                           *)
THEOREM Recoverable == Spec => []ResolversRecoverable
<1>1. Inv => ResolversRecoverable
  BY DEF Inv
<1> QED
  BY <1>1, ResolversInvariant, PTL

(* When the journal says clean, the user has what was there before the     *)
(* capture or what was chosen since ("compare before restoring").          *)
THEOREM CleanIsGivenBack == Spec => []CleanMeansGivenBack
<1>1. Inv => CleanMeansGivenBack
  BY OursAssumption DEF Inv, Typed, Staged, EnableSteps, ResolversRecoverable, Owing, CleanMeansGivenBack
<1> QED
  BY <1>1, ResolversInvariant, PTL

(* Nothing puts our resolvers in place but an enable and the self-heal of  *)
(* a capture that is claimed and journaled (heal_tun_dns).                 *)
THEOREM HealsCapturesOnly == Spec => HealsOnlyCaptures
<1> DEFINE Healed ==
      dns # Ours /\ dns' = Ours
        => \/ pc = "pointAtOurs"
           \/ active /\ job = "idle" /\ Outstanding
           \/ held.before = Ours
<1>1. Inv /\ [Next]_vars => [Healed]_vars
  <2> SUFFICES ASSUME Inv, Next, dns # Ours, dns' = Ours, pc # "pointAtOurs",
                      held.before # Ours
               PROVE  active /\ job = "idle" /\ Outstanding
    OBVIOUS
  <2>1. Heal
    BY DEF Next, Enabling, Restoring, BeginEnable, StartCore, NameInterface, ReadBefore,
         PointAtOurs, RecordDns, Probe, RollbackDns, Rollback, Verify, BeginRelease,
         BeginRecover, Stop, AdapterGone, Compare, GiveBack, Forget, Close, Change, Users,
         CoreExits, Crash, Launch, SetDns, At
  <2> QED
    BY <2>1 DEF Heal, At, Inv, Staged
<1> QED
  BY <1>1, ResolversInvariant, PTL DEF Spec, HealsOnlyCaptures
=============================================================================
