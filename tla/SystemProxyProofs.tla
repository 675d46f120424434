------------------------- MODULE SystemProxyProofs --------------------------
(***************************************************************************)
(* Proofs about SystemProxy for every set of user settings and ports: what *)
(* holds whatever becomes of the record and whichever thread runs, then    *)
(* what holds when the record stays readable and no session-end thread     *)
(* runs beside the app.  With either fault some of the latter is false     *)
(* (README, section 6).                                                    *)
(***************************************************************************)
EXTENDS SystemProxy, TLAPS

-----------------------------------------------------------------------------
(***************************************************************************)
(* Whatever becomes of the record, and with the session-end thread.        *)
(***************************************************************************)
Opening == {"idle", "resetDefaults", "writeClean"}

(* An actor inside an operation over an unreadable record is replacing it: *)
(* none still carries what it read before the record was torn.             *)
CorruptInv ==
  /\ TypeOK
  /\ file.flag = "corrupt" => \A a \in Actor : pc[a] \in Opening

LEMMA InitTypeOK == Init => TypeOK
  <1> SUFFICES ASSUME Init PROVE TypeOK
    OBVIOUS
  <1>1. NoProxy \in Settings /\ os \in Settings
    BY ProxyAssumption DEF Init, Settings, ProxyAssumption
  <1>2. file \in [flag : Flags, backup : Settings]
    BY <1>1 DEF Init, Record, Flags
  <1> QED
    BY <1>1, <1>2 DEF Init, TypeOK, Steps

LEMMA BeginRestoreCorrupt ==
  ASSUME CorruptInv, NEW a \in Actor, NEW hint,
         NEW next \in {"idle", "snapshot"}, BeginRestore(a, hint, next),
         up' \in BOOLEAN, ep' \in Endpoints
  PROVE  CorruptInv' /\ UNCHANGED <<os, file>>
  BY DEF BeginRestore, CorruptInv, Opening, TypeOK, Flags, Steps, Flagged, Go,
         history

(* The invariant is kept, and so is what NothingAppliedOverCorrupt says.   *)
LEMMA StepOverCorrupt ==
  ASSUME CorruptInv, [Next]_vars
  PROVE  /\ CorruptInv'
         /\ file.flag = "corrupt"
              => /\ file'.flag \in {"corrupt", "clear"}
                 /\ os' \notin Endpoints \/ os' = os
  <1> DEFINE Kept == /\ CorruptInv'
                     /\ file.flag = "corrupt"
                          => /\ file'.flag \in {"corrupt", "clear"}
                             /\ os' \notin Endpoints \/ os' = os
  <1>1. /\ NoProxy \in Settings \ Endpoints
        /\ Partial \in Settings \ Endpoints
        /\ Originals \subseteq Settings \ Endpoints
        /\ Endpoints \subseteq Settings
        /\ Actor = {"app", "session"}
    BY ProxyAssumption DEF ProxyAssumption, Settings, Actor
  <1>2. ASSUME NEW a \in Actor, NEW hint, NEW next \in {"idle", "snapshot"},
               BeginRestore(a, hint, next), up' \in BOOLEAN, ep' \in Endpoints
        PROVE  Kept
    BY <1>2, BeginRestoreCorrupt
  <1> USE <1>1 DEF CorruptInv, TypeOK, Flags, Steps, Opening, Record, At, Go,
                   FailedWrite, Restored, history
  <1>3. CASE Launch \/ Disable \/ SessionEnd
    BY <1>2, <1>3 DEF Launch, Disable, SessionEnd
  <1>4. ASSUME NEW e \in Endpoints, EnableSystemProxy(e) \/ SyncAfterReload(e)
        PROVE  Kept
    BY <1>2, <1>4 DEF EnableSystemProxy, SyncAfterReload
  <1>5. ASSUME NEW a \in Actor, RestoreStep(a) PROVE Kept
    <2>1. CASE RestoreOk(a)    BY <2>1 DEF RestoreOk
    <2>2. CASE RestoreFails(a) BY <2>2 DEF RestoreFails
    <2>3. CASE SaveCleared(a)  BY <2>3 DEF SaveCleared
    <2>4. CASE ResetDefaultsOk(a) \/ ResetDefaultsFails(a)
      BY <2>4 DEF ResetDefaultsOk, ResetDefaultsFails
    <2>5. CASE WriteClean(a)   BY <2>5 DEF WriteClean
    <2>6. CASE CallFails(a)    BY <2>6 DEF CallFails
    <2> QED BY <1>5, <2>1, <2>2, <2>3, <2>4, <2>5, <2>6 DEF RestoreStep
  <1>6. CASE ApplyStep
    <2>1. CASE Snapshot      BY <2>1 DEF Snapshot
    <2>2. CASE SavePending   BY <2>2 DEF SavePending
    <2>3. CASE ApplyOk       BY <2>3 DEF ApplyOk
    <2>4. CASE ApplyFails    BY <2>4 DEF ApplyFails
    <2>5. CASE SaveApplied   BY <2>5 DEF SaveApplied
    <2>6. CASE RollbackOk    BY <2>6 DEF RollbackOk
    <2>7. CASE RollbackFails BY <2>7 DEF RollbackFails
    <2>8. CASE SaveStuck     BY <2>8 DEF SaveStuck
    <2> QED
      BY <1>6, <2>1, <2>2, <2>3, <2>4, <2>5, <2>6, <2>7, <2>8 DEF ApplyStep
  <1>7. ASSUME NEW u \in Originals, UserEdits(u) PROVE Kept
    BY <1>7 DEF UserEdits
  <1>8. CASE Crash
    BY <1>8 DEF Crash
  <1>9. CASE Corrupt
    BY <1>9 DEF Corrupt, Idle
  <1>10. CASE UNCHANGED vars
    BY <1>10 DEF vars
  <1> QED
    BY <1>3, <1>4, <1>5, <1>6, <1>7, <1>8, <1>9, <1>10 DEF Next

(* Nobody is in the middle of an operation of before the record was torn.  *)
THEOREM CorruptInvariant == Spec => []CorruptInv
  <1>1. Init => CorruptInv
    BY InitTypeOK DEF Init, CorruptInv, Record
  <1>2. CorruptInv /\ [Next]_vars => CorruptInv'
    BY StepOverCorrupt
  <1> QED BY <1>1, <1>2, PTL DEF Spec

(* Type correctness of the record protocol, for both actors.               *)
THEOREM TypeCorrect == Spec => []TypeOK
  <1>1. CorruptInv => TypeOK
    BY DEF CorruptInv
  <1> QED BY <1>1, CorruptInvariant, PTL

(* An unreadable record is only ever replaced by a clean one, and nothing  *)
(* is applied over it, whoever runs beside the app (recover_unknown_backup).*)
THEOREM NothingOverCorrupt == Spec => NothingAppliedOverCorrupt
  <1>1. CorruptInv /\ [Next]_vars
          => [file.flag = "corrupt"
                => /\ file'.flag \in {"corrupt", "clear"}
                   /\ os' \notin Endpoints \/ os' = os]_vars
    BY StepOverCorrupt
  <1> QED
    BY <1>1, CorruptInvariant, PTL DEF Spec, NothingAppliedOverCorrupt

-----------------------------------------------------------------------------
(***************************************************************************)
(* With a readable record and the app alone.                               *)
(***************************************************************************)
Faultless == ~Corruption /\ ~SessionEndHook

(* The steps of an operation between its first and its last record write.  *)
InsideLoan == {"restore", "saveCleared", "apply", "saveApplied", "rollback",
               "saveStuck"}

(* UserSettingRecoverable is not inductive: it has to be known that a      *)
(* clear record means the OS holds the owed setting, that what the app     *)
(* carries in memory between two calls is that setting, and that a record  *)
(* about to be let go was restored or passed services over.                *)
Owing ==
  /\ Flagged => file.backup = owed
  /\ ~Flagged => os = owed
  /\ pc["app"] \in InsideLoan \cup {"savePending"} => held["app"] = owed
  /\ At("app", "saveCleared") => os = owed \/ "app" \in skipped

RecordInv ==
  /\ TypeOK
  /\ file.flag # "corrupt"
  /\ Idle("session")
  /\ pc["app"] \notin {"resetDefaults", "writeClean"}
  /\ pc["app"] \in InsideLoan => Flagged
  /\ At("app", "savePending") => ~Flagged
  /\ Forfeited \/ Owing

LEMMA InitRecordInv == ASSUME Faultless PROVE Init => RecordInv
  <1> SUFFICES ASSUME Init PROVE RecordInv
    OBVIOUS
  <1>1. file = [flag |-> "missing", backup |-> NoProxy]
    BY DEF Init, Record
  <1>2. TypeOK
    BY InitTypeOK
  <1>3. ~Flagged /\ file.flag # "corrupt"
    BY <1>1 DEF Flagged
  <1>4. \A a \in Actor : pc[a] = "idle"
    BY DEF Init
  <1> QED
    BY <1>2, <1>3, <1>4
       DEF Init, RecordInv, Owing, Idle, At, InsideLoan, Actor

(* What BeginRestore does when the record is readable.                     *)
LEMMA BeginRestoreStep ==
  ASSUME Faultless, RecordInv,
         NEW hint, NEW next \in {"idle", "snapshot"},
         BeginRestore("app", hint, next),
         up' \in BOOLEAN, ep' \in Endpoints
  PROVE  RecordInv'
  <1> USE ProxyAssumption
      DEF RecordInv, Owing, TypeOK, Actor, Flags, Steps, Flagged, Idle, At, Go,
          InsideLoan, Forfeited, history
  <1>1. UNCHANGED <<os, file, owed, skipped, loan>>
    BY DEF BeginRestore
  <1>2. CASE Flagged
    BY <1>1, <1>2 DEF BeginRestore
  <1>3. CASE ~Flagged
    BY <1>1, <1>3 DEF BeginRestore
  <1> QED BY <1>2, <1>3

LEMMA StepRecordInv ==
  ASSUME Faultless, RecordInv, [Next]_vars PROVE RecordInv'
  <1> USE ProxyAssumption
      DEF RecordInv, Owing, TypeOK, Settings, Actor, Flags, Steps, Record,
          Flagged, Idle, At, Go, InsideLoan, FailedWrite, Restored, Forfeited,
          history
  <1>1. CASE Launch
    <2>1. PICK hint \in Endpoints \cup {NoHint} :
            BeginRestore("app", hint, "idle")
      BY <1>1 DEF Launch
    <2>2. up' \in BOOLEAN /\ ep' \in Endpoints
      BY <1>1 DEF Launch
    <2> QED BY ONLY Faultless, RecordInv, <2>1, <2>2, BeginRestoreStep
  <1>2. ASSUME NEW e \in Endpoints, EnableSystemProxy(e) PROVE RecordInv'
    BY <1>2, BeginRestoreStep DEF EnableSystemProxy
  <1>3. ASSUME NEW e \in Endpoints, SyncAfterReload(e) PROVE RecordInv'
    BY <1>3, BeginRestoreStep DEF SyncAfterReload
  <1>4. CASE Disable
    BY <1>4, BeginRestoreStep DEF Disable
  <1>5. CASE SessionEnd
    BY <1>5 DEF SessionEnd, Faultless
  <1>6. ASSUME NEW a \in Actor, RestoreStep(a) PROVE RecordInv'
    <2>1. a = "app"
      BY <1>6 DEF RestoreStep, RestoreOk, RestoreFails, SaveCleared,
                  ResetDefaultsOk, ResetDefaultsFails, WriteClean, CallFails
    <2>2. CASE RestoreOk(a)
      BY <2>1, <2>2 DEF RestoreOk
    <2>3. CASE RestoreFails(a)
      BY <2>1, <2>3 DEF RestoreFails
    <2>4. CASE SaveCleared(a)
      BY <2>1, <2>4 DEF SaveCleared
    <2>5. CASE CallFails(a)
      BY <2>1, <2>5 DEF CallFails
    <2> QED
      BY <1>6, <2>1, <2>2, <2>3, <2>4, <2>5
         DEF RestoreStep, ResetDefaultsOk, ResetDefaultsFails, WriteClean
  <1>7. CASE ApplyStep
    <2>1. CASE Snapshot    BY <2>1 DEF Snapshot
    <2>2. CASE SavePending BY <2>2 DEF SavePending
    <2>3. CASE ApplyOk     BY <2>3 DEF ApplyOk
    <2>4. CASE ApplyFails  BY <2>4 DEF ApplyFails
    <2>5. CASE SaveApplied BY <2>5 DEF SaveApplied
    <2>6. CASE RollbackOk  BY <2>6 DEF RollbackOk
    <2>7. CASE RollbackFails BY <2>7 DEF RollbackFails
    <2>8. CASE SaveStuck   BY <2>8 DEF SaveStuck
    <2> QED
      BY <1>7, <2>1, <2>2, <2>3, <2>4, <2>5, <2>6, <2>7, <2>8 DEF ApplyStep
  <1>8. CASE Crash
    BY <1>8 DEF Crash
  <1>9. ASSUME NEW u \in Originals, UserEdits(u) PROVE RecordInv'
    BY <1>9 DEF UserEdits
  <1>10. CASE Corrupt
    BY <1>10 DEF Corrupt, Faultless
  <1>11. CASE UNCHANGED vars
    BY <1>11 DEF vars
  <1> QED
    BY <1>1, <1>2, <1>3, <1>4, <1>5, <1>6, <1>7, <1>8, <1>9, <1>10, <1>11
       DEF Next

(* Every reachable state satisfies the inductive invariant.                *)
THEOREM RecordInvariant == ASSUME Faultless PROVE Spec => []RecordInv
  <1>1. Init => RecordInv
    BY InitRecordInv
  <1>2. RecordInv /\ [Next]_vars => RecordInv'
    BY StepRecordInv
  <1> QED BY <1>1, <1>2, PTL DEF Spec

(* Whatever call fails and wherever the process dies, the setting the user *)
(* had is in the OS or in an outstanding record on disk, unless a restore  *)
(* that passed services over let the record go (macos.rs restore).         *)
THEOREM Recoverable == ASSUME Faultless PROVE Spec => []UserSettingRecoverable
  <1>1. RecordInv => UserSettingRecoverable
    BY DEF RecordInv, Owing, UserSettingRecoverable, TypeOK
  <1> QED BY <1>1, RecordInvariant, PTL

(* No backup ever holds ice-box's own endpoints, but after such a restore. *)
THEOREM BackupOfUser == ASSUME Faultless PROVE Spec => []BackupIsUsers
  <1>1. RecordInv => BackupIsUsers
    BY DEF RecordInv, Owing, BackupIsUsers, TypeOK
  <1> QED BY <1>1, RecordInvariant, PTL

(* What an operation changes the OS to is the user's own setting, or none  *)
(* of the user's.                                                          *)
LEMMA StepGivesBack ==
  ASSUME Faultless, RecordInv, [Next]_vars,
         \E a \in Actor : ~Idle(a), os' # os, os' \in Originals, ~Forfeited
  PROVE  os' = owed'
  <1>1. owed \in Originals /\ Partial \notin Originals /\ ep \notin Originals
    BY ProxyAssumption DEF ProxyAssumption, RecordInv, TypeOK
  <1> USE DEF RecordInv, Owing, Idle, At, InsideLoan, history
  <1>2. ASSUME NEW a \in Actor, RestoreStep(a) PROVE os' = owed'
    <2>1. a = "app"
      BY <1>2 DEF Actor, RestoreStep, RestoreOk, RestoreFails, SaveCleared,
                  ResetDefaultsOk, ResetDefaultsFails, WriteClean, CallFails
    <2> QED
      BY <1>1, <1>2, <2>1
         DEF RestoreStep, RestoreOk, RestoreFails, SaveCleared, ResetDefaultsOk,
             ResetDefaultsFails, WriteClean, CallFails, FailedWrite, Restored
  <1>3. CASE ApplyStep
    BY <1>1, <1>3
       DEF ApplyStep, Snapshot, SavePending, ApplyOk, ApplyFails, SaveApplied,
           RollbackOk, RollbackFails, SaveStuck, FailedWrite, Restored
  <1>4. ASSUME NEW u \in Originals, UserEdits(u) PROVE FALSE
    BY <1>4 DEF UserEdits
  <1>5. CASE Launch \/ Disable \/ SessionEnd \/ Crash \/ Corrupt \/ UNCHANGED vars
    BY <1>5 DEF Launch, Disable, SessionEnd, Crash, Corrupt, BeginRestore, vars
  <1>6. ASSUME NEW e \in Endpoints, EnableSystemProxy(e) \/ SyncAfterReload(e)
        PROVE  FALSE
    BY <1>6 DEF EnableSystemProxy, SyncAfterReload, BeginRestore
  <1> QED
    BY <1>2, <1>3, <1>4, <1>5, <1>6 DEF Next

(* An operation that lands the OS on a setting of the user's lands it on   *)
(* the one that is owed, however it ends (restore_and_clear_flag), as long *)
(* as no record was let go by a restore that passed services over.         *)
THEOREM GivesBack == ASSUME Faultless PROVE Spec => GivesBackTheOwed
  <1>1. RecordInv /\ [Next]_vars
          => [(\E a \in Actor : ~Idle(a)) /\ os' # os /\ os' \in Originals
                => os' = owed \/ file.flag = "corrupt" \/ Forfeited]_vars
    <2> SUFFICES ASSUME RecordInv, [Next]_vars, \E a \in Actor : ~Idle(a),
                        os' # os, os' \in Originals, ~Forfeited
                 PROVE  os' = owed
      OBVIOUS
    <2>1. os' = owed'
      BY StepGivesBack
    <2>2. owed' = owed
      BY DEF vars, Next, Launch, EnableSystemProxy, SyncAfterReload, Disable,
         SessionEnd, BeginRestore, RestoreStep, RestoreOk, RestoreFails,
         SaveCleared, ResetDefaultsOk, ResetDefaultsFails, WriteClean, CallFails,
         ApplyStep, Snapshot, SavePending, ApplyOk, ApplyFails, SaveApplied,
         RollbackOk, RollbackFails, SaveStuck, Crash, UserEdits, Corrupt, Idle,
         history
    <2> QED BY <2>1, <2>2
  <1> QED
    BY <1>1, RecordInvariant, PTL DEF Spec, GivesBackTheOwed

(* Every step of the record protocol is a step of the loan, or none.       *)
LEMMA StepImplementsLease ==
  ASSUME Faultless, RecordInv, [Next]_vars
  PROVE  [Lease!Next]_Lease!vars
  <1> USE DEF RecordInv, Owing, Flagged, Idle, At, Go, InsideLoan, Record
  <1>1. owed \in Originals /\ Partial \notin Originals /\ ep \notin Originals
    BY ProxyAssumption DEF TypeOK, ProxyAssumption
  <1>2. ASSUME UNCHANGED <<os, file, history>> PROVE UNCHANGED Lease!vars
    BY <1>2 DEF Lease!vars, history, Forfeited
  <1>3. ASSUME Forfeited, UNCHANGED <<owed, loan>>
        PROVE  Lease!Next
    <2>1. Forfeited'
      BY <1>3 DEF Forfeited
    <2>2. Lease!Astray
      BY <1>3, <2>1 DEF Lease!Astray, Captured
    <2> QED BY <2>2 DEF Lease!Next
  <1>4. ASSUME Flagged, Flagged', UNCHANGED <<owed, loan>>,
               os' \in {os, Partial, ep, owed}
        PROVE  [Lease!Next]_Lease!vars
    <2>1. CASE os' = os
      BY <1>4, <2>1 DEF Lease!vars, Forfeited
    <2>2. CASE os' \in {Partial, ep}
      BY <1>1, <1>4, <2>2 DEF Lease!Next, Lease!Divert, Captured, Forfeited
    <2>3. CASE os' = owed
      BY <1>1, <1>4, <2>3 DEF Lease!Next, Lease!GiveBack, Captured, Forfeited
    <2> QED BY <1>4, <2>1, <2>2, <2>3
  <1>5. ASSUME NEW a \in Actor, RestoreStep(a)
        PROVE  [Lease!Next]_Lease!vars
    <2>1. a = "app"
      BY <1>5 DEF Actor, RestoreStep, RestoreOk, RestoreFails, SaveCleared,
                  ResetDefaultsOk, ResetDefaultsFails, WriteClean, CallFails
    <2>2. CASE RestoreOk(a)
      <3>1. Flagged /\ Flagged' /\ UNCHANGED <<owed, loan>>
        BY <2>1, <2>2 DEF RestoreOk
      <3>2. Forfeited \/ os' \in {os, Partial, owed}
        BY <2>1, <2>2 DEF RestoreOk, Restored
      <3> QED BY <1>3, <1>4, <3>1, <3>2
    <2>3. CASE RestoreFails(a)
      <3>1. Flagged /\ Flagged' /\ UNCHANGED <<owed, loan>>
        BY <2>1, <2>3 DEF RestoreFails, history
      <3>2. Forfeited \/ os' \in {os, Partial, owed}
        BY <2>1, <2>3 DEF RestoreFails, FailedWrite
      <3> QED BY <1>3, <1>4, <3>1, <3>2
    <2>4. CASE SaveCleared(a)
      <3>1. Flagged /\ ~Flagged' /\ os' = os /\ owed' = owed
        BY <2>1, <2>4 DEF SaveCleared
      <3>2. CASE "app" \in skipped
        <4>1. Forfeited'
          BY <2>1, <2>4, <3>2 DEF SaveCleared, Forfeited
        <4> QED BY <3>1, <4>1 DEF Lease!Next, Lease!Forfeit
      <3>3. CASE "app" \notin skipped /\ ~Forfeited
        <4>1. os = owed /\ loan' = loan
          BY <2>1, <2>4, <3>3 DEF SaveCleared
        <4> QED BY <1>1, <3>1, <4>1 DEF Lease!Next, Lease!Close, Forfeited
      <3>4. CASE "app" \notin skipped /\ Forfeited
        BY <1>3, <2>1, <2>4, <3>4 DEF SaveCleared
      <3> QED BY <3>2, <3>3, <3>4
    <2>5. CASE CallFails(a)
      BY <1>2, <2>5 DEF CallFails
    <2> QED
      BY <1>5, <2>1, <2>2, <2>3, <2>4, <2>5
         DEF RestoreStep, ResetDefaultsOk, ResetDefaultsFails, WriteClean
  <1>6. CASE ApplyStep
    <2>1. CASE Snapshot    BY <1>2, <2>1 DEF Snapshot
    <2>2. CASE SavePending
      <3>1. ~Flagged /\ Flagged' /\ UNCHANGED <<os, owed, loan>>
        BY <2>2 DEF SavePending, history
      <3> QED BY <3>1 DEF Lease!Next, Lease!Open, Forfeited
    <2>3. CASE ApplyOk     BY <1>4, <2>3 DEF ApplyOk, history
    <2>4. CASE ApplyFails  BY <1>4, <2>4 DEF ApplyFails, FailedWrite, history
    <2>5. CASE SaveApplied
      <3>1. Flagged /\ Flagged' /\ UNCHANGED <<os, owed, loan>>
        BY <2>5 DEF SaveApplied, history
      <3> QED BY <1>4, <3>1
    <2>6. CASE RollbackOk
      <3>1. Flagged /\ Flagged' /\ UNCHANGED <<owed, loan>>
        BY <2>6 DEF RollbackOk
      <3>2. Forfeited \/ os' \in {os, Partial, owed}
        BY <2>6 DEF RollbackOk, Restored
      <3> QED BY <1>3, <1>4, <3>1, <3>2
    <2>7. CASE RollbackFails
      <3>1. Flagged /\ Flagged' /\ UNCHANGED <<owed, loan>>
        BY <2>7 DEF RollbackFails, history
      <3>2. Forfeited \/ os' \in {os, Partial, owed}
        BY <2>7 DEF RollbackFails, FailedWrite
      <3> QED BY <1>3, <1>4, <3>1, <3>2
    <2>8. CASE SaveStuck
      <3>1. Flagged /\ Flagged' /\ UNCHANGED <<os, owed, loan>>
        BY <2>8 DEF SaveStuck, history
      <3> QED BY <1>4, <3>1
    <2> QED
      BY <1>6, <2>1, <2>2, <2>3, <2>4, <2>5, <2>6, <2>7, <2>8 DEF ApplyStep
  <1>7. ASSUME NEW u \in Originals, UserEdits(u)
        PROVE  [Lease!Next]_Lease!vars
    <2>1. Forfeited' <=> Forfeited /\ Flagged
      BY <1>7 DEF UserEdits, Forfeited
    <2>2. os' = u /\ owed' = (IF Flagged THEN owed ELSE u) /\ file' = file
      BY <1>7 DEF UserEdits
    <2> QED BY <2>1, <2>2 DEF Lease!Next, Lease!Edit
  <1>8. CASE Launch \/ Disable
    BY <1>2, <1>8 DEF Launch, Disable, BeginRestore
  <1>9. ASSUME NEW e \in Endpoints, EnableSystemProxy(e) \/ SyncAfterReload(e)
        PROVE  [Lease!Next]_Lease!vars
    BY <1>2, <1>9 DEF EnableSystemProxy, SyncAfterReload, BeginRestore
  <1>10. CASE Crash
    BY <1>2, <1>10 DEF Crash
  <1>11. CASE UNCHANGED vars
    BY <1>2, <1>11 DEF vars
  <1> QED
    BY <1>5, <1>6, <1>7, <1>8, <1>9, <1>10, <1>11
       DEF Next, SessionEnd, Corrupt, Faultless

(* ice-box's record protocol keeps the loan's promise: a closed loan always*)
(* leaves the user's own setting behind, and only a restore that passed    *)
(* services over forfeits one.                                             *)
THEOREM KeepsTheLoan == ASSUME Faultless PROVE Spec => ImplementsLease
  <1>1. Init => Lease!Init
    BY DEF Init, Lease!Init, Flagged, Record, Forfeited
  <1>2. RecordInv /\ [Next]_vars => [Lease!Next]_Lease!vars
    BY StepImplementsLease
  <1> QED
    BY <1>1, <1>2, RecordInvariant, PTL DEF Spec, ImplementsLease, Lease!Spec
=============================================================================
