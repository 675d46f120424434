CONSTANT Faults <- AllButElevated
SPECIFICATION Spec
INVARIANTS EnabledIsJournaled ReportsOwnedProxy EvidenceKept
PROPERTIES CommittedAfterHealthy SwitchIsAtomic RecoveryNeverCaptures ImplementsLedger
