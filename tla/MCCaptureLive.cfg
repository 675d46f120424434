CONSTANT Faults <- AllButCorruptAndProxy
SPECIFICATION FairSpec
INVARIANTS Exclusive RecoverySettles
PROPERTIES LockReleased RecoveryUnblocks
