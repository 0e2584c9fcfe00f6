SPECIFICATION SyncSpec
INVARIANT GuaranteedSequence
