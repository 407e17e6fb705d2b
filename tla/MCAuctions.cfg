SPECIFICATION FairSpec
CONSTANTS
    Auctioneers = {"a1", "a2"}
    KickPendingDuration = 1
    ExpireClaimedDuration = 2
    MaxAuctions = 2
    MaxFaults = 2
INVARIANTS ClaimedAtMostOnce
PROPERTIES PendingDeletedOnlyByLate AuctionsEnd
CHECK_DEADLOCK FALSE
