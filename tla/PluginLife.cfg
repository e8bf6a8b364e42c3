SPECIFICATION PFairSpec
CONSTANTS
    k1 = k1
    vote = vote
    bad = bad
    Key <- MCKey
    MalformedKey <- MCMalformedKey
    VoteProgram = vote
    Slot <- MCSlots
    WriteVersion <- MCOneVersion
    Uuid = {u1, u2}
    TokenHolders = {u1}
    Requests <- PartialRequests
    Notifications <- EveryTopic
    ChannelCap <- CapOneNoEntry
    SubscriberBufferSize = 1
    MaxUpdates = 2
    Thread = {t1, t2}
    IgnoreStartupUpdates = TRUE
INVARIANTS RefusedOnlyUnserved UnloadReleases
PROPERTIES HeaderCovers ServiceSpec NoLoopLeft BindFailureSurfaces
CHECK_DEADLOCK FALSE
