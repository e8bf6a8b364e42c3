SPECIFICATION PSpec
CONSTANTS
    k1 = k1
    vote = vote
    bad = bad
    Key <- MCKey
    MalformedKey <- MCMalformedKey
    VoteProgram = vote
    Slot <- MCSlots
    WriteVersion <- MCOneVersion
    Uuid = {u1}
    TokenHolders = {u1}
    Requests <- PartialRequests
    Notifications <- EveryTopic
    ChannelCap <- CapOne
    SubscriberBufferSize = 1
    MaxUpdates = 1
    Thread = {t1}
    IgnoreStartupUpdates = FALSE
INVARIANTS UnloadNeverPanics
CHECK_DEADLOCK FALSE
