SPECIFICATION ESpec
CONSTANTS
    k1 = k1
    vote = vote
    bad = bad
    Key <- MCKey
    MalformedKey <- MCMalformedKey
    VoteProgram = vote
    Slot <- TwoSlots
    WriteVersion <- MCOneVersion
    Uuid = {u1}
    TokenHolders = {u1}
    Requests <- AccountOnly
    Notifications <- UpdatesOfTwoSlots
    ChannelCap <- CapTwo
    SubscriberBufferSize = 2
    MaxUpdates = 2
    Thread = {t1}
    IgnoreStartupUpdates = FALSE
    App = u1
    MaxRootedSlotDistance = 0
    CacheSize = 1
INVARIANT StaleDiscarded
CHECK_DEADLOCK FALSE
