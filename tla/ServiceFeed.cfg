SPECIFICATION Spec
CONSTANTS
    k1 = k1
    vote = vote
    bad = bad
    Key <- MCKey
    MalformedKey <- MCMalformedKey
    VoteProgram = vote
    Slot <- MCOneSlot
    WriteVersion <- MCOneVersion
    Uuid = {u1, u2}
    TokenHolders = {u1}
    Requests <- EveryRequest
    Notifications <- EveryNotification
    ChannelCap <- CapUnreadEntrySize
    SubscriberBufferSize = 2
    MaxUpdates = 2
INVARIANTS TypeOK DeliveryInv
PROPERTY FeedSpec
CHECK_DEADLOCK FALSE
