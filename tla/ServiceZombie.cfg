SPECIFICATION FairSpec
CONSTANTS
    k1 = k1
    vote = vote
    bad = bad
    Key <- MCKey
    MalformedKey <- MCMalformedKey
    VoteProgram = vote
    Slot <- MCOneSlot
    WriteVersion <- MCOneVersion
    Uuid = {u1}
    TokenHolders = {u1}
    Requests <- AccountOnly
    Notifications <- OtherAccount
    ChannelCap <- CapOne
    SubscriberBufferSize = 1
    MaxUpdates = 1
PROPERTY AllReaped
CHECK_DEADLOCK FALSE
