SPECIFICATION ReadingSpec
CONSTANTS
    k1 = k1
    vote = vote
    bad = bad
    Key <- MCKey
    MalformedKey <- MCMalformedKey
    VoteProgram = vote
    Slot <- MCOneSlot
    WriteVersion <- MCOneVersion
    Uuid = {u1, u2}
    TokenHolders = {u1, u2}
    Requests <- TwoKinds
    Notifications <- OneNotification
    ChannelCap <- CapOne
    SubscriberBufferSize = 1
    MaxUpdates = 1
INVARIANTS NoLiveDrop DeliveryInv
PROPERTIES RemovedForGood OverAfterReturn PartialReaped PartialPinged LoopStops StreamsEnd
CHECK_DEADLOCK FALSE
