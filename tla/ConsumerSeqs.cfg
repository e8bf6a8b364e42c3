SPECIFICATION Spec
CONSTANTS
    Methods = {"consume_account_updates"}
    Slot = {0, 1, 2}
    Pubkey = {p1}
    WriteVersion = {1, 2, 3}
    MaxRootedSlotDistance = 1
    CacheSize = 2
    MaxMessages = 3
INVARIANT SeqsInOrder
CHECK_DEADLOCK FALSE
