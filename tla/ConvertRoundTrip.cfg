SPECIFICATION Spec
CONSTANTS
    U8 = 4
    U32 = 16
    Epsilon = 1
    Datum <- MCDatum
    Natives <- MCNatives
    OldProtos <- MCOldProtos
INVARIANTS Faithful NeverFails
