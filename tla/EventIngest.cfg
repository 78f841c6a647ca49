SPECIFICATION Spec
CONSTANTS
    None = None
    f1 = f1
    f2 = f2
    g1 = g1
    g2 = g2
    p1 = p1
    o1 = o1
    ReMintedFill = TRUE
    Callbacks <- MCCallbacks
    Sources <- MCSources
    Keys <- MCKeys
    Kind <- MCKind
    SourceOf <- MCSourceOf
    KeyOf <- MCKeyOf
    Checkpointed = TRUE
    RecentLimit = 2
    MaxSequence = 2
    MaxCrashes = 1

INVARIANTS
    
    NothingLost
    EffectsDurable
PROPERTY
    BooksRefineLedger
