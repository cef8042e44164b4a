SPECIFICATION FairSpec
CONSTANTS
    Restore = {r1, r2}
    Base = Base
    None = None
    SafetyRetention = 1
    EventsOverflow = TRUE
INVARIANTS NoPairIsLost RestoredIsReviewed
PROPERTIES ImplementsAtomicRestore AcceptedIsServed
