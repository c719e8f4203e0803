SPECIFICATION FairSpec
CONSTANTS
    MinHold = 1
    AgeCap = 1
    Clienteles <- MCClienteles
INVARIANTS
    ModeHintMatchesFlags
    ModePersisted
    SideHintsPersisted
PROPERTIES
    
    NoBoostInMode
