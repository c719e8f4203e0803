SPECIFICATION MCSpec
CONSTANTS
    Slots = {0, 1}
    LTE <- MCLTE
    Lower <- MCLower
    DirectBoot = TRUE
    Disturbances = {"kill", "reboot", "user", "airplane", "refuse", "settings"}
INVARIANTS
    ChoiceNotLost
    StopsRestored
    OneContinuation
PROPERTIES
    RestoredOrExcused
