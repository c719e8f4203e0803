SPECIFICATION Spec
CONSTANTS
    Types = {"BACKLIGHT", "BUTTONS", "BATTERY", "NOTIFICATIONS", "KEYBOARD"}
    Colors <- MCColors
    Timings <- MCTimings
    BacklightMax = 64
    MaxSingle <- MCMaxSingle
    MaxMix <- MCMaxMix
    LpBrightness = 255
    HasPersistenceFile = TRUE
    HasButtonFile = TRUE
    WritesMayFail = TRUE
CONSTRAINT
    MCOnePart
INVARIANTS
    ShowsPriority
    BlinkingIsKnown
    PersistenceKnown
    LcdInRange
