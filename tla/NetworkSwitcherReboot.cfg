SPECIFICATION MCSpec
CONSTANTS
    Slots = {0}
    LTE <- MCOneLTE
    Lower <- MCOneLower
    DirectBoot = FALSE
    Disturbances = {"reboot"}
PROPERTIES
    UnlockRestores
