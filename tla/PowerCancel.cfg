SPECIFICATION Spec
CONSTANTS
    MinHold = 0
    AgeCap = 0
    Clienteles <- MCEncoding
INVARIANTS
    HintUntilCanceled
