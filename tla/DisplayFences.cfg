SPECIFICATION MCSpec
CONSTANTS
  a = a
  b = b
  c = c
  Displays = {"primary", "external"}
  Layers = {a, b, c}
  Owner <- OwnerDef
  SecureOnes = {a, c}
  CmdMode = FALSE
  SwapIntervalZero = {}
  PowerModes = {"Off", "On", "Doze", "DozeSuspend"}
  HwErrors = {"hardware", "shutdown"}
  Depth = 10
  Scopes = {{a, "pause"}}
INVARIANT
  FencesPreserved
CHECK_DEADLOCK FALSE
