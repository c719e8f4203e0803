SPECIFICATION MCSpec
CONSTANTS
  a = a
  b = b
  c = c
  Displays = {"primary", "external"}
  Layers = {a, b, c}
  Owner <- OwnerDef
  SecureOnes = {a, c}
  CmdMode = FALSE
  SwapIntervalZero = {"external"}
  PowerModes = {"Off", "On", "Doze", "DozeSuspend"}
  HwErrors = {"hardware", "shutdown"}
  Depth = 10
  Scopes = { {a, "secure", "client"}, {a, "secure", "power", "faults"},
             {a, "doze", "power", "faults"}, {a, "pause"},
             {a, "client", "change"}, {a, "shutdown", "power"},
             {a, b, "client", "short"}, {c, "secure", "primary"} }
INVARIANT
  FencesCirculate
PROPERTIES
  CommitsPrepared
  NothingMissing
  AcquireHonoured
  NoEarlyRelease
  SecureFlushed
CHECK_DEADLOCK FALSE
