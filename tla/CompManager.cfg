SPECIFICATION Spec
CONSTANTS
    hw_pipes <- MCPipes
    has_non_scalar_rgb = FALSE
    Scopes <- MCScopes
INVARIANTS
    FramesKeepPipes
    SafeUntilConfigured
    SafeModeEnds
PROPERTIES
    
    PrepareEnds
