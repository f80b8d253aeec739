SPECIFICATION Spec
CONSTANTS
    Types <- MCTypes
    SizeOf <- MCSizeOf
    Roots = {"Mixed"}
    Confs <- MCConfs
    Default <- MCDefault
    NameLen = 1
    Alignment = 4
    Programs <- MCProgramsDynamic
    BufferLens = {}
    NBlocks = 12
    Moves = FALSE
INVARIANT DestroyNeverFaults
CHECK_DEADLOCK FALSE
