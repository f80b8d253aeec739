SPECIFICATION Spec
CONSTANTS
    Types <- MCTypes
    SizeOf <- MCSizeOf
    Roots = {"Leaf", "Mixed", "Nested"}
    Confs <- MCConfs
    Default <- MCDefault
    NameLen = 1
    Alignment = 4
    Programs <- MCPrograms
    BufferLens = {0, 20, 50, 100}
    NBlocks = 12
    Moves = FALSE
INVARIANTS TypeOK CreateHonest SizePredicted DestroyReleases MadeIsSafe NameIsPath ArenaSound
PROPERTY StaticHonest
CHECK_DEADLOCK FALSE
