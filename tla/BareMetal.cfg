SPECIFICATION Spec
CONSTANTS
    Chunks <- ChunksOfFiles
    Faults = {"mount", "format", "file", "slow"}
    MaxFaults = 2
INVARIANTS
    TypeOK
    StartsOnInput
    CopiesAgree
    SavedIsResult
PROPERTIES
    EndsUnlessMissed
