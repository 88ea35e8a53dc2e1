SPECIFICATION FairSpec
CONSTANTS
    Tries = 1
    Args <- MixedArgs
    FaultSets = {{}}
    NoMeta = NoMeta
INVARIANTS WaitsForRootfs
