SPECIFICATION FairSpec
CONSTANTS
    Tries = 1
    Args <- MixedArgs
    FaultSets = {{"switch"}}
    NoMeta = NoMeta
INVARIANTS RescueShellStarts
