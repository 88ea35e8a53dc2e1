SPECIFICATION FairSpec
CONSTANTS
    Tries = 2
    Args <- MixedArgs
    FaultSets <- MixedFaults
    NoMeta = NoMeta
INVARIANTS RunsSignedRootfs GivesUpLate PanicOnlyWithoutShell SetUpAsAsked
PROPERTIES BootEnds BootsIfInTime
