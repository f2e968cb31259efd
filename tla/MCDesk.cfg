\* Every page with its form, two tries, one change by others, one loss.
SPECIFICATION FairSpec
CONSTANTS
    Kinds <- EveryKind
    Cast <- Leaders
    MaxOpenings = 1
    MaxTries = 2
    MaxElsewhere = 1
    MaxFaults = 1
    None = None
INVARIANTS
    OfferedIsAccepted
    AsksOnlyWhatItMay
    DecidedOnWhatWasShown
    KeyedActsOnce
    NeverRestsOnThePast
PROPERTIES
    PageCatchesUp
CHECK_DEADLOCK FALSE
