SPECIFICATION FairSpec
CONSTANTS
    R = 2
    Specs <- GrowSpecs
    NoSts = NoSts
    NoClaim = NoClaim
    MaxEdits = 2
    MaxStops = 2
    MaxLosses = 1
INVARIANTS TypeOK
PROPERTIES NoShrink EachPodGetsItsSize

