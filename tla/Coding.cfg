SPECIFICATION Spec
CONSTANTS
    StateBits = 7
    Lens <- LensOf
    Coefficient <- CoefficientOf
    Gmms <- GmmsOf
    ScalePred = 2
    ExpTable <- ExpOf
    ExpBase = 4
    ExpScale = 2
    CdfTable <- CdfOf
    CdfBase = 4
    CdfScale = 2
    YBound = 15
    Resolution = 30
    FrameLen = 2
    NFrameMod = 2
INVARIANTS
    TypeOK
    RangeStaysWide
    FrequenciesPartition
    RoundTrip
    StreamTravels
    StreamFits
PROPERTIES
    CodingEnds
