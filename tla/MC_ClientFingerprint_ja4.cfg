CONSTANTS
    Profiles <- MCProfiles
    TLSVersions = {0, 771, 772}
    ProfileALPN <- MCProfileALPN
    Bodies <- MCBodies
    NIL = NIL
    HNames <- HNamesMC
    HValues <- HValuesMC
    LowerName <- LowerNameMC
    Canonical <- CanonicalMC
    HProfiles <- HProfilesMC
    HMaps <- HMapsMC
    HReqMaps <- HReqMapsMC
    HSlices <- HSlicesMC
    HLines <- HLinesMC
    HJSONs <- HJSONsMC
    HOptions <- HOptionsMC
    BadJSON = BadJSON
    NoOptions = NoOptions
    NoRequest = NoRequest
INIT MCInit
NEXT MCNext
INVARIANT JA4ProtocolFromALPN
