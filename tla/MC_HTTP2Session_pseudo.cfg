CONSTANTS
    SettingKeys <- MCSettingKeys
    SettingVals <- MCSettingVals
    Lengths <- MCLengths
    MaxFrames = 4
    NoSettings = NoSettings
    NoPriority = NoPriority
    Profiles <- MCProfiles
    Family <- MCFamily
    NoProfile = NoProfile
    Methods = {"GET", "POST"}
    Paths = {"/get", "/headers"}
    Hosts = {"httpbin.org"}
    HeaderSets <- MCHeaderSets
    ToLower <- MCToLower
SPECIFICATION MCSpec
INVARIANT PseudoHeadersInAkamaiOrder
CHECK_DEADLOCK FALSE
