CONSTANTS
    dflt = dflt
    other = other
    v1 = v1
    v2 = v2
    xFF = xFF
    junk = junk
    Settings = {dflt}
    DefaultSettings = dflt
    OtherFirmware = other
    UserData = {v1, v2}
    DefaultUserData = v1
    Garbage = {xFF}
    Erased = xFF
    Image = {v1, v2}
    ZeroCrc = {}
    Chunks = 2
    Junk = junk
    Latest = v2
    Updaters = {"http", "fog"}
    OneAtATime = FALSE
    MaxSeed = 2
    MaxCuts = 0
    FlashMayFail = FALSE
    ImageMayFail = FALSE
SPECIFICATION OtaSpec
INVARIANT OnlyLoggedImageInstalled
