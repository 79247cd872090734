CONSTANTS
    dflt = dflt
    wifi = wifi
    other = other
    u0 = u0
    u1 = u1
    xFF = xFF
    Settings = {dflt, wifi}
    DefaultSettings = dflt
    OtherFirmware = other
    UserData = {u0, u1}
    DefaultUserData = u0
    Garbage = {xFF}
    Erased = xFF
    Image = {}
    ZeroCrc <- MCZeroCrc
    MaxSeed = 2
    FlashMayFail = TRUE
SPECIFICATION FairSpec
INVARIANTS TypeOK BackupReadyAtRest
PROPERTIES AtomicUpdate SeedNeverGoesBack KNoErrMeansDurable CallsReturn
