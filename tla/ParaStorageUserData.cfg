CONSTANTS
    dflt = dflt
    wifi = wifi
    other = other
    u0 = u0
    u1 = u1
    xFF = xFF
    Settings = {dflt, wifi}
    DefaultSettings = dflt
    OtherFirmware = other
    UserData = {u0, u1}
    DefaultUserData = u0
    Garbage = {xFF}
    Erased = xFF
    Image = {}
    ZeroCrc = {}
    MaxSeed = 2
    FlashMayFail = FALSE
SPECIFICATION Spec
PROPERTY BackupCopiedToMain
