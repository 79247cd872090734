CONSTANTS
    dflt = dflt
    wifi = wifi
    other = other
    u0 = u0
    xFF = xFF
    mixed = mixed
    Settings = {dflt, wifi}
    DefaultSettings = dflt
    OtherFirmware = other
    UserData = {u0}
    DefaultUserData = u0
    Garbage = {xFF, mixed}
    Erased = xFF
    Image = {}
    ZeroCrc = {}
    Threads = {"t1","t2"}
    Role <- MixedRole
    MaxSeed = 3
SPECIFICATION Spec
CHECK_DEADLOCK FALSE
PROPERTIES UpdateIsStored
