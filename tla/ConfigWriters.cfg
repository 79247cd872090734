CONSTANTS
    dflt = dflt
    wifi = wifi
    other = other
    u0 = u0
    xFF = xFF
    mixed = mixed
    Settings = {dflt, wifi}
    DefaultSettings = dflt
    OtherFirmware = other
    UserData = {u0}
    DefaultUserData = u0
    Garbage = {xFF, mixed}
    Erased = xFF
    Image = {}
    ZeroCrc = {}
    Threads = {"t1","t2","t3","t4","t5","t6"}
    Role <- EachRole
    MaxSeed = 2
SPECIFICATION FairSpec
CHECK_DEADLOCK FALSE
INVARIANTS TypeOK CopiesAgree LockersNeverConflict
PROPERTIES SeedsGrow 
