CONSTANTS
    timer = timer
    app = app
    Monitors = {timer, app}
    NoMonitor = NoMonitor
    Slots = 2
    Delays = {1, 3}
    Period = 1
    WdgTimeout = 2
    ClockSize = 8
    MaxTime = 10
SPECIFICATION Spec
SYMMETRY MCSymmetry
INVARIANTS MonitorTypeOK LateIsReset
PROPERTY ResetMeansLate
CHECK_DEADLOCK FALSE
