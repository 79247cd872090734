------------------------------- MODULE MCMonitor -------------------------------
EXTENDS Monitor, TLC

CONSTANTS timer, app  \* _watchdog_reload_timer_handler and a thread of the application

MCSymmetry == Permutations({timer, app})
=============================================================================
