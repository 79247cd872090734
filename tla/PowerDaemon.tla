------------------------------- MODULE PowerDaemon -------------------------------
(***************************************************************************)
(* mico_system_power_daemon.c: a change of power state is a variable and a *)
(* semaphore of one token; a thread takes the token, stores the            *)
(* configuration if a click of the button has changed it, tells whoever    *)
(* listens, and makes the change half a second later.  Clicks come in an   *)
(* interrupt (MiCOKit-3165/platform.c), a long press in the timer's thread. *)
(* eState_Wlan_Powerdown is left out: nothing asks for it.                 *)
(***************************************************************************)
EXTENDS Device, Naturals

VARIABLES current,      \* current_sys_state
          sysToken,     \* sys_state_change_sem
          needsUpdate,  \* needs_update
          daemon,       \* _sys_state_thread's step
          timer,        \* the timer's thread, in the button's long-press callback
          asked,        \* history: the requests whose mico_system_power_perform has returned
          click         \* history: "no", "made", or what became of the change it made

powerVars == <<current, sysToken, needsUpdate, daemon, timer, asked, click>>

PowerInit ==
    /\ current = "normal" /\ sysToken = 0 /\ needsUpdate = FALSE
    /\ daemon = "wait" /\ timer = "out"
    /\ asked = {} /\ click = "no"

DaemonSteps == {"wait", "update", "reset", "standby"}

\* Bound: each of the two buttons is used once.
Unpressed == click = "no" /\ timer = "out"

\* mico_system_power_perform, where nothing comes in between.
Perform(state) == current' = state /\ sysToken' = 1 /\ asked' = asked \cup {state}

\* PlatformEasyLinkButtonClickedCallback
Clicked(settings) ==
    [settings EXCEPT !.bypass = "NO",
                     !.configured = IF @ = "allConfigured" THEN "wLanUnConfigured" ELSE @]

\* The daemon has looked at needs_update before, or finds it unset because another thread had
\* made the change in RAM and not yet on flash.
Missed == daemon \notin {"wait", "update"} \/ (Clicked(ram) = ram /\ Clicked(flash) # flash)

\* Mutant: the bypass is cleared without a note of it.
ClickUnnoted ==
    /\ Unpressed
    /\ ram' = Clicked(ram)
    /\ needsUpdate' = (needsUpdate \/ Clicked(ram).configured # ram.configured)
    /\ Perform("reset")
    /\ click' = IF Missed THEN "missed" ELSE "made"
    /\ UNCHANGED <<flash, power, daemon, timer>>

Click ==
    /\ Unpressed
    /\ ram' = Clicked(ram)
    /\ needsUpdate' = (needsUpdate \/ Clicked(ram) # ram)
    /\ Perform("reset")
    /\ click' = IF Missed THEN "missed" ELSE "made"
    /\ UNCHANGED <<flash, power, daemon, timer>>

\* PlatformStandbyButtonClickedCallback
StandbyClick ==
    /\ "standby" \notin asked
    /\ Perform("standby")
    /\ UNCHANGED <<deviceVars, needsUpdate, daemon, timer, click>>

\* PlatformEasyLinkButtonLongPressedCallback: mico_system_context_restore, which takes no mutex.
LongPress ==
    /\ Unpressed
    /\ timer' = "store"
    /\ ram' = Defaults
    /\ UNCHANGED <<flash, power, current, sysToken, needsUpdate, daemon, asked, click>>

TimerStore ==
    /\ timer = "store"
    /\ timer' = "state"
    /\ Store
    /\ UNCHANGED <<current, sysToken, needsUpdate, daemon, asked, click>>

\* Mutant: the semaphore is set before the state.
TimerPerformTokenFirst ==
    /\ \/ timer = "state" /\ timer' = "token" /\ sysToken' = 1 /\ UNCHANGED <<current, asked>>
       \/ timer = "token" /\ timer' = "done" /\ current' = "reset"
          /\ asked' = asked \cup {"reset"} /\ UNCHANGED sysToken
    /\ UNCHANGED <<deviceVars, needsUpdate, daemon, click>>

\* mico_system_power_perform by a thread: the state, then the semaphore.
TimerPerform ==
    /\ \/ timer = "state" /\ timer' = "token" /\ current' = "reset" /\ UNCHANGED <<sysToken, asked>>
       \/ timer = "token" /\ timer' = "done" /\ sysToken' = 1
          /\ asked' = asked \cup {"reset"} /\ UNCHANGED current
    /\ UNCHANGED <<deviceVars, needsUpdate, daemon, click>>

-----------------------------------------------------------------------------
(* _sys_state_thread *)

\* The state asked for; sendNotifySYSWillPowerOff.
Look == IF current = "normal" THEN "wait" ELSE current

TakeRequest ==
    /\ daemon = "wait" /\ sysToken = 1
    /\ sysToken' = 0
    /\ daemon' = IF needsUpdate THEN "update" ELSE Look
    /\ UNCHANGED <<deviceVars, current, needsUpdate, timer, asked, click>>

DaemonUpdate ==
    /\ daemon = "update"
    /\ daemon' = Look
    /\ Store
    /\ UNCHANGED <<current, sysToken, needsUpdate, timer, asked, click>>

\* MicoSystemReboot, MicoSystemStandBy
PowerOff ==
    /\ daemon \in {"reset", "standby"}
    /\ power' = daemon
    /\ UNCHANGED <<ram, flash, powerVars>>

DaemonStep == TakeRequest \/ DaemonUpdate \/ PowerOff
TimerStep == TimerStore \/ TimerPerform

PowerTypeOK ==
    /\ current \in {"normal", "reset", "standby"} /\ sysToken \in {0, 1} /\ needsUpdate \in BOOLEAN
    /\ daemon \in DaemonSteps
    /\ timer \in {"out", "store", "state", "token", "done"}
    /\ asked \subseteq {"reset", "standby"}
    /\ click \in {"no", "made", "missed", "undone"}
    /\ (daemon \in {"reset", "standby"} => current \in {"reset", "standby"})
=============================================================================
