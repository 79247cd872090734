------------------------------ MODULE Provisioning ------------------------------
(***************************************************************************)
(* A device that is brought onto a network while its buttons are pressed:  *)
(* EasyLink and the power daemon share the configuration in RAM and on     *)
(* flash, and take no common lock.                                         *)
(***************************************************************************)
EXTENDS EasyLink, PowerDaemon

CONSTANT Devices  \* devices that start provisioning: how they are built, and their settings

ASSUME DeviceAssumption ==
    Devices \subseteq [mode : Modes, settings : {s \in Settings : s.configured =
                          IF s.net = NoNetwork THEN "unConfigured" ELSE "wLanUnConfigured"}]

vars == <<deviceVars, notifyVars, linkVars, powerVars>>

Init ==
    /\ \E d \in Devices : mode = d.mode /\ DeviceInit(d.settings)
    /\ EasyLinkInit
    /\ PowerInit

\* What EasyLink's threads do to a click's change: it may be marked over or read over.
Undoing == ram'.configured = "allConfigured" \/ (thread = "reload" /\ thread' # thread)
Link(A) == A /\ UNCHANGED <<current, sysToken, needsUpdate, daemon, timer, asked>>
             /\ click' = IF click = "made" /\ ram' # ram /\ Undoing THEN "undone" ELSE click

\* EasyLink's settings are about to be marked complete: a restore now may be, too.
Completing == wlan.does \in {"joining", "joined"} \/ walker # Idle \/ thread \in {"reload", "markBack"}

\* A change of state, and a restore by the button, leave EasyLink as it is.
Button == LongPress /\ crossed' = (crossed \/ Completing)
          /\ UNCHANGED <<notifyVars, mode, success, token, sem, thread, round, client, wlan, joined, up, late,
                         unread, reported>>
Power(A) == A /\ UNCHANGED <<notifyVars, linkVars>>

\* What the daemon stores after a click is what EasyLink's way back reads.
Daemon ==
    /\ DaemonStep
    /\ crossed' = (crossed \/ (daemon = "update" /\ ram.net \notin joined \cup {NoNetwork}))
    /\ UNCHANGED <<notifyVars, mode, success, token, sem, thread, round, client, wlan, joined, up, late,
                   unread, reported>>

\* A device that is off does nothing, and what one does that has used freed memory is undefined.
Running == power = "on" /\ stray = {}

Next ==
    /\ Running
    /\ \/ Link(WlanEvent)
       \/ Link(WalkerStep)
       \/ Link(EasyLinkStep)
       \/ \E c \in Clients : Link(Request(c)) \/ Link(ClientStep(c))
       \/ Button
       \/ Power(Click) \/ Power(StandbyClick)
       \/ Power(TimerStep)
       \/ Daemon

\* The daemon runs, and requests begun are completed; nothing is assumed of the WLAN library.
Fairness ==
    /\ WF_vars(Running /\ Daemon)
    /\ WF_vars(Running /\ Power(TimerStep))

Spec == Init /\ [][Next]_vars /\ Fairness
-----------------------------------------------------------------------------
(* Properties *)

ProvisioningTypeOK == EasyLinkTypeOK /\ PowerTypeOK

\* Settings stored as complete name a network that the device has joined (the comment at
\* system_easylink.c:68), though they come from the air, from clients and from the flash, and are
\* marked in another thread than the one that wrote them; unless another request or a restore
\* changed RAM while a network was being joined, a click had RAM stored before its network was
\* joined, EasyLink tried anew just as the station came up, or its way back found no memory to read
\* the settings of before (system_easylink.c:300).
StoredHasJoined ==
    flash.configured = "allConfigured" => flash.net \in joined \/ crossed \/ late \/ unread

\* Success is reported to the application only if the station came up since the thread connected
\* or started the soft AP, though one semaphore tells it everything; unless EasyLink tried anew just as
\* it came up (the wait of line 259 timing out all the same).
SuccessMeansJoined == reported = "not up" => late

\* The lists need no lock, and the semaphore's end no handshake, except against a callback of
\* EasyLink that is running when its node is removed.
StrayIsInCallback == stray # {} => removed # {}

\* A click takes effect: the device that goes off after one starts provisioning when it is on again.
\* Unless the daemon had looked at needs_update before (mico_system_power_daemon.c:104), the click
\* found in RAM what another thread was about to store, or its change was marked over by a
\* station coming up or read over by EasyLink's way back (system_easylink.c:71, 300).
ClickSurvives ==
    (power # "on" /\ click = "made") => flash.configured # "allConfigured" /\ flash.bypass = "NO"

\* A reset or standby that was asked for comes, whatever requests overwrite one another.
RequestServed == asked # {} ~> power # "on" \/ stray # {}
=============================================================================
