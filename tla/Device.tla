--------------------------------- MODULE Device ---------------------------------
(***************************************************************************)
(* What the threads that bring a device onto a network share: the          *)
(* configuration in RAM, its copy on flash, and whether the device is on.  *)
(* An update of the flash is one step here: ParaStorage and ConfigWriters  *)
(* are about what happens inside it.                                       *)
(***************************************************************************)

CONSTANTS Networks,  \* SSID and key
          NoNetwork  \* the empty SSID of a device restored to its defaults

ASSUME NetworkAssumption == NoNetwork \notin Networks

VARIABLES ram,    \* flashContentInRam.micoSystemConfig
          flash,  \* what mico_system_context_update has stored
          power   \* "on", or how the device went off: "reset", "standby"

deviceVars == <<ram, flash, power>>

\* net: ssid and user_key; bypass: easyLinkByPass.
Settings == [net : Networks \cup {NoNetwork},
             configured : {"unConfigured", "wLanUnConfigured", "allConfigured"},
             bypass : {"NO", "BYPASS", "SOFT_AP_BYPASS"}]

Defaults == [net |-> NoNetwork, configured |-> "unConfigured", bypass |-> "NO"]

\* A device that starts provisioning: new or restored, or one that had joined a network and whose
\* button was clicked.  A firmware update made meanwhile leaves SOFT_AP_BYPASS; only an application
\* sets BYPASS.
DeviceInit(settings) ==
    /\ ram = settings
    /\ flash = settings
    /\ power = "on"

\* mico_system_context_update
Store == flash' = ram /\ UNCHANGED <<ram, power>>

Set(field, value) == ram' = [ram EXCEPT ![field] = value] /\ UNCHANGED <<flash, power>>
=============================================================================
