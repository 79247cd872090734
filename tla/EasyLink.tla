-------------------------------- MODULE EasyLink --------------------------------
(***************************************************************************)
(* easylink/system_easylink.c: the thread that brings an unconfigured      *)
(* device onto a network, the three callbacks through which the WLAN       *)
(* library tells it how that goes, and the requests of the configuration   *)
(* server's clients once the device is an access point itself.  The        *)
(* callbacks and the thread share a flag and a semaphore of one token.     *)
(*                                                                         *)
(* The WLAN library is external: it does one thing at a time, and calls    *)
(* back from one thread.  Left out: the contents of the extra data, mDNS   *)
(* (Mdns), AirKiss' broadcast after a success, WAC.                        *)
(***************************************************************************)
EXTENDS Device, Notify, Naturals

CONSTANTS Offers,    \* networks that EasyLink's application sends
          Clients,   \* threads of the configuration server with a /config-write-uap request
          Wish,      \* the network each of them asks for
          MaxRounds  \* bound on the rounds of EasyLink

ASSUME EasyLinkAssumption ==
    /\ Offers \subseteq Networks
    /\ Wish \in [Clients -> Networks]
    /\ MaxRounds \in Nat

VARIABLES mode,     \* MICO_CONFIG_MODE
          success,  \* easylink_success
          token,    \* easylink_sem
          sem,      \* whether easylink_sem is initialised: "none", "live", "destroyed"
          thread,   \* easylink_thread's step
          round,    \* the number of rounds begun
          client,   \* each client's step
          wlan,     \* what the WLAN library does, and the network it joins or has joined
          joined,   \* history: the networks the device has ever joined
          up,       \* history: the station came up since the thread last connected or started the soft AP
          late,     \* history: a wait for the station timed out, yet it came up
          crossed,  \* history: RAM was edited for another network while one was being joined
          unread,   \* history: the settings of before could not be read again
          reported  \* history: success was reported, and whether the station was up

linkVars == <<mode, success, token, sem, thread, round, client, wlan, joined, up, late, crossed, unread, reported>>

Modes == {"EASYLINK", "SOFT_AP", "EASYLINK_WITH_SOFTAP"}
WlanIdle == [does |-> "nothing", net |-> NoNetwork]

EasyLinkInit ==
    /\ NotifyInit
    /\ success = FALSE /\ token = 0 /\ sem = "none"
    /\ thread = "start" /\ round = 0
    /\ client = [c \in Clients |-> "out"]
    /\ wlan = WlanIdle
    /\ joined = {ram.net} \ {NoNetwork} /\ up = FALSE
    /\ late = FALSE /\ crossed = FALSE /\ unread = FALSE /\ reported = "no"

-----------------------------------------------------------------------------
(* The WLAN library *)

Wlan(does, net) == wlan' = [does |-> does, net |-> net]
WlanUnchanged == UNCHANGED <<deviceVars, mode, success, token, sem, thread, round, client, late, crossed, unread, reported>>

\* EasyLink's first step finds a network, or it gives up: nwkpara is NULL.
GotSsid(net) ==
    /\ wlan.does = "easylink"
    /\ Notify("complete", net)
    /\ Wlan("gotSsid", net)
    /\ WlanUnchanged /\ UNCHANGED <<joined, up>>

GaveUp ==
    /\ wlan.does = "easylink"
    /\ Notify("complete", NoNetwork)
    /\ wlan' = WlanIdle
    /\ WlanUnchanged /\ UNCHANGED <<joined, up>>

\* Its second step, with data for this device or not.
GotData(fits) ==
    /\ wlan.does = "gotSsid"
    /\ Notify("extra", IF fits THEN "fits" ELSE "fails")
    /\ wlan' = WlanIdle
    /\ WlanUnchanged /\ UNCHANGED <<joined, up>>

\* Once per request: that it goes down and comes up again is left out, of the first EasyLink's
\* callback takes no notice.
StationUp ==
    /\ wlan.does = "joining" /\ wlan.net # NoNetwork
    /\ Notify("status", "up")
    /\ Wlan("joined", wlan.net)
    /\ joined' = joined \cup {wlan.net}
    /\ up' = TRUE
    /\ WlanUnchanged

WlanEvent == (\E net \in Offers : GotSsid(net)) \/ GaveUp \/ (\E fits \in BOOLEAN : GotData(fits)) \/ StationUp

\* system_connect_wifi_normal, system_connect_wifi_fast
Connect == Wlan("joining", ram.net)
-----------------------------------------------------------------------------
(* The callbacks, called by the walker *)

At(n, step) == walker.at = n /\ walker.step = step /\ (step = "call" => n \in nodes)
CallbackUnchanged ==
    UNCHANGED <<head, next, nodes, removed, mode, sem, thread, round, client, wlan, joined, up, late,
                crossed, unread, reported>>

\* EasyLinkNotify_WifiStatusHandler: NOTIFY_STATION_UP
CallStatus ==
    /\ At("easylink", "call")
    /\ Goto("mark")
    /\ UNCHANGED <<deviceVars, success, token, stray>> /\ CallbackUnchanged

Mark ==
    /\ walker.step = "mark"
    /\ Goto("store")
    /\ Set("configured", "allConfigured")
    /\ UNCHANGED <<success, token, stray>> /\ CallbackUnchanged

StoreUp ==
    /\ walker.step = "store"
    /\ Goto("set")
    /\ Store
    /\ UNCHANGED <<success, token, stray>> /\ CallbackUnchanged

\* EasyLinkNotify_EasyLinkCompleteHandler
TakeSsid ==
    /\ At("gotSsid", "call") /\ walker.event # NoNetwork
    /\ Goto("next")
    /\ Set("net", walker.event)
    /\ UNCHANGED <<success, token, stray>> /\ CallbackUnchanged

\* Its error path, and EasyLinkNotify_EasyLinkGetExtraDataHandler.
TakeResult ==
    /\ At("gotData", "call") \/ (At("gotSsid", "call") /\ walker.event = NoNetwork)
    /\ Goto("set")
    /\ success' = (walker.event = "fits")
    /\ UNCHANGED <<deviceVars, token, stray>> /\ CallbackUnchanged

\* Mutant: the semaphore counts without a limit.
SetSemUnlimited ==
    /\ walker.step = "set"
    /\ Goto("next")
    /\ token' = IF sem = "live" THEN token + 1 ELSE token
    /\ stray' = IF sem = "live" THEN stray ELSE stray \cup {"semaphore"}
    /\ UNCHANGED <<deviceVars, success>> /\ CallbackUnchanged

\* mico_rtos_set_semaphore(&easylink_sem)
SetSem ==
    /\ walker.step = "set"
    /\ Goto("next")
    /\ token' = IF sem = "live" THEN 1 ELSE token
    /\ stray' = IF sem = "live" THEN stray ELSE stray \cup {"semaphore"}
    /\ UNCHANGED <<deviceVars, success>> /\ CallbackUnchanged

\* Nothing of EasyLink's changes while the walker is at another node, or goes on.
WalkOn == (Follow \/ ReadFreed) /\ UNCHANGED <<deviceVars, linkVars>>

WalkerStep == CallStatus \/ Mark \/ StoreUp \/ TakeSsid \/ TakeResult \/ SetSem \/ WalkOn
-----------------------------------------------------------------------------
(* easylink_thread *)

ThreadUnchanged == UNCHANGED <<walker, stray, mode, client, joined, crossed, unread>>
ListsUnchanged == UNCHANGED <<head, next, nodes, removed>>

\* Lines 228-243.  The library has nothing to report yet.
Start ==
    /\ thread = "start"
    /\ RegisterOwn
    /\ sem' = "live"
    /\ IF ram.bypass = "BYPASS"
       THEN thread' = "storeBypass" /\ Set("bypass", "NO")
       ELSE thread' = "restart" /\ UNCHANGED deviceVars
    /\ UNCHANGED <<mode, success, token, round, client, wlan, joined, up, late, crossed, unread, reported>>

StoreBypass ==
    /\ thread = "storeBypass"
    /\ thread' = "connectFast"
    /\ Store
    /\ ListsUnchanged /\ ThreadUnchanged
    /\ UNCHANGED <<success, token, sem, round, wlan, up, late, reported>>

ConnectFast ==
    /\ thread = "connectFast"
    /\ thread' = "exit"
    /\ Connect /\ up' = FALSE
    /\ ListsUnchanged /\ ThreadUnchanged
    /\ UNCHANGED <<deviceVars, success, token, sem, round, late, reported>>

\* micoWlanStartEasyLinkPlus; a device with a soft AP only goes on at once.
Restart ==
    /\ thread = "restart" /\ round < MaxRounds
    /\ round' = round + 1
    /\ IF mode = "SOFT_AP"
       THEN thread' = "decide" /\ UNCHANGED wlan
       ELSE thread' = "wait" /\ Wlan("easylink", NoNetwork)
    /\ ListsUnchanged /\ ThreadUnchanged
    /\ UNCHANGED <<deviceVars, success, token, sem, up, late, reported>>

TakeToken == token = 1 /\ token' = 0

Wait ==
    /\ thread = "wait"
    /\ TakeToken
    /\ thread' = "decide"
    /\ ListsUnchanged /\ ThreadUnchanged
    /\ UNCHANGED <<deviceVars, success, sem, round, wlan, up, late, reported>>

\* Mutant: a device that was never configured goes back to its settings, too.
DecideBack ==
    /\ thread = "decide"
    /\ thread' = CASE success -> "connect"
                   [] ~success /\ mode # "EASYLINK" -> "softAP"
                   [] OTHER -> "reload"
    /\ ListsUnchanged /\ ThreadUnchanged
    /\ UNCHANGED <<deviceVars, success, token, sem, round, wlan, up, late, reported>>

Decide ==
    /\ thread = "decide"
    /\ thread' = CASE success -> "connect"
                   [] ~success /\ mode # "EASYLINK" -> "softAP"
                   [] OTHER -> IF ram.configured # "unConfigured" THEN "reload" ELSE "wlanOff"
    /\ ListsUnchanged /\ ThreadUnchanged
    /\ UNCHANGED <<deviceVars, success, token, sem, round, wlan, up, late, reported>>

ConnectNormal ==
    /\ thread = "connect"
    /\ thread' = "joining"
    /\ Connect /\ up' = FALSE
    /\ ListsUnchanged /\ ThreadUnchanged
    /\ UNCHANGED <<deviceVars, success, token, sem, round, late, reported>>

\* mico_system_delegate_config_success, at the end of a wait.
Report ==
    /\ thread' = "exit"
    /\ reported' = IF up THEN "up" ELSE "not up"

Joined ==
    /\ thread = "joining"
    /\ TakeToken
    /\ Report
    /\ ListsUnchanged /\ ThreadUnchanged
    /\ UNCHANGED <<deviceVars, success, sem, round, wlan, up, late>>

\* Mutant: the result of the wait is ignored.
TimeOutIgnored ==
    /\ thread = "joining"
    /\ Report
    /\ ListsUnchanged /\ ThreadUnchanged
    /\ UNCHANGED <<deviceVars, success, token, sem, round, wlan, up, late>>

\* EasyLink_ConnectWlan_Timeout is over: micoWlanSuspend.
TimeOut ==
    /\ thread = "joining"
    /\ thread' = "restart"
    /\ wlan' = WlanIdle
    /\ late' = (late \/ up)
    /\ ListsUnchanged /\ ThreadUnchanged
    /\ UNCHANGED <<deviceVars, success, token, sem, round, up, reported>>

\* Its mDNS record may not be made; then the thread ends, and leaves the soft AP.
StartSoftAP ==
    /\ thread = "softAP"
    /\ thread' \in {"softAPwait", "exit"}
    /\ Wlan("softAP", NoNetwork)
    /\ up' = FALSE
    /\ ListsUnchanged /\ ThreadUnchanged
    /\ UNCHANGED <<deviceVars, success, token, sem, round, late, reported>>

WaitSoftAP ==
    /\ thread = "softAPwait"
    /\ TakeToken
    /\ Report
    /\ ListsUnchanged /\ ThreadUnchanged
    /\ UNCHANGED <<deviceVars, success, sem, round, wlan, up, late>>

\* Back to the settings of before: MICOReadConfiguration, which leaves RAM as it is if memory
\* runs out, and is not asked.
Reload ==
    /\ thread = "reload"
    /\ thread' = "markBack"
    /\ \/ ram' = flash /\ UNCHANGED unread
       \/ unread' = TRUE /\ UNCHANGED ram
    /\ UNCHANGED <<flash, power>>
    /\ ListsUnchanged /\ UNCHANGED <<walker, stray, mode, client, joined, crossed>>
    /\ UNCHANGED <<success, token, sem, round, wlan, up, late, reported>>

MarkBack ==
    /\ thread = "markBack"
    /\ thread' = "storeBack"
    /\ Set("configured", "allConfigured")
    /\ ListsUnchanged /\ ThreadUnchanged
    /\ UNCHANGED <<success, token, sem, round, wlan, up, late, reported>>

StoreBack ==
    /\ thread = "storeBack"
    /\ thread' = "connectFast"
    /\ Store
    /\ ListsUnchanged /\ ThreadUnchanged
    /\ UNCHANGED <<success, token, sem, round, wlan, up, late, reported>>

WlanOff ==
    /\ thread = "wlanOff"
    /\ thread' = "exit"
    /\ wlan' = WlanIdle
    /\ ListsUnchanged /\ ThreadUnchanged
    /\ UNCHANGED <<deviceVars, success, token, sem, round, up, late, reported>>

-----------------------------------------------------------------------------
(* Its exit: three nodes are removed, then the semaphore is destroyed. *)

ExitUnchanged == UNCHANGED <<deviceVars, mode, success, token, round, client, wlan, joined, up, late,
                             crossed, unread, reported>>

Exit ==
    /\ thread = "exit"
    /\ thread' = "deinit"
    /\ RemoveOwn
    /\ UNCHANGED sem /\ ExitUnchanged

Deinit ==
    /\ thread = "deinit"
    /\ thread' = "done"
    /\ sem' = "destroyed"
    /\ UNCHANGED notifyVars /\ ExitUnchanged

EasyLinkStep ==
    \/ Start \/ StoreBypass \/ ConnectFast
    \/ Restart \/ Wait \/ Decide \/ ConnectNormal \/ Joined \/ TimeOut
    \/ StartSoftAP \/ WaitSoftAP
    \/ Reload \/ MarkBack \/ StoreBack \/ WlanOff
    \/ Exit \/ Deinit
-----------------------------------------------------------------------------
(* A client of the configuration server, over the soft AP: /config-write-uap *)

ClientUnchanged == UNCHANGED <<notifyVars, mode, success, token, sem, thread, round, joined, late, unread, reported>>
ClientGoes(c, from, to) == client[c] = from /\ client' = [client EXCEPT ![c] = to]

Request(c) ==
    /\ wlan.does = "softAP"
    /\ ClientGoes(c, "out", "edit")
    /\ UNCHANGED <<deviceVars, wlan, up, crossed>> /\ ClientUnchanged

\* ConfigIncommingJsonMessageUAP
EditUAP(c) ==
    /\ ClientGoes(c, "edit", "store")
    /\ ram' = [ram EXCEPT !.net = Wish[c], !.bypass = "NO"]
    /\ crossed' = (crossed \/ wlan.does # "softAP")
    /\ UNCHANGED <<flash, power, wlan, up>> /\ ClientUnchanged

\* Its error path: memory runs out, or the request does not parse.  The client may ask again.
RefuseUAP(c) ==
    /\ ClientGoes(c, "edit", "out")
    /\ Set("bypass", "NO")
    /\ UNCHANGED <<wlan, up, crossed>> /\ ClientUnchanged

StoreUAP(c) ==
    /\ ClientGoes(c, "store", "connect")
    /\ Store
    /\ UNCHANGED <<wlan, up, crossed>> /\ ClientUnchanged

\* micoWlanSuspendSoftAP, system_connect_wifi_normal; never, if the answer cannot be sent.
ConnectUAP(c) ==
    /\ ClientGoes(c, "connect", "done")
    /\ Connect
    /\ UNCHANGED <<deviceVars, up, crossed>> /\ ClientUnchanged

ClientStep(c) == EditUAP(c) \/ RefuseUAP(c) \/ StoreUAP(c) \/ ConnectUAP(c)

EasyLinkTypeOK ==
    /\ ram \in Settings /\ flash \in Settings
    /\ success \in BOOLEAN /\ token \in {0, 1}
    /\ walker.at \in {"null"} \cup Nodes /\ stray \subseteq {"node", "semaphore"}
    /\ wlan.does \in {"nothing", "easylink", "gotSsid", "joining", "joined", "softAP"}
    /\ wlan.net \in Networks \cup {NoNetwork} /\ joined \subseteq Networks
    /\ (sem = "destroyed" <=> thread = "done")
=============================================================================
