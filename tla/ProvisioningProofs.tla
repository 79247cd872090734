--------------------------- MODULE ProvisioningProofs ---------------------------
(***************************************************************************)
(* Provisioning, for any networks, clients and devices and any number of   *)
(* rounds: what the flash calls complete has been joined, success is told  *)
(* when the station is up, the lists of callbacks are safe but for one     *)
(* exception, and a click of the button takes effect.                      *)
(***************************************************************************)
EXTENDS Provisioning, TLAPS

ThreadSteps == {"start", "storeBypass", "connectFast", "restart", "wait", "decide", "connect", "joining", "softAP",
                "softAPwait", "reload", "markBack", "storeBack", "wlanOff", "exit", "deinit", "done"}

WalkerRecords == [event : Networks \cup {NoNetwork, "none", "up", "fits", "fails"},
                  at : Nodes \cup {"null"},
                  step : {"idle", "call", "mark", "store", "set", "next"}]
WlanRecords == [does : {"nothing", "easylink", "gotSsid", "joining", "joined", "softAP"},
                net : Networks \cup {NoNetwork}]

TypeInv ==
    /\ ram \in Settings /\ flash \in Settings
    /\ walker \in WalkerRecords /\ stray \subseteq {"node", "semaphore"} /\ removed \subseteq Nodes
    /\ mode \in Modes /\ success \in BOOLEAN /\ token \in {0, 1} /\ thread \in ThreadSteps
    /\ client \in [Clients -> {"out", "edit", "store", "connect", "done"}]
    /\ wlan \in WlanRecords /\ joined \subseteq Networks
    /\ up \in BOOLEAN /\ late \in BOOLEAN /\ crossed \in BOOLEAN /\ unread \in BOOLEAN

\* EasyLink's nodes are in the lists from its start to its exit, and its semaphore lives a step longer.
Listed == thread \notin {"start", "deinit", "done"}
ListsInv ==
    /\ head = [list \in Lists |-> IF list = "status" THEN "system" ELSE IF Listed THEN Own(list) ELSE "null"]
    /\ next = [n \in Nodes |-> IF n = "system" /\ Listed THEN "easylink" ELSE "null"]
    /\ nodes = IF Listed THEN Nodes ELSE {"system"}
    /\ sem = IF thread = "start" THEN "none" ELSE IF thread = "done" THEN "destroyed" ELSE "live"

\* Where the walker is, by its step; it is at a node that has been freed only if it was removed while
\* the walker was there.
WalkInv ==
    /\ walker.at = "null" <=> walker.step = "idle"
    /\ walker.at = "null" => walker = Idle
    /\ walker.at = "gotSsid" => walker.event \in Networks \cup {NoNetwork}
    /\ walker.at = "system" => walker.step = "call"
    /\ walker.step \in {"mark", "store"} => walker.at = "easylink"
    /\ walker.at \in OwnNodes => thread # "start" /\ (walker.at \in nodes \/ walker.at \in removed)
    /\ StrayIsInCallback
-----------------------------------------------------------------------------
(* Types *)

\* The system's node, and EasyLink's three.
LEMMA NodesAre == Nodes = {"system", "easylink", "gotSsid", "gotData"} /\ OwnNodes = {"easylink", "gotSsid", "gotData"}
BY DEF Nodes, OwnNodes, Own, Lists

\* What the button, the timer and the daemon leave as it is.
EasyLinkKept ==
    UNCHANGED <<notifyVars, mode, success, token, sem, thread, round, client, wlan, joined, up, late, unread, reported>>

\* Everything that may happen, by who does it.
LEMMA Steps ==
    ASSUME [Next]_vars
    PROVE  \/ Link(WlanEvent) \/ Link(WalkerStep) \/ Link(EasyLinkStep)
           \/ \E c \in Clients : Link(Request(c)) \/ Link(ClientStep(c))
           \/ (Button \/ Power(Click) \/ Power(StandbyClick) \/ Power(TimerStep) \/ Daemon) /\ EasyLinkKept
           \/ UNCHANGED vars
BY DEF Next, Button, Power, Daemon, EasyLinkKept, linkVars

\* What the library reports has its type: a list's head is a node or null.
LEMMA WlanTypes == ASSUME EasyLinkAssumption, TypeInv, ListsInv, WlanEvent PROVE TypeInv'
<1>1. ASSUME NEW list \in Lists, NEW event \in Networks \cup {NoNetwork, "up", "fits", "fails"}, Notify(list, event)
      PROVE  walker' \in WalkerRecords /\ UNCHANGED <<stray, removed>>
  <2>1. head[list] \in Nodes \cup {"null"}
    BY NodesAre DEF ListsInv, Own, Lists
  <2> QED BY <1>1, <2>1 DEF Notify, Idle, WalkerRecords
<1>2. CASE \E net \in Offers : GotSsid(net)
  <2>1. PICK net \in Offers : GotSsid(net)
    BY <1>2
  <2>2. net \in Networks /\ "complete" \in Lists
    BY DEF EasyLinkAssumption, Lists
  <2>3. walker' \in WalkerRecords /\ UNCHANGED <<stray, removed>>
    BY <1>1, <2>1, <2>2 DEF GotSsid
  <2> QED BY <2>1, <2>2, <2>3 DEF GotSsid, TypeInv, Wlan, WlanRecords, WlanUnchanged, deviceVars
<1>3. CASE GaveUp
  <2>1. walker' \in WalkerRecords /\ UNCHANGED <<stray, removed>>
    BY <1>1, <1>3 DEF GaveUp, Lists
  <2> QED BY <1>3, <2>1 DEF GaveUp, TypeInv, WlanIdle, WlanRecords, WlanUnchanged, deviceVars
<1>4. CASE \E fits \in BOOLEAN : GotData(fits)
  <2>1. PICK fits \in BOOLEAN : GotData(fits)
    BY <1>4
  <2>2. walker' \in WalkerRecords /\ UNCHANGED <<stray, removed>>
    BY <1>1, <2>1 DEF GotData, Lists
  <2> QED BY <2>1, <2>2 DEF GotData, TypeInv, WlanIdle, WlanRecords, WlanUnchanged, deviceVars
<1>5. CASE StationUp
  <2>1. walker' \in WalkerRecords /\ UNCHANGED <<stray, removed>>
    BY <1>1, <1>5 DEF StationUp, Lists
  <2>2. wlan.net \in Networks
    BY <1>5 DEF StationUp, TypeInv, WlanRecords
  <2> QED BY <1>5, <2>1, <2>2 DEF StationUp, TypeInv, Wlan, WlanRecords, WlanUnchanged, deviceVars
<1> QED BY <1>2, <1>3, <1>4, <1>5 DEF WlanEvent

\* The walker's steps keep the types: what it takes over from EasyLink is a network.
LEMMA WalkerTypes == ASSUME TypeInv, ListsInv, WalkInv, WalkerStep PROVE TypeInv'
<1>1. CASE CallStatus \/ Mark \/ StoreUp
  BY <1>1 DEF CallStatus, Mark, StoreUp, Goto, Set, Store, CallbackUnchanged, deviceVars, TypeInv, WalkerRecords, Settings
<1>2. CASE TakeSsid
  <2>1. walker.event \in Networks \cup {NoNetwork}
    BY <1>2 DEF TakeSsid, At, WalkInv
  <2> QED BY <1>2, <2>1 DEF TakeSsid, Goto, Set, CallbackUnchanged, TypeInv, WalkerRecords, Settings
<1>3. CASE TakeResult \/ SetSem
  BY <1>3 DEF TakeResult, SetSem, Goto, CallbackUnchanged, deviceVars, TypeInv, WalkerRecords
<1>4. CASE WalkOn
  <2>1. walker' \in WalkerRecords
    <3>1. CASE walker' = Idle \/ walker' = walker
      BY <3>1 DEF Idle, TypeInv, WalkerRecords
    <3>2. CASE walker.at \in nodes /\ walker' = [walker EXCEPT !.at = next[walker.at], !.step = "call"]
      <4>1. next[walker.at] \in Nodes \cup {"null"}
        BY <3>2, NodesAre DEF ListsInv
      <4> QED BY <3>2, <4>1 DEF TypeInv, WalkerRecords
    <3> QED BY <1>4, <3>1, <3>2 DEF WalkOn, Follow, ReadFreed
  <2> QED BY <1>4, <2>1 DEF WalkOn, Follow, ReadFreed, deviceVars, linkVars, TypeInv
<1> QED BY <1>1, <1>2, <1>3, <1>4 DEF WalkerStep

\* The steps of EasyLink's thread keep the types.
LEMMA ThreadTypes == ASSUME TypeInv, EasyLinkStep PROVE TypeInv'
<1>1. CASE Start
  <2>1. ram' \in Settings /\ flash' = flash /\ thread' \in ThreadSteps
    BY <1>1 DEF Start, Set, deviceVars, TypeInv, ThreadSteps, Settings
  <2> QED BY <1>1, <2>1 DEF Start, RegisterOwn, TypeInv
<1>2. CASE StoreBypass
  BY <1>2 DEF StoreBypass, Store, ListsUnchanged, ThreadUnchanged, TypeInv, ThreadSteps
<1>11. CASE ConnectFast \/ ConnectNormal
  <2>1. wlan' \in WlanRecords
    BY <1>11 DEF ConnectFast, ConnectNormal, Connect, Wlan, TypeInv, Settings, WlanRecords
  <2> QED BY <1>11, <2>1 DEF ConnectFast, ConnectNormal, ListsUnchanged, ThreadUnchanged, deviceVars, TypeInv, ThreadSteps
<1>3. CASE Restart
  BY <1>3 DEF Restart, Wlan, ListsUnchanged, ThreadUnchanged, deviceVars, TypeInv, ThreadSteps, WlanRecords
<1>4. CASE Wait \/ Decide
  BY <1>4 DEF Wait, Decide, TakeToken, ListsUnchanged, ThreadUnchanged, deviceVars, TypeInv, ThreadSteps
<1>5. CASE Joined \/ WaitSoftAP
  BY <1>5 DEF Joined, WaitSoftAP, Report, TakeToken, ListsUnchanged, ThreadUnchanged, deviceVars, TypeInv, ThreadSteps
<1>6. CASE TimeOut
  <2>1. late' \in BOOLEAN
    BY <1>6, Zenon DEF TimeOut, TypeInv
  <2>2. wlan' \in WlanRecords /\ thread' \in ThreadSteps
    BY <1>6 DEF TimeOut, WlanIdle, WlanRecords, ThreadSteps
  <2>3. UNCHANGED <<deviceVars, walker, stray, removed, mode, success, token, client, joined, up, crossed, unread>>
    BY <1>6 DEF TimeOut, ListsUnchanged, ThreadUnchanged
  <2> QED BY <2>1, <2>2, <2>3, Zenon DEF deviceVars, TypeInv
<1>9. CASE StartSoftAP
  BY <1>9 DEF StartSoftAP, Wlan, WlanRecords, ThreadSteps, ListsUnchanged, ThreadUnchanged, deviceVars, TypeInv
<1>10. CASE WlanOff
  BY <1>10 DEF WlanOff, WlanIdle, WlanRecords, ThreadSteps, ListsUnchanged, ThreadUnchanged, deviceVars, TypeInv
<1>7. CASE MarkBack \/ StoreBack
  BY <1>7 DEF MarkBack, StoreBack, Store, Set, ListsUnchanged, ThreadUnchanged, TypeInv, ThreadSteps, Settings
<1>12. CASE Reload
  <2>1. ram' \in Settings /\ unread' \in BOOLEAN /\ thread' \in ThreadSteps
    BY <1>12 DEF Reload, TypeInv, ThreadSteps
  <2> QED BY <1>12, <2>1 DEF Reload, ListsUnchanged, TypeInv
<1>8. CASE Exit \/ Deinit
  BY <1>8, NodesAre DEF Exit, Deinit, RemoveOwn, ExitUnchanged, notifyVars, deviceVars, TypeInv, ThreadSteps
<1> QED BY <1>1, <1>2, <1>3, <1>4, <1>5, <1>6, <1>7, <1>8, <1>9, <1>10, <1>11, <1>12 DEF EasyLinkStep

\* So do those of the clients.
LEMMA ClientTypes == ASSUME EasyLinkAssumption, TypeInv, NEW c \in Clients, Request(c) \/ ClientStep(c) PROVE TypeInv'
<1>1. ram' \in Settings /\ flash' \in Settings
  <2>1. CASE EditUAP(c)
    BY <2>1 DEF EasyLinkAssumption, EditUAP, TypeInv, Settings
  <2>4. CASE RefuseUAP(c)
    BY <2>4 DEF RefuseUAP, Set, TypeInv, Settings
  <2>2. CASE StoreUAP(c)
    BY <2>2 DEF StoreUAP, Store, TypeInv
  <2>3. CASE Request(c) \/ ConnectUAP(c)
    BY <2>3 DEF Request, ConnectUAP, deviceVars, TypeInv
  <2> QED BY <2>1, <2>2, <2>3, <2>4 DEF ClientStep
<1>2. wlan' \in WlanRecords
  BY DEF Request, ClientStep, EditUAP, RefuseUAP, StoreUAP, ConnectUAP, Connect, Wlan, TypeInv, Settings, WlanRecords
<1>3. client' \in [Clients -> {"out", "edit", "store", "connect", "done"}]
  BY DEF Request, ClientStep, EditUAP, RefuseUAP, StoreUAP, ConnectUAP, ClientGoes, TypeInv
<1>4. crossed' \in BOOLEAN /\ up' = up
  <2>1. (wlan.does # "softAP") \in BOOLEAN
    OBVIOUS
  <2> QED BY <2>1, Zenon DEF Request, ClientStep, EditUAP, RefuseUAP, StoreUAP, ConnectUAP, TypeInv
<1> QED BY <1>1, <1>2, <1>3, <1>4
        DEF Request, ClientStep, EditUAP, RefuseUAP, StoreUAP, ConnectUAP, ClientUnchanged, notifyVars, TypeInv

\* The button, the timer and the daemon write settings that are whole.
LEMMA OtherTypes ==
    ASSUME TypeInv, Button \/ Power(Click) \/ Power(StandbyClick) \/ Power(TimerStep) \/ Daemon, EasyLinkKept
    PROVE  TypeInv'
<1>1. ram' \in Settings /\ flash' \in Settings
  <2>1. CASE Button
    BY <2>1 DEF Button, LongPress, Defaults, TypeInv, Settings
  <2>4. CASE Power(Click)
    BY <2>4 DEF Power, Click, Clicked, TypeInv, Settings
  <2>2. CASE Power(StandbyClick) \/ Power(TimerStep)
    BY <2>2 DEF Power, StandbyClick, TimerStep, TimerStore, TimerPerform, Store, deviceVars, TypeInv
  <2>3. CASE Daemon
    BY <2>3 DEF Daemon, DaemonStep, TakeRequest, DaemonUpdate, PowerOff, Store, deviceVars, TypeInv
  <2> QED BY <2>1, <2>2, <2>3, <2>4
<1>2. crossed' \in BOOLEAN
  BY Zenon DEF Button, Power, Daemon, linkVars, TypeInv
<1> QED BY <1>1, <1>2 DEF EasyLinkKept, notifyVars, TypeInv
-----------------------------------------------------------------------------
(* The lists of callbacks *)

\* But for its first and its last two steps, EasyLink's thread leaves the lists and the walker as they are.
LEMMA ThreadGoes ==
    ASSUME EasyLinkStep, ~Start, ~Exit, ~Deinit
    PROVE  /\ UNCHANGED <<head, next, nodes, sem, walker, stray, removed>>
           /\ thread \notin {"start", "deinit", "done"} /\ thread' \notin {"start", "deinit", "done"}
<1>1. CASE StoreBypass \/ ConnectFast \/ Restart \/ Wait
  BY <1>1 DEF StoreBypass, ConnectFast, Restart, Wait, ListsUnchanged, ThreadUnchanged
<1>2. CASE Decide
  BY <1>2 DEF Decide, ListsUnchanged, ThreadUnchanged
<1>3. CASE ConnectNormal \/ Joined \/ TimeOut \/ StartSoftAP \/ WaitSoftAP
  BY <1>3 DEF ConnectNormal, Joined, TimeOut, StartSoftAP, WaitSoftAP, Report, ListsUnchanged, ThreadUnchanged
<1>4. CASE Reload \/ MarkBack \/ StoreBack \/ WlanOff
  BY <1>4 DEF Reload, MarkBack, StoreBack, WlanOff, ListsUnchanged, ThreadUnchanged
<1> QED BY <1>1, <1>2, <1>3, <1>4 DEF EasyLinkStep

\* Registering puts each of the three where the walk of its list ends, removing takes it out again.
LEMMA ListsKept == ASSUME ListsInv, [Next]_vars PROVE ListsInv'
<1>1. CASE UNCHANGED <<head, next, nodes, sem, thread>>
  BY <1>1 DEF ListsInv, Listed
<1>2. CASE Link(EasyLinkStep)
  <2>1. CASE Start
    <3>1. /\ head' = [head EXCEPT !["complete"] = Own("complete"), !["extra"] = Own("extra")]
          /\ next' = [next EXCEPT !["system"] = "easylink"] /\ nodes' = Nodes
          /\ sem' = "live" /\ thread = "start" /\ thread' \in {"storeBypass", "restart"}
      BY <2>1 DEF Start, RegisterOwn, Own
    <3>2. head' = [list \in Lists |-> IF list = "status" THEN "system" ELSE Own(list)]
      BY <3>1 DEF ListsInv, Listed, Lists
    <3>3. next' = [n \in Nodes |-> IF n = "system" THEN "easylink" ELSE "null"]
      BY <3>1, NodesAre DEF ListsInv, Listed
    <3> QED BY <3>1, <3>2, <3>3 DEF ListsInv, Listed
  <2>2. CASE Exit
    <3>1. /\ head' = [list \in Lists |-> IF head[list] \in OwnNodes THEN next[head[list]] ELSE head[list]]
          /\ next' = [n \in Nodes |-> IF next[n] \in OwnNodes THEN next[next[n]] ELSE next[n]]
          /\ nodes' = nodes \ OwnNodes /\ sem' = sem /\ thread = "exit" /\ thread' = "deinit"
      BY <2>2 DEF Exit, RemoveOwn
    <3>2. \A list \in Lists : head[list] = IF list = "status" THEN "system" ELSE Own(list)
      BY <3>1 DEF ListsInv, Listed
    <3>3. \A n \in Nodes : next[n] = IF n = "system" THEN "easylink" ELSE "null"
      BY <3>1 DEF ListsInv, Listed
    <3>4. head' = [list \in Lists |-> IF list = "status" THEN "system" ELSE "null"]
      BY <3>1, <3>2, <3>3, NodesAre DEF Own, Lists
    <3>5. next' = [n \in Nodes |-> "null"]
      BY <3>1, <3>3, NodesAre
    <3>6. nodes' = {"system"} /\ sem' = "live"
      BY <3>1, NodesAre DEF ListsInv, Listed
    <3> QED BY <3>1, <3>4, <3>5, <3>6 DEF ListsInv, Listed
  <2>3. CASE Deinit
    BY <2>3 DEF Deinit, notifyVars, ListsInv, Listed
  <2>4. CASE ~Start /\ ~Exit /\ ~Deinit
    BY <1>2, <2>4, ThreadGoes DEF Link, ListsInv, Listed
  <2> QED BY <2>1, <2>2, <2>3, <2>4
<1>3. CASE Link(WlanEvent)
  <2>1. UNCHANGED <<head, next, nodes, sem, thread>>
    BY <1>3 DEF Link, WlanEvent, GotSsid, GaveUp, GotData, StationUp, Notify, WlanUnchanged
  <2> QED BY <1>1, <2>1
<1>4. CASE Link(WalkerStep)
  <2>1. UNCHANGED <<head, next, nodes, sem, thread>>
    <3>1. CASE WalkOn
      BY <3>1 DEF WalkOn, Follow, ReadFreed, linkVars
    <3>2. CASE ~WalkOn
      BY <1>4, <3>2 DEF Link, WalkerStep, CallStatus, Mark, StoreUp, TakeSsid, TakeResult, SetSem, CallbackUnchanged
    <3> QED BY <3>1, <3>2
  <2> QED BY <1>1, <2>1
<1>5. ASSUME NEW c \in Clients, Link(Request(c)) \/ Link(ClientStep(c)) PROVE UNCHANGED <<head, next, nodes, sem, thread>>
  BY <1>5 DEF Link, Request, ClientStep, EditUAP, RefuseUAP, StoreUAP, ConnectUAP, ClientUnchanged, notifyVars
<1>6. CASE EasyLinkKept \/ UNCHANGED vars
  BY <1>1, <1>6 DEF EasyLinkKept, vars, notifyVars, linkVars
<1> QED BY <1>1, <1>2, <1>3, <1>4, <1>5, <1>6, Steps

\* A walk begins at a node that is listed; a list is cut short only by the thread's exit, which notes where
\* the walker is.
LEMMA WalkKept == ASSUME EasyLinkAssumption, TypeInv, ListsInv, WalkInv, [Next]_vars PROVE WalkInv'
<1>1. CASE UNCHANGED <<walker, stray, nodes, removed>> /\ (thread' # "start" \/ thread' = thread)
  BY <1>1 DEF WalkInv, StrayIsInCallback
<1>2. CASE Link(EasyLinkStep)
  <2>1. CASE Start
    <3>1. thread = "start" /\ thread' # "start" /\ UNCHANGED <<walker, stray, removed>> /\ nodes' = Nodes
      BY <2>1 DEF Start, RegisterOwn
    <3> QED BY <3>1 DEF WalkInv, StrayIsInCallback
  <2>2. CASE Exit
    <3>1. thread' = "deinit" /\ UNCHANGED <<walker, stray>> /\ removed' = removed \cup ({walker.at} \cap OwnNodes)
      BY <2>2 DEF Exit, RemoveOwn
    <3> QED BY <3>1 DEF WalkInv, StrayIsInCallback
  <2>3. CASE Deinit
    <3>1. thread' = "done" /\ UNCHANGED <<walker, stray, removed, nodes>>
      BY <2>3 DEF Deinit, notifyVars
    <3> QED BY <1>1, <3>1
  <2>4. CASE ~Start /\ ~Exit /\ ~Deinit
    BY <1>1, <1>2, <2>4, ThreadGoes DEF Link
  <2> QED BY <2>1, <2>2, <2>3, <2>4
<1>3. CASE Link(WlanEvent)
  <2>1. ASSUME NEW list \in Lists, NEW event, Notify(list, event), UNCHANGED thread,
               list = "complete" => event \in Networks \cup {NoNetwork}
        PROVE  WalkInv'
    <3>1. UNCHANGED <<head, next, nodes, stray, removed>>
      BY <2>1 DEF Notify
    <3>2. CASE head[list] = "null"
      BY <2>1, <3>1, <3>2 DEF Notify, Idle, WalkInv, StrayIsInCallback, OwnNodes, Own
    <3>3. CASE head[list] # "null"
      <4>1. walker' = [event |-> event, at |-> head[list], step |-> "call"]
        BY <2>1, <3>3 DEF Notify
      <4>2. /\ head[list] \in Nodes
            /\ head[list] \in OwnNodes => thread # "start" /\ head[list] \in nodes
            /\ head[list] = "gotSsid" => list = "complete"
        BY <3>3, NodesAre DEF ListsInv, Listed, Own, Lists
      <4> QED BY <2>1, <3>1, <3>3, <4>1, <4>2 DEF WalkInv, StrayIsInCallback, Idle
    <3> QED BY <3>2, <3>3
  <2>2. CASE \E net \in Offers : GotSsid(net)
    <3>1. PICK net \in Offers : GotSsid(net)
      BY <2>2
    <3>2. net \in Networks
      BY DEF EasyLinkAssumption
    <3> QED BY <2>1, <3>1, <3>2 DEF GotSsid, WlanUnchanged, Lists
  <2>3. CASE GaveUp
    BY <2>1, <2>3 DEF GaveUp, WlanUnchanged, Lists
  <2>4. CASE \E fits \in BOOLEAN : GotData(fits)
    BY <2>1, <2>4 DEF GotData, WlanUnchanged, Lists
  <2>5. CASE StationUp
    BY <2>1, <2>5 DEF StationUp, WlanUnchanged, Lists
  <2> QED BY <1>3, <2>2, <2>3, <2>4, <2>5 DEF Link, WlanEvent
<1>4. CASE Link(WalkerStep)
  <2>0. walker \in WalkerRecords
    BY DEF TypeInv
  <2>1. CASE CallStatus \/ Mark \/ StoreUp \/ TakeSsid \/ TakeResult
    <3>1. UNCHANGED <<nodes, removed, stray, thread>>
      BY <2>1 DEF CallStatus, Mark, StoreUp, TakeSsid, TakeResult, CallbackUnchanged
    <3>2. \E step \in {"mark", "store", "set", "next"} :
              /\ Goto(step) /\ walker.at \in OwnNodes
              /\ step \in {"mark", "store"} => walker.at = "easylink"
      <4>1. CASE CallStatus
        BY <4>1, NodesAre DEF CallStatus, At
      <4>2. CASE Mark \/ StoreUp
        BY <4>2, NodesAre DEF Mark, StoreUp, WalkInv
      <4>3. CASE TakeSsid \/ TakeResult
        BY <4>3, NodesAre DEF TakeSsid, TakeResult, At
      <4> QED BY <2>1, <4>1, <4>2, <4>3
    <3>3. PICK step \in {"mark", "store", "set", "next"} :
              /\ walker' = [walker EXCEPT !.step = step] /\ walker.at \in OwnNodes
              /\ step \in {"mark", "store"} => walker.at = "easylink"
      BY <3>2 DEF Goto
    <3>4. walker'.at = walker.at /\ walker'.step = step /\ walker'.event = walker.event
      BY <2>0, <3>3 DEF WalkerRecords
    <3> QED BY <3>1, <3>3, <3>4, NodesAre DEF WalkInv, StrayIsInCallback
  <2>2. CASE SetSem
    <3>1. UNCHANGED <<nodes, removed, thread>> /\ walker.step = "set" /\ (stray' = stray \/ sem # "live")
      BY <2>2 DEF SetSem, CallbackUnchanged
    <3>2. walker'.at = walker.at /\ walker'.step = "next" /\ walker'.event = walker.event
      BY <2>0, <2>2 DEF SetSem, Goto, WalkerRecords
    <3>3. walker.at \in OwnNodes
      BY <2>0, <3>1, NodesAre DEF WalkInv, WalkerRecords
    <3>4. sem # "live" => removed # {}
      BY <3>3, NodesAre DEF ListsInv, Listed, WalkInv
    <3> QED BY <3>1, <3>2, <3>3, <3>4, NodesAre DEF WalkInv, StrayIsInCallback
  <2>3. CASE WalkOn
    <3>1. UNCHANGED <<nodes, removed, thread>>
      BY <2>3 DEF WalkOn, Follow, ReadFreed, linkVars
    <3>2. CASE Follow
      <4>1. walker.at \in nodes /\ stray' = stray
        BY <3>2 DEF Follow
      <4>2. CASE next[walker.at] = "null"
        BY <3>1, <3>2, <4>1, <4>2, NodesAre DEF Follow, Idle, WalkInv, StrayIsInCallback
      <4>3. CASE next[walker.at] # "null"
        <5>1. walker.at \in Nodes
          BY <4>1, NodesAre DEF ListsInv
        <5>2. next[walker.at] = "easylink" /\ Listed
          BY <4>3, <5>1 DEF ListsInv
        <5>3. walker' = [walker EXCEPT !.at = "easylink", !.step = "call"]
          BY <3>2, <4>3, <5>2 DEF Follow
        <5>4. walker'.at = "easylink" /\ walker'.step = "call"
          BY <2>0, <5>3 DEF WalkerRecords
        <5>5. "easylink" \in nodes /\ thread # "start"
          BY <5>2, NodesAre DEF ListsInv, Listed
        <5> QED BY <3>1, <4>1, <5>4, <5>5 DEF WalkInv, StrayIsInCallback
      <4> QED BY <4>2, <4>3
    <3>3. CASE ReadFreed
      <4>1. walker.at \in OwnNodes /\ walker.at \notin nodes /\ walker' = walker
        BY <3>3, NodesAre DEF ReadFreed, ListsInv
      <4> QED BY <3>1, <4>1 DEF WalkInv, StrayIsInCallback
    <3> QED BY <2>3, <3>2, <3>3 DEF WalkOn
  <2> QED BY <1>4, <2>1, <2>2, <2>3 DEF Link, WalkerStep
<1>5. ASSUME NEW c \in Clients, Link(Request(c)) \/ Link(ClientStep(c))
      PROVE  UNCHANGED <<walker, stray, nodes, removed, thread>>
  BY <1>5 DEF Link, Request, ClientStep, EditUAP, RefuseUAP, StoreUAP, ConnectUAP, ClientUnchanged, notifyVars
<1>6. CASE EasyLinkKept \/ UNCHANGED vars
  BY <1>1, <1>6 DEF EasyLinkKept, vars, notifyVars, linkVars
<1> QED BY <1>1, <1>2, <1>3, <1>4, <1>5, <1>6, Steps
-----------------------------------------------------------------------------
(* Where the thread is when the station, the soft AP and their clients are at work *)

Ending == {"exit", "deinit", "done"}
StageInv ==
    /\ \A c \in Clients : client[c] # "out" => thread \in {"softAPwait"} \cup Ending
    /\ wlan.does = "softAP" => thread \in {"softAPwait"} \cup Ending
    /\ wlan.does \in {"joining", "joined"} => thread \in {"joining", "softAPwait"} \cup Ending

\* EasyLink's node is where the walker goes from the system's; at any other it goes on to the end.
LEMMA WalkerSteps ==
    ASSUME TypeInv, ListsInv, WalkInv, WalkerStep
    PROVE  /\ UNCHANGED <<mode, thread, round, client, wlan, joined, up, late, crossed, unread, reported>>
           /\ IF WalkOn
              THEN \/ walker' = walker
                   \/ walker' = Idle /\ (walker.step = "next" \/ walker.at = "system")
                   \/ walker.at = "system" /\ walker'.at = "easylink" /\ walker'.step = "call"
              ELSE /\ CallStatus \/ Mark \/ StoreUp \/ TakeSsid \/ TakeResult \/ SetSem
                 /\ walker'.at = walker.at /\ walker'.event = walker.event /\ walker.at \in OwnNodes
                 /\ walker'.step = IF CallStatus THEN "mark" ELSE IF Mark THEN "store"
                                   ELSE IF StoreUp \/ TakeResult THEN "set" ELSE "next"
<1>0. walker \in WalkerRecords
  BY DEF TypeInv
<1>1. CASE WalkOn
  <2>1. UNCHANGED <<mode, thread, round, client, wlan, joined, up, late, crossed, unread, reported>>
    BY <1>1 DEF WalkOn, linkVars
  <2>2. CASE ReadFreed
    BY <1>1, <2>1, <2>2 DEF ReadFreed
  <2>3. CASE Follow
    <3>1. walker.at \in Nodes /\ (walker.step = "next" \/ walker.at = "system")
      BY <2>3, NodesAre DEF Follow, ListsInv
    <3>2. CASE next[walker.at] = "null"
      BY <1>1, <2>1, <2>3, <3>1, <3>2 DEF Follow
    <3>3. CASE next[walker.at] # "null"
      <4>1. walker.at = "system" /\ next[walker.at] = "easylink"
        BY <3>1, <3>3 DEF ListsInv
      <4>2. walker' = [walker EXCEPT !.at = "easylink", !.step = "call"]
        BY <2>3, <4>1 DEF Follow
      <4> QED BY <1>0, <1>1, <2>1, <4>1, <4>2 DEF WalkerRecords
    <3> QED BY <3>2, <3>3
  <2> QED BY <1>1, <2>2, <2>3 DEF WalkOn
<1>2. CASE ~WalkOn
  <2>0. CallStatus \/ Mark \/ StoreUp \/ TakeSsid \/ TakeResult \/ SetSem
    BY <1>2 DEF WalkerStep
  <2>1. UNCHANGED <<mode, thread, round, client, wlan, joined, up, late, crossed, unread, reported>>
    BY <2>0 DEF CallStatus, Mark, StoreUp, TakeSsid, TakeResult, SetSem, CallbackUnchanged
  <2>2. /\ walker'.at = walker.at /\ walker'.event = walker.event
        /\ walker'.step = IF CallStatus THEN "mark" ELSE IF Mark THEN "store"
                          ELSE IF StoreUp \/ TakeResult THEN "set" ELSE "next"
    <3>1. CASE CallStatus
      BY <1>0, <3>1 DEF CallStatus, Goto, WalkerRecords
    <3>2. CASE Mark
      BY <1>0, <3>2 DEF CallStatus, Mark, At, Goto, WalkerRecords
    <3>3. CASE StoreUp
      BY <1>0, <3>3 DEF CallStatus, Mark, StoreUp, At, Goto, WalkerRecords
    <3>4. CASE TakeSsid
      BY <1>0, <3>4 DEF CallStatus, Mark, StoreUp, TakeSsid, TakeResult, At, Goto, WalkerRecords
    <3>5. CASE TakeResult
      BY <1>0, <3>5 DEF CallStatus, Mark, TakeResult, At, Goto, WalkerRecords
    <3>6. CASE SetSem
      BY <1>0, <3>6 DEF CallStatus, Mark, StoreUp, TakeResult, SetSem, At, Goto, WalkerRecords
    <3> QED BY <2>0, <3>1, <3>2, <3>3, <3>4, <3>5, <3>6
  <2>3. walker.at \in OwnNodes
    <3>1. CASE CallStatus \/ TakeSsid \/ TakeResult
      BY <3>1, NodesAre DEF CallStatus, TakeSsid, TakeResult, At
    <3>2. CASE Mark \/ StoreUp
      BY <3>2, NodesAre DEF Mark, StoreUp, WalkInv
    <3>3. CASE SetSem
      BY <1>0, <3>3, NodesAre DEF SetSem, WalkInv, WalkerRecords
    <3> QED BY <2>0, <3>1, <3>2, <3>3
  <2> QED BY <1>2, <2>0, <2>1, <2>2, <2>3
<1> QED BY <1>1, <1>2

\* Only the thread's own steps and a client's, which it waits for, start the soft AP or join a network.
LEMMA StageKept == ASSUME TypeInv, ListsInv, WalkInv, StageInv, [Next]_vars PROVE StageInv'
<1>1. CASE UNCHANGED <<thread, client, wlan>>
  BY <1>1 DEF StageInv
<1>2. CASE Link(WlanEvent)
  <2>1. UNCHANGED <<thread, client>>
    BY <1>2 DEF Link, WlanEvent, GotSsid, GaveUp, GotData, StationUp, WlanUnchanged
  <2>2. wlan'.does \in {"gotSsid", "nothing"} \/ (wlan.does = "joining" /\ wlan'.does = "joined")
    BY <1>2 DEF Link, WlanEvent, GotSsid, GaveUp, GotData, StationUp, Wlan, WlanIdle
  <2> QED BY <2>1, <2>2 DEF StageInv
<1>3. CASE Link(WalkerStep)
  BY <1>1, <1>3, WalkerSteps DEF Link
<1>4. CASE Link(EasyLinkStep)
  <2>1. client' = client
    BY <1>4 DEF Link, EasyLinkStep, Start, StoreBypass, ConnectFast, Restart, Wait, Decide, ConnectNormal, Joined, TimeOut,
                StartSoftAP, WaitSoftAP, Reload, MarkBack, StoreBack, WlanOff, Exit, Deinit, ThreadUnchanged, ExitUnchanged
  <2>2. CASE Start \/ StoreBypass \/ Wait \/ Reload \/ MarkBack \/ StoreBack
    BY <2>1, <2>2 DEF Start, StoreBypass, Wait, Reload, MarkBack, StoreBack, StageInv, Ending
  <2>3. CASE Restart
    <3>1. thread = "restart" /\ (wlan' = wlan \/ wlan'.does = "easylink")
      BY <2>3 DEF Restart, Wlan
    <3> QED BY <2>1, <3>1 DEF StageInv, Ending
  <2>5. CASE TimeOut \/ WlanOff
    <3>1. thread \in {"joining", "wlanOff"} /\ thread' \in {"restart", "exit"} /\ wlan'.does = "nothing"
          /\ (thread = "joining" \/ thread' = "exit")
      BY <2>5 DEF TimeOut, WlanOff, WlanIdle
    <3> QED BY <2>1, <3>1 DEF StageInv, Ending
  <2>6. CASE ConnectFast \/ ConnectNormal
    <3>1. thread \in {"connectFast", "connect"} /\ thread' \in {"exit", "joining"} /\ wlan'.does = "joining"
      BY <2>6 DEF ConnectFast, ConnectNormal, Connect, Wlan
    <3> QED BY <2>1, <3>1 DEF StageInv, Ending
  <2>7. CASE StartSoftAP
    <3>1. thread = "softAP" /\ thread' \in {"softAPwait", "exit"} /\ wlan'.does = "softAP"
      BY <2>7 DEF StartSoftAP, Wlan
    <3> QED BY <2>1, <3>1 DEF StageInv, Ending
  <2>4. CASE Decide \/ Joined \/ WaitSoftAP \/ Exit \/ Deinit
    BY <2>1, <2>4 DEF Decide, Joined, WaitSoftAP, Report, Exit, Deinit, ExitUnchanged, StageInv, Ending
  <2> QED BY <1>4, <2>2, <2>3, <2>4, <2>5, <2>6, <2>7 DEF Link, EasyLinkStep
<1>5. ASSUME NEW c \in Clients, Link(Request(c)) \/ Link(ClientStep(c)) PROVE StageInv'
  <2>1. thread' = thread
    BY <1>5 DEF Link, Request, ClientStep, EditUAP, RefuseUAP, StoreUAP, ConnectUAP, ClientUnchanged
  <2>2. thread \in {"softAPwait"} \cup Ending
    BY <1>5 DEF Link, Request, ClientStep, EditUAP, RefuseUAP, StoreUAP, ConnectUAP, ClientGoes, StageInv
  <2> QED BY <2>1, <2>2 DEF StageInv
<1>6. CASE EasyLinkKept \/ UNCHANGED vars
  BY <1>1, <1>6 DEF EasyLinkKept, vars, linkVars
<1> QED BY <1>2, <1>3, <1>4, <1>5, <1>6, Steps
-----------------------------------------------------------------------------
(* What the semaphore's token stands for *)

Searching == wlan.does \in {"easylink", "gotSsid"}
Found == walker.at = "gotSsid" /\ walker.event # NoNetwork
Result == walker.at \in {"gotSsid", "gotData"} /\ walker.step \in {"call", "set"}
Station == walker.at \in {"system", "easylink"}

\* EasyLink's results come while its thread waits for them, each wait ends with the first token, and
\* any other token is of a station that came up since: unless a wait ended without its token.
TokenInv ==
    ~late =>
        /\ up => thread \in {"joining", "softAPwait"} \cup Ending
        /\ up => wlan.does \in {"joining", "joined"}
        /\ Station => up
        /\ Searching \/ Result => thread = "wait" /\ token = 0
        /\ Result => IF Found THEN walker.step = "call" ELSE ~Searching
        /\ token = 1 => thread = "wait" \/ up

\* A list is walked from the system's node, or from EasyLink's own while its thread runs.
LEMMA Heads ==
    ASSUME ListsInv, NEW list \in Lists, NEW event, Notify(list, event)
    PROVE  /\ walker = Idle /\ UNCHANGED <<head, next, nodes, stray, removed>>
           /\ IF list = "status" THEN walker' = [event |-> event, at |-> "system", step |-> "call"]
              ELSE IF Listed THEN walker' = [event |-> event, at |-> Own(list), step |-> "call"] ELSE walker' = Idle
<1>1. head[list] = IF list = "status" THEN "system" ELSE IF Listed THEN Own(list) ELSE "null"
  BY DEF ListsInv
<1>2. Own(list) # "null"
  BY DEF Own
<1> QED BY <1>1, <1>2 DEF Notify

\* A wait for EasyLink's result begins without a token, and the result's node is the last of its list; a wait for
\* the station begins before the library is asked to connect.
LEMMA TokenKept ==
    ASSUME NetworkAssumption, EasyLinkAssumption, TypeInv, ListsInv, WalkInv, StageInv, TokenInv, [Next]_vars
    PROVE  TokenInv'
<1>1. CASE UNCHANGED <<walker, token, thread, wlan, up, late>>
  BY <1>1 DEF TokenInv, Searching, Found, Result, Station
<1>2. CASE Link(WlanEvent)
  <2>1. CASE \E net \in Offers : GotSsid(net)
    <3>1. PICK net \in Offers : GotSsid(net)
      BY <2>1
    <3>2. /\ UNCHANGED <<token, thread, up, late>> /\ Searching /\ wlan'.does = "gotSsid"
          /\ Notify("complete", net)
      BY <3>1 DEF GotSsid, Wlan, WlanUnchanged, Searching
    <3>3. walker = Idle /\ (walker' = Idle \/ (walker'.at = "gotSsid" /\ walker'.event = net /\ walker'.step = "call"))
      BY <3>2, Heads DEF Lists, Own
    <3> USE <3>2, <3>3 DEF TokenInv, Searching, Found, Result, Station, Idle
    <3>4. net # NoNetwork
      BY DEF NetworkAssumption, EasyLinkAssumption
    <3> QED BY <3>4
  <2>2. CASE GaveUp
    <3>2. /\ UNCHANGED <<token, thread, up, late>> /\ Searching /\ wlan'.does = "nothing"
          /\ Notify("complete", NoNetwork)
      BY <2>2 DEF GaveUp, WlanIdle, WlanUnchanged, Searching
    <3>3. walker = Idle /\ (walker' = Idle \/ (walker'.at = "gotSsid" /\ walker'.event = NoNetwork /\ walker'.step = "call"))
      BY <3>2, Heads DEF Lists, Own
    <3> QED BY <3>2, <3>3 DEF TokenInv, Searching, Found, Result, Station, Idle
  <2>3. CASE \E fits \in BOOLEAN : GotData(fits)
    <3>1. PICK fits \in BOOLEAN : GotData(fits)
      BY <2>3
    <3>2. /\ UNCHANGED <<token, thread, up, late>> /\ Searching /\ wlan'.does = "nothing"
          /\ \E event : Notify("extra", event)
      BY <3>1 DEF GotData, WlanIdle, WlanUnchanged, Searching
    <3>3. walker = Idle /\ (walker' = Idle \/ (walker'.at = "gotData" /\ walker'.step = "call"))
      BY <3>2, Heads DEF Lists, Own
    <3> QED BY <3>2, <3>3 DEF TokenInv, Searching, Found, Result, Station, Idle
  <2>4. CASE StationUp
    <3>1. /\ UNCHANGED <<token, thread, late>> /\ up' /\ wlan.does = "joining" /\ wlan'.does = "joined"
          /\ Notify("status", "up")
      BY <2>4 DEF StationUp, Wlan, WlanUnchanged
    <3>2. walker'.at = "system" /\ walker'.step = "call"
      BY <3>1, Heads DEF Lists
    <3> QED BY <3>1, <3>2 DEF TokenInv, StageInv, Searching, Found, Result, Station
  <2> QED BY <1>2, <2>1, <2>2, <2>3, <2>4 DEF Link, WlanEvent
<1>3. CASE Link(WalkerStep)
  <2>1. UNCHANGED <<thread, wlan, up, late>>
    BY <1>3, WalkerSteps DEF Link
  <2>2. CASE WalkOn
    <3>1. token' = token
      BY <2>2 DEF WalkOn, linkVars
    <3>2. CASE walker' = walker
      BY <1>1, <2>1, <3>1, <3>2
    <3>3. CASE walker' = Idle
      BY <2>1, <3>1, <3>3 DEF TokenInv, Searching, Found, Result, Station, Idle
    <3>4. CASE walker.at = "system" /\ walker'.at = "easylink"
      BY <2>1, <3>1, <3>4 DEF TokenInv, Searching, Found, Result, Station
    <3>5. walker' = walker \/ walker' = Idle \/ (walker.at = "system" /\ walker'.at = "easylink")
      BY <1>3, <2>2, WalkerSteps DEF Link
    <3> QED BY <3>2, <3>3, <3>4, <3>5
  <2>3. CASE ~WalkOn
    <3>1. /\ CallStatus \/ Mark \/ StoreUp \/ TakeSsid \/ TakeResult \/ SetSem
          /\ walker'.at = walker.at /\ walker'.event = walker.event /\ walker.at \in OwnNodes
          /\ walker'.step = IF CallStatus THEN "mark" ELSE IF Mark THEN "store"
                            ELSE IF StoreUp \/ TakeResult THEN "set" ELSE "next"
      BY <1>3, <2>3, WalkerSteps DEF Link
    <3>2. CASE walker.at = "easylink"
      <4>1. token' \in {token, 1}
        BY <3>1 DEF CallStatus, Mark, StoreUp, TakeSsid, TakeResult, SetSem
      <4> QED BY <2>1, <3>1, <3>2, <4>1 DEF TokenInv, Searching, Found, Result, Station
    <3>3. CASE walker.at \in {"gotSsid", "gotData"}
      <4>1. CASE CallStatus \/ Mark \/ StoreUp
        BY <3>3, <4>1 DEF CallStatus, Mark, StoreUp, At, WalkInv
      <4>2. CASE TakeSsid
        <5>1. token' = token /\ walker'.step = "next"
          BY <4>2, <3>1 DEF CallStatus, Mark, StoreUp, TakeSsid, TakeResult, At
        <5> QED BY <2>1, <3>1, <3>3, <5>1 DEF TokenInv, Searching, Found, Result, Station
      <4>3. CASE TakeResult
        <5>1. token' = token /\ walker.step = "call" /\ ~Found /\ walker'.step \in {"set", "next"}
          BY <4>3, <3>1, <3>3 DEF CallStatus, Mark, StoreUp, TakeResult, At, Found
        <5> QED BY <2>1, <3>1, <3>3, <5>1 DEF TokenInv, Searching, Found, Result, Station
      <4>4. CASE SetSem
        <5>1. walker.step = "set" /\ walker'.step = "next" /\ token' \in {token, 1}
          BY <4>4, <3>1 DEF CallStatus, Mark, StoreUp, TakeResult, SetSem, At
        <5> QED BY <2>1, <3>1, <3>3, <5>1 DEF TokenInv, Searching, Found, Result, Station
      <4> QED BY <3>1, <4>1, <4>2, <4>3, <4>4
    <3> QED BY <3>1, <3>2, <3>3, NodesAre
  <2> QED BY <2>2, <2>3
<1>4. CASE Link(EasyLinkStep)
  <2>0. UNCHANGED walker
    <3>1. CASE Start \/ Exit \/ Deinit
      BY <3>1 DEF Start, RegisterOwn, Exit, RemoveOwn, Deinit, notifyVars
    <3> QED BY <1>4, <3>1, ThreadGoes DEF Link
  <2> USE <2>0 DEF TokenInv, Searching, Found, Result, Station
  <2>1. CASE Start \/ StoreBypass \/ Decide \/ Reload \/ MarkBack \/ StoreBack
    <3>1. UNCHANGED <<token, wlan, up, late>>
      BY <2>1 DEF Start, StoreBypass, Decide, Reload, MarkBack, StoreBack
    <3>2. thread \notin {"wait", "joining", "softAPwait"} \cup Ending
      BY <2>1 DEF Start, StoreBypass, Decide, Reload, MarkBack, StoreBack, Ending
    <3> QED BY <3>1, <3>2
  <2>2. CASE ConnectFast \/ ConnectNormal \/ StartSoftAP
    <3>1. UNCHANGED <<token, late>> /\ ~up' /\ wlan'.does \in {"joining", "softAP"}
      BY <2>2 DEF ConnectFast, ConnectNormal, StartSoftAP, Connect, Wlan
    <3>2. thread \notin {"wait", "joining", "softAPwait"} \cup Ending
      BY <2>2 DEF ConnectFast, ConnectNormal, StartSoftAP, Ending
    <3> QED BY <3>1, <3>2
  <2>3. CASE Restart
    <3>1. UNCHANGED <<token, up, late>> /\ thread = "restart"
          /\ (wlan' = wlan \/ (wlan'.does = "easylink" /\ thread' = "wait"))
      BY <2>3 DEF Restart, Wlan
    <3>2. token \in {0, 1}
      BY DEF TypeInv
    <3> QED BY <3>1, <3>2 DEF Ending
  <2>4. CASE Wait
    BY <2>4 DEF Wait, TakeToken, Ending
  <2>5. CASE Joined \/ WaitSoftAP
    BY <2>5 DEF Joined, WaitSoftAP, TakeToken, Report, Ending
  <2>6. CASE TimeOut
    <3>1. UNCHANGED <<token, up>> /\ thread = "joining" /\ wlan'.does = "nothing" /\ late' = (late \/ up)
      BY <2>6 DEF TimeOut, WlanIdle
    <3> QED BY <3>1
  <2>7. CASE WlanOff
    <3>1. UNCHANGED <<token, up, late>> /\ thread = "wlanOff" /\ wlan'.does = "nothing"
      BY <2>7 DEF WlanOff, WlanIdle
    <3> QED BY <3>1 DEF Ending
  <2>8. CASE Exit \/ Deinit
    BY <2>8 DEF Exit, Deinit, ExitUnchanged, Ending
  <2> QED BY <1>4, <2>1, <2>2, <2>3, <2>4, <2>5, <2>6, <2>7, <2>8 DEF Link, EasyLinkStep
<1>5. ASSUME NEW c \in Clients, Link(Request(c)) \/ Link(ClientStep(c)) PROVE TokenInv'
  <2>1. UNCHANGED <<walker, token, thread, late, up>> /\ (wlan' = wlan \/ wlan'.does = "joining")
    BY <1>5 DEF Link, Request, ClientStep, EditUAP, RefuseUAP, StoreUAP, ConnectUAP, Connect, Wlan, ClientUnchanged, notifyVars
  <2> QED BY <2>1 DEF TokenInv, Searching, Found, Result, Station
<1>6. CASE EasyLinkKept \/ UNCHANGED vars
  BY <1>1, <1>6 DEF EasyLinkKept, vars, notifyVars, linkVars
<1> QED BY <1>2, <1>3, <1>4, <1>5, <1>6, Steps

\* The waits after which success is reported take a token.
LEMMA ReportKept == ASSUME TokenInv, SuccessMeansJoined, [Next]_vars PROVE SuccessMeansJoined'
<1>1. CASE UNCHANGED reported /\ (late' = late \/ late')
  BY <1>1 DEF SuccessMeansJoined
<1>2. CASE Link(EasyLinkStep)
  <2>1. CASE Joined \/ WaitSoftAP
    <3>1. token = 1 /\ thread # "wait" /\ late' = late /\ reported' = IF up THEN "up" ELSE "not up"
      BY <2>1 DEF Joined, WaitSoftAP, TakeToken, Report
    <3> QED BY <3>1 DEF SuccessMeansJoined, TokenInv
  <2>2. CASE TimeOut
    <3>1. late' = (late \/ up) /\ reported' = reported
      BY <2>2 DEF TimeOut
    <3> QED BY <3>1 DEF SuccessMeansJoined
  <2>3. CASE ~Joined /\ ~WaitSoftAP /\ ~TimeOut
    <3>1. UNCHANGED <<reported, late>>
      BY <1>2, <2>3 DEF Link, EasyLinkStep, Start, StoreBypass, ConnectFast, Restart, Wait, Decide, ConnectNormal,
                        StartSoftAP, Reload, MarkBack, StoreBack, WlanOff, Exit, Deinit, ExitUnchanged
    <3> QED BY <1>1, <3>1
  <2> QED BY <2>1, <2>2, <2>3
<1>3. CASE Link(WlanEvent)
  BY <1>1, <1>3 DEF Link, WlanEvent, GotSsid, GaveUp, GotData, StationUp, WlanUnchanged
<1>4. CASE Link(WalkerStep)
  <2>1. UNCHANGED <<reported, late>>
    BY <1>4 DEF Link, WalkerStep, CallStatus, Mark, StoreUp, TakeSsid, TakeResult, SetSem, WalkOn,
                CallbackUnchanged, linkVars
  <2> QED BY <1>1, <2>1
<1>5. ASSUME NEW c \in Clients, Link(Request(c)) \/ Link(ClientStep(c)) PROVE UNCHANGED <<reported, late>>
  BY <1>5 DEF Link, Request, ClientStep, EditUAP, RefuseUAP, StoreUAP, ConnectUAP, ClientUnchanged
<1>6. CASE EasyLinkKept \/ UNCHANGED vars
  BY <1>1, <1>6 DEF EasyLinkKept, vars, linkVars
<1> QED BY <1>1, <1>2, <1>3, <1>4, <1>5, <1>6, Steps
-----------------------------------------------------------------------------
(* What RAM and flash call complete *)

Complete(settings) == settings.configured = "allConfigured"

\* The thread may still have to find a network, connect to it, or go back to the one it knew.
Early == {"start", "restart", "wait", "decide", "connect", "joining", "softAP", "reload", "markBack"}

\* Until the station is up nothing is complete, and a configured device has its old network on flash
\* to go back to; a restored one is not configured until the timer's thread has stored that.
Unfinished ==
    /\ ~Complete(ram) /\ ~Complete(flash)
    /\ ram.configured # "unConfigured" => flash.net \in joined /\ ram.net # NoNetwork
    /\ timer = "store" => ram.configured = "unConfigured"

SettingsInv ==
    ~late /\ ~crossed /\ ~unread =>
        /\ Complete(ram) => ram.net \in joined
        /\ Complete(flash) => flash.net \in joined
        /\ wlan.does = "joining" => wlan.net = ram.net
        /\ wlan.does = "softAP" => ~Complete(ram)
        /\ Station => ram.net \in joined
        /\ thread \in Early /\ ~up => Unfinished
        /\ thread \in {"reload", "markBack"} => timer # "store" /\ flash.net \in joined /\ ram.net # NoNetwork
        /\ thread = "markBack" => ram.net \in joined

\* The station joins what RAM names; EasyLink's results change no settings.
LEMMA SettingsByWlan ==
    ASSUME ListsInv, StageInv, TokenInv, SettingsInv, Link(WlanEvent) PROVE SettingsInv'
<1>1. CASE StationUp
  <2>1. /\ UNCHANGED <<ram, flash, thread, late, crossed, unread, timer>> /\ up' /\ wlan.does = "joining" /\ wlan'.does = "joined"
        /\ joined' = joined \cup {wlan.net} /\ Notify("status", "up")
    BY <1>1 DEF Link, StationUp, Wlan, WlanUnchanged, deviceVars
  <2>2. thread \notin {"reload", "markBack"}
    BY <2>1 DEF StageInv, Ending
  <2> QED BY <2>1, <2>2 DEF SettingsInv, Unfinished, Complete
<1>2. CASE ~StationUp
  <2>1. UNCHANGED <<ram, flash, thread, late, crossed, unread, timer, joined, up>> /\ wlan'.does \in {"gotSsid", "nothing"}
    BY <1>2 DEF Link, WlanEvent, GotSsid, GaveUp, GotData, Wlan, WlanIdle, WlanUnchanged, deviceVars
  <2>2. \E list \in Lists : list # "status" /\ \E event : Notify(list, event)
    BY <1>2 DEF Link, WlanEvent, GotSsid, GaveUp, GotData, Lists
  <2>3. ~Station'
    BY <2>2, Heads DEF Station, Idle, Own
  <2> QED BY <2>1, <2>3 DEF SettingsInv, Unfinished, Complete
<1> QED BY <1>1, <1>2

\* RAM is marked after the station came up with its network; a network that is sent comes while nothing is complete.
LEMMA SettingsByWalker ==
    ASSUME EasyLinkAssumption, TypeInv, ListsInv, WalkInv, StageInv, TokenInv, SettingsInv, Link(WalkerStep)
    PROVE  SettingsInv'
<1>1. UNCHANGED <<thread, wlan, joined, up, late, crossed, unread, timer>>
  BY WalkerSteps DEF Link
<1>2. Station' => Station
  BY WalkerSteps, NodesAre DEF Link, Station, Idle
<1>3. CASE UNCHANGED <<ram, flash>>
  BY <1>1, <1>2, <1>3 DEF SettingsInv, Unfinished, Complete
<1>4. CASE Mark
  <2>1. walker.at = "easylink" /\ flash' = flash /\ ram' = [ram EXCEPT !.configured = "allConfigured"]
    BY <1>4 DEF Mark, Set, WalkInv
  <2>2. ram'.net = ram.net
    BY <2>1 DEF TypeInv, Settings
  <2>3. ~late /\ ~crossed /\ ~unread => /\ ram.net \in joined /\ up
                             /\ wlan.does \in {"joining", "joined"} /\ thread \notin {"reload", "markBack"}
    BY <2>1 DEF Station, SettingsInv, TokenInv, Ending
  <2> QED BY <1>1, <1>2, <2>1, <2>2, <2>3 DEF SettingsInv, Unfinished, Complete
<1>5. CASE StoreUp
  <2>1. walker.at = "easylink" /\ flash' = ram /\ ram' = ram
    BY <1>5 DEF StoreUp, Store, WalkInv
  <2>2. ~late /\ ~crossed /\ ~unread => up /\ thread \notin {"reload", "markBack"}
    BY <2>1 DEF Station, TokenInv, Ending
  <2> QED BY <1>1, <1>2, <2>1, <2>2 DEF SettingsInv, Unfinished, Complete
<1>6. CASE TakeSsid
  <2>1. walker.at = "gotSsid" /\ walker.step = "call" /\ walker.event # NoNetwork
        /\ flash' = flash /\ ram' = [ram EXCEPT !.net = walker.event]
    BY <1>6 DEF TakeSsid, At, Set
  <2>2. ram'.net = walker.event /\ ram'.configured = ram.configured
    BY <2>1 DEF TypeInv, Settings
  <2>3. ~late /\ ~crossed /\ ~unread => thread = "wait" /\ ~up /\ wlan.does # "joining" /\ ~Station
    BY <2>1 DEF Result, Station, TokenInv, StageInv, Ending
  <2> QED BY <1>1, <1>2, <2>1, <2>2, <2>3 DEF SettingsInv, Unfinished, Complete, Early
<1> QED BY <1>3, <1>4, <1>5, <1>6 DEF Link, WalkerStep, WalkOn, CallStatus, TakeResult, SetSem, deviceVars

\* The thread goes back to settings that had been joined, and goes on only with nothing complete.
LEMMA SettingsByThread ==
    ASSUME NetworkAssumption, TypeInv, ListsInv, StageInv, TokenInv, SettingsInv, Link(EasyLinkStep) PROVE SettingsInv'
<1>0. UNCHANGED <<walker, timer>>
  <2>1. CASE Start \/ Exit \/ Deinit
    BY <2>1 DEF Link, Start, RegisterOwn, Exit, RemoveOwn, Deinit, notifyVars
  <2> QED BY <2>1, ThreadGoes DEF Link
<1>1. CASE Start
  <2>1. /\ UNCHANGED <<flash, wlan, joined, up, late, crossed, unread>> /\ thread = "start" /\ thread' \in {"storeBypass", "restart"}
        /\ ram' \in {ram, [ram EXCEPT !.bypass = "NO"]}
    BY <1>1 DEF Start, Set, deviceVars
  <2>2. ram'.net = ram.net /\ ram'.configured = ram.configured
    BY <2>1 DEF TypeInv, Settings
  <2> QED BY <1>0, <2>1, <2>2 DEF SettingsInv, Unfinished, Complete, Early, Station
<1>2. CASE StoreBypass \/ StoreBack
  BY <1>0, <1>2 DEF StoreBypass, StoreBack, Store, ThreadUnchanged, SettingsInv, Unfinished, Complete, Early, Station
<1>3. CASE ConnectFast \/ ConnectNormal
  <2>1. UNCHANGED <<ram, flash, joined, late, crossed, unread>> /\ ~up' /\ wlan'.does = "joining" /\ wlan'.net = ram.net
        /\ (thread' = "exit" \/ (thread = "connect" /\ thread' = "joining"))
    BY <1>3 DEF ConnectFast, ConnectNormal, Connect, Wlan, ThreadUnchanged, deviceVars
  <2>2. ~late => (thread = "connect" => ~up)
    BY DEF TokenInv, Ending
  <2> QED BY <1>0, <2>1, <2>2 DEF SettingsInv, Unfinished, Complete, Early, Station
<1>4. CASE Restart
  <2>1. UNCHANGED <<ram, flash, joined, up, late, crossed, unread>> /\ thread = "restart" /\ thread' \in {"decide", "wait"}
        /\ (wlan' = wlan \/ wlan'.does = "easylink")
    BY <1>4 DEF Restart, Wlan, ThreadUnchanged, deviceVars
  <2> QED BY <1>0, <2>1 DEF SettingsInv, Unfinished, Complete, Early, Station
<1>5. CASE Wait
  BY <1>0, <1>5 DEF Wait, ThreadUnchanged, deviceVars, SettingsInv, Unfinished, Complete, Early, Station
<1>6. CASE Decide
  <2>1. UNCHANGED <<ram, flash, joined, up, late, crossed, unread, wlan>> /\ thread = "decide"
        /\ thread' \in {"connect", "softAP", "reload", "wlanOff"} /\ (thread' = "reload" => ram.configured # "unConfigured")
    BY <1>6 DEF Decide, ThreadUnchanged, deviceVars
  <2>2. ~late => ~up
    BY <2>1 DEF TokenInv, Ending
  <2> QED BY <1>0, <2>1, <2>2 DEF SettingsInv, Unfinished, Complete, Early, Station
<1>7. CASE Joined \/ WaitSoftAP
  <2>1. UNCHANGED <<ram, flash, wlan, joined, up, late, crossed, unread>> /\ thread' = "exit"
    BY <1>7 DEF Joined, WaitSoftAP, Report, ThreadUnchanged, deviceVars
  <2> QED BY <1>0, <2>1 DEF SettingsInv, Unfinished, Complete, Early, Station
<1>8. CASE TimeOut
  <2>1. UNCHANGED <<ram, flash, joined, up, crossed, unread>> /\ late' = (late \/ up) /\ thread = "joining" /\ thread' = "restart"
        /\ wlan'.does = "nothing"
    BY <1>8 DEF TimeOut, WlanIdle, ThreadUnchanged, deviceVars
  <2> QED BY <1>0, <2>1 DEF SettingsInv, Unfinished, Complete, Early, Station
<1>9. CASE StartSoftAP
  <2>1. UNCHANGED <<ram, flash, joined, late, crossed, unread>>
        /\ thread = "softAP" /\ thread' \in {"softAPwait", "exit"} /\ wlan'.does = "softAP"
    BY <1>9 DEF StartSoftAP, Wlan, ThreadUnchanged, deviceVars
  <2>2. ~late => ~up
    BY <2>1 DEF TokenInv, Ending
  <2> QED BY <1>0, <2>1, <2>2 DEF SettingsInv, Unfinished, Complete, Early, Station
<1>10. CASE Reload
  <2>1. /\ UNCHANGED <<flash, wlan, joined, up, late, crossed>> /\ thread = "reload" /\ thread' = "markBack"
        /\ unread' \/ (ram' = flash /\ unread' = unread)
    BY <1>10 DEF Reload
  <2>2. ~late => ~up /\ ~Station /\ wlan.does \notin {"joining", "softAP"}
    BY <2>1 DEF TokenInv, StageInv, Ending
  <2>3. NoNetwork \notin joined
    BY DEF TypeInv, NetworkAssumption
  <2> QED BY <1>0, <2>1, <2>2, <2>3 DEF SettingsInv, Unfinished, Complete, Early, Station
<1>11. CASE MarkBack
  <2>1. UNCHANGED <<flash, wlan, joined, up, late, crossed, unread>> /\ ram' = [ram EXCEPT !.configured = "allConfigured"]
        /\ thread = "markBack" /\ thread' = "storeBack"
    BY <1>11 DEF MarkBack, Set, ThreadUnchanged
  <2>2. ~late => ~Station /\ wlan.does \notin {"joining", "softAP"}
    BY <2>1 DEF TokenInv, StageInv, Ending
  <2>3. ram'.net = ram.net
    BY <2>1 DEF TypeInv, Settings
  <2> QED BY <1>0, <2>1, <2>2, <2>3 DEF SettingsInv, Unfinished, Complete, Early, Station
<1>12. CASE WlanOff
  <2>1. UNCHANGED <<ram, flash, joined, up, late, crossed, unread>> /\ thread' = "exit" /\ wlan'.does = "nothing"
    BY <1>12 DEF WlanOff, WlanIdle, ThreadUnchanged, deviceVars
  <2> QED BY <1>0, <2>1 DEF SettingsInv, Unfinished, Complete, Early, Station
<1>13. CASE Exit \/ Deinit
  BY <1>0, <1>13 DEF Exit, Deinit, ExitUnchanged, deviceVars, SettingsInv, Unfinished, Complete, Early, Station
<1> QED BY <1>1, <1>2, <1>3, <1>4, <1>5, <1>6, <1>7, <1>8, <1>9, <1>10, <1>11, <1>12, <1>13 DEF Link, EasyLinkStep

\* Clients write over the soft AP, when nothing is complete, or cross another request.
LEMMA SettingsByClient ==
    ASSUME TypeInv, StageInv, TokenInv, SettingsInv, NEW c \in Clients, Link(Request(c)) \/ Link(ClientStep(c))
    PROVE  SettingsInv'
<1>1. UNCHANGED <<walker, thread, joined, up, late, unread, timer>>
  BY DEF Link, Request, ClientStep, EditUAP, RefuseUAP, StoreUAP, ConnectUAP, ClientUnchanged, notifyVars
<1>2. thread \notin Early
  BY DEF Link, Request, ClientStep, EditUAP, RefuseUAP, StoreUAP, ConnectUAP, ClientGoes, StageInv, Ending, Early
<1>3. CASE Request(c) \/ StoreUAP(c)
  BY <1>1, <1>2, <1>3 DEF Request, StoreUAP, Store, deviceVars, SettingsInv, Complete, Station, Early
<1>6. CASE RefuseUAP(c)
  <2>1. UNCHANGED <<flash, wlan, crossed>> /\ ram' = [ram EXCEPT !.bypass = "NO"]
    BY <1>6 DEF RefuseUAP, Set
  <2>2. ram'.configured = ram.configured /\ ram'.net = ram.net
    BY <2>1 DEF TypeInv, Settings
  <2> QED BY <1>1, <1>2, <2>1, <2>2 DEF SettingsInv, Complete, Station, Early
<1>4. CASE EditUAP(c)
  <2>1. UNCHANGED <<flash, wlan>> /\ ram' = [ram EXCEPT !.net = Wish[c], !.bypass = "NO"]
        /\ crossed' = (crossed \/ wlan.does # "softAP")
    BY <1>4 DEF EditUAP
  <2>2. ram'.configured = ram.configured
    BY <2>1 DEF TypeInv, Settings
  <2>3. ~late => (wlan.does = "softAP" => ~Station)
    BY DEF TokenInv
  <2> QED BY <1>1, <1>2, <2>1, <2>2, <2>3 DEF SettingsInv, Complete, Station, Early
<1>5. CASE ConnectUAP(c)
  <2>1. UNCHANGED <<ram, flash, crossed>> /\ wlan'.does = "joining" /\ wlan'.net = ram.net
    BY <1>5 DEF ConnectUAP, Connect, Wlan, deviceVars
  <2> QED BY <1>1, <1>2, <2>1 DEF SettingsInv, Complete, Station, Early
<1> QED BY <1>3, <1>4, <1>5, <1>6 DEF Link, ClientStep

\* A restore leaves nothing complete, a click unmarks what it finds, and what is stored was in RAM.
LEMMA SettingsByOthers ==
    ASSUME TypeInv, StageInv, TokenInv, SettingsInv, EasyLinkKept,
           Button \/ Power(Click) \/ Power(StandbyClick) \/ Power(TimerStep) \/ Daemon
    PROVE  SettingsInv'
<1>0. UNCHANGED <<walker, thread, wlan, joined, up, late, unread>>
  BY DEF EasyLinkKept, notifyVars
<1> USE <1>0 DEF SettingsInv, Unfinished, Complete, Station, Early
<1>1. CASE Button
  <2>1. flash' = flash /\ ram' = Defaults /\ crossed' = (crossed \/ Completing) /\ timer' = "store"
    BY <1>1 DEF Button, LongPress
  <2>2. CASE Completing
    BY <2>1, <2>2
  <2>3. CASE ~Completing
    <3>1. wlan.does \notin {"joining", "joined"} /\ walker.at = "null" /\ thread \notin {"reload", "markBack"}
      BY <2>3 DEF Completing, Idle
    <3> QED BY <2>1, <3>1 DEF Defaults
  <2> QED BY <2>2, <2>3
<1>2. CASE Power(Click)
  <2>1. UNCHANGED <<flash, crossed, timer>> /\ timer = "out" /\ ram' = Clicked(ram)
    BY <1>2 DEF Power, linkVars, Click, Unpressed
  <2>2. ram'.net = ram.net
        /\ ram'.configured = IF ram.configured = "allConfigured" THEN "wLanUnConfigured" ELSE ram.configured
    BY <2>1 DEF Clicked, TypeInv, Settings
  <2> QED BY <2>1, <2>2
<1>3. CASE Power(StandbyClick)
  <2>1. UNCHANGED <<ram, flash, timer, crossed>>
    BY <1>3 DEF Power, linkVars, StandbyClick, deviceVars
  <2> QED BY <2>1
<1>4. CASE Power(TimerStep)
  <2>1. CASE TimerStore
    BY <1>4, <2>1 DEF Power, linkVars, TimerStore, Store
  <2>2. CASE TimerPerform
    BY <1>4, <2>2 DEF Power, linkVars, TimerPerform, deviceVars
  <2> QED BY <1>4, <2>1, <2>2 DEF Power, TimerStep
<1>5. CASE Daemon
  <2>1. CASE TakeRequest \/ PowerOff
    <3>1. UNCHANGED <<ram, flash, timer>> /\ (crossed => crossed')
      BY <1>5, <2>1 DEF Daemon, TakeRequest, PowerOff, deviceVars, powerVars
    <3> QED BY <3>1
  <2>2. CASE DaemonUpdate
    <3>1. /\ ram' = ram /\ flash' = ram /\ timer' = timer
          /\ ~crossed' => ~crossed /\ ram.net \in joined \cup {NoNetwork}
      BY <1>5, <2>2 DEF Daemon, DaemonUpdate, Store
    <3> QED BY <3>1
  <2> QED BY <1>5, <2>1, <2>2 DEF Daemon, DaemonStep
<1> QED BY <1>1, <1>2, <1>3, <1>4, <1>5

\* Every step keeps it.
LEMMA SettingsKept ==
    ASSUME NetworkAssumption, EasyLinkAssumption, TypeInv, ListsInv, WalkInv, StageInv, TokenInv, SettingsInv, [Next]_vars
    PROVE  SettingsInv'
<1>1. CASE UNCHANGED vars
  BY <1>1 DEF vars, deviceVars, notifyVars, linkVars, powerVars, SettingsInv, Unfinished, Complete, Station
<1> QED BY <1>1, SettingsByWlan, SettingsByWalker, SettingsByThread, SettingsByClient, SettingsByOthers, Steps
-----------------------------------------------------------------------------
(* A click of the button *)

\* A device that is on again with these settings starts provisioning.
Clean(settings) == settings.configured # "allConfigured" /\ settings.bypass = "NO"

\* What a click has changed in RAM is on flash, or the daemon has it still to store; a device that is
\* off has gone through the daemon.
ClickInv ==
    /\ click = "made" => Clean(ram) /\ (Clean(flash) \/ (needsUpdate /\ daemon \in {"wait", "update"}))
    /\ power # "on" => daemon \in {"reset", "standby"}

\* What EasyLink's threads write in RAM undoes a click, or leaves it as it is; what they store is in RAM.
LEMMA LinkWrites ==
    ASSUME EasyLinkAssumption, TypeInv,
           \/ Link(WlanEvent) \/ Link(WalkerStep) \/ Link(EasyLinkStep)
           \/ \E c \in Clients : Link(Request(c)) \/ Link(ClientStep(c))
    PROVE  /\ UNCHANGED <<current, sysToken, needsUpdate, daemon, timer, asked, power>>
           /\ flash' \in {ram, flash}
           /\ click' = "made" => click = "made" /\ (Clean(ram) => Clean(ram'))
<1>0. UNCHANGED <<current, sysToken, needsUpdate, daemon, timer, asked>>
      /\ click' = IF click = "made" /\ ram' # ram /\ Undoing THEN "undone" ELSE click
  BY DEF Link
<1> SUFFICES UNCHANGED power /\ flash' \in {ram, flash} /\ (Undoing \/ (Clean(ram) => Clean(ram')))
  BY <1>0
<1>1. CASE WlanEvent
  BY <1>1 DEF WlanEvent, GotSsid, GaveUp, GotData, StationUp, WlanUnchanged, deviceVars
<1>2. CASE WalkerStep
  <2>1. CASE Mark
    <3>1. UNCHANGED <<flash, power>> /\ ram'.configured = "allConfigured"
      BY <2>1 DEF Mark, Set, TypeInv, Settings
    <3> QED BY <3>1 DEF Undoing
  <2>2. CASE TakeSsid
    <3>1. UNCHANGED <<flash, power>> /\ ram' = [ram EXCEPT !.net = walker.event]
      BY <2>2 DEF TakeSsid, Set
    <3>2. ram'.configured = ram.configured /\ ram'.bypass = ram.bypass
      BY <3>1 DEF TypeInv, Settings
    <3> QED BY <3>1, <3>2 DEF Clean
  <2>3. CASE CallStatus \/ StoreUp \/ TakeResult \/ SetSem \/ WalkOn
    BY <2>3 DEF CallStatus, StoreUp, Store, TakeResult, SetSem, WalkOn, deviceVars
  <2> QED BY <1>2, <2>1, <2>2, <2>3 DEF WalkerStep
<1>3. CASE EasyLinkStep
  <2>1. CASE Start
    <3>1. UNCHANGED <<flash, power>> /\ ram' \in {ram, [ram EXCEPT !.bypass = "NO"]}
      BY <2>1 DEF Start, Set, deviceVars
    <3>2. ram'.configured = ram.configured /\ ram'.bypass \in {ram.bypass, "NO"}
      BY <3>1 DEF TypeInv, Settings
    <3> QED BY <3>1, <3>2 DEF Clean
  <2>2. CASE Reload
    BY <2>2 DEF Reload, Undoing
  <2>3. CASE MarkBack
    <3>1. UNCHANGED <<flash, power>> /\ ram'.configured = "allConfigured"
      BY <2>3 DEF MarkBack, Set, TypeInv, Settings
    <3> QED BY <3>1 DEF Undoing
  <2>4. CASE StoreBypass \/ StoreBack
    BY <2>4 DEF StoreBypass, StoreBack, Store
  <2>5. CASE ConnectFast \/ Restart \/ Wait \/ Decide \/ ConnectNormal \/ Joined
    BY <2>5 DEF ConnectFast, Restart, Wait, Decide, ConnectNormal, Joined, deviceVars
  <2>6. CASE TimeOut \/ StartSoftAP \/ WaitSoftAP \/ WlanOff \/ Exit \/ Deinit
    BY <2>6 DEF TimeOut, StartSoftAP, WaitSoftAP, WlanOff, Exit, Deinit, ExitUnchanged, deviceVars
  <2> QED BY <1>3, <2>1, <2>2, <2>3, <2>4, <2>5, <2>6 DEF EasyLinkStep
<1>4. ASSUME NEW c \in Clients, Request(c) \/ ClientStep(c)
      PROVE  UNCHANGED power /\ flash' \in {ram, flash} /\ (Undoing \/ (Clean(ram) => Clean(ram')))
  <2>1. CASE EditUAP(c)
    <3>1. UNCHANGED <<flash, power>> /\ ram' = [ram EXCEPT !.net = Wish[c], !.bypass = "NO"]
      BY <2>1 DEF EditUAP
    <3>2. ram'.configured = ram.configured /\ ram'.bypass = "NO"
      BY <3>1 DEF TypeInv, Settings
    <3> QED BY <3>1, <3>2 DEF Clean
  <2>3. CASE RefuseUAP(c)
    <3>1. UNCHANGED <<flash, power>> /\ ram' = [ram EXCEPT !.bypass = "NO"]
      BY <2>3 DEF RefuseUAP, Set
    <3>2. ram'.configured = ram.configured /\ ram'.bypass = "NO"
      BY <3>1 DEF TypeInv, Settings
    <3> QED BY <3>1, <3>2 DEF Clean
  <2>2. CASE Request(c) \/ StoreUAP(c) \/ ConnectUAP(c)
    BY <2>2 DEF Request, StoreUAP, ConnectUAP, Store, deviceVars
  <2> QED BY <1>4, <2>1, <2>2, <2>3 DEF ClientStep
<1> QED BY <1>1, <1>2, <1>3, <1>4 DEF Link

\* The daemon goes on to the change of state only with nothing left to store.
LEMMA ClickKept == ASSUME EasyLinkAssumption, TypeInv, PowerTypeOK, ClickInv, [Next]_vars PROVE ClickInv'
<1>0. UNCHANGED vars \/ power = "on"
  BY DEF Next, Running
<1>1. CASE \/ Link(WlanEvent) \/ Link(WalkerStep) \/ Link(EasyLinkStep)
           \/ \E c \in Clients : Link(Request(c)) \/ Link(ClientStep(c))
  BY <1>1, LinkWrites DEF ClickInv
<1>2. CASE Button \/ Power(StandbyClick)
  <2>1. UNCHANGED <<flash, power, needsUpdate, daemon, click>> /\ (ram' = ram \/ click = "no")
    BY <1>2 DEF Button, LongPress, Unpressed, Power, StandbyClick, deviceVars
  <2> QED BY <2>1 DEF ClickInv
<1>3. CASE Power(Click) /\ power = "on"
  <2>1. UNCHANGED <<flash, power, daemon>> /\ ram' = Clicked(ram) /\ needsUpdate' = (needsUpdate \/ Clicked(ram) # ram)
        /\ click' = IF Missed THEN "missed" ELSE "made"
    BY <1>3 DEF Power, Click
  <2>2. Clean(Clicked(ram)) /\ Clean(Clicked(flash))
    BY DEF Clean, Clicked, TypeInv, Settings
  <2>3. click' = "made" => daemon \in {"wait", "update"} /\ (Clicked(ram) # ram \/ Clicked(flash) = flash)
    BY <2>1 DEF Missed
  <2>4. click' = "made" => Clean(ram') /\ (Clean(flash') \/ (needsUpdate' /\ daemon' \in {"wait", "update"}))
    <3>1. CASE Clicked(ram) # ram
      <4>1. needsUpdate' = TRUE
        BY <2>1, <3>1
      <4> QED BY <2>1, <2>2, <2>3, <4>1
    <3>2. CASE Clicked(ram) = ram
      BY <2>1, <2>2, <2>3, <3>2
    <3> QED BY <3>1, <3>2
  <2> QED BY <1>3, <2>1, <2>4 DEF ClickInv
<1>4. CASE Power(TimerStep)
  <2>1. UNCHANGED <<ram, power, needsUpdate, daemon, click>> /\ flash' \in {ram, flash}
    BY <1>4 DEF Power, TimerStep, TimerStore, TimerPerform, Store, deviceVars
  <2> QED BY <2>1 DEF ClickInv
<1>5. CASE Daemon /\ power = "on"
  <2>1. CASE TakeRequest
    <3>1. UNCHANGED <<ram, flash, power, needsUpdate, click>> /\ daemon' = IF needsUpdate THEN "update" ELSE Look
      BY <2>1 DEF TakeRequest, deviceVars
    <3> QED BY <1>5, <3>1 DEF ClickInv
  <2>2. CASE DaemonUpdate
    BY <1>5, <2>2 DEF DaemonUpdate, Store, ClickInv
  <2>3. CASE PowerOff
    <3>1. UNCHANGED <<ram, flash, needsUpdate, daemon, click>> /\ daemon \in {"reset", "standby"}
      BY <2>3 DEF PowerOff, powerVars
    <3> QED BY <3>1 DEF ClickInv
  <2> QED BY <1>5, <2>1, <2>2, <2>3 DEF Daemon, DaemonStep
<1>6. CASE UNCHANGED vars
  BY <1>6 DEF vars, deviceVars, powerVars, ClickInv
<1> QED BY <1>0, <1>1, <1>2, <1>3, <1>4, <1>5, <1>6, Steps

\* A request is one of the states a device goes off to, and the daemon goes where it was sent.
LEMMA PowerTypes == ASSUME PowerTypeOK, [Next]_vars PROVE PowerTypeOK'
<1>1. CASE UNCHANGED <<current, sysToken, needsUpdate, daemon, timer, asked>> /\ (click' = click \/ click' = "undone")
  BY <1>1 DEF PowerTypeOK
<1>2. CASE \/ Link(WlanEvent) \/ Link(WalkerStep) \/ Link(EasyLinkStep)
           \/ \E c \in Clients : Link(Request(c)) \/ Link(ClientStep(c))
  BY <1>1, <1>2 DEF Link
<1>3. CASE Button
  BY <1>3 DEF Button, LongPress, PowerTypeOK
<1>4. CASE Power(Click)
  <2>1. needsUpdate' \in BOOLEAN
    <3>1. (Clicked(ram) # ram) \in BOOLEAN
      OBVIOUS
    <3> QED BY <1>4, <3>1, Zenon DEF Power, Click, PowerTypeOK
  <2>2. /\ UNCHANGED <<daemon, timer>> /\ current' = "reset" /\ sysToken' = 1 /\ asked' = asked \cup {"reset"}
        /\ click' \in {"missed", "made"}
    BY <1>4 DEF Power, Click, Perform
  <2> QED BY <2>1, <2>2 DEF PowerTypeOK
<1>5. CASE Power(StandbyClick)
  BY <1>5 DEF Power, StandbyClick, Perform, PowerTypeOK
<1>6. CASE Power(TimerStep)
  <2>1. CASE TimerStore
    BY <2>1 DEF TimerStore, PowerTypeOK
  <2>2. CASE TimerPerform
    BY <2>2 DEF TimerPerform, PowerTypeOK
  <2> QED BY <1>6, <2>1, <2>2 DEF Power, TimerStep
<1>7. CASE Daemon
  <2>1. CASE TakeRequest
    BY <2>1 DEF TakeRequest, Look, PowerTypeOK, DaemonSteps
  <2>2. CASE DaemonUpdate
    BY <2>2 DEF DaemonUpdate, Look, PowerTypeOK, DaemonSteps
  <2>3. CASE PowerOff
    BY <2>3 DEF PowerOff, powerVars, PowerTypeOK
  <2> QED BY <1>7, <2>1, <2>2, <2>3 DEF Daemon, DaemonStep
<1>8. CASE UNCHANGED vars
  BY <1>1, <1>8 DEF vars, powerVars
<1> QED BY <1>2, <1>3, <1>4, <1>5, <1>6, <1>7, <1>8, Steps
-----------------------------------------------------------------------------
(* Theorems *)

IInv ==
    /\ TypeInv /\ ListsInv /\ WalkInv /\ StageInv
    /\ TokenInv /\ SuccessMeansJoined
    /\ SettingsInv
    /\ PowerTypeOK /\ ClickInv

\* The types, the lists and the walker's place together are inductive.
LEMMA TypesKept == ASSUME NetworkAssumption, EasyLinkAssumption, TypeInv, ListsInv, WalkInv, [Next]_vars PROVE TypeInv'
<1>1. CASE UNCHANGED vars
  BY <1>1 DEF vars, deviceVars, notifyVars, linkVars, TypeInv
<1> QED BY <1>1, WlanTypes, WalkerTypes, ThreadTypes, ClientTypes, OtherTypes, Steps DEF Link

\* A device that starts provisioning has nothing complete, and nothing runs yet.
LEMMA Begins == ASSUME NetworkAssumption, DeviceAssumption, Init PROVE IInv
<1>1. PICK d \in Devices : mode = d.mode /\ DeviceInit(d.settings)
  BY DEF Init
<1>2. /\ mode \in Modes /\ ram \in Settings /\ flash = ram /\ power = "on"
      /\ ram.configured = IF ram.net = NoNetwork THEN "unConfigured" ELSE "wLanUnConfigured"
  BY <1>1 DEF DeviceAssumption, DeviceInit
<1>3. /\ head = [list \in Lists |-> IF list = "status" THEN "system" ELSE "null"]
      /\ next = [n \in Nodes |-> "null"] /\ nodes = {"system"} /\ walker = Idle /\ stray = {} /\ removed = {}
      /\ success = FALSE /\ token = 0 /\ sem = "none" /\ thread = "start"
      /\ client = [c \in Clients |-> "out"] /\ wlan = WlanIdle /\ joined = {ram.net} \ {NoNetwork}
      /\ up = FALSE /\ late = FALSE /\ crossed = FALSE /\ unread = FALSE /\ reported = "no"
  BY DEF Init, EasyLinkInit, NotifyInit
<1>4. /\ current = "normal" /\ sysToken = 0 /\ needsUpdate = FALSE
      /\ daemon = "wait" /\ timer = "out" /\ asked = {} /\ click = "no"
  BY DEF Init, PowerInit
<1>5. TypeInv
  <2>1. walker \in WalkerRecords /\ wlan \in WlanRecords
    BY <1>3 DEF Idle, WlanIdle, WalkerRecords, WlanRecords
  <2>2. joined \subseteq Networks
    BY <1>2, <1>3 DEF Settings
  <2> QED BY <1>2, <1>3, <2>1, <2>2 DEF TypeInv, ThreadSteps
<1>6. ListsInv
  BY <1>3 DEF ListsInv, Listed
<1>7. WalkInv
  BY <1>3, NodesAre DEF WalkInv, StrayIsInCallback, Idle
<1>8. StageInv /\ TokenInv /\ SuccessMeansJoined
  BY <1>3 DEF StageInv, TokenInv, SuccessMeansJoined, WlanIdle, Idle, Searching, Found, Result, Station
<1>9. SettingsInv
  BY <1>2, <1>3, <1>4 DEF SettingsInv, Unfinished, Complete, Station, Idle, WlanIdle
<1>10. PowerTypeOK /\ ClickInv
  BY <1>2, <1>4 DEF PowerTypeOK, ClickInv, DaemonSteps
<1> QED BY <1>5, <1>6, <1>7, <1>8, <1>9, <1>10 DEF IInv

\* The inductive invariant, in every reachable state.
LEMMA Invariant == ASSUME NetworkAssumption, EasyLinkAssumption, DeviceAssumption PROVE Spec => []IInv
<1>1. Init => IInv
  BY Begins
<1>2. IInv /\ [Next]_vars => IInv'
  BY TypesKept, ListsKept, WalkKept, StageKept, TokenKept, ReportKept, SettingsKept, PowerTypes, ClickKept DEF IInv
<1> QED BY <1>1, <1>2, PTL DEF Spec

\* What EasyLink, its clients and the daemon write has its type, and EasyLink's semaphore is destroyed
\* by the end of its thread and by nothing before.
THEOREM ProvisioningTypes == Spec => []ProvisioningTypeOK
<1>1. IInv => ProvisioningTypeOK
  <2> SUFFICES ASSUME IInv PROVE ProvisioningTypeOK
    OBVIOUS
  <2>1. walker.at \in {"null"} \cup Nodes
    BY DEF IInv, TypeInv, WalkerRecords
  <2>2. wlan.does \in {"nothing", "easylink", "gotSsid", "joining", "joined", "softAP"}
        /\ wlan.net \in Networks \cup {NoNetwork}
    BY DEF IInv, TypeInv, WlanRecords
  <2>3. sem = "destroyed" <=> thread = "done"
    BY DEF IInv, ListsInv
  <2> QED BY <2>1, <2>2, <2>3 DEF IInv, TypeInv, ProvisioningTypeOK, EasyLinkTypeOK
<1> QED BY <1>1, Invariant, NetworkAssumption, EasyLinkAssumption, DeviceAssumption, PTL

\* What the flash calls complete names a network that the device has joined, whoever wrote, marked and
\* stored it, but for the exceptions that the property names: settings of before that could not be read
\* again are one of them.
THEOREM CompleteHasJoined == Spec => []StoredHasJoined
<1>1. IInv => StoredHasJoined
  BY DEF IInv, TypeInv, SettingsInv, Complete, StoredHasJoined
<1> QED BY <1>1, Invariant, NetworkAssumption, EasyLinkAssumption, DeviceAssumption, PTL

\* One semaphore tells EasyLink's thread everything, and yet success is reported only with the station
\* up, or after a wait for it timed out as it came up.
THEOREM SuccessWhenUp == Spec => []SuccessMeansJoined
BY Invariant, NetworkAssumption, EasyLinkAssumption, DeviceAssumption, PTL DEF IInv

\* Nothing freed is used, in lists without a lock, unless a node was removed while it was called.
THEOREM ListsAreSafe == Spec => []StrayIsInCallback
BY Invariant, NetworkAssumption, EasyLinkAssumption, DeviceAssumption, PTL DEF IInv, WalkInv

\* A click of the button that is not missed or undone is on flash when the device goes off.
THEOREM ClickTakesEffect == Spec => []ClickSurvives
<1>1. IInv => ClickSurvives
  BY DEF IInv, ClickInv, ClickSurvives, Clean
<1> QED BY <1>1, Invariant, NetworkAssumption, EasyLinkAssumption, DeviceAssumption, PTL
=============================================================================
