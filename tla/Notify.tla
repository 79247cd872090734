--------------------------------- MODULE Notify ---------------------------------
(***************************************************************************)
(* mico_system_notification.c: a linked list of callbacks for each kind of *)
(* event.  The WLAN library's thread walks a list, calling each node's     *)
(* function and reading its next afterwards, while other threads register  *)
(* and remove nodes; there is no lock.                                     *)
(***************************************************************************)

VARIABLES head,    \* Notify_list[...]
          next,    \* each node's next
          nodes,   \* the nodes that are allocated
          walker,  \* the WLAN library's thread: the event, the node it is at, its step there
          stray,   \* history: what was used after it had been freed
          removed  \* history: the nodes unlinked while the walker was at them

notifyVars == <<head, next, nodes, walker, stray, removed>>

Lists == {"status", "complete", "extra"}  \* WIFI_STATUS_CHANGED, EASYLINK_WPS_COMPLETED, EASYLINK_GET_EXTRA_DATA

\* One function per list registers after the system's own.
Own(list) == CASE list = "status" -> "easylink" [] list = "complete" -> "gotSsid" [] OTHER -> "gotData"
OwnNodes == {Own(list) : list \in Lists}
Nodes == {"system"} \cup OwnNodes

Idle == [event |-> "none", at |-> "null", step |-> "idle"]

\* system_notification_init
NotifyInit ==
    /\ head = [list \in Lists |-> IF list = "status" THEN "system" ELSE "null"]
    /\ next = [n \in Nodes |-> "null"]
    /\ nodes = {"system"}
    /\ walker = Idle
    /\ stray = {} /\ removed = {}

\* mico_system_notify_register of EasyLink's three functions: each at the end of its list.
RegisterOwn ==
    /\ head' = [head EXCEPT !["complete"] = Own("complete"), !["extra"] = Own("extra")]
    /\ next' = [next EXCEPT !["system"] = Own("status")]
    /\ nodes' = Nodes
    /\ UNCHANGED <<walker, stray, removed>>

\* Mutant: the nodes are freed where they are.
RemoveLinked ==
    /\ nodes' = {"system"}
    /\ removed' = removed \cup ({walker.at} \cap OwnNodes)
    /\ UNCHANGED <<head, next, walker, stray>>

\* mico_system_notify_remove of the three, each from its list: unlinked and freed.
RemoveOwn ==
    /\ head' = [list \in Lists |-> IF head[list] \in OwnNodes THEN next[head[list]] ELSE head[list]]
    /\ next' = [n \in Nodes |-> IF next[n] \in OwnNodes THEN next[next[n]] ELSE next[n]]
    /\ nodes' = nodes \ OwnNodes
    /\ removed' = removed \cup ({walker.at} \cap OwnNodes)
    /\ UNCHANGED <<walker, stray>>

\* WifiStatusHandler, RptConfigmodeRslt, easylink_user_data_result: an event, for whoever listens.
Notify(list, event) ==
    /\ walker = Idle
    /\ walker' = IF head[list] = "null" THEN Idle ELSE [event |-> event, at |-> head[list], step |-> "call"]
    /\ UNCHANGED <<head, next, nodes, stray, removed>>

Goto(step) == walker' = [walker EXCEPT !.step = step]

\* temp = temp->next; system_misc.c's own function drives a LED.
Follow ==
    /\ walker.at \in nodes
    /\ walker.step = "next" \/ walker.at = "system"
    /\ walker' = IF next[walker.at] = "null" THEN Idle
                 ELSE [walker EXCEPT !.at = next[walker.at], !.step = "call"]
    /\ UNCHANGED <<head, next, nodes, stray, removed>>

\* temp->function or temp->next of a node that has been freed.
ReadFreed ==
    /\ walker.at \in Nodes \ nodes /\ walker.step \in {"call", "next"}
    /\ stray' = stray \cup {"node"}
    /\ UNCHANGED <<head, next, nodes, walker, removed>>
=============================================================================
