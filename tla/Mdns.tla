---------------------------------- MODULE Mdns ----------------------------------
(***************************************************************************)
(* mico_mdns.c: a table of service records that several threads add,       *)
(* change, suspend and resume; an announcing thread that triggers the      *)
(* responder every 200 ms for as long as a record has announcements left;  *)
(* and the responder's thread, which sends them and removes records.       *)
(* bonjour_mutex keeps the changes apart; the look-up that precedes some   *)
(* of them and the announcing thread's scan do without it.                 *)
(*                                                                         *)
(* Left out: what goes over the wire, the answers to questions, and the    *)
(* start of the service, which the first call makes.                       *)
(***************************************************************************)
EXTENDS Naturals, FiniteSets, FiniteSetsExt

CONSTANTS Callers,        \* threads of the application and of the system
          Services,       \* service names
          Interfaces,     \* Station and Soft_AP
          RecordCount,    \* MAX_RECORD_COUNT
          Announcements,  \* count_down starts here, at 5
          MaxCalls        \* bound on the calls

ASSUME MdnsAssumption ==
    /\ {RecordCount, Announcements} \subseteq Nat \ {0}
    /\ MaxCalls \in Nat

VARIABLES records,    \* available_services
          trigger,    \* the semaphore update_state_sem, 0 or 1
          handler,    \* whether _bonjour_announce_handler is set
          announcer,  \* the announcing thread: its step and the record it looks at
          caller,     \* each caller's step, the record it found and what for
          calls,      \* number of calls so far
          overtaken,  \* history: a record was not what a look-up took it for when it was written
          stranded    \* history: a change was left to an announcing thread that had passed it by
                      \* or could not be started

vars == <<records, trigger, handler, announcer, caller, calls, overtaken, stranded>>

Ids == 1 .. RecordCount
Keys == Services \X Interfaces
States == {"removed", "remove", "suspend", "update", "normal"}

\* key: service name and interface; names: service, host and instance names; txt: txt_att.
\* "failed" is NULL too, where memory ran out.
NoRecord == [state |-> "removed", key |-> {}, count |-> 0, names |-> "none", txt |-> "none"]
Returned == [step |-> "out", id |-> 1, key |-> {}]

Init ==
    /\ records = [i \in Ids |-> NoRecord]
    /\ trigger = 0
    /\ handler = FALSE
    /\ announcer = [step |-> "none", id |-> 1]
    /\ caller = [c \in Callers |-> Returned]
    /\ calls = 0
    /\ overtaken = FALSE /\ stranded = FALSE

Live(r) == r.state \notin {"removed", "remove"}
Free == {i \in Ids : records[i].state = "removed"}
Bearing(k) == {i \in Ids : Live(records[i]) /\ records[i].key = {k}}

\* A caller holds bonjour_mutex from AddClear to AddWrite.
Unlocked == \A c \in Callers : caller[c].step # "write"
Writing(i) == {c \in Callers : caller[c].step = "write" /\ caller[c].id = i}

\* is_service_match of all records.  A name of NULL, here all Services, stands for any; a
\* record without its names, freed or never allocated, compares either way.
Matches(names, interface) ==
    LET here == names \X {interface}
        keys(i) == records[i].key \cup UNION {caller[c].key : c \in Writing(i)}
        sure == {i \in Ids : /\ Live(records[i]) /\ records[i].key # {} /\ records[i].key \subseteq here
                             /\ records[i].names = "set" \/ names = Services}
        maybe == {i \in Ids : /\ Live(records[i]) /\ records[i].names # "set"
                              /\ keys(i) = {} \/ \E k \in keys(i) : k[2] = interface}
    IN  {found \in SUBSET (sure \cup maybe) : sure \subseteq found}

Call == calls < MaxCalls /\ calls' = calls + 1
-----------------------------------------------------------------------------
(* What every change ends with: count_down is set, and an announcing       *)
(* thread started if there seems to be none; whether it starts is ignored. *)

\* The announcing thread is past the record, or about to end.
PassedBy(i) == announcer.step = "exit" \/ (announcer.step = "scan" /\ announcer.id > i)

Announce(changed) ==
    \/ /\ handler
       /\ stranded' = (stranded \/ \E i \in changed : PassedBy(i))
       /\ UNCHANGED <<handler, announcer>>
    \/ /\ ~handler /\ handler' = TRUE
       /\ announcer' = [step |-> "scan", id |-> 1]
       /\ UNCHANGED stranded
    \/ /\ ~handler /\ stranded' = TRUE
       /\ UNCHANGED <<handler, announcer>>
-----------------------------------------------------------------------------
(* mdns_add_record *)

\* find_record_by_service, else find_empty_record; with neither, kNoResourcesErr.
AddFind(c) ==
    \E k \in Keys : \E found \in Matches({k[1]}, k[2]) :
        /\ Call /\ caller[c].step = "out"
        /\ LET candidates == IF found # {} THEN found ELSE Free IN
           /\ candidates # {}
           /\ caller' = [caller EXCEPT ![c] = [step |-> "add", id |-> Min(candidates), key |-> {k}]]
        /\ UNCHANGED <<records, trigger, handler, announcer, overtaken, stranded>>

\* _clean_record_resource, of a record that stays in the state it was in.
AddClear(c) ==
    /\ caller[c].step = "add" /\ Unlocked
    /\ records' = [records EXCEPT ![caller[c].id].names = "none", ![caller[c].id].txt = "none"]
    /\ caller' = [caller EXCEPT ![c].step = "write"]
    /\ UNCHANGED <<trigger, handler, announcer, calls, overtaken, stranded>>

\* __strdup and malloc go unchecked.
Allocated == {"set", "failed"}

AddWrite(c) ==
    /\ caller[c].step = "write"
    /\ LET i == caller[c].id IN
       /\ \E names, txt \in Allocated :
             records' = [records EXCEPT ![i] = [state |-> "update", key |-> caller[c].key, count |-> Announcements,
                                                names |-> names, txt |-> txt]]
       /\ overtaken' = (overtaken \/ (records[i].state # "removed" /\ records[i].key # caller[c].key)
                                  \/ \E k \in caller[c].key : Bearing(k) \ {i} # {})
       /\ Announce({i})
    /\ caller' = [caller EXCEPT ![c] = Returned]
    /\ UNCHANGED <<trigger, calls>>
-----------------------------------------------------------------------------
(* mdns_update_txt_record *)

UpdateFind(c) ==
    \E k \in Keys : \E found \in Matches({k[1]}, k[2]) :
        /\ Call /\ caller[c].step = "out"
        /\ found # {}
        /\ caller' = [caller EXCEPT ![c] = [step |-> "update", id |-> Min(found), key |-> {k}]]
        /\ UNCHANGED <<records, trigger, handler, announcer, overtaken, stranded>>

\* Mutant: the text of the record itself is freed, after the new one is set.
UpdateWriteFreed(c) ==
    /\ caller[c].step = "update" /\ Unlocked
    /\ LET i == caller[c].id IN
       /\ records' = [records EXCEPT ![i].txt = "freed", ![i].state = "update", ![i].count = Announcements]
       /\ overtaken' = (overtaken \/ ~Live(records[i]) \/ records[i].key # caller[c].key)
       /\ Announce({i})
    /\ caller' = [caller EXCEPT ![c] = Returned]
    /\ UNCHANGED <<trigger, calls>>

\* If the record has a text, the first record's is freed: free(available_services->txt_att).
UpdateWrite(c) ==
    /\ caller[c].step = "update" /\ Unlocked
    /\ LET i == caller[c].id
           points == {"set", "freed"}
           freed == [records EXCEPT ![1].txt = IF records[i].txt \in points /\ @ \in points THEN "freed" ELSE @] IN
       /\ \E txt \in Allocated :
             records' = [freed EXCEPT ![i].txt = txt, ![i].state = "update", ![i].count = Announcements]
       /\ overtaken' = (overtaken \/ ~Live(records[i]) \/ records[i].key # caller[c].key)
       /\ Announce({i})
    /\ caller' = [caller EXCEPT ![c] = Returned]
    /\ UNCHANGED <<trigger, calls>>
-----------------------------------------------------------------------------
(* mdns_suspend_record and mdns_resume_record, by the application, the     *)
(* Wi-Fi status handler or the power-off handler: look-up and change under *)
(* the mutex.                                                              *)

NameArguments == {Services} \cup {{s} : s \in Services}

Change(changed, state) ==
    /\ Call /\ Unlocked
    /\ changed # {}
    /\ records' = [i \in Ids |-> IF i \in changed
                                 THEN [records[i] EXCEPT !.state = state, !.count = Announcements]
                                 ELSE records[i]]
    /\ Announce(changed)
    /\ UNCHANGED <<trigger, caller, overtaken>>

Suspend ==
    \E names \in NameArguments, interface \in Interfaces, state \in {"remove", "suspend"} :
        \E found \in Matches(names, interface) : Change(found, state)

\* Only the records before the first one that does not match.
Resume ==
    \E names \in NameArguments, interface \in Interfaces :
        \E found \in Matches(names, interface) :
            Change({i \in Ids : 1 .. i \subseteq found}, "update")
-----------------------------------------------------------------------------
(* _bonjour_send_anounce_thread *)

Announcing(r) == r.state # "removed" /\ r.count # 0

ScanRecord ==
    /\ announcer.step = "scan"
    /\ IF Announcing(records[announcer.id])
       THEN trigger' = 1 /\ announcer' = [step |-> "sleep", id |-> 1]
       ELSE /\ announcer' = IF announcer.id = RecordCount THEN [step |-> "exit", id |-> 1]
                            ELSE [announcer EXCEPT !.id = @ + 1]
            /\ UNCHANGED trigger
    /\ UNCHANGED <<records, handler, caller, calls, overtaken, stranded>>

ScanAgain ==
    /\ announcer.step = "sleep"
    /\ announcer' = [step |-> "scan", id |-> 1]
    /\ UNCHANGED <<records, trigger, handler, caller, calls, overtaken, stranded>>

\* Mutant: the thread ends and its handle stays set.
ExitHandled ==
    /\ announcer.step = "exit"
    /\ announcer' = [step |-> "none", id |-> 1]
    /\ UNCHANGED <<records, trigger, handler, caller, calls, overtaken, stranded>>

Exit ==
    /\ announcer.step = "exit"
    /\ handler' = FALSE
    /\ announcer' = [step |-> "none", id |-> 1]
    /\ UNCHANGED <<records, trigger, caller, calls, overtaken, stranded>>
-----------------------------------------------------------------------------
(* _bonjour_thread *)

\* Mutant: a removed record keeps its key and its state until it is used again.
SentUncleaned(r) ==
    CASE r.state = "remove" -> [r EXCEPT !.count = @ - 1]
      [] r.state = "suspend" /\ r.count > 0 -> [r EXCEPT !.count = @ - 1]
      [] r.state = "update" -> [r EXCEPT !.count = @ - 1, !.state = IF r.count = 1 THEN "normal" ELSE @]
      [] OTHER -> r

\* What becomes of a record that is sent once more.
Sent(r) ==
    CASE r.state = "remove" -> IF r.count = 1 THEN NoRecord ELSE [r EXCEPT !.count = @ - 1]
      [] r.state = "suspend" /\ r.count > 0 -> [r EXCEPT !.count = @ - 1]
      [] r.state = "update" -> [r EXCEPT !.count = @ - 1, !.state = IF r.count = 1 THEN "normal" ELSE @]
      [] OTHER -> r

Respond ==
    /\ trigger = 1 /\ Unlocked
    /\ trigger' = 0
    /\ records' = [i \in Ids |-> Sent(records[i])]
    /\ UNCHANGED <<handler, announcer, caller, calls, overtaken, stranded>>

CallerStep(c) == AddClear(c) \/ AddWrite(c) \/ UpdateWrite(c)
AnnouncerStep == ScanRecord \/ ScanAgain \/ Exit

Next ==
    \/ \E c \in Callers : AddFind(c) \/ UpdateFind(c) \/ CallerStep(c)
    \/ Suspend \/ Resume
    \/ AnnouncerStep
    \/ Respond

\* Calls need not be made; those begun go on, and both threads run.
Fairness ==
    /\ \A c \in Callers : WF_vars(CallerStep(c))
    /\ WF_vars(AnnouncerStep)
    /\ WF_vars(Respond)

Spec == Init /\ [][Next]_vars /\ Fairness
-----------------------------------------------------------------------------
(* Properties *)

MdnsTypeOK ==
    /\ records \in [Ids -> [state : States, key : {{}} \cup {{k} : k \in Keys}, count : 0 .. Announcements,
                            names : {"none"} \cup Allocated, txt : {"none", "freed"} \cup Allocated]]
    /\ trigger \in {0, 1}
    /\ handler = (announcer.step # "none")
    /\ announcer.step \in {"none", "scan", "sleep", "exit"} /\ announcer.id \in Ids
    /\ \A c \in Callers : caller[c].step \in {"out", "add", "write", "update"} /\ caller[c].id \in Ids
    /\ \A i \in Ids : (records[i].state \in {"remove", "update"} => records[i].count > 0)
                      /\ (records[i].state = "removed" => records[i].key = {} \/ overtaken)

\* A service has one live record per interface, and a record that is not removed, nor just being
\* written, was given its names, and its text unless it is the first one, whose text any update
\* frees (mico_mdns.c:607); as long as each record was what an unlocked look-up had taken it for
\* when it came to be written (mico_mdns.c:558-564 and 602-605).
RecordsWhole ==
    ~overtaken =>
        /\ \A k \in Keys : Cardinality(Bearing(k)) <= 1
        /\ \A i \in Ids : records[i].state # "removed" /\ Writing(i) = {} =>
              /\ records[i].names \in Allocated
              /\ records[i].txt \in Allocated \/ (i = 1 /\ records[i].txt = "freed")

\* Every announcement is made: when no more calls come all count-downs end, that is records reach
\* RECORD_NORMAL or are removed; unless a change was left to an announcing thread that had passed
\* the record by (mico_mdns.c:504-520) or that could not be started (587).
AnnouncementsEnd ==
    <>[](stranded \/ \A i \in Ids : ~Announcing(records[i]))
=============================================================================
