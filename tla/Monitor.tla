-------------------------------- MODULE Monitor --------------------------------
(***************************************************************************)
(* mico_system_monitor.c: threads promise to check in within a delay of    *)
(* their choice; one thread looks at all of them every period and reloads  *)
(* the hardware watchdog only if none is late.  Nothing here takes a lock, *)
(* and the clock the threads read is mico_get_time(), 32 bits of           *)
(* milliseconds.                                                           *)
(***************************************************************************)
EXTENDS Integers, FiniteSets

CONSTANTS Monitors,     \* mico_system_monitor_t items, each checked in by its own thread
          NoMonitor,    \* NULL
          Slots,        \* MAXIMUM_NUMBER_OF_SYSTEM_MONITORS
          Delays,       \* permitted delays the threads ask for
          Period,       \* DEFAULT_SYSTEM_MONITOR_PERIOD
          WdgTimeout,   \* what the hardware watchdog waits for
          ClockSize,    \* 2^32: mico_get_time() wraps there
          MaxTime       \* bound on time

ASSUME MonitorAssumption ==
    /\ NoMonitor \notin Monitors
    /\ {Slots, Period, WdgTimeout, ClockSize} \subseteq Nat \ {0}
    /\ MaxTime \in Nat
    /\ Period < WdgTimeout
    /\ Delays \subseteq Nat
    /\ \A d \in Delays : d + 2 * WdgTimeout < ClockSize

VARIABLES time,       \* true time; what the code sees of it is time % ClockSize
          up,         \* FALSE once the watchdog has reset the system
          reloadedAt, \* true time of the last MicoWdgReload
          slot,       \* system_monitors
          lastUpdate, \* last_update of each item, as the code stores it
          permitted,  \* longest_permitted_delay of each item
          thread,     \* the monitor thread: its step and its locals
          owner,      \* each item's thread: its step and its locals
          fresh,      \* history: true time of the check-in that lastUpdate records
          touched,    \* history: items written since the monitor thread sampled the clock
          overlapped  \* history: items whose registrations overlapped

vars == <<time, up, reloadedAt, slot, lastUpdate, permitted, thread, owner, fresh, touched, overlapped>>

SlotIds == 1 .. Slots
Clock(t) == t % ClockSize
Since(now, then) == (now - then) % ClockSize  \* uint32_t subtraction

OwnerSteps == {"new", "found", "refused", "running", "checking", "stamped"}

Init ==
    /\ time = 0
    /\ up = TRUE
    /\ reloadedAt = 0
    /\ slot = [s \in SlotIds |-> NoMonitor]
    /\ lastUpdate = [m \in Monitors |-> 0]
    /\ permitted = [m \in Monitors |-> 0]
    /\ thread = [step |-> "asleep", wake |-> 0, a |-> 1, at |-> 0, elapsed |-> 0]
    /\ owner = [m \in Monitors |-> [step |-> "new", entry |-> 1, at |-> 0]]
    /\ fresh = [m \in Monitors |-> 0]
    /\ touched = {}
    /\ overlapped = {}

\* The locals that are dead between calls are reset, here and in the monitor thread.
Rests(m) == [owner EXCEPT ![m] = [step |-> "running", entry |-> 1, at |-> 0]]

Registered(m) == owner[m].step \in {"running", "checking", "stamped"}
-----------------------------------------------------------------------------
(* mico_system_monitor_register *)

FreeSlots == {s \in SlotIds : slot[s] = NoMonitor}

FindEntry(m) ==
    /\ up /\ owner[m].step = "new"
    /\ IF FreeSlots = {}
       THEN owner' = [owner EXCEPT ![m].step = "refused"]
       ELSE owner' = [owner EXCEPT ![m].step = "found",
                                   ![m].entry = CHOOSE s \in FreeSlots : \A f \in FreeSlots : s <= f]
    /\ LET others == {o \in Monitors : owner[o].step = "found"} IN
       overlapped' = IF others = {} THEN overlapped ELSE overlapped \cup others \cup {m}
    /\ UNCHANGED <<time, up, reloadedAt, slot, lastUpdate, permitted, thread, fresh, touched>>

\* Mutant: last_update keeps what an item in static storage starts with.
TakeEntryUnstamped(m) ==
    /\ up /\ owner[m].step = "found"
    /\ \E d \in Delays : permitted' = [permitted EXCEPT ![m] = d]
    /\ slot' = [slot EXCEPT ![owner[m].entry] = m]
    /\ owner' = Rests(m)
    /\ fresh' = [fresh EXCEPT ![m] = time]
    /\ touched' = touched \cup {m} \cup ({slot[owner[m].entry]} \ {NoMonitor})
    /\ UNCHANGED <<time, up, reloadedAt, lastUpdate, thread, overlapped>>

\* The item is stamped and then entered.  One step: nobody reads it before it is entered,
\* and a thread held up in between is taken for late that much sooner.
TakeEntry(m) ==
    /\ up /\ owner[m].step = "found"
    /\ \E d \in Delays : permitted' = [permitted EXCEPT ![m] = d]
    /\ lastUpdate' = [lastUpdate EXCEPT ![m] = Clock(time)]
    /\ slot' = [slot EXCEPT ![owner[m].entry] = m]
    /\ owner' = Rests(m)
    /\ fresh' = [fresh EXCEPT ![m] = time]
    /\ touched' = touched \cup {m} \cup ({slot[owner[m].entry]} \ {NoMonitor})
    /\ UNCHANGED <<time, up, reloadedAt, thread, overlapped>>
-----------------------------------------------------------------------------
(* mico_system_monitor_update *)

\* The thread reads the clock; it may be preempted before it uses what it read.
BeginUpdate(m) ==
    /\ up /\ owner[m].step = "running"
    /\ owner' = [owner EXCEPT ![m].step = "checking", ![m].at = time]
    /\ UNCHANGED <<time, up, reloadedAt, slot, lastUpdate, permitted, thread, fresh, touched, overlapped>>

InTime(m) == Since(Clock(owner[m].at), lastUpdate[m]) <= permitted[m]

StampUpdate(m) ==
    /\ up /\ owner[m].step = "checking"
    /\ InTime(m)
    /\ lastUpdate' = [lastUpdate EXCEPT ![m] = Clock(owner[m].at)]
    /\ fresh' = [fresh EXCEPT ![m] = owner[m].at]
    /\ owner' = [owner EXCEPT ![m].step = "stamped"]
    /\ touched' = touched \cup {m}
    /\ UNCHANGED <<time, up, reloadedAt, slot, permitted, thread, overlapped>>

\* Passed its delay already: the update is ignored, and returns kNoErr.
IgnoreUpdate(m) ==
    /\ up /\ owner[m].step = "checking"
    /\ ~InTime(m)
    /\ owner' = Rests(m)
    /\ UNCHANGED <<time, up, reloadedAt, slot, lastUpdate, permitted, thread, fresh, touched, overlapped>>

EndUpdate(m) ==
    /\ up /\ owner[m].step = "stamped"
    /\ \E d \in Delays : permitted' = [permitted EXCEPT ![m] = d]
    /\ owner' = Rests(m)
    /\ touched' = touched \cup {m}
    /\ UNCHANGED <<time, up, reloadedAt, slot, lastUpdate, thread, fresh, overlapped>>
-----------------------------------------------------------------------------
(* mico_system_monitor_thread_main *)

Sample ==
    /\ up /\ thread.step = "asleep" /\ time >= thread.wake
    /\ thread' = [thread EXCEPT !.step = "look", !.at = time]
    /\ touched' = {}
    /\ UNCHANGED <<time, up, reloadedAt, slot, lastUpdate, permitted, owner, fresh, overlapped>>

\* Mutant: the loop ends one entry early.
NextEntryButLast ==
    IF thread.a >= Slots - 1 THEN [thread EXCEPT !.step = "reload", !.a = 1, !.at = 0, !.elapsed = 0]
    ELSE [thread EXCEPT !.step = "look", !.a = @ + 1, !.elapsed = 0]

\* What follows an entry that is not late.
NextEntry ==
    IF thread.a = Slots THEN [thread EXCEPT !.step = "reload", !.a = 1, !.at = 0, !.elapsed = 0]
    ELSE [thread EXCEPT !.step = "look", !.a = @ + 1, !.elapsed = 0]

Look ==
    /\ up /\ thread.step = "look"
    /\ LET m == slot[thread.a] IN
       thread' = IF m = NoMonitor THEN NextEntry
                 ELSE [thread EXCEPT !.step = "compare",
                                     !.elapsed = Since(Clock(thread.at), lastUpdate[m])]
    /\ UNCHANGED <<time, up, reloadedAt, slot, lastUpdate, permitted, owner, fresh, touched, overlapped>>

\* Mutant: an item that is exactly as old as it may be counts as late.
CompareOrEqual ==
    /\ up /\ thread.step = "compare"
    /\ thread' = IF thread.elapsed >= permitted[slot[thread.a]]
                 THEN [thread EXCEPT !.step = "stuck"]
                 ELSE NextEntry
    /\ UNCHANGED <<time, up, reloadedAt, slot, lastUpdate, permitted, owner, fresh, touched, overlapped>>

\* A late one: while(1), until the watchdog bites.
Compare ==
    /\ up /\ thread.step = "compare"
    /\ thread' = IF thread.elapsed > permitted[slot[thread.a]]
                 THEN [thread EXCEPT !.step = "stuck"]
                 ELSE NextEntry
    /\ UNCHANGED <<time, up, reloadedAt, slot, lastUpdate, permitted, owner, fresh, touched, overlapped>>

Reload ==
    /\ up /\ thread.step = "reload"
    /\ reloadedAt' = time
    /\ thread' = [thread EXCEPT !.step = "asleep", !.wake = time + Period]
    /\ touched' = {}
    /\ UNCHANGED <<time, up, slot, lastUpdate, permitted, owner, fresh, overlapped>>
-----------------------------------------------------------------------------
(* Time passes; the hardware watchdog resets the system when it was not    *)
(* reloaded for WdgTimeout.                                                *)

Tick ==
    /\ up /\ time < MaxTime
    /\ time' = time + 1
    /\ up' = (time' - reloadedAt < WdgTimeout)
    /\ UNCHANGED <<reloadedAt, slot, lastUpdate, permitted, thread, owner, fresh, touched, overlapped>>

Next ==
    \/ \E m \in Monitors :
          \/ FindEntry(m) \/ TakeEntry(m)
          \/ BeginUpdate(m) \/ StampUpdate(m) \/ IgnoreUpdate(m) \/ EndUpdate(m)
    \/ Sample \/ Look \/ Compare \/ Reload
    \/ Tick

Spec == Init /\ [][Next]_vars
-----------------------------------------------------------------------------
(* Properties *)

\* Types, and the two relations the others rest on: an item stores the clock of its last
\* check-in, and that check-in is not later than now.
MonitorTypeOK ==
    /\ time \in 0 .. MaxTime /\ reloadedAt \in 0 .. MaxTime /\ up \in BOOLEAN
    /\ slot \in [SlotIds -> Monitors \cup {NoMonitor}]
    /\ fresh \in [Monitors -> 0 .. time]
    /\ lastUpdate = [m \in Monitors |-> Clock(fresh[m])]
    /\ permitted \in [Monitors -> Delays \cup {0}]
    /\ thread.step \in {"asleep", "look", "compare", "reload", "stuck"}
    /\ thread.a \in SlotIds /\ thread.at \in 0 .. time /\ thread.elapsed \in 0 .. ClockSize - 1
    /\ \A m \in Monitors : owner[m].step \in OwnerSteps /\ owner[m].entry \in SlotIds /\ owner[m].at <= time
    /\ touched \subseteq Monitors /\ overlapped \subseteq Monitors

\* The monitor thread stops reloading the watchdog only for a thread that had really passed its
\* delay when the clock was sampled, across wraps of the clock too; the exception is an item
\* that was written between the sample and the comparison, whose difference may be negative,
\* that is almost 2^32 (mico_system_monitor.c:66-76).
ResetMeansLate ==
    [][thread.step = "compare" /\ thread'.step = "stuck" =>
          LET m == slot[thread.a] IN
          m \in touched \/ thread.at - fresh[m] > permitted[m]]_vars

\* A thread that stops checking in does not go unnoticed: as long as the system is up every
\* item whose registration returned kNoErr is less than its delay and two watchdog timeouts
\* old, unless its registration overlapped with another one and took the same entry.
LateIsReset ==
    up => \A m \in Monitors \ overlapped :
             Registered(m) => \E d \in Delays : time - fresh[m] < d + 2 * WdgTimeout
=============================================================================
