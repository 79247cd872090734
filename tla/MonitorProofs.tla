------------------------------ MODULE MonitorProofs ------------------------------
(***************************************************************************)
(* The monitor thread stops reloading the watchdog only for a thread that  *)
(* is late, and a thread that is late does not keep the system up, for any *)
(* number of threads, table entries and delays and any size of the clock.  *)
(***************************************************************************)
EXTENDS Monitor, WellFoundedInduction, TLAPS

\* Records and functions as the steps build them; MonitorTypeOK speaks of their fields only.
ThreadRecords == [step : {"asleep", "look", "compare", "reload", "stuck"}, wake : Nat,
                  a : SlotIds, at : Nat, elapsed : Nat]
OwnerRecords == [step : OwnerSteps, entry : SlotIds, at : Nat]

Shape == thread \in ThreadRecords /\ owner \in [Monitors -> OwnerRecords]

TypeInv == MonitorTypeOK /\ Shape

\* Who holds which entry: only overlapping registrations take an entry from each other.
SlotInv ==
    /\ \A m \in Monitors :
          owner[m].step = "found" =>
             /\ slot[owner[m].entry] \in overlapped \cup {NoMonitor}
             /\ m \notin overlapped => slot[owner[m].entry] = NoMonitor
             /\ \A o \in Monitors \ {m} : owner[o].step = "found" => m \in overlapped
    /\ \A m \in Monitors \ overlapped : Registered(m) => \E s \in SlotIds : slot[s] = m
    /\ \A s \in SlotIds : slot[s] # NoMonitor => Registered(slot[s])
    /\ \A m \in Monitors : Registered(m) => permitted[m] \in Delays

\* What the round of the monitor thread knows of an item it has looked at.
Passed(m) ==
    \/ thread.step = "reload"
    \/ /\ thread.step \in {"look", "compare"}
       /\ \E s \in SlotIds : s < thread.a /\ slot[s] = m

\* How old the check-ins are, seen from the last reload and in the middle of a round.
AgeInv ==
    /\ reloadedAt <= time
    /\ up => time - reloadedAt < WdgTimeout
    /\ thread.step = "asleep" => reloadedAt <= thread.wake
    /\ thread.step \in {"asleep", "reload"} => thread.a = 1
    /\ thread.step \in {"look", "compare"} => reloadedAt <= thread.at
    /\ \A m \in Monitors : owner[m].step = "checking" => fresh[m] <= owner[m].at
    /\ \A m \in Monitors \ overlapped : Registered(m) =>
          /\ \E d \in Delays : reloadedAt < fresh[m] + d + WdgTimeout
          /\ Passed(m) => \E d \in Delays : reloadedAt <= fresh[m] + d
    /\ thread.step = "compare" =>
          /\ slot[thread.a] # NoMonitor
          /\ slot[thread.a] \notin overlapped => thread.at <= fresh[slot[thread.a]] + thread.elapsed

\* What the round knows of an item that nobody wrote since the clock was sampled.
SampleInv ==
    /\ thread.step \in {"look", "compare"} => \A m \in Monitors \ touched : fresh[m] <= thread.at
    /\ thread.step = "compare" /\ slot[thread.a] \notin touched =>
          thread.elapsed <= thread.at - fresh[slot[thread.a]]

IInv == TypeInv /\ SlotInv /\ AgeInv /\ SampleInv
-----------------------------------------------------------------------------
(* The clock and the table *)

\* Two readings r and s of the clock after p and q whole turns: their difference, taken round
\* the clock as uint32_t takes it, is at most the time between them.
LEMMA TurnsBound ==
    ASSUME NEW C \in Nat \ {0}, NEW p \in Int, NEW q \in Int,
           NEW r \in 0 .. C - 1, NEW s \in 0 .. C - 1,
           C * q + s <= C * p + r
    PROVE  (r - s) % C <= (C * p + r) - (C * q + s)
<1>1. p >= q
  <2>1. SUFFICES ASSUME p + 1 <= q PROVE FALSE
    OBVIOUS
  <2>2. C * (p + 1) <= C * q
    BY <2>1
  <2>3. C * (p + 1) = C * p + C
    OBVIOUS
  <2> QED BY <2>2, <2>3
<1>2. CASE r >= s
  <2>1. (r - s) % C = r - s
    BY <1>2
  <2>2. C * q <= C * p
    BY <1>1
  <2> QED BY <2>1, <2>2
<1>3. CASE r < s
  <2>1. (r - s) % C = r - s + C
    BY <1>3
  <2>2. p # q
    BY <1>3
  <2>3. C * (q + 1) <= C * p
    BY <1>1, <2>2
  <2>4. C * (q + 1) = C * q + C
    OBVIOUS
  <2> QED BY <2>1, <2>3, <2>4
<1> QED BY <1>2, <1>3

\* The code's elapsed time is never more than the true one.
LEMMA SinceBound ==
    ASSUME NEW a \in Nat, NEW b \in Nat, b <= a
    PROVE  /\ Since(Clock(a), Clock(b)) \in Nat
           /\ Since(Clock(a), Clock(b)) <= a - b
<1>0. ClockSize \in Nat \ {0}
  BY MonitorAssumption
<1>1. PICK p \in Int, r \in 0 .. ClockSize - 1 : a = ClockSize * p + r /\ a % ClockSize = r
  BY <1>0
<1>2. PICK q \in Int, s \in 0 .. ClockSize - 1 : b = ClockSize * q + s /\ b % ClockSize = s
  BY <1>0
<1>3. (r - s) % ClockSize <= (ClockSize * p + r) - (ClockSize * q + s)
  BY <1>0, <1>1, <1>2, TurnsBound
<1>4. (r - s) % ClockSize \in Nat
  BY <1>0
<1> QED BY <1>1, <1>2, <1>3, <1>4 DEF Since, Clock

\* While less than one turn of the clock has passed, the code's elapsed time is the true one.
LEMMA TurnsExact ==
    ASSUME NEW C \in Nat \ {0}, NEW p \in Int, NEW q \in Int,
           NEW r \in 0 .. C - 1, NEW s \in 0 .. C - 1,
           C * q + s <= C * p + r, (C * p + r) - (C * q + s) < C
    PROVE  (r - s) % C = (C * p + r) - (C * q + s)
<1>1. p >= q
  <2>1. SUFFICES ASSUME p + 1 <= q PROVE FALSE
    OBVIOUS
  <2>2. C * (p + 1) <= C * q
    BY <2>1
  <2>3. C * (p + 1) = C * p + C
    OBVIOUS
  <2> QED BY <2>2, <2>3
<1>2. CASE r >= s
  <2>1. (r - s) % C = r - s
    BY <1>2
  <2>2. p = q
    <3>1. SUFFICES ASSUME q + 1 <= p PROVE FALSE
      BY <1>1
    <3>2. C * (q + 1) <= C * p
      BY <3>1
    <3>3. C * (q + 1) = C * q + C
      OBVIOUS
    <3> QED BY <1>2, <3>2, <3>3
  <2> QED BY <2>1, <2>2
<1>3. CASE r < s
  <2>1. (r - s) % C = r - s + C
    BY <1>3
  <2>2. p = q + 1
    <3>1. p # q
      BY <1>3
    <3>2. SUFFICES ASSUME q + 2 <= p PROVE FALSE
      BY <1>1, <3>1
    <3>3. C * (q + 2) <= C * p
      BY <3>2
    <3>4. C * (q + 2) = C * q + 2 * C
      OBVIOUS
    <3> QED BY <3>3, <3>4
  <2>3. C * (q + 1) = C * q + C
    OBVIOUS
  <2> QED BY <2>1, <2>2, <2>3
<1> QED BY <1>2, <1>3

\* The same for the two operators of the model.
LEMMA SinceExact ==
    ASSUME NEW a \in Nat, NEW b \in Nat, b <= a, a - b < ClockSize
    PROVE  Since(Clock(a), Clock(b)) = a - b
<1>0. ClockSize \in Nat \ {0}
  BY MonitorAssumption
<1>1. PICK p \in Int, r \in 0 .. ClockSize - 1 : a = ClockSize * p + r /\ a % ClockSize = r
  BY <1>0
<1>2. PICK q \in Int, s \in 0 .. ClockSize - 1 : b = ClockSize * q + s /\ b % ClockSize = s
  BY <1>0
<1>3. (r - s) % ClockSize = (ClockSize * p + r) - (ClockSize * q + s)
  BY <1>0, <1>1, <1>2, TurnsExact
<1> QED BY <1>1, <1>2, <1>3 DEF Since, Clock

\* The order of the numbers, as the library's theorem on least elements takes it.
Below == {ss \in Nat \X Nat : ss[1] < ss[2]}

LEMMA BelowIsWellFounded == IsWellFoundedOn(Below, Nat)
<1>1. OpToRel(<, Nat) = Below
  BY Zenon DEF OpToRel, Below
<1> QED BY <1>1, NatLessThanWellFounded, Zenon

\* A set of numbers that is not empty has a least one: the first entry of a table that fits.
LEMMA LeastExists ==
    ASSUME NEW F \in SUBSET Nat, F # {}
    PROVE  (CHOOSE s \in F : \A f \in F : s <= f) \in F
<1>1. PICK s \in F : \A f \in F : ~ (<<f, s>> \in Below)
  BY BelowIsWellFounded, WFMin
<1>2. ASSUME NEW f \in F PROVE s <= f
  <2>1. f \in Nat /\ s \in Nat
    OBVIOUS
  <2>2. f < s => <<f, s>> \in Below
    BY <2>1 DEF Below
  <2> QED BY <1>1, <2>1, <2>2
<1> QED BY <1>2

\* The loop that looks for a free entry finds the first one.
LEMMA FirstEntry ==
    ASSUME NEW F \in SUBSET SlotIds, F # {}
    PROVE  (CHOOSE s \in F : \A f \in F : s <= f) \in F
<1>1. F \in SUBSET Nat
  BY MonitorAssumption DEF SlotIds
<1> QED BY <1>1, LeastExists
-----------------------------------------------------------------------------
(* Types *)

LEMMA TypeInit == Init => TypeInv
<1> SUFFICES ASSUME Init PROVE TypeInv
  OBVIOUS
<1>1. ClockSize \in Nat \ {0} /\ Slots \in Nat \ {0} /\ MaxTime \in Nat
  BY MonitorAssumption
<1>2. 0 % ClockSize = 0
  BY <1>1
<1>3. MonitorTypeOK
  BY <1>1, <1>2 DEF Init, MonitorTypeOK, SlotIds, Clock, OwnerSteps
<1>4. Shape
  BY <1>1 DEF Init, Shape, ThreadRecords, OwnerRecords, SlotIds, OwnerSteps
<1> QED BY <1>3, <1>4 DEF TypeInv

\* BeginUpdate's assignment to the locals of a thread.
LEMMA OwnerStamped ==
    ASSUME NEW o \in [Monitors -> OwnerRecords], NEW m \in Monitors, NEW x \in OwnerSteps, NEW n \in Nat
    PROVE  [o EXCEPT ![m].step = x, ![m].at = n] \in [Monitors -> OwnerRecords]
BY Zenon DEF OwnerRecords

LEMMA TypeStep == TypeInv /\ [Next]_vars => TypeInv'
<1> SUFFICES ASSUME TypeInv, [Next]_vars PROVE TypeInv'
  OBVIOUS
<1> USE DEF TypeInv, MonitorTypeOK, Shape, ThreadRecords, OwnerRecords
<1>0. /\ ClockSize \in Nat \ {0} /\ Slots \in Nat \ {0} /\ MaxTime \in Nat
      /\ Period \in Nat \ {0} /\ Delays \subseteq Nat /\ 1 \in SlotIds
  BY MonitorAssumption DEF SlotIds
<1>1. time \in Nat /\ 0 \in Nat
  BY <1>0
<1>2. "running" \in OwnerSteps /\ "checking" \in OwnerSteps /\ "stamped" \in OwnerSteps
  BY DEF OwnerSteps
<1>3. \A m \in Monitors : Rests(m) \in [Monitors -> OwnerRecords]
  BY <1>0, <1>2 DEF Rests
<1>a. ASSUME NEW m \in Monitors, FindEntry(m) PROVE TypeInv'
  <2>1. FreeSlots # {} => (CHOOSE s \in FreeSlots : \A f \in FreeSlots : s <= f) \in SlotIds
    BY FirstEntry DEF FreeSlots
  <2> QED BY <1>a, <2>1 DEF FindEntry, OwnerSteps
<1>b. ASSUME NEW m \in Monitors, TakeEntry(m) PROVE TypeInv'
  <2>1. Shape'
    BY <1>3, <1>b DEF TakeEntry
  <2>2. lastUpdate' = [o \in Monitors |-> Clock(fresh[o])]'
    BY <1>b DEF TakeEntry
  <2>3. permitted' \in [Monitors -> Delays \cup {0}] /\ slot' \in [SlotIds -> Monitors \cup {NoMonitor}]
    BY <1>b DEF TakeEntry
  <2>4. fresh' \in [Monitors -> 0 .. time]
    BY <1>1, <1>b DEF TakeEntry
  <2>5. \A o \in Monitors : owner'[o].at <= time
    BY <1>1, <1>b DEF TakeEntry, Rests
  <2>6. touched' \subseteq Monitors
    BY <1>b DEF TakeEntry
  <2> QED BY <1>b, <2>1, <2>2, <2>3, <2>4, <2>5, <2>6 DEF TakeEntry
<1>c. ASSUME NEW m \in Monitors, BeginUpdate(m) PROVE TypeInv'
  <2>1. owner' \in [Monitors -> OwnerRecords]
    <3> HIDE DEF TypeInv, MonitorTypeOK, OwnerRecords, ThreadRecords
    <3>1. owner \in [Monitors -> OwnerRecords]
      BY DEF TypeInv
    <3> QED BY <1>1, <1>2, <1>c, <3>1, OwnerStamped, Zenon DEF BeginUpdate
  <2>2. \A o \in Monitors : owner'[o].at <= time
    BY <1>1, <1>c DEF BeginUpdate
  <2> QED BY <1>c, <2>1, <2>2 DEF BeginUpdate
<1>d. ASSUME NEW m \in Monitors, StampUpdate(m) PROVE TypeInv'
  BY <1>d DEF StampUpdate, OwnerSteps
<1>e. ASSUME NEW m \in Monitors, IgnoreUpdate(m) PROVE TypeInv'
  BY <1>0, <1>e DEF IgnoreUpdate, Rests, OwnerSteps, SlotIds
<1>f. ASSUME NEW m \in Monitors, EndUpdate(m) PROVE TypeInv'
  BY <1>0, <1>f DEF EndUpdate, Rests, OwnerSteps, SlotIds
<1>g. CASE Sample
  <2>1. thread' \in ThreadRecords
    BY <1>1, <1>g, Zenon DEF Sample
  <2>2. thread'.at = time /\ thread'.elapsed = thread.elapsed
    BY <1>g DEF Sample
  <2> QED BY <1>0, <1>g, <2>1, <2>2 DEF Sample
<1>n. /\ NextEntry \in ThreadRecords
      /\ NextEntry.at \in {0, thread.at} /\ NextEntry.elapsed = 0
  <2>1. CASE thread.a = Slots
    <3>1. NextEntry = [thread EXCEPT !.step = "reload", !.a = 1, !.at = 0, !.elapsed = 0]
      BY <2>1 DEF NextEntry
    <3>2. NextEntry \in ThreadRecords
      BY <1>0, <1>1, <3>1, Zenon
    <3> QED BY <3>1, <3>2
  <2>2. CASE thread.a # Slots
    <3>1. NextEntry = [thread EXCEPT !.step = "look", !.a = thread.a + 1, !.elapsed = 0]
      BY <2>2 DEF NextEntry
    <3>2. thread.a + 1 \in SlotIds
      BY <1>0, <2>2 DEF SlotIds
    <3>3. NextEntry \in ThreadRecords
      BY <1>1, <3>1, <3>2, Zenon
    <3> QED BY <3>1, <3>3
  <2> QED BY <2>1, <2>2
<1>h. CASE Look
  <2> DEFINE e == Since(Clock(thread.at), lastUpdate[slot[thread.a]])
  <2>1. CASE slot[thread.a] = NoMonitor
    BY <1>0, <1>n, <1>h, <2>1 DEF Look
  <2>2. CASE slot[thread.a] # NoMonitor
    <3>1. thread' = [thread EXCEPT !.step = "compare", !.elapsed = e]
      BY <1>h, <2>2 DEF Look
    <3>2. e \in 0 .. ClockSize - 1 /\ e \in Nat
      BY <1>0, <2>2 DEF Since, Clock
    <3> HIDE DEF e
    <3>3. thread' \in ThreadRecords
      BY <3>1, <3>2, Zenon
    <3>4. thread'.at = thread.at /\ thread'.elapsed = e
      BY <3>1
    <3> QED BY <1>h, <3>2, <3>3, <3>4 DEF Look
  <2> QED BY <2>1, <2>2
<1>i. CASE Compare
  BY <1>0, <1>n, <1>i DEF Compare
<1>j. CASE Reload
  <2>1. time + Period \in Nat
    BY <1>0, <1>1
  <2>2. thread' \in ThreadRecords
    BY <1>j, <2>1, Zenon DEF Reload
  <2>3. thread'.at = thread.at /\ thread'.elapsed = thread.elapsed
    BY <1>j DEF Reload
  <2> QED BY <1>j, <2>2, <2>3 DEF Reload
<1>k. CASE Tick
  BY <1>0, <1>k DEF Tick
<1>l. CASE UNCHANGED vars
  BY <1>l DEF vars
<1> QED BY <1>a, <1>b, <1>c, <1>d, <1>e, <1>f, <1>g, <1>h, <1>i, <1>j, <1>k, <1>l DEF Next
-----------------------------------------------------------------------------
(* The table *)

\* What the actions on an item leave of the other threads' locals.
LEMMA OwnersStep ==
    ASSUME TypeInv, NEW m \in Monitors, NEW o \in Monitors,
           FindEntry(m) \/ TakeEntry(m) \/ BeginUpdate(m) \/ StampUpdate(m) \/ IgnoreUpdate(m) \/ EndUpdate(m)
    PROVE  /\ o # m => owner'[o] = owner[o]
           /\ TakeEntry(m) \/ IgnoreUpdate(m) \/ EndUpdate(m) => owner'[m].step = "running"
           /\ BeginUpdate(m) => owner'[m].step = "checking" /\ owner'[m].at = time
           /\ StampUpdate(m) => owner'[m].step = "stamped"
           /\ FindEntry(m) =>
                 IF FreeSlots = {} THEN owner'[m].step = "refused"
                 ELSE owner'[m].step = "found" /\ owner'[m].entry \in FreeSlots
<1>0. owner \in [Monitors -> OwnerRecords]
  BY DEF TypeInv, Shape
<1>a. ASSUME FindEntry(m)
      PROVE  /\ o # m => owner'[o] = owner[o]
             /\ IF FreeSlots = {} THEN owner'[m].step = "refused"
                ELSE owner'[m].step = "found" /\ owner'[m].entry \in FreeSlots
  <2> DEFINE e == CHOOSE s \in FreeSlots : \A f \in FreeSlots : s <= f
  <2>1. FreeSlots # {} => e \in FreeSlots
    BY FirstEntry DEF FreeSlots
  <2>2. FreeSlots # {} => owner' = [owner EXCEPT ![m].step = "found", ![m].entry = e]
    BY <1>a DEF FindEntry
  <2>3. FreeSlots = {} => owner' = [owner EXCEPT ![m].step = "refused"]
    BY <1>a DEF FindEntry
  <2> HIDE DEF e
  <2> QED BY <1>0, <2>1, <2>2, <2>3 DEF OwnerRecords
<1>b. ASSUME TakeEntry(m) \/ IgnoreUpdate(m) \/ EndUpdate(m)
      PROVE  (o # m => owner'[o] = owner[o]) /\ owner'[m].step = "running"
  BY <1>0, <1>b DEF TakeEntry, IgnoreUpdate, EndUpdate, Rests
<1>c. ASSUME BeginUpdate(m)
      PROVE  (o # m => owner'[o] = owner[o]) /\ owner'[m].step = "checking" /\ owner'[m].at = time
  BY <1>0, <1>c DEF BeginUpdate, OwnerRecords
<1>d. ASSUME StampUpdate(m)
      PROVE  (o # m => owner'[o] = owner[o]) /\ owner'[m].step = "stamped"
  BY <1>0, <1>d DEF StampUpdate, OwnerRecords
<1>e. /\ FindEntry(m) => owner[m].step = "new"
      /\ TakeEntry(m) => owner[m].step = "found"
      /\ BeginUpdate(m) => owner[m].step = "running"
      /\ StampUpdate(m) \/ IgnoreUpdate(m) => owner[m].step = "checking"
      /\ EndUpdate(m) => owner[m].step = "stamped"
  BY DEF FindEntry, TakeEntry, BeginUpdate, StampUpdate, IgnoreUpdate, EndUpdate
<1> QED BY <1>a, <1>b, <1>c, <1>d, <1>e

LEMMA SlotStep == TypeInv /\ SlotInv /\ [Next]_vars => SlotInv'
<1> SUFFICES ASSUME TypeInv, SlotInv, [Next]_vars PROVE SlotInv'
  OBVIOUS
<1>0. /\ slot \in [SlotIds -> Monitors \cup {NoMonitor}] /\ NoMonitor \notin Monitors
      /\ permitted \in [Monitors -> Delays \cup {0}]
      /\ \A m \in Monitors : owner[m].entry \in SlotIds
  BY MonitorAssumption DEF TypeInv, MonitorTypeOK
<1>a. ASSUME NEW m \in Monitors, FindEntry(m) PROVE SlotInv'
  <2> DEFINE others == {o \in Monitors : owner[o].step = "found"}
  <2>1. /\ slot' = slot /\ permitted' = permitted /\ owner[m].step = "new"
        /\ overlapped' = IF others = {} THEN overlapped ELSE overlapped \cup others \cup {m}
    BY <1>a DEF FindEntry
  <2>2. \A o \in Monitors : o # m => owner'[o] = owner[o]
    BY <1>a, OwnersStep
  <2>3. IF FreeSlots = {} THEN owner'[m].step = "refused"
        ELSE owner'[m].step = "found" /\ owner'[m].entry \in FreeSlots
    BY <1>a, OwnersStep
  <2>4. overlapped \subseteq overlapped' /\ m \notin others
    BY <2>1
  <2>5. ASSUME NEW o \in Monitors, owner'[o].step = "found"
        PROVE  /\ slot'[owner'[o].entry] \in overlapped' \cup {NoMonitor}
               /\ o \notin overlapped' => slot'[owner'[o].entry] = NoMonitor
               /\ \A x \in Monitors \ {o} : owner'[x].step = "found" => o \in overlapped'
    <3>1. CASE o = m
      BY <2>1, <2>2, <2>3, <2>5, <3>1 DEF FreeSlots
    <3>2. CASE o # m
      <4>1. o \in others /\ owner'[o] = owner[o]
        BY <2>2, <2>5, <3>2
      <4>2. o \in overlapped'
        BY <2>1, <4>1
      <4> QED BY <2>1, <2>4, <4>1, <4>2 DEF SlotInv
    <3> QED BY <3>1, <3>2
  <2>6. \A o \in Monitors : Registered(o)' = Registered(o)
    BY <2>1, <2>2, <2>3 DEF Registered
  <2>7. \A o \in Monitors \ overlapped' : Registered(o)' => \E s \in SlotIds : slot'[s] = o
    BY <2>1, <2>4, <2>6 DEF SlotInv
  <2>8. /\ \A s \in SlotIds : slot'[s] # NoMonitor => Registered(slot[s])'
        /\ \A o \in Monitors : Registered(o)' => permitted'[o] \in Delays
    BY <1>0, <2>1, <2>6 DEF SlotInv
  <2> QED BY <2>1, <2>5, <2>7, <2>8 DEF SlotInv
<1>b. ASSUME NEW m \in Monitors, TakeEntry(m) PROVE SlotInv'
  <2>1. /\ owner[m].step = "found" /\ overlapped' = overlapped
        /\ slot' = [slot EXCEPT ![owner[m].entry] = m]
    BY <1>b DEF TakeEntry
  <2>2. owner'[m].step = "running" /\ \A o \in Monitors : o # m => owner'[o] = owner[o]
    BY <1>b, OwnersStep
  <2>3. PICK d \in Delays : permitted' = [permitted EXCEPT ![m] = d]
    BY <1>b DEF TakeEntry
  <2>4. /\ slot'[owner[m].entry] = m
        /\ \A s \in SlotIds : s # owner[m].entry => slot'[s] = slot[s]
    BY <1>0, <2>1
  <2>5. ASSUME NEW o \in Monitors, owner'[o].step = "found"
        PROVE  /\ slot'[owner'[o].entry] \in overlapped' \cup {NoMonitor}
               /\ o \notin overlapped' => slot'[owner'[o].entry] = NoMonitor
               /\ \A x \in Monitors \ {o} : owner'[x].step = "found" => o \in overlapped'
    <3>1. o # m /\ owner'[o] = owner[o] /\ owner[o].step = "found"
      BY <2>2, <2>5
    <3>2. m \in overlapped /\ o \in overlapped
      BY <2>1, <3>1 DEF SlotInv
    <3> QED BY <1>0, <2>1, <2>4, <3>1, <3>2 DEF SlotInv
  <2>6. \A o \in Monitors : Registered(o)' <=> Registered(o) \/ o = m
    BY <2>1, <2>2 DEF Registered
  <2>7. ASSUME NEW o \in Monitors, o \notin overlapped', Registered(o)' PROVE \E s \in SlotIds : slot'[s] = o
    <3>1. CASE o = m
      BY <1>0, <2>4, <3>1
    <3>2. CASE o # m
      <4>1. PICK s \in SlotIds : slot[s] = o
        BY <2>1, <2>6, <2>7, <3>2 DEF SlotInv
      <4>2. s # owner[m].entry
        BY <1>0, <2>1, <2>7, <4>1 DEF SlotInv
      <4> QED BY <2>4, <4>1, <4>2
    <3> QED BY <3>1, <3>2
  <2>8. ASSUME NEW s \in SlotIds, slot'[s] # NoMonitor PROVE Registered(slot[s])'
    <3>1. slot'[s] \in Monitors /\ (slot'[s] = m \/ slot'[s] = slot[s])
      BY <1>0, <2>4, <2>8
    <3>2. Registered(slot[s])' <=> owner'[slot'[s]].step \in {"running", "checking", "stamped"}
      BY DEF Registered
    <3>3. CASE slot'[s] = m
      BY <2>2, <3>2, <3>3
    <3>4. CASE slot'[s] # m
      <4>1. Registered(slot[s]) /\ owner'[slot[s]] = owner[slot[s]] /\ slot'[s] = slot[s]
        BY <2>2, <2>8, <3>1, <3>4 DEF SlotInv
      <4> QED BY <3>2, <4>1 DEF Registered
    <3> QED BY <3>3, <3>4
  <2>9. \A o \in Monitors : Registered(o)' => permitted'[o] \in Delays
    BY <1>0, <2>3, <2>6 DEF SlotInv
  <2> QED BY <2>5, <2>7, <2>8, <2>9 DEF SlotInv
<1>c. ASSUME NEW m \in Monitors,
             BeginUpdate(m) \/ StampUpdate(m) \/ IgnoreUpdate(m) \/ EndUpdate(m)
      PROVE  SlotInv'
  <2>1. slot' = slot /\ overlapped' = overlapped /\ owner[m].step \in {"running", "checking", "stamped"}
    BY <1>c DEF BeginUpdate, StampUpdate, IgnoreUpdate, EndUpdate
  <2>2. /\ owner'[m].step \in {"running", "checking", "stamped"}
        /\ \A o \in Monitors : o # m => owner'[o] = owner[o]
    BY <1>c, OwnersStep
  <2>3. permitted' = permitted \/ \E d \in Delays : permitted' = [permitted EXCEPT ![m] = d]
    BY <1>c DEF BeginUpdate, StampUpdate, IgnoreUpdate, EndUpdate
  <2>4. \A o \in Monitors : Registered(o)' = Registered(o)
    BY <2>1, <2>2 DEF Registered
  <2>5. \A o \in Monitors : owner'[o].step = "found" => owner'[o] = owner[o]
    BY <2>2
  <2>6. \A o \in Monitors : owner[o].step = "found" => owner'[o] = owner[o]
    BY <2>1, <2>2
  <2>7. \A o \in Monitors : Registered(o)' => permitted'[o] \in Delays
    BY <1>0, <2>3, <2>4 DEF SlotInv
  <2>8. \A s \in SlotIds : slot'[s] # NoMonitor => Registered(slot[s])'
    BY <1>0, <2>1, <2>4 DEF SlotInv
  <2>9. \A o \in Monitors \ overlapped' : Registered(o)' => \E s \in SlotIds : slot'[s] = o
    BY <2>1, <2>4 DEF SlotInv
  <2> QED BY <2>1, <2>5, <2>6, <2>7, <2>8, <2>9 DEF SlotInv
<1>d. CASE Sample \/ Look \/ Compare \/ Reload \/ Tick \/ UNCHANGED vars
  <2>1. slot' = slot /\ overlapped' = overlapped /\ owner' = owner /\ permitted' = permitted
    BY <1>d DEF Sample, Look, Compare, Reload, Tick, vars
  <2> QED BY <2>1 DEF SlotInv, Registered
<1> QED BY <1>a, <1>b, <1>c, <1>d DEF Next
-----------------------------------------------------------------------------
(* The round of the monitor thread *)

\* What the actions of the monitor thread make of its locals.
LEMMA ThreadStep ==
    ASSUME TypeInv
    PROVE  /\ Sample => thread'.step = "look" /\ thread'.at = time /\ thread'.a = thread.a
           /\ Look => IF slot[thread.a] = NoMonitor THEN thread' = NextEntry
                      ELSE /\ thread'.step = "compare" /\ thread'.a = thread.a /\ thread'.at = thread.at
                           /\ thread'.elapsed = Since(Clock(thread.at), lastUpdate[slot[thread.a]])
           /\ Compare => IF thread.elapsed > permitted[slot[thread.a]] THEN thread'.step = "stuck"
                         ELSE thread' = NextEntry
           /\ Reload => /\ thread'.step = "asleep" /\ thread'.wake = time + Period /\ thread'.a = thread.a
           /\ IF thread.a = Slots THEN NextEntry.step = "reload" /\ NextEntry.a = 1
              ELSE NextEntry.step = "look" /\ NextEntry.a = thread.a + 1 /\ NextEntry.at = thread.at
<1>0. thread \in ThreadRecords
  BY DEF TypeInv, Shape
<1>a. ASSUME Sample PROVE thread'.step = "look" /\ thread'.at = time /\ thread'.a = thread.a
  BY <1>0, <1>a DEF Sample, ThreadRecords
<1>b. ASSUME Look
      PROVE  IF slot[thread.a] = NoMonitor THEN thread' = NextEntry
             ELSE /\ thread'.step = "compare" /\ thread'.a = thread.a /\ thread'.at = thread.at
                  /\ thread'.elapsed = Since(Clock(thread.at), lastUpdate[slot[thread.a]])
  <2> DEFINE e == Since(Clock(thread.at), lastUpdate[slot[thread.a]])
  <2>1. thread' = IF slot[thread.a] = NoMonitor THEN NextEntry
                  ELSE [thread EXCEPT !.step = "compare", !.elapsed = e]
    BY <1>b DEF Look
  <2> HIDE DEF e
  <2>2. CASE slot[thread.a] = NoMonitor
    BY <2>1, <2>2
  <2>3. CASE slot[thread.a] # NoMonitor
    <3>1. thread' = [thread EXCEPT !.step = "compare", !.elapsed = e]
      BY <2>1, <2>3
    <3>2. /\ thread'.step = "compare" /\ thread'.a = thread.a /\ thread'.at = thread.at
          /\ thread'.elapsed = e
      BY <1>0, <3>1 DEF ThreadRecords
    <3> QED BY <2>3, <3>2 DEF e
  <2> QED BY <2>2, <2>3
<1>c. ASSUME Compare
      PROVE  IF thread.elapsed > permitted[slot[thread.a]] THEN thread'.step = "stuck"
             ELSE thread' = NextEntry
  BY <1>0, <1>c DEF Compare, ThreadRecords
<1>d. ASSUME Reload
      PROVE  thread'.step = "asleep" /\ thread'.wake = time + Period /\ thread'.a = thread.a
  BY <1>0, <1>d DEF Reload, ThreadRecords
<1>e. IF thread.a = Slots THEN NextEntry.step = "reload" /\ NextEntry.a = 1
      ELSE NextEntry.step = "look" /\ NextEntry.a = thread.a + 1 /\ NextEntry.at = thread.at
  BY <1>0 DEF NextEntry, ThreadRecords
<1> QED BY <1>a, <1>b, <1>c, <1>d, <1>e

\* Where the round is in one table: an entry the thread goes past is passed, and all are at the end.
LEMMA PassedStep ==
    ASSUME TypeInv, SlotInv, thread.step \in {"look", "compare"}, thread' = NextEntry,
           slot' = slot, NEW m \in Monitors \ overlapped, Registered(m), Passed(m)'
    PROVE  Passed(m) \/ slot[thread.a] = m
<1>1. PICK s \in SlotIds : slot[s] = m /\ (thread.a = Slots \/ s < thread.a + 1)
  <2>1. CASE thread.a = Slots
    BY <2>1 DEF SlotInv
  <2>2. CASE thread.a # Slots
    BY <2>2, ThreadStep DEF Passed
  <2> QED BY <2>1, <2>2
<1>2. s <= thread.a /\ s \in Int /\ thread.a \in Int
  BY <1>1, MonitorAssumption DEF SlotIds, TypeInv, MonitorTypeOK
<1>3. s = thread.a \/ s < thread.a
  BY <1>2
<1> QED BY <1>1, <1>3 DEF Passed
-----------------------------------------------------------------------------
(* How old check-ins are *)

LEMMA AgeStep == TypeInv /\ SlotInv /\ AgeInv /\ [Next]_vars => AgeInv'
<1> SUFFICES ASSUME TypeInv, SlotInv, AgeInv, [Next]_vars PROVE AgeInv'
  OBVIOUS
<1>0. /\ ClockSize \in Nat \ {0} /\ WdgTimeout \in Nat \ {0} /\ Period \in Nat \ {0}
      /\ Delays \subseteq Nat /\ NoMonitor \notin Monitors /\ Slots \in Nat \ {0}
      /\ \A d \in Delays : d + 2 * WdgTimeout < ClockSize
  BY MonitorAssumption
<1>1. /\ time \in Nat /\ reloadedAt \in Nat /\ thread.at \in 0 .. time
      /\ fresh \in [Monitors -> Nat] /\ \A m \in Monitors : fresh[m] <= time
      /\ slot \in [SlotIds -> Monitors \cup {NoMonitor}] /\ thread.a \in SlotIds
      /\ thread.elapsed \in Nat
  BY <1>0, MonitorAssumption DEF TypeInv, MonitorTypeOK
<1>2. SlotIds = 1 .. Slots
  BY DEF SlotIds
<1>a. ASSUME NEW m \in Monitors, FindEntry(m) PROVE AgeInv'
  <2>1. /\ UNCHANGED <<time, up, reloadedAt, slot, permitted, thread, fresh>>
        /\ owner[m].step = "new" /\ overlapped \subseteq overlapped'
    BY <1>a DEF FindEntry
  <2>2. \A o \in Monitors : Registered(o)' = Registered(o)
    BY <1>a, <2>1, OwnersStep DEF Registered
  <2>3. \A o \in Monitors : owner'[o].step = "checking" => owner'[o] = owner[o]
    BY <1>a, OwnersStep
  <2>4. \A o \in Monitors : Passed(o)' = Passed(o)
    BY <2>1 DEF Passed
  <2> QED BY <2>1, <2>2, <2>3, <2>4 DEF AgeInv
<1>b. ASSUME NEW m \in Monitors, TakeEntry(m) PROVE AgeInv'
  <2>1. /\ UNCHANGED <<time, up, reloadedAt, thread, overlapped>>
        /\ owner[m].step = "found"
        /\ fresh' = [fresh EXCEPT ![m] = time] /\ slot' = [slot EXCEPT ![owner[m].entry] = m]
    BY <1>b DEF TakeEntry
  <2>2. PICK d \in Delays : permitted' = [permitted EXCEPT ![m] = d]
    BY <1>b DEF TakeEntry
  <2>3. \A o \in Monitors : o # m => owner'[o] = owner[o]
    BY <1>b, OwnersStep
  <2>4. owner'[m].step = "running"
    BY <1>b, OwnersStep
  <2>5. \A o \in Monitors \ {m} : (Registered(o)' = Registered(o)) /\ (Passed(o)' => Passed(o)) /\ fresh'[o] = fresh[o]
    BY <1>1, <2>1, <2>3 DEF Registered, Passed
  <2>6. fresh'[m] = time
    BY <1>1, <2>1
  <2>7. ASSUME NEW o \in Monitors \ overlapped', Registered(o)'
        PROVE  /\ \E e \in Delays : reloadedAt < fresh'[o] + e + WdgTimeout
               /\ Passed(o)' => \E e \in Delays : reloadedAt <= fresh'[o] + e
    <3>1. CASE o = m
      <4>1. reloadedAt < time + d + WdgTimeout /\ reloadedAt <= time + d
        BY <1>0, <1>1 DEF AgeInv
      <4> QED BY <2>6, <3>1, <4>1
    <3>2. CASE o # m
      BY <2>1, <2>5, <2>7, <3>2 DEF AgeInv
    <3> QED BY <3>1, <3>2
  <2>8. ASSUME thread.step = "compare"
        PROVE  /\ slot'[thread.a] # NoMonitor
               /\ slot'[thread.a] \notin overlapped => thread.at <= fresh'[slot'[thread.a]] + thread.elapsed
    <3>1. CASE thread.a = owner[m].entry
      <4>1. slot'[thread.a] = m /\ slot[thread.a] # NoMonitor
        BY <1>1, <2>1, <2>8, <3>1 DEF AgeInv
      <4>2. m \in overlapped
        BY <2>1, <3>1, <4>1 DEF SlotInv
      <4> QED BY <1>0, <4>1, <4>2
    <3>2. CASE thread.a # owner[m].entry
      <4>1. slot'[thread.a] = slot[thread.a] /\ slot[thread.a] # NoMonitor
        BY <1>1, <2>1, <2>8, <3>2 DEF AgeInv
      <4>2. slot[thread.a] \in Monitors /\ slot[thread.a] # m
        BY <1>1, <2>1, <4>1 DEF SlotInv, Registered
      <4> QED BY <2>5, <2>8, <4>1, <4>2 DEF AgeInv
    <3> QED BY <3>1, <3>2
  <2>9. \A o \in Monitors : owner'[o].step = "checking" => fresh'[o] <= owner'[o].at
    BY <2>3, <2>4, <2>5 DEF AgeInv
  <2> QED BY <2>1, <2>7, <2>8, <2>9 DEF AgeInv
<1>c. ASSUME NEW m \in Monitors, BeginUpdate(m) \/ IgnoreUpdate(m) \/ EndUpdate(m) PROVE AgeInv'
  <2>1. /\ UNCHANGED <<time, up, reloadedAt, slot, thread, fresh, overlapped>>
        /\ owner[m].step \in {"running", "checking", "stamped"}
    BY <1>c DEF BeginUpdate, IgnoreUpdate, EndUpdate
  <2>2. /\ \A o \in Monitors : o # m => owner'[o] = owner[o]
        /\ owner'[m].step = "running" \/ (owner'[m].step = "checking" /\ owner'[m].at = time)
    BY <1>c, OwnersStep
  <2>3. \A o \in Monitors : (Registered(o)' = Registered(o)) /\ (Passed(o)' = Passed(o))
    BY <2>1, <2>2 DEF Registered, Passed
  <2>4. \A o \in Monitors : owner'[o].step = "checking" => fresh[o] <= owner'[o].at
    BY <1>1, <2>2 DEF AgeInv
  <2> QED BY <2>1, <2>3, <2>4 DEF AgeInv
<1>d. ASSUME NEW m \in Monitors, StampUpdate(m) PROVE AgeInv'
  <2>1. /\ UNCHANGED <<time, up, reloadedAt, slot, thread, overlapped>>
        /\ owner[m].step = "checking" /\ fresh' = [fresh EXCEPT ![m] = owner[m].at]
    BY <1>d DEF StampUpdate
  <2>2. (\A o \in Monitors : o # m => owner'[o] = owner[o]) /\ owner'[m].step = "stamped"
    BY <1>d, OwnersStep
  <2>3. \A o \in Monitors : (Registered(o)' = Registered(o)) /\ (Passed(o)' = Passed(o))
    BY <2>1, <2>2 DEF Registered, Passed
  <2>4. owner[m].at \in Nat /\ fresh[m] <= owner[m].at
    BY <2>1 DEF AgeInv, TypeInv, Shape, OwnerRecords
  <2>5. \A o \in Monitors : fresh'[o] \in Nat /\ fresh[o] <= fresh'[o] /\ (o # m => fresh'[o] = fresh[o])
    BY <1>1, <2>1, <2>4
  <2>6. \A o \in Monitors : owner'[o].step = "checking" => fresh'[o] <= owner'[o].at
    BY <2>2, <2>5 DEF AgeInv
  <2>7. ASSUME NEW o \in Monitors, NEW e \in Delays
        PROVE  /\ reloadedAt < fresh[o] + e + WdgTimeout => reloadedAt < fresh'[o] + e + WdgTimeout
               /\ reloadedAt <= fresh[o] + e => reloadedAt <= fresh'[o] + e
    BY <1>0, <1>1, <2>5
  <2>8. ASSUME thread.step = "compare"
        PROVE  /\ slot[thread.a] # NoMonitor
               /\ slot[thread.a] \notin overlapped => thread.at <= fresh'[slot[thread.a]] + thread.elapsed
    <3>1. slot[thread.a] \in Monitors /\ slot[thread.a] # NoMonitor
      BY <1>1, <2>8 DEF AgeInv
    <3>2. slot[thread.a] \notin overlapped => thread.at <= fresh[slot[thread.a]] + thread.elapsed
      BY <2>8 DEF AgeInv
    <3> QED BY <1>1, <2>5, <3>1, <3>2
  <2> QED BY <2>1, <2>3, <2>6, <2>7, <2>8 DEF AgeInv
<1>e. CASE Sample
  <2>1. /\ UNCHANGED <<time, up, reloadedAt, slot, owner, fresh, overlapped>>
        /\ thread.step = "asleep" /\ reloadedAt <= time
    BY <1>e DEF Sample, AgeInv
  <2>2. thread'.step = "look" /\ thread'.at = time /\ thread'.a = 1
    BY <1>e, <2>1, ThreadStep DEF AgeInv
  <2>3. \A o \in Monitors : Registered(o)' = Registered(o) /\ ~ Passed(o)'
    BY <1>2, <2>1, <2>2 DEF Registered, Passed
  <2> QED BY <2>1, <2>2, <2>3 DEF AgeInv
<1>f. ASSUME UNCHANGED <<time, up, reloadedAt, slot, permitted, owner, fresh, overlapped>>,
             thread.step \in {"look", "compare"}, thread' = NextEntry,
             slot[thread.a] \in Monitors \ overlapped => \E d \in Delays : reloadedAt <= fresh[slot[thread.a]] + d
      PROVE  AgeInv'
  <2>1. \A o \in Monitors : Registered(o)' = Registered(o)
    BY <1>f DEF Registered
  <2>2. ASSUME NEW o \in Monitors \ overlapped, Registered(o), Passed(o)'
        PROVE  \E d \in Delays : reloadedAt <= fresh[o] + d
    <3>1. Passed(o) \/ slot[thread.a] = o
      BY <1>f, <2>2, PassedStep
    <3> QED BY <1>f, <2>2, <3>1 DEF AgeInv
  <2>3. IF thread.a = Slots THEN thread'.step = "reload" /\ thread'.a = 1
        ELSE thread'.step = "look" /\ thread'.at = thread.at
    BY <1>f, ThreadStep
  <2> QED BY <1>f, <2>1, <2>2, <2>3 DEF AgeInv
<1>g. CASE Look
  <2>1. /\ UNCHANGED <<time, up, reloadedAt, slot, permitted, owner, fresh, overlapped>>
        /\ thread.step = "look" /\ up
    BY <1>g DEF Look
  <2>2. CASE slot[thread.a] = NoMonitor
    BY <1>0, <1>f, <1>g, <2>1, <2>2, ThreadStep
  <2>3. CASE slot[thread.a] # NoMonitor
    <3> DEFINE m == slot[thread.a]
    <3>1. /\ thread'.step = "compare" /\ thread'.a = thread.a /\ thread'.at = thread.at
          /\ thread'.elapsed = Since(Clock(thread.at), lastUpdate[m])
      BY <1>g, <2>3, ThreadStep
    <3>2. \A o \in Monitors : (Registered(o)' = Registered(o)) /\ (Passed(o)' = Passed(o))
      BY <2>1, <3>1 DEF Registered, Passed
    <3>3. m \in Monitors /\ Registered(m) /\ lastUpdate[m] = Clock(fresh[m])
      BY <1>1, <2>3 DEF SlotInv, TypeInv, MonitorTypeOK
    <3>4. ASSUME m \notin overlapped PROVE thread.at <= fresh[m] + thread'.elapsed
      <4>1. PICK d \in Delays : reloadedAt < fresh[m] + d + WdgTimeout
        BY <3>3, <3>4 DEF AgeInv
      <4>2. time - reloadedAt < WdgTimeout
        BY <2>1 DEF AgeInv
      <4>3. /\ fresh[m] \in Nat /\ d \in Nat /\ WdgTimeout \in Nat
            /\ thread.at \in Nat /\ thread.at <= time /\ d + 2 * WdgTimeout < ClockSize
        BY <1>0, <1>1, <3>3
      <4>4. thread.at - fresh[m] < ClockSize
        BY <1>0, <1>1, <4>1, <4>2, <4>3
      <4>5. CASE fresh[m] <= thread.at
        <5>1. thread'.elapsed = thread.at - fresh[m]
          BY <3>1, <3>3, <4>3, <4>4, <4>5, SinceExact
        <5> QED BY <4>3, <5>1
      <4>6. CASE ~ (fresh[m] <= thread.at)
        <5>1. Since(Clock(thread.at), Clock(fresh[m])) \in Nat
          BY <1>0, <4>3 DEF Since, Clock
        <5> QED BY <3>1, <3>3, <4>3, <4>6, <5>1
      <4> QED BY <4>5, <4>6
    <3> QED BY <2>1, <2>3, <3>1, <3>2, <3>4 DEF AgeInv
  <2> QED BY <2>2, <2>3
<1>h. CASE Compare
  <2>1. /\ UNCHANGED <<time, up, reloadedAt, slot, permitted, owner, fresh, overlapped>>
        /\ thread.step = "compare"
    BY <1>h DEF Compare
  <2>2. CASE thread.elapsed > permitted[slot[thread.a]]
    <3>1. thread'.step = "stuck"
      BY <1>h, <2>2, ThreadStep
    <3> QED BY <2>1, <3>1 DEF AgeInv, Registered, Passed
  <2>3. CASE ~ (thread.elapsed > permitted[slot[thread.a]])
    <3> DEFINE m == slot[thread.a]
    <3>1. m \in Monitors /\ permitted[m] \in Delays
      BY <1>1, <2>1 DEF SlotInv, AgeInv
    <3>2. m \notin overlapped => reloadedAt <= fresh[m] + permitted[m]
      <4>1. m \notin overlapped => thread.at <= fresh[m] + thread.elapsed
        BY <2>1 DEF AgeInv
      <4>2. reloadedAt <= thread.at
        BY <2>1 DEF AgeInv
      <4>3. fresh[m] \in Nat /\ permitted[m] \in Nat
        BY <1>0, <1>1, <3>1
      <4> QED BY <1>1, <2>3, <4>1, <4>2, <4>3
    <3>3. thread' = NextEntry
      BY <1>h, <2>3, ThreadStep
    <3> QED BY <1>f, <2>1, <3>1, <3>2, <3>3
  <2> QED BY <2>2, <2>3
<1>i. CASE Reload
  <2>1. /\ UNCHANGED <<time, up, slot, owner, fresh, overlapped>>
        /\ up /\ thread.step = "reload" /\ reloadedAt' = time
    BY <1>i DEF Reload
  <2>2. thread'.step = "asleep" /\ thread'.wake = time + Period /\ thread'.a = 1
    BY <1>i, <2>1, ThreadStep DEF AgeInv
  <2>3. \A o \in Monitors : Registered(o)' = Registered(o) /\ ~ Passed(o)'
    BY <2>1, <2>2 DEF Registered, Passed
  <2>4. ASSUME NEW o \in Monitors \ overlapped, Registered(o)
        PROVE  \E d \in Delays : time < fresh[o] + d + WdgTimeout
    <3>1. PICK d \in Delays : reloadedAt <= fresh[o] + d
      BY <2>1, <2>4 DEF AgeInv, Passed
    <3>2. time - reloadedAt < WdgTimeout
      BY <2>1 DEF AgeInv
    <3> QED BY <1>0, <1>1, <3>1, <3>2
  <2> QED BY <1>0, <1>1, <2>1, <2>2, <2>3, <2>4 DEF AgeInv
<1>j. CASE Tick
  <2>1. /\ UNCHANGED <<reloadedAt, slot, thread, owner, fresh, overlapped>>
        /\ time' = time + 1 /\ up' = (time' - reloadedAt < WdgTimeout)
    BY <1>j DEF Tick
  <2>2. \A o \in Monitors : (Registered(o)' = Registered(o)) /\ (Passed(o)' = Passed(o))
    BY <2>1 DEF Registered, Passed
  <2>3. up' => time' - reloadedAt' < WdgTimeout
    BY <2>1, Zenon
  <2>4. reloadedAt <= time'
    BY <1>1, <2>1 DEF AgeInv
  <2> QED BY <2>1, <2>2, <2>3, <2>4 DEF AgeInv
<1>k. CASE UNCHANGED vars
  BY <1>k DEF vars, AgeInv, Registered, Passed
<1> QED BY <1>a, <1>b, <1>c, <1>d, <1>e, <1>g, <1>h, <1>i, <1>j, <1>k DEF Next
-----------------------------------------------------------------------------
(* Items nobody wrote in this round *)

LEMMA SampleStep == TypeInv /\ SlotInv /\ AgeInv /\ SampleInv /\ [Next]_vars => SampleInv'
<1> SUFFICES ASSUME TypeInv, SlotInv, AgeInv, SampleInv, [Next]_vars PROVE SampleInv'
  OBVIOUS
<1>1. /\ slot \in [SlotIds -> Monitors \cup {NoMonitor}] /\ thread.a \in SlotIds
      /\ fresh \in [Monitors -> Nat] /\ \A m \in Monitors : fresh[m] <= time
      /\ thread.at \in Nat
  BY MonitorAssumption DEF TypeInv, MonitorTypeOK
<1>a. ASSUME NEW m \in Monitors, TakeEntry(m) PROVE SampleInv'
  <2>1. /\ thread' = thread /\ touched' = touched \cup {m} \cup ({slot[owner[m].entry]} \ {NoMonitor})
        /\ fresh' = [fresh EXCEPT ![m] = time] /\ slot' = [slot EXCEPT ![owner[m].entry] = m]
    BY <1>a DEF TakeEntry
  <2>2. \A o \in Monitors \ touched' : o \notin touched /\ fresh'[o] = fresh[o]
    BY <1>1, <2>1
  <2>3. ASSUME thread.step = "compare", slot'[thread.a] \notin touched'
        PROVE  thread.elapsed <= thread.at - fresh'[slot'[thread.a]]
    <3>1. slot'[thread.a] = slot[thread.a] /\ slot[thread.a] \in Monitors \ touched'
      BY <1>1, <2>1, <2>3 DEF AgeInv
    <3> QED BY <2>2, <2>3, <3>1 DEF SampleInv
  <2> QED BY <2>1, <2>2, <2>3 DEF SampleInv
<1>b. ASSUME NEW m \in Monitors, StampUpdate(m) PROVE SampleInv'
  <2>1. /\ thread' = thread /\ slot' = slot /\ touched' = touched \cup {m}
        /\ fresh' = [fresh EXCEPT ![m] = owner[m].at]
    BY <1>b DEF StampUpdate
  <2>2. \A o \in Monitors \ touched' : o \notin touched /\ fresh'[o] = fresh[o]
    BY <1>1, <2>1
  <2>3. thread.step = "compare" => slot[thread.a] \in Monitors
    BY <1>1 DEF AgeInv
  <2> QED BY <2>1, <2>2, <2>3 DEF SampleInv
<1>c. ASSUME NEW m \in Monitors, FindEntry(m) \/ BeginUpdate(m) \/ IgnoreUpdate(m) \/ EndUpdate(m)
      PROVE  SampleInv'
  <2>1. UNCHANGED <<thread, slot, fresh>> /\ touched \subseteq touched'
    BY <1>c DEF FindEntry, BeginUpdate, IgnoreUpdate, EndUpdate
  <2> QED BY <2>1 DEF SampleInv
<1>d. CASE Sample
  <2>1. thread'.step = "look" /\ thread'.at = time /\ fresh' = fresh
    BY <1>d, ThreadStep DEF Sample
  <2> QED BY <1>1, <2>1 DEF SampleInv
<1>e. ASSUME UNCHANGED <<slot, fresh, touched>>, thread.step \in {"look", "compare"}, thread' = NextEntry
      PROVE  SampleInv'
  <2>1. thread'.step = "reload" \/ (thread'.step = "look" /\ thread'.at = thread.at)
    BY <1>e, ThreadStep
  <2> QED BY <1>e, <2>1 DEF SampleInv
<1>f. CASE Look
  <2>1. UNCHANGED <<slot, fresh, touched>> /\ thread.step = "look"
    BY <1>f DEF Look
  <2>2. CASE slot[thread.a] = NoMonitor
    BY <1>e, <1>f, <2>1, <2>2, ThreadStep
  <2>3. CASE slot[thread.a] # NoMonitor
    <3> DEFINE m == slot[thread.a]
    <3>1. /\ thread'.step = "compare" /\ thread'.a = thread.a /\ thread'.at = thread.at
          /\ thread'.elapsed = Since(Clock(thread.at), lastUpdate[m])
      BY <1>f, <2>3, ThreadStep
    <3>2. m \in Monitors /\ lastUpdate[m] = Clock(fresh[m]) /\ fresh[m] \in Nat
      BY <1>1, <2>3 DEF TypeInv, MonitorTypeOK
    <3>3. m \notin touched => fresh[m] <= thread.at
      BY <2>1, <3>2 DEF SampleInv
    <3>4. m \notin touched => thread'.elapsed <= thread.at - fresh[m]
      BY <1>1, <3>1, <3>2, <3>3, SinceBound
    <3> QED BY <2>1, <3>1, <3>4 DEF SampleInv
  <2> QED BY <2>2, <2>3
<1>g. CASE Compare
  <2>1. UNCHANGED <<slot, fresh, touched>> /\ thread.step = "compare"
    BY <1>g DEF Compare
  <2>2. thread'.step = "stuck" \/ thread' = NextEntry
    BY <1>g, ThreadStep
  <2>3. CASE thread'.step = "stuck"
    BY <2>3 DEF SampleInv
  <2> QED BY <1>e, <2>1, <2>2, <2>3
<1>h. CASE Reload
  <2>1. thread'.step = "asleep"
    BY <1>h, ThreadStep
  <2> QED BY <2>1 DEF SampleInv
<1>i. CASE Tick \/ UNCHANGED vars
  <2>1. UNCHANGED <<thread, slot, fresh, touched>>
    BY <1>i DEF Tick, vars
  <2> QED BY <2>1 DEF SampleInv
<1> QED BY <1>a, <1>b, <1>c, <1>d, <1>f, <1>g, <1>h, <1>i DEF Next
-----------------------------------------------------------------------------
(* Theorems *)

LEMMA InitIInv == Init => IInv
<1> SUFFICES ASSUME Init PROVE IInv
  OBVIOUS
<1>1. TypeInv
  BY TypeInit
<1>2. /\ \A m \in Monitors : owner[m].step = "new" /\ ~ Registered(m)
      /\ thread.step = "asleep" /\ thread.a = 1 /\ thread.wake = 0 /\ time = 0 /\ reloadedAt = 0
      /\ \A s \in SlotIds : slot[s] = NoMonitor
  BY DEF Init, Registered
<1>3. SlotInv
  BY <1>2 DEF SlotInv
<1>4. AgeInv
  BY <1>2, MonitorAssumption DEF AgeInv
<1>5. SampleInv
  BY <1>2 DEF SampleInv
<1> QED BY <1>1, <1>3, <1>4, <1>5 DEF IInv

\* The invariant holds in every reachable state.
THEOREM Inductive == Spec => []IInv
<1>1. IInv /\ [Next]_vars => IInv'
  BY TypeStep, SlotStep, AgeStep, SampleStep DEF IInv
<1> QED BY InitIInv, <1>1, PTL DEF Spec

\* The types, and that an item's last_update is the clock of its last check-in.
THEOREM TypeCorrect == Spec => []MonitorTypeOK
<1>1. IInv => MonitorTypeOK
  BY DEF IInv, TypeInv
<1> QED BY Inductive, <1>1, PTL

\* While the system is up no registered thread is later than its delay and two watchdog periods,
\* however many threads and entries there are and wherever the clock wraps.
THEOREM LateNeverStaysUp == Spec => []LateIsReset
<1>1. IInv => LateIsReset
  <2> SUFFICES ASSUME IInv, up, NEW m \in Monitors \ overlapped, Registered(m)
               PROVE  \E d \in Delays : time - fresh[m] < d + 2 * WdgTimeout
    BY DEF LateIsReset
  <2>1. PICK d \in Delays : reloadedAt < fresh[m] + d + WdgTimeout
    BY DEF IInv, AgeInv
  <2>2. time - reloadedAt < WdgTimeout
    BY DEF IInv, AgeInv
  <2>3. time \in Nat /\ reloadedAt \in Nat /\ fresh[m] \in Nat /\ d \in Nat /\ WdgTimeout \in Nat
    BY MonitorAssumption DEF IInv, TypeInv, MonitorTypeOK
  <2> QED BY <2>1, <2>2, <2>3
<1> QED BY Inductive, <1>1, PTL

\* A round that ends in the endless loop has seen a thread that was late when the round began,
\* or whose item was written during the round.
THEOREM NoFalseReset == Spec => ResetMeansLate
<1>1. IInv /\ [Next]_vars =>
        (thread.step = "compare" /\ thread'.step = "stuck" =>
           LET m == slot[thread.a] IN m \in touched \/ thread.at - fresh[m] > permitted[m])
  <2> SUFFICES ASSUME IInv, [Next]_vars, thread.step = "compare", thread'.step = "stuck",
                      slot[thread.a] \notin touched
               PROVE  thread.at - fresh[slot[thread.a]] > permitted[slot[thread.a]]
    OBVIOUS
  <2> DEFINE m == slot[thread.a]
  <2>1. TypeInv /\ SlotInv /\ AgeInv /\ SampleInv
    BY DEF IInv
  <2>2. m \in Monitors /\ permitted[m] \in Nat /\ fresh[m] \in Nat /\ thread.at \in Nat /\ thread.elapsed \in Nat
    <3>1. m \in Monitors
      BY <2>1 DEF AgeInv, TypeInv, MonitorTypeOK
    <3>2. permitted[m] \in Delays \cup {0} /\ fresh[m] \in 0 .. time /\ Delays \subseteq Nat
      BY <2>1, <3>1, MonitorAssumption DEF TypeInv, MonitorTypeOK
    <3>3. thread.at \in 0 .. time /\ thread.elapsed \in 0 .. ClockSize - 1
      BY <2>1 DEF TypeInv, MonitorTypeOK
    <3>4. time \in Nat /\ ClockSize \in Nat
      BY <2>1, MonitorAssumption DEF TypeInv, MonitorTypeOK
    <3>5. permitted[m] \in Nat
      <4>1. Delays \cup {0} \subseteq Nat
        BY MonitorAssumption
      <4>2. permitted[m] \in Delays \cup {0}
        BY <3>2
      <4> HIDE DEF m
      <4> QED BY <4>1, <4>2
    <3>6. fresh[m] \in Nat /\ thread.at \in Nat /\ thread.elapsed \in Nat
      BY <3>2, <3>3, <3>4
    <3> QED BY <3>1, <3>5, <3>6
  <2>3. Compare
    <3>1. thread' # thread
      OBVIOUS
    <3> QED BY <3>1 DEF Next, vars, FindEntry, TakeEntry, BeginUpdate, StampUpdate, IgnoreUpdate,
                        EndUpdate, Sample, Look, Reload, Tick
  <2>4. thread.elapsed > permitted[m]
    <3>1. NextEntry.step # "stuck"
      BY <2>1, ThreadStep
    <3> QED BY <2>1, <2>3, <3>1, ThreadStep
  <2>5. thread.elapsed <= thread.at - fresh[m]
    BY <2>1 DEF SampleInv
  <2> QED BY <2>2, <2>4, <2>5
<1> QED BY Inductive, <1>1, PTL DEF Spec, ResetMeansLate
=============================================================================
