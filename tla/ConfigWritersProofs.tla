------------------------- MODULE ConfigWritersProofs -------------------------
(***************************************************************************)
(* What the mutex gives those that share the configuration, for any number *)
(* of threads of every kind, any settings and any bound on seedNum.        *)
(***************************************************************************)
EXTENDS ConfigWriters, TLAPS

main   == flash["main"]
backup == flash["backup"]

UpdateSteps == FlashSteps \cup {"begin", "sum"}

\* Those that keep the mutex until they are through with the configuration.
Locker(t) == Role[t] \notin {"write", "station"}

\* t is between the lock and the unlock.
Inside(t) ==
    \/ pc[t] \in {"report", "receive", "early", "unlock"}
    \/ pc[t] = "edit" /\ Role[t] # "station"
    \/ pc[t] \in UpdateSteps \cup {"seed", "resetting"} /\ Locker(t)

MutexInv ==
    \A t \in Threads : /\ Inside(t) => mutex = {t}
                       /\ pc[t] \in {"early", "mark"} => Role[t] = "write"

\* What a partition holds once the configuration in RAM is written to it.
InRam == [boot |-> ram.boot, sys |-> ram.sys, user |-> ram.user, crc |-> Crc(ram.sys, ram.user)]

Copies == Intact(main) /\ backup = main

\* How far the one update in progress is.
Progress(t) ==
    LET p == flash[local[t].target] IN
    /\ pc[t] \in {"begin", "sum"} => Copies
    /\ pc[t] \in FlashSteps => local[t].crc = Crc(ram.sys, ram.user)
    /\ pc[t] \in FlashSteps /\ local[t].target = "backup" => main = InRam
    /\ pc[t] = "content" => p = Blank
    /\ pc[t] = "user" => p = [boot |-> ram.boot, sys |-> ram.sys, user |-> Erased, crc |-> {}]
    /\ pc[t] = "crc" => p = [boot |-> ram.boot, sys |-> ram.sys, user |-> ram.user, crc |-> {}]

\* As long as there was no conflict, one thread at a time updates.
CopiesInv ==
    conflict = {} =>
        /\ Updating = {} => Copies
        /\ \A t, u \in Updating : t = u
        /\ \A t \in Updating : Progress(t)

\* ... and numbers its update beyond all that are stored.
SeedInv ==
    conflict = {} =>
        /\ ram.sys.seed <= seedNum
        /\ \A p \in Partitions : flash[p].sys \in SysConfig => flash[p].sys.seed <= seedNum
        /\ \A t \in Threads : pc[t] = "begin" => local[t].seed = seedNum + 1

IInv == TypeOK /\ CopiesInv /\ SeedInv
-----------------------------------------------------------------------------
(* Lemmas about steps *)

LEMMA GotoStep ==
    ASSUME TypeOK, NEW t \in Threads, NEW step, Goto(t, step)
    PROVE  /\ step \in Steps => pc' \in [Threads -> Steps]
           /\ pc'[t] = step
           /\ \A u \in Threads \ {t} : pc'[u] = pc[u]
  BY DEF TypeOK, Goto

\* What t does when it touches the configuration and nobody else updates.
LEMMA TouchStep ==
    ASSUME NEW t \in Threads, Touch(t)
    PROVE  /\ conflict' = {} => conflict = {} /\ Updating \subseteq {t}
           /\ conflict' # conflict => conflict' = {t} \cup Updating
  BY DEF Touch, Updating

\* The configuration stored in a partition is a real one where it is intact.
LEMMA IntactSys ==
    ASSUME NEW p \in Partition, Intact(p)
    PROVE  p.sys \in SysConfig
  <1>1. p.crc = {<<p.sys, p.user>>}
    BY DEF Intact, is_crc_match, Crc
  <1>2. p.crc \in SUBSET (SysConfig \X UserBytes)
    BY DEF Partition, CrcField
  <1>3. <<p.sys, p.user>> \in SysConfig \X UserBytes
    BY <1>1, <1>2
  <1>4. QED BY <1>3

LEMMA InRamIntact == ASSUME NEW sys, NEW user, NEW p, p.sys = sys, p.user = user, p.crc = Crc(sys, user)
                     PROVE Intact(p)
  BY ConfigWritersAssumption DEF Intact, is_crc_match, Crc
-----------------------------------------------------------------------------
(* Type correctness *)

LEMMA InitType == Init => TypeOK
  <1> SUFFICES ASSUME Init PROVE TypeOK
    OBVIOUS
  <1> USE ParaFlashAssumption DEF Init
  <1>1. ram \in [boot : BootBytes, sys : SysConfig, user : UserData]
    BY DEF BootBytes, SysConfig
  <1>2. Crc(ram.sys, ram.user) \in CrcField
    BY <1>1 DEF Crc, CrcField, UserBytes
  <1>3. flash \in [Partitions -> Partition]
    BY <1>1, <1>2 DEF Partition, SysBytes, UserBytes
  <1>4. local \in [Threads -> [seed : Nat, crc : CrcField, target : Partitions]]
    BY DEF NoLocals, CrcField, Partitions
  <1>5. QED BY <1>1, <1>3, <1>4 DEF TypeOK, Steps

\* A flash operation keeps the flash typed.
LEMMA FlashStep ==
    ASSUME TypeOK, NEW t \in Threads,
           \/ flash' = [flash EXCEPT ![local[t].target] = Blank]
           \/ \E s \in Over(flash[local[t].target].sys, ram.sys) :
                 flash' = [flash EXCEPT ![local[t].target] =
                              [flash[local[t].target] EXCEPT !.boot = ram.boot, !.sys = s]]
           \/ \E u \in Over(flash[local[t].target].user, ram.user) :
                 flash' = [flash EXCEPT ![local[t].target].user = u]
           \/ flash' = [flash EXCEPT ![local[t].target].crc = OverCrc(@, local[t].crc)]
    PROVE  flash' \in [Partitions -> Partition]
  <1> DEFINE p == flash[local[t].target]
  <1>1. /\ local[t].target \in Partitions /\ p \in Partition
        /\ flash \in [Partitions -> Partition]
        /\ ram.boot \in BootBytes /\ ram.sys \in SysConfig /\ ram.user \in UserData
        /\ local[t].crc \in CrcField
    BY DEF TypeOK
  <1>2. Blank \in Partition
    BY ParaFlashAssumption DEF Blank, Partition, BootBytes, SysBytes, UserBytes, CrcField
  <1>3. Over(p.sys, ram.sys) \subseteq SysBytes /\ Over(p.user, ram.user) \subseteq UserBytes
    BY <1>1 DEF Over, SysBytes, UserBytes
  <1>4. OverCrc(p.crc, local[t].crc) \in CrcField
    BY <1>1 DEF OverCrc, CrcField
  <1>5. CASE flash' = [flash EXCEPT ![local[t].target] = Blank]
    BY <1>1, <1>2, <1>5
  <1>6. ASSUME NEW s \in Over(p.sys, ram.sys),
               flash' = [flash EXCEPT ![local[t].target] = [p EXCEPT !.boot = ram.boot, !.sys = s]]
        PROVE  flash' \in [Partitions -> Partition]
    BY <1>1, <1>3, <1>6 DEF Partition
  <1>7. ASSUME NEW u \in Over(p.user, ram.user),
               flash' = [flash EXCEPT ![local[t].target].user = u]
        PROVE  flash' \in [Partitions -> Partition]
    BY <1>1, <1>3, <1>7 DEF Partition
  <1>8. CASE flash' = [flash EXCEPT ![local[t].target].crc = OverCrc(@, local[t].crc)]
    BY <1>1, <1>4, <1>8 DEF Partition
  <1>9. QED BY <1>5, <1>6, <1>7, <1>8

LEMMA TypeStep == TypeOK /\ [Next]_vars => TypeOK'
  <1> SUFFICES ASSUME TypeOK, [Next]_vars PROVE TypeOK'
    OBVIOUS
  <1> USE DEF Steps, FlashSteps
  <1>1. ASSUME NEW t \in Threads, Begin(t) \/ Report(t) \/ Receive(t) PROVE TypeOK'
    BY <1>1, GotoStep DEF TypeOK, Begin, Report, Receive
  <1>2. ASSUME NEW t \in Threads, Lock(t) PROVE TypeOK'
    BY <1>2, GotoStep DEF TypeOK, Lock, Locked
  <1>3. ASSUME NEW t \in Threads, UnlockEarly(t) \/ Unlock(t) PROVE TypeOK'
    BY <1>3, GotoStep DEF TypeOK, UnlockEarly, Unlock
  <1>4. ASSUME NEW t \in Threads, Touch(t) PROVE conflict' \in SUBSET Threads
    BY <1>4 DEF Touch, TypeOK, Updating
  <1>5. ASSUME NEW s \in Settings, ram' = [ram EXCEPT !.sys.settings = s]
        PROVE  ram' \in [boot : BootBytes, sys : SysConfig, user : UserData]
    BY <1>5 DEF TypeOK, SysConfig
  <1>6. ASSUME NEW t \in Threads, Edit(t) PROVE TypeOK'
    <2>1. PICK s \in Settings : /\ ram' = [ram EXCEPT !.sys.settings = s]
                                /\ Goto(t, AfterEdit(t, s # ram.sys.settings))
      BY <1>6 DEF Edit
    <2>2. AfterEdit(t, s # ram.sys.settings) \in Steps
      BY DEF AfterEdit
    <2>3. QED BY <1>4, <1>5, <1>6, <2>1, <2>2, GotoStep DEF TypeOK, Edit
  <1>7. ASSUME NEW t \in Threads, MarkConfigured(t) PROVE TypeOK'
    BY <1>4, <1>5, <1>7, GotoStep DEF TypeOK, MarkConfigured
  <1>8. ASSUME NEW t \in Threads, SoftwareReset(t) PROVE TypeOK'
    BY <1>4, <1>8 DEF TypeOK, SoftwareReset
  <1>9. ASSUME NEW t \in Threads, LoadSeed(t) PROVE TypeOK'
    <2>1. pc' \in [Threads -> Steps]
      BY <1>9, GotoStep DEF LoadSeed
    <2>2. local' \in [Threads -> [seed : Nat, crc : CrcField, target : Partitions]]
      BY <1>9 DEF TypeOK, LoadSeed
    <2>3. QED BY <1>4, <1>9, <2>1, <2>2 DEF TypeOK, LoadSeed
  <1>10. ASSUME NEW t \in Threads, StoreSeed(t) PROVE TypeOK'
    <2>1. pc' \in [Threads -> Steps]
      BY <1>10, GotoStep DEF StoreSeed
    <2>2. local[t].seed \in Nat
      BY DEF TypeOK
    <2>3. ram' \in [boot : BootBytes, sys : SysConfig, user : UserData]
      BY <1>10, <2>2 DEF TypeOK, StoreSeed, SysConfig
    <2>4. QED BY <1>4, <1>10, <2>1, <2>2, <2>3 DEF TypeOK, StoreSeed
  <1>11. ASSUME NEW t \in Threads, Sum(t) PROVE TypeOK'
    <2>1. pc' \in [Threads -> Steps]
      BY <1>11, GotoStep DEF Sum
    <2>2. Crc(ram.sys, ram.user) \in CrcField
      BY DEF TypeOK, Crc, CrcField, UserBytes
    <2>3. local' \in [Threads -> [seed : Nat, crc : CrcField, target : Partitions]]
      BY <1>11, <2>2 DEF TypeOK, Sum, Partitions
    <2>4. QED BY <1>4, <1>11, <2>1, <2>3 DEF TypeOK, Sum
  <1>12. ASSUME NEW t \in Threads, Erase(t) \/ WriteContent(t) \/ WriteUser(t) PROVE TypeOK'
    <2>1. pc' \in [Threads -> Steps]
      BY <1>12, GotoStep DEF Erase, WriteContent, WriteUser
    <2>2. flash' \in [Partitions -> Partition]
      BY <1>12, FlashStep DEF Erase, WriteContent, WriteUser
    <2>3. QED BY <1>4, <1>12, <2>1, <2>2 DEF TypeOK, Erase, WriteContent, WriteUser
  <1>13. ASSUME NEW t \in Threads, WriteCrc(t) PROVE TypeOK'
    <2>1. pc' \in [Threads -> Steps]
      BY <1>13, GotoStep DEF WriteCrc
    <2>2. flash' \in [Partitions -> Partition]
      BY <1>13, FlashStep DEF WriteCrc
    <2>3. local' \in [Threads -> [seed : Nat, crc : CrcField, target : Partitions]]
      BY <1>13 DEF TypeOK, WriteCrc, NoLocals, CrcField, Partitions
    <2>4. QED BY <1>4, <1>13, <2>1, <2>2, <2>3 DEF TypeOK, WriteCrc
  <1>14. CASE UNCHANGED vars
    BY <1>14 DEF TypeOK, vars
  <1>15. QED
    BY <1>1, <1>2, <1>3, <1>6, <1>7, <1>8, <1>9, <1>10, <1>11, <1>12, <1>13, <1>14
    DEF Next, Call, Update

\* Whatever the threads do, every variable keeps to its type; in particular RAM always
\* holds a real configuration.
THEOREM TypeCorrect == Spec => []TypeOK
  <1>1. QED BY InitType, TypeStep, PTL DEF Spec
-----------------------------------------------------------------------------
(* The mutex *)

LEMMA MutexInit == Init => MutexInv
  BY DEF Init, MutexInv, Inside, UpdateSteps, FlashSteps

\* A step of t that leaves the mutex alone keeps MutexInv if t may be where it goes.
LEMMA MutexFrame ==
    ASSUME TypeOK, MutexInv, NEW t \in Threads, mutex' = mutex,
           \A u \in Threads \ {t} : pc'[u] = pc[u],
           Inside(t)' => mutex = {t},
           pc'[t] \in {"early", "mark"} => Role[t] = "write"
    PROVE  MutexInv'
  <1> SUFFICES ASSUME NEW u \in Threads
               PROVE  /\ Inside(u)' => mutex' = {u}
                      /\ pc'[u] \in {"early", "mark"} => Role[u] = "write"
    BY DEF MutexInv
  <1>1. CASE u = t
    BY <1>1
  <1>2. CASE u # t
    BY <1>2 DEF MutexInv, Inside, Locker
  <1>3. QED BY <1>1, <1>2

LEMMA MutexStep == TypeOK /\ MutexInv /\ [Next]_vars => MutexInv'
  <1> SUFFICES ASSUME TypeOK, MutexInv, [Next]_vars PROVE MutexInv'
    OBVIOUS
  <1> USE DEF UpdateSteps, FlashSteps
  <1>1. ASSUME NEW t \in Threads, Begin(t) PROVE MutexInv'
    BY <1>1, GotoStep, MutexFrame DEF Begin, Inside
  <1>2. ASSUME NEW t \in Threads, Lock(t) PROVE MutexInv'
    <2>1. /\ mutex = {} /\ mutex' = {t} /\ pc'[t] \in {"report", "receive", "edit"}
          /\ \A u \in Threads \ {t} : pc'[u] = pc[u]
      BY <1>2, GotoStep DEF Lock, Locked
    <2>2. ASSUME NEW u \in Threads, u # t PROVE ~Inside(u)'
      BY <2>1, <2>2 DEF MutexInv, Inside, Locker
    <2>3. QED BY <2>1, <2>2 DEF MutexInv
  <1>3. ASSUME NEW t \in Threads, Report(t) \/ Receive(t) PROVE MutexInv'
    <2>1. /\ mutex' = mutex /\ pc'[t] \in {"unlock", "gone", "edit"}
          /\ \A u \in Threads \ {t} : pc'[u] = pc[u]
      BY <1>3, GotoStep DEF Report, Receive
    <2>2. mutex = {t}
      BY <1>3 DEF MutexInv, Inside, Report, Receive
    <2>3. QED BY <2>1, <2>2, MutexFrame
  <1>4. ASSUME NEW t \in Threads, UnlockEarly(t) \/ Unlock(t) PROVE MutexInv'
    <2>1. /\ pc'[t] \in {"mark", "idle"}
          /\ \A u \in Threads \ {t} : pc'[u] = pc[u]
      BY <1>4, GotoStep DEF UnlockEarly, Unlock
    <2>2. mutex = {t} /\ (pc'[t] = "mark" => Role[t] = "write")
      BY <1>4, GotoStep DEF MutexInv, Inside, UnlockEarly, Unlock
    <2>3. ASSUME NEW u \in Threads \ {t} PROVE ~Inside(u) /\ ~Inside(u)'
      BY <2>1, <2>2 DEF MutexInv, Inside, Locker
    <2>4. QED BY <2>1, <2>2, <2>3 DEF MutexInv, Inside
  <1>5. ASSUME NEW t \in Threads, Edit(t) PROVE MutexInv'
    <2>1. PICK step : Goto(t, step) /\ \E changed \in BOOLEAN : step = AfterEdit(t, changed)
      BY <1>5 DEF Edit
    <2>2. /\ mutex' = mutex /\ pc[t] = "edit" /\ pc'[t] = step
          /\ \A u \in Threads \ {t} : pc'[u] = pc[u]
      BY <1>5, <2>1, GotoStep DEF Edit
    <2>3. /\ step \in {"unlock", "seed", "early"} /\ (step = "early" => Role[t] = "write")
          /\ step # "seed" => Role[t] # "station"
      BY <2>1 DEF AfterEdit
    <2>4. Inside(t)' => Role[t] # "station"
      BY <2>2, <2>3 DEF Inside, Locker
    <2>5. QED BY <2>2, <2>3, <2>4, MutexFrame DEF MutexInv, Inside
  <1>6. ASSUME NEW t \in Threads, MarkConfigured(t) PROVE MutexInv'
    <2>1. /\ mutex' = mutex /\ pc'[t] = "seed" /\ Role[t] = "write"
          /\ \A u \in Threads \ {t} : pc'[u] = pc[u]
      BY <1>6, GotoStep DEF MarkConfigured, MutexInv
    <2>2. QED BY <2>1, MutexFrame DEF Inside, Locker
  <1>7. ASSUME NEW t \in Threads, Update(t) PROVE MutexInv'
    <2>1. /\ mutex' = mutex /\ pc[t] \in UpdateSteps \cup {"seed"}
          /\ \E step \in UpdateSteps \cup {"unlock", "idle", "resetting"} :
                Goto(t, step) /\ (step = "unlock" => Locker(t))
      <3>1. CASE WriteCrc(t)
        BY <3>1 DEF WriteCrc, Locker
      <3>2. CASE ~WriteCrc(t)
        <4>1. mutex' = mutex /\ pc[t] \in UpdateSteps \cup {"seed"}
          BY <1>7, <3>2
          DEF Update, LoadSeed, StoreSeed, Sum, Erase, WriteContent, WriteUser
        <4>2. \/ Goto(t, "begin") \/ Goto(t, "sum") \/ Goto(t, "erase")
              \/ Goto(t, "content") \/ Goto(t, "user") \/ Goto(t, "crc")
          BY <1>7, <3>2
          DEF Update, LoadSeed, StoreSeed, Sum, Erase, WriteContent, WriteUser
        <4>3. QED BY <4>1, <4>2
      <3>3. QED BY <3>1, <3>2
    <2>2. /\ pc'[t] \in UpdateSteps \cup {"unlock", "idle", "resetting"}
          /\ pc'[t] = "unlock" => Locker(t)
          /\ \A u \in Threads \ {t} : pc'[u] = pc[u]
      BY <2>1, GotoStep
    <2>3. Locker(t) => mutex = {t}
      BY <2>1 DEF MutexInv, Inside
    <2>4. QED BY <2>1, <2>2, <2>3, MutexFrame DEF Inside
  <1>8. ASSUME NEW t \in Threads, SoftwareReset(t) PROVE MutexInv'
    BY <1>8 DEF SoftwareReset, MutexInv, Inside
  <1>9. CASE UNCHANGED vars
    BY <1>9 DEF vars, MutexInv, Inside, Locker
  <1>10. QED BY <1>1, <1>2, <1>3, <1>4, <1>5, <1>6, <1>7, <1>8, <1>9 DEF Next, Call

\* Whoever holds the mutex through an update is disturbed by, and disturbs, only those
\* that do not.
LEMMA ConflictStep ==
    ASSUME TypeOK, MutexInv, LockersNeverConflict, NEW t \in Threads, Touch(t),
           pc[t] \in UpdateSteps \cup {"edit", "mark", "seed", "resetting"}
    PROVE  LockersNeverConflict'
  <1>1. CASE conflict' = conflict
    BY <1>1 DEF LockersNeverConflict
  <1>2. CASE conflict' # conflict
    <2>1. conflict' = {t} \cup Updating /\ Updating \ {t} # {}
      BY <1>2 DEF Touch
    <2>2. PICK u \in Threads : u \in Updating /\ u # t
      BY <2>1 DEF Updating
    <2>3. Locker(t) => mutex = {t}
      BY DEF MutexInv, Inside, Locker
    <2>4. Locker(u) => mutex = {u}
      BY <2>2 DEF MutexInv, Inside, Updating, UpdateSteps
    <2>5. ~Locker(t) \/ ~Locker(u)
      BY <2>2, <2>3, <2>4
    <2>6. QED BY <2>1, <2>2, <2>5 DEF LockersNeverConflict, Locker
  <1>3. QED BY <1>1, <1>2

\* The mutex does what it is there for: an update and another access to the configuration
\* only ever conflict if one of the two is of those that update without it.
THEOREM LockersExclude == Spec => []LockersNeverConflict
  <1>1. Init => LockersNeverConflict
    BY DEF Init, LockersNeverConflict
  <1>2. TypeOK /\ MutexInv /\ LockersNeverConflict /\ [Next]_vars => LockersNeverConflict'
    <2> SUFFICES ASSUME TypeOK, MutexInv, LockersNeverConflict, [Next]_vars
                 PROVE  LockersNeverConflict'
      OBVIOUS
    <2>1. CASE conflict' = conflict
      BY <2>1 DEF LockersNeverConflict
    <2>2. ASSUME NEW t \in Threads, Edit(t) \/ MarkConfigured(t) \/ SoftwareReset(t) \/ Update(t)
          PROVE  LockersNeverConflict'
      BY <2>2, ConflictStep
      DEF Edit, MarkConfigured, SoftwareReset, Update, LoadSeed, StoreSeed, Sum, Erase,
          WriteContent, WriteUser, WriteCrc, UpdateSteps, FlashSteps
    <2>3. QED
      BY <2>1, <2>2
      DEF Next, Call, vars, Begin, Lock, Report, Receive, UnlockEarly, Unlock
  <1>3. QED BY <1>1, <1>2, MutexInit, MutexStep, InitType, TypeStep, PTL DEF Spec
-----------------------------------------------------------------------------
(* The copies *)

\* A partition is what its fields are.
LEMMA PartitionFields ==
    ASSUME NEW p \in Partition
    PROVE  p = [boot |-> p.boot, sys |-> p.sys, user |-> p.user, crc |-> p.crc]
  BY DEF Partition

LEMMA InitInv == Init => IInv
  <1> SUFFICES ASSUME Init PROVE IInv
    OBVIOUS
  <1>1. TypeOK
    BY InitType
  <1>2. Updating = {}
    BY DEF Init, Updating, FlashSteps
  <1>3. Copies
    BY InRamIntact DEF Init, Copies, main, backup, Partitions
  <1>4. SeedInv
    BY DEF Init, SeedInv
  <1>5. QED BY <1>1, <1>2, <1>3, <1>4 DEF IInv, CopiesInv

\* Steps outside the updates that touch neither RAM nor flash.
LEMMA Untouched ==
    ASSUME IInv, NEW t \in Threads, UNCHANGED <<flash, ram, seedNum, local, conflict>>,
           pc[t] \notin UpdateSteps, pc'[t] \notin UpdateSteps,
           \A u \in Threads \ {t} : pc'[u] = pc[u]
    PROVE  CopiesInv' /\ SeedInv'
  <1>1. Updating' = Updating /\ \A u \in Updating : pc'[u] = pc[u]
    BY DEF Updating, UpdateSteps
  <1>2. CopiesInv'
    <2>1. \A u \in Updating : Progress(u) => Progress(u)'
      BY <1>1 DEF Progress, Copies, InRam, main, backup
    <2>2. QED BY <1>1, <2>1 DEF IInv, CopiesInv, Copies, main, backup
  <1>3. SeedInv'
    BY DEF IInv, SeedInv, UpdateSteps
  <1>4. QED BY <1>2, <1>3

\* A thread that touches the configuration and conflicts with none is alone.
LEMMA Alone ==
    ASSUME IInv, NEW t \in Threads, Touch(t), conflict' = {},
           \A u \in Threads \ {t} : pc'[u] = pc[u]
    PROVE  /\ conflict = {}
           /\ pc[t] \notin UpdateSteps => Copies
           /\ pc[t] \in UpdateSteps => Progress(t)
           /\ \A u \in Threads \ {t} : pc[u] \notin UpdateSteps /\ pc'[u] \notin UpdateSteps
           /\ Updating' = IF pc'[t] \in UpdateSteps THEN {t} ELSE {}
  <1>1. conflict = {} /\ Updating \subseteq {t}
    BY TouchStep
  <1>2. Updating = {u \in Threads : pc[u] \in UpdateSteps}
    BY DEF Updating, UpdateSteps
  <1>3. Updating' = {u \in Threads : pc'[u] \in UpdateSteps}
    BY DEF Updating, UpdateSteps
  <1>4. \A u \in Threads \ {t} : pc[u] \notin UpdateSteps /\ pc'[u] \notin UpdateSteps
    BY <1>1, <1>2
  <1>5. Updating' = IF pc'[t] \in UpdateSteps THEN {t} ELSE {}
    BY <1>3, <1>4
  <1>6. QED BY <1>1, <1>2, <1>4, <1>5 DEF IInv, CopiesInv

LEMMA AloneInv ==
    ASSUME NEW t \in Threads, Updating' = IF pc'[t] \in UpdateSteps THEN {t} ELSE {},
           pc'[t] \in UpdateSteps => Progress(t)',
           pc'[t] \notin UpdateSteps => Copies'
    PROVE  CopiesInv'
  BY DEF CopiesInv

LEMMA CopiesStep == IInv /\ [Next]_vars => CopiesInv'
  <1> SUFFICES ASSUME IInv, [Next]_vars, conflict' = {} PROVE CopiesInv'
    BY DEF CopiesInv
  <1>0. TypeOK
    BY DEF IInv
  <1> USE DEF UpdateSteps, FlashSteps
  <1>1. ASSUME NEW t \in Threads,
               Begin(t) \/ Lock(t) \/ Report(t) \/ Receive(t) \/ UnlockEarly(t) \/ Unlock(t)
        PROVE  CopiesInv'
    BY <1>0, <1>1, GotoStep, Untouched
    DEF Begin, Lock, Locked, Report, Receive, UnlockEarly, Unlock
  <1>2. ASSUME NEW t \in Threads, Edit(t) \/ MarkConfigured(t) PROVE CopiesInv'
    <2>1. /\ Touch(t) /\ pc[t] \notin UpdateSteps /\ UNCHANGED flash
          /\ \E step \in {"unlock", "seed", "early"} : Goto(t, step)
      BY <1>2 DEF Edit, MarkConfigured, AfterEdit
    <2>2. pc'[t] \notin UpdateSteps /\ \A u \in Threads \ {t} : pc'[u] = pc[u]
      BY <1>0, <2>1, GotoStep
    <2>3. QED BY <2>1, <2>2, Alone, AloneInv DEF Copies, main, backup
  <1>3. ASSUME NEW t \in Threads, SoftwareReset(t) PROVE CopiesInv'
    <2>1. Updating = {} /\ conflict = {}
      BY <1>0, <1>3, TouchStep DEF SoftwareReset, Updating
    <2>2. Updating' = {}
      BY <1>3 DEF SoftwareReset, Updating
    <2>3. QED BY <1>3, <2>1, <2>2 DEF SoftwareReset, IInv, CopiesInv, Copies, main, backup
  <1>4. ASSUME NEW t \in Threads, LoadSeed(t) PROVE CopiesInv'
    <2>1. /\ Touch(t) /\ pc[t] \notin UpdateSteps /\ UNCHANGED flash /\ pc'[t] = "begin"
          /\ \A u \in Threads \ {t} : pc'[u] = pc[u]
      BY <1>0, <1>4, GotoStep DEF LoadSeed
    <2>2. QED BY <2>1, Alone, AloneInv DEF Progress, Copies, main, backup
  <1>5. ASSUME NEW t \in Threads, StoreSeed(t) PROVE CopiesInv'
    <2>1. /\ Touch(t) /\ pc[t] = "begin" /\ UNCHANGED flash /\ pc'[t] = "sum"
          /\ \A u \in Threads \ {t} : pc'[u] = pc[u]
      BY <1>0, <1>5, GotoStep DEF StoreSeed
    <2>2. QED BY <2>1, Alone, AloneInv DEF Progress, Copies, main, backup
  <1>6. ASSUME NEW t \in Threads, Sum(t) PROVE CopiesInv'
    <2>1. /\ Touch(t) /\ pc[t] = "sum" /\ UNCHANGED <<flash, ram>> /\ pc'[t] = "erase"
          /\ \A u \in Threads \ {t} : pc'[u] = pc[u]
      BY <1>0, <1>6, GotoStep DEF Sum
    <2>2. local'[t].crc = Crc(ram.sys, ram.user) /\ local'[t].target = "main"
      BY <1>0, <1>6 DEF Sum, TypeOK
    <2>3. QED BY <2>1, <2>2, Alone, AloneInv DEF Progress
  <1>7. ASSUME NEW t \in Threads, Erase(t) PROVE CopiesInv'
    <2>1. /\ Touch(t) /\ pc[t] = "erase" /\ UNCHANGED <<ram, local>> /\ pc'[t] = "content"
          /\ \A u \in Threads \ {t} : pc'[u] = pc[u]
      BY <1>0, <1>7, GotoStep DEF Erase
    <2>2. Progress(t)
      BY <2>1, Alone
    <2>3. /\ flash'[local[t].target] = Blank
          /\ local[t].target = "backup" => main' = main
      BY <1>0, <1>7 DEF Erase, TypeOK, main, Partitions
    <2>4. Progress(t)'
      BY <2>1, <2>2, <2>3 DEF Progress, InRam
    <2>5. QED BY <2>1, <2>4, Alone, AloneInv
  <1>8. ASSUME NEW t \in Threads, WriteContent(t) PROVE CopiesInv'
    <2>1. /\ Touch(t) /\ pc[t] = "content" /\ UNCHANGED <<ram, local>> /\ pc'[t] = "user"
          /\ \A u \in Threads \ {t} : pc'[u] = pc[u]
      BY <1>0, <1>8, GotoStep DEF WriteContent
    <2>2. Progress(t)
      BY <2>1, Alone
    <2>3. flash[local[t].target] = Blank
      BY <2>1, <2>2 DEF Progress
    <2> DEFINE p == flash[local[t].target]
    <2>4. PICK s \in Over(p.sys, ram.sys) :
             flash' = [flash EXCEPT ![local[t].target] = [p EXCEPT !.boot = ram.boot, !.sys = s]]
      BY <1>8 DEF WriteContent
    <2>5. s = ram.sys
      BY <2>3, <2>4 DEF Over, Blank
    <2> DEFINE q == [p EXCEPT !.boot = ram.boot, !.sys = s]
    <2>6. q = [boot |-> ram.boot, sys |-> ram.sys, user |-> Erased, crc |-> {}]
      <3>1. p \in Partition /\ ram.boot \in BootBytes /\ ram.sys \in SysBytes
        BY <1>0 DEF TypeOK, SysBytes
      <3>2. p.user = Erased /\ p.crc = {}
        BY <2>3 DEF Blank
      <3> HIDE DEF p
      <3>3. q \in Partition /\ q.boot = ram.boot /\ q.sys = ram.sys /\ q.user = Erased /\ q.crc = {}
        BY <2>5, <3>1, <3>2 DEF Partition
      <3> HIDE DEF q
      <3>4. QED BY <3>3, PartitionFields
    <2>7. /\ flash'[local[t].target] = [boot |-> ram.boot, sys |-> ram.sys, user |-> Erased, crc |-> {}]
          /\ local[t].target = "backup" => main' = main
      BY <1>0, <2>4, <2>6 DEF TypeOK, main, Partitions
    <2>8. Progress(t)'
      BY <2>1, <2>2, <2>7 DEF Progress, InRam
    <2>9. QED BY <2>1, <2>8, Alone, AloneInv
  <1>9. ASSUME NEW t \in Threads, WriteUser(t) PROVE CopiesInv'
    <2>1. /\ Touch(t) /\ pc[t] = "user" /\ UNCHANGED <<ram, local>> /\ pc'[t] = "crc"
          /\ \A u \in Threads \ {t} : pc'[u] = pc[u]
      BY <1>0, <1>9, GotoStep DEF WriteUser
    <2>2. Progress(t)
      BY <2>1, Alone
    <2>3. flash[local[t].target] = [boot |-> ram.boot, sys |-> ram.sys, user |-> Erased, crc |-> {}]
      BY <2>1, <2>2 DEF Progress
    <2>4. PICK u \in Over(flash[local[t].target].user, ram.user) :
             flash' = [flash EXCEPT ![local[t].target].user = u]
      BY <1>9 DEF WriteUser
    <2>5. u = ram.user
      BY <2>3, <2>4 DEF Over
    <2> DEFINE p == flash[local[t].target]
               q == [p EXCEPT !.user = u]
    <2>6. /\ flash'[local[t].target]
                = [boot |-> ram.boot, sys |-> ram.sys, user |-> ram.user, crc |-> {}]
          /\ local[t].target = "backup" => main' = main
      <3>1. p \in Partition /\ ram.user \in UserBytes
        BY <1>0 DEF TypeOK, UserBytes
      <3>2. p.boot = ram.boot /\ p.sys = ram.sys /\ p.crc = {}
        BY <2>3
      <3>3. /\ flash'[local[t].target] = q
            /\ local[t].target = "backup" => main' = main
        BY <1>0, <2>4 DEF TypeOK, main, Partitions
      <3> HIDE DEF p
      <3>4. q \in Partition /\ q.boot = ram.boot /\ q.sys = ram.sys /\ q.user = ram.user /\ q.crc = {}
        BY <2>5, <3>1, <3>2 DEF Partition
      <3> HIDE DEF q
      <3>5. q = [boot |-> ram.boot, sys |-> ram.sys, user |-> ram.user, crc |-> {}]
        BY <3>4, PartitionFields
      <3>6. QED BY <3>3, <3>5
    <2>7. Progress(t)'
      BY <2>1, <2>2, <2>6 DEF Progress, InRam
    <2>8. QED BY <2>1, <2>7, Alone, AloneInv
  <1>10. ASSUME NEW t \in Threads, WriteCrc(t) PROVE CopiesInv'
    <2>1. /\ Touch(t) /\ pc[t] = "crc" /\ UNCHANGED ram
          /\ \E step \in {"erase", "unlock", "idle", "resetting"} : Goto(t, step)
      BY <1>10 DEF WriteCrc
    <2>2. \A u \in Threads \ {t} : pc'[u] = pc[u]
      BY <1>0, <2>1, GotoStep
    <2>3. Progress(t)
      BY <2>1, <2>2, Alone
    <2>4. /\ local[t].crc = Crc(ram.sys, ram.user)
          /\ flash[local[t].target]
                = [boot |-> ram.boot, sys |-> ram.sys, user |-> ram.user, crc |-> {}]
      BY <2>1, <2>3 DEF Progress
    <2>5. OverCrc({}, local[t].crc) = local[t].crc
      BY DEF OverCrc
    <2>6. flash'[local[t].target] = InRam
      BY <1>0, <1>10, <2>4, <2>5 DEF WriteCrc, TypeOK, InRam
    <2>7. InRam' = InRam /\ Intact(InRam)
      BY <2>1, InRamIntact DEF InRam
    <2>8. CASE local[t].target = "main"
      <3>1. pc'[t] = "erase" /\ local'[t].target = "backup" /\ local'[t].crc = local[t].crc
        BY <1>0, <1>10, <2>8, GotoStep DEF WriteCrc, TypeOK
      <3>2. Progress(t)'
        BY <2>1, <2>4, <2>6, <2>7, <2>8, <3>1 DEF Progress, main
      <3>3. QED BY <2>1, <2>2, <3>1, <3>2, Alone, AloneInv
    <2>9. CASE local[t].target = "backup"
      <3>1. pc'[t] \notin UpdateSteps
        BY <1>0, <1>10, <2>9, GotoStep DEF WriteCrc
      <3>2. main' = main /\ main = InRam /\ backup' = InRam
        BY <1>0, <1>10, <2>1, <2>3, <2>6, <2>9 DEF WriteCrc, TypeOK, Progress, main, backup, Partitions
      <3>3. QED BY <2>1, <2>2, <2>7, <3>1, <3>2, Alone, AloneInv DEF Copies
    <2>10. QED BY <1>0, <2>8, <2>9 DEF TypeOK, Partitions
  <1>11. CASE UNCHANGED vars
    <2>1. Updating' = Updating
      BY <1>11 DEF vars, Updating
    <2>2. \A u \in Updating : Progress(u) => Progress(u)'
      BY <1>11 DEF vars, Progress, Copies, InRam, main, backup
    <2>3. QED BY <1>11, <2>1, <2>2 DEF vars, IInv, CopiesInv, Copies, main, backup
  <1>12. QED
    BY <1>1, <1>2, <1>3, <1>4, <1>5, <1>6, <1>7, <1>8, <1>9, <1>10, <1>11
    DEF Next, Call, Update
-----------------------------------------------------------------------------
(* The seeds *)

\* A step of t that changes no seed but its own.
LEMMA SeedFrame ==
    ASSUME IInv, TypeOK', NEW t \in Threads, Touch(t), conflict' = {},
           ram'.sys.seed = ram.sys.seed, seedNum' = seedNum,
           \A p \in Partitions :
              flash'[p].sys \in SysConfig => flash'[p].sys \in {flash[p].sys, ram.sys},
           \A u \in Threads \ {t} : pc'[u] = pc[u],
           pc'[t] = "begin" => local'[t].seed = seedNum + 1
    PROVE  SeedInv'
  <1>1. conflict = {} /\ \A u \in Threads \ {t} : pc'[u] \notin UpdateSteps
    BY Alone
  <1>2. SeedInv
    BY DEF IInv
  <1>3. QED BY <1>1, <1>2 DEF SeedInv, UpdateSteps

LEMMA SeedStep == IInv /\ TypeOK' /\ [Next]_vars => SeedInv'
  <1> SUFFICES ASSUME IInv, TypeOK', [Next]_vars, conflict' = {} PROVE SeedInv'
    BY DEF SeedInv
  <1>0. TypeOK
    BY DEF IInv
  <1> USE DEF UpdateSteps, FlashSteps
  <1>1. ASSUME NEW t \in Threads,
               Begin(t) \/ Lock(t) \/ Report(t) \/ Receive(t) \/ UnlockEarly(t) \/ Unlock(t)
        PROVE  SeedInv'
    BY <1>0, <1>1, GotoStep, Untouched
    DEF Begin, Lock, Locked, Report, Receive, UnlockEarly, Unlock
  <1>2. ASSUME NEW t \in Threads, Edit(t) \/ MarkConfigured(t) PROVE SeedInv'
    <2>1. /\ Touch(t) /\ UNCHANGED <<flash, seedNum>>
          /\ \E s \in Settings : ram' = [ram EXCEPT !.sys.settings = s]
          /\ \E step \in {"unlock", "seed", "early"} : Goto(t, step)
      BY <1>2 DEF Edit, MarkConfigured, AfterEdit
    <2>2. pc'[t] # "begin" /\ \A u \in Threads \ {t} : pc'[u] = pc[u]
      BY <1>0, <2>1, GotoStep
    <2>3. ram'.sys.seed = ram.sys.seed
      BY <1>0, <2>1 DEF TypeOK, SysConfig
    <2>4. QED BY <2>1, <2>2, <2>3, SeedFrame
  <1>3. ASSUME NEW t \in Threads, SoftwareReset(t) PROVE SeedInv'
    <2>1. conflict = {}
      BY <1>3, TouchStep DEF SoftwareReset
    <2>2. QED BY <1>3, <2>1 DEF SoftwareReset, IInv, SeedInv
  <1>4. ASSUME NEW t \in Threads, LoadSeed(t) PROVE SeedInv'
    <2>1. /\ Touch(t) /\ UNCHANGED <<flash, ram, seedNum>>
          /\ \A u \in Threads \ {t} : pc'[u] = pc[u]
      BY <1>0, <1>4, GotoStep DEF LoadSeed
    <2>2. local'[t].seed = seedNum + 1
      BY <1>0, <1>4 DEF LoadSeed, TypeOK
    <2>3. QED BY <2>1, <2>2, SeedFrame
  <1>5. ASSUME NEW t \in Threads, StoreSeed(t) PROVE SeedInv'
    <2>1. /\ Touch(t) /\ pc[t] = "begin" /\ pc'[t] = "sum" /\ UNCHANGED flash
          /\ \A u \in Threads \ {t} : pc'[u] = pc[u]
      BY <1>0, <1>5, GotoStep DEF StoreSeed
    <2>2. conflict = {} /\ \A u \in Threads \ {t} : pc'[u] \notin UpdateSteps
      BY <2>1, Alone
    <2>3. seedNum' = seedNum + 1 /\ ram'.sys.seed = seedNum + 1
      BY <1>0, <1>5, <2>1, <2>2 DEF StoreSeed, IInv, SeedInv, TypeOK, SysConfig
    <2>4. seedNum \in Nat /\ \A p \in Partitions : flash[p].sys \in SysConfig => flash[p].sys.seed \in Nat
      BY <1>0 DEF TypeOK, SysConfig
    <2>5. \A p \in Partitions : flash[p].sys \in SysConfig => flash[p].sys.seed <= seedNum
      BY <2>2 DEF IInv, SeedInv
    <2>6. QED BY <2>1, <2>2, <2>3, <2>4, <2>5 DEF SeedInv
  <1>6. ASSUME NEW t \in Threads, Sum(t) PROVE SeedInv'
    BY <1>0, <1>6, GotoStep, SeedFrame DEF Sum
  <1>7. ASSUME NEW t \in Threads, Erase(t) \/ WriteContent(t) \/ WriteUser(t) \/ WriteCrc(t)
        PROVE  SeedInv'
    <2>1. /\ Touch(t) /\ UNCHANGED <<ram, seedNum>>
          /\ \E step \in Steps \ {"begin"} : Goto(t, step)
      BY <1>7 DEF Erase, WriteContent, WriteUser, WriteCrc, Steps
    <2>2. pc'[t] # "begin" /\ \A u \in Threads \ {t} : pc'[u] = pc[u]
      BY <1>0, <2>1, GotoStep
    <2>3. ASSUME NEW p \in Partitions, flash'[p].sys \in SysConfig
          PROVE  flash'[p].sys \in {flash[p].sys, ram.sys}
      <3>1. CASE p # local[t].target
        BY <1>0, <1>7, <3>1 DEF Erase, WriteContent, WriteUser, WriteCrc, TypeOK
      <3>2. CASE p = local[t].target /\ Erase(t)
        BY <1>0, <2>3, <3>2, ParaFlashAssumption DEF Erase, TypeOK, Blank
      <3>3. CASE p = local[t].target /\ WriteContent(t)
        <4>1. PICK s \in Over(flash[p].sys, ram.sys) :
                 flash' = [flash EXCEPT ![p] = [flash[p] EXCEPT !.boot = ram.boot, !.sys = s]]
          BY <3>3 DEF WriteContent
        <4>2. flash[p] \in Partition /\ flash \in [Partitions -> Partition]
          BY <1>0 DEF TypeOK
        <4>3. flash'[p].sys = s
          BY <4>1, <4>2 DEF Partition
        <4>4. QED BY <2>3, <4>1, <4>3, ParaFlashAssumption DEF Over
      <3>4. CASE p = local[t].target /\ (WriteUser(t) \/ WriteCrc(t))
        <4>1. \/ \E u : flash' = [flash EXCEPT ![p].user = u]
              \/ \E c : flash' = [flash EXCEPT ![p].crc = c]
          BY <3>4 DEF WriteUser, WriteCrc
        <4>2. flash[p] \in Partition /\ flash \in [Partitions -> Partition]
          BY <1>0 DEF TypeOK
        <4>3. QED BY <4>1, <4>2 DEF Partition
      <3>5. QED BY <1>7, <3>1, <3>2, <3>3, <3>4
    <2>4. QED BY <2>1, <2>2, <2>3, SeedFrame
  <1>8. CASE UNCHANGED vars
    BY <1>8 DEF vars, IInv, SeedInv
  <1>9. QED
    BY <1>1, <1>2, <1>3, <1>4, <1>5, <1>6, <1>7, <1>8
    DEF Next, Call, Update

\* IInv holds in every reachable state.
THEOREM Invariance == Spec => []IInv
  <1>1. IInv /\ [Next]_vars => IInv'
    BY TypeStep, CopiesStep, SeedStep DEF IInv
  <1>2. QED BY <1>1, InitInv, PTL DEF Spec

\* Whoever updates the configuration, and however many do, the two copies are whole and
\* the same at rest as long as no two of them were in conflict.
THEOREM CopiesAgreeAtRest == Spec => []CopiesAgree
  <1>1. IInv => CopiesAgree
    BY DEF IInv, CopiesInv, Copies, CopiesAgree, main, backup, Partitions
  <1>2. QED BY <1>1, Invariance, PTL

\* An update that conflicted with none numbers the configuration beyond both copies.
THEOREM SeedsAlwaysGrow == Spec => SeedsGrow
  <1>1. IInv /\ [Next]_vars =>
          [\A t \in Threads : StoreSeed(t) /\ conflict' = {} =>
              \A p \in Partitions : local[t].seed > flash[p].sys.seed]_vars
    <2> SUFFICES ASSUME IInv, NEW t \in Threads, StoreSeed(t), conflict' = {},
                        NEW p \in Partitions
                 PROVE  local[t].seed > flash[p].sys.seed
      OBVIOUS
    <2>1. TypeOK /\ CopiesInv /\ SeedInv
      BY DEF IInv
    <2>2. /\ Touch(t) /\ pc[t] = "begin" /\ \A u \in Threads \ {t} : pc'[u] = pc[u]
      BY <2>1, GotoStep DEF StoreSeed
    <2>3. conflict = {} /\ Progress(t)
      BY <2>2, Alone DEF UpdateSteps
    <2>4. Intact(flash[p]) /\ flash[p] \in Partition
      BY <2>1, <2>2, <2>3 DEF Progress, Copies, main, backup, Partitions, TypeOK
    <2>5. flash[p].sys \in SysConfig /\ flash[p].sys.seed \in Nat
      BY <2>4, IntactSys DEF SysConfig
    <2>6. flash[p].sys.seed <= seedNum /\ local[t].seed = seedNum + 1 /\ seedNum \in Nat
      BY <2>1, <2>2, <2>3, <2>5 DEF SeedInv, TypeOK
    <2>7. QED BY <2>5, <2>6
  <1>2. QED BY <1>1, Invariance, PTL DEF Spec, SeedsGrow
=============================================================================
