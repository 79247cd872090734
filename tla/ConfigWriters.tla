---------------------------- MODULE ConfigWriters ----------------------------
(***************************************************************************)
(* The threads of the running system that share flashContentInRam and call *)
(* mico_system_context_update.  Some take flashContentInRam_mutex for the  *)
(* edit and the update, some for the edit only, some not at all; the flash *)
(* driver's own mutex makes single flash operations atomic, not updates.   *)
(*                                                                         *)
(* Power cuts, failing flash operations and a CRC of 0 are ParaStorage's.  *)
(***************************************************************************)
EXTENDS ParaFlash, FiniteSets

CONSTANTS Threads,        \* threads, callbacks' threads included
          Role,           \* what each of them runs
          MaxSeed         \* bound on seedNum

Roles == {"para",     \* micoNotify_WiFIParaChangedHandler
          "fog",      \* fogCloud.c and MicoFogCloud.c: lock, edit, update, unlock
          "step1",    \* EasyLinkNotify_EasyLinkCompleteHandler: edits only
          "report",   \* configuration server, /config-read
          "write",    \* configuration server, /config-write
          "ota",      \* configuration server, /OTA
          "station"}  \* EasyLinkNotify_WifiStatusHandler and the power daemon

ASSUME ConfigWritersAssumption ==
    /\ Role \in [Threads -> Roles]
    /\ IsFiniteSet(Threads)
    /\ MaxSeed \in Nat
    /\ ZeroCrc = {}

VARIABLES flash,    \* the two partitions
          ram,      \* flashContentInRam and user_config_data
          seedNum,  \* static int32_t seedNum
          mutex,    \* flashContentInRam_mutex: its holder, or {}
          pc,       \* the step of each thread
          local,    \* the locals of each thread's update
          conflict  \* history: the threads of the first conflict, one that touched RAM or
                    \* flash or reset the system and those that were updating

vars == <<flash, ram, seedNum, mutex, pc, local, conflict>>

FlashSteps == {"erase", "content", "user", "crc"}
Steps == FlashSteps \cup {"idle", "lock", "report", "receive", "edit", "early", "mark", "seed", "begin",
                          "sum", "unlock", "resetting", "off", "gone"}

NoLocals == [seed |-> 0, crc |-> {}, target |-> "main"]

\* A set up device at rest.
Init ==
    /\ ram = [boot |-> "zero", sys |-> [seed |-> 0, settings |-> DefaultSettings],
              user |-> DefaultUserData]
    /\ flash = [p \in Partitions |->
                   [boot |-> ram.boot, sys |-> ram.sys, user |-> ram.user,
                    crc |-> Crc(ram.sys, ram.user)]]
    /\ seedNum = 0
    /\ mutex = {}
    /\ pc = [t \in Threads |-> "idle"]
    /\ local = [t \in Threads |-> NoLocals]
    /\ conflict = {}

Goto(t, step) == pc' = [pc EXCEPT ![t] = step]

\* Threads between ++seedNum and the last write.
Updating == {t \in Threads : pc[t] \in FlashSteps \cup {"begin", "sum"}}

\* t works on the configuration, or resets, maybe while others update it.
Touch(t) ==
    LET others == Updating \ {t} IN
    conflict' = IF conflict = {} /\ others # {} THEN {t} \cup others ELSE conflict
-----------------------------------------------------------------------------
(* The callers *)

\* Bound: no new call that could take seedNum beyond MaxSeed.
Busy == {t \in Threads : pc[t] # "idle"}

\* An event, a request or a button makes t begin.
Begin(t) ==
    /\ pc[t] = "idle"
    /\ seedNum + Cardinality(Busy) < MaxSeed
    /\ Goto(t, IF Role[t] = "station" THEN "edit" ELSE "lock")
    /\ UNCHANGED <<flash, ram, seedNum, mutex, local, conflict>>

\* The first step under the mutex.
Locked(t) ==
    CASE Role[t] = "report" -> "report"
      [] Role[t] = "ota" -> "receive"
      [] OTHER -> "edit"

\* Mutant of Lock: the mutex is not waited for.
LockAnyway(t) ==
    /\ pc[t] = "lock"
    /\ mutex' = {t}
    /\ Goto(t, Locked(t))
    /\ UNCHANGED <<flash, ram, seedNum, local, conflict>>

Lock(t) ==
    /\ pc[t] = "lock"
    /\ mutex = {} /\ mutex' = {t}
    /\ Goto(t, Locked(t))
    /\ UNCHANGED <<flash, ram, seedNum, local, conflict>>

\* The report is made under the mutex; require(..., exit) leaves with it locked and the
\* client's thread ends.
Report(t) ==
    /\ pc[t] = "report"
    /\ \/ Goto(t, "unlock")
       \/ Goto(t, "gone")
    /\ UNCHANGED <<flash, ram, seedNum, mutex, local, conflict>>

\* The image is received under the mutex, which onClearHTTPHeader gives back when the
\* connection is lost.  A chunked upload waits for the peer without a time-out.
Receive(t) ==
    /\ pc[t] = "receive"
    /\ \/ Goto(t, "edit")
       \/ Goto(t, "unlock")
    /\ UNCHANGED <<flash, ram, seedNum, mutex, local, conflict>>

AfterEdit(t, changed) ==
    CASE Role[t] = "step1" -> "unlock"
      [] Role[t] = "para" -> IF changed THEN "seed" ELSE "unlock"
      [] Role[t] = "write" -> "early"
      [] OTHER -> "seed"

\* The fields a call sets.
Edit(t) ==
    /\ pc[t] = "edit"
    /\ \E s \in Settings :
          /\ ram' = [ram EXCEPT !.sys.settings = s]
          /\ Goto(t, AfterEdit(t, s # ram.sys.settings))
    /\ Touch(t)
    /\ UNCHANGED <<flash, seedNum, mutex, local>>

\* /config-write gives the mutex back before it stores what it wrote ...
UnlockEarly(t) ==
    /\ pc[t] = "early"
    /\ mutex' = {}
    /\ Goto(t, "mark")
    /\ UNCHANGED <<flash, ram, seedNum, local, conflict>>

\* ... and sets configured = allConfigured.
MarkConfigured(t) ==
    /\ pc[t] = "mark"
    /\ \E s \in Settings : ram' = [ram EXCEPT !.sys.settings = s]
    /\ Goto(t, "seed")
    /\ Touch(t)
    /\ UNCHANGED <<flash, seedNum, mutex, local>>

\* Mutant of Unlock: the mutex is kept.
UnlockNothing(t) ==
    /\ pc[t] = "unlock"
    /\ Goto(t, "idle")
    /\ UNCHANGED <<flash, ram, seedNum, mutex, local, conflict>>

Unlock(t) ==
    /\ pc[t] = "unlock"
    /\ mutex' = {}
    /\ Goto(t, "idle")
    /\ UNCHANGED <<flash, ram, seedNum, local, conflict>>

\* After a firmware image or a new configuration, the power daemon resets the system
\* while the caller holds what it holds.
SoftwareReset(t) ==
    /\ pc[t] = "resetting"
    /\ pc' = [u \in Threads |-> "off"]
    /\ Touch(t)
    /\ UNCHANGED <<flash, ram, seedNum, mutex, local>>
-----------------------------------------------------------------------------
(* mico_system_context_update and internal_update_config *)

\* Mutant of LoadSeed: seedNum++ for ++seedNum.
LoadOldSeed(t) ==
    /\ pc[t] = "seed"
    /\ local' = [local EXCEPT ![t].seed = seedNum]
    /\ Goto(t, "begin")
    /\ Touch(t)
    /\ UNCHANGED <<flash, ram, seedNum, mutex>>

\* ++seedNum, a load and a store.
LoadSeed(t) ==
    /\ pc[t] = "seed"
    /\ local' = [local EXCEPT ![t].seed = seedNum + 1]
    /\ Goto(t, "begin")
    /\ Touch(t)
    /\ UNCHANGED <<flash, ram, seedNum, mutex>>

\* Mutant of StoreSeed: the CRC is taken before the seed is set.
SumBeforeSeed(t) ==
    /\ pc[t] = "begin"
    /\ seedNum' = local[t].seed
    /\ ram' = [ram EXCEPT !.sys.seed = local[t].seed]
    /\ local' = [local EXCEPT ![t].crc = Crc(ram.sys, ram.user), ![t].target = "main"]
    /\ Goto(t, "erase")
    /\ Touch(t)
    /\ UNCHANGED <<flash, mutex>>

StoreSeed(t) ==
    /\ pc[t] = "begin"
    /\ seedNum' = local[t].seed
    /\ ram' = [ram EXCEPT !.sys.seed = local[t].seed]
    /\ Goto(t, "sum")
    /\ Touch(t)
    /\ UNCHANGED <<flash, mutex, local>>

\* Mutant of Sum: the CRC of what main holds now.
SumOfMain(t) ==
    /\ pc[t] = "sum"
    /\ local' = [local EXCEPT ![t].crc = Crc(flash["main"].sys, flash["main"].user)]
    /\ Goto(t, "erase")
    /\ Touch(t)
    /\ UNCHANGED <<flash, ram, seedNum, mutex>>

\* The CRC of what RAM holds now.
Sum(t) ==
    /\ pc[t] = "sum"
    /\ local' = [local EXCEPT ![t].crc = Crc(ram.sys, ram.user), ![t].target = "main"]
    /\ Goto(t, "erase")
    /\ Touch(t)
    /\ UNCHANGED <<flash, ram, seedNum, mutex>>

\* A page that is not erased takes the AND of the old and the new bits.
Over(old, new) == IF old \in {Erased, new} THEN {new} ELSE Garbage \ {Erased}
OverCrc(old, new) == IF old \in {{}, new} THEN new ELSE {}

\* The erase of the partition t is on.
Erase(t) ==
    /\ pc[t] = "erase"
    /\ flash' = [flash EXCEPT ![local[t].target] = Blank]
    /\ Goto(t, "content")
    /\ Touch(t)
    /\ UNCHANGED <<ram, seedNum, mutex, local>>

WriteContent(t) ==
    LET p == flash[local[t].target] IN
    /\ pc[t] = "content"
    /\ \E s \in Over(p.sys, ram.sys) :
          flash' = [flash EXCEPT ![local[t].target] = [p EXCEPT !.boot = ram.boot, !.sys = s]]
    /\ Goto(t, "user")
    /\ Touch(t)
    /\ UNCHANGED <<ram, seedNum, mutex, local>>

WriteUser(t) ==
    LET p == flash[local[t].target] IN
    /\ pc[t] = "user"
    /\ \E u \in Over(p.user, ram.user) :
          flash' = [flash EXCEPT ![local[t].target].user = u]
    /\ Goto(t, "crc")
    /\ Touch(t)
    /\ UNCHANGED <<ram, seedNum, mutex, local>>

\* The CRC read back from main is not 0, whoever wrote or erased it last.
WriteCrc(t) ==
    /\ pc[t] = "crc"
    /\ flash' = [flash EXCEPT ![local[t].target].crc = OverCrc(@, local[t].crc)]
    /\ IF local[t].target = "main"
       THEN local' = [local EXCEPT ![t].target = "backup"] /\ Goto(t, "erase")
       ELSE /\ local' = [local EXCEPT ![t] = NoLocals]
            /\ \/ Role[t] \in {"para", "fog"} /\ Goto(t, "unlock")
               \/ Role[t] \in {"write", "station"} /\ Goto(t, "idle")
               \/ Role[t] \in {"ota", "write", "station"} /\ Goto(t, "resetting")
    /\ Touch(t)
    /\ UNCHANGED <<ram, seedNum, mutex>>
-----------------------------------------------------------------------------
Call(t)   == Report(t) \/ Edit(t) \/ UnlockEarly(t) \/ MarkConfigured(t) \/ Unlock(t)
Update(t) == LoadSeed(t) \/ StoreSeed(t) \/ Sum(t)
             \/ Erase(t) \/ WriteContent(t) \/ WriteUser(t) \/ WriteCrc(t)

Next == \E t \in Threads :
            Begin(t) \/ Lock(t) \/ Receive(t) \/ Call(t) \/ Update(t) \/ SoftwareReset(t)

Spec == Init /\ [][Next]_vars

\* Threads run on, whatever others do, and a waiter is not passed over for ever.  Nothing
\* is said of Begin, which is the environment's, nor of Receive, which is the peer's.
FairSpec ==
    /\ Spec
    /\ \A t \in Threads :
          WF_vars(Call(t) \/ Update(t) \/ SoftwareReset(t)) /\ SF_vars(Lock(t))
-----------------------------------------------------------------------------
(* Properties *)

\* Every variable holds a value of its kind.
TypeOK ==
    /\ flash \in [Partitions -> Partition]
    /\ ram \in [boot : BootBytes, sys : SysConfig, user : UserData]
    /\ seedNum \in Nat
    /\ mutex \in SUBSET Threads
    /\ pc \in [Threads -> Steps]
    /\ local \in [Threads -> [seed : Nat, crc : CrcField, target : Partitions]]
    /\ conflict \in SUBSET Threads

\* Whenever no update is in progress the two copies are whole and the same, of a
\* configuration nobody was editing at the time - unless updates were in conflict.
CopiesAgree ==
    Updating = {} /\ conflict = {} =>
        /\ \A p \in Partitions : Intact(flash[p])
        /\ flash["main"] = flash["backup"]

\* Callers that hold the mutex through their update never conflict with one another:
\* every conflict involves one that does not.
LockersNeverConflict ==
    conflict = {} \/ \E t \in conflict : Role[t] \in {"write", "station"}

\* No two updates carry the same seed, nor a smaller one than is stored - unless they
\* were in conflict.
SeedsGrow ==
    [][\A t \in Threads : StoreSeed(t) /\ conflict' = {} =>
           \A p \in Partitions : local[t].seed > flash[p].sys.seed]_vars

\* No peer leaves an upload unfinished and its connection open for ever.
UploadsEnd == \A t \in Threads : []<>(pc[t] # "receive")

\* If uploads end, whoever waits for the mutex gets it, or the system is reset - unless a
\* report ran out of memory and its thread is gone with the mutex.
WaitersGetIn ==
    UploadsEnd =>
        \A t \in Threads : pc[t] = "lock" ~> pc[t] # "lock" \/ \E u \in Threads : pc[u] = "gone"

\* "Write config data hosted by core data to non-volatile storage.  kNoErr is returned
\* on success": an update that ends has left a configuration in a partition.
UpdateIsStored ==
    [][\A t \in Threads :
          WriteCrc(t) /\ local[t].target = "backup" => \E p \in Partitions : Intact(flash'[p])]_vars
=============================================================================
