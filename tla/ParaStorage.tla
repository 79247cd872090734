---------------------------- MODULE ParaStorage -----------------------------
(***************************************************************************)
(* mico_system_para_storage.c: the configuration kept in two flash         *)
(* partitions, a main copy and a backup, one flash operation per step.     *)
(* Power may go at any step; a flash operation may fail.                   *)
(*                                                                         *)
(* One thread at a time runs this code here: RAM is edited only between    *)
(* two calls.  Left out: the two mallocs of MICOReadConfiguration at a     *)
(* start (lines 192-196; the first thing the only thread does, so they     *)
(* fail at every start of a build or at none; the failure of its call in   *)
(* EasyLink is modelled there), and a failing read of the CRC just written *)
(* (line 101), which leaves a local variable unset.                        *)
(***************************************************************************)
EXTENDS ParaFlash

CONSTANTS MaxSeed,    \* bound on seedNum
          FlashMayFail  \* do flash operations return errors?

ASSUME ParaStorageAssumption == MaxSeed \in Nat /\ FlashMayFail \in BOOLEAN

VARIABLES
    flash,       \* the two partitions
    ram,         \* flashContentInRam and user_config_data
    seedNum,     \* static int32_t seedNum
    pc,          \* "off", "ready" (no call in progress), "loaded" (configuration
                 \* chosen, seed and magic not looked at yet) or a flash step
    op,          \* who runs the flash steps: "update" (internal_update_config,
                 \* both partitions) or "recover" (MICOReadConfiguration, one)
    target,      \* the partition the flash steps are on
    ret,         \* pc after the flash steps: "loaded" when the start waits for them
    crc_result,  \* the CRC the "crc" step will write
    faults       \* history: which failures happened, "copies" (an operation on the
                 \* backup or a read at a start failed) and "boot" (recovery failed)

call == <<op, target, ret, crc_result>>
vars == <<flash, ram, seedNum, pc, op, target, ret, crc_result, faults>>

FlashSteps == {"erase", "content", "user", "crc"}

NoRam == [boot |-> Erased, sys |-> Erased, user |-> Erased]

NoCall == op = "update" /\ target = "main" /\ ret = "ready" /\ crc_result = {}

\* The call ends and its local variables with it.
Return(next) ==
    /\ pc' = next
    /\ op' = "update" /\ target' = "main" /\ ret' = "ready" /\ crc_result' = {}

InSync(sys, user) ==
    [p \in Partitions |-> [boot |-> Erased, sys |-> sys, user |-> user, crc |-> Crc(sys, user)]]

\* A new device, or one left in order by an earlier (maybe another) firmware.
Init ==
    /\ \/ flash = [p \in Partitions |-> Blank]
       \/ \E s \in Settings \cup {OtherFirmware}, u \in UserData :
             LET sys == [seed |-> 0, settings |-> s] IN
             Crc(sys, u) # {} /\ flash = InSync(sys, u)
    /\ ram = NoRam /\ seedNum = 0 /\ pc = "off"
    /\ NoCall
    /\ faults = {}
-----------------------------------------------------------------------------
(* internal_update_config and the copying half of MICOReadConfiguration *)

\* Start writing r: CRC over RAM first, then main, then the backup.
BeginUpdate(r, after) ==
    /\ ram' = r
    /\ crc_result' = Crc(r.sys, r.user)
    /\ pc' = "erase" /\ op' = "update" /\ target' = "main" /\ ret' = after

BeginRecover(part, crc) ==
    /\ crc_result' = crc
    /\ pc' = "erase" /\ op' = "recover" /\ target' = part /\ ret' = "loaded"

\* Mutant of Erase: both copies are erased before the first is written.
EraseBoth ==
    /\ pc = "erase"
    /\ flash' = [p \in Partitions |-> Blank]
    /\ pc' = "content"
    /\ UNCHANGED <<ram, seedNum, call, faults>>

Erase ==
    /\ pc = "erase"
    /\ flash' = [flash EXCEPT ![target] = Blank]
    /\ pc' = "content"
    /\ UNCHANGED <<ram, seedNum, call, faults>>

WriteContent ==
    /\ pc = "content"
    /\ flash' = [flash EXCEPT ![target].boot = ram.boot, ![target].sys = ram.sys]
    /\ pc' = "user"
    /\ UNCHANGED <<ram, seedNum, call, faults>>

WriteUser ==
    /\ pc = "user"
    /\ flash' = [flash EXCEPT ![target].user = ram.user]
    /\ pc' = "crc"
    /\ UNCHANGED <<ram, seedNum, call, faults>>

\* Mutant of WriteCrc: a recovered device starts over instead of going on.
WriteCrcThenReload ==
    /\ pc = "crc"
    /\ flash' = [flash EXCEPT ![target].crc = crc_result]
    /\ IF op = "update" /\ target = "main"
       THEN pc' = "verify" /\ UNCHANGED call
       ELSE Return(IF op = "recover" THEN "off" ELSE ret)
    /\ UNCHANGED <<ram, seedNum, faults>>

WriteCrc ==
    /\ pc = "crc"
    /\ flash' = [flash EXCEPT ![target].crc = crc_result]
    /\ IF op = "update" /\ target = "main"
       THEN pc' = "verify" /\ UNCHANGED call
       ELSE Return(ret)
    /\ UNCHANGED <<ram, seedNum, faults>>

\* Mutant of VerifyCrc: the CRC read back is not looked at.
VerifyNothing ==
    /\ pc = "verify"
    /\ pc' = "erase" /\ target' = "backup" /\ UNCHANGED <<op, ret, crc_result>>
    /\ UNCHANGED <<flash, ram, seedNum, faults>>

\* "Read back": a CRC of 0 ends the update with kWriteErr, the backup untouched.
VerifyCrc ==
    /\ pc = "verify"
    /\ IF flash["main"].crc = {}
       THEN Return("ready")
       ELSE pc' = "erase" /\ target' = "backup" /\ UNCHANGED <<op, ret, crc_result>>
    /\ UNCHANGED <<flash, ram, seedNum, faults>>

\* require_noerr(err, exit): the call is given up; a start goes on without reading
\* the seed (mico_system_context_init ignores the error).  Bound: no further failure
\* after one that "faults" records.
FlashFails ==
    /\ FlashMayFail /\ faults = {}
    /\ pc \in FlashSteps
    /\ \E q \in Torn(pc, flash[target], ram.boot) : flash' = [flash EXCEPT ![target] = q]
    /\ Return("ready")
    /\ faults' = faults \cup (IF target = "backup" THEN {"copies"} ELSE {})
                        \cup (IF ret = "loaded" THEN {"boot"} ELSE {})
    /\ UNCHANGED <<ram, seedNum>>
-----------------------------------------------------------------------------
(* Calls of the running system *)

EditSettings(s) ==
    /\ pc = "ready"
    /\ ram' = [ram EXCEPT !.sys.settings = s]
    /\ UNCHANGED <<flash, seedNum, pc, call, faults>>

EditUserData(u) ==
    /\ pc = "ready"
    /\ ram' = [ram EXCEPT !.user = u]
    /\ UNCHANGED <<flash, seedNum, pc, call, faults>>

mico_system_context_update ==
    /\ pc = "ready"
    /\ seedNum < MaxSeed
    /\ seedNum' = seedNum + 1
    /\ BeginUpdate([ram EXCEPT !.sys.seed = seedNum + 1], "ready")
    /\ UNCHANGED <<flash, faults>>

\* Factory defaults; the application's callback may set its own or do nothing.
Defaults(r, seed) ==
    [boot : {"zero"}, sys : {[seed |-> seed, settings |-> DefaultSettings]},
     user : {DefaultUserData, r.user}]

mico_system_context_restore ==
    /\ pc = "ready"
    /\ \E r \in Defaults(ram, seedNum) : BeginUpdate(r, "ready")
    /\ UNCHANGED <<flash, seedNum, faults>>
-----------------------------------------------------------------------------
(* MICOReadConfiguration *)

FromMain == [boot |-> flash["main"].boot, sys |-> flash["main"].sys, user |-> flash["main"].user]

\* Both partitions damaged: defaults.  seedNum is still 0 after a reset.
LoadDefaults ==
    /\ pc = "off"
    /\ ~Intact(flash["main"]) /\ ~Intact(flash["backup"])
    /\ \E r \in Defaults(FromMain, 0) : BeginUpdate(r, "loaded")
    /\ seedNum' = 0
    /\ UNCHANGED <<flash, faults>>

\* Mutant of LoadFromBackup: the backup is checked but not copied to RAM.
LoadFromBackupNoCopy ==
    /\ pc = "off"
    /\ ~Intact(flash["main"]) /\ Intact(flash["backup"])
    /\ ram' = FromMain
    /\ BeginRecover("main", Crc(flash["backup"].sys, flash["backup"].user))
    /\ seedNum' = 0
    /\ UNCHANGED <<flash, faults>>

\* Main damaged: the system configuration comes from the backup.  user_config_data
\* is left as it was read from main, and that is what main gets back.
LoadFromBackup ==
    /\ pc = "off"
    /\ ~Intact(flash["main"]) /\ Intact(flash["backup"])
    /\ ram' = [boot |-> "zero", sys |-> flash["backup"].sys, user |-> flash["main"].user]
    /\ BeginRecover("main", Crc(flash["backup"].sys, flash["backup"].user))
    /\ seedNum' = 0
    /\ UNCHANGED <<flash, faults>>

\* Main intact, backup damaged or different: the backup is rewritten.
LoadRepairBackup ==
    /\ pc = "off"
    /\ Intact(flash["main"])
    /\ ~(Intact(flash["backup"]) /\ flash["backup"].crc = flash["main"].crc)
    /\ ram' = FromMain
    /\ BeginRecover("backup", flash["main"].crc)
    /\ seedNum' = 0
    /\ UNCHANGED <<flash, faults>>

\* Mutant of LoadClean: an intact main is enough, the backup is not looked at.
LoadMainOnly ==
    /\ pc = "off"
    /\ Intact(flash["main"])
    /\ ram' = FromMain
    /\ pc' = "loaded"
    /\ seedNum' = 0
    /\ UNCHANGED <<flash, call, faults>>

LoadClean ==
    /\ pc = "off"
    /\ Intact(flash["main"]) /\ Intact(flash["backup"])
    /\ flash["backup"].crc = flash["main"].crc
    /\ ram' = FromMain
    /\ pc' = "loaded"
    /\ seedNum' = 0
    /\ UNCHANGED <<flash, call, faults>>

\* A read fails and nobody looks at the error: what could not be read (main, the backup
\* or both) is taken for damaged, and written over.  Bound: as FlashFails.
ReadFails ==
    /\ FlashMayFail /\ faults = {}
    /\ pc = "off"
    /\ \E u \in UserBytes :
          \/ \E r \in Defaults([FromMain EXCEPT !.user = u], 0) : BeginUpdate(r, "loaded")
          \/ /\ Intact(flash["backup"])
             /\ ram' = [boot |-> "zero", sys |-> flash["backup"].sys, user |-> u]
             /\ BeginRecover("main", Crc(flash["backup"].sys, flash["backup"].user))
          \/ /\ Intact(flash["main"])
             /\ ram' = FromMain
             /\ BeginRecover("backup", flash["main"].crc)
    /\ seedNum' = 0
    /\ faults' = faults \cup {"copies"}
    /\ UNCHANGED flash

\* Mutant of TakeSeed: the counter is not taken over from the configuration.
KeepSeedZero ==
    /\ pc = "loaded"
    /\ IF ram.sys.settings = OtherFirmware
       THEN \E r \in Defaults(ram, ram.sys.seed) : BeginUpdate(r, "ready")
       ELSE pc' = "ready" /\ UNCHANGED <<ram, call>>
    /\ UNCHANGED <<flash, seedNum, faults>>

\* The end of MICOReadConfiguration: take the seed over, check the magic number.
TakeSeed ==
    /\ pc = "loaded"
    /\ seedNum' = ram.sys.seed
    /\ IF ram.sys.settings = OtherFirmware
       THEN \E r \in Defaults(ram, ram.sys.seed) : BeginUpdate(r, "ready")
       ELSE pc' = "ready" /\ UNCHANGED <<ram, call>>
    /\ UNCHANGED <<flash, faults>>

\* Power goes, or the processor is reset, at any point.
PowerCut ==
    /\ pc # "off"
    /\ \E q \in Torn(pc, flash[target], ram.boot) : flash' = [flash EXCEPT ![target] = q]
    /\ ram' = NoRam /\ seedNum' = 0
    /\ Return("off")
    /\ UNCHANGED faults
-----------------------------------------------------------------------------
Flashing == Erase \/ WriteContent \/ WriteUser \/ WriteCrc \/ VerifyCrc

Load == LoadDefaults \/ LoadFromBackup \/ LoadRepairBackup \/ LoadClean \/ TakeSeed

Running ==
    \/ \E s \in Settings : EditSettings(s)
    \/ \E u \in UserData : EditUserData(u)
    \/ mico_system_context_update
    \/ mico_system_context_restore

Next == Flashing \/ FlashFails \/ Load \/ ReadFails \/ Running \/ PowerCut

Spec == Init /\ [][Next]_vars

\* Code that has started runs on, and power comes back; it is not promised to stay.
FairSpec == Spec /\ WF_vars(Flashing) /\ WF_vars(Load)
-----------------------------------------------------------------------------
(* Properties *)

\* Every variable holds a value of its kind; a running system never works on a
\* system configuration that is flash garbage.
TypeOK ==
    /\ flash \in [Partitions -> Partition]
    /\ ram \in [boot : BootBytes, sys : SysBytes, user : UserBytes]
    /\ pc # "off" => ram.sys \in SysConfig
    /\ seedNum \in Nat
    /\ pc \in FlashSteps \cup {"off", "ready", "loaded", "verify"}
    /\ op \in {"update", "recover"}
    /\ target \in Partitions
    /\ ret \in {"ready", "loaded"}
    /\ crc_result \in CrcField
    /\ faults \in SUBSET {"copies", "boot"}

\* The system configuration the next start will work on (Erased: none).
Stored == IF Intact(flash["main"]) THEN flash["main"].sys
          ELSE IF Intact(flash["backup"]) THEN flash["backup"].sys
          ELSE Erased

Working == IF pc = "off" THEN Erased ELSE ram.sys

Atomic == INSTANCE AtomicConfig WITH
              Config <- SysConfig, NoConfig <- Erased, stored <- Stored, working <- Working

\* The two-partition scheme (erase, write, CRC, main before backup) implements an
\* atomic cell: whatever step power goes at, the next start works on the last
\* configuration committed, or on the one being committed, never on a mixture,
\* on something older or on defaults - unless an operation on the backup or a read at a
\* start failed.
AtomicUpdate ==
    Atomic!Init /\ [][Atomic!Next \/ "copies" \in faults']_<<Stored, Working>>

\* Between two calls the backup is intact whenever anything is stored, so the next
\* update may erase main; a main CRC that is not the backup's is worthless.  With the
\* same exception.
BackupReadyAtRest ==
    pc = "ready" /\ "copies" \notin faults =>
        /\ Stored # Erased => Intact(flash["backup"])
        /\ Intact(flash["main"]) => flash["main"].sys = flash["backup"].sys

\* The stored seed, from which clients tell a newer configuration, never goes back,
\* over any number of power cuts, recoveries and restores to defaults.
SeedNeverGoesBack ==
    [][Stored # Erased /\ faults' = {} =>
           Stored' # Erased /\ Stored'.seed >= Stored.seed]_vars

\* When an update returns kNoErr, what was in RAM is what the next start will find,
\* from either partition alone.
KNoErrMeansDurable ==
    [][WriteCrc /\ pc' = "ready" =>
           \A p \in Partitions : Intact(flash'[p]) /\ flash'[p].sys = ram.sys]_vars

\* Recovery and updates come to an end: unless power is cut again and again, the
\* system is again and again ready for the next call.
CallsReturn == []<>(pc = "ready") \/ []<><<PowerCut>>_vars

\* "main collapsed, backup correct, copy data from back up to main": once the
\* recovery is over, main is what the backup is.
BackupCopiedToMain ==
    [][WriteCrc /\ op = "recover" /\ target = "main" =>
           /\ flash'["main"].sys = flash["backup"].sys
           /\ flash'["main"].user = flash["backup"].user]_vars
=============================================================================
