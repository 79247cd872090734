------------------------- MODULE ParaStorageProofs --------------------------
(***************************************************************************)
(* ParaStorage is correct for every set of settings, application data and  *)
(* garbage, every choice of pairs whose CRC is 0 and any number of power   *)
(* cuts.                                                                   *)
(***************************************************************************)
EXTENDS ParaStorage, TLAPS

main   == flash["main"]
backup == flash["backup"]

\* At rest, or while main is erased and written: a CRC left in main is the backup's.
MainRedundant == main.crc # {} => Intact(backup) /\ main.crc = backup.crc

\* After a power cut main may also be the new copy, the backup not yet following.
MainOrBackup == main.crc # {} => Intact(main) \/ (Intact(backup) /\ main.crc = backup.crc)

RestInv ==
    "copies" \notin faults =>
        /\ pc = "off" => MainOrBackup
        /\ pc \in {"ready", "loaded"} => MainRedundant
        /\ pc \in FlashSteps /\ target = "main" => MainRedundant

\* What the flash steps have written so far.
Written ==
    pc \in FlashSteps =>
        /\ pc # "erase" => flash[target].crc = {}
        /\ pc \in {"user", "crc"} => flash[target].sys = ram.sys
        /\ pc = "crc" => flash[target].user = ram.user
        /\ op = "update" => crc_result = Crc(ram.sys, ram.user)
        /\ op = "recover" => ret = "loaded"
        /\ op = "recover" /\ target = "main" =>
              Intact(backup) /\ ram.sys = backup.sys /\ crc_result = backup.crc
        /\ target = "backup" =>
              Intact(main) /\ main.sys = ram.sys /\ main.user = ram.user /\ crc_result = main.crc

Verifying ==
    pc = "verify" =>
        /\ op = "update" /\ target = "main"
        /\ crc_result = Crc(ram.sys, ram.user)
        /\ main.sys = ram.sys /\ main.user = ram.user /\ main.crc = crc_result

SeedInv ==
    faults = {} =>
        /\ pc # "off" /\ Stored # Erased => ram.sys.seed >= Stored.seed
        /\ pc = "ready" \/ (pc \in FlashSteps \cup {"verify"} /\ op = "update")
               => seedNum >= ram.sys.seed

IInv == TypeOK /\ RestInv /\ Written /\ Verifying
-----------------------------------------------------------------------------
(* Lemmas about the partitions *)

\* An intact partition carries exactly the CRC of its own contents.
LEMMA IntactCrc ==
    ASSUME NEW p, Intact(p)
    PROVE  p.crc = {<<p.sys, p.user>>} /\ p.crc = Crc(p.sys, p.user)
  BY DEF Intact, is_crc_match, Crc

\* A partition that carries the CRC of its contents is intact unless that CRC is 0.
LEMMA CrcIntact ==
    ASSUME NEW p, p.crc = Crc(p.sys, p.user), p.crc # {}
    PROVE  Intact(p)
  BY DEF Intact, is_crc_match

\* Two intact partitions with equal CRCs hold the same configurations.
LEMMA SameCrcSameConfig ==
    ASSUME NEW p, NEW q, Intact(p), Intact(q), p.crc = q.crc
    PROVE  p.sys = q.sys /\ p.user = q.user
  <1>1. <<p.sys, p.user>> = <<q.sys, q.user>>
    BY IntactCrc
  <1>2. QED BY <1>1

\* An intact partition holds a real system configuration, never garbage.
LEMMA IntactNotGarbage ==
    ASSUME NEW p \in Partition, Intact(p)
    PROVE  p.sys \in SysConfig
  <1>1. <<p.sys, p.user>> \in SysConfig \X UserBytes
    BY IntactCrc DEF Partition, CrcField
  <1>2. QED BY <1>1

\* An interrupted operation leaves a partition whose CRC field is the old one or {},
\* {} once the erase is over and the CRC is being written; without one, nothing moves.
LEMMA TornPartition ==
    ASSUME NEW step, NEW p \in Partition, NEW boot \in BootBytes, NEW q \in Torn(step, p, boot)
    PROVE  /\ q \in Partition
           /\ q.crc \in {p.crc, {}}
           /\ step \notin FlashSteps => q = p
  <1> USE ParaFlashAssumption DEF Partition, BootBytes, SysBytes, UserBytes
  <1>1. CASE step = "erase"
    BY <1>1 DEF Torn, FlashSteps, CrcField
  <1>2. CASE step = "content"
    BY <1>2 DEF Torn, FlashSteps
  <1>3. CASE step = "user"
    BY <1>3 DEF Torn, FlashSteps
  <1>4. CASE step = "crc"
    BY <1>4 DEF Torn, FlashSteps, CrcField
  <1>5. CASE step \notin FlashSteps
    BY <1>5 DEF Torn, FlashSteps
  <1>6. QED BY <1>1, <1>2, <1>3, <1>4, <1>5 DEF FlashSteps
-----------------------------------------------------------------------------
(* Type correctness *)

LEMMA DefaultsType ==
    ASSUME NEW r0 \in [boot : BootBytes, sys : SysBytes, user : UserBytes],
           NEW seed \in Nat, NEW r \in Defaults(r0, seed)
    PROVE  /\ r \in [boot : BootBytes, sys : SysBytes, user : UserBytes]
           /\ r.sys \in SysConfig /\ r.sys.seed = seed
  BY ParaFlashAssumption DEF Defaults, BootBytes, SysBytes, UserBytes, SysConfig

LEMMA CrcType ==
    ASSUME NEW sys \in SysConfig, NEW user \in UserBytes
    PROVE  Crc(sys, user) \in CrcField
  BY DEF Crc, CrcField

LEMMA InitType == Init => TypeOK
  <1> SUFFICES ASSUME Init PROVE TypeOK
    OBVIOUS
  <1> USE ParaFlashAssumption DEF BootBytes, SysBytes, UserBytes
  <1>1. flash \in [Partitions -> Partition]
    <2>1. CASE flash = [p \in Partitions |-> Blank]
      BY <2>1 DEF Blank, Partition, CrcField
    <2>2. CASE \E s \in Settings \cup {OtherFirmware}, u \in UserData :
                  flash = InSync([seed |-> 0, settings |-> s], u)
      <3>1. PICK s \in Settings \cup {OtherFirmware}, u \in UserData :
                  flash = InSync([seed |-> 0, settings |-> s], u)
        BY <2>2
      <3>2. [seed |-> 0, settings |-> s] \in SysConfig
        BY DEF SysConfig
      <3>3. Crc([seed |-> 0, settings |-> s], u) \in CrcField
        BY <3>2, CrcType
      <3>4. QED BY <3>1, <3>2, <3>3 DEF InSync, Partition
    <2>3. QED BY <2>1, <2>2 DEF Init
  <1>2. QED BY <1>1 DEF Init, TypeOK, NoRam, NoCall, Partitions, CrcField

LEMMA TypeStep == TypeOK /\ [Next]_vars => TypeOK'
  <1> SUFFICES ASSUME TypeOK, [Next]_vars PROVE TypeOK'
    OBVIOUS
  <1> USE ParaFlashAssumption
  <1>0. /\ ram \in [boot : BootBytes, sys : SysBytes, user : UserBytes]
        /\ flash["main"] \in Partition /\ flash["backup"] \in Partition
        /\ flash[target] \in Partition
        /\ FromMain \in [boot : BootBytes, sys : SysBytes, user : UserBytes]
    BY DEF TypeOK, Partitions, FromMain, Partition
  <1>1. CASE Erase
    <2>1. Blank \in Partition
      BY DEF Blank, Partition, BootBytes, SysBytes, UserBytes, CrcField
    <2>2. QED BY <1>1, <2>1 DEF Erase, TypeOK, call, FlashSteps
  <1>2. CASE WriteContent
    <2>1. flash' \in [Partitions -> Partition]
      BY <1>2, <1>0 DEF WriteContent, TypeOK, Partition
    <2>2. QED BY <1>2, <2>1 DEF WriteContent, TypeOK, call, FlashSteps
  <1>3. CASE WriteUser
    <2>1. flash' \in [Partitions -> Partition]
      BY <1>3, <1>0 DEF WriteUser, TypeOK, Partition
    <2>2. QED BY <1>3, <2>1 DEF WriteUser, TypeOK, call, FlashSteps
  <1>4. CASE WriteCrc
    <2>1. flash' \in [Partitions -> Partition]
      BY <1>4, <1>0 DEF WriteCrc, TypeOK, Partition
    <2>2. QED BY <1>4, <2>1 DEF WriteCrc, TypeOK, call, FlashSteps, Return, Partitions, CrcField
  <1>5. CASE VerifyCrc
    BY <1>5 DEF VerifyCrc, TypeOK, FlashSteps, Return, Partitions, CrcField
  <1>6. CASE FlashFails
    <2>1. flash' \in [Partitions -> Partition]
      BY <1>6, <1>0, TornPartition DEF FlashFails, TypeOK
    <2>2. faults' \in SUBSET {"copies", "boot"}
      BY <1>6 DEF FlashFails, TypeOK
    <2>3. QED BY <1>6, <2>1, <2>2 DEF FlashFails, TypeOK, FlashSteps, Return, Partitions, CrcField
  <1>7. ASSUME NEW r \in [boot : BootBytes, sys : SysBytes, user : UserBytes], NEW after \in {"ready", "loaded"},
               r.sys \in SysConfig, BeginUpdate(r, after), UNCHANGED <<flash, faults>>, seedNum' \in Nat
        PROVE  TypeOK'
    <2>1. Crc(r.sys, r.user) \in CrcField
      BY <1>7, CrcType
    <2>2. QED BY <1>7, <2>1 DEF BeginUpdate, TypeOK, FlashSteps, Partitions
  <1>8. CASE LoadDefaults
    BY <1>8, <1>0, <1>7, DefaultsType DEF LoadDefaults
  <1>9. CASE LoadFromBackup
    <2>1. flash["backup"].sys \in SysConfig
      BY <1>9, <1>0, IntactNotGarbage DEF LoadFromBackup
    <2>2. flash["backup"].user \in UserBytes /\ flash["main"].user \in UserBytes
      BY <1>0 DEF Partition
    <2>3. crc_result' \in CrcField
      BY <1>9, <2>1, <2>2, CrcType DEF LoadFromBackup, BeginRecover
    <2>4. ram' \in [boot : BootBytes, sys : SysBytes, user : UserBytes] /\ ram'.sys \in SysConfig
      BY <1>9, <2>1, <2>2 DEF LoadFromBackup, BootBytes, SysBytes
    <2>5. QED BY <1>9, <2>3, <2>4 DEF LoadFromBackup, BeginRecover, TypeOK, FlashSteps, Partitions
  <1>10. CASE LoadRepairBackup
    <2>1. flash["main"].sys \in SysConfig /\ flash["main"].crc \in CrcField
      BY <1>10, <1>0, IntactNotGarbage DEF LoadRepairBackup, Partition
    <2>2. QED BY <1>10, <1>0, <2>1 DEF LoadRepairBackup, BeginRecover, TypeOK, FlashSteps, Partitions, FromMain
  <1>11. CASE LoadClean
    <2>1. flash["main"].sys \in SysConfig
      BY <1>11, <1>0, IntactNotGarbage DEF LoadClean
    <2>2. QED BY <1>11, <1>0, <2>1 DEF LoadClean, TypeOK, FromMain, call
  <1>12. CASE TakeSeed
    <2>1. ram.sys \in SysConfig /\ ram.sys.seed \in Nat
      BY <1>12 DEF TakeSeed, TypeOK, SysConfig
    <2>2. CASE ram.sys.settings = OtherFirmware
      BY <1>12, <2>2, <2>1, <1>0, <1>7, DefaultsType DEF TakeSeed
    <2>3. CASE ram.sys.settings # OtherFirmware
      BY <1>12, <2>3, <2>1 DEF TakeSeed, TypeOK, call
    <2>4. QED BY <2>2, <2>3
  <1>13. ASSUME NEW s \in Settings, EditSettings(s) PROVE TypeOK'
    <2>1. ram'.sys \in SysConfig /\ ram' \in [boot : BootBytes, sys : SysBytes, user : UserBytes]
      <3>1. ram.sys \in SysConfig
        BY <1>13 DEF EditSettings, TypeOK
      <3>2. ram' = [ram EXCEPT !.sys = [ram.sys EXCEPT !.settings = s]]
        BY <1>13, <1>0 DEF EditSettings
      <3>3. [ram.sys EXCEPT !.settings = s] \in SysConfig
        BY <3>1 DEF SysConfig
      <3>4. QED BY <3>2, <3>3, <1>0 DEF SysBytes
    <2>2. QED BY <1>13, <2>1 DEF EditSettings, TypeOK, call
  <1>14. ASSUME NEW u \in UserData, EditUserData(u) PROVE TypeOK'
    BY <1>14, <1>0 DEF EditUserData, TypeOK, call, UserBytes
  <1>15. CASE mico_system_context_update
    <2> DEFINE r == [ram EXCEPT !.sys.seed = seedNum + 1]
    <2>1. ram.sys \in SysConfig /\ seedNum \in Nat
      BY <1>15 DEF mico_system_context_update, TypeOK
    <2>2. r = [ram EXCEPT !.sys = [ram.sys EXCEPT !.seed = seedNum + 1]]
      BY <1>0
    <2>3. [ram.sys EXCEPT !.seed = seedNum + 1] \in SysConfig
      BY <2>1 DEF SysConfig
    <2>4. r \in [boot : BootBytes, sys : SysBytes, user : UserBytes] /\ r.sys \in SysConfig
      BY <2>2, <2>3, <1>0 DEF SysBytes
    <2>5. BeginUpdate(r, "ready") /\ UNCHANGED <<flash, faults>> /\ seedNum' \in Nat
      BY <1>15, <2>1 DEF mico_system_context_update
    <2> HIDE DEF r
    <2>6. QED BY <2>4, <2>5, <1>7
  <1>16. CASE mico_system_context_restore
    BY <1>16, <1>0, <1>7, DefaultsType DEF mico_system_context_restore, TypeOK
  <1>17. CASE PowerCut
    <2>1. flash' \in [Partitions -> Partition]
      BY <1>17, <1>0, TornPartition DEF PowerCut, TypeOK
    <2>2. QED BY <1>17, <2>1 DEF PowerCut, TypeOK, Return, NoRam, Partitions, CrcField,
                                 BootBytes, SysBytes, UserBytes
  <1>18. CASE UNCHANGED vars
    BY <1>18 DEF vars, TypeOK, call
  <1>19. CASE ReadFails
    <2>0. /\ faults' \in SUBSET {"copies", "boot"} /\ UNCHANGED flash /\ seedNum' = 0
          /\ flash \in [Partitions -> Partition]
      BY <1>19 DEF ReadFails, TypeOK
    <2>1. ASSUME NEW u \in UserBytes, NEW r \in Defaults([FromMain EXCEPT !.user = u], 0),
                 BeginUpdate(r, "loaded")
          PROVE  TypeOK'
      <3>1. [FromMain EXCEPT !.user = u] \in [boot : BootBytes, sys : SysBytes, user : UserBytes]
        BY <1>0
      <3>2. /\ r \in [boot : BootBytes, sys : SysBytes, user : UserBytes]
            /\ r.sys \in SysConfig
        BY <3>1, DefaultsType
      <3>3. Crc(r.sys, r.user) \in CrcField
        BY <3>2, CrcType
      <3>4. QED BY <2>0, <2>1, <3>2, <3>3 DEF BeginUpdate, TypeOK, FlashSteps, Partitions
    <2>2. ASSUME NEW u \in UserBytes, Intact(flash["backup"]),
                 ram' = [boot |-> "zero", sys |-> flash["backup"].sys, user |-> u],
                 BeginRecover("main", Crc(flash["backup"].sys, flash["backup"].user))
          PROVE  TypeOK'
      <3>1. flash["backup"].sys \in SysConfig
        BY <2>2, <1>0, IntactNotGarbage
      <3>2. flash["backup"].user \in UserBytes
        BY <1>0 DEF Partition
      <3>3. crc_result' \in CrcField
        BY <2>2, <3>1, <3>2, CrcType DEF BeginRecover
      <3>4. ram' \in [boot : BootBytes, sys : SysBytes, user : UserBytes] /\ ram'.sys \in SysConfig
        BY <2>2, <3>1 DEF BootBytes, SysBytes
      <3>5. QED BY <2>0, <2>2, <3>3, <3>4 DEF BeginRecover, TypeOK, FlashSteps, Partitions
    <2>3. ASSUME Intact(flash["main"]), ram' = FromMain, BeginRecover("backup", flash["main"].crc)
          PROVE  TypeOK'
      <3>1. flash["main"].sys \in SysConfig /\ flash["main"].crc \in CrcField
        BY <2>3, <1>0, IntactNotGarbage DEF Partition
      <3>2. ram'.sys \in SysConfig
        BY <2>3, <3>1 DEF FromMain
      <3>3. QED BY <2>0, <2>3, <1>0, <3>1, <3>2 DEF BeginRecover, TypeOK, FlashSteps, Partitions
    <2>4. QED BY <1>19, <2>1, <2>2, <2>3 DEF ReadFails
  <1>20. QED
    BY <1>1, <1>2, <1>3, <1>4, <1>5, <1>6, <1>8, <1>9, <1>10, <1>11, <1>12, <1>13, <1>14, <1>15,
       <1>16, <1>17, <1>18, <1>19 DEF Next, Flashing, Load, Running

\* Every reachable state is well typed; in particular the running system never works
\* on garbage as its system configuration (MICOReadConfiguration's checks).
THEOREM TypeCorrect == Spec => []TypeOK
  <1>1. QED BY InitType, TypeStep, PTL DEF Spec
-----------------------------------------------------------------------------
(* The inductive invariant *)

LEMMA InitInv == Init => IInv
  <1> SUFFICES ASSUME Init PROVE IInv
    OBVIOUS
  <1>1. TypeOK
    BY InitType
  <1>2. pc = "off" /\ pc \notin FlashSteps /\ pc # "verify"
    BY DEF Init, FlashSteps
  <1>3. MainOrBackup
    <2>1. CASE flash = [p \in Partitions |-> Blank]
      BY <2>1 DEF MainOrBackup, main, Blank, Partitions
    <2>2. CASE \E s \in Settings \cup {OtherFirmware}, u \in UserData :
                  flash = InSync([seed |-> 0, settings |-> s], u)
      <3>1. PICK s \in Settings \cup {OtherFirmware}, u \in UserData :
                  flash = InSync([seed |-> 0, settings |-> s], u)
        BY <2>2
      <3>2. main.crc = Crc(main.sys, main.user)
        BY <3>1 DEF InSync, main, Partitions
      <3>3. QED BY <3>2, CrcIntact DEF MainOrBackup
    <2>3. QED BY <2>1, <2>2 DEF Init
  <1>4. QED BY <1>1, <1>2, <1>3 DEF IInv, RestInv, Written, Verifying

\* The operations on flash, seen from the two partitions.
LEMMA FlashFrame ==
    ASSUME TypeOK, NEW q, flash' = [flash EXCEPT ![target] = q]
    PROVE  /\ target = "main" => main' = q /\ backup' = backup
           /\ target = "backup" => backup' = q /\ main' = main
  BY DEF TypeOK, Partitions, main, backup

\* An interrupted step keeps what the copies owe each other (FlashFails, PowerCut).
LEMMA TornKeeps ==
    ASSUME IInv, NEW q \in Torn(pc, flash[target], ram.boot),
           flash' = [flash EXCEPT ![target] = q], "copies" \notin faults
    PROVE  /\ MainOrBackup'
           /\ target = "main" /\ pc \in FlashSteps => MainRedundant'
           /\ pc \notin FlashSteps => flash' = flash
  <1>0. /\ flash[target] \in Partition /\ ram.boot \in BootBytes /\ target \in Partitions
        /\ flash \in [Partitions -> Partition]
    BY DEF IInv, TypeOK
  <1>1. q.crc \in {flash[target].crc, {}} /\ (pc \notin FlashSteps => q = flash[target])
    BY <1>0, TornPartition
  <1>2. pc \notin FlashSteps => flash' = flash
    BY <1>0, <1>1
  <1>3. CASE target = "main" /\ pc \in FlashSteps
    <2>1. main' = q /\ backup' = backup /\ flash[target] = main
      BY <1>3, FlashFrame DEF IInv, main
    <2>2. MainRedundant
      BY <1>3 DEF IInv, RestInv
    <2>3. MainRedundant'
      BY <2>1, <2>2, <1>1 DEF MainRedundant
    <2>4. QED BY <2>3, <1>3 DEF MainRedundant, MainOrBackup
  <1>4. CASE target = "backup" /\ pc \in FlashSteps
    <2>1. Intact(main) /\ main' = main
      BY <1>4, FlashFrame DEF IInv, Written
    <2>2. QED BY <2>1, <1>4 DEF MainOrBackup
  <1>5. CASE pc \notin FlashSteps
    <2>1. main' = main /\ backup' = backup
      BY <1>2, <1>5 DEF main, backup
    <2>2. MainOrBackup
      <3>1. CASE pc = "off"
        BY <3>1 DEF IInv, RestInv
      <3>2. CASE pc \in {"ready", "loaded"}
        BY <3>2 DEF IInv, RestInv, MainRedundant, MainOrBackup
      <3>3. CASE pc = "verify"
        BY <3>3, CrcIntact DEF IInv, Verifying, MainOrBackup
      <3>4. QED BY <1>5, <3>1, <3>2, <3>3 DEF IInv, TypeOK
    <2>3. QED BY <2>1, <2>2, <1>2, <1>5 DEF MainOrBackup
  <1>6. QED BY <1>0, <1>3, <1>4, <1>5 DEF Partitions

\* A new call of internal_update_config starts from two copies in order.
LEMMA BeginUpdateInv ==
    ASSUME IInv, TypeOK', NEW r, NEW after, BeginUpdate(r, after), UNCHANGED <<flash, faults>>,
           "copies" \notin faults => MainRedundant
    PROVE  IInv'
  <1>1. main' = main /\ backup' = backup
    BY DEF main, backup
  <1>2. RestInv'
    BY <1>1 DEF BeginUpdate, RestInv, MainRedundant, FlashSteps
  <1>3. Written'
    BY DEF BeginUpdate, Written
  <1>4. Verifying'
    BY DEF BeginUpdate, Verifying
  <1>5. QED BY <1>2, <1>3, <1>4 DEF IInv

LEMMA InvStep == IInv /\ [Next]_vars => IInv'
  <1> SUFFICES ASSUME IInv, [Next]_vars PROVE IInv'
    OBVIOUS
  <1>0. /\ TypeOK /\ TypeOK' /\ target \in Partitions
        /\ main \in Partition /\ backup \in Partition
        /\ ram \in [boot : BootBytes, sys : SysBytes, user : UserBytes]
    BY TypeStep DEF IInv, TypeOK, main, backup, Partitions
  <1> USE DEF FlashSteps
  <1>1. CASE Erase
    <2>1. \/ target = "main" /\ main' = Blank /\ backup' = backup
          \/ target = "backup" /\ backup' = Blank /\ main' = main
      BY <1>0, <1>1, FlashFrame DEF Erase, Partitions
    <2>2. flash'[target] = Blank
      BY <1>0, <1>1 DEF Erase, TypeOK
    <2>3. Written'
      BY <1>1, <2>1, <2>2 DEF Erase, Written, IInv, Blank, call
    <2>4. RestInv' /\ Verifying'
      BY <1>1, <2>1 DEF Erase, RestInv, MainRedundant, Verifying, Blank, call
    <2>5. QED BY <1>0, <2>3, <2>4 DEF IInv
  <1>2. CASE WriteContent
    <2> DEFINE q == [flash[target] EXCEPT !.boot = ram.boot, !.sys = ram.sys]
    <2>1. flash' = [flash EXCEPT ![target] = q]
      BY <1>0, <1>2 DEF WriteContent, TypeOK
    <2>2. q.crc = {} /\ q.sys = ram.sys /\ flash'[target] = q
      BY <1>0, <1>2, <2>1 DEF WriteContent, IInv, Written, TypeOK, Partition
    <2> HIDE DEF q
    <2>3. \/ target = "main" /\ main' = q /\ backup' = backup
          \/ target = "backup" /\ backup' = q /\ main' = main
      BY <1>0, <2>1, FlashFrame DEF Partitions
    <2>4. Written'
      BY <1>2, <2>2, <2>3 DEF WriteContent, Written, IInv, call
    <2>5. RestInv' /\ Verifying'
      BY <1>2, <2>2, <2>3 DEF WriteContent, RestInv, MainRedundant, Verifying, call
    <2>6. QED BY <1>0, <2>4, <2>5 DEF IInv
  <1>3. CASE WriteUser
    <2> DEFINE q == [flash[target] EXCEPT !.user = ram.user]
    <2>1. flash' = [flash EXCEPT ![target] = q]
      BY <1>0, <1>3 DEF WriteUser, TypeOK
    <2>2. q.crc = {} /\ q.sys = ram.sys /\ q.user = ram.user /\ flash'[target] = q
      BY <1>0, <1>3, <2>1 DEF WriteUser, IInv, Written, TypeOK, Partition
    <2> HIDE DEF q
    <2>3. \/ target = "main" /\ main' = q /\ backup' = backup
          \/ target = "backup" /\ backup' = q /\ main' = main
      BY <1>0, <2>1, FlashFrame DEF Partitions
    <2>4. Written'
      BY <1>3, <2>2, <2>3 DEF WriteUser, Written, IInv, call
    <2>5. RestInv' /\ Verifying'
      BY <1>3, <2>2, <2>3 DEF WriteUser, RestInv, MainRedundant, Verifying, call
    <2>6. QED BY <1>0, <2>4, <2>5 DEF IInv
  <1>4. CASE WriteCrc
    <2> DEFINE q == [flash[target] EXCEPT !.crc = crc_result]
    <2>1. flash' = [flash EXCEPT ![target] = q]
      BY <1>0, <1>4 DEF WriteCrc, TypeOK
    <2>2. q.crc = crc_result /\ q.sys = ram.sys /\ q.user = ram.user
      BY <1>0, <1>4 DEF WriteCrc, IInv, Written, TypeOK, Partition
    <2> HIDE DEF q
    <2>3. CASE target = "main"
      <3>1. main' = q /\ backup' = backup
        BY <2>1, <2>3, FlashFrame, <1>0
      <3>2. CASE op = "update"
        <4>1. pc' = "verify" /\ UNCHANGED <<ram, call>>
          BY <1>4, <2>3, <3>2 DEF WriteCrc
        <4>2. crc_result = Crc(ram.sys, ram.user)
          BY <1>4, <3>2 DEF WriteCrc, IInv, Written
        <4>3. QED BY <4>1, <4>2, <3>1, <3>2, <2>2, <2>3, <1>0
                  DEF IInv, RestInv, Written, Verifying, call
      <3>3. CASE op = "recover"
        <4>1. pc' = "loaded" /\ UNCHANGED <<ram, faults>>
          BY <1>4, <2>3, <3>3 DEF WriteCrc, Return, IInv, Written
        <4>2. Intact(backup) /\ crc_result = backup.crc
          BY <1>4, <2>3, <3>3 DEF WriteCrc, IInv, Written
        <4>3. MainRedundant'
          BY <4>2, <3>1, <2>2 DEF MainRedundant
        <4>4. QED BY <4>1, <4>3, <1>0 DEF IInv, RestInv, Written, Verifying
      <3>4. QED BY <3>2, <3>3, <1>0 DEF TypeOK
    <2>4. CASE target = "backup"
      <3>1. backup' = q /\ main' = main
        BY <2>1, <2>4, FlashFrame, <1>0
      <3>2. Intact(main) /\ main.sys = ram.sys /\ main.user = ram.user /\ crc_result = main.crc
        BY <1>4, <2>4 DEF WriteCrc, IInv, Written
      <3>3. Intact(q)
        BY <3>2, <2>2 DEF Intact
      <3>4. MainRedundant'
        BY <3>1, <3>2, <3>3, <2>2 DEF MainRedundant
      <3>5. pc' \in {"ready", "loaded"} /\ UNCHANGED <<ram, faults>>
        BY <1>0, <1>4, <2>4 DEF WriteCrc, Return, TypeOK
      <3>6. QED BY <3>4, <3>5, <1>0 DEF IInv, RestInv, Written, Verifying
    <2>5. QED BY <2>3, <2>4, <1>0 DEF Partitions
  <1>5. CASE VerifyCrc
    <2>1. /\ op = "update" /\ target = "main" /\ crc_result = Crc(ram.sys, ram.user)
          /\ main.sys = ram.sys /\ main.user = ram.user /\ main.crc = crc_result
      BY <1>5 DEF VerifyCrc, IInv, Verifying
    <2>2. main' = main /\ backup' = backup /\ UNCHANGED <<ram, faults>>
      BY <1>5 DEF VerifyCrc, main, backup
    <2>3. CASE main.crc = {}
      <3>1. pc' = "ready"
        BY <1>5, <2>3 DEF VerifyCrc, Return, main
      <3>2. QED BY <3>1, <2>2, <2>3, <1>0 DEF IInv, RestInv, MainRedundant, Written, Verifying
    <2>4. CASE main.crc # {}
      <3>1. Intact(main)
        BY <2>1, <2>4, CrcIntact
      <3>2. pc' = "erase" /\ target' = "backup" /\ UNCHANGED <<op, ret, crc_result>>
        BY <1>5, <2>4 DEF VerifyCrc, main
      <3>3. QED BY <3>1, <3>2, <2>1, <2>2, <1>0 DEF IInv, RestInv, Written, Verifying
    <2>5. QED BY <2>3, <2>4
  <1>6. CASE FlashFails
    <2>1. PICK q \in Torn(pc, flash[target], ram.boot) : flash' = [flash EXCEPT ![target] = q]
      BY <1>6 DEF FlashFails
    <2>2. pc \in FlashSteps /\ pc' = "ready" /\ faults \subseteq faults'
      BY <1>6 DEF FlashFails, Return
    <2>3. target = "backup" => "copies" \in faults'
      BY <1>6 DEF FlashFails
    <2>4. "copies" \notin faults' => MainRedundant'
      BY <2>1, <2>2, <2>3, TornKeeps, <1>0 DEF Partitions
    <2>5. QED BY <2>2, <2>4, <1>0 DEF IInv, RestInv, Written, Verifying
  <1>7. CASE LoadDefaults
    <2>1. "copies" \notin faults => MainRedundant
      BY <1>7 DEF LoadDefaults, IInv, RestInv, MainOrBackup, MainRedundant, main, backup
    <2>2. QED BY <1>7, <2>1, <1>0, BeginUpdateInv DEF LoadDefaults
  <1>8. CASE LoadFromBackup
    <2>1. main' = main /\ backup' = backup /\ UNCHANGED faults
      BY <1>8 DEF LoadFromBackup, main, backup
    <2>2. Intact(backup) /\ ~Intact(main) /\ ram'.sys = backup.sys
      BY <1>8 DEF LoadFromBackup, main, backup
    <2>3. crc_result' = backup.crc
      BY <1>8, <2>2, IntactCrc DEF LoadFromBackup, BeginRecover, backup
    <2>4. "copies" \notin faults => MainRedundant
      BY <1>8, <2>2 DEF LoadFromBackup, IInv, RestInv, MainOrBackup, MainRedundant
    <2>5. pc' = "erase" /\ op' = "recover" /\ target' = "main" /\ ret' = "loaded"
      BY <1>8 DEF LoadFromBackup, BeginRecover
    <2>6. Written' /\ Verifying'
      BY <2>1, <2>2, <2>3, <2>5 DEF Written, Verifying
    <2>7. RestInv'
      BY <2>1, <2>4, <2>5 DEF RestInv, MainRedundant
    <2>8. QED BY <1>0, <2>6, <2>7 DEF IInv
  <1>9. CASE LoadRepairBackup
    <2>1. main' = main /\ backup' = backup /\ UNCHANGED faults
      BY <1>9 DEF LoadRepairBackup, main, backup
    <2>2. /\ Intact(main) /\ crc_result' = main.crc
          /\ ram'.sys = main.sys /\ ram'.user = main.user
      BY <1>9 DEF LoadRepairBackup, BeginRecover, FromMain, main
    <2>3. pc' = "erase" /\ op' = "recover" /\ target' = "backup" /\ ret' = "loaded"
      BY <1>9 DEF LoadRepairBackup, BeginRecover
    <2>4. QED BY <1>0, <2>1, <2>2, <2>3 DEF IInv, RestInv, Written, Verifying
  <1>10. CASE LoadClean
    <2>1. main' = main /\ backup' = backup /\ pc' = "loaded"
      BY <1>10 DEF LoadClean, main, backup
    <2>2. MainRedundant
      BY <1>10 DEF LoadClean, MainRedundant, main, backup
    <2>3. QED BY <1>0, <2>1, <2>2 DEF IInv, RestInv, MainRedundant, Written, Verifying
  <1>11. CASE TakeSeed
    <2>1. "copies" \notin faults => MainRedundant
      BY <1>11 DEF TakeSeed, IInv, RestInv
    <2>2. CASE ram.sys.settings = OtherFirmware
      BY <1>11, <2>1, <2>2, <1>0, BeginUpdateInv DEF TakeSeed
    <2>3. CASE ram.sys.settings # OtherFirmware
      <3>1. pc' = "ready" /\ main' = main /\ backup' = backup /\ UNCHANGED faults
        BY <1>11, <2>3 DEF TakeSeed, main, backup
      <3>2. QED BY <1>0, <2>1, <3>1 DEF IInv, RestInv, MainRedundant, Written, Verifying
    <2>4. QED BY <2>2, <2>3
  <1>12. ASSUME pc = "ready", pc' = "ready", UNCHANGED <<flash, faults>> PROVE IInv'
    <2>1. main' = main /\ backup' = backup
      BY <1>12 DEF main, backup
    <2>2. QED BY <1>0, <1>12, <2>1 DEF IInv, RestInv, MainRedundant, Written, Verifying
  <1>13. CASE \E s \in Settings : EditSettings(s)
    BY <1>12, <1>13 DEF EditSettings
  <1>14. CASE \E u \in UserData : EditUserData(u)
    BY <1>12, <1>14 DEF EditUserData
  <1>15. CASE mico_system_context_update
    <2>1. "copies" \notin faults => MainRedundant
      BY <1>15 DEF mico_system_context_update, IInv, RestInv
    <2>2. QED BY <1>15, <2>1, <1>0, BeginUpdateInv DEF mico_system_context_update
  <1>16. CASE mico_system_context_restore
    <2>1. "copies" \notin faults => MainRedundant
      BY <1>16 DEF mico_system_context_restore, IInv, RestInv
    <2>2. QED BY <1>16, <2>1, <1>0, BeginUpdateInv DEF mico_system_context_restore
  <1>17. CASE PowerCut
    <2>1. PICK q \in Torn(pc, flash[target], ram.boot) : flash' = [flash EXCEPT ![target] = q]
      BY <1>17 DEF PowerCut
    <2>2. pc' = "off" /\ UNCHANGED faults
      BY <1>17 DEF PowerCut, Return
    <2>3. "copies" \notin faults => MainOrBackup'
      BY <2>1, TornKeeps
    <2>4. QED BY <1>0, <2>2, <2>3 DEF IInv, RestInv, Written, Verifying
  <1>18. CASE UNCHANGED vars
    <2>1. main' = main /\ backup' = backup
      BY <1>18 DEF vars, main, backup
    <2>2. QED BY <1>0, <1>18, <2>1 DEF vars, call, IInv, RestInv, MainRedundant, MainOrBackup,
                                       Written, Verifying
  \* What the copies owe each other is no longer claimed; what is being written is.
  <1>19. CASE ReadFails
    <2>1. main' = main /\ backup' = backup /\ "copies" \in faults'
      BY <1>19 DEF ReadFails, main, backup
    <2>2. CASE \E r : BeginUpdate(r, "loaded")
      BY <2>1, <2>2, <1>0 DEF BeginUpdate, IInv, RestInv, Written, Verifying
    <2>3. CASE /\ Intact(backup) /\ ram'.sys = backup.sys
               /\ BeginRecover("main", Crc(backup.sys, backup.user))
      <3>1. crc_result' = backup.crc
        BY <2>3, IntactCrc DEF BeginRecover
      <3>2. QED BY <2>1, <2>3, <3>1, <1>0 DEF BeginRecover, IInv, RestInv, Written, Verifying
    <2>4. CASE Intact(main) /\ ram' = FromMain /\ BeginRecover("backup", main.crc)
      <3>1. ram'.sys = main.sys /\ ram'.user = main.user
        BY <2>4 DEF FromMain, main
      <3>2. QED BY <2>1, <2>4, <3>1, <1>0 DEF BeginRecover, IInv, RestInv, Written, Verifying
    <2>5. QED BY <1>19, <2>2, <2>3, <2>4 DEF ReadFails, main, backup
  <1>20. QED
    BY <1>1, <1>2, <1>3, <1>4, <1>5, <1>6, <1>7, <1>8, <1>9, <1>10, <1>11, <1>13, <1>14, <1>15,
       <1>16, <1>17, <1>18, <1>19 DEF Next, Flashing, Load, Running

\* The inductive invariant holds in every reachable state.
THEOREM Invariance == Spec => []IInv
  <1>1. QED BY InitInv, InvStep, PTL DEF Spec

\* While no call is in progress the backup is intact whenever anything is stored, so
\* the next internal_update_config may erase main.
THEOREM BackupIsReady == Spec => []BackupReadyAtRest
  <1>1. IInv => BackupReadyAtRest
    <2> SUFFICES ASSUME IInv, pc = "ready", "copies" \notin faults
                 PROVE  /\ Stored # Erased => Intact(backup)
                        /\ Intact(main) => main.sys = backup.sys
      BY DEF BackupReadyAtRest, main, backup
    <2>1. MainRedundant
      BY DEF IInv, RestInv
    <2>2. Intact(main) => main.crc # {}
      BY DEF Intact, is_crc_match
    <2>3. QED BY <2>1, <2>2, SameCrcSameConfig DEF MainRedundant, Stored, main, backup
  <1>2. QED BY <1>1, Invariance, PTL
-----------------------------------------------------------------------------
(* The stored configuration *)

LEMMA NoCrcNotIntact == ASSUME NEW p, p.crc = {} PROVE ~Intact(p)
  BY DEF Intact, is_crc_match

LEMMA StoredDef ==
    /\ Stored = IF Intact(main) THEN main.sys
                ELSE IF Intact(backup) THEN backup.sys ELSE Erased
    /\ Stored' = IF Intact(main') THEN (main').sys
                 ELSE IF Intact(backup') THEN (backup').sys ELSE Erased
  BY DEF Stored, main, backup

\* The one step that changes what is stored is the writing of main's CRC by an update;
\* it stores what is in RAM.
LEMMA StoredStep ==
    ASSUME IInv, [Next]_vars, "copies" \notin faults'
    PROVE  Stored' = Stored \/ (WriteCrc /\ Stored' = ram.sys)
  <1>0. /\ TypeOK /\ target \in Partitions /\ flash \in [Partitions -> Partition]
        /\ flash[target] \in Partition /\ ram.boot \in BootBytes
    BY DEF IInv, TypeOK, Partitions
  <1>1. "copies" \notin faults
    BY DEF Next, Flashing, Erase, WriteContent, WriteUser, WriteCrc, VerifyCrc, FlashFails, ReadFails, Load,
           LoadDefaults, LoadFromBackup, LoadRepairBackup, LoadClean, TakeSeed, Running,
           EditSettings, EditUserData, mico_system_context_update, mico_system_context_restore,
           PowerCut, vars
  <1>2. CASE UNCHANGED flash
    BY <1>2 DEF Stored
  \* While the backup is written, main is intact and decides.
  <1>3. ASSUME NEW q, flash' = [flash EXCEPT ![target] = q], target = "backup", pc \in FlashSteps
        PROVE  Stored' = Stored
    <2>1. Intact(main) /\ main' = main
      BY <1>3, <1>0, FlashFrame DEF IInv, Written
    <2>2. QED BY <2>1, StoredDef
  \* While main is written it carries no CRC or the backup's, and decides nothing.
  <1>4. ASSUME NEW q, flash' = [flash EXCEPT ![target] = q], target = "main", pc \in FlashSteps,
               q.crc \in {{}, main.crc}
        PROVE  Stored' = Stored
    <2>1. main' = q /\ backup' = backup
      BY <1>4, <1>0, FlashFrame
    <2>2. MainRedundant
      BY <1>1, <1>4 DEF IInv, RestInv
    <2>3. Intact(main) => Intact(backup) /\ main.sys = backup.sys
      BY <2>2, NoCrcNotIntact, SameCrcSameConfig DEF MainRedundant
    <2>4. Intact(q) => Intact(backup) /\ q.sys = backup.sys
      <3> SUFFICES ASSUME Intact(q) PROVE Intact(backup) /\ q.sys = backup.sys
        OBVIOUS
      <3>1. q.crc # {}
        BY NoCrcNotIntact
      <3>2. Intact(backup) /\ q.crc = backup.crc
        BY <3>1, <1>4, <2>2 DEF MainRedundant
      <3>3. QED BY <3>2, SameCrcSameConfig
    <2>5. QED BY <2>1, <2>3, <2>4, StoredDef
  <1>5. CASE FlashFails \/ PowerCut
    <2>1. PICK q \in Torn(pc, flash[target], ram.boot) : flash' = [flash EXCEPT ![target] = q]
      BY <1>5 DEF FlashFails, PowerCut
    <2>2. q.crc \in {flash[target].crc, {}} /\ (pc \notin FlashSteps => q = flash[target])
      BY <1>0, TornPartition
    <2>3. CASE pc \notin FlashSteps
      BY <2>1, <2>2, <2>3, <1>0, <1>2
    <2>4. CASE pc \in FlashSteps
      <3>1. target = "main" => q.crc \in {{}, main.crc}
        BY <2>2 DEF main
      <3>2. QED BY <2>1, <2>4, <3>1, <1>3, <1>4, <1>0 DEF Partitions
    <2>5. QED BY <2>3, <2>4
  <1> USE DEF FlashSteps
  <1>6. CASE Erase
    <2>1. flash' = [flash EXCEPT ![target] = Blank] /\ Blank.crc = {} /\ pc \in FlashSteps
      BY <1>6 DEF Erase, Blank
    <2>2. QED BY <2>1, <1>3, <1>4, <1>0 DEF Partitions
  <1>7. CASE WriteContent
    <2> DEFINE q == [flash[target] EXCEPT !.boot = ram.boot, !.sys = ram.sys]
    <2>1. flash' = [flash EXCEPT ![target] = q] /\ q.crc = flash[target].crc /\ pc \in FlashSteps
      BY <1>7, <1>0 DEF WriteContent, Partition
    <2>2. target = "main" => q.crc = main.crc
      BY <2>1 DEF main
    <2> HIDE DEF q
    <2>3. QED BY <2>1, <2>2, <1>3, <1>4, <1>0 DEF Partitions
  <1>8. CASE WriteUser
    <2> DEFINE q == [flash[target] EXCEPT !.user = ram.user]
    <2>1. flash' = [flash EXCEPT ![target] = q] /\ q.crc = flash[target].crc /\ pc \in FlashSteps
      BY <1>8, <1>0 DEF WriteUser, Partition
    <2>2. target = "main" => q.crc = main.crc
      BY <2>1 DEF main
    <2> HIDE DEF q
    <2>3. QED BY <2>1, <2>2, <1>3, <1>4, <1>0 DEF Partitions
  <1>9. CASE WriteCrc
    <2> DEFINE q == [flash[target] EXCEPT !.crc = crc_result]
    <2>1. flash' = [flash EXCEPT ![target] = q] /\ pc \in FlashSteps
      BY <1>9, <1>0 DEF WriteCrc
    <2>2. q.sys = ram.sys /\ q.crc = crc_result /\ flash[target].crc = {}
      BY <1>9, <1>0 DEF WriteCrc, IInv, Written, Partition
    <2> HIDE DEF q
    <2>3. CASE target = "backup"
      BY <2>1, <2>3, <1>3
    <2>4. CASE target = "main"
      <3>1. main' = q /\ backup' = backup /\ ~Intact(main)
        BY <2>1, <2>2, <2>4, <1>0, FlashFrame, NoCrcNotIntact DEF main
      <3>2. CASE Intact(q)
        BY <1>9, <2>2, <3>1, <3>2, StoredDef
      <3>3. CASE ~Intact(q)
        BY <3>1, <3>3, StoredDef
      <3>4. QED BY <3>2, <3>3
    <2>5. QED BY <2>3, <2>4, <1>0 DEF Partitions
  <1>10. QED
    BY <1>2, <1>5, <1>6, <1>7, <1>8, <1>9
       DEF Next, Flashing, VerifyCrc, Load, ReadFails, LoadDefaults, LoadFromBackup, LoadRepairBackup,
           LoadClean, TakeSeed, Running, EditSettings, EditUserData, mico_system_context_update,
           mico_system_context_restore, vars
-----------------------------------------------------------------------------
(* The storage implements AtomicConfig *)

LEMMA StoredType == ASSUME TypeOK PROVE Stored \in SysConfig \cup {Erased}
  <1>1. main \in Partition /\ backup \in Partition
    BY DEF TypeOK, main, backup, Partitions
  <1>2. QED BY <1>1, IntactNotGarbage, StoredDef

LEMMA ErasedIsNoConfig == Erased \notin SysConfig
  BY ParaFlashAssumption

\* The copy in RAM follows the abstract one: loaded at a start, edited, lost with power.
LEMMA WorkingStep ==
    ASSUME IInv, IInv', [Next]_vars, Stored' = Stored, "copies" \notin faults'
    PROVE  [Atomic!Next]_<<Stored, Working>>
  <1> USE DEF Working, Atomic!Next
  <1>0. /\ pc # "off" => ram.sys \in SysConfig
        /\ pc' # "off" => ram'.sys \in SysConfig
    BY DEF IInv, TypeOK
  <1>1. ASSUME pc # "off", pc' # "off" PROVE Atomic!Edit
    BY <1>0, <1>1, ErasedIsNoConfig DEF Atomic!Edit
  <1>2. CASE PowerCut
    BY <1>2 DEF PowerCut, Return, Atomic!PowerCut
  <1>3. CASE LoadDefaults
    <2>1. Stored = Erased /\ pc = "off" /\ pc' = "erase"
      BY <1>3 DEF LoadDefaults, BeginUpdate, Stored
    <2>2. QED BY <2>1, <1>0 DEF Atomic!Load
  <1>4. CASE LoadFromBackup
    <2>1. pc = "off" /\ pc' = "erase" /\ ram'.sys = Stored
      BY <1>4 DEF LoadFromBackup, BeginRecover, Stored
    <2>2. QED BY <2>1, <1>0, ErasedIsNoConfig DEF Atomic!Load
  <1>5. CASE LoadRepairBackup
    <2>1. pc = "off" /\ pc' = "erase" /\ ram'.sys = Stored
      BY <1>5 DEF LoadRepairBackup, BeginRecover, FromMain, Stored
    <2>2. QED BY <2>1, <1>0, ErasedIsNoConfig DEF Atomic!Load
  <1>6. CASE LoadClean
    <2>1. pc = "off" /\ pc' = "loaded" /\ ram'.sys = Stored
      BY <1>6 DEF LoadClean, FromMain, Stored
    <2>2. QED BY <2>1, <1>0, ErasedIsNoConfig DEF Atomic!Load
  <1>7. CASE Flashing \/ FlashFails
    BY <1>7, <1>1 DEF Flashing, Erase, WriteContent, WriteUser, WriteCrc, VerifyCrc, FlashFails,
                      FlashSteps, Return, IInv, TypeOK
  <1>8. CASE TakeSeed \/ Running
    BY <1>8, <1>1 DEF TakeSeed, Running, EditSettings, EditUserData, mico_system_context_update,
                      mico_system_context_restore, BeginUpdate
  <1>9. CASE UNCHANGED vars
    BY <1>9 DEF vars
  <1>10. ~ReadFails
    BY DEF ReadFails
  <1>11. QED BY <1>2, <1>3, <1>4, <1>5, <1>6, <1>7, <1>8, <1>9, <1>10 DEF Next, Load

\* Whatever step power goes at, the next start works on the last configuration that was
\* committed or on the one being committed: the erase-and-write sequence on two
\* partitions implements an atomic cell, unless an operation on the backup, or a read
\* at a start, failed.
THEOREM Refinement == Spec => AtomicUpdate
  <1>1. Init => Atomic!Init
    <2> SUFFICES ASSUME Init PROVE Atomic!Init
      OBVIOUS
    <2>1. TypeOK /\ pc = "off"
      BY InitType DEF Init
    <2>2. QED BY <2>1, StoredType DEF Atomic!Init, Working
  <1>2. IInv /\ IInv' /\ [Next]_vars => [Atomic!Next \/ "copies" \in faults']_<<Stored, Working>>
    <2> SUFFICES ASSUME IInv, IInv', [Next]_vars, "copies" \notin faults'
                 PROVE  [Atomic!Next]_<<Stored, Working>>
      OBVIOUS
    <2>1. CASE Stored' = Stored
      BY <2>1, WorkingStep
    <2>2. CASE WriteCrc /\ Stored' = ram.sys
      <3>1. pc # "off" /\ pc' # "off" /\ ram' = ram /\ ram.sys \in SysConfig
        BY <2>2 DEF WriteCrc, Return, IInv, TypeOK
      <3>2. QED BY <2>2, <3>1, ErasedIsNoConfig DEF Atomic!Next, Atomic!Commit, Working
    <2>3. QED BY <2>1, <2>2, StoredStep
  <1>3. QED BY <1>1, <1>2, Invariance, PTL DEF Spec, AtomicUpdate
-----------------------------------------------------------------------------
(* Durability and seeds *)

\* mico_system_context_update and _restore return kNoErr only when both partitions, each
\* alone, would give the next start what is in RAM.
THEOREM Durability == Spec => KNoErrMeansDurable
  <1>1. IInv /\ IInv' /\ [Next]_vars =>
          [WriteCrc /\ pc' = "ready" =>
             \A p \in Partitions : Intact(flash'[p]) /\ flash'[p].sys = ram.sys]_vars
    <2> SUFFICES ASSUME IInv, WriteCrc, pc' = "ready", NEW p \in Partitions
                 PROVE  Intact(flash'[p]) /\ flash'[p].sys = ram.sys
      OBVIOUS
    <2> DEFINE q == [flash[target] EXCEPT !.crc = crc_result]
    <2>0. /\ TypeOK /\ target \in Partitions /\ flash[target] \in Partition
          /\ flash \in [Partitions -> Partition]
      BY DEF IInv, TypeOK
    <2>1. target = "backup"
      BY <2>0 DEF WriteCrc, Return, IInv, Written, FlashSteps, Partitions, TypeOK
    <2>2. flash' = [flash EXCEPT ![target] = q]
      BY <2>0 DEF WriteCrc
    <2>3. q.sys = ram.sys /\ q.user = ram.user /\ q.crc = crc_result
      BY <2>0 DEF WriteCrc, IInv, Written, FlashSteps, Partition
    <2> HIDE DEF q
    <2>4. Intact(main) /\ main.sys = ram.sys /\ main.user = ram.user /\ crc_result = main.crc
      BY <2>1 DEF WriteCrc, IInv, Written, FlashSteps
    <2>5. Intact(q)
      BY <2>3, <2>4 DEF Intact
    <2>6. flash'["main"] = main /\ flash'["backup"] = q
      BY <2>0, <2>1, <2>2 DEF main, Partitions
    <2>7. QED BY <2>3, <2>4, <2>5, <2>6 DEF Partitions
  <1>2. QED BY <1>1, Invariance, PTL DEF Spec, KNoErrMeansDurable

LEMMA SysSeed == ASSUME NEW c \in SysConfig PROVE c.seed \in Nat
  BY DEF SysConfig

\* RAM never carries an older seed than flash, and seedNum none older than RAM.
LEMMA SeedStep == IInv /\ IInv' /\ SeedInv /\ [Next]_vars => SeedInv'
  <1> SUFFICES ASSUME IInv, IInv', SeedInv, [Next]_vars, faults' = {} PROVE SeedInv'
    BY DEF SeedInv
  <1>0. faults = {}
    BY DEF Next, Flashing, Erase, WriteContent, WriteUser, WriteCrc, VerifyCrc, FlashFails, ReadFails, Load,
           LoadDefaults, LoadFromBackup, LoadRepairBackup, LoadClean, TakeSeed, Running,
           EditSettings, EditUserData, mico_system_context_update, mico_system_context_restore,
           PowerCut, vars
  <1>1. /\ TypeOK /\ TypeOK' /\ seedNum \in Nat /\ seedNum' \in Nat
        /\ Stored \in SysConfig \cup {Erased}
        /\ Stored # Erased => Stored.seed \in Nat
        /\ pc # "off" => ram.sys \in SysConfig /\ ram.sys.seed \in Nat
        /\ pc' # "off" => ram'.sys \in SysConfig /\ ram'.sys.seed \in Nat
    BY StoredType, SysSeed DEF IInv, TypeOK
  <1>2. Stored' = Stored \/ (WriteCrc /\ Stored' = ram.sys)
    BY StoredStep
  <1> USE DEF FlashSteps
  <1>3. CASE WriteCrc
    <2>1. /\ UNCHANGED <<ram, seedNum>> /\ pc = "crc"
          /\ \/ pc' = "verify" /\ op = "update"
             \/ pc' = "ready" /\ op = "update"
             \/ pc' = "loaded"
      BY <1>1, <1>3 DEF WriteCrc, Return, call, IInv, Written, TypeOK
    <2>2. QED BY <1>0, <1>1, <1>2, <2>1 DEF SeedInv
  <1>4. CASE Erase \/ WriteContent \/ WriteUser
    <2>1. UNCHANGED <<ram, seedNum, op>> /\ pc \in FlashSteps /\ pc' \in FlashSteps /\ ~WriteCrc
      BY <1>4 DEF Erase, WriteContent, WriteUser, WriteCrc, call
    <2>2. QED BY <1>0, <1>1, <1>2, <2>1 DEF SeedInv
  <1>5. CASE VerifyCrc
    <2>1. /\ UNCHANGED <<ram, seedNum>> /\ pc = "verify" /\ op = "update"
          /\ pc' \in {"ready", "erase"} /\ ~WriteCrc
      BY <1>5 DEF VerifyCrc, Return, IInv, Verifying, WriteCrc
    <2>2. QED BY <1>0, <1>1, <1>2, <2>1 DEF SeedInv
  \* A failed update keeps seedNum ahead of RAM; a failed recovery is in "faults".
  <1>6. CASE FlashFails
    <2>1. UNCHANGED <<ram, seedNum>> /\ pc \in FlashSteps /\ pc' = "ready" /\ ret # "loaded"
      BY <1>6 DEF FlashFails, Return
    <2>2. op = "update"
      BY <1>1, <2>1 DEF IInv, Written, TypeOK
    <2>3. QED BY <1>0, <1>1, <1>2, <2>1, <2>2 DEF SeedInv
  <1>7. CASE LoadDefaults
    <2>1. /\ pc = "off" /\ pc' = "erase" /\ Stored = Erased /\ seedNum' = 0
          /\ ~WriteCrc
      BY <1>7 DEF LoadDefaults, BeginUpdate, Stored, WriteCrc
    <2>2. ram'.sys.seed = 0
      BY <1>7 DEF LoadDefaults, BeginUpdate, Defaults
    <2>3. QED BY <1>1, <1>2, <2>1, <2>2 DEF SeedInv
  <1>8. CASE LoadFromBackup \/ LoadRepairBackup
    <2>1. /\ pc = "off" /\ pc' = "erase" /\ op' = "recover" /\ ram'.sys = Stored
          /\ ~WriteCrc
      BY <1>8 DEF LoadFromBackup, LoadRepairBackup, BeginRecover, FromMain, Stored, WriteCrc
    <2>2. QED BY <1>1, <1>2, <2>1 DEF SeedInv
  <1>9. CASE LoadClean
    <2>1. pc = "off" /\ pc' = "loaded" /\ ram'.sys = Stored /\ ~WriteCrc
      BY <1>9 DEF LoadClean, FromMain, Stored, WriteCrc
    <2>2. QED BY <1>1, <1>2, <2>1 DEF SeedInv
  <1>10. CASE TakeSeed
    <2>1. pc = "loaded" /\ pc' # "off" /\ seedNum' = ram.sys.seed /\ ~WriteCrc
      BY <1>10 DEF TakeSeed, WriteCrc, BeginUpdate
    <2>2. ram'.sys.seed = ram.sys.seed
      BY <1>10 DEF TakeSeed, BeginUpdate, Defaults
    <2>3. QED BY <1>0, <1>1, <1>2, <2>1, <2>2 DEF SeedInv
  <1>11. CASE \E s \in Settings : EditSettings(s)
    <2>1. PICK s \in Settings : EditSettings(s)
      BY <1>11
    <2>2. ram.sys \in SysConfig /\ ram \in [boot : BootBytes, sys : SysBytes, user : UserBytes]
      BY <1>1, <2>1 DEF EditSettings, TypeOK
    <2>3. ram'.sys = [ram.sys EXCEPT !.settings = s]
      BY <2>1, <2>2 DEF EditSettings
    <2>4. ram'.sys.seed = ram.sys.seed
      BY <2>2, <2>3 DEF SysConfig
    <2>5. pc = "ready" /\ pc' = "ready" /\ seedNum' = seedNum /\ ~WriteCrc
      BY <2>1 DEF EditSettings, WriteCrc
    <2>6. QED BY <1>0, <1>1, <1>2, <2>4, <2>5 DEF SeedInv
  <1>12. CASE \E u \in UserData : EditUserData(u)
    <2>1. ram'.sys = ram.sys /\ pc = "ready" /\ pc' = "ready" /\ seedNum' = seedNum /\ ~WriteCrc
      BY <1>1, <1>12 DEF EditUserData, WriteCrc, TypeOK
    <2>2. QED BY <1>0, <1>1, <1>2, <2>1 DEF SeedInv
  <1>13. CASE mico_system_context_update
    <2>1. ram.sys \in SysConfig /\ ram \in [boot : BootBytes, sys : SysBytes, user : UserBytes]
      BY <1>1, <1>13 DEF mico_system_context_update, TypeOK
    <2>2. ram'.sys = [ram.sys EXCEPT !.seed = seedNum + 1]
      BY <1>13, <2>1 DEF mico_system_context_update, BeginUpdate
    <2>3. ram'.sys.seed = seedNum + 1
      BY <2>1, <2>2 DEF SysConfig
    <2>4. pc = "ready" /\ pc' = "erase" /\ seedNum' = seedNum + 1 /\ ~WriteCrc
      BY <1>13 DEF mico_system_context_update, BeginUpdate, WriteCrc
    <2>5. seedNum >= ram.sys.seed /\ (Stored # Erased => ram.sys.seed >= Stored.seed)
      BY <1>0, <2>4 DEF SeedInv
    <2>6. Stored # Erased => seedNum + 1 >= Stored.seed
      BY <1>1, <2>4, <2>5
    <2>7. Stored' = Stored
      BY <1>2, <2>4
    <2>8. QED BY <1>1, <2>3, <2>4, <2>6, <2>7 DEF SeedInv
  <1>14. CASE mico_system_context_restore
    <2>1. ram'.sys.seed = seedNum
      BY <1>14 DEF mico_system_context_restore, BeginUpdate, Defaults
    <2>2. pc = "ready" /\ pc' = "erase" /\ seedNum' = seedNum /\ ~WriteCrc
      BY <1>14 DEF mico_system_context_restore, BeginUpdate, WriteCrc
    <2>3. seedNum >= ram.sys.seed /\ (Stored # Erased => ram.sys.seed >= Stored.seed)
      BY <1>0, <2>2 DEF SeedInv
    <2>4. Stored # Erased => seedNum >= Stored.seed
      BY <1>1, <2>2, <2>3
    <2>5. Stored' = Stored
      BY <1>2, <2>2
    <2>6. QED BY <1>1, <2>1, <2>2, <2>4, <2>5 DEF SeedInv
  <1>15. CASE PowerCut
    BY <1>15 DEF PowerCut, Return, SeedInv
  <1>16. CASE UNCHANGED vars
    <2>1. ~WriteCrc \/ Stored' = Stored
      BY <1>16 DEF vars, Stored
    <2>2. QED BY <1>0, <1>1, <1>2, <1>16, <2>1 DEF vars, call, SeedInv, WriteCrc, Stored
  <1>17. QED
    BY <1>3, <1>4, <1>5, <1>6, <1>7, <1>8, <1>9, <1>10, <1>11, <1>12, <1>13, <1>14, <1>15, <1>16
       DEF Next, Flashing, Load, ReadFails, Running

\* The stored seed never goes back and what is stored is never lost, whatever power does:
\* no start falls back to an older configuration or to defaults.
THEOREM SeedMonotone == Spec => SeedNeverGoesBack
  <1>1. Init => SeedInv
    BY DEF Init, SeedInv, FlashSteps
  <1>2. IInv /\ SeedInv /\ [Next]_vars =>
          [Stored # Erased /\ faults' = {} => Stored' # Erased /\ Stored'.seed >= Stored.seed]_vars
    <2> SUFFICES ASSUME IInv, SeedInv, [Next]_vars, Stored # Erased, faults' = {}
                 PROVE  Stored' # Erased /\ Stored'.seed >= Stored.seed
      OBVIOUS
    <2>1. Stored.seed \in Nat
      BY StoredType, SysSeed DEF IInv
    <2>2. CASE Stored' = Stored
      BY <2>1, <2>2
    <2>3. CASE WriteCrc /\ Stored' = ram.sys
      <3>1. pc # "off" /\ faults = {} /\ ram.sys \in SysConfig
        BY <2>3 DEF WriteCrc, IInv, TypeOK
      <3>2. QED BY <2>3, <3>1, ErasedIsNoConfig DEF SeedInv
    <2>4. QED BY <2>2, <2>3, StoredStep
  <1>3. QED BY <1>1, <1>2, SeedStep, Invariance, PTL DEF Spec, SeedNeverGoesBack
=============================================================================
