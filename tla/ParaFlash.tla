----------------------------- MODULE ParaFlash ------------------------------
(***************************************************************************)
(* The two parameter partitions of the flash and the operations            *)
(* mico_system_para_storage.c and the bootloader apply to them.            *)
(*                                                                         *)
(* A partition holds the boot table and the system configuration (written  *)
(* together as flash_content_t), the application's configuration and a     *)
(* CRC-16 of the last two.  Contents are abstract values.  The CRC is      *)
(* represented by the singleton of the pair it was computed from: two      *)
(* different pairs never share a CRC (collisions are not modelled), and {} *)
(* stands for a CRC field that matches no data: 0, erased or half written. *)
(***************************************************************************)
EXTENDS Naturals

CONSTANTS Settings,         \* contents of mico_sys_config_t, seed and magic apart
          DefaultSettings,  \* the ones mico_system_context_restore writes
          OtherFirmware,    \* a configuration whose magic_number is not ours
          UserData,         \* contents of user_config_data
          DefaultUserData,  \* the ones appRestoreDefault_callback writes
          Garbage,          \* what an interrupted flash operation may leave
          Erased,           \* all 0xFF
          Image,            \* firmware images a boot table may ask to install
          ZeroCrc           \* the <<system, user>> pairs whose CRC-16 is 0

SysConfig == [seed : Nat, settings : Settings \cup {OtherFirmware}]

ASSUME ParaFlashAssumption ==
    /\ DefaultSettings \in Settings
    /\ OtherFirmware \notin Settings
    /\ DefaultUserData \in UserData
    /\ Erased \in Garbage
    /\ \A g \in Garbage : g \notin SysConfig /\ g \notin UserData

Partitions == {"main", "backup"}  \* MICO_PARTITION_PARAMETER_1 and _2

\* boot_table_t: zeroed, erased, or a request (upgrade_type 'U') to install an image,
\* which its length and crc identify.
BootBytes == {"zero", Erased} \cup Image
SysBytes  == SysConfig \cup Garbage
UserBytes == UserData \cup Garbage
CrcField  == SUBSET (SysConfig \X UserBytes)  \* never computed over garbage settings
Partition == [boot : BootBytes, sys : SysBytes, user : UserBytes, crc : CrcField]

\* CRC16 over the system and the user configuration; 0 for the pairs of ZeroCrc.
Crc(sys, user) == {<<sys, user>>} \ ZeroCrc

is_crc_match(crc_1, crc_2) == crc_1 # {} /\ crc_2 # {} /\ crc_1 = crc_2

\* The check MICOReadConfiguration makes of one partition.
Intact(p) == is_crc_match(Crc(p.sys, p.user), p.crc)

Blank == [boot |-> Erased, sys |-> Erased, user |-> Erased, crc |-> {}]

\* What one flash operation on p may leave if it does not complete: any field it
\* touches is garbage (possibly still erased), or, for an erase, not yet reached.
\* A boot table in pieces is no update request: it counts as erased.
Torn(step, p, boot) ==
    CASE step = "erase" ->
             [boot : {p.boot, Erased}, sys : {p.sys} \cup Garbage,
              user : {p.user} \cup Garbage, crc : {p.crc, {}}]
      [] step = "content" ->
             [boot : {boot, Erased}, sys : Garbage, user : {p.user}, crc : {p.crc}]
      [] step = "user" ->
             [boot : {p.boot}, sys : {p.sys}, user : Garbage, crc : {p.crc}]
      [] step = "crc" ->
             [boot : {p.boot}, sys : {p.sys}, user : {p.user}, crc : {{}}]
      [] OTHER -> {p}
=============================================================================
