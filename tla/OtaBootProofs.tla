---------------------------- MODULE OtaBootProofs ------------------------------
(***************************************************************************)
(* An installation is atomic: for images of any number of chunks, any      *)
(* number of power cuts in the bootloader and in the running system, and   *)
(* any other use of the parameter storage meanwhile.                       *)
(***************************************************************************)
EXTENDS OtaBoot, ParaStorageProofs

AllUpdaters == {"http", "fog"}
Ram == [boot : BootBytes, sys : SysBytes, user : UserBytes]

TypeInv ==
    /\ TypeOK
    /\ OtaTypeOK
    /\ \A u \in AllUpdaters : updater[u] = "receiving" => got[u].chunks < Chunks
-----------------------------------------------------------------------------
(* Types *)

LEMMA BlankAreaType == BlankArea \in Area
BY DEF BlankArea, Area

LEMMA HalvesType ==
    ASSUME NEW area \in Area, NEW k, NEW b \in HalfErased(area) \cup HalfWritten(area, k)
    PROVE  b \in Area
BY DEF HalfErased, HalfWritten, Area

LEMMA BlankType == Blank \in Partition
BY ParaFlashAssumption DEF Blank, Partition, BootBytes, SysBytes, UserBytes, CrcField

LEMMA HalfPageType ==
    ASSUME page \in Partition, NEW q \in HalfPage
    PROVE  q \in Partition /\ q.boot = page.boot
BY DEF HalfPage, Partition, SysBytes, UserBytes, CrcField

LEMMA OtaInitType == OtaInit => TypeInv
<1> SUFFICES ASSUME OtaInit PROVE TypeInv
  OBVIOUS
<1>1. TypeOK
  BY InitType DEF OtaInit
<1>2. /\ stage = "log" /\ copied = 0 /\ page = Blank /\ mutex = "free" /\ cuts = 0 /\ otaFault = FALSE
      /\ ota = BlankArea /\ pc = "off"
      /\ updater = [u \in AllUpdaters |-> "idle"]
      /\ got = [u \in AllUpdaters |-> [image |-> Latest, chunks |-> 0]]
      /\ \E i \in Image : app = [k \in Chunk |-> i]
  BY DEF OtaInit, Init, AllUpdaters, Nothing
<1>3. Latest \in Image /\ Chunks \in Nat \ {0} /\ MaxCuts \in Nat
  BY OtaBootAssumption
<1>4. app \in Area
  BY <1>2 DEF Area
<1>5. /\ updater \in [AllUpdaters -> {"idle", "receiving", "received", "verified", "recording",
                                    "recorded", "requesting", "resetting"}]
      /\ \A u \in AllUpdaters : updater[u] = "idle"
  BY <1>2
<1>6. got \in [AllUpdaters -> [image : Image, chunks : 0..Chunks]]
  <2>1. [image |-> Latest, chunks |-> 0] \in [image : Image, chunks : 0..Chunks]
    BY <1>3
  <2> QED BY <1>2, <2>1
<1>7. OtaTypeOK
  <2>1. copied \in 0..Chunks /\ cuts \in 0..(MaxCuts + 1)
    BY <1>2, <1>3
  <2>3. otaFault \in BOOLEAN
    BY <1>2, Zenon
  <2>2. page \in Partition /\ ota \in Area
    BY <1>2, BlankType, BlankAreaType
  <2> QED BY <1>2, <1>4, <1>5, <1>6, <2>1, <2>2, <2>3 DEF OtaTypeOK, AllUpdaters
<1> QED BY <1>1, <1>5, <1>7 DEF TypeInv

\* The calls of the parameter storage; the page the bootloader rewrites; what it leaves in pieces.
LEMMA StorageType == ASSUME TypeOK, [Next]_vars PROVE TypeOK'
BY TypeStep

LEMMA PageType ==
    ASSUME TypeOK, NEW q \in Partition, flash' = [flash EXCEPT !["main"] = q],
           UNCHANGED <<ram, seedNum, pc, call, faults>>
    PROVE  TypeOK'
BY DEF TypeOK, call

LEMMA SameType == ASSUME TypeOK, UNCHANGED <<flash, ram, seedNum, pc, call, faults>> PROVE TypeOK'
BY DEF TypeOK, call

\* What the configuration server asks the storage to write.
LEMMA RequestType ==
    ASSUME ram \in Ram, ram.sys \in SysConfig, NEW i \in Image, NEW s \in Settings
    PROVE  LET r == [ram EXCEPT !.boot = i, !.sys.settings = s]
           IN  r \in Ram /\ r.sys \in SysConfig
<1> DEFINE c == [ram.sys EXCEPT !.settings = s]
           r == [ram EXCEPT !.boot = i, !.sys.settings = s]
<1>1. c \in SysConfig
  BY DEF SysConfig
<1>2. r = [ram EXCEPT !.boot = i, !.sys = c]
  BY DEF Ram
<1> HIDE DEF c
<1>3. r \in Ram /\ r.sys \in SysConfig
  BY <1>1, <1>2 DEF Ram, SysBytes, BootBytes
<1> QED BY <1>3

LEMMA UpdateByType ==
    ASSUME TypeOK, NEW r \in Ram, r.sys \in SysConfig, NEW u, NEW step, UpdateBy(u, r, step)
    PROVE  TypeOK' /\ ram'.boot = r.boot
<1> DEFINE s == [r EXCEPT !.sys.seed = seedNum + 1]
<1>1. seedNum \in Nat
  BY DEF TypeOK
<1>2. s = [r EXCEPT !.sys = [r.sys EXCEPT !.seed = seedNum + 1]]
  BY DEF Ram
<1>3. [r.sys EXCEPT !.seed = seedNum + 1] \in SysConfig
  BY <1>1 DEF SysConfig
<1>4. s \in Ram /\ s.sys \in SysConfig /\ s.boot = r.boot
  BY <1>2, <1>3 DEF Ram, SysBytes
<1>5. BeginUpdate(s, "ready") /\ UNCHANGED <<flash, faults>> /\ seedNum' = seedNum + 1
  BY DEF UpdateBy
<1> HIDE DEF s
<1>6. Crc(s.sys, s.user) \in CrcField
  BY <1>4, CrcType DEF Ram
<1> QED BY <1>1, <1>4, <1>5, <1>6 DEF BeginUpdate, TypeOK, FlashSteps, Partitions, Ram

LEMMA TornInstallType ==
    ASSUME TypeInv, TornInstall, UNCHANGED <<ram, seedNum, pc, call, faults>>
    PROVE  TypeOK' /\ app' \in Area /\ ota' \in Area
<1>1. app \in Area /\ ota \in Area /\ flash["main"] \in Partition /\ page \in Partition
  BY DEF TypeInv, OtaTypeOK, TypeOK, Partitions
<1>2. CASE UNCHANGED flash
  BY <1>1, <1>2, HalvesType, SameType DEF TornInstall, TypeInv
<1>3. CASE \E q \in Torn("erase", flash["main"], Erased) : flash' = [flash EXCEPT !["main"] = q] /\ UNCHANGED <<app, ota>>
  <2>1. PICK q \in Torn("erase", flash["main"], Erased) : flash' = [flash EXCEPT !["main"] = q] /\ UNCHANGED <<app, ota>>
    BY <1>3
  <2>2. q \in Partition
    BY <1>1, <2>1, TornPartition DEF BootBytes
  <2> QED BY <1>1, <2>1, <2>2, PageType DEF TypeInv
<1>4. CASE \E q \in HalfPage : flash' = [flash EXCEPT !["main"] = q] /\ UNCHANGED <<app, ota>>
  <2>1. PICK q \in HalfPage : flash' = [flash EXCEPT !["main"] = q] /\ UNCHANGED <<app, ota>>
    BY <1>4
  <2>2. q \in Partition
    BY <1>1, <2>1, HalfPageType
  <2> QED BY <1>1, <2>1, <2>2, PageType DEF TypeInv
<1> QED BY <1>2, <1>3, <1>4 DEF TornInstall

\* Every step of the composition: the bootloader, the storage at work, the updaters, the resets.
LEMMA OtaTypeStep == TypeInv /\ [OtaNext]_allVars => TypeInv'
<1> SUFFICES ASSUME TypeInv, [OtaNext]_allVars PROVE TypeInv'
  OBVIOUS
<1> USE DEF AllUpdaters
<1>0. /\ TypeOK /\ app \in Area /\ ota \in Area /\ page \in Partition
      /\ stage \in {"log", "clean", "erase", "copy", "page", "write", "done", "run"}
      /\ copied \in 0..Chunks /\ Chunks \in Nat \ {0} /\ cuts \in 0..(MaxCuts + 1) /\ MaxCuts \in Nat
      /\ updater \in [AllUpdaters -> {"idle", "receiving", "received", "verified", "recording",
                                      "recorded", "requesting", "resetting"}]
      /\ got \in [AllUpdaters -> [image : Image, chunks : 0..Chunks]]
      /\ mutex \in {"free", "http", "fog"} /\ otaFault \in BOOLEAN
      /\ stage # "run" => pc = "off"
      /\ Updaters \subseteq AllUpdaters /\ Latest \in Image
      /\ flash["main"] \in Partition
  BY OtaBootAssumption DEF TypeInv, OtaTypeOK, TypeOK, Partitions
<1>1. ASSUME UNCHANGED <<updater, got>>, TypeOK', app' \in Area, ota' \in Area, page' \in Partition,
             stage' \in {"log", "clean", "erase", "copy", "page", "write", "done", "run"},
             copied' \in 0..Chunks, cuts' \in 0..(MaxCuts + 1), mutex' \in {"free", "http", "fog"},
             otaFault' \in BOOLEAN, stage' # "run" => pc' = "off"
      PROVE  TypeInv'
  BY <1>0, <1>1 DEF TypeInv, OtaTypeOK
<1>2. CASE Bootloader
  <2>1. CASE updateLogCheck
    BY <1>0, <1>1, <2>1, SameType DEF updateLogCheck, vars, call
  <2>2. CASE EraseApplication
    BY <1>0, <1>1, <2>2, SameType, BlankAreaType DEF EraseApplication, vars, call
  <2>3. CASE CopyChunk
    <3>1. app' \in Area
      BY <1>0, <2>3 DEF CopyChunk, Area
    <3>2. copied' \in 0..Chunks /\ stage' \in {"copy", "page"} /\ stage # "run"
      BY <1>0, <2>3 DEF CopyChunk
    <3> QED BY <1>0, <1>1, <2>3, <3>1, <3>2, SameType DEF CopyChunk, vars, call
  <2>4. CASE ErasePage
    <3>1. page' \in Partition
      BY <1>0, <2>4 DEF ErasePage, Partition, BootBytes
    <3> QED BY <1>0, <1>1, <2>4, <3>1, PageType, BlankType DEF ErasePage
  <2>5. CASE WritePage
    BY <1>0, <1>1, <2>5, PageType, BlankType DEF WritePage
  <2>6. CASE EraseOta
    BY <1>0, <1>1, <2>6, SameType, BlankAreaType DEF EraseOta, vars, call
  <2> QED BY <1>2, <2>1, <2>2, <2>3, <2>4, <2>5, <2>6 DEF Bootloader
<1>3. CASE BootloaderCut
  <2>1. TypeOK' /\ app' \in Area /\ ota' \in Area
    BY <1>3, TornInstallType DEF BootloaderCut
  <2>2. cuts' \in 0..(MaxCuts + 1) /\ stage # "run" /\ copied' \in 0..Chunks
    BY <1>0, <1>3 DEF BootloaderCut, TornInstall
  <2> QED BY <1>0, <1>1, <1>3, <2>1, <2>2, BlankType DEF BootloaderCut
<1>4. CASE InstallFails
  <2>1. TypeOK' /\ app' \in Area /\ ota' \in Area
    BY <1>4, TornInstallType DEF InstallFails
  <2>2. copied' \in 0..Chunks
    BY <1>0, <1>4 DEF InstallFails
  <2> QED BY <1>0, <1>1, <1>4, <2>1, <2>2, BlankType DEF InstallFails
<1>5. CASE Starting \/ Writing \/ Calling
  <2>1. TypeOK' /\ stage = "run" /\ UNCHANGED otaVars
    BY <1>0, <1>5, StorageType DEF Starting, Writing, Calling, Next, Running
  <2> QED BY <1>0, <1>1, <2>1 DEF otaVars
<1>6. ASSUME NEW u \in AllUpdaters,
             NEW x \in {"idle", "receiving", "received", "verified", "recording", "recorded",
                        "requesting", "resetting"},
             updater' = [updater EXCEPT ![u] = x],
             NEW g \in [image : Image, chunks : 0..Chunks], x = "receiving" => g.chunks < Chunks,
             got' = [got EXCEPT ![u] = g],
             TypeOK', ota' \in Area, UNCHANGED <<app, stage, copied, page, cuts>>,
             mutex' \in {"free", "http", "fog"}, otaFault' \in BOOLEAN, stage = "run" \/ UNCHANGED pc
      PROVE  TypeInv'
  <2>1. updater' \in [AllUpdaters -> {"idle", "receiving", "received", "verified", "recording",
                                      "recorded", "requesting", "resetting"}]
    BY <1>0, <1>6
  <2>2. got' \in [AllUpdaters -> [image : Image, chunks : 0..Chunks]]
    BY <1>0, <1>6
  <2>3. \A v \in AllUpdaters : updater'[v] = "receiving" => got'[v].chunks < Chunks
    BY <1>0, <1>6 DEF TypeInv
  <2> QED BY <1>0, <1>6, <2>1, <2>2, <2>3 DEF TypeInv, OtaTypeOK
<1>7. CASE SoftwareReset \/ RunningCut
  <2>1. TypeOK' /\ stage' = "log" /\ pc' = "off" /\ NoUpdater /\ UNCHANGED <<app, copied, page, otaFault>>
    BY <1>0, <1>7, StorageType DEF SoftwareReset, RunningCut, Next, PowerCut, Return
  <2>2. cuts' \in 0..(MaxCuts + 1)
    BY <1>0, <1>7 DEF SoftwareReset, RunningCut
  <2>3. ota' \in Area
    BY <1>0, <1>7, HalvesType DEF SoftwareReset, RunningCut
  <2>4. /\ updater' \in [AllUpdaters -> {"idle", "receiving", "received", "verified", "recording",
                                        "recorded", "requesting", "resetting"}]
        /\ \A u \in AllUpdaters : updater'[u] = "idle"
    BY <2>1 DEF NoUpdater
  <2>5. got' \in [AllUpdaters -> [image : Image, chunks : 0..Chunks]]
    <3>1. Nothing \in [image : Image, chunks : 0..Chunks]
      BY <1>0 DEF Nothing
    <3> QED BY <2>1, <3>1 DEF NoUpdater
  <2>6. mutex' \in {"free", "http", "fog"}
    BY <2>1 DEF NoUpdater
  <2> QED BY <1>0, <2>1, <2>2, <2>3, <2>4, <2>5, <2>6 DEF TypeInv, OtaTypeOK
<1>8. ASSUME NEW u \in AllUpdaters,
             NEW x \in {"idle", "receiving", "received", "verified", "recording", "recorded",
                        "requesting", "resetting"}, x # "receiving",
             updater' = [updater EXCEPT ![u] = x], UNCHANGED got,
             TypeOK', UNCHANGED <<app, ota, stage, copied, page, cuts, otaFault>>,
             mutex' \in {"free", "http", "fog"}, stage = "run" \/ UNCHANGED pc
      PROVE  TypeInv'
  <2>1. got[u] \in [image : Image, chunks : 0..Chunks] /\ got' = [got EXCEPT ![u] = got[u]]
    BY <1>0, <1>8
  <2> QED BY <1>0, <1>6, <1>8, <2>1
<1>9. CASE Updating
  <2>1. ASSUME NEW u \in AllUpdaters, NEW i \in Image, Receive(u, i), mutex' \in {"free", "http", "fog"}
        PROVE  TypeInv'
    <3>1. [image |-> i, chunks |-> 0] \in [image : Image, chunks : 0..Chunks] /\ 0 < Chunks
      BY <1>0
    <3> QED BY <1>0, <1>6, <2>1, <3>1, SameType, BlankAreaType DEF Receive, vars, call
  <2>2. ASSUME NEW i \in Image, HttpOtaBegins(i) PROVE TypeInv'
    BY <2>1, <2>2 DEF HttpOtaBegins
  <2>3. CASE FogOtaBegins
    BY <1>0, <2>1, <2>3 DEF FogOtaBegins
  <2>4. ASSUME NEW u \in AllUpdaters, Advance(u), ota' \in Area, mutex' \in {"free", "http", "fog"},
               otaFault' \in BOOLEAN
        PROVE  TypeInv'
    <3>1. got[u] \in [image : Image, chunks : 0..Chunks] /\ got[u].chunks < Chunks
      BY <1>0, <2>4 DEF Advance, TypeInv
    <3> DEFINE g == [got[u] EXCEPT !.chunks = got[u].chunks + 1]
    <3>2. g \in [image : Image, chunks : 0..Chunks] /\ g.chunks = got[u].chunks + 1
      BY <1>0, <3>1
    <3>3. got' = [got EXCEPT ![u] = g]
      BY <1>0, <2>4 DEF Advance, NextChunk
    <3> HIDE DEF g
    <3>4. got[u].chunks + 1 # Chunks => g.chunks < Chunks
      BY <1>0, <3>1, <3>2
    <3> DEFINE x == IF got[u].chunks + 1 = Chunks THEN "received" ELSE "receiving"
    <3>5. updater' = [updater EXCEPT ![u] = x] /\ TypeOK' /\ UNCHANGED <<app, stage, copied, page, cuts, pc>>
      BY <1>0, <2>4, SameType DEF Advance, NextChunk, vars, call
    <3>6. /\ x \in {"idle", "receiving", "received", "verified", "recording", "recorded", "requesting", "resetting"}
          /\ x = "receiving" => g.chunks < Chunks
      BY <3>4
    <3> HIDE DEF x
    <3> QED BY <1>6, <2>4, <3>2, <3>3, <3>5, <3>6
  <2>5. ASSUME NEW u \in AllUpdaters, WriteChunk(u) PROVE TypeInv'
    <3>1. got[u].image \in Image
      BY <1>0
    <3>2. ota' \in Area
      BY <1>0, <2>5, <3>1 DEF WriteChunk, Area
    <3> QED BY <1>0, <2>4, <2>5, <3>2 DEF WriteChunk
  <2>6. CASE HttpChunkFails
    <3>1. ota' \in Area
      BY <1>0, <2>6, HalvesType DEF HttpChunkFails
    <3> QED BY <2>4, <2>6, <3>1 DEF HttpChunkFails
  <2>17. CASE HttpChunkStrays
    <3>1. ota' \in Area
      BY <1>0, <2>17, HalvesType DEF HttpChunkStrays
    <3> QED BY <1>0, <2>4, <2>17, <3>1 DEF HttpChunkStrays
  <2>18. ASSUME NEW i \in Image, HttpEraseFails(i) PROVE TypeInv'
    <3>1. [image |-> i, chunks |-> 0] \in [image : Image, chunks : 0..Chunks] /\ 0 < Chunks
      BY <1>0
    <3>2. ota' \in Area
      BY <1>0, <2>18, HalvesType DEF HttpEraseFails
    <3> QED BY <1>0, <1>6, <2>18, <3>1, <3>2, SameType DEF HttpEraseFails, vars, call
  <2>7. ASSUME NEW u \in AllUpdaters, updater' = [updater EXCEPT ![u] = "idle"], got' = [got EXCEPT ![u] = Nothing],
               UNCHANGED <<vars, app, ota, stage, copied, page, cuts, otaFault>>, mutex' \in {"free", "http", "fog"}
        PROVE  TypeInv'
    <3>1. Nothing \in [image : Image, chunks : 0..Chunks]
      BY <1>0 DEF Nothing
    <3> QED BY <1>0, <1>6, <2>7, <3>1, SameType DEF vars, call
  <2>8. ASSUME NEW u \in AllUpdaters, OtaAborted(u) PROVE TypeInv'
    BY <1>0, <2>7, <2>8 DEF OtaAborted
  <2>9. CASE FogVerifies
    <3>1. CASE Whole(ota, Latest)
      BY <1>0, <1>8, <2>9, <3>1, SameType DEF FogVerifies, vars, call
    <3>2. CASE ~Whole(ota, Latest)
      BY <1>0, <2>7, <2>9, <3>2 DEF FogVerifies
    <3> QED BY <3>1, <3>2
  <2>10. ASSUME NEW u \in AllUpdaters, AskForReset(u) PROVE TypeInv'
    BY <1>0, <1>8, <2>10, SameType DEF AskForReset, vars, call
  <2>11. CASE FogRecorded
    BY <1>0, <1>8, <2>11, SameType DEF FogRecorded, vars, call
  <2>12. ASSUME NEW u \in AllUpdaters, NEW r \in Ram, r.sys \in SysConfig, NEW step \in {"recording", "requesting"},
                UpdateBy(u, r, step), mutex' \in {"free", "http", "fog"}
         PROVE  TypeInv'
    <3>1. TypeOK'
      BY <1>0, <2>12, UpdateByType
    <3> QED BY <1>8, <2>12, <3>1 DEF UpdateBy, Started
  <2>13. ASSUME Started
         PROVE  /\ \A i \in Image : [ram EXCEPT !.boot = i] \in Ram /\ [ram EXCEPT !.boot = i].sys \in SysConfig
                /\ [ram EXCEPT !.user = Latest] \in Ram /\ [ram EXCEPT !.user = Latest].sys \in SysConfig
    BY <1>0, <2>13, OtaBootAssumption DEF Started, TypeOK, Ram, BootBytes, UserBytes
  <2>14. CASE FogRecordsVersion
    BY <2>12, <2>13, <2>14 DEF FogRecordsVersion, UpdateBy
  <2>15. CASE HttpRequestsUpdate
    <3>1. got["http"].image \in Image
      BY <1>0
    <3>2. ram \in Ram /\ ram.sys \in SysConfig /\ "http" \in AllUpdaters
      BY <1>0, <2>15 DEF HttpRequestsUpdate, UpdateBy, Started, TypeOK, Ram, AllUpdaters
    <3>3. PICK s \in Settings :
             UpdateBy("http", [ram EXCEPT !.boot = got["http"].image, !.sys.settings = s], "requesting")
      BY <2>15 DEF HttpRequestsUpdate
    <3> DEFINE r == [ram EXCEPT !.boot = got["http"].image, !.sys.settings = s]
    <3>4. r \in Ram /\ r.sys \in SysConfig
      BY <3>1, <3>2, RequestType
    <3>5. UpdateBy("http", r, "requesting") /\ mutex' \in {"free", "http", "fog"}
      BY <1>0, <2>15, <3>3 DEF HttpRequestsUpdate
    <3> HIDE DEF r
    <3> QED BY <2>12, <3>2, <3>4, <3>5
  <2>16. CASE FogRequestsUpdate
    BY <1>0, <2>12, <2>13, <2>16 DEF FogRequestsUpdate, UpdateBy
  <2> QED BY <1>0, <1>9, <2>2, <2>3, <2>5, <2>6, <2>8, <2>9, <2>10, <2>11, <2>14, <2>15, <2>16,
            <2>17, <2>18 DEF Updating
<1>10. CASE UNCHANGED allVars
  BY <1>0, <1>1, <1>10, SameType DEF allVars, otaVars, vars, call
<1> QED BY <1>2, <1>3, <1>4, <1>5, <1>7, <1>9, <1>10 DEF OtaNext

\* Every reachable state of updaters, bootloader and storage together is well typed.
THEOREM OtaTypeCorrect == OtaSpec => []OtaTypeOK
<1>1. TypeInv => OtaTypeOK
  BY DEF TypeInv
<1> QED BY <1>1, OtaInitType, OtaTypeStep, PTL DEF OtaSpec
-----------------------------------------------------------------------------
(* The image that runs *)

Asked    == flash["main"].boot \in Image
OtaWhole == \E i \in Image : Whole(ota, i)
AppWhole == \E i \in Image : Whole(app, i)

AllIdle == \A u \in AllUpdaters : updater[u] = "idle"
Asks    == \E u \in AllUpdaters : updater[u] \in {"requesting", "resetting"}

\* One updater works at a time, and what it has received is in the OTA partition.
OneWorks ==
    /\ \A u \in AllUpdaters : updater[u] # "idle" => u \in Updaters
    /\ \A u, v \in AllUpdaters : updater[u] # "idle" /\ updater[v] # "idle" => u = v

HasReceived ==
    \A u \in AllUpdaters :
        /\ updater[u] = "receiving" => \A k \in 1..got[u].chunks : ota[k] = got[u].image
        /\ updater[u] \notin {"idle", "receiving"} => Whole(ota, got[u].image)

\* In the running system only an updater that has the whole image asks for it.
RunInv ==
    /\ AppWhole
    /\ Asked \/ ram.boot \in Image => Asks
    /\ OneWorks /\ HasReceived

\* In the bootloader the application is in pieces only while the request stands.
BootInv ==
    /\ ram.boot \notin Image /\ AllIdle
    /\ Asked => OtaWhole
    /\ AppWhole \/ (Asked /\ stage \in {"log", "erase", "copy"})
    /\ stage \in {"erase", "copy", "page"} => Asked
    /\ stage \in {"clean", "write", "done"} => ~Asked
    /\ stage = "copy" => copied < Chunks /\ \A k \in 1..copied : app[k] = ota[k]
    /\ stage = "page" => app = ota
    /\ stage = "write" => page.boot = Erased

InstallInv == ~otaFault => IF stage = "run" THEN RunInv ELSE BootInv

LEMMA NoRequest == Erased \notin Image /\ "zero" \notin Image /\ 1 \in Chunk
BY OtaBootAssumption DEF Chunk

LEMMA TornBoot ==
    ASSUME NEW step, NEW p, NEW boot, NEW q \in Torn(step, p, boot)
    PROVE  q.boot \in {p.boot, boot, Erased}
BY DEF Torn

\* The storage writes no boot table to main but the one in RAM, or an erased one, and
\* takes none into RAM but main's or a blank one.
LEMMA StorageBoot ==
    ASSUME TypeOK, Load \/ Flashing \/ mico_system_context_update \/ mico_system_context_restore \/ PowerCut
    PROVE  /\ flash'["main"].boot \in {flash["main"].boot, ram.boot, Erased}
           /\ ram'.boot \in {ram.boot, flash["main"].boot, "zero", Erased}
           /\ PowerCut => ram'.boot = Erased
<1>0. /\ flash \in [Partitions -> Partition] /\ ram \in Ram /\ target \in Partitions /\ seedNum \in Nat
      /\ "main" \in Partitions
  BY DEF TypeOK, Ram, Partitions
<1> DEFINE Goal == /\ flash'["main"].boot \in {flash["main"].boot, ram.boot, Erased}
                   /\ ram'.boot \in {ram.boot, flash["main"].boot, "zero", Erased}
<1>6. PowerCut => ram'.boot = Erased
  BY DEF PowerCut, NoRam
<1>1. CASE Load
  <2>1. ASSUME NEW r, NEW s, NEW q \in Defaults(r, s), NEW after, BeginUpdate(q, after) PROVE ram'.boot = "zero"
    BY <2>1 DEF Defaults, BeginUpdate
  <2>2. ASSUME TakeSeed PROVE Goal
    <3>1. UNCHANGED flash /\ (ram' = ram \/ ram'.boot = "zero")
      BY <2>1, <2>2, Zenon DEF TakeSeed
    <3> QED BY <3>1
  <2>3. ASSUME LoadDefaults PROVE Goal
    <3>1. UNCHANGED flash /\ ram'.boot = "zero"
      BY <2>1, <2>3, Zenon DEF LoadDefaults
    <3> QED BY <3>1
  <2> QED BY <1>1, <1>6, <2>2, <2>3 DEF Load, LoadFromBackup, LoadRepairBackup, LoadClean, FromMain
<1>2. CASE Flashing
  <2>1. ASSUME WriteContent PROVE Goal
    <3>1. flash'[target].boot = ram.boot /\ \A p \in Partitions : p # target => flash'[p] = flash[p]
      BY <1>0, <2>1 DEF WriteContent, Partition
    <3> QED BY <1>0, <2>1, <3>1 DEF WriteContent
  <2>2. ASSUME Erase PROVE Goal
    BY <1>0, <2>2 DEF Erase, Blank
  <2>3. ASSUME WriteUser \/ WriteCrc PROVE Goal
    BY <1>0, <2>3 DEF WriteUser, WriteCrc, Partition
  <2>4. ASSUME VerifyCrc PROVE Goal
    BY <2>4 DEF VerifyCrc
  <2> QED BY <1>2, <1>6, <2>1, <2>2, <2>3, <2>4 DEF Flashing
<1>3. CASE mico_system_context_update
  <2>1. [ram EXCEPT !.sys.seed = seedNum + 1].boot = ram.boot
    BY <1>0 DEF Ram
  <2>2. ram' = [ram EXCEPT !.sys.seed = seedNum + 1] /\ UNCHANGED flash
    BY <1>3 DEF mico_system_context_update, BeginUpdate
  <2> QED BY <1>6, <2>1, <2>2
<1>4. CASE mico_system_context_restore
  <2>1. PICK r \in Defaults(ram, seedNum) : BeginUpdate(r, "ready")
    BY <1>4, Zenon DEF mico_system_context_restore
  <2>2. r.boot = "zero"
    BY <2>1 DEF Defaults
  <2>3. ram' = r /\ UNCHANGED flash
    BY <1>4, <2>1 DEF mico_system_context_restore, BeginUpdate
  <2> QED BY <1>6, <2>2, <2>3
<1>5. CASE PowerCut
  <2>1. PICK q \in Torn(pc, flash[target], ram.boot) : flash' = [flash EXCEPT ![target] = q]
    BY <1>5 DEF PowerCut
  <2>2. q.boot \in {flash[target].boot, ram.boot, Erased}
    BY <2>1, TornBoot
  <2>3. flash'["main"].boot \in {flash["main"].boot, ram.boot, Erased}
    BY <1>0, <2>1, <2>2
  <2> QED BY <1>5, <2>3 DEF PowerCut, NoRam
<1> QED BY <1>1, <1>2, <1>3, <1>4, <1>5, <1>6

\* What asks for an installation, and what it takes, in the running system.
LEMMA AskedMeansWhole ==
    ASSUME TypeInv, RunInv, Asked \/ ram.boot \in Image
    PROVE  /\ OtaWhole
           /\ \A u \in AllUpdaters : updater[u] \notin {"receiving", "received", "verified", "recording", "recorded"}
           /\ ~AllIdle
<1>1. PICK u \in AllUpdaters : updater[u] \in {"requesting", "resetting"}
  BY DEF RunInv, Asks
<1>2. Whole(ota, got[u].image)
  BY <1>1 DEF RunInv, HasReceived
<1>3. got[u].image \in Image
  BY <1>1 DEF TypeInv, OtaTypeOK, AllUpdaters
<1>4. \A v \in AllUpdaters : updater[v] # "idle" => v = u
  BY <1>1 DEF RunInv, OneWorks
<1> QED BY <1>1, <1>2, <1>3, <1>4 DEF OtaWhole, AllIdle

LEMMA InstallInit == OtaInit => InstallInv
<1> SUFFICES ASSUME OtaInit PROVE InstallInv
  OBVIOUS
<1>1. stage = "log" /\ AllIdle
  BY DEF OtaInit, AllIdle, AllUpdaters
<1>2. AppWhole
  BY DEF OtaInit, AppWhole, Whole
<1>3. ~Asked
  BY NoRequest DEF OtaInit, InSync, Asked, Partitions
<1>4. ram.boot \notin Image
  BY NoRequest DEF OtaInit, Init, NoRam
<1> QED BY <1>1, <1>2, <1>3, <1>4 DEF InstallInv, BootInv

\* The system keeps running: the storage works for somebody.
LEMMA StorageWorks ==
    ASSUME TypeInv, RunInv, UNCHANGED <<app, ota, updater, got>>,
           flash'["main"].boot \in {flash["main"].boot, ram.boot, Erased},
           ram'.boot \in {ram.boot, flash["main"].boot, "zero", Erased}
    PROVE  RunInv'
<1>1. Asked' \/ ram'.boot \in Image => Asked \/ ram.boot \in Image
  BY NoRequest DEF Asked
<1>2. OneWorks' /\ HasReceived' /\ (Asks' <=> Asks) /\ AppWhole'
  BY DEF RunInv, OneWorks, HasReceived, Asks, AppWhole, Whole
<1> QED BY <1>1, <1>2 DEF RunInv

\* The system goes down: an image that was asked for stays as it is.
LEMMA GoesDown ==
    ASSUME TypeInv, RunInv, UNCHANGED app, stage' = "log", AllIdle', ram'.boot = Erased,
           flash'["main"].boot \in {flash["main"].boot, ram.boot, Erased},
           Asked \/ ram.boot \in Image => UNCHANGED ota
    PROVE  BootInv'
<1>1. Asked' => Asked \/ ram.boot \in Image
  BY NoRequest DEF Asked
<1>2. Asked' => OtaWhole'
  BY <1>1, AskedMeansWhole DEF OtaWhole, Whole
<1>3. AppWhole' /\ ram'.boot \notin Image
  BY NoRequest DEF RunInv, AppWhole, Whole
<1> QED BY <1>2, <1>3 DEF BootInv

\* The bootloader starts the application.
LEMMA ComesUp ==
    ASSUME AppWhole', ~Asked', ram'.boot \notin Image, AllIdle' PROVE RunInv'
<1>1. Asked' \/ ram'.boot \in Image => Asks'
  OBVIOUS
<1>2. OneWorks' /\ HasReceived'
  BY DEF AllIdle, OneWorks, HasReceived
<1> QED BY <1>1, <1>2 DEF RunInv

\* An updater that has the image goes one step further.
LEMMA MovesOn ==
    ASSUME TypeInv, RunInv, NEW u \in AllUpdaters, updater[u] \notin {"idle", "receiving"},
           NEW x, x \notin {"idle", "receiving"}, updater' = [updater EXCEPT ![u] = x],
           UNCHANGED <<app, ota, got>>,
           Asked' \/ ram'.boot \in Image => x \in {"requesting", "resetting"}
    PROVE  RunInv'
<1>0. updater'[u] = x /\ \A v \in AllUpdaters : v # u => updater'[v] = updater[v]
  BY DEF TypeInv, OtaTypeOK, AllUpdaters
<1>1. Asked' \/ ram'.boot \in Image => Asks'
  BY <1>0 DEF Asks
<1>2. OneWorks'
  BY <1>0 DEF RunInv, OneWorks
<1>3. HasReceived' /\ AppWhole'
  BY <1>0 DEF RunInv, HasReceived, AppWhole, Whole
<1> QED BY <1>1, <1>2, <1>3 DEF RunInv

\* An updater gives up.
LEMMA GivesUp ==
    ASSUME TypeInv, RunInv, NEW u \in AllUpdaters, updater[u] \in {"receiving", "received"},
           updater' = [updater EXCEPT ![u] = "idle"], got' = [got EXCEPT ![u] = Nothing],
           UNCHANGED <<vars, app, ota>>
    PROVE  RunInv'
<1>0. /\ updater'[u] = "idle"
      /\ \A v \in AllUpdaters : v # u => updater'[v] = updater[v] /\ got'[v] = got[v]
  BY DEF TypeInv, OtaTypeOK, AllUpdaters
<1>1. ~(Asked' \/ ram'.boot \in Image)
  BY AskedMeansWhole DEF vars, Asked
<1>2. OneWorks'
  BY <1>0 DEF RunInv, OneWorks
<1>3. HasReceived' /\ AppWhole'
  BY <1>0 DEF RunInv, HasReceived, AppWhole, Whole
<1> QED BY <1>1, <1>2, <1>3 DEF RunInv

LEMMA Begins ==
    ASSUME TypeInv, RunInv, OneAtATime, NEW u \in AllUpdaters, NEW i, MayBegin(u), Receive(u, i)
    PROVE  RunInv'
<1>1. AllIdle /\ u \in Updaters
  BY DEF MayBegin, RunInv, OneWorks, AllIdle
<1>2. ~(Asked' \/ ram'.boot \in Image)
  BY <1>1, AskedMeansWhole DEF Receive, vars, Asked
<1>3. /\ updater'[u] = "receiving" /\ got'[u].chunks = 0
      /\ \A v \in AllUpdaters : v # u => updater'[v] = "idle"
  BY <1>1 DEF TypeInv, OtaTypeOK, AllUpdaters, Receive, AllIdle
<1>4. OneWorks'
  BY <1>1, <1>3 DEF OneWorks
<1>5. HasReceived'
  BY <1>3 DEF HasReceived
<1>6. AppWhole'
  BY DEF RunInv, Receive, AppWhole, Whole
<1> QED BY <1>2, <1>4, <1>5, <1>6 DEF RunInv

LEMMA Writes ==
    ASSUME TypeInv, RunInv, NEW u \in AllUpdaters, WriteChunk(u)
    PROVE  RunInv'
<1>0. /\ updater[u] = "receiving" /\ got[u].chunks \in 0..Chunks /\ got[u].chunks < Chunks
      /\ Chunks \in Nat \ {0} /\ ota \in Area
  BY OtaBootAssumption DEF WriteChunk, Advance, TypeInv, OtaTypeOK, AllUpdaters
<1>1. ~(Asked' \/ ram'.boot \in Image)
  BY <1>0, AskedMeansWhole DEF WriteChunk, Advance, vars, Asked
<1>2. \A v \in AllUpdaters : v # u => updater[v] = "idle" /\ updater'[v] = "idle"
  BY <1>0 DEF RunInv, OneWorks, TypeInv, OtaTypeOK, AllUpdaters, WriteChunk, Advance
<1>3. /\ updater'[u] = IF got[u].chunks + 1 = Chunks THEN "received" ELSE "receiving"
      /\ got'[u].chunks = got[u].chunks + 1 /\ got'[u].image = got[u].image
  BY <1>0 DEF TypeInv, OtaTypeOK, AllUpdaters, WriteChunk, Advance, NextChunk
<1>4. OneWorks'
  BY <1>0, <1>2, <1>3 DEF RunInv, OneWorks
<1>5. \A k \in 1..got'[u].chunks : ota'[k] = got[u].image
  BY <1>0, <1>3 DEF WriteChunk, NextChunk, RunInv, HasReceived, Area, Chunk
<1>6. got[u].chunks + 1 = Chunks => \A k \in Chunk : ota'[k] = got[u].image
  BY <1>3, <1>5 DEF Chunk
<1>7. HasReceived'
  BY <1>2, <1>3, <1>5, <1>6 DEF HasReceived, Whole
<1>8. AppWhole'
  BY DEF RunInv, WriteChunk, Advance, AppWhole, Whole
<1> QED BY <1>1, <1>4, <1>7, <1>8 DEF RunInv

LEMMA RunningStep ==
    ASSUME OneAtATime, TypeInv, RunInv, stage = "run", ~otaFault',
           Starting \/ Writing \/ Calling \/ Updating \/ SoftwareReset \/ RunningCut
    PROVE  IF stage' = "run" THEN RunInv' ELSE BootInv'
<1>0. TypeOK /\ Updaters \subseteq AllUpdaters
  BY OtaBootAssumption DEF TypeInv, AllUpdaters
<1>1. CASE Starting \/ Writing \/ Calling
  <2>1. UNCHANGED otaVars /\ (Load \/ Flashing \/ mico_system_context_update \/ mico_system_context_restore)
    BY <1>1 DEF Starting, Writing, Calling
  <2> QED BY <1>0, <2>1, StorageBoot, StorageWorks DEF otaVars
<1>2. CASE SoftwareReset \/ RunningCut
  <2>1. PowerCut /\ stage' = "log" /\ UNCHANGED app /\ AllIdle'
    BY <1>2 DEF SoftwareReset, RunningCut, NoUpdater, AllIdle, AllUpdaters
  <2>2. Asked \/ ram.boot \in Image => UNCHANGED ota
    BY <1>0, <1>2, AskedMeansWhole DEF SoftwareReset, RunningCut
  <2> QED BY <1>0, <2>1, <2>2, StorageBoot, GoesDown
<1>3. CASE Updating
  <2>0. stage' = "run"
    BY <1>3 DEF Updating, HttpOtaBegins, FogOtaBegins, Receive, WriteChunk, OtaAborted, AskForReset, HttpEraseFails, HttpChunkFails, HttpChunkStrays,
                Advance, FogVerifies, FogRecordsVersion, FogRecorded, HttpRequestsUpdate, FogRequestsUpdate, UpdateBy
  <2>1. ASSUME NEW i \in Image, HttpOtaBegins(i) PROVE RunInv'
    BY <2>1, Begins DEF HttpOtaBegins, AllUpdaters
  <2>2. CASE FogOtaBegins
    BY <2>0, <2>2, Begins DEF FogOtaBegins, AllUpdaters
  <2>3. ASSUME NEW u \in Updaters, WriteChunk(u) PROVE RunInv'
    BY <1>0, <2>3, Writes
  <2>4. ASSUME NEW u \in Updaters, OtaAborted(u) PROVE RunInv'
    BY <1>0, <2>4, GivesUp DEF OtaAborted
  <2>5. ASSUME NEW u \in Updaters, AskForReset(u) PROVE RunInv'
    BY <1>0, <2>5, MovesOn DEF AskForReset
  <2>6. CASE HttpChunkFails \/ HttpChunkStrays \/ \E i \in Image : HttpEraseFails(i)
    <3>1. otaFault'
      BY <2>6 DEF HttpChunkFails, HttpChunkStrays, HttpEraseFails
    <3> QED BY <3>1
  <2>7. CASE FogVerifies
    <3>1. CASE Whole(ota, Latest)
      <4>1. ~(Asked' \/ ram'.boot \in Image)
        BY <2>7, AskedMeansWhole DEF FogVerifies, vars, Asked, AllUpdaters
      <4> QED BY <2>0, <2>7, <3>1, <4>1, MovesOn DEF FogVerifies, AllUpdaters
    <3>2. CASE ~Whole(ota, Latest)
      BY <2>0, <2>7, <3>2, GivesUp DEF FogVerifies, AllUpdaters
    <3> QED BY <3>1, <3>2
  <2>8. ASSUME NEW u \in AllUpdaters, NEW r, ram.sys \in SysConfig => r \in Ram /\ r.sys \in SysConfig,
               updater[u] \notin {"idle", "receiving"},
               NEW x \in {"recording", "requesting"}, UpdateBy(u, r, x),
               Asked \/ r.boot \in Image => x = "requesting"
        PROVE  RunInv'
    <3>1. r \in Ram /\ r.sys \in SysConfig
      BY <1>0, <2>8 DEF UpdateBy, Started, TypeOK
    <3>2. ram'.boot = r.boot /\ UNCHANGED flash
      BY <1>0, <2>8, <3>1, UpdateByType DEF UpdateBy
    <3> QED BY <2>8, <3>2, MovesOn DEF UpdateBy, Asked
  <2>9. \A i \in Image : ram.sys \in SysConfig =>
            /\ [ram EXCEPT !.boot = i] \in Ram /\ [ram EXCEPT !.boot = i].sys \in SysConfig
            /\ [ram EXCEPT !.user = Latest] \in Ram /\ [ram EXCEPT !.user = Latest].sys \in SysConfig
            /\ [ram EXCEPT !.user = Latest].boot = ram.boot
    BY <1>0, OtaBootAssumption DEF TypeOK, Ram, BootBytes, UserBytes
  <2>10. CASE FogRecordsVersion
    <3>1. ~(Asked \/ ram.boot \in Image)
      BY <2>10, AskedMeansWhole DEF FogRecordsVersion, AllUpdaters
    <3>2. ram.sys \in SysConfig /\ Latest \in Image
      BY <1>0, <2>10, OtaBootAssumption DEF FogRecordsVersion, UpdateBy, Started, TypeOK
    <3> DEFINE r == [ram EXCEPT !.user = Latest]
    <3>3. r \in Ram /\ r.sys \in SysConfig /\ r.boot = ram.boot
      BY <2>9, <3>2
    <3>4. UpdateBy("fog", r, "recording") /\ updater["fog"] \notin {"idle", "receiving"}
      BY <2>10 DEF FogRecordsVersion
    <3> HIDE DEF r
    <3>5. Asked \/ r.boot \in Image => "recording" = "requesting"
      BY <3>1, <3>3
    <3>6. "fog" \in AllUpdaters
      BY DEF AllUpdaters
    <3>7. RunInv'
      BY <2>8, <3>3, <3>4, <3>5, <3>6, Zenon
    <3> QED BY <2>0, <3>7
  <2>11. CASE FogRecorded
    <3>1. ~(Asked' \/ ram'.boot \in Image)
      BY <2>11, AskedMeansWhole DEF FogRecorded, vars, Asked, AllUpdaters
    <3>2. /\ updater["fog"] = "recording" /\ updater' = [updater EXCEPT !["fog"] = "recorded"]
          /\ UNCHANGED <<app, ota, got>> /\ "fog" \in AllUpdaters
      BY <2>11 DEF FogRecorded, AllUpdaters
    <3>3. updater["fog"] \notin {"idle", "receiving"} /\ "recorded" \notin {"idle", "receiving"}
      BY <3>2
    <3>4. RunInv'
      BY <3>1, <3>2, <3>3, MovesOn
    <3> QED BY <2>0, <3>4
  <2>12. CASE HttpRequestsUpdate
    <3>1. got["http"].image \in Image
      BY DEF TypeInv, OtaTypeOK
    <3>2. ram \in Ram /\ ram.sys \in SysConfig /\ "http" \in AllUpdaters
      BY <1>0, <2>12 DEF HttpRequestsUpdate, UpdateBy, Started, TypeOK, Ram, AllUpdaters
    <3>3. PICK s \in Settings :
             UpdateBy("http", [ram EXCEPT !.boot = got["http"].image, !.sys.settings = s], "requesting")
      BY <2>12 DEF HttpRequestsUpdate
    <3> DEFINE r == [ram EXCEPT !.boot = got["http"].image, !.sys.settings = s]
    <3>4. r \in Ram /\ r.sys \in SysConfig
      BY <3>1, <3>2, RequestType
    <3>5. UpdateBy("http", r, "requesting") /\ updater["http"] \notin {"idle", "receiving"}
      BY <2>12, <3>3 DEF HttpRequestsUpdate
    <3> HIDE DEF r
    <3>6. RunInv'
      BY <2>8, <3>2, <3>4, <3>5
    <3> QED BY <2>0, <3>6
  <2>13. CASE FogRequestsUpdate
    BY <2>0, <2>8, <2>9, <2>13, OtaBootAssumption DEF FogRequestsUpdate, AllUpdaters
  <2> QED BY <1>3, <2>0, <2>1, <2>2, <2>3, <2>4, <2>5, <2>6, <2>7, <2>10, <2>11, <2>12, <2>13 DEF Updating
<1> QED BY <1>1, <1>2, <1>3

LEMMA Asking == LogNeedsUpdate(flash["main"].boot) <=> Asked
BY DEF LogNeedsUpdate, checkcrc, Asked

\* The bootloader, and power that goes while it works: whatever it leaves, the image
\* that will run is the same.
LEMMA BootStep ==
    ASSUME TypeInv, BootInv, stage # "run", Bootloader \/ BootloaderCut
    PROVE  /\ IF stage' = "run" THEN RunInv' ELSE BootInv'
           /\ WillRun' = WillRun
<1>0. /\ app \in Area /\ ota \in Area /\ copied \in 0..Chunks /\ Chunks \in Nat \ {0}
      /\ stage \in {"log", "clean", "erase", "copy", "page", "write", "done"}
      /\ flash \in [Partitions -> Partition] /\ "main" \in Partitions
  BY OtaBootAssumption DEF TypeInv, OtaTypeOK, TypeOK, Partitions
<1>1. Bootloader \/ BootloaderCut => UNCHANGED ram /\ UNCHANGED updater
  BY DEF Bootloader, BootloaderCut, updateLogCheck, EraseApplication, CopyChunk, ErasePage, WritePage, EraseOta, vars
<1>2. ram'.boot \notin Image /\ AllIdle'
  BY <1>1 DEF BootInv, AllIdle
<1>3. ASSUME AppWhole, UNCHANGED app, ~Asked, ~Asked'
      PROVE  WillRun' = WillRun
  BY <1>3 DEF WillRun, Asked, Installed
<1>4. ASSUME Asked, Asked', UNCHANGED ota
      PROVE  WillRun' = WillRun
  BY <1>4 DEF WillRun, Asked
<1>5. ASSUME UNCHANGED app, ~Asked, ~Asked', AppWhole
      PROVE  /\ stage' \in {"log", "run", "done"} => IF stage' = "run" THEN RunInv' ELSE BootInv'
             /\ WillRun' = WillRun
  <2>1. AppWhole'
    BY <1>5 DEF AppWhole, Whole
  <2> QED BY <1>2, <1>3, <1>5, <2>1, ComesUp DEF BootInv
<1>6. CASE updateLogCheck
  <2>1. CASE Asked
    BY <1>2, <1>4, <1>6, <2>1, Asking DEF updateLogCheck, BootInv, Asked, OtaWhole, AppWhole, Whole, vars
  <2>2. CASE ~Asked
    <3>1. ~Asked' /\ AppWhole /\ UNCHANGED app /\ stage' \in {"run", "clean"}
      BY <1>6, <2>2, Asking DEF updateLogCheck, BootInv, Asked, vars
    <3>2. AppWhole'
      BY <3>1 DEF AppWhole, Whole
    <3> QED BY <1>2, <1>3, <2>2, <3>1, <3>2, ComesUp DEF BootInv
  <2> QED BY <2>1, <2>2
<1>7. CASE EraseApplication
  <2>1. Asked /\ Asked' /\ UNCHANGED ota /\ OtaWhole' /\ stage' = "copy" /\ copied' = 0
    BY <1>7 DEF EraseApplication, BootInv, Asked, OtaWhole, Whole, vars
  <2>2. copied' < Chunks /\ \A k \in 1..copied' : app'[k] = ota'[k]
    BY <1>0, <2>1
  <2> QED BY <1>2, <1>4, <2>1, <2>2 DEF BootInv
<1>8. CASE CopyChunk
  <2>1. /\ Asked /\ Asked' /\ UNCHANGED ota /\ OtaWhole'
        /\ app' = [app EXCEPT ![copied + 1] = ota[copied + 1]]
        /\ copied < Chunks /\ \A k \in 1..copied : app[k] = ota[k]
    BY <1>8 DEF CopyChunk, BootInv, Asked, OtaWhole, Whole, vars
  <2>2. \A k \in 1..(copied + 1) : app'[k] = ota[k]
    BY <1>0, <2>1 DEF Area, Chunk
  <2>3. CASE copied + 1 < Chunks
    BY <1>0, <1>2, <1>4, <1>8, <2>1, <2>2, <2>3 DEF CopyChunk, BootInv
  <2>4. CASE copied + 1 = Chunks
    <3>1. app' = ota
      BY <1>0, <2>1, <2>2, <2>4 DEF Area, Chunk
    <3>2. AppWhole'
      BY <2>1, <3>1 DEF AppWhole, OtaWhole, Whole
    <3> QED BY <1>0, <1>2, <1>4, <1>8, <2>1, <2>4, <3>1, <3>2 DEF CopyChunk, BootInv
  <2> QED BY <1>0, <2>1, <2>3, <2>4
<1>9. ASSUME stage = "page", AppWhole, app = ota, Asked, UNCHANGED <<app, ota>> PROVE WillRun' = WillRun
  BY <1>9 DEF WillRun, Installed, Asked, AppWhole, Whole
<1>10. CASE ErasePage
  <2>1. ~Asked' /\ page'.boot = Erased /\ UNCHANGED <<app, ota>> /\ stage' = "write"
    BY <1>0, <1>10, NoRequest DEF ErasePage, Asked, Blank, Partition
  <2>2. AppWhole /\ app = ota /\ Asked
    BY <1>10 DEF ErasePage, BootInv
  <2>3. AppWhole'
    BY <2>1, <2>2 DEF AppWhole, Whole
  <2> QED BY <1>2, <1>9, <1>10, <2>1, <2>2, <2>3 DEF ErasePage, BootInv
<1>11. CASE WritePage
  <2>1. ~Asked' /\ UNCHANGED app /\ stage' = "done" /\ AppWhole /\ ~Asked
    BY <1>0, <1>11, NoRequest DEF WritePage, Asked, BootInv
  <2> QED BY <1>5, <2>1
<1>12. CASE EraseOta
  <2>1. ~Asked' /\ UNCHANGED app /\ stage' = "run" /\ AppWhole /\ ~Asked
    BY <1>12 DEF EraseOta, Asked, BootInv, vars
  <2> QED BY <1>5, <2>1
<1>13. CASE BootloaderCut
  <2>1. stage' = "log" /\ TornInstall
    BY <1>13 DEF BootloaderCut
  <2>2. CASE stage \in {"clean", "done", "write"}
    <3>1. ~Asked /\ AppWhole /\ UNCHANGED app
      BY <2>1, <2>2 DEF BootInv, TornInstall
    <3>2. ~Asked'
      <4>1. CASE UNCHANGED flash
        BY <3>1, <4>1 DEF Asked
      <4>2. CASE stage = "write"
        BY <1>0, <2>1, <4>2, NoRequest DEF TornInstall, HalfPage, BootInv, Asked
      <4> QED BY <2>1, <2>2, <4>1, <4>2 DEF TornInstall
    <3> QED BY <1>5, <2>1, <3>1, <3>2
  <2>3. CASE stage \in {"erase", "copy"}
    <3>1. Asked /\ Asked' /\ UNCHANGED ota /\ OtaWhole'
      BY <2>1, <2>3 DEF BootInv, TornInstall, Asked, OtaWhole, Whole
    <3> QED BY <1>2, <1>4, <2>1, <3>1 DEF BootInv
  <2>4. CASE stage = "page"
    <3>1. AppWhole /\ app = ota /\ Asked /\ UNCHANGED <<app, ota>>
      BY <2>1, <2>4 DEF BootInv, TornInstall
    <3>2. AppWhole' /\ OtaWhole'
      BY <3>1 DEF AppWhole, OtaWhole, Whole
    <3> QED BY <1>2, <1>9, <2>1, <2>4, <3>1, <3>2 DEF BootInv
  <2>5. CASE stage = "log"
    BY <2>1, <2>5 DEF TornInstall
  <2> QED BY <1>0, <2>2, <2>3, <2>4, <2>5
<1> QED BY <1>6, <1>7, <1>8, <1>10, <1>11, <1>12, <1>13 DEF Bootloader

LEMMA InstallStep ==
    ASSUME OneAtATime, TypeInv, InstallInv, [OtaNext]_allVars
    PROVE  InstallInv' /\ (~otaFault' /\ stage # "run" => WillRun' = WillRun)
<1>1. CASE UNCHANGED allVars
  BY <1>1 DEF allVars, otaVars, vars, InstallInv, RunInv, BootInv, Asked, AppWhole, OtaWhole, AllIdle, Asks,
              OneWorks, HasReceived, Whole, WillRun, Installed
<1>2. CASE OtaNext
  <2>1. SUFFICES ASSUME ~otaFault'
                 PROVE  /\ IF stage' = "run" THEN RunInv' ELSE BootInv'
                        /\ stage # "run" => WillRun' = WillRun
    BY DEF InstallInv
  <2>2. ~InstallFails
    BY <2>1 DEF InstallFails
  <2>3. ~otaFault
    BY <1>2, <2>1, <2>2 DEF OtaNext, Bootloader, updateLogCheck, EraseApplication, CopyChunk, ErasePage, WritePage, EraseOta,
         BootloaderCut, Starting, Writing, Calling, otaVars, Updating, HttpOtaBegins, FogOtaBegins, Receive, WriteChunk,
         OtaAborted, AskForReset, HttpEraseFails, HttpChunkFails, HttpChunkStrays, FogVerifies, FogRecordsVersion, FogRecorded, HttpRequestsUpdate,
         FogRequestsUpdate, UpdateBy, SoftwareReset, RunningCut
  <2>4. CASE stage = "run"
    <3>1. ~(Bootloader \/ BootloaderCut)
      BY <2>4 DEF Bootloader, BootloaderCut, TornInstall, updateLogCheck, EraseApplication, CopyChunk, ErasePage, WritePage, EraseOta
    <3>2. RunInv
      BY <2>3, <2>4 DEF InstallInv
    <3> QED BY <1>2, <2>1, <2>2, <2>4, <3>1, <3>2, RunningStep DEF OtaNext
  <2>5. CASE stage # "run"
    <3>1. BootInv /\ pc = "off"
      BY <2>3, <2>5 DEF InstallInv, TypeInv, OtaTypeOK
    <3>2. ~(Starting \/ Writing \/ Calling \/ SoftwareReset \/ RunningCut)
      BY <2>5, <3>1 DEF Starting, Writing, Calling, SoftwareReset, RunningCut, PowerCut
    <3>3. ~Updating
      BY <2>5, <3>1, OtaBootAssumption DEF Updating, HttpOtaBegins, FogOtaBegins, MayBegin, Started, WriteChunk, OtaAborted, AskForReset,
         HttpEraseFails, HttpChunkFails, HttpChunkStrays, Advance, FogVerifies, FogRecordsVersion, FogRecorded, HttpRequestsUpdate, FogRequestsUpdate,
         BootInv, AllIdle, AllUpdaters
    <3> QED BY <1>2, <2>2, <2>5, <3>1, <3>2, <3>3, BootStep DEF OtaNext
  <2> QED BY <2>4, <2>5
<1> QED BY <1>1, <1>2

\* Whatever image is asked for or installed, it is whole.
LEMMA WholeRuns == TypeInv /\ InstallInv /\ ~otaFault => WillRun \in Image
<1> SUFFICES ASSUME TypeInv, InstallInv, ~otaFault PROVE WillRun \in Image
  OBVIOUS
<1>1. Chunks \in Nat \ {0}
  BY OtaBootAssumption
<1>2. \A area, i : Whole(area, i) => area[1] = i
  BY NoRequest DEF Whole
<1>3. Asked => OtaWhole
  BY AskedMeansWhole DEF InstallInv, BootInv
<1>4. ~Asked => AppWhole
  BY DEF InstallInv, BootInv, RunInv
<1> QED BY <1>2, <1>3, <1>4 DEF WillRun, Installed, Asked, OtaWhole, AppWhole

\* AtomicInstall (update() of Update_for_OTA.c and main() of BootloaderEntrance.c, with the
\* updaters that ask for it): with one updater at work at a time, for images of any size, any number of power cuts
\* and any calls of the storage in between: there is always a whole image to run, and
\* nothing the bootloader does or leaves undone changes which (a failed write to an
\* image apart).
THEOREM InstallIsAtomic == ASSUME OneAtATime PROVE OtaSpec => AtomicInstall
<1>1. OtaInit => TypeInv /\ InstallInv
  BY OtaInitType, InstallInit
<1>2. TypeInv /\ InstallInv /\ [OtaNext]_allVars => (TypeInv /\ InstallInv)'
  BY OtaTypeStep, InstallStep
<1>3. TypeInv /\ TypeInv' /\ InstallInv /\ InstallInv' /\ [OtaNext]_allVars =>
          [~otaFault' => WillRun' \in Image /\ (stage # "run" => WillRun' = WillRun)]_allVars
  <2> SUFFICES ASSUME TypeInv, TypeInv', InstallInv, InstallInv', [OtaNext]_allVars, ~otaFault'
               PROVE  WillRun' \in Image /\ (stage # "run" => WillRun' = WillRun)
    OBVIOUS
  <2>1. stage # "run" => WillRun' = WillRun
    BY InstallStep
  <2>2. (WillRun \in Image)'
    BY WholeRuns, PTL
  <2> QED BY <2>1, <2>2
<1> QED BY <1>1, <1>2, <1>3, PTL DEF OtaSpec, AtomicInstall
-----------------------------------------------------------------------------
(* The configuration *)

\* While the bootloader has main in RAM only: what it will write back.
PageInv ==
    /\ Intact(page) \/ Intact(backup)
    /\ page.crc # {} => Intact(page) \/ (Intact(backup) /\ page.crc = backup.crc)

\* Power that has not gone yet has spared the backup.
Spared ==
    /\ Intact(backup) /\ MainRedundant
    /\ stage = "write" /\ page.crc # {} => page.crc = backup.crc

KeepInv ==
    cuts <= 1 /\ ~otaFault /\ faults = {} =>
        /\ IInv
        /\ IF stage = "write" THEN PageInv ELSE Stored # Erased
        /\ cuts = 0 /\ stage # "run" => Spared

\* Nothing but pieces of main and a backup that holds: the next start finds a configuration.
LEMMA OffInv == ASSUME TypeOK', pc' = "off", MainOrBackup' PROVE IInv'
BY DEF IInv, RestInv, Written, Verifying, FlashSteps

LEMMA BackupStored ==
    /\ TypeOK /\ (Intact(main) \/ Intact(backup)) => Stored # Erased
    /\ TypeOK' /\ (Intact(main') \/ Intact(backup')) => Stored' # Erased
<1>1. TypeOK => main \in Partition /\ backup \in Partition
  BY DEF TypeOK, main, backup, Partitions
<1>2. TypeOK' => main' \in Partition /\ backup' \in Partition
  BY DEF TypeOK, main, backup, Partitions
<1> QED BY <1>1, <1>2, IntactNotGarbage, ErasedIsNoConfig, StoredDef

\* The storage at work loses nothing.
LEMMA StorageKeeps ==
    ASSUME IInv, [Next]_vars, faults = {}, faults' = {}, Stored # Erased
    PROVE  IInv' /\ Stored' # Erased
<1>1. Stored' = Stored \/ (WriteCrc /\ Stored' = ram.sys)
  BY StoredStep
<1>2. WriteCrc => ram.sys \in SysConfig
  BY DEF WriteCrc, IInv, TypeOK
<1> QED BY <1>1, <1>2, InvStep, ErasedIsNoConfig

LEMMA UpdateByKeeps ==
    ASSUME IInv, TypeOK', NEW u, NEW r, NEW step, UpdateBy(u, r, step), faults = {}, Stored # Erased
    PROVE  IInv' /\ Stored' # Erased
<1>1. BeginUpdate([r EXCEPT !.sys.seed = seedNum + 1], "ready") /\ UNCHANGED <<flash, faults>> /\ pc = "ready"
  BY DEF UpdateBy, Started
<1>2. MainRedundant
  BY <1>1 DEF IInv, RestInv
<1>3. IInv'
  BY <1>1, <1>2, BeginUpdateInv, Zenon
<1>4. Stored' = Stored
  BY <1>1 DEF Stored
<1> QED BY <1>3, <1>4

\* Power that goes between two calls spares the backup.
LEMMA ResetSpares ==
    ASSUME IInv, PowerCut, pc = "ready", faults = {}, Stored # Erased, stage' = "log"
    PROVE  Spared'
<1>1. PICK q \in Torn(pc, flash[target], ram.boot) : flash' = [flash EXCEPT ![target] = q]
  BY DEF PowerCut
<1>2. flash' = flash
  BY <1>1, TornKeeps DEF FlashSteps
<1>3. MainRedundant
  BY DEF IInv, RestInv
<1>4. Intact(backup)
  BY <1>3, StoredDef, NoCrcNotIntact DEF MainRedundant
<1>5. main' = main /\ backup' = backup
  BY <1>2 DEF main, backup
<1> QED BY <1>3, <1>4, <1>5 DEF Spared, MainRedundant

\* The history of failures only grows.
LEMMA HistoryGrows ==
    ASSUME TypeInv, [OtaNext]_allVars
    PROVE  cuts <= cuts' /\ cuts \in Nat /\ (otaFault => otaFault') /\ UNCHANGED faults
<1>1. cuts \in Nat
  BY OtaBootAssumption DEF TypeInv, OtaTypeOK
<1>2. CASE Bootloader \/ BootloaderCut \/ InstallFails \/ UNCHANGED allVars
  BY <1>1, <1>2 DEF Bootloader, updateLogCheck, EraseApplication, CopyChunk, ErasePage, WritePage, EraseOta,
        BootloaderCut, InstallFails, allVars, otaVars, vars
<1>3. CASE Starting \/ Writing \/ Calling
  <2>1. UNCHANGED otaVars /\ UNCHANGED faults
    BY <1>3 DEF Starting, Writing, Calling, Load, LoadDefaults, LoadFromBackup, LoadRepairBackup, LoadClean, TakeSeed,
          Flashing, Erase, WriteContent, WriteUser, WriteCrc, VerifyCrc, mico_system_context_update,
          mico_system_context_restore
  <2> QED BY <1>1, <2>1 DEF otaVars
<1>4. CASE Updating
  <2>1. CASE HttpChunkFails \/ HttpChunkStrays \/ \E i \in Image : HttpEraseFails(i)
    BY <1>1, <2>1 DEF HttpEraseFails, HttpChunkFails, HttpChunkStrays, Advance, vars
  <2>2. CASE FogRecordsVersion \/ HttpRequestsUpdate \/ FogRequestsUpdate
    <3>1. \A u, r, step : UpdateBy(u, r, step) => cuts' = cuts /\ UNCHANGED <<faults, otaFault>>
      BY DEF UpdateBy
    <3>2. cuts' = cuts /\ UNCHANGED <<faults, otaFault>>
      BY <2>2, <3>1 DEF FogRecordsVersion, HttpRequestsUpdate, FogRequestsUpdate
    <3> QED BY <1>1, <3>2
  <2>3. CASE ~(HttpChunkFails \/ HttpChunkStrays \/ \E i \in Image : HttpEraseFails(i))
             /\ ~(FogRecordsVersion \/ HttpRequestsUpdate \/ FogRequestsUpdate)
    BY <1>1, <1>4, <2>3 DEF Updating, HttpOtaBegins, FogOtaBegins, Receive, WriteChunk, OtaAborted, AskForReset,
          Advance, FogVerifies, FogRecorded, vars
  <2> QED BY <2>1, <2>2, <2>3
<1>5. CASE SoftwareReset \/ RunningCut
  BY <1>1, <1>5 DEF SoftwareReset, RunningCut, PowerCut
<1> QED BY <1>2, <1>3, <1>4, <1>5 DEF OtaNext

LEMMA KeepInit == OtaInit => KeepInv
<1> SUFFICES ASSUME OtaInit PROVE KeepInv
  OBVIOUS
<1>1. Init /\ stage = "log" /\ flash # [p \in Partitions |-> Blank]
  <2>1. PICK i : flash = InSync([seed |-> 0, settings |-> DefaultSettings], i)
    BY DEF OtaInit
  <2>2. flash["main"].sys = [seed |-> 0, settings |-> DefaultSettings] /\ Blank.sys = Erased
    BY <2>1 DEF InSync, Partitions, Blank
  <2>3. [seed |-> 0, settings |-> DefaultSettings] \in SysConfig
    BY ParaFlashAssumption DEF SysConfig
  <2> QED BY <2>2, <2>3, ErasedIsNoConfig DEF OtaInit, Partitions
<1>2. IInv
  BY <1>1, InitInv
<1>3. Intact(main) /\ Intact(backup) /\ main = backup
  <2>1. PICK sys, u : Crc(sys, u) # {} /\ flash = InSync(sys, u)
    BY <1>1 DEF Init
  <2>2. main = [boot |-> Erased, sys |-> sys, user |-> u, crc |-> Crc(sys, u)] /\ backup = main
    BY <2>1 DEF main, backup, InSync, Partitions
  <2> QED BY <2>1, <2>2, CrcIntact
<1>4. Stored # Erased
  BY <1>2, <1>3, BackupStored DEF IInv
<1> QED BY <1>1, <1>2, <1>3, <1>4 DEF KeepInv, Spared, MainRedundant

\* What KeepInv promises.
Kept ==
    /\ IInv
    /\ IF stage = "write" THEN PageInv ELSE Stored # Erased
    /\ cuts = 0 /\ stage # "run" => Spared

\* A step that leaves the storage alone.
LEMMA KeptFrame ==
    ASSUME Kept, UNCHANGED <<flash, ram, seedNum, pc, call, faults, page>>,
           stage' = "write" <=> stage = "write",
           cuts' = 0 => cuts = 0 /\ (stage' # "run" => stage # "run")
    PROVE  Kept'
<1>1. IInv'
  BY InvStep DEF Kept, vars, call
<1>2. main' = main /\ backup' = backup /\ Stored' = Stored
  BY DEF main, backup, Stored
<1>3. PageInv => PageInv'
  BY <1>2 DEF PageInv
<1>4. Spared => Spared'
  BY <1>2 DEF Spared, MainRedundant
<1> QED BY <1>1, <1>2, <1>3, <1>4 DEF Kept

\* The bootloader takes main away and puts it back.
LEMMA PageKept == ASSUME TypeInv, TypeInv', Kept, faults = {}, Bootloader, UNCHANGED cuts PROVE Kept'
<1>0. /\ flash \in [Partitions -> Partition] /\ {"main", "backup"} = Partitions
      /\ stage # "run" => pc = "off"
      /\ TypeOK /\ TypeOK'
  BY DEF TypeInv, OtaTypeOK, TypeOK, Partitions
<1>1. CASE ErasePage
  <2>1. /\ stage = "page" /\ stage' = "write" /\ pc' = "off"
        /\ main' = Blank /\ backup' = backup /\ page' = [main EXCEPT !.boot = Erased]
    BY <1>0, <1>1 DEF ErasePage, main, backup
  <2>2. page'.sys = main.sys /\ page'.user = main.user /\ page'.crc = main.crc
    BY <1>0, <2>1 DEF Partition, main
  <2>3. (Intact(page') <=> Intact(main)) /\ Blank.crc = {}
    BY <2>2 DEF Intact, Blank
  <2>4. MainOrBackup' /\ MainRedundant'
    BY <2>1, <2>3 DEF MainOrBackup, MainRedundant
  <2>5. IInv'
    BY <1>0, <2>1, <2>4, OffInv
  <2>6. PageInv'
    <3>1. MainOrBackup /\ Stored # Erased /\ (Intact(main) \/ Intact(backup))
      <4>1. IInv /\ Stored # Erased /\ pc = "off" /\ faults = {}
        BY <1>0, <2>1 DEF Kept
      <4> QED BY <4>1, StoredDef DEF IInv, RestInv
    <3> QED BY <2>1, <2>2, <2>3, <3>1 DEF PageInv, MainOrBackup
  <2>7. cuts = 0 => Spared'
    <3>1. ASSUME cuts = 0 PROVE Intact(backup) /\ MainRedundant
      BY <2>1, <3>1 DEF Kept, Spared
    <3> QED BY <2>1, <2>2, <2>4, <3>1 DEF Spared, MainRedundant
  <2> QED BY <2>1, <2>5, <2>6, <2>7 DEF Kept
<1>2. CASE WritePage
  <2>1. /\ stage = "write" /\ stage' = "done" /\ pc' = "off"
        /\ main' = page /\ backup' = backup
    BY <1>0, <1>2 DEF WritePage, main, backup
  <2>2. PageInv
    BY <2>1 DEF Kept
  <2>3. MainOrBackup' /\ (Intact(main') \/ Intact(backup'))
    BY <2>1, <2>2 DEF PageInv, MainOrBackup
  <2>4. IInv'
    BY <1>0, <2>1, <2>3, OffInv
  <2>5. Stored' # Erased
    BY <1>0, <2>3, BackupStored
  <2>6. cuts = 0 => Spared'
    BY <2>1 DEF Kept, Spared, MainRedundant
  <2> QED BY <2>1, <2>4, <2>5, <2>6 DEF Kept
<1>3. CASE updateLogCheck \/ EraseApplication \/ CopyChunk \/ EraseOta
  <2>1. UNCHANGED <<flash, ram, seedNum, pc, call, faults, page>> /\ stage # "run"
        /\ stage # "write" /\ stage' # "write"
    BY <1>3 DEF updateLogCheck, EraseApplication, CopyChunk, EraseOta, vars, call
  <2> QED BY <2>1, KeptFrame
<1> QED BY <1>1, <1>2, <1>3 DEF Bootloader

\* The one power cut in the bootloader.
LEMMA CutKept == ASSUME TypeInv, TypeInv', Kept, faults = {}, BootloaderCut, cuts = 0 PROVE Kept'
<1>0. /\ flash \in [Partitions -> Partition] /\ {"main", "backup"} = Partitions
      /\ stage # "run" => pc = "off"
      /\ TypeOK /\ TypeOK' /\ main \in Partition
  BY DEF TypeInv, OtaTypeOK, TypeOK, Partitions, main
<1>1. /\ stage # "run" /\ stage' = "log" /\ cuts' # 0 /\ TornInstall
      /\ UNCHANGED <<ram, seedNum, pc, call, faults>>
  BY <1>0 DEF BootloaderCut, TornInstall
<1>2. Intact(backup) /\ MainRedundant
  BY <1>1 DEF Kept, Spared
<1>3. ASSUME NEW q, flash' = [flash EXCEPT !["main"] = q], q.crc \in {main.crc, {}} PROVE Kept'
  <2>1. main' = q /\ backup' = backup
    BY <1>0, <1>3 DEF main, backup
  <2>2. MainOrBackup'
    BY <1>2, <1>3, <2>1 DEF MainOrBackup, MainRedundant
  <2>3. IInv'
    BY <1>0, <1>1, <2>2, OffInv
  <2>4. Stored' # Erased
    <3>1. Intact(backup')
      BY <1>2, <2>1
    <3> QED BY <1>0, <3>1, BackupStored
  <2> QED BY <1>1, <2>3, <2>4 DEF Kept
<1>4. CASE UNCHANGED flash
  <2>1. flash' = [flash EXCEPT !["main"] = main]
    BY <1>0, <1>4 DEF main
  <2> QED BY <1>3, <2>1
<1>5. CASE \E q \in Torn("erase", flash["main"], Erased) : flash' = [flash EXCEPT !["main"] = q]
  BY <1>3, <1>5 DEF Torn, main
<1>6. CASE \E q \in HalfPage : flash' = [flash EXCEPT !["main"] = q]
  BY <1>3, <1>6 DEF HalfPage
<1> QED BY <1>1, <1>4, <1>5, <1>6 DEF TornInstall

LEMMA KeepStep == TypeInv /\ TypeInv' /\ KeepInv /\ [OtaNext]_allVars => KeepInv'
<1> SUFFICES ASSUME TypeInv, TypeInv', KeepInv, [OtaNext]_allVars, cuts' <= 1, ~otaFault', faults' = {}
             PROVE  Kept'
  BY DEF KeepInv, Kept
<1>1. cuts \in Nat /\ cuts' \in Nat /\ cuts <= cuts' /\ ~otaFault /\ faults = {}
  <2>1. cuts' \in Nat
    BY OtaBootAssumption DEF TypeInv, OtaTypeOK
  <2> QED BY <2>1, HistoryGrows
<1>2. Kept
  BY <1>1 DEF KeepInv, Kept
<1>3. TypeOK /\ TypeOK'
  BY DEF TypeInv
<1>4. CASE Bootloader
  BY <1>1, <1>2, <1>4, PageKept DEF Bootloader, updateLogCheck, EraseApplication, CopyChunk, ErasePage, WritePage, EraseOta
<1>5. CASE BootloaderCut
  <2>1. cuts = 0
    BY <1>1, <1>5 DEF BootloaderCut
  <2> QED BY <1>1, <1>2, <1>5, <2>1, CutKept
<1>6. CASE InstallFails
  BY <1>6 DEF InstallFails
<1>7. CASE Starting \/ Writing \/ Calling
  <2>1. [Next]_vars /\ stage = "run" /\ stage' = "run"
    BY <1>7 DEF Starting, Writing, Calling, Next, Running, otaVars
  <2>2. IInv' /\ Stored' # Erased
    BY <1>1, <1>2, <2>1, StorageKeeps DEF Kept
  <2> QED BY <2>1, <2>2 DEF Kept
<1>8. CASE Updating
  <2>1. ASSUME NEW u, NEW r, NEW step, UpdateBy(u, r, step) PROVE Kept'
    <3>1. stage = "run" /\ stage' = "run"
      BY <2>1 DEF UpdateBy, Started
    <3>2. IInv' /\ Stored' # Erased
      BY <1>1, <1>2, <1>3, <2>1, <3>1, UpdateByKeeps DEF Kept
    <3> QED BY <3>1, <3>2 DEF Kept
  <2>2. CASE UNCHANGED <<vars, page, stage, cuts>>
    BY <1>2, <2>2, KeptFrame DEF vars, call
  <2>3. FogRecordsVersion \/ HttpRequestsUpdate \/ FogRequestsUpdate => Kept'
    BY <2>1 DEF FogRecordsVersion, HttpRequestsUpdate, FogRequestsUpdate
  <2> QED BY <1>8, <2>2, <2>3 DEF Updating, HttpOtaBegins, FogOtaBegins, Receive, WriteChunk, OtaAborted, AskForReset,
        HttpEraseFails, HttpChunkFails, HttpChunkStrays, Advance, FogVerifies, FogRecorded
<1>9. CASE SoftwareReset \/ RunningCut
  <2>1. PowerCut /\ stage' = "log" /\ stage # "write" /\ UNCHANGED page
    BY <1>9 DEF SoftwareReset, RunningCut, PowerCut, TypeInv, OtaTypeOK
  <2>2. IInv' /\ Stored' # Erased
    BY <1>1, <1>2, <2>1, StorageKeeps DEF Kept, Next
  <2>3. cuts' = 0 => pc = "ready"
    BY <1>1, <1>9, OtaBootAssumption DEF SoftwareReset, RunningCut
  <2>4. cuts' = 0 => Spared'
    BY <1>1, <1>2, <2>1, <2>3, ResetSpares DEF Kept
  <2> QED BY <2>1, <2>2, <2>4 DEF Kept
<1>10. CASE UNCHANGED allVars
  BY <1>2, <1>10, KeptFrame DEF allVars, vars, otaVars, call
<1> QED BY <1>4, <1>5, <1>6, <1>7, <1>8, <1>9, <1>10 DEF OtaNext

\* In every behaviour, with any use of both updaters and of the storage meanwhile, a device that has
\* seen one power cut, wherever it came, and no failing flash operation starts with a configuration:
\* the bootloader holds main in RAM only (ErasePage, WritePage; Update_for_OTA.c:241-253) while the
\* backup is whole, because a device that lost the backup has used up its power cut.
THEOREM ConfigSurvives == OtaSpec => []OneCutKeepsConfig
<1>1. KeepInv => OneCutKeepsConfig
  BY DEF KeepInv, OneCutKeepsConfig
<1> QED BY <1>1, OtaInitType, OtaTypeStep, KeepInit, KeepStep, PTL DEF OtaSpec
=============================================================================
