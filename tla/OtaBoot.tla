------------------------------ MODULE OtaBoot -------------------------------
(***************************************************************************)
(* A firmware update over the air: an updater of the running system fills  *)
(* the OTA partition, requests the installation in the boot table of the   *)
(* configuration and resets; the bootloader (Bootloader/Update_for_OTA.c)  *)
(* copies the image over the application, clears the request and erases    *)
(* the OTA partition.  Power may go at every step of either.               *)
(*                                                                         *)
(* Composes with ParaStorage, whose main partition the bootloader rewrites. *)
(* Images are model values; a chunk of an image is the image's name.       *)
(***************************************************************************)
EXTENDS ParaStorage

CONSTANTS Chunks,      \* flash writes an image takes
          Junk,        \* a chunk in pieces
          Latest,      \* the image the cloud offers
          Updaters,    \* which updaters are used: "http", "fog"
          OneAtATime,  \* is the user kept from using both at once?
          ImageMayFail,  \* do flash operations on images return errors?
          MaxCuts      \* bound on power cuts

ASSUME OtaBootAssumption ==
    /\ Chunks \in Nat \ {0} /\ MaxCuts \in Nat /\ OneAtATime \in BOOLEAN
    /\ ImageMayFail \in BOOLEAN
    /\ Updaters \subseteq {"http", "fog"}
    /\ Latest \in Image /\ Image \subseteq UserData  \* user data: romVersion
    /\ {"zero", Erased} \cap Image = {} /\ Junk \notin Image \cup {Erased}

VARIABLES
    app,       \* MICO_PARTITION_APPLICATION
    ota,       \* MICO_PARTITION_OTA_TEMP
    stage,     \* the bootloader's step, or "run" once the application was started
    copied,    \* chunks copied by the bootloader
    page,      \* paraSaveInRam, the image of the main partition
    updater,   \* step of each updater of the running system
    got,       \* what each has received: [image, chunks written]
    mutex,     \* flashContentInRam_mutex: "free" or the updater that holds it
    cuts,      \* power cuts so far
    otaFault   \* history: a flash operation on an image failed

otaVars == <<app, ota, stage, copied, page, updater, got, mutex, cuts, otaFault>>
allVars == <<vars, otaVars>>

Chunk == 1..Chunks
Area  == [Chunk -> Image \cup {Erased, Junk}]

BlankArea == [k \in Chunk |-> Erased]
Whole(area, i) == \A k \in Chunk : area[k] = i

Nothing == [image |-> Latest, chunks |-> 0]
NoUpdater == updater' = [u \in {"http", "fog"} |-> "idle"]
             /\ got' = [u \in {"http", "fog"} |-> Nothing]
             /\ mutex' = "free"

\* A device that was set up and runs an image.
OtaInit ==
    /\ Init
    /\ \E i \in Image \ {Latest} :
          /\ flash = InSync([seed |-> 0, settings |-> DefaultSettings], i)
          /\ app = [k \in Chunk |-> i]
    /\ ota = BlankArea
    /\ stage = "log" /\ copied = 0 /\ page = Blank
    /\ updater = [u \in {"http", "fog"} |-> "idle"]
    /\ got = [u \in {"http", "fog"} |-> Nothing]
    /\ mutex = "free"
    /\ cuts = 0 /\ otaFault = FALSE
-----------------------------------------------------------------------------
(* The bootloader: update() and the start of the application in main() *)

\* Returns kNoErr whether or not the CRC of the OTA data is the one of the log.
checkcrc(log) == "kNoErr"

\* updateLogCheck: the log is not blank and tagged 'U'.
LogNeedsUpdate(log) == log \in Image /\ checkcrc(log) = "kNoErr"

updateLogCheck ==
    /\ stage = "log"
    /\ stage' = IF LogNeedsUpdate(flash["main"].boot) THEN "erase"
                ELSE IF ota = BlankArea THEN "run" ELSE "clean"
    /\ UNCHANGED <<vars, app, ota, copied, page, updater, got, mutex, cuts, otaFault>>

EraseApplication ==
    /\ stage = "erase"
    /\ app' = BlankArea
    /\ copied' = 0
    /\ stage' = "copy"
    /\ UNCHANGED <<vars, ota, page, updater, got, mutex, cuts, otaFault>>

\* Mutant of CopyChunk: the last chunk, shorter than SizePerRW, is left out.
CopyAllButLast ==
    /\ stage = "copy"
    /\ IF copied + 1 < Chunks
       THEN app' = [app EXCEPT ![copied + 1] = ota[copied + 1]] /\ copied' = copied + 1 /\ UNCHANGED stage
       ELSE copied' = 0 /\ stage' = "page" /\ UNCHANGED app
    /\ UNCHANGED <<vars, ota, page, updater, got, mutex, cuts, otaFault>>

\* Copy, read back and compare.
CopyChunk ==
    /\ stage = "copy"
    /\ app' = [app EXCEPT ![copied + 1] = ota[copied + 1]]
    /\ IF copied + 1 < Chunks
       THEN copied' = copied + 1 /\ UNCHANGED stage
       ELSE copied' = 0 /\ stage' = "page"
    /\ UNCHANGED <<vars, ota, page, updater, got, mutex, cuts, otaFault>>

\* The main partition is saved in RAM with a blank boot table and erased.
ErasePage ==
    /\ stage = "page"
    /\ page' = [flash["main"] EXCEPT !.boot = Erased]
    /\ flash' = [flash EXCEPT !["main"] = Blank]
    /\ stage' = "write"
    /\ UNCHANGED <<ram, seedNum, pc, call, faults>>
    /\ UNCHANGED <<app, ota, copied, updater, got, mutex, cuts, otaFault>>

\* Mutant of WritePage: an erased page is left.
WriteNoPage ==
    /\ stage = "write"
    /\ page' = Blank
    /\ stage' = "done"
    /\ UNCHANGED <<vars, app, ota, copied, updater, got, mutex, cuts, otaFault>>

WritePage ==
    /\ stage = "write"
    /\ flash' = [flash EXCEPT !["main"] = page]
    /\ page' = Blank
    /\ stage' = "done"
    /\ UNCHANGED <<ram, seedNum, pc, call, faults>>
    /\ UNCHANGED <<app, ota, copied, updater, got, mutex, cuts, otaFault>>

\* After an installation, or when the log asks for none but OTA data is there.
EraseOta ==
    /\ stage \in {"clean", "done"}
    /\ ota' = BlankArea
    /\ stage' = "run"
    /\ UNCHANGED <<vars, app, copied, page, updater, got, mutex, cuts, otaFault>>

\* What an erase or a write that does not complete leaves.
HalfErased(area) == {a \in Area : \A k \in Chunk : a[k] \in {area[k], Erased, Junk}}
HalfWritten(area, k) == {[area EXCEPT ![k] = x] : x \in {Erased, Junk}}
HalfPage == [boot : {page.boot}, sys : {page.sys} \cup Garbage,
             user : {page.user} \cup Garbage, crc : {{}}]

\* The bootloader's current flash operation does not complete.
TornInstall ==
    \/ /\ stage \in {"clean", "done"} /\ ota' \in HalfErased(ota) /\ UNCHANGED <<flash, app>>
    \/ /\ stage = "erase" /\ app' \in HalfErased(app) /\ UNCHANGED <<flash, ota>>
    \/ /\ stage = "copy" /\ app' \in HalfWritten(app, copied + 1) /\ UNCHANGED <<flash, ota>>
    \/ /\ stage = "page"
       /\ \E q \in Torn("erase", flash["main"], Erased) : flash' = [flash EXCEPT !["main"] = q]
       /\ UNCHANGED <<app, ota>>
    \/ /\ stage = "write"
       /\ \E q \in HalfPage : flash' = [flash EXCEPT !["main"] = q]
       /\ UNCHANGED <<app, ota>>

BootloaderCut ==
    /\ cuts < MaxCuts
    /\ TornInstall
    /\ stage' = "log" /\ copied' = 0 /\ page' = Blank
    /\ cuts' = cuts + 1
    /\ UNCHANGED <<ram, seedNum, pc, call, faults, updater, got, mutex, otaFault>>

\* A flash operation fails or a chunk reads back wrong: update() gives up and main()
\* starts the application all the same.  Bound: once.
InstallFails ==
    /\ ImageMayFail /\ ~otaFault
    /\ TornInstall
    /\ stage' = "run" /\ copied' = 0 /\ page' = Blank
    /\ otaFault' = TRUE
    /\ UNCHANGED <<ram, seedNum, pc, call, faults, updater, got, mutex, cuts>>

Bootloader == updateLogCheck \/ EraseApplication \/ CopyChunk \/ ErasePage \/ WritePage \/ EraseOta
-----------------------------------------------------------------------------
(* The updaters of the running system *)

Started == stage = "run" /\ pc = "ready"

MayBegin(u) ==
    /\ Started
    /\ u \in Updaters /\ updater[u] = "idle"
    /\ OneAtATime => \A v \in Updaters : updater[v] = "idle"

\* The OTA partition is erased for the image that comes in.
Receive(u, i) ==
    /\ ota' = BlankArea
    /\ updater' = [updater EXCEPT ![u] = "receiving"]
    /\ got' = [got EXCEPT ![u] = [image |-> i, chunks |-> 0]]
    /\ UNCHANGED <<vars, app, stage, copied, page, cuts, otaFault>>

\* A client of the configuration server posts an image (onReceivedData, inPos = 0).
HttpOtaBegins(i) ==
    /\ MayBegin("http")
    /\ mutex = "free" /\ mutex' = "http"
    /\ Receive("http", i)

\* fogCloudDevFirmwareUpdate: the recorded version is not the latest.
FogOtaBegins ==
    /\ MayBegin("fog")
    /\ ram.user # Latest
    /\ Receive("fog", Latest)
    /\ UNCHANGED mutex

NextChunk(u) == got[u].chunks + 1

\* Mutant of Advance: the end is looked for before the chunk is counted.
AdvanceTooFar(u) ==
    /\ updater[u] = "receiving"
    /\ got' = [got EXCEPT ![u].chunks = NextChunk(u)]
    /\ updater' = [updater EXCEPT ![u] = IF got[u].chunks = Chunks THEN "received" ELSE "receiving"]
    /\ UNCHANGED <<vars, app, stage, copied, page, cuts>>

\* One more chunk of the image is accounted for.
Advance(u) ==
    /\ updater[u] = "receiving"
    /\ got' = [got EXCEPT ![u].chunks = NextChunk(u)]
    /\ updater' = [updater EXCEPT ![u] = IF NextChunk(u) = Chunks THEN "received" ELSE "receiving"]
    /\ UNCHANGED <<vars, app, stage, copied, page, cuts>>

WriteChunk(u) ==
    /\ Advance(u)
    /\ ota' = [ota EXCEPT ![NextChunk(u)] = got[u].image]
    /\ UNCHANGED <<mutex, otaFault>>

\* The erase fails.  The mutex is given back; what onReceivedData returns does not stop
\* the reception, here or in HttpChunkFails.  Bound: one failure.
HttpEraseFails(i) ==
    /\ ImageMayFail /\ ~otaFault
    /\ MayBegin("http") /\ mutex = "free"
    /\ ota' \in HalfErased(ota)
    /\ updater' = [updater EXCEPT !["http"] = "receiving"]
    /\ got' = [got EXCEPT !["http"] = [image |-> i, chunks |-> 0]]
    /\ otaFault' = TRUE
    /\ UNCHANGED <<vars, app, stage, copied, page, mutex, cuts>>

\* A write fails; the mutex is given back.
HttpChunkFails ==
    /\ ImageMayFail /\ ~otaFault
    /\ Advance("http")
    /\ ota' \in HalfWritten(ota, NextChunk("http"))
    /\ mutex' = "free"
    /\ otaFault' = TRUE

\* After a failure (the mutex is gone) a chunk is written short of its place or, when
\* it was the first operation that failed, goes to the heap and not to flash.
HttpChunkStrays ==
    /\ otaFault /\ mutex # "http"
    /\ Advance("http")
    /\ ota' \in HalfWritten(ota, NextChunk("http")) \cup {ota}
    /\ UNCHANGED <<mutex, otaFault>>

\* The connection is lost; onClearHTTPHeader gives the mutex back.
OtaAborted(u) ==
    /\ updater[u] = "receiving"
    /\ updater' = [updater EXCEPT ![u] = "idle"]
    /\ got' = [got EXCEPT ![u] = Nothing]
    /\ mutex' = IF mutex = u THEN "free" ELSE mutex
    /\ UNCHANGED <<vars, app, ota, stage, copied, page, cuts, otaFault>>

\* MD5 of what is in flash.
FogVerifies ==
    /\ updater["fog"] = "received"
    /\ IF Whole(ota, Latest)
       THEN updater' = [updater EXCEPT !["fog"] = "verified"] /\ UNCHANGED got
       ELSE updater' = [updater EXCEPT !["fog"] = "idle"] /\ got' = [got EXCEPT !["fog"] = Nothing]
    /\ UNCHANGED <<vars, app, ota, stage, copied, page, mutex, cuts, otaFault>>

\* u calls mico_system_context_update after it set RAM to r.
UpdateBy(u, r, step) ==
    /\ Started
    /\ seedNum < MaxSeed
    /\ seedNum' = seedNum + 1
    /\ BeginUpdate([r EXCEPT !.sys.seed = seedNum + 1], "ready")
    /\ updater' = [updater EXCEPT ![u] = step]
    /\ UNCHANGED <<flash, faults, app, ota, stage, copied, page, got, cuts, otaFault>>

\* "update rom version in flash", before the installation is asked for.
FogRecordsVersion ==
    /\ updater["fog"] = "verified"
    /\ mutex = "free" /\ mutex' = "fog"
    /\ UpdateBy("fog", [ram EXCEPT !.user = Latest], "recording")

FogRecorded ==
    /\ updater["fog"] = "recording" /\ Started
    /\ mutex' = "free"
    /\ updater' = [updater EXCEPT !["fog"] = "recorded"]
    /\ UNCHANGED <<vars, app, ota, stage, copied, page, got, cuts, otaFault>>

\* The boot table asks for the image (an unconfigured device also sets easyLinkByPass);
\* the HTTP server still holds the mutex.
HttpRequestsUpdate ==
    /\ updater["http"] = "received"
    /\ \E s \in Settings :
          UpdateBy("http", [ram EXCEPT !.boot = got["http"].image, !.sys.settings = s], "requesting")
    /\ UNCHANGED mutex

FogRequestsUpdate ==
    /\ updater["fog"] = "recorded"
    /\ mutex = "free" /\ mutex' = "fog"
    /\ UpdateBy("fog", [ram EXCEPT !.boot = Latest], "requesting")

\* Mutant of AskForReset: the updater goes on instead of having the system reset.
AskForNoReset(u) ==
    /\ updater[u] = "requesting" /\ Started
    /\ mutex' = "free"
    /\ updater' = [updater EXCEPT ![u] = "idle"]
    /\ UNCHANGED <<vars, app, stage, ota, copied, page, got, cuts, otaFault>>

\* mico_system_power_perform(eState_Software_Reset); then the updater sleeps for ever.
AskForReset(u) ==
    /\ updater[u] = "requesting" /\ Started
    /\ mutex' = IF u = "fog" THEN "free" ELSE mutex
    /\ updater' = [updater EXCEPT ![u] = "resetting"]
    /\ UNCHANGED <<vars, app, ota, stage, copied, page, got, cuts, otaFault>>

\* The power daemon resets half a second later, whatever others do by then.
SoftwareReset ==
    /\ \E u \in Updaters : updater[u] = "resetting"
    /\ PowerCut
    /\ stage' = "log"
    /\ cuts' = IF pc = "ready" \/ cuts > MaxCuts THEN cuts ELSE cuts + 1
    /\ NoUpdater
    /\ UNCHANGED <<app, ota, copied, page, otaFault>>

RunningCut ==
    /\ stage = "run" /\ PowerCut
    /\ cuts < MaxCuts /\ cuts' = cuts + 1
    /\ \/ UNCHANGED ota
       \/ \E u \in Updaters :
             updater[u] = "receiving" /\ ota' \in HalfWritten(ota, NextChunk(u))
    /\ stage' = "log"
    /\ NoUpdater
    /\ UNCHANGED <<app, copied, page, otaFault>>
-----------------------------------------------------------------------------
Updating ==
    \/ \E i \in Image : HttpOtaBegins(i) \/ HttpEraseFails(i)
    \/ FogOtaBegins
    \/ \E u \in Updaters : WriteChunk(u) \/ OtaAborted(u) \/ AskForReset(u)
    \/ HttpChunkFails \/ HttpChunkStrays
    \/ FogVerifies \/ FogRecordsVersion \/ FogRecorded
    \/ HttpRequestsUpdate \/ FogRequestsUpdate

\* The parameter storage at work for the running system (ParaStorage; its flash
\* operations do not fail here).
Starting == stage = "run" /\ Load /\ UNCHANGED otaVars
Writing  == stage = "run" /\ Flashing /\ UNCHANGED otaVars
Calling  == stage = "run" /\ (mico_system_context_update \/ mico_system_context_restore)
            /\ UNCHANGED otaVars

OtaNext ==
    \/ Bootloader \/ BootloaderCut \/ InstallFails
    \/ Starting \/ Writing \/ Calling
    \/ Updating \/ SoftwareReset \/ RunningCut

OtaSpec == OtaInit /\ [][OtaNext]_allVars

\* The bootloader and the calls in progress run on and a reset asked for comes; other
\* threads' calls may come in between, but do not keep an updater from going on for ever.
OtaFairSpec ==
    /\ OtaSpec
    /\ WF_allVars(Bootloader) /\ WF_allVars(Starting) /\ WF_allVars(Writing)
    /\ \A u \in Updaters : SF_allVars(AskForReset(u))
    /\ WF_allVars(SoftwareReset)
-----------------------------------------------------------------------------
(* Properties *)

Installed == IF \E i \in Image : Whole(app, i) THEN app[1] ELSE Junk

\* The image the device runs after its next undisturbed start.
WillRun ==
    IF flash["main"].boot \in Image
    THEN IF \E i \in Image : Whole(ota, i) THEN ota[1] ELSE Junk
    ELSE Installed

OtaTypeOK ==
    /\ app \in Area /\ ota \in Area
    /\ stage \in {"log", "clean", "erase", "copy", "page", "write", "done", "run"}
    /\ copied \in 0..Chunks
    /\ page \in Partition
    /\ updater \in [{"http", "fog"} -> {"idle", "receiving", "received", "verified", "recording",
                                      "recorded", "requesting", "resetting"}]
    /\ got \in [{"http", "fog"} -> [image : Image, chunks : 0..Chunks]]
    /\ mutex \in {"free", "http", "fog"}
    /\ cuts \in 0..(MaxCuts + 1) /\ otaFault \in BOOLEAN
    /\ stage # "run" => pc = "off"

\* There is always a whole image to run, whatever step power goes at, and nothing the
\* bootloader does or leaves undone changes which: the old one until the request is
\* written, then the new one (a failed write to an image apart).
AtomicInstall ==
    [][~otaFault' => WillRun' \in Image /\ (stage # "run" => WillRun' = WillRun)]_allVars

\* One power cut, in the bootloader or in the system, never costs the configuration:
\* the bootloader rewrites main while the backup may be in pieces.
OneCutKeepsConfig == stage = "run" /\ cuts <= 1 /\ faults = {} /\ ~otaFault => Stored # Erased

\* A requested installation is carried through, or the request is withdrawn.
InstallCompletes ==
    \A i \in Image :
        WillRun = i ~> (stage = "run" /\ Installed = i) \/ WillRun # i \/ otaFault

\* updateLogCheck refuses a log whose crc is not that of the OTA data (Log_CRCERROR):
\* only the image that was logged is copied over the application.
OnlyLoggedImageInstalled == stage \in {"erase", "copy"} => Whole(ota, flash["main"].boot)

\* "the current firmware version is up-to-date": the cloud is asked for no update
\* because romVersion is the latest only when that image is installed or asked for.
UpToDateMeansInstalled ==
    Started /\ ram.user = Latest /\ updater["fog"] = "idle" => WillRun = Latest
=============================================================================
