---- MODULE ConfigFile ----
(***************************************************************************)
(* The saved configuration: Menu::update saves it in the first frame and   *)
(* in every SaveEvery-th after it (Menu.cpp), pe::saveConfig hands it to   *)
(* FsHelper::writeFileToPath, which removes the file, makes it anew,       *)
(* opens, writes and closes it (fsHelper.cpp).  Each of these calls may    *)
(* fail, and the power may go between any two of them or during the write. *)
(* Nothing calls loadConfig, so that a run begins with the defaults.       *)
(*                                                                         *)
(* The file system is modelled from how it is used: a file that is open    *)
(* for writing can be neither opened again nor deleted, a file that exists *)
(* cannot be created, and a restart closes every handle.                   *)
(***************************************************************************)
EXTENDS Integers

CONSTANTS
    SaveEvery,   (* frames from one save to the next                       *)
    MaxRuns,     (* bound: starts of the program                           *)
    MaxEdits,    (* bound: changes the player makes in one run             *)
    MaxFaults    (* bound: calls that fail although they need not          *)

ASSUME ConfigAssumption ==
    /\ SaveEvery \in Nat \ {0} /\ MaxRuns \in Nat \ {0}
    /\ MaxEdits \in Nat /\ MaxFaults \in Nat

(* A configuration is known by the run and the edit that made it; edit 0   *)
(* is the defaults.                                                        *)
Versions == (0 .. MaxRuns) \X (0 .. MaxEdits)
Never == <<0, 0>>

Calls == {"isFileExist", "DeleteFile", "CreateFile", "OpenFile", "WriteFile", "CloseFile"}

VARIABLES
    run, config,     (* the run and its configuration                      *)
    mTimer,          (* Menu::mTimer, modulo SaveEvery                     *)
    mounted,         (* MountSdCardForDebug succeeded in this run          *)
    pc,              (* the next call of writeFileToPath, or "idle"        *)
    handle,          (* the file is open for writing                       *)
    file,            (* "absent", "zeroed", "torn" or "whole"              *)
    stored,          (* the version a whole file holds                     *)
    faults,          (* calls that have failed                             *)
    attempt,         (* history: the version this run last began to save   *)
    everSaved,       (* history: some save was completed                   *)
    trouble          (* history: since then a call failed, or the power    *)
                     (* went during a save                                 *)

disk == <<file, stored>>
history == <<attempt, everSaved, trouble>>
configVars == <<run, config, mTimer, mounted, pc, handle, disk, faults, history>>

ConfigTypeOK ==
    /\ run \in 1 .. MaxRuns
    /\ config \in Versions
    /\ mTimer \in 0 .. SaveEvery - 1
    /\ mounted \in BOOLEAN
    /\ pc \in Calls \cup {"idle"}
    /\ handle \in BOOLEAN
    /\ file \in {"absent", "zeroed", "torn", "whole"}
    /\ stored \in Versions
    /\ faults \in 0 .. MaxFaults
    /\ attempt \in Versions
    /\ everSaved \in BOOLEAN
    /\ trouble \in BOOLEAN

ConfigInit ==
    /\ run = 1 /\ config = <<1, 0>> /\ mTimer = 0 /\ mounted \in BOOLEAN
    /\ pc = "idle" /\ handle = FALSE
    /\ file = "absent" /\ stored = Never
    /\ faults = 0
    /\ attempt = Never /\ everSaved = FALSE /\ trouble = FALSE

----
(* The program between saves.                                              *)

Edit ==
    /\ pc = "idle" /\ config[2] < MaxEdits
    /\ config' = <<run, config[2] + 1>>
    /\ UNCHANGED <<run, mTimer, mounted, pc, handle, disk, faults, history>>

(* A mistake: the counter stops instead of running on.                     *)
NextTimerStuck == IF mTimer = SaveEvery - 1 THEN mTimer ELSE mTimer + 1

NextTimer == (mTimer + 1) % SaveEvery

(* Menu::update.                                                           *)
Frame ==
    /\ pc = "idle"
    /\ mTimer' = NextTimer
    /\ IF mTimer = 0
       THEN pc' = "isFileExist" /\ attempt' = config
       ELSE UNCHANGED <<pc, attempt>>
    /\ UNCHANGED <<run, config, mounted, handle, disk, faults, everSaved, trouble>>

----
(* The calls of writeFileToPath.  A call that could succeed may fail.      *)

Goes(next) ==
    /\ pc' = next
    /\ UNCHANGED <<run, config, mTimer, mounted, attempt>>

Succeeds(could) == could /\ UNCHANGED <<faults, trouble>>

Fails(could) ==
    \/ ~could /\ UNCHANGED <<faults, trouble>>
    \/ could /\ faults < MaxFaults /\ faults' = faults + 1 /\ trouble' = TRUE

(* The result of GetEntryType is not looked at: when it fails, as it does  *)
(* when there is no file, its output is not initialised and either answer  *)
(* may come out.                                                           *)
isFileExist ==
    LET finds == mounted /\ file # "absent" IN
    /\ pc = "isFileExist"
    /\ \/ Succeeds(finds) /\ Goes("DeleteFile")
       \/ Fails(finds) /\ \E next \in {"DeleteFile", "CreateFile"} : Goes(next)
    /\ UNCHANGED <<handle, disk, everSaved>>

(* A mistake: the previous file is left where it is.                       *)
AfterDeleteKept == file

AfterDelete == "absent"

(* The result of DeleteFile is not looked at.                              *)
DeleteFile ==
    LET could == mounted /\ file # "absent" /\ ~handle IN
    /\ pc = "DeleteFile" /\ Goes("CreateFile")
    /\ \/ Succeeds(could) /\ file' = AfterDelete
       \/ Fails(could) /\ UNCHANGED file
    /\ UNCHANGED <<handle, stored, everSaved>>

CreateFile ==
    LET could == mounted /\ file = "absent" IN
    /\ pc = "CreateFile"
    /\ \/ Succeeds(could) /\ file' = "zeroed" /\ Goes("OpenFile")
       \/ Fails(could) /\ UNCHANGED file /\ Goes("idle")
    /\ UNCHANGED <<handle, stored, everSaved>>

OpenFile ==
    /\ pc = "OpenFile"
    /\ \/ Succeeds(mounted /\ ~handle) /\ handle' = TRUE /\ Goes("WriteFile")
       \/ Fails(mounted /\ ~handle) /\ UNCHANGED handle /\ Goes("idle")
    /\ UNCHANGED <<disk, everSaved>>

(* A mistake: the size of the pointer is written, not of the configuration. *)
WrittenShort == "torn"

(* saveConfig passes sizeof(UserConfig), so a write that succeeds is whole. *)
Written == "whole"

(* A write that fails returns at once: the handle stays open.              *)
WriteFile ==
    /\ pc = "WriteFile"
    /\ \/ Succeeds(TRUE) /\ file' = Written /\ stored' = config /\ Goes("CloseFile")
       \/ Fails(TRUE) /\ file' \in {"zeroed", "torn"} /\ UNCHANGED stored /\ Goes("idle")
    /\ UNCHANGED <<handle, everSaved>>

(* A mistake: the handle is not closed.                                    *)
AfterCloseOpen == TRUE

AfterClose == FALSE

CloseFile ==
    /\ pc = "CloseFile" /\ Goes("idle")
    /\ handle' = AfterClose /\ everSaved' = TRUE /\ trouble' = FALSE
    /\ UNCHANGED <<disk, faults>>

writeFileToPath == isFileExist \/ DeleteFile \/ CreateFile \/ OpenFile \/ WriteFile \/ CloseFile

(* The power goes, in the middle of a save or not, and comes back.         *)
Restart ==
    /\ run < MaxRuns /\ run' = run + 1
    /\ config' = <<run + 1, 0>> /\ mTimer' = 0 /\ mounted' \in BOOLEAN
    /\ pc' = "idle" /\ handle' = FALSE /\ attempt' = Never
    /\ file' \in IF pc = "WriteFile" THEN {file, "torn"} ELSE {file}
    /\ trouble' = (trouble \/ pc # "idle")
    /\ UNCHANGED <<stored, faults, everSaved>>

ConfigNext == Edit \/ Frame \/ writeFileToPath \/ Restart

(* The game goes on drawing frames and each call returns.                  *)
ConfigSpec == ConfigInit /\ [][ConfigNext]_configVars /\ WF_configVars(Frame \/ writeFileToPath)

----
(***************************************************************************)
(* Once the configuration has been saved, turning the console off between  *)
(* saves, at any time and any number of times, leaves a whole file, unless *)
(* a call has failed or the power went during a save.                      *)
(***************************************************************************)
WholeUnlessTrouble == pc = "idle" /\ everSaved /\ ~trouble => file = "whole"

(***************************************************************************)
(* Between saves the file holds what this run last set out to save: the    *)
(* removal that isFileExist decides on is never missing where CreateFile   *)
(* needs it (fsHelper.cpp:13-21).  It is lost whatever an earlier run had  *)
(* saved, as the run began with the defaults.                              *)
(***************************************************************************)
HoldsLastAttempt ==
    (pc = "idle" /\ mounted /\ ~trouble /\ attempt # Never)
        => file = "whole" /\ stored = attempt

Leaked == handle /\ pc \notin {"WriteFile", "CloseFile"}

(***************************************************************************)
(* The file stays open after a save only if its write failed, and then no  *)
(* save of this run removes or changes it again (fsHelper.cpp:28-31).      *)
(***************************************************************************)
LeakFreezesFile ==
    [][Leaked => trouble /\ (run' = run => disk' = disk /\ Leaked')]_configVars

(***************************************************************************)
(* With finitely many failing calls what the player chose is on the card   *)
(* again and again, but for a card that is not mounted and a file that a   *)
(* failed write left open.                                                 *)
(***************************************************************************)
Arrived == file = "whole" /\ stored = config
SavesArrive == []<>(Arrived \/ ~mounted \/ Leaked)
====
