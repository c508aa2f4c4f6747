---- MODULE GameHooks ----
(***************************************************************************)
(* What the game is told by the functions the mod hooks                    *)
(* (PracticeHacks.cpp), as a function of the options that are on.  "orig"  *)
(* is the game's own answer, "skipped" a call that never reaches the game. *)
(***************************************************************************)
EXTENDS Integers, Sequences

Rule(option, answer) == <<[option |-> option, answer |-> answer]>>

(* For each hook, the options it asks for, in the order it asks.           *)
OwnHooks == [
    IsGotShine              |-> Rule("mIsGrayShineRefreshEnabled", "false"),
    SetGotShine             |-> Rule("mIsMoonRefreshEnabled", "skipped"),
    StartBgm1               |-> Rule("mIsBgmDisabled", "skipped"),
    StartBgm2               |-> Rule("mIsBgmDisabled", "skipped"),
    isEnableCheckpointWarp  |-> Rule("mIsAlwaysCheckpoints", "true")
                                \o Rule("mIsAllCheckpointsEnabled", "true"),
    DoCheckpointTouchNotify |-> Rule("mDisableCheckpointTouching", "skipped")]

(* The hooks that come from an earlier practice mod.                       *)
PracticeHooks == [
    NoDamage                |-> Rule("mIsNoDamageEnabled", "skipped"),
    warpText                |-> Rule("mIsWarpTextRefreshEnabled", "false"),
    shardRefresh            |-> Rule("mIsMoonShardsRefreshEnabled", "false"),
    RefreshPurps            |-> Rule("mIsPurpleCoinsRefreshEnabled", "false"),
    DoorRefresh             |-> Rule("mIsDoorRefreshEnabled", "orig, then closed again"),
    SeedGrowTime            |-> Rule("mIsSeedsGrowing", "999999")
                                \o Rule("mIsSeedsRefreshEnabled", "zero"),
    SeedUsed                |-> Rule("mIsSeedsRefreshEnabled", "false"),
    kingdomEnter            |-> Rule("mIsKingdomEnterCutsceneRefreshEnabled", "false"),
    DisableMoonLock         |-> Rule("mIsDisableMoonLock", "zero"),
    AllCheckpoints          |-> Rule("mIsAllCheckpointsEnabled", "true"),
    ToadRefresh             |-> Rule("mIsCutsceneRefreshEnabled", "false")]

Rules == [hook \in DOMAIN OwnHooks \cup DOMAIN PracticeHooks |->
             IF hook \in DOMAIN OwnHooks THEN OwnHooks[hook] ELSE PracticeHooks[hook]]

Hits(hook, on) == {i \in DOMAIN Rules[hook] : Rules[hook][i].option \in on}

(* The first of its options that is on decides.                            *)
Answer(hook, on) ==
    IF Hits(hook, on) = {} THEN "orig"
    ELSE Rules[hook][CHOOSE i \in Hits(hook, on) : \A j \in Hits(hook, on) : i <= j].answer

(* isEnableSave asks the other way round: with the option off the game is  *)
(* told that it may not save.                                              *)
EnableSave(on) == IF "mIsEnableAutosave" \in on THEN "orig" ELSE "false"
====
