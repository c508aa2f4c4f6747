---- MODULE Timer ----
(* The timer of runs (Timer.cpp) with everything that drives it: buttons and *)
(* actions, the hooks on collected moons, the change of stage noticed by     *)
(* Menu::update, and the skipping of clouds (PracticeHacks.cpp).             *)
EXTENDS Integers

CONSTANTS
    Stages,          \* names of stages
    NoStage,         \* the empty name; also: no live scene with a player
    SplitTicks,      \* a split stays on the screen for two seconds
    mTimerStartType, \* TimerHookType of the configuration; the code never changes it
    MaxTick          \* bound: the system tick stops here

HookTypes == {"ShineGrab", "ShineTick"}
AllSkipCalls == 0..1  \* functionCalls between two calls of the hook

ASSUME TimerAssumption ==
    /\ NoStage \notin Stages
    /\ SplitTicks \in Nat
    /\ MaxTick \in Nat
    /\ mTimerStartType \in HookTypes \cup {"None"}

VARIABLES
    now,                \* nn::os::GetSystemTick()
    mStartTick, mEndTick, mIsRunning, mShowSplitTick,
    mTimerAutoKingdom, mTimerSplit, mIsSkipCloudEnabled,  \* options
    functionCalls,      \* static of CloudSkipHook::Callback
    stage,              \* the stage of the live scene, if there is one
    mLastStageName,     \* what Menu::update saw last
    timed               \* history: stages seen since the timer was last started
                        \* or "auto kingdom" was turned on

ticks == <<mStartTick, mEndTick, mShowSplitTick>>
options == <<mTimerAutoKingdom, mTimerSplit, mIsSkipCloudEnabled>>
vars == <<now, ticks, mIsRunning, options, functionCalls, stage, mLastStageName, timed>>

Init ==
    /\ now = 1
    /\ mStartTick = 0 /\ mEndTick = 0 /\ mIsRunning = FALSE /\ mShowSplitTick = 0
    /\ mTimerAutoKingdom = TRUE /\ mTimerSplit = TRUE /\ mIsSkipCloudEnabled = FALSE
    /\ functionCalls = 0
    /\ stage = NoStage /\ mLastStageName = NoStage
    /\ timed = {}

----
(* Operations of the timer.                                                 *)

Start ==
    /\ mStartTick' = now
    /\ mIsRunning' = TRUE
    /\ UNCHANGED <<mEndTick, mShowSplitTick>>

\* A mistake: a timer that has stopped is stopped again.
StopAgain == /\ mEndTick' = now
             /\ mIsRunning' = FALSE
             /\ UNCHANGED <<mStartTick, mShowSplitTick>>

Stop == /\ mEndTick' = IF mIsRunning THEN now ELSE mEndTick
        /\ mIsRunning' = FALSE
        /\ UNCHANGED <<mStartTick, mShowSplitTick>>

\* A mistake: the end of the last run is kept.
ResetKeepingEnd == /\ mStartTick' = now
                   /\ mIsRunning' = FALSE
                   /\ UNCHANGED <<mEndTick, mShowSplitTick>>

Reset == /\ mStartTick' = now
         /\ mEndTick' = now
         /\ mIsRunning' = FALSE
         /\ UNCHANGED mShowSplitTick

\* A split of a timer that is not running shows zero.
ShowSplit ==
    /\ mShowSplitTick' = now
    /\ IF mIsRunning THEN UNCHANGED <<mStartTick, mEndTick>>
                     ELSE mStartTick' = now /\ mEndTick' = now
    /\ UNCHANGED mIsRunning

Event(type) ==
    IF ~mIsRunning /\ mTimerStartType = type
    THEN Start /\ timed' = {}
    ELSE /\ IF mTimerSplit THEN ShowSplit ELSE UNCHANGED <<ticks, mIsRunning>>
         /\ UNCHANGED timed

----
(* What the screen shows (Timer::draw), a time in ticks.                    *)

ShowsSplit == mShowSplitTick # 0 /\ now - mShowSplitTick <= SplitTicks

TimeShown ==
    (IF ShowsSplit THEN mShowSplitTick
     ELSE IF mIsRunning THEN now ELSE mEndTick) - mStartTick

----
(* Who drives it.                                                           *)

others == <<now, options, functionCalls, stage, mLastStageName>>

StartTimer == Start /\ timed' = {} /\ UNCHANGED others
StopTimer  == Stop  /\ UNCHANGED <<others, timed>>
ResetTimer == Reset /\ UNCHANGED <<others, timed>>

\* shineGrabHook and the first step of shineTickHook.
Shine(type) == Event(type) /\ UNCHANGED others

\* A mistake: a running timer is left to run on.
StartsAtNewStageIfStopped == mTimerAutoKingdom /\ ~mIsRunning

StartsAtNewStage == mTimerAutoKingdom

\* One call of Menu::update that finds a live scene, a player and a stage.
Update ==
    /\ stage # NoStage
    /\ mLastStageName' = stage
    /\ IF mLastStageName # stage /\ StartsAtNewStage
       THEN Start /\ timed' = {stage}
       ELSE /\ timed' = IF mTimerAutoKingdom THEN timed \cup {stage} ELSE timed
            /\ UNCHANGED <<ticks, mIsRunning>>
    /\ UNCHANGED <<now, options, functionCalls, stage>>

CallsAfterSkip == 0

\* CloudSkipHook: with the option on, every second call answers that the cloud
\* is skipped, and ends the run.
CloudSkip ==
    /\ IF ~mIsSkipCloudEnabled
       THEN functionCalls' = 0 /\ UNCHANGED <<ticks, mIsRunning>>
       ELSE IF functionCalls + 1 = 2
       THEN /\ functionCalls' = CallsAfterSkip
            /\ IF mTimerAutoKingdom THEN Stop ELSE UNCHANGED <<ticks, mIsRunning>>
       ELSE functionCalls' = functionCalls + 1 /\ UNCHANGED <<ticks, mIsRunning>>
    /\ UNCHANGED <<now, options, stage, mLastStageName, timed>>

\* The three switches of the menu.
ToggleAutoKingdom ==
    /\ mTimerAutoKingdom' = ~mTimerAutoKingdom
    /\ timed' = {}
    /\ UNCHANGED <<now, ticks, mIsRunning, mTimerSplit, mIsSkipCloudEnabled,
                   functionCalls, stage, mLastStageName>>

ToggleSplit ==
    /\ mTimerSplit' = ~mTimerSplit
    /\ UNCHANGED <<now, ticks, mIsRunning, mTimerAutoKingdom, mIsSkipCloudEnabled,
                   functionCalls, stage, mLastStageName, timed>>

ToggleSkipCloud ==
    /\ mIsSkipCloudEnabled' = ~mIsSkipCloudEnabled
    /\ UNCHANGED <<now, ticks, mIsRunning, mTimerAutoKingdom, mTimerSplit,
                   functionCalls, stage, mLastStageName, timed>>

\* The game: scenes end and begin, and time passes.
ChangeScene ==
    /\ stage' \in (Stages \cup {NoStage}) \ {stage}
    /\ UNCHANGED <<now, ticks, mIsRunning, options, functionCalls, mLastStageName, timed>>

TimePasses ==
    /\ now < MaxTick
    /\ now' = now + 1
    /\ UNCHANGED <<ticks, mIsRunning, options, functionCalls, stage, mLastStageName, timed>>

Next ==
    \/ StartTimer \/ StopTimer \/ ResetTimer
    \/ \E type \in HookTypes : Shine(type)
    \/ Update
    \/ CloudSkip
    \/ ToggleAutoKingdom \/ ToggleSplit \/ ToggleSkipCloud
    \/ ChangeScene
    \/ TimePasses

Spec == Init /\ [][Next]_vars

----
(* The ticks were read from the clock, and a cloud is skipped at the second *)
(* call, not later (functionCalls in PracticeHacks.cpp:235-252).            *)
TypeOK ==
    /\ now \in Nat
    /\ mStartTick \in 0..now /\ mEndTick \in 0..now /\ mShowSplitTick \in 0..now
    /\ mIsRunning \in BOOLEAN /\ mIsSkipCloudEnabled \in BOOLEAN
    /\ mTimerAutoKingdom \in BOOLEAN /\ mTimerSplit \in BOOLEAN
    /\ functionCalls \in AllSkipCalls
    /\ stage \in Stages \cup {NoStage}
    /\ mLastStageName \in Stages \cup {NoStage}
    /\ timed \subseteq Stages

(* The time on the screen is never negative, but for one case: a split from *)
(* before the current start is still shown, since neither start nor reset   *)
(* takes it down (Timer.cpp:35-55 and 86-89).                               *)
NegativeOnlyUnderOldSplit ==
    TimeShown < 0 => ShowsSplit /\ mShowSplitTick < mStartTick

(* While the timer stands still its result stays, whatever the hooks, the   *)
(* cloud skip and the buttons do, or is wiped to zero: stopping twice does  *)
(* not lengthen a run (Timer.cpp:41-55 and 66-74).                          *)
Result == mEndTick - mStartTick
ResultStays == [][~mIsRunning /\ ~mIsRunning' => Result' \in {Result, 0}]_vars

(* "Auto kingdom" times one stage at a time: since the timer was last       *)
(* started, or the option turned on, the menu has seen at most one stage,   *)
(* also when the timer was started by hand or runs over a change of scene   *)
(* (Menu.cpp:317-333).                                                      *)
OneStagePerRun == \A s, t \in timed : s = t
====
