---- MODULE PracticeProofs ----
(***************************************************************************)
(* What holds of the mod's effect on the game for any number of scenes,    *)
(* any options and nerves, and any number of actions in a frame.           *)
(*                                                                         *)
(* The inductive invariant adds to the properties that noclip never moved  *)
(* a player of a scene still to come, that noclip which moved this scene's *)
(* player last still holds it unless a position was loaded, and that a map *)
(* which was shown has left its target.                                    *)
(*                                                                         *)
(* And what holds of the saved configuration (the second part) for any     *)
(* number of runs, edits and failing calls, and any distance between saves.*)
(***************************************************************************)
EXTENDS Practice, ConfigFile, TLAPS

ScenesOK == scene \in Nat /\ movedIn \in Nat /\ movedIn <= scene

NoclipHolds == wasNoclipOn => puppet \/ movedIn # scene \/ loaded

ShownTarget == mapSeen => mLastMapTarget = scene

(* The parts of the invariant that need no arithmetic.                     *)
Explained ==
    /\ PuppetIsNoclips
    /\ NoclipHolds
    /\ UnpairedEndNeedsCause
    /\ ShownTarget
    /\ OneKiller
    /\ CrashNeedsAbsentPlayer

IInv == ScenesOK /\ Explained

----
(* What the hooks answer.  NoDamageHook passes a call on only while the    *)
(* option is off, and no other hook asks for that option.                  *)

LEMMA NoDamageAnswer ==
    ASSUME NEW options, Answer("NoDamage", options) = "orig"
    PROVE  NoDamage \notin options
  <1>1. Rules["NoDamage"] = <<[option |-> NoDamage, answer |-> "skipped"]>>
    <2>1. "NoDamage" \in DOMAIN PracticeHooks /\ "NoDamage" \notin DOMAIN OwnHooks
      BY DEF PracticeHooks, OwnHooks
    <2>2. Rules["NoDamage"] = PracticeHooks["NoDamage"]
      BY <2>1 DEF Rules
    <2> QED
      BY <2>2 DEF PracticeHooks, Rule, NoDamage
  <1>2. SUFFICES ASSUME NoDamage \in options
                 PROVE  FALSE
    OBVIOUS
  <1>3. Hits("NoDamage", options) = {1}
    BY <1>1, <1>2 DEF Hits
  <1>4. (CHOOSE i \in {1} : \A j \in {1} : i <= j) = 1
    OBVIOUS
  <1>5. Answer("NoDamage", options) = "skipped"
    BY <1>1, <1>3, <1>4 DEF Answer
  <1> QED
    BY <1>5

(* The answers of one option, and of two.                                  *)
Asks(rules) == \A i \in DOMAIN rules : rules[i].option # NoDamage

LEMMA OneAsks ==
    ASSUME NEW option, NEW answer, option # NoDamage
    PROVE  Asks(Rule(option, answer))
  BY DEF Asks, Rule

LEMMA TwoAsk ==
    ASSUME NEW option, NEW answer, option # NoDamage,
           NEW option2, NEW answer2, option2 # NoDamage
    PROVE  Asks(Rule(option, answer) \o Rule(option2, answer2))
  BY DEF Asks, Rule

LEMMA OthersDoNotAsk ==
    ASSUME NEW hook \in DOMAIN Rules \ {"NoDamage"}
    PROVE  Asks(Rules[hook])
  <1>1. CASE hook \in DOMAIN OwnHooks
    <2>1. Rules[hook] = OwnHooks[hook]
      BY <1>1 DEF Rules
    <2>2. \/ hook = "isEnableCheckpointWarp"
          \/ \E answer : \E option \in {"mIsGrayShineRefreshEnabled", "mIsMoonRefreshEnabled",
                                         "mIsBgmDisabled", "mDisableCheckpointTouching"} :
                OwnHooks[hook] = Rule(option, answer)
      BY <1>1 DEF OwnHooks
    <2>3. CASE hook = "isEnableCheckpointWarp"
      BY <2>1, <2>3, TwoAsk DEF OwnHooks, NoDamage
    <2> QED
      BY <2>1, <2>2, <2>3, OneAsks DEF NoDamage
  <1>2. CASE hook \notin DOMAIN OwnHooks
    <2>1. Rules[hook] = PracticeHooks[hook] /\ hook \in DOMAIN PracticeHooks
      BY <1>2 DEF Rules
    <2>2. hook \in {"warpText", "shardRefresh", "RefreshPurps", "DoorRefresh", "SeedGrowTime",
                   "SeedUsed", "kingdomEnter", "DisableMoonLock", "AllCheckpoints", "ToadRefresh"}
      BY <2>1 DEF PracticeHooks
    <2>3. CASE hook = "warpText"
      BY <2>1, <2>3, OneAsks DEF PracticeHooks, NoDamage
    <2>4. CASE hook = "shardRefresh"
      BY <2>1, <2>4, OneAsks DEF PracticeHooks, NoDamage
    <2>5. CASE hook = "RefreshPurps"
      BY <2>1, <2>5, OneAsks DEF PracticeHooks, NoDamage
    <2>6. CASE hook = "DoorRefresh"
      BY <2>1, <2>6, OneAsks DEF PracticeHooks, NoDamage
    <2>7. CASE hook = "SeedUsed"
      BY <2>1, <2>7, OneAsks DEF PracticeHooks, NoDamage
    <2>8. CASE hook = "kingdomEnter"
      BY <2>1, <2>8, OneAsks DEF PracticeHooks, NoDamage
    <2>9. CASE hook = "DisableMoonLock"
      BY <2>1, <2>9, OneAsks DEF PracticeHooks, NoDamage
    <2>10. CASE hook = "AllCheckpoints"
      BY <2>1, <2>10, OneAsks DEF PracticeHooks, NoDamage
    <2>11. CASE hook = "ToadRefresh"
      BY <2>1, <2>11, OneAsks DEF PracticeHooks, NoDamage
    <2>12. CASE hook = "SeedGrowTime"
      BY <2>1, <2>12, TwoAsk DEF PracticeHooks, NoDamage
    <2> QED
      BY <2>1, <2>2, <2>3, <2>4, <2>5, <2>6, <2>7, <2>8, <2>9, <2>10, <2>11, <2>12
  <1> QED
    BY <1>1, <1>2

LEMMA OthersAnswerTheSame ==
    ASSUME NEW options, NEW hook \in DOMAIN Rules \ {"NoDamage"}
    PROVE  Answer(hook, options \ {NoDamage}) = Answer(hook, options)
  <1>1. Hits(hook, options \ {NoDamage}) = Hits(hook, options)
    BY OthersDoNotAsk DEF Hits, Asks
  <1> DEFINE Said(hits) ==
        IF hits = {} THEN "orig"
        ELSE Rules[hook][CHOOSE i \in hits : \A j \in hits : i <= j].answer
  <1>2. /\ Answer(hook, options \ {NoDamage}) = Said(Hits(hook, options \ {NoDamage}))
        /\ Answer(hook, options) = Said(Hits(hook, options))
    BY Zenon DEF Answer
  <1> HIDE DEF Said
  <1> QED
    BY Zenon, <1>1, <1>2

----
(* Scenes are counted up, and noclip moves players of the present one.     *)

LEMMA NewScene ==
    ASSUME ScenesOK, scene' = scene + 1, movedIn' = movedIn
    PROVE  ScenesOK' /\ movedIn' # scene'
  BY DEF ScenesOK

LEMMA SameScene ==
    ASSUME ScenesOK, scene' = scene, movedIn' \in {movedIn, scene}
    PROVE  ScenesOK'
  BY DEF ScenesOK

LEMMA ScenesKept ==
    ASSUME ScenesOK, [Next]_vars
    PROVE  ScenesOK'
  <1> USE DEF sceneVars, noclipVars, targets
  <1>1. CASE MakeScene
    BY Zenon, <1>1, NewScene DEF MakeScene
  <1>2. CASE EndScene \/ RunScene \/ ShowMapTarget \/ Damage \/ BeginFrame \/ EndFrame
    BY Zenon, <1>2, SameScene
       DEF EndScene, RunScene, ShowMapTarget, Damage, BeginFrame, EndFrame
  <1>3. CASE Movement
    BY Zenon, <1>3, SameScene DEF Movement
  <1>4. CASE callAction
    BY Zenon, <1>4, SameScene
       DEF callAction, ActionOfButton, ActionOfBind, Kill, WarpCheckpoint, KillMario, Crash,
           Ignore, Toggle, SavePosition, LoadPosition, savePosition, loadPosition
  <1>5. CASE PressButton \/ SwitchOption \/ DamageButton
    BY Zenon, <1>5, SameScene
       DEF PressButton, SwitchOption, Kill, Crash, Ignore, Toggle, savePosition, loadPosition,
           DamageButton, ClearNoDamage, applyDamagePlayer, RestoreNoDamage
  <1>6. CASE UNCHANGED vars
    BY Zenon, <1>6, SameScene DEF vars
  <1> QED
    BY Zenon, <1>1, <1>2, <1>3, <1>4, <1>5, <1>6 DEF Next

----
(* One step of each action keeps the rest.                                 *)

LEMMA GameKeeps ==
    ASSUME ScenesOK, Explained,
           MakeScene \/ EndScene \/ RunScene \/ ShowMapTarget \/ Damage \/ Movement
    PROVE  Explained'
  <1> USE DEF Explained, PuppetIsNoclips, NoclipHolds, UnpairedEndNeedsCause,
              ShownTarget, OneKiller, CrashNeedsAbsentPlayer, GameTurn, Quiet,
              sceneVars, noclipVars, targets, Killers
  <1>1. CASE MakeScene
    BY Zenon, <1>1, NewScene DEF MakeScene
  <1>2. CASE EndScene
    BY Zenon, <1>2 DEF EndScene
  <1>3. CASE RunScene
    BY Zenon, <1>3 DEF RunScene
  <1>4. CASE ShowMapTarget
    BY Zenon, <1>4 DEF ShowMapTarget, LatestTarget
  <1>5. CASE Damage
    BY Zenon, <1>5 DEF Damage, Hurts
  <1>6. CASE Movement
    BY Zenon, <1>6 DEF Movement, EndsNoclip
  <1> QED
    BY <1>1, <1>2, <1>3, <1>4, <1>5, <1>6

(* What the mod's actions do to the game, one lemma for each effect.       *)

LEMMA IgnoreKeeps ==
    ASSUME Explained, ~crashed, menuOpen' = menuOpen,
           Ignore
    PROVE  Explained'
  BY Zenon DEF Explained, PuppetIsNoclips, NoclipHolds, UnpairedEndNeedsCause, ShownTarget,
     OneKiller, CrashNeedsAbsentPlayer, Killers, Quiet, sceneVars, noclipVars, targets,
     Ignore

LEMMA KillKeeps ==
    ASSUME Explained, ~crashed, menuOpen' = menuOpen,
           NEW killer \in Killers, alive, Kill(killer)
    PROVE  Explained'
  BY Zenon DEF Explained, PuppetIsNoclips, NoclipHolds, UnpairedEndNeedsCause, ShownTarget,
     OneKiller, CrashNeedsAbsentPlayer, Killers, Quiet, sceneVars, noclipVars, targets,
     Kill

LEMMA ToggleKeeps ==
    ASSUME Explained, ~crashed, menuOpen' = menuOpen,
           NEW option, Toggle(option)
    PROVE  Explained'
  BY Zenon DEF Explained, PuppetIsNoclips, NoclipHolds, UnpairedEndNeedsCause, ShownTarget,
     OneKiller, CrashNeedsAbsentPlayer, Killers, Quiet, sceneVars, noclipVars, targets,
     Toggle

LEMMA CrashKeeps ==
    ASSUME Explained, ~crashed, menuOpen' = menuOpen,
           NEW cause \in {"save button", "load button", "KillMario"}, Crash(cause),
           alive, player = "none", cause = "KillMario" \/ menuOpen,
           cause = "load button" => savedIn # NoScene
    PROVE  Explained'
  BY Zenon DEF Explained, PuppetIsNoclips, NoclipHolds, UnpairedEndNeedsCause, ShownTarget,
     OneKiller, CrashNeedsAbsentPlayer, Killers, Quiet, sceneVars, noclipVars, targets,
     Crash

LEMMA SaveKeeps ==
    ASSUME Explained, ~crashed, menuOpen' = menuOpen,
           Quiet,
           UNCHANGED <<sceneVars, noclipVars, mLastMapTarget, mapSeen>>
    PROVE  Explained'
  BY Zenon DEF Explained, PuppetIsNoclips, NoclipHolds, UnpairedEndNeedsCause, ShownTarget,
     OneKiller, CrashNeedsAbsentPlayer, Killers, Quiet, sceneVars, noclipVars, targets

LEMMA LoadKeeps ==
    ASSUME Explained, ~crashed, menuOpen' = menuOpen,
           event' = "load", crashed' = FALSE,
           puppet' = (puppet /\ player = "captured"),
           loaded' = (loaded \/ player = "mario"),
           player \in {"mario", "captured"},
           UNCHANGED <<sceneVars, wasNoclipOn, movedIn, targets>>
    PROVE  Explained'
  BY Zenon DEF Explained, PuppetIsNoclips, NoclipHolds, UnpairedEndNeedsCause, ShownTarget,
     OneKiller, CrashNeedsAbsentPlayer, Killers, Quiet, sceneVars, noclipVars, targets

LEMMA WarpKeeps ==
    ASSUME Explained, ~crashed, menuOpen' = menuOpen,
           event' = "warp", crashed' = FALSE,
           UNCHANGED <<scene, alive, player, killedBy, noclipVars, targets>>
    PROVE  Explained'
  BY Zenon DEF Explained, PuppetIsNoclips, NoclipHolds, UnpairedEndNeedsCause, ShownTarget,
     OneKiller, CrashNeedsAbsentPlayer, Killers, Quiet, sceneVars, noclipVars, targets

LEMMA HurtKeeps ==
    ASSUME Explained, DamageButton
    PROVE  Explained'
  <1>1. event' \in {"hurt", "nothing"} /\ crashed' = FALSE
    BY Zenon DEF DamageButton, ClearNoDamage, applyDamagePlayer, RestoreNoDamage, Hurts, Quiet
  <1>2. UNCHANGED <<sceneVars, noclipVars, targets>>
    BY Zenon DEF DamageButton, ClearNoDamage, applyDamagePlayer, RestoreNoDamage
  <1> QED
    BY Zenon, <1>1, <1>2 DEF Explained, PuppetIsNoclips, NoclipHolds, UnpairedEndNeedsCause,
       ShownTarget, OneKiller, CrashNeedsAbsentPlayer, sceneVars, noclipVars, targets

LEMMA ModKeeps ==
    ASSUME Explained, callAction \/ PressButton \/ SwitchOption
    PROVE  Explained'
  <1>1. ~crashed /\ menuOpen' = menuOpen
    BY Zenon DEF callAction, PressButton, SwitchOption, Move
  <1>2. Ignore => Explained'
    BY Zenon, <1>1, IgnoreKeeps
  <1>3. ASSUME savePosition, alive, player = "none" => menuOpen
        PROVE  Explained'
    <2>1. CASE player = "none" /\ Crash("save button")
      BY Zenon, <1>1, <1>3, <2>1, CrashKeeps
    <2>2. CASE Quiet /\ UNCHANGED <<sceneVars, noclipVars, mLastMapTarget, mapSeen>>
      BY Zenon, <1>1, <2>2, SaveKeeps
    <2> QED
      BY Zenon, <1>2, <1>3, <2>1, <2>2 DEF savePosition
  <1>4. ASSUME loadPosition, alive, player = "none" => menuOpen
        PROVE  Explained'
    <2>1. CASE savedIn # NoScene /\ player = "none" /\ Crash("load button")
      BY Zenon, <1>1, <1>4, <2>1, CrashKeeps
    <2>2. CASE ~Ignore /\ ~(savedIn # NoScene /\ player = "none" /\ Crash("load button"))
      BY Zenon, <1>1, <1>4, <2>2, LoadKeeps DEF loadPosition
    <2> QED
      BY Zenon, <1>2, <2>1, <2>2
  <1>5. WarpCheckpoint => Explained'
    BY Zenon, <1>1, <1>2, WarpKeeps DEF WarpCheckpoint
  <1>6. alive /\ KillMario => Explained'
    BY Zenon, <1>1, <1>2, CrashKeeps DEF KillMario
  <1>7. \A killer \in Killers : alive /\ Kill(killer) => Explained'
    BY Zenon, <1>1, KillKeeps
  <1>8. \A option : Toggle(option) => Explained'
    BY Zenon, <1>1, ToggleKeeps
  <1>9. CASE callAction
    BY Zenon, <1>2, <1>3, <1>4, <1>5, <1>6, <1>7, <1>8, <1>9
       DEF callAction, ActionOfButton, ActionOfBind, Obeys, SavePosition, LoadPosition, Killers
  <1>10. CASE PressButton
    BY Zenon, <1>1, <1>2, <1>3, <1>4, <1>7, <1>10 DEF PressButton, Killers
  <1>11. CASE SwitchOption
    BY Zenon, <1>8, <1>11 DEF SwitchOption
  <1> QED
    BY Zenon, <1>9, <1>10, <1>11

LEMMA FrameKeeps ==
    ASSUME Explained, BeginFrame \/ EndFrame \/ UNCHANGED vars
    PROVE  Explained'
  <1> USE DEF Explained, PuppetIsNoclips, NoclipHolds, UnpairedEndNeedsCause, ShownTarget,
              OneKiller, CrashNeedsAbsentPlayer, Quiet, sceneVars, noclipVars, targets
  <1>1. CASE BeginFrame
    BY <1>1 DEF BeginFrame
  <1>2. CASE EndFrame
    BY <1>2 DEF EndFrame
  <1>3. CASE UNCHANGED vars
    BY <1>3 DEF vars
  <1> QED
    BY <1>1, <1>2, <1>3

LEMMA InitHolds == Init => IInv
  <1>1. Init => ScenesOK
    BY DEF Init, ScenesOK, NoScene
  <1>2. Init => Explained
    BY Zenon DEF Init, Explained, PuppetIsNoclips, NoclipHolds, UnpairedEndNeedsCause,
       ShownTarget, OneKiller, CrashNeedsAbsentPlayer
  <1> QED
    BY <1>1, <1>2 DEF IInv

LEMMA StepHolds == IInv /\ [Next]_vars => IInv'
  BY Zenon, ScenesKept, GameKeeps, ModKeeps, HurtKeeps, FrameKeeps DEF IInv, Next

(* The inductive invariant holds in every reachable state.                 *)
THEOREM PracticeInvariance == Spec => []IInv
  <1>1. Init => IInv
    BY InitHolds
  <1>2. IInv /\ [Next]_vars => IInv'
    BY StepHolds
  <1> QED
    BY <1>1, <1>2, PTL DEF Spec

----
(* Only a player that noclip moved last is a puppet (the hook of the       *)
(* player's movement), for any number of scenes.                           *)
THEOREM PuppetsAreNoclips == Spec => []PuppetIsNoclips
  <1>1. IInv => PuppetIsNoclips
    BY DEF IInv, Explained
  <1> QED
    BY PracticeInvariance, <1>1, PTL

(* A demo is ended that was not begun only after a change of scene or a    *)
(* loaded position.                                                        *)
THEOREM UnpairedEndsExplained == Spec => []UnpairedEndNeedsCause
  <1>1. IInv => UnpairedEndNeedsCause
    BY DEF IInv, Explained
  <1> QED
    BY PracticeInvariance, <1>1, PTL

(* A warp uses another scene's target only while this scene's map has not  *)
(* been shown.                                                             *)
THEOREM WarpTargets == Spec => []StaleTargetNeedsUnseenMap
  <1>1. IInv => StaleTargetNeedsUnseenMap
    BY DEF IInv, Explained, ShownTarget, StaleTargetNeedsUnseenMap
  <1> QED
    BY PracticeInvariance, <1>1, PTL

(* A scene is killed once, however many actions fall into one frame.       *)
THEOREM KilledOnce == Spec => []OneKiller
  <1>1. IInv => OneKiller
    BY DEF IInv, Explained
  <1> QED
    BY PracticeInvariance, <1>1, PTL

(* A null player is dereferenced only by the two buttons and KillMario.    *)
THEOREM CrashesExplained == Spec => []CrashNeedsAbsentPlayer
  <1>1. IInv => CrashNeedsAbsentPlayer
    BY DEF IInv, Explained
  <1> QED
    BY PracticeInvariance, <1>1, PTL

(* While the damage button is at work, one option may be cleared that the  *)
(* player has chosen, and the button knows it; it works within a frame.    *)
OptionsInv ==
    /\ moves = 0 => damaging = "none"
    /\ damaging = "none" => on = chosen
    /\ damaging # "none" => on = chosen \ {NoDamage} /\ oldNoDmg = (NoDamage \in chosen)
    /\ event = "hurt" => NoDamage \notin chosen \/ damaging = "applied"

LEMMA HurtsOnlyUnwilling == ASSUME Hurts PROVE event' = "hurt" => NoDamage \notin on
  BY NoDamageAnswer DEF Hurts

(* The steps that leave the options and the button alone.                  *)
LEMMA OptionsStay ==
    ASSUME OptionsInv, UNCHANGED <<optionVars, buttonVars>>,
           moves' = moves \/ damaging = "none",
           event' = "hurt" => NoDamage \notin chosen
    PROVE  OptionsInv'
  BY Zenon DEF OptionsInv, optionVars, buttonVars

LEMMA GameLeavesOptions ==
    ASSUME OptionsInv,
           MakeScene \/ EndScene \/ RunScene \/ ShowMapTarget \/ Damage \/ Movement
           \/ BeginFrame \/ EndFrame
    PROVE  OptionsInv'
  <1> USE DEF GameTurn, Quiet
  <1>1. UNCHANGED <<optionVars, buttonVars>> /\ (moves' = moves \/ damaging = "none")
    BY Zenon DEF OptionsInv, MakeScene, EndScene, RunScene, ShowMapTarget, Damage, Movement,
       BeginFrame, EndFrame
  <1>2. CASE Damage
    <2>1. on = chosen
      BY Zenon, <1>2 DEF Damage, OptionsInv
    <2> QED
      BY Zenon, <1>1, <1>2, <2>1, OptionsStay, HurtsOnlyUnwilling DEF Damage
  <1>3. CASE ~Damage
    <2>1. event' # "hurt"
      BY <1>3 DEF MakeScene, EndScene, RunScene, ShowMapTarget, Movement, BeginFrame, EndFrame
    <2> QED
      BY Zenon, <1>1, <2>1, OptionsStay
  <1> QED
    BY Zenon, <1>2, <1>3

LEMMA MovesLeaveOptions ==
    ASSUME OptionsInv, callAction \/ PressButton \/ SwitchOption
    PROVE  OptionsInv'
  <1>1. damaging = "none" /\ UNCHANGED buttonVars /\ on = chosen
    BY Zenon DEF callAction, PressButton, SwitchOption, Move, OptionsInv
  <1>2. event' # "hurt"
    BY DEF callAction, PressButton, SwitchOption, ActionOfButton, ActionOfBind, Kill, Toggle,
           Crash, Ignore, Quiet, WarpCheckpoint, KillMario, SavePosition, LoadPosition,
           savePosition, loadPosition
  <1>3. UNCHANGED optionVars \/ \E option : Toggle(option)
    BY Zenon
       DEF callAction, PressButton, SwitchOption, ActionOfButton, ActionOfBind, Kill, Crash,
           Ignore, WarpCheckpoint, KillMario, SavePosition, LoadPosition, savePosition,
           loadPosition
  <1>4. on' = chosen'
    BY Zenon, <1>1, <1>3 DEF optionVars, Toggle
  <1> QED
    BY Zenon, <1>1, <1>2, <1>4 DEF OptionsInv, buttonVars

LEMMA ButtonPutsBack ==
    ASSUME OptionsInv, moves \in Nat, DamageButton
    PROVE  OptionsInv'
  <1> USE DEF OptionsInv, Quiet, optionVars
  <1>1. CASE ClearNoDamage
    BY <1>1 DEF ClearNoDamage
  <1>2. CASE applyDamagePlayer
    BY Zenon, <1>2 DEF applyDamagePlayer
  <1>3. CASE RestoreNoDamage
    <2>1. chosen' = chosen /\ damaging' = "none" /\ event' = "nothing"
      BY Zenon, <1>3 DEF RestoreNoDamage
    <2>2. on = chosen \ {NoDamage} /\ oldNoDmg = (NoDamage \in chosen)
      BY <1>3 DEF RestoreNoDamage
    <2>3. on' = chosen
      BY <1>3, <2>2 DEF RestoreNoDamage, OptionsPutBack
    <2> QED
      BY <2>1, <2>3
  <1> QED
    BY Zenon, <1>1, <1>2, <1>3 DEF DamageButton

LEMMA OptionsInvHolds ==
    OptionsInv => OptionsHold
  <1> SUFFICES ASSUME OptionsInv
               PROVE  OptionsHold
    OBVIOUS
  <1>1. on \in {chosen, chosen \ {NoDamage}}
    BY Zenon DEF OptionsInv
  <1>2. ASSUME NEW hook \in DOMAIN Rules \ {"NoDamage"}
        PROVE  Answer(hook, on) = Answer(hook, chosen)
    BY Zenon, <1>1, OthersAnswerTheSame
  <1>3. EnableSave(on) = EnableSave(chosen)
    BY <1>1 DEF EnableSave, NoDamage
  <1> QED
    BY Zenon, <1>2, <1>3 DEF OptionsInv, OptionsHold

----
(* Types.                                                                  *)

NumbersOK ==
    /\ moves \in 0 .. MaxMoves /\ scene \in 0 .. LastScene
    /\ savedIn \in 0 .. LastScene /\ mLastMapTarget \in 0 .. LastScene
    /\ movedIn \in 0 .. LastScene

FlagsOK ==
    /\ menuOpen \in BOOLEAN /\ alive \in BOOLEAN /\ puppet \in BOOLEAN
    /\ wasNoclipOn \in BOOLEAN /\ mapSeen \in BOOLEAN /\ loaded \in BOOLEAN
    /\ crashed \in BOOLEAN /\ oldNoDmg \in BOOLEAN

OthersOK ==
    /\ on \subseteq Options /\ chosen \subseteq Options
    /\ damaging \in {"none", "cleared", "applied"} /\ nerve \in Nerves /\ player \in Players
    /\ killedBy \subseteq Killers /\ event \in Events

LEMMA CountersStay ==
    ASSUME NumbersOK,
           \/ moves' = moves \/ moves' = 0 \/ moves' \in 1 .. MaxMoves
           \/ moves > 0 /\ moves' = moves - 1,
           scene' = scene \/ (scene < LastScene /\ scene' = scene + 1),
           savedIn' \in {savedIn, scene}, mLastMapTarget' \in {mLastMapTarget, scene},
           movedIn' \in {movedIn, scene}
    PROVE  NumbersOK'
  BY PracticeAssumption DEF NumbersOK

LEMMA NumbersKept ==
    ASSUME NumbersOK, OptionsInv, [Next]_vars
    PROVE  NumbersOK'
  <1> USE Zenon, CountersStay DEF sceneVars, noclipVars, targets, GameTurn, Move
  <1>1. CASE MakeScene
    BY <1>1 DEF MakeScene
  <1>2. CASE EndScene \/ RunScene \/ ShowMapTarget \/ Damage \/ Movement
    BY <1>2 DEF EndScene, RunScene, ShowMapTarget, LatestTarget, Damage, Movement
  <1>3. CASE BeginFrame \/ EndFrame
    BY <1>3 DEF BeginFrame, EndFrame
  <1>4. CASE callAction
    BY <1>4
       DEF callAction, ActionOfButton, ActionOfBind, Kill, WarpCheckpoint, KillMario, Crash,
           Ignore, Toggle, SavePosition, LoadPosition, savePosition, loadPosition
  <1>5. CASE PressButton \/ SwitchOption
    BY <1>5
       DEF PressButton, SwitchOption, Kill, Crash, Ignore, Toggle, savePosition, loadPosition
  <1>6. CASE ClearNoDamage \/ applyDamagePlayer
    BY <1>6 DEF ClearNoDamage, applyDamagePlayer
  <1>7. CASE RestoreNoDamage
    <2>1. moves > 0
      <3>1. moves # 0
        BY <1>7 DEF RestoreNoDamage, OptionsInv
      <3> QED
        BY SMT, <3>1, PracticeAssumption DEF NumbersOK
    <2> QED
      BY <1>7, <2>1 DEF RestoreNoDamage
  <1>8. CASE UNCHANGED vars
    BY <1>8 DEF vars
  <1> QED
    BY <1>1, <1>2, <1>3, <1>4, <1>5, <1>6, <1>7, <1>8 DEF Next, DamageButton

LEMMA FlagsKept ==
    ASSUME FlagsOK, [Next]_vars
    PROVE  FlagsOK'
  <1> USE DEF FlagsOK, optionVars, buttonVars, sceneVars, noclipVars, targets, GameTurn, Move, Quiet
  <1>1. CASE MakeScene
    BY Zenon, <1>1 DEF MakeScene
  <1>2. CASE EndScene
    BY Zenon, <1>2 DEF EndScene
  <1>3. CASE RunScene
    BY Zenon, <1>3 DEF RunScene
  <1>4. CASE ShowMapTarget \/ Damage
    BY Zenon, <1>4 DEF ShowMapTarget, LatestTarget, Damage
  <1>5. CASE Movement
    <2>1. puppet' \in BOOLEAN /\ wasNoclipOn' \in BOOLEAN
      <3>1. wasNoclipOn' = (Noclip \in on)
        BY Zenon, <1>5 DEF Movement
      <3>2. puppet' = (Noclip \in on \/ (puppet /\ ~EndsNoclip))
        BY Zenon, <1>5 DEF Movement
      <3>3. (Noclip \in on) \in BOOLEAN
        OBVIOUS
      <3>4. (Noclip \in on \/ (puppet /\ ~EndsNoclip)) \in BOOLEAN
        OBVIOUS
      <3> QED
        BY Zenon, <3>1, <3>2, <3>3, <3>4
    <2>2. loaded' \in {loaded, FALSE}
      BY Zenon, <1>5 DEF Movement
    <2>3. UNCHANGED <<menuOpen, alive, mapSeen, crashed, oldNoDmg>>
      BY Zenon, <1>5 DEF Movement
    <2> QED
      BY Zenon, <2>1, <2>2, <2>3
  <1>6. CASE BeginFrame \/ EndFrame
    BY Zenon, <1>6 DEF BeginFrame, EndFrame
  <1>7. ASSUME NEW killer \in Killers, Kill(killer), UNCHANGED <<menuOpen, buttonVars>>
        PROVE  FlagsOK'
    BY Zenon, <1>7 DEF Kill
  <1>8. ASSUME NEW option \in Options, Toggle(option), UNCHANGED <<menuOpen, buttonVars>>
        PROVE  FlagsOK'
    BY Zenon, <1>8 DEF Toggle
  <1>9. CASE (savePosition \/ Ignore) /\ UNCHANGED <<menuOpen, buttonVars>>
    BY Zenon, <1>9 DEF savePosition, Crash, Ignore
  <1>10. CASE loadPosition /\ UNCHANGED <<menuOpen, buttonVars>>
    BY Zenon, <1>10 DEF loadPosition, Crash, Ignore
  <1>11. CASE (WarpCheckpoint \/ KillMario) /\ UNCHANGED <<menuOpen, buttonVars>>
    BY Zenon, <1>11, PracticeAssumption DEF WarpCheckpoint, KillMario, Crash, Ignore
  <1>12. CASE callAction
    BY Zenon, <1>7, <1>8, <1>9, <1>10, <1>11, <1>12, PracticeAssumption
       DEF callAction, ActionOfButton, ActionOfBind, SavePosition, LoadPosition, Killers
  <1>13. CASE PressButton \/ SwitchOption
    BY Zenon, <1>7, <1>8, <1>9, <1>10, <1>11, <1>13 DEF PressButton, SwitchOption, Killers
  <1>14. CASE UNCHANGED vars
    BY Zenon, <1>14 DEF vars
  <1>15. CASE DamageButton
    <2>1. oldNoDmg' \in {oldNoDmg, FALSE, (NoDamage \in on)}
      BY Zenon, <1>15 DEF DamageButton, ClearNoDamage, applyDamagePlayer, RestoreNoDamage
    <2>2. UNCHANGED <<menuOpen, alive, puppet, wasNoclipOn, mapSeen, loaded>>
          /\ crashed' \in {crashed, FALSE}
      BY Zenon, <1>15
         DEF DamageButton, ClearNoDamage, applyDamagePlayer, RestoreNoDamage, Hurts
    <2>3. (NoDamage \in on) \in BOOLEAN
      OBVIOUS
    <2> QED
      BY Zenon, <2>1, <2>2, <2>3
  <1> QED
    BY Zenon, <1>1, <1>2, <1>3, <1>4, <1>5, <1>6, <1>12, <1>13, <1>14, <1>15 DEF Next

LEMMA OthersKept ==
    ASSUME OthersOK, [Next]_vars
    PROVE  OthersOK'
  <1> USE DEF OthersOK, optionVars, buttonVars, sceneVars, noclipVars, targets, GameTurn, Move, Quiet, Players, Events
  <1>1. CASE MakeScene
    <2>1. UNCHANGED <<on, chosen, damaging>> /\ nerve' \in Nerves /\ killedBy' = {} /\ event' = "nothing"
      BY Zenon, <1>1 DEF MakeScene
    <2>2. player' \in {"none", "mario", "other"}
      BY Zenon, <1>1 DEF MakeScene
    <2> QED
      BY <2>1, <2>2
  <1>2. CASE EndScene
    <2>1. /\ UNCHANGED <<on, chosen, damaging, nerve, player>> /\ event' = "nothing"
          /\ killedBy' = killedBy \cup {"game"}
      BY Zenon, <1>2 DEF EndScene
    <2> QED
      BY <2>1 DEF Killers
  <1>3. CASE RunScene
    <2>1. /\ UNCHANGED <<on, chosen, damaging, killedBy>> /\ event' = "nothing"
          /\ nerve' \in Nerves \cup {nerve}
          /\ player' = player \/ player' \in {"mario", "captured"}
      BY Zenon, <1>3 DEF RunScene
    <2> QED
      BY <2>1
  <1>4. CASE ShowMapTarget \/ Damage
    BY Zenon, <1>4 DEF ShowMapTarget, LatestTarget, Damage, Hurts
  <1>5. CASE Movement
    BY Zenon, <1>5 DEF Movement
  <1>6. CASE BeginFrame \/ EndFrame
    BY Zenon, <1>6 DEF BeginFrame, EndFrame
  <1>7. ASSUME NEW killer \in Killers, Kill(killer), UNCHANGED <<menuOpen, buttonVars>>
        PROVE  OthersOK'
    BY Zenon, <1>7 DEF Kill
  <1>8. ASSUME NEW option \in Options, Toggle(option), UNCHANGED <<menuOpen, buttonVars>>
        PROVE  OthersOK'
    BY Zenon, <1>8 DEF Toggle, Switched
  <1>9. CASE (savePosition \/ Ignore) /\ UNCHANGED <<menuOpen, buttonVars>>
    BY Zenon, <1>9 DEF savePosition, Crash, Ignore
  <1>10. CASE loadPosition /\ UNCHANGED <<menuOpen, buttonVars>>
    BY Zenon, <1>10 DEF loadPosition, Crash, Ignore
  <1>11. CASE (WarpCheckpoint \/ KillMario) /\ UNCHANGED <<menuOpen, buttonVars>>
    BY Zenon, <1>11, PracticeAssumption DEF WarpCheckpoint, KillMario, Crash, Ignore
  <1>12. CASE callAction
    BY Zenon, <1>7, <1>8, <1>9, <1>10, <1>11, <1>12, PracticeAssumption
       DEF callAction, ActionOfButton, ActionOfBind, SavePosition, LoadPosition, Killers
  <1>13. CASE PressButton \/ SwitchOption
    BY Zenon, <1>7, <1>8, <1>9, <1>10, <1>11, <1>13 DEF PressButton, SwitchOption, Killers
  <1>14. CASE UNCHANGED vars
    BY Zenon, <1>14 DEF vars
  <1>15. CASE DamageButton
    <2>1. /\ UNCHANGED <<chosen, nerve, player, killedBy>>
          /\ damaging' \in {"none", "cleared", "applied"}
          /\ event' \in {"hurt", "nothing"}
      BY Zenon, <1>15
         DEF DamageButton, ClearNoDamage, applyDamagePlayer, RestoreNoDamage, Hurts
    <2>2. on' \in {on, on \ {NoDamage}, on \cup {NoDamage}}
      BY Zenon, <1>15
         DEF DamageButton, ClearNoDamage, applyDamagePlayer, RestoreNoDamage, OptionsPutBack
    <2>3. on' \subseteq Options
      BY Zenon, <2>2, PracticeAssumption
    <2> QED
      BY Zenon, <2>1, <2>3
  <1> QED
    BY Zenon, <1>1, <1>2, <1>3, <1>4, <1>5, <1>6, <1>12, <1>13, <1>14, <1>15 DEF Next

LEMMA OptionsStep ==
    ASSUME NumbersOK, OptionsInv, [Next]_vars
    PROVE  OptionsInv'
  <1>1. CASE UNCHANGED vars
    BY Zenon, <1>1 DEF vars, OptionsInv, optionVars, buttonVars
  <1>2. CASE DamageButton
    <2>1. moves \in Nat
      BY PracticeAssumption DEF NumbersOK
    <2> QED
      BY Zenon, <1>2, <2>1, ButtonPutsBack
  <1> QED
    BY Zenon, <1>1, <1>2, GameLeavesOptions, MovesLeaveOptions DEF Next

LEMMA OptionsInvariance == Spec => [](NumbersOK /\ OptionsInv)
  <1>1. Init => NumbersOK
    BY PracticeAssumption DEF Init, NumbersOK, NoScene
  <1>2. Init => OptionsInv
    BY DEF Init, OptionsInv
  <1> QED
    BY <1>1, <1>2, NumbersKept, OptionsStep, PTL DEF Spec

(* The options are the player's, and only the damage button hurts a player *)
(* who chose not to be, in any frame.                                      *)
THEOREM OptionsAreKept == Spec => []OptionsHold
  BY OptionsInvariance, OptionsInvHolds, PTL

(* The mod and the game keep their variables in their types.               *)
THEOREM PracticeTypeCorrect == Spec => []TypeOK
  <1>1. Init => FlagsOK /\ OthersOK
    BY Zenon DEF Init, FlagsOK, OthersOK, Players, Events
  <1>2. TypeOK <=> NumbersOK /\ FlagsOK /\ OthersOK
    BY Zenon DEF TypeOK, NumbersOK, FlagsOK, OthersOK
  <1> QED
    BY <1>1, <1>2, OptionsInvariance, FlagsKept, OthersKept, PTL DEF Spec

----
(* The second part: the file is followed through one save.  While nothing  *)
(* has gone wrong it is whole until DeleteFile, absent before CreateFile,  *)
(* and whole again, holding the configuration, before CloseFile.           *)

SavesConfig ==
    /\ pc # "idle" => attempt = config
    /\ pc = "CloseFile" => file = "whole" /\ stored = config
    /\ pc \in {"OpenFile", "WriteFile", "CloseFile"} => mounted

LeakIsTrouble == Leaked => trouble

OpenFileExists == handle \/ pc \in {"OpenFile", "WriteFile", "CloseFile"} => file # "absent"

FileFollowsSave ==
    ~trouble =>
        /\ pc \in {"idle", "isFileExist"} \/ ~mounted => (everSaved => file = "whole")
        /\ pc = "CreateFile" /\ mounted => file = "absent"
        /\ pc = "idle" /\ mounted /\ attempt # Never => file = "whole" /\ stored = attempt

ConfigInv ==
    /\ run \in Nat
    /\ SavesConfig
    /\ LeakIsTrouble
    /\ OpenFileExists
    /\ FileFollowsSave

----
(* Runs are counted.                                                       *)

LEMMA NextRun ==
    ASSUME run \in Nat
    PROVE  run + 1 \in Nat /\ run + 1 # run
  OBVIOUS

LEMMA RunKept ==
    ASSUME run \in Nat, [ConfigNext]_configVars
    PROVE  run' \in Nat
  <1>1. run' \in {run, run + 1}
    BY Zenon DEF ConfigNext, configVars, Edit, Frame, Restart, writeFileToPath, isFileExist, DeleteFile,
       CreateFile, OpenFile, WriteFile, CloseFile, Goes
  <1> QED
    BY <1>1, NextRun

----
(* One step of each action.                                                *)

LEMMA ConfigInitHolds == ConfigInit => ConfigInv
  <1>1. ConfigInit => run \in Nat
    BY DEF ConfigInit
  <1>2. ConfigInit => SavesConfig /\ LeakIsTrouble /\ OpenFileExists /\ FileFollowsSave
    BY Zenon DEF ConfigInit, SavesConfig, LeakIsTrouble, OpenFileExists, FileFollowsSave, Leaked
  <1> QED
    BY <1>1, <1>2 DEF ConfigInv

(* A call that fails although it need not is trouble; none ends trouble.    *)
LEMMA FailsEffect ==
    ASSUME NEW could, Fails(could)
    PROVE  (trouble => trouble') /\ (~could \/ trouble')
  <1>1. CASE ~could /\ trouble' = trouble
    BY Zenon, <1>1
  <1>2. CASE trouble' = TRUE
    BY Zenon, <1>2
  <1> QED
    BY Zenon, <1>1, <1>2 DEF Fails

LEMMA DeleteEffect ==
    ASSUME DeleteFile
    PROVE  /\ pc = "DeleteFile" /\ pc' = "CreateFile"
           /\ UNCHANGED <<config, mounted, attempt, handle, stored, everSaved>>
           /\ trouble => trouble'
           /\ trouble' \/ (mounted /\ ~handle => file' = "absent")
           /\ file' = file \/ (mounted /\ ~handle)
  <1>1. CASE Succeeds(mounted /\ file # "absent" /\ ~handle) /\ file' = "absent"
    BY Zenon, <1>1 DEF DeleteFile, Goes, Succeeds
  <1>2. CASE Fails(mounted /\ file # "absent" /\ ~handle) /\ file' = file
    BY Zenon, <1>2, FailsEffect DEF DeleteFile, Goes
  <1> QED
    BY Zenon, <1>1, <1>2 DEF DeleteFile, AfterDelete

LEMMA CreateEffect ==
    ASSUME CreateFile
    PROVE  /\ pc = "CreateFile"
           /\ UNCHANGED <<config, mounted, attempt, handle, stored, everSaved>>
           /\ \/ pc' = "OpenFile" /\ mounted /\ file' = "zeroed"
              \/ pc' = "idle" /\ file' = file
           /\ trouble => trouble'
           /\ trouble' \/ (pc' = "idle" => ~mounted \/ file # "absent")
  <1>1. CASE Succeeds(mounted /\ file = "absent") /\ file' = "zeroed" /\ Goes("OpenFile")
    BY Zenon, <1>1 DEF CreateFile, Goes, Succeeds
  <1>2. CASE Fails(mounted /\ file = "absent") /\ file' = file /\ Goes("idle")
    BY Zenon, <1>2, FailsEffect DEF CreateFile, Goes
  <1> QED
    BY Zenon, <1>1, <1>2 DEF CreateFile

LEMMA ConfigStepHolds ==
    ASSUME ConfigInv, [ConfigNext]_configVars
    PROVE  SavesConfig' /\ LeakIsTrouble' /\ OpenFileExists' /\ FileFollowsSave'
  <1> USE DEF ConfigInv, SavesConfig, LeakIsTrouble, OpenFileExists, FileFollowsSave, Leaked, disk, history,
              Goes, Succeeds, Fails
  <1>1. CASE Edit
    BY Zenon, <1>1 DEF Edit
  <1>2. CASE Frame
    BY Zenon, <1>2 DEF Frame
  <1>3. CASE isFileExist
    <2>1. /\ pc = "isFileExist" /\ pc' \in {"DeleteFile", "CreateFile"}
          /\ UNCHANGED <<config, mounted, attempt, handle, file, stored, everSaved>>
      BY Zenon, <1>3 DEF isFileExist
    <2>2. \/ trouble'
          \/ trouble' = trouble /\ (pc' = "CreateFile" => ~mounted \/ file = "absent")
      BY Zenon, <1>3 DEF isFileExist
    <2> QED
      BY Zenon, <2>1, <2>2
  <1>4. CASE DeleteFile
    <2>1. /\ pc = "DeleteFile" /\ pc' = "CreateFile"
          /\ UNCHANGED <<config, mounted, attempt, handle, stored, everSaved>>
          /\ trouble => trouble'
          /\ trouble' \/ (mounted /\ ~handle => file' = "absent")
          /\ file' = file \/ (mounted /\ ~handle)
      BY Zenon, <1>4, DeleteEffect
    <2>2. SavesConfig'
      BY Zenon, <2>1
    <2>3. LeakIsTrouble'
      BY Zenon, <2>1
    <2>4. OpenFileExists'
      BY Zenon, <2>1
    <2>5. FileFollowsSave'
      BY Zenon, <2>1
    <2> QED
      BY Zenon, <2>2, <2>3, <2>4, <2>5
  <1>5. CASE CreateFile
    <2>1. /\ pc = "CreateFile"
          /\ UNCHANGED <<config, mounted, attempt, handle, stored, everSaved>>
          /\ \/ pc' = "OpenFile" /\ mounted /\ file' = "zeroed"
             \/ pc' = "idle" /\ file' = file
          /\ trouble => trouble'
          /\ trouble' \/ (pc' = "idle" => ~mounted \/ file # "absent")
      BY Zenon, <1>5, CreateEffect
    <2>2. SavesConfig'
      BY Zenon, <2>1
    <2>3. LeakIsTrouble'
      BY Zenon, <2>1
    <2>4. OpenFileExists'
      BY Zenon, <2>1
    <2>5. FileFollowsSave'
      BY Zenon, <2>1
    <2> QED
      BY Zenon, <2>2, <2>3, <2>4, <2>5
  <1>6. CASE OpenFile
    BY Zenon, <1>6 DEF OpenFile
  <1>7. CASE WriteFile
    BY Zenon, <1>7 DEF WriteFile, Written
  <1>8. CASE CloseFile
    BY Zenon, <1>8 DEF CloseFile, AfterClose
  <1>9. CASE Restart
    BY Zenon, <1>9 DEF Restart
  <1>10. CASE UNCHANGED configVars
    BY Zenon, <1>10 DEF configVars
  <1> QED
    BY Zenon, <1>1, <1>2, <1>3, <1>4, <1>5, <1>6, <1>7, <1>8, <1>9, <1>10
       DEF ConfigNext, writeFileToPath

(* The inductive invariant holds in every reachable state.                 *)
THEOREM ConfigInvariance == ConfigSpec => []ConfigInv
  <1>1. ConfigInv /\ [ConfigNext]_configVars => ConfigInv'
    BY Zenon, RunKept, ConfigStepHolds DEF ConfigInv
  <1> QED
    BY ConfigInitHolds, <1>1, PTL DEF ConfigSpec

----
(* Turning the console off between saves leaves a whole file, if no call   *)
(* failed and the power did not go during a save.                          *)
THEOREM IdleLossHarmless == ConfigSpec => []WholeUnlessTrouble
  <1>1. ConfigInv => WholeUnlessTrouble
    BY Zenon DEF ConfigInv, FileFollowsSave, WholeUnlessTrouble
  <1> QED
    BY ConfigInvariance, <1>1, PTL

(* Between saves the file holds what the run last set out to save.         *)
THEOREM FileHoldsLastAttempt == ConfigSpec => []HoldsLastAttempt
  <1>1. ConfigInv => HoldsLastAttempt
    BY Zenon DEF ConfigInv, FileFollowsSave, HoldsLastAttempt
  <1> QED
    BY ConfigInvariance, <1>1, PTL

(* A file left open by a failed write stays as it is until a restart.      *)
THEOREM LeakFreezes == ConfigSpec => LeakFreezesFile
  <1>1. ConfigInv /\ ConfigNext /\ Leaked => trouble /\ (run' = run => disk' = disk /\ Leaked')
    <2> SUFFICES ASSUME ConfigInv, ConfigNext, Leaked, run' = run
                 PROVE  trouble /\ disk' = disk /\ Leaked'
      BY Zenon DEF ConfigInv, LeakIsTrouble
    <2> USE DEF Leaked, disk, history, Goes
    <2>1. trouble
      BY Zenon DEF ConfigInv, LeakIsTrouble
    <2>2. ~Restart
      BY Zenon, NextRun DEF ConfigInv, Restart
    <2>3. CASE Edit \/ Frame
      BY Zenon, <2>1, <2>3 DEF Edit, Frame
    <2>4. CASE isFileExist
      BY Zenon, <2>1, <2>4 DEF isFileExist
    <2>5. CASE DeleteFile
      BY Zenon, <2>1, <2>5 DEF DeleteFile, Succeeds
    <2>6. CASE CreateFile \/ OpenFile
      <3>1. file # "absent"
        BY Zenon DEF ConfigInv, OpenFileExists
      <3> QED
        BY Zenon, <2>1, <2>6, <3>1 DEF CreateFile, OpenFile, Succeeds
    <2> QED
      BY Zenon, <2>2, <2>3, <2>4, <2>5, <2>6
         DEF ConfigNext, writeFileToPath, WriteFile, CloseFile
  <1>2. ConfigInv /\ [ConfigNext]_configVars
          => [Leaked => trouble /\ (run' = run => disk' = disk /\ Leaked')]_configVars
    BY <1>1
  <1> QED
    BY ConfigInvariance, <1>2, PTL DEF ConfigSpec, LeakFreezesFile
====
