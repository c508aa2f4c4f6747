---- MODULE Practice ----
(***************************************************************************)
(* What the practice mod does to the running game: Menu::callAction, the   *)
(* functors of the menu's buttons, savePosition and loadPosition           *)
(* (Menu.cpp), and the hooks that keep state between calls or act on the   *)
(* player: noclip, damage, the map target (PracticeHacks.cpp).             *)
(*                                                                         *)
(* The game and the mod take turns: while moves = 0 the game runs and may  *)
(* call hooks; BeginFrame hands over to drawDbgGui, which may perform a    *)
(* few actions (a wheel, several key binds, or a button) in one frame.     *)
(*                                                                         *)
(* Scenes are numbered in the order the game makes them.  A position or a  *)
(* map target is known by the scene it was taken from.                     *)
(***************************************************************************)
EXTENDS GameHooks

CONSTANTS
    Options,     (* the options the player switches                        *)
    Nerves,      (* the nerves of scenes that occur                        *)
    LastScene,   (* bound: scenes the game makes                           *)
    MaxMoves     (* bound: actions of the mod in one frame                 *)

NoScene == 0
Noclip == "mIsNoclipEnabled"
NoDamage == "mIsNoDamageEnabled"
WarpToCheckpoint == "WarpToCheckpoint"

ASSUME PracticeAssumption ==
    /\ LastScene \in Nat /\ MaxMoves \in Nat
    /\ WarpToCheckpoint \in Nerves
    /\ {Noclip, NoDamage} \subseteq Options

Players == {"none", "mario", "captured", "other"}
Killers == {"game", "KillScene", "setoutfit"}
Events == {"nothing", "load", "warp", "hurt", "end", "unpaired end",
           "save button", "load button", "KillMario"}

VARIABLES
    moves,            (* actions the mod may still perform in this frame   *)
    menuOpen,         (* mIsEnabled of the menu                            *)
    on,               (* the options that are on                           *)
    chosen,           (* history: the options the player has switched on   *)
    damaging,         (* how far the damage button is                      *)
    oldNoDmg,         (* what it found the option to be                    *)
    scene,            (* the sequence's scene                              *)
    alive,            (* its mIsAlive                                      *)
    nerve,            (* its nerve                                         *)
    player,           (* its player: absent, Hakoniwa, Hakoniwa that has   *)
                      (* captured something, or another kind of actor      *)
    puppet,           (* the player is between startDemoPuppetable and end *)
    wasNoclipOn,      (* static of NoclipHook::Callback                    *)
    savedIn,          (* the scene of mSavedPosition; NoScene: ~mIsSavedPos *)
    mLastMapTarget,   (* the scene it points into; NoScene: null           *)
    mapSeen,          (* history: this scene's map has set a target        *)
    movedIn,          (* history: the scene noclip last moved a player in  *)
    loaded,           (* history: a position was loaded since then         *)
    killedBy,         (* history: who has killed this scene                *)
    event,            (* what the last step did                            *)
    crashed           (* a null player was dereferenced                    *)

optionVars == <<on, chosen>>
buttonVars == <<damaging, oldNoDmg>>
sceneVars == <<scene, alive, nerve, player, killedBy>>
noclipVars == <<puppet, wasNoclipOn, movedIn, loaded>>
targets == <<savedIn, mLastMapTarget, mapSeen>>
vars == <<moves, menuOpen, optionVars, buttonVars, sceneVars, noclipVars, targets, event, crashed>>

TypeOK ==
    /\ moves \in 0 .. MaxMoves
    /\ menuOpen \in BOOLEAN
    /\ on \subseteq Options /\ chosen \subseteq Options
    /\ damaging \in {"none", "cleared", "applied"} /\ oldNoDmg \in BOOLEAN
    /\ scene \in 0 .. LastScene
    /\ alive \in BOOLEAN
    /\ nerve \in Nerves
    /\ player \in Players
    /\ puppet \in BOOLEAN
    /\ wasNoclipOn \in BOOLEAN
    /\ savedIn \in 0 .. LastScene
    /\ mLastMapTarget \in 0 .. LastScene
    /\ mapSeen \in BOOLEAN
    /\ movedIn \in 0 .. LastScene
    /\ loaded \in BOOLEAN
    /\ killedBy \subseteq Killers
    /\ event \in Events
    /\ crashed \in BOOLEAN

Init ==
    /\ moves = 0 /\ menuOpen = FALSE /\ on = {} /\ chosen = {}
    /\ damaging = "none" /\ oldNoDmg = FALSE
    /\ scene = NoScene /\ alive = FALSE /\ nerve \in Nerves /\ player = "none"
    /\ puppet = FALSE /\ wasNoclipOn = FALSE /\ movedIn = NoScene /\ loaded = FALSE
    /\ savedIn = NoScene /\ mLastMapTarget = NoScene /\ mapSeen = FALSE
    /\ killedBy = {} /\ event = "nothing" /\ crashed = FALSE

Quiet == event' = "nothing" /\ crashed' = FALSE

----
(* The game.                                                               *)

GameTurn ==
    /\ moves = 0 /\ ~crashed
    /\ UNCHANGED <<moves, menuOpen, optionVars, buttonVars, crashed>>

(* The sequence makes the next scene when the one before is dead.          *)
MakeScene ==
    /\ GameTurn /\ Quiet /\ ~alive /\ scene < LastScene
    /\ scene' = scene + 1 /\ alive' = TRUE /\ nerve' \in Nerves
    /\ player' \in {"none", "mario", "other"}
    /\ puppet' = FALSE /\ mapSeen' = FALSE /\ killedBy' = {}
    /\ UNCHANGED <<wasNoclipOn, movedIn, loaded, savedIn, mLastMapTarget>>

EndScene ==
    /\ GameTurn /\ Quiet /\ alive
    /\ alive' = FALSE /\ killedBy' = killedBy \cup {"game"}
    /\ UNCHANGED <<scene, nerve, player, noclipVars, targets>>

(* Its nerve changes, or its player captures something or lets it go.      *)
RunScene ==
    /\ GameTurn /\ Quiet /\ alive
    /\ \/ nerve' \in Nerves /\ UNCHANGED player
       \/ /\ player \in {"mario", "captured"} /\ player' \in {"mario", "captured"}
          /\ UNCHANGED nerve
    /\ UNCHANGED <<scene, alive, killedBy, noclipVars, targets>>

(* A mistake: only the first target is kept.                               *)
LatestTargetFirst == IF mLastMapTarget = NoScene THEN scene ELSE mLastMapTarget

LatestTarget == scene

(* setMapTargetUpdateNullNerve, with a target that is not null.            *)
ShowMapTarget ==
    /\ GameTurn /\ Quiet /\ alive
    /\ mLastMapTarget' = LatestTarget /\ mapSeen' = TRUE
    /\ UNCHANGED <<sceneVars, noclipVars, savedIn>>

(* NoDamageHook passes what hurts the player on, or does not.              *)
Hurts ==
    /\ event' = IF Answer("NoDamage", on) = "orig" THEN "hurt" ELSE "nothing"
    /\ crashed' = FALSE

Damage == GameTurn /\ alive /\ Hurts /\ UNCHANGED <<sceneVars, noclipVars, targets>>

(* Mistakes: noclip ends whenever it is off; or never.                     *)
EndsNoclipAlways == Noclip \notin on
EndsNoclipNever == FALSE

(* Noclip was on in the last movement and is not in this one.              *)
EndsNoclip == Noclip \notin on /\ wasNoclipOn

(* NoclipHook::Callback, called for each movement of a Hakoniwa player.    *)
Movement ==
    /\ GameTurn /\ alive /\ player \in {"mario", "captured"}
    /\ event' = IF ~EndsNoclip THEN "nothing"
                ELSE IF puppet THEN "end" ELSE "unpaired end"
    /\ wasNoclipOn' = (Noclip \in on)
    /\ puppet' = (Noclip \in on \/ (puppet /\ ~EndsNoclip))
    /\ IF Noclip \in on THEN movedIn' = scene /\ loaded' = FALSE
                        ELSE UNCHANGED <<movedIn, loaded>>
    /\ UNCHANGED <<sceneVars, targets>>

----
(* The mod.  update() reads the scene anew in each frame before anything   *)
(* uses it; the chord that opens and closes the menu comes first.          *)

BeginFrame ==
    /\ moves = 0 /\ ~crashed /\ Quiet
    /\ moves' \in 1 .. MaxMoves /\ menuOpen' \in BOOLEAN
    /\ UNCHANGED <<optionVars, buttonVars, sceneVars, noclipVars, targets>>

EndFrame ==
    /\ moves > 0 /\ ~crashed /\ damaging = "none" /\ Quiet
    /\ moves' = 0
    /\ UNCHANGED <<menuOpen, optionVars, buttonVars, sceneVars, noclipVars, targets>>

Move ==
    /\ moves > 0 /\ ~crashed /\ damaging = "none"
    /\ moves' = moves - 1
    /\ UNCHANGED <<menuOpen, buttonVars>>

(* typeCast reads the actor's vtable, also of a null pointer.              *)
Crash(cause) ==
    /\ event' = cause /\ crashed' = TRUE
    /\ UNCHANGED <<optionVars, sceneVars, noclipVars, targets>>

Ignore == Quiet /\ UNCHANGED <<optionVars, sceneVars, noclipVars, targets>>

savePosition ==
    \/ player = "none" /\ Crash("save button")
    \/ player = "other" /\ Ignore
    \/ /\ player \in {"mario", "captured"} /\ Quiet
       /\ savedIn' = scene
       /\ UNCHANGED <<optionVars, sceneVars, noclipVars, mLastMapTarget, mapSeen>>

(* A player that has captured nothing is made a puppet and let go again.   *)
loadPosition ==
    \/ savedIn = NoScene /\ Ignore
    \/ savedIn # NoScene /\ player = "none" /\ Crash("load button")
    \/ savedIn # NoScene /\ player = "other" /\ Ignore
    \/ /\ savedIn # NoScene /\ player \in {"mario", "captured"}
       /\ event' = "load" /\ crashed' = FALSE
       /\ puppet' = (puppet /\ player = "captured")
       /\ loaded' = (loaded \/ player = "mario")
       /\ UNCHANGED <<optionVars, sceneVars, wasNoclipOn, movedIn, targets>>

Kill(killer) ==
    /\ Quiet
    /\ alive' = FALSE /\ killedBy' = killedBy \cup {killer}
    /\ UNCHANGED <<optionVars, scene, nerve, player, noclipVars, targets>>

(* A mistake: the scene is not asked whether it is alive.                  *)
ObeysUnasked == nerve \in {"Play", "ShineGet", "Demo"}

(* callAction acts on a scene that is alive and in one of these nerves.    *)
Obeys == alive /\ nerve \in {"Play", "ShineGet", "Demo"}

SavePosition == IF player = "none" THEN Ignore ELSE savePosition

(* A mistake: the key bind does not ask for a player either.               *)
LoadPositionUnasked == loadPosition

LoadPosition == IF player = "none" THEN Ignore ELSE loadPosition

WarpCheckpoint ==
    \/ mLastMapTarget = NoScene /\ Ignore
    \/ /\ mLastMapTarget # NoScene
       /\ event' = "warp" /\ crashed' = FALSE
       /\ nerve' = WarpToCheckpoint
       /\ UNCHANGED <<optionVars, scene, alive, player, killedBy, noclipVars, targets>>

KillMario == IF player = "none" THEN Crash("KillMario") ELSE Ignore

Switched(options, option) ==
    IF option \in options THEN options \ {option} ELSE options \cup {option}

Toggle(option) ==
    /\ Quiet
    /\ on' = Switched(on, option) /\ chosen' = Switched(chosen, option)
    /\ UNCHANGED <<sceneVars, noclipVars, targets>>

(* The actions a button of the menu calls.  The others (coins, life, the   *)
(* previous stage) leave nothing that the mod keeps: Ignore.               *)
ActionOfButton == Obeys /\ (Kill("KillScene") \/ WarpCheckpoint \/ KillMario \/ Ignore)

(* Those that only a key bind or the wheel calls.                          *)
ActionOfBind == Obeys /\ (SavePosition \/ LoadPosition \/ Toggle(Noclip))

callAction == Move /\ (ActionOfButton \/ (~menuOpen /\ ActionOfBind))

(* Buttons that ask only whether the scene is alive.  The last does        *)
(* nothing in a scene without a GameDataHolder; "go" changes the stage,    *)
(* which leaves nothing that the mod keeps.                                *)
PressButton ==
    /\ Move /\ menuOpen /\ alive
    /\ savePosition \/ loadPosition \/ Ignore \/ Kill("setoutfit")

(* The damage button: the option is remembered and cleared, the game hurts *)
(* the player through the hook, and the option is put back.                *)
ClearNoDamage ==
    /\ moves > 0 /\ ~crashed /\ damaging = "none" /\ menuOpen /\ alive /\ Quiet
    /\ damaging' = "cleared"
    /\ oldNoDmg' = (NoDamage \in on)
    /\ on' = on \ {NoDamage}
    /\ UNCHANGED <<moves, menuOpen, chosen, sceneVars, noclipVars, targets>>

applyDamagePlayer ==
    /\ damaging = "cleared" /\ Hurts
    /\ damaging' = "applied"
    /\ UNCHANGED <<moves, menuOpen, optionVars, oldNoDmg, sceneVars, noclipVars, targets>>

(* A mistake: the option is left as it is.                                 *)
OptionsLeft == on

OptionsPutBack == IF oldNoDmg THEN on \cup {NoDamage} ELSE on \ {NoDamage}

RestoreNoDamage ==
    /\ damaging = "applied" /\ Quiet
    /\ damaging' = "none" /\ oldNoDmg' = FALSE
    /\ on' = OptionsPutBack
    /\ moves' = moves - 1
    /\ UNCHANGED <<menuOpen, chosen, sceneVars, noclipVars, targets>>

DamageButton == ClearNoDamage \/ applyDamagePlayer \/ RestoreNoDamage

SwitchOption == Move /\ menuOpen /\ \E option \in Options : Toggle(option)

Next ==
    \/ MakeScene \/ EndScene \/ RunScene \/ ShowMapTarget \/ Damage \/ Movement
    \/ BeginFrame \/ EndFrame \/ callAction \/ PressButton \/ DamageButton \/ SwitchOption

Spec == Init /\ [][Next]_vars

----
(***************************************************************************)
(* Only a player that noclip moved last is a puppet, so its next movement  *)
(* with noclip off sets it free, however noclip was switched in between    *)
(* (PracticeHacks.cpp:313-326).                                            *)
(***************************************************************************)
PuppetIsNoclips == puppet => wasNoclipOn /\ movedIn = scene

(***************************************************************************)
(* Turning noclip off ends a demo the player is not in only if noclip      *)
(* never moved this player, since the scene was replaced meanwhile, or if  *)
(* a position was loaded meanwhile, which ended it already.                *)
(***************************************************************************)
UnpairedEndNeedsCause == event = "unpaired end" => movedIn # scene \/ loaded

(***************************************************************************)
(* A warp to a checkpoint uses a map target of an earlier scene only while *)
(* this scene's map has not shown one (mLastMapTarget is never cleared).   *)
(***************************************************************************)
StaleTargetNeedsUnseenMap == event = "warp" => mLastMapTarget = scene \/ ~mapSeen

(***************************************************************************)
(* However many actions and buttons fall into one frame, a scene is killed *)
(* by one of them or by the game, once; setoutfit's second kill() hits the *)
(* scene its first one killed.                                             *)
(***************************************************************************)
OneKiller == killedBy = {} \/ (~alive /\ \E killer \in Killers : killedBy = {killer})

(***************************************************************************)
(* The mod dereferences a null player only in a live scene without one,    *)
(* from the save button, from the load button once something is saved, or  *)
(* from KillMario; the key binds for saving and loading are safe.          *)
(***************************************************************************)
CrashNeedsAbsentPlayer ==
    crashed => /\ player = "none" /\ alive
               /\ \/ event = "KillMario"
                  \/ event = "save button" /\ menuOpen
                  \/ event = "load button" /\ menuOpen /\ savedIn # NoScene

(***************************************************************************)
(* The options are what the player made them, also to the game and the     *)
(* hooks it calls while the damage button has one of them cleared: only    *)
(* NoDamageHook answers otherwise then, and what the player wants nothing  *)
(* to hurt is hurt by that button alone.                                   *)
(***************************************************************************)
OptionsHold ==
    /\ damaging = "none" => on = chosen
    /\ \A hook \in DOMAIN Rules \ {"NoDamage"} : Answer(hook, on) = Answer(hook, chosen)
    /\ EnableSave(on) = EnableSave(chosen)
    /\ event = "hurt" => NoDamage \notin chosen \/ damaging = "applied"
====
