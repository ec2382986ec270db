-------------------------------- MODULE GlowApi --------------------------------
(***************************************************************************)
(* The glow table that scripts see (glow_lua_api.cpp): the cues and scenes *)
(* they define under names, the effects these run (lua_effect.cpp), what   *)
(* they bind, light and paint.  The render task runs a console's script,   *)
(* or an effect within a frame, form by form, until it ends, fails or has  *)
(* used up its budget of instructions (lua_vm.cpp).                        *)
(*                                                                         *)
(* Cues, scenes and effects are kept under numbers, counted from 1 here;   *)
(* names lead to the latest.  What a cue's weight is, which pad does what  *)
(* and what the beat clock says are other modules' matter.  A script does  *)
(* not catch errors with pcall, and an effect defines no cues, which would *)
(* move the cues while evaluate holds pointers to them.                    *)
(***************************************************************************)
EXTENDS Wled, FiniteSets

CONSTANTS
  CueName, SceneName, Control, Matrix,
  Grid,        \* controls the .mdef's grid reaches; no LED feedback without any
  EvalBudget,  \* forms a console's script may run: evalInstrBudget_
  FrameBudget, \* forms an effect may run: frameInstrBudget_
  Plans        \* bounds: how much of what the scripts make

ASSUME GlowAssumption ==
  /\ Grid \subseteq Control
  /\ {EvalBudget, FrameBudget} \subseteq Nat
  /\ Plans \subseteq [scripts : Nat, cues : Nat, scenes : Nat, effects : Nat, owned : Nat, strips : BOOLEAN, leds : BOOLEAN]

VARIABLES
  plan,     \* the bounds of this behaviour
  busy,     \* what the render task does: off, dead (no VM), idle, eval, frame, effect
  fuel,     \* instructions left to the script, in forms
  scripts,  \* scripts evaluated so far
  open,     \* frameCaps_ and frameAims_ are set
  due,      \* activeCues_ still to be drawn in this frame
  turn,     \* effects of the cue being drawn that are still to run
  running,  \* the effect that runs, 0 without
  cues,     \* cues_, with the name each was defined under and, as history, what started it last
  cueOf,    \* cueIdByName_, 0 without
  scenes,   \* scenes_
  sceneOf,  \* sceneIdByName_
  effects,  \* luaEffects_ and luaEffectReported_, with, as history, how often each was reported
  bound,    \* the cue a control's binding leads to, 0 without
  programs, \* programSceneEnabled_
  autos,    \* autoBindings_: the cue a light follows
  handles,  \* ownedEffects_
  patterns, \* ownedPatterns_
  painted   \* the pattern each matrix borrows, 0 without

taskVars == <<busy, fuel, scripts, open, due, turn, running>>

showVars == <<cues, cueOf, scenes, sceneOf, effects>>

surfaceVars == <<bound, programs, autos>>

ownedVars == <<handles, patterns, painted>>

glowVars == <<plan, taskVars, showVars, surfaceVars, ownedVars, wledVars>>

GlowInit ==
  /\ plan \in Plans
  /\ busy = "off" /\ fuel = 0 /\ scripts = 0 /\ open = FALSE
  /\ due = {} /\ turn = {} /\ running = 0
  /\ cues = <<>> /\ cueOf = [n \in CueName |-> 0]
  /\ scenes = <<>> /\ sceneOf = [s \in SceneName |-> 0]
  /\ effects = <<>>
  /\ bound = [c \in Control |-> 0] /\ programs = FALSE /\ autos = [c \in Control |-> 0]
  /\ handles = 0 /\ patterns = 0 /\ painted = [m \in Matrix |-> 0]
  /\ WledInit

\* glowLuaInit: no memory for a VM, or a compiler that does not load, leaves none.
LuaInit ==
  /\ busy = "off"
  /\ busy' \in {"idle", "dead"}
  /\ UNCHANGED <<fuel, scripts, open, due, turn, running, showVars, surfaceVars, ownedVars, wledVars>>

--------------------------------------------------------------------------------
(* Cues (show_control.cpp): go, release and levels, each with a number.        *)

Cue(name, fx) == [name |-> name, effects |-> fx, active |-> FALSE, released |-> FALSE, manual |-> FALSE, by |-> "none"]

Go(ids, by) ==
  cues' = [i \in DOMAIN cues |->
    IF i \in ids THEN [cues[i] EXCEPT !.active = TRUE, !.released = FALSE, !.by = by] ELSE cues[i]]

Released(c) == [c EXCEPT !.released = @ \/ c.active]

Release(ids) == cues' = [i \in DOMAIN cues |-> IF i \in ids THEN Released(cues[i]) ELSE cues[i]]

SetManualLevel(id, level) ==
  cues' = [cues EXCEPT ![id] =
    IF level > 0 THEN [@ EXCEPT !.active = TRUE, !.released = FALSE, !.manual = TRUE, !.by = "number"]
    ELSE [@ EXCEPT !.active = FALSE, !.manual = FALSE]]

\* Pads, faders and programs keep numbers, as scenes do (LiveControl), and are
\* handled between frames; a blackout stops everything.
Played ==
  /\ busy = "idle"
  /\ \/ \E c \in Control :
          /\ bound[c] # 0
          /\ \/ Go({bound[c]}, "number")
             \/ Release({bound[c]})
             \/ \E level \in {0, 1} : SetManualLevel(bound[c], level)
     \/ programs /\ \E s \in DOMAIN scenes : Go(scenes[s], "number")
     \/ cues' = [i \in DOMAIN cues |-> [cues[i] EXCEPT !.active = FALSE, !.released = FALSE, !.manual = FALSE]]
  /\ UNCHANGED <<taskVars, cueOf, scenes, sceneOf, effects, surfaceVars, ownedVars, wledVars>>

--------------------------------------------------------------------------------
(* Scripts: a form at a time.                                                  *)

Scripting == busy \in {"eval", "effect"}

Form ==
  /\ Scripting /\ fuel > 0
  /\ fuel' = fuel - 1
  /\ UNCHANGED <<busy, scripts, open, due, turn, running>>

StartEval ==
  /\ busy = "idle"
  /\ scripts < plan.scripts
  /\ busy' = "eval"
  /\ fuel' = EvalBudget
  /\ scripts' = scripts + 1
  /\ UNCHANGED <<open, due, turn, running, showVars, surfaceVars, ownedVars, wledVars>>

\* lua_pcall returns: endFrame closes the context of an effect.
Return ==
  /\ busy' = IF busy = "effect" THEN "frame" ELSE "idle"
  /\ fuel' = 0
  /\ open' = FALSE
  /\ running' = 0
  /\ UNCHANGED <<scripts, due, turn>>

ScriptEnds ==
  /\ Scripting
  /\ Return
  /\ UNCHANGED <<showVars, surfaceVars, ownedVars, wledVars>>

\* A wrong argument, an unknown name, glow.set from the console, a full heap
\* (allocFn) or a used-up budget (countHook): an effect never runs again.
Disabled(fx, e) == IF e = 0 THEN fx ELSE [fx EXCEPT ![e].disabled = TRUE]

ScriptFails ==
  /\ Scripting
  /\ Return
  /\ effects' = Disabled(effects, running)
  /\ UNCHANGED <<cues, cueOf, scenes, sceneOf, surfaceVars, ownedVars, wledVars>>

\* resolveEffectsList: the functions of the list are wrapped and kept, also if a
\* later element, or field of the definition, is wrong.
NewEffects(k) == [i \in 1 .. k |-> [disabled |-> FALSE, reported |-> FALSE, heard |-> 0]]

\* Mutant: the version a name led to goes on.
SupersededKept(name) == cues

\* The version a name led to is released if it is active.
Superseded(name) ==
  LET old == cueOf[name]
  IN  IF old # 0 /\ cues[old].active THEN [cues EXCEPT ![old] = Released(@)] ELSE cues

CueDefine(name, k) ==
  /\ busy = "eval" /\ Form
  /\ Len(cues) < plan.cues /\ Len(effects) + k <= plan.effects
  /\ effects' = effects \o NewEffects(k)
  /\ cues' = Append(Superseded(name), Cue(name, Len(effects) + 1 .. Len(effects) + k))
  /\ cueOf' = [cueOf EXCEPT ![name] = Len(cues) + 1]
  /\ UNCHANGED <<scenes, sceneOf, surfaceVars, ownedVars, wledVars>>

CueDefineFails(k) ==
  /\ busy = "eval" /\ fuel > 0
  /\ Return
  /\ Len(effects) + k <= plan.effects
  /\ effects' = effects \o NewEffects(k)
  /\ UNCHANGED <<cues, cueOf, scenes, sceneOf, surfaceVars, ownedVars, wledVars>>

CueGo(name) ==
  /\ Form
  /\ cueOf[name] # 0
  /\ Go({cueOf[name]}, "name")
  /\ UNCHANGED <<cueOf, scenes, sceneOf, effects, surfaceVars, ownedVars, wledVars>>

CueRelease(name) ==
  /\ Form
  /\ cueOf[name] # 0
  /\ Release({cueOf[name]})
  /\ UNCHANGED <<cueOf, scenes, sceneOf, effects, surfaceVars, ownedVars, wledVars>>

\* A scene keeps the numbers its cues' names lead to now.
SceneDefine(scene, names) ==
  /\ busy = "eval" /\ Form
  /\ Len(scenes) < plan.scenes
  /\ \A n \in names : cueOf[n] # 0
  /\ scenes' = Append(scenes, {cueOf[n] : n \in names})
  /\ sceneOf' = [sceneOf EXCEPT ![scene] = Len(scenes) + 1]
  /\ UNCHANGED <<cues, cueOf, effects, surfaceVars, ownedVars, wledVars>>

SceneGo(scene) ==
  /\ Form
  /\ sceneOf[scene] # 0
  /\ Go(scenes[sceneOf[scene]], "number")
  /\ UNCHANGED <<cueOf, scenes, sceneOf, effects, surfaceVars, ownedVars, wledVars>>

SceneRelease(scene) ==
  /\ Form
  /\ sceneOf[scene] # 0
  /\ Release(scenes[sceneOf[scene]])
  /\ UNCHANGED <<cueOf, scenes, sceneOf, effects, surfaceVars, ownedVars, wledVars>>

\* glow.set, glow.aim and glow.slot, in an effect only.
GlowSet ==
  /\ Form
  /\ open
  /\ UNCHANGED <<showVars, surfaceVars, ownedVars, wledVars>>

\* Forms that only read, or whose effect is left to other modules: glow.ranges,
\* beat, bar, beat-number, bpm, locked?, tap, param.get, matrix.brightness, led.set
\* and led.set-xy.
GlowRead ==
  /\ Form
  /\ UNCHANGED <<showVars, surfaceVars, ownedVars, wledVars>>

--------------------------------------------------------------------------------
(* What scripts make and bind.                                                 *)

\* glow.fx.hue-rotate, chase and sweep.
FxHandle ==
  /\ Form
  /\ handles < plan.owned
  /\ handles' = handles + 1
  /\ UNCHANGED <<showVars, surfaceVars, patterns, painted, wledVars>>

\* The matrix borrows the pattern, and the API keeps it, with all earlier ones.
MatrixPattern(m) ==
  /\ Form
  /\ patterns < plan.owned
  /\ patterns' = patterns + 1
  /\ painted' = [painted EXCEPT ![m] = patterns + 1]
  /\ UNCHANGED <<showVars, surfaceVars, handles, wledVars>>

\* Bindings are appended and the first one found: later ones do not count until
\* they are cleared.
Bound(control, id) == [bound EXCEPT ![control] = IF @ = 0 THEN id ELSE @]

BindPad(control, name) ==
  /\ Form
  /\ cueOf[name] # 0
  /\ bound' = Bound(control, cueOf[name])
  /\ UNCHANGED <<showVars, programs, autos, ownedVars, wledVars>>

\* Without a .mdef, or a pad at the place, nothing happens, whatever the name.
BindPadXY(control, name) ==
  /\ Form
  /\ control \in Grid => cueOf[name] # 0
  /\ bound' = IF control \in Grid THEN Bound(control, cueOf[name]) ELSE bound
  /\ UNCHANGED <<showVars, programs, autos, ownedVars, wledVars>>

\* glow.bind.fader, pitchbend and pressure, of which only :cue-level names a cue.
BindContinuous(control, name) ==
  /\ Form
  /\ cueOf[name] # 0
  /\ bound' = Bound(control, cueOf[name])
  /\ UNCHANGED <<showVars, programs, autos, ownedVars, wledVars>>

BindProgramForm ==
  /\ Form
  /\ programs' = TRUE
  /\ UNCHANGED <<showVars, bound, autos, ownedVars, wledVars>>

BindClear ==
  /\ Form
  /\ bound' = [c \in Control |-> 0]
  /\ programs' = FALSE
  /\ autos' = [c \in Control |-> 0]
  /\ UNCHANGED <<showVars, ownedVars, wledVars>>

LedAuto(control, name) ==
  /\ Form
  /\ plan.leds
  /\ cueOf[name] # 0
  /\ autos' = IF Grid = {} THEN autos ELSE [autos EXCEPT ![control] = cueOf[name]]
  /\ UNCHANGED <<showVars, bound, programs, ownedVars, wledVars>>

LedAutoXY(control, name) ==
  /\ Form
  /\ plan.leds
  /\ cueOf[name] # 0
  /\ autos' = IF control \in Grid THEN [autos EXCEPT ![control] = cueOf[name]] ELSE autos
  /\ UNCHANGED <<showVars, bound, programs, ownedVars, wledVars>>

WledForm ==
  /\ Form
  /\ plan.strips
  /\ \/ \E i \in DOMAIN targets :
          \/ SetEffect(targets[i].name)
          \/ SetSolidColor(targets[i].name)
          \/ \E on \in BOOLEAN : SetPower(targets[i].name, on)
     \/ BroadcastEffect
  /\ UNCHANGED <<showVars, surfaceVars, ownedVars>>

--------------------------------------------------------------------------------
(* A frame (ShowController::evaluate): the cues that are active, each with its *)
(* effects.                                                                    *)

StartFrame ==
  /\ busy = "idle"
  /\ busy' = "frame"
  /\ due' = {i \in DOMAIN cues : cues[i].active}
  /\ UNCHANGED <<fuel, scripts, open, turn, running, showVars, surfaceVars, ownedVars, wledVars>>

\* A fade that has ended takes the cue away; one that has not begun, or a cue
\* with a weight of 0, draws nothing.
DrawCue(i) ==
  /\ busy = "frame" /\ turn = {} /\ i \in due
  /\ due' = due \ {i}
  /\ \/ ~ cues[i].manual /\ cues' = [cues EXCEPT ![i].active = FALSE] /\ UNCHANGED turn
     \/ UNCHANGED <<cues, turn>>
     \/ turn' = cues[i].effects /\ UNCHANGED cues
  /\ UNCHANGED <<busy, fuel, scripts, open, running, cueOf, scenes, sceneOf, effects, surfaceVars, ownedVars, wledVars>>

\* LuaEffect::evaluate, up to the call.
RunEffect(e) ==
  /\ busy = "frame" /\ e \in turn
  /\ turn' = turn \ {e}
  /\ IF effects[e].disabled
     THEN UNCHANGED <<busy, fuel, open, running>>
     ELSE busy' = "effect" /\ fuel' = FrameBudget /\ open' = TRUE /\ running' = e
  /\ UNCHANGED <<scripts, due, showVars, surfaceVars, ownedVars, wledVars>>

\* Mutant: a report is not recorded.
PollForgetful(fx) == IF fx.disabled /\ ~ fx.reported THEN [fx EXCEPT !.heard = @ + 1] ELSE fx

\* After the frame the newly disabled effects are reported (pollNewlyDisabledEffects).
Poll(fx) == IF fx.disabled /\ ~ fx.reported THEN [fx EXCEPT !.reported = TRUE, !.heard = @ + 1] ELSE fx

EndFrame ==
  /\ busy = "frame" /\ due = {} /\ turn = {}
  /\ busy' = "idle"
  /\ effects' = [e \in DOMAIN effects |-> Poll(effects[e])]
  /\ UNCHANGED <<fuel, scripts, open, due, turn, running, cues, cueOf, scenes, sceneOf, surfaceVars, ownedVars, wledVars>>

--------------------------------------------------------------------------------

CueForms ==
  \/ \E n \in CueName : CueGo(n) \/ CueRelease(n)
  \/ \E n \in CueName, k \in 0 .. 2 : CueDefine(n, k)
  \/ \E k \in 1 .. 1 : CueDefineFails(k)
  \/ \E s \in SceneName : SceneGo(s) \/ SceneRelease(s)
  \/ \E s \in SceneName, names \in SUBSET CueName : SceneDefine(s, names)

SurfaceForms ==
  \/ \E c \in Control, n \in CueName :
       BindPad(c, n) \/ BindPadXY(c, n) \/ BindContinuous(c, n) \/ LedAuto(c, n) \/ LedAutoXY(c, n)
  \/ BindProgramForm \/ BindClear

LightForms == GlowSet \/ GlowRead \/ FxHandle \/ (\E m \in Matrix : MatrixPattern(m)) \/ WledForm

Frame == StartFrame \/ (\E i \in due : DrawCue(i)) \/ (\E e \in turn : RunEffect(e)) \/ EndFrame

GlowNext ==
  /\ UNCHANGED plan
  /\ \/ LuaInit \/ StartEval \/ ScriptEnds \/ ScriptFails
     \/ CueForms \/ SurfaceForms \/ LightForms
     \/ Played \/ Frame

GlowSpec == GlowInit /\ [][GlowNext]_glowVars

--------------------------------------------------------------------------------
(* Properties.                                                                 *)

Held(i) == cues[i].active /\ ~ cues[i].released

(* A redefinition leaves no older version running beside the new one             *)
(* (glow_lua_api.cpp:424): one that is held was started through a scene or a     *)
(* control that was tied to it by its number, never through the name.            *)
OlderVersionsRest ==
  \A i \in DOMAIN cues : Held(i) /\ cueOf[cues[i].name] # i => cues[i].by = "number"

(* An effect fails once: it is never run again, the browsers hear of it once, and *)
(* what it wrote into is closed behind it (lua_effect.h:74, glow_lua_api.cpp:248). *)
EffectsFailOnce ==
  /\ open <=> busy = "effect"
  /\ open <=> running # 0
  /\ running # 0 => ~ effects[running].disabled
  /\ \A e \in DOMAIN effects :
       effects[e].heard = (IF effects[e].reported THEN 1 ELSE 0) /\ (effects[e].reported => effects[e].disabled)
================================================================================
