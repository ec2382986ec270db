------------------------------ MODULE LiveControl ------------------------------
(***************************************************************************)
(* The path from a controller to the lights: transports push control       *)
(* events into the bounded queue from their own tasks; the render task,    *)
(* once per frame, pops a bounded number of them and dispatches each       *)
(* through the bindings (live_control.cpp) to the ShowController, runs the *)
(* console's submissions, and evaluates the cues.  Before the first frame  *)
(* the boot script runs.  The queue is the FIFO that RingQueue implements. *)
(***************************************************************************)
EXTENDS ShowControl, FiniteSetsExt

CONSTANTS
  Pad,        \* buttons of the controllers
  Fader,      \* continuous controls: faders, wheel, pressure
  Master,     \* the grandmaster
  Param,      \* named effect parameters
  Layouts,    \* the binding tables boot.fnl may set up
  Rebinds,    \* the bindings a console may add
  QueueSize,  \* slots of the control queue
  FramePops,  \* pumpControlEvents' maxPerFrame
  FrameEvals, \* pumpEvalSubmissions' maxPerFrame
  MaxBindings \* bound: bindings

PadAction == {"CueFlash", "CueToggle", "SceneGo", "SceneToggle"}
FaderAction == {"CueLevel", "Set"}

\* Binding, whose target is a cue, a scene or a parameter.
BindingRecord ==
  [ctl : Pad \cup Fader, action : PadAction \cup FaderAction,
   target : Nat \cup Param \cup {Master}, latched : BOOLEAN]

\* glow.bind and bindButton's callers give a pad only pad actions, a continuous
\* control only continuous ones.
WellBound(b) ==
  \/ b.ctl \in Pad /\ b.action \in PadAction
  \/ b.ctl \in Fader /\ b.action \in FaderAction

\* A binding is made with its latch off.
NewBinding == {b \in BindingRecord : WellBound(b) /\ ~ b.latched}

ASSUME LiveAssumption ==
  /\ {QueueSize, FramePops} \subseteq Nat \ {0}
  /\ {FrameEvals, MaxBindings} \subseteq Nat
  /\ Pad \cap Fader = {}
  /\ Master \notin Param
  /\ Rebinds \subseteq NewBinding
  /\ Layouts \subseteq Seq(NewBinding)

VARIABLES
  queue,    \* the control event queue
  bindings, \* bindings_, in the order they were made
  setting,  \* master_ and the values of params_
  selector, \* programSceneEnabled_
  phase,    \* where the render task is in its frame, or app_main before it
  left,     \* what the phase may still pop
  luaLag,   \* how far GlowLuaApi's currentT_ is behind the frame
  down,     \* environment: the pads a finger holds
  lost,     \* history: pads whose last event was rejected
  meddled   \* history: pads whose cue or binding was changed by other means

liveVars == <<queue, bindings, setting, selector, phase, left, luaLag, down, lost, meddled>>

allVars == <<vars, liveVars>>

LiveInit ==
  /\ Init
  /\ queue = <<>>
  /\ bindings \in Layouts
  /\ setting = [x \in Param \cup {Master} |-> IF x = Master THEN Full ELSE 0]
  /\ selector = FALSE
  /\ phase = "boot" /\ left = 0
  /\ luaLag \in 0 .. MaxLag + 1
  /\ down = {} /\ lost = {} /\ meddled = {}

--------------------------------------------------------------------------------
(* Transports: any task, at any time once the render task runs.                *)

Press(p) == [ctl |-> p, pressed |-> TRUE]
Lift(p) == [ctl |-> p, pressed |-> FALSE]
Move(f, v) == [ctl |-> f, value |-> v]
Program(s) == [program |-> s]

ButtonEvent == {Press(p) : p \in Pad} \cup {Lift(p) : p \in Pad}
ContinuousEvent == {Move(f, v) : f \in Fader, v \in Levels \cup {0}}
ProgramEvent == {Program(s) : s \in 1 .. MaxScenes}

Activates(e) == e \notin {Lift(p) : p \in Pad} \cup {Move(f, 0) : f \in Fader}

\* MaxSeq bounds the activations the waiting events may number.
Promised == nextSeq + Len(SelectSeq(queue, Activates))

SeqRoom(e) == Activates(e) => Promised < MaxSeq

\* A full queue rejects the newest event.  No transport looks at the result.
Send(e) ==
  /\ phase # "boot" /\ SeqRoom(e)
  /\ queue' = IF Len(queue) < QueueSize THEN Append(queue, e) ELSE queue
  /\ UNCHANGED <<vars, bindings, setting, selector, phase, left, luaLag>>

PressPad(p) ==
  /\ p \notin down
  /\ Send(Press(p))
  /\ down' = down \cup {p}
  /\ lost' = IF Len(queue) < QueueSize THEN lost \ {p} ELSE lost \cup {p}
  /\ meddled' = IF Len(queue) < QueueSize THEN meddled \ {p} ELSE meddled

LiftPad(p) ==
  /\ p \in down
  /\ Send(Lift(p))
  /\ down' = down \ {p}
  /\ lost' = IF Len(queue) < QueueSize THEN lost ELSE lost \cup {p}
  /\ UNCHANGED meddled

MoveFader(f, v) == Send(Move(f, v)) /\ UNCHANGED <<down, lost, meddled>>

SendProgram(s) == Send(Program(s)) /\ UNCHANGED <<down, lost, meddled>>

Transport ==
  \/ \E p \in Pad : PressPad(p) \/ LiftPad(p)
  \/ \E f \in Fader, v \in Levels \cup {0} : MoveFader(f, v)
  \/ \E s \in 1 .. MaxScenes : SendProgram(s)

--------------------------------------------------------------------------------
(* Dispatch: LiveControl::handle.                                              *)

Matches(ctl) == {i \in DOMAIN bindings : bindings[i].ctl = ctl}

\* find: the first binding of the control.
Find(ctl) == Min(Matches(ctl))

Latch(i, b) == bindings' = [bindings EXCEPT ![i].latched = b]

HandleFlash(b, pressed) ==
  /\ IF pressed THEN Go(b.target, 0) ELSE Release(b.target, 0)
  /\ UNCHANGED bindings

\* Mutant: the press that releases the cue does not reset the latch.
HandleToggleUnreset(i, pressed) ==
  LET b == bindings[i] IN
  \/ /\ pressed
     /\ IF b.latched THEN Release(b.target, 0) ELSE Go(b.target, 0)
     /\ Latch(i, TRUE)
  \/ ~ pressed /\ UNCHANGED <<vars, bindings>>

HandleToggle(i, pressed) ==
  LET b == bindings[i] IN
  \/ /\ pressed
     /\ IF b.latched THEN Release(b.target, 0) ELSE Go(b.target, 0)
     /\ Latch(i, ~ b.latched)
  \/ ~ pressed /\ UNCHANGED <<vars, bindings>>

\* goScene and releaseScene of an id that no scene has return.
SceneOr(op, s) == IF s \in DOMAIN scenes THEN op ELSE UNCHANGED vars

HandleSceneGo(b, pressed) ==
  /\ SceneOr(IF pressed THEN GoScene(b.target, 0) ELSE ReleaseScene(b.target, 0), b.target)
  /\ UNCHANGED bindings

HandleSceneToggle(i, pressed) ==
  LET b == bindings[i] IN
  \/ /\ pressed
     /\ SceneOr(IF b.latched THEN ReleaseScene(b.target, 0) ELSE GoScene(b.target, 0), b.target)
     /\ Latch(i, ~ b.latched)
  \/ ~ pressed /\ UNCHANGED <<vars, bindings>>

HandleButton(i, pressed) ==
  \/ bindings[i].action = "CueFlash" /\ HandleFlash(bindings[i], pressed)
  \/ bindings[i].action = "CueToggle" /\ HandleToggle(i, pressed)
  \/ bindings[i].action = "SceneGo" /\ HandleSceneGo(bindings[i], pressed)
  \/ bindings[i].action = "SceneToggle" /\ HandleSceneToggle(i, pressed)

HandleContinuous(b, v) ==
  \/ /\ b.action = "CueLevel"
     /\ IF v > 0 THEN RaiseLevel(b.target, v) ELSE DropLevel(b.target)
     /\ UNCHANGED setting
  \/ /\ b.action = "Set"
     /\ setting' = [setting EXCEPT ![b.target] = v]
     /\ UNCHANGED vars

Handle(e) ==
  \/ /\ e \in ProgramEvent
     /\ IF selector THEN SceneOr(GoScene(e.program, 0), e.program) ELSE UNCHANGED vars
     /\ UNCHANGED <<bindings, setting>>
  \/ /\ e \in ButtonEvent
     /\ IF Matches(e.ctl) # {} THEN HandleButton(Find(e.ctl), e.pressed)
                               ELSE UNCHANGED <<vars, bindings>>
     /\ UNCHANGED setting
  \/ /\ e \in ContinuousEvent
     /\ IF Matches(e.ctl) # {} THEN HandleContinuous(bindings[Find(e.ctl)], e.value)
                               ELSE UNCHANGED <<vars, setting>>
     /\ UNCHANGED bindings

--------------------------------------------------------------------------------
(* The render task's frame: pump, console, evaluate (render_tick_hooks).       *)

Goto(ph, n) == phase' = ph /\ left' = n

\* Mutant: the newest event is dispatched first.
DispatchNewest ==
  /\ phase = "pump" /\ left > 0 /\ queue # <<>>
  /\ Handle(queue[Len(queue)])
  /\ queue' = SubSeq(queue, 1, Len(queue) - 1)
  /\ Goto("pump", left - 1)
  /\ UNCHANGED <<selector, luaLag, down, lost, meddled>>

\* Time is counted in frames; the pump and all that follows use the frame's time.
BeginFrame ==
  /\ phase = "idle"
  /\ Advance(1)
  /\ luaLag' = IF luaLag > MaxLag THEN luaLag ELSE luaLag + 1
  /\ Goto("pump", FramePops)
  /\ UNCHANGED <<queue, bindings, setting, selector, down, lost, meddled>>

Dispatch ==
  /\ phase = "pump" /\ left > 0 /\ queue # <<>>
  /\ Handle(Head(queue))
  /\ queue' = Tail(queue)
  /\ Goto("pump", left - 1)
  /\ UNCHANGED <<selector, luaLag, down, lost, meddled>>

EndPump ==
  /\ phase = "pump" /\ (left = 0 \/ queue = <<>>)
  /\ Goto("eval", FrameEvals)
  /\ UNCHANGED <<vars, queue, bindings, setting, selector, luaLag, down, lost, meddled>>

Bind(b) ==
  /\ Len(bindings) < MaxBindings
  /\ b.action \in {"CueFlash", "CueToggle", "CueLevel"} => b.target \in Defined
  /\ bindings' = Append(bindings, b)
  /\ UNCHANGED <<vars, setting, selector>>

BindProgram ==
  /\ selector' = TRUE
  /\ UNCHANGED <<vars, bindings, setting>>

\* Every binding and parameter goes; the grandmaster is a value and stays.
ClearBindings ==
  /\ bindings' = <<>>
  /\ selector' = FALSE
  /\ setting' = [x \in DOMAIN setting |-> IF x = Master THEN setting[x] ELSE 0]
  /\ UNCHANGED vars

\* glow.cue.* and glow.scene.* stamp what they do with currentT_, the time of
\* the last frame in which a Lua effect ran.
ConsoleCue ==
  /\ luaLag <= MaxLag
  /\ \/ \E c \in Cue : Go(c, luaLag) \/ Release(c, luaLag)
     \/ \E s \in DOMAIN scenes : GoScene(s, luaLag) \/ ReleaseScene(s, luaLag)
  /\ queue' = queue /\ Promised' <= MaxSeq
  /\ UNCHANGED <<bindings, setting, selector>>

\* One submission of the console.
Console ==
  /\ phase = "eval" /\ left > 0
  /\ \/ ConsoleCue
     \/ \E b \in Rebinds : Bind(b)
     \/ BindProgram
     \/ ClearBindings
  /\ meddled' = Pad
  /\ Goto("eval", left - 1)
  /\ UNCHANGED <<queue, luaLag, down, lost>>

EndEval ==
  /\ phase = "eval"
  /\ Goto("render", 0)
  /\ UNCHANGED <<vars, queue, bindings, setting, selector, luaLag, down, lost, meddled>>

\* LuaEffect::evaluate sets currentT_; only a contributing cue's effects run.
LuaRuns == \E c \in Evaluated : cues[c].lua /\ Weight(c, 0) > 0

\* Mutant: a frame that starts with events left over does not evaluate.
RenderIfDrained ==
  /\ phase = "render"
  /\ IF queue = <<>> THEN Evaluate ELSE UNCHANGED vars
  /\ luaLag' = IF LuaRuns THEN 0 ELSE luaLag
  /\ Goto("idle", 0)
  /\ UNCHANGED <<queue, bindings, setting, selector, down, lost, meddled>>

Render ==
  /\ phase = "render"
  /\ Evaluate
  /\ luaLag' = IF LuaRuns THEN 0 ELSE luaLag
  /\ Goto("idle", 0)
  /\ UNCHANGED <<queue, bindings, setting, selector, down, lost, meddled>>

RenderTask == BeginFrame \/ Dispatch \/ EndPump \/ EndEval \/ Render

--------------------------------------------------------------------------------
(* Before the first frame: setup_lua.                                          *)

\* boot.fnl may start cues.  What it defines and binds is in the initial tables.
BootScript ==
  /\ phase = "boot"
  /\ ConsoleCue
  /\ meddled' = Pad
  /\ UNCHANGED <<phase, left, luaLag, down, lost>>

\* The render task starts, after a safe blackout if boot.fnl failed half-way.
StartRendering ==
  /\ phase = "boot"
  /\ StopAll \/ UNCHANGED vars
  /\ Goto("idle", 0)
  /\ UNCHANGED <<queue, bindings, setting, selector, luaLag, down, lost, meddled>>

LiveNext == Transport \/ RenderTask \/ Console \/ BootScript \/ StartRendering

LiveSpec == LiveInit /\ [][LiveNext]_allVars /\ WF_allVars(RenderTask)

--------------------------------------------------------------------------------
(* Properties.                                                                 *)

LiveTypeOK ==
  /\ TypeOK
  /\ queue \in Seq(ButtonEvent \cup ContinuousEvent \cup ProgramEvent)
  /\ Len(queue) <= QueueSize
  /\ \A i \in DOMAIN bindings : WellBound(bindings[i])
  /\ setting \in [Param \cup {Master} -> Levels \cup {0, Full}]
  /\ phase \in {"boot", "idle", "pump", "eval", "render"}
  /\ left \in 0 .. FramePops + FrameEvals
  /\ luaLag \in 0 .. MaxLag + 1
  /\ {down, lost, meddled} \subseteq SUBSET Pad

Pending(p) == \E i \in DOMAIN queue : queue[i] \in {Press(p), Lift(p)}

\* Binding b, if its control is used, moves cue c.
Drives(b, c) ==
  \/ b.action \in {"CueFlash", "CueToggle", "CueLevel"} /\ b.target = c
  \/ /\ b.action \in {"SceneGo", "SceneToggle"}
     /\ b.target \in DOMAIN scenes /\ c \in Listed(scenes[b.target])

\* Pad p has action a on an untimed cue that nothing else on the controllers
\* moves, and that no fader left held when its binding was cleared.
Sole(p, a) ==
  /\ Matches(p) # {}
  /\ LET b == bindings[Find(p)] IN
     /\ b.action = a
     /\ cues[b.target].hold = 0 /\ b.target \notin manual
     /\ \A j \in DOMAIN bindings \ {Find(p)} : ~ Drives(bindings[j], b.target)
     /\ selector => \A s \in DOMAIN scenes : b.target \notin Listed(scenes[s])

CueOf(p) == bindings[Find(p)].target

Playing(p) == CueOf(p) \in active \ released

(* A flash pad's cue follows the finger: once the pad's events are dispatched, *)
(* and none was lost, the cue plays exactly while the pad is held, however     *)
(* pushes from other tasks, frames, leftovers of a frame's bounded pump and    *)
(* fades interleave (README_LIVE_CONTROL.md, CueFlash).                        *)
FlashFollowsFinger ==
  \A p \in Pad \ (lost \cup meddled) :
    Sole(p, "CueFlash") /\ ~ Pending(p) => (p \in down <=> Playing(p))

(* A toggle pad and its cue stay in step: the latch is set exactly while the   *)
(* cue plays, unless a console or boot.fnl moved one without the other.        *)
ToggleInStep ==
  \A p \in Pad \ meddled :
    Sole(p, "CueToggle") /\ ~ Pending(p) => (bindings[Find(p)].latched <=> Playing(p))

\* Pad p is up, nothing was lost, and its cue still gives light.
Afterglow(p) ==
  /\ p \notin down \cup lost \cup meddled
  /\ Sole(p, "CueFlash")
  /\ CueOf(p) \in active

(* A flash pad that is let go leaves the stage dark after a while, even under  *)
(* a flood of other events.                                                    *)
FlashGoesDark == \A p \in Pad : Afterglow(p) ~> ~ Afterglow(p)

(* What control_queue.h:54-57 and README_CONTROL_QUEUE.md:94-99 say of a full  *)
(* queue: rejecting the newest event loses a double-tap at worst, and does not *)
(* leave a light on whose pad is up.                                           *)
OverflowLeavesNoLightOn ==
  \A p \in Pad \ meddled :
    Sole(p, "CueFlash") /\ ~ Pending(p) /\ p \notin down => ~ Playing(p)

(* What glow_lua_api.h:149-153 says of the console: cue.go is given the        *)
(* current time, so a cue it starts is there in the frame that follows.        *)
ConsoleCueStarts ==
  [][\A c \in Cue : phase = "eval" /\ c \in active' \ active => Alive(c)']_allVars
================================================================================
