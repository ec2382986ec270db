------------------------------- MODULE Cues_proofs -----------------------------
(***************************************************************************)
(* What moves the cues and what they move, for every instance.  Live       *)
(* control, for every number of pads, faders and bindings, every queue     *)
(* size and every bound on a frame's pops: a toggle pad stays in step with *)
(* its cue, and a flash pad's cue follows the finger.  The merge           *)
(* (CueBlend), for every set of cues, effects and channels: whatever the   *)
(* cues write, it emits the brightest, the latest, or the selected slot,   *)
(* as the channel asks.                                                    *)
(***************************************************************************)
EXTENDS LiveControl, CueBlend, ShowControl_proofs

--------------------------------------------------------------------------------
(* Live control.                                                               *)

(* The first of finitely many places is one of them.                           *)
LEMMA FirstPlace ==
  ASSUME NEW S, S \subseteq Int, IsFiniteSet(S), S # {}
  PROVE  Min(S) \in S /\ \A y \in S : Min(S) <= y
BY LeastExists DEF Min

--------------------------------------------------------------------------------
(* The inductive invariant.                                                    *)

Event == ButtonEvent \cup ContinuousEvent \cup ProgramEvent

PadEvent(p) == {Press(p), Lift(p)}

\* The last event a pad sent, of those that wait.
LastOf(p, i) ==
  /\ queue[i] \in PadEvent(p)
  /\ \A j \in DOMAIN queue : j > i => queue[j] \notin PadEvent(p)

Finger(p) == IF p \in down THEN Press(p) ELSE Lift(p)

\* The last event that waits says where the finger is, unless it was rejected.
QueueTruth ==
  \A p \in Pad \ lost : \A i \in DOMAIN queue : LastOf(p, i) => queue[i] = Finger(p)

PressWaits(p) == \E i \in DOMAIN queue : queue[i] = Press(p)

\* A toggle pad's latch tells whether its cue plays, also while only the end of
\* a press is still to come.
LatchTruth ==
  \A p \in Pad \ meddled :
    Sole(p, "CueToggle") /\ ~ PressWaits(p) => (bindings[Find(p)].latched <=> Playing(p))

\* Before the first frame nothing has been pressed, and only boot.fnl starts cues.
BootTruth ==
  phase = "boot" => queue = <<>> /\ down = {} /\ (meddled = Pad \/ active = {})

ControlType ==
  /\ queue \in Seq(Event)
  /\ bindings \in Seq(BindingRecord)
  /\ luaLag \in 0 .. MaxLag + 1
  /\ {down, lost, meddled} \subseteq SUBSET Pad

LiveInv ==
  /\ ShowInv /\ ControlType /\ BootTruth
  /\ QueueTruth /\ FlashFollowsFinger /\ LatchTruth

--------------------------------------------------------------------------------
(* Events and bindings.                                                        *)

(* A pad's events are neither a fader's nor a program change, and belong to    *)
(* one pad.                                                                    *)
LEMMA PadEventsApart ==
  ASSUME NEW p \in Pad, NEW e \in PadEvent(p)
  PROVE  /\ e \in ButtonEvent /\ e \notin ContinuousEvent /\ e \notin ProgramEvent
         /\ e.ctl = p /\ e.pressed \in BOOLEAN
         /\ e.pressed <=> e = Press(p)
<1>1. e = [ctl |-> p, pressed |-> TRUE] \/ e = [ctl |-> p, pressed |-> FALSE]
  BY DEF PadEvent, Press, Lift
<1>2. e.ctl = p /\ e.pressed \in BOOLEAN /\ (e.pressed <=> e = Press(p))
  <2>1. CASE e = [ctl |-> p, pressed |-> TRUE]
    BY <2>1 DEF Press
  <2>2. CASE e = [ctl |-> p, pressed |-> FALSE]
    <3>1. e.pressed = FALSE /\ Press(p).pressed = TRUE
      BY <2>2 DEF Press
    <3>. QED BY <2>2, <3>1
  <2>. QED BY <1>1, <2>1, <2>2
<1>3. e \in ButtonEvent
  BY DEF PadEvent, ButtonEvent
<1>4. e \notin ContinuousEvent
  <2>1. ASSUME NEW f \in Fader, NEW v PROVE e # Move(f, v)
    BY <1>2, LiveAssumption DEF Move
  <2>. QED BY <2>1 DEF ContinuousEvent
<1>5. e \notin ProgramEvent
  <2>1. ASSUME NEW s PROVE e # Program(s)
    <3>1. "ctl" \in DOMAIN e /\ "ctl" \notin DOMAIN Program(s)
      BY <1>1 DEF Program
    <3>. QED BY <3>1
  <2>. QED BY <2>1 DEF ProgramEvent
<1>. QED BY <1>2, <1>3, <1>4, <1>5

(* find returns a binding of the control, if there is one.                     *)
LEMMA FindFinds ==
  ASSUME ControlType, NEW ctl, Matches(ctl) # {}
  PROVE  Find(ctl) \in DOMAIN bindings /\ bindings[Find(ctl)].ctl = ctl
<1>1. DOMAIN bindings = 1 .. Len(bindings) /\ Len(bindings) \in Nat
  BY LenProperties DEF ControlType
<1>2. Matches(ctl) \subseteq 1 .. Len(bindings)
  BY <1>1 DEF Matches
<1>3. IsFiniteSet(Matches(ctl)) /\ Matches(ctl) \subseteq Int
  <2>1. IsFiniteSet(1 .. Len(bindings))
    BY <1>1, FS_Interval
  <2>2. IsFiniteSet(Matches(ctl))
    BY <1>2, <2>1, FS_Subset
  <2>. QED BY <1>1, <1>2, <2>2
<1>4. Find(ctl) \in Matches(ctl)
  BY <1>3, FirstPlace DEF Find
<1>. QED BY <1>4 DEF Matches

\* The table keeps its bindings, but perhaps for their latches.
SameBindings ==
  /\ DOMAIN bindings' = DOMAIN bindings
  /\ \A i \in DOMAIN bindings :
       /\ bindings'[i].ctl = bindings[i].ctl
       /\ bindings'[i].action = bindings[i].action
       /\ bindings'[i].target = bindings[i].target

LEMMA FindStays ==
  ASSUME SameBindings, NEW ctl
  PROVE  Matches(ctl)' = Matches(ctl) /\ Find(ctl)' = Find(ctl)
<1>1. Matches(ctl)' = Matches(ctl)
  BY DEF SameBindings, Matches
<1>2. Find(ctl)' = Min(Matches(ctl)')
  BY DEF Find
<1>. QED BY <1>1, <1>2 DEF Find

(* Turning one latch keeps the table.                                          *)
LEMMA LatchKeeps ==
  ASSUME ControlType, NEW i \in DOMAIN bindings, NEW b \in BOOLEAN, Latch(i, b)
  PROVE  /\ bindings' \in Seq(BindingRecord) /\ SameBindings
         /\ bindings'[i].latched = b
         /\ \A j \in DOMAIN bindings \ {i} : bindings'[j] = bindings[j]
<1>1. /\ bindings \in Seq(BindingRecord) /\ DOMAIN bindings = 1 .. Len(bindings)
      /\ bindings[i] \in BindingRecord
  BY LenProperties, ElementOfSeq DEF ControlType
<1>. DEFINE turned == [bindings[i] EXCEPT !.latched = b]
<1>2. /\ turned \in BindingRecord /\ turned.latched = b
      /\ turned.ctl = bindings[i].ctl /\ turned.action = bindings[i].action
      /\ turned.target = bindings[i].target
  BY <1>1 DEF BindingRecord
<1>3. bindings' = [bindings EXCEPT ![i] = turned]
  BY DEF Latch
<1>. HIDE DEF turned
<1>4. bindings' \in Seq(BindingRecord)
  BY <1>1, <1>2, <1>3, ExceptSeq
<1>5. /\ DOMAIN bindings' = DOMAIN bindings /\ bindings'[i] = turned
      /\ \A j \in DOMAIN bindings \ {i} : bindings'[j] = bindings[j]
  BY <1>3
<1>. QED BY <1>2, <1>4, <1>5 DEF SameBindings

--------------------------------------------------------------------------------
(* What an operation on the show leaves alone.                                 *)

\* The operations a control may cause, at the time of the frame.
OpOn(c) ==
  Go(c, 0) \/ Release(c, 0) \/ DropLevel(c) \/ \E v \in Levels : RaiseLevel(c, v)

OpOnScene(s) == GoScene(s, 0) \/ ReleaseScene(s, 0)

(* Each is an operation of ShowControl.                                        *)
LEMMA OpsOperate ==
  ASSUME ShowInv
  PROVE  /\ \A c : OpOn(c) => Operate
         /\ \A s : OpOnScene(s) => Operate
<1>. USE ConstantTypes
<1>1. 0 \in 0 .. MaxLag
  OBVIOUS
<1>2. ASSUME NEW c, OpOn(c) PROVE Operate
  <2>1. c \in Defined
    BY <1>2 DEF OpOn, Go, Release, DropLevel, RaiseLevel
  <2>2. c \in Cue
    BY <2>1, DefinedCue DEF ShowInv
  <2>. QED BY <1>1, <1>2, <2>2 DEF OpOn, Operate
<1>3. ASSUME NEW s, OpOnScene(s) PROVE Operate
  <2>1. s \in DOMAIN scenes
    BY <1>3 DEF OpOnScene, GoScene, ReleaseScene
  <2>2. s \in 1 .. MaxScenes
    BY <2>1, LenProperties DEF ShowInv, TypeOK
  <2>. QED BY <1>1, <1>3, <2>2 DEF OpOnScene, Operate
<1>. QED BY <1>2, <1>3

\* Cue d plays as it did, and no fader let go of it.
Still(d) ==
  /\ d \in active' \ released' <=> d \in active \ released
  /\ d \in manual => d \in manual'

(* An operation leaves the cues it is not about as they play.                  *)
LEMMA OpIsStill ==
  ASSUME NEW c, NEW d, d # c, OpOn(c)
  PROVE  Still(d)
<1>1. Listed(<<c>>) = {c}
  BY DEF Listed
<1>2. CASE Go(c, 0)
  BY <1>1, <1>2 DEF Go, GoEach, Still
<1>3. CASE Release(c, 0)
  BY <1>1, <1>3 DEF Release, ReleaseEach, Still
<1>4. CASE DropLevel(c)
  BY <1>4 DEF DropLevel, Still
<1>5. CASE \E v \in Levels : RaiseLevel(c, v)
  BY <1>5 DEF RaiseLevel, Still
<1>. QED BY <1>2, <1>3, <1>4, <1>5 DEF OpOn

LEMMA SceneOpIsStill ==
  ASSUME NEW s, NEW d, d \notin Listed(scenes[s]), OpOnScene(s)
  PROVE  Still(d)
<1>1. CASE GoScene(s, 0)
  BY <1>1 DEF GoScene, GoEach, Still
<1>2. CASE ReleaseScene(s, 0)
  BY <1>2 DEF ReleaseScene, ReleaseEach, Still
<1>. QED BY <1>1, <1>2 DEF OpOnScene

LEMMA UnchangedIsStill ==
  ASSUME NEW d, UNCHANGED vars
  PROVE  Still(d)
BY DEF vars, Still

LEMMA OpsKeepTables ==
  ASSUME UNCHANGED vars \/ (\E c : OpOn(c)) \/ (\E s : OpOnScene(s))
  PROVE  cues' = cues /\ scenes' = scenes
BY DEF vars, OpOn, OpOnScene, Go, Release, GoScene, ReleaseScene, GoEach, ReleaseEach,
       RaiseLevel, DropLevel

--------------------------------------------------------------------------------
(* Dispatch.                                                                   *)

\* What dispatching an event does, to the show and to the table: an operation on
\* the target of the binding found, and perhaps a turn of its latch.
Effect(e) ==
  \/ UNCHANGED <<vars, bindings>>
  \/ /\ e \in ProgramEvent /\ selector /\ UNCHANGED bindings
     /\ e.program \in DOMAIN scenes /\ OpOnScene(e.program)
  \/ /\ e \in ButtonEvent \cup ContinuousEvent /\ Matches(e.ctl) # {}
     /\ \/ OpOn(CueOf(e.ctl)) /\ bindings[Find(e.ctl)].action \in {"CueFlash", "CueToggle", "CueLevel"}
        \/ /\ CueOf(e.ctl) \in DOMAIN scenes
           /\ OpOnScene(CueOf(e.ctl)) /\ bindings[Find(e.ctl)].action \in {"SceneGo", "SceneToggle"}
        \/ UNCHANGED vars
     /\ UNCHANGED bindings \/ Latch(Find(e.ctl), ~ bindings[Find(e.ctl)].latched)

(* A button event reaches the binding found, as its action says.               *)
LEMMA ButtonEffect ==
  ASSUME NEW e \in ButtonEvent, Matches(e.ctl) # {}, HandleButton(Find(e.ctl), e.pressed)
  PROVE  Effect(e)
<1>. DEFINE i == Find(e.ctl)
            b == bindings[i]
<1>0. CueOf(e.ctl) = b.target
  BY DEF CueOf
<1>1. CASE b.action = "CueFlash" /\ HandleFlash(b, e.pressed)
  <2>1. OpOn(b.target) /\ UNCHANGED bindings
    BY <1>1 DEF HandleFlash, OpOn
  <2>. QED BY <1>0, <1>1, <2>1 DEF Effect
<1>2. CASE b.action = "CueToggle" /\ HandleToggle(i, e.pressed)
  <2>1. \/ UNCHANGED <<vars, bindings>>
        \/ OpOn(b.target) /\ Latch(i, ~ b.latched)
    BY <1>2 DEF HandleToggle, OpOn
  <2>. QED BY <1>0, <1>2, <2>1 DEF Effect
<1>3. CASE b.action = "SceneGo" /\ HandleSceneGo(b, e.pressed)
  <2>1. \/ b.target \in DOMAIN scenes /\ OpOnScene(b.target)
        \/ UNCHANGED vars
    <3>1. CASE e.pressed
      BY <1>3, <3>1 DEF HandleSceneGo, OpOnScene, SceneOr
    <3>2. CASE ~ e.pressed
      BY <1>3, <3>2 DEF HandleSceneGo, OpOnScene, SceneOr
    <3>. QED BY <3>1, <3>2
  <2>2. UNCHANGED bindings
    BY <1>3 DEF HandleSceneGo
  <2>. QED BY <1>0, <1>3, <2>1, <2>2 DEF Effect
<1>4. CASE b.action = "SceneToggle" /\ HandleSceneToggle(i, e.pressed)
  <2>1. \/ UNCHANGED <<vars, bindings>>
        \/ /\ Latch(i, ~ b.latched)
           /\ \/ b.target \in DOMAIN scenes /\ OpOnScene(b.target)
              \/ UNCHANGED vars
    BY <1>4 DEF HandleSceneToggle, OpOnScene, SceneOr
  <2>. QED BY <1>0, <1>4, <2>1 DEF Effect
<1>. QED BY <1>1, <1>2, <1>3, <1>4 DEF HandleButton

LEMMA ContinuousEffect ==
  ASSUME NEW e \in ContinuousEvent, Matches(e.ctl) # {},
         HandleContinuous(bindings[Find(e.ctl)], e.value), UNCHANGED bindings
  PROVE  Effect(e)
<1>. DEFINE b == bindings[Find(e.ctl)]
<1>0. CueOf(e.ctl) = b.target
  BY DEF CueOf
<1>1. e.value \in Levels \cup {0}
  BY DEF ContinuousEvent, Move
<1>2. CASE b.action = "CueLevel"
  <2>1. OpOn(b.target) \/ UNCHANGED vars
    <3>1. CASE e.value > 0
      <4>1. e.value \in Levels /\ RaiseLevel(b.target, e.value)
        BY <1>1, <1>2, <3>1 DEF HandleContinuous
      <4>. QED BY <4>1 DEF OpOn
    <3>2. CASE ~ (e.value > 0)
      <4>1. DropLevel(b.target)
        BY <1>2, <3>2 DEF HandleContinuous
      <4>. QED BY <4>1 DEF OpOn
    <3>. QED BY <3>1, <3>2
  <2>. QED BY <1>0, <1>2, <2>1 DEF Effect
<1>3. CASE b.action # "CueLevel"
  <2>1. UNCHANGED vars
    BY <1>3 DEF HandleContinuous
  <2>. QED BY <2>1 DEF Effect
<1>. QED BY <1>2, <1>3

LEMMA HandleEffect ==
  ASSUME NEW e \in Event, Handle(e)
  PROVE  Effect(e)
<1>1. CASE /\ e \in ProgramEvent /\ UNCHANGED bindings
           /\ IF selector THEN SceneOr(GoScene(e.program, 0), e.program) ELSE UNCHANGED vars
  BY <1>1 DEF SceneOr, OpOnScene, Effect
<1>2. CASE /\ e \in ButtonEvent
           /\ IF Matches(e.ctl) # {} THEN HandleButton(Find(e.ctl), e.pressed)
                                     ELSE UNCHANGED <<vars, bindings>>
  BY <1>2, ButtonEffect DEF Effect
<1>3. CASE /\ e \in ContinuousEvent /\ UNCHANGED bindings
           /\ IF Matches(e.ctl) # {} THEN HandleContinuous(bindings[Find(e.ctl)], e.value)
                                     ELSE UNCHANGED <<vars, setting>>
  BY <1>3, ContinuousEffect DEF Effect
<1>. QED BY <1>1, <1>2, <1>3 DEF Handle

(* Dispatch keeps the show's invariant, the table, and the definitions.        *)
LEMMA EffectKeeps ==
  ASSUME ShowInv, ControlType, NEW e, Effect(e)
  PROVE  /\ ShowInv' /\ bindings' \in Seq(BindingRecord) /\ SameBindings
         /\ cues' = cues /\ scenes' = scenes
<1>1. UNCHANGED vars \/ (\E c : OpOn(c)) \/ (\E s : OpOnScene(s))
  BY DEF Effect
<1>2. ShowInv' /\ cues' = cues /\ scenes' = scenes
  BY <1>1, OpsOperate, OpsKeepTables, NextKeepsInv DEF Next
<1>3. bindings' \in Seq(BindingRecord) /\ SameBindings
  <2>1. CASE UNCHANGED bindings
    BY <2>1 DEF ControlType, SameBindings
  <2>2. CASE Matches(e.ctl) # {} /\ Latch(Find(e.ctl), ~ bindings[Find(e.ctl)].latched)
    <3>1. Find(e.ctl) \in DOMAIN bindings
      BY <2>2, FindFinds
    <3>. DEFINE turned == ~ bindings[Find(e.ctl)].latched
    <3>2. turned \in BOOLEAN /\ Latch(Find(e.ctl), turned)
      BY <2>2
    <3>. HIDE DEF turned
    <3>. QED BY <3>1, <3>2, LatchKeeps
  <2>. QED BY <2>1, <2>2 DEF Effect
<1>. QED BY <1>2, <1>3

--------------------------------------------------------------------------------
(* A pad and its cue.                                                          *)

\* Sole, whatever the faders left held.
Alone(p, a) ==
  /\ Matches(p) # {}
  /\ bindings[Find(p)].action = a
  /\ cues[CueOf(p)].hold = 0
  /\ \A j \in DOMAIN bindings \ {Find(p)} : ~ Drives(bindings[j], CueOf(p))
  /\ selector => \A s \in DOMAIN scenes : CueOf(p) \notin Listed(scenes[s])

LEMMA SoleIsAlone ==
  ASSUME NEW p, NEW a
  PROVE  Sole(p, a) <=> Alone(p, a) /\ CueOf(p) \notin manual
BY DEF Sole, Alone, CueOf

LEMMA SoleIsAloneNext ==
  ASSUME NEW p, NEW a
  PROVE  Sole(p, a)' <=> Alone(p, a)' /\ CueOf(p)' \notin manual'
BY DEF Sole, Alone, CueOf

(* While the table, the definitions and the selector stay, so does a pad's     *)
(* claim on its cue.                                                           *)
LEMMA AloneStays ==
  ASSUME ControlType, SameBindings, cues' = cues, scenes' = scenes, selector' = selector,
         NEW p, NEW a, Alone(p, a)'
  PROVE  Alone(p, a) /\ CueOf(p)' = CueOf(p)
<1>1. Matches(p)' = Matches(p) /\ Find(p)' = Find(p)
  BY FindStays
<1>2. Matches(p) # {}
  BY <1>1 DEF Alone
<1>3. Find(p) \in DOMAIN bindings
  BY <1>2, FindFinds
<1>4. CueOf(p)' = CueOf(p)
  BY <1>1, <1>3 DEF CueOf, SameBindings
<1>5. bindings[Find(p)].action = a
  BY <1>1, <1>3 DEF Alone, SameBindings
<1>6. ASSUME NEW j \in DOMAIN bindings \ {Find(p)} PROVE ~ Drives(bindings[j], CueOf(p))
  <2>1. ~ Drives(bindings[j], CueOf(p))'
    BY <1>1, <1>6 DEF Alone, SameBindings
  <2>. QED BY <1>4, <1>6, <2>1 DEF Drives, SameBindings
<1>. QED BY <1>1, <1>2, <1>4, <1>5, <1>6 DEF Alone

(* Dispatching an event of another control leaves a pad's cue and latch alone. *)
LEMMA OtherControl ==
  ASSUME ControlType, NEW p \in Pad, NEW e \in Event, e \notin PadEvent(p), Effect(e),
         NEW a \in {"CueFlash", "CueToggle"}, Alone(p, a)
  PROVE  Still(CueOf(p)) /\ bindings'[Find(p)] = bindings[Find(p)]
<1>1. Find(p) \in DOMAIN bindings /\ bindings[Find(p)].ctl = p
  BY FindFinds DEF Alone
<1>2. CASE UNCHANGED <<vars, bindings>>
  BY <1>2, UnchangedIsStill
<1>3. CASE /\ e \in ProgramEvent /\ selector /\ UNCHANGED bindings
           /\ e.program \in DOMAIN scenes /\ OpOnScene(e.program)
  BY <1>3, SceneOpIsStill DEF Alone
<1>4. CASE /\ e \in ButtonEvent \cup ContinuousEvent /\ Matches(e.ctl) # {}
           /\ \/ OpOn(CueOf(e.ctl)) /\ bindings[Find(e.ctl)].action \in {"CueFlash", "CueToggle", "CueLevel"}
              \/ /\ CueOf(e.ctl) \in DOMAIN scenes
                 /\ OpOnScene(CueOf(e.ctl)) /\ bindings[Find(e.ctl)].action \in {"SceneGo", "SceneToggle"}
              \/ UNCHANGED vars
           /\ UNCHANGED bindings \/ Latch(Find(e.ctl), ~ bindings[Find(e.ctl)].latched)
  <2>1. e.ctl # p
    <3>1. CASE e \in ButtonEvent
      BY <3>1 DEF ButtonEvent, PadEvent, Press, Lift
    <3>2. CASE e \in ContinuousEvent
      <4>1. e.ctl \in Fader
        BY <3>2 DEF ContinuousEvent, Move
      <4>. QED BY <4>1, LiveAssumption
    <3>. QED BY <1>4, <3>1, <3>2
  <2>2. Find(e.ctl) \in DOMAIN bindings /\ bindings[Find(e.ctl)].ctl = e.ctl
    BY <1>4, FindFinds
  <2>3. Find(e.ctl) # Find(p)
    BY <1>1, <2>1, <2>2
  <2>4. ~ Drives(bindings[Find(e.ctl)], CueOf(p))
    BY <2>2, <2>3 DEF Alone
  <2>5. Still(CueOf(p))
    <3>1. CASE OpOn(CueOf(e.ctl)) /\ bindings[Find(e.ctl)].action \in {"CueFlash", "CueToggle", "CueLevel"}
      <4>1. CueOf(e.ctl) # CueOf(p)
        BY <2>4, <3>1 DEF Drives, CueOf
      <4>. QED BY <3>1, <4>1, OpIsStill
    <3>2. CASE /\ CueOf(e.ctl) \in DOMAIN scenes
               /\ OpOnScene(CueOf(e.ctl)) /\ bindings[Find(e.ctl)].action \in {"SceneGo", "SceneToggle"}
      <4>1. CueOf(p) \notin Listed(scenes[CueOf(e.ctl)])
        BY <2>4, <3>2 DEF Drives, CueOf
      <4>. QED BY <3>2, <4>1, SceneOpIsStill
    <3>. QED BY <1>4, <3>1, <3>2, UnchangedIsStill
  <2>6. bindings'[Find(p)] = bindings[Find(p)]
    BY <1>1, <1>4, <2>3 DEF Latch
  <2>. QED BY <2>5, <2>6
<1>. QED BY <1>2, <1>3, <1>4 DEF Effect

LEMMA PlayingNext ==
  ASSUME ControlType, SameBindings, NEW p, Matches(p) # {}
  PROVE  /\ Playing(p)' <=> CueOf(p) \in active' \ released'
         /\ Find(p)' = Find(p)
<1>1. Find(p)' = Find(p) /\ Find(p) \in DOMAIN bindings
  BY FindStays, FindFinds
<1>2. CueOf(p)' = CueOf(p)
  BY <1>1 DEF CueOf, SameBindings
<1>. QED BY <1>1, <1>2 DEF Playing

(* A pad's own event is dispatched to the binding found for it.                *)
LEMMA OwnButton ==
  ASSUME NEW p \in Pad, NEW e \in PadEvent(p), Handle(e), Matches(p) # {}
  PROVE  HandleButton(Find(p), e.pressed)
BY PadEventsApart DEF Handle

(* Whatever came before, a flash pad's event starts or releases its cue.       *)
LEMMA OwnFlash ==
  ASSUME NEW p \in Pad, NEW e \in PadEvent(p), Handle(e), Alone(p, "CueFlash")
  PROVE  CueOf(p) \in active' \ released' <=> e = Press(p)
<1>1. HandleFlash(bindings[Find(p)], e.pressed)
  BY OwnButton DEF Alone, HandleButton
<1>2. Listed(<<CueOf(p)>>) = {CueOf(p)}
  BY DEF Listed
<1>3. CASE e = Press(p)
  <2>1. Go(CueOf(p), 0)
    BY <1>1, <1>3, PadEventsApart DEF HandleFlash, CueOf
  <2>. QED BY <1>2, <1>3, <2>1 DEF Go, GoEach
<1>4. CASE e # Press(p)
  <2>1. Release(CueOf(p), 0)
    BY <1>1, <1>4, PadEventsApart DEF HandleFlash, CueOf
  <2>. QED BY <1>2, <1>4, <2>1 DEF Release, ReleaseEach
<1>. QED BY <1>3, <1>4

(* Whatever came before, a toggle pad's press leaves latch and cue in step; the *)
(* end of the press changes neither.                                           *)
LEMMA OwnToggle ==
  ASSUME ControlType, NEW p \in Pad, NEW e \in PadEvent(p), Handle(e), Alone(p, "CueToggle")
  PROVE  IF e = Press(p)
         THEN bindings'[Find(p)].latched <=> CueOf(p) \in active' \ released'
         ELSE UNCHANGED <<vars, bindings>>
<1>1. HandleToggle(Find(p), e.pressed)
  BY OwnButton DEF Alone, HandleButton
<1>2. Listed(<<CueOf(p)>>) = {CueOf(p)}
  BY DEF Listed
<1>3. Find(p) \in DOMAIN bindings
  BY FindFinds DEF Alone
<1>. DEFINE latched == bindings[Find(p)].latched
<1>4. CASE e = Press(p) /\ latched
  <2>1. Release(CueOf(p), 0) /\ Latch(Find(p), FALSE)
    BY <1>1, <1>4, PadEventsApart DEF HandleToggle, CueOf
  <2>2. bindings'[Find(p)].latched = FALSE
    BY <1>3, <2>1, LatchKeeps
  <2>. QED BY <1>2, <1>4, <2>1, <2>2 DEF Release, ReleaseEach
<1>5. CASE e = Press(p) /\ ~ latched
  <2>1. Go(CueOf(p), 0) /\ Latch(Find(p), TRUE)
    BY <1>1, <1>5, PadEventsApart DEF HandleToggle, CueOf
  <2>2. bindings'[Find(p)].latched = TRUE
    BY <1>3, <2>1, LatchKeeps
  <2>. QED BY <1>2, <1>5, <2>1, <2>2 DEF Go, GoEach
<1>6. CASE e # Press(p)
  BY <1>1, <1>6, PadEventsApart DEF HandleToggle
<1>. QED BY <1>4, <1>5, <1>6

--------------------------------------------------------------------------------
(* Dispatching the head of the queue.                                          *)

LEMMA QueueTail ==
  ASSUME ControlType, queue # <<>>, queue' = Tail(queue)
  PROVE  /\ queue' \in Seq(Event) /\ Head(queue) \in Event /\ Head(queue) = queue[1]
         /\ 1 \in DOMAIN queue
         /\ \A i \in DOMAIN queue' : i + 1 \in DOMAIN queue /\ queue'[i] = queue[i + 1]
         /\ \A i \in DOMAIN queue : i > 1 => i - 1 \in DOMAIN queue' /\ queue'[i - 1] = queue[i]
<1>1. queue \in Seq(Event) /\ Len(queue) \in Nat /\ DOMAIN queue = 1 .. Len(queue)
  BY LenProperties DEF ControlType
<1>2. /\ Head(queue) \in Event /\ Head(queue) = queue[1] /\ Tail(queue) \in Seq(Event)
      /\ Len(Tail(queue)) = Len(queue) - 1
      /\ \A i \in 1 .. Len(Tail(queue)) : Tail(queue)[i] = queue[i + 1]
  BY <1>1, HeadTailProperties
<1>3. Len(queue) # 0
  BY <1>1, EmptySeq, LenProperties
<1>4. DOMAIN queue' = 1 .. Len(queue) - 1
  BY <1>2, LenProperties
<1>. QED BY <1>1, <1>2, <1>3, <1>4

LEMMA DispatchQueue ==
  ASSUME ControlType, QueueTruth, queue # <<>>, queue' = Tail(queue), UNCHANGED <<down, lost>>
  PROVE  QueueTruth'
<1>1. ASSUME NEW p \in Pad \ lost, NEW i \in DOMAIN queue', LastOf(p, i)'
      PROVE  queue'[i] = Finger(p)
  <2>1. i + 1 \in DOMAIN queue /\ queue'[i] = queue[i + 1] /\ i \in Int
    BY QueueTail, LenProperties DEF ControlType
  <2>2. queue[i + 1] \in PadEvent(p)
    BY <1>1, <2>1 DEF LastOf, PadEvent, Press, Lift
  <2>3. ASSUME NEW j \in DOMAIN queue, j > i + 1 PROVE queue[j] \notin PadEvent(p)
    <3>1. j \in Int /\ i \in Nat
      BY <2>1, QueueTail, LenProperties DEF ControlType
    <3>2. j - 1 \in DOMAIN queue' /\ queue'[j - 1] = queue[j] /\ j - 1 > i
      BY <2>1, <2>3, <3>1, QueueTail
    <3>. QED BY <1>1, <3>2 DEF LastOf, PadEvent, Press, Lift
  <2>4. LastOf(p, i + 1)
    BY <2>2, <2>3 DEF LastOf
  <2>. QED BY <2>1, <2>4 DEF QueueTruth
<1>. QED BY <1>1 DEF QueueTruth, Finger, Press, Lift

\* The step that dispatches the head of the queue, without its bounds.
DispatchStep ==
  /\ queue # <<>> /\ Handle(Head(queue)) /\ queue' = Tail(queue)
  /\ UNCHANGED <<selector, down, lost, meddled>>

(* A pad that is sole on its cue after the step was so before it: what another *)
(* control does reaches neither its cue nor its latch.                         *)
LEMMA SoleBefore ==
  ASSUME ShowInv, ControlType, DispatchStep, NEW p \in Pad,
         NEW a \in {"CueFlash", "CueToggle"}, Sole(p, a)'
  PROVE  /\ Alone(p, a) /\ Find(p)' = Find(p) /\ Head(queue) \in Event
         /\ Playing(p)' <=> CueOf(p) \in active' \ released'
         /\ Head(queue) \notin PadEvent(p) =>
              /\ Sole(p, a) /\ bindings'[Find(p)] = bindings[Find(p)]
              /\ Playing(p)' <=> Playing(p)
<1>1. Head(queue) \in Event /\ Effect(Head(queue))
  BY QueueTail, HandleEffect DEF DispatchStep
<1>2. SameBindings /\ cues' = cues /\ scenes' = scenes
  BY <1>1, EffectKeeps
<1>3. Alone(p, a) /\ CueOf(p)' = CueOf(p) /\ CueOf(p)' \notin manual'
  BY <1>2, AloneStays, SoleIsAloneNext DEF DispatchStep
<1>4. Find(p)' = Find(p) /\ (Playing(p)' <=> CueOf(p) \in active' \ released')
  BY <1>2, <1>3, PlayingNext DEF Alone
<1>5. ASSUME Head(queue) \notin PadEvent(p)
      PROVE  /\ Sole(p, a) /\ bindings'[Find(p)] = bindings[Find(p)]
             /\ Playing(p)' <=> Playing(p)
  <2>1. Still(CueOf(p)) /\ bindings'[Find(p)] = bindings[Find(p)]
    BY <1>1, <1>3, <1>5, OtherControl
  <2>. QED BY <1>3, <1>4, <2>1, SoleIsAlone DEF Still, Playing
<1>. QED BY <1>1, <1>3, <1>4, <1>5

LEMMA DispatchFlash ==
  ASSUME LiveInv, DispatchStep
  PROVE  FlashFollowsFinger'
<1>. USE DEF LiveInv
<1>1. SUFFICES ASSUME NEW p \in Pad, p \notin lost, p \notin meddled,
                      Sole(p, "CueFlash")', ~ Pending(p)'
               PROVE  p \in down <=> Playing(p)'
  BY DEF FlashFollowsFinger, DispatchStep
<1>2. /\ queue' \in Seq(Event) /\ Head(queue) = queue[1] /\ 1 \in DOMAIN queue
      /\ \A i \in DOMAIN queue : i \in Int /\ i >= 1
      /\ \A i \in DOMAIN queue : i > 1 => queue[i] \notin PadEvent(p)
  <2>1. \A i \in DOMAIN queue : i > 1 => i - 1 \in DOMAIN queue' /\ queue'[i - 1] = queue[i]
    BY QueueTail DEF DispatchStep
  <2>2. \A i \in DOMAIN queue' : queue'[i] \notin PadEvent(p)
    BY <1>1 DEF Pending, PadEvent, Press, Lift
  <2>3. DOMAIN queue = 1 .. Len(queue) /\ Len(queue) \in Nat
    BY LenProperties DEF ControlType
  <2>. QED BY <2>1, <2>2, <2>3, QueueTail DEF DispatchStep
<1>3. CASE Head(queue) \in PadEvent(p)
  <2>1. LastOf(p, 1)
    BY <1>2, <1>3 DEF LastOf
  <2>2. Head(queue) = Finger(p)
    BY <1>1, <1>2, <2>1 DEF QueueTruth
  <2>3. Alone(p, "CueFlash") /\ (Playing(p)' <=> CueOf(p) \in active' \ released')
    BY <1>1, SoleBefore
  <2>4. Playing(p)' <=> Head(queue) = Press(p)
    BY <1>3, <2>3, OwnFlash DEF DispatchStep
  <2>5. Press(p) # Lift(p)
    BY DEF Press, Lift
  <2>. QED BY <2>2, <2>4, <2>5 DEF Finger
<1>4. CASE Head(queue) \notin PadEvent(p)
  <2>1. ~ Pending(p)
    <3>1. \A i \in DOMAIN queue : queue[i] \notin PadEvent(p)
      BY <1>2, <1>4
    <3>. QED BY <3>1 DEF Pending, PadEvent
  <2>2. Sole(p, "CueFlash") /\ (Playing(p)' <=> Playing(p))
    BY <1>1, <1>4, SoleBefore
  <2>. QED BY <1>1, <2>1, <2>2 DEF FlashFollowsFinger
<1>. QED BY <1>3, <1>4

LEMMA DispatchLatch ==
  ASSUME LiveInv, DispatchStep
  PROVE  LatchTruth'
<1>. USE DEF LiveInv
<1>1. SUFFICES ASSUME NEW p \in Pad, p \notin meddled,
                      Sole(p, "CueToggle")', ~ PressWaits(p)'
               PROVE  bindings'[Find(p)'].latched <=> Playing(p)'
  BY DEF LatchTruth, DispatchStep
<1>2. Alone(p, "CueToggle") /\ Find(p)' = Find(p)
      /\ (Playing(p)' <=> CueOf(p) \in active' \ released')
  BY <1>1, SoleBefore
<1>3. CASE Head(queue) = Press(p)
  BY <1>2, <1>3, OwnToggle DEF PadEvent, DispatchStep
<1>4. ASSUME Head(queue) # Press(p) PROVE ~ PressWaits(p)
  <2>1. \A i \in DOMAIN queue : i > 1 => i - 1 \in DOMAIN queue' /\ queue'[i - 1] = queue[i]
    BY QueueTail DEF DispatchStep
  <2>2. \A i \in DOMAIN queue' : queue'[i] # Press(p)
    BY <1>1 DEF PressWaits, Press
  <2>3. DOMAIN queue = 1 .. Len(queue) /\ Len(queue) \in Nat /\ Head(queue) = queue[1]
    BY LenProperties, QueueTail DEF ControlType, DispatchStep
  <2>. QED BY <1>4, <2>1, <2>2, <2>3 DEF PressWaits
<1>5. CASE Head(queue) = Lift(p)
  <2>1. Press(p) # Lift(p)
    BY DEF Press, Lift
  <2>2. UNCHANGED <<vars, bindings>>
    BY <1>2, <1>5, <2>1, OwnToggle DEF PadEvent, DispatchStep
  <2>3. Sole(p, "CueToggle") /\ (Playing(p)' <=> Playing(p))
    <3>1. CueOf(p) \notin manual
      BY <1>1, <1>2, <2>2, SoleIsAloneNext DEF CueOf, vars
    <3>. QED BY <1>2, <2>2, <3>1, SoleIsAlone DEF Playing, vars
  <2>. QED BY <1>1, <1>2, <1>4, <1>5, <2>1, <2>2, <2>3 DEF LatchTruth
<1>6. CASE Head(queue) \notin PadEvent(p)
  <2>1. /\ Sole(p, "CueToggle") /\ bindings'[Find(p)] = bindings[Find(p)]
        /\ Playing(p)' <=> Playing(p)
    BY <1>1, <1>6, SoleBefore
  <2>2. ~ PressWaits(p)
    BY <1>4, <1>6 DEF PadEvent
  <2>. QED BY <1>1, <1>2, <2>1, <2>2 DEF LatchTruth
<1>. QED BY <1>3, <1>5, <1>6 DEF PadEvent

LEMMA DispatchKeepsInv ==
  ASSUME LiveInv, Dispatch
  PROVE  LiveInv'
<1>1. DispatchStep /\ phase = "pump" /\ phase' = "pump" /\ luaLag' = luaLag
  BY DEF Dispatch, DispatchStep, Goto
<1>2. ShowInv' /\ bindings' \in Seq(BindingRecord) /\ queue' \in Seq(Event)
  BY <1>1, QueueTail, HandleEffect, EffectKeeps DEF LiveInv, DispatchStep
<1>3. ControlType'
  BY <1>1, <1>2 DEF LiveInv, ControlType, DispatchStep
<1>4. QueueTruth'
  BY <1>1, DispatchQueue DEF LiveInv, DispatchStep
<1>5. BootTruth'
  BY <1>1 DEF BootTruth
<1>. QED BY <1>1, <1>2, <1>3, <1>4, <1>5, DispatchFlash, DispatchLatch DEF LiveInv

--------------------------------------------------------------------------------
(* Frames: time passes, cues are evaluated, nothing else moves a pad's cue.    *)

\* The controls, the queue and the table stay.
Quiet ==
  /\ UNCHANGED <<queue, bindings, selector, down, lost, meddled, cues, scenes>>
  /\ \A p \in Pad \ meddled, a \in {"CueFlash", "CueToggle"} : Alone(p, a) => Still(CueOf(p))

LEMMA QuietKeepsPads ==
  ASSUME LiveInv, Quiet
  PROVE  QueueTruth' /\ FlashFollowsFinger' /\ LatchTruth'
<1>. USE DEF LiveInv
<1>1. SameBindings
  BY DEF Quiet, SameBindings
<1>2. ASSUME NEW p \in Pad \ meddled, NEW a \in {"CueFlash", "CueToggle"}, Sole(p, a)'
      PROVE  Sole(p, a) /\ Find(p)' = Find(p) /\ (Playing(p)' <=> Playing(p))
  <2>1. Alone(p, a) /\ CueOf(p)' = CueOf(p) /\ CueOf(p)' \notin manual'
    BY <1>1, <1>2, AloneStays, SoleIsAloneNext DEF Quiet
  <2>2. Still(CueOf(p))
    BY <2>1 DEF Quiet
  <2>3. Find(p)' = Find(p) /\ (Playing(p)' <=> CueOf(p) \in active' \ released')
    BY <1>1, <2>1, PlayingNext DEF Alone
  <2>. QED BY <2>1, <2>2, <2>3, SoleIsAlone DEF Still, Playing
<1>3. QueueTruth'
  BY DEF QueueTruth, Quiet, LastOf, PadEvent, Finger, Press, Lift
<1>4. FlashFollowsFinger'
  <2>1. SUFFICES ASSUME NEW p \in Pad, p \notin lost, p \notin meddled,
                        Sole(p, "CueFlash")', ~ Pending(p)'
                 PROVE  p \in down <=> Playing(p)'
    BY DEF FlashFollowsFinger, Quiet
  <2>2. ~ Pending(p)
    BY <2>1 DEF Pending, Quiet, Press, Lift
  <2>. QED BY <1>2, <2>1, <2>2 DEF FlashFollowsFinger
<1>5. LatchTruth'
  <2>1. SUFFICES ASSUME NEW p \in Pad, p \notin meddled,
                        Sole(p, "CueToggle")', ~ PressWaits(p)'
                 PROVE  bindings'[Find(p)'].latched <=> Playing(p)'
    BY DEF LatchTruth, Quiet
  <2>2. ~ PressWaits(p)
    BY <2>1 DEF PressWaits, Quiet, Press
  <2>3. bindings' = bindings
    BY DEF Quiet
  <2>. QED BY <1>2, <2>1, <2>2, <2>3 DEF LatchTruth
<1>. QED BY <1>3, <1>4, <1>5

LEMMA StillKeepsInv ==
  ASSUME LiveInv, UNCHANGED <<vars, queue, bindings, selector, down, lost, meddled>>,
         luaLag' \in 0 .. MaxLag + 1, phase' = "boot" => phase = "boot"
  PROVE  LiveInv'
<1>1. Quiet
  BY UnchangedIsStill DEF Quiet, vars
<1>2. ShowInv'
  BY NextKeepsInv DEF LiveInv
<1>3. ControlType'
  BY DEF LiveInv, ControlType
<1>4. BootTruth'
  BY DEF LiveInv, BootTruth, vars
<1>. QED BY <1>1, <1>2, <1>3, <1>4, QuietKeepsPads DEF LiveInv

LEMMA BeginFrameKeepsInv ==
  ASSUME LiveInv, BeginFrame
  PROVE  LiveInv'
<1>1. UNCHANGED <<cues, scenes, active, released, manual, queue, bindings, selector, down, lost, meddled>>
  BY DEF BeginFrame, Advance
<1>2. Quiet
  BY <1>1 DEF Quiet, Still
<1>3. ShowInv'
  BY NextKeepsInv DEF LiveInv, BeginFrame, Next
<1>4. luaLag' \in 0 .. MaxLag + 1
  BY ConstantTypes DEF LiveInv, ControlType, BeginFrame
<1>5. ControlType' /\ BootTruth'
  BY <1>1, <1>4 DEF LiveInv, ControlType, BootTruth, BeginFrame, Goto
<1>. QED BY <1>2, <1>3, <1>5, QuietKeepsPads DEF LiveInv

(* A frame retires no cue that plays until it is released.                     *)
LEMMA RenderKeepsInv ==
  ASSUME LiveInv, Render
  PROVE  LiveInv'
<1>1. UNCHANGED <<cues, scenes, released, manual, queue, bindings, selector, down, lost, meddled>>
      /\ active' = Evaluated
  BY DEF Render, Evaluate
<1>2. ASSUME NEW p \in Pad, NEW a, Alone(p, a) PROVE Still(CueOf(p))
  BY <1>1, <1>2 DEF Alone, Still, Evaluated, Alive
<1>3. Quiet
  BY <1>1, <1>2 DEF Quiet
<1>4. ShowInv'
  BY NextKeepsInv DEF LiveInv, Render, Next
<1>5. luaLag' \in 0 .. MaxLag + 1
  BY ConstantTypes DEF LiveInv, ControlType, Render
<1>6. ControlType' /\ BootTruth'
  BY <1>1, <1>5 DEF LiveInv, ControlType, BootTruth, Render, Goto
<1>. QED BY <1>3, <1>4, <1>6, QuietKeepsPads DEF LiveInv

(* The safe blackout before the first frame stops what boot.fnl started, and   *)
(* nothing else was playing.                                                   *)
LEMMA StartKeepsInv ==
  ASSUME LiveInv, StartRendering
  PROVE  LiveInv'
<1>1. CASE UNCHANGED vars
  BY <1>1, StillKeepsInv DEF StartRendering, Goto, LiveInv, ControlType
<1>2. CASE StopAll
  <2>1. /\ UNCHANGED <<cues, scenes, queue, bindings, selector, down, lost, meddled, luaLag>>
        /\ active' = {} /\ phase' = "idle"
    BY <1>2 DEF StartRendering, StopAll, Goto
  <2>2. ASSUME NEW p \in Pad \ meddled, NEW a, Alone(p, a) PROVE Still(CueOf(p))
    <3>1. active = {}
      BY <2>2 DEF LiveInv, BootTruth, StartRendering
    <3>2. manual = {}
      BY <3>1 DEF LiveInv, ShowInv, OverrideIsActive
    <3>. QED BY <2>1, <3>1, <3>2 DEF Still
  <2>3. Quiet
    BY <2>1, <2>2 DEF Quiet
  <2>4. ShowInv'
    BY <1>2, NextKeepsInv DEF LiveInv, Next, Operate
  <2>5. ControlType' /\ BootTruth'
    BY <2>1 DEF LiveInv, ControlType, BootTruth
  <2>. QED BY <2>3, <2>4, <2>5, QuietKeepsPads DEF LiveInv
<1>. QED BY <1>1, <1>2 DEF StartRendering

--------------------------------------------------------------------------------
(* Transports.                                                                 *)

\* What a transport does to the queue.
Sent(e) ==
  /\ UNCHANGED <<vars, bindings, selector>>
  /\ queue' = IF Len(queue) < QueueSize THEN Append(queue, e) ELSE queue

LEMMA QueueAppend ==
  ASSUME ControlType, NEW e \in Event, Sent(e)
  PROVE  /\ queue' \in Seq(Event)
         /\ \A i \in DOMAIN queue : i \in Int /\ i \in DOMAIN queue' /\ queue'[i] = queue[i]
         /\ IF Len(queue) < QueueSize
            THEN /\ Len(queue) + 1 \in DOMAIN queue' /\ queue'[Len(queue) + 1] = e
                 /\ \A i \in DOMAIN queue : i < Len(queue) + 1
                 /\ \A i \in DOMAIN queue' : i \in DOMAIN queue \/ i = Len(queue) + 1
            ELSE queue' = queue
<1>1. queue \in Seq(Event) /\ Len(queue) \in Nat /\ DOMAIN queue = 1 .. Len(queue)
  BY LenProperties DEF ControlType
<1>2. CASE Len(queue) < QueueSize
  <2>1. /\ queue' \in Seq(Event) /\ Len(queue') = Len(queue) + 1
        /\ \A i \in 1 .. Len(queue) : queue'[i] = queue[i]
        /\ queue'[Len(queue) + 1] = e
    BY <1>1, <1>2, AppendProperties DEF Sent
  <2>2. DOMAIN queue' = 1 .. Len(queue) + 1
    BY <1>1, <2>1, LenProperties
  <2>. QED BY <1>1, <1>2, <2>1, <2>2
<1>3. CASE ~ (Len(queue) < QueueSize)
  BY <1>1, <1>3 DEF Sent
<1>. QED BY <1>2, <1>3

(* The pads an event is not of keep the events that wait for them.             *)
LEMMA SentBesides ==
  ASSUME ControlType, NEW e \in Event, Sent(e), NEW p \in Pad, e \notin PadEvent(p)
  PROVE  /\ Pending(p)' <=> Pending(p)
         /\ PressWaits(p)' <=> PressWaits(p)
         /\ \A i \in DOMAIN queue' : LastOf(p, i)' =>
              i \in DOMAIN queue /\ LastOf(p, i) /\ queue'[i] = queue[i]
<1>1. \A i \in DOMAIN queue : i \in DOMAIN queue' /\ queue'[i] = queue[i]
  BY QueueAppend
<1>2. ASSUME NEW i \in DOMAIN queue', queue'[i] \in PadEvent(p) PROVE i \in DOMAIN queue
  BY <1>2, QueueAppend
<1>3. Pending(p)' <=> Pending(p)
  BY <1>1, <1>2 DEF Pending, PadEvent, Press, Lift
<1>4. PressWaits(p)' <=> PressWaits(p)
  BY <1>1, <1>2 DEF PressWaits, PadEvent, Press
<1>5. ASSUME NEW i \in DOMAIN queue', LastOf(p, i)'
      PROVE  i \in DOMAIN queue /\ LastOf(p, i) /\ queue'[i] = queue[i]
  <2>1. queue'[i] \in PadEvent(p)
    BY <1>5 DEF LastOf, PadEvent, Press, Lift
  <2>2. \A j \in DOMAIN queue' : j > i => queue'[j] \notin PadEvent(p)
    BY <1>5 DEF LastOf, PadEvent, Press, Lift
  <2>. QED BY <1>1, <1>2, <2>1, <2>2 DEF LastOf
<1>. QED BY <1>3, <1>4, <1>5

(* An accepted event of a pad is its last.                                     *)
LEMMA SentOwn ==
  ASSUME ControlType, NEW e \in Event, Sent(e), NEW p \in Pad, e \in PadEvent(p),
         Len(queue) < QueueSize
  PROVE  /\ Pending(p)' /\ (e = Press(p) => PressWaits(p)')
         /\ \A i \in DOMAIN queue' : LastOf(p, i)' => queue'[i] = e
<1>1. Len(queue) + 1 \in DOMAIN queue' /\ queue'[Len(queue) + 1] = e
  BY QueueAppend
<1>2. ASSUME NEW i \in DOMAIN queue', LastOf(p, i)' PROVE queue'[i] = e
  <2>1. \A j \in DOMAIN queue' : j > i => queue'[j] \notin PadEvent(p)
    BY <1>2 DEF LastOf, PadEvent, Press, Lift
  <2>2. ~ (Len(queue) + 1 > i)
    BY <1>1, <2>1
  <2>3. i = Len(queue) + 1
    <3>1. CASE i \in DOMAIN queue
      <4>1. i < Len(queue) + 1 /\ i \in Int /\ Len(queue) \in Nat
        BY <3>1, QueueAppend, LenProperties DEF ControlType
      <4>. QED BY <2>2, <4>1
    <3>. QED BY <3>1, QueueAppend
  <2>. QED BY <1>1, <2>3
<1>. QED BY <1>1, <1>2 DEF Pending, PressWaits, PadEvent, Press, Lift

\* How a transport's event of a pad changes what is known of the pad.
PadNews(e) ==
  \A p \in Pad :
    IF e \in PadEvent(p)
    THEN /\ e = Press(p) <=> p \in down'
         /\ p \notin meddled' => p \notin meddled \/ (e = Press(p) /\ Len(queue) < QueueSize)
         /\ Len(queue) < QueueSize \/ p \in lost'
    ELSE /\ p \in down' <=> p \in down
         /\ p \in lost' <=> p \in lost
         /\ p \in meddled' <=> p \in meddled

LEMMA SentKeepsInv ==
  ASSUME LiveInv, NEW e \in Event, Sent(e), PadNews(e), phase # "boot",
         UNCHANGED <<phase, luaLag>>, {down', lost', meddled'} \subseteq SUBSET Pad
  PROVE  LiveInv'
<1>. USE DEF LiveInv
<1>1. ShowInv'
  BY NextKeepsInv DEF Sent
<1>2. ControlType' /\ BootTruth'
  BY QueueAppend DEF ControlType, BootTruth, Sent
<1>3. ASSUME NEW p \in Pad, NEW a
      PROVE  /\ Sole(p, a)' <=> Sole(p, a)
             /\ Playing(p)' <=> Playing(p)
             /\ bindings'[Find(p)'] = bindings[Find(p)]
  BY DEF Sent, vars, Sole, Playing, CueOf, Find, Matches, Drives
<1>4. QueueTruth'
  <2>1. SUFFICES ASSUME NEW p \in Pad, p \notin lost', NEW i \in DOMAIN queue', LastOf(p, i)'
                 PROVE  queue'[i] = IF p \in down' THEN Press(p) ELSE Lift(p)
    BY DEF QueueTruth, Finger, Press, Lift
  <2>2. CASE e \in PadEvent(p)
    BY <2>1, <2>2, SentOwn DEF PadNews, PadEvent
  <2>3. CASE e \notin PadEvent(p)
    BY <2>1, <2>3, SentBesides DEF PadNews, QueueTruth, Finger
  <2>. QED BY <2>2, <2>3
<1>5. FlashFollowsFinger'
  <2>1. SUFFICES ASSUME NEW p \in Pad, p \notin lost', p \notin meddled',
                        Sole(p, "CueFlash")', ~ Pending(p)'
                 PROVE  p \in down' <=> Playing(p)'
    BY DEF FlashFollowsFinger
  <2>2. e \notin PadEvent(p)
    BY <2>1, SentOwn DEF PadNews
  <2>. QED BY <1>3, <2>1, <2>2, SentBesides DEF PadNews, FlashFollowsFinger
<1>6. LatchTruth'
  <2>1. SUFFICES ASSUME NEW p \in Pad, p \notin meddled',
                        Sole(p, "CueToggle")', ~ PressWaits(p)'
                 PROVE  bindings'[Find(p)'].latched <=> Playing(p)'
    BY DEF LatchTruth
  <2>2. p \notin meddled /\ ~ PressWaits(p)
    <3>1. CASE e \in PadEvent(p)
      <4>1. p \notin meddled
        BY <2>1, <3>1, SentOwn DEF PadNews
      <4>2. \A i \in DOMAIN queue : i \in DOMAIN queue' /\ queue'[i] = queue[i]
        BY QueueAppend
      <4>. QED BY <2>1, <4>1, <4>2 DEF PressWaits, Press
    <3>2. CASE e \notin PadEvent(p)
      BY <2>1, <3>2, SentBesides DEF PadNews
    <3>. QED BY <3>1, <3>2
  <2>. QED BY <1>3, <2>1, <2>2 DEF LatchTruth
<1>. QED BY <1>1, <1>2, <1>4, <1>5, <1>6

(* Different pads send different events.                                       *)
LEMMA PadEventsDiffer ==
  ASSUME NEW p \in Pad, NEW q \in Pad, NEW e \in PadEvent(p), e \in PadEvent(q)
  PROVE  p = q
<1>1. e.ctl = p
  BY PadEventsApart
<1>2. e.ctl = q
  BY PadEventsApart
<1>. QED BY <1>1, <1>2

LEMMA TransportKeepsInv ==
  ASSUME LiveInv, Transport
  PROVE  LiveInv'
<1>. USE DEF LiveInv
<1>0. ASSUME NEW e, Send(e)
      PROVE  Sent(e) /\ phase # "boot" /\ UNCHANGED <<phase, luaLag>>
  BY <1>0 DEF Send, Sent
<1>1. ASSUME NEW p \in Pad, PressPad(p) PROVE LiveInv'
  <2>1. Press(p) \in PadEvent(p) /\ Press(p) \in Event /\ Send(Press(p))
    BY <1>1 DEF PadEvent, Event, ButtonEvent, PressPad
  <2>2. /\ down' = down \cup {p}
        /\ lost' = IF Len(queue) < QueueSize THEN lost \ {p} ELSE lost \cup {p}
        /\ meddled' = IF Len(queue) < QueueSize THEN meddled \ {p} ELSE meddled
    BY <1>1 DEF PressPad
  <2>3. PadNews(Press(p))
    <3>1. ASSUME NEW q \in Pad PROVE Press(p) \in PadEvent(q) <=> q = p
      BY <2>1, PadEventsDiffer
    <3>. QED BY <2>2, <3>1 DEF PadNews
  <2>4. {down', lost', meddled'} \subseteq SUBSET Pad
    BY <2>2 DEF ControlType
  <2>. QED BY <1>0, <2>1, <2>3, <2>4, SentKeepsInv
<1>2. ASSUME NEW p \in Pad, LiftPad(p) PROVE LiveInv'
  <2>1. Lift(p) \in PadEvent(p) /\ Lift(p) \in Event /\ Send(Lift(p)) /\ Lift(p) # Press(p)
    BY <1>2 DEF PadEvent, Event, ButtonEvent, LiftPad, Lift, Press
  <2>2. /\ down' = down \ {p} /\ meddled' = meddled
        /\ lost' = IF Len(queue) < QueueSize THEN lost ELSE lost \cup {p}
    BY <1>2 DEF LiftPad
  <2>3. PadNews(Lift(p))
    <3>1. ASSUME NEW q \in Pad PROVE Lift(p) \in PadEvent(q) <=> q = p
      BY <2>1, PadEventsDiffer
    <3>. QED BY <2>1, <2>2, <3>1 DEF PadNews
  <2>4. {down', lost', meddled'} \subseteq SUBSET Pad
    BY <2>2 DEF ControlType
  <2>. QED BY <1>0, <2>1, <2>3, <2>4, SentKeepsInv
<1>3. ASSUME NEW e \in ContinuousEvent \cup ProgramEvent, Send(e), UNCHANGED <<down, lost, meddled>>
      PROVE  LiveInv'
  <2>1. \A p \in Pad : e \notin PadEvent(p)
    BY <1>3, PadEventsApart
  <2>2. PadNews(e)
    BY <1>3, <2>1 DEF PadNews
  <2>3. {down', lost', meddled'} \subseteq SUBSET Pad /\ e \in Event
    BY <1>3 DEF ControlType, Event
  <2>. QED BY <1>0, <1>3, <2>2, <2>3, SentKeepsInv
<1>4. ASSUME NEW f \in Fader, NEW v \in Levels \cup {0}, MoveFader(f, v) PROVE LiveInv'
  BY <1>3, <1>4 DEF MoveFader, ContinuousEvent
<1>5. ASSUME NEW s \in 1 .. MaxScenes, SendProgram(s) PROVE LiveInv'
  BY <1>3, <1>5 DEF SendProgram, ProgramEvent
<1>. QED BY <1>1, <1>2, <1>4, <1>5 DEF Transport

--------------------------------------------------------------------------------
(* The console and boot.fnl.                                                   *)

(* They may do what they like with cues and bindings: every pad is meddled     *)
(* with until it is pressed again.                                             *)
LEMMA MeddledKeepsInv ==
  ASSUME LiveInv, meddled' = Pad, UNCHANGED <<queue, luaLag, down, lost>>,
         phase' = "boot" => phase = "boot",
         ShowInv', bindings' \in Seq(BindingRecord)
  PROVE  LiveInv'
<1>1. ControlType'
  BY DEF LiveInv, ControlType
<1>2. BootTruth'
  BY DEF LiveInv, BootTruth
<1>3. QueueTruth'
  BY DEF LiveInv, QueueTruth, LastOf, PadEvent, Finger, Press, Lift
<1>4. FlashFollowsFinger' /\ LatchTruth'
  BY DEF FlashFollowsFinger, LatchTruth
<1>. QED BY <1>1, <1>2, <1>3, <1>4 DEF LiveInv

LEMMA ConsoleCueKeepsShow ==
  ASSUME LiveInv, ConsoleCue
  PROVE  ShowInv' /\ bindings' = bindings
<1>1. luaLag \in 0 .. MaxLag
  BY ConstantTypes DEF LiveInv, ControlType, ConsoleCue
<1>2. \A s \in DOMAIN scenes : s \in 1 .. MaxScenes
  BY LenProperties, ConstantTypes DEF LiveInv, ShowInv, TypeOK
<1>3. Operate
  BY <1>1, <1>2 DEF ConsoleCue, Operate
<1>. QED BY <1>3, OperateKeepsInv DEF LiveInv, ConsoleCue

LEMMA ConsoleKeepsInv ==
  ASSUME LiveInv, Console
  PROVE  LiveInv'
<1>1. /\ meddled' = Pad /\ UNCHANGED <<queue, luaLag, down, lost>>
      /\ phase' = "eval"
  BY DEF Console, Goto
<1>2. ShowInv' /\ bindings' \in Seq(BindingRecord)
  <2>0. bindings \in Seq(BindingRecord)
    BY DEF LiveInv, ControlType
  <2>1. CASE ConsoleCue
    BY <2>0, <2>1, ConsoleCueKeepsShow
  <2>2. ASSUME NEW b \in Rebinds, Bind(b) PROVE ShowInv' /\ bindings' \in Seq(BindingRecord)
    <3>1. b \in BindingRecord
      BY LiveAssumption DEF NewBinding
    <3>2. bindings' \in Seq(BindingRecord)
      BY <2>0, <2>2, <3>1, AppendProperties DEF Bind
    <3>. QED BY <2>2, <3>2, NextKeepsInv DEF Bind, LiveInv
  <2>3. CASE BindProgram
    BY <2>0, <2>3, NextKeepsInv DEF BindProgram, LiveInv
  <2>4. CASE ClearBindings
    BY <2>4, NextKeepsInv, EmptySeq DEF ClearBindings, LiveInv
  <2>. QED BY <2>1, <2>2, <2>3, <2>4 DEF Console
<1>. QED BY <1>1, <1>2, MeddledKeepsInv

LEMMA BootKeepsInv ==
  ASSUME LiveInv, BootScript
  PROVE  LiveInv'
<1>1. ShowInv' /\ bindings' = bindings
  BY ConsoleCueKeepsShow DEF BootScript
<1>2. meddled' = Pad /\ UNCHANGED <<queue, phase, luaLag, down, lost>>
  BY DEF BootScript, ConsoleCue
<1>3. bindings' \in Seq(BindingRecord)
  BY <1>1 DEF LiveInv, ControlType
<1>. QED BY <1>1, <1>2, <1>3, MeddledKeepsInv

--------------------------------------------------------------------------------
(* Every behaviour.                                                            *)

LEMMA LiveInitInv == LiveInit => LiveInv
<1>. SUFFICES ASSUME LiveInit PROVE LiveInv
  OBVIOUS
<1>1. ShowInv /\ active = {} /\ queue = <<>> /\ down = {}
  BY InitShow DEF LiveInit, Init
<1>2. bindings \in Seq(NewBinding)
  BY LiveAssumption DEF LiveInit
<1>3. bindings \in Seq(BindingRecord)
  BY <1>2, SeqMonotonic DEF NewBinding
<1>4. ControlType
  BY <1>1, <1>3, EmptySeq DEF LiveInit, ControlType
<1>5. DOMAIN queue = {}
  BY <1>1, EmptySeq
<1>6. BootTruth /\ QueueTruth
  BY <1>1, <1>5 DEF BootTruth, QueueTruth
<1>7. \A p : ~ Playing(p)
  BY <1>1 DEF Playing
<1>8. FlashFollowsFinger
  BY <1>1, <1>7 DEF FlashFollowsFinger
<1>9. LatchTruth
  <2>1. ASSUME NEW p \in Pad, Sole(p, "CueToggle") PROVE ~ bindings[Find(p)].latched
    <3>1. Find(p) \in DOMAIN bindings
      BY <1>4, <2>1, FindFinds DEF Sole
    <3>2. bindings[Find(p)] \in NewBinding
      BY <1>2, <3>1, ElementOfSeq, LenProperties
    <3>. QED BY <3>2 DEF NewBinding
  <2>. QED BY <1>7, <2>1 DEF LatchTruth
<1>. QED BY <1>1, <1>4, <1>6, <1>8, <1>9 DEF LiveInv

LEMMA LiveNextInv == LiveInv /\ [LiveNext]_allVars => LiveInv'
<1>. SUFFICES ASSUME LiveInv, [LiveNext]_allVars PROVE LiveInv'
  OBVIOUS
<1>1. CASE Transport
  BY <1>1, TransportKeepsInv
<1>2. CASE BeginFrame
  BY <1>2, BeginFrameKeepsInv
<1>3. CASE Dispatch
  BY <1>3, DispatchKeepsInv
<1>4. CASE EndPump \/ EndEval
  <2>1. UNCHANGED <<vars, queue, bindings, selector, down, lost, meddled, luaLag>> /\ phase' # "boot"
    BY <1>4 DEF EndPump, EndEval, Goto
  <2>. QED BY <2>1, StillKeepsInv DEF LiveInv, ControlType
<1>5. CASE Render
  BY <1>5, RenderKeepsInv
<1>6. CASE Console
  BY <1>6, ConsoleKeepsInv
<1>7. CASE BootScript
  BY <1>7, BootKeepsInv
<1>8. CASE StartRendering
  BY <1>8, StartKeepsInv
<1>9. CASE UNCHANGED allVars
  BY <1>9, StillKeepsInv DEF allVars, liveVars, LiveInv, ControlType
<1>. QED BY <1>1, <1>2, <1>3, <1>4, <1>5, <1>6, <1>7, <1>8, <1>9 DEF LiveNext, RenderTask

(* Queue, table, show and pads fit together in every state.                    *)
THEOREM LiveStaysSound == LiveSpec => []LiveInv
BY LiveInitInv, LiveNextInv, PTL DEF LiveSpec

(* A flash pad's cue follows the finger, however transports, frames, consoles  *)
(* and other controls interleave.                                              *)
THEOREM FlashesFollowFingers == LiveSpec => []FlashFollowsFinger
<1>1. LiveInv => FlashFollowsFinger
  BY DEF LiveInv
<1>. QED BY LiveStaysSound, <1>1, PTL

(* A toggle pad's latch and its cue stay in step.                              *)
THEOREM TogglesStayInStep == LiveSpec => []ToggleInStep
<1>1. LiveInv => ToggleInStep
  <2>1. \A p \in Pad : ~ Pending(p) => ~ PressWaits(p)
    BY DEF Pending, PressWaits
  <2>. QED BY <2>1 DEF LiveInv, LatchTruth, ToggleInStep
<1>. QED BY LiveStaysSound, <1>1, PTL

--------------------------------------------------------------------------------
(* Sequences of sequences.                                                     *)

(* Laid end to end, sequences keep their members and their order.              *)
LEMMA FlattenKeepsOrder ==
  ASSUME NEW T, NEW seqs \in Seq(Seq(T))
  PROVE  LET flat == FlattenSeq(seqs)
         IN  /\ flat \in Seq(T)
             /\ \A p, q \in 1 .. Len(flat) : p <= q =>
                  \E a, b \in 1 .. Len(seqs) :
                    /\ a <= b
                    /\ \E x \in DOMAIN seqs[a] : flat[p] = seqs[a][x]
                    /\ \E y \in DOMAIN seqs[b] : flat[q] = seqs[b][y]
<1>. DEFINE n == Len(seqs)
            G(f) == [i \in 1 .. n |-> IF i = 1 THEN seqs[i] ELSE f[i - 1] \o seqs[i]]
            flatten == CHOOSE f : f = G(f)
            Good(m, s) ==
              /\ s \in Seq(T)
              /\ \A p, q \in 1 .. Len(s) : p <= q =>
                   \E a, b \in 1 .. m :
                     /\ a <= b
                     /\ \E x \in DOMAIN seqs[a] : s[p] = seqs[a][x]
                     /\ \E y \in DOMAIN seqs[b] : s[q] = seqs[b][y]
<1>1. n \in Nat /\ \A i \in 1 .. n : seqs[i] \in Seq(T)
  BY LenProperties, ElementOfSeq
<1>2. CASE n = 0
  <2>1. seqs \in Seq(T) /\ FlattenSeq(seqs) = seqs
    <3>1. seqs = <<>>
      BY <1>2, EmptySeq
    <3>. QED BY <1>2, <3>1, EmptySeq DEF FlattenSeq
  <2>2. 1 .. Len(seqs) = {}
    BY <1>2
  <2>. QED BY <2>1, <2>2
<1>3. CASE n # 0
  <2>1. FlattenSeq(seqs) = flatten[n]
    BY <1>3 DEF FlattenSeq
  <2>. HIDE DEF n
  <2>2. \E f : f = G(f)
    <3>. DEFINE step == [i \in 1 .. n |-> [s \in Seq(T) |-> IF i = 1 THEN seqs[i] ELSE s \o seqs[i]]]
    <3>1. step \in [1 .. n -> [Seq(T) -> Seq(T)]]
      <4>1. ASSUME NEW i \in 1 .. n, NEW s \in Seq(T)
            PROVE  (IF i = 1 THEN seqs[i] ELSE s \o seqs[i]) \in Seq(T)
        BY <1>1, ConcatProperties
      <4>. QED BY <4>1
    <3>2. <<>> \in Seq(T)
      BY EmptySeq
    <3>3. \A i \in 1 .. n, s \in Seq(T) : step[i][s] = IF i = 1 THEN seqs[i] ELSE s \o seqs[i]
      OBVIOUS
    <3>. HIDE DEF step
    <3>4. PICK g : IsRun(g, n, Seq(T), <<>>, step)
      <4>1. step \in Steps(n, Seq(T)) /\ n \in Nat
        BY <1>1, <3>1 DEF Steps
      <4>. HIDE DEF G
      <4>. QED BY <3>2, <4>1, Recursion
    <3>. DEFINE f == [i \in 1 .. n |-> g[i]]
    <3>5. ASSUME NEW i \in 1 .. n
          PROVE  f[i] = IF i = 1 THEN seqs[i] ELSE f[i - 1] \o seqs[i]
      <4>1. i - 1 \in 0 .. n /\ (i # 1 => i - 1 \in 1 .. n)
        BY <1>1
      <4>2. g[i] = IF i = 1 THEN seqs[i] ELSE g[i - 1] \o seqs[i]
        BY <3>3, <3>4, <4>1 DEF IsRun
      <4>. QED BY <4>1, <4>2
    <3>6. f = [i \in 1 .. n |-> f[i]]
      OBVIOUS
    <3>. HIDE DEF f
    <3>7. f = G(f)
      BY <3>5, <3>6
    <3>. QED BY <3>7
  <2>3. flatten = G(flatten)
    <3>. HIDE DEF G
    <3>. QED BY <2>2
  <2>. HIDE DEF flatten
  <2>4. ASSUME NEW i \in 1 .. n
        PROVE  flatten[i] = IF i = 1 THEN seqs[i] ELSE flatten[i - 1] \o seqs[i]
    BY <2>3
  <2>. DEFINE P == {i \in 0 .. n : i > 0 => Good(i, flatten[i])}
  <2>5. 0 \in P
    BY <1>1
  <2>6. ASSUME NEW i \in 1 .. n, i - 1 \in P PROVE i \in P
    <3>1. CASE i = 1
      <4>1. flatten[i] = seqs[i] /\ seqs[i] \in Seq(T)
        BY <1>1, <2>4, <3>1
      <4>2. DOMAIN seqs[i] = 1 .. Len(seqs[i]) /\ i \in 1 .. i /\ i <= i
        BY <4>1, <3>1, LenProperties
      <4>3. Good(i, seqs[i])
        BY <4>1, <4>2
      <4>. HIDE DEF Good
      <4>. QED BY <4>1, <4>3
    <3>2. CASE i # 1
      <4>. DEFINE s == flatten[i - 1]
                  t == seqs[i]
      <4>1. i - 1 \in 1 .. n /\ i - 1 > 0 /\ i \in 1 .. i /\ i <= i /\ \A a \in 1 .. i - 1 : a \in 1 .. i /\ a <= i
        BY <3>2, <1>1
      <4>2. Good(i - 1, s)
        BY <2>6, <4>1
      <4>3. t \in Seq(T) /\ s \in Seq(T) /\ flatten[i] = s \o t
        BY <1>1, <2>4, <3>2, <4>2
      <4>4. /\ s \o t \in Seq(T) /\ Len(s \o t) = Len(s) + Len(t)
            /\ \A p \in 1 .. Len(s) + Len(t) : (s \o t)[p] = IF p <= Len(s) THEN s[p] ELSE t[p - Len(s)]
        <5>. HIDE DEF s, t
        <5>. QED BY <4>3, ConcatProperties
      <4>5. Len(s) \in Nat /\ Len(t) \in Nat /\ DOMAIN t = 1 .. Len(t)
        BY <4>3, LenProperties
      <4>. HIDE DEF s
      <4>6. ASSUME NEW p \in 1 .. Len(s \o t), NEW q \in 1 .. Len(s \o t), p <= q
            PROVE  \E a, b \in 1 .. i :
                     /\ a <= b
                     /\ \E x \in DOMAIN seqs[a] : (s \o t)[p] = seqs[a][x]
                     /\ \E y \in DOMAIN seqs[b] : (s \o t)[q] = seqs[b][y]
        <5>1. CASE q <= Len(s)
          <6>1. p \in 1 .. Len(s) /\ q \in 1 .. Len(s)
            BY <4>4, <4>5, <4>6, <5>1
          <6>2. (s \o t)[p] = s[p] /\ (s \o t)[q] = s[q]
            BY <4>4, <4>5, <6>1
          <6>3. PICK a \in 1 .. i - 1, b \in 1 .. i - 1 :
                  /\ a <= b
                  /\ \E x \in DOMAIN seqs[a] : s[p] = seqs[a][x]
                  /\ \E y \in DOMAIN seqs[b] : s[q] = seqs[b][y]
            BY <4>2, <4>6, <6>1
          <6>4. a \in 1 .. i /\ b \in 1 .. i
            BY <4>1
          <6>. QED BY <6>2, <6>3, <6>4
        <5>2. CASE ~ (q <= Len(s)) /\ p <= Len(s)
          <6>1. p \in 1 .. Len(s) /\ q - Len(s) \in DOMAIN t
            BY <4>4, <4>5, <4>6, <5>2
          <6>2. (s \o t)[p] = s[p] /\ (s \o t)[q] = t[q - Len(s)]
            BY <4>4, <4>5, <5>2, <6>1
          <6>3. PICK a \in 1 .. i - 1 : \E x \in DOMAIN seqs[a] : s[p] = seqs[a][x]
            <7>1. p <= p
              BY <6>1
            <7>. QED BY <4>2, <6>1, <7>1
          <6>4. a \in 1 .. i /\ a <= i
            BY <4>1
          <6>5. \E y \in DOMAIN seqs[i] : (s \o t)[q] = seqs[i][y]
            BY <6>1, <6>2
          <6>. HIDE DEF t
          <6>. QED BY <4>1, <6>2, <6>3, <6>4, <6>5
        <5>3. CASE ~ (p <= Len(s))
          <6>1. ~ (q <= Len(s)) /\ q - Len(s) \in DOMAIN t /\ p - Len(s) \in DOMAIN t
            BY <4>4, <4>5, <4>6, <5>3
          <6>2. (s \o t)[p] = t[p - Len(s)] /\ (s \o t)[q] = t[q - Len(s)]
            BY <4>4, <4>5, <5>3, <6>1
          <6>3. /\ \E x \in DOMAIN seqs[i] : (s \o t)[p] = seqs[i][x]
                /\ \E y \in DOMAIN seqs[i] : (s \o t)[q] = seqs[i][y]
            BY <6>1, <6>2
          <6>. HIDE DEF t
          <6>. QED BY <4>1, <6>3
        <5>. QED BY <5>1, <5>2, <5>3
      <4>7. Good(i, s \o t)
        BY <4>4, <4>6
      <4>. HIDE DEF Good, t
      <4>8. Good(i, flatten[i])
        BY <4>3, <4>7
      <4>. QED BY <4>8
    <3>. QED BY <3>1, <3>2
  <2>7. n \in P
    <3>. HIDE DEF P
    <3>1. 0 .. n \subseteq P
      BY <1>1, <2>5, <2>6, Induction
    <3>. QED BY <1>1, <3>1
  <2>8. Good(n, FlattenSeq(seqs))
    <3>. HIDE DEF Good
    <3>. QED BY <1>1, <1>3, <2>1, <2>7
  <2>. QED BY <2>8 DEF n
<1>. QED BY <1>2, <1>3

--------------------------------------------------------------------------------
(* The intents of a frame, lowest precedence first.                            *)

\* An intent of a contributing cue, with the cue's name.
Tagged == [channel : Channel, norm : Nat, slot : Slot \cup {NoSlot}, cue : Contributing]

(* Contributing cues are active, defined and finitely many.                    *)
LEMMA ContributingCues ==
  ASSUME ShowInv
  PROVE  /\ IsFiniteSet(Contributing)
         /\ Contributing \subseteq active
         /\ Contributing \subseteq Defined
         /\ Contributing \subseteq Cue
<1>1. Contributing \subseteq active
  BY DEF Contributing, Evaluated
<1>2. active \subseteq Defined /\ Defined \subseteq Cue
  BY DefinedCue DEF ShowInv, TypeOK
<1>3. IsFiniteSet(Cue)
  BY FS_Interval, ConstantTypes DEF Cue
<1>4. IsFiniteSet(Contributing)
  BY <1>1, <1>2, <1>3, FS_Subset
<1>. QED BY <1>1, <1>2, <1>4

(* Precedence puts the contributing cues in a definite order.                  *)
LEMMA DefiniteOrder ==
  ASSUME ShowInv
  PROVE  /\ \A c \in Contributing : ~ Before(c, c)
         /\ \A c, d, e \in Contributing : Before(c, d) /\ Before(d, e) => Before(c, e)
         /\ \A c, d \in Contributing : c = d \/ Before(c, d) \/ Before(d, c)
<1>1. ASSUME NEW c \in Contributing
      PROVE  cues[c].priority \in Nat /\ seq[c] \in Nat /\ c \in active
  <2>1. c \in active /\ c \in Defined /\ c \in Cue
    BY ContributingCues
  <2>2. cues[c] \in CueDefs
    BY <2>1, DefinedCue DEF ShowInv
  <2>. QED BY <2>1, <2>2, ShowAssumption DEF CueAssumption, ShowInv, TypeOK
<1>2. \A c, d \in Contributing : seq[c] = seq[d] => c = d
  BY <1>1 DEF ShowInv, ActiveOrder
<1>. QED BY <1>1, <1>2 DEF Before

\* How many contributing cues come before a cue.
Rank(c) == Cardinality({d \in Contributing : Before(d, c)})

(* Every rank is some contributing cue's, and a later cue has a higher rank.   *)
LEMMA RanksAreTaken ==
  ASSUME ShowInv
  PROVE  /\ \A i \in 1 .. Cardinality(Contributing) : \E c \in Contributing : Rank(c) = i - 1
         /\ \A c, d \in Contributing : Before(c, d) => Rank(c) < Rank(d)
<1>. DEFINE S == Contributing
            Lower(c) == {d \in S : Before(d, c)}
            n == Cardinality(S)
            rank == [c \in S |-> Cardinality(Lower(c)) + 1]
<1>0. IsFiniteSet(S)
  BY ContributingCues
<1>1. ASSUME NEW c \in S
      PROVE  /\ IsFiniteSet(Lower(c)) /\ Cardinality(Lower(c)) \in Nat
             /\ Cardinality(Lower(c)) < n /\ n \in Nat
  <2>1. Lower(c) \in SUBSET S /\ c \notin Lower(c)
    BY DefiniteOrder
  <2>2. Lower(c) # S
    BY <2>1
  <2>. HIDE DEF Lower
  <2>3. /\ IsFiniteSet(Lower(c)) /\ Cardinality(Lower(c)) <= Cardinality(S)
        /\ Cardinality(S) = Cardinality(Lower(c)) => S = Lower(c)
    BY <2>1, <1>0, FS_Subset
  <2>4. Cardinality(Lower(c)) \in Nat /\ Cardinality(S) \in Nat
    BY <2>3, <1>0, FS_CardinalityType
  <2>. QED BY <2>2, <2>3, <2>4
<1>2. ASSUME NEW c \in S, NEW d \in S, Before(c, d)
      PROVE  Cardinality(Lower(c)) < Cardinality(Lower(d))
  <2>1. Lower(c) \in SUBSET Lower(d) /\ c \in Lower(d) /\ c \notin Lower(c)
    BY <1>2, DefiniteOrder
  <2>2. Lower(c) # Lower(d)
    BY <2>1
  <2>. HIDE DEF Lower
  <2>3. /\ Cardinality(Lower(c)) <= Cardinality(Lower(d))
        /\ Cardinality(Lower(d)) = Cardinality(Lower(c)) => Lower(d) = Lower(c)
    BY <1>1, <2>1, <1>0, FS_Subset
  <2>4. Cardinality(Lower(c)) \in Nat /\ Cardinality(Lower(d)) \in Nat
    BY <1>1
  <2>. QED BY <2>2, <2>3, <2>4
<1>. HIDE DEF Lower
<1>3. rank \in Injection(S, 1 .. n)
  <2>1. rank \in [S -> 1 .. n]
    BY <1>1
  <2>2. ASSUME NEW c \in S, NEW d \in S, rank[c] = rank[d] PROVE c = d
    <3>1. Cardinality(Lower(c)) = Cardinality(Lower(d))
      BY <1>1, <2>2
    <3>2. ~ (Before(c, d)) /\ ~ (Before(d, c))
      BY <1>1, <1>2, <3>1
    <3>. QED BY <3>2, DefiniteOrder
  <2>. HIDE DEF rank
  <2>. QED BY <2>1, <2>2 DEF Injection, IsInjective
<1>4. rank \in Surjection(S, 1 .. n)
  <2>1. n \in Nat
    BY <1>0, FS_CardinalityType
  <2>2. IsFiniteSet(1 .. n) /\ Cardinality(1 .. n) = n
    <3>. HIDE DEF n
    <3>1. 1 \in Int /\ n \in Int /\ n - 1 + 1 = n
      BY <2>1
    <3>2. IsFiniteSet(1 .. n) /\ Cardinality(1 .. n) = IF 1 > n THEN 0 ELSE n - 1 + 1
      BY <3>1, FS_Interval
    <3>. QED BY <2>1, <3>1, <3>2
  <2>. HIDE DEF rank
  <2>. QED BY <1>3, <2>2, FS_Injection
<1>5. ASSUME NEW i \in 1 .. n
      PROVE  \E c \in S : Cardinality(Lower(c)) = i - 1
  <2>1. PICK c \in S : rank[c] = i
    <3>. HIDE DEF rank, n
    <3>. QED BY <1>4 DEF Surjection
  <2>2. Cardinality(Lower(c)) = i - 1
    BY <1>1, <2>1
  <2>. QED BY <2>2
<1>6. \A c \in S : Rank(c) = Cardinality(Lower(c))
  BY DEF Rank, Lower
<1>. QED BY <1>2, <1>5, <1>6

(* The i-th contributor is a contributing cue, and no later one comes before   *)
(* an earlier one.                                                             *)
LEMMA ContributorsInOrder ==
  ASSUME ShowInv
  PROVE  LET n == Cardinality(Contributing)
         IN  /\ n \in Nat
             /\ DOMAIN Contributors = 1 .. n
             /\ \A i \in 1 .. n : Contributors[i] \in Contributing
             /\ \A i, j \in 1 .. n : i <= j => ~ Before(Contributors[j], Contributors[i])
<1>. DEFINE n == Cardinality(Contributing)
<1>1. n \in Nat
  BY ContributingCues, FS_CardinalityType
<1>2. Contributors = [i \in 1 .. n |-> CHOOSE c \in Contributing : Rank(c) = i - 1]
  BY DEF Contributors, Rank
<1>3. ASSUME NEW i \in 1 .. n
      PROVE  Contributors[i] \in Contributing /\ Rank(Contributors[i]) = i - 1
  <2>1. \E c \in Contributing : Rank(c) = i - 1
    BY RanksAreTaken
  <2>2. Contributors[i] = CHOOSE c \in Contributing : Rank(c) = i - 1
    BY <1>2
  <2>. QED BY <2>1, <2>2
<1>4. ASSUME NEW i \in 1 .. n, NEW j \in 1 .. n, i <= j
      PROVE  ~ Before(Contributors[j], Contributors[i])
  <2>1. ~ (j - 1 < i - 1)
    BY <1>1, <1>4
  <2>. QED BY <1>3, <2>1, RanksAreTaken
<1>5. DOMAIN Contributors = 1 .. n
  BY <1>2
<1>. QED BY <1>1, <1>3, <1>4, <1>5

(* A cue's intents carry its name.                                             *)
LEMMA IntentsOfCue ==
  ASSUME ShowInv, NEW c \in Contributing
  PROVE  IntentsOf(c) \in Seq(Tagged) /\ \A i \in DOMAIN IntentsOf(c) : IntentsOf(c)[i].cue = c
<1>1. cues[c] \in CueDefs
  BY ContributingCues, DefinedCue DEF ShowInv
<1>2. cues[c].writes \in Seq(CapIntent)
  BY <1>1, BlendAssumption
<1>. DEFINE n == Len(cues[c].writes)
<1>3. n \in Nat /\ DOMAIN cues[c].writes = 1 .. n
      /\ \A i \in 1 .. n : cues[c].writes[i] \in CapIntent
  <2>. HIDE DEF CapIntent
  <2>. QED BY <1>2, LenProperties, ElementOfSeq
<1>4. ASSUME NEW i \in 1 .. n
      PROVE  IntentsOf(c)[i] \in Tagged /\ IntentsOf(c)[i].cue = c
  BY <1>3 DEF IntentsOf, Tagged, CapIntent
<1>5. DOMAIN IntentsOf(c) = 1 .. n /\ IntentsOf(c) = [i \in 1 .. n |-> IntentsOf(c)[i]]
  BY <1>3 DEF IntentsOf
<1>. HIDE DEF n
<1>6. IntentsOf(c) \in [1 .. n -> Tagged]
  BY <1>4, <1>5
<1>. QED BY <1>3, <1>4, <1>5, <1>6, SeqDef

(* The frame's intents are intents of contributing cues, in an order in which  *)
(* no later one's cue comes before an earlier one's.                           *)
LEMMA IntentsInOrder ==
  ASSUME ShowInv
  PROVE  /\ Intents \in Seq(Tagged)
         /\ \A p, q \in 1 .. Len(Intents) : p <= q => ~ Before(Intents[q].cue, Intents[p].cue)
<1>. DEFINE n == Cardinality(Contributing)
            order == Contributors
            seqs == [i \in DOMAIN order |-> IntentsOf(order[i])]
<1>1. /\ n \in Nat /\ DOMAIN order = 1 .. n
      /\ \A i \in 1 .. n : order[i] \in Contributing
      /\ \A i, j \in 1 .. n : i <= j => ~ Before(order[j], order[i])
  BY ContributorsInOrder
<1>2. Intents = FlattenSeq(seqs)
  BY DEF Intents
<1>. HIDE DEF order
<1>3. DOMAIN seqs = 1 .. n /\ \A i \in 1 .. n : seqs[i] = IntentsOf(order[i])
  BY <1>1
<1>4. seqs \in Seq(Seq(Tagged)) /\ Len(seqs) = n
  <2>1. \A i \in 1 .. n : seqs[i] \in Seq(Tagged)
    BY <1>1, <1>3, IntentsOfCue
  <2>2. seqs = [i \in 1 .. n |-> seqs[i]]
    BY <1>1
  <2>. DEFINE T == Tagged
              U == Seq(T)
  <2>. HIDE DEF n, seqs, T, U
  <2>3. seqs \in [1 .. n -> U]
    BY <2>1, <2>2 DEF T, U
  <2>4. seqs \in Seq(U) /\ Len(seqs) = n
    BY <1>1, <2>3, SeqDef
  <2>. QED BY <2>4 DEF T, U
<1>. HIDE DEF seqs, n
<1>5. /\ FlattenSeq(seqs) \in Seq(Tagged)
      /\ \A p, q \in 1 .. Len(FlattenSeq(seqs)) : p <= q =>
           \E a, b \in 1 .. Len(seqs) :
             /\ a <= b
             /\ \E x \in DOMAIN seqs[a] : FlattenSeq(seqs)[p] = seqs[a][x]
             /\ \E y \in DOMAIN seqs[b] : FlattenSeq(seqs)[q] = seqs[b][y]
  <2>. DEFINE T == Tagged
  <2>1. seqs \in Seq(Seq(T))
    BY <1>4
  <2>. HIDE DEF T
  <2>2. /\ FlattenSeq(seqs) \in Seq(T)
        /\ \A p, q \in 1 .. Len(FlattenSeq(seqs)) : p <= q =>
             \E a, b \in 1 .. Len(seqs) :
               /\ a <= b
               /\ \E x \in DOMAIN seqs[a] : FlattenSeq(seqs)[p] = seqs[a][x]
               /\ \E y \in DOMAIN seqs[b] : FlattenSeq(seqs)[q] = seqs[b][y]
    BY <2>1, FlattenKeepsOrder
  <2>. QED BY <2>2 DEF T
<1>. DEFINE InOrder(flat, m) ==
              \A p, q \in 1 .. Len(flat) : p <= q =>
                \E a, b \in 1 .. m :
                  /\ a <= b
                  /\ \E x \in DOMAIN seqs[a] : flat[p] = seqs[a][x]
                  /\ \E y \in DOMAIN seqs[b] : flat[q] = seqs[b][y]
<1>6. InOrder(Intents, n)
  <2>1. InOrder(FlattenSeq(seqs), Len(seqs))
    BY <1>5
  <2>. HIDE DEF InOrder
  <2>. QED BY <1>2, <1>4, <2>1
<1>7. ASSUME NEW p \in 1 .. Len(Intents), NEW q \in 1 .. Len(Intents), p <= q
      PROVE  ~ Before(Intents[q].cue, Intents[p].cue)
  <2>1. PICK a \in 1 .. n, b \in 1 .. n :
          /\ a <= b
          /\ \E x \in DOMAIN seqs[a] : Intents[p] = seqs[a][x]
          /\ \E y \in DOMAIN seqs[b] : Intents[q] = seqs[b][y]
    BY <1>6, <1>7
  <2>2. Intents[p].cue = order[a] /\ Intents[q].cue = order[b]
    BY <1>1, <1>3, <2>1, IntentsOfCue
  <2>. QED BY <1>1, <2>1, <2>2
<1>8. Intents \in Seq(Tagged)
  BY <1>2, <1>5
<1>. HIDE DEF Tagged
<1>. QED BY <1>7, <1>8

--------------------------------------------------------------------------------
(* The merge.                                                                  *)

Entries == {NoEntry} \cup [owner : Cue, value : Nat, slot : Slot \cup {NoSlot}]

(* An intent's value is a natural number.                                      *)
LEMMA ValueType ==
  ASSUME ShowInv, NEW ci \in Tagged
  PROVE  Value(ci) \in Nat
<1>1. ci.cue \in Defined /\ ci.norm \in Nat
  BY ContributingCues DEF Tagged
<1>2. Weight(ci.cue, 0) \in Nat /\ Full \in Nat
  <2>1. 0 \in 0 .. MaxLag
    BY ConstantTypes
  <2>2. Weight(ci.cue, 0) \in 0 .. Full
    BY <1>1, <2>1, WeightBounds DEF ShowInv
  <2>. QED BY <2>2, ConstantTypes
<1>. DEFINE factor == IF Blended(ci) THEN Weight(ci.cue, 0) ELSE Full
<1>3. factor \in Nat
  BY <1>2
<1>4. Value(ci) = factor * ci.norm
  BY DEF Value
<1>. HIDE DEF factor
<1>. QED BY <1>1, <1>3, <1>4

(* An intent makes an entry of its cue's; an entry is never taken for none.    *)
LEMMA EntryType ==
  ASSUME ShowInv, NEW ci \in Tagged
  PROVE  /\ Entry(ci) \in Entries /\ Entry(ci) # NoEntry
         /\ Entry(ci).owner = ci.cue /\ Entry(ci).value = Value(ci) /\ Entry(ci).slot = ci.slot
<1>1. ci.cue \in Cue /\ ci.slot \in Slot \cup {NoSlot} /\ Value(ci) \in Nat
  BY ContributingCues, ValueType DEF Tagged
<1>2. Entry(ci).owner = ci.cue /\ NoEntry.owner = 0 /\ ci.cue # 0
  BY <1>1, ConstantTypes DEF Entry, NoEntry, Cue
<1>. QED BY <1>1, <1>2 DEF Entry, Entries

(* The three ways an intent meets its channel's entry.                         *)
LEMMA MergeCases ==
  ASSUME NEW e, NEW ci
  PROVE  /\ e = NoEntry => MergeInto(e, ci) = Entry(ci)
         /\ e # NoEntry /\ Blended(ci) => MergeInto(e, ci) = Brighter(e, ci)
         /\ e # NoEntry /\ ~ Blended(ci) => MergeInto(e, ci) = Chosen(e, ci)
BY DEF MergeInto

LEMMA MergeType ==
  ASSUME ShowInv, NEW e \in Entries, NEW ci \in Tagged
  PROVE  MergeInto(e, ci) \in Entries
<1>1. Entry(ci) \in Entries /\ Value(ci) \in Nat
  BY EntryType, ValueType
<1>2. CASE e = NoEntry
  BY <1>1, <1>2, MergeCases
<1>3. CASE e # NoEntry /\ Blended(ci)
  <2>1. e \in [owner : Cue, value : Nat, slot : Slot \cup {NoSlot}]
    BY <1>3 DEF Entries
  <2>2. Brighter(e, ci) \in [owner : Cue, value : Nat, slot : Slot \cup {NoSlot}]
    BY <1>1, <2>1 DEF Brighter
  <2>. QED BY <1>3, <2>2, MergeCases DEF Entries
<1>4. CASE e # NoEntry /\ ~ Blended(ci)
  <2>1. Chosen(e, ci) \in Entries
    BY <1>1 DEF Chosen
  <2>. QED BY <1>4, <2>1, MergeCases
<1>. QED BY <1>2, <1>3, <1>4

\* The entry of a channel after each intent.
EntryRun(e, its, ch) ==
  /\ e[0] = NoEntry
  /\ \A i \in 1 .. Len(its) :
       e[i] = IF its[i].channel = ch THEN MergeInto(e[i - 1], its[i]) ELSE e[i - 1]
  /\ e[Len(its)] = Merged(its)[ch]

(* The merge leads every channel through a run of entries.                     *)
LEMMA ChannelRuns ==
  ASSUME ShowInv, NEW its \in Seq(Tagged), NEW ch \in Channel
  PROVE  \E e : EntryRun(e, its, ch)
<1>. DEFINE n == Len(its)
            base == [x \in Channel |-> NoEntry]
            S == [Channel -> Entries]
            Put(s, m) == [s EXCEPT ![its[m].channel] = MergeInto(@, its[m])]
            G(f) == [m \in 0 .. n |-> IF m = 0 THEN base ELSE Put(f[m - 1], m)]
            work == CHOOSE f : f = G(f)
            step == [m \in 1 .. n |-> [s \in S |-> Put(s, m)]]
<1>1. n \in Nat /\ \A m \in 1 .. n : its[m] \in Tagged
  <2>. DEFINE T == Tagged
  <2>. HIDE DEF T
  <2>1. \A q \in Seq(T) : Len(q) \in Nat /\ \A m \in 1 .. Len(q) : q[m] \in T
    BY LenProperties, ElementOfSeq
  <2>. QED BY <2>1 DEF T
<1>2. Merged(its) = work[n]
  BY DEF Merged
<1>. HIDE DEF n
<1>3. base \in S
  BY DEF Entries
<1>4. step \in Steps(n, S)
  <2>1. ASSUME NEW m \in 1 .. n, NEW s \in S
        PROVE  Put(s, m) \in S
    <3>1. its[m] \in Tagged /\ its[m].channel \in Channel
      BY <1>1 DEF Tagged
    <3>2. MergeInto(s[its[m].channel], its[m]) \in Entries
      BY <3>1, MergeType
    <3>. HIDE DEF Entries
    <3>. QED BY <3>1, <3>2
  <2>. HIDE DEF S, Put
  <2>. QED BY <2>1 DEF Steps
<1>. HIDE DEF Put
<1>5. \A m \in 1 .. n, s \in S : step[m][s] = Put(s, m)
  <2>. HIDE DEF S
  <2>. QED OBVIOUS
<1>. HIDE DEF step, S, base
<1>6. PICK g : IsRun(g, n, S, base, step)
  <2>. HIDE DEF G
  <2>. QED BY <1>1, <1>3, <1>4, Recursion
<1>7. \E f : f = G(f)
  <2>. DEFINE f == [m \in 0 .. n |-> g[m]]
  <2>1. ASSUME NEW m \in 0 .. n
        PROVE  f[m] = IF m = 0 THEN base ELSE Put(f[m - 1], m)
    <3>1. CASE m = 0
      BY <1>6, <3>1 DEF IsRun
    <3>2. CASE m # 0
      <4>1. m \in 1 .. n /\ m - 1 \in 0 .. n
        BY <1>1, <3>2
      <4>2. g[m - 1] \in S /\ g[m] = step[m][g[m - 1]]
        BY <1>6, <4>1 DEF IsRun
      <4>3. g[m] = Put(g[m - 1], m)
        BY <1>5, <4>1, <4>2
      <4>. QED BY <3>2, <4>1, <4>3
    <3>. QED BY <3>1, <3>2
  <2>2. f = [m \in 0 .. n |-> f[m]]
    OBVIOUS
  <2>. HIDE DEF f
  <2>3. f = G(f)
    BY <2>1, <2>2
  <2>. QED BY <2>3
<1>8. work = G(work)
  <2>. HIDE DEF G
  <2>. QED BY <1>7
<1>. HIDE DEF work
<1>9. work[0] = base /\ \A m \in 1 .. n : work[m] = Put(work[m - 1], m)
  <2>1. \A m \in 0 .. n : work[m] = IF m = 0 THEN base ELSE Put(work[m - 1], m)
    BY <1>8
  <2>. QED BY <1>1, <2>1
<1>. HIDE DEF G
<1>10. 0 .. n \subseteq {m \in 0 .. n : work[m] \in S}
  <2>. DEFINE P == {m \in 0 .. n : work[m] \in S}
  <2>1. 0 \in P
    BY <1>1, <1>3, <1>9
  <2>2. ASSUME NEW m \in 1 .. n, m - 1 \in P PROVE m \in P
    <3>1. work[m - 1] \in S
      BY <2>2
    <3>2. step[m][work[m - 1]] \in S
      BY <1>4, <3>1 DEF Steps
    <3>3. work[m] \in S
      BY <1>5, <1>9, <3>1, <3>2
    <3>. QED BY <1>1, <3>3
  <2>. HIDE DEF P
  <2>3. 0 .. n \subseteq P
    BY <1>1, <2>1, <2>2, Induction
  <2>. QED BY <2>3 DEF P
<1>. DEFINE e == [m \in 0 .. n |-> work[m][ch]]
<1>11. e[0] = NoEntry
  BY <1>1, <1>9 DEF base
<1>12. ASSUME NEW m \in 1 .. n
       PROVE  e[m] = IF its[m].channel = ch THEN MergeInto(e[m - 1], its[m]) ELSE e[m - 1]
  <2>1. m \in 0 .. n /\ m - 1 \in 0 .. n
    BY <1>1
  <2>2. work[m - 1] \in [Channel -> Entries] /\ its[m].channel \in Channel
    BY <1>1, <1>10, <2>1 DEF S, Tagged
  <2>3. work[m][ch] = IF its[m].channel = ch THEN MergeInto(work[m - 1][ch], its[m]) ELSE work[m - 1][ch]
    <3>. HIDE DEF Entries
    <3>. QED BY <1>9, <2>2 DEF Put
  <2>. QED BY <2>1, <2>3
<1>13. e[n] = Merged(its)[ch]
  BY <1>1, <1>2
<1>. HIDE DEF e
<1>14. EntryRun(e, its, ch)
  BY <1>11, <1>12, <1>13 DEF EntryRun, n
<1>. QED BY <1>14

--------------------------------------------------------------------------------
(* What the runs of entries come to.                                           *)

(* The greatest of a set is the member that no other exceeds.                  *)
LEMMA MaxIs ==
  ASSUME NEW S, S \subseteq Int, NEW x \in S, \A y \in S : y <= x
  PROVE  Max(S) = x
<1>1. \A y \in S : x >= y
  OBVIOUS
<1>2. Max(S) \in S /\ \A y \in S : Max(S) >= y
  BY <1>1 DEF Max
<1>3. Max(S) >= x /\ x >= Max(S) /\ x \in Int /\ Max(S) \in Int
  BY <1>1, <1>2
<1>. QED BY <1>3

(* Some places in a sequence have a last one.                                  *)
LEMMA LastPlace ==
  ASSUME NEW n \in Nat, NEW S, S \subseteq 1 .. n, S # {}
  PROVE  \E k \in S : \A i \in S : i <= k
<1>. DEFINE P == {m \in 0 .. n : \/ \A i \in S : ~ (i <= m)
                                 \/ \E k \in S : k <= m /\ \A i \in S : i <= m => i <= k}
<1>1. 0 \in P
  <2>1. 0 \in 0 .. n /\ \A i \in S : ~ (i <= 0)
    OBVIOUS
  <2>. QED BY <2>1
<1>2. ASSUME NEW m \in 1 .. n, m - 1 \in P PROVE m \in P
  <2>1. \A i \in S : i <= m <=> i <= m - 1 \/ i = m
    OBVIOUS
  <2>2. CASE m \in S
    <3>1. m <= m /\ \A i \in S : i <= m => i <= m
      BY <2>2
    <3>. QED BY <2>2, <3>1
  <2>3. CASE m \notin S
    <3>1. \A i \in S : i <= m <=> i <= m - 1
      BY <2>1, <2>3
    <3>. QED BY <1>2, <3>1
  <2>. QED BY <2>2, <2>3
<1>. HIDE DEF P
<1>3. n \in P
  <2>1. 0 .. n \subseteq P
    BY <1>1, <1>2, Induction
  <2>. QED BY <2>1
<1>4. \A i \in S : i <= n
  OBVIOUS
<1>. QED BY <1>3, <1>4 DEF P

(* No intent is of a cue that comes before an earlier one's.                   *)
InOrder(its) ==
  \A p, q \in 1 .. Len(its) : p <= q => ~ Before(its[q].cue, its[p].cue)

LEMMA Places ==
  ASSUME NEW its \in Seq(Tagged)
  PROVE  /\ Len(its) \in Nat /\ DOMAIN its = 1 .. Len(its)
         /\ \A i \in 1 .. Len(its) : its[i] \in Tagged
<1>. DEFINE T == Tagged
<1>. HIDE DEF T
<1>1. \A q \in Seq(T) : Len(q) \in Nat /\ DOMAIN q = 1 .. Len(q) /\ \A m \in 1 .. Len(q) : q[m] \in T
  BY LenProperties, ElementOfSeq
<1>. QED BY <1>1 DEF T

(* A channel's entry is of the cue of one of the channel's earlier intents.    *)
LEMMA OwnerWrote ==
  ASSUME ShowInv, NEW its \in Seq(Tagged), NEW ch, NEW e, EntryRun(e, its, ch),
         NEW n \in 0 .. Len(its)
  PROVE  \/ e[n] = NoEntry
         \/ /\ e[n] \in Entries
            /\ \E j \in 1 .. n : its[j].channel = ch /\ its[j].cue = e[n].owner
<1>. DEFINE Owned(m) == \/ e[m] = NoEntry
                        \/ /\ e[m] \in Entries
                           /\ \E j \in 1 .. m : its[j].channel = ch /\ its[j].cue = e[m].owner
            P == {m \in 0 .. Len(its) : Owned(m)}
<1>1. Len(its) \in Nat /\ \A i \in 1 .. Len(its) : its[i] \in Tagged
  BY Places
<1>2. 0 \in P
  BY <1>1 DEF EntryRun
<1>3. ASSUME NEW m \in 1 .. Len(its), m - 1 \in P PROVE m \in P
  <2>1. /\ Owned(m - 1)
        /\ m \in 1 .. m /\ m \in 0 .. Len(its) /\ \A j \in 1 .. m - 1 : j \in 1 .. m
    BY <1>1, <1>3
  <2>2. e[m] = IF its[m].channel = ch THEN MergeInto(e[m - 1], its[m]) ELSE e[m - 1]
    BY DEF EntryRun
  <2>3. CASE its[m].channel # ch
    BY <2>1, <2>2, <2>3
  <2>4. CASE its[m].channel = ch
    <3>1. /\ its[m] \in Tagged
          /\ Entry(its[m]) \in Entries /\ Entry(its[m]).owner = its[m].cue
      BY <1>1, EntryType
    <3>2. e[m] = MergeInto(e[m - 1], its[m])
      BY <2>2, <2>4
    <3>3. CASE e[m - 1] = NoEntry
      <4>1. e[m] = Entry(its[m])
        BY <3>2, <3>3, MergeCases
      <4>. QED BY <2>1, <2>4, <3>1, <4>1
    <3>4. CASE e[m - 1] # NoEntry /\ Blended(its[m])
      <4>1. e[m - 1] \in [owner : Cue, value : Nat, slot : Slot \cup {NoSlot}]
        BY <2>1, <3>4 DEF Entries
      <4>2. e[m] = Brighter(e[m - 1], its[m])
        BY <3>2, <3>4, MergeCases
      <4>3. e[m].owner = e[m - 1].owner
        BY <4>1, <4>2 DEF Brighter
      <4>4. e[m] \in Entries
        BY <2>1, <3>1, <3>2, <3>4, MergeType
      <4>. QED BY <2>1, <3>4, <4>3, <4>4
    <3>5. CASE e[m - 1] # NoEntry /\ ~ Blended(its[m])
      <4>1. e[m] = e[m - 1] \/ e[m] = Entry(its[m])
        BY <3>2, <3>5, MergeCases DEF Chosen
      <4>. QED BY <2>1, <2>4, <3>1, <4>1
    <3>. QED BY <3>3, <3>4, <3>5
  <2>. QED BY <2>3, <2>4
<1>. HIDE DEF P
<1>4. 0 .. Len(its) \subseteq P
  BY <1>1, <1>2, <1>3, Induction
<1>5. n \in P
  BY <1>4
<1>. QED BY <1>5 DEF P

(* A chosen write takes its channel over from every earlier one.               *)
LEMMA ChosenTakesOver ==
  ASSUME ShowInv, NEW its \in Seq(Tagged), InOrder(its), NEW ch, NEW e, EntryRun(e, its, ch),
         NEW m \in 1 .. Len(its), its[m].channel = ch, ~ Blended(its[m])
  PROVE  e[m] = Entry(its[m])
<1>1. Len(its) \in Nat /\ m - 1 \in 0 .. Len(its) /\ \A j \in 1 .. m - 1 : j \in 1 .. Len(its) /\ j <= m
  BY Places
<1>2. e[m] = MergeInto(e[m - 1], its[m])
  BY DEF EntryRun
<1>3. CASE e[m - 1] = NoEntry
  BY <1>2, <1>3, MergeCases
<1>4. CASE e[m - 1] # NoEntry
  <2>1. PICK j \in 1 .. m - 1 : its[j].cue = e[m - 1].owner
    BY <1>1, <1>4, OwnerWrote
  <2>2. ~ Before(its[m].cue, e[m - 1].owner)
    BY <1>1, <2>1 DEF InOrder
  <2>3. e[m] = Chosen(e[m - 1], its[m])
    BY <1>2, <1>4, MergeCases
  <2>. QED BY <2>2, <2>3 DEF Chosen
<1>. QED BY <1>3, <1>4

(* Where every write of a channel is blended, the merge emits the brightest    *)
(* and no slot.                                                                *)
LEMMA BrightestWins ==
  ASSUME ShowInv, NEW its \in Seq(Tagged), NEW ch \in Channel, At(its, ch) # {},
         \A i \in At(its, ch) : Blended(its[i])
  PROVE  /\ Merged(its)[ch].slot = NoSlot
         /\ Merged(its)[ch].value = Max(Values(its, At(its, ch)))
<1>. DEFINE n == Len(its)
            Ours(i) == its[i].channel = ch
<1>1. n \in Nat /\ DOMAIN its = 1 .. n /\ \A i \in 1 .. n : its[i] \in Tagged
  BY Places
<1>2. At(its, ch) = {i \in 1 .. n : Ours(i)}
  BY <1>1 DEF At
<1>3. \A i \in 1 .. n : Ours(i) => Blended(its[i]) /\ its[i].slot = NoSlot
  BY <1>2 DEF Blended
<1>4. \A i \in 1 .. n : Value(its[i]) \in Nat
  BY <1>1, ValueType
<1>5. PICK e : EntryRun(e, its, ch)
  BY ChannelRuns
<1>. DEFINE Brightest(m) ==
              /\ e[m] \in Entries /\ e[m] # NoEntry /\ e[m].slot = NoSlot
              /\ \E k \in 1 .. m : Ours(k) /\ e[m].value = Value(its[k])
              /\ \A i \in 1 .. m : Ours(i) => Value(its[i]) <= e[m].value
            P == {m \in 0 .. n : IF \E i \in 1 .. m : Ours(i) THEN Brightest(m) ELSE e[m] = NoEntry}
<1>6. 0 \in P
  BY <1>1, <1>5 DEF EntryRun
<1>7. ASSUME NEW m \in 1 .. n, m - 1 \in P PROVE m \in P
  <2>1. /\ m \in 0 .. n /\ m \in 1 .. m /\ m - 1 \in 0 .. n
        /\ \A i \in 1 .. m : i \in 1 .. n /\ (i \in 1 .. m - 1 \/ i = m)
        /\ \A i \in 1 .. m - 1 : i \in 1 .. m
    BY <1>1
  <2>2. e[m] = IF Ours(m) THEN MergeInto(e[m - 1], its[m]) ELSE e[m - 1]
    BY <1>5 DEF EntryRun
  <2>3. CASE ~ Ours(m)
    <3>1. /\ e[m] = e[m - 1]
          /\ \A i \in 1 .. m : Ours(i) => i \in 1 .. m - 1
      BY <2>1, <2>2, <2>3
    <3>2. CASE \E i \in 1 .. m - 1 : Ours(i)
      <4>1. Brightest(m - 1)
        BY <1>7, <3>2
      <4>2. Brightest(m)
        BY <2>1, <3>1, <4>1
      <4>. HIDE DEF Brightest
      <4>. QED BY <2>1, <3>2, <4>2
    <3>3. CASE ~ \E i \in 1 .. m - 1 : Ours(i)
      <4>1. e[m - 1] = NoEntry
        BY <1>7, <3>3
      <4>. QED BY <2>1, <3>1, <3>3, <4>1
    <3>. QED BY <3>2, <3>3
  <2>4. CASE Ours(m)
    <3>1. /\ Blended(its[m]) /\ its[m].slot = NoSlot /\ Value(its[m]) \in Nat /\ its[m] \in Tagged
          /\ e[m] = MergeInto(e[m - 1], its[m])
      BY <1>1, <1>3, <1>4, <2>2, <2>4
    <3>2. CASE ~ \E i \in 1 .. m - 1 : Ours(i)
      <4>1. e[m] = Entry(its[m])
        <5>1. e[m - 1] = NoEntry
          BY <1>7, <3>2
        <5>. QED BY <3>1, <5>1, MergeCases
      <4>2. /\ e[m] \in Entries /\ e[m] # NoEntry /\ e[m].slot = NoSlot /\ e[m].value = Value(its[m])
        BY <3>1, <4>1, EntryType
      <4>3. \A i \in 1 .. m : Ours(i) => i = m
        BY <2>1, <3>2
      <4>4. Brightest(m)
        BY <2>1, <2>4, <3>1, <4>2, <4>3
      <4>. HIDE DEF Brightest
      <4>. QED BY <2>1, <2>4, <4>4
    <3>3. CASE \E i \in 1 .. m - 1 : Ours(i)
      <4>1. Brightest(m - 1)
        BY <1>7, <3>3
      <4>. DEFINE f == e[m - 1]
      <4>2. f \in [owner : Cue, value : Nat, slot : Slot \cup {NoSlot}] /\ f # NoEntry
        BY <4>1 DEF Entries
      <4>3. e[m] = Brighter(f, its[m])
        BY <3>1, <4>2, MergeCases
      <4>4. e[m] \in Entries /\ e[m] # NoEntry
        <5>1. e[m] \in [owner : Cue, value : Nat, slot : Slot \cup {NoSlot}]
          BY <3>1, <4>2, <4>3 DEF Brighter
        <5>2. e[m].owner # NoEntry.owner
          BY <5>1, ConstantTypes DEF NoEntry, Cue
        <5>. QED BY <5>1, <5>2 DEF Entries
      <4>5. /\ e[m].slot = NoSlot
            /\ e[m].value = IF Value(its[m]) >= f.value THEN Value(its[m]) ELSE f.value
        BY <3>1, <4>1, <4>2, <4>3 DEF Brighter
      <4>6. f.value \in Nat /\ f.value <= e[m].value /\ Value(its[m]) <= e[m].value
        BY <3>1, <4>2, <4>5
      <4>7. \E k \in 1 .. m : Ours(k) /\ e[m].value = Value(its[k])
        <5>1. PICK k \in 1 .. m - 1 : Ours(k) /\ f.value = Value(its[k])
          BY <4>1
        <5>. QED BY <2>1, <2>4, <4>5, <5>1
      <4>8. ASSUME NEW i \in 1 .. m, Ours(i) PROVE Value(its[i]) <= e[m].value
        <5>1. CASE i = m
          BY <4>6, <5>1
        <5>2. CASE i \in 1 .. m - 1
          <6>1. Value(its[i]) <= f.value /\ Value(its[i]) \in Nat /\ e[m].value \in Nat
            BY <1>4, <2>1, <3>1, <4>1, <4>5, <4>6, <4>8, <5>2
          <6>. QED BY <4>6, <6>1
        <5>. QED BY <2>1, <5>1, <5>2
      <4>9. Brightest(m)
        BY <4>4, <4>5, <4>7, <4>8
      <4>. HIDE DEF Brightest
      <4>. QED BY <2>1, <2>4, <4>9
    <3>. QED BY <3>2, <3>3
  <2>. QED BY <2>3, <2>4
<1>. HIDE DEF P
<1>8. n \in P
  <2>. HIDE DEF n
  <2>1. 0 .. n \subseteq P
    BY <1>1, <1>6, <1>7, Induction
  <2>. QED BY <1>1, <2>1
<1>9. Brightest(n) /\ e[n] = Merged(its)[ch]
  <2>1. e[n] = Merged(its)[ch]
    BY <1>5 DEF EntryRun
  <2>2. \E i \in 1 .. n : Ours(i)
    BY <1>2
  <2>. HIDE DEF n, Brightest
  <2>. QED BY <1>8, <2>1, <2>2 DEF P
<1>10. Max(Values(its, At(its, ch))) = e[n].value
  <2>. DEFINE V == Values(its, At(its, ch))
  <2>1. V \subseteq Int /\ e[n].value \in V /\ \A y \in V : y <= e[n].value
    BY <1>2, <1>4, <1>9 DEF Values
  <2>. HIDE DEF V
  <2>2. Max(V) = e[n].value
    BY <2>1, MaxIs
  <2>. QED BY <2>2 DEF V
<1>. QED BY <1>9, <1>10

(* On an intensity that no cue selects a slot of, the brightest write wins.    *)
THEOREM BrightestIsEmitted == Spec => []HighestTakesPrecedence
<1>1. ShowInv => HighestTakesPrecedence
  <2>1. SUFFICES ASSUME ShowInv, NEW ch \in Intensity, At(Intents, ch) # {},
                        \A i \in At(Intents, ch) : Blended(Intents[i])
                 PROVE  /\ Merged(Intents)[ch].slot = NoSlot
                        /\ Merged(Intents)[ch].value = Max(Values(Intents, At(Intents, ch)))
    BY DEF HighestTakesPrecedence
  <2>2. Intents \in Seq(Tagged) /\ ch \in Channel
    BY <2>1, IntentsInOrder, BlendAssumption
  <2>. QED BY <2>1, <2>2, BrightestWins
<1>. QED BY <1>1, ShowInvariant, PTL

(* Where no write of a channel is blended, the merge emits the last.           *)
LEMMA LastChosenStays ==
  ASSUME ShowInv, NEW its \in Seq(Tagged), InOrder(its), NEW ch \in Channel,
         \A i \in At(its, ch) : ~ Blended(its[i]),
         NEW k \in At(its, ch), \A i \in At(its, ch) : i <= k
  PROVE  Merged(its)[ch] = Entry(its[k])
<1>. DEFINE n == Len(its)
<1>1. n \in Nat /\ At(its, ch) = {i \in 1 .. n : its[i].channel = ch}
  BY Places DEF At
<1>2. PICK e : EntryRun(e, its, ch)
  BY ChannelRuns
<1>. DEFINE P == {m \in 0 .. n : m >= k => e[m] = Entry(its[k])}
<1>3. 0 \in P
  BY <1>1
<1>4. ASSUME NEW m \in 1 .. n, m - 1 \in P PROVE m \in P
  <2>1. CASE m = k
    <3>1. its[m].channel = ch /\ ~ Blended(its[m])
      BY <1>1, <2>1
    <3>2. e[m] = Entry(its[m])
      BY <1>2, <3>1, ChosenTakesOver
    <3>. QED BY <1>1, <2>1, <3>2
  <2>2. CASE m > k
    <3>1. m - 1 >= k /\ its[m].channel # ch
      BY <1>1, <2>2
    <3>2. e[m] = e[m - 1]
      BY <1>2, <3>1 DEF EntryRun
    <3>. QED BY <1>1, <1>4, <3>1, <3>2
  <2>3. CASE ~ (m >= k)
    BY <1>1, <2>3
  <2>. QED BY <1>1, <2>1, <2>2, <2>3
<1>. HIDE DEF P
<1>5. n \in P
  <2>. HIDE DEF n
  <2>1. 0 .. n \subseteq P
    BY <1>1, <1>3, <1>4, Induction
  <2>. QED BY <1>1, <2>1
<1>6. n >= k
  BY <1>1
<1>7. e[n] = Merged(its)[ch]
  BY <1>2 DEF EntryRun
<1>. QED BY <1>5, <1>6, <1>7 DEF P

(* A position or an aim follows the cue of highest precedence, at its full     *)
(* value.                                                                      *)
THEOREM LatestIsEmitted == Spec => []LatestTakesPrecedence
<1>1. ShowInv => LatestTakesPrecedence
  <2>. DEFINE its == Intents
              mine(ch) == At(its, ch)
              latest(ch) == its[Max(mine(ch))]
  <2>1. SUFFICES ASSUME ShowInv, NEW ch \in Channel \ Intensity, mine(ch) # {}
                 PROVE  /\ \A i \in mine(ch) : ~ Before(Merged(its)[ch].owner, its[i].cue)
                        /\ Merged(its)[ch].owner = latest(ch).cue
                        /\ Merged(its)[ch].value = Full * latest(ch).norm
    BY DEF LatestTakesPrecedence
  <2>2. its \in Seq(Tagged) /\ InOrder(its)
    BY <2>1, IntentsInOrder DEF InOrder
  <2>. HIDE DEF its
  <2>3. /\ Len(its) \in Nat /\ mine(ch) = {i \in 1 .. Len(its) : its[i].channel = ch}
        /\ \A i \in 1 .. Len(its) : its[i] \in Tagged
    BY <2>2, Places DEF At
  <2>4. \A i \in mine(ch) : ~ Blended(its[i])
    BY <2>1, <2>3 DEF Blended
  <2>5. PICK k \in mine(ch) : \A i \in mine(ch) : i <= k
    <3>1. mine(ch) \subseteq 1 .. Len(its)
      BY <2>3
    <3>. HIDE DEF mine
    <3>. QED BY <2>1, <2>3, <3>1, LastPlace
  <2>6. Max(mine(ch)) = k
    <3>1. mine(ch) \subseteq Int
      BY <2>3
    <3>. HIDE DEF mine
    <3>. QED BY <2>5, <3>1, MaxIs
  <2>7. Merged(its)[ch] = Entry(its[k])
    BY <2>1, <2>2, <2>4, <2>5, LastChosenStays
  <2>8. its[k] \in Tagged /\ k \in 1 .. Len(its)
    BY <2>3, <2>5
  <2>9. /\ Merged(its)[ch].owner = its[k].cue
        /\ Merged(its)[ch].value = Full * its[k].norm
    BY <2>1, <2>4, <2>5, <2>7, <2>8, EntryType DEF Value
  <2>10. \A i \in mine(ch) : ~ Before(its[k].cue, its[i].cue)
    BY <2>2, <2>3, <2>5, <2>8 DEF InOrder
  <2>. QED BY <2>6, <2>9, <2>10
<1>. QED BY <1>1, ShowInvariant, PTL

(* A selected slot stays until a later write at least as bright, and the value *)
(* is the brightest from the selection on.                                     *)
LEMMA SelectionOutlasts ==
  ASSUME ShowInv, NEW its \in Seq(Tagged), InOrder(its), NEW ch \in Channel,
         NEW k \in At(its, ch), ~ Blended(its[k]),
         \A i \in At(its, ch) : ~ Blended(its[i]) => i <= k
  PROVE  LET later == Values(its, {i \in At(its, ch) : i > k})
         IN  /\ Merged(its)[ch].value = Max(later \cup {Value(its[k])})
             /\ Merged(its)[ch].slot =
                  IF \E v \in later : v >= Value(its[k]) THEN NoSlot ELSE its[k].slot
<1>. DEFINE n == Len(its)
            Later(i) == its[i].channel = ch /\ i > k
            base == Value(its[k])
<1>1. n \in Nat /\ At(its, ch) = {i \in 1 .. n : its[i].channel = ch}
      /\ \A i \in 1 .. n : its[i] \in Tagged
  BY Places DEF At
<1>2. k \in 1 .. n /\ its[k].channel = ch /\ its[k] \in Tagged
  BY <1>1
<1>3. \A i \in 1 .. n : Later(i) => Blended(its[i])
  BY <1>1, <1>2
<1>4. \A i \in 1 .. n : Value(its[i]) \in Nat
  BY <1>1, ValueType
<1>5. base \in Nat
  BY <1>2, <1>4
<1>6. PICK e : EntryRun(e, its, ch)
  BY ChannelRuns
<1>. HIDE DEF base
<1>. DEFINE Holds(m) ==
              /\ e[m] \in [owner : Cue, value : Nat, slot : Slot \cup {NoSlot}]
              /\ e[m].value = base \/ \E i \in 1 .. m : Later(i) /\ e[m].value = Value(its[i])
              /\ base <= e[m].value
              /\ \A i \in 1 .. m : Later(i) => Value(its[i]) <= e[m].value
              /\ e[m].slot = IF \E i \in 1 .. m : Later(i) /\ Value(its[i]) >= base
                             THEN NoSlot ELSE its[k].slot
            P == {m \in 0 .. n : m >= k => Holds(m)}
<1>7. 0 \in P
  BY <1>1, <1>2
<1>8. ASSUME NEW m \in 1 .. n, m - 1 \in P PROVE m \in P
  <2>1. /\ m \in 0 .. n /\ m \in 1 .. m
        /\ \A i \in 1 .. m : i \in 1 .. n /\ (i \in 1 .. m - 1 \/ i = m)
        /\ \A i \in 1 .. m - 1 : i \in 1 .. m
    BY <1>1
  <2>2. e[m] = IF its[m].channel = ch THEN MergeInto(e[m - 1], its[m]) ELSE e[m - 1]
    BY <1>6 DEF EntryRun
  <2>3. CASE ~ (m >= k)
    BY <2>1, <2>3
  <2>4. CASE m = k
    <3>1. e[m] = Entry(its[k])
      BY <1>2, <1>6, <2>4, ChosenTakesOver
    <3>2. /\ e[m] \in [owner : Cue, value : Nat, slot : Slot \cup {NoSlot}]
          /\ e[m].value = base /\ e[m].slot = its[k].slot
      <4>1. its[k].cue \in Cue /\ its[k].slot \in Slot \cup {NoSlot}
        BY <1>2, ContributingCues DEF Tagged
      <4>. QED BY <1>5, <3>1, <4>1 DEF Entry, base
    <3>3. \A i \in 1 .. m : ~ Later(i)
      BY <1>2, <2>4
    <3>4. Holds(m)
      BY <1>5, <3>2, <3>3
    <3>. HIDE DEF Holds
    <3>. QED BY <2>1, <3>4
  <2>5. CASE m > k
    <3>1. Holds(m - 1)
      <4>1. m - 1 >= k
        BY <1>2, <2>5
      <4>. QED BY <1>8, <4>1
    <3>2. CASE its[m].channel # ch
      <4>1. e[m] = e[m - 1]
        BY <2>2, <3>2
      <4>2. \A i \in 1 .. m : Later(i) => i \in 1 .. m - 1
        BY <2>1, <3>2
      <4>3. Holds(m)
        BY <2>1, <3>1, <4>1, <4>2
      <4>. HIDE DEF Holds
      <4>. QED BY <2>1, <4>3
    <3>3. CASE its[m].channel = ch
      <4>. DEFINE f == e[m - 1]
                  v == Value(its[m])
      <4>1. Later(m) /\ Blended(its[m]) /\ v \in Nat
        BY <1>3, <1>4, <2>5, <3>3
      <4>2. f \in [owner : Cue, value : Nat, slot : Slot \cup {NoSlot}] /\ f # NoEntry
        <5>1. f \in [owner : Cue, value : Nat, slot : Slot \cup {NoSlot}]
          BY <3>1
        <5>2. f.owner # NoEntry.owner
          BY <5>1, ConstantTypes DEF NoEntry, Cue
        <5>. QED BY <5>1, <5>2
      <4>3. e[m] = Brighter(f, its[m])
        BY <2>2, <3>3, <4>1, <4>2, MergeCases
      <4>4. /\ e[m] \in [owner : Cue, value : Nat, slot : Slot \cup {NoSlot}]
            /\ e[m].value = IF v >= f.value THEN v ELSE f.value
            /\ e[m].slot = IF v >= f.value THEN NoSlot ELSE f.slot
        BY <4>1, <4>2, <4>3 DEF Brighter
      <4>5. f.value \in Nat /\ base <= f.value /\ f.value <= e[m].value /\ v <= e[m].value
            /\ e[m].value \in Nat
        BY <3>1, <4>1, <4>2, <4>4
      <4>6. base <= e[m].value
        BY <1>5, <4>5
      <4>7. e[m].value = base \/ \E i \in 1 .. m : Later(i) /\ e[m].value = Value(its[i])
        <5>1. CASE v >= f.value
          BY <2>1, <4>1, <4>4, <5>1
        <5>2. CASE ~ (v >= f.value)
          <6>1. e[m].value = f.value
            BY <4>4, <5>2
          <6>. QED BY <2>1, <3>1, <6>1
        <5>. QED BY <5>1, <5>2
      <4>8. ASSUME NEW i \in 1 .. m, Later(i) PROVE Value(its[i]) <= e[m].value
        <5>1. CASE i = m
          BY <4>5, <5>1
        <5>2. CASE i \in 1 .. m - 1
          <6>1. Value(its[i]) <= f.value /\ Value(its[i]) \in Nat
            BY <1>4, <2>1, <3>1, <4>8, <5>2
          <6>. QED BY <4>5, <6>1
        <5>. QED BY <2>1, <5>1, <5>2
      <4>9. e[m].slot = IF \E i \in 1 .. m : Later(i) /\ Value(its[i]) >= base
                        THEN NoSlot ELSE its[k].slot
        <5>1. f.slot = IF \E i \in 1 .. m - 1 : Later(i) /\ Value(its[i]) >= base
                       THEN NoSlot ELSE its[k].slot
          BY <3>1
        <5>2. CASE v >= f.value
          <6>1. Value(its[m]) >= base
            BY <1>5, <4>1, <4>5, <5>2
          <6>. QED BY <2>1, <4>1, <4>4, <5>2, <6>1
        <5>3. CASE ~ (v >= f.value) /\ \E i \in 1 .. m - 1 : Later(i) /\ Value(its[i]) >= base
          <6>1. \E i \in 1 .. m : Later(i) /\ Value(its[i]) >= base
            BY <2>1, <5>3
          <6>. QED BY <4>4, <5>1, <5>3, <6>1
        <5>4. CASE ~ (v >= f.value) /\ ~ \E i \in 1 .. m - 1 : Later(i) /\ Value(its[i]) >= base
          <6>1. f.value = base
            <7>1. ASSUME NEW i \in 1 .. m - 1, Later(i), f.value = Value(its[i]) PROVE FALSE
              <8>1. Value(its[i]) >= base
                BY <1>5, <4>5, <7>1
              <8>. QED BY <5>4, <7>1, <8>1
            <7>. QED BY <3>1, <7>1
          <6>2. ~ (v >= base)
            BY <5>4, <6>1
          <6>3. ~ \E i \in 1 .. m : Later(i) /\ Value(its[i]) >= base
            BY <2>1, <5>4, <6>2
          <6>. QED BY <4>4, <5>1, <5>4, <6>3
        <5>. QED BY <5>2, <5>3, <5>4
      <4>10. Holds(m)
        BY <4>4, <4>6, <4>7, <4>8, <4>9
      <4>. HIDE DEF Holds
      <4>. QED BY <2>1, <4>10
    <3>. QED BY <3>2, <3>3
  <2>. QED BY <1>2, <2>3, <2>4, <2>5
<1>. HIDE DEF P
<1>9. n \in P
  <2>. HIDE DEF n
  <2>1. 0 .. n \subseteq P
    BY <1>1, <1>7, <1>8, Induction
  <2>. QED BY <1>1, <2>1
<1>10. Holds(n) /\ e[n] = Merged(its)[ch]
  <2>1. e[n] = Merged(its)[ch]
    BY <1>6 DEF EntryRun
  <2>2. n >= k
    BY <1>1, <1>2
  <2>. HIDE DEF n, Holds
  <2>. QED BY <1>9, <2>1, <2>2 DEF P
<1>. DEFINE later == Values(its, {i \in At(its, ch) : i > k})
<1>11. later = {Value(its[i]) : i \in {j \in 1 .. n : Later(j)}}
  BY <1>1 DEF Values
<1>12. Max(later \cup {base}) = e[n].value
  <2>. DEFINE V == later \cup {base}
  <2>1. V \subseteq Int /\ e[n].value \in V /\ \A y \in V : y <= e[n].value
    BY <1>4, <1>5, <1>10, <1>11
  <2>. HIDE DEF V
  <2>2. Max(V) = e[n].value
    BY <2>1, MaxIs
  <2>. QED BY <2>2 DEF V
<1>13. (\E v \in later : v >= base) <=> \E i \in 1 .. n : Later(i) /\ Value(its[i]) >= base
  BY <1>11
<1>14. Merged(its)[ch].slot = IF \E v \in later : v >= base THEN NoSlot ELSE its[k].slot
  <2>1. e[n].slot = IF \E i \in 1 .. n : Later(i) /\ Value(its[i]) >= base
                    THEN NoSlot ELSE its[k].slot
    BY <1>10
  <2>. HIDE DEF later, Later
  <2>. QED BY <1>10, <1>13, <2>1
<1>. QED BY <1>10, <1>12, <1>14 DEF base

(* A slot selected on an intensity beats every earlier write and is lost only  *)
(* to a later one at least as bright.                                          *)
THEOREM SelectionIsKept == Spec => []SlotSelectionHolds
<1>1. ShowInv => SlotSelectionHolds
  <2>. DEFINE its == Intents
              chosen(ch) == {i \in At(its, ch) : ~ Blended(its[i])}
              later(ch) == Values(its, {i \in At(its, ch) : i > Max(chosen(ch))})
  <2>1. SUFFICES ASSUME ShowInv, NEW ch \in Intensity, chosen(ch) # {}
                 PROVE  /\ Merged(its)[ch].value = Max(later(ch) \cup {Value(its[Max(chosen(ch))])})
                        /\ Merged(its)[ch].slot =
                             IF \E v \in later(ch) : v >= Value(its[Max(chosen(ch))])
                             THEN NoSlot ELSE its[Max(chosen(ch))].slot
    BY DEF SlotSelectionHolds
  <2>2. its \in Seq(Tagged) /\ InOrder(its) /\ ch \in Channel
    BY <2>1, IntentsInOrder, BlendAssumption DEF InOrder
  <2>. HIDE DEF its
  <2>3. Len(its) \in Nat /\ chosen(ch) \subseteq 1 .. Len(its) /\ chosen(ch) \subseteq Int
    BY <2>2, Places DEF At
  <2>4. PICK k \in chosen(ch) : \A i \in chosen(ch) : i <= k
    <3>. HIDE DEF chosen
    <3>. QED BY <2>1, <2>3, LastPlace
  <2>5. Max(chosen(ch)) = k
    <3>. HIDE DEF chosen
    <3>. QED BY <2>3, <2>4, MaxIs
  <2>6. k \in At(its, ch) /\ ~ Blended(its[k])
        /\ \A i \in At(its, ch) : ~ Blended(its[i]) => i <= k
    BY <2>4
  <2>. HIDE DEF chosen
  <2>7. LET after == Values(its, {i \in At(its, ch) : i > k})
        IN  /\ Merged(its)[ch].value = Max(after \cup {Value(its[k])})
            /\ Merged(its)[ch].slot =
                 IF \E v \in after : v >= Value(its[k]) THEN NoSlot ELSE its[k].slot
    BY <2>1, <2>2, <2>6, SelectionOutlasts
  <2>. QED BY <2>5, <2>7
<1>. QED BY <1>1, ShowInvariant, PTL

(* Every frame merges by precedence on every kind of channel: the three        *)
(* theorems above hold of it at once.                                          *)
THEOREM MergingHolds == Spec => []MergesByPrecedence
<1>1. HighestTakesPrecedence /\ LatestTakesPrecedence /\ SlotSelectionHolds => MergesByPrecedence
  BY DEF MergesByPrecedence
<1>. QED BY <1>1, BrightestIsEmitted, LatestIsEmitted, SelectionIsKept, PTL
================================================================================
