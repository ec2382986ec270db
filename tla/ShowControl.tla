------------------------------ MODULE ShowControl ------------------------------
(***************************************************************************)
(* ShowController (show_control.cpp): the cues and scenes of a running     *)
(* show, their fade envelopes, and the retirement of finished cues.        *)
(*                                                                         *)
(* Time is relative.  The code stamps a cue with absolute times (goTime,   *)
(* releaseTime) and subtracts them from the frame's time; the model keeps  *)
(* the two differences, saturated at Horizon, beyond which no envelope     *)
(* changes.  A caller that stamps an operation with a time older than the  *)
(* current frame passes the difference as lag.                             *)
(***************************************************************************)
EXTENDS Integers, Sequences

CONSTANTS
  CueDefs,     \* the cue definitions scripts create
  SceneLists,  \* the cue lists scripts make scenes of
  Shows,       \* the cue and scene tables boot.fnl may define
  Levels,      \* the positive levels a fader sets, in units of weight
  Full,        \* the weight of a fully raised cue (1.0)
  MaxCues,     \* bound: cues defined
  MaxScenes,   \* bound: scenes defined
  MaxSeq,      \* bound: activations numbered
  MaxLag,      \* bound: how far behind the frame a caller's time may be
  Horizon      \* age at which ages saturate

\* addCue's arguments, less the effects, which only CueBlend looks into.
\* fadeIn and fadeOut 0 stand for every value the code treats as "no fade",
\* hold 0 for every value it treats as "until released".
CueAssumption ==
  \A d \in CueDefs :
    /\ {d.fadeIn, d.hold, d.fadeOut, d.priority} \subseteq Nat
    /\ d.fadeIn + MaxLag <= Horizon /\ d.fadeOut <= Horizon
    /\ d.hold > 0 => d.fadeIn + d.hold + d.fadeOut + MaxLag <= Horizon

\* A list that named a cue twice would activate it twice in a row, which only
\* skips an activation number: lists without repetition stand for all of them.
SceneAssumption ==
  \A ids \in SceneLists :
    /\ ids \in Seq(1 .. MaxCues)
    /\ \A i, j \in DOMAIN ids : ids[i] = ids[j] => i = j

\* The cues a list names.
Listed(ids) == {ids[i] : i \in DOMAIN ids}

ASSUME ShowAssumption ==
  /\ {MaxCues, MaxScenes, MaxSeq, MaxLag, Horizon} \subseteq Nat
  /\ MaxLag <= Horizon
  /\ Full \in Nat \ {0}
  /\ Levels \subseteq 1 .. Full
  /\ CueAssumption
  /\ SceneAssumption
  /\ \A show \in Shows :
       /\ show.cues \in Seq(CueDefs) /\ Len(show.cues) <= MaxCues
       /\ show.scenes \in Seq(SceneLists) /\ Len(show.scenes) <= MaxScenes
       /\ \A s \in DOMAIN show.scenes : Listed(show.scenes[s]) \subseteq DOMAIN show.cues

VARIABLES
  cues,      \* cues_: the definitions, a cue's id is its place
  scenes,    \* scenes_: the cue lists
  active,    \* cues with active
  released,  \* cues with released
  manual,    \* cues with manualOverride
  level,     \* manualLevel
  goAge,     \* time since goTime
  relAge,    \* time since releaseTime
  relWeight, \* releaseWeight
  seq,       \* activationSeq
  nextSeq    \* nextActivationSeq_

vars == <<cues, scenes, active, released, manual, level,
          goAge, relAge, relWeight, seq, nextSeq>>

Cue == 1 .. MaxCues

\* findCue: an id beyond the table is no cue, and every operation on it returns.
Defined == DOMAIN cues

Init ==
  /\ \E show \in Shows : cues = show.cues /\ scenes = show.scenes
  /\ active = {} /\ released = {} /\ manual = {}
  /\ level = [c \in Cue |-> 0]
  /\ goAge = [c \in Cue |-> 0]
  /\ relAge = [c \in Cue |-> 0]
  /\ relWeight = [c \in Cue |-> 0]
  /\ seq = [c \in Cue |-> 0]
  /\ nextSeq = 0

--------------------------------------------------------------------------------
(* Envelopes: weightAndAlive.                                                  *)

HeldEnd(d) == d.fadeIn + d.hold

TotalTime(d) == HeldEnd(d) + d.fadeOut

\* The part n/d of weight w.
Share(w, n, d) == (w * n) \div d

\* The weight of an unreleased cue, e after its go.
Rise(d, e) ==
  CASE e < 0 -> 0
    [] e >= 0 /\ e < d.fadeIn -> Share(Full, e, d.fadeIn)
    [] e >= d.fadeIn /\ (d.hold = 0 \/ e < HeldEnd(d)) -> Full
    [] d.hold > 0 /\ e >= HeldEnd(d) /\ e < TotalTime(d) ->
         Share(Full, TotalTime(d) - e, d.fadeOut)
    [] OTHER -> 0

\* Mutant: the fall starts from full weight.
FallFromFull(d, w, e) == IF e < d.fadeOut THEN Share(Full, d.fadeOut - e, d.fadeOut) ELSE 0

\* The weight of a cue released at weight w, e after its release.
Fall(d, w, e) == IF e < d.fadeOut THEN Share(w, d.fadeOut - e, d.fadeOut) ELSE 0

\* The weight of cue c at the time lag before the current frame.
Weight(c, lag) ==
  CASE c \in manual -> level[c]
    [] c \in active \ (manual \cup released) -> Rise(cues[c], goAge[c] - lag)
    [] c \in (active \cap released) \ manual -> Fall(cues[c], relWeight[c], relAge[c] - lag)
    [] OTHER -> 0

Alive(c) ==
  \/ c \in manual
  \/ /\ c \in active \cap released
     /\ relAge[c] < cues[c].fadeOut
  \/ /\ c \in active \ released
     /\ \/ cues[c].hold = 0
        \/ goAge[c] < TotalTime(cues[c])

--------------------------------------------------------------------------------
(* Operations on cues.                                                         *)

AddCue(d) ==
  /\ Len(cues) < MaxCues
  /\ cues' = Append(cues, d)
  /\ UNCHANGED <<scenes, active, released, manual, level,
                 goAge, relAge, relWeight, seq, nextSeq>>

\* A scene names cues by the ids their definitions returned.
AddScene(ids) ==
  /\ Len(scenes) < MaxScenes
  /\ Listed(ids) \subseteq Defined
  /\ scenes' = Append(scenes, ids)
  /\ UNCHANGED <<cues, active, released, manual, level,
                 goAge, relAge, relWeight, seq, nextSeq>>

PlaceIn(ids, c) == CHOOSE i \in DOMAIN ids : ids[i] = c

\* go, once for each cue of the list, in order.
GoEach(ids, lag) ==
  /\ nextSeq + Len(ids) <= MaxSeq
  /\ active' = active \cup Listed(ids)
  /\ released' = released \ Listed(ids)
  /\ goAge' = [c \in Cue |-> IF c \in Listed(ids) THEN lag ELSE goAge[c]]
  /\ seq' = [c \in Cue |-> IF c \in Listed(ids)
                             THEN nextSeq + PlaceIn(ids, c) - 1 ELSE seq[c]]
  /\ nextSeq' = nextSeq + Len(ids)
  /\ UNCHANGED <<cues, scenes, manual, level, relAge, relWeight>>

\* Mutant: release does not notice that the cue is released already, so every
\* further release starts the fade again.
ReleaseEachAgain(ids, lag) ==
  LET falling == Listed(ids) \cap active
  IN  /\ released' = released \cup falling
      /\ relAge' = [c \in Cue |-> IF c \in falling THEN lag ELSE relAge[c]]
      /\ relWeight' = [c \in Cue |-> IF c \in falling THEN Weight(c, lag) ELSE relWeight[c]]
      /\ UNCHANGED <<cues, scenes, active, manual, level, goAge, seq, nextSeq>>

\* release, once for each cue of the list: only an active cue that is not
\* released already starts to fall, from the weight it has.
ReleaseEach(ids, lag) ==
  LET falling == (Listed(ids) \cap active) \ released
  IN  /\ released' = released \cup falling
      /\ relAge' = [c \in Cue |-> IF c \in falling THEN lag ELSE relAge[c]]
      /\ relWeight' = [c \in Cue |-> IF c \in falling THEN Weight(c, lag) ELSE relWeight[c]]
      /\ UNCHANGED <<cues, scenes, active, manual, level, goAge, seq, nextSeq>>

Go(c, lag) == c \in Defined /\ GoEach(<<c>>, lag)

Release(c, lag) == c \in Defined /\ ReleaseEach(<<c>>, lag)

GoScene(s, lag) == s \in DOMAIN scenes /\ GoEach(scenes[s], lag)

ReleaseScene(s, lag) == s \in DOMAIN scenes /\ ReleaseEach(scenes[s], lag)

\* setManualLevel above zero.
RaiseLevel(c, v) ==
  /\ c \in Defined
  /\ c \in active \/ nextSeq < MaxSeq
  /\ seq' = [seq EXCEPT ![c] = IF c \in active THEN @ ELSE nextSeq]
  /\ nextSeq' = IF c \in active THEN nextSeq ELSE nextSeq + 1
  /\ active' = active \cup {c}
  /\ released' = released \ {c}
  /\ manual' = manual \cup {c}
  /\ level' = [level EXCEPT ![c] = v]
  /\ UNCHANGED <<cues, scenes, goAge, relAge, relWeight>>

\* setManualLevel at zero: off at once, without a fade.
DropLevel(c) ==
  /\ c \in Defined
  /\ manual' = manual \ {c}
  /\ level' = [level EXCEPT ![c] = 0]
  /\ active' = active \ {c}
  /\ UNCHANGED <<cues, scenes, released, goAge, relAge, relWeight, seq, nextSeq>>

StopAll ==
  /\ active' = {}
  /\ released' = {}
  /\ manual' = {}
  /\ UNCHANGED <<cues, scenes, level, goAge, relAge, relWeight, seq, nextSeq>>

--------------------------------------------------------------------------------
(* Frames.                                                                     *)

\* Mutant: only released cues are retired.
EvaluatedUnlessReleased == {c \in active : c \notin released \/ Alive(c)}

\* The cues evaluate walks over without retiring them.
Evaluated == {c \in active : Alive(c)}

\* evaluate's effect on the cues: whatever is no longer alive is retired.
Evaluate ==
  /\ active' = Evaluated
  /\ UNCHANGED <<cues, scenes, released, manual, level,
                 goAge, relAge, relWeight, seq, nextSeq>>

Older(age, d) == IF age + d > Horizon THEN Horizon ELSE age + d

\* Time passes between two frames, by d of the model's units.
Advance(d) ==
  /\ goAge' = [c \in Cue |-> Older(goAge[c], d)]
  /\ relAge' = [c \in Cue |-> Older(relAge[c], d)]
  /\ UNCHANGED <<cues, scenes, active, released, manual, level,
                 relWeight, seq, nextSeq>>

\* What scripts, controllers and the safety paths do between two frames.
Operate ==
  \/ \E d \in CueDefs : AddCue(d)
  \/ \E ids \in SceneLists : AddScene(ids)
  \/ \E c \in Cue :
       \/ \E lag \in 0 .. MaxLag : Go(c, lag) \/ Release(c, lag)
       \/ \E v \in Levels : RaiseLevel(c, v)
       \/ DropLevel(c)
  \/ \E s \in 1 .. MaxScenes, lag \in 0 .. MaxLag : GoScene(s, lag) \/ ReleaseScene(s, lag)
  \/ StopAll

Next == Operate \/ Evaluate \/ Advance(1)

Spec == Init /\ [][Next]_vars

\* The render task's period: frames are evaluated and time goes on.
FrameFairness == WF_vars(Advance(1)) /\ WF_vars(Evaluate)

FairSpec == Spec /\ FrameFairness

--------------------------------------------------------------------------------
(* Properties.                                                                 *)

(* The shape of ShowController's fields.                                       *)
TypeOK ==
  /\ cues \in Seq(CueDefs) /\ Len(cues) <= MaxCues
  /\ scenes \in Seq(SceneLists) /\ Len(scenes) <= MaxScenes
  /\ \A s \in DOMAIN scenes : Listed(scenes[s]) \subseteq Defined
  /\ active \subseteq Defined
  /\ released \subseteq Defined
  /\ manual \subseteq Defined
  /\ level \in [Cue -> 0 .. Full]
  /\ goAge \in [Cue -> 0 .. Horizon]
  /\ relAge \in [Cue -> 0 .. Horizon]
  /\ relWeight \in [Cue -> 0 .. Full]
  /\ seq \in [Cue -> Nat]
  /\ nextSeq \in Nat

(* A cue held by a fader is always counted as active: anyActive, the check     *)
(* that refuses a firmware update during a show, reads the active flag while   *)
(* weightAndAlive reads the override first (show_control.cpp:126-136), so the  *)
(* two must not part.                                                          *)
OverrideIsActive == manual \subseteq active

(* Two cues that are active at once were activated in a definite order: the    *)
(* blend of equal priorities (show_control.cpp:216-222) has no ties, however   *)
(* go, a scene's go and a fader's first touch mix.                             *)
ActiveOrder ==
  \A c, d \in active :
    /\ seq[c] < nextSeq
    /\ seq[c] = seq[d] => c = d

(* Whatever is interrupted by whatever, a fade stays between dark and full.    *)
WeightInRange == \A c \in Defined : Weight(c, 0) \in 0 .. Full

Falling(c) == c \in (active \cap released) \ manual

(* A release never brightens: every step while a cue falls leaves it at most   *)
(* as bright as it was, and so does the step that releases it, whatever was    *)
(* cut off (a fade-in, a hold, the cue's own fade-out), until a go or a fader  *)
(* takes it over.  A caller with a time behind the frame releases the cue as   *)
(* it was at that time.                                                        *)
ReleaseNeverBrightens ==
  [][\A c \in Cue : Falling(c)' =>
       \E lag \in IF Falling(c) THEN {0} ELSE 0 .. MaxLag :
         Weight(c, 0)' <= Weight(c, lag)]_vars

(* A released cue ends, even if its release is repeated on every frame: it     *)
(* becomes inactive unless a go or a fader takes it over.                      *)
ReleasedEndsDark ==
  \A c \in Cue : Falling(c) ~> ~Falling(c)

Timed(c) == c \in active \ (released \cup manual) /\ cues[c].hold > 0

(* A cue with a hold time ends on its own, unless it is started again (age 0), *)
(* released, or taken over by a fader.                                         *)
TimedCueEnds ==
  \A c \in Cue : Timed(c) ~> ~Timed(c) \/ goAge[c] = 0

(* Every cue that should end does.                                             *)
CuesEnd == ReleasedEndsDark /\ TimedCueEnds
================================================================================
