------------------------------- MODULE BeatClock -------------------------------
(***************************************************************************)
(* Musical time: the render task feeds the beats of the transports         *)
(* (BeatInputs) to a phase-locked loop (beat_clock.cpp), scripts tap a     *)
(* tempo, and effects read beat numbers.                                   *)
(*                                                                         *)
(* A period is counted in Scale parts of a tick, a beat number in Unit     *)
(* parts of a beat.  Quotients are rounded down, which, like the code's    *)
(* double, keeps a beat number a monotone function of its time.            *)
(***************************************************************************)
EXTENDS BeatInputs

CONSTANTS
  Scale,         \* parts of a tick in a period
  Unit,          \* parts of a beat in a beat number
  NoBar,         \* no beat has said its place in a bar
  DefaultPeriod, \* kDefaultPeriodUs
  MinPeriod,     \* kAbsMinPeriodUs
  MaxPeriod,     \* kAbsMaxPeriodUs
  FramePops      \* pumpBeatEvents' maxPerFrame

ASSUME BeatAssumption ==
  /\ {Scale, Unit, MinPeriod} \subseteq Nat \ {0}
  /\ {MaxPeriod, FramePops} \subseteq Nat
  /\ DefaultPeriod \in MinPeriod .. MaxPeriod

VARIABLES
  phase,      \* where the render task is in its frame
  frameT,     \* the time the frame was given
  pops,       \* events fed to the clock in this frame
  scriptT,    \* currentT_: the time of the last frame in which an effect ran
  period,     \* periodUs_
  anchorT,    \* anchorTUs_, and lastEventTUs_ once heard
  anchorBeat, \* anchorBeat_
  heard,      \* lastEventTUs_ >= 0
  known,      \* tempoKnown_
  barAnchor,  \* barAnchorBeat_, NoBar without haveBar_
  taps,       \* tapTimes_, the last tapCount_ of them
  shown       \* what an effect last read: the beat number, and whether a beat had been heard

clock == <<period, anchorT, anchorBeat, heard, known, barAnchor>>

frame == <<phase, frameT, pops>>

script == <<scriptT, taps, shown>>

beatVars == <<inputVars, frame, script, clock>>

Larger(a, b) == IF a > b THEN a ELSE b

\* std::clamp to the sane periods.
Sane(p) == IF p < MinPeriod THEN MinPeriod ELSE IF p > MaxPeriod THEN MaxPeriod ELSE p

\* std::round of x / u.
Round(x, u) == (2 * x + u) \div (2 * u)

ClockInit ==
  /\ InputsInit
  /\ phase = "idle" /\ frameT = 0 /\ pops = 0
  /\ scriptT = 0
  /\ period = DefaultPeriod
  /\ anchorT = 0
  /\ anchorBeat = 0
  /\ heard = FALSE
  /\ known = FALSE
  /\ barAnchor = NoBar
  /\ taps = <<>>
  /\ shown = [beat |-> 0, heard |-> FALSE]

--------------------------------------------------------------------------------
(* The clock (beat_clock.cpp).                                                 *)

BeatAt(t) == anchorBeat + (((t - anchorT) * Scale * Unit) \div period)

\* Where the bar began, if the beat says its place in it.
BarFrom(bar, at) == IF bar = 0 THEN barAnchor ELSE at - (bar - 1) * Unit

\* The first beat ever only anchors; it sets the tempo if it reports one.
FirstBeat(e) ==
  /\ anchorT' = e.t
  /\ anchorBeat' = 0
  /\ period' = IF e.report > 0 THEN e.report ELSE period
  /\ known' = (known \/ e.report > 0)
  /\ heard' = TRUE
  /\ barAnchor' = BarFrom(e.bar, 0)

\* The period a beat implies: its report, or the time since the last beat.
Measured(e) ==
  LET dt == (e.t - anchorT) * Scale
  IN  dt \div Larger(1, Round(dt, period))

Target(e) == IF e.report > 0 THEN e.report ELSE Measured(e)

Wild(e) ==
  \/ Target(e) \notin MinPeriod .. MaxPeriod
  \/ known /\ (Target(e) > 2 * period \/ 2 * Target(e) < period)

\* How far the model is ahead of the beat.
PhaseError(e) == BeatAt(e.t) - Unit * Round(BeatAt(e.t), Unit)

\* Mutants: the position is stepped onto the beat; the period is not clamped.
StepPhase(e) == - PhaseError(e)

\* The forward-only share (kPhaseGain) of the phase error.
Nudge(e) == Larger(0, -3 * PhaseError(e)) \div 20

NewPeriod(e) ==
  Sane(period + (3 * (Target(e) - period)) \div 20 + (PhaseError(e) * period) \div (10 * Unit))

Correct(e) ==
  /\ anchorBeat' = BeatAt(e.t) + Nudge(e)
  /\ anchorT' = e.t
  /\ period' = NewPeriod(e)
  /\ heard' = TRUE
  /\ known' = TRUE
  /\ barAnchor' = BarFrom(e.bar, BeatAt(e.t) + Nudge(e))

Garbage(e) == e.report # 0 /\ e.report \notin MinPeriod .. MaxPeriod

OnBeat(e) ==
  \/ /\ Garbage(e) \/ (heard /\ Wild(e))
     /\ UNCHANGED clock
  \/ /\ ~ Garbage(e) /\ ~ heard
     /\ FirstBeat(e)
  \/ /\ ~ Garbage(e) /\ heard /\ ~ Wild(e)
     /\ Correct(e)

\* The intervals between the last taps, less the outliers from their median.
Intervals(ts) == [i \in 1 .. Len(ts) - 1 |-> ts[i + 1] - ts[i]]

Kept(ts) ==
  LET all == Intervals(ts)
      median == SortSeq(all, <)[(Len(all) \div 2) + 1]
      near == SelectSeq(all, LAMBDA d : median = 0 \/ 10 * Larger(d - median, median - d) <= 3 * median)
  IN  IF near = <<>> THEN <<median>> ELSE near

LastFour(ts) == SubSeq(ts, Larger(1, Len(ts) - 3), Len(ts))

Tap(t) ==
  LET ts == LastFour(Append(taps, t))
      sum == FoldLeft(LAMBDA a, b : a + b, 0, Kept(ts))
  IN  /\ taps' = ts
      /\ IF Len(ts) < 2
         THEN OnBeat([t |-> t, report |-> 0, bar |-> 0])
         ELSE \/ sum = 0 /\ UNCHANGED clock
              \/ sum > 0 /\ OnBeat([t |-> t, report |-> (sum * Scale) \div Len(Kept(ts)), bar |-> 0])

--------------------------------------------------------------------------------
(* The render task's frame.                                                    *)

\* Time goes on, while the task runs too, but a frame takes at most a tick.
Tick ==
  /\ now < setup.time
  /\ phase = "idle" \/ now = frameT
  /\ now' = now + 1
  /\ UNCHANGED <<setup, events, queue, held, midi, booth, frame, script, clock>>

\* A transport that holds a beat runs again before a second frame begins.
BeginFrame ==
  /\ phase = "idle"
  /\ now > frameT
  /\ \A x \in Transport : held[x] # NoEvent => held[x].t >= frameT
  /\ phase' = "console"
  /\ frameT' = now
  /\ UNCHANGED <<inputVars, pops, script, clock>>

\* A console's (glow.tap), at the time of the last effect.
ConsoleTap ==
  /\ phase = "console"
  /\ events < setup.events
  /\ events' = events + 1
  /\ Tap(scriptT)
  /\ UNCHANGED <<setup, now, queue, held, midi, booth, frame, scriptT, shown>>

PumpBeat ==
  /\ phase \in {"console", "pump"}
  /\ pops < FramePops
  /\ queue # <<>>
  /\ OnBeat(Head(queue))
  /\ queue' = Tail(queue)
  /\ phase' = "pump"
  /\ pops' = pops + 1
  /\ UNCHANGED <<setup, now, events, held, midi, booth, frameT, script>>

Pumped == phase \in {"console", "pump"} /\ (pops = FramePops \/ queue = <<>>)

\* An effect that taps, on some event of its own, before it reads the beat.
EffectTap ==
  /\ Pumped \/ phase = "draw"
  /\ events < setup.events
  /\ events' = events + 1
  /\ Tap(frameT)
  /\ phase' = "draw"
  /\ scriptT' = frameT
  /\ UNCHANGED <<setup, now, queue, held, midi, booth, frameT, pops, shown>>

\* The frame draws; the playing cues may have a Lua effect that reads the beat,
\* one that does not, or none.
Draw ==
  /\ Pumped \/ phase = "draw"
  /\ phase' = "idle"
  /\ \/ UNCHANGED <<shown, scriptT>>
     \/ /\ scriptT' = frameT
        /\ shown' \in {shown, [beat |-> BeatAt(frameT), heard |-> heard]}
  /\ pops' = 0
  /\ UNCHANGED <<inputVars, frameT, taps, clock>>

\* The transports' tasks.
Inputs ==
  /\ Midi \/ DjLink \/ \E x \in Transport : PushBeat(x)
  /\ UNCHANGED <<frame, script, clock>>

BeatNext ==
  \/ Tick
  \/ Inputs
  \/ BeginFrame
  \/ ConsoleTap
  \/ PumpBeat
  \/ EffectTap \/ Draw

BeatSpec == ClockInit /\ [][BeatNext]_beatVars

--------------------------------------------------------------------------------
(* Properties.                                                                 *)

(* The clock's fields; the period stays between the slowest and the fastest    *)
(* sane tempo (beat_clock.cpp:107).                                            *)
BeatTypeOK ==
  /\ now \in 0 .. setup.time /\ frameT \in 0 .. now /\ scriptT \in 0 .. frameT
  /\ events \in 0 .. setup.events
  /\ \A x \in Transport : held[x] = NoEvent \/ held[x].t \in 0 .. now
  /\ Len(queue) <= Capacity
  /\ pulses \in 0 .. PulsesPerBeat - 1 /\ Len(buffer_) < 3
  /\ present \subseteq Player /\ master \in present \cup {Nobody}
  /\ Len(entries) <= TableSize
  /\ phase \in {"idle", "console", "pump", "draw"}
  /\ pops \in 0 .. FramePops
  /\ period \in MinPeriod .. MaxPeriod
  /\ anchorT \in 0 .. now
  /\ anchorBeat \in Int
  /\ {heard, known} \subseteq BOOLEAN
  /\ (barAnchor \in {NoBar} \/ barAnchor \in Int)
  /\ taps \in Seq(0 .. now) /\ Len(taps) <= 4
  /\ shown \in [beat : Int, heard : BOOLEAN]

(* What effects read never runs back once a beat has been heard: not through   *)
(* early, late, delayed, swapped or rejected beats of several transports, nor  *)
(* through taps (beat_clock.h, MONOTONICITY).                                  *)
BeatNeverRunsBack == [][shown.heard => shown'.beat >= shown.beat]_beatVars
================================================================================
