------------------------------- MODULE CueBlend --------------------------------
(***************************************************************************)
(* What ShowController::evaluate emits: the intents of all contributing    *)
(* cues merged channel by channel, brightest-wins for intensities and      *)
(* highest-precedence-wins for positions, aims and range selections.       *)
(***************************************************************************)
EXTENDS ShowControl, SequencesExt

CONSTANTS
  Channel,    \* (fixture, capability) pairs, and fixtures as targets of aims
  Intensity,  \* the channels of an intensity capability (isIntensityClass)
  Slot,       \* named or numbered ranges of a channel
  NoSlot      \* the slot of a plain intent: neither range name nor range index

\* What an effect emits: a norm in 0..1 (whole units here) for a channel.
CapIntent == [channel : Channel, norm : Nat, slot : Slot \cup {NoSlot}]

\* A cue's definition also has writes, the intents of its effects in order.
ASSUME BlendAssumption ==
  /\ Intensity \subseteq Channel
  /\ \A d \in CueDefs : d.writes \in Seq(CapIntent)

\* Precedence: (priority, activationSeq).
Before(c, d) ==
  \/ cues[c].priority < cues[d].priority
  \/ cues[c].priority = cues[d].priority /\ seq[c] < seq[d]

\* The cues that contribute to this frame.
Contributing == {c \in Evaluated : Weight(c, 0) > 0}

\* In order, lowest precedence first: as many come before the i-th as before i.
Contributors ==
  [i \in 1 .. Cardinality(Contributing) |->
     CHOOSE c \in Contributing : Cardinality({d \in Contributing : Before(d, c)}) = i - 1]

\* The intents of the frame in the order evaluate merges them.
IntentsOf(c) ==
  [i \in DOMAIN cues[c].writes |->
     LET w == cues[c].writes[i]
     IN  [channel |-> w.channel, norm |-> w.norm, slot |-> w.slot, cue |-> c]]

Intents ==
  LET order == Contributors
  IN  FlattenSeq([i \in DOMAIN order |-> IntentsOf(order[i])])

--------------------------------------------------------------------------------
(* The merge: one working entry per channel, updated intent by intent.         *)

\* A plain write to an intensity channel is blended, everything else is chosen.
Blended(ci) == ci.slot = NoSlot /\ ci.channel \in Intensity

\* A blended write counts by its cue's weight, a chosen one as it is.
Value(ci) == (IF Blended(ci) THEN Weight(ci.cue, 0) ELSE Full) * ci.norm

\* No cue, and no value: the channel is not in the working set.
NoEntry == [owner |-> 0]

Entry(ci) == [owner |-> ci.cue, value |-> Value(ci), slot |-> ci.slot]

\* Mutant: a plain write never clears the slot an earlier cue selected.
BrighterKeepingSlot(e, ci) ==
  IF Value(ci) >= e.value THEN [e EXCEPT !.value = Value(ci)] ELSE e

\* Mutant: the last blended write wins, however dark.
BrighterLastWins(e, ci) == [e EXCEPT !.value = Value(ci), !.slot = NoSlot]

\* A blended write that is (or ties) the brightest wins, and clears the slot.
\* The entry's owner stays: only chosen writes look at it.
Brighter(e, ci) ==
  IF Value(ci) >= e.value THEN [e EXCEPT !.value = Value(ci), !.slot = NoSlot] ELSE e

\* Mutant: the owner of a channel is only displaced by a higher priority.
ChosenByPriority(e, ci) ==
  IF cues[e.owner].priority < cues[ci.cue].priority THEN Entry(ci) ELSE e

\* A chosen write wins unless the channel's owner has precedence over its cue.
Chosen(e, ci) == IF Before(ci.cue, e.owner) THEN e ELSE Entry(ci)

MergeInto(e, ci) ==
  CASE e = NoEntry -> Entry(ci)
    [] e # NoEntry /\ Blended(ci) -> Brighter(e, ci)
    [] OTHER -> Chosen(e, ci)

\* The working entries after merging the intents its in order; those of
\* Intents are what a frame evaluated now emits.
Merged(its) ==
  LET work[n \in 0 .. Len(its)] ==
        IF n = 0 THEN [ch \in Channel |-> NoEntry]
        ELSE [work[n - 1] EXCEPT ![its[n].channel] = MergeInto(@, its[n])]
  IN  work[Len(its)]

--------------------------------------------------------------------------------
(* Properties: the merge against what it is meant to compute.                  *)

\* The intents for a channel, by their places.
At(its, ch) == {i \in DOMAIN its : its[i].channel = ch}

Values(its, places) == {Value(its[i]) : i \in places}

(* On an intensity that no cue selects a slot of, the emitted value is the     *)
(* brightest weighted write, in whatever order the cues were activated         *)
(* (show_control.cpp:254-276).                                                 *)
HighestTakesPrecedence ==
  LET its == Intents
      emitted == Merged(its)
  IN  \A ch \in Intensity :
        LET mine == At(its, ch)
        IN  mine # {} /\ (\A i \in mine : Blended(its[i])) =>
              emitted[ch].slot = NoSlot /\ emitted[ch].value = Max(Values(its, mine))

(* A position or an aim follows the cue of highest priority, among equals the  *)
(* one activated last, at its full value even while that cue fades             *)
(* (show_control.cpp:277-299, 302-322).                                        *)
LatestTakesPrecedence ==
  LET its == Intents
      emitted == Merged(its)
  IN  \A ch \in Channel \ Intensity :
        LET mine == At(its, ch)
            latest == its[Max(mine)]
        IN  mine # {} =>
              /\ \A i \in mine : ~ Before(emitted[ch].owner, its[i].cue)
              /\ emitted[ch].owner = latest.cue
              /\ emitted[ch].value = Full * latest.norm

(* A slot selected on an intensity channel beats every earlier write, however  *)
(* bright, and is lost only to a later write at least as bright                *)
(* (show_control.cpp:247-268).                                                 *)
SlotSelectionHolds ==
  LET its == Intents
      emitted == Merged(its)
  IN  \A ch \in Intensity :
        LET mine == At(its, ch)
            chosen == {i \in mine : ~ Blended(its[i])}
            last == Max(chosen)
            later == Values(its, {i \in mine : i > last})
        IN  chosen # {} =>
              /\ emitted[ch].value = Max(later \cup {Value(its[last])})
              /\ emitted[ch].slot =
                   IF \E v \in later : v >= Value(its[last]) THEN NoSlot ELSE its[last].slot

(* What one frame emits on every channel: whichever cues run, in whatever      *)
(* order they were started, faded and released, intensity goes to the          *)
(* brightest, everything else to the latest of highest priority, and a slot    *)
(* selection yields only to a later write that matches it                      *)
(* (show_control.cpp:216-345).                                                 *)
MergesByPrecedence == HighestTakesPrecedence /\ LatestTakesPrecedence /\ SlotSelectionHolds
================================================================================
