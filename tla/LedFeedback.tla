----------------------------- MODULE LedFeedback ------------------------------
(***************************************************************************)
(* LED feedback (led_feedback.cpp): the pads of a MIDI controller show     *)
(* which cues play.  A refresh works out what every bound pad should show  *)
(* and sends the changes a token bucket allows; the others wait.           *)
(***************************************************************************)
EXTENDS Integers, Sequences, FiniteSets

CONSTANTS
  Pad,        \* addresses with an LED (findLedRangeForNote/Cc find one)
  Palette,    \* the colours the controller knows
  NoColour,   \* nothing has been asked for or sent
  TokenParts, \* parts of a message in the token bucket
  Burst,      \* maxMsgsPerSec_: messages in a full bucket
  Refill      \* parts that flow in from one frame to the next

ASSUME LedAssumption ==
  /\ NoColour \notin Palette
  /\ {TokenParts, Burst, Refill} \subseteq Nat \ {0}

VARIABLES
  autoBindings, \* autoBindings_: [pad, cue, on, off]
  states,       \* states_: [pad, desired, sent], in the order they were touched
  tokens,       \* tokens_
  pumped,       \* lastPumpT_ >= 0
  lit           \* what the controller shows

ledVars == <<autoBindings, states, tokens, pumped, lit>>

LedInit(bindings) ==
  /\ autoBindings = bindings
  /\ states = <<>>
  /\ tokens = 0
  /\ pumped = FALSE
  /\ lit = [p \in Pad |-> NoColour]

\* findLedRangeForNote/Cc and ledColorValueByName: what is not known is ignored.
Known(pad, colour) == pad \in Pad /\ colour \in Palette

\* stateFor and applyDesired: a known pad and colour, staged for the next pump.
Staged(sts, pad, colour) ==
  IF \E i \in DOMAIN sts : sts[i].pad = pad
  THEN [i \in DOMAIN sts |-> IF sts[i].pad = pad THEN [sts[i] EXCEPT !.desired = colour] ELSE sts[i]]
  ELSE Append(sts, [pad |-> pad, desired |-> colour, sent |-> NoColour])

\* glow.led.set.
Set(pad, colour) ==
  /\ states' = IF Known(pad, colour) THEN Staged(states, pad, colour) ELSE states
  /\ UNCHANGED <<autoBindings, tokens, pumped, lit>>

\* glow.led.auto: a pad has one binding.
SetAuto(b) ==
  LET mine == {i \in DOMAIN autoBindings : autoBindings[i].pad = b.pad}
  IN  /\ autoBindings' =
           IF mine = {} THEN Append(autoBindings, b)
           ELSE [i \in DOMAIN autoBindings |-> IF i \in mine THEN b ELSE autoBindings[i]]
      /\ UNCHANGED <<states, tokens, pumped, lit>>

\* glow.bind.clear: the lights stay as they are.
ClearAuto ==
  /\ autoBindings' = <<>>
  /\ UNCHANGED <<states, tokens, pumped, lit>>

Colour(b, active) == IF b.cue \in active THEN b.on ELSE b.off

\* refresh's loop: what every binding asks for is staged, in their order.
Desired(active) ==
  LET asked == SelectSeq(autoBindings, LAMBDA b : Known(b.pad, Colour(b, active)))
      touched == {states[i].pad : i \in DOMAIN states}
      new == SelectSeq(asked, LAMBDA b : b.pad \notin touched)
      ForPad(p) == {Colour(asked[i], active) : i \in {j \in DOMAIN asked : asked[j].pad = p}}
  IN  [i \in DOMAIN states |->
         IF ForPad(states[i].pad) = {} THEN states[i]
         ELSE [states[i] EXCEPT !.desired = CHOOSE c \in ForPad(states[i].pad) : TRUE]]
      \o [i \in DOMAIN new |->
            [pad |-> new[i].pad, desired |-> Colour(new[i], active), sent |-> NoColour]]

Filled == IF pumped /\ tokens + Refill < Burst * TokenParts THEN tokens + Refill ELSE Burst * TokenParts

\* The entries that differ from what was sent, and those the bucket allows:
\* earlier entries go first.
Pending(sts) == {i \in DOMAIN sts : sts[i].desired # sts[i].sent}

Allowed(sts) ==
  {i \in Pending(sts) : Cardinality({j \in Pending(sts) : j <= i}) <= Filled \div TokenParts}

\* Mutant: what the bucket holds back counts as sent.
PumpMarkingAll(sts) ==
  /\ states' = [i \in DOMAIN sts |-> [sts[i] EXCEPT !.sent = sts[i].desired]]
  /\ tokens' = Filled - TokenParts * Cardinality(Allowed(sts))
  /\ lit' = [p \in Pad |->
       IF \E i \in Allowed(sts) : sts[i].pad = p
       THEN sts[CHOOSE i \in Allowed(sts) : sts[i].pad = p].desired ELSE lit[p]]

\* pump: the rest is retried by the next refresh.
Pump(sts) ==
  /\ states' = [i \in DOMAIN sts |->
       IF i \in Allowed(sts) THEN [sts[i] EXCEPT !.sent = sts[i].desired] ELSE sts[i]]
  /\ tokens' = Filled - TokenParts * Cardinality(Allowed(sts))
  /\ lit' = [p \in Pad |->
       IF \E i \in Allowed(sts) : sts[i].pad = p
       THEN sts[CHOOSE i \in Allowed(sts) : sts[i].pad = p].desired ELSE lit[p]]

\* refresh, once a frame, with the cues that play.
Refresh(active) ==
  /\ \E sts \in {Desired(active)} : Pump(sts)
  /\ pumped' = TRUE
  /\ UNCHANGED autoBindings

\* Every bound pad shows its cue, and what scripts set has been sent.
LedsShow(active) ==
  /\ \A i \in DOMAIN autoBindings :
       LET b == autoBindings[i]
       IN  Known(b.pad, Colour(b, active)) => lit[b.pad] = Colour(b, active)
  /\ \A i \in DOMAIN states : lit[states[i].pad] = states[i].desired
================================================================================
