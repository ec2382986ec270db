------------------------------- MODULE MCEngine --------------------------------
(* Parts of the engine beside the show's own, of which one is at work and the  *)
(* others at rest: the beat clock with its inputs, in three rigs (a MIDI clock *)
(* and a player that reports its tempo and a place in the bar, long enough for *)
(* the clock to follow them; a MIDI controller in the middle of a clock; a     *)
(* booth of two players); the render loop's pacing; a USB port; the scripts'   *)
(* table, where they define cues and scenes, break effects, or bind, paint and *)
(* light strips.                                                               *)
EXTENDS BeatClock, RenderLoop, UsbMidi, GlowApi

CONSTANTS deckA, deckB, cueA, strip, wall, ipA, ipB

MCPlayer == {deckA, deckB}

MCReports == [p \in MCPlayer |-> [report : IF p = deckA THEN {24} ELSE {60}, bar : {1}]]

Rig(t, e, m, c, booth_) == [time |-> t, events |-> e, messages |-> m, changes |-> c, booth |-> booth_]

MCSetups == {Rig(5, 3, 0, 0, {deckA}), Rig(1, 1, 2, 0, {}), Rig(1, 1, 0, 4, MCPlayer)}

\* Initial messages whose last packets carry one, two and three bytes.
MCProfiles == {<<>>, <<1, 5, 3>>}

\* A strip whose address is given twice, and one with a name for an address.
MCDirectives ==
  <<[name |-> strip, ip |-> ipA], [name |-> wall, ip |-> NotAnIp], [name |-> strip, ip |-> ipB]>>

Work(s, c, sc, fx, o, strips, leds) ==
  [scripts |-> s, cues |-> c, scenes |-> sc, effects |-> fx, owned |-> o, strips |-> strips, leds |-> leds]

MCPlans ==
  {Work(2, 2, 1, 1, 0, FALSE, FALSE), Work(1, 1, 0, 3, 0, FALSE, TRUE), Work(2, 0, 0, 0, 2, TRUE, FALSE)}

VARIABLE part

engineVars == <<beatVars, loopVars, usbVars, glowVars, part>>

\* A part at rest is in one of its initial states and stays there.
EngineInit ==
  /\ part \in {"beat", "loop", "usb", "glow"}
  /\ ClockInit /\ LoopInit /\ UsbInit /\ GlowInit
  /\ part # "beat" => setup = Rig(1, 1, 2, 0, {})
  /\ part # "loop" => time = 0 /\ ~ luaReady
  /\ part # "usb" => profile = <<>>
  /\ part # "glow" => plan.effects = 3 /\ ~ socket

EngineNext ==
  \/ part = "beat" /\ BeatNext /\ UNCHANGED <<loopVars, usbVars, glowVars, part>>
  \/ part = "loop" /\ LoopNext /\ UNCHANGED <<beatVars, usbVars, glowVars, part>>
  \/ part = "usb" /\ UsbNext /\ UNCHANGED <<beatVars, loopVars, glowVars, part>>
  \/ part = "glow" /\ GlowNext /\ UNCHANGED <<beatVars, loopVars, usbVars, part>>

EngineSpec == EngineInit /\ [][EngineNext]_engineVars
================================================================================
