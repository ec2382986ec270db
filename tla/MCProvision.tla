------------------------------ MODULE MCProvision ------------------------------
(* Universes of six channels, and a menu of lines that meet at their edges.     *)
EXTENDS Provision

MCFdefText ==
  [par |-> <<<<"FIXTURE", "par">>, <<"FOOTPRINT", 3>>,
             <<"CAP", "dimmer", 0, 255, 0, FALSE>>, <<"SLOT", 0, 4, "open">>,
             <<"CAP", "color", 2, 255, 9, TRUE>>, <<"SLOT", 8, 15, "open">>,
             <<"SLOT", 16, 31, "">>, <<"RANGE", 32, 255, "spin">>>>,
   head |-> <<<<"HEAD">>, <<"FOOTPRINT", 3>>, <<"CAP", "pan", 0, 1, 127, FALSE>>,
              <<"CAP", "tilt", 2, 255, 0, TRUE>>>>,
   tall |-> <<<<"FOOTPRINT", 1>>, <<"CAP", "color", 1, 255, 0, FALSE>>>>,
   odd |-> <<<<"FOOTPRINT", 1>>, <<"SLOT", 0, 1, "open">>>>]

MCMdefText ==
  [grid |-> <<<<"CONTROLLER", "grid">>, <<"MIDI_CHANNEL", 0>>,
              <<"PAD", 36, 36, <<>>>>, <<"PAD", 36, 36, <<0, 2>>>>, <<"PAD", 40, 47, <<>>>>,
              <<"PAD", 37, 37, <<1, 2>>>>,
              <<"FADER", 7, 7, "master", <<>>>>, <<"FADER", 8, 9, "", <<0, 1>>>>,
              <<"ENCODER", 16, 23, 1>>,
              <<"LED", "NOTE", 36, 37, "velocity", <<0, 3>>>>, <<"COLOR", "red", 5>>,
              <<"LED", "CC", 7, 7, "value", <<>>>>, <<"COLOR", "off", 0>>, <<"COLOR", "on", 127>>,
              <<"INIT", <<240, 1, 247>>>>, <<"INIT", <<247>>>>>>,
   wrong |-> <<<<"CONTROLLER", "wrong">>, <<"MIDI_CHANNEL", 17>>>>]

MCLimit == [pads |-> 4, faders |-> 2, encoders |-> 1, leds |-> 2, colors |-> 3, inits |-> 2]

\* The second universe may be declared twice; a route may be spelled or implied.
MCMenu ==
  {<<"SHOW", 2>>, <<"SHOW", 1>>, <<"LASER">>,
   <<"UNIVERSE", 1, "DMX", <<>>>>, <<"UNIVERSE", 2, "ARTNET", <<>>>>,
   <<"UNIVERSE", 2, "ARTNET", <<9, 0>>>>,
   <<"UNIVERSE", 1, "ARTNET", <<0, 1>>>>, <<"UNIVERSE", 9, "DMX", <<>>>>,
   <<"FIXTURE", "par", 1, 1>>, <<"FIXTURE", "par", 1, 4>>,
   <<"FIXTURE", "head", 2, 4>>, <<"FIXTURE", "par", 1, 3>>, <<"FIXTURE", "tall", 1, 6>>,
   <<"FIXTURE", "odd", 1, 1>>,
   <<"FIXTURE", "par", 1, 0>>,
   <<"POS", 1>>, <<"INVERT", 1>>,
   <<"MATRIX", 1, 4, 1, 2, TRUE, FALSE, 0>>, <<"MATRIX", 2, 1, 1, 1, FALSE, TRUE, 2>>,
   <<"CONTROLLER", "grid">>, <<"CONTROLLER", "plain">>, <<"CONTROLLER", "wrong">>,
   <<"WLED", "strip", "w1", 1>>, <<"WLED", "tree", "w2", 9>>}

MCIntents ==
  {[fixture |-> 0, cap |-> "color", how |-> "level", arg |-> 0, level |-> 0],
   [fixture |-> 1, cap |-> "color", how |-> "name", arg |-> "open", level |-> 0],
   [fixture |-> 1, cap |-> "color", how |-> "name", arg |-> "spin", level |-> 255],
   [fixture |-> 1, cap |-> "color", how |-> "index", arg |-> 1, level |-> 0],
   [fixture |-> 2, cap |-> "pan", how |-> "level", arg |-> 0, level |-> 200],
   [fixture |-> 2, cap |-> "pan", how |-> "aim", arg |-> 90, level |-> 30]}
================================================================================
