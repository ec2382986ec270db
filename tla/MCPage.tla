--------------------------------- MODULE MCPage --------------------------------
(* One console: two pads, a flash and a toggle, a scene of both, and five      *)
(* texts, of which one fails and one just fits.  A day bounds how often the    *)
(* page is visited, lines drop, power is lost, pads are touched here and       *)
(* elsewhere, and scripts are used.                                            *)
EXTENDS ConsolePage

MCFile == {"boot.fnl", "verse.fnl", "set.fnl", "quoted",
           ".set.fnl.tmp", ".boot.fnl.tmp", ".verse.fnl.tmp"}

MCDotted == {".set.fnl.tmp", ".boot.fnl.tmp", ".verse.fnl.tmp"}

MCStaged == [n \in {"boot.fnl", "verse.fnl", "set.fnl"} |->
  CASE n = "boot.fnl" -> ".boot.fnl.tmp" [] n = "verse.fnl" -> ".verse.fnl.tmp"
    [] n = "set.fnl" -> ".set.fnl.tmp"]

MCShipped == [f \in MCFile |-> IF f = "boot.fnl" THEN "looks" ELSE "absent"]

MCText == {"", ";new", "looks", "broken", "brim"}

MCBytes == [t \in MCText |->
  CASE t = "" -> 0 [] t = ";new" -> 1 [] t = "looks" -> 2 [] t = "broken" -> 1 [] t = "brim" -> 4]

\* With its escapes.
MCWire == [t \in MCText |->
  CASE t = "" -> 0 [] t = ";new" -> 1 [] t = "looks" -> 2 [] t = "broken" -> 2 [] t = "brim" -> 8]

MCAction == [c \in {1, 2} |-> IF c = 1 THEN "CueFlash" ELSE "CueToggle"]

MCScenes == [s \in {3} |-> {1, 2}]

Day(drops, losses, touches, others, scripts) ==
  [visits |-> 1, drops |-> drops, losses |-> losses,
   touches |-> touches, others |-> others, scripts |-> scripts]

MCDays ==
  {Day(1, 0, 1, 1, 0), Day(0, 0, 2, 0, 0), Day(0, 1, 1, 0, 0),
   Day(0, 0, 0, 0, 3), Day(0, 1, 0, 0, 2), Day(0, 0, 0, 1, 2)}
================================================================================
