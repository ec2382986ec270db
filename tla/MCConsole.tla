------------------------------- MODULE MCConsole -------------------------------
(* Five situations: a browser that floods the queue of submissions; two        *)
(* browsers that come and go and share two sockets; scripts that set and bind  *)
(* LEDs while cues change; scripts that start cues while another input changes *)
(* them; effects that break before two browsers.                               *)
EXTENDS Console

CONSTANTS phone, laptop, verse, chorus, flame, sparkle

MCClient == {phone, laptop}

Bind(p, q) == [pad |-> p, cue |-> q, on |-> "green", off |-> "red"]

NoSetup == [connects |-> 0, requests |-> 0, failures |-> 0, changes |-> 0, scripts |-> {},
            bound |-> <<>>, fx |-> {}, browsers |-> {phone}]

Flood == [NoSetup EXCEPT !.connects = 1, !.requests = 7, !.scripts = {[op |-> "fails"]}]

Coming == [NoSetup EXCEPT !.browsers = MCClient, !.connects = 3, !.failures = 1,
  !.changes = 1]

Lights == [NoSetup EXCEPT !.connects = 1, !.requests = 2, !.changes = 1,
  !.scripts = {[op |-> "clear"], [op |-> "led", pad |-> "pad2", colour |-> "blue"],
               [op |-> "auto", binding |-> Bind("pad1", chorus)]},
  !.bound = <<Bind("pad1", verse), Bind("pad2", verse), Bind("pad3", chorus)>>]

Playing == [NoSetup EXCEPT !.connects = 1, !.requests = 2, !.changes = 1,
  !.scripts = {[op |-> "go", cue |-> verse], [op |-> "go", cue |-> chorus]},
  !.bound = <<Bind("pad1", verse), Bind("pad2", chorus)>>]

Breaking == [NoSetup EXCEPT !.browsers = MCClient, !.connects = 2, !.failures = 1,
  !.fx = {flame, sparkle}]

MCSetups == {Flood, Coming, Lights, Playing, Breaking}

MCEvent == [id : 1 .. 7, script : Flood.scripts \cup Lights.scripts \cup Playing.scripts]
================================================================================
