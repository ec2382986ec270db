----------------------------- MODULE MCConsoleTime -----------------------------
(* A console and one cue that plays for two frames and then ends on its own;   *)
(* no controller, and no Lua effect until the cue plays.                       *)
EXTENDS LiveControl

Sting == [fadeIn |-> 0, hold |-> 2, fadeOut |-> 0, priority |-> 0, lua |-> TRUE]

MCCueDefs == {Sting}

MCShows == {[cues |-> <<Sting>>, scenes |-> <<>>]}

MCLayouts == {<<>>}
================================================================================
