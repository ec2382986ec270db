----------------------------- MODULE MCLiveControl -----------------------------
(* One pad, one fader and one cue, under each of four binding tables: the pad  *)
(* flashes or toggles the cue or a scene of it; the fader sets the master, or  *)
(* holds the cue against the pad.                                              *)
EXTENDS LiveControl

CONSTANTS p1, f1

Cut == [fadeIn |-> 0, hold |-> 0, fadeOut |-> 1, priority |-> 0, lua |-> TRUE]

MCCueDefs == {Cut}

MCSceneLists == {<<1>>}

MCShows == {[cues |-> <<Cut>>, scenes |-> <<<<1>>>>]}

Binding(c, a, t) == [ctl |-> c, action |-> a, target |-> t, latched |-> FALSE]

MCLayouts == {
  <<Binding(p1, "CueFlash", 1), Binding(f1, "Set", Master)>>,
  <<Binding(p1, "CueToggle", 1), Binding(f1, "Set", Master)>>,
  <<Binding(p1, "SceneGo", 1), Binding(f1, "CueLevel", 1)>>,
  <<Binding(p1, "SceneToggle", 1), Binding(f1, "CueLevel", 1)>>}

MCRebinds == {Binding(p1, "CueFlash", 1)}
================================================================================
