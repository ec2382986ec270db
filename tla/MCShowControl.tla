---------------------------- MODULE MCShowControl -----------------------------
(* A chase that ends on its own, and beside it either a look of higher         *)
(* priority, which fades in, holds until released and fades out, or a second   *)
(* chase.  All dim the same lamp and pan the same head, the look twice.  Each  *)
(* also selects a strobe slot at a middle value: the chase after a plain write *)
(* of the same channel, the look before one.  Scripts may make a scene of the  *)
(* two.                                                                        *)
EXTENDS CueBlend

CONSTANTS dim, strobe, pan, slow

Write(ch, n, s) == [channel |-> ch, norm |-> n, slot |-> s]

Look == [fadeIn |-> 2, hold |-> 0, fadeOut |-> 2, priority |-> 1,
         writes |-> <<Write(pan, 2, NoSlot), Write(dim, 3, NoSlot), Write(strobe, 2, slow),
                      Write(strobe, 3, NoSlot), Write(pan, 1, NoSlot)>>]

Chase == [fadeIn |-> 0, hold |-> 1, fadeOut |-> 1, priority |-> 0,
          writes |-> <<Write(strobe, 3, NoSlot), Write(strobe, 2, slow),
                       Write(dim, 2, NoSlot), Write(pan, 3, NoSlot)>>]

MCCueDefs == {Look, Chase}

MCShows == {[cues |-> <<Chase>>, scenes |-> <<>>]}

MCSceneLists == {<<2, 1>>}
================================================================================
