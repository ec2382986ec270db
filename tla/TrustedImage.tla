------------------------------ MODULE TrustedImage ------------------------------
(***************************************************************************)
(* What the update promises (ota_manager.h): a device has an image that    *)
(* is known to work, and may be trying another.  The trial is adopted only *)
(* when it works, and whatever happens to it the known one is there to     *)
(* return to.                                                              *)
(***************************************************************************)
CONSTANTS
  Image, \* what an image does when it runs
  Works, \* the ones that render, drive DMX and join the network
  NoImage

VARIABLES
  trusted, \* the image the device can return to
  trial    \* the image it was told to try, or NoImage

Init == trusted \in Works /\ trial = NoImage

Try == trial = NoImage /\ trial' \in Image /\ UNCHANGED trusted

Adopt == trial \in Works /\ trusted' = trial /\ trial' = NoImage

Abandon == trial # NoImage /\ trial' = NoImage /\ UNCHANGED trusted

Next == Try \/ Adopt \/ Abandon

Spec == Init /\ [][Next]_<<trusted, trial>>
================================================================================
