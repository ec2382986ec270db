------------------------------- MODULE DmxOutput -------------------------------
(***************************************************************************)
(* From a rendered frame to the DMX line.  The render task (core 1) fills  *)
(* the universes and hands each to its sink; DmxSink::send copies it into  *)
(* a one-slot mailbox (dmx_frame_buffer.cpp); the dmx_tx task (core 0)     *)
(* takes the mailbox's contents when they are new, waits for the line, and *)
(* starts the next transmission.  Around that, the safe blackout of        *)
(* main.cpp and the firmware rollback that ends a boot.                    *)
(*                                                                         *)
(* A universe's contents are abstracted to whether they give light.        *)
(***************************************************************************)
EXTENDS Integers

CONSTANTS
  Universes, \* universeCount_
  Raw,       \* universes in Raw mode: pixel matrices write them
  Wired,     \* universes whose sink is the DmxSink
  MaxFrames, \* bound: frames rendered
  Watched    \* the frames FrameReachesLine follows

Universe == 1 .. Universes

ASSUME OutputAssumption ==
  /\ Universes \in Nat /\ MaxFrames \in Nat
  /\ Raw \subseteq Universe /\ Wired \subseteq Universe
  /\ Watched \subseteq 1 .. MaxFrames

VARIABLES
  pc,       \* the render task, and app_main before it
  frame,    \* frames begun
  cueOn,    \* the ShowController has a contributing cue
  blackout, \* g_blackout
  lit,      \* the universes whose data gives light
  next,     \* the universe renderFlush hands out next
  mailbox,  \* DmxFrameBuffer::data_
  dirty,    \* DmxFrameBuffer::dirty_
  tx,       \* the dmx_tx task
  buf,      \* pumpTx's copy
  line,     \* what the UART is sending
  shown     \* what the fixtures received last

render == <<pc, frame, cueOn, blackout, lit, next>>
slot == <<mailbox, dirty>>
wire == <<tx, buf, line, shown>>
vars == <<render, slot, wire>>

\* What a universe held when it was rendered in a frame.
Content == [frame : 0 .. MaxFrames, universe : 0 .. Universes, lit : BOOLEAN]
Dark == [frame |-> 0, universe |-> 0, lit |-> FALSE]

Init ==
  /\ pc = "boot" /\ frame = 0 /\ next = 0
  /\ cueOn = FALSE /\ blackout = FALSE /\ lit = {}
  /\ mailbox = Dark /\ dirty = FALSE
  /\ tx = "poll" /\ buf = Dark /\ line = Dark /\ shown = Dark

--------------------------------------------------------------------------------
(* Before the first frame: app_main.                                           *)

\* boot.fnl starts a cue.
BootScript ==
  /\ pc = "boot"
  /\ cueOn' = TRUE
  /\ UNCHANGED <<pc, frame, blackout, lit, next, slot, wire>>

\* glow_safe_blackout: the flag, every cue, every Raw universe.
SafeBlackout ==
  /\ blackout' = TRUE
  /\ cueOn' = FALSE
  /\ lit' = lit \ Raw

\* No show, no script storage, or a boot.fnl that fails.
BootFails ==
  /\ pc = "boot"
  /\ SafeBlackout
  /\ UNCHANGED <<pc, frame, next, slot, wire>>

StartRendering ==
  /\ pc = "boot"
  /\ pc' = "sleep"
  /\ UNCHANGED <<frame, cueOn, blackout, lit, next, slot, wire>>

--------------------------------------------------------------------------------
(* The render task's frame.                                                    *)

\* Mutant: the matrices are driven during a blackout.
PreRenderUngated ==
  /\ pc = "sleep" /\ frame < MaxFrames
  /\ cueOn' \in BOOLEAN
  /\ \E glowing \in SUBSET Raw : lit' = (lit \ Raw) \cup glowing
  /\ frame' = frame + 1
  /\ pc' = "compute"
  /\ UNCHANGED <<blackout, next, slot, wire>>

\* on_pre_render: controllers and the console start or stop cues; then, unless
\* blacked out, every matrix writes its universes.
PreRender ==
  /\ pc = "sleep" /\ frame < MaxFrames
  /\ cueOn' \in BOOLEAN
  /\ \/ ~ blackout /\ \E glowing \in SUBSET Raw : lit' = (lit \ Raw) \cup glowing
     \/ blackout /\ UNCHANGED lit
  /\ frame' = frame + 1
  /\ pc' = "compute"
  /\ UNCHANGED <<blackout, next, slot, wire>>

\* The Fixture universes that cues can light.
Played == IF cueOn THEN Universe \ Raw ELSE {}

\* Mutant: the Fixture universes keep what the last frame wrote.
ComputeWithoutReset ==
  /\ pc = "compute"
  /\ \E glowing \in SUBSET Played : lit' = lit \cup glowing
  /\ next' = 1
  /\ pc' = "flush"
  /\ UNCHANGED <<frame, cueOn, blackout, slot, wire>>

\* renderCompute: the Fixture universes are zeroed and get their fixtures'
\* defaults, which count as dark here; then cues light some of them.
Compute ==
  /\ pc = "compute"
  /\ \E glowing \in SUBSET Played : lit' = (lit \cap Raw) \cup glowing
  /\ next' = 1
  /\ pc' = "flush"
  /\ UNCHANGED <<frame, cueOn, blackout, slot, wire>>

\* Mutant: a frame that was not taken yet is not replaced.
WriteKeepingOldest(c) ==
  /\ mailbox' = IF dirty THEN mailbox ELSE c
  /\ dirty' = TRUE

\* DmxFrameBuffer::write.
Write(c) == mailbox' = c /\ dirty' = TRUE

\* renderFlush hands the universes to their sinks in order.  Art-Net sinks are
\* not of this module.
Flush ==
  /\ pc = "flush" /\ next <= Universes
  /\ IF next \in Wired
       THEN Write([frame |-> frame, universe |-> next, lit |-> next \in lit])
       ELSE UNCHANGED slot
  /\ next' = next + 1
  /\ UNCHANGED <<pc, frame, cueOn, blackout, lit, wire>>

EndFrame ==
  /\ pc = "flush" /\ next > Universes
  /\ pc' = "sleep"
  /\ UNCHANGED <<frame, cueOn, blackout, lit, next, slot, wire>>

\* ota_manager_tick of an image that did not validate itself in time: blackout,
\* then a wait on the render task, which renders no further frame.
Rollback ==
  /\ pc = "flush" /\ next > Universes
  /\ SafeBlackout
  /\ pc' = "rollback"
  /\ UNCHANGED <<frame, next, slot, wire>>

\* The wait of 300 ms is long enough for the dmx_tx task to drain the mailbox
\* and for the line to finish (two transmissions of 23 ms).
Reboot ==
  /\ pc = "rollback" /\ ~ dirty /\ tx = "poll" /\ line = Dark
  /\ pc' = "off"
  /\ UNCHANGED <<frame, cueOn, blackout, lit, next, slot, wire>>

--------------------------------------------------------------------------------
(* The dmx_tx task and the line.                                               *)

\* takeIfDirty.
Take ==
  /\ pc # "off" /\ tx = "poll" /\ dirty
  /\ buf' = mailbox /\ dirty' = FALSE
  /\ tx' = "wait"
  /\ UNCHANGED <<render, mailbox, line, shown>>

\* dmx_wait_sent returns when the line is free (30 ms cover one transmission);
\* the copy is written to the driver and dmx_send starts the next transmission.
Transmit ==
  /\ pc # "off" /\ tx = "wait" /\ line = Dark
  /\ line' = buf
  /\ tx' = "poll"
  /\ UNCHANGED <<render, slot, buf, shown>>

\* dmx_send fails: logged, and the frame is not sent again.  The last frame of
\* the bounded run is spared, for it has no successor to replace it.
TransmitFails ==
  /\ pc # "off" /\ tx = "wait" /\ line = Dark
  /\ buf.frame < frame
  /\ tx' = "poll"
  /\ UNCHANGED <<render, slot, buf, line, shown>>

\* The UART has sent the frame, the fixtures have it.
LineDone ==
  /\ pc # "off" /\ line # Dark
  /\ shown' = line /\ line' = Dark
  /\ UNCHANGED <<render, slot, tx, buf>>

RenderTask == PreRender \/ Compute \/ Flush \/ EndFrame

TxTask == Take \/ Transmit

Next ==
  \/ BootScript \/ BootFails \/ StartRendering
  \/ RenderTask \/ Rollback \/ Reboot
  \/ TxTask \/ TransmitFails \/ LineDone

Spec == Init /\ [][Next]_vars /\ WF_vars(RenderTask) /\ WF_vars(TxTask) /\ WF_vars(LineDone)
--------------------------------------------------------------------------------
(* Properties.                                                                 *)

(* The shape of the render task's, the mailbox's and the line's state.         *)
OutputTypeOK ==
  /\ pc \in {"boot", "sleep", "compute", "flush", "rollback", "off"}
  /\ frame \in 0 .. MaxFrames
  /\ {cueOn, blackout, dirty} \subseteq BOOLEAN
  /\ lit \subseteq Universe
  /\ next \in 0 .. Universes + 1
  /\ {mailbox, buf, line, shown} \subseteq Content
  /\ tx \in {"poll", "wait"}

(* Once blacked out, a frame has light only while somebody runs a cue: neither *)
(* a matrix nor a universe left over from an earlier frame gives any           *)
(* (main.cpp:764-769, safe_blackout.h:36-45).                                  *)
BlackoutStaysDark == blackout /\ ~ cueOn /\ pc = "flush" => lit = {}

(* Light goes out: after a blackout, when the last cue ends, the fixtures are  *)
(* told, through mailbox, task and line, and whatever frames are dropped, as   *)
(* long as frames are rendered (a rollback ends that: DarkBeforeReboot).       *)
LightGoesOut ==
  blackout /\ ~ cueOn /\ shown.lit ~> cueOn \/ ~ shown.lit \/ pc \in {"rollback", "off"}

(* A frame handed to the mailbox reaches the fixtures, itself or superseded by *)
(* a newer one, however render task, dmx_tx task and line interleave and       *)
(* whichever transmissions fail (dmx_frame_buffer.h:11-13).                    *)
FrameReachesLine ==
  \A n \in Watched : mailbox.frame >= n ~> shown.frame >= n

(* What safe_blackout.h:1-11 says of every failure path, an image that fails   *)
(* its self-validation included: the rig goes dark, because the output goes on *)
(* and carries zeros for as long as the device stays up.                       *)
DarkBeforeReboot == pc = "off" => ~ shown.lit
================================================================================
