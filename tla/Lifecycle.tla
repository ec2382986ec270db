-------------------------------- MODULE Lifecycle -------------------------------
(***************************************************************************)
(* The life of a device over resets: the two application slots and the     *)
(* configuration partition, app_main's order of bring-up, the self         *)
(* validation of a new image (ota_manager.cpp), the uploads of images and  *)
(* configurations over the console's HTTP server (ota_manager.cpp,         *)
(* device_config_web.cpp), and the WiFi manager they wait for.             *)
(*                                                                         *)
(* The HTTP server has one worker, so one request is handled at a time.    *)
(* What the bootloader and the esp_ota calls do is external: they keep a   *)
(* mark per slot and the slot to boot.  Time is one bit, late: the         *)
(* validation deadline has passed.                                         *)
(***************************************************************************)
EXTENDS WifiManager

CONSTANTS
  Configs,   \* configurations that parse
  Default,   \* the compiled-in one
  Offline,   \* those with skipWifi
  Homes,     \* those that name the network that may be in range
  Miswired,  \* those whose pins the DMX driver refuses
  FramesNeeded,
  MaxRequests, \* bound: images and configurations sent
  MaxLosses   \* bound: losses of power

ASSUME LifecycleAssumption ==
  /\ Default \in Configs /\ Offline \cup Homes \cup Miswired \subseteq Configs
  /\ FramesNeeded \in Nat \ {0}
  /\ {MaxRequests, MaxLosses} \subseteq Nat

Slots == {0, 1}
Other(s) == 1 - s

\* What an image does: all is well; DMX does not come up; it never joins a
\* network; its render loop hangs.
Images == {"good", "nodmx", "nowifi", "stuck"}

Marks == {"none", "new", "pending", "valid", "bad"}

\* A partition erased, or half written: neither parses.
Unread == {"blank", "torn"}

VARIABLES
  image, mark, chosen, devcfg, \* flash: what a reset leaves alone
  stage,   \* how far app_main has come; "off" is the bootloader's turn
  running, \* the slot that runs
  cfg,     \* the configuration in effect, or "none"
  pending, validated, frames, wifiOk, dmxOk, \* ota_manager.cpp
  late,    \* g_deadlineUs has passed and the image is not validated
  cues,    \* anyActive()
  http,    \* what the HTTP worker does
  posted,  \* the configuration it is handling, or "none"
  requests, losses \* how many there were

flash == <<image, mark, chosen, devcfg>>
boot == <<stage, running, cfg, cues>>
ota == <<pending, validated, frames, wifiOk, dmxOk, late>>
server == <<http, posted>>
budget == <<requests, losses>>
vars == <<flash, boot, ota, server, budget, wifi>>

LifecycleTypeOK ==
  /\ image \in [Slots -> Images \cup {"none"}] /\ mark \in [Slots -> Marks]
  /\ chosen \in Slots /\ running \in Slots
  /\ devcfg \in Configs \cup Unread /\ cfg \in Configs \cup {"none"}
  /\ stage \in {"off", "config", "ota", "dmx", "show", "render", "wifi", "run", "halted"}
  /\ {pending, validated, wifiOk, dmxOk, late, cues} \subseteq BOOLEAN
  /\ frames \in 0 .. FramesNeeded
  /\ http \in {"idle", "image", "written", "restart", "config", "erased", "torn", "acked"}
  /\ posted \in Configs \cup {"none"}
  /\ requests \in 0 .. MaxRequests /\ losses \in 0 .. MaxLosses
  /\ WifiTypeOK

Init ==
  /\ image = [s \in Slots |-> IF s = 0 THEN "good" ELSE "none"]
  /\ mark = [s \in Slots |-> IF s = 0 THEN "valid" ELSE "none"]
  /\ chosen = 0 /\ running = 0 /\ devcfg \in Configs \cup {"blank"}
  /\ stage = "off" /\ cfg = "none" /\ cues = FALSE
  /\ pending = FALSE /\ validated = FALSE /\ frames = 0
  /\ wifiOk = FALSE /\ dmxOk = FALSE /\ late = FALSE
  /\ http = "idle" /\ posted = "none" /\ Off /\ range \in BOOLEAN
  /\ requests = 0 /\ losses = 0

\* RAM is lost.
Reset ==
  /\ stage' = "off" /\ cfg' = "none" /\ cues' = FALSE
  /\ pending' = FALSE /\ validated' = FALSE /\ frames' = 0
  /\ wifiOk' = FALSE /\ dmxOk' = FALSE /\ late' = FALSE
  /\ http' = "idle" /\ posted' = "none" /\ TurnOff
  /\ running' = chosen /\ UNCHANGED range

--------------------------------------------------------------------------------
(* The bootloader (external) and app_main, in its order.                       *)

\* A slot that was being tried when the device reset is given up.
Bootable(s) == image[s] # "none" /\ mark[s] \in {"new", "valid"}

Bootloader ==
  /\ stage = "off"
  /\ \E s \in Slots :
       /\ Bootable(s) /\ (s = chosen \/ ~Bootable(chosen))
       /\ running' = s /\ chosen' = s
       /\ mark' = [t \in Slots |->
            IF t = s /\ mark[t] = "new" THEN "pending"
            ELSE IF mark[t] = "pending" THEN "bad" ELSE mark[t]]
  /\ stage' = "config"
  /\ UNCHANGED <<image, devcfg, cfg, cues, ota, server, budget, wifi>>

\* The checksum covers the whole of it.
Parses(c) == c \in Configs

LoadConfig ==
  /\ stage = "config" /\ stage' = "ota"
  /\ cfg' = IF Parses(devcfg) THEN devcfg ELSE Default
  /\ UNCHANGED <<flash, running, cues, ota, server, budget, wifi>>

\* Arms the deadline.
OtaInit ==
  /\ stage = "ota" /\ stage' = "dmx" /\ pending' = (mark[running] = "pending")
  /\ UNCHANGED <<flash, running, cfg, cues, validated, frames, wifiOk, dmxOk, late,
                 server, budget, wifi>>

\* Without DMX app_main returns: nothing renders, and no network starts.
DmxBegin ==
  /\ stage = "dmx"
  /\ IF image[running] = "nodmx" \/ cfg \in Miswired
     THEN stage' = "halted" /\ UNCHANGED dmxOk
     ELSE stage' = "show" /\ dmxOk' = (dmxOk \/ (pending /\ ~validated))
  /\ UNCHANGED <<flash, running, cfg, cues, pending, validated, frames, wifiOk, late,
                 server, budget, wifi>>

\* The bundle and boot.fnl: a script may leave a cue playing; what fails ends
\* in a blackout.
SetUpShow ==
  /\ stage = "show" /\ stage' = "render" /\ cues' \in BOOLEAN
  /\ UNCHANGED <<flash, running, cfg, ota, server, budget, wifi>>

StartRender ==
  /\ stage = "render" /\ stage' = "wifi"
  /\ UNCHANGED <<flash, running, cfg, cues, ota, server, budget, wifi>>

StartNetwork ==
  /\ stage = "wifi" /\ stage' = "run"
  /\ IF cfg \in Offline THEN UNCHANGED wifi ELSE StartStation
  /\ UNCHANGED <<flash, running, cfg, cues, ota, server, budget>>

LosePower ==
  /\ losses < MaxLosses /\ losses' = losses + 1 /\ stage # "off" /\ Reset
  /\ UNCHANGED <<flash, requests>>

Rendering == stage \in {"wifi", "run"}

\* The task watchdog, which the render task feeds once per frame.
Watchdog ==
  /\ Rendering /\ image[running] = "stuck" /\ Reset /\ UNCHANGED <<flash, budget>>

--------------------------------------------------------------------------------
(* Self validation: ota_manager_note_* and ota_manager_tick, after each frame. *)

Validating == pending /\ ~validated

DeadlinePasses ==
  /\ Validating /\ ~late /\ late' = TRUE
  /\ UNCHANGED <<flash, boot, pending, validated, frames, wifiOk, dmxOk, server, budget, wifi>>

Noted == IF frames < FramesNeeded THEN frames + 1 ELSE frames

\* Mutant: DMX and frames are enough.
ProvenWithoutWifi == Noted >= FramesNeeded /\ dmxOk

Proven == Noted >= FramesNeeded /\ (wifiOk \/ connected) /\ dmxOk

Framed == Rendering /\ image[running] # "stuck" /\ Validating

Frame ==
  /\ Framed /\ ~Proven /\ ~late
  /\ frames' = Noted /\ wifiOk' = (wifiOk \/ connected)
  /\ UNCHANGED <<flash, boot, pending, validated, dmxOk, late, server, budget, wifi>>

Validate ==
  /\ Framed /\ Proven
  /\ frames' = Noted /\ wifiOk' = (wifiOk \/ connected) /\ validated' = TRUE
  /\ late' = FALSE /\ mark' = [mark EXCEPT ![running] = "valid"]
  /\ UNCHANGED <<image, chosen, devcfg, boot, pending, dmxOk, server, budget, wifi>>

\* Mutant: the call that should not return does, and nothing follows it.
RollBackReturns ==
  /\ Framed /\ ~Proven /\ late
  /\ validated' = TRUE /\ late' = FALSE
  /\ UNCHANGED <<flash, boot, pending, frames, wifiOk, dmxOk, server, budget, wifi>>

\* The blackout and the pause before the restart have no say in what follows.
RollBack ==
  /\ Framed /\ ~Proven /\ late
  /\ mark' = [mark EXCEPT ![running] = "bad"]
  /\ Reset /\ UNCHANGED <<image, chosen, devcfg, budget>>

--------------------------------------------------------------------------------
(* POST /ota and POST /devcfg.                                                 *)

\* A request gets to an idle worker while no cue plays.
Admitted == http = "idle" /\ services /\ (connected \/ apActive) /\ ~cues

\* esp_ota_begin erases the other slot, and refuses while the running one is
\* being tried.
OtaBegin ==
  /\ Admitted /\ mark[running] # "pending" /\ requests < MaxRequests
  /\ image' = [image EXCEPT ![Other(running)] = "none"]
  /\ http' = "image" /\ requests' = requests + 1
  /\ UNCHANGED <<mark, chosen, devcfg, boot, ota, posted, losses, wifi>>

\* A reception that fails, and an image that esp_ota_end refuses.
OtaFails ==
  /\ http = "image" /\ http' = "idle"
  /\ UNCHANGED <<flash, boot, ota, posted, budget, wifi>>

OtaEnd(i) ==
  /\ http = "image" /\ http' = "written"
  /\ image' = [image EXCEPT ![Other(running)] = i]
  /\ UNCHANGED <<mark, chosen, devcfg, boot, ota, posted, budget, wifi>>

SetBoot ==
  /\ http = "written" /\ http' = "restart"
  /\ chosen' = Other(running) /\ mark' = [mark EXCEPT ![Other(running)] = "new"]
  /\ UNCHANGED <<image, devcfg, boot, ota, posted, budget, wifi>>

\* The blob is received whole and parses; anything else is refused and the
\* partition is not touched.
CfgAccept(c) ==
  /\ Admitted /\ requests < MaxRequests /\ Parses(c)
  /\ http' = "config" /\ posted' = c /\ requests' = requests + 1
  /\ UNCHANGED <<flash, boot, ota, losses, wifi>>

CfgErase ==
  /\ http = "config" /\ http' = "erased" /\ devcfg' = "blank"
  /\ UNCHANGED <<image, mark, chosen, boot, ota, posted, budget, wifi>>

\* Part of the write has reached the flash.
CfgWrite ==
  /\ http = "erased" /\ http' = "torn" /\ devcfg' = "torn"
  /\ UNCHANGED <<image, mark, chosen, boot, ota, posted, budget, wifi>>

\* Mutant: the answer does not wait for the write.
CfgDoneEarly ==
  /\ http = "torn" /\ http' = "acked"
  /\ UNCHANGED <<flash, boot, ota, posted, budget, wifi>>

CfgDone ==
  /\ http = "torn" /\ http' = "acked" /\ devcfg' = posted
  /\ UNCHANGED <<image, mark, chosen, boot, ota, posted, budget, wifi>>

\* The erase or the write reports an error, and the handler leaves.
CfgFails ==
  /\ http \in {"config", "erased", "torn"} /\ http' = "idle" /\ posted' = "none"
  /\ UNCHANGED <<flash, boot, ota, budget, wifi>>

Restart == http \in {"restart", "acked"} /\ Reset /\ UNCHANGED <<flash, budget>>

\* Cues start and end; an upload that was admitted goes on.
CuesChange ==
  /\ Rendering /\ cues' = ~cues
  /\ UNCHANGED <<flash, stage, running, cfg, ota, server, budget, wifi>>

--------------------------------------------------------------------------------
BringUp ==
  Bootloader \/ LoadConfig \/ OtaInit \/ DmxBegin \/ SetUpShow \/ StartRender \/ StartNetwork

Rest == UNCHANGED <<flash, boot, ota, server, budget>>

\* An image that cannot join never gets past the association.
MayJoin == cfg \in Homes /\ image[running] # "nowifi"

Joined == MayJoin /\ Join /\ Rest

Network ==
  \/ Joined
  \/ Rest /\ (JoinFails \/ GetAddress \/ LoseAddress \/ Disassociate \/ RangeChanges)

Tasks == Rest /\ (Reconnect \/ NetStart)

Uploads ==
  \/ OtaBegin \/ OtaFails \/ SetBoot \/ CfgErase \/ CfgWrite \/ CfgDone \/ CfgFails \/ Restart
  \/ \E i \in Images : OtaEnd(i)
  \/ \E c \in Configs \cup Unread : CfgAccept(c)

Next ==
  \/ BringUp \/ LosePower \/ Watchdog \/ DeadlinePasses
  \/ Frame \/ Validate \/ RollBack
  \/ Network \/ Tasks \/ Uploads \/ CuesChange

Spec == Init /\ [][Next]_vars

\* Every task is scheduled; a network in range is joined in the end if the
\* device goes on trying, and gives it an address.
FairSpec ==
  /\ Spec /\ WF_vars(BringUp) /\ WF_vars(Watchdog) /\ WF_vars(DeadlinePasses)
  /\ WF_vars(Frame \/ Validate \/ RollBack) /\ WF_vars(Restart)
  /\ WF_vars(Rest /\ Reconnect) /\ WF_vars(Rest /\ NetStart)
  /\ SF_vars(Joined) /\ SF_vars(Rest /\ GetAddress)

--------------------------------------------------------------------------------
(* Properties                                                                  *)

\* The slots as an image to trust and an image on trial.
OnTrial == mark[chosen] \in {"new", "pending"}
Trusted == IF mark[chosen] = "valid" THEN image[chosen] ELSE image[Other(chosen)]

Update == INSTANCE TrustedImage
  WITH Image <- Images, Works <- {"good"}, NoImage <- "none",
       trusted <- Trusted, trial <- IF OnTrial THEN image[chosen] ELSE "none"

\* Whatever is uploaded, and wherever the power fails, the device can return
\* to an image that works, and adopts only such an image: "a bad image must
\* never brick the device" (ota_manager.h).
SafeUpdate == Update!Spec

\* An image that hangs or never gets on the network is left for one that
\* works, with no help from outside.
BadImageLeaves ==
  (stage = "config" /\ image[running] \in {"nowifi", "stuck"})
    ~> (stage = "run" /\ image[running] = "good")

\* A configuration the device acknowledged is the one it comes up with,
\* whatever fails between the answer and the restart.
ConfigTakesEffect == http = "acked" ~> (stage = "ota" /\ cfg = devcfg)

\* The station goes on trying: while its network is in range it gets on it
\* again and again, however often attempts fail and the link drops, and with
\* the device's own access point up too (wifi_manager.cpp).
Reconnects ==
  <>[](stage = "run" /\ cfg \in Homes \ Offline /\ range /\ image[running] = "good")
    => []<>connected
================================================================================
