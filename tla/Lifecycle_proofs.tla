---------------------------- MODULE Lifecycle_proofs ----------------------------
(***************************************************************************)
(* Proofs about Lifecycle, for any set of configurations, threshold and    *)
(* number of requests and losses of power: the shape of its state, and     *)
(* that the two slots implement TrustedImage.                              *)
(***************************************************************************)
EXTENDS Lifecycle, TLAPS

\* What a reset left behind: nothing in RAM says anything of the slots.
RamIsLost ==
  stage = "off" =>
    /\ http = "idle" /\ ~ pending /\ ~ wifiOk /\ ~ dmxOk
    /\ ~ connected /\ ~ gotIp /\ ~ services /\ assoc = "off"

\* The slot that runs is the one that was chosen, until an upload chooses
\* the other: then the running one is valid and the other is yet to be tried.
RunsChosen ==
  stage # "off" =>
    IF http = "restart"
    THEN running = Other(chosen) /\ mark[running] = "valid" /\ mark[chosen] = "new"
    ELSE running = chosen /\ mark[running] \in {"pending", "valid"}

\* The chosen slot is valid and works, or it is not valid and the other does.
ReturnKept ==
  \/ mark[chosen] = "valid" /\ image[chosen] = "good"
  \/ mark[chosen] # "valid" /\ mark[Other(chosen)] = "valid" /\ image[Other(chosen)] = "good"

TrialIsWhole == mark[chosen] \in {"new", "pending"} => image[chosen] \in Images

\* An upload writes beside a valid image, and chooses what it has received.
UploadsBeside ==
  /\ http \in {"image", "written"} => mark[running] = "valid"
  /\ http = "written" => image[Other(running)] \in Images

\* Only an image on trial is validated, or rolled back.
TrialsOnly == Validating => stage # "off" /\ mark[running] = "pending"

\* What the self validation has noted is true of the image that runs.
NotesAreTrue ==
  /\ dmxOk => image[running] # "nodmx"
  /\ wifiOk \/ connected \/ assoc \in {"linked", "up"} => image[running] # "nowifi"

\* The worker only handles a configuration that parses.
PostedParses == http \in {"config", "erased", "torn"} => posted \in Configs

SlotInv ==
  /\ RamIsLost /\ RunsChosen /\ ReturnKept /\ TrialIsWhole
  /\ UploadsBeside /\ TrialsOnly /\ NotesAreTrue

LifeInv == LifecycleTypeOK /\ PostedParses /\ SlotInv

--------------------------------------------------------------------------------
(* Types.                                                                      *)

LEMMA LifeTypeInit == Init => LifecycleTypeOK
<1>. SUFFICES ASSUME Init PROVE LifecycleTypeOK
  OBVIOUS
<1>1. WifiTypeOK
  <2>1. attempts \in 0 .. Threshold /\ seen \in 0 .. Threshold
    BY WifiAssumption DEF Init, Off
  <2>2. /\ range \in BOOLEAN /\ connected \in BOOLEAN /\ lost \in BOOLEAN /\ gotIp \in BOOLEAN
        /\ apActive \in BOOLEAN /\ services \in BOOLEAN
    BY DEF Init, Off
  <2>. QED
    BY <2>1, <2>2 DEF Init, Off, WifiTypeOK
<1>2. image \in [Slots -> Images \cup {"none"}] /\ mark \in [Slots -> Marks]
  BY DEF Init, Images, Marks
<1>3. {pending, validated, wifiOk, dmxOk, late, cues} \subseteq BOOLEAN
  BY DEF Init
<1>4. frames \in 0 .. FramesNeeded /\ requests \in 0 .. MaxRequests /\ losses \in 0 .. MaxLosses
  BY LifecycleAssumption DEF Init
<1>5. chosen \in Slots /\ running \in Slots
  BY DEF Init, Slots
<1>6. /\ devcfg \in Configs \cup Unread /\ cfg \in Configs \cup {"none"}
      /\ posted \in Configs \cup {"none"}
  BY DEF Init, Unread
<1>. QED
  BY <1>1, <1>2, <1>3, <1>4, <1>5, <1>6 DEF Init, LifecycleTypeOK

(* A reset leaves what is in flash, and a slot to start.                       *)
LEMMA ResetTypes ==
  ASSUME LifecycleTypeOK, Reset, UNCHANGED <<image, chosen, devcfg>>,
         mark' \in [Slots -> Marks], requests' \in 0 .. MaxRequests, losses' \in 0 .. MaxLosses
  PROVE  LifecycleTypeOK'
<1>. USE DEF LifecycleTypeOK, Reset
<1>1. WifiTypeOK'
  <2>1. attempts' \in 0 .. Threshold /\ seen' \in 0 .. Threshold
    BY WifiAssumption DEF TurnOff
  <2>2. range' \in BOOLEAN
    BY DEF WifiTypeOK
  <2>3. /\ connected' \in BOOLEAN /\ lost' \in BOOLEAN /\ gotIp' \in BOOLEAN
        /\ apActive' \in BOOLEAN /\ services' \in BOOLEAN
    BY DEF TurnOff
  <2>. QED
    BY <2>1, <2>2, <2>3 DEF WifiTypeOK, TurnOff
<1>2. {pending', validated', wifiOk', dmxOk', late', cues'} \subseteq BOOLEAN
  OBVIOUS
<1>3. frames' \in 0 .. FramesNeeded
  BY LifecycleAssumption
<1>4. image' \in [Slots -> Images \cup {"none"}] /\ devcfg' \in Configs \cup Unread
  OBVIOUS
<1>5. chosen' \in Slots /\ running' \in Slots
  OBVIOUS
<1>. QED
  BY <1>1, <1>2, <1>3, <1>4, <1>5

LEMMA ResetStepTypes ==
  ASSUME LifecycleTypeOK, LosePower \/ Watchdog \/ RollBack \/ Restart
  PROVE  LifecycleTypeOK'
<1>1. CASE LosePower
  <2>1. losses' \in 0 .. MaxLosses
    BY <1>1, LifecycleAssumption DEF LosePower, LifecycleTypeOK
  <2>. QED
    BY <1>1, <2>1, ResetTypes DEF LosePower, LifecycleTypeOK, flash
<1>2. CASE Watchdog
  BY <1>2, ResetTypes DEF Watchdog, LifecycleTypeOK, flash, budget
<1>3. CASE RollBack
  <2>1. mark' \in [Slots -> Marks]
    BY <1>3 DEF RollBack, LifecycleTypeOK, Marks
  <2>. QED
    BY <1>3, <2>1, ResetTypes DEF RollBack, LifecycleTypeOK, budget
<1>4. CASE Restart
  BY <1>4, ResetTypes DEF Restart, LifecycleTypeOK, flash, budget
<1>. QED
  BY <1>1, <1>2, <1>3, <1>4

LEMMA BringUpTypes ==
  ASSUME LifecycleTypeOK, BringUp
  PROVE  LifecycleTypeOK'
<1>. USE LifecycleAssumption DEF LifecycleTypeOK
<1>1. CASE Bootloader
  <2>1. PICK s \in Slots :
          /\ running' = s /\ chosen' = s
          /\ mark' = [t \in Slots |->
               IF t = s /\ mark[t] = "new" THEN "pending"
               ELSE IF mark[t] = "pending" THEN "bad" ELSE mark[t]]
    BY <1>1 DEF Bootloader
  <2>2. mark' \in [Slots -> Marks]
    BY <2>1 DEF Marks
  <2>3. WifiTypeOK'
    BY <1>1 DEF Bootloader, wifi, WifiTypeOK
  <2>. QED
    BY <1>1, <2>1, <2>2, <2>3 DEF Bootloader, ota, server, budget
<1>2. CASE StartNetwork
  <2>1. WifiTypeOK'
    BY <1>2, WifiAssumption DEF StartNetwork, StartStation, wifi, link, WifiTypeOK
  <2>. QED
    BY <1>2, <2>1 DEF StartNetwork, flash, ota, server, budget
<1>3. CASE LoadConfig \/ OtaInit \/ DmxBegin \/ SetUpShow \/ StartRender
  <2>1. WifiTypeOK'
    BY <1>3 DEF LoadConfig, OtaInit, DmxBegin, SetUpShow, StartRender, wifi, WifiTypeOK
  <2>. QED
    BY <1>3, <2>1 DEF LoadConfig, OtaInit, DmxBegin, SetUpShow, StartRender, Parses,
                      flash, ota, server, budget
<1>. QED
  BY <1>1, <1>2, <1>3 DEF BringUp

LEMMA ValidationTypes ==
  ASSUME LifecycleTypeOK, DeadlinePasses \/ Frame \/ Validate
  PROVE  LifecycleTypeOK'
<1>. USE LifecycleAssumption DEF LifecycleTypeOK
<1>1. WifiTypeOK'
  BY DEF DeadlinePasses, Frame, Validate, wifi, WifiTypeOK
<1>2. Noted \in 0 .. FramesNeeded
  BY DEF Noted
<1>3. mark' \in [Slots -> Marks]
  BY DEF DeadlinePasses, Frame, Validate, flash, Marks
<1>4. wifiOk' \in BOOLEAN
  BY DEF DeadlinePasses, Frame, Validate, WifiTypeOK
<1>. QED
  BY <1>1, <1>2, <1>3, <1>4 DEF DeadlinePasses, Frame, Validate, flash, boot, server, budget

LEMMA UploadTypes ==
  ASSUME LifecycleTypeOK, PostedParses, Uploads
  PROVE  LifecycleTypeOK'
<1>. USE LifecycleAssumption DEF LifecycleTypeOK
<1>1. CASE Restart
  BY <1>1, ResetStepTypes
<1>2. CASE OtaBegin \/ OtaFails \/ SetBoot \/ \E i \in Images : OtaEnd(i)
  <2>1. WifiTypeOK'
    BY <1>2 DEF OtaBegin, OtaFails, SetBoot, OtaEnd, wifi, WifiTypeOK
  <2>2. image' \in [Slots -> Images \cup {"none"}] /\ mark' \in [Slots -> Marks]
    BY <1>2 DEF OtaBegin, OtaFails, SetBoot, OtaEnd, flash, Marks
  <2>3. requests' \in 0 .. MaxRequests
    BY <1>2 DEF OtaBegin, OtaFails, SetBoot, OtaEnd, budget
  <2>4. chosen' \in Slots
    BY <1>2 DEF OtaBegin, OtaFails, SetBoot, OtaEnd, flash, Slots, Other
  <2>. QED
    BY <1>2, <2>1, <2>2, <2>3, <2>4
       DEF OtaBegin, OtaFails, SetBoot, OtaEnd, flash, boot, ota, server, budget
<1>3. CASE CfgErase \/ CfgWrite \/ CfgFails
  <2>1. WifiTypeOK'
    BY <1>3 DEF CfgErase, CfgWrite, CfgFails, wifi, WifiTypeOK
  <2>2. devcfg' \in Configs \cup Unread /\ posted' \in Configs \cup {"none"}
    BY <1>3 DEF CfgErase, CfgWrite, CfgFails, Unread, flash
  <2>. QED
    BY <1>3, <2>1, <2>2 DEF CfgErase, CfgWrite, CfgFails, flash, boot, ota, budget
<1>4. CASE \E c \in Configs \cup Unread : CfgAccept(c)
  <2>1. PICK c \in Configs : CfgAccept(c)
    BY <1>4 DEF CfgAccept, Parses
  <2>2. WifiTypeOK'
    BY <2>1 DEF CfgAccept, wifi, WifiTypeOK
  <2>3. requests' \in 0 .. MaxRequests
    BY <2>1 DEF CfgAccept
  <2>. QED
    BY <2>1, <2>2, <2>3 DEF CfgAccept, flash, boot, ota
<1>5. CASE CfgDone
  <2>1. WifiTypeOK'
    BY <1>5 DEF CfgDone, wifi, WifiTypeOK
  <2>2. devcfg' \in Configs
    BY <1>5 DEF CfgDone, PostedParses
  <2>. QED
    BY <1>5, <2>1, <2>2 DEF CfgDone, boot, ota, budget
<1>. QED
  BY <1>1, <1>2, <1>3, <1>4, <1>5 DEF Uploads

LEMMA NetworkTypes ==
  ASSUME LifecycleTypeOK, Network \/ Tasks \/ CuesChange
  PROVE  LifecycleTypeOK'
<1>. USE DEF LifecycleTypeOK, WifiTypeOK
<1>1. CASE CuesChange
  BY <1>1 DEF CuesChange, flash, ota, server, budget, wifi
<1>2. CASE Network \/ Tasks
  <2>1. UNCHANGED <<flash, boot, ota, server, budget>>
    BY <1>2 DEF Network, Tasks, Joined, Rest
  <2>2. CASE Network
    <3>. USE DEF HandleLost, HandleGotIp, link
    <3>. USE DEF Network, Joined, Join, JoinFails, GetAddress, LoseAddress, Disassociate, RangeChanges
    <3>2. attempts' \in 0 .. Threshold /\ seen' \in 0 .. Threshold
      BY <2>2, WifiAssumption
    <3>3. assoc' \in {"off", "down", "joining", "linked", "up"} /\ rc' = rc
      BY <2>2
    <3>4. /\ range' \in BOOLEAN /\ connected' \in BOOLEAN /\ lost' \in BOOLEAN /\ gotIp' \in BOOLEAN
          /\ apActive' \in BOOLEAN /\ services' \in BOOLEAN
      BY <2>2
    <3>1. WifiTypeOK'
      BY <3>2, <3>3, <3>4
    <3>. QED
      BY <2>1, <3>1 DEF flash, boot, ota, server, budget
  <2>3. CASE Tasks
    <3>1. Counted(attempts) \in 0 .. Threshold
      BY WifiAssumption DEF Counted
    <3>. USE DEF Tasks, Reconnect, RcWake, RcRead, RcRetry, RcCheck, NetStart, driver, link
    <3>3. attempts' \in 0 .. Threshold /\ seen' \in 0 .. Threshold
      BY <2>3, <3>1, WifiAssumption
    <3>4. assoc' \in {"off", "down", "joining", "linked", "up"}
      BY <2>3 DEF Reconnected
    <3>5. rc' \in {"wait", "sleep", "retry", "check"}
      BY <2>3
    <3>6. /\ range' \in BOOLEAN /\ connected' \in BOOLEAN /\ lost' \in BOOLEAN /\ gotIp' \in BOOLEAN
          /\ apActive' \in BOOLEAN /\ services' \in BOOLEAN
      BY <2>3
    <3>2. WifiTypeOK'
      BY <3>3, <3>4, <3>5, <3>6
    <3>. QED
      BY <2>1, <3>2 DEF flash, boot, ota, server, budget
  <2>. QED
    BY <1>2, <2>2, <2>3
<1>. QED
  BY <1>1, <1>2

LEMMA LifeTypeNext == LifecycleTypeOK /\ PostedParses /\ [Next]_vars => LifecycleTypeOK'
<1>. SUFFICES ASSUME LifecycleTypeOK, PostedParses, [Next]_vars PROVE LifecycleTypeOK'
  OBVIOUS
<1>1. CASE UNCHANGED vars
  BY <1>1 DEF vars, flash, boot, ota, server, budget, wifi, LifecycleTypeOK, WifiTypeOK
<1>. QED
  BY <1>1, BringUpTypes, ResetStepTypes, ValidationTypes, UploadTypes, NetworkTypes DEF Next

--------------------------------------------------------------------------------
(* The slots.                                                                  *)

Trial == IF OnTrial THEN image[chosen] ELSE "none"

\* A step of the update, or one that does not show in it.
UpdateMoves == Update!Next \/ UNCHANGED <<Trusted, Trial>>

LEMMA TwoSlots ==
  \A s \in Slots : /\ Other(s) \in Slots /\ Other(s) # s /\ Other(Other(s)) = s
                   /\ \A t \in Slots : t # s => t = Other(s)
BY DEF Slots, Other

(* A step that touches no slot does not show in the update.                    *)
LEMMA SlotsAlone ==
  ASSUME UNCHANGED <<image, mark, chosen>>
  PROVE  UpdateMoves
BY DEF UpdateMoves, Trusted, Trial, OnTrial

LEMMA SlotInit == Init => PostedParses /\ SlotInv /\ Update!Init
BY DEF Init, Off, PostedParses, SlotInv, RamIsLost, RunsChosen, ReturnKept, TrialIsWhole,
       UploadsBeside, TrialsOnly, NotesAreTrue, Validating, Slots, Other,
       Update!Init, Trusted, OnTrial

LEMMA BootloaderSlots ==
  ASSUME LifeInv, Bootloader
  PROVE  PostedParses' /\ SlotInv' /\ UpdateMoves
<1>. USE DEF LifeInv
<1>1. PICK s \in Slots :
        /\ Bootable(s) /\ (s = chosen \/ ~ Bootable(chosen))
        /\ running' = s /\ chosen' = s
        /\ mark' = [t \in Slots |->
             IF t = s /\ mark[t] = "new" THEN "pending"
             ELSE IF mark[t] = "pending" THEN "bad" ELSE mark[t]]
  BY DEF Bootloader
<1>2. /\ stage = "off" /\ stage' = "config" /\ image' = image
      /\ UNCHANGED <<http, posted, pending, validated, wifiOk, dmxOk, connected, assoc>>
  BY DEF Bootloader, ota, server, wifi
<1>3. /\ http = "idle" /\ ~ pending /\ ~ wifiOk /\ ~ dmxOk /\ ~ connected /\ assoc = "off"
  BY <1>2 DEF SlotInv, RamIsLost
<1>4. mark'[s] = IF mark[s] = "new" THEN "pending" ELSE "valid"
  BY <1>1 DEF Bootable
<1>5. image[s] \in Images
  BY <1>1 DEF Bootable, LifecycleTypeOK
<1>6. /\ RamIsLost' /\ RunsChosen' /\ TrialIsWhole' /\ UploadsBeside' /\ TrialsOnly'
      /\ NotesAreTrue' /\ PostedParses'
  BY <1>1, <1>2, <1>3, <1>4, <1>5
     DEF RamIsLost, RunsChosen, TrialIsWhole, UploadsBeside, TrialsOnly, Validating,
         NotesAreTrue, PostedParses
<1>7. CASE s = chosen
  <2>1. mark[Other(s)] = "valid" => mark'[Other(s)] = "valid"
    BY <1>1, TwoSlots
  <2>2. ReturnKept'
    BY <1>1, <1>2, <1>4, <1>7, <2>1 DEF SlotInv, ReturnKept
  <2>3. UpdateMoves
    BY <1>1, <1>2, <1>4, <1>7 DEF UpdateMoves, Trusted, Trial, OnTrial, Bootable
  <2>. QED
    BY <1>6, <2>2, <2>3 DEF SlotInv
<1>8. CASE s # chosen
  <2>1. s = Other(chosen) /\ Other(s) = chosen
    BY <1>8, TwoSlots DEF LifecycleTypeOK
  <2>2. mark[chosen] # "valid" /\ mark[s] = "valid" /\ image[s] = "good"
    BY <1>1, <1>8, <2>1 DEF SlotInv, ReturnKept, Bootable
  <2>3. mark'[s] = "valid"
    BY <1>4, <2>2
  <2>4. ReturnKept'
    BY <1>1, <1>2, <2>2, <2>3 DEF ReturnKept
  <2>5. Trusted' = Trusted /\ Trial' = "none"
    BY <1>1, <1>2, <2>1, <2>2, <2>3 DEF Trusted, Trial, OnTrial
  <2>6. Trial # "none" => Update!Abandon
    BY <2>5 DEF Update!Abandon, Trial
  <2>7. UpdateMoves
    BY <2>5, <2>6 DEF UpdateMoves, Update!Next
  <2>. QED
    BY <1>6, <2>4, <2>7 DEF SlotInv
<1>. QED
  BY <1>7, <1>8

(* A reset forgets what RAM knew; the marks decide what is tried next.         *)
LEMMA ResetSlots ==
  ASSUME LifeInv, Reset, UNCHANGED <<image, mark, chosen>>
  PROVE  PostedParses' /\ SlotInv' /\ UpdateMoves
<1>1. ReturnKept' /\ TrialIsWhole'
  BY DEF LifeInv, SlotInv, ReturnKept, TrialIsWhole
<1>2. RamIsLost' /\ RunsChosen' /\ UploadsBeside' /\ TrialsOnly' /\ NotesAreTrue' /\ PostedParses'
  BY DEF Reset, TurnOff, RamIsLost, RunsChosen, UploadsBeside, TrialsOnly, Validating,
         NotesAreTrue, PostedParses
<1>. QED
  BY <1>1, <1>2, SlotsAlone DEF SlotInv

LEMMA RollBackSlots ==
  ASSUME LifeInv, RollBack
  PROVE  PostedParses' /\ SlotInv' /\ UpdateMoves
<1>. USE DEF LifeInv
<1>1. mark[running] = "pending" /\ running = chosen
  BY DEF RollBack, Framed, SlotInv, TrialsOnly, RunsChosen
<1>2. /\ image' = image /\ chosen' = chosen /\ mark' = [mark EXCEPT ![running] = "bad"]
      /\ Reset
  BY DEF RollBack
<1>3. mark'[chosen] = "bad" /\ mark'[Other(chosen)] = mark[Other(chosen)]
  BY <1>1, <1>2, TwoSlots DEF LifecycleTypeOK
<1>4. ReturnKept' /\ TrialIsWhole'
  BY <1>1, <1>2, <1>3 DEF SlotInv, ReturnKept, TrialIsWhole
<1>5. RamIsLost' /\ RunsChosen' /\ UploadsBeside' /\ TrialsOnly' /\ NotesAreTrue' /\ PostedParses'
  BY <1>2 DEF Reset, TurnOff, RamIsLost, RunsChosen, UploadsBeside, TrialsOnly, Validating,
         NotesAreTrue, PostedParses
<1>6. Trusted' = Trusted /\ Trial' = "none" /\ Trial # "none"
  BY <1>1, <1>2, <1>3 DEF Trusted, Trial, OnTrial, SlotInv, TrialIsWhole, Images
<1>7. UpdateMoves
  BY <1>6 DEF UpdateMoves, Update!Next, Update!Abandon, Trial
<1>. QED
  BY <1>4, <1>5, <1>7 DEF SlotInv

(* What validates has joined, drives DMX and renders: it works.                *)
LEMMA ValidateSlots ==
  ASSUME LifeInv, Validate
  PROVE  PostedParses' /\ SlotInv' /\ UpdateMoves
<1>. USE DEF LifeInv
<1>1. mark[running] = "pending" /\ running = chosen /\ stage # "off"
  BY DEF Validate, Framed, SlotInv, TrialsOnly, RunsChosen
<1>2. image[running] = "good"
  BY <1>1 DEF Validate, Framed, Proven, SlotInv, TrialIsWhole, NotesAreTrue, Images
<1>3. /\ mark' = [mark EXCEPT ![running] = "valid"] /\ validated'
      /\ UNCHANGED <<image, chosen, stage, running, pending, dmxOk, http, posted, connected,
                     gotIp, assoc, services>>
      /\ wifiOk' = (wifiOk \/ connected)
  BY DEF Validate, boot, server, wifi
<1>4. mark'[chosen] = "valid"
  BY <1>1, <1>3 DEF LifecycleTypeOK
<1>5. http \notin {"image", "written", "restart"}
  BY <1>1 DEF SlotInv, UploadsBeside, RunsChosen
<1>6. SlotInv' /\ PostedParses'
  BY <1>1, <1>2, <1>3, <1>4, <1>5
     DEF SlotInv, RamIsLost, RunsChosen, ReturnKept, TrialIsWhole, UploadsBeside, TrialsOnly,
         Validating, NotesAreTrue, PostedParses
<1>7. Update!Adopt
  BY <1>1, <1>2, <1>3, <1>4 DEF Update!Adopt, Trusted, OnTrial
<1>. QED
  BY <1>6, <1>7 DEF UpdateMoves, Update!Next

(* An upload writes into the slot that does not run: only what it chooses in   *)
(* the end is tried.                                                           *)
LEMMA OtaSlots ==
  ASSUME LifeInv, OtaBegin \/ OtaFails \/ SetBoot \/ \E i \in Images : OtaEnd(i)
  PROVE  PostedParses' /\ SlotInv' /\ UpdateMoves
<1>. USE DEF LifeInv
<1>1. stage # "off" /\ running = chosen /\ mark[running] = "valid"
  BY DEF OtaBegin, OtaFails, SetBoot, OtaEnd, Admitted, SlotInv, RamIsLost, RunsChosen,
         UploadsBeside
<1>2. image[running] = "good"
  BY <1>1 DEF SlotInv, ReturnKept
<1>3. /\ UNCHANGED <<stage, running, pending, validated, wifiOk, dmxOk, connected, gotIp,
                     assoc, services, posted>>
      /\ image'[running] = image[running]
  BY TwoSlots DEF OtaBegin, OtaFails, SetBoot, OtaEnd, boot, ota, flash, wifi, LifecycleTypeOK
<1>4. ~ Validating /\ ~ Validating'
  BY <1>1, <1>3 DEF SlotInv, TrialsOnly, Validating
<1>5. NotesAreTrue' /\ TrialsOnly' /\ RamIsLost'
  BY <1>1, <1>2, <1>3, <1>4 DEF NotesAreTrue, TrialsOnly, RamIsLost, SlotInv
<1>6. CASE SetBoot
  <2>1. /\ http = "written" /\ http' = "restart" /\ image' = image
        /\ chosen' = Other(running) /\ mark'[Other(running)] = "new"
        /\ mark'[running] = "valid"
    BY <1>1, <1>6, TwoSlots DEF SetBoot, LifecycleTypeOK
  <2>2. Other(chosen') = running /\ chosen' # running
    BY <2>1, TwoSlots DEF LifecycleTypeOK
  <2>3. image'[chosen'] \in Images
    BY <2>1 DEF SlotInv, UploadsBeside
  <2>4. PostedParses' /\ SlotInv'
    BY <1>1, <1>2, <1>3, <1>5, <2>1, <2>2, <2>3
       DEF SlotInv, RunsChosen, ReturnKept, TrialIsWhole, UploadsBeside, PostedParses
  <2>5. Update!Try
    BY <1>1, <1>2, <1>3, <2>1, <2>2, <2>3 DEF Update!Try, Trusted, OnTrial
  <2>. QED
    BY <2>4, <2>5 DEF UpdateMoves, Update!Next
<1>7. CASE OtaBegin \/ OtaFails \/ \E i \in Images : OtaEnd(i)
  <2>1. UNCHANGED <<mark, chosen>> /\ http' \in {"image", "idle", "written"}
    BY <1>7 DEF OtaBegin, OtaFails, OtaEnd, flash
  <2>2. http' = "written" => image'[Other(running)] \in Images
    BY <1>1, <1>7, TwoSlots DEF OtaBegin, OtaFails, OtaEnd, LifecycleTypeOK
  <2>3. PostedParses' /\ SlotInv'
    BY <1>1, <1>2, <1>3, <1>5, <2>1, <2>2
       DEF SlotInv, RunsChosen, ReturnKept, TrialIsWhole, UploadsBeside, PostedParses
  <2>4. UpdateMoves
    BY <1>1, <1>3, <2>1 DEF UpdateMoves, Trusted, Trial, OnTrial
  <2>. QED
    BY <2>3, <2>4
<1>. QED
  BY <1>6, <1>7

(* The configuration has a partition of its own.                               *)
LEMMA ConfigSlots ==
  ASSUME LifeInv,
         \/ \E c \in Configs \cup Unread : CfgAccept(c)
         \/ CfgErase \/ CfgWrite \/ CfgDone \/ CfgFails
  PROVE  PostedParses' /\ SlotInv' /\ UpdateMoves
<1>. USE DEF LifeInv, CfgAccept, CfgErase, CfgWrite, CfgDone, CfgFails
<1>1. /\ UNCHANGED <<image, mark, chosen, stage, running, pending, validated, wifiOk, dmxOk,
                     connected, gotIp, assoc, services>>
      /\ http \in {"idle", "config", "erased", "torn"} /\ stage # "off"
      /\ http' \in {"config", "erased", "torn", "acked", "idle"}
  BY DEF Admitted, SlotInv, RamIsLost, flash, boot, ota, wifi
<1>2. SlotInv'
  BY <1>1 DEF SlotInv, RamIsLost, RunsChosen, ReturnKept, TrialIsWhole, UploadsBeside,
              TrialsOnly, Validating, NotesAreTrue
<1>3. PostedParses'
  BY DEF PostedParses, Parses
<1>. QED
  BY <1>1, <1>2, <1>3, SlotsAlone

(* The rest of the bring-up, the tasks and the network: no slot is touched.    *)
LEMMA QuietSlots ==
  ASSUME LifeInv,
         \/ LoadConfig \/ OtaInit \/ DmxBegin \/ SetUpShow \/ StartRender \/ StartNetwork
         \/ DeadlinePasses \/ Frame \/ CuesChange \/ Network \/ Tasks
  PROVE  PostedParses' /\ SlotInv' /\ UpdateMoves
<1>. USE DEF LifeInv
<1>1. CASE LoadConfig \/ OtaInit \/ DmxBegin \/ SetUpShow \/ StartRender
  <2>. USE DEF LoadConfig, OtaInit, DmxBegin, SetUpShow, StartRender
  <2>1. /\ UNCHANGED <<image, mark, chosen, running, http, posted, validated, wifiOk, connected,
                       gotIp, assoc, services>>
        /\ stage # "off" /\ stage' # "off"
    BY <1>1 DEF flash, ota, server, wifi
  <2>2. http # "restart" => running = chosen /\ mark[running] \in {"pending", "valid"}
    BY <2>1 DEF SlotInv, RunsChosen
  <2>3. TrialsOnly'
    BY <1>1, <2>1 DEF SlotInv, TrialsOnly, Validating, ota
  <2>4. NotesAreTrue'
    BY <1>1, <2>1 DEF SlotInv, NotesAreTrue, ota
  <2>5. SlotInv' /\ PostedParses'
    BY <2>1, <2>3, <2>4
       DEF SlotInv, RamIsLost, RunsChosen, ReturnKept, TrialIsWhole, UploadsBeside, PostedParses
  <2>. QED
    BY <2>1, <2>5, SlotsAlone
<1>2. CASE DeadlinePasses \/ Frame \/ CuesChange
  <2>. USE DEF DeadlinePasses, Frame, CuesChange
  <2>1. /\ UNCHANGED <<image, mark, chosen, running, stage, http, posted, pending, validated,
                       dmxOk, connected, gotIp, assoc, services>>
        /\ wifiOk' \in {wifiOk, wifiOk \/ connected} /\ stage # "off"
    BY <1>2 DEF flash, boot, ota, server, wifi, SlotInv, TrialsOnly, Framed, Rendering
  <2>2. SlotInv' /\ PostedParses'
    BY <2>1
       DEF SlotInv, RamIsLost, RunsChosen, ReturnKept, TrialIsWhole, UploadsBeside, TrialsOnly,
           Validating, NotesAreTrue, PostedParses
  <2>. QED
    BY <2>1, <2>2, SlotsAlone
<1>3. CASE StartNetwork \/ Network \/ Tasks
  <2>1. /\ UNCHANGED <<image, mark, chosen, running, http, posted, pending, validated, dmxOk, wifiOk>>
        /\ (stage = "off") = (stage' = "off")
    BY <1>3 DEF StartNetwork, Network, Joined, Tasks, Rest, flash, boot, ota, server
  <2>2. RamIsLost'
    BY <1>3, <2>1
       DEF StartNetwork, StartStation, Network, Joined, Join, JoinFails, GetAddress, LoseAddress,
           Disassociate, RangeChanges, Tasks, Reconnect, RcWake, RcRead, RcRetry, RcCheck, Reconnected,
           NetStart, link, driver, wifi, SlotInv, RamIsLost
  <2>3. NotesAreTrue'
    BY <1>3, <2>1
       DEF StartNetwork, StartStation, Network, Joined, Join, MayJoin, JoinFails, GetAddress,
           LoseAddress, Disassociate, RangeChanges, HandleLost, HandleGotIp, Tasks, Reconnect, RcWake,
           RcRead, RcRetry, RcCheck, Reconnected, NetStart, link, driver, wifi, SlotInv, NotesAreTrue
  <2>4. SlotInv' /\ PostedParses'
    BY <2>1, <2>2, <2>3
       DEF SlotInv, RunsChosen, ReturnKept, TrialIsWhole, UploadsBeside, TrialsOnly, Validating,
           PostedParses
  <2>. QED
    BY <2>1, <2>4, SlotsAlone
<1>. QED
  BY <1>1, <1>2, <1>3

LEMMA SlotNext ==
  ASSUME LifeInv, [Next]_vars
  PROVE  PostedParses' /\ SlotInv' /\ UpdateMoves
<1>1. CASE UNCHANGED vars
  BY <1>1, SlotsAlone
     DEF vars, flash, boot, ota, server, wifi, LifeInv, SlotInv, RamIsLost, RunsChosen, ReturnKept,
         TrialIsWhole, UploadsBeside, TrialsOnly, Validating, NotesAreTrue, PostedParses
<1>2. CASE BringUp \/ DeadlinePasses \/ Frame \/ Validate \/ RollBack \/ Network \/ Tasks \/ CuesChange
  BY <1>2, BootloaderSlots, QuietSlots, ValidateSlots, RollBackSlots DEF BringUp
<1>3. CASE LosePower \/ Watchdog \/ Restart
  BY <1>3, ResetSlots DEF LosePower, Watchdog, Restart, flash
<1>4. CASE Uploads
  BY <1>3, <1>4, OtaSlots, ConfigSlots DEF Uploads
<1>. QED
  BY <1>1, <1>2, <1>3, <1>4 DEF Next

--------------------------------------------------------------------------------
(* Theorems.                                                                   *)

(* Every variable keeps its type, and the slots stay as SlotInv says.          *)
THEOREM LifeStaysSound == Spec => []LifeInv
<1>1. Init => LifeInv
  BY LifeTypeInit, SlotInit DEF LifeInv
<1>2. LifeInv /\ [Next]_vars => LifeInv'
  BY LifeTypeNext, SlotNext DEF LifeInv
<1>. QED
  BY <1>1, <1>2, PTL DEF Spec

(* Whatever is uploaded and wherever the power fails, the two slots and their  *)
(* marks implement the update: there is always a working image to return to,   *)
(* and only a working image is adopted (ota_manager.cpp:58-125).               *)
THEOREM UpdatesAreSafe == Spec => SafeUpdate
<1>1. Init => Update!Init
  BY SlotInit
<1>2. LifeInv /\ [Next]_vars => [Update!Next]_<<Trusted, Trial>>
  BY SlotNext DEF UpdateMoves
<1>. QED
  BY <1>1, <1>2, LifeStaysSound, PTL DEF Spec, SafeUpdate, Update!Spec, Trial

================================================================================
