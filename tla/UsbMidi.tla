-------------------------------- MODULE UsbMidi --------------------------------
(***************************************************************************)
(* A MIDI controller on the USB port (usb_midi_input.cpp): a driver of one *)
(* device on the host library's events, with a transfer that waits for     *)
(* notes and is submitted again when it comes back, and one that takes the *)
(* controller's initial messages (usb_midi_packetizer.cpp).  Any call of   *)
(* the library may fail, and plugs are pulled at any time.                 *)
(*                                                                         *)
(* Modelled from how the driver uses it, the library gives each device a   *)
(* new address, reports a device it opened as gone, and hands transfers    *)
(* back before it delivers messages, of which it keeps only a few.         *)
(***************************************************************************)
EXTENDS Integers, SequencesExt

CONSTANTS
  Profiles,   \* what the .mdef may hold: the lengths of its INIT SYSEX messages, in order
  MaxNews,    \* max_num_event_msg
  MaxPlugs, MaxPlays \* bounds

ASSUME UsbAssumption ==
  /\ {MaxNews, MaxPlugs, MaxPlays} \subseteq Nat
  /\ Profiles \subseteq Seq(Nat \ {0})

Kind == {"midi", "midiInOnly", "other"}

PacketSort == {"channel", "system"}

VARIABLES
  \* the driver
  driver,   \* off, waiting, connected, error: g_state, of a task that may not have started
  device,   \* g_devHdl, 0 without
  inbound,  \* g_inTransfer: none, idle, flying, back (done, failed, gone), or being read
  batch,    \* the packets in it that are yet to be read, by their place in played
  outbound, \* transfers of initial messages not yet freed: how far they were taken
  profile,  \* g_controllerProfile's init blobs
  pushed,   \* the packets that went into the control queue, a history of its pushes
  \* the library and the world
  kinds,    \* the devices plugged in so far, by address
  plugged,  \* those that still are
  opened, claimed, \* devices the client holds
  news, \* events to be delivered, oldest first
  played,   \* history: the packets the library took from the device
  greeted   \* history: what each device was sent, whole messages and part of the next

driverVars == <<driver, device, inbound, batch, outbound, profile, pushed>>

worldVars == <<kinds, plugged, opened, claimed, news, played, greeted>>

usbVars == <<driverVars, worldVars>>

UsbInit ==
  /\ driver = "off" /\ device = 0
  /\ inbound = "none" /\ batch = <<>> /\ outbound = {}
  /\ profile \in Profiles
  /\ pushed = <<>>
  /\ kinds = <<>> /\ plugged = {} /\ opened = {} /\ claimed = {}
  /\ news = <<>> /\ played = <<>> /\ greeted = <<>>

--------------------------------------------------------------------------------
(* USB-MIDI event packets: three bytes each, and a number that says how many   *)
(* are real and whether the message ends.  The buffer is packed at once; what   *)
(* is in it is told here as the device takes it, for no profile changes.       *)

BlobBytes(blob) == [i \in 1 .. profile[blob] |-> <<blob, i>>]

Padding == <<0, 0>>

\* Mutant: three bytes that remain are taken for the middle of a message.
CinMissingEnd(remaining) == IF remaining >= 3 THEN 4 ELSE 4 + remaining

Cin(remaining) == IF remaining > 3 THEN 4 ELSE 4 + remaining

\* A turn of packUsbMidiEventPackets's loop, in a message at pos.
EventPacket(blob, pos) ==
  LET remaining == profile[blob] - pos
      groupLen == IF remaining > 3 THEN 3 ELSE remaining
  IN  [cin |-> Cin(remaining), bytes |-> [i \in 1 .. 3 |-> IF i <= groupLen THEN <<blob, pos + i>> ELSE Padding]]

\* sendControllerInit: one message after the other.
Onward(t) ==
  IF t.pos + 3 < profile[t.blob] THEN [t EXCEPT !.pos = t.pos + 3]
  ELSE [t EXCEPT !.blob = t.blob + 1, !.pos = 0, !.state = IF t.blob = Len(profile) THEN "back" ELSE "flying"]

Back(t) == [t EXCEPT !.state = "back"]

\* A device puts the bytes together again: a message goes on after a 4 and ends
\* after a 5, a 6 or a 7, of which it takes one, two or three bytes.
Take(acc, p) ==
  LET n == IF p.cin = 4 THEN 3 ELSE p.cin - 4
      part == acc.part \o SubSeq(p.bytes, 1, n)
  IN  IF p.cin = 4 THEN [part |-> part, whole |-> acc.whole]
      ELSE [part |-> <<>>, whole |-> Append(acc.whole, part)]

--------------------------------------------------------------------------------
(* The port.                                                                   *)

\* A message that finds the queue full is lost.
Notify(m) == news' = IF Len(news) < MaxNews THEN Append(news, m) ELSE news

Plug(kind) ==
  /\ driver \in {"waiting", "connected"}
  /\ Len(kinds) < MaxPlugs
  /\ kinds' = Append(kinds, kind)
  /\ plugged' = plugged \cup {Len(kinds) + 1}
  /\ greeted' = Append(greeted, [part |-> <<>>, whole |-> <<>>])
  /\ Notify([event |-> "new", address |-> Len(kinds) + 1])
  /\ UNCHANGED <<driverVars, opened, claimed, played>>

\* What is under way to the device comes back.
Unplug(a) ==
  /\ plugged' = plugged \ {a}
  /\ inbound' = IF a = device /\ inbound = "flying" THEN "gone" ELSE inbound
  /\ outbound' = {IF t.to = a THEN Back(t) ELSE t : t \in outbound}
  /\ IF a \in opened THEN Notify([event |-> "gone", address |-> a]) ELSE UNCHANGED news
  /\ UNCHANGED <<driver, device, batch, profile, pushed, kinds, opened, claimed, played, greeted>>

Play(packets) ==
  /\ inbound = "flying"
  /\ Len(played) + Len(packets) <= MaxPlays
  /\ inbound' = "done"
  /\ batch' = [i \in 1 .. Len(packets) |-> Len(played) + i]
  /\ played' = played \o packets
  /\ UNCHANGED <<driver, device, outbound, profile, pushed, kinds, plugged, opened, claimed, news, greeted>>

Glitch ==
  /\ inbound = "flying"
  /\ inbound' = "failed"
  /\ UNCHANGED <<driver, device, batch, outbound, profile, pushed, worldVars>>

\* The device takes a packet, and after the last one the transfer is back.
Deliver(t) ==
  /\ t.state = "flying"
  /\ outbound' = (outbound \ {t}) \cup {Onward(t)}
  /\ greeted' = [greeted EXCEPT ![t.to] = Take(@, EventPacket(t.blob, t.pos))]
  /\ UNCHANGED <<driver, device, inbound, batch, profile, pushed, kinds, plugged, opened, claimed, news, played>>

Stall(t) ==
  /\ t.state = "flying"
  /\ outbound' = (outbound \ {t}) \cup {Back(t)}
  /\ UNCHANGED <<driver, device, inbound, batch, profile, pushed, worldVars>>

--------------------------------------------------------------------------------
(* The driver's task (usb_midi_host_task).                                     *)

StartDriver ==
  /\ driver = "off"
  /\ driver' \in {"waiting", "error"}
  /\ UNCHANGED <<device, inbound, batch, outbound, profile, pushed, worldVars>>

\* usb_host_transfer_submit can only succeed on a device that is there.
Submitted == (IF device \in plugged THEN {"flying"} ELSE {}) \cup {"idle"}

\* in_transfer_cb reads what came, packet by packet.  parseMidi takes channel messages.
HandlePacket ==
  /\ inbound \in {"done", "reading"} /\ batch # <<>>
  /\ inbound' = "reading"
  /\ batch' = Tail(batch)
  /\ pushed' = IF played[Head(batch)] = "channel" THEN Append(pushed, Head(batch)) ELSE pushed
  /\ UNCHANGED <<driver, device, outbound, profile, worldVars>>

\* in_transfer_cb submits the transfer again, unless the device is gone.
InCallback ==
  /\ inbound \in {"done", "reading", "failed", "gone"} /\ batch = <<>>
  /\ IF inbound = "gone" THEN inbound' = "idle" ELSE inbound' \in Submitted
  /\ UNCHANGED <<driver, device, batch, outbound, profile, pushed, worldVars>>

\* init_out_transfer_cb
OutCallback(t) ==
  /\ t.state = "back" /\ inbound # "reading"
  /\ outbound' = outbound \ {t}
  /\ UNCHANGED <<driver, device, inbound, batch, profile, pushed, worldVars>>

\* client_event_cb takes a message once no transfer waits.
Delivered(event) ==
  /\ news # <<>>
  /\ Head(news).event = event
  /\ inbound \notin {"done", "reading", "failed", "gone"}
  /\ \A t \in outbound : t.state # "back"
  /\ news' = Tail(news)

\* handle_new_device, up to the call that fails: the driver gives back what the
\* calls before lent it.
Lent ==
  [ignored |-> {}, open |-> {}, config |-> {"device"}, endpoints |-> {"device"}, claim |-> {"device"},
   alloc |-> {"device", "interface"}, submit |-> {"device", "interface", "transfer"}]

\* Mutant: the interface is still claimed when the device is closed.
GivenBackLate == [Lent EXCEPT !.alloc = {"device"}]

GivenBack ==
  [ignored |-> {}, open |-> {}, config |-> {"device"}, endpoints |-> {"device"}, claim |-> {"device"},
   alloc |-> {"device", "interface"}, submit |-> {"device", "interface", "transfer"}]

\* Where it can fail: a device that is not there is not opened, and one that is no
\* controller has no bulk IN endpoint on a MIDIStreaming interface.
Failures(a) ==
  IF device # 0 THEN {"ignored"}
  ELSE IF a \notin plugged THEN {"open"}
  ELSE {"open", "config"} \cup (IF kinds[a] = "other" THEN {"endpoints"} ELSE {"claim", "alloc", "submit"})

NewDeviceFails ==
  /\ Delivered("new")
  /\ LET a == Head(news).address
     IN  \E at \in Failures(a) :
           LET left == Lent[at] \ GivenBack[at]
           IN  /\ opened' = IF "device" \in left THEN opened \cup {a} ELSE opened
               /\ claimed' = IF "interface" \in left THEN claimed \cup {a} ELSE claimed
               /\ inbound' = IF "transfer" \in left THEN "idle" ELSE inbound
  /\ UNCHANGED <<driver, device, batch, outbound, profile, pushed, kinds, plugged, played, greeted>>

\* The greeting is sent to a controller with a bulk OUT endpoint, if there is one
\* and if it can be.
Greet(a) ==
  \/ UNCHANGED outbound
  \/ /\ kinds[a] = "midi" /\ profile # <<>>
     /\ outbound' = outbound \cup {[to |-> a, blob |-> 1, pos |-> 0, state |-> "flying"]}

NewDevice ==
  LET a == Head(news).address
  IN  /\ Delivered("new")
      /\ device = 0 /\ a \in plugged /\ kinds[a] # "other"
      /\ device' = a
      /\ opened' = opened \cup {a}
      /\ claimed' = claimed \cup {a}
      /\ inbound' = "flying"
      /\ driver' = "connected"
      /\ Greet(a)
      /\ UNCHANGED <<batch, profile, pushed, kinds, plugged, played, greeted>>

\* handle_device_gone and teardown_device
DeviceGone ==
  /\ Delivered("gone")
  /\ Head(news).address = device
  /\ device' = 0
  /\ inbound' = "none"
  /\ opened' = opened \ {device}
  /\ claimed' = claimed \ {device}
  /\ driver' = "waiting"
  /\ UNCHANGED <<batch, outbound, profile, pushed, kinds, plugged, played, greeted>>

OtherGone ==
  /\ Delivered("gone")
  /\ Head(news).address # device
  /\ UNCHANGED <<driverVars, kinds, plugged, opened, claimed, played, greeted>>

UsbNext ==
  \/ StartDriver
  \/ \E k \in Kind : Plug(k)
  \/ \E a \in plugged : Unplug(a)
  \/ \E n \in 0 .. 2 : \E packets \in [1 .. n -> PacketSort] : Play(packets)
  \/ Glitch
  \/ \E t \in outbound : Deliver(t) \/ Stall(t) \/ OutCallback(t)
  \/ HandlePacket \/ InCallback
  \/ NewDeviceFails \/ NewDevice \/ DeviceGone \/ OtherGone

UsbSpec == UsbInit /\ [][UsbNext]_usbVars

--------------------------------------------------------------------------------
(* Properties.                                                                 *)

(* Hot-plugging never leaks what the library lends (usb_midi_input.h:86): between *)
(* callbacks the driver holds the device it tracks, its interface and its         *)
(* transfer, and nothing else; a transfer is under way to no device that was      *)
(* given back.                                                                    *)
NothingLeaks ==
  /\ opened = (IF device = 0 THEN {} ELSE {device})
  /\ claimed = opened
  /\ driver = "connected" <=> device # 0
  /\ inbound = "none" <=> device = 0
  /\ inbound = "flying" => device \in plugged
  /\ \A t \in outbound : t.state = "flying" => t.to = device /\ t.to \in plugged

\* Every channel message the controller sent is pushed, once and in order, as far as
\* the packets have been read.
PacketsArriveOnce ==
  /\ ToSet(pushed) = {n \in DOMAIN played : played[n] = "channel"} \ ToSet(batch)
  /\ \A i, j \in DOMAIN pushed : i < j => pushed[i] < pushed[j]

\* A controller understands the initial messages of the profile one after the other,
\* and all of them when the transfer ran to its end.
GreetingWhole ==
  /\ \A a \in DOMAIN greeted :
       LET whole == greeted[a].whole
       IN  Len(whole) <= Len(profile) /\ whole = [b \in 1 .. Len(whole) |-> BlobBytes(b)]
  /\ \A t \in outbound :
       t.blob > Len(profile) => greeted[t.to] = [part |-> <<>>, whole |-> [b \in DOMAIN profile |-> BlobBytes(b)]]

(* The port is faithful in both directions: whatever transfers fail in between,  *)
(* what is played arrives once and in order (usb_midi_input.h:70), and what is   *)
(* sent is understood whole, wherever the messages end in the packets            *)
(* (usb_midi_packetizer.h:14).                                                   *)
PortIsFaithful == PacketsArriveOnce /\ GreetingWhole
================================================================================
