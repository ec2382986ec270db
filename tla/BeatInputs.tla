------------------------------ MODULE BeatInputs -------------------------------
(***************************************************************************)
(* The sources of musical time and their queue: the MIDI byte stream       *)
(* (midi_realtime.cpp, midi_input.cpp), in which clock bytes fall between  *)
(* the bytes of other messages, and DJ-Link (djlink_input.cpp), where two  *)
(* tasks hear the players' beats and their claims to be tempo master.      *)
(* Both stamp a beat with the time and push it into the beat queue         *)
(* (beat_queue.cpp), which is a FIFO with a bound like the control queue.  *)
(*                                                                         *)
(* A reported tempo is a period; 0 is no report.                           *)
(***************************************************************************)
EXTENDS Integers, SequencesExt

CONSTANTS
  Player,        \* DJ-Link devices that may be in the booth
  NoEvent,       \* no beat is held
  Nobody,        \* no player is tempo master
  Reports,       \* what each player's beats report: [report, bar]
  PulsesPerBeat, \* kPulsesPerQuarterNote
  Capacity,      \* slots of the beat queue
  TableSize,     \* kCapacity of the master table
  Setups         \* bounds: rigs that are tried, with how much happens in each

\* The bounds of a rig: the last tick, beats and taps, bytes of MIDI messages,
\* changes in the booth.
ASSUME InputsAssumption ==
  /\ Nobody \notin Player
  /\ {PulsesPerBeat, Capacity, TableSize} \subseteq Nat \ {0}
  /\ \A p \in Player : Reports[p] \subseteq [report : Nat, bar : 0 .. 4]
  /\ \A s \in Setups :
       /\ {s.time, s.events, s.messages, s.changes} \subseteq Nat
       /\ s.booth \subseteq Player

Transport == {"midi", "djlink"}

VARIABLES
  setup,    \* the rig of this behaviour
  now,      \* esp_timer_get_time, in ticks
  events,   \* beats stamped (and taps made) so far
  queue,    \* g_beatQueue, oldest first
  held,     \* the beat a transport has stamped and not yet pushed
  \* MIDI
  wire,     \* the bytes of the current message still to come
  messages, \* messages begun so far
  sent,     \* the last message whose bytes have all come
  buffer_,  \* buffer_, up to bufferIdx_
  got,      \* the last message the reader completed
  pulses,   \* pulseCount_
  \* DJ-Link
  present,  \* players in the booth
  master,   \* the tempo master
  entries,  \* entries_: the valid ones, by slot
  changes,  \* changes in the booth so far
  fresh     \* players whose status has been heard since the last change

midi == <<wire, messages, sent, buffer_, got, pulses>>

booth == <<present, master, entries, changes, fresh>>

inputVars == <<setup, now, events, queue, held, midi, booth>>

InputsInit ==
  /\ setup \in Setups
  /\ now = 0
  /\ events = 0
  /\ queue = <<>>
  /\ held = [x \in Transport |-> NoEvent]
  /\ wire = <<>> /\ messages = 0 /\ sent = <<>>
  /\ buffer_ = <<>> /\ got = <<>> /\ pulses = 0
  /\ present = setup.booth /\ master = Nobody
  /\ entries = <<>> /\ changes = 0 /\ fresh = {}

--------------------------------------------------------------------------------
(* Beats: read the time, then push.                                            *)

Beat(r, b) == [t |-> now, report |-> r, bar |-> b]

\* A task that still holds a beat is blocked or preempted: it reads no input.
Stamp(x, e) ==
  /\ held[x] = NoEvent
  /\ events < setup.events
  /\ events' = events + 1
  /\ held' = [held EXCEPT ![x] = e]

PushBeat(x) ==
  /\ held[x] # NoEvent
  /\ queue' = IF Len(queue) < Capacity THEN Append(queue, held[x]) ELSE queue
  /\ held' = [held EXCEPT ![x] = NoEvent]
  /\ UNCHANGED <<setup, now, events, midi, booth>>

--------------------------------------------------------------------------------
(* MIDI: a controller sends notes of three bytes and program changes of two,   *)
(* a sequencer's clock, start and stop bytes come at any place.                *)

Message == {<<"note", 1>>, <<"note", 2>>, <<"program">>}

\* A byte is its message and its place in it; the first is a status byte.
Bytes(m) == [i \in 1 .. (IF m[1] = "note" THEN 3 ELSE 2) |-> <<m, i>>]

Begin ==
  /\ wire = <<>>
  /\ messages < setup.messages
  /\ messages' = messages + 1
  /\ \E m \in Message : wire' = Bytes(m)
  /\ UNCHANGED <<setup, now, events, queue, held, sent, buffer_, got, pulses, booth>>

\* feed, for a byte below 0xF8: a status byte starts a message anew, a third
\* byte completes it.
FeedByte ==
  /\ wire # <<>>
  /\ held["midi"] = NoEvent
  /\ LET byte == Head(wire)
         all == Append(IF byte[2] = 1 THEN <<>> ELSE buffer_, byte)
     IN  /\ buffer_' = IF Len(all) < 3 THEN all ELSE <<>>
         /\ got' = IF Len(all) < 3 THEN got ELSE all
         /\ sent' = IF Len(wire) = 1 THEN Bytes(byte[1]) ELSE sent
  /\ wire' = Tail(wire)
  /\ UNCHANGED <<setup, now, events, queue, held, messages, pulses, booth>>

\* Mutant: any byte with the high bit set restarts the framing, a clock too.
FeedClockResetting ==
  /\ held["midi"] = NoEvent
  /\ buffer_' = <<>>
  /\ pulses' = (pulses + 1) % PulsesPerBeat
  /\ IF pulses + 1 = PulsesPerBeat THEN Stamp("midi", Beat(0, 0)) ELSE UNCHANGED <<events, held>>
  /\ UNCHANGED <<setup, now, queue, wire, messages, sent, got, booth>>

\* feed, for 0xF8, and handle_byte's use of its result: every PulsesPerBeat-th
\* clock is a beat.
FeedClock ==
  /\ held["midi"] = NoEvent
  /\ pulses' = (pulses + 1) % PulsesPerBeat
  /\ IF pulses + 1 = PulsesPerBeat THEN Stamp("midi", Beat(0, 0)) ELSE UNCHANGED <<events, held>>
  /\ UNCHANGED <<setup, now, queue, wire, messages, sent, buffer_, got, booth>>

\* 0xFA, 0xFB, 0xFC: the count starts anew, and nobody uses the result.
FeedTransport ==
  /\ held["midi"] = NoEvent
  /\ pulses' = 0
  /\ UNCHANGED <<setup, now, events, queue, held, wire, messages, sent, buffer_, got, booth>>

Midi == Begin \/ FeedByte \/ FeedClock \/ FeedTransport

--------------------------------------------------------------------------------
(* DJ-Link: the booth, and the two listeners.                                  *)

\* Mutant: the device's own entry is not looked for.
UpdateWithoutFind(p, m) ==
  entries' = IF Len(entries) < TableSize THEN Append(entries, [player |-> p, master |-> m])
             ELSE [entries EXCEPT ![1] = [player |-> p, master |-> m]]

\* update: the device's slot, a free one, or the first.
Update(p, m) ==
  LET mine == {i \in DOMAIN entries : entries[i].player = p}
      e == [player |-> p, master |-> m]
  IN  entries' = CASE mine # {} -> [i \in DOMAIN entries |-> IF i \in mine THEN e ELSE entries[i]]
                   [] mine = {} /\ Len(entries) < TableSize -> Append(entries, e)
                   [] OTHER -> [entries EXCEPT ![1] = e]

IsKnownMaster(p) == \E i \in DOMAIN entries : entries[i].player = p /\ entries[i].master

ShouldAccept(p) == IsKnownMaster(p) \/ \A q \in Player : ~ IsKnownMaster(q)

\* A status packet arrives and is handled by djlink_status_task.
Status(p) ==
  /\ p \in present
  /\ Update(p, master = p)
  /\ fresh' = fresh \cup {p}
  /\ UNCHANGED <<setup, now, events, queue, held, midi, present, master, changes>>

\* A beat packet arrives and is handled by djlink_beat_task.
PlayerBeat(p) ==
  /\ p \in present
  /\ ShouldAccept(p)
  /\ \E r \in Reports[p] : Stamp("djlink", Beat(r.report, r.bar))
  /\ UNCHANGED <<setup, now, queue, midi, booth>>

\* Players come and go, and the booth agrees on another master.
BoothChanges ==
  /\ changes < setup.changes
  /\ changes' = changes + 1
  /\ fresh' = {}
  /\ \/ \E p \in setup.booth \ present :
          present' = present \cup {p} /\ UNCHANGED master
     \/ \E p \in present :
          present' = present \ {p} /\ master' = IF master = p THEN Nobody ELSE master
     \/ \E p \in present \ {master} :
          master' = p /\ UNCHANGED present
  /\ UNCHANGED <<setup, now, events, queue, held, midi, entries>>

DjLink == BoothChanges \/ \E p \in Player : Status(p) \/ PlayerBeat(p)

--------------------------------------------------------------------------------
(* Properties.                                                                 *)

(* Between the messages of a controller the reader has completed exactly the   *)
(* last note sent, whatever clock, start and stop bytes came between its       *)
(* bytes, and whatever shorter message came before it (midi_realtime.h:4-15).  *)
NotesArriveWhole ==
  wire = <<>> /\ sent # <<>> /\ Len(sent) = 3 => got = sent

(* Once every player in the booth has repeated its status since the last       *)
(* change, the beats of the master are accepted and those of the others are    *)
(* not, whatever handovers, departures and returns came before                 *)
(* (djlink_master_tracker.h:8-24).                                             *)
MasterIsFollowed ==
  present \subseteq fresh /\ master # Nobody =>
    {p \in present : ShouldAccept(p)} = {master}
================================================================================
