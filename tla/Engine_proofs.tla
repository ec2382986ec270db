----------------------------- MODULE Engine_proofs -----------------------------
(***************************************************************************)
(* The parts of the engine beside the show's own, each for every value of  *)
(* its constants.  Musical time: notes arrive whole between the bytes of a *)
(* clock, and of the players in a booth exactly the tempo master is        *)
(* followed.  The render loop: late frames are never made up for by        *)
(* bursts, and the statistics account for all time.  The USB port: nothing *)
(* the library lends is leaked, and what is played and sent arrives whole  *)
(* and in order.  The scripts' table: a redefinition leaves no older       *)
(* version running, and an effect fails once.                              *)
(***************************************************************************)
EXTENDS BeatClock, RenderLoop, UsbMidi, GlowApi, SequenceTheorems, FiniteSetTheorems, TLAPS

--------------------------------------------------------------------------------
(* MIDI.                                                                       *)

Size(m) == IF m[1] = "note" THEN 3 ELSE 2

\* The first k bytes of a message, and those after them.
Sofar(m, k) == [i \in 1 .. k |-> <<m, i>>]

Rest(m, k) == [i \in 1 .. Size(m) - k |-> <<m, i + k>>]

\* The wire carries the rest of a message of which the reader keeps the bytes
\* that came: whatever the first one finds in the buffer, it starts anew.
ReaderKeeps ==
  wire = <<>> \/
  \E m \in Message, k \in 0 .. 2 :
    k < Size(m) /\ wire = Rest(m, k) /\ (k > 0 => buffer_ = Sofar(m, k))

NotesInv == ReaderKeeps /\ NotesArriveWhole

LEMMA NotesInit == ClockInit => NotesInv
BY DEF ClockInit, InputsInit, NotesInv, ReaderKeeps, NotesArriveWhole

LEMMA WholeMessage ==
  ASSUME NEW m \in Message
  PROVE  /\ Size(m) \in {2, 3} /\ (m[1] = "note" <=> Size(m) = 3)
         /\ Rest(m, 0) = Bytes(m) /\ Sofar(m, Size(m)) = Bytes(m) /\ Len(Bytes(m)) = Size(m)
<1>1. Size(m) \in {2, 3} /\ (m[1] = "note" <=> Size(m) = 3)
  BY DEF Size
<1>2. Bytes(m) = [i \in 1 .. Size(m) |-> <<m, i>>]
  BY DEF Bytes, Size
<1>3. Size(m) - 0 = Size(m) /\ \A i \in 1 .. Size(m) : i + 0 = i
  BY <1>1
<1>4. Rest(m, 0) = [i \in 1 .. Size(m) |-> <<m, i>>]
  BY <1>3 DEF Rest
<1>5. Len(Bytes(m)) = Size(m)
  BY <1>1, <1>2
<1>. QED BY <1>1, <1>2, <1>4, <1>5 DEF Sofar

\* Each byte moves from what is to come to what has come.
LEMMA NextByte ==
  ASSUME NEW m \in Message, NEW k \in 0 .. 2, k < Size(m)
  PROVE  /\ Rest(m, k) # <<>> /\ Head(Rest(m, k)) = <<m, k + 1>>
         /\ Tail(Rest(m, k)) = Rest(m, k + 1)
         /\ Len(Rest(m, k)) = Size(m) - k
         /\ Append(Sofar(m, k), <<m, k + 1>>) = Sofar(m, k + 1)
         /\ Len(Sofar(m, k + 1)) = k + 1
<1>. DEFINE B == {<<m, i>> : i \in 1 .. 3}
<1>1. Size(m) \in {2, 3} /\ Size(m) - k \in 1 .. 3 /\ Size(m) - (k + 1) = (Size(m) - k) - 1
  BY WholeMessage
<1>2. \A i \in 1 .. Size(m) - k : i + k \in 1 .. 3
  BY <1>1
<1>3. Rest(m, k) \in Seq(B) /\ Len(Rest(m, k)) = Size(m) - k
  BY <1>1, <1>2 DEF Rest
<1>4. Rest(m, k)[1] = <<m, 1 + k>> /\ 1 + k = k + 1
  BY <1>1 DEF Rest
<1>5. Rest(m, k) # <<>> /\ Head(Rest(m, k)) = <<m, k + 1>>
  BY <1>1, <1>3, <1>4, HeadTailProperties, EmptySeq
<1>6. \A i \in 1 .. Size(m) - (k + 1) : i \in 1 .. Size(m) - k /\ i + 1 \in 1 .. Size(m) - k /\ (i + 1) + k = i + (k + 1)
  BY <1>1
<1>7. Rest(m, k + 1) \in Seq(B) /\ Len(Rest(m, k + 1)) = Size(m) - (k + 1)
  <2>1. Size(m) - (k + 1) \in 0 .. 2
    BY <1>1
  <2>. QED BY <1>6, <1>2, <2>1 DEF Rest
<1>8. \A i \in 1 .. Size(m) - (k + 1) : Rest(m, k)[i + 1] = Rest(m, k + 1)[i]
  BY <1>6 DEF Rest
<1>9. Tail(Rest(m, k)) = Rest(m, k + 1)
  <2>. DEFINE s == Rest(m, k)
              t == Rest(m, k + 1)
  <2>1. s \in Seq(B) /\ t \in Seq(B) /\ s # <<>>
        /\ Len(s) - 1 = Len(t) /\ \A i \in 1 .. Len(t) : s[i + 1] = t[i]
    BY <1>1, <1>3, <1>5, <1>7, <1>8
  <2>. HIDE DEF s, t, B
  <2>2. Tail(s) \in Seq(B) /\ Len(Tail(s)) = Len(t) /\ \A i \in 1 .. Len(Tail(s)) : Tail(s)[i] = t[i]
    BY <2>1, HeadTailProperties
  <2>3. Tail(s) = t
    BY <2>1, <2>2, SeqEqual
  <2>. QED BY <2>3 DEF s, t
<1>10. \A n \in 0 .. 3 : Sofar(m, n) \in Seq(B) /\ Len(Sofar(m, n)) = n
  BY DEF Sofar
<1>11. Append(Sofar(m, k), <<m, k + 1>>) = Sofar(m, k + 1)
  <2>. DEFINE s == Sofar(m, k)
              b == Sofar(m, k + 1)
              x == <<m, k + 1>>
  <2>1. k \in 0 .. 3 /\ k + 1 \in 0 .. 3 /\ k \in Nat
    OBVIOUS
  <2>2. s \in Seq(B) /\ Len(s) = k /\ b \in Seq(B) /\ Len(b) = k + 1 /\ x \in B
    <3>1. x \in B
      <4>1. k + 1 \in 1 .. 3
        OBVIOUS
      <4>. QED BY <4>1
    <3>. HIDE DEF x, B
    <3>. QED BY <1>10, <2>1, <3>1
  <2>3. (\A i \in 1 .. k : b[i] = s[i]) /\ b[k + 1] = x
    BY DEF Sofar
  <2>. HIDE DEF s, b, x, B
  <2>4. Append(s, x) \in Seq(B) /\ Len(Append(s, x)) = k + 1 /\ Append(s, x)[k + 1] = x
        /\ \A i \in 1 .. k : Append(s, x)[i] = s[i]
    BY <2>2, AppendProperties
  <2>5. \A i \in 1 .. k + 1 : i \in 1 .. k \/ i = k + 1
    BY <2>1
  <2>6. \A i \in 1 .. Len(Append(s, x)) : Append(s, x)[i] = b[i]
    BY <2>3, <2>4, <2>5
  <2>7. Append(s, x) = b
    BY <2>2, <2>4, <2>6, SeqEqual
  <2>. QED BY <2>7 DEF s, b, x
<1>12. k + 1 \in 0 .. 3
  OBVIOUS
<1>. QED BY <1>3, <1>5, <1>9, <1>10, <1>11, <1>12

LEMMA BeginKeepsNotes == ASSUME NotesInv, Begin PROVE NotesInv'
<1>1. PICK m \in Message : wire' = Rest(m, 0)
  BY WholeMessage DEF Begin
<1>2. 0 < Size(m) /\ wire' # <<>>
  BY <1>1, WholeMessage, NextByte
<1>. QED BY <1>1, <1>2 DEF NotesInv, ReaderKeeps, NotesArriveWhole

LEMMA ByteKeepsNotes == ASSUME NotesInv, FeedByte PROVE NotesInv'
<1>1. PICK m \in Message, k \in 0 .. 2 :
        k < Size(m) /\ wire = Rest(m, k) /\ (k > 0 => buffer_ = Sofar(m, k))
  BY DEF FeedByte, NotesInv, ReaderKeeps
<1>. DEFINE all == Append(IF k + 1 = 1 THEN <<>> ELSE buffer_, <<m, k + 1>>)
<1>2. Size(m) \in {2, 3}
  BY WholeMessage
<1>3. /\ wire # <<>> /\ Head(wire) = <<m, k + 1>> /\ Tail(wire) = Rest(m, k + 1)
      /\ Len(wire) = Size(m) - k
  BY <1>1, NextByte
<1>4. all = Sofar(m, k + 1) /\ Len(all) = k + 1
  <2>1. Sofar(m, 0) = <<>>
    BY DEF Sofar
  <2>2. (IF k + 1 = 1 THEN <<>> ELSE buffer_) = Sofar(m, k)
    <3>1. k + 1 = 1 <=> k = 0
      OBVIOUS
    <3>. QED BY <1>1, <2>1, <3>1
  <2>3. Append(Sofar(m, k), <<m, k + 1>>) = Sofar(m, k + 1) /\ Len(Sofar(m, k + 1)) = k + 1
    BY <1>1, NextByte
  <2>. QED BY <2>2, <2>3
<1>5. /\ wire' = Rest(m, k + 1)
      /\ buffer_' = IF k + 1 < 3 THEN Sofar(m, k + 1) ELSE <<>>
      /\ got' = IF k + 1 < 3 THEN got ELSE Sofar(m, k + 1)
      /\ Len(wire) = 1 => sent' = Bytes(m)
  <2>1. /\ buffer_' = IF Len(all) < 3 THEN all ELSE <<>>
        /\ got' = IF Len(all) < 3 THEN got ELSE all
        /\ Len(wire) = 1 => sent' = Bytes(m)
        /\ wire' = Tail(wire)
    BY <1>3 DEF FeedByte
  <2>. HIDE DEF all
  <2>. QED BY <1>3, <1>4, <2>1
<1>6. CASE k + 1 < Size(m)
  <2>1. k + 1 \in 0 .. 2 /\ k + 1 < 3
    BY <1>2, <1>6
  <2>2. wire' # <<>>
    BY <1>5, <1>6, <2>1, NextByte
  <2>. QED BY <1>5, <1>6, <2>1, <2>2 DEF NotesInv, ReaderKeeps, NotesArriveWhole
<1>7. CASE k + 1 = Size(m)
  <2>1. Size(m) - (k + 1) = 0 /\ Len(wire) = 1
    BY <1>2, <1>3, <1>7
  <2>2. wire' = <<>>
    BY <1>5, <2>1 DEF Rest
  <2>3. Len(sent') = 3 => got' = sent'
    <3>1. sent' = Sofar(m, k + 1) /\ Len(sent') = k + 1
      BY <1>1, <1>5, <1>7, <2>1, WholeMessage
    <3>2. k + 1 = 3 => got' = Sofar(m, k + 1)
      BY <1>5
    <3>. QED BY <3>1, <3>2
  <2>. QED BY <2>2, <2>3 DEF NotesInv, ReaderKeeps, NotesArriveWhole
<1>. QED BY <1>1, <1>2, <1>6, <1>7

\* What the notes depend on.
reader == <<wire, sent, buffer_, got>>

LEMMA NotesNext == ASSUME NotesInv, [BeatNext]_beatVars PROVE NotesInv'
<1>1. CASE Begin
  BY <1>1, BeginKeepsNotes
<1>2. CASE FeedByte
  BY <1>2, ByteKeepsNotes
<1>3. CASE UNCHANGED reader
  BY <1>3 DEF reader, NotesInv, ReaderKeeps, NotesArriveWhole
<1>4. Begin \/ FeedByte \/ UNCHANGED reader
  <2>1. CASE Inputs
    BY <2>1 DEF Inputs, Midi, FeedClock, FeedTransport, DjLink, BoothChanges, Status, PlayerBeat,
                PushBeat, midi, reader
  <2>2. CASE UNCHANGED beatVars
    BY <2>2 DEF beatVars, inputVars, midi, reader
  <2>. QED BY <2>1, <2>2
       DEF BeatNext, Tick, BeginFrame, ConsoleTap, PumpBeat, EffectTap, Draw, inputVars, midi, reader
<1>. QED BY <1>1, <1>2, <1>3, <1>4

--------------------------------------------------------------------------------
(* DJ-Link.                                                                    *)

\* A booth no larger than the table of masters.
BoothFits == IsFiniteSet(setup.booth) /\ Cardinality(setup.booth) <= TableSize

\* Each device has one entry, and those heard of since the last change have
\* the right one.  Others may still be noted as master: departed ones.
EntryOf(p, i) == entries[i].player = p /\ entries[i].master = (master = p)

BoothInv ==
  /\ setup \in Setups
  /\ present \subseteq setup.booth /\ master \in present \cup {Nobody}
  /\ entries \in Seq([player : setup.booth, master : BOOLEAN])
  /\ \A i, j \in DOMAIN entries : entries[i].player = entries[j].player => i = j
  /\ \A p \in fresh : \E i \in DOMAIN entries : EntryOf(p, i)

LEMMA BoothInit == ClockInit => BoothInv
BY DEF ClockInit, InputsInit, BoothInv

\* A table without an entry for a device of the booth has a free one.
LEMMA SlotLeft ==
  ASSUME BoothInv, BoothFits, NEW p \in setup.booth,
         \A i \in DOMAIN entries : entries[i].player # p
  PROVE  Len(entries) < TableSize
<1>. DEFINE f == [i \in 1 .. Len(entries) |-> entries[i].player]
            others == setup.booth \ {p}
<1>1. Len(entries) \in Nat /\ DOMAIN entries = 1 .. Len(entries) /\ TableSize \in Nat
  BY InputsAssumption DEF BoothInv
<1>2. \A i \in 1 .. Len(entries) : entries[i].player \in others
  <2>. DEFINE E == [player : setup.booth, master : BOOLEAN]
  <2>1. \A x \in E : x.player \in setup.booth
    OBVIOUS
  <2>. HIDE DEF E
  <2>2. entries \in Seq(E)
    BY DEF BoothInv, E
  <2>. QED BY <1>1, <2>1, <2>2
<1>3. f \in Injection(1 .. Len(entries), others)
  BY <1>1, <1>2 DEF BoothInv, Injection, IsInjective
<1>4. IsFiniteSet(others) /\ Cardinality(others) = Cardinality(setup.booth) - 1
  BY FS_RemoveElement DEF BoothFits
<1>. HIDE DEF f, others
<1>5. Cardinality(1 .. Len(entries)) <= Cardinality(others)
  BY <1>3, <1>4, FS_Injection
<1>6. Cardinality(1 .. Len(entries)) = Len(entries)
  BY <1>1, FS_Interval
<1>7. Cardinality(setup.booth) \in Nat
  BY FS_CardinalityType DEF BoothFits
<1>. QED BY <1>1, <1>4, <1>5, <1>6, <1>7 DEF BoothFits

LEMMA StatusKeepsBooth ==
  ASSUME BoothInv, BoothFits, NEW p, Status(p)
  PROVE  BoothInv'
<1>. DEFINE mine == {i \in DOMAIN entries : entries[i].player = p}
            e == [player |-> p, master |-> master = p]
<1>1. /\ p \in setup.booth /\ setup' = setup /\ present' = present /\ master' = master
      /\ fresh' = fresh \cup {p}
      /\ e \in [player : setup.booth, master : BOOLEAN]
  BY DEF Status, BoothInv
<1>2. Len(entries) \in Nat /\ DOMAIN entries = 1 .. Len(entries)
  BY DEF BoothInv
<1>3. CASE mine # {}
  <2>1. entries' = [i \in DOMAIN entries |-> IF i \in mine THEN e ELSE entries[i]]
    BY <1>3 DEF Status, Update
  <2>2. DOMAIN entries' = DOMAIN entries
    BY <2>1
  <2>3. \A i \in DOMAIN entries : i \in mine => entries'[i] = e
    BY <2>1
  <2>4. \A i \in DOMAIN entries : i \notin mine => entries'[i] = entries[i]
    BY <2>1
  <2>5. \A i \in DOMAIN entries : entries'[i].player = entries[i].player
    BY <2>3, <2>4
  <2>6. entries' \in Seq([player : setup.booth, master : BOOLEAN])
    <3>. DEFINE E == [player : setup.booth, master : BOOLEAN]
    <3>1. entries \in Seq(E) /\ e \in E
      BY <1>1 DEF BoothInv
    <3>. HIDE DEF E, e, mine
    <3>2. entries' \in Seq(E)
      BY <1>2, <2>1, <3>1
    <3>. QED BY <1>1, <3>2 DEF E
  <2>7. \A q \in fresh' : \E i \in DOMAIN entries' : EntryOf(q, i)'
    <3>1. TAKE q \in fresh'
    <3>2. CASE q = p
      BY <1>1, <1>3, <2>2, <2>3, <3>2 DEF EntryOf
    <3>3. CASE q # p
      <4>1. PICK i \in DOMAIN entries : EntryOf(q, i)
        BY <1>1, <3>3 DEF BoothInv
      <4>. QED BY <1>1, <2>2, <2>4, <3>3, <4>1 DEF EntryOf
    <3>. QED BY <3>2, <3>3
  <2>. QED BY <1>1, <2>2, <2>5, <2>6, <2>7 DEF BoothInv
<1>4. CASE mine = {}
  <2>1. \A i \in DOMAIN entries : entries[i].player # p
    BY <1>4
  <2>2. entries' = Append(entries, e)
    BY <1>1, <1>4, <2>1, SlotLeft DEF Status, Update
  <2>3. /\ DOMAIN entries' = 1 .. Len(entries) + 1
        /\ entries'[Len(entries) + 1] = e
        /\ \A i \in DOMAIN entries : entries'[i] = entries[i]
        /\ entries' \in Seq([player : setup.booth, master : BOOLEAN])
    BY <1>1, <1>2, <2>2, AppendProperties DEF BoothInv
  <2>4. \A i, j \in DOMAIN entries' : entries'[i].player = entries'[j].player => i = j
    BY <1>2, <2>1, <2>3 DEF BoothInv
  <2>5. \A q \in fresh' : \E i \in DOMAIN entries' : EntryOf(q, i)'
    <3>1. TAKE q \in fresh'
    <3>2. CASE q = p
      BY <1>1, <1>2, <2>3, <3>2 DEF EntryOf
    <3>3. CASE q # p
      <4>1. PICK i \in DOMAIN entries : EntryOf(q, i)
        BY <1>1, <3>3 DEF BoothInv
      <4>. QED BY <1>1, <1>2, <2>3, <4>1 DEF EntryOf
    <3>. QED BY <3>2, <3>3
  <2>. QED BY <1>1, <2>3, <2>4, <2>5 DEF BoothInv
<1>. QED BY <1>3, <1>4

LEMMA ChangeKeepsBooth == ASSUME BoothInv, BoothChanges PROVE BoothInv'
<1>1. setup' = setup /\ entries' = entries /\ fresh' = {}
  BY DEF BoothChanges
<1>2. present' \subseteq setup.booth /\ master' \in present' \cup {Nobody}
  BY DEF BoothChanges, BoothInv
<1>. QED BY <1>1, <1>2 DEF BoothInv

LEMMA BoothNext == ASSUME BoothFits => BoothInv, [BeatNext]_beatVars PROVE (BoothFits => BoothInv)'
<1>1. (\E p \in Player : Status(p)) \/ BoothChanges \/ UNCHANGED <<setup, booth>>
  <2>1. CASE Inputs
    BY <2>1 DEF Inputs, Midi, Begin, FeedByte, FeedClock, FeedTransport, DjLink, PlayerBeat, PushBeat
  <2>2. CASE UNCHANGED beatVars
    BY <2>2 DEF beatVars, inputVars
  <2>. QED BY <2>1, <2>2
       DEF BeatNext, Tick, BeginFrame, ConsoleTap, PumpBeat, EffectTap, Draw, inputVars
<1>2. setup' = setup
  BY <1>1 DEF Status, BoothChanges
<1>. SUFFICES ASSUME BoothFits PROVE BoothInv'
  BY <1>2 DEF BoothFits
<1>3. CASE UNCHANGED <<setup, booth>>
  BY <1>3 DEF booth, BoothInv, EntryOf
<1>. QED BY <1>1, <1>3, StatusKeepsBooth, ChangeKeepsBooth

\* Of the players that were heard, the master's entry says so and the others'
\* do not.
LEMMA BoothFollows == BoothInv => MasterIsFollowed
<1>. SUFFICES ASSUME BoothInv, present \subseteq fresh, master # Nobody
              PROVE  {p \in present : ShouldAccept(p)} = {master}
  BY DEF MasterIsFollowed
<1>1. master \in present /\ present \subseteq Player
  BY InputsAssumption DEF BoothInv
<1>2. \A p \in present : IsKnownMaster(p) <=> p = master
  <2>1. TAKE p \in present
  <2>2. PICK i \in DOMAIN entries : EntryOf(p, i)
    BY DEF BoothInv
  <2>3. \A j \in DOMAIN entries : entries[j].player = p => j = i
    BY <2>2 DEF BoothInv, EntryOf
  <2>. QED BY <2>2, <2>3 DEF IsKnownMaster, EntryOf
<1>. QED BY <1>1, <1>2 DEF ShouldAccept

--------------------------------------------------------------------------------

(* A note is never cut, joined or misread, whatever clock, start and stop      *)
(* bytes come between its bytes and whatever messages precede it               *)
(* (midi_realtime.cpp).                                                        *)
THEOREM NotesStayWhole == BeatSpec => []NotesArriveWhole
<1>1. NotesInv => NotesArriveWhole
  BY DEF NotesInv
<1>. QED BY <1>1, NotesInit, NotesNext, PTL DEF BeatSpec

(* Over handovers, departures and returns of any number of players that the    *)
(* table can hold, the master is heard and no other one, once every player     *)
(* has repeated its status (djlink_master_tracker.cpp).  A larger booth would  *)
(* overwrite the first entry, which may be the master's.                       *)
THEOREM OneMasterIsHeard == BeatSpec => [](BoothFits => MasterIsFollowed)
<1>1. (BoothFits => BoothInv) => (BoothFits => MasterIsFollowed)
  BY BoothFollows
<1>. QED BY <1>1, BoothInit, BoothNext, PTL DEF BeatSpec

--------------------------------------------------------------------------------
(* The render loop.                                                            *)

\* The units of a system tick.
TickUnits == TickMillis * Milli

\* What the frame under way will add to the statistics.
Pending ==
  IF at \in {"render", "post", "sleep"}
  THEN [frames |-> 1, behind |-> IF pace.behind THEN 1 ELSE 0, dropped |-> pace.dropped]
  ELSE NoStats

Counted == Plus(Plus(told, stats), Pending)

Accounted(n, elapsed) ==
  /\ (n.frames + n.dropped + n.behind) * Period <= elapsed
  /\ elapsed <= (n.frames + n.dropped + 2 * n.behind) * Period

\* A deadline is ahead of the frames since the mark by less than one period, or,
\* set anew for a late frame, by a whole one.
Ahead ==
  /\ (mark.count - 1) * Period < deadline - mark.from
  /\ pace.behind => mark.count * Period <= deadline - mark.from

\* A frame is not far before its deadline when it ends: by the ticks cut off, or,
\* late, by the period it was given.
Punctual ==
  /\ pace.behind => deadline - Period <= time
  /\ at = "pace" /\ ~ pace.behind => deadline - 2 * TickUnits < time

LoopInv ==
  /\ LoopTypeOK
  /\ at \in {"off", "failed"} => deadline = 0
  /\ at \in {"render", "post", "sleep"} => deadline > 0
  /\ deadline = 0 => mark = [from |-> 0, count |-> 0] /\ Counted = NoStats /\ ~ pace.behind
  /\ deadline > 0 => Accounted(Counted, deadline - seed) /\ Ahead /\ Punctual
  /\ NoBurst

(* Products and quotients.                                                     *)
LEMMA LoopConstants ==
  /\ Period \in Nat /\ Period > 0
  /\ TickUnits \in Nat /\ TickUnits > 0
  /\ Milli \in Nat /\ Milli > 0
  /\ TickMillis \in Nat /\ TickMillis > 0
  /\ Horizon \in Nat
<1>1. /\ Period \in Nat /\ Period > 0
      /\ Milli \in Nat /\ Milli > 0
      /\ TickMillis \in Nat /\ TickMillis > 0
      /\ Horizon \in Nat
  BY LoopAssumption DEF LoopAssumption
<1>2. \A a, b \in Nat : a > 0 /\ b > 0 => a * b \in Nat /\ a * b > 0
  <2> SUFFICES ASSUME NEW a \in Nat, NEW b \in Nat, a > 0, b > 0
               PROVE  a * b \in Nat /\ a * b > 0
    OBVIOUS
  <2>1. \A c \in Nat : c * b \in Nat /\ (c + 1) * b = c * b + b
    OBVIOUS
  <2>2. a - 1 \in Nat /\ a = (a - 1) + 1
    OBVIOUS
  <2>3. PICK c \in Nat : c = a - 1
    BY <2>2
  <2> QED
    BY <2>1, <2>3
<1> QED
  BY <1>1, <1>2 DEF TickUnits

LEMMA QuotientBounds ==
  \A a \in Nat, b \in Nat \ {0} :
    a \div b \in Nat /\ (a \div b) * b <= a /\ a < (a \div b) * b + b
<1> SUFFICES ASSUME NEW a \in Nat, NEW b \in Nat \ {0}
             PROVE  a \div b \in Nat /\ (a \div b) * b <= a /\ a < (a \div b) * b + b
  OBVIOUS
<1>1. a = b * (a \div b) + (a % b) /\ a % b \in 0 .. b - 1 /\ a \div b \in Nat
  OBVIOUS
<1>2. PICK q \in Nat : q = a \div b
  BY <1>1
<1>3. b * q = q * b /\ q * b \in Nat
  OBVIOUS
<1> QED
  BY <1>1, <1>2, <1>3

LEMMA Distributes == \A a, b, p \in Int : (a + b) * p = a * p + b * p /\ (a - b) * p = a * p - b * p
OBVIOUS

LEMMA StrictProduct ==
  \A a, b \in Nat, p \in Nat \ {0} : a < b => a * p < b * p
<1> SUFFICES ASSUME NEW a \in Nat, NEW b \in Nat, NEW p \in Nat \ {0}, a < b
             PROVE  a * p < b * p
  OBVIOUS
<1>1. PICK c \in Nat : b = a + 1 + c
  <2>1. b - a - 1 \in Nat /\ b = a + 1 + (b - a - 1)
    OBVIOUS
  <2> QED
    BY <2>1
<1>2. b * p = a * p + p + c * p
  BY <1>1
<1>3. c * p \in Nat /\ a * p \in Nat
  OBVIOUS
<1> QED
  BY <1>2, <1>3

(* What a wait is short of is less than a tick, because of the cut off ticks. *)
LEMMA WaitInTicks ==
  \A d \in Nat, m, k \in Nat \ {0} :
    LET n == ((d + m - 1) \div m) \div k
    IN  n \in Nat /\ d < n * (k * m) + k * m
<1> SUFFICES ASSUME NEW d \in Nat, NEW m \in Nat \ {0}, NEW k \in Nat \ {0}
             PROVE  LET n == ((d + m - 1) \div m) \div k
                    IN  n \in Nat /\ d < n * (k * m) + k * m
  OBVIOUS
<1>1. d + m - 1 \in Nat
  OBVIOUS
<1>2. PICK c \in Nat : c = (d + m - 1) \div m /\ d + m - 1 < c * m + m
  BY <1>1, QuotientBounds
<1>3. PICK n \in Nat : n = c \div k /\ c < n * k + k
  BY QuotientBounds
<1>4. d <= c * m
  <2>1. c * m \in Nat
    OBVIOUS
  <2> QED
    BY <1>2, <2>1
<1>5. c * m < (n * k + k) * m
  <2>1. n * k \in Nat
    OBVIOUS
  <2>2. n * k + k \in Nat
    BY <2>1
  <2> QED
    BY <1>3, <2>2, StrictProduct
<1>6. (n * k + k) * m = n * (k * m) + k * m
  OBVIOUS
<1>7. n * (k * m) + k * m \in Nat /\ c * m \in Nat
  OBVIOUS
<1> QED
  BY <1>2, <1>3, <1>4, <1>5, <1>6, <1>7

--------------------------------------------------------------------------------
(* The steps.                                                                  *)

(* The task wakes at most two ticks before its deadline.                       *)
LEMMA WokenInTime ==
  ASSUME LoopTypeOK
  PROVE  /\ Woken \in Nat
         /\ pace.behind => Woken = time
         /\ ~ pace.behind => deadline - 2 * TickUnits < Woken
<1>1. time \in Nat /\ deadline \in Nat /\ pace.behind \in BOOLEAN
  BY DEF LoopTypeOK
<1>2. CASE ~ Sleeps
  <2>1. Woken = time
    BY <1>2 DEF Woken
  <2>2. pace.behind \/ deadline <= time
    BY <1>1, <1>2 DEF Sleeps
  <2> QED
    BY <1>1, <2>1, <2>2, LoopConstants
<1>3. CASE Sleeps
  <2>1. ~ pace.behind /\ deadline > time
    BY <1>3 DEF Sleeps
  <2>2. PICK d \in Nat : d = deadline - time
    BY <1>1, <2>1
  <2>3. Ticks \in Nat /\ d < Ticks * TickUnits + TickUnits
    <3>1. Ticks = ((d + Milli - 1) \div Milli) \div TickMillis
      BY <2>2 DEF Ticks
    <3>2. Milli \in Nat \ {0} /\ TickMillis \in Nat \ {0}
      BY LoopConstants
    <3>3. LET n == ((d + Milli - 1) \div Milli) \div TickMillis
          IN  n \in Nat /\ d < n * (TickMillis * Milli) + TickMillis * Milli
      BY <3>2, WaitInTicks
    <3> QED
      BY <3>1, <3>3 DEF TickUnits
  <2>4. PICK n \in Nat : n = Ticks
    BY <2>3
  <2>5. TickUnits \in Nat \ {0}
    BY LoopConstants
  <2>6. PICK s \in Nat : s = time \div TickUnits /\ time < s * TickUnits + TickUnits
    BY <1>1, <2>5, QuotientBounds
  <2>7. Woken = IF n > 0 THEN (s + n) * TickUnits ELSE time
    BY <1>3, <2>4, <2>6 DEF Woken, TickUnits
  <2>8. /\ (s + n) * TickUnits = s * TickUnits + n * TickUnits
        /\ {s * TickUnits, n * TickUnits} \subseteq Nat
        /\ n = 0 => n * TickUnits = 0
    BY <2>5
  <2> QED
    BY <1>1, <2>1, <2>2, <2>3, <2>4, <2>5, <2>6, <2>7, <2>8
<1> QED
  BY <1>2, <1>3

(* What the fields hold, spelt out for the arithmetic.                         *)
LEMMA LoopFields ==
  ASSUME LoopTypeOK
  PROVE  /\ time \in Nat /\ deadline \in Nat /\ seed \in Nat
         /\ mark.from \in Nat /\ mark.count \in Nat
         /\ pace.behind \in BOOLEAN /\ pace.dropped \in Nat
         /\ stats \in [frames : Nat, behind : Nat, dropped : Nat]
         /\ told \in [frames : Nat, behind : Nat, dropped : Nat]
BY DEF LoopTypeOK

LEMMA CountsAdd ==
  \A s, t \in [frames : Nat, behind : Nat, dropped : Nat] :
    /\ Plus(s, t) \in [frames : Nat, behind : Nat, dropped : Nat]
    /\ Plus(s, t).frames = s.frames + t.frames
    /\ Plus(s, t).behind = s.behind + t.behind
    /\ Plus(s, t).dropped = s.dropped + t.dropped
    /\ Plus(s, NoStats) = s
BY DEF Plus, NoStats

LEMMA CountsAssociate ==
  \A s, t, u \in [frames : Nat, behind : Nat, dropped : Nat] :
    Plus(Plus(s, t), u) = Plus(s, Plus(t, u))
BY DEF Plus

(* A frame accounts for what it adds to the deadline.                          *)
LEMMA FrameAccounts ==
  ASSUME NEW n \in [frames : Nat, behind : Nat, dropped : Nat],
         NEW e \in Nat, NEW late \in BOOLEAN, NEW d \in Nat, NEW more \in Nat,
         Accounted(n, e),
         ~ late => d = 0 /\ more = Period,
         late => (d + 2) * Period <= more /\ more <= (d + 3) * Period
  PROVE  Accounted(Plus(n, [frames |-> 1, behind |-> IF late THEN 1 ELSE 0, dropped |-> d]), e + more)
<1> DEFINE one == [frames |-> 1, behind |-> IF late THEN 1 ELSE 0, dropped |-> d]
<1>1. one \in [frames : Nat, behind : Nat, dropped : Nat]
  BY DEF one
<1>2. PICK f \in Nat, b \in Nat, k \in Nat : f = n.frames /\ b = n.behind /\ k = n.dropped
  OBVIOUS
<1>3. /\ Plus(n, one).frames = f + 1
      /\ Plus(n, one).behind = b + (IF late THEN 1 ELSE 0)
      /\ Plus(n, one).dropped = k + d
  BY <1>1, <1>2, CountsAdd DEF one
<1>4. PICK low \in Nat, high \in Nat : low = f + k + b /\ high = f + k + 2 * b
  BY <1>2
<1>5. low * Period <= e /\ e <= high * Period
  BY <1>2, <1>4 DEF Accounted
<1>6. Period \in Nat
  BY LoopConstants
<1> HIDE DEF one
<1>7. CASE ~ late
  <2>1. /\ Plus(n, one).frames + Plus(n, one).dropped + Plus(n, one).behind = low + 1
        /\ Plus(n, one).frames + Plus(n, one).dropped + 2 * Plus(n, one).behind = high + 1
    BY <1>3, <1>4, <1>7
  <2>2. (low + 1) * Period = low * Period + Period /\ (high + 1) * Period = high * Period + Period
    BY <1>6
  <2>3. {low * Period, high * Period} \subseteq Nat
    BY <1>6
  <2>4. (low + 1) * Period <= e + more /\ e + more <= (high + 1) * Period
    BY <1>5, <1>6, <1>7, <2>2, <2>3
  <2> QED
    BY <2>1, <2>4 DEF Accounted, one
<1>8. CASE late
  <2>1. /\ Plus(n, one).frames + Plus(n, one).dropped + Plus(n, one).behind = low + (d + 2)
        /\ Plus(n, one).frames + Plus(n, one).dropped + 2 * Plus(n, one).behind = high + (d + 3)
    BY <1>3, <1>4, <1>8
  <2>2. /\ (low + (d + 2)) * Period = low * Period + (d + 2) * Period
        /\ (high + (d + 3)) * Period = high * Period + (d + 3) * Period
    BY <1>6, Distributes
  <2>3. {low * Period, high * Period, (d + 2) * Period, (d + 3) * Period} \subseteq Nat
    BY <1>6
  <2>4. (low + (d + 2)) * Period <= e + more /\ e + more <= (high + (d + 3)) * Period
    BY <1>5, <1>6, <1>8, <2>2, <2>3
  <2> QED
    BY <2>1, <2>4 DEF Accounted, one
<1> QED
  BY <1>7, <1>8 DEF one

(* The next deadline, and the periods dropped on the way to it.                *)
LEMMA NextDeadlineIs ==
  ASSUME LoopTypeOK
  PROVE  /\ Base \in Nat /\ Base = (IF deadline = 0 THEN time ELSE deadline)
         /\ Behind \in BOOLEAN /\ NextDeadline \in Nat /\ Dropped \in Nat
         /\ ~ Behind => time < Base + Period /\ NextDeadline = Base + Period /\ Dropped = 0
         /\ Behind => /\ Base + Period <= time
                      /\ NextDeadline = time + Period
                      /\ (Dropped + 2) * Period <= NextDeadline - Base
                      /\ NextDeadline - Base <= (Dropped + 3) * Period
<1>1. time \in Nat /\ deadline \in Nat
  BY LoopFields
<1>2. PICK b \in Nat : b = Base /\ b = (IF deadline = 0 THEN time ELSE deadline)
  BY <1>1 DEF Base
<1>3. Period \in Nat \ {0}
  BY LoopConstants
<1>4. Behind <=> time >= b + Period
  BY <1>2 DEF Behind
<1>5. CASE ~ Behind
  <2>1. NextDeadline = b + Period /\ Dropped = 0 /\ time < b + Period
    BY <1>1, <1>2, <1>3, <1>4, <1>5 DEF NextDeadline, Dropped
  <2> QED
    BY <1>2, <1>3, <1>5, <2>1 DEF Behind
<1>6. CASE Behind
  <2>1. PICK e \in Nat : e = time - b /\ e >= Period
    BY <1>1, <1>3, <1>4, <1>6
  <2>2. PICK q \in Nat : q = e \div Period /\ q * Period <= e /\ e < q * Period + Period
    BY <1>3, QuotientBounds
  <2>3. q >= 1
    <3>1. q = 0 => q * Period = 0
      BY <1>3
    <3> QED
      BY <1>3, <2>1, <2>2, <3>1
  <2>4. Dropped = q - 1
    BY <1>2, <1>6, <2>1, <2>2, <2>3 DEF Dropped, Most
  <2>5. PICK d \in Nat : d = Dropped /\ q = d + 1
    BY <2>3, <2>4
  <2>6. /\ (d + 2) * Period = q * Period + Period
        /\ (d + 3) * Period = q * Period + 2 * Period
        /\ q * Period \in Nat
    BY <1>3, <2>5
  <2>7. NextDeadline = time + Period /\ NextDeadline \in Nat
    BY <1>1, <1>3, <1>6 DEF NextDeadline
  <2>8. NextDeadline - b = e + Period
    BY <1>1, <1>3, <2>1, <2>7
  <2>9. (d + 2) * Period <= e + Period /\ e + Period <= (d + 3) * Period
    BY <1>3, <2>2, <2>6
  <2> QED
    BY <1>1, <1>2, <1>4, <1>6, <2>5, <2>7, <2>8, <2>9
<1> QED
  BY <1>5, <1>6 DEF Behind

LEMMA LoopStarts == LoopInit => LoopInv
<1> SUFFICES ASSUME LoopInit PROVE LoopInv
  OBVIOUS
<1> USE DEF LoopInit
<1>1. LoopTypeOK
  <2>1. TickMillis * Milli \in Nat
    BY LoopConstants
  <2>2. time \in Nat
    BY <2>1
  <2> QED
    BY <2>2 DEF LoopTypeOK, NoStats
<1>2. Counted = NoStats
  BY DEF Counted, Pending, Plus, NoStats
<1> QED
  BY <1>1, <1>2 DEF LoopInv, NoBurst

(* A frame that begins.                                                        *)
LEMMA PaceKeepsLoopInv ==
  ASSUME LoopInv, Pace
  PROVE  LoopInv'
<1> DEFINE S == [frames : Nat, behind : Nat, dropped : Nat]
<1>1. LoopTypeOK
  BY DEF LoopInv
<1>2. /\ at' = "render" /\ at = "pace"
      /\ pace' = [behind |-> Behind, dropped |-> Dropped]
      /\ deadline' = NextDeadline
      /\ seed' = IF deadline = 0 THEN time ELSE seed
      /\ mark' \in {[mark EXCEPT !.count = @ + 1], [from |-> time, count |-> 1]}
      /\ time' = time /\ stats' = stats /\ luaReady' = luaReady /\ told' = told
  BY DEF Pace
<1>3. PICK t \in Nat, e \in Nat, b \in Nat, n \in Nat :
        /\ t = time /\ e = deadline /\ b = Base /\ n = NextDeadline
        /\ b = (IF e = 0 THEN t ELSE e)
  BY <1>1, LoopFields, NextDeadlineIs
<1>4. PICK late \in BOOLEAN, d \in Nat : late = Behind /\ d = Dropped
  BY <1>1, NextDeadlineIs
<1>5. /\ ~ late => t < b + Period /\ n = b + Period /\ d = 0
      /\ late => b + Period <= t /\ n = t + Period
      /\ late => (d + 2) * Period <= n - b /\ n - b <= (d + 3) * Period
  BY <1>1, <1>3, <1>4, NextDeadlineIs
<1>6. PICK f \in Nat, c \in Nat : f = mark.from /\ c = mark.count
  BY <1>1, LoopFields
<1>7. PICK f2 \in Nat, c2 \in Nat :
        /\ f2 = mark'.from /\ c2 = mark'.count
        /\ (f2 = f /\ c2 = c + 1) \/ (f2 = t /\ c2 = 1)
  BY <1>1, <1>2, <1>3, <1>6 DEF LoopTypeOK
<1>8. Period \in Nat /\ Period > 0 /\ TickUnits \in Nat /\ TickUnits > 0
  BY LoopConstants
<1>9. n > 0 /\ pace'.behind = late /\ pace'.dropped = d
  BY <1>2, <1>3, <1>4, <1>5, <1>8
<1>10. LoopTypeOK'
  <2>1. {time', deadline', seed'} \subseteq Nat
    BY <1>1, <1>2, <1>3, LoopFields
  <2>2. mark' \in [from : Nat, count : Nat] /\ pace' \in [behind : BOOLEAN, dropped : Nat]
    BY <1>1, <1>2, <1>3, <1>4 DEF LoopTypeOK
  <2> QED
    BY <1>1, <1>2, <2>1, <2>2 DEF LoopTypeOK
<1>11. Accounted(Counted, deadline - seed)'
  <2>1. told \in S /\ stats \in S /\ NoStats \in S
    BY <1>1, LoopFields DEF NoStats
  <2>2. PICK all \in S : all = Plus(told, stats) /\ all = Plus(all, NoStats)
    BY <2>1, CountsAdd
  <2>3. Counted = all
    BY <1>2, <2>2 DEF Counted, Pending
  <2>4. Counted' = Plus(all, [frames |-> 1, behind |-> IF late THEN 1 ELSE 0, dropped |-> d])
    BY <1>2, <1>9, <2>2 DEF Counted, Pending
  <2>5. PICK s \in Nat, s2 \in Nat : s = seed /\ s2 = seed' /\ s2 = (IF e = 0 THEN t ELSE s)
    BY <1>1, <1>2, <1>3, LoopFields
  <2>6. b - s2 \in Nat /\ Accounted(all, b - s2)
    <3>1. CASE e = 0
      <4>1. b - s2 = 0 /\ all = NoStats
        BY <1>3, <2>3, <2>5, <3>1 DEF LoopInv
      <4> QED
        BY <1>8, <4>1 DEF Accounted, NoStats
    <3>2. CASE e # 0
      <4>1. Accounted(all, e - s) /\ b = e /\ s2 = s
        BY <1>3, <2>3, <2>5, <3>2 DEF LoopInv
      <4>2. (all.frames + all.dropped + all.behind) * Period <= e - s
        BY <4>1 DEF Accounted
      <4>3. (all.frames + all.dropped + all.behind) * Period \in Nat
        BY <1>8
      <4>4. e - s \in Nat
        BY <4>2, <4>3
      <4> QED
        BY <4>1, <4>4
    <3> QED
      BY <3>1, <3>2
  <2>7. PICK g \in Nat : g = b - s2
    BY <2>6
  <2>8. PICK more \in Nat : more = n - b
    <3>1. CASE late
      BY <1>3, <1>5, <1>8, <3>1
    <3>2. CASE ~ late
      BY <1>3, <1>5, <1>8, <3>2
    <3> QED
      BY <3>1, <3>2
  <2>9. Accounted(Plus(all, [frames |-> 1, behind |-> IF late THEN 1 ELSE 0, dropped |-> d]), g + more)
    <3>1. ~ late => d = 0 /\ more = Period
      BY <1>5, <1>8, <2>8
    <3>2. late => (d + 2) * Period <= more /\ more <= (d + 3) * Period
      BY <1>5, <2>8
    <3> QED
      BY <2>6, <2>7, <3>1, <3>2, FrameAccounts
  <2>10. g + more = deadline' - seed'
    BY <1>2, <1>3, <2>5, <2>7, <2>8
  <2> QED
    BY <2>4, <2>9, <2>10 DEF Accounted
<1>12. PICK all_ \in Int, per \in Int : all_ = c * Period /\ per = (c - 1) * Period /\ all_ = per + Period
  BY <1>8
<1>13. /\ e = 0 => c = 0 /\ f = 0 /\ ~ pace.behind
       /\ e > 0 => per < e - f
       /\ e > 0 /\ pace.behind => all_ <= e - f /\ e - Period <= t
       /\ e > 0 /\ ~ pace.behind => e - 2 * TickUnits < t
  BY <1>2, <1>3, <1>6, <1>12 DEF LoopInv, Ahead, Punctual
<1>14. /\ f2 = f /\ c2 = c + 1 => (c2 - 1) * Period = all_ /\ c2 * Period = all_ + Period
       /\ c2 = 1 => (c2 - 1) * Period = 0 /\ c2 * Period = Period
       /\ c = 0 => all_ = 0
  BY <1>8, <1>12
<1>15. (c2 - 1) * Period < n - f2 /\ (late => c2 * Period <= n - f2)
  <2>1. CASE f2 = f /\ c2 = c + 1
    <3>1. (c2 - 1) * Period = all_ /\ c2 * Period = all_ + Period
      BY <1>14, <2>1
    <3>2. all_ < b + Period - f
      BY <1>3, <1>8, <1>12, <1>13, <1>14
    <3>3. CASE late
      BY <1>3, <1>5, <1>8, <2>1, <3>1, <3>2, <3>3
    <3>4. CASE ~ late
      BY <1>3, <1>5, <1>8, <2>1, <3>1, <3>2, <3>4
    <3> QED
      BY <3>3, <3>4
  <2>2. CASE f2 = t /\ c2 = 1
    BY <1>3, <1>5, <1>7, <1>8, <1>14, <2>2
  <2> QED
    BY <1>7, <2>1, <2>2
<1>16. Ahead' /\ Punctual'
  <2>1. Ahead'
    BY <1>2, <1>3, <1>7, <1>9, <1>15 DEF Ahead
  <2>2. late => n - Period <= t
    BY <1>3, <1>5, <1>8
  <2>3. Punctual'
    BY <1>2, <1>3, <1>9, <2>2 DEF Punctual
  <2> QED
    BY <2>1, <2>3
<1>17. (c2 - 1) * Period < t - f2 + Period + 2 * TickUnits
  <2>1. CASE f2 = f /\ c2 = c + 1
    <3>1. (c2 - 1) * Period = all_ /\ pace.behind \in BOOLEAN
      BY <1>1, <1>14, <2>1, LoopFields
    <3>2. CASE e = 0
      BY <1>3, <1>8, <1>13, <1>14, <2>1, <3>1, <3>2
    <3>3. CASE e > 0 /\ pace.behind
      BY <1>3, <1>8, <1>13, <2>1, <3>1, <3>3
    <3>4. CASE e > 0 /\ ~ pace.behind
      BY <1>3, <1>8, <1>12, <1>13, <2>1, <3>1, <3>4
    <3> QED
      BY <3>1, <3>2, <3>3, <3>4
  <2>2. CASE f2 = t /\ c2 = 1
    BY <1>7, <1>8, <1>14, <2>2
  <2> QED
    BY <1>7, <2>1, <2>2
<1>18. NoBurst'
  <2>1. PICK u \in Nat : u = TickUnits /\ u = TickMillis * Milli
    BY <1>8 DEF TickUnits
  <2>2. 2 * TickMillis * Milli = 2 * u
    BY <2>1, LoopConstants
  <2> QED
    BY <1>2, <1>3, <1>7, <1>17, <2>1, <2>2 DEF NoBurst
<1> QED
  BY <1>2, <1>3, <1>9, <1>10, <1>11, <1>16, <1>18 DEF LoopInv

LEMMA StartKeepsLoopInv == ASSUME LoopInv, StartLoop PROVE LoopInv'
<1>1. /\ at = "off" /\ at' \in {"pace", "failed"}
      /\ UNCHANGED <<time, deadline, pace, stats, luaReady, told, seed, mark>>
  BY DEF StartLoop
<1>2. LoopTypeOK'
  BY <1>1 DEF LoopInv, LoopTypeOK
<1>3. Counted' = Counted
  BY <1>1 DEF Counted, Pending
<1>4. deadline' = 0 /\ ~ (deadline' > 0)
  BY <1>1 DEF LoopInv
<1> QED
  BY <1>1, <1>2, <1>3, <1>4 DEF LoopInv, NoBurst

(* Work that takes time.                                                       *)
LEMMA RenderKeepsLoopInv == ASSUME LoopInv, Render PROVE LoopInv'
<1>1. /\ at = "render" /\ at' = "post"
      /\ time' \in time .. Horizon
      /\ UNCHANGED <<deadline, pace, stats, luaReady, told, seed, mark>>
  BY DEF Render
<1>2. time \in Nat /\ deadline \in Nat /\ Horizon \in Nat /\ Period \in Nat
  BY LoopFields, LoopConstants DEF LoopInv
<1>3. time' \in Nat /\ time <= time'
  BY <1>1, <1>2
<1>4. LoopTypeOK'
  BY <1>1, <1>3 DEF LoopInv, LoopTypeOK
<1>5. Counted' = Counted
  BY <1>1 DEF Counted, Pending
<1>6. deadline > 0 => Accounted(Counted, deadline - seed)' /\ Ahead'
  BY <1>1, <1>5 DEF LoopInv, Accounted, Ahead
<1>7. deadline > 0 => Punctual'
  BY <1>1, <1>2, <1>3 DEF LoopInv, Punctual
<1> QED
  BY <1>1, <1>4, <1>5, <1>6, <1>7 DEF LoopInv, NoBurst

LEMMA PostRenderKeepsLoopInv == ASSUME LoopInv, PostRender PROVE LoopInv'
<1> DEFINE S == [frames : Nat, behind : Nat, dropped : Nat]
<1>1. /\ at = "post" /\ at' = "sleep"
      /\ (stats' = stats /\ told' = told) \/ (stats' = NoStats /\ told' = Plus(told, stats))
      /\ time' \in time + (IF luaReady THEN Slack ELSE 0) .. Horizon
      /\ UNCHANGED <<deadline, pace, luaReady, seed, mark>>
  BY DEF PostRender
<1>2. /\ time \in Nat /\ deadline \in Nat /\ Horizon \in Nat /\ Period \in Nat
      /\ stats \in S /\ told \in S /\ NoStats \in S
  BY LoopFields, LoopConstants DEF LoopInv, NoStats
<1>3. Slack \in Nat
  BY <1>2 DEF Slack, Most
<1>4. time' \in Nat /\ time <= time'
  BY <1>1, <1>2, <1>3
<1>5. stats' \in S /\ told' \in S /\ Plus(told', stats') = Plus(told, stats)
  <2>1. Plus(told, stats) \in S /\ Plus(Plus(told, stats), NoStats) = Plus(told, stats)
    BY <1>2, CountsAdd
  <2> QED
    BY <1>1, <1>2, <2>1
<1>6. LoopTypeOK'
  BY <1>1, <1>4, <1>5 DEF LoopInv, LoopTypeOK
<1>7. Counted' = Counted
  BY <1>1, <1>5 DEF Counted, Pending
<1>8. deadline > 0 => Accounted(Counted, deadline - seed)' /\ Ahead'
  BY <1>1, <1>7 DEF LoopInv, Accounted, Ahead
<1>9. deadline > 0 => Punctual'
  BY <1>1, <1>2, <1>4 DEF LoopInv, Punctual
<1> QED
  BY <1>1, <1>6, <1>7, <1>8, <1>9 DEF LoopInv, NoBurst

(* A frame that ends, and is counted.                                          *)
LEMMA SleepKeepsLoopInv == ASSUME LoopInv, Sleep PROVE LoopInv'
<1> DEFINE S == [frames : Nat, behind : Nat, dropped : Nat]
           one == [frames |-> 1, behind |-> IF pace.behind THEN 1 ELSE 0, dropped |-> pace.dropped]
<1>1. /\ at = "sleep" /\ at' = "pace"
      /\ time' \in Woken .. Horizon
      /\ stats' = Plus(stats, one)
      /\ UNCHANGED <<deadline, pace, luaReady, told, seed, mark>>
  BY DEF Sleep
<1>2. /\ time \in Nat /\ deadline \in Nat /\ Horizon \in Nat /\ Period \in Nat
      /\ stats \in S /\ told \in S /\ pace.behind \in BOOLEAN /\ pace.dropped \in Nat
  BY LoopFields, LoopConstants DEF LoopInv
<1>3. one \in S /\ NoStats \in S
  BY <1>2 DEF NoStats
<1> HIDE DEF one
<1>4. /\ Woken \in Nat
      /\ pace.behind => Woken = time
      /\ ~ pace.behind => deadline - 2 * TickUnits < Woken
  BY WokenInTime DEF LoopInv
<1>5. time' \in Nat /\ Woken <= time'
  BY <1>1, <1>2, <1>4
<1>6. stats' \in S
  BY <1>1, <1>2, <1>3, CountsAdd
<1>7. LoopTypeOK'
  BY <1>1, <1>5, <1>6 DEF LoopInv, LoopTypeOK
<1>8. Counted' = Counted
  <2>1. Counted = Plus(Plus(told, stats), one)
    BY <1>1 DEF Counted, Pending, one
  <2>2. Plus(told, Plus(stats, one)) \in S
    BY <1>2, <1>3, CountsAdd
  <2>3. Counted' = Plus(told, Plus(stats, one))
    BY <1>1, <2>2, CountsAdd DEF Counted, Pending
  <2> QED
    BY <1>2, <1>3, <2>1, <2>3, CountsAssociate
<1>9. deadline > 0 => Accounted(Counted, deadline - seed)' /\ Ahead'
  BY <1>1, <1>8 DEF LoopInv, Accounted, Ahead
<1>10. deadline > 0 => Punctual'
  <2>1. TickUnits \in Nat
    BY LoopConstants
  <2>2. pace.behind => deadline - Period <= time'
    BY <1>1, <1>2, <1>4, <1>5 DEF LoopInv, Punctual
  <2>3. ~ pace.behind => deadline - 2 * TickUnits < time'
    BY <1>2, <1>4, <1>5, <2>1
  <2> QED
    BY <1>1, <2>2, <2>3 DEF Punctual
<1> QED
  BY <1>1, <1>7, <1>8, <1>9, <1>10 DEF LoopInv, NoBurst

LEMMA LoopInvariant == LoopSpec => []LoopInv
<1>1. LoopInit => LoopInv
  BY LoopStarts
<1>2. LoopInv /\ [LoopNext]_loopVars => LoopInv'
  <2> SUFFICES ASSUME LoopInv, [LoopNext]_loopVars PROVE LoopInv'
    OBVIOUS
  <2>1. CASE StartLoop
    BY <2>1, StartKeepsLoopInv
  <2>2. CASE Pace
    BY <2>2, PaceKeepsLoopInv
  <2>3. CASE Render
    BY <2>3, RenderKeepsLoopInv
  <2>4. CASE PostRender
    BY <2>4, PostRenderKeepsLoopInv
  <2>5. CASE Sleep
    BY <2>5, SleepKeepsLoopInv
  <2>6. CASE UNCHANGED loopVars
    BY <2>6 DEF loopVars, LoopInv, LoopTypeOK, Counted, Pending, Accounted, Ahead, Punctual, NoBurst
  <2> QED
    BY <2>1, <2>2, <2>3, <2>4, <2>5, <2>6 DEF LoopNext
<1> QED
  BY <1>1, <1>2, PTL DEF LoopSpec

(* A frame that overran, however long and however often, is never made up for  *)
(* by a burst (paceNextFrame, render_pacing.cpp), for any period, any length   *)
(* of a system tick, and work and sleeps that take as long as they like.       *)
THEOREM BurstsNever == LoopSpec => []NoBurst
<1>1. LoopInv => NoBurst
  BY DEF LoopInv
<1> QED
  BY <1>1, LoopInvariant, PTL

(* The statistics account for every period up to the deadline, over any number *)
(* of reports and resets (render_task_get_and_reset_stats): it had its frame,  *)
(* was dropped, or passed because of a late frame.                             *)
THEOREM StatisticsAddUp == LoopSpec => []TimeIsAccounted
<1>1. LoopInv => TimeIsAccounted
  <2> SUFFICES ASSUME LoopInv, at = "pace", deadline > 0
               PROVE  Accounted(Plus(told, stats), deadline - seed)
    BY DEF TimeIsAccounted, Accounted
  <2>1. Counted = Plus(told, stats)
    <3>1. /\ stats \in [frames : Nat, behind : Nat, dropped : Nat]
          /\ told \in [frames : Nat, behind : Nat, dropped : Nat]
      BY LoopFields DEF LoopInv
    <3>2. /\ Plus(told, stats) \in [frames : Nat, behind : Nat, dropped : Nat]
          /\ Plus(Plus(told, stats), NoStats) = Plus(told, stats)
      BY <3>1, CountsAdd
    <3> QED
      BY <3>2 DEF Counted, Pending
  <2> QED
    BY <2>1 DEF LoopInv
<1> QED
  BY <1>1, LoopInvariant, PTL

--------------------------------------------------------------------------------
(* The USB port.                                                               *)

News == [event : {"new", "gone"}, address : Nat \ {0}]

Addresses == 1 .. Len(kinds)

Transfer == [to : Nat \ {0}, blob : Nat \ {0}, pos : Nat, state : {"flying", "back"}]

(* What becomes of a transfer.                                                 *)
LEMMA TransfersGoOn ==
  ASSUME NEW t \in Transfer
  PROVE  /\ Back(t) = [to |-> t.to, blob |-> t.blob, pos |-> t.pos, state |-> "back"]
         /\ Onward(t) = [to |-> t.to, blob |-> IF t.pos + 3 < profile[t.blob] THEN t.blob ELSE t.blob + 1,
                         pos |-> IF t.pos + 3 < profile[t.blob] THEN t.pos + 3 ELSE 0,
                         state |-> IF t.pos + 3 < profile[t.blob] THEN t.state
                                   ELSE IF t.blob = Len(profile) THEN "back" ELSE "flying"]
         /\ Back(t) \in Transfer /\ Back(t).to = t.to /\ Back(t).state = "back"
         /\ Back(t).blob = t.blob /\ Back(t).pos = t.pos
         /\ Onward(t) \in Transfer /\ Onward(t).to = t.to
<1>1. t = [to |-> t.to, blob |-> t.blob, pos |-> t.pos, state |-> t.state]
  BY DEF Transfer
<1>2. Back(t) = [to |-> t.to, blob |-> t.blob, pos |-> t.pos, state |-> "back"]
  BY <1>1 DEF Back
<1>3. CASE t.pos + 3 < profile[t.blob]
  <2>1. Onward(t) = [t EXCEPT !.pos = t.pos + 3]
    BY <1>3 DEF Onward
  <2>2. Onward(t) = [to |-> t.to, blob |-> t.blob, pos |-> t.pos + 3, state |-> t.state]
    BY <1>1, <2>1
  <2> QED
    BY <1>2, <1>3, <2>2 DEF Transfer
<1>4. CASE ~ (t.pos + 3 < profile[t.blob])
  <2> DEFINE s == IF t.blob = Len(profile) THEN "back" ELSE "flying"
  <2>1. Onward(t) = [t EXCEPT !.blob = t.blob + 1, !.pos = 0, !.state = s]
    BY <1>4 DEF Onward
  <2>2. Onward(t) = [to |-> t.to, blob |-> t.blob + 1, pos |-> 0, state |-> s]
    BY <1>1, <2>1
  <2> QED
    BY <1>2, <1>4, <2>2 DEF Transfer
<1> QED
  BY <1>3, <1>4

\* Devices are counted from 1, and one that was reported as gone is not there.
UsbWorld ==
  /\ kinds \in Seq(Kind)
  /\ plugged \subseteq Addresses
  /\ device \in Addresses \cup {0}
  /\ news \in Seq(News)
  /\ \A i \in DOMAIN news :
       /\ news[i].address \in Addresses
       /\ news[i].event = "gone" => news[i].address \notin plugged
  /\ \A t \in outbound : t \in Transfer

UsbInv == UsbWorld /\ NothingLeaks

(* What the head of the news says, and what is left of them.                   *)
LEMMA NewsAreTaken ==
  ASSUME UsbInv, NEW event \in {"new", "gone"}, Delivered(event)
  PROVE  /\ Head(news).address \in Addresses
         /\ Head(news).event = event
         /\ event = "gone" => Head(news).address \notin plugged
         /\ inbound \notin {"done", "reading", "failed", "gone"}
         /\ news' \in Seq(News)
         /\ kinds' = kinds /\ plugged' = plugged =>
              \A i \in DOMAIN news' :
                /\ news'[i].address \in Addresses'
                /\ news'[i].event = "gone" => news'[i].address \notin plugged'
<1>1. news \in Seq(News) /\ news # <<>> /\ news' = Tail(news) /\ Head(news).event = event
  BY DEF Delivered, UsbInv, UsbWorld
<1>2. 1 \in DOMAIN news /\ Head(news) = news[1]
  BY <1>1
<1>3. /\ Tail(news) \in Seq(News)
      /\ \A i \in DOMAIN Tail(news) : i + 1 \in DOMAIN news /\ Tail(news)[i] = news[i + 1]
  BY <1>1
<1> QED
  BY <1>1, <1>2, <1>3 DEF Delivered, UsbInv, UsbWorld, Addresses

(* A message that is added, or lost.                                           *)
LEMMA NewsAreAdded ==
  ASSUME UsbInv, NEW m \in News, Notify(m)
  PROVE  /\ news' \in Seq(News)
         /\ \A i \in DOMAIN news' : news'[i] = m \/ (i \in DOMAIN news /\ news'[i] = news[i])
<1>1. news \in Seq(News)
  BY DEF UsbInv, UsbWorld
<1>2. news' = Append(news, m) \/ news' = news
  BY DEF Notify
<1> QED
  BY <1>1, <1>2

LEMMA PlugKeepsUsbInv == ASSUME UsbInv, NEW k \in Kind, Plug(k) PROVE UsbInv'
<1> DEFINE a == Len(kinds) + 1
           m == [event |-> "new", address |-> a]
<1>1. /\ kinds' = Append(kinds, k)
      /\ plugged' = plugged \cup {a}
      /\ Notify(m)
      /\ UNCHANGED <<driver, device, inbound, batch, outbound, profile, pushed, opened, claimed, played>>
  BY DEF Plug, driverVars
<1>2. kinds \in Seq(Kind) /\ Len(kinds) \in Nat
  BY DEF UsbInv, UsbWorld
<1>3. kinds' \in Seq(Kind) /\ Len(kinds') = a /\ a \in Addresses' /\ Addresses \subseteq Addresses' /\ a \notin Addresses
  BY <1>1, <1>2 DEF Addresses
<1>4. m \in News
  BY <1>2 DEF News
<1>5. /\ news' \in Seq(News)
      /\ \A i \in DOMAIN news' : news'[i] = m \/ (i \in DOMAIN news /\ news'[i] = news[i])
  BY <1>1, <1>4, NewsAreAdded
<1>6. plugged' \subseteq Addresses' /\ device' \in Addresses' \cup {0}
  BY <1>1, <1>3 DEF UsbInv, UsbWorld
<1>7. \A i \in DOMAIN news' :
        /\ news'[i].address \in Addresses'
        /\ news'[i].event = "gone" => news'[i].address \notin plugged'
  BY <1>1, <1>3, <1>5 DEF UsbInv, UsbWorld
<1>8. NothingLeaks'
  BY <1>1 DEF UsbInv, NothingLeaks
<1> QED
  BY <1>1, <1>3, <1>5, <1>6, <1>7, <1>8 DEF UsbInv, UsbWorld

LEMMA UnplugKeepsUsbInv == ASSUME UsbInv, NEW a \in plugged, Unplug(a) PROVE UsbInv'
<1> DEFINE m == [event |-> "gone", address |-> a]
<1>1. /\ plugged' = plugged \ {a}
      /\ inbound' = IF a = device /\ inbound = "flying" THEN "gone" ELSE inbound
      /\ outbound' = {IF t.to = a THEN Back(t) ELSE t : t \in outbound}
      /\ IF a \in opened THEN Notify(m) ELSE UNCHANGED news
      /\ UNCHANGED <<driver, device, batch, profile, pushed, kinds, opened, claimed, played, greeted>>
  BY DEF Unplug
<1>2. a \in Addresses /\ a \in Nat \ {0}
  BY DEF UsbInv, UsbWorld, Addresses
<1>3. m \in News
  BY <1>2 DEF News
<1>4. /\ news' \in Seq(News)
      /\ \A i \in DOMAIN news' : news'[i] = m \/ (i \in DOMAIN news /\ news'[i] = news[i])
  BY <1>1, <1>3, NewsAreAdded DEF UsbInv, UsbWorld
<1>5. UsbWorld'
  <2>1. Addresses' = Addresses
    BY <1>1 DEF Addresses
  <2>2. \A i \in DOMAIN news' :
          /\ news'[i].address \in Addresses'
          /\ news'[i].event = "gone" => news'[i].address \notin plugged'
    BY <1>1, <1>2, <1>4, <2>1 DEF UsbInv, UsbWorld
  <2>3. ASSUME NEW t \in outbound' PROVE t \in Transfer
    <3>1. PICK u \in outbound : t = IF u.to = a THEN Back(u) ELSE u
      BY <1>1
    <3>2. u \in Transfer
      BY DEF UsbInv, UsbWorld
    <3> QED
      BY <3>1, <3>2, TransfersGoOn   <2> QED
    BY <1>1, <1>4, <2>1, <2>2, <2>3 DEF UsbInv, UsbWorld
<1>6. \A t \in outbound' : t.state = "flying" => t.to = device /\ t.to \in plugged'
  <2> SUFFICES ASSUME NEW t \in outbound', t.state = "flying" PROVE t.to = device /\ t.to \in plugged'
    OBVIOUS
  <2>1. PICK u \in outbound : t = IF u.to = a THEN Back(u) ELSE u
    BY <1>1
  <2>2. u.state = "flying" => u.to = device /\ u.to \in plugged
    BY DEF UsbInv, NothingLeaks
  <2>3. CASE u.to = a
    <3>1. t = Back(u)
      BY <2>1, <2>3
    <3>2. t.state = "back"
      BY <3>1, TransfersGoOn DEF UsbInv, UsbWorld
    <3> QED
      BY <3>2
  <2>4. CASE u.to # a
    BY <1>1, <2>1, <2>2, <2>4
  <2> QED
    BY <2>3, <2>4
<1>7. /\ inbound' = "flying" => device' \in plugged'
      /\ inbound' = "none" <=> device' = 0
  BY <1>1 DEF UsbInv, NothingLeaks
<1> QED
  BY <1>1, <1>5, <1>6, <1>7 DEF UsbInv, NothingLeaks

(* What neither the devices nor the news change by.                            *)
LEMMA WorldStays ==
  ASSUME UsbInv, UNCHANGED <<kinds, plugged, news, device>>, \A t \in outbound' : t \in Transfer
  PROVE  UsbWorld'
BY DEF UsbInv, UsbWorld, Addresses

LEMMA PlayKeepsUsbInv == ASSUME UsbInv, NEW packets, Play(packets) PROVE UsbInv'
<1>1. /\ inbound = "flying" /\ inbound' = "done"
      /\ UNCHANGED <<driver, device, outbound, kinds, plugged, opened, claimed, news>>
  BY DEF Play
<1>2. UsbWorld'
  BY <1>1, WorldStays DEF UsbInv, UsbWorld
<1> QED
  BY <1>1, <1>2 DEF UsbInv, NothingLeaks

LEMMA GlitchKeepsUsbInv == ASSUME UsbInv, Glitch PROVE UsbInv'
<1>1. /\ inbound = "flying" /\ inbound' = "failed"
      /\ UNCHANGED <<driver, device, outbound, kinds, plugged, opened, claimed, news>>
  BY DEF Glitch, worldVars
<1>2. UsbWorld'
  BY <1>1, WorldStays DEF UsbInv, UsbWorld
<1> QED
  BY <1>1, <1>2 DEF UsbInv, NothingLeaks

LEMMA DeliverKeepsUsbInv == ASSUME UsbInv, NEW t \in outbound, Deliver(t) PROVE UsbInv'
<1>1. /\ t.state = "flying"
      /\ outbound' = (outbound \ {t}) \cup {Onward(t)}
      /\ UNCHANGED <<driver, device, inbound, kinds, plugged, opened, claimed, news>>
  BY DEF Deliver
<1>2. t \in Transfer /\ t.to = device /\ t.to \in plugged
  BY <1>1 DEF UsbInv, UsbWorld, NothingLeaks
<1>3. Onward(t) \in Transfer /\ Onward(t).to = t.to
  BY <1>2, TransfersGoOn
<1>4. PICK u : u = Onward(t)
  OBVIOUS
<1>5. \A v \in outbound' : v \in outbound \/ v = u
  BY <1>1, <1>4
<1>6. UsbWorld'
  BY <1>1, <1>3, <1>4, <1>5, WorldStays DEF UsbInv, UsbWorld
<1>7. \A v \in outbound' : v.state = "flying" => v.to = device' /\ v.to \in plugged'
  BY <1>1, <1>2, <1>3, <1>4, <1>5 DEF UsbInv, NothingLeaks
<1> QED
  BY <1>1, <1>6, <1>7 DEF UsbInv, NothingLeaks

LEMMA StallKeepsUsbInv == ASSUME UsbInv, NEW t \in outbound, Stall(t) PROVE UsbInv'
<1>1. /\ outbound' = (outbound \ {t}) \cup {Back(t)}
      /\ UNCHANGED <<driver, device, inbound, kinds, plugged, opened, claimed, news>>
  BY DEF Stall, worldVars
<1>2. PICK u : u = Back(t)
  OBVIOUS
<1>3. u \in Transfer /\ u.state = "back"
  BY <1>2, TransfersGoOn DEF UsbInv, UsbWorld
<1>4. \A v \in outbound' : v \in outbound \/ v = u
  BY <1>1, <1>2
<1>5. UsbWorld'
  BY <1>1, <1>3, <1>4, WorldStays DEF UsbInv, UsbWorld
<1>6. \A v \in outbound' : v.state = "flying" => v.to = device' /\ v.to \in plugged'
  BY <1>1, <1>3, <1>4 DEF UsbInv, NothingLeaks
<1> QED
  BY <1>1, <1>5, <1>6 DEF UsbInv, NothingLeaks

LEMMA OutCallbackKeepsUsbInv == ASSUME UsbInv, NEW t \in outbound, OutCallback(t) PROVE UsbInv'
<1>1. /\ outbound' = outbound \ {t}
      /\ UNCHANGED <<driver, device, inbound, kinds, plugged, opened, claimed, news>>
  BY DEF OutCallback, worldVars
<1>2. UsbWorld'
  BY <1>1, WorldStays DEF UsbInv, UsbWorld
<1> QED
  BY <1>1, <1>2 DEF UsbInv, NothingLeaks

LEMMA HandlePacketKeepsUsbInv == ASSUME UsbInv, HandlePacket PROVE UsbInv'
<1>1. /\ inbound \in {"done", "reading"} /\ inbound' = "reading"
      /\ UNCHANGED <<driver, device, outbound, kinds, plugged, opened, claimed, news>>
  BY DEF HandlePacket, worldVars
<1>2. UsbWorld'
  BY <1>1, WorldStays DEF UsbInv, UsbWorld
<1> QED
  BY <1>1, <1>2 DEF UsbInv, NothingLeaks

LEMMA InCallbackKeepsUsbInv == ASSUME UsbInv, InCallback PROVE UsbInv'
<1>1. /\ inbound \in {"done", "reading", "failed", "gone"}
      /\ inbound' = "idle" \/ (inbound' = "flying" /\ device \in plugged)
      /\ UNCHANGED <<driver, device, outbound, kinds, plugged, opened, claimed, news>>
  BY DEF InCallback, Submitted, worldVars
<1>2. UsbWorld'
  BY <1>1, WorldStays DEF UsbInv, UsbWorld
<1> QED
  BY <1>1, <1>2 DEF UsbInv, NothingLeaks

LEMMA StartDriverKeepsUsbInv == ASSUME UsbInv, StartDriver PROVE UsbInv'
<1>1. /\ driver = "off" /\ driver' \in {"waiting", "error"}
      /\ UNCHANGED <<inbound, device, outbound, kinds, plugged, opened, claimed, news>>
  BY DEF StartDriver, worldVars
<1>2. UsbWorld'
  BY <1>1, WorldStays DEF UsbInv, UsbWorld
<1> QED
  BY <1>1, <1>2 DEF UsbInv, NothingLeaks

(* A device the driver does not take: the branches of handle_new_device give   *)
(* back exactly what was lent.                                                 *)
LEMMA NewDeviceFailsKeepsUsbInv == ASSUME UsbInv, NewDeviceFails PROVE UsbInv'
<1>1. PICK stage \in Failures(Head(news).address) :
        LET left == Lent[stage] \ GivenBack[stage]
        IN  /\ opened' = IF "device" \in left THEN opened \cup {Head(news).address} ELSE opened
            /\ claimed' = IF "interface" \in left THEN claimed \cup {Head(news).address} ELSE claimed
            /\ inbound' = IF "transfer" \in left THEN "idle" ELSE inbound
  BY DEF NewDeviceFails
<1>2. Lent = GivenBack
  BY DEF Lent, GivenBack
<1>3. UNCHANGED <<opened, claimed, inbound>>
  BY <1>1, <1>2
<1>4. Delivered("new") /\ UNCHANGED <<driver, device, batch, outbound, profile, pushed, kinds, plugged, played, greeted>>
  BY DEF NewDeviceFails
<1>5. UsbWorld'
  BY <1>4, NewsAreTaken DEF UsbInv, UsbWorld, Addresses
<1> QED
  BY <1>3, <1>4, <1>5 DEF UsbInv, NothingLeaks

LEMMA NewDeviceKeepsUsbInv == ASSUME UsbInv, NewDevice PROVE UsbInv'
<1>1. PICK a : a = Head(news).address
  OBVIOUS
<1>2. /\ Delivered("new")
      /\ device = 0 /\ a \in plugged
      /\ device' = a
      /\ opened' = opened \cup {a} /\ claimed' = claimed \cup {a}
      /\ inbound' = "flying" /\ driver' = "connected"
      /\ Greet(a)
      /\ UNCHANGED <<kinds, plugged>>
  BY <1>1 DEF NewDevice
<1>3. a \in Addresses /\ a # 0 /\ 0 \notin plugged
  BY <1>2 DEF UsbInv, UsbWorld, Addresses
<1>4. \A t \in outbound' : t \in Transfer /\ (t.state = "flying" => t.to = a)
  <2> SUFFICES ASSUME NEW t \in outbound' PROVE t \in Transfer /\ (t.state = "flying" => t.to = a)
    OBVIOUS
  <2>1. t \in outbound \/ t = [to |-> a, blob |-> 1, pos |-> 0, state |-> "flying"]
    BY <1>2 DEF Greet
  <2>2. CASE t \in outbound
    BY <1>2, <1>3, <2>2 DEF UsbInv, UsbWorld, NothingLeaks
  <2>3. CASE t = [to |-> a, blob |-> 1, pos |-> 0, state |-> "flying"]
    BY <1>3, <2>3 DEF Transfer, Addresses
  <2> QED
    BY <2>1, <2>2, <2>3
<1>5. UsbWorld'
  BY <1>2, <1>3, <1>4, NewsAreTaken DEF UsbInv, UsbWorld, Addresses
<1>6. opened' = {a} /\ claimed' = {a}
  BY <1>2 DEF UsbInv, NothingLeaks
<1> QED
  BY <1>2, <1>3, <1>4, <1>5, <1>6 DEF UsbInv, NothingLeaks

LEMMA DeviceGoneKeepsUsbInv == ASSUME UsbInv, DeviceGone PROVE UsbInv'
<1>1. /\ Delivered("gone") /\ Head(news).address = device
      /\ device' = 0 /\ inbound' = "none"
      /\ opened' = opened \ {device} /\ claimed' = claimed \ {device}
      /\ driver' = "waiting"
      /\ UNCHANGED <<outbound, kinds, plugged>>
  BY DEF DeviceGone
<1>2. device \notin plugged
  BY <1>1, NewsAreTaken
<1>3. UsbWorld'
  BY <1>1, NewsAreTaken DEF UsbInv, UsbWorld, Addresses
<1>4. opened' = {} /\ claimed' = {}
  BY <1>1 DEF UsbInv, NothingLeaks
<1>5. \A t \in outbound' : t.state # "flying"
  BY <1>1, <1>2 DEF UsbInv, NothingLeaks
<1> QED
  BY <1>1, <1>3, <1>4, <1>5 DEF UsbInv, NothingLeaks

LEMMA OtherGoneKeepsUsbInv == ASSUME UsbInv, OtherGone PROVE UsbInv'
<1>1. /\ Delivered("gone")
      /\ UNCHANGED <<driver, device, inbound, outbound, kinds, plugged, opened, claimed>>
  BY DEF OtherGone, driverVars
<1>2. UsbWorld'
  BY <1>1, NewsAreTaken DEF UsbInv, UsbWorld, Addresses
<1> QED
  BY <1>1, <1>2 DEF UsbInv, NothingLeaks

LEMMA UsbStarts == UsbInit => UsbInv
<1> SUFFICES ASSUME UsbInit PROVE UsbInv
  OBVIOUS
<1>1. UsbWorld
  BY DEF UsbInit, UsbWorld, Addresses
<1> QED
  BY <1>1 DEF UsbInit, UsbInv, NothingLeaks

LEMMA UsbInvariant == UsbSpec => []UsbInv
<1>1. UsbInv /\ [UsbNext]_usbVars => UsbInv'
  <2> SUFFICES ASSUME UsbInv, [UsbNext]_usbVars PROVE UsbInv'
    OBVIOUS
  <2>1. CASE StartDriver
    BY <2>1, StartDriverKeepsUsbInv
  <2>2. CASE \E k \in Kind : Plug(k)
    BY <2>2, PlugKeepsUsbInv
  <2>3. CASE \E a \in plugged : Unplug(a)
    BY <2>3, UnplugKeepsUsbInv
  <2>4. CASE \E n \in 0 .. 2 : \E packets \in [1 .. n -> PacketSort] : Play(packets)
    BY <2>4, PlayKeepsUsbInv
  <2>5. CASE Glitch
    BY <2>5, GlitchKeepsUsbInv
  <2>6. CASE \E t \in outbound : Deliver(t) \/ Stall(t) \/ OutCallback(t)
    BY <2>6, DeliverKeepsUsbInv, StallKeepsUsbInv, OutCallbackKeepsUsbInv
  <2>7. CASE HandlePacket \/ InCallback
    BY <2>7, HandlePacketKeepsUsbInv, InCallbackKeepsUsbInv
  <2>8. CASE NewDeviceFails
    BY <2>8, NewDeviceFailsKeepsUsbInv
  <2>9. CASE NewDevice
    BY <2>9, NewDeviceKeepsUsbInv
  <2>10. CASE DeviceGone
    BY <2>10, DeviceGoneKeepsUsbInv
  <2>11. CASE OtherGone
    BY <2>11, OtherGoneKeepsUsbInv
  <2>12. CASE UNCHANGED usbVars
    BY <2>12 DEF usbVars, driverVars, worldVars, UsbInv, UsbWorld, Addresses, NothingLeaks
  <2> QED
    BY <2>1, <2>2, <2>3, <2>4, <2>5, <2>6, <2>7, <2>8, <2>9, <2>10, <2>11, <2>12 DEF UsbNext
<1> QED
  BY <1>1, UsbStarts, PTL DEF UsbSpec

(* Hot-plugging never leaks (handle_new_device, teardown_device): whichever    *)
(* call fails and whenever plugs are pulled, the driver holds the one device   *)
(* it tracks, for any number of devices and any length of the library's queue. *)
THEOREM PortNeverLeaks == UsbSpec => []NothingLeaks
<1>1. UsbInv => NothingLeaks
  BY DEF UsbInv
<1> QED
  BY <1>1, UsbInvariant, PTL

--------------------------------------------------------------------------------
(* What is played.  The packets that were read are the first ones played.      *)

HaveBeenRead == Len(played) - Len(batch)

PacketsInv ==
  /\ played \in Seq(PacketSort)
  /\ batch \in Seq(Nat)
  /\ Len(batch) <= Len(played)
  /\ \A i \in DOMAIN batch : batch[i] = HaveBeenRead + i
  /\ inbound \notin {"done", "reading"} => batch = <<>>
  /\ pushed \in Seq(Nat)
  /\ \A i \in DOMAIN pushed : pushed[i] \in 1 .. HaveBeenRead /\ played[pushed[i]] = "channel"
  /\ \A n \in 1 .. HaveBeenRead : played[n] = "channel" => \E i \in DOMAIN pushed : pushed[i] = n
  /\ \A i, j \in DOMAIN pushed : i < j => pushed[i] < pushed[j]

LEMMA PlayKeepsPackets ==
  ASSUME PacketsInv, NEW n \in 0 .. 2, NEW packets \in [1 .. n -> PacketSort], Play(packets)
  PROVE  PacketsInv'
<1>1. /\ inbound = "flying" /\ inbound' = "done"
      /\ batch' = [i \in 1 .. Len(packets) |-> Len(played) + i]
      /\ played' = played \o packets
      /\ pushed' = pushed
  BY DEF Play
<1>2. packets \in Seq(PacketSort) /\ Len(packets) = n
  OBVIOUS
<1>3. /\ played \in Seq(PacketSort) /\ batch = <<>> /\ Len(batch) = 0 /\ Len(played) \in Nat
      /\ pushed \in Seq(Nat)
  BY <1>1 DEF PacketsInv
<1>4. /\ batch' \in Seq(Nat) /\ Len(batch') = n
      /\ \A i \in 1 .. n : batch'[i] = Len(played) + i
  BY <1>1, <1>2, <1>3
<1>5. /\ played' \in Seq(PacketSort) /\ Len(played') = Len(played) + n
      /\ \A i \in 1 .. Len(played) : played'[i] = played[i]
  BY <1>1, <1>2, <1>3
<1>6. HaveBeenRead' = Len(played) /\ HaveBeenRead = Len(played)
  BY <1>3, <1>4, <1>5 DEF HaveBeenRead
<1> QED
  BY <1>1, <1>3, <1>4, <1>5, <1>6 DEF PacketsInv

LEMMA HandlePacketKeepsPackets == ASSUME PacketsInv, HandlePacket PROVE PacketsInv'
<1> DEFINE h == Head(batch)
<1>1. /\ inbound' = "reading" /\ batch # <<>>
      /\ batch' = Tail(batch)
      /\ pushed' = IF played[h] = "channel" THEN Append(pushed, h) ELSE pushed
      /\ played' = played
  BY DEF HandlePacket, worldVars
<1>2. /\ played \in Seq(PacketSort) /\ batch \in Seq(Nat) /\ pushed \in Seq(Nat)
      /\ Len(played) \in Nat /\ Len(batch) \in Nat /\ Len(batch) <= Len(played) /\ HaveBeenRead \in Nat
  BY DEF PacketsInv, HaveBeenRead
<1>3. h = batch[1] /\ 1 \in DOMAIN batch /\ h = HaveBeenRead + 1
  BY <1>1, <1>2 DEF PacketsInv
<1>4. /\ batch' \in Seq(Nat) /\ Len(batch') = Len(batch) - 1
      /\ \A i \in DOMAIN batch' : i + 1 \in DOMAIN batch /\ batch'[i] = batch[i + 1]
  BY <1>1, <1>2
<1>5. HaveBeenRead' = HaveBeenRead + 1
  BY <1>1, <1>2, <1>4 DEF HaveBeenRead
<1>6. \A i \in DOMAIN batch' : batch'[i] = HaveBeenRead' + i
  <2> SUFFICES ASSUME NEW i \in DOMAIN batch' PROVE batch'[i] = HaveBeenRead' + i
    OBVIOUS
  <2>1. i + 1 \in DOMAIN batch /\ batch'[i] = batch[i + 1] /\ i \in Nat
    BY <1>4
  <2>2. batch[i + 1] = HaveBeenRead + (i + 1)
    BY <2>1 DEF PacketsInv
  <2> QED
    BY <1>2, <1>5, <2>1, <2>2
<1>7. CASE played[h] = "channel"
  <2>1. /\ pushed' \in Seq(Nat) /\ Len(pushed') = Len(pushed) + 1
        /\ pushed'[Len(pushed) + 1] = h
        /\ \A i \in DOMAIN pushed : pushed'[i] = pushed[i]
    BY <1>1, <1>2, <1>3, <1>7
  <2>2. \A i \in DOMAIN pushed' : i \in DOMAIN pushed \/ i = Len(pushed) + 1
    BY <1>2, <2>1
  <2>3. \A i \in DOMAIN pushed' : pushed'[i] \in 1 .. HaveBeenRead' /\ played'[pushed'[i]] = "channel"
    BY <1>1, <1>2, <1>3, <1>5, <1>7, <2>1, <2>2 DEF PacketsInv
  <2>4. \A n \in 1 .. HaveBeenRead' : played'[n] = "channel" => \E i \in DOMAIN pushed' : pushed'[i] = n
    <3> SUFFICES ASSUME NEW n \in 1 .. HaveBeenRead', played[n] = "channel"
                 PROVE  \E i \in DOMAIN pushed' : pushed'[i] = n
      BY <1>1
    <3>1. CASE n = h
      <4>1. Len(pushed) + 1 \in DOMAIN pushed'
        BY <1>2, <2>1
      <4> QED
        BY <2>1, <3>1, <4>1
    <3>2. CASE n # h
      <4>1. n \in 1 .. HaveBeenRead
        BY <1>2, <1>3, <1>5, <3>2
      <4>2. PICK i \in DOMAIN pushed : pushed[i] = n
        BY <4>1 DEF PacketsInv
      <4>3. i \in DOMAIN pushed'
        BY <1>2, <2>1
      <4> QED
        BY <2>1, <4>2, <4>3
    <3> QED
      BY <3>1, <3>2
  <2>5. \A i, j \in DOMAIN pushed' : i < j => pushed'[i] < pushed'[j]
    <3> SUFFICES ASSUME NEW i \in DOMAIN pushed', NEW j \in DOMAIN pushed', i < j
                 PROVE  pushed'[i] < pushed'[j]
      OBVIOUS
    <3>1. i \in DOMAIN pushed /\ pushed[i] \in 1 .. HaveBeenRead
      BY <1>2, <2>1, <2>2 DEF PacketsInv
    <3>2. CASE j \in DOMAIN pushed
      BY <2>1, <3>1, <3>2 DEF PacketsInv
    <3>3. CASE j = Len(pushed) + 1
      BY <1>2, <1>3, <2>1, <3>1, <3>3
    <3> QED
      BY <2>2, <3>2, <3>3
  <2>6. Len(batch') <= Len(played') /\ inbound' \in {"done", "reading"}
    BY <1>1, <1>2, <1>4
  <2> QED
    BY <1>1, <1>2, <1>4, <1>6, <2>1, <2>3, <2>4, <2>5, <2>6 DEF PacketsInv
<1>8. CASE played[h] # "channel"
  <2>1. pushed' = pushed
    BY <1>1, <1>8
  <2>2. \A i \in DOMAIN pushed : pushed[i] \in 1 .. HaveBeenRead' /\ played[pushed[i]] = "channel"
    BY <1>2, <1>5 DEF PacketsInv
  <2>3. \A n \in 1 .. HaveBeenRead' : n = h \/ n \in 1 .. HaveBeenRead
    BY <1>2, <1>3, <1>5
  <2>4. \A n \in 1 .. HaveBeenRead' : played[n] = "channel" => \E i \in DOMAIN pushed : pushed[i] = n
    BY <1>8, <2>3 DEF PacketsInv
  <2>5. Len(batch') <= Len(played')
    BY <1>1, <1>2, <1>4
  <2>6. \A i, j \in DOMAIN pushed : i < j => pushed[i] < pushed[j]
    BY DEF PacketsInv
  <2> QED
    BY <1>1, <1>2, <1>4, <1>6, <2>1, <2>2, <2>4, <2>5, <2>6 DEF PacketsInv
<1> QED
  BY <1>7, <1>8

(* Where the batch is empty, what becomes of the transfer does not matter.     *)
LEMMA PacketsStay ==
  ASSUME PacketsInv, UNCHANGED <<played, batch, pushed>>,
         inbound' \in {"done", "reading"} \/ batch = <<>> \/ inbound' = inbound
  PROVE  PacketsInv'
BY DEF PacketsInv, HaveBeenRead

LEMMA PacketsInvariant == UsbSpec => []PacketsInv
<1>1. UsbInit => PacketsInv
  BY DEF UsbInit, PacketsInv, HaveBeenRead
<1>2. PacketsInv /\ UsbInv /\ [UsbNext]_usbVars => PacketsInv'
  <2> SUFFICES ASSUME PacketsInv, UsbInv, [UsbNext]_usbVars PROVE PacketsInv'
    OBVIOUS
  <2>1. CASE StartDriver
    BY <2>1, PacketsStay DEF StartDriver, worldVars
  <2>2. CASE \E k \in Kind : Plug(k)
    BY <2>2, PacketsStay DEF Plug, driverVars
  <2>3. CASE \E a \in plugged : Unplug(a)
    <3>1. PICK a \in plugged : Unplug(a)
      BY <2>3
    <3>2. UNCHANGED <<played, batch, pushed>> /\ (inbound' = inbound \/ inbound = "flying")
      BY <3>1 DEF Unplug
    <3>3. inbound = "flying" => batch = <<>>
      BY DEF PacketsInv
    <3> QED
      BY <3>2, <3>3, PacketsStay
  <2>4. CASE \E n \in 0 .. 2 : \E packets \in [1 .. n -> PacketSort] : Play(packets)
    BY <2>4, PlayKeepsPackets
  <2>5. CASE Glitch
    <3>1. UNCHANGED <<played, batch, pushed>> /\ inbound = "flying"
      BY <2>5 DEF Glitch, worldVars
    <3>2. batch = <<>>
      BY <3>1 DEF PacketsInv
    <3> QED
      BY <3>1, <3>2, PacketsStay
  <2>6. CASE \E t \in outbound : Deliver(t) \/ Stall(t) \/ OutCallback(t)
    <3>1. UNCHANGED <<played, batch, pushed, inbound>>
      BY <2>6 DEF Deliver, Stall, OutCallback, worldVars
    <3> QED
      BY <3>1, PacketsStay
  <2>7. CASE HandlePacket
    BY <2>7, HandlePacketKeepsPackets
  <2>8. CASE InCallback
    BY <2>8, PacketsStay DEF InCallback, worldVars
  <2>9. CASE NewDeviceFails
    <3>1. Delivered("new") /\ UNCHANGED <<played, batch, pushed>>
      BY <2>9 DEF NewDeviceFails
    <3>2. batch = <<>>
      BY <3>1, NewsAreTaken DEF PacketsInv
    <3> QED
      BY <3>1, <3>2, PacketsStay
  <2>10. CASE NewDevice
    <3>1. Delivered("new") /\ UNCHANGED <<played, batch, pushed>>
      BY <2>10 DEF NewDevice
    <3>2. batch = <<>>
      BY <3>1, NewsAreTaken DEF PacketsInv
    <3> QED
      BY <3>1, <3>2, PacketsStay
  <2>11. CASE DeviceGone
    <3>1. Delivered("gone") /\ UNCHANGED <<played, batch, pushed>>
      BY <2>11 DEF DeviceGone
    <3>2. batch = <<>>
      BY <3>1, NewsAreTaken DEF PacketsInv
    <3> QED
      BY <3>1, <3>2, PacketsStay
  <2>12. CASE OtherGone
    BY <2>12, PacketsStay DEF OtherGone, driverVars
  <2>13. CASE UNCHANGED usbVars
    BY <2>13, PacketsStay DEF usbVars, driverVars, worldVars
  <2> QED
    BY <2>1, <2>2, <2>3, <2>4, <2>5, <2>6, <2>7, <2>8, <2>9, <2>10, <2>11, <2>12, <2>13 DEF UsbNext
<1> QED
  BY <1>1, <1>2, UsbInvariant, PTL DEF UsbSpec

LEMMA PacketsArrive == PacketsInv => PacketsArriveOnce
<1> SUFFICES ASSUME PacketsInv PROVE PacketsArriveOnce
  OBVIOUS
<1> DEFINE channel == {n \in DOMAIN played : played[n] = "channel"}
<1>1. /\ played \in Seq(PacketSort) /\ batch \in Seq(Nat) /\ pushed \in Seq(Nat)
      /\ Len(played) \in Nat /\ Len(batch) \in Nat /\ HaveBeenRead \in Nat
      /\ HaveBeenRead + Len(batch) = Len(played)
  BY DEF PacketsInv, HaveBeenRead
<1>2. ToSet(batch) = (HaveBeenRead + 1) .. Len(played)
  <2>1. \A n \in (HaveBeenRead + 1) .. Len(played) :
          n - HaveBeenRead \in DOMAIN batch /\ batch[n - HaveBeenRead] = n
    BY <1>1 DEF PacketsInv
  <2>2. \A i \in DOMAIN batch : batch[i] \in (HaveBeenRead + 1) .. Len(played)
    BY <1>1 DEF PacketsInv
  <2> QED
    BY <2>1, <2>2 DEF ToSet
<1>3. \A n \in DOMAIN played : n \notin ToSet(batch) <=> n \in 1 .. HaveBeenRead
  BY <1>1, <1>2
<1>4. ToSet(pushed) \subseteq channel \ ToSet(batch)
  <2> SUFFICES ASSUME NEW i \in DOMAIN pushed PROVE pushed[i] \in channel \ ToSet(batch)
    BY DEF ToSet
  <2>1. pushed[i] \in 1 .. HaveBeenRead /\ played[pushed[i]] = "channel"
    BY DEF PacketsInv
  <2>2. pushed[i] \in DOMAIN played
    BY <1>1, <2>1
  <2> QED
    BY <1>3, <2>1, <2>2
<1>5. channel \ ToSet(batch) \subseteq ToSet(pushed)
  <2> SUFFICES ASSUME NEW n \in channel, n \notin ToSet(batch) PROVE n \in ToSet(pushed)
    OBVIOUS
  <2>1. n \in 1 .. HaveBeenRead /\ played[n] = "channel"
    BY <1>3
  <2>2. PICK i \in DOMAIN pushed : pushed[i] = n
    BY <2>1 DEF PacketsInv
  <2> QED
    BY <2>2 DEF ToSet
<1> QED
  BY <1>4, <1>5 DEF PacketsArriveOnce, PacketsInv

--------------------------------------------------------------------------------
(* What is sent.                                                               *)

SysEx == Seq(Nat \X Nat)

Understanding == [part : SysEx, whole : Seq(SysEx)]

(* What a device has understood when the next packet is that of blob at pos.   *)
InitBlob(p, b) == [i \in 1 .. p[b] |-> <<b, i>>]

UpTo(p, blob, pos) ==
  [part |-> [i \in 1 .. pos |-> <<blob, i>>], whole |-> [b \in 1 .. blob - 1 |-> InitBlob(p, b)]]

OneAfterTheOther(p, u) ==
  Len(u.whole) <= Len(p) /\ u.whole = [b \in 1 .. Len(u.whole) |-> InitBlob(p, b)]

TransferIsAt(t) ==
  /\ t.to \in Addresses
  /\ t.state = "flying" =>
       t.blob \in DOMAIN profile /\ t.pos < profile[t.blob] /\ greeted[t.to] = UpTo(profile, t.blob, t.pos)
  /\ t.blob > Len(profile) => greeted[t.to] = UpTo(profile, Len(profile) + 1, 0)

(* A device whose news waits was sent nothing.                                 *)
IsUnknown(a) ==
  /\ greeted[a] = UpTo(profile, 1, 0)
  /\ \A t \in outbound : t.to # a

NewIn(n, i) == i \in DOMAIN n /\ n[i].event = "new"

GreetInv ==
  /\ profile \in Seq(Nat \ {0})
  /\ greeted \in Seq(Understanding)
  /\ Len(greeted) = Len(kinds)
  /\ \A a \in Addresses : OneAfterTheOther(profile, greeted[a])
  /\ \A t \in outbound : TransferIsAt(t)
  /\ \A t, u \in outbound : t.to = u.to => t = u
  /\ \A i \in DOMAIN news : NewIn(news, i) => IsUnknown(news[i].address)
  /\ \A i, j \in DOMAIN news : NewIn(news, i) /\ NewIn(news, j) /\ i # j => news[i].address # news[j].address

LEMMA BlobIsMessage ==
  ASSUME profile \in Seq(Nat \ {0}), NEW b \in DOMAIN profile
  PROVE  InitBlob(profile, b) \in SysEx
<1>1. b \in Nat /\ profile[b] \in Nat
  OBVIOUS
<1> QED
  BY <1>1 DEF SysEx, InitBlob

LEMMA UpToIsUnderstood ==
  ASSUME profile \in Seq(Nat \ {0}), NEW blob \in Nat \ {0}, blob <= Len(profile) + 1, NEW pos \in Nat
  PROVE  UpTo(profile, blob, pos) \in Understanding /\ OneAfterTheOther(profile, UpTo(profile, blob, pos))
<1>1. [i \in 1 .. pos |-> <<blob, i>>] \in SysEx
  BY DEF SysEx
<1>2. \A b \in 1 .. blob - 1 : InitBlob(profile, b) \in SysEx
  BY BlobIsMessage
<1>3. /\ [b \in 1 .. blob - 1 |-> InitBlob(profile, b)] \in Seq(SysEx)
      /\ Len([b \in 1 .. blob - 1 |-> InitBlob(profile, b)]) = blob - 1
  BY <1>2
<1>4. blob - 1 <= Len(profile)
  OBVIOUS
<1> QED
  BY <1>1, <1>3, <1>4 DEF UpTo, Understanding, OneAfterTheOther

LEMMA FirstOfThree ==
  ASSUME NEW S, NEW s \in Seq(S), Len(s) = 3, NEW n \in 1 .. 3
  PROVE  /\ SubSeq(s, 1, n) \in Seq(S)
         /\ Len(SubSeq(s, 1, n)) = n
         /\ \A i \in 1 .. n : SubSeq(s, 1, n)[i] = s[i]
<1>1. 1 \in Int /\ n \in Int /\ 1 <= n /\ n - 1 + 1 = n /\ \A i \in 1 .. n : s[i] \in S /\ 1 + i - 1 = i
  OBVIOUS
<1> QED
  BY <1>1, SubSeqProperties

LEMMA NothingYet == UpTo(profile, 1, 0) = [part |-> <<>>, whole |-> <<>>]
BY DEF UpTo

(* A packet takes a device from one place to the next.                         *)
LEMMA PacketIsUnderstood ==
  ASSUME profile \in Seq(Nat \ {0}), NEW blob \in DOMAIN profile, NEW pos \in Nat, pos < profile[blob]
  PROVE  Take(UpTo(profile, blob, pos), EventPacket(blob, pos)) =
           IF pos + 3 < profile[blob] THEN UpTo(profile, blob, pos + 3) ELSE UpTo(profile, blob + 1, 0)
<1> DEFINE remaining == profile[blob] - pos
           n == IF remaining > 3 THEN 3 ELSE remaining
           bytes == [i \in 1 .. 3 |-> IF i <= n THEN <<blob, pos + i>> ELSE Padding]
           part == [i \in 1 .. pos |-> <<blob, i>>]
           longer == [i \in 1 .. pos + n |-> <<blob, i>>]
           whole == [b \in 1 .. blob - 1 |-> InitBlob(profile, b)]
<1>1. profile[blob] \in Nat \ {0} /\ blob \in Nat \ {0} /\ remaining \in Nat \ {0} /\ n \in 1 .. 3
  OBVIOUS
<1>2. EventPacket(blob, pos) = [cin |-> Cin(remaining), bytes |-> bytes]
  BY DEF EventPacket
<1>3. Cin(remaining) = (IF remaining > 3 THEN 4 ELSE 4 + remaining)
  BY DEF Cin
<1>4. SubSeq(bytes, 1, n) = [i \in 1 .. n |-> <<blob, pos + i>>]
  <2>1. bytes \in SysEx /\ Len(bytes) = 3
    BY <1>1 DEF SysEx, Padding
  <2>2. /\ SubSeq(bytes, 1, n) \in SysEx /\ Len(SubSeq(bytes, 1, n)) = n
        /\ \A i \in 1 .. n : SubSeq(bytes, 1, n)[i] = bytes[i]
    <3> HIDE DEF bytes, n
    <3> QED
      BY <1>1, <2>1, FirstOfThree DEF SysEx
  <2>3. \A i \in 1 .. n : bytes[i] = <<blob, pos + i>>
    BY <1>1
  <2> HIDE DEF bytes, n
  <2> QED
    BY <1>1, <2>2, <2>3 DEF SysEx
<1>5. part \o [i \in 1 .. n |-> <<blob, pos + i>>] = longer
  <2> DEFINE more == [i \in 1 .. n |-> <<blob, pos + i>>]
  <2> HIDE DEF n
  <2>1. part \in SysEx /\ Len(part) = pos /\ more \in SysEx /\ Len(more) = n
    BY <1>1 DEF SysEx
  <2>2. part \o more \in SysEx /\ Len(part \o more) = pos + n
    BY <1>1, <2>1 DEF SysEx
  <2>3. \A i \in 1 .. pos + n : (part \o more)[i] = <<blob, i>>
    <3> SUFFICES ASSUME NEW i \in 1 .. pos + n PROVE (part \o more)[i] = <<blob, i>>
      OBVIOUS
    <3>1. CASE i <= pos
      BY <1>1, <2>1, <3>1 DEF SysEx
    <3>2. CASE i > pos
      <4>1. (part \o more)[i] = more[i - pos] /\ i - pos \in 1 .. n
        BY <1>1, <2>1, <3>2 DEF SysEx
      <4> QED
        BY <1>1, <4>1
    <3> QED
      BY <1>1, <3>1, <3>2
  <2>4. longer \in SysEx /\ Len(longer) = pos + n /\ \A i \in 1 .. pos + n : longer[i] = <<blob, i>>
    BY <1>1 DEF SysEx
  <2> HIDE DEF part, more, longer
  <2>5. Len(part \o more) = Len(longer) /\ \A i \in 1 .. Len(longer) : (part \o more)[i] = longer[i]
    BY <2>2, <2>3, <2>4
  <2>6. part \o more = longer
    BY <2>2, <2>4, <2>5, SeqEqual DEF SysEx
  <2> QED
    BY <2>6 DEF more
<1>6. UpTo(profile, blob, pos) = [part |-> part, whole |-> whole]
  BY DEF UpTo
<1>7. CASE remaining > 3
  <2>1. Cin(remaining) = 4 /\ n = 3 /\ pos + 3 < profile[blob]
    BY <1>1, <1>3, <1>7
  <2>2. part \o SubSeq(bytes, 1, 3) = [i \in 1 .. pos + 3 |-> <<blob, i>>]
    BY <1>4, <1>5, <2>1
  <2> HIDE DEF n, remaining, bytes, part, whole, longer
  <2>3. Take([part |-> part, whole |-> whole], [cin |-> 4, bytes |-> bytes])
          = [part |-> part \o SubSeq(bytes, 1, 3), whole |-> whole]
    BY DEF Take
  <2>5. UpTo(profile, blob, pos + 3) = [part |-> [i \in 1 .. pos + 3 |-> <<blob, i>>], whole |-> whole]
    BY DEF UpTo, whole
  <2> QED
    BY <1>2, <1>6, <2>1, <2>2, <2>3, <2>5
<1>8. CASE ~ (remaining > 3)
  <2>1. Cin(remaining) = 4 + n /\ n = remaining /\ ~ (pos + 3 < profile[blob]) /\ pos + n = profile[blob]
    BY <1>1, <1>3, <1>8
  <2>2. longer = InitBlob(profile, blob)
    BY <2>1 DEF InitBlob
  <2>3. part \o SubSeq(bytes, 1, n) = InitBlob(profile, blob)
    BY <1>4, <1>5, <2>2
  <2>4. Append(whole, InitBlob(profile, blob)) = [b \in 1 .. (blob + 1) - 1 |-> InitBlob(profile, b)]
    <3> DEFINE all == Append(whole, InitBlob(profile, blob))
    <3>1. \A b \in 1 .. blob : InitBlob(profile, b) \in SysEx
      BY <1>1, BlobIsMessage
    <3>2. whole \in Seq(SysEx) /\ Len(whole) = blob - 1
      <4>1. \A b \in 1 .. blob - 1 : InitBlob(profile, b) \in SysEx
        BY <1>1, <3>1
      <4> QED
        BY <1>1, <4>1
    <3>3. all \in Seq(SysEx) /\ Len(all) = blob /\ all[blob] = InitBlob(profile, blob)
      BY <1>1, <3>1, <3>2
    <3>4. \A b \in 1 .. blob : all[b] = InitBlob(profile, b)
      <4> SUFFICES ASSUME NEW b \in 1 .. blob PROVE all[b] = InitBlob(profile, b)
        OBVIOUS
      <4>1. CASE b = blob
        BY <3>3, <4>1
      <4>2. CASE b # blob
        <5>1. b \in 1 .. blob - 1
          BY <1>1, <4>2
        <5>2. all[b] = whole[b]
          BY <1>1, <3>1, <3>2, <5>1
        <5> QED
          BY <5>1, <5>2
      <4> QED
        BY <4>1, <4>2
    <3> HIDE DEF all
    <3>5. (blob + 1) - 1 = blob
      BY <1>1
    <3>6. all = [b \in 1 .. blob |-> InitBlob(profile, b)]
      BY <1>1, <3>3, <3>4
    <3> QED
      BY <3>5, <3>6 DEF all
  <2> HIDE DEF n, remaining, bytes, part, whole, longer
  <2>5. n \in Nat /\ n # 0 /\ 4 + n # 4 /\ (4 + n) - 4 = n
    BY <1>1
  <2>6. Take([part |-> part, whole |-> whole], [cin |-> 4 + n, bytes |-> bytes])
          = [part |-> <<>>, whole |-> Append(whole, part \o SubSeq(bytes, 1, n))]
    BY <2>5 DEF Take
  <2>7. UpTo(profile, blob + 1, 0) = [part |-> <<>>, whole |-> [b \in 1 .. (blob + 1) - 1 |-> InitBlob(profile, b)]]
    BY DEF UpTo
  <2> QED
    BY <1>2, <1>6, <2>1, <2>3, <2>4, <2>6, <2>7
<1> QED
  BY <1>7, <1>8

(* Nothing but plugs, packets and greetings touches what is sent.              *)
LEMMA GreetStays ==
  ASSUME GreetInv, UNCHANGED <<profile, greeted, kinds, outbound, news>>
  PROVE  GreetInv'
BY DEF GreetInv, Addresses, TransferIsAt, IsUnknown

(* The news that is taken leaves the rest where it was, and it is not in it.   *)
LEMMA NewsLeaveUnknown ==
  ASSUME GreetInv, UsbInv, NEW event \in {"new", "gone"}, Delivered(event)
  PROVE  /\ \A i \in DOMAIN news' :
              NewIn(news', i) => /\ IsUnknown(news'[i].address)
                                 /\ event = "new" => news'[i].address # Head(news).address
         /\ \A i, j \in DOMAIN news' :
              NewIn(news', i) /\ NewIn(news', j) /\ i # j => news'[i].address # news'[j].address
         /\ event = "new" => IsUnknown(Head(news).address)
<1>1. news \in Seq(News) /\ news # <<>> /\ news' = Tail(news) /\ Head(news).event = event
  BY DEF Delivered, UsbInv, UsbWorld
<1>2. 1 \in DOMAIN news /\ Head(news) = news[1]
  BY <1>1
<1>3. \A i \in DOMAIN news' : i \in Nat \ {0} /\ i + 1 \in DOMAIN news /\ news'[i] = news[i + 1]
  BY <1>1
<1>4. \A i \in DOMAIN news' : NewIn(news', i) => NewIn(news, i + 1)
  BY <1>3 DEF NewIn
<1>5. event = "new" => NewIn(news, 1)
  BY <1>1, <1>2 DEF NewIn
<1>6. ASSUME NEW i \in DOMAIN news', NewIn(news', i)
      PROVE  IsUnknown(news'[i].address) /\ (event = "new" => news'[i].address # Head(news).address)
  <2>1. i + 1 # 1 /\ i + 1 \in DOMAIN news /\ NewIn(news, i + 1) /\ news'[i] = news[i + 1]
    BY <1>3, <1>4, <1>6
  <2> QED
    BY <1>2, <1>5, <2>1 DEF GreetInv
<1>7. ASSUME NEW i \in DOMAIN news', NEW j \in DOMAIN news', NewIn(news', i), NewIn(news', j), i # j
      PROVE  news'[i].address # news'[j].address
  <2>1. i + 1 # j + 1
    BY <1>3, <1>7
  <2> QED
    BY <1>3, <1>4, <1>7, <2>1 DEF GreetInv
<1>8. event = "new" => IsUnknown(Head(news).address)
  BY <1>2, <1>5 DEF GreetInv
<1> QED
  BY <1>6, <1>7, <1>8

LEMMA NewsLeaveGreeting ==
  ASSUME GreetInv, UsbInv, NEW event \in {"new", "gone"}, Delivered(event),
         UNCHANGED <<profile, greeted, kinds, outbound>>
  PROVE  GreetInv'
BY NewsLeaveUnknown DEF GreetInv, Addresses, TransferIsAt, IsUnknown

LEMMA PlugKeepsGreeting == ASSUME GreetInv, UsbInv, NEW k \in Kind, Plug(k) PROVE GreetInv'
<1> DEFINE a == Len(kinds) + 1
           m == [event |-> "new", address |-> a]
           blank == UpTo(profile, 1, 0)
<1>1. /\ kinds' = Append(kinds, k)
      /\ greeted' = Append(greeted, blank)
      /\ Notify(m)
      /\ UNCHANGED <<profile, outbound>>
  BY NothingYet DEF Plug, driverVars
<1>2. kinds \in Seq(Kind) /\ greeted \in Seq(Understanding) /\ Len(greeted) = Len(kinds)
      /\ Len(kinds) \in Nat /\ profile \in Seq(Nat \ {0})
  BY DEF UsbInv, UsbWorld, GreetInv
<1>3. blank \in Understanding /\ OneAfterTheOther(profile, blank)
  BY <1>2, UpToIsUnderstood
<1>4. /\ greeted' \in Seq(Understanding) /\ Len(greeted') = a /\ Len(kinds') = a
      /\ greeted'[a] = blank
      /\ \A b \in Addresses : greeted'[b] = greeted[b]
  BY <1>1, <1>2, <1>3 DEF Addresses
<1>5. Addresses' = Addresses \cup {a} /\ a \notin Addresses
  BY <1>2, <1>4 DEF Addresses
<1>6. m \in News
  BY <1>2 DEF News
<1>7. \A t \in outbound : TransferIsAt(t) /\ t.to \in Addresses
  BY DEF GreetInv, TransferIsAt
<1>8. \A b \in Addresses' : OneAfterTheOther(profile, greeted'[b])
  BY <1>3, <1>4, <1>5 DEF GreetInv
<1>9. \A t \in outbound : TransferIsAt(t)'
  BY <1>1, <1>4, <1>5, <1>7 DEF TransferIsAt
<1>10. greeted'[a] = UpTo(profile', 1, 0) /\ \A t \in outbound' : t.to # a
  BY <1>1, <1>4, <1>5, <1>7
<1>11. \A i \in DOMAIN news :
         NewIn(news, i) => /\ news[i].address \in Addresses
                           /\ greeted'[news[i].address] = UpTo(profile', 1, 0)
                           /\ \A t \in outbound' : t.to # news[i].address
  BY <1>1, <1>4 DEF GreetInv, IsUnknown, UsbInv, UsbWorld
<1>12. news \in Seq(News) /\ (news' = Append(news, m) \/ news' = news)
  BY <1>1 DEF Notify, UsbInv, UsbWorld
<1>13. \A i \in DOMAIN news' : news'[i] = m \/ (i \in DOMAIN news /\ news'[i] = news[i])
  BY <1>6, <1>12
<1>14. \A i \in DOMAIN news' : NewIn(news', i) =>
         news'[i].address = a \/ (NewIn(news, i) /\ news'[i] = news[i])
  BY <1>13 DEF NewIn
<1>15. \A i \in DOMAIN news' : NewIn(news', i) =>
         greeted'[news'[i].address] = UpTo(profile', 1, 0) /\ \A t \in outbound' : t.to # news'[i].address
  BY <1>10, <1>11, <1>14 DEF IsUnknown, NewIn
<1>16. \A i, j \in DOMAIN news' :
         NewIn(news', i) /\ NewIn(news', j) /\ i # j => news'[i].address # news'[j].address
  <2> SUFFICES ASSUME NEW i \in DOMAIN news', NEW j \in DOMAIN news', NewIn(news', i), NewIn(news', j), i # j
               PROVE  news'[i].address # news'[j].address
    OBVIOUS
  <2>1. CASE news' = news
    BY <2>1 DEF GreetInv
  <2>2. CASE news' = Append(news, m)
    <3>1. /\ i \in DOMAIN news \/ (i = Len(news) + 1 /\ news'[i] = m)
          /\ j \in DOMAIN news \/ (j = Len(news) + 1 /\ news'[j] = m)
      BY <1>6, <1>12, <2>2
    <3>2. \A n \in DOMAIN news : n \in DOMAIN news' /\ news'[n] = news[n] /\ n # Len(news) + 1
      BY <1>6, <1>12, <2>2
    <3>3. CASE i \in DOMAIN news /\ j \in DOMAIN news
      BY <3>2, <3>3 DEF GreetInv, NewIn
    <3>4. CASE i \in DOMAIN news /\ j = Len(news) + 1
      BY <1>5, <1>11, <3>1, <3>2, <3>4 DEF NewIn
    <3>5. CASE i = Len(news) + 1 /\ j \in DOMAIN news
      BY <1>5, <1>11, <3>1, <3>2, <3>5 DEF NewIn
    <3> QED
      BY <3>1, <3>3, <3>4, <3>5
  <2> QED
    BY <1>12, <2>1, <2>2
<1>17. \A t, u \in outbound : t.to = u.to => t = u
  BY DEF GreetInv
<1> HIDE DEF blank, m
<1> QED
  BY <1>1, <1>2, <1>4, <1>8, <1>9, <1>15, <1>16, <1>17 DEF GreetInv, IsUnknown

(* A transfer that comes back, early or at its end, and one that is freed.     *)
LEMMA TransfersComeBack ==
  ASSUME GreetInv, UNCHANGED <<profile, greeted, kinds>>,
         \A i \in DOMAIN news' : NewIn(news', i) => NewIn(news, i) /\ news'[i] = news[i],
         \A t \in outbound : t \in Transfer,
         \A t \in outbound' : \E u \in outbound : t = u \/ t = Back(u),
         \A t, u \in outbound' : t.to = u.to => t = u
  PROVE  GreetInv'
<1>1. \A t \in outbound' : \E u \in outbound :
        t.to = u.to /\ t.blob = u.blob /\ t.pos = u.pos /\ (t.state = "flying" => u.state = "flying")
  <2> SUFFICES ASSUME NEW t \in outbound'
               PROVE  \E u \in outbound : /\ t.to = u.to /\ t.blob = u.blob /\ t.pos = u.pos
                                          /\ t.state = "flying" => u.state = "flying"
    OBVIOUS
  <2>1. PICK u \in outbound : t = u \/ t = Back(u)
    OBVIOUS
  <2>2. u \in Transfer
    OBVIOUS
  <2>3. PICK v : v = Back(u)
    OBVIOUS
  <2>4. v.to = u.to /\ v.blob = u.blob /\ v.pos = u.pos /\ v.state = "back"
    BY <2>2, <2>3, TransfersGoOn
  <2> QED
    BY <2>1, <2>3, <2>4
<1>2. Addresses' = Addresses
  BY DEF Addresses
<1>3. \A t \in outbound' : TransferIsAt(t)'
  BY <1>1, <1>2 DEF GreetInv, TransferIsAt
<1>4. \A i \in DOMAIN news' : NewIn(news', i) =>
        greeted'[news'[i].address] = UpTo(profile', 1, 0) /\ \A t \in outbound' : t.to # news'[i].address
  <2> SUFFICES ASSUME NEW i \in DOMAIN news', NewIn(news', i)
               PROVE  greeted'[news'[i].address] = UpTo(profile', 1, 0) /\ \A t \in outbound' : t.to # news'[i].address
    OBVIOUS
  <2>1. i \in DOMAIN news /\ NewIn(news, i) /\ news'[i] = news[i]
    BY DEF NewIn
  <2>2. IsUnknown(news[i].address)
    BY <2>1 DEF GreetInv
  <2> QED
    BY <1>1, <2>1, <2>2 DEF IsUnknown
<1>5. \A i, j \in DOMAIN news' : NewIn(news', i) /\ NewIn(news', j) /\ i # j => news'[i].address # news'[j].address
  BY DEF GreetInv, NewIn
<1>6. \A b \in Addresses' : OneAfterTheOther(profile', greeted'[b])
  BY <1>2 DEF GreetInv
<1> QED
  BY <1>3, <1>4, <1>5, <1>6 DEF GreetInv, IsUnknown

LEMMA UnplugKeepsGreeting == ASSUME GreetInv, UsbInv, NEW a \in plugged, Unplug(a) PROVE GreetInv'
<1> DEFINE m == [event |-> "gone", address |-> a]
<1>1. /\ outbound' = {IF t.to = a THEN Back(t) ELSE t : t \in outbound}
      /\ UNCHANGED <<profile, kinds, greeted>>
      /\ IF a \in opened THEN Notify(m) ELSE UNCHANGED news
  BY DEF Unplug
<1>2. \A t \in outbound' : \E u \in outbound : t = u \/ t = Back(u)
  BY <1>1
<1>3. m \in News
  BY DEF UsbInv, UsbWorld, News, Addresses
<1>4. news \in Seq(News) /\ (news' = Append(news, m) \/ news' = news)
  BY <1>1 DEF Notify, UsbInv, UsbWorld
<1>5. \A i \in DOMAIN news' : news'[i] = m \/ (i \in DOMAIN news /\ news'[i] = news[i])
  BY <1>3, <1>4
<1>6. \A i \in DOMAIN news' : NewIn(news', i) => NewIn(news, i) /\ news'[i] = news[i]
  BY <1>5 DEF NewIn
<1>7. \A t \in outbound : t \in Transfer
  BY DEF UsbInv, UsbWorld
<1>8. \A t, u \in outbound' : t.to = u.to => t = u
  <2> SUFFICES ASSUME NEW t \in outbound', NEW u \in outbound', t.to = u.to PROVE t = u
    OBVIOUS
  <2>1. PICK v \in outbound : t = IF v.to = a THEN Back(v) ELSE v
    BY <1>1
  <2>2. PICK w \in outbound : u = IF w.to = a THEN Back(w) ELSE w
    BY <1>1
  <2>3. v.to = t.to /\ w.to = u.to
    BY <1>7, <2>1, <2>2, TransfersGoOn
  <2>4. v = w
    BY <2>3 DEF GreetInv
  <2> QED
    BY <2>1, <2>2, <2>4
<1> QED
  BY <1>1, <1>2, <1>6, <1>7, <1>8, TransfersComeBack

LEMMA StallKeepsGreeting == ASSUME GreetInv, UsbInv, NEW t \in outbound, Stall(t) PROVE GreetInv'
<1>1. /\ outbound' = (outbound \ {t}) \cup {Back(t)}
      /\ UNCHANGED <<profile, kinds, greeted, news>>
  BY DEF Stall, worldVars
<1>2. \A u \in outbound : u \in Transfer
  BY DEF UsbInv, UsbWorld
<1>3. Back(t).to = t.to
  BY <1>2, TransfersGoOn
<1>4. \A u, v \in outbound' : u.to = v.to => u = v
  BY <1>1, <1>3 DEF GreetInv
<1>5. \A u \in outbound' : \E v \in outbound : u = v \/ u = Back(v)
  BY <1>1
<1>6. \A i \in DOMAIN news' : NewIn(news', i) => NewIn(news, i) /\ news'[i] = news[i]
  BY <1>1
<1> QED
  BY <1>1, <1>2, <1>4, <1>5, <1>6, TransfersComeBack

LEMMA OutCallbackKeepsGreeting == ASSUME GreetInv, UsbInv, NEW t \in outbound, OutCallback(t) PROVE GreetInv'
<1>1. /\ outbound' = outbound \ {t}
      /\ UNCHANGED <<profile, kinds, greeted, news>>
  BY DEF OutCallback, worldVars
<1>2. \A u \in outbound : u \in Transfer
  BY DEF UsbInv, UsbWorld
<1>3. /\ \A u, v \in outbound' : u.to = v.to => u = v
      /\ \A u \in outbound' : \E v \in outbound : u = v \/ u = Back(v)
      /\ \A i \in DOMAIN news' : NewIn(news', i) => NewIn(news, i) /\ news'[i] = news[i]
  BY <1>1 DEF GreetInv
<1> QED
  BY <1>1, <1>2, <1>3, TransfersComeBack

(* A packet that is taken brings the device and the transfer to the next place. *)
LEMMA DeliverKeepsGreeting == ASSUME GreetInv, UsbInv, NEW t \in outbound, Deliver(t) PROVE GreetInv'
<1> DEFINE a == t.to
           next == Take(greeted[a], EventPacket(t.blob, t.pos))
<1>1. /\ t.state = "flying"
      /\ outbound' = (outbound \ {t}) \cup {Onward(t)}
      /\ greeted' = [greeted EXCEPT ![a] = next]
      /\ UNCHANGED <<profile, kinds, news>>
  BY DEF Deliver
<1>2. /\ profile \in Seq(Nat \ {0}) /\ Len(profile) \in Nat
      /\ greeted \in Seq(Understanding) /\ Len(greeted) = Len(kinds)
      /\ t.to \in Addresses /\ t.blob \in DOMAIN profile /\ t.pos < profile[t.blob]
      /\ greeted[a] = UpTo(profile, t.blob, t.pos)
  BY <1>1 DEF GreetInv, TransferIsAt
<1>3. \A u \in outbound : u \in Transfer
  BY DEF UsbInv, UsbWorld
<1>4. t.pos \in Nat /\ t.blob \in Nat \ {0} /\ t.blob <= Len(profile)
  BY <1>2, <1>3 DEF Transfer
<1>5. /\ t.pos + 3 < profile[t.blob] => next = UpTo(profile, t.blob, t.pos + 3)
      /\ ~ (t.pos + 3 < profile[t.blob]) => next = UpTo(profile, t.blob + 1, 0)
  BY <1>2, <1>4, PacketIsUnderstood
<1> HIDE DEF next
<1>6. next \in Understanding /\ OneAfterTheOther(profile, next)
  <2>1. CASE t.pos + 3 < profile[t.blob]
    <3>1. t.pos + 3 \in Nat /\ t.blob <= Len(profile) + 1
      BY <1>2, <1>4
    <3> QED
      BY <1>2, <1>4, <1>5, <2>1, <3>1, UpToIsUnderstood
  <2>2. CASE ~ (t.pos + 3 < profile[t.blob])
    <3>1. t.blob + 1 \in Nat \ {0} /\ t.blob + 1 <= Len(profile) + 1 /\ 0 \in Nat
      BY <1>2, <1>4
    <3> QED
      BY <1>2, <1>5, <2>2, <3>1, UpToIsUnderstood
  <2> QED
    BY <2>1, <2>2
<1>7. /\ greeted' \in Seq(Understanding) /\ Len(greeted') = Len(kinds)
      /\ greeted'[a] = next
      /\ \A b \in Addresses : b # a => greeted'[b] = greeted[b]
  BY <1>1, <1>2, <1>6 DEF Addresses
<1>8. Addresses' = Addresses
  BY <1>1 DEF Addresses
<1>9. \A b \in Addresses' : OneAfterTheOther(profile', greeted'[b])
  BY <1>1, <1>6, <1>7, <1>8 DEF GreetInv
<1>10. PICK u : u = Onward(t)
  OBVIOUS
<1>11. /\ u.to = a
       /\ u.blob = IF t.pos + 3 < profile[t.blob] THEN t.blob ELSE t.blob + 1
       /\ u.pos = IF t.pos + 3 < profile[t.blob] THEN t.pos + 3 ELSE 0
       /\ u.state = IF t.pos + 3 < profile[t.blob] THEN t.state
                    ELSE IF t.blob = Len(profile) THEN "back" ELSE "flying"
  BY <1>3, <1>10, TransfersGoOn
<1>12. TransferIsAt(u)'
  <2>1. CASE t.pos + 3 < profile[t.blob]
    BY <1>1, <1>2, <1>4, <1>5, <1>7, <1>8, <1>11, <2>1 DEF TransferIsAt
  <2>2. CASE ~ (t.pos + 3 < profile[t.blob]) /\ t.blob = Len(profile)
    BY <1>1, <1>2, <1>4, <1>5, <1>7, <1>8, <1>11, <2>2 DEF TransferIsAt
  <2>3. CASE ~ (t.pos + 3 < profile[t.blob]) /\ t.blob # Len(profile)
    <3>1. t.blob + 1 \in DOMAIN profile /\ profile[t.blob + 1] \in Nat \ {0}
      BY <1>2, <1>4, <2>3
    <3>2. u.blob = t.blob + 1 /\ u.pos = 0 /\ 0 < profile[u.blob] /\ ~ (u.blob > Len(profile))
      BY <1>2, <1>4, <1>11, <2>3, <3>1
    <3> QED
      BY <1>1, <1>2, <1>5, <1>7, <1>8, <1>11, <2>3, <3>1, <3>2 DEF TransferIsAt
  <2> QED
    BY <2>1, <2>2, <2>3
<1>13. \A v \in outbound : v # t => v.to # a /\ TransferIsAt(v) /\ v.to \in Addresses
  BY DEF GreetInv, TransferIsAt
<1>14. \A v \in outbound' : v = u \/ (v \in outbound /\ v # t)
  BY <1>1, <1>10
<1>15. \A v \in outbound' : TransferIsAt(v)'
  <2> SUFFICES ASSUME NEW v \in outbound', v \in outbound, v # t PROVE TransferIsAt(v)'
    BY <1>12, <1>14
  <2>1. greeted'[v.to] = greeted[v.to]
    BY <1>7, <1>13
  <2> QED
    BY <1>1, <1>8, <1>13, <2>1 DEF TransferIsAt
<1>16. \A v, w \in outbound' : v.to = w.to => v = w
  BY <1>11, <1>13, <1>14 DEF GreetInv
<1>17. \A i \in DOMAIN news : NewIn(news, i) =>
         greeted'[news[i].address] = UpTo(profile, 1, 0) /\ \A v \in outbound' : v.to # news[i].address
  <2> SUFFICES ASSUME NEW i \in DOMAIN news, NewIn(news, i)
               PROVE  greeted'[news[i].address] = UpTo(profile, 1, 0) /\ \A v \in outbound' : v.to # news[i].address
    OBVIOUS
  <2>1. IsUnknown(news[i].address) /\ news[i].address \in Addresses
    BY DEF GreetInv, UsbInv, UsbWorld
  <2>2. news[i].address # a
    BY <2>1 DEF IsUnknown
  <2> QED
    BY <1>7, <1>11, <1>14, <2>1, <2>2 DEF IsUnknown
<1>18. \A i, j \in DOMAIN news : NewIn(news, i) /\ NewIn(news, j) /\ i # j => news[i].address # news[j].address
  BY DEF GreetInv
<1> QED
  BY <1>1, <1>2, <1>7, <1>9, <1>15, <1>16, <1>17, <1>18 DEF GreetInv, IsUnknown

(* A controller is greeted once, and was sent nothing before.                  *)
LEMMA NewDeviceKeepsGreeting == ASSUME GreetInv, UsbInv, NewDevice PROVE GreetInv'
<1>1. PICK a : a = Head(news).address
  OBVIOUS
<1>2. /\ Delivered("new")
      /\ Greet(a)
      /\ UNCHANGED <<profile, kinds, greeted>>
  BY <1>1 DEF NewDevice
<1>3. PICK t : t = [to |-> a, blob |-> 1, pos |-> 0, state |-> "flying"]
  OBVIOUS
<1>4. t.to = a /\ t.blob = 1 /\ t.pos = 0
  BY <1>3
<1>5. CASE outbound' = outbound
  BY <1>2, <1>5, NewsLeaveGreeting
<1>6. CASE profile # <<>> /\ outbound' = outbound \cup {t}
  <2>1. IsUnknown(a) /\ a \in Addresses
    BY <1>1, <1>2, NewsLeaveUnknown, NewsAreTaken
  <2>2. profile \in Seq(Nat \ {0}) /\ 1 \in DOMAIN profile /\ 0 < profile[1] /\ ~ (1 > Len(profile))
    BY <1>6 DEF GreetInv
  <2>3. Addresses' = Addresses
    BY <1>2 DEF Addresses
  <2>4. TransferIsAt(t)'
    BY <1>2, <1>4, <2>1, <2>2, <2>3 DEF TransferIsAt, IsUnknown
  <2>5. \A u \in outbound : TransferIsAt(u)'
    BY <1>2, <2>3 DEF GreetInv, TransferIsAt
  <2>6. \A u, v \in outbound' : u.to = v.to => u = v
    BY <1>4, <1>6, <2>1 DEF GreetInv, IsUnknown
  <2>7. \A i \in DOMAIN news' : NewIn(news', i) =>
          greeted'[news'[i].address] = UpTo(profile', 1, 0) /\ \A u \in outbound' : u.to # news'[i].address
    <3> SUFFICES ASSUME NEW i \in DOMAIN news', NewIn(news', i)
                 PROVE  /\ greeted'[news'[i].address] = UpTo(profile', 1, 0)
                        /\ \A u \in outbound' : u.to # news'[i].address
      OBVIOUS
    <3>1. IsUnknown(news'[i].address) /\ news'[i].address # a
      BY <1>1, <1>2, NewsLeaveUnknown
    <3> QED
      BY <1>2, <1>4, <1>6, <3>1 DEF IsUnknown
  <2>8. \A i, j \in DOMAIN news' :
          NewIn(news', i) /\ NewIn(news', j) /\ i # j => news'[i].address # news'[j].address
    BY <1>2, NewsLeaveUnknown
  <2>9. \A b \in Addresses' : OneAfterTheOther(profile', greeted'[b])
    BY <1>2, <2>3 DEF GreetInv
  <2> QED
    BY <1>2, <1>6, <2>4, <2>5, <2>6, <2>7, <2>8, <2>9 DEF GreetInv, IsUnknown
<1> QED
  BY <1>2, <1>3, <1>5, <1>6 DEF Greet

LEMMA GreetInvariant == UsbSpec => []GreetInv
<1>1. UsbInit => GreetInv
  BY UsbAssumption DEF UsbAssumption, UsbInit, GreetInv, Addresses, NewIn
<1>2. GreetInv /\ UsbInv /\ [UsbNext]_usbVars => GreetInv'
  <2> SUFFICES ASSUME GreetInv, UsbInv, [UsbNext]_usbVars PROVE GreetInv'
    OBVIOUS
  <2>1. CASE StartDriver
    BY <2>1, GreetStays DEF StartDriver, worldVars
  <2>2. CASE \E k \in Kind : Plug(k)
    BY <2>2, PlugKeepsGreeting
  <2>3. CASE \E a \in plugged : Unplug(a)
    BY <2>3, UnplugKeepsGreeting
  <2>4. CASE \E n \in 0 .. 2 : \E packets \in [1 .. n -> PacketSort] : Play(packets)
    BY <2>4, GreetStays DEF Play
  <2>5. CASE Glitch
    BY <2>5, GreetStays DEF Glitch, worldVars
  <2>6. CASE \E t \in outbound : Deliver(t) \/ Stall(t) \/ OutCallback(t)
    BY <2>6, DeliverKeepsGreeting, StallKeepsGreeting, OutCallbackKeepsGreeting
  <2>7. CASE HandlePacket \/ InCallback
    BY <2>7, GreetStays DEF HandlePacket, InCallback, worldVars
  <2>8. CASE NewDeviceFails
    BY <2>8, NewsLeaveGreeting DEF NewDeviceFails
  <2>9. CASE NewDevice
    BY <2>9, NewDeviceKeepsGreeting
  <2>10. CASE DeviceGone
    BY <2>10, NewsLeaveGreeting DEF DeviceGone
  <2>11. CASE OtherGone
    BY <2>11, NewsLeaveGreeting DEF OtherGone, driverVars
  <2>12. CASE UNCHANGED usbVars
    BY <2>12, GreetStays DEF usbVars, driverVars, worldVars
  <2> QED
    BY <2>1, <2>2, <2>3, <2>4, <2>5, <2>6, <2>7, <2>8, <2>9, <2>10, <2>11, <2>12 DEF UsbNext
<1> QED
  BY <1>1, <1>2, UsbInvariant, PTL DEF UsbSpec

LEMMA GreetingsAreWhole == GreetInv /\ UsbInv => GreetingWhole
<1> SUFFICES ASSUME GreetInv, UsbInv PROVE GreetingWhole
  OBVIOUS
<1>1. \A b : BlobBytes(b) = InitBlob(profile, b)
  BY DEF BlobBytes, InitBlob
<1>2. /\ profile \in Seq(Nat \ {0}) /\ Len(profile) \in Nat /\ DOMAIN profile = 1 .. Len(profile)
      /\ greeted \in Seq(Understanding) /\ DOMAIN greeted = Addresses
  BY DEF GreetInv, Addresses
<1>3. ASSUME NEW a \in DOMAIN greeted
      PROVE  /\ Len(greeted[a].whole) <= Len(profile)
             /\ greeted[a].whole = [b \in 1 .. Len(greeted[a].whole) |-> BlobBytes(b)]
  <2>1. OneAfterTheOther(profile, greeted[a])
    BY <1>2 DEF GreetInv
  <2> QED
    BY <1>1, <2>1 DEF OneAfterTheOther
<1>4. ASSUME NEW t \in outbound, t.blob > Len(profile)
      PROVE  greeted[t.to] = [part |-> <<>>, whole |-> [b \in DOMAIN profile |-> BlobBytes(b)]]
  <2>1. greeted[t.to] = UpTo(profile, Len(profile) + 1, 0)
    BY <1>4 DEF GreetInv, TransferIsAt
  <2>2. (Len(profile) + 1) - 1 = Len(profile)
    BY <1>2
  <2>3. [i \in 1 .. 0 |-> <<Len(profile) + 1, i>>] = <<>>
    OBVIOUS
  <2>4. [b \in DOMAIN profile |-> BlobBytes(b)] = [b \in 1 .. Len(profile) |-> InitBlob(profile, b)]
    BY <1>1, <1>2
  <2> QED
    BY <2>1, <2>2, <2>3, <2>4 DEF UpTo
<1> QED
  BY <1>3, <1>4 DEF GreetingWhole

(* The port is faithful in both directions (in_transfer_cb,                    *)
(* packUsbMidiEventPackets): what is played is pushed once and in order        *)
(* whatever fails or is pulled in between, and a controller understands the    *)
(* initial messages one after the other, of any number and any length.         *)
THEOREM PortStaysFaithful == UsbSpec => []PortIsFaithful
<1>1. PacketsInv /\ GreetInv /\ UsbInv => PortIsFaithful
  BY PacketsArrive, GreetingsAreWhole DEF PortIsFaithful
<1> QED
  BY <1>1, UsbInvariant, PacketsInvariant, GreetInvariant, PTL

--------------------------------------------------------------------------------
(* What scripts define.                                                        *)

CueRecord ==
  [name : CueName, effects : SUBSET (Nat \ {0}), active : BOOLEAN, released : BOOLEAN, manual : BOOLEAN,
   by : {"none", "name", "number"}]

EffectRecord == [disabled : BOOLEAN, reported : BOOLEAN, heard : Nat]

\* A name leads to a cue that was defined under it.
CuesInv ==
  /\ cues \in Seq(CueRecord)
  /\ cueOf \in [CueName -> Nat]
  /\ \A n \in CueName : cueOf[n] # 0 => cueOf[n] \in DOMAIN cues /\ cues[cueOf[n]].name = n
  /\ OlderVersionsRest

\* Cues only run effects that are kept.
EffectsInv ==
  /\ effects \in Seq(EffectRecord)
  /\ \A i \in DOMAIN cues : cues[i].effects \subseteq DOMAIN effects
  /\ due \subseteq DOMAIN cues
  /\ turn \subseteq DOMAIN effects
  /\ running \in DOMAIN effects \cup {0}
  /\ EffectsFailOnce

GlowInv == CuesInv /\ EffectsInv

\* What a step that goes, releases or fades cues may do to one of them.
Moved(new, old, latest) ==
  /\ new \in CueRecord
  /\ new.name = old.name /\ new.effects = old.effects
  /\ new.active /\ ~ new.released =>
       \/ new.by = "number"
       \/ latest
       \/ old.active /\ ~ old.released /\ new.by = old.by

CuesMove ==
  /\ DOMAIN cues' = DOMAIN cues
  /\ \E n \in Nat : DOMAIN cues' = 1 .. n
  /\ cues' = [i \in DOMAIN cues' |-> cues'[i]]
  /\ \A i \in DOMAIN cues : Moved(cues'[i], cues[i], cueOf[cues[i].name] = i)

(* Cues that move stay under their names, and older versions stay at rest.     *)
LEMMA MovedCues == ASSUME CuesInv, CuesMove, UNCHANGED cueOf PROVE CuesInv'
<1>1. cues' \in Seq(CueRecord)
  BY DEF CuesMove, Moved
<1>2. OlderVersionsRest'
  <2> SUFFICES ASSUME NEW i \in DOMAIN cues', Held(i)', cueOf'[cues'[i].name] # i
               PROVE  cues'[i].by = "number"
    BY DEF OlderVersionsRest
  <2>1. i \in DOMAIN cues /\ Moved(cues'[i], cues[i], cueOf[cues[i].name] = i)
    BY DEF CuesMove
  <2>2. CASE cues[i].active /\ ~ cues[i].released /\ cues'[i].by = cues[i].by
    BY <2>1, <2>2 DEF CuesInv, OlderVersionsRest, Held, Moved
  <2> QED
    BY <2>1, <2>2 DEF Held, Moved
<1>3. \A n \in CueName : cueOf'[n] # 0 => cueOf'[n] \in DOMAIN cues' /\ cues'[cueOf'[n]].name = n
  BY DEF CuesInv, CuesMove, Moved
<1> QED
  BY <1>1, <1>2, <1>3 DEF CuesInv

LEMMA MovedKeepEffects ==
  ASSUME EffectsInv, CuesMove, UNCHANGED effects,
         due' \subseteq due, turn' \subseteq DOMAIN effects, UNCHANGED <<busy, open, running>>
  PROVE  EffectsInv'
BY DEF EffectsInv, EffectsFailOnce, CuesMove, Moved

(* The ways cues move.                                                         *)
LEMMA CueFields ==
  ASSUME CuesInv, NEW i \in DOMAIN cues
  PROVE  /\ cues[i] \in CueRecord
         /\ cues[i] = [name |-> cues[i].name, effects |-> cues[i].effects, active |-> cues[i].active,
                       released |-> cues[i].released, manual |-> cues[i].manual, by |-> cues[i].by]
<1>1. cues[i] \in CueRecord
  BY DEF CuesInv
<1> QED
  BY <1>1 DEF CueRecord

LEMMA CuesAreCounted == CuesInv => \E n \in Nat : DOMAIN cues = 1 .. n
BY DEF CuesInv

LEMMA GoMoves ==
  ASSUME CuesInv, NEW ids, NEW by \in {"name", "number"}, Go(ids, by),
         by = "name" => \A i \in ids \cap DOMAIN cues : cueOf[cues[i].name] = i
  PROVE  CuesMove
<1>1. cues' = [i \in DOMAIN cues |->
        IF i \in ids THEN [cues[i] EXCEPT !.active = TRUE, !.released = FALSE, !.by = by] ELSE cues[i]]
  BY DEF Go
<1>2. ASSUME NEW i \in DOMAIN cues PROVE Moved(cues'[i], cues[i], cueOf[cues[i].name] = i)
  <2>1. cues[i] \in CueRecord
    BY CueFields
  <2>2. CASE i \in ids
    <3>1. cues'[i] = [cues[i] EXCEPT !.active = TRUE, !.released = FALSE, !.by = by]
      BY <1>1, <2>2
    <3>2. /\ cues'[i] \in CueRecord
          /\ cues'[i].name = cues[i].name /\ cues'[i].effects = cues[i].effects /\ cues'[i].by = by
      BY <2>1, <3>1 DEF CueRecord
    <3> QED
      BY <2>2, <3>2 DEF Moved
  <2>3. CASE i \notin ids
    BY <1>1, <2>1, <2>3 DEF Moved
  <2> QED
    BY <2>2, <2>3
<1> QED
  BY <1>1, <1>2, CuesAreCounted DEF CuesMove

LEMMA ReleasedIsMoved ==
  ASSUME NEW c \in CueRecord, NEW latest PROVE Moved(Released(c), c, latest)
<1>1. Released(c) = [c EXCEPT !.released = c.released \/ c.active]
  BY DEF Released
<1>2. /\ Released(c) \in CueRecord
      /\ Released(c).name = c.name /\ Released(c).effects = c.effects
      /\ Released(c).active = c.active /\ Released(c).released = (c.released \/ c.active)
  BY <1>1 DEF CueRecord
<1> QED
  BY <1>2 DEF Moved

LEMMA UnmovedIsMoved ==
  ASSUME NEW c \in CueRecord, NEW latest PROVE Moved(c, c, latest)
BY DEF Moved

LEMMA StoppedIsMoved ==
  ASSUME NEW c \in CueRecord, NEW d \in CueRecord, NEW latest,
         d.name = c.name, d.effects = c.effects, ~ d.active \/ d.by = "number"
  PROVE  Moved(d, c, latest)
BY DEF Moved

LEMMA ReleaseMoves == ASSUME CuesInv, NEW ids, Release(ids) PROVE CuesMove
<1>1. cues' = [i \in DOMAIN cues |-> IF i \in ids THEN Released(cues[i]) ELSE cues[i]]
  BY DEF Release
<1>2. ASSUME NEW i \in DOMAIN cues PROVE Moved(cues'[i], cues[i], cueOf[cues[i].name] = i)
  <2>1. cues[i] \in CueRecord
    BY CueFields
  <2> QED
    BY <1>1, <2>1, ReleasedIsMoved, UnmovedIsMoved
<1> QED
  BY <1>1, <1>2, CuesAreCounted DEF CuesMove

LEMMA LevelMoves == ASSUME CuesInv, NEW id, NEW level \in {0, 1}, SetManualLevel(id, level) PROVE CuesMove
<1>1. cues' = [cues EXCEPT ![id] =
        IF level > 0 THEN [cues[id] EXCEPT !.active = TRUE, !.released = FALSE, !.manual = TRUE, !.by = "number"]
        ELSE [cues[id] EXCEPT !.active = FALSE, !.manual = FALSE]]
  BY DEF SetManualLevel
<1>2. DOMAIN cues' = DOMAIN cues /\ cues' = [i \in DOMAIN cues' |-> cues'[i]]
  BY <1>1 DEF CuesInv
<1>3. ASSUME NEW i \in DOMAIN cues PROVE Moved(cues'[i], cues[i], cueOf[cues[i].name] = i)
  <2>1. cues[i] \in CueRecord
    BY CueFields
  <2>2. CASE i # id
    BY <1>1, <2>1, <2>2, UnmovedIsMoved DEF CuesInv
  <2>3. CASE i = id /\ level > 0
    <3>1. cues'[i] = [cues[i] EXCEPT !.active = TRUE, !.released = FALSE, !.manual = TRUE, !.by = "number"]
      BY <1>1, <2>3 DEF CuesInv
    <3>2. /\ cues'[i] \in CueRecord
          /\ cues'[i].name = cues[i].name /\ cues'[i].effects = cues[i].effects /\ cues'[i].by = "number"
      BY <2>1, <3>1 DEF CueRecord
    <3> QED
      BY <2>1, <3>2, StoppedIsMoved
  <2>4. CASE i = id /\ ~ (level > 0)
    <3>1. cues'[i] = [cues[i] EXCEPT !.active = FALSE, !.manual = FALSE]
      BY <1>1, <2>4 DEF CuesInv
    <3>2. /\ cues'[i] \in CueRecord
          /\ cues'[i].name = cues[i].name /\ cues'[i].effects = cues[i].effects /\ ~ cues'[i].active
      BY <2>1, <3>1 DEF CueRecord
    <3> QED
      BY <2>1, <3>2, StoppedIsMoved
  <2> QED
    BY <2>2, <2>3, <2>4
<1> QED
  BY <1>2, <1>3, CuesAreCounted DEF CuesMove

LEMMA StopMoves ==
  ASSUME CuesInv, cues' = [i \in DOMAIN cues |-> [cues[i] EXCEPT !.active = FALSE, !.released = FALSE, !.manual = FALSE]]
  PROVE  CuesMove
<1>1. ASSUME NEW i \in DOMAIN cues PROVE Moved(cues'[i], cues[i], cueOf[cues[i].name] = i)
  <2>1. cues[i] \in CueRecord /\ cues'[i] = [cues[i] EXCEPT !.active = FALSE, !.released = FALSE, !.manual = FALSE]
    BY CueFields
  <2>2. /\ cues'[i] \in CueRecord
        /\ cues'[i].name = cues[i].name /\ cues'[i].effects = cues[i].effects /\ ~ cues'[i].active
    BY <2>1 DEF CueRecord
  <2> QED
    BY <2>1, <2>2, StoppedIsMoved
<1> QED
  BY <1>1, CuesAreCounted DEF CuesMove

LEMMA RetireMoves ==
  ASSUME CuesInv, NEW k \in DOMAIN cues, cues' = [cues EXCEPT ![k].active = FALSE]
  PROVE  CuesMove
<1>1. DOMAIN cues' = DOMAIN cues /\ cues' = [i \in DOMAIN cues' |-> cues'[i]]
  BY DEF CuesInv
<1>2. ASSUME NEW i \in DOMAIN cues PROVE Moved(cues'[i], cues[i], cueOf[cues[i].name] = i)
  <2>1. cues[i] \in CueRecord
    BY CueFields
  <2>2. CASE i # k
    BY <2>1, <2>2, UnmovedIsMoved DEF CuesInv
  <2>3. CASE i = k
    <3>1. cues'[i] = [cues[i] EXCEPT !.active = FALSE]
      BY <2>3 DEF CuesInv
    <3>2. /\ cues'[i] \in CueRecord
          /\ cues'[i].name = cues[i].name /\ cues'[i].effects = cues[i].effects /\ ~ cues'[i].active
      BY <2>1, <3>1 DEF CueRecord
    <3> QED
      BY <2>1, <3>2, StoppedIsMoved
  <2> QED
    BY <2>2, <2>3
<1> QED
  BY <1>1, <1>2, CuesAreCounted DEF CuesMove

(* A form that neither moves cues nor makes effects.                           *)
LEMMA ShowStays ==
  ASSUME GlowInv, UNCHANGED <<showVars, busy, open, running>>, due' = due, turn' = turn
  PROVE  GlowInv'
BY DEF GlowInv, CuesInv, EffectsInv, OlderVersionsRest, Held, EffectsFailOnce, showVars

(* What moves cues, and leaves effects and the task alone.                     *)
LEMMA MovesKeepGlowInv ==
  ASSUME GlowInv, CuesMove, UNCHANGED <<cueOf, effects, busy, open, running, due, turn>>
  PROVE  GlowInv'
<1>1. CuesInv'
  BY MovedCues DEF GlowInv
<1>2. EffectsInv'
  <2>1. due' \subseteq due /\ turn' \subseteq DOMAIN effects
    BY DEF GlowInv, EffectsInv
  <2> QED
    BY <2>1, MovedKeepEffects DEF GlowInv
<1> QED
  BY <1>1, <1>2 DEF GlowInv

LEMMA FormStays == Form => UNCHANGED <<busy, scripts, open, due, turn, running>>
BY DEF Form

LEMMA PlayedKeepsGlowInv == ASSUME GlowInv, Played PROVE GlowInv'
<1>1. UNCHANGED <<cueOf, effects, busy, open, running, due, turn>>
  BY DEF Played, taskVars
<1>2. CuesInv
  BY DEF GlowInv
<1>3. CASE \E c \in Control :
             Go({bound[c]}, "number") \/ Release({bound[c]}) \/ \E level \in {0, 1} : SetManualLevel(bound[c], level)
  <2>1. CuesMove
    BY <1>2, <1>3, GoMoves, ReleaseMoves, LevelMoves
  <2> QED
    BY <1>1, <2>1, MovesKeepGlowInv
<1>4. CASE \E s \in DOMAIN scenes : Go(scenes[s], "number")
  <2>1. CuesMove
    BY <1>2, <1>4, GoMoves
  <2> QED
    BY <1>1, <2>1, MovesKeepGlowInv
<1>5. CASE cues' = [i \in DOMAIN cues |-> [cues[i] EXCEPT !.active = FALSE, !.released = FALSE, !.manual = FALSE]]
  <2>1. CuesMove
    BY <1>2, <1>5, StopMoves
  <2> QED
    BY <1>1, <2>1, MovesKeepGlowInv
<1> QED
  BY <1>3, <1>4, <1>5 DEF Played

LEMMA CueGoKeepsGlowInv == ASSUME GlowInv, NEW n \in CueName, CueGo(n) PROVE GlowInv'
<1>1. UNCHANGED <<cueOf, effects, busy, open, running, due, turn>>
  BY FormStays DEF CueGo
<1>2. Go({cueOf[n]}, "name") /\ cueOf[n] # 0
  BY DEF CueGo
<1>3. \A i \in {cueOf[n]} \cap DOMAIN cues : cueOf[cues[i].name] = i
  BY <1>2 DEF GlowInv, CuesInv
<1>4. CuesMove
  BY <1>2, <1>3, GoMoves DEF GlowInv
<1> QED
  BY <1>1, <1>4, MovesKeepGlowInv

LEMMA CueReleaseKeepsGlowInv == ASSUME GlowInv, NEW n \in CueName, CueRelease(n) PROVE GlowInv'
<1>1. UNCHANGED <<cueOf, effects, busy, open, running, due, turn>>
  BY FormStays DEF CueRelease
<1>2. CuesMove
  BY ReleaseMoves DEF GlowInv, CueRelease
<1> QED
  BY <1>1, <1>2, MovesKeepGlowInv

LEMMA SceneFormsKeepGlowInv ==
  ASSUME GlowInv, NEW s \in SceneName, SceneGo(s) \/ SceneRelease(s)
  PROVE  GlowInv'
<1>1. UNCHANGED <<cueOf, effects, busy, open, running, due, turn>>
  BY FormStays DEF SceneGo, SceneRelease
<1>2. CuesMove
  BY GoMoves, ReleaseMoves DEF GlowInv, SceneGo, SceneRelease
<1> QED
  BY <1>1, <1>2, MovesKeepGlowInv

(* Effects that are made are whole, and the earlier ones stay.                 *)
LEMMA EffectsAreMade ==
  ASSUME effects \in Seq(EffectRecord), NEW k \in Nat, NEW fx, fx = effects \o NewEffects(k)
  PROVE  /\ fx \in Seq(EffectRecord)
         /\ DOMAIN effects \subseteq DOMAIN fx
         /\ Len(effects) + 1 .. Len(effects) + k \subseteq DOMAIN fx
         /\ \A e \in DOMAIN effects : fx[e] = effects[e]
         /\ \A e \in DOMAIN fx : e \in DOMAIN effects \/ fx[e] = [disabled |-> FALSE, reported |-> FALSE, heard |-> 0]
<1>1. NewEffects(k) \in Seq(EffectRecord) /\ Len(NewEffects(k)) = k
  BY DEF NewEffects, EffectRecord
<1>2. \A i \in 1 .. k : NewEffects(k)[i] = [disabled |-> FALSE, reported |-> FALSE, heard |-> 0]
  BY DEF NewEffects
<1>3. fx \in Seq(EffectRecord) /\ Len(fx) = Len(effects) + k
  BY <1>1
<1>4. \A e \in DOMAIN fx :
        fx[e] = IF e <= Len(effects) THEN effects[e] ELSE NewEffects(k)[e - Len(effects)]
  BY <1>1
<1>5. PICK n \in Nat : n = Len(effects) /\ DOMAIN effects = 1 .. n /\ DOMAIN fx = 1 .. n + k
  BY <1>3
<1>6. ASSUME NEW e \in DOMAIN fx, e \notin DOMAIN effects
      PROVE  fx[e] = [disabled |-> FALSE, reported |-> FALSE, heard |-> 0]
  <2>1. ~ (e <= n) /\ e - n \in 1 .. k
    BY <1>5, <1>6
  <2> QED
    BY <1>2, <1>4, <1>5, <2>1
<1>7. \A e \in DOMAIN effects : e \in DOMAIN fx /\ fx[e] = effects[e]
  BY <1>4, <1>5
<1>8. n + 1 .. n + k \subseteq DOMAIN fx
  BY <1>5
<1> QED
  BY <1>3, <1>5, <1>6, <1>7, <1>8

(* A definition releases the version before it, and takes its name.            *)
LEMMA DefinedCues ==
  ASSUME CuesInv, NEW n \in CueName, NEW fx \in SUBSET (Nat \ {0}),
         cues' = Append(Superseded(n), Cue(n, fx)),
         cueOf' = [cueOf EXCEPT ![n] = Len(cues) + 1]
  PROVE  /\ CuesInv'
         /\ DOMAIN cues' = 1 .. Len(cues) + 1
         /\ \A i \in DOMAIN cues : cues'[i].effects = cues[i].effects
         /\ cues'[Len(cues) + 1].effects = fx
<1> DEFINE new == Cue(n, fx)
           before == Superseded(n)
           last == Len(cues) + 1
<1>1. /\ new \in CueRecord /\ new.name = n /\ ~ new.active /\ new.effects = fx
  BY DEF Cue, CueRecord
<1>2. cues \in Seq(CueRecord) /\ Len(cues) \in Nat
  BY DEF CuesInv
<1>3. /\ before \in Seq(CueRecord) /\ Len(before) = Len(cues)
      /\ \A i \in DOMAIN cues :
           /\ before[i].name = cues[i].name /\ before[i].effects = cues[i].effects /\ before[i].by = cues[i].by
           /\ before[i].active /\ ~ before[i].released => cues[i].active /\ ~ cues[i].released /\ i # cueOf[n]
  <2>1. CASE ~ (cueOf[n] # 0 /\ cues[cueOf[n]].active)
    <3>1. before = cues
      BY <2>1 DEF Superseded
    <3>2. \A i \in DOMAIN cues : cues[i].active => i # cueOf[n]
      BY <1>2, <2>1
    <3> QED
      BY <1>2, <3>1, <3>2
  <2>2. CASE cueOf[n] # 0 /\ cues[cueOf[n]].active
    <3>1. PICK old \in DOMAIN cues : old = cueOf[n] /\ cues[old] \in CueRecord
      BY <2>2, CueFields DEF CuesInv
    <3>2. before = [cues EXCEPT ![old] = Released(cues[old])]
      BY <2>2, <3>1 DEF Superseded
    <3>3. PICK r : r = Released(cues[old])
      OBVIOUS
    <3>4. /\ r \in CueRecord /\ r.name = cues[old].name /\ r.effects = cues[old].effects
          /\ r.by = cues[old].by /\ r.released
      <4>1. r = [cues[old] EXCEPT !.released = cues[old].released \/ cues[old].active]
        BY <3>3 DEF Released
      <4>2. PICK c \in CueRecord : c = cues[old]
        BY <3>1
      <4>3. r = [name |-> c.name, effects |-> c.effects, active |-> c.active, released |-> TRUE,
                 manual |-> c.manual, by |-> c.by]
        BY <2>2, <3>1, <4>1, <4>2 DEF CueRecord
      <4> QED
        BY <4>2, <4>3 DEF CueRecord
    <3>5. /\ before \in Seq(CueRecord) /\ Len(before) = Len(cues)
          /\ before[old] = r /\ \A i \in DOMAIN cues : i # old => before[i] = cues[i]
      BY <1>2, <3>2, <3>3, <3>4
    <3> QED
      BY <3>1, <3>4, <3>5
  <2> QED
    BY <2>1, <2>2
<1> HIDE DEF new, before
<1>4. cues' = Append(before, new)
  BY DEF before, new
<1>5. /\ cues' \in Seq(CueRecord) /\ DOMAIN cues' = 1 .. last
      /\ cues'[last] = new /\ \A i \in DOMAIN cues : cues'[i] = before[i]
  BY <1>1, <1>2, <1>3, <1>4
<1>6. DOMAIN cues = 1 .. Len(cues) /\ last \notin DOMAIN cues /\ \A i \in DOMAIN cues' : i = last \/ i \in DOMAIN cues
  BY <1>2, <1>5
<1>7. /\ cueOf' \in [CueName -> Nat] /\ cueOf'[n] = last
      /\ \A m \in CueName : m # n => cueOf'[m] = cueOf[m]
  BY <1>2 DEF CuesInv
<1>8. \A m \in CueName : cueOf'[m] # 0 => cueOf'[m] \in DOMAIN cues' /\ cues'[cueOf'[m]].name = m
  <2> SUFFICES ASSUME NEW m \in CueName, cueOf'[m] # 0
               PROVE  cueOf'[m] \in DOMAIN cues' /\ cues'[cueOf'[m]].name = m
    OBVIOUS
  <2>1. CASE m = n
    BY <1>1, <1>2, <1>5, <1>7, <2>1
  <2>2. CASE m # n
    <3>1. cueOf'[m] \in DOMAIN cues /\ cues[cueOf'[m]].name = m
      BY <1>7, <2>2 DEF CuesInv
    <3> QED
      BY <1>3, <1>5, <1>6, <3>1
  <2> QED
    BY <2>1, <2>2
<1>9. OlderVersionsRest'
  <2> SUFFICES ASSUME NEW i \in DOMAIN cues', Held(i)', cueOf'[cues'[i].name] # i
               PROVE  cues'[i].by = "number"
    BY DEF OlderVersionsRest
  <2>1. i \in DOMAIN cues
    BY <1>1, <1>5, <1>6 DEF Held
  <2>2. /\ cues'[i].name = cues[i].name /\ cues'[i].by = cues[i].by
        /\ cues[i].active /\ ~ cues[i].released /\ i # cueOf[n]
    BY <1>3, <1>5, <2>1 DEF Held
  <2>3. cues[i].name \in CueName
    BY <2>1, CueFields DEF CueRecord
  <2>4. cueOf[cues[i].name] # i
    BY <1>7, <2>2, <2>3
  <2> QED
    BY <2>1, <2>2, <2>4 DEF CuesInv, OlderVersionsRest, Held
<1>10. CuesInv'
  BY <1>5, <1>7, <1>8, <1>9 DEF CuesInv
<1> QED
  BY <1>1, <1>3, <1>5, <1>10

LEMMA CueDefineKeepsGlowInv ==
  ASSUME GlowInv, NEW n \in CueName, NEW k \in Nat, CueDefine(n, k) PROVE GlowInv'
<1> DEFINE fx == Len(effects) + 1 .. Len(effects) + k
<1>1. /\ effects' = effects \o NewEffects(k)
      /\ cues' = Append(Superseded(n), Cue(n, fx))
      /\ cueOf' = [cueOf EXCEPT ![n] = Len(cues) + 1]
      /\ UNCHANGED <<busy, open, due, turn, running>>
  BY FormStays DEF CueDefine
<1>2. effects \in Seq(EffectRecord) /\ cues \in Seq(CueRecord)
  BY DEF GlowInv, EffectsInv, CuesInv
<1>3. fx \in SUBSET (Nat \ {0})
  BY <1>2
<1>4. /\ effects' \in Seq(EffectRecord)
      /\ DOMAIN effects \subseteq DOMAIN effects' /\ fx \subseteq DOMAIN effects'
      /\ \A e \in DOMAIN effects : effects'[e] = effects[e]
      /\ \A e \in DOMAIN effects' :
           e \in DOMAIN effects \/ effects'[e] = [disabled |-> FALSE, reported |-> FALSE, heard |-> 0]
  BY <1>1, <1>2, EffectsAreMade
<1> HIDE DEF fx
<1>5. /\ CuesInv'
      /\ DOMAIN cues' = 1 .. Len(cues) + 1
      /\ \A i \in DOMAIN cues : cues'[i].effects = cues[i].effects
      /\ cues'[Len(cues) + 1].effects = fx
  BY <1>1, <1>3, DefinedCues DEF GlowInv
<1>6. DOMAIN cues \subseteq DOMAIN cues' /\ \A i \in DOMAIN cues' : i = Len(cues) + 1 \/ i \in DOMAIN cues
  BY <1>2, <1>5
<1>7. EffectsFailOnce'
  BY <1>1, <1>4 DEF GlowInv, EffectsInv, EffectsFailOnce
<1>8. \A i \in DOMAIN cues' : cues'[i].effects \subseteq DOMAIN effects'
  BY <1>4, <1>5, <1>6 DEF GlowInv, EffectsInv
<1> QED
  BY <1>1, <1>4, <1>5, <1>6, <1>7, <1>8 DEF GlowInv, EffectsInv

(* A script that comes back: an effect's context is closed behind it.          *)
LEMMA ReturnCloses ==
  ASSUME GlowInv, Scripting, Return, UNCHANGED <<cues, cueOf>>,
         effects' \in Seq(EffectRecord), DOMAIN effects \subseteq DOMAIN effects',
         \A e \in DOMAIN effects' :
           /\ effects'[e].heard = (IF effects'[e].reported THEN 1 ELSE 0)
           /\ effects'[e].reported => effects'[e].disabled
  PROVE  GlowInv'
<1>1. /\ busy' = (IF busy = "effect" THEN "frame" ELSE "idle")
      /\ open' = FALSE /\ running' = 0 /\ due' = due /\ turn' = turn
  BY DEF Return
<1>2. CuesInv'
  BY DEF GlowInv, CuesInv, OlderVersionsRest, Held
<1>3. EffectsInv'
  BY <1>1 DEF GlowInv, EffectsInv, EffectsFailOnce
<1> QED
  BY <1>2, <1>3 DEF GlowInv

LEMMA ScriptEndsKeepsGlowInv == ASSUME GlowInv, ScriptEnds PROVE GlowInv'
<1>1. UNCHANGED <<cues, cueOf, effects>> /\ Scripting /\ Return
  BY DEF ScriptEnds, showVars
<1> QED
  BY <1>1, ReturnCloses DEF GlowInv, EffectsInv, EffectsFailOnce

LEMMA ScriptFailsKeepsGlowInv == ASSUME GlowInv, ScriptFails PROVE GlowInv'
<1>1. /\ UNCHANGED <<cues, cueOf>> /\ Scripting /\ Return
      /\ effects' = IF running = 0 THEN effects ELSE [effects EXCEPT ![running].disabled = TRUE]
  BY DEF ScriptFails, Disabled
<1>2. /\ effects \in Seq(EffectRecord) /\ running \in DOMAIN effects \cup {0}
      /\ \A e \in DOMAIN effects :
           /\ effects[e].heard = (IF effects[e].reported THEN 1 ELSE 0)
           /\ effects[e].reported => effects[e].disabled
  BY DEF GlowInv, EffectsInv, EffectsFailOnce
<1>3. CASE running = 0
  BY <1>1, <1>2, <1>3, ReturnCloses
<1>4. CASE running # 0
  <2>1. PICK r \in DOMAIN effects : r = running
    BY <1>2, <1>4
  <2>2. PICK fx : fx = effects[r] /\ fx \in EffectRecord
    BY <1>2, <2>1
  <2>3. PICK broken : broken = [fx EXCEPT !.disabled = TRUE]
    OBVIOUS
  <2>4. /\ broken \in EffectRecord /\ broken.disabled
        /\ broken.reported = fx.reported /\ broken.heard = fx.heard
    BY <2>2, <2>3 DEF EffectRecord
  <2>5. effects' = [effects EXCEPT ![r] = broken]
    BY <1>1, <1>4, <2>1, <2>2, <2>3
  <2>6. /\ effects' \in Seq(EffectRecord) /\ DOMAIN effects' = DOMAIN effects
        /\ effects'[r] = broken /\ \A e \in DOMAIN effects : e # r => effects'[e] = effects[e]
    BY <1>2, <2>1, <2>4, <2>5
  <2>7. \A e \in DOMAIN effects' :
          /\ effects'[e].heard = (IF effects'[e].reported THEN 1 ELSE 0)
          /\ effects'[e].reported => effects'[e].disabled
    BY <1>2, <2>2, <2>4, <2>6
  <2> QED
    BY <1>1, <2>6, <2>7, ReturnCloses
<1> QED
  BY <1>3, <1>4

LEMMA CueDefineFailsKeepsGlowInv == ASSUME GlowInv, NEW k \in Nat, CueDefineFails(k) PROVE GlowInv'
<1>1. /\ UNCHANGED <<cues, cueOf>> /\ Scripting /\ Return
      /\ effects' = effects \o NewEffects(k)
  BY DEF CueDefineFails, Scripting
<1>2. effects \in Seq(EffectRecord)
  BY DEF GlowInv, EffectsInv
<1>3. /\ effects' \in Seq(EffectRecord)
      /\ DOMAIN effects \subseteq DOMAIN effects'
      /\ \A e \in DOMAIN effects : effects'[e] = effects[e]
      /\ \A e \in DOMAIN effects' :
           e \in DOMAIN effects \/ effects'[e] = [disabled |-> FALSE, reported |-> FALSE, heard |-> 0]
  BY <1>1, <1>2, EffectsAreMade
<1>4. \A e \in DOMAIN effects' :
        /\ effects'[e].heard = (IF effects'[e].reported THEN 1 ELSE 0)
        /\ effects'[e].reported => effects'[e].disabled
  BY <1>3 DEF GlowInv, EffectsInv, EffectsFailOnce
<1> QED
  BY <1>1, <1>3, <1>4, ReturnCloses

(* A frame.                                                                    *)
LEMMA StartsKeepGlowInv == ASSUME GlowInv, LuaInit \/ StartEval \/ StartFrame PROVE GlowInv'
<1>1. /\ UNCHANGED <<open, turn, running, showVars>> /\ busy # "effect" /\ busy' # "effect"
      /\ due' = due \/ due' = {i \in DOMAIN cues : cues[i].active}
  BY DEF LuaInit, StartEval, StartFrame
<1>2. CuesInv'
  BY <1>1 DEF GlowInv, CuesInv, OlderVersionsRest, Held, showVars
<1>3. EffectsInv'
  BY <1>1 DEF GlowInv, EffectsInv, EffectsFailOnce, showVars
<1> QED
  BY <1>2, <1>3 DEF GlowInv

LEMMA DrawCueKeepsGlowInv == ASSUME GlowInv, NEW i \in due, DrawCue(i) PROVE GlowInv'
<1>1. /\ due' = due \ {i} /\ UNCHANGED <<busy, open, running, cueOf, effects>>
      /\ i \in DOMAIN cues
  BY DEF DrawCue, GlowInv, EffectsInv
<1>2. CASE cues' = [cues EXCEPT ![i].active = FALSE] /\ turn' = turn
  <2>1. CuesMove
    BY <1>1, <1>2, RetireMoves DEF GlowInv
  <2>2. due' \subseteq due /\ turn' \subseteq DOMAIN effects
    BY <1>1, <1>2 DEF GlowInv, EffectsInv
  <2> QED
    BY <1>1, <2>1, <2>2, MovedCues, MovedKeepEffects DEF GlowInv
<1>3. CASE cues' = cues /\ (turn' = turn \/ turn' = cues[i].effects)
  <2>1. CuesInv'
    BY <1>1, <1>3 DEF GlowInv, CuesInv, OlderVersionsRest, Held
  <2>2. EffectsInv'
    BY <1>1, <1>3 DEF GlowInv, EffectsInv, EffectsFailOnce
  <2> QED
    BY <2>1, <2>2 DEF GlowInv
<1> QED
  BY <1>2, <1>3 DEF DrawCue

LEMMA RunEffectKeepsGlowInv == ASSUME GlowInv, NEW e \in turn, RunEffect(e) PROVE GlowInv'
<1>1. /\ turn' = turn \ {e} /\ due' = due /\ UNCHANGED showVars
      /\ e \in DOMAIN effects /\ e # 0
  <2>1. e \in DOMAIN effects /\ effects \in Seq(EffectRecord)
    BY DEF GlowInv, EffectsInv
  <2> QED
    BY <2>1 DEF RunEffect
<1>2. CuesInv'
  BY <1>1 DEF GlowInv, CuesInv, OlderVersionsRest, Held, showVars
<1>3. CASE effects[e].disabled
  <2>1. UNCHANGED <<busy, open, running>>
    BY <1>3 DEF RunEffect
  <2> QED
    BY <1>1, <1>2, <2>1 DEF GlowInv, EffectsInv, EffectsFailOnce, showVars
<1>4. CASE ~ effects[e].disabled
  <2>1. busy' = "effect" /\ open' = TRUE /\ running' = e
    BY <1>4 DEF RunEffect
  <2> QED
    BY <1>1, <1>2, <1>4, <2>1 DEF GlowInv, EffectsInv, EffectsFailOnce, showVars
<1> QED
  BY <1>3, <1>4

LEMMA EndFrameKeepsGlowInv == ASSUME GlowInv, EndFrame PROVE GlowInv'
<1>1. /\ busy = "frame" /\ busy' = "idle"
      /\ effects' = [e \in DOMAIN effects |-> Poll(effects[e])]
      /\ UNCHANGED <<open, due, turn, running, cues, cueOf>>
  BY DEF EndFrame
<1>2. CuesInv'
  BY <1>1 DEF GlowInv, CuesInv, OlderVersionsRest, Held
<1>3. ASSUME NEW e \in DOMAIN effects
      PROVE  /\ effects'[e] \in EffectRecord
             /\ effects'[e].heard = (IF effects'[e].reported THEN 1 ELSE 0)
             /\ effects'[e].reported => effects'[e].disabled
  <2>1. PICK fx \in EffectRecord : fx = effects[e]
    BY DEF GlowInv, EffectsInv
  <2>2. fx.heard = (IF fx.reported THEN 1 ELSE 0) /\ (fx.reported => fx.disabled)
    BY <2>1 DEF GlowInv, EffectsInv, EffectsFailOnce
  <2>3. CASE fx.disabled /\ ~ fx.reported
    <3>1. effects'[e] = [fx EXCEPT !.reported = TRUE, !.heard = fx.heard + 1]
      BY <1>1, <2>1, <2>3 DEF Poll
    <3>2. PICK d \in BOOLEAN, r \in BOOLEAN, h \in Nat : fx = [disabled |-> d, reported |-> r, heard |-> h]
      BY <2>1 DEF EffectRecord
    <3>3. fx.heard = 0 /\ fx.disabled
      BY <2>2, <2>3
    <3>4. d /\ h = 0
      BY <3>2, <3>3
    <3>5. effects'[e] = [fx EXCEPT !.reported = TRUE, !.heard = 1]
      BY <3>1, <3>3
    <3>6. effects'[e] = [disabled |-> d, reported |-> TRUE, heard |-> 1]
      BY <3>2, <3>5
    <3> QED
      BY <3>4, <3>6 DEF EffectRecord
  <2>4. CASE ~ (fx.disabled /\ ~ fx.reported)
    BY <1>1, <2>1, <2>2, <2>4 DEF Poll
  <2> QED
    BY <2>3, <2>4
<1>4. effects' \in Seq(EffectRecord) /\ DOMAIN effects' = DOMAIN effects
  <2>1. PICK n \in Nat : DOMAIN effects = 1 .. n
    BY DEF GlowInv, EffectsInv
  <2> QED
    BY <1>1, <1>3, <2>1
<1>5. running' = 0 /\ busy' # "effect" /\ ~ open'
  BY <1>1 DEF GlowInv, EffectsInv, EffectsFailOnce
<1>6. EffectsInv'
  BY <1>1, <1>3, <1>4, <1>5 DEF GlowInv, EffectsInv, EffectsFailOnce
<1> QED
  BY <1>2, <1>6 DEF GlowInv

(* The forms that only touch what is left to other modules.                    *)
LEMMA OtherFormsKeepGlowInv == ASSUME GlowInv, SurfaceForms \/ LightForms PROVE GlowInv'
<1>1. Form /\ UNCHANGED showVars
  BY DEF SurfaceForms, LightForms, BindPad, BindPadXY, BindContinuous, LedAuto, LedAutoXY, BindProgramForm,
         BindClear, GlowSet, GlowRead, FxHandle, MatrixPattern, WledForm
<1> QED
  BY <1>1, FormStays, ShowStays

LEMMA CueFormsKeepGlowInv == ASSUME GlowInv, CueForms PROVE GlowInv'
<1>1. CASE \E n \in CueName : CueGo(n) \/ CueRelease(n)
  BY <1>1, CueGoKeepsGlowInv, CueReleaseKeepsGlowInv
<1>2. CASE \E n \in CueName, k \in 0 .. 2 : CueDefine(n, k)
  <2>1. PICK n \in CueName, k \in Nat : CueDefine(n, k)
    BY <1>2
  <2> QED
    BY <2>1, CueDefineKeepsGlowInv
<1>3. CASE \E k \in 1 .. 1 : CueDefineFails(k)
  <2>1. PICK k \in Nat : CueDefineFails(k)
    BY <1>3
  <2> QED
    BY <2>1, CueDefineFailsKeepsGlowInv
<1>4. CASE \E s \in SceneName : SceneGo(s) \/ SceneRelease(s)
  BY <1>4, SceneFormsKeepGlowInv
<1>5. CASE \E s \in SceneName, names \in SUBSET CueName : SceneDefine(s, names)
  <2>1. UNCHANGED <<cues, cueOf, effects>> /\ Form
    BY <1>5 DEF SceneDefine
  <2>2. UNCHANGED <<busy, open, due, turn, running>>
    BY <2>1, FormStays
  <2> QED
    BY <2>1, <2>2 DEF GlowInv, CuesInv, EffectsInv, OlderVersionsRest, Held, EffectsFailOnce
<1> QED
  BY <1>1, <1>2, <1>3, <1>4, <1>5 DEF CueForms

LEMMA GlowStarts == GlowInit => GlowInv
<1> SUFFICES ASSUME GlowInit PROVE GlowInv
  OBVIOUS
<1>1. CuesInv
  BY DEF GlowInit, CuesInv, OlderVersionsRest
<1>2. EffectsInv
  BY DEF GlowInit, EffectsInv, EffectsFailOnce
<1> QED
  BY <1>1, <1>2 DEF GlowInv

LEMMA GlowInvariant == GlowSpec => []GlowInv
<1>1. GlowInv /\ [GlowNext]_glowVars => GlowInv'
  <2> SUFFICES ASSUME GlowInv, [GlowNext]_glowVars PROVE GlowInv'
    OBVIOUS
  <2>1. CASE LuaInit \/ StartEval \/ StartFrame
    BY <2>1, StartsKeepGlowInv
  <2>2. CASE ScriptEnds
    BY <2>2, ScriptEndsKeepsGlowInv
  <2>3. CASE ScriptFails
    BY <2>3, ScriptFailsKeepsGlowInv
  <2>4. CASE CueForms
    BY <2>4, CueFormsKeepGlowInv
  <2>5. CASE SurfaceForms \/ LightForms
    BY <2>5, OtherFormsKeepGlowInv
  <2>6. CASE Played
    BY <2>6, PlayedKeepsGlowInv
  <2>7. CASE \E i \in due : DrawCue(i)
    BY <2>7, DrawCueKeepsGlowInv
  <2>8. CASE \E e \in turn : RunEffect(e)
    BY <2>8, RunEffectKeepsGlowInv
  <2>9. CASE EndFrame
    BY <2>9, EndFrameKeepsGlowInv
  <2>10. CASE UNCHANGED glowVars
    <3>1. UNCHANGED <<showVars, busy, open, running, due, turn>>
      BY <2>10 DEF glowVars, taskVars
    <3> QED
      BY <3>1, ShowStays
  <2> QED
    BY <2>1, <2>2, <2>3, <2>4, <2>5, <2>6, <2>7, <2>8, <2>9, <2>10 DEF GlowNext, Frame
<1> QED
  BY <1>1, GlowStarts, PTL DEF GlowSpec

(* However often cues are defined again, started, released and put into scenes *)
(* (l_cue_define, l_cue_go), an older version is only held where something     *)
(* tied to its number started it.                                              *)
THEOREM OlderVersionsAreAtRest == GlowSpec => []OlderVersionsRest
<1>1. GlowInv => OlderVersionsRest
  BY DEF GlowInv, CuesInv
<1> QED
  BY <1>1, GlowInvariant, PTL

(* An effect that failed (LuaEffect::evaluate) never runs again, is reported   *)
(* once (pollNewlyDisabledEffects), and leaves no context open, for any number *)
(* of cues, effects and budgets.                                               *)
THEOREM EffectsAreContained == GlowSpec => []EffectsFailOnce
<1>1. GlowInv => EffectsFailOnce
  BY DEF GlowInv, EffectsInv
<1> QED
  BY <1>1, GlowInvariant, PTL

================================================================================
