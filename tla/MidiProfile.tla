------------------------------ MODULE MidiProfile ------------------------------
(***************************************************************************)
(* A MIDI controller's definition: the .mdef text the provisioner reads    *)
(* (provision.cpp), the MDF1 blob it writes (controller_encoder.cpp), the  *)
(* tables the device makes of it (mdef.cpp) and the control ids they lead  *)
(* to (live_control.cpp, glow_lua_api.cpp).  Lines, blobs and names as in  *)
(* FixtureProfile; a range of MIDI channels is a pair, or empty.           *)
(***************************************************************************)
EXTENDS Integers, SequencesExt

CONSTANTS
  Limit, \* pads 32, faders 16, encoders 16, leds 8, colors 96, inits 8
  MaxInitBytes, \* MDEF_MAX_INIT_BLOB_BYTES: 64
  MaxMidiNames   \* MDEF_MAX_NAME_BLOB: 1024 bytes, here names

Agnostic == 255 \* kChannelAgnostic
NoName == 65535

Within(from, to, max) == 0 <= from /\ from <= to /\ to <= max

--------------------------------------------------------------------------------
(* The compiler.                                                               *)

EmptyController ==
  [ok |-> TRUE, name |-> "", channel |-> 0, pads |-> <<>>, faders |-> <<>>,
   encoders |-> <<>>, leds |-> <<>>, inits |-> <<>>]

\* CH lo hi, from 0; without it the entry is for any channel.
GoodChannels(ch) == ch = <<>> \/ Within(ch[1], ch[2], 15)
ChannelRange(ch) == IF ch = <<>> THEN <<Agnostic, Agnostic>> ELSE ch

\* The condition on a line, and what it adds to the definition.
MdefLineOk(def, line) ==
  CASE line[1] = "CONTROLLER" -> TRUE
    [] line[1] = "MIDI_CHANNEL" -> line[2] \in 0 .. 16
    [] line[1] = "PAD" -> Within(line[2], line[3], 127) /\ GoodChannels(line[4])
    [] line[1] = "FADER" -> Within(line[2], line[3], 127) /\ GoodChannels(line[5])
    [] line[1] = "ENCODER" -> Within(line[2], line[3], 127) /\ line[4] \in 0 .. 2
    [] line[1] = "LED" ->
         /\ line[2] \in {"NOTE", "CC"} /\ Within(line[3], line[4], 127)
         /\ line[5] \in {"velocity", "value"} /\ GoodChannels(line[6])
    [] line[1] = "COLOR" -> def.leds # <<>> /\ line[3] \in 0 .. 127
    [] line[1] = "INIT" -> Len(line[2]) \in 1 .. MaxInitBytes
    [] OTHER -> FALSE

MdefLine(def, line) ==
  IF ~MdefLineOk(def, line) THEN [def EXCEPT !.ok = FALSE]
  ELSE CASE line[1] = "CONTROLLER" -> [def EXCEPT !.name = line[2]]
    [] line[1] = "MIDI_CHANNEL" -> [def EXCEPT !.channel = line[2]]
    [] line[1] = "PAD" ->
         [def EXCEPT !.pads = Append(@,
           [from |-> line[2], to |-> line[3], ch |-> ChannelRange(line[4])])]
    [] line[1] = "FADER" ->
         [def EXCEPT !.faders = Append(@,
           [from |-> line[2], to |-> line[3], name |-> line[4], ch |-> ChannelRange(line[5])])]
    [] line[1] = "ENCODER" ->
         [def EXCEPT !.encoders = Append(@, [from |-> line[2], to |-> line[3], mode |-> line[4]])]
    [] line[1] = "LED" ->
         [def EXCEPT !.leds = Append(@,
           [type |-> line[2], from |-> line[3], to |-> line[4], semantic |-> line[5],
            ch |-> ChannelRange(line[6]), colors |-> <<>>])]
    [] line[1] = "COLOR" ->
         [def EXCEPT !.leds[Len(def.leds)].colors =
            Append(@, [name |-> line[2], value |-> line[3]])]
    [] line[1] = "INIT" -> [def EXCEPT !.inits = Append(@, line[2])]

ParseControllerDef(lines) ==
  LET Step(def, line) == IF def.ok THEN MdefLine(def, line) ELSE def
      def == FoldLeft(Step, EmptyController, lines)
  IN  IF def.name = "" THEN [def EXCEPT !.ok = FALSE] ELSE def

Colors(def) == FlattenSeq([i \in DOMAIN def.leds |-> def.leds[i].colors])

\* The names, of faders and then of colours.
MdefNames(def) ==
  LET named == SelectSeq(def.faders, LAMBDA f : f.name # "")
      colors == Colors(def)
  IN  [i \in DOMAIN named |-> named[i].name] \o [i \in DOMAIN colors |-> colors[i].name]

\* What the device has no room for is refused here.
ControllerFits(def) ==
  /\ Len(def.pads) <= Limit.pads /\ Len(def.faders) <= Limit.faders
  /\ Len(def.encoders) <= Limit.encoders /\ Len(def.leds) <= Limit.leds
  /\ Len(Colors(def)) <= Limit.colors /\ Len(def.inits) <= Limit.inits
  /\ Len(MdefNames(def)) <= MaxMidiNames

\* 3 with INIT lines, 2 with channel ranges, 1 with neither.
MdefVersion(def) ==
  LET Ranged(entries) == \E i \in DOMAIN entries : entries[i].ch[1] # Agnostic
  IN  IF def.inits # <<>> THEN 3
      ELSE IF Ranged(def.pads) \/ Ranged(def.faders) \/ Ranged(def.leds) THEN 2 ELSE 1

\* Where the names of the faders and of the colours start.
FaderNameOff(def, i) ==
  IF def.faders[i].name = "" THEN NoName
  ELSE Len(SelectSeq(SubSeq(def.faders, 1, i - 1), LAMBDA f : f.name # ""))

ColorCursor(def, i) == Len(FlattenSeq([k \in 1 .. i - 1 |-> def.leds[k].colors]))

EncodeController(def) ==
  LET version == MdefVersion(def)
      Wide(ch) == IF version >= 2 THEN ch ELSE <<>>
      colors == Colors(def)
      named == Len(MdefNames(def)) - Len(colors)
      Fader(i) == LET f == def.faders[i] IN <<f.from, f.to, FaderNameOff(def, i)>> \o Wide(f.ch)
      Led(i) == LET l == def.leds[i]
                IN  <<l.type, l.from, l.to, l.semantic, ColorCursor(def, i), Len(l.colors)>>
                    \o Wide(l.ch)
  IN  <<"MDF1", version, def.channel, Len(def.pads), Len(def.faders), Len(def.encoders),
        Len(def.leds), Len(colors)>>
      \o (IF version = 3 THEN <<Len(def.inits)>> ELSE <<>>)
      \o FlattenSeq([i \in DOMAIN def.pads |->
           <<def.pads[i].from, def.pads[i].to>> \o Wide(def.pads[i].ch)])
      \o FlattenSeq([i \in DOMAIN def.faders |-> Fader(i)])
      \o FlattenSeq([i \in DOMAIN def.encoders |->
           <<def.encoders[i].from, def.encoders[i].to, def.encoders[i].mode>>])
      \o FlattenSeq([i \in DOMAIN def.leds |-> Led(i)])
      \o FlattenSeq([i \in DOMAIN colors |-> <<named + i - 1, colors[i].value>>])
      \o FlattenSeq([i \in DOMAIN def.inits |-> <<Len(def.inits[i])>> \o def.inits[i]])
      \o MdefNames(def)

--------------------------------------------------------------------------------
(* The device.                                                                 *)

\* Entry i, counted from 1, of a table of records of a size, after a position.
Record(blob, at, size, i) == SubSeq(blob, at + size * (i - 1) + 1, at + size * i)

ValidChannelRange(ch) ==
  ch = <<Agnostic, Agnostic>> \/ (Agnostic \notin {ch[1], ch[2]} /\ Within(ch[1], ch[2], 15))

\* The init blobs after a position, each with its length before it.
InitTable(blob, at, count) ==
  LET Next1(t, i) ==
        IF ~t.ok \/ Len(blob) < t.pos + 1 THEN [t EXCEPT !.ok = FALSE]
        ELSE LET len == blob[t.pos + 1]
             IN  [ok |-> len <= MaxInitBytes /\ Len(blob) >= t.pos + 1 + len,
                  pos |-> t.pos + 1 + len,
                  inits |-> Append(t.inits, SubSeq(blob, t.pos + 2, t.pos + 1 + len))]
  IN  FoldLeft(Next1, [ok |-> TRUE, pos |-> at, inits |-> <<>>], [i \in 1 .. count |-> i])

\* The records of each table; wide ones have a range of channels at their end.
ChannelsAt(f, at, wide) == IF wide THEN <<f[at], f[at + 1]>> ELSE <<Agnostic, Agnostic>>

PadRecord(f, wide) == [from |-> f[1], to |-> f[2], ch |-> ChannelsAt(f, 3, wide)]

FaderRecord(f, wide) ==
  [from |-> f[1], to |-> f[2], nameOff |-> f[3], ch |-> ChannelsAt(f, 4, wide)]

EncoderRecord(f) == [from |-> f[1], to |-> f[2], mode |-> f[3]]

LedRecord(f, wide) ==
  [type |-> f[1], from |-> f[2], to |-> f[3], semantic |-> f[4], colorOff |-> f[5],
   colors |-> f[6], ch |-> ChannelsAt(f, 7, wide)]

ColorRecord(f) == [nameOff |-> f[1], value |-> f[2]]

\* What is checked of every record that names addresses and channels.
GoodRecord(e) == Within(e.from, e.to, 127) /\ ValidChannelRange(e.ch)

\* A table of records, from a position.
Table(blob, at, size, count, ToRecord(_)) ==
  [i \in 1 .. count |-> ToRecord(Record(blob, at, size, i))]

BadController == [ok |-> FALSE]

ParseMidiController(blob) ==
  LET version == blob[2]
      wide == version >= 2
      extra == IF wide THEN 2 ELSE 0
      Pad(f) == PadRecord(f, wide)
      Fader(f) == FaderRecord(f, wide)
      Led(f) == LedRecord(f, wide)
      padsAt == IF version = 3 THEN 9 ELSE 8
      fadersAt == padsAt + (2 + extra) * blob[4]
      encodersAt == fadersAt + (3 + extra) * blob[5]
      ledsAt == encodersAt + 3 * blob[6]
      colorsAt == ledsAt + (6 + extra) * blob[7]
      table == InitTable(blob, colorsAt + 2 * blob[8], IF version = 3 THEN blob[9] ELSE 0)
      names == SubSeq(blob, table.pos + 1, Len(blob))
      pads == Table(blob, padsAt, 2 + extra, blob[4], Pad)
      faders == Table(blob, fadersAt, 3 + extra, blob[5], Fader)
      encoders == Table(blob, encodersAt, 3, blob[6], EncoderRecord)
      leds == Table(blob, ledsAt, 6 + extra, blob[7], Led)
      colors == Table(blob, colorsAt, 2, blob[8], ColorRecord)
  IN  IF /\ blob[1] = "MDF1" /\ version \in 1 .. 3 /\ blob[3] \in 0 .. 16
         /\ blob[4] <= Limit.pads /\ blob[5] <= Limit.faders /\ blob[6] <= Limit.encoders
         /\ blob[7] <= Limit.leds /\ blob[8] <= Limit.colors
         /\ Len(table.inits) <= Limit.inits
         /\ table.ok /\ Len(blob) >= table.pos /\ Len(names) <= MaxMidiNames
         /\ \A i \in DOMAIN pads : GoodRecord(pads[i])
         /\ \A i \in DOMAIN faders :
              /\ GoodRecord(faders[i])
              /\ faders[i].nameOff = NoName \/ faders[i].nameOff < Len(names)
         /\ \A i \in DOMAIN encoders :
              Within(encoders[i].from, encoders[i].to, 127) /\ encoders[i].mode <= 2
         /\ \A i \in DOMAIN leds :
              GoodRecord(leds[i]) /\ leds[i].colorOff + leds[i].colors <= blob[8]
         /\ \A i \in DOMAIN colors : colors[i].value <= 127 /\ colors[i].nameOff < Len(names)
      THEN [ok |-> TRUE, channel |-> blob[3], pads |-> pads, faders |-> faders,
            encoders |-> encoders, leds |-> leds, colors |-> colors,
            names |-> names, inits |-> table.inits]
      ELSE BadController

\* Mutant: any entry that covers the note decides, one for every channel too.
AnyPadRange(p, note) ==
  LET first == SelectInSeq(p.pads, LAMBDA r : note \in r.from .. r.to)
  IN  IF first > 0 /\ p.pads[first].ch[1] # Agnostic THEN first ELSE 0

\* The first entry for certain channels that covers the note, or 0.
FindPadChannelRange(p, note) ==
  SelectInSeq(p.pads, LAMBDA r : note \in r.from .. r.to /\ r.ch[1] # Agnostic)

FindFaderChannelRange(p, cc) ==
  SelectInSeq(p.faders, LAMBDA r : cc \in r.from .. r.to /\ r.ch[1] # Agnostic)

\* The rows of a grid: entries of one note on a range of channels.
GridRows(p) == SelectSeq(p.pads, LAMBDA r : r.ch[1] # Agnostic /\ r.from = r.to)

\* A column and a row from 0: note and channel, or nothing.
ResolvePadXY(p, col, row) ==
  LET rows == GridRows(p)
  IN  IF row < 0 \/ row >= Len(rows) \/ col < 0 THEN <<>>
      ELSE LET r == rows[row + 1]
           IN  IF col > r.ch[2] - r.ch[1] THEN <<>> ELSE <<r.from, r.ch[1] + col>>

PackChannelControlId(channel, id) == (channel * 256 + id) % 65536

\* The id a binding is looked up by: a note, or 128 + a controller number.
EffectiveId(p, type, channel, id) ==
  IF \/ type = "Button" /\ FindPadChannelRange(p, id % 256) > 0
     \/ type = "Fader" /\ id >= 128 /\ FindFaderChannelRange(p, (id - 128) % 256) > 0
  THEN PackChannelControlId(channel, id)
  ELSE id

\* The id glow.bind.pad-xy binds.
PadXYId(p, col, row) ==
  LET pad == ResolvePadXY(p, col, row)
  IN  (pad[2] * 256 + pad[1]) % 65536
================================================================================
