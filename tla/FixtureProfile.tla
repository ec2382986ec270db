---------------------------- MODULE FixtureProfile -----------------------------
(***************************************************************************)
(* A fixture's channels: the .fdef text the provisioner reads              *)
(* (provision.cpp), the PFX1 blob it writes (profile_encoder.cpp), and     *)
(* what the device makes of the blob and writes with it                    *)
(* (fixture_profile.cpp).                                                  *)
(*                                                                         *)
(* A line of text is the tuple of its tokens, a malformed one a line of no *)
(* known keyword, a missing fine channel 255; a blob is the sequence of    *)
(* its fields, a name one field.  A level is a byte: that part of 255.     *)
(***************************************************************************)
EXTENDS Integers, SequencesExt

CONSTANTS
  MaxCaps,   \* MAX_CAPS: 24
  MaxRanges, \* MAX_RANGES: 192
  MaxNames    \* MAX_RANGE_NAME_BLOB: 2048 bytes, here names

Byte == 0 .. 255
NoFine == 255
Unnamed == 65535

--------------------------------------------------------------------------------
(* The compiler.                                                               *)

EmptyDef == [ok |-> TRUE, footprint |-> 0, head |-> FALSE, caps |-> <<>>, ranges |-> <<>>]

Refused(def) == [def EXCEPT !.ok = FALSE]

\* CAP name coarse fine default inverted, none of them checked against the footprint.
CapLine(def, line) ==
  [def EXCEPT !.caps = Append(@,
    [cap |-> line[2], coarse |-> line[3] % 256, fine |-> line[4] % 256,
     default |-> line[5] % 256, inverted |-> line[6]])]

\* SLOT or RANGE from to name, of the CAP before it.
RangeLine(def, line) ==
  IF def.caps # <<>> /\ 0 <= line[2] /\ line[2] <= line[3] /\ line[3] <= 255
  THEN [def EXCEPT !.ranges = Append(@,
         [capIndex |-> (Len(def.caps) - 1) % 256, from |-> line[2], to |-> line[3],
          continuous |-> line[1] = "RANGE", name |-> line[4]])]
  ELSE Refused(def)

FdefLine(def, line) ==
  CASE line[1] = "FOOTPRINT" ->
         IF line[2] \in 1 .. 255 THEN [def EXCEPT !.footprint = line[2]] ELSE Refused(def)
    [] line[1] = "HEAD" -> [def EXCEPT !.head = TRUE]
    [] line[1] = "CAP" -> CapLine(def, line)
    [] line[1] \in {"SLOT", "RANGE"} -> RangeLine(def, line)
    [] line[1] \in {"FIXTURE", "PANRANGE", "TILTRANGE"} -> def
    [] OTHER -> Refused(def)

ParseFixtureDef(lines) ==
  LET Step(def, line) == IF def.ok THEN FdefLine(def, line) ELSE def
      def == FoldLeft(Step, EmptyDef, lines)
  IN  IF def.footprint = 0 THEN Refused(def) ELSE def

\* Where each range's name starts among the names: unnamed ranges have none.
NameOffs(ranges) ==
  [i \in DOMAIN ranges |->
    IF ranges[i].name = "" THEN Unnamed
    ELSE Len(SelectSeq(SubSeq(ranges, 1, i - 1), LAMBDA r : r.name # "")) % 65536]

\* Version 2, with a count, a table and the names, only when there are ranges.
EncodeProfile(def) ==
  LET Cap(m) == <<m.cap, m.coarse, m.fine, m.default, m.inverted>>
      offs == NameOffs(def.ranges)
      Record(i) == LET r == def.ranges[i]
                  IN  <<r.capIndex, r.from, r.to, r.continuous, offs[i]>>
      named == SelectSeq(def.ranges, LAMBDA r : r.name # "")
      v2 == def.ranges # <<>>
  IN  <<"PFX1", IF v2 THEN 2 ELSE 1, def.footprint, Len(def.caps) % 256>>
      \o (IF v2 THEN <<Len(def.ranges) % 65536>> ELSE <<>>)
      \o FlattenSeq([i \in DOMAIN def.caps |-> Cap(def.caps[i])])
      \o FlattenSeq([i \in DOMAIN def.ranges |-> Record(i)])
      \o [i \in DOMAIN named |-> named[i].name]

--------------------------------------------------------------------------------
(* The device.                                                                 *)

\* Entry i, counted from 1, of a table of records of a size, after a position.
Entry(blob, at, size, i) == SubSeq(blob, at + size * (i - 1) + 1, at + size * i)

CapRecord(f) ==
  [cap |-> f[1], coarse |-> f[2], fine |-> f[3], default |-> f[4], inverted |-> f[5]]

RangeRecord(f) ==
  [capIndex |-> f[1], from |-> f[2], to |-> f[3], continuous |-> f[4], nameOff |-> f[5]]

CapFits(m, footprint) == m.coarse < footprint /\ (m.fine = NoFine \/ m.fine < footprint)

RangeFits(r, capCount, names) ==
  /\ r.capIndex < capCount /\ r.from <= r.to
  /\ r.nameOff = Unnamed \/ r.nameOff < Len(names)

BadProfile == [ok |-> FALSE]

ParseProfile(blob) ==
  LET v2 == blob[2] = 2
      footprint == blob[3]
      capCount == blob[4]
      rangeCount == IF v2 THEN blob[5] ELSE 0
      capsAt == IF v2 THEN 5 ELSE 4
      rangesAt == capsAt + 5 * capCount
      namesAt == rangesAt + 5 * rangeCount
      names == SubSeq(blob, namesAt + 1, Len(blob))
      caps == [i \in 1 .. capCount |-> CapRecord(Entry(blob, capsAt, 5, i))]
      ranges == [i \in 1 .. rangeCount |-> RangeRecord(Entry(blob, rangesAt, 5, i))]
  IN  IF /\ blob[1] = "PFX1" /\ blob[2] \in {1, 2}
         /\ capCount <= MaxCaps /\ rangeCount <= MaxRanges
         /\ Len(blob) >= namesAt /\ Len(names) <= MaxNames
         /\ \A i \in 1 .. capCount : CapFits(caps[i], footprint)
         /\ \A i \in 1 .. rangeCount : RangeFits(ranges[i], capCount, names)
      THEN [ok |-> TRUE, footprint |-> footprint, channels |-> caps,
            ranges |-> ranges, names |-> names]
      ELSE BadProfile

\* The first channel of a capability: 0 when the fixture lacks it.
FindCapability(p, cap) ==
  SelectInSeq(p.channels, LAMBDA m : m.cap = cap)

Inverted(m, value) == IF m.inverted THEN 255 - value ELSE value

\* What a level writes, as a function of the offsets it writes to.
ApplyCapability(p, cap, level) ==
  LET ci == FindCapability(p, cap)
      m == p.channels[ci]
      value == Inverted(m, level)
  IN  IF ci = 0 THEN <<>>
      ELSE IF m.fine = NoFine THEN m.coarse :> value
      ELSE (m.fine :> value) @@ (m.coarse :> value)

\* Each channel in turn, so that a later one wins.
ApplyDefaults(p) ==
  LET Default(written, m) ==
        (IF m.fine = NoFine THEN <<>> ELSE m.fine :> 0) @@ (m.coarse :> m.default) @@ written
  IN  FoldLeft(Default, <<>>, p.channels)

\* A slot writes its middle, a range its part of the span, rounded.
ApplyRangeValue(r, level) ==
  IF r.continuous THEN r.from + (2 * level * (r.to - r.from) + 255) \div 510
  ELSE (r.from + r.to) \div 2

\* The first range of the capability's channel with the name.
ApplyRangeByName(p, cap, name, level) ==
  LET ci == FindCapability(p, cap)
      Named(r) == r.capIndex = ci - 1 /\ r.nameOff # Unnamed /\ p.names[r.nameOff + 1] = name
      k == SelectInSeq(p.ranges, Named)
  IN  IF ci = 0 \/ k = 0 THEN <<>>
      ELSE p.channels[ci].coarse :> ApplyRangeValue(p.ranges[k], level)

\* The range at an index, from 0, among those of the capability's channel.
ApplyRangeByIndex(p, cap, index, level) ==
  LET ci == FindCapability(p, cap)
      own == SelectSeq(p.ranges, LAMBDA r : r.capIndex = ci - 1)
  IN  IF ci = 0 \/ index >= Len(own) THEN <<>>
      ELSE p.channels[ci].coarse :> ApplyRangeValue(own[index + 1], level)
================================================================================
