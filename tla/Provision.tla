------------------------------- MODULE Provision -------------------------------
(***************************************************************************)
(* From the text of a show to light: the provisioner compiles a .show,     *)
(* line by line, into a bundle (provision.cpp); the device loads it        *)
(* (show_bundle.cpp), builds the show (apply_loaded_show.cpp, main.cpp)    *)
(* and renders frames (show.cpp, pixel_matrix.cpp).  The compiler promises *)
(* that what it accepts is what the rig will show; nothing on the device   *)
(* checks it again.                                                        *)
(*                                                                         *)
(* Lines and bundles as in FixtureProfile.  Universes and channels are     *)
(* counted from 1 in the text and from 0 everywhere else.  A channel       *)
(* carries the line that wrote it and, for a fixture, the value.           *)
(***************************************************************************)
EXTENDS FixtureProfile, MidiProfile, FiniteSets

CONSTANTS
  Channels,    \* DMX_UNIVERSE_SIZE: 512
  MaxUniverses, \* MAX_UNIVERSES: 8
  MaxFixtures, \* MAX_FIXTURES
  Menu,        \* the lines a show may have
  FdefText,    \* the .fdef files: the lines of each
  MdefText,    \* the .mdef files
  Intents,     \* what an effect may ask of a fixture in a frame
  MaxLines      \* bound: lines of a show

UniverseId == 0 .. MaxUniverses - 1

ASSUME ProvisionAssumption ==
  /\ {Channels, MaxUniverses, MaxFixtures, MaxLines} \subseteq Nat \ {0}
  /\ MaxUniverses <= 256

VARIABLES
  stage,     \* where the show is on its way
  text,      \* the lines read so far
  universes, \* what the text says of each universe: transport and route
  owner,     \* artnetDestOwner: the universe that claimed each route
  explicit,  \* anyExplicitArtnetRoute
  patch,     \* fixtures, matrices, controllers and WLED targets of the text
  bundle,    \* the SHW1 bundle: empty until the text is accepted
  loaded,    \* LoadedShow
  show,      \* Show as applyLoadedShow leaves it
  data,      \* the channels of each universe
  asked       \* the intent of the last frame

network == <<universes, owner, explicit>>
device == <<bundle, loaded, show, data, asked>>
vars == <<stage, text, network, patch, device>>

NoPatch == [maxUniverse |-> 0, fixtures |-> <<>>, matrices |-> <<>>,
            controllers |-> <<>>, wled |-> <<>>]

Dark == [u \in UniverseId |-> [c \in 0 .. Channels - 1 |-> <<0, 0>>]]

Init ==
  /\ stage = "header" /\ text = <<>>
  /\ universes = <<>> /\ owner = <<>> /\ explicit = FALSE /\ patch = NoPatch
  /\ bundle = <<>> /\ loaded = BadProfile /\ show = BadProfile
  /\ data = Dark /\ asked = <<>>

--------------------------------------------------------------------------------
(* The compiler, a line at a time.                                             *)

\* The next line, of a keyword, is read in a stage.
Read(line, in, keywords) ==
  /\ stage = in /\ Len(text) < MaxLines
  /\ line[1] \in keywords
  /\ text' = Append(text, line)

Reject ==
  /\ stage' = "rejected"
  /\ UNCHANGED <<network, patch, device>>

\* SHOW 2, before anything else.
ReadHeader(line) ==
  /\ Read(line, "header", {l[1] : l \in Menu})
  /\ IF line = <<"SHOW", 2>>
     THEN stage' = "lines" /\ UNCHANGED <<network, patch, device>>
     ELSE Reject

\* convertUniverse and convertAddress.
GoodUniverse(u) == u \in 1 .. MaxUniverses
GoodAddress(a) == a \in 1 .. Channels

HigherOf(a, b) == IF a > b THEN a ELSE b

\* Where an Art-Net universe goes: the address and the wire universe of the text.
Route(idx, given) ==
  [ip |-> IF given = <<>> THEN 0 ELSE given[1],
   wire |-> IF Len(given) < 2 THEN idx ELSE given[2]]

GoodRoute(given) == Len(given) < 2 \/ given[2] \in 0 .. 32767

\* A map with the entry of a key set.
Entered(map, key, value) ==
  [k \in DOMAIN map \cup {key} |-> IF k = key THEN value ELSE map[k]]

\* Mutant: only what the text spells out is a claim.
ClaimedIfSpelled(route, idx) == route.ip # 0 /\ route \in DOMAIN owner /\ owner[route] # idx

\* Another universe already goes there.
Claimed(route, idx) == route \in DOMAIN owner /\ owner[route] # idx

\* A universe keeps the claims of its earlier declarations.
ReadUniverse(line) ==
  /\ Read(line, "lines", {"UNIVERSE"})
  /\ LET idx == line[2] - 1
         artnet == line[3] = "ARTNET"
         route == IF artnet THEN Route(idx, line[4]) ELSE [ip |-> 0, wire |-> 0]
     IN  IF /\ GoodUniverse(line[2]) /\ line[3] \in {"DMX", "ARTNET", "SACN"}
            /\ artnet => GoodRoute(line[4]) /\ ~Claimed(route, idx)
         THEN /\ universes' = Entered(universes, idx, [transport |-> line[3], route |-> route])
              /\ owner' = IF artnet THEN Entered(owner, route, idx) ELSE owner
              /\ explicit' = (explicit \/ (artnet /\ line[4] # <<>>))
              /\ patch' = [patch EXCEPT !.maxUniverse = HigherOf(@, idx)]
              /\ UNCHANGED <<stage, device>>
         ELSE Reject

FixtureDef(file) == ParseFixtureDef(FdefText[file])

\* FIXTURE file universe base
ReadFixture(line) ==
  /\ Read(line, "lines", {"FIXTURE"})
  /\ IF /\ GoodUniverse(line[3]) /\ GoodAddress(line[4])
        /\ line[2] \in DOMAIN FdefText /\ FixtureDef(line[2]).ok
        /\ line[4] + FixtureDef(line[2]).footprint - 1 <= Channels
     THEN /\ patch' = [patch EXCEPT
               !.maxUniverse = HigherOf(@, line[3] - 1),
               !.fixtures = Append(@,
                 [line |-> Len(text'), file |-> line[2], universe |-> line[3] - 1,
                  base |-> line[4] - 1,
                  aim |-> [POS |-> 0, ROT |-> 0, CENTER |-> 0, INVERT |-> 0]])]
          /\ UNCHANGED <<stage, network, device>>
     ELSE Reject

\* POS, ROT, CENTER and INVERT are of the fixture before them, which must be a head.
ReadAim(line) ==
  /\ Read(line, "lines", {"POS", "ROT", "CENTER", "INVERT"})
  /\ LET n == Len(patch.fixtures)
     IN  IF n > 0 /\ FixtureDef(patch.fixtures[n].file).head
         THEN /\ patch' = [patch EXCEPT !.fixtures[n].aim[line[1]] = line[2]]
              /\ UNCHANGED <<stage, network, device>>
         ELSE Reject

\* MATRIX universe channel width height serpentine vertical order
ReadMatrix(line) ==
  /\ Read(line, "lines", {"MATRIX"})
  /\ IF GoodUniverse(line[2]) /\ GoodAddress(line[3])
     THEN /\ patch' = [patch EXCEPT
               !.maxUniverse = HigherOf(@, line[2] - 1),
               !.matrices = Append(@,
                 [line |-> Len(text'), startUniverse |-> line[2] - 1, startChannel |-> line[3] - 1,
                  width |-> line[4] % 65536, height |-> line[5] % 65536,
                  serpentine |-> line[6], vertical |-> line[7], order |-> line[8]])]
          /\ UNCHANGED <<stage, network, device>>
     ELSE Reject

\* A controller named twice is read once.
ReadController(line) ==
  /\ Read(line, "lines", {"CONTROLLER"})
  /\ LET def == ParseControllerDef(MdefText[line[2]])
     IN  IF line[2] \in ToSet(patch.controllers)
         THEN UNCHANGED <<stage, network, patch, device>>
         ELSE IF line[2] \in DOMAIN MdefText /\ def.ok /\ ControllerFits(def)
         THEN /\ patch' = [patch EXCEPT !.controllers = Append(@, line[2])]
              /\ UNCHANGED <<stage, network, device>>
         ELSE Reject

\* WLED name address group, the names distinct.
ReadWled(line) ==
  /\ Read(line, "lines", {"WLED"})
  /\ IF /\ "" \notin {line[2], line[3]} /\ line[4] \in 1 .. 8
        /\ \A i \in DOMAIN patch.wled : patch.wled[i].name # line[2]
     THEN /\ patch' = [patch EXCEPT !.wled = Append(@,
               [name |-> line[2], ip |-> line[3], group |-> line[4]])]
          /\ UNCHANGED <<stage, network, device>>
     ELSE Reject

Keywords == {"UNIVERSE", "FIXTURE", "POS", "ROT", "CENTER", "INVERT", "MATRIX", "CONTROLLER", "WLED"}

ReadUnknown(line) ==
  /\ Read(line, "lines", {l[1] : l \in Menu} \ Keywords)
  /\ Reject

--------------------------------------------------------------------------------
(* The compiler, at the end of the text.                                       *)

\* The channels of a fixture and of a matrix, one span for each universe they touch.
FixtureSpan(f) ==
  [line |-> f.line, universe |-> f.universe, from |-> f.base,
   to |-> f.base + FixtureDef(f.file).footprint - 1]

MatrixSpans(m) ==
  LET start == m.startUniverse * Channels + m.startChannel
      end == start + m.width * m.height * 3 - 1
      ToOf(u) == IF end < (u + 1) * Channels THEN end % Channels ELSE Channels - 1
      FromOf(u) == IF u = m.startUniverse THEN m.startChannel ELSE 0
      touched == {u \in m.startUniverse .. end \div Channels : start <= end /\ u <= 255}
  IN  {[line |-> m.line, universe |-> u, from |-> FromOf(u), to |-> ToOf(u)] : u \in touched}

Occupied ==
  {FixtureSpan(patch.fixtures[i]) : i \in DOMAIN patch.fixtures}
    \cup UNION {MatrixSpans(patch.matrices[i]) : i \in DOMAIN patch.matrices}

\* Mutant: spans that share only their ends do not collide.
CollideInside(a, b) ==
  /\ a.line # b.line /\ a.universe = b.universe
  /\ a.from < b.to /\ b.from < a.to

Collide(a, b) ==
  /\ a.line # b.line /\ a.universe = b.universe
  /\ a.from <= b.to /\ b.from <= a.to

\* The files of the fixtures, in the order of first use.
ProfileFiles ==
  LET Add(files, f) == IF f.file \in ToSet(files) THEN files ELSE Append(files, f.file)
  IN  FoldLeft(Add, <<>>, patch.fixtures)

Version ==
  IF explicit THEN 4
  ELSE IF patch.wled # <<>> THEN 3
  ELSE IF patch.controllers # <<>> THEN 2 ELSE 1

TransportOf(u) == IF u \in DOMAIN universes THEN universes[u].transport ELSE "Unused"
RouteOf(u) == IF u \in DOMAIN universes THEN universes[u].route ELSE [ip |-> 0, wire |-> 0]

\* Mutant: the route of a universe is left out when it has no address.
UniverseFieldsShort(u) ==
  <<TransportOf(u)>>
    \o (IF Version >= 4 THEN <<RouteOf(u).ip, IF RouteOf(u).ip = 0 THEN 0 ELSE RouteOf(u).wire>>
        ELSE <<>>)

UniverseFields(u) ==
  <<TransportOf(u)>> \o (IF Version >= 4 THEN <<RouteOf(u).ip, RouteOf(u).wire>> ELSE <<>>)

FixtureFields(f) ==
  LET def == FixtureDef(f.file)
      index == SelectInSeq(ProfileFiles, LAMBDA file : file = f.file) - 1
  IN  <<index, f.universe, f.base, def.head, f.aim.POS, f.aim.ROT, f.aim.CENTER, f.aim.INVERT>>

MatrixFields(m) ==
  <<m.width, m.height, m.serpentine, m.vertical, m.order, m.startUniverse, m.startChannel>>

Blob(fields) == <<Len(fields)>> \o fields

\* A later version has every count of the earlier ones.
Counts ==
  <<Len(ProfileFiles), Len(patch.fixtures), Len(patch.matrices)>>
    \o (IF Version >= 2 THEN <<Len(patch.controllers)>> ELSE <<>>)
    \o (IF Version >= 3 THEN <<Len(patch.wled)>> ELSE <<>>)

Bundle ==
  LET EncodedProfile(file) == Blob(EncodeProfile(FixtureDef(file)))
      EncodedController(file) == Blob(EncodeController(ParseControllerDef(MdefText[file])))
  IN  <<"SHW1", Version, patch.maxUniverse + 1>> \o Counts
      \o FlattenSeq([u \in 1 .. patch.maxUniverse + 1 |-> UniverseFields(u - 1)])
      \o FlattenSeq([i \in DOMAIN ProfileFiles |-> EncodedProfile(ProfileFiles[i])])
      \o FlattenSeq([i \in DOMAIN patch.fixtures |-> FixtureFields(patch.fixtures[i])])
      \o FlattenSeq([i \in DOMAIN patch.matrices |-> MatrixFields(patch.matrices[i])])
      \o FlattenSeq([i \in DOMAIN patch.controllers |-> EncodedController(patch.controllers[i])])
      \o FlattenSeq([i \in DOMAIN patch.wled |->
           <<patch.wled[i].name, patch.wled[i].ip, patch.wled[i].group>>])

\* A text without a header and two lines on one channel refuse the show; otherwise
\* there is a bundle.
Compile ==
  /\ stage \in {"header", "lines"}
  /\ UNCHANGED <<text, network, patch, loaded, show, data, asked>>
  /\ IF stage = "header" \/ \E a, b \in Occupied : Collide(a, b)
     THEN stage' = "rejected" /\ UNCHANGED bundle
     ELSE stage' = "compiled" /\ bundle' = Bundle

--------------------------------------------------------------------------------
(* The device.                                                                 *)

\* The blobs of a table at a position, each with its length before it.
BlobTable(at, count) ==
  LET Following(t, i) ==
        LET len == bundle[t.pos + 1]
        IN  [pos |-> t.pos + 1 + len,
             blobs |-> Append(t.blobs, SubSeq(bundle, t.pos + 2, t.pos + 1 + len))]
  IN  FoldLeft(Following, [pos |-> at, blobs |-> <<>>], [i \in 1 .. count |-> i])

\* The records of each table.
UniverseRecord(f, u, version) ==
  [transport |-> f[1],
   dest |-> IF version >= 4 THEN [ip |-> f[2], wire |-> f[3]] ELSE [ip |-> 0, wire |-> u]]

FixtureRecord(f) ==
  [profile |-> f[1], universe |-> f[2], base |-> f[3], head |-> f[4],
   aim |-> IF f[4] THEN SubSeq(f, 5, 8) ELSE <<>>]

MatrixRecord(f) ==
  [width |-> f[1], height |-> f[2], serpentine |-> f[3], vertical |-> f[4],
   order |-> f[5], startUniverse |-> f[6], startChannel |-> f[7]]

\* The WLED targets after a position.
WledTable(at, count) == [i \in 1 .. count |-> Entry(bundle, at, 3, i)]

\* The controllers of a table of blobs.
Controllers(table, count) == [i \in 1 .. count |-> ParseMidiController(table.blobs[i])]

\* loadShow: every table in turn, the first bad record refuses the bundle.
LoadShow ==
  LET version == bundle[2]
      count == bundle[3]
      counts == SubSeq(bundle, 4, 6) \o
                (IF version >= 2 THEN <<bundle[7]>> ELSE <<0>>) \o
                (IF version >= 3 THEN <<bundle[8]>> ELSE <<0>>)
      universesAt == CASE version = 1 -> 6 [] version = 2 -> 7 [] OTHER -> 8
      width == IF version >= 4 THEN 3 ELSE 1
      profileTable == BlobTable(universesAt + width * count, counts[1])
      matricesAt == profileTable.pos + 8 * counts[2]
      controllerTable == BlobTable(matricesAt + 7 * counts[3], counts[4])
      profiles == [i \in 1 .. counts[1] |-> ParseProfile(profileTable.blobs[i])]
      controllers == Controllers(controllerTable, counts[4])
      universe == [u \in 0 .. count - 1 |->
        UniverseRecord(Entry(bundle, universesAt, width, u + 1), u, version)]
      fixtures == [i \in 1 .. counts[2] |-> FixtureRecord(Entry(bundle, profileTable.pos, 8, i))]
      matrices == [i \in 1 .. counts[3] |-> MatrixRecord(Entry(bundle, matricesAt, 7, i))]
      wled == WledTable(controllerTable.pos, counts[5])
  IN  IF /\ bundle[1] = "SHW1" /\ version \in 1 .. 4 /\ count <= MaxUniverses
         /\ \A u \in DOMAIN universe : universe[u].transport \in {"DMX", "ARTNET", "SACN", "Unused"}
         /\ \A i \in DOMAIN profiles : profiles[i].ok
         /\ \A i \in DOMAIN fixtures : fixtures[i].profile < counts[1] /\ fixtures[i].universe < MaxUniverses
         /\ \A i \in DOMAIN matrices : matrices[i].startUniverse < MaxUniverses
         /\ \A i \in DOMAIN controllers : controllers[i].ok
      THEN [ok |-> TRUE, universe |-> universe, profiles |-> profiles, fixtures |-> fixtures,
            matrices |-> matrices, controllers |-> controllers, wled |-> wled]
      ELSE BadProfile

\* A bundle the device refuses leaves it without a show.
Load ==
  /\ stage = "compiled"
  /\ loaded' = LoadShow
  /\ stage' = IF loaded'.ok THEN "loaded" ELSE "refused"
  /\ UNCHANGED <<text, network, patch, bundle, show, data, asked>>

\* The universes a matrix fills, as a count of one byte.
MatrixUniverseCount(m) ==
  LET total == m.startChannel + m.width * m.height * 3
  IN  IF total = 0 THEN 0 ELSE ((total - 1) \div Channels + 1) % 256

ClaimedByMatrix(u) ==
  \E k \in DOMAIN loaded.matrices :
    LET m == loaded.matrices[k]
    IN  \E i \in 0 .. MatrixUniverseCount(m) - 1 : u = (m.startUniverse + i) % 256

\* Only DMX and Art-Net have a sink; without one a universe stays as it is.
HasSink(u) == loaded.universe[u].transport \in {"DMX", "ARTNET"}

\* applyLoadedShow and setup_show_from_bundle.
Apply ==
  /\ stage = "loaded" /\ stage' = "built"
  /\ LET inside == SelectSeq(loaded.fixtures, LAMBDA f : f.universe \in DOMAIN loaded.universe)
         sinks == {u \in DOMAIN loaded.universe : HasSink(u)}
     IN  show' = [ok |-> TRUE, count |-> Cardinality(DOMAIN loaded.universe),
                  sinks |-> sinks,
                  raw |-> {u \in sinks : ClaimedByMatrix(u)},
                  dest |-> [u \in {v \in sinks : loaded.universe[v].transport = "ARTNET"} |->
                             loaded.universe[u].dest],
                  fixtures |-> [i \in {k \in DOMAIN inside : k <= MaxFixtures} |-> inside[i]],
                  matrices |-> loaded.matrices]
  /\ UNCHANGED <<text, network, patch, bundle, loaded, data, asked>>

\* Where the wiring puts a pixel, as a 16-bit index.
Wiring(m, x, y) ==
  (IF m.vertical
   THEN x * m.height + (IF m.serpentine /\ x % 2 = 1 THEN m.height - 1 - y ELSE y)
   ELSE y * m.width + (IF m.serpentine /\ y % 2 = 1 THEN m.width - 1 - x ELSE x)) % 65536

\* The channel of a pixel's component, counted from channel 0 of universe 0.
PixelChannel(m, x, y, k) ==
  m.startUniverse * Channels + m.startChannel + 3 * Wiring(m, x, y) + k

\* PixelMatrix::render: a buffer for each of the matrix's universes, of the channels lit.
PixelBuffer(m, i) ==
  LET component == (0 .. m.width - 1) \X (0 .. m.height - 1) \X (0 .. 2)
      channels == {PixelChannel(m, p[1], p[2], p[3]) : p \in component}
  IN  {c % Channels : c \in {d \in channels : d \div Channels = i}}

\* The lines of the text that became the matrices and the fixtures of the show.
MatrixLine(k) == patch.matrices[k].line
FixtureLine(k) == patch.fixtures[k].line

\* on_pre_render: each matrix in turn writes whole universes.
MatricesWritten(before) ==
  LET WriteOne(d, w) ==
        LET k == w[1]
            m == show.matrices[k]
            u == (m.startUniverse + w[2]) % 256
        IN  IF u < show.count /\ u \in show.raw
            THEN [d EXCEPT ![u] = [c \in 0 .. Channels - 1 |->
                   IF c \in PixelBuffer(m, w[2]) THEN <<MatrixLine(k), 0>> ELSE <<0, 0>>]]
            ELSE d
      Buffers(k) == [i \in 1 .. MatrixUniverseCount(show.matrices[k]) |-> <<k, i - 1>>]
  IN  FoldLeft(WriteOne, before, FlattenSeq([k \in DOMAIN show.matrices |-> Buffers(k)]))

\* Offsets and values of a fixture's profile, written at its base by its line.
Written(d, k, values) ==
  LET f == show.fixtures[k]
  IN  IF f.universe \in show.raw THEN d
      ELSE [d EXCEPT ![f.universe] = [c \in 0 .. Channels - 1 |->
             IF c - f.base \in DOMAIN values THEN <<FixtureLine(k), values[c - f.base]>> ELSE @[c]]]

ProfileOf(k) == loaded.profiles[show.fixtures[k].profile + 1]

\* An aim intent turns a head: its angles are worked out elsewhere (aim.cpp).
ResolveAim(k, pan, tilt) ==
  IF show.fixtures[k].head
  THEN ApplyCapability(ProfileOf(k), "tilt", tilt) @@ ApplyCapability(ProfileOf(k), "pan", pan)
  ELSE <<>>

\* An intent names a fixture, a capability, how to set it and the level.
Resolve(intent) ==
  LET p == ProfileOf(intent.fixture)
  IN  CASE intent.how = "aim" -> ResolveAim(intent.fixture, intent.arg, intent.level)
        [] intent.how = "name" -> ApplyRangeByName(p, intent.cap, intent.arg, intent.level)
        [] intent.how = "index" -> ApplyRangeByIndex(p, intent.cap, intent.arg, intent.level)
        [] intent.how = "level" -> ApplyCapability(p, intent.cap, intent.level)

\* A frame: matrices, then fixture universes from zero: defaults, then what effects ask.
RenderFrame(intent) ==
  /\ stage = "built" /\ asked' = intent
  /\ LET pixels == MatricesWritten(data)
         zeroed == [u \in UniverseId |->
           IF u < show.count /\ u \notin show.raw THEN Dark[u] ELSE pixels[u]]
         Default(d, k) == Written(d, k, ApplyDefaults(ProfileOf(k)))
         defaults == FoldLeft(Default, zeroed, [k \in DOMAIN show.fixtures |-> k])
     IN  data' = IF intent.fixture \in DOMAIN show.fixtures
                 THEN Written(defaults, intent.fixture, Resolve(intent))
                 ELSE defaults
  /\ UNCHANGED <<stage, text, network, patch, bundle, loaded, show>>

ReadLine ==
  \E line \in Menu :
    \/ ReadHeader(line) \/ ReadUniverse(line) \/ ReadFixture(line) \/ ReadAim(line)
    \/ ReadMatrix(line) \/ ReadController(line) \/ ReadWled(line) \/ ReadUnknown(line)

Next == ReadLine \/ Compile \/ Load \/ Apply \/ \E intent \in Intents : RenderFrame(intent)

Spec == Init /\ [][Next]_vars
--------------------------------------------------------------------------------
(* Properties.                                                                 *)

\* Every part of the state is of its kind.
ProvisionTypeOK ==
  /\ stage \in {"header", "lines", "rejected", "compiled", "refused", "loaded", "built"}
  /\ DOMAIN universes \subseteq UniverseId
  /\ \A r \in DOMAIN owner : owner[r] \in UniverseId
  /\ explicit \in BOOLEAN /\ patch.maxUniverse \in UniverseId
  /\ \A i \in DOMAIN patch.fixtures :
       LET f == patch.fixtures[i]
       IN  f.line \in DOMAIN text /\ f.universe \in UniverseId /\ f.base \in 0 .. Channels - 1
  /\ \A i \in DOMAIN patch.matrices :
       LET m == patch.matrices[i]
       IN  {m.width, m.height} \subseteq 0 .. 65535 /\ m.startChannel \in 0 .. Channels - 1
  /\ data \in [UniverseId -> [0 .. Channels - 1 -> (0 .. Len(text)) \X Byte]]

Rendered == stage = "built" /\ asked # <<>>

\* The universes fixtures are drawn in and sent from.
Lit == show.sinks \ show.raw

\* Each channel of a fixture is its own, and nothing else is written beside the fixtures.
FixturesHold ==
  /\ \A k \in DOMAIN show.fixtures :
       LET f == patch.fixtures[k]
           Offsets == UNION {{m.coarse, m.fine} : m \in ToSet(FixtureDef(f.file).caps)} \ {NoFine}
       IN  f.universe \in Lit => \A o \in Offsets : data[f.universe][f.base + o][1] = f.line
  /\ \A u \in Lit, c \in 0 .. Channels - 1 :
       data[u][c][1] # 0 =>
         \E s \in Occupied : s.line = data[u][c][1] /\ s.universe = u /\ c \in s.from .. s.to

\* A range asked for by its name is where the .fdef puts that name of that capability.
RangesLand ==
  asked.how = "name" /\ asked.fixture \in DOMAIN show.fixtures =>
    LET f == patch.fixtures[asked.fixture]
        def == FixtureDef(f.file)
        ci == SelectInSeq(def.caps, LAMBDA m : m.cap = asked.cap)
        Asked(r) == r.name = asked.arg /\ r.capIndex = ci - 1
        k == SelectInSeq(def.ranges, Asked)
    IN  f.universe \in Lit /\ ci > 0 /\ k > 0 =>
          data[f.universe][f.base + def.caps[ci].coarse][2] \in def.ranges[k].from .. def.ranges[k].to

\* The matrices that fill a universe of the show.
Filling(u) ==
  {k \in DOMAIN patch.matrices : \E s \in MatrixSpans(patch.matrices[k]) : s.universe = u}

\* Each channel of a matrix shows it, in universes it has for itself.
PixelsHoldFrom(Start) ==
  \A k \in DOMAIN patch.matrices :
    patch.matrices[k].startUniverse \in Start =>
      \A s \in MatrixSpans(patch.matrices[k]) :
        s.universe \in show.sinks /\ Filling(s.universe) = {k} =>
          \A c \in s.from .. s.to : data[s.universe][c] = <<s.line, 0>>

\* In every frame the rig shows the patch as the text declares it: fixtures keep the
\* channels of their addresses, named ranges land in their values, and a matrix that
\* starts in the first universe fills its channels.
\* (compileShow's overlap check, applyLoadedShow, Show::renderCompute, PixelMatrix::render)
PatchHolds ==
  Rendered => FixturesHold /\ RangesLand /\ PixelsHoldFrom({0})

\* "PixelMatrix packs w*h*3 channels starting at startUniverse:startChannel and rolls
\* over into subsequent universes once a universe's 512 channels fill up"
\* (provision.cpp, at MATRIX): so does a matrix in any universe.
PixelsReachTheirChannels ==
  Rendered => PixelsHoldFrom(UniverseId)

\* The capabilities and ranges of a profile are those of the .fdef.
SameProfile(p, def) ==
  /\ p.footprint = def.footprint /\ p.channels = def.caps
  /\ Len(p.ranges) = Len(def.ranges)
  /\ \A i \in DOMAIN p.ranges :
       LET r == p.ranges[i]
           d == def.ranges[i]
       IN  /\ <<r.capIndex, r.from, r.to, r.continuous>> = <<d.capIndex, d.from, d.to, d.continuous>>
           /\ (IF r.nameOff = Unnamed THEN "" ELSE p.names[r.nameOff + 1]) = d.name

\* The device cannot hold a fixture of this definition.
TooMuch(def) ==
  \/ Len(def.caps) > MaxCaps \/ Len(def.ranges) > MaxRanges
  \/ \E i \in DOMAIN def.caps : ~CapFits(def.caps[i], def.footprint)
  \/ Len(SelectSeq(def.ranges, LAMBDA r : r.name # "")) > MaxNames

SameController(p, def) ==
  /\ p.channel = def.channel /\ p.pads = def.pads /\ p.encoders = def.encoders /\ p.inits = def.inits
  /\ Len(p.faders) = Len(def.faders) /\ Len(p.leds) = Len(def.leds)
  /\ \A i \in DOMAIN p.faders :
       LET f == p.faders[i]
       IN  [from |-> f.from, to |-> f.to, ch |-> f.ch,
            name |-> IF f.nameOff = NoName THEN "" ELSE p.names[f.nameOff + 1]] = def.faders[i]
  /\ \A i \in DOMAIN p.leds :
       LET l == p.leds[i]
           Color(k) == LET c == p.colors[l.colorOff + k]
                       IN  [name |-> p.names[c.nameOff + 1], value |-> c.value]
       IN  [type |-> l.type, from |-> l.from, to |-> l.to, semantic |-> l.semantic, ch |-> l.ch,
            colors |-> [k \in 1 .. l.colors |-> Color(k)]] = def.leds[i]

SameFixture(f, g) ==
  /\ f.universe = g.universe /\ f.base = g.base
  /\ f.head = FixtureDef(g.file).head
  /\ f.head => f.aim = <<g.aim.POS, g.aim.ROT, g.aim.CENTER, g.aim.INVERT>>
  /\ SameProfile(loaded.profiles[f.profile + 1], FixtureDef(g.file))

SameMatrix(m, g) ==
  m = [width |-> g.width, height |-> g.height, serpentine |-> g.serpentine, vertical |-> g.vertical,
       order |-> g.order, startUniverse |-> g.startUniverse, startChannel |-> g.startChannel]

\* Whatever tables the version of a bundle has, the device reads the show the text
\* declares: every universe with its transport and route, fixture, matrix, controller
\* and WLED target; and it refuses a bundle only for a fixture it cannot hold.
\* (compileShow's writer, loadShow's reader, and the encoders and parsers in them)
BundleKeepsShow ==
  /\ stage = "refused" =>
       \E i \in DOMAIN patch.fixtures : TooMuch(FixtureDef(patch.fixtures[i].file))
  /\ loaded.ok =>
       /\ DOMAIN loaded.universe = 0 .. patch.maxUniverse
       /\ \A u \in DOMAIN loaded.universe :
            /\ loaded.universe[u].transport = TransportOf(u)
            /\ TransportOf(u) = "ARTNET" => loaded.universe[u].dest = RouteOf(u)
       /\ Len(loaded.fixtures) = Len(patch.fixtures)
       /\ \A i \in DOMAIN patch.fixtures : SameFixture(loaded.fixtures[i], patch.fixtures[i])
       /\ Len(loaded.matrices) = Len(patch.matrices)
       /\ \A i \in DOMAIN patch.matrices : SameMatrix(loaded.matrices[i], patch.matrices[i])
       /\ Len(loaded.controllers) = Len(patch.controllers)
       /\ \A i \in DOMAIN patch.controllers :
            SameController(loaded.controllers[i], ParseControllerDef(MdefText[patch.controllers[i]]))
       /\ loaded.wled = [i \in DOMAIN patch.wled |->
            <<patch.wled[i].name, patch.wled[i].ip, patch.wled[i].group>>]

\* No two Art-Net universes go to one output, an address and a wire universe, however
\* often and in whatever order universes are declared and declared again: two streams
\* never fight over one node.  (compileShow's artnetDestOwner)
RoutesStayApart ==
  \A u, v \in DOMAIN universes :
    u # v /\ universes[u].transport = "ARTNET" /\ universes[v].transport = "ARTNET" =>
      universes[u].route # universes[v].route

\* The rows of the grid as the .mdef declares them.
DeclaredRows(lines) ==
  SelectSeq(lines, LAMBDA l : l[1] = "PAD" /\ l[2] = l[3] /\ l[4] # <<>>)

\* A cue bound to a column and a row of the grid answers that pad and no other: the
\* binding's id is that of the pad's press, and of no press of a pad of another row or
\* column.  (resolvePadXY, glow.bind.pad-xy, LiveControl::effectiveId)
GridPadsAnswer ==
  loaded.ok /\ patch.controllers # <<>> =>
    LET p == loaded.controllers[1]
        rows == DeclaredRows(MdefText[patch.controllers[1]])
        columns(r) == rows[r + 1][4][2] - rows[r + 1][4][1]
        pads == {q \in (0 .. 15) \X (0 .. Len(rows) - 1) : q[1] <= columns(q[2])}
        note(q) == rows[q[2] + 1][2]
        channel(q) == rows[q[2] + 1][4][1] + q[1]
    IN  \A q, other \in pads :
          /\ ResolvePadXY(p, q[1], q[2]) = <<note(q), channel(q)>>
          /\ (PadXYId(p, q[1], q[2]) = EffectiveId(p, "Button", channel(other), note(other)))
               <=> <<note(q), channel(q)>> = <<note(other), channel(other)>>
================================================================================
