------------------------------ MODULE Tools_proofs -----------------------------
(***************************************************************************)
(* What a browser does for the device, for every instance.  The compiler   *)
(* (Provision), for every menu of lines and every set of definition files: *)
(* no two Art-Net universes go to one output.  The console (ConsolePage),  *)
(* for all names, texts, cues and limits: the device takes a frame for     *)
(* what the page meant by it, or not at all, a save that comes up short or *)
(* loses power never harms a script, and pads tell the truth.              *)
(***************************************************************************)
EXTENDS Provision, ConsolePage, SequenceTheorems, TLAPS

--------------------------------------------------------------------------------
(* Routes.                                                                     *)

\* The route of every Art-Net universe is claimed, by that universe.
OwnersKnow ==
  \A u \in DOMAIN universes :
    universes[u].transport = "ARTNET" =>
      universes[u].route \in DOMAIN owner /\ owner[universes[u].route] = u

LEMMA InitOwners == Init => OwnersKnow
BY DEF Init, OwnersKnow

(* An accepted UNIVERSE line adds to the claims and takes none from anyone,    *)
(* not even when it moves a universe to another route.                         *)
LEMMA UniverseKeepsOwners ==
  ASSUME OwnersKnow, NEW line, ReadUniverse(line)
  PROVE  OwnersKnow'
<1>. DEFINE idx == line[2] - 1
            artnet == line[3] = "ARTNET"
            route == IF artnet THEN Route(idx, line[4]) ELSE [ip |-> 0, wire |-> 0]
            said == [transport |-> line[3], route |-> route]
<1>1. CASE UNCHANGED network
  BY <1>1 DEF network, OwnersKnow
<1>2. CASE /\ artnet => ~ Claimed(route, idx)
           /\ universes' = Entered(universes, idx, said)
           /\ owner' = IF artnet THEN Entered(owner, route, idx) ELSE owner
  <2>. HIDE DEF idx, route
  <2>1. ASSUME NEW r \in DOMAIN owner, ~ (artnet /\ r = route)
        PROVE  r \in DOMAIN owner' /\ owner'[r] = owner[r]
    BY <1>2, <2>1 DEF Entered
  <2>2. artnet => route \in DOMAIN owner' /\ owner'[route] = idx
    BY <1>2 DEF Entered
  <2>3. ASSUME NEW u \in DOMAIN universes', universes'[u].transport = "ARTNET"
        PROVE  universes'[u].route \in DOMAIN owner' /\ owner'[universes'[u].route] = u
    <3>1. CASE u = idx
      <4>1. universes'[u] = said
        BY <1>2, <3>1 DEF Entered
      <4>. QED BY <2>2, <2>3, <3>1, <4>1
    <3>2. CASE u # idx
      <4>1. u \in DOMAIN universes /\ universes'[u] = universes[u]
        BY <1>2, <3>2 DEF Entered
      <4>2. universes[u].route \in DOMAIN owner /\ owner[universes[u].route] = u
        BY <2>3, <4>1 DEF OwnersKnow
      <4>3. ~ (artnet /\ universes[u].route = route)
        BY <1>2, <3>2, <4>2 DEF Claimed
      <4>. QED BY <2>1, <4>1, <4>2, <4>3
    <3>. QED BY <3>1, <3>2
  <2>. QED BY <2>3 DEF OwnersKnow
<1>. QED BY <1>1, <1>2 DEF ReadUniverse, Reject, network, device

(* No other step touches what the text says of the network.                    *)
LEMMA NextKeepsOwners == OwnersKnow /\ [Next]_vars => OwnersKnow'
<1>. SUFFICES ASSUME OwnersKnow, [Next]_vars PROVE OwnersKnow'
  OBVIOUS
<1>1. ASSUME NEW line \in Menu, ReadUniverse(line) PROVE OwnersKnow'
  BY <1>1, UniverseKeepsOwners
<1>2. ASSUME NEW line \in Menu,
             \/ ReadHeader(line) \/ ReadFixture(line) \/ ReadAim(line)
             \/ ReadMatrix(line) \/ ReadController(line) \/ ReadWled(line) \/ ReadUnknown(line)
      PROVE UNCHANGED network
  <2>1. Reject => UNCHANGED network
    BY DEF Reject
  <2>2. ReadHeader(line) => UNCHANGED network
    BY <2>1 DEF ReadHeader
  <2>3. ReadFixture(line) => UNCHANGED network
    BY <2>1, Zenon DEF ReadFixture
  <2>4. ReadAim(line) => UNCHANGED network
    BY <2>1, Zenon DEF ReadAim
  <2>5. ReadMatrix(line) => UNCHANGED network
    BY <2>1, SMT DEF ReadMatrix
  <2>6. ReadController(line) => UNCHANGED network
    BY <2>1, Zenon DEF ReadController
  <2>7. ReadWled(line) => UNCHANGED network
    BY <2>1, Zenon DEF ReadWled
  <2>8. ReadUnknown(line) => UNCHANGED network
    BY <2>1 DEF ReadUnknown
  <2>. QED BY <1>2, <2>2, <2>3, <2>4, <2>5, <2>6, <2>7, <2>8
<1>3. Compile \/ Load \/ Apply => UNCHANGED network
  BY DEF Compile, Load, Apply, network
<1>4. ASSUME NEW intent, RenderFrame(intent) PROVE UNCHANGED network
  BY <1>4 DEF RenderFrame
<1>5. UNCHANGED vars => UNCHANGED network
  BY DEF vars
<1>6. UNCHANGED network => OwnersKnow'
  BY DEF network, OwnersKnow
<1>. QED BY <1>1, <1>2, <1>3, <1>4, <1>5, <1>6 DEF Next, ReadLine

(* However often and in whatever order a text declares its universes, no two   *)
(* Art-Net universes go to one address and wire universe.                      *)
THEOREM RoutesNeverMeet == Spec => []RoutesStayApart
<1>1. OwnersKnow => RoutesStayApart
  BY DEF OwnersKnow, RoutesStayApart
<1>. QED BY InitOwners, NextKeepsOwners, <1>1, PTL DEF Spec

--------------------------------------------------------------------------------
(* Frames.                                                                     *)

Id == 0 .. MaxId

(* What a page may ask.                                                        *)
Asked ==
  [op : {"cue", "scene"}, id : Id, pressed : BOOLEAN]
    \cup [op : {"master"}, value : Level]
    \cup [op : {"hello", "script_list"}]
    \cup [op : {"eval"}, src : Text, seq : Nat]
    \cup [op : {"script_load", "script_delete"}, name : File]
    \cup [op : {"script_save"}, name : File, src : Text]

(* The fields a message has, by its kind.                                      *)
LEMMA AskedFields ==
  ASSUME NEW m \in Asked
  PROVE  \/ m.op \in {"cue", "scene"} /\ m.id \in Id /\ m.pressed \in BOOLEAN
         \/ m.op = "master" /\ m.value \in Level
         \/ m = [op |-> "hello"]
         \/ m = [op |-> "script_list"]
         \/ m.op = "eval" /\ m = [op |-> "eval", src |-> m.src, seq |-> m.seq]
              /\ m.src \in Text /\ m.seq \in Nat
         \/ m.op \in {"script_load", "script_delete"} /\ m = [op |-> m.op, name |-> m.name]
              /\ m.name \in File
         \/ m.op = "script_save" /\ m = [op |-> "script_save", name |-> m.name, src |-> m.src]
              /\ m.name \in File /\ m.src \in Text
BY DEF Asked

(* A key that occurs once names its value.                                     *)
LEMMA OfOnly ==
  ASSUME NEW fields, NEW key, NEW n \in Nat, DOMAIN fields = 1 .. n, NEW i \in 1 .. n,
         \A j \in 1 .. n : fields[j].key = key <=> j = i
  PROVE  Has(fields, key) /\ Of(fields, key) = fields[i].val
<1>. DEFINE Latest(k) == fields[k].key = key /\ \A j \in DOMAIN fields : fields[j].key = key => j <= k
<1>1. Latest(i)
  OBVIOUS
<1>2. (CHOOSE k \in DOMAIN fields : Latest(k)) = i
  <2>1. \A k \in DOMAIN fields : Latest(k) => k = i
    OBVIOUS
  <2>. QED BY <1>1, <2>1
<1>3. Has(fields, key)
  BY DEF Has
<1>. QED BY <1>2, <1>3 DEF Of

(* A frame without a source is short.                                          *)
LEMMA ShortFrame ==
  ASSUME NEW fields, \A i \in DOMAIN fields : fields[i].key # "src"
  PROVE  ~ (FrameLength(fields) >= FrameCap)
<1>1. {i \in DOMAIN fields : fields[i].key = "src"} = {}
  OBVIOUS
<1>2. FrameLength(fields) = 1
  BY <1>1 DEF FrameLength
<1>. QED BY <1>2, ProtocolAssumption

(* One with a source is as long as it says.                                    *)
LEMMA LongFrame ==
  ASSUME NEW fields, NEW i \in DOMAIN fields, fields[i].key = "src"
  PROVE  FrameLength(fields) = 1 + Wire[Of(fields, "src")]
<1>1. {k \in DOMAIN fields : fields[k].key = "src"} # {}
  OBVIOUS
<1>. QED BY <1>1 DEF FrameLength

(* The parsers in the order they are tried.                                    *)
Tried(fields) ==
  <<ParseWebCommand(fields), ParseEvalCommand(fields),
    IF IsScriptListCommand(fields) THEN [op |-> "script_list"] ELSE NotMine,
    ParseScriptNameCommand(fields), ParseScriptSaveCommand(fields)>>

(* If one parser at most takes a frame, it decides, whatever the order.        *)
LEMMA OnlyParser ==
  ASSUME NEW fields, ~ (FrameLength(fields) >= FrameCap), ~ IsHelloCommand(fields),
         NEW k \in 1 .. 5, \A i \in 1 .. 5 : i # k => Tried(fields)[i] = NotMine
  PROVE  Dispatch(fields) = Tried(fields)[k]
<1>. DEFINE mine == {i \in DOMAIN Tried(fields) : Tried(fields)[i] # NotMine}
<1>0. DOMAIN Tried(fields) = 1 .. 5
  BY DEF Tried
<1>1. Dispatch(fields) =
        IF mine = {} THEN NotMine ELSE Tried(fields)[CHOOSE i \in mine : \A j \in mine : i <= j]
  BY DEF Dispatch, Tried
<1>2. CASE Tried(fields)[k] = NotMine
  <2>1. mine = {}
    BY <1>0, <1>2
  <2>. QED BY <1>1, <1>2, <2>1
<1>3. CASE Tried(fields)[k] # NotMine
  <2>1. mine = {k}
    BY <1>0, <1>3
  <2>2. (CHOOSE i \in mine : \A j \in mine : i <= j) = k
    BY <2>1
  <2>. QED BY <1>1, <2>1, <2>2
<1>. QED BY <1>2, <1>3

--------------------------------------------------------------------------------
(* Each kind of frame is taken by its parser.                                  *)

Understood(m) == Dispatch(Encode(m)) = IF Fits(m) THEN Meant(m) ELSE NotMine

LEMMA HelloUnderstood == Understood([op |-> "hello"])
<1>. DEFINE m == [op |-> "hello"]
            fields == SendHello
<1>1. Encode(m) = fields
  BY DEF Encode
<1>2. ~ (FrameLength(fields) >= FrameCap)
  BY ShortFrame DEF SendHello, Type, Field
<1>3. IsHelloCommand(fields)
  BY DEF IsHelloCommand, SendHello
<1>4. Dispatch(fields) = m
  BY <1>2, <1>3 DEF Dispatch
<1>5. Fits(m) /\ Meant(m) = m
  BY DEF Fits, Meant
<1>. QED BY <1>1, <1>4, <1>5 DEF Understood

(* The type of a frame decides which parser takes it.                          *)
LEMMA TypeDecides ==
  ASSUME NEW fields, NEW t, fields # <<>>, fields[1] = Type(t), t # "hello",
         Of(fields, "type") = t, ~ (FrameLength(fields) >= FrameCap)
  PROVE  /\ t \in {"cue", "scene", "master"} => Dispatch(fields) = ParseWebCommand(fields)
         /\ t = "eval" => Dispatch(fields) = ParseEvalCommand(fields)
         /\ t = "script_list" => Dispatch(fields) = [op |-> "script_list"]
         /\ t \in {"script_load", "script_delete"} =>
              Dispatch(fields) = ParseScriptNameCommand(fields)
         /\ t = "script_save" => Dispatch(fields) = ParseScriptSaveCommand(fields)
<1>1. ~ IsHelloCommand(fields) /\ (IsScriptListCommand(fields) <=> t = "script_list")
  BY DEF IsHelloCommand, IsScriptListCommand, Type, Field
<1>2. t \notin {"cue", "scene", "master"} => ParseWebCommand(fields) = NotMine
  BY DEF ParseWebCommand
<1>3. t # "eval" => ParseEvalCommand(fields) = NotMine
  BY DEF ParseEvalCommand
<1>4. t \notin {"script_load", "script_delete"} => ParseScriptNameCommand(fields) = NotMine
  BY DEF ParseScriptNameCommand
<1>5. t # "script_save" => ParseScriptSaveCommand(fields) = NotMine
  BY DEF ParseScriptSaveCommand
<1>6. /\ Tried(fields)[1] = ParseWebCommand(fields)
      /\ Tried(fields)[2] = ParseEvalCommand(fields)
      /\ Tried(fields)[3] = IF t = "script_list" THEN [op |-> "script_list"] ELSE NotMine
      /\ Tried(fields)[4] = ParseScriptNameCommand(fields)
      /\ Tried(fields)[5] = ParseScriptSaveCommand(fields)
  BY <1>1 DEF Tried
<1>7. ASSUME NEW k \in 1 .. 5, \A i \in 1 .. 5 : i # k => Tried(fields)[i] = NotMine
      PROVE  Dispatch(fields) = Tried(fields)[k]
  BY <1>1, <1>7, OnlyParser
<1>8. CASE t \in {"cue", "scene", "master"}
  <2>1. \A i \in 1 .. 5 : i # 1 => Tried(fields)[i] = NotMine
    BY <1>3, <1>4, <1>5, <1>6, <1>8
  <2>. QED BY <1>6, <1>7, <1>8, <2>1
<1>9. CASE t = "eval"
  <2>1. \A i \in 1 .. 5 : i # 2 => Tried(fields)[i] = NotMine
    BY <1>2, <1>4, <1>5, <1>6, <1>9
  <2>. QED BY <1>6, <1>7, <1>9, <2>1
<1>10. CASE t = "script_list"
  <2>1. \A i \in 1 .. 5 : i # 3 => Tried(fields)[i] = NotMine
    BY <1>2, <1>3, <1>4, <1>5, <1>6, <1>10
  <2>. QED BY <1>6, <1>7, <1>10, <2>1
<1>11. CASE t \in {"script_load", "script_delete"}
  <2>1. \A i \in 1 .. 5 : i # 4 => Tried(fields)[i] = NotMine
    BY <1>2, <1>3, <1>5, <1>6, <1>11
  <2>. QED BY <1>6, <1>7, <1>11, <2>1
<1>12. CASE t = "script_save"
  <2>1. \A i \in 1 .. 5 : i # 5 => Tried(fields)[i] = NotMine
    BY <1>2, <1>3, <1>4, <1>6, <1>12
  <2>. QED BY <1>6, <1>7, <1>12, <2>1
<1>. QED BY <1>8, <1>9, <1>10, <1>11, <1>12

LEMMA ScriptListUnderstood == Understood([op |-> "script_list"])
<1>. DEFINE m == [op |-> "script_list"]
            fields == SendScriptList
<1>1. Encode(m) = fields
  BY DEF Encode
<1>2. /\ fields # <<>> /\ DOMAIN fields = 1 .. 1 /\ fields[1] = Type("script_list")
      /\ fields[1].key = "type" /\ fields[1].val = "script_list"
  BY DEF SendScriptList, Type, Field
<1>3. ~ (FrameLength(fields) >= FrameCap)
  BY <1>2, ShortFrame
<1>4. Of(fields, "type") = "script_list"
  <2>1. \A j \in 1 .. 1 : fields[j].key = "type" <=> j = 1
    BY <1>2
  <2>2. 1 \in Nat /\ 1 \in 1 .. 1
    OBVIOUS
  <2>. HIDE DEF fields
  <2>. QED BY <1>2, <2>1, <2>2, OfOnly
<1>5. Dispatch(fields) = m
  BY <1>2, <1>3, <1>4, TypeDecides
<1>6. Fits(m) /\ Meant(m) = m
  BY DEF Fits, Meant
<1>. QED BY <1>1, <1>5, <1>6 DEF Understood

LEMMA ButtonUnderstood ==
  ASSUME NEW m, m.op \in {"cue", "scene"}, m.id \in Id, m.pressed \in BOOLEAN
  PROVE  Understood(m)
<1>. DEFINE fields == SendButton(m.op, m.id, m.pressed)
<1>1. Encode(m) = fields
  BY DEF Encode
<1>2. /\ fields # <<>> /\ DOMAIN fields = 1 .. 3 /\ fields[1] = Type(m.op)
      /\ fields[1] = [key |-> "type", form |-> "plain", val |-> m.op]
      /\ fields[2] = [key |-> "id", form |-> "number", val |-> m.id]
      /\ fields[3] = [key |-> "pressed", form |-> "bool", val |-> m.pressed]
  BY DEF SendButton, Type, Field
<1>. HIDE DEF fields
<1>3. ~ (FrameLength(fields) >= FrameCap)
  BY <1>2, ShortFrame
<1>4. /\ Has(fields, "type") /\ Of(fields, "type") = m.op
      /\ Has(fields, "id") /\ Of(fields, "id") = m.id
      /\ Has(fields, "pressed") /\ Of(fields, "pressed") = m.pressed
  <2>1. \A j \in 1 .. 3 : fields[j].key = "type" <=> j = 1
    BY <1>2
  <2>2. \A j \in 1 .. 3 : fields[j].key = "id" <=> j = 2
    BY <1>2
  <2>3. \A j \in 1 .. 3 : fields[j].key = "pressed" <=> j = 3
    BY <1>2
  <2>4. 3 \in Nat /\ 1 \in 1 .. 3 /\ 2 \in 1 .. 3 /\ 3 \in 1 .. 3
    OBVIOUS
  <2>5. Has(fields, "type") /\ Of(fields, "type") = fields[1].val
    BY <1>2, <2>1, <2>4, OfOnly
  <2>6. Has(fields, "id") /\ Of(fields, "id") = fields[2].val
    BY <1>2, <2>2, <2>4, OfOnly
  <2>7. Has(fields, "pressed") /\ Of(fields, "pressed") = fields[3].val
    BY <1>2, <2>3, <2>4, OfOnly
  <2>. QED BY <1>2, <2>5, <2>6, <2>7
<1>5. Scans([type |-> "plain", id |-> "number", pressed |-> "bool", value |-> "number"], fields)
  <2>1. ASSUME NEW i \in 1 .. 3
        PROVE  Takes([type |-> "plain", id |-> "number", pressed |-> "bool", value |-> "number"],
                     fields[i])
    <3>1. i = 1 \/ i = 2 \/ i = 3
      OBVIOUS
    <3>. QED BY <1>2, <3>1 DEF Takes
  <2>. QED BY <1>2, <2>1 DEF Scans
<1>6. ParseWebCommand(fields) = [op |-> "button", id |-> m.id, pressed |-> m.pressed]
  BY <1>4, <1>5 DEF ParseWebCommand, Id
<1>7. Dispatch(fields) = ParseWebCommand(fields)
  BY <1>2, <1>3, <1>4, TypeDecides
<1>8. Fits(m) /\ Meant(m) = [op |-> "button", id |-> m.id, pressed |-> m.pressed]
  BY DEF Fits, Meant
<1>. QED BY <1>1, <1>6, <1>7, <1>8 DEF Understood

LEMMA MasterUnderstood ==
  ASSUME NEW m, m.op = "master"
  PROVE  Understood(m)
<1>. DEFINE fields == SendMaster(m.value)
<1>1. Encode(m) = fields
  BY DEF Encode
<1>2. /\ fields # <<>> /\ DOMAIN fields = 1 .. 2 /\ fields[1] = Type("master")
      /\ fields[1] = [key |-> "type", form |-> "plain", val |-> "master"]
      /\ fields[2] = [key |-> "value", form |-> "number", val |-> m.value]
  BY DEF SendMaster, Type, Field
<1>. HIDE DEF fields
<1>3. ~ (FrameLength(fields) >= FrameCap)
  BY <1>2, ShortFrame
<1>4. /\ Has(fields, "type") /\ Of(fields, "type") = "master"
      /\ Has(fields, "value") /\ Of(fields, "value") = m.value
  <2>1. \A j \in 1 .. 2 : fields[j].key = "type" <=> j = 1
    BY <1>2
  <2>2. \A j \in 1 .. 2 : fields[j].key = "value" <=> j = 2
    BY <1>2
  <2>3. 2 \in Nat /\ 1 \in 1 .. 2 /\ 2 \in 1 .. 2
    OBVIOUS
  <2>4. Has(fields, "type") /\ Of(fields, "type") = fields[1].val
    BY <1>2, <2>1, <2>3, OfOnly
  <2>5. Has(fields, "value") /\ Of(fields, "value") = fields[2].val
    BY <1>2, <2>2, <2>3, OfOnly
  <2>. QED BY <1>2, <2>4, <2>5
<1>5. Scans([type |-> "plain", id |-> "number", pressed |-> "bool", value |-> "number"], fields)
  <2>1. ASSUME NEW i \in 1 .. 2
        PROVE  Takes([type |-> "plain", id |-> "number", pressed |-> "bool", value |-> "number"],
                     fields[i])
    <3>1. i = 1 \/ i = 2
      OBVIOUS
    <3>. QED BY <1>2, <3>1 DEF Takes
  <2>. QED BY <1>2, <2>1 DEF Scans
<1>6. ParseWebCommand(fields) = [op |-> "fader", value |-> m.value]
  BY <1>4, <1>5 DEF ParseWebCommand
<1>7. Dispatch(fields) = ParseWebCommand(fields)
  BY <1>2, <1>3, <1>4, TypeDecides
<1>8. Fits(m) /\ Meant(m) = [op |-> "fader", value |-> m.value]
  BY DEF Fits, Meant
<1>. QED BY <1>1, <1>6, <1>7, <1>8 DEF Understood

LEMMA EvalUnderstood ==
  ASSUME NEW m, m = [op |-> "eval", src |-> m.src, seq |-> m.seq], m.src \in Text
  PROVE  Understood(m)
<1>. DEFINE fields == SendEval(m.src, m.seq)
            wants == [type |-> "plain", seq |-> "number", src |-> "decoded"]
<1>0. m.op = "eval"
  OBVIOUS
<1>1. Encode(m) = fields
  BY <1>0 DEF Encode
<1>2. /\ fields # <<>> /\ DOMAIN fields = 1 .. 3 /\ fields[1] = Type("eval")
      /\ fields[1] = [key |-> "type", form |-> "plain", val |-> "eval"]
      /\ fields[2] = [key |-> "src", form |-> IF m.src \in Escaped THEN "escaped" ELSE "plain",
                      val |-> m.src]
      /\ fields[3] = [key |-> "seq", form |-> "number", val |-> m.seq]
  BY DEF SendEval, Type, Field, Str
<1>. HIDE DEF fields
<1>3. /\ Has(fields, "type") /\ Of(fields, "type") = "eval"
      /\ Has(fields, "src") /\ Of(fields, "src") = m.src
      /\ Has(fields, "seq") /\ Of(fields, "seq") = m.seq
  <2>1. \A j \in 1 .. 3 : fields[j].key = "type" <=> j = 1
    BY <1>2
  <2>2. \A j \in 1 .. 3 : fields[j].key = "src" <=> j = 2
    BY <1>2
  <2>3. \A j \in 1 .. 3 : fields[j].key = "seq" <=> j = 3
    BY <1>2
  <2>4. 3 \in Nat /\ 1 \in 1 .. 3 /\ 2 \in 1 .. 3 /\ 3 \in 1 .. 3
    OBVIOUS
  <2>5. Has(fields, "type") /\ Of(fields, "type") = fields[1].val
    BY <1>2, <2>1, <2>4, OfOnly
  <2>6. Has(fields, "src") /\ Of(fields, "src") = fields[2].val
    BY <1>2, <2>2, <2>4, OfOnly
  <2>7. Has(fields, "seq") /\ Of(fields, "seq") = fields[3].val
    BY <1>2, <2>3, <2>4, OfOnly
  <2>. QED BY <1>2, <2>5, <2>6, <2>7
<1>4. FrameLength(fields) = 1 + Wire[m.src]
  <2>1. 2 \in DOMAIN fields /\ fields[2].key = "src"
    BY <1>2
  <2>. QED BY <1>3, <2>1, LongFrame
<1>5. Wire[m.src] \in Nat /\ FrameCap \in Nat /\ Bytes[m.src] \in Nat /\ SrcCap \in Nat
  BY ProtocolAssumption, ScriptAssumption
<1>6. Scans(wants, fields) <=> Bytes[m.src] <= SrcCap
  <2>1. Takes(wants, fields[1]) /\ Takes(wants, fields[3])
    BY <1>2 DEF Takes
  <2>2. Takes(wants, fields[2]) <=> Bytes[m.src] <= SrcCap
    BY <1>2 DEF Takes
  <2>3. \A i \in 1 .. 3 : i = 1 \/ i = 2 \/ i = 3
    OBVIOUS
  <2>. QED BY <1>2, <2>1, <2>2, <2>3 DEF Scans
<1>7. Fits(m) <=> Bytes[m.src] <= SrcCap /\ 1 + Wire[m.src] < FrameCap
  BY <1>0 DEF Fits
<1>8. Meant(m) = m
  BY <1>0 DEF Meant
<1>9. CASE FrameLength(fields) >= FrameCap
  <2>1. Dispatch(fields) = NotMine
    BY <1>9 DEF Dispatch
  <2>2. ~ Fits(m)
    BY <1>4, <1>5, <1>7, <1>9
  <2>. QED BY <1>1, <2>1, <2>2 DEF Understood
<1>10. CASE ~ (FrameLength(fields) >= FrameCap)
  <2>1. Dispatch(fields) = ParseEvalCommand(fields)
    BY <1>2, <1>3, <1>10, TypeDecides
  <2>2. ParseEvalCommand(fields) = IF Scans(wants, fields) THEN m ELSE NotMine
    BY <1>3 DEF ParseEvalCommand
  <2>3. Fits(m) <=> Scans(wants, fields)
    BY <1>4, <1>5, <1>6, <1>7, <1>10
  <2>. QED BY <1>1, <1>8, <2>1, <2>2, <2>3 DEF Understood
<1>. QED BY <1>9, <1>10

LEMMA NameUnderstood ==
  ASSUME NEW m, m = [op |-> m.op, name |-> m.name], m.op \in {"script_load", "script_delete"}
  PROVE  Understood(m)
<1>. DEFINE fields == <<Type(m.op), Str("name", m.name)>>
            wants == [type |-> "plain", name |-> "plain"]
<1>1. Encode(m) = fields
  BY DEF Encode, SendScriptLoad, SendScriptDelete
<1>2. /\ fields # <<>> /\ DOMAIN fields = 1 .. 2 /\ fields[1] = Type(m.op)
      /\ fields[1] = [key |-> "type", form |-> "plain", val |-> m.op]
      /\ fields[2] = [key |-> "name", form |-> IF m.name \in Escaped THEN "escaped" ELSE "plain",
                      val |-> m.name]
  BY DEF Type, Field, Str
<1>. HIDE DEF fields
<1>3. ~ (FrameLength(fields) >= FrameCap)
  BY <1>2, ShortFrame
<1>4. /\ Has(fields, "type") /\ Of(fields, "type") = m.op
      /\ Has(fields, "name") /\ Of(fields, "name") = m.name
  <2>1. \A j \in 1 .. 2 : fields[j].key = "type" <=> j = 1
    BY <1>2
  <2>2. \A j \in 1 .. 2 : fields[j].key = "name" <=> j = 2
    BY <1>2
  <2>3. 2 \in Nat /\ 1 \in 1 .. 2 /\ 2 \in 1 .. 2
    OBVIOUS
  <2>4. Has(fields, "type") /\ Of(fields, "type") = fields[1].val
    BY <1>2, <2>1, <2>3, OfOnly
  <2>5. Has(fields, "name") /\ Of(fields, "name") = fields[2].val
    BY <1>2, <2>2, <2>3, OfOnly
  <2>. QED BY <1>2, <2>4, <2>5
<1>5. Scans(wants, fields) <=> m.name \notin Escaped
  <2>1. Takes(wants, fields[1])
    BY <1>2 DEF Takes
  <2>2. Takes(wants, fields[2]) <=> m.name \notin Escaped
    BY <1>2 DEF Takes
  <2>3. \A i \in 1 .. 2 : i = 1 \/ i = 2
    OBVIOUS
  <2>. QED BY <1>2, <2>1, <2>2, <2>3 DEF Scans
<1>6. ParseScriptNameCommand(fields) = IF m.name \notin Escaped \cup Long THEN m ELSE NotMine
  BY <1>4, <1>5 DEF ParseScriptNameCommand
<1>7. Dispatch(fields) = ParseScriptNameCommand(fields)
  BY <1>2, <1>3, <1>4, TypeDecides
<1>8. (Fits(m) <=> m.name \notin Escaped \cup Long) /\ Meant(m) = m
  BY DEF Fits, Meant
<1>. QED BY <1>1, <1>6, <1>7, <1>8 DEF Understood

LEMMA SaveUnderstood ==
  ASSUME NEW m, m = [op |-> "script_save", name |-> m.name, src |-> m.src], m.src \in Text
  PROVE  Understood(m)
<1>. DEFINE fields == SendScriptSave(m.name, m.src)
            wants == [type |-> "plain", name |-> "plain", src |-> "decoded"]
<1>0. m.op = "script_save"
  OBVIOUS
<1>1. Encode(m) = fields
  BY <1>0 DEF Encode
<1>2. /\ fields # <<>> /\ DOMAIN fields = 1 .. 3 /\ fields[1] = Type("script_save")
      /\ fields[1] = [key |-> "type", form |-> "plain", val |-> "script_save"]
      /\ fields[2] = [key |-> "name", form |-> IF m.name \in Escaped THEN "escaped" ELSE "plain",
                      val |-> m.name]
      /\ fields[3] = [key |-> "src", form |-> IF m.src \in Escaped THEN "escaped" ELSE "plain",
                      val |-> m.src]
  BY DEF SendScriptSave, Type, Field, Str
<1>. HIDE DEF fields
<1>3. /\ Has(fields, "type") /\ Of(fields, "type") = "script_save"
      /\ Has(fields, "name") /\ Of(fields, "name") = m.name
      /\ Has(fields, "src") /\ Of(fields, "src") = m.src
  <2>1. \A j \in 1 .. 3 : fields[j].key = "type" <=> j = 1
    BY <1>2
  <2>2. \A j \in 1 .. 3 : fields[j].key = "name" <=> j = 2
    BY <1>2
  <2>3. \A j \in 1 .. 3 : fields[j].key = "src" <=> j = 3
    BY <1>2
  <2>4. 3 \in Nat /\ 1 \in 1 .. 3 /\ 2 \in 1 .. 3 /\ 3 \in 1 .. 3
    OBVIOUS
  <2>5. Has(fields, "type") /\ Of(fields, "type") = fields[1].val
    BY <1>2, <2>1, <2>4, OfOnly
  <2>6. Has(fields, "name") /\ Of(fields, "name") = fields[2].val
    BY <1>2, <2>2, <2>4, OfOnly
  <2>7. Has(fields, "src") /\ Of(fields, "src") = fields[3].val
    BY <1>2, <2>3, <2>4, OfOnly
  <2>. QED BY <1>2, <2>5, <2>6, <2>7
<1>4. FrameLength(fields) = 1 + Wire[m.src]
  <2>1. 3 \in DOMAIN fields /\ fields[3].key = "src"
    BY <1>2
  <2>. QED BY <1>3, <2>1, LongFrame
<1>5. Wire[m.src] \in Nat /\ FrameCap \in Nat /\ Bytes[m.src] \in Nat /\ SrcCap \in Nat
  BY ProtocolAssumption, ScriptAssumption
<1>6. Scans(wants, fields) <=> m.name \notin Escaped /\ Bytes[m.src] <= SrcCap
  <2>1. Takes(wants, fields[1]) /\ (Takes(wants, fields[2]) <=> m.name \notin Escaped)
    BY <1>2 DEF Takes
  <2>2. Takes(wants, fields[3]) <=> Bytes[m.src] <= SrcCap
    BY <1>2 DEF Takes
  <2>3. \A i \in 1 .. 3 : i = 1 \/ i = 2 \/ i = 3
    OBVIOUS
  <2>. QED BY <1>2, <2>1, <2>2, <2>3 DEF Scans
<1>7. Fits(m) <=> /\ m.name \notin Escaped \cup Long
                  /\ Bytes[m.src] <= SrcCap /\ 1 + Wire[m.src] < FrameCap
  BY <1>0 DEF Fits
<1>8. Meant(m) = m
  BY <1>0 DEF Meant
<1>9. CASE FrameLength(fields) >= FrameCap
  <2>1. Dispatch(fields) = NotMine
    BY <1>9 DEF Dispatch
  <2>2. ~ Fits(m)
    BY <1>4, <1>5, <1>7, <1>9
  <2>. QED BY <1>1, <2>1, <2>2 DEF Understood
<1>10. CASE ~ (FrameLength(fields) >= FrameCap)
  <2>1. Dispatch(fields) = ParseScriptSaveCommand(fields)
    BY <1>2, <1>3, <1>10, TypeDecides
  <2>2. ParseScriptSaveCommand(fields) =
          IF Scans(wants, fields) /\ m.name \notin Long THEN m ELSE NotMine
    BY <1>3 DEF ParseScriptSaveCommand
  <2>3. Fits(m) <=> Scans(wants, fields) /\ m.name \notin Long
    BY <1>4, <1>5, <1>6, <1>7, <1>10
  <2>. QED BY <1>1, <1>8, <2>1, <2>2, <2>3 DEF Understood
<1>. QED BY <1>9, <1>10

(* Every frame is taken for what the page meant by it, or not at all.          *)
LEMMA FramesUnderstood ==
  ASSUME NEW m \in Asked
  PROVE  Understood(m)
BY AskedFields, HelloUnderstood, ScriptListUnderstood, ButtonUnderstood, MasterUnderstood,
   EvalUnderstood, NameUnderstood, SaveUnderstood

--------------------------------------------------------------------------------
(* The scripts partition.                                                      *)

(* A save has a text, and has it whole in the staged file before it renames.   *)
SaveIsSound ==
  /\ saving.at # "none" => saving.src \in Text
  /\ saving.at = "whole" => files[Staged[saving.name]] \in Text

StoreInv == StoreTypeOK /\ SaveIsSound /\ ScriptsWhole

LEMMA StoreConstants ==
  /\ \A n \in ValidName : /\ Staged[n] \in File \ ValidName
                          /\ IsTempFile(Staged[n])
  /\ ValidName \subseteq File /\ BootFile \in ValidName
  /\ Absent \notin Text /\ Torn \notin Text /\ Absent # Torn
<1>1. \A n \in ValidName : Staged[n] \in Dotted /\ Dotted \subseteq File
  BY ScriptAssumption
<1>2. \A n \in ValidName : Staged[n] \notin ValidName
  BY <1>1 DEF ValidName, ScriptNameIsValid
<1>3. \A n \in ValidName : IsTempFile(Staged[n])
  BY DEF IsTempFile
<1>. QED BY <1>1, <1>2, <1>3, ScriptAssumption DEF ValidName

LEMMA StoreStarts == StoreInit => StoreInv
<1>. SUFFICES ASSUME StoreInit PROVE StoreInv
  OBVIOUS
<1>1. StoreTypeOK
  BY StoreConstants, ScriptAssumption DEF StoreInit, StoreTypeOK, NotSaving
<1>2. SaveIsSound
  BY DEF StoreInit, SaveIsSound, NotSaving
<1>3. ScriptsWhole
  BY ScriptAssumption DEF StoreInit, ScriptsWhole
<1>. QED BY <1>1, <1>2, <1>3 DEF StoreInv

(* Writing a staged file is nobody's business: no script is one.               *)
LEMMA StagingKeepsWhole ==
  ASSUME StoreInv, NEW n \in ValidName, NEW v \in Text \cup {Absent, Torn},
         files' = [files EXCEPT ![Staged[n]] = v]
  PROVE  files' \in [File -> Text \cup {Absent, Torn}] /\ ScriptsWhole'
<1>1. Staged[n] \in File /\ IsTempFile(Staged[n]) /\ files \in [File -> Text \cup {Absent, Torn}]
  BY StoreConstants DEF StoreInv, StoreTypeOK
<1>2. \A f \in File : ~ IsTempFile(f) => files'[f] = files[f]
  BY <1>1
<1>. QED BY <1>1, <1>2 DEF StoreInv, ScriptsWhole

LEMMA SaveOpenKeepsStore ==
  ASSUME StoreInv, NEW n \in File, NEW src \in Text, SaveOpen(n, src)
  PROVE  StoreInv'
<1>1. n \in ValidName
  BY DEF SaveOpen, MaySave, ValidName
<1>2. files' \in [File -> Text \cup {Absent, Torn}] /\ ScriptsWhole'
  BY <1>1, StagingKeepsWhole DEF SaveOpen
<1>3. StoreTypeOK'
  BY <1>1, <1>2 DEF SaveOpen, StoreInv, StoreTypeOK
<1>4. SaveIsSound'
  BY DEF SaveOpen, SaveIsSound
<1>. QED BY <1>2, <1>3, <1>4 DEF StoreInv

LEMMA SaveKeepsStore ==
  ASSUME StoreInv, SaveWrite \/ SaveRename \/ SaveRemove
  PROVE  StoreInv'
<1>. DEFINE n == saving.name
<1>0. /\ n \in ValidName /\ Staged[n] \in File \ ValidName /\ n \in File
      /\ files \in [File -> Text \cup {Absent, Torn}] /\ mounted \in BOOLEAN
      /\ saving \in [at : {"none", "open", "short", "whole"}, name : ValidName,
                     src : Text \cup {Absent}]
  BY StoreConstants DEF StoreInv, StoreTypeOK
<1>1. CASE SaveWrite
  <2>1. saving.src \in Text
    BY <1>1 DEF SaveWrite, StoreInv, SaveIsSound
  <2>2. CASE /\ files' = [files EXCEPT ![Staged[n]] = saving.src]
             /\ saving' = [saving EXCEPT !.at = "whole"]
    <3>1. files' \in [File -> Text \cup {Absent, Torn}] /\ ScriptsWhole'
      BY <1>0, <2>1, <2>2, StagingKeepsWhole
    <3>2. files'[Staged[n]] = saving.src
      BY <1>0, <2>2
    <3>3. saving'.name = n /\ saving'.src = saving.src /\ saving'.at = "whole"
      BY <1>0, <2>2
    <3>4. SaveIsSound'
      BY <2>1, <3>2, <3>3 DEF SaveIsSound
    <3>5. StoreTypeOK'
      BY <1>0, <1>1, <2>2, <3>1 DEF SaveWrite, StoreTypeOK
    <3>. QED BY <3>1, <3>4, <3>5 DEF StoreInv
  <2>3. CASE saving' = [saving EXCEPT !.at = "short"] /\ UNCHANGED files
    <3>1. StoreTypeOK'
      BY <1>0, <1>1, <2>3 DEF SaveWrite, StoreTypeOK
    <3>2. SaveIsSound'
      BY <1>0, <2>1, <2>3 DEF SaveIsSound
    <3>3. ScriptsWhole'
      BY <2>3 DEF StoreInv, ScriptsWhole
    <3>. QED BY <3>1, <3>2, <3>3 DEF StoreInv
  <2>. QED BY <1>1, <2>2, <2>3 DEF SaveWrite
<1>2. CASE SaveRename
  <2>1. files[Staged[n]] \in Text
    BY <1>2 DEF SaveRename, StoreInv, SaveIsSound
  <2>2. files' = [files EXCEPT ![n] = files[Staged[n]], ![Staged[n]] = Absent]
    BY <1>2 DEF SaveRename
  <2>3. files' \in [File -> Text \cup {Absent, Torn}]
    BY <1>0, <2>1, <2>2
  <2>4. ScriptsWhole'
    <3>. SUFFICES ASSUME NEW f \in File, files'[f] # Absent, ~ IsTempFile(f)
                  PROVE  f \in ValidName /\ files'[f] \in Text
      BY DEF ScriptsWhole, IsTempFile
    <3>1. CASE f = n
      <4>1. files'[n] = files[Staged[n]]
        BY <1>0, <2>2
      <4>. QED BY <1>0, <2>1, <3>1, <4>1
    <3>2. CASE f # n
      <4>1. f # Staged[n]
        BY <1>0, StoreConstants
      <4>2. files'[f] = files[f]
        BY <1>0, <2>2, <3>2, <4>1
      <4>. QED BY <4>2 DEF StoreInv, ScriptsWhole
    <3>. QED BY <3>1, <3>2
  <2>5. StoreTypeOK' /\ SaveIsSound'
    BY <1>0, <1>2, <2>3, StoreConstants DEF SaveRename, StoreTypeOK, SaveIsSound, NotSaving
  <2>. QED BY <2>4, <2>5 DEF StoreInv
<1>3. CASE SaveRemove
  <2>1. files' = [files EXCEPT ![Staged[n]] = Absent]
    BY <1>3 DEF SaveRemove
  <2>2. files' \in [File -> Text \cup {Absent, Torn}] /\ ScriptsWhole'
    BY <1>0, <2>1, StagingKeepsWhole
  <2>3. StoreTypeOK' /\ SaveIsSound'
    BY <1>0, <1>3, <2>2, StoreConstants DEF SaveRemove, StoreTypeOK, SaveIsSound, NotSaving
  <2>. QED BY <2>2, <2>3 DEF StoreInv
<1>. QED BY <1>1, <1>2, <1>3

LEMMA DeleteKeepsStore ==
  ASSUME StoreInv, NEW n \in File, Delete(n)
  PROVE  StoreInv'
<1>0. files \in [File -> Text \cup {Absent, Torn}]
  BY DEF StoreInv, StoreTypeOK
<1>1. files' \in [File -> Text \cup {Absent, Torn}]
      /\ \A f \in File : files'[f] = files[f] \/ files'[f] = Absent
  BY <1>0 DEF Delete
<1>2. StoreTypeOK'
  BY <1>1 DEF Delete, StoreInv, StoreTypeOK
<1>3. SaveIsSound'
  BY DEF Delete, SaveIsSound
<1>4. ScriptsWhole'
  BY <1>1 DEF StoreInv, ScriptsWhole, IsTempFile
<1>. QED BY <1>2, <1>3, <1>4 DEF StoreInv

LEMMA BootsKeepStore ==
  ASSUME StoreInv, SetUpLua \/ StorePowerLoss
  PROVE  StoreInv'
<1>1. files' = files /\ (saving' = saving \/ saving' = NotSaving) /\ mounted' \in BOOLEAN
  BY DEF SetUpLua, StorePowerLoss
<1>2. StoreTypeOK'
  BY <1>1, StoreConstants DEF StoreInv, StoreTypeOK, NotSaving
<1>3. SaveIsSound'
  BY <1>1 DEF StoreInv, SaveIsSound, NotSaving
<1>4. ScriptsWhole'
  BY <1>1 DEF StoreInv, ScriptsWhole
<1>. QED BY <1>2, <1>3, <1>4 DEF StoreInv

--------------------------------------------------------------------------------
(* The inductive invariant: what the frames, the queues and the page hold.     *)

Frame == {[asks |-> m, fields |-> Encode(m)] : m \in Asked}

Control == [op : {"button"}, id : Id, pressed : BOOLEAN] \cup [op : {"fader"}, value : Level]

Submission == [op : {"eval"}, src : Text, seq : Nat]

(* What a page may hear.                                                       *)
Heard ==
  [type : {"config"}, cues : [Pads -> {"flash", "toggle"}], scenes : {DOMAIN Scenes},
   hasMaster : BOOLEAN]
    \cup [type : {"state"}, active : SUBSET Id, master : Level]
    \cup [type : {"eval_result"}, seq : Nat, ok : BOOLEAN]
    \cup [type : {"scripts"}, names : SUBSET File]
    \cup [type : {"script"}, name : File, src : Text]
    \cup [type : {"fx_error"}, effect : {"flame"}]
    \cup [type : {"ota"}, phase : {"receiving"}]
    \cup [type : {"garbled", "blackout"}]

WireInv == up \in Seq(Frame) /\ down \in Seq(Heard)

RigInv ==
  /\ controls \in Seq(Control) /\ evals \in Seq(Submission)
  /\ on \subseteq Id /\ level \in Level

PanelInv ==
  /\ config = NoConfig \/ (DOMAIN config.cues = Pads /\ config.scenes = DOMAIN Scenes)
  /\ names \subseteq File /\ current \in File \cup {Untitled}
  /\ draft \in Text /\ seq \in Nat
  /\ shown \subseteq Nat

PageInv == StoreInv /\ WireInv /\ RigInv /\ PanelInv

LEMMA PageStarts == PageInit => PageInv
<1>. SUFFICES ASSUME PageInit PROVE PageInv
  OBVIOUS
<1>1. StoreInv
  BY StoreStarts DEF PageInit
<1>2. WireInv
  BY DEF PageInit, LinkInit, WireInv
<1>3. RigInv
  BY LinkAssumption DEF PageInit, LinkInit, RigInv
<1>4. PanelInv
  BY PageAssumption DEF PageInit, PanelInv
<1>. QED BY <1>1, <1>2, <1>3, <1>4 DEF PageInv

(* What a page sends arrives as a frame, or not at all.                        *)
LEMMA SendKeepsFrames ==
  ASSUME up \in Seq(Frame), NEW m \in Asked, Send(m)
  PROVE  up' \in Seq(Frame)
<1>1. [asks |-> m, fields |-> Encode(m)] \in Frame
  BY DEF Frame
<1>. QED BY <1>1, AppendProperties DEF Send

LEMMA AnswerKeepsDown ==
  ASSUME down \in Seq(Heard), NEW msg \in Heard, Answer(msg)
  PROVE  down' \in Seq(Heard)
BY AppendProperties DEF Answer

LEMMA ConfigIsHeard == Config \in Heard
<1>1. [c \in Pads |-> ModeFromAction(Action[c])] \in [Pads -> {"flash", "toggle"}]
  BY DEF ModeFromAction
<1>. QED BY <1>1 DEF Config, BuildConfig, Heard

LEMMA ScriptsAreHeard ==
  ASSUME NEW S \in SUBSET File
  PROVE  BuildScripts(S) \in Heard
BY DEF BuildScripts, Heard

LEMMA LoadIsHeard ==
  ASSUME StoreInv, NEW n \in File, NEW none \in Text
  PROVE  LoadReply(n, none) \in Heard
<1>1. StoreLoad(n, SrcCap, none) \in Text
  BY DEF StoreLoad, Readable
<1>. QED BY <1>1 DEF LoadReply, BuildScript, Garbled, Heard

(* What the parsers make of a frame.                                           *)
LEMMA DispatchType ==
  ASSUME NEW f \in Frame
  PROVE  LET d == Dispatch(f.fields)
         IN  /\ d.op \in {"button", "fader"} => d \in Control
             /\ d.op = "eval" => d \in Submission
             /\ d.op \in {"script_load", "script_delete", "script_save"} => d.name \in File
             /\ d.op = "script_save" => d.src \in Text
<1>1. PICK m \in Asked : f = [asks |-> m, fields |-> Encode(m)]
  BY DEF Frame
<1>. DEFINE d == Dispatch(f.fields)
<1>2. d = IF Fits(m) THEN Meant(m) ELSE NotMine
  BY <1>1, FramesUnderstood DEF Understood
<1>3. CASE d = NotMine
  BY <1>3 DEF NotMine
<1>4. CASE d = Meant(m)
  <2>. HIDE DEF d
  <2>1. CASE m.op \in {"cue", "scene"} /\ m.id \in Id /\ m.pressed \in BOOLEAN
    <3>1. d = [op |-> "button", id |-> m.id, pressed |-> m.pressed]
      BY <1>4, <2>1 DEF Meant
    <3>2. d \in Control
      BY <2>1, <3>1 DEF Control
    <3>. QED BY <3>1, <3>2 DEF d
  <2>2. CASE m.op = "master" /\ m.value \in Level
    <3>1. d = [op |-> "fader", value |-> m.value]
      BY <1>4, <2>2 DEF Meant
    <3>2. d \in Control
      BY <2>2, <3>1 DEF Control
    <3>. QED BY <3>1, <3>2 DEF d
  <2>3. CASE m.op \notin {"cue", "scene", "master"}
    <3>1. d = m
      BY <1>4, <2>3 DEF Meant
    <3>2. CASE m.op = "eval" /\ m = [op |-> "eval", src |-> m.src, seq |-> m.seq]
                /\ m.src \in Text /\ m.seq \in Nat
      <4>1. m \in Submission
        BY <3>2 DEF Submission
      <4>. QED BY <3>1, <3>2, <4>1 DEF d
    <3>3. CASE m.op # "eval"
      BY <2>3, <3>1, <3>3, AskedFields DEF d
    <3>. QED BY <3>2, <3>3, AskedFields
  <2>. QED BY <2>1, <2>2, <2>3, AskedFields
<1>. QED BY <1>2, <1>3, <1>4

--------------------------------------------------------------------------------
(* Steps of the page.                                                          *)

LEMMA StoreAtRest == StoreInv /\ UNCHANGED storeVars => StoreInv'
BY DEF StoreInv, StoreTypeOK, SaveIsSound, ScriptsWhole, storeVars

LEMMA RigAtRest == RigInv /\ UNCHANGED rig => RigInv'
BY DEF RigInv, rig

LEMMA PanelAtRest == PanelInv /\ UNCHANGED <<pads, panel>> => PanelInv'
BY DEF PanelInv, pads, panel

LEMMA DeviceAtRest == StoreInv /\ RigInv /\ UNCHANGED deviceVars => StoreInv' /\ RigInv'
BY StoreAtRest, RigAtRest DEF deviceVars

LEMMA PadsAskRight ==
  ASSUME PageInv, TouchPads
  PROVE  PageInv'
<1>1. StoreInv' /\ RigInv'
  BY DeviceAtRest DEF TouchPads, PageInv
<1>3. down' = down /\ up \in Seq(Frame) /\ down \in Seq(Heard)
  BY DEF TouchPads, PageInv, WireInv
<1>4. DOMAIN config.cues \subseteq Id /\ config.scenes \subseteq Id
  BY LinkAssumption DEF TouchPads, PageInv, PanelInv, Id
<1>2. PanelInv'
  <2>1. shown \subseteq Nat /\ Id \subseteq Nat /\ SceneMarkerBase \in Nat
    BY ProtocolAssumption, PageAssumption DEF PageInv, PanelInv, Id
  <2>2. ASSUME NEW c \in DOMAIN config.cues, OnCuePointerDown(c) \/ OnCuePointerUp(c)
        PROVE  shown' \subseteq Nat
    BY <1>4, <2>1, <2>2 DEF OnCuePointerDown, OnCuePointerUp, ToggleInSet
  <2>3. ASSUME NEW s \in config.scenes, NEW b \in BOOLEAN, OnScenePointer(s, b)
        PROVE  shown' \subseteq Nat
    <3>1. SceneMarkerBase + s \in Nat
      <4>1. s \in Nat /\ SceneMarkerBase \in Nat
        BY <1>4, <2>1
      <4>. QED BY <4>1
    <3>. QED BY <2>1, <2>3, <3>1 DEF OnScenePointer
  <2>4. shown' \subseteq Nat
    BY <2>1, <2>2, <2>3 DEF TouchPads, MasterFader
  <2>. QED BY <2>4 DEF TouchPads, PageInv, PanelInv, panel
<1>5. ASSUME NEW c \in DOMAIN config.cues, OnCuePointerDown(c) \/ OnCuePointerUp(c)
      PROVE  up' \in Seq(Frame)
  <2>1. \A b \in BOOLEAN : [op |-> "cue", id |-> c, pressed |-> b] \in Asked
    BY <1>4 DEF Asked
  <2>. QED BY <1>3, <1>5, <2>1, SendKeepsFrames DEF OnCuePointerDown, OnCuePointerUp, Touch
<1>6. ASSUME NEW s \in config.scenes, NEW b \in BOOLEAN, OnScenePointer(s, b)
      PROVE  up' \in Seq(Frame)
  <2>1. [op |-> "scene", id |-> s, pressed |-> b] \in Asked
    BY <1>4 DEF Asked
  <2>. QED BY <1>3, <1>6, <2>1, SendKeepsFrames DEF OnScenePointer, Touch
<1>7. ASSUME NEW v \in Level, MasterFader(v)
      PROVE  up' \in Seq(Frame)
  <2>1. [op |-> "master", value |-> v] \in Asked
    BY DEF Asked
  <2>. QED BY <1>3, <1>7, <2>1, SendKeepsFrames DEF MasterFader, Touch
<1>8. up' \in Seq(Frame)
  BY <1>5, <1>6, <1>7 DEF TouchPads
<1>. QED BY <1>1, <1>2, <1>3, <1>8 DEF PageInv, WireInv

LEMMA PanelAsksRight ==
  ASSUME PageInv, Panel
  PROVE  PageInv'
<1>0. up \in Seq(Frame) /\ down \in Seq(Heard) /\ StoreInv /\ RigInv /\ PanelInv
  BY DEF PageInv, WireInv
<1>1. UNCHANGED deviceVars /\ down' = down /\ config' = config /\ shown' = shown
  BY DEF Panel, Panic, EvalSource, SaveScript, NewScript, ShowTab, Edit, LoadScript,
         DeleteScript, DismissDisabled, InPanel, pads
<1>2. StoreInv' /\ RigInv'
  BY <1>0, <1>1, DeviceAtRest
<1>3. SUFFICES PanelInv' /\ up' \in Seq(Frame)
  BY <1>0, <1>1, <1>2 DEF PageInv, WireInv
<1>4. CASE Panic
  <2>1. [op |-> "master", value |-> "dark"] \in Asked
    BY LinkAssumption DEF Asked
  <2>2. up' \in Seq(Frame)
    BY <1>0, <1>4, <2>1, SendKeepsFrames DEF Panic, Touch
  <2>. QED BY <1>0, <1>4, <2>2 DEF Panic, PanelInv, panel
<1>5. CASE EvalSource
  <2>1. [op |-> "eval", src |-> draft, seq |-> seq] \in Asked
    BY <1>0 DEF Asked, PanelInv
  <2>2. up' \in Seq(Frame)
    BY <1>0, <1>5, <2>1, SendKeepsFrames DEF EvalSource
  <2>. QED BY <1>0, <1>1, <1>5, <2>2 DEF EvalSource, PanelInv
<1>6. CASE SaveScript
  <2>1. PICK n \in IF current = Untitled THEN Prompted ELSE {current} :
          Send([op |-> "script_save", name |-> n, src |-> draft]) /\ current' = n
    BY <1>6 DEF SaveScript
  <2>2. n \in File
    BY <1>0, <2>1, PageAssumption DEF PanelInv
  <2>3. [op |-> "script_save", name |-> n, src |-> draft] \in Asked
    BY <1>0, <2>2 DEF Asked, PanelInv
  <2>4. up' \in Seq(Frame)
    BY <1>0, <2>1, <2>3, SendKeepsFrames
  <2>. QED BY <1>0, <1>1, <1>6, <2>1, <2>2, <2>4 DEF SaveScript, PanelInv
<1>7. CASE NewScript
  BY <1>0, <1>1, <1>7, PageAssumption DEF NewScript, PanelInv
<1>8. ASSUME NEW t \in {"cues", "script"}, ShowTab(t) PROVE PanelInv' /\ up' \in Seq(Frame)
  <2>1. [op |-> "script_list"] \in Asked
    BY DEF Asked
  <2>2. up' \in Seq(Frame)
    BY <1>0, <1>8, <2>1, SendKeepsFrames DEF ShowTab
  <2>. QED BY <1>0, <1>1, <1>8, <2>2, PageAssumption DEF ShowTab, PanelInv
<1>9. ASSUME NEW t \in Text, Edit(t) PROVE PanelInv' /\ up' \in Seq(Frame)
  BY <1>0, <1>1, <1>9 DEF Edit, PanelInv
<1>10. ASSUME NEW n \in names, LoadScript(n) \/ DeleteScript(n)
       PROVE  PanelInv' /\ up' \in Seq(Frame)
  <2>1. n \in File
    BY <1>0 DEF PanelInv
  <2>2. \A op \in {"script_load", "script_delete"} : [op |-> op, name |-> n] \in Asked
    BY <2>1 DEF Asked
  <2>3. up' \in Seq(Frame)
    BY <1>0, <1>10, <2>2, SendKeepsFrames DEF LoadScript, DeleteScript
  <2>4. /\ names' = names /\ current' \in {current, Untitled}
        /\ draft' = draft /\ seq' = seq
    BY <1>10 DEF LoadScript, DeleteScript
  <2>. QED BY <1>0, <1>1, <2>3, <2>4 DEF PanelInv
<1>11. ASSUME NEW x \in broken, DismissDisabled(x) PROVE PanelInv' /\ up' \in Seq(Frame)
  BY <1>0, <1>1, <1>11 DEF DismissDisabled, PanelInv
<1>. QED BY <1>4, <1>5, <1>6, <1>7, <1>8, <1>9, <1>10, <1>11 DEF Panel

LEMMA PageHearsRight ==
  ASSUME PageInv, OnMessage
  PROVE  PageInv'
<1>. DEFINE msg == Head(down)
<1>0. up \in Seq(Frame) /\ down \in Seq(Heard) /\ StoreInv /\ RigInv /\ PanelInv
  BY DEF PageInv, WireInv
<1>1. msg \in Heard /\ down' \in Seq(Heard) /\ up' = up
  BY <1>0, HeadTailProperties DEF OnMessage
<1>2. StoreInv' /\ RigInv'
  BY <1>0, DeviceAtRest DEF OnMessage
<1>3. /\ msg.type = "config" => DOMAIN msg.cues = Pads /\ msg.scenes = DOMAIN Scenes
      /\ msg.type = "scripts" => msg.names \subseteq File
      /\ msg.type = "script" => msg.name \in File /\ msg.src \in Text
      /\ msg.type = "state" => msg.active \subseteq Nat
  BY <1>1, ProtocolAssumption DEF Heard, Id
<1>. HIDE DEF msg
<1>4. \/ OnConfig(msg) \/ OnState(msg) \/ OnScripts(msg) \/ OnScript(msg)
      \/ OnEvalResult(msg) \/ OnFxError(msg) \/ OnUnknown(msg)
  BY DEF OnMessage, msg
<1>5. PanelInv'
  <2>1. CASE OnConfig(msg)
    BY <1>0, <1>3, <2>1 DEF OnConfig, PanelInv, panel
  <2>2. CASE OnScripts(msg)
    BY <1>0, <1>3, <2>2 DEF OnScripts, PanelInv, pads
  <2>3. CASE OnScript(msg)
    BY <1>0, <1>3, <2>3 DEF OnScript, PanelInv, pads
  <2>5. CASE OnState(msg)
    <3>1. shown' \subseteq Nat
      BY <1>0, <1>3, <2>5 DEF OnState, ReconcileActiveCues, PanelInv
    <3>. QED BY <1>0, <2>5, <3>1 DEF OnState, PanelInv, panel
  <2>4. CASE OnEvalResult(msg) \/ OnFxError(msg) \/ OnUnknown(msg)
    BY <1>0, <2>4 DEF OnEvalResult, OnFxError, OnUnknown, PanelInv, pads, panel
  <2>. QED BY <1>4, <2>1, <2>2, <2>3, <2>4, <2>5
<1>. QED BY <1>0, <1>1, <1>2, <1>5 DEF PageInv, WireInv

LEMMA PageComesAndGoes ==
  ASSUME PageInv, Page \/ Close \/ Socket
  PROVE  PageInv'
<1>0. up \in Seq(Frame) /\ down \in Seq(Heard) /\ StoreInv /\ RigInv /\ PanelInv
  BY DEF PageInv, WireInv
<1>1. StoreInv' /\ RigInv'
  BY <1>0, DeviceAtRest DEF Page, Close, Socket
<1>2. CASE Close
  <2>1. PanelInv'
    BY <1>2, PageAssumption DEF Close, PanelInv
  <2>2. WireInv'
    BY <1>2 DEF Close, Leave, WireInv
  <2>. QED BY <1>1, <2>1, <2>2 DEF PageInv
<1>3. CASE Page \/ Socket
  <2>1. PanelInv'
    BY <1>0, <1>3, PanelAtRest DEF Page, Socket
  <2>2. CASE Opened
    <3>1. [asks |-> [op |-> "hello"], fields |-> SendHello] \in Frame
      <4>1. [op |-> "hello"] \in Asked /\ Encode([op |-> "hello"]) = SendHello
        BY DEF Asked, Encode
      <4>. QED BY <4>1 DEF Frame
    <3>2. WireInv'
      BY <1>0, <2>2, <3>1, AppendProperties DEF Opened, WireInv
    <3>. QED BY <1>1, <2>1, <3>2 DEF PageInv
  <2>3. CASE Page \/ Closed \/ TimerFires
    <3>1. WireInv'
      BY <1>0, <2>3 DEF Page, Visit, Closed, TimerFires, WireInv, wire
    <3>. QED BY <1>1, <2>1, <3>1 DEF PageInv
  <2>. QED BY <1>3, <2>2, <2>3 DEF Socket
<1>. QED BY <1>2, <1>3

--------------------------------------------------------------------------------
(* Steps of the device.                                                        *)

LEMMA QueueKeepsType ==
  ASSUME NEW S, NEW q \in Seq(S), NEW x \in S
  PROVE  Queue(q, x) \in Seq(S)
BY AppendProperties DEF Queue

LEMMA ListedFiles == Listed \in SUBSET File /\ Listed' \in SUBSET File
BY DEF Listed, IsTempFile

LEMMA WorkerKeepsInv ==
  ASSUME PageInv, Worker
  PROVE  PageInv'
<1>. DEFINE m == Dispatch(Head(up).fields)
<1>0. up \in Seq(Frame) /\ down \in Seq(Heard) /\ StoreInv /\ RigInv /\ PanelInv
  BY DEF PageInv, WireInv
<1>1. Head(up) \in Frame /\ up' \in Seq(Frame)
  BY <1>0, HeadTailProperties DEF Worker, Serve
<1>2. /\ m.op \in {"button", "fader"} => m \in Control
      /\ m.op = "eval" => m \in Submission
      /\ m.op \in {"script_load", "script_delete", "script_save"} => m.name \in File
      /\ m.op = "script_save" => m.src \in Text
  BY <1>1, DispatchType
<1>3. PanelInv' /\ on' = on /\ level' = level
  BY <1>0, PanelAtRest DEF Worker, Serve, Unchanged
<1>. HIDE DEF m
<1>4. \/ ServeHello(m) \/ ServeControl(m) \/ ServeEval(m) \/ ServeScriptList(m)
      \/ ServeScriptLoad(m, NoText) \/ ServeScriptDelete(m) \/ ServeScriptSave(m)
      \/ ServeNothing(m)
  BY DEF Worker, Serve, m
<1>5. SUFFICES StoreInv' /\ down' \in Seq(Heard) /\ controls' \in Seq(Control)
               /\ evals' \in Seq(Submission)
  BY <1>0, <1>1, <1>3 DEF PageInv, WireInv, RigInv
<1>6. controls \in Seq(Control) /\ evals \in Seq(Submission)
  BY <1>0 DEF RigInv
<1>7. CASE ServeHello(m) \/ ServeScriptList(m)
  <2>1. down' \in Seq(Heard)
    BY <1>0, <1>7, AnswerKeepsDown, ConfigIsHeard, ScriptsAreHeard, ListedFiles
       DEF ServeHello, ServeScriptList, Refreshed
  <2>. QED BY <1>0, <1>6, <1>7, <2>1, StoreAtRest DEF ServeHello, ServeScriptList
<1>8. CASE ServeControl(m)
  <2>1. controls' \in Seq(Control)
    BY <1>2, <1>6, <1>8, QueueKeepsType DEF ServeControl
  <2>. QED BY <1>0, <1>6, <1>8, <2>1, StoreAtRest DEF ServeControl
<1>9. CASE ServeEval(m)
  <2>1. evals' \in Seq(Submission)
    BY <1>2, <1>6, <1>9, QueueKeepsType DEF ServeEval
  <2>. QED BY <1>0, <1>6, <1>9, <2>1, StoreAtRest DEF ServeEval
<1>10. CASE ServeScriptLoad(m, NoText)
  <2>1. LoadReply(m.name, NoText) \in Heard
    BY <1>0, <1>2, <1>10, LoadIsHeard, PageAssumption DEF ServeScriptLoad
  <2>2. down' \in Seq(Heard)
    BY <1>0, <1>10, <2>1, AnswerKeepsDown DEF ServeScriptLoad
  <2>. QED BY <1>0, <1>6, <1>10, <2>2, StoreAtRest DEF ServeScriptLoad
<1>11. CASE ServeScriptDelete(m)
  <2>1. StoreInv'
    BY <1>0, <1>2, <1>11, DeleteKeepsStore DEF ServeScriptDelete
  <2>2. BuildScripts(Listed') \in Heard
    BY ScriptsAreHeard, ListedFiles
  <2>3. down' \in Seq(Heard)
    BY <1>0, <1>11, <2>2, AnswerKeepsDown DEF ServeScriptDelete
  <2>. QED BY <1>6, <1>11, <2>1, <2>3 DEF ServeScriptDelete
<1>12. CASE ServeScriptSave(m)
  <2>1. CASE SaveOpen(m.name, m.src) /\ UNCHANGED down
    BY <1>0, <1>2, <1>6, <1>12, <2>1, SaveOpenKeepsStore DEF ServeScriptSave
  <2>2. CASE Answer(Refreshed) /\ UNCHANGED storeVars
    <3>1. down' \in Seq(Heard)
      BY <1>0, <2>2, AnswerKeepsDown, ScriptsAreHeard, ListedFiles DEF Refreshed
    <3>. QED BY <1>0, <1>6, <1>12, <2>2, <3>1, StoreAtRest DEF ServeScriptSave
  <2>. QED BY <1>12, <2>1, <2>2 DEF ServeScriptSave
<1>13. CASE ServeNothing(m)
  BY <1>0, <1>6, <1>13, StoreAtRest DEF ServeNothing
<1>. QED BY <1>4, <1>7, <1>8, <1>9, <1>10, <1>11, <1>12, <1>13

LEMMA HandshakeKeepsInv ==
  ASSUME PageInv, Handshake
  PROVE  PageInv'
<1>1. StoreInv' /\ RigInv' /\ PanelInv'
  BY StoreAtRest, PanelAtRest DEF Handshake, Accept, Unchanged, PageInv, RigInv
<1>2. WireInv'
  BY ConfigIsHeard DEF Handshake, Accept, WireInv
<1>. QED BY <1>1, <1>2 DEF PageInv

LEMMA SavesKeepInv ==
  ASSUME PageInv, Saves
  PROVE  PageInv'
<1>0. up \in Seq(Frame) /\ down \in Seq(Heard) /\ StoreInv /\ RigInv /\ PanelInv
  BY DEF PageInv, WireInv
<1>1. StoreInv'
  BY <1>0, SaveKeepsStore DEF Saves, Save
<1>2. RigInv' /\ PanelInv'
  BY <1>0, RigAtRest, PanelAtRest DEF Saves, Save, Unchanged
<1>3. BuildScripts(Listed') \in Heard
  BY ScriptsAreHeard, ListedFiles
<1>4. WireInv'
  BY <1>0, <1>3, AnswerKeepsDown DEF Saves, Save, WireInv
<1>. QED BY <1>1, <1>2, <1>4 DEF PageInv

LEMMA RenderKeepsInv ==
  ASSUME PageInv, Render
  PROVE  PageInv'
<1>0. /\ up \in Seq(Frame) /\ down \in Seq(Heard) /\ StoreInv /\ PanelInv
      /\ controls \in Seq(Control) /\ evals \in Seq(Submission)
      /\ on \subseteq Id /\ level \in Level
  BY DEF PageInv, WireInv, RigInv
<1>1. StoreInv' /\ PanelInv'
  BY <1>0, StoreAtRest, PanelAtRest DEF Render, PumpControl, Evaluate, BroadcastState, Unchanged
<1>2. CASE PumpControl
  <2>. DEFINE e == Head(controls)
  <2>1. e \in Control /\ controls' \in Seq(Control)
    BY <1>0, <1>2, HeadTailProperties DEF PumpControl
  <2>2. e.op = "fader" => e.value \in Level
    BY <2>1 DEF Control
  <2>. HIDE DEF e
  <2>3. /\ Pads \subseteq Id
        /\ \A s \in DOMAIN Scenes : Scenes[s] \subseteq Id
    BY LinkAssumption DEF Id
  <2>4. CASE e.op = "fader"
    <3>1. level' = e.value /\ on' = on
      BY <1>2, <2>4 DEF PumpControl, e
    <3>. QED BY <1>0, <1>1, <1>2, <2>1, <2>2, <2>4, <3>1 DEF PumpControl, PageInv, WireInv, RigInv, wire
  <2>5. CASE e.op # "fader"
    <3>1. /\ level' = level
          /\ \/ e.id \in DOMAIN Scenes /\ on' \in {on \cup Scenes[e.id], on \ Scenes[e.id]}
             \/ e.id \in Pads /\ on' \in {on \cup {e.id}, on \ {e.id}}
             \/ on' = on
      BY <1>2, <2>5 DEF PumpControl, e
    <3>2. on' \subseteq Id
      BY <1>0, <2>3, <3>1
    <3>. QED BY <1>0, <1>1, <1>2, <2>1, <3>1, <3>2 DEF PumpControl, PageInv, WireInv, RigInv, wire
  <2>. QED BY <2>4, <2>5
<1>3. CASE Evaluate
  <2>1. Head(evals) \in Submission /\ evals' \in Seq(Submission)
    BY <1>0, <1>3, HeadTailProperties DEF Evaluate
  <2>2. BuildEvalResult(Head(evals).seq, Head(evals).src \notin Failing) \in Heard
    BY <2>1 DEF BuildEvalResult, Heard, Submission
  <2>3. down' \in Seq(Heard) /\ up' = up
    BY <1>0, <1>3, <2>2, AnswerKeepsDown DEF Evaluate, Broadcast
  <2>. QED BY <1>0, <1>1, <1>3, <2>1, <2>3 DEF Evaluate, PageInv, WireInv, RigInv
<1>4. CASE BroadcastState
  <2>1. BuildState(on, level) \in Heard
    BY <1>0 DEF BuildState, Heard
  <2>2. down' \in Seq(Heard) /\ up' = up
    BY <1>0, <1>4, <2>1, AnswerKeepsDown DEF BroadcastState, Broadcast
  <2>. QED BY <1>0, <1>1, <1>4, <2>2 DEF BroadcastState, PageInv, WireInv, RigInv
<1>. QED BY <1>2, <1>3, <1>4 DEF Render

LEMMA UnsolicitedIsHeard ==
  ASSUME NEW msg \in {BuildFxError("flame"), BuildBlackout, BuildOtaStatus("receiving")}
  PROVE  msg \in Heard /\ msg.type # "state"
<1>1. BuildFxError("flame") \in [type : {"fx_error"}, effect : {"flame"}]
  BY DEF BuildFxError
<1>2. BuildBlackout \in [type : {"garbled", "blackout"}]
  BY DEF BuildBlackout
<1>3. BuildOtaStatus("receiving") \in [type : {"ota"}, phase : {"receiving"}]
  BY DEF BuildOtaStatus
<1>. QED BY <1>1, <1>2, <1>3 DEF Heard

LEMMA ElsewhereKeepsInv ==
  ASSUME PageInv, Elsewhere
  PROVE  PageInv'
<1>0. /\ up \in Seq(Frame) /\ down \in Seq(Heard) /\ StoreInv /\ PanelInv /\ RigInv
  BY DEF PageInv, WireInv
<1>1. StoreInv' /\ PanelInv'
  BY <1>0, StoreAtRest, PanelAtRest DEF Elsewhere, OtherSurface, Unsolicited, Unchanged
<1>2. ASSUME NEW c \in Pads, OtherSurface(c) PROVE PageInv'
  <2>1. c \in Id
    BY LinkAssumption DEF Id
  <2>2. RigInv' /\ WireInv'
    BY <1>0, <1>2, <2>1 DEF OtherSurface, RigInv, WireInv, wire
  <2>. QED BY <1>1, <2>2 DEF PageInv
<1>3. ASSUME NEW msg \in {BuildFxError("flame"), BuildBlackout, BuildOtaStatus("receiving")},
             Unsolicited(msg)
      PROVE  PageInv'
  <2>1. msg \in Heard
    BY <1>3, UnsolicitedIsHeard
  <2>2. down' \in Seq(Heard) /\ up' = up
    BY <1>0, <1>3, <2>1, AnswerKeepsDown DEF Unsolicited, Broadcast
  <2>3. RigInv'
    BY <1>0, <1>3, RigAtRest DEF Unsolicited
  <2>. QED BY <1>0, <1>1, <2>2, <2>3 DEF PageInv, WireInv
<1>. QED BY <1>2, <1>3 DEF Elsewhere

LEMMA FailsKeepInv ==
  ASSUME PageInv, Boots \/ Fails
  PROVE  PageInv'
<1>0. StoreInv /\ WireInv /\ RigInv /\ PanelInv
  BY DEF PageInv
<1>1. PanelInv'
  BY <1>0, PanelAtRest DEF Boots, Fails, Unchanged
<1>2. CASE Boots
  BY <1>0, <1>1, <1>2, BootsKeepStore, RigAtRest DEF Boots, Start, PageInv, WireInv, wire
<1>3. CASE Drop
  <2>1. StoreInv' /\ RigInv' /\ WireInv'
    BY <1>0, <1>3, StoreAtRest, RigAtRest DEF Drop, WireInv
  <2>. QED BY <1>1, <2>1 DEF PageInv
<1>4. CASE PowerLoss
  <2>1. StoreInv'
    BY <1>0, <1>4, BootsKeepStore DEF PowerLoss
  <2>2. RigInv' /\ WireInv'
    BY <1>4, LinkAssumption DEF PowerLoss, RigInv, WireInv
  <2>. QED BY <1>1, <2>1, <2>2 DEF PageInv
<1>. QED BY <1>2, <1>3, <1>4 DEF Fails

LEMMA PageKeepsInv == PageInv /\ [PageNext]_pageVars => PageInv'
<1>. SUFFICES ASSUME PageInv, [PageNext]_pageVars PROVE PageInv'
  OBVIOUS
<1>1. CASE UNCHANGED pageVars
  <2>1. UNCHANGED <<deviceVars, wire, pads, panel>>
    BY <1>1 DEF pageVars
  <2>. QED BY <2>1, DeviceAtRest, PanelAtRest DEF PageInv, WireInv, wire
<1>. QED BY <1>1, PadsAskRight, PanelAsksRight, PageHearsRight, PageComesAndGoes,
            WorkerKeepsInv, HandshakeKeepsInv, SavesKeepInv, RenderKeepsInv,
            ElsewhereKeepsInv, FailsKeepInv
         DEF PageNext

--------------------------------------------------------------------------------
(* What a page knows of the show.                                              *)

(* The last state on its way is the last one broadcast.                        *)
LastStateSent ==
  session => \A i \in DOMAIN down :
    down[i].type = "state" /\ (\A j \in DOMAIN down : j > i => down[j].type # "state") =>
      lastSent = <<down[i].active, down[i].master>>

(* With no state on its way, a page that has heard one shows it.               *)
StateHeard ==
  session /\ told /\ (\A i \in DOMAIN down : down[i].type \notin {"config", "state"}) =>
    lastSent = <<LitPads, master>>

TruthInv == LastStateSent /\ StateHeard

LEMMA TruthStarts == PageInit => TruthInv
BY DEF PageInit, LinkInit, TruthInv, LastStateSent, StateHeard

LEMMA TruthAtRest ==
  ASSUME TruthInv, UNCHANGED <<session, down, lastSent>>,
         told' = FALSE \/ UNCHANGED <<told, shown, master>>
  PROVE  TruthInv'
BY DEF TruthInv, LastStateSent, StateHeard, LitPads

LEMMA TruthWithoutSession == ~ session' => TruthInv'
BY DEF TruthInv, LastStateSent, StateHeard

(* An answer that is no state changes nothing a page knows.                    *)
LEMMA AnswerKeepsTruth ==
  ASSUME TruthInv, down \in Seq(Heard), NEW msg, msg \in Heard, msg.type # "state", Answer(msg),
         UNCHANGED <<session, lastSent, told, shown, master>>
  PROVE  TruthInv'
<1>1. CASE ~ session
  BY <1>1, TruthWithoutSession
<1>2. CASE session
  <2>1. /\ down' = Append(down, msg) /\ Len(down) \in Nat /\ DOMAIN down = 1 .. Len(down)
        /\ DOMAIN down' = 1 .. Len(down) + 1
        /\ \A i \in 1 .. Len(down) : down'[i] = down[i]
        /\ down'[Len(down) + 1] = msg
    BY <1>2, AppendProperties, LenProperties DEF Answer
  <2>2. LastStateSent'
    <3>. SUFFICES ASSUME NEW i \in DOMAIN down', down'[i].type = "state",
                         \A j \in DOMAIN down' : j > i => down'[j].type # "state"
                  PROVE  lastSent' = <<down'[i].active, down'[i].master>>
      BY DEF LastStateSent
    <3>1. i \in 1 .. Len(down)
      BY <2>1
    <3>2. \A j \in DOMAIN down : j > i => down[j].type # "state"
      BY <2>1
    <3>. QED BY <1>2, <2>1, <3>1, <3>2 DEF TruthInv, LastStateSent
  <2>3. StateHeard'
    <3>1. (\A i \in DOMAIN down' : down'[i].type \notin {"config", "state"}) =>
            \A i \in DOMAIN down : down[i].type \notin {"config", "state"}
      BY <2>1
    <3>2. LitPads' = LitPads
      BY DEF LitPads
    <3>. QED BY <3>1, <3>2 DEF TruthInv, StateHeard
  <2>. QED BY <2>2, <2>3 DEF TruthInv
<1>. QED BY <1>1, <1>2

LEMMA BroadcastTellsTruth ==
  ASSUME PageInv, BroadcastState
  PROVE  TruthInv'
<1>1. CASE ~ session
  BY <1>1, TruthWithoutSession DEF BroadcastState, Broadcast
<1>2. CASE session
  <2>. DEFINE msg == BuildState(on, level)
  <2>1. msg.type = "state" /\ lastSent' = <<msg.active, msg.master>>
    BY DEF BroadcastState, BuildState
  <2>2. down \in Seq(Heard) /\ msg \in Heard
    BY DEF PageInv, WireInv, RigInv, BuildState, Heard
  <2>. HIDE DEF msg
  <2>3. /\ Len(down) \in Nat /\ DOMAIN down' = 1 .. Len(down) + 1
        /\ down'[Len(down) + 1] = msg
    <3>1. down' = Append(down, msg)
      BY <1>2 DEF BroadcastState, Broadcast, Answer, msg
    <3>. QED BY <2>2, <3>1, AppendProperties, LenProperties
  <2>4. LastStateSent'
    <3>. SUFFICES ASSUME NEW i \in DOMAIN down', down'[i].type = "state",
                         \A j \in DOMAIN down' : j > i => down'[j].type # "state"
                  PROVE  lastSent' = <<down'[i].active, down'[i].master>>
      BY DEF LastStateSent
    <3>1. i = Len(down) + 1
      BY <2>1, <2>3
    <3>. QED BY <2>1, <2>3, <3>1
  <2>5. StateHeard'
    <3>1. Len(down) + 1 \in DOMAIN down' /\ down'[Len(down) + 1].type = "state"
      BY <2>1, <2>3
    <3>. QED BY <3>1 DEF StateHeard
  <2>. QED BY <2>4, <2>5 DEF TruthInv
<1>. QED BY <1>1, <1>2

LEMMA HearingKeepsTruth ==
  ASSUME PageInv, TruthInv, OnMessage
  PROVE  TruthInv'
<1>. DEFINE msg == Head(down)
<1>1. CASE ~ session
  BY <1>1, TruthWithoutSession DEF OnMessage
<1>2. CASE session
  <2>0. down \in Seq(Heard) /\ down # <<>> /\ down' = Tail(down)
        /\ UNCHANGED <<session, lastSent>>
    BY DEF PageInv, WireInv, OnMessage, rig, deviceVars
  <2>1. /\ Len(down) \in Nat \ {0} /\ DOMAIN down = 1 .. Len(down)
        /\ DOMAIN down' = 1 .. Len(down) - 1
        /\ \A i \in 1 .. Len(down) - 1 : down'[i] = down[i + 1]
        /\ msg = down[1] /\ msg \in Heard
    BY <2>0, HeadTailProperties, LenProperties, EmptySeq
  <2>. HIDE DEF msg
  <2>2. LastStateSent'
    <3>. SUFFICES ASSUME NEW i \in DOMAIN down', down'[i].type = "state",
                         \A j \in DOMAIN down' : j > i => down'[j].type # "state"
                  PROVE  lastSent' = <<down'[i].active, down'[i].master>>
      BY DEF LastStateSent
    <3>1. i + 1 \in DOMAIN down /\ down[i + 1] = down'[i]
      BY <2>1
    <3>2. ASSUME NEW j \in DOMAIN down, j > i + 1 PROVE down[j].type # "state"
      <4>1. j - 1 \in DOMAIN down' /\ j - 1 > i /\ down'[j - 1] = down[(j - 1) + 1] /\ (j - 1) + 1 = j
        BY <2>1, <3>2
      <4>. QED BY <4>1
    <3>. QED BY <1>2, <2>0, <3>1, <3>2 DEF TruthInv, LastStateSent
  <2>3. StateHeard'
    <3>. SUFFICES ASSUME told', \A i \in DOMAIN down' : down'[i].type \notin {"config", "state"}
                  PROVE  lastSent' = <<LitPads', master'>>
      BY DEF StateHeard
    <3>1. ASSUME NEW j \in DOMAIN down, j > 1 PROVE down[j].type \notin {"config", "state"}
      <4>1. j - 1 \in DOMAIN down' /\ down'[j - 1] = down[(j - 1) + 1] /\ (j - 1) + 1 = j
        BY <2>1, <3>1
      <4>. QED BY <4>1
    <3>2. CASE OnState(msg)
      <4>1. 1 \in DOMAIN down /\ down[1].type = "state"
        BY <2>1, <3>2 DEF OnState
      <4>2. lastSent = <<msg.active, msg.master>>
        BY <1>2, <2>1, <3>1, <4>1 DEF TruthInv, LastStateSent
      <4>3. msg.active \subseteq Id
        BY <2>1, <3>2 DEF OnState, Heard
      <4>4. LitPads' = msg.active
        <5>1. shown' = msg.active \cup {i \in shown : i >= SceneMarkerBase}
          BY <3>2 DEF OnState, ReconcileActiveCues
        <5>2. shown \subseteq Nat /\ SceneMarkerBase \in Nat /\ MaxId \in Nat /\ MaxId < SceneMarkerBase
          BY PageAssumption, ProtocolAssumption DEF PageInv, PanelInv
        <5>3. \A i \in msg.active : i < SceneMarkerBase
          BY <4>3, <5>2 DEF Id
        <5>4. \A i \in shown : ~ (i >= SceneMarkerBase /\ i < SceneMarkerBase)
          BY <5>2
        <5>. QED BY <5>1, <5>3, <5>4 DEF LitPads
      <4>. QED BY <2>0, <3>2, <4>2, <4>4 DEF OnState
    <3>3. CASE OnConfig(msg)
      BY <3>3 DEF OnConfig
    <3>4. CASE OnScripts(msg) \/ OnScript(msg) \/ OnEvalResult(msg) \/ OnFxError(msg) \/ OnUnknown(msg)
      <4>1. msg.type \notin {"config", "state"} /\ UNCHANGED <<told, shown, master>>
        BY <3>4 DEF OnScripts, OnScript, OnEvalResult, OnFxError, OnUnknown, pads
      <4>2. \A j \in DOMAIN down : j = 1 \/ j > 1
        BY <2>1
      <4>3. \A j \in DOMAIN down : down[j].type \notin {"config", "state"}
        BY <2>1, <3>1, <4>1, <4>2
      <4>4. LitPads' = LitPads
        BY <4>1 DEF LitPads
      <4>. QED BY <1>2, <2>0, <4>1, <4>3, <4>4 DEF TruthInv, StateHeard
    <3>. QED BY <3>2, <3>3, <3>4 DEF OnMessage, msg
  <2>. QED BY <2>2, <2>3 DEF TruthInv
<1>. QED BY <1>1, <1>2

LEMMA WorkerKeepsTruth ==
  ASSUME PageInv, TruthInv, Worker
  PROVE  TruthInv'
<1>. DEFINE m == Dispatch(Head(up).fields)
<1>0. up \in Seq(Frame) /\ down \in Seq(Heard) /\ StoreInv
  BY DEF PageInv, WireInv
<1>1. Head(up) \in Frame
  BY <1>0, HeadTailProperties DEF Worker, Serve
<1>2. m.op \in {"script_load", "script_delete", "script_save"} => m.name \in File
  BY <1>1, DispatchType
<1>. HIDE DEF m
<1>3. \/ ServeHello(m) \/ ServeControl(m) \/ ServeEval(m) \/ ServeScriptList(m)
      \/ ServeScriptLoad(m, NoText) \/ ServeScriptDelete(m) \/ ServeScriptSave(m)
      \/ ServeNothing(m)
  BY DEF Worker, Serve, m
<1>4. UNCHANGED <<session, lastSent, told, shown, master>>
  BY DEF Worker, Serve, Unchanged, pads
<1>5. Config.type # "state" /\ \A S : BuildScripts(S).type # "state"
  BY DEF Config, BuildConfig, BuildScripts
<1>6. ASSUME NEW msg \in Heard, msg.type # "state", Answer(msg) PROVE TruthInv'
  BY <1>0, <1>4, <1>6, AnswerKeepsTruth
<1>7. CASE UNCHANGED down
  BY <1>4, <1>7, TruthAtRest
<1>8. CASE ServeScriptLoad(m, NoText)
  <2>1. LoadReply(m.name, NoText) \in Heard
    BY <1>0, <1>2, <1>8, LoadIsHeard, PageAssumption DEF ServeScriptLoad
  <2>2. LoadReply(m.name, NoText).type # "state"
    BY DEF LoadReply, BuildScript, Garbled
  <2>. QED BY <1>6, <1>8, <2>1, <2>2 DEF ServeScriptLoad
<1>9. BuildScripts(Listed) \in Heard /\ BuildScripts(Listed') \in Heard
  BY ScriptsAreHeard, ListedFiles
<1>. QED BY <1>3, <1>5, <1>6, <1>7, <1>8, <1>9, ConfigIsHeard
         DEF ServeHello, ServeControl, ServeEval, ServeScriptList, ServeScriptDelete,
             ServeScriptSave, ServeNothing, Refreshed

LEMMA RestKeepsTruth ==
  ASSUME PageInv, TruthInv, PageNext, ~ OnMessage, ~ Worker
  PROVE  TruthInv'
<1>0. down \in Seq(Heard)
  BY DEF PageInv, WireInv
<1>1. CASE TouchPads
  <2>1. told' = FALSE
    BY <1>1 DEF TouchPads, OnCuePointerDown, OnCuePointerUp, OnScenePointer, MasterFader, Touch
  <2>2. UNCHANGED <<session, down, lastSent>>
    BY <1>1 DEF TouchPads, deviceVars, rig
  <2>. QED BY <2>1, <2>2, TruthAtRest
<1>2. CASE Panel
  <2>1. UNCHANGED <<session, down, lastSent>> /\ (told' = FALSE \/ UNCHANGED <<told, shown, master>>)
    BY <1>2 DEF Panel, Panic, EvalSource, SaveScript, NewScript, ShowTab, Edit, LoadScript,
                DeleteScript, DismissDisabled, InPanel, Touch, pads, deviceVars, rig
  <2>. QED BY <2>1, TruthAtRest
<1>3. CASE Page \/ Socket \/ Boots
  <2>1. UNCHANGED <<session, down, lastSent, told, shown, master>>
    BY <1>3 DEF Page, Visit, Socket, Opened, Closed, TimerFires, Boots, Start, Unchanged,
                pads, deviceVars, rig, wire
  <2>. QED BY <2>1, TruthAtRest
<1>4. CASE Close \/ Fails
  BY <1>4, TruthWithoutSession DEF Close, Leave, Fails, Drop, PowerLoss
<1>5. CASE Handshake
  <2>1. down' = <<Config>> /\ Config.type = "config"
    BY <1>5 DEF Handshake, Accept, Config, BuildConfig
  <2>2. DOMAIN down' = 1 .. 1 /\ down'[1].type = "config"
    BY <2>1
  <2>. QED BY <2>2 DEF TruthInv, LastStateSent, StateHeard
<1>6. CASE Saves
  <2>1. UNCHANGED <<session, lastSent, told, shown, master>>
    BY <1>6 DEF Saves, Save, Unchanged, rig, pads
  <2>2. BuildScripts(Listed') \in Heard /\ BuildScripts(Listed').type # "state"
    <3>1. BuildScripts(Listed').type = "scripts"
      BY DEF BuildScripts
    <3>. QED BY <3>1, ScriptsAreHeard, ListedFiles
  <2>3. CASE UNCHANGED down
    BY <2>1, <2>3, TruthAtRest
  <2>4. CASE Answer(BuildScripts(Listed'))
    BY <1>0, <2>1, <2>2, <2>4, AnswerKeepsTruth
  <2>. QED BY <1>6, <2>3, <2>4 DEF Saves, Save
<1>7. CASE Render
  <2>1. CASE BroadcastState
    BY <2>1, BroadcastTellsTruth
  <2>2. UNCHANGED <<told, shown, master>>
    BY <1>7 DEF Render, Unchanged, pads
  <2>3. CASE PumpControl
    <3>1. UNCHANGED <<session, down, lastSent>>
      BY <2>3 DEF PumpControl, wire
    <3>. QED BY <2>2, <3>1, TruthAtRest
  <2>4. CASE Evaluate
    <3>1. Head(evals) \in Submission
      BY <2>4, HeadTailProperties DEF Evaluate, PageInv, RigInv
    <3>. DEFINE msg == BuildEvalResult(Head(evals).seq, Head(evals).src \notin Failing)
    <3>2. msg \in Heard /\ msg.type # "state"
      BY <3>1 DEF BuildEvalResult, Heard, Submission
    <3>3. Answer(msg) /\ UNCHANGED <<session, lastSent>>
      BY <2>4 DEF Evaluate, Broadcast
    <3>. QED BY <1>0, <2>2, <3>2, <3>3, AnswerKeepsTruth
  <2>. QED BY <1>7, <2>1, <2>3, <2>4 DEF Render
<1>8. CASE Elsewhere
  <2>1. UNCHANGED <<told, shown, master>>
    BY <1>8 DEF Elsewhere, Unchanged, pads
  <2>2. ASSUME NEW c \in Pads, OtherSurface(c) PROVE TruthInv'
    <3>1. UNCHANGED <<session, down, lastSent>>
      BY <2>2 DEF OtherSurface, wire
    <3>. QED BY <2>1, <3>1, TruthAtRest
  <2>3. ASSUME NEW msg \in {BuildFxError("flame"), BuildBlackout, BuildOtaStatus("receiving")},
               Unsolicited(msg)
        PROVE  TruthInv'
    <3>1. msg \in Heard /\ msg.type # "state"
      BY <2>3, UnsolicitedIsHeard
    <3>2. Answer(msg) /\ UNCHANGED <<session, lastSent>>
      BY <2>3 DEF Unsolicited, Broadcast, rig
    <3>. QED BY <1>0, <2>1, <3>1, <3>2, AnswerKeepsTruth
  <2>. QED BY <1>8, <2>2, <2>3 DEF Elsewhere
<1>. QED BY <1>1, <1>2, <1>3, <1>4, <1>5, <1>6, <1>7, <1>8 DEF PageNext

LEMMA TruthIsKept == PageInv /\ TruthInv /\ [PageNext]_pageVars => TruthInv'
<1>. SUFFICES ASSUME PageInv, TruthInv, [PageNext]_pageVars PROVE TruthInv'
  OBVIOUS
<1>1. CASE UNCHANGED pageVars
  <2>1. UNCHANGED <<session, down, lastSent, told, shown, master>>
    BY <1>1 DEF pageVars, wire, deviceVars, rig, pads
  <2>. QED BY <2>1, TruthAtRest
<1>. QED BY <1>1, HearingKeepsTruth, WorkerKeepsTruth, RestKeepsTruth

--------------------------------------------------------------------------------
(* Theorems.                                                                   *)

(* Frames, queues and editor hold what their readers expect.                   *)
THEOREM PageStaysSound == PageSpec => []PageInv
<1>. QED BY PageStarts, PageKeepsInv, PTL DEF PageSpec

(* Whatever names, texts and limits there are, the device takes a frame on its *)
(* way for what the page meant by it, unless a limit refuses it.               *)
THEOREM FramesAreUnderstood == PageSpec => []FramesKeepMeaning
<1>1. PageInv => FramesKeepMeaning
  <2>. SUFFICES ASSUME PageInv, NEW i \in DOMAIN up
                PROVE  Dispatch(up[i].fields) =
                         IF Fits(up[i].asks) THEN Meant(up[i].asks) ELSE NotMine
    BY DEF FramesKeepMeaning
  <2>1. up[i] \in Frame
    BY ElementOfSeq, LenProperties DEF PageInv, WireInv
  <2>2. PICK m \in Asked : up[i] = [asks |-> m, fields |-> Encode(m)]
    BY <2>1 DEF Frame
  <2>. QED BY <2>2, FramesUnderstood DEF Understood
<1>. QED BY <1>1, PageStaysSound, PTL

(* Every script the device lists is complete, under a name it accepts,         *)
(* whatever saves came up short, whenever power was lost.                      *)
THEOREM ScriptsStayWhole == PageSpec => []ScriptsWhole
<1>1. PageInv => ScriptsWhole
  BY DEF PageInv, StoreInv
<1>. QED BY <1>1, PageStaysSound, PTL

(* Once nothing is on its way, a page that has heard the state since it was    *)
(* last configured and touched shows what plays, whoever changed it, over lost *)
(* connections and restarts.                                                   *)
THEOREM PadsAreTrue == PageSpec => []PadsTellTruth
<1>1. TruthInv => PadsTellTruth
  BY DEF TruthInv, StateHeard, PadsTellTruth, Quiet
<1>. QED BY <1>1, PageStaysSound, TruthStarts, TruthIsKept, PTL DEF PageSpec
================================================================================
