------------------------------ MODULE WebProtocol ------------------------------
(***************************************************************************)
(* The console's messages: what the page writes (ws-client.js), how the    *)
(* device reads it by trying one parser after another (web_protocol.cpp),  *)
(* what the device writes and how the page reads that.                     *)
(*                                                                         *)
(* A frame is the sequence of the fields of a JSON object.  A field has a  *)
(* key, a form (a string, one with backslashes, a number, a Boolean, a     *)
(* value of several parts) and a value.  Characters are abstracted to      *)
(* whether JSON writes a string with backslashes, and to its length.       *)
(***************************************************************************)
EXTENDS ScriptStore, Sequences

CONSTANTS
  Escaped,  \* names and texts that JSON writes with backslashes
  Wire,     \* their lengths as JSON writes them
  SrcCap,   \* EVAL_SRC_MAX
  FrameCap, \* kWsBufCap
  MaxId     \* 65535

ASSUME ProtocolAssumption ==
  /\ {SrcCap, FrameCap, MaxId} \subseteq Nat
  /\ FrameCap > 1
  /\ Wire \in [Text -> Nat]

Field(key, form, val) == [key |-> key, form |-> form, val |-> val]

--------------------------------------------------------------------------------
(* What the page sends (ws-client.js): JSON.stringify of an object, so the     *)
(* type comes first and strings are escaped where they must be.                *)

Str(key, v) == Field(key, IF v \in Escaped THEN "escaped" ELSE "plain", v)

Type(t) == Field("type", "plain", t)

SendButton(op, id, pressed) == <<Type(op), Field("id", "number", id), Field("pressed", "bool", pressed)>>

\* clamp01 keeps a level between 0 and 1; levels are those here.
SendMaster(v) == <<Type("master"), Field("value", "number", v)>>

SendHello == <<Type("hello")>>

SendEval(src, seq) == <<Type("eval"), Str("src", src), Field("seq", "number", seq)>>

SendScriptList == <<Type("script_list")>>

SendScriptLoad(name) == <<Type("script_load"), Str("name", name)>>

SendScriptDelete(name) == <<Type("script_delete"), Str("name", name)>>

SendScriptSave(name, src) == <<Type("script_save"), Str("name", name), Str("src", src)>>

\* The frame a message asks for.
Encode(m) ==
  CASE m.op \in {"cue", "scene"} -> SendButton(m.op, m.id, m.pressed)
    [] m.op = "master" -> SendMaster(m.value)
    [] m.op = "hello" -> SendHello
    [] m.op = "eval" -> SendEval(m.src, m.seq)
    [] m.op = "script_list" -> SendScriptList
    [] m.op = "script_load" -> SendScriptLoad(m.name)
    [] m.op = "script_delete" -> SendScriptDelete(m.name)
    [] m.op = "script_save" -> SendScriptSave(m.name, m.src)

--------------------------------------------------------------------------------
(* How the device reads a frame.  A parser is given by the form it wants of    *)
(* each key it knows; other fields are skipped.                                *)

\* A parser that takes the source decodes it into a buffer of SrcCap bytes.
\* Skipping stops at a backslash, and at values nested more than 32 deep.
Takes(wants, f) ==
  IF f.key \notin DOMAIN wants THEN f.form \notin {"escaped", "deep"}
  ELSE CASE wants[f.key] = "decoded" -> f.form \in {"plain", "escaped"} /\ Bytes[f.val] <= SrcCap
         [] OTHER -> f.form = wants[f.key]

\* The one pass over the fields each parser makes.
Scans(wants, fields) == fields # <<>> /\ \A i \in DOMAIN fields : Takes(wants, fields[i])

Has(fields, key) == \E i \in DOMAIN fields : fields[i].key = key

\* The last of the fields with a key.
Of(fields, key) ==
  fields[CHOOSE i \in DOMAIN fields :
           fields[i].key = key /\ \A j \in DOMAIN fields : fields[j].key = key => j <= i].val

NotMine == [op |-> "ignored"]

ParseWebCommand(fields) ==
  LET wants == [type |-> "plain", id |-> "number", pressed |-> "bool", value |-> "number"]
      type == Of(fields, "type")
  IN  IF ~Scans(wants, fields) \/ ~Has(fields, "type") THEN NotMine
      ELSE CASE type \in {"cue", "scene"} /\ Has(fields, "id") /\ Has(fields, "pressed")
             /\ Of(fields, "id") \in 0 .. MaxId ->
             [op |-> "button", id |-> Of(fields, "id"), pressed |-> Of(fields, "pressed")]
        [] type = "master" /\ Has(fields, "value") -> [op |-> "fader", value |-> Of(fields, "value")]
        [] OTHER -> NotMine

\* A comparison of the frame's first bytes, whatever follows.
IsHelloCommand(fields) == fields # <<>> /\ fields[1] = Type("hello")

IsScriptListCommand(fields) == fields # <<>> /\ fields[1] = Type("script_list")

ParseEvalCommand(fields) ==
  IF /\ Scans([type |-> "plain", seq |-> "number", src |-> "decoded"], fields)
     /\ Has(fields, "type") /\ Of(fields, "type") = "eval" /\ Has(fields, "src")
  THEN [op |-> "eval", src |-> Of(fields, "src"),
        seq |-> IF Has(fields, "seq") THEN Of(fields, "seq") ELSE 0]
  ELSE NotMine

\* The name is copied as it is, if it fits a buffer of the longest name.
ParseScriptNameCommand(fields) ==
  IF /\ Scans([type |-> "plain", name |-> "plain"], fields)
     /\ Has(fields, "type") /\ Has(fields, "name")
     /\ Of(fields, "type") \in {"script_load", "script_delete"}
     /\ Of(fields, "name") \notin Long
  THEN [op |-> Of(fields, "type"), name |-> Of(fields, "name")]
  ELSE NotMine

\* The source read as names are.
ParseScriptSaveRaw(fields) ==
  IF /\ Scans([type |-> "plain", name |-> "plain", src |-> "plain"], fields)
     /\ Has(fields, "type") /\ Has(fields, "name") /\ Has(fields, "src")
     /\ Of(fields, "type") = "script_save"
  THEN [op |-> "script_save", name |-> Of(fields, "name"), src |-> Of(fields, "src")]
  ELSE NotMine

ParseScriptSaveCommand(fields) ==
  IF /\ Scans([type |-> "plain", name |-> "plain", src |-> "decoded"], fields)
     /\ Has(fields, "type") /\ Has(fields, "name") /\ Has(fields, "src")
     /\ Of(fields, "type") = "script_save" /\ Of(fields, "name") \notin Long
  THEN [op |-> "script_save", name |-> Of(fields, "name"), src |-> Of(fields, "src")]
  ELSE NotMine

\* The length of a frame: that of the strings that may be long.
FrameLength(fields) ==
  LET long == {i \in DOMAIN fields : fields[i].key = "src"}
  IN  IF long = {} THEN 1 ELSE 1 + Wire[Of(fields, "src")]

\* ws_handler and web_input_handle_text_frame: a frame that does not fit the
\* buffer is dropped; the first parser that takes a frame decides.
Dispatch(fields) ==
  LET tried == <<ParseWebCommand(fields), ParseEvalCommand(fields),
                 IF IsScriptListCommand(fields) THEN [op |-> "script_list"] ELSE NotMine,
                 ParseScriptNameCommand(fields), ParseScriptSaveCommand(fields)>>
      mine == {i \in DOMAIN tried : tried[i] # NotMine}
  IN  IF FrameLength(fields) >= FrameCap THEN NotMine
      ELSE IF IsHelloCommand(fields) THEN [op |-> "hello"]
      ELSE IF mine = {} THEN NotMine
      ELSE tried[CHOOSE i \in mine : \A j \in mine : i <= j]

--------------------------------------------------------------------------------
(* What the device sends.  A message that does not fit its buffer is sent cut  *)
(* off, under the length it would have had: it is no JSON.                     *)

Garbled == [type |-> "garbled"]

\* The modes a page is told: a CueFlash or SceneGo binding is "flash", the
\* toggles are "toggle".
ModeFromAction(action) == IF action \in {"CueToggle", "SceneToggle"} THEN "toggle" ELSE "flash"

BuildConfig(cues, scenes, action, hasMaster) ==
  [type |-> "config", cues |-> [c \in cues |-> ModeFromAction(action[c])],
   scenes |-> scenes, hasMaster |-> hasMaster]

BuildState(active, level) == [type |-> "state", active |-> active, master |-> level]

BuildEvalResult(seq, ok) == [type |-> "eval_result", seq |-> seq, ok |-> ok]

BuildScripts(names) == [type |-> "scripts", names |-> names]

BuildScript(name, src) ==
  IF Wire[src] >= FrameCap THEN Garbled ELSE [type |-> "script", name |-> name, src |-> src]

BuildFxError(effect) == [type |-> "fx_error", effect |-> effect]

\* No callback of the page takes these.
BuildBlackout == [type |-> "blackout"]

BuildOtaStatus(phase) == [type |-> "ota", phase |-> phase]
================================================================================
