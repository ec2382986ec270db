------------------------------- MODULE ConsolePage -----------------------------
(***************************************************************************)
(* The console page of a browser: the pads, the scenes and the master      *)
(* (app.js), and the script panel with its list of scripts, its editor and *)
(* its REPL (script-panel.js), over WsLink.                                *)
(*                                                                         *)
(* A pad lights at once when it is touched; the state the device sends     *)
(* replaces that guess.  How the page looks is left out.                   *)
(***************************************************************************)
EXTENDS WsLink

CONSTANTS
  SceneMarkerBase, \* SCENE_MARKER_BASE
  Untitled,        \* currentName is null
  NoText,          \* the empty text
  Placeholder,     \* what the editor shows at first and for a new script
  Prompted,        \* names the user enters
  Days             \* bounds: how often things happen, in the situations tried

ASSUME PageAssumption ==
  /\ NoText \in Text /\ Placeholder \in Text /\ Untitled \notin File
  /\ Prompted \subseteq File
  /\ SceneMarkerBase \in Nat /\ MaxId < SceneMarkerBase
  /\ \A d \in Days : {d.visits, d.drops, d.losses, d.touches, d.others, d.scripts} \subseteq Nat

VARIABLES
  tab,     \* "cues" or "script"
  config,  \* the configuration received, or none
  shown,   \* activeCues: lit pads and scene markers
  master,  \* the fader's position
  told,    \* a state was received since the last configuration and the last touch
  names,   \* the scripts listed
  current, \* currentName
  draft, dirty, \* the editor
  seq,     \* seqCounter
  entries, \* the transcript: what became of each request
  broken,  \* disabledEffects
  day, spent

pads == <<config, shown, master, told>>
panel == <<tab, names, current, draft, dirty, seq, entries, broken>>
deviceVars == <<storeVars, rig>>
pageVars == <<client, wire, deviceVars, pads, panel, day, spent>>

NoConfig == [type |-> "none"]

\* One more of what the day allows.
Spends(what) ==
  /\ spent[what] < day[what]
  /\ spent' = [spent EXCEPT ![what] = @ + 1]
  /\ UNCHANGED day

Free == UNCHANGED <<day, spent>>

PageInit ==
  /\ StoreInit /\ LinkInit
  /\ tab = "cues" /\ config = NoConfig /\ shown = {} /\ master = "full" /\ told = FALSE
  /\ names = {} /\ current = Untitled /\ draft = Placeholder /\ dirty = FALSE
  /\ seq = 1 /\ entries = {} /\ broken = {}
  /\ day \in Days
  /\ spent = [visits |-> 0, drops |-> 0, losses |-> 0, touches |-> 0, others |-> 0, scripts |-> 0]

--------------------------------------------------------------------------------
(* Touches of the pads, the scenes and the fader (app.js).                     *)

Touch(m) == Spends("touches") /\ told' = FALSE /\ Send(m)

ToggleInSet(set, id) == IF id \in set THEN set \ {id} ELSE set \cup {id}

OnCuePointerDown(c) ==
  /\ shown' = IF config.cues[c] = "flash" THEN shown \cup {c} ELSE ToggleInSet(shown, c)
  /\ Touch([op |-> "cue", id |-> c, pressed |-> TRUE])
  /\ UNCHANGED master

\* Also when a pointer that pressed nothing leaves the pad.
OnCuePointerUp(c) ==
  /\ config.cues[c] = "flash"
  /\ shown' = shown \ {c}
  /\ Touch([op |-> "cue", id |-> c, pressed |-> FALSE])
  /\ UNCHANGED master

\* A scene is marked on the page; its cues are the device's business.
OnScenePointer(s, pressed) ==
  /\ shown' = IF pressed THEN shown \cup {SceneMarkerBase + s} ELSE shown \ {SceneMarkerBase + s}
  /\ Touch([op |-> "scene", id |-> s, pressed |-> pressed])
  /\ UNCHANGED master

MasterFader(v) ==
  /\ v # master /\ master' = v
  /\ Touch([op |-> "master", value |-> v])
  /\ UNCHANGED shown

TouchPads ==
  /\ visiting /\ tab = "cues" /\ config # NoConfig
  /\ \/ \E c \in DOMAIN config.cues : OnCuePointerDown(c) \/ OnCuePointerUp(c)
     \/ \E s \in config.scenes, b \in BOOLEAN : OnScenePointer(s, b)
     \/ \E v \in Level : MasterFader(v)
  /\ UNCHANGED <<client, session, down, deviceVars, config, panel>>

\* The panel's kill switch moves the device's fader, not the page's.
Panic ==
  /\ visiting /\ tab = "script" /\ link = "open"
  /\ Touch([op |-> "master", value |-> "dark"])
  /\ UNCHANGED <<client, session, down, deviceVars, config, shown, master, panel>>

--------------------------------------------------------------------------------
(* The script panel (script-panel.js).                                         *)

\* Mounting the panel starts it afresh and asks for the list.
ShowTab(t) ==
  /\ visiting /\ tab # t
  /\ Spends("scripts")
  /\ tab' = t
  /\ names' = {} /\ current' = Untitled /\ draft' = Placeholder /\ dirty' = FALSE
  /\ entries' = {} /\ broken' = {}
  /\ IF t = "script" THEN Send([op |-> "script_list"]) ELSE UNCHANGED up
  /\ UNCHANGED <<client, session, down, deviceVars, pads, seq>>

InPanel ==
  /\ visiting /\ tab = "script"
  /\ UNCHANGED <<client, session, down, deviceVars, pads, tab>>

Edit(t) ==
  /\ InPanel /\ Spends("scripts")
  /\ t # draft /\ draft' = t /\ dirty' = TRUE
  /\ UNCHANGED <<up, names, current, seq, entries, broken>>

\* The entry waits for the answer with its number.
EvalSource ==
  /\ InPanel /\ link = "open" /\ draft # NoText /\ Spends("scripts")
  /\ seq' = seq + 1
  /\ entries' = entries \cup {[seq |-> seq, kind |-> "pending"]}
  /\ Send([op |-> "eval", src |-> draft, seq |-> seq])
  /\ UNCHANGED <<names, current, draft, dirty, broken>>

\* The page takes the script for saved when it has sent it.
SaveScript ==
  /\ InPanel /\ link = "open" /\ Spends("scripts")
  /\ \E n \in IF current = Untitled THEN Prompted ELSE {current} :
       /\ Send([op |-> "script_save", name |-> n, src |-> draft])
       /\ current' = n
  /\ dirty' = FALSE
  /\ UNCHANGED <<names, draft, seq, entries, broken>>

LoadScript(n) ==
  /\ InPanel /\ Spends("scripts")
  /\ Send([op |-> "script_load", name |-> n])
  /\ UNCHANGED <<names, current, draft, dirty, seq, entries, broken>>

DeleteScript(n) ==
  /\ InPanel /\ Spends("scripts")
  /\ Send([op |-> "script_delete", name |-> n])
  /\ current' = IF n = current THEN Untitled ELSE current
  /\ UNCHANGED <<names, draft, dirty, seq, entries, broken>>

\* Replacing the editor's document counts as an edit.
NewScript ==
  /\ InPanel /\ Spends("scripts")
  /\ current' = Untitled /\ draft' = Placeholder /\ dirty' = TRUE
  /\ UNCHANGED <<up, names, seq, entries, broken>>

DismissDisabled(x) ==
  /\ InPanel /\ Free
  /\ x \in broken /\ broken' = broken \ {x}
  /\ UNCHANGED <<up, names, current, draft, dirty, seq, entries>>

Panel ==
  \/ Panic \/ EvalSource \/ SaveScript \/ NewScript
  \/ \E t \in {"cues", "script"} : ShowTab(t)
  \/ \E t \in Text \ {NoText} : Edit(t)
  \/ \E n \in names : LoadScript(n) \/ DeleteScript(n)
  \/ \E x \in broken : DismissDisabled(x)

--------------------------------------------------------------------------------
(* _onMessage and the callbacks.                                               *)

\* A configuration starts the pads afresh.
OnConfig(msg) ==
  /\ msg.type = "config"
  /\ config' = msg /\ shown' = {} /\ told' = FALSE
  /\ master' = IF msg.hasMaster THEN master ELSE "full"
  /\ UNCHANGED panel

\* Only adding the cues the device names.
ReconcileByAdding(prev, ids) == prev \cup ids

\* The marks of the scenes are the page's own: a state says nothing of them.
ReconcileActiveCues(prev, ids) == ids \cup {i \in prev : i >= SceneMarkerBase}

OnState(msg) ==
  /\ msg.type = "state"
  /\ shown' = ReconcileActiveCues(shown, msg.active)
  /\ master' = msg.master /\ told' = TRUE
  /\ UNCHANGED <<config, panel>>

OnScripts(msg) ==
  /\ msg.type = "scripts" /\ tab = "script"
  /\ names' = msg.names
  /\ UNCHANGED <<pads, tab, current, draft, dirty, seq, entries, broken>>

\* A script replaces the text, whatever it was.
OnScript(msg) ==
  /\ msg.type = "script" /\ tab = "script"
  /\ current' = msg.name /\ draft' = msg.src /\ dirty' = TRUE
  /\ UNCHANGED <<pads, tab, names, seq, entries, broken>>

\* The answer goes to the entry with its number, if there still is one.
OnEvalResult(msg) ==
  /\ msg.type = "eval_result" /\ tab = "script"
  /\ entries' = {IF e.seq = msg.seq /\ e.kind = "pending"
                   THEN [e EXCEPT !.kind = IF msg.ok THEN "result-ok" ELSE "result-err"] ELSE e : e \in entries}
  /\ UNCHANGED <<pads, tab, names, current, draft, dirty, seq, broken>>

OnFxError(msg) ==
  /\ msg.type = "fx_error" /\ tab = "script"
  /\ broken' = broken \cup {msg.effect}
  /\ UNCHANGED <<pads, tab, names, current, draft, dirty, seq, entries>>

\* A cut-off message, a type without a callback, or a panel that is not there.
OnUnknown(msg) ==
  /\ \/ msg.type \in {"garbled", "blackout", "ota"}
     \/ tab = "cues" /\ msg.type \in {"scripts", "script", "eval_result", "fx_error"}
  /\ UNCHANGED <<pads, panel>>

OnMessage ==
  /\ link = "open" /\ down # <<>>
  /\ LET msg == Head(down)
     IN  \/ OnConfig(msg) \/ OnState(msg) \/ OnScripts(msg) \/ OnScript(msg)
         \/ OnEvalResult(msg) \/ OnFxError(msg) \/ OnUnknown(msg)
  /\ down' = Tail(down)
  /\ Free /\ UNCHANGED <<client, session, up, deviceVars>>

--------------------------------------------------------------------------------
(* The page opens and closes; a page that opens again starts afresh.           *)

Page == Visit /\ Spends("visits") /\ UNCHANGED <<deviceVars, pads, panel>>

Close ==
  /\ Leave /\ Free
  /\ tab' = "cues" /\ config' = NoConfig /\ shown' = {} /\ master' = "full" /\ told' = FALSE
  /\ names' = {} /\ current' = Untitled /\ draft' = Placeholder /\ dirty' = FALSE
  /\ seq' = 1 /\ entries' = {} /\ broken' = {}
  /\ UNCHANGED deviceVars

Unchanged == UNCHANGED <<pads, panel>>

Socket == (Opened \/ Closed \/ TimerFires) /\ Free /\ UNCHANGED <<deviceVars, pads, panel>>

Handshake == Accept /\ Free /\ Unchanged

Worker == Serve(NoText) /\ Free /\ Unchanged

Saves == Save /\ Free /\ Unchanged

Render == boot # "off" /\ (PumpControl \/ Evaluate \/ BroadcastState) /\ Free /\ Unchanged

Boots == Start /\ Free /\ Unchanged

Elsewhere ==
  /\ Spends("others") /\ Unchanged
  /\ boot # "off"
  /\ \/ \E c \in Pads : OtherSurface(c)
     \/ \E msg \in {BuildFxError("flame"), BuildBlackout, BuildOtaStatus("receiving")} : Unsolicited(msg)

Fails ==
  \/ Drop /\ Spends("drops") /\ Unchanged
  \/ PowerLoss /\ Spends("losses") /\ Unchanged

PageNext ==
  \/ Page \/ Close \/ Socket \/ OnMessage \/ TouchPads \/ Panel
  \/ Handshake \/ Worker \/ Saves \/ Render \/ Boots \/ Elsewhere \/ Fails

PageSpec == PageInit /\ [][PageNext]_pageVars

\* The browser runs its timers and callbacks and the device's tasks run; of
\* the attempts to connect that the network may fail, one gets through.
FairPageSpec ==
  /\ PageSpec /\ WF_pageVars(Socket) /\ WF_pageVars(Saves) /\ WF_pageVars(Boots)
  /\ SF_pageVars(Handshake)

--------------------------------------------------------------------------------
(* Properties                                                                  *)

\* Nothing is on its way, and the device has nothing to broadcast.
Quiet ==
  /\ link = "open" /\ session /\ up = <<>> /\ down = <<>>
  /\ controls = <<>> /\ ~forced /\ lastSent = <<on, level>>

LitPads == {i \in shown : i < SceneMarkerBase}

\* Once things are quiet, a page that has heard the state since it was last
\* configured and last touched shows the cues that play and the master's
\* position, whoever else changed them, over lost connections and resets
\* (app.js's reconciliation, main.cpp's change detection).
PadsTellTruth == Quiet /\ told => LitPads = on /\ master = level

\* The frames on their way are taken by the parser they are meant for, with
\* their meaning, unless a limit refuses them: the device tries its parsers
\* one after another, and each skips the fields of the others.
Meant(m) ==
  CASE m.op \in {"cue", "scene"} -> [op |-> "button", id |-> m.id, pressed |-> m.pressed]
    [] m.op = "master" -> [op |-> "fader", value |-> m.value]
    [] OTHER -> m

Fits(m) ==
  /\ m.op \in {"script_load", "script_delete", "script_save"} => m.name \notin Escaped \cup Long
  /\ m.op \in {"eval", "script_save"} => Bytes[m.src] <= SrcCap /\ 1 + Wire[m.src] < FrameCap

FramesKeepMeaning ==
  \A i \in DOMAIN up :
    Dispatch(up[i].fields) = IF Fits(up[i].asks) THEN Meant(up[i].asks) ELSE NotMine

\* A page that stays open is connected again, however often the connection
\* breaks and the device restarts, or is closed (ws-client.js's backoff).
Relinks == visiting ~> (link = "open" /\ session) \/ ~visiting
================================================================================
