--------------------------------- MODULE WsLink --------------------------------
(***************************************************************************)
(* A browser's WebSocket to the device: the client that opens it and opens *)
(* it again when it is lost (ws-client.js), the HTTP worker that reads its *)
(* frames and answers (web_input.cpp), and the render task that takes what *)
(* the worker queued and broadcasts the state of the show (main.cpp).      *)
(*                                                                         *)
(* The network is external: a connection delivers frames in order until it *)
(* breaks, and what was under way is lost.  The cues' own rules are        *)
(* ShowControl's and LiveControl's; here a flash pad follows the finger, a *)
(* toggle alternates, and other surfaces change the cues at any time.      *)
(***************************************************************************)
EXTENDS WebProtocol, SequencesExt

CONSTANTS
  Pads,       \* the cues on the page
  Action,     \* the binding of each
  Scenes,     \* the scenes on the page, each a set of cues
  Level,      \* positions of the master
  NoState,    \* nothing was broadcast yet
  QueueCap    \* capacity of the event queue and of the eval queue

ASSUME LinkAssumption ==
  /\ Action \in [Pads -> {"CueFlash", "CueToggle"}]
  /\ QueueCap \in Nat \ {0}
  /\ Pads \cup DOMAIN Scenes \cup UNION {Scenes[s] : s \in DOMAIN Scenes} \subseteq 0 .. MaxId
  /\ {"full", "dark"} \subseteq Level

VARIABLES
  \* The client.
  link,      \* the socket: "none", "connecting", "open", "closed"
  timer,     \* reconnectTimer: "none", "set", or "stale": one that went off
  visiting,  \* the page is there (not closedByUser)
  \* The connection.
  session,   \* the device has accepted it
  up, down,  \* frames on their way
  \* The device.
  controls,  \* the control-event queue
  evals,     \* the eval queue
  on, level, \* the cues that play, the master
  forced,    \* g_stateBroadcastForced
  lastSent   \* g_lastBroadcastActive and g_lastBroadcastMaster

wire == <<session, up, down>>
client == <<link, timer, visiting>>
rig == <<controls, evals, on, level, forced, lastSent>>

LinkInit ==
  /\ link = "none" /\ timer = "none" /\ visiting = FALSE
  /\ session = FALSE /\ up = <<>> /\ down = <<>>
  /\ controls = <<>> /\ evals = <<>>
  /\ on = {} /\ level = "full"
  /\ forced = FALSE /\ lastSent = NoState

--------------------------------------------------------------------------------
(* ws-client.js                                                                *)

\* _send: a frame leaves only through an open socket, and is lost if the
\* connection is gone though the browser does not know.
Send(m) ==
  up' = IF link = "open" /\ session THEN Append(up, [asks |-> m, fields |-> Encode(m)]) ELSE up

\* connect: nothing if a socket is there.
Connect ==
  link' = IF link \in {"open", "connecting"} THEN link ELSE "connecting"

\* The page opens.
Visit ==
  /\ ~visiting
  /\ visiting' = TRUE /\ Connect
  /\ UNCHANGED <<timer, wire>>

\* disconnect, when the page closes.
Leave ==
  /\ visiting
  /\ visiting' = FALSE /\ link' = "none" /\ timer' = "none"
  /\ session' = FALSE /\ up' = <<>> /\ down' = <<>>

\* onopen
Opened ==
  /\ link = "connecting" /\ session
  /\ link' = "open"
  /\ up' = Append(up, [asks |-> [op |-> "hello"], fields |-> SendHello])
  /\ UNCHANGED <<timer, visiting, session, down>>

\* _scheduleReconnect: one timer at a time.
ScheduleReconnect == timer' = IF timer = "none" THEN "set" ELSE timer

\* onclose: the browser finds that the connection failed or is gone.
Closed ==
  /\ link \in {"connecting", "open"} /\ ~session
  /\ link' = "closed" /\ ScheduleReconnect
  /\ UNCHANGED <<visiting, wire>>

\* The handle of a timer that went off is not forgotten.
TimerFiresKept ==
  /\ timer = "set"
  /\ timer' = "stale" /\ Connect
  /\ UNCHANGED <<visiting, wire>>

TimerFires ==
  /\ timer = "set"
  /\ timer' = "none" /\ Connect
  /\ UNCHANGED <<visiting, wire>>

--------------------------------------------------------------------------------
(* web_input.cpp: the HTTP worker takes one request at a time.                 *)

Config == BuildConfig(Pads, DOMAIN Scenes, Action, TRUE)

\* ws_handler on the handshake: the client is noted, the next state broadcast
\* is forced, and the configuration is sent.
Accept ==
  /\ link = "connecting" /\ ~session /\ boot # "off" /\ saving.at = "none"
  /\ session' = TRUE /\ up' = <<>> /\ down' = <<Config>>
  /\ forced' = TRUE
  /\ UNCHANGED <<client, controls, evals, on, level, lastSent, storeVars>>

\* What the worker answers, if the connection still stands.
Answer(msg) == down' = IF session THEN Append(down, msg) ELSE down

Queue(q, item) == IF Len(q) < QueueCap THEN Append(q, item) ELSE q

\* buildRefreshedScriptsReply
Refreshed == BuildScripts(Listed)

\* The reply to a load is a script with no text if the file cannot be read.
LoadReply(name, none) == BuildScript(name, StoreLoad(name, SrcCap, none))

ServeHello(m) ==
  /\ m.op = "hello" /\ Answer(Config)
  /\ UNCHANGED <<controls, evals, storeVars>>

ServeControl(m) ==
  /\ m.op \in {"button", "fader"}
  /\ controls' = Queue(controls, m)
  /\ UNCHANGED <<down, evals, storeVars>>

ServeEval(m) ==
  /\ m.op = "eval"
  /\ evals' = Queue(evals, m)
  /\ UNCHANGED <<down, controls, storeVars>>

ServeScriptList(m) ==
  /\ m.op = "script_list" /\ Answer(Refreshed)
  /\ UNCHANGED <<controls, evals, storeVars>>

ServeScriptLoad(m, none) ==
  /\ m.op = "script_load" /\ Answer(LoadReply(m.name, none))
  /\ UNCHANGED <<controls, evals, storeVars>>

\* The reply lists the scripts there are after the deletion.
ServeScriptDelete(m) ==
  /\ m.op = "script_delete"
  /\ Delete(m.name)
  /\ Answer(BuildScripts(Listed'))
  /\ UNCHANGED <<controls, evals>>

\* A save that is refused is answered like one that succeeds.
ServeScriptSave(m) ==
  /\ m.op = "script_save"
  /\ \/ SaveOpen(m.name, m.src) /\ UNCHANGED down
     \/ Answer(Refreshed) /\ UNCHANGED storeVars
  /\ UNCHANGED <<controls, evals>>

ServeNothing(m) ==
  /\ m.op = "ignored"
  /\ UNCHANGED <<down, controls, evals, storeVars>>

\* One frame, read from its first byte to the answer; a save takes longer.
Serve(none) ==
  /\ session /\ saving.at = "none" /\ up # <<>>
  /\ LET m == Dispatch(Head(up).fields)
     IN  \/ ServeHello(m) \/ ServeControl(m) \/ ServeEval(m) \/ ServeScriptList(m)
         \/ ServeScriptLoad(m, none) \/ ServeScriptDelete(m) \/ ServeScriptSave(m) \/ ServeNothing(m)
  /\ up' = Tail(up)
  /\ UNCHANGED <<client, session, on, level, forced, lastSent>>

\* The steps of a save, and its answer.
Save ==
  /\ \/ SaveWrite /\ UNCHANGED down
     \/ (SaveRename \/ SaveRemove) /\ Answer(BuildScripts(Listed'))
  /\ UNCHANGED <<client, session, up, rig>>

--------------------------------------------------------------------------------
(* The render task.                                                            *)

\* pumpControlEvents: the scenes' identifiers are those of buttons too.
PumpControl ==
  /\ controls # <<>>
  /\ LET e == Head(controls)
     IN  IF e.op = "fader" THEN level' = e.value /\ UNCHANGED on
         ELSE /\ on' = CASE e.id \in DOMAIN Scenes ->
                              IF e.pressed THEN on \cup Scenes[e.id] ELSE on \ Scenes[e.id]
                         [] e.id \in Pads \ DOMAIN Scenes /\ Action[e.id] = "CueFlash" ->
                              IF e.pressed THEN on \cup {e.id} ELSE on \ {e.id}
                         [] e.id \in Pads \ DOMAIN Scenes /\ Action[e.id] = "CueToggle" /\ e.pressed ->
                              IF e.id \in on THEN on \ {e.id} ELSE on \cup {e.id}
                         [] OTHER -> on
              /\ UNCHANGED level
  /\ controls' = Tail(controls)
  /\ UNCHANGED <<client, wire, storeVars, evals, forced, lastSent>>

\* Another surface, or a cue that ends by itself.
OtherSurface(c) ==
  /\ on' = IF c \in on THEN on \ {c} ELSE on \cup {c}
  /\ UNCHANGED <<client, wire, storeVars, controls, evals, level, forced, lastSent>>

\* web_ws_broadcast, to this client.
Broadcast(msg) == Answer(msg) /\ UNCHANGED <<session, up>>

\* send_eval_result_to_ws
Evaluate ==
  /\ evals # <<>>
  /\ Broadcast(BuildEvalResult(Head(evals).seq, Head(evals).src \notin Failing))
  /\ evals' = Tail(evals)
  /\ UNCHANGED <<client, storeVars, controls, on, level, forced, lastSent>>

\* broadcast_state_if_changed: on a change, or for a new client.  (The limit
\* of its rate, which Console models, only puts it off.)
BroadcastState ==
  /\ forced \/ lastSent # <<on, level>>
  /\ Broadcast(BuildState(on, level))
  /\ forced' = FALSE /\ lastSent' = <<on, level>>
  /\ UNCHANGED <<client, storeVars, controls, evals, on, level>>

\* An effect breaks (web_input_poll_fx_error), the rig goes dark, or an image
\* is received.
Unsolicited(msg) ==
  /\ Broadcast(msg)
  /\ UNCHANGED <<client, storeVars, rig>>

--------------------------------------------------------------------------------
(* Failures.                                                                   *)

\* The connection breaks; the browser has yet to notice.
Drop ==
  /\ session
  /\ session' = FALSE /\ up' = <<>> /\ down' = <<>>
  /\ UNCHANGED <<client, storeVars, rig>>

\* The device loses power: what is not in flash is gone.
PowerLoss ==
  /\ boot # "off"
  /\ session' = FALSE /\ up' = <<>> /\ down' = <<>>
  /\ controls' = <<>> /\ evals' = <<>> /\ on' = {} /\ level' = "full"
  /\ forced' = FALSE /\ lastSent' = NoState
  /\ StorePowerLoss
  /\ UNCHANGED client

\* The device starts again.
Start == SetUpLua /\ UNCHANGED <<client, wire, rig>>
================================================================================
