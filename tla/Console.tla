-------------------------------- MODULE Console --------------------------------
(***************************************************************************)
(* The web console: the HTTP server's worker (web_input.cpp) accepts       *)
(* browsers and queues the code they submit; the render task (main.cpp,    *)
(* render_tick_hooks) evaluates it, refreshes the controller's LEDs, and   *)
(* broadcasts answers, broken effects and the state of the show to the     *)
(* clients in a small table.  The queue is RingQueue.                      *)
(*                                                                         *)
(* Other inputs change the cues too (LiveControl); here they are changes   *)
(* of the set of active cues.                                              *)
(***************************************************************************)
EXTENDS RingQueue, LedFeedback, FiniteSetsExt, SequencesExt

CONSTANTS
  Client,        \* browsers
  Nobody,        \* no browser
  Cue,           \* cues a console shows
  Fx,            \* Lua effects
  Fds,           \* max_open_sockets
  Slots,         \* kMaxWsClients
  EvalsPerFrame, \* pumpEvalSubmissions' maxPerFrame
  MinInterval,   \* kMinIntervalSec, in frames
  Unknown,       \* nothing has been received, or sent
  Setups         \* bounds: what happens in each of the situations tried

\* The bounds of a situation: connections, submissions, failing sends, changes
\* of cues made elsewhere; the browsers that take part, the scripts submitted,
\* and what boot.fnl has bound.
ASSUME ConsoleAssumption ==
  /\ {Fds, Slots, EvalsPerFrame, MinInterval} \subseteq Nat \ {0}
  /\ IsFiniteSet(Fx)
  /\ Nobody \notin Client
  /\ \A s \in Setups :
       /\ {s.connects, s.requests, s.failures, s.changes} \subseteq Nat
       /\ \A i \in 1 .. s.requests, x \in s.scripts : [id |-> i, script |-> x] \in Event
       /\ s.fx \subseteq Fx /\ s.browsers \subseteq Client

NoFd == 0

VARIABLES
  setup,      \* the situation of this behaviour
  done,       \* what has happened of what setup allows
  \* The HTTP worker.
  fd,         \* each browser's socket, or NoFd
  worker,     \* where the worker is: idle, add, note
  joining,    \* the browser whose handshake it handles
  slots,      \* g_wsClientFds, NoFd where g_wsClientUsed is false
  forced,     \* g_stateBroadcastForced
  \* The render task.
  phase,      \* where it is in its frame
  popped,     \* submissions evaluated in this frame
  active,     \* the cues that play
  effects,    \* each effect: fine, broken, or reported
  errors,     \* the broken effects of this poll, still to report
  wasForced,  \* what web_input_take_forced_state_broadcast read
  outbox,     \* the message web_ws_broadcast is sending: [kind, body, then]
  targets,    \* the sockets still to be sent to, each with its slot
  lastSent,   \* g_lastBroadcastActive
  since,      \* frames since g_lastStateBroadcastT, up to MinInterval
  \* What the browsers know.
  shown,      \* the state last received
  owed,       \* each browser's accepted submissions that it got no answer to
  unaware,    \* effects that broke while the browser was listed
  missed      \* browsers whose flag was set after it was read and before it was
              \* cleared, and who were told no state since

server == <<fd, worker, joining, slots, forced>>

knowledge == <<shown, owed, unaware, missed>>

render == <<phase, popped, active, effects, errors, wasForced, outbox, targets, lastSent, since>>

consoleVars == <<setup, done, server, render, knowledge, ledVars, vars>>

\* A browser whose handshake is over and whose socket is in the table.
Listed(c) == fd[c] # NoFd /\ c # joining /\ \E i \in 1 .. Slots : slots[i] = fd[c]

ConsoleInit ==
  /\ setup \in Setups
  /\ done = [connects |-> 0, requests |-> 0, failures |-> 0, changes |-> 0]
  /\ fd = [c \in Client |-> NoFd]
  /\ worker = "idle" /\ joining = Nobody
  /\ slots = [i \in 1 .. Slots |-> NoFd]
  /\ forced = FALSE /\ wasForced = FALSE
  /\ phase = "input" /\ popped = 0
  /\ active = {}
  /\ effects = [x \in Fx |-> "fine"] /\ errors = <<>>
  /\ outbox = [kind |-> "none"] /\ targets = <<>>
  /\ lastSent = Unknown /\ since = MinInterval
  /\ shown = [c \in Client |-> Unknown]
  /\ owed = [c \in Client |-> {}]
  /\ unaware = [c \in Client |-> {}] /\ missed = {}
  /\ LedInit(setup.bound)
  /\ Init

\* One more of what the setup bounds.
Spend(what) ==
  /\ done[what] < setup[what]
  /\ done' = [done EXCEPT ![what] = @ + 1]

--------------------------------------------------------------------------------
(* The HTTP worker: one task, one request at a time.                           *)

FreeFds == (1 .. Fds) \ {fd[c] : c \in Client}

\* A browser connects; the stack gives out the lowest free socket.
Connect(c) ==
  /\ worker = "idle"
  /\ fd[c] = NoFd
  /\ FreeFds # {}
  /\ c \in setup.browsers /\ Spend("connects")
  /\ fd' = [fd EXCEPT ![c] = Min(FreeFds)]
  /\ worker' = "add" /\ joining' = c
  /\ UNCHANGED <<setup, slots, forced, render, knowledge, ledVars, vars>>

\* wsClientAdd: the first free slot, if there is one.
WsClientAdd ==
  /\ worker = "add"
  /\ LET free == {i \in 1 .. Slots : slots[i] = NoFd}
     IN  slots' = IF free = {} THEN slots ELSE [slots EXCEPT ![Min(free)] = fd[joining]]
  /\ worker' = "note"
  /\ UNCHANGED <<setup, done, fd, joining, forced, render, knowledge, ledVars, vars>>

\* web_input_note_new_client, and the configuration is sent.
NoteNewClient ==
  /\ worker = "note"
  /\ forced' = TRUE
  /\ worker' = "idle" /\ joining' = Nobody
  /\ missed' = IF phase = "check" /\ ~ wasForced THEN missed \cup {joining} ELSE missed
  /\ UNCHANGED <<setup, done, fd, slots, render, shown, owed, unaware, ledVars, vars>>

\* The connection ends and the server closes the socket; the table keeps it.
Disconnect(c) ==
  /\ worker = "idle"
  /\ fd[c] # NoFd
  /\ fd' = [fd EXCEPT ![c] = NoFd]
  /\ shown' = [shown EXCEPT ![c] = Unknown]
  /\ owed' = [owed EXCEPT ![c] = {}]
  /\ unaware' = [unaware EXCEPT ![c] = {}]
  /\ missed' = missed \ {c}
  /\ UNCHANGED <<setup, done, worker, joining, slots, forced, render, ledVars, vars>>

\* An eval frame: queued, or rejected without a word.
Submit(c) ==
  /\ worker = "idle"
  /\ fd[c] # NoFd
  /\ Spend("requests")
  /\ \E s \in setup.scripts :
       LET e == [id |-> done.requests + 1, script |-> s]
       IN  \/ Push(e) /\ owed' = [owed EXCEPT ![c] = @ \cup {e.id}]
           \/ PushRejected(e) /\ UNCHANGED owed
  /\ UNCHANGED <<setup, server, render, shown, unaware, missed, ledVars>>

Server ==
  \/ WsClientAdd \/ NoteNewClient
  \/ \E c \in Client : Connect(c) \/ Disconnect(c) \/ Submit(c)

--------------------------------------------------------------------------------
(* web_ws_broadcast, on the render task: copy the table, send to each socket,  *)
(* drop a socket whose send failed.                                            *)

Broadcast(kind, body, then) ==
  /\ outbox' = [kind |-> kind, body |-> body, then |-> then]
  /\ phase' = "snapshot"

\* The copy is gone through in the order of the slots.
Turn == Min(DOMAIN targets)

Later == [i \in DOMAIN targets \ {Turn} |-> targets[i]]

Snapshot ==
  /\ phase = "snapshot"
  /\ targets' = [i \in {j \in 1 .. Slots : slots[j] # NoFd} |-> slots[i]]
  /\ phase' = "send"
  /\ UNCHANGED <<setup, done, server, popped, active, effects, errors, wasForced, outbox, lastSent,
                 since, knowledge, ledVars, vars>>

\* The message reaches the browser whose socket it is.
Deliver(c) ==
  /\ shown' = IF outbox.kind = "state" THEN [shown EXCEPT ![c] = outbox.body] ELSE shown
  /\ owed' = IF outbox.kind = "answer" THEN [owed EXCEPT ![c] = @ \ {outbox.body}] ELSE owed
  /\ unaware' = IF outbox.kind = "error" THEN [unaware EXCEPT ![c] = @ \ {outbox.body}] ELSE unaware
  /\ missed' = IF outbox.kind = "state" THEN missed \ {c} ELSE missed

Send ==
  /\ phase = "send"
  /\ DOMAIN targets # {}
  /\ \E c \in Client : fd[c] = targets[Turn] /\ Deliver(c)
  /\ targets' = Later
  /\ UNCHANGED <<setup, done, server, phase, popped, active, effects, errors, wasForced, outbox,
                 lastSent, since, ledVars, vars>>

\* The socket is closed, or the browser does not take the message; one that
\* has just connected still has an empty buffer.
SendFails ==
  /\ phase = "send"
  /\ DOMAIN targets # {}
  /\ \/ targets[Turn] \in FreeFds /\ UNCHANGED done
     \/ Spend("failures") /\ \E c \in Client \ {joining} : fd[c] = targets[Turn]
  /\ phase' = "drop"
  /\ UNCHANGED <<setup, server, popped, active, effects, errors, wasForced, outbox, targets, lastSent,
                 since, knowledge, ledVars, vars>>

\* wsClientRemove: the first slot with this socket.
WsClientRemove ==
  /\ phase = "drop"
  /\ LET mine == {i \in 1 .. Slots : slots[i] = targets[Turn]}
     IN  slots' = IF mine = {} THEN slots ELSE [slots EXCEPT ![Min(mine)] = NoFd]
  /\ targets' = Later
  /\ phase' = "send"
  /\ UNCHANGED <<setup, done, fd, worker, joining, forced, popped, active, effects, errors, wasForced,
                 outbox, lastSent, since, knowledge, ledVars, vars>>

Sent ==
  /\ phase = "send"
  /\ DOMAIN targets = {}
  /\ phase' = outbox.then
  /\ outbox' = [kind |-> "none"]
  /\ UNCHANGED <<setup, done, server, popped, active, effects, errors, wasForced, targets, lastSent,
                 since, knowledge, ledVars, vars>>

Broadcasting == Snapshot \/ Send \/ SendFails \/ WsClientRemove \/ Sent

--------------------------------------------------------------------------------
(* The render task's frame.                                                    *)

\* pumpControlEvents: other inputs start and end cues.
PumpControl ==
  /\ phase = "input"
  /\ phase' = "evals"
  /\ popped' = 0
  /\ \/ UNCHANGED <<active, done>>
     \/ Spend("changes") /\ \E q \in Cue : active' \in {active \cup {q}, active \ {q}}
  /\ UNCHANGED <<setup, server, effects, errors, wasForced, outbox, targets, lastSent, since,
                 knowledge, ledVars, vars>>

\* What a script does, on the render task.
Evaluate(s) ==
  \/ s.op = "fails" /\ UNCHANGED <<active, ledVars>>
  \/ s.op = "go" /\ active' = active \cup {s.cue} /\ UNCHANGED ledVars
  \/ s.op = "led" /\ Set(s.pad, s.colour) /\ UNCHANGED active
  \/ s.op = "auto" /\ SetAuto(s.binding) /\ UNCHANGED active
  \/ s.op = "clear" /\ ClearAuto /\ UNCHANGED active

\* Mutant: a submission is popped before the frame's budget is asked.
PumpEvalPoppingFirst ==
  /\ phase = "evals"
  /\ Pop
  /\ IF popped < EvalsPerFrame
     THEN /\ Evaluate(buffer[head].script)
          /\ popped' = popped + 1
          /\ Broadcast("answer", buffer[head].id, "evals")
     ELSE phase' = "leds" /\ UNCHANGED <<popped, active, outbox, ledVars>>
  /\ UNCHANGED <<setup, done, server, effects, errors, wasForced, targets, lastSent, since, knowledge>>

\* pumpEvalSubmissions: one submission, whose result every client is sent.
PumpEval ==
  /\ phase = "evals"
  /\ popped < EvalsPerFrame
  /\ Pop
  /\ Evaluate(buffer[head].script)
  /\ popped' = popped + 1
  /\ Broadcast("answer", buffer[head].id, "evals")
  /\ UNCHANGED <<setup, done, server, effects, errors, wasForced, targets, lastSent, since, knowledge>>

PumpEvalsDone ==
  /\ phase = "evals"
  /\ popped = EvalsPerFrame \/ count = 0
  /\ phase' = "leds"
  /\ UNCHANGED <<setup, done, server, popped, active, effects, errors, wasForced, outbox, targets,
                 lastSent, since, knowledge, ledVars, vars>>

RefreshLeds ==
  /\ phase = "leds"
  /\ Refresh(active)
  /\ phase' = "draw"
  /\ UNCHANGED <<setup, done, server, popped, active, effects, errors, wasForced, outbox, targets,
                 lastSent, since, knowledge, vars>>

\* The frame is drawn: a timed cue may end, effects may break.
Draw ==
  /\ phase = "draw"
  /\ phase' = "take"
  /\ \/ UNCHANGED <<active, effects, unaware, done>>
     \/ /\ Spend("changes")
        /\ \E q \in active : active' = active \ {q}
        /\ UNCHANGED <<effects, unaware>>
     \/ \E new \in SUBSET {x \in setup.fx : effects[x] = "fine"} :
          /\ effects' = [x \in Fx |-> IF x \in new THEN "broken" ELSE effects[x]]
          /\ unaware' = [c \in Client |-> IF Listed(c) THEN unaware[c] \cup new ELSE unaware[c]]
          /\ UNCHANGED <<active, done>>
  /\ UNCHANGED <<setup, server, popped, errors, wasForced, outbox, targets, lastSent, since, shown,
                 owed, missed, ledVars, vars>>

\* web_input_take_forced_state_broadcast reads the flag, then clears it.
TakeForced ==
  /\ phase = "take"
  /\ wasForced' = forced
  /\ phase' = "check"
  /\ UNCHANGED <<setup, done, server, popped, active, effects, errors, outbox, targets, lastSent, since,
                 knowledge, ledVars, vars>>

\* Mutant: the rate limit holds a forced broadcast back too.
CheckLimitingAll ==
  /\ phase = "check"
  /\ forced' = FALSE
  /\ IF (wasForced \/ active # lastSent) /\ since >= MinInterval
     THEN Broadcast("state", active, "record")
     ELSE phase' = "poll" /\ UNCHANGED outbox
  /\ since' = IF since < MinInterval THEN since + 1 ELSE since
  /\ UNCHANGED <<setup, done, fd, worker, joining, slots, popped, active, effects, errors, wasForced,
                 targets, lastSent, knowledge, ledVars, vars>>

\* broadcast_state_if_changed: a new client's broadcast is not rate limited.
Check ==
  /\ phase = "check"
  /\ forced' = FALSE
  /\ IF wasForced \/ (active # lastSent /\ since >= MinInterval)
     THEN Broadcast("state", active, "record")
     ELSE phase' = "poll" /\ UNCHANGED outbox
  /\ since' = IF since < MinInterval THEN since + 1 ELSE since
  /\ UNCHANGED <<setup, done, fd, worker, joining, slots, popped, active, effects, errors, wasForced,
                 targets, lastSent, knowledge, ledVars, vars>>

Record ==
  /\ phase = "record"
  /\ lastSent' = active
  /\ since' = 1
  /\ phase' = "poll"
  /\ UNCHANGED <<setup, done, server, popped, active, effects, errors, wasForced, outbox, targets,
                 knowledge, ledVars, vars>>

Broken == {x \in Fx : effects[x] = "broken"}

\* Mutant: one error is returned, and all are marked.
PollFxErrorFirst ==
  /\ phase = "poll"
  /\ effects' = [x \in Fx |-> IF x \in Broken THEN "reported" ELSE effects[x]]
  /\ errors' = IF Broken = {} THEN <<>> ELSE <<CHOOSE x \in Broken : TRUE>>
  /\ phase' = "report"
  /\ UNCHANGED <<setup, done, server, popped, active, wasForced, outbox, targets, lastSent, since,
                 knowledge, ledVars, vars>>

\* web_input_poll_fx_error: every effect that is disabled and not yet reported.
PollFxError ==
  /\ phase = "poll"
  /\ effects' = [x \in Fx |-> IF x \in Broken THEN "reported" ELSE effects[x]]
  /\ errors' = SetToSeq(Broken)
  /\ phase' = "report"
  /\ UNCHANGED <<setup, done, server, popped, active, wasForced, outbox, targets, lastSent, since,
                 knowledge, ledVars, vars>>

ReportFxError ==
  /\ phase = "report"
  /\ errors # <<>>
  /\ Broadcast("error", Head(errors), "report")
  /\ errors' = Tail(errors)
  /\ UNCHANGED <<setup, done, server, popped, active, effects, wasForced, targets, lastSent, since,
                 knowledge, ledVars, vars>>

EndFrame ==
  /\ phase = "report"
  /\ errors = <<>>
  /\ phase' = "input"
  /\ UNCHANGED <<setup, done, server, popped, active, effects, errors, wasForced, outbox, targets,
                 lastSent, since, knowledge, ledVars, vars>>

Render ==
  \/ PumpControl \/ PumpEval \/ PumpEvalsDone \/ RefreshLeds
  \/ Draw
  \/ TakeForced \/ Check \/ Record
  \/ PollFxError \/ ReportFxError \/ EndFrame
  \/ Broadcasting

ConsoleNext == Server \/ Render

\* The render task runs a frame after the other, and a handshake is finished.
ConsoleSpec ==
  /\ ConsoleInit /\ [][ConsoleNext]_consoleVars
  /\ WF_consoleVars(Render)
  /\ WF_consoleVars(WsClientAdd \/ NoteNewClient)

--------------------------------------------------------------------------------
(* Properties.                                                                 *)

\* The submissions that wait, and the one whose answer is being sent.
AnswerTo(c) ==
  IF outbox.kind = "answer" /\ (phase = "snapshot" \/ \E i \in DOMAIN targets : targets[i] = fd[c])
  THEN {outbox.body} ELSE {}

(* A submission the queue accepted is waiting, or its answer is on its way to  *)
(* the browser, or the browser has it: none is lost to the frame's budget, the *)
(* wrap of the ring or a change of the table, as long as the browser stays     *)
(* connected and listed (eval_queue.h, web_input.h:118-121).                   *)
EvalsAreAnswered ==
  \A c \in Client : Listed(c) =>
    owed[c] \subseteq {Waiting[i].id : i \in 1 .. count} \cup AnswerTo(c)

(* An effect that broke while a browser was listed is reported to it in the    *)
(* same frame, however many break at once (web_input.cpp:272-288).             *)
ErrorsAreHeard ==
  phase = "input" => \A c \in Client : Listed(c) => unaware[c] = {}

(* When the show stops changing, the controller's lights and the consoles come *)
(* to show it: every change held back by the rate limits gets out, a browser   *)
(* that connects is told without one, and no listed browser is left with an    *)
(* older state than the others (test_state_broadcast.cpp:6-11,                 *)
(* main.cpp:538-557, web_input.h:46-49).  A flag set between the render task's *)
(* reading and clearing it is lost, which web_input.cpp:83-85 denies.          *)
Settled ==
  /\ lastSent = active
  /\ LedsShow(active)
  /\ \A c \in Client : Listed(c) => shown[c] = active \/ (shown[c] = Unknown /\ c \in missed)

FeedbackSettles == <>[]Settled
================================================================================
