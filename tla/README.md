# esp-glow: TLA+ specifications

This directory holds a formal model of the esp-glow firmware and of the browser
tools that talk to it: TLA+ modules of its components, TLC configurations that
check them on small instances, and proofs that TLAPS checks for every value of
the constants. Paths below are relative to the repository's root; `PROJECT.json`
maps every definition to the lines of code it translates.

- [The system](#the-system): components, state, operations, hazards
- [Modules](#modules): what models what
- [Runs](#runs): what is checked, with which bounds and which fairness
- [Proofs](#proofs): what holds for every instance, and why
- [Disagreements](#disagreements-between-code-and-documentation) between code and documentation
- [What is not modelled](#what-is-not-modelled), [Next](#next)

To check a run: `tlc -config MCShowControl.cfg MCShowControl.tla`; to check a
proof: `tlapm ShowControl_proofs.tla`.

## The system

esp-glow is a DMX lighting engine on a two-core ESP32-S3. One task, the render
task on core 1, owns all engine state and renders 44 frames a second; every
input runs in a task of its own on core 0 and only pushes into a queue
(README.md, section 1, calls this the concurrency invariant). Shows are written
and compiled in a browser, the provisioner; a second page, the console, is served
by the device and talks to it over a WebSocket.

```
 MIDI/UART  USB MIDI  OSC  web console            HTTP /ota /devcfg   Art-Net polls
     |         |       |    |       |                    |                 |
     +---------+---push+----+   push|(eval queue)        | reads cues      | sets
               v                    v                    v                 v destinations
        control queue          eval queue           OTA manager       Art-Net router
               |                    |                    |                 |
 core 1: pump (<=64) -> console (<=4) -> beats -> LEDs -> matrices -> compute -> flush -> OTA tick
               |                    |                    (ShowController::evaluate)  |
               v                    v                                                v
          LiveControl --------> ShowController                     DMX mailbox -> dmx_tx task -> line

 browser: provisioner (projects, .show/.fdef/.mdef -> bundle)   console page (pads, scripts)
               |  flashes the bundle, compares and pushes scripts     |
               +----------------------- WebSocket --------------------+--> web console server
```

| Component | State | Operations | What makes it correct |
|---|---|---|---|
| Control queue (`control_queue.cpp`) | ring, head, tail, count, dropped | push, pop, pump | FIFO, nothing lost or repeated but what a full queue rejects |
| ShowController (`show_control.cpp`) | cues with flags, times, weights; scenes; activation counter | define, go, release, scene go/release, manual level, stop all, evaluate | fades stay in range and only darken after a release; cues end; the blend has a definite order |
| LiveControl (`live_control.cpp`) | bindings with latches, parameters, grandmaster | bind, clear, handle | what plays follows the controls |
| Console evaluation (`glow_fennel.cpp`, `glow_lua_api.cpp`) | submissions, answers, broken effects, time of the last Lua effect | submit, pump, answer, report | every accepted submission is answered, every broken effect reported |
| Render hooks (`firmware/main/main.cpp`, `render_task.cpp`) | phase of the frame, blackout flag | pre-render, compute, flush, post-render | every frame completes, in order |
| Render loop (`render_task.cpp`, `render_pacing.cpp`) | deadline, lateness, statistics | pace, render, collect garbage, sleep, report | no burst after a late frame; the statistics account for the time |
| Scripts' table and effects (`glow_lua_api.cpp`, `lua_vm.cpp`, `lua_effect.cpp`) | names, numbers, effects with their failures, bindings, budgets | every form of `glow`; run, fail, report | older versions of a cue rest; an effect fails once |
| USB port (`usb_midi_input.cpp`, `usb_midi_packetizer.cpp`) | device, interface, transfers | plug, set up, callbacks, tear down, greet | nothing leaks; notes arrive once and in order, greetings whole |
| WLED strips (`wled_manager.cpp`, `wled_udp_sink.cpp`) | targets, socket | declare, effect, colour, power, broadcast | (best-effort datagrams) |
| Show and DMX output (`show.cpp`, `dmx_sink.cpp`, `dmx_frame_buffer.cpp`, `dmx_tx_task.cpp`) | universes, one-slot mailbox, line | write, take, send | the newest frame reaches the line; a blackout stays dark |
| Art-Net (`artnet_router.cpp`, `artnet_discovery*.cpp`) | destinations, sequence numbers, node table | send, sync, poll, reply, expire | sync follows data, numbers have no gap, live nodes keep their places |
| OTA, device configuration, WiFi (`ota_manager.cpp`, `device_config_web.cpp`, `wifi_manager.cpp`) | partitions, validation flags, attempts | upload, validate, roll back; write; reconnect | always a working image to return to; what was acknowledged takes effect; the network comes back |
| Beat clock, DJ-Link, MIDI framing (`beat_clock.cpp`, `djlink_*.cpp`, `midi_*.cpp`) | anchor, period, lock; master; running status | beat, tempo, tap; packets; bytes | beats never run backwards, one master, notes arrive whole |
| LED feedback, web clients (`led_feedback.cpp`, `web_input.cpp`) | desired and sent colours, tokens; client table, forced flag | refresh; broadcast | pads and consoles end up showing the show |
| Web protocol and console page (`web_protocol.cpp`, `web_input.cpp`, `web/console`) | frames under way, touched and lit pads, open script | parse, dispatch, reply; touch, edit, load, save | frames keep their meaning, pads tell the truth |
| Scripts storage (`scripts_storage.cpp`) | files, a staged one | save, load, list, delete, boot | a script is whole whatever fails |
| Provisioner's compiler and the loader (`provision.cpp`, `fdef`, `mdef`, `show_bundle.cpp`, `apply_loaded_show.cpp`, `pixel_matrix.cpp`) | text, universes, patch, bundle, show | read a line, compile, load, apply, render | the rig shows what the text declares |
| Workspace and device sync (`web/provisioner-static`, `web/shared`) | projects, files, timers, cached agreements | edit, autosave, switch, import, rename, compare, push, pull | names hold, edits reach the storage, nothing is called safe that is not |

Interaction is by queue (transports to render task), by call on the render task
(LiveControl to ShowController, Show to its effect and sinks), by the mailbox
(render task to dmx_tx), by unsynchronised reads (HTTP task to the cues' active
flags, the forced-broadcast flag), and by messages (console page to web server).

**Hard behaviours.** Bounded queues and a bounded pump between asynchronous
tasks; fades interrupted in any phase; two owners of one fact (a latch and a
cue, an override and an active flag, a pad on a page and the cue on the device);
a latest-wins mailbox with failing sends; a blackout that must outlast the frame
it happens in; a console whose notion of time lags; power lost between any two
steps of an upload, a configuration or a save; lost replies, lost links, tables
that are full. `PROJECT.json` lists each hazard at its line with the property
that covers it, or why none does.


## Modules

| Module | Models | Kind |
|---|---|---|
| `EventFifo` | what a queue promises | abstract specification |
| `RingQueue` | `RingControlEventQueue`; the eval queue uses the same ring | implements `EventFifo` |
| `ShowControl` | `ShowController`: cues, scenes, envelopes, retirement | component |
| `CueBlend` | the merge in `ShowController::evaluate` | extends `ShowControl` |
| `LiveControl` | transports, queue, pump, dispatch, console, boot, frame | composes `ShowControl` with a FIFO |
| `LedFeedback` | LEDs of a MIDI controller, change detection, token bucket | component |
| `Console` | web clients, submissions, answers, broadcasts, broken effects | composes `RingQueue` and `LedFeedback` |
| `BeatInputs` | MIDI framing and clock, DJ-Link, beat queue | component |
| `BeatClock` | phase-locked loop, taps, what effects read | extends `BeatInputs` |
| `RenderLoop` | the loop of the render task and its pacing | component |
| `UsbMidi` | driver of a MIDI controller on the USB port, with the port | component |
| `Wled` | strips with controllers of their own | component |
| `GlowApi` | the table scripts see, scripts and effects, their budgets and failures | extends `Wled` |
| `TrustedImage` | what an update mechanism promises | abstract specification |
| `WifiManager` | event handler, reconnect task, services | component |
| `Lifecycle` | resets, bring-up, OTA, device configuration | extends `WifiManager`, implements `TrustedImage` |
| `DmxOutput` | universes, matrices, mailbox, dmx_tx task, line, blackout, rollback | component |
| `ArtNet` | router, ArtSync, discovery | component |
| `ScriptStore` | scripts partition, boot script | component |
| `WebProtocol` | commands and replies, parsers tried in order | extends `ScriptStore` |
| `WsLink` | a browser's socket, the device's handler, the broadcast | extends `WebProtocol` |
| `ConsolePage` | pads, scenes, master and script panel of the console | extends `WsLink` |
| `FixtureProfile` | `.fdef`, PFX1, channels written | operators |
| `MidiProfile` | `.mdef`, MDF1, tables, control ids | operators |
| `Provision` | `.show` to bundle to show to light | composes both |
| `Workspace` | projects, storage, tabs, flows of the provisioner page | component |
| `DeviceSync` | shows of a project beside the scripts of the device | extends `Workspace` |
| `MC*` | instances for TLC | |
| `*_proofs` | theorems | |

**RingQueue.** Variables are the class's fields, indices from 0 as in the code;
every method holds the mutex throughout, so each is one action. `taken` is the
consumer's out parameter. The refinement mapping reads the waiting events out of
the ring (`Waiting`). `MaxDropped` bounds the counter of rejected pushes.

**ShowControl.** A cue's id is its place in `cues`. The boolean fields of a cue
are sets of cues (`active`, `released`, `manual`). The code stamps absolute
float times and subtracts; the model keeps the differences (`goAge`, `relAge`),
saturated at `Horizon`, beyond which no envelope changes (`ShowAssumption` says
so). Weights are integers in `0..Full`, with the code's interpolations as integer
division, which preserves the bounds and orders the properties are about. `lag`
is how far a caller's time is behind the frame: 0 for controllers, more for the
console. `go` and `goScene` are both `GoEach` over a list of cues, which is what
the loops of the code amount to for a list without repetitions.

**CueBlend.** `Contributing` are the live cues of positive weight, `Contributors`
lists them by precedence, `Intents` what their effects emit, and `Merged` is a
recursive function over the intents, entry by entry, as the code's loop is.
Entries keep the owner of their first write, as `workingCaps_` does. Aims merge
like a chosen write to one channel per fixture.

**LiveControl.** The queue is a sequence with a bound (the FIFO that `RingQueue`
is proved to implement). `PressPad`, `LiftPad`, `MoveFader` and `SendProgram` are
pushes by any transport at any moment after boot; no transport looks at the
result of a push (`midi_input.cpp:74`, `usb_midi_input.cpp:318`,
`osc_input.cpp:48`, `web_input.cpp:213`), so a rejected event is gone. The render
task's frame is `BeginFrame`, up to `FramePops` times `Dispatch`, `EndPump`, up to
`FrameEvals` submissions of a console, `EndEval`, `Render`; transports interleave
anywhere. `Handle` is `LiveControl::handle` with one disjunct per kind of event.
`luaLag` is how old `GlowLuaApi::currentT_` is. Before the first frame the boot
script may start cues, and a failed one is followed by `stopAll`. A binding is
made with its latch off (`NewBinding`). `down`, `lost` and `meddled` are history
variables: the pads a finger holds, those whose last event was rejected, those
whose cue or binding was changed by other means.

**LedFeedback, Console.** The HTTP worker accepts a browser in two steps, as the
code does (`WsClientAdd` fills a slot, `NoteNewClient` sets the forced flag), and
pushes submissions into the ring; the render task's frame is evaluation, LEDs,
state broadcast and broken effects. A broadcast copies the table under the lock
(`targets`, by slot) and sends after it, so that clients come and go in between; a failed
send removes its client. `owed` is the history of what each browser submitted and
the queue accepted, `missed` holds those whose forced flag was lost. LEDs are pads with what they should show, what was sent and
what the controller shows; the token bucket counts parts of a message.

**BeatInputs, BeatClock.** A beat is stamped by its transport and pushed by a
later step (`held`), so that beats of two transports enter the queue out of
order. MIDI messages arrive byte by byte with clock bytes between any two. The
clock is in integer time, periods in parts of a tick and beat numbers in parts of
a beat, quotients rounded down. `locked()`, `onTempo`, start and stop have no
caller on the device and are left out.

**RenderLoop.** One action per part of the loop: `Pace` is `paceNextFrame` with
the deadline it sets, `Render` and `PostRender` take as long as they like, but
garbage is collected at least until the slack of the frame is spent; `Sleep` asks
for the ticks the code asks for, a number of milliseconds rounded up and then cut
to whole system ticks, and ends with a tick, so it may end before the deadline.
The statistics are counted before the sleep and reset when they are reported
(`told` is the history of the reports). `mark` is an observer who starts to count
frames at any one of them.

**UsbMidi.** The driver is one task that the host library calls back; each
callback is an action. Setting up a controller is one callback of seven calls, any
of which may fail: `Failures` says where, for which device, and `GivenBack` what
the code gives back there of what was lent so far (`Lent`). The library's side is
external, modelled as the driver relies on it: a new address for each plug, a
transfer handed back before the message that its device is gone, a queue of messages
that loses what it has no room for. `EventPacket` is a turn of the packetizer's loop
and `Take` what a device makes of the packet by the codes of the USB-MIDI
specification; a greeting's buffer is packed at once, and what is in it is told
packet by packet as the device takes it, until it has all or stalls. What the device
played is read packet by packet too, within one callback. `played`, `greeted` and
`pushed` are histories.

**Wled, GlowApi.** Each form of the `glow` table is an action that takes one from
`fuel`, the budget; a script or an effect may fail at any form, which stands for a
wrong argument, a full heap and a budget used up. Cues, scenes and effects have
numbers, and names lead to the latest; a cue remembers as history whether a name or a
number started it last. A frame draws the active cues, each with its effects, in any
order. Scripts do not catch errors (`pcall`), and effects define no cues (see below,
*Engine*). What weights, pads, beats and pixels do is the other modules' matter.
`EffectId` stands for the table of names: known or not.

**WifiManager, Lifecycle.** The ESP-IDF event handler, the reconnect task and the
start of the services are separate tasks over the driver's association. Flash
(`image`, `mark`, `chosen`, `devcfg`) outlives a reset, everything else starts
anew. Uploads write a slot, switch the boot slot, answer and restart; a
configuration is checked, erased, written, answered, and the device restarts;
power may be lost between any two. The bootloader's choice and its marks are
external. Time is one bit: the validation deadline has passed.

**DmxOutput.** A universe is abstracted to whether it gives light. The frame is
`PreRender` (controls, matrices unless blacked out), `Compute`, one `Flush` per
universe, `EndFrame` or `Rollback`. `Write`/`Take` are the mailbox's critical
sections, `Transmit` waits for the line. Profile defaults (an open shutter) count
as dark. The driver and the fixtures are external: a transmission started ends
(`LineDone`), and what was received last is `shown`.

**ArtNet.** Every critical section of the router is one step of one of two tasks,
the render task (`rpc`) and the discovery task (`dpc`). The node table is a
function from known nodes to what they said and how old that is; `ahead` is the
order of places in the code's vector, which decides who serves a universe two
nodes offer. `last`, `fed`, `moved`, `replied` are history: the last number sent,
the addresses this frame's data went to, a universe rerouted after it was sent,
the nodes whose reply reached the socket.

**ScriptStore, WebProtocol, WsLink, ConsolePage.** A save is staged, written,
renamed and cleaned up in steps; a file being written is whatever a loss of power
leaves. A frame is the sequence of a JSON object's fields; `ParseWebCommand` tries
the parsers in the code's order, so a frame can be taken for another kind, and
what is too long is cut where the code cuts it. The socket delivers in order until
it breaks. `told` is history: a state was received since the page's last touch.

**FixtureProfile, MidiProfile, Provision.** Lines are tuples of tokens; the
compiler's state is what the code collects while it reads a line, its errors end
the run of the text. The bundle is read again by the device's loader and built
and rendered, with the widths and limits of both sides. A channel carries the
line that wrote it, so a property can say whose light it is.

**Workspace, DeviceSync.** A flow (open, create, import, rename, delete, migrate,
switch) is one step per storage write, because every `await` lets other callbacks
in; timers are steps of their own. A row of the sidebar drawn before a switch still
changes the project that was left (`RowsLeft`). Names are stems with appended numbers. The
device answers in order, without request ids, and other consoles change it; a pull and
a comparison that await the same text go on in the order they began (`behind`).

**Rigs.** An MC module that checks several components chooses the one that moves
with a variable (`setup`, `part`) in the initial state; the others keep their initial
state. Such a run has one state space per rig and shows nothing about
interactions between rigs, of which the code has none.

## Runs

| Run | Distinct states | Shows |
|---|---|---|
| `show_control` | 490,003 | fades, order and endings of cues; the merge against what it should compute |
| `live_control` | 671,562 | pads to lights through queue and pump |
| `console` | 902,814 | submissions answered, errors heard, LEDs and consoles settle, the ring is a FIFO |
| `engine` | 4,737,531 | beats and notes, pacing, the USB port, the scripts' table |
| `device` | 226,002 | updates, configurations and the network over resets |
| `output` | 638,246 | DMX line and Art-Net |
| `tools` | 471,952 | compiler, console page, workspace |
| `live_overflow` | violation | a full queue strands a light |
| `console_time` | violation | a console's timed cue never lights |
| `rollback_light` | violation | a rollback leaves the rig lit |
| `matrix_dark` | violation | a matrix past the first universe stays dark |
| `pull_is_safe` | violation | a refused push is taken for an agreement |

Every property has a mutant in `PROJECT.json`: a plausible bug in the code under
which the same run finds the property violated. The mutants stand in the modules,
marked as such, before the definitions they mutate. Deadlock is checked except
where a run's time, frames or days are bounded and the behaviour ends (`engine`,
`output`, `tools`, the rollback).

**show_control.** Two cues: a look that fades in over two units and out over two,
and a timed cue, under go, release, scene, fader and stopAll at any moment; the
merge of one intensity, one position and one strobe slot is evaluated in every
state so reached. `Full = 4` lets half-way weights differ at each step;
`Horizon = 3` is the longest envelope, so every age that makes a difference is
distinct; three activations (`MaxSeq`) suffice for both cues and one
re-activation. `MaxLag = 0` here: the theorem `ReleasesOnlyDarken` covers every
lag, and what a lag does to a cue is `console_time`'s question.
`ReleaseNeverBrightens` says that a released cue's weight never exceeds what it
was at the time the release was stamped with. `CuesEnd` assumes weak fairness of
`Advance` and `Evaluate`, which the render task's loop performs for ever.

**live_control.** One pad and one fader under four binding tables (flash, toggle,
scene, scene toggle; the fader as grandmaster or as cue level), a console that
rebinds, clears, runs the cue, a queue of two and two pops a frame (real: 64 and
64): presses and lifts pile up, overflow, and are left over for the next frame.
`FlashFollowsFinger` and `ToggleInStep` relate queue, bindings, fingers and cues
at every interleaving; they exclude pads whose last event was rejected, which is
what `live_overflow` is about, and pads a console meddled with. `FlashGoesDark`
assumes weak fairness of the render task's steps only.

**console.** Two browsers, two cues, two effects, three pads, a ring of three, two
sockets and three slots (real: 7 sockets for 8 slots: there is always one more slot
than sockets), two evaluations a frame (real 4). Five situations share the budget of
events: a flood of submissions, browsers that come and go, lights that scripts set and
bind while tokens are short, scripts and other inputs that start cues, effects that
break while sends fail; two browsers take part where it matters that they meet.
Fairness: the render task, and a handshake begun.
`EvalsAreAnswered`, `ErrorsAreHeard`, `RingIsFifo` (refinement), `FeedbackSettles`
(if cues stop changing, LEDs and consoles end up showing them, a console that has just
connected too, whatever the rate limits hold back; a flag set between reading and
clearing it is lost, which is a disagreement, below).

**engine.** Four parts. *Beats*, in three rigs: MIDI clock with a DJ player, a
controller whose messages are cut by clock bytes, a booth of two players; time and
events are bounded. *Loop*: a period of 9 units, a millisecond of 2 and a
system tick of 4, to a horizon of four periods, so that a sleep is rounded up, cut
down and late, frames overrun by up to four periods and the slack is negative. `NoBurst` allows
one frame more than there were periods, and as many as fit into two system ticks.
*USB*: three plugs, a queue of two messages, profiles whose initial messages end on the
first, second and third byte of a packet, two packets played; with three plugs a second
device is found while the first is tracked, and one goes while the news of it waits.
*Scripts*, in three plans: two scripts that define two versions of a cue and a scene,
one that breaks up to three effects, two that bind, paint and light strips. Budgets of
three forms for a script and one for an effect (real: 2,000,000 and 20,000
instructions) are used up within each.

**device.** Two configurations, a threshold of one attempt (real 10), two frames to
validate, two requests, one loss of power. `SafeUpdate` is a refinement of
`TrustedImage`. Fairness: tasks take their steps; `Joined` and `GetAddress` are
strongly fair, which is what "the network is there and the device keeps trying"
means; uploads, power and the network's coming and going owe nothing.

**output.** The line: two universes, one of them a matrix; four frames, dropped
between write and take, overtaken, or failing in `dmx_send`. Fairness: the render
task, dmx_tx and the line take their next step; the last frame of the bounded run
does not fail, because the run has no later one to supersede it. The network:
three nodes, two universes, a table of two, expiry after two polls, one missed reply
and two faults; a sequence number wraps after two (real 255). Fairness: both tasks.

**tools.** *Compile*: six channels in a universe (real 512), two universes, up to
five lines of a menu with every keyword; limits small enough that each is reached
and exceeded. *Page*: one browser with a flash pad, a toggle pad and a scene; texts
that are empty, fail, are exactly as long as a submission may be; six kinds of day
that say how many link losses, resets, touches and script actions happen.
*Workspace*: plans for edits, drops of files, flows, reloads, presses in the sync
panel, changes elsewhere, slow answers and broken links. Two plans have two flows, so
that one project is made and another chosen, deleted or renamed, and an export is
imported, the second flow beside edits and the autosave or beside the sidebar and drops;
with reloads and with the sync panel there is one flow, and what else may come
together, such as an import and a reload, is left to `NamesAlwaysHold` and
`StoreAlwaysFollows`, which hold for every plan. One flow at a time and one tab of the
browser are assumptions of the model. Fairness (page only): the browser's callbacks and timers,
saves and boot; the handshake is strongly fair.


## Proofs

TLAPS proves the following for every value of the constants. No theorem relies on
anything but the named assumptions of the modules (`ShowAssumption` and the like),
which TLC evaluates in the runs, and on the library's facts about finite sets,
sequences and natural numbers. Each inductive invariant has one lemma per operation, and
its parts are named for what they say. The library's induction theorems take an
operator as a parameter, which the provers cannot instantiate, so what the proofs
need of induction is derived from what is first-order: the well-foundedness of
finite sets under inclusion.

| Property of a run | Theorem | For every |
|---|---|---|
| `ReleaseNeverBrightens` | `ReleasesOnlyDarken` | set of cues, scenes, levels, and every lag of the caller |
| `MergesByPrecedence` | `MergingHolds`, from `BrightestIsEmitted`, `LatestIsEmitted`, `SelectionIsKept` | set of cues, effects, channels and slots |
| `FlashFollowsFinger`, `ToggleInStep` | `FlashesFollowFingers`, `TogglesStayInStep` | number of pads, faders, bindings; every queue size and frame bound |
| `EvalsAreAnswered`, `ErrorsAreHeard`, `RingIsFifo` | `SubmissionsAreAnswered`, `BreakagesAreHeard`, `SubmissionsAreFifo` | number of browsers, sockets, slots, effects; every capacity |
| `NotesArriveWhole`, `MasterIsFollowed` | `NotesStayWhole`, `OneMasterIsHeard` | rig; booth of as many players as the table has room for |
| `NoBurst`, `TimeIsAccounted` | `BurstsNever`, `StatisticsAddUp` | period, millisecond, tick; every length of frames and sleeps |
| `NothingLeaks`, `PortIsFaithful` | `PortNeverLeaks`, `PortStaysFaithful` | profile, message queue, number of plugs and packets |
| `OlderVersionsRest`, `EffectsFailOnce` | `OlderVersionsAreAtRest`, `EffectsAreContained` | names, controls, budgets, number of cues, scenes, effects |
| `SafeUpdate` | `UpdatesAreSafe` | set of images and configurations |
| `BlackoutStaysDark` | `BlackoutIsDark` | universes of both kinds |
| `SyncFollowsData`, `LiveNodeKept` | `SyncGoesWhereDataWent`, `LiveNodesAreKept` | nodes, routes, faults, table size, timeout, wrap |
| `RoutesStayApart` | `RoutesNeverMeet` | text and set of definition files |
| `NamesHold`, `StoreFollows` | `NamesAlwaysHold`, `StoreAlwaysFollows` | files, names, texts; what an older page left; drops |
| `SyncedWasThere` | `AgreedWasThere` | the same, and every device, other consoles, texts it refuses |
| `FramesKeepMeaning`, `ScriptsWhole`, `PadsTellTruth` | `FramesAreUnderstood`, `ScriptsStayWhole`, `PadsAreTrue` | names, texts, limits, pads, scenes |

Some theorems state what no run checks, because the proof covers it for every
instance: that the engine's types hold and activation numbers order the cues
(`ShowTypeCorrect`, `ActiveCuesAreOrdered`), that sequence numbers of Art-Net have
no gap (`NumbersHaveNoGap`), that an older page's workspace is forgotten only when the
storage has a whole copy of it (`LegacyIsKept`; of the memory adapter's copy, and of a
migration that was interrupted, see below), and the inductive invariants themselves (`ShowInvariant`,
`LiveStaysSound`, `LifeStaysSound`, `PageStaysSound`).

**`ShowControl_proofs`.** The invariant `ShowInv` is
`TypeOK /\ OverrideIsActive /\ ActiveOrder`: that recorded release weights are
weights (part of `TypeOK`) needs the bounds of `Rise` and `Fall` at every lag,
which need that a fall never starts later than the horizon, and `ActiveOrder`
carries "below the counter" with uniqueness, because a new number is distinct
only if all old ones are below it. `ReleaseNeverBrightens` follows step by step
from `Fall` being monotone in time, which is shown by cross-multiplying its integer
quotients. Also `OverrideStaysActive` (a fader's cue is active) and
`WeightsStayInRange`.

**`Cues_proofs`, the merge.** The theorems are about what a frame computes in a state
in which `ShowInv` holds. Precedence is a definite order on the contributing cues, because
`ActiveOrder` makes their activation numbers distinct; so each rank is taken
once, and flattening what the cues emit keeps that order (`FlattenKeepsOrder`,
`IntentsInOrder`). The merge is a recursive function; that it exists, with one
equation per entry, is proved (`Recursion`), and a channel's value then passes
through a run of entries (`ChannelRuns`). Three inductions over such a run give the
three properties: the running maximum of blended writes (`BrightestWins`), the
owner of what a channel holds (`OwnerWrote`: an entry keeps the owner of its first
write, so that a chosen write of a later cue always takes over,
`ChosenTakesOver`, and the last one stays, `LastChosenStays`), and the selected
slot that only something at least as bright may take (`SelectionOutlasts`).
`LeastExists` and `Induction`, which they rest on, stand in `ShowControl_proofs`.

**`Cues_proofs`, live control.** The proof builds on `ShowControl_proofs`, so that
every step of the path from a controller to the cues keeps `ShowInv`. `FlashFollowsFinger` speaks of an empty
queue; `QueueTruth` is why it holds: the last event of a pad that waits says where
its finger is, unless it was rejected, and a pad none of whose events waits has a
cue that follows it already. `LatchTruth` carries a toggle pad's latch across a
dispatch, and needs that no two bindings of one control meet, which the least
matching binding (`FirstPlace`) decides as the code's loop does.

**`Console_proofs`.** First the ring: `RingInv` says that tail, head and count agree,
without which a push might overwrite a waiting event, and two lemmas remove the
modulus from the slot of the i-th waiting event; with them a push appends, a pop
takes the head, and each step maps to one of `EventFifo` (`RingImplementsFifo`).
Then the frame: clients enter the table from one task while answers go out from
another, over a copy made under the lock. `CopyHolds` and `CopyServes` say what a
copy is worth: every browser the answer is owed to and that is still in the table
has its socket among the slots not yet served, although a socket may be in the table
twice when a stale client's number was used again. `Numbered` orders submissions,
so that one made while another is answered is never taken for it. Together they give
`ConsoleInv`, in which `EvalsAreAnswered` and `ErrorsKept` are conjuncts.

**`Engine_proofs`, beats.** A note is three bytes on a wire on which clock bytes may come
between any two. `ReaderKeeps` says that what is still to come is the rest of the
message whose first bytes are in the buffer, so that the byte that completes it
completes that note. In the booth, `BoothInv` says that the table has one entry per
player and that the entries of those heard of since the last change are right. It
needs `BoothFits`: in a booth of more players than kCapacity
(djlink_master_tracker.h:43) the tracker overwrites its first entry, and the
property does not hold there.

**`Engine_proofs`, the loop.** `NoBurst` speaks of the moment a frame begins and
`TimeIsAccounted` of the one after it slept, so the invariant says what the deadline is
worth at all the others. `Ahead`: the frames since the observer's mark fit between the
mark and the deadline, with a period to spare after a late frame, whichever frame was
marked. `Punctual`: a frame that was in time wakes less than two ticks before its
deadline, by the rounding of `Ticks` (`WaitInTicks`, `WokenInTime`: two quotients of
integers); a late one ends at most its period before. Together they bound the frames
that can have started. `Accounted` holds of what is reported, what is counted and what
the frame under way will add (`Pending`), so also between counting and reporting. A
late frame leaves the grid of the deadlines before it, and drops are counted in
rounded quotients: the statistics bound the time from both sides, they do not equal it.

**`Engine_proofs`, the port.** `UsbInv` adds to `NothingLeaks` that addresses are counted
from 1 in the order of the plugs, and that a device reported as gone is not there: so
taking down the tracked one, whose transfers came back when it was pulled, leaves
nothing under way to it. For `PortIsFaithful`, `PacketsInv` says that the packets read
so far are the first ones played, and that those among them that are channel messages
are what was pushed; `GreetInv` that a transfer under way is exactly where its device
is (`UpTo`): the messages before the current one whole, and of that one the bytes up
to the place. The step between two places is the packetizer against the device's
reading (`PacketIsUnderstood`), for messages of any length. A device whose plug is
still news was sent nothing, and the queue holds no news of a plug twice: so no device
is greeted twice.

**`Engine_proofs`, scripts.** `CuesInv` says that a name leads to a cue defined under it.
A redefinition releases the version the name led to, whatever it was started by, and
only numbers, in scenes, bindings and programs, reach the older ones after that; each
operation on cues is shown to be one of a few moves (`CuesMove`) that keep this.
`EffectsInv` says that what is due in a frame exists, and that what was reported is
disabled, which a new definition must not disturb (`EffectsAreMade`).

**`Lifecycle_proofs`.** `LifeInv` adds to the types that what is posted parses
and `SlotInv`: between an upload's steps the running slot is untouched, only images
on trial wait for validation, and the slot a rollback returns to holds an image
that was proved. With it each step, losses of power and the bootloader's choice
included, maps to a step or a stutter of `TrustedImage`.

**`Output_proofs`.** `BlackoutStaysDark` is not inductive: it speaks of
the flush only. `OutputInv` adds the reason for each kind of universe: after a
blackout the matrices' universes are dark in every phase, because nothing writes
them any more; and in the flush, without a cue, whatever is lit is a matrix,
because `Compute` has zeroed the others. For Art-Net, `FrameInv` ties the addresses
fed in this frame to the routes of the universes already sent, which an ArtSync
reads; `NumbersFollow` is inductive as it stands; `FinderInv` bounds a node's age by
the polls it missed, separately for the moments before and after the ageing.

**`Tools_proofs`.** Of the console, `FramesKeepMeaning` says, for every frame under way, that of
the device's parsers, tried in order, the one that takes it gives it the meaning it
was sent with: a lemma for each kind of message says which fields it has, that no
earlier parser finds its keys, and what is lost when a frame is cut at the limit.
`ScriptsWhole` needs `StoreInv`: a script under a listed name is never the one being
written. `PadsTellTruth` needs `TruthInv`: the last state among the frames on their
way is the current one, or the page has a touch or a load still under way.

Of the compiler, `OwnersKnow`: the claim on every route names the universe that
uses it, is kept by redeclarations too. A claim that a moved universe leaves
behind is harmless to the property (and refuses a legal line: see below).

**`Workspace_proofs`.** A file is deleted by a filter and copied under a free name,
so the proof begins with lists: what `Keep` returns (`KeptList`), that a filter keeps
names apart (`FileGone`), and that among `MaxFiles + 1` numbers one is free
(`NameIsFree`). Each operation on a project keeps it `Sound`. The page's invariant is
`WorkInv`. `CopyIsStored` follows the boot from copying a legacy workspace to
forgetting it, so that a reload between any two of its awaits finds either the old one
or its copy. `FlowHeld` says what a flow that waits for the storage holds in its hands,
which is what it writes back later. `Follows` is `StoreFollows` with the two moments
in which the page and the storage rightly differ: a seeded project not yet touched,
and one being left, which may already be deleted.

For the sync, `SyncSound` says that whatever any reconciliation has compared so far,
whatever is agreed and whatever is shown is of texts *accounted for*: empty, once on
the device, or of a push that failed or is on its way; and that the device's answers
are of texts it has had. A step either leaves the accounts (`SyncStep`), or the device
takes a save from the ones on their way to the ones it has had (`DeviceGets`), and a
lost connection moves them to the failed ones. The answer of a request nobody
remembers is covered by the same invariant, because it speaks of every reconciliation
that waits, those of a replaced client included.

The proofs assume of the constants (`WorkAssumption`, `SyncAssumption`) what the page
makes sure of before a list exists: seeds and an older page's lists name no file
twice, as `addFixture` and its like refuse to (project-model.js:215-222).

**Only model-checked.**

- Everything that must eventually happen (`CuesEnd`, `FlashGoesDark`,
  `FeedbackSettles`, `LightGoesOut`, `FrameReachesLine`, `RoutesSettle`,
  `BadImageLeaves`, `ConfigTakesEffect`, `Reconnects`, `Relinks`): the provers do not
  reach fairness and ENABLED.
- The compiler's tables (`PatchHolds`, `BundleKeepsShow`, `GridPadsAnswer`): nested
  folds over the lines of a text, through an encoder and a parser.
- `BeatNeverRunsBack` depends on the sizes of beats, frames and corrections to each
  other: which constants suffice is a question of nonlinear integer division.

## Disagreements between code and documentation

**`live_overflow`.** README_CONTROL_QUEUE.md:94-99 holds that rejecting the
newest event at worst loses a double-tap. With the queue full at the moment the
finger lifts, the newest event is a release: the press that waits in the queue is
dispatched, its release never, and the light stays on until the pad is used again.

**`console_time`.** glow_lua_api.h:149-153 says the drain of console submissions
calls `noteEvalTime`; nothing in the firmware does. A console's `glow.cue.go` is
stamped with the time of the last frame in which a Lua effect ran. A cue with a
hold time shorter than that lag ends before its first frame; one that fades in
jumps into its fade.

**`rollback_light`.** safe_blackout.h:1-10 promises zeros on the line for as long
as the device stays up, for an image that fails its self-validation too. The
rollback is decided on the render task after the flush: it stops the cues, waits
300 ms on that same task and reboots. No dark frame is rendered, and the fixtures
keep the last lit one while the device restarts.

**`matrix_dark`.** provision.cpp:1048-1051 describes a matrix as pixels packed from
startUniverse:startChannel on. `PixelMatrix::render` (pixel_matrix.cpp:126) finds a
pixel's buffer with an absolute universe number, but the buffers are the matrix's
own, counted from 0, and are sent from startUniverse on: it counts twice. A matrix
of one universe that does not start in the first, as in docs/authoring.md:22, stays
dark. This one is a bug of the code; its tests all start in universe 0.

**`pull_is_safe`.** device-sync.js:34-35 calls the status "device-changed" safe to
pull. A push is marked as agreed when it is sent, and a save the device refuses is
answered like one it made. After a refused push of a new text the panel says
"device-changed", and pulling overwrites the only copy of the text.

Met while modelling, without a run of their own:

*Engine.* A release stamped with a console's old time during the cue's own fade-out
may brighten it relative to the last frame (`ReleaseNeverBrightens` compares with the
brightness of the release's own time). `glow.bind.clear` while a flash pad is held
leaves its cue on (live_control.cpp:138). Redefining a cue by name makes a new id and
keeps the old one bound (glow_lua_api.cpp:435). An effect that defines a cue inside
`evaluate` reallocates the vector `evaluate` holds pointers into
(show_control.cpp:225). A submission the full queue rejects gets no answer. A timed
console's errors are sent once, to whoever is there.

*Beats.* The first beat resets the number of a free-running clock (beat_clock.cpp:51);
a tempo that jumps by more than two is rejected for ever (beat_clock.cpp:87); the
departed DJ-Link master still silences the others (djlink_master_tracker.cpp:46);
MIDI messages of two bytes never complete (midi_realtime.cpp:36).

*Network.* An ArtSync after a reroute inside the frame goes to the new address only
(artnet_router.cpp:114 against artnet_router.h:119-122). Without a fallback address
the router drops frames of a lost node (artnet_discovery.h:115 says "never
darkness"). Two universes on one DMX port alternate (dmx_sink.cpp:83).

*Device.* The validation of a trial image waits for the network, and a DMX bring-up
that fails returns from app_main without it (main.cpp:1163, ota_manager.h:8-17).
Posting a configuration in the validation window restarts, and the bootloader rolls
a good image back. A sender that stops inside a body is waited for without end
(ota_manager.cpp:170, device_config_web.cpp:67). Cues may start during an upload
(ota_manager.cpp:132). The services wait for the first address only
(wifi_manager.cpp:177). A boot script over 16 KB counts as missing (main.cpp:846).

*Web server.* web_input.cpp:83-85 holds that the worst a race on the forced broadcast can
do is to delay it by a frame. The render task reads the flag (web_input.cpp:93) and clears
it one statement later; when the HTTP task sets it in between, no broadcast is forced, and
a console that connected to a show which does not change is not told what plays, which the
flag is there for (web_input.h:46-49). A socket that dies silently keeps its slot until a send fails
(web_input.cpp:115); every page numbers its submissions from 1 and takes any answer
with its number (script-panel.js:64); a fresh page's configuration clears pads that the state sent
before it had set (web_input.cpp:353-357); a device script over 4095 bytes loads as
empty (scripts_storage.cpp:184); the LEDs stay dark after the controller's power was
cycled (led_feedback.cpp:107).

*Provisioner.* A claim on a route outlives its universe's redeclaration and refuses a
legal one; a fixture that shares a universe with a matrix stays dark
(apply_loaded_show.cpp:39); two matrices in one universe overwrite each other; the
second CAP of one capability is unreachable; more than 128 fixtures are dropped
silently.

*Workspace.* A rename loads the project and saves what it loaded (app.js:1706,
project-store.js:69-75): when the autosave fires in between, the older text is put over
the one just saved, and stays in the storage until the next edit is saved
(`StoreFollows` leaves this out with `overtaken`). Migrating into the memory adapter removes the only durable copy
(app.js:401-428); an interrupted migration is not retried; an edit made while a switch
loads goes into the new project, and one made less than 500 ms before a switch is lost
(README_PROVISIONER.md:97); deleting a project less than 500 ms after an edit brings
it back; a late answer resolves a later request, and agreements survive a reconnect
(device-sync.js:14-18); a pull writes into whichever project is open by then;
`glow.save` is documented (README_LUA_FENNEL.md:79) and does not exist.

## What is not modelled

- Rounding of floating-point times and weights; a clock that loses precision after
  days (`render_pacing.h`).
- The Lua interpreter and the Fennel compiler: a script is a sequence of forms, its
  budget counts them, memory that is used up is a failure at any of them.
- Effects, geometry, colours, aim, pixel patterns: pure functions of time.
- Drivers (UART, RMT; of USB the host library), the OSC parser, DJ-Link's packet layout, the wording of
  error messages, tokenising.
- The layout of WLED datagrams, the status LED, mounting.
- The importers, the flasher, the previews and what the pages look like.
- `dmx_tx_task_stop`, `sendBlackoutNow`, `locked()`, `onTempo`, start and stop of the
  beat clock: no caller in the firmware.
- Memory safety. Third-party code.

The components list of `PROJECT.json` says of each part what is in and what is out.

## Next

- The compiler's tables, declaration by declaration, from the fold of the lines.
- What a device understands of packed messages, for every length (`GreetingWhole`).

