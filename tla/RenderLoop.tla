------------------------------ MODULE RenderLoop ------------------------------
(***************************************************************************)
(* The render task's loop (render_task.cpp) and its pacing                 *)
(* (render_pacing.cpp): a frame starts, works for as long as it takes,     *)
(* hands the rest of its period to the post-render hook, which spends it   *)
(* on the Lua VM's garbage (LuaVM::gcStepSlack), and sleeps to its         *)
(* deadline, as well as the system's ticks allow.  What happens in a frame *)
(* is the other modules' matter; here it only takes time.                  *)
(***************************************************************************)
EXTENDS Integers

CONSTANTS
  Period,     \* s_periodUs, in units of time
  Milli,      \* units in a millisecond
  TickMillis, \* portTICK_PERIOD_MS: 10 unless the build sets CONFIG_FREERTOS_HZ
  Horizon     \* bound: the last unit

ASSUME LoopAssumption ==
  /\ {Period, Milli, TickMillis} \subseteq Nat \ {0}
  /\ Horizon \in Nat

VARIABLES
  at,       \* where the task is
  time,     \* esp_timer_get_time
  deadline, \* prevDeadline, 0 before the first frame
  pace,     \* the frame's PaceResult: behind, droppedFrames
  stats,    \* s_statFrames, s_statBehind, s_statDropped
  luaReady, \* g_luaReady
  told,     \* what render_task_get_and_reset_stats has reported so far, in sum
  seed,     \* history: when the first frame started
  mark      \* history: the frame an observer starts to count at, and the frames since

loopVars == <<at, time, deadline, pace, stats, luaReady, told, seed, mark>>

NoStats == [frames |-> 0, behind |-> 0, dropped |-> 0]

LoopInit ==
  /\ at = "off"
  /\ time \in 0 .. TickMillis * Milli
  /\ deadline = 0
  /\ pace = [behind |-> FALSE, dropped |-> 0]
  /\ stats = NoStats
  /\ luaReady \in BOOLEAN
  /\ told = NoStats
  /\ seed = 0
  /\ mark = [from |-> 0, count |-> 0]

Most(a, b) == IF a > b THEN a ELSE b

Plus(s, t) ==
  [frames |-> s.frames + t.frames, behind |-> s.behind + t.behind, dropped |-> s.dropped + t.dropped]

\* render_task_start; the task may not fit into memory.
StartLoop ==
  /\ at = "off"
  /\ time > 0
  /\ at' \in {"pace", "failed"}
  /\ UNCHANGED <<time, deadline, pace, stats, luaReady, told, seed, mark>>

\* paceNextFrame: a deadline that has passed is put one period from now.
Base == IF deadline = 0 THEN time ELSE deadline

Behind == time >= Base + Period

\* Mutants: the next deadline never leaves the grid of the first one; the
\* period that made the frame late is counted too.
OnGrid == Base + Period
OneMore == IF Behind THEN (time - Base) \div Period ELSE 0

Dropped == IF Behind THEN Most(0, (time - Base) \div Period - 1) ELSE 0

NextDeadline == IF Behind THEN time + Period ELSE Base + Period

Pace ==
  /\ at = "pace"
  /\ time < Horizon
  /\ at' = "render"
  /\ pace' = [behind |-> Behind, dropped |-> Dropped]
  /\ deadline' = NextDeadline
  /\ seed' = IF deadline = 0 THEN time ELSE seed
  /\ mark' \in {[mark EXCEPT !.count = @ + 1], [from |-> time, count |-> 1]}
  /\ UNCHANGED <<time, stats, luaReady, told>>

\* The pre-render hook, renderCompute and renderFlush.
Render ==
  /\ at = "render"
  /\ at' = "post"
  /\ time' \in time .. Horizon
  /\ UNCHANGED <<deadline, pace, stats, luaReady, told, seed, mark>>

Slack == IF pace.behind THEN 0 ELSE Most(0, deadline - time)

\* on_post_render: once in a while the statistics are reported and reset; then
\* the garbage collector works until the slack is spent.
PostRender ==
  /\ at = "post"
  /\ at' = "sleep"
  /\ \/ UNCHANGED <<stats, told>>
     \/ stats' = NoStats /\ told' = Plus(told, stats)
  /\ time' \in time + (IF luaReady THEN Slack ELSE 0) .. Horizon
  /\ UNCHANGED <<deadline, pace, luaReady, seed, mark>>

\* vTaskDelay(pdMS_TO_TICKS(ms)): it ends with the last of the ticks, or later.
Sleeps == ~ pace.behind /\ deadline > time

Ticks == ((deadline - time + Milli - 1) \div Milli) \div TickMillis

Woken ==
  IF Sleeps /\ Ticks > 0
  THEN (time \div (TickMillis * Milli) + Ticks) * (TickMillis * Milli)
  ELSE time

Sleep ==
  /\ at = "sleep"
  /\ at' = "pace"
  /\ time' \in Woken .. Horizon
  /\ stats' = Plus(stats, [frames |-> 1, behind |-> IF pace.behind THEN 1 ELSE 0, dropped |-> pace.dropped])
  /\ UNCHANGED <<deadline, pace, luaReady, told, seed, mark>>

LoopNext == StartLoop \/ Pace \/ Render \/ PostRender \/ Sleep

LoopSpec == LoopInit /\ [][LoopNext]_loopVars

--------------------------------------------------------------------------------
(* Properties.                                                                 *)

(* The loop's fields.                                                          *)
LoopTypeOK ==
  /\ at \in {"off", "failed", "pace", "render", "post", "sleep"}
  /\ {time, deadline, seed} \subseteq Nat
  /\ pace \in [behind : BOOLEAN, dropped : Nat]
  /\ mark \in [from : Nat, count : Nat]
  /\ luaReady \in BOOLEAN
  /\ {stats, told} \subseteq [frames : Nat, behind : Nat, dropped : Nat]

(* A frame that overran is not made up for by a burst (render_pacing.h:59): from *)
(* any frame on, as many start as there were periods since, and one, and as many *)
(* as fit into the two system ticks by which a sleep may end too early.          *)
NoBurst ==
  at = "render" =>
    (mark.count - 1) * Period < time - mark.from + Period + 2 * TickMillis * Milli

(* The statistics account for all the time there was (render_pacing.h:42): up to *)
(* the deadline every period had its frame, was dropped, or passed because of a  *)
(* late frame, which costs more than one but less than two.                      *)
TimeIsAccounted ==
  at = "pace" /\ deadline > 0 =>
    LET all == Plus(told, stats)
    IN  /\ (all.frames + all.dropped + all.behind) * Period <= deadline - seed
        /\ deadline - seed <= (all.frames + all.dropped + 2 * all.behind) * Period
================================================================================
