-------------------------------- MODULE Hud --------------------------------
(***************************************************************************)
(* The daemon's event loop (src/src/Daemon.cpp): one thread that serves    *)
(* the bus, follows the theme, keeps the XR session alive and draws.       *)
(*                                                                         *)
(* A pass of the loop is a sequence of steps, `pc` says which is next; the *)
(* runtime, the user who switches themes, signals and the passing of time  *)
(* come between any two of them.  The clock is kept as what is left until  *)
(* the next probe and until the grace of an exit has passed.  Of the scene *)
(* this keeps which panels there are and their epochs.                     *)
(***************************************************************************)
EXTENDS Session, FiniteSets

CONSTANTS
    ProbeBase, ProbeCap,    \* reprobe_base_ms, reprobe_cap_ms, in ticks
    Grace,                  \* kExitGraceMs, in ticks
    MaxEpoch, MaxTheme      \* bounds on content changes and theme switches

ASSUME TicksAssumption ==
    /\ ProbeBase \in Nat \ {0} /\ ProbeCap \in Nat /\ Grace \in Nat
    /\ MaxEpoch \in Nat /\ MaxTheme \in Nat \ {0}
    /\ Ids \subseteq Nat \ {0}
    /\ Faults \subseteq {"begin", "upload"}

VARIABLES
    pc, state, xrEnabled,
    wait, attempt,              \* until m_nextProbeAt; m_attempt
    stopRequested, stop, exitAsked, grace,
    rendering, busState, info,  \* what the bus shows: Rendering, RuntimeState, RuntimeName
    disk, flipped, watched, reload, palette,
    epoch, nextId,              \* the scene
    framed, shown               \* whether this pass showed a frame, and which panels

loop    == <<state, xrEnabled, wait, attempt>>
stopping == <<stopRequested, stop, exitAsked, grace>>
bus     == <<rendering, busState, info>>
theme   == <<disk, flipped, watched, reload, palette>>
scene   == <<epoch, nextId>>
ghosts  == <<framed, shown>>
session == <<outside, link, textures>>
vars    == <<session, pc, loop, stopping, bus, theme, scene, ghosts>>

Larger(a, b)  == IF a >= b THEN a ELSE b
Smaller(a, b) == IF a <= b THEN a ELSE b

(* reprobeBackoffMs *)
Backoff(n) == Smaller(ProbeBase * 2 ^ n, Larger(ProbeCap, ProbeBase))

(* attempts beyond this one change nothing *)
Saturation == Larger(ProbeCap, ProbeBase)

TypeOK ==
    /\ SessionTypeOK
    /\ pc \in {"start", "watch", "process", "theme", "reload", "latch", "events",
               "lost", "render", "probe", "exit", "gone"}
    /\ state \in {"absent", "connecting", "live"} /\ xrEnabled \in BOOLEAN
    /\ wait \in 0 .. Larger(ProbeCap, ProbeBase) /\ attempt \in 0 .. Saturation
    /\ stopRequested \in BOOLEAN /\ stop \in BOOLEAN /\ exitAsked \in BOOLEAN
    /\ grace \in 0 .. Grace
    /\ rendering \in BOOLEAN /\ info \in BOOLEAN
    /\ busState \in {"absent", "connecting", "live"}
    /\ disk \in 1 .. MaxTheme /\ palette \in 0 .. MaxTheme
    /\ flipped \in BOOLEAN /\ watched \in BOOLEAN /\ reload \in BOOLEAN
    /\ DOMAIN epoch \subseteq Ids /\ \A i \in DOMAIN epoch : epoch[i] \in Nat \ {0}
    /\ nextId \in Nat \ {0}
    /\ framed \in BOOLEAN /\ shown \subseteq Ids

Init ==
    /\ SessionInit
    /\ pc = "start" /\ state = "absent" /\ xrEnabled \in BOOLEAN
    /\ wait = 0 /\ attempt = 0
    /\ stopRequested = FALSE /\ stop = FALSE /\ exitAsked = FALSE /\ grace = 0
    /\ rendering = FALSE /\ busState = "absent" /\ info = FALSE
    /\ disk = 1 /\ flipped = FALSE /\ watched = FALSE /\ reload = FALSE /\ palette = 0
    /\ epoch = << >> /\ nextId = 1
    /\ framed = FALSE /\ shown = {}

Goto(place) == pc' = place

----------------------------------------------------------------------------
(* The world around the daemon *)

XR ==
    /\ pc # "gone" /\ Runtime
    /\ UNCHANGED <<pc, loop, stopping, bus, theme, scene, ghosts>>

Tick ==
    /\ wait > 0 \/ grace > 0
    /\ wait' = Larger(wait - 1, 0) /\ grace' = Larger(grace - 1, 0)
    /\ UNCHANGED <<session, pc, state, xrEnabled, attempt, stopRequested, stop,
                   exitAsked, bus, theme, scene, ghosts>>

Signal ==
    /\ ~ stopRequested
    /\ stopRequested' = TRUE
    /\ UNCHANGED <<session, pc, loop, stop, exitAsked, grace, bus, theme, scene, ghosts>>

Flip ==      \* omarchy-theme-set
    /\ disk < MaxTheme
    /\ disk' = disk + 1
    /\ flipped' = (flipped \/ watched)
    /\ UNCHANGED <<session, pc, loop, stopping, bus, watched, reload, palette, scene, ghosts>>

----------------------------------------------------------------------------
(* run, before the loop *)

Start ==      \* the palette and the first state
    /\ pc = "start"
    /\ palette' = disk
    /\ Goto("watch")
    /\ UNCHANGED <<session, loop, stopping, bus, disk, flipped, watched, reload, scene, ghosts>>

Watch ==      \* the theme watch, and what the bus is told
    /\ pc = "watch"
    /\ watched' \in {FALSE, xrEnabled}
    /\ state' = IF xrEnabled THEN "connecting" ELSE "absent"
    /\ busState' = state'
    /\ Goto("process")
    /\ UNCHANGED <<session, xrEnabled, wait, attempt, stopping, rendering, info,
                   disk, flipped, reload, palette, scene, ghosts>>

----------------------------------------------------------------------------
(* A pass: the bus, stdin and the reaper; the theme; the stop latch *)

(* One method call, line or expiry that changes what can be shown: the     *)
(* calls come before the theme, the lines and the expiries after it.       *)
Serve ==
    /\ pc \in {"process", "latch"}
    /\ \/ /\ nextId \in Ids
          /\ epoch' = [i \in DOMAIN epoch \cup {nextId} |-> IF i = nextId THEN 1 ELSE epoch[i]]
          /\ nextId' = nextId + 1
       \/ \E i \in DOMAIN epoch :
             /\ epoch[i] < MaxEpoch
             /\ epoch' = [epoch EXCEPT ![i] = @ + 1]
             /\ UNCHANGED nextId
       \/ \E i \in DOMAIN epoch :
             /\ epoch' = [j \in DOMAIN epoch \ {i} |-> epoch[j]]
             /\ UNCHANGED nextId
    /\ UNCHANGED <<session, pc, loop, stopping, bus, theme, ghosts>>

Served ==
    /\ pc = "process"
    /\ Goto("theme")
    /\ UNCHANGED <<session, loop, stopping, bus, theme, scene, ghosts>>

MutNews == flipped /\ state = "live"      \* no session, nothing to recolour

News == flipped

(* drain, then reloadPalette *)
Drain ==
    /\ pc = "theme"
    /\ flipped' = FALSE
    /\ reload' = News
    /\ Goto("reload")
    /\ UNCHANGED <<session, loop, stopping, bus, disk, watched, palette, scene, ghosts>>

Redrawn == [i \in DOMAIN epoch |-> epoch[i] + 1]      \* forceRedrawAll

Reload ==
    /\ pc = "reload"
    /\ IF reload
       THEN palette' = disk /\ colours' = disk /\ epoch' = Redrawn
       ELSE UNCHANGED <<palette, colours, epoch>>
    /\ reload' = FALSE
    /\ Goto("latch")
    /\ UNCHANGED <<outside, link, gpu, loop, stopping, bus, disk, flipped, watched, nextId, ghosts>>

MutWinding == FALSE      \* asks for the exit again in every pass

Winding == exitAsked      \* the clean exit has been asked for

Latch ==
    /\ pc = "latch"
    /\ stop' = (stop \/ stopRequested)
    /\ framed' = FALSE /\ shown' = {}
    /\ \/ /\ stop' /\ ~ Winding /\ state = "live" /\ running
          /\ RequestExit
          /\ exitAsked' = TRUE /\ grace' = Grace
          /\ Goto("events")
          /\ UNCHANGED rendering
       \/ /\ stop' /\ ~ Winding /\ ~ (state = "live" /\ running)
          /\ Goto("exit")
          /\ UNCHANGED <<server, events, exitAsked, grace, rendering>>
       \/ /\ ~ stop' \/ Winding
          /\ state = "live"
          /\ Goto("events")
          /\ UNCHANGED <<server, events, exitAsked, grace, rendering>>
       \/ /\ ~ stop' /\ state # "live"
          /\ rendering' = (rendering /\ ~ xrEnabled)
          /\ Goto(IF xrEnabled /\ wait = 0 THEN "probe" ELSE "process")
          /\ UNCHANGED <<server, events, exitAsked, grace>>
    /\ UNCHANGED <<outside, alive, handles, running, lost, textures, loop,
                   stopRequested, busState, info, theme, scene>>

----------------------------------------------------------------------------
(* The rest of a pass: with a session, or without one *)

Event ==
    /\ pc = "events"
    /\ PollEvent
    /\ UNCHANGED <<outside, pc, loop, stopping, bus, theme, scene, ghosts>>

MutNoLonger == rendering      \* leaves the bus property as it was

NoLonger == FALSE

(* pollEvents returns *)
Pumped ==
    /\ pc = "events"
    /\ Polled
    /\ Goto(IF ~ lost' THEN "render" ELSE IF stop THEN "exit" ELSE "lost")
    /\ UNCHANGED <<outside, server, events, alive, handles, running, textures,
                   loop, stopping, bus, theme, scene, ghosts>>

SessionLost ==      \* onSessionLost
    /\ pc = "lost"
    /\ Teardown
    /\ rendering' = NoLonger /\ info' = FALSE
    /\ attempt' = 0 /\ wait' = ProbeBase
    /\ state' = "connecting" /\ busState' = "connecting"
    /\ Goto("process")
    /\ UNCHANGED <<outside, xrEnabled, stopping, theme, scene, ghosts>>

Render ==
    /\ pc = "render"
    /\ \/ /\ running /\ ~ stop
          /\ \E quads \in SUBSET DOMAIN epoch :
                \/ /\ FrameShown(epoch, quads)
                   /\ framed' = TRUE /\ shown' = quads /\ rendering' = TRUE
                \/ /\ FrameFails(epoch, quads)
                   /\ rendering' = FALSE
                   /\ UNCHANGED ghosts
       \/ /\ ~ (running /\ ~ stop)
          /\ rendering' = FALSE
          /\ UNCHANGED <<gpu, lost, ghosts>>
    /\ Goto(IF stop /\ exitAsked /\ grace = 0 THEN "exit" ELSE "process")
    /\ UNCHANGED <<outside, server, events, alive, handles, running, colours,
                   loop, stopping, busState, info, theme, scene>>

MutRepaint == colours      \* counts on the session to remember

Repaint == palette

Probe ==      \* tryBringUp
    /\ pc = "probe"
    /\ \/ /\ BringUpSucceeds
          /\ colours' = Repaint
          /\ attempt' = 0 /\ UNCHANGED wait
          /\ state' = "live" /\ busState' = "live" /\ info' = TRUE
       \/ /\ \/ BringUpFails("NoHeadset") /\ attempt' = 0 /\ wait' = ProbeBase
             \/ /\ BringUpFails("NoRuntime")
                /\ attempt' = Smaller(attempt + 1, Saturation)
                /\ wait' = Backoff(attempt)
          /\ state' = "connecting" /\ busState' = "connecting"
          /\ UNCHANGED <<colours, info>>
    /\ Goto("process")
    /\ UNCHANGED <<outside, xrEnabled, stopping, rendering, theme, scene, ghosts>>

Exit ==
    /\ pc = "exit"
    /\ Teardown
    /\ rendering' = FALSE
    /\ watched' = FALSE /\ flipped' = FALSE
    /\ framed' = FALSE /\ shown' = {}
    /\ Goto("gone")
    /\ UNCHANGED <<outside, loop, stopping, busState, info, disk, reload, palette, scene>>

Loop ==
    \/ Start \/ Watch \/ Served \/ Drain \/ Reload \/ Latch
    \/ Event \/ Pumped \/ SessionLost \/ Render \/ Probe \/ Exit

Next == Loop \/ Serve \/ XR \/ Tick \/ Signal \/ Flip

(* The loop never blocks for long: poll() wakes it at least once a second, *)
(* and the runtime's calls return.  The runtime does not hand out events   *)
(* faster than pollEvents takes them, it makes a session that waits ready, *)
(* and confirms an exit.                                                   *)
Fairness ==
    /\ WF_vars(Loop) /\ SF_vars(Pumped) /\ WF_vars(Tick)
    /\ WF_vars(XR /\ MakeReady) /\ WF_vars(XR /\ Leave)

Spec == Init /\ [][Next]_vars /\ Fairness

----------------------------------------------------------------------------
(* Properties *)

(* Whenever clients are served, the bus tells how things are: Rendering    *)
(* says that the last pass showed a frame, RuntimeState and RuntimeName    *)
(* whether there is a session, through losses, reconnections and exits.    *)
BusTellsTruth ==
    pc = "process" =>
        /\ rendering = framed
        /\ busState = state
        /\ info = (state = "live")

(* However a bring-up fails or a session ends, nothing of it is left: one  *)
(* instance at most, and none without a live session or after the exit.    *)
NothingLeaks ==
    /\ alive = (IF "instance" \in handles THEN 1 ELSE 0)
    /\ (pc \in {"process", "theme", "reload", "latch", "probe"} /\ state # "live") \/ pc = "gone" =>
          handles = {} /\ DOMAIN gpu = {}

(* The frame shows every panel as it is in the scene, in the colours of    *)
(* the current palette, also on a session that has just come back ("this   *)
(* class MIRRORS the scene into GPU swapchains", Session.hpp:39).          *)
ShowsCurrent ==
    [][pc = "render" /\ framed' =>
          \A i \in shown' : gpu'[i].image = [epoch |-> epoch[i], palette |-> palette]]_vars

(* A daemon that is asked to stop stops, be the runtime dead or silent.    *)
StopEnds == stopRequested ~> pc = "gone"

(* Once the runtime is up and gives no trouble, frames are shown again     *)
(* ("kill/restart the runtime -> panels survive the gap and reappear",     *)
(* README.md:417).                                                         *)
Reappears == calm /\ xrEnabled ~> framed \/ stopRequested

(* A theme switch that the watch has reported reaches the palette.         *)
FlipsReachPalette == flipped ~> palette = disk \/ stopRequested
=============================================================================
