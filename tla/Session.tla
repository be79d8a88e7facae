------------------------------ MODULE Session ------------------------------
(***************************************************************************)
(* The OpenXR overlay session (src/src/Session.cpp): its handles, the      *)
(* session state machine driven by the runtime's events, and the GPU copy  *)
(* of the scene, which a frame brings up to date panel by panel.           *)
(*                                                                         *)
(* The runtime is another process.  It may be absent, present without a    *)
(* headset, or refuse an overlay; it may die under a session, and every    *)
(* call on that session then reports the loss.  `calm` says that from now  *)
(* on the runtime is up and gives no trouble.                              *)
(***************************************************************************)
EXTENDS Integers, Sequences

CONSTANTS
    Ids,        \* panel ids
    Faults      \* the calls that may fail one by one: "begin", "upload"

VARIABLES
    runtime,    \* what xrCreateInstance and xrGetSystem meet
    calm,
    server,     \* the session as the runtime has it
    events,     \* events of the session that the daemon has not polled
    alive,      \* instances the runtime holds for this daemon
    handles,    \* the handles that are not XR_NULL_HANDLE
    running,    \* m_sessionRunning
    lost,       \* m_lost
    gpu,        \* m_gpu: per panel the uploaded epoch and the image shown
    colours     \* the session's m_palette

outside == <<runtime, calm>>
link    == <<server, events, alive, handles, running, lost>>
textures == <<gpu, colours>>

Blank == [epoch |-> 0, palette |-> 0]      \* an image that never was uploaded

SessionTypeOK ==
    /\ runtime \in {"down", "undonned", "refusing", "up"}
    /\ calm \in BOOLEAN
    /\ server \in {"none", "idle", "ready", "running", "stopping", "leaving", "over", "left", "dead"}
    /\ events \in Seq({"ready", "stopping", "exiting", "loss"})
    /\ alive \in Nat
    /\ handles \subseteq {"instance", "session", "view", "local"}
    /\ running \in BOOLEAN /\ lost \in BOOLEAN
    /\ DOMAIN gpu \subseteq Ids
    /\ \A i \in DOMAIN gpu : gpu[i] \in [uploaded : Nat, image : [epoch : Nat, palette : Nat]]
    /\ colours \in Nat

SessionInit ==
    /\ runtime \in {"down", "undonned", "refusing", "up"} /\ calm = FALSE
    /\ server = "none" /\ events = << >> /\ alive = 0
    /\ handles = {} /\ running = FALSE /\ lost = FALSE
    /\ gpu = << >> /\ colours = 0

----------------------------------------------------------------------------
(* The runtime *)

Calm ==
    /\ ~ calm /\ runtime = "up"
    /\ calm' = TRUE
    /\ UNCHANGED <<runtime, link, textures>>

(* It goes, comes, or is found without a headset.  A session does not      *)
(* outlive the server that held it.                                        *)
Turn ==
    /\ ~ calm
    /\ runtime' \in {"down", "undonned", "refusing", "up"} \ {runtime}
    /\ server' = IF server # "none" /\ runtime' = "down" THEN "dead" ELSE server
    /\ UNCHANGED <<calm, events, alive, handles, running, lost, textures>>

Tells(event, state) ==
    /\ events' = Append(events, event)
    /\ server' = state
    /\ UNCHANGED <<outside, alive, handles, running, lost, textures>>

MakeReady == server = "idle" /\ Tells("ready", "ready")
Doff      == ~ calm /\ server = "running" /\ Tells("stopping", "stopping")
Leave     == server = "over" /\ Tells("exiting", "left")
Lose      == ~ calm /\ server \in {"idle", "ready", "running"} /\ Tells("loss", "left")

Runtime == Calm \/ Turn \/ MakeReady \/ Doff \/ Leave \/ Lose

----------------------------------------------------------------------------
(* bringUp and teardown *)

Discard == server' = "none" /\ events' = << >> /\ running' = FALSE

Teardown ==
    /\ Discard
    /\ handles' = {} /\ gpu' = << >>
    /\ alive' = IF "instance" \in handles THEN alive - 1 ELSE alive
    /\ UNCHANGED <<lost, colours>>

Base == {"instance", "session", "view"}

MutCleanUp(got) == got      \* forgets to tear a failed bring-up down

CleanUp(got) == {}

(* What a bring-up may have got when it fails, and its result: any stage   *)
(* fails if the runtime dies under it.                                     *)
Failures ==
    CASE runtime = "down"     -> {[got |-> {}, result |-> "NoRuntime"]}
      [] runtime = "undonned" -> {[got |-> {"instance"}, result |-> "NoHeadset"]}
      [] OTHER -> {[got |-> h, result |-> "NoRuntime"] :
                      h \in {{}, {"instance"}, {"instance", "session"}}}

BringUpFails(result) ==
    \E f \in Failures :
       /\ runtime # "up"
       /\ result = f.result
       /\ handles' = CleanUp(f.got)
       /\ alive' = IF "instance" \in f.got /\ CleanUp(f.got) # {} THEN alive + 1 ELSE alive
       /\ Discard
       /\ lost' = FALSE /\ gpu' = << >>

BringUpSucceeds ==
    /\ runtime = "up"
    /\ handles' \in {Base, Base \cup {"local"}}
    /\ alive' = alive + 1
    /\ server' = "idle" /\ events' = << >>
    /\ running' = FALSE /\ lost' = FALSE
    /\ UNCHANGED gpu

----------------------------------------------------------------------------
(* pollEvents, one event at a time; requestExit *)

Begin(succeeds) ==      \* xrBeginSession
    /\ running' = (running \/ succeeds)
    /\ server' = IF succeeds THEN "running" ELSE server
    /\ lost' = lost

Ended ==      \* xrEndSession
    /\ running' = FALSE
    /\ server' = CASE server = "stopping" -> "idle"
                   [] server = "leaving"  -> "over"
                   [] OTHER               -> server
    /\ lost' = lost

MutLoss == {"exiting"}      \* takes LOSS_PENDING for a state like any other

Loss == {"exiting", "loss"}

PollEvent ==
    /\ events # << >> /\ server # "dead"
    /\ events' = Tail(events)
    /\ \/ Head(events) = "ready" /\ server = "ready" /\ Begin(TRUE)
       \/ Head(events) = "ready" /\ (("begin" \in Faults /\ ~ calm) \/ server # "ready") /\ Begin(FALSE)
       \/ Head(events) = "stopping" /\ Ended
       \/ Head(events) \in Loss /\ lost' = TRUE /\ UNCHANGED <<server, running>>
       \/ Head(events) \in {"exiting", "loss"} \ Loss /\ UNCHANGED <<server, running, lost>>
    /\ UNCHANGED <<alive, handles, gpu, colours>>

(* xrPollEvent has nothing more, or reports the loss *)
Polled ==
    /\ events = << >> \/ server = "dead"
    /\ lost' = (lost \/ server = "dead")

RequestExit ==
    IF server = "running"
    THEN server' = "leaving" /\ events' = Append(events, "stopping")
    ELSE UNCHANGED <<server, events>>

----------------------------------------------------------------------------
(* renderFrame *)

(* reconcileGpu and ensureGpu: swapchains of vanished panels go, panels in *)
(* `ready` have one                                                        *)
Ensure(epoch, ready) == [i \in (DOMAIN gpu \cap DOMAIN epoch) \cup ready |->
    IF i \in DOMAIN gpu THEN gpu[i] ELSE [uploaded |-> 0, image |-> Blank]]

MutFresh(g, epoch) == g.uploaded # 0      \* uploads a panel only once

Fresh(g, epoch) == g.uploaded = epoch

(* Upload-on-change.  The epoch is noted even when uploadPanel fails.      *)
Upload(g, epoch, fails) ==
    IF Fresh(g, epoch) THEN g
    ELSE [uploaded |-> epoch,
          image |-> IF fails THEN g.image ELSE [epoch |-> epoch, palette |-> colours]]

(* The panels in `quads` are submitted; the upload of those in `failed`    *)
(* fails.                                                                  *)
Draw(epoch, quads, failed) ==
    LET g == Ensure(epoch, quads)
    IN  gpu' = [i \in DOMAIN g |->
                   IF i \in quads THEN Upload(g[i], epoch[i], i \in failed) ELSE g[i]]

FailedUploads(quads) == IF "upload" \in Faults THEN SUBSET quads ELSE {{}}

(* A frame that is shown: `epoch` gives the scene's panels, `quads` those  *)
(* that submitOrder lists and ensureGpu has a swapchain for.  The runtime  *)
(* takes no layer whose swapchain never had an image.                      *)
FrameShown(epoch, quads) ==
    /\ server \in {"running", "stopping", "leaving"}
    /\ \E failed \in FailedUploads(quads) : Draw(epoch, quads, failed)
    /\ \A i \in quads : gpu'[i].image # Blank
    /\ UNCHANGED lost

(* A frame that is not: a call fails, shouldRender is false, or the        *)
(* session is lost before or after the panels were drawn.                  *)
FrameFails(epoch, visible) ==
    /\ ~ calm \/ server \notin {"running", "stopping", "leaving"}
    /\ \/ UNCHANGED gpu
       \/ \E failed \in FailedUploads(visible) : Draw(epoch, visible, failed)
    /\ lost' = (lost \/ server = "dead")
=============================================================================
