----------------------------- MODULE HudProofs -----------------------------
(***************************************************************************)
(* Proofs about Hud, for any number of panels, any backoff and grace, and  *)
(* no bound on content changes and theme switches but the constants'.      *)
(***************************************************************************)
EXTENDS Hud, TLAPS

(* What holds between two steps of a pass, in four parts *)

(* Where the loop is tells what state the daemon is in. *)
Located ==
    /\ state \in {"absent", "connecting", "live"}
    /\ xrEnabled \in BOOLEAN /\ rendering \in BOOLEAN /\ framed \in BOOLEAN
    /\ pc \in {"start", "watch", "process", "theme", "reload", "latch", "events",
               "lost", "render", "probe", "exit", "gone"}
    /\ pc \in {"start", "watch"} => state = "absent"
    /\ pc \in {"events", "lost", "render"} => state = "live"
    /\ pc = "probe" => state # "live" /\ xrEnabled
    /\ ~ xrEnabled => state = "absent" /\ ~ rendering

(* The bus is up to date wherever it can be asked, and a pass that has not *)
(* come to its frame has none to its name.                                 *)
Told ==
    /\ busState = state
    /\ info = (state = "live")
    /\ pc \in {"events", "lost", "render", "probe"} => ~ framed
    /\ pc \in {"start", "watch", "process", "theme", "reload", "latch", "probe"} =>
          rendering = framed

(* The handles are those of the live session. *)
Owned ==
    /\ alive = (IF "instance" \in handles THEN 1 ELSE 0)
    /\ state # "live" \/ pc = "gone" => handles = {} /\ DOMAIN gpu = {}

(* A texture that is taken for current is: no id comes back, no epoch goes *)
(* down, and a new palette moves every epoch past what was uploaded.       *)
Current(g, i) ==
    /\ g.uploaded \in Nat /\ g.uploaded <= epoch[i]
    /\ g.uploaded = epoch[i] => g.image = [epoch |-> epoch[i], palette |-> palette]

Mirrored ==
    /\ nextId \in Nat \ {0}
    /\ DOMAIN epoch \subseteq 1 .. nextId - 1
    /\ DOMAIN gpu \subseteq 1 .. nextId - 1
    /\ \A i \in DOMAIN epoch : epoch[i] \in Nat \ {0}
    /\ \A i \in DOMAIN gpu \cap DOMAIN epoch : Current(gpu[i], i)
    /\ state = "live" => colours = palette

IInv == Located /\ Told /\ Owned

UploadsSucceed == "upload" \notin Faults

----------------------------------------------------------------------------
(* Steps that leave the loop's state alone *)

(* Located, Told and Owned are about these variables only. *)
seen == <<state, xrEnabled, rendering, framed, pc, busState, info, alive, handles, gpu>>

(* IInv reads only what `seen` lists.                                      *)
LEMMA Unseen ==
    ASSUME IInv, UNCHANGED seen
    PROVE  IInv'
BY DEF IInv, Located, Told, Owned, seen

----------------------------------------------------------------------------
(* Every step keeps Located, Told and Owned. *)

(* Before the first step the daemon owns and shows nothing.                *)
LEMMA InitHolds == Init => IInv
<1> SUFFICES ASSUME Init PROVE IInv
  OBVIOUS
<1>1. Located
  BY DEF Init, Located
<1>2. Told
  BY DEF Init, Told
<1>3. Owned
  BY DEF Init, SessionInit, Owned
<1>4. QED
  BY <1>1, <1>2, <1>3 DEF IInv

(* The frame is latched: only what is to be rendered changes.              *)
LEMMA LatchKeeps ==
    ASSUME IInv, Latch
    PROVE  IInv'
<1> USE DEF IInv
<1>0. /\ UNCHANGED <<alive, handles, gpu, state, xrEnabled, busState, info>>
      /\ framed' = FALSE
  BY DEF Latch, textures, loop
<1>1. pc = "latch" /\ rendering' \in BOOLEAN
  BY DEF Latch, Located
<1>2. \/ state = "live" /\ pc' = "events"
      \/ pc' = "exit"
      \/ /\ state # "live" /\ rendering' = (rendering /\ ~ xrEnabled)
         /\ pc' = (IF xrEnabled /\ wait = 0 THEN "probe" ELSE "process")
  BY DEF Latch, Goto
<1>3. rendering' => rendering
  BY DEF Latch
<1>4. Located'
  BY <1>0, <1>1, <1>2, <1>3 DEF Located
<1>5. Told'
  BY <1>0, <1>1, <1>2 DEF Located, Told
<1>6. Owned'
  BY <1>0, <1>1, <1>2 DEF Owned
<1>7. QED
  BY <1>4, <1>5, <1>6

(* Rendering uploads into textures that it owns, or into none.             *)
LEMMA RenderKeeps ==
    ASSUME IInv, Render
    PROVE  IInv'
<1> USE DEF IInv
<1>0. /\ UNCHANGED <<alive, handles, state, xrEnabled, busState, info>>
      /\ pc = "render" /\ pc' \in {"exit", "process"}
      /\ rendering' = framed'
      /\ rendering' \in BOOLEAN
  BY DEF Render, Goto, loop, ghosts, Located, Told
<1>1. state = "live" /\ xrEnabled
  BY <1>0 DEF Located
<1>2. Located'
  BY <1>0, <1>1 DEF Located
<1>3. Told'
  BY <1>0, <1>1 DEF Told
<1>4. Owned'
  BY <1>0, <1>1 DEF Owned
<1>5. QED
  BY <1>2, <1>3, <1>4

(* A probe builds the session from nothing, or leaves nothing behind.      *)
LEMMA ProbeKeeps ==
    ASSUME IInv, Probe
    PROVE  IInv'
<1> USE DEF IInv
<1>0. /\ UNCHANGED <<xrEnabled, rendering, framed>>
      /\ pc = "probe" /\ pc' = "process"
  BY DEF Probe, Goto, ghosts
<1>1. state # "live" /\ xrEnabled /\ handles = {} /\ DOMAIN gpu = {} /\ alive = 0
  BY <1>0 DEF Located, Owned
<1>2. CASE BringUpSucceeds /\ state' = "live" /\ busState' = "live" /\ info' = TRUE
  <2>1. "instance" \in handles' /\ alive' = 1
    BY <1>1, <1>2 DEF BringUpSucceeds, Base
  <2>2. Located' /\ Told'
    BY <1>0, <1>1, <1>2 DEF Located, Told
  <2>3. Owned'
    BY <1>0, <1>2, <2>1 DEF Owned
  <2>4. QED
    BY <2>2, <2>3
<1>3. CASE /\ BringUpFails("NoHeadset") \/ BringUpFails("NoRuntime")
           /\ state' = "connecting" /\ busState' = "connecting" /\ UNCHANGED info
  <2>1. handles' = {} /\ alive' = alive /\ DOMAIN gpu' = {}
    BY <1>3 DEF BringUpFails, CleanUp
  <2>2. Located' /\ Told'
    BY <1>0, <1>1, <1>3 DEF Located, Told
  <2>3. Owned'
    BY <1>0, <1>1, <2>1 DEF Owned
  <2>4. QED
    BY <2>2, <2>3
<1>4. QED
  BY <1>2, <1>3 DEF Probe

(* Tearing the session down gives back whatever it owns.                   *)
LEMMA TeardownFrees ==
    ASSUME Owned, Teardown
    PROVE  handles' = {} /\ DOMAIN gpu' = {} /\ alive' = 0
BY DEF Owned, Teardown

(* IInv survives every step of the loop, the bus, the runtime and the      *)
(* theme.                                                                  *)
LEMMA StepKeeps ==
    ASSUME IInv, Next
    PROVE  IInv'
<1> USE DEF IInv
<1>1. CASE Start
  BY <1>1 DEF Start, Goto, link, textures, session, loop, bus, ghosts, Located, Told, Owned
<1>2. CASE Watch
  BY <1>2 DEF Watch, Goto, session, link, textures, ghosts, Located, Told, Owned
<1>3. CASE Served
  BY <1>3 DEF Served, Goto, session, link, textures, loop, bus, ghosts, Located, Told, Owned
<1>4. CASE Drain
  BY <1>4 DEF Drain, Goto, session, link, textures, loop, bus, ghosts, Located, Told, Owned
<1>5. CASE Reload
  BY <1>5 DEF Reload, Goto, link, loop, bus, ghosts, Located, Told, Owned
<1>6. CASE Latch
  BY <1>6, LatchKeeps
<1>7. CASE Event
  BY <1>7, Unseen DEF Event, PollEvent, loop, bus, ghosts, seen
<1>8. CASE Pumped
  BY <1>8 DEF Pumped, Goto, textures, loop, bus, ghosts, Located, Told, Owned
<1>9. CASE SessionLost
  <2>1. handles' = {} /\ DOMAIN gpu' = {} /\ alive' = 0
    BY <1>9, TeardownFrees DEF SessionLost
  <2>2. Located' /\ Told'
    BY <1>9 DEF SessionLost, NoLonger, Goto, ghosts, Located, Told
  <2>3. Owned'
    BY <2>1 DEF Owned
  <2>4. QED
    BY <2>2, <2>3
<1>10. CASE Render
  BY <1>10, RenderKeeps
<1>11. CASE Probe
  BY <1>11, ProbeKeeps
<1>12. CASE Exit
  <2>1. handles' = {} /\ DOMAIN gpu' = {} /\ alive' = 0
    BY <1>12, TeardownFrees DEF Exit
  <2>2. Located' /\ Told'
    BY <1>12 DEF Exit, Goto, loop, Located, Told
  <2>3. Owned'
    BY <2>1 DEF Owned
  <2>4. QED
    BY <2>2, <2>3
<1>13. CASE Serve
  BY <1>13, Unseen DEF Serve, session, link, textures, loop, bus, ghosts, seen
<1>14. CASE XR
  <2>1. UNCHANGED <<alive, handles, gpu>>
    BY <1>14 DEF XR, Runtime, Calm, Turn, MakeReady, Doff, Leave, Lose, Tells, link, textures
  <2>2. QED
    BY <1>14, <2>1, Unseen DEF XR, loop, bus, ghosts, seen
<1>15. CASE Tick
  BY <1>15, Unseen DEF Tick, session, link, textures, bus, ghosts, seen
<1>16. CASE Signal
  BY <1>16, Unseen DEF Signal, session, link, textures, loop, bus, ghosts, seen
<1>17. CASE Flip
  BY <1>17, Unseen DEF Flip, session, link, textures, loop, bus, ghosts, seen
<1>18. QED
  BY <1>1, <1>2, <1>3, <1>4, <1>5, <1>6, <1>7, <1>8, <1>9, <1>10, <1>11, <1>12,
     <1>13, <1>14, <1>15, <1>16, <1>17 DEF Next, Loop

(* The invariant holds throughout.                                         *)
LEMMA Invariance == Spec => []IInv
<1>1. IInv /\ UNCHANGED vars => IInv'
  BY Unseen DEF vars, session, link, textures, loop, bus, ghosts, seen
<1>2. IInv /\ [Next]_vars => IInv'
  BY <1>1, StepKeeps
<1>3. QED
  BY <1>2, InitHolds, PTL DEF Spec

(* Whatever the runtime does and however long the daemon runs, a client    *)
(* that asks is told how things are.                                       *)
THEOREM BusTruthful == Spec => []BusTellsTruth
<1>1. IInv => BusTellsTruth
  BY DEF IInv, Told, BusTellsTruth
<1>2. QED
  BY <1>1, Invariance, PTL

(* No failed bring-up, lost session or exit leaves an instance, a handle   *)
(* or a texture behind.                                                    *)
THEOREM LeakFree == Spec => []NothingLeaks
<1>1. IInv => NothingLeaks
  BY DEF IInv, Owned, NothingLeaks
<1>2. QED
  BY <1>1, Invariance, PTL

----------------------------------------------------------------------------
(* What is drawn *)

(* A frame that draws leaves every texture current, and those of its quads *)
(* show the panels as they are.                                            *)
LEMMA DrawMirrors ==
    ASSUME Mirrored, colours = palette,
           NEW quads \in SUBSET DOMAIN epoch, Draw(epoch, quads, {})
    PROVE  /\ DOMAIN gpu' \subseteq 1 .. nextId - 1
           /\ \A i \in DOMAIN gpu' \cap DOMAIN epoch : Current(gpu'[i], i)
           /\ \A i \in quads : gpu'[i].image = [epoch |-> epoch[i], palette |-> palette]
<1> DEFINE g == Ensure(epoch, quads)
<1>1. /\ DOMAIN g = (DOMAIN gpu \cap DOMAIN epoch) \cup quads
      /\ \A i \in DOMAIN g :
            g[i] = IF i \in DOMAIN gpu THEN gpu[i] ELSE [uploaded |-> 0, image |-> Blank]
  BY DEF Ensure
<1>2. /\ DOMAIN gpu' = DOMAIN g
      /\ \A i \in DOMAIN g :
            gpu'[i] = IF i \in quads THEN Upload(g[i], epoch[i], i \in {}) ELSE g[i]
  BY DEF Draw
<1>3. DOMAIN gpu' \subseteq DOMAIN epoch
  BY <1>1, <1>2
<1>4. ASSUME NEW i \in DOMAIN epoch, i \in DOMAIN g
      PROVE  Current(g[i], i)
  <2>1. epoch[i] \in Nat \ {0}
    BY DEF Mirrored
  <2>2. CASE i \in DOMAIN gpu
    BY <1>1, <1>4, <2>2 DEF Mirrored
  <2>3. CASE i \notin DOMAIN gpu
    BY <1>1, <1>4, <2>1, <2>3 DEF Current
  <2>4. QED
    BY <2>2, <2>3
<1>5. ASSUME NEW i \in quads
      PROVE  /\ Current(gpu'[i], i)
             /\ gpu'[i].image = [epoch |-> epoch[i], palette |-> palette]
  <2>1. epoch[i] \in Nat \ {0}
    BY DEF Mirrored
  <2>2. i \in DOMAIN g /\ gpu'[i] = Upload(g[i], epoch[i], i \in {})
    BY <1>1, <1>2
  <2>3. CASE Fresh(g[i], epoch[i])
    BY <1>4, <2>2, <2>3 DEF Upload, Fresh, Current
  <2>4. CASE ~ Fresh(g[i], epoch[i])
    BY <2>1, <2>2, <2>4 DEF Upload, Current
  <2>5. QED
    BY <2>3, <2>4
<1>6. \A i \in DOMAIN gpu' \cap DOMAIN epoch : Current(gpu'[i], i)
  BY <1>1, <1>2, <1>4, <1>5
<1>7. QED
  BY <1>3, <1>5, <1>6 DEF Mirrored

(* Mirrored is about these variables only. *)
pictured == <<nextId, epoch, gpu, palette, colours, state>>

(* Mirrored reads only what `pictured` lists.                              *)
LEMMA NotPictured ==
    ASSUME Mirrored, UNCHANGED pictured
    PROVE  Mirrored'
BY DEF Mirrored, Current, pictured

(* Before the first step nothing is uploaded.                              *)
LEMMA MirroredInit == Init => Mirrored
BY DEF Init, SessionInit, Mirrored

(* New palette, new epochs: nothing that was uploaded is current.          *)
LEMMA ReloadMirrors ==
    ASSUME Mirrored, Reload
    PROVE  Mirrored'
<1>1. UNCHANGED <<nextId, gpu, state>>
  BY DEF Reload, loop
<1>2. CASE reload
  <2>1. palette' = disk /\ colours' = disk
    BY <1>2 DEF Reload
  <2>2. /\ DOMAIN epoch' = DOMAIN epoch
        /\ \A i \in DOMAIN epoch : epoch'[i] = epoch[i] + 1
    BY <1>2 DEF Reload, Redrawn
  <2>3. \A i \in DOMAIN epoch : epoch'[i] \in Nat \ {0} /\ epoch'[i] > epoch[i]
    BY <2>2 DEF Mirrored
  <2>4. ASSUME NEW i \in DOMAIN gpu \cap DOMAIN epoch
        PROVE  /\ gpu[i].uploaded \in Nat /\ gpu[i].uploaded <= epoch'[i]
               /\ gpu[i].uploaded # epoch'[i]
    <3>1. Current(gpu[i], i) /\ epoch[i] \in Nat
      BY DEF Mirrored
    <3>2. QED
      BY <2>3, <3>1 DEF Current
  <2>5. QED
    BY <1>1, <2>1, <2>2, <2>3, <2>4 DEF Mirrored, Current
<1>3. CASE ~ reload
  BY <1>1, <1>3, NotPictured DEF Reload, pictured
<1>4. QED
  BY <1>2, <1>3

(* A call of a client gives a panel a new epoch whenever it changes what   *)
(* the panel shows.                                                        *)
LEMMA ServeMirrors ==
    ASSUME Mirrored, Serve
    PROVE  Mirrored'
<1>0. UNCHANGED <<gpu, palette, colours, state>>
  BY DEF Serve, session, textures, theme, loop
<1>1. CASE /\ epoch' = [i \in DOMAIN epoch \cup {nextId} |->
                           IF i = nextId THEN 1 ELSE epoch[i]]
           /\ nextId' = nextId + 1
  <2>1. /\ DOMAIN epoch' = DOMAIN epoch \cup {nextId}
        /\ epoch'[nextId] = 1
        /\ \A i \in DOMAIN epoch : epoch'[i] = epoch[i]
    BY <1>1 DEF Mirrored
  <2>2. nextId \notin DOMAIN gpu
    BY DEF Mirrored
  <2>3. ASSUME NEW j \in DOMAIN gpu' \cap DOMAIN epoch'
        PROVE  Current(gpu[j], j) /\ epoch'[j] = epoch[j]
    BY <1>0, <2>1, <2>2, <2>3 DEF Mirrored
  <2>4. /\ nextId' \in Nat \ {0} /\ nextId' - 1 = nextId
        /\ 1 .. nextId - 1 \subseteq 1 .. nextId' - 1 /\ nextId \in 1 .. nextId' - 1
    BY <1>1 DEF Mirrored
  <2>5. \A j \in DOMAIN gpu' \cap DOMAIN epoch' : Current(gpu[j], j)'
    BY <1>0, <2>3 DEF Current
  <2>6. \A i \in DOMAIN epoch' : epoch'[i] \in Nat \ {0}
    BY <2>1 DEF Mirrored
  <2>7. DOMAIN epoch' \subseteq 1 .. nextId' - 1 /\ DOMAIN gpu' \subseteq 1 .. nextId' - 1
    BY <1>0, <2>1, <2>4 DEF Mirrored
  <2>8. QED
    BY <1>0, <2>4, <2>5, <2>6, <2>7 DEF Mirrored
<1>2. CASE \E i \in DOMAIN epoch : epoch' = [epoch EXCEPT ![i] = @ + 1] /\ UNCHANGED nextId
  <2>1. PICK i \in DOMAIN epoch : epoch' = [epoch EXCEPT ![i] = @ + 1]
    BY <1>2
  <2>2. /\ DOMAIN epoch' = DOMAIN epoch
        /\ epoch'[i] = epoch[i] + 1
        /\ \A j \in DOMAIN epoch \ {i} : epoch'[j] = epoch[j]
    BY <2>1
  <2>3. ASSUME NEW j \in DOMAIN gpu \cap DOMAIN epoch
        PROVE  /\ gpu[j].uploaded \in Nat /\ gpu[j].uploaded <= epoch'[j]
               /\ gpu[j].uploaded = epoch'[j] =>
                     gpu[j].image = [epoch |-> epoch'[j], palette |-> palette]
    <3>1. Current(gpu[j], j) /\ epoch[j] \in Nat
      BY DEF Mirrored
    <3>2. CASE j = i
      BY <2>2, <3>1, <3>2 DEF Current
    <3>3. CASE j # i
      BY <2>2, <3>1, <3>3 DEF Current
    <3>4. QED
      BY <3>2, <3>3
  <2>4. QED
    BY <1>0, <1>2, <2>2, <2>3 DEF Mirrored, Current
<1>3. CASE /\ \E i \in DOMAIN epoch : epoch' = [j \in DOMAIN epoch \ {i} |-> epoch[j]]
           /\ UNCHANGED nextId
  BY <1>0, <1>3 DEF Mirrored, Current
<1>4. QED
  BY <1>1, <1>2, <1>3 DEF Serve

(* Where no upload fails, a frame draws with none failed, or not at all.   *)
LEMMA RenderDraws ==
    ASSUME UploadsSucceed, IInv, Mirrored, Render
    PROVE  /\ Mirrored'
           /\ framed' => \A i \in shown' :
                 gpu'[i].image = [epoch |-> epoch[i], palette |-> palette]
<1>1. colours = palette /\ state = "live" /\ ~ framed
  BY DEF Render, IInv, Located, Told, Mirrored
<1>2. UNCHANGED <<nextId, epoch, palette, colours, state>>
  BY DEF Render, theme, scene, loop
<1>3. \A S : FailedUploads(S) = {{}}
  BY DEF FailedUploads, UploadsSucceed
<1>4. \/ UNCHANGED <<gpu, framed>>
      \/ \E quads \in SUBSET DOMAIN epoch :
            /\ Draw(epoch, quads, {})
            /\ shown' = quads \/ UNCHANGED framed
  BY <1>3 DEF Render, FrameShown, FrameFails, ghosts
<1>5. CASE UNCHANGED <<gpu, framed>>
  BY <1>1, <1>2, <1>5, NotPictured DEF pictured
<1>6. ASSUME NEW quads \in SUBSET DOMAIN epoch, Draw(epoch, quads, {}),
             shown' = quads \/ UNCHANGED framed
      PROVE  /\ Mirrored'
             /\ framed' => \A i \in shown' :
                   gpu'[i].image = [epoch |-> epoch[i], palette |-> palette]
  <2>1. /\ DOMAIN gpu' \subseteq 1 .. nextId - 1
        /\ \A i \in DOMAIN gpu' \cap DOMAIN epoch : Current(gpu'[i], i)
        /\ \A i \in quads : gpu'[i].image = [epoch |-> epoch[i], palette |-> palette]
    BY <1>1, <1>6, DrawMirrors
  <2>2. Mirrored'
    BY <1>1, <1>2, <2>1 DEF Mirrored, Current
  <2>3. QED
    BY <1>1, <1>6, <2>1, <2>2
<1>7. QED
  BY <1>4, <1>5, <1>6

(* Where uploads succeed, Mirrored survives every step.                    *)
LEMMA MirroredStep ==
    ASSUME UploadsSucceed, IInv, Mirrored, Next
    PROVE  Mirrored'
<1>1. CASE Start
  BY <1>1 DEF Start, session, textures, loop, scene, IInv, Located, Owned, Mirrored, Current
<1>2. CASE Watch
  BY <1>2 DEF Watch, session, textures, scene, Mirrored, Current
<1>3. CASE Served \/ Drain
  BY <1>3, NotPictured DEF Served, Drain, session, textures, loop, theme, scene, pictured
<1>4. CASE Reload
  BY <1>4, ReloadMirrors
<1>5. CASE Latch \/ Event \/ Pumped
  BY <1>5, NotPictured
     DEF Latch, Event, PollEvent, Pumped, textures, loop, theme, scene, pictured
<1>6. CASE SessionLost
  BY <1>6 DEF SessionLost, Teardown, theme, scene, Mirrored, Current
<1>7. CASE Render
  BY <1>7, RenderDraws
<1>8. CASE Probe
  <2>1. UNCHANGED <<nextId, epoch, palette>> /\ DOMAIN gpu = {}
    BY <1>8 DEF Probe, theme, scene, IInv, Located, Owned
  <2>2. DOMAIN gpu' = {}
    BY <1>8, <2>1 DEF Probe, BringUpSucceeds, BringUpFails
  <2>3. state' = "live" => colours' = palette
    BY <1>8 DEF Probe, Repaint
  <2>4. QED
    BY <2>1, <2>2, <2>3 DEF Mirrored
<1>9. CASE Exit
  BY <1>9 DEF Exit, Teardown, loop, scene, Mirrored, Current
<1>10. CASE Serve
  BY <1>10, ServeMirrors
<1>11. CASE XR
  BY <1>11, NotPictured DEF XR, Runtime, Calm, Turn, MakeReady, Doff, Leave, Lose, Tells,
     link, textures, loop, theme, scene, pictured
<1>12. CASE Tick \/ Signal \/ Flip
  BY <1>12, NotPictured DEF Tick, Signal, Flip, session, textures, loop, theme, scene, pictured
<1>13. QED
  BY <1>1, <1>2, <1>3, <1>4, <1>5, <1>6, <1>7, <1>8, <1>9, <1>10, <1>11, <1>12
     DEF Next, Loop

(* Where no upload fails (a failed one is noted as done, Session.cpp:360), *)
(* every frame shows every panel as it is, in the palette of the day: over *)
(* any number of reconnections, content changes and theme switches.        *)
THEOREM CurrentShown ==
    ASSUME UploadsSucceed
    PROVE  Spec => ShowsCurrent
<1> DEFINE Shows == pc = "render" /\ framed' =>
              \A i \in shown' : gpu'[i].image = [epoch |-> epoch[i], palette |-> palette]
<1>1. IInv /\ Mirrored /\ [Next]_vars => Mirrored'
  BY MirroredStep, NotPictured DEF vars, session, textures, loop, theme, scene, pictured
<1>2. IInv /\ Mirrored /\ [Next]_vars => [Shows]_vars
  <2> SUFFICES ASSUME IInv, Mirrored, Next, pc = "render", framed'
               PROVE  \A i \in shown' :
                         gpu'[i].image = [epoch |-> epoch[i], palette |-> palette]
    OBVIOUS
  <2>1. ~ framed
    BY DEF IInv, Told
  <2>2. CASE Render
    BY <2>2, RenderDraws
  <2>3. CASE ~ Render
    BY <2>1, <2>3 DEF Next, Loop, Start, Watch, Served, Drain, Reload, Latch, Event, Pumped,
       SessionLost, Probe, Exit, Serve, XR, Tick, Signal, Flip, ghosts
  <2>4. QED
    BY <2>2, <2>3
<1>3. QED
  BY <1>1, <1>2, MirroredInit, Invariance, PTL DEF Spec, ShowsCurrent
=============================================================================
