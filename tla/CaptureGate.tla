---------------------------- MODULE CaptureGate ----------------------------
(***************************************************************************)
(* hypxrhud-keys (src/src/keys): a client that captures the keyboard only  *)
(* while the user can see that it does.  It creates a disclosure panel,    *)
(* asks the daemon again and again whether that panel was in every frame,  *)
(* and only then runs and reads the capturing child.                       *)
(*                                                                         *)
(* The client, the child and the daemon are processes; signals to the      *)
(* client wait in its socket until it processes them.  A call is handled   *)
(* by the daemon in one step, and any call may fail.  Of the daemon this   *)
(* keeps the presentation tracker and who owns which id.                   *)
(***************************************************************************)
EXTENDS Presentation, Sequences

VARIABLES
    (* the daemon *)
    up, panels, nextId, rendering, tracker,
    (* the client's bus connection: signals sent and not yet processed, of *)
    (* which the first `arrived` are in the client's queue for certain     *)
    signals, arrived,
    (* the client: which loop of main it is in, where in the loop, and its *)
    (* variables; `entry` and `frame` are the first and last frame it saw, *)
    (* 0 before the first                                                  *)
    stage, pc, panelId, ownerLost, disclosureId, entry, frame, streak,
    (* the child and the lines waiting in its pipe *)
    child, pipe,
    (* what really happened, which no code knows: whether a frame omitted  *)
    (* the disclosure since the client first saw it, whether the daemon    *)
    (* that showed it has exited, and how many looks passed since then     *)
    omitted, lost, blind

daemon == <<up, panels, nextId, rendering, tracker>>
queue  == <<signals, arrived>>
client == <<stage, pc, panelId, ownerLost, disclosureId, entry, frame, streak>>
source == <<child, pipe>>
ghosts == <<omitted, lost, blind>>
vars   == <<daemon, queue, client, source, ghosts>>

OwnerLost == 0      \* the NameOwnerChanged signal; PanelDismissed carries an id

ASSUME IdsAssumption == Ids \subseteq Nat \ {OwnerLost}

TypeOK ==
    /\ up \in BOOLEAN /\ rendering \in BOOLEAN
    /\ DOMAIN panels \subseteq Ids
    /\ panels \in [DOMAIN panels -> {"keys", "other"}]
    /\ nextId \in Nat \ {0}
    /\ IsTracker(tracker)
    /\ signals \in Seq(Ids \cup {OwnerLost})
    /\ arrived \in 0 .. Len(signals)
    /\ stage \in {"ready", "await", "dwell", "capture"}
    /\ pc \in {"process", "live", "create", "look", "fork", "confirm",
               "read", "sync", "reap", "stop", "close", "gone"}
    /\ panelId \in Ids \cup {0} /\ disclosureId \in Ids \cup {0}
    /\ ownerLost \in BOOLEAN
    /\ entry \in Nat /\ frame \in Nat /\ streak \in Nat
    /\ child \in {"none", "forked", "guarded", "armed", "running", "dying", "dead"}
    /\ pipe \in Nat
    /\ omitted \in BOOLEAN /\ lost \in BOOLEAN /\ blind \in Nat

Init ==
    /\ up = TRUE /\ panels = << >> /\ nextId = 1 /\ rendering = FALSE
    /\ tracker = NewTracker
    /\ signals = << >> /\ arrived = 0
    /\ stage = "ready" /\ pc = "process"
    /\ panelId = 0 /\ disclosureId = 0 /\ ownerLost = FALSE
    /\ entry = 0 /\ frame = 0 /\ streak = 0
    /\ child = "none" /\ pipe = 0
    /\ omitted = FALSE /\ lost = FALSE /\ blind = 0

----------------------------------------------------------------------------
(* The daemon *)

Watched(i) == i = disclosureId /\ entry > 0 /\ ~ lost

Send(signal) ==
    /\ signals' = IF pc = "gone" THEN signals ELSE Append(signals, signal)
    /\ UNCHANGED arrived

Without(S) == [i \in DOMAIN panels \ S |-> panels[i]]

Add(owner) ==
    /\ up /\ nextId \in Ids
    /\ panels' = [i \in DOMAIN panels \cup {nextId} |->
                     IF i = nextId THEN owner ELSE panels[i]]
    /\ nextId' = nextId + 1
    /\ UNCHANGED <<up, rendering, tracker>>

(* A frame that submitted the panels S; what is not in S was queued, faded *)
(* or over the layer budget.                                               *)
Frame(S) ==
    /\ up
    /\ tracker' = RecordFrame(tracker, S)
    /\ rendering' = TRUE
    /\ omitted' = (omitted \/ \E i \in Ids \ S : Watched(i))
    /\ UNCHANGED <<up, panels, nextId, queue, client, source, lost, blind>>

(* No frame: the session is lost, not running, or should not render *)
NoFrame ==
    /\ up /\ rendering
    /\ rendering' = FALSE
    /\ UNCHANGED <<up, panels, nextId, tracker, queue, client, source, ghosts>>

(* emitDismissed: the panels S are preempted, expire or are dismissed *)
ForgetAll(S) ==
    [frame |-> tracker.frame, panels |-> [i \in DOMAIN tracker.panels \ S |-> tracker.panels[i]]]

Emit(S) ==
    /\ panels' = Without(S)
    /\ tracker' = ForgetAll(S)
    /\ omitted' = (omitted \/ \E i \in S : Watched(i))
    /\ UNCHANGED <<up, nextId, rendering, lost, blind>>

Remove(i) ==
    /\ up
    /\ Emit({i})
    /\ Send(i)
    /\ UNCHANGED <<client, source>>

OtherCreates ==
    /\ Add("other")
    /\ UNCHANGED <<queue, client, source, ghosts>>

Mine == {i \in DOMAIN panels : panels[i] = "keys"}

MutAbandoned == {}      \* does not watch who leaves the bus

Abandoned == Mine

(* onNameOwnerChanged: the client's connection has gone *)
ClientGone ==
    /\ up /\ pc = "gone" /\ Abandoned # {}
    /\ Emit(Abandoned)
    /\ UNCHANGED <<queue, client, source>>

(* The daemon exits or is killed, and the broker tells the client.  It is  *)
(* started again (D-Bus activates it on a call) with an empty scene.       *)
Exit ==
    /\ up
    /\ up' = FALSE /\ panels' = << >> /\ nextId' = 1 /\ rendering' = FALSE
    /\ tracker' = NewTracker
    /\ Send(OwnerLost)
    /\ lost' = (disclosureId # 0)
    /\ UNCHANGED <<client, source, omitted, blind>>

Start ==
    /\ ~ up
    /\ up' = TRUE
    /\ UNCHANGED <<panels, nextId, rendering, tracker, queue, client, source, ghosts>>

Daemon ==
    \/ \E S \in SUBSET DOMAIN panels : Frame(S)
    \/ NoFrame
    \/ \E i \in DOMAIN panels : Remove(i)
    \/ OtherCreates
    \/ Exit
    \/ Start

----------------------------------------------------------------------------
(* The client *)

Goto(place) == pc' = place

(* `return 1` and `break`: what there is of a child is stopped first *)
GiveUp == pc' = IF child = "none" THEN "close" ELSE "stop"

(* process: the signals that have arrived, and perhaps more *)
MutLoses(S) == FALSE      \* does not watch who owns the bus name

Loses(S) == OwnerLost \in S

Drain ==
    \E n \in arrived .. Len(signals) :
       LET S == {signals[k] : k \in 1 .. n}
       IN  /\ signals' = SubSeq(signals, n + 1, Len(signals))
           /\ arrived' = 0
           /\ panelId' = IF Loses(S) \/ panelId \in S THEN 0 ELSE panelId
           /\ ownerLost' = (ownerLost \/ Loses(S))

(* When a call returns, all that was sent before its reply has arrived; a  *)
(* call that failed or timed out tells nothing.                            *)
Replied == up /\ arrived' = Len(signals) /\ UNCHANGED signals
Failed  == UNCHANGED queue

Process ==
    /\ pc = "process"
    /\ Drain
    /\ IF ownerLost' THEN GiveUp ELSE Goto("live")
    /\ UNCHANGED <<daemon, stage, disclosureId, entry, frame, streak, source, ghosts>>

(* runtimeLive, and the comparison of panelId after it *)
Live ==
    /\ pc = "live"
    /\ \/ Replied /\ rendering /\ stage = "ready" /\ Goto("create")
       \/ Replied /\ rendering /\ stage # "ready" /\ panelId = disclosureId /\ Goto("look")
       \/ Replied /\ rendering /\ stage # "ready" /\ panelId # disclosureId /\ GiveUp
       \/ /\ Failed \/ (Replied /\ ~ rendering)
          /\ IF stage = "ready" THEN Goto("process") ELSE GiveUp
    /\ UNCHANGED <<daemon, stage, panelId, ownerLost, disclosureId, entry, frame,
                   streak, source, ghosts>>

(* showPrivacyIndicator *)
Create ==
    /\ pc = "create"
    /\ \/ /\ Add("keys")
          /\ Replied
          /\ panelId' = nextId /\ disclosureId' = nextId
          /\ stage' = "await" /\ Goto("process")
       \/ /\ Add("keys") \/ UNCHANGED daemon      \* timed out, or refused
          /\ Failed
          /\ GiveUp
          /\ UNCHANGED <<stage, panelId, disclosureId>>
    /\ UNCHANGED <<ownerLost, entry, frame, streak, source, ghosts>>

(* presentation, judged by the loop that asked *)
MutSame(s) == TRUE      \* back on screen is good enough

Same(s) == s.streakStart = streak

MutUnbroken(s) == Same(s)      \* reads no further than the streak

Unbroken(s) == Check(s) = "current" /\ Same(s)

Passes(s) ==      \* the loops that return false, or break, on anything else
    /\ entry' = (IF stage = "await" THEN s.frameSerial ELSE entry)
    /\ frame' = (IF stage = "capture" /\ s.frameSerial <= frame THEN frame ELSE s.frameSerial)
    /\ streak' = s.streakStart
    /\ blind' = IF lost THEN blind + 1 ELSE blind

Judge(s) ==
    \/ /\ stage = "await" /\ Check(s) = "current"
       /\ Passes(s)
       /\ stage' = "dwell" /\ Goto("process")
    \/ /\ stage = "await" /\ Check(s) = "waiting"
       /\ Goto("process")
       /\ UNCHANGED <<stage, entry, frame, streak, blind>>
    \/ /\ stage = "dwell" /\ Unbroken(s)
       /\ Passes(s)
       /\ Goto("process") /\ UNCHANGED stage
    \/ /\ stage = "capture" /\ Unbroken(s)
       /\ Passes(s)
       /\ pc' \in {"read", "reap"}      \* whether poll found the pipe readable
       /\ UNCHANGED stage
    \/ /\ \/ stage = "await" /\ Check(s) = "omitted"
          \/ stage \in {"dwell", "capture"} /\ ~ Unbroken(s)
          \/ stage = "capture" /\ s.frameSerial <= frame      \* for 500 ms
       /\ GiveUp
       /\ UNCHANGED <<stage, entry, frame, streak, blind>>

Look ==
    /\ pc = "look"
    /\ \/ Replied /\ Judge(Snapshot(tracker, disclosureId))
       \/ Failed /\ GiveUp /\ UNCHANGED <<stage, entry, frame, streak, blind>>
    /\ UNCHANGED <<daemon, panelId, ownerLost, disclosureId, source, omitted, lost>>

(* The deadline of the wait for the runtime, for the first frame, or of    *)
(* the dwell, which must have seen a second frame                          *)
MutTimed == {"await", "dwell"}      \* waits for a runtime for ever

Timed == {"ready", "await", "dwell"}

Expire ==
    /\ pc = "process" /\ stage \in Timed
    /\ IF stage = "dwell" /\ panelId = disclosureId /\ frame > entry
       THEN Goto("fork") ELSE GiveUp
    /\ UNCHANGED <<daemon, queue, stage, panelId, ownerLost, disclosureId, entry,
                   frame, streak, source, ghosts>>

(* KeySource::start: fork, then wait for the child's exec or its failure *)
Fork ==
    /\ pc = "fork"
    /\ \/ child' = "forked" /\ Goto("confirm")
       \/ UNCHANGED child /\ GiveUp
    /\ UNCHANGED <<daemon, queue, stage, panelId, ownerLost, disclosureId, entry,
                   frame, streak, pipe, ghosts>>

Confirm ==
    /\ pc = "confirm"
    /\ \/ /\ child = "running"
          /\ stage' = "capture"
          /\ pc' \in {"process", "stop"}      \* stop: no signalfd
          /\ UNCHANGED child
       \/ /\ child # "running"      \* it failed, or 2 s have passed
          /\ child' = "dead" /\ Goto("close")
          /\ UNCHANGED stage
    /\ UNCHANGED <<daemon, queue, panelId, ownerLost, disclosureId, entry, frame,
                   streak, pipe, ghosts>>

(* readAvailable: line by line until the pipe is empty; a line that changes *)
(* what is shown is synced                                                 *)
Line ==
    /\ pc = "read" /\ pipe > 0
    /\ pipe' = pipe - 1
    /\ \/ UNCHANGED <<queue, panelId, ownerLost, pc>>
       \/ Drain /\ Goto(IF ownerLost' THEN "read" ELSE "sync")
    /\ UNCHANGED <<daemon, stage, disclosureId, entry, frame, streak, child, ghosts>>

(* create, if the panel is gone, or update, which the daemon takes for a   *)
(* create if it does not know the id                                       *)
Sync ==
    /\ pc = "sync"
    /\ \/ panelId = 0 /\ Add("keys") /\ Replied /\ panelId' = nextId
       \/ panelId \notin DOMAIN panels /\ Add("keys") /\ (Replied \/ Failed) /\ UNCHANGED panelId
       \/ UNCHANGED <<daemon, panelId>> /\ (Replied \/ Failed)
    /\ Goto("read")
    /\ UNCHANGED <<stage, ownerLost, disclosureId, entry, frame, streak, source, ghosts>>

EndBatch ==
    /\ pc = "read" /\ pipe = 0
    /\ Goto("reap")
    /\ UNCHANGED <<daemon, queue, stage, panelId, ownerLost, disclosureId, entry,
                   frame, streak, source, ghosts>>

(* The end of the loop's body: the child has exited, or a stop is asked *)
Reap ==
    /\ pc = "reap"
    /\ pc' \in IF child = "dead" THEN {"stop"} ELSE {"process", "stop"}
    /\ UNCHANGED <<daemon, queue, stage, panelId, ownerLost, disclosureId, entry,
                   frame, streak, source, ghosts>>

(* KeySource::stop: SIGTERM, SIGKILL after 500 ms, and the child is reaped *)
Stop ==
    /\ pc = "stop"
    /\ child' = "dead" /\ pipe' = 0
    /\ Goto("close")
    /\ UNCHANGED <<daemon, queue, stage, panelId, ownerLost, disclosureId, entry,
                   frame, streak, ghosts>>

(* dismiss, which may fail; then the connection is closed *)
Close ==
    /\ pc = "close"
    /\ Goto("gone")
    /\ signals' = << >> /\ arrived' = 0
    /\ \/ up /\ panelId \in Mine /\ Emit({panelId})
       \/ UNCHANGED <<daemon, ghosts>>
    /\ UNCHANGED <<stage, panelId, ownerLost, disclosureId, entry, frame, streak, source>>

Client ==
    \/ Process \/ Live \/ Create \/ Look \/ Fork \/ Confirm
    \/ Line \/ Sync \/ EndBatch \/ Reap \/ Stop \/ Close

(* The client is killed, or SIGTERM finds it without its signalfd *)
Crash ==
    /\ pc # "gone"
    /\ Goto("gone")
    /\ signals' = << >> /\ arrived' = 0
    /\ child' = IF child \in {"guarded", "armed", "running"} THEN "dying" ELSE child
    /\ UNCHANGED <<daemon, stage, panelId, ownerLost, disclosureId, entry, frame,
                   streak, pipe, ghosts>>

----------------------------------------------------------------------------
(* The child *)

MutOrphaned == FALSE      \* trusts PR_SET_PDEATHSIG alone

Orphaned == pc = "gone"

ChildGoes(from, to) ==
    child = from /\ child' \in to /\ UNCHANGED <<daemon, queue, client, pipe, ghosts>>

(* prctl(PR_SET_PDEATHSIG), getppid, exec; any of them may fail *)
Guard == ChildGoes("forked", {"guarded", "dead"})
Arm   == ChildGoes("guarded", IF Orphaned THEN {"dead"} ELSE {"armed", "dead"})
Exec  == ChildGoes("armed", {"running", "dead"})
Die   == ChildGoes("dying", {"dead"})

Child == Guard \/ Arm \/ Exec \/ Die

Quit == ChildGoes("running", {"dead"})

Type ==
    /\ child = "running" /\ pc # "gone"
    /\ pipe' = pipe + 1
    /\ UNCHANGED <<daemon, queue, client, child, ghosts>>

Next == Daemon \/ ClientGone \/ Client \/ Expire \/ Crash \/ Child \/ Quit \/ Type

(* The client and the child are never stuck (every call has a timeout); a  *)
(* wait's deadline passes though its loop goes round; the daemon handles   *)
(* its messages.  That a batch ends is an assumption on the user, not on   *)
(* the code: readAvailable returns only when it finds the pipe empty.      *)
BatchesEnd == []<>(pc \notin {"read", "sync"})

Fairness ==
    /\ WF_vars(Client) /\ WF_vars(Child) /\ WF_vars(ClientGone)
    /\ SF_vars(Expire)
    /\ BatchesEnd

Spec == Init /\ [][Next]_vars /\ Fairness

----------------------------------------------------------------------------
(* Properties *)

(* Whenever the client goes on, the daemon that showed the disclosure has  *)
(* shown it in every frame since the client first saw it: an omission, be  *)
(* it for one frame, is found by the very next look.                       *)
LooksTellTruth ==
    [][frame' # frame \/ (pc = "look" /\ pc' \in {"read", "reap"}) => ~ omitted \/ lost]_vars

(* After the daemon has exited at most one look passes: a new daemon whose *)
(* ids and serials happen to be those of the old one can pass for it once, *)
(* its answer comes after the NameOwnerChanged that exposes it.            *)
AtMostOneBlindLook == blind <= 1

(* No child is left to read the keyboard when the client has gone, however *)
(* it went and however far the child had come.                             *)
NoOrphan == pc = "gone" ~> child \in {"none", "dead"}

(* A broken disclosure stops the capture ("any omission ... stops the      *)
(* input child", docs/keys-overlay.md:23).                                 *)
BreakStopsCapture == child = "running" /\ (omitted \/ lost) ~> child # "running"

(* The gate decides: it opens or the client exits.                         *)
GateDecides == pc # "gone" ~> stage = "capture" \/ pc = "gone"

(* No panel of the client is left on screen.                               *)
NothingLeftBehind == pc = "gone" ~> Mine = {}
=============================================================================
