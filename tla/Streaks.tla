------------------------------ MODULE Streaks ------------------------------
(***************************************************************************)
(* The tracker against the frames that really were: `frames` is the whole  *)
(* history, which no code keeps, and the tracker's three serials must tell *)
(* the truth about it.  The key-capture client bets the user's privacy on  *)
(* that: it takes an unchanged streakStart for the proof that the user saw *)
(* its disclosure in every frame since it last looked.                     *)
(***************************************************************************)
EXTENDS Presentation, Sequences

VARIABLES
    tracker,
    frames,    \* the set of panels each frame submitted
    since,     \* since[i]: the frame at which panel i was last forgotten
    looks      \* looks[i]: what a client last saw of panel i, if it was current

vars == <<tracker, frames, since, looks>>

Unseen == [panelSerial |-> 0, frameSerial |-> 0, streakStart |-> 0]

TypeOK ==
    /\ IsTracker(tracker)
    /\ frames \in Seq(SUBSET Ids)
    /\ since \in [Ids -> Nat]
    /\ looks \in [Ids -> [panelSerial : Nat, frameSerial : Nat, streakStart : Nat]]

Init ==
    /\ tracker = NewTracker
    /\ frames = << >>
    /\ since = [i \in Ids |-> 0]
    /\ looks = [i \in Ids |-> Unseen]

Frame(S) ==
    /\ tracker' = RecordFrame(tracker, S)
    /\ frames' = Append(frames, S)
    /\ UNCHANGED <<since, looks>>

Dismiss(i) ==
    /\ tracker' = Forget(tracker, i)
    /\ since' = [since EXCEPT ![i] = Len(frames)]
    /\ UNCHANGED <<frames, looks>>

(* A client asks for panel i and finds it current *)
Look(i) ==
    /\ Check(Snapshot(tracker, i)) = "current"
    /\ looks' = [looks EXCEPT ![i] = Snapshot(tracker, i)]
    /\ UNCHANGED <<tracker, frames, since>>

(* The daemon exits (CBus::shutdown), and its clients lose the bus name *)
Reset ==
    /\ tracker' = NewTracker
    /\ frames' = << >>
    /\ since' = [i \in Ids |-> 0]
    /\ looks' = [i \in Ids |-> Unseen]

Next ==
    \/ \E S \in SUBSET Ids : Frame(S)
    \/ \E i \in Ids : Dismiss(i)
    \/ \E i \in Ids : Look(i)
    \/ Reset

Spec == Init /\ [][Next]_vars

----------------------------------------------------------------------------
(* Every frame from the first to the last submitted i *)
Unbroken(i, first, last) == \A f \in first .. last : i \in frames[f]

(* A panel's streak is unbroken: it was in every frame from the start of   *)
(* the streak to its last frame.                                           *)
StreakUnbroken ==
    /\ tracker.frame = Len(frames)
    /\ \A i \in DOMAIN tracker.panels :
          LET e == tracker.panels[i]
          IN  /\ 1 <= e.start /\ e.start <= e.last /\ e.last <= tracker.frame
              /\ Unbroken(i, e.start, e.last)

(* "Distinguishable" (Presentation.hpp:15-18): a snapshot is current       *)
(* exactly when the panel was in the last frame and has not been dismissed *)
(* since, and its streak goes back as far as that is true.                 *)
CurrentIsTrue ==
    \A i \in Ids :
       LET s == Snapshot(tracker, i)
       IN  /\ Check(s) = "current" <=> Len(frames) > since[i] /\ i \in frames[Len(frames)]
           /\ Check(s) = "current" /\ s.streakStart > since[i] + 1
                 => i \notin frames[s.streakStart - 1]

(* What the client relies on (keys/main.cpp:272-279): a panel that it      *)
(* finds current again, with the streakStart it saw at its last look, was  *)
(* in every frame in between, however many it did not look at.             *)
NoGapBetweenLooks ==
    \A i \in Ids :
       LET s == Snapshot(tracker, i)
       IN  /\ looks[i] # Unseen
           /\ Check(s) = "current"
           /\ s.streakStart = looks[i].streakStart
           => Unbroken(i, looks[i].frameSerial, s.frameSerial)
=============================================================================
