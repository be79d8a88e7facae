---------------------------- MODULE Presentation ----------------------------
(***************************************************************************)
(* CPresentationTracker (src/src/Presentation.cpp): what the daemon knows  *)
(* about which panel was in which frame, and answers GetPanelPresentation  *)
(* from.  A tracker t is a value, so that the modules that own one compose *)
(* these operations into their actions.                                    *)
(***************************************************************************)
EXTENDS Integers

CONSTANT Ids      \* panel ids

(* frame: the serial of the last successful frame.  panels: for a panel    *)
(* that was in some frame, the last one and the first of the streak.       *)
Streak  == [last : Nat, start : Nat]

IsTracker(t) ==
    /\ t.frame \in Nat
    /\ DOMAIN t.panels \subseteq Ids
    /\ t.panels \in [DOMAIN t.panels -> Streak]

(* Definitions named Mut... are mistakes this code could have contained    *)
MutNewTracker == [frame |-> -1, panels |-> << >>]      \* counts from one too low

NewTracker == [frame |-> 0, panels |-> << >>]

Entry(t, i) == IF i \in DOMAIN t.panels THEN t.panels[i] ELSE [last |-> 0, start |-> 0]

MutExtended(e, frame) ==      \* misses that the streak was broken
    [last |-> frame, start |-> IF e.start = 0 THEN frame ELSE e.start]

(* The entry e of a panel that is in the frame `frame` *)
Extended(e, frame) ==
    [last  |-> frame,
     start |-> IF e.last + 1 # frame \/ e.start = 0 THEN frame ELSE e.start]

MutRecordFrame(t, S) ==      \* a panel that was left out keeps its serial up to date
    LET frame == t.frame + 1
    IN  [frame  |-> frame,
         panels |-> [i \in DOMAIN t.panels \cup S |-> Extended(Entry(t, i), frame)]]

(* A successful frame that submitted the panels S *)
RecordFrame(t, S) ==
    LET frame == t.frame + 1
    IN  [frame  |-> frame,
         panels |-> [i \in DOMAIN t.panels \cup S |->
                        IF i \in S THEN Extended(Entry(t, i), frame) ELSE t.panels[i]]]

MutForget(t, i) == t      \* the entry survives the dismissal

Forget(t, i) ==
    [frame |-> t.frame, panels |-> [j \in DOMAIN t.panels \ {i} |-> t.panels[j]]]

Snapshot(t, i) ==
    [panelSerial |-> Entry(t, i).last, frameSerial |-> t.frame,
     streakStart |-> Entry(t, i).start]

(* checkPresentation (src/src/keys/Disclosure.cpp) *)
Check(snapshot) ==
    IF snapshot.panelSerial = 0 THEN "waiting"
    ELSE IF snapshot.panelSerial = snapshot.frameSerial THEN "current" ELSE "omitted"
=============================================================================
