--------------------------- MODULE StreaksProofs ---------------------------
(***************************************************************************)
(* The tracker tells the truth about the frames, for any panels and any    *)
(* history.  Everything follows from one invariant, History: what the      *)
(* entry of a panel, or its absence, says about the frames submitted since *)
(* the panel was last forgotten.                                           *)
(***************************************************************************)
EXTENDS Streaks, TLAPS

(* The entry e of panel i accounts for the frames fs since frame s *)
Accounts(e, i, fs, s) ==
    /\ s < e.start /\ e.start <= e.last /\ e.last <= Len(fs)
    /\ \A f \in e.start .. e.last : i \in fs[f]
    /\ e.start > s + 1 => i \notin fs[e.start - 1]
    /\ \A f \in e.last + 1 .. Len(fs) : i \notin fs[f]

Absent(i, fs, s) == \A f \in s + 1 .. Len(fs) : i \notin fs[f]

History ==
    /\ tracker.frame = Len(frames)
    /\ \A i \in Ids :
          /\ since[i] <= Len(frames)
          /\ i \in DOMAIN tracker.panels =>
                Accounts(tracker.panels[i], i, frames, since[i])
          /\ i \notin DOMAIN tracker.panels => Absent(i, frames, since[i])

(* A look saw a streak that had begun *)
LooksBack ==
    \A i \in Ids : /\ looks[i].streakStart <= looks[i].frameSerial
                   /\ looks[i].frameSerial <= Len(frames)

IInv == TypeOK /\ History /\ LooksBack

(* Counting another frame with the panel, or without it, keeps the account *)
LEMMA AccountsWith ==
    ASSUME NEW e \in Streak, NEW i \in Ids, NEW fs \in Seq(SUBSET Ids),
           NEW s \in Nat, NEW S \in SUBSET Ids, i \in S, s <= Len(fs),
           \/ Accounts(e, i, fs, s)
           \/ Absent(i, fs, s) /\ e = [last |-> 0, start |-> 0]
    PROVE  /\ Extended(e, Len(fs) + 1) \in Streak
           /\ Accounts(Extended(e, Len(fs) + 1), i, Append(fs, S), s)
<1> DEFINE n == Len(fs) + 1
           x == Extended(e, n)
           gs == Append(fs, S)
<1>1. /\ gs \in Seq(SUBSET Ids) /\ Len(gs) = n /\ n \in Nat /\ gs[n] = S
      /\ \A f \in 1 .. Len(fs) : gs[f] = fs[f]
  OBVIOUS
<1>2. x.last = n /\ x \in Streak
  BY <1>1 DEF Extended, Streak
<1>3. CASE e.last + 1 = n /\ e.start # 0
  <2>1. x.start = e.start
    BY <1>3 DEF Extended
  <2>2. Accounts(e, i, fs, s)
    BY <1>3
  <2> QED
    BY <1>1, <1>2, <1>3, <2>1, <2>2 DEF Accounts, Streak
<1>4. CASE ~(e.last + 1 = n /\ e.start # 0)
  <2>1. x.start = n
    BY <1>4 DEF Extended
  <2>2. s < n /\ (n > s + 1 => i \notin fs[n - 1])
    <3>1. n - 1 = Len(fs) /\ s < n /\ Len(fs) \in Nat
      BY <1>1
    <3>2. CASE Accounts(e, i, fs, s)
      BY <1>4, <3>1, <3>2 DEF Accounts, Streak
    <3>3. CASE Absent(i, fs, s)
      BY <3>1, <3>3 DEF Absent
    <3> QED BY <3>1, <3>2, <3>3
  <2> QED
    BY <1>1, <1>2, <2>1, <2>2 DEF Accounts, Streak
<1> QED BY <1>3, <1>4

(* A frame without panel i changes nothing that is said of i.              *)
LEMMA AccountsWithout ==
    ASSUME NEW e \in Streak, NEW i \in Ids, NEW fs \in Seq(SUBSET Ids),
           NEW s \in Nat, NEW S \in SUBSET Ids, i \notin S, s <= Len(fs)
    PROVE  /\ Accounts(e, i, fs, s) => Accounts(e, i, Append(fs, S), s)
           /\ Absent(i, fs, s) => Absent(i, Append(fs, S), s)
<1> DEFINE gs == Append(fs, S)
<1>1. /\ Len(gs) = Len(fs) + 1 /\ gs[Len(fs) + 1] = S /\ Len(fs) \in Nat
      /\ \A f \in 1 .. Len(fs) : gs[f] = fs[f]
  OBVIOUS
<1>2. Accounts(e, i, fs, s) => Accounts(e, i, gs, s)
  <2> SUFFICES ASSUME Accounts(e, i, fs, s) PROVE Accounts(e, i, gs, s)
    OBVIOUS
  <2> HIDE DEF gs
  <2>1. \A f \in e.last + 1 .. Len(gs) : i \notin gs[f]
    BY <1>1 DEF Accounts, Streak
  <2>2. e.start \in Nat /\ e.last \in Nat
    BY DEF Streak
  <2>3. s < e.start /\ e.start <= e.last /\ e.last <= Len(gs)
    BY <1>1, <2>2 DEF Accounts
  <2>4. \A f \in e.start .. e.last : i \in gs[f]
    <3>1. \A f \in e.start .. e.last : f \in 1 .. Len(fs)
      BY <1>1, <2>2 DEF Accounts
    <3> QED
      BY <1>1, <3>1, Zenon DEF Accounts
  <2>5. e.start > s + 1 => i \notin gs[e.start - 1]
    <3>1. e.start > s + 1 => e.start - 1 \in 1 .. Len(fs)
      BY <1>1, <2>2 DEF Accounts
    <3> QED
      BY <1>1, <3>1, Zenon DEF Accounts
  <2> QED
    BY <2>1, <2>3, <2>4, <2>5 DEF Accounts
<1>3. Absent(i, fs, s) => Absent(i, gs, s)
  <2> SUFFICES ASSUME Absent(i, fs, s), NEW f \in s + 1 .. Len(gs) PROVE i \notin gs[f]
    BY DEF Absent
  <2> HIDE DEF gs
  <2>1. CASE f = Len(fs) + 1
    BY <1>1, <2>1
  <2>2. CASE f # Len(fs) + 1
    <3>1. f \in s + 1 .. Len(fs) /\ f \in 1 .. Len(fs)
      BY <1>1, <2>2
    <3> QED
      BY <1>1, <3>1 DEF Absent
  <2> QED
    BY <2>1, <2>2
<1> QED BY <1>2, <1>3

(* No frame was shown and no panel is tracked.                             *)
THEOREM Initially == Init => IInv
  BY DEF Init, IInv, TypeOK, IsTracker, NewTracker, Streak, History, LooksBack,
         Absent, Unseen

(* One frame more, of any panels, keeps the invariant.                     *)
LEMMA FrameStep ==
    ASSUME IInv, NEW S \in SUBSET Ids, Frame(S)
    PROVE  IInv'
<1> DEFINE n == Len(frames) + 1
<1> USE DEF IInv, TypeOK
<1>1. /\ Len(frames) \in Nat /\ Len(frames') = n /\ frames' \in Seq(SUBSET Ids)
      /\ tracker.frame = Len(frames)
  BY DEF Frame, History
<1>2. /\ tracker'.frame = n
      /\ DOMAIN tracker'.panels = DOMAIN tracker.panels \cup S
      /\ \A i \in DOMAIN tracker'.panels :
            tracker'.panels[i] = IF i \in S THEN Extended(Entry(tracker, i), n)
                                 ELSE tracker.panels[i]
  BY <1>1 DEF Frame, RecordFrame
<1>3. \A i \in Ids : Entry(tracker, i) \in Streak
  BY DEF IsTracker, Entry, Streak
<1>4. ASSUME NEW i \in Ids, i \in S
      PROVE  /\ tracker'.panels[i] \in Streak
             /\ Accounts(tracker'.panels[i], i, frames', since'[i])
  <2>1. \/ Accounts(Entry(tracker, i), i, frames, since[i])
        \/ /\ Absent(i, frames, since[i])
           /\ Entry(tracker, i) = [last |-> 0, start |-> 0]
    BY DEF Entry, History
  <2>2. since[i] \in Nat /\ since[i] <= Len(frames) /\ since' = since
    BY DEF Frame, History
  <2>3. frames' = Append(frames, S) /\ tracker'.panels[i] = Extended(Entry(tracker, i), n)
    BY <1>2, <1>4 DEF Frame
  <2> QED BY <1>3, <1>4, <2>1, <2>2, <2>3, AccountsWith
<1>5. ASSUME NEW i \in Ids, i \notin S
      PROVE  /\ i \in DOMAIN tracker'.panels =>
                   /\ tracker'.panels[i] \in Streak
                   /\ Accounts(tracker'.panels[i], i, frames', since'[i])
             /\ i \notin DOMAIN tracker'.panels => Absent(i, frames', since'[i])
  <2>1. since[i] \in Nat /\ since[i] <= Len(frames) /\ since' = since
    BY DEF Frame, History
  <2>2. frames' = Append(frames, S)
    BY DEF Frame
  <2>3. CASE i \in DOMAIN tracker.panels
    <3>1. tracker'.panels[i] = tracker.panels[i] /\ tracker.panels[i] \in Streak
      BY <1>2, <1>5, <2>3 DEF IsTracker
    <3>2. Accounts(tracker.panels[i], i, frames, since[i])
      BY <2>3 DEF History
    <3> QED BY <1>2, <1>5, <2>1, <2>2, <2>3, <3>1, <3>2, AccountsWithout
  <2>4. CASE i \notin DOMAIN tracker.panels
    <3>1. Absent(i, frames, since[i]) /\ i \notin DOMAIN tracker'.panels
      BY <1>2, <1>5, <2>4 DEF History
    <3>2. [last |-> 0, start |-> 0] \in Streak
      BY DEF Streak
    <3> QED BY <1>5, <2>1, <2>2, <3>1, <3>2, AccountsWithout
  <2> QED BY <2>3, <2>4
<1>6. DOMAIN tracker'.panels \subseteq Ids
  BY <1>2 DEF IsTracker
<1>7. \A i \in DOMAIN tracker'.panels : tracker'.panels[i] \in Streak
  BY <1>4, <1>5, <1>6
<1>8. tracker'.panels = [i \in DOMAIN tracker'.panels |-> tracker'.panels[i]]
  BY DEF Frame, RecordFrame
<1>9. TypeOK'
  <2>1. tracker'.panels \in [DOMAIN tracker'.panels -> Streak]
    BY <1>7, <1>8
  <2>2. IsTracker(tracker')
    BY <1>1, <1>2, <1>6, <2>1 DEF IsTracker
  <2>3. since' = since /\ looks' = looks
    BY DEF Frame
  <2> QED BY <1>1, <2>2, <2>3
<1>10. History'
  BY <1>1, <1>2, <1>4, <1>5 DEF History, Frame
<1>11. LooksBack'
  BY <1>1 DEF LooksBack, Frame
<1> QED BY <1>9, <1>10, <1>11

(* So do a dismissal, a look, a reset and a step of none of them.          *)
LEMMA OtherSteps ==
    ASSUME IInv,
           (\E i \in Ids : Dismiss(i) \/ Look(i)) \/ Reset \/ UNCHANGED vars
    PROVE  IInv'
<1> USE DEF IInv, TypeOK
<1>1. ASSUME NEW i \in Ids, Dismiss(i) PROVE IInv'
  <2>1. /\ tracker'.frame = tracker.frame
        /\ tracker'.panels = [j \in DOMAIN tracker.panels \ {i} |-> tracker.panels[j]]
    BY <1>1 DEF Dismiss, Forget, IsTracker
  <2>2. TypeOK'
    BY <1>1, <2>1 DEF Dismiss, IsTracker, History
  <2>3. History'
    BY <1>1, <2>1 DEF Dismiss, History, Absent
  <2> QED BY <1>1, <2>2, <2>3 DEF Dismiss, LooksBack
<1>2. ASSUME NEW i \in Ids, Look(i) PROVE IInv'
  <2> DEFINE s == Snapshot(tracker, i)
  <2>1. /\ s \in [panelSerial : Nat, frameSerial : Nat, streakStart : Nat]
        /\ s.streakStart <= s.frameSerial /\ s.frameSerial <= Len(frames)
    BY DEF Snapshot, Entry, IsTracker, Streak, History, Accounts
  <2>2. looks' = [looks EXCEPT ![i] = s]
    BY <1>2 DEF Look
  <2> HIDE DEF s
  <2> QED BY <1>2, <2>1, <2>2 DEF Look, IsTracker, History, LooksBack
<1>3. CASE Reset
  BY <1>3 DEF Reset, IsTracker, NewTracker, Streak, History, LooksBack, Absent, Unseen
<1>4. CASE UNCHANGED vars
  BY <1>4 DEF vars, IsTracker, History, LooksBack
<1> QED BY <1>1, <1>2, <1>3, <1>4

(* Every step keeps the account. *)
THEOREM InvariantHolds == Spec => []IInv
<1>1. IInv /\ [Next]_vars => IInv'
  BY FrameStep, OtherSteps DEF Next
<1> QED BY <1>1, Initially, PTL DEF Spec

(* The tracker is well-formed, whatever frames and dismissals come.        *)
THEOREM TypeCorrect == Spec => []TypeOK
<1>1. IInv => TypeOK
  BY DEF IInv
<1> QED BY <1>1, InvariantHolds, PTL

(* A streak never spans a frame that left the panel out.                   *)
THEOREM StreaksUnbroken == Spec => []StreakUnbroken
<1>1. IInv => StreakUnbroken
  BY DEF IInv, TypeOK, IsTracker, Streak, History, Accounts, StreakUnbroken, Unbroken
<1> QED BY <1>1, InvariantHolds, PTL

(* A snapshot is current exactly when the panel was in the last frame, and *)
(* its streak goes back as far as that is true.                            *)
THEOREM CurrentTrue == Spec => []CurrentIsTrue
<1>1. ASSUME IInv, NEW i \in Ids
      PROVE  LET s == Snapshot(tracker, i)
             IN  /\ Check(s) = "current" <=> Len(frames) > since[i] /\ i \in frames[Len(frames)]
                 /\ Check(s) = "current" /\ s.streakStart > since[i] + 1
                       => i \notin frames[s.streakStart - 1]
  <2> USE <1>1 DEF IInv, TypeOK, IsTracker, History, Snapshot, Check, Entry
  <2>1. CASE i \in DOMAIN tracker.panels
    BY <2>1 DEF Streak, Accounts
  <2>2. CASE i \notin DOMAIN tracker.panels
    BY <2>2 DEF Absent
  <2> QED BY <2>1, <2>2
<1>2. IInv => CurrentIsTrue
  BY <1>1 DEF CurrentIsTrue
<1> QED BY <1>2, InvariantHolds, PTL

(* Two looks that find a panel current in the same streak have no frame    *)
(* between them that left it out.                                          *)
THEOREM NoGaps == Spec => []NoGapBetweenLooks
<1>1. ASSUME IInv, NEW i \in Ids, Check(Snapshot(tracker, i)) = "current",
             Snapshot(tracker, i).streakStart = looks[i].streakStart
      PROVE  Unbroken(i, looks[i].frameSerial, Snapshot(tracker, i).frameSerial)
  <2> USE <1>1 DEF IInv, TypeOK, IsTracker
  <2>1. i \in DOMAIN tracker.panels
    BY DEF Check, Snapshot, Entry
  <2>2. /\ tracker.panels[i].last = tracker.frame
        /\ tracker.panels[i].start = looks[i].streakStart
    BY <2>1 DEF Check, Snapshot, Entry
  <2>3. Accounts(tracker.panels[i], i, frames, since[i]) /\ tracker.panels[i] \in Streak
    BY <2>1 DEF History
  <2>4. looks[i].streakStart <= looks[i].frameSerial /\ looks[i].streakStart \in Nat
    BY DEF LooksBack
  <2> QED BY <2>2, <2>3, <2>4 DEF Unbroken, Accounts, Streak, Snapshot
<1>2. IInv => NoGapBetweenLooks
  BY <1>1 DEF NoGapBetweenLooks
<1> QED BY <1>2, InvariantHolds, PTL
=============================================================================
