----------------------------- MODULE GateProofs -----------------------------
(***************************************************************************)
(* Proofs about CaptureGate, for any number of panels, frames, signals and *)
(* exits of the daemon.                                                    *)
(***************************************************************************)
EXTENDS CaptureGate, SequenceTheorems, TLAPS

(* Signals come in the order they were sent, and `arrived` counts those    *)
(* that came before an answer.                                             *)
Queued ==
    /\ signals \in Seq(Nat)
    /\ arrived \in 0 .. Len(signals)
    /\ ownerLost \in BOOLEAN /\ lost \in BOOLEAN
    /\ DOMAIN panels \subseteq Ids

Told(n) == ownerLost \/ \E k \in 1 .. n : signals[k] = OwnerLost

Looking == {"live", "create", "look"}

(* An exit of the daemon is under way to the client, or known to it; and a *)
(* client that knows does not look.                                        *)
Warned ==
    /\ lost => pc = "gone" \/ Told(Len(signals))
    /\ ownerLost => pc \notin Looking

(* The look that a new daemon answered was the last one: with the answer   *)
(* came the signal that exposes it.                                        *)
Exposed ==
    /\ blind \in {0, 1}
    /\ blind = 1 => pc = "gone" \/ (Told(arrived) /\ pc \notin Looking)

(* The tracker's entries are streaks that have not ended in the future *)
Tracked ==
    /\ tracker.frame \in Nat
    /\ \A i \in DOMAIN tracker.panels :
          LET e == tracker.panels[i]
          IN  e.last \in Nat /\ e.start \in Nat \ {0} /\ e.start <= e.last /\ e.last <= tracker.frame

(* What the client remembers is from a daemon that has not exited *)
Remembered ==
    /\ entry \in Nat /\ streak \in Nat /\ frame \in Nat
    /\ stage \in {"ready", "await"} => entry = 0
    /\ stage = "ready" => disclosureId = 0
    /\ entry > 0 \/ stage = "await" => disclosureId # 0
    /\ entry = 0 => ~ omitted /\ streak = 0
    /\ ~ lost => streak <= tracker.frame
    /\ pc = "create" => stage = "ready"

(* An omission leaves its mark in the disclosure's entry for ever: it is   *)
(* out of date, gone, or of a streak that began after the one remembered.  *)
Marked ==
    LET e == Entry(tracker, disclosureId)
    IN  omitted /\ ~ lost => e.start = 0 \/ e.last < tracker.frame \/ e.start > streak

IInv == Queued /\ Warned /\ Exposed /\ Tracked /\ Remembered /\ Marked

----------------------------------------------------------------------------
(* The queue of signals *)

(* Sending a signal loses none of those before it. *)
LEMMA SendKeeps ==
    ASSUME Queued, NEW s \in Nat, Send(s), UNCHANGED ownerLost
    PROVE  /\ signals' \in Seq(Nat) /\ arrived' \in 0 .. Len(signals')
           /\ Told(Len(signals)) => Told(Len(signals))'
           /\ Told(arrived) => Told(arrived)'
           /\ s = OwnerLost => pc = "gone" \/ Told(Len(signals))'
<1>0. signals \in Seq(Nat) /\ arrived \in 0 .. Len(signals) /\ arrived' = arrived
      /\ Len(signals) \in Nat
  BY DEF Queued, Send
<1>1. CASE pc = "gone"
  <2>1. signals' = signals
    BY <1>1 DEF Send
  <2>2. QED
    BY <1>0, <1>1, <2>1 DEF Told
<1>2. CASE pc # "gone"
  <2>1. signals' = Append(signals, s)
    BY <1>2 DEF Send
  <2>2. /\ signals' \in Seq(Nat) /\ Len(signals') = Len(signals) + 1
        /\ \A k \in 1 .. Len(signals) : signals'[k] = signals[k]
        /\ signals'[Len(signals) + 1] = s
    BY <1>0, <2>1
  <2>3. Told(Len(signals)) => Told(Len(signals))'
    BY <1>0, <2>2 DEF Told
  <2>4. Told(arrived) => Told(arrived)'
    <3>1. \A k \in 1 .. arrived : signals'[k] = signals[k]
      BY <1>0, <2>2
    <3>2. QED
      BY <1>0, <3>1 DEF Told
  <2>5. s = OwnerLost => Told(Len(signals))'
    BY <1>0, <2>2 DEF Told
  <2>6. QED
    BY <1>0, <2>2, <2>3, <2>4, <2>5
<1>3. QED
  BY <1>1, <1>2

(* After a drain the client knows what had arrived, and what it does not   *)
(* know yet is still in the queue.                                         *)
LEMMA DrainTells ==
    ASSUME Queued, Drain
    PROVE  /\ signals' \in Seq(Nat) /\ arrived' \in 0 .. Len(signals')
           /\ ownerLost' \in BOOLEAN
           /\ Told(arrived) => ownerLost'
           /\ Told(Len(signals)) => Told(Len(signals))'
           /\ ownerLost => ownerLost'
<1>0. signals \in Seq(Nat) /\ arrived \in 0 .. Len(signals) /\ ownerLost \in BOOLEAN
      /\ Len(signals) \in Nat
  BY DEF Queued
<1>1. PICK n \in arrived .. Len(signals) :
         /\ signals' = SubSeq(signals, n + 1, Len(signals))
         /\ arrived' = 0
         /\ ownerLost' = (ownerLost \/ Loses({signals[k] : k \in 1 .. n}))
  BY DEF Drain
<1>2. n \in 0 .. Len(signals) /\ arrived <= n
  BY <1>0, <1>1
<1>3. ownerLost' \in BOOLEAN /\ (ownerLost => ownerLost')
  BY <1>0, <1>1 DEF Loses
<1>4. \A k \in 1 .. n : signals[k] = OwnerLost => ownerLost'
  BY <1>1 DEF Loses
<1>5. /\ signals' \in Seq(Nat) /\ Len(signals') = Len(signals) - n
      /\ \A k \in 1 .. Len(signals) - n : signals'[k] = signals[n + k]
  BY <1>0, <1>1, <1>2, SubSeqProperties
<1>6. Told(arrived) => ownerLost'
  BY <1>0, <1>2, <1>3, <1>4 DEF Told
<1>7. ASSUME Told(Len(signals)) PROVE Told(Len(signals))'
  <2>1. CASE ownerLost
    BY <2>1, <1>3 DEF Told
  <2>2. CASE \E k \in 1 .. Len(signals) : signals[k] = OwnerLost
    <3>1. PICK k \in 1 .. Len(signals) : signals[k] = OwnerLost
      BY <2>2
    <3>2. CASE k <= n
      BY <1>0, <1>4, <3>1, <3>2 DEF Told
    <3>3. CASE k > n
      <4>1. k - n \in 1 .. Len(signals) - n /\ n + (k - n) = k
        BY <1>0, <1>2, <3>1, <3>3
      <4>2. signals'[k - n] = OwnerLost
        BY <1>5, <3>1, <4>1
      <4>3. QED
        BY <1>5, <4>1, <4>2 DEF Told
    <3>4. QED
      BY <1>0, <1>2, <3>1, <3>2, <3>3
  <2>3. QED
    BY <1>7, <2>1, <2>2 DEF Told
<1>8. QED
  BY <1>1, <1>3, <1>5, <1>6, <1>7

(* With an answer comes all that was sent before it. *)
LEMMA RepliedTells ==
    ASSUME Queued, Replied, UNCHANGED ownerLost
    PROVE  /\ signals' \in Seq(Nat) /\ arrived' \in 0 .. Len(signals')
           /\ Told(Len(signals)) => Told(Len(signals))'
           /\ Told(Len(signals)) => Told(arrived)'
           /\ Told(arrived) => Told(arrived)'
<1>1. signals \in Seq(Nat) /\ arrived \in 0 .. Len(signals) /\ signals' = signals
      /\ arrived' = Len(signals) /\ Len(signals) \in Nat
  BY DEF Queued, Replied
<1>2. QED
  BY <1>1 DEF Told

----------------------------------------------------------------------------
(* Every step keeps the invariant *)

(* The invariant's variables but pc, stage and panels *)
known == <<signals, arrived, ownerLost, tracker, entry, frame, streak, disclosureId,
           omitted, lost, blind>>

(* A step that touches nothing of what the client knows, and leads nowhere *)
(* near a look.                                                            *)
LEMMA AwayKeeps ==
    ASSUME IInv, UNCHANGED known, DOMAIN panels' \subseteq Ids,
           pc' = pc \/ (pc # "gone" /\ pc' \notin Looking),
           stage' = stage \/ (stage' = "capture" /\ pc' \notin Looking)
    PROVE  IInv'
<1>1. Queued'
  BY DEF IInv, Queued, known
<1>2. Warned'
  BY DEF IInv, Warned, Told, Looking, known
<1>3. Exposed'
  BY DEF IInv, Exposed, Told, Looking, known
<1>4. Tracked'
  BY DEF IInv, Tracked, known
<1>5. Remembered'
  <2>1. stage' \in {"ready", "await"} => stage' = stage
    OBVIOUS
  <2>2. pc' = "create" => pc = "create" /\ stage' = stage
    BY DEF Looking
  <2>3. UNCHANGED <<tracker, entry, frame, streak, disclosureId, omitted, lost>>
    BY DEF known
  <2>4. /\ entry' \in Nat /\ streak' \in Nat /\ frame' \in Nat
        /\ stage' \in {"ready", "await"} => entry' = 0
        /\ stage' = "ready" => disclosureId' = 0
        /\ entry' > 0 \/ stage' = "await" => disclosureId' # 0
    BY <2>1, <2>3 DEF IInv, Remembered
  <2>5. entry' = 0 => ~ omitted' /\ streak' = 0
    BY <2>3 DEF IInv, Remembered
  <2>6. ~ lost' => streak' <= tracker'.frame
    BY <2>3 DEF IInv, Remembered
  <2>7. pc' = "create" => stage' = "ready"
    BY <2>2 DEF IInv, Remembered
  <2>8. QED
    BY <2>4, <2>5, <2>6, <2>7 DEF Remembered
<1>6. Marked'
  BY DEF IInv, Marked, Entry, known
<1>7. QED
  BY <1>1, <1>2, <1>3, <1>4, <1>5, <1>6 DEF IInv

(* Before the first step nothing is shown, exposed or remembered.          *)
LEMMA InitHolds == Init => IInv
<1> SUFFICES ASSUME Init PROVE IInv
  OBVIOUS
<1>1. Queued
  <2>1. DOMAIN panels = {}
    BY DEF Init
  <2>2. signals \in Seq(Nat) /\ Len(signals) = 0
    BY DEF Init
  <2>3. QED
    <3>1. arrived \in 0 .. Len(signals)
      BY <2>2 DEF Init
    <3>2. ownerLost \in BOOLEAN /\ lost \in BOOLEAN
      BY DEF Init
    <3>3. QED
      BY <2>1, <2>2, <3>1, <3>2 DEF Queued
<1>2. Warned
  BY DEF Init, Warned, Looking
<1>3. Exposed
  BY DEF Init, Exposed
<1>4. Tracked
  BY DEF Init, Tracked, NewTracker
<1>5. Remembered
  BY DEF Init, Remembered, NewTracker
<1>6. Marked
  BY DEF Init, Marked
<1>7. QED
  BY <1>1, <1>2, <1>3, <1>4, <1>5, <1>6 DEF IInv

(* What the daemon knows of the disclosure, in or out of a frame *)
LEMMA FrameKeeps ==
    ASSUME IInv, NEW S \in SUBSET DOMAIN panels, Frame(S)
    PROVE  IInv'
<1> DEFINE t == tracker.panels
           n == tracker.frame + 1
<1>0. /\ UNCHANGED <<panels, signals, arrived, ownerLost, lost, blind, pc, stage, entry,
                     frame, streak, disclosureId>>
      /\ omitted' = (omitted \/ \E i \in Ids \ S : Watched(i))
      /\ tracker'.frame = n
      /\ DOMAIN tracker'.panels = DOMAIN t \cup S
      /\ \A i \in DOMAIN tracker'.panels :
            tracker'.panels[i] = IF i \in S THEN Extended(Entry(tracker, i), n) ELSE t[i]
  BY DEF Frame, RecordFrame, queue, client, source
<1>1. tracker.frame \in Nat /\ S \subseteq Ids
  BY DEF IInv, Tracked, Queued
<1>2. \A i \in DOMAIN t : /\ t[i].last \in Nat /\ t[i].start \in Nat \ {0}
                          /\ t[i].start <= t[i].last /\ t[i].last <= tracker.frame
  BY DEF IInv, Tracked
<1>3. \A i : i \in S =>
         LET e == Entry(tracker, i)
             x == tracker'.panels[i]
         IN  /\ x.last = n
             /\ e.start # 0 /\ e.last = tracker.frame => x.start = e.start /\ x.start \in Nat \ {0}
                                                          /\ x.start <= n
             /\ ~ (e.start # 0 /\ e.last = tracker.frame) => x.start = n
  <2> SUFFICES ASSUME NEW i \in S
               PROVE  LET e == Entry(tracker, i)
                          x == tracker'.panels[i]
                      IN  /\ x.last = n
                          /\ e.start # 0 /\ e.last = tracker.frame =>
                                x.start = e.start /\ x.start \in Nat \ {0} /\ x.start <= n
                          /\ ~ (e.start # 0 /\ e.last = tracker.frame) => x.start = n
    OBVIOUS
  <2>1. tracker'.panels[i] = Extended(Entry(tracker, i), n)
    BY <1>0
  <2>2. /\ Entry(tracker, i).start \in Nat /\ Entry(tracker, i).last \in Nat
        /\ Entry(tracker, i).start <= tracker.frame
    BY <1>1, <1>2 DEF Entry
  <2>3. QED
    BY <1>1, <2>1, <2>2 DEF Extended
<1>4. Tracked'
  <2>1. ASSUME NEW i \in DOMAIN tracker'.panels
        PROVE  LET e == tracker'.panels[i]
               IN  e.last \in Nat /\ e.start \in Nat \ {0} /\ e.start <= e.last /\ e.last <= n
    <3>1. CASE i \in S
      BY <1>1, <1>3, <3>1
    <3>2. CASE i \notin S
      BY <1>0, <1>1, <1>2, <3>2
    <3>3. QED
      BY <3>1, <3>2
  <2>2. QED
    BY <1>0, <1>1, <2>1 DEF Tracked
<1>5. Marked'
  <2> SUFFICES ASSUME omitted', ~ lost
               PROVE  LET e == Entry(tracker, disclosureId)'
                      IN  e.start = 0 \/ e.last < n \/ e.start > streak
    BY <1>0 DEF Marked
  <2>1. streak \in Nat /\ streak <= tracker.frame
    BY DEF IInv, Remembered
  <2>2. CASE disclosureId \in S
    <3>1. omitted
      BY <1>0, <2>2 DEF Watched
    <3>2. LET e == Entry(tracker, disclosureId)
          IN  e.start = 0 \/ e.last < tracker.frame \/ e.start > streak
      BY <3>1 DEF IInv, Marked
    <3>3. Entry(tracker, disclosureId)' = tracker'.panels[disclosureId]
      BY <1>0, <2>2 DEF Entry
    <3>4. Entry(tracker, disclosureId).last \in Nat
      BY <1>2 DEF Entry
    <3>5. CASE Entry(tracker, disclosureId).start # 0 /\ Entry(tracker, disclosureId).last = tracker.frame
      BY <1>1, <1>3, <2>2, <3>2, <3>3, <3>5
    <3>6. CASE ~ (Entry(tracker, disclosureId).start # 0 /\ Entry(tracker, disclosureId).last = tracker.frame)
      <4>1. tracker'.panels[disclosureId].start = n
        BY <1>3, <2>2, <3>6
      <4>2. QED
        BY <1>1, <2>1, <3>3, <4>1
    <3>7. QED
      BY <3>5, <3>6
  <2>3. CASE disclosureId \notin S
    BY <1>0, <1>1, <1>2, <2>3 DEF Entry
  <2>4. QED
    BY <2>2, <2>3
<1>6. Queued' /\ Warned' /\ Exposed'
  BY <1>0 DEF IInv, Queued, Warned, Exposed, Told
<1>7. Remembered'
  <2>1. ~ lost => streak <= tracker'.frame
    BY <1>0, <1>1 DEF IInv, Remembered
  <2>2. entry = 0 => ~ omitted'
    <3>1. entry = 0 => ~ omitted /\ ~ (entry > 0)
      BY DEF IInv, Remembered
    <3>2. QED
      BY <1>0, <3>1 DEF Watched
  <2>3. QED
    BY <1>0, <2>1, <2>2 DEF IInv, Remembered
<1>8. QED
  BY <1>4, <1>5, <1>6, <1>7 DEF IInv

(* The tracker forgets the panels S, and the client is told, or is gone. *)
LEMMA EmitKeeps ==
    ASSUME IInv, NEW S, Emit(S),
           UNCHANGED <<ownerLost, stage, entry, frame, streak, disclosureId>>,
           signals' \in Seq(Nat), arrived' \in 0 .. Len(signals'),
           \/ pc' = "gone"
           \/ /\ pc' = pc
              /\ Told(Len(signals)) => Told(Len(signals))'
              /\ Told(arrived) => Told(arrived)'
    PROVE  IInv'
<1>0. /\ DOMAIN panels' \subseteq DOMAIN panels
      /\ tracker'.frame = tracker.frame
      /\ DOMAIN tracker'.panels = DOMAIN tracker.panels \ S
      /\ \A i \in DOMAIN tracker'.panels : tracker'.panels[i] = tracker.panels[i]
      /\ omitted' = (omitted \/ \E i \in S : Watched(i))
      /\ UNCHANGED <<lost, blind>>
  BY DEF Emit, ForgetAll, Without
<1>1. Queued'
  BY <1>0 DEF IInv, Queued
<1>2. Warned' /\ Exposed'
  <2>1. CASE pc' = "gone"
    BY <1>0, <2>1 DEF IInv, Warned, Exposed, Looking
  <2>2. CASE /\ pc' = pc
             /\ Told(Len(signals)) => Told(Len(signals))'
             /\ Told(arrived) => Told(arrived)'
    <3>1. Warned'
      BY <1>0, <2>2 DEF IInv, Warned, Looking
    <3>2. Exposed'
      BY <1>0, <2>2 DEF IInv, Exposed, Looking
    <3>3. QED
      BY <3>1, <3>2
  <2>3. QED
    BY <2>1, <2>2
<1>3. Tracked'
  BY <1>0 DEF IInv, Tracked
<1>4. Remembered'
  <2>0. pc' = "gone" \/ pc' = pc
    OBVIOUS
  <2>1. pc' = "create" => stage' = "ready"
    <3>1. pc = "create" => stage = "ready"
      BY DEF IInv, Remembered
    <3>2. QED
      BY <2>0, <3>1
  <2>2. entry = 0 => ~ omitted' /\ streak = 0
    <3>1. entry = 0 => ~ omitted /\ streak = 0 /\ ~ (entry > 0)
      BY DEF IInv, Remembered
    <3>2. QED
      BY <1>0, <3>1 DEF Watched
  <2>3. ~ lost' => streak' <= tracker'.frame
    BY <1>0 DEF IInv, Remembered
  <2>4. /\ entry' \in Nat /\ streak' \in Nat /\ frame' \in Nat
        /\ stage' \in {"ready", "await"} => entry' = 0
        /\ stage' = "ready" => disclosureId' = 0
        /\ entry' > 0 \/ stage' = "await" => disclosureId' # 0
    BY DEF IInv, Remembered
  <2>5. QED
    BY <2>1, <2>2, <2>3, <2>4 DEF Remembered
<1>5. Marked'
  <2> DEFINE e == Entry(tracker, disclosureId)
  <2> SUFFICES ASSUME omitted', ~ lost
               PROVE  e'.start = 0 \/ e'.last < tracker.frame \/ e'.start > streak
    BY <1>0 DEF Marked
  <2>1. CASE disclosureId \in S
    BY <1>0, <2>1 DEF Entry
  <2>2. CASE disclosureId \notin S
    <3>1. omitted
      BY <1>0, <2>2 DEF Watched
    <3>2. e' = e
      BY <1>0, <2>2 DEF Entry
    <3>3. QED
      BY <3>1, <3>2 DEF IInv, Marked
  <2>3. QED
    BY <2>1, <2>2
<1>6. QED
  BY <1>1, <1>2, <1>3, <1>4, <1>5 DEF IInv

(* A panel that goes takes nothing with it but its signal, and nobody is   *)
(* told less.                                                              *)
LEMMA RemoveKeeps ==
    ASSUME IInv, NEW i \in DOMAIN panels, Remove(i)
    PROVE  IInv'
<1>1. i \in Nat /\ Queued
  BY IdsAssumption DEF IInv, Queued
<1>2. UNCHANGED <<ownerLost, stage, entry, frame, streak, disclosureId, pc>>
  BY DEF Remove, client
<1>3. /\ signals' \in Seq(Nat) /\ arrived' \in 0 .. Len(signals')
      /\ Told(Len(signals)) => Told(Len(signals))'
      /\ Told(arrived) => Told(arrived)'
  BY <1>1, <1>2, SendKeeps DEF Remove
<1>4. Emit({i})
  BY DEF Remove
<1>5. QED
  BY <1>2, <1>3, <1>4, EmitKeeps

(* When the client is gone its panels are only abandoned.                  *)
LEMMA ClientGoneKeeps ==
    ASSUME IInv, ClientGone
    PROVE  IInv'
<1>1. UNCHANGED <<ownerLost, stage, entry, frame, streak, disclosureId, pc, signals, arrived>>
  BY DEF ClientGone, client, queue
<1>2. signals' \in Seq(Nat) /\ arrived' \in 0 .. Len(signals')
  BY <1>1 DEF IInv, Queued
<1>3. Emit(Abandoned) /\ pc' = "gone"
  BY <1>1 DEF ClientGone
<1>4. QED
  BY <1>1, <1>2, <1>3, EmitKeeps

(* The daemon's exit takes all it knew with it, and is signalled. *)
LEMMA ExitKeeps ==
    ASSUME IInv, Exit
    PROVE  IInv'
<1>0. /\ UNCHANGED <<ownerLost, stage, entry, frame, streak, disclosureId, pc, omitted, blind>>
      /\ tracker' = NewTracker /\ DOMAIN panels' = {}
      /\ lost' = (disclosureId # 0)
  BY DEF Exit, client
<1>1. /\ signals' \in Seq(Nat) /\ arrived' \in 0 .. Len(signals')
      /\ Told(arrived) => Told(arrived)'
      /\ pc = "gone" \/ Told(Len(signals))'
  BY <1>0, SendKeeps DEF Exit, IInv, OwnerLost
<1>2. Queued'
  BY <1>0, <1>1 DEF IInv, Queued
<1>3. Warned' /\ Exposed'
  BY <1>0, <1>1 DEF IInv, Warned, Exposed
<1>4. tracker'.frame = 0 /\ DOMAIN tracker'.panels = {}
  BY <1>0 DEF NewTracker
<1>5. Tracked'
  BY <1>4 DEF Tracked
<1>6. Remembered'
  <2>1. disclosureId = 0 => streak = 0
    BY DEF IInv, Remembered
  <2>2. ~ lost' => streak' <= tracker'.frame
    <3>1. ~ lost' => disclosureId = 0
      BY <1>0
    <3>2. QED
      BY <1>0, <1>4, <2>1, <3>1
  <2>3. QED
    BY <1>0, <2>2 DEF IInv, Remembered
<1>7. Marked'
  BY <1>4 DEF Marked, Entry
<1>8. QED
  BY <1>2, <1>3, <1>5, <1>6, <1>7 DEF IInv

(* A step of the client that learns nothing of the disclosure: it may go   *)
(* to look only if it does not know of an exit.                            *)
LEMMA ClientKeeps ==
    ASSUME IInv, DOMAIN panels' \subseteq Ids,
           UNCHANGED <<tracker, stage, entry, frame, streak, disclosureId, ghosts>>,
           signals' \in Seq(Nat), arrived' \in 0 .. Len(signals'), ownerLost' \in BOOLEAN,
           Told(Len(signals)) => Told(Len(signals))',
           Told(arrived) => Told(arrived)',
           pc # "gone", pc' = "create" => stage = "ready",
           pc' \in Looking => ~ ownerLost',
           pc' \in Looking => pc \in Looking \/ (Told(arrived) => ownerLost')
    PROVE  IInv'
<1>0. UNCHANGED <<omitted, lost, blind>>
  BY DEF ghosts
<1>1. Queued'
  BY <1>0 DEF IInv, Queued
<1>2. Warned'
  BY <1>0 DEF IInv, Warned
<1>3. Exposed'
  <2>1. blind' \in {0, 1}
    BY <1>0 DEF IInv, Exposed
  <2>2. ASSUME blind' = 1 PROVE Told(arrived)' /\ pc' \notin Looking
    <3>1. Told(arrived) /\ pc \notin Looking
      BY <1>0, <2>2 DEF IInv, Exposed
    <3>2. QED
      BY <3>1
  <2>3. QED
    BY <2>1, <2>2 DEF Exposed
<1>4. Tracked'
  BY DEF IInv, Tracked
<1>5. Remembered'
  <2>1. ~ lost' => streak' <= tracker'.frame
    BY <1>0 DEF IInv, Remembered
  <2>2. entry' = 0 => ~ omitted' /\ streak' = 0
    BY <1>0 DEF IInv, Remembered
  <2>3. QED
    BY <2>1, <2>2 DEF IInv, Remembered
<1>6. Marked'
  BY <1>0 DEF IInv, Marked, Entry
<1>7. QED
  BY <1>1, <1>2, <1>3, <1>4, <1>5, <1>6 DEF IInv

(* Whatever comes of it, a call loses no signal. *)
LEMMA CallTells ==
    ASSUME IInv, Replied \/ Failed, UNCHANGED ownerLost
    PROVE  /\ signals' \in Seq(Nat) /\ arrived' \in 0 .. Len(signals') /\ ownerLost' \in BOOLEAN
           /\ Told(Len(signals)) => Told(Len(signals))'
           /\ Told(arrived) => Told(arrived)'
<1>1. CASE Replied
  BY <1>1, RepliedTells DEF IInv, Queued
<1>2. CASE Failed
  BY <1>2 DEF Failed, queue, IInv, Queued, Told
<1>3. QED
  BY <1>1, <1>2

(* Reading the signals can at most end the run of the client.              *)
LEMMA ProcessKeeps ==
    ASSUME IInv, Process
    PROVE  IInv'
<1>1. /\ UNCHANGED <<tracker, panels, stage, entry, frame, streak, disclosureId, ghosts>>
      /\ pc = "process" /\ Drain
      /\ ownerLost' => pc' \in {"close", "stop"}
      /\ ~ ownerLost' => pc' = "live"
  BY DEF Process, daemon, GiveUp, Goto
<1>2. /\ signals' \in Seq(Nat) /\ arrived' \in 0 .. Len(signals') /\ ownerLost' \in BOOLEAN
      /\ Told(arrived) => ownerLost'
      /\ Told(Len(signals)) => Told(Len(signals))'
  BY <1>1, DrainTells DEF IInv
<1>3. Told(arrived) => Told(arrived)'
  BY <1>2 DEF Told
<1>4. pc' \in Looking => ~ ownerLost'
  BY <1>1 DEF Looking
<1>5. pc # "gone" /\ pc' # "create" /\ DOMAIN panels' \subseteq Ids
  BY <1>1, <1>2 DEF IInv, Queued
<1>6. QED
  BY <1>1, <1>2, <1>3, <1>4, <1>5, ClientKeeps

(* A reply, or its failure, decides where the client goes on.              *)
LEMMA LiveKeeps ==
    ASSUME IInv, Live
    PROVE  IInv'
<1>1. /\ UNCHANGED <<tracker, panels, stage, entry, frame, streak, disclosureId, ghosts, ownerLost>>
      /\ pc = "live" /\ (Replied \/ Failed)
      /\ pc' \in {"create", "look", "process", "close", "stop"}
      /\ pc' = "create" => stage = "ready"
  BY DEF Live, daemon, GiveUp, Goto
<1>2. /\ signals' \in Seq(Nat) /\ arrived' \in 0 .. Len(signals') /\ ownerLost' \in BOOLEAN
      /\ Told(Len(signals)) => Told(Len(signals))'
      /\ Told(arrived) => Told(arrived)'
  BY <1>1, CallTells
<1>3. pc \in Looking /\ ~ ownerLost'
  BY <1>1 DEF IInv, Warned, Looking
<1>4. pc # "gone" /\ DOMAIN panels' \subseteq Ids
  BY <1>1 DEF IInv, Queued
<1>5. QED
  BY <1>1, <1>2, <1>3, <1>4, ClientKeeps

(* A line is read, or the sources are drained before one.                  *)
LEMMA LineKeeps ==
    ASSUME IInv, Line
    PROVE  IInv'
<1>1. /\ UNCHANGED <<tracker, panels, stage, entry, frame, streak, disclosureId, ghosts>>
      /\ pc = "read" /\ pc' \in {"read", "sync"}
      /\ Drain \/ UNCHANGED <<signals, arrived, ownerLost>>
  BY DEF Line, daemon, queue, Goto
<1>2. /\ signals' \in Seq(Nat) /\ arrived' \in 0 .. Len(signals') /\ ownerLost' \in BOOLEAN
      /\ Told(Len(signals)) => Told(Len(signals))'
      /\ Told(arrived) => Told(arrived)'
  <2>1. CASE Drain
    <3>1. ownerLost' => Told(arrived)'
      BY DEF Told
    <3>2. QED
      BY <2>1, <3>1, DrainTells DEF IInv
  <2>2. CASE UNCHANGED <<signals, arrived, ownerLost>>
    BY <2>2 DEF IInv, Queued, Told
  <2>3. QED
    BY <1>1, <2>1, <2>2
<1>3. pc # "gone" /\ pc' # "create" /\ pc' \notin Looking /\ DOMAIN panels' \subseteq Ids
  BY <1>1 DEF IInv, Queued, Looking
<1>4. QED
  BY <1>1, <1>2, <1>3, ClientKeeps

(* The history panel is none of those the gate looks at.                   *)
LEMMA SyncKeeps ==
    ASSUME IInv, Sync
    PROVE  IInv'
<1>1. /\ UNCHANGED <<tracker, stage, entry, frame, streak, disclosureId, ghosts, ownerLost>>
      /\ pc = "sync" /\ pc' = "read" /\ (Replied \/ Failed)
      /\ UNCHANGED panels \/ Add("keys")
  BY DEF Sync, daemon, Add, Goto
<1>2. DOMAIN panels' \subseteq Ids
  BY <1>1 DEF IInv, Queued, Add
<1>3. /\ signals' \in Seq(Nat) /\ arrived' \in 0 .. Len(signals') /\ ownerLost' \in BOOLEAN
      /\ Told(Len(signals)) => Told(Len(signals))'
      /\ Told(arrived) => Told(arrived)'
  BY <1>1, CallTells
<1>4. pc # "gone" /\ pc' # "create" /\ pc' \notin Looking
  BY <1>1 DEF Looking
<1>5. QED
  BY <1>1, <1>2, <1>3, <1>4, ClientKeeps

(* The disclosure is new: no frame has shown it. *)
LEMMA CreateKeeps ==
    ASSUME IInv, Create
    PROVE  IInv'
<1>1. /\ UNCHANGED <<tracker, entry, frame, streak, ghosts, ownerLost>>
      /\ pc = "create" /\ (Replied \/ Failed)
      /\ UNCHANGED panels \/ Add("keys")
  BY DEF Create, daemon, Add
<1>2. DOMAIN panels' \subseteq Ids
  BY <1>1 DEF IInv, Queued, Add
<1>3. /\ signals' \in Seq(Nat) /\ arrived' \in 0 .. Len(signals') /\ ownerLost' \in BOOLEAN
      /\ Told(Len(signals)) => Told(Len(signals))'
      /\ Told(arrived) => Told(arrived)'
  BY <1>1, CallTells
<1>4. CASE UNCHANGED <<stage, disclosureId>> /\ pc' \in {"close", "stop"}
  <2>1. pc # "gone" /\ pc' # "create" /\ pc' \notin Looking
    BY <1>1, <1>4 DEF Looking
  <2>2. QED
    BY <1>1, <1>2, <1>3, <1>4, <2>1, ClientKeeps
<1>5. CASE /\ disclosureId' = nextId /\ nextId \in Ids
           /\ stage' = "await" /\ pc' = "process"
  <2>1. stage = "ready" /\ entry = 0 /\ entry \in Nat /\ ~ omitted /\ streak = 0
    BY <1>1 DEF IInv, Remembered
  <2>2. disclosureId' # 0
    BY <1>5, IdsAssumption DEF OwnerLost
  <2>3. UNCHANGED <<omitted, lost, blind>>
    BY <1>1 DEF ghosts
  <2>4. Queued'
    BY <1>2, <1>3, <2>3 DEF IInv, Queued
  <2>5. pc # "gone" /\ pc' \notin Looking
    BY <1>1, <1>5 DEF Looking
  <2>6. Warned'
    BY <1>3, <2>3, <2>5 DEF IInv, Warned
  <2>7. Exposed'
    BY <1>3, <2>3, <2>5 DEF IInv, Exposed
  <2>8. Tracked'
    BY <1>1 DEF IInv, Tracked
  <2>9. Remembered'
    <3>1. ~ lost' => streak' <= tracker'.frame
      BY <1>1, <2>3 DEF IInv, Remembered
    <3>2. QED
      BY <1>1, <1>5, <2>1, <2>2, <2>3, <3>1 DEF IInv, Remembered
  <2>10. Marked'
    BY <2>1, <2>3 DEF Marked
  <2>11. QED
    BY <2>4, <2>6, <2>7, <2>8, <2>9, <2>10 DEF IInv
<1>6. QED
  BY <1>4, <1>5 DEF Create, Add, GiveUp, Goto

(* The client goes: nothing will be looked at again. *)
LEMMA CloseKeeps ==
    ASSUME IInv, Close
    PROVE  IInv'
<1>1. /\ UNCHANGED <<ownerLost, stage, entry, frame, streak, disclosureId>>
      /\ pc' = "gone" /\ signals' = << >> /\ arrived' = 0
  BY DEF Close, Goto
<1>2. signals' \in Seq(Nat) /\ arrived' \in 0 .. Len(signals')
  BY <1>1
<1>3. CASE Emit({panelId})
  BY <1>1, <1>2, <1>3, EmitKeeps
<1>4. CASE UNCHANGED <<daemon, ghosts>>
  <2>1. UNCHANGED <<panels, tracker, omitted, lost, blind>>
    BY <1>4 DEF daemon, ghosts
  <2>2. Queued' /\ Tracked'
    BY <1>1, <1>2, <2>1 DEF IInv, Queued, Tracked
  <2>3. Warned' /\ Exposed'
    BY <1>1, <2>1 DEF IInv, Warned, Exposed, Looking
  <2>4. Remembered'
    <3>1. ~ lost' => streak' <= tracker'.frame
      BY <1>1, <2>1 DEF IInv, Remembered
    <3>2. QED
      BY <1>1, <2>1, <3>1 DEF IInv, Remembered
  <2>5. Marked'
    BY <1>1, <2>1 DEF IInv, Marked, Entry
  <2>6. QED
    BY <2>2, <2>3, <2>4, <2>5 DEF IInv
<1>5. QED
  BY <1>3, <1>4 DEF Close

(* A crash of the client leaves what the daemon has remembered.            *)
LEMMA CrashKeeps ==
    ASSUME IInv, Crash
    PROVE  IInv'
<1>1. /\ UNCHANGED <<ownerLost, stage, entry, frame, streak, disclosureId,
                     panels, tracker, omitted, lost, blind>>
      /\ pc' = "gone" /\ signals' = << >> /\ arrived' = 0
  BY DEF Crash, Goto, daemon, ghosts
<1>2. signals' \in Seq(Nat) /\ arrived' \in 0 .. Len(signals')
  BY <1>1
<1>3. Queued' /\ Tracked'
  BY <1>1, <1>2 DEF IInv, Queued, Tracked
<1>4. Warned' /\ Exposed'
  BY <1>1 DEF IInv, Warned, Exposed, Looking
<1>5. Remembered'
  <2>1. ~ lost' => streak' <= tracker'.frame
    BY <1>1 DEF IInv, Remembered
  <2>2. QED
    BY <1>1, <2>1 DEF IInv, Remembered
<1>6. Marked'
  BY <1>1 DEF IInv, Marked, Entry
<1>7. QED
  BY <1>3, <1>4, <1>5, <1>6 DEF IInv

(* A look that the client takes for good finds the disclosure in the last  *)
(* frame, and either for the first time or in the streak remembered: the   *)
(* mark of an omission is not there, unless the tracker is another.        *)
LEMMA GoodLooks ==
    ASSUME IInv, NEW s, s = Snapshot(tracker, disclosureId),
           Check(s) = "current", stage = "await" \/ (stage # "ready" /\ Same(s)), Passes(s)
    PROVE  /\ ~ omitted \/ lost
           /\ disclosureId # 0
           /\ entry' \in Nat /\ entry' > 0
           /\ frame' \in Nat
           /\ streak' \in Nat /\ streak' <= tracker.frame
<1> DEFINE e == Entry(tracker, disclosureId)
<1>1. /\ s.panelSerial = e.last /\ s.frameSerial = tracker.frame /\ s.streakStart = e.start
  BY DEF Snapshot
<1>2. e.last # 0 /\ e.last = tracker.frame
  BY <1>1 DEF Check
<1>3. disclosureId \in DOMAIN tracker.panels
  BY <1>2 DEF Entry
<1>4. /\ tracker.frame \in Nat
      /\ e.start \in Nat \ {0} /\ e.start <= tracker.frame
  BY <1>2, <1>3 DEF IInv, Tracked, Entry
<1>9. frame \in Nat
  BY DEF IInv, Remembered
<1>5. /\ entry' = (IF stage = "await" THEN tracker.frame ELSE entry)
      /\ frame' \in {frame, tracker.frame} /\ streak' = e.start
  BY <1>1 DEF Passes
<1>6. CASE stage = "await"
  <2>1. entry = 0 /\ disclosureId # 0 /\ ~ omitted
    BY <1>6 DEF IInv, Remembered
  <2>2. QED
    BY <1>2, <1>4, <1>5, <1>6, <1>9, <2>1
<1>7. CASE stage # "await"
  <2>1. streak = e.start
    BY <1>1, <1>7 DEF Same
  <2>2. entry \in Nat /\ entry # 0 /\ entry' = entry
    BY <1>4, <1>5, <1>7, <2>1 DEF IInv, Remembered
  <2>3. disclosureId # 0
    BY <2>2 DEF IInv, Remembered
  <2>4. ~ omitted \/ lost
    BY <1>2, <1>4, <2>1 DEF IInv, Marked
  <2>5. QED
    BY <1>4, <1>5, <1>9, <2>2, <2>3, <2>4
<1>8. QED
  BY <1>6, <1>7

(* The answer that passes for the old daemon's comes with the signal that  *)
(* the old one has gone: the client will not look again.                   *)
LEMMA LookKeeps ==
    ASSUME IInv, Look
    PROVE  IInv'
<1> DEFINE s == Snapshot(tracker, disclosureId)
<1>1. /\ UNCHANGED <<tracker, panels, ownerLost, disclosureId, omitted, lost>>
      /\ pc = "look" /\ (Replied \/ Failed)
  BY DEF Look, daemon
<1>2. /\ signals' \in Seq(Nat) /\ arrived' \in 0 .. Len(signals') /\ ownerLost' \in BOOLEAN
      /\ Told(Len(signals)) => Told(Len(signals))'
      /\ Told(arrived) => Told(arrived)'
  BY <1>1, CallTells
<1>3. pc # "gone" /\ DOMAIN panels' \subseteq Ids /\ pc \in Looking
  BY <1>1 DEF IInv, Queued, Looking
<1>4. CASE /\ UNCHANGED <<stage, entry, frame, streak, blind>>
           /\ pc' \in {"process", "close", "stop"}
  <2>1. pc' # "create" /\ pc' \notin Looking /\ UNCHANGED ghosts
    BY <1>1, <1>4 DEF Looking, ghosts
  <2>2. QED
    BY <1>1, <1>2, <1>3, <1>4, <2>1, ClientKeeps
<1>5. CASE /\ Replied /\ Check(s) = "current" /\ Passes(s)
           /\ stage = "await" \/ (stage # "ready" /\ Same(s))
           /\ pc' \in {"process", "read", "reap"}
           /\ stage' = "dwell" \/ (stage # "await" /\ UNCHANGED stage)
  <2>1. /\ ~ omitted \/ lost
        /\ disclosureId # 0
        /\ entry' \in Nat /\ entry' > 0
        /\ frame' \in Nat
        /\ streak' \in Nat /\ streak' <= tracker.frame
    BY <1>5, GoodLooks
  <2>2. pc' \notin Looking /\ pc' # "create"
    BY <1>5 DEF Looking
  <2>3. Queued'
    BY <1>1, <1>2, <1>3 DEF IInv, Queued
  <2>4. Warned'
    BY <1>1, <1>2, <1>3, <2>2 DEF IInv, Warned
  <2>5. Exposed'
    <3>1. blind = 0
      BY <1>3 DEF IInv, Exposed
    <3>2. CASE lost
      <4>1. Told(Len(signals))
        BY <1>3, <3>2 DEF IInv, Warned
      <4>2. Told(arrived)'
        BY <1>1, <1>5, <4>1, RepliedTells DEF IInv
      <4>3. blind' = 1
        BY <1>5, <3>1, <3>2 DEF Passes
      <4>4. QED
        BY <2>2, <4>2, <4>3 DEF Exposed
    <3>3. CASE ~ lost
      <4>1. blind' = 0
        BY <1>5, <3>1, <3>3 DEF Passes
      <4>2. QED
        BY <4>1 DEF Exposed
    <3>4. QED
      BY <3>2, <3>3
  <2>6. Tracked'
    BY <1>1 DEF IInv, Tracked
  <2>7. Remembered'
    <3>1. stage' \notin {"ready", "await"}
      BY <1>5
    <3>2. entry' # 0 /\ streak' <= tracker'.frame
      BY <1>1, <2>1
    <3>3. QED
      BY <1>1, <2>1, <2>2, <3>1, <3>2 DEF Remembered
  <2>8. Marked'
    BY <1>1, <2>1 DEF Marked
  <2>9. QED
    BY <2>3, <2>4, <2>5, <2>6, <2>7, <2>8 DEF IInv
<1>6. QED
  <2>1. CASE Replied /\ Judge(s)
    BY <2>1, <1>4, <1>5 DEF Judge, Unbroken, Goto, GiveUp
  <2>2. CASE Failed /\ GiveUp /\ UNCHANGED <<stage, entry, frame, streak, blind>>
    BY <2>2, <1>4 DEF GiveUp
  <2>3. QED
    BY <2>1, <2>2 DEF Look

(* IInv survives every step of the daemon, the client and the source.      *)
LEMMA StepKeeps ==
    ASSUME IInv, Next
    PROVE  IInv'
<1>0. DOMAIN panels \subseteq Ids
  BY DEF IInv, Queued
<1>1. CASE \E S \in SUBSET DOMAIN panels : Frame(S)
  BY <1>1, FrameKeeps
<1>2. CASE NoFrame
  BY <1>0, <1>2, AwayKeeps DEF NoFrame, queue, client, ghosts, known
<1>3. CASE \E i \in DOMAIN panels : Remove(i)
  BY <1>3, RemoveKeeps
<1>4. CASE OtherCreates
  <2>1. DOMAIN panels' \subseteq Ids
    BY <1>0, <1>4 DEF OtherCreates, Add
  <2>2. QED
    BY <1>4, <2>1, AwayKeeps DEF OtherCreates, Add, queue, client, ghosts, known
<1>5. CASE Exit
  BY <1>5, ExitKeeps
<1>6. CASE Start
  BY <1>0, <1>6, AwayKeeps DEF Start, queue, client, ghosts, known
<1>7. CASE ClientGone
  BY <1>7, ClientGoneKeeps
<1>8. CASE Process
  BY <1>8, ProcessKeeps
<1>9. CASE Live
  BY <1>9, LiveKeeps
<1>10. CASE Create
  BY <1>10, CreateKeeps
<1>11. CASE Look
  BY <1>11, LookKeeps
<1>12. CASE Fork
  BY <1>0, <1>12, AwayKeeps DEF Fork, GiveUp, Goto, daemon, queue, ghosts, known, Looking
<1>13. CASE Confirm
  BY <1>0, <1>13, AwayKeeps DEF Confirm, Goto, daemon, queue, ghosts, known, Looking
<1>14. CASE Line
  BY <1>14, LineKeeps
<1>15. CASE Sync
  BY <1>15, SyncKeeps
<1>16. CASE EndBatch
  BY <1>0, <1>16, AwayKeeps DEF EndBatch, Goto, daemon, queue, ghosts, known, Looking
<1>17. CASE Reap
  BY <1>0, <1>17, AwayKeeps DEF Reap, daemon, queue, ghosts, known, Looking
<1>18. CASE Stop
  BY <1>0, <1>18, AwayKeeps DEF Stop, Goto, daemon, queue, ghosts, known, Looking
<1>19. CASE Close
  BY <1>19, CloseKeeps
<1>20. CASE Expire
  BY <1>0, <1>20, AwayKeeps DEF Expire, GiveUp, Goto, daemon, queue, ghosts, known, Looking
<1>21. CASE Crash
  BY <1>21, CrashKeeps
<1>22. CASE Child
  BY <1>0, <1>22, AwayKeeps
     DEF Child, Guard, Arm, Exec, Die, ChildGoes, daemon, queue, client, ghosts, known
<1>23. CASE Quit \/ Type
  BY <1>0, <1>23, AwayKeeps DEF Quit, Type, ChildGoes, daemon, queue, client, ghosts, known
<1>24. QED
  BY <1>1, <1>2, <1>3, <1>4, <1>5, <1>6, <1>7, <1>8, <1>9, <1>10, <1>11, <1>12, <1>13, <1>14,
     <1>15, <1>16, <1>17, <1>18, <1>19, <1>20, <1>21, <1>22, <1>23 DEF Next, Daemon, Client

(* A step of none of them changes nothing that IInv reads.                 *)
LEMMA Stutters ==
    ASSUME IInv, UNCHANGED vars
    PROVE  IInv'
BY AwayKeeps DEF vars, daemon, queue, client, source, ghosts, known, IInv, Queued

(* The invariant holds throughout.                                         *)
LEMMA Invariance == Spec => []IInv
<1>1. IInv /\ [Next]_vars => IInv'
  BY StepKeeps, Stutters
<1>2. QED
  BY InitHolds, <1>1, PTL DEF Spec

----------------------------------------------------------------------------
(* The theorems *)

(* However often the daemon exits and comes back, at most one look at a    *)
(* daemon that did not show the disclosure passes.                         *)
THEOREM OneBlindLook == Spec => []AtMostOneBlindLook
<1>1. IInv => AtMostOneBlindLook
  BY DEF IInv, Exposed, AtMostOneBlindLook
<1>2. QED
  BY Invariance, <1>1, PTL

(* The client goes on only while no frame since it first saw the           *)
(* disclosure has left it out.                                             *)
THEOREM GoesOnOnlyIfShown == Spec => LooksTellTruth
<1> DEFINE P == frame' # frame \/ (pc = "look" /\ pc' \in {"read", "reap"}) => ~ omitted \/ lost
<1>1. ASSUME IInv, Next PROVE P
  <2> DEFINE s == Snapshot(tracker, disclosureId)
  <2>1. CASE Look
    <3>1. CASE UNCHANGED frame /\ pc' \in {"process", "close", "stop"}
      BY <3>1
    <3>2. CASE /\ Check(s) = "current" /\ Passes(s)
               /\ stage = "await" \/ (stage # "ready" /\ Same(s))
      BY <1>1, <3>2, GoodLooks
    <3>3. QED
      BY <2>1, <3>1, <3>2 DEF Look, Judge, Unbroken, Goto, GiveUp
  <2>2. CASE ~ Look
    <3>1. UNCHANGED frame
      BY <1>1, <2>2 DEF Next, Daemon, Client, Frame, NoFrame, Remove, OtherCreates, Exit, Start,
         ClientGone, Process, Live, Create, Fork, Confirm, Line, Sync, EndBatch, Reap, Stop, Close,
         Expire, Crash, Child, Guard, Arm, Exec, Die, Quit, Type, ChildGoes, client
    <3>2. pc = "look" => pc' \in {"look", "gone"}
      BY <1>1, <2>2 DEF Next, Daemon, Client, Frame, NoFrame, Remove, OtherCreates, Exit, Start,
         ClientGone, Process, Live, Create, Fork, Confirm, Line, Sync, EndBatch, Reap, Stop, Close,
         Expire, Crash, Child, Guard, Arm, Exec, Die, Quit, Type, ChildGoes, client, Goto
    <3>3. QED
      BY <3>1, <3>2
  <2>3. QED
    BY <2>1, <2>2
<1>2. UNCHANGED vars => P
  BY DEF vars, client
<1>3. IInv /\ [Next]_vars => [P]_vars
  BY <1>1, <1>2
<1>4. QED
  BY Invariance, <1>3, PTL DEF Spec, LooksTellTruth
=============================================================================
