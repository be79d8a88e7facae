--------------------------- MODULE BatteryProofs ---------------------------
(***************************************************************************)
(* For any batteries, thresholds and moods of the bus: no source warns     *)
(* twice in a discharge cycle.  And for any number of changes, timeouts of *)
(* poll() and toasts, refusals and failed readings: while the daemon lives *)
(* and leaves the monitor its panel, the board shows what was read.        *)
(***************************************************************************)
EXTENDS MCBattery, FiniteSetTheorems, SequenceTheorems, TLAPS

Over(s) == reading[s] # Absent /\ CycleOver(reading[s])

(* The laptop's state is asked for only if its percentage was read.        *)
HalfRead == pc = "state" => reading["laptop"] # Absent

(* A source that has warned is not armed, nor is it about to be: what has  *)
(* been read of it does not end the cycle.                                 *)
Spent ==
    /\ reading \in [Sources -> Reading] /\ source \in [Sources -> Reading] /\ HalfRead
    /\ armed \in [Sources -> BOOLEAN] /\ warned \in [Sources -> BOOLEAN]
    /\ \A s \in Sources : warned[s] => ~ armed[s] /\ ~ Over(s)

(* What is read is a reading, whatever fails on the way to it.             *)
LEMMA WhatIsRead ==
    ASSUME reading \in [Sources -> Reading], source \in [Sources -> Reading], HalfRead, Read
    PROVE  \E s \in Sources, r \in Reading : HasRead(s, r) /\ HalfRead'
<1>1. Absent \in Reading /\ {"headset", "laptop"} \subseteq Sources
  BY DEF Reading, Sources
<1>2. PICK ok \in Answers : ReadHeadset(ok) \/ ReadLaptop(ok) \/ ReadState(ok)
  BY DEF Read
<1>3. CASE ReadHeadset(ok)
  <2>1. (IF ok THEN source["headset"] ELSE Absent) \in Reading
    BY <1>1
  <2>2. HalfRead'
    BY <1>3 DEF ReadHeadset, Goto, HalfRead
  <2>3. QED
    BY <1>1, <1>3, <2>1, <2>2 DEF ReadHeadset
<1>4. CASE ReadLaptop(ok)
  <2>1. CASE HasRead("laptop", Absent) /\ pc' = "latch"
    BY <1>1, <2>1 DEF HalfRead
  <2>2. CASE /\ source["laptop"] # Absent /\ pc' = "state"
             /\ HasRead("laptop", [source["laptop"] EXCEPT !.charging = FALSE])
    <3>1. PICK r \in [percent : Percents, charging : BOOLEAN] : r = source["laptop"]
      BY <1>1, <2>2 DEF Reading
    <3>2. PICK read \in Reading : read = [r EXCEPT !.charging = FALSE]
      BY DEF Reading
    <3>3. read # Absent
      <4>1. read.percent = r.percent /\ r.percent \in Nat
        BY <3>2, ConfigAssumption
      <4>2. QED
        BY <4>1 DEF Absent
    <3>4. HasRead("laptop", read)
      BY <2>2, <3>1, <3>2
    <3>5. reading'["laptop"] = read
      BY <1>1, <3>4 DEF HasRead
    <3>6. QED
      BY <1>1, <3>3, <3>4, <3>5 DEF HalfRead
  <2>3. QED
    BY <1>4, <2>1, <2>2 DEF ReadLaptop, Goto
<1>5. CASE ReadState(ok)
  <2>1. PICK c \in BOOLEAN : c = (ok /\ source["laptop"].charging)
    OBVIOUS
  <2>2. reading["laptop"] \in [percent : Percents, charging : BOOLEAN]
    BY <1>1, <1>5 DEF ReadState, HalfRead, Reading
  <2>3. [reading["laptop"] EXCEPT !.charging = c] \in Reading
    BY <2>2 DEF Reading
  <2>4. HasRead("laptop", [reading["laptop"] EXCEPT !.charging = c]) /\ HalfRead'
    BY <1>5, <2>1 DEF ReadState, Goto, HalfRead
  <2>5. QED
    BY <1>1, <2>3, <2>4
<1>6. QED
  BY <1>2, <1>3, <1>4, <1>5

(* A reading ends the cycle of what has warned before it re-arms the latch *)
LEMMA ReadKeeps ==
    ASSUME Spent, Read
    PROVE  Spent'
<1>0. PICK p \in Sources, r \in Reading : HasRead(p, r) /\ HalfRead'
  BY WhatIsRead DEF Spent
<1>1. /\ UNCHANGED <<source, armed>>
      /\ reading' = [reading EXCEPT ![p] = r]
      /\ warned' = [warned EXCEPT ![p] = @ /\ ~ CycleOver(r)]
  BY <1>0 DEF HasRead
<1>2. reading' \in [Sources -> Reading] /\ source' \in [Sources -> Reading]
  BY <1>1 DEF Spent
<1>3. armed' \in [Sources -> BOOLEAN]
  BY <1>1 DEF Spent
<1>4. (warned[p] /\ ~ CycleOver(r)) \in BOOLEAN
  OBVIOUS
<1>5. warned' \in [Sources -> BOOLEAN]
  BY <1>1, <1>4 DEF Spent
<1>6. ASSUME NEW s \in Sources, warned'[s]
      PROVE  ~ armed'[s] /\ ~ Over(s)'
  <2>1. CASE s = p
    <3>1. warned[s] /\ ~ CycleOver(r) /\ reading'[s] = r
      BY <1>1, <1>6, <2>1 DEF Spent
    <3>2. QED
      BY <1>1, <3>1 DEF Spent, Over, CycleOver
  <2>2. CASE s # p
    <3>1. warned[s] /\ reading'[s] = reading[s]
      BY <1>1, <1>6, <2>2 DEF Spent
    <3>2. QED
      BY <1>1, <3>1 DEF Spent, Over, CycleOver
  <2>3. QED
    BY <2>1, <2>2
<1>7. QED
  BY <1>0, <1>2, <1>3, <1>5, <1>6 DEF Spent

(* What warns is disarmed, and what has warned is not armed again by the   *)
(* reading that made it warn.                                              *)
LEMMA WarnKeeps ==
    ASSUME Spent, Warn
    PROVE  Spent'
<1>1. /\ UNCHANGED <<source, reading>>
      /\ armed' = [s \in Sources |-> (armed[s] \/ Rearms(s)) /\ ~ Fires(s)]
      /\ warned' = [s \in Sources |-> warned[s] \/ Fires(s)]
  BY DEF Warn
<1>2. reading' \in [Sources -> Reading] /\ source' \in [Sources -> Reading] /\ HalfRead'
  BY <1>1 DEF Spent, Warn, Goto, HalfRead
<1>3. armed' \in [Sources -> BOOLEAN] /\ warned' \in [Sources -> BOOLEAN]
  <2>1. \A s \in Sources : /\ ((armed[s] \/ Rearms(s)) /\ ~ Fires(s)) \in BOOLEAN
                          /\ (warned[s] \/ Fires(s)) \in BOOLEAN
    OBVIOUS
  <2>2. QED
    BY <1>1, <2>1
<1>4. ASSUME NEW s \in Sources, warned'[s]
      PROVE  ~ armed'[s] /\ ~ Over(s)'
  <2>1. Over(s)' = Over(s)
    BY <1>1 DEF Over, CycleOver
  <2>2. CASE Fires(s)
    BY <1>1, <2>1, <2>2 DEF Fires, Latches, Over, CycleOver, Recovered
  <2>3. CASE ~ Fires(s)
    <3>1. warned[s]
      BY <1>1, <1>4, <2>3
    <3>2. ~ armed[s] /\ ~ Over(s)
      BY <3>1 DEF Spent
    <3>3. ~ Rearms(s)
      BY <3>2 DEF Rearms, Latches, Over, CycleOver, Recovered
    <3>4. QED
      BY <1>1, <2>1, <3>2, <3>3
  <2>4. QED
    BY <2>2, <2>3
<1>5. QED
  BY <1>2, <1>3, <1>4 DEF Spent

(* No other step touches the latch. *)
LEMMA OthersKeep ==
    ASSUME Spent, UNCHANGED <<warned, reading, armed>>, source' \in [Sources -> Reading],
           pc' = pc \/ pc' # "state"
    PROVE  Spent'
<1>1. \A s \in Sources : Over(s)' = Over(s)
  BY DEF Over, CycleOver
<1>2. QED
  BY <1>1 DEF Spent, HalfRead

(* Spent survives every step of the monitor and of the world.              *)
LEMMA StepKeeps ==
    ASSUME Spent, [Next]_vars
    PROVE  Spent'
<1>1. CASE Read
  BY <1>1, ReadKeeps
<1>2. CASE Warn
  BY <1>2, WarnKeeps
<1>3. CASE Change
  <2>1. PICK s \in Sources : \E r \in Reading \ {source[s]} : source' = [source EXCEPT ![s] = r]
    BY <1>3 DEF Change
  <2>2. source' \in [Sources -> Reading]
    BY <2>1 DEF Spent
  <2>3. QED
    BY <1>3, <2>2, OthersKeep DEF Change
<1>4. CASE UNCHANGED <<batteries, reading, armed>> /\ (pc' = pc \/ pc' # "state")
  BY <1>4, OthersKeep DEF batteries, Spent
<1>5. CASE Top \/ Sync \/ Return \/ Nap \/ Wake \/ Receive \/ Drained
  BY <1>4, <1>5 DEF Top, Sync, Leave, Nothing, Enter, Renew, Unsent, Return, Nap, Wake, Receive,
                      Drained, Goto
<1>6. CASE Quit \/ Tick
  BY <1>4, <1>6 DEF Quit, Tick, Goto
<1>7. CASE Served \/ Swept \/ Started \/ Refused \/ Expired \/ Troubles \/ Withdrawn
  BY <1>4, <1>7 DEF Served, Swept, Started, Refused, Expired, Troubles, Withdrawn, own
<1>8. CASE UNCHANGED vars
  BY <1>4, <1>8 DEF vars
<1>9. QED
  BY <1>1, <1>2, <1>3, <1>5, <1>6, <1>7, <1>8 DEF Next, Loop

(* Before the first reading nothing was warned of.                         *)
LEMMA InitHolds ==
    ASSUME Init
    PROVE  Spent
<1>1. Absent \in Reading
  BY DEF Reading
<1>2. QED
  BY <1>1 DEF Init, Spent, HalfRead

(* "One-shot toast per source per discharge cycle" (README.md:131): after  *)
(* a warning no other is given until the source has been seen to charge or *)
(* to be well above the line, whatever it is unplugged, found again or     *)
(* hovers about in between.                                                *)
THEOREM WarnsOnce == Spec => OncePerCycle
<1>1. Init => Spent
  BY InitHolds
<1>2. Spent /\ [Next]_vars => Spent'
  BY StepKeeps
<1>3. ASSUME Spent PROVE \A s \in Sources : Warn /\ Fires(s) => ~ warned[s]
  BY <1>3 DEF Spent, Fires
<1>4. Spent /\ [Next]_vars => [\A s \in Sources : Warn /\ Fires(s) => ~ warned[s]]_vars
  BY <1>3
<1>5. QED
  BY <1>1, <1>2, <1>4, PTL DEF Spec, OncePerCycle

----------------------------------------------------------------------------
(* The board mirrors the reading *)

Panel == [owner : {"us", "rival"}, slot : BOOLEAN, urgency : {1, 2}, body : SUBSET Gauge]

Call == [op : {"create", "toast", "update", "dismiss"}, id : Nat, body : SUBSET Gauge,
         waits : BOOLEAN]

Typed ==
    /\ reading \in [Sources -> Reading] /\ source \in [Sources -> Reading] /\ HalfRead
    /\ nextId \in Nat \ {0} /\ DOMAIN board \subseteq 1 .. nextId - 1
    /\ board \in [DOMAIN board -> Panel]
    /\ outbox \in Seq(Call) /\ reply \in Nat \cup {None}
    /\ panelId \in Nat /\ lastSent \in SUBSET Gauge /\ haveSent \in BOOLEAN
    /\ up /\ connected

IsToast(p) == ~ p.slot /\ p.urgency = 2 /\ p.body = {}
IsGauge(p) == p.slot /\ p.urgency = 1 /\ p.body # {}

(* Our panels are toasts, and the gauges in the slot. *)
OursKnown == \A i \in Ours : IsToast(board[i]) \/ IsGauge(board[i])

Mine == {i \in Ours : board[i].slot}

Awaiting == pc = "call" /\ reply = None

Sends(p, msg) ==
    \/ msg.op = "toast" /\ ~ msg.waits /\ msg.body = {}
    \/ msg.op = "update" /\ ~ msg.waits /\ msg.id = p /\ p # 0 /\ msg.body # {}

(* What is under way: toasts, updates of the panel, and at the end the     *)
(* call that the loop waits for.                                           *)
UnderWay ==
    /\ \A k \in DOMAIN outbox : Sends(panelId, outbox[k]) \/ (Awaiting /\ k = Len(outbox))
    /\ Awaiting =>
          /\ outbox # << >>
          /\ LET last == outbox[Len(outbox)]
             IN  /\ last.waits
                 /\ \/ panelId = 0 /\ last.op = "create" /\ last.body = Wanted
                    \/ panelId # 0 /\ last.op = "dismiss" /\ last.id = panelId
    /\ reply # None => pc = "call" /\ outbox = << >>

Updates == {k \in DOMAIN outbox : outbox[k].op = "update"}

(* What the panel shows once all has been handled *)
WillShow(p, body) ==
    /\ Updates = {} => board[p].body = body
    /\ \A k \in Updates : (\A j \in Updates : j <= k) => outbox[k].body = body

Placed ==
    /\ pc = "call" => (Wanted # {} <=> panelId = 0)
    /\ panelId = 0 => lastSent = {}
    /\ panelId = 0 /\ reply \in {None, 0} => Mine = {}
    /\ panelId # 0 /\ reply = None =>
          haveSent /\ lastSent # {} /\ Mine = {panelId} /\ WillShow(panelId, lastSent)
    /\ panelId = 0 /\ reply \notin {None, 0} => Mine = {reply} /\ board[reply].body = Wanted
    /\ panelId # 0 /\ reply # None => Mine = {}

Settled == pc \in {"top", "nap", "poll", "process"} /\ panelId # 0 => lastSent = Wanted

Mirrors == Typed /\ OursKnown /\ UnderWay /\ Placed /\ Settled

(* What is wanted on the board is gauges of what was read. *)
LEMMA WantedType ==
    ASSUME reading \in [Sources -> Reading]
    PROVE  Wanted \in SUBSET Gauge
<1>1. ASSUME NEW s \in Shown, reading[s] # Absent
      PROVE  [source |-> s, percent |-> reading[s].percent, charging |-> reading[s].charging]
                \in Gauge
  <2>1. s \in Sources /\ reading[s] \in Reading
    BY ConfigAssumption
  <2>2. reading[s] \in [percent : Percents, charging : BOOLEAN]
    BY <1>1, <2>1 DEF Reading
  <2>3. QED
    BY <2>1, <2>2 DEF Gauge
<1>2. QED
  BY <1>1 DEF Wanted, Gauges

(* The parts of Mirrors that look at the board, the calls and the panel    *)
(* are as they were if those are, and the loop is not between calls.       *)
LEMMA LoopKeeps ==
    ASSUME Mirrors, UNCHANGED <<daemon, calls, sent, panelId>>,
           source' \in [Sources -> Reading], reading' \in [Sources -> Reading],
           \/ pc' = pc /\ reading' = reading
           \/ pc # "call" /\ pc' # "call" /\ HalfRead' /\ Settled'
    PROVE  Mirrors'
<1>1. UNCHANGED <<up, board, nextId, connected, outbox, reply, lastSent, haveSent, panelId>>
  BY DEF daemon, calls, sent
<1>2. Typed'
  BY <1>1 DEF Mirrors, Typed, HalfRead
<1>3. OursKnown'
  BY <1>1 DEF Mirrors, OursKnown, Ours, IsToast, IsGauge
<1>4. Mine' = Mine /\ Updates' = Updates
  BY <1>1 DEF Mine, Ours, Updates
<1>5. \A p, b : WillShow(p, b)' = WillShow(p, b)
  BY <1>1, <1>4 DEF WillShow
<1>7. CASE pc' = pc /\ reading' = reading
  <2>1. Wanted' = Wanted
    BY <1>7 DEF Wanted, Gauges
  <2>2. Awaiting' = Awaiting
    BY <1>1, <1>7 DEF Awaiting
  <2>3. UnderWay'
    BY <1>1, <1>7, <2>1, <2>2 DEF Mirrors, UnderWay
  <2>4. Placed'
    BY <1>1, <1>4, <1>5, <1>7, <2>1 DEF Mirrors, Placed
  <2>5. Settled'
    BY <1>1, <1>7, <2>1 DEF Mirrors, Settled
  <2>6. QED
    BY <1>2, <1>3, <2>3, <2>4, <2>5 DEF Mirrors
<1>8. CASE pc # "call" /\ pc' # "call" /\ HalfRead' /\ Settled'
  <2>1. ~ Awaiting /\ ~ Awaiting' /\ reply = None
    BY <1>8 DEF Mirrors, UnderWay, Awaiting
  <2>2. UnderWay'
    BY <1>1, <1>8, <2>1 DEF Mirrors, UnderWay
  <2>3. Placed'
    BY <1>1, <1>4, <1>5, <1>8, <2>1 DEF Mirrors, Placed
  <2>4. QED
    BY <1>2, <1>3, <1>8, <2>2, <2>3 DEF Mirrors
<1>9. QED
  BY <1>7, <1>8

(* The steps of the loop that call nobody *)
LEMMA QuietKeeps ==
    ASSUME Mirrors, Top \/ Read \/ Nap \/ Wake \/ Receive \/ Drained \/ Change \/ Tick
    PROVE  Mirrors'
<1>0. source \in [Sources -> Reading] /\ reading \in [Sources -> Reading]
  BY DEF Mirrors, Typed
<1>1. CASE Change
  <2>1. PICK s \in Sources : \E r \in Reading \ {source[s]} : source' = [source EXCEPT ![s] = r]
    BY <1>1 DEF Change
  <2>2. source' \in [Sources -> Reading]
    BY <1>0, <2>1
  <2>3. QED
    BY <1>0, <1>1, <2>2, LoopKeeps DEF Change
<1>2. CASE Read
  <2>1. PICK p \in Sources, r \in Reading : HasRead(p, r) /\ HalfRead'
    BY <1>0, <1>2, WhatIsRead DEF Mirrors, Typed
  <2>2. /\ reading' = [reading EXCEPT ![p] = r]
        /\ UNCHANGED <<daemon, calls, source, sent, panelId>>
    BY <2>1 DEF HasRead
  <2>3. reading' \in [Sources -> Reading]
    BY <1>0, <2>2
  <2>4. pc \in {"headset", "laptop", "state"} /\ pc' \in {"laptop", "state", "latch"}
    BY <1>2 DEF Read, ReadHeadset, ReadLaptop, ReadState, Goto
  <2>5. pc # "call" /\ pc' # "call" /\ Settled'
    BY <2>4 DEF Settled
  <2>6. QED
    BY <1>0, <2>1, <2>2, <2>3, <2>5, LoopKeeps
<1>3. CASE Top \/ Nap \/ Wake \/ Drained
  <2>1. /\ pc \in {"top", "nap", "poll", "process"}
        /\ pc' \in {"headset", "nap", "poll", "process", "top"}
        /\ UNCHANGED <<daemon, calls, source, reading, sent, panelId>>
    BY <1>3 DEF Top, Nap, Wake, Drained, Goto, batteries
  <2>2. Wanted' = Wanted
    BY <2>1 DEF Wanted, Gauges
  <2>3. Settled' /\ HalfRead'
    BY <2>1, <2>2 DEF Mirrors, Settled, sent, HalfRead
  <2>4. QED
    BY <1>0, <2>1, <2>3, LoopKeeps
<1>4. CASE Receive \/ Tick
  <2>1. UNCHANGED <<daemon, calls, source, reading, sent, panelId, pc>>
    BY <1>4 DEF Receive, Tick, batteries
  <2>2. QED
    BY <1>0, <2>1, LoopKeeps
<1>5. QED
  BY <1>1, <1>2, <1>3, <1>4

(* Messages that follow those under way leave them where they are.         *)
LEMMA Appended ==
    ASSUME outbox \in Seq(Call), NEW new \in Seq(Call), outbox' = outbox \o new
    PROVE  /\ outbox' \in Seq(Call) /\ Len(outbox') = Len(outbox) + Len(new)
           /\ \A k \in DOMAIN outbox : k \in DOMAIN outbox' /\ outbox'[k] = outbox[k]
           /\ \A k \in DOMAIN outbox' \ DOMAIN outbox :
                 k - Len(outbox) \in DOMAIN new /\ outbox'[k] = new[k - Len(outbox)]
OBVIOUS

(* The toasts are sent and leave the panel's updates as they are. *)
LEMMA WarnMirrors ==
    ASSUME Mirrors, Warn
    PROVE  Mirrors'
<1> DEFINE n == Cardinality({s \in Sources : Fires(s)})
           toast == [op |-> "toast", id |-> 0, body |-> {}, waits |-> FALSE]
           new == [k \in 1 .. n |-> toast]
<1>1. /\ pc = "latch" /\ pc' = "sync" /\ outbox' = outbox \o new
      /\ UNCHANGED <<up, board, nextId, connected, reply, source, reading, lastSent, haveSent,
                     panelId>>
  BY DEF Warn, Goto, daemon, sent
<1>2. n \in Nat
  <2>1. IsFiniteSet(Sources)
    <3>1. Sources = ({} \cup {"headset"}) \cup {"laptop"}
      BY DEF Sources
    <3>2. QED
      BY <3>1, FS_EmptySet, FS_AddElement
  <2>2. QED
    BY <2>1, FS_Subset, FS_CardinalityType
<1>3. toast \in Call
  BY DEF Call
<1> HIDE DEF n
<1>4. new \in Seq(Call) /\ \A k \in DOMAIN new : new[k] = toast
  BY <1>2, <1>3
<1>5. toast.op = "toast" /\ ~ toast.waits /\ toast.body = {}
  OBVIOUS
<1> HIDE DEF toast, new
<1>6. outbox \in Seq(Call) /\ ~ Awaiting /\ ~ Awaiting' /\ reply = None
  BY <1>1 DEF Mirrors, Typed, UnderWay, Awaiting
<1>7. /\ outbox' \in Seq(Call)
      /\ \A k \in DOMAIN outbox : k \in DOMAIN outbox' /\ outbox'[k] = outbox[k]
      /\ \A k \in DOMAIN outbox' \ DOMAIN outbox : outbox'[k] = toast
  BY <1>1, <1>4, <1>6, Appended
<1>8. Typed'
  BY <1>1, <1>7 DEF Mirrors, Typed, HalfRead
<1>9. OursKnown'
  BY <1>1 DEF Mirrors, OursKnown, Ours, IsToast, IsGauge
<1>10. UnderWay'
  <2>1. ASSUME NEW k \in DOMAIN outbox' PROVE Sends(panelId, outbox'[k])
    <3>1. CASE k \in DOMAIN outbox
      <4>1. Sends(panelId, outbox[k])
        BY <1>6, <3>1 DEF Mirrors, UnderWay
      <4>2. QED
        BY <1>7, <3>1, <4>1
    <3>2. CASE k \notin DOMAIN outbox
      BY <1>5, <1>7, <3>2 DEF Sends
    <3>3. QED
      BY <3>1, <3>2
  <2>2. QED
    BY <1>1, <1>6, <2>1 DEF UnderWay
<1>11. Placed'
  <2>1. Mine' = Mine
    BY <1>1 DEF Mine, Ours
  <2>2. Updates' = Updates /\ \A k \in Updates : outbox'[k] = outbox[k]
    BY <1>5, <1>7 DEF Updates
  <2>3. ASSUME NEW p, NEW b, WillShow(p, b) PROVE WillShow(p, b)'
    BY <1>1, <2>2, <2>3 DEF WillShow
  <2>4. QED
    BY <1>1, <1>6, <2>1, <2>3 DEF Mirrors, Placed
<1>12. Settled'
  BY <1>1 DEF Settled
<1>13. QED
  BY <1>8, <1>9, <1>10, <1>11, <1>12 DEF Mirrors

(* syncPanel: an update will show what is wanted; a create or a dismissal  *)
(* is waited for.                                                          *)
LEMMA SyncMirrors ==
    ASSUME Mirrors, Sync, ~ SendFails
    PROVE  Mirrors'
<1>1. /\ pc = "sync" /\ UNCHANGED <<up, board, nextId, connected, reply, source, reading, panelId>>
  BY DEF Sync, daemon, batteries
<1>2. /\ outbox \in Seq(Call) /\ ~ Awaiting /\ reply = None
      /\ \A k \in DOMAIN outbox : Sends(panelId, outbox[k])
  BY <1>1 DEF Mirrors, Typed, UnderWay, Awaiting
<1>3. Wanted' = Wanted /\ Mine' = Mine /\ Wanted \in SUBSET Gauge
  BY <1>1, WantedType DEF Wanted, Gauges, Mine, Ours, Mirrors, Typed
<1>4. OursKnown'
  BY <1>1 DEF Mirrors, OursKnown, Ours, IsToast, IsGauge
<1>5. ASSUME NEW msg \in Call, outbox' = Append(outbox, msg)
      PROVE  /\ outbox' \in Seq(Call) /\ Len(outbox') = Len(outbox) + 1 /\ Len(outbox) \in Nat
             /\ outbox'[Len(outbox')] = msg
             /\ DOMAIN outbox' = DOMAIN outbox \cup {Len(outbox')}
             /\ \A k \in DOMAIN outbox : outbox'[k] = outbox[k]
  BY <1>2, <1>5
<1>7. CASE Nothing \/ ~ Wants
  <2>1. /\ pc' = "nap" /\ outbox' = outbox /\ haveSent' \in BOOLEAN
        /\ lastSent' = Wanted
        /\ UNCHANGED lastSent
        /\ haveSent => haveSent'
    <3>1. CASE Nothing /\ Wants
      BY <3>1 DEF Nothing, Noted, Goto, Mirrors, Placed
    <3>2. CASE ~ Wants
      BY <3>2 DEF Sync, Wants, GaugesEqual, Goto, sent, Mirrors, Typed, Leave, Nothing, Enter, Renew
    <3>3. CASE Nothing /\ ~ Wants
      BY <3>2, <3>3
    <3>4. QED
      BY <1>7, <3>1, <3>2, <3>3
  <2>2. Typed'
    BY <1>1, <2>1 DEF Mirrors, Typed, HalfRead
  <2>3. UnderWay'
    BY <1>1, <1>2, <2>1 DEF UnderWay, Awaiting
  <2>4. \A p, b : WillShow(p, b)' = WillShow(p, b)
    BY <1>1, <2>1 DEF WillShow, Updates
  <2>5. Placed'
    BY <1>1, <1>2, <1>3, <2>1, <2>4 DEF Mirrors, Placed
  <2>6. Settled'
    BY <1>3, <2>1 DEF Settled
  <2>7. QED
    BY <1>4, <2>2, <2>3, <2>5, <2>6 DEF Mirrors
<1>8. CASE Renew
  <2> DEFINE msg == [op |-> "update", id |-> panelId, body |-> Wanted, waits |-> FALSE]
  <2>1. /\ Wanted # {} /\ panelId # 0 /\ outbox' = Append(outbox, msg)
        /\ lastSent' = Wanted /\ haveSent' = TRUE /\ pc' = "nap"
    BY <1>8 DEF Renew, Post, Noted, Goto
  <2>2. msg \in Call
    BY <1>3 DEF Call, Mirrors, Typed
  <2>3. msg.op = "update" /\ msg.id = panelId /\ msg.body = Wanted /\ ~ msg.waits
    OBVIOUS
  <2> HIDE DEF msg
  <2>4. /\ outbox' \in Seq(Call) /\ Len(outbox') = Len(outbox) + 1 /\ Len(outbox) \in Nat
        /\ outbox'[Len(outbox')] = msg
        /\ DOMAIN outbox' = DOMAIN outbox \cup {Len(outbox')}
        /\ \A k \in DOMAIN outbox : outbox'[k] = outbox[k]
    BY <1>5, <2>1, <2>2
  <2>5. Typed'
    BY <1>1, <1>3, <2>1, <2>4 DEF Mirrors, Typed, HalfRead
  <2>6. Sends(panelId, msg)
    BY <1>1, <2>1, <2>3 DEF Sends
  <2>7. UnderWay'
    BY <1>1, <1>2, <2>1, <2>4, <2>6 DEF UnderWay, Awaiting
  <2>8. Len(outbox') \in Updates'
    BY <2>3, <2>4 DEF Updates
  <2>9. \A k \in DOMAIN outbox' : k <= Len(outbox') /\ k \in Int
    BY <2>4
  <2>10. ASSUME NEW k \in Updates', \A j \in Updates' : j <= k PROVE k = Len(outbox')
    BY <2>4, <2>8, <2>9, <2>10 DEF Updates
  <2>11. WillShow(panelId, lastSent)'
    BY <1>1, <2>1, <2>3, <2>4, <2>8, <2>10 DEF WillShow
  <2>12. Placed'
    BY <1>1, <1>2, <1>3, <2>1, <2>11 DEF Mirrors, Placed
  <2>13. Settled'
    BY <1>3, <2>1 DEF Settled
  <2>14. QED
    BY <1>4, <2>5, <2>7, <2>12, <2>13 DEF Mirrors
<1>9. CASE Enter \/ Leave
  <2>1. PICK msg \in Call :
           /\ outbox' = Append(outbox, msg) /\ msg.waits
           /\ \/ panelId = 0 /\ msg.op = "create" /\ msg.body = Wanted
              \/ panelId # 0 /\ msg.op = "dismiss" /\ msg.id = panelId
    <3>1. CASE Enter
      <4> DEFINE m == [op |-> "create", id |-> 0, body |-> Wanted, waits |-> TRUE]
      <4>1. panelId = 0 /\ outbox' = Append(outbox, m)
        BY <3>1 DEF Enter, Post
      <4>2. m \in Call
        BY <1>3 DEF Call
      <4>3. QED
        BY <4>1, <4>2
    <3>2. CASE Leave
      <4> DEFINE m == [op |-> "dismiss", id |-> panelId, body |-> {}, waits |-> TRUE]
      <4>1. panelId # 0 /\ outbox' = Append(outbox, m)
        BY <3>2 DEF Leave, Post
      <4>2. m \in Call
        BY DEF Call, Mirrors, Typed
      <4>3. QED
        BY <4>1, <4>2
    <3>3. QED
      BY <1>9, <3>1, <3>2
  <2>2. /\ pc' = "call" /\ UNCHANGED <<lastSent, haveSent>>
        /\ Wanted # {} <=> panelId = 0
    BY <1>9 DEF Enter, Leave, Goto, sent
  <2>4. /\ outbox' \in Seq(Call) /\ Len(outbox') = Len(outbox) + 1 /\ Len(outbox) \in Nat
        /\ outbox'[Len(outbox')] = msg
        /\ DOMAIN outbox' = DOMAIN outbox \cup {Len(outbox')}
        /\ \A k \in DOMAIN outbox : outbox'[k] = outbox[k]
    BY <1>5, <2>1
  <2>5. Typed'
    BY <1>1, <2>2, <2>4 DEF Mirrors, Typed, HalfRead
  <2>6. Awaiting'
    BY <1>1, <1>2, <2>2 DEF Awaiting
  <2>7. UnderWay'
    <3>1. \A k \in DOMAIN outbox' : Sends(panelId, outbox'[k]) \/ k = Len(outbox')
      BY <1>2, <2>4
    <3>2. outbox' # << >>
      BY <2>4
    <3>3. \/ panelId' = 0 /\ msg.op = "create" /\ msg.body = Wanted'
          \/ panelId' # 0 /\ msg.op = "dismiss" /\ msg.id = panelId'
      BY <1>1, <1>3, <2>1
    <3>4. reply' = None
      BY <1>1, <1>2
    <3>5. QED
      BY <2>1, <2>4, <2>6, <3>1, <3>2, <3>3, <3>4 DEF UnderWay
  <2>8. Updates' = Updates /\ \A k \in Updates : outbox'[k] = outbox[k]
    <3>1. msg.op # "update"
      BY <2>1
    <3>2. QED
      BY <2>4, <3>1 DEF Updates
  <2>9. ASSUME NEW p, NEW b, WillShow(p, b) PROVE WillShow(p, b)'
    BY <1>1, <2>8, <2>9 DEF WillShow
  <2>10. Placed'
    BY <1>1, <1>2, <1>3, <2>2, <2>9 DEF Mirrors, Placed
  <2>11. Settled'
    BY <2>2 DEF Settled
  <2>12. QED
    BY <1>4, <2>5, <2>7, <2>10, <2>11 DEF Mirrors
<1>10. QED
  BY <1>7, <1>8, <1>9 DEF Sync, SendFails

(* The call returns: what was created is known from now on, and what was   *)
(* dismissed is forgotten.                                                 *)
LEMMA ReturnMirrors ==
    ASSUME Mirrors, Return
    PROVE  Mirrors'
<1>1. /\ pc = "call" /\ reply # None /\ pc' = "nap" /\ reply' = None
      /\ panelId' = IF panelId = 0 THEN reply ELSE 0
      /\ UNCHANGED <<up, board, nextId, connected, outbox, source, reading>>
  BY DEF Return, Goto, daemon, batteries
<1>2. /\ outbox = << >> /\ reply \in Nat /\ panelId \in Nat
      /\ Wanted # {} <=> panelId = 0
      /\ panelId = 0 /\ reply # 0 => Mine = {reply} /\ board[reply].body = Wanted
      /\ panelId # 0 \/ reply = 0 => Mine = {}
      /\ panelId = 0 => lastSent = {}
  BY <1>1 DEF Mirrors, UnderWay, Placed, Typed
<1>3. Wanted' = Wanted /\ Mine' = Mine /\ Wanted \in SUBSET Gauge
  BY <1>1, WantedType DEF Wanted, Gauges, Mine, Ours, Mirrors, Typed
<1>4. CASE panelId = 0 /\ reply = 0
  <2>1. UNCHANGED <<lastSent, haveSent, panelId>>
    BY <1>1, <1>4 DEF Return, Succeeded, sent
  <2>2. Typed'
    BY <1>1, <2>1 DEF Mirrors, Typed, HalfRead
  <2>3. OursKnown'
    BY <1>1 DEF Mirrors, OursKnown, Ours, IsToast, IsGauge
  <2>4. UnderWay'
    BY <1>1, <1>2 DEF UnderWay, Awaiting
  <2>5. Placed' /\ Settled'
    BY <1>1, <1>2, <1>3, <1>4, <2>1 DEF Placed, Settled
  <2>6. QED
    BY <2>2, <2>3, <2>4, <2>5 DEF Mirrors
<1> SUFFICES ASSUME panelId # 0 \/ reply # 0 PROVE Mirrors'
  BY <1>4
<1>13. lastSent' = Wanted /\ haveSent' = TRUE
  BY <1>2 DEF Return, Succeeded, Noted
<1>5. Typed'
  BY <1>1, <1>2, <1>3, <1>13 DEF Mirrors, Typed, HalfRead
<1>6. OursKnown'
  BY <1>1 DEF Mirrors, OursKnown, Ours, IsToast, IsGauge
<1>7. UnderWay'
  BY <1>1, <1>2 DEF UnderWay, Awaiting
<1>8. Updates' = {}
  BY <1>1, <1>2 DEF Updates
<1>9. panelId = 0 => panelId' # 0 /\ WillShow(panelId, lastSent)'
  BY <1>1, <1>2, <1>13, <1>8 DEF WillShow
<1>10. Placed'
  BY <1>1, <1>2, <1>3, <1>13, <1>9 DEF Placed
<1>11. Settled'
  BY <1>3, <1>13 DEF Settled
<1>12. QED
  BY <1>5, <1>6, <1>7, <1>10, <1>11 DEF Mirrors

----------------------------------------------------------------------------
(* The daemon's part *)

(* What leaves the gauges where they are, and what they will show, as it   *)
(* is, does not disturb the rest.                                          *)
LEMMA SameGauges ==
    ASSUME Mirrors, Typed', OursKnown', UnderWay', Mine' = Mine,
           UNCHANGED <<reading, panelId, lastSent, haveSent, pc, reply>>,
           \A p \in Mine : \A b : WillShow(p, b) => WillShow(p, b)',
           reply # None => \A p \in Mine : board'[p] = board[p]
    PROVE  Mirrors'
<1>1. Wanted' = Wanted
  BY DEF Wanted, Gauges
<1>2. panelId # 0 /\ reply = None => WillShow(panelId, lastSent)'
  <2>1. ASSUME panelId # 0, reply = None PROVE WillShow(panelId, lastSent)'
    <3>1. panelId \in Mine /\ WillShow(panelId, lastSent)
      BY <2>1 DEF Mirrors, Placed
    <3>2. PICK p, b : p = panelId /\ b = lastSent
      OBVIOUS
    <3>3. WillShow(p, b)'
      BY <3>1, <3>2
    <3>4. QED
      BY <3>2, <3>3 DEF WillShow
  <2>2. QED
    BY <2>1
<1>3. Placed'
  BY <1>1, <1>2 DEF Mirrors, Placed
<1>4. Settled'
  BY <1>1 DEF Mirrors, Settled
<1>5. QED
  BY <1>3, <1>4 DEF Mirrors

(* A panel of ours that is not in the slot comes onto the board.           *)
LEMMA PutBeside ==
    ASSUME Typed, OursKnown, Put("us", FALSE, 2, {}, {})
    PROVE  /\ nextId' \in Nat \ {0} /\ DOMAIN board' \subseteq 1 .. nextId' - 1
           /\ board' \in [DOMAIN board' -> Panel]
           /\ OursKnown' /\ Mine' = Mine /\ \A p \in Mine : board'[p] = board[p]
<1> DEFINE new == [owner |-> "us", slot |-> FALSE, urgency |-> 2, body |-> {}]
<1>1. /\ nextId' = nextId + 1 /\ DOMAIN board' = DOMAIN board \cup {nextId}
      /\ board'[nextId] = new
      /\ \A i \in DOMAIN board : board'[i] = board[i]
      /\ board' = [i \in DOMAIN board' |-> board'[i]]
  BY DEF Put, Issued, Typed
<1>2. new \in Panel /\ IsToast(new) /\ new.owner = "us" /\ ~ new.slot
  BY DEF Panel, IsToast
<1> HIDE DEF new
<1>3. nextId' \in Nat \ {0} /\ DOMAIN board' \subseteq 1 .. nextId' - 1
  BY <1>1 DEF Typed
<1>4. board' \in [DOMAIN board' -> Panel]
  <2>1. \A i \in DOMAIN board' : board'[i] \in Panel
    BY <1>1, <1>2 DEF Typed
  <2>2. QED
    BY <1>1, <2>1
<1>5. OursKnown'
  <2>1. \A i \in Ours' : IsToast(board'[i]) \/ IsGauge(board'[i])
    BY <1>1, <1>2 DEF OursKnown, Ours
  <2>2. QED
    BY <2>1 DEF OursKnown, IsToast, IsGauge
<1>6. Mine' = Mine
  BY <1>1, <1>2 DEF Mine, Ours, Typed
<1>7. QED
  BY <1>1, <1>3, <1>4, <1>5, <1>6 DEF Mine, Ours

(* The daemon takes panels off the board. *)
LEMMA TakeOff ==
    ASSUME Typed, OursKnown, NEW S, Take(S)
    PROVE  /\ nextId' \in Nat \ {0} /\ DOMAIN board' \subseteq 1 .. nextId' - 1
           /\ board' \in [DOMAIN board' -> Panel]
           /\ OursKnown' /\ Mine' = Mine \ S
           /\ \A p \in DOMAIN board' : board'[p] = board[p]
<1>1. /\ nextId' = nextId /\ DOMAIN board' = DOMAIN board \ S
      /\ \A i \in DOMAIN board' : board'[i] = board[i]
      /\ board' = [i \in DOMAIN board' |-> board'[i]]
  BY DEF Take
<1>2. board' \in [DOMAIN board' -> Panel]
  <2>1. \A i \in DOMAIN board' : board'[i] \in Panel
    BY <1>1 DEF Typed
  <2>2. QED
    BY <1>1, <2>1
<1>3. OursKnown'
  <2>1. Ours' \subseteq Ours
    BY <1>1 DEF Ours
  <2>2. QED
    BY <1>1, <2>1 DEF OursKnown, Ours, IsToast, IsGauge
<1>4. Mine' = Mine \ S
  BY <1>1 DEF Mine, Ours
<1>5. QED
  BY <1>1, <1>2, <1>3, <1>4 DEF Typed

(* A toast expires. *)
LEMMA ExpiredMirrors ==
    ASSUME Mirrors, Expired
    PROVE  Mirrors'
<1>1. PICK i \in Toasts : Take({i})
  BY DEF Expired, Expire
<1>2. UNCHANGED <<up, connected, outbox, reply, source, reading, lastSent, haveSent, panelId, pc>>
  BY DEF Expired, Expire, own, calls, batteries, sent
<1>3. /\ nextId' \in Nat \ {0} /\ DOMAIN board' \subseteq 1 .. nextId' - 1
      /\ board' \in [DOMAIN board' -> Panel]
      /\ OursKnown' /\ Mine' = Mine \ {i}
      /\ \A p \in DOMAIN board' : board'[p] = board[p]
  BY <1>1, TakeOff DEF Mirrors
<1>4. i \notin Mine
  BY DEF Toasts, Mine
<1>5. Typed'
  BY <1>2, <1>3 DEF Mirrors, Typed, HalfRead
<1>6. UnderWay'
  <2>1. Wanted' = Wanted /\ Awaiting' = Awaiting
    BY <1>2 DEF Wanted, Gauges, Awaiting
  <2>2. QED
    BY <1>2, <2>1 DEF Mirrors, UnderWay
<1>7. Mine' = Mine /\ \A p \in Mine : board'[p] = board[p]
  BY <1>3, <1>4 DEF Mine, Ours
<1>8. \A p \in Mine : \A b : WillShow(p, b) => WillShow(p, b)'
  BY <1>2, <1>7 DEF WillShow, Updates
<1>9. QED
  BY <1>2, <1>3, <1>5, <1>6, <1>7, <1>8, SameGauges

(* The first message is taken off the queue. *)
LEMMA Shifted ==
    ASSUME outbox \in Seq(Call), outbox # << >>, outbox' = Tail(outbox)
    PROVE  /\ outbox' \in Seq(Call) /\ Len(outbox) \in Nat \ {0}
           /\ Len(outbox') = Len(outbox) - 1
           /\ DOMAIN outbox = 1 .. Len(outbox) /\ DOMAIN outbox' = 1 .. Len(outbox')
           /\ \A k \in DOMAIN outbox' : k + 1 \in DOMAIN outbox /\ outbox'[k] = outbox[k + 1]
           /\ Head(outbox) = outbox[1] /\ outbox[1] \in Call
OBVIOUS

(* What was under way behind the first message still is. *)
LEMMA RestUnderWay ==
    ASSUME Mirrors, outbox # << >>, outbox' = Tail(outbox), ~ outbox[1].waits,
           UNCHANGED <<reading, panelId, pc, reply>>
    PROVE  UnderWay' /\ reply = None /\ Sends(panelId, outbox[1])
<1>1. /\ Len(outbox) \in Nat \ {0} /\ Len(outbox') = Len(outbox) - 1
      /\ DOMAIN outbox = 1 .. Len(outbox) /\ DOMAIN outbox' = 1 .. Len(outbox')
      /\ \A k \in DOMAIN outbox' : k + 1 \in DOMAIN outbox /\ outbox'[k] = outbox[k + 1]
  BY Shifted DEF Mirrors, Typed
<1>2. Wanted' = Wanted /\ Awaiting' = Awaiting /\ reply = None
  BY DEF Wanted, Gauges, Awaiting, Mirrors, UnderWay
<1>3. Awaiting => Len(outbox) # 1
  BY DEF Mirrors, UnderWay
<1>4. Sends(panelId, outbox[1])
  BY <1>1, <1>3 DEF Mirrors, UnderWay
<1>5. Awaiting => outbox' # << >> /\ outbox'[Len(outbox')] = outbox[Len(outbox)]
  BY <1>1, <1>3
<1>6. \A k \in DOMAIN outbox' : Sends(panelId, outbox'[k]) \/ (Awaiting /\ k = Len(outbox'))
  BY <1>1 DEF Mirrors, UnderWay
<1>7. Awaiting =>
        LET last == outbox'[Len(outbox')]
        IN  /\ last.waits
            /\ \/ panelId = 0 /\ last.op = "create" /\ last.body = Wanted
               \/ panelId # 0 /\ last.op = "dismiss" /\ last.id = panelId
  BY <1>5 DEF Mirrors, UnderWay
<1>8. UnderWay'
  BY <1>2, <1>5, <1>6, <1>7 DEF UnderWay
<1>9. QED
  BY <1>2, <1>4, <1>8

(* The daemon handles a toast, or an update of the panel. *)
LEMMA QuietServed ==
    ASSUME Mirrors, Served, ~ outbox[1].waits
    PROVE  Mirrors'
<1>1. /\ outbox # << >> /\ outbox' = Tail(outbox) /\ Handle(Head(outbox))
      /\ UNCHANGED <<up, connected, source, reading, lastSent, haveSent, panelId, pc>>
  BY DEF Served, Serve, own, batteries, sent
<1>2. /\ outbox' \in Seq(Call) /\ Len(outbox) \in Nat \ {0} /\ Len(outbox') = Len(outbox) - 1
      /\ DOMAIN outbox = 1 .. Len(outbox) /\ DOMAIN outbox' = 1 .. Len(outbox')
      /\ \A k \in DOMAIN outbox' : k + 1 \in DOMAIN outbox /\ outbox'[k] = outbox[k + 1]
      /\ Head(outbox) = outbox[1] /\ outbox[1] \in Call
  BY <1>1, Shifted DEF Mirrors, Typed
<1>3. UNCHANGED reply
  BY <1>2 DEF Served, Serve
<1>4. UnderWay' /\ reply = None /\ Sends(panelId, outbox[1])
  BY <1>1, <1>3, RestUnderWay
<1>5. CASE outbox[1].op = "toast"
  <2>1. CreateToast(outbox[1]) /\ outbox[1].body = {}
    BY <1>1, <1>2, <1>4, <1>5 DEF Handle, Sends
  <2>2. /\ nextId' \in Nat \ {0} /\ DOMAIN board' \subseteq 1 .. nextId' - 1
        /\ board' \in [DOMAIN board' -> Panel]
        /\ OursKnown' /\ Mine' = Mine /\ \A p \in Mine : board'[p] = board[p]
    <3>1. CASE Capped
      <4>1. UNCHANGED <<board, nextId>>
        BY <2>1, <3>1 DEF CreateToast, Keep
      <4>2. QED
        BY <4>1 DEF Mirrors, Typed, OursKnown, IsToast, IsGauge, Mine, Ours
    <3>2. CASE ~ Capped
      <4>1. Put("us", FALSE, 2, {}, {})
        BY <2>1, <3>2 DEF CreateToast
      <4>2. QED
        BY <4>1, PutBeside DEF Mirrors
    <3>3. QED
      BY <3>1, <3>2
  <2>3. Typed'
    BY <1>1, <1>2, <1>3, <2>2 DEF Mirrors, Typed, HalfRead
  <2>4. Updates = {k + 1 : k \in Updates'}
    <3>1. outbox[1].op # "update"
      BY <1>5
    <3>2. \A k \in Updates : k - 1 \in Updates' /\ (k - 1) + 1 = k
      BY <1>2, <3>1 DEF Updates
    <3>3. \A k \in Updates' : k + 1 \in Updates
      BY <1>2 DEF Updates
    <3>4. QED
      BY <3>2, <3>3
  <2>5. ASSUME NEW p \in Mine, NEW b, WillShow(p, b) PROVE WillShow(p, b)'
    <3>1. Updates' = {} => board'[p].body = b
      BY <2>2, <2>4, <2>5 DEF WillShow
    <3>2. ASSUME NEW k \in Updates', \A j \in Updates' : j <= k PROVE outbox'[k].body = b
      <4>1. Updates' \subseteq Int
        BY <1>2 DEF Updates
      <4>2. k + 1 \in Updates /\ \A j \in Updates : j <= k + 1
        BY <2>4, <3>2, <4>1
      <4>3. outbox'[k] = outbox[k + 1]
        BY <1>2, <3>2 DEF Updates
      <4>4. QED
        BY <2>5, <4>2, <4>3 DEF WillShow
    <3>3. QED
      BY <3>1, <3>2 DEF WillShow
  <2>6. QED
    BY <1>1, <1>3, <1>4, <2>2, <2>3, <2>5, SameGauges
<1>6. CASE outbox[1].op = "update" /\ outbox[1].id = panelId /\ panelId # 0 /\ outbox[1].body # {}
  <2>1. UpdatePanel(outbox[1])
    BY <1>1, <1>2, <1>6 DEF Handle
  <2>2. Mine = {panelId} /\ panelId \in Ours /\ IsGauge(board[panelId])
    <3>1. Mine = {panelId}
      BY <1>4, <1>6 DEF Mirrors, Placed
    <3>2. QED
      BY <3>1 DEF Mine, Ours, Mirrors, OursKnown, IsToast
  <2>3. board' = [board EXCEPT ![panelId].body = outbox[1].body] /\ UNCHANGED nextId
    BY <1>6, <2>1, <2>2 DEF UpdatePanel, Ours
  <2> DEFINE new == [board[panelId] EXCEPT !.body = outbox[1].body]
  <2>4. /\ DOMAIN board' = DOMAIN board /\ board'[panelId] = new
        /\ \A i \in DOMAIN board \ {panelId} : board'[i] = board[i]
        /\ board' = [i \in DOMAIN board' |-> board'[i]]
    BY <2>2, <2>3 DEF Ours
  <2>5. board[panelId] \in Panel /\ outbox[1].body \in SUBSET Gauge
    BY <1>2, <2>2 DEF Mirrors, Typed, Ours, Call
  <2>6. /\ new \in Panel /\ new.owner = board[panelId].owner /\ new.slot = board[panelId].slot
        /\ new.urgency = board[panelId].urgency /\ new.body = outbox[1].body
    BY <2>5 DEF Panel
  <2> HIDE DEF new
  <2>7. board' \in [DOMAIN board' -> Panel]
    <3>1. \A i \in DOMAIN board' : board'[i] \in Panel
      BY <2>4, <2>6 DEF Mirrors, Typed
    <3>2. QED
      BY <2>4, <3>1
  <2>8. Typed'
    BY <1>1, <1>2, <1>3, <2>3, <2>4, <2>7 DEF Mirrors, Typed, HalfRead
  <2>9. OursKnown'
    <3>1. \A i \in Ours' : IsToast(board'[i]) \/ IsGauge(board'[i])
      <4>1. IsGauge(new)
        BY <1>6, <2>2, <2>6 DEF IsGauge
      <4>2. QED
        BY <2>2, <2>4, <4>1 DEF Mirrors, OursKnown, Ours
    <3>2. QED
      BY <3>1 DEF OursKnown, IsToast, IsGauge
  <2>10. Mine' = Mine
    BY <2>2, <2>4, <2>6 DEF Mine, Ours
  <2>11. ASSUME NEW p \in Mine, NEW b, WillShow(p, b) PROVE WillShow(p, b)'
    <3>1. p = panelId /\ 1 \in Updates
      BY <1>2, <1>6, <2>2 DEF Updates
    <3>2. Updates \subseteq Nat \ {0} /\ Updates' \subseteq Nat \ {0}
      BY <1>2 DEF Updates
    <3>3. ASSUME Updates' = {} PROVE board'[p].body = b
      <4>1. \A k \in Updates : k # 1 => k - 1 \in Updates'
        BY <1>2 DEF Updates
      <4>2. \A k \in Updates : k <= 1
        BY <3>2, <3>3, <4>1
      <4>3. outbox[1].body = b
        BY <2>11, <3>1, <4>2 DEF WillShow
      <4>4. QED
        BY <2>4, <2>6, <3>1, <4>3
    <3>4. ASSUME NEW k \in Updates', \A j \in Updates' : j <= k PROVE outbox'[k].body = b
      <4>1. k + 1 \in Updates /\ outbox'[k] = outbox[k + 1]
        BY <1>2 DEF Updates
      <4>2. ASSUME NEW j \in Updates PROVE j <= k + 1
        <5>1. CASE j = 1
          BY <3>2, <5>1
        <5>2. CASE j # 1
          <6>1. j - 1 \in Updates'
            BY <1>2, <5>2 DEF Updates
          <6>2. QED
            BY <3>2, <3>4, <6>1
        <5>3. QED
          BY <5>1, <5>2
      <4>3. QED
        BY <2>11, <4>1, <4>2 DEF WillShow
    <3>5. QED
      BY <3>3, <3>4 DEF WillShow
  <2>12. QED
    BY <1>1, <1>3, <1>4, <2>8, <2>9, <2>10, <2>11, SameGauges
<1>7. QED
  BY <1>4, <1>5, <1>6 DEF Sends

(* The daemon answers the call that the loop waits for: a create takes the *)
(* slot or is refused.                                                     *)
LEMMA AwaitedServed ==
    ASSUME Mirrors, Served, outbox[1].waits
    PROVE  Mirrors'
<1> DEFINE msg == outbox[1]
<1>1. /\ outbox # << >> /\ outbox' = Tail(outbox) /\ Handle(Head(outbox))
      /\ UNCHANGED <<up, connected, source, reading, lastSent, haveSent, panelId, pc>>
  BY DEF Served, Serve, own, batteries, sent
<1>2. /\ outbox' \in Seq(Call) /\ Len(outbox) \in Nat \ {0} /\ Len(outbox') = Len(outbox) - 1
      /\ DOMAIN outbox = 1 .. Len(outbox) /\ Head(outbox) = msg /\ msg \in Call
  BY <1>1, Shifted DEF Mirrors, Typed
<1>3. Awaiting /\ Len(outbox) = 1
  BY <1>2 DEF Mirrors, UnderWay, Sends
<1>4. /\ pc = "call" /\ reply = None /\ outbox' = << >>
      /\ \/ panelId = 0 /\ msg.op = "create" /\ msg.body = Wanted
         \/ panelId # 0 /\ msg.op = "dismiss" /\ msg.id = panelId
  BY <1>2, <1>3 DEF Mirrors, UnderWay, Awaiting
<1>5. reply' = IF nextId' # nextId THEN nextId ELSE 0
  BY <1>2 DEF Served, Serve
<1>6. Wanted' = Wanted /\ Wanted \in SUBSET Gauge
  BY <1>1, WantedType DEF Wanted, Gauges, Mirrors, Typed
<1>7. nextId \in Nat \ {0} /\ reply' # None /\ reply' \in Nat
  BY <1>5 DEF Mirrors, Typed, None
<1>8. UnderWay'
  BY <1>1, <1>4, <1>7 DEF UnderWay, Awaiting
<1>9. Settled'
  BY <1>1, <1>4 DEF Settled
<1>10. CASE panelId = 0 /\ msg.op = "create" /\ msg.body = Wanted
  <2>1. Mine = {} /\ Wanted # {}
    BY <1>4, <1>10 DEF Mirrors, Placed
  <2>2. CreatePanel(msg)
    BY <1>1, <1>2, <1>10 DEF Handle
  <2>3. CASE Capped \/ Outweighed(1)
    <3>1. UNCHANGED <<board, nextId>> /\ reply' = 0
      BY <1>5, <2>2, <2>3 DEF CreatePanel, Keep
    <3>2. Typed'
      BY <1>1, <1>2, <1>7, <3>1 DEF Mirrors, Typed, HalfRead
    <3>3. OursKnown'
      BY <3>1 DEF Mirrors, OursKnown, Ours, IsToast, IsGauge
    <3>4. Mine' = {}
      BY <2>1, <3>1 DEF Mine, Ours
    <3>5. Placed'
      BY <1>1, <1>4, <1>6, <1>7, <1>10, <2>1, <3>1, <3>4 DEF Mirrors, Placed
    <3>6. QED
      BY <1>8, <1>9, <3>2, <3>3, <3>5 DEF Mirrors
  <2>4. CASE ~ (Capped \/ Outweighed(1))
    <3>1. Put("us", TRUE, 1, Wanted, Holder)
      BY <1>10, <2>2, <2>4 DEF CreatePanel
    <3> DEFINE new == [owner |-> "us", slot |-> TRUE, urgency |-> 1, body |-> Wanted]
    <3>2. /\ nextId' = nextId + 1 /\ DOMAIN board' = (DOMAIN board \ Holder) \cup {nextId}
          /\ board'[nextId] = new
          /\ \A i \in DOMAIN board \ Holder : i # nextId /\ board'[i] = board[i]
          /\ board' = [i \in DOMAIN board' |-> board'[i]]
      BY <3>1 DEF Put, Issued, Mirrors, Typed
    <3>3. new \in Panel /\ IsGauge(new) /\ new.owner = "us" /\ new.slot /\ new.body = Wanted
      BY <1>6, <2>1 DEF Panel, IsGauge
    <3> HIDE DEF new
    <3>4. board' \in [DOMAIN board' -> Panel]
      <4>1. \A i \in DOMAIN board' : board'[i] \in Panel
        BY <3>2, <3>3 DEF Mirrors, Typed
      <4>2. QED
        BY <3>2, <4>1
    <3>5. Typed'
      BY <1>1, <1>2, <1>7, <3>2, <3>4 DEF Mirrors, Typed, HalfRead
    <3>6. OursKnown'
      <4>1. \A i \in Ours' : IsToast(board'[i]) \/ IsGauge(board'[i])
        BY <3>2, <3>3 DEF Mirrors, OursKnown, Ours
      <4>2. QED
        BY <4>1 DEF OursKnown, IsToast, IsGauge
    <3>7. Mine' = {nextId}
      <4>1. \A i \in DOMAIN board \ Holder : ~ board[i].slot
        BY DEF Holder
      <4>2. QED
        BY <3>2, <3>3, <4>1 DEF Mine, Ours
    <3>8. reply' = nextId /\ nextId # 0 /\ board'[nextId].body = Wanted
      BY <1>5, <1>7, <3>2, <3>3
    <3>9. Placed'
      BY <1>1, <1>4, <1>6, <1>7, <1>10, <2>1, <3>7, <3>8 DEF Mirrors, Placed
    <3>10. QED
      BY <1>8, <1>9, <3>5, <3>6, <3>9 DEF Mirrors
  <2>5. QED
    BY <2>3, <2>4
<1>11. CASE panelId # 0 /\ msg.op = "dismiss" /\ msg.id = panelId
  <2>1. Mine = {panelId} /\ panelId \in Ours
    BY <1>4, <1>11 DEF Mirrors, Placed, Mine, Ours, OursKnown
  <2>2. DismissPanel(msg)
    BY <1>1, <1>2, <1>11 DEF Handle
  <2>3. Take({panelId})
    BY <1>11, <2>1, <2>2 DEF DismissPanel
  <2>4. /\ nextId' \in Nat \ {0} /\ DOMAIN board' \subseteq 1 .. nextId' - 1
        /\ board' \in [DOMAIN board' -> Panel]
        /\ OursKnown' /\ Mine' = Mine \ {panelId}
    BY <2>3, TakeOff DEF Mirrors
  <2>5. Typed'
    BY <1>1, <1>2, <1>7, <2>4 DEF Mirrors, Typed, HalfRead
  <2>6. Placed'
    BY <1>1, <1>4, <1>6, <1>7, <1>11, <2>1, <2>4 DEF Mirrors, Placed
  <2>7. QED
    BY <1>8, <1>9, <2>4, <2>5, <2>6 DEF Mirrors
<1>12. QED
  BY <1>4, <1>10, <1>11

(* A rival comes into the slot, or leaves it, while no panel of ours is in *)
(* it: ours stay as they are.                                              *)
LEMMA RivalsMirror ==
    ASSUME Mirrors, Holder \cap Ours = {}, UNCHANGED own,
           \/ \E urgency \in {1, 2} : RivalCreates(urgency, {})
           \/ RivalLeaves
    PROVE  Mirrors'
<1>1. UNCHANGED <<up, connected, outbox, reply, source, reading, lastSent, haveSent, panelId, pc>>
  BY DEF RivalCreates, RivalLeaves, calls, own, batteries, sent
<1>2. Mine = {}
  BY DEF Mine, Holder, Ours
<1>3. /\ nextId' \in Nat \ {0} /\ DOMAIN board' \subseteq 1 .. nextId' - 1
      /\ board' \in [DOMAIN board' -> Panel]
      /\ Ours' = Ours /\ \A i \in Ours : board'[i] = board[i]
  <2>1. CASE RivalLeaves
    <3>1. /\ nextId' = nextId /\ DOMAIN board' = DOMAIN board \ Holder
          /\ \A i \in DOMAIN board' : board'[i] = board[i]
          /\ board' = [i \in DOMAIN board' |-> board'[i]]
      BY <2>1 DEF RivalLeaves, Take
    <3>2. board' \in [DOMAIN board' -> Panel]
      BY <3>1 DEF Mirrors, Typed
    <3>3. Ours' = Ours /\ \A i \in Ours : board'[i] = board[i]
      BY <3>1 DEF Ours
    <3>4. QED
      BY <3>1, <3>2, <3>3 DEF Mirrors, Typed
  <2>2. CASE \E urgency \in {1, 2} : RivalCreates(urgency, {})
    <3>1. PICK urgency \in {1, 2} : Put("rival", TRUE, urgency, {}, Holder)
      BY <2>2 DEF RivalCreates
    <3> DEFINE new == [owner |-> "rival", slot |-> TRUE, urgency |-> urgency, body |-> {}]
    <3>2. /\ nextId' = nextId + 1 /\ DOMAIN board' = (DOMAIN board \ Holder) \cup {nextId}
          /\ board'[nextId] = new
          /\ \A i \in DOMAIN board \ Holder : i # nextId /\ board'[i] = board[i]
          /\ board' = [i \in DOMAIN board' |-> board'[i]]
      BY <3>1 DEF Put, Issued, Mirrors, Typed
    <3>3. new \in Panel /\ new.owner # "us"
      BY DEF Panel
    <3> HIDE DEF new
    <3>4. board' \in [DOMAIN board' -> Panel]
      <4>1. \A i \in DOMAIN board' : board'[i] \in Panel
        BY <3>2, <3>3 DEF Mirrors, Typed
      <4>2. QED
        BY <3>2, <4>1
    <3>5. Ours' = Ours /\ \A i \in Ours : board'[i] = board[i]
      BY <3>2, <3>3 DEF Ours
    <3>6. QED
      BY <3>2, <3>4, <3>5 DEF Mirrors, Typed
  <2>3. QED
    BY <2>1, <2>2
<1>4. Typed'
  BY <1>1, <1>3 DEF Mirrors, Typed, HalfRead
<1>5. OursKnown'
  BY <1>3 DEF Mirrors, OursKnown, IsToast, IsGauge
<1>6. UnderWay'
  <2>1. Wanted' = Wanted /\ Awaiting' = Awaiting
    BY <1>1 DEF Wanted, Gauges, Awaiting
  <2>2. QED
    BY <1>1, <2>1 DEF Mirrors, UnderWay
<1>7. Mine' = Mine
  BY <1>3 DEF Mine
<1>8. QED
  BY <1>1, <1>2, <1>4, <1>5, <1>6, <1>7, SameGauges

----------------------------------------------------------------------------
(* Any step *)

(* The daemon has lived so far and left us our panel, and the monitor is   *)
(* alive.                                                                  *)
Calm == ~ spoilt /\ pc # "gone"

CalmMirrors == Calm => Mirrors

(* At first there is nothing on the board, under way or sent. *)
LEMMA CalmAtFirst ==
    ASSUME Init
    PROVE  CalmMirrors
<1>1. Absent \in Reading /\ None \notin Nat
  BY DEF Reading, None
<1>2. DOMAIN board = {} /\ board \in [DOMAIN board -> Panel] /\ outbox \in Seq(Call)
  <2>1. board = << >> /\ outbox = << >>
    BY DEF Init, BoardInit
  <2>2. QED
    BY <2>1
<1>3. Typed
  <2>1. reading \in [Sources -> Reading] /\ source \in [Sources -> Reading] /\ HalfRead
    BY <1>1 DEF Init, HalfRead
  <2>2. nextId \in Nat \ {0} /\ panelId \in Nat /\ reply \in Nat \cup {None}
    BY DEF Init, BoardInit
  <2>3. up /\ connected /\ haveSent \in BOOLEAN /\ lastSent \in SUBSET Gauge
    BY DEF Init, BoardInit
  <2>4. QED
    BY <1>2, <2>1, <2>2, <2>3 DEF Typed
<1>4. OursKnown /\ Mine = {}
  BY <1>2 DEF OursKnown, Mine, Ours
<1>5. UnderWay /\ Placed /\ Settled
  BY <1>4 DEF Init, BoardInit, UnderWay, Placed, Settled, Awaiting
<1>6. QED
  BY <1>3, <1>4, <1>5 DEF CalmMirrors, Mirrors

(* A step that does not take our panel from us keeps the mirror: nobody    *)
(* but the monitor, the reaper and rivals beside us touches the board, and *)
(* the daemon is up all the time.                                          *)
LEMMA CalmStep ==
    ASSUME Mirrors, Next, ~ SendFails, ~ (Troubles /\ Spoils), pc # "gone", pc' # "gone"
    PROVE  Mirrors'
<1>1. CASE Loop
  <2>1. CASE Top \/ Read \/ Nap \/ Wake \/ Receive \/ Drained
    BY <2>1, QuietKeeps
  <2>2. QED
    BY <1>1, <2>1, WarnMirrors, SyncMirrors, ReturnMirrors DEF Loop
<1>2. CASE Change \/ Tick
  BY <1>2, QuietKeeps
<1>3. CASE Served
  BY <1>3, QuietServed, AwaitedServed
<1>4. CASE Expired
  BY <1>4, ExpiredMirrors
<1>5. ~ Quit
  BY DEF Quit, Goto
<1>6. ~ Swept /\ ~ Started /\ ~ Refused
  BY DEF Swept, ProducerGone, Started, Start, Refused, ActivationFails, Mirrors, Typed
<1>7. CASE Withdrawn
  <2>1. Holder \cap Ours = {} /\ RivalLeaves /\ UNCHANGED own
    BY <1>7 DEF Withdrawn, RivalLeaves
  <2>2. QED
    BY <2>1, RivalsMirror
<1>8. CASE Troubles
  <2>1. ~ Spoils
    BY <1>8
  <2>2. (\E urgency \in {1, 2} : RivalCreates(urgency, {})) /\ UNCHANGED own
    BY <1>8, <2>1 DEF Troubles, Spoils
  <2>3. Holder \cap Ours = {}
    BY <2>1, <2>2 DEF Spoils
  <2>4. QED
    BY <2>2, <2>3, RivalsMirror
<1>9. QED
  BY <1>1, <1>2, <1>3, <1>4, <1>5, <1>6, <1>7, <1>8 DEF Next

(* Once the monitor is gone it stays gone. *)
LEMMA GoneForGood ==
    ASSUME Next, pc = "gone"
    PROVE  pc' = "gone"
<1>1. ~ Loop
  BY DEF Loop, Top, Read, ReadHeadset, ReadLaptop, ReadState, Warn, Sync, Return, Nap, Wake,
         Receive, Drained
<1>2. CASE Quit \/ Change \/ Tick
  BY <1>2 DEF Quit, Change, Tick
<1>3. CASE Served \/ Swept \/ Started \/ Refused \/ Expired \/ Troubles \/ Withdrawn
  BY <1>3 DEF Served, Swept, Started, Refused, Expired, Troubles, Withdrawn, own
<1>4. QED
  BY <1>1, <1>2, <1>3 DEF Next

(* CalmMirrors survives every step.                                        *)
LEMMA CalmKeeps ==
    ASSUME CalmMirrors, [Next /\ Counted]_mcvars
    PROVE  CalmMirrors'
<1>1. CASE Next /\ Counted
  <2>1. spoilt' = (spoilt \/ SendFails \/ (Troubles /\ Spoils))
    BY <1>1 DEF Counted
  <2>2. ASSUME Calm' PROVE Mirrors'
    <3>1. ~ spoilt /\ ~ SendFails /\ ~ (Troubles /\ Spoils)
      BY <2>1, <2>2 DEF Calm
    <3>2. pc # "gone" /\ pc' # "gone"
      BY <1>1, <2>2, GoneForGood DEF Calm
    <3>3. Mirrors
      BY <3>1, <3>2 DEF CalmMirrors, Calm
    <3>4. QED
      BY <1>1, <3>1, <3>2, <3>3, CalmStep
  <2>3. QED
    BY <2>2 DEF CalmMirrors
<1>2. CASE UNCHANGED mcvars
  <2>1. UNCHANGED <<vars, spoilt>>
    BY <1>2 DEF mcvars
  <2>2. UNCHANGED <<daemon, calls, sent, panelId, source, reading, pc>>
    BY <2>1 DEF vars, batteries
  <2>3. ASSUME Mirrors PROVE Mirrors'
    BY <2>2, <2>3, LoopKeeps DEF Mirrors, Typed
  <2>4. Calm' = Calm
    BY <2>1, <2>2 DEF Calm
  <2>5. QED
    BY <2>1, <2>3, <2>4 DEF CalmMirrors
<1>3. QED
  BY <1>1, <1>2

(* When all that was sent has been handled, the mirror is the board.       *)
LEMMA MirrorIsBoard ==
    ASSUME CalmMirrors
    PROVE  BoardMirrorsReading
<1>1. SUFFICES ASSUME ~ spoilt, Idle
               PROVE  {board[i].body : i \in Gauged} = IF Wants THEN {} ELSE {Wanted} \ {{}}
  BY DEF BoardMirrorsReading
<1>2. pc = "poll" /\ outbox = << >> /\ Mirrors
  BY <1>1 DEF Idle, CalmMirrors, Calm
<1>3. reply = None /\ (panelId # 0 => lastSent = Wanted)
  BY <1>2 DEF Mirrors, Settled, UnderWay
<1>4. Gauged = Mine
  BY <1>2 DEF Gauged, Ours, Mine, Mirrors, OursKnown, IsToast, IsGauge
<1>5. CASE panelId = 0
  <2>1. Mine = {} /\ lastSent = {}
    BY <1>2, <1>3, <1>5 DEF Mirrors, Placed
  <2>2. ~ Wants => Wanted = {}
    BY <2>1 DEF Wants, GaugesEqual
  <2>3. QED
    BY <1>4, <2>1, <2>2
<1>6. CASE panelId # 0
  <2>1. Updates = {}
    BY <1>2 DEF Updates
  <2>2. /\ Mine = {panelId} /\ haveSent /\ lastSent # {}
        /\ board[panelId].body = lastSent
    BY <1>2, <1>3, <1>6, <2>1 DEF Mirrors, Placed, WillShow
  <2>3. ~ Wants
    BY <1>3, <1>6, <2>2 DEF Wants, GaugesEqual
  <2>4. QED
    BY <1>3, <1>4, <1>6, <2>2, <2>3
<1>7. QED
  BY <1>5, <1>6

(* As long as the daemon lives, updates can be sent and nobody takes the   *)
(* slot from it, the board shows the gauges of the last reading on one     *)
(* panel; or none, if there is nothing to show or the panel was refused,   *)
(* which the client then knows (syncPanel, battery/main.cpp): however      *)
(* often the batteries change, readings fail, rivals come before it,       *)
(* toasts come and go, and calls are under way.  It holds without          *)
(* MCBattery's bounds, and so with them.                                   *)
THEOREM BoardMirrors ==
    /\ Init /\ [][Next /\ Counted]_mcvars => []BoardMirrorsReading
    /\ MCSpec => []BoardMirrorsReading
<1>1. Init => CalmMirrors
  BY CalmAtFirst
<1>2. CalmMirrors /\ [Next /\ Counted]_mcvars => CalmMirrors'
  BY CalmKeeps
<1>3. CalmMirrors => BoardMirrorsReading
  BY MirrorIsBoard
<1>4. MCInit => Init
  BY DEF MCInit
<1>5. [MCNext]_mcvars => [Next /\ Counted]_mcvars
  BY DEF MCNext
<1>6. QED
  BY <1>1, <1>2, <1>3, <1>4, <1>5, PTL DEF MCSpec
=============================================================================
