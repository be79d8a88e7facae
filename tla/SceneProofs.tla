---------------------------- MODULE SceneProofs ----------------------------
(***************************************************************************)
(* Proofs about Scene, for any set of owners, slots, urgencies and         *)
(* contents, any cap, and a table of any size.                             *)
(***************************************************************************)
EXTENDS Scene, WellFoundedInduction, FiniteSetTheorems, TLAPS

(* The parts of the invariants, as facts about a table P with ids below n *)
IsTable(P, n) == DOMAIN P \subseteq 1 .. n - 1 /\ P \in [DOMAIN P -> Panel]

OneActive(P) == \A s \in Singletons : \A i, j \in Active(P, s) : i = j

NoneIdle(P) == \A s \in Singletons : Pending(P, s) # {} => Active(P, s) # {}

----------------------------------------------------------------------------
(* Least and Best *)

(* A set of naturals has at most one least element ... *)
LEMMA LeastUnique ==
    ASSUME NEW S \in SUBSET Nat
    PROVE  \A i, j \in Least(S) : i = j
BY DEF Least

(* ... and one if it has any element. *)
LEMMA LeastExists ==
    ASSUME NEW S \in SUBSET Nat, S # {}
    PROVE  Least(S) # {}
<1>1. PICK x \in S : \A y \in S : <<y, x>> \notin OpToRel(<, Nat)
  BY NatLessThanWellFounded, WFMin, Zenon
<1>2. \A y \in S : ~ (y < x)
  BY <1>1 DEF OpToRel
<1>3. QED
  BY <1>2 DEF Least

(* A nonempty set of ints has a greatest element. *)
LEMMA GreatestExists ==
    ASSUME NEW S \in SUBSET ((-IntMax - 1) .. IntMax), S # {}
    PROVE  \E x \in S : \A y \in S : y <= x
<1> DEFINE T == {IntMax - x : x \in S}
<1>0. IntMax \in Nat
  BY SceneAssumption
<1>1. T \in SUBSET Nat /\ T # {}
  <2>1. \A x \in S : x \in Int /\ x <= IntMax
    BY <1>0
  <2>2. \A x \in S : IntMax - x \in Nat
    BY <1>0, <2>1
  <2>3. QED
    BY <2>2
<1>2. PICK m \in T : \A n \in T : m <= n
  BY <1>1, LeastExists DEF Least
<1>3. PICK x \in S : m = IntMax - x
  OBVIOUS
<1>4. \A y \in S : m <= IntMax - y
  BY <1>2
<1>5. QED
  BY <1>0, <1>3, <1>4

(* A slot with a candidate has a best one. *)
LEMMA BestExists ==
    ASSUME NEW P, NEW n \in Nat, IsTable(P, n), NEW s, Candidates(P, s) # {}
    PROVE  Best(P, s) # {}
<1> DEFINE C == Candidates(P, s)
           U == {P[i].urgency : i \in C}
           B == {i \in C : \A j \in C : P[j].urgency <= P[i].urgency}
<1>1. C \subseteq DOMAIN P /\ C \in SUBSET Nat
  BY DEF Candidates, Pending, Members, IsTable
<1>2. U \in SUBSET ((-IntMax - 1) .. IntMax) /\ U # {}
  BY <1>1, SceneAssumption DEF IsTable, Panel, Ints
<1>3. PICK u \in U : \A v \in U : v <= u
  BY <1>2, GreatestExists
<1>4. B # {}
  BY <1>3
<1>5. B \in SUBSET Nat
  BY <1>1
<1>6. QED
  BY <1>4, <1>5, LeastExists DEF Best

----------------------------------------------------------------------------
(* Reconciling *)

(* It keeps the ids, and unqueues the promoted panels and no other. *)
LEMMA ReconcileFields ==
    ASSUME NEW P, NEW n \in Nat, IsTable(P, n), NEW t
    PROVE  /\ DOMAIN Reconcile(P, t) = DOMAIN P
           /\ \A i \in DOMAIN P :
                 /\ Reconcile(P, t)[i].slot = P[i].slot
                 /\ Reconcile(P, t)[i].owner = P[i].owner
                 /\ Reconcile(P, t)[i].urgency = P[i].urgency
                 /\ Reconcile(P, t)[i].queued = (P[i].queued /\ i \notin Promoted(P))
<1>1. \A i \in DOMAIN P : P[i] \in Panel
  BY DEF IsTable
<1>2. ASSUME NEW i \in DOMAIN P
      PROVE  /\ Unqueue(P[i], t).slot = P[i].slot
             /\ Unqueue(P[i], t).owner = P[i].owner
             /\ Unqueue(P[i], t).urgency = P[i].urgency
             /\ Unqueue(P[i], t).queued = FALSE
  BY <1>1 DEF Unqueue, Panel
<1>3. DOMAIN Reconcile(P, t) = DOMAIN P
  BY DEF Reconcile
<1>4. ASSUME NEW i \in DOMAIN P
      PROVE  Reconcile(P, t)[i] = IF i \in Promoted(P) THEN Unqueue(P[i], t) ELSE P[i]
  BY DEF Reconcile
<1>5. \A i \in DOMAIN P : P[i].queued \in BOOLEAN
  BY <1>1 DEF Panel
<1>6. ASSUME NEW i \in DOMAIN P
      PROVE  Reconcile(P, t)[i].queued = (P[i].queued /\ i \notin Promoted(P))
  <2>1. CASE i \in Promoted(P)
    BY <1>2, <1>4, <2>1
  <2>2. CASE i \notin Promoted(P)
    BY <1>4, <1>5, <2>2
  <2>3. QED
    BY <2>1, <2>2
<1>7. QED
  BY <1>2, <1>3, <1>4, <1>6

(* Reconciling a table leaves a table.                                     *)
LEMMA ReconcileType ==
    ASSUME NEW P, NEW n \in Nat, IsTable(P, n), NEW t \in Nat
    PROVE  IsTable(Reconcile(P, t), n)
<1>1. ASSUME NEW i \in DOMAIN P
      PROVE  P[i] \in Panel
  BY DEF IsTable
<1>2. ASSUME NEW p \in Panel
      PROVE  Unqueue(p, t) \in Panel
  <2>1. p.epoch + 1 \in Nat
    BY DEF Panel
  <2>2. QED
    BY <2>1, Zenon DEF Unqueue, Panel
<1>3. QED
  BY <1>1, <1>2 DEF IsTable, Reconcile

(* Who is promoted into slot s: nobody while it is held, its best candidate *)
(* otherwise.                                                               *)
LEMMA PromotedIn ==
    ASSUME NEW P, NEW s \in Singletons, NEW i \in Members(P, s)
    PROVE  i \in Promoted(P) <=> Active(P, s) = {} /\ i \in Best(P, s)
<1>1. \A q : Best(P, q) \subseteq Members(P, q)
  BY DEF Best, Least, Candidates, Pending
<1>2. \A q : i \in Members(P, q) => q = s
  BY DEF Members
<1>3. QED
  BY <1>1, <1>2 DEF Promoted

(* The panels that hold slot s afterwards *)
LEMMA ReconcileActive ==
    ASSUME NEW P, NEW n \in Nat, IsTable(P, n), NEW t, NEW s \in Singletons
    PROVE  Active(Reconcile(P, t), s) =
              IF Active(P, s) = {} THEN Best(P, s) ELSE Active(P, s)
<1>1. Members(Reconcile(P, t), s) = Members(P, s)
  BY ReconcileFields DEF Members
<1>2. \A i \in Members(P, s) :
         Reconcile(P, t)[i].queued = (P[i].queued /\ i \notin Promoted(P))
  BY ReconcileFields DEF Members
<1>3. \A i \in Members(P, s) : i \in Promoted(P) <=> Active(P, s) = {} /\ i \in Best(P, s)
  BY PromotedIn
<1>4. Best(P, s) \subseteq Members(P, s)
  BY DEF Best, Least, Candidates, Pending
<1>5. QED
  BY <1>1, <1>2, <1>3, <1>4 DEF Active

(* Reconciling a table whose slots have one occupant leaves them with one. *)
LEMMA ReconcileOneActive ==
    ASSUME NEW P, NEW n \in Nat, IsTable(P, n), NEW t, OneActive(P)
    PROVE  OneActive(Reconcile(P, t))
<1> SUFFICES ASSUME NEW s \in Singletons, NEW i \in Active(Reconcile(P, t), s),
                    NEW j \in Active(Reconcile(P, t), s)
             PROVE  i = j
  BY DEF OneActive
<1>1. CASE Active(P, s) = {}
  <2>1. i \in Best(P, s) /\ j \in Best(P, s)
    BY <1>1, ReconcileActive
  <2>2. Candidates(P, s) \in SUBSET Nat
    BY DEF Candidates, Pending, Members, IsTable
  <2>3. QED
    BY <2>1, <2>2, LeastUnique DEF Best
<1>2. CASE Active(P, s) # {}
  BY <1>2, ReconcileActive DEF OneActive
<1>3. QED
  BY <1>1, <1>2

(* It leaves no slot idle, whatever table it is given, unless a panel is   *)
(* pending below urgency -1.                                               *)
LEMMA ReconcileNoneIdle ==
    ASSUME NEW P, NEW n \in Nat, IsTable(P, n), NEW t,
           \A x \in Urgencies : x >= -1
    PROVE  NoneIdle(Reconcile(P, t))
<1> SUFFICES ASSUME NEW s \in Singletons, Pending(Reconcile(P, t), s) # {},
                    Active(Reconcile(P, t), s) = {}
             PROVE  FALSE
  BY DEF NoneIdle
<1>1. Active(P, s) = {} /\ Best(P, s) = {}
  BY ReconcileActive
<1>2. PICK i \in Pending(Reconcile(P, t), s) : TRUE
  OBVIOUS
<1>3. i \in Pending(P, s)
  BY <1>2, ReconcileFields DEF Pending, Members
<1>4. P[i].urgency \in Urgencies
  BY <1>3 DEF Pending, Members, IsTable, Panel
<1>5. i \in Candidates(P, s)
  BY <1>3, <1>4 DEF Candidates
<1>6. QED
  BY <1>1, <1>5, BestExists

----------------------------------------------------------------------------
(* Removing and adding *)

(* What is left of a table without the panels S.                           *)
LEMMA WithoutFields ==
    ASSUME NEW P, NEW n \in Nat, IsTable(P, n), NEW S
    PROVE  /\ IsTable(Without(P, S), n)
           /\ DOMAIN Without(P, S) = DOMAIN P \ S
           /\ \A s : Active(Without(P, S), s) = Active(P, s) \ S
           /\ \A s : Pending(Without(P, S), s) = Pending(P, s) \ S
<1>1. DOMAIN Without(P, S) = DOMAIN P \ S
  BY DEF Without
<1>2. \A i \in DOMAIN P \ S : Without(P, S)[i] = P[i]
  BY DEF Without
<1>3. IsTable(Without(P, S), n)
  BY DEF IsTable, Without
<1>4. QED
  BY <1>1, <1>2, <1>3 DEF Active, Pending, Members

(* Whoever goes, a slot whose other occupants are one has one.             *)
LEMMA OneActiveWithout ==
    ASSUME NEW P, NEW n \in Nat, IsTable(P, n), NEW S,
           \A s \in Singletons : \A i, j \in Active(P, s) \ S : i = j
    PROVE  OneActive(Without(P, S))
<1>1. \A s : Active(Without(P, S), s) = Active(P, s) \ S
  BY DEF Without, Active, Members
<1>2. QED
  BY <1>1 DEF OneActive

(* What a table is with one panel more.                                    *)
LEMMA InsertFields ==
    ASSUME NEW P, NEW n \in Nat \ {0}, IsTable(P, n), NEW p \in Panel
    PROVE  /\ IsTable(Insert(P, n, p), n + 1)
           /\ DOMAIN Insert(P, n, p) = DOMAIN P \cup {n}
           /\ Insert(P, n, p)[n] = p
           /\ \A i \in DOMAIN P : Insert(P, n, p)[i] = P[i]
<1>1. n \notin DOMAIN P
  BY DEF IsTable
<1>2. DOMAIN Insert(P, n, p) = DOMAIN P \cup {n}
  BY DEF Insert
<1>3. /\ Insert(P, n, p)[n] = p
      /\ \A i \in DOMAIN P : Insert(P, n, p)[i] = P[i]
  BY <1>1 DEF Insert
<1>4. DOMAIN P \cup {n} \subseteq 1 .. (n + 1) - 1
  BY DEF IsTable
<1>5. \A i \in DOMAIN P \cup {n} : Insert(P, n, p)[i] \in Panel
  BY <1>3 DEF IsTable
<1>6. Insert(P, n, p) \in [DOMAIN P \cup {n} -> Panel]
  BY <1>5 DEF Insert
<1>7. QED
  BY <1>2, <1>3, <1>4, <1>6 DEF IsTable

(* In a table whose slots have one occupant, the occupant a newcomer finds *)
(* is every other panel that holds the slot.                               *)
LEMMA OccupantIsActive ==
    ASSUME NEW P, NEW n \in Nat, IsTable(P, n), OneActive(P),
           NEW s \in Singletons, NEW i
    PROVE  Occupant(P, s, i) = Active(P, s) \ {i}
<1>1. Active(P, s) \in SUBSET Nat
  BY DEF Active, Members, IsTable
<1>2. \A j, k \in Active(P, s) : j = k
  BY DEF OneActive
<1>3. QED
  BY <1>1, <1>2 DEF Occupant, Least

----------------------------------------------------------------------------
(* Requests and what they build *)

(* The fields of a request, given or default, are of their types.          *)
LEMMA RequestType ==
    ASSUME NEW K \in SUBSET Keys, NEW u \in RequestsWith(K)
    PROVE  /\ u.id \in Nat /\ u.owner \in Owners /\ u.slot \in Places
           /\ u.urgency \in Urgencies /\ u.fade \in Fades /\ u.content \in Contents
<1>1. /\ u.slot \in Given(K, "slot", Places)
      /\ u.urgency \in Given(K, "urgency", Urgencies)
      /\ u.fade \in Given(K, "fade", Fades)
      /\ u.content \in Given(K, "content", Contents)
      /\ u.id \in 0 .. nextId
      /\ u.owner \in Owners
  BY DEF RequestsWith
<1>2. /\ Default["slot"] \in Places
      /\ Default["urgency"] \in Urgencies
      /\ Default["fade"] \in Fades
      /\ Default["content"] \in Contents
  BY SceneAssumption DEF Places
<1>3. QED
  BY <1>1, <1>2 DEF Given

(* A panel that a request was merged into is still one.                    *)
LEMMA MergedType ==
    ASSUME NEW p \in Panel, NEW K \in SUBSET Keys, NEW u \in RequestsWith(K),
           NEW queued \in BOOLEAN, NEW t \in Nat
    PROVE  /\ Merged(p, u, queued, t) \in Panel
           /\ Merged(p, u, queued, t).slot = Supplied(u, "slot", p.slot, u.slot)
           /\ Merged(p, u, queued, t).queued = queued
           /\ Merged(p, u, queued, t).owner = u.owner
<1>1. /\ p.slot \in Places /\ p.urgency \in Urgencies /\ p.fade \in Fades
      /\ p.content \in Contents /\ p.shownAt \in Nat /\ p.epoch \in Nat
  BY DEF Panel
<1>2. p.epoch + 1 \in Nat
  BY <1>1
<1>3. QED
  BY <1>1, <1>2, RequestType, Zenon DEF Merged, Supplied, Panel

(* The panel that a request makes.                                         *)
LEMMA NewPanelType ==
    ASSUME NEW K \in SUBSET Keys, NEW u \in RequestsWith(K),
           NEW queued \in BOOLEAN, NEW t \in Nat
    PROVE  /\ NewPanel(u, queued, t) \in Panel
           /\ NewPanel(u, queued, t).slot = u.slot
           /\ NewPanel(u, queued, t).queued = queued
           /\ NewPanel(u, queued, t).owner = u.owner
<1>1. 1 \in Nat
  OBVIOUS
<1>2. QED
  BY <1>1, RequestType, Zenon DEF NewPanel, Panel

(* TypeOK says of the table what the lemmas about tables ask for.          *)
LEMMA TypeOKIsTable == TypeOK => IsTable(panels, nextId) /\ nextId \in Nat \ {0}
BY DEF TypeOK, IsTable

----------------------------------------------------------------------------
(* What an upsert comes to: the table it arbitrates, merges and makes room *)
(* in stage by stage, against the table it was given                       *)

NoEffect == Return("upsert", 0, {}) /\ UNCHANGED <<panels, nextId>>

UpdateOutcome(u) ==
    LET p       == panels[u.id]
        urgency == Supplied(u, "urgency", p.urgency, u.urgency)
        rival   == IF Moves(u) THEN Occupant(panels, u.slot, u.id) ELSE {}
        loses   == Outranked(panels, rival, urgency)
        evicted == IF loses THEN {} ELSE rival
        queued  == IF Moves(u) THEN loses ELSE p.queued
        merged  == [panels EXCEPT ![u.id] = Merged(p, u, queued, now)]
    IN  IF loses /\ u.slot \notin QueueSlots
        THEN NoEffect
        ELSE /\ panels' = Reconcile(Without(merged, evicted), now)
             /\ Return("upsert", u.id, Preempted(evicted))
             /\ UNCHANGED nextId

CreateOutcome(u) ==
    LET rival   == Occupant(panels, u.slot, 0)
        loses   == Outranked(panels, rival, u.urgency)
        evicted == (IF loses THEN {} ELSE rival) \cup Overflow(panels, u.slot)
    IN  IF \/ Cardinality(OwnedBy(panels, u.owner)) >= Cap
           \/ loses /\ u.slot \notin QueueSlots
        THEN NoEffect
        ELSE /\ panels' = Insert(Without(panels, evicted), nextId, NewPanel(u, loses, now))
             /\ Return("upsert", nextId, Preempted(evicted))
             /\ Issue

(* Nobody goes, nothing changes.                                           *)
LEMMA WithoutNobody ==
    ASSUME NEW P, NEW n \in Nat, IsTable(P, n)
    PROVE  Without(P, {}) = P
BY DEF Without, IsTable

(* One after the other, or both together.                                  *)
LEMMA WithoutTwice ==
    ASSUME NEW P, NEW S, NEW T
    PROVE  Without(Without(P, S), T) = Without(P, S \cup T)
<1>1. DOMAIN P \ (S \cup T) = (DOMAIN P \ S) \ T
  OBVIOUS
<1>2. QED
  BY <1>1 DEF Without

(* A panel that stays can be changed before or after the others go.        *)
LEMMA WithoutBeside ==
    ASSUME NEW P, NEW S, NEW i, i \in DOMAIN P \ S, NEW q
    PROVE  [Without(P, S) EXCEPT ![i] = q] = Without([P EXCEPT ![i] = q], S)
BY DEF Without

(* A newcomer that loses leaves the table as it was, and a refusal with it *)
(* has no effect.                                                          *)
LEMMA LosesInVain ==
    ASSUME TypeOK, NEW s, NEW i, NEW x, Arbitrated(panels, s, i, x).loses
    PROVE  Refuse(Arbitrated(panels, s, i, x)) <=> NoEffect
<1> DEFINE at == Arbitrated(panels, s, i, x)
<1>1. at.evicted = {} /\ at.table = panels
  BY TypeOKIsTable, WithoutNobody DEF Arbitrated
<1>2. Preempted({}) = {}
  BY DEF Preempted
<1>3. QED
  BY <1>1, <1>2 DEF Refuse, NoEffect

(* An update arbitrates, merges and reconciles.                            *)
LEMMA UpdateComesTo ==
    ASSUME TypeOK, NEW u, u.id \in DOMAIN panels, Update(u)
    PROVE  UpdateOutcome(u)
<1> DEFINE p       == panels[u.id]
           urgency == Supplied(u, "urgency", p.urgency, u.urgency)
           rival   == IF Moves(u) THEN Occupant(panels, u.slot, u.id) ELSE {}
           loses   == Outranked(panels, rival, urgency)
           evicted == IF loses THEN {} ELSE rival
           at      == IF Moves(u) THEN Arbitrated(panels, u.slot, u.id, urgency)
                      ELSE Unarbitrated(panels)
           queued  == IF Moves(u) THEN loses ELSE p.queued
           q       == Merged(p, u, queued, now)
<1>1. Outranked(panels, {}, urgency) = FALSE
  BY DEF Outranked
<1>2. at.loses = loses /\ at.evicted = evicted /\ at.table = Without(panels, evicted)
  <2>1. CASE Moves(u)
    BY <2>1 DEF Arbitrated
  <2>2. CASE ~ Moves(u)
    BY <1>1, <2>2, TypeOKIsTable, WithoutNobody DEF Unarbitrated
  <2>3. QED
    BY <2>1, <2>2
<1>3. u.id \in DOMAIN panels \ evicted
  BY DEF Occupant, Least, Active, Members
<1>4. [at.table EXCEPT ![u.id] = q] = Without([panels EXCEPT ![u.id] = q], evicted)
  <2> HIDE DEF evicted, q, at
  <2>1. QED
    BY <1>2, <1>3, WithoutBeside
<1>5. CASE loses /\ u.slot \notin QueueSlots
  <2>1. Moves(u)
    BY <1>1, <1>5
  <2>2. Refuse(at)
    BY <1>2, <1>5 DEF Update
  <2>3. NoEffect
    <3>1. at = Arbitrated(panels, u.slot, u.id, urgency) /\ at.loses
      BY <1>2, <1>5, <2>1
    <3> HIDE DEF at, urgency
    <3>2. QED
      BY <2>2, <3>1, LosesInVain
  <2>4. QED
    BY <1>5, <2>3 DEF UpdateOutcome
<1>6. CASE ~ (loses /\ u.slot \notin QueueSlots)
  <2>1. /\ panels' = Reconcile([at.table EXCEPT ![u.id] =
                                  Merged(p, u, IF Moves(u) THEN at.loses ELSE p.queued, now)], now)
        /\ Return("upsert", u.id, Preempted(at.evicted))
        /\ UNCHANGED nextId
    BY <1>2, <1>6, Zenon DEF Update
  <2>2. panels' = Reconcile(Without([panels EXCEPT ![u.id] = q], evicted), now)
    <3>1. Merged(p, u, IF Moves(u) THEN at.loses ELSE p.queued, now) = q
      BY <1>2, Zenon
    <3> HIDE DEF q, at, evicted
    <3>2. QED
      BY <1>4, <2>1, <3>1
  <2>3. Return("upsert", u.id, Preempted(evicted))
    BY <1>2, <2>1, Zenon
  <2>4. QED
    BY <1>6, <2>1, <2>2, <2>3, Zenon DEF UpdateOutcome
<1>7. QED
  BY <1>5, <1>6

(* A create passes the cap, arbitrates, makes room and enters.             *)
LEMMA CreateComesTo ==
    ASSUME TypeOK, NEW u, Create(u)
    PROVE  CreateOutcome(u)
<1> DEFINE at      == Arbitrated(panels, u.slot, 0, u.urgency)
           full    == Overflow(at.table, u.slot)
           rival   == Occupant(panels, u.slot, 0)
           loses   == Outranked(panels, rival, u.urgency)
           room    == IF loses THEN {} ELSE rival
           evicted == room \cup Overflow(panels, u.slot)
           capped  == Cardinality(OwnedBy(panels, u.owner)) >= Cap
<1>1. at.loses = loses /\ at.evicted = room /\ at.table = Without(panels, room)
  BY DEF Arbitrated
<1>2. full = Overflow(panels, u.slot)
  <2>1. CASE u.slot \in Stacks
    <3>1. u.slot \notin Singletons
      BY <2>1, SceneAssumption
    <3>2. room = {}
      BY <3>1 DEF Occupant
    <3>3. at.table = panels
      BY <1>1, <3>2, TypeOKIsTable, WithoutNobody
    <3>4. QED
      BY <3>3
  <2>2. CASE u.slot \notin Stacks
    BY <2>2 DEF Overflow
  <2>3. QED
    BY <2>1, <2>2
<1>3. Without(at.table, full) = Without(panels, evicted)
  <2> HIDE DEF room, full, at
  <2>1. QED
    BY <1>1, <1>2, WithoutTwice
<1>4. CASE capped
  <2>1. Refuse(Unarbitrated(panels))
    BY <1>4 DEF Create
  <2>2. Preempted({}) = {}
    BY DEF Preempted
  <2>3. NoEffect
    BY <2>1, <2>2 DEF Refuse, Unarbitrated, NoEffect
  <2>4. QED
    BY <1>4, <2>3 DEF CreateOutcome
<1>5. CASE ~ capped /\ loses /\ u.slot \notin QueueSlots
  <2>1. Refuse(at) /\ at.loses
    BY <1>1, <1>5 DEF Create
  <2>2. NoEffect
    BY <2>1, LosesInVain
  <2>3. QED
    BY <1>5, <2>2 DEF CreateOutcome
<1>6. CASE ~ capped /\ ~ (loses /\ u.slot \notin QueueSlots)
  <2>1. /\ panels' = Insert(Without(at.table, full), nextId, NewPanel(u, at.loses, now))
        /\ Return("upsert", nextId, Preempted(at.evicted \cup full))
        /\ Issue
    BY <1>1, <1>6, Zenon DEF Create
  <2>2. panels' = Insert(Without(panels, evicted), nextId, NewPanel(u, loses, now))
    <3> HIDE DEF evicted, full, at, loses
    <3>1. QED
      BY <1>1, <1>3, <2>1
  <2>3. Return("upsert", nextId, Preempted(evicted))
    BY <1>1, <1>2, <2>1, Zenon
  <2>4. QED
    BY <1>6, <2>1, <2>2, <2>3, Zenon DEF CreateOutcome
<1>7. QED
  BY <1>4, <1>5, <1>6

----------------------------------------------------------------------------
(* The steps that change the table *)

(* What a step has to preserve *)
Good(P, n) == IsTable(P, n) /\ OneActive(P)

NoLowUrgency == \A x \in Urgencies : x >= -1

(* An update keeps Good, and leaves no slot idle that was not.             *)
LEMMA UpdateStep ==
    ASSUME TypeOK, OneActive(panels), NEW K \in SUBSET Keys,
           NEW u \in RequestsWith(K), u.id \in DOMAIN panels, Update(u)
    PROVE  /\ Good(panels', nextId')
           /\ NoLowUrgency /\ NoneIdle(panels) => NoneIdle(panels')
<1> DEFINE p       == panels[u.id]
           urgency == Supplied(u, "urgency", p.urgency, u.urgency)
           rival   == IF Moves(u) THEN Occupant(panels, u.slot, u.id) ELSE {}
           loses   == Outranked(panels, rival, urgency)
           evicted == IF loses THEN {} ELSE rival
           queued  == IF Moves(u) THEN loses ELSE p.queued
           q       == Merged(p, u, queued, now)
           merged  == [panels EXCEPT ![u.id] = q]
           T       == Without(merged, evicted)
<1>1. IsTable(panels, nextId) /\ nextId \in Nat /\ now \in Nat
  BY DEF TypeOK, IsTable
<1>2. CASE panels' = panels /\ nextId' = nextId
  BY <1>1, <1>2 DEF Good
<1>3. CASE panels' = Reconcile(T, now) /\ nextId' = nextId
  <2>1. p \in Panel
    BY <1>1 DEF IsTable
  <2>2. queued \in BOOLEAN
    BY <2>1 DEF Panel, Outranked
  <2>3. /\ q \in Panel
        /\ q.slot = Supplied(u, "slot", p.slot, u.slot)
        /\ q.queued = queued
    BY <1>1, <2>1, <2>2, MergedType
  <2>4. IsTable(merged, nextId)
    BY <1>1, <2>3 DEF IsTable
  <2>5. IsTable(T, nextId)
    BY <1>1, <2>4, WithoutFields
  <2>6. OneActive(T)
    <3> SUFFICES ASSUME NEW s \in Singletons,
                        NEW i \in Active(merged, s) \ evicted,
                        NEW j \in Active(merged, s) \ evicted
                 PROVE  i = j
      BY <1>1, <2>4, OneActiveWithout
    <3>1. \A k \in DOMAIN panels : k # u.id => merged[k] = panels[k]
      OBVIOUS
    <3>2. merged[u.id] = q /\ DOMAIN merged = DOMAIN panels
      OBVIOUS
    <3>3. \A k \in Active(merged, s) : k # u.id => k \in Active(panels, s)
      BY <3>1, <3>2 DEF Active, Members
    <3>4. CASE u.id \notin Active(merged, s)
      <4>1. i \in Active(panels, s) /\ j \in Active(panels, s)
        BY <3>3, <3>4, Zenon
      <4>2. QED
        BY <4>1, Zenon DEF OneActive
    <3>5. CASE u.id \in Active(merged, s)
      <4>1. q.slot = s /\ ~ queued
        BY <2>3, <3>2, <3>5 DEF Active, Members
      <4>2. CASE Moves(u)
        <5>0. queued = loses
          BY <4>2, Zenon
        <5>1. u.slot = s /\ ~ loses
          <6>1. u.slot = s
            BY <2>3, <4>1, <4>2 DEF Moves, Supplied
          <6>2. ~ loses
            BY <4>1, <5>0, Zenon
          <6>3. QED
            BY <6>1, <6>2, Zenon
        <5>2. evicted = Active(panels, s) \ {u.id}
          BY <1>1, <4>2, <5>1, OccupantIsActive
        <5>3. QED
          BY <3>3, <5>2
      <4>3. CASE ~ Moves(u)
        <5>1. p.slot = s
          BY <2>3, <4>1, <4>3 DEF Moves, Supplied
        <5>2. u.id \in Active(panels, s)
          <6>1. ~ p.queued
            BY <4>1, <4>3, Zenon
          <6>2. QED
            BY <5>1, <6>1, Zenon DEF Active, Members
        <5>3. QED
          BY <3>3, <5>2 DEF OneActive
      <4>4. QED
        BY <4>2, <4>3
    <3>6. QED
      BY <3>4, <3>5
  <2>7. QED
    BY <1>1, <1>3, <2>5, <2>6, ReconcileType, ReconcileOneActive, ReconcileNoneIdle
       DEF Good, NoLowUrgency
<1>4. QED
  BY <1>2, <1>3, UpdateComesTo DEF UpdateOutcome, NoEffect

(* The panels of slot s once p has entered the table as the n-th *)
LEMMA InsertSlots ==
    ASSUME NEW P, NEW n \in Nat \ {0}, IsTable(P, n), NEW p \in Panel, NEW s
    PROVE  /\ Active(Insert(P, n, p), s) =
                 Active(P, s) \cup (IF p.slot = s /\ ~ p.queued THEN {n} ELSE {})
           /\ Pending(Insert(P, n, p), s) =
                 Pending(P, s) \cup (IF p.slot = s /\ p.queued THEN {n} ELSE {})
<1>1. DOMAIN Insert(P, n, p) = DOMAIN P \cup {n}
  BY DEF Insert
<1>2. n \notin DOMAIN P
  BY DEF IsTable
<1>3. /\ Insert(P, n, p)[n] = p
      /\ \A i \in DOMAIN P : Insert(P, n, p)[i] = P[i]
  BY <1>2 DEF Insert
<1>4. QED
  BY <1>1, <1>2, <1>3 DEF Active, Pending, Members

(* A create keeps Good, and leaves no slot idle that was not.              *)
LEMMA CreateStep ==
    ASSUME TypeOK, OneActive(panels), NEW K \in SUBSET Keys,
           NEW u \in RequestsWith(K), Create(u)
    PROVE  /\ Good(panels', nextId')
           /\ NoneIdle(panels) => NoneIdle(panels')
<1> DEFINE rival   == Occupant(panels, u.slot, 0)
           loses   == Outranked(panels, rival, u.urgency)
           evicted == (IF loses THEN {} ELSE rival) \cup Overflow(panels, u.slot)
           q       == NewPanel(u, loses, now)
           W       == Without(panels, evicted)
<1>1. IsTable(panels, nextId) /\ nextId \in Nat \ {0} /\ now \in Nat
  BY DEF TypeOK, IsTable
<1>2. CASE panels' = panels /\ nextId' = nextId
  BY <1>1, <1>2 DEF Good
<1>3. CASE panels' = Insert(W, nextId, q) /\ nextId' = nextId + 1
  <2>1. loses \in BOOLEAN
    BY DEF Outranked
  <2>2. q \in Panel /\ q.slot = u.slot /\ q.queued = loses
    BY <1>1, <2>1, NewPanelType
  <2>3. IsTable(W, nextId)
    BY <1>1, WithoutFields
  <2>4. IsTable(panels', nextId')
    BY <1>1, <1>3, <2>2, <2>3, InsertFields
  <2>5. \A s : /\ Active(W, s) = Active(panels, s) \ evicted
               /\ Pending(W, s) = Pending(panels, s) \ evicted
    BY DEF Without, Active, Pending, Members
  <2>6. \A s : /\ Active(panels', s) = (Active(panels, s) \ evicted) \cup
                     (IF u.slot = s /\ ~ loses THEN {nextId} ELSE {})
               /\ Pending(panels', s) = (Pending(panels, s) \ evicted) \cup
                     (IF u.slot = s /\ loses THEN {nextId} ELSE {})
    <3> HIDE DEF loses, W, q, evicted
    <3>1. QED
      BY <1>1, <1>3, <2>2, <2>3, <2>5, InsertSlots
  <2>7. evicted \subseteq Members(panels, u.slot)
    BY DEF Occupant, Overflow, Active, Least
  <2>8. ASSUME NEW s \in Singletons
        PROVE  /\ \A i, j \in Active(panels', s) : i = j
               /\ NoneIdle(panels) /\ Pending(panels', s) # {} => Active(panels', s) # {}
    <3>1. \A i, j \in Active(panels, s) : i = j
      BY DEF OneActive
    <3>2. NoneIdle(panels) /\ Pending(panels, s) # {} => Active(panels, s) # {}
      BY DEF NoneIdle
    <3>3. CASE u.slot # s
      <4>1. Active(panels, s) \ evicted = Active(panels, s)
        BY <2>7, <3>3 DEF Active, Members
      <4>2. Pending(panels, s) \ evicted = Pending(panels, s)
        BY <2>7, <3>3 DEF Pending, Members
      <4>3. QED
        BY <2>6, <3>1, <3>2, <3>3, <4>1, <4>2
    <3>4. CASE u.slot = s
      <4>1. Overflow(panels, s) = {}
        BY SceneAssumption DEF Overflow
      <4>2. rival = Active(panels, s)
        <5>1. rival = Active(panels, s) \ {0}
          BY <1>1, <3>4, OccupantIsActive
        <5>2. 0 \notin Active(panels, s)
          BY <1>1 DEF Active, Members, IsTable
        <5>3. QED
          BY <5>1, <5>2
      <4>3. CASE loses
        <5>1. evicted = {}
          BY <3>4, <4>1, <4>3
        <5>2. Active(panels, s) # {}
          BY <4>2, <4>3 DEF Outranked
        <5>3. Active(panels', s) = Active(panels, s)
          BY <2>6, <4>3, <5>1
        <5>4. QED
          BY <3>1, <5>2, <5>3
      <4>4. CASE ~ loses
        <5>1. evicted = Active(panels, s)
          BY <3>4, <4>1, <4>2, <4>4
        <5>2. Active(panels', s) = {nextId}
          BY <2>6, <3>4, <4>4, <5>1
        <5>3. QED
          BY <5>2
      <4>5. QED
        BY <4>3, <4>4
    <3>5. QED
      BY <3>3, <3>4
  <2>9. QED
    BY <2>4, <2>8 DEF Good, OneActive, NoneIdle
<1>4. QED
  BY <1>2, <1>3, CreateComesTo DEF CreateOutcome, NoEffect, Issue

(* Every removal takes some panels away and reconciles. *)
LEMMA RemovalStep ==
    ASSUME TypeOK, OneActive(panels), NEW S,
           panels' = Reconcile(Without(panels, S), now), nextId' = nextId
    PROVE  /\ Good(panels', nextId')
           /\ NoLowUrgency => NoneIdle(panels')
<1>1. IsTable(panels, nextId) /\ nextId \in Nat /\ now \in Nat
  BY DEF TypeOK, IsTable
<1>2. IsTable(Without(panels, S), nextId)
  BY <1>1, WithoutFields
<1>3. \A s \in Singletons : \A i, j \in Active(panels, s) \ S : i = j
  BY DEF OneActive
<1>4. OneActive(Without(panels, S))
  BY <1>1, <1>3, OneActiveWithout
<1>5. QED
  BY <1>1, <1>2, <1>4, ReconcileType, ReconcileOneActive, ReconcileNoneIdle
     DEF Good, NoLowUrgency

(* Redrawing everything changes no slot.                                   *)
LEMMA RedrawStep ==
    ASSUME TypeOK, OneActive(panels), ForceRedrawAll
    PROVE  /\ Good(panels', nextId')
           /\ NoneIdle(panels) => NoneIdle(panels')
<1>1. IsTable(panels, nextId)
  BY DEF TypeOK, IsTable
<1>2. ASSUME NEW p \in Panel
      PROVE  [p EXCEPT !.epoch = @ + 1] \in Panel
  <2>1. p.epoch + 1 \in Nat
    BY DEF Panel
  <2>2. QED
    BY <2>1, Zenon DEF Panel
<1>3. \A i \in DOMAIN panels : panels[i] \in Panel
  BY <1>1 DEF IsTable
<1>4. IsTable(panels', nextId')
  BY <1>1, <1>2, <1>3 DEF IsTable, ForceRedrawAll
<1>5. DOMAIN panels' = DOMAIN panels
  BY DEF ForceRedrawAll
<1>6. ASSUME NEW i \in DOMAIN panels
      PROVE  panels'[i].slot = panels[i].slot /\ panels'[i].queued = panels[i].queued
  BY <1>3 DEF ForceRedrawAll, Panel
<1>7. \A s : Active(panels', s) = Active(panels, s) /\ Pending(panels', s) = Pending(panels, s)
  BY <1>5, <1>6 DEF Active, Pending, Members
<1>8. QED
  BY <1>4, <1>7 DEF Good, OneActive, NoneIdle

(* What a call returns is well-typed. *)
LEMMA ReplyType ==
    ASSUME TypeOK, Next
    PROVE  reply' \in [call : {"none", "upsert", "dismiss", "drop", "redraw"},
                       id : Nat, dismissed : SUBSET Dismissal]
<1> DEFINE Reply == [call : {"none", "upsert", "dismiss", "drop", "redraw"},
                     id : Nat, dismissed : SUBSET Dismissal]
<1>1. DOMAIN panels \subseteq Nat /\ nextId \in Nat
  BY DEF TypeOK
<1>2. ASSUME NEW S \in SUBSET DOMAIN panels, NEW r \in {"preempted", "expired", "client-gone"}
      PROVE  {[id |-> i, reason |-> r] : i \in S} \subseteq Dismissal
  BY <1>1 DEF Dismissal
<1>3. ASSUME NEW c \in {"none", "upsert", "dismiss", "drop", "redraw"}, NEW i \in Nat,
             NEW D \in SUBSET Dismissal, Return(c, i, D)
      PROVE  reply' \in Reply
  BY <1>3 DEF Return
<1>4. \A s, i : Occupant(panels, s, i) \subseteq DOMAIN panels
  BY DEF Occupant, Least, Active, Members
<1>5. \A s : Overflow(panels, s) \subseteq DOMAIN panels
  BY DEF Overflow, Members
<1>6. ASSUME NEW K \in SUBSET Keys, NEW u \in RequestsWith(K), Upsert(u)
      PROVE  reply' \in Reply
  <2>1. ASSUME NEW i \in Nat, NEW S \in SUBSET DOMAIN panels,
               Return("upsert", i, Preempted(S))
        PROVE  reply' \in Reply
    <3>1. Preempted(S) \in SUBSET Dismissal
      BY <1>2 DEF Preempted
    <3>2. QED
      BY <1>3, <2>1, <3>1
  <2>2. CASE NoEffect
    BY <1>3, <2>2 DEF NoEffect
  <2>3. CASE u.id \in DOMAIN panels /\ Update(u) /\ ~ NoEffect
    <3>1. PICK S \in SUBSET DOMAIN panels : Return("upsert", u.id, Preempted(S))
      BY <1>4, <2>3, UpdateComesTo, Zenon DEF UpdateOutcome
    <3>2. QED
      BY <1>1, <2>1, <2>3, <3>1
  <2>4. CASE Create(u) /\ ~ NoEffect
    <3> DEFINE rival == Occupant(panels, u.slot, 0)
               evicted == (IF Outranked(panels, rival, u.urgency) THEN {} ELSE rival)
                             \cup Overflow(panels, u.slot)
    <3>1. evicted \in SUBSET DOMAIN panels
      BY <1>4, <1>5
    <3>2. Return("upsert", nextId, Preempted(evicted))
      BY <2>4, CreateComesTo, Zenon DEF CreateOutcome
    <3>3. QED
      BY <1>1, <2>1, <3>1, <3>2
  <2>5. QED
    BY <1>6, <2>2, <2>3, <2>4 DEF Upsert
<1>7. ASSUME NEW S \in SUBSET DOMAIN panels, NEW r \in {"expired", "client-gone"}, Drop(S, r)
      PROVE  reply' \in Reply
  <2>1. {[id |-> i, reason |-> r] : i \in S} \in SUBSET Dismissal
    BY <1>2
  <2>2. QED
    BY <1>3, <1>7, <2>1 DEF Drop
<1>8. CASE \E i \in DOMAIN panels : Dismiss(i)
  BY <1>1, <1>3, <1>8 DEF Dismiss
<1>9. CASE \E o \in Owners : DropOwner(o)
  BY <1>7, <1>9 DEF DropOwner, OwnedBy
<1>10. CASE ReapExpired
  <2>1. PICK wraps \in BOOLEAN : Drop(ExpiredPanels(panels, now, wraps), "expired")
    BY <1>10 DEF ReapExpired
  <2>2. QED
    BY <1>7, <2>1 DEF ExpiredPanels
<1>11. CASE ForceRedrawAll
  BY <1>3, <1>11 DEF ForceRedrawAll
<1>12. CASE Tick
  BY <1>12 DEF Tick, TypeOK
<1>13. QED
  BY <1>6, <1>8, <1>9, <1>10, <1>11, <1>12 DEF Next, Step

(* One step of the scene *)
LEMMA NextStep ==
    ASSUME TypeOK, OneActive(panels), Next
    PROVE  /\ TypeOK' /\ OneActive(panels')
           /\ NoLowUrgency /\ NoneIdle(panels) => NoneIdle(panels')
<1>1. CASE \E K \in SUBSET Keys : \E u \in RequestsWith(K) : Upsert(u)
  <2>1. PICK K \in SUBSET Keys : \E u \in RequestsWith(K) : Upsert(u)
    BY <1>1
  <2>2. PICK u \in RequestsWith(K) : Upsert(u)
    BY <2>1
  <2>3. Good(panels', nextId') /\ (NoLowUrgency /\ NoneIdle(panels) => NoneIdle(panels'))
    <3>1. CASE u.id \in DOMAIN panels
      BY <2>2, <3>1, UpdateStep DEF Upsert
    <3>2. CASE u.id \notin DOMAIN panels
      BY <2>2, <3>2, CreateStep DEF Upsert
    <3>3. QED
      BY <3>1, <3>2
  <2>4. now' = now /\ nextId' \in Nat \ {0}
    <3>1. now' = now /\ nextId \in Nat \ {0}
      BY <2>2 DEF Upsert, TypeOK
    <3>2. nextId' = nextId \/ nextId' = nextId + 1
      BY <2>2 DEF Upsert, Update, Create, Refuse, Issue
    <3>3. QED
      BY <3>1, <3>2
  <2>5. QED
    BY <2>3, <2>4, ReplyType DEF Good, IsTable, TypeOK
<1>2. CASE \E S : panels' = Reconcile(Without(panels, S), now) /\ UNCHANGED <<nextId, now>>
  BY <1>2, RemovalStep, ReplyType DEF Good, IsTable, TypeOK
<1>3. CASE ForceRedrawAll
  <2>1. UNCHANGED <<nextId, now>>
    BY <1>3 DEF ForceRedrawAll
  <2>2. QED
    BY <1>3, <2>1, RedrawStep, ReplyType DEF Good, IsTable, TypeOK
<1>4. CASE Tick
  BY <1>4 DEF Tick, TypeOK
<1>5. QED
  BY <1>1, <1>2, <1>3, <1>4 DEF Next, Step, Dismiss, DropOwner, ReapExpired, Drop

----------------------------------------------------------------------------
(* Theorems *)

(* The empty table is good.                                                *)
LEMMA InitGood == Init => TypeOK /\ OneActive(panels) /\ NoneIdle(panels)
BY DEF Init, TypeOK, OneActive, NoneIdle, Active, Pending, Members

(* The inductive invariant: one occupant per slot cannot be separated from *)
(* type correctness, which makes ids comparable, and thus an occupant the  *)
(* least and only active member.                                           *)
IInv == TypeOK /\ OneActive(panels)

(* The invariant holds throughout.                                         *)
LEMMA InvariantHolds == Spec => []IInv
<1>1. Init => IInv
  BY InitGood DEF IInv
<1>2. IInv /\ [Next]_vars => IInv'
  <2>1. CASE Next
    BY <2>1, NextStep DEF IInv
  <2>2. CASE UNCHANGED vars
    BY <2>2 DEF IInv, vars, TypeOK, OneActive, Active, Members
  <2>3. QED
    BY <2>1, <2>2
<1>3. QED
  BY <1>1, <1>2, PTL DEF Spec

(* Every table the scene builds is well-formed: ids below nextId, and      *)
(* nothing in a panel that a request could not have brought.               *)
THEOREM TypeCorrect == Spec => []TypeOK
<1>1. IInv => TypeOK
  BY DEF IInv
<1>2. QED
  BY <1>1, InvariantHolds, PTL

(* Whatever the calls and their order, however many slots, panels and      *)
(* owners: a singleton slot has one occupant.                              *)
THEOREM SlotsExclusive == Spec => []OneOccupant
<1>1. IInv => OneOccupant
  BY DEF IInv, OneActive, OneOccupant
<1>2. QED
  BY <1>1, InvariantHolds, PTL

(* Where no request goes below urgency -1, whence the reconciliation       *)
(* starts its search, no call leaves a slot empty with a panel pending.    *)
THEOREM SlotsNeverIdle ==
    ASSUME NoLowUrgency
    PROVE  Spec => []NoIdleSlot
<1>1. Init => NoIdleSlot
  BY InitGood DEF NoneIdle, NoIdleSlot
<1>2. IInv /\ NoIdleSlot /\ [Next]_vars => NoIdleSlot'
  <2>1. CASE Next
    BY <2>1, NextStep DEF IInv, NoneIdle, NoIdleSlot
  <2>2. CASE UNCHANGED vars
    BY <2>2 DEF vars, NoIdleSlot, Pending, Active, Members
  <2>3. QED
    BY <2>1, <2>2
<1>3. QED
  BY <1>1, <1>2, InvariantHolds, PTL DEF Spec

(* A request that is refused, by the cap or because it loses the           *)
(* arbitration of a create or of a move, has evicted nobody by the time it *)
(* returns, and used up no id: a loser's table is the one it was given     *)
(* (LosesInVain).                                                          *)
THEOREM RefusalsHarmless == Spec => RefusalChangesNothing
<1> DEFINE Refused == reply'.call = "upsert" /\ reply'.id = 0
<1>1. TypeOK /\ [Next]_vars =>
         [Refused => /\ panels' = panels
                     /\ nextId' = nextId
                     /\ reply'.dismissed = {}]_<<panels, nextId, reply>>
  <2> SUFFICES ASSUME TypeOK, Next, Refused, reply' # reply \/ panels' # panels \/ nextId' # nextId
               PROVE  panels' = panels /\ nextId' = nextId /\ reply'.dismissed = {}
    BY DEF vars
  <2>1. ASSUME NEW K \in SUBSET Keys, NEW u \in RequestsWith(K), Upsert(u)
        PROVE  panels' = panels /\ nextId' = nextId /\ reply'.dismissed = {}
    <3>1. CASE u.id \in DOMAIN panels
      <4>1. u.id # 0
        BY <3>1 DEF TypeOK
      <4>2. QED
        <5>1. UpdateOutcome(u)
          BY <2>1, <3>1, UpdateComesTo DEF Upsert
        <5>2. NoEffect
          BY <4>1, <5>1 DEF UpdateOutcome, Return
        <5>3. QED
          BY <5>2 DEF NoEffect, Return
    <3>2. CASE u.id \notin DOMAIN panels
      <4>1. nextId # 0
        BY DEF TypeOK
      <4>2. QED
        <5>1. CreateOutcome(u)
          BY <2>1, <3>2, CreateComesTo DEF Upsert
        <5>2. NoEffect
          BY <4>1, <5>1 DEF CreateOutcome, Return
        <5>3. QED
          BY <5>2 DEF NoEffect, Return
    <3>3. QED
      BY <3>1, <3>2
  <2>2. CASE Tick
    BY <2>2 DEF Tick
  <2>3. CASE \E i \in DOMAIN panels : Dismiss(i)
    BY <2>3 DEF Dismiss, Return
  <2>4. CASE \E S, r : Drop(S, r)
    BY <2>4 DEF Drop, Return
  <2>5. CASE ForceRedrawAll
    BY <2>5 DEF ForceRedrawAll, Return
  <2>6. QED
    BY <2>1, <2>2, <2>3, <2>4, <2>5 DEF Next, Step, DropOwner, ReapExpired
<1>2. QED
  BY <1>1, TypeCorrect, PTL DEF Spec, RefusalChangesNothing

----------------------------------------------------------------------------
(* What a request comes to, once it is settled who makes room *)

(* A panel of singleton slot s with that urgency waits for it (and nobody  *)
(* makes room), or takes it from those who hold it.                        *)
Contends(s, id, urgency, evicted, queued) ==
    LET others == Active(panels, s) \ {id}
    IN  IF queued THEN /\ evicted = {} /\ s \in QueueSlots
                       /\ \E o \in others : urgency < panels[o].urgency
        ELSE evicted = others /\ \A o \in others : urgency >= panels[o].urgency

Urgency(u) == Supplied(u, "urgency", panels[u.id].urgency, u.urgency)

(* The table after an update, before its slots are reconciled *)
MergedInto(u, queued) == [panels EXCEPT ![u.id] = Merged(panels[u.id], u, queued, now)]

Unreconciled(u, evicted, queued) == Without(MergedInto(u, queued), evicted)

Updated(u, evicted, queued) ==
    /\ evicted \subseteq DOMAIN panels \ {u.id}
    /\ queued \in BOOLEAN
    /\ panels' = Reconcile(Unreconciled(u, evicted, queued), now)
    /\ Return("upsert", u.id, Preempted(evicted))
    /\ nextId' = nextId
    /\ IF Moves(u) THEN Contends(u.slot, u.id, Urgency(u), evicted, queued)
       ELSE evicted = {} /\ queued = panels[u.id].queued

Created(u, evicted, queued) ==
    /\ evicted \subseteq DOMAIN panels
    /\ queued \in BOOLEAN
    /\ panels' = Insert(Without(panels, evicted), nextId, NewPanel(u, queued, now))
    /\ Return("upsert", nextId, Preempted(evicted))
    /\ nextId' = nextId + 1
    /\ IF u.slot \in Singletons THEN Contends(u.slot, 0, u.urgency, evicted, queued)
       ELSE evicted = Overflow(panels, u.slot) /\ queued = FALSE

(* The panel that is in the way of a newcomer is outranked or goes. *)
LEMMA RivalContends ==
    ASSUME TypeOK, OneActive(panels), NEW s \in Singletons, NEW id, NEW urgency \in Urgencies,
           NEW loses, loses = Outranked(panels, Occupant(panels, s, id), urgency),
           loses => s \in QueueSlots
    PROVE  /\ loses \in BOOLEAN
           /\ Contends(s, id, urgency, IF loses THEN {} ELSE Occupant(panels, s, id), loses)
<1>1. IsTable(panels, nextId) /\ nextId \in Nat
  BY TypeOKIsTable
<1>2. Occupant(panels, s, id) = Active(panels, s) \ {id}
  BY <1>1, OccupantIsActive
<1>3. \A o \in Active(panels, s) : panels[o].urgency \in Int
  <2>1. \A o \in Active(panels, s) : panels[o] \in Panel
    BY <1>1 DEF Active, Members, IsTable
  <2>2. \A x \in Urgencies : x \in Int
    BY SceneAssumption DEF Ints
  <2>3. QED
    BY <2>1, <2>2 DEF Panel
<1>4. urgency \in Int
  BY SceneAssumption DEF Ints
<1>5. loses <=> \E o \in Active(panels, s) \ {id} : urgency < panels[o].urgency
  BY <1>2 DEF Outranked
<1>6. loses \in BOOLEAN
  BY DEF Outranked
<1>7. CASE loses
  BY <1>5, <1>7 DEF Contends
<1>8. CASE ~ loses
  <2>1. \A o \in Active(panels, s) \ {id} : urgency >= panels[o].urgency
    BY <1>3, <1>4, <1>5, <1>8
  <2>2. QED
    BY <1>2, <1>6, <1>8, <2>1 DEF Contends
<1>9. QED
  BY <1>6, <1>7, <1>8

(* Every branch of an update comes out as a refusal or as Updated.         *)
LEMMA UpdateSettles ==
    ASSUME TypeOK, OneActive(panels), NEW K \in SUBSET Keys,
           NEW u \in RequestsWith(K), u.id \in DOMAIN panels, Update(u)
    PROVE  NoEffect \/ \E evicted, queued : Updated(u, evicted, queued)
<1> DEFINE p       == panels[u.id]
           rival   == IF Moves(u) THEN Occupant(panels, u.slot, u.id) ELSE {}
           loses   == Outranked(panels, rival, Urgency(u))
           evicted == IF loses THEN {} ELSE rival
           queued  == IF Moves(u) THEN loses ELSE p.queued
<1>1. IsTable(panels, nextId) /\ nextId \in Nat
  BY TypeOKIsTable
<1>2. p \in Panel /\ Urgency(u) \in Urgencies
  BY <1>1, RequestType DEF IsTable, Panel, Urgency, Supplied
<1>3. loses \in BOOLEAN
  BY DEF Outranked
<1>4. \/ NoEffect
      \/ /\ loses => u.slot \in QueueSlots
         /\ panels' = Reconcile(Unreconciled(u, evicted, queued), now)
         /\ Return("upsert", u.id, Preempted(evicted))
         /\ nextId' = nextId
  BY UpdateComesTo, Zenon DEF UpdateOutcome, Urgency, MergedInto, Unreconciled
<1>5. queued \in BOOLEAN
  BY <1>2, <1>3 DEF Panel
<1>6. rival \subseteq DOMAIN panels \ {u.id}
  BY DEF Occupant, Least, Active, Members
<1>7. ASSUME loses => u.slot \in QueueSlots
      PROVE  IF Moves(u) THEN Contends(u.slot, u.id, Urgency(u), evicted, queued)
             ELSE evicted = {} /\ queued = p.queued
  <2>1. CASE Moves(u)
    <3>1. u.slot \in Singletons /\ loses = Outranked(panels, Occupant(panels, u.slot, u.id), Urgency(u))
      BY <2>1 DEF Moves
    <3>2. Contends(u.slot, u.id, Urgency(u), IF loses THEN {} ELSE Occupant(panels, u.slot, u.id), loses)
      <4> HIDE DEF loses
      <4>1. QED
        BY <1>2, <1>7, <3>1, RivalContends
    <3>3. QED
      BY <2>1, <3>2, Zenon
  <2>2. CASE ~ Moves(u)
    BY <2>2, Zenon
  <2>3. QED
    BY <2>1, <2>2, Zenon
<1>8. evicted \subseteq DOMAIN panels \ {u.id}
  BY <1>6
<1> HIDE DEF evicted, queued, loses
<1>9. QED
  BY <1>4, <1>5, <1>7, <1>8, Zenon DEF Updated

(* Every branch of a create comes out as a refusal or as Created.          *)
LEMMA CreateSettles ==
    ASSUME TypeOK, OneActive(panels), NEW K \in SUBSET Keys,
           NEW u \in RequestsWith(K), Create(u)
    PROVE  NoEffect \/ \E evicted, queued : Created(u, evicted, queued)
<1> DEFINE rival   == Occupant(panels, u.slot, 0)
           loses   == Outranked(panels, rival, u.urgency)
           room    == IF loses THEN {} ELSE rival
           evicted == room \cup Overflow(panels, u.slot)
<1>1. u.urgency \in Urgencies
  BY RequestType
<1>2. loses \in BOOLEAN
  BY DEF Outranked
<1>3. \/ NoEffect
      \/ /\ loses => u.slot \in QueueSlots
         /\ panels' = Insert(Without(panels, evicted), nextId, NewPanel(u, loses, now))
         /\ Return("upsert", nextId, Preempted(evicted))
         /\ nextId' = nextId + 1
  BY CreateComesTo, Zenon DEF CreateOutcome, Issue
<1>4. evicted \subseteq DOMAIN panels
  BY DEF Occupant, Least, Active, Members, Overflow
<1>5. ASSUME loses => u.slot \in QueueSlots
      PROVE  IF u.slot \in Singletons THEN Contends(u.slot, 0, u.urgency, evicted, loses)
             ELSE evicted = Overflow(panels, u.slot) /\ loses = FALSE
  <2>1. CASE u.slot \in Singletons
    <3>1. Overflow(panels, u.slot) = {}
      BY <2>1, SceneAssumption DEF Overflow
    <3>2. evicted = room
      BY <3>1
    <3>3. Contends(u.slot, 0, u.urgency, room, loses)
      <4>1. loses = Outranked(panels, Occupant(panels, u.slot, 0), u.urgency)
        OBVIOUS
      <4> HIDE DEF loses
      <4>2. QED
        BY <1>1, <1>5, <2>1, <4>1, RivalContends
    <3>4. QED
      BY <2>1, <3>2, <3>3, Zenon
  <2>2. CASE u.slot \notin Singletons
    <3>1. rival = {}
      BY <2>2 DEF Occupant
    <3>2. ~ loses
      BY <3>1 DEF Outranked
    <3>3. QED
      BY <1>2, <2>2, <3>1, <3>2
  <2>3. QED
    BY <2>1, <2>2, Zenon
<1> HIDE DEF evicted, loses
<1>6. QED
  BY <1>2, <1>3, <1>4, <1>5, Zenon DEF Created

(* An update changes one panel, and those that make room go. *)
LEMMA UnreconciledFields ==
    ASSUME NEW u, NEW evicted, NEW queued, u.id \in DOMAIN panels
    PROVE  /\ DOMAIN Unreconciled(u, evicted, queued) = DOMAIN panels \ evicted
           /\ \A i \in DOMAIN panels \ (evicted \cup {u.id}) :
                 Unreconciled(u, evicted, queued)[i] = panels[i]
           /\ u.id \notin evicted =>
                 Unreconciled(u, evicted, queued)[u.id] = Merged(panels[u.id], u, queued, now)
<1> DEFINE q == Merged(panels[u.id], u, queued, now)
<1> HIDE DEF q
<1>1. MergedInto(u, queued) = [panels EXCEPT ![u.id] = q]
  BY DEF MergedInto, q
<1>2. QED
  BY <1>1 DEF Unreconciled, Without, q

(* What an update has made of the table before the slots are reconciled.   *)
LEMMA UnreconciledType ==
    ASSUME TypeOK, NEW K \in SUBSET Keys, NEW u \in RequestsWith(K), u.id \in DOMAIN panels,
           NEW evicted, NEW queued, queued \in BOOLEAN
    PROVE  /\ IsTable(Unreconciled(u, evicted, queued), nextId)
           /\ LET q == Merged(panels[u.id], u, queued, now)
              IN  /\ q.slot = Supplied(u, "slot", panels[u.id].slot, u.slot)
                  /\ q.urgency = Urgency(u)
                  /\ q.queued = queued
<1> DEFINE q == Merged(panels[u.id], u, queued, now)
           M == MergedInto(u, queued)
<1>1. IsTable(panels, nextId) /\ nextId \in Nat /\ now \in Nat
  BY TypeOKIsTable DEF TypeOK
<1>2. /\ q \in Panel /\ q.queued = queued
      /\ q.slot = Supplied(u, "slot", panels[u.id].slot, u.slot)
  BY <1>1, MergedType DEF IsTable
<1>3. q.urgency = Urgency(u)
  BY DEF Merged, Urgency
<1> HIDE DEF q
<1>4. M = [panels EXCEPT ![u.id] = q]
  BY DEF MergedInto, q
<1>5. IsTable(M, nextId)
  BY <1>1, <1>2, <1>4 DEF IsTable
<1> HIDE DEF M
<1>6. IsTable(Without(M, evicted), nextId)
  BY <1>1, <1>5, WithoutFields
<1>7. Unreconciled(u, evicted, queued) = Without(M, evicted)
  BY DEF Unreconciled, M
<1>8. QED
  BY <1>2, <1>3, <1>6, <1>7 DEF q

(* Who is on the table after each kind of step *)
LEMMA DomainAfter ==
    ASSUME TypeOK
    PROVE  /\ \A K \in SUBSET Keys : \A u \in RequestsWith(K) : \A evicted, queued :
                 u.id \in DOMAIN panels /\ Updated(u, evicted, queued) =>
                    DOMAIN panels' = DOMAIN panels \ evicted
           /\ \A u, evicted, queued :
                 Created(u, evicted, queued) =>
                    /\ DOMAIN panels' = (DOMAIN panels \ evicted) \cup {nextId}
                    /\ nextId \notin DOMAIN panels
           /\ \A S : panels' = Reconcile(Without(panels, S), now) =>
                        DOMAIN panels' = DOMAIN panels \ S
<1>1. IsTable(panels, nextId) /\ nextId \in Nat
  BY TypeOKIsTable
<1>2. ASSUME NEW K \in SUBSET Keys, NEW u \in RequestsWith(K), NEW evicted, NEW queued,
             u.id \in DOMAIN panels, Updated(u, evicted, queued)
      PROVE  DOMAIN panels' = DOMAIN panels \ evicted
  <2> DEFINE T == Unreconciled(u, evicted, queued)
  <2>1. queued \in BOOLEAN /\ panels' = Reconcile(T, now)
    BY <1>2 DEF Updated
  <2>2. DOMAIN T = DOMAIN panels \ evicted
    BY <1>2, UnreconciledFields
  <2> HIDE DEF T
  <2>3. QED
    BY <2>1, <2>2 DEF Reconcile
<1>3. ASSUME NEW u, NEW evicted, NEW queued, Created(u, evicted, queued)
      PROVE  /\ DOMAIN panels' = (DOMAIN panels \ evicted) \cup {nextId}
             /\ nextId \notin DOMAIN panels
  BY <1>1, <1>3 DEF Created, Insert, Without, IsTable
<1>4. ASSUME NEW S, panels' = Reconcile(Without(panels, S), now)
      PROVE  DOMAIN panels' = DOMAIN panels \ S
  BY <1>4 DEF Reconcile, Without
<1>5. QED
  BY <1>2, <1>3, <1>4

(* The kinds of steps that change the table or return *)
LEMMA Kinds ==
    ASSUME IInv, Next
    PROVE  \/ NoEffect
           \/ \E K \in SUBSET Keys : \E u \in RequestsWith(K) : \E evicted, queued :
                 u.id \in DOMAIN panels /\ Updated(u, evicted, queued)
           \/ \E K \in SUBSET Keys : \E u \in RequestsWith(K) : \E evicted, queued :
                 Created(u, evicted, queued)
           \/ \E i \in DOMAIN panels : Dismiss(i)
           \/ \E S \in SUBSET DOMAIN panels : Drop(S, "client-gone")
           \/ ReapExpired
           \/ ForceRedrawAll
           \/ Tick
<1>1. ASSUME NEW K \in SUBSET Keys, NEW u \in RequestsWith(K), Upsert(u)
      PROVE  \/ NoEffect
             \/ \E evicted, queued : u.id \in DOMAIN panels /\ Updated(u, evicted, queued)
             \/ \E evicted, queued : Created(u, evicted, queued)
  BY <1>1, UpdateSettles, CreateSettles DEF IInv, Upsert
<1>2. ASSUME NEW o \in Owners, DropOwner(o)
      PROVE  \E S \in SUBSET DOMAIN panels : Drop(S, "client-gone")
  BY <1>2 DEF DropOwner, OwnedBy
<1>3. QED
  BY <1>1, <1>2, Zenon DEF Next, Step

(* Whatever leaves the table is announced, once and with one reason, and   *)
(* nothing that stays is: a client that hears PanelDismissed may forget    *)
(* the id, and one that does not hear it need not.                         *)
THEOREM AllAnnounced == Spec => RemovalsAnnounced
<1> DEFINE Ids(D) == {d.id : d \in D}
           Exact == /\ Ids(reply'.dismissed) = IF reply'.call = "dismiss" THEN {} ELSE Removed
                    /\ \A d, e \in reply'.dismissed : d.id = e.id => d = e
<1>1. ASSUME NEW S, NEW r, NEW c \in {"upsert", "drop"}, NEW i,
             Return(c, i, {[id |-> j, reason |-> r] : j \in S}), Removed = S
      PROVE  Exact
  <2>1. /\ reply'.call = c
        /\ reply'.dismissed = {[id |-> j, reason |-> r] : j \in S}
    BY <1>1 DEF Return
  <2>2. Ids(reply'.dismissed) = S
    <3>1. \A j \in S : [id |-> j, reason |-> r] \in reply'.dismissed /\ [id |-> j, reason |-> r].id = j
      BY <2>1
    <3>2. \A d \in reply'.dismissed : d.id \in S
      BY <2>1
    <3>3. QED
      BY <3>1, <3>2
  <2>3. \A d, e \in reply'.dismissed : d.id = e.id => d = e
    BY <2>1
  <2>4. c # "dismiss"
    OBVIOUS
  <2>5. QED
    BY <1>1, <2>1, <2>2, <2>3, <2>4
<1>2. IInv /\ [Next]_vars => [Exact]_<<panels, nextId, reply>>
  <2> SUFFICES ASSUME IInv, Next, ~ UNCHANGED <<panels, nextId, reply>>
               PROVE  Exact
    BY DEF vars
  <2>0. TypeOK
    BY DEF IInv
  <2>1. CASE NoEffect
    BY <2>1 DEF NoEffect, Return, Removed
  <2>2. CASE \E K \in SUBSET Keys : \E u \in RequestsWith(K) : \E evicted, queued :
                u.id \in DOMAIN panels /\ Updated(u, evicted, queued)
    <3>1. PICK K \in SUBSET Keys : \E u \in RequestsWith(K) : \E evicted, queued :
             u.id \in DOMAIN panels /\ Updated(u, evicted, queued)
      BY <2>2
    <3>2. PICK u \in RequestsWith(K) : \E evicted, queued :
             u.id \in DOMAIN panels /\ Updated(u, evicted, queued)
      BY <3>1
    <3>3. PICK evicted, queued : u.id \in DOMAIN panels /\ Updated(u, evicted, queued)
      BY <3>2
    <3>4. evicted \subseteq DOMAIN panels /\ Return("upsert", u.id, Preempted(evicted))
      BY <3>3 DEF Updated
    <3>5. Removed = evicted
      BY <2>0, <3>3, <3>4, DomainAfter DEF Removed
    <3>6. QED
      BY <1>1, <3>4, <3>5 DEF Preempted
  <2>3. CASE \E K \in SUBSET Keys : \E u \in RequestsWith(K) : \E evicted, queued :
                Created(u, evicted, queued)
    <3>1. PICK u, evicted, queued : Created(u, evicted, queued)
      BY <2>3
    <3>2. evicted \subseteq DOMAIN panels /\ Return("upsert", nextId, Preempted(evicted))
      BY <3>1 DEF Created
    <3>3. /\ DOMAIN panels' = (DOMAIN panels \ evicted) \cup {nextId}
          /\ nextId \notin DOMAIN panels
      BY <2>0, <3>1, DomainAfter, Zenon
    <3>4. Removed = evicted
      BY <3>2, <3>3 DEF Removed
    <3>5. QED
      BY <1>1, <3>2, <3>4 DEF Preempted
  <2>4. CASE \E i \in DOMAIN panels : Dismiss(i)
    BY <2>4 DEF Dismiss, Return
  <2>5. ASSUME NEW S \in SUBSET DOMAIN panels, NEW r, Drop(S, r)
        PROVE  Exact
    <3>1. Removed = S
      BY <2>0, <2>5, DomainAfter DEF Drop, Removed
    <3>2. QED
      BY <1>1, <2>5, <3>1 DEF Drop
  <2>6. CASE ReapExpired
    <3>1. PICK wraps \in BOOLEAN : Drop(ExpiredPanels(panels, now, wraps), "expired")
      BY <2>6 DEF ReapExpired
    <3>2. QED
      BY <2>5, <3>1 DEF ExpiredPanels
  <2>7. CASE ForceRedrawAll
    <3>1. DOMAIN panels' = DOMAIN panels
      BY <2>7 DEF ForceRedrawAll
    <3>2. QED
      BY <2>7, <3>1 DEF ForceRedrawAll, Return, Removed
  <2>8. CASE Tick
    BY <2>8 DEF Tick
  <2>9. QED
    BY <2>1, <2>2, <2>3, <2>4, <2>5, <2>6, <2>7, <2>8, Kinds
<1>3. QED
  BY <1>2, InvariantHolds, PTL DEF Spec, RemovalsAnnounced

(* An int that does not overflow is what wrapping around leaves of it.     *)
LEMMA FitsAnInt ==
    ASSUME NEW n \in 0 .. IntMax
    PROVE  Wrapped(n) = n
<1>1. IntMax \in Nat
  BY SceneAssumption
<1>2. \A x, m \in Nat : x < m => x % m = x
  OBVIOUS
<1>3. n + IntMax + 1 \in Nat /\ 2 * (IntMax + 1) \in Nat /\ n + IntMax + 1 < 2 * (IntMax + 1)
  BY <1>1
<1>4. (n + IntMax + 1) % (2 * (IntMax + 1)) = n + IntMax + 1
  BY <1>2, <1>3
<1>5. QED
  BY <1>1, <1>4 DEF Wrapped

(* An envelope that has run out shows nothing any more.                    *)
LEMMA RunOut ==
    ASSUME NEW f \in Fade, f.hold >= 0, NEW e \in Int, e >= Length(f)
    PROVE  ~ Perceptible(f, e)
<1>1. f.rise \in Int /\ f.hold \in Int /\ f.fade \in Int /\ f.ceil \in Int
  BY SceneAssumption DEF Fade, Ints
<1>2. /\ Pos(f.rise) \in Nat /\ Pos(f.rise) >= f.rise
      /\ Pos(f.fade) \in Nat /\ Pos(f.fade) >= f.fade
  BY <1>1 DEF Pos
<1>3. e >= Pos(f.rise) + f.hold + Pos(f.fade)
  BY DEF Length
<1>4. QED
  BY <1>1, <1>2, <1>3 DEF Perceptible

(* Whatever envelopes the requests carry, of those whose length an int can *)
(* count the reaper takes one only when it has run out: nobody would ever  *)
(* have seen the panel again, and it neither persisted nor waited.         *)
THEOREM OnlyFadedExpire == Spec => ExpiryTakesOnlyFaded
<1> DEFINE Fits(i) == Length(panels[i].fade) <= IntMax
           Gone(i) == /\ ~ panels[i].queued
                      /\ panels[i].fade.hold >= 0
                      /\ \A later \in 0 .. IntMax : ~ Visible(panels[i], now + later)
<1>1. ASSUME NEW S, NEW r, NEW c, NEW j, r # "expired",
             Return(c, j, {[id |-> k, reason |-> r] : k \in S})
      PROVE  RemovedAs("expired") = {}
  BY <1>1 DEF Return, RemovedAs
<1>2. IInv /\ [Next]_vars => [\A i \in RemovedAs("expired") : Fits(i) => Gone(i)]_vars
  <2> SUFFICES ASSUME IInv, Next, NEW i \in RemovedAs("expired"), Fits(i)
               PROVE  Gone(i)
    OBVIOUS
  <2>1. CASE NoEffect \/ Tick
    BY <2>1 DEF NoEffect, Tick, RemovedAs, Removed
  <2>2. ASSUME NEW u, NEW evicted, NEW queued,
               Updated(u, evicted, queued) \/ Created(u, evicted, queued)
        PROVE  Gone(i)
    <3>1. \E j : Return("upsert", j, Preempted(evicted))
      BY <2>2 DEF Updated, Created
    <3>2. "preempted" # "expired"
      OBVIOUS
    <3>3. RemovedAs("expired") = {}
      BY <1>1, <3>1, <3>2 DEF Preempted
    <3>4. QED
      BY <3>3
  <2>3. CASE \E j \in DOMAIN panels : Dismiss(j)
    BY <2>3 DEF Dismiss, Return, RemovedAs
  <2>4. CASE \E S \in SUBSET DOMAIN panels : Drop(S, "client-gone")
    BY <1>1, <2>4 DEF Drop
  <2>5. CASE ReapExpired
    <3> DEFINE p == panels[i]
    <3>1. PICK wraps \in BOOLEAN : Drop(ExpiredPanels(panels, now, wraps), "expired")
      BY <2>5 DEF ReapExpired
    <3>2. reply'.dismissed =
             {[id |-> k, reason |-> "expired"] : k \in ExpiredPanels(panels, now, wraps)}
      BY <3>1 DEF Drop, Return
    <3>3. i \in ExpiredPanels(panels, now, wraps)
      BY <3>2 DEF RemovedAs
    <3>4. /\ ~ p.queued /\ p.fade.hold >= 0
          /\ now - p.shownAt >= Total(p.fade, wraps)
      BY <3>3 DEF ExpiredPanels, Expired
    <3>5. p.fade \in Fade /\ p.shownAt \in Int /\ now \in Int /\ IntMax \in Nat
      <4>1. p \in Panel /\ now \in Nat
        BY <3>3, TypeOKIsTable DEF IInv, TypeOK, ExpiredPanels, IsTable
      <4>2. QED
        BY <4>1, SceneAssumption DEF Panel
    <3>6. Length(p.fade) \in 0 .. IntMax
      <4>1. /\ p.fade.rise \in Int /\ p.fade.hold \in Int /\ p.fade.fade \in Int
        BY <3>5 DEF Fade, Ints
      <4>2. QED
        BY <3>4, <3>5, <4>1 DEF Length, Pos
    <3>7. Total(p.fade, wraps) = Length(p.fade)
      BY <3>6, FitsAnInt, Zenon DEF Total
    <3>8. ASSUME NEW later \in 0 .. IntMax
          PROVE  ~ Visible(p, now + later)
      <4>1. (now + later) - p.shownAt >= Length(p.fade) /\ (now + later) - p.shownAt \in Int
        BY <3>4, <3>5, <3>6, <3>7
      <4>2. ~ Perceptible(p.fade, (now + later) - p.shownAt)
        BY <3>4, <3>5, <4>1, RunOut
      <4>3. QED
        BY <4>2 DEF Visible
    <3>9. QED
      BY <3>4, <3>8
  <2>6. CASE ForceRedrawAll
    BY <2>6 DEF ForceRedrawAll, Return, RemovedAs
  <2>7. QED
    BY <2>1, <2>2, <2>3, <2>4, <2>5, <2>6, Kinds
<1>3. QED
  BY <1>2, InvariantHolds, PTL DEF Spec, ExpiryTakesOnlyFaded

----------------------------------------------------------------------------
(* Stacks *)

Younger(P, s, i) == {j \in Members(P, s) : OlderThan(P, i, j)}

(* The members of a slot are finitely many numbers, so that a least one    *)
(* exists.                                                                 *)
LEMMA MembersFinite ==
    ASSUME NEW P, NEW n \in Nat, IsTable(P, n), NEW s, NEW S \in SUBSET Members(P, s)
    PROVE  /\ S \in SUBSET Nat /\ IsFiniteSet(S) /\ Cardinality(S) \in Nat
           /\ \A i \in S : P[i].shownAt \in Nat
<1>1. S \in SUBSET Nat /\ \A x \in S : x <= n
  BY DEF Members, IsTable
<1>2. IsFiniteSet(S)
  BY <1>1, FS_BoundedSetOfNaturals
<1>3. \A i \in S : P[i] \in Panel
  BY DEF Members, IsTable
<1>4. QED
  BY <1>1, <1>2, <1>3, FS_CardinalityType DEF Panel

(* By age, then by id, panels are in a strict order. *)
LEMMA AgeOrders ==
    ASSUME NEW P, NEW n \in Nat, IsTable(P, n), NEW s,
           NEW i \in Members(P, s), NEW j \in Members(P, s)
    PROVE  /\ i # j => OlderThan(P, i, j) \/ OlderThan(P, j, i)
           /\ \A k \in Members(P, s) : OlderThan(P, i, j) /\ OlderThan(P, j, k) => OlderThan(P, i, k)
<1>1. /\ i \in Nat /\ j \in Nat /\ P[i].shownAt \in Nat /\ P[j].shownAt \in Nat
      /\ \A k \in Members(P, s) : k \in Nat /\ P[k].shownAt \in Nat
  <2>1. \A k \in Members(P, s) : k \in DOMAIN P
    BY DEF Members
  <2>2. \A k \in DOMAIN P : k \in Nat /\ P[k] \in Panel
    BY DEF IsTable
  <2>3. \A k \in DOMAIN P : P[k].shownAt \in Nat
    BY <2>2 DEF Panel
  <2>4. QED
    BY <2>1, <2>2, <2>3, Zenon
<1>2. i # j => OlderThan(P, i, j) \/ OlderThan(P, j, i)
  BY <1>1 DEF OlderThan
<1>3. ASSUME NEW k \in Members(P, s), OlderThan(P, i, j), OlderThan(P, j, k)
      PROVE  OlderThan(P, i, k)
  <2>1. k \in Nat /\ P[k].shownAt \in Nat
    BY <1>1
  <2>2. QED
    BY <1>1, <1>3, <2>1 DEF OlderThan
<1>4. QED
  BY <1>2, <1>3

(* What is pushed off a stack is older than all that stays. *)
LEMMA OverflowIsOldest ==
    ASSUME NEW P, NEW n \in Nat, IsTable(P, n), NEW s \in Stacks,
           NEW i \in Overflow(P, s), NEW j \in Members(P, s) \ Overflow(P, s)
    PROVE  OlderThan(P, i, j)
<1>1. /\ i \in Members(P, s) /\ Cardinality(Younger(P, s, i)) >= MaxStack[s] - 1
      /\ ~ (Cardinality(Younger(P, s, j)) >= MaxStack[s] - 1)
  BY DEF Overflow, Younger
<1>2. /\ IsFiniteSet(Younger(P, s, i)) /\ Cardinality(Younger(P, s, i)) \in Nat
      /\ IsFiniteSet(Younger(P, s, j)) /\ Cardinality(Younger(P, s, j)) \in Nat
  BY MembersFinite DEF Younger
<1>3. ASSUME OlderThan(P, j, i) PROVE FALSE
  <2>1. Younger(P, s, i) \subseteq Younger(P, s, j)
    BY <1>1, <1>3, AgeOrders DEF Younger
  <2>2. Cardinality(Younger(P, s, i)) <= Cardinality(Younger(P, s, j))
    BY <1>2, <2>1, FS_Subset
  <2>3. MaxStack[s] \in Nat
    BY SceneAssumption DEF Slots
  <2>4. QED
    BY <1>1, <1>2, <2>2, <2>3
<1>4. QED
  BY <1>1, <1>3, AgeOrders

(* A nonempty set of panels has an oldest. *)
LEMMA OldestExists ==
    ASSUME NEW P, NEW n \in Nat, IsTable(P, n), NEW s, NEW S \in SUBSET Members(P, s), S # {}
    PROVE  \E m \in S : \A j \in S \ {m} : OlderThan(P, m, j)
<1> DEFINE times == {P[i].shownAt : i \in S}
<1>1. S \in SUBSET Nat /\ \A i \in S : P[i].shownAt \in Nat
  BY MembersFinite
<1>2. times \in SUBSET Nat /\ times # {}
  BY <1>1
<1>3. PICK t \in times : \A x \in times : t <= x
  BY <1>2, LeastExists DEF Least
<1> DEFINE first == {i \in S : P[i].shownAt = t}
<1>4. first \in SUBSET Nat /\ first # {}
  BY <1>1, <1>3
<1>5. PICK m \in first : \A j \in first : m <= j
  BY <1>4, LeastExists DEF Least
<1>6. ASSUME NEW j \in S \ {m} PROVE OlderThan(P, m, j)
  <2>1. m \in Nat /\ j \in Nat /\ P[m].shownAt = t /\ P[j].shownAt \in Nat /\ t <= P[j].shownAt
    BY <1>1, <1>3, <1>4, <1>5
  <2>2. P[j].shownAt = t => m <= j
    BY <1>5
  <2>3. t \in Nat
    BY <1>2
  <2>4. QED
    BY <2>1, <2>2, <2>3 DEF OlderThan
<1>7. QED
  BY <1>5, <1>6

(* What stays on the stack leaves room for one. *)
LEMMA KeptFits ==
    ASSUME NEW P, NEW n \in Nat, IsTable(P, n), NEW s \in Stacks
    PROVE  Cardinality(Members(P, s) \ Overflow(P, s)) <= MaxStack[s] - 1
<1> DEFINE kept == Members(P, s) \ Overflow(P, s)
<1>0. MaxStack[s] \in Nat \ {0} /\ kept \in SUBSET Members(P, s)
  BY SceneAssumption DEF Slots
<1> HIDE DEF kept
<1>1. IsFiniteSet(kept) /\ Cardinality(kept) \in Nat
  BY <1>0, MembersFinite
<1>2. CASE kept = {}
  BY <1>0, <1>2, FS_EmptySet DEF kept
<1>3. CASE kept # {}
  <2>1. PICK m \in kept : \A j \in kept \ {m} : OlderThan(P, m, j)
    BY <1>0, <1>3, OldestExists
  <2>2. kept \ {m} \subseteq Younger(P, s, m)
    BY <1>0, <2>1 DEF Younger
  <2>3. IsFiniteSet(Younger(P, s, m)) /\ Cardinality(Younger(P, s, m)) \in Nat
    BY MembersFinite DEF Younger
  <2>4. ~ (Cardinality(Younger(P, s, m)) >= MaxStack[s] - 1)
    BY <2>1 DEF kept, Overflow, Younger
  <2>5. Cardinality(kept \ {m}) <= Cardinality(Younger(P, s, m))
    BY <2>2, <2>3, FS_Subset
  <2>6. Cardinality(kept \ {m}) = Cardinality(kept) - 1
    BY <1>1, <2>1, FS_RemoveElement
  <2>7. QED
    BY <1>0, <1>1, <2>3, <2>4, <2>5, <2>6 DEF kept
<1>4. QED
  BY <1>2, <1>3 DEF kept

----------------------------------------------------------------------------
(* What a step leaves in the slots *)

(* Reconciling changes of a panel whether it waits, and what comes with it. *)
LEMMA UpdatedFields ==
    ASSUME TypeOK, NEW K \in SUBSET Keys, NEW u \in RequestsWith(K), u.id \in DOMAIN panels,
           NEW evicted, NEW queued, Updated(u, evicted, queued)
    PROVE  /\ u.id \in DOMAIN panels'
           /\ panels'[u.id].slot = Supplied(u, "slot", panels[u.id].slot, u.slot)
           /\ panels'[u.id].urgency = Urgency(u)
           /\ ~ queued => ~ panels'[u.id].queued
           /\ \A i \in DOMAIN panels' \ {u.id} :
                 panels'[i].slot = panels[i].slot /\ panels'[i].urgency = panels[i].urgency
<1> DEFINE T == Unreconciled(u, evicted, queued)
           q == Merged(panels[u.id], u, queued, now)
<1>1. /\ queued \in BOOLEAN /\ evicted \subseteq DOMAIN panels \ {u.id}
      /\ panels' = Reconcile(T, now) /\ nextId \in Nat
  BY DEF Updated, TypeOK
<1>2. /\ IsTable(T, nextId)
      /\ q.slot = Supplied(u, "slot", panels[u.id].slot, u.slot)
      /\ q.urgency = Urgency(u)
      /\ q.queued = queued
  BY <1>1, UnreconciledType, Zenon
<1>3. /\ DOMAIN T = DOMAIN panels \ evicted
      /\ \A i \in DOMAIN panels \ (evicted \cup {u.id}) : T[i] = panels[i]
      /\ T[u.id] = q
  <2>1. u.id \notin evicted
    BY <1>1
  <2> HIDE DEF q
  <2>2. MergedInto(u, queued) = [panels EXCEPT ![u.id] = q]
    BY DEF MergedInto, q
  <2>3. QED
    BY <2>1, <2>2 DEF Unreconciled, Without
<1> HIDE DEF T, q
<1>4. /\ DOMAIN panels' = DOMAIN T
      /\ \A i \in DOMAIN T : /\ panels'[i].slot = T[i].slot
                             /\ panels'[i].urgency = T[i].urgency
                             /\ panels'[i].queued = (T[i].queued /\ i \notin Promoted(T))
  BY <1>1, <1>2, ReconcileFields
<1>5. u.id \in DOMAIN T
  BY <1>1, <1>3
<1>6. ~ queued => ~ panels'[u.id].queued
  BY <1>2, <1>3, <1>4, <1>5
<1>7. QED
  BY <1>2, <1>3, <1>4, <1>5, <1>6

(* A new panel is what was asked for, and the others stay as they are. *)
LEMMA CreatedFields ==
    ASSUME TypeOK, NEW u, NEW evicted, NEW queued, Created(u, evicted, queued)
    PROVE  /\ nextId \notin DOMAIN panels /\ nextId' # nextId
           /\ DOMAIN panels' = (DOMAIN panels \ evicted) \cup {nextId}
           /\ panels'[nextId].slot = u.slot
           /\ panels'[nextId].urgency = u.urgency
           /\ panels'[nextId].queued = queued
           /\ \A i \in DOMAIN panels \ evicted : panels'[i] = panels[i]
<1>1. /\ nextId \in Nat \ {0} /\ nextId \notin DOMAIN panels
      /\ panels' = Insert(Without(panels, evicted), nextId, NewPanel(u, queued, now))
      /\ nextId' = nextId + 1
  BY TypeOKIsTable DEF Created, IsTable
<1>2. /\ DOMAIN Without(panels, evicted) = DOMAIN panels \ evicted
      /\ \A i \in DOMAIN panels \ evicted : Without(panels, evicted)[i] = panels[i]
  BY DEF Without
<1>3. /\ DOMAIN panels' = (DOMAIN panels \ evicted) \cup {nextId}
      /\ panels'[nextId] = NewPanel(u, queued, now)
      /\ \A i \in DOMAIN panels \ evicted : panels'[i] = panels[i]
  BY <1>1, <1>2 DEF Insert
<1>4. QED
  BY <1>1, <1>3 DEF NewPanel

(* No panel loses its place to a lower urgency: what displaces another     *)
(* from a singleton slot is at least as urgent, and what is pushed off a   *)
(* stack was older than every panel that stays.                            *)
THEOREM NoneOutrankedByLess == Spec => NoInversion
<1> DEFINE Just(i) == LET p == panels[i]
                      IN  /\ p.slot \in Singletons =>
                                \E j \in Active(panels', p.slot) : panels'[j].urgency >= p.urgency
                          /\ p.slot \in Stacks =>
                                \A j \in Members(panels, p.slot) \ Removed : OlderThan(panels, i, j)
<1>1. ASSUME TypeOK, NEW S, NEW r, NEW c, NEW j,
             Return(c, j, {[id |-> k, reason |-> r] : k \in S}), NEW i \in RemovedAs("preempted")
      PROVE  r = "preempted" /\ i \in S /\ i \in Removed
  BY <1>1 DEF Return, RemovedAs
<1>2. IInv /\ [Next]_vars => [\A i \in RemovedAs("preempted") : Just(i)]_vars
  <2> SUFFICES ASSUME IInv, Next, NEW i \in RemovedAs("preempted")
               PROVE  Just(i)
    OBVIOUS
  <2>0. /\ TypeOK /\ IsTable(panels, nextId) /\ nextId \in Nat
        /\ Singletons \cap Stacks = {} /\ i \in DOMAIN panels
    BY TypeOKIsTable, SceneAssumption DEF IInv, RemovedAs, Removed
  <2>1. CASE NoEffect \/ Tick
    BY <2>1 DEF NoEffect, Tick, RemovedAs, Removed
  <2>2. ASSUME NEW K \in SUBSET Keys, NEW u \in RequestsWith(K), NEW evicted, NEW queued,
               u.id \in DOMAIN panels, Updated(u, evicted, queued)
        PROVE  Just(i)
    <3>1. i \in evicted
      BY <1>1, <2>0, <2>2 DEF Updated, Preempted
    <3>2. Moves(u) /\ Contends(u.slot, u.id, Urgency(u), evicted, queued)
      BY <2>2, <3>1 DEF Updated
    <3>3. /\ ~ queued /\ i \in Active(panels, u.slot) /\ Urgency(u) >= panels[i].urgency
      BY <3>1, <3>2 DEF Contends
    <3>4. panels[i].slot = u.slot /\ u.slot \in Singletons /\ "slot" \in u.set
      BY <3>2, <3>3 DEF Active, Members, Moves
    <3>5. u.id \in Active(panels', u.slot) /\ panels'[u.id].urgency >= panels[i].urgency
      <4>1. /\ u.id \in DOMAIN panels' /\ panels'[u.id].slot = u.slot
            /\ panels'[u.id].urgency = Urgency(u) /\ ~ panels'[u.id].queued
        BY <2>0, <2>2, <3>3, <3>4, UpdatedFields DEF Supplied
      <4>2. QED
        BY <3>3, <4>1 DEF Active, Members
    <3>6. QED
      BY <2>0, <3>4, <3>5
  <2>3. ASSUME NEW u, NEW evicted, NEW queued, Created(u, evicted, queued)
        PROVE  Just(i)
    <3>1. i \in evicted
      BY <1>1, <2>0, <2>3 DEF Created, Preempted
    <3>2. /\ DOMAIN panels' = (DOMAIN panels \ evicted) \cup {nextId} /\ nextId \notin DOMAIN panels
          /\ panels'[nextId].slot = u.slot
          /\ panels'[nextId].urgency = u.urgency
          /\ panels'[nextId].queued = queued
      BY <2>0, <2>3, CreatedFields
    <3>3. CASE u.slot \in Singletons
      <4>1. Contends(u.slot, 0, u.urgency, evicted, queued)
        BY <2>3, <3>3 DEF Created
      <4>2. ~ queued /\ i \in Active(panels, u.slot) /\ u.urgency >= panels[i].urgency
        BY <3>1, <4>1 DEF Contends
      <4>3. nextId \in Active(panels', u.slot) /\ panels[i].slot = u.slot
        BY <3>2, <4>2 DEF Active, Members
      <4>4. QED
        BY <2>0, <3>2, <3>3, <4>2, <4>3
    <3>4. CASE u.slot \notin Singletons
      <4>1. evicted = Overflow(panels, u.slot)
        BY <2>3, <3>4 DEF Created
      <4>2. u.slot \in Stacks /\ panels[i].slot = u.slot
        BY <3>1, <4>1 DEF Overflow, Members
      <4>3. ASSUME NEW j \in Members(panels, u.slot) \ Removed PROVE OlderThan(panels, i, j)
        <5>1. j \in DOMAIN panels' /\ j \in DOMAIN panels
          BY DEF Removed, Members
        <5>2. j \notin evicted
          BY <3>2, <5>1
        <5>3. QED
          BY <2>0, <3>1, <4>1, <4>2, <5>2, OverflowIsOldest
      <4>4. QED
        BY <2>0, <4>2, <4>3
    <3>5. QED
      BY <3>3, <3>4
  <2>4. CASE \E j \in DOMAIN panels : Dismiss(j)
    BY <2>4 DEF Dismiss, Return, RemovedAs
  <2>5. ASSUME NEW S, NEW r, r # "preempted", Drop(S, r) PROVE Just(i)
    <3>1. reply'.dismissed = {[id |-> k, reason |-> r] : k \in S}
      BY <2>5 DEF Drop, Return
    <3>2. r = "preempted"
      BY <3>1 DEF RemovedAs
    <3>3. QED
      BY <2>5, <3>2
  <2>6. CASE (\E S \in SUBSET DOMAIN panels : Drop(S, "client-gone")) \/ ReapExpired
    BY <2>5, <2>6 DEF ReapExpired
  <2>7. CASE ForceRedrawAll
    BY <2>7 DEF ForceRedrawAll, Return, RemovedAs
  <2>8. QED
    BY <2>1, <2>2, <2>3, <2>4, <2>6, <2>7, Kinds
<1>3. QED
  BY <1>2, InvariantHolds, PTL DEF Spec, NoInversion

(* However many panels were moved onto a stack, the next create into it    *)
(* brings it back within its limit.                                        *)
THEOREM CreatesTrim == Spec => CreateTrimsStack
<1> DEFINE Trimmed == LET s == panels'[nextId].slot
                      IN  s \in Stacks => Cardinality(Members(panels', s)) <= MaxStack[s]
<1>1. IInv /\ [Next]_vars => [nextId' # nextId => Trimmed]_<<panels, nextId>>
  <2> SUFFICES ASSUME IInv, Next, nextId' # nextId
               PROVE  Trimmed
    BY DEF vars
  <2>0. /\ TypeOK /\ IsTable(panels, nextId) /\ nextId \in Nat
        /\ Singletons \cap Stacks = {}
    BY TypeOKIsTable, SceneAssumption DEF IInv
  <2>1. PICK u, evicted, queued : Created(u, evicted, queued)
    BY Kinds DEF NoEffect, Updated, Dismiss, Drop, ReapExpired, ForceRedrawAll, Tick
  <2>2. SUFFICES ASSUME u.slot \in Stacks
                 PROVE  Cardinality(Members(panels', u.slot)) <= MaxStack[u.slot]
    BY <2>0, <2>1, CreatedFields
  <2> DEFINE kept == Members(panels, u.slot) \ Overflow(panels, u.slot)
  <2>3. evicted = Overflow(panels, u.slot)
    BY <2>0, <2>1, <2>2 DEF Created
  <2>4. Members(panels', u.slot) = kept \cup {nextId} /\ nextId \notin kept
    BY <2>0, <2>1, <2>3, CreatedFields DEF Members
  <2>5. Cardinality(kept) <= MaxStack[u.slot] - 1
    BY <2>0, <2>2, KeptFits
  <2>6. kept \in SUBSET Members(panels, u.slot)
    OBVIOUS
  <2> HIDE DEF kept
  <2>7. IsFiniteSet(kept) /\ Cardinality(kept) \in Nat
    BY <2>0, <2>6, MembersFinite
  <2>8. Cardinality(kept \cup {nextId}) = Cardinality(kept) + 1
    BY <2>4, <2>7, FS_AddElement
  <2>9. MaxStack[u.slot] \in Nat
    BY <2>2, SceneAssumption DEF Slots
  <2>10. QED
    BY <2>4, <2>5, <2>7, <2>8, <2>9
<1>2. QED
  BY <1>1, InvariantHolds, PTL DEF Spec, CreateTrimsStack

----------------------------------------------------------------------------
(* What a step leaves of a panel's raster and of its clock *)

(* Reconciling restarts the clock of the promoted panels, renews their     *)
(* raster, and leaves the others as they are.                              *)
LEMMA ReconcileClock ==
    ASSUME NEW P, NEW n \in Nat, IsTable(P, n), NEW t, NEW i \in DOMAIN P
    PROVE  /\ i \notin Promoted(P) => Reconcile(P, t)[i] = P[i]
           /\ i \in Promoted(P) => /\ P[i].queued
                                   /\ P[i].slot \in Singletons /\ Active(P, P[i].slot) = {}
                                   /\ Reconcile(P, t)[i].content = P[i].content
                                   /\ Reconcile(P, t)[i].shownAt = t
                                   /\ Reconcile(P, t)[i].epoch = P[i].epoch + 1
<1>1. P[i] \in Panel
  BY DEF IsTable
<1>2. /\ Unqueue(P[i], t).content = P[i].content
      /\ Unqueue(P[i], t).shownAt = t
      /\ Unqueue(P[i], t).epoch = P[i].epoch + 1
  BY <1>1 DEF Unqueue, Panel
<1>3. Reconcile(P, t)[i] = IF i \in Promoted(P) THEN Unqueue(P[i], t) ELSE P[i]
  BY DEF Reconcile
<1>4. ASSUME i \in Promoted(P)
      PROVE  /\ P[i].queued
             /\ P[i].slot \in Singletons /\ Active(P, P[i].slot) = {}
  <2>1. PICK s \in Singletons : Active(P, s) = {} /\ i \in Best(P, s)
    BY <1>4 DEF Promoted
  <2>2. i \in Pending(P, s)
    BY <2>1 DEF Best, Least, Candidates
  <2>3. QED
    BY <2>1, <2>2 DEF Pending, Members
<1>5. QED
  BY <1>2, <1>3, <1>4

(* What the contract says of one panel *)
Contract(i) ==
    /\ Refreshed(i) => panels'[i].epoch > panels[i].epoch /\ panels'[i].shownAt = now
    /\ ~ Refreshed(i) => panels'[i].shownAt = panels[i].shownAt
    /\ ~ Refreshed(i) /\ panels'[i].epoch # panels[i].epoch => reply'.call = "redraw"

(* A panel that a step leaves as it is, and the reconciling after it. *)
LEMMA UntouchedKeepsContract ==
    ASSUME TypeOK, NEW T, IsTable(T, nextId), panels' = Reconcile(T, now),
           NEW i \in DOMAIN T \cap DOMAIN panels, T[i] = panels[i]
    PROVE  Contract(i)
<1>1. nextId \in Nat /\ panels[i].epoch \in Nat /\ panels[i].queued \in BOOLEAN
  BY DEF TypeOK, Panel
<1>2. /\ panels'[i].slot = panels[i].slot
      /\ panels'[i].queued = (panels[i].queued /\ i \notin Promoted(T))
  BY <1>1, ReconcileFields
<1>3. CASE i \in Promoted(T)
  <2>1. /\ panels[i].queued /\ panels'[i].shownAt = now
        /\ panels'[i].epoch = panels[i].epoch + 1
    BY <1>1, <1>3, ReconcileClock
  <2>2. Refreshed(i)
    BY <1>2, <1>3, <2>1 DEF Refreshed
  <2>3. QED
    BY <1>1, <2>1, <2>2 DEF Contract
<1>4. CASE i \notin Promoted(T)
  <2>1. panels'[i] = panels[i]
    BY <1>1, <1>4, ReconcileClock
  <2>2. QED
    BY <2>1 DEF Contract, Refreshed
<1>5. QED
  BY <1>3, <1>4

(* The updated panel itself: only one that stays in its slot is promoted. *)
LEMMA UpdatedKeepsContract ==
    ASSUME TypeOK, NEW K \in SUBSET Keys, NEW u \in RequestsWith(K), u.id \in DOMAIN panels,
           NEW evicted, NEW queued, Updated(u, evicted, queued)
    PROVE  Contract(u.id)
<1> DEFINE i == u.id
           p == panels[i]
           T == Unreconciled(u, evicted, queued)
           q == Merged(p, u, queued, now)
           slot == Supplied(u, "slot", p.slot, u.slot)
<1>1. /\ queued \in BOOLEAN /\ i \notin evicted
      /\ panels' = Reconcile(T, now) /\ nextId \in Nat
      /\ p.epoch \in Nat /\ p.queued \in BOOLEAN
  BY DEF Updated, TypeOK, Panel
<1>2. IsTable(T, nextId) /\ q.slot = slot /\ q.queued = queued
  BY <1>1, UnreconciledType, Zenon
<1>3. /\ q.content # p.content => q.shownAt = now /\ q.epoch = p.epoch + 1
      /\ q.content = p.content => q.shownAt = p.shownAt /\ q.epoch = p.epoch
  BY DEF Merged
<1>4. /\ DOMAIN T = DOMAIN panels \ evicted
      /\ \A j \in DOMAIN panels \ (evicted \cup {i}) : T[j] = panels[j]
      /\ T[i] = q
  <2> HIDE DEF q
  <2>1. MergedInto(u, queued) = [panels EXCEPT ![i] = q]
    BY DEF MergedInto, q
  <2>2. QED
    BY <1>1, <2>1 DEF Unreconciled, Without
<1> HIDE DEF T, q
<1>5. /\ i \in DOMAIN T
      /\ panels'[i].slot = slot
      /\ panels'[i].queued = (queued /\ i \notin Promoted(T))
  BY <1>1, <1>2, <1>4, ReconcileFields
<1>6. /\ i \notin Promoted(T) => panels'[i] = q
      /\ i \in Promoted(T) => /\ queued /\ slot \in Singletons /\ Active(T, slot) = {}
                              /\ panels'[i].content = q.content
                              /\ panels'[i].shownAt = now
                              /\ panels'[i].epoch = q.epoch + 1
  BY <1>1, <1>2, <1>4, <1>5, ReconcileClock
<1>7. ASSUME Moves(u) PROVE slot # p.slot /\ i \notin Promoted(T)
  <2>1. slot = u.slot /\ slot # p.slot /\ slot \in Singletons
    BY <1>7 DEF Moves, Supplied
  <2>2. ASSUME queued PROVE Active(T, slot) # {}
    <3>1. evicted = {} /\ \E o \in Active(panels, u.slot) \ {i} : TRUE
      BY <1>7, <2>2 DEF Updated, Contends
    <3>2. PICK o \in Active(panels, u.slot) : o # i
      BY <3>1
    <3>3. o \in Active(T, slot)
      BY <1>4, <2>1, <3>1, <3>2 DEF Active, Members
    <3>4. QED
      BY <3>3
  <2>3. QED
    BY <1>6, <2>1, <2>2
<1>8. ASSUME ~ Moves(u) PROVE queued = p.queued /\ (slot \in Singletons => slot = p.slot)
  BY <1>8 DEF Updated, Moves, Supplied
<1> HIDE DEF slot
<1>9. CASE q.content # p.content
  <2>1. panels'[i].content = q.content /\ panels'[i].shownAt = now /\ panels'[i].epoch > p.epoch
    BY <1>1, <1>3, <1>6, <1>9
  <2>2. QED
    BY <1>9, <2>1 DEF Contract, Refreshed
<1>10. CASE q.content = p.content /\ i \in Promoted(T)
  <2>1. p.queued /\ slot = p.slot /\ ~ panels'[i].queued
    BY <1>5, <1>6, <1>7, <1>8, <1>10
  <2>2. panels'[i].shownAt = now /\ panels'[i].epoch > p.epoch
    BY <1>1, <1>3, <1>6, <1>10
  <2>3. QED
    BY <1>5, <2>1, <2>2 DEF Contract, Refreshed
<1>11. CASE q.content = p.content /\ i \notin Promoted(T)
  <2>1. /\ panels'[i].content = p.content /\ panels'[i].shownAt = p.shownAt
        /\ panels'[i].epoch = p.epoch
    BY <1>3, <1>6, <1>11
  <2>2. p.queued /\ ~ panels'[i].queued => panels'[i].slot # p.slot
    BY <1>1, <1>5, <1>7, <1>8, <1>11
  <2>3. QED
    BY <2>1, <2>2 DEF Contract, Refreshed
<1>12. QED
  BY <1>9, <1>10, <1>11

(* The upload-on-change contract: a panel is rastered again exactly when   *)
(* its content changed, it was promoted from the queue of its slot, or the *)
(* palette changed, and its dwell restarts exactly in the first two cases. *)
THEOREM UploadsOnChange == Spec => UploadOnChange
<1>1. IInv /\ [Next]_vars => [\A i \in Kept : Contract(i)]_vars
  <2> SUFFICES ASSUME IInv, Next, NEW i \in Kept
               PROVE  Contract(i)
    OBVIOUS
  <2>0. /\ TypeOK /\ IsTable(panels, nextId) /\ nextId \in Nat /\ now \in Nat
        /\ i \in DOMAIN panels /\ i \in DOMAIN panels'
    BY TypeOKIsTable DEF IInv, Kept, TypeOK
  <2>1. CASE NoEffect \/ Tick
    BY <2>1 DEF NoEffect, Tick, Contract, Refreshed
  <2>2. ASSUME NEW K \in SUBSET Keys, NEW u \in RequestsWith(K), u.id \in DOMAIN panels,
               NEW evicted, NEW queued, Updated(u, evicted, queued)
        PROVE  Contract(i)
    <3> DEFINE T == Unreconciled(u, evicted, queued)
               q == Merged(panels[u.id], u, queued, now)
    <3>1. queued \in BOOLEAN /\ panels' = Reconcile(T, now)
      BY <2>2 DEF Updated
    <3>2. IsTable(T, nextId)
      BY <2>0, <2>2, <3>1, UnreconciledType, Zenon
    <3>3. i \in DOMAIN T /\ (i # u.id => T[i] = panels[i])
      <4>1. DOMAIN panels' = DOMAIN panels \ evicted
        BY <2>0, <2>2, DomainAfter
      <4> HIDE DEF q
      <4>2. MergedInto(u, queued) = [panels EXCEPT ![u.id] = q]
        BY DEF MergedInto, q
      <4>3. QED
        BY <2>0, <4>1, <4>2 DEF Unreconciled, Without
    <3> HIDE DEF T
    <3>4. CASE i = u.id
      BY <2>0, <2>2, <3>4, UpdatedKeepsContract
    <3>5. CASE i # u.id
      BY <2>0, <3>1, <3>2, <3>3, <3>5, UntouchedKeepsContract
    <3>6. QED
      BY <3>4, <3>5
  <2>3. ASSUME NEW u, NEW evicted, NEW queued, Created(u, evicted, queued)
        PROVE  Contract(i)
    <3>1. panels'[i] = panels[i]
      BY <2>0, <2>3, CreatedFields
    <3>2. QED
      BY <3>1 DEF Contract, Refreshed
  <2>4. ASSUME NEW S, panels' = Reconcile(Without(panels, S), now)
        PROVE  Contract(i)
    <3>1. IsTable(Without(panels, S), nextId)
      BY <2>0, WithoutFields
    <3>2. i \in DOMAIN Without(panels, S) /\ Without(panels, S)[i] = panels[i]
      BY <2>0, <2>4 DEF Reconcile, Without
    <3>3. QED
      BY <2>0, <2>4, <3>1, <3>2, UntouchedKeepsContract
  <2>5. CASE \/ \E j \in DOMAIN panels : Dismiss(j)
             \/ \E S \in SUBSET DOMAIN panels : Drop(S, "client-gone")
             \/ ReapExpired
    BY <2>4, <2>5 DEF Dismiss, Drop, ReapExpired
  <2>6. CASE ForceRedrawAll
    <3>1. panels[i] \in Panel /\ panels'[i] = [panels[i] EXCEPT !.epoch = @ + 1]
      BY <2>0, <2>6 DEF ForceRedrawAll, IsTable
    <3>2. /\ panels'[i].content = panels[i].content /\ panels'[i].queued = panels[i].queued
          /\ panels'[i].shownAt = panels[i].shownAt
      BY <3>1 DEF Panel
    <3>3. reply'.call = "redraw"
      BY <2>6 DEF ForceRedrawAll, Return
    <3>4. QED
      BY <3>2, <3>3 DEF Contract, Refreshed
  <2>7. QED
    BY <2>1, <2>2, <2>3, <2>5, <2>6, Kinds
<1>2. QED
  BY <1>1, InvariantHolds, PTL DEF Spec, UploadOnChange, Contract

----------------------------------------------------------------------------
(* The slots are the locks of SlotArbiter *)

(* The panels that wait for slot s once it is reconciled *)
LEMMA ReconcilePending ==
    ASSUME NEW P, NEW n \in Nat, IsTable(P, n), NEW t, NEW s \in Singletons
    PROVE  Pending(Reconcile(P, t), s) =
              IF Active(P, s) = {} THEN Pending(P, s) \ Best(P, s) ELSE Pending(P, s)
<1>1. Members(Reconcile(P, t), s) = Members(P, s)
  BY ReconcileFields DEF Members
<1>2. \A i \in Members(P, s) :
         Reconcile(P, t)[i].queued = (P[i].queued /\ i \notin Promoted(P))
  BY ReconcileFields DEF Members
<1>3. \A i \in Members(P, s) : i \in Promoted(P) <=> Active(P, s) = {} /\ i \in Best(P, s)
  BY PromotedIn
<1>4. QED
  BY <1>1, <1>2, <1>3 DEF Pending

(* The steps of the arbiter, in terms of the panels of a slot *)
LEMMA Stays ==
    ASSUME NEW s \in Singletons, Active(panels', s) = Active(panels, s),
           Pending(panels', s) \subseteq Pending(panels, s)
    PROVE  Arbiter!Step(s)
BY DEF Arbiter!Step, Arbiter!Stay

(* A panel that is outranked queues up behind the holder.                  *)
LEMMA Waits ==
    ASSUME NEW s \in Singletons, s \in QueueSlots, NEW p \in DOMAIN panels', NEW h \in Active(panels, s),
           p \notin Pending(panels, s), panels'[p].urgency < panels[h].urgency,
           Active(panels', s) = Active(panels, s),
           Pending(panels', s) = Pending(panels, s) \cup {p}
    PROVE  Arbiter!Step(s)
<1>1. h \in DOMAIN panels
  BY DEF Active, Members
<1>2. QED
  BY <1>1 DEF Arbiter!Step, Arbiter!Wait

(* A panel that is not outranked takes the slot.                           *)
LEMMA Takes ==
    ASSUME NEW s \in Singletons, NEW p \in DOMAIN panels', p \notin Members(panels, s),
           Active(panels', s) = {p}, Pending(panels', s) = Pending(panels, s),
           \A h \in Active(panels, s) :
              panels'[p].urgency >= panels[h].urgency /\ h \notin DOMAIN panels'
    PROVE  Arbiter!Step(s)
<1>1. /\ p \notin Active(panels, s) /\ p \notin Pending(panels, s)
      /\ \A h \in Active(panels, s) : h \in DOMAIN panels
  BY DEF Active, Pending, Members
<1>2. QED
  BY <1>1 DEF Arbiter!Step, Arbiter!Take

(* The best that waits succeeds the holder.                                *)
LEMMA Succeeds ==
    ASSUME NEW s \in Singletons, NEW h \in Active(panels, s), NEW p \in Pending(panels, s),
           p \in DOMAIN panels', Active(panels', s) = {p},
           Pending(panels', s) \subseteq Pending(panels, s) \ {p},
           \A q \in Pending(panels', s) :
              \/ panels'[p].urgency > panels'[q].urgency
              \/ panels'[p].urgency = panels'[q].urgency /\ p < q
    PROVE  Arbiter!Step(s)
<1>1. \A q \in Pending(panels', s) : q \in DOMAIN panels'
  BY DEF Pending, Members
<1>2. QED
  BY <1>1 DEF Arbiter!Step, Arbiter!Succeed, Arbiter!Before

(* The holder goes, and nobody waits.                                      *)
LEMMA Vacates ==
    ASSUME NEW s \in Singletons, Active(panels, s) # {},
           Active(panels', s) = {}, Pending(panels', s) = {}
    PROVE  Arbiter!Step(s)
BY DEF Arbiter!Step, Arbiter!Vacate

(* Once the panels S have left a slot, it stays with its holder, passes to *)
(* the best that waits, or stands empty.                                   *)
LEMMA Leaves ==
    ASSUME TypeOK, OneActive(panels), NoneIdle(panels), NoLowUrgency,
           NEW T, IsTable(T, nextId), panels' = Reconcile(T, now),
           NEW s \in Singletons, NEW S,
           Active(T, s) = Active(panels, s) \ S, Pending(T, s) = Pending(panels, s) \ S
    PROVE  Arbiter!Step(s)
<1>1. nextId \in Nat
  BY DEF TypeOK
<1>2. CASE Active(T, s) # {}
  <2>1. Active(panels', s) = Active(T, s) /\ Pending(panels', s) = Pending(T, s)
    BY <1>1, <1>2, ReconcileActive, ReconcilePending
  <2>2. Active(T, s) = Active(panels, s)
    BY <1>2 DEF OneActive
  <2>3. QED
    BY <2>1, <2>2, Stays
<1>3. CASE Active(T, s) = {}
  <2>1. Active(panels', s) = Best(T, s) /\ Pending(panels', s) = Pending(T, s) \ Best(T, s)
    BY <1>1, <1>3, ReconcileActive, ReconcilePending
  <2>2. Best(T, s) \subseteq Pending(T, s)
    BY DEF Best, Least, Candidates
  <2>3. CASE Active(panels, s) = {}
    <3>1. Pending(T, s) = {}
      BY <2>3 DEF NoneIdle
    <3>2. Active(panels', s) = Active(panels, s) /\ Pending(panels', s) = {}
      BY <2>1, <2>2, <2>3, <3>1
    <3>3. QED
      BY <3>2, Stays
  <2>4. CASE Active(panels, s) # {} /\ Pending(T, s) = {}
    BY <2>1, <2>2, <2>4, Vacates
  <2>5. CASE Active(panels, s) # {} /\ Pending(T, s) # {}
    <3>1. \A i \in Pending(T, s) : i \in DOMAIN T /\ i \in Nat /\ T[i].urgency \in Urgencies
      BY DEF Pending, Members, IsTable, Panel
    <3>2. Candidates(T, s) = Pending(T, s)
      BY <3>1 DEF Candidates, NoLowUrgency
    <3>3. PICK p \in Best(T, s) : TRUE
      BY <1>1, <2>5, <3>2, BestExists
    <3>4. Best(T, s) = {p}
      <4>1. \A i, j \in Best(T, s) : i = j
        <5>1. Candidates(T, s) \in SUBSET Nat
          BY <3>1, <3>2
        <5>2. QED
          BY <5>1, LeastUnique DEF Best
      <4>2. QED
        BY <3>3, <4>1
    <3>5. \A i \in Pending(T, s) : i \in DOMAIN panels' /\ panels'[i].urgency = T[i].urgency
      BY <1>1, <3>1, ReconcileFields
    <3>6. \A i \in Pending(T, s) : T[i].urgency \in Int
      <4>1. \A x \in Urgencies : x \in Int
        BY SceneAssumption DEF Ints
      <4>2. QED
        BY <3>1, <4>1
    <3>7. ASSUME NEW q \in Pending(T, s), q # p
          PROVE  T[p].urgency > T[q].urgency \/ (T[p].urgency = T[q].urgency /\ p < q)
      <4>1. /\ \A j \in Pending(T, s) : T[j].urgency <= T[p].urgency
            /\ \A i \in {k \in Pending(T, s) : \A j \in Pending(T, s) : T[j].urgency <= T[k].urgency} :
                  p <= i
        BY <3>2, <3>3 DEF Best, Least
      <4>2. p \in Pending(T, s)
        BY <2>2, <3>3
      <4>3. CASE T[q].urgency = T[p].urgency
        <5>1. p <= q
          BY <4>1, <4>3
        <5>2. QED
          BY <3>1, <3>7, <4>2, <4>3, <5>1
      <4>4. CASE T[q].urgency # T[p].urgency
        BY <3>6, <4>1, <4>2, <4>4
      <4>5. QED
        BY <4>3, <4>4
    <3>8. p \in Pending(T, s) /\ p \in Pending(panels, s)
      BY <2>2, <3>3
    <3>9. PICK h \in Active(panels, s) : TRUE
      BY <2>5
    <3>10. QED
      BY <2>1, <3>4, <3>5, <3>7, <3>8, <3>9, Succeeds
  <2>6. QED
    BY <2>3, <2>4, <2>5
<1>4. QED
  BY <1>2, <1>3

(* An update leaves its slot, and waits for the one it moves to or takes it. *)
LEMMA UpdateImplements ==
    ASSUME TypeOK, OneActive(panels), NoneIdle(panels), NoLowUrgency,
           NEW K \in SUBSET Keys, NEW u \in RequestsWith(K), u.id \in DOMAIN panels,
           NEW evicted, NEW queued, Updated(u, evicted, queued), NEW s \in Singletons
    PROVE  Arbiter!Step(s)
<1> DEFINE i == u.id
           p == panels[i]
           T == Unreconciled(u, evicted, queued)
           q == Merged(p, u, queued, now)
           slot == Supplied(u, "slot", p.slot, u.slot)
<1>1. /\ queued \in BOOLEAN /\ i \notin evicted /\ evicted \subseteq DOMAIN panels
      /\ panels' = Reconcile(T, now) /\ nextId \in Nat /\ p.queued \in BOOLEAN
  BY DEF Updated, TypeOK, Panel
<1>2. IsTable(T, nextId) /\ q.slot = slot /\ q.queued = queued /\ q.urgency = Urgency(u)
  BY <1>1, UnreconciledType, Zenon
<1>3. /\ DOMAIN T = DOMAIN panels \ evicted
      /\ \A j \in DOMAIN panels \ (evicted \cup {i}) : T[j] = panels[j]
      /\ T[i] = q
  <2> HIDE DEF q
  <2>1. MergedInto(u, queued) = [panels EXCEPT ![i] = q]
    BY DEF MergedInto, q
  <2>2. QED
    BY <1>1, <2>1 DEF Unreconciled, Without
<1> HIDE DEF T, q
<1>4. /\ DOMAIN panels' = DOMAIN T /\ i \in DOMAIN panels'
      /\ panels'[i].urgency = Urgency(u)
  BY <1>1, <1>2, <1>3, ReconcileFields
<1>5. CASE Moves(u)
  <2>1. slot = u.slot /\ slot # p.slot /\ slot \in Singletons
    BY <1>5 DEF Moves, Supplied
  <2>2. Contends(u.slot, i, Urgency(u), evicted, queued)
    BY <1>5 DEF Updated
  <2>3. i \notin Members(panels, u.slot)
    BY <2>1 DEF Members
  <2>4. Active(panels, u.slot) \ {i} = Active(panels, u.slot)
    BY <2>3 DEF Active
  <2>5. CASE s # slot
    <3>1. \A j \in evicted : j \notin Members(panels, s)
      BY <2>1, <2>2, <2>5 DEF Contends, Active, Members
    <3>2. /\ Active(T, s) = Active(panels, s) \ {i}
          /\ Pending(T, s) = Pending(panels, s) \ {i}
      BY <1>1, <1>2, <1>3, <2>5, <3>1 DEF Active, Pending, Members
    <3>3. QED
      BY <1>1, <1>2, <3>2, Leaves
  <2>6. CASE s = slot /\ queued
    <3>1. /\ evicted = {} /\ s \in QueueSlots
          /\ \E o \in Active(panels, s) : Urgency(u) < panels[o].urgency
      BY <2>1, <2>2, <2>4, <2>6 DEF Contends
    <3>2. /\ Active(T, s) = Active(panels, s)
          /\ Pending(T, s) = Pending(panels, s) \cup {i}
      <4>1. DOMAIN T = DOMAIN panels /\ \A j \in DOMAIN panels \ {i} : T[j] = panels[j]
        BY <1>3, <3>1
      <4>2. T[i].slot = s /\ T[i].queued /\ i \in DOMAIN T
        BY <1>2, <1>3, <2>6, <4>1
      <4>3. i \notin Members(panels, s)
        BY <2>1, <2>3, <2>6
      <4>4. QED
        BY <4>1, <4>2, <4>3 DEF Active, Pending, Members
    <3>3. PICK o \in Active(panels, s) : Urgency(u) < panels[o].urgency
      BY <3>1
    <3>4. Active(panels', s) = Active(T, s) /\ Pending(panels', s) = Pending(T, s)
      BY <1>1, <1>2, <3>2, <3>3, ReconcileActive, ReconcilePending
    <3>5. i \notin Pending(panels, s)
      BY <2>1, <2>3, <2>6 DEF Pending
    <3>6. QED
      BY <1>4, <3>1, <3>2, <3>3, <3>4, <3>5, Waits
  <2>7. CASE s = slot /\ ~ queued
    <3>1. /\ evicted = Active(panels, s)
          /\ \A o \in Active(panels, s) : Urgency(u) >= panels[o].urgency
      BY <2>1, <2>2, <2>4, <2>7 DEF Contends
    <3>2. Active(T, s) = {i} /\ Pending(T, s) = Pending(panels, s)
      BY <1>1, <1>2, <1>3, <2>1, <2>3, <2>7, <3>1 DEF Active, Pending, Members
    <3>3. Active(panels', s) = {i} /\ Pending(panels', s) = Pending(panels, s)
      BY <1>1, <1>2, <3>2, ReconcileActive, ReconcilePending
    <3>4. \A h \in Active(panels, s) : h \notin DOMAIN panels'
      BY <1>3, <1>4, <3>1
    <3>5. QED
      BY <1>4, <2>1, <2>3, <2>7, <3>1, <3>3, <3>4, Takes
  <2>8. QED
    BY <1>1, <2>5, <2>6, <2>7
<1>6. CASE ~ Moves(u)
  <2>1. /\ evicted = {} /\ queued = p.queued
        /\ slot \in Singletons => slot = p.slot
    BY <1>6 DEF Updated, Moves, Supplied
  <2>2. CASE slot = p.slot
    <3>1. /\ Active(T, s) = Active(panels, s) \ {}
          /\ Pending(T, s) = Pending(panels, s) \ {}
      BY <1>2, <1>3, <2>1, <2>2 DEF Active, Pending, Members
    <3>2. QED
      BY <1>1, <1>2, <3>1, Leaves
  <2>3. CASE slot # p.slot
    <3>1. /\ Active(T, s) = Active(panels, s) \ {i}
          /\ Pending(T, s) = Pending(panels, s) \ {i}
      BY <1>2, <1>3, <2>1, <2>3 DEF Active, Pending, Members
    <3>2. QED
      BY <1>1, <1>2, <3>1, Leaves
  <2>4. QED
    BY <2>2, <2>3
<1>7. QED
  BY <1>5, <1>6

(* A new panel waits for its slot or takes it, and leaves the others alone. *)
LEMMA CreateImplements ==
    ASSUME TypeOK, OneActive(panels), NEW K \in SUBSET Keys, NEW u \in RequestsWith(K),
           NEW evicted, NEW queued, Created(u, evicted, queued), NEW s \in Singletons
    PROVE  Arbiter!Step(s)
<1>1. /\ IsTable(panels, nextId) /\ nextId \in Nat /\ nextId \notin DOMAIN panels
      /\ queued \in BOOLEAN
  BY TypeOKIsTable DEF Created, IsTable
<1>2. /\ DOMAIN panels' = (DOMAIN panels \ evicted) \cup {nextId}
      /\ panels'[nextId].slot = u.slot
      /\ panels'[nextId].urgency = u.urgency
      /\ panels'[nextId].queued = queued
      /\ \A i \in DOMAIN panels \ evicted : panels'[i] = panels[i]
  BY CreatedFields
<1>3. nextId \notin Members(panels, s) /\ nextId \notin Pending(panels, s)
  BY <1>1 DEF Members, Pending
<1>4. CASE u.slot # s
  <2>1. evicted \subseteq Members(panels, u.slot)
    BY DEF Created, Contends, Active, Overflow
  <2>2. evicted \cap Members(panels, s) = {}
    BY <1>4, <2>1 DEF Members
  <2>3. Active(panels', s) = Active(panels, s) /\ Pending(panels', s) = Pending(panels, s)
    BY <1>1, <1>2, <1>4, <2>2 DEF Active, Pending, Members
  <2>4. QED
    BY <2>3, Stays
<1>5. CASE u.slot = s
  <2>1. Contends(s, 0, u.urgency, evicted, queued)
    BY <1>5 DEF Created
  <2>2. Active(panels, s) \ {0} = Active(panels, s)
    BY <1>1 DEF Active, Members, IsTable
  <2>3. CASE queued
    <3>1. /\ evicted = {} /\ s \in QueueSlots
          /\ \E o \in Active(panels, s) : u.urgency < panels[o].urgency
      BY <2>1, <2>2, <2>3 DEF Contends
    <3>2. PICK o \in Active(panels, s) : u.urgency < panels[o].urgency
      BY <3>1
    <3>3. /\ Active(panels', s) = Active(panels, s)
          /\ Pending(panels', s) = Pending(panels, s) \cup {nextId}
      BY <1>1, <1>2, <1>5, <2>3, <3>1 DEF Active, Pending, Members
    <3>4. QED
      BY <1>2, <1>3, <3>1, <3>2, <3>3, Waits
  <2>4. CASE ~ queued
    <3>1. /\ evicted = Active(panels, s)
          /\ \A o \in Active(panels, s) : u.urgency >= panels[o].urgency
      BY <2>1, <2>2, <2>4 DEF Contends
    <3>2. Active(panels', s) = {nextId} /\ Pending(panels', s) = Pending(panels, s)
      BY <1>1, <1>2, <1>5, <2>4, <3>1 DEF Active, Pending, Members
    <3>3. \A h \in Active(panels, s) : h \notin DOMAIN panels'
      BY <1>1, <1>2, <3>1 DEF Active, Members
    <3>4. QED
      BY <1>2, <1>3, <3>1, <3>2, <3>3, Takes
  <2>5. QED
    BY <2>3, <2>4
<1>6. QED
  BY <1>4, <1>5

(* The singleton slots behave as the arbiter's locks do: one holder each,  *)
(* taken by a newcomer that equals or outranks it, kept from one that does *)
(* not, and passed on to the best that waits for it.                       *)
THEOREM SlotsAreLocks ==
    ASSUME NoLowUrgency
    PROVE  Spec => ImplementsArbiter
<1>1. Init => Arbiter!Init
  <2> SUFFICES ASSUME Init PROVE Arbiter!Init
    OBVIOUS
  <2>1. \A s : Active(panels, s) = {} /\ Pending(panels, s) = {}
    BY DEF Init, Active, Pending, Members
  <2>2. [i \in DOMAIN panels |-> panels[i].urgency] = << >>
    BY DEF Init
  <2>3. QED
    BY <2>1, <2>2 DEF Arbiter!Init
<1>2. IInv /\ NoIdleSlot /\ [Next]_vars => [Arbiter!Next]_(Arbiter!vars)
  <2> SUFFICES ASSUME IInv, NoIdleSlot, Next
               PROVE  \A s \in Singletons : Arbiter!Step(s)
    <3>1. ASSUME \A s \in Singletons : Arbiter!Step(s)
          PROVE  Arbiter!Next
      BY <3>1 DEF Arbiter!Next, Active, Pending, Members
    <3>2. CASE UNCHANGED vars
      BY <3>2 DEF vars, Arbiter!vars, Active, Pending, Members
    <3>3. QED
      BY <3>1, <3>2
  <2> SUFFICES ASSUME NEW s \in Singletons
               PROVE  Arbiter!Step(s)
    OBVIOUS
  <2>0. /\ TypeOK /\ IsTable(panels, nextId) /\ nextId \in Nat
        /\ OneActive(panels) /\ NoneIdle(panels)
    BY TypeOKIsTable DEF IInv, NoIdleSlot, NoneIdle
  <2>1. CASE NoEffect \/ Tick
    <3>1. Active(panels', s) = Active(panels, s) /\ Pending(panels', s) = Pending(panels, s)
      BY <2>1 DEF NoEffect, Tick, Active, Pending, Members
    <3>2. QED
      BY <3>1, Stays
  <2>2. CASE \E K \in SUBSET Keys : \E u \in RequestsWith(K) : \E evicted, queued :
                u.id \in DOMAIN panels /\ Updated(u, evicted, queued)
    BY <2>0, <2>2, UpdateImplements
  <2>3. CASE \E K \in SUBSET Keys : \E u \in RequestsWith(K) : \E evicted, queued :
                Created(u, evicted, queued)
    BY <2>0, <2>3, CreateImplements
  <2>4. ASSUME NEW S, panels' = Reconcile(Without(panels, S), now)
        PROVE  Arbiter!Step(s)
    <3> DEFINE T == Without(panels, S)
    <3>1. /\ IsTable(T, nextId) /\ panels' = Reconcile(T, now)
          /\ Active(T, s) = Active(panels, s) \ S
          /\ Pending(T, s) = Pending(panels, s) \ S
      <4>1. IsTable(T, nextId) /\ panels' = Reconcile(T, now)
        BY <2>0, <2>4, WithoutFields
      <4>2. DOMAIN T = DOMAIN panels \ S /\ \A i \in DOMAIN T : T[i] = panels[i]
        BY DEF Without
      <4> HIDE DEF T
      <4>3. QED
        BY <4>1, <4>2 DEF Active, Pending, Members
    <3> HIDE DEF T
    <3>2. QED
      BY <2>0, <3>1, Leaves
  <2>5. CASE \/ \E j \in DOMAIN panels : Dismiss(j)
             \/ \E S \in SUBSET DOMAIN panels : Drop(S, "client-gone")
             \/ ReapExpired
    BY <2>4, <2>5 DEF Dismiss, Drop, ReapExpired
  <2>6. CASE ForceRedrawAll
    <3>1. DOMAIN panels' = DOMAIN panels
      BY <2>6 DEF ForceRedrawAll
    <3>2. ASSUME NEW i \in DOMAIN panels
          PROVE  panels'[i].slot = panels[i].slot /\ panels'[i].queued = panels[i].queued
      <4>1. panels[i] \in Panel /\ panels'[i] = [panels[i] EXCEPT !.epoch = @ + 1]
        BY <2>0, <2>6 DEF ForceRedrawAll, IsTable
      <4>2. QED
        BY <4>1 DEF Panel
    <3>3. Active(panels', s) = Active(panels, s) /\ Pending(panels', s) = Pending(panels, s)
      BY <3>1, <3>2 DEF Active, Pending, Members
    <3>4. QED
      BY <3>3, Stays
  <2>7. QED
    BY <2>1, <2>2, <2>3, <2>5, <2>6, Kinds
<1>3. QED
  BY <1>1, <1>2, InvariantHolds, SlotsNeverIdle, PTL DEF Spec, ImplementsArbiter, Arbiter!Spec
=============================================================================
