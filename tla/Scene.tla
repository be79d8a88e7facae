------------------------------- MODULE Scene -------------------------------
(***************************************************************************)
(* The panel table of the HUD daemon, CScene (src/src/Scene.cpp): which    *)
(* panels exist, which of them hold a slot, which are held pending, and    *)
(* which are shown.  Every transport (D-Bus, stdin) drives the scene       *)
(* through upsert, dismiss and dropOwner; the daemon's loop adds           *)
(* reapExpired and forceRedrawAll.                                         *)
(*                                                                         *)
(* A call is one action: the daemon is single-threaded and no call yields. *)
(* Pose, size and reference space are left out, no decision reads them;    *)
(* the content of a panel is a value compared only for equality.           *)
(***************************************************************************)
EXTENDS Integers, FiniteSets

CONSTANTS
    Owners,       \* bus names, and "stdin"
    Singletons,   \* slots with one occupant (voice, keys, status, ...)
    Stacks,       \* slots that are bounded stacks (toast)
    QueueSlots,   \* singletons configured on_refuse = queue
    MaxStack,     \* MaxStack[s]: the `max` of slot s
    Free,         \* free placement: no slot, or a name the registry lacks
    Cap,          \* per_client_cap
    IntMax,       \* the largest int
    Urgencies,    \* urgencies a request may carry, ints no transport clamps
    Fades,        \* envelopes a request may carry
    Contents,     \* contents a request may carry
    Default       \* a request that supplies nothing: [hud] config defaults

Slots  == Singletons \cup Stacks
Places == Slots \cup {Free}

Ints == -IntMax - 1 .. IntMax

(* rise, hold and fade in milliseconds, ceil the opacity ceiling in 255ths *)
Fade == [rise : Ints, hold : Ints, fade : Ints, ceil : 0 .. 255]

Panel == [owner   : Owners,
          slot    : Places,
          urgency : Urgencies,
          fade    : Fades,
          content : Contents,
          shownAt : Nat,       \* origin of the envelope's clock
          epoch   : Nat,       \* content revision
          queued  : BOOLEAN]   \* held pending: holds no slot, is not shown

(* The keys of a request that an update merges only when they are supplied *)
Keys == {"slot", "urgency", "fade", "content"}

ASSUME SceneAssumption ==
    /\ Singletons \cap Stacks = {}
    /\ Free \notin Slots
    /\ QueueSlots \subseteq Singletons
    /\ MaxStack \in [Slots -> Nat \ {0}]
    /\ Cap \in Nat
    /\ IntMax \in Nat
    /\ Urgencies \subseteq Ints
    /\ Fades \subseteq Fade
    /\ Default \in [slot : {Free}, urgency : Urgencies,
                    fade : Fades, content : Contents]

VARIABLES
    panels,   \* the table: a function from the ids in use to panels
    nextId,   \* the next id to hand out
    now,      \* the monotonic clock
    reply     \* what the last call returned: an id (0: refused) and the
              \* panels it removed unasked, each with the reason

vars == <<panels, nextId, now, reply>>

Dismissal == [id : Nat, reason : {"preempted", "expired", "client-gone"}]

TypeOK ==
    /\ nextId \in Nat \ {0}
    /\ DOMAIN panels \subseteq 1 .. nextId - 1
    /\ panels \in [DOMAIN panels -> Panel]
    /\ now \in Nat \ {0}
    /\ reply \in [call : {"none", "upsert", "dismiss", "drop", "redraw"},
                  id : Nat, dismissed : SUBSET Dismissal]

----------------------------------------------------------------------------
(* What a call returns *)
Return(call, id, dismissed) ==
    reply' = [call |-> call, id |-> id, dismissed |-> dismissed]

(* Reading a table P *)

Members(P, s) == {i \in DOMAIN P : P[i].slot = s}
Active(P, s)  == {i \in Members(P, s) : ~ P[i].queued}
Pending(P, s) == {i \in Members(P, s) : P[i].queued}
OwnedBy(P, o) == {i \in DOMAIN P : P[i].owner = o}

Least(S) == {i \in S : \A j \in S : i <= j}

(* Definitions named Mut... are mistakes this code could have contained;   *)
(* each replaces the definition after it to show that a property bites.    *)
MutOccupant(P, s, newcomer) ==      \* counts panels held pending
    IF s \in Singletons THEN Least(Members(P, s) \ {newcomer}) ELSE {}

(* The occupant a newcomer to singleton s contends with, as a set of at    *)
(* most one id: the first non-queued member that is not the newcomer.      *)
Occupant(P, s, newcomer) ==
    IF s \in Singletons THEN Least(Active(P, s) \ {newcomer}) ELSE {}

MutOutranked(P, occupant, urgency) ==      \* compares the wrong way
    \E o \in occupant : urgency > P[o].urgency

Outranked(P, occupant, urgency) == \E o \in occupant : urgency < P[o].urgency

(* reconcileQueues: a free singleton slot goes to its pending panel of the *)
(* highest urgency, then of the smallest id.  The search starts from       *)
(* urgency -1, so a panel below that is never a candidate.                 *)
Candidates(P, s) == {i \in Pending(P, s) : P[i].urgency >= -1}

MutBest(P, s) ==      \* serves the youngest first
    {i \in Candidates(P, s) :
       \A j \in Candidates(P, s) :
          \/ P[j].urgency < P[i].urgency
          \/ P[j].urgency = P[i].urgency /\ j <= i}

Best(P, s) ==
    Least({i \in Candidates(P, s) :
              \A j \in Candidates(P, s) : P[j].urgency <= P[i].urgency})

Promoted(P) == UNION {Best(P, s) : s \in {q \in Singletons : Active(P, q) = {}}}

MutUnqueue(p, t) == [p EXCEPT !.queued = FALSE, !.shownAt = t]      \* no raster

Unqueue(p, t) == [p EXCEPT !.queued = FALSE, !.shownAt = t, !.epoch = @ + 1]

MutReconcile(P, t) == P      \* forgotten

Reconcile(P, t) ==
    [i \in DOMAIN P |-> IF i \in Promoted(P) THEN Unqueue(P[i], t) ELSE P[i]]

Without(P, S) == [i \in DOMAIN P \ S |-> P[i]]

(* Stack eviction: remove the oldest member (by shownAt, the smallest id   *)
(* among equals) until the newcomer fits, which leaves MaxStack[s] - 1.    *)
OlderThan(P, i, j) ==
    \/ P[i].shownAt < P[j].shownAt
    \/ P[i].shownAt = P[j].shownAt /\ i < j

MutOverflow(P, s) ==      \* makes room for one, however many there are
    IF s \in Stacks /\ Cardinality(Members(P, s)) >= MaxStack[s]
    THEN {i \in Members(P, s) : \A j \in Members(P, s) \ {i} : OlderThan(P, i, j)}
    ELSE {}

Overflow(P, s) ==
    IF s \in Stacks
    THEN {i \in Members(P, s) :
             Cardinality({j \in Members(P, s) : OlderThan(P, i, j)}) >= MaxStack[s] - 1}
    ELSE {}

(* envelopeOpacity(f, elapsed) > 1/255, in integers *)
Pos(n) == IF n > 0 THEN n ELSE 0

Perceptible(f, elapsed) ==
    LET into == elapsed - Pos(f.rise) - f.hold
    IN  \/ elapsed \in 0 .. f.rise - 1 /\ f.ceil * elapsed > f.rise
        \/ elapsed >= Pos(f.rise) /\ (f.hold < 0 \/ into < 0) /\ f.ceil > 1
        \/ /\ elapsed >= Pos(f.rise) /\ f.hold >= 0
           /\ into \in 0 .. f.fade - 1 /\ f.ceil * (f.fade - into) > f.fade

Visible(p, t) == ~ p.queued /\ Perceptible(p.fade, t - p.shownAt)

(* How long an envelope lasts, computed in int.  The sum can overflow,     *)
(* which is undefined: a build wraps it around or keeps the full sum.      *)
Length(f) == Pos(f.rise) + f.hold + Pos(f.fade)

Wrapped(n) == ((n + IntMax + 1) % (2 * (IntMax + 1))) - IntMax - 1

Total(f, wraps) == IF wraps THEN Wrapped(Length(f)) ELSE Length(f)

MutExpired(p, t, wraps) ==      \* what cannot be seen is taken to be over
    /\ ~ p.queued
    /\ p.fade.hold >= 0
    /\ ~ Perceptible(p.fade, t - p.shownAt)

Expired(p, t, wraps) ==
    /\ ~ p.queued
    /\ p.fade.hold >= 0
    /\ ~ Perceptible(p.fade, t - p.shownAt)
    /\ t - p.shownAt >= Total(p.fade, wraps)

----------------------------------------------------------------------------
(* upsert *)

MutPreempted(S) == {}      \* nobody is told

Preempted(S) == {[id |-> i, reason |-> "preempted"] : i \in S}

MutIssue == UNCHANGED nextId      \* the id is handed out twice

Issue == nextId' = nextId + 1

MutArbitrated(P, s, newcomer, urgency) ==      \* evicts before it compares
    LET rival == Occupant(P, s, newcomer)
    IN  [table |-> Without(P, rival), evicted |-> rival,
         loses |-> Outranked(P, rival, urgency)]

(* The arbitration of a newcomer to s: whether it loses, whom it evicts,   *)
(* and the table it leaves behind.                                         *)
Arbitrated(P, s, newcomer, urgency) ==
    LET rival   == Occupant(P, s, newcomer)
        loses   == Outranked(P, rival, urgency)
        evicted == IF loses THEN {} ELSE rival
    IN  [table |-> Without(P, evicted), evicted |-> evicted, loses |-> loses]

Unarbitrated(P) == [table |-> P, evicted |-> {}, loses |-> FALSE]

(* `return 0`, with the table as it stands by then *)
Refuse(at) ==
    /\ panels' = at.table
    /\ Return("upsert", 0, Preempted(at.evicted))
    /\ UNCHANGED nextId

(* The panel p after update u; `queued` is the outcome of the arbitration, *)
(* which only a move into another singleton slot has.                      *)
Moves(u) ==
    /\ "slot" \in u.set
    /\ u.slot \in Singletons
    /\ u.slot # panels[u.id].slot

Supplied(u, key, old, new) == IF key \in u.set THEN new ELSE old

Merged(p, u, queued, t) ==
    LET content == Supplied(u, "content", p.content, u.content)
        changed == content # p.content
    IN  [owner   |-> u.owner,
         slot    |-> Supplied(u, "slot", p.slot, u.slot),
         urgency |-> Supplied(u, "urgency", p.urgency, u.urgency),
         fade    |-> Supplied(u, "fade", p.fade, u.fade),
         content |-> content,
         shownAt |-> IF changed THEN t ELSE p.shownAt,
         epoch   |-> IF changed THEN p.epoch + 1 ELSE p.epoch,
         queued  |-> queued]

Update(u) ==
    LET p       == panels[u.id]
        urgency == Supplied(u, "urgency", p.urgency, u.urgency)
        at      == IF Moves(u) THEN Arbitrated(panels, u.slot, u.id, urgency)
                   ELSE Unarbitrated(panels)
        queued  == IF Moves(u) THEN at.loses ELSE p.queued
        merged  == [at.table EXCEPT ![u.id] = Merged(p, u, queued, now)]
    IN  IF at.loses /\ u.slot \notin QueueSlots
        THEN Refuse(at)
        ELSE /\ panels' = Reconcile(merged, now)
             /\ Return("upsert", u.id, Preempted(at.evicted))
             /\ UNCHANGED nextId

NewPanel(u, queued, t) ==
    [owner |-> u.owner, slot |-> u.slot, urgency |-> u.urgency, fade |-> u.fade,
     content |-> u.content, shownAt |-> t, epoch |-> 1, queued |-> queued]

Insert(P, i, p) == [j \in DOMAIN P \cup {i} |-> IF j = i THEN p ELSE P[j]]

Create(u) ==
    LET at   == Arbitrated(panels, u.slot, 0, u.urgency)
        full == Overflow(at.table, u.slot)
    IN  IF Cardinality(OwnedBy(panels, u.owner)) >= Cap
        THEN Refuse(Unarbitrated(panels))
        ELSE IF at.loses /\ u.slot \notin QueueSlots
        THEN Refuse(at)
        ELSE /\ panels' = Insert(Without(at.table, full), nextId, NewPanel(u, at.loses, now))
             /\ Return("upsert", nextId, Preempted(at.evicted \cup full))
             /\ Issue

Upsert(u) ==
    /\ IF u.id \in DOMAIN panels THEN Update(u) ELSE Create(u)
    /\ UNCHANGED now

----------------------------------------------------------------------------
(* Removals: each frees the slots it vacates for the panels pending there *)

Drop(S, reason) ==
    /\ panels' = Reconcile(Without(panels, S), now)
    /\ Return("drop", 0, {[id |-> i, reason |-> reason] : i \in S})
    /\ UNCHANGED <<nextId, now>>

(* dismiss: the caller announces the removal itself *)
Dismiss(i) ==
    /\ i \in DOMAIN panels
    /\ panels' = Reconcile(Without(panels, {i}), now)
    /\ Return("dismiss", i, {})
    /\ UNCHANGED <<nextId, now>>

DropOwner(o) ==
    /\ OwnedBy(panels, o) # {}
    /\ Drop(OwnedBy(panels, o), "client-gone")

ExpiredPanels(P, t, wraps) == {i \in DOMAIN P : Expired(P[i], t, wraps)}

ReapExpired ==
    \E wraps \in BOOLEAN :
       /\ ExpiredPanels(panels, now, wraps) # {}
       /\ Drop(ExpiredPanels(panels, now, wraps), "expired")

ForceRedrawAll ==
    /\ panels' = [i \in DOMAIN panels |-> [panels[i] EXCEPT !.epoch = @ + 1]]
    /\ Return("redraw", 0, {})
    /\ UNCHANGED <<nextId, now>>

Tick ==
    /\ now' = now + 1
    /\ UNCHANGED <<panels, nextId, reply>>

(* The requests that supply the keys K and nothing else.  D-Bus fills a    *)
(* field it was not given from the configuration.  stdin creates with      *)
(* every field and updates with none, under any owner it names.            *)
Given(K, key, values) == IF key \in K THEN values ELSE {Default[key]}

RequestsWith(K) ==
    [id : 0 .. nextId, owner : Owners, set : {K},
     slot    : Given(K, "slot", Places),
     urgency : Given(K, "urgency", Urgencies),
     fade    : Given(K, "fade", Fades),
     content : Given(K, "content", Contents)]

Init ==
    /\ panels = << >>
    /\ nextId = 1
    /\ now = 1
    /\ reply = [call |-> "none", id |-> 0, dismissed |-> {}]

(* Clients supply any subset of the keys S *)
Step(S) ==
    \/ \E K \in SUBSET S : \E u \in RequestsWith(K) : Upsert(u)
    \/ \E i \in DOMAIN panels : Dismiss(i)
    \/ \E o \in Owners : DropOwner(o)
    \/ ReapExpired
    \/ ForceRedrawAll
    \/ Tick

Next == Step(Keys)

Spec == Init /\ [][Next]_vars

----------------------------------------------------------------------------
(* Properties *)

(* "At most one active occupant" (Scene.cpp:152): no interleaving of       *)
(* creates, moves, promotions and removals leaves two panels in a          *)
(* singleton slot.                                                         *)
OneOccupant == \A s \in Singletons : \A i, j \in Active(panels, s) : i = j

(* A singleton slot never stands empty while a panel is held pending for   *)
(* it, whichever call vacated it (reconcileQueues runs after each).        *)
NoIdleSlot ==
    \A s \in Singletons : Pending(panels, s) # {} => Active(panels, s) # {}

(* The comment "stacks never queue" (Scene.cpp:252): only a singleton slot *)
(* that queues holds panels pending.                                       *)
OnlyQueueSlotsQueue ==
    \A i \in DOMAIN panels : panels[i].queued => panels[i].slot \in QueueSlots

Removed == DOMAIN panels \ DOMAIN panels'
Kept    == DOMAIN panels \cap DOMAIN panels'

RemovedAs(reason) == {i \in Removed : [id |-> i, reason |-> reason] \in reply'.dismissed}

(* Whatever leaves the table is announced, once and with one reason, and   *)
(* nothing that stays is: the transport turns `dismissed` into the         *)
(* PanelDismissed signals a client relies on to forget an id.  A dismissal *)
(* at the client's request is the exception: the transport announces it.   *)
RemovalsAnnounced ==
    [][/\ {d.id : d \in reply'.dismissed} =
             IF reply'.call = "dismiss" THEN {} ELSE Removed
       /\ \A d, e \in reply'.dismissed : d.id = e.id => d = e]_<<panels, nextId, reply>>

(* A request that is refused, wherever it is (the cap, a create or a move  *)
(* that loses the arbitration), has evicted nobody by then, told nobody    *)
(* that he was, and used up no id.                                         *)
RefusalChangesNothing ==
    [][reply'.call = "upsert" /\ reply'.id = 0
          => /\ panels' = panels
             /\ nextId' = nextId
             /\ reply'.dismissed = {}]_<<panels, nextId, reply>>

(* No panel loses its place to a lower urgency: the active panel that      *)
(* displaces another from a singleton slot is at least as urgent, and one  *)
(* pushed off a stack was older than every panel that stays on it.         *)
NoInversion ==
    [][\A i \in RemovedAs("preempted") :
          LET p == panels[i]
          IN  /\ p.slot \in Singletons =>
                    \E j \in Active(panels', p.slot) : panels'[j].urgency >= p.urgency
              /\ p.slot \in Stacks =>
                    \A j \in Members(panels, p.slot) \ Removed : OlderThan(panels, i, j)]_vars

(* The upload-on-change contract (Scene.hpp:18): a panel is rastered again *)
(* exactly when its content changed, it was promoted from the queue of its *)
(* slot, or the palette changed; its dwell restarts exactly in the first   *)
(* two cases.                                                              *)
Refreshed(i) ==
    LET p == panels[i]  q == panels'[i]
    IN  q.content # p.content \/ (p.queued /\ ~ q.queued /\ q.slot = p.slot)

UploadOnChange ==
    [][\A i \in Kept :
          /\ Refreshed(i) => panels'[i].epoch > panels[i].epoch /\ panels'[i].shownAt = now
          /\ ~ Refreshed(i) => panels'[i].shownAt = panels[i].shownAt
          /\ ~ Refreshed(i) /\ panels'[i].epoch # panels[i].epoch => reply'.call = "redraw"]_vars

(* However many panels were moved onto a stack, which evicts nothing, the  *)
(* next create into it brings it back within its `max`.                    *)
CreateTrimsStack ==
    [][nextId' # nextId =>
          LET s == panels'[nextId].slot
          IN  s \in Stacks => Cardinality(Members(panels', s)) <= MaxStack[s]]_<<panels, nextId>>

(* Time takes a panel only when its envelope has run out: one that nobody  *)
(* would ever have seen again, and none that waits for its slot, persists, *)
(* or has yet to rise.  An envelope longer than an int can count           *)
(* (Scene.cpp:214) is excepted: there a build that wraps takes the panel   *)
(* before it is first seen.                                                *)
ExpiryTakesOnlyFaded ==
    [][\A i \in RemovedAs("expired") :
          LET p == panels[i]
          IN  Length(p.fade) <= IntMax =>
                 /\ ~ p.queued
                 /\ p.fade.hold >= 0
                 /\ \A later \in 0 .. IntMax : ~ Visible(p, now + later)]_vars

(* The singleton slots are the locks with priorities of SlotArbiter.       *)
Arbiter == INSTANCE SlotArbiter WITH
    Locks      <- Singletons,
    QueueLocks <- QueueSlots,
    holder     <- [s \in Singletons |-> Active(panels, s)],
    waiting    <- [s \in Singletons |-> Pending(panels, s)],
    rank       <- [i \in DOMAIN panels |-> panels[i].urgency]

ImplementsArbiter == Arbiter!Spec
=============================================================================
