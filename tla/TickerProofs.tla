---------------------------- MODULE TickerProofs ----------------------------
(***************************************************************************)
(* Proofs about CmdLog, for any command lines, times and share of the      *)
(* board, and any number of commands, rivals, restarts and timeouts.       *)
(***************************************************************************)
EXTENDS CmdLog, SequenceTheorems, FiniteSetTheorems, TLAPS

Bodies == Seq([text : Texts \ {Blank}, count : Nat \ {0}])

Mail == [kind : {"publish"}, arg : Texts] \cup [kind : {"dismissed", "ownerLost"}, arg : Nat]

(* The connection is closed when the ticker is gone, and not before; a     *)
(* daemon that is down has no panels.                                      *)
Linked ==
    /\ inbox \in Seq(Mail)
    /\ ~ up => DOMAIN board = {}
    /\ pc # "gone" => connected

(* The newest row is the youngest: a repeat renews the first row, and no   *)
(* other.                                                                  *)
Sorted == \A j, k \in DOMAIN rows : j <= k => rows[j].age <= rows[k].age

(* One call at most is waited for, the last one made. *)
Waiting ==
    /\ \A k \in DOMAIN outbox :
          outbox[k].waits => k = Len(outbox) /\ pc \in {"call", "bye"} /\ reply = None
    /\ reply # None => pc \in {"call", "bye"}
    /\ pc \in {"call", "poll"} => ~ dirty

(* A message that will have the ticker drop the id p is in the inbox. *)
Doomed(p) ==
    \E k \in DOMAIN inbox :
       \/ inbox[k].kind = "ownerLost"
       \/ inbox[k].kind = "dismissed" /\ inbox[k].arg = p

(* What panel p shows once all that was sent has been handled *)
UpToDate(p) ==
    IF outbox = << >> THEN board[p].body = Lines(rows)
    ELSE LET last == outbox[Len(outbox)]
         IN  last.op = "update" /\ last.id = p /\ last.body = Lines(rows)

Creating == pc = "call" /\ panelId = 0

Behind == dirty \/ retry # Never      \* rows that are not sent yet

(* The panel that the ticker knows, or is about to be told of: it is lost  *)
(* and a message says so, or it is the ticker's and shows the rows, or     *)
(* will after the next sync.                                               *)
Mirrors ==
    /\ pc \in {"top", "poll", "process"} /\ panelId # 0 =>
          Doomed(panelId) \/ (panelId \in Ours /\ (Behind \/ UpToDate(panelId)))
    /\ Creating /\ reply = None =>
          outbox # << >> /\ LET last == outbox[Len(outbox)]
                            IN  last.op = "create" /\ last.body = Lines(rows) /\ last.waits
    /\ Creating /\ reply \notin {None, 0} =>
          Doomed(reply) \/ (reply \in Ours /\ outbox = << >> /\ board[reply].body = Lines(rows))

IInv == TypeOK /\ Linked /\ Sorted /\ Waiting /\ (Listens => Mirrors)

----------------------------------------------------------------------------
(* Min, Max and SetToSeq *)

(* The lesser of two.                                                      *)
LEMMA MinOfTwo ==
    ASSUME NEW a \in Int, NEW b \in Int
    PROVE  Min({a, b}) = IF a <= b THEN a ELSE b
<1>1. \E x \in {a, b} : \A y \in {a, b} : x <= y
  <2>1. a <= b \/ b <= a
    OBVIOUS
  <2>2. QED
    BY <2>1
<1>2. /\ Min({a, b}) \in {a, b}
      /\ \A y \in {a, b} : Min({a, b}) <= y
  BY <1>1, Zenon DEF Min
<1>3. QED
  BY <1>2

(* Ages are counted far enough. *)
LEMMA OldestType == Oldest \in Nat \ {0}
<1> DEFINE b == Coalesce + 1
<1>1. Ttl \in Nat \ {0} /\ b \in Nat \ {0}
  BY ConfigAssumption
<1> HIDE DEF b
<1>2. \E x \in {Ttl, b} : \A y \in {Ttl, b} : x >= y
  <2>1. Ttl >= b \/ b >= Ttl
    BY <1>1
  <2>2. QED
    BY <1>1, <2>1
<1>3. Max({Ttl, b}) \in {Ttl, b}
  BY <1>2, Zenon DEF Max
<1>4. QED
  BY <1>1, <1>3 DEF Oldest, b

(* A nonempty set of naturals up to n has a greatest element. *)
LEMMA MaxOfNats ==
    ASSUME NEW n \in Nat, NEW S \in SUBSET (0 .. n), S # {}
    PROVE  Max(S) \in S /\ \A y \in S : y <= Max(S)
<1> DEFINE T == {n - x : x \in S}
<1>0. \A x \in S : x \in Nat /\ n - x \in Nat
  OBVIOUS
<1>1. T \in SUBSET Nat /\ T # {}
  BY <1>0
<1>2. PICK t \in T : \A u \in T : <<u, t>> \notin OpToRel(<, Nat)
  BY <1>1, NatLessThanWellFounded, WFMin, Zenon
<1>3. \A u \in T : ~ (u < t)
  BY <1>1, <1>2 DEF OpToRel
<1>4. PICK x \in S : t = n - x
  OBVIOUS
<1>5. \A y \in S : x >= y
  <2> TAKE y \in S
  <2>1. n - y \in T
    OBVIOUS
  <2>2. ~ (n - y < n - x)
    BY <1>3, <1>4, <2>1
  <2>3. QED
    BY <1>0, <2>2
<1>6. \E z \in S : \A y \in S : z >= y
  BY <1>5
<1>7. Max(S) \in S /\ \A y \in S : Max(S) >= y
  BY <1>6, Zenon DEF Max
<1>8. QED
  BY <1>7

(* SetToSeq lists a finite set. *)
LEMMA SetToSeqLists ==
    ASSUME NEW S, IsFiniteSet(S)
    PROVE  /\ SetToSeq(S) \in Seq(S)
           /\ \A x \in S : \E k \in DOMAIN SetToSeq(S) : SetToSeq(S)[k] = x
<1> DEFINE n == Cardinality(S)
           f == SetToSeq(S)
<1>1. n \in Nat /\ ExistsBijection(1 .. n, S)
  BY FS_CardinalityType
<1>2. \E g \in [1 .. n -> S] : IsInjective(g)
  BY <1>1 DEF ExistsBijection, Bijection, Injection
<1>3. f \in [1 .. n -> S] /\ IsInjective(f)
  BY <1>2, Zenon DEF SetToSeq
<1>4. f \in Injection(1 .. n, S)
  BY <1>3 DEF Injection
<1>5. IsFiniteSet(1 .. n) /\ Cardinality(1 .. n) = n
  BY <1>1, FS_Interval
<1>6. f \in Surjection(1 .. n, S)
  BY <1>4, <1>5, FS_Injection
<1>7. QED
  BY <1>1, <1>3, <1>6 DEF Surjection

----------------------------------------------------------------------------
(* The rows *)

(* expire leaves a front of the rows, all of them fresh. *)
LEMMA KeptFresh ==
    ASSUME rows \in Seq(Row), Sorted
    PROVE  /\ Kept \in Seq(Row) /\ Len(Kept) <= Len(rows)
           /\ \A k \in 1 .. Len(Kept) : Kept[k] = rows[k] /\ Kept[k].age < Ttl
<1> DEFINE S == {0} \cup {k \in DOMAIN rows : rows[k].age < Ttl}
           n == Max(S)
<1>1. Len(rows) \in Nat /\ DOMAIN rows = 1 .. Len(rows)
  OBVIOUS
<1>2. S \in SUBSET (0 .. Len(rows)) /\ S # {}
  BY <1>1
<1>3. n \in S
  BY <1>1, <1>2, MaxOfNats
<1> HIDE DEF n
<1>4. n \in 0 .. Len(rows)
  BY <1>2, <1>3
<1>5. /\ Kept \in Seq(Row) /\ Len(Kept) = n
      /\ \A k \in 1 .. n : Kept[k] = rows[k]
  <2>1. Kept = SubSeq(rows, 1, n)
    BY DEF Kept, n
  <2>2. QED
    BY <1>1, <1>4, <2>1, SubSeqProperties
<1>6. ASSUME NEW k \in 1 .. n PROVE rows[k].age < Ttl
  <2>1. n \in DOMAIN rows /\ rows[n].age < Ttl
    BY <1>3, <1>4
  <2>2. k \in DOMAIN rows /\ k <= n
    BY <1>1, <1>4
  <2>3. rows[k].age <= rows[n].age
    BY <2>1, <2>2 DEF Sorted
  <2>4. rows[k].age \in Int /\ rows[n].age \in Int /\ Ttl \in Int
    <3>1. rows[k] \in Row /\ rows[n] \in Row
      BY <2>1, <2>2
    <3>2. QED
      BY <3>1, ConfigAssumption, OldestType DEF Row
  <2>5. QED
    BY <2>1, <2>3, <2>4
<1>7. QED
  BY <1>1, <1>4, <1>5, <1>6

(* Dropping the rows that are over keeps the order of the others.          *)
LEMMA KeptSorted ==
    ASSUME rows \in Seq(Row), Sorted, rows' = Kept
    PROVE  Sorted'
BY KeptFresh DEF Sorted

(* A published line keeps the order: it makes the first row the youngest. *)
LEMMA PublishedSorted ==
    ASSUME rows \in Seq(Row), Len(rows) <= History, Sorted,
           NEW t \in Texts \ {Blank}
    PROVE  /\ Published(t) \in Seq(Row) /\ Len(Published(t)) <= History
           /\ \A j, k \in DOMAIN Published(t) :
                 j <= k => Published(t)[j].age <= Published(t)[k].age
<1>0. /\ Len(rows) \in Nat /\ DOMAIN rows = 1 .. Len(rows)
      /\ History \in Nat \ {0} /\ Oldest \in Nat \ {0}
  BY ConfigAssumption, OldestType
<1>1. \A k \in 1 .. Len(rows) : rows[k] \in Row
  OBVIOUS
<1>2. \A k \in 1 .. Len(rows) : /\ rows[k].age \in Nat /\ rows[k].text \in Texts \ {Blank}
                               /\ rows[k].count \in Nat \ {0}
  BY <1>0, <1>1 DEF Row
<1>3. CASE ~ Repeats(t)
  <2> DEFINE first == [text |-> t, count |-> 1, age |-> 0]
             r == <<first>> \o rows
             n == Min({Len(r), History})
  <2>1. first \in Row /\ first.age = 0
    BY <1>0 DEF Row
  <2>2. /\ r \in Seq(Row) /\ Len(r) = Len(rows) + 1
        /\ r[1] = first /\ \A k \in 2 .. Len(r) : r[k] = rows[k - 1]
    BY <2>1
  <2> HIDE DEF first, r
  <2>3. n \in 1 .. Len(r) /\ n <= History
    BY <1>0, <2>2, MinOfTwo
  <2>4. Published(t) = SubSeq(r, 1, n)
    BY <1>3 DEF Published, Pushed, first, r
  <2> HIDE DEF n
  <2>5. /\ Published(t) \in Seq(Row) /\ Len(Published(t)) = n
        /\ \A k \in 1 .. n : Published(t)[k] = r[k]
    BY <2>2, <2>3, <2>4, SubSeqProperties
  <2>6. ASSUME NEW j \in 1 .. n, NEW k \in 1 .. n, j <= k
        PROVE  r[j].age <= r[k].age
    <3>1. CASE j = 1
      <4>1. r[k] \in Row
        BY <2>2, <2>3
      <4>2. r[k].age \in Nat
        BY <1>0, <4>1 DEF Row
      <4>3. QED
        BY <2>1, <2>2, <3>1, <4>2
    <3>2. CASE j # 1
      <4>1. j - 1 \in DOMAIN rows /\ k - 1 \in DOMAIN rows /\ j - 1 <= k - 1
        BY <1>0, <2>2, <2>3, <2>6, <3>2
      <4>2. r[j] = rows[j - 1] /\ r[k] = rows[k - 1]
        BY <2>2, <2>3, <2>6, <3>2
      <4>3. QED
        BY <4>1, <4>2 DEF Sorted
    <3>3. QED
      BY <3>1, <3>2
  <2>7. QED
    BY <2>3, <2>5, <2>6
<1>4. CASE Repeats(t)
  <2> DEFINE first == [text |-> t, count |-> Head(rows).count + 1, age |-> 0]
             r == <<first>> \o Tail(rows)
  <2>1. rows # << >> /\ Head(rows) = rows[1] /\ Len(rows) >= 1
    BY <1>4 DEF Repeats
  <2>2. Head(rows).count \in Nat
    BY <1>0, <1>2, <2>1
  <2>3. first \in Row /\ first.age = 0
    BY <1>0, <2>2 DEF Row
  <2> HIDE DEF first
  <2>4. /\ Tail(rows) \in Seq(Row) /\ Len(Tail(rows)) = Len(rows) - 1
        /\ \A k \in 1 .. Len(rows) - 1 : Tail(rows)[k] = rows[k + 1]
    BY <2>1
  <2>5. /\ r \in Seq(Row) /\ Len(r) = Len(rows)
        /\ r[1] = first /\ \A k \in 2 .. Len(r) : r[k] = rows[k]
    BY <1>0, <2>1, <2>3, <2>4
  <2>6. Published(t) = r
    BY <1>4 DEF Published, first
  <2> HIDE DEF r
  <2>7. ASSUME NEW j \in 1 .. Len(r), NEW k \in 1 .. Len(r), j <= k
        PROVE  r[j].age <= r[k].age
    <3>1. CASE j = 1
      <4>1. r[k].age \in Nat
        BY <1>0, <1>2, <2>3, <2>5
      <4>2. QED
        BY <2>3, <2>5, <3>1, <4>1
    <3>2. CASE j # 1
      BY <1>0, <2>5, <2>7, <3>2 DEF Sorted
    <3>3. QED
      BY <3>1, <3>2
  <2>8. QED
    BY <1>0, <2>5, <2>6, <2>7
<1>5. QED
  BY <1>3, <1>4

----------------------------------------------------------------------------
(* The board *)

Panel == [owner : {"us", "rival"}, slot : BOOLEAN, urgency : {1, 2}, body : Bodies]

Call == [op : {"create", "toast", "update", "dismiss"}, id : Nat, body : Bodies, waits : BOOLEAN]

Boarded == nextId \in Nat \ {0} /\ DOMAIN board \subseteq 1 .. nextId - 1
           /\ board \in [DOMAIN board -> Panel]

(* More signals leave a doomed panel doomed. *)
LEMMA MoreSignals ==
    ASSUME inbox \in Seq(Mail), NEW s \in Seq(Mail), inbox' = inbox \o s
    PROVE  /\ inbox' \in Seq(Mail) /\ Len(inbox) <= Len(inbox')
           /\ \A p : Doomed(p) => Doomed(p)'
           /\ \A k \in DOMAIN s : \E j \in DOMAIN inbox' : inbox'[j] = s[k]
<1>1. /\ inbox' \in Seq(Mail) /\ Len(inbox') = Len(inbox) + Len(s)
      /\ Len(inbox) \in Nat /\ Len(s) \in Nat
      /\ \A k \in 1 .. Len(inbox) : inbox'[k] = inbox[k]
      /\ \A k \in 1 .. Len(s) : inbox'[Len(inbox) + k] = s[k]
  OBVIOUS
<1>2. ASSUME NEW p, Doomed(p) PROVE Doomed(p)'
  BY <1>1, <1>2 DEF Doomed
<1>3. ASSUME NEW k \in DOMAIN s PROVE \E j \in DOMAIN inbox' : inbox'[j] = s[k]
  <2>1. Len(inbox) + k \in DOMAIN inbox'
    BY <1>1
  <2>2. QED
    BY <1>1, <2>1
<1>4. QED
  BY <1>1, <1>2, <1>3

(* Signals go behind those that wait, if anybody listens to them.          *)
LEMMA SentSignals ==
    ASSUME inbox \in Seq(Mail), NEW S \in SUBSET Mail, IsFiniteSet(S), inbox' = Signals(S)
    PROVE  /\ inbox' \in Seq(Mail) /\ Len(inbox) <= Len(inbox')
           /\ \A p : Doomed(p) => Doomed(p)'
           /\ connected /\ Listens => \A m \in S : \E j \in DOMAIN inbox' : inbox'[j] = m
<1>1. CASE connected /\ Listens
  <2>1. /\ SetToSeq(S) \in Seq(S)
        /\ \A m \in S : \E k \in DOMAIN SetToSeq(S) : SetToSeq(S)[k] = m
    BY SetToSeqLists
  <2>2. SetToSeq(S) \in Seq(Mail)
    BY <2>1
  <2>3. inbox' = inbox \o SetToSeq(S)
    BY <1>1 DEF Signals
  <2>4. /\ inbox' \in Seq(Mail) /\ Len(inbox) <= Len(inbox')
        /\ \A p : Doomed(p) => Doomed(p)'
        /\ \A k \in DOMAIN SetToSeq(S) : \E j \in DOMAIN inbox' : inbox'[j] = SetToSeq(S)[k]
    BY <2>2, <2>3, MoreSignals
  <2>5. QED
    BY <2>1, <2>4
<1>2. CASE ~ (connected /\ Listens)
  <2>1. inbox' = inbox
    BY <1>2 DEF Signals
  <2>2. QED
    BY <1>2, <2>1 DEF Doomed
<1>3. QED
  BY <1>1, <1>2

(* A panel that leaves the board is announced. *)
LEMMA LossIsTold ==
    ASSUME inbox \in Seq(Mail), Boarded, NEW S \in SUBSET DOMAIN board, Announce(S)
    PROVE  /\ inbox' \in Seq(Mail) /\ Len(inbox) <= Len(inbox')
           /\ \A p : Doomed(p) => Doomed(p)'
           /\ connected /\ Listens => \A p \in S : Doomed(p)'
<1> DEFINE T == {Signal("dismissed", i) : i \in S}
           f == [i \in S |-> Signal("dismissed", i)]
<1>1. S \in SUBSET Nat /\ \A i \in S : i <= nextId - 1
  BY DEF Boarded
<1>2. IsFiniteSet(S)
  BY <1>1, FS_BoundedSetOfNaturals DEF Boarded
<1>3. f \in Surjection(S, T)
  BY DEF Surjection
<1>4. IsFiniteSet(T)
  BY <1>2, <1>3, FS_Surjection
<1>5. T \in SUBSET Mail
  BY <1>1 DEF Signal, Mail
<1>6. inbox' = Signals(T)
  BY DEF Announce
<1> HIDE DEF T
<1>7. /\ inbox' \in Seq(Mail) /\ Len(inbox) <= Len(inbox')
      /\ \A p : Doomed(p) => Doomed(p)'
      /\ connected /\ Listens => \A m \in T : \E j \in DOMAIN inbox' : inbox'[j] = m
  BY <1>4, <1>5, <1>6, SentSignals
<1>8. ASSUME connected /\ Listens, NEW p \in S PROVE Doomed(p)'
  <2>1. Signal("dismissed", p) \in T
    BY DEF T
  <2>2. PICK j \in DOMAIN inbox' : inbox'[j] = Signal("dismissed", p)
    BY <1>7, <1>8, <2>1
  <2>3. inbox'[j].kind = "dismissed" /\ inbox'[j].arg = p
    BY <2>2 DEF Signal
  <2>4. QED
    BY <2>3 DEF Doomed
<1>9. QED
  BY <1>7, <1>8

(* A new panel: it has the body asked for, and who makes room for it is    *)
(* told.                                                                   *)
LEMMA PutKeeps ==
    ASSUME inbox \in Seq(Mail), Boarded, NEW owner \in {"us", "rival"}, NEW slot \in BOOLEAN,
           NEW urgency \in {1, 2}, NEW body \in Bodies, NEW S \in SUBSET DOMAIN board,
           Put(owner, slot, urgency, body, S)
    PROVE  /\ Boarded' /\ inbox' \in Seq(Mail) /\ Len(inbox) <= Len(inbox')
           /\ nextId \in Nat \ {0} /\ nextId' # nextId
           /\ owner = "us" => nextId \in Ours' /\ board'[nextId].body = body
           /\ \A p : Doomed(p) => Doomed(p)'
           /\ connected /\ Listens =>
                 \A p \in Ours : Doomed(p)' \/ (p \in Ours' /\ board'[p].body = board[p].body)
<1>1. /\ inbox' \in Seq(Mail) /\ Len(inbox) <= Len(inbox')
      /\ \A p : Doomed(p) => Doomed(p)'
      /\ connected /\ Listens => \A p \in S : Doomed(p)'
  BY LossIsTold DEF Put
<1>2. /\ nextId \in Nat \ {0} /\ nextId' = nextId + 1
      /\ DOMAIN board \subseteq 1 .. nextId - 1
  BY DEF Boarded, Put, Issued
<1> DEFINE new == [owner |-> owner, slot |-> slot, urgency |-> urgency, body |-> body]
<1>3. /\ DOMAIN board' = (DOMAIN board \ S) \cup {nextId}
      /\ board'[nextId] = new
      /\ \A i \in DOMAIN board \ S : board'[i] = board[i]
  BY <1>2 DEF Put
<1>4. new \in Panel /\ \A i \in DOMAIN board : board[i] \in Panel
  BY DEF Panel, Boarded
<1>5. Boarded'
  <2>1. board' = [i \in DOMAIN board' |-> board'[i]]
    BY DEF Put
  <2>2. \A i \in DOMAIN board' : board'[i] \in Panel
    BY <1>3, <1>4
  <2>3. DOMAIN board' \subseteq 1 .. nextId' - 1
    BY <1>2, <1>3
  <2>4. QED
    BY <1>2, <2>1, <2>2, <2>3 DEF Boarded
<1>6. owner = "us" => nextId \in Ours' /\ board'[nextId].body = body
  BY <1>3 DEF Ours
<1>7. ASSUME connected /\ Listens, NEW p \in Ours
      PROVE  Doomed(p)' \/ (p \in Ours' /\ board'[p].body = board[p].body)
  BY <1>1, <1>3, <1>7 DEF Ours
<1>8. QED
  BY <1>1, <1>2, <1>5, <1>6, <1>7

(* Panels that are taken away are signalled: ours is gone, or its loss is  *)
(* on the way.                                                             *)
LEMMA TakeKeeps ==
    ASSUME inbox \in Seq(Mail), Boarded, NEW S \in SUBSET DOMAIN board, Take(S)
    PROVE  /\ Boarded' /\ inbox' \in Seq(Mail) /\ Len(inbox) <= Len(inbox')
           /\ nextId' = nextId
           /\ \A p : Doomed(p) => Doomed(p)'
           /\ connected /\ Listens =>
                 \A p \in Ours : Doomed(p)' \/ (p \in Ours' /\ board'[p].body = board[p].body)
<1>1. /\ inbox' \in Seq(Mail) /\ Len(inbox) <= Len(inbox')
      /\ \A p : Doomed(p) => Doomed(p)'
      /\ connected /\ Listens => \A p \in S : Doomed(p)'
  BY LossIsTold DEF Take
<1>2. /\ DOMAIN board' = DOMAIN board \ S
      /\ \A i \in DOMAIN board \ S : board'[i] = board[i]
      /\ board' = [i \in DOMAIN board' |-> board'[i]] /\ nextId' = nextId
  BY DEF Take
<1>3. Boarded'
  BY <1>2 DEF Boarded
<1>4. ASSUME connected /\ Listens, NEW p \in Ours
      PROVE  Doomed(p)' \/ (p \in Ours' /\ board'[p].body = board[p].body)
  BY <1>1, <1>2, <1>4 DEF Ours
<1>5. QED
  BY <1>1, <1>2, <1>3, <1>4

(* A message changes what a panel of ours shows if it is an update of it,  *)
(* and only then.                                                          *)
LEMMA HandleKeeps ==
    ASSUME inbox \in Seq(Mail), Boarded, NEW msg \in Call, Handle(msg)
    PROVE  /\ Boarded' /\ inbox' \in Seq(Mail) /\ Len(inbox) <= Len(inbox')
           /\ msg.op = "create" /\ nextId' # nextId =>
                 nextId \in Ours' /\ board'[nextId].body = msg.body
           /\ \A p : Doomed(p) => Doomed(p)'
           /\ connected /\ Listens =>
                 \A p \in Ours :
                    \/ Doomed(p)'
                    \/ /\ p \in Ours'
                       /\ board'[p].body = IF msg.op = "update" /\ msg.id = p THEN msg.body
                                           ELSE board[p].body
<1>0. msg.body \in Bodies /\ Holder \subseteq DOMAIN board /\ Ours \subseteq DOMAIN board
  BY DEF Call, Holder, Ours
<1>1. CASE Keep /\ ~ (msg.op = "update" /\ msg.id \in Ours)
  <2>1. UNCHANGED <<board, nextId, inbox>>
    BY <1>1 DEF Keep
  <2>2. Boarded' /\ inbox' \in Seq(Mail) /\ Len(inbox) <= Len(inbox')
    BY <2>1 DEF Boarded
  <2>3. Ours' = Ours /\ \A p : Doomed(p) => Doomed(p)'
    BY <2>1 DEF Ours, Doomed
  <2>4. QED
    BY <1>1, <2>1, <2>2, <2>3
<1>2. CASE msg.op = "create" /\ Put("us", TRUE, 1, msg.body, Holder)
  BY <1>0, <1>2, PutKeeps
<1> DEFINE Intact ==
              /\ Boarded' /\ inbox' \in Seq(Mail) /\ Len(inbox) <= Len(inbox')
              /\ \A p : Doomed(p) => Doomed(p)'
              /\ connected /\ Listens =>
                    \A p \in Ours : Doomed(p)' \/ (p \in Ours' /\ board'[p].body = board[p].body)
<1>21. ASSUME NEW u \in {1, 2}, Put("us", FALSE, u, msg.body, {})
       PROVE  Intact
  <2>1. {} \in SUBSET DOMAIN board /\ FALSE \in BOOLEAN /\ "us" \in {"us", "rival"}
    OBVIOUS
  <2>2. QED
    BY <1>0, <1>21, <2>1, PutKeeps, Zenon
<1>3. CASE msg.op = "toast" /\ Put("us", FALSE, 2, msg.body, {})
  <2>1. Intact
    BY <1>3, <1>21
  <2>2. QED
    BY <1>3, <2>1
<1>4. CASE /\ msg.op = "update" /\ msg.id \notin DOMAIN board
           /\ Put("us", FALSE, 1, msg.body, {})
  <2>1. Intact
    BY <1>4, <1>21
  <2>2. \A p \in Ours : p # msg.id
    BY <1>0, <1>4
  <2>3. msg.op # "create"
    BY <1>4
  <2>4. QED
    BY <2>1, <2>2, <2>3
<1>5. CASE msg.op = "dismiss" /\ Take({msg.id}) /\ msg.id \in Ours
  <2>1. Intact
    <3>1. {msg.id} \in SUBSET DOMAIN board
      BY <1>0, <1>5
    <3>2. QED
      BY <1>5, <3>1, TakeKeeps
  <2>2. QED
    BY <1>5, <2>1
<1>6. CASE /\ msg.op = "update" /\ msg.id \in Ours
           /\ board' = [board EXCEPT ![msg.id].body = msg.body]
           /\ UNCHANGED <<nextId, inbox>>
  <2>1. /\ DOMAIN board' = DOMAIN board
        /\ board' = [i \in DOMAIN board' |-> board'[i]]
        /\ board'[msg.id] = [board[msg.id] EXCEPT !.body = msg.body]
        /\ \A i \in DOMAIN board : i # msg.id => board'[i] = board[i]
    BY <1>0, <1>6
  <2>2. \A i \in DOMAIN board : board[i] \in Panel
    BY DEF Boarded
  <2>3. board'[msg.id] \in Panel /\ board'[msg.id].body = msg.body
        /\ board'[msg.id].owner = board[msg.id].owner
    BY <1>0, <1>6, <2>1, <2>2 DEF Panel
  <2>4. Boarded'
    BY <1>6, <2>1, <2>2, <2>3 DEF Boarded
  <2>5. \A p \in Ours : p \in Ours'
    BY <1>0, <2>1, <2>3 DEF Ours
  <2>6. inbox' \in Seq(Mail) /\ Len(inbox) <= Len(inbox') /\ \A p : Doomed(p) => Doomed(p)'
    BY <1>6 DEF Doomed
  <2>7. \A p \in Ours : board'[p].body = IF msg.id = p THEN msg.body ELSE board[p].body
    BY <1>0, <2>1, <2>3
  <2>8. msg.op = "update"
    BY <1>6
  <2>9. QED
    BY <2>4, <2>5, <2>6, <2>7, <2>8
<1>7. CASE msg.op = "create" /\ CreatePanel(msg)
  BY <1>1, <1>2, <1>7 DEF CreatePanel
<1>8. CASE msg.op = "toast" /\ CreateToast(msg)
  BY <1>1, <1>3, <1>8 DEF CreateToast
<1>9. CASE msg.op = "update" /\ UpdatePanel(msg)
  <2>1. CASE msg.id \in Ours
    BY <1>0, <1>6, <1>9, <2>1 DEF UpdatePanel
  <2>2. CASE msg.id \notin Ours
    BY <1>1, <1>4, <1>9, <2>2 DEF UpdatePanel
  <2>3. QED
    BY <2>1, <2>2
<1>10. CASE msg.op = "dismiss" /\ DismissPanel(msg)
  BY <1>1, <1>5, <1>10 DEF DismissPanel
<1>11. QED
  BY <1>7, <1>8, <1>9, <1>10 DEF Handle

----------------------------------------------------------------------------
(* The steps of others *)

(* TypeOK in parts *)
Wired == /\ up \in BOOLEAN /\ connected \in BOOLEAN
         /\ outbox \in Seq(Call) /\ reply \in Nat \cup {None}
         /\ held \in 0 .. Len(inbox)

Ticking == /\ rows \in Seq(Row) /\ Len(rows) <= History
           /\ dirty \in BOOLEAN /\ retry \in 0 .. Retry \cup {Never}
           /\ panelId \in Nat
           /\ pc \in {"top", "call", "poll", "process", "close", "bye", "gone"}

(* TypeOK by the parts that the steps disturb one at a time.               *)
LEMMA TypeParts ==
    /\ TypeOK <=> Wired /\ Boarded /\ Ticking
    /\ TypeOK' <=> Wired' /\ Boarded' /\ Ticking'
BY DEF TypeOK, BoardTypeOK, Wired, Boarded, Ticking, Call, Panel, Bodies

(* The panel that rows are rendered to.                                    *)
LEMMA LinesType ==
    ASSUME NEW r \in Seq(Row)
    PROVE  Lines(r) \in Bodies
<1>1. \A k \in 1 .. Len(r) : r[k] \in Row
  OBVIOUS
<1>2. \A k \in 1 .. Len(r) :
         [text |-> r[k].text, count |-> r[k].count] \in [text : Texts \ {Blank}, count : Nat \ {0}]
  BY <1>1 DEF Row
<1>3. QED
  BY <1>2 DEF Lines, Bodies

(* The board changes, and the ticker is told what it loses. *)
LEMMA BoardStep ==
    ASSUME IInv, UNCHANGED <<model, panelId, pc, calls, held>>,
           up' \in BOOLEAN, ~ up' => DOMAIN board' = {}, Boarded',
           inbox' \in Seq(Mail), Len(inbox) <= Len(inbox'),
           \A p : Doomed(p) => Doomed(p)',
           connected /\ Listens =>
              \A p \in Ours : Doomed(p)' \/ (p \in Ours' /\ board'[p].body = board[p].body)
    PROVE  IInv'
<1>0. UNCHANGED <<rows, dirty, retry, connected, outbox, reply>>
  BY DEF model, calls
<1>1. TypeOK'
  <2>1. Wired /\ Ticking
    BY TypeParts DEF IInv
  <2>2. Ticking'
    BY <1>0, <2>1 DEF Ticking
  <2>3. Len(inbox) \in Nat /\ Len(inbox') \in Nat
    BY DEF IInv, Linked
  <2>4. Wired'
    BY <1>0, <2>1, <2>3 DEF Wired
  <2>5. QED
    BY <2>2, <2>4, TypeParts
<1>2. Linked'
  BY <1>0 DEF IInv, Linked
<1>3. Sorted' /\ Waiting'
  BY <1>0 DEF IInv, Sorted, Waiting
<1>4. ASSUME Listens PROVE Mirrors'
  <2>1. Mirrors /\ (pc # "gone" => connected)
    BY <1>4 DEF IInv, Linked
  <2>2. ASSUME NEW p \in Ours, connected
        PROVE  Doomed(p)' \/ (p \in Ours' /\ board'[p].body = board[p].body)
    BY <1>4, <2>2
  <2>3. ASSUME pc \in {"top", "poll", "process"}, panelId # 0
        PROVE  Doomed(panelId)' \/ (panelId \in Ours' /\ (Behind \/ UpToDate(panelId)'))
    <3>1. CASE Doomed(panelId)
      BY <1>0, <3>1
    <3>2. CASE panelId \in Ours /\ (Behind \/ UpToDate(panelId))
      <4>1. Doomed(panelId)' \/ (panelId \in Ours' /\ board'[panelId].body = board[panelId].body)
        BY <2>1, <2>2, <2>3, <3>2
      <4>2. QED
        BY <1>0, <3>2, <4>1 DEF UpToDate, Lines
    <3>3. QED
      BY <2>1, <2>3, <3>1, <3>2 DEF Mirrors
  <2>4. ASSUME Creating, reply \notin {None, 0}
        PROVE  \/ Doomed(reply)'
               \/ reply \in Ours' /\ outbox = << >> /\ board'[reply].body = Lines(rows)
    <3>1. CASE Doomed(reply)
      BY <1>0, <3>1
    <3>2. CASE reply \in Ours /\ outbox = << >> /\ board[reply].body = Lines(rows)
      <4>1. connected
        BY <2>1, <2>4 DEF Creating
      <4>2. Doomed(reply)' \/ (reply \in Ours' /\ board'[reply].body = board[reply].body)
        BY <1>0, <2>2, <3>2, <4>1
      <4>3. QED
        BY <3>2, <4>2
    <3>3. Doomed(reply) \/ (reply \in Ours /\ outbox = << >> /\ board[reply].body = Lines(rows))
      BY <2>1, <2>4 DEF Mirrors
    <3>4. QED
      BY <3>1, <3>2, <3>3
  <2>5. Creating' <=> Creating
    BY DEF Creating
  <2>6. Lines(rows)' = Lines(rows)
    BY <1>0 DEF Lines
  <2>7. QED
    BY <1>0, <2>1, <2>3, <2>4, <2>5, <2>6 DEF Mirrors, Behind
<1>5. QED
  BY <1>1, <1>2, <1>3, <1>4 DEF IInv

(* Another client, or the watch over the bus, can only take our panel      *)
(* away.                                                                   *)
LEMMA RivalKeeps ==
    ASSUME IInv, UNCHANGED <<model, panelId, pc>>,
           \/ \E urgency \in {1, 2} : RivalCreates(urgency, << >>)
           \/ RivalLeaves \/ ProducerGone
    PROVE  IInv'
<1>1. inbox \in Seq(Mail) /\ Boarded /\ up \in BOOLEAN
  BY TypeParts DEF IInv, Linked, Wired
<1>2. Holder \subseteq DOMAIN board /\ Abandoned \subseteq DOMAIN board /\ << >> \in Bodies
  BY DEF Holder, Abandoned, Ours, Bodies
<1>3. CASE \E urgency \in {1, 2} : RivalCreates(urgency, << >>)
  <2>1. PICK urgency \in {1, 2} : RivalCreates(urgency, << >>)
    BY <1>3
  <2>2. up /\ Put("rival", TRUE, urgency, << >>, Holder) /\ UNCHANGED <<up, calls, held>>
    BY <2>1 DEF RivalCreates
  <2>3. "rival" \in {"us", "rival"} /\ TRUE \in BOOLEAN
    OBVIOUS
  <2>4. /\ Boarded' /\ inbox' \in Seq(Mail) /\ Len(inbox) <= Len(inbox')
        /\ \A p : Doomed(p) => Doomed(p)'
        /\ connected /\ Listens =>
              \A p \in Ours : Doomed(p)' \/ (p \in Ours' /\ board'[p].body = board[p].body)
    BY <1>1, <1>2, <2>2, <2>3, PutKeeps, Zenon
  <2>5. QED
    BY <1>1, <2>2, <2>4, BoardStep
<1>4. ASSUME NEW S \in SUBSET DOMAIN board, up, Take(S), UNCHANGED <<up, calls, held>>
      PROVE  IInv'
  <2>1. /\ Boarded' /\ inbox' \in Seq(Mail) /\ Len(inbox) <= Len(inbox')
        /\ \A p : Doomed(p) => Doomed(p)'
        /\ connected /\ Listens =>
              \A p \in Ours : Doomed(p)' \/ (p \in Ours' /\ board'[p].body = board[p].body)
    BY <1>1, <1>4, TakeKeeps
  <2>2. QED
    BY <1>1, <1>4, <2>1, BoardStep
<1>5. CASE RivalLeaves
  BY <1>2, <1>4, <1>5 DEF RivalLeaves
<1>6. CASE ProducerGone
  BY <1>2, <1>4, <1>6 DEF ProducerGone
<1>7. QED
  BY <1>3, <1>5, <1>6

(* A daemon that starts has no panels.                                     *)
LEMMA StartKeeps ==
    ASSUME IInv, UNCHANGED <<model, panelId, pc>>, Start
    PROVE  IInv'
<1>1. UNCHANGED <<board, nextId, calls, inbox, held>> /\ up' = TRUE
  BY DEF Start, mail
<1>2. inbox \in Seq(Mail) /\ Boarded
  BY TypeParts DEF IInv, Linked
<1>3. Boarded' /\ \A p : Doomed(p) => Doomed(p)'
  BY <1>1, <1>2 DEF Boarded, Doomed
<1>4. Ours' = Ours /\ Len(inbox) <= Len(inbox')
  BY <1>1, <1>2 DEF Ours
<1>5. QED
  BY <1>1, <1>2, <1>3, <1>4, BoardStep

(* A call that fails is not waited for any more, and what is lost with it  *)
(* was for a daemon that has gone.                                         *)
LEMMA FailKeeps ==
    ASSUME IInv, UNCHANGED <<model, panelId, pc>>, NEW left \in Seq(Call), Fails(left),
           \A k \in DOMAIN left : ~ left[k].waits,
           up' \in BOOLEAN, ~ up' => DOMAIN board' = {}, Boarded',
           inbox' \in Seq(Mail), Len(inbox) <= Len(inbox'),
           \/ connected /\ Listens => \A p : Doomed(p)'
           \/ UNCHANGED <<board, inbox>> /\ (DOMAIN board = {} \/ Awaited)
    PROVE  IInv'
<1>0. UNCHANGED <<rows, dirty, retry, connected>> /\ outbox' = left
  BY DEF model, Fails
<1>1. Wired /\ Ticking /\ Waiting /\ Linked /\ Sorted
  BY TypeParts DEF IInv
<1>2. Len(inbox) \in Nat /\ Len(inbox') \in Nat /\ held \in 0 .. Len(inbox)
  BY <1>1 DEF Linked, Wired
<1>3. /\ Awaited => reply' = 0 /\ held' \in 0 .. Len(inbox')
      /\ ~ Awaited => reply' = reply /\ held' \in 0 .. Len(inbox')
  BY <1>2 DEF Fails
<1>4. Awaited => pc \in {"call", "bye"}
  <2>1. outbox \in Seq(Call)
    BY <1>1 DEF Wired
  <2>2. outbox # << >> => Len(outbox) \in DOMAIN outbox
    BY <2>1
  <2>3. QED
    BY <1>1, <2>2 DEF Awaited, Waiting
<1>5. TypeOK'
  <2>1. Ticking'
    BY <1>0, <1>1 DEF Ticking
  <2>2. Wired'
    BY <1>0, <1>1, <1>3 DEF Wired
  <2>3. QED
    BY <2>1, <2>2, TypeParts
<1>6. Linked' /\ Sorted'
  BY <1>0, <1>1 DEF Linked, Sorted
<1>7. Waiting'
  BY <1>0, <1>1, <1>3, <1>4 DEF Waiting
<1>8. ASSUME Listens PROVE Mirrors'
  <2>1. Mirrors
    BY <1>8 DEF IInv
  <2>2. Creating' = Creating /\ (Creating => pc = "call")
    BY DEF Creating
  <2>3. pc \in {"top", "poll", "process"} /\ panelId # 0 => Doomed(panelId)'
    <3>1. CASE connected /\ Listens => \A p : Doomed(p)'
      BY <3>1, <1>0, <1>1, <1>8 DEF Linked
    <3>2. CASE UNCHANGED inbox /\ (DOMAIN board = {} \/ Awaited)
      <4>1. Doomed(panelId)' <=> Doomed(panelId)
        BY <1>0, <3>2 DEF Doomed
      <4>2. DOMAIN board = {} => Ours = {}
        BY DEF Ours
      <4>3. QED
        BY <1>4, <2>1, <3>2, <4>1, <4>2 DEF Mirrors
    <3>3. QED
      BY <3>1, <3>2
  <2>4. Creating => reply' # None
    <3>1. Creating /\ reply = None => Awaited
      BY <2>1 DEF Mirrors, Awaited
    <3>2. QED
      BY <1>3, <3>1 DEF None
  <2>5. ASSUME Creating, reply' \notin {None, 0}
        PROVE  Doomed(reply)'
    <3>1. reply' = reply /\ ~ Awaited
      BY <1>3, <2>5
    <3>2. CASE connected /\ Listens => \A p : Doomed(p)'
      BY <1>1, <1>8, <2>2, <2>5, <3>1, <3>2 DEF Linked
    <3>3. CASE UNCHANGED inbox /\ (DOMAIN board = {} \/ Awaited)
      <4>1. Doomed(reply) \/ reply \in Ours
        BY <2>1, <2>5, <3>1 DEF Mirrors
      <4>2. DOMAIN board = {} => Ours = {}
        BY DEF Ours
      <4>3. Doomed(reply)
        BY <3>1, <3>3, <4>1, <4>2
      <4>4. QED
        BY <3>1, <3>3, <4>3 DEF Doomed
    <3>4. QED
      BY <3>2, <3>3
  <2>6. QED
    BY <1>0, <2>2, <2>3, <2>4, <2>5 DEF Mirrors
<1>9. QED
  BY <1>5, <1>6, <1>7, <1>8 DEF IInv

(* A daemon that is gone, or that cannot be reached, owes no signal.       *)
LEMMA TroubleKeeps ==
    ASSUME IInv, UNCHANGED <<model, panelId, pc>>, Exit \/ ActivationFails \/ TimesOut
    PROVE  IInv'
<1>1. /\ inbox \in Seq(Mail) /\ Boarded /\ up \in BOOLEAN /\ outbox \in Seq(Call)
      /\ Waiting /\ (~ up => DOMAIN board = {})
  BY TypeParts DEF IInv, Linked, Wired
<1>2. << >> \in Seq(Call) /\ \A k \in DOMAIN << >> : ~ << >>[k].waits
  OBVIOUS
<1>3. CASE Exit
  <2>1. up' = FALSE /\ DOMAIN board' = {} /\ nextId' = 1 /\ Fails(<< >>)
    BY <1>3 DEF Exit
  <2>2. Boarded'
    <3>1. board' = << >>
      BY <1>3 DEF Exit
    <3>2. board' \in [DOMAIN board' -> Panel]
      BY <3>1, <2>1
    <3>3. QED
      BY <2>1, <3>2 DEF Boarded
  <2>3. inbox' = Signals({Signal("ownerLost", 0)})
    BY <1>3 DEF Exit
  <2>4. {Signal("ownerLost", 0)} \in SUBSET Mail /\ IsFiniteSet({Signal("ownerLost", 0)})
    <3>1. Signal("ownerLost", 0) \in Mail
      BY DEF Signal, Mail
    <3>2. \A x : IsFiniteSet({x})
      BY FS_Singleton
    <3>3. QED
      BY <3>1, <3>2
  <2>5. /\ inbox' \in Seq(Mail) /\ Len(inbox) <= Len(inbox')
        /\ connected /\ Listens => \E j \in DOMAIN inbox' : inbox'[j] = Signal("ownerLost", 0)
    BY <1>1, <2>3, <2>4, SentSignals
  <2>6. connected /\ Listens => \A p : Doomed(p)'
    BY <2>5 DEF Doomed, Signal
  <2>7. QED
    BY <1>2, <2>1, <2>2, <2>5, <2>6, FailKeeps
<1>4. CASE ActivationFails
  <2>1. UNCHANGED <<up, board, nextId, inbox>> /\ ~ up /\ Fails(<< >>)
    BY <1>4 DEF ActivationFails, daemon
  <2>2. Boarded' /\ Len(inbox) <= Len(inbox')
    BY <1>1, <2>1 DEF Boarded
  <2>3. QED
    BY <1>1, <1>2, <2>1, <2>2, FailKeeps
<1>5. CASE TimesOut
  <2> DEFINE left == [outbox EXCEPT ![Len(outbox)].waits = FALSE]
  <2>1. UNCHANGED <<up, board, nextId, inbox>> /\ Awaited /\ Fails(left)
    BY <1>5 DEF TimesOut, daemon
  <2>2. Boarded' /\ Len(inbox) <= Len(inbox')
    BY <1>1, <2>1 DEF Boarded
  <2>3. Len(outbox) \in DOMAIN outbox
    BY <1>1, <2>1 DEF Awaited
  <2>4. outbox[Len(outbox)] \in Call
    BY <1>1, <2>3
  <2>5. left \in Seq(Call)
    <3>1. [outbox[Len(outbox)] EXCEPT !.waits = FALSE] \in Call
      BY <2>4 DEF Call
    <3>2. QED
      BY <1>1, <2>3, <3>1, ExceptSeq
  <2>6. \A k \in DOMAIN left : ~ left[k].waits
    <3> TAKE k \in DOMAIN left
    <3>1. CASE k = Len(outbox)
      BY <2>3, <2>4, <3>1 DEF Call
    <3>2. CASE k # Len(outbox)
      BY <1>1, <3>2 DEF Waiting
    <3>3. QED
      BY <3>1, <3>2
  <2>7. QED
    BY <1>1, <2>1, <2>2, <2>5, <2>6, FailKeeps
<1>6. QED
  BY <1>3, <1>4, <1>5

(* The next message is handled: an answer is to the last call, and what    *)
(* comes after the message still has the last word.                        *)
LEMMA ServeKeeps ==
    ASSUME IInv, UNCHANGED <<model, panelId, pc>>, Serve
    PROVE  IInv'
<1> DEFINE msg == Head(outbox)
<1>0. /\ UNCHANGED <<rows, dirty, retry, up, connected>> /\ up
      /\ outbox # << >> /\ outbox' = Tail(outbox) /\ Handle(msg)
  BY DEF Serve, model
<1>1. Wired /\ Boarded /\ Ticking /\ Waiting /\ Linked /\ Sorted
  BY TypeParts DEF IInv
<1>2. /\ outbox \in Seq(Call) /\ Len(outbox) \in Nat \ {0} /\ DOMAIN outbox = 1 .. Len(outbox)
      /\ msg \in Call /\ msg = outbox[1]
      /\ outbox' \in Seq(Call) /\ Len(outbox') = Len(outbox) - 1
      /\ DOMAIN outbox' = 1 .. Len(outbox) - 1
      /\ \A k \in DOMAIN outbox' : k + 1 \in DOMAIN outbox /\ outbox'[k] = outbox[k + 1]
  BY <1>0, <1>1 DEF Wired
<1>3. /\ Len(outbox) = 1 => outbox' = << >>
      /\ Len(outbox) # 1 => outbox' # << >> /\ outbox'[Len(outbox')] = outbox[Len(outbox)]
  <2>1. Len(outbox) # 1 => Len(outbox') \in DOMAIN outbox' /\ Len(outbox') + 1 = Len(outbox)
    BY <1>2
  <2>2. QED
    BY <1>2, <2>1
<1>4. /\ Boarded' /\ inbox' \in Seq(Mail) /\ Len(inbox) <= Len(inbox')
      /\ msg.op = "create" /\ nextId' # nextId => nextId \in Ours' /\ board'[nextId].body = msg.body
      /\ \A p : Doomed(p) => Doomed(p)'
      /\ connected /\ Listens =>
            \A p \in Ours :
               \/ Doomed(p)'
               \/ /\ p \in Ours'
                  /\ board'[p].body = IF msg.op = "update" /\ msg.id = p THEN msg.body
                                      ELSE board[p].body
  BY <1>0, <1>1, <1>2, HandleKeeps DEF Linked
<1>5. /\ msg.waits => reply' = (IF nextId' # nextId THEN nextId ELSE 0) /\ held' = Len(inbox')
      /\ ~ msg.waits => reply' = reply /\ held' = held
      /\ nextId \in Nat \ {0}
  BY <1>1 DEF Serve, Boarded
<1>6. msg.waits => Len(outbox) = 1 /\ pc \in {"call", "bye"} /\ reply = None
  BY <1>1, <1>2 DEF Waiting
<1>7. TypeOK'
  <2>1. Ticking'
    BY <1>0, <1>1 DEF Ticking
  <2>2. reply' \in Nat \cup {None}
    BY <1>1, <1>5 DEF Wired
  <2>3. held' \in 0 .. Len(inbox')
    <3>1. Len(inbox) \in Nat /\ Len(inbox') \in Nat
      BY <1>1, <1>4 DEF Linked
    <3>2. held \in 0 .. Len(inbox) /\ (held' = held \/ held' = Len(inbox'))
      BY <1>1, <1>5 DEF Wired
    <3>3. QED
      BY <1>4, <3>1, <3>2
  <2>4. Wired'
    BY <1>0, <1>1, <1>2, <2>2, <2>3 DEF Wired
  <2>5. QED
    BY <1>4, <2>1, <2>4, TypeParts
<1>8. Linked' /\ Sorted'
  BY <1>0, <1>1, <1>4 DEF Linked, Sorted
<1>9. Waiting'
  <2>1. ASSUME NEW k \in DOMAIN outbox', outbox'[k].waits
        PROVE  k = Len(outbox') /\ pc \in {"call", "bye"} /\ reply' = None
    <3>1. k + 1 = Len(outbox) /\ pc \in {"call", "bye"} /\ reply = None
      BY <1>1, <1>2, <2>1 DEF Waiting
    <3>2. ~ msg.waits
      BY <1>2, <1>6, <3>1
    <3>3. QED
      BY <1>2, <1>5, <3>1, <3>2
  <2>2. reply' # None => pc \in {"call", "bye"}
    BY <1>1, <1>5, <1>6 DEF Waiting
  <2>3. pc \in {"call", "poll"} => ~ dirty
    BY <1>1 DEF Waiting
  <2>4. QED
    BY <1>0, <2>1, <2>2, <2>3 DEF Waiting
<1>10. ASSUME Listens PROVE Mirrors'
  <2>1. Mirrors /\ (pc # "gone" => connected) /\ Lines(rows)' = Lines(rows)
    BY <1>0, <1>1, <1>10 DEF IInv, Linked, Lines
  <2>2. ASSUME pc \in {"top", "poll", "process"}, panelId # 0
        PROVE  Doomed(panelId)' \/ (panelId \in Ours' /\ (Behind \/ UpToDate(panelId)'))
    <3>1. CASE Doomed(panelId)
      BY <1>4, <3>1
    <3>2. CASE panelId \in Ours /\ (Behind \/ UpToDate(panelId))
      <4>1. \/ Doomed(panelId)'
            \/ /\ panelId \in Ours'
               /\ board'[panelId].body = IF msg.op = "update" /\ msg.id = panelId THEN msg.body
                                         ELSE board[panelId].body
        BY <1>4, <1>10, <2>1, <2>2, <3>2
      <4>2. ASSUME UpToDate(panelId), panelId \in Ours',
                   board'[panelId].body = IF msg.op = "update" /\ msg.id = panelId THEN msg.body
                                          ELSE board[panelId].body
            PROVE  UpToDate(panelId)'
        <5>1. LET last == outbox[Len(outbox)]
              IN  last.op = "update" /\ last.id = panelId /\ last.body = Lines(rows)
          BY <1>0, <4>2 DEF UpToDate
        <5>2. CASE Len(outbox) = 1
          <6>1. board'[panelId].body = Lines(rows)
            BY <1>2, <4>2, <5>1, <5>2
          <6>2. QED
            BY <1>3, <2>1, <5>2, <6>1 DEF UpToDate
        <5>3. CASE Len(outbox) # 1
          BY <1>3, <2>1, <5>1, <5>3 DEF UpToDate
        <5>4. QED
          BY <5>2, <5>3
      <4>3. QED
        BY <3>2, <4>1, <4>2
    <3>3. QED
      BY <2>1, <2>2, <3>1, <3>2 DEF Mirrors
  <2>3. ASSUME Creating, reply' = None
        PROVE  outbox' # << >> /\ LET last == outbox'[Len(outbox')]
                                  IN  last.op = "create" /\ last.body = Lines(rows) /\ last.waits
    <3>1. ~ msg.waits /\ reply = None
      BY <1>5, <2>3 DEF None
    <3>2. LET last == outbox[Len(outbox)]
          IN  last.op = "create" /\ last.body = Lines(rows) /\ last.waits
      BY <2>1, <2>3, <3>1 DEF Mirrors
    <3>3. Len(outbox) # 1
      BY <1>2, <3>1, <3>2
    <3>4. QED
      BY <1>3, <3>2, <3>3
  <2>4. ASSUME Creating, reply' \notin {None, 0}
        PROVE  \/ Doomed(reply)'
               \/ reply' \in Ours' /\ outbox' = << >> /\ board'[reply'].body = Lines(rows)
    <3>1. CASE msg.waits
      <4>1. reply = None /\ Len(outbox) = 1
        BY <1>6, <3>1
      <4>2. msg.op = "create" /\ msg.body = Lines(rows)
        BY <1>2, <2>1, <2>4, <4>1 DEF Mirrors
      <4>3. nextId' # nextId /\ reply' = nextId
        BY <1>5, <2>4, <3>1
      <4>4. QED
        BY <1>3, <1>4, <4>1, <4>2, <4>3
    <3>2. CASE ~ msg.waits
      <4>1. reply' = reply
        BY <1>5, <3>2
      <4>2. Doomed(reply)
        BY <1>0, <2>1, <2>4, <4>1 DEF Mirrors
      <4>3. QED
        BY <1>4, <4>1, <4>2
    <3>3. QED
      BY <3>1, <3>2
  <2>5. Creating' <=> Creating
    BY DEF Creating
  <2>6. QED
    BY <1>0, <2>1, <2>2, <2>3, <2>4, <2>5 DEF Mirrors, Behind
<1>11. QED
  BY <1>7, <1>8, <1>9, <1>10 DEF IInv

----------------------------------------------------------------------------
(* The ticker's steps *)

(* The parts of IInv.                                                      *)
LEMMA TypeOf ==
    ASSUME IInv
    PROVE  /\ Wired /\ Boarded /\ Ticking /\ Waiting /\ Linked /\ Sorted
           /\ Listens => Mirrors
BY TypeParts DEF IInv

(* It goes on, with nothing under way. *)
LEMMA MoveKeeps ==
    ASSUME IInv, UNCHANGED <<daemon, calls, mail, model, panelId>>,
           pc \in {"poll", "process", "top"}, pc' \in {"process", "top", "close"}
    PROVE  IInv'
<1>1. /\ UNCHANGED <<up, board, nextId, connected, outbox, reply, inbox, held, rows, dirty, retry>>
      /\ Wired /\ Boarded /\ Ticking /\ Waiting /\ Linked /\ Sorted /\ (Listens => Mirrors)
  BY TypeOf DEF daemon, calls, mail, model
<1>2. TypeOK'
  <2>1. Wired' /\ Boarded' /\ Ticking'
    BY <1>1 DEF Wired, Boarded, Ticking
  <2>2. QED
    BY <2>1, TypeParts
<1>3. Linked' /\ Sorted' /\ Waiting'
  BY <1>1 DEF Linked, Sorted, Waiting
<1>4. ASSUME Listens PROVE Mirrors'
  <2>1. ~ Creating' /\ Mirrors
    BY <1>1, <1>4 DEF Creating
  <2>2. ASSUME panelId # 0
        PROVE  Doomed(panelId)' \/ (panelId \in Ours' /\ (Behind \/ UpToDate(panelId)'))
    <3>1. Doomed(panelId) \/ (panelId \in Ours /\ (Behind \/ UpToDate(panelId)))
      BY <2>1, <2>2 DEF Mirrors
    <3>2. /\ Doomed(panelId)' = Doomed(panelId) /\ Ours' = Ours
          /\ UpToDate(panelId)' = UpToDate(panelId)
      BY <1>1 DEF Doomed, Ours, UpToDate, Lines
    <3>3. QED
      BY <3>1, <3>2
  <2>3. QED
    BY <1>1, <2>1, <2>2 DEF Mirrors, Behind
<1>5. QED
  BY <1>2, <1>3, <1>4 DEF IInv

(* A command waits behind the signals that came before it.                 *)
LEMMA CommandKeeps ==
    ASSUME IInv, Command
    PROVE  IInv'
<1>1. PICK t \in Texts : inbox' = Append(inbox, Signal("publish", t))
  BY DEF Command
<1>2. /\ UNCHANGED <<up, board, nextId, calls, held, model, panelId, pc>>
      /\ Wired /\ Boarded /\ Linked
  BY TypeOf DEF Command, daemon
<1>3. Signal("publish", t) \in Mail
  BY DEF Signal, Mail
<1>4. /\ inbox \in Seq(Mail) /\ inbox' \in Seq(Mail) /\ Len(inbox') = Len(inbox) + 1
      /\ \A k \in 1 .. Len(inbox) : inbox'[k] = inbox[k]
  BY <1>1, <1>2, <1>3 DEF Linked
<1>5. Len(inbox) <= Len(inbox') /\ \A p : Doomed(p) => Doomed(p)'
  BY <1>4 DEF Doomed
<1>6. Boarded' /\ Ours' = Ours /\ up' \in BOOLEAN
  BY <1>2 DEF Boarded, Ours, Wired
<1>7. QED
  BY <1>2, <1>4, <1>5, <1>6, BoardStep DEF Linked

(* Rows grow older until they are over, all of them alike.                 *)
LEMMA TickKeeps ==
    ASSUME IInv, Tick
    PROVE  IInv'
<1>1. /\ UNCHANGED <<up, board, nextId, connected, outbox, reply, inbox, held, dirty, panelId, pc>>
      /\ Wired /\ Boarded /\ Ticking /\ Waiting /\ Linked /\ Sorted /\ (Listens => Mirrors)
  BY TypeOf DEF Tick, daemon, calls, mail
<1>2. /\ rows \in Seq(Row) /\ Len(rows) \in Nat /\ DOMAIN rows = 1 .. Len(rows)
      /\ Oldest \in Nat
  BY <1>1, OldestType DEF Ticking
<1>3. ASSUME NEW k \in 1 .. Len(rows)
      PROVE  /\ rows'[k] = [rows[k] EXCEPT !.age = Min({rows[k].age + 1, Oldest})]
             /\ rows'[k] \in Row /\ rows'[k].text = rows[k].text /\ rows'[k].count = rows[k].count
             /\ rows[k].age \in Nat
             /\ rows'[k].age = IF rows[k].age + 1 <= Oldest THEN rows[k].age + 1 ELSE Oldest
  <2>0. rows[k] \in Row
    BY <1>2
  <2>1. rows[k] \in Row /\ rows[k].age \in 0 .. Oldest
    BY <2>0 DEF Row
  <2>2. rows'[k] = [rows[k] EXCEPT !.age = Min({rows[k].age + 1, Oldest})]
    BY DEF Tick
  <2>3. Min({rows[k].age + 1, Oldest}) = IF rows[k].age + 1 <= Oldest THEN rows[k].age + 1 ELSE Oldest
    BY <1>2, <2>1, MinOfTwo
  <2>4. Min({rows[k].age + 1, Oldest}) \in 0 .. Oldest
    BY <1>2, <2>1, <2>3
  <2>5. QED
    BY <2>1, <2>2, <2>3, <2>4 DEF Row
<1>4. rows' \in Seq(Row) /\ Len(rows') = Len(rows) /\ DOMAIN rows' = 1 .. Len(rows)
  <2>1. rows' = [k \in 1 .. Len(rows) |-> rows'[k]]
    BY DEF Tick
  <2>2. DOMAIN rows' = 1 .. Len(rows) /\ \A k \in 1 .. Len(rows) : rows'[k] \in Row
    BY <1>3, <2>1
  <2>3. rows' \in Seq(Row)
    BY <1>2, <2>1, <2>2
  <2>4. QED
    BY <1>2, <2>2, <2>3
<1>5. Lines(rows)' = Lines(rows)
  BY <1>3, <1>4 DEF Lines
<1>6. retry' \in 0 .. Retry \cup {Never}
  BY <1>1, ConfigAssumption DEF Tick, Ticking, Never
<1>7. TypeOK'
  <2>1. Wired' /\ Boarded' /\ Ticking'
    BY <1>1, <1>4, <1>6 DEF Wired, Boarded, Ticking
  <2>2. QED
    BY <2>1, TypeParts
<1>8. Sorted'
  <2>1. ASSUME NEW j \in 1 .. Len(rows), NEW k \in 1 .. Len(rows), j <= k
        PROVE  rows'[j].age <= rows'[k].age
    <3>1. rows[j].age <= rows[k].age
      BY <1>1, <1>2, <2>1 DEF Sorted
    <3>2. /\ rows[j].age \in Nat /\ rows[k].age \in Nat
          /\ rows'[j].age = IF rows[j].age + 1 <= Oldest THEN rows[j].age + 1 ELSE Oldest
          /\ rows'[k].age = IF rows[k].age + 1 <= Oldest THEN rows[k].age + 1 ELSE Oldest
      BY <1>3
    <3>3. QED
      BY <1>2, <3>1, <3>2
  <2>2. QED
    BY <1>4, <2>1 DEF Sorted
<1>9. Linked' /\ Waiting'
  BY <1>1 DEF Linked, Waiting
<1>10. ASSUME Listens PROVE Mirrors'
  <2>1. Mirrors
    BY <1>1, <1>10
  <2>2. /\ \A p : Doomed(p)' = Doomed(p) /\ UpToDate(p)' = UpToDate(p)
        /\ Ours' = Ours /\ Creating' = Creating
    BY <1>1, <1>5 DEF Doomed, Ours, UpToDate, Creating
  <2>4. Behind' = Behind
    BY <1>1, ConfigAssumption DEF Tick, Ticking, Behind, Never
  <2>3. QED
    BY <1>1, <1>5, <2>1, <2>2, <2>4 DEF Mirrors
<1>11. QED
  BY <1>7, <1>8, <1>9, <1>10 DEF IInv

(* A call is appended to those under way, none of which is waited for. *)
LEMMA PostKeeps ==
    ASSUME outbox \in Seq(Call), NEW op \in {"create", "update", "dismiss"}, NEW id \in Nat,
           NEW body \in Bodies, NEW waits \in BOOLEAN, Post(op, id, body, waits),
           \A k \in DOMAIN outbox : ~ outbox[k].waits
    PROVE  /\ outbox' \in Seq(Call) /\ outbox' # << >>
           /\ outbox'[Len(outbox')] = [op |-> op, id |-> id, body |-> body, waits |-> waits]
           /\ \A k \in DOMAIN outbox' : outbox'[k].waits => k = Len(outbox') /\ waits
<1> DEFINE m == [op |-> op, id |-> id, body |-> body, waits |-> waits]
<1>1. m \in Call /\ m.waits = waits
  BY DEF Call
<1>2. outbox' = Append(outbox, m)
  BY DEF Post
<1> HIDE DEF m
<1>3. /\ outbox' \in Seq(Call) /\ Len(outbox') = Len(outbox) + 1 /\ Len(outbox) \in Nat
      /\ outbox'[Len(outbox')] = m
      /\ DOMAIN outbox' = 1 .. Len(outbox) + 1
      /\ \A k \in 1 .. Len(outbox) : outbox'[k] = outbox[k] /\ k \in DOMAIN outbox
  BY <1>1, <1>2
<1>4. ASSUME NEW k \in DOMAIN outbox', outbox'[k].waits
      PROVE  k = Len(outbox') /\ waits
  <2>1. k = Len(outbox')
    BY <1>3, <1>4
  <2>2. QED
    BY <1>1, <1>3, <1>4, <2>1
<1>5. QED
  BY <1>3, <1>4 DEF m

(* expire and sync: what is sent is what is left of the rows. *)
LEMMA SyncKeeps ==
    ASSUME IInv, Sync
    PROVE  IInv'
<1>1. /\ UNCHANGED <<up, board, nextId, connected, reply, inbox, held, panelId>>
      /\ Wired /\ Boarded /\ Ticking /\ Waiting /\ Linked /\ Sorted /\ (Listens => Mirrors)
      /\ pc = "top" /\ rows' = Kept /\ dirty' = FALSE
  BY TypeOf DEF Sync, daemon, mail
<1>2. /\ rows' \in Seq(Row) /\ Len(rows') <= History /\ Lines(Kept) \in Bodies
      /\ Lines(rows)' = Lines(Kept)
  <2>1. rows \in Seq(Row) /\ Len(rows) <= History /\ Len(rows) \in Nat /\ History \in Nat
    BY <1>1, ConfigAssumption DEF Ticking
  <2>2. Kept \in Seq(Row) /\ Len(Kept) <= Len(rows) /\ Len(Kept) \in Nat
    BY <1>1, <2>1, KeptFresh
  <2>3. QED
    BY <1>1, <2>1, <2>2, LinesType DEF Lines
<1>3. Sorted'
  BY <1>1, KeptSorted DEF Ticking
<1>4. outbox \in Seq(Call) /\ reply = None /\ \A k \in DOMAIN outbox : ~ outbox[k].waits
  BY <1>1 DEF Waiting, Wired
<1>5. panelId \in Nat /\ Retry \in Nat /\ Boarded' /\ Linked'
  BY <1>1, ConfigAssumption DEF Ticking, Boarded, Linked, Sync, Goto, Leave, Enter, Renew, Nothing
<1>6. ASSUME outbox' \in Seq(Call), retry' \in 0 .. Retry \cup {Never}, pc' \in {"call", "poll"},
             \A k \in DOMAIN outbox' : outbox'[k].waits => k = Len(outbox') /\ pc' = "call",
             Listens => Mirrors'
      PROVE  IInv'
  <2>1. Wired' /\ Ticking'
    BY <1>1, <1>2, <1>6 DEF Wired, Ticking
  <2>2. TypeOK'
    BY <1>5, <2>1, TypeParts
  <2>3. Waiting'
    BY <1>1, <1>4, <1>6 DEF Waiting
  <2>4. QED
    BY <1>3, <1>5, <1>6, <2>2, <2>3 DEF IInv
<1>7. /\ Doomed(panelId)' = Doomed(panelId) /\ Ours' = Ours
  BY <1>1 DEF Doomed, Ours
<1>8. CASE Leave
  <2>1. /\ outbox' \in Seq(Call)
        /\ \A k \in DOMAIN outbox' : outbox'[k].waits => k = Len(outbox')
    <3>1. << >> \in Bodies /\ "dismiss" \in {"create", "update", "dismiss"} /\ TRUE \in BOOLEAN
      BY DEF Bodies
    <3>2. Post("dismiss", panelId, << >>, TRUE)
      BY <1>8 DEF Leave
    <3>3. QED
      BY <1>4, <1>5, <3>1, <3>2, PostKeeps, Zenon
  <2>2. panelId # 0 /\ retry' = Never /\ pc' = "call"
    BY <1>8 DEF Leave, Goto
  <2>3. Mirrors'
    BY <1>1, <2>2 DEF Mirrors, Creating
  <2>4. QED
    BY <1>6, <2>1, <2>2, <2>3
<1>9. CASE Enter
  <2>1. /\ outbox' \in Seq(Call) /\ outbox' # << >>
        /\ outbox'[Len(outbox')] = [op |-> "create", id |-> 0, body |-> Lines(Kept), waits |-> TRUE]
        /\ \A k \in DOMAIN outbox' : outbox'[k].waits => k = Len(outbox')
    <3>1. "create" \in {"create", "update", "dismiss"} /\ TRUE \in BOOLEAN /\ 0 \in Nat
      OBVIOUS
    <3>2. Post("create", 0, Lines(Kept), TRUE)
      BY <1>9 DEF Enter
    <3>3. QED
      BY <1>2, <1>4, <1>5, <3>1, <3>2, PostKeeps, Zenon
  <2>2. panelId = 0 /\ retry' = Retry /\ pc' = "call"
    BY <1>9 DEF Enter, Goto
  <2>3. Mirrors'
    <3>1. LET last == outbox'[Len(outbox')]
          IN  last.op = "create" /\ last.body = Lines(Kept) /\ last.waits
      BY <2>1
    <3>2. QED
      BY <1>1, <1>2, <1>4, <2>1, <2>2, <3>1 DEF Mirrors, Creating
  <2>4. QED
    BY <1>5, <1>6, <2>1, <2>2, <2>3
<1>10. CASE Renew /\ Post("update", panelId, Lines(Kept), FALSE) /\ retry' = Never
  <2>1. /\ outbox' \in Seq(Call) /\ outbox' # << >>
        /\ outbox'[Len(outbox')] =
              [op |-> "update", id |-> panelId, body |-> Lines(Kept), waits |-> FALSE]
        /\ \A k \in DOMAIN outbox' : ~ outbox'[k].waits
    <3>1. "update" \in {"create", "update", "dismiss"} /\ FALSE \in BOOLEAN
      OBVIOUS
    <3>2. Post("update", panelId, Lines(Kept), FALSE)
      BY <1>10
    <3>3. QED
      BY <1>2, <1>4, <1>5, <3>1, <3>2, PostKeeps, Zenon
  <2>2. panelId # 0 /\ retry' = Never /\ pc' = "poll"
    BY <1>10 DEF Renew, Goto
  <2>3. ASSUME Listens PROVE Mirrors'
    <3>1. UpToDate(panelId)'
      BY <1>1, <1>2, <2>1 DEF UpToDate
    <3>2. Doomed(panelId) \/ panelId \in Ours
      BY <1>1, <2>2, <2>3 DEF Mirrors
    <3>3. ~ Creating'
      BY <2>2 DEF Creating
    <3>4. panelId' = panelId
      BY <1>1
    <3>5. Doomed(panelId)' \/ panelId' \in Ours'
      BY <1>7, <3>2, <3>4
    <3>6. QED
      BY <3>1, <3>3, <3>5 DEF Mirrors
  <2>4. QED
    BY <1>6, <2>1, <2>2, <2>3
<1>14. CASE Renew /\ UNCHANGED outbox /\ retry' = Retry
  <2>1. panelId # 0 /\ outbox' = outbox /\ retry' = Retry /\ pc' = "poll"
    BY <1>14 DEF Renew, Goto
  <2>2. ASSUME Listens PROVE Mirrors'
    <3>1. Doomed(panelId) \/ panelId \in Ours
      BY <1>1, <2>1, <2>2 DEF Mirrors
    <3>2. ~ Creating' /\ panelId' = panelId
      BY <1>1, <2>1 DEF Creating
    <3>3. Behind'
      BY <1>5, <2>1 DEF Behind, Never
    <3>4. Doomed(panelId)' \/ panelId' \in Ours'
      BY <1>7, <3>1, <3>2
    <3>5. QED
      BY <3>2, <3>3, <3>4 DEF Mirrors
  <2>3. retry' \in 0 .. Retry \cup {Never}
    BY <1>5, <2>1
  <2>4. QED
    BY <1>4, <1>6, <2>1, <2>2, <2>3
<1>11. CASE Nothing
  <2>1. panelId = 0 /\ outbox' = outbox /\ retry' = Never /\ pc' = "poll"
    BY <1>11 DEF Nothing, Goto
  <2>2. Mirrors'
    BY <1>1, <2>1 DEF Mirrors, Creating
  <2>3. QED
    BY <1>4, <1>6, <2>1, <2>2
<1>12. CASE ~ Wants /\ Goto("poll") /\ UNCHANGED <<outbox, retry>>
  <2>1. rows' = rows /\ ~ dirty /\ pc' = "poll"
    BY <1>1, <1>12 DEF Wants, Goto
  <2>2. ASSUME Listens PROVE Mirrors'
    <3>1. UpToDate(panelId)' = UpToDate(panelId)
      BY <1>1, <1>12, <2>1 DEF UpToDate, Lines
    <3>2. ~ Creating'
      BY <2>1 DEF Creating
    <3>3. panelId # 0 => Doomed(panelId) \/ (panelId \in Ours /\ (Behind \/ UpToDate(panelId)))
      BY <1>1, <2>2 DEF Mirrors
    <3>4. Behind' = Behind
      BY <1>1, <1>12, <2>1 DEF Behind
    <3>5. QED
      BY <1>1, <1>7, <2>1, <3>1, <3>2, <3>3, <3>4 DEF Mirrors
  <2>3. retry \in 0 .. Retry \cup {Never}
    BY <1>1 DEF Ticking
  <2>4. QED
    BY <1>4, <1>6, <1>12, <2>1, <2>2, <2>3
<1>13. QED
  BY <1>8, <1>9, <1>10, <1>11, <1>12, <1>14 DEF Sync, Renew

(* A message is processed: it dooms the panel and the ticker lets go of    *)
(* the id, or what doomed it is still to come.                             *)
LEMMA ReceiveKeeps ==
    ASSUME IInv, Receive
    PROVE  IInv'
<1> DEFINE head == Head(inbox)
<1>1. /\ UNCHANGED <<up, board, nextId, connected, outbox, reply, retry, pc>>
      /\ Wired /\ Boarded /\ Ticking /\ Waiting /\ Linked /\ Sorted /\ (Listens => Mirrors)
      /\ pc = "process" /\ inbox # << >> /\ inbox' = Tail(inbox)
      /\ held' = IF held = 0 THEN 0 ELSE held - 1
  BY TypeOf DEF Receive, daemon, calls
<1>2. /\ inbox \in Seq(Mail) /\ Len(inbox) \in Nat \ {0} /\ head = inbox[1] /\ head \in Mail
      /\ inbox' \in Seq(Mail) /\ Len(inbox') = Len(inbox) - 1
      /\ \A k \in 1 .. Len(inbox) - 1 : inbox'[k] = inbox[k + 1]
  BY <1>1 DEF Linked
<1>3. panelId' = IF Stale(head) THEN 0 ELSE panelId
  BY DEF Receive
<1>4. ASSUME head.kind = "publish", head.arg # Blank
      PROVE  /\ dirty' = TRUE /\ rows' \in Seq(Row) /\ Len(rows') <= History
             /\ \A j, k \in DOMAIN rows' : j <= k => rows'[j].age <= rows'[k].age
  <2>1. rows' = Published(head.arg) /\ dirty' = TRUE
    BY <1>4 DEF Receive, Publish
  <2>2. head.arg \in Texts \ {Blank}
    BY <1>2, <1>4 DEF Mail
  <2>3. rows \in Seq(Row) /\ Len(rows) <= History
    BY <1>1 DEF Ticking
  <2>4. QED
    BY <1>1, <2>1, <2>2, <2>3, PublishedSorted
<1>5. ASSUME ~ (head.kind = "publish" /\ head.arg # Blank)
      PROVE  UNCHANGED <<rows, dirty>>
  BY <1>5 DEF Receive, Publish
<1>6. rows' \in Seq(Row) /\ Len(rows') <= History /\ dirty' \in BOOLEAN
  BY <1>1, <1>4, <1>5 DEF Ticking
<1>7. Sorted'
  BY <1>1, <1>4, <1>5 DEF Sorted
<1>8. held' \in 0 .. Len(inbox') /\ panelId' \in Nat
  BY <1>1, <1>2, <1>3 DEF Wired, Ticking
<1>9. TypeOK'
  <2>1. Wired' /\ Boarded' /\ Ticking'
    BY <1>1, <1>6, <1>8 DEF Wired, Boarded, Ticking
  <2>2. QED
    BY <2>1, TypeParts
<1>10. Linked' /\ Waiting'
  BY <1>1, <1>2 DEF Linked, Waiting
<1>11. ASSUME Listens PROVE Mirrors'
  <2>1. Mirrors /\ ~ Creating'
    BY <1>1, <1>11 DEF Creating
  <2>2. ASSUME panelId' # 0
        PROVE  Doomed(panelId)' \/ (panelId' \in Ours' /\ (Behind' \/ UpToDate(panelId)'))
    <3>1. ~ Stale(head) /\ panelId' = panelId
      BY <1>3, <2>2
    <3>2. Doomed(panelId) \/ (panelId \in Ours /\ (Behind \/ UpToDate(panelId)))
      BY <1>1, <2>1, <2>2, <3>1 DEF Mirrors
    <3>3. CASE Doomed(panelId)
      <4>1. PICK k \in DOMAIN inbox :
               \/ inbox[k].kind = "ownerLost"
               \/ inbox[k].kind = "dismissed" /\ inbox[k].arg = panelId
        BY <3>3 DEF Doomed
      <4>2. k # 1
        BY <1>2, <3>1, <4>1 DEF Stale
      <4>3. k - 1 \in DOMAIN inbox' /\ inbox'[k - 1] = inbox[k]
        BY <1>2, <4>2
      <4>4. QED
        BY <3>1, <4>1, <4>3 DEF Doomed
    <3>4. CASE panelId \in Ours /\ (Behind \/ UpToDate(panelId))
      <4>1. Ours' = Ours
        BY <1>1 DEF Ours
      <4>2. CASE UNCHANGED <<rows, dirty>>
        <5>1. UpToDate(panelId)' = UpToDate(panelId)
          BY <1>1, <3>1, <4>2 DEF UpToDate, Lines
        <5>2. QED
          BY <1>1, <3>1, <3>4, <4>1, <4>2, <5>1 DEF Behind
      <4>3. QED
        BY <1>4, <1>5, <3>1, <3>4, <4>1, <4>2 DEF Behind
    <3>5. QED
      BY <3>2, <3>3, <3>4
  <2>3. QED
    BY <1>1, <2>1, <2>2 DEF Mirrors
<1>12. QED
  BY <1>7, <1>9, <1>10, <1>11 DEF IInv

(* CreatePanel or DismissPanel returns: the id that a create answers is of *)
(* a panel that shows the rows, or of one that is known to be lost.        *)
LEMMA ReturnKeeps ==
    ASSUME IInv, Return
    PROVE  IInv'
<1>1. /\ UNCHANGED <<up, board, nextId, connected, outbox, inbox, held, rows, dirty>>
      /\ Wired /\ Boarded /\ Ticking /\ Waiting /\ Linked /\ Sorted /\ (Listens => Mirrors)
      /\ pc = "call" /\ reply # None /\ reply' = None /\ pc' = "poll"
      /\ panelId' = IF panelId = 0 THEN reply ELSE 0
  BY TypeOf DEF Return, daemon, mail, Goto
<1>2. ~ dirty /\ reply \in Nat /\ \A k \in DOMAIN outbox : ~ outbox[k].waits
  BY <1>1 DEF Waiting, Wired
<1>3. retry' \in 0 .. Retry \cup {Never} /\ panelId' \in Nat
  BY <1>1, <1>2 DEF Return, Ticking
<1>4. TypeOK'
  <2>1. Wired' /\ Boarded' /\ Ticking'
    BY <1>1, <1>3 DEF Wired, Boarded, Ticking
  <2>2. QED
    BY <2>1, TypeParts
<1>5. Linked' /\ Sorted' /\ Waiting'
  BY <1>1, <1>2 DEF Linked, Sorted, Waiting
<1>6. ASSUME Listens PROVE Mirrors'
  <2>1. Mirrors /\ ~ Creating'
    BY <1>1, <1>6 DEF Creating
  <2>2. ASSUME panelId' # 0
        PROVE  Doomed(panelId)' \/ (panelId' \in Ours' /\ (Behind' \/ UpToDate(panelId)'))
    <3>1. Creating /\ reply \notin {None, 0} /\ panelId' = reply
      BY <1>1, <2>2 DEF Creating
    <3>2. Doomed(reply) \/ (reply \in Ours /\ outbox = << >> /\ board[reply].body = Lines(rows))
      BY <2>1, <3>1 DEF Mirrors
    <3>3. Doomed(panelId)' = Doomed(reply) /\ Ours' = Ours
      BY <1>1, <3>1 DEF Doomed, Ours
    <3>4. outbox = << >> /\ board[reply].body = Lines(rows) => UpToDate(panelId)'
      BY <1>1, <3>1 DEF UpToDate, Lines
    <3>5. QED
      BY <3>1, <3>2, <3>3, <3>4
  <2>3. QED
    BY <1>1, <2>1, <2>2 DEF Mirrors
<1>7. QED
  BY <1>4, <1>5, <1>6 DEF IInv

(* The connection is closed; nothing is promised of the panel any more.    *)
LEMMA HangUpKeeps ==
    ASSUME IInv, HangUp, pc' = "gone", UNCHANGED <<daemon, model, panelId>>
    PROVE  IInv'
<1>1. /\ UNCHANGED <<up, board, nextId, rows, dirty, retry, panelId>>
      /\ Wired /\ Boarded /\ Ticking /\ Waiting /\ Linked /\ Sorted
      /\ connected' = FALSE /\ reply' = None /\ inbox' = << >> /\ held' = 0
  BY TypeOf DEF HangUp, daemon, model
<1>2. outbox' \in Seq(Call) /\ \A k \in DOMAIN outbox' : ~ outbox'[k].waits
  <2> DEFINE freed == [k \in 1 .. Len(outbox) |-> [outbox[k] EXCEPT !.waits = FALSE]]
  <2>1. outbox \in Seq(Call) /\ Len(outbox) \in Nat /\ \A k \in 1 .. Len(outbox) : outbox[k] \in Call
    BY <1>1 DEF Wired
  <2>2. \A k \in 1 .. Len(outbox) : freed[k] \in Call /\ ~ freed[k].waits
    BY <2>1 DEF Call
  <2>3. freed \in Seq(Call) /\ DOMAIN freed = 1 .. Len(outbox)
    BY <2>1, <2>2
  <2>4. outbox' = freed \/ outbox' = << >>
    BY DEF HangUp
  <2> HIDE DEF freed
  <2>5. CASE outbox' = freed
    <3>1. \A k \in DOMAIN freed : ~ freed[k].waits
      BY <2>2, <2>3
    <3>2. QED
      BY <2>3, <2>5, <3>1, Zenon
  <2>6. CASE outbox' = << >>
    BY <2>6
  <2>7. QED
    BY <2>4, <2>5, <2>6
<1>3. inbox' \in Seq(Mail) /\ held' \in 0 .. Len(inbox')
  BY <1>1
<1>4. TypeOK'
  <2>1. Wired' /\ Boarded' /\ Ticking'
    BY <1>1, <1>2, <1>3 DEF Wired, Boarded, Ticking, None
  <2>2. QED
    BY <2>1, TypeParts
<1>5. Linked' /\ Sorted' /\ Waiting'
  BY <1>1, <1>2, <1>3 DEF Linked, Sorted, Waiting
<1>6. Mirrors'
  BY DEF Mirrors, Creating
<1>7. QED
  BY <1>4, <1>5, <1>6 DEF IInv

(* ~CCmdLogClient: a last dismissal, if there is a panel.                  *)
LEMMA CloseKeeps ==
    ASSUME IInv, Close
    PROVE  IInv'
<1>1. CASE panelId = 0 /\ HangUp /\ Goto("gone")
  <2>1. pc' = "gone" /\ UNCHANGED <<daemon, model, panelId>>
    BY <1>1 DEF Close, Goto
  <2>2. QED
    BY <1>1, <2>1, HangUpKeeps
<1>2. ASSUME panelId # 0, Post("dismiss", panelId, << >>, TRUE), Goto("bye"),
             UNCHANGED <<connected, reply, mail>>
      PROVE  IInv'
  <2>1. /\ UNCHANGED <<up, board, nextId, connected, reply, inbox, held, rows, dirty, retry, panelId>>
        /\ Wired /\ Boarded /\ Ticking /\ Waiting /\ Linked /\ Sorted
        /\ pc = "close" /\ pc' = "bye"
    BY <1>2, TypeOf DEF Close, daemon, model, mail, Goto
  <2>2. /\ outbox \in Seq(Call) /\ reply = None /\ panelId \in Nat
        /\ \A k \in DOMAIN outbox : ~ outbox[k].waits
    BY <2>1 DEF Waiting, Wired, Ticking
  <2>3. /\ outbox' \in Seq(Call)
        /\ \A k \in DOMAIN outbox' : outbox'[k].waits => k = Len(outbox')
    <3>1. << >> \in Bodies /\ "dismiss" \in {"create", "update", "dismiss"} /\ TRUE \in BOOLEAN
      BY DEF Bodies
    <3>2. QED
      BY <1>2, <2>2, <3>1, PostKeeps, Zenon
  <2>4. TypeOK'
    <3>1. Wired' /\ Boarded' /\ Ticking'
      BY <2>1, <2>3 DEF Wired, Boarded, Ticking
    <3>2. QED
      BY <3>1, TypeParts
  <2>5. Linked' /\ Sorted' /\ Waiting'
    BY <2>1, <2>2, <2>3 DEF Linked, Sorted, Waiting
  <2>6. Mirrors'
    BY <2>1 DEF Mirrors, Creating
  <2>7. QED
    BY <2>4, <2>5, <2>6 DEF IInv
<1>3. QED
  BY <1>1, <1>2 DEF Close

(* Each of the steps of Next keeps the invariant. *)
LEMMA StepKeeps ==
    ASSUME IInv, Next
    PROVE  IInv'
<1>1. CASE Loop
  <2>1. CASE Sync
    BY <2>1, SyncKeeps
  <2>2. CASE Return
    BY <2>2, ReturnKeeps
  <2>3. CASE Wake
    BY <2>3, MoveKeeps DEF Wake, Goto
  <2>4. CASE Receive
    BY <2>4, ReceiveKeeps
  <2>5. CASE Drained
    BY <2>5, MoveKeeps DEF Drained, Goto
  <2>6. CASE Close
    BY <2>6, CloseKeeps
  <2>7. CASE Bye
    BY <2>7, HangUpKeeps DEF Bye, Goto
  <2>8. QED
    BY <1>1, <2>1, <2>2, <2>3, <2>4, <2>5, <2>6, <2>7 DEF Loop
<1>2. CASE Stop
  BY <1>2, MoveKeeps DEF Stop, Goto
<1>3. CASE Crash
  BY <1>3, HangUpKeeps DEF Crash, Goto
<1>4. CASE Command
  BY <1>4, CommandKeeps
<1>5. CASE Tick
  BY <1>5, TickKeeps
<1>6. CASE Served
  BY <1>6, ServeKeeps DEF Served
<1>7. CASE Swept
  BY <1>7, RivalKeeps DEF Swept
<1>8. CASE Started
  BY <1>8, StartKeeps, TroubleKeeps DEF Started
<1>9. CASE Troubles
  BY <1>9, RivalKeeps, TroubleKeeps DEF Troubles
<1>10. CASE Withdrawn
  BY <1>10, RivalKeeps DEF Withdrawn
<1>11. QED
  BY <1>1, <1>2, <1>3, <1>4, <1>5, <1>6, <1>7, <1>8, <1>9, <1>10 DEF Next

(* It holds at the start: nothing is shown, nothing is under way. *)
LEMMA InitHolds ==
    ASSUME Init
    PROVE  IInv
<1>1. /\ up = TRUE /\ board = << >> /\ nextId = 1
      /\ connected = TRUE /\ outbox = << >> /\ reply = None
      /\ inbox = << >> /\ held = 0
      /\ rows = << >> /\ dirty = FALSE /\ retry = Never /\ panelId = 0 /\ pc = "top"
  BY DEF Init, BoardInit
<1>2. TypeOK
  <2>1. Wired
    BY <1>1 DEF Wired
  <2>2. Boarded
    <3>1. DOMAIN board = {} /\ board \in [{} -> Panel]
      BY <1>1
    <3>2. QED
      BY <1>1, <3>1 DEF Boarded
  <2>3. Ticking
    <3>1. << >> \in Seq(Row) /\ Len(<< >>) <= History
      BY ConfigAssumption
    <3>2. rows \in Seq(Row) /\ Len(rows) <= History
      BY <1>1, <3>1, Zenon
    <3>3. /\ dirty \in BOOLEAN /\ retry \in {Never} /\ panelId \in Nat /\ pc = "top"
      BY <1>1
    <3>4. QED
      BY <3>2, <3>3 DEF Ticking
  <2>4. QED
    BY <2>1, <2>2, <2>3, TypeParts
<1>3. Linked /\ Sorted /\ Waiting
  BY <1>1 DEF Linked, Sorted, Waiting
<1>4. Mirrors
  BY <1>1 DEF Mirrors, Creating
<1>5. QED
  BY <1>2, <1>3, <1>4 DEF IInv

(* A step that changes nothing keeps it, too. *)
LEMMA Stutters ==
    ASSUME IInv, UNCHANGED vars
    PROVE  IInv'
<1>1. /\ UNCHANGED <<up, board, nextId, connected, outbox, reply, inbox, held>>
      /\ UNCHANGED <<rows, dirty, retry, panelId, pc>>
  BY DEF vars, daemon, calls, mail, model
<1>2. TypeOK' = TypeOK
  BY <1>1 DEF TypeOK, BoardTypeOK
<1>3. Linked' = Linked /\ Sorted' = Sorted /\ Waiting' = Waiting
  BY <1>1 DEF Linked, Sorted, Waiting
<1>4. Mirrors' = Mirrors
  BY <1>1 DEF Mirrors, Behind, Doomed, UpToDate, Creating, Ours, Lines
<1>5. QED
  BY <1>2, <1>3, <1>4 DEF IInv

(* The invariant holds throughout.                                         *)
LEMMA Invariance == Spec => []IInv
<1>1. Init => IInv
  BY InitHolds
<1>2. IInv /\ [Next]_vars => IInv'
  BY StepKeeps, Stutters
<1>3. QED
  BY <1>1, <1>2, PTL DEF Spec

----------------------------------------------------------------------------
(* The variables stay in their types, whatever the producer, its rival and *)
(* the daemon do.                                                          *)
THEOREM TypeCorrect == Spec => []TypeOK
<1>1. IInv => TypeOK
  BY DEF IInv
<1>2. QED
  BY <1>1, Invariance, PTL

(* What expire leaves is fresh: expire looks for the first fresh row from  *)
(* the back and stops there (CmdLogModel.cpp:107), which is enough since a *)
(* repeat renews the newest row alone, so the rows stay ordered by age.    *)
THEOREM RowsAreFresh == Spec => NothingOverdue
<1>1. ASSUME IInv, Sync PROVE \A k \in 1 .. Len(rows') : rows'[k].age < Ttl
  <2>1. rows \in Seq(Row) /\ Sorted /\ rows' = Kept
    BY <1>1, TypeOf DEF Sync, Ticking
  <2>2. QED
    BY <2>1, KeptFresh
<1>2. IInv /\ [Next]_vars => [Sync => \A k \in 1 .. Len(rows') : rows'[k].age < Ttl]_vars
  BY <1>1
<1>3. QED
  BY <1>2, Invariance, PTL DEF Spec, NothingOverdue

(* A ticker that has asked for the daemon's signals is never wrong about   *)
(* its panel when nothing is under way: the id that it knows is its own    *)
(* and shows its rows, however calls failed, timed out or were handled     *)
(* late, and however often the daemon was restarted.                       *)
THEOREM PanelIsKnown ==
    ASSUME Listens
    PROVE  Spec => []KnownIsTrue
<1>1. ASSUME IInv PROVE KnownIsTrue
  <2>1. SUFFICES ASSUME Quiet, panelId # 0
                 PROVE  panelId \in Ours /\ (board[panelId].body = Lines(rows) \/ retry # Never)
    BY DEF KnownIsTrue
  <2>2. Mirrors /\ Waiting
    BY <1>1, TypeOf
  <2>3. pc = "poll" /\ inbox = << >> /\ outbox = << >>
    BY <2>1 DEF Quiet
  <2>4. ~ dirty /\ ~ Doomed(panelId)
    BY <2>2, <2>3 DEF Waiting, Doomed
  <2>5. panelId \in Ours /\ (Behind \/ UpToDate(panelId))
    BY <2>1, <2>2, <2>3, <2>4 DEF Mirrors
  <2>6. QED
    BY <2>3, <2>4, <2>5 DEF UpToDate, Behind
<1>2. QED
  BY <1>1, Invariance, PTL
=============================================================================
