------------------------------- MODULE Board -------------------------------
(***************************************************************************)
(* The daemon as a producer meets it over D-Bus (the handlers of           *)
(* src/src/Dbus.cpp over the scene): the panels on the board, the calls    *)
(* under way to the daemon and the signals under way back.  A producer     *)
(* ("us") competes with a rival for one singleton slot whose policy is the *)
(* default, refuse; its panels persist, so nothing of its own expires.     *)
(*                                                                         *)
(* Calls and signals keep their order.  A call that times out is not taken *)
(* back: the daemon handles it later.  A call made while the daemon is     *)
(* down waits for D-Bus activation to start it.                            *)
(***************************************************************************)
EXTENDS Integers, Sequences, FiniteSets, SequencesExt

CONSTANTS
    Cap,         \* panels one client may own
    Listens      \* whether the producer has asked for the daemon's signals

ASSUME BoardAssumption == Cap \in Nat /\ Listens \in BOOLEAN

VARIABLES
    up, board, nextId,      \* the daemon and the panels on its board
    connected, outbox, reply, inbox, held      \* the producer's connection

daemon == <<up, board, nextId>>
calls  == <<connected, outbox, reply>>
mail   == <<inbox, held>>

None == -1      \* no reply yet; 0 is an error

Signal(kind, arg) == [kind |-> kind, arg |-> arg]

BoardTypeOK(Bodies) ==
    /\ up \in BOOLEAN /\ nextId \in Nat \ {0}
    /\ DOMAIN board \subseteq 1 .. nextId - 1
    /\ board \in [DOMAIN board -> [owner : {"us", "rival"}, slot : BOOLEAN,
                                   urgency : {1, 2}, body : Bodies]]
    /\ outbox \in Seq([op : {"create", "toast", "update", "dismiss"}, id : Nat, body : Bodies,
                       waits : BOOLEAN])
    /\ connected \in BOOLEAN
    /\ reply \in Nat \cup {None}
    /\ held \in 0 .. Len(inbox)

BoardInit ==
    /\ up = TRUE /\ board = << >> /\ nextId = 1
    /\ connected = TRUE /\ outbox = << >> /\ reply = None
    /\ inbox = << >> /\ held = 0

----------------------------------------------------------------------------
(* The producer's connection *)

Post(op, id, body, waits) ==
    outbox' = Append(outbox, [op |-> op, id |-> id, body |-> body, waits |-> waits])

Awaited == outbox # << >> /\ outbox[Len(outbox)].waits

(* The connection is closed.  A running daemon handles what was sent; what *)
(* waits for one is dropped.                                               *)
HangUp ==
    /\ connected' = FALSE /\ reply' = None /\ inbox' = << >> /\ held' = 0
    /\ outbox' = IF up THEN [k \in 1 .. Len(outbox) |-> [outbox[k] EXCEPT !.waits = FALSE]]
                 ELSE << >>

(* sd_bus_call sets aside the signals it reads before the reply, in        *)
(* sd-bus's own queue: they make the bus's timeout 0, not its fd readable. *)
Readable == Len(inbox) > held

MutTimeoutZero == FALSE      \* waits on the fd alone
TimeoutZero == held > 0

----------------------------------------------------------------------------
(* The daemon *)

Ours   == {i \in DOMAIN board : board[i].owner = "us"}
Holder == {i \in DOMAIN board : board[i].slot}

Outweighed(urgency) == \E i \in Holder : urgency < board[i].urgency

Capped == Cardinality(Ours) >= Cap

Signals(S) == IF connected /\ Listens THEN inbox \o SetToSeq(S) ELSE inbox

Announce(S) == inbox' = Signals({Signal("dismissed", i) : i \in S})

Issued == nextId + 1

(* A new panel, in the place of those in S *)
Put(owner, slot, urgency, body, S) ==
    /\ board' = [i \in (DOMAIN board \ S) \cup {nextId} |->
                    IF i = nextId
                    THEN [owner |-> owner, slot |-> slot, urgency |-> urgency, body |-> body]
                    ELSE board[i]]
    /\ nextId' = Issued
    /\ Announce(S)

Take(S) ==
    /\ board' = [i \in DOMAIN board \ S |-> board[i]]
    /\ UNCHANGED nextId
    /\ Announce(S)

Keep == UNCHANGED <<board, nextId, inbox>>

CreatePanel(msg) ==
    IF Capped \/ Outweighed(1) THEN Keep ELSE Put("us", TRUE, 1, msg.body, Holder)

(* A toast goes to another slot, a stack, and expires.                     *)
CreateToast(msg) == IF Capped THEN Keep ELSE Put("us", FALSE, 2, msg.body, {})

(* An unknown id is "a best-effort create (lossy transport)", into the     *)
(* default slot, for an update names none; and nobody is told the new id.  *)
UpdatePanel(msg) ==
    \/ /\ msg.id \in Ours
       /\ board' = [board EXCEPT ![msg.id].body = msg.body]
       /\ UNCHANGED <<nextId, inbox>>
    \/ /\ msg.id \in DOMAIN board \ Ours
       /\ Keep
    \/ /\ msg.id \notin DOMAIN board
       /\ IF Capped THEN Keep ELSE Put("us", FALSE, 1, msg.body, {})

DismissPanel(msg) == IF msg.id \in Ours THEN Take({msg.id}) ELSE Keep

Handle(msg) ==
    \/ msg.op = "create" /\ CreatePanel(msg)
    \/ msg.op = "toast" /\ CreateToast(msg)
    \/ msg.op = "update" /\ UpdatePanel(msg)
    \/ msg.op = "dismiss" /\ DismissPanel(msg)

(* The next message; a caller that waits gets the new panel's id or 0 *)
Serve ==
    /\ up /\ outbox # << >>
    /\ Handle(Head(outbox))
    /\ outbox' = Tail(outbox)
    /\ IF Head(outbox).waits
       THEN reply' = (IF nextId' # nextId THEN nextId ELSE 0) /\ held' = Len(inbox')
       ELSE UNCHANGED <<reply, held>>
    /\ UNCHANGED <<up, connected>>

RivalCreates(urgency, body) ==
    /\ up /\ ~ Outweighed(urgency)
    /\ Put("rival", TRUE, urgency, body, Holder)
    /\ UNCHANGED <<up, calls, held>>

RivalLeaves ==
    /\ up /\ Holder # {} /\ Holder \cap Ours = {}
    /\ Take(Holder)
    /\ UNCHANGED <<up, calls, held>>

Toasts == {i \in Ours : ~ board[i].slot /\ board[i].urgency = 2}

Expire ==      \* the reaper
    /\ up
    /\ \E i \in Toasts : Take({i})
    /\ UNCHANGED <<up, calls, held>>

Abandoned == Ours

(* onNameOwnerChanged: our connection has closed; what it sent was handled *)
(* before.                                                                 *)
ProducerGone ==
    /\ up /\ ~ connected /\ outbox = << >> /\ Abandoned # {}
    /\ Take(Abandoned)
    /\ UNCHANGED <<up, calls, held>>

(* A call that fails: how much the caller read meanwhile is open.  `left`  *)
(* is what becomes of the messages under way.                              *)
Fails(left) ==
    /\ outbox' = left /\ UNCHANGED connected
    /\ IF Awaited THEN reply' = 0 /\ held' \in held .. Len(inbox')
       ELSE UNCHANGED <<reply, held>>

(* The daemon exits, or is killed, and the broker tells us. *)
Exit ==
    /\ up
    /\ up' = FALSE /\ board' = << >> /\ nextId' = 1
    /\ inbox' = Signals({Signal("ownerLost", 0)})
    /\ Fails(<< >>)

(* D-Bus starts it for a message, or the user does *)
Start ==
    /\ ~ up
    /\ up' = TRUE
    /\ UNCHANGED <<board, nextId, calls, mail>>

ActivationFails ==
    /\ ~ up /\ outbox # << >>
    /\ UNCHANGED <<daemon, inbox>>
    /\ Fails(<< >>)

(* 25 s without a reply *)
TimesOut ==
    /\ Awaited
    /\ UNCHANGED <<daemon, inbox>>
    /\ Fails([outbox EXCEPT ![Len(outbox)].waits = FALSE])
=============================================================================
