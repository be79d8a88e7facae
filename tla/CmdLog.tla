------------------------------- MODULE CmdLog -------------------------------
(***************************************************************************)
(* hypxrhud-cmdlog (src/src/cmdlog): the command ticker.  It takes command *)
(* lines over D-Bus, keeps the last few for a while and mirrors them into  *)
(* one panel: created with the first row, updated without waiting for an   *)
(* answer, dismissed with the last.                                        *)
(*                                                                         *)
(* Time is what is left of it: the age of a row, and the time to the next  *)
(* try.  A row's text stands for the sanitised command line.               *)
(***************************************************************************)
EXTENDS Board

CONSTANTS
    Texts,       \* command lines
    Blank,       \* the one that sanitises to nothing
    History,     \* rows shown at most
    Ttl,         \* how long a row lives
    Coalesce,    \* a repeat within this time counts up; 0 for never
    Retry        \* from a failed try to the next

ASSUME ConfigAssumption ==
    /\ Blank \in Texts
    /\ History \in Nat \ {0} /\ Ttl \in Nat \ {0}
    /\ Coalesce \in Nat /\ Retry \in Nat \ {0}

VARIABLES
    rows, dirty,
    retry,       \* time to the next try, Never if none is due
    panelId,
    pc           \* where main's loop is

model == <<rows, dirty, retry>>
vars  == <<daemon, calls, mail, model, panelId, pc>>

Never == -1

(* Ages are told apart up to the later of the two windows *)
Oldest == Max({Ttl, Coalesce + 1})

Row == [text : Texts \ {Blank}, count : Nat \ {0}, age : 0 .. Oldest]

(* lines(): what of the rows can be seen *)
Lines(r) == [k \in 1 .. Len(r) |-> [text |-> r[k].text, count |-> r[k].count]]

TypeOK ==
    /\ BoardTypeOK(Seq([text : Texts \ {Blank}, count : Nat \ {0}]))
    /\ rows \in Seq(Row) /\ Len(rows) <= History
    /\ dirty \in BOOLEAN /\ retry \in 0 .. Retry \cup {Never}
    /\ panelId \in Nat
    /\ pc \in {"top", "call", "poll", "process", "close", "bye", "gone"}

Init ==
    /\ BoardInit
    /\ rows = << >> /\ dirty = FALSE /\ retry = Never
    /\ panelId = 0 /\ pc = "top"

----------------------------------------------------------------------------
(* CCmdLogModel *)

Repeats(t) ==
    Coalesce > 0 /\ rows # << >> /\ Head(rows).text = t /\ Head(rows).age <= Coalesce

Pushed(t) ==
    LET r == <<[text |-> t, count |-> 1, age |-> 0]>> \o rows
    IN  SubSeq(r, 1, Min({Len(r), History}))

MutPublished(t) ==      \* a repeat of any row, not of the newest alone, renews it
    IF \A k \in DOMAIN rows : rows[k].text # t THEN Pushed(t)
    ELSE [k \in DOMAIN rows |-> IF rows[k].text # t THEN rows[k]
                                ELSE [text |-> t, count |-> rows[k].count + 1, age |-> 0]]

Published(t) ==
    IF ~ Repeats(t) THEN Pushed(t)
    ELSE <<[text |-> t, count |-> Head(rows).count + 1, age |-> 0]>> \o Tail(rows)

(* expire: rows go from the back, the first that is fresh stops it *)
Kept == SubSeq(rows, 1, Max({0} \cup {k \in DOMAIN rows : rows[k].age < Ttl}))

Expires == \E k \in DOMAIN rows : rows[k].age >= Ttl

----------------------------------------------------------------------------
(* main's loop *)

Goto(place) == pc' = place

Wants == dirty \/ Kept # rows \/ retry = 0

(* expire, and sync: one of the first three, by what there is to show *)
Leave ==
    /\ panelId # 0 /\ Kept = << >>
    /\ Post("dismiss", panelId, << >>, TRUE)
    /\ retry' = Never /\ Goto("call")

Enter ==
    /\ panelId = 0 /\ Kept # << >>
    /\ Post("create", 0, Lines(Kept), TRUE)
    /\ retry' = Retry /\ Goto("call")

Renew ==      \* sd_bus_send may fail
    /\ panelId # 0 /\ Kept # << >>
    /\ \/ Post("update", panelId, Lines(Kept), FALSE) /\ retry' = Never
       \/ UNCHANGED outbox /\ retry' = Retry
    /\ Goto("poll")

Nothing ==
    /\ panelId = 0 /\ Kept = << >>
    /\ UNCHANGED outbox
    /\ retry' = Never /\ Goto("poll")

Sync ==
    /\ pc = "top"
    /\ rows' = Kept /\ dirty' = FALSE
    /\ \/ Wants /\ (Leave \/ Enter \/ Renew \/ Nothing)
       \/ ~ Wants /\ Goto("poll") /\ UNCHANGED <<outbox, retry>>
    /\ UNCHANGED <<daemon, connected, reply, mail, panelId>>

(* CreatePanel or DismissPanel has returned; whatever came of a dismissal, *)
(* the id is dropped, and a failed create is tried again `Retry` after the *)
(* loop began it.                                                          *)
Return ==
    /\ pc = "call" /\ reply # None
    /\ panelId' = (IF panelId = 0 THEN reply ELSE 0)
    /\ retry' = (IF panelId' # 0 THEN Never ELSE retry)
    /\ reply' = None /\ Goto("poll")
    /\ UNCHANGED <<daemon, connected, outbox, mail, rows, dirty>>

MutDue == retry = 0      \* does not wake for what expires

Due == Expires \/ retry = 0

Wake ==
    /\ pc = "poll"
    /\ Readable \/ TimeoutZero \/ Due
    /\ Goto("process")
    /\ UNCHANGED <<daemon, calls, mail, model, panelId>>

(* onPublish, onPanelDismissed, onNameOwnerChanged *)
Publish(t) ==
    IF t = Blank THEN UNCHANGED <<rows, dirty>>
    ELSE rows' = Published(t) /\ dirty' = TRUE

MutStale(message) == message.kind = "dismissed" /\ message.arg = panelId      \* misses a restart

Stale(message) ==
    message.kind = "ownerLost" \/ (message.kind = "dismissed" /\ message.arg = panelId)

Receive ==
    /\ pc = "process" /\ inbox # << >>
    /\ inbox' = Tail(inbox) /\ held' = (IF held = 0 THEN 0 ELSE held - 1)
    /\ IF Head(inbox).kind = "publish" THEN Publish(Head(inbox).arg)
       ELSE UNCHANGED <<rows, dirty>>
    /\ panelId' = (IF Stale(Head(inbox)) THEN 0 ELSE panelId)
    /\ UNCHANGED <<daemon, calls, retry, pc>>

Drained ==
    /\ pc = "process" /\ inbox = << >>
    /\ Goto("top")
    /\ UNCHANGED <<daemon, calls, mail, model, panelId>>

(* A signal to stop, or the bus is lost: ~CCmdLogClient dismisses *)
Stop ==
    /\ pc = "top"
    /\ Goto("close")
    /\ UNCHANGED <<daemon, calls, mail, model, panelId>>

Close ==
    /\ pc = "close"
    /\ \/ panelId # 0 /\ Post("dismiss", panelId, << >>, TRUE) /\ Goto("bye")
          /\ UNCHANGED <<connected, reply, mail>>
       \/ panelId = 0 /\ HangUp /\ Goto("gone")
    /\ UNCHANGED <<daemon, model, panelId>>

Bye ==
    /\ pc = "bye" /\ reply # None
    /\ HangUp /\ Goto("gone")
    /\ UNCHANGED <<daemon, model, panelId>>

Crash ==
    /\ pc # "gone"
    /\ HangUp /\ Goto("gone")
    /\ UNCHANGED <<daemon, model, panelId>>

Loop == Sync \/ Return \/ Wake \/ Receive \/ Drained \/ Close \/ Bye

----------------------------------------------------------------------------
(* Around it *)

(* The shim publishes and does not wait *)
Command ==
    /\ connected
    /\ \E t \in Texts : inbox' = Append(inbox, Signal("publish", t))
    /\ UNCHANGED <<daemon, calls, held, model, panelId, pc>>

Tick ==
    /\ rows' = [k \in 1 .. Len(rows) |->
                   [rows[k] EXCEPT !.age = Min({@ + 1, Oldest})]]
    /\ retry' = (IF retry \in {0, Never} THEN retry ELSE retry - 1)
    /\ UNCHANGED <<daemon, calls, mail, dirty, panelId, pc>>

Served == Serve /\ UNCHANGED <<model, panelId, pc>>

Swept == ProducerGone /\ UNCHANGED <<model, panelId, pc>>

Started == (Start \/ ActivationFails) /\ UNCHANGED <<model, panelId, pc>>

Troubles ==
    /\ \/ \E urgency \in {1, 2} : RivalCreates(urgency, << >>)
       \/ Exit
       \/ TimesOut
    /\ UNCHANGED <<model, panelId, pc>>

Withdrawn == RivalLeaves /\ UNCHANGED <<model, panelId, pc>>

Next ==
    \/ Loop \/ Stop \/ Crash \/ Command \/ Tick
    \/ Served \/ Swept \/ Started \/ Troubles \/ Withdrawn

(* The loop goes on, time passes, the daemon handles its messages, and a   *)
(* message for a daemon that is down has D-Bus start it, or give up.       *)
Fairness ==
    /\ WF_vars(Loop) /\ WF_vars(Tick)
    /\ WF_vars(Served) /\ WF_vars(Swept) /\ WF_vars(Started /\ outbox # << >>)

Spec == Init /\ [][Next]_vars /\ Fairness

----------------------------------------------------------------------------
(* Properties *)

Quiet == pc = "poll" /\ inbox = << >> /\ outbox = << >>

(* When nothing is under way, the panel that the ticker takes for its own  *)
(* is, and shows the rows, unless an update could not be sent, which is    *)
(* then due again: no lost, failed or reordered message leaves it with an  *)
(* old row or a foreign id.                                                *)
KnownIsTrue ==
    Quiet /\ panelId # 0 =>
        panelId \in Ours /\ (board[panelId].body = Lines(rows) \/ retry # Never)

(* What is sent to the screen holds no row that is past its time, however  *)
(* repeats have changed the order of the rows' ages (expire stops at the   *)
(* first fresh row, CmdLogModel.cpp:107).                                  *)
NothingOverdue ==
    [][Sync => \A k \in 1 .. Len(rows') : rows'[k].age < Ttl]_vars

(* The ticker falls silent: once nobody types, the rows expire and it lets *)
(* go of its panel, without a further message to wake it.                  *)
FallsSilent == rows # << >> ~> (rows = << >> /\ panelId = 0) \/ pc = "gone"

(* Every command and signal is processed, also one that was read while a   *)
(* call waited and will never make the fd readable.                        *)
MailIsRead == inbox # << >> ~> inbox = << >>

(* "When the last row ages out, the panel is dismissed, not blanked: an    *)
(* idle session carries no ticker quad at all" (docs/cmd-ticker.md:19).    *)
IdleCarriesNoQuad == Quiet /\ rows = << >> => Ours = {}
=============================================================================
