------------------------------ MODULE Battery ------------------------------
(***************************************************************************)
(* hypxrhud-battery (src/src/battery): it reads the headset's and the      *)
(* laptop's battery, now and then and when told of a change, mirrors them  *)
(* into one panel and warns once of each that runs low.  It does not       *)
(* listen to the daemon: an id it was given it keeps.                      *)
(*                                                                         *)
(* A reading is a percentage, rounded, and whether the source charges; or  *)
(* it is Absent.  It is put together from several property calls, each of  *)
(* which may fail, and between which the battery may change.  Time is what *)
(* is left: to the next poll, and to the end of poll().                    *)
(***************************************************************************)
EXTENDS Board

Sources == {"headset", "laptop"}

CONSTANTS
    Shown,                   \* the sources shown: showHeadset, showLaptop
    Percents,                \* percentages, rounded
    Warnings,                \* cfg.toasts
    LowThreshold, LowHysteresis,
    Answers,                 \* what a property call may come to: TRUE, or FALSE if it fails
    PollInterval,            \* from a poll to the next
    Retry                    \* from a failed create to the next try

ASSUME ConfigAssumption ==
    /\ Shown \subseteq Sources /\ Percents \subseteq Nat
    /\ Warnings \in BOOLEAN /\ LowThreshold \in Nat /\ LowHysteresis \in Nat
    /\ Answers \subseteq BOOLEAN /\ TRUE \in Answers
    /\ PollInterval \in Nat \ {0} /\ Retry \in Nat \ {0}

VARIABLES
    source,                 \* the batteries
    reading,                \* what this pass has read of them
    armed,                  \* SLatch
    lastSent, haveSent,
    nextPoll, deadline, dirty,
    panelId,
    pc,
    warned,                 \* ghost: a warning was given in this discharge cycle
    owes                    \* ghost: how long the first create, having failed, was slept on

batteries == <<source, warned>>
clock     == <<nextPoll, deadline, owes>>
sent      == <<lastSent, haveSent>>
vars == <<daemon, calls, mail, batteries, reading, armed, sent, clock, dirty, panelId, pc>>

Never == -1

Absent == [percent |-> -1, charging |-> FALSE]

Reading == [percent : Percents, charging : BOOLEAN] \cup {Absent}

Gauge == [source : Sources, percent : Percents, charging : BOOLEAN]

TypeOK ==
    /\ BoardTypeOK(SUBSET Gauge)
    /\ source \in [Sources -> Reading] /\ reading \in [Sources -> Reading]
    /\ armed \in [Sources -> BOOLEAN] /\ warned \in [Sources -> BOOLEAN]
    /\ lastSent \subseteq Gauge /\ haveSent \in BOOLEAN
    /\ nextPoll \in 0 .. PollInterval /\ deadline \in 0 .. PollInterval
    /\ owes \in Nat \cup {Never}
    /\ dirty \in BOOLEAN
    /\ panelId \in Nat
    /\ pc \in {"top", "headset", "laptop", "state", "latch", "sync", "call", "nap", "poll",
              "process", "gone"}

Init ==
    /\ BoardInit
    /\ source \in [Sources -> Reading] /\ reading = [s \in Sources |-> Absent]
    /\ armed = [s \in Sources |-> TRUE] /\ warned = [s \in Sources |-> FALSE]
    /\ lastSent = {} /\ haveSent = FALSE
    /\ nextPoll = 0 /\ deadline = 0 /\ dirty = TRUE
    /\ panelId = 0 /\ pc = "top" /\ owes = Never

Goto(place) == pc' = place

----------------------------------------------------------------------------
(* BatteryModel *)

(* buildGauges.  Its order, headset first, says nothing a set does not.    *)
Gauges(r) == {[source |-> s, percent |-> r[s].percent, charging |-> r[s].charging] :
                 s \in {x \in Shown : r[x] # Absent}}

MutEqual(a, b) ==      \* a cable plugged in or out is no change
    {[source |-> g.source, percent |-> g.percent] : g \in a}
      = {[source |-> g.source, percent |-> g.percent] : g \in b}

GaugesEqual(a, b) == a = b

(* lowBatteryLatch: re-arms, fires or leaves the latch alone *)
MutRecovered(r) == r.charging \/ r.percent > LowThreshold      \* without the hysteresis

Recovered(r) == r.charging \/ r.percent >= LowThreshold + LowHysteresis

Latches(s) == Warnings /\ s \in Shown /\ reading[s] # Absent

Rearms(s) == Latches(s) /\ Recovered(reading[s])

Fires(s) ==
    /\ Latches(s) /\ ~ Recovered(reading[s])
    /\ armed[s] /\ reading[s].percent <= LowThreshold

----------------------------------------------------------------------------
(* main's loop *)

MutPollDue == FALSE      \* reads when told, never by itself

PollDue == nextPoll = 0

Top ==
    /\ pc = "top"
    /\ \/ /\ dirty \/ PollDue
          /\ dirty' = FALSE /\ nextPoll' = PollInterval
          /\ Goto("headset")
       \/ /\ ~ (dirty \/ PollDue)
          /\ Goto("nap")
          /\ UNCHANGED <<dirty, nextPoll>>
    /\ UNCHANGED <<daemon, calls, mail, batteries, reading, armed, sent, deadline, owes, panelId>>

CycleOver(r) == r.charging \/ r.percent >= LowThreshold + LowHysteresis

HasRead(s, r) ==
    /\ reading' = [reading EXCEPT ![s] = r]
    /\ warned' = [warned EXCEPT ![s] = @ /\ ~ CycleOver(r)]
    /\ UNCHANGED <<daemon, calls, mail, source, armed, sent, clock, dirty, panelId>>

(* readWivrn: the charge and its state come with one call *)
ReadHeadset(ok) ==
    /\ pc = "headset"
    /\ HasRead("headset", IF ok THEN source["headset"] ELSE Absent)
    /\ Goto("laptop")

(* readUpower: first the percentage, without which there is nothing; then, *)
(* with a call of its own, the state, which is 0 if the call fails: the    *)
(* laptop is taken not to charge.                                          *)
ReadLaptop(ok) ==
    /\ pc = "laptop"
    /\ \/ /\ ok /\ source["laptop"] # Absent
          /\ HasRead("laptop", [source["laptop"] EXCEPT !.charging = FALSE])
          /\ Goto("state")
       \/ /\ ~ (ok /\ source["laptop"] # Absent)
          /\ HasRead("laptop", Absent)
          /\ Goto("latch")

ReadState(ok) ==
    /\ pc = "state"
    /\ HasRead("laptop", [reading["laptop"] EXCEPT !.charging = ok /\ source["laptop"].charging])
    /\ Goto("latch")

Read == \E ok \in Answers : ReadHeadset(ok) \/ ReadLaptop(ok) \/ ReadState(ok)

(* The toasts are sent and not waited for *)
Warn ==
    /\ pc = "latch"
    /\ armed' = [s \in Sources |-> (armed[s] \/ Rearms(s)) /\ ~ Fires(s)]
    /\ outbox' = outbox \o [k \in 1 .. Cardinality({s \in Sources : Fires(s)}) |->
                               [op |-> "toast", id |-> 0, body |-> {}, waits |-> FALSE]]
    /\ warned' = [s \in Sources |-> warned[s] \/ Fires(s)]
    /\ Goto("sync")
    /\ UNCHANGED <<daemon, connected, reply, mail, source, reading, sent, clock, dirty, panelId>>

Wanted == Gauges(reading)

Wants == ~ haveSent \/ ~ GaugesEqual(Wanted, lastSent)

Noted == lastSent' = Wanted /\ haveSent' = TRUE

(* syncPanel: one of these five, if there is something new *)
Leave ==
    /\ Wanted = {} /\ panelId # 0
    /\ Post("dismiss", panelId, {}, TRUE)
    /\ Goto("call")
    /\ UNCHANGED <<sent, owes>>

Nothing ==
    /\ Wanted = {} /\ panelId = 0
    /\ Noted /\ Goto("nap")
    /\ owes' = Never /\ UNCHANGED outbox

Enter ==
    /\ Wanted # {} /\ panelId = 0
    /\ Post("create", 0, Wanted, TRUE)
    /\ owes' = Never /\ Goto("call")
    /\ UNCHANGED sent

Renew ==
    /\ Wanted # {} /\ panelId # 0
    /\ Post("update", panelId, Wanted, FALSE)
    /\ Noted /\ Goto("nap")
    /\ UNCHANGED owes

Unsent ==      \* sd_bus_send may fail
    /\ Wanted # {} /\ panelId # 0
    /\ Goto("nap")
    /\ UNCHANGED <<outbox, sent, owes>>

Sync ==
    /\ pc = "sync"
    /\ \/ Wants /\ (Leave \/ Nothing \/ Enter \/ Renew \/ Unsent)
       \/ ~ Wants /\ Goto("nap") /\ UNCHANGED <<outbox, sent, owes>>
    /\ UNCHANGED <<daemon, connected, reply, mail, batteries, reading, armed, nextPoll,
                   deadline, dirty, panelId>>

MutSucceeded == TRUE      \* takes a refusal for success

Succeeded == panelId # 0 \/ reply # 0      \* a dismissal always does

Return ==
    /\ pc = "call" /\ reply # None
    /\ panelId' = (IF panelId = 0 THEN reply ELSE 0)
    /\ IF Succeeded THEN Noted ELSE UNCHANGED sent
    /\ owes' = (IF haveSent' THEN Never ELSE 0)
    /\ reply' = None /\ Goto("nap")
    /\ UNCHANGED <<daemon, connected, outbox, mail, batteries, reading, armed, nextPoll, deadline,
                   dirty>>

(* poll() ends at the next poll, or after `Retry` while a first create is  *)
(* owed; this pass has read the sources again to tell, if it could.        *)
Nap ==
    /\ pc = "nap"
    /\ \E ok \in Answers :
          deadline' = IF ok /\ ~ haveSent /\ Gauges(source) # {} THEN Min({nextPoll, Retry})
                      ELSE nextPoll
    /\ Goto("poll")
    /\ UNCHANGED <<daemon, calls, mail, batteries, reading, armed, sent, nextPoll, owes, dirty,
                   panelId>>

Asleep == pc = "poll" /\ ~ (Readable \/ TimeoutZero \/ deadline = 0)

Wake ==
    /\ pc = "poll" /\ ~ Asleep
    /\ deadline' = 0
    /\ Goto("process")
    /\ UNCHANGED <<daemon, calls, mail, batteries, reading, armed, sent, nextPoll, owes, dirty, panelId>>

Receive ==      \* onPropsChanged
    /\ pc = "process" /\ inbox # << >>
    /\ inbox' = Tail(inbox) /\ held' = (IF held = 0 THEN 0 ELSE held - 1)
    /\ dirty' = TRUE
    /\ UNCHANGED <<daemon, calls, batteries, reading, armed, sent, clock, panelId, pc>>

Drained ==
    /\ pc = "process" /\ inbox = << >>
    /\ Goto("top")
    /\ UNCHANGED <<daemon, calls, mail, batteries, reading, armed, sent, clock, dirty, panelId>>

Quit ==      \* stopped or killed: the panel is left to the daemon
    /\ pc # "gone"
    /\ HangUp /\ Goto("gone")
    /\ UNCHANGED <<daemon, batteries, reading, armed, sent, clock, dirty, panelId>>

Loop == Top \/ Read \/ Warn \/ Sync \/ Return \/ Nap \/ Wake \/ Receive \/ Drained

----------------------------------------------------------------------------
(* Around it *)

(* A battery changes, comes or goes.  One that goes with its service tells *)
(* nobody.                                                                 *)
Change ==
    /\ \E s \in Sources : \E r \in Reading \ {source[s]} :
          /\ source' = [source EXCEPT ![s] = r]
          /\ inbox' \in IF connected THEN {inbox, Append(inbox, Signal("changed", 0))} ELSE {inbox}
    /\ UNCHANGED <<daemon, calls, held, warned, reading, armed, sent, clock, dirty, panelId, pc>>

Tick ==
    /\ nextPoll' = (IF nextPoll = 0 THEN 0 ELSE nextPoll - 1)
    /\ deadline' = (IF pc # "poll" \/ deadline = 0 THEN 0 ELSE deadline - 1)
    /\ owes' = (IF Asleep /\ owes # Never THEN owes + 1 ELSE owes)
    /\ UNCHANGED <<daemon, calls, mail, batteries, reading, armed, sent, dirty, panelId, pc>>

own == <<batteries, reading, armed, sent, clock, dirty, panelId, pc>>

Served    == Serve /\ UNCHANGED own
Swept     == ProducerGone /\ UNCHANGED own
Started   == Start /\ UNCHANGED own
Refused   == ActivationFails /\ UNCHANGED own
Expired   == Expire /\ UNCHANGED own
Withdrawn == RivalLeaves /\ UNCHANGED own

Troubles ==
    /\ \/ \E urgency \in {1, 2} : RivalCreates(urgency, {})
       \/ Exit
       \/ TimesOut
    /\ UNCHANGED own

Next ==
    \/ Loop \/ Quit \/ Change \/ Tick
    \/ Served \/ Swept \/ Started \/ Refused \/ Expired \/ Troubles \/ Withdrawn

(* The loop goes on, time passes, the daemon handles its messages and      *)
(* expires its toasts.  D-Bus tries to start a daemon that is down for a   *)
(* message, and does not fail for ever.                                    *)
Fairness ==
    /\ WF_vars(Loop) /\ WF_vars(Tick) /\ WF_vars(Expired)
    /\ WF_vars(Served) /\ WF_vars(Swept) /\ SF_vars(Started /\ outbox # << >>)

(* Nor does the call for a property *)
ReadsFairly ==
    SF_vars(ReadHeadset(TRUE)) /\ SF_vars(ReadLaptop(TRUE)) /\ SF_vars(ReadState(TRUE))

Spec == Init /\ [][Next]_vars /\ Fairness /\ ReadsFairly

----------------------------------------------------------------------------
(* Properties *)

(* "One-shot toast per source per discharge cycle" (README.md:131): after  *)
(* a warning a source must have been seen to charge, or well above the     *)
(* line, before the next one: not if it hovers around the line, nor if it  *)
(* is unplugged and found again.                                           *)
OncePerCycle == [][\A s \in Sources : Warn /\ Fires(s) => ~ warned[s]]_vars

(* What a battery has come to is read, also when nothing tells of it.      *)
ReadingIsSeen == source # reading ~> source = reading \/ pc = "gone"

Idle == pc = "poll" /\ outbox = << >>

(* A panel that could not be made is made later: nothing but a weightier   *)
(* panel in the slot, or a full share, keeps the gauges away.              *)
GaugesGetThrough ==
    Idle /\ panelId = 0 /\ Wanted # {} ~>
        panelId # 0 \/ Wanted = {} \/ Outweighed(1) \/ Capped \/ pc = "gone"

(* "If we owe a create but the daemon was not ready, retry sooner than the *)
(* full poll" (battery/main.cpp:193).                                      *)
OwedIsRetried == owes > Retry => Gauges(source) = {}
=============================================================================
