------------------------------ MODULE MCBattery ------------------------------
(***************************************************************************)
(* Battery for TLC: at most MaxChanges changes of the batteries and        *)
(* MaxTroubles troubles in a behaviour, and MaxEvents of both together,    *)
(* counted by `changes` and `troubles`, a failed reading or sending being  *)
(* one of the latter; and MaxInbox messages that wait.  A source that is   *)
(* not shown stays absent; one that is shown is absent at first, or low,   *)
(* and charges only when low.                                              *)
(***************************************************************************)
EXTENDS Battery

CONSTANTS MaxChanges, MaxTroubles, MaxEvents, MaxInbox, MayTimeOut

VARIABLES
    changes, troubles,
    spoilt      \* ghost: a panel of ours was lost, or left as it was, without our doing

mcvars == <<vars, changes, troubles, spoilt>>

Hidden(s) == \A x \in Sources \ Shown : s[x] = Absent

Plausible(s) == \A x \in Sources : s[x].charging => s[x].percent <= LowThreshold

Low(s) == s = Absent \/ (s.percent <= LowThreshold /\ ~ s.charging)

MCInit ==
    /\ Init /\ changes = 0 /\ troubles = 0 /\ spoilt = FALSE
    /\ Hidden(source) /\ \A s \in Shown : Low(source[s])

(* The daemon exits, a call times out, or a rival takes the slot from us;  *)
(* not a rival who takes it before us and has us refused.                  *)
Spoils ==
    \/ Exit
    \/ TimesOut
    \/ Holder \cap Ours # {} /\ \E urgency \in {1, 2} : RivalCreates(urgency, {})

SendFails == Sync /\ Wants /\ Unsent

Misread == Read /\ ~ (ReadHeadset(TRUE) \/ ReadLaptop(TRUE) \/ ReadState(TRUE))

Counted ==
    /\ changes' = IF Change THEN changes + 1 ELSE changes
    /\ troubles' = IF Troubles \/ Misread \/ SendFails THEN troubles + 1 ELSE troubles
    /\ spoilt' = (spoilt \/ SendFails \/ (Troubles /\ Spoils))

MCNext ==
    /\ Next /\ Counted
    /\ Hidden(source') /\ Plausible(source')
    /\ TimesOut => MayTimeOut
    /\ changes' <= MaxChanges /\ troubles' <= MaxTroubles
    /\ changes' + troubles' <= MaxEvents
    /\ Len(inbox') <= MaxInbox
    /\ owes' <= PollInterval

(* Readings fail so seldom here that ReadsFairly need not be assumed.      *)
MCSpec == MCInit /\ [][MCNext]_mcvars /\ Fairness

Gauged == {i \in Ours : board[i].body # {}}

(* As long as the daemon lives, updates can be sent and nobody takes the   *)
(* slot from us, the board shows the gauges of the last reading on one     *)
(* panel; or none at all, where there is nothing to show, or where the     *)
(* panel was refused (a rival came first, our toasts fill our share) and   *)
(* the client knows that it still owes it.  The diff suppresses no change  *)
(* that can be seen, and no refusal is noted as sent.                      *)
BoardMirrorsReading ==
    ~ spoilt /\ Idle =>
        {board[i].body : i \in Gauged} = IF Wants THEN {} ELSE {Wanted} \ {{}}
=============================================================================
