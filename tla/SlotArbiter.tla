---------------------------- MODULE SlotArbiter ----------------------------
(***************************************************************************)
(* What the scene promises of its singleton slots (src/README.md, "Slots", *)
(* and the comments of src/src/Slots.hpp and src/src/Scene.hpp), with      *)
(* nothing of how it keeps the promise: a set of independent locks with    *)
(* priorities.                                                             *)
(*                                                                         *)
(*   - a slot has at most one holder, and is never idle while a panel      *)
(*     waits for it;                                                       *)
(*   - a newcomer takes a slot by outranking or equalling the holder (the  *)
(*     last writer wins), and the holder it displaces is gone;             *)
(*   - a newcomer the holder outranks waits, where the slot queues;        *)
(*   - a holder that leaves is succeeded by the waiting panel of the       *)
(*     highest urgency, the oldest of those.                               *)
(***************************************************************************)
EXTENDS Integers

CONSTANTS
    Locks,       \* the singleton slots
    QueueLocks   \* those at which an outranked newcomer waits

VARIABLES
    holder,    \* holder[s]: the panel that holds s, as a set of at most one
    waiting,   \* waiting[s]: the panels that wait for s
    rank       \* rank[p]: the urgency of each live panel p

vars == <<holder, waiting, rank>>

Live == DOMAIN rank

(* p comes before q when both wait for the same slot *)
Before(r, p, q) == r[p] > r[q] \/ (r[p] = r[q] /\ p < q)

(* The steps of one slot s.  Any of them may come with departures of       *)
(* waiting panels, since a call can remove several panels at once.         *)
Stay(s) ==
    /\ holder'[s] = holder[s]
    /\ waiting'[s] \subseteq waiting[s]

Wait(s) ==
    /\ s \in QueueLocks
    /\ holder'[s] = holder[s]
    /\ \E p \in waiting'[s] \ waiting[s], h \in holder[s] :
          /\ waiting'[s] = waiting[s] \cup {p}
          /\ rank'[p] < rank[h]

Take(s) ==
    \E p \in DOMAIN rank' \ (holder[s] \cup waiting[s]) :
       /\ holder'[s] = {p}
       /\ waiting'[s] = waiting[s]
       /\ \A h \in holder[s] : rank'[p] >= rank[h] /\ h \notin DOMAIN rank'

Succeed(s) ==
    \E h \in holder[s], p \in waiting[s] :
       /\ holder'[s] = {p}
       /\ waiting'[s] \subseteq waiting[s] \ {p}
       /\ \A q \in waiting'[s] : Before(rank', p, q)

Vacate(s) ==
    /\ holder[s] # {}
    /\ holder'[s] = {}
    /\ waiting'[s] = {}

Step(s) == Stay(s) \/ Wait(s) \/ Take(s) \/ Succeed(s) \/ Vacate(s)

Init ==
    /\ holder = [s \in Locks |-> {}]
    /\ waiting = [s \in Locks |-> {}]
    /\ rank = << >>

Next ==
    /\ holder' \in [Locks -> SUBSET DOMAIN rank']
    /\ waiting' \in [Locks -> SUBSET DOMAIN rank']
    /\ \A s \in Locks : Step(s)

Spec == Init /\ [][Next]_vars
=============================================================================
