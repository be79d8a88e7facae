------------------------------ MODULE MCScene ------------------------------
(***************************************************************************)
(* Instances of Scene for TLC.  MaxId bounds the panels ever created and   *)
(* MaxTime the clock; Supplies names the keys this instance's updates may  *)
(* supply, so that a field with one value is not enumerated twice.         *)
(***************************************************************************)
EXTENDS Scene, TLC

CONSTANTS MaxId, MaxTime, Supplies

MCNext ==
    /\ Step(Supplies)
    /\ nextId' <= MaxId + 1
    /\ now' <= MaxTime

MCSpec == Init /\ [][MCNext]_vars

(* Envelopes: one that persists, one that rises in a tick and fades in the *)
(* next, one that holds with a ceiling below what can be seen, and one     *)
(* whose length overflows an int.                                          *)
Persistent == [rise |-> 0, hold |-> -1, fade |-> 0, ceil |-> 255]
Transient  == [rise |-> 1, hold |-> 0, fade |-> 1, ceil |-> 255]
Dimmed     == [rise |-> 0, hold |-> 2, fade |-> 0, ceil |-> 1]
Overlong   == [rise |-> 1, hold |-> IntMax, fade |-> 0, ceil |-> 255]

OnlyPersistent == {Persistent}
AllFades       == {Persistent, Transient, Dimmed, Overlong}

(* The toasts are a stack of two (the default is 3), which orders those    *)
(* that stay; another stack is of one (the default `max`), and two panels  *)
(* moved there are already more than it holds.                             *)
Depths == [s \in Slots |-> IF s = "toast" THEN 2 ELSE 1]

Defaults == [slot |-> Free, urgency |-> 1, fade |-> Persistent, content |-> "c1"]

(* `epoch` and `reply` are written by every call and read by none: two     *)
(* states that differ only there have the same future.                     *)
Essential == <<[i \in DOMAIN panels |-> [panels[i] EXCEPT !.epoch = 0]], nextId, now>>

Symmetry == Permutations(Owners)
=============================================================================
