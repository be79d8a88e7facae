----------------------------- MODULE MCStreaks -----------------------------
(* Streaks for TLC: at most MaxFrames frames between two resets.           *)
EXTENDS Streaks, TLC

CONSTANT MaxFrames

MCNext == Next /\ Len(frames') <= MaxFrames

MCSpec == Init /\ [][MCNext]_vars

Symmetry == Permutations(Ids)
=============================================================================
