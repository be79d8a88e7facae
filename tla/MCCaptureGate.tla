--------------------------- MODULE MCCaptureGate ---------------------------
(***************************************************************************)
(* CaptureGate for TLC: at most MaxFrames frames of the first daemon, one  *)
(* less of each that follows and of one that has shown a second panel,     *)
(* MaxSignals unprocessed signals, MaxLines lines in the pipe and MaxExits *)
(* exits of the daemon, which `exits` counts.                              *)
(***************************************************************************)
EXTENDS CaptureGate

CONSTANTS MaxFrames, MaxSignals, MaxLines, MaxExits

VARIABLE exits

mcvars == <<vars, exits>>

Further == IF nextId > 2 THEN nextId - 2 ELSE 0      \* panels after the first

MCInit == Init /\ exits = 0

MCNext ==
    /\ Next
    /\ exits' = IF Exit THEN exits + 1 ELSE exits
    /\ tracker'.frame + exits' + Further' <= MaxFrames
    /\ Len(signals') <= MaxSignals
    /\ pipe' <= MaxLines
    /\ exits' <= MaxExits

MCSpec == MCInit /\ [][MCNext]_mcvars /\ Fairness
=============================================================================
