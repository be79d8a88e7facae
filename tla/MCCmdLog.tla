------------------------------ MODULE MCCmdLog ------------------------------
(***************************************************************************)
(* CmdLog for TLC: at most MaxCommands commands and MaxTroubles troubles   *)
(* (a rival's panel, an exit of the daemon, a call that times out) in a    *)
(* behaviour, counted by `commands` and `troubles`, and MaxInbox messages  *)
(* that wait for the ticker.  MayTimeOut tells whether calls time out.     *)
(***************************************************************************)
EXTENDS CmdLog

CONSTANTS MaxCommands, MaxTroubles, MaxInbox, MayTimeOut

VARIABLES commands, troubles

mcvars == <<vars, commands, troubles>>

MCInit == Init /\ commands = 0 /\ troubles = 0

MCNext ==
    /\ Next
    /\ TimesOut => MayTimeOut
    /\ commands' = IF Command THEN commands + 1 ELSE commands
    /\ troubles' = IF Troubles THEN troubles + 1 ELSE troubles
    /\ commands' <= MaxCommands
    /\ troubles' <= MaxTroubles
    /\ Len(inbox') <= MaxInbox

MCSpec == MCInit /\ [][MCNext]_mcvars /\ Fairness
=============================================================================
