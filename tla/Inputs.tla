------------------------------- MODULE Inputs -------------------------------
(***************************************************************************)
(* From the file to the screen: a program reads its configuration and, if  *)
(* it accepts it, does with its input what the configuration says.         *)
(* hypxrhud-keys turns keystrokes into rows (once CaptureGate has let it), *)
(* hypxrhud-cmdlog cuts command lines; what the daemon and the battery     *)
(* client go on to do is in modules of their own.                          *)
(*                                                                         *)
(* `asked` is kept by no code: the user wants privacy mode, by the command *)
(* line or by a file that was read to its end.                             *)
(***************************************************************************)
EXTENDS Keystrokes, Settings, CommandText

VARIABLES
    forceModsOnly,
    asked

vars == <<kvars, svars, tvars, forceModsOnly, asked>>

(* SKeysConfig as compiled *)
Compiled == [history |-> 3, coalesce |-> 900, modsOnly |-> FALSE]

InputsInit ==
    /\ SettingsInit
    /\ forceModsOnly \in {FALSE, program = "keys"} /\ asked = FALSE
    /\ config = Compiled /\ held = [k \in Keyboards |-> {}]
    /\ pressed = {} /\ down = [c \in Codes |-> 0]
    /\ rows = << >> /\ age = 0 /\ log = << >> /\ since = 0
    /\ command = << >> /\ width = 0

Reads ==
    /\ Load
    /\ UNCHANGED <<kvars, tvars, forceModsOnly, asked>>

(* The parser's state and the text go out of scope *)
Runs ==
    /\ phase = "accepted" /\ phase' = "running"
    /\ section' = "" /\ settings' = << >> /\ file' = << >> /\ whole' = FALSE
    /\ explicit' = FALSE /\ forceModsOnly' = FALSE
    /\ UNCHANGED <<program, faulty>>

Asks ==
    \/ forceModsOnly
    \/ whole /\ \E i \in LastWords : /\ Target(i) = <<"keys", "mods_only">>
                                     /\ file[i].raw.word = "true"

MutModsOnly == forceModsOnly      \* the switch replaces the setting

(* --mods-only can only tighten *)
ModsOnly == Setting("mods_only", FALSE) \/ forceModsOnly

(* The gate has opened, in the middle of whatever the user is doing *)
StartKeys ==
    /\ program = "keys" /\ Runs
    /\ config' = [history |-> Setting("history", 3), coalesce |-> Setting("coalesce_ms", 900),
                  modsOnly |-> ModsOnly]
    /\ held' \in Holdings
    /\ asked' = Asks
    /\ UNCHANGED <<pressed, down, rows, age, ghosts, tvars>>

StartTicker ==
    /\ program = "cmd" /\ Runs
    /\ width' = Width[Setting("max_chars", 60)]
    /\ UNCHANGED <<kvars, command, asked>>

Keys ==
    /\ phase = "running" /\ program = "keys"
    /\ Next
    /\ UNCHANGED <<svars, tvars, forceModsOnly, asked>>

Commands ==
    /\ phase = "running" /\ program = "cmd"
    /\ \E c \in Characters : Type(c)
    /\ UNCHANGED <<kvars, svars, forceModsOnly, asked>>

InputsNext == Reads \/ StartKeys \/ StartTicker \/ Keys \/ Commands

InputsSpec == InputsInit /\ [][InputsNext]_vars

(* Whoever asked for privacy mode, in the file or on the command line, has *)
(* it: nothing typed is ever shown, whatever else the file holds and       *)
(* whatever comes after the switch.  (Not so if the file's end could not   *)
(* be read: see BreaksOff.)                                                *)
PolicyKept == asked => \A i \in DOMAIN log : ~ log[i].typed
=============================================================================
