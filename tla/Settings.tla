------------------------------ MODULE Settings ------------------------------
(***************************************************************************)
(* How each of the four programs reads its configuration file at start-up: *)
(* the same small subset of TOML, line by line, with its own tables of     *)
(* keys, its own strictness about numbers and its own idea of a file that  *)
(* cannot be read.  A line that is wrong is noted and reading goes on; any *)
(* such note refuses the start.                                            *)
(*                                                                         *)
(* The text is abstracted to lines: blank, header (of a section), broken   *)
(* (a header without its bracket, or no `=`), and entry, whose raw value   *)
(* has a form, a word (without its quotes) and a number: hundredths if it  *)
(* is "decimal"; if it is "huge", too large for an int, what the cast to   *)
(* int leaves of it, its low 32 bits, or -1 or 0 where strtol had already  *)
(* stopped at LONG_MAX or LONG_MIN.                                        *)
(* `file` and `whole` are kept by no code.                                 *)
(***************************************************************************)
EXTENDS Integers, Sequences, FiniteSets

CONSTANTS
    Programs,    \* the programs that may be started
    Lines,       \* Lines[p]: what may stand in the file of p
    SlotSections \* the sections named "slot." and something

IntMax == 2147483647

ASSUME ProgramsAssumption == Programs \subseteq {"hud", "battery", "cmd", "keys"}

VARIABLES
    program,
    explicit,    \* --config names the file
    phase,       \* "start", "reading", "accepted" or "refused"; then "running"
    section,
    settings,    \* the keys that have been assigned; the others keep their default
    faulty,      \* an error has been noted
    file,        \* the lines that have been read
    whole        \* they are all: the file was read to its end

svars == <<program, explicit, phase, section, settings, faulty, file, whole>>

SettingsTypeOK ==
    /\ program \in Programs /\ explicit \in BOOLEAN
    /\ phase \in {"start", "reading", "accepted", "refused", "running"}
    /\ faulty \in BOOLEAN /\ whole \in BOOLEAN
    /\ file \in Seq(Lines[program])

SettingsInit ==
    /\ program \in Programs /\ explicit \in BOOLEAN
    /\ phase = "start" /\ section = "" /\ settings = << >> /\ faulty = FALSE
    /\ file = << >> /\ whole = FALSE

----------------------------------------------------------------------------
(* The tables: which keys of a section are taken as what *)

KeysTable ==
    [string |-> {"rules", "model", "layout", "variant", "options", "slot"},
     int    |-> {"history", "coalesce_ms", "rise_ms", "privacy_hold_ms"},
     bool   |-> {"mods_only"},
     number |-> {"opacity"}]

CmdTable ==
    [string |-> {"slot"},
     int    |-> {"history", "ttl_ms", "max_chars", "coalesce_ms", "rise_ms", "fade_ms"},
     number |-> {"opacity"}]

BatteryTable ==
    [string  |-> {"headset_label", "laptop_label", "slot"},
     wrapped |-> {"poll_interval_sec", "low_threshold", "low_hysteresis"},
     bool    |-> {"headset", "laptop", "toasts"}]

HudTable ==
    [string  |-> {"gpu"},
     wrapped |-> {"z", "per_client_cap", "tex_w", "tex_h", "rise_ms", "hold_ms", "fade_ms",
                  "reprobe_base_ms", "reprobe_cap_ms"},
     any     |-> {"opacity"},
     mode    |-> {"blend_mode"}]

ThemeTable ==
    [string |-> {"file", "normal", "dim", "accent", "good", "warn", "bad", "panel_bg", "bar_track"},
     loose  |-> {"follow"}]

SlotTable ==
    [string  |-> {"space"},
     wrapped |-> {"max"},
     any     |-> {"size", "opacity"},
     pose    |-> {"pose"},
     policy  |-> {"on_refuse"}]

(* A section that the program does not know is ignored with its keys *)
Table(s) ==
    CASE program = "keys"    /\ s = "keys"            -> KeysTable
      [] program = "cmd"     /\ s = "cmd"             -> CmdTable
      [] program = "battery" /\ s = "battery"         -> BatteryTable
      [] program = "hud"     /\ s = "hud"             -> HudTable
      [] program = "hud"     /\ s = "theme"           -> ThemeTable
      [] program = "hud"     /\ s \in SlotSections    -> SlotTable
      [] OTHER                                        -> [string |-> {}]

Forms(s, key) == {f \in DOMAIN Table(s) : key \in Table(s)[f]}

Numbers == {"integer", "decimal", "huge"}

Affirmed == {"true", "yes", "on", "1"}
Denied   == {"false", "no", "off", "0"}

Immense == IntMax      \* a number, as a double, that no range admits

(* asString, asInt, asDouble, asFloat, asBool, parseVec3: what is taken.   *)
(* The daemon and the battery client cut a number to its low 32 bits, the  *)
(* other two refuse it; the daemon takes "nan" for a number.               *)
Takes(form, raw) ==
    CASE form = "string"  -> raw.form = "quoted"
      [] form = "int"     -> raw.form = "integer"
      [] form = "wrapped" -> raw.form \in {"integer", "huge"}
      [] form = "number"  -> raw.form \in Numbers
      [] form = "any"     -> raw.form \in Numbers \cup {"nan"}
      [] form = "bool"    -> raw.form = "word" /\ raw.word \in {"true", "false"}
      [] form = "loose"   -> \/ raw.form = "integer" /\ raw.num \in {0, 1}
                             \/ raw.form \in {"word", "quoted"} /\ raw.word \in Affirmed \cup Denied
      [] form = "mode"    -> raw.form = "quoted" /\ raw.word \in {"auto", "opaque", "alpha", "additive"}
      [] form = "pose"    -> raw.form = "quoted" /\ raw.word = "x,y,z"
      [] form = "policy"  -> raw.form = "quoted" /\ raw.word \in {"queue", "refuse"}

Converted(form, raw) ==
    CASE form \in {"bool", "loose"} -> IF raw.form = "integer" THEN raw.num = 1
                                       ELSE raw.word \in Affirmed
      [] form \in {"int", "wrapped"} -> raw.num
      [] form \in {"number", "any"}  -> CASE raw.form = "integer" -> 100 * raw.num
                                          [] raw.form = "huge"    -> Immense
                                          [] OTHER                -> raw.num
      [] OTHER                       -> raw.word

----------------------------------------------------------------------------
(* parseConfig, parseBatteryConfig, parseCmdLogConfig, parseKeysConfig *)

Assigns(l, s) == l.kind = "entry" /\ Forms(s, l.key) # {}

Wrong(l) ==
    \/ l.kind = "broken"
    \/ Assigns(l, section) /\ \A f \in Forms(section, l.key) : ~ Takes(f, l.raw)

MutNoted(l) == Wrong(l)      \* a good line clears the error of an earlier one

Noted(l) == faulty \/ Wrong(l)

(* An entry's key comes to stand for its value *)
With(target, form, raw) ==
    [t \in DOMAIN settings \cup {target} |-> IF t = target THEN Converted(form, raw) ELSE settings[t]]

(* asDouble writes what it refuses; the other conversions do not, or to    *)
(* what is not yet in force (parseVec3).                                   *)
Writes(l) == Assigns(l, section) /\ (Wrong(l) => "number" \in Forms(section, l.key))

Read(l) ==
    /\ phase = "reading"
    /\ file' = Append(file, l)
    /\ faulty' = Noted(l)
    /\ section' = IF l.kind = "header" THEN l.section ELSE section
    /\ settings' = IF Writes(l)
                   THEN With(<<section, l.key>>, CHOOSE f \in Forms(section, l.key) : TRUE, l.raw)
                   ELSE settings
    /\ UNCHANGED <<program, explicit, phase, whole>>

Setting(key, default) ==
    IF <<program, key>> \in DOMAIN settings THEN settings[<<program, key>>] ELSE default

(* What max(250, rise_ms + 100) may come to: the sum may overflow *)
HoldMinimum ==
    LET rise == Setting("rise_ms", 50)
    IN  IF rise > IntMax - 100 THEN {250, IntMax}
        ELSE {IF rise < 150 THEN 250 ELSE rise + 100}

KeysNamed == Setting("layout", "us") # "" /\ Setting("slot", "keys") # ""

Histories == 1 .. 8
Windows   == 0 .. 10000

RowsInRange == Setting("history", 3) \in Histories /\ Setting("coalesce_ms", 900) \in Windows

PanelInRange(least) ==
    /\ Setting("rise_ms", 50) >= 0 /\ Setting("privacy_hold_ms", 1800) >= 0
    /\ Setting("privacy_hold_ms", 1800) >= least
    /\ Setting("opacity", 92) \in 20 .. 100

KeysInRange(least) == KeysNamed /\ RowsInRange /\ PanelInRange(least)

WidthInRange == Setting("max_chars", 60) \in 16 .. 200

TickerInRange ==
    /\ Setting("slot", "status") # ""
    /\ Setting("history", 3) \in 1 .. 8
    /\ Setting("ttl_ms", 6000) \in 500 .. 60000
    /\ Setting("coalesce_ms", 1500) \in 0 .. 10000
    /\ Setting("rise_ms", 90) \in 0 .. 5000 /\ Setting("fade_ms", 300) \in 0 .. 5000
    /\ Setting("opacity", 92) \in 20 .. 100

CmdInRange == TickerInRange /\ WidthInRange

InRange(least) == (program = "keys" => KeysInRange(least)) /\ (program = "cmd" => CmdInRange)

Verdicts == {IF ~ faulty /\ InRange(least) THEN "accepted" ELSE "refused" : least \in HoldMinimum}

----------------------------------------------------------------------------
(* loadConfigFile, loadBatteryConfigFile, loadCmdLogConfigFile,            *)
(* loadKeysConfigFile, and main, which goes on or exits                    *)

Careful == program \in {"cmd", "keys"}

Untouched == UNCHANGED <<program, explicit, section, settings, faulty, file>>

Missing ==
    /\ phase = "start"
    /\ phase' = IF Careful /\ explicit THEN "refused" ELSE "accepted"
    /\ Untouched /\ UNCHANGED whole

(* Not a regular file, or one that cannot be opened.  The daemon and the   *)
(* battery client take the latter for missing and the former for empty.    *)
Unusable ==
    /\ phase = "start"
    /\ phase' = IF Careful THEN "refused" ELSE "accepted"
    /\ Untouched /\ UNCHANGED whole

Opened ==
    /\ phase = "start" /\ phase' = "reading"
    /\ Untouched /\ UNCHANGED whole

EndOfFile ==
    /\ phase = "reading" /\ phase' \in Verdicts
    /\ whole' = TRUE
    /\ Untouched

(* An I/O error: `contents << file.rdbuf()` marks `contents` and never     *)
(* `file`, whose bad() is then asked; what has been read stands for all.   *)
BreaksOff ==
    /\ phase = "reading" /\ phase' \in Verdicts
    /\ Untouched /\ UNCHANGED whole

Load ==
    \/ Missing \/ Unusable \/ Opened \/ EndOfFile \/ BreaksOff
    \/ \E l \in Lines[program] : Read(l)

----------------------------------------------------------------------------
(* What the text says, read as a whole *)

(* The last header above line i *)
InForce(i) ==
    LET above == {j \in 1 .. i - 1 : file[j].kind = "header"}
    IN  IF above = {} THEN "" ELSE file[CHOOSE j \in above : \A k \in above : k <= j].section

Target(i) == <<InForce(i), file[i].key>>

Assignments == {i \in DOMAIN file : Assigns(file[i], InForce(i))}

LastWords == {i \in Assignments : \A j \in Assignments : Target(j) = Target(i) => j <= i}

(* What a value says to a setting of this form, whichever program reads    *)
(* it: the text, the whole number, the number, or yes or no; or nothing.   *)
Means(form, raw) ==
    CASE form \in {"int", "wrapped"} -> IF raw.form = "integer" THEN {raw.num} ELSE {}
      [] form \in {"number", "any"}  -> CASE raw.form = "integer" -> {100 * raw.num}
                                          [] raw.form = "decimal" -> {raw.num}
                                          [] raw.form = "huge"    -> {Immense}
                                          [] OTHER                -> {}
      [] form \in {"bool", "loose"}  ->
            {b \in BOOLEAN : IF raw.form = "integer" THEN raw.num = IF b THEN 1 ELSE 0
                             ELSE raw.word \in IF b THEN Affirmed ELSE Denied}
      [] OTHER                       -> IF raw.form = "quoted" THEN {raw.word} ELSE {}

(* The daemon and the battery client take a whole number that is too       *)
(* large, and cut it; and the daemon takes "nan".                          *)
Bent(raw) == ~ Careful /\ raw.form \in {"huge", "nan"}

(* A program that has read its file to the end and starts has made sense   *)
(* of every line for one of its keys, and runs with what the last such     *)
(* line says of each key and with the default of every other; except for   *)
(* the numbers that the daemon and the battery client bend.  No line is    *)
(* taken for another section's, no error is outlived by a later good line, *)
(* no refused value is run with.                                           *)
AcceptedAsWritten ==
    phase = "accepted" /\ whole =>
       /\ \A i \in DOMAIN file : file[i].kind # "broken"
       /\ DOMAIN settings = {Target(i) : i \in LastWords}
       /\ \A i \in Assignments : \A f \in Forms(InForce(i), file[i].key) :
             Means(f, file[i].raw) # {} \/ Bent(file[i].raw)
       /\ \A i \in LastWords : \A f \in Forms(InForce(i), file[i].key) :
             settings[Target(i)] \in Means(f, file[i].raw) \/ Bent(file[i].raw)
=============================================================================
