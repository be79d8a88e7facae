------------------------------ MODULE MCInputs ------------------------------
(***************************************************************************)
(* Inputs for TLC: files of at most MaxLines lines, MaxLog presses that    *)
(* are shown, commands of MaxCommand characters.                           *)
(***************************************************************************)
EXTENDS Inputs

CONSTANTS MaxLines, MaxLog

MCNext ==
    /\ InputsNext
    /\ Len(file') <= MaxLines
    /\ Len(log') <= MaxLog

MCSpec == InputsInit /\ [][MCNext]_vars

(* Two keyboards share a Ctrl key; one has a letter, the other Shift *)
MCCodes == {"ctrl", "shift", "a"}

TwoKeyboards == [k \in {"k1", "k2"} |-> IF k = "k1" THEN {"ctrl", "a"} ELSE {"ctrl", "shift"}]

MCSets ==
    [c \in MCCodes |-> CASE c = "ctrl" -> {"Ctrl"} [] c = "shift" -> {"Shift"} [] OTHER -> {}]

MCLabel == [c \in MCCodes |-> [m \in SUBSET {"Ctrl", "Shift"} |-> c]]

(* max_chars 16 stands for two characters, 60 for five *)
MCWidth == [n \in 16 .. 200 |-> IF n < 60 THEN 2 ELSE 5]

MCConfigs == [history : {1, 3}, coalesce : {900}, modsOnly : BOOLEAN]

----------------------------------------------------------------------------
(* The files *)

Blank == [kind |-> "blank"]
Broken == [kind |-> "broken"]
Header(name) == [kind |-> "header", section |-> name]
Line(key, form, num, word) ==
    [kind |-> "entry", key |-> key, raw |-> [form |-> form, num |-> num, word |-> word]]
Number(key, form, num) == Line(key, form, num, "")
Word(key, form, word) == Line(key, form, 0, word)

MCLines ==
    [keys |-> {Blank, Broken, Header("keys"), Header("other"),
               Word("mods_only", "word", "true"), Word("mods_only", "word", "false"),
               Number("history", "integer", 1), Number("history", "huge", 1),
               Number("privacy_hold_ms", "integer", 200), Number("rise_ms", "integer", IntMax)},
     cmd |-> {Broken, Header("cmd"), Header("other"),
              Number("history", "integer", 9), Number("max_chars", "integer", 16),
              Word("opacity", "quoted", "0.5"), Number("opacity", "decimal", 19)},
     battery |-> {Broken, Header("battery"), Header("other"),
                  Number("low_threshold", "huge", 1), Number("low_threshold", "integer", 20),
                  Word("toasts", "word", "false"), Word("toasts", "word", "no")},
     hud |-> {Header("hud"), Header("theme"), Header("slot.toast"),
              Number("max", "integer", 2), Number("opacity", "nan", 0),
              Word("follow", "quoted", "0"), Word("blend_mode", "quoted", "alpha"),
              Word("blend_mode", "quoted", "fog"), Word("on_refuse", "quoted", "queue"),
              Word("pose", "quoted", "x,y,z")}]
=============================================================================
