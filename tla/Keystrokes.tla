----------------------------- MODULE Keystrokes -----------------------------
(***************************************************************************)
(* The history of hypxrhud-keys (src/src/keys/KeysModel.cpp) behind the    *)
(* records of the capture source: which keys it takes for held, which      *)
(* modifiers its xkb state has on, which presses become a row.             *)
(*                                                                         *)
(* `held` is what the user's fingers do, on any number of keyboards whose  *)
(* records come in one stream; capture may start in the middle of a chord. *)
(* `log` and `since` are kept by no code: every press that was shown, how  *)
(* long after the one before, and whether it typed a character.            *)
(***************************************************************************)
EXTENDS Integers, Sequences, FiniteSets

CONSTANTS
    Keyboards, Codes,
    KeysOf,      \* KeysOf[k]: the keys of keyboard k
    Unreadable,  \* keys whose records parseShowMeTheKeyEvent does not accept
    IsModifier,  \* CXkbState::isModifier
    Mods,        \* names of modifiers
    Sets,        \* Sets[c]: the modifiers that c holds down in the keymap
    Labels, Label,   \* Label[c][m]: what c is called while m are active
    Text,        \* CXkbState::isTextKey
    Typing,      \* keys that, on their own, type a character
    Delays,      \* how long the user may pause
    Configs      \* [history, coalesce, modsOnly]

Shown    == {"Super", "Ctrl", "Alt", "Shift"}
Shortcut == {"Super", "Ctrl", "Alt"}

ASSUME KeymapAssumption ==
    /\ KeysOf \in [Keyboards -> SUBSET Codes]
    /\ Unreadable \subseteq Codes /\ IsModifier \subseteq Codes
    /\ Sets \in [Codes -> SUBSET Mods]
    /\ Label \in [Codes -> [SUBSET Mods -> Labels]]
    /\ Text \subseteq Codes
    /\ Delays \subseteq Nat \ {0}
    /\ Configs \subseteq [history : Nat \ {0}, coalesce : Nat, modsOnly : BOOLEAN]

(* What the user's session takes for text the configured keymap does too:  *)
(* a keypad under Num Lock, which a fresh xkb state does not know, breaks  *)
(* this, and so does a dead key, which has a name and no text.             *)
ASSUME SameKeymap == Typing \subseteq Text

VARIABLES
    config,
    held,        \* held[k]: the keys down on keyboard k
    pressed,     \* m_pressed
    down,        \* down[c]: presses of c that the xkb state counts
    rows, age,   \* m_history, and how long ago its front was last pressed
    log, since

typist == <<config, held>>
ghosts == <<log, since>>
kvars  == <<typist, pressed, down, rows, age, ghosts>>

Chord == [mods : SUBSET Shown, label : Labels]
Row   == [chord : Chord, count : Nat \ {0}]
Entry == [chord : Chord, gap : Nat, typed : BOOLEAN]

Held == UNION {held[k] : k \in Keyboards}

TypeOK ==
    /\ config \in Configs
    /\ held \in [Keyboards -> SUBSET Codes]
    /\ pressed \subseteq Codes
    /\ down \in [Codes -> Nat]
    /\ rows \in Seq(Row) /\ age \in Nat
    /\ log \in Seq(Entry) /\ since \in Nat

Holdings == {h \in [Keyboards -> SUBSET Codes] : \A k \in Keyboards : h[k] \subseteq KeysOf[k]}

Init ==
    /\ config \in Configs /\ held \in Holdings
    /\ pressed = {} /\ down = [c \in Codes |-> 0]
    /\ rows = << >> /\ age = 0 /\ log = << >> /\ since = 0

----------------------------------------------------------------------------
(* The xkb state, which counts presses and takes one back for a release;   *)
(* a modifier is active while a key that holds it is down.  Locks and      *)
(* latches are left out: Caps Lock and Num Lock are not among those shown. *)

ActiveIn(d) == UNION {Sets[c] : c \in {x \in Codes : d[x] > 0}}

Downed(c) == [down EXCEPT ![c] = @ + 1]
Upped(c)  == [down EXCEPT ![c] = IF @ > 0 THEN @ - 1 ELSE 0]

(* A time is kept up to the first that is too late for a repeat *)
Later(t, d) == IF t + d > config.coalesce THEN config.coalesce + 1 ELSE t + d

----------------------------------------------------------------------------
(* CKeysModel::handle *)

MutNoise(c) == FALSE      \* the second keyboard's press counts again

(* A repeat, or the same key on another keyboard *)
Noise(c) == c \in pressed

MutPrivate(c, m) == config.modsOnly /\ c \in Text /\ m \cap Shown = {}      \* Shift opens the filter

(* In privacy mode text needs Ctrl, Alt or Super to be shown *)
Private(c, m) == config.modsOnly /\ c \in Text /\ m \cap Shortcut = {}

ChordOf(c, m) == [mods |-> m \cap Shown, label |-> Label[c][m]]

MutRepeats(x) == rows # << >> /\ rows[1].chord = x /\ age < config.coalesce

Repeats(x) == rows # << >> /\ rows[1].chord = x /\ age <= config.coalesce

Trimmed(r) == IF Len(r) > config.history THEN SubSeq(r, 1, config.history) ELSE r

Show(x) ==
    /\ rows' = IF Repeats(x) THEN <<[rows[1] EXCEPT !.count = @ + 1]>> \o Tail(rows)
               ELSE Trimmed(<<[chord |-> x, count |-> 1]>> \o rows)
    /\ age' = 0

(* The user is typing: no shortcut modifier is down on any keyboard *)
Types(c, h) ==
    LET mods == UNION {Sets[x] : x \in UNION {h[k] : k \in Keyboards}}
    IN  c \in Typing /\ mods \cap Shortcut = {}

Note(x, typed) ==
    /\ log' = Append(log, [chord |-> x, gap |-> since, typed |-> typed])
    /\ since' = 0

(* A PRESSED record *)
Pressed(c) ==
    IF c \in Unreadable \/ Noise(c) THEN UNCHANGED <<pressed, down, rows, age, ghosts>>
    ELSE LET m == ActiveIn(Downed(c))
         IN  /\ pressed' = pressed \cup {c} /\ down' = Downed(c)
             /\ IF c \in IsModifier \/ Private(c, m) THEN UNCHANGED <<rows, age, ghosts>>
                ELSE Show(ChordOf(c, m)) /\ Note(ChordOf(c, m), Types(c, held'))

(* A RELEASED record: one of a key pressed before capture began is noise *)
Released(c) ==
    /\ IF c \in Unreadable \/ c \notin pressed THEN UNCHANGED <<pressed, down>>
       ELSE pressed' = pressed \ {c} /\ down' = Upped(c)
    /\ UNCHANGED <<rows, age, ghosts>>

----------------------------------------------------------------------------
(* The user *)

Press(k, c) ==
    /\ c \in KeysOf[k] \ held[k]
    /\ held' = [held EXCEPT ![k] = @ \cup {c}]
    /\ UNCHANGED config /\ Pressed(c)

Release(k, c) ==
    /\ c \in held[k]
    /\ held' = [held EXCEPT ![k] = @ \ {c}]
    /\ UNCHANGED config /\ Released(c)

Repeat(k, c) ==
    /\ c \in held[k]
    /\ UNCHANGED typist /\ Pressed(c)

Pause(d) ==
    /\ age' = Later(age, d) /\ since' = Later(since, d)
    /\ UNCHANGED <<typist, pressed, down, rows, log>>

Next ==
    \/ \E k \in Keyboards, c \in Codes : Press(k, c) \/ Release(k, c) \/ Repeat(k, c)
    \/ \E d \in Delays : Pause(d)

Spec == Init /\ [][Next]_kvars

----------------------------------------------------------------------------
(* Properties *)

(* No modifier is stuck: one that a chord is shown with, or that lets text *)
(* past the privacy filter, is held down on some keyboard, however presses *)
(* and releases of several keyboards interleave (KeysModel.cpp:174-184).   *)
ModifiersAreHeld == ActiveIn(down) \subseteq UNION {Sets[c] : c \in Held}

(* "mods_only = true prevents ordinary typed characters from entering HUD  *)
(* history" (docs/keys-overlay.md:25): what was shown typed nothing.       *)
NothingTyped == config.modsOnly => \A i \in DOMAIN log : ~ log[i].typed

(* The presses at which a new row begins: the first, one of another chord, *)
(* one that comes too late after the press before it.                      *)
Starts ==
    {i \in DOMAIN log : \/ i = 1
                        \/ log[i].chord # log[i - 1].chord
                        \/ log[i].gap > config.coalesce}

(* The rows are the last `history` runs of presses, newest first, each     *)
(* with the number of its presses: none is lost, split or counted twice by *)
(* the window that every press moves (KeysModel.cpp:198-208).              *)
RowsAreRuns ==
    LET Nth(n) == CHOOSE i \in Starts : Cardinality({j \in Starts : j >= i}) = n
        End(n) == IF n = 1 THEN Len(log) + 1 ELSE Nth(n - 1)
        wanted == IF Cardinality(Starts) < config.history THEN Cardinality(Starts) ELSE config.history
    IN  rows = [n \in 1 .. wanted |-> [chord |-> log[Nth(n)].chord, count |-> End(n) - Nth(n)]]
=============================================================================
