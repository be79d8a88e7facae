---------------------------- MODULE CommandText ----------------------------
(***************************************************************************)
(* What the ticker makes of a command line before it is a row (src/src/    *)
(* cmdlog): two byte budgets and a width in characters cut it, and none of *)
(* the cuts may show half a character or anything that was not typed.      *)
(*                                                                         *)
(* A byte is its class: 0 is a space or a control, 1 any other ASCII       *)
(* character, 2, 3 and 4 lead a sequence of so many bytes, 9 continues     *)
(* one.  D-Bus delivers nothing but whole characters.                      *)
(***************************************************************************)
EXTENDS Integers, Sequences, FiniteSets

CONSTANTS
    MaxPublishBytes, MaxSanitisedBytes,
    Width,       \* Width[n]: max_chars n, to scale
    MaxCommand   \* characters typed at most

ASSUME TextAssumption ==
    /\ MaxPublishBytes \in Nat /\ MaxSanitisedBytes \in Nat
    /\ MaxCommand \in Nat

ASSUME WidthAssumption == Width \in [16 .. 200 -> Nat]

Space == 0
Dot   == 5       \* the dots of the ellipsis, to tell them from what was typed
Cont  == 9

(* The encodings of the characters *)
Characters == {<<Space>>, <<1>>, <<2, Cont>>, <<3, Cont, Cont>>, <<4, Cont, Cont, Cont>>}

VARIABLES
    command,     \* the characters of the command line
    width        \* max_chars

tvars == <<command, width>>

Bytes(chars) ==
    LET f[n \in 0 .. Len(chars)] == IF n = 0 THEN << >> ELSE f[n - 1] \o chars[n]
    IN  f[Len(chars)]

Upto(s, n) == SubSeq(s, 1, IF n < Len(s) THEN n ELSE Len(s))

----------------------------------------------------------------------------
(* UTF-8, one byte at a time *)

LeadLength(b) == IF b \in 2 .. 4 THEN b ELSE 1

(* sequenceLength: a lead byte without all its continuations counts as one *)
SequenceLength(s, i) ==
    LET w == LeadLength(s[i])
    IN  IF i + w - 1 <= Len(s) /\ \A k \in i + 1 .. i + w - 1 : s[k] = Cont THEN w ELSE 1

(* Where the n-th character of s begins; past the end for ever *)
Begins(s) ==
    LET f[n \in 1 .. Len(s) + 1] ==
            IF n = 1 THEN 1
            ELSE IF f[n - 1] > Len(s) THEN f[n - 1]
            ELSE f[n - 1] + SequenceLength(s, f[n - 1])
    IN  f

Heads(s) == LET b == Begins(s) IN {i \in {b[n] : n \in 1 .. Len(s) + 1} : i <= Len(s)}

CodepointCount(s) == Cardinality(Heads(s))

----------------------------------------------------------------------------
(* onPublish *)
Published(raw) == Upto(raw, MaxPublishBytes)

(* sanitizeCommand: controls and spaces fold into one space between words, *)
(* and the loop ends when the budget is used up (a space that it still     *)
(* owes may exceed it by one) ...                                          *)
Padded(p) == IF p.space THEN Append(p.text, Space) ELSE p.text

Folded(raw) ==
    LET f[n \in 0 .. Len(raw)] ==
            IF n = 0 THEN [text |-> << >>, space |-> FALSE]
            ELSE LET p == f[n - 1]
                 IN  CASE Len(p.text) >= MaxSanitisedBytes -> p
                       [] Len(p.text) < MaxSanitisedBytes /\ raw[n] = Space ->
                             [p EXCEPT !.space = p.text # << >>]
                       [] OTHER -> [text |-> Append(Padded(p), raw[n]), space |-> FALSE]
    IN  f[Len(raw)].text

(* ... and a character cut by either budget is dropped. *)
Whole(s) ==
    LET cut == {i \in Heads(s) : i + LeadLength(s[i]) - 1 > Len(s)}
    IN  IF cut = {} THEN s ELSE Upto(s, (CHOOSE i \in cut : \A j \in cut : i <= j) - 1)

MutSanitised(raw) == Folded(raw)      \* the partial tail stays

Sanitised(raw) == Whole(Folded(raw))

(* truncateHead *)
Truncated(s, max) ==
    LET dots == IF max > 3 THEN <<Dot, Dot, Dot>> ELSE << >>
    IN  IF CodepointCount(s) <= max THEN s
        ELSE Upto(s, Begins(s)[max - Len(dots) + 1] - 1) \o dots

ShownAs(chars) == Truncated(Sanitised(Published(Bytes(chars))), width)

(* The renderer's nextCodepoint: 0xFFFD for a byte that begins nothing *)
Garbled(s) == \E i \in Heads(s) : s[i] \notin {Space, 1, Dot} /\ SequenceLength(s, i) = 1

----------------------------------------------------------------------------
(* The user types on *)
Type(c) ==
    /\ Len(command) < MaxCommand
    /\ command' = Append(command, c)
    /\ UNCHANGED width

----------------------------------------------------------------------------
(* The words of the command, a space between two: what should be seen of it *)
Proper(chars) ==
    LET f[n \in 0 .. Len(chars)] ==
            IF n = 0 THEN << >>
            ELSE IF /\ chars[n] = <<Space>>
                    /\ \/ f[n - 1] = << >>
                       \/ \A m \in n .. Len(chars) : chars[m] = <<Space>>
                       \/ chars[n - 1] = <<Space>>
                 THEN f[n - 1]
                 ELSE Append(f[n - 1], chars[n])
    IN  f[Len(chars)]

(* The row is the head of the command, character by character, with one    *)
(* space between words, no wider than max_chars and free of halves of      *)
(* characters, wherever the two byte budgets and the width happen to cut   *)
(* it (CmdLogModel.cpp:35-83, CmdLogService.cpp:54-56).  It is the whole   *)
(* of a command that is within the budgets and the width.                  *)
ShownIsHead ==
    LET row  == ShownAs(command)
        all  == Proper(command)
        dots == IF width > 3 THEN <<Dot, Dot, Dot>> ELSE << >>
        FirstOf(n) == Bytes(SubSeq(all, 1, n))
    IN  /\ CodepointCount(row) <= width
        /\ ~ Garbled(row)
        /\ \/ row = Bytes(all)
           \/ \E n \in 0 .. Len(all) - 1 : row \in {FirstOf(n), FirstOf(n) \o dots}
        /\ /\ Len(all) <= width
           /\ Len(Bytes(command)) <= MaxPublishBytes
           /\ Len(Bytes(all)) <= MaxSanitisedBytes
           => row = Bytes(all)
=============================================================================
