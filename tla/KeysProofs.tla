----------------------------- MODULE KeysProofs -----------------------------
(***************************************************************************)
(* For any number of keyboards, any keymap and any user: no modifier is    *)
(* ever stuck, and with mods_only nothing typed is ever shown.  Both       *)
(* follow from what m_pressed and the xkb state know of the keys that are  *)
(* really down: no more than there are, and each once.  The rows are the   *)
(* last runs of presses, because a list of the presses that began a run,   *)
(* newest first, can be kept beside them.                                  *)
(***************************************************************************)
EXTENDS Keystrokes, FiniteSetTheorems, SequenceTheorems, TLAPS

(* A key that the model takes for pressed is down on some keyboard and is  *)
(* counted once; any other is not counted.                                 *)
CountsTruly ==
    /\ pressed \subseteq Held \ Unreadable
    /\ \A c \in Codes : down[c] = IF c \in pressed THEN 1 ELSE 0

IInv == TypeOK /\ CountsTruly /\ NothingTyped

(* The keys an xkb state counts are its only source of active modifiers *)
LEMMA ActiveFromBelow ==
    ASSUME NEW d, NEW S, \A c \in Codes : d[c] > 0 => c \in S
    PROVE  ActiveIn(d) \subseteq UNION {Sets[c] : c \in S}
BY Zenon DEF ActiveIn

(* A modifier is held whenever every key the xkb state counts is down *)
THEOREM ModifiersFollow ==
    ASSUME CountsTruly
    PROVE  ModifiersAreHeld
<1>1. \A c \in Codes : down[c] > 0 => c \in Held
  BY SMT DEF CountsTruly
<1> QED
  BY <1>1, ActiveFromBelow DEF ModifiersAreHeld

(* The mods of a chord *)
LEMMA ChordType ==
    ASSUME NEW c \in Codes, NEW m \in SUBSET Mods
    PROVE  ChordOf(c, m) \in Chord
<1>1. Label[c][m] \in Labels
  <2>1. Label[c] \in [SUBSET Mods -> Labels]
    BY KeymapAssumption
  <2> QED
    BY <2>1
<1>2. m \cap Shown \in SUBSET Shown
  OBVIOUS
<1> QED
  BY <1>1, <1>2 DEF ChordOf, Chord

(* The xkb state names modifiers only *)
LEMMA ActiveType ==
    ASSUME NEW d PROVE ActiveIn(d) \in SUBSET Mods
<1>1. \A c \in Codes : Sets[c] \subseteq Mods
  BY KeymapAssumption
<1> QED
  BY <1>1 DEF ActiveIn

(* Showing a chord keeps the rows well-formed *)
LEMMA ShowType ==
    ASSUME TypeOK, NEW x \in Chord, Show(x)
    PROVE  rows' \in Seq(Row) /\ age' \in Nat
<1>1. age' = 0 /\ rows \in Seq(Row)
  BY DEF Show, TypeOK
<1>2. CASE Repeats(x)
  <2>1. Len(rows) > 0 /\ rows[1] \in Row
    BY <1>1, <1>2 DEF Repeats
  <2> DEFINE r == [rows[1] EXCEPT !.count = @ + 1]
  <2>2. r \in Row
    BY <2>1 DEF Row
  <2>3. rows' = <<r>> \o Tail(rows)
    BY <1>2 DEF Show
  <2> HIDE DEF r
  <2>4. Tail(rows) \in Seq(Row) /\ <<r>> \in Seq(Row)
    BY <1>1, <2>1, <2>2
  <2> QED
    BY <1>1, <2>3, <2>4
<1>3. CASE ~ Repeats(x)
  <2> DEFINE r == [chord |-> x, count |-> 1]
             s == <<r>> \o rows
  <2>1. r \in Row
    BY DEF Row
  <2>2. rows' = Trimmed(s)
    BY <1>3 DEF Show
  <2>3. config.history \in Nat \ {0}
    BY KeymapAssumption DEF TypeOK
  <2> HIDE DEF r
  <2>4. s \in Seq(Row)
    BY <1>1, <2>1
  <2> HIDE DEF s
  <2>5. Trimmed(s) \in Seq(Row)
    BY <2>3, <2>4 DEF Trimmed
  <2> QED
    BY <1>1, <2>2, <2>5
<1> QED
  BY <1>2, <1>3

(* Counting a press, and taking one back *)
LEMMA DownedType ==
    ASSUME down \in [Codes -> Nat], NEW c \in Codes
    PROVE  /\ Downed(c) \in [Codes -> Nat]
           /\ \A x \in Codes : Downed(c)[x] = IF x = c THEN down[c] + 1 ELSE down[x]
BY SMT DEF Downed

(* Taking one back leaves no other key's count changed *)
LEMMA UppedType ==
    ASSUME down \in [Codes -> Nat], NEW c \in Codes, down[c] = 1
    PROVE  /\ Upped(c) \in [Codes -> Nat]
           /\ \A x \in Codes : Upped(c)[x] = IF x = c THEN 0 ELSE down[x]
BY SMT DEF Upped

(* A PRESSED record of a key that is down by then *)
LEMMA PressedKeeps ==
    ASSUME IInv, NEW c \in Codes, Pressed(c), UNCHANGED config,
           held' \in [Keyboards -> SUBSET Codes], Held \cup {c} \subseteq Held'
    PROVE  IInv'
<1> DEFINE m == ActiveIn(Downed(c))
           x == ChordOf(c, m)
<1>1. config' \in Configs /\ config' = config /\ down \in [Codes -> Nat]
  BY DEF IInv, TypeOK
<1>2. CASE c \in Unreadable \/ Noise(c)
  <2>1. UNCHANGED <<pressed, down, rows, age, log, since>>
    BY <1>2 DEF Pressed, ghosts
  <2>2. TypeOK'
    BY <1>1, <2>1 DEF IInv, TypeOK
  <2>3. CountsTruly'
    BY <2>1 DEF IInv, CountsTruly
  <2>4. NothingTyped'
    BY <1>1, <2>1 DEF IInv, NothingTyped
  <2> QED
    BY <2>2, <2>3, <2>4 DEF IInv
<1>3. CASE ~ (c \in Unreadable \/ Noise(c))
  <2>1. /\ pressed' = pressed \cup {c} /\ down' = Downed(c)
        /\ IF c \in IsModifier \/ Private(c, m) THEN UNCHANGED <<rows, age, ghosts>>
           ELSE Show(x) /\ Note(x, Types(c, held'))
    BY <1>3, Zenon DEF Pressed
  <2>2. pressed' \subseteq Codes /\ down' \in [Codes -> Nat]
    BY <1>1, <2>1, DownedType DEF IInv, TypeOK
  <2>3. CountsTruly'
    <3>1. pressed' \subseteq Held' \ Unreadable
      BY <1>3, <2>1 DEF IInv, CountsTruly
    <3>2. ASSUME NEW y \in Codes PROVE down'[y] = IF y \in pressed' THEN 1 ELSE 0
      <4>1. c \notin pressed /\ down[c] = 0 /\ down[y] = IF y \in pressed THEN 1 ELSE 0
        BY <1>3 DEF IInv, CountsTruly, Noise
      <4>2. down'[y] = IF y = c THEN down[c] + 1 ELSE down[y]
        BY <1>1, <2>1, DownedType
      <4> QED
        BY <2>1, <4>1, <4>2
    <3> QED
      BY <3>1, <3>2 DEF CountsTruly
  <2>4. CASE c \in IsModifier \/ Private(c, m)
    <3>1. UNCHANGED <<rows, age, log, since>>
      BY <2>1, <2>4 DEF ghosts
    <3>2. TypeOK'
      BY <1>1, <2>2, <3>1 DEF IInv, TypeOK
    <3>3. NothingTyped'
      BY <1>1, <3>1 DEF IInv, NothingTyped
    <3> QED
      BY <2>3, <3>2, <3>3 DEF IInv
  <2>5. CASE ~ (c \in IsModifier \/ Private(c, m))
    <3> DEFINE t == Types(c, held')
               e == [chord |-> x, gap |-> since, typed |-> t]
    <3>1. Show(x) /\ Note(x, t)
      BY <2>1, <2>5
    <3>2. x \in Chord
      BY ActiveType, ChordType
    <3>3. rows' \in Seq(Row) /\ age' \in Nat
      BY <3>1, <3>2, ShowType DEF IInv
    <3>4. t \in BOOLEAN
      BY Zenon DEF Types
    <3>5. log' = Append(log, e) /\ since' = 0
      BY <3>1 DEF Note
    <3>6. log \in Seq(Entry) /\ since \in Nat
      BY DEF IInv, TypeOK
    <3>7. e \in Entry
      BY <3>2, <3>4, <3>6, Zenon DEF Entry
    <3>8. config.modsOnly => ~ t
      <4>1. SUFFICES ASSUME config.modsOnly, c \in Typing PROVE ~ t
        BY Zenon DEF Types
      <4>2. c \in Text
        BY <4>1, SameKeymap
      <4>3. m \cap Shortcut # {}
        BY <2>5, <4>1, <4>2 DEF Private
      <4>4. m \subseteq UNION {Sets[z] : z \in Held'}
        <5>1. \A z \in Codes : Downed(c)[z] > 0 => z \in Held'
          BY <2>1, <2>3, SMT DEF CountsTruly
        <5> QED
          BY <5>1, ActiveFromBelow
      <4> DEFINE fingers == UNION {held'[k] : k \in Keyboards}
      <4>5. Held' = fingers
        BY DEF Held
      <4>6. PICK s \in m : s \in Shortcut
        BY <4>3
      <4>7. s \in UNION {Sets[z] : z \in fingers}
        BY <4>4, <4>5, <4>6
      <4>8. (UNION {Sets[z] : z \in fingers}) \cap Shortcut # {}
        BY <4>6, <4>7
      <4> QED
        BY <4>8, Zenon DEF Types
    <3> HIDE DEF e, t, x, m
    <3>9. log' \in Seq(Entry) /\ since' \in Nat
      BY <3>5, <3>6, <3>7
    <3>10. TypeOK'
      BY <1>1, <2>2, <3>3, <3>9 DEF TypeOK
    <3>11. NothingTyped'
      <4>1. SUFFICES ASSUME config.modsOnly, NEW i \in DOMAIN log' PROVE ~ log'[i].typed
        BY <1>1 DEF NothingTyped
      <4>2. CASE i \in DOMAIN log
        <5>1. log'[i] = log[i]
          BY <3>5, <3>6, <4>2
        <5> QED
          BY <4>1, <4>2, <5>1 DEF IInv, NothingTyped
      <4>3. CASE i \notin DOMAIN log
        <5>1. log'[i] = e
          BY <3>5, <3>6, <3>7, <4>1, <4>3
        <5>2. e.typed = t
          BY DEF e
        <5> QED
          BY <3>8, <4>1, <5>1, <5>2, Zenon
      <4> QED
        BY <4>2, <4>3
    <3> QED
      BY <2>3, <3>10, <3>11 DEF IInv
  <2> QED
    BY <2>4, <2>5
<1> QED
  BY <1>2, <1>3

(* A history that is empty shows nothing *)
LEMMA InitHolds == Init => IInv
<1> SUFFICES ASSUME Init PROVE IInv
  OBVIOUS
<1>1. held \in [Keyboards -> SUBSET Codes]
  BY DEF Init, Holdings
<1>2. TypeOK
  BY <1>1 DEF Init, TypeOK
<1>3. CountsTruly
  BY DEF Init, CountsTruly
<1>4. NothingTyped
  BY DEF Init, NothingTyped
<1> QED
  BY <1>2, <1>3, <1>4 DEF IInv

(* One step per thing the user does: a press, a release, a repeat, a pause *)
LEMMA StepKeeps == IInv /\ [Next]_kvars => IInv'
<1> SUFFICES ASSUME IInv, [Next]_kvars PROVE IInv'
  OBVIOUS
<1>0. held \in [Keyboards -> SUBSET Codes]
  BY DEF IInv, TypeOK
<1>1. ASSUME NEW k \in Keyboards, NEW c \in Codes, Press(k, c) PROVE IInv'
  <2>1. /\ held' = [held EXCEPT ![k] = @ \cup {c}]
        /\ UNCHANGED config /\ Pressed(c)
    BY <1>1 DEF Press
  <2>2. held' \in [Keyboards -> SUBSET Codes]
    BY <1>0, <2>1
  <2>3. Held \cup {c} \subseteq Held'
    <3>1. \A j \in Keyboards : held[j] \subseteq held'[j]
      BY <1>0, <2>1
    <3>2. c \in held'[k]
      BY <1>0, <2>1
    <3> QED
      BY <3>1, <3>2 DEF Held
  <2> QED
    BY <2>1, <2>2, <2>3, PressedKeeps
<1>2. ASSUME NEW k \in Keyboards, NEW c \in Codes, Repeat(k, c) PROVE IInv'
  <2>1. c \in held[k] /\ held' = held /\ UNCHANGED config /\ Pressed(c)
    BY <1>2 DEF Repeat, typist
  <2>2. Held \cup {c} \subseteq Held'
    BY <2>1 DEF Held
  <2> QED
    BY <1>0, <2>1, <2>2, PressedKeeps
<1>3. ASSUME NEW k \in Keyboards, NEW c \in Codes, Release(k, c) PROVE IInv'
  <2>1. /\ held' = [held EXCEPT ![k] = @ \ {c}]
        /\ UNCHANGED config /\ Released(c)
    BY <1>3 DEF Release
  <2>2. held' \in [Keyboards -> SUBSET Codes]
    BY <1>0, <2>1
  <2>3. Held \ {c} \subseteq Held'
    <3>1. \A j \in Keyboards : held[j] \ {c} \subseteq held'[j]
      BY <1>0, <2>1
    <3> QED
      BY <3>1 DEF Held
  <2>4. UNCHANGED <<rows, age, log, since>>
    BY <2>1 DEF Released, ghosts
  <2>5. NothingTyped'
    BY <2>1, <2>4 DEF IInv, NothingTyped
  <2>6. CASE c \in Unreadable \/ c \notin pressed
    <3>1. UNCHANGED <<pressed, down>>
      BY <2>1, <2>6 DEF Released
    <3>2. TypeOK'
      BY <2>1, <2>2, <2>4, <3>1 DEF IInv, TypeOK
    <3>3. pressed' \subseteq Held' \ Unreadable
      BY <2>3, <2>6, <3>1 DEF IInv, CountsTruly
    <3>4. CountsTruly'
      BY <3>1, <3>3 DEF IInv, CountsTruly
    <3> QED
      BY <2>5, <3>2, <3>4 DEF IInv
  <2>7. CASE ~ (c \in Unreadable \/ c \notin pressed)
    <3>1. pressed' = pressed \ {c} /\ down' = Upped(c)
      BY <2>1, <2>7 DEF Released
    <3>2. down \in [Codes -> Nat] /\ down[c] = 1
      BY <2>7 DEF IInv, TypeOK, CountsTruly
    <3>3. /\ down' \in [Codes -> Nat]
          /\ \A x \in Codes : down'[x] = IF x = c THEN 0 ELSE down[x]
      BY <3>1, <3>2, UppedType
    <3>4. TypeOK'
      BY <2>1, <2>2, <2>4, <3>1, <3>3 DEF IInv, TypeOK
    <3>5. pressed' \subseteq Held' \ Unreadable
      BY <2>3, <3>1 DEF IInv, CountsTruly
    <3>6. ASSUME NEW y \in Codes PROVE down'[y] = IF y \in pressed' THEN 1 ELSE 0
      BY <3>1, <3>3 DEF IInv, CountsTruly
    <3>7. CountsTruly'
      BY <3>5, <3>6 DEF CountsTruly
    <3> QED
      BY <2>5, <3>4, <3>7 DEF IInv
  <2> QED
    BY <2>6, <2>7
<1>4. ASSUME NEW d \in Delays, Pause(d) PROVE IInv'
  <2>1. UNCHANGED <<config, held, pressed, down, rows, log>>
    BY <1>4 DEF Pause, typist
  <2>2. age' \in Nat /\ since' \in Nat
    <3>1. d \in Nat /\ config.coalesce \in Nat /\ age \in Nat /\ since \in Nat
      BY KeymapAssumption DEF IInv, TypeOK
    <3> QED
      BY <1>4, <3>1 DEF Pause, Later
  <2>3. TypeOK'
    BY <2>1, <2>2 DEF IInv, TypeOK
  <2>4. CountsTruly' /\ NothingTyped'
    BY <2>1 DEF IInv, CountsTruly, NothingTyped, Held
  <2> QED
    BY <2>3, <2>4 DEF IInv
<1>5. CASE UNCHANGED kvars
  <2>1. UNCHANGED <<config, held, pressed, down, rows, age, log, since>>
    BY <1>5 DEF kvars, typist, ghosts
  <2> QED
    BY <2>1 DEF IInv, TypeOK, CountsTruly, NothingTyped, Held
<1> QED
  BY <1>1, <1>2, <1>3, <1>4, <1>5 DEF Next

(* The invariant holds throughout *)
THEOREM Invariance == Spec => []IInv
BY InitHolds, StepKeeps, PTL DEF Spec

(* The types hold, for any keyboards, keymap and configuration *)
THEOREM TypeCorrect == Spec => []TypeOK
<1>1. IInv => TypeOK
  BY DEF IInv
<1> QED
  BY <1>1, Invariance, PTL

(* No modifier is ever active that no finger holds down (KeysModel.cpp:174-184) *)
THEOREM NoModifierSticks == Spec => []ModifiersAreHeld
<1>1. IInv => ModifiersAreHeld
  BY ModifiersFollow DEF IInv
<1> QED
  BY <1>1, Invariance, PTL

(* With mods_only nothing that was typed is ever shown (KeysModel.cpp:192-196), *)
(* for every keymap that takes for text what the user's session does            *)
THEOREM NothingTypedIsShown == Spec => []NothingTyped
<1>1. IInv => NothingTyped
  BY DEF IInv
<1> QED
  BY <1>1, Invariance, PTL

----------------------------------------------------------------------------
(* What is shown is what was pressed *)

(* The place of a press among those of S, the newest first *)
Rank(S, i) == Cardinality({j \in S : j >= i})

(* b lists the presses of S, the newest first *)
Listed(b, S) ==
    /\ b \in Seq(S) /\ Len(b) = Cardinality(S)
    /\ \A i \in S : \E n \in 1 .. Len(b) : b[n] = i
    /\ \A n \in 1 .. Len(b) : Rank(S, b[n]) = n

(* What is newer than a press of S, and what is newer than all *)
LEMMA NewerThan ==
    ASSUME NEW N \in Int, NEW S, \A j \in S : j \in Int /\ j < N
    PROVE  /\ {j \in S \cup {N} : j >= N} = {N}
           /\ \A m \in S : {j \in S \cup {N} : j >= m} = {j \in S : j >= m} \cup {N}
<1>1. {j \in S \cup {N} : j >= N} = {N}
  <2>1. N >= N /\ \A j \in S : ~ (j >= N)
    OBVIOUS
  <2> QED
    BY <2>1, Zenon
<1>2. ASSUME NEW m \in S
      PROVE  {j \in S \cup {N} : j >= m} = {j \in S : j >= m} \cup {N}
  <2>1. N >= m
    OBVIOUS
  <2> QED
    BY <2>1, Zenon
<1> QED
  BY <1>1, <1>2

(* A press newer than all of S goes in front of them *)
LEMMA NewestInFront ==
    ASSUME NEW N \in Nat \ {0}, NEW S \in SUBSET (1 .. (N - 1)), NEW b, Listed(b, S)
    PROVE  Listed(<<N>> \o b, S \cup {N})
<1> DEFINE T == S \cup {N}
           a == <<N>> \o b
<1>1. IsFiniteSet(S) /\ Cardinality(S) \in Nat /\ N \notin S
  <2>1. IsFiniteSet(1 .. (N - 1))
    BY FS_Interval
  <2>2. N \notin S
    OBVIOUS
  <2>3. IsFiniteSet(S)
    BY <2>1, FS_Subset
  <2> QED
    BY <2>2, <2>3, FS_CardinalityType
<1>2. b \in Seq(T) /\ <<N>> \in Seq(T) /\ b \in Seq(S) /\ Len(b) = Cardinality(S)
  BY DEF Listed
<1>3. a \in Seq(T) /\ Len(a) = Len(b) + 1 /\ a[1] = N /\ \A n \in 1 .. Len(b) : a[n + 1] = b[n]
  BY <1>2
<1>4. Cardinality(T) = Cardinality(S) + 1
  BY <1>1, FS_AddElement
<1>5. N \in Int /\ \A j \in S : j \in Int /\ j < N
  OBVIOUS
<1>6. \A m \in S : {j \in T : j >= m} = {j \in S : j >= m} \cup {N}
  BY <1>5, NewerThan
<1>7. ASSUME NEW i \in T PROVE \E n \in 1 .. Len(a) : a[n] = i
  <2>1. CASE i = N
    BY <1>2, <1>3, <2>1
  <2>2. CASE i \in S
    <3>1. PICK n \in 1 .. Len(b) : b[n] = i
      BY <2>2 DEF Listed
    <3>2. a[n + 1] = i /\ n + 1 \in 1 .. Len(a)
      BY <1>2, <1>3, <3>1
    <3> QED
      BY <3>2
  <2> QED
    BY <2>1, <2>2
<1>8. ASSUME NEW n \in 1 .. Len(a) PROVE Rank(T, a[n]) = n
  <2>1. CASE n = 1
    <3>1. {j \in T : j >= N} = {N}
      BY <1>5, NewerThan
    <3>2. Cardinality({N}) = 1 /\ a[n] = N
      BY <1>3, <2>1, FS_Singleton
    <3> HIDE DEF T, a
    <3> QED
      BY <2>1, <3>1, <3>2 DEF Rank
  <2>2. CASE n # 1
    <3>1. n - 1 \in 1 .. Len(b) /\ a[n] = b[n - 1]
      <4>1. n - 1 \in 1 .. Len(b)
        BY <1>2, <1>3, <2>2
      <4>2. a[(n - 1) + 1] = b[n - 1]
        BY <1>3, <4>1
      <4> QED
        BY <4>1, <4>2
    <3> DEFINE m == b[n - 1]
               U == {j \in S : j >= m}
    <3>2. m \in S /\ Cardinality(U) = n - 1
      BY <1>2, <3>1 DEF Listed, Rank
    <3>3. {j \in T : j >= m} = U \cup {N}
      BY <1>6, <3>2, Zenon
    <3>4. IsFiniteSet(U) /\ N \notin U
      BY <1>1, FS_Subset
    <3>5. Cardinality(U \cup {N}) = Cardinality(U) + 1
      BY <3>4, FS_AddElement
    <3>6. a[n] = m /\ (n - 1) + 1 = n
      BY <3>1
    <3> HIDE DEF T, a, m, U
    <3> QED
      BY <3>2, <3>3, <3>5, <3>6 DEF Rank
  <2> QED
    BY <2>1, <2>2
<1> HIDE DEF T, a
<1>9. Listed(a, T)
  BY <1>2, <1>3, <1>4, <1>7, <1>8 DEF Listed
<1> QED
  BY <1>9 DEF a, T

(* The place of a press in the list is what counts the newer ones *)
LEMMA NthIsListed ==
    ASSUME NEW S, NEW b, Listed(b, S), NEW n \in 1 .. Len(b)
    PROVE  (CHOOSE i \in S : Cardinality({j \in S : j >= i}) = n) = b[n]
<1>1. b[n] \in S /\ Rank(S, b[n]) = n
  BY DEF Listed
<1>2. ASSUME NEW i \in S, Rank(S, i) = n PROVE i = b[n]
  <2>1. PICK k \in 1 .. Len(b) : b[k] = i
    BY DEF Listed
  <2>2. Rank(S, b[k]) = k
    BY DEF Listed
  <2> QED
    BY <1>2, <2>1, <2>2
<1> DEFINE x == CHOOSE i \in S : Rank(S, i) = n
<1>3. x \in S /\ Rank(S, x) = n
  BY <1>1, Zenon
<1>4. x = b[n]
  BY <1>2, <1>3
<1> QED
  BY <1>4 DEF Rank

(* The row of the nth listed run *)
RowAt(b, l, n) == [chord |-> l[b[n]].chord,
                   count |-> (IF n = 1 THEN Len(l) + 1 ELSE b[n - 1]) - b[n]]

(* The rows are those of the newest listed runs, as many as fit *)
Showing(b, l, r) ==
    /\ Len(r) = IF Len(b) < config.history THEN Len(b) ELSE config.history
    /\ \A n \in 1 .. Len(r) : r[n] = RowAt(b, l, n)

(* What makes RowsAreRuns inductive: the front row is the run of the last  *)
(* press, and its age is the time since that press.                        *)
Counted ==
    /\ age = since
    /\ log # << >> => rows # << >> /\ rows[1].chord = log[Len(log)].chord
    /\ \E b \in Seq(Starts) : Listed(b, Starts) /\ Showing(b, log, rows)

(* A list of runs that the rows show says what RowsAreRuns says *)
LEMMA CountedShows == TypeOK /\ Counted => RowsAreRuns
<1> SUFFICES ASSUME TypeOK, Counted PROVE RowsAreRuns
  OBVIOUS
<1>1. PICK b \in Seq(Starts) : Listed(b, Starts) /\ Showing(b, log, rows)
  BY DEF Counted
<1> DEFINE Nth(n) == CHOOSE i \in Starts : Cardinality({j \in Starts : j >= i}) = n
           End(n) == IF n = 1 THEN Len(log) + 1 ELSE Nth(n - 1)
           wanted == IF Cardinality(Starts) < config.history THEN Cardinality(Starts) ELSE config.history
           run(n) == [chord |-> log[Nth(n)].chord, count |-> End(n) - Nth(n)]
<1>2. Len(b) = Cardinality(Starts) /\ Len(b) \in Nat
  BY <1>1 DEF Listed
<1>3. \A n \in 1 .. Len(b) : Nth(n) = b[n]
  BY <1>1, NthIsListed
<1>4. Len(rows) = wanted /\ config.history \in Nat
  BY <1>1, <1>2, KeymapAssumption DEF Showing, TypeOK
<1>5. wanted \in Nat /\ wanted <= Len(b)
  BY <1>2, <1>4
<1> HIDE DEF Nth, wanted
<1>6. ASSUME NEW n \in 1 .. wanted PROVE rows[n] = run(n)
  <2>1. rows[n] = RowAt(b, log, n)
    BY <1>1, <1>4 DEF Showing
  <2>2. n \in 1 .. Len(b) /\ Nth(n) = b[n]
    BY <1>2, <1>3, <1>5
  <2>3. n # 1 => n - 1 \in 1 .. Len(b) /\ Nth(n - 1) = b[n - 1]
    BY <1>2, <1>3, <1>5
  <2> QED
    BY <2>1, <2>2, <2>3, Zenon DEF RowAt
<1>7. rows = [n \in 1 .. wanted |-> rows[n]]
  BY <1>4 DEF TypeOK
<1>8. rows = [n \in 1 .. wanted |-> run(n)]
  BY <1>6, <1>7
<1> QED
  BY <1>8 DEF RowsAreRuns, Nth, wanted

(* A press is noted after all others, and is the start of a run of its own *)
(* or goes on with the last one.                                           *)
LEMMA StartsGrow ==
    ASSUME TypeOK, UNCHANGED config, NEW e \in Entry, log' = Append(log, e)
    PROVE  LET N == Len(log) + 1
               new == \/ log = << >>
                      \/ e.chord # log[Len(log)].chord
                      \/ e.gap > config.coalesce
           IN  /\ new => Starts' = Starts \cup {N}
               /\ ~ new => Starts' = Starts
<1> DEFINE N == Len(log) + 1
           new == log = << >> \/ e.chord # log[Len(log)].chord \/ e.gap > config.coalesce
           begins(l, i) == i = 1 \/ l[i].chord # l[i - 1].chord \/ l[i].gap > config.coalesce
<1>1. log \in Seq(Entry) /\ Len(log) \in Nat
  BY DEF TypeOK
<1>2. DOMAIN log = 1 .. Len(log) /\ DOMAIN log' = 1 .. N /\ log'[N] = e
  BY <1>1
<1>3. \A i \in 1 .. Len(log) : log'[i] = log[i]
  BY <1>1
<1>4. Starts = {i \in 1 .. Len(log) : begins(log, i)}
  BY <1>2 DEF Starts
<1>5. Starts' = {i \in 1 .. N : begins(log', i)}
  BY <1>2 DEF Starts
<1>6. ASSUME NEW i \in 1 .. Len(log) PROVE begins(log', i) <=> begins(log, i)
  <2>1. log'[i] = log[i] /\ (i # 1 => log'[i - 1] = log[i - 1])
    BY <1>1, <1>3
  <2> QED
    BY <2>1, Zenon
<1>7. begins(log', N) <=> new
  <2>1. log = << >> <=> N = 1
    BY <1>1, EmptySeq
  <2>2. N # 1 => log'[N - 1] = log[Len(log)]
    BY <1>1, <1>3
  <2> HIDE DEF N
  <2> QED
    BY <1>2, <2>1, <2>2, Zenon
<1> HIDE DEF begins, new
<1>8. 1 .. N = (1 .. Len(log)) \cup {N}
  BY <1>1
<1> HIDE DEF N
<1>9. (new => Starts' = Starts \cup {N}) /\ (~ new => Starts' = Starts)
  BY <1>4, <1>5, <1>6, <1>7, <1>8, Zenon
<1> QED
  BY <1>9, Zenon DEF N, new

(* What is listed of a log of k presses are numbers of presses *)
LEMMA ListedArePresses ==
    ASSUME NEW k \in Nat, NEW S \in SUBSET (1 .. k), NEW b, Listed(b, S)
    PROVE  b \in Seq(Nat) /\ Len(b) \in Nat /\ \A n \in 1 .. Len(b) : b[n] \in 1 .. k
<1>1. b \in Seq(S)
  BY DEF Listed
<1>2. Len(b) \in Nat /\ \A n \in 1 .. Len(b) : b[n] \in S
  BY <1>1
<1>3. b = [n \in 1 .. Len(b) |-> b[n]] /\ \A n \in 1 .. Len(b) : b[n] \in Nat
  BY <1>1, <1>2
<1>4. b \in Seq(Nat)
  BY <1>2, <1>3, IsASeq
<1> QED
  BY <1>2, <1>4

(* A press that goes on with the last run: the row in front counts it *)
LEMMA OneMore ==
    ASSUME TypeOK, NEW b, NEW e \in Entry,
           Listed(b, Starts), Showing(b, log, rows), rows # << >>
    PROVE  Showing(b, Append(log, e), <<[rows[1] EXCEPT !.count = @ + 1]>> \o Tail(rows))
<1> DEFINE l == Append(log, e)
           top == [rows[1] EXCEPT !.count = @ + 1]
           r == <<top>> \o Tail(rows)
<1>1. rows \in Seq(Row) /\ Len(rows) \in Nat \ {0} /\ log \in Seq(Entry) /\ Len(log) \in Nat
  BY DEF TypeOK
<1>2. Starts \subseteq 1 .. Len(log)
  BY <1>1 DEF Starts
<1>3. b \in Seq(Nat) /\ Len(b) \in Nat /\ \A n \in 1 .. Len(b) : b[n] \in 1 .. Len(log)
  BY <1>1, <1>2, ListedArePresses
<1>4. Len(l) = Len(log) + 1 /\ \A i \in 1 .. Len(log) : l[i] = log[i]
  BY <1>1
<1>5. Len(r) = Len(rows) /\ r[1] = top /\ \A n \in 2 .. Len(rows) : r[n] = rows[n]
  BY <1>1
<1>6. config.history \in Nat \ {0}
  BY KeymapAssumption DEF TypeOK
<1>7. Len(rows) <= Len(b) /\ 1 \in 1 .. Len(rows)
  BY <1>1, <1>3, <1>6 DEF Showing
<1>8. ASSUME NEW n \in 1 .. Len(r) PROVE r[n] = RowAt(b, l, n)
  <2>1. n \in 1 .. Len(rows) /\ n \in 1 .. Len(b) /\ rows[n] = RowAt(b, log, n)
    BY <1>3, <1>5, <1>7 DEF Showing
  <2>2. l[b[n]] = log[b[n]]
    BY <1>3, <1>4, <2>1
  <2>3. CASE n = 1
    <3>1. rows[1] = [chord |-> log[b[1]].chord, count |-> (Len(log) + 1) - b[1]]
      BY <2>1, <2>3, Zenon DEF RowAt
    <3>2. top = [chord |-> log[b[1]].chord, count |-> ((Len(log) + 1) - b[1]) + 1]
      BY <3>1
    <3>3. ((Len(log) + 1) - b[1]) + 1 = (Len(l) + 1) - b[1]
      BY <1>1, <1>3, <1>4, <2>1, <2>3
    <3>4. RowAt(b, l, 1) = [chord |-> l[b[1]].chord, count |-> (Len(l) + 1) - b[1]]
      BY Zenon DEF RowAt
    <3> HIDE DEF top, l, r
    <3> QED
      BY <1>5, <2>2, <2>3, <3>2, <3>3, <3>4
  <2>4. CASE n # 1
    <3>1. r[n] = rows[n]
      BY <1>5, <2>1, <2>4
    <3>2. RowAt(b, l, n) = RowAt(b, log, n)
      BY <2>2, <2>4, Zenon DEF RowAt
    <3> QED
      BY <2>1, <3>1, <3>2
  <2> QED
    BY <2>3, <2>4
<1>9. Len(r) = IF Len(b) < config.history THEN Len(b) ELSE config.history
  BY <1>5 DEF Showing
<1> HIDE DEF l, r
<1>10. Showing(b, l, r)
  BY <1>8, <1>9 DEF Showing
<1> QED
  BY <1>10 DEF l, r, top

(* A press that begins a run: its row goes in front, the oldest falls off *)
LEMMA OneRowMore ==
    ASSUME TypeOK, NEW b, NEW e \in Entry,
           Listed(b, Starts), Showing(b, log, rows)
    PROVE  Showing(<<Len(log) + 1>> \o b, Append(log, e),
                   Trimmed(<<[chord |-> e.chord, count |-> 1]>> \o rows))
<1> DEFINE N == Len(log) + 1
           l == Append(log, e)
           a == <<N>> \o b
           h == config.history
           top == [chord |-> e.chord, count |-> 1]
           s == <<top>> \o rows
           r == Trimmed(s)
<1>1. rows \in Seq(Row) /\ Len(rows) \in Nat /\ log \in Seq(Entry) /\ Len(log) \in Nat
  BY DEF TypeOK
<1>2. Starts \subseteq 1 .. Len(log)
  BY <1>1 DEF Starts
<1>3. b \in Seq(Nat) /\ Len(b) \in Nat /\ \A n \in 1 .. Len(b) : b[n] \in 1 .. Len(log)
  BY <1>1, <1>2, ListedArePresses
<1>4. Len(l) = N /\ l[N] = e /\ \A i \in 1 .. Len(log) : l[i] = log[i]
  BY <1>1
<1>5. Len(a) = Len(b) + 1 /\ a[1] = N /\ \A n \in 1 .. Len(b) : a[n + 1] = b[n]
  BY <1>1, <1>3
<1>6. h \in Nat \ {0}
  BY KeymapAssumption DEF TypeOK
<1>7. Len(rows) = IF Len(b) < h THEN Len(b) ELSE h
  BY DEF Showing
<1>8. s \in Seq({top} \cup Row) /\ Len(s) = Len(rows) + 1 /\ s[1] = top
      /\ \A n \in 1 .. Len(rows) : s[n + 1] = rows[n]
  <2> HIDE DEF top
  <2> QED
    BY <1>1
<1> HIDE DEF s, a, l, h
<1>9. /\ Len(r) = IF Len(a) < h THEN Len(a) ELSE h
      /\ Len(r) <= Len(s)
      /\ \A n \in 1 .. Len(r) : r[n] = s[n]
  <2> HIDE DEF top
  <2>1. CASE Len(s) > h
    <3>1. r = SubSeq(s, 1, h)
      BY <2>1 DEF Trimmed, h
    <3>2. Len(r) = h /\ \A n \in 1 .. h : r[n] = s[n]
      BY <1>6, <1>8, <2>1, <3>1
    <3> QED
      BY <1>3, <1>5, <1>6, <1>7, <1>8, <2>1, <3>2
  <2>2. CASE ~ (Len(s) > h)
    <3>1. r = s
      BY <2>2 DEF Trimmed, h
    <3> QED
      BY <1>1, <1>3, <1>5, <1>6, <1>7, <1>8, <2>2, <3>1
  <2> QED
    BY <2>1, <2>2
<1>10. ASSUME NEW n \in 1 .. Len(r) PROVE r[n] = RowAt(a, l, n)
  <2>1. CASE n = 1
    <3>1. RowAt(a, l, 1) = [chord |-> l[a[1]].chord, count |-> (Len(l) + 1) - a[1]]
      BY Zenon DEF RowAt
    <3>2. (Len(l) + 1) - a[1] = 1 /\ l[a[1]] = e
      BY <1>1, <1>4, <1>5
    <3> QED
      BY <1>8, <1>9, <2>1, <3>1, <3>2
  <2>2. CASE n # 1
    <3> DEFINE k == n - 1
    <3>1. k \in 1 .. Len(rows) /\ k + 1 = n /\ k \in 1 .. Len(b) /\ Len(rows) <= Len(b)
      <4>1. Len(r) \in Nat
        BY <1>3, <1>5, <1>6, <1>9
      <4>2. n \in Int /\ n >= 1 /\ n <= Len(r)
        BY <4>1
      <4> HIDE DEF r
      <4> QED
        BY <1>1, <1>3, <1>6, <1>7, <1>8, <1>9, <2>2, <4>1, <4>2
    <3>2. r[n] = RowAt(b, log, k)
      <4>1. r[n] = s[n]
        BY <1>9
      <4>2. s[n] = rows[k]
        BY <1>8, <3>1
      <4>3. rows[k] = RowAt(b, log, k)
        BY <3>1 DEF Showing
      <4> QED
        BY <4>1, <4>2, <4>3
    <3>3. a[n] = b[k] /\ l[b[k]] = log[b[k]]
      BY <1>3, <1>4, <1>5, <3>1
    <3>4. a[n - 1] = IF k = 1 THEN N ELSE b[k - 1]
      <4>1. CASE k = 1
        BY <1>5, <4>1
      <4>2. CASE k # 1
        <5>1. k - 1 \in 1 .. Len(b) /\ (k - 1) + 1 = k
          BY <1>3, <3>1, <4>2
        <5>2. a[k] = b[k - 1]
          BY <1>5, <5>1
        <5> QED
          BY <4>2, <5>2
      <4> QED
        BY <4>1, <4>2
    <3>5. RowAt(a, l, n) = [chord |-> l[a[n]].chord, count |-> a[n - 1] - a[n]]
      BY <2>2, Zenon DEF RowAt
    <3>6. RowAt(b, log, k) = [chord |-> log[b[k]].chord,
                              count |-> (IF k = 1 THEN N ELSE b[k - 1]) - b[k]]
      BY Zenon DEF RowAt
    <3> HIDE DEF k, N, r
    <3> QED
      BY <3>2, <3>3, <3>4, <3>5, <3>6, Zenon
  <2> QED
    BY <2>1, <2>2
<1> HIDE DEF r
<1>11. Showing(a, l, r)
  BY <1>9, <1>10 DEF Showing, h
<1> QED
  BY <1>11 DEF r, s, a, l, top, N

(* Counted says nothing of the fingers, of m_pressed or of the xkb state *)
LEMMA CountedSame ==
    Counted /\ UNCHANGED <<config, rows, age, log, since>> => Counted'
<1> SUFFICES ASSUME Counted, UNCHANGED <<config, rows, age, log, since>> PROVE Counted'
  OBVIOUS
<1>1. Starts' = Starts
  BY DEF Starts
<1>2. PICK b \in Seq(Starts) : Listed(b, Starts) /\ Showing(b, log, rows)
  BY DEF Counted
<1>3. b \in Seq(Starts)' /\ Listed(b, Starts') /\ Showing(b, log, rows)'
  BY <1>1, <1>2, Zenon DEF Showing
<1> QED
  BY <1>2, <1>3 DEF Counted

(* A press that is shown *)
LEMMA ShowCounts ==
    ASSUME TypeOK, Counted, UNCHANGED config,
           NEW x \in Chord, NEW t \in BOOLEAN, Show(x), Note(x, t)
    PROVE  Counted'
<1> DEFINE e == [chord |-> x, gap |-> since, typed |-> t]
           N == Len(log) + 1
           new == log = << >> \/ e.chord # log[Len(log)].chord \/ e.gap > config.coalesce
<1>1. log' = Append(log, e) /\ since' = 0 /\ age' = 0
  BY DEF Note, Show
<1>2. e \in Entry /\ e.chord = x /\ e.gap = since
  BY DEF TypeOK, Entry
<1>3. PICK b \in Seq(Starts) : Listed(b, Starts) /\ Showing(b, log, rows)
  BY DEF Counted
<1>4. log \in Seq(Entry) /\ Len(log) \in Nat /\ rows \in Seq(Row)
  BY DEF TypeOK
<1> HIDE DEF e
<1>5. (new => Starts' = Starts \cup {N}) /\ (~ new => Starts' = Starts)
  BY <1>1, <1>2, StartsGrow
<1>6. log' # << >> /\ Len(log') = N /\ log'[N].chord = x
  <2>1. Len(log') = N /\ log'[N] = e
    BY <1>1, <1>2, <1>4
  <2>2. log' # << >>
    BY <1>4, <2>1, EmptySeq
  <2> QED
    BY <1>2, <2>1, <2>2
<1>7. log = << >> => rows = << >>
  <2>1. SUFFICES ASSUME log = << >> PROVE rows = << >>
    OBVIOUS
  <2>2. Starts = {}
    BY <2>1 DEF Starts
  <2>3. Len(b) = 0 /\ config.history \in Nat \ {0}
    BY <1>3, <2>2, FS_EmptySet, KeymapAssumption DEF Listed, TypeOK
  <2>4. Len(rows) = 0
    BY <1>3, <2>3 DEF Showing
  <2> QED
    BY <1>4, <2>4, EmptySeq
<1>8. Repeats(x) <=> ~ new
  <2>1. age = since /\ age \in Nat /\ config.coalesce \in Nat
    BY KeymapAssumption DEF TypeOK, Counted
  <2>2. age <= config.coalesce <=> ~ (e.gap > config.coalesce)
    BY <1>2, <2>1
  <2>3. log # << >> => rows # << >> /\ rows[1].chord = log[Len(log)].chord
    BY DEF Counted
  <2> QED
    BY <1>2, <1>7, <2>2, <2>3, Zenon DEF Repeats
<1> HIDE DEF new
<1>9. CASE Repeats(x)
  <2> DEFINE top == [rows[1] EXCEPT !.count = @ + 1]
             r == <<top>> \o Tail(rows)
  <2>1. rows' = r /\ rows # << >> /\ rows[1].chord = x
    BY <1>9 DEF Show, Repeats
  <2>2. Showing(b, log', rows')
    BY <1>1, <1>2, <1>3, <2>1, OneMore
  <2>3. Starts' = Starts
    BY <1>5, <1>8, <1>9
  <2>4. Showing(b, log, rows)'
    BY <2>2 DEF Showing
  <2>5. rows' # << >> /\ rows'[1].chord = x
    <3>1. rows[1] \in Row
      BY <1>4, <2>1
    <3>2. top.chord = x
      BY <2>1, <3>1 DEF Row
    <3> HIDE DEF top
    <3>3. Tail(rows) \in Seq(Row)
      BY <1>4, <2>1
    <3> QED
      BY <2>1, <3>2, <3>3
  <2> QED
    BY <1>1, <1>3, <1>6, <2>3, <2>4, <2>5 DEF Counted
<1>10. CASE ~ Repeats(x)
  <2> DEFINE top == [chord |-> x, count |-> 1]
             r == Trimmed(<<top>> \o rows)
  <2>0. PICK K \in Nat : K = N
    BY <1>4
  <2> DEFINE a == <<K>> \o b
  <2>1. rows' = r
    BY <1>10 DEF Show
  <2>2. Showing(a, log', rows')
    BY <1>1, <1>2, <1>3, <2>0, <2>1, OneRowMore
  <2>3. Starts' = Starts \cup {N}
    BY <1>5, <1>8, <1>10
  <2>4. Listed(a, Starts')
    <3>1. Starts \in SUBSET (1 .. (N - 1)) /\ N \in Nat \ {0}
      BY <1>4 DEF Starts
    <3> HIDE DEF N
    <3> QED
      BY <1>3, <2>0, <2>3, <3>1, NewestInFront
  <2>5. Showing(a, log, rows)'
    <3> HIDE DEF a
    <3> QED
      BY <2>2 DEF Showing
  <2>6. rows' # << >> /\ rows'[1].chord = x
    <3>1. config.history \in Nat \ {0}
      BY KeymapAssumption DEF TypeOK
    <3> DEFINE s == <<top>> \o rows
    <3>2. top \in Row /\ top.chord = x
      BY DEF Row
    <3> HIDE DEF top
    <3>3. s \in Seq(Row) /\ Len(s) >= 1 /\ s[1] = top
      BY <1>4, <3>2
    <3> HIDE DEF s
    <3>4. Trimmed(s) # << >> /\ Trimmed(s)[1] = s[1]
      BY <3>1, <3>3 DEF Trimmed
    <3> QED
      BY <2>1, <3>2, <3>3, <3>4 DEF s
  <2>7. a \in Seq(Starts')
    BY <2>4, Zenon DEF Listed
  <2> HIDE DEF a
  <2> QED
    BY <1>1, <1>6, <2>4, <2>5, <2>6, <2>7 DEF Counted
<1> QED
  BY <1>9, <1>10

(* Both clocks are wound on alike *)
LEMMA CountedStep == IInv /\ Counted /\ [Next]_kvars => Counted'
<1> SUFFICES ASSUME IInv, Counted, [Next]_kvars PROVE Counted'
  OBVIOUS
<1>1. ASSUME NEW c \in Codes, Pressed(c), UNCHANGED config PROVE Counted'
  <2> DEFINE m == ActiveIn(Downed(c))
             x == ChordOf(c, m)
             t == Types(c, held')
  <2>1. x \in Chord /\ t \in BOOLEAN
    <3>1. x \in Chord
      BY ActiveType, ChordType
    <3>2. t \in BOOLEAN
      BY Zenon DEF Types
    <3> QED
      BY <3>1, <3>2
  <2>2. UNCHANGED <<rows, age, ghosts>> \/ (Show(x) /\ Note(x, t))
    BY <1>1, Zenon DEF Pressed
  <2> HIDE DEF x, t
  <2>3. CASE UNCHANGED <<rows, age, ghosts>>
    BY <1>1, <2>3, CountedSame DEF ghosts
  <2>4. CASE Show(x) /\ Note(x, t)
    BY <1>1, <2>1, <2>4, ShowCounts DEF IInv
  <2> QED
    BY <2>2, <2>3, <2>4
<1>2. ASSUME NEW k \in Keyboards, NEW c \in Codes, Press(k, c) PROVE Counted'
  BY <1>1, <1>2 DEF Press
<1>3. ASSUME NEW k \in Keyboards, NEW c \in Codes, Repeat(k, c) PROVE Counted'
  BY <1>1, <1>3 DEF Repeat, typist
<1>4. ASSUME NEW k \in Keyboards, NEW c \in Codes, Release(k, c) PROVE Counted'
  BY <1>4, CountedSame DEF Release, Released, ghosts
<1>5. ASSUME NEW d \in Delays, Pause(d) PROVE Counted'
  <2>1. UNCHANGED <<config, rows, log>>
    BY <1>5 DEF Pause, typist
  <2>2. age' = since'
    BY <1>5 DEF Pause, Counted
  <2>3. Starts' = Starts
    BY <2>1 DEF Starts
  <2>4. PICK b \in Seq(Starts) : Listed(b, Starts) /\ Showing(b, log, rows)
    BY DEF Counted
  <2>5. b \in Seq(Starts)' /\ Listed(b, Starts') /\ Showing(b, log, rows)'
    BY <2>1, <2>3, <2>4, Zenon DEF Showing
  <2>6. log' # << >> => rows' # << >> /\ rows'[1].chord = log'[Len(log')].chord
    BY <2>1 DEF Counted
  <2> QED
    BY <2>2, <2>5, <2>6 DEF Counted
<1>6. CASE UNCHANGED kvars
  BY <1>6, CountedSame DEF kvars, typist, ghosts
<1> QED
  BY <1>2, <1>3, <1>4, <1>5, <1>6 DEF Next

(* Nothing was pressed yet, and nothing is shown *)
LEMMA CountedInit == Init => Counted
<1> SUFFICES ASSUME Init PROVE Counted
  OBVIOUS
<1>1. Starts = {}
  BY DEF Init, Starts
<1>2. << >> \in Seq(Starts) /\ Len(<< >>) = 0
  BY EmptySeq
<1>3. Listed(<< >>, Starts)
  BY <1>1, <1>2, FS_EmptySet DEF Listed
<1>4. rows = << >> /\ config \in Configs
  BY DEF Init
<1>5. config.history \in Nat \ {0}
  BY <1>4, KeymapAssumption
<1>6. Showing(<< >>, log, rows)
  BY <1>2, <1>4, <1>5 DEF Showing
<1> QED
  BY <1>2, <1>3, <1>6 DEF Init, Counted

(* The rows are the last runs of presses, newest first, each with the      *)
(* number of its presses: none is lost, split or counted twice by the      *)
(* window that every press moves (KeysModel.cpp:198-208).                  *)
THEOREM RowsCountRuns == Spec => []RowsAreRuns
<1>1. IInv /\ Counted => RowsAreRuns
  BY CountedShows DEF IInv
<1> QED
  BY <1>1, CountedInit, CountedStep, Invariance, PTL DEF Spec
=============================================================================
