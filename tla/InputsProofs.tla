--------------------------- MODULE InputsProofs ---------------------------
(***************************************************************************)
(* For a configuration file of any length: a program that accepts it runs  *)
(* with what it says, and whoever asked for privacy mode gets it.  And for *)
(* a command of any length, any budgets and any width: what the ticker     *)
(* shows of it is its head, in whole characters.                           *)
(***************************************************************************)
EXTENDS Inputs, KeysProofs, WellFoundedInduction, SequenceTheorems

----------------------------------------------------------------------------
(* The text F read as a whole: InForce, Target, Assignments and LastWords  *)
(* of Settings, with the text as a parameter.                              *)

Above(F, i) == {j \in 1 .. i - 1 : F[j].kind = "header"}

Highest(S) == CHOOSE j \in S : \A k \in S : k <= j

HeaderOf(F, i) == IF Above(F, i) = {} THEN "" ELSE F[Highest(Above(F, i))].section

AimOf(F, i) == <<HeaderOf(F, i), F[i].key>>

Assigning(F) == {i \in DOMAIN F : Assigns(F[i], HeaderOf(F, i))}

Final(F) == {i \in Assigning(F) : \A j \in Assigning(F) : AimOf(F, j) = AimOf(F, i) => j <= i}

(* The values S are what the text F says. *)
Reflects(F, S) ==
    /\ \A i \in DOMAIN F : F[i].kind # "broken"
    /\ \A i \in Assigning(F) : \E f \in Forms(HeaderOf(F, i), F[i].key) : Takes(f, F[i].raw)
    /\ DOMAIN S = {AimOf(F, i) : i \in Final(F)}
    /\ \A i \in Final(F) : \A f \in Forms(HeaderOf(F, i), F[i].key) :
          S[AimOf(F, i)] = Converted(f, F[i].raw)

(* What the proof says of any sequence of lines is, of the file, what      *)
(* Settings says.                                                          *)
LEMMA SameText ==
    /\ \A i : HeaderOf(file, i) = InForce(i)
    /\ Assigning(file) = Assignments
    /\ Final(file) = LastWords
    /\ \A i : AimOf(file, i) = Target(i)
<1>1. \A i : HeaderOf(file, i) = InForce(i)
  BY Zenon DEF HeaderOf, InForce, Above, Highest
<1>2. \A i : AimOf(file, i) = Target(i)
  BY <1>1, Zenon DEF AimOf, Target
<1>3. Assigning(file) = Assignments
  BY <1>1 DEF Assigning, Assignments
<1>4. Final(file) = LastWords
  BY <1>2, <1>3 DEF Final, LastWords
<1>5. QED
  BY <1>1, <1>2, <1>3, <1>4

(* A key stands in one table at most once *)
LEMMA OneForm ==
    ASSUME NEW s, NEW key
    PROVE  \A f, g \in Forms(s, key) : f = g
<1>1. \/ Table(s) = KeysTable \/ Table(s) = CmdTable \/ Table(s) = BatteryTable
      \/ Table(s) = HudTable \/ Table(s) = ThemeTable \/ Table(s) = SlotTable
      \/ Table(s) = [string |-> {}]
  BY DEF Table
<1>2. ASSUME NEW f \in DOMAIN KeysTable, NEW g \in DOMAIN KeysTable,
             key \in KeysTable[f], key \in KeysTable[g]
      PROVE  f = g
  BY <1>2 DEF KeysTable
<1>3. ASSUME NEW f \in DOMAIN CmdTable, NEW g \in DOMAIN CmdTable,
             key \in CmdTable[f], key \in CmdTable[g]
      PROVE  f = g
  BY <1>3 DEF CmdTable
<1>4. ASSUME NEW f \in DOMAIN BatteryTable, NEW g \in DOMAIN BatteryTable,
             key \in BatteryTable[f], key \in BatteryTable[g]
      PROVE  f = g
  BY <1>4 DEF BatteryTable
<1>5. ASSUME NEW f \in DOMAIN HudTable, NEW g \in DOMAIN HudTable,
             key \in HudTable[f], key \in HudTable[g]
      PROVE  f = g
  BY <1>5 DEF HudTable
<1>6. ASSUME NEW f \in DOMAIN ThemeTable, NEW g \in DOMAIN ThemeTable,
             key \in ThemeTable[f], key \in ThemeTable[g]
      PROVE  f = g
  BY <1>6 DEF ThemeTable
<1>7. ASSUME NEW f \in DOMAIN SlotTable, NEW g \in DOMAIN SlotTable,
             key \in SlotTable[f], key \in SlotTable[g]
      PROVE  f = g
  BY <1>7 DEF SlotTable
<1>8. \A f \in DOMAIN [string |-> {}] : key \notin [string |-> {}][f]
  OBVIOUS
<1>9. QED
  BY <1>1, <1>2, <1>3, <1>4, <1>5, <1>6, <1>7, <1>8 DEF Forms

(* Some lines up to one of them have a highest. *)
LEMMA HighestIs ==
    ASSUME NEW n \in Nat, NEW S \in SUBSET (1 .. n), S # {}
    PROVE  Highest(S) \in S /\ \A k \in S : k <= Highest(S)
<1> DEFINE T == {n - x : x \in S}
<1>1. T \in SUBSET Nat /\ T # {}
  <2>1. \A x \in S : n - x \in Nat
    OBVIOUS
  <2>2. QED
    BY <2>1
<1>2. PICK m \in T : \A y \in T : <<y, m>> \notin OpToRel(<, Nat)
  BY <1>1, NatLessThanWellFounded, WFMin, Zenon
<1>3. \A y \in T : ~ (y < m)
  BY <1>1, <1>2 DEF OpToRel
<1>4. PICK x \in S : m = n - x
  OBVIOUS
<1>5. \A y \in S : y <= x
  <2> SUFFICES ASSUME NEW y \in S PROVE y <= x
    OBVIOUS
  <2>1. n - y \in T
    OBVIOUS
  <2>2. QED
    BY <1>3, <1>4, <2>1
<1>6. \E j \in S : \A k \in S : k <= j
  BY <1>5
<1>7. QED
  BY <1>6, Zenon DEF Highest

----------------------------------------------------------------------------
(* One line more *)

(* It changes no header above the lines before it, nor above itself. *)
LEMMA HeadersStay ==
    ASSUME NEW X, NEW F \in Seq(X), NEW l \in X
    PROVE  LET n == Len(F) + 1
               G == Append(F, l)
           IN  /\ DOMAIN F = 1 .. n - 1 /\ DOMAIN G = 1 .. n /\ n \in Nat \ {0}
               /\ G[n] = l
               /\ \A i \in 1 .. n - 1 : G[i] = F[i]
               /\ \A i \in 1 .. n : HeaderOf(G, i) = HeaderOf(F, i)
               /\ l.kind = "header" => HeaderOf(G, n + 1) = l.section
               /\ l.kind # "header" => HeaderOf(G, n + 1) = HeaderOf(F, n)
<1> DEFINE n == Len(F) + 1
           G == Append(F, l)
<1>1. /\ DOMAIN F = 1 .. n - 1 /\ DOMAIN G = 1 .. n /\ n \in Nat \ {0}
      /\ G[n] = l
      /\ \A i \in 1 .. n - 1 : G[i] = F[i]
  OBVIOUS
<1> HIDE DEF n, G
<1>2. ASSUME NEW i \in 1 .. n
      PROVE  HeaderOf(G, i) = HeaderOf(F, i)
  <2>1. Above(G, i) = Above(F, i)
    BY <1>1 DEF Above
  <2>2. CASE Above(F, i) = {}
    BY <2>1, <2>2 DEF HeaderOf
  <2>3. CASE Above(F, i) # {}
    <3>1. Above(F, i) \in SUBSET (1 .. n - 1) /\ n - 1 \in Nat
      BY <1>1 DEF Above
    <3>2. Highest(Above(F, i)) \in 1 .. n - 1
      BY <2>3, <3>1, HighestIs
    <3>3. G[Highest(Above(F, i))] = F[Highest(Above(F, i))]
      BY <1>1, <3>2
    <3>4. QED
      BY <2>1, <2>3, <3>3 DEF HeaderOf
  <2>4. QED
    BY <2>2, <2>3
<1>0. \A j : j \in Above(G, n + 1) <=> j \in 1 .. n /\ G[j].kind = "header"
  <2>1. (n + 1) - 1 = n
    BY <1>1
  <2>2. QED
    BY <2>1, Zenon DEF Above
<1>3. ASSUME l.kind = "header"
      PROVE  HeaderOf(G, n + 1) = l.section
  <2>1. /\ Above(G, n + 1) \in SUBSET (1 .. n)
        /\ n \in Above(G, n + 1)
    BY <1>0, <1>1, <1>3
  <2>2. /\ Highest(Above(G, n + 1)) \in 1 .. n
        /\ n <= Highest(Above(G, n + 1))
    BY <1>1, <2>1, HighestIs
  <2>3. Highest(Above(G, n + 1)) = n
    BY <1>1, <2>2
  <2>4. QED
    BY <1>1, <2>1, <2>3 DEF HeaderOf
<1>4. ASSUME l.kind # "header"
      PROVE  HeaderOf(G, n + 1) = HeaderOf(F, n)
  <2>1. Above(G, n + 1) = Above(G, n)
    <3>1. \A j : j \in 1 .. n <=> j \in 1 .. n - 1 \/ j = n
      BY <1>1
    <3>2. \A j : j \in Above(G, n) <=> j \in 1 .. n - 1 /\ G[j].kind = "header"
      BY Zenon DEF Above
    <3>3. \A j : j \in Above(G, n + 1) <=> j \in Above(G, n)
      BY <1>0, <1>1, <1>4, <3>1, <3>2
    <3>4. QED
      BY <3>3
  <2>2. HeaderOf(G, n + 1) = HeaderOf(G, n)
    BY <2>1, Zenon DEF HeaderOf
  <2>3. QED
    BY <1>1, <1>2, <2>2
<1>5. QED
  BY <1>1, <1>2, <1>3, <1>4 DEF n, G

(* The settings after line l of the section, which is not wrong *)
After(l) ==
    IF Assigns(l, section)
    THEN With(<<section, l.key>>, CHOOSE f \in Forms(section, l.key) : TRUE, l.raw)
    ELSE settings

(* Reading a line that is not wrong keeps what the text says. *)
LEMMA LineReflected ==
    ASSUME NEW X, file \in Seq(X), NEW l \in X, ~ Wrong(l),
           section = HeaderOf(file, Len(file) + 1), Reflects(file, settings)
    PROVE  Reflects(Append(file, l), After(l))
<1> DEFINE F == file
           n == Len(F) + 1
           G == Append(F, l)
           t == <<section, l.key>>
<1>1. /\ DOMAIN F = 1 .. n - 1 /\ DOMAIN G = 1 .. n /\ n \in Nat \ {0}
      /\ G[n] = l
      /\ \A i \in 1 .. n - 1 : G[i] = F[i]
      /\ \A i \in 1 .. n : HeaderOf(G, i) = HeaderOf(F, i)
  BY HeadersStay
<1>2. section = HeaderOf(F, n)
  OBVIOUS
<1> HIDE DEF F, n, G
<1>3. /\ AimOf(G, n) = t /\ HeaderOf(G, n) = section
      /\ \A i \in 1 .. n - 1 : AimOf(G, i) = AimOf(F, i) /\ HeaderOf(G, i) = HeaderOf(F, i)
  <2>1. n \in 1 .. n /\ \A i \in 1 .. n - 1 : i \in 1 .. n
    BY <1>1
  <2>2. /\ HeaderOf(G, n) = section
        /\ \A i \in 1 .. n - 1 : HeaderOf(G, i) = HeaderOf(F, i)
    BY <1>1, <1>2, <2>1
  <2>3. AimOf(G, n) = t
    BY <1>1, <2>2 DEF AimOf
  <2>4. \A i \in 1 .. n - 1 : AimOf(G, i) = AimOf(F, i)
    BY <1>1, <2>2, Zenon DEF AimOf
  <2>5. QED
    BY <2>2, <2>3, <2>4
<1>4. /\ Assigning(F) \subseteq 1 .. n - 1
      /\ Assigns(l, section) => Assigning(G) = Assigning(F) \cup {n}
      /\ ~ Assigns(l, section) => Assigning(G) = Assigning(F)
  <2>1. \A i \in 1 .. n - 1 : i \in Assigning(G) <=> i \in Assigning(F)
    BY <1>1, <1>3 DEF Assigning
  <2>2. n \in Assigning(G) <=> Assigns(l, section)
    BY <1>1, <1>3 DEF Assigning
  <2>3. Assigning(F) \subseteq 1 .. n - 1 /\ Assigning(G) \subseteq 1 .. n
    BY <1>1 DEF Assigning
  <2>4. \A i : i \in 1 .. n <=> i \in 1 .. n - 1 \/ i = n
    BY <1>1
  <2>5. CASE Assigns(l, section)
    <3>1. \A i : i \in Assigning(G) <=> i \in Assigning(F) \/ i = n
      BY <2>1, <2>2, <2>3, <2>4, <2>5
    <3>2. QED
      BY <2>3, <2>5, <3>1
  <2>6. CASE ~ Assigns(l, section)
    <3>1. \A i : i \in Assigning(G) <=> i \in Assigning(F)
      BY <2>1, <2>2, <2>3, <2>4, <2>6
    <3>2. QED
      BY <2>3, <2>6, <3>1
  <2>7. QED
    BY <2>5, <2>6
<1>5. /\ l.kind # "broken"
      /\ Assigns(l, section) => \E f \in Forms(section, l.key) : Takes(f, l.raw)
  BY DEF Wrong
<1>6. Reflects(F, settings)
  BY DEF F
<1>7. \A i \in DOMAIN G : G[i].kind # "broken"
  <2>1. \A i \in 1 .. n - 1 : F[i].kind # "broken"
    BY <1>1, <1>6 DEF Reflects
  <2>2. QED
    BY <1>1, <1>5, <2>1
<1>8. \A i \in Assigning(G) : \E f \in Forms(HeaderOf(G, i), G[i].key) : Takes(f, G[i].raw)
  <2>1. \A i \in Assigning(F) : \E f \in Forms(HeaderOf(F, i), F[i].key) : Takes(f, F[i].raw)
    BY <1>6 DEF Reflects
  <2>2. ASSUME NEW i \in Assigning(F)
        PROVE  \E f \in Forms(HeaderOf(G, i), G[i].key) : Takes(f, G[i].raw)
    <3>1. G[i] = F[i] /\ HeaderOf(G, i) = HeaderOf(F, i)
      BY <1>1, <1>3, <1>4
    <3>2. QED
      BY <2>1, <3>1
  <2>3. CASE Assigns(l, section)
    BY <1>1, <1>3, <1>4, <1>5, <2>2, <2>3
  <2>4. QED
    BY <1>4, <2>2, <2>3
<1>9. /\ DOMAIN settings = {AimOf(F, i) : i \in Final(F)}
      /\ \A i \in Final(F) : \A f \in Forms(HeaderOf(F, i), F[i].key) :
            settings[AimOf(F, i)] = Converted(f, F[i].raw)
  BY <1>6 DEF Reflects
<1>10. CASE ~ Assigns(l, section)
  <2>1. After(l) = settings
    BY <1>10 DEF After
  <2>2. Final(G) = Final(F) /\ Final(F) \subseteq 1 .. n - 1
    BY <1>3, <1>4, <1>10 DEF Final
  <2>3. {AimOf(G, i) : i \in Final(G)} = {AimOf(F, i) : i \in Final(F)}
    BY <1>3, <2>2
  <2>4. \A i \in Final(F) : G[i] = F[i] /\ HeaderOf(G, i) = HeaderOf(F, i) /\ AimOf(G, i) = AimOf(F, i)
    BY <1>1, <1>3, <2>2
  <2>5. \A i \in Final(G) : \A f \in Forms(HeaderOf(G, i), G[i].key) :
           settings[AimOf(G, i)] = Converted(f, G[i].raw)
    BY <1>9, <2>2, <2>4
  <2>6. QED
    BY <1>7, <1>8, <1>9, <2>1, <2>3, <2>5 DEF Reflects, G, F
<1>11. CASE Assigns(l, section)
  <2> DEFINE g == CHOOSE f \in Forms(section, l.key) : TRUE
             v == Converted(g, l.raw)
  <2>1. After(l) = [x \in DOMAIN settings \cup {t} |-> IF x = t THEN v ELSE settings[x]]
    BY <1>11, Zenon DEF After, With
  <2>2. \A f \in Forms(section, l.key) : f = g
    <3>1. g \in Forms(section, l.key)
      BY <1>11 DEF Assigns
    <3>2. QED
      BY <3>1, OneForm
  <2>3. Final(F) \subseteq 1 .. n - 1
    BY <1>4 DEF Final
  <2>4. Final(G) = {i \in Final(F) : AimOf(F, i) # t} \cup {n}
    <3>1. n \in Final(G)
      BY <1>1, <1>4, <1>11 DEF Final
    <3>2. ASSUME NEW i \in Assigning(F)
          PROVE  i \in Final(G) <=> i \in Final(F) /\ AimOf(F, i) # t
      <4>1. i \in 1 .. n - 1 /\ i \in Assigning(G) /\ ~ (n <= i)
        BY <1>1, <1>4, <1>11
      <4>2. i \in Final(G) <=> /\ \A j \in Assigning(F) : AimOf(G, j) = AimOf(G, i) => j <= i
                               /\ AimOf(G, n) # AimOf(G, i)
        BY <1>4, <1>11, <4>1 DEF Final
      <4>3. \A j \in Assigning(F) : AimOf(G, j) = AimOf(F, j)
        BY <1>3, <1>4
      <4>4. QED
        BY <1>3, <4>2, <4>3 DEF Final
    <3>3. Final(G) \subseteq Assigning(F) \cup {n} /\ Final(F) \subseteq Assigning(F)
      BY <1>4, <1>11 DEF Final
    <3>4. QED
      BY <3>1, <3>2, <3>3
  <2>5. \A i \in Final(F) : G[i] = F[i] /\ HeaderOf(G, i) = HeaderOf(F, i) /\ AimOf(G, i) = AimOf(F, i)
    BY <1>1, <1>3, <2>3
  <2> HIDE DEF t, v, g
  <2>6. DOMAIN After(l) = {AimOf(G, i) : i \in Final(G)}
    <3>1. DOMAIN After(l) = DOMAIN settings \cup {t}
      BY <2>1
    <3>2. \A x \in DOMAIN settings : x # t => \E i \in Final(G) : x = AimOf(G, i)
      BY <1>9, <2>4, <2>5
    <3>3. t = AimOf(G, n) /\ n \in Final(G)
      BY <1>3, <2>4 DEF t
    <3>4. \A i \in Final(G) : AimOf(G, i) \in DOMAIN settings \cup {t}
      BY <1>9, <2>4, <2>5, <3>3
    <3>5. QED
      BY <3>1, <3>2, <3>3, <3>4
  <2>7. ASSUME NEW i \in Final(G), NEW f \in Forms(HeaderOf(G, i), G[i].key)
        PROVE  After(l)[AimOf(G, i)] = Converted(f, G[i].raw)
    <3>1. CASE i = n
      <4>1. G[i] = l /\ HeaderOf(G, i) = section /\ AimOf(G, i) = t
        BY <1>1, <1>3, <3>1 DEF t
      <4>2. f = g
        BY <2>2, <4>1
      <4>3. After(l)[t] = v
        BY <2>1
      <4>4. QED
        BY <4>1, <4>2, <4>3 DEF v
    <3>2. CASE i # n
      <4>1. i \in Final(F) /\ AimOf(F, i) # t
        BY <2>4, <3>2
      <4>2. G[i] = F[i] /\ HeaderOf(G, i) = HeaderOf(F, i) /\ AimOf(G, i) = AimOf(F, i)
        BY <2>5, <4>1
      <4>3. AimOf(F, i) \in DOMAIN settings
        BY <1>9, <4>1
      <4>4. After(l)[AimOf(F, i)] = settings[AimOf(F, i)]
        BY <2>1, <4>1, <4>3
      <4>5. QED
        BY <1>9, <4>1, <4>2, <4>4
    <3>3. QED
      BY <3>1, <3>2
  <2>8. QED
    BY <1>7, <1>8, <2>6, <2>7 DEF Reflects, G, F
<1>12. QED
  BY <1>10, <1>11

----------------------------------------------------------------------------
(* What holds while the file is read, and of what is accepted *)

Parsed ==
    /\ file \in Seq(Lines[program]) /\ faulty \in BOOLEAN
    /\ phase = "start" => /\ file = << >> /\ settings = << >> /\ section = "" /\ ~ faulty
    /\ phase # "running" => section = HeaderOf(file, Len(file) + 1)
    /\ phase # "running" /\ ~ faulty => Reflects(file, settings)
    /\ phase = "accepted" => ~ faulty /\ \E least \in HoldMinimum : InRange(least)

(* The text says the same as long as the program is the same. *)
LEMMA SameProgram ==
    ASSUME program' = program
    PROVE  \A F, S : Reflects(F, S)' <=> Reflects(F, S)
<1>1. \A s, key : Forms(s, key)' = Forms(s, key)
  BY DEF Forms, Table
<1>2. \A l, s : Assigns(l, s)' <=> Assigns(l, s)
  BY <1>1 DEF Assigns
<1>3. \A F : Assigning(F)' = Assigning(F)
  BY <1>2 DEF Assigning
<1>4. \A F : Final(F)' = Final(F)
  BY <1>3, Zenon DEF Final
<1>5. QED
  BY <1>1, <1>3, <1>4, Zenon DEF Reflects

(* Its settings are in range as long as they are the same. *)
LEMMA SameRange ==
    ASSUME program' = program, settings' = settings
    PROVE  (\E least \in HoldMinimum : InRange(least))'
              <=> \E least \in HoldMinimum : InRange(least)
<1>1. \A key, default : Setting(key, default)' = Setting(key, default)
  BY Zenon DEF Setting
<1>2. HoldMinimum' = HoldMinimum
  BY <1>1, Zenon DEF HoldMinimum
<1>3. \A least : KeysInRange(least)' <=> KeysInRange(least)
  BY SMT DEF KeysInRange, KeysNamed, RowsInRange, PanelInRange, Setting
<1>4. CmdInRange' <=> CmdInRange
  BY SMT DEF CmdInRange, TickerInRange, WidthInRange, Setting
<1>5. QED
  BY <1>2, <1>3, <1>4, Zenon DEF InRange

(* An empty text leaves every setting at its default. *)
LEMMA NothingReflected == Reflects(<< >>, << >>) /\ HeaderOf(<< >>, Len(<< >>) + 1) = ""
<1>1. Assigning(<< >>) = {} /\ Final(<< >>) = {}
  BY DEF Assigning, Final
<1>2. DOMAIN << >> = {} /\ Above(<< >>, Len(<< >>) + 1) = {}
  BY DEF Above
<1>3. QED
  BY <1>1, <1>2 DEF Reflects, HeaderOf

(* The values that stand when nothing is set are within their ranges. *)
LEMMA DefaultsInRange ==
    ASSUME settings = << >>
    PROVE  \E least \in HoldMinimum : InRange(least)
<1>1. \A key, default : Setting(key, default) = default
  BY DEF Setting
<1>2. 250 \in HoldMinimum
  BY <1>1 DEF HoldMinimum, IntMax
<1>3. KeysInRange(250)
  <2>1. DOMAIN settings = {}
    OBVIOUS
  <2>2. QED
    BY <2>1, SMT DEF KeysInRange, KeysNamed, RowsInRange, Histories, Windows, PanelInRange, Setting
<1>4. CmdInRange
  <2>1. DOMAIN settings = {}
    OBVIOUS
  <2>2. QED
    BY <2>1, SMT DEF CmdInRange, TickerInRange, WidthInRange, Setting
<1>5. QED
  BY <1>2, <1>3, <1>4 DEF InRange

(* Reading a line: what was wrong stays wrong, what is right is reflected. *)
LEMMA ReadParses ==
    ASSUME Parsed, NEW l \in Lines[program], Read(l)
    PROVE  Parsed'
<1>1. /\ phase = "reading" /\ phase' = "reading" /\ program' = program
      /\ file' = Append(file, l) /\ faulty' = (faulty \/ Wrong(l))
      /\ section' = IF l.kind = "header" THEN l.section ELSE section
      /\ file \in Seq(Lines[program]) /\ faulty \in BOOLEAN
      /\ section = HeaderOf(file, Len(file) + 1)
  BY DEF Read, Noted, Parsed
<1>2. file' \in Seq(Lines[program]) /\ Len(file') = Len(file) + 1
  BY <1>1
<1>3. faulty' \in BOOLEAN
  BY <1>1 DEF Wrong, Assigns
<1>4. section' = HeaderOf(file', Len(file') + 1)
  BY <1>1, <1>2, HeadersStay
<1>5. ASSUME ~ faulty'
      PROVE  Reflects(file, settings)'
  <2>1. ~ faulty /\ ~ Wrong(l)
    BY <1>1, <1>5
  <2>2. Reflects(file, settings)
    BY <1>1, <2>1 DEF Parsed
  <2>3. settings' = After(l)
    <3>1. settings' = IF Writes(l)
                      THEN With(<<section, l.key>>, CHOOSE f \in Forms(section, l.key) : TRUE, l.raw)
                      ELSE settings
      BY Zenon DEF Read
    <3>2. CASE Assigns(l, section)
      BY <2>1, <3>1, <3>2, SMT DEF After, Writes
    <3>3. CASE ~ Assigns(l, section)
      BY <3>1, <3>3, Zenon DEF After, Writes
    <3>4. QED
      BY <3>2, <3>3
  <2>4. Reflects(file', settings')
    BY <1>1, <2>1, <2>2, <2>3, LineReflected, Zenon
  <2>5. QED
    BY <1>1, <2>4, SameProgram, Zenon
<1>6. Parsed'
  <2>1. (phase = "start")' = FALSE /\ (phase = "accepted")' = FALSE
    BY <1>1
  <2>2. (HeaderOf(file, Len(file) + 1))' = HeaderOf(file', Len(file') + 1)
    BY DEF HeaderOf, Above, Highest
  <2>3. QED
    BY <1>1, <1>2, <1>3, <1>4, <1>5, <2>1, <2>2 DEF Parsed
<1>7. QED
  BY <1>6

(* The rest of the loading leaves the text and what is made of it alone. *)
LEMMA LoadParses ==
    ASSUME Parsed, Load
    PROVE  Parsed'
<1>1. ASSUME /\ UNCHANGED <<program, section, settings, faulty, file>>
             /\ phase \in {"start", "reading"} /\ phase' # "start"
             /\ phase' = "accepted" => ~ faulty /\ \E least \in HoldMinimum : InRange(least)
      PROVE  Parsed'
  <2>1. Reflects(file, settings)' <=> Reflects(file, settings)
    BY <1>1, SameProgram, Zenon
  <2>2. (HeaderOf(file, Len(file) + 1))' = HeaderOf(file, Len(file) + 1)
    BY <1>1 DEF HeaderOf, Above, Highest
  <2>3. (\E least \in HoldMinimum : InRange(least))' <=> \E least \in HoldMinimum : InRange(least)
    BY <1>1, SameRange, Zenon
  <2>4. QED
    BY <1>1, <2>1, <2>2, <2>3 DEF Parsed
<1>2. CASE Missing \/ Unusable
  <2>1. phase = "start" /\ phase' \in {"accepted", "refused"}
        /\ UNCHANGED <<program, section, settings, faulty, file>>
    BY <1>2 DEF Missing, Unusable, Untouched
  <2>2. settings = << >> /\ ~ faulty
    BY <2>1 DEF Parsed
  <2>3. QED
    BY <1>1, <2>1, <2>2, DefaultsInRange
<1>3. CASE Opened
  BY <1>1, <1>3 DEF Opened, Untouched
<1>4. CASE EndOfFile \/ BreaksOff
  <2>1. /\ phase = "reading" /\ phase' \in Verdicts
        /\ UNCHANGED <<program, section, settings, faulty, file>>
    BY <1>4 DEF EndOfFile, BreaksOff, Untouched
  <2>2. /\ phase' \in {"accepted", "refused"}
        /\ phase' = "accepted" => ~ faulty /\ \E least \in HoldMinimum : InRange(least)
    BY <2>1 DEF Verdicts
  <2>3. QED
    BY <1>1, <2>1, <2>2
<1>5. CASE \E l \in Lines[program] : Read(l)
  BY <1>5, ReadParses
<1>6. QED
  BY <1>2, <1>3, <1>4, <1>5 DEF Load

(* Parsed survives a line, a load, a start and every step of a program     *)
(* that runs.                                                              *)
LEMMA StepParses == Parsed /\ [InputsNext]_vars => Parsed'
<1> SUFFICES ASSUME Parsed, [InputsNext]_vars PROVE Parsed'
  OBVIOUS
<1>1. CASE Reads
  BY <1>1, LoadParses DEF Reads
<1>2. CASE StartKeys \/ StartTicker
  <2>1. phase' = "running" /\ file' = << >> /\ faulty' = faulty
    BY <1>2 DEF StartKeys, StartTicker, Runs
  <2>2. file' \in Seq(Lines[program']) /\ faulty' \in BOOLEAN
    BY <2>1, EmptySeq DEF Parsed
  <2>3. QED
    BY <2>1, <2>2 DEF Parsed
<1>3. CASE Keys \/ Commands \/ UNCHANGED vars
  <2>1. UNCHANGED svars
    BY <1>3 DEF Keys, Commands, vars
  <2>2. UNCHANGED <<program, phase, section, settings, faulty, file>>
    BY <2>1 DEF svars
  <2>3. Reflects(file, settings)' <=> Reflects(file, settings)
    BY <2>2, SameProgram, Zenon
  <2>4. (HeaderOf(file, Len(file) + 1))' = HeaderOf(file, Len(file) + 1)
    BY <2>2 DEF HeaderOf, Above, Highest
  <2>5. (\E least \in HoldMinimum : InRange(least))' <=> \E least \in HoldMinimum : InRange(least)
    BY <2>2, SameRange, Zenon
  <2>6. QED
    BY <2>2, <2>3, <2>4, <2>5 DEF Parsed
<1>4. QED
  BY <1>1, <1>2, <1>3 DEF InputsNext

(* Nothing was read, and nothing is set.                                   *)
LEMMA InitParses == InputsInit => Parsed
<1> SUFFICES ASSUME InputsInit PROVE Parsed
  OBVIOUS
<1>1. /\ phase = "start" /\ section = "" /\ settings = << >> /\ faulty = FALSE /\ file = << >>
  BY DEF InputsInit, SettingsInit
<1>2. Reflects(file, settings) /\ HeaderOf(file, Len(file) + 1) = section
  BY <1>1, NothingReflected
<1>3. file \in Seq(Lines[program])
  BY <1>1, EmptySeq
<1>4. QED
  BY <1>1, <1>2, <1>3 DEF Parsed

(* The invariant holds throughout.                                         *)
LEMMA AlwaysParsed == InputsSpec => []Parsed
BY InitParses, StepParses, PTL DEF InputsSpec

(* What a program takes, it takes for what it says, or bends. *)
LEMMA TakenAsMeant ==
    ASSUME NEW s, NEW key, NEW f \in Forms(s, key), NEW raw, Takes(f, raw)
    PROVE  Converted(f, raw) \in Means(f, raw) \/ Bent(raw)
<1>1. f \in {"wrapped", "any"} => ~ Careful
  <2>1. /\ DOMAIN KeysTable \cap {"wrapped", "any"} = {}
        /\ DOMAIN CmdTable \cap {"wrapped", "any"} = {}
        /\ DOMAIN [string |-> {}] \cap {"wrapped", "any"} = {}
    BY DEF KeysTable, CmdTable
  <2>2. Careful => Table(s) \in {KeysTable, CmdTable, [string |-> {}]}
    BY DEF Careful, Table
  <2>3. f \in DOMAIN Table(s)
    BY DEF Forms
  <2>4. QED
    BY <2>1, <2>2, <2>3
<1>2. CASE f \in {"int", "wrapped"}
  BY <1>1, <1>2 DEF Takes, Converted, Means, Bent
<1>3. CASE f \in {"number", "any"}
  BY <1>1, <1>3 DEF Takes, Converted, Means, Bent, Numbers
<1>4. CASE f \in {"bool", "loose"}
  <2> DEFINE Says(b) == IF raw.form = "integer" THEN raw.num = IF b THEN 1 ELSE 0
                        ELSE raw.word \in IF b THEN Affirmed ELSE Denied
  <2>1. Means(f, raw) = {b \in BOOLEAN : Says(b)}
    BY <1>4 DEF Means
  <2>2. Converted(f, raw) = IF raw.form = "integer" THEN raw.num = 1 ELSE raw.word \in Affirmed
    BY <1>4 DEF Converted
  <2>3. raw.form = "integer" => raw.num \in {0, 1}
    BY <1>4 DEF Takes
  <2>4. raw.form # "integer" => raw.word \in Affirmed \cup Denied
    BY <1>4 DEF Takes, Affirmed, Denied
  <2>5. CASE Converted(f, raw)
    <3>1. Converted(f, raw) = TRUE /\ Says(TRUE)
      BY <2>2, <2>5
    <3>2. QED
      BY <2>1, <3>1
  <2>6. CASE ~ Converted(f, raw)
    <3>1. Converted(f, raw) = FALSE
      BY <2>2, <2>6
    <3>2. Says(FALSE)
      <4>1. CASE raw.form = "integer"
        BY <2>2, <2>3, <2>6, <4>1
      <4>2. CASE raw.form # "integer"
        BY <2>2, <2>4, <2>6, <4>2
      <4>3. QED
        BY <4>1, <4>2
    <3>3. QED
      BY <2>1, <3>1, <3>2
  <2>7. QED
    BY <2>5, <2>6
<1>5. CASE f \in {"string", "mode", "pose", "policy"}
  BY <1>5 DEF Takes, Converted, Means
<1>6. f \in {"string", "int", "wrapped", "number", "any", "bool", "loose", "mode", "pose", "policy"}
  <2>1. f \in DOMAIN Table(s)
    BY DEF Forms
  <2>2. \/ Table(s) = KeysTable \/ Table(s) = CmdTable \/ Table(s) = BatteryTable
        \/ Table(s) = HudTable \/ Table(s) = ThemeTable \/ Table(s) = SlotTable
        \/ Table(s) = [string |-> {}]
    BY DEF Table
  <2>3. QED
    BY <2>1, <2>2 DEF KeysTable, CmdTable, BatteryTable, HudTable, ThemeTable, SlotTable
<1>7. QED
  BY <1>2, <1>3, <1>4, <1>5, <1>6

(* A program that has read its file to the end and starts has made sense   *)
(* of every line for one of its keys, and runs with what the last such     *)
(* line says of each key and with the default of every other (but for the  *)
(* numbers that two of the programs bend), whatever the lines, the         *)
(* sections and the order they come in (parseKeysConfig and its like).     *)
THEOREM FileIsUnderstood == InputsSpec => []AcceptedAsWritten
<1>1. Parsed => AcceptedAsWritten
  <2> SUFFICES ASSUME Parsed, phase = "accepted", ~ faulty, Reflects(file, settings)
               PROVE  AcceptedAsWritten
    BY DEF Parsed, AcceptedAsWritten
  <2>1. /\ \A i \in DOMAIN file : file[i].kind # "broken"
        /\ DOMAIN settings = {Target(i) : i \in LastWords}
        /\ \A i \in Assignments : \E f \in Forms(InForce(i), file[i].key) : Takes(f, file[i].raw)
        /\ \A i \in LastWords : \A f \in Forms(InForce(i), file[i].key) :
              settings[Target(i)] = Converted(f, file[i].raw)
    BY SameText, Zenon DEF Reflects
  <2>2. ASSUME NEW i \in Assignments, NEW f \in Forms(InForce(i), file[i].key)
        PROVE  Converted(f, file[i].raw) \in Means(f, file[i].raw) \/ Bent(file[i].raw)
    <3>1. PICK g \in Forms(InForce(i), file[i].key) : Takes(g, file[i].raw)
      BY <2>1
    <3>2. f = g
      BY OneForm, Zenon
    <3>3. QED
      BY <3>1, <3>2, TakenAsMeant, Zenon
  <2>3. \A i \in LastWords : i \in Assignments
    BY DEF LastWords
  <2>4. \A i \in Assignments : \A f \in Forms(InForce(i), file[i].key) :
           Means(f, file[i].raw) # {} \/ Bent(file[i].raw)
    BY <2>2
  <2>5. \A i \in LastWords : \A f \in Forms(InForce(i), file[i].key) :
           settings[Target(i)] \in Means(f, file[i].raw) \/ Bent(file[i].raw)
    BY <2>1, <2>2, <2>3, Zenon
  <2>6. QED
    BY <2>1, <2>4, <2>5, Zenon DEF AcceptedAsWritten
<1>2. QED
  BY <1>1, AlwaysParsed, PTL

----------------------------------------------------------------------------
(* Privacy *)

(* The configurations that parseKeysConfig lets pass are among those that  *)
(* Keystrokes is about.                                                    *)
AcceptsConfigs == [history : Histories, coalesce : Windows, modsOnly : BOOLEAN] \subseteq Configs

(* Nothing has been typed, pressed or shown. *)
Fresh ==
    /\ pressed = {} /\ down = [c \in Codes |-> 0]
    /\ rows = << >> /\ age = 0 /\ log = << >> /\ since = 0

Obeyed ==
    /\ forceModsOnly \in BOOLEAN
    /\ phase # "running" \/ program # "keys" => Fresh /\ ~ asked
    /\ phase = "running" /\ program = "keys" => IInv /\ (asked => config.modsOnly)

(* What is accepted as the setting is what the last word on it says. *)
LEMMA LastWordCounts ==
    ASSUME Parsed, phase = "accepted", program = "keys"
    PROVE  /\ Setting("mods_only", FALSE) \in BOOLEAN
           /\ \A i \in LastWords :
                 Target(i) = <<"keys", "mods_only">> /\ file[i].raw.word = "true" =>
                    Setting("mods_only", FALSE) = TRUE
<1> DEFINE t == <<"keys", "mods_only">>
<1>1. Reflects(file, settings)
  BY DEF Parsed
<1>2. "bool" \in Forms("keys", "mods_only")
  <2>1. Table("keys") = KeysTable
    BY DEF Table
  <2>2. "bool" \in DOMAIN KeysTable /\ "mods_only" \in KeysTable["bool"]
    BY DEF KeysTable
  <2>3. QED
    BY <2>1, <2>2 DEF Forms
<1>3. ASSUME NEW i \in Final(file), AimOf(file, i) = t
      PROVE  settings[t] = (file[i].raw.word \in Affirmed)
  <2>1. HeaderOf(file, i) = "keys" /\ file[i].key = "mods_only"
    BY <1>3 DEF AimOf
  <2>2. i \in Assigning(file)
    BY DEF Final
  <2>3. PICK f \in Forms("keys", "mods_only") : Takes(f, file[i].raw)
    BY <1>1, <2>1, <2>2 DEF Reflects
  <2>4. f = "bool"
    BY <1>2, OneForm
  <2>5. file[i].raw.form = "word"
    BY <2>3, <2>4 DEF Takes
  <2>6. settings[t] = Converted("bool", file[i].raw)
    BY <1>1, <1>2, <1>3, <2>1 DEF Reflects
  <2>7. QED
    BY <2>5, <2>6 DEF Converted
<1>4. DOMAIN settings = {AimOf(file, i) : i \in Final(file)}
  BY <1>1 DEF Reflects
<1>5. Setting("mods_only", FALSE) = IF t \in DOMAIN settings THEN settings[t] ELSE FALSE
  BY DEF Setting
<1> HIDE DEF t
<1>6. ASSUME t \in DOMAIN settings
      PROVE  settings[t] \in BOOLEAN
  <2>1. PICK i \in Final(file) : AimOf(file, i) = t
    BY <1>4, <1>6
  <2>2. settings[t] = (file[i].raw.word \in Affirmed)
    BY <1>3, <2>1
  <2>3. QED
    BY <2>2
<1>7. ASSUME NEW i \in Final(file), AimOf(file, i) = t, file[i].raw.word = "true"
      PROVE  Setting("mods_only", FALSE) = TRUE
  <2>1. "true" \in Affirmed
    BY DEF Affirmed
  <2>2. settings[t] = TRUE
    BY <1>3, <1>7, <2>1
  <2>3. QED
    BY <1>4, <1>5, <1>7, <2>2
<1>8. Setting("mods_only", FALSE) \in BOOLEAN
  BY <1>5, <1>6
<1>9. QED
  BY <1>7, <1>8, SameText DEF t

(* A program that may run, runs with a configuration Keystrokes is about. *)
LEMMA ConfigFits ==
    ASSUME Parsed, phase = "accepted", program = "keys", forceModsOnly \in BOOLEAN, AcceptsConfigs
    PROVE  [history |-> Setting("history", 3), coalesce |-> Setting("coalesce_ms", 900),
            modsOnly |-> ModsOnly] \in Configs
<1>1. PICK least \in HoldMinimum : InRange(least)
  BY DEF Parsed
<1>2. KeysInRange(least)
  BY <1>1, Zenon DEF InRange
<1>3. RowsInRange
  BY <1>2, Zenon DEF KeysInRange
<1>4. Setting("history", 3) \in Histories /\ Setting("coalesce_ms", 900) \in Windows
  BY <1>3, Zenon DEF RowsInRange
<1>5. ModsOnly \in BOOLEAN
  BY LastWordCounts DEF ModsOnly
<1>6. QED
  BY <1>4, <1>5, SMT DEF AcceptsConfigs

(* Whoever asks for privacy, in the file or on the command line, gets      *)
(* mods_only.                                                              *)
LEMMA AskedIsTold ==
    ASSUME Parsed, phase = "accepted", program = "keys", forceModsOnly \in BOOLEAN, Asks
    PROVE  ModsOnly = TRUE
<1>1. CASE forceModsOnly
  BY <1>1, LastWordCounts DEF ModsOnly
<1>2. CASE \E i \in LastWords : /\ Target(i) = <<"keys", "mods_only">>
                                /\ file[i].raw.word = "true"
  BY <1>2, LastWordCounts DEF ModsOnly
<1>3. QED
  BY <1>1, <1>2 DEF Asks

(* The history begins empty and as private as was asked.                   *)
LEMMA StartObeys ==
    ASSUME Parsed, Obeyed, AcceptsConfigs, StartKeys
    PROVE  Obeyed'
<1>1. /\ phase = "accepted" /\ program = "keys" /\ phase' = "running" /\ program' = program
      /\ forceModsOnly' = FALSE /\ forceModsOnly \in BOOLEAN /\ asked' = Asks
      /\ config' = [history |-> Setting("history", 3), coalesce |-> Setting("coalesce_ms", 900),
                    modsOnly |-> ModsOnly]
      /\ held' \in Holdings
      /\ UNCHANGED <<pressed, down, rows, age, log, since>>
  BY DEF StartKeys, Runs, Obeyed, ghosts
<1>2. config' \in Configs
  BY <1>1, ConfigFits
<1>3. Init'
  BY <1>1, <1>2 DEF Init, Obeyed, Fresh, Holdings
<1>4. IInv'
  BY <1>3, InitHolds, PTL
<1>5. asked' => config'.modsOnly
  BY <1>1, AskedIsTold
<1>6. QED
  BY <1>1, <1>4, <1>5 DEF Obeyed

(* Once it runs, the history keeps the privacy it began with.              *)
LEMMA StepObeys == Parsed /\ Obeyed /\ AcceptsConfigs /\ [InputsNext]_vars => Obeyed'
<1> SUFFICES ASSUME Parsed, Obeyed, AcceptsConfigs, [InputsNext]_vars PROVE Obeyed'
  OBVIOUS
<1>1. ASSUME UNCHANGED <<kvars, asked, program, forceModsOnly>>, phase = "running" <=> phase' = "running"
      PROVE  Obeyed'
  <2>1. UNCHANGED <<config, held, pressed, down, rows, age, log, since>>
    BY <1>1 DEF kvars, typist, ghosts
  <2>2. Fresh' <=> Fresh
    BY <2>1 DEF Fresh
  <2>3. IInv' <=> IInv
    BY <2>1 DEF IInv, TypeOK, CountsTruly, NothingTyped, Held
  <2>4. QED
    BY <1>1, <2>1, <2>2, <2>3 DEF Obeyed
<1>2. CASE Reads
  <2>1. phase # "running" /\ phase' # "running" /\ program' = program
    BY <1>2 DEF Reads, Load, Missing, Unusable, Opened, EndOfFile, BreaksOff, Read, Verdicts, Untouched
  <2>2. QED
    BY <1>1, <1>2, <2>1 DEF Reads
<1>3. CASE StartKeys
  BY <1>3, StartObeys
<1>4. CASE StartTicker
  <2>1. /\ program = "cmd" /\ program' = "cmd" /\ forceModsOnly' = FALSE
        /\ UNCHANGED <<pressed, down, rows, age, log, since, asked>>
    BY <1>4 DEF StartTicker, Runs, kvars, ghosts
  <2>2. QED
    BY <2>1 DEF Obeyed, Fresh
<1>5. CASE Keys
  <2>1. /\ phase = "running" /\ program = "keys" /\ Next
        /\ UNCHANGED <<phase, program, forceModsOnly, asked>>
    BY <1>5 DEF Keys, svars
  <2>2. IInv'
    BY <2>1, StepKeeps DEF Obeyed
  <2>3. config' = config
    BY <2>1 DEF Next, Press, Release, Repeat, Pause, typist
  <2>4. QED
    BY <2>1, <2>2, <2>3 DEF Obeyed
<1>6. CASE Commands
  BY <1>1, <1>6 DEF Commands, svars
<1>7. CASE UNCHANGED vars
  BY <1>1, <1>7 DEF vars, svars
<1>8. QED
  BY <1>2, <1>3, <1>4, <1>5, <1>6, <1>7 DEF InputsNext

(* Whoever asked for privacy mode, on the command line or in a file that   *)
(* was read to its end, has it: nothing typed is ever shown, whatever else *)
(* the file holds and whatever comes before or after the switch.           *)
THEOREM PrivacyIsKept ==
    ASSUME AcceptsConfigs
    PROVE  InputsSpec => []PolicyKept
<1>1. InputsInit => Obeyed
  BY DEF InputsInit, SettingsInit, Obeyed, Fresh
<1>2. Parsed /\ Obeyed /\ [InputsNext]_vars => Obeyed'
  BY StepObeys
<1>3. Obeyed => PolicyKept
  BY DEF Obeyed, Fresh, IInv, NothingTyped, PolicyKept
<1>4. QED
  BY <1>1, <1>2, <1>3, AlwaysParsed, PTL DEF InputsSpec

----------------------------------------------------------------------------
(* Recursive functions.  Induction is taken from the least counterexample, *)
(* for a set of numbers, and recursion from a function that gives each     *)
(* step.                                                                   *)

(* A set that holds 0, and with a number the next, holds all of them. *)
LEMMA Induct ==
    ASSUME NEW S, 0 \in S, \A n \in Nat : n \in S => n + 1 \in S
    PROVE  \A n \in Nat : n \in S
<1> DEFINE T == {n \in Nat : n \notin S}
<1>1. SUFFICES ASSUME T # {} PROVE FALSE
  OBVIOUS
<1>2. PICK m \in T : \A y \in T : <<y, m>> \notin OpToRel(<, Nat)
  <2>1. T \in SUBSET Nat
    OBVIOUS
  <2>2. QED
    BY <1>1, <2>1, NatLessThanWellFounded, WFMin, Zenon
<1>3. \A y \in T : ~ (y < m)
  BY <1>2 DEF OpToRel
<1>4. m # 0 /\ m - 1 \in Nat
  OBVIOUS
<1>5. m - 1 \in T
  BY <1>4
<1>6. QED
  BY <1>3, <1>5

(* The functions that begin with v and go on as step says *)
Unrolled(V, N, v, step) ==
    {f \in [0 .. N -> V] : f[0] = v /\ \A n \in 1 .. N : f[n] = step[n][f[n - 1]]}

(* What is defined from one place to the next exists. *)
LEMMA Recurs ==
    ASSUME NEW V, NEW N \in Nat, NEW v \in V, NEW step \in [1 .. N -> [V -> V]]
    PROVE  Unrolled(V, N, v, step) # {}
<1> DEFINE Upon(m, f) == f[0] = v /\ \A n \in 1 .. m : f[n] = step[n][f[n - 1]]
           S == {m \in Nat : m <= N => \E f \in [0 .. m -> V] : Upon(m, f)}
<1>1. 0 \in S
  <2>1. [n \in 0 .. 0 |-> v] \in [0 .. 0 -> V] /\ Upon(0, [n \in 0 .. 0 |-> v])
    OBVIOUS
  <2>2. QED
    BY <2>1
<1>2. ASSUME NEW m \in Nat, m \in S PROVE m + 1 \in S
  <2>1. SUFFICES ASSUME m + 1 <= N PROVE \E f \in [0 .. m + 1 -> V] : Upon(m + 1, f)
    OBVIOUS
  <2>2. PICK f \in [0 .. m -> V] : Upon(m, f)
    BY <1>2, <2>1
  <2> DEFINE w == step[m + 1][f[m]]
             g == [n \in 0 .. m + 1 |-> IF n <= m THEN f[n] ELSE w]
  <2>3. w \in V
    BY <2>1
  <2> HIDE DEF w
  <2>4. g \in [0 .. m + 1 -> V] /\ g[m + 1] = w /\ \A n \in 0 .. m : g[n] = f[n]
    BY <2>3
  <2> HIDE DEF g
  <2>5. g[0] = v
    BY <2>2, <2>4
  <2>6. ASSUME NEW n \in 1 .. m + 1 PROVE g[n] = step[n][g[n - 1]]
    <3>1. CASE n = m + 1
      BY <2>4, <3>1 DEF w
    <3>2. CASE n # m + 1
      <4>1. n \in 1 .. m /\ n \in 0 .. m /\ n - 1 \in 0 .. m
        BY <3>2
      <4>2. QED
        BY <2>2, <2>4, <4>1
    <3>3. QED
      BY <3>1, <3>2
  <2>7. QED
    BY <2>4, <2>5, <2>6
<1> HIDE DEF S
<1>3. N \in S
  BY <1>1, <1>2, Induct
<1>4. QED
  BY <1>3 DEF S, Unrolled

----------------------------------------------------------------------------
(* Characters and their bytes *)

Glyphs == Characters \cup {<<Dot>>}

(* A character is a lead byte, which tells its length, and continuations. *)
LEMMA GlyphIs ==
    ASSUME NEW g \in Glyphs
    PROVE  /\ g \in Seq(Int) /\ Len(g) \in 1 .. 4 /\ Len(g) = LeadLength(g[1])
           /\ g[1] # Cont /\ \A j \in 2 .. Len(g) : g[j] = Cont
           /\ Len(g) = 1 <=> g[1] \in {Space, 1, Dot}
           /\ g[1] = Space <=> g = <<Space>>
<1>1. CASE g \in {<<Space>>, <<Dot>>, <<1>>}
  <2>1. CASE g = <<0>>
    BY <2>1 DEF Space, Dot, Cont, LeadLength
  <2>2. CASE g = <<1>>
    BY <2>2 DEF Space, Dot, Cont, LeadLength
  <2>3. CASE g = <<5>>
    BY <2>3 DEF Space, Dot, Cont, LeadLength
  <2>4. QED
    BY <1>1, <2>1, <2>2, <2>3 DEF Space, Dot
<1>2. CASE g = <<2, Cont>>
  BY <1>2 DEF Space, Dot, Cont, LeadLength
<1>3. CASE g = <<3, Cont, Cont>>
  BY <1>3 DEF Space, Dot, Cont, LeadLength
<1>4. CASE g = <<4, Cont, Cont, Cont>>
  BY <1>4 DEF Space, Dot, Cont, LeadLength
<1>5. QED
  BY <1>1, <1>2, <1>3, <1>4 DEF Glyphs, Characters

(* What Bytes is defined by exists. *)
LEMMA BytesExist ==
    ASSUME NEW cs \in Seq(Seq(Int)), NEW N, N = Len(cs)
    PROVE  \E f \in [0 .. N -> Seq(Int)] :
              /\ f[0] = << >> /\ \A n \in 1 .. N : f[n] = f[n - 1] \o cs[n]
<1> DEFINE step == [n \in 1 .. N |-> [t \in Seq(Int) |-> t \o cs[n]]]
           nil == << >>
           V == Seq(Int)
<1>1. N \in Nat /\ \A n \in 1 .. N : cs[n] \in V
  OBVIOUS
<1>2. \A n \in 1 .. N : step[n] = [t \in V |-> t \o cs[n]]
  OBVIOUS
<1>3. \A n \in 1 .. N : \A t \in V : step[n][t] = t \o cs[n] /\ t \o cs[n] \in V
  BY <1>1
<1>4. step \in [1 .. N -> [V -> V]]
  BY <1>1, <1>3
<1>5. nil \in V
  OBVIOUS
<1> HIDE DEF step, nil, V
<1>6. Unrolled(V, N, nil, step) # {}
  BY <1>1, <1>4, <1>5, Recurs
<1>7. PICK f \in [0 .. N -> V] : f[0] = nil /\ \A n \in 1 .. N : f[n] = step[n][f[n - 1]]
  BY <1>6 DEF Unrolled
<1>8. \A n \in 1 .. N : n - 1 \in 0 .. N /\ f[n - 1] \in V
  <2>1. \A n \in 1 .. N : n - 1 \in 0 .. N
    BY <1>1
  <2>2. QED
    BY <1>7, <2>1
<1>9. \A n \in 1 .. N : f[n] = f[n - 1] \o cs[n]
  BY <1>3, <1>7, <1>8
<1>10. QED
  BY <1>7, <1>9 DEF nil, V

(* Bytes is what its definition says: the definition, being met by some    *)
(* function, is met by the one it chooses.                                 *)
LEMMA BytesRecurs ==
    ASSUME NEW cs \in Seq(Seq(Int))
    PROVE  \E f \in [0 .. Len(cs) -> Seq(Int)] :
              /\ f[0] = << >> /\ \A n \in 1 .. Len(cs) : f[n] = f[n - 1] \o cs[n]
              /\ Bytes(cs) = f[Len(cs)]
<1> DEFINE N == Len(cs)
           Def(f) == [n \in 0 .. N |-> IF n = 0 THEN << >> ELSE f[n - 1] \o cs[n]]
           h == CHOOSE f : f = Def(f)
<1>1. N \in Nat /\ \A n \in 1 .. N : cs[n] \in Seq(Int)
  OBVIOUS
<1>2. Bytes(cs) = h[N]
  BY Zenon DEF Bytes
<1>3. \E f : f = Def(f)
  <2> HIDE DEF N, h
  <2>1. PICK f \in [0 .. N -> Seq(Int)] :
           f[0] = << >> /\ \A n \in 1 .. N : f[n] = f[n - 1] \o cs[n]
    BY <1>1, BytesExist DEF N
  <2>2. \A n \in 0 .. N : n = 0 \/ n \in 1 .. N
    BY <1>1
  <2>3. f = [n \in 0 .. N |-> IF n = 0 THEN << >> ELSE f[n - 1] \o cs[n]]
    BY <2>1, <2>2
  <2>4. QED
    BY <2>3
<1>4. h = Def(h)
  BY <1>3, Zenon
<1> HIDE DEF h, N
<1>5. h[0] = << >> /\ \A n \in 1 .. N : h[n] = h[n - 1] \o cs[n]
  <2>1. \A n \in 0 .. N : h[n] = IF n = 0 THEN << >> ELSE h[n - 1] \o cs[n]
    BY <1>4, Zenon
  <2>2. 0 \in 0 .. N /\ \A n \in 1 .. N : n \in 0 .. N /\ n # 0
    BY <1>1
  <2>3. QED
    BY <2>1, <2>2
<1> HIDE DEF Def
<1>6. ASSUME NEW n \in 0 .. N PROVE h[n] \in Seq(Int)
  <2> DEFINE S == {m \in Nat : m <= N => h[m] \in Seq(Int)}
  <2>1. 0 \in S
    BY <1>5, EmptySeq
  <2>2. ASSUME NEW m \in Nat, m \in S PROVE m + 1 \in S
    <3>1. SUFFICES ASSUME m + 1 <= N PROVE h[m + 1] \in Seq(Int)
      OBVIOUS
    <3>2. m + 1 \in 1 .. N /\ (m + 1) - 1 = m /\ h[m] \in Seq(Int)
      BY <1>1, <2>2, <3>1
    <3>3. h[m + 1] = h[m] \o cs[m + 1] /\ cs[m + 1] \in Seq(Int)
      BY <1>1, <1>5, <3>2
    <3>4. QED
      BY <3>2, <3>3, ConcatProperties
  <2> HIDE DEF S
  <2>3. \A m \in Nat : m \in S
    BY <2>1, <2>2, Induct
  <2>4. QED
    BY <2>3, <1>1 DEF S
<1>7. h \in [0 .. N -> Seq(Int)]
  BY <1>4, <1>6 DEF Def
<1>8. QED
  BY <1>2, <1>5, <1>7 DEF N


(* The bytes of n + 1 characters are those of n and those of the next. *)
LEMMA BytesStep ==
    ASSUME NEW cs \in Seq(Seq(Int))
    PROVE  /\ Bytes(SubSeq(cs, 1, 0)) = << >>
           /\ Bytes(SubSeq(cs, 1, Len(cs))) = Bytes(cs)
           /\ \A n \in 0 .. Len(cs) : Bytes(SubSeq(cs, 1, n)) \in Seq(Int)
           /\ \A n \in 1 .. Len(cs) :
                 Bytes(SubSeq(cs, 1, n)) = Bytes(SubSeq(cs, 1, n - 1)) \o cs[n]
<1>1. PICK f \in [0 .. Len(cs) -> Seq(Int)] :
         f[0] = << >> /\ \A n \in 1 .. Len(cs) : f[n] = f[n - 1] \o cs[n]
  BY BytesExist
<1>2. ASSUME NEW n \in 0 .. Len(cs) PROVE Bytes(SubSeq(cs, 1, n)) = f[n]
  <2> DEFINE ds == SubSeq(cs, 1, n)
  <2>1. ds \in Seq(Seq(Int)) /\ Len(ds) = n /\ \A k \in 1 .. n : ds[k] = cs[k]
    BY SubSeqProperties
  <2> HIDE DEF ds
  <2>2. PICK g \in [0 .. n -> Seq(Int)] :
           /\ g[0] = << >> /\ \A k \in 1 .. n : g[k] = g[k - 1] \o ds[k]
           /\ Bytes(ds) = g[n]
    BY <2>1, BytesRecurs
  <2> DEFINE S == {m \in Nat : m <= n => g[m] = f[m]}
  <2>3. 0 \in S
    BY <1>1, <2>2
  <2>4. ASSUME NEW m \in Nat, m \in S PROVE m + 1 \in S
    <3>1. SUFFICES ASSUME m + 1 <= n PROVE g[m + 1] = f[m + 1]
      OBVIOUS
    <3>2. m + 1 \in 1 .. n /\ m + 1 \in 1 .. Len(cs) /\ (m + 1) - 1 = m /\ g[m] = f[m]
      BY <2>4, <3>1
    <3>3. g[m + 1] = g[m] \o ds[m + 1] /\ f[m + 1] = f[m] \o cs[m + 1]
      BY <1>1, <2>2, <3>2
    <3>4. QED
      BY <2>1, <3>2, <3>3
  <2> HIDE DEF S
  <2>5. n \in S
    <3>1. \A m \in Nat : m \in S
      BY <2>3, <2>4, Induct
    <3>2. QED
      BY <3>1
  <2>6. QED
    BY <2>2, <2>5 DEF S, ds
<1>3. SubSeq(cs, 1, Len(cs)) = cs
  OBVIOUS
<1>4. ASSUME NEW n \in 1 .. Len(cs)
      PROVE  Bytes(SubSeq(cs, 1, n)) = Bytes(SubSeq(cs, 1, n - 1)) \o cs[n]
  <2>1. n \in 0 .. Len(cs) /\ n - 1 \in 0 .. Len(cs)
    OBVIOUS
  <2>2. Bytes(SubSeq(cs, 1, n)) = f[n] /\ Bytes(SubSeq(cs, 1, n - 1)) = f[n - 1]
    BY <1>2, <2>1
  <2>3. QED
    BY <1>1, <2>2
<1>5. 0 \in 0 .. Len(cs)
  OBVIOUS
<1>6. QED
  BY <1>1, <1>2, <1>3, <1>4, <1>5

(* One character more *)
LEMMA BytesAppend ==
    ASSUME NEW cs \in Seq(Seq(Int)), NEW g \in Seq(Int)
    PROVE  Bytes(Append(cs, g)) = Bytes(cs) \o g /\ Bytes(cs) \in Seq(Int)
<1> DEFINE ds == Append(cs, g)
           N == Len(cs)
<1>1. ds \in Seq(Seq(Int)) /\ Len(ds) = N + 1 /\ ds[N + 1] = g /\ N \in Nat
  BY AppendProperties
<1>2. SubSeq(ds, 1, N) = cs
  OBVIOUS
<1> HIDE DEF ds
<1>3. N + 1 \in 1 .. Len(ds) /\ (N + 1) - 1 = N
  BY <1>1
<1>4. Bytes(SubSeq(ds, 1, N + 1)) = Bytes(SubSeq(ds, 1, N)) \o g
  BY <1>1, <1>3, BytesStep
<1>5. Bytes(SubSeq(ds, 1, N + 1)) = Bytes(ds)
  BY <1>1, BytesStep
<1>6. Bytes(cs) \in Seq(Int)
  <2>1. N \in 0 .. Len(cs)
    BY <1>1
  <2>2. QED
    BY <2>1, BytesStep
<1>7. QED
  BY <1>2, <1>4, <1>5, <1>6 DEF ds

(* Where the n-th character of cs ends *)
End(cs, n) == Len(Bytes(SubSeq(cs, 1, n)))

(* The first ends where the bytes begin, each where the one before ends    *)
(* and its own length further, and the last where the bytes end.           *)
LEMMA Ends ==
    ASSUME NEW cs \in Seq(Glyphs)
    PROVE  /\ End(cs, 0) = 0 /\ End(cs, Len(cs)) = Len(Bytes(cs))
           /\ \A n \in 0 .. Len(cs) : End(cs, n) \in Nat
           /\ \A n \in 1 .. Len(cs) : /\ End(cs, n) = End(cs, n - 1) + Len(cs[n])
                                      /\ Len(cs[n]) \in 1 .. 4 /\ cs[n] \in Seq(Int)
<1>1. \A n \in 1 .. Len(cs) : cs[n] \in Glyphs
  OBVIOUS
<1>2. \A n \in 1 .. Len(cs) : cs[n] \in Seq(Int) /\ Len(cs[n]) \in 1 .. 4
  BY <1>1, GlyphIs
<1>3. cs \in Seq(Seq(Int))
  BY <1>2
<1>4. \A n \in 0 .. Len(cs) : Bytes(SubSeq(cs, 1, n)) \in Seq(Int)
  BY <1>3, BytesStep
<1>5. ASSUME NEW n \in 1 .. Len(cs) PROVE End(cs, n) = End(cs, n - 1) + Len(cs[n])
  <2>1. Bytes(SubSeq(cs, 1, n)) = Bytes(SubSeq(cs, 1, n - 1)) \o cs[n]
    BY <1>3, BytesStep
  <2>2. n - 1 \in 0 .. Len(cs)
    OBVIOUS
  <2>3. QED
    BY <1>2, <1>4, <2>1, <2>2, ConcatProperties DEF End
<1>6. End(cs, 0) = 0 /\ End(cs, Len(cs)) = Len(Bytes(cs))
  <2>1. Bytes(SubSeq(cs, 1, 0)) = << >> /\ Bytes(SubSeq(cs, 1, Len(cs))) = Bytes(cs)
    BY <1>3, BytesStep, Zenon
  <2>2. End(cs, 0) = Len(<< >>) /\ End(cs, Len(cs)) = Len(Bytes(cs))
    BY <2>1, Zenon DEF End
  <2>3. QED
    BY <2>2, EmptySeq
<1>7. \A n \in 0 .. Len(cs) : End(cs, n) \in Nat
  BY <1>4 DEF End
<1>8. QED
  BY <1>2, <1>5, <1>6, <1>7

(* s is how t begins. *)
Leads(s, t) == Len(s) <= Len(t) /\ \A j \in 1 .. Len(s) : s[j] = t[j]

(* The bytes of fewer characters come first, and are fewer. *)
LEMMA EndsGrow ==
    ASSUME NEW cs \in Seq(Glyphs), NEW n \in 0 .. Len(cs), NEW m \in 0 .. n
    PROVE  /\ End(cs, m) + (n - m) <= End(cs, n)
           /\ Leads(Bytes(SubSeq(cs, 1, m)), Bytes(SubSeq(cs, 1, n)))
<1> DEFINE B(k) == Bytes(SubSeq(cs, 1, k))
           S == {k \in Nat : m + k <= n => /\ End(cs, m) + k <= End(cs, m + k)
                                           /\ Leads(B(m), B(m + k))}
<1>1. \A k \in 1 .. Len(cs) : cs[k] \in Glyphs
  OBVIOUS
<1>2. \A k \in 1 .. Len(cs) : cs[k] \in Seq(Int)
  BY <1>1, GlyphIs
<1>3. cs \in Seq(Seq(Int))
  BY <1>2
<1>4. /\ \A k \in 0 .. Len(cs) : B(k) \in Seq(Int)
      /\ \A k \in 1 .. Len(cs) : B(k) = B(k - 1) \o cs[k]
  BY <1>3, BytesStep
<1>5. \A k \in 0 .. Len(cs) : End(cs, k) = Len(B(k)) /\ End(cs, k) \in Nat
  BY Ends DEF End
<1>6. 0 \in S
  BY <1>4, <1>5 DEF Leads
<1>7. ASSUME NEW k \in Nat, k \in S PROVE k + 1 \in S
  <2>1. SUFFICES ASSUME m + (k + 1) <= n
                 PROVE  /\ End(cs, m) + (k + 1) <= End(cs, m + (k + 1))
                        /\ Leads(B(m), B(m + (k + 1)))
    OBVIOUS
  <2>2. /\ m + k \in 0 .. Len(cs) /\ m + (k + 1) \in 1 .. Len(cs) /\ m \in 0 .. Len(cs)
        /\ m + (k + 1) \in 0 .. Len(cs) /\ (m + (k + 1)) - 1 = m + k /\ m + k <= n
    BY <2>1
  <2>3. End(cs, m) + k <= End(cs, m + k) /\ Leads(B(m), B(m + k))
    BY <1>7, <2>2
  <2>4. /\ End(cs, m + (k + 1)) = End(cs, m + k) + Len(cs[m + (k + 1)])
        /\ Len(cs[m + (k + 1)]) \in 1 .. 4
    BY <2>2, Ends
  <2>5. B(m + (k + 1)) = B(m + k) \o cs[m + (k + 1)]
    BY <1>4, <2>2
  <2> HIDE DEF B
  <2>6. /\ End(cs, m) \in Nat /\ End(cs, m + k) \in Nat
        /\ B(m) \in Seq(Int) /\ B(m + k) \in Seq(Int) /\ cs[m + (k + 1)] \in Seq(Int)
    BY <1>2, <1>4, <1>5, <2>2
  <2>7. End(cs, m) + (k + 1) <= End(cs, m + (k + 1))
    <3> DEFINE a == End(cs, m)
               b == End(cs, m + k)
               w == Len(cs[m + (k + 1)])
    <3>1. a \in Nat /\ b \in Nat /\ w \in 1 .. 4 /\ a + k <= b
      BY <2>3, <2>4, <2>6
    <3>2. End(cs, m + (k + 1)) = b + w
      BY <2>4
    <3> HIDE DEF a, b, w
    <3>3. a + (k + 1) <= b + w
      BY <3>1
    <3>4. QED
      BY <3>2, <3>3 DEF a
  <2>8. Leads(B(m), B(m + (k + 1)))
    <3> DEFINE r == B(m)
               s == B(m + k)
               g == cs[m + (k + 1)]
    <3>1. r \in Seq(Int) /\ s \in Seq(Int) /\ g \in Seq(Int) /\ Leads(r, s)
      BY <2>3, <2>6
    <3> HIDE DEF r, s, g
    <3>2. Leads(r, s \o g)
      BY <3>1, ConcatProperties DEF Leads
    <3>3. QED
      BY <2>5, <3>2, Zenon DEF r, s, g
  <2>9. QED
    BY <2>7, <2>8
<1> HIDE DEF S
<1>8. n - m \in Nat /\ m + (n - m) = n
  OBVIOUS
<1>9. n - m \in S
  <2>1. \A k \in Nat : k \in S
    BY <1>6, <1>7, Induct
  <2>2. QED
    BY <1>8, <2>1
<1>10. QED
  BY <1>8, <1>9 DEF S

(* The bytes of the first n characters are where the bytes begin. *)
LEMMA HeadBytes ==
    ASSUME NEW cs \in Seq(Glyphs), NEW n \in 0 .. Len(cs)
    PROVE  /\ Bytes(cs) \in Seq(Int) /\ End(cs, n) \in 0 .. Len(Bytes(cs))
           /\ Bytes(SubSeq(cs, 1, n)) = SubSeq(Bytes(cs), 1, End(cs, n))
<1>1. \A k \in 1 .. Len(cs) : cs[k] \in Glyphs
  OBVIOUS
<1>2. \A k \in 1 .. Len(cs) : cs[k] \in Seq(Int)
  BY <1>1, GlyphIs
<1>3. cs \in Seq(Seq(Int)) /\ Len(cs) \in 0 .. Len(cs)
  BY <1>2
<1>4. SubSeq(cs, 1, Len(cs)) = cs
  OBVIOUS
<1> DEFINE s == Bytes(SubSeq(cs, 1, n))
           t == Bytes(cs)
<1>5. s \in Seq(Int) /\ t \in Seq(Int) /\ Len(s) = End(cs, n)
  <2>1. \A k \in 0 .. Len(cs) : Bytes(SubSeq(cs, 1, k)) \in Seq(Int)
    BY <1>3, BytesStep
  <2>2. QED
    BY <1>3, <1>4, <2>1 DEF End
<1>6. Leads(s, t)
  <2>1. Leads(Bytes(SubSeq(cs, 1, n)), Bytes(SubSeq(cs, 1, Len(cs))))
    BY <1>3, EndsGrow
  <2>2. QED
    BY <1>4, <2>1
<1> HIDE DEF s, t
<1>7. Len(s) \in 0 .. Len(t)
  BY <1>5, <1>6 DEF Leads
<1>8. s = SubSeq(t, 1, Len(s))
  <2> DEFINE u == SubSeq(t, 1, Len(s))
  <2>1. u \in Seq(Int) /\ Len(u) = Len(s) /\ \A j \in 1 .. Len(s) : u[j] = t[j]
    BY <1>5, <1>7, SubSeqProperties
  <2> HIDE DEF u
  <2>2. \A j \in 1 .. Len(s) : s[j] = u[j]
    BY <2>1, <1>6 DEF Leads
  <2>3. s = u
    BY <1>5, <2>1, <2>2, SeqEqual
  <2>4. QED
    BY <2>3 DEF u
<1>9. QED
  BY <1>5, <1>7, <1>8 DEF s, t

(* Each byte of each character is where it should be. *)
LEMMA BytePlaced ==
    ASSUME NEW cs \in Seq(Glyphs), NEW n \in 1 .. Len(cs), NEW j \in 1 .. Len(cs[n])
    PROVE  Bytes(cs)[End(cs, n - 1) + j] = cs[n][j]
<1>1. n \in 0 .. Len(cs) /\ n - 1 \in 0 .. Len(cs)
  OBVIOUS
<1>2. \A k \in 1 .. Len(cs) : cs[k] \in Glyphs
  OBVIOUS
<1>3. \A k \in 1 .. Len(cs) : cs[k] \in Seq(Int)
  BY <1>2, GlyphIs
<1>4. cs \in Seq(Seq(Int))
  BY <1>3
<1> DEFINE s == Bytes(SubSeq(cs, 1, n))
           r == Bytes(SubSeq(cs, 1, n - 1))
<1>5. s = r \o cs[n] /\ r \in Seq(Int) /\ s \in Seq(Int)
  BY <1>1, <1>4, BytesStep
<1>6. Len(r) = End(cs, n - 1) /\ Len(s) = End(cs, n)
  BY DEF End
<1>7. /\ s = SubSeq(Bytes(cs), 1, End(cs, n)) /\ End(cs, n) \in 0 .. Len(Bytes(cs))
      /\ Bytes(cs) \in Seq(Int)
  BY <1>1, HeadBytes
<1> HIDE DEF s, r
<1>8. cs[n] \in Seq(Int) /\ Len(r) \in Nat /\ j \in 1 .. Len(cs[n])
  BY <1>3, <1>5
<1>9. s[Len(r) + j] = cs[n][j] /\ Len(r) + j \in 1 .. Len(s)
  BY <1>5, <1>8, ConcatProperties
<1>10. s[Len(r) + j] = Bytes(cs)[Len(r) + j]
  <2> DEFINE t == Bytes(cs)
             e == End(cs, n)
  <2>1. t \in Seq(Int) /\ e \in 0 .. Len(t) /\ s = SubSeq(t, 1, e) /\ Len(s) = e
    BY <1>6, <1>7
  <2> HIDE DEF t, e
  <2>2. \A i \in 1 .. e : s[i] = t[i]
    BY <2>1, SubSeqProperties
  <2>3. QED
    BY <1>9, <2>1, <2>2 DEF t
<1>11. QED
  BY <1>6, <1>9, <1>10

(* Every place lies in one character, or is the end. *)
LEMMA Within ==
    ASSUME NEW cs \in Seq(Glyphs), NEW i \in 0 .. Len(Bytes(cs))
    PROVE  \E n \in 0 .. Len(cs) : /\ End(cs, n) <= i
                                   /\ n < Len(cs) => i < End(cs, n + 1)
                                   /\ n = Len(cs) => i = End(cs, n)
<1> DEFINE Lies(k, n) == /\ End(cs, n) <= k
                         /\ n < Len(cs) => k < End(cs, n + 1)
                         /\ n = Len(cs) => k = End(cs, n)
           S == {k \in Nat : k <= Len(Bytes(cs)) => \E n \in 0 .. Len(cs) : Lies(k, n)}
<1>1. /\ End(cs, 0) = 0 /\ End(cs, Len(cs)) = Len(Bytes(cs)) /\ Len(cs) \in Nat
      /\ \A n \in 0 .. Len(cs) : End(cs, n) \in Nat
  BY Ends
<1>2. ASSUME NEW n \in 0 .. Len(cs), n < Len(cs)
      PROVE  n + 1 \in 0 .. Len(cs) /\ End(cs, n) < End(cs, n + 1)
  <2>1. n + 1 \in 1 .. Len(cs) /\ (n + 1) - 1 = n
    BY <1>1, <1>2
  <2>2. End(cs, n + 1) = End(cs, (n + 1) - 1) + Len(cs[n + 1]) /\ Len(cs[n + 1]) \in 1 .. 4
    BY <2>1, Ends
  <2>3. End(cs, n + 1) = End(cs, n) + Len(cs[n + 1])
    BY <2>1, <2>2
  <2>4. End(cs, n) \in Nat
    BY <1>1
  <2>5. \A e \in Nat, w \in 1 .. 4 : e < e + w
    OBVIOUS
  <2>6. End(cs, n) < End(cs, n + 1)
    BY <2>2, <2>3, <2>4, <2>5
  <2>7. n + 1 \in 0 .. Len(cs)
    BY <2>1
  <2>8. QED
    BY <2>6, <2>7
<1>3. 0 \in S
  <2>1. 0 \in 0 .. Len(cs) /\ Lies(0, 0)
    BY <1>1, <1>2
  <2>2. QED
    BY <2>1
<1>4. ASSUME NEW k \in Nat, k \in S PROVE k + 1 \in S
  <2>1. SUFFICES ASSUME k + 1 <= Len(Bytes(cs)) PROVE \E n \in 0 .. Len(cs) : Lies(k + 1, n)
    OBVIOUS
  <2>2. Len(Bytes(cs)) \in Nat
    BY <1>1
  <2>3. PICK n \in 0 .. Len(cs) : Lies(k, n)
    BY <1>4, <2>1, <2>2
  <2>4. n < Len(cs)
    BY <1>1, <2>1, <2>3
  <2>5. n + 1 \in 0 .. Len(cs) /\ End(cs, n) \in Nat /\ End(cs, n + 1) \in Nat
    BY <1>1, <1>2, <2>4
  <2>6. CASE k + 1 < End(cs, n + 1)
    BY <1>1, <2>3, <2>4, <2>5, <2>6
  <2>7. CASE k + 1 = End(cs, n + 1)
    <3>1. n + 1 < Len(cs) => k + 1 < End(cs, (n + 1) + 1)
      BY <1>2, <2>5, <2>7
    <3>2. Lies(k + 1, n + 1)
      BY <2>5, <2>7, <3>1
    <3>3. QED
      BY <2>5, <3>2
  <2>8. QED
    BY <2>3, <2>4, <2>5, <2>6, <2>7
<1> HIDE DEF S
<1>5. \A k \in Nat : k \in S
  BY <1>3, <1>4, Induct
<1>6. i \in S
  BY <1>1, <1>5
<1>7. QED
  BY <1>6 DEF S

----------------------------------------------------------------------------
(* Where characters begin, whatever the bytes *)

(* Truncated() steps over one to four bytes at a time. *)
LEMMA LengthIs ==
    ASSUME NEW s \in Seq(Int), NEW i \in 1 .. Len(s)
    PROVE  SequenceLength(s, i) \in 1 .. 4 /\ LeadLength(s[i]) \in 1 .. 4
<1>1. s[i] \in Int
  OBVIOUS
<1>2. LeadLength(s[i]) \in 1 .. 4
  BY <1>1 DEF LeadLength
<1>3. SequenceLength(s, i) = LeadLength(s[i]) \/ SequenceLength(s, i) = 1
  BY Zenon DEF SequenceLength
<1>4. QED
  BY <1>2, <1>3

(* Begins is what its definition says. *)
LEMMA BeginsRecurs ==
    ASSUME NEW s \in Seq(Int), NEW N, N = Len(s)
    PROVE  /\ Begins(s) \in [1 .. N + 1 -> Nat \ {0}]
           /\ Begins(s)[1] = 1
           /\ \A n \in 1 .. N :
                 /\ Begins(s)[n] > N => Begins(s)[n + 1] = Begins(s)[n]
                 /\ Begins(s)[n] <= N
                       => Begins(s)[n + 1] = Begins(s)[n] + SequenceLength(s, Begins(s)[n])
<1> DEFINE V == Nat \ {0}
           Go(x) == IF x > N THEN x ELSE x + SequenceLength(s, x)
           step == [n \in 1 .. N |-> [x \in V |-> Go(x)]]
           Def(f) == [n \in 1 .. N + 1 |-> IF n = 1 THEN 1
                                           ELSE IF f[n - 1] > N THEN f[n - 1]
                                           ELSE f[n - 1] + SequenceLength(s, f[n - 1])]
           h == CHOOSE f : f = Def(f)
<1>1. N \in Nat
  OBVIOUS
<1>2. \A x \in V : Go(x) \in V
  <2>1. ASSUME NEW x \in V, x <= N PROVE x + SequenceLength(s, x) \in V
    <3>1. SequenceLength(s, x) \in 1 .. 4
      BY <1>1, <2>1, LengthIs
    <3>2. QED
      BY <3>1
  <2>2. QED
    BY <1>1, <2>1
<1>3. Begins(s) = h
  BY Zenon DEF Begins
<1> HIDE DEF V, h
<1>4. step \in [1 .. N -> [V -> V]]
  BY <1>2
<1>5. \A n \in 1 .. N : \A x \in V : step[n][x] = Go(x)
  OBVIOUS
<1> HIDE DEF step
<1>6. 1 \in V
  BY DEF V
<1>7. Unrolled(V, N, 1, step) # {}
  BY <1>1, <1>4, <1>6, Recurs
<1>8. PICK f \in [0 .. N -> V] : f[0] = 1 /\ \A n \in 1 .. N : f[n] = step[n][f[n - 1]]
  BY <1>7 DEF Unrolled
<1>9. \A n \in 1 .. N : f[n - 1] \in V /\ f[n] = Go(f[n - 1])
  <2>1. \A n \in 1 .. N : n - 1 \in 0 .. N
    BY <1>1
  <2>2. \A n \in 1 .. N : f[n - 1] \in V
    BY <1>8, <2>1
  <2>3. QED
    BY <1>5, <1>8, <2>2
<1> DEFINE b == [n \in 1 .. N + 1 |-> f[n - 1]]
<1>10. b = Def(b)
  <2>1. ASSUME NEW n \in 1 .. N + 1, n # 1 PROVE f[n - 1] = Go(b[n - 1])
    <3>1. n - 1 \in 1 .. N /\ n - 1 \in 1 .. N + 1
      BY <1>1, <2>1
    <3>2. f[n - 1] = Go(f[(n - 1) - 1]) /\ b[n - 1] = f[(n - 1) - 1]
      BY <1>9, <3>1
    <3>3. QED
      BY <3>2
  <2>2. b[1] = 1 /\ f[1 - 1] = 1
    <3>1. 1 \in 1 .. N + 1 /\ 1 - 1 = 0
      BY <1>1
    <3>2. QED
      BY <1>8, <3>1
  <2> DEFINE c == b
  <2>3. \A n \in 1 .. N + 1 : n # 1 => f[n - 1] = Go(c[n - 1])
    BY <2>1
  <2>4. c = [n \in 1 .. N + 1 |-> f[n - 1]]
    OBVIOUS
  <2> HIDE DEF c
  <2>5. \A n \in 1 .. N + 1 : f[n - 1] = IF n = 1 THEN 1 ELSE Go(c[n - 1])
    BY <2>2, <2>3
  <2>6. c = [n \in 1 .. N + 1 |-> IF n = 1 THEN 1 ELSE Go(c[n - 1])]
    BY <2>4, <2>5
  <2>7. c = Def(c)
    BY <2>6, Zenon
  <2>8. QED
    BY <2>7 DEF c
<1>11. h = Def(h)
  <2>1. \E g : g = Def(g)
    BY <1>10
  <2>2. QED
    BY <2>1, Zenon DEF h
<1>12. h[1] = 1 /\ \A n \in 1 .. N : h[n + 1] = Go(h[n])
  <2>1. \A n \in 1 .. N + 1 : h[n] = IF n = 1 THEN 1 ELSE Go(h[n - 1])
    BY <1>11, Zenon
  <2>2. 1 \in 1 .. N + 1 /\ \A n \in 1 .. N : n + 1 \in 1 .. N + 1 /\ n + 1 # 1 /\ (n + 1) - 1 = n
    BY <1>1
  <2>3. h[1] = 1
    BY <2>1, <2>2, Zenon
  <2>4. ASSUME NEW n \in 1 .. N PROVE h[n + 1] = Go(h[n])
    <3>1. h[n + 1] = IF n + 1 = 1 THEN 1 ELSE Go(h[(n + 1) - 1])
      BY <2>1, <2>2, Zenon
    <3>2. QED
      BY <2>2, <3>1, Zenon
  <2>5. QED
    BY <2>3, <2>4
<1>13. ASSUME NEW n \in 1 .. N + 1 PROVE h[n] \in V
  <2> HIDE DEF Go
  <2> DEFINE S == {m \in Nat : m <= N => h[m + 1] \in V}
  <2>1. 0 \in S
    BY <1>6, <1>12
  <2>2. ASSUME NEW m \in Nat, m \in S PROVE m + 1 \in S
    <3>1. SUFFICES ASSUME m + 1 <= N PROVE h[(m + 1) + 1] \in V
      OBVIOUS
    <3>2. m + 1 \in 1 .. N /\ h[m + 1] \in V
      BY <1>1, <2>2, <3>1
    <3>3. QED
      BY <1>2, <1>12, <3>2
  <2> HIDE DEF S
  <2>3. \A m \in Nat : m \in S
    BY <2>1, <2>2, Induct
  <2>4. n - 1 \in S /\ (n - 1) + 1 = n /\ n - 1 <= N
    BY <1>1, <2>3
  <2>5. QED
    BY <2>4 DEF S
<1>14. h \in [1 .. N + 1 -> V]
  <2> DEFINE X == 1 .. N + 1
  <2>1. h = [n \in X |-> h[n]]
    BY <1>11, Zenon
  <2>2. QED
    BY <1>13, <2>1
<1>15. \A n \in 1 .. N : h[n] \in Nat
  <2>1. \A n \in 1 .. N : n \in 1 .. N + 1
    BY <1>1
  <2>2. QED
    BY <1>13, <2>1 DEF V
<1>16. QED
  BY <1>1, <1>3, <1>12, <1>14, <1>15 DEF V

(* A character of cs whose beginning s reaches is read as one, if s has it *)
(* all.                                                                    *)
LEMMA CharAt ==
    ASSUME NEW cs \in Seq(Glyphs), NEW s \in Seq(Int), Leads(s, Bytes(cs)),
           NEW n \in 1 .. Len(cs), NEW i, i = End(cs, n - 1) + 1, i <= Len(s)
    PROVE  /\ i \in 1 .. Len(s) /\ s[i] = cs[n][1] /\ LeadLength(s[i]) = Len(cs[n])
           /\ End(cs, n) = i + Len(cs[n]) - 1
           /\ End(cs, n) <= Len(s) => SequenceLength(s, i) = Len(cs[n])
           /\ \A j \in i + 1 .. End(cs, n) : j <= Len(s) => s[j] = Cont
<1> DEFINE e == End(cs, n - 1)
           g == cs[n]
           w == Len(g)
<1>1. g \in Glyphs
  OBVIOUS
<1>2. /\ w \in 1 .. 4 /\ w = LeadLength(g[1]) /\ \A j \in 2 .. w : g[j] = Cont
  BY <1>1, GlyphIs
<1>3. e \in Nat /\ End(cs, n) = e + w
  <2>1. n - 1 \in 0 .. Len(cs)
    OBVIOUS
  <2>2. e \in Nat
    BY <2>1, Ends
  <2>3. QED
    BY <2>2, Ends
<1>4. \A j \in 1 .. w : Bytes(cs)[e + j] = g[j]
  BY BytePlaced
<1> HIDE DEF e, g, w
<1>5. i = e + 1
  BY DEF e
<1>6. i \in 1 .. Len(s) /\ Len(s) \in Nat
  BY <1>3, <1>5
<1>7. \A j \in 1 .. w : e + j <= Len(s) => s[e + j] = g[j]
  <2>1. ASSUME NEW j \in 1 .. w, e + j <= Len(s) PROVE s[e + j] = g[j]
    <3>1. e + j \in 1 .. Len(s)
      BY <1>3, <1>6, <2>1
    <3>2. s[e + j] = Bytes(cs)[e + j]
      BY <3>1 DEF Leads
    <3>3. QED
      BY <1>4, <3>2
  <2>2. QED
    BY <2>1
<1>8. s[i] = g[1]
  <2>1. 1 \in 1 .. w /\ e + 1 <= Len(s)
    BY <1>2, <1>5, <1>6
  <2>2. QED
    BY <1>5, <1>7, <2>1
<1>9. ASSUME NEW j \in i + 1 .. End(cs, n), j <= Len(s) PROVE s[j] = Cont
  <2>1. j - e \in 2 .. w /\ j - e \in 1 .. w /\ e + (j - e) = j
    BY <1>2, <1>3, <1>5, <1>9
  <2>2. s[e + (j - e)] = g[j - e]
    BY <1>7, <1>9, <2>1
  <2>3. QED
    BY <1>2, <2>1, <2>2
<1>10. LeadLength(s[i]) = w
  BY <1>2, <1>8
<1>11. End(cs, n) = i + w - 1
  <2>1. \A x \in Nat, y \in 1 .. 4 : x + y = (x + 1) + y - 1
    OBVIOUS
  <2>2. e + w = (e + 1) + w - 1
    BY <1>2, <1>3, <2>1
  <2>3. QED
    BY <1>3, <1>5, <2>2, Zenon
<1>12. ASSUME End(cs, n) <= Len(s) PROVE SequenceLength(s, i) = w
  <2>1. i + w - 1 = End(cs, n)
    BY <1>11, Zenon
  <2>2. \A k \in i + 1 .. i + w - 1 : k <= Len(s)
    BY <1>2, <1>3, <1>6, <1>12, <2>1
  <2>3. i + w - 1 <= Len(s) /\ \A k \in i + 1 .. i + w - 1 : s[k] = Cont
    BY <1>9, <1>12, <2>1, <2>2
  <2>4. QED
    BY <1>10, <2>3, Zenon DEF SequenceLength
<1>13. QED
  BY <1>6, <1>8, <1>9, <1>10, <1>11, <1>12 DEF g, w

(* So the reading of s begins with the characters of cs. *)
LEMMA FirstHeads ==
    ASSUME NEW cs \in Seq(Glyphs), NEW s \in Seq(Int), Leads(s, Bytes(cs)),
           NEW k \in 0 .. Len(cs), End(cs, k) <= Len(s)
    PROVE  \A n \in 0 .. k : Begins(s)[n + 1] = End(cs, n) + 1 /\ n <= End(cs, n)
<1> DEFINE S == {n \in Nat : n <= k => /\ Begins(s)[n + 1] = End(cs, n) + 1
                                       /\ n <= End(cs, n)}
<1>1. k \in Nat /\ Len(cs) \in Nat /\ Len(s) \in Nat
  OBVIOUS
<1>2. 0 \in S
  <2>1. Begins(s)[1] = 1
    BY BeginsRecurs
  <2>2. End(cs, 0) = 0
    BY Ends
  <2>3. QED
    BY <2>1, <2>2
<1>3. ASSUME NEW n \in Nat, n \in S PROVE n + 1 \in S
  <2>1. SUFFICES ASSUME n + 1 <= k
                 PROVE  /\ Begins(s)[(n + 1) + 1] = End(cs, n + 1) + 1
                        /\ n + 1 <= End(cs, n + 1)
    OBVIOUS
  <2>2. Begins(s)[n + 1] = End(cs, n) + 1 /\ n <= End(cs, n)
    BY <1>1, <1>3, <2>1
  <2>3. n + 1 \in 1 .. Len(cs) /\ (n + 1) - 1 = n /\ n + 1 \in 0 .. k /\ n \in 0 .. Len(cs)
    BY <1>1, <2>1
  <2>4. PICK e \in Nat : e = End(cs, n)
    BY <2>3, Ends
  <2>5. PICK w \in 1 .. 4 : w = Len(cs[n + 1])
    BY <2>3, Ends
  <2>6. PICK x \in Nat : x = End(cs, n + 1)
    <3>1. n + 1 \in 0 .. Len(cs)
      BY <2>3
    <3>2. QED
      BY <3>1, Ends
  <2>7. x = e + w
    <3>1. End(cs, n + 1) = End(cs, (n + 1) - 1) + Len(cs[n + 1])
      BY <2>3, Ends
    <3>2. QED
      BY <2>3, <2>4, <2>5, <2>6, <3>1
  <2>8. x <= Len(s)
    <3>1. x + (k - (n + 1)) <= End(cs, k)
      BY <2>3, <2>6, EndsGrow
    <3>2. End(cs, k) \in Nat
      BY Ends
    <3>3. QED
      BY <1>1, <2>1, <3>1, <3>2
  <2>9. SequenceLength(s, e + 1) = w
    <3>1. e + 1 = End(cs, (n + 1) - 1) + 1 /\ e + 1 <= Len(s)
      BY <1>1, <2>3, <2>4, <2>7, <2>8
    <3>2. End(cs, n + 1) <= Len(s)
      BY <2>6, <2>8
    <3>3. QED
      BY <2>3, <2>5, <3>1, <3>2, CharAt
  <2>10. n + 1 \in 1 .. Len(s) /\ Begins(s)[n + 1] = e + 1 /\ e + 1 <= Len(s)
    <3>1. n <= e /\ Begins(s)[n + 1] = e + 1
      BY <2>2, <2>4
    <3>2. e + 1 <= Len(s)
      BY <1>1, <2>7, <2>8
    <3>3. n + 1 \in 1 .. Len(s)
      BY <1>1, <3>1, <3>2
    <3>4. QED
      BY <3>1, <3>2, <3>3
  <2>11. Begins(s)[(n + 1) + 1] = Begins(s)[n + 1] + SequenceLength(s, Begins(s)[n + 1])
    <3>1. PICK m \in 1 .. Len(s) : m = n + 1 /\ Begins(s)[m] = e + 1 /\ Begins(s)[m] <= Len(s)
      BY <2>10
    <3>2. Begins(s)[m + 1] = Begins(s)[m] + SequenceLength(s, Begins(s)[m])
      BY <3>1, BeginsRecurs
    <3>3. QED
      BY <3>1, <3>2, Zenon
  <2>12. Begins(s)[(n + 1) + 1] = (e + 1) + w
    BY <2>9, <2>10, <2>11, Zenon
  <2>13. Begins(s)[(n + 1) + 1] = End(cs, n + 1) + 1
    <3>1. (e + 1) + w = x + 1
      BY <2>7
    <3>2. QED
      BY <2>6, <2>12, <3>1, Zenon
  <2>14. n + 1 <= End(cs, n + 1)
    <3>1. n + 1 <= x
      BY <2>2, <2>4, <2>7
    <3>2. QED
      BY <2>6, <3>1, Zenon
  <2>15. QED
    BY <2>13, <2>14
<1> HIDE DEF S
<1>4. \A n \in Nat : n \in S
  BY <1>2, <1>3, Induct
<1>5. QED
  BY <1>1, <1>4 DEF S

(* The reading goes on and never back. *)
LEMMA LaterHeads ==
    ASSUME NEW s \in Seq(Int), NEW k \in 1 .. Len(s) + 1
    PROVE  \A n \in k .. Len(s) + 1 : Begins(s)[n] > Len(s) \/ Begins(s)[n] >= Begins(s)[k] + (n - k)
<1> DEFINE N == Len(s)
           b == Begins(s)
           S == {m \in Nat : k + m <= N + 1 => b[k + m] > N \/ b[k + m] >= b[k] + m}
<1>1. N \in Nat /\ b \in [1 .. N + 1 -> Nat \ {0}]
  <2>1. b \in [1 .. N + 1 -> Nat \ {0}]
    BY BeginsRecurs, Zenon
  <2>2. N \in Nat
    OBVIOUS
  <2>3. QED
    BY <2>1, <2>2
<1>2. \A n \in 1 .. N : /\ b[n] > N => b[n + 1] = b[n]
                        /\ b[n] <= N => b[n + 1] = b[n] + SequenceLength(s, b[n])
  BY BeginsRecurs
<1>3. \A i \in 1 .. N : SequenceLength(s, i) \in 1 .. 4
  BY LengthIs
<1> HIDE DEF N, b
<1>4. k \in 1 .. N + 1
  BY DEF N
<1>5. 0 \in S
  BY <1>1, <1>4
<1>6. ASSUME NEW m \in Nat, m \in S PROVE m + 1 \in S
  <2>1. SUFFICES ASSUME k + (m + 1) <= N + 1
                 PROVE  b[k + (m + 1)] > N \/ b[k + (m + 1)] >= b[k] + (m + 1)
    OBVIOUS
  <2>2. k + m \in 1 .. N /\ k + m \in 1 .. N + 1 /\ (k + m) + 1 = k + (m + 1)
    BY <1>1, <1>4, <2>1
  <2>3. PICK x \in Nat \ {0} : x = b[k + m]
    BY <1>1, <2>2
  <2>4. PICK y \in Nat : y = b[k]
    BY <1>1, <1>4
  <2>5. x > N \/ x >= y + m
    BY <1>1, <1>6, <2>2, <2>3, <2>4
  <2>6. CASE x > N
    <3>1. b[k + (m + 1)] = x
      BY <1>2, <2>2, <2>3, <2>6
    <3>2. QED
      BY <2>6, <3>1
  <2>7. CASE x <= N
    <3>1. x \in 1 .. N
      BY <1>1, <2>7
    <3>2. PICK w \in 1 .. 4 : w = SequenceLength(s, x)
      BY <1>3, <3>1
    <3>3. b[k + (m + 1)] = x + w
      BY <1>2, <2>2, <2>3, <2>7, <3>2
    <3>4. x + w >= y + (m + 1)
      BY <1>1, <2>5, <2>7
    <3>5. QED
      BY <2>4, <3>3, <3>4
  <2>8. QED
    BY <1>1, <2>6, <2>7
<1> HIDE DEF S
<1>7. \A m \in Nat : m \in S
  BY <1>5, <1>6, Induct
<1>8. ASSUME NEW n \in k .. N + 1 PROVE b[n] > N \/ b[n] >= b[k] + (n - k)
  <2>1. n - k \in Nat /\ k + (n - k) = n
    BY <1>1, <1>4
  <2>2. n - k \in S
    BY <1>7, <2>1
  <2>3. QED
    BY <1>1, <2>1, <2>2 DEF S
<1>9. QED
  BY <1>8 DEF N, b

(* What heads there are in a text that is cut after the k-th character,    *)
(* at its end or within the next                                           *)
LEMMA HeadsAre ==
    ASSUME NEW cs \in Seq(Glyphs), NEW s \in Seq(Int), Leads(s, Bytes(cs)),
           NEW k \in 0 .. Len(cs), End(cs, k) <= Len(s)
    PROVE  /\ \A n \in 1 .. k : End(cs, n - 1) + 1 \in Heads(s)
           /\ End(cs, k) < Len(s) => End(cs, k) + 1 \in Heads(s)
           /\ \A i \in Heads(s) : /\ i \in 1 .. Len(s)
                                  /\ \/ \E n \in 1 .. k : i = End(cs, n - 1) + 1
                                     \/ i > End(cs, k)
<1> DEFINE N == Len(s)
           b == Begins(s)
<1>1. Heads(s) = {i \in {b[n] : n \in 1 .. N + 1} : i <= N}
  BY Zenon DEF Heads
<1>2. N \in Nat /\ b \in [1 .. N + 1 -> Nat \ {0}]
  BY BeginsRecurs
<1>3. \A n \in 0 .. k : b[n + 1] = End(cs, n) + 1 /\ n <= End(cs, n)
  BY FirstHeads
<1>4. \A n \in 0 .. k : End(cs, n) \in Nat /\ End(cs, n) + (k - n) <= End(cs, k)
  <2>1. \A n \in 0 .. k : n \in 0 .. Len(cs)
    OBVIOUS
  <2>2. \A n \in 0 .. k : End(cs, n) \in Nat
    BY <2>1, Ends
  <2>3. QED
    BY <2>2, EndsGrow
<1>5. k <= End(cs, k) /\ End(cs, k) \in Nat /\ End(cs, k) <= N /\ k \in Nat /\ k \in 0 .. k
  BY <1>3, <1>4
<1>6. k + 1 \in 1 .. N + 1 /\ b[k + 1] = End(cs, k) + 1
  BY <1>2, <1>3, <1>5
<1>7. \A n \in k + 1 .. N + 1 : b[n] > N \/ b[n] >= b[k + 1] + (n - (k + 1))
  BY <1>6, LaterHeads
<1> HIDE DEF N, b
<1>8. ASSUME NEW n \in 1 .. k PROVE End(cs, n - 1) + 1 \in Heads(s)
  <2>1. n - 1 \in 0 .. k /\ (n - 1) + 1 = n /\ n \in 1 .. N + 1
    BY <1>2, <1>5
  <2>2. b[n] = End(cs, n - 1) + 1
    BY <1>3, <2>1
  <2>3. End(cs, n - 1) + 1 <= N
    <3>1. PICK x \in Nat : x = End(cs, n - 1)
      BY <1>4, <2>1
    <3>2. PICK y \in Nat : y = End(cs, k)
      BY <1>5
    <3>3. x + (k - (n - 1)) <= y
      BY <1>4, <2>1, <3>1, <3>2
    <3>4. x + 1 <= y /\ y <= N
      BY <1>5, <3>2, <3>3
    <3>5. QED
      BY <1>2, <3>1, <3>4
  <2>4. QED
    BY <1>1, <2>1, <2>2, <2>3
<1>9. ASSUME End(cs, k) < N PROVE End(cs, k) + 1 \in Heads(s)
  <2>1. End(cs, k) + 1 <= N
    BY <1>2, <1>5, <1>9
  <2>2. QED
    BY <1>1, <1>6, <2>1
<1>10. ASSUME NEW i \in Heads(s)
       PROVE  i \in 1 .. N /\ ((\E n \in 1 .. k : i = End(cs, n - 1) + 1) \/ i > End(cs, k))
  <2>1. PICK n \in 1 .. N + 1 : i = b[n] /\ i <= N
    BY <1>1
  <2>2. i \in 1 .. N
    BY <1>2, <2>1
  <2>3. CASE n <= k
    <3>1. n \in 1 .. k /\ n - 1 \in 0 .. k /\ (n - 1) + 1 = n
      BY <1>2, <1>5, <2>3
    <3>2. i = End(cs, n - 1) + 1
      BY <1>3, <2>1, <3>1
    <3>3. QED
      BY <2>2, <3>1, <3>2
  <2>4. CASE n > k
    <3>1. n \in k + 1 .. N + 1
      BY <1>2, <1>5, <2>4
    <3>2. i >= b[k + 1] + (n - (k + 1))
      <4>1. b[n] > N \/ b[n] >= b[k + 1] + (n - (k + 1))
        BY <1>7, <3>1
      <4>2. ~ (i > N)
        BY <1>2, <2>2
      <4>3. QED
        BY <2>1, <4>1, <4>2
    <3>3. i > End(cs, k)
      <4>1. PICK e \in Nat : e = End(cs, k)
        BY <1>5
      <4>2. i >= (e + 1) + (n - (k + 1))
        BY <1>6, <3>2, <4>1
      <4>3. i > e
        BY <1>2, <1>5, <2>2, <3>1, <4>2
      <4>4. QED
        BY <4>1, <4>3
    <3>4. QED
      BY <2>2, <3>3
  <2>5. QED
    BY <1>2, <1>5, <2>3, <2>4
<1>11. QED
  BY <1>8, <1>9, <1>10 DEF N

(* The bytes of whole characters are read as those characters. *)
LEMMA WholeHeads ==
    ASSUME NEW cs \in Seq(Glyphs)
    PROVE  /\ CodepointCount(Bytes(cs)) = Len(cs)
           /\ ~ Garbled(Bytes(cs))
<1> DEFINE s == Bytes(cs)
           N == Len(cs)
           At == [n \in 1 .. N |-> End(cs, n - 1) + 1]
<1>1. N \in Nat /\ N \in 0 .. N
  OBVIOUS
<1>2. s \in Seq(Int) /\ End(cs, N) = Len(s)
  <2>1. N \in 0 .. Len(cs)
    BY <1>1
  <2>2. QED
    BY <2>1, HeadBytes, Ends
<1>3. Leads(s, Bytes(cs))
  BY <1>2 DEF Leads
<1> HIDE DEF s, N
<1>4. /\ \A n \in 1 .. N : End(cs, n - 1) + 1 \in Heads(s)
      /\ \A i \in Heads(s) : /\ i \in 1 .. Len(s)
                             /\ (\E n \in 1 .. N : i = End(cs, n - 1) + 1) \/ i > End(cs, N)
  <2>1. N \in 0 .. Len(cs) /\ End(cs, N) <= Len(s)
    BY <1>1, <1>2 DEF N
  <2>2. QED
    BY <1>2, <1>3, <2>1, HeadsAre
<1>5. \A i \in Heads(s) : i \in 1 .. Len(s) /\ \E n \in 1 .. N : i = End(cs, n - 1) + 1
  BY <1>2, <1>4
<1>6. At \in Bijection(1 .. N, Heads(s))
  <2>1. At \in [1 .. N -> Heads(s)]
    BY <1>4
  <2>2. \A i \in Heads(s) : \E n \in 1 .. N : At[n] = i
    BY <1>5
  <2>3. ASSUME NEW m \in 1 .. N, NEW n \in 1 .. N, m < n PROVE At[m] # At[n]
    <3>1. n - 1 \in 0 .. Len(cs) /\ m - 1 \in 0 .. n - 1 /\ m - 1 \in 0 .. Len(cs)
      BY <1>1, <2>3 DEF N
    <3>2. End(cs, m - 1) + ((n - 1) - (m - 1)) <= End(cs, n - 1)
      BY <3>1, EndsGrow
    <3>3. End(cs, m - 1) \in Nat /\ End(cs, n - 1) \in Nat
      BY <3>1, Ends
    <3>4. End(cs, m - 1) < End(cs, n - 1)
      BY <1>1, <2>3, <3>2, <3>3
    <3>5. QED
      BY <3>3, <3>4
  <2> HIDE DEF At
  <2>4. \A m, n \in 1 .. N : At[m] = At[n] => m = n
    BY <1>1, <2>3
  <2>5. DOMAIN At = 1 .. N
    BY <2>1
  <2>6. QED
    BY <2>1, <2>2, <2>4, <2>5, Zenon DEF Bijection, Injection, Surjection, IsInjective
<1>7. Cardinality(Heads(s)) = N
  <2>1. ExistsBijection(1 .. N, Heads(s))
    BY <1>6 DEF ExistsBijection
  <2>2. QED
    BY <1>1, <2>1, FS_CountingElements
<1>8. ASSUME NEW i \in Heads(s), s[i] \notin {Space, 1, Dot} PROVE SequenceLength(s, i) # 1
  <2>1. PICK n \in 1 .. N : i = End(cs, n - 1) + 1
    BY <1>5
  <2>2. i <= Len(s) /\ n \in 1 .. Len(cs)
    BY <1>2, <1>5 DEF N
  <2>3. End(cs, n) <= Len(s)
    <3>1. n \in 0 .. Len(cs)
      BY <2>2
    <3>2. End(cs, n) \in 0 .. Len(Bytes(cs))
      BY <3>1, HeadBytes
    <3>3. QED
      BY <1>2, <3>2 DEF s
  <2>4. s[i] = cs[n][1] /\ SequenceLength(s, i) = Len(cs[n])
    BY <1>2, <1>3, <2>1, <2>2, <2>3, CharAt
  <2>5. cs[n] \in Glyphs
    BY <2>2
  <2>6. QED
    BY <1>8, <2>4, <2>5, GlyphIs
<1>9. QED
  BY <1>7, <1>8 DEF CodepointCount, Garbled, s, N

(* Cut after the k-th character *)
LEMMA UptoEnd ==
    ASSUME NEW cs \in Seq(Glyphs), NEW s \in Seq(Int), Leads(s, Bytes(cs)),
           NEW k \in 0 .. Len(cs), NEW e, e = End(cs, k), e <= Len(s)
    PROVE  Upto(s, e) = Bytes(SubSeq(cs, 1, k))
<1> DEFINE t == Bytes(cs)
           u == SubSeq(s, 1, e)
           v == SubSeq(t, 1, e)
<1>1. t \in Seq(Int) /\ e \in 0 .. Len(t) /\ Bytes(SubSeq(cs, 1, k)) = v
  BY HeadBytes
<1>2. Leads(s, t)
  OBVIOUS
<1> HIDE DEF t
<1>3. e \in 0 .. Len(s) /\ e \in Nat
  BY <1>1
<1>4. /\ u \in Seq(Int) /\ Len(u) = e /\ \A j \in 1 .. e : u[j] = s[j]
      /\ v \in Seq(Int) /\ Len(v) = e /\ \A j \in 1 .. e : v[j] = t[j]
  <2>1. u \in Seq(Int) /\ Len(u) = e /\ \A j \in 1 .. e : u[j] = s[j]
    BY <1>3, SubSeqProperties
  <2>2. v \in Seq(Int) /\ Len(v) = e /\ \A j \in 1 .. e : v[j] = t[j]
    <3>1. t \in Seq(Int) /\ e \in 0 .. Len(t)
      BY <1>1
    <3>2. QED
      BY <1>3, <3>1, SubSeqProperties, SMTT(20)
  <2>3. QED
    BY <2>1, <2>2
<1> HIDE DEF u, v
<1>5. \A j \in 1 .. e : u[j] = v[j]
  <2>1. \A j \in 1 .. e : j \in 1 .. Len(s)
    BY <1>3
  <2>2. \A j \in 1 .. e : s[j] = t[j]
    BY <1>2, <2>1 DEF Leads
  <2>3. QED
    BY <1>4, <2>2
<1>6. u = v
  BY <1>4, <1>5, SeqEqual
<1>7. Upto(s, e) = u
  <2>1. (IF e < Len(s) THEN e ELSE Len(s)) = e
    BY <1>3
  <2>2. QED
    BY <2>1, Zenon DEF Upto, u
<1>8. QED
  BY <1>1, <1>6, <1>7

(* What a budget leaves: no more than k characters, less than k + 1.  Of   *)
(* the last, if it was cut, nothing stays.                                 *)
LEMMA WholeOf ==
    ASSUME NEW cs \in Seq(Glyphs), NEW s \in Seq(Int), Leads(s, Bytes(cs)),
           NEW k \in 0 .. Len(cs), End(cs, k) <= Len(s),
           k < Len(cs) => Len(s) < End(cs, k + 1)
    PROVE  Whole(s) = Bytes(SubSeq(cs, 1, k))
<1> DEFINE cut == {i \in Heads(s) : i + LeadLength(s[i]) - 1 > Len(s)}
<1>1. PICK e \in Nat : e = End(cs, k)
  BY Ends
<1>2. PICK N \in Nat : N = Len(s)
  OBVIOUS
<1>3. k \in Nat /\ e <= N
  BY <1>1, <1>2
<1>4. /\ e < N => e + 1 \in Heads(s)
      /\ \A i \in Heads(s) : /\ i \in 1 .. N
                             /\ (\E n \in 1 .. k : i = End(cs, n - 1) + 1) \/ i > e
  BY <1>1, <1>2, HeadsAre
<1>5. ASSUME NEW n \in 1 .. k PROVE End(cs, n - 1) + 1 \notin cut
  <2> DEFINE i == End(cs, n - 1) + 1
  <2>1. /\ n \in 1 .. Len(cs) /\ n \in 0 .. k
        /\ n - 1 \in 0 .. Len(cs) /\ n \in 0 .. Len(cs)
    BY <1>3
  <2>2. PICK x \in Nat : x = End(cs, n)
    BY <2>1, Ends
  <2>3. x + (k - n) <= e
    BY <1>1, <2>1, <2>2, EndsGrow
  <2>4. x <= N
    BY <1>3, <2>1, <2>3
  <2>5. PICK w \in 1 .. 4 : w = Len(cs[n])
    BY <2>1, Ends
  <2>6. End(cs, n - 1) \in Nat /\ x = End(cs, n - 1) + w
    BY <2>1, <2>2, <2>5, Ends
  <2>7. i <= Len(s)
    BY <1>2, <2>4, <2>6
  <2>8. LeadLength(s[i]) = w
    BY <2>1, <2>5, <2>7, CharAt, SMTT(20)
  <2>9. ~ (i + LeadLength(s[i]) - 1 > N)
    BY <2>4, <2>6, <2>8
  <2>10. QED
    BY <1>2, <2>9
<1>6. ASSUME e < N
      PROVE  /\ e + 1 \in cut
             /\ \A i \in Heads(s) : i > e /\ i # e + 1 => i \notin cut
  <2>1. k < Len(cs)
    <3>1. k = Len(cs) => e = Len(Bytes(cs))
      BY <1>1, Ends
    <3>2. N <= Len(Bytes(cs))
      BY <1>2 DEF Leads
    <3>3. Len(cs) \in Nat /\ Len(Bytes(cs)) \in Nat
      BY Ends
    <3>4. QED
      BY <1>3, <1>6, <3>1, <3>2, <3>3
  <2>2. k + 1 \in 1 .. Len(cs) /\ (k + 1) - 1 = k /\ k + 1 \in 0 .. Len(cs)
    BY <1>3, <2>1
  <2>3. PICK x \in Nat : x = End(cs, k + 1)
    BY <2>2, Ends
  <2>4. N < x
    BY <1>2, <2>1, <2>3
  <2>5. PICK w \in 1 .. 4 : w = Len(cs[k + 1])
    BY <2>2, Ends
  <2>6. e + 1 = End(cs, (k + 1) - 1) + 1 /\ e + 1 <= Len(s)
    BY <1>1, <1>2, <1>6, <2>2
  <2>7. /\ LeadLength(s[e + 1]) = w /\ x = (e + 1) + w - 1
        /\ \A j \in (e + 1) + 1 .. x : j <= N => s[j] = Cont
    <3>1. PICK m \in 1 .. Len(cs) : m = k + 1
      BY <2>2
    <3>2. PICK i \in Nat : i = e + 1
      OBVIOUS
    <3>3. i = End(cs, m - 1) + 1 /\ i <= Len(s)
      BY <2>6, <3>1, <3>2
    <3>4. /\ LeadLength(s[i]) = Len(cs[m]) /\ End(cs, m) = i + Len(cs[m]) - 1
          /\ \A j \in i + 1 .. End(cs, m) : j <= Len(s) => s[j] = Cont
      BY <3>3, CharAt, SMTT(20)
    <3>5. End(cs, m) = x /\ Len(cs[m]) = w
      BY <2>3, <2>5, <3>1
    <3>6. LeadLength(s[i]) = w /\ x = i + w - 1 /\ \A j \in i + 1 .. x : j <= N => s[j] = Cont
      BY <1>2, <3>4, <3>5
    <3>7. QED
      BY <3>2, <3>6
  <2>8. e + 1 \in cut
    BY <1>2, <1>4, <1>6, <2>4, <2>7
  <2>9. ASSUME NEW i \in Heads(s), i > e, i # e + 1 PROVE i \notin cut
    <3>1. i \in (e + 1) + 1 .. x /\ i <= N
      BY <1>2, <1>4, <2>4, <2>9
    <3>2. LeadLength(s[i]) = 1
      BY <2>7, <3>1 DEF LeadLength, Cont
    <3>3. ~ (i + LeadLength(s[i]) - 1 > N)
      BY <3>1, <3>2
    <3>4. QED
      BY <1>2, <3>3
  <2>10. QED
    BY <2>8, <2>9
<1>7. CASE e = N
  <2>1. cut = {}
    <3>1. ASSUME NEW i \in cut PROVE FALSE
      <4>1. i \in Heads(s)
        OBVIOUS
      <4>2. \E n \in 1 .. k : i = End(cs, n - 1) + 1
        BY <1>4, <1>7, <4>1
      <4>3. QED
        BY <1>5, <4>2
    <3>2. QED
      BY <3>1
  <2>2. Whole(s) = s
    BY <2>1, Zenon DEF Whole
  <2>3. Upto(s, e) = Bytes(SubSeq(cs, 1, k))
    BY <1>1, <1>2, <1>3, UptoEnd
  <2>4. Upto(s, e) = s
    <3>1. (IF e < Len(s) THEN e ELSE Len(s)) = Len(s)
      BY <1>2, <1>7
    <3>2. Upto(s, e) = SubSeq(s, 1, Len(s))
      BY <3>1, Zenon DEF Upto
    <3>3. QED
      BY <3>2
  <2>5. QED
    BY <2>2, <2>3, <2>4
<1>8. CASE e < N
  <2>1. cut = {e + 1}
    <3>1. ASSUME NEW i \in cut PROVE i = e + 1
      <4>1. i \in Heads(s)
        OBVIOUS
      <4>2. (\E n \in 1 .. k : i = End(cs, n - 1) + 1) \/ i > e
        BY <1>4, <4>1
      <4>3. i > e
        BY <1>5, <4>2
      <4>4. QED
        BY <1>6, <1>8, <4>1, <4>3
    <3>2. e + 1 \in cut
      BY <1>6, <1>8
    <3> HIDE DEF cut
    <3>3. QED
      BY <3>1, <3>2
  <2>2. Whole(s) = IF cut = {} THEN s ELSE Upto(s, (CHOOSE i \in cut : \A j \in cut : i <= j) - 1)
    BY Zenon DEF Whole
  <2> HIDE DEF cut
  <2>3. (CHOOSE i \in cut : \A j \in cut : i <= j) = e + 1
    BY <2>1
  <2>4. Whole(s) = Upto(s, (e + 1) - 1)
    BY <2>1, <2>2, <2>3
  <2>5. (e + 1) - 1 = e
    OBVIOUS
  <2>6. QED
    BY <1>1, <1>2, <1>3, <2>4, <2>5, UptoEnd
<1>9. QED
  BY <1>3, <1>7, <1>8

(* The dots are characters too. *)
LEMMA Dotted ==
    ASSUME NEW ds \in Seq(Glyphs)
    PROVE  \E es \in Seq(Glyphs) : /\ Len(es) = Len(ds) + 3
                                   /\ Bytes(es) = Bytes(ds) \o <<Dot, Dot, Dot>>
<1> DEFINE a == Append(ds, <<Dot>>)
           b == Append(a, <<Dot>>)
           c == Append(b, <<Dot>>)
           one == <<Dot>>
<1>1. one \in Glyphs
  BY DEF Glyphs
<1>2. one \in Seq(Int) /\ Glyphs \subseteq Seq(Int)
  BY <1>1, GlyphIs
<1> HIDE DEF one
<1>3. ds \in Seq(Glyphs) /\ a \in Seq(Glyphs) /\ b \in Seq(Glyphs) /\ c \in Seq(Glyphs)
  BY <1>1, AppendProperties DEF one
<1>4. Len(c) = Len(ds) + 3
  BY <1>1, <1>3, AppendProperties DEF one
<1>5. \A es \in Seq(Glyphs) : es \in Seq(Seq(Int))
  BY <1>2
<1>6. /\ Bytes(a) = Bytes(ds) \o one /\ Bytes(b) = Bytes(a) \o one
      /\ Bytes(c) = Bytes(b) \o one /\ Bytes(ds) \in Seq(Int)
  <2>1. ds \in Seq(Seq(Int)) /\ a \in Seq(Seq(Int)) /\ b \in Seq(Seq(Int))
    BY <1>3, <1>5
  <2>2. Bytes(a) = Bytes(ds) \o one /\ Bytes(ds) \in Seq(Int)
    BY <1>2, <2>1, BytesAppend, Zenon DEF one
  <2>3. Bytes(b) = Bytes(a) \o one
    BY <1>2, <2>1, BytesAppend, Zenon DEF one
  <2>4. Bytes(c) = Bytes(b) \o one
    BY <1>2, <2>1, BytesAppend, Zenon DEF one
  <2>5. QED
    BY <2>2, <2>3, <2>4
<1>7. \A t \in Seq(Int) : ((t \o one) \o one) \o one = t \o <<Dot, Dot, Dot>>
  <2>1. ASSUME NEW t \in Seq(Int)
        PROVE  ((t \o <<Dot>>) \o <<Dot>>) \o <<Dot>> = t \o <<Dot, Dot, Dot>>
    BY DEF Dot
  <2>2. QED
    BY <2>1 DEF one
<1>8. Bytes(c) = Bytes(ds) \o <<Dot, Dot, Dot>>
  BY <1>6, <1>7
<1> HIDE DEF c
<1>9. QED
  BY <1>3, <1>4, <1>8

(* Truncation in characters: what is short enough stays, of the rest the   *)
(* head, with dots where they fit. *)
LEMMA TruncatedIs ==
    ASSUME NEW cs \in Seq(Glyphs), NEW w \in Nat,
           NEW dots, dots = IF w > 3 THEN <<Dot, Dot, Dot>> ELSE << >>
    PROVE  /\ Len(cs) <= w => Truncated(Bytes(cs), w) = Bytes(cs)
           /\ Len(cs) > w =>
                 /\ w - Len(dots) \in 0 .. Len(cs) - 1
                 /\ Truncated(Bytes(cs), w) = Bytes(SubSeq(cs, 1, w - Len(dots))) \o dots
           /\ CodepointCount(Truncated(Bytes(cs), w)) <= w
           /\ ~ Garbled(Truncated(Bytes(cs), w))
<1> DEFINE s == Bytes(cs)
           t == Truncated(s, w)
<1>1. CodepointCount(s) = Len(cs) /\ ~ Garbled(s)
  BY WholeHeads
<1>2. t = IF CodepointCount(s) <= w THEN s
          ELSE Upto(s, Begins(s)[w - Len(dots) + 1] - 1) \o dots
  BY Zenon DEF Truncated
<1>3. Len(cs) \in Nat
  OBVIOUS
<1>4. CASE Len(cs) <= w
  <2>1. t = s
    BY <1>1, <1>2, <1>4
  <2> HIDE DEF s, t
  <2>2. CodepointCount(t) <= w /\ ~ Garbled(t)
    BY <1>1, <1>4, <2>1
  <2>3. QED
    BY <1>3, <1>4, <2>1, <2>2 DEF s, t
<1>5. CASE Len(cs) > w
  <2>1. /\ w > 3 => dots = <<Dot, Dot, Dot>> /\ Len(dots) = 3
        /\ ~ (w > 3) => dots = << >> /\ Len(dots) = 0
    OBVIOUS
  <2>2. PICK m \in Nat : m = w - Len(dots)
    BY <2>1
  <2>3. m \in 0 .. Len(cs) - 1 /\ m \in 0 .. Len(cs) /\ Len(cs) \in 0 .. Len(cs)
    BY <1>3, <1>5, <2>1, <2>2
  <2>4. t = Upto(s, Begins(s)[m + 1] - 1) \o dots
    BY <1>1, <1>2, <1>3, <1>5, <2>2
  <2>5. s \in Seq(Int) /\ End(cs, m) \in 0 .. Len(s) /\ End(cs, Len(cs)) = Len(s)
    BY <2>3, HeadBytes, Ends
  <2>6. Leads(s, Bytes(cs))
    BY <2>5 DEF Leads
  <2> HIDE DEF s, t
  <2>7. Begins(s)[m + 1] = End(cs, m) + 1
    <3>1. End(cs, Len(cs)) <= Len(s)
      BY <2>5
    <3>2. QED
      BY <2>3, <2>5, <2>6, <3>1, FirstHeads
  <2>8. Begins(s)[m + 1] - 1 = End(cs, m)
    BY <2>5, <2>7
  <2>9. Upto(s, End(cs, m)) = Bytes(SubSeq(cs, 1, m))
    <3>1. End(cs, m) <= Len(s)
      BY <2>5
    <3>2. QED
      BY <2>3, <2>5, <2>6, <3>1, UptoEnd
  <2> DEFINE ds == SubSeq(cs, 1, m)
  <2>10. ds \in Seq(Glyphs) /\ Len(ds) = m
    BY <2>3, SubSeqProperties
  <2>11. t = Bytes(ds) \o dots
    BY <2>4, <2>8, <2>9
  <2> HIDE DEF ds
  <2>12. Bytes(ds) \in Seq(Int)
    <3>1. 0 \in 0 .. Len(ds)
      BY <2>10
    <3>2. QED
      BY <2>10, <3>1, HeadBytes
  <2>13. CodepointCount(t) <= w /\ ~ Garbled(t)
    <3>1. CASE w > 3
      <4>1. PICK es \in Seq(Glyphs) : /\ Len(es) = Len(ds) + 3
                                      /\ Bytes(es) = Bytes(ds) \o <<Dot, Dot, Dot>>
        BY <2>10, Dotted
      <4>2. t = Bytes(es) /\ Len(es) = w
        BY <2>1, <2>2, <2>10, <2>11, <3>1, <4>1
      <4>3. QED
        BY <4>2, WholeHeads
    <3>2. CASE ~ (w > 3)
      <4>1. t = Bytes(ds) /\ Len(ds) = w
        BY <2>1, <2>2, <2>10, <2>11, <2>12, <3>2
      <4>2. QED
        BY <2>10, <4>1, WholeHeads
    <3>3. QED
      BY <3>1, <3>2
  <2>14. w - Len(dots) \in 0 .. Len(cs) - 1
    BY <2>2, <2>3
  <2>15. t = Bytes(SubSeq(cs, 1, w - Len(dots))) \o dots
    BY <2>2, <2>11 DEF ds
  <2>16. ~ (Len(cs) <= w)
    BY <1>3, <1>5
  <2>17. QED
    BY <2>13, <2>14, <2>15, <2>16, Zenon DEF s, t
<1>6. Len(cs) <= w \/ Len(cs) > w
  BY <1>3
<1>7. QED
  BY <1>4, <1>5, <1>6, Zenon

----------------------------------------------------------------------------
(* What should be seen, and what the loop makes of it *)

(* The n-th character is a space that is not seen, p being what was seen. *)
Skips(chars, n, p) ==
    /\ chars[n] = <<Space>>
    /\ \/ p = << >>
       \/ \A m \in n .. Len(chars) : chars[m] = <<Space>>
       \/ chars[n - 1] = <<Space>>

SeenNext(chars, n, p) == IF Skips(chars, n, p) THEN p ELSE Append(p, chars[n])

(* Proper is what its definition says. *)
LEMMA ProperRecurs ==
    ASSUME NEW chars \in Seq(Characters), NEW N, N = Len(chars)
    PROVE  \E f \in [0 .. N -> Seq(Characters)] :
              /\ f[0] = << >> /\ \A n \in 1 .. N : f[n] = SeenNext(chars, n, f[n - 1])
              /\ Proper(chars) = f[N]
<1> DEFINE V == Seq(Characters)
           nil == << >>
           step == [n \in 1 .. N |-> [p \in V |-> SeenNext(chars, n, p)]]
           Def(f) == [n \in 0 .. N |-> IF n = 0 THEN << >> ELSE SeenNext(chars, n, f[n - 1])]
           h == CHOOSE f : f = Def(f)
<1>1. N \in Nat /\ \A n \in 1 .. N : chars[n] \in Characters
  OBVIOUS
<1>2. nil \in V
  OBVIOUS
<1>3. \A n \in 1 .. N : \A p \in V : SeenNext(chars, n, p) \in V
  <2>1. ASSUME NEW n \in 1 .. N, NEW p \in V PROVE SeenNext(chars, n, p) \in V
    <3>1. Append(p, chars[n]) \in V
      BY <1>1, AppendProperties
    <3> HIDE DEF V
    <3>2. QED
      BY <3>1, Zenon DEF SeenNext
  <2>2. QED
    BY <2>1
<1>4. Proper(chars) = h[N]
  BY Zenon DEF Proper, SeenNext, Skips
<1> HIDE DEF V, h, nil
<1>5. step \in [1 .. N -> [V -> V]] /\ \A n \in 1 .. N : \A p \in V : step[n][p] = SeenNext(chars, n, p)
  BY <1>3
<1> HIDE DEF step
<1>6. PICK f \in [0 .. N -> V] : f[0] = nil /\ \A n \in 1 .. N : f[n] = step[n][f[n - 1]]
  <2>1. Unrolled(V, N, nil, step) # {}
    BY <1>1, <1>2, <1>5, Recurs
  <2>2. QED
    BY <2>1 DEF Unrolled
<1>7. \A n \in 1 .. N : n - 1 \in 0 .. N /\ f[n] = SeenNext(chars, n, f[n - 1])
  <2>1. \A n \in 1 .. N : n - 1 \in 0 .. N
    BY <1>1
  <2>2. QED
    BY <1>5, <1>6, <2>1
<1>8. h = Def(h)
  <2>1. f = Def(f)
    <3>1. \A n \in 0 .. N : n = 0 \/ n \in 1 .. N
      BY <1>1
    <3>2. \A n \in 0 .. N : f[n] = IF n = 0 THEN << >> ELSE SeenNext(chars, n, f[n - 1])
      BY <1>6, <1>7, <3>1, Zenon DEF nil
    <3>3. f = [n \in 0 .. N |-> f[n]]
      BY <1>6
    <3>4. QED
      BY <3>2, <3>3
  <2>2. QED
    BY <2>1, Zenon DEF h
<1>9. h[0] = nil /\ \A n \in 1 .. N : h[n] = SeenNext(chars, n, h[n - 1])
  <2>1. \A n \in 0 .. N : h[n] = IF n = 0 THEN << >> ELSE SeenNext(chars, n, h[n - 1])
    BY <1>8, Zenon
  <2>2. 0 \in 0 .. N /\ \A n \in 1 .. N : n \in 0 .. N /\ n # 0
    BY <1>1
  <2>3. QED
    BY <2>1, <2>2, Zenon DEF nil
<1>10. ASSUME NEW n \in 0 .. N PROVE h[n] = f[n]
  <2> DEFINE S == {m \in Nat : m <= N => h[m] = f[m]}
  <2>1. 0 \in S
    BY <1>6, <1>9
  <2>2. ASSUME NEW m \in Nat, m \in S PROVE m + 1 \in S
    <3>1. SUFFICES ASSUME m + 1 <= N PROVE h[m + 1] = f[m + 1]
      OBVIOUS
    <3>2. m + 1 \in 1 .. N /\ (m + 1) - 1 = m /\ h[m] = f[m]
      BY <1>1, <2>2, <3>1
    <3>3. h[m + 1] = SeenNext(chars, m + 1, h[m]) /\ f[m + 1] = SeenNext(chars, m + 1, f[m])
      BY <1>7, <1>9, <3>2
    <3>4. QED
      BY <3>2, <3>3
  <2> HIDE DEF S
  <2>3. \A m \in Nat : m \in S
    BY <2>1, <2>2, Induct
  <2>4. QED
    BY <1>1, <2>3 DEF S
<1>11. Proper(chars) = f[N]
  <2>1. N \in 0 .. N
    BY <1>1
  <2>2. QED
    BY <1>4, <1>10, <2>1
<1>12. QED
  BY <1>6, <1>7, <1>11 DEF V, nil

(* A byte more *)
FoldIn(p, b) ==
    CASE Len(p.text) >= MaxSanitisedBytes -> p
      [] Len(p.text) < MaxSanitisedBytes /\ b = Space -> [p EXCEPT !.space = p.text # << >>]
      [] OTHER -> [text |-> Append(Padded(p), b), space |-> FALSE]

Folding == [text : Seq(Int), space : BOOLEAN]

(* A byte folded into a state of the loop is a state of the loop. *)
LEMMA FoldInIs ==
    ASSUME NEW p \in Folding, NEW b \in Int
    PROVE  /\ FoldIn(p, b) \in Folding
           /\ Len(p.text) >= MaxSanitisedBytes => FoldIn(p, b) = p
           /\ Len(p.text) < MaxSanitisedBytes /\ b = Space =>
                 FoldIn(p, b) = [text |-> p.text, space |-> p.text # << >>]
           /\ Len(p.text) < MaxSanitisedBytes /\ b # Space =>
                 FoldIn(p, b) = [text |-> Append(Padded(p), b), space |-> FALSE]
<1>1. p.text \in Seq(Int) /\ p.space \in BOOLEAN /\ Padded(p) \in Seq(Int)
  <2>1. p.text \in Seq(Int) /\ p.space \in BOOLEAN
    BY DEF Folding
  <2>2. Space \in Int
    BY DEF Space
  <2>3. Padded(p) = Append(p.text, Space) \/ Padded(p) = p.text
    BY Zenon DEF Padded
  <2>4. Append(p.text, Space) \in Seq(Int)
    BY <2>1, <2>2, AppendProperties
  <2>5. QED
    BY <2>1, <2>3, <2>4, Zenon
<1>2. Len(p.text) \in Nat /\ MaxSanitisedBytes \in Nat
  BY <1>1, TextAssumption
<1>3. p = [text |-> p.text, space |-> p.space]
  BY DEF Folding
<1>4. CASE Len(p.text) >= MaxSanitisedBytes
  <2>1. ~ (Len(p.text) < MaxSanitisedBytes)
    BY <1>2, <1>4
  <2>2. FoldIn(p, b) = p
    BY <1>4, <2>1, Zenon DEF FoldIn
  <2>3. QED
    BY <2>1, <2>2
<1>5. CASE Len(p.text) < MaxSanitisedBytes /\ b = Space
  <2>1. ~ (Len(p.text) >= MaxSanitisedBytes)
    BY <1>2, <1>5
  <2>2. FoldIn(p, b) = [p EXCEPT !.space = p.text # << >>]
    BY <1>5, <2>1, Zenon DEF FoldIn
  <2>3. [p EXCEPT !.space = p.text # << >>] = [text |-> p.text, space |-> p.text # << >>]
    BY DEF Folding
  <2>4. FoldIn(p, b) = [text |-> p.text, space |-> p.text # << >>]
    BY <2>2, <2>3
  <2>5. (p.text # << >>) \in BOOLEAN
    OBVIOUS
  <2>6. FoldIn(p, b) \in Folding
    BY <1>1, <2>4, <2>5 DEF Folding
  <2>7. QED
    BY <1>5, <2>1, <2>4, <2>6, Zenon
<1>6. CASE Len(p.text) < MaxSanitisedBytes /\ b # Space
  <2>1. ~ (Len(p.text) >= MaxSanitisedBytes)
    BY <1>2, <1>6
  <2>2. FoldIn(p, b) = [text |-> Append(Padded(p), b), space |-> FALSE]
    BY <1>6, <2>1, Zenon DEF FoldIn
  <2>3. FoldIn(p, b) \in Folding
    BY <1>1, <2>2, AppendProperties DEF Folding
  <2>4. QED
    BY <1>6, <2>1, <2>2, <2>3, Zenon
<1>7. QED
  BY <1>2, <1>4, <1>5, <1>6

(* Folded is what its definition says. *)
LEMMA FoldedRecurs ==
    ASSUME NEW raw \in Seq(Int), NEW N, N = Len(raw)
    PROVE  \E f \in [0 .. N -> Folding] :
              /\ f[0] = [text |-> << >>, space |-> FALSE]
              /\ \A n \in 1 .. N : f[n] = FoldIn(f[n - 1], raw[n])
              /\ Folded(raw) = f[N].text
<1> DEFINE nil == [text |-> << >>, space |-> FALSE]
           step == [n \in 1 .. N |-> [p \in Folding |-> FoldIn(p, raw[n])]]
           Def(f) == [n \in 0 .. N |-> IF n = 0 THEN [text |-> << >>, space |-> FALSE]
                                       ELSE FoldIn(f[n - 1], raw[n])]
           h == CHOOSE f : f = Def(f)
<1>1. N \in Nat /\ \A n \in 1 .. N : raw[n] \in Int
  OBVIOUS
<1>2. nil \in Folding
  BY DEF Folding
<1>3. \A n \in 1 .. N : \A p \in Folding : FoldIn(p, raw[n]) \in Folding
  BY <1>1, FoldInIs
<1>4. Folded(raw) = h[N].text
  BY Zenon DEF Folded, FoldIn
<1> HIDE DEF h, nil
<1>5. step \in [1 .. N -> [Folding -> Folding]] /\ \A n \in 1 .. N : \A p \in Folding : step[n][p] = FoldIn(p, raw[n])
  BY <1>3
<1> HIDE DEF step
<1>6. PICK f \in [0 .. N -> Folding] : f[0] = nil /\ \A n \in 1 .. N : f[n] = step[n][f[n - 1]]
  <2>1. Unrolled(Folding, N, nil, step) # {}
    BY <1>1, <1>2, <1>5, Recurs
  <2>2. QED
    BY <2>1 DEF Unrolled
<1>7. \A n \in 1 .. N : n - 1 \in 0 .. N /\ f[n] = FoldIn(f[n - 1], raw[n])
  <2>1. \A n \in 1 .. N : n - 1 \in 0 .. N
    BY <1>1
  <2>2. QED
    BY <1>5, <1>6, <2>1
<1>8. h = Def(h)
  <2>1. f = Def(f)
    <3>1. \A n \in 0 .. N : n = 0 \/ n \in 1 .. N
      BY <1>1
    <3>2. \A n \in 0 .. N : f[n] = IF n = 0 THEN [text |-> << >>, space |-> FALSE]
                                   ELSE FoldIn(f[n - 1], raw[n])
      BY <1>6, <1>7, <3>1, Zenon DEF nil
    <3>3. f = [n \in 0 .. N |-> f[n]]
      BY <1>6
    <3>4. QED
      BY <3>2, <3>3
  <2>2. QED
    BY <2>1, Zenon DEF h
<1>9. h[0] = nil /\ \A n \in 1 .. N : h[n] = FoldIn(h[n - 1], raw[n])
  <2>1. \A n \in 0 .. N : h[n] = IF n = 0 THEN [text |-> << >>, space |-> FALSE]
                                 ELSE FoldIn(h[n - 1], raw[n])
    BY <1>8, Zenon
  <2>2. 0 \in 0 .. N /\ \A n \in 1 .. N : n \in 0 .. N /\ n # 0
    BY <1>1
  <2>3. QED
    BY <2>1, <2>2, Zenon DEF nil
<1>10. ASSUME NEW n \in 0 .. N PROVE h[n] = f[n]
  <2> DEFINE S == {m \in Nat : m <= N => h[m] = f[m]}
  <2>1. 0 \in S
    BY <1>6, <1>9
  <2>2. ASSUME NEW m \in Nat, m \in S PROVE m + 1 \in S
    <3>1. SUFFICES ASSUME m + 1 <= N PROVE h[m + 1] = f[m + 1]
      OBVIOUS
    <3>2. m + 1 \in 1 .. N /\ (m + 1) - 1 = m /\ h[m] = f[m]
      BY <1>1, <2>2, <3>1
    <3>3. h[m + 1] = FoldIn(h[m], raw[m + 1]) /\ f[m + 1] = FoldIn(f[m], raw[m + 1])
      BY <1>7, <1>9, <3>2
    <3>4. QED
      BY <3>2, <3>3
  <2> HIDE DEF S
  <2>3. \A m \in Nat : m \in S
    BY <2>1, <2>2, Induct
  <2>4. QED
    BY <1>1, <2>3 DEF S
<1>11. Folded(raw) = f[N].text
  <2>1. N \in 0 .. N
    BY <1>1
  <2>2. QED
    BY <1>4, <1>10, <2>1
<1>12. QED
  BY <1>6, <1>7, <1>11 DEF nil

(* The sequences of what should be seen, character by character *)
Sights(chars) ==
    {f \in [0 .. Len(chars) -> Seq(Characters)] :
        /\ f[0] = << >>
        /\ \A n \in 1 .. Len(chars) : f[n] = SeenNext(chars, n, f[n - 1])}

OnlySpaces(chars, n) == \A m \in n .. Len(chars) : chars[m] = <<Space>>

(* The characters of the model are characters of UTF-8. *)
LEMMA CharactersAre ==
    /\ Seq(Characters) \subseteq Seq(Glyphs) /\ Seq(Glyphs) \subseteq Seq(Seq(Int))
    /\ Characters \subseteq Glyphs /\ Glyphs \subseteq Seq(Int)
<1>1. Characters \subseteq Glyphs
  BY DEF Glyphs
<1>2. Glyphs \subseteq Seq(Int)
  BY GlyphIs
<1>3. \A cs \in Seq(Characters) : cs \in Seq(Glyphs)
  BY <1>1
<1>4. \A cs \in Seq(Glyphs) : cs \in Seq(Seq(Int))
  BY <1>2
<1>5. QED
  BY <1>1, <1>2, <1>3, <1>4

(* No bytes, no characters *)
LEMMA SomeBytes ==
    ASSUME NEW cs \in Seq(Glyphs)
    PROVE  Bytes(cs) \in Seq(Int) /\ (Bytes(cs) = << >> <=> cs = << >>)
<1>1. Len(cs) \in 0 .. Len(cs) /\ 0 \in 0 .. Len(cs) /\ Len(cs) \in Nat
  OBVIOUS
<1>2. Bytes(cs) \in Seq(Int) /\ End(cs, Len(cs)) = Len(Bytes(cs)) /\ End(cs, 0) = 0
  BY <1>1, HeadBytes, Ends
<1>3. Len(cs) <= Len(Bytes(cs))
  <2>1. End(cs, 0) + (Len(cs) - 0) <= End(cs, Len(cs))
    BY <1>1, EndsGrow
  <2>2. QED
    BY <1>1, <1>2, <2>1
<1>4. ASSUME cs = << >> PROVE Bytes(cs) = << >>
  <2>1. Len(cs) = 0
    BY <1>4
  <2>2. Len(Bytes(cs)) = 0
    BY <1>2, <2>1
  <2>3. QED
    BY <1>2, <2>2, EmptySeq
<1>5. ASSUME Bytes(cs) = << >> PROVE cs = << >>
  <2>1. Len(Bytes(cs)) = 0
    BY <1>5
  <2>2. Len(cs) = 0
    BY <1>1, <1>3, <2>1
  <2>3. QED
    BY <2>2, EmptySeq
<1>6. QED
  BY <1>2, <1>4, <1>5

(* What is seen of n characters is how what is seen of them all begins. *)
LEMMA SightsGrow ==
    ASSUME NEW chars \in Seq(Characters), NEW f \in Sights(chars)
    PROVE  /\ \A n \in 0 .. Len(chars) : f[n] \in Seq(Glyphs) /\ Bytes(f[n]) \in Seq(Int)
           /\ \A n \in 1 .. Len(chars) :
                 /\ Skips(chars, n, f[n - 1]) => f[n] = f[n - 1]
                 /\ ~ Skips(chars, n, f[n - 1]) =>
                       Bytes(f[n]) = Bytes(f[n - 1]) \o chars[n]
           /\ \A n \in 0 .. Len(chars) : Leads(Bytes(f[n]), Bytes(f[Len(chars)]))
<1> DEFINE C == Len(chars)
           B(n) == Bytes(f[n])
<1>1. /\ C \in Nat /\ f \in [0 .. C -> Seq(Characters)]
      /\ \A n \in 1 .. C : f[n] = SeenNext(chars, n, f[n - 1]) /\ chars[n] \in Characters
  BY DEF Sights
<1>2. \A n \in 0 .. C : f[n] \in Seq(Glyphs) /\ f[n] \in Seq(Seq(Int)) /\ B(n) \in Seq(Int)
  BY <1>1, CharactersAre, SomeBytes
<1>3. ASSUME NEW n \in 1 .. C
      PROVE  /\ n - 1 \in 0 .. C
             /\ Skips(chars, n, f[n - 1]) => f[n] = f[n - 1]
             /\ ~ Skips(chars, n, f[n - 1]) => B(n) = B(n - 1) \o chars[n]
  <2>1. n - 1 \in 0 .. C
    BY <1>1
  <2>2. ASSUME Skips(chars, n, f[n - 1]) PROVE f[n] = f[n - 1]
    BY <1>1, <2>2, Zenon DEF SeenNext
  <2>3. ASSUME ~ Skips(chars, n, f[n - 1]) PROVE B(n) = B(n - 1) \o chars[n]
    <3>1. f[n] = Append(f[n - 1], chars[n])
      BY <1>1, <2>3, Zenon DEF SeenNext
    <3>2. chars[n] \in Seq(Int) /\ f[n - 1] \in Seq(Seq(Int))
      BY <1>1, <1>2, <2>1, CharactersAre
    <3>3. QED
      BY <3>1, <3>2, BytesAppend, Zenon
  <2>4. QED
    BY <2>1, <2>2, <2>3
<1>4. ASSUME NEW n \in 1 .. C PROVE Leads(B(n - 1), B(n))
  <2>1. PICK s : s = B(n - 1)
    OBVIOUS
  <2>2. PICK t : t = B(n)
    OBVIOUS
  <2>3. s \in Seq(Int) /\ t \in Seq(Int) /\ chars[n] \in Seq(Int)
    <3>1. n \in 0 .. C /\ n - 1 \in 0 .. C
      BY <1>1
    <3>2. QED
      BY <1>1, <1>2, <2>1, <2>2, <3>1, CharactersAre
  <2>4. t = s \/ t = s \o chars[n]
    BY <1>3, <2>1, <2>2
  <2> HIDE DEF B
  <2>5. Leads(s, t)
    BY <2>3, <2>4, ConcatProperties DEF Leads
  <2>6. QED
    BY <2>1, <2>2, <2>5
<1> DEFINE S == {k \in Nat : k <= C => Leads(B(C - k), B(C))}
<1>5. 0 \in S
  <2>1. C - 0 = C /\ C \in 0 .. C
    BY <1>1
  <2>2. B(C) \in Seq(Int)
    BY <1>2, <2>1
  <2> HIDE DEF B
  <2>3. Leads(B(C), B(C))
    BY <2>2 DEF Leads
  <2>4. QED
    BY <2>1, <2>3
<1>6. ASSUME NEW k \in Nat, k \in S PROVE k + 1 \in S
  <2>1. SUFFICES ASSUME k + 1 <= C PROVE Leads(B(C - (k + 1)), B(C))
    OBVIOUS
  <2>2. Leads(B(C - k), B(C)) /\ C - k \in 1 .. C /\ (C - k) - 1 = C - (k + 1)
    BY <1>1, <1>6, <2>1
  <2>3. Leads(B(C - (k + 1)), B(C - k))
    BY <1>4, <2>2
  <2>4. /\ B(C - (k + 1)) \in Seq(Int) /\ B(C - k) \in Seq(Int) /\ B(C) \in Seq(Int)
    <3>1. C - (k + 1) \in 0 .. C /\ C - k \in 0 .. C /\ C \in 0 .. C
      BY <1>1, <2>1
    <3>2. QED
      BY <1>2, <3>1
  <2> HIDE DEF B
  <2>5. \A r, s, t \in Seq(Int) : Leads(r, s) /\ Leads(s, t) => Leads(r, t)
    BY DEF Leads
  <2>6. QED
    BY <2>2, <2>3, <2>4, <2>5
<1> HIDE DEF S
<1>7. \A k \in Nat : k \in S
  BY <1>5, <1>6, Induct
<1>8. ASSUME NEW n \in 0 .. C PROVE Leads(B(n), B(C))
  <2>1. C - n \in S /\ C - n \in Nat /\ C - n <= C /\ C - (C - n) = n
    BY <1>1, <1>7
  <2>2. QED
    BY <2>1 DEF S
<1>9. QED
  BY <1>2, <1>3, <1>8

(* The state p of the loop, within its budget, after n characters ... *)
Between(chars, f, p, n) ==
    \/ /\ p.text = Bytes(f[n]) /\ p.space = FALSE
       /\ p.text # << >> => n > 0 /\ chars[n] # <<Space>>
    \/ /\ p.space = TRUE /\ p.text # << >> /\ n > 0 /\ chars[n] = <<Space>>
       /\ \/ Append(p.text, Space) = Bytes(f[n]) /\ ~ OnlySpaces(chars, n)
          \/ p.text = Bytes(f[n]) /\ OnlySpaces(chars, n)

(* ... and in the middle of the next, o bytes of it being read *)
Amid(chars, f, p, n, o) ==
    /\ n < Len(chars) /\ o < Len(chars[n + 1]) /\ ~ Skips(chars, n + 1, f[n])
    /\ p.space = FALSE /\ p.text = Bytes(f[n]) \o SubSeq(chars[n + 1], 1, o)

InStep(chars, f, p, i) ==
    \E n \in 0 .. Len(chars) :
        \/ i = End(chars, n) /\ Between(chars, f, p, n)
        \/ \E o \in 1 .. 3 : i = End(chars, n) + o /\ Amid(chars, f, p, n, o)

(* A space *)
LEMMA SpaceRead ==
    ASSUME NEW chars \in Seq(Characters), NEW f \in Sights(chars), NEW p \in Folding,
           NEW n \in 0 .. Len(chars), NEW m \in 1 .. Len(chars), m = n + 1,
           Between(chars, f, p, n), chars[m] = <<Space>>
    PROVE  Between(chars, f, [text |-> p.text, space |-> p.text # << >>], m)
<1> DEFINE t == p.text
           q == [text |-> p.text, space |-> p.text # << >>]
           C == Len(chars)
<1>1. q.text = t /\ (t # << >> => q.space = TRUE) /\ (t = << >> => q.space = FALSE)
  OBVIOUS
<1>2. /\ m - 1 = n /\ n \in 0 .. C /\ C \in Nat
      /\ \A k \in 1 .. C : chars[k] \in Characters
  OBVIOUS
<1>3. /\ Skips(chars, m, f[n]) => f[m] = f[n]
      /\ ~ Skips(chars, m, f[n]) => Bytes(f[m]) = Bytes(f[n]) \o chars[m]
  BY <1>2, SightsGrow
<1>4. t \in Seq(Int) /\ Bytes(f[n]) \in Seq(Int) /\ (Bytes(f[n]) = << >> <=> f[n] = << >>)
  <2>1. f[n] \in Seq(Glyphs)
    BY SightsGrow
  <2>2. QED
    BY <2>1, SomeBytes DEF Folding
<1>5. Skips(chars, m, f[n]) <=> f[n] = << >> \/ OnlySpaces(chars, m) \/ chars[n] = <<Space>>
  BY <1>2, Zenon DEF Skips, OnlySpaces
<1>6. m > 0 /\ (t # << >> => q.space = TRUE) /\ q.text = t
  BY <1>1
<1>7. CASE t = Bytes(f[n]) /\ t = << >>
  <2>1. Bytes(f[m]) = t
    BY <1>3, <1>4, <1>5, <1>7
  <2> HIDE DEF t, q
  <2>2. QED
    BY <1>1, <1>7, <2>1 DEF Between, q
<1>8. CASE t = Bytes(f[n]) /\ t # << >> /\ chars[n] # <<Space>>
  <2>1. Skips(chars, m, f[n]) <=> OnlySpaces(chars, m)
    BY <1>4, <1>5, <1>8
  <2>2. CASE OnlySpaces(chars, m)
    <3>1. t = Bytes(f[m])
      BY <1>3, <1>8, <2>1, <2>2
    <3>2. QED
      BY <1>6, <1>8, <2>2, <3>1, Zenon DEF Between
  <2>3. CASE ~ OnlySpaces(chars, m)
    <3>1. Bytes(f[m]) = t \o <<Space>>
      BY <1>3, <1>8, <2>1, <2>3
    <3>2. Append(t, Space) = Bytes(f[m])
      <4>1. Space \in Int
        BY DEF Space
      <4> HIDE DEF t
      <4>2. Append(t, Space) = t \o <<Space>>
        BY <1>4, <4>1
      <4>3. QED
        BY <3>1, <4>2
    <3>3. QED
      BY <1>6, <1>8, <2>3, <3>2, Zenon DEF Between
  <2>4. QED
    BY <2>2, <2>3
<1>9. CASE t # << >> /\ n > 0 /\ chars[n] = <<Space>>
           /\ (\/ Append(t, Space) = Bytes(f[n]) /\ ~ OnlySpaces(chars, n)
               \/ t = Bytes(f[n]) /\ OnlySpaces(chars, n))
  <2>1. f[m] = f[n]
    BY <1>3, <1>5, <1>9
  <2>2. OnlySpaces(chars, n) <=> OnlySpaces(chars, m)
    <3>1. \A k : k \in n .. C <=> k = n \/ k \in m .. C
      BY <1>2
    <3>2. QED
      BY <1>9, <3>1, Zenon DEF OnlySpaces
  <2>3. QED
    BY <1>6, <1>9, <2>1, <2>2, Zenon DEF Between
<1>10. QED
  BY <1>7, <1>8, <1>9, Zenon DEF Between

(* The loop owes no space when it has read nothing but one character.      *)
LEMMA PaidUp ==
    ASSUME NEW chars \in Seq(Characters), NEW f \in Sights(chars), NEW p \in Folding,
           NEW n \in 0 .. Len(chars), NEW m \in 1 .. Len(chars), m = n + 1,
           Between(chars, f, p, n), chars[m] # <<Space>>
    PROVE  Padded(p) = Bytes(f[n]) /\ ~ Skips(chars, m, f[n])
<1>1. ~ Skips(chars, m, f[n])
  BY DEF Skips
<1>2. m \in n .. Len(chars)
  OBVIOUS
<1>3. ~ OnlySpaces(chars, n)
  BY <1>2 DEF OnlySpaces
<1>4. \/ p.text = Bytes(f[n]) /\ p.space = FALSE
      \/ p.space = TRUE /\ Append(p.text, Space) = Bytes(f[n])
  BY <1>3, Zenon DEF Between
<1>5. Padded(p) = Bytes(f[n])
  BY <1>4, Zenon DEF Padded
<1>6. QED
  BY <1>1, <1>5

(* The number before the next one *)
LEMMA Follows ==
    ASSUME NEW C \in Nat, NEW x \in 0 .. C, NEW y \in 1 .. C, y = x + 1
    PROVE  y - 1 = x /\ x < C /\ y > 0
  OBVIOUS

(* The head of a character that is one byte longer *)
LEMMA OneByteMore ==
    ASSUME NEW b \in Seq(Int), NEW g \in Seq(Int), NEW o \in 1 .. Len(g)
    PROVE  Append(b \o SubSeq(g, 1, o - 1), g[o]) = b \o SubSeq(g, 1, o)
<1> DEFINE u == SubSeq(g, 1, o - 1)
           v == SubSeq(g, 1, o)
           w == b \o u
           l == Append(w, g[o])
           r == b \o v
<1>1. Len(g) \in Nat /\ Len(b) \in Nat /\ g[o] \in Int /\ o \in Nat
  OBVIOUS
<1>2. /\ u \in Seq(Int) /\ Len(u) = o - 1 /\ \A j \in 1 .. o - 1 : u[j] = g[j]
      /\ v \in Seq(Int) /\ Len(v) = o /\ \A j \in 1 .. o : v[j] = g[j]
  BY <1>1, SubSeqProperties
<1> HIDE DEF u, v
<1>3. /\ w \in Seq(Int) /\ Len(w) = Len(b) + (o - 1)
      /\ \A j \in 1 .. Len(b) : w[j] = b[j]
      /\ \A j \in Len(b) + 1 .. Len(b) + (o - 1) : w[j] = u[j - Len(b)]
  <2>1. /\ b \o u \in Seq(Int) /\ Len(b \o u) = Len(b) + Len(u)
        /\ \A j \in 1 .. Len(b) + Len(u) :
              (b \o u)[j] = IF j <= Len(b) THEN b[j] ELSE u[j - Len(b)]
    BY <1>2, ConcatProperties
  <2>2. /\ w \in Seq(Int) /\ Len(w) = Len(b) + (o - 1)
        /\ \A j \in 1 .. Len(b) + (o - 1) :
              w[j] = IF j <= Len(b) THEN b[j] ELSE u[j - Len(b)]
    BY <1>2, <2>1
  <2> HIDE DEF w
  <2>3. ASSUME NEW j \in 1 .. Len(b) PROVE w[j] = b[j]
    <3>1. j \in 1 .. Len(b) + (o - 1) /\ j <= Len(b)
      BY <1>1
    <3>2. QED
      BY <2>2, <3>1
  <2>4. ASSUME NEW j \in Len(b) + 1 .. Len(b) + (o - 1) PROVE w[j] = u[j - Len(b)]
    <3>1. j \in 1 .. Len(b) + (o - 1) /\ ~ (j <= Len(b))
      BY <1>1
    <3>2. QED
      BY <2>2, <3>1
  <2>5. QED
    BY <2>2, <2>3, <2>4
<1>4. /\ r \in Seq(Int) /\ Len(r) = Len(b) + o
      /\ \A j \in 1 .. Len(b) : r[j] = b[j]
      /\ \A j \in Len(b) + 1 .. Len(b) + o : r[j] = v[j - Len(b)]
  <2>1. /\ b \o v \in Seq(Int) /\ Len(b \o v) = Len(b) + Len(v)
        /\ \A j \in 1 .. Len(b) + Len(v) :
              (b \o v)[j] = IF j <= Len(b) THEN b[j] ELSE v[j - Len(b)]
    BY <1>2, ConcatProperties
  <2>2. /\ r \in Seq(Int) /\ Len(r) = Len(b) + o
        /\ \A j \in 1 .. Len(b) + o :
              r[j] = IF j <= Len(b) THEN b[j] ELSE v[j - Len(b)]
    BY <1>2, <2>1
  <2> HIDE DEF r
  <2>3. ASSUME NEW j \in 1 .. Len(b) PROVE r[j] = b[j]
    <3>1. j \in 1 .. Len(b) + o /\ j <= Len(b)
      BY <1>1
    <3>2. QED
      BY <2>2, <3>1
  <2>4. ASSUME NEW j \in Len(b) + 1 .. Len(b) + o PROVE r[j] = v[j - Len(b)]
    <3>1. j \in 1 .. Len(b) + o /\ ~ (j <= Len(b))
      BY <1>1
    <3>2. QED
      BY <2>2, <3>1
  <2>5. QED
    BY <2>2, <2>3, <2>4
<1> HIDE DEF w, r
<1>5. /\ l \in Seq(Int) /\ Len(l) = Len(b) + o /\ l[Len(b) + o] = g[o]
      /\ \A j \in 1 .. Len(b) + (o - 1) : l[j] = w[j]
  BY <1>1, <1>3, AppendProperties
<1> HIDE DEF l
<1>6. ASSUME NEW j \in 1 .. Len(b) + o PROVE l[j] = r[j]
  <2>1. CASE j \in 1 .. Len(b)
    <3>1. j \in 1 .. Len(b) + (o - 1)
      BY <1>1, <2>1
    <3>2. QED
      BY <1>3, <1>4, <1>5, <2>1, <3>1
  <2>2. CASE j \in Len(b) + 1 .. Len(b) + (o - 1)
    <3>1. /\ j \in 1 .. Len(b) + (o - 1) /\ j \in Len(b) + 1 .. Len(b) + o
          /\ j - Len(b) \in 1 .. o - 1 /\ j - Len(b) \in 1 .. o
      BY <1>1, <2>2
    <3>2. l[j] = g[j - Len(b)]
      BY <1>2, <1>3, <1>5, <2>2, <3>1
    <3>3. r[j] = g[j - Len(b)]
      BY <1>2, <1>4, <3>1
    <3>4. QED
      BY <3>2, <3>3
  <2>3. CASE j = Len(b) + o
    <3>1. j \in Len(b) + 1 .. Len(b) + o /\ j - Len(b) = o /\ o \in 1 .. o
      BY <1>1, <2>3
    <3>2. l[j] = g[o]
      BY <1>5, <2>3
    <3>3. r[j] = v[o]
      BY <1>4, <3>1
    <3>4. v[o] = g[o]
      BY <1>2, <3>1
    <3>5. QED
      BY <3>2, <3>3, <3>4
  <2>4. \/ j \in 1 .. Len(b)
        \/ j \in Len(b) + 1 .. Len(b) + (o - 1)
        \/ j = Len(b) + o
    <3>1. PICK x \in Nat : x = Len(b)
      BY <1>1
    <3>2. j \in 1 .. x + o
      BY <3>1
    <3>3. j \in 1 .. x \/ j \in x + 1 .. x + (o - 1) \/ j = x + o
      BY <1>1, <3>1, <3>2
    <3>4. QED
      BY <3>1, <3>3
  <2>5. QED
    BY <2>1, <2>2, <2>3, <2>4, Zenon
<1>7. l = r
  BY <1>4, <1>5, <1>6, SeqEqual
<1>8. QED
  BY <1>7 DEF l, r, w, u, v

(* A byte of any other character *)
LEMMA ByteRead ==
    ASSUME NEW chars \in Seq(Characters), NEW f \in Sights(chars),
           NEW n \in 0 .. Len(chars), NEW m \in 1 .. Len(chars), m = n + 1,
           chars[m] # <<Space>>, ~ Skips(chars, m, f[n]),
           NEW o \in 1 .. Len(chars[m]), NEW t,
           t = Bytes(f[n]) \o SubSeq(chars[m], 1, o - 1),
           NEW q, q = [text |-> Append(t, chars[m][o]), space |-> FALSE]
    PROVE  \/ o = Len(chars[m]) /\ Between(chars, f, q, m)
           \/ o < Len(chars[m]) /\ Amid(chars, f, q, n, o)
<1> DEFINE g == chars[m]
           b == Bytes(f[n])
<1>1. g \in Seq(Int) /\ Len(g) \in 1 .. 4 /\ b \in Seq(Int)
  <2>1. g \in Glyphs
    BY CharactersAre
  <2>2. QED
    BY <2>1, GlyphIs, SightsGrow
<1>2. m - 1 = n /\ n < Len(chars)
  <2>1. Len(chars) \in Nat
    BY LenProperties
  <2>2. QED
    BY <2>1, Follows, Zenon
<1>3. Bytes(f[m]) = b \o g
  BY <1>2, SightsGrow
<1>4. o \in 1 .. Len(g) /\ t = b \o SubSeq(g, 1, o - 1)
  OBVIOUS
<1>5. q.text = Append(t, g[o]) /\ q.space = FALSE
  OBVIOUS
<1> HIDE DEF g, b
<1>6. Append(t, g[o]) = b \o SubSeq(g, 1, o)
  <2>1. Append(b \o SubSeq(g, 1, o - 1), g[o]) = b \o SubSeq(g, 1, o)
    BY <1>1, <1>4, OneByteMore
  <2>2. QED
    BY <1>4, <2>1
<1>7. CASE o = Len(g)
  <2>1. SubSeq(g, 1, o) = g
    BY <1>1, <1>7
  <2>2. q.text = Bytes(f[m])
    BY <1>3, <1>5, <1>6, <2>1
  <2>3. m > 0 /\ chars[m] # <<Space>>
    OBVIOUS
  <2>4. Between(chars, f, q, m)
    BY <1>5, <2>2, <2>3, Zenon DEF Between
  <2>5. QED
    BY <1>7, <2>4 DEF g
<1>8. CASE o < Len(g)
  <2>1. q.text = Bytes(f[n]) \o SubSeq(chars[n + 1], 1, o)
    BY <1>5, <1>6 DEF b, g
  <2>2. o < Len(chars[n + 1]) /\ ~ Skips(chars, n + 1, f[n])
    BY <1>8 DEF g
  <2>3. Amid(chars, f, q, n, o)
    BY <1>2, <1>5, <2>1, <2>2, Zenon DEF Amid
  <2>4. QED
    BY <1>8, <2>3 DEF g
<1>9. o = Len(g) \/ o < Len(g)
  BY <1>1, <1>4
<1>10. QED
  BY <1>7, <1>8, <1>9, Zenon

(* The head of a head is a head. *)
LEMMA LeadsOn ==
    ASSUME NEW r \in Seq(Int), NEW s \in Seq(Int), NEW t \in Seq(Int), Leads(r, s), Leads(s, t)
    PROVE  Leads(r, t)
  BY DEF Leads

(* In step, the loop has read nothing but how the whole begins. *)
LEMMA InStepLeads ==
    ASSUME NEW chars \in Seq(Characters), NEW f \in Sights(chars), NEW p \in Folding,
           NEW i, InStep(chars, f, p, i)
    PROVE  Leads(p.text, Bytes(f[Len(chars)]))
<1> DEFINE C == Len(chars)
           target == Bytes(f[C])
           t == p.text
<1>1. C \in Nat /\ t \in Seq(Int) /\ target \in Seq(Int)
  <2>1. C \in Nat
    OBVIOUS
  <2>2. C \in 0 .. C
    BY <2>1
  <2>3. target \in Seq(Int)
    BY <2>2, SightsGrow
  <2>4. t \in Seq(Int)
    BY DEF Folding
  <2>5. QED
    BY <2>1, <2>3, <2>4
<1>2. PICK n \in 0 .. C : \/ Between(chars, f, p, n)
                          \/ \E o \in 1 .. 3 : Amid(chars, f, p, n, o)
  BY Zenon DEF InStep
<1>3. PICK b \in Seq(Int) : b = Bytes(f[n]) /\ Leads(b, target)
  BY SightsGrow
<1>4. \A r, s \in Seq(Int) : Leads(r, s) /\ Leads(s, target) => Leads(r, target)
  BY <1>1, LeadsOn
<1>5. CASE Between(chars, f, p, n)
  <2>1. t = b \/ Append(t, Space) = b
    BY <1>3, <1>5, Zenon DEF Between
  <2>2. CASE t = b
    BY <1>3, <2>2
  <2>3. CASE Append(t, Space) = b
    <3>1. Space \in Int
      BY DEF Space
    <3> HIDE DEF t
    <3>2. /\ Len(b) = Len(t) + 1 /\ Len(t) \in Nat
          /\ \A j \in 1 .. Len(t) : b[j] = t[j]
      <4>1. \A r \in Seq(Int) : /\ Len(Append(r, Space)) = Len(r) + 1 /\ Len(r) \in Nat
                               /\ \A j \in 1 .. Len(r) : Append(r, Space)[j] = r[j]
        BY <3>1, AppendProperties
      <4>2. QED
        BY <1>1, <2>3, <4>1
    <3>3. Leads(t, b)
      BY <3>2 DEF Leads
    <3>4. Leads(t, target)
      BY <1>1, <1>3, <1>4, <3>3
    <3>5. QED
      BY <3>4 DEF t
  <2>4. QED
    BY <2>1, <2>2, <2>3
<1>6. ASSUME NEW o \in 1 .. 3, Amid(chars, f, p, n, o)
      PROVE  Leads(t, target)
  <2>1. n < C /\ ~ Skips(chars, n + 1, f[n]) /\ t = b \o SubSeq(chars[n + 1], 1, o) /\ o < Len(chars[n + 1])
    BY <1>3, <1>6, Zenon DEF Amid
  <2>2. PICK m \in 1 .. C : m = n + 1 /\ m - 1 = n /\ m \in 0 .. C
    BY <1>1, <2>1
  <2>3. Bytes(f[m]) = b \o chars[m] /\ Leads(Bytes(f[m]), target) /\ Bytes(f[m]) \in Seq(Int)
    BY <1>3, <2>1, <2>2, SightsGrow
  <2>4. PICK g \in Seq(Int) : g = chars[m]
    BY <2>2, CharactersAre
  <2>5. PICK u \in Seq(Int) : u = SubSeq(g, 1, o) /\ Len(u) = o /\ o < Len(g) /\ \A j \in 1 .. o : u[j] = g[j]
    <3>1. o < Len(g)
      BY <2>1, <2>2, <2>4
    <3>2. o \in 0 .. Len(g)
      BY <3>1
    <3>3. SubSeq(g, 1, o) \in Seq(Int) /\ Len(SubSeq(g, 1, o)) = o
          /\ \A j \in 1 .. o : SubSeq(g, 1, o)[j] = g[j]
      BY <3>2, SubSeqProperties
    <3>4. QED
      BY <3>1, <3>3
  <2>6. t = b \o u
    BY <2>1, <2>2, <2>4, <2>5
  <2>7. Leads(b \o u, b \o g)
    <3>1. /\ Len(b \o u) = Len(b) + o /\ Len(b \o g) = Len(b) + Len(g)
          /\ Len(b) \in Nat /\ Len(g) \in Nat /\ Len(u) = o /\ o < Len(g)
      BY <2>5, ConcatProperties
    <3>2. ASSUME NEW j \in 1 .. Len(b) + o PROVE (b \o u)[j] = (b \o g)[j]
      <4>1. CASE j <= Len(b)
        <5>1. j \in 1 .. Len(b) + Len(u) /\ j \in 1 .. Len(b) + Len(g)
          BY <3>1
        <5>2. QED
          BY <4>1, <5>1, ConcatProperties
      <4>2. CASE ~ (j <= Len(b))
        <5>1. /\ j \in 1 .. Len(b) + Len(u) /\ j \in 1 .. Len(b) + Len(g)
              /\ j - Len(b) \in 1 .. o
          BY <3>1, <4>2
        <5>2. (b \o u)[j] = u[j - Len(b)] /\ (b \o g)[j] = g[j - Len(b)]
          BY <4>2, <5>1, ConcatProperties
        <5>3. QED
          BY <2>5, <5>1, <5>2
      <4>3. QED
        BY <4>1, <4>2
    <3>3. /\ Len(b \o u) <= Len(b \o g)
          /\ \A j \in 1 .. Len(b \o u) : (b \o u)[j] = (b \o g)[j]
      <4>1. Len(b \o u) <= Len(b \o g)
        BY <3>1
      <4>2. \A j : j \in 1 .. Len(b \o u) => j \in 1 .. Len(b) + o
        BY <3>1, Zenon
      <4>3. QED
        BY <3>2, <4>1, <4>2, Zenon
    <3>4. QED
      BY <3>3, Zenon DEF Leads
  <2>8. Leads(t, Bytes(f[m]))
    BY <2>3, <2>4, <2>6, <2>7
  <2> HIDE DEF t, target
  <2>9. QED
    BY <1>1, <1>4, <2>3, <2>8
<1>7. QED
  BY <1>2, <1>5, <1>6

(* Within the budget the loop stays in step. *)
LEMMA InStepOn ==
    ASSUME NEW chars \in Seq(Characters), NEW f \in Sights(chars), NEW p \in Folding,
           NEW i \in Nat, i < Len(Bytes(chars)), InStep(chars, f, p, i),
           NEW b, b = Bytes(chars)[i + 1], Len(p.text) < MaxSanitisedBytes
    PROVE  InStep(chars, f, FoldIn(p, b), i + 1)
<1> DEFINE C == Len(chars)
           q == [text |-> Append(Padded(p), b), space |-> FALSE]
<1>1. chars \in Seq(Glyphs) /\ C \in Nat
  BY CharactersAre
<1>2. PICK n \in 0 .. C : \/ i = End(chars, n) /\ Between(chars, f, p, n)
                          \/ \E o \in 1 .. 3 : i = End(chars, n) + o /\ Amid(chars, f, p, n, o)
  BY Zenon DEF InStep
<1>3. n < C
  <2>1. ASSUME n = C PROVE FALSE
    <3>1. i = End(chars, n)
      <4>1. ~ (n < Len(chars))
        BY <1>1, <2>1
      <4>2. QED
        BY <1>2, <4>1, Zenon DEF Amid
    <3>2. End(chars, n) = Len(Bytes(chars))
      BY <1>1, <2>1, Ends
    <3>3. QED
      BY <3>1, <3>2
  <2>2. QED
    BY <1>1, <2>1
<1>4. PICK m \in 1 .. C : m = n + 1 /\ m - 1 = n /\ m \in 0 .. C
  BY <1>1, <1>3
<1>5. PICK g \in Glyphs : g = chars[m]
  BY <1>1
<1>6. PICK w \in 1 .. 4 : w = Len(g)
  BY GlyphIs
<1>7. /\ g \in Seq(Int) /\ (g[1] = Space <=> g = <<Space>>) /\ \A j \in 2 .. w : g[j] = Cont
      /\ w # 1 => g # <<Space>>
  BY <1>6, GlyphIs
<1>8. PICK e \in Nat : e = End(chars, n)
  BY <1>1, Ends
<1>9. End(chars, m) = e + w
  <2>1. End(chars, m) = End(chars, m - 1) + Len(chars[m])
    BY <1>1, Ends
  <2>2. QED
    BY <1>4, <1>5, <1>6, <1>8, <2>1
<1>10. \A j \in 1 .. w : Bytes(chars)[e + j] = g[j]
  <2>1. \A j \in 1 .. Len(chars[m]) : Bytes(chars)[End(chars, m - 1) + j] = chars[m][j]
    BY <1>1, BytePlaced
  <2>2. QED
    BY <1>4, <1>5, <1>6, <1>8, <2>1
<1>11. ASSUME NEW o \in 1 .. w, i + 1 = e + o, g # <<Space>>, g[o] # Space,
              ~ Skips(chars, m, f[n]),
              Padded(p) = Bytes(f[n]) \o SubSeq(g, 1, o - 1)
       PROVE  InStep(chars, f, FoldIn(p, b), i + 1)
  <2>1. b = g[o]
    BY <1>10, <1>11
  <2>2. b # Space /\ b \in Int
    BY <1>6, <1>7, <1>11, <2>1
  <2>3. FoldIn(p, b) = q
    BY <2>2, FoldInIs
  <2>4. q = [text |-> Append(Padded(p), chars[m][o]), space |-> FALSE]
    BY <1>5, <2>1
  <2>5. /\ chars[m] # <<Space>> /\ o \in 1 .. Len(chars[m])
        /\ Padded(p) = Bytes(f[n]) \o SubSeq(chars[m], 1, o - 1)
    BY <1>5, <1>6, <1>11
  <2>6. \/ o = Len(chars[m]) /\ Between(chars, f, q, m)
        \/ o < Len(chars[m]) /\ Amid(chars, f, q, n, o)
    <3> HIDE DEF q
    <3>1. QED
      BY <1>4, <1>11, <2>4, <2>5, ByteRead
  <2> HIDE DEF q
  <2>7. CASE o = Len(chars[m]) /\ Between(chars, f, q, m)
    <3>1. i + 1 = End(chars, m)
      BY <1>5, <1>6, <1>9, <1>11, <2>7
    <3>2. InStep(chars, f, q, i + 1)
      BY <1>4, <2>7, <3>1, Zenon DEF InStep
    <3>3. QED
      BY <2>3, <3>2
  <2>8. CASE o < Len(chars[m]) /\ Amid(chars, f, q, n, o)
    <3>1. o \in 1 .. 3 /\ i + 1 = End(chars, n) + o
      <4>1. o < w
        BY <1>5, <1>6, <2>8
      <4>2. o \in 1 .. 3
        BY <4>1
      <4>3. i + 1 = End(chars, n) + o
        BY <1>8, <1>11
      <4>4. QED
        BY <4>2, <4>3
    <3>2. InStep(chars, f, q, i + 1)
      BY <2>8, <3>1, Zenon DEF InStep
    <3>3. QED
      BY <2>3, <3>2
  <2>9. QED
    BY <2>6, <2>7, <2>8
<1>12. CASE i = End(chars, n) /\ Between(chars, f, p, n)
  <2>1. i + 1 = e + 1 /\ 1 \in 1 .. w /\ b = g[1] /\ b \in Int
    <3>1. i + 1 = e + 1 /\ 1 \in 1 .. w
      BY <1>8, <1>12
    <3>2. b = g[1]
      BY <1>10, <3>1
    <3>3. QED
      BY <1>6, <1>7, <3>1, <3>2
  <2>2. CASE g = <<Space>>
    <3>1. w = 1 /\ b = Space
      BY <1>6, <1>7, <2>1, <2>2
    <3>2. FoldIn(p, b) = [text |-> p.text, space |-> p.text # << >>]
      BY <2>1, <3>1, FoldInIs
    <3>3. Between(chars, f, [text |-> p.text, space |-> p.text # << >>], m)
      BY <1>4, <1>5, <1>12, <2>2, SpaceRead
    <3>4. i + 1 = End(chars, m)
      BY <1>9, <2>1, <3>1
    <3>5. Between(chars, f, FoldIn(p, b), m)
      BY <3>2, <3>3
    <3>6. QED
      BY <1>4, <3>4, <3>5, Zenon DEF InStep
  <2>3. CASE g # <<Space>>
    <3>1. Padded(p) = Bytes(f[n]) /\ ~ Skips(chars, m, f[n])
      BY <1>4, <1>5, <1>12, <2>3, PaidUp
    <3>2. g[1] # Space
      BY <1>7, <2>3
    <3>3. Bytes(f[n]) = Bytes(f[n]) \o SubSeq(g, 1, 1 - 1)
      <4>1. PICK t \in Seq(Int) : t = Bytes(f[n])
        BY SightsGrow
      <4>2. SubSeq(g, 1, 1 - 1) = << >>
        BY <1>7
      <4>3. t \o << >> = t
        BY <4>1, ConcatEmptySeq
      <4>4. QED
        BY <4>1, <4>2, <4>3
    <3>4. Padded(p) = Bytes(f[n]) \o SubSeq(g, 1, 1 - 1)
      BY <3>1, <3>3
    <3>5. QED
      BY <1>11, <2>1, <2>3, <3>1, <3>2, <3>4
  <2>4. QED
    BY <2>2, <2>3
<1>13. ASSUME NEW k \in 1 .. 3, i = End(chars, n) + k, Amid(chars, f, p, n, k)
       PROVE  InStep(chars, f, FoldIn(p, b), i + 1)
  <2>1. /\ k < w /\ ~ Skips(chars, m, f[n]) /\ p.space = FALSE
        /\ p.text = Bytes(f[n]) \o SubSeq(g, 1, k)
    BY <1>4, <1>5, <1>6, <1>13, Zenon DEF Amid
  <2>2. PICK o \in 1 .. w : o = k + 1 /\ o - 1 = k /\ o \in 2 .. w /\ i + 1 = e + o
    <3>1. k < w
      BY <2>1
    <3>2. k + 1 \in 1 .. w /\ k + 1 \in 2 .. w /\ (k + 1) - 1 = k
      BY <3>1
    <3>3. i + 1 = e + (k + 1)
      BY <1>8, <1>13
    <3>4. QED
      BY <3>2, <3>3
  <2>3. Padded(p) = Bytes(f[n]) \o SubSeq(g, 1, o - 1)
    <3>1. Padded(p) = p.text
      BY <2>1, Zenon DEF Padded
    <3>2. QED
      BY <2>1, <2>2, <3>1
  <2>4. g # <<Space>>
    BY <1>7, <2>1
  <2>5. g[o] # Space
    BY <1>7, <2>2 DEF Cont, Space
  <2>6. QED
    BY <1>11, <2>1, <2>2, <2>3, <2>4, <2>5
<1>14. QED
  BY <1>2, <1>12, <1>13

(* What the loop makes of the bytes that were published is how the words   *)
(* begin; it is the whole of them if nothing was cut and they are within   *)
(* the budget. *)
LEMMA FoldedLeads ==
    ASSUME NEW chars \in Seq(Characters), NEW raw \in Seq(Int), Leads(raw, Bytes(chars))
    PROVE  /\ Proper(chars) \in Seq(Characters) /\ Folded(raw) \in Seq(Int)
           /\ Leads(Folded(raw), Bytes(Proper(chars)))
           /\ Len(raw) = Len(Bytes(chars)) /\ Len(Bytes(Proper(chars))) <= MaxSanitisedBytes
                 => Folded(raw) = Bytes(Proper(chars))
<1> DEFINE C == Len(chars)
           R == Len(raw)
           target == Bytes(Proper(chars))
<1>1. chars \in Seq(Glyphs) /\ C \in Nat /\ R \in Nat /\ C \in 0 .. C
  BY CharactersAre
<1>2. PICK f \in Sights(chars) : Proper(chars) = f[C]
  <2>1. PICK f \in [0 .. C -> Seq(Characters)] :
           /\ f[0] = << >> /\ \A n \in 1 .. C : f[n] = SeenNext(chars, n, f[n - 1])
           /\ Proper(chars) = f[C]
    BY ProperRecurs
  <2>2. QED
    BY <2>1 DEF Sights
<1>3. Proper(chars) \in Seq(Characters) /\ target \in Seq(Int) /\ target = Bytes(f[C])
  <2>1. f[C] \in Seq(Characters)
    BY <1>1 DEF Sights
  <2>2. f[C] \in Seq(Glyphs)
    BY <2>1, CharactersAre
  <2>3. QED
    BY <1>2, <2>1, <2>2, SomeBytes
<1>4. PICK h \in [0 .. R -> Folding] :
         /\ h[0] = [text |-> << >>, space |-> FALSE]
         /\ \A n \in 1 .. R : h[n] = FoldIn(h[n - 1], raw[n])
         /\ Folded(raw) = h[R].text
  BY FoldedRecurs
<1>5. Bytes(chars) \in Seq(Int) /\ R <= Len(Bytes(chars)) /\ Len(Bytes(chars)) \in Nat
  <2>1. Bytes(chars) \in Seq(Int)
    BY <1>1, SomeBytes
  <2>2. QED
    BY <2>1 DEF Leads
<1> DEFINE Good(p, i) == /\ Leads(p.text, target)
                         /\ Len(p.text) < MaxSanitisedBytes => InStep(chars, f, p, i)
           S == {i \in Nat : i <= R => Good(h[i], i)}
<1>6. 0 \in S
  <2>1. h[0].text = << >> /\ h[0].space = FALSE /\ h[0] \in Folding
    <3>1. 0 \in 0 .. R
      BY <1>1
    <3>2. h[0] \in Folding
      BY <3>1
    <3>3. h[0].text = << >>
      BY <1>4
    <3>4. h[0].space = FALSE
      BY <1>4
    <3>5. QED
      BY <3>2, <3>3, <3>4
  <2>2. f[0] = << >> /\ 0 \in 0 .. C /\ f[0] \in Seq(Glyphs)
    <3>1. 0 \in 0 .. C
      BY <1>1
    <3>2. QED
      BY <3>1, SightsGrow DEF Sights
  <2>3. Bytes(f[0]) = << >>
    BY <2>2, SomeBytes
  <2>4. Between(chars, f, h[0], 0)
    BY <2>1, <2>3, Zenon DEF Between
  <2>5. End(chars, 0) = 0
    BY <1>1, Ends
  <2>6. InStep(chars, f, h[0], 0)
    BY <2>2, <2>4, <2>5, Zenon DEF InStep
  <2>7. Leads(h[0].text, target)
    BY <1>3, <2>1, <2>6, InStepLeads
  <2>8. QED
    BY <2>6, <2>7
<1>7. ASSUME NEW i \in Nat, i \in S PROVE i + 1 \in S
  <2>1. SUFFICES ASSUME i + 1 <= R PROVE Good(h[i + 1], i + 1)
    OBVIOUS
  <2>2. /\ i + 1 \in 1 .. R /\ (i + 1) - 1 = i /\ i \in 0 .. R /\ i < Len(Bytes(chars))
        /\ i + 1 \in 0 .. R
    BY <1>1, <1>5, <2>1
  <2>3. Good(h[i], i)
    BY <1>7, <2>2
  <2>4. PICK p \in Folding : p = h[i]
    BY <2>2
  <2>5. PICK b \in Int : b = raw[i + 1] /\ b = Bytes(chars)[i + 1]
    <3>1. raw[i + 1] \in Int
      BY <2>2
    <3>2. raw[i + 1] = Bytes(chars)[i + 1]
      BY <2>2 DEF Leads
    <3>3. QED
      BY <3>1, <3>2
  <2>6. h[i + 1] = FoldIn(p, b) /\ FoldIn(p, b) \in Folding
    BY <1>4, <2>2, <2>4, <2>5, FoldInIs
  <2>7. CASE Len(p.text) >= MaxSanitisedBytes
    <3>1. h[i + 1] = p
      BY <2>6, <2>7, FoldInIs
    <3>2. ~ (Len(p.text) < MaxSanitisedBytes)
      BY <2>7, TextAssumption DEF Folding
    <3>3. QED
      BY <2>3, <2>4, <3>1, <3>2
  <2>8. CASE Len(p.text) < MaxSanitisedBytes
    <3>1. InStep(chars, f, p, i)
      BY <2>3, <2>4, <2>8
    <3>2. InStep(chars, f, FoldIn(p, b), i + 1)
      BY <2>2, <2>5, <2>8, <3>1, InStepOn
    <3>3. Leads(FoldIn(p, b).text, target)
      BY <1>3, <2>6, <3>2, InStepLeads
    <3>4. QED
      BY <2>6, <3>2, <3>3
  <2>9. Len(p.text) < MaxSanitisedBytes \/ Len(p.text) >= MaxSanitisedBytes
    BY TextAssumption DEF Folding
  <2>10. QED
    BY <2>7, <2>8, <2>9
<1> HIDE DEF S
<1>8. Good(h[R], R) /\ h[R] \in Folding
  <2>1. \A i \in Nat : i \in S
    BY <1>6, <1>7, Induct
  <2>2. R \in S /\ R <= R /\ R \in 0 .. R
    BY <1>1, <2>1
  <2>3. QED
    BY <2>2 DEF S
<1>9. PICK t \in Seq(Int) : t = h[R].text
  BY <1>8 DEF Folding
<1>10. ASSUME R = Len(Bytes(chars)), Len(target) <= MaxSanitisedBytes PROVE t = target
  <2>1. CASE Len(t) >= MaxSanitisedBytes
    <3> HIDE DEF target
    <3>1. Leads(t, target)
      BY <1>8, <1>9
    <3>2. Len(t) = Len(target) /\ \A j \in 1 .. Len(t) : t[j] = target[j]
      BY <1>3, <1>10, <2>1, <3>1, TextAssumption DEF Leads
    <3>3. QED
      BY <1>3, <3>2, SeqEqual
  <2>2. CASE Len(t) < MaxSanitisedBytes
    <3>1. InStep(chars, f, h[R], R)
      BY <1>8, <1>9, <2>2
    <3>2. PICK n \in 0 .. C : \/ R = End(chars, n) /\ Between(chars, f, h[R], n)
                              \/ \E o \in 1 .. 3 : R = End(chars, n) + o /\ Amid(chars, f, h[R], n, o)
      BY <3>1, Zenon DEF InStep
    <3>3. R = End(chars, C)
      BY <1>1, <1>10, Ends
    <3>4. n = C
      <4>1. ASSUME n < C PROVE FALSE
        <5>1. PICK m \in 1 .. C : m = n + 1 /\ m - 1 = n /\ m \in 0 .. C
          BY <1>1, <4>1
        <5>2. PICK e \in Nat : e = End(chars, n)
          BY <1>1, Ends
        <5>3. PICK w \in 1 .. 4 : w = Len(chars[m])
          BY <1>1, Ends
        <5>4. End(chars, m) = e + w
          <6>1. End(chars, m) = End(chars, m - 1) + Len(chars[m])
            BY <1>1, Ends
          <6>2. QED
            BY <5>1, <5>2, <5>3, <6>1
        <5>5. (e + w) + (C - m) <= R
          <6>1. m \in 0 .. C
            BY <5>1
          <6>2. End(chars, m) + (C - m) <= End(chars, C)
            BY <1>1, <6>1, EndsGrow
          <6>3. QED
            BY <3>3, <5>4, <6>2
        <5>6. R < e + w
          <6>1. CASE R = End(chars, n)
            <7>1. R = e
              BY <5>2, <6>1, Zenon
            <7>2. e < e + w
              OBVIOUS
            <7>3. QED
              BY <7>1, <7>2, Zenon
          <6>2. ASSUME NEW o \in 1 .. 3, R = End(chars, n) + o, Amid(chars, f, h[R], n, o)
                PROVE  R < e + w
            <7>1. o < Len(chars[n + 1])
              BY <6>2, Zenon DEF Amid
            <7>2. o < w
              BY <5>1, <5>3, <7>1
            <7>3. R = e + o
              BY <5>2, <6>2
            <7>4. e + o < e + w
              BY <7>2
            <7>5. QED
              BY <7>3, <7>4, Zenon
          <6>3. QED
            BY <3>2, <6>1, <6>2
        <5>7. QED
          BY <1>1, <5>5, <5>6
      <4>2. QED
        BY <1>1, <4>1
    <3>5. Between(chars, f, h[R], C)
      <4>1. ~ (C < C)
        BY <1>1
      <4>2. QED
        BY <3>2, <3>4, <4>1, Zenon DEF Amid
    <3>6. t = Bytes(f[C]) \/ (C > 0 /\ chars[C] = <<Space>> /\ ~ OnlySpaces(chars, C))
      BY <1>9, <3>5, Zenon DEF Between
    <3>7. chars[C] = <<Space>> => OnlySpaces(chars, C)
      <4>1. \A k \in C .. C : k = C
        BY <1>1
      <4>2. QED
        BY <4>1, Zenon DEF OnlySpaces
    <3>8. QED
      BY <1>3, <3>6, <3>7
  <2>3. Len(t) < MaxSanitisedBytes \/ Len(t) >= MaxSanitisedBytes
    BY TextAssumption
  <2>4. QED
    BY <2>1, <2>2, <2>3
<1>11. QED
  BY <1>3, <1>4, <1>8, <1>9, <1>10

(* The row is the head of the command, in characters, or all that should   *)
(* be seen of it.                                                          *)
HeadOf(chars, w, row, all, dots) ==
    /\ CodepointCount(row) <= w
    /\ ~ Garbled(row)
    /\ \/ row = Bytes(all)
       \/ \E n \in 0 .. Len(all) - 1 :
             row \in {Bytes(SubSeq(all, 1, n)), Bytes(SubSeq(all, 1, n)) \o dots}
    /\ /\ Len(all) <= w
       /\ Len(Bytes(chars)) <= MaxPublishBytes
       /\ Len(Bytes(all)) <= MaxSanitisedBytes
       => row = Bytes(all)

(* What is shown of a command, of any length, whatever the budgets and the *)
(* width *)
LEMMA HeadIsShown ==
    ASSUME NEW chars \in Seq(Characters), NEW w \in Nat,
           NEW row, row = Truncated(Sanitised(Published(Bytes(chars))), w),
           NEW all, all = Proper(chars),
           NEW dots, dots = IF w > 3 THEN <<Dot, Dot, Dot>> ELSE << >>
    PROVE  HeadOf(chars, w, row, all, dots)
<1> DEFINE raw == Published(Bytes(chars))
           s == Folded(raw)
<1>1. PICK t \in Seq(Int) : t = Bytes(chars)
  <2>1. chars \in Seq(Glyphs)
    BY CharactersAre
  <2>2. QED
    BY <2>1, SomeBytes
<1>2. /\ raw \in Seq(Int) /\ Leads(raw, t)
      /\ Len(t) <= MaxPublishBytes => Len(raw) = Len(t)
  <2>1. PICK k \in 0 .. Len(t) : /\ k = IF MaxPublishBytes < Len(t) THEN MaxPublishBytes ELSE Len(t)
                                 /\ Len(t) <= MaxPublishBytes => k = Len(t)
    BY TextAssumption
  <2>2. raw = SubSeq(t, 1, k)
    BY <1>1, <2>1, Zenon DEF Published, Upto
  <2> HIDE DEF raw
  <2>3. raw \in Seq(Int) /\ Len(raw) = k /\ \A j \in 1 .. k : raw[j] = t[j]
    BY <2>2, SubSeqProperties
  <2>4. QED
    BY <2>1, <2>3 DEF Leads
<1> HIDE DEF raw
<1>3. /\ all \in Seq(Characters) /\ s \in Seq(Int) /\ Leads(s, Bytes(all))
      /\ Len(raw) = Len(t) /\ Len(Bytes(all)) <= MaxSanitisedBytes => s = Bytes(all)
  BY <1>1, <1>2, FoldedLeads
<1>4. all \in Seq(Glyphs) /\ Len(all) \in Nat /\ Bytes(all) \in Seq(Int)
  BY <1>3, CharactersAre, SomeBytes
<1> HIDE DEF s
<1>5. PICK k \in 0 .. Len(all) : /\ End(all, k) <= Len(s)
                                 /\ k < Len(all) => Len(s) < End(all, k + 1)
                                 /\ k = Len(all) => Len(s) = End(all, k)
  <2>1. Len(s) \in 0 .. Len(Bytes(all))
    BY <1>3, <1>4 DEF Leads
  <2>2. QED
    BY <1>4, <2>1, Within
<1>6. PICK cs \in Seq(Glyphs) : /\ cs = SubSeq(all, 1, k) /\ Len(cs) = k
                                /\ Whole(s) = Bytes(cs)
  <2>1. SubSeq(all, 1, k) \in Seq(Glyphs) /\ Len(SubSeq(all, 1, k)) = k
    BY <1>4, SubSeqProperties
  <2>2. Whole(s) = Bytes(SubSeq(all, 1, k))
    BY <1>3, <1>4, <1>5, WholeOf
  <2>3. QED
    BY <2>1, <2>2
<1>7. row = Truncated(Bytes(cs), w)
  BY <1>6 DEF Sanitised, s, raw
<1>8. /\ Len(cs) <= w => row = Bytes(cs)
      /\ Len(cs) > w => /\ w - Len(dots) \in 0 .. Len(cs) - 1
                        /\ row = Bytes(SubSeq(cs, 1, w - Len(dots))) \o dots
      /\ CodepointCount(row) <= w /\ ~ Garbled(row)
  BY <1>7, TruncatedIs, Zenon
<1>9. k = Len(all) => cs = all
  BY <1>4, <1>6
<1>10. \/ row = Bytes(all)
       \/ \E n \in 0 .. Len(all) - 1 :
             row \in {Bytes(SubSeq(all, 1, n)), Bytes(SubSeq(all, 1, n)) \o dots}
  <2>1. CASE Len(cs) <= w /\ k = Len(all)
    BY <1>8, <1>9, <2>1
  <2>2. CASE Len(cs) <= w /\ k # Len(all)
    <3>1. k \in 0 .. Len(all) - 1
      BY <1>4, <2>2
    <3>2. row = Bytes(SubSeq(all, 1, k))
      BY <1>6, <1>8, <2>2
    <3>3. QED
      BY <3>1, <3>2
  <2>3. CASE Len(cs) > w
    <3>1. PICK m \in 0 .. Len(cs) - 1 : m = w - Len(dots) /\ row = Bytes(SubSeq(cs, 1, m)) \o dots
      BY <1>8, <2>3
    <3>2. m \in 0 .. Len(all) - 1 /\ m \in 0 .. k
      BY <1>4, <1>6, <3>1
    <3>3. SubSeq(cs, 1, m) = SubSeq(all, 1, m)
      <4> DEFINE x == SubSeq(cs, 1, m)
                 y == SubSeq(all, 1, m)
      <4>1. \A j \in 1 .. m : j \in 1 .. k
        BY <3>2
      <4>2. \A j \in 1 .. k : cs[j] = all[j]
        BY <1>4, <1>6, SubSeqProperties
      <4>3. /\ x \in Seq(Glyphs) /\ Len(x) = m /\ \A j \in 1 .. m : x[j] = cs[j]
            /\ y \in Seq(Glyphs) /\ Len(y) = m /\ \A j \in 1 .. m : y[j] = all[j]
        BY <1>4, <1>6, <3>2, SubSeqProperties
      <4> HIDE DEF x, y
      <4>4. \A j \in 1 .. Len(x) : x[j] = y[j]
        BY <4>1, <4>2, <4>3
      <4>5. x = y
        BY <4>3, <4>4, SeqEqual
      <4>6. QED
        BY <4>5 DEF x, y
    <3>4. row = Bytes(SubSeq(all, 1, m)) \o dots
      BY <3>1, <3>3
    <3>5. QED
      BY <3>2, <3>4
  <2>4. Len(cs) <= w \/ Len(cs) > w
    OBVIOUS
  <2>5. QED
    BY <2>1, <2>2, <2>3, <2>4
<1>11. ASSUME Len(all) <= w, Len(Bytes(chars)) <= MaxPublishBytes,
              Len(Bytes(all)) <= MaxSanitisedBytes
       PROVE  row = Bytes(all)
  <2>1. s = Bytes(all)
    BY <1>1, <1>2, <1>3, <1>11
  <2>2. k = Len(all)
    <3>1. ASSUME k < Len(all) PROVE FALSE
      <4>1. k + 1 \in 0 .. Len(all)
        BY <1>4, <3>1
      <4>2. End(all, k + 1) \in 0 .. Len(Bytes(all))
        BY <1>4, <4>1, HeadBytes
      <4>3. QED
        BY <1>4, <1>5, <2>1, <3>1, <4>2
    <3>2. QED
      BY <1>4, <3>1
  <2>3. QED
    BY <1>6, <1>8, <1>9, <1>11, <2>2
<1>12. QED
  BY <1>8, <1>10, <1>11, Zenon DEF HeadOf

(* Whatever is typed, and whatever width the configuration sets, the row   *)
(* of the ticker is the head of the command, character by character, with  *)
(* one space between words, no wider than max_chars and free of halves of  *)
(* characters; and all of it, if it is within the budgets and the width    *)
(* (CmdLogModel.cpp:35-83, CmdLogService.cpp:54-56). *)
THEOREM HeadsAreShown == InputsSpec => []ShownIsHead
<1> DEFINE Typed == command \in Seq(Characters) /\ width \in Nat
<1>1. InputsInit => Typed
  BY DEF InputsInit
<1>2. Parsed /\ Typed /\ [InputsNext]_vars => Typed'
  <2> SUFFICES ASSUME Parsed, Typed, [InputsNext]_vars PROVE Typed'
    OBVIOUS
  <2>1. CASE UNCHANGED tvars
    BY <2>1 DEF tvars
  <2>2. CASE Reads
    BY <2>1, <2>2 DEF Reads
  <2>3. CASE StartKeys
    BY <2>1, <2>3 DEF StartKeys
  <2>4. CASE StartTicker
    <3>1. program = "cmd" /\ phase = "accepted"
      BY <2>4 DEF StartTicker, Runs
    <3>2. CmdInRange
      BY <3>1 DEF Parsed, InRange
    <3>3. Setting("max_chars", 60) \in 16 .. 200
      <4>1. WidthInRange
        BY <3>2 DEF CmdInRange
      <4>2. QED
        BY <4>1 DEF WidthInRange
    <3>4. Width[Setting("max_chars", 60)] \in Nat
      BY <3>3, WidthAssumption
    <3>5. QED
      BY <2>4, <3>4 DEF StartTicker
  <2>5. CASE Keys
    BY <2>1, <2>5 DEF Keys
  <2>6. CASE Commands
    <3>1. PICK c \in Characters : Type(c)
      BY <2>6 DEF Commands
    <3>2. command' = Append(command, c) /\ width' = width
      BY <3>1 DEF Type
    <3>3. QED
      BY <3>1, <3>2, AppendProperties
  <2>7. CASE UNCHANGED vars
    BY <2>1, <2>7 DEF vars
  <2>8. QED
    BY <2>2, <2>3, <2>4, <2>5, <2>6, <2>7 DEF InputsNext
<1>3. Typed => ShownIsHead
  <2> SUFFICES ASSUME Typed PROVE ShownIsHead
    OBVIOUS
  <2> DEFINE row == ShownAs(command)
             all == Proper(command)
             dots == IF width > 3 THEN <<Dot, Dot, Dot>> ELSE << >>
  <2>1. row = Truncated(Sanitised(Published(Bytes(command))), width)
    BY DEF ShownAs
  <2> HIDE DEF row
  <2>2. HeadOf(command, width, row, all, dots)
    <3>1. command \in Seq(Characters) /\ width \in Nat
      OBVIOUS
    <3>2. all = Proper(command) /\ dots = IF width > 3 THEN <<Dot, Dot, Dot>> ELSE << >>
      OBVIOUS
    <3> HIDE DEF Typed, all, dots
    <3>3. QED
      BY <2>1, <3>1, <3>2, HeadIsShown, Zenon
  <2>3. QED
    BY <2>2, Zenon DEF HeadOf, ShownIsHead, row, all, dots
<1> HIDE DEF Typed
<1>4. QED
  BY <1>1, <1>2, <1>3, AlwaysParsed, PTL DEF InputsSpec
===========================================================================
