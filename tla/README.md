# Verification of hypxrhud

hypxrhud draws small panels of text and gauges into a running OpenXR session. A
daemon owns the panels; clients create, update and dismiss them over D-Bus. This
directory holds TLA+ models of the daemon and its first-party clients, the TLC
configurations that check them on small instances, and proofs, checked by TLAPS,
of all the safety properties that the passing runs check.

Paths of sources below are relative to `src/src/` unless they name a directory of
`src/`.

## 1. The system

| component | state | operations | talks to |
|---|---|---|---|
| scene manager (`Scene`, `Slots`, `Panel`) | the panel table, the next id | upsert, dismiss, dropOwner, reapExpired, forceRedrawAll; each ends in reconcileQueues | called by the bus, the stdin feed and the loop; read by the session |
| panel properties (`Props`) | none | a{sv} to a request with presence flags | D-Bus front end to scene |
| presentation tracker (`Presentation`) | last frame's serial, per panel last frame and start of its streak | recordFrame, dismiss, snapshot, reset | fed by the loop after a frame, read by GetPanelPresentation |
| D-Bus front end (`Dbus`) | the bus connection, what the properties show | five methods, two signals, three properties; a client's or the daemon's loss of its name | clients |
| daemon loop (`Daemon`) | absent / connecting / live, probe backoff, stop latch | one pass: bus, stdin, reaper, theme, stop, events, frame or probe | everything in the daemon |
| XR session (`Session`, `Egl`) | handles, running, lost, one swapchain per panel with the epoch uploaded | bringUp, teardown, pollEvents, renderFrame, requestExit | the OpenXR runtime, another process |
| theme watch (`ThemeWatch`, `Theme`) | inotify descriptor, palette | drain, reload | loop, session |
| `hypxrhud-keys` (`keys/`) | disclosure id, first and last look, the capturing child and its pipe | establish the disclosure, hold it, capture while it is seen, close | daemon over D-Bus, child by fork, pipe and signals |
| key history (`keys/KeysModel`, `KeyEvent`) | keys held, an xkb state, rows with counts | one record of a key: track it, filter it, show it | fed by the capture pipe, read by the keys client |
| `hypxrhud-cmdlog` (`cmdlog/`) | rows with times, panel id, retry | publish, expire, sync, forget a lost panel | the hyprctl shim, daemon |
| `hypxrhud-battery` (`battery/`) | last readings sent, one latch per source, panel id | read, warn, sync | UPower, WiVRn, daemon |
| stdin feed (`Wire`) | none | one JSON line to a request | scene |
| configuration (`Config` and one per client) | while it reads: the section, what is assigned, whether an error was met | load, parse, check ranges, override by the command line | each main, once |
| the rest | theme parser, text raster, previews, EGL, logging, self-test, shim, units | | |

**What is hard in it.** The daemon itself is one thread, but four things run beside
it and none waits for it: the XR runtime, which may come, go, refuse or fall silent
at any call; clients, whose calls, time-outs and deaths interleave freely; the
daemon's own restarts under its clients (D-Bus activates it again, ids start at 1
again); and, in `hypxrhud-keys`, a child process that reads the keyboard. The
scene's hard part is sequential: four ways to remove a panel, moves between slots,
queues with priorities, and a table that each operation must leave in order.

**What makes each part correct.**

- *Scene:* one active panel per singleton slot, no slot idle while a panel waits
  for it, no loss of place to a lower urgency, every removal announced, a refused
  request without effect, a stack within its limit after a create; a panel is
  uploaded again exactly when it looks different; time takes only what has faded.
- *Presentation:* a streak never spans a frame that left the panel out, however
  seldom anybody looks.
- *Session and loop:* what is on screen is what the scene and the palette say; the
  bus tells the truth; a lost session leaves nothing behind and is found again; a
  stop ends, cleanly if it can.
- *Keys:* nothing is captured unless every frame since the first look showed the
  disclosure; no child is left behind.
- *Key history:* the rows are the last runs of presses; no modifier is on that no
  finger holds; in privacy mode nothing that was typed is shown, and whoever asked
  for privacy mode has it.
- *Configuration:* a program that starts has understood every line it read and runs
  with what the file says.
- *Cmdlog and battery:* what the client believes to be its panel is, and shows
  what the client means to show; it falls silent, retries, and warns only once. What
  the ticker shows is the head of the command, in whole characters.

The hazards, each at its line with the property that would catch it, are listed in
`PROJECT.json`.

## 2. Modules

```
SlotArbiter  <== Scene            Presentation       Session      Board
(abstract)       |                 |        |           |          |    |
              MCScene          Streaks  CaptureGate    Hud     CmdLog  Battery
              SceneProofs     MCStreaks MCCaptureGate MCHud  MCCmdLog MCBattery
                          StreaksProofs GateProofs HudProofs TickerProofs BatteryProofs

Keystrokes   Settings   CommandText
         |      |       |
         +--- Inputs ---+            Keystrokes <- KeysProofs <-+
              MCInputs                    Inputs <--------------+- InputsProofs
```

`A <== B`: B is shown to implement A. A line down, or an
arrow to the left: the lower, or the right, module EXTENDS the other.

- **`Scene`** is `CScene`. `panels` is `m_panels`, `nextId` is `m_nextId`, `now` the
  clock the calls are given, `reply` what the last call returned, its id and its
  list of `SDismissal`. A request is a record with the set of keys it supplies
  (`SUpsert` and its presence flags, as `Props.cpp` fills them). `Upsert` is split
  by the branches of the code (`Update`, `Create`), in stages: arbitration leaves a
  table (`Arbitrated`), a refusal returns with the table as it stands by then
  (`Refuse`), the rest goes on from it. Every removal is followed by `Reconcile`, as in the code, within the same action.
  Opacities are in steps of 1/255, as the raster sees them.
- **`SlotArbiter`** is what the scene promises of singleton slots, and no more:
  locks with priorities. Scene's `Arbiter == INSTANCE ... WITH` is the refinement
  mapping: the holder of a slot is its active panel, the waiting are the queued.
- **`Presentation`** holds `CPresentationTracker` as operators on a record;
  **`Streaks`** runs it against the whole history of frames, which no code keeps.
- **`CaptureGate`** is `hypxrhud-keys`: main's loops (`stage`, `pc`), the client's
  queue of signals, the child from fork to death, the pipe, and of the daemon the
  tracker and who owns which id. `omitted`, `lost`, `blind` are ghosts: what really
  happened on screen.
- **`Session`** is `CSession` and the runtime it meets; **`Hud`** is `CDaemon`'s
  loop on top of it, one step per place where something else may come between
  (`pc` names them), with the theme and what the bus shows.
- **`Board`** is the daemon as a producer meets it: the panels on the board, the
  producer's calls and the daemon's signals under way, calls that time out and are
  handled later, signals that `sd_bus_call` has set aside, restarts. **`CmdLog`**
  and **`Battery`** are two producers on it, each with its model and its loop.

- **`Keystrokes`** is `CKeysModel::handle` behind `parseShowMeTheKeyEvent`:
  `pressed` is `m_pressed`, `rows` the history, `age` how long ago its front row was
  pressed, `down` the presses that the xkb state counts. The user's fingers on any
  number of keyboards (`held`) are the environment; a record is a press, a release
  or a repeat. What a key means is a constant keymap: `Sets` (the modifiers it holds
  down), `Label`, `Text` (what `isTextKey` says), `Typing` (what the session types).
- **`Settings`** is the four parsers and loaders, which are four copies of one idea
  with different tables, numbers and notions of a bad file. A file is a sequence of
  lines, read one at a time; `file` is a ghost of what was read.
- **`CommandText`** is what the ticker makes of a command line: `onPublish`,
  `sanitizeCommand`, `truncateHead`, on bytes of which only the class counts.
- **`Inputs`** composes the three: a program reads its file (`Load`), and if it
  accepts it, runs on keys or on commands with the configuration it has read.

The `MC` modules add the bounds and, where the bounds need a count, a counter.

### Deliberate abstractions

- Contents, texts, colours are members of small sets; a row's text stands for the
  sanitised command line, one of them for those that sanitise to nothing.
- Geometry, poses, layer budget and blend modes do not occur.
- A line of a configuration file is blank, broken, a header or an entry; a value is
  its form (quoted, word, integer, decimal, too large, nan) and what it says.
- A byte of a command line is a space or control, other ASCII, the lead of a sequence
  of two to four or a continuation; D-Bus delivers whole characters only.
- Locks and latches of the xkb state do not occur; no record of the capture source
  is lost, which the pipe guarantees.
- Clocks are kept as ages or as what is left; ticks stand for milliseconds.
- `Board` keeps one singleton slot, and free placement without limit (toasts, too,
  whose stack the daemon keeps to its `max`); the producers' toasts expire, their
  other panels persist, as their `hold_ms` of -1 says.
- `Hud` keeps of the scene which panels there are and their epochs. What decides
  which panels a frame submits (`submitOrder`) is any subset.
- D-Bus keeps the order of the messages between two connections. Calls on it may
  fail at any time.

## 3. Runs

All runs are complete searches of their instance.

| run | asks | shows |
|---|---|---|
| `arbitration` | two owners, two singleton slots of which one queues, a stack of two and one of one, cap 2, two urgencies, three panels | `OneOccupant`, `NoIdleSlot`, `RemovalsAnnounced`, `RefusalChangesNothing`, `NoInversion`, `CreateTrimsStack`, and that Scene implements `SlotArbiter` |
| `lifetimes` | one queueing slot, two panels, envelopes that persist, run out, are too dim to see or too long for an int (`IntMax` is 7), content changes, instants 0 to 2 (the envelopes that fit an int run out within two) | `UploadOnChange`, `ExpiryTakesOnlyFaded` |
| `stranded_panel` | as `arbitration`, one owner | **violated**: a waiting panel that is moved onto a stack or into free placement stays marked as waiting, for ever; the comment says stacks never queue |
| `streaks` | two panels, four frames | `StreakUnbroken`, `CurrentIsTrue`, `NoGapBetweenLooks` |
| `capture` | ids 1 and 2, four frames (one less after an exit of the daemon or with the second panel), one exit, one unread signal, one key in the pipe, the client killed at any step | `LooksTellTruth`, `AtMostOneBlindLook`, `NoOrphan`, `BreakStopsCapture`, `GateDecides`, `NothingLeftBehind` |
| `lifecycle` | one panel with two contents, two themes, a runtime that does what it likes, also to `xrBeginSession` | `BusTellsTruth`, `NothingLeaks`, `ShowsCurrent` |
| `lifecycle_live` | no panel, two themes | `StopEnds`, `Reappears`, `FlipsReachPalette` |
| `ticker` | three commands of three texts, two rows, one trouble: a rival in the slot, an exit of the daemon or a call that times out; updates that cannot be sent, without limit | `KnownIsTrue`, `NothingOverdue`, `FallsSilent`, `MailIsRead` |
| `idle_ticker` | two commands, the same trouble without time-outs | **violated**: a restart leaves a ticker panel whose id nobody knows; the doc says an idle session carries none |
| `battery` | the laptop's battery, read with two calls, three percentages, charging when low, two events: changes with or without a signal, or troubles: a property call or an update that fails, a rival, an exit of the daemon; toasts that fill the share | `BoardMirrorsReading`, `OncePerCycle`, `ReadingIsSeen`, `GaugesGetThrough` |
| `owed_create` | a source that stays, one trouble, a poll three times as long as the retry | **violated**: the wake-up for a create that is owed does not retry it; the comment says it does |
| `inputs` | files of up to three lines for each of the four programs, with good values, values of the wrong form, numbers too large and nan; then, for keys, two keyboards that share Ctrl, one of them with a letter and the other with Shift, and three presses that are shown; for the ticker, commands of up to six characters | `ModifiersAreHeld`, `NothingTyped`, `RowsAreRuns`, `AcceptedAsWritten`, `PolicyKept`, `ShownIsHead` |

`TypeOK` is checked by `arbitration` and `streaks`; of `Keystrokes` and `CmdLog` it is
proved, and elsewhere it documents the variables.

**Why the bounds are enough.** Three panels are a holder, a waiting panel and a
newcomer, or a full stack of two and a newcomer, or a stack of one to which two were
moved and a newcomer: every branch of arbitration compares at most these. Two
urgencies make the newcomer weightier, lighter or equal. An `IntMax` of 7 puts the
longest envelope over the largest int and the others well below it; the proofs hold
for every `IntMax`. Owners are compared for equality only, so two do. Four
frames let a panel be shown, looked at, omitted, shown and looked at again; the
three that a new daemon has take its serials past those the client knew. One
exit of the daemon and one id more than it hands out before make the new daemon's
ids coincide with the old one's, and not coincide. One trouble and three commands
put the trouble before, between and after the messages of a create, an update and
a dismissal. Two keyboards with a modifier in common are where counting presses
goes wrong, three presses make two runs of which one repeats, with histories of
one and three rows. Three lines are a header, an entry and a second entry, header
or error that could undo it. In `CommandText` the budgets are 9 and 6 bytes instead
of 8192 and 1024, and the widths, to scale, 2 for a `max_chars` below 60 and 5 from
there (`Width`, any function in the proofs): six characters of
one to four bytes exceed each of them, at every place of a character, and the
widths stand on both sides of the one (3) below which there is no ellipsis. The
bounds that only end the search are: `MaxId`, `MaxTime`,
`MaxFrames`, `MaxSignals`, `MaxLines`, `MaxExits`, `MaxEpoch`, `MaxTheme`,
`MaxCommands`, `MaxChanges`, `MaxTroubles`, `MaxEvents`, `MaxInbox`, `MaxLog`, `MaxCommand`. `CHECK_DEADLOCK FALSE` is
set where programs end or a bound stops the environment.

`arbitration` and `lifetimes` use `VIEW Essential`, which drops each panel's epoch
and the last reply: they are written by every call and read by none, and the
action properties look at them in the step itself. The symmetry of `arbitration`
and `streaks` is that of owners and panel ids in the roles where the code only
compares them for equality.

**Mutants.** For each property of a passing run `PROJECT.json` names a definition
and a plausible bug in it (`Mut...`, defined before what it mutates) under which
TLC finds the property violated.

### Fairness

- *Loops* of the daemon and the clients: weak fairness. They are threads that
  never block for long: `poll()` has a time-out or wakes for what the property
  waits for, and where it would not, the model has no fairness to help it (a
  message set aside by sd-bus wakes `CmdLog` through the bus's time-out only).
- *Time* passes; *the reaper* comes with each pass (at least once a second).
- *D-Bus* starts a daemon that is down for a message, or gives up (`CmdLog`); for
  `Battery` it does not give up for ever, for nothing else could bring a panel
  through. Nor do its property calls fail for ever (`ReadsFairly`, in `Spec`; the
  run bounds the calls that fail and does without).
- *The runtime* (`Hud`): it makes a waiting session ready and confirms an exit that
  was asked for. `Reappears` is about a runtime that from some point on (`calm`)
  is up and gives no trouble. Without that, frames cannot be promised. Strong
  fairness of `Pumped` says the runtime does not produce events for ever within
  one call of `pollEvents`.
- *Keys*: `BatchesEnd` says that keys do not arrive faster than one pass drains
  the pipe for ever (`keys/KeySource.cpp:168` has no limit). The deadlines of the
  gate pass. Disclosure panels persist and only others expire.

Commands, changes of batteries, rivals, signals, deaths: never fair, they may come
or not.

## 4. Proofs

The theorems hold for every value of the constants that satisfies the named
assumptions, and without the bounds of the `MC` modules: any number of panels,
keyboards, commands, restarts, time-outs, lines. Of the 40 properties that the
passing runs check, 29 are stated by a theorem; the list at the end of this section
names the other 11, all of them liveness properties.

**Scene.** Assumption: `SceneAssumption` (names of slots and kinds are distinct, a
stack holds at least one panel, values are of the types of the code).

- `TypeCorrect`, `SlotsExclusive`: `Spec => []TypeOK`, `Spec => []OneOccupant`.
- `SlotsNeverIdle`: `Spec => []NoIdleSlot`, under `NoLowUrgency`, which says that
  no urgency is below -1. The assumption is needed: reconcileQueues starts its
  search for the most urgent panel at -1 (`Scene.cpp:259`). The first-party clients
  ask for 1 and 2.
- `RefusalsHarmless`, `AllAnnounced`, `OnlyFadedExpire`, `NoneOutrankedByLess`,
  `CreatesTrim`, `UploadsOnChange`: the six properties of single calls. The first
  rests on `LosesInVain`: the table that an arbitration leaves when the newcomer
  loses is the one it was given, which is what its order of comparing and evicting
  is for. The third is about all that comes after: a panel whose time is up is
  never seen again (`RunOut`), while one that is just too dim now, at the start of
  its rise, would be; for all envelopes whose length an int can count (`FitsAnInt`).
- `SlotsAreLocks`: `Spec => Arbiter!Spec`, under `NoLowUrgency` again, for a slot that
  stands idle before a waiting panel is no lock.

The inductive invariant is `IInv == TypeOK /\ OneActive(panels)`. `OneOccupant`
alone would not do: a create looks for one occupant and evicts that one
(`OccupantIsActive` shows it is *the* active panel only because there is at most
one). `NoIdleSlot` need not be in the invariant, since every action ends in
`Reconcile`, which establishes it from any table. The argument goes through
`Reconcile` (what it does to each field, that it keeps a slot's active panel, adds
at most one and leaves none idle), then one lemma per kind of step: update,
create, removal, redraw. That a non-empty set of waiting panels has a most urgent
and oldest member (`BestExists`) is proved by well-foundedness and a bounded
maximum. For the properties of steps the many branches of an upsert are first
brought to three outcomes (`UpdateSettles`, `CreateSettles`): refused, `Updated` or
`Created` with a set of evicted panels. What a stack loses is its oldest members,
as many as exceed the limit (`OverflowIsOldest`). For the refinement every step is
seen from one slot: it stays as it is, a newcomer waits, a newcomer takes it, the
best that waits succeeds, or it is vacated (`Stays`, `Waits`, `Takes`, `Succeeds`,
`Vacates`), which are the actions of `SlotArbiter`.

**Presentation.** No assumption. `IInv` relates each tracker entry to the whole
history (`Accounts`): since its `streakStart` the panel was in every frame up to
its last one, the frame before did not have it, and it was not dismissed since.
From it follow `StreaksUnbroken`, `CurrentTrue`, `NoGaps` and `TypeCorrect`.

**The gate of the keys client** (`GateProofs`). `OneBlindLook` and
`GoesOnOnlyIfShown`, with no assumption but the types. Neither property is inductive: each
compares what the client knows with what really happened. The invariant says where the
difference can be: `Warned` (an exit of the daemon is in the client's queue or known
to it), `Exposed` (after a look that the wrong daemon answered, the signal that
exposes it arrived no later than the answer, and the client reads what has arrived
before it looks again), `Remembered` (entry, streak and frame are those of a daemon
that has not exited) and `Marked`: an omission stays visible for ever in the
disclosure's entry, as out of date, gone, or of a streak that began after the one the
client remembers. The order of D-Bus messages is what `Queued` and `Exposed` rest on.

**The daemon's loop and session** (`HudProofs`). `BusTruthful` and `LeakFree` follow
from `Located /\ Told /\ Owned`: where the loop stands tells the state, the bus knows
it there, and the handles are those of a live session. They hold whatever the runtime
does, with any set of faults. `CurrentShown`, `Spec => ShowsCurrent`, is proved under
`UploadsSucceed`, and is false without it: an upload that fails is noted as done
(section 5). Its invariant, `Mirrored`, says that a texture whose epoch is the panel's
has the panel's image in the present palette; it survives because ids are never used
again, epochs only rise and a reload moves all of them.

**Key history.** Assumptions: `KeymapAssumption` (types) and, for
`NothingTypedIsShown`, `SameKeymap`: what types a character in the session has text
in the configured keymap. It is named because the code cannot know it (see
section 5). The invariant `IInv == TypeOK /\ CountsTruly /\ NothingTyped` says with
`CountsTruly` that a key is counted by the xkb state exactly once if it is in
`m_pressed` and not at all otherwise, and that such a key is down on some keyboard.
That is what the early returns for repeats and for foreign releases are for;
without the first, two keyboards leave a modifier on. From it follow
`NoModifierSticks` (for any keyboards, keymaps and orders of records) and
`TypeCorrect`; `NothingTypedIsShown` needs it at a press: a letter that is shown has
a shortcut modifier on, which some finger then holds, so that it typed nothing.
`RowsCountRuns`, `Spec => []RowsAreRuns`, needs no key state but a witness: a list of
the presses that began a run, newest first, in which a press stands at the place that
the number of newer ones gives it (`Listed`). `Counted` says that such a list exists
of which the rows show the first `history`, that the front row is the last press's
and that its age is the time since that press; then the code's test for a repeat is
the definition of a run.

**Configuration and what runs on it** (`InputsProofs`). `FileIsUnderstood`, for a file
of any length that was read to its end: every line for one of the program's keys
means something (`Means`, which says what the text says and does not go through the
parser's `Takes` and `Converted`; `TakenAsMeant` relates the two), and the program runs
with what the last such line means, but for the numbers that the daemon and the
battery client bend (section 5). `Parsed` says that while no error was met, the section is that of the
last header, and what is assigned is what the text so far says read as a whole
(`Reflects`). The heart is one lemma per kind of line: adding it at the end changes
what the whole says as `Read` changes what is assigned. `PrivacyIsKept` composes this
with the invariant of the key history: what was asked for is in `config` when the
program starts, and stays. Its assumption `AcceptsConfigs` says that the configurations
that `Keystrokes` is about include those that the parser lets pass (a history of 1 to 8
rows, a window of 0 to 10000 ms), which are the ranges that the code checks.

**Ticker and battery** (`TickerProofs`, `BatteryProofs`). `RowsAreFresh` holds because
the rows are `Sorted` by age: a repeat renews the first row and no other, so that the
first fresh row from the end has none over before it. `PanelIsKnown` is proved for a
ticker that `Listens`, as this one does (`CmdLogClient.cpp` matches both signals
before its first call; the battery does not, and for it the property is false). Its
invariant `Mirrors` says, for each place where the loop may stand, that the panel
which the ticker takes for its own, or whose id is on its way, is its own and will
show the rows once the last call is handled, or after the retry of an update that
could not be sent (`Behind`), or that a message saying otherwise is in its inbox
(`Doomed`). The lemmas go by who acts: a rival, D-Bus, the daemon, a
command, a tick and each place of the loop. `WarnsOnce` follows from `Spent`: a source
that has warned is not armed, and its last reading does not end the cycle.

`BoardMirrors` is stated for the behaviours of `Battery` in which every step counts
its troubles (`Counted`), without the other bounds of `MCBattery`, and for `MCSpec`,
which are some of them. It is about a daemon that lives, updates that can be sent and a
slot that nobody takes from the monitor (`Calm`). Readings may fail or be torn between
two property calls, and creates may be refused: the board then shows nothing, and the
monitor knows that it owes the panel. `Mirrors` says: all panels on the board are the monitor's toasts or its gauges
(`OursKnown`); under way are toasts, updates of its panel and, last, the call that the
loop waits for (`UnderWay`); the panel in the slot is the one whose id it has, or is
about to be told, and will show `lastSent` once the last update has been handled
(`Placed`, `WillShow`); and between passes `lastSent` is what was read. An update is
sent and not waited for, so the conjunct about the board needs the last update in the
queue. The lemmas go by who acts: the loop, the latch, `syncPanel`, the return of a
call, the reaper, and the daemon at the head of its queue.

**The text of the ticker** (`InputsProofs`). `HeadsAreShown`,
`InputsSpec => []ShownIsHead`, for commands of any length, whatever the two budgets and
the width. The code loops over bytes, and its loops are recursive functions here, for
which the library's induction theorems are out of reach (they take an operator as a
parameter). Two lemmas take their place: `Induct`, for *sets* of numbers, from the
least member of the complement (`WFMin`), and `Recurs`, that a function defined from
one place to the next exists; with them each recursive definition is shown to be met
by what it chooses (`BytesRecurs`, `BeginsRecurs`, `FoldedRecurs`, `ProperRecurs`). Then:

- *Places.* `End(cs, n)` is where the n-th character ends. Each byte stands where the
  characters before it put it (`BytePlaced`), and every place is in one character or
  at the end (`Within`).
- *Reading.* Whatever bytes follow, the lead bytes that `CodepointCount` and
  `truncateHead` step over are the places where characters begin (`CharAt`,
  `HeadsAre`, `WholeHeads`). So dropping a tail that was cut leaves whole characters
  (`WholeOf`), and cutting to the width leaves a head of them, with dots where they
  fit (`TruncatedIs`).
- *Folding.* The loop of `sanitizeCommand` is `InStep` with what should be seen of the
  characters it has read: `Between` two of them, with the space it owes, or `Amid` the
  next. Within its budget it stays in step (`InStepOn`); beyond it, what it has written
  is still how the whole begins (`FoldedLeads`). This is where the owed space matters:
  with it the text may exceed the budget by a byte, and where that byte is the first
  of a longer character, which is then dropped, the row ends with the space.

**Model-checked only.** All liveness properties, for fairness and ENABLED are beyond
the prover: `NoOrphan`, `BreakStopsCapture`, `GateDecides`, `NothingLeftBehind`,
`StopEnds`, `Reappears`, `FlipsReachPalette`, `FallsSilent`, `MailIsRead`,
`ReadingIsSeen`, `GaugesGetThrough`.

## 5. What the code does that its documentation does not say

The three violations above, and, met while modelling but not run:

- A `uploadPanel` that fails is noted as done (`Session.cpp:360`): the old image
  stays until the content changes again. `ShowsCurrent` fails with
  `Faults = {"upload"}`; the runs leave that fault out.
- An `xrBeginSession` that fails is not tried again (`Session.cpp:290`): the session
  stays live and draws nothing. `Reappears` fails with `Faults = {"begin"}`;
  `lifecycle` has that fault, `lifecycle_live` leaves it out.
- A battery client whose panel was preempted, or whose daemon restarted, goes on
  updating an id the daemon does not know; each such update makes one more
  persistent panel, up to the client's share. `BoardMirrorsReading` is therefore
  about behaviours in which the daemon lives and nobody takes the slot.
- The toasts of the battery client count towards its share. Where `per_client_cap` is
  configured no larger than the toast stack's `max` (4 and 3 by default, which leaves
  room), they can fill it, and the client's `CreatePanel` is refused. That is retried
  early only if nothing was ever sent (`battery/main.cpp:195` asks `haveSent`): after
  a panel was dismissed, because all batteries were absent, the gauges of one that
  comes back wait for the next poll or signal.
- A laptop battery whose `Percentage` is read and whose `State` is not counts as not
  charging (`battery/BatterySources.cpp:55`), and one that changes between the two calls
  is read as it never was; the next poll mends it, a toast that it set off stays.
- The length of an envelope is a sum of ints (`Scene.cpp:214`) that overflows for a
  `hold_ms` near the largest one and a `rise_ms` above 0. Where it wraps around, the
  panel is reaped in its first millisecond, while it is still invisible.
  `ExpiryTakesOnlyFaded` is about the envelopes whose length fits.
- A waiting panel that is moved into a free slot becomes active without a fresh
  envelope clock (`Scene.cpp:111`).
- A configuration file that breaks off while it is read is taken for whole
  (`keys/KeysConfig.cpp:181`, `cmdlog/CmdLogConfig.cpp:159`): `contents << file.rdbuf()`
  sets the state of `contents`, and `file.bad()` is asked. A `mods_only = true` below
  the break is lost, while `docs/keys-overlay.md:87` says that an I/O error "fails
  closed" and "never silently falls back from an intended `mods_only = true` policy to
  all-key capture". `BreaksOff` does what the code does, and `PolicyKept` is about
  files that were read to their end.
- The keys client's xkb state starts fresh and follows the capture stream only: it
  does not know of a Num Lock that is on, so a digit typed on the keypad is `KP_End`
  to it and passes the privacy filter, and a dead key has no text. `docs/keys-overlay.md:25`
  promises that ordinary typed characters are kept out. `SameKeymap` is the
  assumption under which they are.
- `privacy_hold_ms` is compared with `rise_ms + 100` (`keys/KeysConfig.cpp:145`), which
  overflows for a `rise_ms` near the largest int; `HoldMinimum` leaves open what comes
  of it. The daemon and the battery client cut an integer that is too large to its
  low 32 bits (or to -1 or 0, where strtol stops at the largest or least long), where
  the other two programs refuse it; and the daemon takes `nan` for a number.
- A queueing slot has no limit on what waits for it, though `Slots.hpp:44` calls
  `maxStack` its "queue cap"; a configured `max` of 0 is accepted for a stack.
- Two members of a stack that were shown in the same millisecond have the same place
  (`stackIndex`, `Scene.cpp:282`), one drawn over the other.
- A line of the stdin feed for a known id changes nothing: `Wire.cpp` fills the
  fields and sets none of the presence flags by which an update is merged, while
  `src/README.md:343` says that a known id updates in place.

## 6. Not modelled

Theme parsing, the text raster beyond its decoder, PNG and previews, EGL, the blend
mode, logging, the self-test, most of the command lines, the units: parsing, pixels,
driver calls and output, with no state that outlives a call. The stdin feed's calls
are among those `Scene` enumerates. The shim is the action `Command`.
GetCapabilities and slotStats read the scene and change nothing; placementOf and
submitOrder decide where and whether a panel is drawn, which `Hud` and `CaptureGate`
leave open.

Left out of the modules that are there: percentages are whole numbers, while the
latch of the battery client compares them unrounded and the diff rounds
(`battery/BatteryModel.cpp:40`, `:52`); a toast whose send fails is lost, which only a
log line tells; whether a key is text is a constant of the keymap and not a question
to an xkb state (`keys/KeysModel.cpp:120`, section 5).

## 7. Plan

Done, in this order, the most important first: Scene with SlotArbiter;
Presentation; CaptureGate; Session and Hud; Board with CmdLog; Battery; Keystrokes,
Settings, CommandText, and their composition Inputs; and the proofs about all of them
that section 4 lists.

To come: **Rules**, that is `submitOrder` with the layer budget, `stackIndex` and
`pickBlendMode` as operators, against reference definitions.
