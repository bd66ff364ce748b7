# fp-lapse in TLA+

fp-lapse is the program of a headless timelapse controller: a Raspberry Pi with
a small screen and six buttons that drives a Sigma fp or a Nikon D5600 over USB.
It fires brackets of shots on a fixed grid of instants, starts, switches and
stops configurations by a schedule on a clock that may be wrong, survives
cameras that are unplugged, and lets an operator edit configurations meanwhile.
This directory specifies what its threads do to one another, model-checks it on
small instances with TLC, and proves the central results for every instance with
TLAPS.

Line numbers in comments and in `PROJECT.json` refer to `src/src/fp_lapse/`.
A definition named `X_Something` is an erroneous variant of `X`, the way a
plausible bug would have it; `PROJECT.json` says which property tells the two
apart. It is used by no specification.

## 1. Inventory

| Component | State | Operations | What must be right |
|---|---|---|---|
| engine (`engine.py`) | state, t0, configuration, expected instant, counters | start, switch_to, stop, tick, next fire | an instant without an image is counted as lost, once, and one with an image is not, unless an exception tears a bracket; no drift; nothing lost that could be fired |
| engine scheduler (`engine_scheduler.py`) | command lock, wake and shutdown events, mailbox of one | blocking commands, posted commands, the loop, shutdown | no lost wake-up; a bracket is never interrupted; commands arrive; nothing but the lock itself keeps a press waiting; the end comes |
| schedule (`schedule/`) | baseline of the trusted clock, force flag, poll time, frontier, on/off flag and its file | now, on_sync_observed, poll, tick, reset_frontier, toggle, load at start-up | each moment acts once and none is passed over; a bad clock never gets in; a decision is right for the engine it was made for, and is what then runs; a start obeys what was saved |
| moments (`schedule/moment.py`) | none: a time of a day, or a date and a time | next_firing, events_in | every firing in the interval asked for, on whatever days it touches, and no other |
| camera link (`camera/`, `camera_health.py`) | adapter, session, adapter lock, parameters of the bodies | connect, swap, probe, set_params, shoot, disconnect | a photograph has the exposure asked for; a capture is not disturbed; the link finds the body that is there |
| App and router (`app.py`, `__main__.py`, `ui/*` interactions) | screen, interaction objects, workers, held buttons and timers | button events, long presses, chord, worker results | no dead screen, no lost draft, nothing happens that was not asked; one press acts once |
| configurations (`configs.py`) | list, file, temporary file | load, validate, save, rescue | file and list agree after every failure |
| editor and bracket generator (`ui/edit_screen.py`, `ui/bracket_screen.py`, `bracket.py`) | draft, snapshot, cursor, window, generator fields | cycling, restoring, generating | no shot is lost by cycling; the cursor is on a visible row; the ladder is one |
| keyboard (`ui/keyboard.py`) | text, layer, row and column, mask | moving, typing, done, cancel | the cursor is on a key; a text that is taken keeps its limits |
| picker (`ui/picker_datetime.py`, `ui/picker_validate.py`) | mode, digits of each mode, cursor | moving, turning a digit, going round the modes, save, clear | no digits are lost; what is saved is a real date and time, and the one shown |
| Wi-Fi (`ui/wifi_screen.py`, `net/nmcli.py`, workers in `app.py`) | networks, pending password or name, busy flag, status | scan, connect, forget, typing | the list is that of the last scan; a password goes to the network it was typed for, and to no other |

How they meet. The UI loop (main thread) polls the prober and ticks the schedule
evaluator, which *posts* commands to the scheduler's mailbox; then it renders,
reading the engine without its lock. Button events arrive on the GPIO thread and
on timer threads, are serialised by `app.lock`, and *command* the scheduler,
waiting for its command lock while a bracket is under way. The scheduler's
thread fires the engine, which calls the camera proxy; the health thread probes
the same proxy, and swaps or reconnects the adapter behind it. Sync and Wi-Fi
workers run on threads of their own and end by changing the screen.

What is hard: a mailbox of one slot between two producers' decisions; status
read without the lock; an evaluator that holds `app.lock` only inside its
providers; adapters replaced between `set_params()` and `shoot()`; timers that
expire while the button is being released; workers that end after the screen has
moved on; a disk that refuses in the middle of a handler. `PROJECT.json` lists
each of these at its line, with the property that would find it going wrong.

## 2. Modules

Each component is a module; an abstract one says what it promises.

- `GridSession`: the promise of a session, without time or camera: the instants
  of a grid are decided one after the other, each exactly once, as captured or
  lost; an instant may be photographed before it is decided. `Engine` implements
  it (`KeepsSession`).
- `Engine`: `engine.py`. `Start`, `SwitchTo`, `Stop`, `Tick` are the methods; a
  tick that fires goes on with a `Shot` (or `ShotRaises`) for each photograph and
  `BracketDone`. Time passes in `Elapse` and inside a shot. The fields have their
  own names; `captured` (instants with a photograph, written where the shot
  succeeds), `lost`, `torn` (brackets an exception ended after a photograph),
  `base` and `earlier` are history. Time is a
  natural number: the code's floats enter only through sums, comparisons and one
  ceiling.
- `CommandPort`: commands take effect at once or are posted to a slot of one. The
  promise of the scheduler, and the port through which `Schedule` commands.
- `EngineScheduler`: `engine_scheduler.py`, one action per step between two
  points where another thread may act: drain, apply, signal, peek, sleep, clear,
  tick. Two clients: a thread that blocks, and the UI thread that posts, reads the
  status without the lock and ends the program. Of the engine it keeps what the
  threads see: whether it runs, whether it fires, and where its next instant is
  (`mark`: the first of a session, ahead, due within the tolerance, or behind it).
  It implements `CommandPort` (`IsCommandPort`).
- `Moments`: a scheduled moment, its instants, and what `moment.py` computes of
  them, on days of `Day` seconds. A date is the number of its day; the calendar is
  in `Picker`, where dates are typed.
- `Schedule`: trusted clock, prober, evaluator and the parts of the App that set
  the time, on a `CommandPort`; the evaluator asks `Moments` for the firings of an
  interval. `tick()` is a sequence of steps, so that another thread may overtake it
  at every provider. The two fields of the baseline are read and written in
  separate steps, and the outcome of a sync is decided before they are written: only a
  sync that was decided as forced uses up the force flag. Time passes at any of these
  steps and while a thread waits for `app.lock`; only the holder of the lock is quick.
  The on/off flag has its file, which may be missing, unreadable or
  refuse a save; the program may be restarted, and starts up with buttons that are
  live before the flag is loaded and the schedule bound.
- `CameraLink`: USB bus, both adapters, proxy, health thread with the label it
  reads of a new session, the engine's shots and the disconnect at the end. A method under the adapter's lock is one step,
  `shoot()` excepted, during which the bus may change.
- `ConfigStore`: `configs.json` with the steps of an atomic save and the load; a
  configuration is its name. `App` extends it.
- `App`: every screen and handler, the `ButtonRouter` with its timers, and the
  workers. OK and BACK, which can be held, are events with a press, a release and
  timers; the arrow buttons are presses. A handler is one step unless it commands
  the engine or saves: then it keeps `app.lock` (`call`) until that is done. Where
  a menu has a cursor it may be anywhere; the picker and the keyboard are what
  they answer to a press. `fresh` is history: the presses that nothing has used up.
- `Keyboard` and `Picker`: a keyboard and a picker that are open, with one action
  per press and an operator for how they end (`KeyboardDone`, `Picked`); who opens
  them, and what becomes of the result, is said by the modules that extend them. A
  key of characters types the layer it is of, so that `Layers` are among the
  characters there are (`Chars`), which scans and stored names may use too; a date is year, month and day, with the
  Gregorian calendar of `picker_validate.py`.
- `Editor`: the edit screen with its rows: the name and its keyboard, the interval,
  start and end and their picker, the shots with their snapshot, cursor and
  window; and the bracket generator with `generate_bracket`, on whole numbers:
  exposures are multiples of one unit, light is shutter times ISO, EV steps are
  whole.
- `Wifi`: list, keyboard, status and forget screens, the two workers, and what
  `nmcli.py` makes of a scan. NetworkManager, with its profiles, is external: it
  prints any of `Airs` or nothing, names the profiles or none (an exit code is not
  read), and every call may raise.
- `Dialogs`: `Editor` and `Wifi` with the settings menu and the clock's picker, one
  visit of the operator at a time.
- `MC*`: the instances for TLC.
- `EngineProofs`, `EngineSchedulerProofs`, `MomentsProofs`, `ScheduleProofs`,
  `CameraLinkProofs`, `AppProofs`, `WifiProofs`, `DialogsProofs`: theorems, each
  module about the one it is named after; `ScheduleProofs` rests on `MomentsProofs`,
  `DialogsProofs` on `WifiProofs`, which also has what both need of the keyboard.

`App` and `Dialogs` share the screens and split what they say of them. `App` has
the buttons, timers, saves, engine commands and every way from one screen to
another, and lets a picker or a keyboard answer anything; `Dialogs` has one press
at a time and computes what is answered. A hazard that needs both, a timer that
types, is in neither: the timers call the same handlers, which `App` checks.

Code outside the repository (USB, PTP and gphoto2, `timedatectl`, `nmcli`, the
operating system's clock and disk) is modelled by what the source does with it.

## 3. What is checked

| Run | Instance and bounds | Result |
|---|---|---|
| `engine` | two configurations, interval 4 with two shots and interval 1; tolerance 2, shots of 1 or 3, which fail or raise, time up to 9 | holds |
| `scheduler` | two configurations; no bound, the state is finite | holds, with liveness |
| `scheduler_status` | the same | `StatusReadable` violated |
| `schedule` | two configurations whose windows meet, a moment that recurs on the next day, three clock offsets, time up to 2, two interventions, a mailbox that is drained at any time | holds |
| `schedule_handover` | no intervention; by the constraint `Prompt` only ticks that begin with an empty mailbox | `ScheduleObeyed` violated |
| `schedule_reset` | one intervention | `NoDeadPeriod` violated |
| `camera` | both bodies, two adapter objects, one manual exposure | holds, with liveness |
| `camera_swap` | the same, without fairness | `SwapAtWorstFails` violated |
| `app` | three names, at most two configurations, in every initial file | holds |
| `app_chord`, `app_orphan` | the same | `ChordHarmless`, `NoOrphan` violated |
| `dialogs` | seven shutter speeds, two ISO, at most three shots; one change of a shot, one generator session with two changes; two layers; one digit turned; two scans of up to five lines, one connection | holds |

`schedule` and `app` have over two million states, `dialogs` 1.4, `camera` 0.4; the
others far fewer.

Why the bounds are enough. *engine*: the slow interval is longer than the
tolerance and the quick one shorter, which makes the ceiling negative; nine units
hold late ticks, a failed bracket, a hot switch and an overrun of several
instants. *schedule*: two offsets differ by the tolerance and two by more, so an
accepted, a walked and a rejected sync all occur; a moment of A and one of B fall
together, and wall time reaches the last moment. *camera*: two adapter objects
are the most that can be referred to at once, and two bodies are what the factory
knows. *app*: three names make a rename, a copy and a switch possible with a list
at its limit; what is typed or picked is any. *schedule* again: a day of four
units makes the horizon reach the second day, so that a daily moment fires twice.
*dialogs*: the shutter scale is long enough for a whole ladder and short enough
to be left at both ends, and one original shot is off it, as an edited file may
have it; an interval between two of the scale is one too. A visit is about the
shots, the name, the moments, the clock or the Wi-Fi (`about`), whose rows share
no state but the cursor and the draft that is saved. Moments and clocks are so
chosen that one digit turned makes or breaks a date: 28 February of a leap year and
of none, 29 February 2000, a 31st, the years 1999 and 2099. A text may have one
character for a password or network name, two for a name, which is one more than
none and enough for a name that is taken. The scans have a
network that two stations offer, one in use, one that is open here and secured
there, a blank name and a signal that is no number; one that is in no scan is typed.

Bounds, all of them in guards or assumptions: `Horizon` (Engine, Schedule),
`Interventions` (Schedule), `MaxEdits`, `MaxLadders`, `MaxFields`, `about` (Editor),
`MaxTurns` (Picker), `MaxJoins` (Wifi), `Longest` (Keyboard; in the code 63, 32 and 20).
The constraint of `schedule_handover` is no assumption on the code, which guarantees
nothing of the kind: it selects one of two ways in which `ScheduleObeyed` fails. In the
other a command waits for a bracket to end, and the next tick decides by a name that is
out of date (a hazard listed for `schedule_evaluator.py:124`). `schedule` has no such
restriction; what it says of decisions, `DecisionSound`, is relative to the engine
that the tick has read.

Symmetry of names is used for `App`, whose properties are invariants and action
properties; the two specifications checked for liveness use none.

Deadlock is checked except in `EngineScheduler` and `CameraLink`, whose programs
end.

### Divergences found

Six runs state what a comment or `docs/reference.md` says and TLC finds it
violated; `PROJECT.json` quotes the lines.

1. `StatusReadable`: the status read without the lock can raise `AssertionError`
   when a stop falls between its reads, in `render()`, which ends the UI loop.
2. `ScheduleObeyed` in `schedule_handover`: when one configuration ends at the
   instant the next starts, the stop is overwritten in the mailbox by a start that
   is then rejected.
3. `NoDeadPeriod`: a manual time entry that falls inside a tick is overwritten
   with the frontier of the old clock.
4. `ChordHarmless`: the presses that make up the shutdown chord also act on their
   own: the one opens a dialog, the other confirms it.
5. `SwapAtWorstFails`: a body that is plugged in between `set_params()` and `shoot()`
   may take over the shot, with whatever parameters it has; the photograph counts,
   where `camera/proxy.py:25` says that the shot fails at worst.
6. `NoOrphan`: a configuration that is renamed while it runs, and then deleted,
   runs on.

Met while modelling and not given a run, because one step or one assignment shows
them; the properties that hold do not cover these cases, and say so:

- POWERING OFF is not held, as `docs/reference.md:832` has it: a Wi-Fi worker that
  ends during the shutdown sets the screen whatever it is (`app.py:1275`, `1298`),
  and the buttons are live again. `OperatorWaits` excepts that screen.
- A save that finds the list full drops the draft (`app.py:779`, `1501`), where
  `docs/reference.md:362` keeps the user in the editor and `780` shows an overlay.
  `DraftKept` is about saves that begin: what becomes of the draft when the disk
  refuses.
- A flag that OK or BACK is down outlives an overlay, which the docstrings at
  `ui/main_screen.py:364` and `ui/wifi_screen.py:62` exclude. OK held on the main
  screen, BACK that opens the stop dialog, OK released there, and again pressed to
  confirm: the release starts or opens what the cursor is on. In the same way a BACK
  that lets "Power off?" go may act on the Wi-Fi list. `PressActsOnce` says that a
  press acts once and not across a visit to the settings, which is what the code
  guards.
- The Nikon's dial positions without an entry in `_DIAL_TO_EXPOSURE`, and a dial that
  cannot be read, give no warning, although `docs/reference.md:216` says a wrong dial
  does; a value the body rejects is logged and the shot counts.
- The comment at `trusted_clock.py:27` on the skew of a reading that mixes two
  baselines: it is as large as the time between them.
- The press that toggles the schedule before start-up has bound it
  (`__main__.py:335`) is overwritten; `SwitchKept` says that what was saved prevails.
- A draft renamed away and back is refused as "Name in use": the names that are
  taken leave out the draft's current name and not its original one
  (`app.py:735`).
- A moment stored with a year before 2000 or after 2099 cannot be confirmed in the
  picker as it is.
- When `status()` raises after a connect that succeeded, the screen says that it
  failed and the list still shows the network before.

### Fairness

- `EngineScheduler`: weak fairness, and no more, of the scheduler's loop, of the UI
  thread, of the button handler and of the passing of time: the threads run, and no
  `wait()` in the loop is without an event or a time limit except when IDLE. Python's
  locks promise no order, and a scheduler that fires bracket after bracket takes the
  command lock again at once: a press may wait for ever. `PressReturns` states that
  this is the only way it may; that it does not happen cannot be shown of this code.
  In the same way `SessionFires` says what a session without a bracket must look like:
  one mark missed after the other.
- `CameraLink`: weak fairness of the engine's shots, which end (a capture has a time
  limit); strong fairness of the health thread and of the disconnect, which wait
  for the adapter's lock that the engine takes and releases shot by shot: an
  assumption, since Python's locks promise no order. The bus is under no fairness: bodies need never come or go.
- The other specifications state no fairness; their properties are safety.

## 4. What is proved

With TLAPS, for every value of the constants that the named assumptions allow.
Every invariant and every safety action property the passing runs check is also a
theorem, but for `LadderDescends` and `PickerExact`; the table says where. What the
assumptions ask is what the code's literals and types give: names and
configurations distinct from the marks for none, ascending scales without zero,
a window with room for the rows above the shots, moments and scans well formed.

| Properties | Theorems | From |
|---|---|---|
| `TypeOK`, `InstantsAccounted`, `BracketsOnGrid`, `LostOnlyWhenMissed`, `SleepLosesNothing`, `KeepsSession` | `EngineProofs`: `TypeCorrect`, `Accounted`, `OnGrid`, `NoneLostEarly`, `SleepIsSafe`, `Implements` | `EngineInv` |
| `TypeOK`, `NoLostWakeup`, `BracketUninterrupted`, `IsCommandPort` | `EngineSchedulerProofs`: `TypeCorrect`, `WakeupsKept`, `BracketsFinish`, `ImplementsPort` | `SchedInv` |
| `TypeOK`, `SwitchKept` | `ScheduleProofs`: `TypeCorrect`, `StartKeepsSwitch` | `TypeInv` |
| `NoneSkipped`, `EvaluatedOnce` | `NoEventSkipped`, `NoEventTwice` | `FrontierInv` |
| `ClockHeld` | `ClockStaysAnchored` | `HeldInv` |
| `DecisionSound` | `DecisionsSound` | `DecisionIsIntended` |
| `TypeOK`, `CaptureUndisturbed` | `CameraLinkProofs`: `TypeCorrect`, `LockProtectsCapture` | `LinkInv` |
| `TypeOK`, `DiskAgrees`, `OperatorWaits`, `DraftKept`, `DeleteStops` | `AppProofs`: `TypeCorrect`, `DiskHoldsList`, `WorkersAwaited`, `DraftsKept`, `DeletedStops` | `AppInv` |
| `PressActsOnce`, `TimersHeld` | `PressesActOnce`, `TimersFollowButtons` | `GestureInv`, `TimersInv` |
| `TypeOK`, `ShotsKept`, `CursorShown`, `DigitsKept`, `SecretStays`, `ScanExact` | `DialogsProofs`: `TypeCorrect`, `ShotsComeBack`, `WindowFollows`, `DigitsComeBack`, `SecretsStay`, `ListExact` | `DialogsInv` |

None of the properties is inductive as it stands. What each needs besides, and why:

`EngineProofs`. `EngineInv` is type correctness, the account of the instants, and
what links the fields in each phase: an idle engine has forgotten its session
(`IdleInv`), a running one knows its grid (`RunningInv`), inside a bracket the
expected instant is the one being fired and each shot is counted or among the
failures (`FiringInv`), until a first bracket is done the only instant in
question is the first (`GridInv`), and the expected instant has an image only if its
bracket has taken one or an earlier attempt at it was torn (`ImageInv`). That a bracket
without an image adds one lost instant needs `FiringInv`, that it adds none with one
`ImageInv`, that the counter equals a cardinality needs `lost` to be finite. Two lemmas turn the ceiling into inequalities (`CeilDivBounds`,
`CatchUpBounds`), one step lemma per action carries the invariant.

`EngineSchedulerProofs`. `NoLostWakeup` speaks of a thread asleep; what it knows
then it learnt in the steps before. `SchedInv` follows it from the drain
(`AwakeInv`), keeps the grid it waits for (`AimInv`), ties the lock to the bracket
(`LockInv`) and a closure to its two steps (`PendingInv`).

`MomentsProofs`. With days of any length: `events_in` returns the firings of a
moment in its interval and no other (`EventsAreFirings`), two adjoining intervals
have the firings of the whole between them, each in one (`TicksPartitionFirings`),
and `next_firing` is the earliest (`NextFiringIsNext`). An instant lies on one day
(`DateOfInstant`, `DayOrder`, `CombineThenDate`) and a later one has no earlier day
(`DateMonotone`), so that the days the code enumerates are all that count.

`ScheduleProofs`. `FrontierInv` says that what has been evaluated since the seed is
what the frontier says, except in a tick that has collected its events and not yet
moved the frontier, where `done` is ahead by the interval of that tick. The step
that joins the two intervals is `TicksPartitionFirings`. It makes no assumption on
the clock's readings: a mixed reading of the baseline may be anything, and `tick()`
itself refuses to go back. `HeldInv` carries the bound of `ClockHeld` through a sync
that has assigned the first field and not the second; `ToleranceMonotone` bounds
each envelope by the widest of the run. `WinnerIsLatestFirst` is about the two stages
of `_select_start_winner`, a maximum of the times and then a minimum of the places:
that they choose a start, and that each other start is strictly worse, needs that
there are finitely many in an interval and that no two have the same place.
`DecisionIsIntended` goes through the cases of a decision: its commands, executed in
their order by the engine the tick has read, are accepted and leave running what the
crossed moments mean. What happens to them in the mailbox is in no theorem: run
`schedule_handover` shows that they may be lost there.

`CameraLinkProofs`. `LinkInv` adds that the thread at work on an adapter refers to
one (`HealthInv`) and builds a new one only when no session is left, and that a shot knows
what it asks and on what it exposes (`ShotInv`).

`AppProofs`. Behind "no dead screen" is a condition for each screen (`Fits`): the
interaction objects it dispatches to, its draft and what it returns to; it must hold
for the screen that is shown and for the one under "Power off?", and a
draft, a worker and a raised flag of the main screen are only where they are of use
(`UiInv`, `DraftOK`, `WorkersOK`). A handler that waits for a lock or the disk is on
the screen that called it, and its save holds what it is to bring about (`CallOK`):
from that, `DraftKept` and `DeleteStops` of the step in which it ends.
`GestureInv` says that a raised flag is that of a press that nothing has used up:
neither a release nor a long press has acted for it, and the settings were not
opened over it.
`TimersInv` needs only that a press delivered is of a button that was up.

`WifiProofs`. `ScanSays`: for any lines in any number, the list has each network
that was named once, with its best signal, a lock if any station has one, and its
marks, in the order of the code's sort key. The fold is taken line by line, the sort
is shown to be a stable permutation by the rank of each place. `WifiInv` keeps that
for the list on the screen (`ListInv`), its cursor (`RowInv`), and ties keyboard,
pending network and the worker's job together (`ScreensInv`, `WorkerInv`):
`SecretStays` needs that a password keyboard is open only for the network asked for
last.

`DialogsProofs`. `ShotsInv`: what the operator last made of the shots is the
beginning of the draft merged with the snapshot, where `ShotsKept` compares only what
is shown. `WindowInv` keeps the cursor on a row and in the window through drafts that
get shorter; `GeneratorInv` that the generator is open on its own row and makes a shot
at least, so that an accepted ladder leaves the cursor on a row. `DraftInv` carries
what `validate_strict` asks; that a ladder keeps to the scales (`LadderInGrid`) is
proved from the definition of `generate_bracket`, for any scales. `PickerInv` says
what the digits of each mode spell while they are out of sight (`IsPicker`); from it,
that what OK saves is a moment that `validate_time_digits` takes (`PickedIsMoment`).

The bounds that stop a run (`Horizon`, `Interventions`, `MaxEdits`, ...) may be any
number in the proofs.

Only model-checked, and why:

- Liveness (`MailboxDrained`, `PressReturns`, `SessionFires`, `ShutdownEnds`,
  `Settles`, `Disconnects`): fairness and `ENABLED` are out of the prover's reach.
- `LadderDescends` compares products of shutter and ISO along the ladder, with the
  EV step as a power of two: products of variables, which the SMT solver does not
  decide.
- `PickerExact` compares the calendar of the picker with a count of days from the
  years before: quotients by 4, 100 and 400, and a date found by its day number.
- The runs that expect a violation.

The library's induction theorems take an operator as a parameter, which the provers
cannot instantiate. Where data of any length had to be gone through (a fold over a
scan, a sort, the ladder) the proofs use the least-number principle instead
(`LeastNumber`, from the well-foundedness of `<`): a least counterexample, and the
step before it. No module uses a `RECURSIVE` operator.

## 5. What is not modelled

Rendering, display and button drivers, logging and paths hold no control. The
development control server injects events from other threads, and is off unless
asked for. Of `main()` the setting up of display, logging and arguments is a
straight line, and `select_camera_kind` is modelled without the override for
development. The contents of a file after a cut without `fsync`, bytes that are no
UTF-8, and hand-edited files that load but cannot be saved, are outside
`ConfigStore`, which starts from files the program wrote or cannot read. Text is
left out where no property is about it: the escaped colons of nmcli's terse
output, error messages, the text form of moments and shutter speeds.

## 6. Plan

Order of work, most important behaviour first; the first ten are done.

1. `GridSession`, `Engine` and its proofs.
2. `CommandPort`, `EngineScheduler` and its proofs.
3. `Schedule` on the port, its flag and restarts.
4. `CameraLink`.
5. `ConfigStore`, `App` and its gestures.
6. `Keyboard`, `Picker`, `Editor`, `Wifi`, composed in `Dialogs`.
7. `Moments` and its proofs.
8. `ScheduleProofs`, `CameraLinkProofs`.
9. `AppProofs`: `AppInv`, and the gestures on it.
10. `WifiProofs`, `DialogsProofs`.
11. An atomic store of one value as the promise of `ConfigStore`, with `App`
    implementing it, and `GridSession` under the whole of `EngineScheduler`.
12. `PickerExact` in parts: that `ValidDate` accepts the dates of the calendar, by
    the lengths of months, without the count of days.
