# A formal model of MinerWatch

MinerWatch polls a fleet of bitcoin miners, restarts the ones that fail inside
their working hours, puts them to sleep and wakes them by schedule, keeps
everything its controllers must remember in one SQLite table, and shows and
mails what it knows. This directory holds TLA+ modules of its components, TLC
runs that check them on small instances, and proofs of the most important
properties for every instance.

## Inventory

All paths are below `src/minerwatch/`. Every component, modelled or not, is
listed in `PROJECT.json` as well.

| Component | State | Operations | Interacts with |
| --- | --- | --- | --- |
| Event store (`store.py`) | the `events` table, the only durable state of the controllers | `record_event`, `last_action_in`, `is_needs_attention`, `clear_needs_attention`, `failure_clock_start` | written by the poller, both controllers and the command line; read by all of them and by the dashboard |
| Watchdog (`watchdog.py`) | per miner: deque of attempts, durable and rehearsed latch, cached power mode; rebuilt from the log | `consider`, `asleep_check`, `recover`, `clear_attention`, hydration | called by the poll; awaits the miner twice |
| Sleep controller (`sleeper.py`) | per miner: asleep, simulated, waking, uncertain, last attempt, failures, ineffective sleeps, latch; rebuilt from the log | `consider`, `_transition`, `_actuate`, `sleep_now`, `wake_now`, `clear_attention`, hydration | called before the watchdog, which stands down when it owns the state; drives a backend |
| Poll cycle (`poller.py`) | last logged state, current maintenance window | `run`, `_poll_one`, `classify_detail` | API, schedules, maintenance, store, both controllers |
| Power backends (`backends.py`) | none of their own; the miner's work mode | `sleep`, `wake`, `reboot`, `is_asleep`, read-write-verify of the work mode, chains of cgminer commands | the miner's API port and web UI |
| Maintenance (`maintenance.py`) | a JSON file of hand-started windows, shared by service, command line and dashboard; a cached copy and its stamp | `start_manual`, `stop_manual`, `ManualWindows.get`, `active_for` | poll, dashboard, command line |
| Configuration (`config.py`, `models.py`, `schedule.py`) | none | parse and merge, refuse policies, `is_working_time` | everything |
| Configuration editor (`config_editor.py`, `compat.write_text_atomic`) | the configuration file and its backups | `check`, `save`, prune | dashboard, command line, text editors |
| Alerts (`alerts.py`) | conditions already announced, when | `evaluate`, monitor loop, delivery | reads the dashboard's fleet state |
| Dashboard (`web.py`) | a cached fleet state | `FleetState`, handlers | reads the log, edits configuration and maintenance |
| Command line (`cli.py`) | none; a process beside the service | `run`, `sleep`, `wake`, `clear-attention`, maintenance, reports | opens the same table and files |
| Miner API (`api.py`), platform (`compat.py`), simulators (`sim/`), scripts (`scripts/`) | none | framing, signals, test doubles, installation | |

What is hard here is not any one decision but their sequences: the service may
stop between any two statements that write, a poll suspends twice while it
relies on what it judged before, the command line changes the table under a
running service, rows are stamped with the start of a poll and written after
its end, and everything in memory is a second copy of something in the log,
rebuilt by a different query than the code that maintains it. What makes the
components correct:

- *Event store*: the failure clock starts at the first failure since the last
  real reset, for any log.
- *Watchdog*: attempts on a miner are spaced and bounded across restarts of the
  service; a latch is earned and respected; time a miner was rightly off never
  counts; a miner nobody can fix ends with a human; an asleep one is left alone.
- *Sleep controller*: the watchdog never restarts a miner that was put to
  sleep; a miner that was put to sleep, or may have been, is woken when its
  window opens; memory and log agree after a restart.
- *Backends*: a reported success means the mode was set; a failed one leaves
  the mode known or reported as unknown; no second command is sent once one
  took, as far as its answer can be read; a diagnosis leaves the miner as it was.
- *Miner API*: a reading is the truth about the machine when it answered, or no
  reading.
- *Maintenance*: what a call answered stays true, no reader keeps an old file
  for ever, and a crash leaves a whole file.
- *Editor*: no save overwrites what its page has not seen, what it overwrites
  can be restored, and the dashboard watches the miners of the file.
- *Configuration, schedules*: a setting is the nearest that is said of it; an
  hour is what is written, over midnight and the end of the week.
- *Alerts, dashboard*: what is shown is what a scan of the table would show; no
  false all-clear for what is looked at, no repeat too early, and a latch is told
  in the end.

## Modules

```
EventLog  <-  FailureClock  <-  Watchdog  <-  WatchdogInvariant  <-  MCWatchdog
EventLog  <-  Sleeper  <-  SleeperInvariant  <-  MCSleeper
              Sleeper  <-  Supervisor        <-  MCSupervisor
              Watchdog <.. Supervisor
RestartBudget <.. WatchdogInvariant
PowerDriver <.. WorkMode                               <-  MCDrivers
Firmware    <-  MinerApi, CommandDriver;  WriteShapes  <-  MCDrivers
ManualMaintenance, ConfigEditor, FailureClock, Hours, FleetConfig  <-  MCFiles
FleetState  <-  Alerts  <-  MCAlerts

FailureClock                                  <-  EventLogProofs
WatchdogInvariant, EventLogProofs             <-  WatchdogProofs
SleeperInvariant, EventLogProofs              <-  SleeperProofs
Supervisor, EventLogProofs                    <-  SupervisorProofs
WatchdogProofs                                <.. SupervisorProofs
WorkMode, MinerApi, CommandDriver, WriteShapes  <-  DriverProofs
Alerts                                        <-  AlertsProofs
EventLogProofs                                <.. DriverProofs, AlertsProofs
ManualMaintenance                             <-  ManualMaintenanceProofs
MCFiles, EventLogProofs                       <-  FilesProofs
```

An arrow points to the modules on its left from the one that EXTENDS them, a
dotted one from the one that INSTANCEs them. The `MC` modules hold the values of
the constants; each `.cfg` picks some of them for one run. `MCDrivers` and
`MCFiles` extend several parts that share no state: a behaviour chooses at its
start which one it exercises, and the others rest. `MCAlerts` likewise lets a
behaviour keep to one family of rows. The `Invariant` modules and the proof
modules hold the inductive invariants. A comment that begins with "Mutant:"
marks an operator that is a plausible slip in the definition it stands before (a
dropped guard, the wrong end of a queue, a forgotten reset). `PROJECT.json`
names, for every property of a passing run, the slip under which the run finds
it violated; nothing else uses these operators.

### EventLog: the table

A log is the sequence of one miner's rows in id order. A row keeps its
timestamp and its action. The state column is dropped: the queries only compare
it with `mining`, which the poller writes exactly on its `none` rows. The
miner's id is dropped, every query filters by it. Rows need not be in time
order: a controller stamps the start of its poll and inserts after its awaits,
and the command line stamps a clock of its own. So every query orders by
(ts, id) as its SQL does (`Older`, `LastActionIn`, `IsNeedsAttention`,
`History`). An insert is committed at once; there are no other transactions.

### FailureClock: since when the miner has been failing

`failure_clock_start` walks the newest `maxRows` rows once and keeps three
values. `WalkRow` is one iteration. `PromisedClockStart` says, without a walk,
what the docstring promises: the first in-window failure that no reset follows,
where a reset is a reset action or a mining row that completes `recovery` of
mining uninterrupted by other evidence or by a gap above `maxGap`.

### Watchdog: restarts

The variables are the members of the `Watchdog` object (`attempts`, `latched`,
`rehearsed`, `probe`), the table (`events`), the mode the service was started in
and where it is (`pc`). One action is one poll up to its first await, or what
follows an await:

| Action | Code |
| --- | --- |
| `Observe` | `_poll_one`: the row of a reading no controller has to judge (mining, or in a maintenance window) |
| `DeclineRestart` | `consider` branches 2 to 6: disabled, out of hours, latched, rehearsed latch, waiting, cooling down |
| `Latch`, `RehearseLatch` | branch 7, live and rehearsing |
| `HoldAsleep`, `AskPowerMode`, `PowerAnswered` | branch 8, `asleep_check`: from the cache; the await; its answer |
| `GoAhead`, `Actuate`, `Recovered` | branches 9 and 10: rehearsal, or the recovery command and its two writes |
| `Start`, `Crash` | `__init__` with its hydration; the end of the process at any await or between polls |
| `ClearAttention` | `clear-attention` in a process beside the service |
| `Tick` | time passes, also during an await unless `PromptPolls` |

The asyncio loop suspends a task only at an await. Between two of them the
statements of a poll are one action, also where they commit more than one row
(but see `latching` below). The deque is the set of its times: the clock never
runs backwards and at most one poll falls into a tick, so it is sorted without
repetition. A tick therefore stands for the shortest time between two polls, also
between the last of one process and the first of the next. `MaxRows` stands for
`min(5000, max(300, ...))` of `_clock_rules`; in `watchdog_safety` it is
smaller than the rows a delay may have. Of the `recover` command the model
has the outcome; how it comes about is in `CommandDriver`.

`ConfirmedBeforeAttempt` and `WaitIsBounded` speak of the recorded rows, not of
the walk. `WaitIsBounded` asks nothing for a failure that was no longer among the
rows the wait was judged by (`ReadFor`): that is what the row limit does to a
delay that fills it. `lost` is a history variable: commands
whose row was never written.

### RestartBudget: what a miner may expect

The abstract specification of the watchdog knows restarts, the one under way and
who has charge of the miner, and none of polls, processes, hydration, rehearsals
or rows. A restart begins (`Begin`) after the cooldown of every recorded one and,
until a clear, within the budget of the window; it ends with its record (`Ends`)
or is lost with the process (`Lost`); a window whose budget is used up hands the
miner to a human (`HandOver`), and only a clear (`Clear`) gives it back.
`WatchdogInvariant` reads all of this off the log and `pc` (`Budget`). What
`Begin` asks besides time and budget is that the service has charge: the latch in
the log, not the one in memory.

### Sleeper: sleep and wake

The same poll for a miner with a schedule and software power control. `mem` is
everything the `SleepController` object holds about the miner, `miner` is the
machine itself. What a summary reads may lag behind the machine by `Settle`
(a hashrate decays and spins up), and a fault may read as anything in `Faults`.
A command may take or not, and its acknowledgement may arrive or not, in every
combination of `Answers`; the machine is external and only the controller is
translated from code.

| Operator or action | Code |
| --- | --- |
| `Hydrated` | `_hydrate`: five queries over the table |
| `Stale`, `Ineffective`, `Seen`, `SeenLog` | steps 1 and 2 of `consider`: a hashing miner settles a doubt, and beyond the grace refutes an acknowledged sleep |
| `Verdict`, `Judged` | steps 3 to 9: the first match, and what the steps passed through forget |
| `Own`, `Release`, `SkipForCooldown`, `Rehearse`, `Send` | what the poll then does, whole |
| `Acknowledged`, `Failed`, `LatchAttention` | `_actuate` after its await; the last failure commits two rows, and `latching` is the state between the commits |
| `WokenByHand` | somebody uses the miner's own web page |

`handed` is a history variable: the reading that this poll left to the watchdog.
`torn` counts latches lost between two commits, `lost` says that a sleep took
while the service stopped. A poll inside a maintenance window reaches neither
controller, so for the sleeper it is a tick without a poll. The hydration's failure
count looks at the last 100 rows; `MaxFailures` is at most 100 for that reason.

### Supervisor: both controllers, and the command line

One miner, one clock, one service. `Supervisor` extends `Sleeper` and
instantiates `Watchdog` over rows of its own (`rows`): neither controller's
queries select what the other writes. An action conjoins one action of each:

| Action | Code |
| --- | --- |
| `PollOne` | `_poll_one`: the sleeper's turn; if it does not own the reading, the watchdog's |
| `DriverReturns`, `RestartReturns` | the awaits of `_actuate` and `recover` |
| `PowerModeAnswers` | the worker thread of `read_mode` has its answer: the mode the machine is in, or none |
| `PowerModeRead` | the await of `asleep_check` ends and the poll goes on with that answer |
| `ServiceStart`, `ServiceStops`, `ServiceTick` | both controllers are built, end and age together |
| `CommandBegins`, `CommandEnds` | `sleep` and `wake` from a process with a controller of its own |
| `ClearAttention` | `clear-attention`, both latches |
| `ByHand` | somebody uses the miner's own web page |

The two controllers rehearse or act by separate flags, so `mode` and `wmode` are
chosen separately. `clear-attention` commits its two rows one after the other.
They are one action here: a running service notices neither, and one that starts
between them is silent for longer. A rehearsed manual command only adds a row no
query reads and is left out. Between the answer about the power mode and its use
another process may sleep the miner; `overtaken` is the history of that.
`RestartSparesSleepers` names the cases in which the watchdog could not have
told that a miner sleeps (`NobodyCouldTell`): its power mode could not be read;
it was slept after it had answered this very poll; or the answer is a cached one
that has outlived the restart cooldown and is not yet due again, which takes an
`asleep_recheck_seconds` (300 by default) above the cooldown. It is about the
moment at which a restart begins: a sleep that comes while one is on its way is
not looked at.

### PowerDriver and WorkMode: setting the work mode

`PowerDriver` is an abstract specification: what a controller may rely on when
it asks a driver of `backends.py` for a mode. A command stays open while
something of it may still reach the miner, switches the mode only while open,
and is answered with success only while the mode is the one asked for.

`WorkMode` is `BitmainHttpBackend._set_mode`. Commands are numbered; each has a
caller (`answer`) and a worker thread (`stage`, `tried`) that goes on when the
caller gives up. The firmware may ignore a write, apply it, or accept it and
show it later (`late`), in any order.

| Action | Code |
| --- | --- |
| `Ask`, `GiveUp` | `_set_mode`: the worker is started; `wait_for` expires |
| `ReadConf` | the opening read of `_set_mode_blocking`, "already in the requested mode" |
| `Post`, `Verify` | the loop over the shapes: a POST, and `_verify_blocking` whatever its outcome |
| `LastLook` | the settle and the last `_verify_blocking` |
| `Stop` | the process is killed, or interrupted and drains its executor |
| `Show` | the firmware shows a write it accepted |

`Open` maps the state to `PowerDriver`: a command is open while its worker runs
or something it wrote does not show yet. `doubt` holds the commands a read left
in doubt and `rivals` the other commands that could have interfered; both are
history. Two assumptions concern the machine: the mode is changed by commands
only, and `settle_seconds` is long enough for the command's own writes to show
(`Settled`). The first is what makes `FailureStands` a statement about this code,
the second is what the setting is for.

### CommandDriver: commands on the API port

`Firmware` is the machine behind the port as the simulator `sim/miner_sim.py`
answers, with every switch of its command line (`Builds`), and a `restart` that
some builds implement. `CommandDriver` is what `CgminerBackend` and `recover`
send to it, one operation at a time. The answer to a command may be the one of
the firmware, a denial, garbled or lost (`Answers`), and a command whose answer
is lost may have arrived or not.

| Action | Code |
| --- | --- |
| `BeginChain`, `ChainAnswered` | `sleep`, `wake`: `_try_chain` |
| `BeginRecovery`, `RestartAnswered` | `recover`: `send_restart` and its escalation |
| `ProbeAnswered`, `RebootAnswered` | `reboot` of the Bitmain driver |
| `ByCheck`, `ByProbe`, `CandidateAnswered`, `UndoAnswered` | the diagnosis of `sleep-check` |

`done` is the history of commands the miner carried out, `unread` counts those of
them whose answer could not be parsed, `unanswered` says that one may have got no
answer.

### WriteShapes: the search for the shape of a write

`_diagnose_blocking` tries eight shapes of the configuration document until one
reads back as sleeping, and uses it to write the mode back. A page of
`WebPages` insists on a name of the field, a type, no nulls or an encoding, and
shows the mode in its own way. `Takes` says which documents it honours; the
code's side is `Document`. A write that is posted may land, land late or be
lost, its answer may break off, and every read may fail. `unsure` remembers
that a write landed unseen or late: about such a search nothing is claimed.

### MinerApi: one exchange and its reading

`request` sends `summary` and `read_frame` accumulates what arrives in any
number of segments, up to the terminator or the end of the stream, within one
budget; `classify_detail` makes a reading of it. The reply is `BodyLength`
pieces and perhaps a terminator. The firmware's answer is fixed when it answers
and the machine may change afterwards.

### ManualMaintenance: hand-started windows

The command line and threads of the dashboard rewrite one JSON file; the
service and the dashboard keep copies of it, keyed by its stamp.

| Action | Code |
| --- | --- |
| `BeginStart`, `BeginStop` | `start_manual`, `stop_manual`: `now` is taken first |
| `ReadRecords` | `_read_records`; what the call makes of it |
| `Stage`, `Replace`, `Refused` | `write_text_atomic`: the temporary file with its stamp, the rename, a rename that is refused |
| `Notice`, `Load`, `ReadFails` | `ManualWindows.get`: the stamp is taken before the text is read |
| `Dies`, `Restarts`, `ByHand` | a writer or a reader ends; somebody damages or removes the file |

The stamp is the pair (`st_mtime_ns`, `st_size`). A text gets one of its own, or
one that other texts have had (`Given`): two texts of one size written within
one tick of the file system share it, and `sim/miner_sim.py:31-33` tells of a
host where such changes "silently fail to apply". `shared` is the history of
those stamps. What `CacheFresh` and `EventuallyNoticed` promise does not reach a
file under one.

`promised` and `overtaken` are history variables: the windows as their calls
were answered, and the calls under which the file changed. A call that overlaps
another may undo it, since nobody locks the file; `Replace` takes only those out
of `promised`.

### ConfigEditor: miners.yaml

Pages load the file, edit it and save it, each save in a thread of its own, a
text editor beside them. A text stands for itself, its digest and the miners it
configures. Everything that other threads can come between is a step of its own:

| Action | Code |
| --- | --- |
| `Open`, `Save` | the handlers; a candidate that does not parse is refused |
| `Compare` | `save`: the digest of the file against the page's |
| `NameBackup`, `WriteBackup` | `_write_backup`: the first free name, and then the file |
| `ReplaceConfig`, `RenameRefused` | `write_text_atomic` |
| `ListBackups`, `PruneBackups`, `PruneRaises` | `_prune`: the list, and then the times of its members |
| `SwitchFleet` | `replace_miners` |
| `RestartDashboard`, `ForeignSave` | the dashboard stops and starts; somebody else writes the file |

Three history variables mark what the code cannot prevent: `raced` (in a page)
that the file changed after the comparison, `clashed` that a backup was written
over one of the same name, `apart` that file and fleet were set apart.

### FleetState and Alerts: what the dashboard knows and mails

`FleetState` is the dashboard's copy of the newest rows of all miners. `Look`
takes the lock and reads MAX(id), `Read` applies the rows up to it (`Apply` is
`_apply`) or loads everything (`Load`), so rows may be inserted in between, out
of time order. The table may be replaced by another file and the miners by
others. `IncrementalIsScan` says what the copy is without a fold.

`Alerts` is the monitor thread over it. A check reads the settings, refreshes
the copy, evaluates the four conditions (`Holds`, `Evaluated`), sorts them into
new, due and over (`Mail`), sends one mail and books it in memory and in the
state file. A mail that fails may have been taken; the state file may not be
writable; the dashboard may stop between mail and books. `told` is what the
operator has read, `amnesia` says that a mail went out that the state file does
not know. `falseClear` tells of the all-clears that were mailed for a condition
in force whether the monitor still looked at it ("in sight") or its kind had
been switched off or its miner taken out of the fleet ("out of sight").

### Hours and FleetConfig: what is written down

`Hours` translates `is_working_time` and the weekly and one-off maintenance
windows; `IsCovered` says the same of a circular week. `FleetConfig` translates
the merge of fleet, group and miner and the checks of each level;
`IsWhatWasSaid` says what an operator expects of it. The defaults are the
shipped ones in units of 300 seconds (cooldown 2, window 12, three restarts, and
3 for the least cooldown of `recover_with: auto`), so a policy the code refuses
against a default is refused here. Whether an accepted policy can latch is not
claimed: `watchdog_never_latches` shows one that cannot.

## Runs

| Run | What it asks | What it shows |
| --- | --- | --- |
| `watchdog_safety` | `TypeOK`, `AttemptsSpaced`, `RateLimited`, `LatchEarned`, `ConfirmedBeforeAttempt`, `WaitIsBounded` | cooldown, budget, ground of the latch, and a confirmation delay that counts no legitimate off-time and forgets no failure its four rows still reach; with a restart, a clear, rehearsing and live processes, working hours and the power-mode read |
| | `KeepsBudget` | the same watchdog implements `RestartBudget`, with a command under way at every moment at which a row, a crash or a clear may come |
| `sleeper_safety` | `TypeOK` and seven invariants | ownership of a stopped miner, doubt and wake, cooldown, retry limit, ground of the latch, and that a restart between any two polls changes no belief |
| `supervisor` | `RestartSparesSleepers` | with a sleep, a wake or a clear from another process at any moment of a poll, also between the power mode's answer and its use, a restart of the service and a cached power mode: no restart begins for a sleeping miner where the watchdog could have told that it sleeps, whoever slept it |
| `supervisor_wake` | `HandedToHuman`, `WokenOrReported`, `DeadIsReported` | with a hashrate that lags by the whole grace and a machine that may stop for good: a slept miner ends awake or with a human, a dead one with a human after `max_restarts` attempts, whichever controller owned it when it died |
| `drivers` | `TypeOK`, `SuccessStands`, `FailureStands`, `DriverSpec` | three commands of two processes over two shapes and one stop: the protocol implements `PowerDriver`, its successes stand, and so do the failures no read left in doubt |
| | `ShapesAreProven` | over every page of `WebPages`, all eight shapes and every failing write or read: the shape that is reported is the first the firmware takes |
| | `DisturbedOnce`, `DiagnosisWakes` | over every build and every lost, garbled or denied answer: a chain carries out one command for each answer that could not be parsed and one more at most, a recovery one; a diagnosis leaves a miner asleep only without a wake command, with one that is refused or not answered, or when the answer of the sleeping command was not read |
| | `ReadingIsTrue` | over every segmentation, close, break and timeout |
| `files` | `CacheFresh`, `PromiseKept`, `EventuallyNoticed` | two writers and a reader of the maintenance file, with a refused rename, a process that dies, a failed read, an edit by hand and two texts under one stamp |
| | `EditsAreSeen`, `OverwrittenIsKept`, `FleetFollows` | two pages, three saves, a text editor, and one refused rename or restart, with two backups kept |
| | `WalkKeepsItsPromise` | the single pass of the failure clock equals its promise on every log of up to four rows, with rows out of time order, equal times, gaps on both sides of the tolerance and a row limit below the length |
| | `HoursAreAsWritten` | every window of at most two days and two ranges over a day of four minutes, at every minute of the week |
| | `SettingsAreWhatWasSaid` | some 9000 combinations of what fleet, group and miner may say, accepted or refused |
| `alerts` | `IncrementalIsScan`, `SightIsNotCleared`, `AlarmsSpaced`, `LatchIsTold` | with every order of rows and refreshes, a page beside the monitor, a replaced table, a failing mail or save or a restart, kinds switched off and on, miners taken out of the fleet and maintenance |

The bounds are small because the controllers compare times only with their own
durations. Every run keeps the order of the real durations: a cooldown of two
polls, a window that holds the attempts of the budget but not one more, a grace
of at least the settling time, a clock long enough for the budget to be spent,
evicted and spent again. One crash is enough for a memory to be rebuilt from a
log another process wrote; `sleeper_safety` allows two, so that a torn latch can
be followed by another start. In `watchdog_safety` the answer about the power
mode outlasts the cooldown, so that a cached one holds a restart back or lets it
go, and the failure clock reads back four rows, so that a clear and a poll that
was lost with its process push a failure out of its sight: without the exemption
of `ReadFor` the run violates `WaitIsBounded`. The other runs of the watchdog
read every row there can be. Its constraint `ClearsFollowActs` looks at clears
of a miner that was restarted, or rehearsed to be: the command writes its row
unconditionally, but an earlier one has no attempt to forgive, and the theorems
have every clear. Three commands are one more than it takes for an abandoned
worker to undo a later command and for a third to meet both; two shapes are
enough for one to fail before another, and `WriteShapes` has them all. Two
writers and two pages are the least that interfere, and one shared stamp is
enough for a reader to take one text for another, and the proofs do not depend
on their number. Two backups and three saves are the least at which pruning
removes one that was listed by somebody else; with one backup a clash of names
could not be told from a prune. Three rows are a decision, one that takes it
back and a poll between or after them; the monitor's bugs need a mail, a trouble
and a second mail, which three ticks with reminders every second one allow. A
behaviour of `alerts` has one family of rows: every kind and every reader for
the copy, latches or sleeps for the mails, and one of each while kinds are
switched off and on and the fleet of two miners is replaced. A day of four
minutes has ranges that end, begin and meet at midnight.

The clocked runs stop at `MaxClock`; `HorizonReached` is a stutter that keeps
the end of the horizon from counting as a deadlock, so a state in which the
service can do nothing before it is reported. Subjects that are only looked at
(`Consulted`) stutter for the same reason. The runs over `MCDrivers` switch the
check for deadlocks off: every operation may be over.

Under `FairService` of `Supervisor` the clock ticks, polls happen, awaits return
and the service is started again. The code justifies each: `run` polls in an
endless loop and catches what a poll raises, every read of a miner and every
command has a timeout, and `scripts/install-task.ps1` registers a task that
restarts the service. `FilesSpec` lets every reader of the maintenance file poll
again and again, which is the same loop. `Fairness` of `Alerts` says that the
monitor's loop checks again (strongly, since a page may hold the lock whenever
it is looked at, but not always), that a mail ends within its timeout and that a
page lets go of the lock. Nothing forces a crash, a clear, a command, a row or
an edit. Liveness over a bounded clock is only worth something if the clock
cannot run out first: `PromptPolls` lets no tick pass without its poll, and
`MaxClock` exceeds the ticks that cooldown, delay and every bounded crash can
use up, so an eventuality that holds does so before the horizon. The liveness
properties of `files` and `alerts` do not need the clock to advance.

## Where the code differs from what it says

Five runs end in a violation, each of one property:

| Run | What happens |
| --- | --- |
| `watchdog_never_latches` | A policy `config.py` accepts, `cooldown * (max_restarts - 1) < rate_window < cooldown * max_restarts`, restarts a dead miner for ever: the cooldown is judged before the limit, and by then the oldest attempt has left the window. |
| `watchdog_cleared_budget` | One `attention_cleared` row, however old, makes every later start of the service trim the deque again, so each restart of the service hands back an attempt. |
| `sleeper_slow_stop` | A sleep takes, its acknowledgement is lost, the next poll still reads hashrate: the doubt is dropped and the miner sleeps through its window. |
| `sleeper_hollow` | The count of ineffective sleeps is not hydrated, so a service restarted in time never calls a human for a firmware that only acknowledges. |
| `shapes_not_restored` | The diagnosis of write shapes on a miner that is asleep: the first accepted shape "works", `normal` is written, and the miner is left awake. |

The models also show the following, for which no run is kept. The properties
are worded so that they hold beside them.

- `clear-attention` beside a running service (`cli.py:944`) clears the log, not
  the service's memory; it keeps declining until it is restarted.
- A service that stops during `recover` (`watchdog.py:434`) or during a driver's
  command (`sleeper.py:421`) leaves no row. The restart counts for neither
  cooldown nor budget, and a sleep that took is not woken. `lost` marks both.
- `MAX_CLOCK_ROWS` (`watchdog.py:250`) caps the lookback at 5000 rows. A delay
  that fills more than those never ends. `WaitIsBounded` exempts a failure from
  the moment it is no longer read back.
- `sleep` and `wake` beside a running service (`cli.py:317`) are unknown to it
  until it is restarted. A miner that is slept between its answer about the
  power mode and the restart (`backends.py:430`, `watchdog.py:407` to `434`) is
  restarted, and so is one that is slept under a cached answer that
  `asleep_recheck_seconds` lets outlive the cooldown: the answer that let one
  restart go then lets the next go too.
- A POST whose reply breaks off while it is read (`backends.py:665`) raises
  `http.client.IncompleteRead`, which is no `OSError`. It reaches the `except` of
  `_set_mode` and the command fails without the verifying read that the comment
  at `backends.py:849` demands for a POST that errored (`Raises`).
- A reboot whose connection drops while its answer is awaited is reported as
  failed although it was sent, and one that was never sent as a success
  (`backends.py:512`).
- A chain goes on to its next command when the answer of one cannot be parsed
  (`backends.py:287`), although the miner may have carried it out.
  `DisturbedOnce` counts one command for each such answer.
- The cgminer diagnosis takes any reply to its undo for the end and reports a
  refused one as sent (`backends.py:244`), and passes over a candidate whose reply
  was lost (`cli.py:739`: "anything sent is undone"). `DiagnosisWakes` names these
  cases, in which the miner is left asleep.
- The shape search restores with the type it last read, not with the one of the
  shape that worked, and does not look whether that took. On a firmware that shows
  strings and honours numbers the miner is left asleep.
- Two saves of the editor within one second may find the same free name for
  their backup (`config_editor.py:302`), and the later destroys the earlier
  (`clashed`). A save that loses the pruning to another raises after it has
  replaced the file, so the fleet is not switched (`apart`). Comparison and rename
  are two steps, so an edit made between them is overwritten (`raced`), which
  the module's docstring excludes.
- The maintenance file is rewritten without a lock: of two overlapping calls one
  may undo the other (`promised`). A good file whose read failed once is not read
  again until its stamp changes, and the error stays. A text that has the
  modification time and the size of the one before it (`maintenance.py:408`) is not
  noticed at all (`shared`).
- `FleetState` takes latches and decisions by row id, the controllers by
  (ts, id): with rows out of time order the dashboard may show another latch
  than the service holds, although `web.py:167` says it follows the same rules.
- With `on_supervisor_stale` off, a supervisor that stopped lets the condition
  `down` lapse, which is mailed as resolved. `SightIsNotCleared` is about the
  other two conditions of a miner.
- A condition whose kind is switched off in the settings, or whose miner leaves
  the fleet, is no longer evaluated (`alerts.py:164`, `172`) and is mailed as
  resolved while it is in force (`alerts.py:330`); "Email again when it clears"
  is what the settings page says of that mail (`web.py:874`). `falseClear`
  records it as "out of sight".
- A wake that is acknowledged and does not take is not tried again; the miner
  is left to the watchdog, whose power guard holds it back.

## Proofs

Every theorem holds for every value of the constants that satisfies the
assumptions of its module, and follows from the specification and these alone:

| Module | Assumptions |
| --- | --- |
| `WatchdogProofs` | `WatchdogConstants` (types), `PolicyAccepted` (the refusal in `_parse_watchdog`) |
| `SleeperProofs` | `SleeperConstants` (types) |
| `SupervisorProofs` | those of the sleeper, `SupervisorConstants` (types), `RestartPolicyAccepted` (the same refusal) |
| `DriverProofs` | `WorkModeConstants`, `ChainConstants`, `ApiAssumption` (types), and what `DiagnosisUndoes` assumes itself |
| `AlertsProofs` | `FleetConstants`, `AlertConstants` (types) |
| `ManualMaintenanceProofs` | `MaintenanceConstants` (types) |
| `FilesProofs` | `EditorConstants`, `DayAssumption`, `ConfigAssumption`, `ClockBounds` (types) |
| `EventLogProofs` | none |

### Logs and the failure clock

`EventLogProofs` has what the others need to know of a log: what an append does to
the rows a query selects, that the newest row of a kind is one of them and, in a
log in time order, the last one. The watchdog's attempts and latches use the
first fact only and need no order; the sleeper's proofs need it.

- `WalkKeepsPromise`: for every log of any length, every row limit and every
  rules that keep the kinds of evidence apart (`RulesApart`),
  `failure_clock_start` returns what its docstring promises.
- `SubjectsStay`, `WalkKeeps` of `FilesProofs`: the logs of the run `files` are
  such logs however many rows they get (`LoggingKeeps`), so `WalkKeepsItsPromise`
  holds beyond its bounds.

The walk and the queries are recursive functions. `Recursion` gives the function
that follows given steps, and `SetInduction` is induction over the set where a
statement holds; they replace the library's theorems with an operator as a
parameter. `PlacedInOrder`, `UntilNow` and `HistoryReadsBack` say that the
query returns the newest rows in time order. `WalkedIs` carries an invariant of the
loop through the walk: `RunAfterRow` and `ClockAfterRow` say what one row does to
the run of mining and to the clock. `ClockSays` and `ClockWaits` say in terms of
recorded times what a clock that reads so means.

### Watchdog

- `TypeCorrect`: `Spec => []TypeOK`.
- `InvariantHolds`: `Spec => []IInv`.
- `Spacing`, `RateLimit`, `EarnedLatch`: `AttemptsSpaced`, `RateLimited` and
  `LatchEarned` of `watchdog_safety`, and `Quiet`: no command is under way while
  the log says that the miner waits for a human. All from `IInv`.
- `BudgetIsKept`: `Spec => KeepsBudget`, the refinement of `RestartBudget`.

None of these is inductive: the log alone does not say why the next attempt
is allowed. `IInv` adds what the memory of a running service owes to the log.
`DequeIsBacked`: a live deque holds recorded attempts only. `NewestIsKept`: an
attempt that could still be cooling down is in the deque or is followed by one
that is; eviction, the trim after a clear and the hydration all keep the newest
entry. Here `PolicyAccepted` matters, it makes the window longer than the
cooldown whenever an attempt could be evicted. `WindowIsKept`: unless a clear
trimmed it, the deque holds every attempt of the window. `LatchIsKept`: a
latch in the log is held in memory. `FunnelStillHolds`: what the funnel
established before the first await is still true after it, under the poll's
time, whatever other processes wrote meanwhile. The proof has one lemma per
action. Most actions add only a row that no query of the properties selects,
and one lemma (`PlainStep`) does for all of those.

The refinement has one lemma for each abstract action. `ActuateBegins` is its
heart: the guards of `Begin` are `FunnelStillHolds` of the state the step leads
to, that the service has charge follows from `LatchIsKept` and the flag in
memory. `LatchHandsOver` counts: the deque at the limit is part of the
recorded attempts of the window, and the new row is newer than every clear.
Polls that decide nothing, starts and rehearsals are stutters (`PlainBudget`).

- `ClockInvariantHolds`: `Spec => []ClockInv`.
- `AttemptsAreConfirmed`: `ConfirmedBeforeAttempt`.
- `WaitsAreBounded`: `WaitIsBounded`, for every row limit.

`ClockInv` ties the clock to what polls have recorded. `OnePollATick` says that
no tick holds evidence of two kinds, so that the times of the rows, in which the
properties speak, tell them apart. `AttemptIsConfirmed` carries over both awaits
what the clock said when the poll judged: a failure recorded at least
`FailAfter` ago and no off-time since. It is needed because rows are recorded
with the poll's time, behind the clock. A wait is judged by the rows there were
when its poll read them: `Sure` says of one row that its wait had a reason, and
`WaitsStay` that later rows take nothing from it, since a log only grows
(`GrownFrom`). `ClockSays` and `ClockWaits` of `EventLogProofs` connect it to
the walk.

### Sleeper

- `TypeCorrect`: `Spec => []TypeOK`.
- `InvariantHolds`: `Spec => []IInv`.
- `SleptStaysOwned`, `RestartIsHarmless`, `CooldownSeparates`,
  `WakesAreJustified`, `FailuresEnd`, `HumanIsCalledForCause`: six properties of
  `sleeper_safety`, from `IInv`.
- `DoubtIsResolved`: the seventh, `DoubtfulIsWoken`, for every lag of the
  hashrate and every fault, but for one case: the doubt about a sleeping miner
  was dropped on a reading that showed it hashing, and has not come back. That
  is what the run `sleeper_slow_stop` finds. `WatchedSpec` is `Spec` with a
  history variable for it (`misread`), which no action reads.

All of them are about the service with no other process beside it, as `Spec` of
`Sleeper` has none. A command from another process leaves the running service
with beliefs that the log no longer backs; what still holds then is said of
`Supervisor`.

The heart of `IInv` is `BeliefsAgree`. For a live service, every field that
steers the funnel is what `Hydrated` would compute from the log, except that
only memory may have dropped a doubt or a spin-up. It needs `LogInOrder`,
since a row is the newest of its kind only if nothing later is in the log, and
`FunnelStillHolds`, which carries the cooldown, the latch and the reason for
the command over the await. `CooldownIsKept` is separate because rehearsing
services move the cooldown in memory and not in the log.
`FailuresAreLatched` gives `GivesUp` its one lost failure per torn latch, and
`IneffectiveIsCounted` bounds the counter, which no start rebuilds, by the rows
in the log; the ground of a latch needs no more. In the proof, `Sound` says the
same of any memory and any log: `SeenSound` and `JudgedSound` take it through
the steps of the funnel, `SoundAfterPoll` turns it into `IInv'`, and each action
is a short lemma between the two. `DoubtIsFounded` is the further conjunct of
`DoubtIsResolved`: a doubt that was dropped was dropped for a miner that is
awake, or misread.

Both `IInv` and `DoubtInv` were model-checked, with the constants of the safety
runs, before they were proved.

### Supervisor

- `ServiceInvariant`: `ServiceSpec => []ServiceInv`.
- `WatchdogKeepsItsWord`: `AttemptsSpaced`, `RateLimited`, `LatchEarned` and
  `QuietWhileLatched` of the watchdog inside the service.
- `BudgetIsKept`: the service implements `RestartBudget`.
- `ClockKeepsItsWord`: its `ConfirmedBeforeAttempt` and `WaitIsBounded` there too.
- `SleepersAreSpared`: `RestartSparesSleepers`, for every recheck interval.

`ServiceInv` is the watchdog's `IInv` over the variables of the service,
`ProbeInv` and `QueryInv`. A poll of the service reaches the watchdog or ends
with the sleeper, so every step is one of the watchdog or leaves what `IInv`
speaks of alone; the lemmas of `WatchdogProofs` do the rest. They are used
through an instance whose operators are the same as those of `Supervisor`'s own
instance of `Watchdog`; the lemmas with `Same` in their name say so.
`AwakeIsSpent` of `ProbeInv` is the reason a cached answer "awake" starts no
second restart: what it let go is under way, or in the deque, or older than the
cooldown. So when the cooldown ends it is due again, or it is the third of the
cases that `NobodyCouldTell` names. `QueryInv` gives the second: an answer
"awake" that waits for its poll is true, or the miner was slept since. Nothing
is needed of the sleeper's beliefs, so no command of another process can spoil
it. `ClockInv` is preserved by the same division of the steps: a poll that the
sleeper owns tells the failure clock of one reading, as a poll of the watchdog's
own does (`UnjudgedKeepsClock`).

### WorkMode

- `TypeCorrect`: `Spec => []TypeOK`.
- `Refinement`: `Spec => DriverSpec`, the initial state and every step mapped by
  `Open`.
- `SuccessIsKept`, `FailureIsKept`: `SuccessStands` and `FailureStands`.

They assume `WorkModeConstants` only and hold for any set of commands and
processes. `WorkersFit` ties what a caller was told to the stage of its worker
and bounds the shapes; with the types it gives the refinement (`StepRefines`).
`RivalsAreKnown` says that whoever may still switch the mode is a rival of every
answered command. It and `SuccessStands` are preserved by every step of
`PowerDriver`, so their proofs never look at the worker. `FailureStands` needs
one fact about it, `FailedIsOver`: a command that failed beyond doubt is no
longer open, since it fails only at its last look. These invariants, too, were
model-checked first.

### CommandDriver, MinerApi and WriteShapes

- `CommandsDisturbOnce`: `DisturbedOnce`, for chains of any commands: at most one
  for each answer that could not be parsed, and one more.
- `DiagnosisUndoes`: `DiagnosisWakes`, if no wake command of the configuration
  is accepted without waking (`WakeChainWakes`), which nothing in the code
  checks. The cases in which the miner is left asleep are in the property: no
  wake command, a refused one (reported as sent), none that was answered, a
  sleeping command whose answer was not read.
- `ReadingsAreTrue`: `ReadingIsTrue`, for replies of any length.
- `ShapesProven`: `ShapesAreProven`, for every page of `WebPages`.

`CommandInv` says of every stage of an operation what it can have done so far:
no more than the answers it could not parse (`unread`) while it still looks for
a command that is accepted. `ApiInv` says that what was read and what is on its
way are together the rest of one reply (`UnderWay`), which the machine wrote
about itself. `ShapesInv` says at every stage of the search which shapes are
settled: those before the one in hand are not taken (`NoneBefore`), the one in
hand is settled by what was read back after it (`Established`). It needs that
whether a page takes a shape depends on what the configuration showed first and
on nothing the search has written since (`TriedStays`).

### ManualMaintenance

- `InvariantHolds`: `Spec => []IInv`.
- `TrustedIsFresh`, `AnswersStand`: `CacheFresh` and `PromiseKept`.

They assume `MaintenanceConstants` only, and hold for any set of writers and
readers, any number of calls and faults and any way the file system gives out
stamps. `FileIsKnown` and `StampIsOwn` say that the stamps of the file and of
temporary files were all given out, and that nobody else holds the one of a
temporary file, which its rename makes the file's, unless several texts have had
it. `CallIsSound` ties the copy a call works on to the file unless the call was
overtaken, and needs no stamp, so that a call that overlapped nobody keeps every
promise; `CopyIsSound` ties the copy of a reader to the file under a stamp that
one text only has had. What a writer does to the file is one lemma (`CallGoesOn`
for the steps that leave it alone), and one per action.

### ConfigEditor

- `InvariantHolds`: `EditorSpec => []IInv`.
- `NoUnseenOverwrite`, `Restorable`, `FleetMatches`: `EditsAreSeen`,
  `OverwrittenIsKept` and `FleetFollows`.

They assume `EditorConstants` only: any number of pages, saves and restarts, any
`KeepBackups`. `SeenOrRaced` says that what a save has in hand is still what is
on the disk, or it was overtaken. `BackupsAreOrdered` makes the order of a backup
its own. `BackupsAreKept` says that the backup of a save about to replace the
file, and of every text that was replaced, is there, clashed or is old; pruning
preserves it because a backup it removes has `KeepBackups` later ones
(`SurplusIsOld`, by counting). `FleetIsKnown` says that while nothing set the
two apart at most one save is landing, and it wrote what the file says.

The invariants of both were model-checked before they were proved.

### Hours and FleetConfig

- `WeekIsACircle`, `HoursAreKept`: the code that looks at the day and at the day
  before agrees with the circle of the week, for windows of any days and ranges
  and a day of any length; so `HoursAreAsWritten`.
- `NearestIsInForce`, `SettingsAreKept`: in every configuration that is accepted
  each setting of each miner is the nearest that is said of it; so
  `SettingsAreWhatWasSaid`.

The first rests on `Since`, what is left of the minutes since a range began when
whole weeks are taken off, and `Begun`, a case for each day between. The second
goes level by level: `WatchdogLevel` and `SleepLevel` say what a block that is
accepted makes of what it is laid over, `BaseIs` over what a miner's block is
laid, `NearestIs` at which level a setting is said, and `IdsAreOnce` that an
accepted file has one miner of each id. `ConfigurationsAreFiles` brings the
configurations of the run under it.

### Alerts and FleetState

- `BooksAreKept`: `AlertsSpec => []AlertsInv`.
- `AlarmsAreSpaced`, `FalseClearsAreUnseen`: `AlarmsSpaced`, `SightIsNotCleared`. A
  false all-clear is only mailed for a kind that is switched off or a miner that
  left the fleet.
- `FleetInvariant`: `AlertsSpec => []FleetInv`.
- `CopyIsAScan`: `IncrementalIsScan`.
- `ClearsAgreeWithTable`: for a kind that is watched and a miner of the fleet,
  an all-clear for a latch or for an uncertain sleep is mailed only when the
  table, read up to `last_id`, has none, unless the file was replaced unnoticed.

`AlertsInv` says that until the books are lost the state file agrees with the
memory (`FileAgrees`), the memory with the last mail (`BooksAgree`), and the
mail being sent with the memory (`MailAgrees`). `FleetInv` adds to
`IncrementalIsScan` the types and that the reader with the lock has read an id
of the table. The heart of its proof is one row: `PollNext` and `DecisionsNext`
say that `_apply` turns what a scan up to a row shows into what a scan one row
further shows. Induction over the rows makes `AppliedShows` (a refresh) and
`LoadShows` (a full load, which applies the polls after the decisions) of it.
`SameRowsShowTheSame` says that rows inserted later change nothing below
`last_id`. `ClearsAgreeWithTable` is both halves together, the monitor and the
copy it trusts.

### Only model-checked

- Liveness under fairness: `WokenOrReported`, `DeadIsReported`,
  `EventuallyNoticed`, `LatchIsTold`. The prover has no rules for it.
- `HandedToHuman`: it depends on the run's policy and schedule. With another
  accepted policy (`watchdog_never_latches`), or a pause between the restarts that
  is as long as the window, the miner gets attempts back. What holds of
  every policy is `RateLimited` and `LatchEarned`, which are proved.

## Not modelled

`PROJECT.json` gives what is left out of each component. In short: formatting
of reports, pages and mails, argument parsing, logging, HTTP and digest
authentication, the schema migration, payload rendering and the Windows scripts;
none of them keeps state the components rely on. The checks of single
configuration values are left out, and so are the fields of a miner's
configuration beside the work mode. The polls of several miners share nothing
but the table, so every controller is modelled for one.

## Plan

Every component that keeps state the others rely on is modelled, and every safety
property of the controllers is proved. What would add to it, in this order:

1. Which of the sleeper's promises survive commands of other processes, from
   an invariant that does without `LogInOrder`.
2. An abstract specification of the sleeper beside `RestartBudget`: who owns a
   stopped miner.

The number of runs stays small: new modules take over the questions of the runs
they make redundant.
