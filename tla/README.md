# ucmon in TLA+

ucmon is a terminal monitor for small Linux boards, with an optional
Prometheus exporter (`src/`, Go). This directory holds TLA+ models of the
parts whose correctness depends on the order of things: the alert engine, its
delivery and what feeds it (trends, kills, the kernel log, mounts), the
scheduler of the probes, the samplers' counters, acting on processes while PIDs
are reused and rows move, the exporter's shared snapshot, the history file, the
hardware keys and the configuration. Each model is checked by TLC on a small
instance; every safety property the passing runs check is also proved by TLAPS,
for every value of the constants.

    tlc -config MCAlertEngine.cfg MCAlertEngine     # a run
    tlapm Alerts_proofs.tla                         # the proofs of a module

`PROJECT.json` lists components, runs, mutants, hazards and theorems, and maps
every definition to the lines it models.

## The system

One goroutine, the Bubble Tea event loop, owns the `Model`; `Update`
(`internal/ui/model.go`) handles one message at a time. Everything slow runs
in a goroutine of its own (a `tea.Cmd`) and comes back as a message. Next to
the loop there are the hook worker, the goroutine of a collection in the
exporter, and the exporter's HTTP handlers.

| component | state | operations | talks to |
|---|---|---|---|
| alert engine (`alerts.go`) | active conditions with damping counters, bounded log | `update`, `clearLog`, `summary`, `activeList` | called once per tick with `currentAlertConds` |
| alert delivery (`alerts.go`) | hook channel, worker, log file | `handleAlertEvents`, `enqueue`, worker loop, `appendAlertLog` | gets the engine's events; starts `alert_cmd` |
| fetch scheduler (`behind.go`, `model.go`) | in-flight guards, tick counter, pause, `m.err`, the log follower's error count | `Init`, tick, `queue`, `queueUser`, every reply, keys | launches every probe; results become messages |
| process actions (`detail.go`, `model.go`, `probe/procs.go`) | list rows, overlay, kill prompt | list walk, detail fetch, `apply`, signal, renice | the kernel, which reaps and reuses PIDs |
| exporter (`exporter.go`, `once.go`) | cached model, its time, the running collection's channel | `snapshot`, collection goroutine | HTTP handlers share it |
| OOM tracker, kernel log (`oom.go`, `kernlog.go`, `probe/kmsg.go`) | last counter, events, victims; groups, error count | `observe`, `addVictim`, `named`, `conds`, `handleKmsg` | fed by memory and log replies, give alert conditions |
| conditions and trends (`alerts.go`, `trend.go`) | windows of samples | `currentAlertConds`, `trendConds`, `recordTrend` | read every reading, feed the engine |
| history (`history.go`), lifecycle (`cmd/ucmon/main.go`) | a file | save, load, `runTUI` | written at exit, read at start |
| process list view (`model.go`) | query, sort, tree, cursor, viewport | recompute, follow, keys | the cursor picks the target of process actions |
| samplers (`probe/*.go`) | previous counters, mounts seen read-write | `Sample` | called by fetches and by the exporter |
| hardware keys (`model.go`, `probe/backlight.go`, `cpufreq.go`) | brightness and governors shown | `adjustBacklight`, `cycleGovernor` | sysfs, other programs, rounds in flight |
| configuration (`config/`) | thresholds, intervals | load, `Sanitize`, calibration | read by all |
| rendering, exports, doctor, navigation | views, overlays | drawing, formatting | read the model |

What is hard here, and what each part must get right:

* **Alert engine**: two damping counters that interact, Go maps ranged over in
  any order, a log trimmed in the middle of a tick. What was announced must be
  what is active; a condition that is over must not stay announced; nothing may
  be announced twice.
* **Delivery**: the UI enqueues while the worker takes; the queue fills, hooks
  hang, fail and time out, writes fail half way, the process exits. The outside
  must end up with the engine's view, but for events that were lost.
* **Scheduler**: replies in any order and after any delay, rounds launched with
  and without the guard that all clear it, disabled probes, error replies,
  pause. No probe may be silenced for good and none may pile up.
* **Process actions**: a PID may be reused between any two system calls, while
  a prompt is up, while a fetch is in flight. Nobody else may be signalled.
* **Exporter**: scrapes race with each other, with the timer, with the end of
  a collection and with collections that never end.
* **OOM and kernel log**: late and out-of-order counter readings, the same kill
  told by counter and log, keys that repeat, windows.
* **History**: power cuts between write, rename and sync; two instances.
* **List view**: the list is re-sorted, filtered and capped under the cursor;
  parents may form a cycle. Every process wanted is listed, the cursor keeps to
  its process, and the row marked is the one the next key acts on.
* **Samplers**: overlapping calls, counters that wrap or restart, items that
  come and go, mounts that change between two reads. Nothing is reported twice;
  a remount alarm has a reason and is not lost.
* **Trends**: gaps (a suspend, a pause, a missing reading) and too few points. A
  rate is taken over a stretch it stands for, and nothing steady raises an alert.
* **Hardware keys**: roundings from percent to raw steps and back, writes that
  fail half way. A key gets somewhere; policies stay together.
* **Configuration**: repairs made one after the other, and the board's trip
  points on top. No threshold on RAM, swap, disk, load, packet loss or pressure fires
  always or never; colours and alerts agree.

The full list of hazards, each at its line and with the properties that cover
it, is in `PROJECT.json`.

## Modules

### AlertPromise, AlertEngine

`AlertPromise` is what the rest of the program relies on, for each key on its
own: a rise in severity is announced at once; a fall is announced after at
least `MinCalm` and fewer than `MaxCalm` updates in a row below the announced
severity.

`AlertEngine` is `alerts.go:20-190`. `active` is the Go map of `activeCond`
(a missing key has severity `Silent`), `log` and `events` are the log and the
slice `update` returned. `Update(conds)` is one whole call of `update`: every
key steps by `NextActive`, whose cases are the Go `switch` and the second
loop; the events come in any order with raises before clears, which is what
ranging over maps allows; `Push` trims the log. `announced` and `stale` are
history: they follow the events, never `active`, so relating them to `active`
says something. Texts are numbers, ordered like the strings they stand for.

Checked by `alert_engine`: two keys, three texts, `ClearTicks` 3 (so that both
counters can be half-way at once and a wobble between them takes several
rounds), a log of two lines (so that one tick can overflow it); any sequence of
conditions. `stale` saturates at `ClearTicks^2`, which `StaleBounded` says is
never reached. `StaleBounded`, `NoEcho` (no event repeats the one before it of its
key) and the types are shown by the proofs alone.

* `ShownAsAnnounced`: events, active set and texts agree (`AnnouncedIsActive`,
  `TextFitsSeverity`).
* `LogTellsActive`: the newest line of a key in the bounded log is not
  contradicted by the active list.
* `KeepsPromise`: the refinement of `AlertPromise` with
  `MinCalm = ClearTicks` and `MaxCalm = ClearTicks^2`. The square is the code's
  real bound, not a generous one: a condition that is damped at a lower
  severity `ClearTicks - 1` times, with `ClearTicks - 1` absences in between
  each time, keeps its CRIT that long. (`activeCond.lower` is documented as
  counting *consecutive* updates, `alerts.go:59`; an absence does not reset it,
  and that is what makes the bound finite.)
* `BannerIsListHead`: `summary` picks the head of `activeList` for every order
  of the map.

### AlertDelivery

Extends `AlertEngine` with `handleAlertEvents`, the log file and the hook
queue. A tick of the program is `Tick`: the engine's update followed by the
write of the log file, which may fail after any number of lines. The events are
then enqueued one at a time (`Enqueue`) while the worker takes them (`TakeJob`,
`HookDone`, `HookFailed`), so which events a full queue drops depends on the
interleaving, as it does in the code. `Quit` exits between two messages without
draining. `outside`, `filed`, `behind` and `unfiled` are history.

Checked by `alert_delivery`: two keys that clear at once, a queue of two (64 in
the code), at most three ticks with events (`MaxTicks`): enough to fill the
queue, to drop, and to deliver a CLEAR after its RAISE. Fairness: the UI
finishes its handler and the worker takes and finishes jobs (each hook is
killed by `alertCmdTimeout` and `WaitDelay`). Deadlock is not checked: the
program may have exited.

* `OutsideAgrees`: of each key, the newest event on its way, or else the last
  one delivered, tells the engine's severity, unless the newest was lost; and no
  more events wait than the channel holds.
* `FileAgrees`: the same of the log file.
* `Settles`: once events cease, everything accepted has been told.

### FetchGuard

The tick, `Init`'s priming fetches, the in-flight guards and all replies
(`behind.go`, `model.go:413-558`, `747-987`). `running[k]` counts the
goroutines of a kind, guarded or not; `inFlight[k]` is the guard. A reply may
come at any time and clears the guard whichever round it belongs to, as `done`
does. Kinds with the same rate and rules are interchangeable, so the instance
holds one of each sort: cpu and memory (fast; cpu clears `m.err`, memory goes
on while paused), processes and a disabled ping (process rate), gpu/soc (slow,
and refreshed by keys), the kernel log (not primed, gives up after failures,
goes on while paused) and the detail overlay (launched by keys without asking
the guard). The tick counter is kept modulo `procEvery * slowEvery`, which is
all it is used for. The header's lateness badge is left out: nothing reads it.

Checked by `fetch_guard`: `procEvery` 1, `slowEvery` 2, two failed log reads
to give up (five in the code), at most `MaxDetail` = 1 detail fetch at once.
Fairness: the timer fires and every fetch but the process walk comes back; the
walk may hang for ever, which is the case `DESIGN.md:694` gives for the guards.

* `GuardIsAnswered`: a guard that is up has a goroutine that will clear it.
* `NoRoundTooMany`: at most the guarded round and the one `Init` launched
  (`RoundsBounded`), and of the kernel log none after it was given up: it is not
  read or closed again (`KmsgClosedIsQuiet`).
* `EventsFlow`, `OthersKeepSampling`, `ErrorClears`: the event streams go on
  through pauses; a hung walk holds up nothing else; an error line goes away.

`fetch_overlap` shows what does *not* hold: that a round is never dispatched on
top of one still running (`behind.go:69-72`, `model.go:413-416`,
`DESIGN.md:707-709`). `Init`'s rounds are outside the guard and the first tick
comes one fast interval later.

### ProcActions

The Processes tab against the kernel: `proc[p]` is the start time of the live
process with PID `p`; `Exit` and `Spawn` happen between any two steps. The walk
of `/proc` is read and lands later. A detail fetch is its four stages
(`GetProcDetail`: open, first start time, fields and second start time, reply),
two of them in flight; `own` remembers, as history, whether the overlay that
launched it is still open. A signal is `pidfd_open`, `checkStart`, send; a
renice is `checkStart`, `setpriority`; the UI handles no message meanwhile.
`pidfdOK` is chosen once: without it the code falls back to check-then-kill.

Bounds: one PID with three processes in a row (`MaxStart`: the one picked, a
stranger, and a stranger's successor), two detail fetches (one of a closed
overlay and one of the open one), symmetric in the fetches. PIDs do not
interact except through the prompt and the overlay, which name one PID; the
proofs hold for any number of all three. A read of `/proc` is taken to fail only
when the process is gone, and list rows have a start time (`readProc` gives
none without).

* `SignalNeverStrays`: with pidfds a signal reaches the process picked or nobody.
* `StandingNeverHit`: without them, and for renice, only a process that started
  after the key press can be hit in its place: the windows of
  `procs.go:512-515` and `procs.go:580-581`, not the minutes of a prompt. The
  repository's README (line 11) says of every signal and renice that it "can never"
  land on a process that inherited a PID; `DESIGN.md`, `ROADMAP.md` and the comments
  at those lines admit the windows, and the property follows them.
* `VouchedDataIsOurs`, `OwnGoneIsTrue`: what the overlay shows. That a frozen
  overlay stays as it is (`GoneIsFinal`) is shown by its proof.

`proc_unvouched` shows that the overlay can display an unrelated process: the
first start-time read of `GetProcDetail` drops its error, and a start time of 0
passes both later checks. `OwnGoneIsTrue` speaks only of the overlay's own
replies: a failed reply of an earlier overlay, on the PID's previous process,
does freeze a new overlay of a live one.

### Exporter

`Exporter.snapshot` with its collection goroutine. A section under `e.mu` is a
step (it is short and waits for nothing); publishing and closing the channel
are two. Time is ages: `stamped` (since `lastAt`), `taken` (history: since the
readings were begun), `elapsed` and `waited`, advanced together by `Clock`.
A collection may take any time or never end.

Bounds in `exporter`: two scrapes, three collector identities (one collecting,
one about to close its channel, one spare for a faulty second start), units of
time in which `MinInterval` is 1 and `Wait` 2 (5 s and 8 s), ages that saturate
at `MaxAge` 3, past which nothing depends on them. Serving a fresh cache changes
no state and is a stutter. Fairness: time passes, a runnable handler runs, and a
collector that has published closes its channel; never that a collection ends.

* `OneCollection`, `WaitIsAnswered`, `ScrapeAnswered`: stuck probes cost one
  goroutine and no scrape, and nobody waits on a channel nobody will close.
* `NeverOlder`: the cache is not replaced by older readings. That "no snapshot
  yet" is only said when it is true (`NoSnapshotIsTrue`) is shown by its proof.

`exporter_age` shows that the age served is not that of the readings: it is
counted from the end of the collection.

### MCSubsystems: ten parts side by side

The ten modules below share no state in the code either: what one gives another
is a reading or a condition, which each model takes as an arbitrary input.
`MCSubsystems` puts them into one instance. A behaviour picks one part at the
start and only that part moves, so a run explores the sum of their states and not
their product; each module has its own `Init`, `Next` and specification, about
which the proofs are, and of which each behaviour of `MCSubsystems` is one
(`PartsWithin`). The run `subsystems` checks all of them with the bounds
below, each property being a sentence about one part; `SubsystemsTypeOK` joins
the type invariants. Deadlock is not checked: parts stop at their bounds.

**OomTracker** (`oom.go`, the memory rounds of `model.go` and `probe/mem.go`,
`handleKmsg`). A memory round stamps the time and reads the counter in two steps
(the paused counter read in the other order) and lands when it lands; two can be
in flight, as `NoRoundTooMany` allows. The kernel kills, counts and logs.
Bounds: one kill before the start and two after it, two rounds, two events kept,
a window of one unit of time, so that events leave by age and by number.
`KillsAccounted`: the session count loses no kill the counter told of, and counts
none of them twice unless a reading landed after a larger one. `NewKillsRing`: a
new kill has a key of its own, even after the counter seemed to go backwards.
`NamedOnce`: a victim is named under one kill.
What does *not* hold, by the code: after a late reading the next rise counts its
kills again, which is why `KillsAccounted` allows it then; and without any late
reading a kill is counted twice whose log line is handled before the first memory
sample lands, if that sample had read the counter before the kill: as the line is
not counted yet (`OOMKillsOK` is false) it is a kill of its own, and the next reading
rises. No property forbids it. `KillsAccounted` bounds it: the counter's share,
`session - logged`, is exact, so at most the `logged` kills are counted twice.

**KernelLog** (`probe/kmsg.go`, `kernlog.go`). The kernel's ring, which wraps past
the reader (`EPIPE`), one drain in flight, classification to the key of an alert,
groups and their window, disks hidden by the mount filter, giving up after failed
reads. Bounds: a ring of two and three records, so that it wraps; drains of at
most two; two failures; two units of window in four of time.
`GroupsTellEvents`: an alert is up exactly while an event of it that was handled
is inside the window.

**Mounts** (`probe/disk.go`). The sampler's memory of read-write mounts, with its
two reads (`mountinfo`, then `/proc/self/mounts`), against mounting, covering,
unmounting and `errors=remount-ro`. Two points, three filesystems, one of them
read-only by design, three mounts; two devices are symmetric.
`FlagHasEvidence`: no false alarm, but on paths mounted over or changed between
the two reads (`blurred`), where the reads speak of different filesystems; a
point `fstab` lists read-write is blamed whatever device is on it.
`LockIsFlagged`: no lost alarm.

**Samplers** (`probe/cpu.go`, `net.go`, `disk.go`, `procs.go`, `util.go`). All
samplers do the same thing with a counter: lock, read, compare with the previous
reading, replace it. A rate times its interval is counted in the counter's unit,
and `owed` is what was counted and not reported. Two callers, two items, counters
modulo 3, three increments: a wrap, a restart and an absence are all reached.
`NothingCountedTwice`: nothing is reported twice, nor before it was counted.

**Trends** (`trend.go`, `trendConds`). One series, of a battery or of a
temperature, in ticks; the ages of its points are its only time, so there is no
clock to bound. Sleeps shorter than the window and longer; the fetch's reading is
a tick old when it is recorded, as in the code. The pack may lose a percent every
three ticks (20 an hour, a tick being two minutes), below the limit of 25.
`BaselineIsRecent`: a rate is never taken over a gap or over a stretch other than
the one it stands for. `SteadyIsQuiet`: a healthy pack is not said to be dumping,
a level temperature not to climb.
`trend_after_sleep` shows that a night's loss does raise the alert: the first
tick after a suspend records the reading from before it as the first point of the
new series. The same happens after a pause.

**ProcList** (`model.go:2045-2235` and the keys of the Processes tab). Three PIDs,
whose parents may form a cycle, a cap of two, two heights of the terminal; any
sample, key, resize and wheel. The viewport (a library) is modelled as the code
uses it. Two sort orders stand for the others.
`ViewListsAll`: every process wanted is listed once, up to the cap; in the tree
those that hang in a cycle of parents are not, as the code has no root for them.
`CursorFollows`: the cursor keeps to its process across samples and resizes, if
the list still shows it. `TargetOnScreen`: the marked row is the one keys act on,
and is inside the viewport unless the wheel moved it. A process that leaves the
list (cap, search, cycle) moves the cursor to whatever is on its row; the prompts
name the process, and `ProcActions` shows that what is confirmed is what is hit.

**History** (`history.go`, `main.go`). A save one system call at a time, by
several instances, any of them failing or killed between two; the kernel writes
contents and directory back in any order, and power may fail at any moment. What
the rings hold is reduced to the age of the oldest point.
Two instances and two files: both can be saving at once, with one file named and
one not. `PathIsWhole`, `SavedSurvives`: the path never names half a file, and a
save whose directory was synced is undone only by a later one.
`history_redated` (one instance, three files) shows that restored points are saved
under a new date and replayed past `historyMaxAge`. A killed save leaves its temp
file behind: nothing removes those.

**Backlight** (`adjustBacklight`, `probe/backlight.go`): percent against nine raw
levels, readings in flight, other programs moving the slider. `KeysAdvance` with
the default `backlight_step` of 10: a key pressed while the screen shows the
panel's own reading moves the panel. `backlight_stuck` shows that with a step of 5
it does not. Pressed while a round is in flight the key is not lost, but
the refresh it asks for is, so the percent shown may be an old reading.

**Governor** (`cycleGovernor`, `probe/cpufreq.go`): three policies, written and
sampled one after another. `PoliciesTogether`: they move together, and a refused
write is repaired by the next whole cycle.

**ConfigFile** (`config.go`, `calibrateTemps`, `currentAlertConds`). A file is up
to three lines, enough for a temperature, another one it collides with and
anything else; every trip-point shape a zone may have. `Sanitize` is translated
clamp by clamp. `SanitizeSettles`: a second `Sanitize` changes nothing.
`ThresholdsBite`: on RAM, swap, disk, load, packet loss and pressure, no threshold
fires always (on an idle machine) or never (on one at its limits, unless turned
off); a flat pack off the charger is critical, and a full one is warned of only
with a low tier of 100. It is not said of temperatures and wifi, as it does not hold
of them: temperatures are not bounded at all (`temp_crit = -5` is critical at every
tick, `900` never), nor is a wifi threshold but for its sign (`wifi_low_dbm = 1`
becomes -1 and warns at almost every signal, -500 at none). And the battery's tiers
are clamped, not restored: `batt_low_pct = 900` becomes 100 and warns at every
charge off the charger, which `config_test.go:247-248` speaks against ("a typo falls
back to the default rather than being clamped into uselessness") and the assertion
below it, like `DESIGN.md:741-744`, asks for. `TempsAgree`: colours and alerts of a
temperature agree, and `temp_crit` is what the user wrote last.
A threshold at or below zero is left out of the last: colours ignore it and alerts
do not. The thresholds of `TempColor` are process-wide, so the exporter's own
`NewModel` sets them again, to the same values as they come from the same file.

## Faulty variants

Definitions such as `PushKeepsOldest` or `TakeAnyJob` are faulty variants of
the definition they precede, the kind of slip that code could contain. Nothing
uses them. They are there to show that each property can be broken:
`PROJECT.json` pairs every property of every passing run with the variant that
TLC finds to violate it.

## Proofs

Every invariant and every action property of the passing runs is a theorem
(`KeysAdvance` of the steps it is true of), and so is the refinement; only
liveness is not (below). What is proved holds for every value of the constants:
any number of keys, PIDs, rounds, devices, files and lines, any window, cap and
rate. The bounds that TLC needs (`MaxTicks`, `MaxKills`, `MaxNow` and the like)
are constants too, so no theorem depends on how small they are.

The assumptions are those named in the modules, and TLC evaluates them on every
run. Most say that numbers are natural and not zero where the code divides by
them or indexes with them, and that sets are finite where the code ranges over
them. Those that say more:

* `EngineAssumption`: a text belongs to one severity. Nothing but the tie break
  of equal severities in `activeList` looks at texts.
* `KindsAssumption`: which kinds of fetch are primed, refreshed by keys, able to
  set `m.err`, as `model.go` has it.
* `KernelLogAssumption`: a name is of a virtual device, an MMC host or a block
  device, not of two of them, as the code's patterns tell them apart.
* `GovernorAssumption`: the kernel offers a governor at all.
* `ProcListAssumption`: PIDs are natural, finitely many; the cap is not zero.
* `BacklightAssumption`: `backlight_step` is 1 to 100, as `Sanitize` leaves it.
* `HealthyAssumption` (trends): what a healthy pack loses over any stretch a rate
  may be taken over, a percent of rounding included, stays below the limit. It is
  what the limits were chosen for, and all that `SteadyStaysQuiet` needs of them.

**Alerts_proofs** (AlertEngine, AlertPromise, AlertDelivery).

* `IInv` adds to the types, for each key, `KeyInv`: with T = `ClearTicks`, the
  calm updates so far are at most `lower * T + missing`, and each counter alone is
  at most their number. Neither follows from the other or from the types: the
  first gives the upper bound T^2 (`StaleIsBounded`), the second that a fall is
  never early. Lemma `FiveWays` splits an update of a key into renewed, cleared,
  dampened, missed and as before; `KeyStep` shows each keeps `KeyInv`. From these:
  `TypeCorrect`, `AnnouncedActive`, `StaleIsBounded`, `NothingEchoes`, and
  `PromiseIsKept`, the refinement of `AlertPromise`.
* `LogAgrees`: the newest line of a key. Trimming drops lines from the front only,
  so a line that stays newest stays true; an update gives a key at most one event,
  so that whatever order the map yields, the newest line of a key is that event.
* `BannerHeadsList`: `summary`'s fold keeps a key that precedes all the keys seen
  so far, by induction over the order they come in.
* `OutsideFollows`, `FileFollows` from `DeliveryInv`: following the events on
  their way (in the worker's hand, in the channel, not yet enqueued) from what the
  outside was last told leads to the severity in `active`, or the key is behind
  and none of its events is on the way. The second alternative is what makes it
  inductive: a drop is repaired by the next event of its key and by nothing else.
* `EngineWithin`: a behaviour of the composition is one of the engine, so that
  all of the engine's theorems hold with deliveries under way.

**FetchGuard_proofs**. The properties are proved together, since each needs the
others: `done` clears the guard for any round, so that a guard which is up is
answered (`GuardIsAnswered`) rests on how many rounds there can be, and the log
being quiet once closed (`KmsgClosedIsQuiet`) on its having one round at most, the
guarded one (`RoundsBounded`). What they lack is `ErrsBounded`: while the log is
followed, fewer reads in a row failed than make it give up.

**ProcActions_proofs**. Start times order the processes of a PID. Everything the
UI holds names a process of the past (`Named`); a process that is gone stays
gone; an answer with a start time holds that process's data; an own answer tells
of the overlay's process only what is true; and an action past `checkStart` is on
a process that was the PID's last at the key press, with a descriptor, if any,
that pins just that one. From it all six theorems.

**Exporter_proofs**. `WaitIsAnswered` needs the one collection to be the one
`running` stands for (`OneCollection`). Two facts are added: who waits or was
woken before the first collection ended is there because it runs
(`FirstIsAwaited`, for `NoSnapshotTrue`), and what is being read is younger than
what is cached (`CollectingIsYounger`, for `ReadingsNeverGoBack`).

**Kernel_proofs** (OomTracker, KernelLog).

* `KillsAreAccounted`: what the count needs beside itself is where the last
  reading stands (`LastBelowMax`): never above the largest one landed, and equal
  to it unless one landed late; before the first, only log lines counted.
* `NewKillsDoRing` from `TellInv`: every key that rang is of a count no larger
  than the largest landed, so that a larger one rings under a new key; and `prune`
  keeps the newest event while it is inside its window, however many there are.
* `NamesAreApart`: a victim goes to the event nearest to it, of which the order of
  `named`'s loop leaves exactly one, whatever the match window; a filter keeps
  what it keeps once and the cut at `e.n` only shortens it.
* `GroupsDoTell` from the order invariants: the ring, a read under way and what
  was handled are in the order it happened in (`RingInOrder`, `DrainInOrder`,
  `ToldInOrder`), so that the event that extends a group is its newest and a group
  that has aged out took nothing with it that is still inside the window.
* `OomTypeCorrect`, `KernelLogTypeCorrect`. That a group counts no more events
  than records were written needs each record to be in one place: in the ring, in
  the read under way, or counted (`Records`).

**Probes_proofs** (Samplers, Mounts, Governor, Backlight, Trends).

* `NothingTwice`: that nothing is owed is not inductive: what an item still owes
  must also cover its counter's distance from the previous reading
  (`LastIsCovered`), and, once the reading under way is reported, its distance
  from that one (`ReadingIsCovered`); both rest on readings being made under the
  lock.
* `FlagsHaveEvidence`, `LocksAreFlagged` from `MountsInv`: whatever a mount, the
  listing or `sawRW` says to be read-write was mounted so (`StacksEvident`,
  `ListingEvident`, `MemoryEvident`), the listing is what was visible but on
  blurred paths (`ListingIsTop`), and of each disk the sample returned read-write
  or flagged the sampler remembers why (`DisksRemembered`).
* `PoliciesMoveTogether` is inductive as it stands.
* `KeysDoAdvance`: `KeysAdvance` is false of some steps (`backlight_stuck`), so
  the theorem names those it holds of: `(2 * StepPct - 1) * MaxRaw > 100`, a step
  that is worth more than half a raw level after the half percent a reading may be
  off. The default step of 10 fulfils it on the uConsole's nine levels. The lemmas
  on rounding to percent and back (`PercentFacts`, `RawFacts`) are arithmetic.
* `BaselinesAreRecent`, `SteadyStaysQuiet` from `TrendInv`: points are in order
  of age, neighbours at most a window apart, all but the oldest inside one
  (`Framed`); and while the pack was healthy each point is within a percent of
  what the time since it allows (`Steady`). The rest is `HealthyAssumption`.

**Subsystems_proofs** (History, ConfigFile, ProcList, MCSubsystems).

* `PathWhole`, `SavesSurvive`: how far a save has come is how much of its temp
  file there is (`TempIsAsFar`), the temp file is nobody else's and not the one
  named (`TempIsOwn`), and while a rename waits for its sync the path names the
  last one (`LastRenameIsNamed`).
* `SanitizeIsSettled`, `LevelThresholdsBite`, `TempsDoAgree`, for every file,
  every integer in it and every board. Any config `Sanitize` leaves is settled -
  each field in its range, temperatures in order - and `Sanitize` leaves a settled
  config alone; calibration sanitizes again and never touches what the user named.
* `ViewDoesListAll`: the walk of the tree is an iteration that never visits a
  process twice, whatever the parents are; by induction over its length all it has
  visited hang from a root, and when it ends none that does is left. Filter, sort
  and cap keep each process once. `CursorDoesFollow` and `TargetIsOnScreen` from
  `RowsInv`, of which the part about the viewport is that it shows the cursor's
  row unless the wheel moved it (`InView`).
* `PartsWithin`: a behaviour of the ten parts side by side, which is what the run
  explores, is a behaviour of each of them. The theorems about a part therefore
  hold of `SubsystemsSpec` and are about the system the run checks.
  `SubsystemsTypeCorrect` joins the type theorems of the ten through it.

**SequenceLemmas** holds what these share: induction and recursion over numbers
(`InductionOver`, `RecursionUpTo`), stated about sets so that the provers can use
them, from which facts about the recursive functions of the models follow; and
what a filter, a piece, an append and a sequence without repetitions are.

Only model-checked is all liveness, `Settles`, `EventsFlow`,
`OthersKeepSampling`, `ErrorClears` and `ScrapeAnswered`: fairness, like
`ENABLED`, is out of the provers' reach. `GuardIsAnswered` and `WaitIsAnswered`,
the safety half of two of them, are proved.

## Disagreements found

Each is a run that TLC ends with a counterexample; `PROJECT.json` quotes the
sentence of the repository it contradicts.

| run | what happens |
|---|---|
| `fetch_overlap` | a second round is launched on top of one of `Init`'s |
| `proc_unvouched` | the overlay shows an unrelated process |
| `exporter_age` | readings are older than the age served with them |
| `trend_after_sleep` | a night's loss reads as a drain of minutes |
| `history_redated` | points older than `historyMaxAge` are restored |
| `backlight_stuck` | with `backlight_step = 5` a brightness key never advances |

## What is left

* The conditions that compare one reading with one threshold beyond those of
  `ConfigFile`: disk-fill horizon, throttle flags, storage wear, modem.
* Latency targets: each ping has a context of its own and a retry inside it, so a
  sample may take about twice the timeout; no property here depends on that.

## Not modelled, and why

Rendering, wording and layout, exports and `doctor` carry no control. Probes
that only parse a file keep no state; the latency, power and storage probes only
do arithmetic on one reading. Modal keys (tabs, zoom, help) change what is drawn,
not what is done; the prompt, the overlay, the process list's search box and the
keys that act on the system are modelled. The bell and the footer notices of
delivery, the lateness badge, `Serve`'s shutdown and the HTTP texts, the session
tallies of the kernel log, the strings and globs of the configuration are left
out of otherwise modelled components.

Smaller simplifications, each of something no property depends on or of a case
excluded by a stated assumption: a process row always has a start time, so the
cases `start == 0` of `checkStart` and of the overlay's `apply` do not arise; a
record's kernel clock is taken for wall time; a governor that the board does not
list, and lists that differ between policies, are left out; the battery is read at
every tick rather than every `slowEvery`-th, the wall clock does not step back, and
`trendConds` asks neither for the critical level nor for a horizon, so that the
model raises more alerts than the code, which is the side `SteadyIsQuiet` is about;
a device is mounted at one point, and nobody remounts read-only by hand; two
readings are never at the same time (`CounterRate` answers 0 then).
