# Tactical Display: models and proofs

Tactical Display is a desktop overlay that shows processes, sockets, audio and hardware as a
field of instruments. A QML host draws it; a Python helper samples the machine. What is hard
about it lies between the parts: two short-lived processes per key press that race for a lock, a
supervisor whose helper may hang, die or be unloaded with its window, a view that may be frozen
while the helper goes on, lookups that outlive the configuration that asked for them, scans
that see only a part of what exists, and a machine that changes while it is read. This directory
models those parts in TLA+, checks them with TLC and proves most of what they promise with TLAPS.

`PROJECT.json` is the index: which definition stands for which lines, what each run checks, how a
bug would break each property, the hazards, findings and theorems.

## Inventory

| Component | State it keeps | Operations | Talks to |
|---|---|---|---|
| Press-and-hold invocation (`td_telemetry/invocation.py`, `scripts/invoke.py`, `scripts/print-bindings.sh`) | `hold.json` (session, active token, tombstones), the flock, the binding's `hold_token` | press, release, load, save, summon, hide | the compositor spawns it, it calls `omarchy-shell` |
| Helper supervision (`core/Telemetry.qml`) | process flags, four one-shot timers and the health timer, failure and frame counters, snapshot | start, stop, retry, restart, accept, every process and timer handler | owns the helper process; host sets `active` |
| Freeze and scope protocol (`core/NavigationController.qml`, `Telemetry.qml`, `td_telemetry/engine.py`) | frozen flag, pending request, live and displayed frame; pinned generation and groups in the helper | toggle, switch, pick, regroup, inspect, action; freeze, scope, inspect, audio-action | two pipes of newline-delimited records |
| Command loop (`scripts/telemetry.py`, `SlidingWindowLimiter`) | unfinished record, drop flag, limiter, time of the next sample | take a chunk, execute a record, sample | stdin and stdout of the helper |
| Engine cadence (`engine.py`) | profile, throttle level, two run counters | configure, observe_duration | sets the pace of loop and socket scans |
| Process provider (`processes.py`) | image cache, last rows | scan, recheck, group | `/proc`; rows go to events, network, audio |
| Network provider (`network.py`, `inet_diag.py`, `procfs.py`) | owner cache, time of the last owner scan, fallback | sample, owners, build models | netlink, `/proc/net`, `/proc/<pid>/fd`; events |
| Audio provider (`audio.py`) | graph on display, undo record | sample, mute, default, undo | `pw-dump`, `wpctl` through bounded commands |
| Bounded subprocesses (`common.py`, `guardexec.py`) | deadline, output, process group | run_command | all optional providers |
| Address enrichment (`enrichment.py`, two workers) | per lookup a cache, a queue and one worker; mode, privacy, database | tick, resolve, configure, close | worker processes, network provider |
| Lifecycle events (`events.py`) | last observation per domain, events, ghosts, first sightings | update, expire, reset_domain | engine feeds it each scan |
| Navigation (`model/Navigation.js`, `NavigationController.qml`) | instrument, focus, history, groups, sheet | open, pick, back, reset, step | host of the freeze protocol |
| Overlay, panel, bar (`Overlay.qml`, `Panel.qml`, `BarWidget.qml`) | which is open, on which screen, with what payload | summon, hide, toggle | activate telemetry |
| Configuration (`core/Configuration.qml`, `model/Settings.js`) | settings file, inline entry | merge, save, reload | all of the host |
| Machine, storage, hardware (`machine.py`, `storage.py`, `hardware.py`) | counters, probe caches | sample | the engine |
| Validation, models, drawing (`model/*.js`, `visual/*`) | none that outlives a frame | pure functions | the host |

What makes each correct, and which behaviours are hard:

- *Invocation.* Presses and releases are unordered processes; each reads the wall clock before it
  waits for the lock; any of them may die, fail to save or wait in vain for the shell. A press
  never opens an overlay nobody will close; a release never hides another hold's overlay.
- *Supervision.* Exits, watchdogs, frames, closes and reopens come in any order. The host never
  ends up with nothing running, nothing scheduled and no message; the six retries are a cap; a
  close drops what was shown and stops the helper.
- *Freeze.* Commands and answers cross. A frozen view shows and keeps what the helper pinned, gets
  the groups it asks for, and nothing live is passed off as frozen.
- *Command loop and cadence.* The pipe cuts records anywhere. Records are answered once, in order;
  bursts are bounded; a configuration shows at once; the pace changes only with sustained load.
- *Processes and sockets.* The machine changes between any two reads, pids are used again, and
  every scan may be cut short. A row is about one process; an owner held the socket; nothing that
  was merely not seen is reported as gone; shared traffic is nobody's.
- *Audio actions.* Object IDs are used again by PipeWire. An action hits the node that was selected,
  and undo brings back what was there.
- *Bounded commands.* The program may hang, flood, fork or be orphaned. The call ends in time, the
  process group is gone afterwards, nobody else is killed, and nothing outlives the helper.
- *Enrichment.* Workers finish after the world changed. Privacy stops lookups; answers belong to
  the address and database asked for; no lookup runs twice; overdue workers are ended.
- *Events.* Scans are partial and capped. Nothing alive is reported closed, nothing opens twice.

## Modules

| Module | Lines it stands for | Role |
|---|---|---|
| `HoldContract` | what the hold promises | abstract specification |
| `HoldInvocation` (`MCHoldInvocation`) | `invocation.py`, `invoke.py`, the key binding | detailed, implements `HoldContract` |
| `Supervisor` | `Telemetry.qml` without the commands | safety and liveness |
| `FreezeContract` | what freezing promises | abstract specification |
| `FreezeProtocol` | the freeze path through controller, `Telemetry.qml` and engine | composes both ends and two pipes, implements `FreezeContract` |
| `HelperLoop` (`MCHelperLoop`) | `telemetry.py`'s loop, the limiter, the adaptive interval | framing, rate, cadence |
| `ProcessScan` | `processes.py` | reads that interleave with the machine |
| `SocketSampler` (`MCSocketSampler`) | `network.py` up to the rows, `inet_diag.py`, `WorkBudget` | partial observation, caches |
| `ContactModel` | `build_network_model`, `build_instance_model` | an algorithm against its definition |
| `AudioActions` | `audio.py`'s actions | a graph that others change |
| `BoundedCommand` | `run_command`, `guardexec.py` | a program that does what it likes |
| `MCProviders` | | the five provider modules, one at a time, for TLC |
| `Enricher` | `enrichment.py` and its two workers | |
| `EventStore` (`MCEventStore`) | `events.py` | |
| `*Proofs` | | theorems about the module of that name; `ProviderProofs` about the five provider modules |
| `SequenceFacts` | | lemmas about sequences, folds, sums and numbers that several proofs use |

**HoldInvocation.** One invocation per token and action, with a program counter (`unspawned`,
`spawned`, `waiting`, `ipc`, `served`, `done`). `KeyDown` and `KeyUp` are the binding, `Begin` reads
the clock and starts the wait, `PressLocked` and `ReleaseLocked` are everything from the lock to the
IPC including the save, `Served` is the shell acting on the request and `Replied` its answer.
Failures are actions a `Faults` set admits: a process dies, a save fails, an IPC fails before or
after the shell served it; a wait for the lock may always run out. `strained` is a history: it is
true once an invocation has waited for the lock in vain or longer than the skew of the tombstones,
or a release has found more tombstones than it keeps. Time is whole seconds; the deadline of the
wait starts with the reading of the clock, and a request whose client was killed is not served
afterwards. `hold.json` of an earlier session is the session value `"previous"`. Steps of the wall
clock are not modelled.

**Supervisor.** Every QML handler is one action, because all run on one thread. The process element
is `none`, `starting` or `up`, with the strongest signal it got. A running one-shot timer may fire
at any time, which includes every real timing; the health timer fires while its `running` binding
holds. An executable that cannot be started reports nothing, whether or not it was told to stop. `Reopens` tells the bar panel, which
survives a close, from the overlay, which is unloaded.

**FreezeContract.** A flag, the generation on screen and the generation whose details are. The view
freezes at what it shows or at a later sample, keeps it, and gets details of that one or none; a live
view may show anything, also the samples of a helper that took the place of another. It knows no
pipe, request number, scope or helper. `FreezeProtocol` gives it `display.gen` and, of the details on
screen, those that were answered from a pinned snapshot: what else may be shown is what
`freeze_detail` is about.

**FreezeProtocol.** One stretch with the view open. A snapshot is its generation and the groups it
details. Generations are numbered through, whichever helper took the sample, so a larger one is a
later one. The handlers of the controller write commands into `toHelper`, the helper's handlers write
records into `fromHelper`, both bounded FIFO pipes whose content is lost when the helper exits. A
user action of the model is the whole handler with the scope and freeze commands it sends. The sheet
is modal, so no key reaches the field under it. The freeze timeout may fire as long as a freeze is
pending. A command may be discarded for its rate whatever it asks for (`Discard`), as often as the
limiter of `HelperLoop` can; `scopeLost` is a history that says that the last scope the helper read
went this way. Starting a process and `onStarted` are one step; `backendError` is a flag, with a separate
action for an error whose text equals the one shown, as QML signals no change then. A freeze that
reaches a helper without a first sample cannot happen: the host waits for a frame. `configure`
commands are in `HelperLoop`. `FaultSets` says which failures one behaviour may show.

**HelperLoop.** Bytes are small numbers, zero is the newline, and the one-byte records are
configurations, named by their interval. `Pass` is one turn of the main loop: a chunk of any length,
its complete records in order, the check of the unfinished rest, and a sample if one is due. Ages
and delays are relative to now, so no clock grows.

**ProcessScan.** The reads of one process are steps (`ReadStat`, `ReadIdentity`, `Recheck`), and the
machine forks, calls exec, ends, reaps and uses pids again in between. A process is its pid and its
start time in clock ticks, an image stands for executable and cgroup. A pid is only used again in a
later tick: the kernel goes through all the others first. `Finish` may come at any moment, as the
deadline may, with any prefix of the rows grouped. The children of a zombie have a parent outside.
`imagesOf` and `parentsOf` are histories. `AncestryIsReal` names the one way in which a row can show
a parent the process never had (`Mistaken`): a process is read, ends while the scan goes on, its pid
goes to another process, and a child of that one is read. The child is younger than both, so start
times, all that `assign_groups` compares, do not tell them apart. Mistakes end with the scan.

**SocketSampler.** A sample is one step, whose nondeterminism is what may have been read: each table
is dumped, read, cut, absent, failed or not reached (`Kinds`, `Reading`), the owner scan leaves out
any descriptors it may not see or has no time for, and the process rows may be a part of the
processes. `held` is a history of who held a socket at or since the last full owner scan. A socket
whose source changes from `inet_diag` to procfs changes its identity with it, as in the code.
`SocketFaultSets` says which of these failures one behaviour may show.

**ContactModel.** Contacts are taken one after the other, in any order, as the loop of
`build_network_model` takes them; `ModelIsExact` compares each row with its definition over the
contacts taken so far. Ports and protocols only split relationships further and are left out.

**AudioActions.** An action is three steps: the selection with the refresh and the lookup of the
object ID (`Begin`), and the outcome of `wpctl` (`Confirmed`, or `Refused`, which includes a time-out
after the setting was changed). Nodes appear, disappear and are set by others between any two.

**BoundedCommand.** `Read`, `AwaitExit`, `KillGroup` and `Reap` are the stretches of `run_command`
between two waits; the program may do anything it can do with its pipes, its children and its exit
at any time, the helper may be killed, and pids are given away once nobody has them.

**Enricher.** Time is counted in samples. A lookup is a record of cache, queue and worker, the
worker's answer is reduced to what it was asked. `Sample` is `tick()` and the `resolve()` of every
visible address in some order; `SampleElsewhere` is a sample of an instrument without the network,
which looks at no worker; `SampleBreaksOff` is one whose worker cannot be started, which leaves the
rest of `tick()` and every `resolve()` undone. Addresses that an alias or `/etc/hosts` names are left out, they never
reach the lookup.

**EventStore.** Entities come and go outside; `Scan` sees some of those alive and says whether it
saw them all, with rows in one fixed order as the providers list them. Ordered dictionaries are
sequences. `sightedSince` is a history: for each entity the others that were seen after it was last
seen. The first sightings of all domains share one limit, so an entity that is still compared with,
but that incomplete scans do not see, may be crowded out by another domain and start a new age;
`AgeGoesOn` says how many others that takes.

## Runs

| Run | Checks | Bounds, and why they are enough |
|---|---|---|
| `hold_owner` | `VisibleHasOwner` when presses die or fail to save | two holds, so that one release can meet the other's overlay; a lock wait of three seconds for a skew of two; five seconds exceed every limit of the instance |
| `hold_contract` | `LatePressIgnored`, `ContractSpec` (refinement) with release crashes and failed IPC | two holds, a lock wait of two seconds for a skew of one, four seconds, every limit is reached |
| `hold_real_times` | violation of `LatePressNeverOpens` | the 8, 4, 5, 30, 60 s of the code, nine seconds, no failure |
| `sup_overlay` | `NoDeadEnd`, `ClosedHoldsNothing`, `LaunchesCapped`, `WatchesCanFire`, `CloseStopsHelper`, `AcquiresOrGivesUp`, `StallIsNoticed` | the real limits 6, 3, 3: nothing is cut |
| `sup_reopen` | violation of `NoDeadEnd` for the panel | the same limits |
| `freeze` | `FrozenShowsPinned`, `FrozenScopeShown`, `NoActionWhileFrozen`, `ScopeDelivered`, `FreezeContractSpec` (refinement) | two freeze requests make an answer stale, two generations differ, pipes of two records let answers cross; errors, audio actions, second summons, discarded commands and one lost helper |
| `freeze_detail` | violation of `FrozenDetailExact` | one request |
| `helper_loop` | `FramingExact`, `RateBounded`, `ConfiguredIsSampled`, `MovesWhenSustained` | two records of up to three bytes for a limit of one byte, every cut; one record per two units of time; two levels and runs of two, reached with slow, fair and fast samples |
| `providers` | `RowIsOneProcess`, `AncestryIsReal`, `ProcessExitsAreReal` (`ProcessScan`); `OwnersHeldIt`, `SocketExitsAreReal` (`SocketSampler`); `ModelIsExact` (`ContactModel`); `HitsSelected`, `UndoRestores` (`AudioActions`); `GroupIsCleaned`, `NoOrphanRuns`, `NeverWaitsOverdue` (`BoundedCommand`) | below |
| `sampling_exits` | violation of `LinkExitsAreReal` | two processes, two sockets, the process scan may be incomplete |
| `enricher` | `TypeOK`, `PrivacyStopsLookups`, `AnswersBelong`, `NoDuplicateLookup`, `SampleEndsOverdue` | three addresses over a queue of one and a cache of two, so both are full; two databases; four samples pass freshness and timeout |
| `events` | `TypeOK`, `GhostsAreGone`, `OpensOnce`, `ClosedIsGone`, `AgeGoesOn` | two domains, one with more entities than the store keeps; a queue of three and one ghost are always at their limit; lifetimes end within the run |

In `providers` a behaviour is one of a single provider, from any initial state of its machine, while
the others stand still: the modules share no variable. Two pids, two start times and two events are
what it takes to use a pid again between two reads of a scan, and the second of two scans meets
images of the first in the cache. A parent is mistaken after four events: an exit, its reaping, the
pid given to another process, and that process forks; `FewEvents` allows four in a first scan among
interpreters, which share a group, and two otherwise. An image stays in the cache for the scan after
the one that read it. Two sockets in tables of different protocols and limits of two rows
exhaust the budget in the first table; two moments let the owner interval and the fallback run out.
Three contacts of 20 shapes share a relationship in every order. Three nodes on two object IDs
force an ID to be used again; three requests are two actions and an undo. The bounded command is cut
only in the bytes it writes, which exceed what is allowed.

Deadlock checking is off where the system may stop: all holds are over, the supervisor rests while
closed, or a bound of the model (samples, clock, requests) is used up. In `helper_loop` it is on.

### What the violated runs show

1. `hold_real_times`. A press reads the clock, waits up to 8 s for the lock, and then treats a
   tombstone more than 5 s ahead of that reading as lying in the future. The tombstone its own
   release left meanwhile is dropped, and the overlay opens with nobody left to close it
   (`invocation.py:126`; `docs/SECURITY-PRIVACY.md:21` promises the opposite). `LatePressIgnored`
   is what the code does keep: nothing of the kind before some wait exceeded the skew.
2. `sup_reopen`. `start()` returns while the old helper terminates, and the exit that follows counts
   as intended: a panel reopened within that time waits for ever (`Telemetry.qml:58`).
3. `freeze_detail`. The answer to an inspection sent just before the freeze is shown as a detail of
   the frozen view although it comes from a later live generation (`NavigationController.qml:264`).
4. `sampling_exits`. Relationships are compared with the completeness of the socket tables only
   (`engine.py:181`). When the process scan, or the owner scan, saw a part of the processes, a socket
   is given to nobody, and the relationship of its application is reported as closed although both
   go on; `docs/DATA-MODEL.md:42` and `docs/SECURITY-PRIVACY.md:29` promise the opposite.

Seen while modelling, without a run of their own:

- An error record cancels a pending freeze without releasing it, so the helper stays pinned behind a
  live view and refuses audio actions until the next freeze or switch (`NavigationController.qml:277`,
  `engine.py:412`). `confirmAction()` does not look at the frozen flag; only the helper's own check
  keeps `NoActionWhileFrozen`, and a helper restarted meanwhile performs the action.
- The 33rd command of a second is dropped, and `configure` and `scope` are only sent when they
  change, so a dropped one is not repeated (`telemetry.py:87`, `Telemetry.qml:135`): the helper goes
  on with other groups than the view asked for, the exception in `ScopeDelivered` and
  `FrozenScopeShown` (`scopeLost`).
- A helper that the startup watch or Retry told to stop for a restart, and that then turns out not to
  have started, reports no exit, and the restart comes with the exit (`Telemetry.qml:97`): nothing
  runs until Retry or a close. The exception in `NoDeadEnd` and `AcquiresOrGivesUp` (`Missed`).
- A worker that cannot be started raises out of the sample (`enrichment.py:116`), and its address
  counts as the one that is looked up until the next is taken.
- Nobody looks at a worker while the instrument needs no network, so a hanging one outlives its
  limit until the next network sample (`engine.py:174`); `SampleEndsOverdue` says what does hold. If
  that sample breaks off at the start of a DNS worker, it is the one after.
- `read_socket_table` stops at its deadline without a word; if it was the last table the sample still
  counts as complete (`procfs.py:78`), the exception in `SocketExitsAreReal` (`silent`). A change
  between `inet_diag` and procfs changes the identity of every TCP socket, so all of them are
  reported as closed and opened again; the other exception.
- `sharedOwnership` of a relationship is that of its first socket (`network.py:317`), and a remote
  counts a shared socket once for every owner (`network.py:304`); `ModelIsExact` leaves both open.
- A `wpctl` that times out after it acted keeps the older undo, and an undo that is refused is lost
  (`audio.py:160`): `UndoRestores` speaks of undisturbed graphs.
- The signal at the helper's end reaches the program, not its children (`guardexec.py:19`).

### Fairness

`Supervisor` and `BoundedCommand` state fairness. Assumed of the first: a launch is reported as
started or failed; the one-shot timers and the health timer fire while they run (the Qt event loop
runs); a process sent SIGKILL exits. Not assumed: that a helper prints a frame, heeds SIGTERM, or
stays alive. `AcquiresOrGivesUp` assumes that the user stops pressing Retry, as each press resets the
count. Fairness is only worth what is enabled: `WatchesCanFire` says that no timer is left running
whose handler would find nothing to do, and no launch or kill that nobody awaits.

Of `BoundedCommand`: the helper goes on with its call when it can, as its loops look at the clock
every 100 ms and every 5 ms. That it can in every state after the deadline is checked as
`NeverWaitsOverdue`; that the call therefore ends is proved (`OverdueCallEnds`), as the run of the
providers uses a symmetry, which liveness does not allow. The other modules have no fairness: their
properties are about steps and states.

## Proofs

Each theorem holds for every value of the constants. Each proof is: initial states, one lemma per
part of the inductive invariant with a step per action, the temporal conclusion. Nothing is assumed
beyond the named assumptions on the constants and what a theorem itself names as its hypothesis.

*HoldInvocationProofs.* For any tokens, limits, clocks and, unless said, failures.

- `TypeCorrect`: `TypeOK` is inductive.
- `LatePressSafe`: `LatePressIgnored`, assuming `LimitsSuffice`: a press and its wait for the lock fit
  in the retention, as 30 and 8 s do in the 60 of the code. Nothing is assumed of lock wait and skew.
  The invariant alone is not inductive. It needs `LockInv` (who is in the IPC holds the lock),
  `SpawnInv` (a token is pressed before it is released), `ClockInv` (no reading lies in the future,
  a waiting one is at most the lock wait old) and, until `strained`, `Tombs`: every recorded release
  is either still a tombstone or too old for its press to be timely. `TombstoneSeen` is where the skew
  matters: a press that got the lock in time keeps the tombstone.
- `VisibleOwned`: `VisibleHasOwner`, assuming in addition that the failures are press crashes and
  failed saves of presses. After a summon that failed late, or a release that died or did not save,
  the code itself relies on the emergency command.
- `ImplementsContract`: every step of the protocol is a step or a stutter of `HoldContract`, with
  `visible` the token that is shown, `closed` the recorded releases and `strained` itself, under the
  failures `ContractFaultsOnly` names.

*SupervisorProofs.* For any limits.

- `TypeCorrect`; `RecoveryIsCapped` (`LaunchesCapped`) along `PaidInv`: each launch since the last
  reset has been paid for by a failure, except the first, and no restart is scheduled unpaid;
  `CloseDropsState` (`ClosedHoldsNothing`); `NeverStranded` (`NoDeadEnd`) assuming `~Reopens`, by
  `WillingInv`: a component that is wanted is not in an intended stop. `sup_reopen` is the
  counterexample without that assumption.
- `CloseStops` (`CloseStopsHelper`), `StallsEnd` (`StallIsNoticed`) and `AcquiresOrSaysSo`
  (`AcquiresOrGivesUp`), under the fairness above. The provers know nothing of ENABLED, so these
  theorems have `[]WatchesCanFire` as a hypothesis, which `sup_overlay` checks. Each proof names the
  stages on the way (for a close: `ClosingLaunch`, `ClosingGrace`, `ClosingKill`), shows with a step
  per action that a stage is only left forwards, and that the handler that is fair ends it. That some
  stage applies needs `EndInv`: a helper that is to end has been sent SIGKILL or has its termination
  watch running (`Doomed`). For a stall the stages are the health timer and an end that is under way;
  for acquisition they go from one failure to the next (`Seek(n)`): the old helper ends, the restart
  fires, and the new helper is started, stays silent, or never runs (`SeekLeadsOn`). That the
  failures run out is a chain over their number, so this one is proved for `MaxRetries = 6`, the cap
  of the code; for any cap it would be an induction over leads-to. It also assumes `~Reopens`.

*ProviderProofs*, `BoundedCommand`. For any limit of the output.

- `CommandTypeCorrect`; `CommandCleansUp` (`GroupIsCleaned`) along `PidIsHeld`: only `proc.wait()`
  gives the pid of the program back, so until then `killpg` cannot reach anybody else;
  `CommandDiesWithHelper` (`NoOrphanRuns`) along `OrphanNotices`: a program not yet executed when
  the helper dies finds that its parent has changed.
- `OverdueCallEnds`: once the deadline has passed, a call that is scheduled ends, for any limit and
  whatever the program does, by its stages (`StepOverdue`). Its hypothesis is `[]NeverWaitsOverdue`.

*ProviderProofs*, `SocketSampler`. For any sockets, processes and limits, and whatever a scan misses.

- `OwnersAreHolders` (`OwnersHeldIt`): the owners that are shown held the socket at some time since
  the last full scan, by `HoldersHeld` and `CacheHeld` (so did everyone in the cache).
- `ExitsOfSocketsAreReal` (`SocketExitsAreReal`): a scan that counts as complete has met no limit and
  lost no table, so it saw every open socket of a table that was read whole (`WholeTable`); a row
  goes on under its identity unless its table changed its source.

*ProviderProofs*, `ProcessScan`. For any pids, clocks, images and limits; images live in the cache for a
while (`IdentityTime` is not 0).

- `ProcessTypeCorrect`; `ExitsAreReal` (`ProcessExitsAreReal`): no exit is announced for a process
  that is there. The invariant is `EndedBefore` (what is known is alive or has ended before its pid
  could be used again: this is what the pair of pid and start time buys), `OneRead`, and `Covered`
  (unless a scan was refused or cut short, a known live process is still to be read, is being read,
  or was accepted).
- `RowsAreReal` (`RowIsOneProcess`) along `ImageInv`. What is read may be the image of whoever has
  the pid by then, and goes into the cache all the same. The invariant says that such an entry
  belongs to a process that is gone for good (`Gone`), which the recheck then rejects, now and for
  as long as the entry lives.
- `ParentsAreReal` (`AncestryIsReal`) along `ParentInv`: a parent outlives its children's start
  (`ParentsOutlast`), whoever has its pid later started after them (`LaterIsLater`, which is why the
  comparison of start times rejects a younger process), and a row that was accepted is alive or
  ended during the scan. `ReadParents` gets from it what one link shows, `RootIsAncestor` carries it
  up the walk of `runtime_root`, of any length.

*ProviderProofs*, `AudioActions`. For any nodes, object IDs, settings and number of changes.

- `AudioTypeCorrect`; `SelectedIsHit` (`HitsSelected`) along `BoundToKey`: until others change the
  graph, the object ID of a request is that of the selected node; `UndoIsInverse` (`UndoRestores`)
  along `UndoFits` and `RequestFits`: the record of an undo leads to the settings before the last
  confirmed action, and a request knows the settings it was asked for in.

*ProviderProofs*, `ContactModel`. For any finite sets of sockets and of processes, whatever shapes the
sockets have, and any applications that are looked at.

- `ModelRowsAreExact` (`ModelIsExact`) along `ModelInv`. A row that does not exist yet is read as
  one about no socket (`LinkStep`), so making and extending a row are one case. That no byte is shown
  twice is about sums over rows and over sockets (`TrafficIsExact`): with one more socket, what is
  shown changes in the rows of that socket only, and when there are several of them, not at all
  (`ShownStep`).

*FreezeProofs.* For any groups, numbers of samples, requests and losses, and pipes of any length.

- `TypeCorrect`: `TypeOK` is inductive.
- `FrozenIsPinned` (`FrozenShowsPinned`), `AnswersAreExact` (`FrozenAnswerExact`) and `FrozenStays`
  (`FrozenViewStays`) along `FreezeInv`. None of the three is inductive: what may be shown depends
  on everything that is still in the two pipes. `FreezeInv` reads both as one queue, which freezes
  pass in the order of their numbers (`Numbered`), and says that the view waits for the last one
  (`AwaitsLast`), that a frozen view has only thaws under way (`OnlyThaws`), that the last answer
  under way is about what is pinned (`AnswerIsPinned`, `PinnedIsShown`, `AnswersAreShown`), and
  that what was asked of an earlier pinned generation passes before the freeze a live view waits
  for (`AskedBefore`). Every step is of one of eight kinds (`StepKinds`), each with a lemma.
  `FrozenAnswerExact` and `FrozenViewStays` have no line of their own in `freeze.cfg`: that run checks
  `FreezeContractSpec`, of which both are parts.
- `ScopeArrives` (`ScopeDelivered`) along `ScopeIsSent`: the last scope under way, or the one the
  helper has, is that of the view, unless the helper discarded the last one it read.
- `FrozenScopeArrives` (`FrozenScopeShown`) along `ShownInv`: the view asked for its groups last, was
  answered with them last, or shows them. It needs `OnlyThaws`: what a frozen view shows is not
  replaced by another pinned generation, so the scope sent when it became frozen is the one answered.
- `FrozenRefuses` (`NoActionWhileFrozen`) along `RealInv` (until a helper is lost, what is frozen is
  a real generation) and `ConfirmInv` (an action that was confirmed in a frozen view reaches the
  helper with no freeze or thaw before it, so the helper still has its pinned generation).
- `ImplementsFreezeContract` (`FreezeContractSpec`) along `FreezeInv` and `TimeInv`: nothing that is
  shown, pinned or under way is later than the last sample (`CountedInv`, `RecordsInv`), a freeze is only
  asked of a helper that has sampled (`AskedInv`, which is what the test of `ready` in
  `toggleFreeze()` is for), and what is on screen, or arrives before the answer to a freeze, is no
  later than that answer (`NewestInv`). `StepTimes` reduces every action to what it does to the
  generations: it moves the samples onwards, and reads a record or writes one.

*EnricherProofs.* For any addresses, databases, limits and times. Address sets are finite, and no
address is the value that stands for none.

- `TypesHold`, `PrivacyIsKept` (`PrivacyStopsLookups`), `AnswersStayTrue` (`AnswersBelong`),
  `LookedUpOnce` (`NoDuplicateLookup`), `OverdueAreKilled` (`SampleEndsOverdue`). The
  invariant (`Sound`, `Trimmed`) says of each lookup by itself that its worker and its answers are of
  the database in force and that nothing waits twice or beside its own worker. A sample asks for any
  sequence of visible addresses: that a lookup is sound is shown to survive one call of `resolve()`
  and carried through the fold.

*HelperLoopProofs.* For any records, limits, rates, windows, durations and multipliers, and any cut
of the pipe.

- `FramingHolds` (`FramingExact`): cutting a joined stream is cutting its parts one after the other,
  however it was joined. The invariant (`Framed`) reads the unfinished record and the pipe together:
  with what was dropped of that record put back in front, they cut into the records sent and not
  yet answered, and a record being dropped is already over the limit.
- `RateHolds` (`RateBounded`) along `Limited`: all that the limiter has forgotten is older than the
  window.
- `SampledHolds` (`ConfiguredIsSampled`), `MovesAreSustained` (`MovesWhenSustained`) along
  `CadenceInv`: a counter is never ahead of the unbroken run it counts.

*EventStoreProofs.* For any domains, entities, lifetimes and limits; entities are finitely many, each
of one domain.

- `TypesHold`, `GhostsAreApart` (`GhostsAreGone`), `OpeningsAlternate` (`OpensOnce`),
  `ClosingsAreTrue` (`ClosedIsGone`), `AgesGoOn` (`AgeGoesOn`). `OpensOnce` is not inductive: it needs
  `Stands` (what the queue tells as opened and not as closed since is compared with next), which in
  turn needs that an observed entity is listed once (`PreviousOK`) and that a domain within its
  limit loses nothing when an incomplete scan is merged. `AgeGoesOn` needs `SightedOnce` (one
  first sighting per entity) and `SinceOK` (whatever stands behind an entity among the first sightings
  was seen after it); `CrowdedOut` then counts: what the limit cuts off had as many behind it as are
  kept.

*SequenceFacts.* The library's induction theorems take an operator as a parameter, which the provers
cannot instantiate. `NatSetInduction` states induction with a set in the place of the operator and
derives it from the pigeonhole principle for finite sets; `SeqSetInduction` does the same for
sequences. On them rest `FoldExists` and `FoldRuns` (a fold is a run of single steps), from which the
proofs above get what `Split`, `Asked`, `Chosen` and the walk of `RuntimeRoot` compute for any length.
`SubsetInduction` does the same for finite sets, which gives `SumTakes` and `SumGrows`: the library
adds up a set by choosing one element after the other, and the sum does not depend on the choice.

*Only model-checked.* `WatchesCanFire` and `NeverWaitsOverdue`, which speak of ENABLED, and
`AcquiresOrGivesUp` for caps other than six.

## Not modelled

Drawing, layout, palettes and the pure functions from snapshots to rows (no state of their own);
what a file of `/proc`, a netlink message or a `pw-dump` graph says beyond what the models name
(data); counters and the rates derived from them; the directions that are inferred from listeners;
release and validation scripts; file permissions and symlink checks of the hold file. Machine,
storage and hardware read counters and files into rows; their caches are filtered by the present
rows. Settings are merged by a sequential computation that the repository's unit tests cover.

## Plan

What the next extensions would be, in this order:

1. *Navigation*: history of at most 24 entries, back that always ends in a close, resolution of a
   remembered context against the present frame, the sheet; with `Overlay`, `Panel` and screens.
2. *Compositions*: `HelperLoop` under `FreezeProtocol`, in place of its arbitrary discards;
   `ProcessScan` under `SocketSampler`, in place of its arbitrary rows.
3. *Transport budgets* of the engine: what is left out of a snapshot, and in which order.
4. *Proofs*: `AcquiresOrGivesUp` for any cap, and the compositions of 2.
