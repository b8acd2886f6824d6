# WattCurb in TLA+

WattCurb is a power daemon for Linux laptops: one root process that samples the
hardware and the process table, decides which power profile is in force, writes
the corresponding limits to the hardware, boosts the focused window, throttles
minimized ones, defends the machine against memory exhaustion, and publishes
what it sees to a tray icon, a dashboard and a command line.

This directory models the parts of it whose correctness depends on the order of
events: what one component remembers about state another one (usually the
kernel) holds, and what is left of both after kills, restarts and refusals.
Paths below are relative to the repository's root.

## 1. The system

### The process and its thread

The daemon (`src/core/daemon_runner.cpp`) is one process with one thread in an
`epoll` loop. Four things wake it: a timer (every 10 s, every 2 s while a client
holds a lease), an IPC datagram, a PSI trigger (memory stalls), a signal. Every
handler runs to completion, so two handlers never interleave *inside* the
daemon. Concurrency comes from outside:

- the kernel keeps scheduling state, control groups, swap and the PM QoS clamp,
  and these outlive the daemon, and sometimes the process they were set on;
- children the daemon forks build and drain swap files for seconds;
- clients read the shared memory at any moment, between any two stores;
- `systemd` kills the daemon at any point (`scripts/wattcurb.service`:
  `KillMode=mixed`, `TimeoutStopSec=2`, `Restart=on-failure`) and starts it again;
- processes exit and pids are reused while the daemon has them on record.

### Components

| Component | State it keeps | Operations | What makes it correct |
|---|---|---|---|
| Window-aware governor (`policy/window_aware_governor`, `policy/pm_qos_controller`) | one snapshot of the focused process, an entry per window ever minimized, a PM QoS descriptor | engage, release, minimize, restore, hysteresis, rollback | what it writes back is what the process came with; only the focused process is confined or clamped; stage 2 only after the wait and never with audio |
| Profile authority (`policy/mitigation_engine::resolve_profile`, `policy/battery_feature`, the PROFILE handler and observation cycles of `core/daemon_runner`) | the selected mode in six copies, a demotion latch, a tick count, a lease | PROFILE, leases, light probe, deep sweep, persist, start | one mode in force; a selection stands until a threshold is crossed once; never towards less saving on its own; the 5% floor |
| Shared telemetry (`ipc/tray_shared_state`) | a 128-byte record and a version in `/dev/shm` | two kinds of update, lock-free read | a read returns one whole, current record or gives up |
| Dynamic swap expander (`policy/swap_expander`) | the tracked files, one pending child | grow, poll, release, adopt | the record and the disk agree; capacity ends are known |
| Memory pressure guard (`policy/memory_pressure_guard`) | a tier, the throttled processes | sample, classify, act, release | nobody is slowed outside the Throttle tier or, in Performance, before capacity is used up; every brake is lifted |
| Base swap (`swap_expander.cpp` 325-498, `memory_hygiene_engine.cpp` 318-338) | a migration state and a child; a backoff and a quench | replace the base swap file by a smaller one; empty it by swapping it off and on | the machine never goes without swap, and the base file is there between migrations |
| Feature manager (`policy/battery_feature`) | a ledger of 128 caps with their originals | shield, idle, relax, pin, cap, de-escalate, heal, roll back | every cap can be undone, is undone once its cause is gone, and never on another process |
| Hardware baseline (`mitigation_engine`, `hardware_bus_controller`) | two baselines of the machine's knobs, flags of what was touched | capture, apply a profile, park the codec, save on battery, re-assert, restore | a stop gives the user's values back; no profile's restriction outlives it; a killed daemon's caps do not become the baseline |
| Fan (`mitigation_engine` 2987-3193, `fan_curve_engine`) | four curves, the level written last, the level found | map, write, release, set and save curves | hot means full speed; the fan a stop returns is the user's |
| Memory relief (notifier, page-out, swap tiers, targeted reclaim) | the last warning, cooldowns, saturation of ZRAM | warn, reclaim, page out | applications hear the end of a shortage; background workers give their pages first |
| Disk guard (`policy/disk_pressure_guard`) | two time stamps | look, sweep | the pressure ends, or nothing sweepable is left |
| History ring (`ipc/history_ring_buffer`) | 60480 points, head, count, version | append, snapshot | chronological, whole snapshots |
| Singleton lock and IPC (`core/singleton_lock`, `core/daemon_runner`) | a lock, sockets, a lease | acquire, request, answer | one daemon; a late answer is not taken for another's |
| Tray, dashboard (`tray/*`, `ui/*`) | an override of the shown profile each | poll, query, choose | the shown profile converges to the published one |
| Classifier, attribution, probes, analyzer, reports, logger, localisation | tables and samples | pure functions and I/O | - |

### How they interact

- A PROFILE datagram changes the mode, applies it to the hardware, publishes and
  persists it, and runs an observation cycle, all in one handler. A deep sweep
  lets the battery rules change it and stores the result as the *effective
  profile*, a static of the mitigation engine that the memory guard and the
  window governor read at the end of every cycle.
- The guard drives the expander: one evaluation samples memory, finishes a
  pending file, and then grows, brakes, releases and trims on that one sample.
- The mitigation engine, the bus controller and the audio audit write the same
  panel, ASPM and codec knobs, each with an idea of its own of what to return to.
- The governor, the guard and the feature manager write the same kernel knobs
  (nice, class, affinity, quotas) on behalf of different records.
- Clients read shared memory, which survives the daemon, and send it datagrams,
  which do not.

### What is hard here

Almost everything that can go wrong is about *remembered originals* and *state
that outlives its owner*: a value captured while something else had already
changed it; a file, quota or mask that no record mentions any more; a version
word that a killed writer left odd; a count decremented before the work it
stands for succeeded. The unit tests run in a sandbox in which nothing is
actuated, so none of this is exercised by them. `PROJECT.json` lists the
hazards by line with the properties that watch each.

## 2. The modules

Each component has a module for its behaviour. An `MC...` module with its `.cfg`
files instantiates one or several of them for TLC; a `..._proofs` module holds
what is proved of one, and `Housekeeping_proofs` of the small ones that the run
`housekeeping` composes.

Some properties are stated for the proofs only: the single steps on which the
liveness of a component rests (`CalmGivesBack`, `FloorStands`, `ClockStaysOpen`,
`SavingsStayOver`, `SweepDropsCalm`, `SweepFreesPlayers`, `SweepMakesRoom`,
`EndIsAnnounced`, `LookDropsWorkers`), and the safety of the small ones
(`SweepStaysInBudget`, `SweepsInOrder`, `OwedIsRemembered`, `ShieldedKeepPages`,
`AnswerIsOwn`, `OneQuestion`).

### WindowGovernor

| Model | Code |
|---|---|
| `entry`, `snap`, `pinned` | `m_windows`, `m_active_snapshot`, the descriptor of `PmQosController` |
| `knobs` | the kernel's nice, class, affinity and timer slack of each process |
| `Engage` (`ReaffirmFocus`, `ChangeFocus`) | `engage_active_window` |
| `Unfocus`, `Minimize`, `MinimizeUntracked` | the three unfocused paths of `on_window_state_changed` |
| `EvaluateHysteresis` | `evaluate_hysteresis` |
| `Stop` / `Crash` / `Start` | `stop` and the destructor / a kill / `repair_orphaned_affinity_masks` at start-up |
| `Recycle`, `ClockStep`, `SetProfile` | pid reuse, a stepped wall clock, the effective profile |

The focus is released, captured, boosted and unthrottled in the code's order
within one action, since the thread is not preempted between its system calls in
a way another writer of the same knobs could use. `tainted` is a history
variable: processes whose recorded originals may be wrong, for one of three
reasons (engaged while throttled; managed when the daemon was killed; pid reused
while on record). The property `UnmanagedAtBase` says that there is no fourth.
`IdleShielded` and `SlackShielded` stand for the verdicts of the predicates
`apply_sched_idle` and `apply_timer_slack` consult. I/O priority is left out: it
is set on engagement and never restored by any path, so there is no protocol.
The kernel is assumed to accept the scheduling calls, except PM QoS, which may
refuse.

### ProfileAuthority

| Model | Code |
|---|---|
| `override`, `latch` | `FeatureManager::m_profile_override`, `m_demotion_latch` |
| `effective`, `hw` | `set_effective_profile`, the argument of the last `apply_power_profile` |
| `cached`, `seen` | profile and battery of `cached_report_` |
| `published`, `saved` | the mode in shared memory, `/var/lib/wattcurb` |
| `tick`, `lease` | `bg_tick_count_` modulo 6, `is_interactive_active_` |
| `SelectProfile`, `TruncateSaved`, `WriteSaved`, `Observe` | the PROFILE handler, cut at the two calls between which a kill loses the file |
| `DeepSweep`, `LightProbe`, `Observe` | the two cycles and the cadence that chooses between them |
| `Interact`, `AskTelemetry` | INTERACTIVE, HEARTBEAT and RESCAN, which sweep; FULL_TELEMETRY, which takes a lease and does not |
| `Resolve`, `Spend`, `Rearmed` | `resolve_profile` |
| `Start`, `Stop`, `Crash` | `initialize`, the destructor, a kill |

A lease may be found expired by any cycle, and a light probe may see a power
spike whenever it runs: the 4.5 s deadline and the wattages behind the decision
are nondeterministic. `probes` counts light probes since the last sweep, the
start, or the end of a lease: a lease of FULL_TELEMETRY may run out before the
first cycle inside it, and then the count starts again with no sweep done. A PROFILE command from a client that is not authorized
changes nothing and is not an action.

### SnapshotRegister and TelemetrySeqlock

`SnapshotRegister` is the promise: one writer publishes whole records; a read
returns one that was current during the call, or nothing. `TelemetrySeqlock` is
the record in `/dev/shm` at the granularity of single stores and loads; any
order of the fields within an update or a copy is allowed. `ImplementsRegister`
maps `stable` (the record at the last second version store) to the register and
`during` (the records since the call) to the register's history. A kill inside
an update ends the abstract promise (`trusted`); what happens after it is the
subject of the violation run.

*Memory model.* The fields are plain memory and the version is accessed with
release and acquire; strictly that is a data race. The model takes stores and
loads in program order around the version accesses, which is what the x86-64
build does. On a weaker machine, or with a compiler that moves a plain store
above the first version store, the results say nothing.

### SwapExpander and MemoryPressureGuard

| Model | Code |
|---|---|
| `swap.files` | the files on disk, with the children and kernel that work on them |
| `swap.tracked`, `swap.pending` | `m_files`/`m_count`, `m_pending_pid` |
| `Grown`, `Polled`, `Trimmed`, `Adopted` | `ensure_headroom`, `poll_pending`, `maybe_release`, `initialize` |
| `ChildBuilds`, `ChildDrains`, `ChildIsRefused`, `ChildUnlinks` | the forked children, one system call at a time |
| `tier`, `Classify` | `m_tier`, `classify` |
| `brake.slowed` | `m_throttled` |
| `brake.capped`, `brake.idled` | quotas on control groups and SCHED_IDLE, as the kernel has them |
| `Evaluate` (`Relax`, `Advise`, `Resist`) | `evaluate_and_actuate` on the tick and on a PSI wake |

The decisions of the expander are operators on the record `swap`, because one
evaluation of the guard chains several of them, on a sample taken before the
first. `Adopted` is the loop of `initialize` as a recursive function over the
indices, in their order. `MemoryPressureGuard` extends `SwapExpander` and is the composition of
the two. `SeenTotals` lets a sample taken during a swapoff show any part of the
leaving file already gone. MemAvailable and PSI are one environment variable
`ext` with the four ranges the thresholds cut; processes, profile, disk and swap
usage move freely, except that nothing moves while no daemon looks (the next
start sees an arbitrary state soon enough). `brake.lost` is a history variable:
brakes nobody remembers.

Left out here: reclaim, page-out and notification (`PressureRelief`), the
base swap (`BaseSwap`) and the focused pid, which
is one of the ways a process fails to be a candidate: `Hits` already takes an
arbitrary set of them. A failed sample leaves everything as it was.

### HardwareBaseline

| Model | Code |
|---|---|
| `engine.knob` | sysfs, procfs, the SMU, the desktop: what the machine has |
| `engine.base`, `engine.touched`, `engine.parked` | `HardwareBaselineState`: the values, the `*_modified` flags, `audio_codec_power_save_suspended` |
| `bus` | `HardwareBusController`: its baseline and `m_applied` |
| `applied`, `selected`, `inForce` | the last `apply_power_profile`, `m_profile_override`, `s_effective_profile` |
| `Capture`, `Restore` | `capture_hardware_baseline`, `restore_hardware_baseline` |
| `Enter...`, `Apply` | `apply_power_profile`: one row of setters per profile, then what the other profiles added is undone |
| `Audit` (`Park`, `Unpark`) | the codec part of `audit_and_heal_audio_stack` |
| `BusEvaluate`, `BusRollback` | the bus controller, at the end of every cycle |
| `Reassert` | what a sweep re-asserts under Performance and Balanced |
| `LightCycle`, `DeepCycle`, `SelectOnEngine`, `StartEngine`, `StopHardware` | the cycles, the PROFILE handler, start and stop |

A knob's value is the one a row writes, or `"user"`. The capture's three ways are
three sets: read from the machine, taken for a default (the desktop), never
looked at (`Forgotten`: EPP, the frequency floor, runtime PM - no stop returns
them, and `StopGivesBack` does not claim it). `user` and `laundered` are history
variables: what the user last set, and the knobs whose baseline a killed daemon's
leftovers have falsified. `CapsAreNotLaundered` says that the clock cap and the
boost are never among the values so falsified.

### FanControl

| Model | Code |
|---|---|
| `fanKnob`, `fanBase`, `fanModified`, `lastLevel` | `/proc/acpi/ibm/fan`, the baseline and its flag, `g_last_fan_level` |
| `curves`, `curveFile` | the engine's profiles, `fan_curves.conf` |
| `ObserveFan` (`LevelFor`, `KeepsLevel`, `WriteFan`) | `apply_fan_for_temp` |
| `SetCurves` (`Deserialize`, `ForceEnds`, `SaveToFile`) | SET_FAN_CURVES |
| `ReleaseFan`, `StartFan`, `StopFan`, `KillFan` | a change of profile, start, stop, a kill (which may leave the file empty) |

Temperatures are taken at the control points, so the spline between them is left
out. The fan is returned by the same stop as the knobs: the module `Hardware`
extends both and defines `StopGivesBack`, the conjunction of `StopRestores` and
`FanIsReturned`.

### MitigationLedger

| Model | Code |
|---|---|
| `proc` | the kernel's class, nice, mask and slack of each process, and its readings |
| `tracked` | `m_tracked` |
| `Sweep` | one `evaluate_and_actuate`: audit and healing, release on a profile change, the loop over the report, `Deescalate` |
| `Walk`, `Treat` | the loop, a recursive function over the places of the report, and its body |
| `Tier`, `Immune`, `StallShielded`, ... | `ProcessClassifierDB` and the shields built on it |
| `RollbackTracked`, `SameProcess` | `rollback_all_tracked`, `same_process` |
| `Repair` | `repair_orphaned_affinity_masks` |

The report is any order of any of the processes: a capped one may be missing
from it. `ReuseNumber` ends a process and gives its number to the next program of
the hosting. `orphans` is a history variable: what a killed daemon left capped,
and nobody can undo. Only the cap is on record, in the code as in the model; the
idle class, the slack and the core complex a sweep writes are not.

### HistoryRing

`append` is its five stores and `read_snapshot` its loads, one at a time, under
the memory model of `TelemetrySeqlock`. `whole` (a history variable) is what the
ring stood for since the call. `SnapshotsAreInOrder` claims a *prefix* of such a
history: a reader with less room than there are points gets the oldest ones.

### BaseSwap

| Model | Code |
|---|---|
| `base`, `new`, `hidden` | `/swap/swapfile`, `/swap/swapfile.new`, an active area whose name is gone |
| `phase`, `child`, `window` | the migration's state, child and observation window |
| `Poll`, `RightSize` | `poll_base_migration`, `evaluate_base_right_sizing` |
| `Hygiene`, `SafeDeswap` | the deswap of the memory hygiene engine |
| `GuardSwap` | the three as one evaluation of the guard calls them |

Every system call may fail (`Migration`, `Deswap`). The deswap re-activates with
`swapon(path, -1)`, and both of the kernel's possible answers are explored; see
section 6.

### DiskPressure and PressureRelief

`DiskPressure` counts sweepable files by kind; looks and sweeps have their
cooldowns, a sweep its budget and early exits. `PressureRelief` is the other half
of the memory guard's evaluation, in the order in which `evaluate_and_actuate`
calls its parts in either profile family.

| Model | Code |
|---|---|
| `last`, `recent`, `conn` | `m_last_level`, `m_last_emit_sec`, `m_bus` |
| `Connected`, `Notify`, `CloseNotifier` | `initialize`, `notify` and `shutdown` of `LowMemoryNotifier` |
| `cache`, `inRam` | whose file pages, and whose anonymous pages, are in RAM and worth a pass |
| `ReclaimPages`, `ReclaimFiles` | `apply_memory_reclaim` without and with `file_only` |
| `ActuateAdvisory`, `ActuatePageout`, `TargetedReclaim` | the passes of the same names |
| `Relieve`, `EvaluateRelief`, `EvaluateInPerformance` | the ladder, and the evaluation of either family |

A connection is `none`, `open` or `lost`: one that broke (`BusDisconnects`) is
held and never opened again, since `m_bus` is still set; a bus that refuses for a
while (`BusChanges`) leaves it open. `deaf` is a history variable: a daemon ended
without being able to send the all-clear. `told` is what applications heard last.

`memory.reclaim` is a file of a control group, so a pass for one process takes
pages of any that share its group (`Siblings`), and of either kind: a write with
`swappiness=0` that fails is repeated without it. Which pages go is the kernel's
choice; the model takes any of them, and for the advisory pass file pages of the
group at least. A quarter of a process's size is not counted: `cache` is who
holds file pages worth a pass. `MaxReclaimed` is the cap of a pass (8).

### Clients

| Model | Code |
|---|---|
| `inbox`, `answer` | the daemon's socket, the dashboard's client socket |
| `tray` | `TrayClient::local_override_mode_` |
| `dash` | `DashboardBackend`: what it waits for, its override, the two modes it compares |
| `TrayClick`, `DashClick`, `DashRescans`, `TrayOpensDashboard` | the choices of users |
| `PollRead`, `QueryAnswered`, `QueryTimesOut` | `onPollTimer` and its queries |
| `Handle`, `ObserveAgain`, `DaemonStarts`, `DaemonStops` | the daemon as clients see it; its profile logic is in `ProfileAuthority` |

## 3. What is checked

All runs use two workers and finish within about three minutes.
`MCProfileHardware` and `MCHousekeeping` hold several components that share no
state: a variable `part` says which of them a behaviour is of, the others rest
in one initial state, and fairness is asked of the chosen one only. The states
are those of separate runs, added up, not multiplied.

| Run | Instance | Distinct states | Shows |
|---|---|---|---|
| `window_governor` | 2 processes (an ordinary one; a shielded one that came with nice 12), a table of 1, waits 2/1/0, clock 0..2 | 900,576 | `TypeOK`, `MaskOnlyOnFocus`, `PinOnlyWhileEngaged`, `UnmanagedAtBase`, `ShieldedNeverIdle`, `DueIsServed` |
| `profile_authority` | *profile:* a charger reading and five battery readings, sweep period 3. *hardware:* two machines, one kill. *fan:* six temperatures, three packets, one kill | 224,318 | `SelectionSticks`, `PublishedIsInForce`, `SweepsAreFrequent`, `AutomaticOnlySaves`, `FloorIsReached`; `StopGivesBack`, `CapsAreNotLaundered`, `ParkIsLifted`, `NothingOutlivesItsProfile`, `CeilingComesBack`, `BatterySavingsYield`; `HotIsFullSpeed` |
| `telemetry_seqlock` | 1 reader, 3 fields, 3 update shapes, 2 tries, 3 updates | 1,927,775 | `QuietReadSucceeds`, `ImplementsRegister`, `ReadsReturn` |
| `memory_guard` | base swap and 2 files of one unit (8 GiB) each, 2 processes in one control group | 449,120 | `BrakeOnlyUnderThrottle`, `BrakesAreRemembered`, `RecordMatchesDisk`, `PerformanceBrakesLast`, `CapacityReturns` |
| `housekeeping` | *ledger:* 2 pids, two hostings, 8 CPUs, a ledger of 1. *ring:* 3 places, 7 points, 2 tries. *swap:* backoff 1..4, 2 kills. *disk:* 6 kinds of file, a budget of two files. *relief:* an editor and an indexer in one control group, one process a pass. *clients:* 3 profiles, 3 acts | 185,074 | `EveryCapIsOnRecord`, `DropGivesBack`, `CalmIsReleased`, `PlayersLeaveIdle`; `SnapshotsAreInOrder`; `SwapIsThere`; `PressureIsRelieved`; `AppsHearTheEnd`, `WorkersMakeRoom`; `DashboardConverges` |
| `window_focus_loss`, `profile_demotion`, `profile_startup`, `telemetry_killed`, `swap_ceiling`, `quota_release`, `tray_override_latch` | the same instances | - | one violated property each, section 5 |

### Bounds, and why they are enough

- *Two processes.* The governor's records of different pids interact only
  through the snapshot (one focus) and the size of the table; two processes and
  one place exercise both. The shielded process starts with nice 12 so that +10
  meets the cap of 19.
- *The clock* has three values and may be stepped in any direction; waits of 2,
  1 and 0 give before, at and after each threshold.
- *Battery readings*: one in each interval `resolve_profile` tells apart, at the
  boundary itself (5, 20, 25, 30) and above the last one (36); AC with a low
  percentage, so that the charger and not the percentage decides.
- *Sweep period 3* instead of 6: the cadence is counted modulo the period and
  the proof covers every period.
- *One reader*: readers do not affect each other or the writer; the proof covers
  any number. `MaxUpdates` = 3 lets an update end, another begin and end, and a
  third be cut inside one read. `MaxRetries` = 2 reaches success on the first
  and second try and the limit.
- *Swap in units of a file*: the base is one file's size, so each of the expand
  and release rules is met on both sides; two files distinguish "newest" from
  "any", and make the limit reachable. `MaxThrottled` = 2 with two processes does not
  bind: that the limit holds for any number of processes is proved.
- *Two machines*: one as installed; one without `ryzenadj`, with a user's own
  clock cap and another power manager. Kills are explored in the profile that
  raises most and the one that restricts most, manual dimming and what a resume
  undoes (`Meddled`) in every life but the last: what the last life
  finds is then one of few machines.
- *Fan*: the packets hold a curve out of range, one out of order, a profile that
  does not exist, a short curve and a withdrawn one.
- *Ledger*: an indexer and a compiler whose number the indexer gets, and a
  compiler that plays beside a terminal. A ledger of one place is full as soon
  as it is used. 8 CPUs are two clusters of four and headroom masks of 4 and 6.
- *Ring*: 3 places and 7 points wrap twice, and 2 tries overlap several appends;
  readers have room for fewer points than there are, or for all.
- *Base swap*: the wait doubles twice; two kills hit any two steps. *Disk*: the
  budget covers one of the three tiers. *Clients*: three acts are a choice in each
  client and one event of the world, or a refusal, a restart and another choice.
- *Relief*: one control group, so that a pass for the indexer reaches the editor.
  A pass takes one process, as many as there are background workers; of more
  workers than the cap nothing is claimed.
- *Symmetry* is not used: the processes differ, or liveness is checked.

### Fairness

- `WF(EvaluateHysteresis)`, `WF(Observe)`, `WF(Evaluate)`: the timerfd is
  periodic and the loop returns to it after every event. A daemon that is down
  need not be started again, except where a property assumes it is up.
- `SF(ObserveInLease)`: a lease lasts 4.5 s and the timer it arms fires after
  2 s, so a lease that runs out with no cycle in it takes a loop that was held up
  for 2.5 s. That may happen, and is explored; it does not happen every time.
  `FloorIsReached` needs it: dashboards that ask, with the loop late each time,
  would put off the sweep for ever.
- `WF(Persist)`: a handler that has begun goes on.
- `WF(Child)`: a forked child ends. It may fail.
- `WF(Advance(r))`: a client that called `read_atomic` runs. The daemon owes
  readers nothing: `ReadsReturn` holds with a dead or endlessly writing daemon.

- `WF(DeepCycle)`, `WF(EvaluateDisk)`, `WF(EvaluateRelief \/ ...)`,
  `WF(ObserveAgain)`: the same timer; `WF(HalfMinute)`, `WF(HoldExpires)`: time
  passes. A sweep of the ledger may change nothing, so `beat` turns with it, and
  `WF(Beat)` asks for sweeps without choosing what they find.
- `WF(Handle)`: a datagram that was received is handled. `WF(DashLoop)`,
  `WF(TrayReads)`: the poll timers of clients that run.

`FloorIsReached`, `CapacityReturns`, `CalmIsReleased`, `AppsHearTheEnd` and
`DashboardConverges` are conditional on the cause staying
(`<>[]`), as the code can promise nothing about a battery that keeps hovering or
memory that keeps filling up.

## 4. What is proved

Every invariant and every action property the runs check is a theorem of its
specification, and so is the refinement of the snapshot register. No bound of
the runs is used: the results hold for any number of processes, windows,
readers, fields, points, files, updates and kills. A specification that a run composes with others that
share no state (`MCProfileHardware`, `MCHousekeeping`) is proved about by
itself; that every step of the composition `MCHousekeeping` is a step or a
stutter of each part is proved too.

Liveness is out of the proof system's reach. Where a liveness property rests on
one step that makes progress, or on a state that is not left again, that step is
stated as an action property and proved:

| Model-checked | Proved step | Theorem |
|---|---|---|
| `FloorIsReached` | `FloorStands`: a deep sweep reaches the floor, and nothing leaves it | `FloorIsKept` |
| `CeilingComesBack` | `ClockStaysOpen`: a deep sweep opens the clock; nothing of the daemon's closes it | `ClockIsKeptOpen` |
| `BatterySavingsYield` | `SavingsStayOver`: a deep sweep ends them, no probe resumes them | `SavingsAreEnded` |
| `CapacityReturns` | `CalmGivesBack`: an evaluation in calm goes one tier down, slows nobody, and at Normal gives a file up | `CalmIsAWayBack` |
| `CalmIsReleased` | `SweepDropsCalm`: no sweep makes or keeps a record of a calm process beyond its hold | `CalmAreDropped` |
| `PlayersLeaveIdle` | `SweepFreesPlayers`: only the last record of a player can put it back | `PlayersAreFreed` |
| `PressureIsRelieved` | `SweepMakesRoom`: a due look deletes a file if there is one | `SweepsProgress` |
| `AppsHearTheEnd` | `EndIsAnnounced`: the first look after the shortage says so, or has lost its connection | `EndIsHeard` |
| `WorkersMakeRoom` | `LookDropsWorkers`: one look under pressure is enough, for no more workers than a pass takes | `WorkersAreDropped` |

- **WindowGovernor_proofs.** `Inv` adds five facts to the properties. A stopped
  daemon has no records (`DownIsEmpty`), or a start would act on old ones. A
  snapshot never holds the boost mask (`SnapMask`), or a release would leave it
  on; this needs `MaskOnlyOnFocus` itself for the process that is captured. The
  focused process is not throttled (`FocusIsWoken`). Records of shielded
  processes never say idle (`ShieldedRecords`), or a write-back would put them
  there. Records of untainted processes hold the process's own values
  (`OriginalsAreBase`): this is what gives `UnmanagedAtBase`. The primitives are
  summed up by lemmas; the step lemmas treat the process an event names and all
  others separately (`Global` and `Local`). `DeepensOnlyWhenDue` (a step to
  stage 2 is taken only after the wait and without audio) is a step property,
  is proved only, and follows from `Inv` and the shape of the steps.
- **ProfileAuthority_proofs.** `SelectionSticks` is inductive with: the 20%
  latch implies the 30% latch, so a spent discharge cannot be demoted by the
  second threshold (`LatchOrder`); a sweep that saw 6..20% has spent the latch
  (`SpentIsLatched`); a sticky choice is one made while spent (`StickyInv`).
  `PublishedIsInForce` needs the cached report to agree as well (`CacheInv`),
  because the light probe publishes that. `SweepsAreFrequent` follows from
  `probes <= tick` (`ProbesInv`): what resets the one resets the other. `FloorStands`
  needs `CacheInv` as well, for the probe that publishes the cached report.
- **TelemetrySeqlock_proofs.** Until trust is lost: an idle writer has an even
  version and its memory is the published record; a writing one has an odd
  version (`VersionInv`). A reader that loaded an even version still equal to
  the current one holds, in every field it has copied, the published value
  (`CopyInv`); so an accepted copy is one of the records since the call
  (`AcceptedIsPublished`). `Refinement` maps every step of the seqlock to a step
  or a stutter of the register.
- **MemoryPressureGuard_proofs.** The brake is proved over the whole
  composition, without any fact about swap: the guard's own types with the limit
  of throttled processes (`GuardTypeCorrect`), `BrakeOnlyUnderThrottle` (a
  release accompanies every way out of the Throttle tier, in either profile
  family), `BrakesAreRemembered` and the step property `PerformanceBrakesLast`.
  `RecordMatchesDisk` and the full `TypeOK` need an invariant of the swap half.
  `SwapInv` says, of a running daemon, that the tracked files are distinct as a
  sequence (a count would not survive `Front`) and that a pending index belongs
  to a file a child works on: otherwise a finished file could be activated a
  second time. Then the record is never longer than there are files, which is
  the bound of the array `m_files`. One lemma for each decision of the expander
  (`Grown`, `Polled`, `Trimmed`, `Adopted`) and each step of a child; `Evaluate`
  follows by composing them in its order. `CalmGivesBack` uses both halves. Its
  arithmetic is that with no swap in use a sample shows all of it free, and at
  least a base and an increment while a file is on, even as another one leaves.
  That nothing new is built needs a base of three quarters of an increment: a
  smaller one is never free enough for `should_expand` (the oscillation of the
  plan), and the property says so instead of assuming it away.
- **Housekeeping_proofs**, the small components.
  *Base swap*: `SwapIsThere`. `StateInv` is a predicate on the record
  that `Poll`, `RightSize` and `Hygiene` hand on, so each is shown to keep it for
  every answer of the kernel. It adds that a child that reports success has left
  the file it was to build, that the old file goes off only by the child that
  drains it, when the new one is on (`HandOver`), and that a daemon that is down
  or idle has no child.
  *Disk*: a sweep is bounded (`SweepStaysInBudget`), takes the tiers in order
  (`SweepsInOrder`) and makes room (`SweepMakesRoom`), wherever the early exits
  cut it: arithmetic on what a tier leaves of files and budget.
  *Relief*: `OwedIsRemembered` is about the record `Notify` hands on from caller
  to caller, so each of the three keeps it (`Knows`), whatever becomes of the
  connection; `EndIsAnnounced` follows. `ShieldedKeepPages` says that no pass
  chooses a process of tiers 0 to 2: one whose control group holds only such
  (`Spared`) keeps its pages, because a group that is reclaimed holds the process
  it is reclaimed for. Beside another process it does lose pages (section 5).
  `LookDropsWorkers` rests on the cap (`PicksAll`): no more workers than it are
  all taken, and no later pass of the look gives pages back (`DroppedStay`).
  *Clients*: `AnswerIsOwn` and `OneQuestion` need each other, and that what waits
  in the socket of the daemon is the question the dashboard asked (`Matches`), or
  nothing when it is quiet (`Quiet`); the type of what the dashboard shows rests
  on them, because it takes its mode from an answer.
  *The composition*: `HousekeepingTypes` and `HousekeepingIsSafe`.
- **HistoryRing_proofs.** `SnapshotsAreInOrder`, in two halves. The daemon's
  (`WriterInv`) says for each store of an append which points the cells hold and
  where `head` and `count` stand; it rests on arithmetic of the remainder, that
  two points fewer than `Capacity` apart never share a cell. The reader's
  (`CurrentInv`) says that while the version it loaded has not moved, what it
  has copied is a prefix of what the ring stands for now.
- **Hardware_proofs.** `HotIsFullSpeed`, `CapsAreNotLaundered`, `ParkIsLifted`,
  `NothingOutlivesItsProfile` and, for the knobs and the fan together,
  `StopGivesBack`. `HwInv` has a part for each reason why a stop could go wrong.
  `Sound`: a captured knob not marked as touched has the user's value, or its
  baseline was laundered. `BaseKept` and `BusBaseKept`: the two baselines hold
  the user's values, but for the laundered ones and for a cap and a boost that
  the capture took for a leftover. `CapsKept` and `LeftBehind`: a
  boost found disabled beside an uncapped clock is the user's own choice, because
  no daemon, killed or not, leaves the machine so; this is what a capture relies
  on. `ParkKept`: once the playback ended the codec is not parked. `InScope`: what has been
  touched, by profile. `FanInv` says where the user's level is
  kept: in the knob until the first write, in the saved level from then on.
  `ClockStaysOpen` and `SavingsStayOver` follow `Open` through every setter of
  the unrestricted rows.
- **MitigationLedger_proofs.** `EveryCapIsOnRecord` and the step property
  `DropGivesBack`. `Kept` is what holds between any two steps of a sweep: a
  number has one record; a record is of this process or of an earlier one with
  its number, and its nice value is one this process may be left with (`Home`);
  a process has such a value, or a cap and a record (`Accounted`); only a process
  nothing protects is in the idle class. `Audited`, `ReleaseOnChange`, `Treat`
  and `Deescalate` each keep it. That the loop (`Walk`) keeps it for a report
  of any length is an induction over its places; the library's theorem takes an
  operator, so it is done by the least place at which it would fail
  (`NatIsReached`, from the well-foundedness of `<`). The same induction shows
  what the loop spares (`Spares`): it records nothing calm and nothing that
  plays, and idles no player. `SweepDropsCalm` and `SweepFreesPlayers` combine it
  with the stages before and after the loop (`SweepRun`).

The assumptions are the named ones on the constants. Most give the shapes and
positive sizes of readings, waits, files, points and kills. Two exclude machines
the code does not handle either: `HostsAssumption` says that the user's desktop
settings are the defaults and the power control of the Ethernet port is "on",
which the code takes for granted instead of reading them; `ProcsAssumption` says
that processes are finitely many, and control groups are not themselves
processes (a quota's target is one or the other). `LedgerAssumption` and
`HostingsAssumption` say what a process, its load and its number's successors
are; `DiskAssumption` orders the two thresholds of the disk guard, above zero.

Only model-checked are the liveness properties themselves: that the proved steps
come, one after another, is what fairness adds. For `DueIsServed`, `ReadsReturn`
and `DashboardConverges` no step is proved beyond the safety properties of their
modules: an evaluation serves whatever is due by definition, the read is bounded
by its counter, and the dashboard converges over several polls of which none
alone is progress.

Every property has a mutant of a modelled definition that breaks it.

## 5. Findings

Seven runs state what a document, comment or requirement says, and show an
execution of the code that contradicts it.

1. `window_focus_loss` - a window engaged while soft-throttled has the
   throttled nice value captured as its original
   (`policy/window_aware_governor.cpp` 186 before 239); losing the focus writes
   it back, and no entry is left to correct it.
2. `profile_demotion` - a battery demotion reaches every software copy of the
   mode but `apply_power_profile` is never called for it.
3. `profile_startup` - the first light probe after start-up publishes Balanced,
   the default of `cached_report_`, over the persisted mode.
4. `telemetry_killed` - the version left odd by a kill inside an update inverts
   the protocol's parity for every later daemon: records are accepted exactly
   while they are being written.
5. `swap_ceiling` - a refused swapoff leaves a file active that `m_count` no
   longer counts: no slot is free, yet the budget is not "exhausted", so in
   Performance the guard neither grows nor brakes.
6. `quota_release` - the quota of a process that has exited cannot be lifted
   through its pid; its siblings in the control group keep it.

7. `tray_override_latch` - the tray shows a choice from the click until exactly
   that profile is published (`tray/tray_client.cpp` 1345, 111-127). Refused,
   lost or overtaken, it is shown for ever; the dashboard had the same defect,
   and its fix (`ui/dashboard_backend.cpp` 612-616) was not carried over.

Seen while modelling and not stated as a run:

- *Profile and window.* A lease of FULL_TELEMETRY that runs out before the first
  cycle inside it resets the background count with no sweep done
  (`core/daemon_runner.cpp` 827-834, 646-650), so the 60-second sweep can be
  postponed by a dashboard whenever the loop is held up for 2.5 s; the other
  requests that take a lease sweep at once. The demotion latch is not persisted, so a restart within
  one discharge demotes again; REQ-026 speaks of exponential backoff that
  `read_atomic` does not have; entries of the window table are never freed.
- *Hygiene.* The orphan sweep subtracts an epoch time stamp from a steady clock
  (`memory_hygiene_engine.cpp` 238-246) and finds no file old enough; it and the
  batch clamp are not modelled. `swapon("/swap/swapfile", -1)` (336) passes flags
  Linux does not know and ignores the answer, where REQ-134:82 wants the device
  re-enabled.
- *Base swap.* The swapoff of the new file is not looked at before its unlink; a
  kill between the unlink and the rename, or a refused rename, leaves no base
  file. `SwapIsThere` excuses exactly these.
- *Relief.* Targeted reclaim consults neither focus nor audio (REQ-130 3.2); the
  page-out asks its caps after a batch; ZRAM totals stay when `/proc/swaps` is
  empty. The bus connection is not reopened once lost: `m_bus` stays set and every
  later emit fails (`policy/low_memory_notifier.cpp` 58-60, 76-98), so a
  shortage that was announced before never ends for applications while that
  daemon lives. `memory.reclaim` is the control group's, so the processes of
  tiers 0 to 2 that share one with a reclaimed process lose pages too. The
  advisory pass is to take file pages only (`policy/memory_pressure_guard.cpp`
  213), but its write fails as well where the group holds too few of them, and is
  then repeated for any pages (`policy/mitigation_engine.cpp` 2829-2832).
- *Hardware.* EPP, runtime PM, the frequency floor and the skin temperature limit
  are never returned. A profile change during playback restores the codec
  baseline with the park still noted, so it is not parked again. The bus
  controller writes its codec timeout over the park on every battery tick, and
  its rollback puts its baseline over Performance's values. The bus returns
  Ethernet to a fixed "on". After a kill in UltraEndurance the refresh rate,
  effects and indexer stay as they are until that profile is left again.
- *Fan.* A custom curve without a reading writes level 0; points less than 1 C
  apart make `std::clamp` in `setFanPoint` undefined, and points less than 0.05 C
  apart are equal in the text that is sent, so their section is passed over with
  an OK.
- *Ledger.* The idle class, the slack and the core complex are recorded nowhere.
  A steady worker of 0.3 W is capped and released again and again. The healing
  leaves nice at 0 whatever it was. The group quota of UltraEndurance is not
  lifted by a profile change.

## 6. Assumptions and what is not modelled

- x86-64 ordering of plain stores around release and acquire (section 2).
- `DueIsServed` is about windows that are due: while a clock that was stepped
  back keeps one from being due it claims nothing.
- The `memory.reclaim` of a background worker can be written, and takes file
  pages where there are any worth a pass.
- `SwapIsThere` claims nothing from a deswap whose re-activation was refused to
  the next boot. On Linux it always is refused (section 5): what the property
  says of the deswap is for a kernel that accepts it, and otherwise only that
  the migration, before any deswap, keeps the swap and the base file.
- The service manager kills the daemon's children with it; a swapoff that is
  killed leaves its file active.
- Baselines are of the class SCHED_OTHER and all cores; a timer slack other than
  50 us that a process chose itself is not restored by entries, and
  `UnmanagedAtBase` does not claim it.
- `repair_orphaned_affinity_masks` sees every process at start-up.
- A pid is not reused while `m_throttled` still holds it (the governor's model
  and the ledger's do let pids be reused).
- Writes to sysfs and procfs succeed, except where a module says otherwise; the
  desktop's commands find a session.
- In `HistoryRing` nothing is appended after a kill inside an append: the parity
  is inverted then, as `telemetry_killed` shows for the other record.

Not modelled:

- `MitigationEngine::evaluate_and_actuate`, `determine_profile` and
  `rollback_all`, and the unified rollback coordinator: no caller outside tests.
- The tmpfs and batch strategies of the hygiene engine, the feature manager's
  memory reclaim, the freezer (off by default), PM QoS latency floors of the
  engine, GPU overdrive.
- The fan studio of the dashboard, histories, QML, D-Bus menus and drawing.
- Hardware probes, the process analyzer, reports, the logger, localisation, the
  command line (I/O and text); the attribution engine (floating-point arithmetic
  on one sample).

## 7. Plan

Done: `WindowGovernor`, `ProfileAuthority`, `TelemetrySeqlock` refining
`SnapshotRegister`, `SwapExpander` with `MemoryPressureGuard`,
`HardwareBaseline`, `FanControl`, `MitigationLedger`, `HistoryRing`, `BaseSwap`,
`DiskPressure`, `PressureRelief`, `Clients`.

Proved: every safety property of these, with its inductive invariant (section 4).

Next:

1. `DaemonLoop` - the single thread as the composition of governor, guard and
   ledger: three writers of one nice value.
2. The grow and release oscillation on an 8 GiB base in finer units.

## 8. Running it

    tlc -workers 2 -config MCWindowGovernor.cfg MCWindowGovernor
    tlapm WindowGovernor_proofs.tla
