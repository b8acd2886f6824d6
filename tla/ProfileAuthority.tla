-------------------------- MODULE ProfileAuthority --------------------------
(***************************************************************************)
(* Which power profile is in force.  The answer is held in six places that *)
(* change at different moments: the feature manager's override, the        *)
(* engine's effective profile, the daemon's cached report, the shared      *)
(* memory clients read, the limits written to the hardware, and the file   *)
(* that survives a restart.  PROFILE commands, the battery rules of the    *)
(* deep sweep, the light probe between sweeps and restarts each write some *)
(* of them.                                                                *)
(***************************************************************************)
EXTENDS Integers

CONSTANTS
  Readings,      \* battery readings [onBatt, pct] the probe can return
  SweepPeriod    \* background ticks between deep sweeps (6)

(* PowerProfileMode, ordered towards more saving. *)
Performance == 0
Balanced == 1
PowerSaver == 2
UltraEndurance == 3
Modes == Performance..UltraEndurance

ASSUME ReadingsAssumption == Readings \subseteq [onBatt: BOOLEAN, pct: 0..100]
ASSUME SweepAssumption == SweepPeriod \in Nat \ {0}

VARIABLES
  up,          \* the daemon process exists
  pc,          \* where its single thread is: idle, or inside a PROFILE command or its start-up
  override,    \* FeatureManager::m_profile_override
  latch,       \* FeatureManager::m_demotion_latch
  effective,   \* s_effective_profile
  cached,      \* cached_report_.mitigation_status.current_profile
  published,   \* power_profile_mode in /dev/shm
  hw,          \* the profile of the last apply_power_profile
  saved,       \* the persisted mode, or "empty"
  seen,        \* the battery reading of cached_report_
  tick,        \* bg_tick_count_ modulo the sweep period
  lease,       \* is_interactive_active_
  battery,     \* what the hardware would report now
  chosen,      \* history: the last mode a PROFILE command of this daemon set
  spent,       \* history: a sweep of this daemon saw 6..20% and none since saw AC or above 25%
  sticky,      \* history: chosen was set while spent, and nothing since could overrule it
  probes,      \* history: light probes since the last sweep, start or lease that ran out
  fresh        \* history: neither a sweep nor a PROFILE command since start

vars == <<up, pc, override, latch, effective, cached, published, hw, saved, seen,
          tick, lease, battery, chosen, spent, sticky, probes, fresh>>
history == <<chosen, spent, sticky, probes, fresh>>

Off == -1      \* no profile: the captured baseline is in force, or none was chosen
Empty == -1    \* the state file holds no mode: missing, truncated or never written
Latches == [crossed30: BOOLEAN, crossed20: BOOLEAN]
OpenLatch == [crossed30 |-> FALSE, crossed20 |-> FALSE]

TypeOK ==
  /\ up \in BOOLEAN
  /\ pc \in {"idle", "observe", "truncate", "write"}
  /\ override \in Modes
  /\ latch \in Latches
  /\ effective \in Modes
  /\ cached \in Modes
  /\ published \in Modes
  /\ hw \in Modes \cup {Off}
  /\ saved \in Modes \cup {Empty}
  /\ seen \in Readings
  /\ tick \in 0..(SweepPeriod - 1)
  /\ lease \in BOOLEAN
  /\ battery \in Readings
  /\ chosen \in Modes \cup {Off}
  /\ spent \in BOOLEAN
  /\ sticky \in BOOLEAN
  /\ probes \in Nat
  /\ fresh \in BOOLEAN

-----------------------------------------------------------------------------
(* MitigationEngine::resolve_profile *)

Larger(m, n) == IF m < n THEN n ELSE m

Critical(r) == r.onBatt /\ r.pct <= 5

(* The latch after the recovery rules, which come before everything else. *)
Rearmed(l, r) == [crossed30 |-> l.crossed30 /\ r.onBatt /\ r.pct <= 35,
                  crossed20 |-> l.crossed20 /\ r.onBatt /\ r.pct <= 25]

Crosses20(l, r) == r.onBatt /\ ~Critical(r) /\ r.pct <= 20 /\ ~Rearmed(l, r).crossed20
Crosses30(l, r) == r.onBatt /\ ~Critical(r) /\ r.pct <= 30 /\ ~Rearmed(l, r).crossed30

SpendOnly20(l, r) ==
  [crossed30 |-> Rearmed(l, r).crossed30 \/ (Crosses30(l, r) /\ ~Crosses20(l, r)),
   crossed20 |-> Rearmed(l, r).crossed20 \/ Crosses20(l, r)]

(* A drop past both thresholds spends both. *)
Spend(l, r) ==
  [crossed30 |-> Rearmed(l, r).crossed30 \/ Crosses30(l, r) \/ Crosses20(l, r),
   crossed20 |-> Rearmed(l, r).crossed20 \/ Crosses20(l, r)]

ResolveUpward(current, r, l) ==
  IF Critical(r) THEN UltraEndurance
  ELSE IF Crosses20(l, r) THEN PowerSaver
  ELSE IF Crosses30(l, r) THEN Larger(current, Balanced)
  ELSE current

Resolve(current, r, l) ==
  IF Critical(r) THEN UltraEndurance
  ELSE IF Crosses20(l, r) THEN Larger(current, PowerSaver)
  ELSE IF Crosses30(l, r) THEN Larger(current, Balanced)
  ELSE current

-----------------------------------------------------------------------------
(* The two observations. *)

SeesLow(r) == r.onBatt /\ r.pct > 5 /\ r.pct <= 20
SeesRecovery(r) == ~r.onBatt \/ r.pct > 25

(* process_deep_observation_cycle: sample, FeatureManager's profile         *)
(* decision, export.  apply_power_profile is not called, so hw keeps the    *)
(* profile of the last command or start.                                    *)
DeepSweep ==
  LET mode == Resolve(override, battery, latch) IN
  /\ latch' = Spend(latch, battery)
  /\ override' = mode
  /\ effective' = mode
  /\ cached' = mode
  /\ published' = mode
  /\ seen' = battery
  /\ spent' = IF SeesLow(battery) THEN TRUE ELSE spent /\ ~SeesRecovery(battery)
  /\ sticky' = (sticky /\ ~SeesRecovery(battery) /\ ~Critical(battery))
  /\ probes' = 0
  /\ fresh' = FALSE
  /\ UNCHANGED <<hw, saved, chosen>>

(* process_light_probe_cycle: sample and export the cached report. *)
LightProbe ==
  /\ seen' = battery
  /\ published' = cached
  /\ probes' = IF lease THEN 1 ELSE probes + 1
  /\ UNCHANGED <<override, latch, effective, cached, hw, saved, chosen, spent, sticky, fresh>>

(* process_observation_cycle.  The lease's deadline is not modelled: a cycle *)
(* may find it expired, and then the background count restarts from 0.      *)
TickUnwrapped(t) == t + 1
TickAfter(t) == (t + 1) % SweepPeriod
NextTick == TickAfter(IF lease THEN 0 ELSE tick)

InteractiveCycle ==
  /\ lease
  /\ DeepSweep
  /\ UNCHANGED <<tick, lease>>

ScheduledCycle ==
  /\ NextTick = 0
  /\ DeepSweep
  /\ tick' = 0
  /\ lease' = FALSE

QuietCycle ==
  /\ NextTick # 0
  /\ LightProbe
  /\ tick' = NextTick
  /\ lease' = FALSE

SpikeOnlyRealigns ==
  /\ NextTick # 0
  /\ LightProbe
  /\ tick' = 0
  /\ lease' = FALSE

(* The light probe saw a power spike: an early deep sweep follows at once,  *)
(* and the background count is realigned to it.                             *)
SpikeCycle ==
  /\ NextTick # 0
  /\ DeepSweep
  /\ tick' = 0
  /\ lease' = FALSE

(* The timer fires, or start-up or a PROFILE command ends in a cycle. *)
Observe ==
  /\ up
  /\ pc \in {"idle", "observe"}
  /\ pc' = "idle"
  /\ InteractiveCycle \/ ScheduledCycle \/ QuietCycle \/ SpikeCycle
  /\ UNCHANGED <<up, battery>>

(* FULL_TELEMETRY answers from the cached report and takes a lease, with no *)
(* sweep of its own.  It renews a lease there is, as HEARTBEAT does.         *)
AskTelemetry ==
  /\ up
  /\ pc = "idle"
  /\ ~lease
  /\ lease' = TRUE
  /\ UNCHANGED <<up, pc, override, latch, effective, cached, published, hw, saved, seen, tick,
                 battery, history>>

(* INTERACTIVE and HEARTBEAT without a lease, and RESCAN: a lease and an    *)
(* immediate sweep.                                                         *)
Interact ==
  /\ up
  /\ pc = "idle"
  /\ DeepSweep
  /\ lease' = TRUE
  /\ UNCHANGED <<up, pc, tick, battery>>

-----------------------------------------------------------------------------
(* PROFILE <mode> from an authorized client.  The handler is split at the   *)
(* two system calls that leave the state file half written if the daemon    *)
(* dies between them.                                                       *)
SelectKeepsCache(mode) ==
  /\ up
  /\ pc = "idle"
  /\ ~(mode # UltraEndurance /\ Critical(seen))
  /\ override' = mode
  /\ published' = mode
  /\ hw' = mode
  /\ pc' = "truncate"
  /\ chosen' = mode
  /\ sticky' = spent
  /\ fresh' = FALSE
  /\ UNCHANGED <<up, latch, effective, cached, saved, seen, tick, lease, battery, spent, probes>>

SelectUnfloored(mode) ==
  /\ up
  /\ pc = "idle"
  /\ override' = mode
  /\ cached' = mode
  /\ published' = mode
  /\ hw' = mode
  /\ pc' = "truncate"
  /\ chosen' = mode
  /\ sticky' = spent
  /\ fresh' = FALSE
  /\ UNCHANGED <<up, latch, effective, saved, seen, tick, lease, battery, spent, probes>>

SelectProfile(mode) ==
  /\ up
  /\ pc = "idle"
  /\ ~(mode # UltraEndurance /\ Critical(seen))
  /\ override' = mode
  /\ cached' = mode
  /\ published' = mode
  /\ hw' = mode
  /\ pc' = "truncate"
  /\ chosen' = mode
  /\ sticky' = spent
  /\ fresh' = FALSE
  /\ UNCHANGED <<up, latch, effective, saved, seen, tick, lease, battery, spent, probes>>

(* persist_profile_mode: open with O_TRUNC, then write. *)
TruncateSaved ==
  /\ up
  /\ pc = "truncate"
  /\ pc' = "write"
  /\ saved' = Empty
  /\ UNCHANGED <<up, override, latch, effective, cached, published, hw, seen, tick, lease,
                 battery, history>>

WriteSaved ==
  /\ up
  /\ pc = "write"
  /\ pc' = "observe"
  /\ saved' = chosen
  /\ UNCHANGED <<up, override, latch, effective, cached, published, hw, seen, tick, lease,
                 battery, history>>

Persist == TruncateSaved \/ WriteSaved

-----------------------------------------------------------------------------
(* Start-up, the end of the daemon, and the battery. *)

(* initialize: the persisted mode, or Balanced, is overridden, applied and  *)
(* published; the report and the engine start from Balanced.                *)
Start ==
  LET initial == IF saved = Empty THEN Balanced ELSE saved IN
  /\ ~up
  /\ up' = TRUE
  /\ pc' = "observe"
  /\ override' = initial
  /\ hw' = initial
  /\ published' = initial
  /\ cached' = Balanced
  /\ effective' = Balanced
  /\ latch' = OpenLatch
  /\ seen' = battery
  /\ tick' = 0
  /\ lease' = FALSE
  /\ chosen' = Off
  /\ spent' = FALSE
  /\ sticky' = FALSE
  /\ probes' = 0
  /\ fresh' = TRUE
  /\ UNCHANGED <<saved, battery>>

(* SIGTERM is served between events; the destructor restores the hardware   *)
(* baseline.  SIGKILL strikes anywhere and restores nothing.                *)
Stop ==
  /\ up
  /\ pc = "idle"
  /\ up' = FALSE
  /\ hw' = Off
  /\ UNCHANGED <<pc, override, latch, effective, cached, published, saved, seen, tick, lease,
                 battery, history>>

Crash ==
  /\ up
  /\ up' = FALSE
  /\ pc' = "idle"
  /\ UNCHANGED <<override, latch, effective, cached, published, hw, saved, seen, tick, lease,
                 battery, history>>

BatteryChanges ==
  /\ battery' \in Readings \ {battery}
  /\ UNCHANGED <<up, pc, override, latch, effective, cached, published, hw, saved, seen,
                 tick, lease, history>>

Init ==
  /\ up = FALSE
  /\ pc = "idle"
  /\ override = Balanced
  /\ latch = OpenLatch
  /\ effective = Balanced
  /\ cached = Balanced
  /\ published = Balanced
  /\ hw = Off
  /\ saved \in Modes \cup {Empty}
  /\ battery \in Readings
  /\ seen = battery
  /\ tick = 0
  /\ lease = FALSE
  /\ chosen = Off
  /\ spent = FALSE
  /\ sticky = FALSE
  /\ probes = 0
  /\ fresh = TRUE

Next ==
  \/ Observe
  \/ AskTelemetry
  \/ Interact
  \/ \E mode \in Modes : SelectProfile(mode)
  \/ Persist
  \/ Start
  \/ Stop
  \/ Crash
  \/ BatteryChanges

(* The timer keeps firing, and a handler that has begun goes on.  A lease   *)
(* lasts 4.5 s and the timer it arms fires after 2 s, so a cycle inside it  *)
(* may be late now and then, but not every time.                            *)
ObserveInLease ==
  /\ up
  /\ pc \in {"idle", "observe"}
  /\ pc' = "idle"
  /\ InteractiveCycle
  /\ UNCHANGED <<up, battery>>

Spec == Init /\ [][Next]_vars /\ WF_vars(Observe) /\ SF_vars(ObserveInLease) /\ WF_vars(Persist)

-----------------------------------------------------------------------------
(* Properties. *)

(* REQ-094.4: a mode the user selects after the 20% threshold was crossed   *)
(* stands for the rest of the discharge, however long the battery hovers    *)
(* around the thresholds: nothing demotes it a second time above 5%.        *)
SelectionSticks == sticky => override = chosen

(* REQ-094.2 and 094.5: what the daemon changes on its own is only ever     *)
(* towards more saving and only on battery.                                 *)
Selecting == pc = "idle" /\ pc' = "truncate"
AutomaticOnlySaves ==
  [][up /\ up' /\ ~Selecting /\ override' # override =>
       battery.onBatt /\ override' > override]_vars

(* What clients read is the mode in force from the first sweep or command   *)
(* of a daemon's life on: a light probe between sweeps never republishes a  *)
(* mode a command or a demotion replaced.                                   *)
PublishedIsInForce == up /\ ~fresh => published = override

(* Clients are never shown a mode other than the one in force, not even     *)
(* between start-up and the first sweep (REQ-091.1).                        *)
PublishedFromStart == up => published = override

(* The policy is not blind for a whole period: leases, their expiry, spikes *)
(* and commands move the background count, and still no more than           *)
(* SweepPeriod - 1 light probes pass between two deep sweeps.  The one      *)
(* thing that starts them anew is a lease of FULL_TELEMETRY that ran out    *)
(* before the first cycle inside it: the count is reset and no sweep done.  *)
SweepsAreFrequent == probes < SweepPeriod

(* A profile the battery rules impose is also the one the hardware runs at. *)
DemotionReachesHardware ==
  [][up /\ up' /\ override' # override => hw' = override']_vars

(* The step FloorIsReached rests on: with the battery critical, a deep sweep *)
(* brings the daemon to the floor, and no command, probe, lease or handler   *)
(* cut in two by the timer takes it off again (REQ-094.3).                   *)
AtFloor ==
  override = UltraEndurance /\ published = UltraEndurance /\ Critical(seen) /\ ~fresh
FloorStands ==
  [][up /\ up' /\ Critical(battery) /\ (AtFloor \/ DeepSweep) => AtFloor']_vars

(* The 5% floor: while the battery stays critical and the daemon up, the    *)
(* mode in force and the mode shown become UltraEndurance and stay so,      *)
(* whatever commands arrive.                                                *)
FloorIsReached ==
  <>[](up /\ Critical(battery)) =>
    <>[](override = UltraEndurance /\ published = UltraEndurance)
=============================================================================
