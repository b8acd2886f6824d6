-------------------------- MODULE HardwareBaseline --------------------------
(***************************************************************************)
(* The knobs of the machine the daemon turns, and the way back.            *)
(*                                                                         *)
(* At start the mitigation engine captures a baseline of every knob; each  *)
(* profile writes its own row and undoes what the others added; an orderly *)
(* stop writes the baseline back.  Two more writers share the panel, ASPM  *)
(* and codec knobs with it: the bus controller, which saves on battery     *)
(* with a baseline of its own, and the audio audit, which parks the codec  *)
(* timeout while a stream plays.  Knobs are kernel state: a killed daemon  *)
(* leaves them as they are, and the next one captures what it finds.       *)
(***************************************************************************)
EXTENDS Naturals, FiniteSets

CONSTANTS
  Hosts,      \* the machines: what the user set, and the other power manager that runs
  MaxKills    \* bound on SIGKILLs

Profiles == {"Performance", "Balanced", "PowerSaver", "UltraEndurance"}
Unrestricted == {"Performance", "Balanced"}

(* The knobs, by what the capture at start does with them: read from the     *)
(* machine, taken for a fixed default, or never looked at - and then never   *)
(* returned.  Left out: the skin temperature limit, which is written with    *)
(* the SMU limits and never returned either, and the codec's controller      *)
(* switch, which follows its timeout.                                        *)
Firmware == {"platform", "governor", "boost", "aspm"}
Graphics == {"panel", "gpu"}
Radios == {"smt", "bluetooth"}
Writeback == {"vm"}
Codec == {"hda"}
Unleash == {"gpuMode", "apst", "nvme", "wifi", "migration"}
Desktop == {"refresh", "effects", "baloo", "txPower"}
Smu == {"smu"}
Forgotten == {"epp", "floor", "devicePm", "soundPm"}

Extras == Desktop \cup Writeback \cup {"backlight"}
BusKnobs == {"panel", "aspm", "hda", "vmStat", "ethernet"}
Knobs == Firmware \cup Graphics \cup Radios \cup Codec \cup Unleash \cup Extras
           \cup Forgotten \cup BusKnobs \cup Smu \cup {"ceiling"}

Locked == "0"        \* an SMU limit that cannot be read, or a machine without ryzenadj
Unread == "unread"   \* the table of the SMU limits was not read, or carries no number
Unparked == "none"   \* audio_codec_power_save_suspended = -1

VARIABLES
  hwUp,       \* the daemon process exists
  engine,     \* knob: the machine; base, touched, parked: MitigationEngine's statics
  bus,        \* HardwareBusController: base and applied
  applied,    \* the profile of the last apply_power_profile
  selected,   \* m_profile_override
  inForce,    \* s_effective_profile, written by the deep sweep
  owner,      \* s_competitor: the other power manager that runs, or "none"
  heard,      \* s_audio_state.active
  user,       \* what the user last set (a history)
  laundered,  \* knobs captured with a value a killed daemon left (a history)
  kills

hwDaemon == <<bus, applied, selected, inForce, heard>>
hwVars == <<hwUp, engine, hwDaemon, owner, user, laundered, kills>>

Values == {"user", "low", "high", "default", "performance", "balanced", "low-power",
           "schedutil", "powersave", "powersupersave", "balance_performance", "balance_power",
           "power", "max", "1.7", "1.4", "peak", "raised", "48", "suspended", "1200", "15s/30s",
           "auto", "on", "min", "0", "1", "2", "3", "5", "10"}

(* The capture takes the desktop's settings for the defaults, and the bus    *)
(* controller the power control of the port for "on": of a user who set them *)
(* otherwise the daemon knows nothing, and he is not among the hosts.        *)
ASSUME HostsAssumption ==
  \A host \in Hosts :
    /\ host.settings \in [Knobs -> Values]
    /\ \A k \in Desktop : host.settings[k] = "default"
    /\ host.settings["ethernet"] = "on"
    /\ host.manager \in {"none", "ppd", "other"}

ASSUME KillsAssumption == MaxKills \in Nat

HwTypeOK ==
  /\ hwUp \in BOOLEAN
  /\ engine \in [knob: [Knobs -> Values], base: [Knobs -> Values],
                 touched: SUBSET Knobs, parked: {Unparked} \cup Values]
  /\ bus \in [base: [BusKnobs -> Values], applied: BOOLEAN]
  /\ {applied, selected, inForce} \subseteq Profiles
  /\ owner \in {"none", "ppd", "other"}
  /\ heard \in BOOLEAN
  /\ user \in [Knobs -> Values]
  /\ laundered \subseteq Knobs
  /\ kills \in 0..MaxKills

-----------------------------------------------------------------------------
(* Writing a row of knobs, and giving touched knobs their baseline back.     *)

(* f, and g where f says nothing: what @@ is in TLC, whose definition is     *)
(* not a module's, for the proofs.                                           *)
f ++ g ==
  LET named == DOMAIN f IN [k \in named \cup DOMAIN g |-> IF k \in named THEN f[k] ELSE g[k]]

Put(m, row) ==
  [m EXCEPT !.knob = [k \in Knobs |-> IF k \in DOMAIN row THEN row[k] ELSE @[k]]]

Touch(m, row) == [Put(m, row) EXCEPT !.touched = @ \cup DOMAIN row]

Undo(m, S) ==
  [m EXCEPT !.knob = [k \in Knobs |-> IF k \in S \cap m.touched THEN m.base[k] ELSE @[k]],
            !.touched = @ \ S]

(* The setters: the knobs that each one writes.                              *)
SetCpuGovernor(governor) == [governor |-> governor]
SetCpuBoost(on) == [boost |-> on]
SetScalingMaxFreq(limit) == [ceiling |-> limit]
SetCpuEpp(policy) == [epp |-> policy]
SetPcieAspm(policy) == [aspm |-> policy]
SetPanelPowerSavings(level) == [panel |-> level]
SetGpuDpmLevel(level) == [gpu |-> level]
SetGpuPowerProfileMode(mode) == [gpuMode |-> mode]
SetNvmeApst(latency) == [apst |-> latency]
SetNvmePowerControl(value) == [nvme |-> value]
SetWifiPowersave(value) == [wifi |-> value]
SetSchedMigrationCost(cost) == [migration |-> cost]
SetSmtControl(state) == [smt |-> state]
SetBluetoothBlocked(value) == [bluetooth |-> value]
SetDisplayRefreshRate(rate) == [refresh |-> rate]
SetKwinEffects(state) == [effects |-> state]
SetBaloo(state) == [baloo |-> state]
SetWifiTxpower(limit) == [txPower |-> limit]
SetVmWriteback(window) == [vm |-> window]
SetAudioCodec(seconds) == [hda |-> seconds]

(* The lowest clock is never withheld: it is written first, in any profile.  *)
EnforceFreqFloor(m) == Put(m, [floor |-> "min"])

(* trigger_3tier_vram_gc: what it does to the machine; the pages it reclaims *)
(* from browsers are not a knob.                                             *)
TriggerVramGc == SetKwinEffects("suspended")

(* Runtime suspend is for the classes of device known to be safe; the sound  *)
(* controller is one only while nothing plays.                               *)
AllowsRuntimePm(audioActive) == {"devicePm"} \cup (IF audioActive THEN {} ELSE {"soundPm"})
SetRuntimePm(audioActive) == [k \in AllowsRuntimePm(audioActive) |-> "auto"]

(* platform_profile has one owner: ppd is asked, any other is left alone.    *)
SetPlatform(m, profile, manager) ==
  CASE manager = "none" \/ m.knob["platform"] = profile -> Put(m, [platform |-> profile])
    [] manager = "ppd" /\ m.knob["platform"] # profile ->
         Put(m, [platform |-> IF profile \in {"performance", "low-power"} THEN profile ELSE "balanced"])
    [] OTHER -> m

AssertCeiling(m) == Put(m, SetScalingMaxFreq("max") ++ SetCpuBoost("1"))

(* A limit that could not be put back is not raised.                         *)
RaiseSmu(m) == IF m.base["smu"] = Locked THEN m ELSE Touch(m, [smu |-> "raised"])
RestoreSmu(m) == Undo(m, Smu)

ReleaseUnleash(m) == RestoreSmu(Undo(m, Unleash))

(* The brightness to return to is the one found when the cap is first put.   *)
CapBacklight(m) ==
  LET found == IF "backlight" \in m.touched THEN m
               ELSE [m EXCEPT !.base["backlight"] = m.knob["backlight"]]
  IN IF m.knob["backlight"] = "high" THEN Touch(found, [backlight |-> "low"]) ELSE found

RestoreBacklight(m) == Undo(m, {"backlight"})
RestoreDesktop(m) == Undo(m, Desktop)
RestoreWriteback(m) == Undo(m, Writeback)
RestoreCodec(m) == Undo(m, Codec)

LeaveUltra(m) ==
  LET radios == Put(m, SetSmtControl(m.base["smt"]) ++ SetBluetoothBlocked(m.base["bluetooth"]))
  IN RestoreCodec(RestoreWriteback(RestoreDesktop(RestoreBacklight(radios))))

-----------------------------------------------------------------------------
(* apply_power_profile.                                                      *)

PerformanceRow ==
  SetCpuGovernor("performance") ++ SetPcieAspm("performance") ++ SetPanelPowerSavings("0")
    ++ SetCpuEpp("performance") ++ SetGpuDpmLevel("auto")

BalancedRow(base) ==
  SetCpuGovernor("schedutil") ++ SetPcieAspm(base["aspm"]) ++ SetPanelPowerSavings("1")
    ++ SetCpuEpp("balance_performance") ++ SetGpuDpmLevel("auto")

SaverRow ==
  SetCpuGovernor("schedutil") ++ SetCpuBoost("0") ++ SetScalingMaxFreq("1.7")
    ++ SetPcieAspm("powersave") ++ SetPanelPowerSavings("2")
    ++ SetCpuEpp("balance_power") ++ SetGpuDpmLevel("auto")

UltraRow ==
  SetCpuGovernor("powersave") ++ SetCpuBoost("0") ++ SetScalingMaxFreq("1.4")
    ++ SetPcieAspm("powersupersave") ++ SetPanelPowerSavings("2")
    ++ SetCpuEpp("power") ++ SetGpuDpmLevel("low") ++ SetBluetoothBlocked("0")

UnleashRow ==
  SetGpuPowerProfileMode("peak") ++ SetNvmeApst("0") ++ SetNvmePowerControl("on")
    ++ SetWifiPowersave("0") ++ SetSchedMigrationCost("peak")

RestrictionRow ==
  TriggerVramGc ++ SetDisplayRefreshRate("48") ++ SetBaloo("suspended")
    ++ SetWifiTxpower("1200") ++ SetVmWriteback("15s/30s") ++ SetAudioCodec("10")

PlatformOf(profile) ==
  CASE profile = "Performance" -> "performance"
    [] profile = "Balanced" -> "balanced"
    [] OTHER -> "low-power"

EnterPerformance(m) ==
  LeaveUltra(RaiseSmu(Touch(AssertCeiling(Put(m, PerformanceRow)), UnleashRow)))

EnterBalanced(m) == LeaveUltra(RaiseSmu(AssertCeiling(Put(m, BalancedRow(m.base)))))

EnterSaverOnly(m) == Put(m, SaverRow)
EnterSaver(m) == LeaveUltra(Put(m, SaverRow))

EnterUltra(m, audioActive) ==
  Touch(CapBacklight(Put(m, UltraRow ++ SetRuntimePm(audioActive))), RestrictionRow)

Enter(m, profile, audioActive) ==
  CASE profile = "Performance" -> EnterPerformance(m)
    [] profile = "Balanced" -> EnterBalanced(m)
    [] profile = "PowerSaver" -> EnterSaver(m)
    [] profile = "UltraEndurance" -> EnterUltra(m, audioActive)

(* Every profile but Performance first gives back what Performance raised.   *)
Apply(m, profile, manager, audioActive) ==
  LET floored == EnforceFreqFloor(m)
      from == IF profile = "Performance" THEN floored ELSE ReleaseUnleash(floored)
  IN Enter(SetPlatform(from, PlatformOf(profile), manager), profile, audioActive)

-----------------------------------------------------------------------------
(* capture_hardware_baseline and restore_hardware_baseline.                  *)

(* The bus controller captures its own knobs, in BusCapture.                 *)
Found(h) == [k \in Knobs |-> IF k \in Desktop THEN "default" ELSE h[k]]

(* A ceiling below the hardware maximum is taken for one a killed daemon     *)
(* left behind, and with it a disabled boost.                                *)
CaptureAsFound(h) == Found(h)
Capture(h) ==
  IF h["ceiling"] = "max" THEN Found(h)
  ELSE [Found(h) EXCEPT !["ceiling"] = "max", !["boost"] = "1"]

RestorePlain(m, manager) ==
  Put(SetPlatform(m, m.base["platform"], manager),
      [k \in (Firmware \ {"platform"}) \cup Graphics \cup {"ceiling"} |-> m.base[k]])

RestoreWithoutUndo(m, manager) ==
  [ReleaseUnleash(RestorePlain(m, manager)) EXCEPT !.parked = Unparked]
Restore(m, manager) ==
  [ReleaseUnleash(LeaveUltra(RestorePlain(m, manager))) EXCEPT !.parked = Unparked]

-----------------------------------------------------------------------------
(* audit_and_heal_audio_stack: the codec timeout is parked at 0 while a      *)
(* stream runs, and the value found then is written back afterwards.         *)

Park(m) ==
  IF m.parked = Unparked /\ m.knob["hda"] # "0"
  THEN [Touch(m, SetAudioCodec("0")) EXCEPT !.parked = m.knob["hda"]]
  ELSE m

UnparkForgets(m) == [m EXCEPT !.parked = Unparked]

Unpark(m) ==
  IF m.parked # Unparked
  THEN [Touch(m, SetAudioCodec(m.parked)) EXCEPT !.parked = Unparked]
  ELSE m

Audit(m, active) == IF active THEN Park(m) ELSE Unpark(m)

-----------------------------------------------------------------------------
(* HardwareBusController: its own setters, its own baseline.                 *)

SetDisplayAbm(level) == [panel |-> level]
SetHdaPowerSave(seconds) == [hda |-> seconds]
SetVmStatInterval(seconds) == [vmStat |-> seconds]
SetPciPowerControl(value) == [ethernet |-> value]

(* The power control of the devices is not captured: "on" is what it goes    *)
(* back to.                                                                  *)
BusCapture(h) == [k \in BusKnobs |-> IF k = "ethernet" THEN "on" ELSE h[k]]

BusSaves(m, profile) ==
  Put(m, SetDisplayAbm(IF profile = "Balanced" THEN "2" ELSE "3") ++ SetPcieAspm("powersave")
           ++ SetHdaPowerSave("1") ++ SetVmStatInterval("10") ++ SetPciPowerControl("auto"))

BusRollback(m, b) == Put(m, b.base)

BusYieldsOnMains(profile, onBattery) == ~onBattery
BusYields(profile, onBattery) == ~onBattery \/ profile = "Performance"

BusEvaluate(m, b, profile, onBattery) ==
  CASE BusYields(profile, onBattery) /\ b.applied -> <<BusRollback(m, b), [b EXCEPT !.applied = FALSE]>>
    [] BusYields(profile, onBattery) /\ ~b.applied -> <<m, b>>
    [] OTHER -> <<BusSaves(m, profile), [b EXCEPT !.applied = TRUE]>>

-----------------------------------------------------------------------------
(* The daemon.                                                               *)

Cycle(m, profile, onBattery) ==
  LET done == BusEvaluate(m, bus, profile, onBattery) IN
  /\ engine' = done[1]
  /\ bus' = done[2]

(* A cycle that only probes: the bus controller acts on the profile the last *)
(* deep sweep left in force.                                                 *)
LightCycle ==
  /\ hwUp
  /\ \E onBattery \in BOOLEAN : Cycle(engine, inForce, onBattery)
  /\ UNCHANGED <<hwUp, applied, selected, inForce, heard, owner, user, laundered, kills>>

(* What a sweep can learn of the SMU limits: it asks once a minute and under *)
(* load, or when the clock starves, and the answer may be of no use.         *)
SmuReadings(m, profile) ==
  IF profile \in Unrestricted THEN {m.knob["smu"], Unread} ELSE {Unread}

(* verify_and_reassert_smu_limits: no value read is not a value too low.     *)
SmuReclaimed(m, reading) == m.base["smu"] # Locked /\ reading \notin {Unread, "raised"}

(* What a sweep re-asserts under an unrestricted profile: the ceiling and    *)
(* the boost, the platform profile, and SMU limits it finds reclaimed.       *)
ReassertPlatform(m, profile, manager, reading) ==
  IF profile \in Unrestricted THEN SetPlatform(m, PlatformOf(profile), manager) ELSE m
Reassert(m, profile, manager, reading) ==
  LET open == SetPlatform(AssertCeiling(m), PlatformOf(profile), manager) IN
  CASE profile \notin Unrestricted -> m
    [] profile \in Unrestricted /\ SmuReclaimed(m, reading) -> RaiseSmu(open)
    [] OTHER -> open

(* The battery rules may lower the selection; they do not apply the profile. *)
Weaker(p) ==
  CASE p \in Unrestricted -> {p, "PowerSaver", "UltraEndurance"}
    [] OTHER -> {p, "UltraEndurance"}

DeepCycle ==
  /\ hwUp
  /\ \E profile \in Weaker(selected), onBattery, playing \in BOOLEAN :
     \E reading \in SmuReadings(engine, profile) :
       /\ ~onBattery => profile = selected
       /\ inForce' = profile
       /\ selected' = profile
       /\ heard' = playing
       /\ Cycle(Reassert(Audit(engine, playing), profile, owner, reading), profile, onBattery)
  /\ UNCHANGED <<hwUp, applied, owner, user, laundered, kills>>

SelectOnEngine(profile) ==
  /\ hwUp
  /\ engine' = Apply(engine, profile, owner, heard)
  /\ applied' = profile
  /\ selected' = profile
  /\ UNCHANGED <<hwUp, bus, inForce, heard, owner, user, laundered, kills>>

Fresh(h) == [knob |-> h, base |-> Capture(h), touched |-> {}, parked |-> Unparked]

StartEngine(profile) ==
  /\ ~hwUp
  /\ hwUp' = TRUE
  /\ engine' = Apply(Fresh(engine.knob), profile, owner, FALSE)
  /\ bus' = [base |-> BusCapture(engine.knob), applied |-> FALSE]
  /\ applied' = profile
  /\ selected' = profile
  /\ inForce' = "Balanced"
  /\ heard' = FALSE
  /\ laundered' = {k \in Knobs \ Forgotten : engine.knob[k] # user[k]}
  /\ UNCHANGED <<owner, user, kills>>

(* The process and its memory are gone, the knobs stay.                      *)
Die(h) ==
  /\ hwUp
  /\ hwUp' = FALSE
  /\ engine' = Fresh(h)
  /\ bus' = [base |-> BusCapture(h), applied |-> FALSE]
  /\ applied' = "Balanced" /\ selected' = "Balanced" /\ inForce' = "Balanced"
  /\ heard' = FALSE
  /\ UNCHANGED <<owner, user, laundered>>

(* ~DaemonRunner: the bus controller first, then the engine's baseline.      *)
StopHardware ==
  /\ Die(Restore(BusRollback(engine, bus), owner).knob)
  /\ UNCHANGED kills

-----------------------------------------------------------------------------
(* The rest of the world.                                                    *)

(* Kills are explored in the profile that raises most and in the one that    *)
(* restricts most, where the machine is as a first start leaves it: a bound  *)
(* on what a second life can find.                                           *)
Quiet ==
  /\ applied \in {"Performance", "UltraEndurance"}
  /\ engine.knob = Apply(Fresh(user), applied, owner, heard).knob

Kill ==
  /\ kills < MaxKills
  /\ Quiet
  /\ kills' = kills + 1
  /\ Die(engine.knob)

(* Knobs are volatile: after a reboot they hold what the user configured.    *)
RebootMachine ==
  /\ ~hwUp
  /\ engine' = Fresh(user)
  /\ bus' = [base |-> BusCapture(user), applied |-> FALSE]
  /\ UNCHANGED <<hwUp, applied, selected, inForce, heard, owner, user, laundered, kills>>

(* Explored in every life but the last, and where no other power manager     *)
(* runs: a bound.                                                            *)
UserDims ==
  /\ kills < MaxKills /\ owner = "none"
  /\ \E b \in {"low", "high"} \ {engine.knob["backlight"]} :
       /\ LET dimmed == [engine EXCEPT !.knob["backlight"] = b]
          IN engine' = IF hwUp THEN dimmed ELSE Fresh(dimmed.knob)
       /\ user' = IF hwUp /\ "backlight" \in engine.touched THEN user
                  ELSE [user EXCEPT !["backlight"] = b]
  /\ UNCHANGED <<hwUp, hwDaemon, owner, laundered, kills>>

(* A resume caps the clock again and the embedded controller takes the       *)
(* raised power limit back.  Explored in every life but the last: a bound.   *)
Meddled ==
  /\ hwUp /\ kills < MaxKills
  /\ engine' = [engine EXCEPT !.knob["ceiling"] = "1.7", !.knob["smu"] = user["smu"]]
  /\ UNCHANGED <<hwUp, hwDaemon, owner, user, laundered, kills>>

HwInit ==
  /\ \E host \in Hosts : user = host.settings /\ owner = host.manager
  /\ hwUp = FALSE
  /\ engine = Fresh(user)
  /\ bus = [base |-> BusCapture(user), applied |-> FALSE]
  /\ applied = "Balanced" /\ selected = "Balanced" /\ inForce = "Balanced"
  /\ heard = FALSE
  /\ laundered = {}
  /\ kills = 0

HwDaemonStep ==
  \/ LightCycle \/ DeepCycle \/ StopHardware
  \/ \E profile \in Profiles : SelectOnEngine(profile) \/ StartEngine(profile)

HwWorldStep ==
  \/ Kill \/ RebootMachine \/ UserDims \/ Meddled

HwNext == HwDaemonStep \/ HwWorldStep

HwFairness == WF_hwVars(DeepCycle)
HwSpec == HwInit /\ [][HwNext]_hwVars /\ HwFairness

-----------------------------------------------------------------------------
(* Properties.                                                               *)

(* An orderly stop gives every captured knob the value the user had, after   *)
(* any sequence of profiles, battery phases, streams and manual dimming,     *)
(* unless a killed daemon had already falsified it or another power manager  *)
(* owns the platform profile (~DaemonRunner, restore_hardware_baseline).     *)
StopRestores ==
  [][StopHardware =>
       \A k \in Knobs \ Forgotten :
         \/ engine'.knob[k] = user[k]
         \/ k \in laundered
         \/ k = "platform" /\ owner # "none"
         \/ k \in {"ceiling", "boost"} /\ (user["ceiling"] # "max" \/ "ceiling" \in laundered)]_hwVars

(* A clock cap or a disabled boost that a killed daemon left behind never    *)
(* becomes the baseline of the next one, whatever it was killed in.          *)
CapsAreNotLaundered ==
  hwUp => /\ engine.base["ceiling"] = "max"
          /\ engine.base["boost"] = "0" => user["boost"] = "0" \/ "ceiling" \notin laundered

(* Once the audit has seen the stream end, the codec may sleep again: the    *)
(* park at 0 does not outlive playback through any profile change or bus     *)
(* rollback in between.                                                      *)
ParkIsLifted ==
  hwUp /\ ~heard /\ "hda" \notin laundered /\ user["hda"] # "0" => engine.knob["hda"] # "0"

(* "Restrictions must not outlive the profile that imposed them": outside    *)
(* UltraEndurance its desktop, radio and writeback restrictions are gone,    *)
(* and the raised SMU limits and the unleashed devices are in force only     *)
(* under the profiles that raise them, whatever the watchdogs re-assert.     *)
NothingOutlivesItsProfile ==
  hwUp =>
    /\ applied # "UltraEndurance" =>
         /\ engine.touched \cap Extras = {}
         /\ \A k \in Extras \ ({"backlight"} \cup laundered) : engine.knob[k] = engine.base[k]
    /\ "smu" \in engine.touched => applied \in Unrestricted
    /\ engine.touched \cap Unleash # {} => applied = "Performance"

(* The step CeilingComesBack rests on: while an unrestricted profile stays   *)
(* selected, a deep sweep opens the clock, and no other selection of one, no *)
(* park, reclaimed power limit or bus rollback closes it again - only what a *)
(* resume does behind the daemon's back (assert_unrestricted_cpu_ceiling).   *)
ClockIsOpen == engine.knob["ceiling"] = "max" /\ engine.knob["boost"] = "1"
ClockStaysOpen ==
  [][hwUp /\ hwUp' /\ {selected, selected'} \subseteq Unrestricted
       /\ (DeepCycle \/ (ClockIsOpen /\ ~Meddled)) => ClockIsOpen']_hwVars

(* The step BatterySavingsYield rests on: under a selected Performance a     *)
(* deep sweep ends the savings of the bus controller, and they stay ended,   *)
(* although the probes between the sweeps act on the profile in force and    *)
(* not on the selected one.                                                  *)
SavingsAreOver == inForce = "Performance" /\ ~bus.applied
SavingsStayOver ==
  [][hwUp /\ hwUp' /\ {selected, selected'} = {"Performance"}
       /\ (DeepCycle \/ SavingsAreOver) => SavingsAreOver']_hwVars

(* REF-REQ-112: whatever caps the clock behind the daemon's back, a sweep    *)
(* lifts it while an unrestricted profile is selected.                       *)
CeilingComesBack ==
  (hwUp /\ selected \in Unrestricted) ~>
    (engine.knob["ceiling"] = "max" \/ ~hwUp \/ selected \notin Unrestricted)

(* On battery the bus controller may save once more on the profile it knew,  *)
(* but a selected Performance ends its savings.                              *)
BatterySavingsYield ==
  (hwUp /\ selected = "Performance") ~>
    (~bus.applied \/ ~hwUp \/ selected # "Performance")

=============================================================================
