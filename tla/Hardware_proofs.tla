--------------------------- MODULE Hardware_proofs ---------------------------
(***************************************************************************)
(* Proofs about the knobs and the fan, for every machine the daemon knows  *)
(* how to return, every curve a client may send and any number of kills.   *)
(***************************************************************************)
EXTENDS Hardware, TLAPS

-----------------------------------------------------------------------------
(* The fan.                                                                  *)

(* From 70 degrees on neither a curve nor the stop of UltraEndurance has a   *)
(* say: every branch gives full speed.                                       *)
LEMMA HotLevel ==
  ASSUME NEW cs, NEW temp \in Nat, temp >= MaxTemp, NEW prof \in Profs
  PROVE  LevelFor(cs, temp, prof) = FullSpeed
<1>1. CurveLevel(cs[prof].points, prof, temp) = FullSpeed
  BY DEF CurveLevel, MaxTemp, MinTemp
<1>2. FactoryLevel(temp, FullTemp(prof)) = FullSpeed
  BY DEF FactoryLevel, FullTemp, MaxTemp
<1>3. temp \notin 1..UltraStopTemp
  BY DEF UltraStopTemp, MaxTemp
<1> QED  BY <1>1, <1>2, <1>3 DEF LevelFor

(* The keyword for full speed is written when the knob does not hold it,     *)
(* whatever level was written last.                                          *)
LEMMA FullSpeedIsWritten ==
  ASSUME NEW f, NEW cs, NEW temp, NEW prof, LevelFor(cs, temp, prof) = FullSpeed
  PROVE  ApplyFan(f, cs, temp, prof).knob = FullSpeed
BY DEF ApplyFan, KeepsLevel, WriteFan, FullSpeed, NoLevel

(* After a sweep at 70 degrees or more the fan runs at full speed, for every *)
(* curve in force and whoever wrote the knob in between (apply_fan_for_temp, *)
(* REF-REQ-118 and 125.4).                                                   *)
THEOREM HotIsCooled == FanSpec => HotIsFullSpeed
<1>1. [FanNext]_fanVars =>
        [\A temp \in Temps, prof \in Profs :
           temp >= MaxTemp /\ ObserveFan(temp, prof) => fanKnob' = FullSpeed]_fanVars
  <2> SUFFICES ASSUME NEW temp \in Temps, NEW prof \in Profs,
                      temp >= MaxTemp, ObserveFan(temp, prof)
               PROVE  fanKnob' = FullSpeed
    OBVIOUS
  <2>1. fanKnob' = ApplyFan(Fan, curves, temp, prof).knob
    BY DEF ObserveFan, SetFan
  <2> QED  BY <2>1, HotLevel, FullSpeedIsWritten, FanAssumption
<1> QED  BY <1>1, PTL DEF FanSpec, HotIsFullSpeed

(* Where the level of the user is kept: in the knob until the first write,   *)
(* in the saved level from then on.                                          *)
FanInv ==
  fanUp /\ ~inherited => IF fanModified THEN fanBase = userLevel ELSE fanKnob = userLevel

LEMMA ApplyKeepsFan ==
  ASSUME FanInv, fanUp, NEW cs, NEW temp, NEW prof, SetFan(ApplyFan(Fan, cs, temp, prof)),
         UNCHANGED <<fanUp, userLevel, inherited>>
  PROVE  FanInv'
BY DEF FanInv, SetFan, ApplyFan, WriteFan, Fan

LEMMA FanInvHolds == FanSpec => []FanInv
<1>1. FanInit => FanInv
  BY DEF FanInit, FanInv
<1>2. FanInv /\ [FanNext]_fanVars => FanInv'
  <2> SUFFICES ASSUME FanInv, [FanNext]_fanVars PROVE FanInv'
    OBVIOUS
  <2>1. ASSUME NEW temp \in Temps, NEW prof \in Profs, ObserveFan(temp, prof) PROVE FanInv'
    BY <2>1, ApplyKeepsFan DEF ObserveFan
  <2>2. ASSUME NEW packet \in Packets, SetCurves(packet) PROVE FanInv'
    BY <2>2, ApplyKeepsFan DEF SetCurves
  <2>3. CASE ReleaseFan
    BY <2>3 DEF ReleaseFan, RestoreFan, SetFan, Fan, FanInv
  <2>4. CASE StartFan
    BY <2>4 DEF StartFan, SetFan, FanInv
  <2>5. CASE StopFan
    BY <2>5 DEF StopFan, FanInv
  <2>6. CASE TakeFanBack
    BY <2>6 DEF TakeFanBack, FanInv
  <2>7. CASE KillFan
    BY <2>7 DEF KillFan, FanInv
  <2>8. CASE UNCHANGED fanVars
    BY <2>8 DEF fanVars, FanInv
  <2> QED  BY <2>1, <2>2, <2>3, <2>4, <2>5, <2>6, <2>7, <2>8 DEF FanNext
<1> QED  BY <1>1, <1>2, PTL DEF FanSpec

(* The fan a stop returns is the user's, unless a killed daemon's level was  *)
(* taken for his (restore_fan_level).                                        *)
LEMMA FanComesBack == FanSpec => FanIsReturned
<1>1. FanInv /\ [FanNext]_fanVars => [StopFan => fanKnob' = userLevel \/ inherited]_fanVars
  BY DEF FanInv, StopFan, SetFan, RestoreFan, Fan
<1> QED  BY <1>1, FanInvHolds, PTL DEF FanSpec, FanIsReturned

-----------------------------------------------------------------------------
(* Rows of knobs, and the machines they are written to.                      *)

Machines == [knob: [Knobs -> Values], base: [Knobs -> Values],
             touched: SUBSET Knobs, parked: {Unparked} \cup Values]

Rows(D) == [D -> Values]

LEMMA MachineFields ==
  ASSUME NEW m \in Machines
  PROVE  /\ m.knob \in [Knobs -> Values] /\ m.base \in [Knobs -> Values]
         /\ m.touched \in SUBSET Knobs /\ m.parked \in {Unparked} \cup Values
BY DEF Machines

LEMMA PutIs ==
  ASSUME NEW m \in Machines, NEW D \in SUBSET Knobs, NEW row \in Rows(D)
  PROVE  /\ Put(m, row) \in Machines
         /\ Put(m, row).base = m.base
         /\ Put(m, row).touched = m.touched
         /\ Put(m, row).parked = m.parked
         /\ \A k \in Knobs : Put(m, row).knob[k] = IF k \in D THEN row[k] ELSE m.knob[k]
<1> DEFINE knob == [k \in Knobs |-> IF k \in DOMAIN row THEN row[k] ELSE m.knob[k]]
<1>1. knob \in [Knobs -> Values]
  BY MachineFields DEF Rows
<1>2. \A k \in Knobs : knob[k] = IF k \in D THEN row[k] ELSE m.knob[k]
  BY DEF Rows
<1>3. Put(m, row) = [m EXCEPT !.knob = knob]
  BY DEF Put
<1> HIDE DEF knob
<1> QED  BY <1>1, <1>2, <1>3 DEF Machines

LEMMA TouchIs ==
  ASSUME NEW m \in Machines, NEW D \in SUBSET Knobs, NEW row \in Rows(D)
  PROVE  /\ Touch(m, row) \in Machines
         /\ Touch(m, row).base = m.base
         /\ Touch(m, row).touched = m.touched \cup D
         /\ Touch(m, row).parked = m.parked
         /\ \A k \in Knobs : Touch(m, row).knob[k] = IF k \in D THEN row[k] ELSE m.knob[k]
<1> DEFINE n == Put(m, row)
<1>1. /\ n \in Machines /\ n.base = m.base /\ n.touched = m.touched /\ n.parked = m.parked
      /\ \A k \in Knobs : n.knob[k] = IF k \in D THEN row[k] ELSE m.knob[k]
  BY PutIs
<1>2. Touch(m, row) = [n EXCEPT !.touched = n.touched \cup D]
  BY DEF Touch, Rows
<1> HIDE DEF n
<1> QED  BY <1>1, <1>2 DEF Machines

LEMMA UndoIs ==
  ASSUME NEW m \in Machines, NEW S
  PROVE  /\ Undo(m, S) \in Machines
         /\ Undo(m, S).base = m.base
         /\ Undo(m, S).touched = m.touched \ S
         /\ Undo(m, S).parked = m.parked
         /\ \A k \in Knobs : Undo(m, S).knob[k] = IF k \in S \cap m.touched THEN m.base[k] ELSE m.knob[k]
<1> DEFINE knob == [k \in Knobs |-> IF k \in S \cap m.touched THEN m.base[k] ELSE m.knob[k]]
<1>1. knob \in [Knobs -> Values]
  BY MachineFields
<1>2. \A k \in Knobs : knob[k] = IF k \in S \cap m.touched THEN m.base[k] ELSE m.knob[k]
  OBVIOUS
<1> DEFINE left == m.touched \ S
<1>3. Undo(m, S) = [m EXCEPT !.knob = knob, !.touched = left]
  BY DEF Undo
<1>4. left \in SUBSET Knobs
  BY MachineFields
<1> HIDE DEF knob
<1>5. /\ Undo(m, S).base = m.base /\ Undo(m, S).touched = left
      /\ Undo(m, S).parked = m.parked /\ Undo(m, S).knob = knob
  <2> HIDE DEF left
  <2> QED  BY <1>3 DEF Machines
<1>6. Undo(m, S) \in Machines
  <2> HIDE DEF left
  <2> QED  BY <1>1, <1>3, <1>4 DEF Machines
<1> QED  BY <1>2, <1>5, <1>6

(* The row of one setter.                                                    *)
LEMMA Setters ==
  ASSUME NEW v \in Values
  PROVE  /\ SetCpuGovernor(v) \in Rows({"governor"})
         /\ SetCpuBoost(v) \in Rows({"boost"}) /\ SetCpuBoost(v)["boost"] = v
         /\ SetScalingMaxFreq(v) \in Rows({"ceiling"}) /\ SetScalingMaxFreq(v)["ceiling"] = v
         /\ SetCpuEpp(v) \in Rows({"epp"})
         /\ SetPcieAspm(v) \in Rows({"aspm"})
         /\ SetPanelPowerSavings(v) \in Rows({"panel"})
         /\ SetGpuDpmLevel(v) \in Rows({"gpu"})
         /\ SetGpuPowerProfileMode(v) \in Rows({"gpuMode"})
         /\ SetNvmeApst(v) \in Rows({"apst"})
         /\ SetNvmePowerControl(v) \in Rows({"nvme"})
         /\ SetWifiPowersave(v) \in Rows({"wifi"})
         /\ SetSchedMigrationCost(v) \in Rows({"migration"})
         /\ SetSmtControl(v) \in Rows({"smt"}) /\ SetSmtControl(v)["smt"] = v
         /\ SetBluetoothBlocked(v) \in Rows({"bluetooth"}) /\ SetBluetoothBlocked(v)["bluetooth"] = v
         /\ SetDisplayRefreshRate(v) \in Rows({"refresh"})
         /\ SetKwinEffects(v) \in Rows({"effects"})
         /\ SetBaloo(v) \in Rows({"baloo"})
         /\ SetWifiTxpower(v) \in Rows({"txPower"})
         /\ SetVmWriteback(v) \in Rows({"vm"})
         /\ SetAudioCodec(v) \in Rows({"hda"}) /\ SetAudioCodec(v)["hda"] = v
         /\ SetDisplayAbm(v) \in Rows({"panel"})
         /\ SetHdaPowerSave(v) \in Rows({"hda"}) /\ SetHdaPowerSave(v)["hda"] = v
         /\ SetVmStatInterval(v) \in Rows({"vmStat"})
         /\ SetPciPowerControl(v) \in Rows({"ethernet"})
BY DEF Rows, SetCpuGovernor, SetCpuBoost, SetScalingMaxFreq, SetCpuEpp,
       SetPcieAspm, SetPanelPowerSavings, SetGpuDpmLevel,
       SetGpuPowerProfileMode, SetNvmeApst, SetNvmePowerControl,
       SetWifiPowersave, SetSchedMigrationCost, SetSmtControl,
       SetBluetoothBlocked, SetDisplayRefreshRate, SetKwinEffects, SetBaloo,
       SetWifiTxpower, SetVmWriteback, SetAudioCodec, SetDisplayAbm,
       SetHdaPowerSave, SetVmStatInterval, SetPciPowerControl

(* The rows of apply_power_profile: the knobs each one names, and the values *)
(* that the invariants tell apart.                                           *)
LEMMA PerformanceRowIs ==
  PerformanceRow \in Rows({"governor", "aspm", "panel", "epp", "gpu"})
<1> DEFINE r1 == SetCpuGovernor("performance")
           r2 == r1 ++ SetPcieAspm("performance")
           r3 == r2 ++ SetPanelPowerSavings("0")
           r4 == r3 ++ SetCpuEpp("performance")
           r5 == r4 ++ SetGpuDpmLevel("auto")
<1>1. /\ r1 \in Rows({"governor"})
      /\ SetPcieAspm("performance") \in Rows({"aspm"})
      /\ SetPanelPowerSavings("0") \in Rows({"panel"})
      /\ SetCpuEpp("performance") \in Rows({"epp"})
      /\ SetGpuDpmLevel("auto") \in Rows({"gpu"})
  <2>1. {"performance", "0", "auto"} \subseteq Values
    BY DEF Values
  <2>2. r1 \in Rows({"governor"})
    BY <2>1, Setters
  <2>3. SetPcieAspm("performance") \in Rows({"aspm"})
    BY <2>1, Setters
  <2>4. SetPanelPowerSavings("0") \in Rows({"panel"})
    BY <2>1, Setters
  <2>5. SetCpuEpp("performance") \in Rows({"epp"})
    BY <2>1, Setters
  <2>6. SetGpuDpmLevel("auto") \in Rows({"gpu"})
    BY <2>1, Setters
  <2> QED  BY <2>2, <2>3, <2>4, <2>5, <2>6
<1> HIDE DEF r1
<1>2. r2 \in Rows({"governor", "aspm"})
  BY <1>1 DEF ++, Rows
<1> HIDE DEF r2
<1>3. r3 \in Rows({"governor", "aspm", "panel"})
  BY <1>1, <1>2 DEF ++, Rows
<1> HIDE DEF r3
<1>4. r4 \in Rows({"governor", "aspm", "panel", "epp"})
  BY <1>1, <1>3 DEF ++, Rows
<1> HIDE DEF r4
<1>5. r5 \in Rows({"governor", "aspm", "panel", "epp", "gpu"})
  BY <1>1, <1>4 DEF ++, Rows
<1> QED  BY <1>5 DEF PerformanceRow, r1, r2, r3, r4

LEMMA BalancedRowIs ==
  ASSUME NEW base, base["aspm"] \in Values
  PROVE  BalancedRow(base) \in Rows({"governor", "aspm", "panel", "epp", "gpu"})
<1> DEFINE r1 == SetCpuGovernor("schedutil")
           r2 == r1 ++ SetPcieAspm(base["aspm"])
           r3 == r2 ++ SetPanelPowerSavings("1")
           r4 == r3 ++ SetCpuEpp("balance_performance")
           r5 == r4 ++ SetGpuDpmLevel("auto")
<1>1. /\ r1 \in Rows({"governor"})
      /\ SetPcieAspm(base["aspm"]) \in Rows({"aspm"})
      /\ SetPanelPowerSavings("1") \in Rows({"panel"})
      /\ SetCpuEpp("balance_performance") \in Rows({"epp"})
      /\ SetGpuDpmLevel("auto") \in Rows({"gpu"})
  <2>1. {"schedutil", "1", "balance_performance", "auto"} \subseteq Values
    BY DEF Values
  <2>2. r1 \in Rows({"governor"})
    BY <2>1, Setters
  <2>3. SetPcieAspm(base["aspm"]) \in Rows({"aspm"})
    BY <2>1, Setters
  <2>4. SetPanelPowerSavings("1") \in Rows({"panel"})
    BY <2>1, Setters
  <2>5. SetCpuEpp("balance_performance") \in Rows({"epp"})
    BY <2>1, Setters
  <2>6. SetGpuDpmLevel("auto") \in Rows({"gpu"})
    BY <2>1, Setters
  <2> QED  BY <2>2, <2>3, <2>4, <2>5, <2>6
<1> HIDE DEF r1
<1>2. r2 \in Rows({"governor", "aspm"})
  BY <1>1 DEF ++, Rows
<1> HIDE DEF r2
<1>3. r3 \in Rows({"governor", "aspm", "panel"})
  BY <1>1, <1>2 DEF ++, Rows
<1> HIDE DEF r3
<1>4. r4 \in Rows({"governor", "aspm", "panel", "epp"})
  BY <1>1, <1>3 DEF ++, Rows
<1> HIDE DEF r4
<1>5. r5 \in Rows({"governor", "aspm", "panel", "epp", "gpu"})
  BY <1>1, <1>4 DEF ++, Rows
<1> QED  BY <1>5 DEF BalancedRow, r1, r2, r3, r4

LEMMA SaverRowIs ==
  SaverRow \in Rows({"governor", "boost", "ceiling", "aspm", "panel", "epp", "gpu"})
<1> DEFINE r1 == SetCpuGovernor("schedutil")
           r2 == r1 ++ SetCpuBoost("0")
           r3 == r2 ++ SetScalingMaxFreq("1.7")
           r4 == r3 ++ SetPcieAspm("powersave")
           r5 == r4 ++ SetPanelPowerSavings("2")
           r6 == r5 ++ SetCpuEpp("balance_power")
           r7 == r6 ++ SetGpuDpmLevel("auto")
<1>1. /\ r1 \in Rows({"governor"})
      /\ SetCpuBoost("0") \in Rows({"boost"})
      /\ SetScalingMaxFreq("1.7") \in Rows({"ceiling"})
      /\ SetPcieAspm("powersave") \in Rows({"aspm"})
      /\ SetPanelPowerSavings("2") \in Rows({"panel"})
      /\ SetCpuEpp("balance_power") \in Rows({"epp"})
      /\ SetGpuDpmLevel("auto") \in Rows({"gpu"})
  <2>1. {"schedutil", "0", "1.7", "powersave", "2", "balance_power", "auto"} \subseteq Values
    BY DEF Values
  <2>2. r1 \in Rows({"governor"})
    BY <2>1, Setters
  <2>3. SetCpuBoost("0") \in Rows({"boost"})
    BY <2>1, Setters
  <2>4. SetScalingMaxFreq("1.7") \in Rows({"ceiling"})
    BY <2>1, Setters
  <2>5. SetPcieAspm("powersave") \in Rows({"aspm"})
    BY <2>1, Setters
  <2>6. SetPanelPowerSavings("2") \in Rows({"panel"})
    BY <2>1, Setters
  <2>7. SetCpuEpp("balance_power") \in Rows({"epp"})
    BY <2>1, Setters
  <2>8. SetGpuDpmLevel("auto") \in Rows({"gpu"})
    BY <2>1, Setters
  <2> QED  BY <2>2, <2>3, <2>4, <2>5, <2>6, <2>7, <2>8
<1> HIDE DEF r1
<1>2. r2 \in Rows({"governor", "boost"})
  BY <1>1 DEF ++, Rows
<1> HIDE DEF r2
<1>3. r3 \in Rows({"governor", "boost", "ceiling"})
  BY <1>1, <1>2 DEF ++, Rows
<1> HIDE DEF r3
<1>4. r4 \in Rows({"governor", "boost", "ceiling", "aspm"})
  BY <1>1, <1>3 DEF ++, Rows
<1> HIDE DEF r4
<1>5. r5 \in Rows({"governor", "boost", "ceiling", "aspm", "panel"})
  BY <1>1, <1>4 DEF ++, Rows
<1> HIDE DEF r5
<1>6. r6 \in Rows({"governor", "boost", "ceiling", "aspm", "panel", "epp"})
  BY <1>1, <1>5 DEF ++, Rows
<1> HIDE DEF r6
<1>7. r7 \in Rows({"governor", "boost", "ceiling", "aspm", "panel", "epp", "gpu"})
  BY <1>1, <1>6 DEF ++, Rows
<1> QED  BY <1>7 DEF SaverRow, r1, r2, r3, r4, r5, r6

LEMMA UltraRowIs ==
  /\ UltraRow \in Rows({"governor", "boost", "ceiling", "aspm", "panel", "epp", "gpu", "bluetooth"})
  /\ UltraRow["ceiling"] = "1.4"
<1> DEFINE r1 == SetCpuGovernor("powersave")
           r2 == r1 ++ SetCpuBoost("0")
           r3 == r2 ++ SetScalingMaxFreq("1.4")
           r4 == r3 ++ SetPcieAspm("powersupersave")
           r5 == r4 ++ SetPanelPowerSavings("2")
           r6 == r5 ++ SetCpuEpp("power")
           r7 == r6 ++ SetGpuDpmLevel("low")
           r8 == r7 ++ SetBluetoothBlocked("0")
<1>1. /\ r1 \in Rows({"governor"})
      /\ SetCpuBoost("0") \in Rows({"boost"})
      /\ SetScalingMaxFreq("1.4") \in Rows({"ceiling"}) /\ SetScalingMaxFreq("1.4")["ceiling"] = "1.4"
      /\ SetPcieAspm("powersupersave") \in Rows({"aspm"})
      /\ SetPanelPowerSavings("2") \in Rows({"panel"})
      /\ SetCpuEpp("power") \in Rows({"epp"})
      /\ SetGpuDpmLevel("low") \in Rows({"gpu"})
      /\ SetBluetoothBlocked("0") \in Rows({"bluetooth"})
  <2>1. {"powersave", "0", "1.4", "powersupersave", "2", "power", "low"} \subseteq Values
    BY DEF Values
  <2>2. r1 \in Rows({"governor"})
    BY <2>1, Setters
  <2>3. SetCpuBoost("0") \in Rows({"boost"})
    BY <2>1, Setters
  <2>4. SetScalingMaxFreq("1.4") \in Rows({"ceiling"}) /\ SetScalingMaxFreq("1.4")["ceiling"] = "1.4"
    BY <2>1, Setters
  <2>5. SetPcieAspm("powersupersave") \in Rows({"aspm"})
    BY <2>1, Setters
  <2>6. SetPanelPowerSavings("2") \in Rows({"panel"})
    BY <2>1, Setters
  <2>7. SetCpuEpp("power") \in Rows({"epp"})
    BY <2>1, Setters
  <2>8. SetGpuDpmLevel("low") \in Rows({"gpu"})
    BY <2>1, Setters
  <2>9. SetBluetoothBlocked("0") \in Rows({"bluetooth"})
    BY <2>1, Setters
  <2> QED  BY <2>2, <2>3, <2>4, <2>5, <2>6, <2>7, <2>8, <2>9
<1> HIDE DEF r1
<1>2. r2 \in Rows({"governor", "boost"})
  BY <1>1 DEF ++, Rows
<1> HIDE DEF r2
<1>3. r3 \in Rows({"governor", "boost", "ceiling"}) /\ r3["ceiling"] = "1.4"
  BY <1>1, <1>2 DEF ++, Rows
<1> HIDE DEF r3
<1>4. r4 \in Rows({"governor", "boost", "ceiling", "aspm"}) /\ r4["ceiling"] = "1.4"
  BY <1>1, <1>3 DEF ++, Rows
<1> HIDE DEF r4
<1>5. r5 \in Rows({"governor", "boost", "ceiling", "aspm", "panel"}) /\ r5["ceiling"] = "1.4"
  BY <1>1, <1>4 DEF ++, Rows
<1> HIDE DEF r5
<1>6. r6 \in Rows({"governor", "boost", "ceiling", "aspm", "panel", "epp"}) /\ r6["ceiling"] = "1.4"
  BY <1>1, <1>5 DEF ++, Rows
<1> HIDE DEF r6
<1>7. r7 \in Rows({"governor", "boost", "ceiling", "aspm", "panel", "epp", "gpu"}) /\ r7["ceiling"] = "1.4"
  BY <1>1, <1>6 DEF ++, Rows
<1> HIDE DEF r7
<1>8. /\ r8 \in Rows({"governor", "boost", "ceiling", "aspm", "panel", "epp", "gpu", "bluetooth"})
      /\ r8["ceiling"] = "1.4"
  BY <1>1, <1>7 DEF ++, Rows
<1> QED  BY <1>8 DEF UltraRow, r1, r2, r3, r4, r5, r6, r7

LEMMA UnleashRowIs ==
  UnleashRow \in Rows({"gpuMode", "apst", "nvme", "wifi", "migration"})
<1> DEFINE r1 == SetGpuPowerProfileMode("peak")
           r2 == r1 ++ SetNvmeApst("0")
           r3 == r2 ++ SetNvmePowerControl("on")
           r4 == r3 ++ SetWifiPowersave("0")
           r5 == r4 ++ SetSchedMigrationCost("peak")
<1>1. /\ r1 \in Rows({"gpuMode"})
      /\ SetNvmeApst("0") \in Rows({"apst"})
      /\ SetNvmePowerControl("on") \in Rows({"nvme"})
      /\ SetWifiPowersave("0") \in Rows({"wifi"})
      /\ SetSchedMigrationCost("peak") \in Rows({"migration"})
  <2>1. {"peak", "0", "on"} \subseteq Values
    BY DEF Values
  <2>2. r1 \in Rows({"gpuMode"})
    BY <2>1, Setters
  <2>3. SetNvmeApst("0") \in Rows({"apst"})
    BY <2>1, Setters
  <2>4. SetNvmePowerControl("on") \in Rows({"nvme"})
    BY <2>1, Setters
  <2>5. SetWifiPowersave("0") \in Rows({"wifi"})
    BY <2>1, Setters
  <2>6. SetSchedMigrationCost("peak") \in Rows({"migration"})
    BY <2>1, Setters
  <2> QED  BY <2>2, <2>3, <2>4, <2>5, <2>6
<1> HIDE DEF r1
<1>2. r2 \in Rows({"gpuMode", "apst"})
  BY <1>1 DEF ++, Rows
<1> HIDE DEF r2
<1>3. r3 \in Rows({"gpuMode", "apst", "nvme"})
  BY <1>1, <1>2 DEF ++, Rows
<1> HIDE DEF r3
<1>4. r4 \in Rows({"gpuMode", "apst", "nvme", "wifi"})
  BY <1>1, <1>3 DEF ++, Rows
<1> HIDE DEF r4
<1>5. r5 \in Rows({"gpuMode", "apst", "nvme", "wifi", "migration"})
  BY <1>1, <1>4 DEF ++, Rows
<1> QED  BY <1>5 DEF UnleashRow, r1, r2, r3, r4

LEMMA RestrictionRowIs ==
  /\ RestrictionRow \in Rows({"effects", "refresh", "baloo", "txPower", "vm", "hda"})
  /\ RestrictionRow["hda"] = "10"
<1> DEFINE r1 == TriggerVramGc
           r2 == r1 ++ SetDisplayRefreshRate("48")
           r3 == r2 ++ SetBaloo("suspended")
           r4 == r3 ++ SetWifiTxpower("1200")
           r5 == r4 ++ SetVmWriteback("15s/30s")
           r6 == r5 ++ SetAudioCodec("10")
<1>1. /\ r1 \in Rows({"effects"})
      /\ SetDisplayRefreshRate("48") \in Rows({"refresh"})
      /\ SetBaloo("suspended") \in Rows({"baloo"})
      /\ SetWifiTxpower("1200") \in Rows({"txPower"})
      /\ SetVmWriteback("15s/30s") \in Rows({"vm"})
      /\ SetAudioCodec("10") \in Rows({"hda"}) /\ SetAudioCodec("10")["hda"] = "10"
  <2>1. {"48", "suspended", "1200", "15s/30s", "10"} \subseteq Values
    BY DEF Values
  <2>2. r1 \in Rows({"effects"})
    BY <2>1, Setters DEF TriggerVramGc
  <2>3. SetDisplayRefreshRate("48") \in Rows({"refresh"})
    BY <2>1, Setters
  <2>4. SetBaloo("suspended") \in Rows({"baloo"})
    BY <2>1, Setters
  <2>5. SetWifiTxpower("1200") \in Rows({"txPower"})
    BY <2>1, Setters
  <2>6. SetVmWriteback("15s/30s") \in Rows({"vm"})
    BY <2>1, Setters
  <2>7. SetAudioCodec("10") \in Rows({"hda"}) /\ SetAudioCodec("10")["hda"] = "10"
    BY <2>1, Setters
  <2> QED  BY <2>2, <2>3, <2>4, <2>5, <2>6, <2>7
<1> HIDE DEF r1
<1>2. r2 \in Rows({"effects", "refresh"})
  BY <1>1 DEF ++, Rows
<1> HIDE DEF r2
<1>3. r3 \in Rows({"effects", "refresh", "baloo"})
  BY <1>1, <1>2 DEF ++, Rows
<1> HIDE DEF r3
<1>4. r4 \in Rows({"effects", "refresh", "baloo", "txPower"})
  BY <1>1, <1>3 DEF ++, Rows
<1> HIDE DEF r4
<1>5. r5 \in Rows({"effects", "refresh", "baloo", "txPower", "vm"})
  BY <1>1, <1>4 DEF ++, Rows
<1> HIDE DEF r5
<1>6. r6 \in Rows({"effects", "refresh", "baloo", "txPower", "vm", "hda"}) /\ r6["hda"] = "10"
  BY <1>1, <1>5 DEF ++, Rows
<1> QED  BY <1>6 DEF RestrictionRow, r1, r2, r3, r4, r5

LEMMA BusSavesRow ==
  ASSUME NEW m, NEW profile
  PROVE  \E row \in Rows({"panel", "aspm", "hda", "vmStat", "ethernet"}) :
           row["hda"] = "1" /\ BusSaves(m, profile) = Put(m, row)
<1> DEFINE level == IF profile = "Balanced" THEN "2" ELSE "3"
           r1 == SetDisplayAbm(level)
           r2 == r1 ++ SetPcieAspm("powersave")
           r3 == r2 ++ SetHdaPowerSave("1")
           r4 == r3 ++ SetVmStatInterval("10")
           r5 == r4 ++ SetPciPowerControl("auto")
<1>0. level \in Values
  BY DEF Values
<1>1. r1 \in Rows({"panel"})
  <2> HIDE DEF level
  <2> QED  BY <1>0, Setters
<1>2. /\ SetPcieAspm("powersave") \in Rows({"aspm"})
      /\ SetHdaPowerSave("1") \in Rows({"hda"}) /\ SetHdaPowerSave("1")["hda"] = "1"
      /\ SetVmStatInterval("10") \in Rows({"vmStat"})
      /\ SetPciPowerControl("auto") \in Rows({"ethernet"})
  <2>1. {"powersave", "1", "10", "auto"} \subseteq Values
    BY DEF Values
  <2>2. SetPcieAspm("powersave") \in Rows({"aspm"})
    BY <2>1, Setters
  <2>3. SetHdaPowerSave("1") \in Rows({"hda"}) /\ SetHdaPowerSave("1")["hda"] = "1"
    BY <2>1, Setters
  <2>4. SetVmStatInterval("10") \in Rows({"vmStat"})
    BY <2>1, Setters
  <2>5. SetPciPowerControl("auto") \in Rows({"ethernet"})
    BY <2>1, Setters
  <2> QED  BY <2>2, <2>3, <2>4, <2>5
<1>3. BusSaves(m, profile) = Put(m, r5)
  BY DEF BusSaves
<1> HIDE DEF r1
<1>4. r2 \in Rows({"panel", "aspm"})
  BY <1>1, <1>2 DEF ++, Rows
<1> HIDE DEF r2
<1>5. r3 \in Rows({"panel", "aspm", "hda"}) /\ r3["hda"] = "1"
  BY <1>2, <1>4 DEF ++, Rows
<1> HIDE DEF r3
<1>6. r4 \in Rows({"panel", "aspm", "hda", "vmStat"}) /\ r4["hda"] = "1"
  BY <1>2, <1>5 DEF ++, Rows
<1> HIDE DEF r4
<1>7. r5 \in Rows({"panel", "aspm", "hda", "vmStat", "ethernet"}) /\ r5["hda"] = "1"
  BY <1>2, <1>6 DEF ++, Rows
<1> HIDE DEF r5
<1> QED  BY <1>3, <1>7

-----------------------------------------------------------------------------
(* What no step of the daemon may do to a machine.                           *)

(* The knobs whose way back is the touched set: nothing writes them without  *)
(* entering them there.                                                      *)
Tracked == Desktop \cup Writeback \cup Unleash \cup Smu \cup {"backlight"}

(* The machine of a user u: of the knobs that no killed daemon falsified (L) *)
(* an untouched one has the value of the user, and what a touched one goes   *)
(* back to is the value of the user.                                         *)
Sound(m, u, L) ==
  \A k \in Tracked \ L :
    /\ k \notin m.touched => m.knob[k] = u[k]
    /\ k \in m.touched \/ k # "backlight" => m.base[k] = u[k]

(* The codec may sleep.                                                      *)
Awake(m) == m.base["hda"] # "0" /\ m.knob["hda"] # "0"

(* The baseline is that of the start; the brightness to return to is taken   *)
(* when the cap is put on.                                                   *)
SameBase(m, n) == \A k \in Knobs \ {"backlight"} : n.base[k] = m.base[k]

Leads(m, n, u, L) ==
  /\ n \in Machines
  /\ SameBase(m, n)
  /\ n.parked = m.parked
  /\ Sound(m, u, L) => Sound(n, u, L)
  /\ Awake(m) => Awake(n)

LEMMA NamesAreKnobs ==
  /\ Knobs = {"platform", "governor", "boost", "aspm", "panel", "gpu", "smt", "bluetooth", "hda",
              "gpuMode", "apst", "nvme", "wifi", "migration", "refresh", "effects", "baloo",
              "txPower", "vm", "backlight", "epp", "floor", "devicePm", "soundPm",
              "vmStat", "ethernet", "smu", "ceiling"}
  /\ Tracked = {"refresh", "effects", "baloo", "txPower", "vm", "gpuMode", "apst", "nvme", "wifi",
                "migration", "smu", "backlight"}
BY DEF Knobs, Firmware, Graphics, Radios, Writeback, Codec, Unleash, Desktop, Extras, Forgotten,
       BusKnobs, Smu, Tracked

(* Nothing holds the clock down.                                             *)
Open(m) == m.knob["ceiling"] = "max" /\ m.knob["boost"] = "1"

LEMMA LeadsItself ==
  ASSUME NEW m \in Machines, NEW u, NEW L
  PROVE  Leads(m, m, u, L)
BY DEF Leads, SameBase

LEMMA LeadsOn ==
  ASSUME NEW m, NEW n, NEW o, NEW u, NEW L, Leads(m, n, u, L), Leads(n, o, u, L)
  PROVE  Leads(m, o, u, L)
BY DEF Leads, SameBase

(* A row of untracked knobs that does not keep the codec awake.              *)
LEMMA PutLeads ==
  ASSUME NEW m \in Machines, NEW D \in SUBSET (Knobs \ Tracked), NEW row \in Rows(D),
         "hda" \in D => row["hda"] # "0", NEW u, NEW L
  PROVE  Leads(m, Put(m, row), u, L) /\ Put(m, row).touched = m.touched
<1> DEFINE n == Put(m, row)
<1>1. /\ n \in Machines /\ n.base = m.base /\ n.touched = m.touched /\ n.parked = m.parked
      /\ \A k \in Knobs : n.knob[k] = IF k \in D THEN row[k] ELSE m.knob[k]
  BY PutIs
<1> HIDE DEF n
<1>2. Tracked \subseteq Knobs /\ "hda" \in Knobs
  BY NamesAreKnobs
<1>3. Sound(m, u, L) => Sound(n, u, L)
  BY <1>1, <1>2 DEF Sound
<1>4. Awake(m) => Awake(n)
  BY <1>1, <1>2 DEF Awake
<1> QED  BY <1>1, <1>3, <1>4 DEF Leads, SameBase, n

LEMMA TouchLeads ==
  ASSUME NEW m \in Machines, NEW D \in SUBSET (Knobs \ {"backlight"}), NEW row \in Rows(D),
         "hda" \in D => row["hda"] # "0", NEW u, NEW L
  PROVE  Leads(m, Touch(m, row), u, L) /\ Touch(m, row).touched = m.touched \cup D
<1> DEFINE n == Touch(m, row)
<1>1. /\ n \in Machines /\ n.base = m.base /\ n.touched = m.touched \cup D /\ n.parked = m.parked
      /\ \A k \in Knobs : n.knob[k] = IF k \in D THEN row[k] ELSE m.knob[k]
  BY TouchIs
<1> HIDE DEF n
<1>2. Tracked \subseteq Knobs /\ "hda" \in Knobs
  BY NamesAreKnobs
<1>3. Sound(m, u, L) => Sound(n, u, L)
  BY <1>1, <1>2 DEF Sound
<1>4. Awake(m) => Awake(n)
  BY <1>1, <1>2 DEF Awake
<1> QED  BY <1>1, <1>3, <1>4 DEF Leads, SameBase, n

LEMMA UndoLeads ==
  ASSUME NEW m \in Machines, NEW S, NEW u, NEW L
  PROVE  Leads(m, Undo(m, S), u, L) /\ Undo(m, S).touched = m.touched \ S
<1> DEFINE n == Undo(m, S)
<1>1. /\ n \in Machines /\ n.base = m.base /\ n.touched = m.touched \ S /\ n.parked = m.parked
      /\ \A k \in Knobs : n.knob[k] = IF k \in S \cap m.touched THEN m.base[k] ELSE m.knob[k]
  BY UndoIs
<1> HIDE DEF n
<1>2. Tracked \subseteq Knobs /\ "hda" \in Knobs
  BY NamesAreKnobs
<1>3. Sound(m, u, L) => Sound(n, u, L)
  BY <1>1, <1>2 DEF Sound
<1>4. Awake(m) => Awake(n)
  BY <1>1, <1>2 DEF Awake
<1> QED  BY <1>1, <1>3, <1>4 DEF Leads, SameBase, n

-----------------------------------------------------------------------------
(* What the parts of apply_power_profile do to a machine.                    *)

LEMMA FloorLeads ==
  ASSUME NEW m \in Machines, NEW u, NEW L
  PROVE  Leads(m, EnforceFreqFloor(m), u, L) /\ EnforceFreqFloor(m).touched = m.touched
<1>1. [floor |-> "min"] \in Rows({"floor"})
  BY DEF Rows, Values
<1>2. {"floor"} \in SUBSET (Knobs \ Tracked) /\ "hda" \notin {"floor"}
  BY NamesAreKnobs
<1> QED  BY <1>1, <1>2, PutLeads DEF EnforceFreqFloor

LEMMA PlatformLeads ==
  ASSUME NEW m \in Machines, NEW v \in Values, NEW manager \in {"none", "ppd", "other"}, NEW u, NEW L
  PROVE  LET n == SetPlatform(m, v, manager) IN
         /\ Leads(m, n, u, L)
         /\ n.touched = m.touched /\ n.base = m.base
         /\ \A k \in Knobs \ {"platform"} : n.knob[k] = m.knob[k]
         /\ manager = "none" => n.knob["platform"] = v
<1> DEFINE n == SetPlatform(m, v, manager)
<1>1. {"platform"} \in SUBSET (Knobs \ Tracked) /\ "hda" \notin {"platform"} /\ "platform" \in Knobs
      /\ {"platform"} \in SUBSET Knobs
  BY NamesAreKnobs
<1>2. ASSUME NEW w \in Values
      PROVE  LET o == Put(m, [platform |-> w]) IN
             /\ Leads(m, o, u, L)
             /\ o.touched = m.touched /\ o.base = m.base
             /\ \A k \in Knobs \ {"platform"} : o.knob[k] = m.knob[k]
             /\ o.knob["platform"] = w
  <2>1. [platform |-> w] \in Rows({"platform"}) /\ [platform |-> w]["platform"] = w
    BY DEF Rows
  <2> DEFINE row == [platform |-> w]
  <2> HIDE DEF row
  <2>2. row \in Rows({"platform"}) /\ row["platform"] = w
    BY <2>1 DEF row
  <2>3. Leads(m, Put(m, row), u, L) /\ Put(m, row).touched = m.touched
    BY <1>1, <2>2, PutLeads
  <2>4. /\ Put(m, row).base = m.base
        /\ \A k \in Knobs : Put(m, row).knob[k] = IF k \in {"platform"} THEN row[k] ELSE m.knob[k]
    BY <1>1, <2>2, PutIs
  <2> QED  BY <1>1, <2>2, <2>3, <2>4 DEF row
<1>3. CASE manager = "none" \/ m.knob["platform"] = v
  <2>1. n = Put(m, [platform |-> v])
    BY <1>3 DEF SetPlatform
  <2> HIDE DEF n
  <2> QED  BY <1>2, <2>1 DEF n
<1>4. CASE ~(manager = "none" \/ m.knob["platform"] = v) /\ manager = "other"
  <2>1. n = m
    BY <1>4 DEF SetPlatform
  <2> HIDE DEF n
  <2> QED  BY <1>4, <2>1, LeadsItself DEF n
<1>5. CASE ~(manager = "none" \/ m.knob["platform"] = v) /\ manager = "ppd"
  <2> DEFINE w == IF v \in {"performance", "low-power"} THEN v ELSE "balanced"
  <2>1. n = Put(m, [platform |-> w])
    BY <1>5 DEF SetPlatform
  <2>2. w \in Values
    BY DEF Values
  <2> HIDE DEF n, w
  <2> QED  BY <1>2, <1>5, <2>1, <2>2 DEF n
<1> QED  BY <1>3, <1>4, <1>5

LEMMA CeilingLeads ==
  ASSUME NEW m \in Machines, NEW u, NEW L
  PROVE  LET n == AssertCeiling(m) IN
         Leads(m, n, u, L) /\ n.touched = m.touched /\ Open(n)
<1> DEFINE row == SetScalingMaxFreq("max") ++ SetCpuBoost("1")
<1>1. /\ SetScalingMaxFreq("max") \in Rows({"ceiling"}) /\ SetScalingMaxFreq("max")["ceiling"] = "max"
      /\ SetCpuBoost("1") \in Rows({"boost"}) /\ SetCpuBoost("1")["boost"] = "1"
  <2>1. {"max", "1"} \subseteq Values
    BY DEF Values
  <2>2. SetScalingMaxFreq("max") \in Rows({"ceiling"}) /\ SetScalingMaxFreq("max")["ceiling"] = "max"
    BY <2>1, Setters
  <2>3. SetCpuBoost("1") \in Rows({"boost"}) /\ SetCpuBoost("1")["boost"] = "1"
    BY <2>1, Setters
  <2> QED  BY <2>2, <2>3
<1>2. row \in Rows({"ceiling", "boost"}) /\ row["ceiling"] = "max" /\ row["boost"] = "1"
  BY <1>1 DEF ++, Rows
<1>3. AssertCeiling(m) = Put(m, row)
  BY DEF AssertCeiling
<1> HIDE DEF row
<1>4. /\ {"ceiling", "boost"} \in SUBSET (Knobs \ Tracked) /\ "hda" \notin {"ceiling", "boost"}
      /\ {"ceiling", "boost"} \in SUBSET Knobs
  BY NamesAreKnobs
<1>5. Leads(m, Put(m, row), u, L) /\ Put(m, row).touched = m.touched
  BY <1>2, <1>4, PutLeads
<1>6. \A k \in Knobs : Put(m, row).knob[k] = IF k \in {"ceiling", "boost"} THEN row[k] ELSE m.knob[k]
  BY <1>2, <1>4, PutIs
<1>7. Put(m, row).knob["ceiling"] = "max" /\ Put(m, row).knob["boost"] = "1"
  BY <1>2, <1>4, <1>6
<1> QED  BY <1>3, <1>5, <1>7 DEF Open

LEMMA SmuLeads ==
  ASSUME NEW m \in Machines, NEW u, NEW L
  PROVE  LET n == RaiseSmu(m) IN
         /\ Leads(m, n, u, L)
         /\ n.touched \subseteq m.touched \cup Smu
         /\ \A k \in Knobs \ Smu : n.knob[k] = m.knob[k]
<1>1. [smu |-> "raised"] \in Rows({"smu"})
  BY DEF Rows, Values
<1> DEFINE row == [smu |-> "raised"]
<1>2. RaiseSmu(m) = IF m.base["smu"] = Locked THEN m ELSE Touch(m, row)
  BY DEF RaiseSmu
<1>3. row \in Rows({"smu"})
  BY <1>1
<1> HIDE DEF row
<1>4. /\ {"smu"} \in SUBSET (Knobs \ {"backlight"}) /\ "hda" \notin {"smu"}
      /\ {"smu"} \in SUBSET Knobs
  BY NamesAreKnobs
<1>5. Leads(m, Touch(m, row), u, L) /\ Touch(m, row).touched = m.touched \cup {"smu"}
  BY <1>3, <1>4, TouchLeads
<1>6. \A k \in Knobs : Touch(m, row).knob[k] = IF k \in {"smu"} THEN row[k] ELSE m.knob[k]
  BY <1>3, <1>4, TouchIs
<1> QED  BY <1>2, <1>4, <1>5, <1>6, LeadsItself DEF Smu

LEMMA ReleaseLeads ==
  ASSUME NEW m \in Machines, NEW u, NEW L
  PROVE  LET n == ReleaseUnleash(m) IN
         Leads(m, n, u, L) /\ n.touched = m.touched \ (Unleash \cup Smu)
<1> DEFINE a == Undo(m, Unleash)
           b == Undo(a, Smu)
<1>1. Leads(m, a, u, L) /\ a.touched = m.touched \ Unleash /\ a \in Machines
  BY UndoLeads DEF Leads
<1>2. ReleaseUnleash(m) = b
  BY DEF ReleaseUnleash, RestoreSmu
<1> HIDE DEF a
<1>3. Leads(a, b, u, L) /\ b.touched = a.touched \ Smu
  BY <1>1, UndoLeads
<1> HIDE DEF b
<1> QED  BY <1>1, <1>2, <1>3, LeadsOn

(* The cap is the one place where the baseline moves: to the brightness the  *)
(* user has at that moment.                                                  *)
LEMMA BacklightLeads ==
  ASSUME NEW m \in Machines, NEW u, NEW L
  PROVE  LET n == CapBacklight(m) IN
         /\ Leads(m, n, u, L)
         /\ n.touched \subseteq m.touched \cup {"backlight"}
         /\ n.knob["ceiling"] = m.knob["ceiling"]
<1> DEFINE found == IF "backlight" \in m.touched THEN m
                    ELSE [m EXCEPT !.base["backlight"] = m.knob["backlight"]]
<1>0. "backlight" \in Knobs /\ "hda" \in Knobs \ {"backlight"} /\ "ceiling" \in Knobs \ {"backlight"}
      /\ Tracked \subseteq Knobs
  BY NamesAreKnobs
<1>1. /\ found \in Machines /\ found.touched = m.touched /\ found.parked = m.parked
      /\ found.knob = m.knob
      /\ \A k \in Knobs \ {"backlight"} : found.base[k] = m.base[k]
      /\ "backlight" \in m.touched => found.base = m.base
      /\ "backlight" \notin m.touched => found.base["backlight"] = m.knob["backlight"]
  <2>1. CASE "backlight" \in m.touched
    BY <2>1
  <2>2. CASE "backlight" \notin m.touched
    <3> DEFINE base == [m.base EXCEPT !["backlight"] = m.knob["backlight"]]
    <3>1. base \in [Knobs -> Values] /\ base["backlight"] = m.knob["backlight"]
          /\ \A k \in Knobs \ {"backlight"} : base[k] = m.base[k]
      BY <1>0, MachineFields
    <3>2. found = [m EXCEPT !.base = base]
      BY <2>2
    <3> HIDE DEF base, found
    <3> QED  BY <2>2, <3>1, <3>2 DEF Machines
  <2> QED  BY <2>1, <2>2
<1>2. CapBacklight(m) = IF m.knob["backlight"] = "high" THEN Touch(found, [backlight |-> "low"]) ELSE found
  BY DEF CapBacklight
<1> HIDE DEF found
<1>3. Leads(m, found, u, L)
  <2>1. Sound(m, u, L) => Sound(found, u, L)
    BY <1>0, <1>1 DEF Sound
  <2>2. Awake(m) => Awake(found)
    BY <1>0, <1>1 DEF Awake
  <2> QED  BY <1>1, <2>1, <2>2 DEF Leads, SameBase
<1>4. CASE m.knob["backlight"] # "high"
  BY <1>1, <1>2, <1>3, <1>4
<1>5. CASE m.knob["backlight"] = "high"
  <2> DEFINE row == [backlight |-> "low"]
             n == Touch(found, row)
  <2>1. row \in Rows({"backlight"})
    BY DEF Rows, Values
  <2>2. CapBacklight(m) = n
    BY <1>2, <1>5
  <2> HIDE DEF row
  <2>3. /\ n \in Machines /\ n.base = found.base /\ n.touched = m.touched \cup {"backlight"}
        /\ n.parked = m.parked
        /\ \A k \in Knobs : n.knob[k] = IF k \in {"backlight"} THEN row[k] ELSE m.knob[k]
    BY <1>0, <1>1, <2>1, TouchIs
  <2> HIDE DEF n
  <2>4. Sound(m, u, L) => Sound(n, u, L)
    BY <1>0, <1>1, <2>3 DEF Sound
  <2>5. Awake(m) => Awake(n)
    BY <1>0, <1>1, <2>3 DEF Awake
  <2> QED  BY <1>0, <1>1, <2>2, <2>3, <2>4, <2>5 DEF Leads, SameBase
<1> QED  BY <1>4, <1>5

LEMMA LeaveLeads ==
  ASSUME NEW m \in Machines, NEW u, NEW L
  PROVE  LET n == LeaveUltra(m) IN
         /\ Leads(m, n, u, L)
         /\ n.touched = m.touched \ (Extras \cup Codec)
         /\ n.knob["smt"] = m.base["smt"] /\ n.knob["bluetooth"] = m.base["bluetooth"]
         /\ \A k \in Knobs \ (Extras \cup Codec \cup Radios) : n.knob[k] = m.knob[k]
         /\ n.knob["hda"] \in {m.knob["hda"], m.base["hda"]}
<1> DEFINE row == SetSmtControl(m.base["smt"]) ++ SetBluetoothBlocked(m.base["bluetooth"])
           a == Put(m, row)
           b == Undo(a, {"backlight"})
           c == Undo(b, Desktop)
           d == Undo(c, Writeback)
           e == Undo(d, Codec)
<1>1. m.base["smt"] \in Values /\ m.base["bluetooth"] \in Values
  BY NamesAreKnobs, MachineFields
<1>2. /\ SetSmtControl(m.base["smt"]) \in Rows({"smt"})
      /\ SetSmtControl(m.base["smt"])["smt"] = m.base["smt"]
      /\ SetBluetoothBlocked(m.base["bluetooth"]) \in Rows({"bluetooth"})
      /\ SetBluetoothBlocked(m.base["bluetooth"])["bluetooth"] = m.base["bluetooth"]
  BY <1>1, Setters
<1>3. /\ row \in Rows({"smt", "bluetooth"})
      /\ row["smt"] = m.base["smt"] /\ row["bluetooth"] = m.base["bluetooth"]
  BY <1>2 DEF ++, Rows
<1>4. LeaveUltra(m) = e
  BY DEF LeaveUltra, RestoreCodec, RestoreWriteback, RestoreDesktop, RestoreBacklight
<1> HIDE DEF row
<1>5. /\ {"smt", "bluetooth"} \in SUBSET (Knobs \ Tracked) /\ "hda" \notin {"smt", "bluetooth"}
      /\ {"smt", "bluetooth"} \in SUBSET Knobs
  BY NamesAreKnobs
<1>6. Leads(m, a, u, L) /\ a.touched = m.touched /\ a \in Machines
  BY <1>3, <1>5, PutLeads DEF Leads
<1>7. /\ a.base = m.base
      /\ \A k \in Knobs : a.knob[k] = IF k \in {"smt", "bluetooth"} THEN row[k] ELSE m.knob[k]
  BY <1>3, <1>5, PutIs
<1> HIDE DEF a
<1>8. /\ Leads(a, b, u, L) /\ b.touched = a.touched \ {"backlight"} /\ b \in Machines /\ b.base = a.base
      /\ \A k \in Knobs \ {"backlight"} : b.knob[k] = a.knob[k]
  BY <1>6, UndoLeads, UndoIs DEF Leads
<1> HIDE DEF b
<1>9. /\ Leads(b, c, u, L) /\ c.touched = b.touched \ Desktop /\ c \in Machines /\ c.base = a.base
      /\ \A k \in Knobs \ Desktop : c.knob[k] = b.knob[k]
  BY <1>8, UndoLeads, UndoIs DEF Leads
<1> HIDE DEF c
<1>10. /\ Leads(c, d, u, L) /\ d.touched = c.touched \ Writeback /\ d \in Machines /\ d.base = a.base
       /\ \A k \in Knobs \ Writeback : d.knob[k] = c.knob[k]
  BY <1>9, UndoLeads, UndoIs DEF Leads
<1> HIDE DEF d
<1>11. /\ Leads(d, e, u, L) /\ e.touched = d.touched \ Codec
       /\ \A k \in Knobs : e.knob[k] = IF k \in Codec \cap d.touched THEN d.base[k] ELSE d.knob[k]
  BY <1>10, UndoLeads, UndoIs
<1> HIDE DEF e
<1>12. Leads(m, e, u, L)
  BY <1>6, <1>8, <1>9, <1>10, <1>11, LeadsOn
<1>13. e.touched = m.touched \ (Extras \cup Codec)
  BY <1>6, <1>8, <1>9, <1>10, <1>11 DEF Extras
<1>14. ASSUME NEW k \in Knobs \ (Extras \cup Codec) PROVE e.knob[k] = a.knob[k]
  BY <1>8, <1>9, <1>10, <1>11 DEF Extras
<1>15. {"smt", "bluetooth"} \subseteq Knobs \ (Extras \cup Codec) /\ "hda" \in Knobs \ Extras
  BY NamesAreKnobs DEF Extras, Desktop, Writeback, Codec
<1>16. e.knob["hda"] \in {m.knob["hda"], m.base["hda"]}
  BY <1>5, <1>7, <1>8, <1>9, <1>10, <1>11, <1>15 DEF Extras
<1>17. \A k \in Knobs \ (Extras \cup Codec \cup Radios) : e.knob[k] = m.knob[k]
  BY <1>7, <1>14 DEF Radios
<1> QED  BY <1>3, <1>4, <1>7, <1>12, <1>13, <1>14, <1>15, <1>16, <1>17

-----------------------------------------------------------------------------
(* apply_power_profile: whatever the profile and whatever came before, the   *)
(* machine stays sound, and what is touched is of the profile.               *)

LEMMA BaseIsRow ==
  ASSUME NEW m \in Machines
  PROVE  m.base["aspm"] \in Values
BY NamesAreKnobs, MachineFields

LEMMA EnterPerformanceLeads ==
  ASSUME NEW m \in Machines, NEW u, NEW L
  PROVE  LET n == EnterPerformance(m) IN
         Leads(m, n, u, L) /\ n.touched \cap Extras = {} /\ Open(n)
<1> DEFINE a == Put(m, PerformanceRow)
           b == AssertCeiling(a)
           c == Touch(b, UnleashRow)
           d == RaiseSmu(c)
           e == LeaveUltra(d)
           P == {"governor", "aspm", "panel", "epp", "gpu"}
           D == {"gpuMode", "apst", "nvme", "wifi", "migration"}
<1>1. /\ P \in SUBSET (Knobs \ Tracked) /\ "hda" \notin P
      /\ D \in SUBSET (Knobs \ {"backlight"}) /\ "hda" \notin D /\ D \in SUBSET Knobs
      /\ {"ceiling", "boost"} \subseteq Knobs \ (D \cup Extras \cup Codec \cup Radios \cup Smu)
  BY NamesAreKnobs DEF Extras, Codec, Radios, Desktop, Writeback, Smu
<1>2. PerformanceRow \in Rows(P) /\ UnleashRow \in Rows(D)
  BY PerformanceRowIs, UnleashRowIs
<1>3. EnterPerformance(m) = e
  BY DEF EnterPerformance
<1> HIDE DEF P, D
<1>4. Leads(m, a, u, L) /\ a \in Machines
  BY <1>1, <1>2, PutLeads DEF Leads
<1> HIDE DEF a
<1>5. Leads(a, b, u, L) /\ b \in Machines /\ Open(b)
  BY <1>4, CeilingLeads DEF Leads
<1> HIDE DEF b
<1>6. Leads(b, c, u, L) /\ c \in Machines /\ Open(c)
  <2>1. Leads(b, c, u, L) /\ c \in Machines
    BY <1>1, <1>2, <1>5, TouchLeads DEF Leads
  <2>2. \A k \in Knobs : c.knob[k] = IF k \in D THEN UnleashRow[k] ELSE b.knob[k]
    BY <1>1, <1>2, <1>5, TouchIs
  <2> QED  BY <1>1, <1>5, <2>1, <2>2 DEF Open
<1> HIDE DEF c
<1>7. Leads(c, d, u, L) /\ d \in Machines /\ Open(d)
  BY <1>1, <1>6, SmuLeads DEF Leads, Open
<1> HIDE DEF d
<1>8. /\ Leads(d, e, u, L) /\ e.touched = d.touched \ (Extras \cup Codec)
      /\ Open(e)
  BY <1>1, <1>7, LeaveLeads DEF Open
<1> HIDE DEF e
<1>9. Leads(m, e, u, L)
  BY <1>4, <1>5, <1>6, <1>7, <1>8, LeadsOn
<1> QED  BY <1>3, <1>7, <1>8, <1>9

LEMMA EnterBalancedLeads ==
  ASSUME NEW m \in Machines, NEW u, NEW L
  PROVE  LET n == EnterBalanced(m) IN
         Leads(m, n, u, L) /\ n.touched \subseteq (m.touched \cup Smu) \ Extras /\ Open(n)
<1> DEFINE row == BalancedRow(m.base)
           a == Put(m, row)
           b == AssertCeiling(a)
           c == RaiseSmu(b)
           d == LeaveUltra(c)
           P == {"governor", "aspm", "panel", "epp", "gpu"}
<1>1. /\ P \in SUBSET (Knobs \ Tracked) /\ "hda" \notin P
      /\ {"ceiling", "boost"} \subseteq Knobs \ (Extras \cup Codec \cup Radios \cup Smu)
  BY NamesAreKnobs DEF Extras, Codec, Radios, Desktop, Writeback, Smu
<1>2. row \in Rows(P)
  BY BaseIsRow, BalancedRowIs
<1>3. EnterBalanced(m) = d
  BY DEF EnterBalanced
<1> HIDE DEF P, row
<1>4. Leads(m, a, u, L) /\ a \in Machines /\ a.touched = m.touched
  BY <1>1, <1>2, PutLeads DEF Leads
<1> HIDE DEF a
<1>5. Leads(a, b, u, L) /\ b \in Machines /\ b.touched = m.touched /\ Open(b)
  BY <1>4, CeilingLeads DEF Leads
<1> HIDE DEF b
<1>6. Leads(b, c, u, L) /\ c \in Machines /\ c.touched \subseteq m.touched \cup Smu /\ Open(c)
  BY <1>1, <1>5, SmuLeads DEF Leads, Open
<1> HIDE DEF c
<1>7. Leads(c, d, u, L) /\ d.touched = c.touched \ (Extras \cup Codec) /\ Open(d)
  BY <1>1, <1>6, LeaveLeads DEF Open
<1> HIDE DEF d
<1>8. Leads(m, d, u, L)
  BY <1>4, <1>5, <1>6, <1>7, LeadsOn
<1> QED  BY <1>3, <1>6, <1>7, <1>8

LEMMA EnterSaverLeads ==
  ASSUME NEW m \in Machines, NEW u, NEW L
  PROVE  LET n == EnterSaver(m) IN
         Leads(m, n, u, L) /\ n.touched \subseteq m.touched \ Extras
<1> DEFINE a == Put(m, SaverRow)
           b == LeaveUltra(a)
           P == {"governor", "boost", "ceiling", "aspm", "panel", "epp", "gpu"}
<1>1. P \in SUBSET (Knobs \ Tracked) /\ "hda" \notin P
  BY NamesAreKnobs
<1>2. SaverRow \in Rows(P)
  BY SaverRowIs
<1>3. EnterSaver(m) = b
  BY DEF EnterSaver
<1> HIDE DEF P
<1>4. Leads(m, a, u, L) /\ a \in Machines /\ a.touched = m.touched
  BY <1>1, <1>2, PutLeads DEF Leads
<1> HIDE DEF a
<1>5. Leads(a, b, u, L) /\ b.touched = a.touched \ (Extras \cup Codec)
  BY <1>4, LeaveLeads
<1> HIDE DEF b
<1>6. Leads(m, b, u, L)
  BY <1>4, <1>5, LeadsOn
<1> QED  BY <1>3, <1>4, <1>5, <1>6

LEMMA EnterUltraLeads ==
  ASSUME NEW m \in Machines, NEW audioActive \in BOOLEAN, NEW u, NEW L
  PROVE  LET n == EnterUltra(m, audioActive) IN
         /\ Leads(m, n, u, L) /\ n.touched \subseteq m.touched \cup Extras \cup Codec
         /\ n.knob["ceiling"] = "1.4"
<1> DEFINE P == {"governor", "boost", "ceiling", "aspm", "panel", "epp", "gpu", "bluetooth"}
           D == {"effects", "refresh", "baloo", "txPower", "vm", "hda"}
           pm == SetRuntimePm(audioActive)
           Q == AllowsRuntimePm(audioActive)
           row == UltraRow ++ pm
           a == Put(m, row)
           b == CapBacklight(a)
           c == Touch(b, RestrictionRow)
<1>1. /\ Q \subseteq {"devicePm", "soundPm"}
      /\ pm \in Rows(Q)
  BY DEF SetRuntimePm, AllowsRuntimePm, Rows, Values
<1>2. /\ P \cup Q \in SUBSET (Knobs \ Tracked) /\ "hda" \notin P \cup Q
      /\ P \cup Q \in SUBSET Knobs /\ "ceiling" \in P /\ "ceiling" \in Knobs
      /\ D \in SUBSET (Knobs \ {"backlight"}) /\ D \in SUBSET Knobs /\ "ceiling" \notin D
      /\ D \subseteq Extras \cup Codec
  <2> HIDE DEF Q, pm
  <2> QED  BY <1>1, NamesAreKnobs DEF Extras, Codec, Desktop, Writeback
<1>3. EnterUltra(m, audioActive) = c
  BY DEF EnterUltra
<1>4. UltraRow \in Rows(P) /\ UltraRow["ceiling"] = "1.4"
  BY UltraRowIs
<1>5. RestrictionRow \in Rows(D) /\ RestrictionRow["hda"] = "10"
  BY RestrictionRowIs
<1> HIDE DEF P, D, Q, pm
<1>6. row \in Rows(P \cup Q) /\ row["ceiling"] = "1.4"
  BY <1>1, <1>2, <1>4 DEF ++, Rows
<1> HIDE DEF row
<1>7. /\ Leads(m, a, u, L) /\ a \in Machines /\ a.touched = m.touched
      /\ a.knob["ceiling"] = "1.4"
  <2>1. Leads(m, a, u, L) /\ a \in Machines /\ a.touched = m.touched
    BY <1>2, <1>6, PutLeads DEF Leads
  <2>2. \A k \in Knobs : a.knob[k] = IF k \in P \cup Q THEN row[k] ELSE m.knob[k]
    BY <1>2, <1>6, PutIs
  <2> QED  BY <1>2, <1>6, <2>1, <2>2
<1> HIDE DEF a
<1>8. /\ Leads(a, b, u, L) /\ b \in Machines /\ b.touched \subseteq a.touched \cup {"backlight"}
      /\ b.knob["ceiling"] = "1.4"
  BY <1>7, BacklightLeads DEF Leads
<1> HIDE DEF b
<1>9. /\ Leads(b, c, u, L) /\ c.touched = b.touched \cup D
      /\ c.knob["ceiling"] = "1.4"
  <2>1. Leads(b, c, u, L) /\ c.touched = b.touched \cup D
    BY <1>2, <1>5, <1>8, TouchLeads
  <2>2. \A k \in Knobs : c.knob[k] = IF k \in D THEN RestrictionRow[k] ELSE b.knob[k]
    BY <1>2, <1>5, <1>8, TouchIs
  <2> QED  BY <1>2, <1>8, <2>1, <2>2
<1> HIDE DEF c
<1>10. Leads(m, c, u, L)
  BY <1>7, <1>8, <1>9, LeadsOn
<1> QED  BY <1>2, <1>3, <1>7, <1>8, <1>9, <1>10 DEF Extras

LEMMA ApplyLeads ==
  ASSUME NEW m \in Machines, NEW profile \in Profiles, NEW manager \in {"none", "ppd", "other"},
         NEW audioActive \in BOOLEAN, NEW u, NEW L
  PROVE  LET n == Apply(m, profile, manager, audioActive) IN
         /\ Leads(m, n, u, L)
         /\ profile # "UltraEndurance" => n.touched \cap Extras = {}
         /\ n.touched \cap Smu # {} => profile \in Unrestricted
         /\ n.touched \cap Unleash # {} => profile = "Performance"
         /\ profile \in Unrestricted => Open(n)
         /\ profile = "UltraEndurance" => n.knob["ceiling"] = "1.4"
<1> DEFINE f == EnforceFreqFloor(m)
           g == IF profile = "Performance" THEN f ELSE ReleaseUnleash(f)
           h == SetPlatform(g, PlatformOf(profile), manager)
           n == Enter(h, profile, audioActive)
<1>1. Apply(m, profile, manager, audioActive) = n
  BY DEF Apply
<1>2. Leads(m, f, u, L) /\ f \in Machines
  BY FloorLeads DEF Leads
<1> HIDE DEF f
<1>3. /\ Leads(f, g, u, L) /\ g \in Machines
      /\ profile # "Performance" => g.touched \cap (Unleash \cup Smu) = {}
  BY <1>2, ReleaseLeads, LeadsItself DEF Leads
<1> HIDE DEF g
<1>4. /\ Leads(g, h, u, L) /\ h \in Machines
      /\ profile # "Performance" => h.touched \cap (Unleash \cup Smu) = {}
  <2>1. PlatformOf(profile) \in Values
    BY DEF PlatformOf, Values
  <2> QED  BY <1>3, <2>1, PlatformLeads DEF Leads
<1> HIDE DEF h
<1>5. Leads(m, h, u, L)
  BY <1>2, <1>3, <1>4, LeadsOn
<1>6. (Extras \cup Codec) \cap (Unleash \cup Smu) = {} /\ Smu \cap Unleash = {}
  BY DEF Extras, Codec, Unleash, Smu, Desktop, Writeback
<1>7. CASE profile = "Performance"
  <2>1. n = EnterPerformance(h)
    BY <1>7 DEF Enter
  <2> HIDE DEF n
  <2>2. Leads(h, n, u, L) /\ n.touched \cap Extras = {} /\ Open(n)
    BY <1>4, <2>1, EnterPerformanceLeads
  <2> QED  BY <1>1, <1>5, <1>7, <2>2, LeadsOn DEF Unrestricted
<1>8. CASE profile = "Balanced"
  <2>1. n = EnterBalanced(h)
    BY <1>8 DEF Enter
  <2> HIDE DEF n
  <2>2. Leads(h, n, u, L) /\ n.touched \subseteq (h.touched \cup Smu) \ Extras /\ Open(n)
    BY <1>4, <2>1, EnterBalancedLeads
  <2> QED  BY <1>1, <1>4, <1>5, <1>6, <1>8, <2>2, LeadsOn DEF Unrestricted
<1>9. CASE profile = "PowerSaver"
  <2>1. n = EnterSaver(h)
    BY <1>9 DEF Enter
  <2> HIDE DEF n
  <2>2. Leads(h, n, u, L) /\ n.touched \subseteq h.touched \ Extras
    BY <1>4, <2>1, EnterSaverLeads
  <2> QED  BY <1>1, <1>4, <1>5, <1>6, <1>9, <2>2, LeadsOn DEF Unrestricted
<1>10. CASE profile = "UltraEndurance"
  <2>1. n = EnterUltra(h, audioActive)
    BY <1>10 DEF Enter
  <2> HIDE DEF n
  <2>2. /\ Leads(h, n, u, L) /\ n.touched \subseteq h.touched \cup Extras \cup Codec
        /\ n.knob["ceiling"] = "1.4"
    BY <1>4, <2>1, EnterUltraLeads
  <2> QED  BY <1>1, <1>4, <1>5, <1>6, <1>10, <2>2, LeadsOn DEF Unrestricted
<1> QED  BY <1>7, <1>8, <1>9, <1>10 DEF Profiles

-----------------------------------------------------------------------------
(* The audit, the watchdogs and the bus controller.                          *)

(* The value to come back to after a park is not the park, and without one   *)
(* the codec may sleep.                                                      *)
CodecSleeps(m) ==
  /\ m.base["hda"] # "0" /\ m.parked # "0"
  /\ m.parked = Unparked => m.knob["hda"] # "0"

LEMMA LeadsSleeps ==
  ASSUME NEW m, NEW n, NEW u, NEW L, Leads(m, n, u, L), CodecSleeps(m)
  PROVE  CodecSleeps(n)
BY NamesAreKnobs DEF Leads, SameBase, Awake, CodecSleeps

LEMMA AuditStep ==
  ASSUME NEW m \in Machines, NEW active \in BOOLEAN, NEW u, NEW L
  PROVE  LET n == Audit(m, active) IN
         /\ n \in Machines /\ SameBase(m, n)
         /\ Sound(m, u, L) => Sound(n, u, L)
         /\ CodecSleeps(m) => CodecSleeps(n)
         /\ n.touched \subseteq m.touched \cup Codec
         /\ ~active => n.parked = Unparked
         /\ \A k \in Knobs \ {"hda"} : n.knob[k] = m.knob[k]
<1> DEFINE n == Audit(m, active)
<1>0. "hda" \in Knobs /\ {"hda"} \in SUBSET (Knobs \ {"backlight"}) /\ {"hda"} \in SUBSET Knobs
  BY NamesAreKnobs
<1>1. \A v \in Values : v # Unparked
  BY DEF Values, Unparked
<1>2. m.knob["hda"] \in Values
  BY <1>0, MachineFields
<1>3. ASSUME NEW v \in Values, NEW p \in {Unparked} \cup Values
      PROVE  LET o == [Touch(m, SetAudioCodec(v)) EXCEPT !.parked = p] IN
             /\ o \in Machines /\ SameBase(m, o) /\ o.parked = p
             /\ Sound(m, u, L) => Sound(o, u, L)
             /\ o.touched \subseteq m.touched \cup Codec
             /\ o.knob["hda"] = v /\ o.base["hda"] = m.base["hda"]
             /\ \A k \in Knobs \ {"hda"} : o.knob[k] = m.knob[k]
  <2> DEFINE t == Touch(m, SetAudioCodec(v))
             o == [t EXCEPT !.parked = p]
  <2>1. SetAudioCodec(v) \in Rows({"hda"}) /\ SetAudioCodec(v)["hda"] = v
    BY Setters
  <2>2. /\ t \in Machines /\ t.base = m.base /\ t.touched = m.touched \cup {"hda"}
        /\ \A k \in Knobs : t.knob[k] = IF k \in {"hda"} THEN SetAudioCodec(v)[k] ELSE m.knob[k]
    BY <1>0, <2>1, TouchIs
  <2> HIDE DEF t
  <2>3. o \in Machines /\ o.parked = p /\ o.base = m.base /\ o.touched = m.touched \cup {"hda"}
        /\ o.knob = t.knob
    BY <2>2 DEF Machines
  <2> HIDE DEF o
  <2>4. Sound(m, u, L) => Sound(o, u, L)
    BY <2>2, <2>3, NamesAreKnobs DEF Sound
  <2>5. o.knob["hda"] = v
    BY <1>0, <2>1, <2>2, <2>3
  <2>6. \A k \in Knobs \ {"hda"} : o.knob[k] = m.knob[k]
    BY <2>2, <2>3
  <2> QED  BY <2>3, <2>4, <2>5, <2>6 DEF SameBase, Codec, t, o
<1>4. CASE active /\ m.parked = Unparked /\ m.knob["hda"] # "0"
  <2> DEFINE o == [Touch(m, SetAudioCodec("0")) EXCEPT !.parked = m.knob["hda"]]
  <2>1. n = o
    BY <1>4 DEF Audit, Park
  <2>2. "0" \in Values
    BY DEF Values
  <2>3. /\ o \in Machines /\ SameBase(m, o) /\ o.parked = m.knob["hda"]
        /\ Sound(m, u, L) => Sound(o, u, L)
        /\ o.touched \subseteq m.touched \cup Codec
        /\ o.base["hda"] = m.base["hda"]
        /\ \A k \in Knobs \ {"hda"} : o.knob[k] = m.knob[k]
    BY <1>2, <1>3, <2>2
  <2> HIDE DEF n, o
  <2> QED  BY <1>1, <1>2, <1>4, <2>1, <2>3 DEF CodecSleeps, n
<1>5. CASE ~active /\ m.parked # Unparked
  <2> DEFINE o == [Touch(m, SetAudioCodec(m.parked)) EXCEPT !.parked = Unparked]
  <2>1. n = o
    BY <1>5 DEF Audit, Unpark
  <2>2. m.parked \in Values
    BY <1>5, MachineFields
  <2>3. /\ o \in Machines /\ SameBase(m, o) /\ o.parked = Unparked
        /\ Sound(m, u, L) => Sound(o, u, L)
        /\ o.touched \subseteq m.touched \cup Codec
        /\ o.base["hda"] = m.base["hda"] /\ o.knob["hda"] = m.parked
        /\ \A k \in Knobs \ {"hda"} : o.knob[k] = m.knob[k]
    BY <1>3, <2>2
  <2> HIDE DEF n, o
  <2> QED  BY <1>5, <2>1, <2>3 DEF CodecSleeps, Unparked, n
<1>6. CASE \/ active /\ ~(m.parked = Unparked /\ m.knob["hda"] # "0")
           \/ ~active /\ m.parked = Unparked
  <2>1. n = m
    BY <1>6 DEF Audit, Park, Unpark
  <2> HIDE DEF n
  <2> QED  BY <1>6, <2>1 DEF SameBase, n
<1> QED  BY <1>4, <1>5, <1>6

LEMMA ReassertLeads ==
  ASSUME NEW m \in Machines, NEW profile \in Profiles, NEW manager \in {"none", "ppd", "other"},
         NEW reading, NEW u, NEW L
  PROVE  LET n == Reassert(m, profile, manager, reading) IN
         /\ Leads(m, n, u, L)
         /\ n.touched \subseteq m.touched \cup Smu
         /\ profile \notin Unrestricted => n.touched = m.touched
         /\ profile \in Unrestricted => Open(n)
<1> DEFINE a == AssertCeiling(m)
           open == SetPlatform(a, PlatformOf(profile), manager)
           n == Reassert(m, profile, manager, reading)
<1>1. n = IF profile \notin Unrestricted THEN m
          ELSE IF SmuReclaimed(m, reading) THEN RaiseSmu(open) ELSE open
  BY DEF Reassert
<1>2. Leads(m, a, u, L) /\ a \in Machines /\ a.touched = m.touched /\ Open(a)
  BY CeilingLeads DEF Leads
<1>0. {"ceiling", "boost"} \subseteq Knobs \ ({"platform"} \cup Smu)
  BY NamesAreKnobs DEF Smu
<1>3. PlatformOf(profile) \in Values
  BY DEF PlatformOf, Values
<1> HIDE DEF a, n
<1>4. Leads(a, open, u, L) /\ open \in Machines /\ open.touched = m.touched /\ Open(open)
  BY <1>0, <1>2, <1>3, PlatformLeads DEF Leads, Open
<1> HIDE DEF open
<1>5. /\ Leads(open, RaiseSmu(open), u, L) /\ RaiseSmu(open).touched \subseteq m.touched \cup Smu
      /\ Open(RaiseSmu(open))
  BY <1>0, <1>4, SmuLeads DEF Open
<1>6. Leads(m, open, u, L) /\ Leads(m, RaiseSmu(open), u, L) /\ Leads(m, m, u, L)
  BY <1>2, <1>4, <1>5, LeadsOn, LeadsItself
<1> QED  BY <1>1, <1>4, <1>5, <1>6 DEF n

Buses == [base: [BusKnobs -> Values], applied: BOOLEAN]

LEMMA RollbackStep ==
  ASSUME NEW m \in Machines, NEW b \in Buses, NEW u, NEW L
  PROVE  LET n == BusRollback(m, b) IN
         /\ n \in Machines /\ n.base = m.base /\ n.parked = m.parked /\ n.touched = m.touched
         /\ Sound(m, u, L) => Sound(n, u, L)
         /\ b.base["hda"] # "0" /\ Awake(m) => Awake(n)
         /\ \A k \in Knobs : n.knob[k] = IF k \in BusKnobs THEN b.base[k] ELSE m.knob[k]
<1> DEFINE n == BusRollback(m, b)
<1>1. b.base \in Rows(BusKnobs)
  BY DEF Buses, Rows
<1>2. BusKnobs \in SUBSET Knobs /\ BusKnobs \cap Tracked = {} /\ "hda" \in BusKnobs /\ Tracked \subseteq Knobs
  BY NamesAreKnobs DEF BusKnobs
<1>3. /\ n \in Machines /\ n.base = m.base /\ n.touched = m.touched /\ n.parked = m.parked
      /\ \A k \in Knobs : n.knob[k] = IF k \in BusKnobs THEN b.base[k] ELSE m.knob[k]
  BY <1>1, <1>2, PutIs DEF BusRollback
<1> HIDE DEF n
<1>4. Sound(m, u, L) => Sound(n, u, L)
  BY <1>2, <1>3 DEF Sound
<1>5. b.base["hda"] # "0" /\ Awake(m) => Awake(n)
  BY <1>2, <1>3 DEF Awake
<1> QED  BY <1>3, <1>4, <1>5 DEF n

LEMMA BusStep ==
  ASSUME NEW m \in Machines, NEW b \in Buses, NEW profile, NEW onBattery, NEW u, NEW L
  PROVE  LET n == BusEvaluate(m, b, profile, onBattery)[1]
             c == BusEvaluate(m, b, profile, onBattery)[2]
         IN /\ n \in Machines /\ SameBase(m, n) /\ n.parked = m.parked /\ n.touched = m.touched
            /\ Sound(m, u, L) => Sound(n, u, L)
            /\ b.base["hda"] # "0" /\ Awake(m) => Awake(n)
            /\ c \in Buses /\ c.base = b.base
<1> DEFINE done == BusEvaluate(m, b, profile, onBattery)
<1>1. CASE BusYields(profile, onBattery) /\ b.applied
  <2>1. done[1] = BusRollback(m, b) /\ done[2] = [b EXCEPT !.applied = FALSE]
    BY <1>1 DEF BusEvaluate
  <2>2. done[2] \in Buses /\ done[2].base = b.base
    BY <2>1 DEF Buses
  <2> HIDE DEF done
  <2> QED  BY <2>1, <2>2, RollbackStep DEF SameBase, done
<1>2. CASE BusYields(profile, onBattery) /\ ~b.applied
  <2>1. done[1] = m /\ done[2] = b
    BY <1>2 DEF BusEvaluate
  <2> HIDE DEF done
  <2> QED  BY <2>1 DEF SameBase, done
<1>3. CASE ~BusYields(profile, onBattery)
  <2>1. done[1] = BusSaves(m, profile) /\ done[2] = [b EXCEPT !.applied = TRUE]
    BY <1>3 DEF BusEvaluate
  <2>2. done[2] \in Buses /\ done[2].base = b.base
    BY <2>1 DEF Buses
  <2> HIDE DEF done
  <2>3. PICK row \in Rows({"panel", "aspm", "hda", "vmStat", "ethernet"}) :
          row["hda"] = "1" /\ BusSaves(m, profile) = Put(m, row)
    BY BusSavesRow
  <2>4. {"panel", "aspm", "hda", "vmStat", "ethernet"} \in SUBSET (Knobs \ Tracked)
    BY NamesAreKnobs
  <2>5. Leads(m, Put(m, row), u, L) /\ Put(m, row).touched = m.touched
    BY <2>3, <2>4, PutLeads
  <2> QED  BY <2>1, <2>2, <2>3, <2>5 DEF Leads, done
<1> QED  BY <1>1, <1>2, <1>3

(* It leaves all but its own knobs alone, and what it saves it ends when the *)
(* profile it is given is Performance.                                       *)
LEMMA BusScope ==
  ASSUME NEW m \in Machines, NEW b \in Buses, NEW profile, NEW onBattery
  PROVE  LET n == BusEvaluate(m, b, profile, onBattery)[1]
             c == BusEvaluate(m, b, profile, onBattery)[2]
         IN /\ \A k \in Knobs \ BusKnobs : n.knob[k] = m.knob[k]
            /\ profile = "Performance" => ~c.applied
<1> DEFINE done == BusEvaluate(m, b, profile, onBattery)
<1>1. CASE BusYields(profile, onBattery) /\ b.applied
  <2>1. done[1] = BusRollback(m, b) /\ done[2] = [b EXCEPT !.applied = FALSE]
    BY <1>1 DEF BusEvaluate
  <2>2. ~done[2].applied
    BY <2>1 DEF Buses
  <2> HIDE DEF done
  <2> QED  BY <2>1, <2>2, RollbackStep DEF done
<1>2. CASE BusYields(profile, onBattery) /\ ~b.applied
  <2>1. done[1] = m /\ done[2] = b
    BY <1>2 DEF BusEvaluate
  <2> HIDE DEF done
  <2> QED  BY <1>2, <2>1 DEF done
<1>3. CASE ~BusYields(profile, onBattery)
  <2>1. done[1] = BusSaves(m, profile)
    BY <1>3 DEF BusEvaluate
  <2>2. profile # "Performance"
    BY <1>3 DEF BusYields
  <2> HIDE DEF done
  <2>3. PICK row \in Rows({"panel", "aspm", "hda", "vmStat", "ethernet"}) :
          row["hda"] = "1" /\ BusSaves(m, profile) = Put(m, row)
    BY BusSavesRow
  <2>4. {"panel", "aspm", "hda", "vmStat", "ethernet"} \in SUBSET Knobs
    BY NamesAreKnobs
  <2>5. \A k \in Knobs \ BusKnobs : Put(m, row).knob[k] = m.knob[k]
    BY <2>3, <2>4, PutIs DEF BusKnobs
  <2> QED  BY <2>1, <2>2, <2>3, <2>5 DEF done
<1> QED  BY <1>1, <1>2, <1>3

-----------------------------------------------------------------------------
(* The capture at start, and the way back at a stop.                         *)

LEMMA CaptureIs ==
  ASSUME NEW h \in [Knobs -> Values]
  PROVE  /\ Capture(h) \in [Knobs -> Values]
         /\ \A k \in Knobs \ (Desktop \cup {"ceiling", "boost"}) : Capture(h)[k] = h[k]
         /\ \A k \in Desktop : Capture(h)[k] = "default"
         /\ Capture(h)["ceiling"] = "max"
         /\ Capture(h)["boost"] = IF h["ceiling"] = "max" THEN h["boost"] ELSE "1"
<1> DEFINE found == Found(h)
<1>1. /\ "ceiling" \in Knobs \ Desktop /\ "boost" \in Knobs \ Desktop
      /\ {"default", "max", "1"} \subseteq Values /\ Desktop \subseteq Knobs
  BY NamesAreKnobs DEF Desktop, Values
<1>2. /\ found \in [Knobs -> Values]
      /\ \A k \in Knobs : found[k] = IF k \in Desktop THEN "default" ELSE h[k]
  BY <1>1 DEF Found
<1>3. Capture(h) = IF h["ceiling"] = "max" THEN found
                   ELSE [found EXCEPT !["ceiling"] = "max", !["boost"] = "1"]
  BY DEF Capture
<1> HIDE DEF found
<1>4. {"ceiling", "boost"} \cap Desktop = {}
  BY DEF Desktop
<1> QED  BY <1>1, <1>2, <1>3, <1>4

LEMMA FreshIs ==
  ASSUME NEW h \in [Knobs -> Values]
  PROVE  /\ Fresh(h) \in Machines /\ Fresh(h).knob = h /\ Fresh(h).base = Capture(h)
         /\ Fresh(h).touched = {} /\ Fresh(h).parked = Unparked
<1>1. Capture(h) \in [Knobs -> Values]
  BY CaptureIs
<1> QED  BY <1>1 DEF Fresh, Machines

LEMMA BusCaptureIs ==
  ASSUME NEW h \in [Knobs -> Values]
  PROVE  /\ [base |-> BusCapture(h), applied |-> FALSE] \in Buses
         /\ BusCapture(h)["ethernet"] = "on"
         /\ \A k \in BusKnobs \ {"ethernet"} : BusCapture(h)[k] = h[k]
<1>1. BusKnobs \subseteq Knobs /\ "ethernet" \in BusKnobs /\ "on" \in Values
  BY NamesAreKnobs DEF BusKnobs, Values
<1>2. BusCapture(h) \in [BusKnobs -> Values]
  BY <1>1 DEF BusCapture
<1> QED  BY <1>1, <1>2 DEF Buses, BusCapture

(* restore_hardware_baseline: every knob with a baseline of its own holds    *)
(* it, every tracked one that no killed daemon falsified holds the value of  *)
(* the user, and the others are left as they were.                           *)
LEMMA RestoreIs ==
  ASSUME NEW m \in Machines, NEW manager \in {"none", "ppd", "other"}, NEW u, NEW L
  PROVE  LET n == Restore(m, manager) IN
         /\ n.knob \in [Knobs -> Values]
         /\ Sound(m, u, L) => \A k \in Tracked \ L : n.knob[k] = u[k]
         /\ \A k \in {"governor", "boost", "aspm", "panel", "gpu", "ceiling", "smt", "bluetooth"} :
              n.knob[k] = m.base[k]
         /\ manager = "none" => n.knob["platform"] = m.base["platform"]
         /\ n.knob["hda"] \in {m.knob["hda"], m.base["hda"]}
         /\ \A k \in {"vmStat", "ethernet"} : n.knob[k] = m.knob[k]
<1> DEFINE D == (Firmware \ {"platform"}) \cup Graphics \cup {"ceiling"}
           row == [k \in D |-> m.base[k]]
           a == SetPlatform(m, m.base["platform"], manager)
           b == Put(a, row)
           c == LeaveUltra(b)
           d == Undo(c, Unleash)
           e == Undo(d, Smu)
<1>1. /\ D = {"governor", "boost", "aspm", "panel", "gpu", "ceiling"}
      /\ D \in SUBSET (Knobs \ Tracked) /\ "hda" \notin D /\ D \in SUBSET Knobs
  BY NamesAreKnobs DEF Firmware, Graphics
<1>2. row \in Rows(D) /\ \A k \in D : row[k] = m.base[k]
  BY <1>1, MachineFields DEF Rows
<1>3. Restore(m, manager) = [e EXCEPT !.parked = Unparked]
  BY DEF Restore, RestorePlain, ReleaseUnleash, RestoreSmu
<1> HIDE DEF D, row
<1>4. /\ Leads(m, a, u, L) /\ a \in Machines /\ a.touched = m.touched /\ a.base = m.base
      /\ \A k \in Knobs \ {"platform"} : a.knob[k] = m.knob[k]
      /\ manager = "none" => a.knob["platform"] = m.base["platform"]
  <2>1. m.base["platform"] \in Values
    BY NamesAreKnobs, MachineFields
  <2> QED  BY <2>1, PlatformLeads DEF Leads
<1> HIDE DEF a
<1>5. /\ Leads(a, b, u, L) /\ b \in Machines /\ b.touched = m.touched /\ b.base = m.base
      /\ \A k \in Knobs : b.knob[k] = IF k \in D THEN m.base[k] ELSE a.knob[k]
  <2>1. Leads(a, b, u, L) /\ b.touched = a.touched
    BY <1>1, <1>2, <1>4, PutLeads
  <2>2. /\ b \in Machines /\ b.base = a.base
        /\ \A k \in Knobs : b.knob[k] = IF k \in D THEN row[k] ELSE a.knob[k]
    BY <1>1, <1>2, <1>4, PutIs
  <2> QED  BY <1>2, <1>4, <2>1, <2>2
<1> HIDE DEF b
<1>6. /\ Leads(b, c, u, L) /\ c \in Machines /\ c.touched = m.touched \ (Extras \cup Codec)
      /\ c.knob["smt"] = m.base["smt"] /\ c.knob["bluetooth"] = m.base["bluetooth"]
      /\ \A k \in Knobs \ (Extras \cup Codec \cup Radios) : c.knob[k] = b.knob[k]
      /\ c.knob["hda"] \in {b.knob["hda"], m.base["hda"]}
  BY <1>5, LeaveLeads DEF Leads
<1> HIDE DEF c
<1>7. /\ Leads(c, d, u, L) /\ d \in Machines /\ d.touched = c.touched \ Unleash
      /\ \A k \in Knobs \ Unleash : d.knob[k] = c.knob[k]
  BY <1>6, UndoLeads, UndoIs DEF Leads
<1> HIDE DEF d
<1>8. /\ Leads(d, e, u, L) /\ e \in Machines /\ e.touched = d.touched \ Smu
      /\ \A k \in Knobs \ Smu : e.knob[k] = d.knob[k]
  BY <1>7, UndoLeads, UndoIs DEF Leads
<1> HIDE DEF e
<1>9. Restore(m, manager).knob = e.knob
  BY <1>3, <1>8 DEF Machines
<1>10. Sound(m, u, L) => \A k \in Tracked \ L : e.knob[k] = u[k]
  <2>1. Sound(m, u, L) => Sound(e, u, L)
    BY <1>4, <1>5, <1>6, <1>7, <1>8 DEF Leads
  <2>2. e.touched \cap Tracked = {}
    BY <1>6, <1>7, <1>8 DEF Tracked, Extras
  <2> QED  BY <2>1, <2>2 DEF Sound
<1>11. ASSUME NEW k \in Knobs \ (Unleash \cup Smu) PROVE e.knob[k] = c.knob[k]
  BY <1>7, <1>8
<1>12. /\ D \cup {"smt", "bluetooth", "platform", "hda", "vmStat", "ethernet"} \subseteq Knobs \ (Unleash \cup Smu)
       /\ D \cup {"platform", "vmStat", "ethernet"} \subseteq Knobs \ (Extras \cup Codec \cup Radios)
       /\ "hda" \in Knobs \ (D \cup {"platform"})
       /\ {"vmStat", "ethernet"} \cap (D \cup {"platform"}) = {} /\ "platform" \notin D
  BY <1>1, NamesAreKnobs DEF Unleash, Smu, Extras, Desktop, Writeback, Codec, Radios
<1>13. \A k \in D : e.knob[k] = m.base[k]
  BY <1>5, <1>6, <1>11, <1>12
<1>14. e.knob["smt"] = m.base["smt"] /\ e.knob["bluetooth"] = m.base["bluetooth"]
  BY <1>6, <1>11, <1>12
<1>15. manager = "none" => e.knob["platform"] = m.base["platform"]
  BY <1>4, <1>5, <1>6, <1>11, <1>12
<1>16. e.knob["hda"] \in {m.knob["hda"], m.base["hda"]}
  BY <1>4, <1>5, <1>6, <1>11, <1>12
<1>17. \A k \in {"vmStat", "ethernet"} : e.knob[k] = m.knob[k]
  BY <1>4, <1>5, <1>6, <1>11, <1>12
<1>18. e.knob \in [Knobs -> Values]
  BY <1>8, MachineFields
<1> QED  BY <1>1, <1>9, <1>10, <1>13, <1>14, <1>15, <1>16, <1>17, <1>18

-----------------------------------------------------------------------------
(* The inductive invariant.                                                  *)

(* The baseline is what the user set, of every knob that no killed daemon    *)
(* had falsified; of the clock and the boost where he did not lower them.    *)
BaseKept ==
  \A k \in Knobs \ (Forgotten \cup laundered \cup {"backlight"}) :
    \/ engine.base[k] = user[k]
    \/ k \in {"ceiling", "boost"} /\ (user["ceiling"] # "max" \/ "ceiling" \in laundered)

BusBaseKept == \A k \in BusKnobs \ laundered : bus.base[k] = user[k]

(* A disabled boost is in the baseline only next to a clock that nobody      *)
(* capped, and then it was the user who disabled it.                         *)
CapsKept ==
  /\ engine.base["ceiling"] = "max"
  /\ engine.base["boost"] = "0" =>
       user["boost"] = "0" \/ ("ceiling" \notin laundered /\ user["ceiling"] = "max")

ParkKept ==
  /\ "hda" \notin laundered /\ user["hda"] # "0" => CodecSleeps(engine)
  /\ ~heard => engine.parked = Unparked

InScope(m, profile) ==
  /\ profile # "UltraEndurance" => m.touched \cap Extras = {}
  /\ m.touched \cap Smu # {} => profile \in Unrestricted
  /\ m.touched \cap Unleash # {} => profile = "Performance"

(* Between two lives: no daemon leaves an uncapped clock with its boost      *)
(* disabled, so that the next one cannot tell it from the user's choice.     *)
LeftBehind ==
  engine.knob["ceiling"] = "max" /\ engine.knob["boost"] = "0" =>
    user["boost"] = "0" \/ user["ceiling"] = "max"

KnownUser == (\A k \in Desktop : user[k] = "default") /\ user["ethernet"] = "on"

InForce == selected \in Unrestricted => applied = selected

HwInv ==
  /\ HwTypeOK
  /\ KnownUser
  /\ InForce
  /\ hwUp => /\ Sound(engine, user, laundered)
             /\ BaseKept /\ BusBaseKept /\ CapsKept /\ ParkKept
             /\ InScope(engine, applied)
  /\ ~hwUp => LeftBehind

(* A step of a living daemon.                                                *)
LEMMA StepKeepsInv ==
  ASSUME HwInv, hwUp, UNCHANGED <<hwUp, owner, user, laundered, kills>>,
         engine' \in Machines, SameBase(engine, engine'),
         Sound(engine, user, laundered) => Sound(engine', user, laundered),
         "hda" \notin laundered /\ user["hda"] # "0" /\ CodecSleeps(engine) => CodecSleeps(engine'),
         ~heard' => engine'.parked = Unparked, heard' \in BOOLEAN,
         bus' \in Buses, bus'.base = bus.base,
         {applied', selected', inForce'} \subseteq Profiles,
         selected' \in Unrestricted => applied' = selected',
         InScope(engine', applied')
  PROVE  HwInv'
<1>1. HwTypeOK'
  BY DEF HwInv, HwTypeOK, Machines, Buses
<1>2. KnownUser' /\ InForce'
  BY DEF HwInv, KnownUser, InForce
<1>3. Sound(engine', user', laundered') /\ InScope(engine', applied')
  BY DEF HwInv
<1>4. BaseKept' /\ BusBaseKept'
  BY DEF HwInv, BaseKept, BusBaseKept, SameBase
<1>5. CapsKept'
  <2>1. {"ceiling", "boost"} \subseteq Knobs \ {"backlight"}
    BY NamesAreKnobs
  <2> QED  BY <2>1 DEF HwInv, CapsKept, SameBase
<1>6. ParkKept'
  BY DEF HwInv, ParkKept
<1> QED  BY <1>1, <1>2, <1>3, <1>4, <1>5, <1>6 DEF HwInv

(* The end of a life, in any way: what the next daemon may take for the      *)
(* machine of the user.                                                      *)
LEMMA DieKeepsInv ==
  ASSUME HwInv, NEW h \in [Knobs -> Values], Die(h), kills' \in 0..MaxKills,
         h["ceiling"] = "max" /\ h["boost"] = "0" => user["boost"] = "0" \/ user["ceiling"] = "max"
  PROVE  HwInv'
<1>1. /\ engine' \in Machines /\ engine'.knob = h
  BY FreshIs DEF Die
<1>2. bus' \in Buses
  BY BusCaptureIs DEF Die
<1>3. HwTypeOK'
  BY <1>1, <1>2 DEF HwInv, HwTypeOK, Die, Machines, Buses, Profiles
<1>4. KnownUser' /\ InForce' /\ ~hwUp'
  BY DEF HwInv, Die, KnownUser, InForce
<1>5. LeftBehind'
  BY <1>1 DEF LeftBehind, Die
<1> QED  BY <1>3, <1>4, <1>5 DEF HwInv

LEMMA InitInv == HwInit => HwInv
<1> SUFFICES ASSUME HwInit PROVE HwInv
  OBVIOUS
<1>1. PICK host \in Hosts : user = host.settings /\ owner = host.manager
  BY DEF HwInit
<1>2. /\ user \in [Knobs -> Values] /\ owner \in {"none", "ppd", "other"} /\ KnownUser
  BY <1>1, HostsAssumption DEF KnownUser
<1>3. engine \in Machines /\ engine.knob = user
  BY <1>2, FreshIs DEF HwInit
<1>4. bus \in Buses
  BY <1>2, BusCaptureIs DEF HwInit
<1>5. HwTypeOK
  <2>1. kills \in 0..MaxKills /\ "Balanced" \in Profiles /\ laundered \subseteq Knobs
    BY KillsAssumption DEF HwInit, Profiles
  <2>2. hwUp \in BOOLEAN /\ heard \in BOOLEAN /\ {applied, selected, inForce} \subseteq Profiles
    BY <2>1 DEF HwInit
  <2> QED  BY <1>2, <1>3, <1>4, <2>1, <2>2 DEF HwTypeOK, Machines, Buses
<1>6. LeftBehind
  BY <1>3 DEF LeftBehind
<1> QED  BY <1>2, <1>5, <1>6 DEF HwInit, HwInv, InForce, Unrestricted

LEMMA TypesOfInv ==
  ASSUME HwInv
  PROVE  /\ engine \in Machines /\ bus \in Buses
         /\ owner \in {"none", "ppd", "other"} /\ heard \in BOOLEAN
         /\ user \in [Knobs -> Values] /\ {applied, selected, inForce} \subseteq Profiles
BY DEF HwInv, HwTypeOK, Machines, Buses

(* The bus controller gives the codec the timeout of the user back.          *)
LEMMA BusLetsSleep ==
  ASSUME HwInv, hwUp, NEW m \in Machines, NEW profile, NEW onBattery,
         "hda" \notin laundered, user["hda"] # "0", CodecSleeps(m)
  PROVE  CodecSleeps(BusEvaluate(m, bus, profile, onBattery)[1])
<1>1. bus \in Buses /\ "hda" \in BusKnobs /\ "hda" \in Knobs \ {"backlight"}
  BY TypesOfInv, NamesAreKnobs DEF BusKnobs
<1>2. bus.base["hda"] # "0"
  BY <1>1 DEF HwInv, BusBaseKept
<1> DEFINE n == BusEvaluate(m, bus, profile, onBattery)[1]
<1>3. SameBase(m, n) /\ n.parked = m.parked /\ (Awake(m) => Awake(n))
  BY <1>1, <1>2, BusStep
<1> HIDE DEF n
<1> QED  BY <1>1, <1>3 DEF CodecSleeps, Awake, SameBase, n

LEMMA LightCycleKeepsInv ==
  ASSUME HwInv, LightCycle
  PROVE  HwInv'
<1>1. hwUp /\ UNCHANGED <<hwUp, applied, selected, inForce, heard, owner, user, laundered, kills>>
  BY DEF LightCycle
<1>2. PICK onBattery \in BOOLEAN : Cycle(engine, inForce, onBattery)
  BY DEF LightCycle
<1> DEFINE n == BusEvaluate(engine, bus, inForce, onBattery)[1]
           c == BusEvaluate(engine, bus, inForce, onBattery)[2]
<1>3. engine' = n /\ bus' = c
  BY <1>2 DEF Cycle
<1>4. /\ n \in Machines /\ SameBase(engine, n) /\ n.parked = engine.parked /\ n.touched = engine.touched
      /\ Sound(engine, user, laundered) => Sound(n, user, laundered)
      /\ c \in Buses /\ c.base = bus.base
  BY TypesOfInv, BusStep
<1>5. "hda" \notin laundered /\ user["hda"] # "0" /\ CodecSleeps(engine) => CodecSleeps(n)
  BY <1>1, TypesOfInv, BusLetsSleep
<1> HIDE DEF n, c
<1>6. InScope(n, applied)
  BY <1>1, <1>4 DEF HwInv, InScope
<1>7. /\ ~heard => n.parked = Unparked
      /\ selected \in Unrestricted => applied = selected
  BY <1>1, <1>4 DEF HwInv, ParkKept, InForce
<1> QED  BY <1>1, <1>3, <1>4, <1>5, <1>6, <1>7, TypesOfInv, StepKeepsInv

LEMMA DeepCycleKeepsInv ==
  ASSUME HwInv, DeepCycle
  PROVE  HwInv'
<1>1. hwUp /\ UNCHANGED <<hwUp, applied, owner, user, laundered, kills>>
  BY DEF DeepCycle
<1>2. PICK profile \in Weaker(selected), onBattery \in BOOLEAN, playing \in BOOLEAN :
        \E reading \in SmuReadings(engine, profile) :
          /\ inForce' = profile /\ selected' = profile /\ heard' = playing
          /\ Cycle(Reassert(Audit(engine, playing), profile, owner, reading), profile, onBattery)
  BY DEF DeepCycle
<1>3. PICK reading \in SmuReadings(engine, profile) :
        Cycle(Reassert(Audit(engine, playing), profile, owner, reading), profile, onBattery)
  BY <1>2
<1>4. profile \in Profiles /\ (profile \in Unrestricted => profile = selected)
  BY TypesOfInv DEF Weaker, Profiles, Unrestricted
<1> DEFINE a == Audit(engine, playing)
           b == Reassert(a, profile, owner, reading)
           n == BusEvaluate(b, bus, profile, onBattery)[1]
           c == BusEvaluate(b, bus, profile, onBattery)[2]
<1>5. engine' = n /\ bus' = c
  BY <1>3 DEF Cycle
<1>6. /\ a \in Machines /\ SameBase(engine, a)
      /\ Sound(engine, user, laundered) => Sound(a, user, laundered)
      /\ CodecSleeps(engine) => CodecSleeps(a)
      /\ a.touched \subseteq engine.touched \cup Codec
      /\ ~playing => a.parked = Unparked
  BY TypesOfInv, AuditStep
<1> HIDE DEF a
<1>7. /\ Leads(a, b, user, laundered) /\ b \in Machines
      /\ b.touched \subseteq a.touched \cup Smu
      /\ profile \notin Unrestricted => b.touched = a.touched
  <2>1. /\ Leads(a, b, user, laundered)
        /\ b.touched \subseteq a.touched \cup Smu
        /\ profile \notin Unrestricted => b.touched = a.touched
    BY <1>4, <1>6, TypesOfInv, ReassertLeads
  <2> QED  BY <2>1 DEF Leads
<1> HIDE DEF b
<1>8. CodecSleeps(a) => CodecSleeps(b)
  BY <1>7, LeadsSleeps
<1>9. /\ n \in Machines /\ SameBase(b, n) /\ n.parked = b.parked /\ n.touched = b.touched
      /\ Sound(b, user, laundered) => Sound(n, user, laundered)
      /\ c \in Buses /\ c.base = bus.base
  BY <1>7, TypesOfInv, BusStep
<1>10. "hda" \notin laundered /\ user["hda"] # "0" /\ CodecSleeps(b) => CodecSleeps(n)
  BY <1>1, <1>7, BusLetsSleep
<1> HIDE DEF n, c
<1>11. InScope(n, applied)
  <2>1. (Codec \cup Smu) \cap Extras = {} /\ Codec \cap (Smu \cup Unleash) = {} /\ Smu \cap Unleash = {}
    BY DEF Codec, Smu, Extras, Unleash, Desktop, Writeback
  <2>2. InScope(engine, applied) /\ (profile \in Unrestricted => applied = profile)
    BY <1>1, <1>4 DEF HwInv, InForce
  <2> QED  BY <1>6, <1>7, <1>9, <2>1, <2>2 DEF InScope
<1>12. SameBase(engine, n)
  BY <1>6, <1>7, <1>9 DEF SameBase, Leads
<1>13. profile \in Unrestricted => applied = profile
  BY <1>4 DEF HwInv, InForce
<1>14. Sound(engine, user, laundered) => Sound(n, user, laundered)
  BY <1>6, <1>7, <1>9 DEF Leads
<1>15. ~playing => n.parked = Unparked
  BY <1>6, <1>7, <1>9 DEF Leads
<1>16. {applied', selected', inForce'} \subseteq Profiles
  BY <1>1, <1>2, <1>4, TypesOfInv
<1> QED  BY <1>1, <1>2, <1>5, <1>6, <1>8, <1>9, <1>10, <1>11, <1>12, <1>13, <1>14, <1>15, <1>16, StepKeepsInv

LEMMA SelectKeepsInv ==
  ASSUME HwInv, NEW profile \in Profiles, SelectOnEngine(profile)
  PROVE  HwInv'
<1>1. /\ hwUp /\ applied' = profile /\ selected' = profile
      /\ UNCHANGED <<hwUp, bus, inForce, heard, owner, user, laundered, kills>>
  BY DEF SelectOnEngine
<1> DEFINE n == Apply(engine, profile, owner, heard)
<1>2. engine' = n
  BY DEF SelectOnEngine
<1>3. Leads(engine, n, user, laundered) /\ InScope(n, profile)
  BY TypesOfInv, ApplyLeads DEF InScope
<1> HIDE DEF n
<1>4. CodecSleeps(engine) => CodecSleeps(n)
  BY <1>3, LeadsSleeps
<1>5. ~heard => n.parked = Unparked
  BY <1>1, <1>3 DEF HwInv, ParkKept, Leads
<1> QED  BY <1>1, <1>2, <1>3, <1>4, <1>5, TypesOfInv, StepKeepsInv DEF Leads

(* A start: what differs from the user's value is on record as falsified,    *)
(* the rest of the capture is the user's; a capped clock is not believed.    *)
LEMMA StartKeepsInv ==
  ASSUME HwInv, NEW profile \in Profiles, StartEngine(profile)
  PROVE  HwInv'
<1> DEFINE h == engine.knob
           f == Fresh(h)
           n == Apply(f, profile, owner, FALSE)
           L == {k \in Knobs \ Forgotten : h[k] # user[k]}
<1>1. /\ ~hwUp /\ hwUp' = TRUE /\ engine' = n /\ laundered' = L
      /\ bus' = [base |-> BusCapture(h), applied |-> FALSE]
      /\ applied' = profile /\ selected' = profile /\ inForce' = "Balanced" /\ heard' = FALSE
      /\ UNCHANGED <<owner, user, kills>>
  BY DEF StartEngine
<1>2. h \in [Knobs -> Values]
  BY TypesOfInv, MachineFields
<1>3. f \in Machines /\ f.knob = h /\ f.base = Capture(h) /\ f.touched = {} /\ f.parked = Unparked
  BY <1>2, FreshIs
<1>4. /\ \A k \in Knobs \ (Desktop \cup {"ceiling", "boost"}) : f.base[k] = h[k]
      /\ \A k \in Desktop : f.base[k] = "default"
      /\ f.base["ceiling"] = "max"
      /\ f.base["boost"] = IF h["ceiling"] = "max" THEN h["boost"] ELSE "1"
  BY <1>2, <1>3, CaptureIs
<1>5. \A k \in Knobs \ (L \cup Forgotten) : h[k] = user[k]
  OBVIOUS
<1>6. LeftBehind /\ KnownUser
  BY <1>1 DEF HwInv
<1> HIDE DEF f, L, h
<1>7. Leads(f, n, user, L) /\ InScope(n, profile)
  <2>1. owner \in {"none", "ppd", "other"} /\ FALSE \in BOOLEAN /\ f \in Machines
    BY <1>3, TypesOfInv
  <2>2. /\ Leads(f, n, user, L)
        /\ profile # "UltraEndurance" => n.touched \cap Extras = {}
        /\ n.touched \cap Smu # {} => profile \in Unrestricted
        /\ n.touched \cap Unleash # {} => profile = "Performance"
    BY <2>1, ApplyLeads
  <2> QED  BY <2>2 DEF InScope
<1> HIDE DEF n
<1>8. Sound(n, user, L)
  <2>1. Tracked \subseteq Knobs \ (Forgotten \cup {"ceiling", "boost"})
    BY NamesAreKnobs DEF Forgotten
  <2>2. Sound(f, user, L)
    BY <1>3, <1>4, <1>5, <1>6, <2>1 DEF Sound, KnownUser
  <2> QED  BY <1>7, <2>2 DEF Leads
<1>9. \A k \in Knobs \ {"backlight"} : n.base[k] = f.base[k]
  BY <1>7 DEF Leads, SameBase
<1>10. /\ {"ceiling", "boost", "hda"} \subseteq Knobs \ (Forgotten \cup Desktop \cup {"backlight"})
       /\ "hda" \notin {"ceiling", "boost"}
  BY NamesAreKnobs DEF Forgotten, Desktop
<1>11. ASSUME NEW k \in Knobs \ (Forgotten \cup L \cup {"backlight"})
       PROVE  \/ n.base[k] = user[k]
              \/ k \in {"ceiling", "boost"} /\ (user["ceiling"] # "max" \/ "ceiling" \in L)
  <2>1. CASE k \notin {"ceiling", "boost"}
    BY <1>4, <1>5, <1>6, <1>9, <2>1 DEF KnownUser
  <2>2. CASE k \in {"ceiling", "boost"} /\ h["ceiling"] # "max"
    BY <1>5, <1>10, <2>2
  <2>3. CASE k \in {"ceiling", "boost"} /\ h["ceiling"] = "max"
    BY <1>4, <1>5, <1>9, <1>10, <2>3
  <2> QED  BY <2>1, <2>2, <2>3
<1>12. n.base["ceiling"] = "max"
  BY <1>4, <1>9, <1>10
<1>13. n.base["boost"] = "0" => user["boost"] = "0" \/ ("ceiling" \notin L /\ user["ceiling"] = "max")
  <2>1. SUFFICES ASSUME n.base["boost"] = "0", user["boost"] # "0"
                 PROVE  "ceiling" \notin L /\ user["ceiling"] = "max"
    OBVIOUS
  <2>2. h["ceiling"] = "max" /\ h["boost"] = "0"
    BY <1>4, <1>9, <1>10, <2>1
  <2>3. user["ceiling"] = "max"
    BY <1>6, <2>1, <2>2 DEF LeftBehind, h
  <2> QED  BY <2>2, <2>3 DEF L
<1>14. "hda" \notin L /\ user["hda"] # "0" => CodecSleeps(n)
  <2>1. "hda" \notin L /\ user["hda"] # "0" => CodecSleeps(f)
    BY <1>3, <1>4, <1>5, <1>10 DEF CodecSleeps, Unparked
  <2> QED  BY <1>7, <2>1, LeadsSleeps
<1>15. n.parked = Unparked /\ n \in Machines
  BY <1>3, <1>7 DEF Leads
<1>16. /\ bus' \in Buses
       /\ \A k \in BusKnobs \ L : bus'.base[k] = user[k]
  <2>1. BusKnobs \subseteq Knobs \ Forgotten
    BY NamesAreKnobs DEF BusKnobs, Forgotten
  <2>2. /\ bus' \in Buses /\ bus'.base["ethernet"] = "on"
        /\ \A k \in BusKnobs \ {"ethernet"} : bus'.base[k] = h[k]
    BY <1>1, <1>2, BusCaptureIs
  <2> QED  BY <1>5, <1>6, <2>1, <2>2 DEF KnownUser
<1>17. HwTypeOK'
  <2>1. L \subseteq Knobs
    BY DEF L
  <2>2. {applied', selected', inForce'} \subseteq Profiles
    BY <1>1 DEF Profiles
  <2> QED  BY <1>1, <1>15, <1>16, <2>1, <2>2 DEF HwInv, HwTypeOK, Machines, Buses
<1>18. BaseKept'
  BY <1>1, <1>11 DEF BaseKept
<1>19. BusBaseKept'
  BY <1>1, <1>16 DEF BusBaseKept
<1>20. CapsKept'
  BY <1>1, <1>12, <1>13 DEF CapsKept
<1>21. ParkKept'
  BY <1>1, <1>14, <1>15 DEF ParkKept
<1> QED  BY <1>1, <1>6, <1>7, <1>8, <1>17, <1>18, <1>19, <1>20, <1>21 DEF HwInv, KnownUser, InForce

(* What an orderly stop leaves in the knobs.                                 *)
LEMMA StopLeaves ==
  ASSUME HwInv, hwUp, NEW h, h = Restore(BusRollback(engine, bus), owner).knob
  PROVE  /\ h \in [Knobs -> Values]
         /\ h["ceiling"] = engine.base["ceiling"] /\ h["boost"] = engine.base["boost"]
         /\ \A k \in Knobs \ Forgotten :
              \/ h[k] = user[k]
              \/ k \in laundered
              \/ k = "platform" /\ owner # "none"
              \/ k \in {"ceiling", "boost"} /\ (user["ceiling"] # "max" \/ "ceiling" \in laundered)
<1> DEFINE m == BusRollback(engine, bus)
<1>1. /\ m \in Machines /\ m.base = engine.base
      /\ Sound(engine, user, laundered) => Sound(m, user, laundered)
      /\ \A k \in Knobs : m.knob[k] = IF k \in BusKnobs THEN bus.base[k] ELSE engine.knob[k]
  BY TypesOfInv, RollbackStep
<1> HIDE DEF m
<1>2. /\ h \in [Knobs -> Values]
      /\ Sound(m, user, laundered) => \A k \in Tracked \ laundered : h[k] = user[k]
      /\ \A k \in {"governor", "boost", "aspm", "panel", "gpu", "ceiling", "smt", "bluetooth"} :
           h[k] = engine.base[k]
      /\ owner = "none" => h["platform"] = engine.base["platform"]
      /\ h["hda"] \in {m.knob["hda"], engine.base["hda"]}
      /\ \A k \in {"vmStat", "ethernet"} : h[k] = m.knob[k]
  <2> DEFINE n == Restore(m, owner)
  <2>1. m \in Machines /\ owner \in {"none", "ppd", "other"} /\ h = n.knob
    BY <1>1, TypesOfInv DEF m
  <2>2. /\ n.knob \in [Knobs -> Values]
        /\ Sound(m, user, laundered) => \A k \in Tracked \ laundered : n.knob[k] = user[k]
        /\ \A k \in {"governor", "boost", "aspm", "panel", "gpu", "ceiling", "smt", "bluetooth"} :
             n.knob[k] = m.base[k]
        /\ owner = "none" => n.knob["platform"] = m.base["platform"]
        /\ n.knob["hda"] \in {m.knob["hda"], m.base["hda"]}
        /\ \A k \in {"vmStat", "ethernet"} : n.knob[k] = m.knob[k]
    BY <2>1, RestoreIs
  <2> HIDE DEF n
  <2> QED  BY <1>1, <2>1, <2>2
<1>3. Sound(engine, user, laundered) /\ BaseKept /\ BusBaseKept
  BY DEF HwInv
<1> DEFINE P == {"governor", "boost", "aspm", "panel", "gpu", "ceiling", "smt", "bluetooth"}
<1>4. /\ Knobs \ Forgotten = Tracked \cup P \cup {"platform", "hda", "vmStat", "ethernet"}
      /\ (P \cup {"platform", "hda"}) \cap {"backlight"} = {}
      /\ {"hda", "vmStat", "ethernet"} \subseteq BusKnobs \cap Knobs
  BY NamesAreKnobs DEF Forgotten, BusKnobs
<1> SUFFICES ASSUME NEW k \in Knobs \ Forgotten, k \notin laundered
             PROVE  \/ h[k] = user[k]
                    \/ k = "platform" /\ owner # "none"
                    \/ k \in {"ceiling", "boost"} /\ (user["ceiling"] # "max" \/ "ceiling" \in laundered)
  BY <1>2
<1>5. CASE k \in Tracked
  BY <1>1, <1>2, <1>3, <1>5
<1>6. CASE k \in P
  BY <1>2, <1>3, <1>4, <1>6 DEF BaseKept
<1>7. CASE k = "platform"
  BY <1>2, <1>3, <1>4, <1>7 DEF BaseKept
<1>8. CASE k = "hda"
  BY <1>1, <1>2, <1>3, <1>4, <1>8 DEF BaseKept, BusBaseKept
<1>9. CASE k \in {"vmStat", "ethernet"}
  BY <1>1, <1>2, <1>3, <1>4, <1>9 DEF BusBaseKept
<1> QED  BY <1>4, <1>5, <1>6, <1>7, <1>8, <1>9

LEMMA StopKeepsInv ==
  ASSUME HwInv, StopHardware
  PROVE  HwInv'
<1> DEFINE h == Restore(BusRollback(engine, bus), owner).knob
<1>1. Die(h) /\ kills' = kills
  BY DEF StopHardware
<1>2. hwUp
  BY <1>1 DEF Die
<1>3. /\ h \in [Knobs -> Values]
      /\ h["ceiling"] = engine.base["ceiling"] /\ h["boost"] = engine.base["boost"]
  BY <1>2, StopLeaves
<1> HIDE DEF h
<1>4. h["ceiling"] = "max" /\ h["boost"] = "0" => user["boost"] = "0" \/ user["ceiling"] = "max"
  BY <1>2, <1>3 DEF HwInv, CapsKept
<1> QED  BY <1>1, <1>3, <1>4, DieKeepsInv DEF HwInv, HwTypeOK

(* A kill: Performance leaves the boost enabled, UltraEndurance the clock    *)
(* capped.                                                                   *)
LEMMA KillKeepsInv ==
  ASSUME HwInv, Kill
  PROVE  HwInv'
<1> DEFINE h == engine.knob
           n == Apply(Fresh(user), applied, owner, heard)
<1>1. /\ Die(h) /\ kills' = kills + 1 /\ kills < MaxKills
      /\ applied \in {"Performance", "UltraEndurance"} /\ h = n.knob
  BY DEF Kill, Quiet
<1>2. kills' \in 0..MaxKills
  BY <1>1, KillsAssumption DEF HwInv, HwTypeOK
<1>3. h \in [Knobs -> Values]
  BY TypesOfInv, MachineFields
<1>4. /\ applied = "Performance" => n.knob["boost"] = "1"
      /\ applied = "UltraEndurance" => n.knob["ceiling"] = "1.4"
  <2>1. Fresh(user) \in Machines
    BY TypesOfInv, FreshIs
  <2> QED  BY <2>1, TypesOfInv, ApplyLeads DEF Open, Unrestricted
<1> HIDE DEF h, n
<1>5. ~(h["ceiling"] = "max" /\ h["boost"] = "0")
  BY <1>1, <1>4
<1> QED  BY <1>1, <1>2, <1>3, <1>5, DieKeepsInv

LEMMA RebootKeepsInv ==
  ASSUME HwInv, RebootMachine
  PROVE  HwInv'
<1>1. /\ ~hwUp /\ engine' = Fresh(user) /\ bus' = [base |-> BusCapture(user), applied |-> FALSE]
      /\ UNCHANGED <<hwUp, applied, selected, inForce, heard, owner, user, laundered, kills>>
  BY DEF RebootMachine
<1>2. engine' \in Machines /\ engine'.knob = user /\ bus' \in Buses
  BY <1>1, TypesOfInv, FreshIs, BusCaptureIs
<1>3. HwTypeOK'
  BY <1>1, <1>2 DEF HwInv, HwTypeOK, Machines, Buses
<1>4. LeftBehind'
  BY <1>1, <1>2 DEF LeftBehind
<1> QED  BY <1>1, <1>3, <1>4 DEF HwInv, KnownUser, InForce

(* The user dims: his brightness follows unless the cap is on, and then the  *)
(* one to return to does not move.                                           *)
LEMMA DimsKeepsInv ==
  ASSUME HwInv, UserDims
  PROVE  HwInv'
<1>1. PICK b \in {"low", "high"} \ {engine.knob["backlight"]} :
        /\ LET dimmed == [engine EXCEPT !.knob["backlight"] = b]
           IN engine' = IF hwUp THEN dimmed ELSE Fresh(dimmed.knob)
        /\ user' = IF hwUp /\ "backlight" \in engine.touched THEN user
                   ELSE [user EXCEPT !["backlight"] = b]
  BY DEF UserDims
<1>2. UNCHANGED <<hwUp, bus, applied, selected, inForce, heard, owner, laundered, kills>>
  BY DEF UserDims, hwDaemon
<1> DEFINE knob == [engine.knob EXCEPT !["backlight"] = b]
           dimmed == [engine EXCEPT !.knob = knob]
<1>3. engine' = IF hwUp THEN dimmed ELSE Fresh(dimmed.knob)
  BY <1>1
<1>4. b \in Values /\ "backlight" \in Knobs
  BY NamesAreKnobs DEF Values
<1>5. /\ knob \in [Knobs -> Values] /\ knob["backlight"] = b
      /\ \A k \in Knobs \ {"backlight"} : knob[k] = engine.knob[k]
  BY <1>4, TypesOfInv, MachineFields
<1> HIDE DEF knob
<1>6. /\ dimmed \in Machines /\ dimmed.knob = knob /\ dimmed.base = engine.base
      /\ dimmed.touched = engine.touched /\ dimmed.parked = engine.parked
  BY <1>5, TypesOfInv DEF Machines
<1> HIDE DEF dimmed
<1>7. /\ user' \in [Knobs -> Values]
      /\ \A k \in Knobs \ {"backlight"} : user'[k] = user[k]
      /\ hwUp /\ "backlight" \in engine.touched => user'["backlight"] = user["backlight"]
      /\ hwUp /\ "backlight" \notin engine.touched => user'["backlight"] = b
  BY <1>1, <1>4, TypesOfInv
<1>8. engine' \in Machines /\ engine'.knob = knob
  BY <1>3, <1>5, <1>6, FreshIs
<1>9. {"ceiling", "boost", "hda", "ethernet"} \subseteq Knobs \ {"backlight"}
      /\ Desktop \subseteq Knobs \ {"backlight"} /\ BusKnobs \subseteq Knobs \ {"backlight"}
      /\ Tracked \subseteq Knobs
  BY NamesAreKnobs DEF Desktop, BusKnobs
<1>10. HwTypeOK'
  BY <1>2, <1>7, <1>8 DEF HwInv, HwTypeOK, Machines
<1>11. KnownUser' /\ InForce'
  BY <1>2, <1>7, <1>9 DEF HwInv, KnownUser, InForce
<1>12. CASE ~hwUp
  <2>1. LeftBehind'
    BY <1>5, <1>7, <1>8, <1>9, <1>12 DEF HwInv, LeftBehind
  <2> QED  BY <1>2, <1>10, <1>11, <1>12, <2>1 DEF HwInv
<1>13. CASE hwUp
  <2>1. engine' = dimmed
    BY <1>3, <1>13
  <2>2. Sound(engine, user, laundered) /\ BaseKept /\ BusBaseKept /\ CapsKept /\ ParkKept
        /\ InScope(engine, applied)
    BY <1>13 DEF HwInv
  <2>3. Sound(engine', user', laundered')
    BY <1>2, <1>4, <1>5, <1>6, <1>7, <1>9, <1>13, <2>1, <2>2 DEF Sound
  <2>4. BaseKept' /\ BusBaseKept'
    BY <1>2, <1>6, <1>7, <1>9, <2>1, <2>2 DEF BaseKept, BusBaseKept
  <2>5. CapsKept'
    BY <1>2, <1>6, <1>7, <1>9, <2>1, <2>2 DEF CapsKept
  <2>6. ParkKept'
    BY <1>2, <1>5, <1>6, <1>7, <1>9, <2>1, <2>2 DEF ParkKept, CodecSleeps
  <2>7. InScope(engine', applied')
    BY <1>2, <1>6, <2>1, <2>2 DEF InScope
  <2> QED  BY <1>2, <1>10, <1>11, <1>13, <2>3, <2>4, <2>5, <2>6, <2>7 DEF HwInv
<1> QED  BY <1>12, <1>13

(* A resume and the embedded controller: neither knob has its way back in    *)
(* what it holds.                                                            *)
LEMMA MeddledKeepsInv ==
  ASSUME HwInv, Meddled
  PROVE  HwInv'
<1> DEFINE knob == [engine.knob EXCEPT !["ceiling"] = "1.7", !["smu"] = user["smu"]]
           n == [engine EXCEPT !.knob = knob]
<1>1. /\ hwUp /\ engine' = n
      /\ UNCHANGED <<hwUp, bus, applied, selected, inForce, heard, owner, user, laundered, kills>>
  BY DEF Meddled, hwDaemon
<1>2. {"ceiling", "smu", "hda"} \subseteq Knobs /\ "1.7" \in Values /\ Tracked \subseteq Knobs
      /\ "ceiling" \notin Tracked
  BY NamesAreKnobs DEF Values
<1>3. /\ knob \in [Knobs -> Values] /\ knob["smu"] = user["smu"]
      /\ \A k \in Knobs \ {"ceiling", "smu"} : knob[k] = engine.knob[k]
  BY <1>2, TypesOfInv, MachineFields
<1> HIDE DEF knob
<1>4. /\ n \in Machines /\ n.knob = knob /\ n.base = engine.base
      /\ n.touched = engine.touched /\ n.parked = engine.parked
  BY <1>3, TypesOfInv DEF Machines
<1> HIDE DEF n
<1>5. Sound(engine, user, laundered) => Sound(n, user, laundered)
  BY <1>2, <1>3, <1>4 DEF Sound
<1>6. CodecSleeps(engine) => CodecSleeps(n)
  BY <1>2, <1>3, <1>4 DEF CodecSleeps
<1>7. SameBase(engine, n) /\ InScope(n, applied)
  BY <1>1, <1>4 DEF SameBase, HwInv, InScope
<1>8. /\ ~heard => n.parked = Unparked
      /\ selected \in Unrestricted => applied = selected
  BY <1>1, <1>4 DEF HwInv, ParkKept, InForce
<1> QED  BY <1>1, <1>4, <1>5, <1>6, <1>7, <1>8, TypesOfInv, StepKeepsInv

LEMMA HwInvHolds == HwSpec => []HwInv
<1>1. HwInit => HwInv
  BY InitInv
<1>2. HwInv /\ [HwNext]_hwVars => HwInv'
  <2> SUFFICES ASSUME HwInv, [HwNext]_hwVars PROVE HwInv'
    OBVIOUS
  <2>1. CASE LightCycle
    BY <2>1, LightCycleKeepsInv
  <2>2. CASE DeepCycle
    BY <2>2, DeepCycleKeepsInv
  <2>3. CASE StopHardware
    BY <2>3, StopKeepsInv
  <2>4. ASSUME NEW profile \in Profiles, SelectOnEngine(profile) PROVE HwInv'
    BY <2>4, SelectKeepsInv
  <2>5. ASSUME NEW profile \in Profiles, StartEngine(profile) PROVE HwInv'
    BY <2>5, StartKeepsInv
  <2>6. CASE Kill
    BY <2>6, KillKeepsInv
  <2>7. CASE RebootMachine
    BY <2>7, RebootKeepsInv
  <2>8. CASE UserDims
    BY <2>8, DimsKeepsInv
  <2>9. CASE Meddled
    BY <2>9, MeddledKeepsInv
  <2>10. CASE UNCHANGED hwVars
    <3>1. UNCHANGED <<hwUp, engine, bus, applied, selected, inForce, heard, owner, user, laundered, kills>>
      BY <2>10 DEF hwVars, hwDaemon
    <3> QED  BY <3>1 DEF HwInv, HwTypeOK, KnownUser, InForce, BaseKept, BusBaseKept, CapsKept, ParkKept,
                        LeftBehind
  <2> QED  BY <2>1, <2>2, <2>3, <2>4, <2>5, <2>6, <2>7, <2>8, <2>9, <2>10 DEF HwNext, HwDaemonStep, HwWorldStep
<1> QED  BY <1>1, <1>2, PTL DEF HwSpec

-----------------------------------------------------------------------------
(* The results.                                                              *)

(* Every knob holds one of the values its setters write, whatever machine    *)
(* the daemon starts on.                                                     *)
THEOREM HwTypeCorrect == HwSpec => []HwTypeOK
<1>1. HwInv => HwTypeOK
  BY DEF HwInv
<1> QED  BY <1>1, HwInvHolds, PTL

(* A clock cap or a disabled boost left by a killed daemon is in no baseline *)
(* (capture_hardware_baseline).                                              *)
THEOREM CapsStayOut == HwSpec => []CapsAreNotLaundered
<1>1. HwInv => CapsAreNotLaundered
  BY DEF HwInv, CapsKept, CapsAreNotLaundered
<1> QED  BY <1>1, HwInvHolds, PTL

(* The park of the codec does not outlive playback: the value to come back   *)
(* to is never the park, through any selection and any bus rollback          *)
(* (audit_and_heal_audio_stack).                                             *)
THEOREM ParksAreLifted == HwSpec => []ParkIsLifted
<1>1. HwInv => ParkIsLifted
  BY DEF HwInv, ParkKept, CodecSleeps, ParkIsLifted
<1> QED  BY <1>1, HwInvHolds, PTL

(* No restriction and no raise outlives the profile that imposed it          *)
(* (apply_power_profile), under any sequence of selections, sweeps, battery  *)
(* phases and meddling.                                                      *)
THEOREM ScopesHold == HwSpec => []NothingOutlivesItsProfile
<1>1. HwInv => NothingOutlivesItsProfile
  <2> SUFFICES ASSUME HwInv, hwUp PROVE NothingOutlivesItsProfile
    BY DEF NothingOutlivesItsProfile
  <2>1. Sound(engine, user, laundered) /\ InScope(engine, applied)
    BY DEF HwInv
  <2>2. Extras \subseteq Tracked
    BY DEF Extras, Tracked
  <2>3. ASSUME applied # "UltraEndurance"
        PROVE  \A k \in Extras \ ({"backlight"} \cup laundered) : engine.knob[k] = engine.base[k]
    BY <2>1, <2>2, <2>3 DEF Sound, InScope
  <2> QED  BY <2>1, <2>3 DEF NothingOutlivesItsProfile, InScope, Smu
<1> QED  BY <1>1, HwInvHolds, PTL

(* An orderly stop returns what it may: every captured knob, for every user, *)
(* after any number of lives.                                                *)
LEMMA StopReturns == HwSpec => StopRestores
<1>1. HwInv /\ [HwNext]_hwVars =>
        [StopHardware =>
           \A k \in Knobs \ Forgotten :
             \/ engine'.knob[k] = user[k]
             \/ k \in laundered
             \/ k = "platform" /\ owner # "none"
             \/ k \in {"ceiling", "boost"} /\ (user["ceiling"] # "max" \/ "ceiling" \in laundered)]_hwVars
  <2> SUFFICES ASSUME HwInv, StopHardware
               PROVE  \A k \in Knobs \ Forgotten :
                        \/ engine'.knob[k] = user[k]
                        \/ k \in laundered
                        \/ k = "platform" /\ owner # "none"
                        \/ k \in {"ceiling", "boost"} /\ (user["ceiling"] # "max" \/ "ceiling" \in laundered)
    OBVIOUS
  <2> DEFINE h == Restore(BusRollback(engine, bus), owner).knob
  <2>1. hwUp /\ engine' = Fresh(h)
    BY DEF StopHardware, Die
  <2>2. engine'.knob = h
    <3> HIDE DEF h
    <3> QED  BY <2>1 DEF Fresh
  <2> HIDE DEF h
  <2> QED  BY <2>1, <2>2, StopLeaves DEF h
<1> QED  BY <1>1, HwInvHolds, PTL DEF HwSpec, StopRestores

(* An orderly stop gives the machine back as the user had made it, the knobs *)
(* and the fan (~DaemonRunner, restore_hardware_baseline, restore_fan_level).*)
THEOREM StopIsClean == HwSpec /\ FanSpec => StopGivesBack
BY StopReturns, FanComesBack DEF StopGivesBack

(* Under an unrestricted profile a sweep opens the clock, and only what the  *)
(* machine does behind the daemon's back closes it (assert_unrestricted_     *)
(* cpu_ceiling, called again by every sweep).                                *)
THEOREM ClockIsKeptOpen == HwSpec => ClockStaysOpen
<1>1. ASSUME HwInv, [HwNext]_hwVars, hwUp, hwUp', {selected, selected'} \subseteq Unrestricted,
             DeepCycle \/ (ClockIsOpen /\ ~Meddled)
      PROVE  ClockIsOpen'
  <2>1. ClockIsOpen <=> Open(engine)
    BY DEF ClockIsOpen, Open
  <2>2. ClockIsOpen' <=> Open(engine')
    BY DEF ClockIsOpen, Open
  <2>3. {"ceiling", "boost"} \subseteq Knobs \ (BusKnobs \cup {"hda", "backlight"})
    BY NamesAreKnobs DEF BusKnobs
  <2>4. CASE DeepCycle
    <3>1. PICK profile \in Weaker(selected), onBattery \in BOOLEAN, playing \in BOOLEAN :
            /\ selected' = profile
            /\ \E reading \in SmuReadings(engine, profile) :
                 Cycle(Reassert(Audit(engine, playing), profile, owner, reading), profile, onBattery)
      BY <2>4 DEF DeepCycle
    <3>2. PICK reading \in SmuReadings(engine, profile) :
            Cycle(Reassert(Audit(engine, playing), profile, owner, reading), profile, onBattery)
      BY <3>1
    <3> DEFINE a == Audit(engine, playing)
               b == Reassert(a, profile, owner, reading)
               n == BusEvaluate(b, bus, profile, onBattery)[1]
    <3>3. engine' = n
      BY <3>2 DEF Cycle
    <3>4. a \in Machines
      BY <1>1, TypesOfInv, AuditStep
    <3> HIDE DEF a
    <3>5. profile \in Unrestricted /\ profile \in Profiles
      BY <1>1, <3>1 DEF Unrestricted, Profiles
    <3>6. b \in Machines /\ Open(b)
      BY <1>1, <3>4, <3>5, TypesOfInv, ReassertLeads DEF Leads
    <3> HIDE DEF b
    <3>7. \A k \in Knobs \ BusKnobs : n.knob[k] = b.knob[k]
      BY <1>1, <3>6, TypesOfInv, BusScope
    <3> HIDE DEF n
    <3> QED  BY <2>2, <2>3, <3>3, <3>6, <3>7 DEF Open
  <2>5. CASE LightCycle /\ ClockIsOpen
    <3>1. PICK onBattery \in BOOLEAN : Cycle(engine, inForce, onBattery)
      BY <2>5 DEF LightCycle
    <3> DEFINE n == BusEvaluate(engine, bus, inForce, onBattery)[1]
    <3>2. engine' = n
      BY <3>1 DEF Cycle
    <3>3. \A k \in Knobs \ BusKnobs : n.knob[k] = engine.knob[k]
      BY <1>1, TypesOfInv, BusScope
    <3> HIDE DEF n
    <3> QED  BY <2>1, <2>2, <2>3, <2>5, <3>2, <3>3 DEF Open
  <2>6. ASSUME NEW profile \in Profiles, SelectOnEngine(profile)
        PROVE  ClockIsOpen'
    <3>1. engine' = Apply(engine, profile, owner, heard) /\ selected' = profile
      BY <2>6 DEF SelectOnEngine
    <3>2. profile \in Unrestricted
      BY <1>1, <3>1
    <3> QED  BY <1>1, <2>2, <3>1, <3>2, TypesOfInv, ApplyLeads
  <2>7. CASE UserDims /\ ClockIsOpen
    <3>1. PICK b \in {"low", "high"} : engine' = [engine EXCEPT !.knob["backlight"] = b]
      BY <1>1, <2>7 DEF UserDims
    <3>2. engine \in Machines /\ engine.knob \in [Knobs -> Values]
      BY <1>1, TypesOfInv, MachineFields
    <3>3. engine'.knob = [engine.knob EXCEPT !["backlight"] = b]
      BY <3>1, <3>2 DEF Machines
    <3> QED  BY <2>1, <2>2, <2>3, <2>7, <3>2, <3>3 DEF Open
  <2>8. CASE UNCHANGED hwVars /\ ClockIsOpen
    BY <2>8 DEF hwVars, ClockIsOpen
  <2>9. ~StopHardware /\ ~Kill /\ ~RebootMachine /\ \A profile \in Profiles : ~StartEngine(profile)
    BY <1>1 DEF StopHardware, Kill, Die, RebootMachine, StartEngine
  <2> QED  BY <1>1, <2>4, <2>5, <2>6, <2>7, <2>8, <2>9 DEF HwNext, HwDaemonStep, HwWorldStep
<1> QED  BY <1>1, HwInvHolds, PTL DEF HwSpec, ClockStaysOpen

(* Under a selected Performance a sweep ends the savings of the bus          *)
(* controller for as long as it stays selected (HardwareBusController::      *)
(* evaluate_and_actuate, on the profile in force).                           *)
THEOREM SavingsAreEnded == HwSpec => SavingsStayOver
<1>1. ASSUME HwInv, [HwNext]_hwVars, hwUp, hwUp', {selected, selected'} = {"Performance"},
             DeepCycle \/ SavingsAreOver
      PROVE  SavingsAreOver'
  <2>1. engine \in Machines /\ bus \in Buses /\ heard \in BOOLEAN
        /\ owner \in {"none", "ppd", "other"}
    BY <1>1, TypesOfInv
  <2>2. CASE DeepCycle
    <3>1. PICK profile \in Weaker(selected), onBattery \in BOOLEAN, playing \in BOOLEAN :
            /\ selected' = profile /\ inForce' = profile
            /\ \E reading \in SmuReadings(engine, profile) :
                 Cycle(Reassert(Audit(engine, playing), profile, owner, reading), profile, onBattery)
      BY <2>2 DEF DeepCycle
    <3>2. PICK reading \in SmuReadings(engine, profile) :
            Cycle(Reassert(Audit(engine, playing), profile, owner, reading), profile, onBattery)
      BY <3>1
    <3> DEFINE a == Audit(engine, playing)
               b == Reassert(a, profile, owner, reading)
               c == BusEvaluate(b, bus, profile, onBattery)[2]
    <3>3. bus' = c
      BY <3>2 DEF Cycle
    <3>4. a \in Machines
      BY <2>1, AuditStep
    <3> HIDE DEF a
    <3>5. profile = "Performance" /\ profile \in Profiles
      BY <1>1, <3>1 DEF Profiles
    <3>6. b \in Machines
      BY <2>1, <3>4, <3>5, ReassertLeads DEF Leads
    <3> HIDE DEF b
    <3>7. ~c.applied
      BY <2>1, <3>5, <3>6, BusScope
    <3> HIDE DEF c
    <3> QED  BY <3>1, <3>3, <3>5, <3>7 DEF SavingsAreOver
  <2>3. CASE LightCycle /\ SavingsAreOver
    <3>1. inForce' = inForce /\ inForce = "Performance"
      BY <2>3 DEF LightCycle, SavingsAreOver
    <3>2. PICK onBattery \in BOOLEAN : Cycle(engine, inForce, onBattery)
      BY <2>3 DEF LightCycle
    <3> DEFINE c == BusEvaluate(engine, bus, inForce, onBattery)[2]
    <3>3. bus' = c
      BY <3>2 DEF Cycle
    <3>4. ~c.applied
      BY <2>1, <3>1, BusScope
    <3> HIDE DEF c
    <3> QED  BY <3>1, <3>3, <3>4 DEF SavingsAreOver
  <2>4. ASSUME NEW profile \in Profiles, SelectOnEngine(profile)
        PROVE  UNCHANGED <<bus, inForce>>
    BY <2>4 DEF SelectOnEngine
  <2>5. CASE SavingsAreOver /\ (UserDims \/ Meddled \/ UNCHANGED hwVars)
    BY <1>1, <2>5 DEF UserDims, Meddled, hwVars, hwDaemon, SavingsAreOver
  <2>6. ~StopHardware /\ ~Kill /\ ~RebootMachine /\ \A profile \in Profiles : ~StartEngine(profile)
    BY <1>1 DEF StopHardware, Kill, Die, RebootMachine, StartEngine
  <2>7. CASE SavingsAreOver /\ UNCHANGED <<bus, inForce>>
    BY <2>7 DEF SavingsAreOver
  <2> QED  BY <1>1, <2>2, <2>3, <2>4, <2>5, <2>6, <2>7 DEF HwNext, HwDaemonStep, HwWorldStep
<1> QED  BY <1>1, HwInvHolds, PTL DEF HwSpec, SavingsStayOver
=============================================================================
