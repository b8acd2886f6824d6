----------------------------- MODULE FanControl -----------------------------
(***************************************************************************)
(* The fan: the factory curve, the custom curves, and the one file they    *)
(* are kept in.                                                            *)
(*                                                                         *)
(* Every sweep maps the temperature to a fan level and writes it when it   *)
(* differs from the level written last.  The embedded controller, or the   *)
(* user, may take the fan back at any time; the first write saves what was *)
(* set before, and a stop or a change of profile returns it.  A client may *)
(* replace the curves while the daemon runs: they are put in force, saved, *)
(* and read back by the next daemon.                                       *)
(***************************************************************************)
EXTENDS Integers, Sequences, SequencesExt

CONSTANTS
  Temps,          \* temperatures in degrees, 0 when there is no reading
  Packets,        \* payloads of SET_FAN_CURVES: sequences of [prof, points, custom]
  UserLevels,     \* what the user may have set the fan to
  MaxFanKills     \* bound on SIGKILLs

(* At the temperature of a control point a curve has the speed of the point. *)
(* In between it follows a spline, which is left out: Temps are taken at the *)
(* points of the curves.                                                     *)
ASSUME FanAssumption == MaxFanKills \in Nat /\ Temps \subseteq Nat

Profs == 0..3                   \* Performance, Balanced, PowerSaver, UltraEndurance
Ultra == 3
FullSpeed == 8                  \* FAN_LEVEL_FULL_SPEED: the keyword, not a number
Automatic == -2                 \* the embedded controller's own curve
NoLevel == -1

MinTemp == 30
MaxTemp == 70
UltraStopTemp == 45

VARIABLES
  fanUp,        \* the daemon process exists
  fanKnob,      \* /proc/acpi/ibm/fan
  fanBase,      \* fan_level_baseline
  fanModified,  \* fan_level_modified
  lastLevel,    \* g_last_fan_level
  curves,       \* the engine's curves: [points, custom]
  curveFile,    \* fan_curves.conf: <<>> when empty or absent
  sensed,       \* <<temperature, profile>> of the last sweep
  userLevel,    \* what the user set (a history)
  inherited,    \* the baseline is a level that a killed daemon left (a history)
  fanKills

fanVars == <<fanUp, fanKnob, fanBase, fanModified, lastLevel, curves, curveFile, sensed,
             userLevel, inherited, fanKills>>

Levels == 0..FullSpeed

-----------------------------------------------------------------------------
(* The factory curve.                                                        *)

FullTemp(prof) == IF prof = 1 THEN 70 ELSE 60

(* 20 percent up to 35 degrees, then a straight line to full speed.  The     *)
(* ramp stays in the numeric levels 1 to 6.                                  *)
FactoryLevel(temp, full) ==
  LET span == full - 35
      step == (19 * span + 56 * (temp - 35)) \div (10 * span)
  IN CASE temp <= 0 -> NoLevel
       [] temp >= full -> FullSpeed
       [] temp \in 1..35 -> 1
       [] OTHER -> IF step > 6 THEN 6 ELSE step

-----------------------------------------------------------------------------
(* Custom curves: sequences of <<temperature, percent>>.                     *)

Clamp(x, low, high) == IF x < low THEN low ELSE IF x > high THEN high ELSE x

LevelOfPercent(pct, mayStop) ==
  CASE pct <= 0 -> IF mayStop THEN 0 ELSE 1
    [] pct >= 90 -> FullSpeed
    [] pct > 0 /\ pct < 15 -> 1
    [] pct \in 15..29 -> 2
    [] pct \in 30..44 -> 3
    [] pct \in 45..59 -> 4
    [] pct \in 60..74 -> 5
    [] OTHER -> 6

(* set_profile_curve: strictly rising temperatures; then everything is       *)
(* clamped and the ends are forced to 30 and 70 degrees, the last at full.   *)
CurveIsValid(points) ==
  /\ Len(points) \in 2..10
  /\ \A i \in 2..Len(points) : points[i][1] > points[i - 1][1]

ForceEnds(points) ==
  LET clamped == [i \in 1..Len(points) |->
                    <<Clamp(points[i][1], MinTemp, MaxTemp), Clamp(points[i][2], 0, 100)>>]
      first == [clamped EXCEPT ![1] = <<MinTemp, @[2]>>]
  IN [first EXCEPT ![Len(points)] = <<MaxTemp, 100>>]

(* compute_spline_lookup at a control point, and get_fan_level_for_temp.     *)
PercentAt(points, temp) ==
  points[SelectLastInSeq(points, LAMBDA q : q[1] <= temp)][2]

CurveLevel(points, prof, temp) ==
  CASE temp <= 0 -> 0
    [] temp >= MaxTemp -> FullSpeed
    [] temp \in 1..MinTemp -> LevelOfPercent(PercentAt(points, MinTemp), prof = Ultra)
    [] OTHER -> LevelOfPercent(PercentAt(points, temp), prof = Ultra)

(* reset_to_defaults.                                                        *)
FactoryCurve(prof) ==
  [custom |-> FALSE,
   points |-> CASE prof = 0 -> <<<<30, 20>>, <<40, 40>>, <<50, 65>>, <<60, 85>>, <<70, 100>>>>
                [] prof = 1 -> <<<<30, 15>>, <<40, 25>>, <<50, 45>>, <<60, 70>>, <<70, 100>>>>
                [] prof = 2 -> <<<<30, 10>>, <<40, 20>>, <<50, 35>>, <<60, 55>>, <<70, 100>>>>
                [] prof = 3 -> <<<<30, 0>>, <<40, 0>>, <<50, 25>>, <<60, 50>>, <<70, 100>>>>]
FactoryCurves == [prof \in Profs |-> FactoryCurve(prof)]

(* deserialize_curves: valid sections take effect in order, a section that   *)
(* is invalid is passed over; nothing valid at all is a failure.             *)
SectionOk(section) == section.prof \in Profs /\ CurveIsValid(section.points)
Parses(packet) == \E i \in DOMAIN packet : SectionOk(packet[i])
Deserialize(into, packet) ==
  FoldLeft(LAMBDA cs, s :
             IF SectionOk(s)
             THEN [cs EXCEPT ![s.prof] = [points |-> ForceEnds(s.points), custom |-> s.custom]]
             ELSE cs,
           into, packet)

Serialize(cs) ==
  [i \in 1..4 |-> [prof |-> i - 1, points |-> cs[i - 1].points, custom |-> cs[i - 1].custom]]

-----------------------------------------------------------------------------
(* fan_level_for_temp_in_profile: a custom curve first, then the stop of     *)
(* UltraEndurance, then the factory curve.                                   *)
LevelFor(cs, temp, prof) ==
  CASE cs[prof].custom -> CurveLevel(cs[prof].points, prof, temp)
    [] ~cs[prof].custom /\ prof = Ultra /\ temp \in 1..UltraStopTemp -> 0
    [] OTHER -> FactoryLevel(temp, FullTemp(prof))

(* set_fan_level: what was there before the first write is saved.  f is      *)
(* [knob, base, modified, last].                                             *)
WriteFanRecaptures(f, level) ==
  [knob |-> level, base |-> f.knob, modified |-> TRUE, last |-> level]
WriteFan(f, level) ==
  [knob |-> level, base |-> IF f.modified THEN f.base ELSE f.knob, modified |-> TRUE, last |-> level]

(* apply_fan_for_temp: no write while the level is the one written last,     *)
(* except that full speed is read back and written again when it was lost.   *)
KeepsLevelUnread(f, level) == level = f.last
KeepsLevel(f, level) == level = f.last /\ (level = FullSpeed => f.knob = FullSpeed)

ApplyFan(f, cs, temp, prof) ==
  LET level == LevelFor(cs, temp, prof) IN
  IF level = NoLevel \/ KeepsLevel(f, level) THEN f ELSE WriteFan(f, level)

RestoreFan(f) ==
  IF f.modified THEN [f EXCEPT !.knob = f.base, !.modified = FALSE, !.last = NoLevel] ELSE f

Fan == [knob |-> fanKnob, base |-> fanBase, modified |-> fanModified, last |-> lastLevel]

SetFan(f) ==
  /\ fanKnob' = f.knob
  /\ fanBase' = f.base
  /\ fanModified' = f.modified
  /\ lastLevel' = f.last

FanTypeOK ==
  /\ {fanUp, fanModified, inherited} \subseteq BOOLEAN
  /\ {fanKnob, fanBase, userLevel} \subseteq Levels \cup {Automatic}
  /\ lastLevel \in Levels \cup {NoLevel}
  /\ \A prof \in Profs : CurveIsValid(curves[prof].points) /\ curves[prof].custom \in BOOLEAN
  /\ sensed \in (Temps \cup {0}) \X Profs
  /\ fanKills \in 0..MaxFanKills

-----------------------------------------------------------------------------
(* The daemon.                                                               *)

ObserveFan(temp, prof) ==
  /\ fanUp
  /\ SetFan(ApplyFan(Fan, curves, temp, prof))
  /\ sensed' = <<temp, prof>>
  /\ UNCHANGED <<fanUp, curves, curveFile, userLevel, inherited, fanKills>>

SaveToFile(cs) == curveFile' = Serialize(cs)

(* SET_FAN_CURVES: in force, on disk, and acted on for the last reading.     *)
SetCurves(packet) ==
  /\ fanUp
  /\ Parses(packet)
  /\ curves' = Deserialize(curves, packet)
  /\ SaveToFile(curves')
  /\ SetFan(ApplyFan(Fan, curves', sensed[1], sensed[2]))
  /\ UNCHANGED <<fanUp, sensed, userLevel, inherited, fanKills>>

(* A profile other than Performance releases the fan with the other raises   *)
(* of Performance; the next sweep takes it again.                            *)
ReleaseFan ==
  /\ fanUp
  /\ SetFan(RestoreFan(Fan))
  /\ UNCHANGED <<fanUp, curves, curveFile, sensed, userLevel, inherited, fanKills>>

StartFan ==
  /\ ~fanUp
  /\ fanUp' = TRUE
  /\ SetFan([knob |-> fanKnob, base |-> fanKnob, modified |-> FALSE, last |-> NoLevel])
  /\ inherited' = (fanKnob # userLevel)
  /\ curves' = Deserialize(FactoryCurves, curveFile)
  /\ sensed' = <<0, 1>>
  /\ UNCHANGED <<curveFile, userLevel, fanKills>>

StopFan ==
  /\ fanUp
  /\ fanUp' = FALSE
  /\ SetFan(RestoreFan(Fan))
  /\ UNCHANGED <<curves, curveFile, sensed, userLevel, inherited, fanKills>>

-----------------------------------------------------------------------------
(* The rest of the world.                                                    *)

TakeFanBack ==
  /\ fanKnob # Automatic
  /\ fanKnob' = Automatic
  /\ userLevel' = IF fanUp /\ fanModified THEN userLevel ELSE Automatic
  /\ UNCHANGED <<fanUp, fanBase, fanModified, lastLevel, curves, curveFile, sensed, inherited, fanKills>>

(* Killed anywhere; between the truncating open and the write of the file,   *)
(* the file stays empty.                                                     *)
KillFan ==
  /\ fanUp
  /\ fanKills < MaxFanKills
  /\ fanKills' = fanKills + 1
  /\ fanUp' = FALSE
  /\ curveFile' \in {curveFile, <<>>}
  /\ UNCHANGED <<fanKnob, fanBase, fanModified, lastLevel, curves, sensed, userLevel, inherited>>

FanInit ==
  /\ fanUp = FALSE
  /\ userLevel \in UserLevels
  /\ fanKnob = userLevel /\ fanBase = Automatic
  /\ fanModified = FALSE
  /\ lastLevel = NoLevel
  /\ curves = FactoryCurves
  /\ curveFile = <<>>
  /\ sensed = <<0, 1>>
  /\ inherited = FALSE
  /\ fanKills = 0

FanNext ==
  \/ \E temp \in Temps, prof \in Profs : ObserveFan(temp, prof)
  \/ \E packet \in Packets : SetCurves(packet)
  \/ ReleaseFan \/ StartFan \/ StopFan \/ TakeFanBack \/ KillFan

FanSpec == FanInit /\ [][FanNext]_fanVars

-----------------------------------------------------------------------------
(* Properties.                                                               *)

(* At 70 degrees and above the fan really runs at full speed after a sweep,  *)
(* in every profile, under every accepted curve, and also when the embedded  *)
(* controller took the fan back behind the cached level (REF-REQ-118, 125.4).*)
HotIsFullSpeed ==
  [][\A temp \in Temps, prof \in Profs :
       temp >= MaxTemp /\ ObserveFan(temp, prof) => fanKnob' = FullSpeed]_fanVars

(* Whatever was written, released and written again, the fan a stop returns  *)
(* is the one the user had, unless a killed daemon left its level behind.    *)
FanIsReturned ==
  [][StopFan => fanKnob' = userLevel \/ inherited]_fanVars

=============================================================================
