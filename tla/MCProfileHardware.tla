------------------------ MODULE MCProfileHardware -------------------------
(* What a profile is, what it does to the hardware, and the fan, for TLC:    *)
(* three components that share no state.  A behaviour is of one of them,     *)
(* with the other two at rest in one initial state.                         *)
EXTENDS MCProfileAuthority, Hardware

VARIABLE part   \* the component the behaviour is of

mcVars == <<part, vars, hwVars, fanVars>>

PlainSettings ==
  [k \in Knobs |->
     CASE k = "backlight" -> "high"
       [] k = "hda" -> "5"
       [] k = "boost" -> "1"
       [] k = "ceiling" -> "max"
       [] k \in Desktop -> "default"
       [] k = "ethernet" -> "on"
       [] k = "floor" -> "min"
       [] k \in {"devicePm", "soundPm"} -> "auto"
       [] OTHER -> "user"]

(* A machine as it is installed, and one without ryzenadj, whose user        *)
(* lowered the clock, raised its floor, keeps his devices awake and runs     *)
(* another power manager.                                                    *)
MCHosts ==
  { [settings |-> PlainSettings, manager |-> "none"],
    [settings |-> [PlainSettings EXCEPT !["ceiling"] = "user", !["boost"] = "0", !["smu"] = Locked,
                     !["floor"] = "user", !["devicePm"] = "on", !["soundPm"] = "on"],
     manager |-> "other"] }

Section(prof, points, custom) == [prof |-> prof, points |-> points, custom |-> custom]

(* Two sections, the second of which is out of order; a short curve and a    *)
(* withdrawn one; and a section for no profile there is.                     *)
MCPackets ==
  { <<Section(0, <<<<20, 0>>, <<40, 10>>, <<60, 95>>, <<70, 10>>>>, TRUE),
      Section(1, <<<<30, 20>>, <<60, 40>>, <<40, 30>>, <<70, 50>>>>, TRUE)>>,
    <<Section(3, <<<<30, 0>>, <<60, 0>>, <<80, 50>>>>, TRUE),
      Section(0, <<<<30, 50>>, <<70, 100>>>>, FALSE)>>,
    <<Section(7, <<<<30, 50>>, <<70, 100>>>>, TRUE)>> }

MCUserLevels == {Automatic, 3}

MCInit ==
  /\ part \in {"profile", "hardware", "fan"}
  /\ Init /\ HwInit /\ FanInit
  /\ part # "hardware" => user = PlainSettings
  /\ part # "fan" => userLevel = Automatic
  /\ part # "profile" => battery = [onBatt |-> FALSE, pct |-> 20] /\ saved = Empty

MCNext ==
  \/ part = "profile" /\ Next /\ UNCHANGED <<part, hwVars, fanVars>>
  \/ part = "hardware" /\ HwNext /\ UNCHANGED <<part, vars, fanVars>>
  \/ part = "fan" /\ FanNext /\ UNCHANGED <<part, vars, hwVars>>

(* The fairness of each component, for the behaviours that are of it.        *)
MCFairness ==
  /\ WF_vars(part = "profile" /\ Observe)
  /\ SF_vars(part = "profile" /\ ObserveInLease)
  /\ WF_vars(part = "profile" /\ Persist)
  /\ WF_hwVars(part = "hardware" /\ DeepCycle)

MCSpec == MCInit /\ [][MCNext]_mcVars /\ MCFairness
=============================================================================
