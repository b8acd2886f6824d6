------------------------------ MODULE Hardware ------------------------------
(***************************************************************************)
(* The machine in the hands of the daemon: its knobs, and its fan.  They   *)
(* share no state: the fan is written by the sweep on its own, captured at *)
(* its first write and not with the baseline.  An orderly stop, in         *)
(* ~DaemonRunner, returns both.                                            *)
(***************************************************************************)
EXTENDS HardwareBaseline, FanControl

(* An orderly stop (~DaemonRunner) returns the machine: the captured knobs   *)
(* and the fan are what the user had made of them.                           *)
StopGivesBack == StopRestores /\ FanIsReturned
=============================================================================
