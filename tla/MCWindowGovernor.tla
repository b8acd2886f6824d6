------------------------- MODULE MCWindowGovernor -------------------------
(* WindowGovernor for TLC: an ordinary process, and a shielded one that     *)
(* came with nice 12; a table that holds one of the two; waits of           *)
(* 2, 1 and 0 clock units for 600, 60 and 0 seconds.               *)
EXTENDS WindowGovernor

CONSTANTS a, s

MCBase == [p \in Procs |->
  [nice |-> IF p = s THEN 12 ELSE 0, policy |-> "OTHER", mask |-> "all", slack |-> Default]]

MCProfiles == {"Performance", "Balanced", "PowerSaver"}

MCThreshold == [m \in MCProfiles |->
  CASE m = "Performance" -> 2 [] m = "Balanced" -> 1 [] OTHER -> 0]

MCTimes == 0..2
=============================================================================
