------------------------ MODULE MCProfileAuthority ------------------------
(* ProfileAuthority for TLC: the charger, and one battery reading in each   *)
(* interval the rules tell apart, at its upper end; a deep sweep every      *)
(* third background tick instead of every sixth.                           *)
EXTENDS ProfileAuthority

MCReadings ==
  {[onBatt |-> FALSE, pct |-> 20]} \cup
  {[onBatt |-> TRUE, pct |-> n] : n \in {5, 20, 25, 30, 36}}
=============================================================================
