------------------------ MODULE MCMemoryPressureGuard ------------------------
(* MemoryPressureGuard for TLC: a machine with 8 GiB of swap counted in     *)
(* units of 8 GiB, two files, and two processes of one control group.       *)
EXTENDS MemoryPressureGuard

CONSTANTS p, q, g

MCGroup == [x \in {p, q} |-> g]
=============================================================================
