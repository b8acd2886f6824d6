-------------------------- MODULE MCHousekeeping --------------------------
(* Six components that share no state, for TLC: a behaviour is one of the   *)
(* first, or one of the second, and so on, with the others at rest in one   *)
(* initial state.  A run of its own for each would ask the same questions.  *)
EXTENDS MitigationLedger, HistoryRing, BaseSwap, DiskPressure, PressureRelief, Clients

CONSTANTS pidA, pidB

VARIABLE part   \* the component the behaviour is of

mcVars == <<part, ledgerVars, ringVars, swapVars, diskVars, reliefVars, clientVars>>

Program(comm, ancestors, graphical, service, nice) ==
  [comm |-> comm, ancestors |-> ancestors, graphical |-> graphical, service |-> service,
   nice |-> nice]
Indexer == Program("baloo_file", <<"systemd">>, FALSE, FALSE, 0)
Compiler == Program("cc1plus", <<"bash", "konsole">>, FALSE, FALSE, 5)
Terminal == Program("konsole", <<"systemd">>, TRUE, FALSE, 0)

(* An indexer and a compiler whose process number the indexer may get; a     *)
(* compiler that plays sound beside a terminal, with a daemon that is killed. *)
MCHostings ==
  { [programs |-> [p \in {pidA, pidB} |-> IF p = pidA THEN <<Indexer>> ELSE <<Compiler, Indexer>>],
     players |-> {}, modes |-> {"Balanced", "UltraEndurance"}, kills |-> 0],
    [programs |-> [p \in {pidA, pidB} |-> IF p = pidA THEN <<Compiler>> ELSE <<Terminal>>],
     players |-> {pidA}, modes |-> {"Performance", "PowerSaver"}, kills |-> 1] }

(* Nearly idle, and above every threshold there is.                          *)
Load(watts, threads, wdi, wakeups, core, runaway) ==
  [watts |-> watts, threads |-> threads, wdi |-> wdi, wakeups |-> wakeups, core |-> core,
   runaway |-> runaway]
MCLoads == {Load(5, 1, 0, 0, -1, FALSE), Load(200, 8, 120, 120, 6, TRUE)}

(* An editor and an indexer it has started, in the control group of both.    *)
MCSafetyTier == [p \in Apps |-> IF p = "editor" THEN 3 ELSE 4]
MCControlGroup == [p \in Apps |-> "session"]

MCInit ==
  /\ part \in {"ledger", "ring", "swap", "disk", "relief", "clients"}
  /\ LedgerInit /\ RingInit /\ BaseInit /\ DiskInit /\ ReliefInit /\ ClientsInit
  /\ part # "ledger" => hosting.kills = 0 /\ \A p \in Pids : proc[p].load.watts = 5
  /\ part # "disk" => other = Release - 1 /\ files = [kind \in Kinds |-> 0]
  /\ part # "clients" => published = 3

MCNext ==
  \/ /\ part = "ledger" /\ LedgerNext
     /\ UNCHANGED <<part, ringVars, swapVars, diskVars, reliefVars, clientVars>>
  \/ /\ part = "ring" /\ RingNext
     /\ UNCHANGED <<part, ledgerVars, swapVars, diskVars, reliefVars, clientVars>>
  \/ /\ part = "swap" /\ BaseNext
     /\ UNCHANGED <<part, ledgerVars, ringVars, diskVars, reliefVars, clientVars>>
  \/ /\ part = "disk" /\ DiskNext
     /\ UNCHANGED <<part, ledgerVars, ringVars, swapVars, reliefVars, clientVars>>
  \/ /\ part = "relief" /\ ReliefNext
     /\ UNCHANGED <<part, ledgerVars, ringVars, swapVars, diskVars, clientVars>>
  \/ /\ part = "clients" /\ ClientsNext
     /\ UNCHANGED <<part, ledgerVars, ringVars, swapVars, diskVars, reliefVars>>

(* The fairness of each component, for the behaviours that are of it.        *)
MCFairness ==
  /\ WF_beat(part = "ledger" /\ Beat)
  /\ WF_ledgerVars(part = "ledger" /\ HoldExpires)
  /\ WF_diskVars(part = "disk" /\ EvaluateDisk)
  /\ WF_diskVars(part = "disk" /\ HalfMinute)
  /\ WF_reliefVars(part = "relief" /\ (EvaluateRelief \/ EvaluateInPerformance))
  /\ WF_clientVars(part = "clients" /\ ObserveAgain)
  /\ WF_clientVars(part = "clients" /\ Handle)
  /\ WF_clientVars(part = "clients" /\ DashLoop)

MCSpec == MCInit /\ [][MCNext]_mcVars /\ MCFairness

(* The type invariants of the six components.                                *)
HousekeepingTypeOK ==
  LedgerTypeOK /\ RingTypeOK /\ SwapTypeOK /\ DiskTypeOK /\ ReliefTypeOK /\ ClientsTypeOK
=============================================================================
