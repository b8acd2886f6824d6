---------------------- MODULE ProfileAuthority_proofs ----------------------
(***************************************************************************)
(* Proofs about ProfileAuthority for every set of battery readings and     *)
(* every sweep period.  The invariant adds to the checked properties what  *)
(* makes them inductive: the 20% latch is never spent alone, the history   *)
(* variable `spent` is a sound witness of both latches, the cached mode    *)
(* follows the override, and the light probes since the last sweep, or the *)
(* last lease that ran out, are bounded by the background count.           *)
(***************************************************************************)
EXTENDS ProfileAuthority, TLAPS

(* A threshold is never spent at 20% while 30% is still armed. *)
LatchOrder == latch.crossed20 => latch.crossed30

(* Having swept the low band without a recovery since spends both latches.  *)
SpentIsLatched == spent => latch.crossed20

(* The selection being protected is the one in force, and both thresholds   *)
(* are behind it.                                                           *)
StickyInv == sticky => override = chosen /\ spent

(* What the next light probe will republish is the mode in force. *)
CacheInv == up /\ ~fresh => cached = override /\ published = override

(* Light probes are counted by the background tick, also while a lease that *)
(* no cycle has swept in stands between them.                               *)
ProbesInv == probes <= tick

(* The mode being written to the file is the selected one. *)
SavingInv == pc = "write" \/ pc = "truncate" => chosen \in Modes

Inv ==
  /\ TypeOK
  /\ LatchOrder
  /\ SpentIsLatched
  /\ StickyInv
  /\ CacheInv
  /\ ProbesInv
  /\ SavingInv

-----------------------------------------------------------------------------
(* Lemmas about resolve_profile. *)

(* The rules keep the latch well formed and never spend 20% alone. *)
LEMMA SpendKeepsOrder ==
  ASSUME NEW l \in Latches, NEW r \in Readings, l.crossed20 => l.crossed30
  PROVE  /\ Spend(l, r) \in Latches
         /\ Spend(l, r).crossed20 => Spend(l, r).crossed30
BY ReadingsAssumption
   DEF Spend, Rearmed, Crosses20, Crosses30, Critical, Latches

(* Automatic decisions only save, and only on battery. *)
LEMMA ResolveSaves ==
  ASSUME NEW m \in Modes, NEW l \in Latches, NEW r \in Readings
  PROVE  /\ Resolve(m, r, l) \in Modes
         /\ Resolve(m, r, l) # m => r.onBatt /\ Resolve(m, r, l) > m
BY ReadingsAssumption
   DEF Resolve, Larger, Crosses20, Crosses30, Critical, Modes, Performance,
       Balanced, PowerSaver, UltraEndurance

(* With both thresholds spent and no recovery, only the 5% floor decides. *)
LEMMA SpentDecidesNothing ==
  ASSUME NEW m \in Modes, NEW l \in Latches, NEW r \in Readings,
         l.crossed20, l.crossed30, ~SeesRecovery(r), ~Critical(r)
  PROVE  Resolve(m, r, l) = m
BY ReadingsAssumption
   DEF Resolve, Crosses20, Crosses30, Critical, Rearmed, SeesRecovery, Latches

(* A sweep in the low band leaves 20% spent, and only a recovery rearms it. *)
LEMMA SpendWitness ==
  ASSUME NEW l \in Latches, NEW r \in Readings,
         SeesLow(r) \/ (l.crossed20 /\ ~SeesRecovery(r))
  PROVE  Spend(l, r).crossed20
BY ReadingsAssumption
   DEF Spend, Crosses20, Crosses30, Critical, Rearmed, SeesRecovery, SeesLow, Latches

-----------------------------------------------------------------------------
(* The two observations keep every part of the invariant but the count,     *)
(* which depends on the cycle they run in.                                  *)

Body == /\ LatchOrder /\ SpentIsLatched /\ StickyInv /\ CacheInv
        /\ override \in Modes /\ latch \in Latches /\ effective \in Modes
        /\ cached \in Modes /\ published \in Modes /\ hw \in Modes \cup {Off}
        /\ saved \in Modes \cup {Empty} /\ seen \in Readings
        /\ chosen \in Modes \cup {Off} /\ spent \in BOOLEAN /\ sticky \in BOOLEAN
        /\ probes \in Nat /\ fresh \in BOOLEAN

LEMMA DeepKeepsBody ==
  ASSUME Inv, DeepSweep, UNCHANGED <<up, battery>>
  PROVE  Body' /\ probes' = 0
<1> USE DEF Inv, TypeOK
<1>1. /\ latch' \in Latches
      /\ LatchOrder'
  <2>1. latch' = Spend(latch, battery)
    BY DEF DeepSweep
  <2>2. latch.crossed20 => latch.crossed30
    BY DEF LatchOrder
  <2> QED BY <2>1, <2>2, SpendKeepsOrder DEF LatchOrder
<1>2. override' = Resolve(override, battery, latch) /\ override' \in Modes
  BY ResolveSaves DEF DeepSweep
<1>3. SpentIsLatched'
  <2>1. spent' => SeesLow(battery) \/ (spent /\ ~SeesRecovery(battery))
    BY DEF DeepSweep
  <2>2. spent => latch.crossed20
    BY DEF SpentIsLatched
  <2>3. latch' = Spend(latch, battery)
    BY DEF DeepSweep
  <2> QED BY <2>1, <2>2, <2>3, SpendWitness DEF SpentIsLatched
<1>4. StickyInv'
  <2> SUFFICES ASSUME sticky'
               PROVE  override' = chosen' /\ spent'
    BY DEF StickyInv
  <2>1. sticky /\ ~SeesRecovery(battery) /\ ~Critical(battery)
    BY DEF DeepSweep
  <2>2. override = chosen /\ spent
    BY <2>1 DEF StickyInv
  <2>3. latch.crossed20 /\ latch.crossed30
    BY <2>2 DEF SpentIsLatched, LatchOrder
  <2>4. override' = override
    BY <1>2, <2>1, <2>3, SpentDecidesNothing
  <2>5. spent' /\ chosen' = chosen
    BY <2>1, <2>2 DEF DeepSweep
  <2> QED BY <2>2, <2>4, <2>5
<1>5. CacheInv'
  BY DEF DeepSweep, CacheInv
<1>6. spent' \in BOOLEAN /\ sticky' \in BOOLEAN /\ fresh' \in BOOLEAN
  BY DEF DeepSweep, SeesLow, SeesRecovery, Critical
<1>7. /\ effective' \in Modes /\ cached' \in Modes /\ published' \in Modes
      /\ hw' \in Modes \cup {Off} /\ saved' \in Modes \cup {Empty}
      /\ seen' \in Readings /\ chosen' \in Modes \cup {Off} /\ probes' = 0
  BY <1>2 DEF DeepSweep
<1> QED BY <1>1, <1>2, <1>3, <1>4, <1>5, <1>6, <1>7 DEF Body

LEMMA ProbeKeepsBody ==
  ASSUME Inv, LightProbe, UNCHANGED <<up, battery>>
  PROVE  Body' /\ probes' = IF lease THEN 1 ELSE probes + 1
BY DEF Inv, TypeOK, LightProbe, Body, LatchOrder, SpentIsLatched, StickyInv, CacheInv

(* The background count stays below the period, and grows by one unless it  *)
(* wraps.                                                                   *)
LEMMA TickBound ==
  ASSUME NEW t \in 0..(SweepPeriod - 1)
  PROVE  /\ TickAfter(t) \in 0..(SweepPeriod - 1)
         /\ TickAfter(t) # 0 => TickAfter(t) = t + 1
<1>1. CASE t + 1 = SweepPeriod
  <2>1. SweepPeriod % SweepPeriod = 0
    BY SweepAssumption
  <2> QED BY <1>1, <2>1, SweepAssumption DEF TickAfter
<1>2. CASE t + 1 < SweepPeriod
  <2>1. (t + 1) % SweepPeriod = t + 1
    BY <1>2, SweepAssumption
  <2> QED BY <1>2, <2>1, SweepAssumption DEF TickAfter
<1> QED BY <1>1, <1>2, SweepAssumption

-----------------------------------------------------------------------------
(* One lemma for each group of steps. *)

LEMMA ObserveStep ==
  ASSUME Inv, Observe
  PROVE  Inv'
<1>1. up' = up /\ battery' = battery /\ pc' = "idle"
  BY DEF Observe
<1>2. TypeOK
  BY DEF Inv
<1>3. NextTick \in 0..(SweepPeriod - 1)
  BY <1>2, TickBound, SweepAssumption DEF NextTick, TypeOK
<1>4. /\ Body' /\ lease' \in BOOLEAN /\ tick' \in 0..(SweepPeriod - 1)
      /\ probes' <= tick'
  <2>1. CASE InteractiveCycle
    <3>1. Body' /\ probes' = 0
      BY <1>1, <2>1, DeepKeepsBody DEF InteractiveCycle
    <3>2. tick' = tick /\ lease' = lease
      BY <2>1 DEF InteractiveCycle
    <3>3. lease' \in BOOLEAN /\ tick' \in 0..(SweepPeriod - 1) /\ 0 <= tick'
      BY <1>2, <3>2, SweepAssumption DEF TypeOK
    <3> QED BY <3>1, <3>3
  <2>2. CASE ScheduledCycle \/ SpikeCycle
    <3>1. Body' /\ probes' = 0
      BY <1>1, <2>2, DeepKeepsBody DEF ScheduledCycle, SpikeCycle
    <3>2. tick' = 0 /\ lease' = FALSE
      BY <2>2 DEF ScheduledCycle, SpikeCycle
    <3>3. lease' \in BOOLEAN
      BY <3>2
    <3>4. tick' \in 0..(SweepPeriod - 1) /\ 0 <= tick'
      BY <3>2, SweepAssumption
    <3> QED BY <3>1, <3>3, <3>4
  <2>3. CASE QuietCycle
    <3>1. Body' /\ probes' = IF lease THEN 1 ELSE probes + 1
      BY <1>1, <2>3, ProbeKeepsBody DEF QuietCycle
    <3>2. tick' = NextTick /\ NextTick # 0
      BY <2>3 DEF QuietCycle
    <3>3. ~lease' /\ lease' \in BOOLEAN
      BY <2>3 DEF QuietCycle
    <3>4. CASE lease
      <4>1. NextTick = 1
        BY <3>2, <3>4, TickBound, SweepAssumption DEF NextTick
      <4> QED BY <1>3, <3>1, <3>2, <3>3, <3>4, <4>1
    <3>5. CASE ~lease
      <4>1. probes <= tick /\ probes \in Nat /\ tick \in 0..(SweepPeriod - 1)
        BY <1>2 DEF Inv, ProbesInv, TypeOK
      <4>2. NextTick = tick + 1
        BY <3>2, <3>5, <4>1, TickBound DEF NextTick
      <4>3. probes' <= tick'
        BY <3>1, <3>2, <4>1, <4>2, SweepAssumption
      <4> QED BY <1>3, <3>1, <3>2, <3>3, <4>3
    <3> QED BY <3>4, <3>5
  <2> QED BY <2>1, <2>2, <2>3 DEF Observe
<1> QED BY <1>1, <1>2, <1>4 DEF Inv, TypeOK, Body, ProbesInv, SavingInv

LEMMA InteractStep ==
  ASSUME Inv, Interact
  PROVE  Inv'
<1>1. Body' /\ probes' = 0
  BY DeepKeepsBody DEF Interact
<1> QED BY <1>1, SweepAssumption DEF Inv, TypeOK, Interact, Body, ProbesInv, SavingInv

LEMMA AskStep ==
  ASSUME Inv, AskTelemetry
  PROVE  Inv'
BY DEF Inv, TypeOK, AskTelemetry, history, LatchOrder, SpentIsLatched, StickyInv, CacheInv,
       ProbesInv, SavingInv

LEMMA SelectStep ==
  ASSUME Inv, NEW mode \in Modes, SelectProfile(mode)
  PROVE  Inv'
BY DEF Inv, TypeOK, SelectProfile, LatchOrder, SpentIsLatched, StickyInv, CacheInv,
       ProbesInv, SavingInv

LEMMA PersistStep ==
  ASSUME Inv, Persist
  PROVE  Inv'
BY DEF Inv, TypeOK, Persist, TruncateSaved, WriteSaved, history, LatchOrder,
       SpentIsLatched, StickyInv, CacheInv, ProbesInv, SavingInv

LEMMA OpenLatchFact ==
  OpenLatch \in Latches /\ ~OpenLatch.crossed30 /\ ~OpenLatch.crossed20
BY DEF OpenLatch, Latches

LEMMA StartStep ==
  ASSUME Inv, Start
  PROVE  Inv'
<1>1. /\ up' = TRUE /\ pc' = "observe" /\ latch' = OpenLatch /\ lease' = FALSE
      /\ spent' = FALSE /\ sticky' = FALSE /\ fresh' = TRUE
      /\ UNCHANGED <<saved, battery>> /\ seen' = battery
  BY DEF Start
<1>2. tick' = 0 /\ probes' = 0 /\ chosen' = Off
  BY DEF Start
<1>3. Balanced \in Modes
  BY DEF Modes, Performance, Balanced, UltraEndurance
<1>4. /\ override' \in Modes /\ hw' \in Modes /\ published' \in Modes
      /\ cached' \in Modes /\ effective' \in Modes
  BY <1>3 DEF Start, Inv, TypeOK
<1>5. LatchOrder' /\ SpentIsLatched' /\ StickyInv' /\ CacheInv' /\ SavingInv'
  BY <1>1, OpenLatchFact DEF LatchOrder, SpentIsLatched, StickyInv, CacheInv, SavingInv
<1>6. ProbesInv' /\ tick' \in 0..(SweepPeriod - 1) /\ probes' \in Nat
  BY <1>2, SweepAssumption DEF ProbesInv
<1>7. TypeOK'
  BY <1>1, <1>2, <1>4, <1>6, OpenLatchFact DEF Inv, TypeOK
<1> QED BY <1>5, <1>6, <1>7 DEF Inv

LEMMA EndStep ==
  ASSUME Inv, Stop \/ Crash \/ BatteryChanges
  PROVE  Inv'
<1>1. CASE Stop
  BY <1>1 DEF Inv, TypeOK, Stop, history, LatchOrder, SpentIsLatched, StickyInv, CacheInv,
              ProbesInv, SavingInv
<1>2. CASE Crash
  BY <1>2 DEF Inv, TypeOK, Crash, history, LatchOrder, SpentIsLatched, StickyInv, CacheInv,
              ProbesInv, SavingInv
<1>3. CASE BatteryChanges
  BY <1>3 DEF Inv, TypeOK, BatteryChanges, history, LatchOrder, SpentIsLatched, StickyInv,
              CacheInv, ProbesInv, SavingInv
<1> QED BY <1>1, <1>2, <1>3

LEMMA NextInv ==
  ASSUME Inv, [Next]_vars
  PROVE  Inv'
<1>1. CASE Next
  BY <1>1, ObserveStep, AskStep, InteractStep, SelectStep, PersistStep, StartStep, EndStep DEF Next
<1>2. CASE UNCHANGED vars
  BY <1>2 DEF Inv, TypeOK, vars, LatchOrder, SpentIsLatched, StickyInv, CacheInv,
              ProbesInv, SavingInv
<1> QED BY <1>1, <1>2

LEMMA InitInv == Init => Inv
<1> SUFFICES ASSUME Init
             PROVE  Inv
  OBVIOUS
<1>1. Balanced \in Modes
  BY DEF Modes, Performance, Balanced, UltraEndurance
<1>2. TypeOK
  <2>1. tick \in 0..(SweepPeriod - 1) /\ probes \in Nat
    BY SweepAssumption DEF Init
  <2>2. latch \in Latches
    BY OpenLatchFact DEF Init
  <2> QED BY <1>1, <2>1, <2>2 DEF Init, TypeOK
<1>3. LatchOrder /\ SpentIsLatched /\ StickyInv /\ CacheInv /\ ProbesInv /\ SavingInv
  BY OpenLatchFact
     DEF Init, LatchOrder, SpentIsLatched, StickyInv, CacheInv, ProbesInv, SavingInv
<1> QED BY <1>2, <1>3 DEF Inv

-----------------------------------------------------------------------------
(* Theorems. *)

(* The strengthened invariant holds in every reachable state. *)
LEMMA InvHolds == Spec => []Inv
BY InitInv, NextInv, PTL DEF Spec

(* Every variable keeps its type: in particular the background count of     *)
(* process_observation_cycle never leaves its range.                        *)
THEOREM TypeCorrect == Spec => []TypeOK
<1>1. Inv => TypeOK
  BY DEF Inv
<1> QED BY <1>1, InvHolds, PTL

(* A mode selected after the 20% crossing is never demoted a second time    *)
(* above 5% in the same discharge, for any sequence of battery readings.    *)
THEOREM SelectionIsKept == Spec => []SelectionSticks
<1>1. Inv => SelectionSticks
  BY DEF Inv, StickyInv, SelectionSticks
<1> QED BY <1>1, InvHolds, PTL

(* Shared memory shows the mode in force after a life's first sweep or      *)
(* command.                                                                 *)
THEOREM PublicationIsCurrent == Spec => []PublishedIsInForce
<1>1. Inv => PublishedIsInForce
  BY DEF Inv, CacheInv, PublishedIsInForce
<1> QED BY <1>1, InvHolds, PTL

(* Fewer than SweepPeriod light probes pass between two deep sweeps, unless *)
(* a lease of FULL_TELEMETRY runs out before any cycle has swept in it.     *)
THEOREM SweepsHappen == Spec => []SweepsAreFrequent
<1>1. Inv => SweepsAreFrequent
  BY SweepAssumption DEF Inv, TypeOK, ProbesInv, SweepsAreFrequent
<1> QED BY <1>1, InvHolds, PTL

(* Automatic changes of the mode only save, and only on battery. *)
THEOREM AutomaticChangesSave == Spec => AutomaticOnlySaves
<1> DEFINE Saves == up /\ up' /\ ~Selecting /\ override' # override =>
                      battery.onBatt /\ override' > override
<1>1. ASSUME Inv, [Next]_vars
      PROVE  [Saves]_vars
  <2>1. ASSUME DeepSweep
        PROVE  Saves
    <3>1. override' = Resolve(override, battery, latch)
      BY <2>1 DEF DeepSweep
    <3> QED BY <1>1, <3>1, ResolveSaves DEF Inv, TypeOK
  <2>2. CASE Observe
    BY <2>1, <2>2 DEF Observe, InteractiveCycle, ScheduledCycle, SpikeCycle, QuietCycle, LightProbe
  <2>3. CASE Interact
    BY <2>1, <2>3 DEF Interact
  <2>4. ASSUME NEW mode \in Modes, SelectProfile(mode)
        PROVE  Saves
    BY <2>4 DEF SelectProfile, Selecting
  <2>5. CASE AskTelemetry \/ Persist \/ Start \/ Stop \/ Crash \/ BatteryChanges
    BY <2>5 DEF AskTelemetry, Persist, TruncateSaved, WriteSaved, Start, Stop, Crash, BatteryChanges
  <2> QED BY <1>1, <2>2, <2>3, <2>4, <2>5 DEF Next
<1> QED BY <1>1, InvHolds, PTL DEF Spec, AutomaticOnlySaves
(* Under a critical battery the floor, once a sweep has reached it, stands.  *)
(* Without ~fresh it would not: the first probe of a life republishes the    *)
(* default of the cached report.                                             *)
THEOREM FloorIsKept == Spec => FloorStands
<1> DEFINE Stands == up /\ up' /\ Critical(battery) /\ (AtFloor \/ DeepSweep) => AtFloor'
<1>1. ASSUME Inv, [Next]_vars
      PROVE  Stands
  <2> SUFFICES ASSUME up, up', Critical(battery), AtFloor \/ DeepSweep
               PROVE  AtFloor'
    OBVIOUS
  <2>1. ASSUME DeepSweep
        PROVE  AtFloor'
    BY <2>1 DEF DeepSweep, Resolve, AtFloor, Critical
  <2>2. CASE AtFloor /\ ~DeepSweep
    <3>1. cached = UltraEndurance
      BY <1>1, <2>2 DEF Inv, CacheInv, AtFloor
    <3>2. CASE Observe
      BY <2>2, <3>1, <3>2 DEF Observe, InteractiveCycle, ScheduledCycle, SpikeCycle, QuietCycle,
                              LightProbe, AtFloor, Critical
    <3>3. CASE Interact
      BY <2>2, <3>3 DEF Interact
    <3>4. ASSUME NEW mode \in Modes, SelectProfile(mode)
          PROVE  AtFloor'
      BY <2>2, <3>4 DEF SelectProfile, AtFloor, Critical
    <3>5. CASE AskTelemetry \/ Persist \/ Start \/ Stop \/ Crash \/ BatteryChanges \/ UNCHANGED vars
      BY <2>2, <3>5 DEF AskTelemetry, Persist, TruncateSaved, WriteSaved, Start, Stop, Crash,
                        BatteryChanges, history, vars, AtFloor, Critical
    <3> QED BY <1>1, <3>2, <3>3, <3>4, <3>5 DEF Next
  <2> QED BY <2>1, <2>2
<1> QED BY <1>1, InvHolds, PTL DEF Spec, FloorStands
=============================================================================
