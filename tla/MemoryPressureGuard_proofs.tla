--------------------- MODULE MemoryPressureGuard_proofs ---------------------
(***************************************************************************)
(* Proofs about MemoryPressureGuard, for any processes, groups, limits and  *)
(* swap files.  The brake and the files are two invariants that need        *)
(* nothing of each other.  The two ways to change the brake are summed up   *)
(* by lemmas about an arbitrary brake record, and the ladder is proved tier *)
(* by tier from them; the decisions of the expander by lemmas about an      *)
(* arbitrary expander record, since one evaluation chains several of them.  *)
(***************************************************************************)
EXTENDS MemoryPressureGuard, FiniteSetTheorems, SequenceTheorems,
        WellFoundedInduction, TLAPS

(* BrakesAreRemembered, of any brake record. *)
Remembered(b) ==
  /\ b.capped \subseteq GroupsOf(With(b, "quota")) \cup b.lost
  /\ b.idled \subseteq With(b, "idle") \cup b.lost

(* A daemon that is down has no process on record. *)
DownIsEmpty == ~up => Slowed(brake) = {}

Inv ==
  /\ GuardTypeOK
  /\ DownIsEmpty
  /\ BrakeOnlyUnderThrottle
  /\ BrakesAreRemembered

NoneSlowed == [p \in Procs |-> {}]

LEMMA KnobsInBrakes ==
  ASSUME NEW b \in Brakes, NEW knob \in Knobs
  PROVE  /\ With(b, knob) \subseteq Slowed(b)
         /\ With(b, knob) \subseteq Procs
         /\ GroupsOf(With(b, knob)) \subseteq Groups
BY DEF With, Slowed, GroupsOf, Groups

(* A record with no process on it slows nobody. *)
LEMMA NoneSlowedFacts ==
  ASSUME NEW b, b.slowed = NoneSlowed
  PROVE  Slowed(b) = {}
BY DEF Slowed, NoneSlowed

LEMMA ReleasedFacts ==
  ASSUME NEW b \in Brakes, Remembered(b)
  PROVE  /\ Released(b) \in Brakes
         /\ Remembered(Released(b))
         /\ Slowed(Released(b)) = {}
<1> DEFINE lifted == GroupsOf(With(b, "quota") \cap alive)
           r == Released(b)
<1>1. /\ r.slowed = NoneSlowed
      /\ r.capped = b.capped \ lifted
      /\ r.idled = b.idled \ With(b, "idle")
      /\ r.lost = (b.lost \cup GroupsOf(With(b, "quota"))) \ lifted
  BY DEF Released, NoneSlowed
<1>2. lifted \subseteq Groups /\ GroupsOf(With(b, "quota")) \subseteq Groups
  BY DEF GroupsOf, With, Groups
<1>3. /\ b.capped \subseteq Groups /\ b.idled \subseteq Procs
      /\ b.lost \subseteq Groups \cup Procs
  BY DEF Brakes
<1>4. r \in Brakes
  <2>1. NoneSlowed \in [Procs -> SUBSET Knobs]
    BY DEF NoneSlowed
  <2>2. /\ r.capped \in SUBSET Groups /\ r.idled \in SUBSET Procs
        /\ r.lost \in SUBSET (Groups \cup Procs)
    BY <1>1, <1>2, <1>3
  <2>3. r = [slowed |-> r.slowed, capped |-> r.capped, idled |-> r.idled, lost |-> r.lost]
    BY DEF Released
  <2> QED  BY <1>1, <2>1, <2>2, <2>3 DEF Brakes
<1>5. Remembered(r)
  <2>1. Groups \cap Procs = {}
    BY ProcsAssumption DEF Groups
  <2>2. r.capped \subseteq r.lost
    BY <1>1 DEF Remembered
  <2>3. r.idled \subseteq r.lost
    BY <1>1, <1>2, <1>3, <2>1 DEF Remembered
  <2> QED  BY <2>2, <2>3 DEF Remembered
<1>6. Slowed(r) = {}
  BY <1>1, NoneSlowedFacts
<1> QED  BY <1>4, <1>5, <1>6

LEMMA BrakedFacts ==
  ASSUME NEW b \in Brakes, Remembered(b), NEW hit \in [Procs -> SUBSET Knobs]
  PROVE  /\ Braked(b, hit) \in Brakes
         /\ Remembered(Braked(b, hit))
         /\ Slowed(Braked(b, hit)) = Slowed(b) \cup {p \in Procs : hit[p] # {}}
<1> DEFINE r == Braked(b, hit)
           hitWith(knob) == {p \in Procs : knob \in hit[p]}
<1>1. /\ r.slowed = [p \in Procs |-> b.slowed[p] \cup hit[p]]
      /\ r.capped = b.capped \cup GroupsOf(hitWith("quota"))
      /\ r.idled = b.idled \cup hitWith("idle")
      /\ r.lost = b.lost \ (GroupsOf(hitWith("quota")) \cup hitWith("idle"))
  BY DEF Braked
<1>2. /\ b.slowed \in [Procs -> SUBSET Knobs]
      /\ b.capped \subseteq Groups /\ b.idled \subseteq Procs
      /\ b.lost \subseteq Groups \cup Procs
  BY DEF Brakes
<1>3. GroupsOf(hitWith("quota")) \subseteq Groups /\ hitWith("idle") \subseteq Procs
  BY DEF GroupsOf, Groups
<1>4. r \in Brakes
  <2>1. r.slowed \in [Procs -> SUBSET Knobs]
    BY <1>1, <1>2
  <2>2. /\ r.capped \in SUBSET Groups /\ r.idled \in SUBSET Procs
        /\ r.lost \in SUBSET (Groups \cup Procs)
    BY <1>1, <1>2, <1>3
  <2>3. r = [slowed |-> r.slowed, capped |-> r.capped, idled |-> r.idled, lost |-> r.lost]
    BY DEF Braked
  <2> QED  BY <2>1, <2>2, <2>3 DEF Brakes
<1>5. \A knob : With(r, knob) = With(b, knob) \cup hitWith(knob)
  BY <1>1 DEF With
<1>6. GroupsOf(With(r, "quota")) = GroupsOf(With(b, "quota")) \cup GroupsOf(hitWith("quota"))
  BY <1>5 DEF GroupsOf
<1>7. Remembered(r)
  <2>1. Groups \cap Procs = {}
    BY ProcsAssumption DEF Groups
  <2>2. r.capped \subseteq GroupsOf(With(r, "quota")) \cup r.lost
    BY <1>1, <1>2, <1>3, <1>6, <2>1 DEF Remembered
  <2>3. r.idled \subseteq With(r, "idle") \cup r.lost
    BY <1>1, <1>2, <1>3, <1>5, <2>1 DEF Remembered
  <2> QED  BY <2>2, <2>3 DEF Remembered
<1>8. Slowed(r) = Slowed(b) \cup {p \in Procs : hit[p] # {}}
  BY <1>1 DEF Slowed
<1> QED  BY <1>4, <1>7, <1>8

(* The processes put on record by one actuation still fit. *)
LEMMA HitsFit ==
  ASSUME GuardTypeOK, BrakesAreRemembered, NEW hit \in Hits
  PROVE  Cardinality(Slowed(Braked(brake, hit))) <= MaxThrottled
<1> DEFINE S == Slowed(brake)
           T == {p \in Procs : hit[p] # {}}
<1>1. IsFiniteSet(S) /\ IsFiniteSet(T)
  <2>1. S \subseteq Procs /\ T \subseteq Procs
    BY DEF Slowed
  <2> QED  BY <2>1, ProcsAssumption, FS_Subset
<1>2. S \cap T = {}
  BY DEF Slowed, Hits
<1>3. Cardinality(S \cup T) = Cardinality(S) + Cardinality(T) - Cardinality(S \cap T)
  BY <1>1, FS_Union
<1>4. /\ Cardinality(S \cap T) = 0
      /\ Cardinality(S) \in Nat /\ Cardinality(T) \in Nat
  BY <1>1, <1>2, FS_EmptySet, FS_CardinalityType
<1>5. Cardinality(S) + Cardinality(T) <= MaxThrottled
  BY DEF Hits
<1>6. Slowed(Braked(brake, hit)) = S \cup T
  <2>1. hit \in [Procs -> SUBSET Knobs] /\ brake \in Brakes /\ Remembered(brake)
    BY DEF Hits, GuardTypeOK, BrakesAreRemembered, Remembered
  <2> QED  BY <2>1, BrakedFacts
<1> QED  BY <1>3, <1>4, <1>5, <1>6

LEMMA ClassifyFacts ==
  ASSUME NEW total, NEW free, tier \in Tiers
  PROVE  Classify(total, free) \in Tiers
<1>1. RawTier(total, free) \in Tiers
  BY DEF RawTier, Tiers, Normal, Advisory, Throttle
<1>2. RawTier(total, free) < tier => tier - 1 \in Tiers
  BY <1>1 DEF Tiers, Normal, Advisory, Throttle
<1> QED  BY <1>1, <1>2 DEF Classify, Tiers, Normal, Throttle

(* What one evaluation may have done to the brake.                           *)
LEMMA EvaluateFacts ==
  ASSUME Inv, Evaluate
  PROVE  /\ tier' \in Tiers
         /\ \/ brake' = brake /\ Slowed(brake) = {}
            \/ brake' = Released(brake)
            \/ /\ tier' = Throttle
               /\ BrakePermitted(swap'.pending # None, BudgetExhausted(swap'))
               /\ \E hit \in Hits : brake' = Braked(brake, hit)
<1>1. up /\ tier \in Tiers /\ (Slowed(brake) # {} => tier = Throttle)
  BY DEF Inv, Evaluate, GuardTypeOK, BrakeOnlyUnderThrottle
<1>2. PICK e \in Polled(swap), total \in SeenTotals, forked \in ForkOutcomes :
        LET free == Max({total - used, 0})
            next == Classify(total, free)
        IN  /\ tier' = next
            /\ \/ Relax(e, next, total, free, forked)
               \/ Advise(e, next, total, free, forked)
               \/ Resist(e, next, total, free, forked)
  BY DEF Evaluate
<1> DEFINE free == Max({total - used, 0})
           next == Classify(total, free)
<1>3. tier' = next /\ next \in Tiers
  BY <1>1, <1>2, ClassifyFacts
<1>4. CASE Relax(e, next, total, free, forked)
  BY <1>1, <1>3, <1>4 DEF Relax, Normal, Throttle
<1>5. CASE Advise(e, next, total, free, forked)
  BY <1>1, <1>3, <1>5 DEF Advise, Advisory, Throttle
<1>6. CASE Resist(e, next, total, free, forked)
  BY <1>3, <1>6 DEF Resist
<1> QED  BY <1>2, <1>3, <1>4, <1>5, <1>6

(* Inv after a step depends on the tier, the brake and what it leaves alone. *)
LEMMA InvFromBrake ==
  ASSUME up' \in BOOLEAN, tier' \in Tiers, profile' \in {"performance", "other"},
         ext' \in {"calm", "between", "high", "dire"}, alive' \subseteq Procs,
         brake' \in Brakes, Remembered(brake'),
         Cardinality(Slowed(brake')) <= MaxThrottled,
         Slowed(brake') # {} => up' /\ tier' = Throttle
  PROVE  Inv'
BY DEF Inv, GuardTypeOK, DownIsEmpty, BrakeOnlyUnderThrottle, BrakesAreRemembered, Remembered,
       GroupsOf, With, Slowed, Brakes, Tiers, Throttle, Groups

LEMMA EmptyFits ==
  ASSUME NEW b, Slowed(b) = {}
  PROVE  Cardinality(Slowed(b)) <= MaxThrottled
BY FS_EmptySet, ThrottledAssumption

LEMMA InitInv == Init => Inv
<1> SUFFICES ASSUME Init PROVE Inv
  OBVIOUS
<1>1. /\ brake.slowed = NoneSlowed /\ brake.capped = {} /\ brake.idled = {}
      /\ brake \in Brakes
  BY DEF Init, Brakes, NoneSlowed
<1>2. Slowed(brake) = {}
  BY <1>1, NoneSlowedFacts
<1>3. Cardinality(Slowed(brake)) <= MaxThrottled
  BY <1>2, EmptyFits
<1>4. up \in BOOLEAN /\ tier \in Tiers /\ alive \subseteq Procs
  <2>1. up = FALSE /\ tier = Normal /\ alive = Procs
    BY DEF Init
  <2>2. Normal \in Tiers
    BY DEF Tiers, Normal, Throttle
  <2> QED  BY <2>1, <2>2
<1>5. profile \in {"performance", "other"} /\ ext \in {"calm", "between", "high", "dire"}
  BY DEF Init
<1>6. GuardTypeOK
  BY <1>1, <1>3, <1>4, <1>5 DEF GuardTypeOK
<1> QED  BY <1>1, <1>2, <1>6 DEF Inv, DownIsEmpty, BrakeOnlyUnderThrottle, BrakesAreRemembered

LEMMA EvaluateStep ==
  ASSUME Inv, Evaluate
  PROVE  Inv'
<1>1. /\ brake \in Brakes /\ Remembered(brake)
      /\ GuardTypeOK /\ BrakesAreRemembered
  BY DEF Inv, GuardTypeOK, BrakesAreRemembered, Remembered
<1>2. /\ up /\ up' = up /\ profile' = profile /\ ext' = ext /\ alive' = alive
  BY DEF Evaluate
<1>3. tier' \in Tiers
  BY EvaluateFacts
<1>4. CASE brake' = brake /\ Slowed(brake) = {}
  BY <1>1, <1>2, <1>3, <1>4, EmptyFits, InvFromBrake DEF GuardTypeOK
<1>5. CASE brake' = Released(brake)
  <2>1. brake' \in Brakes /\ Remembered(brake') /\ Slowed(brake') = {}
    BY <1>1, <1>5, ReleasedFacts
  <2> QED  BY <1>1, <1>2, <1>3, <2>1, EmptyFits, InvFromBrake DEF GuardTypeOK
<1>6. CASE tier' = Throttle /\ \E hit \in Hits : brake' = Braked(brake, hit)
  <2>1. PICK hit \in Hits : brake' = Braked(brake, hit)
    BY <1>6
  <2>2. hit \in [Procs -> SUBSET Knobs]
    BY DEF Hits
  <2>3. brake' \in Brakes /\ Remembered(brake')
    BY <1>1, <2>1, <2>2, BrakedFacts
  <2>4. Cardinality(Slowed(brake')) <= MaxThrottled
    BY <1>1, <2>1, HitsFit
  <2> QED  BY <1>1, <1>2, <1>3, <1>6, <2>3, <2>4, InvFromBrake DEF GuardTypeOK
<1> QED  BY <1>4, <1>5, <1>6, EvaluateFacts

LEMMA StartStep ==
  ASSUME Inv, Start
  PROVE  Inv'
<1>1. Slowed(brake) = {}
  BY DEF Inv, DownIsEmpty, Start
<1> QED
  BY <1>1, InvFromBrake
     DEF Inv, Start, GuardTypeOK, BrakesAreRemembered, Remembered

(* Stop, Crash and Reboot: the record is empty afterwards. *)
LEMMA EndStep ==
  ASSUME Inv, Stop \/ Crash \/ Reboot
  PROVE  Inv'
<1>1. /\ brake \in Brakes /\ Remembered(brake)
      /\ profile' = profile /\ ext' = ext /\ alive' \subseteq Procs
      /\ up' \in BOOLEAN /\ tier' \in Tiers
  <2>1. brake \in Brakes /\ Remembered(brake) /\ alive \subseteq Procs
    BY DEF Inv, GuardTypeOK, BrakesAreRemembered, Remembered
  <2>2. /\ profile' = profile /\ ext' = ext /\ (alive' = alive \/ alive' = {})
        /\ up' = FALSE /\ tier' = Normal
    BY DEF Stop, Crash, Reboot
  <2>3. Normal \in Tiers
    BY DEF Tiers, Normal, Throttle
  <2> QED  BY <2>1, <2>2, <2>3
<1>2. brake' \in Brakes /\ Remembered(brake') /\ Slowed(brake') = {}
  <2>1. CASE Stop
    BY <1>1, <2>1, ReleasedFacts DEF Stop
  <2>2. CASE Crash
    <3>1. brake' = Forgotten(brake)
      BY <2>2 DEF Crash
    <3>2. brake' = [slowed |-> NoneSlowed, capped |-> brake.capped, idled |-> brake.idled,
                    lost |-> brake.lost \cup brake.capped \cup brake.idled]
      BY <1>1, <3>1 DEF Forgotten, Brakes, NoneSlowed
    <3>3. brake' \in Brakes /\ Remembered(brake')
      BY <1>1, <3>2 DEF Brakes, Remembered, NoneSlowed
    <3> QED  BY <3>2, <3>3, NoneSlowedFacts
  <2>3. CASE Reboot
    <3>1. brake' = [slowed |-> NoneSlowed, capped |-> {}, idled |-> {}, lost |-> {}]
      BY <2>3 DEF Reboot, NoneSlowed
    <3>2. brake' \in Brakes /\ Remembered(brake')
      BY <3>1 DEF Brakes, Remembered, NoneSlowed
    <3> QED  BY <3>1, <3>2, NoneSlowedFacts
  <2> QED  BY <2>1, <2>2, <2>3
<1>3. Cardinality(Slowed(brake')) <= MaxThrottled
  BY <1>2, EmptyFits
<1> QED  BY <1>1, <1>2, <1>3, InvFromBrake DEF Inv, GuardTypeOK

LEMMA ExitStep ==
  ASSUME Inv, NEW p \in Procs, Exit(p)
  PROVE  Inv'
<1>1. /\ brake \in Brakes /\ Remembered(brake)
      /\ brake' = [brake EXCEPT !.idled = @ \ {p}, !.lost = @ \ {p}]
      /\ Groups \cap Procs = {}
  BY ProcsAssumption DEF Inv, GuardTypeOK, BrakesAreRemembered, Remembered, Exit, Groups
<1>2. /\ brake'.slowed = brake.slowed /\ brake'.capped = brake.capped
      /\ brake'.idled = brake.idled \ {p} /\ brake'.lost = brake.lost \ {p}
      /\ brake' \in Brakes
  BY <1>1 DEF Brakes
<1>3. /\ Slowed(brake') = Slowed(brake)
      /\ \A knob : With(brake', knob) = With(brake, knob)
  BY <1>2 DEF Slowed, With
<1>4. Remembered(brake')
  <2>1. brake.capped \subseteq Groups
    BY <1>1 DEF Brakes
  <2> QED  BY <1>1, <1>2, <1>3, <2>1 DEF Remembered
<1> QED
  BY <1>2, <1>3, <1>4, InvFromBrake
     DEF Inv, Exit, GuardTypeOK, DownIsEmpty, BrakeOnlyUnderThrottle

(* The other actions leave the brake, the tier and up alone. *)
LEMMA QuietStep ==
  ASSUME Inv,
         \/ Child \/ Usage \/ Disk \/ PressureChanges \/ ProfileChanges \/ UNCHANGED vars
         \/ \E p \in Procs : Spawn(p)
  PROVE  Inv'
<1>1. /\ up' = up /\ tier' = tier /\ brake' = brake /\ alive' \subseteq Procs
      /\ profile' \in {"performance", "other"}
      /\ ext' \in {"calm", "between", "high", "dire"}
  BY DEF Inv, GuardTypeOK, Child, Usage, Disk, PressureChanges, ProfileChanges, Spawn, vars,
         guardVars
<1> QED
  BY <1>1, InvFromBrake
     DEF Inv, GuardTypeOK, DownIsEmpty, BrakeOnlyUnderThrottle, BrakesAreRemembered, Remembered

LEMMA NextInv == Inv /\ [Next]_vars => Inv'
<1> SUFFICES ASSUME Inv, [Next]_vars PROVE Inv'
  OBVIOUS
<1>1. CASE Evaluate
  BY <1>1, EvaluateStep
<1>2. CASE Start
  BY <1>2, StartStep
<1>3. CASE Stop \/ Crash \/ Reboot
  BY <1>3, EndStep
<1>4. CASE \E p \in Procs : Exit(p)
  BY <1>4, ExitStep
<1>5. CASE \/ Child \/ Usage \/ Disk \/ PressureChanges \/ ProfileChanges \/ UNCHANGED vars
           \/ \E p \in Procs : Spawn(p)
  BY <1>5, QuietStep
<1> QED  BY <1>1, <1>2, <1>3, <1>4, <1>5 DEF Next

LEMMA InvHolds == Spec => []Inv
BY InitInv, NextInv, PTL DEF Spec

(* The guard's own state keeps its types, and no sequence of actuations     *)
(* puts more than MAX_THROTTLED processes on record.                        *)
THEOREM GuardTypeCorrect == Spec => []GuardTypeOK
<1>1. Inv => GuardTypeOK
  BY DEF Inv
<1> QED  BY <1>1, InvHolds, PTL

(* No process is held back outside the Throttle tier (REQ-112), across      *)
(* profile changes, stops, kills and reboots.                               *)
THEOREM BrakeIsScoped == Spec => []BrakeOnlyUnderThrottle
<1>1. Inv => BrakeOnlyUnderThrottle
  BY DEF Inv
<1> QED  BY <1>1, InvHolds, PTL

(* Nothing the guard left on the kernel is unaccounted for but what an exit  *)
(* or a kill made it lose.                                                   *)
THEOREM BrakesAreKnown == Spec => []BrakesAreRemembered
<1>1. Inv => BrakesAreRemembered
  BY DEF Inv
<1> QED  BY <1>1, InvHolds, PTL

(* In Performance a step slows another process only when no capacity is      *)
(* being added and none can be (REQ-113.8).                                  *)
LEMMA BrakesLastStep ==
  ASSUME Inv, [Next]_vars, up, profile = "performance",
         ~(Slowed(brake)' \subseteq Slowed(brake))
  PROVE  swap'.pending = None /\ BudgetExhausted(swap')
<1>1. brake \in Brakes /\ Remembered(brake)
  BY DEF Inv, GuardTypeOK, BrakesAreRemembered, Remembered
<1>2. Slowed(brake)' = Slowed(brake')
  BY DEF Slowed
<1>3. CASE Evaluate
  <2>1. brake' # brake
    BY <1>2
  <2>2. brake' # Released(brake)
    BY <1>1, <1>2, ReleasedFacts
  <2>3. BrakePermitted(swap'.pending # None, BudgetExhausted(swap'))
    BY <1>3, <2>1, <2>2, EvaluateFacts
  <2> QED  BY <2>3 DEF BrakePermitted
<1>4. CASE Start \/ Child \/ Usage \/ Disk \/ PressureChanges \/ ProfileChanges
           \/ UNCHANGED vars \/ \E p \in Procs : Spawn(p)
  <2>1. brake' = brake
    BY <1>4 DEF Start, Child, Usage, Disk, PressureChanges, ProfileChanges, Spawn, vars, guardVars
  <2> QED  BY <1>2, <2>1
<1>5. CASE \E p \in Procs : Exit(p)
  <2>1. brake'.slowed = brake.slowed
    BY <1>1, <1>5 DEF Exit, Brakes
  <2> QED  BY <1>2, <2>1 DEF Slowed
<1>6. CASE Stop \/ Crash \/ Reboot
  <2>1. CASE Stop
    BY <1>1, <1>2, <2>1, ReleasedFacts DEF Stop
  <2>2. CASE Crash \/ Reboot
    <3>1. /\ Forgotten(brake).slowed = NoneSlowed
          /\ [slowed |-> NoneSlowed, capped |-> {}, idled |-> {}, lost |-> {}].slowed = NoneSlowed
      BY <1>1 DEF Forgotten, Brakes, NoneSlowed
    <3>2. brake'.slowed = NoneSlowed
      BY <2>2, <3>1 DEF Crash, Reboot, NoneSlowed
    <3> QED  BY <1>2, <3>2, NoneSlowedFacts
  <2> QED  BY <1>6, <2>1, <2>2
<1> QED  BY <1>3, <1>4, <1>5, <1>6 DEF Next

(* The step property of the run memory_guard, for every instance. *)
THEOREM CapacityComesFirst == Spec => PerformanceBrakesLast
<1>1. Inv /\ [Next]_vars =>
        [up /\ profile = "performance" /\ ~(Slowed(brake)' \subseteq Slowed(brake)) =>
           swap'.pending = None /\ BudgetExhausted(swap')]_vars
  BY BrakesLastStep
<1> QED  BY <1>1, InvHolds, PTL DEF Spec, PerformanceBrakesLast

-----------------------------------------------------------------------------
(* The swap files.  RecordMatchesDisk is not inductive: that a file is       *)
(* tracked once has to be known of a sequence and not of a count, and a      *)
(* pending index must be the index of a file a child works on, or a finished *)
(* one could be swapped on twice.  With these it bounds the record by the    *)
(* files that may exist, which is what its type needs.                       *)

Distinct(s) == \A i, j \in DOMAIN s : s[i] = s[j] => i = j

Sound(e) ==
  /\ ToSet(e.tracked) = FilesIn(e, {"on"})
  /\ Distinct(e.tracked)
  /\ FilesIn(e, Pending) \subseteq {e.pending}
  /\ e.pending # None => e.files[e.pending] \in Pending
  /\ FilesIn(e, {"stray"}) = {}

SwapInv == SwapTypeOK /\ (up => Sound(swap))

LEMMA BoundedSeqIs ==
  ASSUME NEW S, NEW n \in Nat, NEW s
  PROVE  s \in BoundedSeq(S, n) <=> s \in Seq(S) /\ Len(s) <= n
<1>1. BoundedSeq(S, n) = UNION {[1..m -> S] : m \in 0..n}
  BY DEF BoundedSeq, SeqOf
<1>2. ASSUME s \in BoundedSeq(S, n) PROVE s \in Seq(S) /\ Len(s) <= n
  <2>1. PICK m \in 0..n : s \in [1..m -> S]
    BY <1>1, <1>2
  <2> QED  BY <2>1
<1>3. ASSUME s \in Seq(S), Len(s) <= n PROVE s \in BoundedSeq(S, n)
  <2>1. Len(s) \in 0..n /\ s \in [1..Len(s) -> S]
    BY <1>3
  <2> QED  BY <1>1, <2>1
<1> QED  BY <1>2, <1>3

(* A sequence that names no index twice is as long as its set, and names at  *)
(* most all of them.                                                         *)
LEMMA DistinctFits ==
  ASSUME NEW s \in Seq(Index), Distinct(s)
  PROVE  Cardinality(ToSet(s)) = Len(s) /\ Len(s) <= MaxFiles
<1> DEFINE D == 1..Len(s)
<1>1. DOMAIN s = D /\ Len(s) \in Nat /\ ToSet(s) \subseteq Index /\ s \in [D -> ToSet(s)]
  BY DEF ToSet
<1>2. s \in Bijection(D, ToSet(s))
  BY <1>1 DEF Distinct, ToSet, Bijection, Injection, Surjection, IsInjective
<1>3. IsFiniteSet(D) /\ Cardinality(D) = Len(s)
  <2>1. IsFiniteSet(D) /\ Cardinality(D) = IF 1 > Len(s) THEN 0 ELSE Len(s) - 1 + 1
    BY <1>1, FS_Interval
  <2> QED  BY <1>1, <2>1
<1>4. Cardinality(ToSet(s)) = Len(s)
  BY <1>2, <1>3, FS_Bijection DEF ExistsBijection
<1>5. IsFiniteSet(Index) /\ Cardinality(Index) = MaxFiles
  <2>1. IsFiniteSet(Index) /\ Cardinality(Index) = IF 1 > MaxFiles THEN 0 ELSE MaxFiles - 1 + 1
    BY MaxFilesAssumption, FS_Interval DEF Index
  <2> QED  BY <2>1, MaxFilesAssumption
<1>6. Cardinality(ToSet(s)) <= MaxFiles
  BY <1>1, <1>5, FS_Subset
<1> QED  BY <1>4, <1>6

LEMMA ExpanderIs ==
  ASSUME NEW e
  PROVE  e \in Expander <=>
           /\ e = [files |-> e.files, tracked |-> e.tracked, pending |-> e.pending]
           /\ e.files \in [Index -> FileStates]
           /\ e.tracked \in Seq(Index) /\ Len(e.tracked) <= MaxFiles
           /\ e.pending \in Index \cup {None}
BY BoundedSeqIs, MaxFilesAssumption DEF Expander

(* Swap does not shrink where no active file ends.                           *)
LEMMA TotalGrows ==
  ASSUME NEW e, NEW r, FilesIn(e, Active) \subseteq FilesIn(r, Active)
  PROVE  Total(e) \in Nat /\ Total(r) \in Nat /\ Total(e) <= Total(r)
<1>1. IsFiniteSet(Index)
  BY MaxFilesAssumption, FS_Interval DEF Index
<1>2. IsFiniteSet(FilesIn(r, Active)) /\ IsFiniteSet(FilesIn(e, Active))
  BY <1>1, FS_Subset DEF FilesIn
<1> DEFINE a == Cardinality(FilesIn(e, Active))
           b == Cardinality(FilesIn(r, Active))
<1>3. a \in Nat /\ b \in Nat /\ a <= b
  BY <1>2, FS_CardinalityType, FS_Subset
<1> HIDE DEF a, b
<1>4. \A m, n, k \in Nat : m <= n => k * m \in Nat /\ k * n \in Nat /\ k * m <= k * n
  OBVIOUS
<1>5. Base \in Nat /\ Increment \in Nat
  BY SizesAssumption
<1>6. Increment * a \in Nat /\ Increment * b \in Nat /\ Increment * a <= Increment * b
  BY <1>3, <1>4, <1>5
<1>7. Total(e) = Base + Increment * a /\ Total(r) = Base + Increment * b
  BY DEF Total, a, b
<1> QED  BY <1>5, <1>6, <1>7

LEMMA MinIs ==
  ASSUME NEW S \in SUBSET Nat, S # {}
  PROVE  Min(S) \in S
<1> DEFINE R == OpToRel(<, Nat)
<1>1. IsWellFoundedOn(R, Nat)
  BY NatLessThanWellFounded, Zenon
<1>2. \A x, y \in Nat : y < x => <<y, x>> \in R
  BY DEF OpToRel
<1> HIDE DEF R
<1>3. PICK x \in S : \A y \in S : ~ (<<y, x>> \in R)
  BY <1>1, WFMin
<1>4. ASSUME NEW y \in S PROVE x =< y
  <2>1. x \in Nat /\ y \in Nat /\ ~(y < x)
    BY <1>2, <1>3
  <2> QED  BY <2>1
<1> QED  BY <1>3, <1>4 DEF Min

(* A sequence and the same with one more element at its end.                 *)
LEMMA OneMore ==
  ASSUME NEW s, NEW t, NEW n \in Nat, DOMAIN s = 1..n, DOMAIN t = 1..(n + 1),
         \A k \in 1..n : t[k] = s[k]
  PROVE  /\ ToSet(t) = ToSet(s) \cup {t[n + 1]}
         /\ Distinct(s) /\ t[n + 1] \notin ToSet(s) => Distinct(t)
         /\ Distinct(t) => Distinct(s)
<1>1. /\ 1..(n + 1) = (1..n) \cup {n + 1}
      /\ n + 1 \notin 1..n
  OBVIOUS
<1> DEFINE last == n + 1
<1>2. /\ DOMAIN t = (1..n) \cup {last} /\ last \notin 1..n
      /\ \A k \in 1..n : t[k] = s[k]
  BY <1>1
<1>3. /\ ToSet(t) = {t[k] : k \in (1..n) \cup {last}}
      /\ ToSet(s) = {s[k] : k \in 1..n}
  BY <1>2 DEF ToSet
<1> HIDE DEF last
<1>4. ToSet(t) = ToSet(s) \cup {t[last]}
  BY <1>2, <1>3
<1>5. ASSUME Distinct(s), t[last] \notin ToSet(s) PROVE Distinct(t)
  <2>1. \A k \in 1..n : s[k] # t[last]
    BY <1>3, <1>5
  <2>2. \A j, k \in 1..n : s[j] = s[k] => j = k
    BY <1>5 DEF Distinct
  <2>3. ASSUME NEW j \in DOMAIN t, NEW k \in DOMAIN t, t[j] = t[k] PROVE j = k
    <3>1. (j \in 1..n \/ j = last) /\ (k \in 1..n \/ k = last)
      BY <1>2
    <3>2. CASE j = last \/ k = last
      BY <1>2, <2>1, <2>3, <3>1, <3>2
    <3>3. CASE j \in 1..n /\ k \in 1..n
      BY <1>2, <2>2, <2>3, <3>3
    <3> QED  BY <3>1, <3>2, <3>3
  <2> QED  BY <2>3 DEF Distinct
<1>6. ASSUME Distinct(t) PROVE Distinct(s)
  BY <1>2, <1>6 DEF Distinct
<1> QED  BY <1>4, <1>5, <1>6 DEF last

(* What a decision of a running daemon does to a sound record: it stays      *)
(* sound, and no active file ends.                                           *)
Moves(e, r) ==
  /\ r \in Expander /\ Sound(r)
  /\ FilesIn(e, Active) \subseteq FilesIn(r, Active)

LEMMA GrownMoves ==
  ASSUME NEW e \in Expander, Sound(e), NEW total, NEW free, NEW forked
  PROVE  Moves(e, Grown(e, total, free, forked))
<1> DEFINE open == FilesIn(e, {"absent"})
           i == Min(open)
<1>1. ASSUME NEW r, r = [e EXCEPT !.files[i] = "building", !.pending = i], e.pending = None, open # {}
      PROVE  Moves(e, r)
  <2>1. i \in Index /\ e.files[i] = "absent"
    <3>1. open \in SUBSET Nat
      BY MaxFilesAssumption DEF FilesIn, Index
    <3>2. i \in open
      BY <1>1, <3>1, MinIs
    <3> QED  BY <3>2 DEF FilesIn
  <2> HIDE DEF i
  <2>2. /\ e.files \in [Index -> FileStates] /\ e.tracked \in Seq(Index) /\ Len(e.tracked) <= MaxFiles
        /\ e = [files |-> e.files, tracked |-> e.tracked, pending |-> e.pending]
    BY ExpanderIs
  <2>3. r = [files |-> [e.files EXCEPT ![i] = "building"], tracked |-> e.tracked, pending |-> i]
    BY <1>1, <2>2
  <2>4. /\ r.files \in [Index -> FileStates] /\ r.files[i] = "building" /\ r.pending = i
        /\ \A j \in Index \ {i} : r.files[j] = e.files[j]
        /\ r.tracked = e.tracked
    BY <2>1, <2>2, <2>3 DEF FileStates
  <2>5. r \in Expander
    BY <2>1, <2>2, <2>3, <2>4, ExpanderIs
  <2>6. FilesIn(r, {"on"}) = FilesIn(e, {"on"}) /\ FilesIn(r, {"stray"}) = FilesIn(e, {"stray"})
    BY <2>1, <2>4 DEF FilesIn
  <2>7. FilesIn(r, Pending) \subseteq {i}
    BY <1>1, <2>4 DEF FilesIn, Sound, None, Index
  <2>8. FilesIn(e, Active) \subseteq FilesIn(r, Active)
    BY <2>1, <2>4 DEF FilesIn, Active
  <2>9. Sound(r)
    BY <2>4, <2>6, <2>7 DEF Sound, Pending
  <2> QED  BY <2>5, <2>8, <2>9 DEF Moves
<1>2. CASE Grown(e, total, free, forked) = e
  BY <1>2 DEF Moves
<1> QED  BY <1>1, <1>2 DEF Grown

LEMMA PolledMoves ==
  ASSUME NEW e \in Expander, Sound(e), NEW r \in Polled(e)
  PROVE  Moves(e, r)
<1> DEFINE i == e.pending
           gone == [e EXCEPT !.files[i] = "absent", !.pending = None]
           active == [e EXCEPT !.files[i] = "on", !.pending = None, !.tracked = Append(@, i)]
<1>1. /\ e.files \in [Index -> FileStates] /\ e.tracked \in Seq(Index) /\ Len(e.tracked) <= MaxFiles
      /\ e = [files |-> e.files, tracked |-> e.tracked, pending |-> e.pending]
      /\ e.pending \in Index \cup {None}
  BY ExpanderIs
<1>2. CASE r = e
  BY <1>2 DEF Moves
<1>3. CASE i # None /\ r = gone
  <2>1. i \in Index /\ e.files[i] \in Pending
    BY <1>1, <1>3 DEF Sound
  <2>2. r = [files |-> [e.files EXCEPT ![i] = "absent"], tracked |-> e.tracked, pending |-> None]
    BY <1>1, <1>3
  <2>3. /\ r.files \in [Index -> FileStates] /\ r.files[i] = "absent" /\ r.pending = None
        /\ \A j \in Index \ {i} : r.files[j] = e.files[j]
        /\ r.tracked = e.tracked
    BY <1>1, <2>1, <2>2 DEF FileStates
  <2>4. r \in Expander
    BY <1>1, <2>2, <2>3, ExpanderIs
  <2>5. FilesIn(r, {"on"}) = FilesIn(e, {"on"}) /\ FilesIn(r, {"stray"}) = FilesIn(e, {"stray"})
    BY <2>1, <2>3 DEF FilesIn, Pending
  <2>6. FilesIn(r, Pending) = {}
    BY <2>3 DEF FilesIn, Sound, Pending
  <2>7. FilesIn(e, Active) \subseteq FilesIn(r, Active)
    BY <2>1, <2>3 DEF FilesIn, Active, Pending
  <2>8. Sound(r)
    BY <2>3, <2>5, <2>6 DEF Sound
  <2> QED  BY <2>4, <2>7, <2>8 DEF Moves
<1>4. CASE i # None /\ r = active
  <2>1. i \in Index /\ e.files[i] \in Pending
    BY <1>1, <1>4 DEF Sound
  <2>2. r = [files |-> [e.files EXCEPT ![i] = "on"], tracked |-> Append(e.tracked, i), pending |-> None]
    BY <1>1, <1>4
  <2>3. /\ r.files \in [Index -> FileStates] /\ r.files[i] = "on" /\ r.pending = None
        /\ \A j \in Index \ {i} : r.files[j] = e.files[j]
    BY <1>1, <2>1, <2>2 DEF FileStates
  <2>4. /\ r.tracked \in Seq(Index) /\ Len(r.tracked) = Len(e.tracked) + 1
        /\ DOMAIN r.tracked = 1..(Len(e.tracked) + 1)
        /\ DOMAIN e.tracked = 1..Len(e.tracked) /\ Len(e.tracked) \in Nat
        /\ r.tracked[Len(e.tracked) + 1] = i
        /\ \A k \in 1..Len(e.tracked) : r.tracked[k] = e.tracked[k]
    BY <1>1, <2>1, <2>2
  <2>5. i \notin ToSet(e.tracked)
    BY <2>1 DEF Sound, FilesIn, Pending
  <2>6. Distinct(r.tracked)
    BY <2>4, <2>5, OneMore DEF Sound
  <2>7. ToSet(r.tracked) = ToSet(e.tracked) \cup {i}
    <3> DEFINE n == Len(e.tracked)
    <3>1. /\ DOMAIN r.tracked = 1..(n + 1) /\ DOMAIN e.tracked = 1..n /\ n \in Nat
          /\ r.tracked[n + 1] = i
          /\ \A k \in 1..n : r.tracked[k] = e.tracked[k]
      BY <2>4
    <3> HIDE DEF n
    <3> QED  BY <3>1, OneMore
  <2>8. r \in Expander
    <3>1. Len(r.tracked) <= MaxFiles
      BY <2>4, <2>6, DistinctFits
    <3> QED  BY <1>1, <2>2, <2>3, <2>4, <3>1, ExpanderIs
  <2>9. FilesIn(r, {"on"}) = FilesIn(e, {"on"}) \cup {i} /\ FilesIn(r, {"stray"}) = FilesIn(e, {"stray"})
    BY <2>1, <2>3 DEF FilesIn, Pending
  <2>10. FilesIn(r, Pending) = {}
    BY <2>3 DEF FilesIn, Sound, Pending
  <2>11. FilesIn(e, Active) \subseteq FilesIn(r, Active)
    BY <2>1, <2>3 DEF FilesIn, Active, Pending
  <2>12. Sound(r)
    BY <2>3, <2>6, <2>7, <2>9, <2>10 DEF Sound
  <2> QED  BY <2>8, <2>11, <2>12 DEF Moves
<1> QED  BY <1>2, <1>3, <1>4 DEF Polled

LEMMA TrimmedMoves ==
  ASSUME NEW e \in Expander, Sound(e), NEW total, NEW free, NEW forked
  PROVE  Moves(e, Trimmed(e, total, free, forked))
<1> DEFINE n == Len(e.tracked)
           i == Last(e.tracked)
<1>1. ASSUME NEW r, r = [e EXCEPT !.files[i] = "leaving", !.tracked = Front(@)], e.tracked # <<>>
      PROVE  Moves(e, r)
  <2>1. /\ e.files \in [Index -> FileStates] /\ e.tracked \in Seq(Index) /\ n <= MaxFiles
        /\ e = [files |-> e.files, tracked |-> e.tracked, pending |-> e.pending]
        /\ e.pending \in Index \cup {None}
    BY ExpanderIs
  <2>2. n \in Nat \ {0} /\ DOMAIN e.tracked = 1..n /\ i = e.tracked[n] /\ i \in Index
    BY <1>1, <2>1 DEF Last
  <2>3. e.files[i] = "on"
    BY <2>2 DEF Sound, ToSet, FilesIn
  <2>4. r = [files |-> [e.files EXCEPT ![i] = "leaving"], tracked |-> Front(e.tracked), pending |-> e.pending]
    BY <1>1, <2>1
  <2> HIDE DEF i
  <2>5. /\ r.files \in [Index -> FileStates] /\ r.files[i] = "leaving" /\ r.pending = e.pending
        /\ \A j \in Index \ {i} : r.files[j] = e.files[j]
    BY <2>1, <2>2, <2>4 DEF FileStates
  <2>6. /\ r.tracked \in Seq(Index) /\ Len(r.tracked) = n - 1 /\ DOMAIN r.tracked = 1..(n - 1)
        /\ \A k \in 1..(n - 1) : r.tracked[k] = e.tracked[k]
    <3>1. r.tracked = SubSeq(e.tracked, 1, n - 1) /\ \A k \in 1..(n - 1) : e.tracked[k] \in Index
      BY <2>1, <2>2, <2>4 DEF Front
    <3>2. /\ r.tracked \in Seq(Index)
          /\ Len(r.tracked) = IF 1 <= n - 1 THEN (n - 1) - 1 + 1 ELSE 0
          /\ \A k \in 1..((n - 1) - 1 + 1) : r.tracked[k] = e.tracked[1 + k - 1]
      <4>1. 1 \in Int /\ n - 1 \in Int
        BY <2>2
      <4> HIDE DEF n
      <4> QED  BY <3>1, <4>1, SubSeqProperties
    <3>3. (n - 1) - 1 + 1 = n - 1 /\ \A k \in 1..(n - 1) : 1 + k - 1 = k
      BY <2>2
    <3>4. Len(r.tracked) = n - 1
      BY <2>2, <3>2
    <3> QED  BY <3>2, <3>3, <3>4
  <2>7. Distinct(r.tracked)
    <3>1. n - 1 \in Nat /\ (n - 1) + 1 = n
      BY <2>2
    <3>2. DOMAIN e.tracked = 1..((n - 1) + 1) /\ Distinct(e.tracked)
      BY <2>2, <3>1 DEF Sound
    <3>3. \A k \in 1..(n - 1) : e.tracked[k] = r.tracked[k]
      BY <2>6
    <3> HIDE DEF n
    <3> QED  BY <2>6, <3>1, <3>2, <3>3, OneMore
  <2>8. ToSet(r.tracked) = ToSet(e.tracked) \ {i}
    <3>1. \A k \in 1..(n - 1) : k \in 1..n /\ k # n
      BY <2>2
    <3>2. \A k \in 1..n : k = n \/ k \in 1..(n - 1)
      BY <2>2
    <3>3. \A k \in 1..(n - 1) : e.tracked[k] # i
      <4>1. Distinct(e.tracked) /\ n \in 1..n
        BY <2>2 DEF Sound
      <4> QED  BY <2>2, <3>1, <4>1 DEF Distinct
    <3> QED  BY <2>2, <2>6, <3>1, <3>2, <3>3 DEF ToSet
  <2>9. r \in Expander
    <3>1. Len(r.tracked) <= MaxFiles
      BY <2>1, <2>2, <2>6, MaxFilesAssumption
    <3>2. r = [files |-> r.files, tracked |-> r.tracked, pending |-> r.pending]
      BY <2>4
    <3> QED  BY <2>1, <2>5, <2>6, <3>1, <3>2, ExpanderIs
  <2>10. /\ FilesIn(r, {"on"}) = FilesIn(e, {"on"}) \ {i} /\ FilesIn(r, {"stray"}) = FilesIn(e, {"stray"})
         /\ FilesIn(r, Pending) = FilesIn(e, Pending)
    BY <2>3, <2>5 DEF FilesIn, Pending
  <2>11. FilesIn(e, Active) \subseteq FilesIn(r, Active)
    BY <2>3, <2>5 DEF FilesIn, Active
  <2>12. r.pending # None => r.files[r.pending] \in Pending
    BY <2>1, <2>3, <2>5 DEF Sound, Pending
  <2>13. Sound(r)
    BY <2>5, <2>7, <2>8, <2>10, <2>12 DEF Sound
  <2> QED  BY <2>9, <2>11, <2>13 DEF Moves
<1>2. CASE Trimmed(e, total, free, forked) = e
  BY <1>2 DEF Moves
<1> QED  BY <1>1, <1>2 DEF Trimmed

(* Induction over the loop of initialize, without an operator parameter.     *)
LEMMA NatIsReached ==
  ASSUME NEW S \in SUBSET Nat, 0 \in S, \A n \in S : n + 1 \in S
  PROVE  S = Nat
<1> SUFFICES ASSUME Nat \ S # {} PROVE FALSE
  OBVIOUS
<1> DEFINE R == OpToRel(<, Nat)
<1>1. IsWellFoundedOn(R, Nat)
  BY NatLessThanWellFounded, Zenon
<1>2. \A x, y \in Nat : y < x => <<y, x>> \in R
  BY DEF OpToRel
<1> HIDE DEF R
<1>3. PICK x \in Nat \ S : \A y \in Nat \ S : ~ (<<y, x>> \in R)
  BY <1>1, WFMin
<1>4. x # 0 /\ x - 1 \in Nat /\ x - 1 < x /\ x = (x - 1) + 1
  BY <1>3
<1>5. x - 1 \in S
  BY <1>2, <1>3, <1>4
<1> QED  BY <1>3, <1>4, <1>5

IsFound(f, m, e) ==
  f = [n \in 0..m |-> IF n = 0 THEN <<>>
                      ELSE IF e.files[n] \in Active THEN Append(f[n - 1], n) ELSE f[n - 1]]

LEMMA FoundExists ==
  ASSUME NEW e, NEW m \in Nat
  PROVE  \E f : IsFound(f, m, e)
<1> DEFINE S == {n \in Nat : \E f : IsFound(f, n, e)}
<1>1. 0 \in S
  <2> DEFINE f == [n \in 0..0 |-> <<>>]
  <2>1. IsFound(f, 0, e)
    BY DEF IsFound
  <2> HIDE DEF f
  <2> QED  BY <2>1
<1>2. ASSUME NEW n \in S PROVE n + 1 \in S
  <2>1. PICK g : IsFound(g, n, e)
    BY <1>2
  <2> DEFINE next(h, i) == IF e.files[i] \in Active THEN Append(h[i - 1], i) ELSE h[i - 1]
             f == [i \in 0..(n + 1) |-> IF i = n + 1 THEN next(g, n + 1) ELSE g[i]]
             h == [i \in 0..(n + 1) |-> IF i = 0 THEN <<>> ELSE next(f, i)]
  <2>2. ASSUME NEW i \in 0..(n + 1) PROVE f[i] = h[i]
    <3>1. CASE i = n + 1
      <4>1. n \in 0..(n + 1) /\ n # n + 1 /\ i # 0 /\ i - 1 = n
        BY <3>1
      <4>2. f[n] = g[n] /\ f[i] = next(g, i)
        BY <3>1, <4>1
      <4>3. h[i] = next(f, i)
        <5> HIDE DEF f
        <5> QED  BY <4>1
      <4> HIDE DEF f, h
      <4> QED  BY <3>1, <4>1, <4>2, <4>3
    <3>2. CASE i = 0
      <4>1. f[0] = g[0] /\ h[0] = <<>>
        OBVIOUS
      <4>2. g[0] = <<>>
        BY <2>1 DEF IsFound
      <4> QED  BY <3>2, <4>1, <4>2
    <3>3. CASE i \in 1..n
      <4>1. /\ i \in 0..n /\ i - 1 \in 0..n /\ i # 0 /\ i # n + 1 /\ i - 1 # n + 1
            /\ i - 1 \in 0..(n + 1)
        BY <3>3
      <4>2. f[i] = g[i] /\ f[i - 1] = g[i - 1]
        BY <4>1
      <4>3. g[i] = next(g, i)
        BY <2>1, <4>1 DEF IsFound
      <4>4. h[i] = next(f, i)
        <5> HIDE DEF f
        <5> QED  BY <4>1
      <4> HIDE DEF f, h
      <4> QED  BY <4>2, <4>3, <4>4
    <3> QED  BY <3>1, <3>2, <3>3
  <2>3. f = h
    <3> HIDE DEF next
    <3>1. f = [i \in 0..(n + 1) |-> f[i]] /\ h = [i \in 0..(n + 1) |-> h[i]]
      OBVIOUS
    <3> QED  BY <2>2, <3>1
  <2>4. IsFound(f, n + 1, e)
    <3> HIDE DEF f
    <3> QED  BY <2>3 DEF IsFound
  <2> HIDE DEF f
  <2> QED  BY <2>4
<1>3. m \in S
  <2> HIDE DEF S
  <2>1. S \in SUBSET Nat
    BY DEF S
  <2> QED  BY <1>1, <1>2, <2>1, NatIsReached
<1> QED  BY <1>3

(* What a start finds: the files that are swapped on, each once.             *)
LEMMA FoundIs ==
  ASSUME NEW e, NEW f, IsFound(f, MaxFiles, e), NEW n \in 0..MaxFiles
  PROVE  /\ f[n] \in Seq(Index) /\ Distinct(f[n])
         /\ ToSet(f[n]) = {i \in 1..n : e.files[i] \in Active}
<1> DEFINE Good(k) == /\ f[k] \in Seq(Index) /\ Distinct(f[k])
                      /\ ToSet(f[k]) = {i \in 1..k : e.files[i] \in Active}
           S == {k \in Nat : k <= MaxFiles => Good(k)}
<1>0. MaxFiles \in Nat
  BY MaxFilesAssumption
<1>1. 0 \in S
  <2>1. f[0] = <<>>
    BY <1>0 DEF IsFound
  <2>2. <<>> \in Seq(Index) /\ DOMAIN <<>> = {} /\ 1..0 = {}
    OBVIOUS
  <2> QED  BY <2>1, <2>2 DEF Distinct, ToSet
<1>2. ASSUME NEW k \in S PROVE k + 1 \in S
  <2>1. SUFFICES ASSUME k + 1 <= MaxFiles PROVE Good(k + 1)
    BY <1>2
  <2>2. k \in Nat /\ Good(k) /\ k + 1 \in 0..MaxFiles /\ k + 1 # 0 /\ (k + 1) - 1 = k
    BY <1>0, <1>2, <2>1
  <2>3. f[k + 1] = IF e.files[k + 1] \in Active THEN Append(f[k], k + 1) ELSE f[k]
    BY <2>2 DEF IsFound
  <2>4. 1..(k + 1) = (1..k) \cup {k + 1} /\ k + 1 \notin 1..k /\ k + 1 \in Index
    BY <2>1, <2>2 DEF Index
  <2>5. CASE e.files[k + 1] \in Active
    <3> DEFINE s == f[k]
               t == f[k + 1]
    <3>1. t = Append(s, k + 1) /\ s \in Seq(Index)
      BY <2>2, <2>3, <2>5
    <3> HIDE DEF s, t
    <3>2. /\ t \in Seq(Index) /\ DOMAIN t = 1..(Len(s) + 1) /\ DOMAIN s = 1..Len(s) /\ Len(s) \in Nat
          /\ t[Len(s) + 1] = k + 1 /\ \A i \in 1..Len(s) : t[i] = s[i]
      BY <2>4, <3>1
    <3>3. k + 1 \notin ToSet(s) /\ Distinct(s)
      BY <2>2, <2>4 DEF s
    <3>4. Distinct(t)
      BY <3>2, <3>3 DEF Distinct, ToSet
    <3>5. ToSet(t) = ToSet(s) \cup {k + 1}
      BY <3>2 DEF ToSet
    <3>6. ToSet(t) = {i \in 1..(k + 1) : e.files[i] \in Active}
      BY <2>2, <2>4, <2>5, <3>5 DEF s
    <3> QED  BY <3>2, <3>4, <3>6 DEF t
  <2>6. CASE e.files[k + 1] \notin Active
    BY <2>2, <2>3, <2>4, <2>6
  <2> QED  BY <2>5, <2>6
<1>3. n \in S
  <2> HIDE DEF S
  <2>1. S \in SUBSET Nat
    BY DEF S
  <2> QED  BY <1>1, <1>2, <2>1, NatIsReached
<1> QED  BY <1>0, <1>3

LEMMA AdoptedMoves ==
  ASSUME NEW e \in Expander
  PROVE  Moves(e, Adopted(e))
<1> DEFINE f == CHOOSE f : IsFound(f, MaxFiles, e)
<1>1. IsFound(f, MaxFiles, e)
  BY FoundExists, MaxFilesAssumption
<1>2. ASSUME NEW r, r = Adopted(e) PROVE Moves(e, r)
  <2>1. r = [files |-> [i \in Index |-> IF e.files[i] \in Active THEN "on" ELSE "absent"],
             tracked |-> f[MaxFiles], pending |-> None]
    BY <1>2 DEF Adopted, IsFound
  <2> HIDE DEF f
  <2> DEFINE s == f[MaxFiles]
  <2>2. /\ s \in Seq(Index) /\ Distinct(s)
        /\ ToSet(s) = {i \in 1..MaxFiles : e.files[i] \in Active}
    BY <1>1, FoundIs, MaxFilesAssumption
  <2>3. Len(s) <= MaxFiles
    BY <2>2, DistinctFits
  <2> HIDE DEF s
  <2>4. /\ r.files \in [Index -> FileStates] /\ r.tracked = s /\ r.pending = None
        /\ \A i \in Index : r.files[i] = IF e.files[i] \in Active THEN "on" ELSE "absent"
    BY <2>1 DEF FileStates, s
  <2>5. r = [files |-> r.files, tracked |-> r.tracked, pending |-> r.pending]
    BY <2>1
  <2>6. r \in Expander
    BY <2>2, <2>3, <2>4, <2>5, ExpanderIs
  <2>7. /\ FilesIn(r, {"on"}) = FilesIn(e, Active) /\ FilesIn(r, {"stray"}) = {}
        /\ FilesIn(r, Pending) = {} /\ FilesIn(r, Active) = FilesIn(e, Active)
    BY <2>4 DEF FilesIn, Active, Pending
  <2>8. Sound(r)
    BY <2>2, <2>4, <2>7 DEF Sound, FilesIn, Index
  <2> QED  BY <2>6, <2>7, <2>8 DEF Moves
<1> QED  BY <1>2

LEMMA MovesOn ==
  ASSUME NEW a, NEW b, NEW c, Moves(a, b), Moves(b, c)
  PROVE  Moves(a, c)
BY DEF Moves

(* A child's next step, or its end, at the file it works on.                 *)
LEMMA WorkKeeps ==
  ASSUME NEW e \in Expander, Sound(e), NEW i \in Index, NEW st, NEW r,
         r = [e EXCEPT !.files[i] = st],
         \/ e.files[i] = "building" /\ st \in {"built", "failed"}
         \/ e.files[i] = "leaving" /\ st \in {"drained", "leaked"}
         \/ e.files[i] = "drained" /\ st = "absent"
  PROVE  /\ r \in Expander /\ Sound(r)
         /\ st # "drained" => FilesIn(e, Active) \subseteq FilesIn(r, Active)
<1>1. /\ e.files \in [Index -> FileStates] /\ e.tracked \in Seq(Index) /\ Len(e.tracked) <= MaxFiles
      /\ e = [files |-> e.files, tracked |-> e.tracked, pending |-> e.pending]
      /\ e.pending \in Index \cup {None}
  BY ExpanderIs
<1>2. r = [files |-> [e.files EXCEPT ![i] = st], tracked |-> e.tracked, pending |-> e.pending]
  BY <1>1
<1>3. /\ r.files \in [Index -> FileStates] /\ r.files[i] = st /\ r.pending = e.pending
      /\ \A j \in Index \ {i} : r.files[j] = e.files[j]
      /\ r.tracked = e.tracked
  BY <1>1, <1>2 DEF FileStates
<1>4. r = [files |-> r.files, tracked |-> r.tracked, pending |-> r.pending]
  BY <1>2
<1>5. r \in Expander
  BY <1>1, <1>3, <1>4, ExpanderIs
<1>6. /\ FilesIn(r, {"on"}) = FilesIn(e, {"on"}) /\ FilesIn(r, {"stray"}) = FilesIn(e, {"stray"})
      /\ FilesIn(r, Pending) = FilesIn(e, Pending)
  BY <1>3 DEF FilesIn, Pending
<1>7. r.pending # None => r.files[r.pending] \in Pending
  BY <1>1, <1>3 DEF Sound, Pending
<1>8. Sound(r)
  BY <1>3, <1>6, <1>7 DEF Sound
<1>9. st # "drained" => FilesIn(e, Active) \subseteq FilesIn(r, Active)
  BY <1>3 DEF FilesIn, Active
<1> QED  BY <1>5, <1>8, <1>9

(* A daemon that ends, or the whole machine, leaves files and a dead record. *)
LEMMA OrphanedIs ==
  ASSUME NEW e \in Expander
  PROVE  Orphaned(e) \in Expander /\ FilesIn(e, Active) \subseteq FilesIn(Orphaned(e), Active)
<1>1. /\ e.files \in [Index -> FileStates] /\ e.tracked \in Seq(Index) /\ Len(e.tracked) <= MaxFiles
      /\ e = [files |-> e.files, tracked |-> e.tracked, pending |-> e.pending]
      /\ e.pending \in Index \cup {None}
  BY ExpanderIs
<1> DEFINE left(st) == IF st \in Pending \cup {"drained"} THEN "stray" ELSE IF st = "leaving" THEN "on" ELSE st
           files == [i \in Index |-> left(e.files[i])]
<1>2. ASSUME NEW r, r = Orphaned(e)
      PROVE  r \in Expander /\ FilesIn(e, Active) \subseteq FilesIn(r, Active)
  <2>1. r = [e EXCEPT !.files = files]
    BY <1>2 DEF Orphaned
  <2>2. files \in [Index -> FileStates] /\ \A i \in Index : files[i] = left(e.files[i])
    BY <1>1 DEF FileStates
  <2> HIDE DEF files
  <2>3. r = [files |-> files, tracked |-> e.tracked, pending |-> e.pending]
    BY <1>1, <2>1
  <2>4. r.files = files /\ r.tracked = e.tracked /\ r.pending = e.pending
    BY <2>3
  <2>5. r \in Expander
    BY <1>1, <2>2, <2>3, <2>4, ExpanderIs
  <2>6. FilesIn(e, Active) \subseteq FilesIn(r, Active)
    BY <2>2, <2>4 DEF FilesIn, Active, Pending
  <2> QED  BY <2>5, <2>6
<1> QED  BY <1>2

LEMMA RebootedIs ==
  ASSUME NEW e \in Expander
  PROVE  Rebooted(e) \in Expander
<1>1. /\ e.files \in [Index -> FileStates] /\ e.tracked \in Seq(Index) /\ Len(e.tracked) <= MaxFiles
      /\ e = [files |-> e.files, tracked |-> e.tracked, pending |-> e.pending]
      /\ e.pending \in Index \cup {None}
  BY ExpanderIs
<1> DEFINE files == [i \in Index |-> IF e.files[i] = "absent" THEN "absent" ELSE "stray"]
<1>2. ASSUME NEW r, r = Rebooted(e)
      PROVE  r \in Expander
  <2>1. r = [e EXCEPT !.files = files]
    BY <1>2 DEF Rebooted
  <2>2. files \in [Index -> FileStates]
    BY DEF FileStates
  <2> HIDE DEF files
  <2>3. r = [files |-> files, tracked |-> e.tracked, pending |-> e.pending]
    BY <1>1, <2>1
  <2>4. r.files = files /\ r.tracked = e.tracked /\ r.pending = e.pending
    BY <2>3
  <2> QED  BY <1>1, <2>2, <2>3, <2>4, ExpanderIs
<1> QED  BY <1>2

(* What is in use still fits after a step that ends no active file.          *)
LEMMA SwapFits ==
  ASSUME used \in 0..Total(swap), used' = used, NEW r,
         FilesIn(swap, Active) \subseteq FilesIn(r, Active)
  PROVE  used' \in 0..Total(r)
<1>1. Total(swap) \in Nat /\ Total(r) \in Nat /\ Total(swap) <= Total(r)
  BY TotalGrows
<1> QED  BY <1>1

LEMMA TotalIs == \A e : Total(e) \in Nat
BY TotalGrows

LEMMA SwapInitInv == Init => SwapInv
<1> SUFFICES ASSUME Init PROVE SwapInv
  OBVIOUS
<1>1. /\ swap = [files |-> [i \in Index |-> "absent"], tracked |-> <<>>, pending |-> None]
      /\ used = 0 /\ roomy = TRUE /\ up = FALSE
  BY DEF Init, SwapInit
<1>2. swap \in Expander
  <2>1. swap.files \in [Index -> FileStates] /\ swap.tracked = <<>> /\ swap.pending = None
    BY <1>1 DEF FileStates
  <2>2. <<>> \in Seq(Index) /\ Len(<<>>) <= MaxFiles
    BY MaxFilesAssumption
  <2>3. swap = [files |-> swap.files, tracked |-> swap.tracked, pending |-> swap.pending]
    BY <1>1
  <2> QED  BY <2>1, <2>2, <2>3, ExpanderIs
<1>3. used \in 0..Total(swap)
  <2>1. Total(swap) \in Nat
    BY TotalIs
  <2> QED  BY <1>1, <2>1
<1> QED  BY <1>1, <1>2, <1>3 DEF SwapInv, SwapTypeOK

(* Polled, then grown or trimmed or both, on whatever sample.                *)
LEMMA EvaluateMoves ==
  ASSUME SwapInv, Evaluate
  PROVE  Moves(swap, swap')
<1>1. swap \in Expander /\ Sound(swap)
  BY DEF SwapInv, SwapTypeOK, Evaluate
<1>2. PICK e \in Polled(swap), total \in SeenTotals, forked \in ForkOutcomes :
        LET free == Max({total - used, 0})
            next == Classify(total, free)
        IN  \/ Relax(e, next, total, free, forked)
            \/ Advise(e, next, total, free, forked)
            \/ Resist(e, next, total, free, forked)
  BY DEF Evaluate
<1> DEFINE free == Max({total - used, 0})
           next == Classify(total, free)
           grown == Grown(e, total, free, forked)
<1>3. Moves(swap, e)
  BY <1>1, PolledMoves
<1>4. Moves(swap, grown)
  BY <1>3, GrownMoves, MovesOn DEF Moves
<1>5. CASE Relax(e, next, total, free, forked)
  <2> DEFINE first == IF profile = "performance" THEN grown ELSE e
  <2>1. Moves(swap, first)
    BY <1>3, <1>4
  <2>2. swap' = Trimmed(first, total, free, forked)
    BY <1>5 DEF Relax
  <2> HIDE DEF first
  <2> QED  BY <2>1, <2>2, TrimmedMoves, MovesOn DEF Moves
<1>6. CASE Advise(e, next, total, free, forked)
  BY <1>3, <1>4, <1>6 DEF Advise
<1>7. CASE Resist(e, next, total, free, forked)
  BY <1>4, <1>7 DEF Resist
<1> QED  BY <1>2, <1>5, <1>6, <1>7

LEMMA ChildKeeps ==
  ASSUME SwapInv, Child
  PROVE  SwapInv'
<1>1. /\ swap \in Expander /\ Sound(swap) /\ used \in 0..Total(swap) /\ roomy' = roomy
      /\ roomy \in BOOLEAN /\ up' = up
  BY DEF SwapInv, SwapTypeOK, Child, guardVars, ChildStep, ChildBuilds, ChildDrains, ChildIsRefused,
         ChildUnlinks
<1>2. ASSUME NEW i \in Index, NEW st \in {"built", "failed", "leaked", "absent"},
             swap' = [swap EXCEPT !.files[i] = st], used' = used,
             \/ swap.files[i] = "building" /\ st \in {"built", "failed"}
             \/ swap.files[i] = "leaving" /\ st = "leaked"
             \/ swap.files[i] = "drained" /\ st = "absent"
      PROVE  SwapInv'
  <2>1. swap' \in Expander /\ Sound(swap') /\ FilesIn(swap, Active) \subseteq FilesIn(swap', Active)
    <3> DEFINE r == swap'
    <3>1. r = [swap EXCEPT !.files[i] = st]
      BY <1>2
    <3> HIDE DEF r
    <3>2. r \in Expander /\ Sound(r) /\ FilesIn(swap, Active) \subseteq FilesIn(r, Active)
      BY <1>1, <1>2, <3>1, WorkKeeps
    <3> QED  BY <3>2 DEF r
  <2>2. used' \in 0..Total(swap')
    BY <1>1, <1>2, <2>1, SwapFits
  <2> QED  BY <1>1, <2>1, <2>2 DEF SwapInv, SwapTypeOK, Sound, Total, FilesIn
<1>3. CASE ChildBuilds
  <2>1. PICK i \in FilesIn(swap, {"building"}), result \in {"built", "failed"} :
          swap' = [swap EXCEPT !.files[i] = result] /\ used' = used
    BY <1>3 DEF ChildBuilds
  <2> QED  BY <1>2, <2>1 DEF FilesIn
<1>4. CASE ChildIsRefused
  <2>1. PICK i \in FilesIn(swap, {"leaving"}) :
          swap' = [swap EXCEPT !.files[i] = "leaked"] /\ used' = used
    BY <1>4 DEF ChildIsRefused
  <2> QED  BY <1>2, <2>1 DEF FilesIn
<1>5. CASE ChildUnlinks
  <2>1. PICK i \in FilesIn(swap, {"drained"}) :
          swap' = [swap EXCEPT !.files[i] = "absent"] /\ used' = used
    BY <1>5 DEF ChildUnlinks
  <2> QED  BY <1>2, <2>1 DEF FilesIn
<1>6. CASE ChildDrains
  <2>1. PICK i \in FilesIn(swap, {"leaving"}) :
          swap' = [swap EXCEPT !.files[i] = "drained"] /\ used' = Min({used, Total(swap')})
    BY <1>6 DEF ChildDrains
  <2>2. swap' \in Expander /\ Sound(swap')
    <3> DEFINE r == swap'
    <3>1. r = [swap EXCEPT !.files[i] = "drained"] /\ i \in Index /\ swap.files[i] = "leaving"
      BY <2>1 DEF FilesIn
    <3> HIDE DEF r
    <3>2. r \in Expander /\ Sound(r)
      BY <1>1, <3>1, WorkKeeps
    <3> QED  BY <3>2 DEF r
  <2>3. used' \in 0..Total(swap')
    <3> DEFINE t == Total(swap')
    <3>1. t \in Nat /\ used \in Nat
      <4>1. Total(swap) \in Nat
        BY TotalIs
      <4> QED  BY <1>1, <4>1, TotalIs
    <3> HIDE DEF t
    <3>2. \E x \in {used, t} : \A y \in {used, t} : x =< y
      BY <3>1
    <3>3. Min({used, t}) \in {used, t} /\ Min({used, t}) =< t
      BY <3>2 DEF Min
    <3> QED  BY <2>1, <3>1, <3>3 DEF t
  <2> QED  BY <1>1, <2>2, <2>3 DEF SwapInv, SwapTypeOK, Sound, Total, FilesIn
<1> QED  BY <1>3, <1>4, <1>5, <1>6 DEF Child, ChildStep

LEMMA SwapStepInv == SwapInv /\ [Next]_vars => SwapInv'
<1> SUFFICES ASSUME SwapInv, [Next]_vars PROVE SwapInv'
  OBVIOUS
<1>1. /\ swap \in Expander /\ used \in 0..Total(swap) /\ roomy \in BOOLEAN
      /\ up => Sound(swap)
  BY DEF SwapInv, SwapTypeOK
<1>2. ASSUME Moves(swap, swap'), used' = used, roomy' = roomy PROVE SwapInv'
  <2>1. used' \in 0..Total(swap')
    BY <1>1, <1>2, SwapFits DEF Moves
  <2> QED  BY <1>1, <1>2, <2>1 DEF SwapInv, SwapTypeOK, Moves, Sound, Total, FilesIn
<1>3. ASSUME swap' \in Expander, used' \in 0..Total(swap'), roomy' = roomy, ~up' PROVE SwapInv'
  BY <1>1, <1>3 DEF SwapInv, SwapTypeOK, Total, FilesIn
<1>4. CASE Evaluate
  BY <1>2, <1>4, EvaluateMoves DEF Evaluate
<1>5. CASE Child
  BY <1>5, ChildKeeps
<1>6. CASE Start
  BY <1>1, <1>2, <1>6, AdoptedMoves DEF Start
<1>7. CASE Stop \/ Crash
  <2>1. swap' = Orphaned(swap) /\ used' = used /\ roomy' = roomy /\ ~up'
    BY <1>7 DEF Stop, Crash
  <2>2. used' \in 0..Total(swap')
    BY <1>1, <2>1, OrphanedIs, SwapFits
  <2> QED  BY <1>1, <1>3, <2>1, <2>2, OrphanedIs
<1>8. CASE Reboot
  <2>1. swap' = Rebooted(swap) /\ used' = 0 /\ roomy' = roomy /\ ~up'
    BY <1>8 DEF Reboot
  <2>2. used' \in 0..Total(swap')
    <3>1. Total(swap') \in Nat
      BY TotalIs
    <3> QED  BY <2>1, <3>1
  <2> QED  BY <1>1, <1>3, <2>1, <2>2, RebootedIs
<1>9. CASE Usage
  <2>1. swap' = swap /\ used' \in 0..Total(swap) /\ roomy' = roomy /\ up' = up
    BY <1>9 DEF Usage, SwapIsUsed, guardVars
  <2> QED  BY <1>1, <2>1 DEF SwapInv, SwapTypeOK, Sound, Total, FilesIn
<1>10. CASE Disk
  <2>1. swap' = swap /\ used' = used /\ roomy' \in BOOLEAN /\ up' = up
    BY <1>10 DEF Disk, DiskFills, guardVars
  <2> QED  BY <1>1, <2>1 DEF SwapInv, SwapTypeOK, Sound, Total, FilesIn
<1>11. CASE \/ PressureChanges \/ ProfileChanges \/ UNCHANGED vars
            \/ \E p \in Procs : Exit(p) \/ Spawn(p)
  <2>1. swap' = swap /\ used' = used /\ roomy' = roomy /\ up' = up
    BY <1>11 DEF PressureChanges, ProfileChanges, Exit, Spawn, vars, guardVars
  <2> QED  BY <1>1, <2>1 DEF SwapInv, SwapTypeOK, Sound, Total, FilesIn
<1> QED  BY <1>4, <1>5, <1>6, <1>7, <1>8, <1>9, <1>10, <1>11 DEF Next

LEMMA SwapInvHolds == Spec => []SwapInv
BY SwapInitInv, SwapStepInv, PTL DEF Spec

(* The whole composition keeps its types: the guard's, and the expander's -  *)
(* no sequence of growths, adoptions, refusals and crashes makes m_files     *)
(* overflow MAX_FILES, and no more swap is in use than there is.             *)
THEOREM TypeCorrect == Spec => []TypeOK
<1>1. Inv /\ SwapInv => TypeOK
  BY DEF Inv, SwapInv, TypeOK
<1> QED  BY <1>1, InvHolds, SwapInvHolds, PTL

(* What the running daemon has in m_files is what is swapped on, each file   *)
(* once; what is under construction is the pending file; a start leaves no   *)
(* file nobody works on (initialize, poll_pending, maybe_release).           *)
THEOREM DiskIsOnRecord == Spec => []RecordMatchesDisk
<1>1. SwapInv => RecordMatchesDisk
  <2> SUFFICES ASSUME SwapInv, up PROVE RecordMatchesDisk
    BY DEF RecordMatchesDisk
  <2>1. swap.tracked \in Seq(Index) /\ Sound(swap)
    BY ExpanderIs DEF SwapInv, SwapTypeOK
  <2>2. Cardinality(ToSet(swap.tracked)) = Len(swap.tracked)
    BY <2>1, DistinctFits DEF Sound
  <2> QED  BY <2>1, <2>2 DEF RecordMatchesDisk, Sound
<1> QED  BY <1>1, SwapInvHolds, PTL

-----------------------------------------------------------------------------
(* The way back.  With nothing in swap the sample shows all of it free.      *)

LEMMA MaxIs ==
  ASSUME NEW n \in Nat
  PROVE  Max({n, 0}) = n
<1> DEFINE S == {n, 0}
<1>1. \E x \in S : \A y \in S : x >= y
  OBVIOUS
<1>2. Max(S) \in S /\ \A y \in S : Max(S) >= y
  <2> HIDE DEF S
  <2> QED  BY <1>1 DEF Max
<1> QED  BY <1>2

LEMMA SeenIs ==
  ASSUME SwapTypeOK, used = 0, NEW total \in SeenTotals
  PROVE  /\ total \in Nat /\ Base <= total /\ Max({total - used, 0}) = total
         /\ FilesIn(swap, {"on"}) # {} => Base + Increment <= total
<1> DEFINE A == FilesIn(swap, Active)
           L == FilesIn(swap, {"leaving"})
           a == Cardinality(A)
           l == Cardinality(L)
<1>1. IsFiniteSet(Index) /\ A \subseteq Index /\ L \subseteq A
  BY MaxFilesAssumption, FS_Interval DEF Index, FilesIn, Active
<1>2. IsFiniteSet(A) /\ IsFiniteSet(L)
  BY <1>1, FS_Subset
<1>3. a \in Nat /\ l \in Nat /\ l <= a /\ (a = l => A = L)
  BY <1>1, <1>2, FS_Subset, FS_CardinalityType
<1>4. FilesIn(swap, {"on"}) # {} => A # L
  BY DEF FilesIn, Active
<1>5. Total(swap) = Base + Increment * a
  BY DEF Total
<1>6. PICK n \in 0..(Increment * l) : total = Total(swap) - n
  BY Zenon DEF SeenTotals
<1> HIDE DEF a, l, A, L
<1>7. Base \in Nat /\ Increment \in Nat
  BY SizesAssumption
<1>8. \A k, x, y \in Nat : /\ x <= y => k * x \in Nat /\ k * y \in Nat /\ k * x <= k * y
                           /\ x + 1 <= y => k * x + k <= k * y
  <2>1. \A k, x \in Nat : k * x \in Nat
    OBVIOUS
  <2>2. ASSUME NEW k \in Nat, NEW x \in Nat, NEW y \in Nat, x <= y
        PROVE  k * x <= k * y
    BY <2>2
  <2>3. ASSUME NEW k \in Nat, NEW x \in Nat, NEW y \in Nat, x + 1 <= y
        PROVE  k * x + k <= k * y
    <3>1. k * (x + 1) <= k * y
      BY <2>2, <2>3
    <3>2. k * (x + 1) = k * x + k
      OBVIOUS
    <3> QED  BY <3>1, <3>2
  <2> QED  BY <2>1, <2>2, <2>3
<1>9. Increment * l \in Nat /\ Increment * a \in Nat /\ Increment * l <= Increment * a
  BY <1>3, <1>7, <1>8
<1>10. a # l => Increment * l + Increment <= Increment * a
  <2>1. a # l => l + 1 <= a
    BY <1>3
  <2> QED  BY <1>3, <1>7, <1>8, <2>1
<1> DEFINE x == Increment * l
           y == Increment * a
<1>11. n \in Nat /\ n <= x /\ x \in Nat /\ y \in Nat /\ total = Base + y - n
  <2>1. n \in 0..x /\ x \in Nat /\ y \in Nat
    BY <1>6, <1>9
  <2>2. total = Total(swap) - n /\ Total(swap) = Base + y
    BY <1>5, <1>6
  <2> HIDE DEF x, y
  <2> QED  BY <1>7, <2>1, <2>2
<1>12. x <= y /\ (a # l => x + Increment <= y)
  BY <1>9, <1>10
<1> HIDE DEF x, y
<1>13. total \in Nat /\ Base <= total
  BY <1>7, <1>11, <1>12
<1>14. FilesIn(swap, {"on"}) # {} => Base + Increment <= total
  BY <1>3, <1>4, <1>7, <1>11, <1>12
<1>15. Max({total - used, 0}) = total
  BY <1>13, MaxIs
<1> QED  BY <1>13, <1>14, <1>15

(* What the expander decides when all swap is free.                          *)
LEMMA FreeIs ==
  ASSUME NEW total \in Nat, Base <= total
  PROVE  /\ Base * 4 >= 3 * Increment => ~ShouldExpand(total, total)
         /\ Increment < total => SafeToRelease(total, total)
<1>1. Base \in Nat \ {0} /\ Increment \in Nat \ {0}
  BY SizesAssumption
<1> QED  BY <1>1 DEF ShouldExpand, SafeToRelease

LEMMA CalmClassIs ==
  ASSUME ext = "calm", tier \in Tiers, NEW total \in Nat
  PROVE  Classify(total, total) = IF tier = Normal THEN Normal ELSE tier - 1
<1>1. RawTier(total, total) = Normal
  BY DEF RawTier
<1>2. Relieved(total, total)
  BY DEF Relieved
<1> QED  BY <1>1, <1>2 DEF Classify, Tiers, Normal, Throttle

(* A finished file is swapped on or removed; the others are left alone.      *)
LEMMA PolledIs ==
  ASSUME NEW e \in Expander, NEW r \in Polled(e)
  PROVE  /\ \A j \in Index : \/ r.files[j] = e.files[j]
                             \/ /\ j = e.pending /\ e.files[j] # "building"
                                /\ r.files[j] \in {"absent", "on"}
         /\ e.tracked # <<>> => r.tracked # <<>>
<1> DEFINE i == e.pending
           gone == [e EXCEPT !.files[i] = "absent", !.pending = None]
           active == [e EXCEPT !.files[i] = "on", !.pending = None, !.tracked = Append(@, i)]
<1>1. /\ e.files \in [Index -> FileStates] /\ e.tracked \in Seq(Index)
      /\ e = [files |-> e.files, tracked |-> e.tracked, pending |-> e.pending]
      /\ i \in Index \cup {None}
  BY ExpanderIs
<1>2. CASE r = e
  BY <1>2
<1>3. CASE i # None /\ e.files[i] # "building" /\ r = gone
  <2>1. r.files = [e.files EXCEPT ![i] = "absent"] /\ r.tracked = e.tracked
    BY <1>1, <1>3
  <2> HIDE DEF gone
  <2> QED  BY <1>1, <1>3, <2>1
<1>4. CASE i # None /\ e.files[i] # "building" /\ r = active
  <2>1. r.files = [e.files EXCEPT ![i] = "on"] /\ r.tracked = Append(e.tracked, i)
    BY <1>1, <1>4
  <2>2. r.tracked # <<>>
    BY <1>1, <1>4, <2>1
  <2> HIDE DEF active
  <2> QED  BY <1>1, <1>4, <2>1, <2>2
<1> QED  BY <1>2, <1>3, <1>4 DEF Polled

(* Trimming turns the newest file from on to leaving.                        *)
NewestGone(e) == [e EXCEPT !.files[Last(e.tracked)] = "leaving", !.tracked = Front(@)]

LEMMA NewestGoneIs ==
  ASSUME NEW e \in Expander, Sound(e), e.tracked # <<>>
  PROVE  /\ FilesIn(NewestGone(e), {"building"}) = FilesIn(e, {"building"})
         /\ NewestGone(e).pending = e.pending
         /\ \E i \in Index : e.files[i] = "on" /\ NewestGone(e).files[i] = "leaving"
<1> DEFINE n == Len(e.tracked)
           i == Last(e.tracked)
           r == NewestGone(e)
<1>1. /\ e.files \in [Index -> FileStates] /\ e.tracked \in Seq(Index)
      /\ e = [files |-> e.files, tracked |-> e.tracked, pending |-> e.pending]
  BY ExpanderIs
<1>2. n \in Nat \ {0} /\ DOMAIN e.tracked = 1..n /\ i = e.tracked[n] /\ i \in Index
  BY <1>1 DEF Last
<1>3. e.files[i] = "on"
  BY <1>2 DEF Sound, ToSet, FilesIn
<1>4. r.files = [e.files EXCEPT ![i] = "leaving"] /\ r.pending = e.pending
  BY <1>1 DEF NewestGone
<1> HIDE DEF i, r
<1>5. r.files[i] = "leaving" /\ \A j \in Index \ {i} : r.files[j] = e.files[j]
  BY <1>1, <1>2, <1>4
<1>6. FilesIn(r, {"building"}) = FilesIn(e, {"building"})
  BY <1>3, <1>5 DEF FilesIn
<1> QED  BY <1>2, <1>3, <1>4, <1>5, <1>6 DEF r

LEMMA TrimmedLeaves ==
  ASSUME NEW e \in Expander, Sound(e), NEW total, NEW free, NEW forked
  PROVE  LET r == Trimmed(e, total, free, forked) IN
         FilesIn(r, {"building"}) = FilesIn(e, {"building"}) /\ r.pending = e.pending
<1>1. \/ Trimmed(e, total, free, forked) = e
      \/ Trimmed(e, total, free, forked) = NewestGone(e) /\ e.tracked # <<>>
  BY DEF Trimmed, NewestGone
<1> QED  BY <1>1, NewestGoneIs

LEMMA TrimmedGives ==
  ASSUME NEW e \in Expander, Sound(e), e.tracked # <<>>, e.pending = None,
         NEW total, NEW free, SafeToRelease(total, free)
  PROVE  \E i \in Index : e.files[i] = "on" /\ Trimmed(e, total, free, TRUE).files[i] = "leaving"
<1>1. Trimmed(e, total, free, TRUE) = NewestGone(e)
  BY DEF Trimmed, NewestGone
<1> QED  BY <1>1, NewestGoneIs

LEMMA GrownIs ==
  ASSUME NEW e \in Expander, Sound(e), NEW total, NEW free, NEW forked
  PROVE  LET r == Grown(e, total, free, forked) IN
         /\ r = e \/ r.pending # None
         /\ ~ShouldExpand(total, free) => r = e
<1> DEFINE open == FilesIn(e, {"absent"})
           i == Min(open)
<1>1. ASSUME NEW r, r = [e EXCEPT !.files[i] = "building", !.pending = i], open # {}
      PROVE  r.pending # None
  <2>1. open \in SUBSET Nat
    BY MaxFilesAssumption DEF FilesIn, Index
  <2>2. i \in Index
    BY <1>1, <2>1, MinIs DEF FilesIn
  <2>3. r.pending = i
    BY <1>1, ExpanderIs
  <2> HIDE DEF i
  <2> QED  BY <2>2, <2>3 DEF Index, None
<1> QED  BY <1>1 DEF Grown

LEMMA CalmStep ==
  ASSUME Inv, SwapInv, Evaluate, ext = "calm", used = 0
  PROVE  /\ tier' = IF tier = Normal THEN Normal ELSE tier - 1
         /\ Slowed(brake)' = {}
         /\ Base * 4 >= 3 * Increment =>
              FilesIn(swap, {"building"})' \subseteq FilesIn(swap, {"building"})
         /\ tier' = Normal /\ swap'.pending = None /\ swap.tracked # <<>> /\ FALSE \notin ForkOutcomes =>
              ~(FilesIn(swap, {"leaving"})' \subseteq FilesIn(swap, {"leaving"}))
<1>1. SwapTypeOK /\ swap \in Expander /\ Sound(swap) /\ tier \in Tiers
  BY DEF Inv, GuardTypeOK, SwapInv, SwapTypeOK, Evaluate
<1>2. PICK e \in Polled(swap), total \in SeenTotals, forked \in ForkOutcomes :
        LET free == Max({total - used, 0})
            next == Classify(total, free)
        IN  /\ tier' = next
            /\ \/ Relax(e, next, total, free, forked)
               \/ Advise(e, next, total, free, forked)
               \/ Resist(e, next, total, free, forked)
  BY DEF Evaluate
<1>3. /\ total \in Nat /\ Base <= total /\ Max({total - used, 0}) = total
      /\ FilesIn(swap, {"on"}) # {} => Base + Increment <= total
  BY <1>1, SeenIs
<1> DEFINE next == Classify(total, total)
           grown == Grown(e, total, total, forked)
<1>4. /\ tier' = next
      /\ \/ Relax(e, next, total, total, forked)
         \/ Advise(e, next, total, total, forked)
         \/ Resist(e, next, total, total, forked)
  BY <1>2, <1>3
<1>5. tier' = (IF tier = Normal THEN Normal ELSE tier - 1) /\ tier' < Throttle
  <2>1. next = IF tier = Normal THEN Normal ELSE tier - 1
    BY <1>1, <1>3, CalmClassIs
  <2> QED  BY <1>1, <1>4, <2>1 DEF Tiers, Normal, Throttle
<1>6. Slowed(brake)' = {}
  <2>1. brake \in Brakes /\ Remembered(brake)
    BY DEF Inv, GuardTypeOK, BrakesAreRemembered, Remembered
  <2>2. tier' # Throttle
    BY <1>5 DEF Throttle
  <2>3. \/ brake' = brake /\ Slowed(brake) = {}
        \/ brake' = Released(brake)
    BY <2>2, EvaluateFacts
  <2>4. Slowed(brake') = {}
    BY <2>1, <2>3, ReleasedFacts
  <2> QED  BY <2>4 DEF Slowed
<1>7. e \in Expander /\ Sound(e) /\ grown \in Expander /\ Sound(grown)
  BY <1>1, PolledMoves, GrownMoves DEF Moves
<1>8. /\ \A j \in Index : \/ e.files[j] = swap.files[j]
                          \/ /\ j = swap.pending /\ swap.files[j] # "building"
                             /\ e.files[j] \in {"absent", "on"}
      /\ swap.tracked # <<>> => e.tracked # <<>>
  BY <1>1, PolledIs
<1>9. /\ grown = e \/ grown.pending # None
      /\ ~ShouldExpand(total, total) => grown = e
  BY <1>7, GrownIs
<1> DEFINE first == IF profile = "performance" THEN grown ELSE e
<1>10. \/ tier' = Normal /\ swap' = Trimmed(first, total, total, forked)
       \/ tier' # Normal /\ swap' \in {e, grown}
  <2>1. CASE Relax(e, next, total, total, forked)
    BY <1>4, <2>1 DEF Relax
  <2>2. CASE Advise(e, next, total, total, forked)
    BY <1>4, <2>2 DEF Advise, Advisory, Normal
  <2>3. CASE Resist(e, next, total, total, forked)
    BY <1>4, <2>3 DEF Resist, Throttle, Normal
  <2> HIDE DEF next, grown, first
  <2> QED  BY <1>4, <2>1, <2>2, <2>3
<1>11. first \in {e, grown} /\ first \in Expander /\ Sound(first)
  BY <1>7
<1> HIDE DEF next, grown, first
<1>12. ASSUME Base * 4 >= 3 * Increment
       PROVE  FilesIn(swap', {"building"}) \subseteq FilesIn(swap, {"building"})
  <2>1. grown = e
    BY <1>3, <1>9, <1>12, FreeIs
  <2>2. FilesIn(swap', {"building"}) = FilesIn(e, {"building"})
    BY <1>10, <1>11, <2>1, TrimmedLeaves
  <2>3. FilesIn(e, {"building"}) \subseteq FilesIn(swap, {"building"})
    BY <1>8 DEF FilesIn
  <2> QED  BY <2>2, <2>3
<1>13. ASSUME tier' = Normal, swap'.pending = None, swap.tracked # <<>>, FALSE \notin ForkOutcomes
       PROVE  ~(FilesIn(swap', {"leaving"}) \subseteq FilesIn(swap, {"leaving"}))
  <2>1. swap' = Trimmed(first, total, total, forked)
    BY <1>10, <1>13
  <2>2. first.pending = None /\ first = e
    BY <1>9, <1>11, <1>13, <2>1, TrimmedLeaves
  <2>3. forked = TRUE
    BY <1>13, ForkAssumption
  <2>4. SafeToRelease(total, total)
    <3>1. swap.tracked \in Seq(Index)
      BY <1>1, ExpanderIs
    <3>2. swap.tracked[1] \in ToSet(swap.tracked)
      BY <1>13, <3>1 DEF ToSet
    <3>3. Base + Increment <= total
      BY <1>1, <1>3, <3>2 DEF Sound
    <3>4. Increment < total
      BY <1>3, <3>3, SizesAssumption
    <3> QED  BY <1>3, <3>4, FreeIs
  <2>5. PICK i \in Index : e.files[i] = "on" /\ swap'.files[i] = "leaving"
    <3>1. e.tracked # <<>> /\ e.pending = None /\ swap' = Trimmed(e, total, total, forked)
      BY <1>8, <1>13, <2>1, <2>2
    <3> QED  BY <1>7, <2>3, <2>4, <3>1, TrimmedGives
  <2>6. swap.files[i] # "leaving"
    <3>1. CASE e.files[i] = swap.files[i]
      BY <2>5, <3>1
    <3>2. CASE i = swap.pending
      <4>1. swap.files[i] \in Pending
        BY <1>1, <3>2 DEF Sound, Index, None
      <4> QED  BY <4>1 DEF Pending
    <3> QED  BY <1>8, <3>1, <3>2
  <2> QED  BY <2>5, <2>6 DEF FilesIn
<1> QED  BY <1>5, <1>6, <1>12, <1>13 DEF FilesIn

(* The way back from any pressure: with memory calm and the swap empty each  *)
(* evaluation goes a tier down, slows nobody, builds nothing and, at Normal, *)
(* lets go of a file, whatever the profile (classify, maybe_release).        *)
THEOREM CalmIsAWayBack == Spec => CalmGivesBack
<1> DEFINE A == Evaluate /\ ext = "calm" /\ used = 0 =>
                  /\ tier' = IF tier = Normal THEN Normal ELSE tier - 1
                  /\ Slowed(brake)' = {}
                  /\ Base * 4 >= 3 * Increment =>
                       FilesIn(swap, {"building"})' \subseteq FilesIn(swap, {"building"})
                  /\ tier' = Normal /\ swap'.pending = None /\ swap.tracked # <<>> /\ FALSE \notin ForkOutcomes =>
                       ~(FilesIn(swap, {"leaving"})' \subseteq FilesIn(swap, {"leaving"}))
<1>1. Inv /\ SwapInv /\ [Next]_vars => [A]_vars
  BY CalmStep
<1>2. Spec => [][A]_vars
  BY <1>1, InvHolds, SwapInvHolds, PTL DEF Spec
<1> QED  BY <1>2 DEF CalmGivesBack
=============================================================================
