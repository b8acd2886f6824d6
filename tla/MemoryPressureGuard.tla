------------------------ MODULE MemoryPressureGuard ------------------------
(***************************************************************************)
(* The ladder the daemon climbs before the kernel kills: a tier classified *)
(* from memory, swap and stall time; in Performance more swap, and a CPU   *)
(* brake on the largest processes when no more can be added; in the other  *)
(* profiles the brake at once.  The brake is kernel state - the quota of a *)
(* control group, the scheduling class of a process - that outlives both   *)
(* the process it was put on for and the daemon.                           *)
(***************************************************************************)
EXTENDS SwapExpander

CONSTANTS
  Procs,          \* processes that may be large enough to brake
  Group,          \* the control group of each
  MaxThrottled    \* MAX_THROTTLED (16)

ASSUME ThrottledAssumption == MaxThrottled \in Nat \ {0}
ASSUME ProcsAssumption == IsFiniteSet(Procs) /\ {Group[p] : p \in Procs} \cap Procs = {}

Normal == 0
Advisory == 1
Throttle == 2
Tiers == Normal..Throttle

Groups == {Group[p] : p \in Procs}
Knobs == {"quota", "idle"}

VARIABLES
  up,         \* the daemon process exists
  tier,       \* m_tier
  profile,    \* the effective profile: "performance" or another
  ext,        \* MemAvailable and PSI: inside the release band, between, advisory, throttle
  alive,      \* processes that exist
  brake       \* m_throttled, and what it did to the kernel

guardVars == <<up, tier, profile, ext, alive, brake>>
vars == <<swap, used, roomy, guardVars>>

(* slowed is m_throttled: the knobs applied to each process in it.  capped   *)
(* and idled are the kernel's.  lost (a history) holds the control groups    *)
(* and processes whose brake nobody will lift any more.                      *)
Brakes == [slowed: [Procs -> SUBSET Knobs], capped: SUBSET Groups,
           idled: SUBSET Procs, lost: SUBSET (Groups \cup Procs)]

Slowed(b) == {p \in Procs : b.slowed[p] # {}}
With(b, knob) == {p \in Procs : knob \in b.slowed[p]}
GroupsOf(S) == {Group[p] : p \in S}

GuardTypeOK ==
  /\ up \in BOOLEAN
  /\ tier \in Tiers
  /\ profile \in {"performance", "other"}
  /\ ext \in {"calm", "between", "high", "dire"}
  /\ alive \subseteq Procs
  /\ brake \in Brakes
  /\ Cardinality(Slowed(brake)) <= MaxThrottled

TypeOK == SwapTypeOK /\ GuardTypeOK

-----------------------------------------------------------------------------
(* classify: escalation is immediate, de-escalation one tier at a time and  *)
(* only from inside the release band.                                       *)
RawTier(total, free) ==
  IF (total # 0 /\ free * 100 < total * 12) \/ ext = "dire" THEN Throttle
  ELSE IF (total # 0 /\ free * 100 < total * 30) \/ ext = "high" THEN Advisory
  ELSE Normal

Relieved(total, free) == (total = 0 \/ free * 100 > total * 45) /\ ext = "calm"

Classify(total, free) ==
  IF RawTier(total, free) >= tier THEN RawTier(total, free)
  ELSE IF Relieved(total, free) THEN tier - 1
  ELSE tier

(* actuate_throttle on the eligible processes the report names; either knob  *)
(* may be refused, and a process with neither is not recorded.               *)
Hits ==
  {hit \in [Procs -> SUBSET Knobs] :
     /\ \A p \in Procs : hit[p] # {} => p \in alive /\ brake.slowed[p] = {}
     /\ Cardinality(Slowed(brake)) + Cardinality({p \in Procs : hit[p] # {}}) <= MaxThrottled}

Braked(b, hit) ==
  LET hitWith(knob) == {p \in Procs : knob \in hit[p]} IN
  [slowed |-> [p \in Procs |-> b.slowed[p] \cup hit[p]],
   capped |-> b.capped \cup GroupsOf(hitWith("quota")),
   idled |-> b.idled \cup hitWith("idle"),
   lost |-> b.lost \ (GroupsOf(hitWith("quota")) \cup hitWith("idle"))]

(* release_all: the quota is lifted through the process's own cgroup file,   *)
(* which a process that has exited no longer has.                            *)
ReleasedQuotaOnly(b) ==
  LET lifted == GroupsOf(With(b, "quota") \cap alive) IN
  [slowed |-> [p \in Procs |-> {}],
   capped |-> b.capped \ lifted,
   idled |-> b.idled,
   lost |-> (b.lost \cup GroupsOf(With(b, "quota"))) \ lifted]

Released(b) ==
  LET lifted == GroupsOf(With(b, "quota") \cap alive) IN
  [slowed |-> [p \in Procs |-> {}],
   capped |-> b.capped \ lifted,
   idled |-> b.idled \ With(b, "idle"),
   lost |-> (b.lost \cup GroupsOf(With(b, "quota"))) \ lifted]

Forgotten(b) ==
  [b EXCEPT !.slowed = [p \in Procs |-> {}],
            !.lost = @ \cup b.capped \cup b.idled]

-----------------------------------------------------------------------------
(* evaluate_and_actuate, on the tick and on a PSI wake.  The sample is taken *)
(* before poll_pending swaps a finished file on.                             *)

(* throttle_permitted *)
BrakePermittedIfIdle(growing, exhausted) == profile # "performance" \/ ~growing
BrakePermitted(growing, exhausted) == profile # "performance" \/ (~growing /\ exhausted)

(* At Normal both profiles release and trim; only Performance grows first. *)
Relax(e, next, total, free, forked) ==
  LET first == IF profile = "performance" THEN Grown(e, total, free, forked) ELSE e IN
  /\ next = Normal
  /\ swap' = Trimmed(first, total, free, forked)
  /\ brake' = IF tier = Normal THEN brake ELSE Released(brake)

AdviseOnly(e, next, total, free, forked) ==
  /\ next = Advisory
  /\ swap' = IF profile = "performance" THEN Grown(e, total, free, forked) ELSE e
  /\ brake' = brake

Advise(e, next, total, free, forked) ==
  /\ next = Advisory
  /\ swap' = IF profile = "performance" THEN Grown(e, total, free, forked) ELSE e
  /\ brake' = IF profile = "performance" \/ tier = Throttle THEN Released(brake) ELSE brake

Resist(e, next, total, free, forked) ==
  LET grown == Grown(e, total, free, forked) IN
  /\ next = Throttle
  /\ swap' = grown
  /\ IF BrakePermitted(grown.pending # None, BudgetExhausted(grown))
     THEN \E hit \in Hits : brake' = Braked(brake, hit)
     ELSE brake' = Released(brake)

Evaluate ==
  /\ up
  /\ \E e \in Polled(swap), total \in SeenTotals, forked \in ForkOutcomes :
       LET free == Max({total - used, 0})
           next == Classify(total, free)
       IN  /\ tier' = next
           /\ \/ Relax(e, next, total, free, forked)
              \/ Advise(e, next, total, free, forked)
              \/ Resist(e, next, total, free, forked)
  /\ UNCHANGED <<used, roomy, up, profile, ext, alive>>

-----------------------------------------------------------------------------
(* The daemon's life, and the machine around it. *)

Start ==
  /\ ~up
  /\ up' = TRUE
  /\ swap' = Adopted(swap)
  /\ UNCHANGED <<used, roomy, tier, profile, ext, alive, brake>>

(* shutdown: the brake is released, the swap files are left as they are. *)
Stop ==
  /\ up
  /\ up' = FALSE
  /\ tier' = Normal
  /\ swap' = Orphaned(swap)
  /\ brake' = Released(brake)
  /\ UNCHANGED <<used, roomy, profile, ext, alive>>

Crash ==
  /\ up
  /\ up' = FALSE
  /\ tier' = Normal
  /\ swap' = Orphaned(swap)
  /\ brake' = Forgotten(brake)
  /\ UNCHANGED <<used, roomy, profile, ext, alive>>

Reboot ==
  /\ up
  /\ up' = FALSE
  /\ tier' = Normal
  /\ swap' = Rebooted(swap)
  /\ used' = 0
  /\ alive' = {}
  /\ brake' = [slowed |-> [p \in Procs |-> {}], capped |-> {}, idled |-> {}, lost |-> {}]
  /\ UNCHANGED <<roomy, profile, ext>>

(* While no daemon looks, the machine's changes are left to the time after  *)
(* the next start.                                                          *)
Exit(p) ==
  /\ up
  /\ p \in alive
  /\ alive' = alive \ {p}
  /\ brake' = [brake EXCEPT !.idled = @ \ {p}, !.lost = @ \ {p}]
  /\ UNCHANGED <<swap, used, roomy, up, tier, profile, ext>>

(* A new process with a new pid: one still in m_throttled is not reused. *)
Spawn(p) ==
  /\ up
  /\ p \notin alive
  /\ brake.slowed[p] = {}
  /\ alive' = alive \cup {p}
  /\ UNCHANGED <<swap, used, roomy, up, tier, profile, ext, brake>>

PressureChanges ==
  /\ up
  /\ ext' \in {"calm", "between", "high", "dire"}
  /\ UNCHANGED <<swap, used, roomy, up, tier, profile, alive, brake>>

ProfileChanges ==
  /\ up
  /\ profile' \in {"performance", "other"}
  /\ UNCHANGED <<swap, used, roomy, up, tier, ext, alive, brake>>

Child == up /\ ChildStep /\ UNCHANGED guardVars
Usage == up /\ SwapIsUsed /\ UNCHANGED guardVars
Disk == up /\ DiskFills /\ UNCHANGED guardVars

Init ==
  /\ SwapInit
  /\ up = FALSE
  /\ tier = Normal
  /\ profile = "other"
  /\ ext = "calm"
  /\ alive = Procs
  /\ brake = [slowed |-> [p \in Procs |-> {}], capped |-> {}, idled |-> {}, lost |-> {}]

Next ==
  \/ Evaluate
  \/ Child
  \/ Start
  \/ Stop
  \/ Crash
  \/ Reboot
  \/ \E p \in Procs : Exit(p) \/ Spawn(p)
  \/ Usage
  \/ Disk
  \/ PressureChanges
  \/ ProfileChanges

(* The tick keeps coming, and a child that runs ends. *)
Spec == Init /\ [][Next]_vars /\ WF_vars(Evaluate) /\ WF_vars(Child)

-----------------------------------------------------------------------------
(* Properties. *)

(* REQ-112: no process is held back outside the Throttle tier, whichever    *)
(* profile put the brake on and whichever took it off.                      *)
BrakeOnlyUnderThrottle == up /\ Slowed(brake) # {} => tier = Throttle

(* Every quota and scheduling class the guard left on the kernel is one it  *)
(* will lift, except those whose process exited before the release or that  *)
(* the daemon's crash made it forget.                                       *)
BrakesAreRemembered ==
  /\ brake.capped \subseteq GroupsOf(With(brake, "quota")) \cup brake.lost
  /\ brake.idled \subseteq With(brake, "idle") \cup brake.lost

(* The daemon's record and the disk agree through failed children, crashes  *)
(* and restarts: it tracks exactly the files that are swapped on, each once *)
(* (a file whose swapoff() failed after it was given up is the exception,   *)
(* until the next start adopts it again); a file under construction is the  *)
(* pending one; and a start leaves no file nobody works on.                 *)
RecordMatchesDisk ==
  up =>
    /\ ToSet(swap.tracked) = FilesIn(swap, {"on"})
    /\ Cardinality(ToSet(swap.tracked)) = Len(swap.tracked)
    /\ FilesIn(swap, Pending) \subseteq {swap.pending}
    /\ FilesIn(swap, {"stray"}) = {}

(* REQ-113.8: in Performance a process is slowed only when no capacity is   *)
(* being added and none can be.                                             *)
PerformanceBrakesLast ==
  [][up /\ profile = "performance" /\ ~(Slowed(brake)' \subseteq Slowed(brake)) =>
       swap'.pending = None /\ BudgetExhausted(swap')]_vars

(* The step CapacityReturns rests on: an evaluation that finds memory calm   *)
(* and the swap empty goes one tier down, slows nobody, has nothing new      *)
(* built - unless the base swap is so small (6 of the 8 GiB of an increment) *)
(* that it never looks free enough - and at Normal gives a file back.        *)
CalmGivesBack ==
  [][Evaluate /\ ext = "calm" /\ used = 0 =>
       /\ tier' = IF tier = Normal THEN Normal ELSE tier - 1
       /\ Slowed(brake)' = {}
       /\ Base * 4 >= 3 * Increment =>
            FilesIn(swap, {"building"})' \subseteq FilesIn(swap, {"building"})
       /\ tier' = Normal /\ swap'.pending = None /\ swap.tracked # <<>> /\ FALSE \notin ForkOutcomes =>
            ~(FilesIn(swap, {"leaving"})' \subseteq FilesIn(swap, {"leaving"}))]_vars

(* Once memory is calm for good and the swap empty, the brake is lifted and *)
(* every file the daemon still knows is given back.                         *)
CapacityReturns ==
  <>[](up /\ ext = "calm" /\ used = 0) =>
    <>[](Slowed(brake) = {} /\ swap.tracked = <<>>)

(* budget_exhausted: no further capacity can be added, so the guard may     *)
(* brake, when every file that may exist is swapped on.                     *)
CeilingIsKnown ==
  up /\ swap.pending = None /\ FilesIn(swap, {"on", "leaked"}) = Index => BudgetExhausted(swap)

(* A release lifts the quota from the control group of every process it     *)
(* releases.                                                                *)
ReleaseLiftsCaps ==
  [][up /\ up' /\ Slowed(brake) # {} /\ Slowed(brake)' = {} =>
       GroupsOf(With(brake, "quota")) \cap brake'.capped = {}]_vars
=============================================================================
