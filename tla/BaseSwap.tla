------------------------------ MODULE BaseSwap ------------------------------
(***************************************************************************)
(* /swap/swapfile and its two writers.                                     *)
(*                                                                         *)
(* The right-sizing migration replaces a large base file by a small one:   *)
(* after two quiet hours a child makes the new file, the daemon activates  *)
(* it, a second child drains the old one, and the daemon renames.  The     *)
(* hygiene engine empties the same file by deactivating and activating it. *)
(* Both run in one evaluation of the memory guard, the children beside it. *)
(* A kill loses the state of the migration, a reboot activates what is     *)
(* found under the name of the base file.                                  *)
(***************************************************************************)
EXTENDS Naturals, FiniteSets

CONSTANTS
  BaseWait,     \* SWAP_EVAL_COOLDOWN_BASE_SEC, in ticks of the model's clock
  MaxWait,      \* MAX_COOLDOWN_BACKOFF_SEC
  KeeperKills   \* bound on SIGKILLs

ASSUME WaitAssumption ==
  /\ BaseWait \in Nat \ {0} /\ MaxWait \in Nat /\ BaseWait <= MaxWait
  /\ KeeperKills \in Nat

VARIABLES
  keeperUp,   \* the daemon process exists
  base,       \* /swap/swapfile: size, and whether it is active
  new,        \* /swap/swapfile.new
  hidden,     \* an area without a name is active
  phase,      \* m_base_migration_state
  child,      \* the child of m_base_child_pid
  window,     \* the observation window of low swap use
  hygiene,    \* MemoryHygieneEngine: quench, wait and age of the last attempt
  excused,    \* the base may be missing: see SwapIsThere (a history)
  lost        \* SIGKILLs so far

swapVars == <<keeperUp, base, new, hidden, phase, child, window, hygiene, excused, lost>>

Phases == {"Idle", "CreatingNew", "SwappingOffOld"}
Children == {"none", "running", "done", "failed"}

NoFile == [size |-> "none", on |-> FALSE]
FreshHygiene == [quench |-> FALSE, wait |-> BaseWait, age |-> MaxWait]

SwapTypeOK ==
  /\ {keeperUp, hidden, excused} \subseteq BOOLEAN
  /\ {base, new} \subseteq [size: {"none", "small", "large"}, on: BOOLEAN]
  /\ phase \in Phases
  /\ child \in Children
  /\ phase = "Idle" /\ keeperUp => child = "none"
  /\ window \in {"unset", "open", "passed"}
  /\ hygiene \in [quench: BOOLEAN, wait: BaseWait..MaxWait, age: 0..MaxWait]
  /\ lost \in 0..KeeperKills

(* What the kernel answers to the calls of one evaluation, the migration's   *)
(* and the deswap's: one answer is enough where it is not asked.             *)
Migration ==
  {a \in [swapon: BOOLEAN, drain: BOOLEAN, fork: BOOLEAN, rename: BOOLEAN] :
     child \in {"done", "failed"} \/ (a.swapon /\ a.drain /\ a.rename)}
Deswap ==
  {b \in [swapon: BOOLEAN, drain: BOOLEAN] :
     (hygiene.age >= hygiene.wait /\ ~hygiene.quench) \/ (b.swapon /\ b.drain)}

State == [base |-> base, new |-> new, hidden |-> hidden, phase |-> phase, child |-> child,
          window |-> window, hygiene |-> hygiene, excused |-> excused]

SetState(s) ==
  /\ base' = s.base /\ new' = s.new /\ hidden' = s.hidden
  /\ phase' = s.phase /\ child' = s.child
  /\ window' = s.window
  /\ hygiene' = s.hygiene
  /\ excused' = s.excused

-----------------------------------------------------------------------------
(* poll_base_migration.                                                      *)

(* An active area that loses its name stays active.                          *)
UnlinkNew(s) == [s EXCEPT !.new = NoFile, !.hidden = @ \/ s.new.on]

Abort(s) == [UnlinkNew(s) EXCEPT !.phase = "Idle", !.child = "none"]

(* swapoff of the new file, whose result is ignored.                         *)
SwapoffNew(s, a) == [s EXCEPT !.new.on = @ /\ ~a.drain]

PollCreatingUnchecked(s, a) ==
  LET active == [s EXCEPT !.new.on = a.swapon] IN
  CASE s.child = "failed" -> Abort(s)
    [] s.child = "done" /\ ~a.fork -> Abort(SwapoffNew(active, a))
    [] OTHER -> [active EXCEPT !.phase = "SwappingOffOld", !.child = "running"]
PollCreating(s, a) ==
  LET active == [s EXCEPT !.new.on = TRUE] IN
  CASE s.child = "failed" \/ ~a.swapon -> Abort(s)
    [] s.child = "done" /\ a.swapon /\ ~a.fork -> Abort(SwapoffNew(active, a))
    [] OTHER -> [active EXCEPT !.phase = "SwappingOffOld", !.child = "running"]

(* unlink of the old file, rename of the new one.                            *)
UnlinkOld(s) == [s EXCEPT !.base = NoFile, !.hidden = @ \/ s.base.on]
RenameNew(s) == [s EXCEPT !.base = s.new, !.new = NoFile, !.window = "unset"]

Replace(s, a) ==
  LET unlinked == [UnlinkOld(s) EXCEPT !.phase = "Idle", !.child = "none"]
  IN IF a.rename THEN RenameNew(unlinked) ELSE [unlinked EXCEPT !.excused = TRUE]

PollSwappingOff(s, a) ==
  IF s.child = "failed" THEN Abort(SwapoffNew(s, a)) ELSE Replace(s, a)

Poll(s, a) ==
  CASE s.phase = "Idle" \/ s.child \in {"none", "running"} -> s
    [] s.phase = "CreatingNew" /\ s.child \in {"done", "failed"} -> PollCreating(s, a)
    [] s.phase = "SwappingOffOld" /\ s.child \in {"done", "failed"} -> PollSwappingOff(s, a)

-----------------------------------------------------------------------------
(* evaluate_base_right_sizing, under the Normal tier.  used is how much swap *)
(* is in use: "none", "some" up to 70 percent of the new size, or "much".    *)
(* The day of rest after a migration is left out: the small file that it     *)
(* leaves is below the size that makes a base eligible.                      *)

Eligible(s, room) == s.window = "passed" /\ s.base.size = "large" /\ room

RightSize(s, used, room, a) ==
  CASE s.phase # "Idle" -> s
    [] s.phase = "Idle" /\ (used = "much" \/ s.window = "unset") -> [s EXCEPT !.window = "open"]
    [] s.phase = "Idle" /\ used # "much" /\ Eligible(s, room) /\ s.base.on ->
         LET cleared == UnlinkNew(s) IN
         IF a.fork THEN [cleared EXCEPT !.phase = "CreatingNew", !.child = "running"] ELSE cleared
    [] OTHER -> s

-----------------------------------------------------------------------------
(* The deswap of the hygiene engine: chosen on mains, when the machine is    *)
(* idle, 2 GiB are swapped out and free RAM has the double margin.           *)

Backoff(wait) == IF 2 * wait > MaxWait THEN MaxWait ELSE 2 * wait

(* Once drained, the base is asked back with swapon(..., -1): no flag Linux  *)
(* knows, and the answer is not looked at.  Both answers are explored; a     *)
(* refusal excuses the base from being on.                                   *)
SafeDeswap(s, a) ==
  IF s.base.on /\ a.drain
  THEN [s EXCEPT !.base.on = a.swapon, !.excused = @ \/ ~a.swapon,
                 !.hygiene.quench = TRUE, !.hygiene.age = 0]
  ELSE [s EXCEPT !.hygiene.wait = Backoff(@), !.hygiene.age = 0]

Hygiene(s, chosen, a) ==
  IF chosen /\ ~s.hygiene.quench /\ s.hygiene.age >= s.hygiene.wait THEN SafeDeswap(s, a) ELSE s

-----------------------------------------------------------------------------
(* The daemon.  In Performance the hygiene engine is not reached, and under  *)
(* pressure no migration begins; "idle" stands for the hygiene conditions.   *)

EvaluateSwap(normal, idle, used, room, a, b) ==
  LET polled == Poll(State, a)
      sized == IF normal THEN RightSize(polled, used, room, a) ELSE polled
  IN Hygiene(sized, idle /\ used # "none", b)

GuardSwap ==
  /\ keeperUp
  /\ \E normal, idle, room \in BOOLEAN, used \in {"none", "some", "much"}, a \in Migration, b \in Deswap :
       SetState(EvaluateSwap(normal, idle, used, room, a, b))
  /\ UNCHANGED <<keeperUp, lost>>

(* The children, on their own.  mkswap may fail and leave its file behind;   *)
(* a swapoff fails when the area is not active or its pages have no room.    *)
ChildCreates ==
  /\ phase = "CreatingNew" /\ child = "running"
  /\ \/ child' = "done" /\ new' = [size |-> "small", on |-> FALSE]
     \/ child' = "failed" /\ new' \in {NoFile, [size |-> "small", on |-> FALSE]}
  /\ UNCHANGED <<keeperUp, base, hidden, phase, window, hygiene, excused, lost>>

ChildDrainsOld ==
  /\ phase = "SwappingOffOld" /\ child = "running"
  /\ \/ base.on /\ child' = "done" /\ base' = [base EXCEPT !.on = FALSE]
     \/ child' = "failed" /\ UNCHANGED base
  /\ UNCHANGED <<keeperUp, new, hidden, phase, window, hygiene, excused, lost>>

Forget(s) ==
  [s EXCEPT !.phase = "Idle", !.child = "none", !.window = "unset", !.hygiene = FreshHygiene]

KeeperStarts ==
  /\ ~keeperUp
  /\ keeperUp' = TRUE
  /\ SetState(Forget(State))
  /\ UNCHANGED lost

(* Stopped between two evaluations.                                          *)
KeeperStops ==
  /\ keeperUp
  /\ keeperUp' = FALSE
  /\ SetState([Forget(State) EXCEPT !.excused = @ \/ phase # "Idle"])
  /\ UNCHANGED lost

(* Killed there, between the unlink and the rename, or between the two       *)
(* halves of a deswap.                                                       *)
Halves ==
  {State}
    \cup {UnlinkOld(s) : s \in {s \in {State} : s.phase = "SwappingOffOld" /\ s.child = "done"}}
    \cup {[s EXCEPT !.base.on = FALSE] : s \in {s \in {State} : s.base.on}}

KeeperKilled ==
  /\ keeperUp
  /\ lost < KeeperKills
  /\ lost' = lost + 1
  /\ keeperUp' = FALSE
  /\ \E s \in Halves : SetState([Forget(s) EXCEPT !.excused = @ \/ phase # "Idle" \/ s # State])

-----------------------------------------------------------------------------
(* The rest of the world.                                                    *)

ClockTicks ==
  /\ hygiene.age < MaxWait \/ window = "open" \/ hygiene.quench
  /\ window' = IF window = "open" THEN "passed" ELSE window
  /\ hygiene' = [hygiene EXCEPT !.age = IF @ < MaxWait THEN @ + 1 ELSE @,
                                !.quench = @ /\ hygiene.age < 2]
  /\ UNCHANGED <<keeperUp, base, new, hidden, phase, child, excused, lost>>

RebootSwap ==
  /\ ~keeperUp
  /\ base' = [base EXCEPT !.on = base.size # "none"]
  /\ new' = [new EXCEPT !.on = FALSE]
  /\ hidden' = FALSE
  /\ excused' = (base.size = "none")
  /\ UNCHANGED <<keeperUp, phase, child, window, hygiene, lost>>

BaseInit ==
  /\ keeperUp = FALSE
  /\ base = [size |-> "large", on |-> TRUE]
  /\ new = NoFile
  /\ hidden = FALSE
  /\ phase = "Idle" /\ child = "none"
  /\ window = "unset"
  /\ hygiene = FreshHygiene
  /\ excused = FALSE
  /\ lost = 0

BaseNext ==
  \/ GuardSwap \/ ChildCreates \/ ChildDrainsOld \/ KeeperStarts \/ KeeperStops \/ KeeperKilled
  \/ ClockTicks \/ RebootSwap

BaseSpec == BaseInit /\ [][BaseNext]_swapVars

-----------------------------------------------------------------------------
(* Properties.                                                               *)

(* REF-REQ-138.4, 138.5: "The host must never transition through a swapless  *)
(* state", and between migrations /swap/swapfile is there and active, with   *)
(* the hygiene engine deswapping the same file in any phase and every step   *)
(* of the migration failing.  Excused are a refused rename, a refused        *)
(* activation after a deswap, and a daemon that ended in the middle.         *)
SwapIsThere ==
  ~excused =>
    /\ base.on \/ new.on
    /\ phase = "Idle" => base.on /\ base.size # "none"

=============================================================================
