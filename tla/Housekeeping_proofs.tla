------------------------- MODULE Housekeeping_proofs -------------------------
(***************************************************************************)
(* Proofs about the smaller components: the base swap, the disk pressure   *)
(* guard, the memory relief and the clients, each for every value of its   *)
(* constants; and about the composition of all six components of           *)
(* MCHousekeeping, whose ledger and ring have proof modules of their own.  *)
(***************************************************************************)
EXTENDS MCHousekeeping, MitigationLedger_proofs, HistoryRing_proofs, SequenceTheorems,
        FiniteSetTheorems, TLAPS

-----------------------------------------------------------------------------
(* The base swap, for every cooldown and any number of kills.  The invariant *)
(* is a statement about the record State that the operators of one           *)
(* evaluation pass on, so that each of them is shown to keep it, in any      *)
(* order and under any answer of the kernel; the steps of the children and   *)
(* the ends of the daemon are then short.                                    *)

FileRecords == [size: {"none", "small", "large"}, on: BOOLEAN]
HygieneRecords == [quench: BOOLEAN, wait: BaseWait..MaxWait, age: 0..MaxWait]
BaseStates ==
  [base: FileRecords, new: FileRecords, hidden: BOOLEAN, phase: Phases, child: Children,
   window: {"unset", "open", "passed"}, hygiene: HygieneRecords, excused: BOOLEAN]
Answers == [swapon: BOOLEAN, drain: BOOLEAN, fork: BOOLEAN, rename: BOOLEAN]
DeswapAnswers == [swapon: BOOLEAN, drain: BOOLEAN]

(* The base is a file, and swapped on.                                       *)
BaseIsOn(s) == s.base.on /\ s.base.size # "none"

(* While the old file is drained the new one is already on; the old one goes *)
(* off only by the child that drained it.                                    *)
HandOver(s) ==
  /\ s.new.on /\ s.new.size # "none"
  /\ s.child # "done" => BaseIsOn(s)

(* What a child that reported success has made is there to be activated.     *)
ChildMadeNew(s) == s.phase = "CreatingNew" /\ s.child = "done" => s.new.size # "none"

StateInv(s) ==
  /\ s.phase = "Idle" => s.child = "none"
  /\ ChildMadeNew(s)
  /\ ~s.excused =>
       IF s.phase = "SwappingOffOld" THEN HandOver(s) ELSE BaseIsOn(s)

(* A daemon that is down works on no migration.                              *)
DownIsIdle == ~keeperUp => phase = "Idle"

BaseInv ==
  /\ keeperUp \in BOOLEAN /\ lost \in 0..KeeperKills
  /\ State \in BaseStates
  /\ StateInv(State)
  /\ DownIsIdle

-----------------------------------------------------------------------------
(* The operators of one evaluation.                                          *)

LEMMA FilesAreRecords ==
  ASSUME NEW s \in BaseStates
  PROVE  /\ s.base \in FileRecords /\ s.new \in FileRecords /\ s.hidden \in BOOLEAN
         /\ s.phase \in Phases /\ s.child \in Children
         /\ s.window \in {"unset", "open", "passed"}
         /\ s.hygiene \in HygieneRecords /\ s.excused \in BOOLEAN
         /\ s.base.on \in BOOLEAN /\ s.new.on \in BOOLEAN
BY DEF BaseStates, FileRecords

(* Giving the new file up leaves the base as it is.                          *)
LEMMA AbortKeeps ==
  ASSUME NEW s \in BaseStates, s.excused \/ BaseIsOn(s)
  PROVE  Abort(s) \in BaseStates /\ StateInv(Abort(s))
<1>1. NoFile \in FileRecords
  BY DEF NoFile, FileRecords
<1>2. (s.hidden \/ s.new.on) \in BOOLEAN
  BY FilesAreRecords
<1>3. /\ UnlinkNew(s) \in BaseStates
      /\ UnlinkNew(s).base = s.base /\ UnlinkNew(s).excused = s.excused
  BY <1>1, <1>2 DEF UnlinkNew, BaseStates
<1> DEFINE u == UnlinkNew(s)
<1> HIDE DEF u
<1>4. /\ [u EXCEPT !.phase = "Idle", !.child = "none"] \in BaseStates
      /\ StateInv([u EXCEPT !.phase = "Idle", !.child = "none"])
  BY <1>3 DEF u, BaseStates, Phases, Children, StateInv, ChildMadeNew, BaseIsOn
<1> QED  BY <1>4 DEF Abort, u

LEMMA SwapoffNewFacts ==
  ASSUME NEW s \in BaseStates, NEW a \in Answers
  PROVE  /\ SwapoffNew(s, a) \in BaseStates
         /\ SwapoffNew(s, a).base = s.base /\ SwapoffNew(s, a).excused = s.excused
BY DEF SwapoffNew, BaseStates, FileRecords, Answers

LEMMA PollKeeps ==
  ASSUME NEW s \in BaseStates, NEW a \in Answers, StateInv(s)
  PROVE  Poll(s, a) \in BaseStates /\ StateInv(Poll(s, a))
<1>1. CASE s.phase = "Idle" \/ s.child \in {"none", "running"}
  BY <1>1 DEF Poll
<1>2. CASE s.phase = "CreatingNew" /\ s.child \in {"done", "failed"}
  <2>1. Poll(s, a) = PollCreating(s, a)
    BY <1>2 DEF Poll
  <2>2. s.excused \/ BaseIsOn(s)
    BY <1>2 DEF StateInv
  <2> DEFINE active == [s EXCEPT !.new.on = TRUE]
  <2>3. /\ active \in BaseStates
        /\ active.base = s.base /\ active.excused = s.excused
        /\ active.new.on /\ active.new.size = s.new.size
    BY DEF BaseStates, FileRecords
  <2> HIDE DEF active
  <2>4. CASE s.child = "failed" \/ ~a.swapon
    BY <1>2, <2>1, <2>2, <2>4, AbortKeeps DEF PollCreating
  <2>5. CASE s.child = "done" /\ a.swapon /\ ~a.fork
    <3>1. PollCreating(s, a) = Abort(SwapoffNew(active, a))
      BY <2>5 DEF PollCreating, active
    <3>2. SwapoffNew(active, a).excused \/ BaseIsOn(SwapoffNew(active, a))
      BY <2>2, <2>3, SwapoffNewFacts DEF BaseIsOn
    <3> QED  BY <2>1, <2>3, <3>1, <3>2, SwapoffNewFacts, AbortKeeps
  <2>6. CASE s.child = "done" /\ a.swapon /\ a.fork
    <3>1. PollCreating(s, a) = [active EXCEPT !.phase = "SwappingOffOld", !.child = "running"]
      BY <2>6 DEF PollCreating, active
    <3>2. active.new.size # "none"
      BY <1>2, <2>3, <2>6 DEF StateInv, ChildMadeNew
    <3> DEFINE next == [active EXCEPT !.phase = "SwappingOffOld", !.child = "running"]
    <3>3. /\ next \in BaseStates
          /\ next.base = s.base /\ next.excused = s.excused /\ next.new = active.new
          /\ next.phase = "SwappingOffOld" /\ next.child = "running"
      BY <2>3 DEF BaseStates, Phases, Children
    <3> HIDE DEF next
    <3>4. StateInv(next)
      BY <2>2, <2>3, <3>2, <3>3 DEF StateInv, ChildMadeNew, HandOver, BaseIsOn
    <3> QED  BY <2>1, <3>1, <3>3, <3>4 DEF next
  <2> QED  BY <1>2, <2>4, <2>5, <2>6 DEF Answers
<1>3. CASE s.phase = "SwappingOffOld" /\ s.child \in {"done", "failed"}
  <2>1. Poll(s, a) = PollSwappingOff(s, a)
    BY <1>3 DEF Poll
  <2>2. CASE s.child = "failed"
    <3>1. s.excused \/ BaseIsOn(s)
      BY <1>3, <2>2 DEF StateInv, HandOver
    <3>2. SwapoffNew(s, a).excused \/ BaseIsOn(SwapoffNew(s, a))
      BY <3>1, SwapoffNewFacts DEF BaseIsOn
    <3> QED  BY <2>1, <2>2, <3>2, SwapoffNewFacts, AbortKeeps DEF PollSwappingOff
  <2>3. CASE s.child = "done"
    <3> DEFINE u == [UnlinkOld(s) EXCEPT !.phase = "Idle", !.child = "none"]
    <3>1. (s.hidden \/ s.base.on) \in BOOLEAN
      BY FilesAreRecords
    <3>2. /\ u \in BaseStates
          /\ u.new = s.new /\ u.excused = s.excused /\ u.phase = "Idle" /\ u.child = "none"
      BY <3>1 DEF UnlinkOld, NoFile, BaseStates, FileRecords, Phases, Children
    <3> HIDE DEF u
    <3>3. s.excused \/ (s.new.on /\ s.new.size # "none")
      BY <1>3 DEF StateInv, HandOver
    <3>4. RenameNew(u) \in BaseStates /\ StateInv(RenameNew(u))
      BY <3>2, <3>3
         DEF RenameNew, NoFile, BaseStates, FileRecords, StateInv, ChildMadeNew, BaseIsOn
    <3>5. /\ [u EXCEPT !.excused = TRUE] \in BaseStates
          /\ StateInv([u EXCEPT !.excused = TRUE])
      BY <3>2 DEF BaseStates, StateInv, ChildMadeNew
    <3>6. Poll(s, a) = IF a.rename THEN RenameNew(u) ELSE [u EXCEPT !.excused = TRUE]
      BY <2>1, <2>3 DEF PollSwappingOff, Replace, u
    <3> QED  BY <3>4, <3>5, <3>6
  <2> QED  BY <1>3, <2>2, <2>3
<1> QED  BY <1>1, <1>2, <1>3, FilesAreRecords DEF Phases, Children

LEMMA RightSizeKeeps ==
  ASSUME NEW s \in BaseStates, NEW a \in Answers, StateInv(s),
         NEW swapped, NEW room \in BOOLEAN
  PROVE  RightSize(s, swapped, room, a) \in BaseStates /\ StateInv(RightSize(s, swapped, room, a))
<1> DEFINE r == RightSize(s, swapped, room, a)
           cleared == UnlinkNew(s)
<1>1. (s.hidden \/ s.new.on) \in BOOLEAN
  BY FilesAreRecords
<1>2. /\ cleared \in BaseStates
      /\ StateInv(cleared) \/ s.phase # "Idle"
      /\ cleared.base = s.base /\ cleared.excused = s.excused
  BY <1>1 DEF UnlinkNew, NoFile, BaseStates, FileRecords, StateInv, ChildMadeNew, BaseIsOn
<1> HIDE DEF cleared
<1>3. CASE r = s
  BY <1>3
<1>4. CASE r = [s EXCEPT !.window = "open"]
  <2>1. [s EXCEPT !.window = "open"] \in BaseStates /\ StateInv([s EXCEPT !.window = "open"])
    BY DEF BaseStates, StateInv, ChildMadeNew, HandOver, BaseIsOn
  <2> QED  BY <1>4, <2>1
<1>5. CASE s.phase = "Idle" /\ r = cleared
  BY <1>2, <1>5
<1>6. CASE s.phase = "Idle" /\ r = [cleared EXCEPT !.phase = "CreatingNew", !.child = "running"]
  <2>1. s.excused \/ BaseIsOn(s)
    BY <1>6 DEF StateInv
  <2>2. cleared \in BaseStates
    BY <1>2, <1>6
  <2>3. /\ [cleared EXCEPT !.phase = "CreatingNew", !.child = "running"] \in BaseStates
        /\ StateInv([cleared EXCEPT !.phase = "CreatingNew", !.child = "running"])
    BY <1>2, <2>1, <2>2 DEF BaseStates, Phases, Children, StateInv, ChildMadeNew, BaseIsOn
  <2> QED  BY <1>6, <2>3
<1>7. \/ r = s \/ r = [s EXCEPT !.window = "open"]
      \/ s.phase = "Idle" /\ r = cleared
      \/ s.phase = "Idle" /\ r = [cleared EXCEPT !.phase = "CreatingNew", !.child = "running"]
  BY DEF RightSize, cleared
<1> QED  BY <1>3, <1>4, <1>5, <1>6, <1>7

LEMMA BackoffIsBounded ==
  ASSUME NEW wait \in BaseWait..MaxWait
  PROVE  Backoff(wait) \in BaseWait..MaxWait
BY WaitAssumption DEF Backoff

(* A deswap in any phase: the base stays on, or its absence is excused.      *)
LEMMA HygieneKeeps ==
  ASSUME NEW s \in BaseStates, NEW b \in DeswapAnswers, StateInv(s), NEW wanted \in BOOLEAN
  PROVE  Hygiene(s, wanted, b) \in BaseStates /\ StateInv(Hygiene(s, wanted, b))
<1> DEFINE done == [s EXCEPT !.base.on = b.swapon, !.excused = @ \/ ~b.swapon,
                             !.hygiene.quench = TRUE, !.hygiene.age = 0]
           off == [s EXCEPT !.hygiene.wait = Backoff(@), !.hygiene.age = 0]
<1>1. CASE s.base.on /\ b.drain /\ Hygiene(s, wanted, b) = done
  <2>1. done \in BaseStates
    <3>1. (s.excused \/ ~b.swapon) \in BOOLEAN
      BY FilesAreRecords DEF DeswapAnswers
    <3>2. [s.base EXCEPT !.on = b.swapon] \in FileRecords
      BY DEF BaseStates, FileRecords, DeswapAnswers
    <3>3. 0 \in 0..MaxWait
      BY WaitAssumption
    <3>4. [s.hygiene EXCEPT !.quench = TRUE, !.age = 0] \in HygieneRecords
      BY <3>3 DEF BaseStates, HygieneRecords
    <3> QED  BY <3>1, <3>2, <3>4 DEF BaseStates
  <2>2. /\ done.phase = s.phase /\ done.child = s.child /\ done.new = s.new
        /\ done.base.size = s.base.size /\ done.base.on = b.swapon
        /\ done.excused = (s.excused \/ ~b.swapon)
    BY DEF BaseStates, FileRecords
  <2> HIDE DEF done
  <2>3. StateInv(done)
    BY <2>2 DEF StateInv, ChildMadeNew, HandOver, BaseIsOn
  <2> QED  BY <1>1, <2>1, <2>3
<1>2. CASE Hygiene(s, wanted, b) = off
  <2>1. off \in BaseStates
    <3>1. s.hygiene \in HygieneRecords /\ Backoff(s.hygiene.wait) \in BaseWait..MaxWait
      BY BackoffIsBounded DEF BaseStates, HygieneRecords
    <3>2. 0 \in 0..MaxWait
      BY WaitAssumption
    <3>3. [s.hygiene EXCEPT !.wait = Backoff(s.hygiene.wait), !.age = 0] \in HygieneRecords
      BY <3>1, <3>2 DEF HygieneRecords
    <3> QED  BY <3>3 DEF BaseStates
  <2>2. /\ off.phase = s.phase /\ off.child = s.child /\ off.new = s.new
        /\ off.base = s.base /\ off.excused = s.excused
    BY DEF BaseStates
  <2> HIDE DEF off
  <2>3. StateInv(off)
    BY <2>2 DEF StateInv, ChildMadeNew, HandOver, BaseIsOn
  <2> QED  BY <1>2, <2>1, <2>3
<1>3. CASE Hygiene(s, wanted, b) = s
  BY <1>3
<1>4. \/ s.base.on /\ b.drain /\ Hygiene(s, wanted, b) = done
      \/ Hygiene(s, wanted, b) = off \/ Hygiene(s, wanted, b) = s
  BY DEF Hygiene, SafeDeswap
<1> QED  BY <1>1, <1>2, <1>3, <1>4

-----------------------------------------------------------------------------
(* The steps.                                                                *)

(* SetState determines the record.                                           *)
LEMMA SetStateIs ==
  ASSUME NEW s \in BaseStates, SetState(s)
  PROVE  State' = s
BY DEF SetState, State, BaseStates

LEMMA ForgetKeeps ==
  ASSUME NEW s \in BaseStates, s.excused \/ BaseIsOn(s)
  PROVE  Forget(s) \in BaseStates /\ StateInv(Forget(s)) /\ Forget(s).phase = "Idle"
<1>1. FreshHygiene \in HygieneRecords
  BY WaitAssumption DEF FreshHygiene, HygieneRecords
<1> QED
  BY <1>1 DEF Forget, BaseStates, Phases, Children, StateInv, ChildMadeNew, BaseIsOn

LEMMA GuardStep ==
  ASSUME BaseInv, GuardSwap
  PROVE  BaseInv'
<1>1. PICK normal \in BOOLEAN, idle \in BOOLEAN, room \in BOOLEAN,
           swapped \in {"none", "some", "much"}, a \in Migration, b \in Deswap :
        SetState(EvaluateSwap(normal, idle, swapped, room, a, b))
  BY DEF GuardSwap
<1>2. State \in BaseStates /\ StateInv(State) /\ a \in Answers /\ b \in DeswapAnswers
  BY DEF BaseInv, Migration, Deswap, Answers, DeswapAnswers
<1> DEFINE polled == Poll(State, a)
           sized == IF normal THEN RightSize(polled, swapped, room, a) ELSE polled
<1>3. polled \in BaseStates /\ StateInv(polled)
  BY <1>2, PollKeeps
<1> HIDE DEF polled
<1>4. sized \in BaseStates /\ StateInv(sized)
  BY <1>2, <1>3, RightSizeKeeps
<1> HIDE DEF sized
<1>5. (idle /\ swapped # "none") \in BOOLEAN
  OBVIOUS
<1>6. /\ EvaluateSwap(normal, idle, swapped, room, a, b) \in BaseStates
      /\ StateInv(EvaluateSwap(normal, idle, swapped, room, a, b))
  BY <1>2, <1>4, <1>5, HygieneKeeps DEF EvaluateSwap, polled, sized
<1>7. State' \in BaseStates /\ StateInv(State)'
  <2>1. State' = EvaluateSwap(normal, idle, swapped, room, a, b)
    BY <1>1, <1>6, SetStateIs
  <2>2. StateInv(State)' <=> StateInv(State')
    BY DEF StateInv, ChildMadeNew, HandOver, BaseIsOn
  <2> QED  BY <1>6, <2>1, <2>2
<1>8. keeperUp' = keeperUp /\ lost' = lost /\ keeperUp
  BY DEF GuardSwap
<1> QED  BY <1>7, <1>8 DEF BaseInv, DownIsIdle

(* A child that ends, well or badly, keeps what its phase promises.          *)
LEMMA ChildStep ==
  ASSUME BaseInv, ChildCreates \/ ChildDrainsOld
  PROVE  BaseInv'
<1>1. /\ State \in BaseStates /\ StateInv(State) /\ DownIsIdle
      /\ keeperUp \in BOOLEAN /\ lost \in 0..KeeperKills
  BY DEF BaseInv
<1>2. ASSUME NEW s \in BaseStates, StateInv(s), State' = s, phase' = phase,
             keeperUp' = keeperUp, lost' = lost
      PROVE  BaseInv'
  <2>1. StateInv(State)' <=> StateInv(State')
    BY DEF StateInv, ChildMadeNew, HandOver, BaseIsOn
  <2> QED  BY <1>1, <1>2, <2>1 DEF BaseInv, DownIsIdle
<1>3. CASE ChildCreates
  <2> DEFINE s == [base |-> base, new |-> new', hidden |-> hidden, phase |-> phase,
                   child |-> child', window |-> window, hygiene |-> hygiene,
                   excused |-> excused]
  <2>1. /\ child' \in {"done", "failed"} /\ new' \in FileRecords
        /\ child' = "done" => new'.size # "none"
    <3> DEFINE built == [size |-> "small", on |-> FALSE]
    <3>1. built \in FileRecords /\ NoFile \in FileRecords /\ built.size # "none"
      BY DEF NoFile, FileRecords
    <3>2. \/ child' = "done" /\ new' = built
          \/ child' = "failed" /\ new' \in {NoFile, built}
      BY <1>3 DEF ChildCreates
    <3> HIDE DEF built
    <3> QED  BY <3>1, <3>2
  <2>2. s \in BaseStates
    BY <1>1, <2>1 DEF State, BaseStates, Children
  <2>3. State' = s
    <3>1. /\ base' = base /\ hidden' = hidden /\ phase' = phase /\ window' = window
          /\ hygiene' = hygiene /\ excused' = excused
      BY <1>3 DEF ChildCreates
    <3> QED  BY <3>1 DEF State
  <2>4. State.phase = "CreatingNew"
    BY <1>3 DEF ChildCreates, State
  <2>5. StateInv(s)
    BY <1>1, <2>1, <2>4 DEF State, StateInv, ChildMadeNew, BaseIsOn
  <2> HIDE DEF s
  <2> QED  BY <1>2, <1>3, <2>2, <2>3, <2>5 DEF ChildCreates
<1>4. CASE ChildDrainsOld
  <2> DEFINE s == [base |-> base', new |-> new, hidden |-> hidden, phase |-> phase,
                   child |-> child', window |-> window, hygiene |-> hygiene,
                   excused |-> excused]
  <2>1. /\ child' \in {"done", "failed"} /\ base' \in FileRecords
        /\ child' # "done" => base' = base
    BY <1>1, <1>4 DEF ChildDrainsOld, State, BaseStates, FileRecords
  <2>2. s \in BaseStates
    BY <1>1, <2>1 DEF State, BaseStates, Children
  <2>3. State' = s
    <3>1. /\ new' = new /\ hidden' = hidden /\ phase' = phase /\ window' = window
          /\ hygiene' = hygiene /\ excused' = excused
      BY <1>4 DEF ChildDrainsOld
    <3> QED  BY <3>1 DEF State
  <2>4. State.phase = "SwappingOffOld" /\ State.child = "running" /\ State.base = base
    BY <1>4 DEF ChildDrainsOld, State
  <2>5. StateInv(s)
    BY <1>1, <2>1, <2>4 DEF State, StateInv, ChildMadeNew, HandOver, BaseIsOn
  <2> HIDE DEF s
  <2> QED  BY <1>2, <1>4, <2>2, <2>3, <2>5 DEF ChildDrainsOld
<1> QED  BY <1>3, <1>4

(* Starts and ends: the migration is forgotten, and one that was under way   *)
(* excuses the base.                                                         *)
LEMMA LifeStep ==
  ASSUME BaseInv, KeeperStarts \/ KeeperStops \/ KeeperKilled
  PROVE  BaseInv'
<1>1. State \in BaseStates /\ StateInv(State) /\ keeperUp \in BOOLEAN /\ lost \in 0..KeeperKills
  BY DEF BaseInv
<1>2. /\ State.phase = phase /\ State.excused = excused
      /\ phase = "Idle" /\ ~excused => BaseIsOn(State)
  BY <1>1 DEF State, StateInv
<1>3. ASSUME NEW s \in BaseStates, SetState(s), StateInv(s), s.phase = "Idle",
             keeperUp' \in BOOLEAN, lost' \in 0..KeeperKills
      PROVE  BaseInv'
  <2>1. State' = s
    BY <1>3, SetStateIs
  <2>2. StateInv(State)' <=> StateInv(State')
    BY DEF StateInv, ChildMadeNew, HandOver, BaseIsOn
  <2>3. phase' = "Idle"
    BY <1>3 DEF SetState
  <2> QED  BY <1>3, <2>1, <2>2, <2>3 DEF BaseInv, DownIsIdle
<1>4. CASE KeeperStarts
  <2>1. phase = "Idle"
    BY <1>4 DEF KeeperStarts, BaseInv, DownIsIdle
  <2> QED  BY <1>1, <1>2, <1>3, <1>4, <2>1, ForgetKeeps DEF KeeperStarts
<1>5. CASE KeeperStops \/ KeeperKilled
  <2>1. PICK s \in Halves :
          SetState([Forget(s) EXCEPT !.excused = @ \/ phase # "Idle" \/ s # State])
    <3>1. CASE KeeperStops
      <4>1. State \in Halves
        BY DEF Halves
      <4>2. [Forget(State) EXCEPT !.excused = @ \/ phase # "Idle"]
              = [Forget(State) EXCEPT !.excused = @ \/ phase # "Idle" \/ State # State]
        OBVIOUS
      <4> QED  BY <3>1, <4>1, <4>2 DEF KeeperStops
    <3>2. CASE KeeperKilled
      BY <3>2 DEF KeeperKilled
    <3> QED  BY <1>5, <3>1, <3>2
  <2> DEFINE after == [Forget(s) EXCEPT !.excused = @ \/ phase # "Idle" \/ s # State]
  <2>2. s \in BaseStates /\ (s = State \/ s # State)
    <3>1. (State.hidden \/ State.base.on) \in BOOLEAN
      BY <1>1, FilesAreRecords
    <3>2. UnlinkOld(State) \in BaseStates
      BY <1>1, <3>1 DEF UnlinkOld, NoFile, BaseStates, FileRecords
    <3>3. [State EXCEPT !.base.on = FALSE] \in BaseStates
      BY <1>1 DEF BaseStates, FileRecords
    <3> QED  BY <1>1, <3>2, <3>3 DEF Halves
  <2>3. after \in BaseStates /\ after.phase = "Idle" /\ StateInv(after)
    <3>1. FreshHygiene \in HygieneRecords
      BY WaitAssumption DEF FreshHygiene, HygieneRecords
    <3>2. (s.excused \/ phase # "Idle" \/ s # State) \in BOOLEAN
      BY <2>2, FilesAreRecords
    <3>3. /\ after \in BaseStates /\ after.phase = "Idle" /\ after.child = "none"
          /\ after.base = s.base
          /\ after.excused = (s.excused \/ phase # "Idle" \/ s # State)
      BY <2>2, <3>1, <3>2 DEF Forget, BaseStates, Phases, Children
    <3> HIDE DEF after
    <3>4. ~after.excused => BaseIsOn(s)
      BY <1>2, <3>3
    <3> QED  BY <3>3, <3>4 DEF StateInv, ChildMadeNew, BaseIsOn
  <2>4. keeperUp' = FALSE /\ lost' \in 0..KeeperKills
    BY <1>1, <1>5, WaitAssumption DEF KeeperStops, KeeperKilled
  <2> HIDE DEF after
  <2> QED  BY <1>3, <2>1, <2>3, <2>4 DEF after
<1> QED  BY <1>4, <1>5

(* The clock and a reboot, which finds what is under the name of the base.   *)
LEMMA WorldStep ==
  ASSUME BaseInv, ClockTicks \/ RebootSwap \/ UNCHANGED swapVars
  PROVE  BaseInv'
<1> USE DEF BaseInv, State, BaseStates, StateInv, ChildMadeNew, HandOver, BaseIsOn, DownIsIdle
<1>1. CASE ClockTicks
  <2>1. hygiene' \in HygieneRecords
    <3>1. hygiene \in HygieneRecords
      OBVIOUS
    <3>2. (IF hygiene.age < MaxWait THEN hygiene.age + 1 ELSE hygiene.age) \in 0..MaxWait
      BY <3>1, WaitAssumption DEF HygieneRecords
    <3> QED  BY <1>1, <3>1, <3>2 DEF ClockTicks, HygieneRecords
  <2>2. window' \in {"unset", "open", "passed"}
    BY <1>1 DEF ClockTicks
  <2> QED  BY <1>1, <2>1, <2>2 DEF ClockTicks
<1>2. CASE RebootSwap
  <2>1. /\ base' = [base EXCEPT !.on = base.size # "none"]
        /\ new' = [new EXCEPT !.on = FALSE] /\ hidden' = FALSE
        /\ excused' = (base.size = "none") /\ ~keeperUp
        /\ UNCHANGED <<keeperUp, phase, child, window, hygiene, lost>>
    BY <1>2 DEF RebootSwap
  <2>2. /\ base \in FileRecords /\ new \in FileRecords /\ phase = "Idle"
    BY <2>1
  <2>3. /\ base' \in FileRecords /\ new' \in FileRecords
        /\ base'.size = base.size /\ base'.on = (base.size # "none")
    BY <2>1, <2>2 DEF FileRecords
  <2>4. State' \in BaseStates
    BY <2>1, <2>3
  <2>5. StateInv(State)'
    BY <2>1, <2>2, <2>3
  <2> QED  BY <2>1, <2>2, <2>4, <2>5
<1>3. CASE UNCHANGED swapVars
  BY <1>3 DEF swapVars
<1> QED  BY <1>1, <1>2, <1>3

LEMMA BaseInitInv == BaseInit => BaseInv
<1> SUFFICES ASSUME BaseInit PROVE BaseInv
  OBVIOUS
<1>1. hygiene \in HygieneRecords /\ lost \in 0..KeeperKills
  BY WaitAssumption DEF BaseInit, FreshHygiene, HygieneRecords
<1>2. State \in BaseStates
  BY <1>1 DEF BaseInit, State, BaseStates, NoFile, FileRecords, Phases, Children
<1> QED
  BY <1>1, <1>2
     DEF BaseInit, BaseInv, State, StateInv, ChildMadeNew, BaseIsOn, DownIsIdle

LEMMA BaseStepInv == BaseInv /\ [BaseNext]_swapVars => BaseInv'
BY GuardStep, ChildStep, LifeStep, WorldStep DEF BaseNext

LEMMA BaseInvHolds == BaseSpec => []BaseInv
BY BaseInitInv, BaseStepInv, PTL DEF BaseSpec

LEMMA BaseInvTypes == BaseInv => SwapTypeOK
BY DEF BaseInv, State, BaseStates, StateInv, SwapTypeOK, FileRecords, HygieneRecords

(* Every field of the migration and of the deswap keeps its type, and an     *)
(* idle daemon has no child, for every cooldown and its doublings.           *)
THEOREM SwapTypeCorrect == BaseSpec => []SwapTypeOK
BY BaseInvTypes, BaseInvHolds, PTL

LEMMA BaseInvSwaps == BaseInv => SwapIsThere
BY DEF BaseInv, State, BaseStates, StateInv, HandOver, BaseIsOn, SwapIsThere

(* REF-REQ-138.4: the host never goes through a swapless state, with the     *)
(* migration and the deswap of the hygiene engine interleaved in any order   *)
(* and every call of the kernel refused, but for the excuses named there.    *)
THEOREM BaseIsThere == BaseSpec => []SwapIsThere
BY BaseInvSwaps, BaseInvHolds, PTL

-----------------------------------------------------------------------------
(* The disk pressure guard, for any sizes, thresholds and numbers of files.  *)

LEMMA BudgetOfFiles ==
  /\ Files \in Nat \ {0}
  /\ FileSize * Files < Budget + FileSize
<1>1. FileSize \in Nat \ {0} /\ Budget \in Nat \ {0}
  BY DiskAssumption
<1> DEFINE x == Budget + FileSize - 1
<1>2. x \in Nat
  BY <1>1
<1>3. /\ x % FileSize \in 0..(FileSize - 1) /\ x \div FileSize \in Nat
      /\ x = FileSize * (x \div FileSize) + (x % FileSize)
  BY <1>1, <1>2, ModDiv
<1> DEFINE q == x \div FileSize
           r == x % FileSize
           spent == FileSize * q
<1>4. q \in Nat /\ r \in 0..(FileSize - 1) /\ x = spent + r
  BY <1>3
<1>5. spent \in Nat
  BY <1>1, <1>4
<1>6. q # 0
  <2>1. q = 0 => spent = 0
    BY <1>1
  <2> HIDE DEF spent, q, r
  <2> QED  BY <1>1, <1>4, <1>5, <2>1
<1>7. spent < Budget + FileSize
  <2> HIDE DEF spent, q, r
  <2> QED  BY <1>1, <1>4, <1>5
<1>8. Files = q
  BY DEF Files
<1> QED  BY <1>4, <1>6, <1>7, <1>8

(* A tier loses as many files as the budget and its two directories allow.   *)
LEMMA TierIsSwept ==
  ASSUME NEW f \in [Kinds -> Nat], NEW n \in Nat,
         NEW one \in Kinds, NEW two \in Kinds, one # two
  PROVE  LET g == SweepTier(f, n, one, two) IN
         /\ g \in [Kinds -> Nat]
         /\ \A kind \in Kinds : g[kind] <= f[kind]
         /\ \A kind \in Kinds \ {one, two} : g[kind] = f[kind]
         /\ g[one] + g[two] = (f[one] + f[two]) - Smaller(n, f[one] + f[two])
<1> DEFINE x == f[one]
           y == f[two]
           gone == Smaller(x, n)
           more == Smaller(y, n - gone)
           g == SweepTier(f, n, one, two)
<1>1. g = [f EXCEPT ![one] = x - gone, ![two] = y - more]
  BY DEF SweepTier
<1>2. x \in Nat /\ y \in Nat
  OBVIOUS
<1>3. /\ x - gone \in Nat /\ y - more \in Nat /\ x - gone <= x /\ y - more <= y
      /\ (x - gone) + (y - more) = (x + y) - Smaller(n, x + y)
  <2> HIDE DEF x, y
  <2> QED  BY <1>2 DEF Smaller
<1> DEFINE left == x - gone
           rest2 == y - more
<1>4. left \in Nat /\ rest2 \in Nat /\ left <= x /\ rest2 <= y /\ left + rest2 = (x + y) - Smaller(n, x + y)
  BY <1>3
<1>5. g = [f EXCEPT ![one] = left, ![two] = rest2]
  BY <1>1
<1> HIDE DEF left, rest2, g
<1>6. /\ g \in [Kinds -> Nat] /\ g[one] = left /\ g[two] = rest2
      /\ \A kind \in Kinds \ {one, two} : g[kind] = f[kind]
  BY <1>4, <1>5
<1>7. \A kind \in Kinds : g[kind] <= f[kind]
  <2> TAKE kind \in Kinds
  <2>1. CASE kind \in {one, two}
    BY <1>4, <1>6, <2>1
  <2>2. CASE kind \notin {one, two}
    BY <1>6, <2>2
  <2> QED  BY <2>1, <2>2
<1> QED  BY <1>4, <1>6, <1>7 DEF g

(* A whole sweep, by what the three tiers hold.                              *)
LEMMA SweepIs ==
  ASSUME NEW f \in [Kinds -> Nat], NEW o \in Nat
  PROVE  LET r == ReclaimTieredStorage(f, o) IN
         /\ r \in [Kinds -> Nat]
         /\ \A kind \in Kinds : r[kind] <= f[kind]
         /\ Count(f) <= Count(r) + Files
         /\ Packages(r) # Packages(f) => Journals(r) = 0
         /\ TmpFiles(r) # TmpFiles(f) => Journals(r) + Packages(r) = 0
         /\ Used(f, o) >= Trigger /\ Count(f) > 0 => Count(r) < Count(f)
<1> DEFINE J == Journals(f)
           P == Packages(f)
           T == TmpFiles(f)
           f1 == SweepJournalAndDumps(f, Files)
           f2 == SweepPackageCaches(f1, Files - First(f))
           f3 == SweepOldTmpFiles(f2, Files - FirstTwo(f))
<1>1. Files \in Nat \ {0}
  BY BudgetOfFiles
<1>2. J \in Nat /\ P \in Nat /\ T \in Nat /\ Count(f) = J + P + T
  BY DEF Journals, Packages, TmpFiles, Count, Kinds
<1>3. First(f) = Smaller(Files, J) /\ FirstTwo(f) = Smaller(Files, J + P)
  BY DEF First, FirstTwo, Journals, Packages, Kinds
<1> HIDE DEF J, P, T
<1>4. /\ First(f) \in Nat /\ Files - First(f) \in Nat
      /\ FirstTwo(f) \in Nat /\ Files - FirstTwo(f) \in Nat
  BY <1>1, <1>2, <1>3 DEF Smaller
<1>5. /\ f1 \in [Kinds -> Nat] /\ \A kind \in Kinds : f1[kind] <= f[kind]
      /\ Journals(f1) = J - Smaller(Files, J) /\ Packages(f1) = P /\ TmpFiles(f1) = T
  <2>1. "journal~" \in Kinds /\ "coredump" \in Kinds
        /\ {"deb", "pkg", "tmp", "vartmp"} \subseteq Kinds \ {"journal~", "coredump"}
    BY DEF Kinds
  <2>2. /\ f1 \in [Kinds -> Nat] /\ \A kind \in Kinds : f1[kind] <= f[kind]
        /\ \A kind \in Kinds \ {"journal~", "coredump"} : f1[kind] = f[kind]
        /\ f1["journal~"] + f1["coredump"] = J - Smaller(Files, J)
    BY <1>1, <2>1, TierIsSwept DEF SweepJournalAndDumps, J, Journals
  <2> HIDE DEF f1
  <2> QED  BY <2>1, <2>2 DEF Journals, Packages, TmpFiles, P, T
<1> HIDE DEF f1
<1>6. /\ f2 \in [Kinds -> Nat] /\ \A kind \in Kinds : f2[kind] <= f1[kind]
      /\ Packages(f2) = P - Smaller(Files - First(f), P)
      /\ Journals(f2) = Journals(f1) /\ TmpFiles(f2) = T
  <2>1. "deb" \in Kinds /\ "pkg" \in Kinds
        /\ {"journal~", "coredump", "tmp", "vartmp"} \subseteq Kinds \ {"deb", "pkg"}
    BY DEF Kinds
  <2>2. f1["deb"] + f1["pkg"] = P /\ f1["tmp"] + f1["vartmp"] = T
    BY <1>5 DEF Packages, TmpFiles
  <2>3. /\ f2 \in [Kinds -> Nat] /\ \A kind \in Kinds : f2[kind] <= f1[kind]
        /\ \A kind \in Kinds \ {"deb", "pkg"} : f2[kind] = f1[kind]
        /\ f2["deb"] + f2["pkg"] = P - Smaller(Files - First(f), P)
    <3> DEFINE n == Files - First(f)
    <3>1. n \in Nat /\ f2 = SweepTier(f1, n, "deb", "pkg") /\ "deb" # "pkg"
      BY <1>4 DEF SweepPackageCaches
    <3> HIDE DEF n, f2
    <3>2. f1 \in [Kinds -> Nat]
      BY <1>5
    <3>3. /\ f2 \in [Kinds -> Nat] /\ \A kind \in Kinds : f2[kind] <= f1[kind]
          /\ \A kind \in Kinds \ {"deb", "pkg"} : f2[kind] = f1[kind]
          /\ f2["deb"] + f2["pkg"] = (f1["deb"] + f1["pkg"]) - Smaller(n, f1["deb"] + f1["pkg"])
      BY <2>1, <3>1, <3>2, TierIsSwept, SMTT(20)
    <3> QED  BY <2>2, <3>3 DEF n
  <2> HIDE DEF f2
  <2> QED  BY <2>1, <2>2, <2>3 DEF Journals, Packages, TmpFiles
<1> HIDE DEF f2
<1>7. /\ f3 \in [Kinds -> Nat] /\ \A kind \in Kinds : f3[kind] <= f2[kind]
      /\ TmpFiles(f3) = T - Smaller(Files - FirstTwo(f), T)
      /\ Journals(f3) = Journals(f2) /\ Packages(f3) = Packages(f2)
  <2>1. "tmp" \in Kinds /\ "vartmp" \in Kinds
        /\ {"journal~", "coredump", "deb", "pkg"} \subseteq Kinds \ {"tmp", "vartmp"}
    BY DEF Kinds
  <2>2. f2["tmp"] + f2["vartmp"] = T
    BY <1>6 DEF TmpFiles
  <2>3. /\ f3 \in [Kinds -> Nat] /\ \A kind \in Kinds : f3[kind] <= f2[kind]
        /\ \A kind \in Kinds \ {"tmp", "vartmp"} : f3[kind] = f2[kind]
        /\ f3["tmp"] + f3["vartmp"] = T - Smaller(Files - FirstTwo(f), T)
    <3> DEFINE n == Files - FirstTwo(f)
    <3>1. n \in Nat /\ f3 = SweepTier(f2, n, "tmp", "vartmp") /\ "tmp" # "vartmp"
      BY <1>4 DEF SweepOldTmpFiles
    <3> HIDE DEF n, f3
    <3>2. /\ f3 \in [Kinds -> Nat] /\ \A kind \in Kinds : f3[kind] <= f2[kind]
          /\ \A kind \in Kinds \ {"tmp", "vartmp"} : f3[kind] = f2[kind]
          /\ f3["tmp"] + f3["vartmp"] = (f2["tmp"] + f2["vartmp"]) - Smaller(n, f2["tmp"] + f2["vartmp"])
      BY <1>6, <2>1, <3>1, TierIsSwept, SMTT(20)
    <3> QED  BY <2>2, <3>2 DEF n
  <2> HIDE DEF f3
  <2> QED  BY <2>1, <2>2, <2>3 DEF Journals, Packages, TmpFiles
<1> HIDE DEF f3
<1>8. \A g \in [Kinds -> Nat] : Count(g) = Journals(g) + Packages(g) + TmpFiles(g)
  BY DEF Journals, Packages, TmpFiles, Count, Kinds
<1>9. \A g, h, k \in [Kinds -> Nat] :
        (\A kind \in Kinds : g[kind] <= h[kind]) /\ (\A kind \in Kinds : h[kind] <= k[kind])
          => \A kind \in Kinds : g[kind] <= k[kind]
  <2> SUFFICES ASSUME NEW g \in [Kinds -> Nat], NEW h \in [Kinds -> Nat], NEW k \in [Kinds -> Nat],
                      NEW kind \in Kinds, g[kind] <= h[kind], h[kind] <= k[kind]
               PROVE  g[kind] <= k[kind]
    OBVIOUS
  <2>1. g[kind] \in Nat /\ h[kind] \in Nat /\ k[kind] \in Nat
    OBVIOUS
  <2> QED  BY <2>1
<1>10. Used(f, o) >= Trigger => ~ClearedBy(f, o, 0)
  <2>1. /\ Used(f, o) \in Nat /\ FileSize * 0 = 0
        /\ Trigger \in Nat /\ Release \in Nat /\ Release <= Trigger
    BY <1>2, DiskAssumption DEF Used
  <2> QED  BY <2>1 DEF ClearedBy
<1>11. CASE ClearedBy(f, o, First(f))
  <2>1. ReclaimTieredStorage(f, o) = f1
    BY <1>11 DEF ReclaimTieredStorage, f1
  <2>2. /\ Count(f) <= Count(f1) + Files
        /\ First(f) # 0 => Count(f1) < Count(f)
    BY <1>1, <1>2, <1>3, <1>5, <1>8 DEF Smaller
  <2>3. /\ Packages(f1) = Packages(f)
        /\ TmpFiles(f1) = TmpFiles(f)
    BY <1>5 DEF P, T
  <2>4. Used(f, o) >= Trigger => First(f) # 0
    BY <1>10, <1>11
  <2> QED  BY <1>5, <2>1, <2>2, <2>3, <2>4
<1>12. CASE ~ClearedBy(f, o, First(f)) /\ ClearedBy(f, o, FirstTwo(f))
  <2>1. ReclaimTieredStorage(f, o) = f2
    BY <1>12 DEF ReclaimTieredStorage, f1, f2
  <2>2. /\ Count(f) <= Count(f2) + Files
        /\ FirstTwo(f) # 0 => Count(f2) < Count(f)
        /\ Packages(f2) # P => Journals(f2) = 0
    BY <1>1, <1>2, <1>3, <1>5, <1>6, <1>8 DEF Smaller
  <2>3. TmpFiles(f2) = TmpFiles(f) /\ P = Packages(f)
    BY <1>6 DEF P, T
  <2>4. Used(f, o) >= Trigger => FirstTwo(f) # 0
    BY <1>10, <1>12
  <2>5. \A kind \in Kinds : f2[kind] <= f[kind]
    BY <1>5, <1>6, <1>9
  <2> QED  BY <1>6, <2>1, <2>2, <2>3, <2>4, <2>5
<1>13. CASE ~ClearedBy(f, o, First(f)) /\ ~ClearedBy(f, o, FirstTwo(f))
  <2>1. ReclaimTieredStorage(f, o) = f3
    BY <1>13 DEF ReclaimTieredStorage, f1, f2, f3
  <2>2. /\ Count(f) <= Count(f3) + Files
        /\ Count(f) > 0 => Count(f3) < Count(f)
        /\ Packages(f3) # P => Journals(f3) = 0
        /\ TmpFiles(f3) # T => Journals(f3) + Packages(f3) = 0
    BY <1>1, <1>2, <1>3, <1>5, <1>6, <1>7, <1>8 DEF Smaller
  <2>3. T = TmpFiles(f) /\ P = Packages(f)
    BY DEF P, T
  <2>4. \A kind \in Kinds : f3[kind] <= f[kind]
    BY <1>5, <1>6, <1>7, <1>9
  <2> QED  BY <1>7, <2>1, <2>2, <2>3, <2>4
<1> QED  BY <1>11, <1>12, <1>13

LEMMA DiskInitInv == DiskInit => DiskTypeOK
<1> SUFFICES ASSUME DiskInit PROVE DiskTypeOK
  OBVIOUS
<1>1. /\ Release \in Nat /\ Release > 0 /\ Trigger \in Nat /\ Release <= Trigger
      /\ Cooldown \in Nat /\ Writes \in Nat
  BY DiskAssumption
<1>2. Release - 1 \in Nat /\ Trigger - 1 \in Nat
  BY <1>1
<1>3. /\ files \in [Kinds -> 0..Most] /\ other \in {Release - 1, Trigger - 1}
      /\ looked = FALSE /\ rest = 0 /\ wrote = 0
  BY DEF DiskInit
<1>4. other \in Nat /\ 0 \in 0..Cooldown /\ 0 \in 0..Writes
  BY <1>1, <1>2, <1>3
<1> QED  BY <1>3, <1>4 DEF DiskTypeOK

(* What one step does, but for the growth of the rest of the file system.    *)
LEMMA DiskStep ==
  ASSUME DiskTypeOK, [DiskNext]_diskVars
  PROVE  /\ DiskTypeOK'
         /\ \/ UNCHANGED files
            \/ EvaluateDisk /\ PressureSatisfied /\ files' = ReclaimTieredStorage(files, other)
<1>1. /\ files \in [Kinds -> 0..Most] /\ other \in Nat /\ looked \in BOOLEAN
      /\ rest \in 0..Cooldown /\ wrote \in 0..Writes
      /\ Cooldown \in Nat /\ Writes \in Nat /\ Most \in Nat
  BY DiskAssumption DEF DiskTypeOK
<1>2. CASE EvaluateDisk
  <2>1. /\ looked' = TRUE /\ UNCHANGED <<other, wrote>>
        /\ \/ UNCHANGED <<files, rest>>
           \/ PressureSatisfied /\ files' = ReclaimTieredStorage(files, other) /\ rest' = Cooldown
    BY <1>2 DEF EvaluateDisk
  <2>2. files \in [Kinds -> Nat]
    BY <1>1
  <2> DEFINE r == ReclaimTieredStorage(files, other)
  <2>3. r \in [Kinds -> Nat] /\ \A kind \in Kinds : r[kind] <= files[kind]
    BY <1>1, <2>2, SweepIs
  <2> HIDE DEF r
  <2>4. r \in [Kinds -> 0..Most]
    <3>1. \A kind \in Kinds : r[kind] \in Nat /\ files[kind] \in 0..Most /\ r[kind] <= files[kind]
      BY <1>1, <2>3
    <3>2. \A kind \in Kinds : r[kind] \in 0..Most
      BY <1>1, <3>1
    <3> QED  BY <2>3, <3>2
  <2>5. files' \in [Kinds -> 0..Most] /\ rest' \in 0..Cooldown
    BY <1>1, <2>1, <2>4 DEF r
  <2> QED  BY <1>1, <1>2, <2>1, <2>5 DEF DiskTypeOK
<1>3. CASE HalfMinute
  <2>1. looked' = FALSE /\ UNCHANGED <<files, other, wrote>>
        /\ rest' = IF rest = 0 THEN 0 ELSE rest - 1
    BY <1>3 DEF HalfMinute
  <2>2. rest' \in 0..Cooldown
    BY <1>1, <2>1
  <2> QED  BY <1>1, <2>1, <2>2 DEF DiskTypeOK
<1>4. CASE RestartGuard
  <2>1. looked' = FALSE /\ rest' = 0 /\ UNCHANGED <<files, other, wrote>>
    BY <1>4 DEF RestartGuard
  <2>2. rest' \in 0..Cooldown
    BY <1>1, <2>1
  <2> QED  BY <1>1, <2>1, <2>2 DEF DiskTypeOK
<1>5. CASE DataGrows
  BY <1>1, <1>5 DEF DataGrows, DiskTypeOK
<1>6. CASE UNCHANGED diskVars
  BY <1>1, <1>6 DEF diskVars, DiskTypeOK
<1> QED  BY <1>2, <1>3, <1>4, <1>5, <1>6 DEF DiskNext

(* Files, times and growth keep their types, for any sizes and thresholds.   *)
THEOREM DiskTypeCorrect == DiskSpec => []DiskTypeOK
<1>1. DiskTypeOK /\ [DiskNext]_diskVars => DiskTypeOK'
  BY DiskStep
<1> QED  BY <1>1, DiskInitInv, PTL DEF DiskSpec

(* A sweep overdraws its budget by less than the size of a file.             *)
THEOREM SweepsAreBounded == DiskSpec => SweepStaysInBudget
<1>1. ASSUME DiskTypeOK, [DiskNext]_diskVars
      PROVE  FileSize * Count(files) < FileSize * Count(files') + Budget + FileSize
  <2>1. /\ files \in [Kinds -> Nat] /\ files' \in [Kinds -> Nat] /\ other \in Nat
    BY <1>1, DiskStep, DiskAssumption DEF DiskTypeOK
  <2>2. Count(files) <= Count(files') + Files
    <3>1. Count(files) \in Nat /\ Files \in Nat
      BY <2>1, BudgetOfFiles DEF Count, Kinds
    <3>2. CASE UNCHANGED files
      BY <3>1, <3>2
    <3>3. CASE files' = ReclaimTieredStorage(files, other)
      BY <2>1, <3>3, SweepIs
    <3> QED  BY <1>1, <3>2, <3>3, DiskStep
  <2> DEFINE m == Count(files)
             n == Count(files')
             k == Files
  <2>3. m \in Nat /\ n \in Nat /\ k \in Nat /\ m <= n + k
    BY <2>1, <2>2, BudgetOfFiles DEF Count, Kinds
  <2>4. FileSize \in Nat /\ Budget \in Nat /\ FileSize * k < Budget + FileSize
    BY BudgetOfFiles, DiskAssumption
  <2> HIDE DEF m, n, k
  <2>5. PICK d \in Nat : m + d = n + k
    <3>1. (n + k) - m \in Nat /\ m + ((n + k) - m) = n + k
      BY <2>3
    <3> QED  BY <3>1
  <2>6. /\ FileSize * m \in Nat /\ FileSize * n \in Nat /\ FileSize * k \in Nat /\ FileSize * d \in Nat
        /\ FileSize * m + FileSize * d = FileSize * n + FileSize * k
    BY <2>3, <2>4, <2>5, Z3
  <2>7. FileSize * m < FileSize * n + Budget + FileSize
    <3> DEFINE fm == FileSize * m
               fn == FileSize * n
               fk == FileSize * k
               fd == FileSize * d
    <3>1. fm \in Nat /\ fn \in Nat /\ fk \in Nat /\ fd \in Nat /\ fm + fd = fn + fk
      BY <2>6
    <3>2. fk < Budget + FileSize /\ Budget \in Nat /\ FileSize \in Nat
      BY <2>4
    <3> HIDE DEF fm, fn, fk, fd
    <3>3. fm < fn + Budget + FileSize
      BY <3>1, <3>2
    <3> QED  BY <3>3 DEF fm, fn
  <2> QED  BY <2>7 DEF m, n
<1> QED  BY <1>1, DiskTypeCorrect, PTL DEF DiskSpec, SweepStaysInBudget

(* The tiers are emptied in their order, whatever the early exits.           *)
THEOREM SweepsKeepOrder == DiskSpec => SweepsInOrder
<1>1. ASSUME DiskTypeOK, [DiskNext]_diskVars
      PROVE  /\ Packages(files') # Packages(files) => Journals(files') = 0
             /\ TmpFiles(files') # TmpFiles(files) => Journals(files') + Packages(files') = 0
  <2>1. files \in [Kinds -> Nat] /\ other \in Nat
    BY <1>1, DiskAssumption DEF DiskTypeOK
  <2>2. CASE UNCHANGED files
    BY <2>2
  <2>3. CASE files' = ReclaimTieredStorage(files, other)
    BY <2>1, <2>3, SweepIs
  <2> QED  BY <1>1, <2>2, <2>3, DiskStep
<1> QED  BY <1>1, DiskTypeCorrect, PTL DEF DiskSpec, SweepsInOrder

(* A look that may sweep, under pressure and with a sweepable file left,     *)
(* deletes one: the number of files is the measure by which the pressure     *)
(* ends.                                                                     *)
THEOREM SweepsProgress == DiskSpec => SweepMakesRoom
<1>1. ASSUME DiskTypeOK, EvaluateDisk, PressureSatisfied, rest = 0, Count(files) > 0
      PROVE  Count(files') < Count(files)
  <2>1. files \in [Kinds -> Nat] /\ other \in Nat
    BY <1>1, DiskAssumption DEF DiskTypeOK
  <2>2. files' = ReclaimTieredStorage(files, other)
    BY <1>1 DEF EvaluateDisk
  <2> QED  BY <1>1, <2>1, <2>2, SweepIs DEF PressureSatisfied
<1>2. DiskTypeOK => (EvaluateDisk /\ PressureSatisfied /\ rest = 0 /\ Count(files) > 0
                       => Count(files') < Count(files))
  BY <1>1
<1> QED  BY <1>2, DiskTypeCorrect, PTL DEF DiskSpec, SweepMakesRoom

-----------------------------------------------------------------------------
(* The memory relief, for any processes of any tiers.  The notifier's part   *)
(* and the pages are statements about the records that the operators of one  *)
(* evaluation pass on.                                                       *)

NoteRecords ==
  [told: Levels, last: Levels, recent: BOOLEAN, conn: {"none", "open", "lost"}, deaf: BOOLEAN]
PageRecords == [cache: SUBSET Apps, inRam: SUBSET Apps]

(* OwedIsRemembered, of a record.                                            *)
Knows(n) == n \in NoteRecords /\ (~n.deaf => n.told = n.last)

(* The all-clear stands, or never will: it was forgotten or cannot be sent.  *)
EndKnown(n) == n.told = "normal" \/ n.deaf \/ n.conn = "lost"

(* Those who share their control group with tiers 0 to 2 alone.              *)
Spared == {p \in Apps : \A q \in Siblings(p) : Shielded(q)}

(* A pass takes pages away, and none of the spared.                          *)
Takes(m, r) ==
  /\ r \in PageRecords
  /\ r.cache \subseteq m.cache /\ r.inRam \subseteq m.inRam
  /\ Spared \cap m.cache \subseteq r.cache /\ Spared \cap m.inRam \subseteq r.inRam

(* The control group of every worker has lost file pages.                    *)
Dropped(m) == \A p \in Workers : ~ Siblings(p) \subseteq m.cache

ReliefInv == ReliefTypeOK /\ Knows(Note)

LEMMA ConnectedKnows ==
  ASSUME NEW n, Knows(n)
  PROVE  /\ Knows(Connected(n))
         /\ Connected(n).told = n.told /\ Connected(n).last = n.last
         /\ Connected(n).deaf = n.deaf
         /\ busUp => Connected(n).conn = "open" \/ Connected(n).conn = "lost"
<1>1. CASE n.conn = "none" /\ busUp
  <2> DEFINE c == [n EXCEPT !.conn = "open"]
  <2>1. c \in NoteRecords /\ c.told = n.told /\ c.last = n.last /\ c.deaf = n.deaf
        /\ c.conn = "open"
    BY DEF Knows, NoteRecords
  <2>2. Connected(n) = c
    BY <1>1 DEF Connected
  <2> HIDE DEF c
  <2> QED  BY <2>1, <2>2 DEF Knows
<1>2. CASE ~(n.conn = "none" /\ busUp)
  <2>1. Connected(n) = n
    BY <1>2 DEF Connected
  <2> QED  BY <1>2, <2>1 DEF Knows, NoteRecords
<1> QED  BY <1>1, <1>2

LEMMA HeardIs ==
  ASSUME NEW n, Knows(n), NEW level \in Levels
  PROVE  Knows(Heard(n, level)) /\ Heard(n, level).told = level
BY DEF Knows, NoteRecords, Heard, Levels

LEMMA NotifyKnows ==
  ASSUME NEW n, Knows(n), NEW level \in Levels
  PROVE  Knows(Notify(n, level))
BY ConnectedKnows, HeardIs DEF Notify

(* With the bus open, whoever asked for the all-clear gets it, unless what   *)
(* stands was forgotten or the connection is lost.                           *)
LEMMA AllClear ==
  ASSUME NEW n, Knows(n), busUp
  PROVE  EndKnown(Notify(n, "normal"))
<1> DEFINE c == Connected(n)
<1>1. /\ Knows(c) /\ c.told = n.told /\ c.last = n.last /\ c.deaf = n.deaf
      /\ c.conn = "open" \/ c.conn = "lost"
  BY ConnectedKnows
<1>2. Heard(c, "normal").told = "normal"
  BY <1>1, HeardIs DEF Levels
<1>3. Notify(n, "normal") =
        IF Emits(c) /\ ~Suppressed(n, "normal") THEN Heard(c, "normal") ELSE c
  BY DEF Notify
<1> HIDE DEF c
<1>4. CASE Emits(c) /\ ~Suppressed(n, "normal")
  BY <1>2, <1>3, <1>4 DEF EndKnown
<1>5. CASE ~Emits(c)
  BY <1>1, <1>3, <1>5 DEF Emits, EndKnown
<1>6. CASE Suppressed(n, "normal")
  BY <1>1, <1>3, <1>6 DEF Suppressed, Knows, EndKnown
<1> QED  BY <1>4, <1>5, <1>6

LEMMA CloseKnows ==
  ASSUME NEW n, Knows(n)
  PROVE  Knows(CloseNotifier(n))
<1> DEFINE said == IF n.last = "normal" THEN n ELSE Notify(n, "normal")
<1>1. said \in NoteRecords
  BY NotifyKnows DEF Knows, Levels
<1>2. CloseNotifier(n) = [said EXCEPT !.last = "normal", !.recent = FALSE, !.conn = "none",
                                      !.deaf = said.told # "normal"]
  BY DEF CloseNotifier
<1> HIDE DEF said
<1> QED  BY <1>1, <1>2 DEF Knows, NoteRecords, Levels

LEMMA TakesInTurn ==
  ASSUME NEW m, NEW r, NEW q, Takes(m, r), Takes(r, q)
  PROVE  Takes(m, q)
BY DEF Takes

LEMMA DroppedStay ==
  ASSUME NEW m, NEW r, Takes(m, r), Dropped(m)
  PROVE  Dropped(r)
BY DEF Takes, Dropped

LEMMA TakesNothing ==
  ASSUME NEW m \in PageRecords
  PROVE  Takes(m, m)
BY DEF Takes, PageRecords

(* A pass over groups of processes that are not shielded touches none of     *)
(* the spared.                                                               *)
LEMMA GroupsAreNotSpared ==
  ASSUME NEW S, S \subseteq Apps, \A p \in S : ~Shielded(p)
  PROVE  Spared \cap UNION {Siblings(p) : p \in S} = {}
<1>1. SUFFICES ASSUME NEW q \in Spared, NEW p \in S, q \in Siblings(p) PROVE FALSE
  OBVIOUS
<1>2. p \in Siblings(q)
  BY <1>1 DEF Siblings
<1> QED  BY <1>1, <1>2 DEF Spared

LEMMA ReclaimTakes ==
  ASSUME NEW m \in PageRecords, NEW S, S \subseteq Apps, \A p \in S : ~Shielded(p),
         NEW swappable, NEW r \in ReclaimPages(m, S, swappable)
  PROVE  Takes(m, r)
<1> DEFINE touched == UNION {Siblings(p) : p \in S}
<1>1. Spared \cap touched = {}
  BY GroupsAreNotSpared
<1> HIDE DEF touched
<1>2. PICK c \in LeftOf(m.cache, touched),
           k \in (IF swappable THEN LeftOf(m.inRam, touched) ELSE {m.inRam}) :
        r = [cache |-> c, inRam |-> k]
  BY DEF ReclaimPages, touched
<1>3. c \subseteq m.cache /\ Spared \cap m.cache \subseteq c
  <2>1. PICK T \in SUBSET (m.cache \cap touched) : c = m.cache \ T
    BY <1>2 DEF LeftOf
  <2> QED  BY <1>1, <2>1
<1>4. k \subseteq m.inRam /\ Spared \cap m.inRam \subseteq k
  <2>1. k = m.inRam \/ k \in LeftOf(m.inRam, touched)
    BY <1>2
  <2>2. ASSUME k \in LeftOf(m.inRam, touched)
        PROVE  k \subseteq m.inRam /\ Spared \cap m.inRam \subseteq k
    <3>1. PICK T \in SUBSET (m.inRam \cap touched) : k = m.inRam \ T
      BY <2>2 DEF LeftOf
    <3> QED  BY <1>1, <3>1
  <2> QED  BY <2>1, <2>2
<1> QED  BY <1>2, <1>3, <1>4 DEF Takes, PageRecords

(* As many as a pass takes, or fewer, are all taken.                         *)
LEMMA PicksAll ==
  ASSUME NEW W \in SUBSET Apps, NEW n \in Nat, Cardinality(W) <= n, NEW S \in Picks(W, n)
  PROVE  S = W
<1>1. IsFiniteSet(W) /\ S \in SUBSET W
  BY AppsAssumption, FS_Subset DEF Picks
<1>2. Cardinality(W) \in Nat /\ Cardinality(S) \in Nat /\ Cardinality(S) <= Cardinality(W)
      /\ (Cardinality(W) = Cardinality(S) => W = S)
  BY <1>1, FS_Subset, FS_CardinalityType
<1>3. Cardinality(S) = n \/ S = W
  BY DEF Picks
<1> QED  BY <1>2, <1>3

LEMMA AdvisoryTakes ==
  ASSUME NEW m \in PageRecords, NEW devices, NEW r \in ActuateAdvisory(m, devices)
  PROVE  /\ Takes(m, r)
         /\ Cardinality(Workers) <= MaxReclaimed => Dropped(r)
<1> DEFINE W == Workers \cap Heavy(m)
<1>1. PICK S \in Picks(W, MaxReclaimed) : r \in ReclaimFiles(m, S, devices # "nothing")
  BY DEF ActuateAdvisory
<1>2. S \subseteq W /\ W \subseteq Workers /\ Workers \subseteq Apps
  BY DEF Picks, Workers
<1>3. \A p \in Workers : ~Shielded(p)
  BY AppsAssumption DEF Workers, Shielded
<1>4. /\ r \in ReclaimPages(m, S, devices # "nothing")
      /\ \A p \in S : ~ Siblings(p) \subseteq r.cache
  BY <1>1 DEF ReclaimFiles
<1>5. Takes(m, r)
  <2>1. S \subseteq Apps /\ \A p \in S : ~Shielded(p)
    BY <1>2, <1>3
  <2> HIDE DEF W
  <2> QED  BY <1>4, <2>1, ReclaimTakes
<1>6. ASSUME Cardinality(Workers) <= MaxReclaimed PROVE Dropped(r)
  <2>1. Cardinality(W) <= MaxReclaimed /\ W \in SUBSET Apps
    <3>1. IsFiniteSet(Workers) /\ W \in SUBSET Workers /\ Workers \in SUBSET Apps
      BY <1>2, AppsAssumption, FS_Subset
    <3>2. Cardinality(W) <= Cardinality(Workers) /\ IsFiniteSet(W)
      BY <3>1, FS_Subset
    <3>3. Cardinality(W) \in Nat /\ Cardinality(Workers) \in Nat
      BY <3>1, <3>2, FS_CardinalityType
    <3> HIDE DEF W
    <3> QED  BY <1>6, <3>1, <3>2, <3>3, ReclaimedAssumption
  <2>2. S = W
    BY <1>1, <2>1, PicksAll, ReclaimedAssumption
  <2>3. ASSUME NEW p \in Workers PROVE ~ Siblings(p) \subseteq r.cache
    <3>1. CASE p \in W
      BY <1>4, <2>2, <3>1
    <3>2. CASE p \notin W
      <4>1. p \notin m.cache /\ p \in Siblings(p)
        BY <1>2, <2>3, <3>2 DEF Heavy, Siblings
      <4> QED  BY <1>5, <4>1 DEF Takes
    <3> QED  BY <3>1, <3>2
  <2> QED  BY <2>3 DEF Dropped
<1> QED  BY <1>5, <1>6

LEMMA PageoutTakes ==
  ASSUME NEW m \in PageRecords, NEW focus, NEW devices
  PROVE  Takes(m, ActuatePageout(m, focus, devices))
<1>1. PageoutCandidates(m, focus) \cap Spared = {}
  BY DEF PageoutCandidates, Exempt, Spared, Shielded, Siblings
<1> DEFINE r == ActuatePageout(m, focus, devices)
<1>2. r = m \/ r = [cache |-> m.cache, inRam |-> m.inRam \ PageoutCandidates(m, focus)]
  BY DEF ActuatePageout, PageoutProcesses, PageRecords
<1> QED  BY <1>1, <1>2 DEF Takes, PageRecords

LEMMA TargetedTakes ==
  ASSUME NEW m \in PageRecords, NEW devices, NEW r \in TargetedReclaim(m, devices)
  PROVE  Takes(m, r)
<1>1. PICK S \in Picks(EligibleApps(m), 2) : r \in ReclaimPages(m, S, devices # "nothing")
  BY DEF TargetedReclaim
<1>2. S \subseteq Apps /\ \A p \in S : ~Shielded(p)
  BY DEF Picks, EligibleApps, Heavy, PageRecords, Shielded
<1> QED  BY <1>1, <1>2, ReclaimTakes

LEMMA RelieveTakes ==
  ASSUME Pages \in PageRecords, NEW next, NEW devices, NEW r \in Relieve(next, devices)
  PROVE  /\ Takes(Pages, r)
         /\ next # "Normal" /\ Cardinality(Workers) <= MaxReclaimed => Dropped(r)
<1>1. CASE next = "Normal"
  <2>1. r = Pages
    BY <1>1 DEF Relieve
  <2> QED  BY <1>1, <2>1, TakesNothing
<1>2. CASE next # "Normal"
  <2>1. PICK m \in ActuateAdvisory(Pages, devices), focus \in Apps \cup {"none"} :
          r = ActuatePageout(m, focus, devices)
    BY <1>2 DEF Relieve
  <2>2. Takes(Pages, m) /\ (Cardinality(Workers) <= MaxReclaimed => Dropped(m))
    BY AdvisoryTakes
  <2>3. Takes(m, r)
    BY <2>1, <2>2, PageoutTakes DEF Takes
  <2> QED  BY <2>2, <2>3, TakesInTurn, DroppedStay
<1> QED  BY <1>1, <1>2

LEMMA ReliefInitInv == ReliefInit => ReliefInv
BY DEF ReliefInit, ReliefInv, ReliefTypeOK, Levels, Shortages, Rungs, Knows, Note, NoteRecords

(* What the types of the variables say of the two records.                   *)
LEMMA ReliefRecords ==
  ASSUME ReliefInv
  PROVE  /\ Pages \in PageRecords /\ Knows(Note)
         /\ Note.told = told /\ Note.last = last /\ Note.recent = recent
         /\ Note.conn = conn /\ Note.deaf = deaf
         /\ Classify \in Rungs /\ LevelOf(Classify) \in Levels
         /\ \A devices \in SwapStates : Refresh(devices) \in BOOLEAN
<1>1. Classify \in Rungs
  BY DEF Classify, Rungs
<1>2. LevelOf(Classify) \in Levels
  BY <1>1 DEF LevelOf, Rungs, Levels
<1> QED  BY <1>1, <1>2 DEF ReliefInv, ReliefTypeOK, Pages, PageRecords, Note, Refresh

(* One look of the daemon, in any profile: the note is known, the pages go   *)
(* to nobody, and the workers' groups lose some whenever a rung is held.     *)
LEMMA LookIs ==
  ASSUME ReliefInv, EvaluateInPerformance \/ EvaluateRelief
  PROVE  /\ UNCHANGED <<reliefUp, busUp, shortage>>
         /\ rung' \in Rungs /\ cooling' \in BOOLEAN /\ roomy' \in BOOLEAN
         /\ \E n : /\ Knows(n) /\ SetNote(n)
                   /\ Classify = "Normal" /\ busUp /\ shortage = "none" => EndKnown(n)
         /\ \E m : /\ Takes(Pages, m) /\ SetPages(m)
                   /\ Classify # "Normal" /\ Cardinality(Workers) <= MaxReclaimed => Dropped(m)
<1> DEFINE level == Classify
<1>1. /\ Pages \in PageRecords /\ Knows(Note)
      /\ level \in Rungs /\ LevelOf(level) \in Levels
      /\ \A devices \in SwapStates : Refresh(devices) \in BOOLEAN
      /\ {"normal", "moderate", "critical"} = Levels
      /\ roomy \in BOOLEAN /\ cooling \in BOOLEAN
  BY ReliefRecords DEF Levels, ReliefInv, ReliefTypeOK
<1>2. CASE EvaluateInPerformance
  <2> DEFINE first == Notify(Note, IF level = "Normal" THEN "normal" ELSE "moderate")
             second == Notify(first, "critical")
  <2>1. /\ UNCHANGED <<reliefUp, busUp, shortage, cooling>>
        /\ rung' = level
        /\ SetNote(first) \/ (level = "Throttle" /\ SetNote(second))
        /\ \E devices \in SwapStates :
             /\ roomy' = IF level = "Normal" THEN roomy ELSE Refresh(devices)
             /\ \E m \in Relieve(level, devices) : SetPages(m)
    BY <1>2 DEF EvaluateInPerformance
  <2>2. Knows(first) /\ (level = "Normal" /\ busUp => EndKnown(first))
    BY <1>1, NotifyKnows, AllClear
  <2>3. Knows(second)
    <3> HIDE DEF first
    <3> QED  BY <1>1, <2>2, NotifyKnows
  <2>4. PICK devices \in SwapStates :
             /\ roomy' = IF level = "Normal" THEN roomy ELSE Refresh(devices)
             /\ \E m \in Relieve(level, devices) : SetPages(m)
    BY <2>1
  <2>5. PICK m \in Relieve(level, devices) : SetPages(m)
    BY <2>4
  <2>6. /\ Takes(Pages, m)
        /\ level # "Normal" /\ Cardinality(Workers) <= MaxReclaimed => Dropped(m)
    BY <1>1, RelieveTakes
  <2> HIDE DEF level, first, second
  <2>7. roomy' \in BOOLEAN /\ rung' \in Rungs /\ cooling' \in BOOLEAN
    BY <1>1, <2>1, <2>4
  <2>8. \E n : /\ Knows(n) /\ SetNote(n)
               /\ level = "Normal" /\ busUp /\ shortage = "none" => EndKnown(n)
    <3>1. CASE SetNote(first)
      BY <2>2, <3>1
    <3>2. CASE level = "Throttle" /\ SetNote(second)
      BY <2>3, <3>2
    <3> QED  BY <2>1, <3>1, <3>2
  <2> QED  BY <2>1, <2>5, <2>6, <2>7, <2>8 DEF level
<1>3. CASE EvaluateRelief
  <2> DEFINE targeted == TargetedPressure(level) /\ ~cooling
             note == Notify(Note, LevelOf(level))
             again == Notify(note, "moderate")
  <2>1. /\ UNCHANGED <<reliefUp, busUp, shortage>>
        /\ rung' = level
        /\ cooling' = IF targeted THEN TRUE ELSE cooling
        /\ SetNote(IF targeted THEN again ELSE note)
        /\ \E devices \in SwapStates :
             /\ roomy' = IF level = "Normal" THEN roomy ELSE Refresh(devices)
             /\ \E m \in IF targeted
                         THEN UNION {TargetedReclaim(r, devices) : r \in Relieve(level, devices)}
                         ELSE Relieve(level, devices) : SetPages(m)
    BY <1>3 DEF EvaluateRelief
  <2>2. Knows(note) /\ (level = "Normal" /\ busUp => EndKnown(note))
    BY <1>1, NotifyKnows, AllClear DEF LevelOf
  <2>3. Knows(again)
    <3> HIDE DEF note
    <3> QED  BY <1>1, <2>2, NotifyKnows
  <2>4. level = "Normal" /\ shortage = "none" => ~targeted
    BY DEF TargetedPressure
  <2>5. PICK devices \in SwapStates :
             /\ roomy' = IF level = "Normal" THEN roomy ELSE Refresh(devices)
             /\ \E m \in IF targeted
                         THEN UNION {TargetedReclaim(r, devices) : r \in Relieve(level, devices)}
                         ELSE Relieve(level, devices) : SetPages(m)
    BY <2>1
  <2>6. ASSUME NEW r \in Relieve(level, devices)
        PROVE  /\ Takes(Pages, r)
               /\ level # "Normal" /\ Cardinality(Workers) <= MaxReclaimed => Dropped(r)
    BY <1>1, RelieveTakes
  <2> HIDE DEF level, targeted, note, again
  <2>7. \E m : /\ Takes(Pages, m) /\ SetPages(m)
               /\ level # "Normal" /\ Cardinality(Workers) <= MaxReclaimed => Dropped(m)
    <3>1. CASE targeted
      <4>0. PICK r \in Relieve(level, devices) :
              \E m \in TargetedReclaim(r, devices) : SetPages(m)
        BY <2>5, <3>1
      <4>1. PICK m \in TargetedReclaim(r, devices) : SetPages(m)
        BY <4>0
      <4>2. Takes(Pages, r) /\ r \in PageRecords
        BY <2>6 DEF Takes
      <4>3. Takes(r, m)
        BY <4>2, TargetedTakes
      <4>4. level # "Normal" /\ Cardinality(Workers) <= MaxReclaimed => Dropped(m)
        BY <2>6, <4>3, DroppedStay
      <4> QED  BY <4>1, <4>2, <4>3, <4>4, TakesInTurn
    <3>2. CASE ~targeted
      <4>1. PICK m \in Relieve(level, devices) : SetPages(m)
        BY <2>5, <3>2
      <4> QED  BY <2>6, <4>1
    <3> QED  BY <3>1, <3>2
  <2>8. roomy' \in BOOLEAN /\ rung' \in Rungs /\ cooling' \in BOOLEAN
    BY <1>1, <2>1, <2>5
  <2>9. \E n : /\ Knows(n) /\ SetNote(n)
               /\ level = "Normal" /\ busUp /\ shortage = "none" => EndKnown(n)
    <3>1. CASE targeted
      <4>1. SetNote(again)
        BY <2>1, <3>1
      <4> QED  BY <2>3, <2>4, <3>1, <4>1
    <3>2. CASE ~targeted
      <4>1. SetNote(note)
        BY <2>1, <3>2
      <4> QED  BY <2>2, <4>1
    <3> QED  BY <3>1, <3>2
  <2> QED  BY <2>1, <2>7, <2>8, <2>9 DEF level
<1> QED  BY <1>2, <1>3

(* A note that is set is the note of the next state.                         *)
LEMMA SetNoteKnows ==
  ASSUME NEW n, Knows(n), SetNote(n)
  PROVE  /\ {recent', deaf'} \subseteq BOOLEAN /\ {told', last'} \subseteq Levels
         /\ conn' \in {"none", "open", "lost"}
         /\ Knows(Note)'
BY DEF Knows, NoteRecords, SetNote, Note

LEMMA ReliefStepInv ==
  ASSUME ReliefInv, [ReliefNext]_reliefVars
  PROVE  ReliefInv'
<1>1. ReliefTypeOK /\ Knows(Note)
  BY DEF ReliefInv
<1>2. CASE EvaluateInPerformance \/ EvaluateRelief
  <2>1. PICK n : Knows(n) /\ SetNote(n)
    BY <1>2, LookIs
  <2>2. PICK m : Takes(Pages, m) /\ SetPages(m)
    BY <1>2, LookIs
  <2>3. /\ UNCHANGED <<reliefUp, busUp, shortage>>
        /\ rung' \in Rungs /\ cooling' \in BOOLEAN /\ roomy' \in BOOLEAN
    BY <1>2, LookIs
  <2>4. cache' \subseteq Apps /\ inRam' \subseteq Apps
    BY <2>2 DEF Takes, PageRecords, SetPages
  <2> QED  BY <1>1, <2>1, <2>3, <2>4, SetNoteKnows DEF ReliefInv, ReliefTypeOK
<1>3. CASE StopRelief
  <2> DEFINE n == CloseNotifier(Note)
  <2>1. Knows(n)
    BY <1>1, CloseKnows
  <2>2. /\ SetNote(n) /\ reliefUp' = FALSE /\ cooling' = FALSE /\ rung' = "Normal"
        /\ UNCHANGED <<busUp, shortage, roomy, cache, inRam>>
    BY <1>3 DEF StopRelief
  <2> HIDE DEF n
  <2> QED  BY <1>1, <2>1, <2>2, SetNoteKnows DEF ReliefInv, ReliefTypeOK, Rungs
<1>4. CASE KillRelief
  BY <1>1, <1>4 DEF KillRelief, ReliefInv, ReliefTypeOK, Knows, Note, NoteRecords, Rungs, Levels
<1>5. CASE StartRelief
  <2> DEFINE c == Connected(Note)
  <2>1. c \in NoteRecords
    BY <1>1, ConnectedKnows DEF Knows
  <2>2. /\ reliefUp' = TRUE /\ conn' = c.conn /\ roomy' \in BOOLEAN
        /\ UNCHANGED <<told, last, recent, busUp, deaf, shortage, rung, cooling, cache, inRam>>
    BY <1>5 DEF StartRelief
  <2> HIDE DEF c
  <2>3. conn' \in {"none", "open", "lost"}
    BY <2>1, <2>2 DEF NoteRecords
  <2> QED  BY <1>1, <2>2, <2>3 DEF ReliefInv, ReliefTypeOK, Knows, Note, NoteRecords
<1>6. CASE ShortageChanges \/ BusChanges \/ BusDisconnects \/ QuarterMinute \/ TwentyMinutes
  BY <1>1, <1>6
     DEF ShortageChanges, BusChanges, BusDisconnects, QuarterMinute, TwentyMinutes, ReliefInv,
         ReliefTypeOK, Knows, Note, NoteRecords
<1>7. CASE AppWorks
  <2>1. cache' \subseteq Apps /\ inRam' \subseteq Apps
    BY <1>1, <1>7 DEF AppWorks, ReliefTypeOK
  <2>2. UNCHANGED <<reliefUp, told, last, recent, busUp, conn, deaf, shortage, rung, cooling, roomy>>
    BY <1>7 DEF AppWorks
  <2> QED  BY <1>1, <2>1, <2>2 DEF ReliefInv, ReliefTypeOK, Knows, Note, NoteRecords
<1>8. CASE UNCHANGED reliefVars
  BY <1>1, <1>8 DEF reliefVars, ReliefInv, ReliefTypeOK, Knows, Note, NoteRecords
<1> QED  BY <1>2, <1>3, <1>4, <1>5, <1>6, <1>7, <1>8 DEF ReliefNext

(* Warnings, rungs and pages keep their types, for any processes.            *)
THEOREM ReliefTypeCorrect == ReliefSpec => []ReliefTypeOK
<1>1. ReliefInv /\ [ReliefNext]_reliefVars => ReliefInv'
  BY ReliefStepInv
<1>2. ReliefInv => ReliefTypeOK
  BY DEF ReliefInv
<1> QED  BY <1>1, <1>2, ReliefInitInv, PTL DEF ReliefSpec

LEMMA ReliefInvHolds == ReliefSpec => []ReliefInv
<1>1. ReliefInv /\ [ReliefNext]_reliefVars => ReliefInv'
  BY ReliefStepInv
<1> QED  BY <1>1, ReliefInitInv, PTL DEF ReliefSpec

(* The notifier's record is what applications heard last, through refusals,  *)
(* broken connections, suppressed repetitions, and the three places that ask *)
(* for a warning.                                                            *)
THEOREM NotifierRemembers == ReliefSpec => []OwedIsRemembered
<1>1. ReliefInv => OwedIsRemembered
  BY DEF ReliefInv, Knows, Note, OwedIsRemembered
<1> QED  BY <1>1, ReliefInvHolds, PTL

(* The look that finds the shortage over announces it, or its connection is  *)
(* lost and no later one will.                                               *)
THEOREM EndIsHeard == ReliefSpec => EndIsAnnounced
<1>1. ASSUME ReliefInv, EvaluateRelief \/ EvaluateInPerformance, busUp, shortage = "none",
             rung # "Throttle"
      PROVE  told' = "normal" \/ deaf' \/ conn' = "lost"
  <2>1. Classify = "Normal"
    BY <1>1 DEF Classify, ReliefInv, ReliefTypeOK, Rungs
  <2>2. PICK n : SetNote(n) /\ EndKnown(n)
    BY <1>1, <2>1, LookIs
  <2> QED  BY <2>2 DEF SetNote, EndKnown
<1>2. ReliefInv =>
        ((EvaluateRelief \/ EvaluateInPerformance) /\ busUp /\ shortage = "none"
           /\ rung # "Throttle" => told' = "normal" \/ deaf' \/ conn' = "lost")
  BY <1>1
<1> QED  BY <1>2, ReliefInvHolds, PTL DEF EndIsAnnounced

(* No pass takes a page of the session, of audio or of the desktop, unless   *)
(* it was meant for another process of the same control group.               *)
THEOREM ShieldedAreSpared == ReliefSpec => ShieldedKeepPages
<1>1. ASSUME ReliefInv, [ReliefNext]_reliefVars
      PROVE  \A p \in Apps : (\A q \in Siblings(p) : Shielded(q)) =>
               (p \in cache => p \in cache') /\ (p \in inRam => p \in inRam')
  <2>1. CASE EvaluateInPerformance \/ EvaluateRelief
    <3>1. PICK m : Takes(Pages, m) /\ SetPages(m)
      BY <1>1, <2>1, LookIs
    <3> QED  BY <3>1 DEF Takes, SetPages, Spared, Pages
  <2>2. CASE ~(EvaluateInPerformance \/ EvaluateRelief)
    <3>1. cache \subseteq cache' /\ inRam \subseteq inRam'
      BY <1>1, <2>2
         DEF ReliefNext, StopRelief, KillRelief, StartRelief, ShortageChanges, BusChanges,
             BusDisconnects, QuarterMinute, TwentyMinutes, AppWorks, reliefVars
    <3> QED  BY <3>1
  <2> QED  BY <2>1, <2>2
<1> QED  BY <1>1, ReliefInvHolds, PTL DEF ReliefSpec, ShieldedKeepPages

(* One look under pressure takes file pages of the control group of every    *)
(* background worker, if there are no more of them than a pass takes.        *)
THEOREM WorkersAreDropped == ReliefSpec => LookDropsWorkers
<1>1. ASSUME ReliefInv, EvaluateRelief \/ EvaluateInPerformance,
             shortage \in {"Advisory", "Throttle"}, Cardinality(Workers) <= MaxReclaimed
      PROVE  \A p \in Workers : ~ Siblings(p) \subseteq cache'
  <2>1. Classify # "Normal"
    BY <1>1 DEF Classify, ReliefInv, ReliefTypeOK, Rungs
  <2>2. PICK m : SetPages(m) /\ Dropped(m)
    BY <1>1, <2>1, LookIs
  <2> QED  BY <2>2 DEF SetPages, Dropped
<1>2. ReliefInv => ((EvaluateRelief \/ EvaluateInPerformance)
                      /\ shortage \in {"Advisory", "Throttle"}
                      /\ Cardinality(Workers) <= MaxReclaimed
                      => \A p \in Workers : ~ Siblings(p) \subseteq cache')
  BY <1>1
<1> QED  BY <1>2, ReliefInvHolds, PTL DEF LookDropsWorkers

-----------------------------------------------------------------------------
(* The clients, for any profiles and bounds.  What the dashboard asks for is *)
(* in the socket, at its own address or given up; never in two of the three. *)

(* An answer to this request is what the dashboard waits for.                *)
Matches(pc, request) ==
  \/ pc = "setting" /\ request.verb = "PROFILE"
  \/ pc = "asking" /\ request.verb = "FULL_TELEMETRY"

Quiet(box) == \A i \in 1..Len(box) : box[i].from # "dash"

BoxInv(box, pc) ==
  /\ box \in Seq(Requests) /\ Len(box) <= Backlog
  /\ \A i \in 1..Len(box) : box[i].verb = "PROFILE" => box[i].mode \in Offered
  /\ \A i \in 1..Len(box) : box[i].from = "dash" => Matches(pc, box[i])
  /\ \A i, j \in 1..Len(box) : box[i].from = "dash" /\ box[j].from = "dash" => i = j

ClientsInv ==
  /\ serving \in BOOLEAN /\ unseen \in BOOLEAN
  /\ published \in Offered
  /\ charge \in {"ample", "low", "critical"}
  /\ tray \in Offered \cup {NoMode}
  /\ dash \in Dash /\ (dash.pc = "setting" => dash.asked \in Offered)
  /\ acts \in 0..MaxActs
  /\ BoxInv(inbox, dash.pc)
  /\ answer # NoAnswer \/ dash.pc = "idle" => Quiet(inbox)
  /\ AnswerIsOwn

LEMMA ShortSequences ==
  ASSUME NEW S, NEW n \in Nat, NEW s \in Seq(S), Len(s) <= n
  PROVE  s \in BoundedSeq(S, n)
<1>1. BoundedSeq(S, n) = UNION {[1..m -> S] : m \in 0..n}
  BY DEF BoundedSeq, SeqOf
<1>2. Len(s) \in 0..n /\ s \in [1..Len(s) -> S]
  OBVIOUS
<1> QED  BY <1>1, <1>2

(* The four things that happen to the socket.                                *)
LEMMA OthersPost ==
  ASSUME NEW box, NEW pc, BoxInv(box, pc), Len(box) < Backlog,
         NEW r \in Requests, r.from # "dash", r.verb = "PROFILE" => r.mode \in Offered
  PROVE  BoxInv(Append(box, r), pc) /\ (Quiet(box) => Quiet(Append(box, r)))
<1>1. Backlog \in Nat /\ box \in Seq(Requests) /\ Len(box) \in Nat
  BY ClientAssumption DEF BoxInv
<1> DEFINE q == Append(box, r)
<1>2. /\ q \in Seq(Requests) /\ Len(q) = Len(box) + 1
      /\ \A i \in 1..Len(q) : q[i] = IF i = Len(q) THEN r ELSE box[i]
  BY <1>1, AppendProperties
<1> HIDE DEF q
<1>3. \A i \in 1..Len(q) : i = Len(q) \/ i \in 1..Len(box)
  BY <1>1, <1>2
<1>4. \A i \in 1..Len(q) : q[i].from = "dash" => i \in 1..Len(box) /\ q[i] = box[i]
  BY <1>2, <1>3
<1>5. \A i \in 1..Len(q) : q[i].verb = "PROFILE" => q[i].mode \in Offered
  BY <1>2, <1>3 DEF BoxInv
<1>6. BoxInv(q, pc)
  BY <1>1, <1>2, <1>4, <1>5 DEF BoxInv
<1>7. Quiet(box) => Quiet(q)
  BY <1>4 DEF Quiet
<1> QED  BY <1>6, <1>7 DEF q

LEMMA DashPosts ==
  ASSUME NEW box, NEW before, NEW pc, BoxInv(box, before), Quiet(box), Len(box) < Backlog,
         NEW r \in Requests, Matches(pc, r), r.verb = "PROFILE" => r.mode \in Offered
  PROVE  BoxInv(Append(box, r), pc)
<1>1. Backlog \in Nat /\ box \in Seq(Requests) /\ Len(box) \in Nat
  BY ClientAssumption DEF BoxInv
<1> DEFINE q == Append(box, r)
<1>2. /\ q \in Seq(Requests) /\ Len(q) = Len(box) + 1
      /\ \A i \in 1..Len(q) : q[i] = IF i = Len(q) THEN r ELSE box[i]
  BY <1>1, AppendProperties
<1> HIDE DEF q
<1>3. \A i \in 1..Len(q) : i = Len(q) \/ i \in 1..Len(box)
  BY <1>1, <1>2
<1>4. \A i \in 1..Len(q) : q[i].from = "dash" => i = Len(q) /\ q[i] = r
  BY <1>2, <1>3 DEF Quiet
<1>5. \A i \in 1..Len(q) : q[i].verb = "PROFILE" => q[i].mode \in Offered
  BY <1>2, <1>3 DEF BoxInv
<1>6. BoxInv(q, pc)
  BY <1>1, <1>2, <1>4, <1>5 DEF BoxInv
<1> QED  BY <1>6 DEF q

LEMMA DashLeaves ==
  ASSUME NEW box, NEW before, NEW pc, BoxInv(box, before)
  PROVE  BoxInv(Leave(box), pc) /\ Quiet(Leave(box))
<1>1. Backlog \in Nat /\ box \in Seq(Requests) /\ Len(box) \in Nat /\ DOMAIN box = 1..Len(box)
  BY ClientAssumption DEF BoxInv
<1> DEFINE Left(r) == [r EXCEPT !.from = IF r.from = "dash" THEN "gone" ELSE r.from]
           q == Leave(box)
<1>2. \A r \in Requests : /\ Left(r) \in Requests /\ Left(r).from # "dash"
                          /\ Left(r).verb = r.verb /\ Left(r).mode = r.mode
  BY DEF Requests
<1>3. q = [i \in 1..Len(box) |-> Left(box[i])]
  BY <1>1 DEF Leave
<1> HIDE DEF Left
<1>4. \A i \in 1..Len(box) : box[i] \in Requests
  BY <1>1
<1>5. q \in [1..Len(box) -> Requests]
  BY <1>2, <1>3, <1>4
<1>6. q \in Seq(Requests) /\ Len(q) = Len(box)
  BY <1>1, <1>5
<1>7. \A i \in 1..Len(box) : /\ q[i].from # "dash"
                             /\ q[i].verb = box[i].verb /\ q[i].mode = box[i].mode
  BY <1>2, <1>3, <1>4
<1> HIDE DEF q
<1>8. BoxInv(q, pc) /\ Quiet(q)
  BY <1>6, <1>7 DEF BoxInv, Quiet
<1> QED  BY <1>8 DEF q

LEMMA DaemonReads ==
  ASSUME NEW box, NEW pc, BoxInv(box, pc), box # <<>>
  PROVE  /\ BoxInv(Tail(box), pc)
         /\ Head(box) \in Requests
         /\ Head(box).verb = "PROFILE" => Head(box).mode \in Offered
         /\ Head(box).from = "dash" => Matches(pc, Head(box)) /\ ~Quiet(box) /\ Quiet(Tail(box))
         /\ Quiet(box) => Quiet(Tail(box))
<1>1. Backlog \in Nat /\ box \in Seq(Requests) /\ Len(box) \in Nat /\ Len(box) # 0
  BY ClientAssumption DEF BoxInv
<1> DEFINE q == Tail(box)
<1>2. /\ q \in Seq(Requests) /\ Len(q) = Len(box) - 1
      /\ \A i \in 1..Len(q) : q[i] = box[i + 1]
      /\ Head(box) = box[1]
  BY <1>1
<1> HIDE DEF q
<1>3. 1 \in 1..Len(box) /\ \A i \in 1..Len(q) : i + 1 \in 1..Len(box) /\ i + 1 # 1
  BY <1>1, <1>2
<1>4. Len(q) <= Backlog
  BY <1>1, <1>2 DEF BoxInv
<1>5. \A i, j \in 1..Len(q) : q[i].from = "dash" /\ q[j].from = "dash" => i = j
  <2>1. SUFFICES ASSUME NEW i \in 1..Len(q), NEW j \in 1..Len(q),
                        q[i].from = "dash", q[j].from = "dash"
                 PROVE  i = j
    OBVIOUS
  <2>2. i + 1 = j + 1
    BY <1>2, <1>3, <2>1 DEF BoxInv
  <2> QED  BY <2>2
<1>6. BoxInv(q, pc)
  BY <1>2, <1>3, <1>4, <1>5 DEF BoxInv
<1>7. box[1] \in Requests
  BY <1>1, <1>3
<1>8. /\ box[1].verb = "PROFILE" => box[1].mode \in Offered
      /\ box[1].from = "dash" => Matches(pc, box[1]) /\ ~Quiet(box)
      /\ Quiet(box) => Quiet(q)
  BY <1>2, <1>3 DEF BoxInv, Quiet
<1>9. ASSUME box[1].from = "dash" PROVE Quiet(q)
  BY <1>2, <1>3, <1>9 DEF BoxInv, Quiet
<1> QED  BY <1>2, <1>6, <1>7, <1>8, <1>9 DEF q

LEMMA QuietBox ==
  ASSUME NEW box, NEW before, NEW pc, BoxInv(box, before), Quiet(box)
  PROVE  BoxInv(box, pc)
BY DEF BoxInv, Quiet

(* The dashboard's own record: what ends a query, what asks one, and what it *)
(* reads in between.                                                         *)
LEMMA DashSettles ==
  ASSUME NEW d \in Dash
  PROVE  Idle(d) \in Dash /\ Idle(d).pc = "idle" /\ Settle(d) \in Dash /\ Settle(d).pc = "idle"
<1>1. DashShownBy(d) \in Offered
  BY DEF DashShownBy, Dash
<1>2. Idle(d) \in Dash /\ Idle(d).pc = "idle"
  BY DEF Idle, Dash
<1>3. Settle(d) \in Dash /\ Settle(d).pc = "idle"
  <2> DEFINE shown == DashShownBy(d)
  <2>1. Settle(d) = [Idle(d) EXCEPT !.prev = shown] /\ shown \in Offered
    BY <1>1 DEF Settle
  <2> HIDE DEF shown
  <2> QED  BY <1>2, <2>1 DEF Dash
<1> QED  BY <1>2, <1>3

LEMMA DashAdopts ==
  ASSUME NEW d \in Dash, NEW mode \in Offered
  PROVE  Adopt(d, mode) \in Dash /\ Adopt(d, mode).pc = "idle"
BY DashSettles DEF Adopt, Dash

LEMMA DashWaits ==
  ASSUME NEW d \in Dash, NEW mode \in Offered
  PROVE  /\ [d EXCEPT !.pc = "asking"] \in Dash /\ [d EXCEPT !.pc = "asking"].pc = "asking"
         /\ [d EXCEPT !.pc = "setting", !.asked = mode] \in Dash
         /\ [d EXCEPT !.pc = "setting", !.asked = mode].pc = "setting"
         /\ [d EXCEPT !.pc = "setting", !.asked = mode].asked = mode
BY DEF Dash

LEMMA DashReads ==
  ASSUME NEW d \in Dash, NEW mode \in Offered
  PROVE  /\ ResolveOverride([d EXCEPT !.latest = mode], mode) \in Dash
         /\ Ingest(d, mode) \in Dash
<1>1. \A e \in Dash : ResolveOverride(e, mode) \in Dash
  BY DEF ResolveOverride, Dash
<1>2. [d EXCEPT !.latest = mode] \in Dash
  BY DEF Dash
<1>3. Ingest(d, mode) \in Dash
  BY <1>1, <1>2 DEF Ingest, Dash
<1> QED  BY <1>1, <1>2, <1>3

LEMMA DemotedIsOffered ==
  ASSUME NEW mode \in Offered, NEW now \in {"ample", "low", "critical"},
         NEW m \in Demoted(mode, now)
  PROVE  m \in Offered
BY ClientAssumption DEF Demoted

LEMMA NewDashIs == ASSUME published \in Offered PROVE NewDash \in Dash /\ NewDash.pc = "idle"
BY DEF NewDash, Dash

LEMMA ClientsInitInv == ClientsInit => ClientsInv
<1>1. SUFFICES ASSUME ClientsInit PROVE ClientsInv
  OBVIOUS
<1>2. published \in Offered /\ dash = NewDash /\ inbox = <<>> /\ answer = NoAnswer
  BY <1>1 DEF ClientsInit
<1>3. dash \in Dash /\ dash.pc = "idle"
  BY <1>2, NewDashIs
<1>4. BoxInv(inbox, dash.pc) /\ Quiet(inbox)
  BY <1>2, ClientAssumption DEF BoxInv, Quiet
<1>5. 0 \in 0..MaxActs
  BY ClientAssumption
<1> QED  BY <1>1, <1>2, <1>3, <1>4, <1>5 DEF ClientsInit, ClientsInv, AnswerIsOwn

(* An action that takes acts is counted.                                     *)
LEMMA ActsAreCounted == ASSUME acts \in 0..MaxActs, Act PROVE acts' \in 0..MaxActs
BY ClientAssumption DEF Act

(* The daemon answers the request it reads to whoever asked, and to nobody   *)
(* else.                                                                     *)
LEMMA HandleKeeps ==
  ASSUME ClientsInv, Handle
  PROVE  ClientsInv'
<1> DEFINE request == Head(inbox)
<1>1. /\ BoxInv(inbox, dash.pc) /\ inbox # <<>> /\ inbox' = Tail(inbox)
      /\ UNCHANGED <<serving, charge, tray, dash, acts>>
      /\ \/ request.verb = "PROFILE" /\ HandleProfile(request)
         \/ request.verb = "RESCAN" /\ HandleRescan(request)
         \/ request.verb = "FULL_TELEMETRY" /\ HandleTelemetry(request)
  BY DEF ClientsInv, Handle
<1>2. /\ BoxInv(Tail(inbox), dash.pc)
      /\ request.verb = "PROFILE" => request.mode \in Offered
      /\ request.from = "dash" => /\ Matches(dash.pc, request)
                                  /\ ~Quiet(inbox) /\ Quiet(Tail(inbox))
      /\ Quiet(inbox) => Quiet(Tail(inbox))
  BY <1>1, DaemonReads
<1> HIDE DEF request
<1>3. /\ published \in Offered /\ charge \in {"ample", "low", "critical"} /\ unseen \in BOOLEAN
      /\ (answer # NoAnswer \/ dash.pc = "idle" => Quiet(inbox)) /\ AnswerIsOwn
  BY DEF ClientsInv
<1>4. published' \in Offered /\ unseen' \in BOOLEAN
  <2>1. CASE request.verb = "PROFILE" /\ HandleProfile(request)
    BY <1>2, <1>3, <2>1 DEF HandleProfile, Publish
  <2>2. CASE request.verb = "RESCAN" /\ HandleRescan(request)
    <3>1. PICK mode \in Demoted(published, charge) : Publish(mode)
      BY <2>2 DEF HandleRescan
    <3> QED  BY <1>3, <3>1, DemotedIsOffered DEF Publish
  <2>3. CASE request.verb = "FULL_TELEMETRY" /\ HandleTelemetry(request)
    BY <1>3, <2>3 DEF HandleTelemetry
  <2> QED  BY <1>1, <2>1, <2>2, <2>3
<1>5. CASE request.from = "dash"
  <2>1. Quiet(inbox') /\ Matches(dash.pc, request) /\ dash' = dash
    BY <1>1, <1>2, <1>5
  <2>2. AnswerIsOwn'
    <3>1. CASE request.verb = "PROFILE" /\ HandleProfile(request)
      <4>1. answer'.says \in {"OK", "ERROR"}
        BY <1>5, <3>1 DEF HandleProfile, Tell
      <4>2. dash'.pc = "setting"
        BY <2>1, <3>1 DEF Matches
      <4> QED  BY <4>1, <4>2 DEF AnswerIsOwn
    <3>2. CASE request.verb = "FULL_TELEMETRY" /\ HandleTelemetry(request)
      <4>1. answer'.says = "JSON" /\ answer'.mode \in Offered
        BY <1>3, <1>5, <3>2 DEF HandleTelemetry, Tell
      <4>2. dash'.pc = "asking"
        BY <2>1, <3>2 DEF Matches
      <4> QED  BY <4>1, <4>2 DEF AnswerIsOwn
    <3>3. request.verb # "RESCAN"
      BY <2>1 DEF Matches
    <3> QED  BY <1>1, <3>1, <3>2, <3>3
  <2> QED  BY <1>1, <1>2, <1>4, <2>1, <2>2 DEF ClientsInv
<1>6. CASE request.from # "dash"
  <2>1. answer' = answer
    BY <1>1, <1>6 DEF HandleProfile, HandleRescan, HandleTelemetry, Tell
  <2>2. AnswerIsOwn'
    BY <1>1, <1>3, <2>1 DEF AnswerIsOwn
  <2>3. (answer # NoAnswer \/ dash.pc = "idle" => Quiet(inbox))'
    BY <1>1, <1>2, <1>3, <2>1
  <2> QED  BY <1>1, <1>2, <1>4, <2>2, <2>3 DEF ClientsInv
<1> QED  BY <1>5, <1>6

(* Publications that no client asked for, and the daemon's comings and       *)
(* goings: what waits in the socket goes with it.                            *)
LEMMA DaemonKeeps ==
  ASSUME ClientsInv, ObserveAgain \/ DaemonStarts \/ DaemonStops \/ BatteryChanges
  PROVE  ClientsInv'
<1>1. /\ published \in Offered /\ charge \in {"ample", "low", "critical"} /\ unseen \in BOOLEAN
      /\ acts \in 0..MaxActs /\ AnswerIsOwn
  BY DEF ClientsInv
<1>2. /\ published' \in Offered /\ charge' \in {"ample", "low", "critical"}
      /\ unseen' \in BOOLEAN /\ acts' \in 0..MaxActs /\ serving' \in BOOLEAN
  <2>1. CASE ObserveAgain
    <3>1. PICK mode \in Demoted(published, charge) : Publish(mode)
      BY <2>1 DEF ObserveAgain
    <3>2. mode \in Offered
      BY <1>1, DemotedIsOffered
    <3> QED  BY <1>1, <2>1, <3>1, <3>2 DEF ObserveAgain, Publish, ClientsInv
  <2>2. CASE DaemonStarts
    BY <1>1, <2>2, ActsAreCounted DEF DaemonStarts, Publish
  <2>3. CASE DaemonStops
    BY <1>1, <2>3, ActsAreCounted DEF DaemonStops
  <2>4. CASE BatteryChanges
    <3>1. charge' \in {"ample", "low", "critical"}
      BY <2>4 DEF BatteryChanges
    <3>2. PICK mode \in Demoted(published, charge') : Publish(mode)
      BY <2>4 DEF BatteryChanges
    <3>3. mode \in Offered
      BY <1>1, <3>1, <3>2, DemotedIsOffered
    <3> QED  BY <1>1, <2>4, <3>1, <3>2, <3>3, ActsAreCounted
             DEF BatteryChanges, Publish, ClientsInv
  <2> QED  BY <2>1, <2>2, <2>3, <2>4
<1>3. UNCHANGED <<answer, tray, dash>> /\ inbox' \in {inbox, <<>>}
  BY DEF ObserveAgain, DaemonStarts, DaemonStops, BatteryChanges
<1>4. AnswerIsOwn'
  BY <1>1, <1>3 DEF AnswerIsOwn
<1>5. BoxInv(inbox, dash.pc)' /\ (Quiet(inbox) => Quiet(inbox'))
  <2>1. BoxInv(<<>>, dash.pc) /\ Quiet(<<>>)
    BY ClientAssumption DEF BoxInv, Quiet
  <2> QED  BY <1>3, <2>1 DEF ClientsInv
<1> QED  BY <1>2, <1>3, <1>4, <1>5 DEF ClientsInv

(* The tray's requests are not the dashboard's; a new dashboard waits for    *)
(* nothing, and the old one's request is given up.                           *)
LEMMA TrayKeeps ==
  ASSUME ClientsInv, TrayReads \/ TrayClick \/ TrayOpensDashboard \/ TrayRestarts \/ DashRescans
  PROVE  ClientsInv'
<1>1. /\ published \in Offered /\ tray \in Offered \cup {NoMode} /\ acts \in 0..MaxActs
      /\ BoxInv(inbox, dash.pc) /\ AnswerIsOwn
      /\ (answer # NoAnswer \/ dash.pc = "idle" => Quiet(inbox))
  BY DEF ClientsInv
<1>2. CASE TrayReads
  <2>1. tray' \in Offered \cup {NoMode}
    BY <1>1, <1>2 DEF TrayReads, TrayAfterRead
  <2>2. UNCHANGED <<serving, published, charge, inbox, answer, dash, unseen, acts>>
    BY <1>2 DEF TrayReads
  <2> QED  BY <1>1, <2>1, <2>2 DEF ClientsInv, AnswerIsOwn
<1>3. CASE TrayClick
  <2>1. PICK wanted \in Offered :
          LET mode == IF wanted = 0 /\ charge # "ample" THEN 1 ELSE wanted
          IN tray' = mode /\ inbox' = Post("tray", "PROFILE", mode)
    BY <1>3 DEF TrayClick
  <2> DEFINE mode == IF wanted = 0 /\ charge # "ample" THEN 1 ELSE wanted
             r == [from |-> "tray", verb |-> "PROFILE", mode |-> mode]
  <2>2. mode \in Offered
    BY ClientAssumption
  <2>3. tray' = mode /\ inbox' \in {inbox, Append(inbox, r)}
    BY <2>1 DEF Post
  <2> HIDE DEF mode
  <2>4. r \in Requests /\ r.from # "dash" /\ r.mode \in Offered
    BY <2>2 DEF Requests
  <2>5. Len(inbox) < Backlog /\ acts' \in 0..MaxActs
        /\ UNCHANGED <<serving, published, charge, answer, dash, unseen>>
    BY <1>1, <1>3, ActsAreCounted DEF TrayClick, HasRoom
  <2> HIDE DEF r
  <2>6. BoxInv(inbox', dash.pc) /\ (Quiet(inbox) => Quiet(inbox'))
    BY <1>1, <2>3, <2>4, <2>5, OthersPost
  <2>7. AnswerIsOwn'
    BY <1>1, <2>5 DEF AnswerIsOwn
  <2> QED  BY <1>1, <2>2, <2>3, <2>5, <2>6, <2>7 DEF ClientsInv
<1>4. CASE TrayOpensDashboard
  <2>1. PICK tab \in 0..2 :
          inbox' = Leave(IF tab = 0 THEN Post("tray", "RESCAN", NoMode) ELSE inbox)
    BY <1>4 DEF TrayOpensDashboard
  <2> DEFINE r == [from |-> "tray", verb |-> "RESCAN", mode |-> NoMode]
             box == IF tab = 0 THEN Post("tray", "RESCAN", NoMode) ELSE inbox
  <2>2. inbox' = Leave(box) /\ box \in {inbox, Append(inbox, r)}
    BY <2>1 DEF Post
  <2>3. r \in Requests /\ r.from # "dash" /\ r.verb # "PROFILE"
    BY DEF Requests
  <2>4. /\ Len(inbox) < Backlog /\ acts' \in 0..MaxActs
        /\ dash' = NewDash /\ answer' = NoAnswer /\ unseen' = FALSE
        /\ UNCHANGED <<serving, published, charge, tray>>
    BY <1>1, <1>4, ActsAreCounted DEF TrayOpensDashboard, HasRoom
  <2> HIDE DEF r, box
  <2>5. BoxInv(box, dash.pc)
    BY <1>1, <2>2, <2>3, <2>4, OthersPost
  <2>6. BoxInv(inbox', dash'.pc) /\ Quiet(inbox')
    BY <2>2, <2>5, DashLeaves
  <2>7. dash' \in Dash /\ dash'.pc = "idle"
    BY <1>1, <2>4, NewDashIs
  <2> QED  BY <1>1, <2>4, <2>6, <2>7 DEF ClientsInv, AnswerIsOwn
<1>5. CASE TrayRestarts
  <2>1. tray' = NoMode /\ acts' \in 0..MaxActs
        /\ UNCHANGED <<serving, published, charge, inbox, answer, dash, unseen>>
    BY <1>1, <1>5, ActsAreCounted DEF TrayRestarts
  <2> QED  BY <1>1, <2>1 DEF ClientsInv, AnswerIsOwn
<1>6. CASE DashRescans
  <2> DEFINE r == [from |-> "gone", verb |-> "RESCAN", mode |-> NoMode]
  <2>1. /\ Len(inbox) < Backlog /\ acts' \in 0..MaxActs /\ inbox' \in {inbox, Append(inbox, r)}
        /\ UNCHANGED <<serving, published, charge, answer, tray, dash, unseen>>
    BY <1>1, <1>6, ActsAreCounted DEF DashRescans, HasRoom, Post
  <2>2. r \in Requests /\ r.from # "dash" /\ r.verb # "PROFILE"
    BY DEF Requests
  <2> HIDE DEF r
  <2>3. BoxInv(inbox', dash.pc) /\ (Quiet(inbox) => Quiet(inbox'))
    BY <1>1, <2>1, <2>2, OthersPost
  <2>4. AnswerIsOwn'
    BY <1>1, <2>1 DEF AnswerIsOwn
  <2> QED  BY <1>1, <2>1, <2>3, <2>4 DEF ClientsInv
<1> QED  BY <1>2, <1>3, <1>4, <1>5, <1>6

(* The dashboard asks only when it waits for nothing.                        *)
LEMMA DashAsks ==
  ASSUME ClientsInv, DashClick \/ PollRead
  PROVE  ClientsInv'
<1>1. /\ published \in Offered /\ dash \in Dash /\ acts \in 0..MaxActs
      /\ BoxInv(inbox, dash.pc) /\ AnswerIsOwn /\ serving \in BOOLEAN
      /\ (answer # NoAnswer \/ dash.pc = "idle" => Quiet(inbox))
  BY DEF ClientsInv
<1>2. dash.pc = "idle" /\ Len(inbox) < Backlog /\ UNCHANGED <<serving, published, charge, answer, tray>>
  BY DEF DashClick, PollRead, HasRoom
<1>3. Quiet(inbox) /\ answer = NoAnswer /\ answer' = NoAnswer
  BY <1>1, <1>2 DEF AnswerIsOwn
<1>4. AnswerIsOwn'
  BY <1>3 DEF AnswerIsOwn
<1>5. CASE DashClick
  <2>1. PICK mode \in Offered :
          /\ inbox' = Post("dash", "PROFILE", mode)
          /\ dash' = IF serving THEN [dash EXCEPT !.pc = "setting", !.asked = mode]
                     ELSE Adopt(dash, mode)
    BY <1>5 DEF DashClick
  <2>2. acts' \in 0..MaxActs /\ unseen' = unseen
    BY <1>1, <1>5, ActsAreCounted DEF DashClick
  <2> DEFINE r == [from |-> "dash", verb |-> "PROFILE", mode |-> mode]
  <2>3. CASE serving
    <3>1. inbox' = Append(inbox, r)
      BY <2>1, <2>3 DEF Post
    <3>2. r \in Requests /\ Matches("setting", r) /\ r.mode \in Offered
      BY DEF Requests, Matches
    <3>3. dash' = [dash EXCEPT !.pc = "setting", !.asked = mode]
      BY <2>1, <2>3
    <3>4. dash' \in Dash /\ dash'.pc = "setting" /\ dash'.asked = mode
      BY <1>1, <3>3, DashWaits DEF Dash
    <3> HIDE DEF r
    <3>5. BoxInv(inbox', "setting")
      BY <1>1, <1>2, <1>3, <3>1, <3>2, DashPosts
    <3> QED  BY <1>1, <1>2, <1>3, <1>4, <2>2, <3>4, <3>5 DEF ClientsInv
  <2>4. CASE ~serving
    <3>1. inbox' = inbox /\ dash' = Adopt(dash, mode)
      BY <2>1, <2>4 DEF Post
    <3>2. dash' \in Dash /\ dash'.pc = "idle"
      BY <1>1, <3>1, DashAdopts
    <3>3. BoxInv(inbox', dash'.pc) /\ Quiet(inbox')
      BY <1>1, <1>2, <1>3, <3>1, <3>2
    <3> QED  BY <1>1, <1>2, <1>4, <2>2, <3>2, <3>3 DEF ClientsInv
  <2> QED  BY <1>1, <2>3, <2>4
<1>6. CASE PollRead
  <2> DEFINE read == ResolveOverride([dash EXCEPT !.latest = published], published)
             r == [from |-> "dash", verb |-> "FULL_TELEMETRY", mode |-> NoMode]
  <2>1. read \in Dash
    BY <1>1, DashReads
  <2>2. acts' = acts /\ unseen' = FALSE
    BY <1>6 DEF PollRead
  <2>3. \/ serving /\ inbox' = Append(inbox, r) /\ dash' = [read EXCEPT !.pc = "asking"]
        \/ inbox' = inbox /\ dash' \in {Settle(read), Settle(dash)}
    BY <1>6 DEF PollRead, Post
  <2>4. CASE serving /\ inbox' = Append(inbox, r) /\ dash' = [read EXCEPT !.pc = "asking"]
    <3> HIDE DEF read
    <3>1. dash' \in Dash /\ dash'.pc = "asking"
      BY <1>1, <2>1, <2>4, DashWaits
    <3>2. r \in Requests /\ Matches("asking", r) /\ r.verb # "PROFILE"
      BY DEF Requests, Matches
    <3> HIDE DEF r
    <3>3. BoxInv(inbox', "asking")
      BY <1>1, <1>2, <1>3, <2>4, <3>2, DashPosts
    <3> QED  BY <1>1, <1>2, <1>3, <1>4, <2>2, <3>1, <3>3 DEF ClientsInv
  <2>5. CASE inbox' = inbox /\ dash' \in {Settle(read), Settle(dash)}
    <3> HIDE DEF read
    <3>1. dash' \in Dash /\ dash'.pc = "idle"
      <4>1. CASE dash' = Settle(read)
        BY <2>1, <4>1, DashSettles
      <4>2. CASE dash' = Settle(dash)
        BY <1>1, <4>2, DashSettles
      <4> QED  BY <2>5, <4>1, <4>2
    <3>2. BoxInv(inbox', dash'.pc) /\ Quiet(inbox')
      BY <1>1, <1>2, <1>3, <2>5, <3>1
    <3> QED  BY <1>1, <1>2, <1>4, <2>2, <3>1, <3>2 DEF ClientsInv
  <2> QED  BY <2>3, <2>4, <2>5
<1> QED  BY <1>5, <1>6

(* It stops waiting with its answer, or with the request given up.           *)
LEMMA DashHears ==
  ASSUME ClientsInv, QueryAnswered \/ QueryTimesOut
  PROVE  ClientsInv'
<1>1. /\ published \in Offered /\ dash \in Dash /\ acts \in 0..MaxActs
      /\ BoxInv(inbox, dash.pc) /\ AnswerIsOwn
      /\ (answer # NoAnswer => Quiet(inbox)) /\ (dash.pc = "setting" => dash.asked \in Offered)
  BY DEF ClientsInv
<1>2. UNCHANGED <<serving, published, charge, tray, unseen, acts>> /\ dash.pc # "idle"
  BY DEF QueryAnswered, QueryTimesOut
<1>3. CASE QueryAnswered
  <2>1. answer # NoAnswer /\ answer' = NoAnswer /\ inbox' = inbox
    BY <1>3 DEF QueryAnswered
  <2>2. dash' \in Dash /\ dash'.pc = "idle"
    <3>1. CASE answer.says = "JSON"
      <4>1. dash' = Settle(Ingest(dash, answer.mode)) /\ answer.mode \in Offered
        BY <1>1, <1>3, <2>1, <3>1 DEF QueryAnswered, AnswerIsOwn
      <4>2. Ingest(dash, answer.mode) \in Dash
        BY <1>1, <4>1, DashReads
      <4> QED  BY <1>1, <4>1, <4>2, DashSettles
    <3>2. CASE answer.says = "OK"
      <4>1. dash' = Adopt(dash, dash.asked) /\ dash.asked \in Offered
        BY <1>1, <1>3, <2>1, <3>2 DEF QueryAnswered, AnswerIsOwn
      <4> QED  BY <1>1, <4>1, DashAdopts
    <3>3. CASE answer.says = "ERROR"
      <4>1. dash' = Idle(dash)
        BY <1>3, <3>3 DEF QueryAnswered
      <4> QED  BY <1>1, <4>1, DashSettles
    <3> QED  BY <1>1, <2>1, <3>1, <3>2, <3>3 DEF AnswerIsOwn
  <2>3. BoxInv(inbox', dash'.pc) /\ Quiet(inbox')
    BY <1>1, <2>1, QuietBox
  <2> QED  BY <1>1, <1>2, <2>1, <2>2, <2>3 DEF ClientsInv, AnswerIsOwn
<1>4. CASE QueryTimesOut
  <2>1. answer = NoAnswer /\ answer' = NoAnswer /\ inbox' = Leave(inbox)
    BY <1>4 DEF QueryTimesOut
  <2>2. dash' = IF dash.pc = "setting" THEN Adopt(dash, dash.asked) ELSE Settle(dash)
    BY <1>4 DEF QueryTimesOut
  <2>3. dash' \in Dash /\ dash'.pc = "idle"
    <3>1. CASE dash.pc = "setting"
      <4>1. dash' = Adopt(dash, dash.asked) /\ dash.asked \in Offered
        BY <1>1, <2>2, <3>1
      <4> QED  BY <1>1, <4>1, DashAdopts
    <3>2. CASE dash.pc # "setting"
      <4>1. dash' = Settle(dash)
        BY <2>2, <3>2
      <4> QED  BY <1>1, <4>1, DashSettles
    <3> QED  BY <3>1, <3>2
  <2>4. BoxInv(inbox', dash'.pc) /\ Quiet(inbox')
    BY <1>1, <2>1, DashLeaves
  <2> QED  BY <1>1, <1>2, <2>1, <2>3, <2>4 DEF ClientsInv, AnswerIsOwn
<1> QED  BY <1>3, <1>4

LEMMA ClientsStepInv ==
  ASSUME ClientsInv, [ClientsNext]_clientVars
  PROVE  ClientsInv'
<1>1. CASE UNCHANGED clientVars
  BY <1>1 DEF clientVars, ClientsInv, AnswerIsOwn
<1> QED  BY <1>1, HandleKeeps, DaemonKeeps, TrayKeeps, DashAsks, DashHears
         DEF ClientsNext, DashLoop

LEMMA ClientsTypes == ClientsInv => ClientsTypeOK
<1>1. SUFFICES ASSUME ClientsInv PROVE ClientsTypeOK
  OBVIOUS
<1>2. inbox \in BoundedSeq(Requests, Backlog)
  BY <1>1, ClientAssumption, ShortSequences DEF ClientsInv, BoxInv
<1>3. answer.says \in {"nothing", "OK", "ERROR", "JSON"}
  BY <1>1 DEF ClientsInv, AnswerIsOwn, NoAnswer
<1> QED  BY <1>1, <1>2, <1>3 DEF ClientsInv, ClientsTypeOK

LEMMA ClientsInvHolds == ClientsSpec => []ClientsInv
<1>1. ClientsInv /\ [ClientsNext]_clientVars => ClientsInv'
  BY ClientsStepInv
<1> QED  BY <1>1, ClientsInitInv, PTL DEF ClientsSpec

(* Requests, answers and the two clients keep their types: the dashboard     *)
(* never shows a profile that is none, for what it shows after an answer is  *)
(* what it asked for, or what the answer names.                              *)
THEOREM ClientsTypeCorrect == ClientsSpec => []ClientsTypeOK
BY ClientsInvHolds, ClientsTypes, PTL

(* No late answer is taken for that of another question.                     *)
THEOREM AnswersAreOwn == ClientsSpec => []AnswerIsOwn
<1>1. ClientsInv => AnswerIsOwn
  BY DEF ClientsInv
<1> QED  BY <1>1, ClientsInvHolds, PTL

(* The dashboard asks one question at a time.                                *)
THEOREM QuestionsAreSingle == ClientsSpec => []OneQuestion
<1>1. ASSUME ClientsInv PROVE OneQuestion
  <2>1. DOMAIN inbox = 1..Len(inbox)
    BY <1>1 DEF ClientsInv, BoxInv
  <2> QED  BY <1>1, <2>1 DEF ClientsInv, BoxInv, Quiet, OneQuestion, Questions
<1> QED  BY <1>1, ClientsInvHolds, PTL

-----------------------------------------------------------------------------
(* The composition.  The components share no variable: every step of it is a *)
(* step of each of them, or leaves that one's variables alone.  What is      *)
(* proved of a component's steps holds of the composition.                   *)

ComponentSteps ==
  /\ [LedgerNext]_ledgerVars /\ [RingNext]_ringVars /\ [BaseNext]_swapVars
  /\ [DiskNext]_diskVars /\ [ReliefNext]_reliefVars /\ [ClientsNext]_clientVars

LEMMA StepsAreOfComponents == [MCNext]_mcVars => ComponentSteps
<1>1. SUFFICES ASSUME [MCNext]_mcVars PROVE ComponentSteps
  OBVIOUS
<1>2. \/ LedgerNext /\ UNCHANGED <<part, ringVars, swapVars, diskVars, reliefVars, clientVars>>
      \/ RingNext /\ UNCHANGED <<part, ledgerVars, swapVars, diskVars, reliefVars, clientVars>>
      \/ BaseNext /\ UNCHANGED <<part, ledgerVars, ringVars, diskVars, reliefVars, clientVars>>
      \/ DiskNext /\ UNCHANGED <<part, ledgerVars, ringVars, swapVars, reliefVars, clientVars>>
      \/ ReliefNext /\ UNCHANGED <<part, ledgerVars, ringVars, swapVars, diskVars, clientVars>>
      \/ ClientsNext /\ UNCHANGED <<part, ledgerVars, ringVars, swapVars, diskVars, reliefVars>>
      \/ UNCHANGED mcVars
  BY <1>1 DEF MCNext
<1> QED  BY <1>2 DEF ComponentSteps, mcVars

(* The six invariants, each of its own component.                            *)
HousekeepingInv == LedgerInv /\ RingInv /\ BaseInv /\ DiskTypeOK /\ ReliefInv /\ ClientsInv

LEMMA HousekeepingInvHolds == MCSpec => []HousekeepingInv
<1>1. MCInit => HousekeepingInv
  BY LedgerInitInv, RingInitInv, BaseInitInv, DiskInitInv, ReliefInitInv, ClientsInitInv
     DEF MCInit, HousekeepingInv
<1>2. HousekeepingInv /\ [MCNext]_mcVars => HousekeepingInv'
  <2>1. SUFFICES ASSUME HousekeepingInv, [MCNext]_mcVars PROVE HousekeepingInv'
    OBVIOUS
  <2>2. ComponentSteps
    BY <2>1, StepsAreOfComponents
  <2> QED  BY <2>1, <2>2, LedgerStepInv, RingStepInv, BaseStepInv, DiskStep, ReliefStepInv,
              ClientsStepInv
           DEF HousekeepingInv, ComponentSteps
<1> QED  BY <1>1, <1>2, PTL DEF MCSpec

(* Every behaviour of the composition keeps the types of all six components. *)
THEOREM HousekeepingTypes == MCSpec => []HousekeepingTypeOK
<1>1. HousekeepingInv => HousekeepingTypeOK
  <2>1. SUFFICES ASSUME HousekeepingInv PROVE HousekeepingTypeOK
    OBVIOUS
  <2>2. LedgerTypeOK
    BY <2>1, LedgerInvTypes DEF HousekeepingInv
  <2>3. RingTypeOK
    BY <2>1, RingInvTypes DEF HousekeepingInv
  <2>4. SwapTypeOK
    BY <2>1, BaseInvTypes DEF HousekeepingInv
  <2>5. ReliefTypeOK
    BY <2>1 DEF HousekeepingInv, ReliefInv
  <2> QED  BY <2>1, <2>2, <2>3, <2>4, <2>5, ClientsTypes DEF HousekeepingInv, HousekeepingTypeOK
<1> QED  BY <1>1, HousekeepingInvHolds, PTL

(* And with them the safety invariants of the ledger, the ring and the base  *)
(* swap, whichever component a behaviour is of.                              *)
THEOREM HousekeepingIsSafe ==
  MCSpec => [](EveryCapIsOnRecord /\ SnapshotsAreInOrder /\ SwapIsThere)
<1>1. HousekeepingInv => EveryCapIsOnRecord /\ SnapshotsAreInOrder /\ SwapIsThere
  BY LedgerInvCaps, BaseInvSwaps DEF HousekeepingInv, RingInv
<1> QED  BY <1>1, HousekeepingInvHolds, PTL
=============================================================================
