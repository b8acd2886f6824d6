------------------------ MODULE MitigationLedger_proofs ------------------------
(***************************************************************************)
(* Proofs about the ledger of the process mitigations, for any number of   *)
(* processes, programs, loads and CPUs, any room in the ledger and any     *)
(* number of kills.                                                        *)
(***************************************************************************)
EXTENDS MitigationLedger, TLAPS, FiniteSetTheorems, WellFoundedInduction

-----------------------------------------------------------------------------
(* The inductive invariant.                                                  *)

Procs ==
  [prog: Programs, life: Nat \ {0}, policy: SchedClasses, nice: -20..19, mask: SUBSET Cpus,
   slack: {DefaultSlack, RelaxedSlack}, load: Loads]

Entries ==
  [pid: Pids, start: Nat \ {0}, policy: SchedClasses, nice: -20..19, mask: SUBSET Cpus,
   slack: {DefaultSlack, RelaxedSlack}, held: BOOLEAN]

(* Nothing protects a program of this kind but that it plays.                *)
Plain(prog) ==
  /\ Tier(prog.comm) \notin 0..3 /\ ~prog.graphical
  /\ prog.comm \notin {"systemd", "pipewire", "kwin_wayland", "wattcurb"}

(* The nice values that a process may be left with: its own, a shield, that  *)
(* of a healed player - or anything, once a killed daemon left it capped.    *)
Home(p, q, nice) ==
  \/ <<p, q.life>> \in orphans
  \/ nice = q.prog.nice
  \/ /\ nice \notin CapNices
     /\ Tier(q.prog.comm) = 1 \/ q.prog.service \/ (p \in hosting.players /\ nice = 0)

OfProcess(e, p, q) == e.pid = p /\ e.start = q.life

(* The program that holds a number is that of its life; only a plain one is  *)
(* in the idle class.                                                        *)
ProcOK(p, q) ==
  /\ q \in Procs
  /\ q.life <= Len(hosting.programs[p]) /\ q.prog = hosting.programs[p][q.life]
  /\ q.policy = "idle" => Plain(q.prog)

(* A record is of this process, or of an earlier one with its number; it     *)
(* holds values to return to.                                                *)
EntryOK(e, procs) ==
  LET q == procs[e.pid] IN
  /\ e \in Entries
  /\ e.start <= q.life
  /\ e.start = q.life => /\ Home(e.pid, q, e.nice)
                         /\ e.policy = "idle" => Plain(q.prog)

(* A process has a nice value it may be left with, or a record.              *)
Accounted(p, q, ledger) ==
  Home(p, q, q.nice) \/ (q.nice \in CapNices /\ \E e \in ledger : OfProcess(e, p, q))

(* The state of the kernel and of the ledger, between the steps of a sweep.  *)
Kept(procs, ledger) ==
  /\ procs \in [Pids -> Procs]
  /\ \A p \in Pids : ProcOK(p, procs[p])
  /\ \A e \in ledger : EntryOK(e, procs)
  /\ \A e, f \in ledger : e.pid = f.pid => e = f
  /\ IsFiniteSet(ledger) /\ Cardinality(ledger) <= MaxTracked
  /\ \A p \in Pids : Accounted(p, procs[p], ledger)

LedgerInv ==
  /\ Kept(proc, tracked)
  /\ hosting \in Hostings /\ ledgerUp \in BOOLEAN /\ beat \in BOOLEAN
  /\ ~ledgerUp => tracked = {}
  /\ lastMode \in LedgerModes \cup {"none"}
  /\ owners \subseteq hosting.players /\ streaming \subseteq hosting.players
  /\ daemonKills \in 0..hosting.kills

-----------------------------------------------------------------------------
(* The actuators: each keeps the program and the life of a process.          *)

LEMMA TierIs == \A comm : Tier(comm) \in 0..5
BY DEF Tier

LEMMA MasksAreCpus ==
  /\ Cluster1 \subseteq Cpus /\ Cluster2 \subseteq Cpus
  /\ \A mode \in LedgerModes : HeadroomCpus(mode) \subseteq Cpus
<1>1. Cluster1 \subseteq Cpus
  BY LedgerAssumption DEF Cluster1, Cpus
<1>2. Cluster2 \subseteq Cpus
  BY DEF Cluster2
<1>3. ASSUME NEW mode \in LedgerModes PROVE HeadroomCpus(mode) \subseteq Cpus
  BY LedgerAssumption DEF HeadroomCpus, Cpus, LedgerModes
<1> QED  BY <1>1, <1>2, <1>3

LEMMA CapNicesAre == CapNices = {10, 15} /\ \A mode \in LedgerModes : CapNice(mode) \in CapNices
BY DEF CapNices, CapNice, LedgerModes

(* The same process, changed by the daemon.                                  *)
Changed(q, r) == r \in Procs /\ r.prog = q.prog /\ r.life = q.life /\ r.load = q.load

LEMMA ChangedTwice ==
  ASSUME NEW q, NEW r, NEW s, Changed(q, r), Changed(r, s)
  PROVE  Changed(q, s)
BY DEF Changed

LEMMA MaskIsChanged ==
  ASSUME NEW q \in Procs, NEW mask \in SUBSET Cpus
  PROVE  LET r == [q EXCEPT !.mask = mask] IN
         Changed(q, r) /\ r.nice = q.nice /\ r.policy = q.policy
BY DEF Procs, Changed

LEMMA GiveMaskIs ==
  ASSUME NEW q \in Procs, NEW mask \in SUBSET Cpus
  PROVE  LET r == GiveMask(q, mask) IN
         Changed(q, r) /\ r.nice = q.nice /\ r.policy = q.policy
BY MaskIsChanged DEF GiveMask

LEMMA SlackIsChanged ==
  ASSUME NEW q \in Procs, NEW slack \in {DefaultSlack, RelaxedSlack}
  PROVE  LET r == [q EXCEPT !.slack = slack] IN
         Changed(q, r) /\ r.nice = q.nice /\ r.policy = q.policy
BY DEF Procs, Changed

LEMMA NormalIs ==
  ASSUME NEW q \in Procs, NEW policy \in SchedClasses, NEW nice \in -20..19
  PROVE  LET r == SchedNormal(q, policy, nice) IN
         Changed(q, r) /\ r.nice = nice /\ r.policy = policy
BY DEF SchedNormal, Procs, Changed

LEMMA HealIs ==
  ASSUME NEW p, NEW q \in Procs, NEW playing, q.policy = "idle" => Plain(q.prog)
  PROVE  LET r == Heal(p, q, playing) IN
         /\ Changed(q, r)
         /\ r.nice = q.nice \/ (p \in playing /\ r.nice = 0)
         /\ r.policy = q.policy \/ r.policy = "other"
<1> DEFINE a == SchedNormal(q, "other", 0)
           b == [a EXCEPT !.slack = DefaultSlack]
           r == [b EXCEPT !.mask = Cpus]
           owed == q.policy = "idle" /\ (Immune(p, q.prog, playing) \/ LivenessCritical(q.prog)
                                         \/ AudioShielded(q.prog, playing) \/ GraphicalSession(q.prog))
<1>1. Changed(q, a) /\ a.nice = 0 /\ a.policy = "other"
  <2>1. "other" \in SchedClasses /\ 0 \in -20..19
    BY DEF SchedClasses
  <2> QED  BY <2>1, NormalIs
<1> HIDE DEF a
<1>2. Changed(a, b) /\ b.nice = 0 /\ b.policy = "other"
  BY <1>1, SlackIsChanged DEF Changed
<1> HIDE DEF b
<1>3. Changed(b, r) /\ r.nice = 0 /\ r.policy = "other"
  BY <1>2, MaskIsChanged DEF Changed
<1> HIDE DEF r
<1>4. Changed(q, r)
  BY <1>1, <1>2, <1>3, ChangedTwice
<1>5. Heal(p, q, playing) = IF owed THEN r ELSE q
  BY DEF Heal, a, b, r
<1>6. owed => p \in playing
  BY TierIs DEF Plain, Immune, LivenessCritical, AudioShielded, GraphicalSession
<1>7. Changed(q, q)
  BY DEF Changed
<1> HIDE DEF owed
<1> QED  BY <1>3, <1>4, <1>5, <1>6, <1>7

LEMMA LiftIs ==
  ASSUME NEW q \in Procs
  PROVE  LET r == LiftService(q) IN
         /\ Changed(q, r)
         /\ r.nice = q.nice \/ (q.prog.service /\ r.nice \notin CapNices)
         /\ r.policy = q.policy \/ r.policy = "other"
<1> DEFINE policy == IF q.policy = "idle" THEN "other" ELSE q.policy
           nice == IF Compositor(q.prog) THEN -10 ELSE -19
           r == [q EXCEPT !.policy = policy, !.nice = nice, !.mask = Cpus]
<1>1. policy \in SchedClasses /\ nice \in -20..19 /\ nice \notin CapNices
      /\ (policy = q.policy \/ policy = "other")
  BY CapNicesAre DEF SchedClasses, Procs
<1>2. LiftService(q) = IF q.prog.service THEN r ELSE q
  BY DEF LiftService
<1> HIDE DEF policy, nice
<1>3. Changed(q, r) /\ r.nice = nice /\ r.policy = policy
  BY <1>1 DEF Changed, Procs
<1>4. Changed(q, q)
  BY DEF Changed
<1> QED  BY <1>1, <1>2, <1>3, <1>4

LEMMA ShieldIs ==
  ASSUME NEW q \in Procs, NEW mode
  PROVE  LET r == Shield(q, mode) IN
         /\ Changed(q, r) /\ r.policy = q.policy
         /\ r.nice = q.nice \/ r.nice \notin CapNices
<1> DEFINE target == IF Compositor(q.prog) THEN -10 ELSE -5
           nice == IF q.nice > target THEN target ELSE q.nice
           mask == IF mode = "Performance" THEN Cpus ELSE Cluster1
           r == [q EXCEPT !.nice = nice, !.mask = mask]
<1>1. /\ nice \in -20..19 /\ (nice = q.nice \/ nice \notin CapNices)
      /\ mask \in SUBSET Cpus
  BY CapNicesAre, MasksAreCpus DEF Procs
<1>2. Shield(q, mode) = r
  BY DEF Shield
<1> HIDE DEF nice, mask
<1> QED  BY <1>1, <1>2 DEF Changed, Procs

LEMMA ThrottleIs ==
  ASSUME NEW p, NEW q \in Procs, NEW mode, NEW playing, q.policy = "idle" => Plain(q.prog)
  PROVE  LET r == ThrottleByLoad(p, q, mode, playing) IN
         /\ Changed(q, r) /\ r.nice = q.nice
         /\ r.policy = "idle" => Plain(r.prog)
<1> DEFINE idled == IF ShouldIdle(Tier(q.prog.comm), q.load, mode) THEN ApplyIdle(p, q, playing) ELSE q
           relaxed == IF ShouldRelax(Tier(q.prog.comm), q.load)
                      THEN ApplySlack(p, idled, RelaxedSlack, playing) ELSE idled
           mask == IF q.load.core \in Cluster1 THEN Cluster1 ELSE Cluster2
<1>1. ThrottleByLoad(p, q, mode, playing) = IF q.load.core = -1 THEN relaxed ELSE GiveMask(relaxed, mask)
  BY DEF ThrottleByLoad
<1>2. /\ Changed(q, idled) /\ idled.nice = q.nice
      /\ idled.policy = "idle" => Plain(idled.prog)
  <2>1. MayIdle(p, q, playing) => Plain(q.prog)
    BY TierIs DEF MayIdle, Plain, Immune, StallShielded, GraphicalSession
  <2>2. LET r == [q EXCEPT !.policy = "idle"] IN Changed(q, r) /\ r.nice = q.nice
    BY DEF Changed, Procs, SchedClasses
  <2>3. idled = q \/ (idled = [q EXCEPT !.policy = "idle"] /\ MayIdle(p, q, playing))
    BY DEF ApplyIdle
  <2>4. Changed(q, q)
    BY DEF Changed
  <2> HIDE DEF idled
  <2> QED  BY <2>1, <2>2, <2>3, <2>4 DEF Changed
<1> HIDE DEF idled
<1>3. /\ Changed(idled, relaxed) /\ relaxed.nice = idled.nice /\ relaxed.policy = idled.policy
  <2>1. relaxed = idled \/ relaxed = [idled EXCEPT !.slack = RelaxedSlack]
    BY DEF ApplySlack
  <2>2. idled \in Procs
    BY <1>2 DEF Changed
  <2> HIDE DEF relaxed
  <2> QED  BY <2>1, <2>2, SlackIsChanged DEF Changed
<1> HIDE DEF relaxed
<1>4. mask \in SUBSET Cpus
  BY MasksAreCpus
<1> HIDE DEF mask
<1>5. LET r == GiveMask(relaxed, mask) IN
      Changed(relaxed, r) /\ r.nice = relaxed.nice /\ r.policy = relaxed.policy
  BY <1>3, <1>4, GiveMaskIs DEF Changed
<1> QED  BY <1>1, <1>2, <1>3, <1>5, ChangedTwice DEF Changed

LEMMA CapIs ==
  ASSUME NEW q \in Procs, NEW mode \in LedgerModes
  PROVE  LET r == Cap(q, mode) IN
         Changed(q, r) /\ r.nice \in CapNices /\ r.policy = "batch"
<1> DEFINE a == ApplyAffinity(q, HeadroomCpus(mode))
<1>1. Changed(q, a)
  BY MasksAreCpus, MaskIsChanged DEF ApplyAffinity
<1>2. Cap(q, mode) = SchedNormal(a, "batch", CapNice(mode))
  BY DEF Cap, ApplyBatch, SchedNormal
<1> HIDE DEF a
<1>3. CapNice(mode) \in -20..19 /\ CapNice(mode) \in CapNices /\ "batch" \in SchedClasses
  BY CapNicesAre DEF SchedClasses
<1> DEFINE r == SchedNormal(a, "batch", CapNice(mode))
<1>4. Changed(a, r) /\ r.nice = CapNice(mode) /\ r.policy = "batch"
  BY <1>1, <1>3, NormalIs DEF Changed
<1> HIDE DEF r
<1> QED  BY <1>1, <1>2, <1>3, <1>4, ChangedTwice DEF r

LEMMA RollbackIs ==
  ASSUME NEW e \in Entries, NEW q \in Procs
  PROVE  LET r == RollbackOne(e, q)
             s == UncapOne(e, q)
         IN /\ Changed(q, r) /\ r.nice = e.nice /\ r.policy = e.policy
            /\ Changed(q, s) /\ s.nice = e.nice /\ s.policy = e.policy
<1> DEFINE a == SchedNormal(q, e.policy, e.nice)
           b == [a EXCEPT !.slack = e.slack]
           r == GiveMask(b, e.mask)
           c == [q EXCEPT !.mask = e.mask]
           s == SchedNormal(c, e.policy, e.nice)
<1>1. e.policy \in SchedClasses /\ e.nice \in -20..19 /\ e.mask \in SUBSET Cpus
      /\ e.slack \in {DefaultSlack, RelaxedSlack}
  BY DEF Entries
<1>2. RollbackOne(e, q) = r /\ UncapOne(e, q) = s
  BY DEF RollbackOne, UncapOne
<1>3. Changed(q, a) /\ a.nice = e.nice /\ a.policy = e.policy
  BY <1>1, NormalIs
<1>4. Changed(q, c)
  BY <1>1, MaskIsChanged
<1> HIDE DEF a, c
<1>5. Changed(a, b) /\ b.nice = a.nice /\ b.policy = a.policy
  BY <1>1, <1>3, SlackIsChanged DEF Changed
<1> HIDE DEF b
<1>6. Changed(b, r) /\ r.nice = b.nice /\ r.policy = b.policy
  BY <1>1, <1>5, GiveMaskIs DEF Changed
<1>7. Changed(c, s) /\ s.nice = e.nice /\ s.policy = e.policy
  BY <1>1, <1>4, NormalIs DEF Changed
<1> HIDE DEF r, s
<1> QED  BY <1>2, <1>3, <1>4, <1>5, <1>6, <1>7, ChangedTwice DEF r, s

-----------------------------------------------------------------------------
(* The steps of a sweep, on all processes and the ledger.                    *)

(* A rewriting of the processes under a ledger that may have lost records.   *)
LEMMA RewriteKeeps ==
  ASSUME NEW procs, NEW ledger, Kept(procs, ledger), NEW left \in SUBSET ledger,
         NEW r \in [Pids -> Procs],
         \A p \in Pids : /\ Changed(procs[p], r[p])
                         /\ r[p].policy = "idle" => Plain(r[p].prog)
                         /\ Accounted(p, r[p], left)
  PROVE  Kept(r, left)
<1>1. \A p \in Pids : ProcOK(p, r[p])
  BY DEF Kept, ProcOK, Changed
<1>2. \A e \in left : EntryOK(e, r)
  <2> TAKE e \in left
  <2>1. EntryOK(e, procs) /\ e.pid \in Pids
    BY DEF Kept, EntryOK, Entries
  <2>2. r[e.pid].prog = procs[e.pid].prog /\ r[e.pid].life = procs[e.pid].life
    BY <2>1 DEF Changed
  <2> QED  BY <2>1, <2>2 DEF EntryOK, Home
<1>3. \A e, f \in left : e.pid = f.pid => e = f
  BY DEF Kept
<1>4. IsFiniteSet(left) /\ Cardinality(left) <= MaxTracked
  <2>1. IsFiniteSet(ledger) /\ Cardinality(ledger) <= MaxTracked
    BY DEF Kept
  <2>2. Cardinality(left) <= Cardinality(ledger) /\ IsFiniteSet(left)
    BY <2>1, FS_Subset
  <2>3. Cardinality(left) \in Nat /\ Cardinality(ledger) \in Nat
    BY <2>1, <2>2, FS_CardinalityType
  <2> QED  BY <2>1, <2>2, <2>3, LedgerAssumption
<1> QED  BY <1>1, <1>2, <1>3, <1>4 DEF Kept

LEMMA KeptFacts ==
  ASSUME NEW procs, NEW ledger, Kept(procs, ledger), NEW p \in Pids
  PROVE  /\ procs \in [Pids -> Procs] /\ procs[p] \in Procs
         /\ procs[p].policy = "idle" => Plain(procs[p].prog)
         /\ Accounted(p, procs[p], ledger)
BY DEF Kept, ProcOK

(* A new nice value that is a home, of a process whose life goes on.         *)
LEMMA HomeMoves ==
  ASSUME NEW p, NEW q, NEW r, Changed(q, r), NEW nice, Home(p, q, nice)
  PROVE  Home(p, r, nice)
BY DEF Home, Changed

LEMMA AccountedMoves ==
  ASSUME NEW p, NEW q, NEW r, Changed(q, r), NEW ledger, Accounted(p, q, ledger), r.nice = q.nice
  PROVE  Accounted(p, r, ledger)
BY DEF Accounted, Home, OfProcess, Changed

LEMMA AuditKeeps ==
  ASSUME LedgerInv
  PROVE  Kept(Audited, tracked)
<1>1. Kept(proc, tracked) /\ owners \subseteq hosting.players
  BY DEF LedgerInv
<1>2. ASSUME NEW p \in Pids
      PROVE  LET s == LiftService(Heal(p, proc[p], owners)) IN
             /\ Changed(proc[p], s)
             /\ s.policy = "idle" => Plain(s.prog)
             /\ Accounted(p, s, tracked)
  <2> DEFINE q == proc[p]
             r == Heal(p, q, owners)
             s == LiftService(r)
  <2>1. q \in Procs /\ (q.policy = "idle" => Plain(q.prog)) /\ Accounted(p, q, tracked)
    BY <1>1, KeptFacts
  <2>2. /\ Changed(q, r)
        /\ r.nice = q.nice \/ (p \in owners /\ r.nice = 0)
        /\ r.policy = q.policy \/ r.policy = "other"
    BY <2>1, HealIs
  <2> HIDE DEF q, r
  <2>3. /\ Changed(r, s)
        /\ s.nice = r.nice \/ (r.prog.service /\ s.nice \notin CapNices)
        /\ s.policy = r.policy \/ s.policy = "other"
    BY <2>2, LiftIs DEF Changed
  <2> HIDE DEF s
  <2>4. Changed(q, s)
    BY <2>2, <2>3, ChangedTwice
  <2>5. s.policy = "idle" => Plain(s.prog)
    BY <2>1, <2>2, <2>3 DEF Changed
  <2>6. Accounted(p, s, tracked)
    <3>1. CASE r.nice = q.nice /\ s.nice = r.nice
      BY <2>1, <2>4, <3>1, AccountedMoves
    <3>2. CASE s.nice # r.nice
      BY <2>2, <2>3, <3>2 DEF Accounted, Home, Changed
    <3>3. CASE r.nice # q.nice /\ s.nice = r.nice
      BY <1>1, <2>2, <2>3, <3>3, CapNicesAre DEF Accounted, Home, Changed
    <3> QED  BY <3>1, <3>2, <3>3
  <2> QED  BY <2>4, <2>5, <2>6 DEF q, r, s
<1>3. /\ Audited \in [Pids -> Procs]
      /\ \A p \in Pids : Audited[p] = LiftService(Heal(p, proc[p], owners))
  BY <1>2 DEF Audited, Changed
<1> QED  BY <1>1, <1>2, <1>3, RewriteKeeps

(* Every record undone at once, as a change of profile and a stop do.        *)
LEMMA RollbackKeeps ==
  ASSUME NEW procs, NEW ledger, Kept(procs, ledger)
  PROVE  /\ Kept(RollbackTracked(procs, ledger), {})
         /\ \A p \in Pids : Changed(procs[p], RollbackTracked(procs, ledger)[p])
<1> DEFINE n(p) == IF \E e \in ledger : e.pid = p /\ SameProcess(e, procs[p])
                   THEN RollbackOne(CHOOSE e \in ledger : e.pid = p, procs[p])
                   ELSE procs[p]
<1>1. ASSUME NEW p \in Pids
      PROVE  /\ Changed(procs[p], n(p))
             /\ n(p).policy = "idle" => Plain(n(p).prog)
             /\ Accounted(p, n(p), {})
  <2>1. /\ procs[p] \in Procs /\ (procs[p].policy = "idle" => Plain(procs[p].prog))
        /\ Accounted(p, procs[p], ledger)
    BY KeptFacts
  <2>2. CASE \E e \in ledger : e.pid = p /\ SameProcess(e, procs[p])
    <3>1. PICK e \in ledger : e.pid = p /\ SameProcess(e, procs[p])
      BY <2>2
    <3>2. (CHOOSE f \in ledger : f.pid = p) = e
      BY <3>1 DEF Kept
    <3>3. e \in Entries /\ Home(p, procs[p], e.nice) /\ (e.policy = "idle" => Plain(procs[p].prog))
      BY <3>1 DEF Kept, EntryOK, SameProcess
    <3> DEFINE r == RollbackOne(e, procs[p])
    <3>4. n(p) = r
      BY <2>2, <3>2
    <3>5. Changed(procs[p], r) /\ r.nice = e.nice /\ r.policy = e.policy
      BY <2>1, <3>3, RollbackIs
    <3> HIDE DEF r, n
    <3>6. Home(p, r, r.nice)
      BY <3>3, <3>5, HomeMoves
    <3> QED  BY <3>3, <3>4, <3>5, <3>6 DEF Accounted, Changed
  <2>3. CASE ~\E e \in ledger : e.pid = p /\ SameProcess(e, procs[p])
    <3>1. n(p) = procs[p]
      BY <2>3
    <3>2. Home(p, procs[p], procs[p].nice)
      BY <2>1, <2>3 DEF Accounted, OfProcess, SameProcess
    <3> QED  BY <2>1, <3>1, <3>2 DEF Accounted, Changed
  <2> QED  BY <2>2, <2>3
<1>2. RollbackTracked(procs, ledger) = [p \in Pids |-> n(p)]
  BY DEF RollbackTracked
<1> HIDE DEF n
<1>3. [p \in Pids |-> n(p)] \in [Pids -> Procs]
  BY <1>1 DEF Changed
<1>4. Kept([p \in Pids |-> n(p)], {})
  <2> DEFINE r == [p \in Pids |-> n(p)]
  <2>1. \A p \in Pids : r[p] = n(p)
    OBVIOUS
  <2>2. r \in [Pids -> Procs]
    BY <1>3
  <2> HIDE DEF r
  <2> QED  BY <1>1, <2>1, <2>2, RewriteKeeps DEF r
<1> QED  BY <1>1, <1>2, <1>4

-----------------------------------------------------------------------------
(* The loop over the report.                                                 *)

LEMMA NatIsReached ==
  ASSUME NEW S \in SUBSET Nat, 0 \in S, \A n \in Nat : n \in S => n + 1 \in S
  PROVE  S = Nat
<1> DEFINE T == Nat \ S
           R == OpToRel(<, Nat)
<1> SUFFICES ASSUME T # {} PROVE FALSE
  OBVIOUS
<1>1. IsWellFoundedOn(R, Nat)
  BY NatLessThanWellFounded, Zenon
<1>2. \A x, y \in Nat : y < x => <<y, x>> \in R
  BY DEF OpToRel
<1> HIDE DEF R
<1>3. PICK x \in T : \A y \in T : ~ (<<y, x>> \in R)
  BY <1>1, WFMin
<1>4. x # 0 /\ x - 1 \in Nat /\ x - 1 < x /\ x = (x - 1) + 1
  OBVIOUS
<1>5. x - 1 \notin T
  BY <1>2, <1>3, <1>4
<1> QED  BY <1>3, <1>4, <1>5

IsWalk(f, n, s, mode, report, playing) ==
  f = [i \in 0..n |-> IF i = 0 THEN s ELSE Treat(f[i - 1], report[i], mode, playing)]

(* The recursive function of the loop exists.                                *)
LEMMA WalkExists ==
  ASSUME NEW s, NEW mode, NEW report, NEW playing, NEW m \in Nat
  PROVE  \E f : IsWalk(f, m, s, mode, report, playing)
<1> DEFINE S == {n \in Nat : \E f : IsWalk(f, n, s, mode, report, playing)}
<1>1. 0 \in S
  <2> DEFINE f == [i \in 0..0 |-> s]
  <2>1. IsWalk(f, 0, s, mode, report, playing)
    BY DEF IsWalk
  <2> HIDE DEF f
  <2> QED  BY <2>1
<1>2. ASSUME NEW n \in Nat, n \in S PROVE n + 1 \in S
  <2>1. PICK g : IsWalk(g, n, s, mode, report, playing)
    BY <1>2
  <2> DEFINE f == [i \in 0..(n + 1) |->
                     IF i = n + 1 THEN Treat(g[n], report[n + 1], mode, playing) ELSE g[i]]
             h == [i \in 0..(n + 1) |->
                     IF i = 0 THEN s ELSE Treat(f[i - 1], report[i], mode, playing)]
  <2>2. ASSUME NEW i \in 0..(n + 1) PROVE f[i] = h[i]
    <3>1. CASE i = n + 1
      <4>1. n \in 0..(n + 1) /\ n # n + 1 /\ i # 0 /\ i - 1 = n
        BY <3>1
      <4>2. f[n] = g[n] /\ f[i] = Treat(g[n], report[n + 1], mode, playing)
        BY <3>1, <4>1
      <4>3. h[i] = Treat(f[n], report[i], mode, playing)
        <5> HIDE DEF f
        <5> QED  BY <4>1
      <4> QED  BY <3>1, <4>2, <4>3
    <3>2. CASE i = 0
      <4>1. f[0] = g[0] /\ h[0] = s
        OBVIOUS
      <4>2. g[0] = s
        BY <2>1 DEF IsWalk
      <4> QED  BY <3>2, <4>1, <4>2
    <3>3. CASE i \in 1..n
      <4>1. i \in 0..n /\ i - 1 \in 0..n /\ i # 0 /\ i # n + 1 /\ i - 1 # n + 1 /\ i - 1 \in 0..(n + 1)
        BY <3>3
      <4>2. f[i] = g[i] /\ f[i - 1] = g[i - 1]
        BY <4>1
      <4>3. g[i] = Treat(g[i - 1], report[i], mode, playing)
        BY <2>1, <4>1 DEF IsWalk
      <4>4. h[i] = Treat(f[i - 1], report[i], mode, playing)
        <5> HIDE DEF f
        <5> QED  BY <4>1
      <4> QED  BY <4>2, <4>3, <4>4
    <3> QED  BY <3>1, <3>2, <3>3
  <2>3. f = h
    BY <2>2
  <2>4. IsWalk(f, n + 1, s, mode, report, playing)
    <3> HIDE DEF f
    <3> QED  BY <2>3 DEF IsWalk
  <2> HIDE DEF f
  <2> QED  BY <2>4
<1> HIDE DEF S
<1>3. S = Nat
  <2>1. S \in SUBSET Nat
    BY DEF S
  <2> QED  BY <1>1, <1>2, <2>1, NatIsReached
<1> QED  BY <1>3 DEF S

LEMMA WalkIs ==
  ASSUME NEW s, NEW mode, NEW report, NEW playing, Len(report) \in Nat
  PROVE  \E f : /\ IsWalk(f, Len(report), s, mode, report, playing)
                /\ Walk(s, mode, report, playing) = f[Len(report)]
<1> DEFINE f == CHOOSE f : IsWalk(f, Len(report), s, mode, report, playing)
<1>1. IsWalk(f, Len(report), s, mode, report, playing)
  BY WalkExists
<1>2. Walk(s, mode, report, playing) = f[Len(report)]
  BY DEF Walk, IsWalk
<1> HIDE DEF f
<1> QED  BY <1>1, <1>2

-----------------------------------------------------------------------------
(* The body of the loop, the de-escalation, and the sweep.                   *)

States == [proc: [Pids -> Procs], tracked: SUBSET Entries]

LEMMA KeptIsState ==
  ASSUME NEW procs, NEW ledger, Kept(procs, ledger)
  PROVE  [proc |-> procs, tracked |-> ledger] \in States
BY DEF Kept, EntryOK, States

LEMMA OneChanges ==
  ASSUME NEW procs, NEW ledger, Kept(procs, ledger), NEW p \in Pids, NEW r, Changed(procs[p], r),
         r.policy = "idle" => Plain(r.prog), Accounted(p, r, ledger)
  PROVE  Kept([procs EXCEPT ![p] = r], ledger)
<1> DEFINE n == [procs EXCEPT ![p] = r]
<1>1. procs \in [Pids -> Procs] /\ r \in Procs
  BY DEF Kept, Changed
<1>2. n \in [Pids -> Procs] /\ n[p] = r /\ \A o \in Pids \ {p} : n[o] = procs[o]
  BY <1>1
<1> HIDE DEF n
<1>3. ASSUME NEW o \in Pids
      PROVE  Changed(procs[o], n[o]) /\ (n[o].policy = "idle" => Plain(n[o].prog)) /\ Accounted(o, n[o], ledger)
  <2>1. CASE o = p
    BY <1>2, <2>1
  <2>2. CASE o # p
    BY <1>2, <2>2, KeptFacts DEF Changed
  <2> QED  BY <2>1, <2>2
<1>4. Kept(n, ledger)
  BY <1>2, <1>3, RewriteKeeps
<1> QED  BY <1>4 DEF n

LEMMA CapKeeps ==
  ASSUME NEW s \in States, Kept(s.proc, s.tracked), NEW p \in Pids, NEW mode \in LedgerModes, NEW playing,
         NEW slack \in {DefaultSlack, RelaxedSlack}
  PROVE  LET t == CapAndRecord(s, p, mode, playing, slack) IN
         t \in States /\ Kept(t.proc, t.tracked)
<1> DEFINE q == s.proc[p]
           r == Cap(q, mode)
           e == Entry(p, q, slack)
           procs == [s.proc EXCEPT ![p] = r]
           ledger == s.tracked \cup {e}
           caps == /\ ShouldCap(Tier(q.prog.comm), q.load, mode)
                   /\ ~\E f \in s.tracked : f.pid = p
                   /\ Cardinality(s.tracked) < MaxTracked
                   /\ CapApplies(p, q, mode, playing)
<1>1. CapAndRecord(s, p, mode, playing, slack) = IF caps THEN [proc |-> procs, tracked |-> ledger] ELSE s
  BY DEF CapAndRecord
<1>2. CASE ~caps
  BY <1>1, <1>2
<1>3. CASE caps
  <2>0. (\A f \in s.tracked : f.pid # p) /\ Cardinality(s.tracked) < MaxTracked
    BY <1>3
  <2>1. /\ s.proc \in [Pids -> Procs] /\ q \in Procs /\ (q.policy = "idle" => Plain(q.prog))
        /\ Home(p, q, q.nice) /\ q.life <= Len(hosting.programs[p]) /\ q.prog = hosting.programs[p][q.life]
    BY <2>0 DEF Kept, ProcOK, Accounted, OfProcess
  <2>2. Changed(q, r) /\ r.nice \in CapNices /\ r.policy = "batch"
    BY <2>1, CapIs
  <2>3. /\ e \in Entries /\ e.pid = p /\ e.start = q.life /\ e.nice = q.nice /\ e.policy = q.policy
    BY <2>1 DEF Entry, Entries, Procs
  <2> HIDE DEF q, r, e, caps
  <2>4. /\ procs \in [Pids -> Procs] /\ procs[p] = r
        /\ \A o \in Pids \ {p} : procs[o] = s.proc[o]
    BY <2>1, <2>2 DEF Changed
  <2> HIDE DEF procs
  <2>5. \A o \in Pids : ProcOK(o, procs[o])
    <3>1. ProcOK(p, r)
      BY <2>1, <2>2 DEF ProcOK, Changed
    <3> QED  BY <2>4, <3>1 DEF Kept
  <2>6. ASSUME NEW f \in ledger PROVE EntryOK(f, procs)
    <3>1. CASE f = e
      <4>1. Home(p, r, q.nice)
        BY <2>1, <2>2, HomeMoves
      <4>2. r.life = q.life /\ r.prog = q.prog /\ q.life \in Nat
        BY <2>1, <2>2 DEF Changed, Procs
      <4> QED  BY <2>1, <2>3, <2>4, <3>1, <4>1, <4>2 DEF EntryOK
    <3>2. CASE f \in s.tracked
      <4>1. EntryOK(f, s.proc) /\ f.pid \in Pids \ {p}
        BY <2>0, <3>2 DEF Kept, EntryOK, Entries
      <4> QED  BY <2>4, <4>1 DEF EntryOK
    <3> QED  BY <3>1, <3>2
  <2>7. \A f, g \in ledger : f.pid = g.pid => f = g
    BY <2>0, <2>3 DEF Kept
  <2>8. IsFiniteSet(ledger) /\ Cardinality(ledger) <= MaxTracked
    <3>1. IsFiniteSet(s.tracked)
      BY DEF Kept
    <3>2. Cardinality(s.tracked) \in Nat
      BY <3>1, FS_CardinalityType
    <3>3. IsFiniteSet(ledger) /\ Cardinality(ledger) <= Cardinality(s.tracked) + 1
      <4>1. /\ IsFiniteSet(s.tracked \cup {e})
            /\ Cardinality(s.tracked \cup {e}) =
                 IF e \in s.tracked THEN Cardinality(s.tracked) ELSE Cardinality(s.tracked) + 1
        BY <3>1, FS_AddElement
      <4> QED  BY <3>2, <4>1
    <3>4. Cardinality(ledger) \in Nat
      BY <3>3, FS_CardinalityType
    <3> QED  BY <2>0, <3>2, <3>3, <3>4, LedgerAssumption
  <2>9. ASSUME NEW o \in Pids PROVE Accounted(o, procs[o], ledger)
    <3>1. CASE o = p
      BY <2>2, <2>3, <2>4, <3>1 DEF Accounted, OfProcess, Changed
    <3>2. CASE o # p
      BY <2>4, <3>2 DEF Kept, Accounted
    <3> QED  BY <3>1, <3>2
  <2>10. Kept(procs, ledger)
    BY <2>4, <2>5, <2>6, <2>7, <2>8, <2>9 DEF Kept
  <2> HIDE DEF ledger
  <2>11. [proc |-> procs, tracked |-> ledger] \in States
    BY <2>10, KeptIsState
  <2> QED  BY <1>1, <1>3, <2>10, <2>11
<1> QED  BY <1>2, <1>3

LEMMA TreatKeeps ==
  ASSUME NEW s \in States, Kept(s.proc, s.tracked), NEW p \in Pids, NEW mode \in LedgerModes, NEW playing
  PROVE  LET t == Treat(s, p, mode, playing) IN
         t \in States /\ Kept(t.proc, t.tracked)
<1> DEFINE q == s.proc[p]
           tier == Tier(q.prog.comm)
           throttled == IF mode = "Performance" THEN q ELSE ThrottleByLoad(p, q, mode, playing)
           shielded == Shield(q, mode)
           a == [s EXCEPT !.proc[p] = shielded]
           b == [s EXCEPT !.proc[p] = throttled]
           t == Treat(s, p, mode, playing)
<1>1. /\ s.proc \in [Pids -> Procs] /\ q \in Procs /\ (q.policy = "idle" => Plain(q.prog))
      /\ Accounted(p, q, s.tracked) /\ Changed(q, q)
  BY KeptFacts DEF Changed
<1>2. \/ t = s
      \/ t = a /\ tier = 1
      \/ t = CapAndRecord(b, p, mode, playing, q.slack)
  BY DEF Treat
<1>3. ASSUME NEW r, Changed(q, r), r.policy = "idle" => Plain(r.prog), Accounted(p, r, s.tracked)
      PROVE  LET u == [s EXCEPT !.proc[p] = r] IN
             u \in States /\ Kept(u.proc, u.tracked)
  <2> DEFINE n == [s.proc EXCEPT ![p] = r]
             u == [s EXCEPT !.proc = n]
  <2>1. Kept(n, s.tracked)
    BY <1>3, OneChanges
  <2>2. n \in [Pids -> Procs]
    BY <2>1 DEF Kept
  <2> HIDE DEF n
  <2>3. u \in States /\ u.proc = n /\ u.tracked = s.tracked
    BY <2>2 DEF States
  <2> QED  BY <2>1, <2>3 DEF n
<1>4. ASSUME tier = 1 PROVE a \in States /\ Kept(a.proc, a.tracked)
  <2>1. Changed(q, shielded) /\ shielded.policy = q.policy
        /\ (shielded.nice = q.nice \/ shielded.nice \notin CapNices)
    BY <1>1, ShieldIs
  <2> HIDE DEF shielded
  <2>2. Accounted(p, shielded, s.tracked)
    <3>1. CASE shielded.nice = q.nice
      BY <1>1, <2>1, <3>1, AccountedMoves
    <3>2. CASE shielded.nice \notin CapNices
      BY <1>4, <2>1, <3>2 DEF Accounted, Home, Changed
    <3> QED  BY <2>1, <3>1, <3>2
  <2> QED  BY <1>1, <1>3, <2>1, <2>2 DEF Changed
<1>5. /\ b \in States /\ Kept(b.proc, b.tracked)
  <2>1. Changed(q, throttled) /\ throttled.nice = q.nice /\ (throttled.policy = "idle" => Plain(throttled.prog))
    BY <1>1, ThrottleIs
  <2> HIDE DEF throttled
  <2>2. Accounted(p, throttled, s.tracked)
    BY <1>1, <2>1, AccountedMoves
  <2> QED  BY <1>3, <2>1, <2>2
<1>6. q.slack \in {DefaultSlack, RelaxedSlack}
  BY <1>1 DEF Procs
<1> HIDE DEF a, b, q, tier, t
<1>7. LET u == CapAndRecord(b, p, mode, playing, q.slack) IN u \in States /\ Kept(u.proc, u.tracked)
  BY <1>5, <1>6, CapKeeps
<1> QED  BY <1>2, <1>4, <1>7 DEF t

(* What the loop may do to a calm process, and to one that plays.            *)
Spares(s, t, playing) ==
  /\ \A p \in Pids : t.proc[p].load = s.proc[p].load
  /\ \A p \in Pids \cap playing : s.proc[p].policy # "idle" => t.proc[p].policy # "idle"
  /\ \A e \in t.tracked \ s.tracked : ~Calm(s.proc[e.pid].load) /\ e.pid \notin playing

LEMMA SparesOn ==
  ASSUME NEW s, NEW t \in States, NEW u, NEW playing, Spares(s, t, playing), Spares(t, u, playing),
         \A e \in u.tracked : e.pid \in Pids
  PROVE  Spares(s, u, playing)
<1>1. ASSUME NEW e \in u.tracked \ s.tracked
      PROVE  ~Calm(s.proc[e.pid].load) /\ e.pid \notin playing
  <2>1. CASE e \in t.tracked
    BY <2>1 DEF Spares
  <2>2. CASE e \notin t.tracked
    BY <2>2 DEF Spares
  <2> QED  BY <2>1, <2>2
<1> QED  BY <1>1 DEF Spares

(* Nothing calm is greedy, in any profile.                                   *)
LEMMA CalmIsSpared ==
  ASSUME NEW r \in Loads, Calm(r), NEW tier, NEW mode
  PROVE  ~ShouldCap(tier, r, mode) /\ ~StillGreedy(r, mode)
<1>1. r.watts \in Nat /\ r.threads \in Nat /\ r.wdi \in Nat /\ r.runaway = FALSE
  BY LedgerAssumption DEF Calm
<1>2. r.watts <= 10 /\ r.wdi <= 30
  BY DEF Calm
<1>3. ~ShouldCap(tier, r, mode)
  BY <1>1, <1>2 DEF ShouldCap
<1>4. ~StillGreedy(r, mode)
  BY <1>1, <1>2 DEF StillGreedy
<1> QED  BY <1>3, <1>4

LEMMA ThrottleSpares ==
  ASSUME NEW p, NEW q \in Procs, NEW mode, NEW playing, p \in playing, q.policy # "idle"
  PROVE  ThrottleByLoad(p, q, mode, playing).policy # "idle"
<1> DEFINE relaxed == IF ShouldRelax(Tier(q.prog.comm), q.load)
                      THEN ApplySlack(p, q, RelaxedSlack, playing) ELSE q
           mask == IF q.load.core \in Cluster1 THEN Cluster1 ELSE Cluster2
<1>1. ApplyIdle(p, q, playing) = q
  BY DEF ApplyIdle, MayIdle, Immune
<1>2. ThrottleByLoad(p, q, mode, playing) = IF q.load.core = -1 THEN relaxed ELSE GiveMask(relaxed, mask)
  BY <1>1 DEF ThrottleByLoad
<1>3. relaxed = q
  BY DEF ApplySlack, Immune
<1>4. mask \in SUBSET Cpus
  BY MasksAreCpus
<1> HIDE DEF relaxed, mask
<1>5. GiveMask(q, mask).policy = q.policy
  BY <1>4, GiveMaskIs
<1> QED  BY <1>2, <1>3, <1>5

LEMMA TreatSpares ==
  ASSUME NEW s \in States, Kept(s.proc, s.tracked), NEW p \in Pids, NEW mode \in LedgerModes, NEW playing
  PROVE  Spares(s, Treat(s, p, mode, playing), playing)
<1> DEFINE q == s.proc[p]
           throttled == IF mode = "Performance" THEN q ELSE ThrottleByLoad(p, q, mode, playing)
           shielded == Shield(q, mode)
           a == [s EXCEPT !.proc[p] = shielded]
           b == [s EXCEPT !.proc[p] = throttled]
           t == Treat(s, p, mode, playing)
<1>1. s.proc \in [Pids -> Procs] /\ q \in Procs /\ (q.policy = "idle" => Plain(q.prog))
  BY KeptFacts
<1>2. t = s \/ t = a \/ t = CapAndRecord(b, p, mode, playing, q.slack)
  BY DEF Treat
<1>3. Changed(q, shielded) /\ shielded.policy = q.policy
  BY <1>1, ShieldIs
<1>4. /\ Changed(q, throttled)
      /\ p \in playing /\ q.policy # "idle" => throttled.policy # "idle"
  BY <1>1, ThrottleIs, ThrottleSpares DEF Changed
<1>5. ASSUME NEW r, Changed(q, r), p \in playing /\ q.policy # "idle" => r.policy # "idle"
      PROVE  LET u == [s EXCEPT !.proc[p] = r] IN
             /\ u \in States /\ Spares(s, u, playing) /\ u.tracked = s.tracked /\ u.proc[p] = r
             /\ \A o \in Pids \ {p} : u.proc[o] = s.proc[o]
  <2> DEFINE n == [s.proc EXCEPT ![p] = r]
             u == [s EXCEPT !.proc = n]
  <2>1. n \in [Pids -> Procs] /\ n[p] = r /\ \A o \in Pids \ {p} : n[o] = s.proc[o]
    BY <1>1, <1>5 DEF Changed
  <2> HIDE DEF n
  <2>2. u \in States /\ u.proc = n /\ u.tracked = s.tracked
    BY <2>1 DEF States
  <2> HIDE DEF u
  <2>3. \A o \in Pids : n[o].load = s.proc[o].load
    BY <1>5, <2>1 DEF Changed
  <2>4. Spares(s, u, playing)
    BY <1>5, <2>1, <2>2, <2>3 DEF Spares
  <2> QED  BY <2>1, <2>2, <2>4 DEF u, n
<1> HIDE DEF shielded, throttled
<1>6. Spares(s, a, playing)
  BY <1>3, <1>5
<1>7. /\ b \in States /\ Spares(s, b, playing) /\ b.tracked = s.tracked /\ b.proc[p] = throttled
      /\ \A o \in Pids \ {p} : b.proc[o] = s.proc[o]
  BY <1>4, <1>5
<1> HIDE DEF a, b
<1>8. Spares(b, CapAndRecord(b, p, mode, playing, q.slack), playing)
  <2> DEFINE w == b.proc[p]
             caps == /\ ShouldCap(Tier(w.prog.comm), w.load, mode)
                     /\ ~\E f \in b.tracked : f.pid = p
                     /\ Cardinality(b.tracked) < MaxTracked
                     /\ CapApplies(p, w, mode, playing)
             procs == [b.proc EXCEPT ![p] = Cap(w, mode)]
             e == Entry(p, w, q.slack)
  <2>1. CapAndRecord(b, p, mode, playing, q.slack) =
          IF caps THEN [proc |-> procs, tracked |-> b.tracked \cup {e}] ELSE b
    BY DEF CapAndRecord
  <2>2. w \in Procs /\ b.proc \in [Pids -> Procs] /\ w.load \in Loads
    BY <1>7 DEF States, Procs
  <2>3. e.pid = p
    BY DEF Entry
  <2>4. ASSUME caps PROVE ~Calm(w.load) /\ p \notin playing
    BY <2>2, <2>4, CalmIsSpared DEF CapApplies, Immune
  <2>5. Changed(w, Cap(w, mode)) /\ Cap(w, mode).policy = "batch"
    BY <2>2, CapIs
  <2>6. procs[p] = Cap(w, mode) /\ \A o \in Pids \ {p} : procs[o] = b.proc[o]
    BY <2>2
  <2>7. \A o \in Pids : procs[o].load = b.proc[o].load
    BY <2>5, <2>6 DEF Changed
  <2> HIDE DEF caps, procs, e
  <2> QED  BY <2>1, <2>3, <2>4, <2>5, <2>6, <2>7 DEF Spares
<1>9. \A e \in CapAndRecord(b, p, mode, playing, q.slack).tracked : e.pid \in Pids
  <2>1. \A e \in b.tracked : e.pid \in Pids
    BY <1>7 DEF States, Entries
  <2> QED  BY <2>1 DEF CapAndRecord, Entry
<1>10. Spares(s, s, playing)
  BY DEF Spares
<1> HIDE DEF q, t
<1> QED  BY <1>2, <1>6, <1>7, <1>8, <1>9, <1>10, SparesOn DEF t

LEMMA WalkKeeps ==
  ASSUME NEW s \in States, Kept(s.proc, s.tracked), NEW mode \in LedgerModes, NEW playing,
         NEW report, Len(report) \in Nat, \A i \in 1..Len(report) : report[i] \in Pids
  PROVE  LET t == Walk(s, mode, report, playing) IN
         t \in States /\ Kept(t.proc, t.tracked) /\ Spares(s, t, playing)
<1> DEFINE n == Len(report)
<1>1. PICK f : IsWalk(f, n, s, mode, report, playing) /\ Walk(s, mode, report, playing) = f[n]
  BY WalkIs
<1> DEFINE Good(i) == f[i] \in States /\ Kept(f[i].proc, f[i].tracked) /\ Spares(s, f[i], playing)
           S == {i \in Nat : i <= n => Good(i)}
<1>2. f[0] = s
  BY <1>1 DEF IsWalk
<1>3. ASSUME NEW i \in Nat, i + 1 <= n PROVE f[i + 1] = Treat(f[i], report[i + 1], mode, playing)
  <2>1. i + 1 \in 0..n /\ i + 1 # 0 /\ (i + 1) - 1 = i
    BY <1>3
  <2> QED  BY <1>1, <2>1 DEF IsWalk
<1>4. 0 \in S
  BY <1>2 DEF Spares
<1>5. ASSUME NEW i \in Nat, i \in S PROVE i + 1 \in S
  <2> SUFFICES ASSUME i + 1 <= n PROVE Good(i + 1)
    OBVIOUS
  <2>1. Good(i) /\ report[i + 1] \in Pids
    BY <1>5
  <2>2. f[i + 1] \in States /\ Kept(f[i + 1].proc, f[i + 1].tracked)
    BY <1>3, <2>1, TreatKeeps
  <2>3. Spares(f[i], f[i + 1], playing)
    BY <1>3, <2>1, TreatSpares
  <2>4. \A e \in f[i + 1].tracked : e.pid \in Pids
    BY <2>2 DEF States, Entries
  <2> QED  BY <2>1, <2>2, <2>3, <2>4, SparesOn
<1> HIDE DEF Good
<1>6. S = Nat
  <2>1. S \in SUBSET Nat
    OBVIOUS
  <2> HIDE DEF S
  <2> QED  BY <1>4, <1>5, <2>1, NatIsReached
<1>7. Good(n)
  BY <1>6
<1> QED  BY <1>1, <1>7 DEF Good

LEMMA DeescalateKeeps ==
  ASSUME NEW s \in States, Kept(s.proc, s.tracked), NEW mode, NEW report
  PROVE  LET t == Deescalate(s, mode, report) IN Kept(t.proc, t.tracked)
<1> DEFINE done == {e \in s.tracked : DropsRecord(e, s, mode, report)}
           left == s.tracked \ done
           n(p) == IF \E e \in done : e.pid = p /\ SameProcess(e, s.proc[p])
                   THEN UncapOne(CHOOSE e \in done : e.pid = p, s.proc[p])
                   ELSE s.proc[p]
           r == [p \in Pids |-> n(p)]
<1>1. Deescalate(s, mode, report) = [tracked |-> left, proc |-> r]
  BY DEF Deescalate
<1>2. done \subseteq s.tracked
  OBVIOUS
<1> HIDE DEF done
<1>3. ASSUME NEW p \in Pids
      PROVE  /\ Changed(s.proc[p], n(p))
             /\ n(p).policy = "idle" => Plain(n(p).prog)
             /\ Accounted(p, n(p), left)
  <2>1. /\ s.proc[p] \in Procs /\ (s.proc[p].policy = "idle" => Plain(s.proc[p].prog))
        /\ Accounted(p, s.proc[p], s.tracked)
    BY KeptFacts
  <2>2. CASE \E e \in done : e.pid = p /\ SameProcess(e, s.proc[p])
    <3>1. PICK e \in done : e.pid = p /\ SameProcess(e, s.proc[p])
      BY <2>2
    <3>2. (CHOOSE f \in done : f.pid = p) = e
      BY <1>2, <3>1 DEF Kept
    <3>3. e \in Entries /\ Home(p, s.proc[p], e.nice) /\ (e.policy = "idle" => Plain(s.proc[p].prog))
      BY <1>2, <3>1 DEF Kept, EntryOK, SameProcess
    <3> DEFINE u == UncapOne(e, s.proc[p])
    <3>4. n(p) = u
      BY <2>2, <3>2
    <3>5. Changed(s.proc[p], u) /\ u.nice = e.nice /\ u.policy = e.policy
      BY <2>1, <3>3, RollbackIs
    <3> HIDE DEF u, n
    <3>6. Home(p, u, u.nice)
      BY <3>3, <3>5, HomeMoves
    <3> QED  BY <3>3, <3>4, <3>5, <3>6 DEF Accounted, Changed
  <2>3. CASE ~\E e \in done : e.pid = p /\ SameProcess(e, s.proc[p])
    <3>1. n(p) = s.proc[p]
      BY <2>3
    <3>2. Accounted(p, s.proc[p], left)
      BY <2>1, <2>3 DEF Accounted, OfProcess, SameProcess
    <3> QED  BY <2>1, <3>1, <3>2 DEF Changed
  <2> QED  BY <2>2, <2>3
<1> HIDE DEF n
<1>4. r \in [Pids -> Procs] /\ \A p \in Pids : r[p] = n(p)
  BY <1>3 DEF Changed
<1> HIDE DEF r
<1>5. Kept(r, left)
  BY <1>2, <1>3, <1>4, RewriteKeeps
<1> QED  BY <1>1, <1>5

(* A report lists processes of the machine.                                  *)
LEMMA ReportIs ==
  ASSUME NEW report \in SetToAllKPermutations(Pids)
  PROVE  Len(report) \in Nat /\ \A i \in 1..Len(report) : report[i] \in Pids
<1>1. PICK S \in SUBSET Pids : report \in SetToSeqs(S)
  BY DEF SetToAllKPermutations
<1> DEFINE n == Cardinality(S)
<1>2. n \in Nat
  BY LedgerAssumption, FS_Subset, FS_CardinalityType
<1>3. report \in [1..n -> S]
  BY <1>1 DEF SetToSeqs
<1> HIDE DEF n
<1>4. Len(report) = n
  BY <1>2, <1>3
<1> QED  BY <1>2, <1>3, <1>4

LEMMA SweepKeeps ==
  ASSUME LedgerInv, LedgerSweep
  PROVE  Kept(proc', tracked') /\ lastMode' \in LedgerModes
<1>1. PICK mode \in hosting.modes, report \in SetToAllKPermutations(Pids) : Sweep(mode, report)
  BY DEF LedgerSweep
<1>2. mode \in LedgerModes
  BY HostingsAssumption DEF LedgerInv
<1> DEFINE first == [proc |-> Audited, tracked |-> tracked]
           start == ReleaseOnChange(first, mode)
           walked == Walk(start, mode, report, streaming)
           done == Deescalate(walked, mode, report)
<1>3. proc' = done.proc /\ tracked' = done.tracked /\ lastMode' = mode
  BY <1>1 DEF Sweep
<1>4. start \in States /\ Kept(start.proc, start.tracked)
  <2> DEFINE fresh == [proc |-> RollbackTracked(Audited, tracked), tracked |-> {}]
  <2>1. Kept(Audited, tracked)
    BY AuditKeeps
  <2>2. first \in States /\ Kept(first.proc, first.tracked)
    BY <2>1, KeptIsState
  <2>3. Kept(RollbackTracked(Audited, tracked), {})
    BY <2>1, RollbackKeeps
  <2>4. fresh \in States /\ Kept(fresh.proc, fresh.tracked)
    BY <2>3, KeptIsState
  <2>5. start = first \/ start = fresh
    BY DEF ReleaseOnChange
  <2> HIDE DEF start, first, fresh
  <2> QED  BY <2>2, <2>4, <2>5
<1> HIDE DEF start
<1>5. walked \in States /\ Kept(walked.proc, walked.tracked)
  BY <1>2, <1>4, ReportIs, WalkKeeps
<1> HIDE DEF walked
<1>6. Kept(done.proc, done.tracked)
  BY <1>5, DeescalateKeeps
<1> QED  BY <1>2, <1>3, <1>6

-----------------------------------------------------------------------------
(* The other steps.                                                          *)

LEMMA StartKeeps ==
  ASSUME LedgerInv, LedgerStart
  PROVE  Kept(proc', tracked')
<1>1. Kept(proc, {}) /\ tracked' = {} /\ proc' = [p \in Pids |-> Repair(proc[p])]
  BY DEF LedgerInv, LedgerStart
<1>2. ASSUME NEW p \in Pids
      PROVE  LET r == Repair(proc[p]) IN
             Changed(proc[p], r) /\ (r.policy = "idle" => Plain(r.prog)) /\ Accounted(p, r, {})
  <2> DEFINE r == Repair(proc[p])
  <2>1. proc[p] \in Procs /\ (proc[p].policy = "idle" => Plain(proc[p].prog)) /\ Accounted(p, proc[p], {})
    BY <1>1, KeptFacts
  <2>2. Changed(proc[p], r) /\ r.nice = proc[p].nice /\ r.policy = proc[p].policy
    <3>1. r = proc[p] \/ r = [proc[p] EXCEPT !.mask = Cpus]
      BY DEF Repair
    <3> DEFINE s == [proc[p] EXCEPT !.mask = Cpus]
    <3>2. Changed(proc[p], s) /\ s.nice = proc[p].nice /\ s.policy = proc[p].policy
      BY <2>1, MaskIsChanged
    <3>3. Changed(proc[p], proc[p])
      BY <2>1 DEF Changed
    <3> HIDE DEF r, s
    <3> QED  BY <3>1, <3>2, <3>3 DEF s
  <2> HIDE DEF r
  <2>3. Accounted(p, r, {})
    BY <2>1, <2>2, AccountedMoves
  <2> QED  BY <2>1, <2>2, <2>3 DEF Changed, r
<1>3. proc' \in [Pids -> Procs] /\ \A p \in Pids : proc'[p] = Repair(proc[p])
  BY <1>1, <1>2 DEF Changed
<1> QED  BY <1>1, <1>2, <1>3, RewriteKeeps

(* After a kill there are no records: what was capped is an orphan.          *)
LEMMA KillKeeps ==
  ASSUME LedgerInv, KillDaemon
  PROVE  Kept(proc, {})' /\ tracked' = {}
<1>1. /\ tracked' = {} /\ proc' = proc /\ hosting' = hosting
      /\ orphans' = orphans \cup {<<p, proc[p].life>> : p \in {p \in Pids : Capped(p)}}
  BY DEF KillDaemon
<1>2. Kept(proc, tracked)
  BY DEF LedgerInv
<1>3. \A p \in Pids : ProcOK(p, proc[p])'
  BY <1>1, <1>2 DEF Kept, ProcOK
<1>4. ASSUME NEW p \in Pids PROVE Accounted(p, proc[p], {})'
  <2>1. Accounted(p, proc[p], tracked)
    BY <1>2, KeptFacts
  <2>2. CASE Home(p, proc[p], proc[p].nice)
    BY <1>1, <2>2 DEF Accounted, Home
  <2>3. CASE proc[p].nice \in CapNices
    BY <1>1, <2>3 DEF Accounted, Home, Capped
  <2> QED  BY <2>1, <2>2, <2>3 DEF Accounted
<1>5. IsFiniteSet({}) /\ Cardinality({}) <= MaxTracked
  BY FS_EmptySet, LedgerAssumption
<1> QED  BY <1>1, <1>2, <1>3, <1>4, <1>5 DEF Kept

LEMMA HoldKeeps ==
  ASSUME LedgerInv, HoldExpires
  PROVE  Kept(proc', tracked')
<1>1. tracked' = {[e EXCEPT !.held = FALSE] : e \in tracked} /\ proc' = proc
  BY DEF HoldExpires
<1>2. Kept(proc, tracked)
  BY DEF LedgerInv
<1> DEFINE f == [e \in tracked |-> [e EXCEPT !.held = FALSE]]
           T == tracked'
<1>3. T = {f[e] : e \in tracked} /\ f \in [tracked -> T]
  BY <1>1
<1>4. ASSUME NEW e \in tracked
      PROVE  /\ f[e] \in Entries /\ f[e].pid = e.pid /\ f[e].start = e.start /\ f[e].nice = e.nice
             /\ f[e].policy = e.policy
  <2>1. e \in Entries
    BY <1>2 DEF Kept, EntryOK
  <2> QED  BY <2>1 DEF Entries
<1> HIDE DEF f
<1>5. \A e \in T : EntryOK(e, proc)
  BY <1>2, <1>3, <1>4 DEF Kept, EntryOK
<1>6. \A e, g \in T : e.pid = g.pid => e = g
  BY <1>2, <1>3, <1>4 DEF Kept
<1>7. IsFiniteSet(T) /\ Cardinality(T) <= MaxTracked
  <2>1. IsFiniteSet(tracked) /\ Cardinality(tracked) <= MaxTracked
    BY <1>2 DEF Kept
  <2>2. f \in Surjection(tracked, T)
    BY <1>3 DEF Surjection
  <2>3. IsFiniteSet(T) /\ Cardinality(T) <= Cardinality(tracked)
    BY <2>1, <2>2, FS_Surjection
  <2>4. Cardinality(T) \in Nat /\ Cardinality(tracked) \in Nat
    BY <2>1, <2>3, FS_CardinalityType
  <2> QED  BY <2>1, <2>3, <2>4, LedgerAssumption
<1>8. \A p \in Pids : Accounted(p, proc[p], T)
  BY <1>2, <1>3, <1>4 DEF Kept, Accounted, OfProcess
<1> QED  BY <1>1, <1>2, <1>5, <1>6, <1>7, <1>8 DEF Kept

(* A number given to another process: its records are of an earlier life.    *)
LEMMA ReuseKeeps ==
  ASSUME LedgerInv, NEW p \in Pids, ReuseNumber(p)
  PROVE  Kept(proc', tracked)
<1>1. PICK load \in Loads :
        LET life == proc[p].life + 1 IN
        proc' = [proc EXCEPT ![p] = Newborn(hosting.programs[p][life], life, load)]
  BY DEF ReuseNumber
<1> DEFINE life == proc[p].life + 1
           r == Newborn(hosting.programs[p][life], life, load)
<1>2. Kept(proc, tracked) /\ hosting \in Hostings
  BY DEF LedgerInv
<1>3. proc \in [Pids -> Procs] /\ proc[p].life \in Nat \ {0} /\ life <= Len(hosting.programs[p])
  BY <1>2 DEF Kept, Procs, ReuseNumber
<1>4. hosting.programs[p][life] \in Programs
  BY <1>2, <1>3, HostingsAssumption
<1>5. r \in Procs /\ r.prog = hosting.programs[p][life] /\ r.life = life /\ r.nice = r.prog.nice
      /\ r.policy = "other"
  <2>1. hosting.programs[p][life].nice \in -20..19
    BY <1>4 DEF Programs
  <2>2. life \in Nat \ {0}
    BY <1>3
  <2> DEFINE prog == hosting.programs[p][life]
  <2> HIDE DEF prog, life
  <2>3. /\ r = [prog |-> prog, life |-> life, policy |-> "other", nice |-> prog.nice, mask |-> Cpus,
               slack |-> DefaultSlack, load |-> load]
    BY DEF Newborn, prog
  <2>4. prog \in Programs /\ prog.nice \in -20..19
    BY <1>4, <2>1 DEF prog
  <2> HIDE DEF r
  <2> QED  BY <2>2, <2>3, <2>4 DEF Procs, SchedClasses, prog
<1> HIDE DEF r
<1>6. /\ proc' \in [Pids -> Procs] /\ proc'[p] = r /\ \A o \in Pids \ {p} : proc'[o] = proc[o]
  BY <1>1, <1>3, <1>5 DEF r
<1>7. \A o \in Pids : ProcOK(o, proc'[o])
  <2>1. ProcOK(p, r)
    BY <1>3, <1>5 DEF ProcOK
  <2> QED  BY <1>2, <1>6, <2>1 DEF Kept
<1>8. ASSUME NEW e \in tracked PROVE EntryOK(e, proc')
  <2>1. EntryOK(e, proc) /\ e.pid \in Pids /\ e.start \in Nat
    BY <1>2 DEF Kept, EntryOK, Entries
  <2>2. CASE e.pid = p
    BY <1>3, <1>5, <1>6, <2>1, <2>2 DEF EntryOK
  <2>3. CASE e.pid # p
    BY <1>6, <2>1, <2>3 DEF EntryOK
  <2> QED  BY <2>2, <2>3
<1>9. \A o \in Pids : Accounted(o, proc'[o], tracked)
  BY <1>2, <1>5, <1>6 DEF Kept, Accounted, Home
<1> QED  BY <1>2, <1>6, <1>7, <1>8, <1>9 DEF Kept

LEMMA LoadKeeps ==
  ASSUME LedgerInv, NEW p \in Pids, LoadChanges(p)
  PROVE  Kept(proc', tracked)
<1>1. PICK load \in Loads : proc' = [proc EXCEPT ![p].load = load]
  BY DEF LoadChanges
<1>2. Kept(proc, tracked)
  BY DEF LedgerInv
<1> DEFINE r == [proc[p] EXCEPT !.load = load]
<1>3. proc' = [proc EXCEPT ![p] = r] /\ proc \in [Pids -> Procs]
  BY <1>1, <1>2 DEF Kept
<1>4. r \in Procs /\ r.prog = proc[p].prog /\ r.life = proc[p].life /\ r.nice = proc[p].nice
      /\ r.policy = proc[p].policy
  BY <1>3 DEF Procs
<1> HIDE DEF r
<1>5. proc' \in [Pids -> Procs] /\ proc'[p] = r /\ \A o \in Pids \ {p} : proc'[o] = proc[o]
  BY <1>3, <1>4
<1>6. \A o \in Pids : ProcOK(o, proc'[o])
  BY <1>2, <1>4, <1>5 DEF Kept, ProcOK
<1>7. ASSUME NEW e \in tracked PROVE EntryOK(e, proc')
  <2>1. EntryOK(e, proc) /\ e.pid \in Pids
    BY <1>2 DEF Kept, EntryOK, Entries
  <2> QED  BY <1>4, <1>5, <2>1 DEF EntryOK, Home
<1>8. \A o \in Pids : Accounted(o, proc'[o], tracked)
  BY <1>2, <1>4, <1>5 DEF Kept, Accounted, Home, OfProcess
<1> QED  BY <1>2, <1>5, <1>6, <1>7, <1>8 DEF Kept

-----------------------------------------------------------------------------
(* The invariant, and what follows.                                          *)

LEMMA LedgerInitInv == LedgerInit => LedgerInv
<1> SUFFICES ASSUME LedgerInit PROVE LedgerInv
  OBVIOUS
<1>1. PICK load \in Loads : proc = [p \in Pids |-> Newborn(hosting.programs[p][1], 1, load)]
  BY DEF LedgerInit
<1>2. hosting \in Hostings /\ tracked = {}
  BY DEF LedgerInit
<1>3. ASSUME NEW p \in Pids
      PROVE  ProcOK(p, proc[p]) /\ Accounted(p, proc[p], {})
  <2> DEFINE prog == hosting.programs[p][1]
             r == Newborn(prog, 1, load)
  <2>1. prog \in Programs /\ 1 <= Len(hosting.programs[p])
    BY <1>2, HostingsAssumption
  <2>2. proc[p] = r
    BY <1>1
  <2> HIDE DEF prog
  <2>3. r \in Procs /\ r.prog = prog /\ r.life = 1 /\ r.nice = prog.nice /\ r.policy = "other"
    BY <2>1 DEF Newborn, Procs, Programs, SchedClasses
  <2> HIDE DEF r
  <2> QED  BY <2>1, <2>2, <2>3 DEF ProcOK, Accounted, Home, prog
<1>4. proc \in [Pids -> Procs]
  <2> DEFINE n(p) == Newborn(hosting.programs[p][1], 1, load)
  <2>1. \A p \in Pids : proc[p] = n(p)
    BY <1>1
  <2>2. \A p \in Pids : n(p) \in Procs
    BY <1>3, <2>1 DEF ProcOK
  <2> HIDE DEF n
  <2>3. proc = [p \in Pids |-> n(p)]
    BY <1>1 DEF n
  <2> QED  BY <2>2, <2>3
<1>5. IsFiniteSet({}) /\ Cardinality({}) <= MaxTracked
  BY FS_EmptySet, LedgerAssumption
<1>6. Kept(proc, tracked)
  BY <1>2, <1>3, <1>4, <1>5 DEF Kept
<1>7. 0 \in 0..hosting.kills
  BY <1>2, HostingsAssumption
<1> QED  BY <1>2, <1>6, <1>7 DEF LedgerInv, LedgerInit

LEMMA LedgerStepInv == LedgerInv /\ [LedgerNext]_ledgerVars => LedgerInv'
<1> SUFFICES ASSUME LedgerInv, [LedgerNext]_ledgerVars PROVE LedgerInv'
  OBVIOUS
<1> USE DEF LedgerModes
<1>1. CASE LedgerSweep
  <2>1. Kept(proc', tracked') /\ lastMode' \in LedgerModes
    BY <1>1, SweepKeeps
  <2>2. /\ ledgerUp /\ beat' \in BOOLEAN /\ owners' = streaming
        /\ UNCHANGED <<hosting, ledgerUp, streaming, daemonKills, orphans>>
    BY <1>1 DEF LedgerSweep, Sweep, Beat, RefreshStreams
  <2>3. Kept(proc, tracked)'
    BY <2>1, <2>2 DEF Kept, ProcOK, EntryOK, Accounted, Home
  <2> QED  BY <2>1, <2>2, <2>3 DEF LedgerInv
<1>2. CASE LedgerStart
  <2>1. Kept(proc', tracked')
    BY <1>2, StartKeeps
  <2>2. UNCHANGED <<hosting, orphans>>
    BY <1>2 DEF LedgerStart
  <2>3. Kept(proc, tracked)'
    BY <2>1, <2>2 DEF Kept, ProcOK, EntryOK, Accounted, Home
  <2> QED  BY <1>2, <2>3 DEF LedgerInv, LedgerStart
<1>3. CASE LedgerStop
  <2>1. Kept(proc', tracked')
    BY <1>3, RollbackKeeps DEF LedgerInv, LedgerStop
  <2>2. UNCHANGED <<hosting, orphans>>
    BY <1>3 DEF LedgerStop
  <2>3. Kept(proc, tracked)'
    BY <2>1, <2>2 DEF Kept, ProcOK, EntryOK, Accounted, Home
  <2> QED  BY <1>3, <2>3 DEF LedgerInv, LedgerStop
<1>4. CASE KillDaemon
  <2>1. Kept(proc, {})' /\ tracked' = {}
    BY <1>4, KillKeeps
  <2>2. daemonKills' \in 0..hosting.kills
    <3>1. hosting.kills \in Nat
      BY HostingsAssumption DEF LedgerInv
    <3> QED  BY <1>4, <3>1 DEF KillDaemon, LedgerInv
  <2> QED  BY <1>4, <2>1, <2>2 DEF LedgerInv, KillDaemon, Kept
<1>5. CASE HoldExpires
  <2>1. Kept(proc', tracked')
    BY <1>5, HoldKeeps
  <2>2. UNCHANGED <<hosting, orphans>>
    BY <1>5 DEF HoldExpires
  <2>3. Kept(proc, tracked)'
    BY <2>1, <2>2 DEF Kept, ProcOK, EntryOK, Accounted, Home
  <2> QED  BY <1>5, <2>3 DEF LedgerInv, HoldExpires
<1>6. ASSUME NEW p \in Pids, ReuseNumber(p) PROVE LedgerInv'
  <2>1. Kept(proc', tracked)
    BY <1>6, ReuseKeeps
  <2>2. UNCHANGED <<hosting, tracked, orphans>>
    BY <1>6 DEF ReuseNumber
  <2>3. Kept(proc, tracked)'
    BY <2>1, <2>2 DEF Kept, ProcOK, EntryOK, Accounted, Home
  <2> QED  BY <1>6, <2>3 DEF LedgerInv, ReuseNumber
<1>7. ASSUME NEW p \in Pids, LoadChanges(p) PROVE LedgerInv'
  <2>1. Kept(proc', tracked)
    BY <1>7, LoadKeeps
  <2>2. UNCHANGED <<hosting, tracked, orphans>>
    BY <1>7 DEF LoadChanges
  <2>3. Kept(proc, tracked)'
    BY <2>1, <2>2 DEF Kept, ProcOK, EntryOK, Accounted, Home
  <2> QED  BY <1>7, <2>3 DEF LedgerInv, LoadChanges
<1>8. ASSUME NEW p \in Pids, StreamChanges(p) PROVE LedgerInv'
  <2>1. UNCHANGED <<hosting, proc, tracked, orphans>>
    BY <1>8 DEF StreamChanges
  <2>2. Kept(proc, tracked)'
    BY <2>1 DEF LedgerInv, Kept, ProcOK, EntryOK, Accounted, Home
  <2> QED  BY <1>8, <2>2 DEF LedgerInv, StreamChanges
<1>9. CASE UNCHANGED ledgerVars
  <2>1. Kept(proc, tracked)'
    BY <1>9 DEF LedgerInv, Kept, ProcOK, EntryOK, Accounted, Home, ledgerVars
  <2> QED  BY <1>9, <2>1 DEF LedgerInv, ledgerVars
<1> QED  BY <1>1, <1>2, <1>3, <1>4, <1>5, <1>6, <1>7, <1>8, <1>9 DEF LedgerNext

LEMMA LedgerInvHolds == LedgerSpec => []LedgerInv
BY LedgerInitInv, LedgerStepInv, PTL DEF LedgerSpec

LEMMA LedgerInvTypes == LedgerInv => LedgerTypeOK
<1> SUFFICES ASSUME LedgerInv PROVE LedgerTypeOK
  OBVIOUS
<1>1. ASSUME NEW p \in Pids
      PROVE  /\ proc[p].life \in 1..Len(hosting.programs[p])
             /\ proc[p].policy \in SchedClasses
             /\ proc[p].nice \in -20..19
             /\ proc[p].mask \subseteq Cpus
             /\ proc[p].slack \in {DefaultSlack, RelaxedSlack}
             /\ proc[p].load \in Loads
  <2>1. proc[p] \in Procs /\ proc[p].life <= Len(hosting.programs[p])
    BY DEF LedgerInv, Kept, ProcOK
  <2>2. Len(hosting.programs[p]) \in Nat
    BY HostingsAssumption DEF LedgerInv
  <2> QED  BY <2>1, <2>2 DEF Procs
<1>2. hosting.players \subseteq Pids
  BY HostingsAssumption DEF LedgerInv
<1> QED  BY <1>1, <1>2 DEF LedgerInv, LedgerTypeOK, Kept

(* The scheduling state of every process stays within what the kernel        *)
(* accepts, and the ledger within its room.                                  *)
THEOREM LedgerTypeCorrect == LedgerSpec => []LedgerTypeOK
BY LedgerInvTypes, LedgerInvHolds, PTL

LEMMA LedgerInvCaps == LedgerInv => EveryCapIsOnRecord
<1> SUFFICES ASSUME LedgerInv, NEW p \in Pids, Capped(p), <<p, proc[p].life>> \notin orphans
             PROVE  ledgerUp /\ \E e \in tracked :
                      /\ e.pid = p /\ e.start = proc[p].life
                      /\ e.nice \notin CapNices \ {proc[p].prog.nice}
  BY DEF EveryCapIsOnRecord
<1>1. Accounted(p, proc[p], tracked)
  BY KeptFacts DEF LedgerInv
<1>2. PICK e \in tracked : OfProcess(e, p, proc[p])
  BY <1>1 DEF Accounted, Home, Capped
<1>3. Home(p, proc[p], e.nice)
  BY <1>2 DEF LedgerInv, Kept, EntryOK, OfProcess
<1>4. e.nice \notin CapNices \ {proc[p].prog.nice}
  BY <1>3 DEF Home
<1> QED  BY <1>2, <1>4 DEF LedgerInv, OfProcess

(* No cap without a record to undo it by: for any room in the ledger and any *)
(* number of greedy processes (battery_feature.cpp, REF-REQ-111).            *)
THEOREM CapsAreRecorded == LedgerSpec => []EveryCapIsOnRecord
BY LedgerInvCaps, LedgerInvHolds, PTL

(* A process whose record is gone has its own nice value back, and none has  *)
(* the value of a dead process that had its number (rollback_all_tracked,    *)
(* same_process).                                                            *)
THEOREM RecordsAreGivenBack == LedgerSpec => DropGivesBack
<1> DEFINE Back == \A p \in Pids :
                     /\ proc'[p].life = proc[p].life
                     /\ proc'[p].nice # proc[p].nice
                     /\ ~\E e \in tracked' : e.pid = p
                     => \/ proc'[p].nice = proc[p].prog.nice
                        \/ Tier(proc[p].prog.comm) = 1 \/ proc[p].prog.service
                        \/ p \in hosting.players /\ proc'[p].nice = 0
                        \/ <<p, proc[p].life>> \in orphans
<1>1. LedgerInv /\ LedgerInv' /\ [LedgerNext]_ledgerVars => [Back]_ledgerVars
  <2> SUFFICES ASSUME LedgerInv, LedgerInv', LedgerNext, NEW p \in Pids,
                      proc'[p].life = proc[p].life, proc'[p].nice # proc[p].nice,
                      ~\E e \in tracked' : e.pid = p
               PROVE  \/ proc'[p].nice = proc[p].prog.nice
                      \/ Tier(proc[p].prog.comm) = 1 \/ proc[p].prog.service
                      \/ p \in hosting.players /\ proc'[p].nice = 0
                      \/ <<p, proc[p].life>> \in orphans
    OBVIOUS
  <2>1. hosting' = hosting /\ orphans' = orphans
    <3>1. ~KillDaemon
      BY DEF KillDaemon
    <3> QED  BY <3>1 DEF LedgerNext, LedgerSweep, Sweep, LedgerStart, LedgerStop, HoldExpires,
                         ReuseNumber, LoadChanges, StreamChanges
  <2>2. ProcOK(p, proc[p]) /\ ProcOK(p, proc[p])' /\ Accounted(p, proc[p], tracked)'
    BY DEF LedgerInv, Kept
  <2>3. proc'[p].prog = proc[p].prog
    BY <2>1, <2>2 DEF ProcOK
  <2>4. Home(p, proc[p], proc[p].nice)'
    BY <2>2 DEF Accounted, OfProcess
  <2> QED  BY <2>1, <2>3, <2>4 DEF Home
<1>2. LedgerSpec => [][Back]_ledgerVars
  BY <1>1, LedgerInvHolds, PTL DEF LedgerSpec
<1> QED  BY <1>2 DEF DropGivesBack

-----------------------------------------------------------------------------
(* What a sweep leaves of a calm process, and of one that plays.             *)

LEMMA HealFrees ==
  ASSUME NEW p, NEW q \in Procs, NEW playing, p \in playing
  PROVE  Heal(p, q, playing).policy # "idle"
<1> DEFINE a == SchedNormal(q, "other", 0)
           b == [a EXCEPT !.slack = DefaultSlack]
           r == [b EXCEPT !.mask = Cpus]
<1>1. Changed(q, a) /\ a.policy = "other"
  <2>1. "other" \in SchedClasses /\ 0 \in -20..19
    BY DEF SchedClasses
  <2> QED  BY <2>1, NormalIs
<1> HIDE DEF a
<1>2. Changed(a, b) /\ b.policy = "other"
  BY <1>1, SlackIsChanged DEF Changed
<1> HIDE DEF b
<1>3. r.policy = "other"
  BY <1>2, MaskIsChanged DEF Changed
<1> HIDE DEF r
<1>4. Immune(p, q.prog, playing)
  BY DEF Immune
<1>5. Heal(p, q, playing) = IF q.policy = "idle" THEN r ELSE q
  BY <1>4 DEF Heal, a, b, r
<1> QED  BY <1>3, <1>5

LEMMA AuditIs ==
  ASSUME LedgerInv, NEW p \in Pids
  PROVE  /\ Changed(proc[p], Audited[p])
         /\ p \in owners => Audited[p].policy # "idle"
<1> DEFINE r == Heal(p, proc[p], owners)
           s == LiftService(r)
<1>1. proc[p] \in Procs /\ (proc[p].policy = "idle" => Plain(proc[p].prog))
  BY KeptFacts DEF LedgerInv
<1>2. Changed(proc[p], r) /\ (p \in owners => r.policy # "idle")
  BY <1>1, HealIs, HealFrees
<1>3. Audited[p] = s
  BY DEF Audited
<1> HIDE DEF r
<1>4. Changed(r, s) /\ (s.policy = r.policy \/ s.policy = "other")
  BY <1>2, LiftIs DEF Changed
<1> HIDE DEF s
<1> QED  BY <1>2, <1>3, <1>4, ChangedTwice

(* Only a record puts a process back into the idle class.                    *)
LEMMA RollbackIdles ==
  ASSUME NEW procs, NEW ledger, NEW p \in Pids, RollbackTracked(procs, ledger)[p].policy = "idle"
  PROVE  procs[p].policy = "idle" \/ \E e \in ledger : e.pid = p
BY DEF RollbackTracked

LEMMA DeescalateIdles ==
  ASSUME NEW s, NEW mode, NEW report
  PROVE  LET t == Deescalate(s, mode, report) IN
         /\ t.tracked = {e \in s.tracked : ~DropsRecord(e, s, mode, report)}
         /\ \A p \in Pids :
              t.proc[p].policy = "idle" =>
                s.proc[p].policy = "idle" \/ \E e \in s.tracked \ t.tracked : e.pid = p
<1> DEFINE done == {e \in s.tracked : DropsRecord(e, s, mode, report)}
           n(p) == IF \E e \in done : e.pid = p /\ SameProcess(e, s.proc[p])
                   THEN UncapOne(CHOOSE e \in done : e.pid = p, s.proc[p])
                   ELSE s.proc[p]
           t == Deescalate(s, mode, report)
<1>1. t.tracked = s.tracked \ done /\ t.proc = [p \in Pids |-> n(p)]
  BY DEF Deescalate
<1>2. done = s.tracked \ t.tracked
  BY <1>1
<1> HIDE DEF t
<1>3. t.tracked = {e \in s.tracked : ~DropsRecord(e, s, mode, report)}
  BY <1>1
<1>4. \A p \in Pids : t.proc[p] = n(p)
  BY <1>1
<1>5. \A p \in Pids : n(p) = s.proc[p] \/ \E e \in done : e.pid = p
  OBVIOUS
<1> HIDE DEF n, done
<1>6. ASSUME NEW p \in Pids, t.proc[p].policy = "idle"
      PROVE  s.proc[p].policy = "idle" \/ \E e \in s.tracked \ t.tracked : e.pid = p
  BY <1>2, <1>4, <1>5, <1>6
<1> QED  BY <1>3, <1>6 DEF t

(* The stages of a sweep: what it starts from after a change of profile, and *)
(* what its loop leaves to the de-escalation.                                *)
SweepRun(start, walked, mode, report) ==
  /\ start \in States /\ walked \in States /\ Kept(walked.proc, walked.tracked)
  /\ \A p \in Pids : start.proc[p].load = proc[p].load
  /\ \/ start.proc = Audited /\ start.tracked = tracked
     \/ start.proc = RollbackTracked(Audited, tracked) /\ start.tracked = {}
  /\ Spares(start, walked, streaming)
  /\ proc' = Deescalate(walked, mode, report).proc
  /\ tracked' = Deescalate(walked, mode, report).tracked

LEMMA SweepRuns ==
  ASSUME LedgerInv, LedgerSweep
  PROVE  \E start, walked, mode, report : SweepRun(start, walked, mode, report)
<1>1. PICK mode \in hosting.modes, report \in SetToAllKPermutations(Pids) : Sweep(mode, report)
  BY DEF LedgerSweep
<1>2. mode \in LedgerModes
  BY HostingsAssumption DEF LedgerInv
<1> DEFINE first == [proc |-> Audited, tracked |-> tracked]
           fresh == [proc |-> RollbackTracked(Audited, tracked), tracked |-> {}]
           start == ReleaseOnChange(first, mode)
           walked == Walk(start, mode, report, streaming)
<1>3. /\ proc' = Deescalate(walked, mode, report).proc
      /\ tracked' = Deescalate(walked, mode, report).tracked
  BY <1>1 DEF Sweep
<1>4. Kept(Audited, tracked)
  BY AuditKeeps
<1>5. /\ first \in States /\ Kept(first.proc, first.tracked)
      /\ \A p \in Pids : first.proc[p].load = proc[p].load
  BY <1>4, KeptIsState, AuditIs DEF Changed
<1>6. /\ fresh \in States /\ Kept(fresh.proc, fresh.tracked)
      /\ \A p \in Pids : fresh.proc[p].load = proc[p].load
  <2>1. Kept(RollbackTracked(Audited, tracked), {})
    BY <1>4, RollbackKeeps
  <2>2. \A p \in Pids : Changed(Audited[p], RollbackTracked(Audited, tracked)[p])
    BY <1>4, RollbackKeeps
  <2>3. \A p \in Pids : RollbackTracked(Audited, tracked)[p].load = proc[p].load
    BY <2>2, AuditIs DEF Changed
  <2> QED  BY <2>1, <2>3, KeptIsState
<1>7. start = first \/ start = fresh
  BY DEF ReleaseOnChange
<1>8. /\ first.proc = Audited /\ first.tracked = tracked
      /\ fresh.proc = RollbackTracked(Audited, tracked) /\ fresh.tracked = {}
  OBVIOUS
<1> HIDE DEF start, first, fresh
<1>9. walked \in States /\ Kept(walked.proc, walked.tracked) /\ Spares(start, walked, streaming)
  BY <1>2, <1>5, <1>6, <1>7, ReportIs, WalkKeeps
<1> HIDE DEF walked
<1>10. SweepRun(start, walked, mode, report)
  BY <1>3, <1>5, <1>6, <1>7, <1>8, <1>9 DEF SweepRun
<1> QED  BY <1>10

LEMMA CalmAreLeft ==
  ASSUME LedgerInv, LedgerSweep, NEW e \in tracked', Calm(proc[e.pid].load)
  PROVE  e \in tracked /\ e.held
<1>1. PICK start, walked, mode, report : SweepRun(start, walked, mode, report)
  BY SweepRuns
<1>2. e \in walked.tracked /\ ~DropsRecord(e, walked, mode, report)
  BY <1>1, DeescalateIdles DEF SweepRun
<1>3. e.pid \in Pids
  BY <1>1, <1>2 DEF SweepRun, States, Entries
<1>4. proc[e.pid].load \in Loads
  BY <1>3, KeptFacts DEF LedgerInv, Procs
<1>5. start.proc[e.pid].load = proc[e.pid].load /\ walked.proc[e.pid].load = proc[e.pid].load
  BY <1>1, <1>3 DEF SweepRun, Spares
<1>6. e \in tracked
  BY <1>1, <1>2, <1>5 DEF SweepRun, Spares
<1>7. ~StillGreedy(walked.proc[e.pid].load, mode)
  BY <1>4, <1>5, CalmIsSpared
<1> QED  BY <1>2, <1>6, <1>7 DEF DropsRecord

(* Calm is a way out of every cap: whatever the profile, and whether or not  *)
(* the report lists the process, no sweep makes, renews or keeps a record of *)
(* a calm process beyond the hold (battery_feature.cpp, 895-932).            *)
THEOREM CalmAreDropped == LedgerSpec => SweepDropsCalm
<1> DEFINE A == LedgerSweep =>
                  \A e \in tracked' : Calm(proc[e.pid].load) => e \in tracked /\ e.held
<1>1. LedgerInv /\ [LedgerNext]_ledgerVars => [A]_ledgerVars
  BY CalmAreLeft
<1>2. LedgerSpec => [][A]_ledgerVars
  BY <1>1, LedgerInvHolds, PTL DEF LedgerSpec
<1> QED  BY <1>2 DEF SweepDropsCalm

LEMMA PlayerIsLeft ==
  ASSUME LedgerInv, LedgerSweep, NEW p \in owners \cap streaming, proc'[p].policy = "idle"
  PROVE  /\ \E e \in tracked : e.pid = p
         /\ ~\E e \in tracked' : e.pid = p
<1>1. PICK start, walked, mode, report : SweepRun(start, walked, mode, report)
  BY SweepRuns
<1>2. p \in Pids
  BY HostingsAssumption DEF LedgerInv
<1>3. Audited[p].policy # "idle"
  BY <1>2, AuditIs
<1>4. /\ tracked' \subseteq walked.tracked
      /\ walked.proc[p].policy = "idle" \/ \E e \in walked.tracked \ tracked' : e.pid = p
  BY <1>1, <1>2, DeescalateIdles DEF SweepRun
<1>5. /\ \A e \in walked.tracked : e.pid = p => e \in start.tracked
      /\ start.proc[p].policy # "idle" => walked.proc[p].policy # "idle"
  BY <1>1, <1>2 DEF SweepRun, Spares
<1>6. CASE start.proc = Audited /\ start.tracked = tracked
  <2>1. PICK e \in walked.tracked \ tracked' : e.pid = p
    BY <1>3, <1>4, <1>5, <1>6
  <2>2. \A f \in tracked' : f.pid = p => f = e
    BY <1>1, <1>4, <2>1 DEF SweepRun, Kept
  <2> QED  BY <1>5, <1>6, <2>1, <2>2
<1>7. CASE start.proc = RollbackTracked(Audited, tracked) /\ start.tracked = {}
  <2>1. ~\E e \in walked.tracked : e.pid = p
    BY <1>5, <1>7
  <2>2. RollbackTracked(Audited, tracked)[p].policy = "idle"
    BY <1>4, <1>5, <1>7, <2>1
  <2>3. \E e \in tracked : e.pid = p
    BY <1>2, <1>3, <2>2, RollbackIdles
  <2> QED  BY <1>4, <2>1, <2>3
<1> QED  BY <1>1, <1>6, <1>7 DEF SweepRun

(* A player that the sweep knows leaves the idle class at once, but for the  *)
(* one sweep that undoes the last record of it (REF-REQ-096, REF-REQ-103):   *)
(* no loop of capping and restoring keeps a player idle.                     *)
THEOREM PlayersAreFreed == LedgerSpec => SweepFreesPlayers
<1> DEFINE A == LedgerSweep =>
                  \A p \in owners \cap streaming :
                    proc'[p].policy = "idle" => /\ \E e \in tracked : e.pid = p
                                               /\ ~\E e \in tracked' : e.pid = p
<1>1. LedgerInv /\ [LedgerNext]_ledgerVars => [A]_ledgerVars
  BY PlayerIsLeft
<1>2. LedgerSpec => [][A]_ledgerVars
  BY <1>1, LedgerInvHolds, PTL DEF LedgerSpec
<1> QED  BY <1>2 DEF SweepFreesPlayers
=============================================================================
