-------------------------- MODULE MitigationLedger --------------------------
(***************************************************************************)
(* What the daemon does to other processes, and the ledger it undoes it    *)
(* by.                                                                     *)
(*                                                                         *)
(* A deep sweep walks the processes of its report: it shields the desktop, *)
(* sends workers to the idle class, relaxes their timers, pins them to one *)
(* core complex and caps the greedy ones to the headroom mask.  Only the   *)
(* cap is recorded, with the values found before it; a record is undone    *)
(* when its process calms down, when the profile changes and when the      *)
(* daemon stops.  Scheduling state belongs to the process: it survives a   *)
(* killed daemon, while the number of a dead process is given to another.  *)
(***************************************************************************)
EXTENDS Integers, Sequences, FiniteSets, SequencesExt

CONSTANTS
  Pids,        \* process numbers
  Hostings,    \* what runs: [programs, players, modes, kills] - for each number the
               \* [comm, ancestors, graphical, service, nice] it is given to in turn,
               \* the numbers that may play, the profiles that come into force and
               \* a bound on the SIGKILLs of the daemon
  Loads,       \* readings: [watts, threads, wdi, wakeups, core, runaway]
  NCpus,       \* online CPUs, one L3 cluster per half
  MaxTracked   \* MAX_TRACKED_MITIGATIONS

LedgerModes == {"Performance", "Balanced", "PowerSaver", "UltraEndurance"}

VARIABLES
  hosting,     \* the member of Hostings that this machine runs
  ledgerUp,    \* the daemon process exists
  proc,        \* pid: the kernel's scheduling state of the process that holds it
  tracked,     \* FeatureManager::m_tracked
  lastMode,    \* m_last_profile, "none" before the first sweep
  owners,      \* s_audio_state.owner_pids
  streaming,   \* the pids that hold a running PCM
  daemonKills,
  orphans,     \* <<pid, life>> left capped by a killed daemon (a history)
  beat         \* turned by every sweep: one that changes nothing else is a step too

ledgerVars == <<hosting, ledgerUp, proc, tracked, lastMode, owners, streaming, daemonKills, orphans, beat>>

Programs == [comm: STRING, ancestors: Seq(STRING), graphical: BOOLEAN, service: BOOLEAN, nice: -20..19]

ASSUME LedgerAssumption ==
  /\ NCpus \in Nat \ {0}
  /\ MaxTracked \in Nat
  /\ IsFiniteSet(Pids)
  /\ Loads \subseteq [watts: Nat, threads: Nat, wdi: Nat, wakeups: Nat, core: {-1} \cup Nat, runaway: BOOLEAN]

(* A process number is given to one program at least.                        *)
ASSUME HostingsAssumption ==
  \A h \in Hostings :
    /\ \A p \in Pids : h.programs[p] \in Seq(Programs) /\ Len(h.programs[p]) > 0
    /\ h.players \subseteq Pids
    /\ h.modes \subseteq LedgerModes
    /\ h.kills \in Nat

Cpus == 0..(NCpus - 1)
SchedClasses == {"other", "batch", "idle"}
DefaultSlack == "50us"
RelaxedSlack == "100ms"

LedgerTypeOK ==
  /\ hosting \in Hostings
  /\ ledgerUp \in BOOLEAN
  /\ \A p \in Pids :
       /\ proc[p].life \in 1..Len(hosting.programs[p])
       /\ proc[p].policy \in SchedClasses
       /\ proc[p].nice \in -20..19
       /\ proc[p].mask \subseteq Cpus
       /\ proc[p].slack \in {DefaultSlack, RelaxedSlack}
       /\ proc[p].load \in Loads
  /\ Cardinality(tracked) <= MaxTracked
  /\ lastMode \in LedgerModes \cup {"none"}
  /\ owners \subseteq Pids /\ streaming \subseteq Pids
  /\ daemonKills \in 0..hosting.kills
  /\ beat \in BOOLEAN

-----------------------------------------------------------------------------
(* Masks.                                                                    *)

HeadroomCpus(mode) ==
  LET larger(a, b) == IF a > b THEN a ELSE b
      allowed == CASE NCpus >= 8 /\ mode = "UltraEndurance" -> larger(2, NCpus \div 2)
                   [] NCpus >= 8 /\ mode = "PowerSaver" -> larger(4, (NCpus * 3) \div 4)
                   [] NCpus >= 8 /\ mode \in {"Balanced", "Performance"} -> NCpus - 2
                   [] NCpus \in 4..7 /\ mode = "UltraEndurance" -> NCpus \div 2
                   [] NCpus \in 4..7 /\ mode # "UltraEndurance" -> NCpus - 1
                   [] OTHER -> NCpus
  IN 0..(allowed - 1)

Cluster1 == IF NCpus < 4 THEN Cpus ELSE 0..(NCpus \div 2 - 1)
Cluster2 == IF NCpus < 4 THEN Cpus ELSE Cpus \ Cluster1
ShieldCpus == LET half == Cardinality(Cluster1) \div 2 IN 0..(IF half = 0 THEN 0 ELSE half - 1)

(* Every second CPU of a set, counted from its smallest.                     *)
Strided(S) == {c \in S : Cardinality({d \in S : d < c}) % 2 = 0}

(* mask_matches_engine_pattern: the masks this engine, or an earlier one,    *)
(* can have put on a process.                                                *)
EnginePatterns ==
  {Cluster1, Cluster2, ShieldCpus} \cup {HeadroomCpus(m) : m \in LedgerModes}
    \cup {Strided(S) : S \in {Cluster1, Cluster2, Cpus}}

-----------------------------------------------------------------------------
(* Who a process is: ProcessClassifierDB, and the shields built on it.  A    *)
(* name stands for its line of the table; the first rule that matches wins.  *)

Tier(comm) ==
  CASE comm \in {"systemd", "pipewire", "NetworkManager", "fcitx5", "wattcurb"} -> 0
    [] comm \in {"kwin_wayland", "konsole", "bash", "code"} -> 1
    [] comm \in {"plasmashell", "krunner"} -> 2
    [] comm \in {"baloo_file", "updatedb", "syncthing"} -> 4
    [] comm \in {"chrome", "electron", "spotify"} -> 3
    [] OTHER -> 5

Worker == 4
Runaway == 5

(* is_immune_process: whoever owns a running stream, or an immune name.      *)
Immune(p, prog, playing) ==
  \/ p \in playing
  \/ prog.comm \in {"systemd", "pipewire", "kwin_wayland", "wattcurb"}

(* is_graphical_session_process: its environment names a display.            *)
GraphicalSession(prog) == prog.graphical

Compositor(prog) == prog.comm = "kwin_wayland"

(* is_liveness_critical, is_stall_shielded and is_audio_shielded.            *)
LivenessCritical(prog) == Tier(prog.comm) <= 2
StallShielded(prog) == Tier(prog.comm) <= 3
AudioShielded(prog, playing) == playing # {} /\ Tier(prog.comm) <= 3

(* is_user_app_tree: a user application is reached before a worker, a        *)
(* runaway, init or the eighth ancestor.                                     *)
InUserAppTree(prog) ==
  LET depth == IF Len(prog.ancestors) > 8 THEN 8 ELSE Len(prog.ancestors) IN
  \E i \in 1..depth :
    /\ Tier(prog.ancestors[i]) = 3
    /\ \A j \in 1..(i - 1) :
         Tier(prog.ancestors[j]) \notin {Worker, Runaway} /\ prog.ancestors[j] # "systemd"

-----------------------------------------------------------------------------
(* The actuators, on the scheduling state of one process.                    *)

MayIdle(p, q, playing) ==
  ~Immune(p, q.prog, playing) /\ ~StallShielded(q.prog) /\ ~GraphicalSession(q.prog)
    /\ ~AudioShielded(q.prog, playing) /\ ~LivenessCritical(q.prog)

ApplyIdle(p, q, playing) == IF MayIdle(p, q, playing) THEN [q EXCEPT !.policy = "idle"] ELSE q

SchedNormal(q, policy, nice) == [q EXCEPT !.policy = policy, !.nice = nice]

(* Only relaxing is gated: a restore always passes.                          *)
ApplySlack(p, q, slack, playing) ==
  IF slack = RelaxedSlack /\ (Immune(p, q.prog, playing) \/ LivenessCritical(q.prog)
                              \/ AudioShielded(q.prog, playing) \/ GraphicalSession(q.prog))
  THEN q ELSE [q EXCEPT !.slack = slack]

(* A recorded mask of no CPU would strand the process.                       *)
GiveMask(q, mask) == [q EXCEPT !.mask = IF mask = {} THEN Cpus ELSE mask]

(* shield_interactive_process.                                               *)
Shield(q, mode) ==
  LET target == IF Compositor(q.prog) THEN -10 ELSE -5 IN
  [q EXCEPT !.nice = IF @ > target THEN target ELSE @,
            !.mask = IF mode = "Performance" THEN Cpus ELSE Cluster1]

CapNice(mode) == IF mode = "UltraEndurance" THEN 15 ELSE 10

(* actuate_anti_starvation_cap: nothing in Performance, nothing immune.  The *)
(* group quota of UltraEndurance is not a state of the process: left out.    *)
CapApplies(p, q, mode, playing) == mode # "Performance" /\ ~Immune(p, q.prog, playing)

ApplyAffinity(q, mask) == [q EXCEPT !.mask = mask]
ApplyBatch(q, nice) == [q EXCEPT !.policy = "batch", !.nice = nice]
Cap(q, mode) == ApplyBatch(ApplyAffinity(q, HeadroomCpus(mode)), CapNice(mode))

(* heal_over_throttled_processes: a protected process leaves the idle class. *)
HealByNameOnly(p, q, playing) ==
  IF q.policy = "idle" /\ (Immune(p, q.prog, {}) \/ LivenessCritical(q.prog) \/ GraphicalSession(q.prog))
  THEN [SchedNormal(q, "other", 0) EXCEPT !.slack = DefaultSlack, !.mask = Cpus]
  ELSE q
Heal(p, q, playing) ==
  IF q.policy = "idle" /\ (Immune(p, q.prog, playing) \/ LivenessCritical(q.prog)
                           \/ AudioShielded(q.prog, playing) \/ GraphicalSession(q.prog))
  THEN [SchedNormal(q, "other", 0) EXCEPT !.slack = DefaultSlack, !.mask = Cpus]
  ELSE q

(* The sound and compositor services of the user slices, in every sweep.     *)
LiftService(q) ==
  IF q.prog.service
  THEN [q EXCEPT !.policy = IF @ = "idle" THEN "other" ELSE @,
                 !.nice = IF Compositor(q.prog) THEN -10 ELSE -19,
                 !.mask = Cpus]
  ELSE q

-----------------------------------------------------------------------------
(* What the sweep decides from a reading (watts in centiwatts, wdi in        *)
(* tenths).                                                                  *)

ShouldIdle(tier, r, mode) ==
  \/ /\ tier = Worker
     /\ \/ mode = "UltraEndurance"
        \/ mode = "PowerSaver" /\ (r.wdi > 30 \/ r.wakeups > 50)
        \/ r.wdi > 100 \/ r.watts > 150
  \/ tier = Runaway /\ (r.runaway \/ r.wdi > 100)

ShouldRelax(tier, r) ==
  \/ tier = Worker /\ r.wakeups > 80
  \/ tier = Runaway /\ r.wakeups > 100

ShouldCap(tier, r, mode) ==
  LET ultra == mode = "UltraEndurance"
      limit == CASE ultra -> 20 [] mode = "PowerSaver" -> 70
                 [] mode = "Performance" -> 200 [] OTHER -> 120
  IN /\ tier \notin {0, 1}
     /\ \/ r.watts > limit
        \/ r.threads >= 4 /\ r.watts > 25
        \/ ultra /\ r.threads >= 2 /\ r.watts > 12
        \/ r.wdi > (IF ultra THEN 40 ELSE 60) \/ r.runaway
        \/ tier = Worker /\ r.watts > (IF ultra THEN 15 ELSE 20)
        \/ tier = Runaway /\ r.watts > (IF ultra THEN 15 ELSE 25)

StillGreedy(r, mode) ==
  LET limit == CASE mode = "UltraEndurance" -> 10 [] mode = "PowerSaver" -> 25
                 [] mode = "Performance" -> 80 [] OTHER -> 40
  IN r.watts > limit \/ r.wdi > 35 \/ (r.threads >= 4 /\ r.watts > 15)

-----------------------------------------------------------------------------
(* The ledger.                                                               *)

Entry(p, q, slack) ==
  [pid |-> p, start |-> q.life, policy |-> q.policy, nice |-> q.nice, mask |-> q.mask,
   slack |-> slack, held |-> TRUE]

SameProcessByNumber(e, q) == TRUE
SameProcess(e, q) == q.life = e.start

(* One record undone as rollback_all_tracked does: thaw, class, slack, mask. *)
RollbackOne(e, q) ==
  GiveMask([SchedNormal(q, e.policy, e.nice) EXCEPT !.slack = e.slack], e.mask)

(* One record undone as the de-escalation does: mask, class, group quota.    *)
UncapOne(e, q) == SchedNormal([q EXCEPT !.mask = e.mask], e.policy, e.nice)

RollbackTracked(procs, ledger) ==
  [p \in Pids |->
     IF \E e \in ledger : e.pid = p /\ SameProcess(e, procs[p])
     THEN RollbackOne(CHOOSE e \in ledger : e.pid = p, procs[p])
     ELSE procs[p]]

-----------------------------------------------------------------------------
(* One sweep over the report.  s = [proc, tracked].                          *)

(* The idle class, the slack and the core complex are never recorded.  The   *)
(* pinning asks for no immunity at all.                                      *)
ThrottleByLoad(p, q, mode, playing) ==
  LET r == q.load
      tier == Tier(q.prog.comm)
      idled == IF ShouldIdle(tier, r, mode) THEN ApplyIdle(p, q, playing) ELSE q
      relaxed == IF ShouldRelax(tier, r) THEN ApplySlack(p, idled, RelaxedSlack, playing) ELSE idled
  IN IF r.core = -1 THEN relaxed
     ELSE GiveMask(relaxed, IF r.core \in Cluster1 THEN Cluster1 ELSE Cluster2)

(* The room in the ledger is asked for before anything is done.              *)
CapAndRecordAnyway(s, p, mode, playing, slack) ==
  LET q == s.proc[p] IN
  IF /\ ShouldCap(Tier(q.prog.comm), q.load, mode)
     /\ ~\E e \in s.tracked : e.pid = p
     /\ CapApplies(p, q, mode, playing)
  THEN [proc |-> [s.proc EXCEPT ![p] = Cap(q, mode)],
        tracked |-> IF Cardinality(s.tracked) < MaxTracked
                    THEN s.tracked \cup {Entry(p, q, slack)} ELSE s.tracked]
  ELSE s
CapAndRecordBeyond(s, p, mode, playing, slack) ==
  LET q == s.proc[p] IN
  IF /\ ShouldCap(Tier(q.prog.comm), q.load, mode)
     /\ ~\E e \in s.tracked : e.pid = p
     /\ CapApplies(p, q, mode, playing)
  THEN [proc |-> [s.proc EXCEPT ![p] = Cap(q, mode)],
        tracked |-> s.tracked \cup {Entry(p, q, slack)}]
  ELSE s
CapAndRecord(s, p, mode, playing, slack) ==
  LET q == s.proc[p] IN
  IF /\ ShouldCap(Tier(q.prog.comm), q.load, mode)
     /\ ~\E e \in s.tracked : e.pid = p
     /\ Cardinality(s.tracked) < MaxTracked
     /\ CapApplies(p, q, mode, playing)
  THEN [proc |-> [s.proc EXCEPT ![p] = Cap(q, mode)],
        tracked |-> s.tracked \cup {Entry(p, q, slack)}]
  ELSE s

(* The body of the loop over report.top_processes.                           *)
Treat(s, p, mode, playing) ==
  LET q == s.proc[p]
      tier == Tier(q.prog.comm)
      throttled == IF mode = "Performance" THEN q ELSE ThrottleByLoad(p, q, mode, playing)
  IN CASE tier = 3 \/ InUserAppTree(q.prog) -> s
       [] tier = 1 /\ ~InUserAppTree(q.prog) -> [s EXCEPT !.proc[p] = Shield(q, mode)]
       [] tier = 0 /\ ~InUserAppTree(q.prog) -> s
       [] tier = 2 /\ mode # "Performance" /\ ~InUserAppTree(q.prog) -> s
       [] OTHER -> CapAndRecord([s EXCEPT !.proc[p] = throttled], p, mode, playing, q.slack)

(* A record is kept while its process is greedy or was capped less than 15   *)
(* seconds ago; a process the report no longer lists counts as calm.         *)
DropsIfListed(e, s, mode, report) ==
  /\ ~e.held
  /\ e.pid \in Range(report) /\ ~StillGreedy(s.proc[e.pid].load, mode)
DropsRecord(e, s, mode, report) ==
  /\ ~e.held
  /\ ~(e.pid \in Range(report) /\ StillGreedy(s.proc[e.pid].load, mode))

Deescalate(s, mode, report) ==
  LET done == {e \in s.tracked : DropsRecord(e, s, mode, report)} IN
  [tracked |-> s.tracked \ done,
   proc |-> [p \in Pids |->
               IF \E e \in done : e.pid = p /\ SameProcess(e, s.proc[p])
               THEN UncapOne(CHOOSE e \in done : e.pid = p, s.proc[p])
               ELSE s.proc[p]]]

(* Restrictions must not outlive the profile that imposed them.              *)
ReleaseOnChange(s, mode) ==
  IF lastMode \notin {"none", mode}
  THEN [proc |-> RollbackTracked(s.proc, s.tracked), tracked |-> {}]
  ELSE s

-----------------------------------------------------------------------------
(* The daemon.                                                               *)

(* The healing still uses the owners of the previous sweep.                  *)
Audited == [p \in Pids |-> LiftService(Heal(p, proc[p], owners))]

(* refresh_audio_stream_state: read after the healing, used by what follows.  *)
RefreshStreams == owners' = streaming

Beat == ledgerUp /\ beat' = ~beat

(* The loop.                                                                 *)
Walk(s, mode, report, playing) ==
  LET after[i \in 0..Len(report)] ==
        IF i = 0 THEN s ELSE Treat(after[i - 1], report[i], mode, playing)
  IN after[Len(report)]

Sweep(mode, report) ==
  LET start == ReleaseOnChange([proc |-> Audited, tracked |-> tracked], mode)
      done == Deescalate(Walk(start, mode, report, streaming), mode, report)
  IN /\ Beat
     /\ lastMode' = mode
     /\ RefreshStreams
     /\ UNCHANGED <<hosting, ledgerUp, streaming, daemonKills, orphans>>
     /\ proc' = done.proc
     /\ tracked' = done.tracked

LedgerSweep == \E mode \in hosting.modes, report \in SetToAllKPermutations(Pids) : Sweep(mode, report)

(* repair_orphaned_affinity_masks, at bootstrap: a mask, not a process, is   *)
(* recognised, and the whole machine is given back.                          *)
Repair(q) ==
  IF q.mask \in EnginePatterns /\ Cardinality(q.mask) < NCpus /\ NCpus > 1
  THEN [q EXCEPT !.mask = Cpus] ELSE q

LedgerStart ==
  /\ ~ledgerUp
  /\ ledgerUp' = TRUE
  /\ proc' = [p \in Pids |-> Repair(proc[p])]
  /\ tracked' = {}
  /\ lastMode' = "none"
  /\ owners' = {}
  /\ UNCHANGED <<hosting, streaming, daemonKills, orphans, beat>>

LedgerStop ==
  /\ ledgerUp
  /\ ledgerUp' = FALSE
  /\ proc' = RollbackTracked(proc, tracked)
  /\ tracked' = {}
  /\ UNCHANGED <<hosting, lastMode, owners, streaming, daemonKills, orphans, beat>>

-----------------------------------------------------------------------------
(* The rest of the world.                                                    *)

CapNices == {CapNice(m) : m \in LedgerModes}
Capped(p) == proc[p].nice \in CapNices /\ proc[p].nice # proc[p].prog.nice

KillDaemon ==
  /\ ledgerUp
  /\ daemonKills < hosting.kills
  /\ daemonKills' = daemonKills + 1
  /\ ledgerUp' = FALSE
  /\ orphans' = orphans \cup {<<p, proc[p].life>> : p \in {p \in Pids : Capped(p)}}
  /\ tracked' = {}
  /\ UNCHANGED <<hosting, proc, lastMode, owners, streaming, beat>>

(* More than 15 seconds pass between two sweeps.                             *)
HoldExpires ==
  /\ \E e \in tracked : e.held
  /\ tracked' = {[e EXCEPT !.held = FALSE] : e \in tracked}
  /\ UNCHANGED <<hosting, ledgerUp, proc, lastMode, owners, streaming, daemonKills, orphans, beat>>

Newborn(prog, life, load) ==
  [prog |-> prog, life |-> life, policy |-> "other", nice |-> prog.nice, mask |-> Cpus,
   slack |-> DefaultSlack, load |-> load]

(* A process ends and its number is given to another.                        *)
ReuseNumber(p) ==
  /\ proc[p].life < Len(hosting.programs[p])
  /\ \E load \in Loads :
       LET life == proc[p].life + 1 IN
       proc' = [proc EXCEPT ![p] = Newborn(hosting.programs[p][life], life, load)]
  /\ streaming' = streaming \ {p}
  /\ UNCHANGED <<hosting, ledgerUp, tracked, lastMode, owners, daemonKills, orphans, beat>>

LoadChanges(p) ==
  /\ \E load \in Loads \ {proc[p].load} : proc' = [proc EXCEPT ![p].load = load]
  /\ UNCHANGED <<hosting, ledgerUp, tracked, lastMode, owners, streaming, daemonKills, orphans, beat>>

StreamChanges(p) ==
  /\ p \in hosting.players
  /\ streaming' = IF p \in streaming THEN streaming \ {p} ELSE streaming \cup {p}
  /\ UNCHANGED <<hosting, ledgerUp, proc, tracked, lastMode, owners, daemonKills, orphans, beat>>

LedgerInit ==
  /\ hosting \in Hostings
  /\ ledgerUp = FALSE
  /\ \E load \in Loads : proc = [p \in Pids |-> Newborn(hosting.programs[p][1], 1, load)]
  /\ tracked = {}
  /\ lastMode = "none"
  /\ owners = {} /\ streaming = {}
  /\ daemonKills = 0
  /\ orphans = {}
  /\ beat = FALSE

LedgerNext ==
  \/ LedgerSweep \/ LedgerStart \/ LedgerStop \/ KillDaemon \/ HoldExpires
  \/ \E p \in Pids : ReuseNumber(p) \/ LoadChanges(p) \/ StreamChanges(p)

(* The deep sweep is periodic and time passes.  A sweep is due whenever the  *)
(* daemon is up, and only a sweep turns the beat, so this is the fairness of *)
(* LedgerSweep: which profile and report it meets is nobody's promise.       *)
LedgerFairness == WF_beat(Beat) /\ WF_ledgerVars(HoldExpires)
LedgerSpec == LedgerInit /\ [][LedgerNext]_ledgerVars /\ LedgerFairness

-----------------------------------------------------------------------------
(* Properties.                                                               *)

(* Every cap on a living process is on record with the nice value to return  *)
(* to, however many processes turn greedy at once: "an un-undoable           *)
(* mitigation is not worth its saving" (battery_feature.cpp:835-845).  Only  *)
(* a killed daemon leaves caps behind.                                       *)
EveryCapIsOnRecord ==
  \A p \in Pids :
    Capped(p) => \/ <<p, proc[p].life>> \in orphans
                 \/ ledgerUp /\ \E e \in tracked :
                      /\ e.pid = p /\ e.start = proc[p].life
                      /\ e.nice \notin CapNices \ {proc[p].prog.nice}

(* Whatever drops a record - calm, a profile change, a stop - gives each     *)
(* process its own nice value, and never writes the value saved for a dead   *)
(* process onto the one that now holds its number (same_process).  The       *)
(* desktop is shielded instead, and a healed player is left at 0.            *)
DropGivesBack ==
  [][\A p \in Pids :
       /\ proc'[p].life = proc[p].life
       /\ proc'[p].nice # proc[p].nice
       /\ ~\E e \in tracked' : e.pid = p
       => \/ proc'[p].nice = proc[p].prog.nice
          \/ Tier(proc[p].prog.comm) = 1 \/ proc[p].prog.service
          \/ p \in hosting.players /\ proc'[p].nice = 0
          \/ <<p, proc[p].life>> \in orphans]_ledgerVars

(* A reading that no profile calls greedy.                                   *)
Calm(r) == r.watts <= 10 /\ r.wdi <= 30 /\ ~r.runaway

(* The step CalmIsReleased rests on: a sweep leaves no record of a calm      *)
(* process but one that is still held, whatever the report says of it, and   *)
(* neither the loop nor the release of a profile change makes one.           *)
SweepDropsCalm ==
  [][LedgerSweep =>
       \A e \in tracked' : Calm(proc[e.pid].load) => e \in tracked /\ e.held]_ledgerVars

(* A process that stays calm does not stay capped, whatever profiles, report *)
(* contents and neighbours come and go (the de-escalation, 895-932).         *)
CalmIsReleased ==
  \A p \in Pids :
    <>[](ledgerUp /\ Calm(proc[p].load)) => <>[](~Capped(p) \/ <<p, proc[p].life>> \in orphans)

(* The step PlayersLeaveIdle rests on: a sweep can put a player it knows     *)
(* into the idle class only by giving back what was recorded of it before it *)
(* played, and then it has no record any more: the next sweep is the last.   *)
SweepFreesPlayers ==
  [][LedgerSweep =>
       \A p \in owners \cap streaming :
         proc'[p].policy = "idle" => /\ \E e \in tracked : e.pid = p
                                    /\ ~\E e \in tracked' : e.pid = p]_ledgerVars

(* A background process that starts to play leaves the idle class, although  *)
(* the healing looks at the owners of the sweep before (REF-REQ-096, 103).   *)
PlayersLeaveIdle ==
  \A p \in Pids :
    (ledgerUp /\ p \in streaming /\ proc[p].policy = "idle") ~>
      (proc[p].policy # "idle" \/ p \notin streaming \/ ~ledgerUp)

=============================================================================
