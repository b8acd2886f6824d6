-------------------------- MODULE TelemetrySeqlock --------------------------
(***************************************************************************)
(* WattCurbSharedState in /dev/shm: the daemon is the only writer, trays,  *)
(* dashboards and the CLI copy the record without a lock and retry when    *)
(* the version moved.  The file outlives the daemon, and so does whatever  *)
(* version a killed daemon left in it.                                     *)
(*                                                                         *)
(* Stores and loads take effect in program order, as the x86-64 build      *)
(* performs them around the version accesses; the order of the fields      *)
(* within one update or one memcpy is left open.                           *)
(***************************************************************************)
EXTENDS Integers

CONSTANTS
  Readers,     \* processes that map the file
  Fields,      \* the parts of the record that are stored separately
  Shapes,      \* the sets of fields one update may rewrite
  MaxRetries,  \* attempts of read_atomic (100)
  MaxUpdates   \* bound: updates the daemon makes

ASSUME ShapesAssumption == Shapes \subseteq SUBSET Fields
ASSUME BoundsAssumption == MaxRetries \in Nat \ {0} /\ MaxUpdates \in Nat

VARIABLES
  up,        \* the daemon process exists
  wpc,       \* the writer: "idle", or "storing" between its two version stores
  ver,       \* the version the writer loaded
  todo,      \* fields the writer has still to store
  stamp,     \* the number of updates begun; also the value they store
  seq,       \* seq_version
  mem,       \* the fields
  rpc,       \* for each reader: "idle", "load", "copy"
  tries,     \* for each reader: retries
  v1,        \* for each reader: the version its attempt began at
  left,      \* for each reader: fields still to copy
  buf,       \* for each reader: the caller's buffer
  answer,    \* for each reader: the set of the record the last call returned, {} if it failed
  stable,    \* history: the record at the end of the last completed update
  during,    \* history, for each reader: values of stable since its call began, {} outside a call
  trusted,   \* history: no update has been cut short by a kill
  calm       \* history, for each reader: no update overlapped its call so far

writer == <<up, wpc, ver, todo, stamp, seq, mem>>
reader == <<rpc, tries, v1, left, buf, answer>>
vars == <<writer, reader, stable, during, trusted, calm>>

Records == [Fields -> 0..MaxUpdates]
Odd(v) == v % 2 = 1

TypeOK ==
  /\ up \in BOOLEAN
  /\ wpc \in {"idle", "storing"}
  /\ ver \in Nat
  /\ todo \subseteq Fields
  /\ stamp \in 0..MaxUpdates
  /\ seq \in Nat
  /\ mem \in Records
  /\ rpc \in [Readers -> {"idle", "load", "copy"}]
  /\ tries \in [Readers -> 0..MaxRetries]
  /\ v1 \in [Readers -> Nat]
  /\ left \in [Readers -> SUBSET Fields]
  /\ buf \in [Readers -> Records]
  /\ answer \in [Readers -> SUBSET Records]
  /\ stable \in Records
  /\ during \in [Readers -> SUBSET Records]
  /\ trusted \in BOOLEAN
  /\ calm \in [Readers -> BOOLEAN]

Init ==
  /\ up = FALSE
  /\ wpc = "idle"
  /\ ver = 0
  /\ todo = {}
  /\ stamp = 0
  /\ seq = 0
  /\ mem = [f \in Fields |-> 0]
  /\ rpc = [r \in Readers |-> "idle"]
  /\ tries = [r \in Readers |-> 0]
  /\ v1 = [r \in Readers |-> 0]
  /\ left = [r \in Readers |-> {}]
  /\ buf = [r \in Readers |-> [f \in Fields |-> 0]]
  /\ answer = [r \in Readers |-> {}]
  /\ stable = mem
  /\ during = [r \in Readers |-> {}]
  /\ trusted = TRUE
  /\ calm = [r \in Readers |-> TRUE]

-----------------------------------------------------------------------------
(* The daemon. *)

(* setup_shm: an existing file is mapped again as it is, version included. *)
Start ==
  /\ ~up
  /\ up' = TRUE
  /\ UNCHANGED <<wpc, ver, todo, stamp, seq, mem, reader, stable, during, trusted, calm>>

BeginUnmarked(shape) ==
  /\ up
  /\ wpc = "idle"
  /\ stamp < MaxUpdates
  /\ wpc' = "storing"
  /\ ver' = seq
  /\ seq' = seq
  /\ todo' = shape
  /\ stamp' = stamp + 1
  /\ calm' = [r \in Readers |-> FALSE]
  /\ UNCHANGED <<up, mem, reader, stable, during, trusted>>

(* update_from_report and update_profile_mode up to the first version store. *)
BeginUpdate(shape) ==
  /\ up
  /\ wpc = "idle"
  /\ stamp < MaxUpdates
  /\ wpc' = "storing"
  /\ ver' = seq
  /\ seq' = seq + 1
  /\ todo' = shape
  /\ stamp' = stamp + 1
  /\ calm' = [r \in Readers |-> FALSE]
  /\ UNCHANGED <<up, mem, reader, stable, during, trusted>>

StoreField(f) ==
  /\ up
  /\ f \in todo
  /\ mem' = [mem EXCEPT ![f] = stamp]
  /\ todo' = todo \ {f}
  /\ UNCHANGED <<up, wpc, ver, stamp, seq, reader, stable, during, trusted, calm>>

EndOnOdd ==
  /\ up
  /\ wpc = "storing"
  /\ todo = {}
  /\ wpc' = "idle"
  /\ seq' = ver + 1
  /\ stable' = mem
  /\ during' = [r \in Readers |-> IF during[r] = {} THEN {} ELSE during[r] \cup {mem}]
  /\ UNCHANGED <<up, ver, todo, stamp, mem, reader, trusted, calm>>

(* The second version store; the record is the published one from here on. *)
EndUpdate ==
  /\ up
  /\ wpc = "storing"
  /\ todo = {}
  /\ wpc' = "idle"
  /\ seq' = ver + 2
  /\ stable' = mem
  /\ during' = [r \in Readers |-> IF during[r] = {} THEN {} ELSE during[r] \cup {mem}]
  /\ UNCHANGED <<up, ver, todo, stamp, mem, reader, trusted, calm>>

(* The daemon ends: by SIGTERM between updates, by SIGKILL anywhere. *)
Die ==
  /\ up
  /\ up' = FALSE
  /\ wpc' = "idle"
  /\ todo' = {}
  /\ trusted' = (trusted /\ wpc = "idle")
  /\ UNCHANGED <<ver, stamp, seq, mem, reader, stable, during, calm>>

-----------------------------------------------------------------------------
(* read_atomic. *)

Call(r) ==
  /\ rpc[r] = "idle"
  /\ rpc' = [rpc EXCEPT ![r] = "load"]
  /\ tries' = [tries EXCEPT ![r] = 0]
  /\ during' = [during EXCEPT ![r] = {stable}]
  /\ calm' = [calm EXCEPT ![r] = (wpc = "idle")]
  /\ UNCHANGED <<writer, v1, left, buf, answer, stable, trusted>>

LoadUnbounded(r) ==
  /\ rpc[r] = "load"
  /\ tries' = [tries EXCEPT ![r] = @ + 1]
  /\ v1' = [v1 EXCEPT ![r] = seq]
  /\ IF Odd(seq) THEN UNCHANGED <<rpc, left>>
     ELSE /\ rpc' = [rpc EXCEPT ![r] = "copy"]
          /\ left' = [left EXCEPT ![r] = Fields]
  /\ UNCHANGED <<writer, buf, answer, stable, during, trusted, calm>>

(* One more try: the version is loaded, and an odd one restarts the loop. *)
LoadVersion(r) ==
  /\ rpc[r] = "load"
  /\ tries[r] < MaxRetries
  /\ tries' = [tries EXCEPT ![r] = @ + 1]
  /\ v1' = [v1 EXCEPT ![r] = seq]
  /\ IF Odd(seq) THEN UNCHANGED <<rpc, left>>
     ELSE /\ rpc' = [rpc EXCEPT ![r] = "copy"]
          /\ left' = [left EXCEPT ![r] = Fields]
  /\ UNCHANGED <<writer, buf, answer, stable, during, trusted, calm>>

CopyField(r, f) ==
  /\ rpc[r] = "copy"
  /\ f \in left[r]
  /\ buf' = [buf EXCEPT ![r][f] = mem[f]]
  /\ left' = [left EXCEPT ![r] = @ \ {f}]
  /\ UNCHANGED <<writer, rpc, tries, v1, answer, stable, during, trusted, calm>>

(* The second version load: unchanged, the copy is returned. *)
Accept(r) ==
  /\ rpc[r] = "copy"
  /\ left[r] = {}
  /\ seq = v1[r]
  /\ rpc' = [rpc EXCEPT ![r] = "idle"]
  /\ answer' = [answer EXCEPT ![r] = {buf[r]}]
  /\ during' = [during EXCEPT ![r] = {}]
  /\ UNCHANGED <<writer, tries, v1, left, buf, stable, trusted, calm>>

RetryStale(r) ==
  /\ rpc[r] = "copy"
  /\ left[r] = {}
  /\ seq # v1[r]
  /\ rpc' = [rpc EXCEPT ![r] = "load"]
  /\ UNCHANGED <<writer, tries, v1, left, buf, answer, stable, during, trusted, calm>>

RestartCount(r) ==
  /\ rpc[r] = "load"
  /\ tries[r] = MaxRetries
  /\ tries' = [tries EXCEPT ![r] = 0]
  /\ UNCHANGED <<writer, rpc, v1, left, buf, answer, stable, during, trusted, calm>>

(* 100 attempts were not enough: false. *)
GiveUp(r) ==
  /\ rpc[r] = "load"
  /\ tries[r] = MaxRetries
  /\ rpc' = [rpc EXCEPT ![r] = "idle"]
  /\ answer' = [answer EXCEPT ![r] = {}]
  /\ during' = [during EXCEPT ![r] = {}]
  /\ UNCHANGED <<writer, tries, v1, left, buf, stable, trusted, calm>>

Advance(r) ==
  LoadVersion(r) \/ Accept(r) \/ RetryStale(r) \/ GiveUp(r) \/ \E f \in Fields : CopyField(r, f)

Next ==
  \/ Start
  \/ \E shape \in Shapes : BeginUpdate(shape)
  \/ \E f \in Fields : StoreField(f)
  \/ EndUpdate
  \/ Die
  \/ \E r \in Readers : Call(r) \/ Advance(r)

(* A read that has begun runs to its end; the daemon owes nothing. *)
Spec == Init /\ [][Next]_vars /\ \A r \in Readers : WF_vars(Advance(r))

-----------------------------------------------------------------------------
(* Properties. *)

(* The lock-free protocol implements the register: until an update is cut   *)
(* short, a read returns one whole record that was current during the call, *)
(* for every interleaving of stores, copies, restarts and retries.          *)
Register == INSTANCE SnapshotRegister WITH register <- stable, current <- during
ImplementsRegister == Register!Spec

(* A completed read returns a record some update left whole and that was    *)
(* current during the call, whatever became of the writer (REQ-026          *)
(* [REQ-29.5], [REQ-29.6]).                                                 *)
Accepting(r) == rpc[r] = "copy" /\ rpc'[r] = "idle"
ReadsAreWhole ==
  [][\A r \in Readers : Accepting(r) => answer'[r] \subseteq during[r]]_vars

(* A read no update overlaps succeeds on its first attempt: only concurrent *)
(* updates, never an earlier one, make a client show nothing.               *)
QuietReadSucceeds ==
  \A r \in Readers : trusted /\ calm[r] /\ rpc[r] = "load" => tries[r] = 0

(* read_atomic is wait-free: it returns even when updates keep coming and   *)
(* when the writer died with the version odd.                               *)
ReadsReturn == \A r \in Readers : rpc[r] # "idle" ~> rpc[r] = "idle"
=============================================================================
