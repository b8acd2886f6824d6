----------------------------- MODULE HistoryRing -----------------------------
(***************************************************************************)
(* The seven-day history in shared memory: a ring of points under a        *)
(* sequence lock, appended to by the daemon, copied out by readers.        *)
(*                                                                         *)
(* An append is five stores, and a snapshot three loads of the header and  *)
(* one per point, between two loads of the version: a reader may overlap   *)
(* any number of appends, and asks for as many points as it has room for.  *)
(* The memory outlives the daemon, whose next life goes on with the        *)
(* version, the head and the count it finds.                               *)
(***************************************************************************)
EXTENDS Naturals, Sequences, SequencesExt

CONSTANTS
  Capacity,     \* CAPACITY
  MaxPoints,    \* bound on the points appended
  Attempts,     \* the passes of read_snapshot before it gives up
  Rooms         \* max_entries of the readers

ASSUME RingAssumption ==
  /\ {Capacity, MaxPoints, Attempts} \subseteq Nat \ {0}
  /\ Rooms \subseteq Nat \ {0}

VARIABLES
  ringVer,    \* seq_version
  cells,      \* entries: the number of a point, 0 when there is none
  head,       \* head_index
  count,      \* count
  stage,      \* the store of append that comes next
  made,       \* the points appended so far are 1..made
  reader,     \* read_snapshot: its local variables
  whole,      \* the contents the ring stood for since the call (a history)
  torn        \* a daemon was killed inside an append (a history)

ringVars == <<ringVer, cells, head, count, stage, made, reader, whole, torn>>

Odd(v) == v % 2 = 1

Stages == {"idle", "entry", "head", "count", "end"}

IdleReader ==
  [at |-> "away", room |-> 0, pass |-> 0, v1 |-> 0, c |-> 0, head |-> 0, start |-> 0, out |-> <<>>]

RingTypeOK ==
  /\ ringVer \in 0..(2 * MaxPoints)
  /\ cells \in [0..(Capacity - 1) -> 0..MaxPoints]
  /\ head \in 0..(Capacity - 1)
  /\ count \in 0..Capacity
  /\ stage \in Stages
  /\ made \in 0..MaxPoints
  /\ reader.at \in {"away", "version", "count", "head", "full", "copy", "check", "accepted", "failed"}
  /\ Len(reader.out) <= Capacity
  /\ torn \in BOOLEAN

-----------------------------------------------------------------------------
(* The daemon, in process_light_probe_cycle.                                 *)

(* After a kill inside an append the version is out of step, and no append   *)
(* is explored any more: a bound.                                            *)
BeginAppend ==
  /\ stage = "idle"
  /\ made < MaxPoints /\ ~torn
  /\ made' = made + 1
  /\ ringVer' = ringVer + 1
  /\ stage' = "entry"
  /\ UNCHANGED <<cells, head, count, reader, whole, torn>>

StoreEntry ==
  /\ stage = "entry"
  /\ cells' = [cells EXCEPT ![head] = made]
  /\ stage' = "head"
  /\ UNCHANGED <<ringVer, head, count, made, reader, whole, torn>>

StoreHead ==
  /\ stage = "head"
  /\ head' = (head + 1) % Capacity
  /\ stage' = "count"
  /\ UNCHANGED <<ringVer, cells, count, made, reader, whole, torn>>

StoreCount ==
  /\ stage = "count"
  /\ count' = IF count < Capacity THEN count + 1 ELSE count
  /\ stage' = "end"
  /\ UNCHANGED <<ringVer, cells, head, made, reader, whole, torn>>

(* What the ring stands for: the last Capacity points, oldest first.         *)
Contents(n) == [i \in 1..(IF n < Capacity THEN n ELSE Capacity) |->
                  IF n < Capacity THEN i ELSE n - Capacity + i]

EndAppend ==
  /\ stage = "end"
  /\ ringVer' = ringVer + 1
  /\ stage' = "idle"
  /\ whole' = IF reader.at = "away" THEN whole ELSE whole \cup {Contents(made)}
  /\ UNCHANGED <<cells, head, count, made, reader, torn>>

(* Killed and restarted: setup_history_shm keeps a file of the right size.   *)
RestartWriter ==
  /\ stage # "idle"
  /\ stage' = "idle"
  /\ torn' = TRUE
  /\ UNCHANGED <<ringVer, cells, head, count, made, reader, whole>>

-----------------------------------------------------------------------------
(* A reader, in read_snapshot.                                               *)

CallReader ==
  /\ reader.at = "away"
  /\ \E room \in Rooms : reader' = [IdleReader EXCEPT !.at = "version", !.room = room]
  /\ whole' = IF stage = "idle" THEN {Contents(made)} ELSE {Contents(made - 1)}
  /\ UNCHANGED <<ringVer, cells, head, count, stage, made, torn>>

(* The next pass of the loop, or the end of it.                              *)
Retry(r) ==
  IF r.pass + 1 < Attempts
  THEN [IdleReader EXCEPT !.at = "version", !.room = r.room, !.pass = r.pass + 1]
  ELSE [IdleReader EXCEPT !.at = "failed"]

ReadVersion(r) ==
  IF Odd(ringVer) THEN Retry(r) ELSE [r EXCEPT !.at = "count", !.v1 = ringVer]

ReadCount(r) == [r EXCEPT !.at = "head", !.c = IF count < r.room THEN count ELSE r.room, !.out = <<>>]

ReadHead(r) == [r EXCEPT !.at = "full", !.head = head]

(* The oldest point is at the head once the ring has wrapped.                *)
StartAt(h) == IF count < Capacity THEN 0 ELSE h
ReadFull(r) == [r EXCEPT !.at = "copy", !.start = StartAt(r.head)]

CopyEntry(r) ==
  IF Len(r.out) = r.c THEN [r EXCEPT !.at = "check"]
  ELSE [r EXCEPT !.out = Append(@, cells[(r.start + Len(@)) % Capacity])]

CheckUnread(r) == [r EXCEPT !.at = "accepted"]
Check(r) == IF ringVer = r.v1 THEN [r EXCEPT !.at = "accepted"] ELSE Retry(r)

ReaderStep ==
  /\ reader' = CASE reader.at = "version" -> ReadVersion(reader)
                 [] reader.at = "count" -> ReadCount(reader)
                 [] reader.at = "head" -> ReadHead(reader)
                 [] reader.at = "full" -> ReadFull(reader)
                 [] reader.at = "copy" -> CopyEntry(reader)
                 [] reader.at = "check" -> Check(reader)
                 [] reader.at \in {"accepted", "failed"} -> IdleReader
                 [] reader.at = "away" -> reader
  /\ reader.at # "away"
  /\ whole' = IF reader'.at = "away" THEN {} ELSE whole
  /\ UNCHANGED <<ringVer, cells, head, count, stage, made, torn>>

RingInit ==
  /\ ringVer = 0
  /\ cells = [i \in 0..(Capacity - 1) |-> 0]
  /\ head = 0 /\ count = 0
  /\ stage = "idle"
  /\ made = 0
  /\ reader = IdleReader
  /\ whole = {}
  /\ torn = FALSE

RingNext ==
  \/ BeginAppend \/ StoreEntry \/ StoreHead \/ StoreCount \/ EndAppend \/ RestartWriter
  \/ CallReader \/ ReaderStep

RingSpec == RingInit /\ [][RingNext]_ringVars

-----------------------------------------------------------------------------
(* Properties.                                                               *)

(* "reads in chronological order: oldest to newest" (line 64): a snapshot    *)
(* that is accepted is the beginning of a history that the ring stood for    *)
(* at one moment of the call, in order and without a hole, over any number   *)
(* of appends and wraps that overlap it.  A daemon killed inside an append   *)
(* takes that away: its successor inverts the parity.                        *)
SnapshotsAreInOrder ==
  reader.at = "accepted" /\ ~torn => \E h \in whole : IsPrefix(reader.out, h)

=============================================================================
