------------------------- MODULE HistoryRing_proofs -------------------------
(***************************************************************************)
(* Proofs about HistoryRing for every capacity, number of points, of       *)
(* passes and room.  The argument has two halves.  The daemon's half says, *)
(* for each store of an append, which points the cells hold and where head *)
(* and count stand; it needs that two points less than Capacity apart      *)
(* never share a cell.  The reader's half says that as long as the version *)
(* it loaded has not moved, what it has copied is the beginning of what    *)
(* the ring stands for now.                                                *)
(***************************************************************************)
EXTENDS HistoryRing, Integers, SequenceTheorems, TLAPS

(* The points whose append has stored its entry, its head, its count.        *)
Entered == IF stage = "entry" THEN made - 1 ELSE made
Headed == IF stage \in {"entry", "head"} THEN made - 1 ELSE made
Counted == IF stage \in {"entry", "head", "count"} THEN made - 1 ELSE made
Finished == IF stage = "idle" THEN made ELSE made - 1

(* The cells after n appends hold the last Capacity points, each where its   *)
(* number falls.                                                             *)
Holds(n) ==
  \A i \in 1..n : n - i < Capacity => cells[(i - 1) % Capacity] = i

CountOf(n) == IF n < Capacity THEN n ELSE Capacity

WriterInv ==
  ~torn => /\ ringVer = 2 * Finished + (IF stage = "idle" THEN 0 ELSE 1)
           /\ stage # "idle" => made >= 1
           /\ Holds(Entered)
           /\ head = Headed % Capacity
           /\ count = CountOf(Counted)

(* What the ring stands for is among the contents of the call.               *)
WholeInv == ~torn /\ reader.at # "away" => Contents(Finished) \in whole

Readers ==
  [at: {"away", "version", "count", "head", "full", "copy", "check", "accepted", "failed"},
   room: Nat, pass: Nat, v1: Nat, c: 0..Capacity, head: 0..(Capacity - 1),
   start: 0..(Capacity - 1), out: Seq(0..MaxPoints)]

(* What has been loaded, for a version that has not moved: `made` points.    *)
CurrentInv(r) ==
  /\ r.at \in {"head", "full", "copy", "check"} =>
       r.c = IF CountOf(made) < r.room THEN CountOf(made) ELSE r.room
  /\ r.at = "full" => r.head = made % Capacity
  /\ r.at \in {"copy", "check"} => r.start = IF made < Capacity THEN 0 ELSE made % Capacity
  /\ r.at \in {"copy", "check"} => \A i \in 1..Len(r.out) : r.out[i] = Contents(made)[i]
  /\ r.at = "check" => Len(r.out) = r.c

ReaderInv ==
  /\ reader \in Readers
  /\ reader.at \in {"head", "full"} => Len(reader.out) = 0
  /\ Len(reader.out) <= reader.c
  /\ ~torn /\ reader.at \in {"count", "head", "full", "copy", "check"} =>
       /\ ~Odd(reader.v1) /\ reader.v1 <= ringVer
       /\ reader.v1 = ringVer => CurrentInv(reader)

RingTypeInv ==
  /\ ringVer \in 0..(2 * MaxPoints)
  /\ cells \in [0..(Capacity - 1) -> 0..MaxPoints]
  /\ head \in 0..(Capacity - 1)
  /\ count \in 0..Capacity
  /\ stage \in Stages
  /\ made \in 0..MaxPoints
  /\ torn \in BOOLEAN
  /\ stage # "idle" => ~torn

RingInv == RingTypeInv /\ WriterInv /\ WholeInv /\ ReaderInv /\ SnapshotsAreInOrder

-----------------------------------------------------------------------------
(* Remainders.                                                               *)

LEMMA ModDiv ==
  ASSUME NEW C \in Nat \ {0}, NEW x \in Nat
  PROVE  /\ x % C \in 0..(C - 1)
         /\ x \div C \in Nat
         /\ x = C * (x \div C) + (x % C)
BY Z3

LEMMA ModUnique ==
  ASSUME NEW C \in Nat \ {0}, NEW x \in Nat, NEW q \in Nat, NEW r \in 0..(C - 1),
         x = C * q + r
  PROVE  x % C = r
<1> DEFINE p == x \div C
           s == x % C
           d == q - p
<1>1. p \in Nat /\ s \in 0..(C - 1) /\ x = C * p + s
  BY ModDiv
<1> HIDE DEF p, s
<1>2. d \in Int /\ C * d = s - r
  BY <1>1
<1> HIDE DEF d
<1>3. ~ d >= 1
  <2>1. ASSUME d >= 1 PROVE C * d >= C
    BY <1>2, <2>1
  <2> QED  BY <1>1, <1>2, <2>1
<1>4. ~ d <= -1
  <2>1. ASSUME d <= -1 PROVE C * d <= -C
    BY <1>2, <2>1
  <2> QED  BY <1>1, <1>2, <2>1
<1>5. d = 0
  BY <1>2, <1>3, <1>4
<1> QED  BY <1>1, <1>2, <1>5 DEF s

LEMMA ModSmall ==
  ASSUME NEW C \in Nat \ {0}, NEW x \in 0..(C - 1)
  PROVE  x % C = x
BY ModUnique, x = C * 0 + x

(* Adding to a remainder or to the number is the same.                       *)
LEMMA ModOfSum ==
  ASSUME NEW C \in Nat \ {0}, NEW x \in Nat, NEW k \in Nat
  PROVE  ((x % C) + k) % C = (x + k) % C
<1> DEFINE p == x \div C
           s == x % C
           q == (s + k) \div C
           r == (s + k) % C
<1>1. p \in Nat /\ s \in 0..(C - 1) /\ x = C * p + s
  BY ModDiv
<1> HIDE DEF p, s
<1>2. q \in Nat /\ r \in 0..(C - 1) /\ s + k = C * q + r
  <2>1. s + k \in Nat
    BY <1>1
  <2> QED  BY <2>1, ModDiv
<1> HIDE DEF q, r
<1>3. x + k = C * (p + q) + r /\ x + k \in Nat /\ p + q \in Nat
  BY <1>1, <1>2
<1>4. (x + k) % C = r
  BY <1>2, <1>3, ModUnique
<1> QED  BY <1>4 DEF r, s

(* A whole turn of the ring changes nothing.                                 *)
LEMMA ModTurn ==
  ASSUME NEW C \in Nat \ {0}, NEW x \in Nat
  PROVE  (x + C) % C = x % C
<1>1. x % C \in 0..(C - 1) /\ x \div C \in Nat /\ x = C * (x \div C) + (x % C)
  BY ModDiv
<1>2. /\ x + C = C * ((x \div C) + 1) + (x % C)
      /\ x + C \in Nat /\ (x \div C) + 1 \in Nat
  BY <1>1
<1> QED  BY <1>1, <1>2, ModUnique

(* Less than a turn apart is not in the same cell.                           *)
LEMMA ModApart ==
  ASSUME NEW C \in Nat \ {0}, NEW x \in Nat, NEW y \in Nat, x < y, y - x < C
  PROVE  x % C # y % C
<1> SUFFICES ASSUME x % C = y % C PROVE FALSE
  OBVIOUS
<1> DEFINE p == x \div C
           q == y \div C
           s == x % C
           d == q - p
<1>1. p \in Nat /\ q \in Nat /\ s \in 0..(C - 1) /\ x = C * p + s /\ y = C * q + s
  BY ModDiv
<1> HIDE DEF p, q, s
<1>2. d \in Int /\ C * d = y - x
  BY <1>1
<1> HIDE DEF d
<1>3. d >= 1
  <2>1. ASSUME d <= 0 PROVE C * d <= 0
    BY <1>2, <2>1
  <2> QED  BY <1>2, <2>1
<1>4. C * d >= C
  BY <1>2, <1>3
<1> QED  BY <1>2, <1>4

-----------------------------------------------------------------------------
(* What the ring stands for.                                                 *)

LEMMA ContentsAt ==
  ASSUME NEW n \in Nat, NEW i \in 1..CountOf(n)
  PROVE  /\ DOMAIN Contents(n) = 1..CountOf(n)
         /\ Contents(n)[i] = IF n < Capacity THEN i ELSE n - Capacity + i
BY RingAssumption DEF Contents, CountOf

(* The i-th cell from the start is the i-th point of the contents.           *)
LEMMA CellsAreContents ==
  ASSUME NEW n \in Nat, Holds(n), NEW i \in 1..CountOf(n)
  PROVE  cells[((IF n < Capacity THEN 0 ELSE n % Capacity) + (i - 1)) % Capacity]
           = Contents(n)[i]
<1>1. Capacity \in Nat \ {0}
  BY RingAssumption
<1>2. CASE n < Capacity
  <2>1. i \in 1..n /\ n - i < Capacity
    BY <1>1, <1>2 DEF CountOf
  <2>2. cells[(i - 1) % Capacity] = i
    BY <2>1 DEF Holds
  <2> QED  BY <1>1, <1>2, <2>1, <2>2, ContentsAt
<1>3. CASE n >= Capacity
  <2> DEFINE j == n - Capacity + i
  <2>1. j \in 1..n /\ n - j < Capacity /\ j - 1 \in Nat
    BY <1>1, <1>3 DEF CountOf
  <2>2. cells[(j - 1) % Capacity] = j
    BY <2>1 DEF Holds
  <2>3. ((n % Capacity) + (i - 1)) % Capacity = (n + (i - 1)) % Capacity
    <3>1. i - 1 \in Nat
      BY <1>1 DEF CountOf
    <3> QED  BY <1>1, <3>1, ModOfSum
  <2>4. n + (i - 1) = (j - 1) + Capacity
    BY <1>1
  <2>5. (n + (i - 1)) % Capacity = (j - 1) % Capacity
    BY <1>1, <2>1, <2>4, ModTurn
  <2>6. Contents(n)[i] = j
    BY <1>1, <1>3, ContentsAt
  <2> QED  BY <1>1, <1>3, <2>2, <2>3, <2>5, <2>6
<1> QED  BY <1>1, <1>2, <1>3

(* A sequence that agrees with the contents where it has anything begins it. *)
LEMMA PrefixOfContents ==
  ASSUME NEW n \in Nat, NEW out \in Seq(0..MaxPoints), Len(out) <= CountOf(n),
         \A i \in 1..Len(out) : out[i] = Contents(n)[i]
  PROVE  IsPrefix(out, Contents(n))
<1>1. Capacity \in Nat \ {0} /\ CountOf(n) \in Nat
  BY RingAssumption DEF CountOf
<1>2. Contents(n) = [i \in 1..CountOf(n) |-> IF n < Capacity THEN i ELSE n - Capacity + i]
  BY DEF Contents, CountOf
<1>3. Contents(n) \in Seq(Int)
  <2>1. Contents(n) \in [1..CountOf(n) -> Int]
    BY <1>1, <1>2
  <2> QED  BY <1>1, <2>1, SeqDef
<1>4. DOMAIN Contents(n) = 1..Len(Contents(n)) /\ Len(Contents(n)) \in Nat
  BY <1>3, LenProperties
<1>5. Len(Contents(n)) = CountOf(n)
  <2>1. DOMAIN Contents(n) = 1..CountOf(n)
    BY <1>2
  <2> QED  BY <1>1, <1>4, <2>1
<1>6. /\ out \in Seq(Int) /\ Len(out) \in Nat
  BY SeqMonotonic, LenProperties, 0..MaxPoints \subseteq Int
<1>7. \A i \in 1..Len(out) : out[i] \in Int /\ Contents(n)[i] \in Int
  BY <1>3, <1>5, <1>6, ElementOfSeq
<1> DEFINE s == SubSeq(out, 1, Len(out))
           t == SubSeq(Contents(n), 1, Len(out))
<1>8. /\ s \in Seq(Int) /\ Len(s) = Len(out)
      /\ \A i \in 1..Len(out) : s[i] = out[i]
  BY <1>6, <1>7, SubSeqProperties
<1>9. /\ t \in Seq(Int) /\ Len(t) = Len(out)
      /\ \A i \in 1..Len(out) : t[i] = Contents(n)[i]
  BY <1>6, <1>7, SubSeqProperties
<1> HIDE DEF s, t
<1>10. s = t
  BY <1>8, <1>9, SeqEqual
<1> QED  BY <1>5, <1>10 DEF IsPrefix, s, t

-----------------------------------------------------------------------------
(* The daemon's steps.                                                       *)

(* A daemon's step leaves the reader alone, and whatever moves the version   *)
(* moves it past the one the reader loaded.                                  *)
LEMMA ReaderIsUndisturbed ==
  ASSUME RingInv, UNCHANGED reader,
         \/ UNCHANGED <<ringVer, made, torn>>
         \/ ringVer' = ringVer + 1 /\ UNCHANGED torn
         \/ torn'
  PROVE  ReaderInv'
<1>1. ReaderInv /\ ringVer \in Nat
  BY DEF RingInv, RingTypeInv
<1>2. reader \in Readers /\ reader.v1 \in Nat
  BY <1>1 DEF ReaderInv, Readers
<1>3. CASE UNCHANGED <<ringVer, made, torn>>
  BY <1>1, <1>3 DEF ReaderInv, CurrentInv, Contents, CountOf
<1>4. CASE ringVer' = ringVer + 1 /\ UNCHANGED torn
  BY <1>1, <1>2, <1>4 DEF ReaderInv
<1>5. CASE torn'
  BY <1>1, <1>5 DEF ReaderInv
<1> QED  BY <1>3, <1>4, <1>5

LEMMA BeginStep ==
  ASSUME RingInv, BeginAppend
  PROVE  RingInv'
<1>1. /\ stage = "idle" /\ stage' = "entry" /\ ~torn /\ ~torn'
      /\ made < MaxPoints /\ made' = made + 1 /\ ringVer' = ringVer + 1
      /\ UNCHANGED <<cells, head, count, reader, whole, torn>>
  BY DEF BeginAppend
<1>2. RingTypeInv /\ WriterInv /\ WholeInv /\ made \in Nat /\ ringVer = 2 * made
  BY <1>1 DEF RingInv, RingTypeInv, WriterInv, Finished
<1>3. RingTypeInv'
  BY <1>1, <1>2, RingAssumption DEF RingTypeInv, Stages
<1>4. Entered' = made /\ Headed' = made /\ Counted' = made /\ Finished' = made
  BY <1>1, <1>2 DEF Entered, Headed, Counted, Finished
<1>5. WriterInv'
  BY <1>1, <1>2, <1>4 DEF WriterInv, Entered, Headed, Counted, Finished, Holds, CountOf
<1>6. WholeInv'
  BY <1>1, <1>2, <1>4 DEF WholeInv, Finished, Contents
<1>7. ReaderInv' /\ SnapshotsAreInOrder'
  BY <1>1, ReaderIsUndisturbed DEF RingInv, SnapshotsAreInOrder
<1> QED  BY <1>3, <1>5, <1>6, <1>7 DEF RingInv

(* The new point takes the cell of the one that is a turn older.             *)
LEMMA EntryStep ==
  ASSUME RingInv, StoreEntry
  PROVE  RingInv'
<1>1. /\ stage = "entry" /\ stage' = "head"
      /\ cells' = [cells EXCEPT ![head] = made]
      /\ UNCHANGED <<ringVer, head, count, made, reader, whole, torn>>
  BY DEF StoreEntry
<1>2. RingTypeInv /\ WriterInv /\ WholeInv /\ made \in Nat
  BY DEF RingInv, RingTypeInv
<1>3. RingTypeInv'
  BY <1>1, <1>2 DEF RingTypeInv, Stages
<1>4. WriterInv'
  <2> SUFFICES ASSUME ~torn PROVE WriterInv'
    BY <1>1 DEF WriterInv
  <2>1. made >= 1 /\ Holds(made - 1) /\ head = (made - 1) % Capacity /\ count = CountOf(made - 1)
        /\ ringVer = 2 * (made - 1) + 1
    BY <1>1, <1>2 DEF WriterInv, Entered, Headed, Counted, Finished
  <2>2. Holds(made)'
    <3> SUFFICES ASSUME NEW i \in 1..made, made - i < Capacity
                 PROVE  cells'[(i - 1) % Capacity] = i
      BY <1>1 DEF Holds
    <3>1. Capacity \in Nat \ {0} /\ i - 1 \in Nat /\ made - 1 \in Nat
      BY <1>2, <2>1, RingAssumption
    <3>2. (i - 1) % Capacity \in 0..(Capacity - 1)
      BY <3>1, ModDiv
    <3>3. CASE i = made
      BY <1>1, <1>2, <2>1, <3>2, <3>3 DEF RingTypeInv
    <3>4. CASE i < made
      <4> DEFINE x == i - 1
                 y == made - 1
      <4>1. x \in Nat /\ y \in Nat /\ x < y /\ y - x < Capacity
        BY <1>2, <3>1, <3>4
      <4>2. i \in 1..y /\ y - i < Capacity
        BY <1>2, <3>1, <3>4
      <4>3. Holds(y) /\ head = y % Capacity
        BY <2>1
      <4> HIDE DEF y
      <4>4. cells[(i - 1) % Capacity] = i
        BY <4>2, <4>3 DEF Holds
      <4> HIDE DEF x
      <4>5. x % Capacity # y % Capacity
        BY <3>1, <4>1, ModApart
      <4>6. (i - 1) % Capacity # head
        BY <4>3, <4>5 DEF x
      <4> QED  BY <1>1, <1>2, <3>2, <4>6, <4>4 DEF RingTypeInv
    <3> QED  BY <1>2, <3>3, <3>4
  <2> QED
    BY <1>1, <2>1, <2>2 DEF WriterInv, Entered, Headed, Counted, Finished, CountOf
<1>5. WholeInv'
  BY <1>1, <1>2 DEF WholeInv, Finished, Contents
<1>6. ReaderInv' /\ SnapshotsAreInOrder'
  BY <1>1, ReaderIsUndisturbed DEF RingInv, SnapshotsAreInOrder
<1> QED  BY <1>3, <1>4, <1>5, <1>6 DEF RingInv

LEMMA HeadStep ==
  ASSUME RingInv, StoreHead
  PROVE  RingInv'
<1>1. /\ stage = "head" /\ stage' = "count"
      /\ head' = (head + 1) % Capacity
      /\ UNCHANGED <<ringVer, cells, count, made, reader, whole, torn>>
  BY DEF StoreHead
<1>2. RingTypeInv /\ WriterInv /\ WholeInv /\ made \in Nat /\ head \in Nat
      /\ Capacity \in Nat \ {0}
  BY RingAssumption DEF RingInv, RingTypeInv
<1>3. RingTypeInv'
  <2>1. head' \in 0..(Capacity - 1)
    BY <1>1, <1>2, ModDiv
  <2> QED  BY <1>1, <1>2, <2>1 DEF RingTypeInv, Stages
<1>4. WriterInv'
  <2> SUFFICES ASSUME ~torn PROVE WriterInv'
    BY <1>1 DEF WriterInv
  <2>1. made >= 1 /\ Holds(made) /\ head = (made - 1) % Capacity /\ count = CountOf(made - 1)
        /\ ringVer = 2 * (made - 1) + 1
    BY <1>1, <1>2 DEF WriterInv, Entered, Headed, Counted, Finished
  <2>2. made - 1 \in Nat /\ (made - 1) + 1 = made
    BY <1>2, <2>1
  <2>3. head' = made % Capacity
    <3> DEFINE x == made - 1
    <3>1. x \in Nat /\ x + 1 = made /\ head = x % Capacity
      BY <2>1, <2>2
    <3> HIDE DEF x
    <3>2. ((x % Capacity) + 1) % Capacity = (x + 1) % Capacity
      BY <1>2, <3>1, ModOfSum
    <3> QED  BY <1>1, <3>1, <3>2
  <2> QED
    BY <1>1, <2>1, <2>3 DEF WriterInv, Entered, Headed, Counted, Finished, Holds, CountOf
<1>5. WholeInv'
  BY <1>1, <1>2 DEF WholeInv, Finished, Contents
<1>6. ReaderInv' /\ SnapshotsAreInOrder'
  BY <1>1, ReaderIsUndisturbed DEF RingInv, SnapshotsAreInOrder
<1> QED  BY <1>3, <1>4, <1>5, <1>6 DEF RingInv

LEMMA CountStep ==
  ASSUME RingInv, StoreCount
  PROVE  RingInv'
<1>1. /\ stage = "count" /\ stage' = "end"
      /\ count' = IF count < Capacity THEN count + 1 ELSE count
      /\ UNCHANGED <<ringVer, cells, head, made, reader, whole, torn>>
  BY DEF StoreCount
<1>2. RingTypeInv /\ WriterInv /\ WholeInv /\ made \in Nat /\ Capacity \in Nat \ {0}
  BY RingAssumption DEF RingInv, RingTypeInv
<1>3. RingTypeInv'
  BY <1>1, <1>2 DEF RingTypeInv, Stages
<1>4. WriterInv'
  <2> SUFFICES ASSUME ~torn PROVE WriterInv'
    BY <1>1 DEF WriterInv
  <2>1. made >= 1 /\ Holds(made) /\ head = made % Capacity /\ count = CountOf(made - 1)
        /\ ringVer = 2 * (made - 1) + 1
    BY <1>1, <1>2 DEF WriterInv, Entered, Headed, Counted, Finished
  <2>2. count' = CountOf(made)
    BY <1>1, <1>2, <2>1 DEF CountOf
  <2> QED
    BY <1>1, <2>1, <2>2 DEF WriterInv, Entered, Headed, Counted, Finished, Holds, CountOf
<1>5. WholeInv'
  BY <1>1, <1>2 DEF WholeInv, Finished, Contents
<1>6. ReaderInv' /\ SnapshotsAreInOrder'
  BY <1>1, ReaderIsUndisturbed DEF RingInv, SnapshotsAreInOrder
<1> QED  BY <1>3, <1>4, <1>5, <1>6 DEF RingInv

LEMMA EndStep ==
  ASSUME RingInv, EndAppend
  PROVE  RingInv'
<1>1. /\ stage = "end" /\ stage' = "idle" /\ ringVer' = ringVer + 1
      /\ whole' = IF reader.at = "away" THEN whole ELSE whole \cup {Contents(made)}
      /\ UNCHANGED <<cells, head, count, made, reader, torn>>
  BY DEF EndAppend
<1>2. RingTypeInv /\ WriterInv /\ made \in 0..MaxPoints /\ ringVer \in 0..(2 * MaxPoints)
      /\ MaxPoints \in Nat
  BY RingAssumption DEF RingInv, RingTypeInv
<1>3. ~torn => ringVer = 2 * (made - 1) + 1
  BY <1>1, <1>2 DEF WriterInv, Finished
<1>4. WriterInv'
  BY <1>1, <1>2, <1>3 DEF WriterInv, Entered, Headed, Counted, Finished, Holds, CountOf
<1>5. WholeInv'
  BY <1>1 DEF WholeInv, Finished, Contents
<1>6. ReaderInv' /\ SnapshotsAreInOrder'
  BY <1>1, ReaderIsUndisturbed DEF RingInv, SnapshotsAreInOrder
<1>7. RingTypeInv'
  BY <1>1, <1>2, <1>3 DEF RingTypeInv, Stages
<1> QED  BY <1>4, <1>5, <1>6, <1>7 DEF RingInv

LEMMA RestartStep ==
  ASSUME RingInv, RestartWriter
  PROVE  RingInv'
<1>1. torn' /\ stage' = "idle" /\ UNCHANGED <<ringVer, cells, head, count, made, reader, whole>>
  BY DEF RestartWriter
<1>2. ReaderInv'
  BY <1>1, ReaderIsUndisturbed
<1> QED
  BY <1>1, <1>2 DEF RingInv, RingTypeInv, WriterInv, WholeInv, SnapshotsAreInOrder, Stages

-----------------------------------------------------------------------------
(* The reader's steps.                                                       *)

LEMMA ReaderFields ==
  ASSUME NEW r \in Readers
  PROVE  /\ r.room \in Nat /\ r.pass \in Nat /\ r.v1 \in Nat /\ r.c \in 0..Capacity
         /\ r.head \in 0..(Capacity - 1) /\ r.start \in 0..(Capacity - 1)
         /\ r.out \in Seq(0..MaxPoints) /\ Len(r.out) \in Nat
BY LenProperties DEF Readers

(* A call, an end and a retry begin with nothing loaded.                     *)
LEMMA FreshReaders ==
  /\ \A room \in Rooms :
       LET r == [IdleReader EXCEPT !.at = "version", !.room = room] IN
       r \in Readers /\ r.at = "version" /\ Len(r.out) = 0 /\ r.c = 0
  /\ IdleReader \in Readers /\ IdleReader.at = "away" /\ Len(IdleReader.out) = 0
       /\ IdleReader.c = 0
  /\ \A r \in Readers :
       /\ Retry(r) \in Readers /\ Retry(r).at \in {"version", "failed"}
       /\ Len(Retry(r).out) = 0 /\ Retry(r).c = 0
<1> USE RingAssumption, EmptySeq
<1>1. 0 \in 0..Capacity /\ 0 \in 0..(Capacity - 1)
  OBVIOUS
<1>2. <<>> \in Seq(0..MaxPoints) /\ Len(<<>>) = 0
  OBVIOUS
<1>3. ASSUME NEW room \in Rooms
      PROVE  LET r == [IdleReader EXCEPT !.at = "version", !.room = room] IN
             r \in Readers /\ r.at = "version" /\ Len(r.out) = 0 /\ r.c = 0
  BY <1>1, <1>2 DEF IdleReader, Readers
<1>4. /\ IdleReader \in Readers /\ IdleReader.at = "away" /\ Len(IdleReader.out) = 0
      /\ IdleReader.c = 0
  BY <1>1, <1>2 DEF IdleReader, Readers
<1>5. ASSUME NEW r \in Readers
      PROVE  /\ Retry(r) \in Readers /\ Retry(r).at \in {"version", "failed"}
             /\ Len(Retry(r).out) = 0 /\ Retry(r).c = 0
  <2>1. r.room \in Nat /\ r.pass \in Nat /\ r.pass + 1 \in Nat
    BY DEF Readers
  <2> QED  BY <1>1, <1>2, <2>1 DEF Retry, IdleReader, Readers
<1> QED  BY <1>3, <1>4, <1>5

(* An even version is that of a ring between two appends.                    *)
LEMMA EvenIsIdle ==
  ASSUME RingTypeInv, WriterInv, ~torn, ~Odd(ringVer)
  PROVE  /\ stage = "idle" /\ Finished = made
         /\ count = CountOf(made) /\ head = made % Capacity /\ Holds(made)
BY DEF RingTypeInv, WriterInv, Odd, Entered, Headed, Counted, Finished

LEMMA CallStep ==
  ASSUME RingInv, CallReader
  PROVE  RingInv'
<1>1. PICK room \in Rooms : reader' = [IdleReader EXCEPT !.at = "version", !.room = room]
  BY DEF CallReader
<1>2. /\ reader' \in Readers /\ reader'.at = "version"
      /\ Len(reader'.out) = 0 /\ reader'.c = 0
  BY <1>1, FreshReaders
<1>3. UNCHANGED <<ringVer, cells, head, count, stage, made, torn>>
  BY DEF CallReader
<1>4. RingTypeInv' /\ WriterInv'
  BY <1>3 DEF RingInv, RingTypeInv, WriterInv, Entered, Headed, Counted, Finished, Holds, CountOf
<1>5. WholeInv'
  BY <1>3 DEF CallReader, WholeInv, Finished, Contents
<1>6. ReaderInv' /\ SnapshotsAreInOrder'
  BY <1>2 DEF ReaderInv, SnapshotsAreInOrder
<1> QED  BY <1>4, <1>5, <1>6 DEF RingInv

(* What one load leaves behind.                                              *)
LEMMA LoadStep ==
  ASSUME RingInv, ReaderStep
  PROVE  ReaderInv' /\ SnapshotsAreInOrder'
<1> DEFINE r == reader
<1>1. /\ UNCHANGED <<ringVer, cells, head, count, stage, made, torn>>
      /\ whole' = IF reader'.at = "away" THEN {} ELSE whole
      /\ r.at # "away"
  BY DEF ReaderStep
<1>2. RingTypeInv /\ WriterInv /\ WholeInv /\ ReaderInv /\ r \in Readers
      /\ Capacity \in Nat \ {0} /\ made \in Nat /\ ringVer \in Nat
  BY RingAssumption DEF RingInv, RingTypeInv, ReaderInv
<1>3. CASE reader' \in Readers /\ reader'.at \in {"away", "version", "failed"}
             /\ Len(reader'.out) = 0 /\ reader'.c = 0
  BY <1>3 DEF ReaderInv, SnapshotsAreInOrder
<1>4. CASE r.at = "version"
  <2>1. reader' = ReadVersion(r)
    BY <1>4 DEF ReaderStep
  <2>2. CASE Odd(ringVer)
    BY <1>2, <1>3, <2>1, <2>2, FreshReaders DEF ReadVersion
  <2>3. CASE ~Odd(ringVer)
    <3>1. reader' = [r EXCEPT !.at = "count", !.v1 = ringVer]
      BY <2>1, <2>3 DEF ReadVersion
    <3>2. /\ reader' \in Readers /\ reader'.at = "count" /\ reader'.v1 = ringVer
          /\ Len(reader'.out) <= reader'.c
      BY <1>2, <3>1 DEF Readers, ReaderInv
    <3> QED
      BY <1>1, <1>2, <2>3, <3>2 DEF ReaderInv, CurrentInv, SnapshotsAreInOrder, Odd
  <2> QED  BY <2>2, <2>3
<1>5. CASE r.at = "count"
  <2> DEFINE c == IF count < r.room THEN count ELSE r.room
  <2>1. reader' = [r EXCEPT !.at = "head", !.c = c, !.out = <<>>]
    BY <1>5 DEF ReaderStep, ReadCount
  <2>2. c \in 0..Capacity
    BY <1>2, ReaderFields DEF RingTypeInv
  <2>3. <<>> \in Seq(0..MaxPoints) /\ Len(<<>>) = 0
    BY EmptySeq
  <2>4. /\ reader' \in Readers /\ reader'.at = "head" /\ reader'.v1 = r.v1
        /\ Len(reader'.out) = 0 /\ reader'.c = c /\ reader'.room = r.room
    BY <1>2, <2>1, <2>2, <2>3 DEF Readers
  <2>5. ~torn => ~Odd(r.v1) /\ r.v1 <= ringVer
    BY <1>2, <1>5 DEF ReaderInv
  <2>6. ~torn /\ r.v1 = ringVer => CurrentInv(reader')
    BY <1>2, <2>4, <2>5, EvenIsIdle DEF CurrentInv
  <2> HIDE DEF c
  <2>7. ~torn /\ r.v1 = ringVer => CurrentInv(reader)'
    BY <1>1, <2>6 DEF CurrentInv, CountOf, Contents
  <2> QED
    BY <1>1, <2>2, <2>4, <2>5, <2>7 DEF ReaderInv, SnapshotsAreInOrder, Odd
<1>6. CASE r.at = "head"
  <2>1. reader' = [r EXCEPT !.at = "full", !.head = head]
    BY <1>6 DEF ReaderStep, ReadHead
  <2>2. /\ reader' \in Readers /\ reader'.at = "full" /\ reader'.v1 = r.v1
        /\ reader'.out = r.out /\ reader'.c = r.c /\ reader'.room = r.room
        /\ reader'.head = head
    BY <1>2, <2>1 DEF Readers, RingTypeInv
  <2>3. /\ Len(r.out) = 0 /\ Len(r.out) <= r.c
        /\ ~torn => ~Odd(r.v1) /\ r.v1 <= ringVer
    BY <1>2, <1>6 DEF ReaderInv
  <2>4. ~torn /\ r.v1 = ringVer => CurrentInv(r) /\ head = made % Capacity
    BY <1>2, <1>6, <2>3, EvenIsIdle DEF ReaderInv
  <2>5. ~torn /\ r.v1 = ringVer => CurrentInv(reader')
    BY <1>6, <2>2, <2>4 DEF CurrentInv
  <2>6. ~torn /\ r.v1 = ringVer => CurrentInv(reader)'
    BY <1>1, <2>5 DEF CurrentInv, CountOf, Contents
  <2> QED
    BY <1>1, <2>2, <2>3, <2>6 DEF ReaderInv, SnapshotsAreInOrder, Odd
<1>7. CASE r.at = "full"
  <2>1. reader' = [r EXCEPT !.at = "copy", !.start = StartAt(r.head)]
    BY <1>7 DEF ReaderStep, ReadFull
  <2>2. StartAt(r.head) \in 0..(Capacity - 1)
    BY <1>2, ReaderFields DEF StartAt
  <2>3. /\ reader' \in Readers /\ reader'.at = "copy" /\ reader'.v1 = r.v1
        /\ reader'.out = r.out /\ reader'.c = r.c /\ reader'.room = r.room
        /\ reader'.start = StartAt(r.head)
    BY <1>2, <2>1, <2>2 DEF Readers
  <2>4. /\ Len(r.out) = 0 /\ Len(r.out) <= r.c
        /\ ~torn => ~Odd(r.v1) /\ r.v1 <= ringVer
    BY <1>2, <1>7 DEF ReaderInv
  <2>5. ~torn /\ r.v1 = ringVer => CurrentInv(r) /\ count = CountOf(made)
    BY <1>2, <1>7, <2>4, EvenIsIdle DEF ReaderInv
  <2>6. ~torn /\ r.v1 = ringVer => CurrentInv(reader')
    BY <1>2, <1>7, <2>3, <2>4, <2>5 DEF CurrentInv, StartAt, CountOf
  <2>7. ~torn /\ r.v1 = ringVer => CurrentInv(reader)'
    BY <1>1, <2>6 DEF CurrentInv, CountOf, Contents
  <2> QED
    BY <1>1, <2>3, <2>4, <2>7 DEF ReaderInv, SnapshotsAreInOrder, Odd
<1>8. CASE r.at = "copy"
  <2>1. reader' = CopyEntry(r)
    BY <1>8 DEF ReaderStep
  <2>2. /\ Len(r.out) <= r.c
        /\ ~torn => ~Odd(r.v1) /\ r.v1 <= ringVer
    BY <1>2, <1>8 DEF ReaderInv
  <2>3. ~torn /\ r.v1 = ringVer =>
          CurrentInv(r) /\ count = CountOf(made) /\ Holds(made)
    BY <1>2, <1>8, <2>2, EvenIsIdle DEF ReaderInv
  <2>4. CASE Len(r.out) = r.c
    <3>1. reader' = [r EXCEPT !.at = "check"]
      BY <2>1, <2>4 DEF CopyEntry
    <3>2. /\ reader' \in Readers /\ reader'.at = "check" /\ reader'.v1 = r.v1
          /\ reader'.out = r.out /\ reader'.c = r.c /\ reader'.room = r.room
          /\ reader'.start = r.start
      BY <1>2, <3>1 DEF Readers
    <3>3. ~torn /\ r.v1 = ringVer => CurrentInv(reader')
      BY <1>8, <2>3, <2>4, <3>2 DEF CurrentInv
    <3>4. ~torn /\ r.v1 = ringVer => CurrentInv(reader)'
      BY <1>1, <3>3 DEF CurrentInv, CountOf, Contents
    <3> QED
      BY <1>1, <2>2, <3>2, <3>4 DEF ReaderInv, SnapshotsAreInOrder, Odd
  <2>5. CASE Len(r.out) # r.c
    <3> DEFINE n == Len(r.out)
               x == cells[(r.start + n) % Capacity]
    <3>1. reader' = [r EXCEPT !.out = Append(r.out, x)]
      BY <2>1, <2>5 DEF CopyEntry
    <3>2. n \in Nat /\ n + 1 <= r.c /\ r.out \in Seq(0..MaxPoints) /\ r.c \in 0..Capacity
      BY <1>2, <2>2, <2>5, ReaderFields
    <3>3. x \in 0..MaxPoints
      <4>1. r.start + n \in Nat
        BY <1>2, <3>2, ReaderFields
      <4>2. (r.start + n) % Capacity \in 0..(Capacity - 1)
        BY <1>2, <4>1, ModDiv
      <4> QED  BY <1>2, <4>2 DEF RingTypeInv
    <3>4. /\ Append(r.out, x) \in Seq(0..MaxPoints)
          /\ Len(Append(r.out, x)) = n + 1
          /\ \A i \in 1..n : Append(r.out, x)[i] = r.out[i]
          /\ Append(r.out, x)[n + 1] = x
      BY <3>2, <3>3, AppendProperties
    <3>5. /\ reader' \in Readers /\ reader'.at = "copy" /\ reader'.v1 = r.v1
          /\ reader'.out = Append(r.out, x) /\ reader'.c = r.c /\ reader'.room = r.room
          /\ reader'.start = r.start
      BY <1>2, <1>8, <3>1, <3>4 DEF Readers
    <3>6. ~torn /\ r.v1 = ringVer => x = Contents(made)[n + 1]
      <4> SUFFICES ASSUME ~torn, r.v1 = ringVer PROVE x = Contents(made)[n + 1]
        OBVIOUS
      <4>1. /\ r.start = IF made < Capacity THEN 0 ELSE made % Capacity
            /\ r.c <= CountOf(made)
        BY <1>2, <1>8, <2>3, ReaderFields DEF CurrentInv, CountOf
      <4>2. n + 1 \in 1..CountOf(made)
        BY <1>2, <3>2, <4>1 DEF CountOf
      <4>3. cells[((IF made < Capacity THEN 0 ELSE made % Capacity) + ((n + 1) - 1)) % Capacity]
              = Contents(made)[n + 1]
        BY <1>2, <2>3, <4>2, CellsAreContents
      <4>4. (n + 1) - 1 = n
        BY <3>2
      <4> QED  BY <4>1, <4>3, <4>4
    <3> HIDE DEF x, n
    <3>7. ~torn /\ r.v1 = ringVer => CurrentInv(reader')
      <4> SUFFICES ASSUME ~torn, r.v1 = ringVer PROVE CurrentInv(reader')
        OBVIOUS
      <4>1. \A i \in 1..n : r.out[i] = Contents(made)[i]
        BY <1>8, <2>3 DEF CurrentInv, n
      <4>2. \A i \in 1..(n + 1) : reader'.out[i] = Contents(made)[i]
        BY <3>2, <3>4, <3>5, <3>6, <4>1
      <4>3. Len(reader'.out) = n + 1
        BY <3>4, <3>5
      <4> QED  BY <1>8, <2>3, <3>5, <4>2, <4>3 DEF CurrentInv
    <3>8. ~torn /\ r.v1 = ringVer => CurrentInv(reader)'
      BY <1>1, <3>7 DEF CurrentInv, CountOf, Contents
    <3> QED
      BY <1>1, <2>2, <3>2, <3>4, <3>5, <3>8 DEF ReaderInv, SnapshotsAreInOrder, Odd
  <2> QED  BY <2>4, <2>5
<1>9. CASE r.at = "check"
  <2>1. reader' = Check(r)
    BY <1>9 DEF ReaderStep
  <2>2. CASE ringVer # r.v1
    BY <1>2, <1>3, <2>1, <2>2, FreshReaders DEF Check
  <2>3. CASE ringVer = r.v1
    <3>1. reader' = [r EXCEPT !.at = "accepted"]
      BY <2>1, <2>3 DEF Check
    <3>2. /\ reader' \in Readers /\ reader'.at = "accepted" /\ reader'.out = r.out
          /\ reader'.c = r.c /\ Len(r.out) <= r.c
      BY <1>2, <3>1 DEF Readers, ReaderInv
    <3>3. ~torn => \E h \in whole : IsPrefix(r.out, h)
      <4> SUFFICES ASSUME ~torn PROVE \E h \in whole : IsPrefix(r.out, h)
        OBVIOUS
      <4>1. CurrentInv(r) /\ ~Odd(ringVer)
        BY <1>2, <1>9, <2>3 DEF ReaderInv
      <4>2. Contents(made) \in whole
        BY <1>1, <1>2, <4>1, EvenIsIdle DEF WholeInv
      <4>3. Len(r.out) <= CountOf(made)
        BY <1>2, <1>9, <4>1, ReaderFields DEF CurrentInv, CountOf
      <4>4. \A i \in 1..Len(r.out) : r.out[i] = Contents(made)[i]
        BY <1>9, <4>1 DEF CurrentInv
      <4>5. IsPrefix(r.out, Contents(made))
        BY <1>2, <4>3, <4>4, ReaderFields, PrefixOfContents
      <4> QED  BY <4>2, <4>5
    <3> QED
      BY <1>1, <3>2, <3>3 DEF ReaderInv, SnapshotsAreInOrder
  <2> QED  BY <2>2, <2>3
<1>10. CASE r.at \in {"accepted", "failed"}
  <2>1. reader' = IdleReader
    BY <1>10 DEF ReaderStep
  <2> QED  BY <1>3, <2>1, FreshReaders
<1> QED
  BY <1>1, <1>2, <1>4, <1>5, <1>6, <1>7, <1>8, <1>9, <1>10 DEF Readers

LEMMA RingInitInv == RingInit => RingInv
<1> SUFFICES ASSUME RingInit PROVE RingInv
  OBVIOUS
<1>1. Capacity \in Nat \ {0} /\ MaxPoints \in Nat
  BY RingAssumption
<1>2. RingTypeInv
  <2>1. 0 \in 0..(2 * MaxPoints) /\ 0 \in 0..(Capacity - 1) /\ 0 \in 0..Capacity /\ 0 \in 0..MaxPoints
    BY <1>1
  <2>2. [i \in 0..(Capacity - 1) |-> 0] \in [0..(Capacity - 1) -> 0..MaxPoints]
    BY <2>1
  <2> QED  BY <2>1, <2>2 DEF RingInit, RingTypeInv, Stages
<1>3. WriterInv
  <2>1. 0 % Capacity = 0
    BY <1>1, ModSmall
  <2> QED
    BY <1>1, <2>1 DEF RingInit, WriterInv, Finished, Entered, Headed, Counted, Holds, CountOf
<1>4. WholeInv /\ ReaderInv /\ SnapshotsAreInOrder
  <2>1. reader \in Readers /\ reader.at = "away" /\ Len(reader.out) = 0 /\ reader.c = 0
    BY FreshReaders DEF RingInit
  <2> QED  BY <2>1 DEF WholeInv, ReaderInv, SnapshotsAreInOrder
<1> QED  BY <1>2, <1>3, <1>4 DEF RingInv

LEMMA RingStepInv == RingInv /\ [RingNext]_ringVars => RingInv'
<1> SUFFICES ASSUME RingInv, [RingNext]_ringVars PROVE RingInv'
  OBVIOUS
<1>1. CASE BeginAppend \/ StoreEntry \/ StoreHead \/ StoreCount \/ EndAppend \/ RestartWriter
  BY <1>1, BeginStep, EntryStep, HeadStep, CountStep, EndStep, RestartStep
<1>2. CASE CallReader
  BY <1>2, CallStep
<1>3. CASE ReaderStep
  <2>1. UNCHANGED <<ringVer, cells, head, count, stage, made, torn>>
    BY <1>3 DEF ReaderStep
  <2>2. RingTypeInv' /\ WriterInv'
    BY <2>1 DEF RingInv, RingTypeInv, WriterInv, Entered, Headed, Counted, Finished, Holds, CountOf
  <2>3. WholeInv'
    <3>1. reader.at # "away" /\ (reader'.at # "away" => whole' = whole)
      BY <1>3 DEF ReaderStep
    <3>2. ~torn => Contents(Finished) \in whole
      BY <3>1 DEF RingInv, WholeInv
    <3> QED  BY <2>1, <3>1, <3>2 DEF WholeInv, Finished, Contents
  <2> QED  BY <1>3, <2>2, <2>3, LoadStep DEF RingInv
<1>4. CASE UNCHANGED ringVars
  <2>1. RingTypeInv' /\ WriterInv'
    BY <1>4 DEF ringVars, RingInv, RingTypeInv, WriterInv, Entered, Headed, Counted, Finished, Holds, CountOf
  <2>2. WholeInv' /\ SnapshotsAreInOrder'
    BY <1>4 DEF ringVars, RingInv, WholeInv, Finished, Contents, SnapshotsAreInOrder
  <2>3. ReaderInv'
    BY <1>4, ReaderIsUndisturbed DEF ringVars
  <2> QED  BY <2>1, <2>2, <2>3 DEF RingInv
<1> QED  BY <1>1, <1>2, <1>3, <1>4 DEF RingNext

LEMMA RingInvHolds == RingSpec => []RingInv
BY RingInitInv, RingStepInv, PTL DEF RingSpec

LEMMA RingInvTypes == RingInv => RingTypeOK
<1> SUFFICES ASSUME RingInv PROVE RingTypeOK
  OBVIOUS
<1>1. reader \in Readers /\ Len(reader.out) <= reader.c
  BY DEF RingInv, ReaderInv
<1>2. Len(reader.out) <= Capacity
  BY <1>1, ReaderFields, RingAssumption
<1> QED  BY <1>1, <1>2 DEF RingInv, RingTypeInv, RingTypeOK, Readers

(* The header stays in range: the version counts two per append, head and    *)
(* count never leave the ring, and no snapshot is longer than it.            *)
THEOREM RingTypeCorrect == RingSpec => []RingTypeOK
BY RingInvTypes, RingInvHolds, PTL

(* A snapshot that is accepted is the beginning of a history the ring stood  *)
(* for at one moment of the call (history_ring_buffer.hpp, read_snapshot),   *)
(* for rings of any capacity and however many appends overlap the call.      *)
THEOREM SnapshotsAreOrdered == RingSpec => []SnapshotsAreInOrder
<1>1. RingInv => SnapshotsAreInOrder
  BY DEF RingInv
<1> QED  BY <1>1, RingInvHolds, PTL
=============================================================================
