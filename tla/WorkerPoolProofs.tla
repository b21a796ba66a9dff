-------------------------- MODULE WorkerPoolProofs --------------------------
(***************************************************************************)
(* Proofs about module WorkerPool, for any number of connections, workers  *)
(* and cells: the linked list is a FIFO queue, no connection is lost or    *)
(* handled twice, and no wakeup of push is lost.                           *)
(*                                                                         *)
(* What the list holds is a recursive function (CellAt), and so is the     *)
(* pass over the poll array (Among): both are taken apart by an induction  *)
(* over the natural numbers (SetInduction).                                *)
(***************************************************************************)
EXTENDS WorkerPool, FiniteSetTheorems, SequenceTheorems, WellFoundedInduction, TLAPS

\* The pointers nx lead from h through these cells to Null.
Along(cells, h, nx) ==
  /\ h = IF cells = <<>> THEN Null ELSE cells[1]
  /\ \A i \in DOMAIN cells : nx[cells[i]] = IF i = Len(cells) THEN Null ELSE cells[i + 1]

\* From queue_h the list goes through these cells, each with a connection, to queue_l.
Linked(cells) ==
  /\ \A i, j \in DOMAIN cells : cells[i] = cells[j] => i = j
  /\ \A i \in DOMAIN cells : info[cells[i]] \in Fd
  /\ Along(cells, queue_h, next)
  /\ queue_l = IF cells = <<>> THEN Null ELSE cells[Len(cells)]

\* The list is never circular, torn or left with a stale end, ...
ListInv == \E cells \in Seq(Cell) : Linked(cells)

\* ... a worker about to wait has seen it empty and keeps it so, ...
MutexInv == Held => queue_h = Null

\* ... a worker has a connection exactly while it handles one, ...
WorkerInv ==
  \A w \in Worker : IF wpc[w] = "handle" THEN fd[w] \in Fd ELSE fd[w] = Null

\* ... and the listener has connections to hand over only in its pass over the
\* array, and always one while it is in push.
ScanInv ==
  /\ lpc \notin {"scan", "push"} => scan = <<>>
  /\ lpc = "push" => scan # <<>>

\* No thread is there before it is started.
StartInv ==
  /\ opc = "start" => lpc = "none"
  /\ opc \in {"start", "connStart"} => \A w \in Worker : wpc[w] = "none"

Inv == ListInv /\ MutexInv /\ WorkerInv /\ ScanInv /\ StartInv
-----------------------------------------------------------------------------
\* A set of numbers with 0 and the successor of each of its members has them all.
LEMMA SetInduction ==
  ASSUME NEW S, 0 \in S, \A n \in Nat : n \in S => n + 1 \in S
  PROVE  \A n \in Nat : n \in S
<1> SUFFICES ASSUME Nat \ S # {} PROVE FALSE OBVIOUS
<1>1. \E R : IsWellFoundedOn(R, Nat) /\ \A x, y \in Nat : <<x, y>> \in R <=> x < y
  <2> WITNESS OpToRel(<, Nat)
  <2>1. \A x, y \in Nat : <<x, y>> \in OpToRel(<, Nat) <=> x < y BY DEF OpToRel
  <2> QED BY <2>1, NatLessThanWellFounded
<1>2. PICK R : IsWellFoundedOn(R, Nat) /\ \A x, y \in Nat : <<x, y>> \in R <=> x < y
  BY <1>1
<1>3. \E m \in Nat \ S : \A k \in Nat \ S : ~(<<k, m>> \in R)
  <2> DEFINE T == Nat \ S
  <2>1. T \subseteq Nat /\ T # {} OBVIOUS
  <2>2. IsWellFoundedOn(R, Nat) BY <1>2
  <2> HIDE DEF T
  <2>3. \E m \in T : \A k \in T : ~(<<k, m>> \in R) BY <2>1, <2>2, WFMin
  <2> QED BY <2>3 DEF T
<1>4. PICK m \in Nat : m \notin S /\ \A k \in Nat : k \notin S => ~(<<k, m>> \in R)
  BY <1>3
<1>5. m # 0 BY <1>4
<1>6. m - 1 \in Nat /\ m - 1 < m /\ (m - 1) + 1 = m BY <1>5
<1>7. m - 1 \in S BY <1>2, <1>4, <1>6
<1> QED BY <1>4, <1>6, <1>7

\* g follows the pointers nx from h for n hops.
Chain(g, n, h, nx) ==
  /\ g[0] = h
  /\ \A k \in 1 .. n : g[k] = IF g[k - 1] = Null THEN Null ELSE nx[g[k - 1]]

\* The recursion that defines CellAt has a solution, whatever the list looks like.
LEMMA ChainExists ==
  ASSUME NEW N \in Nat, NEW h \in Cell \cup {Null}, NEW nx \in [Cell -> Cell \cup {Null}]
  PROVE  \E g \in [0 .. N -> Cell \cup {Null}] : Chain(g, N, h, nx)
<1> DEFINE Reach == {n \in Nat : \E g \in [0 .. n -> Cell \cup {Null}] : Chain(g, n, h, nx)}
<1>1. 0 \in Reach
  <2>1. /\ [k \in 0 .. 0 |-> h] \in [0 .. 0 -> Cell \cup {Null}]
        /\ Chain([k \in 0 .. 0 |-> h], 0, h, nx)
    BY DEF Chain
  <2> QED BY <2>1
<1>2. ASSUME NEW n \in Nat, n \in Reach PROVE n + 1 \in Reach
  <2>1. PICK g \in [0 .. n -> Cell \cup {Null}] : Chain(g, n, h, nx) BY <1>2
  <2> DEFINE x == IF g[n] = Null THEN Null ELSE nx[g[n]]
             f == [k \in 0 .. n + 1 |-> IF k = n + 1 THEN x ELSE g[k]]
  <2>2. f \in [0 .. n + 1 -> Cell \cup {Null}] OBVIOUS
  <2>3. Chain(f, n + 1, h, nx) BY <2>1 DEF Chain
  <2> QED BY <2>2, <2>3
<1> HIDE DEF Reach
<1>3. N \in Reach BY <1>1, <1>2, SetInduction
<1> QED BY <1>3 DEF Reach

\* Along a linked list the cell after k hops is the next one of the list, and
\* after the last one Null.
LEMMA Walk ==
  ASSUME NEW N \in Nat, NEW h, NEW nx \in [Cell -> Cell \cup {Null}],
         NEW cells \in Seq(Cell), Along(cells, h, nx), NEW g, Chain(g, N, h, nx)
  PROVE  \A k \in 0 .. N : g[k] = IF k < Len(cells) THEN cells[k + 1] ELSE Null
<1> DEFINE Good == {k \in Nat : k \in 0 .. N =>
                      g[k] = IF k < Len(cells) THEN cells[k + 1] ELSE Null}
<1>1. 0 \in Good BY EmptySeq DEF Chain, Along
<1>2. ASSUME NEW k \in Nat, k \in Good PROVE k + 1 \in Good
  <2> SUFFICES ASSUME k + 1 \in 0 .. N
               PROVE  g[k + 1] = IF k + 1 < Len(cells) THEN cells[k + 2] ELSE Null
    OBVIOUS
  <2>1. g[k] = IF k < Len(cells) THEN cells[k + 1] ELSE Null BY <1>2
  <2> HIDE DEF Good
  <2>2. g[k + 1] = IF g[k] = Null THEN Null ELSE nx[g[k]]
    <3>1. k + 1 \in 1 .. N /\ (k + 1) - 1 = k OBVIOUS
    <3> QED BY <3>1 DEF Chain
  <2>3. CASE k < Len(cells)
    <3>1. k + 1 \in DOMAIN cells /\ cells[k + 1] \in Cell BY <2>3
    <3>2. g[k + 1] = nx[cells[k + 1]] BY <2>1, <2>2, <2>3, <3>1, PoolAssumption
    <3>3. nx[cells[k + 1]] = IF k + 1 = Len(cells) THEN Null ELSE cells[(k + 1) + 1]
      BY <3>1 DEF Along
    <3>4. /\ (k + 1) + 1 = k + 2 /\ Len(cells) \in Nat
          /\ k + 1 = Len(cells) <=> ~(k + 1 < Len(cells))
      BY <2>3
    <3> QED BY <3>2, <3>3, <3>4
  <2>4. CASE ~(k < Len(cells)) BY <2>1, <2>2, <2>4
  <2> QED BY <2>3, <2>4
<1> HIDE DEF Good
<1>3. \A k \in Nat : k \in Good BY <1>1, <1>2, SetInduction
<1>4. ASSUME NEW k \in 0 .. N PROVE k \in Nat OBVIOUS
<1> QED BY <1>3, <1>4 DEF Good

\* A list without repetition is no longer than the heap.
LEMMA ListLength ==
  ASSUME NEW C, IsFiniteSet(C), NEW cells \in Seq(C),
         \A i, j \in DOMAIN cells : cells[i] = cells[j] => i = j
  PROVE  Cardinality(C) \in Nat /\ Len(cells) <= Cardinality(C)
<1>1. Cardinality(1 .. Len(cells)) = Len(cells)
  <2>1. Len(cells) \in Nat OBVIOUS
  <2>2. Cardinality(1 .. Len(cells)) = IF 1 > Len(cells) THEN 0 ELSE Len(cells) - 1 + 1
    BY <2>1, FS_Interval
  <2> QED BY <2>1, <2>2
<1>2. cells \in Injection(1 .. Len(cells), C) BY DEF Injection, IsInjective
<1>3. Cardinality(1 .. Len(cells)) <= Cardinality(C) BY <1>2, FS_Injection
<1>4. Cardinality(C) \in Nat BY FS_CardinalityType
<1> QED BY <1>1, <1>3, <1>4

\* What the abstract queue holds is read off the linked cells.
Reads ==
  \A cells \in Seq(Cell) : Linked(cells) =>
    /\ Contents = [i \in 1 .. Len(cells) |-> info[cells[i]]]
    /\ InList = {cells[i] : i \in DOMAIN cells}

LEMMA ContentsIs == TypeOK => Reads
<1> SUFFICES ASSUME TypeOK, NEW cells \in Seq(Cell), Linked(cells)
             PROVE  /\ Contents = [i \in 1 .. Len(cells) |-> info[cells[i]]]
                    /\ InList = {cells[i] : i \in DOMAIN cells}
  BY DEF Reads
<1> DEFINE N == Cardinality(Cell)
<1>1. N \in Nat /\ Len(cells) <= N BY PoolAssumption, ListLength DEF Linked
<1>2. PICK g : g = [k \in 0 .. N |-> IF k = 0 THEN queue_h
                      ELSE IF g[k - 1] = Null THEN Null ELSE next[g[k - 1]]]
  <2>1. queue_h \in Cell \cup {Null} /\ next \in [Cell -> Cell \cup {Null}] BY DEF TypeOK
  <2> HIDE DEF N
  <2>2. PICK g \in [0 .. N -> Cell \cup {Null}] : Chain(g, N, queue_h, next)
    BY <1>1, <2>1, ChainExists
  <2>3. g = [k \in 0 .. N |-> IF k = 0 THEN queue_h
               ELSE IF g[k - 1] = Null THEN Null ELSE next[g[k - 1]]]
    BY <1>1, <2>2 DEF Chain
  <2> QED BY <2>3
<1>3. CellAt = [k \in 0 .. N |-> IF k = 0 THEN queue_h
                  ELSE IF CellAt[k - 1] = Null THEN Null ELSE next[CellAt[k - 1]]]
  BY <1>2 DEF CellAt
<1>4. \A k \in 0 .. N : CellAt[k] = IF k < Len(cells) THEN cells[k + 1] ELSE Null
  <2> DEFINE c == CellAt
  <2>1. Chain(c, N, queue_h, next)
    <3>1. 0 \in 0 .. N /\ \A k \in 1 .. N : k \in 0 .. N /\ k # 0 BY <1>1
    <3> QED BY <1>3, <3>1 DEF Chain
  <2> HIDE DEF c
  <2>2. \A k \in 0 .. N : c[k] = IF k < Len(cells) THEN cells[k + 1] ELSE Null
    <3>1. next \in [Cell -> Cell \cup {Null}] BY DEF TypeOK
    <3>2. Along(cells, queue_h, next) BY DEF Linked
    <3> HIDE DEF N
    <3> QED BY <1>1, <2>1, <3>1, <3>2, Walk
  <2> QED BY <2>2 DEF c
<1>5. \A i \in 1 .. Len(cells) : cells[i] \in Cell /\ cells[i] # Null /\ CellAt[i - 1] = cells[i]
  BY <1>1, <1>4, PoolAssumption
<1>6. {k \in 0 .. N : CellAt[k] # Null} = 0 .. Len(cells) - 1
  BY <1>1, <1>4, <1>5
<1>7. Cardinality(0 .. Len(cells) - 1) = Len(cells)
  <2>1. Len(cells) \in Nat /\ Len(cells) - 1 \in Int OBVIOUS
  <2>2. Cardinality(0 .. Len(cells) - 1)
          = IF 0 > Len(cells) - 1 THEN 0 ELSE Len(cells) - 1 - 0 + 1
    BY <2>1, FS_Interval
  <2> QED BY <2>1, <2>2
<1>8. Contents = [i \in 1 .. Len(cells) |-> info[cells[i]]]
  BY <1>5, <1>6, <1>7 DEF Contents
<1>9. InList = {cells[i] : i \in DOMAIN cells}
  BY <1>1, <1>4, <1>5 DEF InList
<1> QED BY <1>8, <1>9

\* The same after a step.
LEMMA ContentsIsNext == TypeOK' => Reads'
BY ContentsIs, PTL
-----------------------------------------------------------------------------
(* What the pass over the poll array picks.                                *)

\* Up to n, g[i] is the part of the first i elements of s that is in S.
Filters(g, n, s, S) ==
  /\ g[0] = <<>>
  /\ \A i \in 1 .. n : g[i] = IF s[i] \in S THEN Append(g[i - 1], s[i]) ELSE g[i - 1]

\* The recursion of Among has a solution, and Among is its last value.
LEMMA AmongIs ==
  ASSUME NEW s \in Seq(Fd), NEW S
  PROVE  \E g \in [0 .. Len(s) -> Seq(Fd)] :
           Filters(g, Len(s), s, S) /\ Among(s, S) = g[Len(s)]
<1> DEFINE Reach == {n \in Nat : n <= Len(s) =>
                       \E g \in [0 .. n -> Seq(Fd)] : Filters(g, n, s, S)}
<1>1. 0 \in Reach
  <2>1. [i \in 0 .. 0 |-> <<>>] \in [0 .. 0 -> Seq(Fd)] BY EmptySeq
  <2>2. Filters([i \in 0 .. 0 |-> <<>>], 0, s, S) BY DEF Filters
  <2> QED BY <2>1, <2>2
<1>2. ASSUME NEW n \in Nat, n \in Reach PROVE n + 1 \in Reach
  <2> SUFFICES ASSUME n + 1 <= Len(s)
               PROVE  \E g \in [0 .. n + 1 -> Seq(Fd)] : Filters(g, n + 1, s, S)
    OBVIOUS
  <2>1. PICK g \in [0 .. n -> Seq(Fd)] : Filters(g, n, s, S) BY <1>2
  <2>2. g[n] \in Seq(Fd) /\ s[n + 1] \in Fd OBVIOUS
  <2> DEFINE x == IF s[n + 1] \in S THEN Append(g[n], s[n + 1]) ELSE g[n]
             f == [i \in 0 .. n + 1 |-> IF i = n + 1 THEN x ELSE g[i]]
  <2>3. x \in Seq(Fd) BY <2>2
  <2>4. f \in [0 .. n + 1 -> Seq(Fd)] BY <2>3
  <2>5. f[0] = <<>> BY <2>1 DEF Filters
  <2>6. ASSUME NEW i \in 1 .. n + 1
        PROVE  f[i] = IF s[i] \in S THEN Append(f[i - 1], s[i]) ELSE f[i - 1]
    <3>1. f[i - 1] = g[i - 1] OBVIOUS
    <3>2. CASE i = n + 1
      <4>1. f[i] = x /\ i - 1 = n /\ s[i] = s[n + 1] BY <3>2
      <4> QED BY <3>1, <4>1
    <3>3. CASE i # n + 1
      <4>1. f[i] = g[i] /\ i \in 1 .. n BY <3>3
      <4> QED BY <2>1, <3>1, <4>1 DEF Filters
    <3> QED BY <3>2, <3>3
  <2> HIDE DEF f
  <2>7. Filters(f, n + 1, s, S) BY <2>5, <2>6 DEF Filters
  <2> QED BY <2>4, <2>7
<1> HIDE DEF Reach
<1>3. Len(s) \in Reach BY <1>1, <1>2, SetInduction
<1>4. PICK g \in [0 .. Len(s) -> Seq(Fd)] : Filters(g, Len(s), s, S) BY <1>3 DEF Reach
<1>5. g = [i \in 0 .. Len(s) |-> IF i = 0 THEN <<>>
             ELSE IF s[i] \in S THEN Append(g[i - 1], s[i]) ELSE g[i - 1]]
  <2>1. ASSUME NEW i \in 0 .. Len(s), i # 0 PROVE i \in 1 .. Len(s) BY <2>1
  <2>2. \A i \in 0 .. Len(s) : g[i] = IF i = 0 THEN <<>>
             ELSE IF s[i] \in S THEN Append(g[i - 1], s[i]) ELSE g[i - 1]
    BY <1>4, <2>1 DEF Filters
  <2>3. g = [i \in 0 .. Len(s) |-> g[i]] OBVIOUS
  <2> QED BY <2>2, <2>3, Zenon
<1> DEFINE Solves(f) ==
             f = [i \in 0 .. Len(s) |-> IF i = 0 THEN <<>>
                    ELSE IF s[i] \in S THEN Append(f[i - 1], s[i]) ELSE f[i - 1]]
<1>6. \E f : Solves(f) BY <1>5
<1>7. PICK f : Solves(f) /\ Among(s, S) = f[Len(s)] BY <1>6 DEF Among
<1>8. Filters(f, Len(s), s, S)
  <2>1. 0 \in 0 .. Len(s) /\ \A i \in 1 .. Len(s) : i \in 0 .. Len(s) /\ i # 0 OBVIOUS
  <2>2. \A i \in 0 .. Len(s) : f[i] = IF i = 0 THEN <<>>
             ELSE IF s[i] \in S THEN Append(f[i - 1], s[i]) ELSE f[i - 1]
    BY <1>7, Zenon
  <2> QED BY <2>1, <2>2 DEF Filters
<1>9. f \in [0 .. Len(s) -> Seq(Fd)]
  <2> DEFINE Good == {n \in Nat : n \in 0 .. Len(s) => f[n] \in Seq(Fd)}
  <2>1. 0 \in Good BY <1>8, EmptySeq DEF Filters
  <2>2. ASSUME NEW n \in Nat, n \in Good PROVE n + 1 \in Good
    <3> SUFFICES ASSUME n + 1 \in 0 .. Len(s) PROVE f[n + 1] \in Seq(Fd) OBVIOUS
    <3>1. n + 1 \in 1 .. Len(s) /\ (n + 1) - 1 = n /\ s[n + 1] \in Fd OBVIOUS
    <3>2. f[n] \in Seq(Fd) BY <2>2, <3>1
    <3>3. f[n + 1] = IF s[n + 1] \in S THEN Append(f[n], s[n + 1]) ELSE f[n]
      BY <1>8, <3>1 DEF Filters
    <3> QED BY <3>1, <3>2, <3>3
  <2> HIDE DEF Good
  <2>3. \A n \in Nat : n \in Good BY <2>1, <2>2, SetInduction
  <2>4. \A n \in 0 .. Len(s) : f[n] \in Seq(Fd) BY <2>3 DEF Good
  <2>5. f = [i \in 0 .. Len(s) |-> f[i]] BY <1>7
  <2> QED BY <2>4, <2>5
<1> QED BY <1>7, <1>8, <1>9

\* It picks connections only.
LEMMA AmongType ==
  ASSUME NEW s \in Seq(Fd), NEW S
  PROVE  Among(s, S) \in Seq(Fd)
<1>1. PICK g \in [0 .. Len(s) -> Seq(Fd)] : Among(s, S) = g[Len(s)] BY AmongIs
<1> QED BY <1>1
-----------------------------------------------------------------------------
(* The linked list.                                                        *)

\* push links the new cell behind the last one.
LEMMA LinkLast ==
  ASSUME TypeOK, TypeOK', NEW cells \in Seq(Cell), Linked(cells),
         NEW c \in Cell \ InList, NEW f \in Fd,
         info' = [info EXCEPT ![c] = f],
         queue_l' = c,
         IF queue_l = Null
           THEN queue_h' = c /\ next' = [next EXCEPT ![c] = Null]
           ELSE queue_h' = queue_h /\ next' = [next EXCEPT ![c] = Null, ![queue_l] = c]
  PROVE  /\ Append(cells, c) \in Seq(Cell) /\ Linked(Append(cells, c))'
         /\ Contents' = Append(Contents, f)
<1> DEFINE n == Len(cells)
           longer == Append(cells, c)
<1>1. /\ longer \in Seq(Cell) /\ Len(longer) = n + 1 /\ n \in Nat
      /\ longer[n + 1] = c /\ \A i \in 1 .. n : longer[i] = cells[i]
  OBVIOUS
<1>2. \A i \in 1 .. n : cells[i] \in Cell /\ cells[i] # c
  BY ContentsIs DEF Reads
<1> HIDE DEF longer
<1>3. \A i, j \in DOMAIN longer : longer[i] = longer[j] => i = j
  BY <1>1, <1>2 DEF Linked
<1>4. \A i \in DOMAIN longer : info'[longer[i]] \in Fd
  <2>1. \A i \in 1 .. n : info'[cells[i]] = info[cells[i]] /\ info[cells[i]] \in Fd
    BY <1>2 DEF Linked, TypeOK
  <2>2. info'[c] = f BY DEF TypeOK
  <2>3. ASSUME NEW i \in DOMAIN longer PROVE i = n + 1 \/ i \in 1 .. n BY <1>1
  <2> QED BY <1>1, <2>1, <2>2, <2>3
<1>5. Along(longer, queue_h', next')
  <2>1. CASE n = 0
    <3>1. cells = <<>> /\ queue_l = Null BY <2>1, EmptySeq DEF Linked
    <3>2. longer # <<>> /\ longer[1] = c BY <1>1, <2>1
    <3>3. next'[c] = Null /\ queue_h' = c BY <3>1 DEF TypeOK
    <3> QED BY <1>1, <2>1, <3>2, <3>3 DEF Along
  <2>2. CASE n # 0
    <3>1. cells # <<>> /\ queue_l = cells[n] /\ queue_l # Null /\ n \in 1 .. n
      BY <1>1, <1>2, <2>2, EmptySeq, PoolAssumption DEF Linked
    <3>2. queue_h' = queue_h /\ queue_h = cells[1] BY <3>1 DEF Linked, Along
    <3>3. longer # <<>> /\ longer[1] = cells[1] BY <1>1, <2>2
    <3>4. next' = [next EXCEPT ![c] = Null, ![cells[n]] = c] BY <3>1
    <3>5. next'[c] = Null /\ next'[cells[n]] = c BY <1>2, <3>1, <3>4 DEF TypeOK
    <3>6. ASSUME NEW i \in 1 .. n, i # n PROVE next'[cells[i]] = cells[i + 1]
      <4>1. cells[i] # cells[n] BY <3>1, <3>6 DEF Linked
      <4>2. next'[cells[i]] = next[cells[i]] BY <1>2, <3>4, <4>1 DEF TypeOK
      <4> QED BY <3>6, <4>2 DEF Linked, Along
    <3>7. ASSUME NEW i \in DOMAIN longer
          PROVE  next'[longer[i]] = IF i = n + 1 THEN Null ELSE longer[i + 1]
      <4>1. CASE i = n + 1 BY <1>1, <3>5, <4>1
      <4>2. CASE i = n BY <1>1, <3>1, <3>5, <4>2
      <4>3. CASE i < n
        <5>1. i \in 1 .. n /\ i # n /\ i + 1 \in 1 .. n /\ i # n + 1 BY <1>1, <4>3
        <5> QED BY <1>1, <3>6, <5>1
      <4> QED BY <1>1, <4>1, <4>2, <4>3
    <3> QED BY <1>1, <3>2, <3>3, <3>7 DEF Along
  <2> QED BY <2>1, <2>2
<1>6. queue_l' = IF longer = <<>> THEN Null ELSE longer[Len(longer)] BY <1>1
<1>7. Linked(longer)' BY <1>3, <1>4, <1>5, <1>6 DEF Linked
<1>8. Contents' = [i \in 1 .. n + 1 |-> info'[longer[i]]]
  BY <1>1, <1>7, ContentsIsNext DEF Reads
<1>9. Contents = [i \in 1 .. n |-> info[cells[i]]] BY ContentsIs DEF Reads
<1>10. Contents' = Append(Contents, f)
  <2>1. \A i \in 1 .. n : info'[longer[i]] = info[cells[i]] BY <1>1, <1>2 DEF TypeOK
  <2>2. info'[longer[n + 1]] = f BY <1>1 DEF TypeOK
  <2>3. Contents \in Seq(Fd) /\ Len(Contents) = n BY <1>1, <1>9 DEF Linked
  <2>4. /\ Append(Contents, f) \in Seq(Fd) /\ Len(Append(Contents, f)) = n + 1
        /\ \A i \in 1 .. n : Append(Contents, f)[i] = Contents[i]
        /\ Append(Contents, f)[n + 1] = f
    BY <2>3, AppendProperties
  <2>5. ASSUME NEW i \in 1 .. n + 1 PROVE info'[longer[i]] = Append(Contents, f)[i]
    <3>1. i = n + 1 \/ i \in 1 .. n BY <1>1
    <3> QED BY <1>9, <2>1, <2>2, <2>4, <3>1
  <2>6. Append(Contents, f) = [i \in 1 .. n + 1 |-> Append(Contents, f)[i]]
    <3>1. Append(Contents, f) \in [1 .. n + 1 -> Fd] BY <2>4, LenProperties
    <3> QED BY <3>1, Zenon
  <2> QED BY <1>8, <2>5, <2>6, Zenon
<1> QED BY <1>1, <1>7, <1>10 DEF longer

\* pop unlinks the first cell.
LEMMA UnlinkFirst ==
  ASSUME TypeOK, TypeOK', NEW cells \in Seq(Cell), Linked(cells),
         queue_h # Null, DeleteHead, queue_l' = IF queue_h' = Null THEN Null ELSE queue_l
  PROVE  /\ Tail(cells) \in Seq(Cell) /\ Linked(Tail(cells))'
         /\ Contents \in Seq(Fd) /\ Contents # <<>>
         /\ info[queue_h] = Head(Contents) /\ info[queue_h] \in Fd
         /\ Contents' = Tail(Contents)
<1> DEFINE n == Len(cells)
           rest == Tail(cells)
<1>1. cells # <<>> /\ queue_h = cells[1] /\ n \in Nat /\ n > 0
  BY EmptySeq DEF Linked, Along
<1>2. rest \in Seq(Cell) /\ Len(rest) = n - 1 /\ \A i \in 1 .. n - 1 : rest[i] = cells[i + 1]
  BY <1>1
<1>3. \A i \in 1 .. n - 1 : /\ i + 1 \in DOMAIN cells /\ cells[i + 1] \in Cell
                            /\ cells[i + 1] # queue_h
  BY <1>1 DEF Linked
<1> HIDE DEF rest
<1>4. \A i, j \in DOMAIN rest : rest[i] = rest[j] => i = j
  <2>1. ASSUME NEW i \in DOMAIN rest, NEW j \in DOMAIN rest, rest[i] = rest[j] PROVE i = j
    <3>1. i \in 1 .. n - 1 /\ j \in 1 .. n - 1 BY <1>1, <1>2
    <3>2. cells[i + 1] = cells[j + 1] BY <1>2, <2>1, <3>1
    <3>3. i + 1 = j + 1 BY <1>3, <3>1, <3>2 DEF Linked
    <3> QED BY <3>1, <3>3
  <2> QED BY <2>1
<1>5. \A i \in 1 .. n - 1 : /\ info'[rest[i]] = info[cells[i + 1]]
                            /\ next'[rest[i]] = next[cells[i + 1]]
  BY <1>2, <1>3 DEF DeleteHead, TypeOK
<1>6. \A i \in DOMAIN rest : info'[rest[i]] \in Fd
  <2>1. DOMAIN rest = 1 .. n - 1 BY <1>1, <1>2
  <2>2. \A i \in 1 .. n - 1 : info[cells[i + 1]] \in Fd BY <1>3 DEF Linked
  <2> QED BY <1>5, <2>1, <2>2
<1>7. queue_h' = IF rest = <<>> THEN Null ELSE rest[1]
  <2>1. queue_h' = IF 1 = n THEN Null ELSE cells[1 + 1]
    <3>1. 1 \in DOMAIN cells BY <1>1
    <3>2. next[cells[1]] = IF 1 = Len(cells) THEN Null ELSE cells[1 + 1]
      BY <3>1 DEF Linked, Along
    <3> QED BY <1>1, <3>2 DEF DeleteHead
  <2> QED BY <1>1, <1>2, <2>1, EmptySeq
<1>8. ASSUME NEW i \in DOMAIN rest
      PROVE  next'[rest[i]] = IF i = Len(rest) THEN Null ELSE rest[i + 1]
  <2>1. i \in 1 .. n - 1 BY <1>1, <1>2
  <2>2. next[cells[i + 1]] = IF i + 1 = n THEN Null ELSE cells[(i + 1) + 1]
    BY <1>3, <2>1 DEF Linked, Along
  <2>3. i # n - 1 => i + 1 \in 1 .. n - 1 BY <1>1, <2>1
  <2> QED BY <1>1, <1>2, <1>5, <2>1, <2>2, <2>3
<1>9. queue_l' = IF rest = <<>> THEN Null ELSE rest[Len(rest)]
  <2>1. queue_l = cells[n] BY <1>1 DEF Linked
  <2>2. CASE rest = <<>> BY <1>7, <2>2
  <2>3. CASE rest # <<>>
    <3>1. Len(rest) \in 1 .. n - 1 /\ 1 \in 1 .. n - 1 BY <1>1, <1>2, <2>3, EmptySeq
    <3>2. rest[1] # Null BY <1>2, <1>3, <3>1, PoolAssumption
    <3> QED BY <1>1, <1>2, <1>7, <2>1, <2>3, <3>1, <3>2
  <2> QED BY <2>2, <2>3
<1>10. Linked(rest)' BY <1>4, <1>6, <1>7, <1>8, <1>9 DEF Linked, Along
<1>11. Contents' = [i \in 1 .. n - 1 |-> info'[rest[i]]]
  BY <1>2, <1>10, ContentsIsNext DEF Reads
<1>12. Contents = [i \in 1 .. n |-> info[cells[i]]] BY ContentsIs DEF Reads
<1>13. Contents \in Seq(Fd) /\ Len(Contents) = n BY <1>1, <1>12 DEF Linked
<1>14. Contents # <<>> /\ Head(Contents) = info[cells[1]] /\ info[cells[1]] \in Fd
  BY <1>1, <1>12, <1>13, EmptySeq DEF Linked
<1>15. Contents' = Tail(Contents)
  <2>1. Tail(Contents) = [i \in 1 .. n - 1 |-> Contents[i + 1]]
    <3>1. /\ Tail(Contents) \in Seq(Fd) /\ Len(Tail(Contents)) = n - 1
          /\ \A i \in 1 .. n - 1 : Tail(Contents)[i] = Contents[i + 1]
      BY <1>13, <1>14, HeadTailProperties
    <3>2. Tail(Contents) = [i \in 1 .. n - 1 |-> Tail(Contents)[i]]
      <4>1. Tail(Contents) \in [1 .. n - 1 -> Fd] BY <3>1, LenProperties
      <4> QED BY <4>1, Zenon
    <3> QED BY <3>1, <3>2, Zenon
  <2>2. \A i \in 1 .. n - 1 : Contents[i + 1] = info[cells[i + 1]] BY <1>1, <1>3, <1>12
  <2> QED BY <1>5, <1>11, <2>1, <2>2
<1> QED BY <1>1, <1>2, <1>10, <1>13, <1>14, <1>15 DEF rest

\* A step that leaves the list alone leaves the queue alone.
LEMMA ListUnchanged ==
  ASSUME UNCHANGED listVars
  PROVE  Contents' = Contents /\ InList' = InList /\ (ListInv => ListInv')
<1>1. CellAt' = CellAt BY DEF CellAt, listVars
<1> QED BY <1>1 DEF Contents, InList, ListInv, Linked, listVars
-----------------------------------------------------------------------------
(* Types and the inductive invariant.                                      *)

\* Each step keeps the types.
LEMMA TypeStep == ASSUME TypeOK, Inv, [Next]_vars PROVE TypeOK'
<1> USE PoolAssumption DEF TypeOK, vars, threadVars, flagVars, listVars, clientVars, connVars
<1>1. CASE UNCHANGED vars BY <1>1
<1>2. CASE StartListener BY <1>2 DEF StartListener
<1>3. CASE StartWorkers BY <1>3 DEF StartWorkers
<1>4. CASE StopListening BY <1>4 DEF StopListening
<1>5. CASE WriteEventFd BY <1>5 DEF WriteEventFd
<1>6. CASE StopRunning BY <1>6 DEF StopRunning
<1>7. CASE SetStop BY <1>7 DEF SetStop
<1>8. CASE NotifyAll BY <1>8 DEF NotifyAll
<1>9. CASE JoinWorkers BY <1>9 DEF JoinWorkers
<1>10. CASE JoinListener BY <1>10 DEF JoinListener
<1>11. CASE ListenerBegins BY <1>11 DEF ListenerBegins
<1>12. CASE PollTimesOut BY <1>12 DEF PollTimesOut
<1>13. CASE PollReturns
  <2>1. Among(fds, readable) \in Seq(Fd) /\ Among(fds, Fd \ readable) \in Seq(Fd)
    BY AmongType
  <2>2. PICK k \in 0 .. Len(backlog) :
          /\ listening' = (listening /\ k = Len(backlog))
          /\ fds' = Among(fds, Fd \ readable) \o SubSeq(backlog, 1, k)
          /\ backlog' = SubSeq(backlog, k + 1, Len(backlog))
    BY <1>13 DEF PollReturns
  <2>3. SubSeq(backlog, 1, k) \in Seq(Fd) /\ backlog' \in Seq(Fd)
    <3>1. \A i \in 1 .. k : backlog[i] \in Fd OBVIOUS
    <3>2. \A i \in k + 1 .. Len(backlog) : backlog[i] \in Fd OBVIOUS
    <3> QED BY <2>2, <3>1, <3>2, SubSeqProperties
  <2>4. fds' \in Seq(Fd) BY <2>1, <2>2, <2>3, ConcatProperties
  <2>5. scan' \in Seq(Fd) BY <1>13, <2>1 DEF PollReturns
  <2>6. listening' \in BOOLEAN /\ lpc' = "scan" BY <1>13, <2>2 DEF PollReturns
  <2> QED BY <1>13, <2>3, <2>4, <2>5, <2>6 DEF PollReturns
<1>14. CASE PushTest
  <2>1. Head(scan) \in Fd /\ Tail(scan) \in Seq(Fd) BY <1>14, HeadTailProperties DEF PushTest
  <2>2. CASE stop BY <1>14, <2>1, <2>2 DEF PushTest
  <2>3. CASE ~stop BY <1>14, <2>3 DEF PushTest
  <2> QED BY <2>2, <2>3
<1>15. CASE PushLink
  <2>1. Head(scan) \in Fd /\ scan' \in Seq(Fd)
    BY <1>15, HeadTailProperties DEF PushLink, Inv, ScanInv
  <2>2. wpc' \in [Worker -> {"none", "loop", "pop", "blocking", "waiting", "handle", "done"}]
    BY <1>15 DEF PushLink, NotifyOne
  <2>3. PICK c \in Cell :
          /\ info' = [info EXCEPT ![c] = Head(scan)]
          /\ queue_l' = c
          /\ IF queue_l = Null
               THEN queue_h' = c /\ next' = [next EXCEPT ![c] = Null]
               ELSE /\ next' = [next EXCEPT ![c] = Null, ![queue_l] = c]
                    /\ UNCHANGED queue_h
    BY <1>15 DEF PushLink
  <2>4. info' \in [Cell -> Fd \cup {Null}] BY <2>1, <2>3
  <2>5. next' \in [Cell -> Cell \cup {Null}] BY <2>3
  <2>6. queue_h' \in Cell \cup {Null} /\ queue_l' \in Cell \cup {Null} BY <2>3
  <2> QED BY <1>15, <2>1, <2>2, <2>4, <2>5, <2>6 DEF PushLink
<1>16. CASE ScanDone
  <2>1. Elements(fds) \subseteq Fd /\ Elements(backlog) \subseteq Fd BY DEF Elements
  <2>2. CASE listening BY <1>16, <2>2 DEF ScanDone
  <2>3. CASE ~listening BY <1>16, <2>1, <2>3, EmptySeq DEF ScanDone
  <2> QED BY <2>2, <2>3
<1>17. ASSUME NEW w \in Worker, WorkerLoop(w) PROVE TypeOK'
  BY <1>17 DEF WorkerLoop
<1>18. ASSUME NEW w \in Worker, PopTest(w) PROVE TypeOK'
  BY <1>18, ZenonT(60) DEF PopTest, DeleteHead
<1>19. ASSUME NEW w \in Worker, Block(w) PROVE TypeOK'
  BY <1>19 DEF Block
<1>20. ASSUME NEW w \in Worker, Handle(w) PROVE TypeOK'
  BY <1>20 DEF Handle, Inv, WorkerInv
<1>21. ASSUME NEW w \in Worker, SpuriousWakeup(w) PROVE TypeOK'
  BY <1>21 DEF SpuriousWakeup
<1>22. ASSUME NEW f \in Fd, Connect(f) PROVE TypeOK'
  BY <1>22, AppendProperties DEF Connect
<1>23. ASSUME NEW f \in Fd, Write(f) PROVE TypeOK'
  BY <1>23 DEF Write
<1> HIDE DEF TypeOK
<1> QED
  BY <1>1, <1>2, <1>3, <1>4, <1>5, <1>6, <1>7, <1>8, <1>9, <1>10, <1>11, <1>12, <1>13, <1>14,
    <1>15, <1>16, <1>17, <1>18, <1>19, <1>20, <1>21, <1>22, <1>23
  DEF Next, OwnerStep, ListenerStep, WorkerStep
\* What the queue holds are connections, and queue_h tells whether there is one.
LEMMA ContentsType ==
  ASSUME TypeOK, ListInv
  PROVE  Contents \in Seq(Fd) /\ (queue_h = Null <=> Contents = <<>>)
<1>1. PICK cells \in Seq(Cell) : Linked(cells) BY DEF ListInv
<1>2. Contents = [i \in 1 .. Len(cells) |-> info[cells[i]]] BY <1>1, ContentsIs DEF Reads
<1>3. Contents \in Seq(Fd) /\ Len(Contents) = Len(cells) BY <1>1, <1>2 DEF Linked
<1>4. queue_h = IF cells = <<>> THEN Null ELSE cells[1] BY <1>1 DEF Linked, Along
<1>5. cells # <<>> => cells[1] \in Cell BY EmptySeq
<1>6. cells = <<>> <=> Contents = <<>> BY <1>3, EmptySeq
<1> QED BY <1>3, <1>4, <1>5, <1>6, PoolAssumption

\* A push adds the connection in the listener's hand at the end.
LEMMA PushEffect ==
  ASSUME TypeOK, TypeOK', Inv, PushLink
  PROVE  /\ ListInv'
         /\ scan # <<>> /\ Head(scan) \in Fd /\ Contents' = Append(Contents, Head(scan))
<1>1. PICK cells \in Seq(Cell) : Linked(cells) BY DEF Inv, ListInv
<1>2. scan # <<>> /\ Head(scan) \in Fd
  BY HeadTailProperties DEF PushLink, Inv, ScanInv, TypeOK
<1>3. PICK c \in Cell \ InList :
        /\ info' = [info EXCEPT ![c] = Head(scan)]
        /\ queue_l' = c
        /\ IF queue_l = Null
             THEN queue_h' = c /\ next' = [next EXCEPT ![c] = Null]
             ELSE queue_h' = queue_h /\ next' = [next EXCEPT ![c] = Null, ![queue_l] = c]
  BY DEF PushLink
<1>4. /\ Append(cells, c) \in Seq(Cell) /\ Linked(Append(cells, c))'
      /\ Contents' = Append(Contents, Head(scan))
  BY <1>1, <1>2, <1>3, LinkLast
<1>5. ListInv' BY <1>4 DEF ListInv
<1> QED BY <1>2, <1>4, <1>5

\* A pop takes the first connection, if there is one.
LEMMA PopEffect ==
  ASSUME TypeOK, TypeOK', Inv, NEW w \in Worker, PopTest(w)
  PROVE  /\ ListInv'
         /\ \/ /\ wpc' = [wpc EXCEPT ![w] = "handle"]
               /\ Contents # <<>> /\ Head(Contents) \in Fd
               /\ fd' = [fd EXCEPT ![w] = Head(Contents)]
               /\ Contents' = Tail(Contents)
            \/ /\ \/ wpc' = [wpc EXCEPT ![w] = "done"]
                  \/ wpc' = [wpc EXCEPT ![w] = "blocking"]
               /\ Contents = <<>> /\ UNCHANGED <<Contents, queue_h, fd>>
<1>1. PICK cells \in Seq(Cell) : Linked(cells) BY DEF Inv, ListInv
<1>2. CASE queue_h # Null
  <2>1. /\ DeleteHead /\ queue_l' = IF queue_h' = Null THEN Null ELSE queue_l
        /\ fd' = [fd EXCEPT ![w] = info[queue_h]]
        /\ wpc' = [wpc EXCEPT ![w] = "handle"]
    BY <1>2 DEF PopTest
  <2>2. /\ Tail(cells) \in Seq(Cell) /\ Linked(Tail(cells))'
        /\ Contents # <<>>
        /\ info[queue_h] = Head(Contents) /\ info[queue_h] \in Fd
        /\ Contents' = Tail(Contents)
    BY <1>1, <1>2, <2>1, UnlinkFirst
  <2>3. ListInv' BY <2>2 DEF ListInv
  <2> QED BY <2>1, <2>2, <2>3
<1>3. CASE queue_h = Null
  <2>1. /\ UNCHANGED listVars /\ UNCHANGED fd
        /\ wpc' = [wpc EXCEPT ![w] = "done"] \/ wpc' = [wpc EXCEPT ![w] = "blocking"]
    BY <1>3 DEF PopTest
  <2>2. Contents' = Contents /\ ListInv' BY <2>1, ListUnchanged DEF Inv
  <2>3. Contents = <<>> BY <1>3, ContentsType DEF Inv
  <2>4. queue_h' = queue_h BY <2>1 DEF listVars
  <2> QED BY <2>1, <2>2, <2>3, <2>4
<1> QED BY <1>2, <1>3

\* A step of any other kind leaves the queue alone.
Elsewhere ==
  \/ OwnerStep \/ StopListening
  \/ ListenerBegins \/ PollReturns \/ PollTimesOut \/ PushTest \/ ScanDone
  \/ \E w \in Worker : WorkerLoop(w) \/ Block(w) \/ Handle(w) \/ SpuriousWakeup(w)
  \/ \E f \in Fd : Connect(f) \/ Write(f)
  \/ UNCHANGED vars

LEMMA StepKinds ==
  ASSUME [Next]_vars
  PROVE  PushLink \/ (\E w \in Worker : PopTest(w)) \/ Elsewhere
BY DEF Next, ListenerStep, WorkerStep, Elsewhere

LEMMA ElsewhereUnchanged == ASSUME Elsewhere PROVE UNCHANGED listVars
BY DEF Elsewhere, OwnerStep, StartListener, StartWorkers, StopListening, WriteEventFd,
    StopRunning, SetStop, NotifyAll, JoinWorkers, JoinListener, ListenerBegins, PollReturns,
      PollTimesOut, PushTest, ScanDone, WorkerLoop, Block, Handle, SpuriousWakeup, Connect,
        Write, vars

\* Each step keeps the list well formed.
LEMMA ListStep == ASSUME TypeOK, TypeOK', Inv, [Next]_vars PROVE ListInv'
<1>1. CASE PushLink BY <1>1, PushEffect
<1>2. ASSUME NEW w \in Worker, PopTest(w) PROVE ListInv' BY <1>2, PopEffect
<1>3. CASE Elsewhere BY <1>3, ElsewhereUnchanged, ListUnchanged DEF Inv
<1> QED BY <1>1, <1>2, <1>3, StepKinds

\* Nobody links a cell under a worker that is about to wait.
LEMMA MutexStep == ASSUME TypeOK, TypeOK', Inv, [Next]_vars PROVE MutexInv'
<1> USE PoolAssumption DEF TypeOK, Inv, MutexInv, Held, vars, threadVars, flagVars, listVars,
        clientVars, connVars
<1>1. CASE UNCHANGED vars BY <1>1
<1>2. CASE StartListener BY <1>2 DEF StartListener
<1>3. CASE StartWorkers BY <1>3 DEF StartWorkers
<1>4. CASE StopListening BY <1>4 DEF StopListening
<1>5. CASE WriteEventFd BY <1>5 DEF WriteEventFd
<1>6. CASE StopRunning BY <1>6 DEF StopRunning
<1>7. CASE SetStop BY <1>7 DEF SetStop
<1>8. CASE NotifyAll BY <1>8 DEF NotifyAll
<1>9. CASE JoinWorkers BY <1>9 DEF JoinWorkers
<1>10. CASE JoinListener BY <1>10 DEF JoinListener
<1>11. CASE ListenerBegins BY <1>11 DEF ListenerBegins
<1>12. CASE PollTimesOut BY <1>12 DEF PollTimesOut
<1>13. CASE PollReturns BY <1>13 DEF PollReturns
<1>14. CASE PushTest BY <1>14 DEF PushTest
<1>15. CASE PushLink BY <1>15 DEF PushLink, NotifyOne
<1>16. CASE ScanDone BY <1>16 DEF ScanDone
<1>17. ASSUME NEW w \in Worker, WorkerLoop(w) PROVE MutexInv' BY <1>17 DEF WorkerLoop
<1>18. ASSUME NEW w \in Worker, PopTest(w) PROVE MutexInv' BY <1>18 DEF PopTest, DeleteHead
<1>19. ASSUME NEW w \in Worker, Block(w) PROVE MutexInv' BY <1>19 DEF Block
<1>20. ASSUME NEW w \in Worker, Handle(w) PROVE MutexInv' BY <1>20 DEF Handle
<1>21. ASSUME NEW w \in Worker, SpuriousWakeup(w) PROVE MutexInv' BY <1>21 DEF SpuriousWakeup
<1>22. ASSUME NEW f \in Fd, Connect(f) PROVE MutexInv' BY <1>22 DEF Connect
<1>23. ASSUME NEW f \in Fd, Write(f) PROVE MutexInv' BY <1>23 DEF Write
<1> HIDE DEF MutexInv, Held, TypeOK, Inv
<1> QED
  BY <1>1, <1>2, <1>3, <1>4, <1>5, <1>6, <1>7, <1>8, <1>9, <1>10, <1>11, <1>12, <1>13, <1>14,
    <1>15, <1>16, <1>17, <1>18, <1>19, <1>20, <1>21, <1>22, <1>23
  DEF Next, OwnerStep, ListenerStep, WorkerStep

\* A worker takes a connection when it starts to handle it, and gives it up after.
LEMMA WorkerInvStep == ASSUME TypeOK, TypeOK', Inv, [Next]_vars PROVE WorkerInv'
<1> USE PoolAssumption DEF TypeOK, Inv, WorkerInv, vars, threadVars, flagVars, listVars,
        clientVars, connVars
<1>1. CASE UNCHANGED vars BY <1>1
<1>2. CASE StartListener BY <1>2 DEF StartListener
<1>3. CASE StartWorkers BY <1>3 DEF StartWorkers, StartInv
<1>4. CASE StopListening BY <1>4 DEF StopListening
<1>5. CASE WriteEventFd BY <1>5 DEF WriteEventFd
<1>6. CASE StopRunning BY <1>6 DEF StopRunning
<1>7. CASE SetStop BY <1>7 DEF SetStop
<1>8. CASE NotifyAll BY <1>8 DEF NotifyAll
<1>9. CASE JoinWorkers BY <1>9 DEF JoinWorkers
<1>10. CASE JoinListener BY <1>10 DEF JoinListener
<1>11. CASE ListenerBegins BY <1>11 DEF ListenerBegins
<1>12. CASE PollTimesOut BY <1>12 DEF PollTimesOut
<1>13. CASE PollReturns BY <1>13 DEF PollReturns
<1>14. CASE PushTest BY <1>14 DEF PushTest
<1>15. CASE PushLink BY <1>15 DEF PushLink, NotifyOne
<1>16. CASE ScanDone BY <1>16 DEF ScanDone
<1>17. ASSUME NEW w \in Worker, WorkerLoop(w) PROVE WorkerInv' BY <1>17 DEF WorkerLoop
<1>18. ASSUME NEW w \in Worker, PopTest(w) PROVE WorkerInv'
  <2>1. CASE /\ wpc' = [wpc EXCEPT ![w] = "handle"]
             /\ Head(Contents) \in Fd /\ fd' = [fd EXCEPT ![w] = Head(Contents)]
    BY <2>1
  <2>2. CASE /\ wpc' = [wpc EXCEPT ![w] = "done"] \/ wpc' = [wpc EXCEPT ![w] = "blocking"]
             /\ fd' = fd
    BY <1>18, <2>2 DEF PopTest
  <2> HIDE DEF TypeOK, Inv, WorkerInv
  <2> QED BY <1>18, <2>1, <2>2, PopEffect
<1>19. ASSUME NEW w \in Worker, Block(w) PROVE WorkerInv' BY <1>19 DEF Block
<1>20. ASSUME NEW w \in Worker, Handle(w) PROVE WorkerInv' BY <1>20 DEF Handle
<1>21. ASSUME NEW w \in Worker, SpuriousWakeup(w) PROVE WorkerInv' BY <1>21 DEF SpuriousWakeup
<1>22. ASSUME NEW f \in Fd, Connect(f) PROVE WorkerInv' BY <1>22 DEF Connect
<1>23. ASSUME NEW f \in Fd, Write(f) PROVE WorkerInv' BY <1>23 DEF Write
<1> HIDE DEF WorkerInv, TypeOK, Inv
<1> QED
  BY <1>1, <1>2, <1>3, <1>4, <1>5, <1>6, <1>7, <1>8, <1>9, <1>10, <1>11, <1>12, <1>13, <1>14,
    <1>15, <1>16, <1>17, <1>18, <1>19, <1>20, <1>21, <1>22, <1>23
  DEF Next, OwnerStep, ListenerStep, WorkerStep

\* The listener enters push only with a connection, and polls only without.
LEMMA ScanStep == ASSUME TypeOK, TypeOK', Inv, [Next]_vars PROVE ScanInv'
<1> USE PoolAssumption DEF TypeOK, Inv, ScanInv, vars, threadVars, flagVars, listVars,
        clientVars, connVars
<1>1. CASE UNCHANGED vars BY <1>1
<1>2. CASE StartListener BY <1>2 DEF StartListener, StartInv
<1>3. CASE StartWorkers BY <1>3 DEF StartWorkers
<1>4. CASE StopListening BY <1>4 DEF StopListening
<1>5. CASE WriteEventFd BY <1>5 DEF WriteEventFd
<1>6. CASE StopRunning BY <1>6 DEF StopRunning
<1>7. CASE SetStop BY <1>7 DEF SetStop
<1>8. CASE NotifyAll BY <1>8 DEF NotifyAll
<1>9. CASE JoinWorkers BY <1>9 DEF JoinWorkers
<1>10. CASE JoinListener BY <1>10 DEF JoinListener
<1>11. CASE ListenerBegins BY <1>11 DEF ListenerBegins
<1>12. CASE PollTimesOut BY <1>12 DEF PollTimesOut
<1>13. CASE PollReturns BY <1>13 DEF PollReturns
<1>14. CASE PushTest BY <1>14 DEF PushTest
<1>15. CASE PushLink BY <1>15 DEF PushLink, NotifyOne
<1>16. CASE ScanDone BY <1>16 DEF ScanDone
<1>17. ASSUME NEW w \in Worker, WorkerLoop(w) PROVE ScanInv' BY <1>17 DEF WorkerLoop
<1>18. ASSUME NEW w \in Worker, PopTest(w) PROVE ScanInv' BY <1>18 DEF PopTest, DeleteHead
<1>19. ASSUME NEW w \in Worker, Block(w) PROVE ScanInv' BY <1>19 DEF Block
<1>20. ASSUME NEW w \in Worker, Handle(w) PROVE ScanInv' BY <1>20 DEF Handle
<1>21. ASSUME NEW w \in Worker, SpuriousWakeup(w) PROVE ScanInv' BY <1>21 DEF SpuriousWakeup
<1>22. ASSUME NEW f \in Fd, Connect(f) PROVE ScanInv' BY <1>22 DEF Connect
<1>23. ASSUME NEW f \in Fd, Write(f) PROVE ScanInv' BY <1>23 DEF Write
<1> HIDE DEF ScanInv, TypeOK, Inv
<1> QED
  BY <1>1, <1>2, <1>3, <1>4, <1>5, <1>6, <1>7, <1>8, <1>9, <1>10, <1>11, <1>12, <1>13, <1>14,
    <1>15, <1>16, <1>17, <1>18, <1>19, <1>20, <1>21, <1>22, <1>23
  DEF Next, OwnerStep, ListenerStep, WorkerStep

\* A thread appears only when the owner starts it.
LEMMA StartStep == ASSUME TypeOK, TypeOK', Inv, [Next]_vars PROVE StartInv'
<1> USE PoolAssumption DEF TypeOK, Inv, StartInv, vars, threadVars, flagVars, listVars,
        clientVars, connVars
<1>1. CASE UNCHANGED vars BY <1>1
<1>2. CASE StartListener BY <1>2 DEF StartListener
<1>3. CASE StartWorkers BY <1>3 DEF StartWorkers
<1>4. CASE StopListening BY <1>4 DEF StopListening
<1>5. CASE WriteEventFd BY <1>5 DEF WriteEventFd
<1>6. CASE StopRunning BY <1>6 DEF StopRunning
<1>7. CASE SetStop BY <1>7 DEF SetStop
<1>8. CASE NotifyAll BY <1>8 DEF NotifyAll
<1>9. CASE JoinWorkers BY <1>9 DEF JoinWorkers
<1>10. CASE JoinListener BY <1>10 DEF JoinListener
<1>11. CASE ListenerBegins BY <1>11 DEF ListenerBegins
<1>12. CASE PollTimesOut BY <1>12 DEF PollTimesOut
<1>13. CASE PollReturns BY <1>13 DEF PollReturns
<1>14. CASE PushTest BY <1>14 DEF PushTest
<1>15. CASE PushLink BY <1>15 DEF PushLink, NotifyOne
<1>16. CASE ScanDone BY <1>16 DEF ScanDone
<1>17. ASSUME NEW w \in Worker, WorkerLoop(w) PROVE StartInv' BY <1>17 DEF WorkerLoop
<1>18. ASSUME NEW w \in Worker, PopTest(w) PROVE StartInv' BY <1>18 DEF PopTest, DeleteHead
<1>19. ASSUME NEW w \in Worker, Block(w) PROVE StartInv' BY <1>19 DEF Block
<1>20. ASSUME NEW w \in Worker, Handle(w) PROVE StartInv' BY <1>20 DEF Handle
<1>21. ASSUME NEW w \in Worker, SpuriousWakeup(w) PROVE StartInv' BY <1>21 DEF SpuriousWakeup
<1>22. ASSUME NEW f \in Fd, Connect(f) PROVE StartInv' BY <1>22 DEF Connect
<1>23. ASSUME NEW f \in Fd, Write(f) PROVE StartInv' BY <1>23 DEF Write
<1> HIDE DEF StartInv, TypeOK, Inv
<1> QED
  BY <1>1, <1>2, <1>3, <1>4, <1>5, <1>6, <1>7, <1>8, <1>9, <1>10, <1>11, <1>12, <1>13, <1>14,
    <1>15, <1>16, <1>17, <1>18, <1>19, <1>20, <1>21, <1>22, <1>23
  DEF Next, OwnerStep, ListenerStep, WorkerStep

\* The invariant is kept by every step.
LEMMA Invariance == Spec => [](TypeOK /\ Inv)
<1>1. Init => TypeOK /\ Inv
  <2> SUFFICES ASSUME Init PROVE TypeOK /\ Inv OBVIOUS
  <2>1. TypeOK BY EmptySeq DEF Init, TypeOK
  <2>2. ListInv
    <3>1. <<>> \in Seq(Cell) /\ Linked(<<>>) BY EmptySeq DEF Init, Linked, Along
    <3> QED BY <3>1 DEF ListInv
  <2>3. MutexInv /\ WorkerInv /\ ScanInv /\ StartInv
    BY DEF Init, MutexInv, Held, WorkerInv, ScanInv, StartInv
  <2> QED BY <2>1, <2>2, <2>3 DEF Inv
<1>2. TypeOK /\ Inv /\ [Next]_vars => (TypeOK /\ Inv)'
  <2> SUFFICES ASSUME TypeOK, Inv, [Next]_vars PROVE (TypeOK /\ Inv)' OBVIOUS
  <2>1. TypeOK' BY TypeStep
  <2>2. ListInv' /\ MutexInv' /\ WorkerInv' /\ ScanInv' /\ StartInv'
    BY <2>1, ListStep, MutexStep, WorkerInvStep, ScanStep, StartStep
  <2> QED BY <2>1, <2>2 DEF Inv
<1> QED BY <1>1, <1>2, PTL DEF Spec

\* Every variable keeps its type, for any number of connections, workers and
\* cells: a worker never closes, and the list never holds, anything but a connection.
THEOREM TypeCorrect == Spec => []TypeOK
BY Invariance, PTL
-----------------------------------------------------------------------------
(* The list is a FIFO queue.                                               *)

\* A step on the list is a step of the abstract queue, and no other step shows.
LEMMA FifoStep ==
  ASSUME TypeOK, TypeOK', Inv, [Next]_vars
  PROVE  [Fifo!Next]_<<Contents, fd>>
<1>1. CASE PushLink
  <2>1. Head(scan) \in Fd /\ Contents' = Append(Contents, Head(scan)) BY <1>1, PushEffect
  <2>2. fd' = fd BY <1>1 DEF PushLink
  <2> QED BY <2>1, <2>2 DEF Fifo!Next, Fifo!Push
<1>2. ASSUME NEW w \in Worker, PopTest(w) PROVE [Fifo!Next]_<<Contents, fd>>
  <2>1. fd[w] = Null BY <1>2 DEF PopTest, Inv, WorkerInv
  <2>2. CASE /\ Contents # <<>>
             /\ fd' = [fd EXCEPT ![w] = Head(Contents)]
             /\ Contents' = Tail(Contents)
    BY <2>1, <2>2 DEF Fifo!Next, Fifo!Pop
  <2> QED BY <1>2, <2>2, PopEffect
<1>3. CASE Elsewhere
  <2>1. Contents' = Contents BY <1>3, ElsewhereUnchanged, ListUnchanged
  <2>2. ASSUME NEW w \in Worker, Handle(w) PROVE [Fifo!Next]_<<Contents, fd>>
    <3>1. fd[w] # Null /\ fd' = [fd EXCEPT ![w] = Null]
      BY <2>2, PoolAssumption DEF Handle, Inv, WorkerInv
    <3> QED BY <2>1, <3>1 DEF Fifo!Next, Fifo!Finish
  <2>3. CASE fd' = fd BY <2>1, <2>3
  <2>4. (\E w \in Worker : Handle(w)) \/ fd' = fd
    BY <1>3 DEF Elsewhere, OwnerStep, StartListener, StartWorkers, StopListening,
        WriteEventFd, StopRunning, SetStop, NotifyAll, JoinWorkers, JoinListener,
          ListenerBegins, PollReturns, PollTimesOut, PushTest, ScanDone, WorkerLoop, Block,
            SpuriousWakeup, Connect, Write, vars, connVars
  <2> QED BY <2>2, <2>3, <2>4
<1> QED BY <1>1, <1>2, <1>3, StepKinds

\* The linked list, its two end pointers and its recycled cells, under any
\* interleaving of push, pop and stopqueue, is a FIFO queue.
THEOREM QueueIsFifo == Spec => ImplementsFifo
<1>1. Init => Fifo!Init
  <2> SUFFICES ASSUME Init PROVE Fifo!Init OBVIOUS
  <2>1. TypeOK BY EmptySeq DEF Init, TypeOK
  <2>2. <<>> \in Seq(Cell) /\ Linked(<<>>) BY EmptySeq DEF Init, Linked, Along
  <2>3. ListInv BY <2>2 DEF ListInv
  <2>4. Contents = <<>> BY <2>1, <2>3, ContentsType DEF Init
  <2> QED BY <2>4 DEF Init, Fifo!Init
<1>2. TypeOK /\ Inv /\ (TypeOK /\ Inv)' /\ [Next]_vars => [Fifo!Next]_<<Contents, fd>>
  BY FifoStep
<1> QED BY <1>1, <1>2, Invariance, PTL DEF Spec, ImplementsFifo, Fifo!Spec
-----------------------------------------------------------------------------
(* No wakeup is lost.                                                      *)

Awake == {w \in Worker : wpc[w] = "pop"}

\* The other steps wake workers and never send one to sleep, except the one that
\* saw the queue empty.
LEMMA ElsewhereAwake ==
  ASSUME TypeOK, Inv, Elsewhere
  PROVE  \/ \E w \in Worker : Block(w)
         \/ \A w \in Worker : wpc'[w] = "waiting" => wpc[w] = "waiting" /\ Awake \subseteq Awake'
<1> USE DEF TypeOK, Inv, StartInv, Awake
<1>1. CASE wpc' = wpc BY <1>1
<1>2. CASE StartWorkers BY <1>2 DEF StartWorkers
<1>3. CASE NotifyAll BY <1>3 DEF NotifyAll
<1>4. ASSUME NEW w \in Worker, WorkerLoop(w)
      PROVE  \A v \in Worker : wpc'[v] = "waiting" => wpc[v] = "waiting" /\ Awake \subseteq Awake'
  BY <1>4 DEF WorkerLoop
<1>5. ASSUME NEW w \in Worker, Handle(w)
      PROVE  \A v \in Worker : wpc'[v] = "waiting" => wpc[v] = "waiting" /\ Awake \subseteq Awake'
  BY <1>5 DEF Handle
<1>6. ASSUME NEW w \in Worker, SpuriousWakeup(w)
      PROVE  \A v \in Worker : wpc'[v] = "waiting" => wpc[v] = "waiting" /\ Awake \subseteq Awake'
  BY <1>6 DEF SpuriousWakeup
<1>7. \/ wpc' = wpc \/ StartWorkers \/ NotifyAll
      \/ \E w \in Worker : WorkerLoop(w) \/ Block(w) \/ Handle(w) \/ SpuriousWakeup(w)
  BY DEF Elsewhere, OwnerStep, StartListener, StopListening, WriteEventFd, StopRunning,
      SetStop, JoinWorkers, JoinListener, ListenerBegins, PollReturns, PollTimesOut,
        PushTest, ScanDone, Connect, Write, vars, threadVars
<1> HIDE DEF TypeOK, Inv, StartInv, Awake
<1> QED BY <1>1, <1>2, <1>3, <1>4, <1>5, <1>6, <1>7

\* The workers on their way to the list can be counted.
LEMMA AwakeCount ==
  /\ IsFiniteSet(Awake) /\ Cardinality(Awake) \in Nat
  /\ IsFiniteSet(Awake') /\ Cardinality(Awake') \in Nat
<1>1. Awake \in SUBSET Worker /\ Awake' \in SUBSET Worker BY DEF Awake
<1> QED BY <1>1, PoolAssumption, FS_Subset, FS_CardinalityType

LEMMA SleepStep ==
  ASSUME TypeOK, TypeOK', Inv, Inv', NoSleepOverWork, [Next]_vars
  PROVE  NoSleepOverWork'
<1> SUFFICES ASSUME NEW v \in Worker, wpc'[v] = "waiting"
             PROVE  Len(Contents)' <= Cardinality(Awake')
  BY DEF NoSleepOverWork, Awake
<1>0. Contents \in Seq(Fd) /\ Len(Contents) \in Nat BY ContentsType DEF Inv
<1>1. CASE PushLink
  <2>1. Len(Contents)' = Len(Contents) + 1
    BY <1>0, <1>1, PushEffect, AppendProperties
  <2>2. wpc[v] = "waiting" BY <1>1 DEF PushLink, NotifyOne, TypeOK
  <2>3. PICK w \in Worker : wpc[w] = "waiting" /\ wpc' = [wpc EXCEPT ![w] = "pop"]
    BY <1>1, <2>2 DEF PushLink, NotifyOne
  <2>4. Awake' = Awake \cup {w} /\ w \notin Awake BY <2>3 DEF Awake, TypeOK
  <2>5. Cardinality(Awake') = Cardinality(Awake) + 1 BY <2>4, AwakeCount, FS_AddElement
  <2>6. Len(Contents) <= Cardinality(Awake) BY <2>2 DEF NoSleepOverWork, Awake
  <2> QED BY <1>0, <2>1, <2>5, <2>6, AwakeCount
<1>2. ASSUME NEW w \in Worker, PopTest(w) PROVE Len(Contents)' <= Cardinality(Awake')
  <2>1. CASE /\ wpc' = [wpc EXCEPT ![w] = "handle"]
             /\ Contents # <<>> /\ Contents' = Tail(Contents)
    <3>1. Len(Contents)' = Len(Contents) - 1 BY <1>0, <2>1, HeadTailProperties
    <3>2. Awake' = Awake \ {w} /\ w \in Awake BY <1>2, <2>1 DEF PopTest, Awake, TypeOK
    <3>3. Cardinality(Awake') = Cardinality(Awake) - 1
      BY <3>2, AwakeCount, FS_RemoveElement
    <3>4. wpc[v] = "waiting" BY <2>1 DEF TypeOK
    <3>5. Len(Contents) <= Cardinality(Awake) BY <3>4 DEF NoSleepOverWork, Awake
    <3> QED BY <1>0, <3>1, <3>3, <3>5, AwakeCount
  <2>2. CASE Contents = <<>> /\ Contents' = Contents
    <3>1. Len(Contents)' = 0 BY <2>2
    <3> QED BY <3>1, AwakeCount
  <2> QED BY <1>2, <2>1, <2>2, PopEffect
<1>3. CASE Elsewhere
  <2>1. Contents' = Contents BY <1>3, ElsewhereUnchanged, ListUnchanged
  <2>2. CASE \E w \in Worker : Block(w)
    <3>1. queue_h = Null BY <2>2 DEF Block, Inv, MutexInv, Held
    <3>2. Contents = <<>> BY <3>1, ContentsType DEF Inv
    <3>3. Len(Contents)' = 0 BY <2>1, <3>2
    <3> QED BY <3>3, AwakeCount
  <2>3. CASE wpc[v] = "waiting" /\ Awake \subseteq Awake'
    <3>1. Len(Contents) <= Cardinality(Awake) BY <2>3 DEF NoSleepOverWork, Awake
    <3>2. Cardinality(Awake) <= Cardinality(Awake') BY <2>3, AwakeCount, FS_Subset
    <3> QED BY <1>0, <2>1, <3>1, <3>2, AwakeCount
  <2> QED BY <1>3, <2>2, <2>3, ElsewhereAwake
<1> QED BY <1>1, <1>2, <1>3, StepKinds

\* While a worker sleeps, each queued connection has a worker of its own that is
\* awake and on its way to the list: no notification of push is lost.
THEOREM NoWakeupLost == Spec => []NoSleepOverWork
<1>1. Init => NoSleepOverWork BY DEF Init, NoSleepOverWork
<1>2. TypeOK /\ Inv /\ (TypeOK /\ Inv)' /\ NoSleepOverWork /\ [Next]_vars => NoSleepOverWork'
  BY SleepStep
<1> QED BY <1>1, <1>2, Invariance, PTL DEF Spec
-----------------------------------------------------------------------------
(* Counting the places of a connection.                                    *)

Count(f, s) == Cardinality({i \in DOMAIN s : s[i] = f})

In(f, S) == IF f \in S THEN 1 ELSE 0

\* The occurrences in a sequence are finitely many, and none only if it is not
\* one of the elements.
LEMMA CountType ==
  ASSUME NEW f, NEW s \in Seq(Fd)
  PROVE  /\ IsFiniteSet({i \in DOMAIN s : s[i] = f})
         /\ Count(f, s) \in Nat
         /\ f \in Elements(s) <=> Count(f, s) # 0
<1> DEFINE A == {i \in DOMAIN s : s[i] = f}
<1>1. A \in SUBSET (1 .. Len(s)) BY LenProperties
<1>2. IsFiniteSet(1 .. Len(s)) BY FS_Interval
<1>3. IsFiniteSet(A) BY <1>1, <1>2, FS_Subset
<1>4. Cardinality(A) \in Nat /\ (Cardinality(A) = 0 <=> A = {})
  BY <1>3, FS_CardinalityType, FS_EmptySet
<1>5. f \in Elements(s) <=> A # {} BY DEF Elements
<1> QED BY <1>3, <1>4, <1>5 DEF Count

LEMMA CountEmpty == ASSUME NEW f PROVE Count(f, <<>>) = 0
<1>1. {i \in DOMAIN <<>> : <<>>[i] = f} = {} OBVIOUS
<1> QED BY <1>1, FS_EmptySet DEF Count

LEMMA CountOne == ASSUME NEW f, NEW x PROVE Count(f, <<x>>) = IF x = f THEN 1 ELSE 0
<1>1. {i \in DOMAIN <<x>> : <<x>>[i] = f} = IF x = f THEN {1} ELSE {} OBVIOUS
<1> QED BY <1>1, FS_EmptySet, FS_Singleton DEF Count

\* Occurrences add up under concatenation, ...
LEMMA CountConcat ==
  ASSUME NEW f, NEW s \in Seq(Fd), NEW t \in Seq(Fd)
  PROVE  s \o t \in Seq(Fd) /\ Count(f, s \o t) = Count(f, s) + Count(f, t)
<1> DEFINE m == Len(s)
           n == Len(t)
           A == {i \in DOMAIN s : s[i] = f}
           B == {i \in DOMAIN t : t[i] = f}
           C == {i \in DOMAIN (s \o t) : (s \o t)[i] = f}
           D == {i \in m + 1 .. m + n : t[i - m] = f}
<1>1. /\ s \o t \in Seq(Fd) /\ Len(s \o t) = m + n /\ m \in Nat /\ n \in Nat
      /\ \A i \in 1 .. m + n : (s \o t)[i] = IF i <= m THEN s[i] ELSE t[i - m]
  BY ConcatProperties
<1>2. DOMAIN s = 1 .. m /\ DOMAIN t = 1 .. n /\ DOMAIN (s \o t) = 1 .. m + n
  BY <1>1, LenProperties
<1>3. C = A \cup D
  <2>1. ASSUME NEW i \in 1 .. m + n PROVE i \in C <=> i \in A \/ i \in D
    <3>1. CASE i <= m
      <4>1. (s \o t)[i] = s[i] /\ i \in 1 .. m /\ i \notin m + 1 .. m + n BY <1>1, <3>1
      <4> QED BY <1>2, <4>1
    <3>2. CASE ~(i <= m)
      <4>1. (s \o t)[i] = t[i - m] /\ i \notin 1 .. m /\ i \in m + 1 .. m + n
        BY <1>1, <3>2
      <4> QED BY <1>2, <4>1
    <3> QED BY <3>1, <3>2
  <2>2. C \subseteq 1 .. m + n /\ A \subseteq 1 .. m + n /\ D \subseteq 1 .. m + n
    BY <1>1, <1>2
  <2> HIDE DEF A, C, D
  <2> QED BY <2>1, <2>2
<1>4. A \cap D = {} BY <1>1, <1>2
<1>5. IsFiniteSet(A) /\ IsFiniteSet(B) /\ Cardinality(A) \in Nat /\ Cardinality(B) \in Nat
  BY CountType DEF Count
<1>6. IsFiniteSet(D) /\ Cardinality(D) = Cardinality(B)
  <2> DEFINE h == [j \in B |-> j + m]
  <2>1. h \in [B -> D] BY <1>1, <1>2
  <2>2. \A i, j \in B : h[i] = h[j] => i = j BY <1>1, <1>2
  <2>3. \A i \in D : i - m \in B /\ h[i - m] = i BY <1>1, <1>2
  <2> HIDE DEF h, B, D
  <2>4. \A i \in D : \E j \in B : h[j] = i BY <2>3
  <2>5. h \in Bijection(B, D)
    BY <2>1, <2>2, <2>4 DEF Bijection, Injection, IsInjective, Surjection
  <2>6. ExistsBijection(B, D) BY <2>5 DEF ExistsBijection
  <2> QED BY <1>5, <2>6, FS_Bijection
<1>7. Cardinality(C) = Cardinality(A) + Cardinality(D)
  <2> HIDE DEF A, B, C, D
  <2>1. Cardinality(A \cup D) = Cardinality(A) + Cardinality(D) - Cardinality(A \cap D)
    BY <1>5, <1>6, FS_Union
  <2>2. Cardinality(A \cap D) = 0 BY <1>4, FS_EmptySet
  <2>3. Cardinality(A) \in Nat /\ Cardinality(D) \in Nat BY <1>5, <1>6
  <2>4. Cardinality(C) = Cardinality(A \cup D) BY <1>3
  <2> QED BY <2>1, <2>2, <2>3, <2>4
<1> QED BY <1>1, <1>6, <1>7 DEF Count

\* ... and so for an element added at the end, the first one taken away, and a
\* sequence cut in two.
LEMMA CountAppend ==
  ASSUME NEW f, NEW s \in Seq(Fd), NEW x \in Fd
  PROVE  Count(f, Append(s, x)) = Count(f, s) + IF x = f THEN 1 ELSE 0
<1>1. Append(s, x) = s \o <<x>> /\ <<x>> \in Seq(Fd) BY AppendIsConcat
<1>2. Count(f, s \o <<x>>) = Count(f, s) + Count(f, <<x>>) BY <1>1, CountConcat
<1>3. Count(f, Append(s, x)) = Count(f, s) + Count(f, <<x>>) BY <1>1, <1>2, Zenon
<1> QED BY <1>3, CountOne, Zenon

LEMMA CountTail ==
  ASSUME NEW f, NEW s \in Seq(Fd), s # <<>>
  PROVE  Count(f, s) = Count(f, Tail(s)) + IF Head(s) = f THEN 1 ELSE 0
<1>1. Head(s) \in Fd /\ Tail(s) \in Seq(Fd) BY HeadTailProperties
<1>2. <<Head(s)>> \in Seq(Fd) BY <1>1
<1>3. s = <<Head(s)>> \o Tail(s) BY <1>1, EmptySeq
<1>4. Count(f, <<Head(s)>> \o Tail(s)) = Count(f, <<Head(s)>>) + Count(f, Tail(s))
  BY <1>1, <1>2, CountConcat
<1>5. Count(f, s) = Count(f, <<Head(s)>>) + Count(f, Tail(s)) BY <1>3, <1>4, Zenon
<1>6. Count(f, <<Head(s)>>) = IF Head(s) = f THEN 1 ELSE 0 BY CountOne, Zenon
<1>7. Count(f, Tail(s)) \in Nat BY <1>1, CountType
<1> QED BY <1>5, <1>6, <1>7

LEMMA CountCut ==
  ASSUME NEW f, NEW s \in Seq(Fd), NEW k \in 0 .. Len(s)
  PROVE  /\ SubSeq(s, 1, k) \in Seq(Fd) /\ SubSeq(s, k + 1, Len(s)) \in Seq(Fd)
         /\ Count(f, s) = Count(f, SubSeq(s, 1, k)) + Count(f, SubSeq(s, k + 1, Len(s)))
<1>1. SubSeq(s, 1, k) \in Seq(Fd) /\ SubSeq(s, k + 1, Len(s)) \in Seq(Fd)
  <2>1. \A i \in 1 .. k : s[i] \in Fd OBVIOUS
  <2>2. \A i \in k + 1 .. Len(s) : s[i] \in Fd OBVIOUS
  <2> QED BY <2>1, <2>2, SubSeqProperties
<1>2. s = SubSeq(s, 1, k) \o SubSeq(s, k + 1, Len(s))
  <2>1. 1 \in 1 .. Len(s) + 1 /\ k \in 1 - 1 .. Len(s) /\ Len(s) \in k .. Len(s) OBVIOUS
  <2>2. SubSeq(s, 1, k) \o SubSeq(s, k + 1, Len(s)) = SubSeq(s, 1, Len(s))
    BY <2>1, ConcatAdjacentSubSeq
  <2> QED BY <2>2, SubSeqFull
<1>3. Count(f, SubSeq(s, 1, k) \o SubSeq(s, k + 1, Len(s)))
        = Count(f, SubSeq(s, 1, k)) + Count(f, SubSeq(s, k + 1, Len(s)))
  BY <1>1, CountConcat
<1> QED BY <1>1, <1>2, <1>3

\* The pass over the poll array keeps all of the connections it is to pick and
\* none of the others.
LEMMA CountAmong ==
  ASSUME NEW f, NEW s \in Seq(Fd), NEW S
  PROVE  Count(f, Among(s, S)) = IF f \in S THEN Count(f, s) ELSE 0
<1>1. PICK g \in [0 .. Len(s) -> Seq(Fd)] :
        Filters(g, Len(s), s, S) /\ Among(s, S) = g[Len(s)]
  BY AmongIs
<1> DEFINE Upto(n) == {i \in 1 .. n : s[i] = f}
           Good == {n \in Nat : n \in 0 .. Len(s) =>
                      Count(f, g[n]) = IF f \in S THEN Cardinality(Upto(n)) ELSE 0}
<1>2. 0 \in Good
  <2>1. Upto(0) = {} OBVIOUS
  <2>2. g[0] = <<>> BY <1>1 DEF Filters
  <2> HIDE DEF Upto
  <2> QED BY <2>1, <2>2, CountEmpty, FS_EmptySet
<1>3. ASSUME NEW n \in Nat, n \in Good PROVE n + 1 \in Good
  <2> HIDE DEF Upto
  <2> SUFFICES ASSUME n + 1 \in 0 .. Len(s)
               PROVE  Count(f, g[n + 1]) = IF f \in S THEN Cardinality(Upto(n + 1)) ELSE 0
    OBVIOUS
  <2>1. /\ n \in 0 .. Len(s) /\ n + 1 \in 1 .. Len(s) /\ (n + 1) - 1 = n
        /\ s[n + 1] \in Fd /\ g[n] \in Seq(Fd)
    OBVIOUS
  <2>2. g[n + 1] = IF s[n + 1] \in S THEN Append(g[n], s[n + 1]) ELSE g[n]
    BY <1>1, <2>1 DEF Filters
  <2>3. Count(f, g[n]) = IF f \in S THEN Cardinality(Upto(n)) ELSE 0 BY <1>3, <2>1
  <2> HIDE DEF Good
  <2>4. Upto(n + 1) = IF s[n + 1] = f THEN Upto(n) \cup {n + 1} ELSE Upto(n) BY DEF Upto
  <2>5. IsFiniteSet(Upto(n)) /\ n + 1 \notin Upto(n)
    <3>1. IsFiniteSet(1 .. n) BY FS_Interval
    <3>2. Upto(n) \in SUBSET (1 .. n) /\ n + 1 \notin Upto(n) BY DEF Upto
    <3> QED BY <3>1, <3>2, FS_Subset
  <2>6. Cardinality(Upto(n)) \in Nat BY <2>5, FS_CardinalityType
  <2>7. Cardinality(Upto(n + 1)) = Cardinality(Upto(n)) + IF s[n + 1] = f THEN 1 ELSE 0
    <3>1. Cardinality(Upto(n) \cup {n + 1}) = Cardinality(Upto(n)) + 1
      BY <2>5, FS_AddElement
    <3> QED BY <2>4, <2>6, <3>1
  <2>8. Count(f, Append(g[n], s[n + 1])) = Count(f, g[n]) + IF s[n + 1] = f THEN 1 ELSE 0
    BY <2>1, CountAppend
  <2> QED BY <2>2, <2>3, <2>6, <2>7, <2>8
<1> HIDE DEF Good
<1>4. \A n \in Nat : n \in Good BY <1>2, <1>3, SetInduction
<1>5. Upto(Len(s)) = {i \in DOMAIN s : s[i] = f} BY LenProperties
<1>6. Count(f, g[Len(s)]) = IF f \in S THEN Cardinality(Upto(Len(s))) ELSE 0
  <2>1. Len(s) \in Good BY <1>4, LenProperties
  <2> QED BY <2>1 DEF Good
<1> HIDE DEF Upto
<1> QED BY <1>1, <1>5, <1>6, SMTT(60) DEF Count
-----------------------------------------------------------------------------
(* Each connection has one holder.                                         *)

Serving(f) == {w \in Worker : fd[w] = f}

Busy(f) == Cardinality(Serving(f))

Placed(f) ==
  Count(f, backlog) + Count(f, fds) + Count(f, scan) + Count(f, Contents)
    + Busy(f) + In(f, closed) + In(f, dropped) = In(f, opened)

\* A connection one holder gives up has been taken by another one: in each step
\* the changes of the counts cancel out.
LEMMA HolderStep ==
  ASSUME TypeOK, TypeOK', Inv, Inv', [Next]_vars, NEW f \in Fd, Placed(f)
  PROVE  Placed(f)'
<1>1. /\ backlog \in Seq(Fd) /\ fds \in Seq(Fd) /\ scan \in Seq(Fd) /\ Contents \in Seq(Fd)
      /\ backlog' \in Seq(Fd) /\ fds' \in Seq(Fd) /\ scan' \in Seq(Fd)
  BY ContentsType DEF TypeOK, Inv
<1>2. /\ Count(f, backlog) \in Nat /\ Count(f, fds) \in Nat /\ Count(f, scan) \in Nat
      /\ Count(f, Contents) \in Nat
  BY <1>1, CountType
<1>3. /\ IsFiniteSet(Serving(f)) /\ Busy(f) \in Nat /\ (Busy(f) = 0 <=> Serving(f) = {})
  <2>1. Serving(f) \in SUBSET Worker BY DEF Serving
  <2>2. IsFiniteSet(Serving(f)) BY <2>1, PoolAssumption, FS_Subset
  <2> QED BY <2>2, FS_CardinalityType, FS_EmptySet DEF Busy
<1>4. /\ In(f, closed) \in {0, 1} /\ In(f, dropped) \in {0, 1} /\ In(f, opened) \in {0, 1}
      /\ In(f, closed) = 1 <=> f \in closed
      /\ In(f, closed') = IF f \in closed' THEN 1 ELSE 0
  BY DEF In
<1>5. \/ PollReturns \/ PushTest \/ PushLink \/ ScanDone
      \/ \E w \in Worker : PopTest(w) \/ Handle(w)
      \/ \E x \in Fd : Connect(x)
      \/ UNCHANGED <<listVars, opened, backlog, fds, scan, fd, closed, dropped>>
  BY DEF Next, OwnerStep, ListenerStep, WorkerStep, StartListener, StartWorkers,
      StopListening, WriteEventFd, StopRunning, SetStop, NotifyAll, JoinWorkers,
        JoinListener, ListenerBegins, PollTimesOut, WorkerLoop, Block, SpuriousWakeup, Write,
          vars, connVars, clientVars
<1>6. UNCHANGED listVars => Contents' = Contents BY ListUnchanged
<1>7. CASE PollReturns
  <2>1. PICK k \in 0 .. Len(backlog) :
          /\ fds' = Among(fds, Fd \ readable) \o SubSeq(backlog, 1, k)
          /\ backlog' = SubSeq(backlog, k + 1, Len(backlog))
    BY <1>7 DEF PollReturns
  <2>2. Contents' = Contents /\ UNCHANGED <<opened, fd, closed, dropped>>
    BY <1>6, <1>7 DEF PollReturns, clientVars
  <2>3. scan' = Among(fds, readable) /\ scan = <<>>
    BY <1>7 DEF PollReturns, Inv, ScanInv
  <2>4. /\ SubSeq(backlog, 1, k) \in Seq(Fd)
        /\ Count(f, backlog) = Count(f, SubSeq(backlog, 1, k)) + Count(f, backlog')
    BY <1>1, <2>1, CountCut
  <2>5. Among(fds, Fd \ readable) \in Seq(Fd) BY <1>1, AmongType
  <2>6. Count(f, fds') = Count(f, Among(fds, Fd \ readable)) + Count(f, SubSeq(backlog, 1, k))
    BY <2>1, <2>4, <2>5, CountConcat
  <2>7. Count(f, Among(fds, Fd \ readable)) = IF f \in readable THEN 0 ELSE Count(f, fds)
    BY <1>1, CountAmong
  <2>8. Count(f, scan') = IF f \in readable THEN Count(f, fds) ELSE 0
    BY <1>1, <2>3, CountAmong
  <2>9. Count(f, scan) = 0 BY <2>3, CountEmpty
  <2>10. Count(f, SubSeq(backlog, 1, k)) \in Nat /\ Count(f, backlog') \in Nat
    BY <1>1, <2>4, CountType
  <2>11. Count(f, backlog') + Count(f, fds') + Count(f, scan')
           = Count(f, backlog) + Count(f, fds) + Count(f, scan)
    BY <1>2, <2>4, <2>6, <2>7, <2>8, <2>9, <2>10
  <2> QED BY <2>2, <2>11 DEF Placed, Busy, Serving
<1>8. CASE PushTest
  <2>1. scan # <<>> /\ Contents' = Contents /\ UNCHANGED <<opened, backlog, fds, fd, closed>>
    BY <1>6, <1>8 DEF PushTest, clientVars
  <2>2. CASE stop
    <3>1. dropped' = dropped \cup {Head(scan)} /\ scan' = Tail(scan)
      BY <1>8, <2>2 DEF PushTest
    <3>2. Count(f, scan) = Count(f, scan') + IF Head(scan) = f THEN 1 ELSE 0
      BY <1>1, <2>1, <3>1, CountTail
    <3>3. Count(f, scan') \in Nat BY <1>1, CountType
    <3>4. In(f, dropped') = IF Head(scan) = f THEN 1 ELSE In(f, dropped)
      BY <3>1 DEF In
    <3>5. Count(f, scan') + In(f, dropped') = Count(f, scan) + In(f, dropped)
      BY <1>2, <1>3, <1>4, <3>2, <3>3, <3>4 DEF Placed
    <3>6. /\ Count(f, backlog') = Count(f, backlog) /\ Count(f, fds') = Count(f, fds)
          /\ Count(f, Contents') = Count(f, Contents) /\ Busy(f)' = Busy(f)
          /\ In(f, closed') = In(f, closed) /\ In(f, opened') = In(f, opened)
      BY <2>1 DEF Busy, Serving
    <3>7. In(f, dropped') \in {0, 1} BY DEF In
    <3> QED BY <1>2, <1>3, <1>4, <3>3, <3>5, <3>6, <3>7 DEF Placed
  <2>3. CASE ~stop
    <3>1. UNCHANGED <<scan, dropped>> BY <1>8, <2>3 DEF PushTest
    <3> QED BY <2>1, <3>1 DEF Placed, Busy, Serving
  <2> QED BY <2>2, <2>3
<1>9. CASE PushLink
  <2>1. /\ scan # <<>> /\ Head(scan) \in Fd /\ Contents' = Append(Contents, Head(scan))
        /\ scan' = Tail(scan) /\ UNCHANGED <<opened, backlog, fds, fd, closed, dropped>>
    BY <1>9, PushEffect DEF PushLink, clientVars
  <2>2. Count(f, scan) = Count(f, scan') + IF Head(scan) = f THEN 1 ELSE 0
    BY <1>1, <2>1, CountTail
  <2>3. Count(f, Contents') = Count(f, Contents) + IF Head(scan) = f THEN 1 ELSE 0
    BY <1>1, <2>1, CountAppend
  <2>4. Count(f, scan') \in Nat BY <1>1, CountType
  <2>5. Count(f, scan') + Count(f, Contents') = Count(f, scan) + Count(f, Contents)
    BY <1>2, <2>2, <2>3, <2>4
  <2>6. Count(f, Contents') \in Nat BY <1>2, <2>3
  <2>7. Busy(f)' = Busy(f) BY <2>1 DEF Busy, Serving
  <2>8. /\ Count(f, backlog') = Count(f, backlog) /\ Count(f, fds') = Count(f, fds)
        /\ In(f, closed') = In(f, closed) /\ In(f, dropped') = In(f, dropped)
        /\ In(f, opened') = In(f, opened)
    BY <2>1
  <2> QED BY <1>2, <1>3, <1>4, <2>4, <2>5, <2>6, <2>7, <2>8 DEF Placed
<1>10. CASE ScanDone
  <2>1. Contents' = Contents /\ UNCHANGED <<opened, scan, fd, dropped>>
    BY <1>6, <1>10 DEF ScanDone, clientVars
  <2>2. CASE listening
    <3>1. UNCHANGED <<fds, closed, backlog>> BY <1>10, <2>2 DEF ScanDone
    <3> QED BY <2>1, <3>1 DEF Placed, Busy, Serving
  <2>3. CASE ~listening
    <3>1. /\ closed' = closed \cup Elements(fds) \cup Elements(backlog)
          /\ fds' = <<>> /\ backlog' = <<>>
      BY <1>10, <2>3 DEF ScanDone
    <3>2. Count(f, fds') = 0 /\ Count(f, backlog') = 0 BY <3>1, CountEmpty
    <3>3. /\ f \in Elements(fds) <=> Count(f, fds) # 0
          /\ f \in Elements(backlog) <=> Count(f, backlog) # 0
      BY <1>1, CountType
    <3>4. In(f, closed') = In(f, closed) + Count(f, fds) + Count(f, backlog)
      <4>1. Count(f, fds) + Count(f, backlog) + In(f, closed) <= 1
        BY <1>2, <1>3, <1>4 DEF Placed
      <4>2. f \in closed' <=> (In(f, closed) = 1 \/ Count(f, fds) # 0 \/ Count(f, backlog) # 0)
        BY <1>4, <3>1, <3>3
      <4> QED BY <1>2, <1>4, <4>1, <4>2
    <3> QED BY <1>2, <1>3, <1>4, <2>1, <3>2, <3>4 DEF Placed, Busy, Serving
  <2> QED BY <2>2, <2>3
<1>11. ASSUME NEW w \in Worker, PopTest(w) PROVE Placed(f)'
  <2>1. UNCHANGED <<opened, backlog, fds, scan, closed, dropped>>
    BY <1>11 DEF PopTest, clientVars
  <2>2. CASE /\ Contents # <<>> /\ Head(Contents) \in Fd
             /\ fd' = [fd EXCEPT ![w] = Head(Contents)]
             /\ Contents' = Tail(Contents)
    <3>1. fd[w] = Null /\ f # Null BY <1>11, PoolAssumption DEF PopTest, Inv, WorkerInv
    <3>2. /\ w \notin Serving(f)
          /\ Serving(f)' = IF Head(Contents) = f THEN Serving(f) \cup {w} ELSE Serving(f)
      BY <2>2, <3>1 DEF Serving, TypeOK
    <3>3. Busy(f)' = Busy(f) + IF Head(Contents) = f THEN 1 ELSE 0
      <4>1. Cardinality(Serving(f) \cup {w}) = Cardinality(Serving(f)) + 1
        BY <1>3, <3>2, FS_AddElement
      <4> QED BY <1>3, <3>2, <4>1 DEF Busy
    <3>4. Count(f, Contents) = Count(f, Contents') + IF Head(Contents) = f THEN 1 ELSE 0
      BY <1>1, <2>2, CountTail
    <3>5. Count(f, Contents') \in Nat BY <1>1, <2>2, HeadTailProperties, CountType
    <3>6. Count(f, Contents') + Busy(f)' = Count(f, Contents) + Busy(f)
      BY <1>2, <1>3, <3>3, <3>4, <3>5
    <3>7. Busy(f)' \in Nat BY <1>3, <3>3
    <3> QED BY <1>2, <1>3, <1>4, <2>1, <3>5, <3>6, <3>7 DEF Placed
  <2>3. CASE UNCHANGED <<Contents, fd>>
    BY <2>1, <2>3 DEF Placed, Busy, Serving
  <2> QED BY <1>11, <2>2, <2>3, PopEffect
<1>12. ASSUME NEW w \in Worker, Handle(w) PROVE Placed(f)'
  <2>1. Contents' = Contents /\ UNCHANGED <<opened, backlog, fds, scan, dropped>>
    BY <1>6, <1>12 DEF Handle, clientVars
  <2>2. closed' = closed \cup {fd[w]} /\ fd' = [fd EXCEPT ![w] = Null] /\ f # Null
    BY <1>12, PoolAssumption DEF Handle
  <2>3. CASE fd[w] = f
    <3>1. w \in Serving(f) /\ Serving(f)' = Serving(f) \ {w}
      BY <2>2, <2>3 DEF Serving, TypeOK
    <3>2. Busy(f)' = Busy(f) - 1 /\ Busy(f) # 0
      BY <1>3, <3>1, FS_RemoveElement DEF Busy
    <3>3. In(f, closed) = 0
      <4>1. Busy(f) >= 1 BY <1>3, <3>2
      <4> QED BY <1>2, <1>3, <1>4, <4>1 DEF Placed
    <3>4. In(f, closed') = 1 BY <2>2, <2>3 DEF In
    <3> QED BY <1>2, <1>3, <1>4, <2>1, <3>2, <3>3, <3>4 DEF Placed
  <2>4. CASE fd[w] # f
    <3>1. Serving(f)' = Serving(f) BY <2>2, <2>4 DEF Serving, TypeOK
    <3>2. In(f, closed') = In(f, closed) BY <2>2, <2>4 DEF In
    <3> QED BY <2>1, <3>1, <3>2 DEF Placed, Busy
  <2> QED BY <2>3, <2>4
<1>13. ASSUME NEW x \in Fd, Connect(x) PROVE Placed(f)'
  <2>1. /\ Contents' = Contents /\ UNCHANGED <<fds, scan, fd, closed, dropped>>
        /\ x \notin opened /\ opened' = opened \cup {x} /\ backlog' = Append(backlog, x)
    BY <1>6, <1>13 DEF Connect
  <2>2. Count(f, backlog') = Count(f, backlog) + IF x = f THEN 1 ELSE 0
    BY <1>1, <2>1, CountAppend
  <2>3. In(f, opened') = In(f, opened) + IF x = f THEN 1 ELSE 0 BY <2>1 DEF In
  <2>4. (Count(f, backlog) + Count(f, fds) + Count(f, scan) + Count(f, Contents)
           + Busy(f) + In(f, closed) + In(f, dropped) = In(f, opened)) BY DEF Placed
  <2>5. Busy(f)' = Busy(f) BY <2>1 DEF Busy, Serving
  <2> QED BY <1>2, <1>3, <1>4, <2>1, <2>2, <2>3, <2>4, <2>5 DEF Placed
<1>14. CASE UNCHANGED <<listVars, opened, backlog, fds, scan, fd, closed, dropped>>
  BY <1>6, <1>14 DEF Placed, Busy, Serving
<1> QED BY <1>5, <1>7, <1>8, <1>9, <1>10, <1>11, <1>12, <1>13, <1>14

\* No connection is lost or served twice: each one a client opened is in exactly
\* one place, from the kernel's backlog to the end of the worker that handled it.
THEOREM OnePlaceEach == Spec => []OneHolder
<1> DEFINE All == \A f \in Fd : Placed(f)
<1>1. Init => All
  <2> SUFFICES ASSUME Init, NEW f \in Fd PROVE Placed(f) OBVIOUS
  <2>1. TypeOK BY EmptySeq DEF Init, TypeOK
  <2>2. <<>> \in Seq(Cell) /\ Linked(<<>>) BY EmptySeq DEF Init, Linked, Along
  <2>3. ListInv BY <2>2 DEF ListInv
  <2>4. Contents = <<>> BY <2>1, <2>3, ContentsType DEF Init
  <2>5. Busy(f) = 0
    <3>1. Serving(f) = {} BY PoolAssumption DEF Init, Serving
    <3> QED BY <3>1, FS_EmptySet DEF Busy
  <2>6. /\ Count(f, backlog) = 0 /\ Count(f, fds) = 0 /\ Count(f, scan) = 0
        /\ Count(f, Contents) = 0
    BY <2>4, CountEmpty DEF Init
  <2> QED BY <2>5, <2>6 DEF Init, Placed, In
<1>2. TypeOK /\ Inv /\ (TypeOK /\ Inv)' /\ All /\ [Next]_vars => All'
  BY HolderStep
<1>3. All => OneHolder BY DEF OneHolder, Placed, Count, In, Busy, Serving
<1> HIDE DEF All
<1> QED BY <1>1, <1>2, <1>3, Invariance, PTL DEF Spec
=============================================================================
