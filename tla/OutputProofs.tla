------------------------------ MODULE OutputProofs ------------------------------
(* Proofs about what the modules of the history records share: the division of *)
(* an axis over ranks, which is a partition for every extent and every number  *)
(* of ranks, and the output clock, for every cadence.                         *)
EXTENDS OutputClock, Slab, TLAPS

---------------------------------------------------------------------------------
(* The division of an axis.                                                  *)

(* What the divisions of both functions give.                               *)
LEMMA QuotientRemainder ==
  ASSUME NEW n \in Nat, NEW p \in Nat \ {0}
  PROVE  /\ n \div p \in Nat
         /\ n % p \in Nat
         /\ n % p < p
         /\ n = p * (n \div p) + (n % p)
BY Z3

(* Multiplication by a count is distributive, stated for the solvers.        *)
LEMMA OneMore ==
  ASSUME NEW r \in Nat, NEW q \in Nat
  PROVE  /\ r * q \in Nat
         /\ (r + 1) * q = r * q + q
         /\ r * (q + 1) = r * q + r
         /\ (r + 1) * (q + 1) = r * q + q + r + 1
BY Z3

(* A product with a larger factor is at least as large, and the other way.    *)
LEMMA ProductAscends ==
  ASSUME NEW a \in Nat, NEW b \in Nat, NEW q \in Nat
  PROVE  /\ a <= b => a * q <= b * q
         /\ a * q < b * q => a < b
         /\ a + 1 <= b => (a + 1) * q <= b * q
BY Z3

(* The quotient of a division lies between two multiples of the divisor.      *)
LEMMA QuotientBounds ==
  ASSUME NEW a \in Nat, NEW d \in Nat \ {0}
  PROVE  /\ a \div d \in Nat
         /\ (a \div d) * d <= a
         /\ a < (a \div d + 1) * d
BY Z3

(* The slab of a rank ends where that of the next rank begins.               *)
LEMMA SlabsAdjoin ==
  ASSUME NEW n \in Nat, NEW p \in Nat \ {0}, NEW r \in 0..p - 1
  PROVE  LocalStart(n, p, r) + LocalCount(n, p, r) = LocalStart(n, p, r + 1)
<1> DEFINE q == n \div p
           m == n % p
<1>1. q \in Nat /\ m \in Nat /\ r \in Nat
  BY QuotientRemainder
<1>2. /\ LocalStart(n, p, r) = IF r < m THEN r * (q + 1) ELSE r * q + m
      /\ LocalStart(n, p, r + 1) = IF r + 1 < m THEN (r + 1) * (q + 1) ELSE (r + 1) * q + m
      /\ LocalCount(n, p, r) = IF r < m THEN q + 1 ELSE q
  BY DEF LocalStart, LocalCount
<1> HIDE DEF q, m
<1> QED
  BY <1>1, <1>2, OneMore

(* The first slab begins at cell 0, and one past the last ends the axis.     *)
LEMMA SlabEnds ==
  ASSUME NEW n \in Nat, NEW p \in Nat \ {0}
  PROVE  LocalStart(n, p, 0) = 0 /\ LocalStart(n, p, p) = n
<1>1. LocalStart(n, p, 0) = 0
  BY QuotientRemainder, Z3 DEF LocalStart
<1>2. LocalStart(n, p, p) = p * (n \div p) + (n % p)
  BY QuotientRemainder DEF LocalStart
<1> QED
  BY <1>1, <1>2, QuotientRemainder

(* Slabs lie in the order of the ranks.                                     *)
LEMMA SlabsAscend ==
  ASSUME NEW n \in Nat, NEW p \in Nat \ {0}, NEW r \in 0..p, NEW s \in 0..p, r <= s
  PROVE  /\ LocalStart(n, p, r) \in Nat
         /\ LocalStart(n, p, r) <= LocalStart(n, p, s)
<1> DEFINE q == n \div p
           m == n % p
<1>1. q \in Nat /\ m \in Nat /\ r \in Nat /\ s \in Nat
  BY QuotientRemainder
<1>2. /\ LocalStart(n, p, r) = IF r < m THEN r * (q + 1) ELSE r * q + m
      /\ LocalStart(n, p, s) = IF s < m THEN s * (q + 1) ELSE s * q + m
  BY DEF LocalStart
<1> HIDE DEF q, m
<1>3. /\ r * q \in Nat /\ s * q \in Nat /\ r * q <= s * q
      /\ r * (q + 1) = r * q + r /\ s * (q + 1) = s * q + s
  BY <1>1, OneMore, ProductAscends
<1> QED
  BY <1>1, <1>2, <1>3

(* get_local_range: the rows of two I/O server ranks never overlap, so no     *)
(* row of a relayed file is put twice.                                      *)
THEOREM SlabsDisjoint ==
  ASSUME NEW n \in Nat, NEW p \in Nat \ {0}, NEW r \in 0..p - 1, NEW s \in 0..p - 1, r # s
  PROVE  LocalRange(n, p, r) \cap LocalRange(n, p, s) = {}
<1>1. ASSUME NEW a \in 0..p - 1, NEW b \in 0..p - 1, a < b
      PROVE  LocalRange(n, p, a) \cap LocalRange(n, p, b) = {}
  <2>1. /\ LocalStart(n, p, a) + LocalCount(n, p, a) = LocalStart(n, p, a + 1)
        /\ a + 1 \in 0..p /\ b \in 0..p /\ a \in 0..p /\ a + 1 <= b
    BY <1>1, SlabsAdjoin
  <2>2. LocalStart(n, p, a + 1) <= LocalStart(n, p, b)
    BY <2>1, SlabsAscend
  <2>3. /\ LocalStart(n, p, a) \in Nat /\ LocalStart(n, p, b) \in Nat
        /\ LocalStart(n, p, a + 1) \in Nat
    BY <2>1, SlabsAscend
  <2>4. LocalCount(n, p, a) \in Nat /\ LocalCount(n, p, b) \in Nat
    BY QuotientRemainder DEF LocalCount
  <2> QED
    BY <2>1, <2>2, <2>3, <2>4 DEF LocalRange
<1>2. r < s \/ s < r
  OBVIOUS
<1> QED
  BY <1>1, <1>2

(* get_local_range: every row of the axis belongs to some I/O server rank,   *)
(* and no rank puts a row the axis does not have.                           *)
THEOREM SlabsCover ==
  ASSUME NEW n \in Nat, NEW p \in Nat \ {0}
  PROVE  UNION {LocalRange(n, p, r) : r \in 0..p - 1} = 0..n - 1
<1> DEFINE q == n \div p
           m == n % p
<1>1. q \in Nat /\ m \in Nat /\ m < p /\ n = p * q + m
  BY QuotientRemainder
<1>2. ASSUME NEW r \in 0..p - 1, NEW x \in LocalRange(n, p, r)
      PROVE  x \in 0..n - 1
  <2>1. /\ LocalStart(n, p, r) + LocalCount(n, p, r) = LocalStart(n, p, r + 1)
        /\ r \in 0..p /\ r + 1 \in 0..p /\ p \in 0..p /\ r + 1 <= p
    BY SlabsAdjoin
  <2>2. /\ LocalStart(n, p, r) \in Nat /\ LocalStart(n, p, r + 1) \in Nat
        /\ LocalStart(n, p, r + 1) <= n
    BY <2>1, SlabsAscend, SlabEnds
  <2>3. LocalCount(n, p, r) \in Nat
    BY QuotientRemainder DEF LocalCount
  <2>4. /\ LocalStart(n, p, r) <= x
        /\ x <= LocalStart(n, p, r) + LocalCount(n, p, r) - 1
        /\ x \in Int
    BY <1>2, <2>2, <2>3 DEF LocalRange
  <2> QED
    BY <2>1, <2>2, <2>3, <2>4
<1>3. ASSUME NEW x \in 0..n - 1
      PROVE  \E r \in 0..p - 1 : x \in LocalRange(n, p, r)
  <2>1. CASE x < m * (q + 1)
    <3> DEFINE r == x \div (q + 1)
    <3>1. /\ r \in Nat /\ r * (q + 1) <= x /\ x < (r + 1) * (q + 1)
      <4>1. q + 1 \in Nat \ {0} /\ x \in Nat
        BY <1>1
      <4> HIDE DEF q, m
      <4> QED
        BY <4>1, QuotientBounds
    <3>2. r < m
      <4> HIDE DEF q, m, r
      <4> QED
        BY <1>1, <2>1, <3>1, ProductAscends
    <3>3. /\ r \in 0..p - 1
          /\ LocalStart(n, p, r) = r * (q + 1)
          /\ LocalCount(n, p, r) = q + 1
      BY <1>1, <3>1, <3>2 DEF LocalStart, LocalCount
    <3>4. r * (q + 1) <= x /\ x < r * (q + 1) + (q + 1)
      <4> HIDE DEF q, m, r
      <4> QED
        BY <1>1, <3>1, OneMore
    <3>5. x \in LocalRange(n, p, r)
      <4> HIDE DEF q, m, r
      <4>1. r * (q + 1) \in Nat
        BY <1>1, <3>1, OneMore
      <4> QED
        BY <1>1, <3>3, <3>4, <4>1 DEF LocalRange
    <3> QED
      BY <3>3, <3>5
  <2>2. CASE m * (q + 1) <= x
    <3> DEFINE y == x - m
               r == y \div q
    <3>1. q # 0 /\ y \in Nat /\ m * q <= y /\ y < p * q
      <4> HIDE DEF q, m
      <4>1. m * (q + 1) = m * q + m /\ m * q \in Nat /\ p * q \in Nat
        BY <1>1, OneMore
      <4>2. q # 0
        BY <1>1, <2>2, <4>1
      <4> QED
        BY <1>1, <2>2, <4>1, <4>2
    <3>2. /\ r \in Nat /\ r * q <= y /\ y < (r + 1) * q
      <4> HIDE DEF q, y
      <4> QED
        BY <1>1, <3>1, QuotientBounds
    <3>3. m <= r /\ r < p
      <4> HIDE DEF q, m, r, y
      <4> QED
        BY <1>1, <3>1, <3>2, ProductAscends
    <3>4. /\ LocalStart(n, p, r) = r * q + m
          /\ LocalCount(n, p, r) = q
      <4>1. ~ (r < m)
        <5> HIDE DEF q, m, r
        <5> QED
          BY <1>1, <3>2, <3>3
      <4> QED
        BY <4>1 DEF LocalStart, LocalCount
    <3>5. x \in LocalRange(n, p, r)
      <4> HIDE DEF q, m, r
      <4>1. r * q \in Nat /\ (r + 1) * q = r * q + q
        BY <1>1, <3>2, OneMore
      <4> QED
        BY <1>1, <3>2, <3>4, <4>1 DEF LocalRange
    <3>6. r \in 0..p - 1
      <4> HIDE DEF q, m, r
      <4> QED
        BY <1>1, <3>2, <3>3
    <3> QED
      BY <3>5, <3>6
  <2> QED
    BY <1>1, <2>1, <2>2
<1> QED
  BY <1>2, <1>3

(* Grid.cpp and IOServer.cpp divide an axis alike.                           *)
THEOREM GridAgrees ==
  ASSUME NEW n \in Nat, NEW p \in Nat \ {0}, NEW r \in 0..p - 1
  PROVE  GridRange(n, p, r) = LocalRange(n, p, r)
<1>1. n \div p \in Nat /\ n % p \in Nat /\ r \in Nat
  BY QuotientRemainder
<1>2. GridCount(n, p, r) = LocalCount(n, p, r)
  BY <1>1 DEF GridCount, LocalCount
<1>3. GridStart(n, p, r) = LocalStart(n, p, r)
  BY <1>1, OneMore DEF GridStart, LocalStart, MinOf
<1> QED
  BY <1>2, <1>3 DEF GridRange, LocalRange

(* The cells of a block, without their place in memory.                       *)
Block(s) == s.start..s.start + s.count - 1

(* intersect_axis: the block is what the slab and the window share.          *)
LEMMA BlockIsShared ==
  ASSUME NEW rs \in Nat, NEW rc \in Nat, NEW lo \in Nat, NEW hi \in Nat, NEW halo \in Nat
  PROVE  Block(IntersectAxis(rs, rc, lo, hi, halo)) = (rs..rs + rc - 1) \cap (lo..hi)
<1> DEFINE s == IntersectAxis(rs, rc, lo, hi, halo)
           first == MaxOf(rs, lo)
           last == MinOf(rs + rc - 1, hi)
<1>1. /\ first \in Nat /\ first >= rs /\ first >= lo /\ first \in {rs, lo}
      /\ last \in Int /\ last <= rs + rc - 1 /\ last <= hi /\ last \in {rs + rc - 1, hi}
  BY DEF MaxOf, MinOf
<1>2. CASE rc = 0 \/ last < first
  <2>1. s.start = 0 /\ s.count = 0
    BY <1>2 DEF IntersectAxis, NoIntersection
  <2>2. (rs..rs + rc - 1) \cap (lo..hi) = {}
    <3> HIDE DEF first, last
    <3> QED
      BY <1>1, <1>2
  <2> QED
    BY <2>1, <2>2 DEF Block
<1>3. CASE rc # 0 /\ first <= last
  <2>1. s = [start |-> first, count |-> last - first + 1, memory_start |-> first - rs + halo]
    <3>1. ~(rc = 0 \/ last < first)
      BY <1>1, <1>3
    <3> QED
      BY <3>1 DEF IntersectAxis
  <2> HIDE DEF s, first, last
  <2>2. s.start..s.start + s.count - 1 = first..last
    BY <1>1, <2>1
  <2>3. first..last = (rs..rs + rc - 1) \cap (lo..hi)
    BY <1>1
  <2> QED
    BY <2>2, <2>3 DEF Block, s
<1> QED
  BY <1>1, <1>2, <1>3

(* Each of its cells is read from its own place behind the halo cells.        *)
LEMMA BlockInMemory ==
  ASSUME NEW rs \in Nat, NEW rc \in Nat, NEW lo \in Nat, NEW hi \in Nat, NEW halo \in Nat,
         NEW x \in Block(IntersectAxis(rs, rc, lo, hi, halo))
  PROVE  LET s == IntersectAxis(rs, rc, lo, hi, halo)
         IN  s.memory_start + x - s.start = halo + x - rs
<1> DEFINE s == IntersectAxis(rs, rc, lo, hi, halo)
           first == MaxOf(rs, lo)
           last == MinOf(rs + rc - 1, hi)
<1>1. CASE rc = 0 \/ last < first
  <2>1. s.start = 0 /\ s.count = 0
    BY <1>1 DEF IntersectAxis, NoIntersection
  <2> QED
    BY <2>1 DEF Block
<1>2. CASE ~(rc = 0 \/ last < first)
  <2>1. s = [start |-> first, count |-> last - first + 1, memory_start |-> first - rs + halo]
    BY <1>2 DEF IntersectAxis
  <2>2. first \in Nat
    BY DEF MaxOf
  <2>3. x \in Int
    BY DEF Block
  <2> HIDE DEF s, first, last
  <2>4. s.start = first /\ s.memory_start = first - rs + halo
    BY <2>1
  <2>5. s.memory_start + x - s.start = halo + x - rs
    BY <2>2, <2>3, <2>4
  <2> QED
    BY <2>5 DEF s
<1> QED
  BY <1>1, <1>2

(* An accepted window is divided among the ranks: each of its cells is in the  *)
(* block of one rank, and no block has a cell outside it.                     *)
THEOREM WindowDivided ==
  ASSUME NEW n \in Nat \ {0}, NEW p \in Nat \ {0}, NEW lo \in Int, NEW hi \in Int,
         NEW halo \in Nat, WindowAccepted(n, lo, hi), NEW x \in 0..n - 1
  PROVE  LET block(r) == Block(IntersectAxis(GridStart(n, p, r), GridCount(n, p, r),
                                             lo, WindowEnd(n, hi), halo))
         IN  /\ x \in lo..WindowEnd(n, hi) <=> \E r \in 0..p - 1 : x \in block(r)
             /\ \A r, q \in 0..p - 1 : x \in block(r) /\ x \in block(q) => r = q
<1> DEFINE e == WindowEnd(n, hi)
           block(r) == Block(IntersectAxis(GridStart(n, p, r), GridCount(n, p, r), lo, e, halo))
<1>1. lo \in Nat /\ e \in Nat
  BY DEF WindowAccepted, WindowEnd
<1> HIDE DEF e
<1>2. ASSUME NEW r \in 0..p - 1 PROVE block(r) = LocalRange(n, p, r) \cap (lo..e)
  <2>1. GridStart(n, p, r) = LocalStart(n, p, r) /\ GridCount(n, p, r) = LocalCount(n, p, r)
    <3>1. n \div p \in Nat /\ n % p \in Nat /\ r \in Nat
      BY QuotientRemainder
    <3>2. r \in 0..p - 1 /\ n \in Nat
      OBVIOUS
    <3>3. GridCount(n, p, r) = LocalCount(n, p, r)
      BY <3>1, <3>2 DEF GridCount, LocalCount
    <3>4. GridStart(n, p, r) = LocalStart(n, p, r)
      BY <3>1, <3>2, OneMore DEF GridStart, LocalStart, MinOf
    <3> QED
      BY <3>3, <3>4
  <2>2. LocalStart(n, p, r) \in Nat /\ LocalCount(n, p, r) \in Nat
    <3>1. n \in Nat /\ r \in 0..p
      OBVIOUS
    <3>2. LocalStart(n, p, r) \in Nat
      BY <3>1, SlabsAscend
    <3>3. n \div p \in Nat
      BY <3>1, QuotientRemainder
    <3>4. LocalCount(n, p, r) \in Nat
      BY <3>3 DEF LocalCount
    <3> QED
      BY <3>2, <3>4
  <2> DEFINE a == LocalStart(n, p, r)
             c == LocalCount(n, p, r)
  <2>3. block(r) = Block(IntersectAxis(a, c, lo, e, halo))
    BY <2>1
  <2>4. a \in Nat /\ c \in Nat /\ LocalRange(n, p, r) = a..a + c - 1
    BY <2>2 DEF LocalRange
  <2> HIDE DEF block, a, c
  <2>5. Block(IntersectAxis(a, c, lo, e, halo)) = (a..a + c - 1) \cap (lo..e)
    BY <1>1, <2>4, BlockIsShared, SMTT(30)
  <2> QED
    BY <2>3, <2>4, <2>5
<1> HIDE DEF block
<1>3. \E r \in 0..p - 1 : x \in LocalRange(n, p, r)
  <2>1. UNION {LocalRange(n, p, r) : r \in 0..p - 1} = 0..n - 1
    BY SlabsCover
  <2> QED
    BY <2>1
<1>4. x \in lo..e <=> \E r \in 0..p - 1 : x \in block(r)
  BY <1>2, <1>3
<1>5. ASSUME NEW r \in 0..p - 1, NEW q \in 0..p - 1, x \in block(r), x \in block(q)
      PROVE  r = q
  BY <1>2, <1>5, SlabsDisjoint
<1> QED
  BY <1>4, <1>5 DEF block, e

---------------------------------------------------------------------------------
(* The output clock.                                                         *)

(* The clock starts well typed, whatever the cadence.                       *)
LEMMA TypeInitially == ClockInit => ClockTypeOK
<1> SUFFICES ASSUME ClockInit PROVE ClockTypeOK
  OBVIOUS
<1>1. /\ cfg.interval \in Nat \ {0}
      /\ cfg.start \in Nat
  BY ConfigsAssumption DEF ClockInit
<1>2. FirstDue(cfg) \in Nat
  BY <1>1 DEF FirstDue
<1> QED
  BY <1>1, <1>2 DEF ClockInit, ClockTypeOK

(* Every step of the loop keeps the types.                                  *)
LEMMA TypePreserved == ClockTypeOK /\ [ClockNext]_clockVars => ClockTypeOK'
<1> SUFFICES ASSUME ClockTypeOK, [ClockNext]_clockVars PROVE ClockTypeOK'
  OBVIOUS
<1>0. cfg.interval \in Nat /\ cfg.dt \in Nat
  BY ConfigsAssumption DEF ClockTypeOK
<1> USE DEF ClockTypeOK
<1>1. CASE BeginRun
  BY <1>1 DEF BeginRun
<1>2. CASE WriteInitial
  BY <1>2 DEF WriteInitial
<1>3. CASE Advance
  BY <1>0, <1>3 DEF Advance
<1>4. CASE WriteOutput
  BY <1>0, <1>4 DEF WriteOutput
<1>5. CASE CloseHistory
  BY <1>5 DEF CloseHistory
<1>6. CASE ClockTerminated \/ UNCHANGED clockVars
  BY <1>6 DEF ClockTerminated, clockVars
<1> QED
  BY <1>1, <1>2, <1>3, <1>4, <1>5, <1>6 DEF ClockNext

(* The types of the clock: main.cpp's loop keeps its variables in range.     *)
THEOREM ClockTypeCorrect == ClockSpec => []ClockTypeOK
BY TypeInitially, TypePreserved, PTL DEF ClockSpec

---------------------------------------------------------------------------------
(* The multiple after a smaller one is at most the larger one.               *)
LEMMA NextMultiple ==
  ASSUME NEW I \in Nat \ {0}, NEW x \in Int, NEW y \in Int, x < y
  PROVE  (x + 1) * I <= y * I
BY Z3

(* One interval more is the next multiple.                                  *)
LEMMA SuccessorMultiple ==
  ASSUME NEW I \in Nat, NEW k \in Nat, NEW x, NEW y, x = k * I, y = x + I
  PROVE  y = (k + 1) * I
BY Z3

(* The index of a time compared with a multiple of the interval.             *)
LEMMA IndexAgainstMultiple ==
  ASSUME NEW I \in Nat \ {0}, NEW a \in Nat, NEW k \in Nat
  PROVE  /\ a < k * I => a \div I < k
         /\ k * I <= a => k <= a \div I
<1>1. ASSUME a < k * I, k <= a \div I PROVE FALSE
  BY <1>1, QuotientBounds, NextMultiple
<1>2. ASSUME k * I <= a, a \div I < k PROVE FALSE
  BY <1>2, QuotientBounds, NextMultiple
<1> QED
  BY <1>1, <1>2, QuotientBounds

(* Times an interval apart have different indices.                          *)
LEMMA IndexApart ==
  ASSUME NEW I \in Nat \ {0}, NEW a \in Nat, NEW b \in Nat, a + I <= b
  PROVE  a \div I < b \div I
<1>1. (a \div I + 1) * I <= b
  BY QuotientBounds, Z3
<1>2. a \div I + 1 \in Nat
  BY QuotientBounds
<1> QED
  BY <1>1, <1>2, IndexAgainstMultiple, QuotientBounds

(* The strengthening: next_output_time is a multiple of the interval later    *)
(* than the start; with a step no longer than the interval the records so far *)
(* lie before it and the clock has not passed it, with a longer step the next *)
(* record lies a whole step after the last.                                  *)
Written == FirstLoopRecord..Len(log)
LogBegins ==
  /\ loop \in {"setup", "initial"} => log = <<>> /\ time < next
  /\ loop = "initial" => cfg.initial
  /\ loop \notin {"setup", "initial"} => Len(log) >= FirstLoopRecord - 1
NextIsMultiple ==
  /\ cfg.start < next
  /\ \E k \in Nat : next = k * cfg.interval
Due == loop = "output" => next <= time
ShortSteps ==
  cfg.dt <= cfg.interval =>
    /\ loop \in {"step", "closed"} => time < next
    /\ loop = "output" => time < next + cfg.interval
    /\ \A j \in Written : log[j] < next
LongSteps ==
  cfg.dt > cfg.interval =>
    \A j \in Written : log[j] + (IF loop = "output" THEN cfg.dt ELSE 0) <= time

ClockInv ==
  ClockTypeOK /\ LogBegins /\ NextIsMultiple /\ Due /\ ShortSteps /\ LongSteps
    /\ Hdf5FilesDistinct

(* A record written now gets a number larger than every earlier one.         *)
LEMMA NewIndexIsLarger ==
  ASSUME ClockInv, loop = "output"
  PROVE  /\ Hdf5Index(cfg, cfg.start) < Hdf5Index(cfg, time)
         /\ \A j \in Written : Hdf5Index(cfg, log[j]) < Hdf5Index(cfg, time)
<1> DEFINE I == cfg.interval
<1>1. /\ I \in Nat \ {0} /\ cfg.dt \in Nat \ {0} /\ cfg.start \in Nat
      /\ time \in Nat /\ next \in Nat /\ log \in Seq(Nat)
      /\ FirstLoopRecord \in {1, 2}
  BY ConfigsAssumption DEF ClockInv, ClockTypeOK, FirstLoopRecord
<1>2. PICK k \in Nat : next = k * I
  BY DEF ClockInv, NextIsMultiple
<1>3. k <= time \div I
  <2>1. k * I <= time
    BY <1>2 DEF ClockInv, Due
  <2> HIDE DEF I
  <2> QED
    BY <1>1, <2>1, IndexAgainstMultiple
<1>4. ASSUME NEW a \in Nat, a < next
      PROVE  a \div I < time \div I
  <2>1. a < k * I
    BY <1>2, <1>4
  <2> HIDE DEF I
  <2>2. a \div I < k
    BY <1>1, <2>1, IndexAgainstMultiple
  <2> QED
    BY <1>1, <1>3, <2>2, QuotientBounds
<1>5. Hdf5Index(cfg, cfg.start) < Hdf5Index(cfg, time)
  BY <1>1, <1>4 DEF ClockInv, NextIsMultiple, Hdf5Index
<1>6. ASSUME NEW j \in Written
      PROVE  Hdf5Index(cfg, log[j]) < Hdf5Index(cfg, time)
  <2>1. log[j] \in Nat
    BY <1>1, <1>6 DEF Written
  <2>2. CASE cfg.dt <= I
    <3>1. log[j] < next
      BY <1>6, <2>2 DEF ClockInv, ShortSteps
    <3> QED
      BY <1>4, <2>1, <3>1 DEF Hdf5Index
  <2>3. CASE cfg.dt > I
    <3>1. log[j] + I <= time
      BY <1>1, <1>6, <2>1, <2>3 DEF ClockInv, LongSteps
    <3> HIDE DEF I
    <3>2. log[j] \div I < time \div I
      BY <1>1, <2>1, <3>1, IndexApart
    <3> QED
      BY <3>2 DEF Hdf5Index, I
  <2> QED
    BY <1>1, <2>2, <2>3
<1> QED
  BY <1>5, <1>6

(* The first record after a start at time t is due after t.                  *)
LEMMA FirstDueIsLater ==
  ASSUME NEW c \in Configs
  PROVE  /\ FirstDue(c) \in Nat
         /\ c.start < FirstDue(c)
         /\ \E k \in Nat : FirstDue(c) = k * c.interval
<1>1. /\ c.interval \in Nat \ {0} /\ c.start \in Nat
  BY ConfigsAssumption
<1>2. CASE c.start = 0
  <2>1. FirstDue(c) = 1 * c.interval
    BY <1>1, <1>2 DEF FirstDue
  <2> QED
    BY <1>1, <1>2, <2>1
<1>3. CASE c.start # 0
  <2>1. c.start < (c.start \div c.interval + 1) * c.interval
    BY <1>1, QuotientBounds
  <2>2. c.start \div c.interval + 1 \in Nat
    BY <1>1, QuotientBounds
  <2>3. FirstDue(c) = (c.start \div c.interval + 1) * c.interval
    BY <1>3 DEF FirstDue
  <2>4. FirstDue(c) \in Nat
    BY <1>1, <2>2, <2>3, Z3
  <2> QED
    BY <2>1, <2>2, <2>3, <2>4
<1> QED
  BY <1>2, <1>3

(* The strengthening holds when the loop is set up.                         *)
LEMMA ClockInvInitially == ClockInit => ClockInv
<1> SUFFICES ASSUME ClockInit PROVE ClockInv
  OBVIOUS
<1>1. /\ cfg \in Configs /\ cfg.start \in Nat /\ FirstDue(cfg) \in Nat
      /\ cfg.start < FirstDue(cfg) /\ \E k \in Nat : FirstDue(cfg) = k * cfg.interval
  BY ConfigsAssumption, FirstDueIsLater DEF ClockInit
<1>2. ClockTypeOK
  BY <1>1 DEF ClockInit, ClockTypeOK
<1>3. Written = {}
  BY DEF ClockInit, Written, FirstLoopRecord
<1> QED
  BY <1>1, <1>2, <1>3
  DEF ClockInit, ClockInv, LogBegins, NextIsMultiple, Due, ShortSteps, LongSteps,
      Hdf5FilesDistinct, Written

(* Appending a record to the log leaves the earlier ones where they are.     *)
LEMMA RecordAppended ==
  ASSUME ClockInv, WriteOutput, NEW j \in Written'
  PROVE  \/ j \in Written /\ log'[j] = log[j]
         \/ j = Len(log) + 1 /\ log'[j] = time
<1>1. log \in Seq(Nat) /\ time \in Nat /\ log' = Append(log, time) /\ cfg' = cfg
  BY DEF ClockInv, ClockTypeOK, WriteOutput
<1>2. /\ Len(log') = Len(log) + 1
      /\ \A i \in 1..Len(log) : log'[i] = log[i]
      /\ log'[Len(log) + 1] = time
  BY <1>1
<1> QED
  BY <1>1, <1>2 DEF Written, FirstLoopRecord

(* Every step of the loop keeps the strengthening.                          *)
LEMMA ClockInvPreserved == ClockInv /\ ClockTypeOK' /\ [ClockNext]_clockVars => ClockInv'
<1> SUFFICES ASSUME ClockInv, ClockTypeOK', [ClockNext]_clockVars PROVE ClockInv'
  OBVIOUS
<1>0. /\ cfg.dt \in Nat \ {0} /\ cfg.interval \in Nat \ {0} /\ cfg.start \in Nat
      /\ time \in Nat /\ next \in Nat /\ log \in Seq(Nat) /\ Len(log) \in Nat
  BY ConfigsAssumption DEF ClockInv, ClockTypeOK
<1> USE DEF ClockInv
<1>1. CASE BeginRun
  <2>1. UNCHANGED <<cfg, time, next, log>> /\ log = <<>> /\ time < next
    BY <1>1 DEF BeginRun, LogBegins
  <2>2. Written = {} /\ Written' = {}
    BY <2>1 DEF Written, FirstLoopRecord
  <2>3. loop' \in {"initial", "step"} /\ (loop' = "initial" <=> cfg.initial)
    BY <1>1 DEF BeginRun
  <2> QED
    BY <2>1, <2>2, <2>3
    DEF LogBegins, NextIsMultiple, Due, ShortSteps, LongSteps, Hdf5FilesDistinct, Written,
        FirstLoopRecord
<1>2. CASE WriteInitial
  <2>1. UNCHANGED <<cfg, time, next>> /\ loop' = "step" /\ time < next /\ cfg.initial
    BY <1>2 DEF WriteInitial, LogBegins
  <2>2. Len(log') = 1
    BY <1>0, <1>2 DEF WriteInitial, LogBegins
  <2>3. Written' = {}
    BY <2>1, <2>2 DEF Written, FirstLoopRecord
  <2> QED
    BY <2>1, <2>2, <2>3
    DEF LogBegins, NextIsMultiple, Due, ShortSteps, LongSteps, Hdf5FilesDistinct, Written,
        FirstLoopRecord
<1>3. CASE Advance
  <2>1. /\ UNCHANGED <<cfg, next, log>> /\ Written' = Written
        /\ loop = "step" /\ time' = time + cfg.dt
        /\ loop' = IF time' >= next THEN "output" ELSE "step"
    BY <1>3 DEF Advance, Written, FirstLoopRecord
  <2>2. LogBegins' /\ NextIsMultiple' /\ Due' /\ Hdf5FilesDistinct'
    BY <1>0, <2>1 DEF LogBegins, NextIsMultiple, Due, Hdf5FilesDistinct, FirstLoopRecord
  <2>3. ShortSteps'
    BY <1>0, <2>1 DEF ShortSteps
  <2>4. LongSteps'
    <3> SUFFICES ASSUME cfg.dt > cfg.interval, NEW j \in Written
                 PROVE  log[j] + (IF loop' = "output" THEN cfg.dt ELSE 0) <= time + cfg.dt
      BY <2>1 DEF LongSteps
    <3>1. log[j] <= time /\ log[j] \in Nat
      BY <1>0, <2>1, SMTT(30) DEF LongSteps, Written, FirstLoopRecord
    <3> QED
      BY <1>0, <3>1
  <2> QED
    BY <2>2, <2>3, <2>4
<1>4. CASE WriteOutput
  <2>1. /\ cfg' = cfg /\ time' = time /\ next' = next + cfg.interval /\ loop' = "step"
        /\ loop = "output" /\ log' = Append(log, time) /\ Len(log') = Len(log) + 1
    BY <1>0, <1>4 DEF WriteOutput
  <2>2. ASSUME NEW j \in Written'
        PROVE  \/ j \in Written /\ log'[j] = log[j] /\ log[j] \in Nat
               \/ j = Len(log) + 1 /\ log'[j] = time
    BY <1>0, <1>4, <2>2, RecordAppended DEF Written, FirstLoopRecord
  <2>3. LogBegins' /\ Due'
    BY <1>0, <2>1 DEF LogBegins, Due, FirstLoopRecord
  <2>4. NextIsMultiple'
    <3>1. PICK k \in Nat : next = k * cfg.interval
      BY DEF NextIsMultiple
    <3>2. next' = (k + 1) * cfg.interval
      <4> DEFINE I == cfg.interval
      <4>1. I \in Nat /\ next = k * I /\ next' = next + I
        BY <1>0, <2>1, <3>1
      <4> HIDE DEF I
      <4>2. next' = (k + 1) * I
        BY <4>1, SuccessorMultiple
      <4> QED
        BY <4>2 DEF I
    <3>3. cfg.start < next'
      BY <1>0, <2>1, SMTT(30) DEF NextIsMultiple
    <3> QED
      BY <2>1, <3>2, <3>3 DEF NextIsMultiple
  <2>5. ShortSteps'
    <3>1. ASSUME cfg.dt <= cfg.interval
          PROVE  /\ time < next'
                 /\ \A j \in Written' : log'[j] < next'
      <4>1. time < next'
        BY <2>1, <3>1 DEF ShortSteps
      <4>2. ASSUME NEW j \in Written' PROVE log'[j] < next'
        <5>1. CASE j \in Written /\ log'[j] = log[j] /\ log[j] \in Nat
          <6>1. log[j] < next
            BY <3>1, <5>1 DEF ShortSteps
          <6> QED
            BY <1>0, <2>1, <5>1, <6>1
        <5>2. CASE j = Len(log) + 1 /\ log'[j] = time
          BY <4>1, <5>2
        <5> QED
          BY <2>2, <4>2, <5>1, <5>2
      <4> QED
        BY <4>1, <4>2
    <3> QED
      BY <2>1, <3>1 DEF ShortSteps
  <2>6. LongSteps'
    <3>1. ASSUME cfg.dt > cfg.interval, NEW j \in Written'
          PROVE  log'[j] <= time
      <4>1. CASE j \in Written /\ log'[j] = log[j] /\ log[j] \in Nat
        <5>1. log[j] + cfg.dt <= time
          BY <2>1, <3>1, <4>1 DEF LongSteps
        <5> QED
          BY <1>0, <4>1, <5>1
      <4>2. CASE j = Len(log) + 1 /\ log'[j] = time
        BY <1>0, <4>2
      <4> QED
        BY <2>2, <3>1, <4>1, <4>2
    <3>2. ASSUME cfg.dt > cfg.interval, NEW j \in Written'
          PROVE  log'[j] + 0 <= time
      <4>1. log'[j] \in Nat
        BY <1>0, <2>2, <3>2
      <4> QED
        BY <3>1, <3>2, <4>1
    <3> QED
      BY <2>1, <3>2 DEF LongSteps
  <2>7. Hdf5FilesDistinct'
    <3> SUFFICES ASSUME NEW j \in Written'
                 PROVE  /\ Hdf5Index(cfg, cfg.start) < Hdf5Index(cfg, log'[j])
                        /\ \A i \in FirstLoopRecord..j - 1 :
                             Hdf5Index(cfg, log'[i]) < Hdf5Index(cfg, log'[j])
      BY <2>1 DEF Hdf5FilesDistinct, Written, FirstLoopRecord, Hdf5Index
    <3>1. CASE j = Len(log) + 1
      <4>1. log'[j] = time
        BY <1>0, <2>1, <3>1
      <4>2. ASSUME NEW i \in FirstLoopRecord..j - 1
            PROVE  i \in Written /\ log'[i] = log[i]
        BY <1>0, <2>1, <3>1, <4>2 DEF Written, FirstLoopRecord
      <4> QED
        BY <2>1, <4>1, <4>2, NewIndexIsLarger
    <3>2. CASE j \in Written /\ log'[j] = log[j]
      <4>1. ASSUME NEW i \in FirstLoopRecord..j - 1
            PROVE  i \in Written /\ log'[i] = log[i]
        BY <1>0, <2>1, <3>2, <4>1 DEF Written, FirstLoopRecord
      <4> QED
        BY <3>2, <4>1 DEF Hdf5FilesDistinct, Written
    <3> QED
      BY <2>2, <3>1, <3>2
  <2> QED
    BY <2>3, <2>4, <2>5, <2>6, <2>7
<1>5. CASE CloseHistory
  BY <1>0, <1>5
  DEF CloseHistory, LogBegins, NextIsMultiple, Due, ShortSteps, LongSteps, Hdf5FilesDistinct,
      Written, FirstLoopRecord
<1>6. CASE ClockTerminated \/ UNCHANGED clockVars
  BY <1>6
  DEF ClockTerminated, clockVars, LogBegins, NextIsMultiple, Due, ShortSteps, LongSteps,
      Hdf5FilesDistinct, Written, FirstLoopRecord, Hdf5Index
<1> QED
  BY <1>1, <1>2, <1>3, <1>4, <1>5, <1>6 DEF ClockNext

(* No history file of a run is written twice, and none replaces the file the *)
(* run started from: for every dt and interval, equal, dividing or not.      *)
THEOREM FilesDistinct == ClockSpec => []Hdf5FilesDistinct
<1>1. ClockTypeOK /\ [ClockNext]_clockVars => ClockTypeOK'
  BY TypePreserved
<1>2. ClockInv => ClockTypeOK /\ Hdf5FilesDistinct
  BY DEF ClockInv
<1> QED
  BY <1>1, <1>2, ClockInvInitially, ClockInvPreserved, PTL DEF ClockSpec

---------------------------------------------------------------------------------
(* The strengthening: every record of the loop moved the due time by one        *)
(* interval from the first multiple after the start, and the due time is never  *)
(* more than one interval ahead of the clock.                               *)
CountInv ==
  /\ next = (cfg.start \div cfg.interval + 1 + Len(LoopRecords)) * cfg.interval
  /\ next <= time + cfg.interval

(* The two formulas of the first due time are one.                           *)
LEMMA FirstDueIsNextMultiple ==
  ASSUME NEW c \in Configs
  PROVE  /\ FirstDue(c) = (c.start \div c.interval + 1) * c.interval
         /\ FirstDue(c) <= c.start + c.interval
<1> DEFINE I == c.interval
           q == c.start \div I
<1>1. I \in Nat \ {0} /\ c.start \in Nat
  BY ConfigsAssumption
<1>2. q \in Nat /\ q * I <= c.start /\ (c.start = 0 => q = 0)
  <2>1. ASSUME NEW d \in Nat \ {0} PROVE 0 \div d = 0
    BY <2>1, Z3
  <2> QED
    BY <1>1, <2>1, QuotientBounds
<1>3. FirstDue(c) = (q + 1) * I
  <2>1. 0 + 1 = 1 /\ 1 * I = I
    BY <1>1
  <2> QED
    BY <1>2, <2>1 DEF FirstDue
<1>4. (q + 1) * I = q * I + I /\ q * I \in Nat
  <2> HIDE DEF q, I
  <2> QED
    BY <1>1, <1>2, Z3
<1>5. (q + 1) * I <= c.start + I
  <2> HIDE DEF q, I
  <2> QED
    BY <1>1, <1>2, <1>4
<1> QED
  BY <1>3, <1>5

(* The loop's records: none before the loop, one more with each write.         *)
LEMMA LoopRecordsCount ==
  ASSUME ClockInv
  PROVE  /\ Len(LoopRecords) \in Nat
         /\ log = <<>> => Len(LoopRecords) = 0
         /\ WriteInitial => Len(LoopRecords)' = 0
         /\ WriteOutput => Len(LoopRecords)' = Len(LoopRecords) + 1
<1>1. log \in Seq(Nat) /\ time \in Nat /\ Len(log) \in Nat
  BY DEF ClockInv, ClockTypeOK
<1>2. ASSUME NEW s \in Seq(Nat), Len(s) > 0
      PROVE  Tail(s) \in Seq(Nat) /\ Len(Tail(s)) = Len(s) - 1
  BY <1>2
<1>3. Len(LoopRecords) \in Nat
  BY <1>1, <1>2 DEF LoopRecords
<1>4. log = <<>> => Len(LoopRecords) = 0
  BY <1>1 DEF LoopRecords
<1>5. ASSUME WriteInitial PROVE Len(LoopRecords)' = 0
  <2>1. cfg'.initial /\ log' \in Seq(Nat) /\ Len(log') = 1
    BY <1>1, <1>5 DEF WriteInitial, ClockInv, LogBegins
  <2> QED
    BY <1>2, <2>1 DEF LoopRecords
<1>6. ASSUME WriteOutput PROVE Len(LoopRecords)' = Len(LoopRecords) + 1
  <2>1. cfg' = cfg /\ log' \in Seq(Nat) /\ Len(log') = Len(log) + 1
    BY <1>1, <1>6 DEF WriteOutput
  <2>2. cfg.initial => Len(log) > 0
    BY <1>1, <1>6 DEF WriteOutput, ClockInv, LogBegins, FirstLoopRecord
  <2>3. CASE cfg.initial
    <3>1. LoopRecords = Tail(log) /\ LoopRecords' = Tail(log')
      BY <1>1, <2>1, <2>2, <2>3 DEF LoopRecords
    <3>2. Len(Tail(log)) = Len(log) - 1 /\ Len(Tail(log')) = Len(log') - 1
      BY <1>1, <1>2, <2>1, <2>2, <2>3
    <3> QED
      BY <1>1, <2>1, <3>1, <3>2
  <2>4. CASE ~cfg.initial
    BY <2>1, <2>4 DEF LoopRecords
  <2> QED
    BY <2>3, <2>4
<1> QED
  BY <1>3, <1>4, <1>5, <1>6

LEMMA CountInvPreserved == ClockInv /\ CountInv /\ [ClockNext]_clockVars => CountInv'
<1> SUFFICES ASSUME ClockInv, CountInv, [ClockNext]_clockVars PROVE CountInv'
  OBVIOUS
<1> DEFINE I == cfg.interval
           q == cfg.start \div I
           n == Len(LoopRecords)
<1>0. /\ I \in Nat \ {0} /\ cfg.dt \in Nat /\ time \in Nat /\ next \in Nat /\ n \in Nat
      /\ q \in Nat
  BY ConfigsAssumption, LoopRecordsCount, QuotientBounds DEF ClockInv, ClockTypeOK
<1>1. CASE BeginRun \/ CloseHistory \/ ClockTerminated \/ UNCHANGED clockVars
  BY <1>1
  DEF BeginRun, CloseHistory, ClockTerminated, clockVars, CountInv, LoopRecords
<1>2. CASE WriteInitial
  <2>1. UNCHANGED <<cfg, time, next>> /\ n = 0 /\ n' = 0
    BY <1>2, LoopRecordsCount DEF WriteInitial, ClockInv, LogBegins
  <2> QED
    BY <2>1 DEF CountInv
<1>3. CASE Advance
  <2>1. UNCHANGED <<cfg, next, log>> /\ time' = time + cfg.dt
    BY <1>3 DEF Advance
  <2> QED
    BY <1>0, <2>1, SMTT(30) DEF CountInv, LoopRecords
<1>4. CASE WriteOutput
  <2>1. cfg' = cfg /\ time' = time /\ next' = next + I /\ next <= time /\ n' = n + 1
    BY <1>4, LoopRecordsCount DEF WriteOutput, ClockInv, Due
  <2>2. next' = (q + 1 + n') * I
    <3> DEFINE k == q + 1 + n
    <3>1. next = k * I /\ k \in Nat /\ q + 1 + (n + 1) = k + 1
      <4> HIDE DEF q, n
      <4>1. k \in Nat /\ q + 1 + (n + 1) = k + 1
        BY <1>0
      <4> QED
        BY <4>1 DEF CountInv, q, n
    <3> HIDE DEF k
    <3>2. k \in Nat /\ I \in Nat /\ next = k * I /\ next' = next + I
      BY <1>0, <2>1, <3>1 DEF k
    <3> HIDE DEF I
    <3>3. next' = (k + 1) * I
      BY <3>2, SuccessorMultiple
    <3> QED
      BY <2>1, <3>1, <3>3 DEF k
  <2>3. next' <= time' + I
    BY <1>0, <2>1
  <2> QED
    BY <2>1, <2>2, <2>3 DEF CountInv
<1> QED
  BY <1>1, <1>2, <1>3, <1>4 DEF ClockNext

(* For every cadence with dt <= interval, and every start: between two steps the *)
(* run has written one record for each multiple of the interval it has passed.  *)
THEOREM EveryIntervalRecorded == ClockSpec => []NoIntervalMissed
<1>1. ClockInit => ClockInv /\ CountInv
  <2> SUFFICES ASSUME ClockInit PROVE CountInv
    BY ClockInvInitially
  <2>1. ClockInv /\ log = <<>> /\ cfg \in Configs /\ next = FirstDue(cfg) /\ time = cfg.start
    BY ClockInvInitially DEF ClockInit
  <2>2. Len(LoopRecords) = 0 /\ cfg.start \div cfg.interval \in Nat
    BY <2>1, LoopRecordsCount, ConfigsAssumption, QuotientBounds
  <2>3. cfg.start \div cfg.interval + 1 + Len(LoopRecords) = cfg.start \div cfg.interval + 1
    BY <2>2
  <2> QED
    BY <2>1, <2>3, FirstDueIsNextMultiple DEF CountInv
<1>2. ClockInv /\ CountInv => NoIntervalMissed
  <2> SUFFICES ASSUME ClockInv, CountInv, loop \in {"step", "closed"}, cfg.dt <= cfg.interval
               PROVE  Len(LoopRecords) = time \div cfg.interval - cfg.start \div cfg.interval
    BY DEF NoIntervalMissed
  <2> DEFINE I == cfg.interval
             q == cfg.start \div I
             n == Len(LoopRecords)
  <2>1. I \in Nat \ {0} /\ time \in Nat /\ next \in Nat /\ n \in Nat /\ q \in Nat
    BY ConfigsAssumption, LoopRecordsCount, QuotientBounds DEF ClockInv, ClockTypeOK
  <2>2. time < next /\ next <= time + I /\ next = (q + 1 + n) * I
    BY DEF ClockInv, ShortSteps, CountInv
  <2> DEFINE k == q + n
  <2>3. k \in Nat /\ q + 1 + n = k + 1
    BY <2>1
  <2>4. k * I <= time /\ time < (k + 1) * I
    <3>1. next = (k + 1) * I
      BY <2>2, <2>3
    <3> HIDE DEF I, k
    <3>2. k * I \in Nat /\ next = k * I + I
      BY <2>1, <2>3, <3>1, Z3
    <3> QED
      BY <2>1, <2>2, <3>1, <3>2
  <2>5. time \div I \in Nat /\ k <= time \div I /\ time \div I < k + 1
    <3> HIDE DEF I, k
    <3>1. k + 1 \in Nat
      BY <2>3
    <3> QED
      BY <2>1, <2>3, <2>4, <3>1, IndexAgainstMultiple, QuotientBounds
  <2>6. time \div I = q + n
    <3> DEFINE x == time \div I
    <3> HIDE DEF x
    <3> QED
      BY <2>1, <2>5 DEF x
  <2> QED
    BY <2>1, <2>6
<1>3. ClockInv /\ [ClockNext]_clockVars => ClockInv'
  BY TypePreserved, ClockInvPreserved DEF ClockInv
<1> QED
  BY <1>1, <1>2, <1>3, CountInvPreserved, PTL DEF ClockSpec
=================================================================================
