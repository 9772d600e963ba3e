------------------------------- MODULE WindowProofs ------------------------------
(* Proofs about what a record holds: the window of the grid a BP5 record is       *)
(* restricted to (OutputWindow), for every grid, division of it and window; and    *)
(* the window of time its precipitation stands for (PrecipWindow), for every       *)
(* cadence of the model, of its records and of the coupling with CLEO.            *)
EXTENDS OutputWindow, PrecipWindow, OutputProofs, FiniteSetTheorems, FunctionTheorems,
        SequenceTheorems, WellFoundedInduction

(* The cells of the dataset rank r puts.                                      *)
BlockOf(r) == BlockRange(Selection(r).y) \X BlockRange(Selection(r).x)

Accepted ==
  WindowAccepted(req.y.n, req.y.lo, req.y.hi) /\ WindowAccepted(req.x.n, req.x.lo, req.x.hi)

(* The strengthening: a cell of the array holds what the ranks that have put so  *)
(* far and whose block it is in have put there, each from that cell's own place. *)
PutInPlace ==
  /\ put \subseteq Ranks
  /\ stage = "written" => put = Ranks
  /\ stage \notin {"configured", "refused"} => Accepted
  /\ array \in [Cells -> SUBSET (Ranks \X Cells)]
  /\ \A c \in Cells, e \in Ranks \X Cells :
       e \in array[c] <=> e[2] = c /\ e[1] \in put /\ c \in BlockOf(e[1])

LEMMA AxisFacts ==
  ASSUME req \in Requests
  PROVE  \A a \in {req.y, req.x} :
           a.n \in Nat /\ a.p \in Nat \ {0} /\ a.lo \in Int /\ a.hi \in Int
BY RequestsAssumption

(* A block's cells are read from their own places in the rank's memory.         *)
LEMMA PlaceIsCell ==
  ASSUME NEW n \in Nat, NEW p \in Nat \ {0}, NEW lo \in Int, NEW hi \in Int,
         WindowAccepted(n, lo, hi), NEW r \in 0..p - 1, NEW a, a.n = n, a.p = p, a.lo = lo,
         a.hi = hi, NEW x \in BlockRange(AxisSelection(a, r))
  PROVE  Place(a, r, AxisSelection(a, r).memory_start + x - AxisSelection(a, r).start) = x
<1> DEFINE rs == GridStart(n, p, r)
           rc == GridCount(n, p, r)
           e == WindowEnd(n, hi)
           s == IntersectAxis(rs, rc, lo, e, Halo)
<1>1. lo \in Nat /\ e \in Nat /\ Halo \in Nat
  BY RequestsAssumption DEF WindowAccepted, WindowEnd
<1>2. rs \in Nat /\ rc \in Nat
  <2>1. n \div p \in Nat /\ n % p \in Nat /\ r \in Nat
    BY QuotientRemainder
  <2> QED
    BY <2>1, OneMore DEF GridStart, GridCount, MinOf
<1>3. AxisSelection(a, r) = s
  BY DEF AxisSelection
<1>4. x \in Block(s)
  BY <1>3 DEF BlockRange, Block
<1> HIDE DEF rs, rc, e
<1>5. x \in rs..rs + rc - 1
  BY <1>1, <1>2, <1>4, BlockIsShared, SMTT(30)
<1>6. s.memory_start + x - s.start = Halo + x - rs
  BY <1>1, <1>2, <1>4, BlockInMemory, SMTT(30)
<1> HIDE DEF s
<1>7. Place(a, r, Halo + x - rs) = x
  BY <1>1, <1>2, <1>5 DEF Place, rs, rc
<1> QED
  BY <1>3, <1>6, <1>7

(* The two axes of a cell.                                                    *)
LEMMA CellsArePairs ==
  ASSUME NEW c \in Cells
  PROVE  c = <<c[1], c[2]>> /\ c[1] \in 0..req.y.n - 1 /\ c[2] \in 0..req.x.n - 1
BY DEF Cells

LEMMA RanksArePairs ==
  ASSUME NEW r \in Ranks
  PROVE  r = <<r[1], r[2]>> /\ r[1] \in 0..req.y.p - 1 /\ r[2] \in 0..req.x.p - 1
BY DEF Ranks

(* What a rank puts into a cell of its block is that very cell.                *)
LEMMA MemoryIsCell ==
  ASSUME req \in Requests, Accepted, NEW r \in Ranks, NEW c \in Cells, c \in BlockOf(r)
  PROVE  LET s == Selection(r)
         IN  Memory(r, s.y.memory_start + c[1] - s.y.start, s.x.memory_start + c[2] - s.x.start) = c
<1>1. /\ c[1] \in BlockRange(AxisSelection(req.y, r[1]))
      /\ c[2] \in BlockRange(AxisSelection(req.x, r[2]))
  BY CellsArePairs DEF BlockOf, Selection
<1>2. Place(req.y, r[1], AxisSelection(req.y, r[1]).memory_start + c[1]
                           - AxisSelection(req.y, r[1]).start) = c[1]
  BY <1>1, AxisFacts, RanksArePairs, PlaceIsCell DEF Accepted
<1>3. Place(req.x, r[2], AxisSelection(req.x, r[2]).memory_start + c[2]
                           - AxisSelection(req.x, r[2]).start) = c[2]
  BY <1>1, AxisFacts, RanksArePairs, PlaceIsCell DEF Accepted
<1> QED
  BY <1>2, <1>3, CellsArePairs DEF Memory, Selection

LEMMA PutInitially == WindowInit => req \in Requests /\ PutInPlace
<1> SUFFICES ASSUME WindowInit PROVE req \in Requests /\ PutInPlace
  OBVIOUS
<1>1. req \in Requests /\ stage = "configured" /\ put = {} /\ array = [c \in Cells |-> {}]
  BY DEF WindowInit
<1> QED
  BY <1>1 DEF PutInPlace

LEMMA PutPreserved ==
  req \in Requests /\ PutInPlace /\ [WindowNext]_windowVars => (req \in Requests /\ PutInPlace)'
<1> SUFFICES ASSUME req \in Requests, PutInPlace, [WindowNext]_windowVars
             PROVE  (req \in Requests /\ PutInPlace)'
  OBVIOUS
<1>r. req' = req
  BY DEF WindowNext, ParseBounds, ValidateCoverage, PutBlock, EndStep, Finished, windowVars
<1>c. Ranks' = Ranks /\ Cells' = Cells /\ Accepted' = Accepted /\ \A r : BlockOf(r)' = BlockOf(r)
  BY <1>r DEF Ranks, Cells, Accepted, BlockOf, Selection
<1>1. CASE ParseBounds \/ ValidateCoverage \/ EndStep \/ Finished \/ UNCHANGED windowVars
  <2>1. put' = put /\ array' = array
    BY <1>1 DEF ParseBounds, ValidateCoverage, EndStep, Finished, windowVars
  <2>2. /\ stage' = "written" => put = Ranks
        /\ stage' \notin {"configured", "refused"} => Accepted
    BY <1>1 DEF ParseBounds, ValidateCoverage, EndStep, Finished, windowVars, PutInPlace, Accepted
  <2> QED
    BY <1>r, <1>c, <2>1, <2>2 DEF PutInPlace
<1>2. ASSUME NEW r \in Ranks, PutBlock(r) PROVE PutInPlace'
  <2>1. stage = "writing" /\ stage' = stage /\ put' = put \cup {r} /\ Accepted
    BY <1>2 DEF PutBlock, PutInPlace
  <2>2. ASSUME NEW c \in Cells
        PROVE  array'[c] = IF c \in BlockOf(r) THEN array[c] \cup {<<r, c>>} ELSE array[c]
    <3> DEFINE s == Selection(r)
               m == Memory(r, s.y.memory_start + c[1] - s.y.start,
                              s.x.memory_start + c[2] - s.x.start)
    <3>1. array'[c] = IF c \in BlockOf(r) THEN array[c] \cup {<<r, m>>} ELSE array[c]
      BY <1>2 DEF PutBlock, BlockOf
    <3>2. c \in BlockOf(r) => m = c
      BY <2>1, MemoryIsCell
    <3> HIDE DEF m
    <3> QED
      BY <3>1, <3>2
  <2>3. array' \in [Cells -> SUBSET (Ranks \X Cells)]
    <3>1. array' = [c \in Cells |-> array'[c]]
      BY <1>2 DEF PutBlock
    <3>2. ASSUME NEW c \in Cells PROVE array'[c] \subseteq Ranks \X Cells
      <4>1. array[c] \subseteq Ranks \X Cells /\ <<r, c>> \in Ranks \X Cells
        BY DEF PutInPlace
      <4>2. array'[c] = array[c] \/ array'[c] = array[c] \cup {<<r, c>>}
        BY <2>2
      <4> QED
        BY <4>1, <4>2, Zenon
    <3> QED
      BY <3>1, <3>2
  <2>4. ASSUME NEW c \in Cells, NEW e \in Ranks \X Cells
        PROVE  e \in array'[c] <=> e[2] = c /\ e[1] \in put' /\ c \in BlockOf(e[1])
    <3>1. e \in array[c] <=> e[2] = c /\ e[1] \in put /\ c \in BlockOf(e[1])
      BY DEF PutInPlace
    <3>2. e = <<r, c>> <=> e[1] = r /\ e[2] = c
      OBVIOUS
    <3> QED
      BY <2>1, <2>2, <3>1, <3>2
  <2> QED
    BY <1>c, <2>1, <2>3, <2>4 DEF PutInPlace
<1> QED
  BY <1>r, <1>1, <1>2 DEF WindowNext

(* The blocks of an axis divide the window on it.                              *)
LEMMA AxisDivided ==
  ASSUME NEW a, a.n \in Nat, a.p \in Nat \ {0}, a.lo \in Int, a.hi \in Int,
         WindowAccepted(a.n, a.lo, a.hi), NEW x \in 0..a.n - 1
  PROVE  /\ x \in a.lo..WindowEnd(a.n, a.hi) <=>
              \E r \in 0..a.p - 1 : x \in BlockRange(AxisSelection(a, r))
         /\ \A r, q \in 0..a.p - 1 :
              x \in BlockRange(AxisSelection(a, r)) /\ x \in BlockRange(AxisSelection(a, q))
                => r = q
<1> DEFINE n == a.n
           p == a.p
           lo == a.lo
           hi == a.hi
           block(r) == Block(IntersectAxis(GridStart(n, p, r), GridCount(n, p, r),
                                           lo, WindowEnd(n, hi), Halo))
<1>1. /\ n \in Nat \ {0} /\ p \in Nat \ {0} /\ lo \in Int /\ hi \in Int /\ Halo \in Nat
      /\ WindowAccepted(n, lo, hi) /\ x \in 0..n - 1
  BY RequestsAssumption DEF WindowAccepted
<1>2. \A r : BlockRange(AxisSelection(a, r)) = block(r)
  BY DEF BlockRange, Block, AxisSelection
<1>3. /\ x \in lo..WindowEnd(n, hi) <=> \E r \in 0..p - 1 : x \in block(r)
      /\ \A r, q \in 0..p - 1 : x \in block(r) /\ x \in block(q) => r = q
  <2> HIDE DEF n, p, lo, hi
  <2> QED
    BY <1>1, WindowDivided
<1> HIDE DEF block
<1> QED
  BY <1>2, <1>3

(* Each cell of an accepted window is in the block of one rank, and no other    *)
(* cell of the grid is in any.                                              *)
LEMMA BlocksDivideWindow ==
  ASSUME req \in Requests, Accepted, NEW c \in Cells
  PROVE  /\ c \in Window <=> \E r \in Ranks : c \in BlockOf(r)
         /\ \A r, q \in Ranks : c \in BlockOf(r) /\ c \in BlockOf(q) => r = q
<1> DEFINE by(r) == BlockRange(AxisSelection(req.y, r))
           bx(r) == BlockRange(AxisSelection(req.x, r))
           wy == req.y.lo..WindowEnd(req.y.n, req.y.hi)
           wx == req.x.lo..WindowEnd(req.x.n, req.x.hi)
<1>y. /\ c[1] \in wy <=> \E r \in 0..req.y.p - 1 : c[1] \in by(r)
      /\ \A r, q \in 0..req.y.p - 1 : c[1] \in by(r) /\ c[1] \in by(q) => r = q
  BY AxisFacts, CellsArePairs, AxisDivided DEF Accepted
<1>x. /\ c[2] \in wx <=> \E r \in 0..req.x.p - 1 : c[2] \in bx(r)
      /\ \A r, q \in 0..req.x.p - 1 : c[2] \in bx(r) /\ c[2] \in bx(q) => r = q
  BY AxisFacts, CellsArePairs, AxisDivided DEF Accepted
<1>1. \A r \in Ranks : c \in BlockOf(r) <=> c[1] \in by(r[1]) /\ c[2] \in bx(r[2])
  BY CellsArePairs DEF BlockOf, Selection
<1>2. c \in Window <=> c[1] \in wy /\ c[2] \in wx
  BY CellsArePairs DEF Window
<1> HIDE DEF by, bx, wy, wx
<1>3. ASSUME NEW r1 \in 0..req.y.p - 1, NEW r2 \in 0..req.x.p - 1 PROVE <<r1, r2>> \in Ranks
  BY DEF Ranks
<1>4. c \in Window => \E r \in Ranks : c \in BlockOf(r)
  BY <1>y, <1>x, <1>1, <1>2, <1>3, ZenonT(40)
<1>5. ASSUME NEW r \in Ranks, c \in BlockOf(r) PROVE c \in Window
  BY <1>y, <1>x, <1>1, <1>2, <1>5, RanksArePairs
<1>6. ASSUME NEW r \in Ranks, NEW q \in Ranks, c \in BlockOf(r), c \in BlockOf(q) PROVE r = q
  <2>1. r[1] = q[1] /\ r[2] = q[2]
    BY <1>y, <1>x, <1>1, <1>6, RanksArePairs
  <2> QED
    BY <2>1, RanksArePairs
<1> QED
  BY <1>4, <1>5, <1>6

(* However the grid is divided and in whatever order the ranks put: each cell of *)
(* the window is written once, from the memory of that cell, and no other is.   *)
THEOREM WindowIsWrittenOnce == WindowSpec => []WindowWrittenOnce
<1>1. req \in Requests /\ PutInPlace => WindowWrittenOnce
  <2> SUFFICES ASSUME req \in Requests, PutInPlace, stage = "written", NEW c \in Cells
               PROVE  IF c \in Window THEN \E r \in Ranks : array[c] = {<<r, c>>}
                                      ELSE array[c] = {}
    BY DEF WindowWrittenOnce
  <2>1. Accepted /\ put = Ranks /\ array[c] \subseteq Ranks \X Cells
    BY DEF PutInPlace
  <2>2. \A e \in Ranks \X Cells : e \in array[c] <=> e[2] = c /\ c \in BlockOf(e[1])
    BY <2>1 DEF PutInPlace
  <2>3. CASE c \in Window
    <3>1. PICK r \in Ranks : c \in BlockOf(r)
      BY <2>1, <2>3, BlocksDivideWindow
    <3>2. <<r, c>> \in array[c]
      BY <2>2, <3>1
    <3>3. ASSUME NEW e \in array[c] PROVE e = <<r, c>>
      <4>1. e \in Ranks \X Cells /\ e[2] = c /\ c \in BlockOf(e[1]) /\ e[1] \in Ranks
        BY <2>1, <2>2
      <4>2. e[1] = r
        BY <2>1, <3>1, <4>1, BlocksDivideWindow
      <4> QED
        BY <4>1, <4>2
    <3> QED
      BY <2>3, <3>2, <3>3
  <2>4. CASE c \notin Window
    BY <2>1, <2>2, <2>4, BlocksDivideWindow
  <2> QED
    BY <2>3, <2>4
<1> QED
  BY <1>1, PutInitially, PutPreserved, PTL DEF WindowSpec

---------------------------------------------------------------------------------
(* The sum the ranks compute together.                                        *)

(* A set of numbers that is not empty has a least one.                        *)
LEMMA LeastNumber ==
  ASSUME NEW S, S \subseteq Nat, S # {}
  PROVE  \E n \in S : \A m \in S : n <= m
<1> DEFINE Less == {e \in Nat \X Nat : e[1] < e[2]}
<1>1. IsWellFoundedOn(Less, Nat)
  BY NatLessThanWellFounded DEF OpToRel
<1> HIDE DEF Less
<1>2. PICK n \in S : \A m \in S : <<m, n>> \notin Less
  BY <1>1, WFMin
<1>3. ASSUME NEW m \in S PROVE n <= m
  <2>1. ~(m < n)
    BY <1>2 DEF Less
  <2> QED
    BY <2>1
<1> QED
  BY <1>3

(* What a set of ranks puts.                                                 *)
PutBy(s) == UNION {BlockOf(r) : r \in s}

LEMMA IntervalSize ==
  ASSUME NEW a \in Int, NEW n \in Nat
  PROVE  IsFiniteSet(a..a + n - 1) /\ Cardinality(a..a + n - 1) = n
<1> DEFINE b == a + n - 1
<1>1. b \in Int
  OBVIOUS
<1> HIDE DEF b
<1>2. IsFiniteSet(a..b) /\ Cardinality(a..b) = IF a > b THEN 0 ELSE b - a + 1
  BY <1>1, FS_Interval, Zenon
<1> QED
  BY <1>2 DEF b

(* The elements of a rank are the cells of its block.                         *)
LEMMA ElementsAreCells ==
  ASSUME req \in Requests, Accepted, NEW r \in Ranks
  PROVE  /\ IsFiniteSet(BlockOf(r)) /\ BlockOf(r) \subseteq Cells
         /\ Elements(r) = Cardinality(BlockOf(r)) /\ Elements(r) \in Nat
<1>1. ASSUME NEW a \in {req.y, req.x}, NEW c \in 0..a.p - 1
      PROVE  LET s == AxisSelection(a, c)
             IN  /\ s.start \in Int /\ s.count \in Nat
                 /\ BlockRange(s) \subseteq 0..a.n - 1
  <2>1. /\ a.n \in Nat \ {0} /\ a.p \in Nat \ {0} /\ WindowAccepted(a.n, a.lo, a.hi) /\ Halo \in Nat
        /\ a.lo \in Nat /\ WindowEnd(a.n, a.hi) \in Nat /\ WindowEnd(a.n, a.hi) < a.n
    BY AxisFacts, RequestsAssumption DEF Accepted, WindowAccepted, WindowEnd
  <2> DEFINE rs == GridStart(a.n, a.p, c)
             rc == GridCount(a.n, a.p, c)
             e == WindowEnd(a.n, a.hi)
             s == IntersectAxis(rs, rc, a.lo, e, Halo)
  <2>2. rs \in Nat /\ rc \in Nat
    <3>1. a.n \div a.p \in Nat /\ a.n % a.p \in Nat /\ c \in Nat
      BY <2>1, QuotientRemainder
    <3> QED
      BY <3>1, OneMore DEF GridStart, GridCount, MinOf
  <2> HIDE DEF rs, rc, e
  <2>3. s.start \in Int /\ s.count \in Nat
    BY <2>1, <2>2 DEF IntersectAxis, NoIntersection, MinOf, MaxOf, e
  <2>4. Block(s) = (rs..rs + rc - 1) \cap (a.lo..e)
    <3> DEFINE lo == a.lo
    <3>1. rs \in Nat /\ rc \in Nat /\ lo \in Nat /\ e \in Nat /\ Halo \in Nat
      BY <2>1, <2>2 DEF e
    <3> HIDE DEF lo
    <3>2. Block(IntersectAxis(rs, rc, lo, e, Halo)) = (rs..rs + rc - 1) \cap (lo..e)
      BY <3>1, BlockIsShared, SMTT(30)
    <3> QED
      BY <3>2 DEF lo
  <2>5. Block(s) \subseteq 0..a.n - 1
    BY <2>1, <2>4 DEF e
  <2> QED
    BY <2>3, <2>5 DEF AxisSelection, BlockRange, Block, rs, rc, e
<1>2. r[1] \in 0..req.y.p - 1 /\ r[2] \in 0..req.x.p - 1
  BY RanksArePairs
<1> DEFINE u == Selection(r).y
           v == Selection(r).x
<1>3. /\ u.start \in Int /\ u.count \in Nat /\ BlockRange(u) \subseteq 0..req.y.n - 1
      /\ v.start \in Int /\ v.count \in Nat /\ BlockRange(v) \subseteq 0..req.x.n - 1
  BY <1>1, <1>2 DEF Selection
<1>4. BlockOf(r) = BlockRange(u) \X BlockRange(v) /\ Elements(r) = u.count * v.count
  BY DEF BlockOf, Elements
<1> HIDE DEF u, v
<1>5. /\ IsFiniteSet(BlockRange(u)) /\ Cardinality(BlockRange(u)) = u.count
      /\ IsFiniteSet(BlockRange(v)) /\ Cardinality(BlockRange(v)) = v.count
  BY <1>3, IntervalSize, Zenon DEF BlockRange
<1>6. IsFiniteSet(BlockOf(r)) /\ Cardinality(BlockOf(r)) = u.count * v.count
  BY <1>4, <1>5, FS_Product
<1>7. Cardinality(BlockOf(r)) \in Nat
  BY <1>6, FS_CardinalityType
<1> QED
  BY <1>3, <1>4, <1>6, <1>7 DEF Cells

(* One rank more puts as many cells more as it has elements: none is put twice. *)
LEMMA OneRankMore ==
  ASSUME req \in Requests, Accepted, NEW s \in SUBSET Ranks, NEW r \in s,
         IsFiniteSet(PutBy(s \ {r}))
  PROVE  /\ IsFiniteSet(PutBy(s))
         /\ Cardinality(PutBy(s)) = Elements(r) + Cardinality(PutBy(s \ {r}))
<1>1. PutBy(s) = BlockOf(r) \cup PutBy(s \ {r})
  BY DEF PutBy
<1>2. r \in Ranks /\ IsFiniteSet(BlockOf(r)) /\ BlockOf(r) \subseteq Cells /\ Elements(r) = Cardinality(BlockOf(r))
  BY ElementsAreCells
<1>3. BlockOf(r) \cap PutBy(s \ {r}) = {}
  <2> SUFFICES ASSUME NEW c \in BlockOf(r), NEW q \in s \ {r}, c \in BlockOf(q) PROVE FALSE
    BY DEF PutBy
  <2> QED
    BY <1>2, BlocksDivideWindow
<1>4. Cardinality({}) = 0 /\ Cardinality(BlockOf(r)) \in Nat /\ Cardinality(PutBy(s \ {r})) \in Nat
  BY <1>2, FS_EmptySet, FS_CardinalityType
<1> DEFINE old == PutBy(s \ {r})
<1>5. IsFiniteSet(old)
  OBVIOUS
<1> HIDE DEF old
<1>6. /\ IsFiniteSet(BlockOf(r) \cup old)
      /\ Cardinality(BlockOf(r) \cup old)
           = Cardinality(BlockOf(r)) + Cardinality(old) - Cardinality(BlockOf(r) \cap old)
  BY <1>2, <1>5, FS_Union, Zenon
<1>7. Cardinality(BlockOf(r) \cup old) = Cardinality(BlockOf(r)) + Cardinality(old)
  <2>1. Cardinality(BlockOf(r) \cap old) = 0
    BY <1>3, <1>4, Zenon DEF old
  <2>2. Cardinality(BlockOf(r)) \in Nat /\ Cardinality(old) \in Nat
    BY <1>4 DEF old
  <2> QED
    BY <1>6, <2>1, <2>2, SMTT(30)
<1> QED
  BY <1>1, <1>2, <1>6, <1>7 DEF old

(* The sum over the ranks is the number of cells they put: both are got from one  *)
(* rank fewer in the same way, and a smallest set on which they differ would have *)
(* to be empty.                                                              *)
LEMMA SumIsCellsPut ==
  ASSUME req \in Requests, Accepted
  PROVE  MapThenSumSet(Elements, Ranks) = Cardinality(PutBy(Ranks))
<1> DEFINE one(s) == CHOOSE x \in s : TRUE
           Adds(f) == f = [s \in SUBSET Ranks |-> IF s = {} THEN 0
                                                  ELSE Elements(one(s)) + f[s \ {one(s)}]]
           cells == [s \in SUBSET Ranks |-> Cardinality(PutBy(s))]
           sum == CHOOSE f : Adds(f)
<1>1. MapThenSumSet(Elements, Ranks) = sum[Ranks]
  BY DEF MapThenSumSet, MapThenFoldSet
<1>2. IsFiniteSet(Ranks) /\ IsFiniteSet(Cells)
  <2>1. \A a \in {req.y, req.x} : IsFiniteSet(0..a.n - 1) /\ IsFiniteSet(0..a.p - 1)
    <3> SUFFICES ASSUME NEW a \in {req.y, req.x}
                 PROVE  IsFiniteSet(0..a.n - 1) /\ IsFiniteSet(0..a.p - 1)
      OBVIOUS
    <3>1. 0 \in Int /\ a.n - 1 \in Int /\ a.p - 1 \in Int
      BY AxisFacts
    <3> QED
      BY <3>1, FS_Interval, Zenon
  <2> QED
    BY <2>1, FS_Product DEF Ranks, Cells
<1>3. ASSUME NEW s \in SUBSET Ranks PROVE IsFiniteSet(PutBy(s)) /\ IsFiniteSet(s)
  <2>1. PutBy(s) \in SUBSET Cells
    BY ElementsAreCells DEF PutBy
  <2> QED
    BY <1>2, <2>1, FS_Subset
<1>4. ASSUME NEW s \in SUBSET Ranks, s # {}
      PROVE  /\ one(s) \in s /\ s \ {one(s)} \in SUBSET Ranks
             /\ cells[s] = Elements(one(s)) + cells[s \ {one(s)}]
  <2>1. one(s) \in s /\ s \ {one(s)} \in SUBSET Ranks
    BY <1>4
  <2> HIDE DEF one
  <2>2. Cardinality(PutBy(s)) = Elements(one(s)) + Cardinality(PutBy(s \ {one(s)}))
    BY <1>3, <2>1, OneRankMore
  <2> QED
    BY <2>1, <2>2
<1>5. cells[{}] = 0
  BY FS_EmptySet DEF PutBy
<1> HIDE DEF one
<1>6. Adds(cells)
  <2>1. ASSUME NEW s \in SUBSET Ranks
        PROVE  Cardinality(PutBy(s)) = IF s = {} THEN 0 ELSE Elements(one(s)) + cells[s \ {one(s)}]
    BY <1>4, <1>5
  <2> QED
    BY <2>1
<1>7. Adds(sum)
  BY <1>6
<1> HIDE DEF cells, sum
<1>8. ASSUME NEW s \in SUBSET Ranks
      PROVE  sum[s] = IF s = {} THEN 0 ELSE Elements(one(s)) + sum[s \ {one(s)}]
  BY <1>7
<1>9. ASSUME NEW s \in SUBSET Ranks PROVE sum[s] = cells[s]
  <2> DEFINE Differ == {t \in SUBSET Ranks : sum[t] # cells[t]}
             Sizes == {Cardinality(t) : t \in Differ}
  <2> SUFFICES ASSUME Differ # {} PROVE FALSE
    OBVIOUS
  <2>1. Sizes \subseteq Nat /\ Sizes # {}
    BY <1>3, FS_CardinalityType
  <2>2. PICK t \in Differ : \A u \in Differ : Cardinality(t) <= Cardinality(u)
    <3> HIDE DEF Differ
    <3>1. PICK n \in Sizes : \A m \in Sizes : n <= m
      <4> HIDE DEF Sizes
      <4> QED
        BY <2>1, LeastNumber
    <3> QED
      BY <3>1
  <2>3. t \in SUBSET Ranks /\ t # {} /\ IsFiniteSet(t)
    BY <1>3, <1>5, <1>8
  <2>4. t \ {one(t)} \in Differ
    BY <1>4, <1>8, <2>3
  <2>5. Cardinality(t \ {one(t)}) = Cardinality(t) - 1 /\ Cardinality(t) \in Nat
    BY <1>4, <2>3, FS_RemoveElement, FS_CardinalityType
  <2> QED
    BY <2>2, <2>4, <2>5
<1> QED
  BY <1>1, <1>9 DEF cells

(* The blocks make up the window, so the sum is the size of it.                  *)
LEMMA SumIsWindowSize ==
  ASSUME req \in Requests, Accepted
  PROVE  MapThenSumSet(Elements, Ranks) = WindowSize(req.y) * WindowSize(req.x)
<1> DEFINE wy == req.y.lo..WindowEnd(req.y.n, req.y.hi)
           wx == req.x.lo..WindowEnd(req.x.n, req.x.hi)
<1>1. \A a \in {req.y, req.x} :
        /\ a.lo \in Nat /\ WindowEnd(a.n, a.hi) \in Nat
        /\ a.lo <= WindowEnd(a.n, a.hi) /\ WindowEnd(a.n, a.hi) < a.n /\ a.n \in Nat
  BY AxisFacts DEF Accepted, WindowAccepted, WindowEnd
<1>2. PutBy(Ranks) = Window
  <2>1. \A r \in Ranks : BlockOf(r) \subseteq Cells
    BY ElementsAreCells
  <2>2. Window \subseteq Cells
    BY <1>1 DEF Window, Cells
  <2>3. \A c \in Cells : c \in Window <=> c \in PutBy(Ranks)
    BY BlocksDivideWindow DEF PutBy
  <2>4. PutBy(Ranks) \subseteq Cells
    BY <2>1 DEF PutBy
  <2> QED
    BY <2>2, <2>3, <2>4
<1>3. ASSUME NEW a \in {req.y, req.x}
      PROVE  /\ IsFiniteSet(a.lo..WindowEnd(a.n, a.hi))
             /\ Cardinality(a.lo..WindowEnd(a.n, a.hi)) = WindowSize(a)
  <2> DEFINE lo == a.lo
             e == WindowEnd(a.n, a.hi)
  <2>1. lo \in Int /\ e \in Int /\ ~(lo > e) /\ WindowSize(a) = e - lo + 1
    BY <1>1 DEF WindowSize
  <2> HIDE DEF lo, e
  <2>2. IsFiniteSet(lo..e) /\ Cardinality(lo..e) = IF lo > e THEN 0 ELSE e - lo + 1
    BY <2>1, FS_Interval, Zenon
  <2>3. Cardinality(lo..e) = WindowSize(a)
    BY <2>1, <2>2
  <2> QED
    BY <2>2, <2>3 DEF lo, e
<1>4. Cardinality(wy \X wx) = Cardinality(wy) * Cardinality(wx)
  <2>1. IsFiniteSet(wy) /\ IsFiniteSet(wx)
    BY <1>3
  <2> HIDE DEF wy, wx
  <2> QED
    BY <2>1, FS_Product
<1> QED
  BY <1>2, <1>3, <1>4, SumIsCellsPut DEF Window

(* validate_coverage never stops a run over bounds it has accepted: what the ranks *)
(* have to put adds up to the window, for every division of the grid.            *)
THEOREM CoverageNeverFails == WindowSpec => []CoverageHolds
<1> DEFINE Inv == req \in Requests /\ PutInPlace /\ CoverageHolds
<1>1. WindowInit => Inv
  BY PutInitially DEF WindowInit, CoverageHolds
<1>2. Inv /\ [WindowNext]_windowVars => Inv'
  <2> SUFFICES ASSUME Inv, [WindowNext]_windowVars PROVE Inv'
    OBVIOUS
  <2>1. (req \in Requests /\ PutInPlace)'
    BY PutPreserved
  <2>2. stage' # "uncovered"
    <3>1. CASE ValidateCoverage
      <4>1. Accepted
        BY <3>1 DEF ValidateCoverage, PutInPlace
      <4>2. MapThenSumSet(Elements, Ranks) = WindowSize(req.y) * WindowSize(req.x)
        BY <4>1, SumIsWindowSize
      <4> QED
        BY <3>1, <4>2 DEF ValidateCoverage
    <3>2. CASE ~ValidateCoverage
      BY <3>2 DEF CoverageHolds, WindowNext, ParseBounds, PutBlock, EndStep, Finished, windowVars
    <3> QED
      BY <3>1, <3>2
  <2> QED
    BY <2>1, <2>2 DEF CoverageHolds
<1> QED
  BY <1>1, <1>2, PTL DEF WindowSpec

---------------------------------------------------------------------------------
(* A field: the start of each contribution in it, with what divided it.          *)
Divisors == Seq(Nat \ {0})
Fields == UNION {[S -> Divisors] : S \in SUBSET Nat}

FieldsInv ==
  /\ ClockTypeOK
  /\ clear \in BOOLEAN
  /\ calls \in Nat /\ coupled \in Nat /\ span \in Nat
  /\ due = -1 \/ due \in Nat
  /\ acc \in Fields
  /\ written \in Seq(Fields)
  /\ Len(written) = Len(log)

LEMMA FieldFacts ==
  ASSUME NEW a \in Fields
  PROVE  DOMAIN a \subseteq Nat /\ \A t \in DOMAIN a : a[t] \in Divisors
BY DEF Fields

LEMMA EmptyField == Empty \in Fields /\ DOMAIN Empty = {}
<1>1. Empty \in [{} -> Divisors]
  BY DEF Empty
<1> QED
  BY <1>1 DEF Fields

(* What a scheme does to the field.                                           *)
LEMMA AddAtField ==
  ASSUME NEW a \in Fields, NEW t \in Nat
  PROVE  /\ AddAt(a, t) \in Fields
         /\ DOMAIN AddAt(a, t) = DOMAIN a \cup {t}
         /\ \A u \in DOMAIN a : AddAt(a, t)[u] = a[u]
         /\ t \notin DOMAIN a => AddAt(a, t)[t] = <<>>
<1>1. <<>> \in Divisors
  BY EmptySeq DEF Divisors
<1>2. DOMAIN a \cup {t} \in SUBSET Nat
  BY FieldFacts
<1>3. AddAt(a, t) \in [DOMAIN a \cup {t} -> Divisors]
  BY <1>1, FieldFacts DEF AddAt
<1> QED
  BY <1>2, <1>3 DEF AddAt, Fields

LEMMA DividedField ==
  ASSUME NEW a \in Fields, NEW d \in Nat \ {0}
  PROVE  /\ DividedBy(a, d) \in Fields
         /\ DOMAIN DividedBy(a, d) = DOMAIN a
         /\ \A u \in DOMAIN a : a[u] = <<>> => DividedBy(a, d)[u] = <<d>>
<1>1. ASSUME NEW u \in DOMAIN a PROVE Append(a[u], d) \in Divisors
  BY FieldFacts, AppendProperties DEF Divisors
<1>2. DividedBy(a, d) \in [DOMAIN a -> Divisors]
  BY <1>1 DEF DividedBy
<1>3. Append(<<>>, d) = <<d>>
  OBVIOUS
<1> QED
  BY <1>2, <1>3, FieldFacts DEF DividedBy, Fields

LEMMA ClearedField ==
  ASSUME FieldsInv
  PROVE  Cleared \in Fields
BY EmptyField DEF FieldsInv, Cleared

LEMMA CadenceFacts ==
  ASSUME cfg \in Configs
  PROVE  /\ cfg.dt \in Nat \ {0} /\ cfg.interval \in Nat \ {0}
         /\ cfg.start \in Nat /\ cfg.total \in Nat /\ cfg.initial \in BOOLEAN
         /\ cfg.scheme \in {"p3", "cleo"}
         /\ cfg.scheme = "cleo" => cfg.couple \in Nat \ {0} /\ cfg.start = 0
BY ConfigsAssumption, PrecipAssumption DEF Schemes

LEMMA FieldsInitially == Init => FieldsInv
<1> SUFFICES ASSUME Init PROVE FieldsInv
  OBVIOUS
<1>1. ClockTypeOK /\ cfg \in Configs /\ log = <<>>
  BY TypeInitially DEF Init, ClockInit
<1>2. Empty \in Fields
  BY EmptyField
<1>3. <<>> \in Seq(Fields)
  BY EmptySeq
<1> QED
  BY <1>1, <1>2, <1>3 DEF Init, FieldsInv

(* A step of the loop is a step of the output clock.                           *)
LEMMA ClockSteps == [Next]_vars => [ClockNext]_clockVars
BY DEF Next, vars, StartLoop, FirstRecord, RunStep, Record, Close, Terminated, ClockNext

LEMMA RunP3Fields ==
  ASSUME FieldsInv, RunP3
  PROVE  /\ acc' \in Fields /\ clear' \in BOOLEAN /\ calls' \in Nat
         /\ coupled' = coupled /\ span' = span /\ due' = due
<1>1. Cleared \in Fields /\ time \in Nat /\ cfg.interval \in Nat \ {0} /\ calls \in Nat
  BY ClearedField, CadenceFacts DEF FieldsInv, ClockTypeOK
<1>2. AddAt(Cleared, time) \in Fields
  BY <1>1, AddAtField
<1>3. DividedBy(AddAt(Cleared, time), cfg.interval) \in Fields
  BY <1>1, <1>2, DividedField
<1>4. acc' \in Fields
  BY <1>2, <1>3 DEF RunP3
<1>5. AtOutputStep \in BOOLEAN
  BY DEF AtOutputStep
<1> QED
  BY <1>1, <1>4, <1>5 DEF RunP3

LEMMA RunCleoFields ==
  ASSUME FieldsInv, RunCleo
  PROVE  /\ acc' \in Fields /\ clear' \in BOOLEAN /\ calls' = calls
         /\ coupled' \in Nat /\ span' \in Nat /\ due' \in Nat
         /\ Collected \in Fields /\ Span \in Nat
<1>1. /\ Cleared \in Fields /\ time \in Nat /\ cfg.interval \in Nat \ {0} /\ cfg.couple \in Nat
      /\ coupled \in Nat /\ span \in Nat
  BY ClearedField, CadenceFacts DEF FieldsInv, ClockTypeOK, RunCleo
<1>2. Collected \in Fields
  BY <1>1, AddAtField DEF Collected
<1>3. Span \in Nat
  BY <1>1 DEF Span
<1>4. Span > 0 => DividedBy(Collected, Span) \in Fields
  BY <1>2, <1>3, DividedField
<1>5. DueTime \in Nat
  <2>1. (time \div cfg.interval + 1) * cfg.interval \in Nat
    <3> DEFINE q == time \div cfg.interval
    <3>1. q \in Nat
      BY <1>1, QuotientBounds
    <3> HIDE DEF q
    <3>2. \A i \in Nat, j \in Nat : (i + 1) * j \in Nat
      OBVIOUS
    <3>3. (q + 1) * cfg.interval \in Nat
      BY <1>1, <3>1, <3>2
    <3> QED
      BY <3>3 DEF q
  <2> QED
    BY <2>1 DEF DueTime, FieldsInv
<1>6. coupled' \in Nat /\ span' \in Nat /\ due' \in Nat /\ clear' \in BOOLEAN
  BY <1>1, <1>3, <1>5 DEF RunCleo, Averages
<1>7. acc' \in Fields
  BY <1>2, <1>4 DEF RunCleo
<1> QED
  BY <1>2, <1>3, <1>6, <1>7 DEF RunCleo

LEMMA FieldsPreserved == FieldsInv /\ [Next]_vars => FieldsInv'
<1> SUFFICES ASSUME FieldsInv, [Next]_vars PROVE FieldsInv'
  OBVIOUS
<1>1. ClockTypeOK'
  BY ClockSteps, TypePreserved DEF FieldsInv
<1>2. CASE FirstRecord \/ Record
  <2>1. /\ written' = Append(written, acc) /\ log' = Append(log, time)
        /\ UNCHANGED <<acc, clear, calls, coupled, span, due>>
    BY <1>2 DEF FirstRecord, Record, StoreField, WriteInitial, WriteOutput
  <2>2. written' \in Seq(Fields) /\ Len(written') = Len(written) + 1
    BY <2>1, AppendProperties DEF FieldsInv
  <2>3. Len(log') = Len(log) + 1
    BY <2>1, AppendProperties DEF FieldsInv, ClockTypeOK
  <2> QED
    BY <1>1, <2>1, <2>2, <2>3 DEF FieldsInv
<1>3. CASE RunStep
  <2>1. log' = log /\ written' = written /\ (RunP3 \/ RunCleo)
    BY <1>3 DEF RunStep, Advance
  <2>2. CASE RunP3
    BY <1>1, <2>1, <2>2, RunP3Fields DEF FieldsInv
  <2>3. CASE RunCleo
    BY <1>1, <2>1, <2>3, RunCleoFields DEF FieldsInv
  <2> QED
    BY <2>1, <2>2, <2>3
<1>4. CASE StartLoop \/ Close \/ Terminated \/ UNCHANGED vars
  <2>1. log' = log /\ UNCHANGED precipVars
    BY <1>4 DEF StartLoop, Close, Terminated, BeginRun, CloseHistory, ClockTerminated, clockVars, vars
  <2> QED
    BY <1>1, <2>1 DEF FieldsInv, precipVars
<1> QED
  BY <1>2, <1>3, <1>4 DEF Next

(* The field is divided by positive numbers only, and every record has its      *)
(* field, whatever the cadence.                                             *)
THEOREM PrecipTypeCorrect == Spec => []PrecipTypeOK
<1>1. FieldsInv => PrecipTypeOK
  BY FieldFacts DEF FieldsInv, PrecipTypeOK, Divisors
<1> QED
  BY <1>1, FieldsInitially, FieldsPreserved, PTL DEF Spec

---------------------------------------------------------------------------------
(* When contribution i starts, and the contributions from number a on, up to     *)
(* number b.                                                               *)
Start(i) == cfg.start + i * Length
Starts(a, b) == {Start(i) : i \in a..b - 1}

LEMMA LengthFacts ==
  ASSUME cfg \in Configs
  PROVE  /\ Length \in Nat \ {0}
         /\ cfg.scheme = "p3" => Length = cfg.dt
         /\ cfg.scheme = "cleo" => Length = cfg.couple
BY CadenceFacts DEF Length

LEMMA MultiplesDistinct ==
  ASSUME NEW d \in Nat \ {0}, NEW i \in Int, NEW j \in Int, i * d = j * d
  PROVE  i = j
BY Z3

LEMMA StartFacts ==
  ASSUME cfg \in Configs
  PROVE  /\ \A i, j \in Int : Start(i) = Start(j) => i = j
         /\ \A i \in Nat : Start(i) \in Nat
<1> DEFINE L == Length
           s == cfg.start
<1>1. L \in Nat \ {0} /\ s \in Nat
  BY LengthFacts, CadenceFacts
<1>2. ASSUME NEW i \in Int, NEW j \in Int, Start(i) = Start(j) PROVE i = j
  <2>1. s + i * L = s + j * L
    BY <1>2 DEF Start
  <2> HIDE DEF L, s
  <2>2. i * L \in Int /\ j * L \in Int
    BY <1>1, Z3
  <2>3. i * L = j * L
    BY <1>1, <2>1, <2>2
  <2> QED
    BY <1>1, <2>3, MultiplesDistinct
<1>3. ASSUME NEW i \in Nat PROVE Start(i) \in Nat
  <2>1. i * L \in Nat
    <3> HIDE DEF L
    <3> QED
      BY <1>1, Z3
  <2> QED
    BY <1>1, <2>1 DEF Start
<1> QED
  BY <1>2, <1>3

LEMMA StartsSplit ==
  ASSUME cfg \in Configs, NEW m \in Nat, NEW c \in Nat, m <= c
  PROVE  /\ Starts(0, m) \cup Starts(m, c) = Starts(0, c)
         /\ Starts(0, m) \cap Starts(m, c) = {}
         /\ Starts(m, c + 1) = Starts(m, c) \cup {Start(c)}
         /\ Start(c) \notin Starts(m, c)
         /\ Starts(m, m) = {}
<1>1. 0..c - 1 = (0..m - 1) \cup (m..c - 1)
  OBVIOUS
<1>2. m..(c + 1) - 1 = (m..c - 1) \cup {c}
  OBVIOUS
<1>3. m..m - 1 = {}
  OBVIOUS
<1>4. \A i, j \in Int : Start(i) = Start(j) => i = j
  BY StartFacts
<1>5. Starts(0, m) \cup Starts(m, c) = Starts(0, c)
  BY <1>1 DEF Starts
<1>6. Starts(0, m) \cap Starts(m, c) = {}
  <2> SUFFICES ASSUME NEW i \in 0..m - 1, NEW j \in m..c - 1, Start(i) = Start(j) PROVE FALSE
    BY DEF Starts
  <2> QED
    BY <1>4
<1>7. Starts(m, c + 1) = Starts(m, c) \cup {Start(c)}
  BY <1>2 DEF Starts
<1>8. Start(c) \notin Starts(m, c)
  <2> SUFFICES ASSUME NEW i \in m..c - 1, Start(i) = Start(c) PROVE FALSE
    BY DEF Starts
  <2> QED
    BY <1>4
<1>9. Starts(m, m) = {}
  BY <1>3 DEF Starts
<1> QED
  BY <1>5, <1>6, <1>7, <1>8, <1>9

LEMMA StartsCount ==
  ASSUME cfg \in Configs, NEW m \in Nat, NEW c \in Nat, m <= c
  PROVE  Cardinality(Starts(m, c)) = c - m
<1> DEFINE S == m..c - 1
           T == {Start(i) : i \in S}
           f == [i \in S |-> Start(i)]
<1>1. f \in [S -> T] /\ \A t \in T : \E i \in S : f[i] = t
  OBVIOUS
<1>2. \A a, b \in S : f[a] = f[b] => a = b
  BY StartFacts
<1>3. f \in Bijection(S, T)
  <2> HIDE DEF f, S, T
  <2> QED
    BY <1>1, <1>2, Fun_IsBij
<1>4. IsFiniteSet(S) /\ Cardinality(S) = c - m
  <2>1. PICK b \in Int : b = c - 1
    OBVIOUS
  <2>2. IsFiniteSet(m..b) /\ Cardinality(m..b) = IF m > b THEN 0 ELSE b - m + 1
    BY FS_Interval
  <2> QED
    BY <2>1, <2>2
<1>5. Cardinality(T) = Cardinality(S)
  <2> HIDE DEF f, S, T
  <2> QED
    BY <1>3, <1>4, FS_Bijection DEF ExistsBijection
<1> QED
  BY <1>4, <1>5 DEF Starts

LEMMA TailOfAppend ==
  ASSUME NEW S, NEW s \in Seq(S), s # <<>>, NEW e \in S
  PROVE  Tail(Append(s, e)) = Append(Tail(s), e)
<1> DEFINE n == Len(s)
           a == Append(s, e)
<1>1. n \in Nat \ {0} /\ Tail(s) \in Seq(S) /\ Len(Tail(s)) = n - 1
      /\ \A i \in 1..n - 1 : Tail(s)[i] = s[i + 1]
  BY EmptySeq, HeadTailProperties
<1>2. a \in Seq(S) /\ Len(a) = n + 1 /\ a[n + 1] = e /\ \A i \in 1..n : a[i] = s[i]
  BY AppendProperties
<1>3. a # <<>>
  BY <1>1, <1>2, EmptySeq
<1>4. Tail(a) \in Seq(S) /\ Len(Tail(a)) = n /\ \A i \in 1..n : Tail(a)[i] = a[i + 1]
  BY <1>1, <1>2, <1>3, HeadTailProperties
<1>5. /\ Append(Tail(s), e) \in Seq(S) /\ Len(Append(Tail(s), e)) = n
      /\ Append(Tail(s), e)[n] = e /\ \A i \in 1..n - 1 : Append(Tail(s), e)[i] = Tail(s)[i]
  BY <1>1, AppendProperties
<1> HIDE DEF n, a
<1>6. ASSUME NEW i \in 1..n PROVE Tail(a)[i] = Append(Tail(s), e)[i]
  <2>1. CASE i = n
    BY <1>1, <1>2, <1>4, <1>5, <2>1
  <2>2. CASE i # n
    <3>1. i \in 1..n - 1 /\ i + 1 \in 1..n
      BY <1>1, <2>2
    <3>2. Append(Tail(s), e)[i] = s[i + 1] /\ Tail(a)[i] = a[i + 1] /\ a[i + 1] = s[i + 1]
      BY <1>1, <1>2, <1>4, <1>5, <3>1
    <3> QED
      BY <3>2
  <2> QED
    BY <2>1, <2>2
<1> QED
  BY <1>4, <1>5, <1>6, SeqEqual DEF a

(* Whether the initial record is out of the way.                               *)
Begun ==
  /\ loop = "initial" => cfg.initial
  /\ loop \in {"setup", "initial"} => written = <<>>
  /\ (loop \notin {"setup", "initial"} /\ cfg.initial) => written # <<>>

LEMMA LoopWrittenGrows ==
  ASSUME FieldsInv, Begun
  PROVE  /\ LoopWritten \in Seq(Fields)
         /\ FirstRecord => LoopWritten = <<>> /\ LoopWritten' = <<>>
         /\ Record => LoopWritten' = Append(LoopWritten, acc)
<1>1. written \in Seq(Fields) /\ acc \in Fields /\ Len(written) \in Nat
  BY LenProperties DEF FieldsInv
<1>2. written # <<>> <=> Len(written) > 0
  BY <1>1, EmptySeq
<1>3. LoopWritten \in Seq(Fields)
  BY <1>1, <1>2, HeadTailProperties DEF LoopWritten
<1>4. ASSUME FirstRecord PROVE LoopWritten = <<>> /\ LoopWritten' = <<>>
  <2>1. written = <<>> /\ written' = Append(written, acc) /\ cfg' = cfg /\ cfg.initial
    BY <1>4 DEF FirstRecord, WriteInitial, StoreField, Begun
  <2>2. Len(written) = 0 /\ Len(written') > 0 /\ Tail(written') = <<>>
    BY <1>1, <2>1
  <2> QED
    BY <2>1, <2>2 DEF LoopWritten
<1>5. ASSUME Record PROVE LoopWritten' = Append(LoopWritten, acc)
  <2>1. written' = Append(written, acc) /\ cfg' = cfg /\ (cfg.initial => written # <<>>)
    BY <1>5 DEF Record, WriteOutput, StoreField, Begun
  <2>2. Len(written') = Len(written) + 1
    BY <1>1, <2>1, AppendProperties
  <2>3. CASE cfg.initial
    <3>1. written # <<>> /\ LoopWritten = Tail(written) /\ LoopWritten' = Tail(written')
      BY <1>1, <1>2, <2>1, <2>2, <2>3 DEF LoopWritten
    <3> QED
      BY <1>1, <2>1, <3>1, TailOfAppend
  <2>4. CASE ~cfg.initial
    BY <2>1, <2>4 DEF LoopWritten
  <2> QED
    BY <2>3, <2>4
<1> QED
  BY <1>3, <1>4, <1>5

---------------------------------------------------------------------------------
(* The strengthening.  Contributions are numbered from 0, c of them have been     *)
(* made and the records hold those before m.  While a window is open the field   *)
(* (but for what the next step clears) holds the others, undivided; when a       *)
(* record is due it holds their mean.  P3's count of calls and CLEO's due time    *)
(* say the same as the output clock.                                          *)
PerRecord == cfg.interval \div cfg.dt
Recorded == UNION {DOMAIN LoopWritten[k] : k \in 1..Len(LoopWritten)}

Progress(m, c) ==
  /\ cfg.scheme = "p3" =>
       /\ calls = c
       /\ time = cfg.start + c * cfg.dt
       /\ next = cfg.start + m * cfg.dt + cfg.interval
       /\ \E j \in Nat : m = j * PerRecord
       /\ IF loop = "output" THEN c = m + PerRecord ELSE c < m + PerRecord
  /\ cfg.scheme = "cleo" =>
       /\ coupled = c * cfg.couple
       /\ span = IF loop = "output" THEN 0 ELSE (c - m) * cfg.couple

Filling(m, c) ==
  /\ loop = "output" => /\ clear
                        /\ DOMAIN acc = Starts(m, c)
                        /\ \A t \in DOMAIN acc : acc[t] = <<(c - m) * Length>>
  /\ loop # "output" => /\ DOMAIN Cleared = Starts(m, c)
                        /\ \A t \in DOMAIN Cleared : Cleared[t] = <<>>
                        /\ clear => m = c /\ DOMAIN acc \subseteq Starts(0, m)

Accumulated(m, c) == m <= c /\ Recorded = Starts(0, m) /\ Progress(m, c) /\ Filling(m, c)

DuesMeet ==
  cfg.scheme = "cleo" =>
    \/ due = -1 /\ time = 0 /\ next = cfg.interval /\ loop # "output"
    \/ due = IF loop = "output" THEN next + cfg.interval ELSE next

Means == \A k \in 1..Len(LoopWritten) : IsMean(LoopWritten[k])
Apart == \A i, j \in 1..Len(LoopWritten) :
           i # j => DOMAIN LoopWritten[i] \cap DOMAIN LoopWritten[j] = {}

InStep(m, c) == Accumulated(m, c) /\ DuesMeet /\ Means /\ Apart

WindowInv ==
  /\ FieldsInv /\ Begun
  /\ Regular => \E m, c \in Nat : InStep(m, c)

LEMMA ProductOrder ==
  ASSUME NEW d \in Nat \ {0}, NEW a \in Nat, NEW b \in Nat
  PROVE  a < b <=> a * d < b * d
BY Z3

LEMMA Distributes ==
  ASSUME NEW a \in Int, NEW b \in Int, NEW d \in Int
  PROVE  (a + b) * d = a * d + b * d /\ (a + b) * d \in Int /\ a * d \in Int /\ b * d \in Int
BY Z3

LEMMA RemainderIs ==
  ASSUME NEW n \in Nat \ {0}, NEW q \in Nat, NEW r \in 0..n - 1
  PROVE  (q * n + r) % n = r
BY Z3

(* P3's number of steps between records, if dt divides the interval.             *)
LEMMA StepsPerRecord ==
  ASSUME cfg \in Configs, Regular, cfg.scheme = "p3"
  PROVE  /\ PerRecord \in Nat \ {0}
         /\ cfg.interval = PerRecord * cfg.dt
         /\ OutputSteps = PerRecord
<1> DEFINE I == cfg.interval
           d == cfg.dt
           n == I \div d
<1>1. I \in Nat \ {0} /\ d \in Nat \ {0} /\ I % d = 0
  BY CadenceFacts DEF Regular
<1>2. n \in Nat /\ I = n * d
  <2>1. n \in Nat /\ I = d * n + (I % d)
    BY <1>1, QuotientRemainder
  <2> HIDE DEF n, I, d
  <2>2. d * n = n * d /\ d * n \in Nat
    BY <1>1, <2>1, Z3
  <2> QED
    BY <1>1, <2>1, <2>2
<1>3. n # 0
  <2> HIDE DEF n, I, d
  <2> QED
    BY <1>1, <1>2
<1>4. (2 * I + d) \div (2 * d) = n
  <2> HIDE DEF n, I, d
  <2>1. PICK a \in Nat : a = 2 * I + d
    BY <1>1
  <2>2. PICK b \in Nat \ {0} : b = 2 * d
    BY <1>1
  <2>3. n * b = 2 * I /\ (n + 1) * b = 2 * I + 2 * d /\ n + 1 \in Nat
    BY <1>1, <1>2, <2>2, Z3
  <2>4. n * b <= a /\ a < (n + 1) * b
    BY <1>1, <2>1, <2>3
  <2>5. n <= a \div b /\ a \div b < n + 1 /\ a \div b \in Nat
    BY <1>2, <2>3, <2>4, IndexAgainstMultiple, QuotientBounds
  <2>6. a \div b = n
    BY <1>2, <2>5
  <2> QED
    BY <2>1, <2>2, <2>6
<1> QED
  BY <1>2, <1>3, <1>4 DEF PerRecord, OutputSteps

(* P3 takes the mean on the step after which a record is due.                   *)
LEMMA OutputStepIsLast ==
  ASSUME NEW n \in Nat \ {0}, NEW j \in Nat, NEW m \in Nat, m = j * n,
         NEW c \in Nat, m <= c, c < m + n
  PROVE  (c + 1) % n = 0 <=> c + 1 = m + n
<1>1. CASE c + 1 = m + n
  <2>1. c + 1 = (j + 1) * n + 0 /\ j + 1 \in Nat
    <3>1. (j + 1) * n = j * n + 1 * n /\ 1 * n = n
      BY Distributes
    <3> QED
      BY <1>1, <3>1
  <2>2. ((j + 1) * n + 0) % n = 0
    BY <2>1, RemainderIs
  <2> QED
    BY <1>1, <2>1, <2>2
<1>2. CASE c + 1 < m + n
  <2>1. PICK r \in 0..n - 1 : r = c + 1 - m
    BY <1>2
  <2>2. c + 1 = j * n + r /\ r # 0
    BY <2>1
  <2>3. (j * n + r) % n = r
    BY RemainderIs
  <2> QED
    BY <1>2, <2>2, <2>3
<1> QED
  BY <1>1, <1>2

(* A contribution is added to the open window.                                 *)
LEMMA WindowGains ==
  ASSUME FieldsInv, NEW m \in Nat, NEW c \in Nat, m <= c,
         DOMAIN Cleared = Starts(m, c), \A t \in DOMAIN Cleared : Cleared[t] = <<>>
  PROVE  LET f == AddAt(Cleared, Start(c))
         IN  /\ f \in Fields
             /\ DOMAIN f = Starts(m, c + 1)
             /\ \A t \in DOMAIN f : f[t] = <<>>
<1> DEFINE x == Start(c)
           f == AddAt(Cleared, x)
<1>0. cfg \in Configs
  BY DEF FieldsInv, ClockTypeOK
<1>1. x \in Nat
  BY <1>0, StartFacts
<1>2. Starts(m, c + 1) = Starts(m, c) \cup {x} /\ x \notin Starts(m, c)
  BY <1>0, StartsSplit
<1> HIDE DEF x
<1>3. /\ f \in Fields /\ DOMAIN f = DOMAIN Cleared \cup {x}
      /\ \A u \in DOMAIN Cleared : f[u] = Cleared[u]
      /\ x \notin DOMAIN Cleared => f[x] = <<>>
  BY <1>1, ClearedField, AddAtField
<1> HIDE DEF f
<1> QED
  BY <1>2, <1>3 DEF f, x

(* The field after a step holds the window, or its mean if a record is due.      *)
LEMMA StepFills ==
  ASSUME FieldsInv, cfg' = cfg, NEW m \in Nat, NEW c \in Nat, m <= c, NEW f \in Fields,
         DOMAIN f = Starts(m, c), \A t \in DOMAIN f : f[t] = <<>>,
         \/ /\ loop' = "output" /\ clear'
            /\ acc' = IF m < c THEN DividedBy(f, (c - m) * Length) ELSE f
         \/ loop' # "output" /\ ~clear' /\ acc' = f
  PROVE  Filling(m, c)'
<1>1. Length \in Nat \ {0} /\ Length' = Length
  BY LengthFacts DEF FieldsInv, ClockTypeOK, Length
<1>2. Starts(m, c)' = Starts(m, c) /\ ((c - m) * Length)' = (c - m) * Length
  BY <1>1 DEF Starts, Start
<1>3. CASE loop' = "output" /\ clear' /\ m < c
  <2>1. (c - m) * Length \in Nat \ {0}
    <3> DEFINE L == Length
    <3>1. c - m \in Nat \ {0} /\ L \in Nat \ {0}
      BY <1>1, <1>3
    <3> HIDE DEF L
    <3>2. \A a \in Nat \ {0}, b \in Nat \ {0} : a * b \in Nat \ {0}
      BY Z3
    <3> QED
      BY <3>1, <3>2 DEF L
  <2>2. /\ DOMAIN acc' = Starts(m, c)
        /\ \A t \in Starts(m, c) : acc'[t] = <<(c - m) * Length>>
    BY <1>3, <2>1, DividedField
  <2> QED
    BY <1>2, <1>3, <2>2 DEF Filling
<1>4. CASE loop' = "output" /\ clear' /\ ~(m < c)
  <2>1. Starts(m, c) = {}
    BY <1>1, <1>4, StartsSplit DEF FieldsInv, ClockTypeOK
  <2> QED
    BY <1>2, <1>4, <2>1 DEF Filling
<1>5. CASE loop' # "output" /\ ~clear' /\ acc' = f
  <2>1. Cleared' = f
    BY <1>5 DEF Cleared
  <2> QED
    BY <1>2, <1>5, <2>1 DEF Filling
<1> QED
  BY <1>3, <1>4, <1>5

(* P3: what is in the field and what the clock says stay in step.                *)
LEMMA P3Window ==
  ASSUME FieldsInv, Regular, cfg.scheme = "p3", Advance, RunP3, NEW m \in Nat, NEW c \in Nat,
         m <= c, Progress(m, c), Filling(m, c)
  PROVE  Progress(m, c + 1)' /\ Filling(m, c + 1)'
<1> DEFINE n == PerRecord
           d == cfg.dt
           s == cfg.start
<1>1. /\ loop = "step" /\ cfg' = cfg /\ next' = next /\ time' = time + d
      /\ loop' = IF time' >= next THEN "output" ELSE "step"
  BY DEF Advance
<1>2. /\ n \in Nat \ {0} /\ cfg.interval = n * d /\ OutputSteps = n /\ d \in Nat \ {0}
      /\ Length = d /\ PerRecord' = PerRecord /\ s \in Nat
  BY <1>1, StepsPerRecord, CadenceFacts, LengthFacts DEF FieldsInv, ClockTypeOK, PerRecord
<1>3. calls = c /\ time = s + c * d /\ next = s + m * d + n * d /\ c < m + n
  BY <1>1, <1>2 DEF Progress
<1>4. PICK j \in Nat : m = j * n
  BY DEF Progress
<1>5. AtOutputStep <=> c + 1 = m + n
  <2>1. AtOutputStep <=> (c + 1) % n = 0
    BY <1>2, <1>3 DEF AtOutputStep
  <2> HIDE DEF n
  <2> QED
    BY <1>2, <1>3, <1>4, <2>1, OutputStepIsLast
<1>6. /\ time' = s + (c + 1) * d
      /\ loop' = "output" <=> c + 1 = m + n
      /\ loop' \in {"step", "output"}
  <2> DEFINE x == (c + 1) * d
             y == (m + n) * d
  <2>1. /\ x \in Int /\ y \in Int /\ x = c * d + d /\ y = m * d + n * d
        /\ c * d \in Int /\ m * d \in Int /\ n * d \in Int
    <3>1. 1 * d = d
      BY <1>2
    <3> HIDE DEF n, d
    <3> QED
      BY <1>2, <3>1, Distributes
  <2>2. x < y <=> c + 1 < m + n
    <3> HIDE DEF n, d
    <3>1. c + 1 \in Nat /\ m + n \in Nat
      BY <1>2
    <3> QED
      BY <1>2, <3>1, ProductOrder
  <2> HIDE DEF x, y, n, d, s
  <2>3. time' = s + x /\ next = s + y
    BY <1>1, <1>2, <1>3, <2>1
  <2> QED
    BY <1>1, <1>2, <1>3, <2>1, <2>2, <2>3 DEF x
<1>7. Progress(m, c + 1)'
  <2>1. calls' = c + 1
    BY <1>3 DEF RunP3
  <2>2. next' = cfg'.start + m * cfg'.dt + cfg'.interval
    BY <1>1, <1>2, <1>3
  <2>3. IF loop' = "output" THEN c + 1 = m + PerRecord' ELSE c + 1 < m + PerRecord'
    BY <1>2, <1>3, <1>6
  <2>4. m = j * PerRecord' /\ cfg'.scheme = "p3" /\ time' = cfg'.start + (c + 1) * cfg'.dt
    BY <1>1, <1>2, <1>4, <1>6
  <2> QED
    BY <2>1, <2>2, <2>3, <2>4 DEF Progress
<1>8. Filling(m, c + 1)'
  <2> DEFINE f == AddAt(Cleared, Start(c))
  <2>1. f \in Fields /\ DOMAIN f = Starts(m, c + 1) /\ \A t \in DOMAIN f : f[t] = <<>>
    BY <1>1, WindowGains DEF Filling
  <2>2. f = AddAt(Cleared, time)
    BY <1>2, <1>3 DEF Start
  <2> HIDE DEF f
  <2>3. CASE loop' = "output"
    <3>1. clear' /\ acc' = DividedBy(f, cfg.interval)
      BY <1>5, <1>6, <2>2, <2>3 DEF RunP3
    <3>2. (c + 1) - m = n
      BY <1>2, <1>6, <2>3
    <3>3. ((c + 1) - m) * Length = cfg.interval
      BY <1>2, <3>2
    <3> QED
      BY <1>1, <2>1, <2>3, <3>1, <3>3, StepFills
  <2>4. CASE loop' # "output"
    <3>1. ~clear' /\ acc' = f
      BY <1>5, <1>6, <2>2, <2>4 DEF RunP3
    <3> QED
      BY <1>1, <2>1, <2>4, <3>1, StepFills
  <2> QED
    BY <2>3, <2>4
<1> QED
  BY <1>7, <1>8

(* CLEO: its due time is the output clock's, so that its window ends with it.     *)
LEMMA CleoWindow ==
  ASSUME FieldsInv, cfg.scheme = "cleo", Advance, RunCleo, NEW m \in Nat, NEW c \in Nat,
         m <= c, Progress(m, c), Filling(m, c), DuesMeet
  PROVE  \E e \in {c, c + 1} : Progress(m, e)' /\ Filling(m, e)' /\ DuesMeet'
<1> DEFINE L == cfg.couple
           I == cfg.interval
<1>1. /\ loop = "step" /\ cfg' = cfg /\ next' = next /\ time' = time + cfg.dt
      /\ loop' = IF time' >= next THEN "output" ELSE "step"
  BY DEF Advance
<1>2. /\ L \in Nat \ {0} /\ Length = L /\ I \in Nat \ {0} /\ cfg.dt \in Nat
      /\ time \in Nat /\ next \in Nat
  BY CadenceFacts, LengthFacts DEF FieldsInv, ClockTypeOK
<1>3. coupled = c * L /\ span = (c - m) * L
  BY <1>1 DEF Progress
<1>4. /\ DOMAIN Cleared = Starts(m, c) /\ \A t \in DOMAIN Cleared : Cleared[t] = <<>>
      /\ Cleared \in Fields
  BY <1>1, ClearedField DEF Filling
<1>5. DueTime = next
  <2>1. CASE due < 0
    <3>1. due = -1 /\ time = 0 /\ next = I
      BY <1>1, <1>2, <2>1 DEF DuesMeet
    <3>2. 0 \div I = 0
      <4>1. ASSUME NEW b \in Nat \ {0} PROVE 0 \div b = 0
        BY <4>1, Z3
      <4> QED
        BY <1>2, <4>1
    <3>3. (0 + 1) * I = I
      BY <1>2
    <3> QED
      BY <2>1, <3>1, <3>2, <3>3 DEF DueTime
  <2>2. CASE ~(due < 0)
    BY <1>1, <2>2 DEF DuesMeet, DueTime
  <2> QED
    BY <2>1, <2>2
<1>6. Averages <=> loop' = "output"
  BY <1>1, <1>5 DEF Averages
<1>7. DuesMeet'
  <2>1. due' = IF Averages THEN next + I ELSE next
    BY <1>5 DEF RunCleo
  <2> QED
    BY <1>1, <1>6, <2>1 DEF DuesMeet
<1>8. PICK e \in {c, c + 1} : e = IF Couples THEN c + 1 ELSE c
  OBVIOUS
<1>8a. e \in Nat /\ m <= e
  BY <1>8
<1>9. coupled' = e * L /\ Span = (e - m) * L
  <2>1. (c + 1) * L = c * L + L /\ (c + 1 - m) * L = (c - m) * L + L
    <3>1. 1 * L = L /\ L \in Int /\ c - m \in Int /\ c + 1 - m = (c - m) + 1
      BY <1>2
    <3> HIDE DEF L
    <3>2. (c + 1) * L = c * L + 1 * L /\ ((c - m) + 1) * L = (c - m) * L + 1 * L
      BY <3>1, Distributes
    <3> QED
      BY <3>1, <3>2
  <2> QED
    BY <1>3, <1>8, <2>1 DEF RunCleo, Span
<1>10. /\ Collected \in Fields /\ DOMAIN Collected = Starts(m, e)
       /\ \A t \in DOMAIN Collected : Collected[t] = <<>>
  <2>1. CASE Couples
    <3>1. coupled = Start(c)
      <4>1. cfg.start = 0 /\ L \in Int
        BY CadenceFacts DEF FieldsInv, ClockTypeOK
      <4>2. Start(c) = 0 + c * L
        BY <1>2, <4>1 DEF Start
      <4> HIDE DEF L
      <4>3. c * L \in Int
        BY <4>1, Z3
      <4> QED
        BY <1>3, <4>2, <4>3
    <3>2. Collected = AddAt(Cleared, Start(c))
      BY <2>1, <3>1 DEF Collected
    <3> QED
      BY <1>4, <1>8, <2>1, <3>2, WindowGains
  <2>2. CASE ~Couples
    BY <1>4, <1>8, <2>2 DEF Collected
  <2> QED
    BY <2>1, <2>2
<1>11. Progress(m, e)'
  <2>1. span' = IF loop' = "output" THEN 0 ELSE (e - m) * L
    BY <1>6, <1>9 DEF RunCleo
  <2> QED
    BY <1>1, <1>9, <2>1 DEF Progress
<1>12. Span > 0 <=> m < e
  <2>1. PICK k \in Nat : k = e - m
    BY <1>8, <1>8a
  <2>2. 0 * L < k * L <=> 0 < k
    <3> HIDE DEF L
    <3> QED
      BY <1>2, ProductOrder
  <2>3. 0 * L = 0 /\ Span = k * L
    BY <1>2, <1>9, <2>1
  <2> QED
    BY <1>8, <2>1, <2>2, <2>3
<1>13. Filling(m, e)'
  <2>1. CASE loop' = "output"
    <3>1. clear' /\ acc' = IF m < e THEN DividedBy(Collected, (e - m) * Length) ELSE Collected
      BY <1>2, <1>6, <1>9, <1>12, <2>1 DEF RunCleo
    <3> QED
      BY <1>1, <1>8, <1>8a, <1>10, <2>1, <3>1, StepFills
  <2>2. CASE loop' # "output"
    <3>1. ~clear' /\ acc' = Collected
      BY <1>6, <2>2 DEF RunCleo
    <3> QED
      BY <1>1, <1>8, <1>8a, <1>10, <2>2, <3>1, StepFills
  <2> QED
    BY <2>1, <2>2
<1> QED
  BY <1>7, <1>8, <1>11, <1>13, Zenon

LEMMA BegunInitially == Init => Begun
BY DEF Init, ClockInit, Begun

LEMMA BegunPreserved == FieldsInv /\ Begun /\ [Next]_vars => Begun'
<1> SUFFICES ASSUME FieldsInv, Begun, [Next]_vars PROVE Begun'
  OBVIOUS
<1>1. CASE FirstRecord \/ Record
  <2>1. /\ written' = Append(written, acc) /\ loop' = "step"
    BY <1>1 DEF FirstRecord, Record, StoreField, WriteInitial, WriteOutput
  <2>2. Len(written') = Len(written) + 1 /\ Len(written) \in Nat
    BY <2>1, AppendProperties, LenProperties DEF FieldsInv
  <2>3. written' # <<>>
    BY <2>2
  <2> QED
    BY <2>1, <2>3 DEF Begun
<1>2. CASE RunStep
  BY <1>2 DEF RunStep, Advance, Begun
<1>3. CASE StartLoop
  BY <1>3 DEF StartLoop, BeginRun, precipVars, Begun
<1>4. CASE Close
  BY <1>4 DEF Close, CloseHistory, precipVars, Begun
<1>5. CASE Terminated \/ UNCHANGED vars
  BY <1>5 DEF Terminated, ClockTerminated, clockVars, precipVars, vars, Begun
<1> QED
  BY <1>1, <1>2, <1>3, <1>4, <1>5 DEF Next

(* The first record of a run that starts at the time of one.                    *)
LEMMA FirstDueIs ==
  ASSUME cfg \in Configs, cfg.start % cfg.interval = 0
  PROVE  FirstDue(cfg) = cfg.start + cfg.interval
<1> DEFINE s == cfg.start
           i == cfg.interval
           q == s \div i
<1>1. s \in Nat /\ i \in Nat \ {0} /\ s % i = 0
  BY CadenceFacts
<1>2. q \in Nat /\ s = i * q + (s % i)
  BY <1>1, QuotientRemainder
<1>3. (q + 1) * i = s + i
  <2> HIDE DEF q
  <2>1. 1 * i = i
    BY <1>1
  <2> HIDE DEF s, i
  <2>2. (q + 1) * i = q * i + 1 * i /\ q * i \in Int
    BY <1>1, <1>2, Distributes
  <2>3. i * q = q * i
    BY <1>1, <1>2, Z3
  <2> QED
    BY <1>1, <1>2, <2>1, <2>2, <2>3
<1> QED
  BY <1>1, <1>3 DEF FirstDue

LEMMA InStepInitially ==
  ASSUME Init, Regular
  PROVE  InStep(0, 0)
<1>1. cfg \in Configs /\ loop = "setup" /\ time = cfg.start /\ next = FirstDue(cfg)
  BY DEF Init, ClockInit
<1>3. LoopWritten = <<>> /\ Len(LoopWritten) = 0
  BY DEF Init, LoopWritten
<1>4. Recorded = {} /\ Means /\ Apart
  BY <1>3 DEF Recorded, Means, Apart
<1>5. Starts(0, 0) = {}
  BY <1>1, StartsSplit
<1>6. Progress(0, 0)
  <2>1. CASE cfg.scheme = "p3"
    <3>1. /\ PerRecord \in Nat \ {0} /\ cfg.dt \in Nat \ {0} /\ cfg.interval \in Nat
          /\ cfg.start \in Nat
      BY <1>1, <2>1, StepsPerRecord, CadenceFacts
    <3>2. 0 * cfg.dt = 0 /\ 0 = 0 * PerRecord
      BY <3>1
    <3>3. next = cfg.start + cfg.interval
      BY <1>1, <2>1, FirstDueIs DEF Regular
    <3>4. time = cfg.start + 0 * cfg.dt /\ next = cfg.start + 0 * cfg.dt + cfg.interval
      BY <1>1, <3>1, <3>2, <3>3
    <3> QED
      BY <1>1, <2>1, <3>1, <3>2, <3>4 DEF Init, Progress
  <2>2. CASE cfg.scheme = "cleo"
    <3>1. cfg.couple \in Nat
      BY <1>1, <2>2, CadenceFacts
    <3>2. 0 * cfg.couple = 0 /\ (0 - 0) * cfg.couple = 0
      BY <3>1
    <3> QED
      BY <1>1, <2>2, <3>2 DEF Init, Progress
  <2> QED
    BY <1>1, <2>1, <2>2, CadenceFacts
<1>7. Filling(0, 0)
  <2>1. Cleared = acc /\ DOMAIN acc = {}
    BY EmptyField DEF Init, Cleared
  <2> QED
    BY <1>1, <1>5, <2>1 DEF Init, Filling
<1>8. DuesMeet
  <2>1. cfg.scheme = "cleo" => cfg.start = 0
    BY <1>1, CadenceFacts
  <2> QED
    BY <1>1, <2>1 DEF Init, DuesMeet, FirstDue
<1> QED
  BY <1>4, <1>5, <1>6, <1>7, <1>8 DEF InStep, Accumulated

(* Steps that are not about the field.                                         *)
LEMMA InStepAside ==
  ASSUME NEW m \in Nat, NEW c \in Nat, InStep(m, c), LoopWritten' = LoopWritten,
         UNCHANGED <<cfg, time, next, acc, clear, calls, coupled, span, due>>,
         (loop' = "output") <=> (loop = "output")
  PROVE  InStep(m, c)'
<1>1. Length' = Length /\ PerRecord' = PerRecord /\ Cleared' = Cleared
  BY DEF Length, PerRecord, Cleared
<1>2. Starts(0, m)' = Starts(0, m) /\ Starts(m, c)' = Starts(m, c)
  BY <1>1 DEF Starts, Start
<1>3. Recorded' = Recorded
  BY DEF Recorded
<1>4. Progress(m, c)'
  BY <1>1 DEF InStep, Accumulated, Progress
<1>5. Filling(m, c)'
  BY <1>1, <1>2 DEF InStep, Accumulated, Filling
<1>6. DuesMeet'
  BY DEF InStep, DuesMeet
<1>7. Means' /\ Apart'
  BY <1>1 DEF InStep, Means, Apart, IsMean
<1> QED
  BY <1>2, <1>3, <1>4, <1>5, <1>6, <1>7 DEF InStep, Accumulated

(* A step of the model.                                                      *)
LEMMA InStepRun ==
  ASSUME FieldsInv, Regular, RunStep, NEW m \in Nat, NEW c \in Nat, InStep(m, c)
  PROVE  \E e \in Nat : InStep(m, e)'
<1>1. cfg' = cfg /\ written' = written /\ Advance /\ (RunP3 \/ RunCleo)
  BY DEF RunStep, Advance
<1>2. LoopWritten' = LoopWritten /\ Length' = Length
  BY <1>1 DEF LoopWritten, Length
<1>3. Recorded' = Recorded /\ Starts(0, m)' = Starts(0, m) /\ Means' /\ Apart'
  BY <1>1, <1>2 DEF InStep, Recorded, Starts, Start, Means, Apart, IsMean
<1>4. CASE RunP3
  <2>1. Progress(m, c + 1)' /\ Filling(m, c + 1)' /\ cfg.scheme = "p3"
    BY <1>1, <1>4, P3Window DEF InStep, Accumulated, RunP3
  <2>2. DuesMeet' /\ c + 1 \in Nat /\ m <= c + 1
    BY <1>1, <2>1 DEF DuesMeet, InStep, Accumulated
  <2> QED
    BY <1>3, <2>1, <2>2 DEF InStep, Accumulated
<1>5. CASE RunCleo
  <2>1. PICK e \in {c, c + 1} : Progress(m, e)' /\ Filling(m, e)' /\ DuesMeet'
    BY <1>1, <1>5, CleoWindow DEF InStep, Accumulated, RunCleo
  <2>2. e \in Nat /\ m <= e
    BY <2>1 DEF InStep, Accumulated
  <2> QED
    BY <1>3, <2>1, <2>2 DEF InStep, Accumulated
<1> QED
  BY <1>1, <1>4, <1>5

(* A record: it holds the window, and the next one starts where it ends.          *)
LEMMA InStepRecord ==
  ASSUME FieldsInv, Begun, Regular, Record, NEW m \in Nat, NEW c \in Nat, InStep(m, c)
  PROVE  InStep(c, c)'
<1> DEFINE n == Len(LoopWritten)
<1>1. /\ loop = "output" /\ loop' = "step" /\ next' = next + cfg.interval
      /\ UNCHANGED <<cfg, time, acc, clear, calls, coupled, span, due>>
  BY DEF Record, WriteOutput, StoreField
<1>2. Length \in Nat \ {0} /\ Length' = Length /\ PerRecord' = PerRecord
  BY <1>1, LengthFacts DEF FieldsInv, ClockTypeOK, Length, PerRecord
<1>3. /\ m <= c /\ Recorded = Starts(0, m) /\ clear
      /\ DOMAIN acc = Starts(m, c) /\ \A t \in DOMAIN acc : acc[t] = <<(c - m) * Length>>
  BY <1>1 DEF InStep, Accumulated, Filling
<1>4. /\ Starts(0, m) \cup Starts(m, c) = Starts(0, c) /\ Starts(0, m) \cap Starts(m, c) = {}
      /\ Starts(c, c) = {}
  BY <1>3, StartsSplit DEF FieldsInv, ClockTypeOK
<1>5. Starts(0, c)' = Starts(0, c) /\ Starts(c, c)' = Starts(c, c)
  BY <1>1, <1>2 DEF Starts, Start
<1>6. /\ n \in Nat /\ LoopWritten' = Append(LoopWritten, acc) /\ Len(LoopWritten') = n + 1
      /\ LoopWritten'[n + 1] = acc /\ \A k \in 1..n : LoopWritten'[k] = LoopWritten[k]
  <2>1. LoopWritten \in Seq(Fields) /\ LoopWritten' = Append(LoopWritten, acc) /\ acc \in Fields
    BY LoopWrittenGrows DEF FieldsInv
  <2> QED
    BY <2>1, AppendProperties, LenProperties
<1>7. \A k \in 1..n : DOMAIN LoopWritten[k] \subseteq Starts(0, m)
  BY <1>3 DEF Recorded
<1> HIDE DEF n
<1>8. \A k \in 1..n + 1 : k = n + 1 \/ k \in 1..n
  BY <1>6
<1>9. Recorded' = Starts(0, c)
  <2>1. Recorded = UNION {DOMAIN LoopWritten[k] : k \in 1..n}
    BY DEF Recorded, n
  <2>2. Recorded' = UNION {DOMAIN LoopWritten'[k] : k \in 1..n + 1}
    BY <1>6 DEF Recorded
  <2>3. Recorded' \subseteq Recorded \cup DOMAIN acc
    BY <1>6, <1>8, <2>1, <2>2
  <2>4. Recorded \subseteq Recorded'
    <3>1. \A k \in 1..n : k \in 1..n + 1
      BY <1>6
    <3> QED
      BY <1>6, <2>1, <2>2, <3>1
  <2>5. DOMAIN acc \subseteq Recorded'
    <3>1. n + 1 \in 1..n + 1
      BY <1>6
    <3> QED
      BY <1>6, <2>2, <3>1
  <2> QED
    BY <1>3, <1>4, <2>3, <2>4, <2>5
<1>10. Means'
  <2>1. Cardinality(DOMAIN acc) = c - m
    BY <1>3, StartsCount DEF FieldsInv, ClockTypeOK
  <2>2. IsMean(acc)
    BY <1>3, <2>1 DEF IsMean
  <2>3. ASSUME NEW k \in 1..n + 1 PROVE IsMean(LoopWritten'[k])
    BY <1>6, <1>8, <2>2 DEF InStep, Means, n
  <2>4. ASSUME NEW k \in 1..n + 1
        PROVE  \A t \in DOMAIN LoopWritten'[k] :
                  LoopWritten'[k][t] = <<Cardinality(DOMAIN LoopWritten'[k]) * Length'>>
    BY <1>2, <2>3 DEF IsMean
  <2> QED
    BY <1>6, <2>4 DEF Means, IsMean
<1>11. Apart'
  <2> SUFFICES ASSUME NEW i \in 1..n + 1, NEW j \in 1..n + 1, i # j
               PROVE  DOMAIN LoopWritten'[i] \cap DOMAIN LoopWritten'[j] = {}
    BY <1>6 DEF Apart
  <2>1. CASE i \in 1..n /\ j \in 1..n
    BY <1>6, <2>1 DEF InStep, Apart, n
  <2>2. CASE i = n + 1 /\ j \in 1..n
    BY <1>3, <1>4, <1>6, <1>7, <2>2
  <2>3. CASE i \in 1..n /\ j = n + 1
    BY <1>3, <1>4, <1>6, <1>7, <2>3
  <2> QED
    BY <1>8, <2>1, <2>2, <2>3
<1>12. Progress(c, c)'
  <2>1. CASE cfg.scheme = "p3"
    <3> DEFINE p == PerRecord
               d == cfg.dt
               s == cfg.start
    <3>1. /\ p \in Nat \ {0} /\ cfg.interval = p * d /\ d \in Nat \ {0} /\ s \in Nat
      BY <2>1, StepsPerRecord, CadenceFacts DEF FieldsInv, ClockTypeOK
    <3>2. /\ calls = c /\ time = s + c * d /\ next = s + m * d + cfg.interval /\ c = m + p
          /\ \E j \in Nat : m = j * p
      BY <1>1, <2>1 DEF InStep, Accumulated, Progress
    <3>3. PICK j \in Nat : m = j * p
      BY <3>2
    <3>4. /\ c * d = m * d + p * d /\ c * d \in Int /\ m * d \in Int /\ p * d \in Int
          /\ c = (j + 1) * p /\ j + 1 \in Nat
      <4> HIDE DEF p, d
      <4>1. 1 * p = p
        BY <3>1
      <4> QED
        BY <3>1, <3>2, <3>3, <4>1, Distributes
    <3>5. next' = s + c * d + cfg.interval /\ c < c + p
      <4> HIDE DEF p, d, s
      <4> QED
        BY <1>1, <3>1, <3>2, <3>4
    <3> QED
      BY <1>1, <1>2, <2>1, <3>2, <3>4, <3>5 DEF Progress
  <2>2. CASE cfg.scheme = "cleo"
    <3>1. cfg.couple \in Nat
      BY <2>2, CadenceFacts DEF FieldsInv, ClockTypeOK
    <3>2. (c - c) * cfg.couple = 0
      BY <3>1
    <3> QED
      BY <1>1, <2>2, <3>2 DEF InStep, Accumulated, Progress
  <2> QED
    BY <2>1, <2>2, CadenceFacts DEF FieldsInv, ClockTypeOK
<1>13. Filling(c, c)'
  <2>1. Cleared' = Empty /\ DOMAIN Empty = {}
    BY <1>1, <1>3, EmptyField DEF Cleared
  <2> QED
    BY <1>1, <1>3, <1>4, <1>5, <2>1 DEF Filling
<1>14. DuesMeet'
  BY <1>1 DEF InStep, DuesMeet
<1> QED
  BY <1>5, <1>9, <1>10, <1>11, <1>12, <1>13, <1>14 DEF InStep, Accumulated

LEMMA WindowInvPreserved == WindowInv /\ [Next]_vars => WindowInv'
<1> SUFFICES ASSUME WindowInv, [Next]_vars PROVE WindowInv'
  OBVIOUS
<1>1. FieldsInv /\ Begun /\ FieldsInv' /\ Begun'
  BY FieldsPreserved, BegunPreserved DEF WindowInv
<1>2. cfg' = cfg /\ Regular' = Regular
  BY DEF Next, vars, clockVars, StartLoop, FirstRecord, RunStep, Record, Close, Terminated, BeginRun,
         WriteInitial, Advance, WriteOutput, CloseHistory, ClockTerminated, Regular
<1>3. ASSUME Regular PROVE \E m, c \in Nat : InStep(m, c)'
  <2>1. PICK m \in Nat, c \in Nat : InStep(m, c)
    BY <1>3 DEF WindowInv
  <2>2. CASE StartLoop \/ Close \/ Terminated \/ UNCHANGED vars
    <3>1. /\ LoopWritten' = LoopWritten /\ (loop' = "output" <=> loop = "output")
          /\ UNCHANGED <<cfg, time, next, acc, clear, calls, coupled, span, due>>
      BY <2>2 DEF StartLoop, Close, Terminated, BeginRun, CloseHistory, ClockTerminated, clockVars,
                  precipVars, vars, LoopWritten
    <3> QED
      BY <2>1, <3>1, InStepAside
  <2>3. CASE FirstRecord
    <3>1. /\ loop' = "output" <=> loop = "output"
          /\ UNCHANGED <<cfg, time, next, acc, clear, calls, coupled, span, due>>
      BY <2>3 DEF FirstRecord, WriteInitial, StoreField
    <3>2. LoopWritten' = LoopWritten
      BY <1>1, <2>3, LoopWrittenGrows
    <3> QED
      BY <2>1, <3>1, <3>2, InStepAside
  <2>4. CASE RunStep
    BY <1>1, <1>3, <2>1, <2>4, InStepRun
  <2>5. CASE Record
    BY <1>1, <1>3, <2>1, <2>5, InStepRecord
  <2> QED
    BY <2>2, <2>3, <2>4, <2>5 DEF Next
<1> QED
  BY <1>1, <1>2, <1>3 DEF WindowInv

LEMMA WindowInvInitially == Init => WindowInv
<1> SUFFICES ASSUME Init PROVE WindowInv
  OBVIOUS
<1>1. Regular => InStep(0, 0)
  BY InStepInitially
<1> QED
  BY <1>1, FieldsInitially, BegunInitially DEF WindowInv

(* P3's count of calls and CLEO's own test of the clock end their windows when    *)
(* main.cpp writes the record, so every record holds the mean over its window,     *)
(* whatever dt, interval and coupling step, and P3's after a restart from a record.*)
THEOREM RecordsHoldMeans == Spec => []RecordsAreMeans
<1>1. WindowInv => RecordsAreMeans
  BY DEF WindowInv, InStep, Means, RecordsAreMeans
<1> QED
  BY <1>1, WindowInvInitially, WindowInvPreserved, PTL DEF Spec

LEMMA ContributedIs ==
  ASSUME FieldsInv, NEW m \in Nat, NEW c \in Nat, Progress(m, c)
  PROVE  Contributed = Starts(0, c)
<1>1. Length \in Nat \ {0} /\ cfg.scheme \in {"p3", "cleo"} /\ cfg \in Configs
  BY LengthFacts, CadenceFacts DEF FieldsInv, ClockTypeOK
<1>2. CASE cfg.scheme = "p3"
  <2>1. calls = c /\ cfg.dt = Length
    BY <1>1, <1>2, LengthFacts DEF Progress
  <2> QED
    BY <1>2, <2>1 DEF Contributed, Starts, Start
<1>3. CASE cfg.scheme = "cleo"
  <2> DEFINE L == cfg.couple
  <2>1. coupled = c * L /\ Length = L /\ L \in Nat \ {0} /\ cfg.start = 0
    BY <1>1, <1>3, LengthFacts, CadenceFacts DEF Progress
  <2>2. coupled \div L = c
    <3> HIDE DEF L
    <3>1. ASSUME NEW a \in Nat, NEW b \in Nat \ {0} PROVE (a * b) \div b = a
      BY <3>1, Z3
    <3> QED
      BY <2>1, <3>1
  <2>3. \A i \in Int : Start(i) = i * L
    <3>1. \A i \in Int : Start(i) = 0 + i * L
      BY <2>1 DEF Start
    <3>2. \A i \in Int : i * L \in Int
      <4>1. L \in Int
        BY <2>1
      <4> HIDE DEF L
      <4> QED
        BY <4>1, Distributes
    <3> HIDE DEF L
    <3> QED
      BY <3>1, <3>2
  <2>4. Contributed = {i * L : i \in 0..c - 1}
    BY <1>3, <2>2 DEF Contributed
  <2>5. \A i \in 0..c - 1 : i \in Int
    OBVIOUS
  <2> HIDE DEF L
  <2> QED
    BY <2>3, <2>4, <2>5 DEF Starts
<1> QED
  BY <1>1, <1>2, <1>3

(* No contribution of the microphysics is lost between two records or counted in   *)
(* both: each is in one record of the loop, or still in the field.                *)
THEOREM RainIsCountedOnce == Spec => []RainCountedOnce
<1>1. WindowInv => RainCountedOnce
  <2> SUFFICES ASSUME WindowInv, Regular PROVE RainCountedOnce
    BY DEF RainCountedOnce
  <2>1. PICK m \in Nat, c \in Nat : InStep(m, c)
    BY DEF WindowInv
  <2>2. m <= c /\ Recorded = Starts(0, m) /\ Apart /\ Contributed = Starts(0, c)
    BY <2>1, ContributedIs DEF InStep, Accumulated, WindowInv
  <2>3. Starts(0, m) \cup Starts(m, c) = Starts(0, c)
    BY <2>2, StartsSplit DEF WindowInv, FieldsInv, ClockTypeOK
  <2>4. Recorded \cup DOMAIN acc = Contributed
    <3>1. CASE loop = "output"
      BY <2>1, <2>2, <2>3, <3>1 DEF InStep, Accumulated, Filling
    <3>2. CASE loop # "output" /\ clear
      BY <2>1, <2>2, <3>2 DEF InStep, Accumulated, Filling
    <3>3. CASE loop # "output" /\ ~clear
      BY <2>1, <2>2, <2>3, <3>3 DEF InStep, Accumulated, Filling, Cleared
    <3> QED
      BY <3>1, <3>2, <3>3
  <2> QED
    BY <2>2, <2>4 DEF RainCountedOnce, Apart, Recorded
<1> QED
  BY <1>1, WindowInvInitially, WindowInvPreserved, PTL DEF Spec
=================================================================================
