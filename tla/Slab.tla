---------------------------------- MODULE Slab ----------------------------------
(***************************************************************************)
(* How one axis of the global grid is divided.                             *)
(*                                                                         *)
(* Three pieces of code divide an axis of n cells over p ranks: the model  *)
(* decomposition (core/grid/Grid.cpp), the rows an I/O server rank relays  *)
(* (io/sst/IOServer.cpp) and, intersected with the configured output       *)
(* window, the block each compute rank writes (io/bp5/Bp5FieldSchema.cpp,  *)
(* io/OutputManager.cpp).  Cells are numbered from 0, as in the code.      *)
(***************************************************************************)
EXTENDS Integers

(* get_local_range: the first `rem' ranks take one row more than the rest. *)
LocalStart(n, p, r) ==
  IF r < (n % p) THEN r * (n \div p + 1) ELSE r * (n \div p) + (n % p)

LocalCount(n, p, r) == IF r < (n % p) THEN n \div p + 1 ELSE n \div p

LocalRange(n, p, r) ==
  LocalStart(n, p, r) .. LocalStart(n, p, r) + LocalCount(n, p, r) - 1

(* Grid::calculate_local_grid_distribution places the same slab with       *)
(* coords * base + min(coords, remainder).                                 *)
MinOf(a, b) == IF a < b THEN a ELSE b
MaxOf(a, b) == IF a < b THEN b ELSE a

GridStart(n, p, c) == c * (n \div p) + MinOf(c, n % p)
GridCount(n, p, c) == n \div p + (IF c < n % p THEN 1 ELSE 0)
GridRange(n, p, c) == GridStart(n, p, c) .. GridStart(n, p, c) + GridCount(n, p, c) - 1

(* normalize_axis: an end of -1 means the last cell; anything else outside  *)
(* 0..n-1, or an empty window, is refused.                                 *)
WindowEnd(n, hi) == IF hi = -1 THEN n - 1 ELSE hi
WindowUnbounded(n, lo, hi) == n > 0 /\ 0 <= lo /\ lo <= WindowEnd(n, hi)       \* mutant
WindowAccepted(n, lo, hi) ==
  /\ n > 0
  /\ 0 <= lo
  /\ lo <= WindowEnd(n, hi)
  /\ WindowEnd(n, hi) < n

(* intersect_axis: the part of a rank's cells that lies in the window, as a *)
(* global start, a count, and the place of its first cell in the rank's     *)
(* memory, which begins with `halo' halo cells.                            *)
NoIntersection == [start |-> 0, count |-> 0, memory_start |-> 0]

IntersectAxisWithoutHalo(rankStart, rankCount, outStart, outEnd, halo) ==        \* mutant
  LET first == MaxOf(rankStart, outStart)
      last  == MinOf(rankStart + rankCount - 1, outEnd)
  IN  IF rankCount = 0 \/ last < first THEN NoIntersection
      ELSE [start |-> first, count |-> last - first + 1, memory_start |-> first - rankStart]

IntersectAxis(rankStart, rankCount, outStart, outEnd, halo) ==
  LET first == MaxOf(rankStart, outStart)
      last  == MinOf(rankStart + rankCount - 1, outEnd)
  IN  IF rankCount = 0 \/ last < first
      THEN NoIntersection
      ELSE [start |-> first, count |-> last - first + 1,
            memory_start |-> first - rankStart + halo]
=================================================================================
