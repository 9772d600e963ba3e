------------------------------- MODULE OutputWindow -------------------------------
(***************************************************************************)
(* One history record of a horizontal field, restricted to output.output_grid *)
(* (io/bp5/Bp5FieldSchema.cpp, Bp5HistoryWriter.cpp; OutputManager.cpp does    *)
(* the same arithmetic).                                                   *)
(*                                                                         *)
(* The configured bounds are checked, every rank intersects them with its     *)
(* slab, the ranks check together that their blocks add up to the window,     *)
(* and each puts its block from memory that has halo cells around the slab.   *)
(* The vertical axis is not divided and is left out.                         *)
(***************************************************************************)
EXTENDS FiniteSetsExt, Slab

CONSTANTS Requests,   \* [y, x]: for each axis its cells n, ranks p and bounds lo, hi
          Halo       \* grid.n_halo_cells

(* The bounds are whatever integers the configuration holds.                  *)
ASSUME RequestsAssumption ==
  /\ Halo \in Nat
  /\ \A q \in Requests : \A a \in {q.y, q.x} :
       a.n \in Nat /\ a.p \in Nat \ {0} /\ a.lo \in Int /\ a.hi \in Int

VARIABLES req,     \* the grid and the bounds of this run, never changed
          stage,   \* "configured", "selected", "writing", "written", "refused" or "uncovered"
          put,     \* ranks that have put their block
          array    \* the global array of the dataset: what has been put into each cell

windowVars == <<req, stage, put, array>>

Ranks == (0..req.y.p - 1) \X (0..req.x.p - 1)
Cells == (0..req.y.n - 1) \X (0..req.x.n - 1)

(* Bp5FieldSchema::selection, one axis of one rank                            *)
AxisSelection(a, c) ==
  IntersectAxis(GridStart(a.n, a.p, c), GridCount(a.n, a.p, c), a.lo, WindowEnd(a.n, a.hi), Halo)

Selection(r) == [y |-> AxisSelection(req.y, r[1]), x |-> AxisSelection(req.x, r[2])]
Elements(r) == Selection(r).y.count * Selection(r).x.count

(* A rank's memory: a cell holds the place it stands for, or is a halo cell.  *)
OutsideSlab == -1
Place(a, c, m) ==
  IF m - Halo \in 0..GridCount(a.n, a.p, c) - 1 THEN GridStart(a.n, a.p, c) + m - Halo
  ELSE OutsideSlab
Memory(r, j, i) == <<Place(req.y, r[1], j), Place(req.x, r[2], i)>>

WindowInit ==
  /\ req \in Requests
  /\ stage = "configured"
  /\ put = {}
  /\ array = [c \in Cells |-> {}]

(* parse_bounds: normalize_axis of each axis                                 *)
ParseBounds ==
  /\ stage = "configured"
  /\ stage' = IF /\ WindowAccepted(req.y.n, req.y.lo, req.y.hi)
                 /\ WindowAccepted(req.x.n, req.x.lo, req.x.hi)
              THEN "selected" ELSE "refused"
  /\ UNCHANGED <<req, put, array>>

(* validate_coverage: MPI_Allreduce of the ranks' elements                    *)
WindowSize(a) == WindowEnd(a.n, a.hi) - a.lo + 1

ValidateCoverage ==
  /\ stage = "selected"
  /\ stage' = IF MapThenSumSet(Elements, Ranks) = WindowSize(req.y) * WindowSize(req.x)
              THEN "writing" ELSE "uncovered"
  /\ UNCHANGED <<req, put, array>>

(* Put with SetSelection(start, count) and SetMemorySelection(memory_start);   *)
(* an empty block is skipped.                                               *)
BlockRange(s) == s.start .. s.start + s.count - 1

PutBlock(r) ==
  /\ stage = "writing" /\ r \notin put
  /\ LET s == Selection(r)
     IN  array' = [c \in Cells |->
           IF c \in BlockRange(s.y) \X BlockRange(s.x)
           THEN array[c] \cup {<<r, Memory(r, s.y.memory_start + c[1] - s.y.start,
                                             s.x.memory_start + c[2] - s.x.start)>>}
           ELSE array[c]]
  /\ put' = put \cup {r}
  /\ UNCHANGED <<req, stage>>

(* Every rank ends the step.                                                *)
EndStep ==
  /\ stage = "writing" /\ put = Ranks
  /\ stage' = "written"
  /\ UNCHANGED <<req, put, array>>

Finished == stage \in {"written", "refused", "uncovered"} /\ UNCHANGED windowVars

WindowNext == ParseBounds \/ ValidateCoverage \/ (\E r \in Ranks : PutBlock(r)) \/ EndStep \/ Finished

WindowSpec == WindowInit /\ [][WindowNext]_windowVars

---------------------------------------------------------------------------------
(* The window the user asked for, in cells of the global grid.               *)
Window == (req.y.lo..WindowEnd(req.y.n, req.y.hi)) \X (req.x.lo..WindowEnd(req.x.n, req.x.hi))

(* However the grid is divided and in whatever order the ranks put, each cell  *)
(* of the window has been put once, from the memory of that very cell, and no  *)
(* other cell of the dataset has been put at all.                            *)
WindowWrittenOnce ==
  stage = "written" =>
    \A c \in Cells : IF c \in Window THEN \E r \in Ranks : array[c] = {<<r, c>>}
                                     ELSE array[c] = {}

(* "BP5 rank selections do not cover the requested ... output domain exactly   *)
(* once": the writer never stops a run over bounds it has accepted.            *)
CoverageHolds == stage # "uncovered"
=================================================================================
