------------------------------ MODULE HaloGeometry ------------------------------
(***************************************************************************)
(* The ranks of a layout, their neighbours, the cells of their fields, and     *)
(* which halo cells an exchange promises to fill.                             *)
(***************************************************************************)
EXTENDS Integers, Sequences, Slab

CONSTANTS Layouts,   \* [lib, px, py, nx, ny, wrapx, wrapy, eager, script]: the library, ranks,
                     \* cells, periodic axes, whether NCCL buffers a message, exchanges
          Halo       \* grid.n_halo_cells

Kinds == {"full", "shallow", "face", "slice", "batch"}
Libraries == {"mpi", "nccl"}

ASSUME HaloAssumption ==
  /\ Halo \in Nat \ {0}
  /\ \A l \in Layouts :
       /\ l.lib \in Libraries
       /\ l.px \in Nat \ {0} /\ l.py \in Nat \ {0}
       /\ l.nx \in Nat \ {0} /\ l.ny \in Nat \ {0}
       /\ l.wrapx \in BOOLEAN /\ l.wrapy \in BOOLEAN /\ l.eager \in BOOLEAN
       /\ l.script \in Seq(Kinds)
       \* Grid refuses a tile narrower than the halo, and never divides a singleton axis
       /\ IF l.nx = 1 THEN l.px = 1 ELSE l.nx \div l.px >= Halo
       /\ IF l.ny = 1 THEN l.py = 1 ELSE l.ny \div l.py >= Halo

VARIABLE layout      \* the layout of this run, never changed

---------------------------------------------------------------------------------
(* Geometry: a rank is its place <<cx, cy>> in the Cartesian communicator.   *)
RanksOf(l) == (0..l.px - 1) \X (0..l.py - 1)
Ranks == RanksOf(layout)

SizeX(r) == GridCount(layout.nx, layout.px, r[1])
SizeY(r) == GridCount(layout.ny, layout.py, r[2])
Interior(r) == (Halo..Halo + SizeX(r) - 1) \X (Halo..Halo + SizeY(r) - 1)
Cells(r) == (0..SizeX(r) + 2 * Halo - 1) \X (0..SizeY(r) + 2 * Halo - 1)

(* The global column and row a local cell stands for, before wrapping.       *)
Column(r, c) == GridStart(layout.nx, layout.px, r[1]) + c[1] - Halo
Row(r, c)    == GridStart(layout.ny, layout.py, r[2]) + c[2] - Halo

Singleton(l, axis) == IF axis = "x" THEN l.nx = 1 ELSE l.ny = 1
Sides(axis) == IF axis = "x" THEN {"left", "right"} ELSE {"bottom", "top"}
AllSides == {"left", "right", "bottom", "top"}
Opposite == [left |-> "right", right |-> "left", bottom |-> "top", top |-> "bottom"]

(* MPI_Cart_shift: the neighbour on a side; across a bounded edge there is   *)
(* none (MPI_PROC_NULL).                                                    *)
Shift == [left |-> <<-1, 0>>, right |-> <<1, 0>>, bottom |-> <<0, -1>>, top |-> <<0, 1>>]
Shifted(r, side) == <<r[1] + Shift[side][1], r[2] + Shift[side][2]>>
Neighbour(r, side) == <<Shifted(r, side)[1] % layout.px, Shifted(r, side)[2] % layout.py>>
HasNeighbour(r, side) ==
  \/ IF side \in Sides("x") THEN layout.wrapx ELSE layout.wrapy
  \/ Shifted(r, side) \in Ranks

(* The global cell a local cell is or, in a halo, is a copy of.              *)
Origin(r, c) == <<Column(r, c) % layout.nx, Row(r, c) % layout.ny>>

---------------------------------------------------------------------------------
(* The cells an exchange must fill: those whose value some rank computes     *)
(* (not those outside a bounded edge); for a shallow exchange one layer, for   *)
(* the face exchange one layer and no corners.                               *)
Owned(r, c) ==
  /\ layout.wrapx \/ Singleton(layout, "x") \/ Column(r, c) \in 0..layout.nx - 1
  /\ layout.wrapy \/ Singleton(layout, "y") \/ Row(r, c) \in 0..layout.ny - 1

InsideX(r, c, d) == c[1] - Halo \in -d..SizeX(r) + d - 1
InsideY(r, c, d) == c[2] - Halo \in -d..SizeY(r) + d - 1

Promised(r, kind, c) ==
  CASE kind = "face"    -> \/ InsideX(r, c, 1) /\ InsideY(r, c, 0)
                           \/ InsideX(r, c, 0) /\ InsideY(r, c, 1)
    [] kind = "shallow" -> InsideX(r, c, 1) /\ InsideY(r, c, 1)
    [] OTHER            -> TRUE

Needed(r, kind) == {c \in Cells(r) : Owned(r, c) /\ Promised(r, kind, c)}
=================================================================================
