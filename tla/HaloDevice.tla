------------------------------- MODULE HaloDevice -------------------------------
(***************************************************************************)
(* What the two halo exchanges (HaloMpi, HaloNccl) share: the ranks and their *)
(* neighbours, a field with its halos and the message buffers on the device of *)
(* each rank, and the kernels that read and write them.                      *)
(*                                                                         *)
(* Kernels are asynchronous: the host puts them in the rank's queue and the    *)
(* device runs them later, in order.  The buffers are shared by every          *)
(* exchange.  A message holds its strip as (layer, position along the face).   *)
(***************************************************************************)
EXTENDS Sequences, SequencesExt, HaloGeometry

VARIABLES todo,      \* todo[r]: what is left to the host of r of the exchange it called
          queue,     \* queue[r]: kernels launched on the device of r and not finished
          field,     \* field[r]: the field on the device, by local cell <<i, j>>
          sendbuf,   \* sendbuf[r][slot], recvbuf[r][slot]: the message buffers
          recvbuf,
          sending,   \* sending[r], receiving[r]: sides with an MPI request in flight
          receiving,
          wire       \* wire[<<r, s, tag>>]: messages from r to s, in order

vars == <<layout, todo, queue, field, sendbuf, recvbuf, sending, receiving, wire>>

(* An operation of the host or the device: over an axis, at a depth, along the *)
(* whole of a face or its interior part, and, for an unpack, whether it writes *)
(* a side that has no neighbour.                                            *)
Op(o, axis, d) == [op |-> o, axis |-> axis, depth |-> d, whole |-> TRUE, always |-> FALSE]
Stencil(g) == [op |-> "stencil", gen |-> g]

HostOp(r) == Head(todo[r])
Doing(r, o) == todo[r] # <<>> /\ HostOp(r).op = o
Done(r) == todo' = [todo EXCEPT ![r] = Tail(@)]

---------------------------------------------------------------------------------
(* A value is the generation and the global cell that computed it.           *)
Garbage == <<0, <<-1, -1>>>>
ValueAt(r, c, g) == <<g, Origin(r, c)>>

(* NCCL uses the upper halves of two buffers as well.                        *)
Slots == AllSides \cup {"upper right", "upper top"}
InX(slot) == slot \in {"left", "right", "upper right"}
Strip(r, slot) ==
  (0..Halo - 1) \X (IF InX(slot) THEN 0..SizeY(r) + 2 * Halo - 1
                                 ELSE 0..SizeX(r) + 2 * Halo - 1)

CellOf(side, layer, along) == IF side \in Sides("x") THEN <<layer, along>> ELSE <<along, layer>>

(* First layer of what is packed for a side, and of the halo on that side.   *)
PackedFrom(r, side, d) ==
  CASE side \in {"left", "bottom"} -> Halo
    [] side = "right" -> Halo + SizeX(r) - d
    [] side = "top"   -> Halo + SizeY(r) - d
HaloFrom(r, side, d) ==
  CASE side \in {"left", "bottom"} -> Halo - d
    [] side = "right" -> Halo + SizeX(r)
    [] side = "top"   -> Halo + SizeY(r)

---------------------------------------------------------------------------------
(* Kokkos::parallel_for and the calls of NCCL return at once: the host launches *)
(* every kernel up to the next operation that waits.                         *)
KernelOps == {"stencil", "fill", "periodic", "pack", "unpack", "copy", "group"}
Launchable(ops, n) ==
  /\ \A i \in 1..n : ops[i].op \in KernelOps
  /\ n < Len(ops) => ops[n + 1].op \notin KernelOps

LaunchOf(r, ops) ==
  /\ \E n \in 1..Len(ops) :
       /\ Launchable(ops, n)
       /\ queue' = [queue EXCEPT ![r] = @ \o SubSeq(ops, 1, n)]
       /\ todo' = [todo EXCEPT ![r] = SubSeq(ops, n + 1, Len(ops))]
  /\ UNCHANGED <<layout, field, sendbuf, recvbuf, sending, receiving, wire>>
Launch(r) == LaunchOf(r, todo[r])

---------------------------------------------------------------------------------
(* The kernels.                                                            *)
Kernel(r) == Head(queue[r])
AtHead(r, op) == queue[r] # <<>> /\ Kernel(r).op = op
Runs(r, op) == AtHead(r, op) /\ queue' = [queue EXCEPT ![r] = Tail(@)]

RunStencil(r) ==
  /\ Runs(r, "stencil")
  /\ field' = [field EXCEPT ![r] =
       [c \in Cells(r) |-> IF c \in Interior(r) THEN ValueAt(r, c, Kernel(r).gen) ELSE @[c]]]
  /\ UNCHANGED <<layout, todo, sendbuf, recvbuf, sending, receiving, wire>>

(* fill_periodic_x_halo, fill_periodic_y_halo: `depth' layers on both sides   *)
(* are copied from the other end of the axis; fill_singleton_x_halo and _y     *)
(* call them for an axis of one plane.                                       *)
RunFill(r) ==
  /\ Runs(r, "fill") \/ Runs(r, "periodic")
  /\ LET d == Kernel(r).depth
         i == IF Kernel(r).axis = "x" THEN 1 ELSE 2
         size == IF Kernel(r).op = "fill" THEN 1 ELSE IF i = 1 THEN SizeX(r) ELSE SizeY(r)
         place(c) == c[i] - Halo
         filled(c) == place(c) \in (-d..size + d - 1) \ (0..size - 1)
     IN  field' = [field EXCEPT ![r] =
           [c \in Cells(r) |->
              IF filled(c) THEN @[[c EXCEPT ![i] = Halo + (place(c) % size)]] ELSE @[c]]]
  /\ UNCHANGED <<layout, todo, sendbuf, recvbuf, sending, receiving, wire>>

(* What a pack or unpack kernel moves: the layers up to its depth, along the   *)
(* whole face, halo cells of the other axis included, or its interior part.   *)
Moves(r, p) ==
  /\ p[1] \in 0..Kernel(r).depth - 1
  /\ Kernel(r).whole \/ p[2] - Halo \in 0..(IF Kernel(r).axis = "x" THEN SizeY(r) ELSE SizeX(r)) - 1

RunPackInterior(r) ==                                                          \* mutant
  /\ Runs(r, "pack")
  /\ LET cell(s, p) == CellOf(s, PackedFrom(r, s, Kernel(r).depth) + p[1], p[2])
         packed(s) == [p \in Strip(r, s) |->
           IF Moves(r, p) /\ cell(s, p) \in Interior(r) THEN field[r][cell(s, p)]
                                                              ELSE sendbuf[r][s][p]]
     IN  sendbuf' = [sendbuf EXCEPT ![r] =
           [s \in Slots |-> IF s \in Sides(Kernel(r).axis) THEN packed(s) ELSE @[s]]]
  /\ UNCHANGED <<layout, todo, field, recvbuf, sending, receiving, wire>>

RunPack(r) ==
  /\ Runs(r, "pack")
  /\ LET cell(s, p) == CellOf(s, PackedFrom(r, s, Kernel(r).depth) + p[1], p[2])
         packed(s) == [p \in Strip(r, s) |->
           IF Moves(r, p) THEN field[r][cell(s, p)] ELSE sendbuf[r][s][p]]
     IN  sendbuf' = [sendbuf EXCEPT ![r] =
           [s \in Slots |-> IF s \in Sides(Kernel(r).axis) THEN packed(s) ELSE @[s]]]
  /\ UNCHANGED <<layout, todo, field, recvbuf, sending, receiving, wire>>

(* The halo layers on each side that has a neighbour.                        *)
RunUnpack(r) ==
  /\ Runs(r, "unpack")
  /\ LET across == IF Kernel(r).axis = "x" THEN 1 ELSE 2
         spot(s, c) == <<c[across] - HaloFrom(r, s, Kernel(r).depth), c[3 - across]>>
         landing(c) == {s \in Sides(Kernel(r).axis) :
                         (HasNeighbour(r, s) \/ Kernel(r).always) /\ Moves(r, spot(s, c))}
     IN  field' = [field EXCEPT ![r] =
           [c \in Cells(r) |->
              IF landing(c) = {} THEN @[c]
              ELSE LET s == CHOOSE s \in landing(c) : TRUE IN recvbuf[r][s][spot(s, c)]]]
  /\ UNCHANGED <<layout, todo, sendbuf, recvbuf, sending, receiving, wire>>

DeviceNext(r) == Launch(r) \/ RunStencil(r) \/ RunFill(r) \/ RunPack(r) \/ RunUnpack(r)
=================================================================================
