------------------------------ MODULE HaloExchange ------------------------------
(***************************************************************************)
(* The halo exchange of VVM, over MPI (HaloMpi) or NCCL (HaloNccl).            *)
(*                                                                         *)
(* Every rank runs the same script: a kernel computes the field of the next    *)
(* generation from the halos, then an exchange fills the halos again; a last   *)
(* computation reads the halos of the last exchange.  Either library is shown  *)
(* to implement HaloFill.                                                    *)
(***************************************************************************)
EXTENDS HaloMpi, HaloNccl

(* Both libraries offer the same exchanges under the same names.             *)
Exchange(r, kind) == IF layout.lib = "mpi" THEN MpiExchange(layout, kind) ELSE NcclExchange(r, kind)

VARIABLE called      \* called[r]: the exchanges rank r has called

Calls == Len(layout.script)
Turn(r, g) == <<Stencil(g)>> \o Exchange(r, layout.script[g])
                \o (IF g = Calls THEN <<Stencil(g + 1)>> ELSE <<>>)

Tags == IF layout.lib = "mpi" THEN Families \X AllSides ELSE {"nccl"}

Init ==
  /\ layout \in Layouts
  /\ called = [r \in Ranks |-> 0]
  /\ todo = [r \in Ranks |-> <<>>]
  /\ queue = [r \in Ranks |-> <<>>]
  /\ field = [r \in Ranks |-> [c \in Cells(r) |-> Garbage]]
  /\ sendbuf = [r \in Ranks |-> [s \in Slots |-> [p \in Strip(r, s) |-> Garbage]]]
  /\ recvbuf = sendbuf
  /\ sending = [r \in Ranks |-> {}]
  /\ receiving = [r \in Ranks |-> {}]
  /\ wire = [ch \in Ranks \X Ranks \X Tags |-> <<>>]

(* The host returns from an exchange, launches the next computation and calls  *)
(* the next exchange.                                                       *)
Call(r) ==
  /\ todo[r] = <<>> /\ called[r] < Calls
  /\ called' = [called EXCEPT ![r] = @ + 1]
  /\ LaunchOf(r, Turn(r, called[r] + 1))

Finished(r) == called[r] = Calls /\ todo[r] = <<>> /\ queue[r] = <<>>
Terminated == (\A r \in Ranks : Finished(r)) /\ UNCHANGED <<vars, called>>

Run(r) == (DeviceNext(r) \/ MpiNext(r) \/ NcclNext(r)) /\ UNCHANGED called

Next == (\E r \in Ranks : Call(r) \/ Run(r)) \/ Terminated

(* Every behaviour is finite (each step runs an operation, a kernel or a       *)
(* message of the script), so that a state without a successor other than      *)
(* Terminated is a deadlock of the exchange.                                 *)
Spec == Init /\ [][Next]_<<vars, called>>

---------------------------------------------------------------------------------
(* Every rank is in its script; every queue holds kernels; a pack or unpack    *)
(* moves one layer or all; and a request belongs to a side.                  *)
TypeOK ==
  /\ layout \in Layouts
  /\ called \in [Ranks -> 0..Calls]
  /\ DOMAIN todo = Ranks
  /\ \A r \in Ranks : \A i \in 1..Len(queue[r]) :
       /\ queue[r][i].op \in KernelOps
       /\ queue[r][i].op \in {"pack", "unpack", "fill"} => queue[r][i].depth \in {1, Halo}
  /\ \A r \in Ranks : DOMAIN field[r] = Cells(r)
  /\ sending \in [Ranks -> SUBSET AllSides]
  /\ receiving \in [Ranks -> SUBSET AllSides]

(* The field of rank r holds what exchange number g promises.                *)
Fresh(r, g) == \A c \in Needed(r, layout.script[g]) : field[r][c] = ValueAt(r, c, g)
Neighbours(r) == {Neighbour(r, s) : s \in {t \in AllSides : HasNeighbour(r, t)}}

(* When a stencil kernel reads the field, every cell the exchange before it   *)
(* promises, outer layers and corners included, holds what the owning rank    *)
(* computed in that same generation, whatever the order in which kernels,     *)
(* messages and hosts ran: no stale layer, no send of a buffer not yet packed, *)
(* no message taken for another.                                            *)
StencilReadsFreshHalos ==
  \A r \in Ranks :
    (AtHead(r, "stencil") /\ Kernel(r).gen > 1) => Fresh(r, Kernel(r).gen - 1)

(* MPI never reads a send buffer that a queued kernel is still to pack, nor    *)
(* writes a receive buffer that a queued kernel is still to unpack: the one   *)
(* fence of each post is enough for the shared buffers of all exchanges.      *)
BuffersNotRaced ==
  \A r \in Ranks : \A i \in 1..Len(queue[r]) :
    LET k == queue[r][i]
    IN  /\ k.op = "pack" => sending[r] \cap Sides(k.axis) = {}
        /\ k.op = "unpack" => receiving[r] \cap Sides(k.axis) = {}

(* A library may buffer what a rank sends before the neighbour has received    *)
(* the exchange before: waiting for its own messages keeps a rank one exchange *)
(* ahead, so that no more than two messages with the same source, destination  *)
(* and tag are in flight; and when all ranks are done, every message has been  *)
(* received.                                                               *)
OneExchangeAhead ==
  /\ \A ch \in DOMAIN wire : Len(wire[ch]) <= 2
  /\ (\A r \in Ranks : Finished(r)) => \A ch \in DOMAIN wire : wire[ch] = <<>>

(* The generation in the interior of a rank and the one that fills its halo.   *)
Generation(r) == field[r][<<Halo, Halo>>][1]
FilledHalo(r) ==
  LET g == Generation(r)
  IN  IF g = 0 \/ (g <= Len(layout.script) /\ Fresh(r, g)) THEN g ELSE g - 1

HaloFill == INSTANCE HaloFill WITH
  near     <- [r \in Ranks |-> Neighbours(r)],
  computed <- [r \in Ranks |-> Generation(r)],
  filled   <- [r \in Ranks |-> FilledHalo(r)]

(* Both libraries implement the fill: no rank computes from a halo that does   *)
(* not hold the generation all its neighbours have computed.                 *)
ImplementsHaloFill == HaloFill!Spec
=================================================================================
