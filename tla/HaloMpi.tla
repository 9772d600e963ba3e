-------------------------------- MODULE HaloMpi --------------------------------
(***************************************************************************)
(* The exchanges of HaloExchangerMPI.hpp.  An exchange is a list of host       *)
(* operations: fill (a singleton axis), or pack, post and wait.  Only the      *)
(* fence before a post waits for the queue.  MPI reads a send buffer and       *)
(* writes a receive buffer at any time between the post and the end of the     *)
(* wait.                                                                    *)
(***************************************************************************)
EXTENDS HaloDevice

(* SEND_TO_LEFT, SLICE_SEND_TO_LEFT, ...: the tag names the family of the     *)
(* exchange and the side a message is sent to; a receive on a side expects    *)
(* what the neighbour there sent to the opposite side.                       *)
Families == {"SEND", "SLICE_SEND"}
SendTag(family, side) == <<family, side>>
RecvTag(family, side) == <<family, Opposite[side]>>

HostOpOf(o, axis, d, family) ==
  [op |-> o, axis |-> axis, depth |-> d, whole |-> TRUE, always |-> FALSE, family |-> family]
Start(axis, d, f) == <<HostOpOf("pack", axis, d, f), HostOpOf("post", axis, d, f)>>
Finish(axis, d, f) == <<HostOpOf("wait", axis, d, f)>>
Fill(axis, d, f) == <<HostOpOf("fill", axis, d, f)>>

(* post_exchange_halo_x and _y fill a singleton axis on the spot and leave    *)
(* nothing to wait for.                                                     *)
Begin(l, axis, d) == IF Singleton(l, axis) THEN Fill(axis, d, "SEND") ELSE Start(axis, d, "SEND")
End(l, axis, d)   == IF Singleton(l, axis) THEN <<>> ELSE Finish(axis, d, "SEND")

(* exchange_halos and the 2-D batch: Y completely, then X, so that X carries *)
(* the Y halos into the corners.                                            *)
FullExchange(l, d) == Begin(l, "y", d) \o End(l, "y", d) \o Begin(l, "x", d) \o End(l, "x", d)

FaceExchangeNoLayer(l) == Begin(l, "x", 0) \o Begin(l, "y", 0)                 \* mutant
                            \o End(l, "x", 0) \o End(l, "y", 0)

(* exchange_face_halos: one layer, both axes posted before either wait.      *)
FaceExchange(l) == Begin(l, "x", 1) \o Begin(l, "y", 1) \o End(l, "x", 1) \o End(l, "y", 1)

(* The slice and the 3-D batch fill singleton axes first.                    *)
FillSingletons(l, f) == (IF Singleton(l, "y") THEN Fill("y", Halo, f) ELSE <<>>)
                          \o (IF Singleton(l, "x") THEN Fill("x", Halo, f) ELSE <<>>)
Active(l, axis, f) == IF Singleton(l, axis) THEN <<>>
                      ELSE Start(axis, Halo, f) \o Finish(axis, Halo, f)

(* exchange_halos_slice: Y, then X, with tags of its own.                    *)
SliceExchange(l) == FillSingletons(l, "SLICE_SEND") \o Active(l, "y", "SLICE_SEND")
                      \o Active(l, "x", "SLICE_SEND")

(* exchange_multiple_halos over 3-D fields: X, then Y.                       *)
BatchExchange(l) == FillSingletons(l, "SEND") \o Active(l, "x", "SEND") \o Active(l, "y", "SEND")

MpiExchange(l, kind) ==
  CASE kind = "full"    -> FullExchange(l, Halo)
    [] kind = "shallow" -> FullExchange(l, 1)
    [] kind = "face"    -> FaceExchange(l)
    [] kind = "slice"   -> SliceExchange(l)
    [] kind = "batch"   -> BatchExchange(l)

---------------------------------------------------------------------------------
(* The host.                                                               *)

Unfenced(r) == TRUE                                                            \* mutant
(* Kokkos::fence, then Irecv and Isend for each side that has a neighbour.   *)
Fenced(r) == queue[r] = <<>>

Post(r) ==
  /\ Doing(r, "post")
  /\ Fenced(r)
  /\ LET sides == {s \in Sides(HostOp(r).axis) : HasNeighbour(r, s)}
     IN  /\ sending' = [sending EXCEPT ![r] = @ \cup sides]
         /\ receiving' = [receiving EXCEPT ![r] = @ \cup sides]
  /\ Done(r)
  /\ UNCHANGED <<layout, queue, field, sendbuf, recvbuf, wire>>

WaitForSends(r) ==                                                             \* mutant
  /\ Doing(r, "wait")
  /\ sending[r] \cap Sides(HostOp(r).axis) = {}
  /\ queue' = [queue EXCEPT ![r] = Append(@, [HostOp(r) EXCEPT !.op = "unpack"])]
  /\ receiving' = [receiving EXCEPT ![r] = {}]
  /\ Done(r)
  /\ UNCHANGED <<layout, field, sendbuf, recvbuf, sending, wire>>

(* MPI_Waitall, then the unpack kernel, which is not waited for.             *)
Wait(r) ==
  /\ Doing(r, "wait")
  /\ (sending[r] \cup receiving[r]) \cap Sides(HostOp(r).axis) = {}
  /\ queue' = [queue EXCEPT ![r] = Append(@, [HostOp(r) EXCEPT !.op = "unpack"])]
  /\ Done(r)
  /\ UNCHANGED <<layout, field, sendbuf, recvbuf, sending, receiving, wire>>

(* MPI: a message leaves its send buffer, and reaches a posted receive.  A    *)
(* rank with a request in flight is still in the exchange that posted it.    *)
Family(r) == HostOp(r).family

Inject(r, side) ==
  /\ side \in sending[r]
  /\ LET ch == <<r, Neighbour(r, side), SendTag(Family(r), side)>>
     IN  wire' = [wire EXCEPT ![ch] = Append(@, sendbuf[r][side])]
  /\ sending' = [sending EXCEPT ![r] = @ \ {side}]
  /\ UNCHANGED <<layout, todo, queue, field, sendbuf, recvbuf, receiving>>

Deliver(r, side) ==
  /\ side \in receiving[r]
  /\ LET ch == <<Neighbour(r, side), r, RecvTag(Family(r), side)>>
     IN  /\ wire[ch] # <<>>
         /\ recvbuf' = [recvbuf EXCEPT ![r][side] = Head(wire[ch])]
         /\ wire' = [wire EXCEPT ![ch] = Tail(@)]
  /\ receiving' = [receiving EXCEPT ![r] = @ \ {side}]
  /\ UNCHANGED <<layout, todo, queue, field, sendbuf, sending>>

MpiNext(r) ==
  \/ Post(r) \/ Wait(r)
  \/ \E side \in AllSides : Inject(r, side) \/ Deliver(r, side)
=================================================================================
