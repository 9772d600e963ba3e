-------------------------------- MODULE HaloNccl -------------------------------
(***************************************************************************)
(* The exchanges of HaloExchangerNCCL.hpp.  Packing, messages and unpacking    *)
(* are all kernels of one stream, in order: the host enqueues an exchange and  *)
(* goes on, or synchronizes once at its end.  A group of sends and receives is *)
(* one kernel.  Messages have no tags: the k-th receive from a rank gets the   *)
(* k-th message it sent.                                                    *)
(***************************************************************************)
EXTENDS HaloDevice

Low(axis)  == IF axis = "x" THEN "left" ELSE "bottom"
High(axis) == IF axis = "x" THEN "right" ELSE "top"
Upper(axis) == IF axis = "x" THEN "upper right" ELSE "upper top"

SingleRank == layout.px * layout.py = 1
AnySingleton == Singleton(layout, "x") \/ Singleton(layout, "y")

(* The neighbour on both sides is the rank itself, or one other rank.        *)
SelfNeighbour(r, axis) == HasNeighbour(r, Low(axis)) /\ Neighbour(r, Low(axis)) = r
NotCombined(r, axis) == FALSE                                                  \* mutant
SameRemote(r, axis) ==
  /\ \A s \in Sides(axis) : HasNeighbour(r, s)
  /\ Neighbour(r, Low(axis)) = Neighbour(r, High(axis))
  /\ ~SelfNeighbour(r, axis)

(* A deep_copy between buffers, and a message of one or two strips.          *)
Copy(from, to) == [op |-> "copy", from |-> from, to |-> to]
Payload(peer, slots) == [peer |-> peer, slots |-> slots]
ToSide(r, s) == IF HasNeighbour(r, s) THEN <<Payload(Neighbour(r, s), <<s>>)>> ELSE <<>>
Group(sends, recvs) == <<[op |-> "group", sends |-> sends, recvs |-> recvs]>>

(* Before the messages: a rank that is its own neighbour copies what it would  *)
(* send; two ranks that face each other on both sides append the low strip to  *)
(* the high one, so that one ordered message carries both.                   *)
Prepare(r, axis) ==
  IF SelfNeighbour(r, axis)
    THEN <<Copy(<<"send", High(axis)>>, <<"recv", Low(axis)>>),
           Copy(<<"send", Low(axis)>>, <<"recv", High(axis)>>)>>
  ELSE IF SameRemote(r, axis)
    THEN <<Copy(<<"send", Low(axis)>>, <<"send", Upper(axis)>>)>>
  ELSE <<>>

(* After them: the halves of a combined message go to their sides, the half    *)
(* that lies in the place of the other one first.                            *)
Split(r, axis) ==
  IF SameRemote(r, axis)
    THEN <<Copy(<<"recv", High(axis)>>, <<"recv", Low(axis)>>),
           Copy(<<"recv", Upper(axis)>>, <<"recv", High(axis)>>)>>
  ELSE <<>>

Sends(r, axis) ==
  IF SelfNeighbour(r, axis) THEN <<>>
  ELSE IF SameRemote(r, axis)
    THEN <<Payload(Neighbour(r, High(axis)), <<High(axis), Upper(axis)>>)>>
  ELSE ToSide(r, High(axis)) \o ToSide(r, Low(axis))

(* The receives of a group, from the sides in the order they are called.      *)
Recvs(r, axis, first, second) ==
  IF SelfNeighbour(r, axis) THEN <<>>
  ELSE IF SameRemote(r, axis)
    THEN <<Payload(Neighbour(r, Low(axis)), <<High(axis), Upper(axis)>>)>>
  ELSE ToSide(r, first) \o ToSide(r, second)

(* One axis of exchange_halos_impl, the slice and the batches.               *)
Axis(r, axis, d, always) ==
  IF Singleton(layout, axis) THEN <<>>
  ELSE <<Op("pack", axis, d)>> \o Prepare(r, axis)
         \o Group(Sends(r, axis), Recvs(r, axis, Low(axis), High(axis)))
         \o Split(r, axis)
         \o <<[Op("unpack", axis, d) EXCEPT !.always = always]>>

Periodic(d) == <<Op("periodic", "x", d), Op("periodic", "y", d)>>
SingletonFills(d) == (IF Singleton(layout, "x") THEN <<Op("fill", "x", d)>> ELSE <<>>)
                       \o (IF Singleton(layout, "y") THEN <<Op("fill", "y", d)>> ELSE <<>>)

(* exchange_halos_impl.                                                     *)
NcclFull(r, d) ==
  IF SingleRank THEN Periodic(d)
  ELSE SingletonFills(d) \o Axis(r, "x", d, FALSE) \o Axis(r, "y", d, FALSE)

(* exchange_multiple_halos over 2-D fields: the same for each of them, two     *)
(* fields sharing a kernel, and never a synchronization.                     *)
NcclPlanes(r, d) == NcclFull(r, d)

(* exchange_multiple_halos over 3-D fields.                                 *)
NcclBatch(r) == SingletonFills(Halo) \o Axis(r, "x", Halo, SingleRank)
                                     \o Axis(r, "y", Halo, SingleRank)

NcclSlice(r) ==
  IF SingleRank /\ AnySingleton THEN Periodic(Halo)
  ELSE SingletonFills(Halo) \o Axis(r, "y", Halo, FALSE) \o Axis(r, "x", Halo, FALSE)

(* exchange_face_halos_impl: both axes are packed from the interior and go     *)
(* in one group.                                                            *)
Interiorly(o, axis) == [Op(o, axis, 1) EXCEPT !.whole = FALSE]
NcclFace(r) ==
  IF SingleRank \/ AnySingleton THEN NcclFull(r, 1)
  ELSE <<Interiorly("pack", "x"), Interiorly("pack", "y")>>
         \o Prepare(r, "x") \o Prepare(r, "y")
         \o Group(Sends(r, "x") \o Sends(r, "y"),
                  Recvs(r, "x", "right", "left") \o Recvs(r, "y", "top", "bottom"))
         \o Split(r, "x") \o Split(r, "y")
         \o <<Interiorly("unpack", "x"), Interiorly("unpack", "y")>>

NcclKernels(r, kind) ==
  CASE kind = "full"    -> NcclFull(r, Halo)
    [] kind = "shallow" -> NcclPlanes(r, 1)
    [] kind = "face"    -> NcclFace(r)
    [] kind = "slice"   -> NcclSlice(r)
    [] kind = "batch"   -> NcclBatch(r)

(* exchange_halos synchronizes at full depth only, and not on a single rank.  *)
Synchronizes(kind) == kind \in {"slice", "batch"} \/ (kind = "full" /\ ~SingleRank)

(* exchange_halos, exchange_multiple_halos, exchange_face_halos.             *)
NcclExchange(r, kind) ==
  NcclKernels(r, kind) \o (IF Synchronizes(kind) THEN <<[op |-> "sync"]>> ELSE <<>>)

---------------------------------------------------------------------------------
(* cudaStreamSynchronize                                                   *)
Synchronize(r) ==
  /\ Doing(r, "sync")
  /\ queue[r] = <<>>
  /\ Done(r)
  /\ UNCHANGED <<layout, queue, field, sendbuf, recvbuf, sending, receiving, wire>>

---------------------------------------------------------------------------------
(* The stream.                                                             *)
Buffer(r, b) == IF b[1] = "send" THEN sendbuf[r][b[2]] ELSE recvbuf[r][b[2]]

RunCopy(r) ==
  /\ Runs(r, "copy")
  /\ LET value == Buffer(r, Kernel(r).from)
         to == Kernel(r).to
     IN  IF to[1] = "send" THEN sendbuf' = [sendbuf EXCEPT ![r][to[2]] = value] /\ UNCHANGED recvbuf
                           ELSE recvbuf' = [recvbuf EXCEPT ![r][to[2]] = value] /\ UNCHANGED sendbuf
  /\ UNCHANGED <<layout, todo, field, sending, receiving, wire>>

(* The operations of a group proceed together, those with the same peer in     *)
(* the order they were called.                                              *)
Untagged(r, s) == <<r, s, "nccl">>
LeftOf(r, group) == queue' = [queue EXCEPT ![r] = [@ EXCEPT ![1] = group]]
NextFor(ops, i) == \A j \in 1..i - 1 : ops[j].peer # ops[i].peer

GroupSend(r) ==
  /\ AtHead(r, "group")
  /\ LET ops == Kernel(r).sends
     IN  \E i \in DOMAIN ops :
           /\ NextFor(ops, i)
           /\ wire' = [wire EXCEPT ![Untagged(r, ops[i].peer)] =
                         Append(@, [j \in DOMAIN ops[i].slots |-> sendbuf[r][ops[i].slots[j]]])]
           /\ LeftOf(r, [Kernel(r) EXCEPT !.sends = RemoveAt(ops, i)])
  /\ UNCHANGED <<layout, todo, field, sendbuf, recvbuf, sending, receiving>>

GroupReceive(r) ==
  /\ AtHead(r, "group")
  /\ LET ops == Kernel(r).recvs
     IN  \E i \in DOMAIN ops :
           LET ch == Untagged(ops[i].peer, r)
               slot(s) == SelectInSeq(ops[i].slots, LAMBDA t : t = s)
           IN  /\ NextFor(ops, i)
               /\ wire[ch] # <<>>
               /\ recvbuf' = [recvbuf EXCEPT ![r] =
                    [s \in Slots |-> IF slot(s) = 0 THEN @[s] ELSE Head(wire[ch])[slot(s)]]]
               /\ wire' = [wire EXCEPT ![ch] = Tail(@)]
               /\ LeftOf(r, [Kernel(r) EXCEPT !.recvs = RemoveAt(ops, i)])
  /\ UNCHANGED <<layout, todo, field, sendbuf, sending, receiving>>

(* A group ends when its messages have arrived and its own have left: when     *)
(* NCCL does not buffer, when they have been received.                       *)
GroupEnd(r) ==
  /\ AtHead(r, "group")
  /\ Kernel(r).sends = <<>> /\ Kernel(r).recvs = <<>>
  /\ layout.eager \/ \A s \in Ranks : wire[Untagged(r, s)] = <<>>
  /\ Runs(r, "group")
  /\ UNCHANGED <<layout, todo, field, sendbuf, recvbuf, sending, receiving, wire>>

NcclNext(r) == \/ Synchronize(r)
               \/ RunCopy(r) \/ GroupSend(r) \/ GroupReceive(r) \/ GroupEnd(r)
=================================================================================
