------------------------------ MODULE MCHaloExchange ------------------------------
(* Two-layer halos, as the validation of the configuration demands.  Uneven   *)
(* tiles over two ranks that are each other's neighbour on both sides; a       *)
(* reduced (singleton) axis; a bounded axis; three exchanges in a row, in     *)
(* which a rank could run two ahead of its neighbour; four ranks around every  *)
(* corner; with NCCL also three ranks in a row, a single rank, and messages    *)
(* that are buffered or not.                                                *)
EXTENDS HaloExchange

Layout(lib, px, py, nx, ny, wx, wy, eager, script) ==
  [lib |-> lib, px |-> px, py |-> py, nx |-> nx, ny |-> ny, wrapx |-> wx, wrapy |-> wy,
   eager |-> eager, script |-> script]
Mpi(px, py, nx, ny, wx, wy, script) == Layout("mpi", px, py, nx, ny, wx, wy, TRUE, script)

MCLayouts ==
  {Mpi(2, 1, 5, 2, TRUE, TRUE, <<"full", "batch">>),
   Mpi(1, 2, 2, 4, TRUE, TRUE, <<"face">>),
   Mpi(1, 2, 1, 4, FALSE, TRUE, <<"slice", "face">>),
   Mpi(2, 1, 4, 2, FALSE, TRUE, <<"shallow", "batch">>),
   Mpi(2, 1, 4, 1, TRUE, FALSE, <<"face", "face", "face">>),
   Mpi(3, 1, 6, 1, FALSE, FALSE, <<"face">>),
   Mpi(2, 2, 4, 4, FALSE, FALSE, <<"full">>),
   Layout("nccl", 2, 1, 5, 2, TRUE, TRUE, FALSE, <<"face", "full", "batch">>),
   Layout("nccl", 1, 2, 2, 4, FALSE, TRUE, TRUE, <<"face", "face", "face", "slice">>),
   Layout("nccl", 3, 1, 6, 2, TRUE, TRUE, TRUE, <<"face", "shallow">>),
   Layout("nccl", 2, 1, 4, 1, TRUE, FALSE, FALSE, <<"face", "slice", "batch">>),
   Layout("nccl", 2, 2, 4, 4, TRUE, FALSE, FALSE, <<"shallow">>),
   Layout("nccl", 1, 1, 3, 2, TRUE, TRUE, TRUE, <<"face", "slice", "batch">>),
   Layout("nccl", 1, 1, 3, 1, TRUE, FALSE, TRUE, <<"slice", "full">>)}
=================================================================================
