# A TLA+ model of VVMex

VVMex is a parallel cloud-resolving atmosphere model in C++ (Kokkos, MPI or
NCCL, ADIOS2). Most of its code is floating-point arithmetic on fields, which a
model checker has little to say about. What it can say much about is the code
that decides *when* and *from where* things happen: which step writes a record
and into which file, how compute ranks and I/O ranks hand a record over, which
message fills which halo cell, which routine of a step reads which field before or
after whose exchange, which rank writes which cell of the output, and what a
restarted run takes over. This directory models those parts.

Source paths below are relative to `src/` of the repository (`main.cpp` is
`src/main.cpp` there).

## 1. The system

### Components

| Component | State | Operations | Interacts with |
| --- | --- | --- | --- |
| Run driver (`main.cpp`) | the clock of `State`, `next_output_time` | start up, split the ranks, initial record, time loop, close, abort | everything |
| History writer, HDF5 and SST (`io/OutputManager.cpp`) | the ADIOS2 engine, the name of the current file, staging buffers | construct (SST: open and wait for a reader), `write`, close | driver; the stream; the file system |
| I/O server (`io/sst/IOServer.cpp`) | stream position, the record in hand, the file being written | open, `BeginStep`, `Get`, `EndStep`, write the `.h5`, attach metadata (or go on without), drain, abort, leave on an error status | the stream, the other I/O ranks (barriers, collective files) |
| BP5 history writer (`io/bp5/`) | selections per field, coverage, the dataset and what ADIOS2 has not stored of it, `vvm.ctl` | construct (codec, path rules, open, descriptor), `write`, `close`, append after a restart | driver; all ranks (`Allreduce`); the restart reader, through the dataset |
| Halo exchange, MPI (`core/haloexchange/HaloExchangerMPI.hpp`) | four send and four receive buffers, requests, device kernels in flight | full, face, slice and batch exchanges; post and wait per axis | every kernel that reads halos; neighbour ranks |
| Halo exchange, NCCL (`HaloExchangerNCCL.hpp`) | the same buffers; one stream that packing, messages and unpacking all run in; CUDA graphs | the same exchanges, of which some wait for the stream and others only enqueue | the same |
| Grid (`core/grid/Grid.cpp`) | slab of each rank on each horizontal axis | decomposition at startup | exchanger, writers |
| Model step (`driver/Model.cpp`, `utils/ProcessScheduling.hpp`) | held fields (radiative heating, surface fluxes) | `init`, `run_step`: dynamics, microphysics, radiation, turbulence, surface, forcings, and the halo exchanges between them | State; every process |
| Microphysics output window (`physics/p3/VVM_p3_process_interface.cpp`, `physics/cleo/VVM_cleo_process_interface.cpp`) | accumulated precipitation, reset flag, call counter or due time, window length | `run` each step: clear, accumulate, average | driver's output clock (not by a call: by repeating its decision) |
| Restart (`io/RestartVariables.cpp`, `utils/RestartTime.hpp`, the readers) | the record read, the recovered clock | resolve the clock, read the variables the state has by then | driver, held fields, output clock |
| Time integration (`dynamics/temporal_schemes/`, `dynamics/DynamicalCore.cpp`) | two tendency slots per variable (AB2), previous state | compute tendencies, advance, predict the mean top wind, initialize the histories of a restart | P3 (reads the previous state), restart (the slots are not stored but computed again) |
| Dynamical core (`dynamics/DynamicalCore.cpp`), advection and operators (`tendency_processes/`, `spatial_schemes/`, `operators/`) | wind and vorticity in physical and in canonical components, the cached mean wind | tendencies, updates, synchronizations of the two representations | halo exchange, time integration, wind solver |
| Wind solvers (`dynamics/solvers/`) | guesses and previous potentials, harmonic fields, captured CUDA graphs | solve w, potentials, recover the wind | halo exchange; the storage that time integration swaps |
| Forcings (`dynamics/forcings/`, `physics/`) | forcing files at T1 and T2, targets, masks | load, swap, interpolate; nudge fields in place | `run_step`; the clock |
| Turbulence, surface, land, radiation, boundary conditions, geometry | coefficients, fluxes, columns | numerical kernels | halo exchange |
| Configuration, readers, timing, `submit.py` | - | start-up input and measurement | - |

`PROJECT.json` lists the same components with what of each is modelled.

### What is hard, and what makes each component correct

* **Cadence.** dt, the output interval, the restart time and the total time are
  independent. The loop must write one record per interval, and give each a file
  of its own. Three places decide on their own when a record is due (the driver,
  P3, CLEO), and two compute its file number (OutputManager, the I/O server).
* **Ranks and stream.** A record passes from the compute ranks through a bounded
  queue to I/O ranks, each a process with barriers only around the metadata. Any
  of them may call `MPI_Abort` at any time; two failures stop nothing, a file that
  cannot be reopened for its metadata and an error status of the stream. Correct: one
  record in hand, no file taken for complete that is not, bounded loss, everything
  drained at the end.
* **Asynchronous devices.** A Kokkos kernel returns before it has run, MPI reads
  and writes buffers until the wait, and the buffers are shared by all exchanges.
  Correct: every halo cell a stencil reads is of the generation before, and no
  buffer is in use by a kernel and a message at once.
* **Partition arithmetic.** Grid, I/O server and output window divide an axis
  unevenly, with empty parts. Correct: each cell belongs to one rank and is
  written once.
* **Restart.** Anything held or accumulated between steps must come back, and
  anything that decides by counting must count from the right place. What comes back
  is what the state has when `load_restart` makes its list: a process that registers
  its fields later gets none of them.
* **Datasets that outlive runs.** A BP5 dataset is read, appended to, replaced and
  broken off by a series of runs with different configurations, under several
  names. Correct: its times increase without holes, and a run that should not touch
  it leaves it alone, even one that fails half-way through its start.
* **Time integration.** Tendencies live in slots chosen by the parity of the step,
  the previous state in a second field. Correct: an advance uses the tendencies of
  this step and the one before, whatever the scheme, the phase of a step and the
  restarts.

* **One step, many routines.** A step is some fifty routines that read fields with
  stencils, change them in the interior, copy them between representations and
  exchange them in batches, under conditions that name the processes switched on.
  Correct: whatever the combination, no stencil reads a halo older than the
  interior it continues, no copy overwrites a change, no cache (mean wind, sum of
  the condensates, CUDA graph) is stale when it is used.
* **Forcing files.** Targets are interpolated between two files that move with the
  clock, by swaps of views or of names. Correct: the target is that of the present
  time, wherever a run started and however long its step is.

The hazards of `PROJECT.json` name each of these at the line where it bites, and
say of the few that no property covers why.

## 2. The modules

| Module | Models | Runs |
| --- | --- | --- |
| `Slab` | division of an axis, intersection with a window (operators) | in `HistoryRelay`, `HaloGeometry`, `OutputWindow` |
| `OutputClock` | time loop and output clock of `main.cpp`, file numbers | `output_clock` |
| `HistoryLog` | what history output promises (abstract specification) | as a property of `history_relay` |
| `HistoryRelay` | `OutputClock` composed with the SST stream and the I/O server | `history_relay` |
| `HaloGeometry` | ranks, neighbours, cells, what an exchange must fill (operators) | in `halo_exchange` |
| `HaloDevice` | fields, buffers, queue and kernels of a rank, for both libraries | in `halo_exchange` |
| `HaloMpi`, `HaloNccl` | the exchanges of each library, its host calls and messages | in `halo_exchange` |
| `HaloExchange` | ranks that compute and exchange in turn, over either library | `halo_exchange` |
| `HaloFill` | what an exchange promises (abstract specification) | as a property of `halo_exchange` |
| `PrecipWindow` | `OutputClock` composed with the precipitation window of P3 or CLEO | `precip_window` |
| `ProcessSchedule` | held physics fields, schedules, restarts | in `ForcingTargets` |
| `ForcingTargets` | `ProcessSchedule` with the targets of the two nudgings | `process_schedule`, `heating_restart`, `lateral_forcing` |
| `StepProgram` | every routine of initialization and step as a program over fields (operators) | in `ModelStep` |
| `ModelStep` | halos, copies, cached wind and graphs as those programs run | `model_step`, `fresh_vorticity` |
| `TimeStepping` | phases of a step, AB2 slots, previous state, restarts | `time_stepping` |
| `RestartClock` | `resolve_restart_time` (operators) | in `Bp5Dataset` |
| `Bp5Dataset` | BP5 datasets over a series of runs, restarts and crashes | `bp5_dataset` |
| `OutputWindow` | output restricted to a window: bounds, selection, coverage, puts | `output_window` |
| `OutputProofs` | theorems of `OutputClock` and `Slab` | - |
| `HaloExchangeProofs` | theorems of `HaloExchange`, over either library, and of `HaloFill` | - |
| `ProcessScheduleProofs` | theorems of `ProcessSchedule` and `ForcingTargets` | - |
| `WindowProofs` | theorems of `OutputWindow` and `PrecipWindow` | - |
| `ModelStepProofs`, `HistoryRelayProofs`, `TimeSteppingProofs`, `Bp5DatasetProofs` | theorems of the module they name | - |

`MC<module>` gives the constants of a run their values. Definitions marked
`\* mutant` are the altered forms of the definition after them that
`PROJECT.json` lists as mutants: each is a plausible slip in the code that must
break the property named there. They take no part in any specification.

### OutputClock

`loop` is the place in `main.cpp` (409-456), `time` is `State::time_`, `next` is
`next_output_time`, and `log` the times handed to the writer. `BeginRun` and
`WriteInitial` are the initial record (`output.output_initial_step`), `Advance`
one pass of the loop up to the test of the clock, `WriteOutput` its body,
`CloseHistory` the close. Times are integers in a unit that divides dt and the
interval: what floating-point accumulation does to the clock is not modelled.
The cadence is a rigid variable `cfg`, so one run covers a set of cadences.

`Hdf5Index` truncates as `OutputManager.cpp:477` does; `RelayIndex` rounds half
away from zero as `IOServer.cpp:405`.

### HistoryRelay

Compute ranks write collectively and are one process, the `OutputClock`. The I/O
ranks are separate: `pc[r]` is the place of rank r in `run_io_server`, `ended[r]`
how many records it has taken from the stream. `files` maps a file number to the
time, the rows put and whether the metadata is attached. Collective calls
(`Rendezvous`, `CreateFile`, `Barrier`, `Barrier2`) need all ranks at the call.
The stream is modelled from the parameters `OutputManager.cpp:224-266` gives
ADIOS2: one reader at open, a bounded queue, a writer that blocks, and a record
released when every rank has ended it. `QueueLimit = 0` is "no limit", as in
ADIOS2. `IoFails` and `ComputeFails` abort the run from any guarded place with
the code of the source; from then on nothing moves. A failing `reader.Close` is
only a warning in the code and has no action.

Two failures do not abort. `AttachMetadata` leaves the file without metadata when it
cannot be reopened, or a dataset in it (`IOServer.cpp:97-102`, `114`): the record
counts as finished and the ranks go on. `StreamFails` is `BeginStep` returning
another status than OK or the end of the stream (`IOServer.cpp:272`): all ranks leave
the loop as if the stream were over (`lost`), and the compute ranks are not told.
Assumed of ADIOS2 here: the status is the same on every rank, as `BeginStep` is
collective, and a writer whose readers have left is not held back by the queue.

`HistoryRelay` implements `HistoryLog`: accepted records are the log, durable
ones those whose file was finished, with metadata or without, and at most
`QueueLimit + 1` are between. An abort or an error of the stream breaks the log off
(`Break`); what the model hands over after that is dropped (`Drop`).

### The halo exchange

Every rank runs a script: a stencil kernel computes generation g, an exchange of
the configured kind follows, and a last stencil reads what the last exchange
left. `Call` is the return of the host from one exchange, with which it launches the
next stencil and enters the next exchange; `called[r]` counts the exchanges rank r has
entered, and `todo[r]` is what is left to the host of the one it is in. A cell's value is `<<generation, <<column, row>>>>` of the cell that computed
it, so a halo cell is right exactly when it holds that of the cell it stands for.
`HaloGeometry` says which cells an exchange must fill (`Needed`): one layer for a
shallow one, no corners for the face exchange, none beyond a bounded edge.

`HaloDevice` has what both libraries share. `Launch` moves the kernels that the
host can launch without waiting to the rank's queue; `RunStencil`, `RunFill`,
`RunPack`, `RunUnpack` run the oldest one on the field and the buffers.

* `HaloMpi`: an exchange is a list of host operations taken from the entry points of
  `HaloExchangerMPI.hpp`: `fill` (singleton axis), `pack`, `post`, `wait`. `Post`
  needs the queue empty (the fence), `Inject` is MPI reading a send buffer,
  `Deliver` MPI writing a posted receive buffer, `Wait` the `Waitall` followed by the
  launch of the unpacking. The 3-D batch and the slice exchange have further fences
  of their own, which the model leaves out: the properties hold without them.
* `HaloNccl`: everything is a kernel of one stream, and `Synchronize` the only wait,
  which some exchanges end with and others (face, shallow, 2-D batch) do not. A group of
  sends and receives is one kernel whose operations proceed together (`GroupSend`,
  `GroupReceive`, `GroupEnd`); messages have no tags. `Prepare` and `Split` are the
  copies of a rank that is its own neighbour and of two ranks that face each other on
  both sides, whose two strips travel in one message. `eager` says whether NCCL
  buffers a message; without it a group ends only when its messages are received.

`HaloExchange` implements `HaloFill`: `computed` is the generation in the interior,
`filled` the one in the halo, and a rank computes only from a halo filled with what
all its neighbours have computed. One field stands for a batch; the sizes of buffers
and the capture of exchanges in CUDA graphs are not modelled. The vertical axis is
not exchanged.

### PrecipWindow

The precipitation field is abstracted to a function from the time each
contribution started to the divisors applied to it, so that "is a mean" and "is
counted once" can be said exactly. `RunP3` and `RunCleo` are the whole `run` of
each interface as far as the window is concerned, in the order of the code:
clear, accumulate, decide, average, set the flag. A restarted P3 run starts from an
empty field and a count of zero: `VVM_P3_Interface::initialize` registers the field
(`cpp:277-278`) after `load_restart`, so that `RestartVariables.cpp:104-105`, which
lists it, does not find it. For CLEO a restart is not supported (cleo.md) and is not
modelled.

### ProcessSchedule

A field is abstracted to the step that computed it. `RunStep` is one step of the
model with the record it may write; `Restart` returns to any record on disk and reads
back the clock and the surface fluxes, which the surface process registers in its
constructor. It leaves the heating at zero: `RRTMGPRadiation::initialize` registers
`net_heating` after `load_restart`. `begun` is the step the present run started from;
it is in the code as the step of the restart and read by no action.
`IsLegacySurfaceComputeStep` keeps the unsigned wrap of the code as arithmetic
modulo `SizeMod`. That the first step may compute no fluxes is a known defect the
code documents (`ProcessScheduling.hpp:60-75`); the property states precisely
which intervals it affects.

### ForcingTargets

Adds to each `RunStep` and `Restart` of `ProcessSchedule` what `AreaMeanNudging` and
`LateralBoundaryNudging` do at that moment. File i of a series is the forcing at time
i * interval and is abstracted to i: a forcing linear in time, of which the
interpolated target (in units of time) must be the time itself. `areamn` holds the
two views and the window they belong to; its `while` loop over the windows a step
passes is written in closed form. `lateral` holds which of two fields is named T1 and
T2, the file in each, and `held`, the fields that were looked up by name on the first
call: the code looks them up once (`forcing_targets_`).

### StepProgram and ModelStep

`StepProgram` translates the routines that `Model::init` and `Model::run_step` reach,
one operator each, into sequences of operations on named fields: `read` with a
stencil of a depth, `write` in the interior (or as deep as the routine writes),
`exchange` to a depth, `derive` one field from others on the whole arrays, `mean` and
`advect` (the cached mean wind), `invalidate`, `swap` (the storage of a variable and
its previous state), `graph` (a captured graph is replayed), `perhaps` (a process not
due, another sweep of a relaxation) and `done`. The conditions of the code on the
configuration are `When`. A loop over sweeps is one sweep and perhaps another: the
state after the second is that after the first. `Initialization(run)` and `Step(run)`
compose them in the order of the code.

`ModelStep` runs them. `halo[f]` is how many layers of the halo of f follow its
interior; `ahead` the fields changed since they last agreed with their other
representation; `mean` the tag of the cached mean wind and whether the wind has
changed since; `storage` and `graphs` which allocation of the vorticity is whose, and
which of them each captured graph reads. A run has one configuration, initializes and
repeats its step for ever.

### TimeStepping

`phase` walks through `Model::run_step` as far as the integration of the dynamics
is concerned; `at` counts how often the thermodynamics, the vorticity and the wind
have been advanced, and a tendency is the value of `at` it was computed from. So a
vorticity tendency of step n is `[thermo |-> n + 1, vorticity |-> n, wind |-> n]`:
the code computes it after the thermodynamics. `hist[q]` are the fields
`d_<q>_0` and `d_<q>_1`, `hist["uvtopmn"]` the two entries of `d_utopmn` and
`d_vtopmn`, `prev` the fields `<q>_m`. `Restart` is the loading of a record followed by
`initialize_restart_history`. `Stop` may happen in any phase. The cadence of the
records is abstracted: any step may leave one. Which record a restart reads and
how its step is recovered is `RecoveredStep`, here the step in its metadata. `since` is not
in the code: it tells the first step after a restart. The mean top wind finds in its
other slot the tendency of the step before, except in that step: its slots are not
filled by a restart (see Findings).

### OutputWindow

`ParseBounds` is `normalize_axis` on both axes, `ValidateCoverage` the
`Allreduce` of the selected elements, `PutBlock(r)` the put of rank r's block
from memory that has `Halo` cells around the slab. `array` records for every cell
of the dataset who put it and which cell that rank's memory held there.

### RestartClock

One operator per source of the clock (`FromTimeAndStep`, `FromTime`, `FromStep`,
`FromName`) and `resolve_restart_time` for their precedence. Times are whole units:
the serialization tolerance of the code (1e-6 of the time) becomes equality, and a
time that is not finite is refused as a negative one is. `DerivedStep` is `llround`.

### Bp5Dataset

`present` and `disk` are the directories and their steps, and survive a run;
`loop` is the place of the current run in `main.cpp` and in the writer's
constructor, in the order of the code: restart loaded (`LoadRestart`), codec
(`DefineCodec`), path rules and removal (`PreparePath`), `Open` and `vvm.ctl`
(`OpenDataset`), then the loop of `OutputClock`. It repeats that loop in place of
composing with `OutputClock`, whose cadence is fixed for a behaviour, while here
every run has its own. `Launch` starts a run with any configuration, `Crash` and
`Throw` end it: a crash loses what ADIOS2 has accepted and not yet stored
(`pending`, only with `async_write`), an exception closes the writer in its
destructor. What ADIOS2 does (`Store`, `Flushed`) is external: steps are stored in
order, `Close` waits for them. A step carries, beside its clock, the dt and the
interval of the run that wrote it; only properties read them. Two names of one
directory are a link and its target.

Abstracted: the ranks are one process, a dataset has no inside (what a crash
leaves of a step being stored is nothing), and the fields a restart reads.

## 3. Runs

| Run | Bounds | Shows |
| --- | --- | --- |
| `output_clock` | all cadences with dt, interval <= 5, totals 0, 11, 15, starts 0..6 (multiples of dt), with and without an initial record | one record per interval, a file each, termination |
| `history_relay` | 3 I/O ranks, 2 rows (a rank without rows), queue 2, six cadences up to six records, abort anywhere, an error of the stream at any `BeginStep`, any file without metadata | relay invariants, termination, refinement of `HistoryLog` |
| `halo_exchange` | halo 2; MPI and NCCL, the latter with and without buffered messages; 1 to 3 and 2 x 2 ranks, uneven tiles, periodic, bounded, singleton axes; up to four exchanges of mixed kinds | fresh halos, no buffer race, one exchange ahead, no deadlock, refinement of `HaloFill` |
| `precip_window` | P3: dt <= 3, interval <= 6, fresh and restarted at 3, 4 or 6; CLEO: dt <= 3, interval <= 5, coupling 2..6; total 12 | records are means, rain counted once |
| `process_schedule` | radiation 1..5, surface 1..24, 9 or 30 steps, 8-bit counter, 2 restarts; forcing intervals 3..6 with dt 1, 2, 3, 7 | fluxes and area-mean target independent of restarts, heating from the first radiation step after one; lateral target between its two files |
| `heating_restart` (violation) | as `process_schedule` | no heating between a restart and the next radiation step |
| `lateral_forcing` (violation) | dt 1, interval 3, fresh | the lateral target runs backwards in every other interval |
| `time_stepping` | th, qv, one tracer; 24 choices of schemes and top wind; 4 steps; any number of restarts | AB2 slots and previous state are right |
| `model_step` | halo 2; 1416 configurations, any number of steps | halos fresh where read, copies agree, mean wind, condensate and graphs present |
| `fresh_vorticity` (violation) | 128 Cartesian runs from a sheared profile | the first step advects a vorticity without halos |
| `bp5_dataset` | 2 datasets, 1 link, 4 runs, 35 configurations, with and without a dataset of an older version, crash anywhere | times increase, no holes, nothing lost, descriptor, clock |
| `output_window` | axes of 1, 4, 5, 7 cells over 1, 2, 3 ranks, all bounds -1..7 x -2..7 | window written once, coverage never fails |

Why these bounds are enough. Cadences: every relation between dt and interval
(divides, does not, equal, larger) and every phase of a start occurs by 5. Relay:
ranks are symmetric except rank 0, so three give a leader, a follower and a rank
without rows; a queue of two is the smallest with a limit that is neither "one at
a time" nor never reached, and six records fill it repeatedly. Halos: two ranks
are the smallest that are each other's neighbour on both sides, three the
smallest where the two neighbours differ, 2 x 2 the smallest with a diagonal
neighbour; three exchanges in a row are needed for a rank to be two ahead, and
`OneExchangeAhead` finds two messages in a channel but never three. Schedules: a
255-step counter has the same remainders as 2^64 - 1 for the intervals used (3,
5, 15 divide it, 24 leaves 15). Forcings: a step that passes no file, one, and
several, intervals that dt divides and does not, restarts in any window.

Time integration: four steps use both slots twice, fresh and after a restart at
an even and an odd step.

Steps: the variables of `ModelStep` return to earlier values after one or two steps
(two where storage is swapped), so TLC covers every number of steps. Two layers are the
halo of the shipped cases and the depth that every modelled stencil can need. The
configurations are combinations of switches (map, start, turbulence, microphysics,
surface, sponge, nudgings, tracer and its scheme, terrain, bounded axes, random
forcing), split into a part with tracers and one without, so that every pair of
processes that meet at an exchange occurs. Not among them:

* Cartesian runs from an unperturbed profile (`fresh_vorticity`), random forcing
  without P3, and nudged tracers without turbulence: each reads a stale halo, see the
  findings;
* the five transport tests, which have no wind solver, on mapped grids (no shipped case
  has them there; on a skew grid see the findings), and a restart on a skew grid from a file
  without canonical components, which the code refuses;
* vorticity components of different temporal schemes, nudged xi or eta, WENO5 (which
  needs a third halo layer), and the values that bounded axes put into their halos.

Datasets: a dataset that is wrong needs a run that writes it, one that continues it
under another name or dt, a crash, and one that continues what is left; four runs
are that series. The configurations hold each policy with and without a restart,
from the target, from its link and from the other dataset, and those that differ in
a single rule from an accepted one.

Deadlock is checked in every run but that of `TimeStepping`, whose program may
stop for good; elsewhere the disjunct `Terminated` (`Finished`, `ForcedFinished`,
`ClockTerminated`) is the proper end, so any other state without a successor is
an error. `ModelStep` never ends. For the halo exchange this is the check that no
rank waits for ever: a behaviour has at most one step per operation, kernel and
message, so it ends, and it can only end in `Terminated`.

### Fairness

`OutputClock` assumes weak fairness of its single thread. `HistoryRelay` assumes
it of the compute side, of each I/O rank, and of each collective call: these are
operating-system processes with no priorities among them, and an ADIOS2 or MPI
call that does not fail returns once its partners have arrived. No fairness
forces an abort. Nor does any force the stream to fail. `RelayFinishes` therefore
reads: some process aborts, or both sides finish, with every record on disk unless the
stream reported an error. The other specifications state no fairness.

### Findings

* `heating_restart`: `net_heating` is in the list of fields to restore
  (`RestartVariables.cpp:118`), but only if the state has it when the list is made, and
  radiation registers it later (`Model.cpp:155`, `167`). A run restarted between two
  radiation steps applies no radiative heating until the next. What does hold is
  `HeatingNeverStale`: the gap ends there, and no heating of an earlier run or interval
  is ever read.
* `lateral_forcing`: `LateralBoundaryNudging` swaps the names of the fields at T1 and
  T2, but interpolates between the two it looked up by name on the first call. In every
  other update interval the target runs from the end of the interval to its start.
* `fresh_vorticity`: on a Cartesian grid the initial vorticity is computed in the
  interior, and its halos are filled only when a perturbation is applied. With a
  sheared sounding and the perturbation "none" the first step advects zeros from the
  halos, at every boundary between ranks.

These disagreements and gaps were met while modelling and have no run of their own:

* The I/O server rounds the file number (`IOServer.cpp:405`) where the HDF5 writer
  truncates (`OutputManager.cpp:477`): a run restarted in the second half of an
  interval gives its initial record and the first of its loop one file under SST.
  The cadences of `history_relay` have no such restart with a record after it.
* `RestartVariables.cpp:104-105` lists the accumulated precipitation of P3 as state to
  be restored, and for the same reason as with the heating it is not. With a restart at
  the time of a record this is as it should be, since the record holds the mean of a
  window that is over (`RecordsAreMeans`); of other restarts nothing is claimed
  (`Regular`).
* After an error status of the stream (`IOServer.cpp:272`, printed as "SST stream
  ended.") the I/O ranks finish as after a proper end, and the model runs on to its end
  without a history. `BoundedLoss` claims nothing of that case.
* The slots of the mean top wind (`d_utopmn`, `d_vtopmn`) are neither restored nor
  filled by `initialize_restart_history`, so the first resumed step advances it by 1.5
  times its tendency (`DynamicalCore.cpp:746`), where `configuration.md:421` promises
  a first-order start. `AdamsBashforthHistory` exempts that step.
* With only ForwardEuler terms on th or qv, a legal configuration, nothing updates
  th_m or qv_m (`TimeIntegrator.cpp:196`), and P3 reads zeros or what the last restart
  left. The plans of `time_stepping` leave it out, and `P3Previous` has it as an
  assumption.
* After a restart at a later time the lateral forcing starts from files 0 and 1 and
  catches up by one window per step, since the code has `if` where the area-mean forcing has
  `while`. `LateralBetweenItsFiles` speaks of runs from time 0.
* The area-mean target "initial" is recomputed from the restored state after a restart
  (`configuration.md:709`).
* Random forcing without P3 writes th in the interior and no exchange follows before
  diffusion or the buoyancy reads it (`configuration.md:658`, `reproducibility.md:15`); a
  nudged tracer without turbulence is likewise not among the variables exchanged at the
  end of the thermodynamics (`Model.cpp:522`).
* The transport tests (`advection_u`, ..., `twisting`) prescribe physical components. On a
  skew grid, which nothing forbids them, `Model::init` converts these to canonical ones and
  back with no exchange between (`Model.cpp:250`). Each conversion averages over
  neighbours and loses a layer of halo, so the first step advects vorticity with one layer
  fewer than it reads.
* On Cartesian grids the sum of the condensates that buoyancy reads is that of P3,
  before diffusion and sponge; the refresh is for mapped grids only, as a comment there
  says. `BuoyancySeesPresentCondensate` therefore speaks of mapped grids.
* A CUDA graph of the wind solver is keyed by the storage of zeta alone; if zeta had
  ForwardEuler terms only while xi and eta have AB2, and there is no terrain, it would
  be replayed on the other storage of xi and eta.
* `WindSolver::initialize_restart_history`, `Takacs::calculate_flux_convergence_x` and
  `_y` and `calculate_vorticity_divergence` are never called.
* `bp5-output.md:186` says TDEF never exceeds the steps of the dataset; it is
  counted from the output interval, while the loop writes at most one record per
  step, so it does with dt longer than the interval, and after a crash
  (`DescriptorFitsFineSteps` claims it of the other runs that close).
* `RestartTime.hpp:154` says that time / dt is integral in every file the model wrote;
  a run restarted with another dt and `restart.ignore_stored_step` writes files where
  it is not, and the next restart of those with the same dt is refused unless the
  opt-in stays on.

## 4. Theorems

tlapm checks all of these for every value of the constants that satisfies the
named assumptions: `ConfigsAssumption`, `RelayAssumption`, `PrecipAssumption` (with
what the constructor of the CLEO interface demands), `ScheduleAssumption`,
`ForcingAssumption`, `TimeSteppingAssumption`, `RequestsAssumption` (a grid, ranks, and
any integers as bounds), `HaloAssumption` (tiles as wide as the halo, which Grid
enforces), and for `Bp5Dataset` also `DatasetsAssumption` and `FoundAssumption`: what the
first run finds has increasing times. The theorem on `HaloFill` is about any ranks and
neighbours. Those on `ModelStep` assume at least two layers of halo (`HaloAssumption` of
`StepProgram`) and a sequence of configurations (`RunsAssumption`), any combination of the
switches; two of them exclude some, each for a reason the code gives:

* `StencilsReadFollowingHalos` is about configurations that satisfy `HalosFollow`, which
  excludes what the findings name (random forcing without P3, a nudged tracer without
  turbulence, an unperturbed profile on a Cartesian grid, the transport tests on a skew
  grid), a skew restart without canonical components, which the code refuses, and an
  unperturbed profile without a wind solver, which is no run: the tests that have none
  perturb. All configurations of `model_step` satisfy it.
* `GraphsReadPresentState` is about those of `SeenInZeta`: zeta exchanges its storage
  wherever another component does, or terrain or a Cartesian grid makes it immaterial. The
  finding on mixed schemes is the case it excludes.

* `OutputProofs`, on division. Quotient facts (`QuotientRemainder`, `QuotientBounds`,
  `ProductAscends`) give that slabs ascend (`SlabsAscend`), hence `SlabsDisjoint`
  and `SlabsCover`; `GridAgrees` shows the formulas of Grid and I/O server equal;
  `BlockIsShared` that the block of a rank is slab and window intersected, and
  `WindowDivided` that every cell of an accepted window is in one block only.
* `OutputProofs`, on the clock. `ClockTypeCorrect`; `FilesDistinct` from the inductive
  invariant `ClockInv`, which adds to `Hdf5FilesDistinct` what it depends on: how
  far `next` is from the last record, by the two regimes of the loop. With dt at
  most the interval (`ShortSteps`) `next` is a multiple of the interval above the
  clock, so the next record falls into a later interval; with a longer dt
  (`LongSteps`) the records themselves are more than an interval apart. The
  property alone is not inductive: it says nothing of `next`. `EveryIntervalRecorded`
  from `CountInv`: `next` is the multiple of the interval that as many records lead to,
  and never more than one interval ahead of the clock.
* `WindowProofs`, on the window. `WindowIsWrittenOnce` from `PutInPlace`: a cell of the array holds
  an entry of exactly the ranks that have put and whose block it is in, each from that
  very cell. When all have put, `WindowDivided` on both axes (`BlocksDivideWindow`) leaves
  one rank for each cell of the window. `CoverageNeverFails` compares a sum over the ranks
  with the size of the window: `SumIsCellsPut` says that the sum over any set of ranks is the
  number of cells in their blocks, by a minimal counterexample (`LeastNumber`), from which
  one rank is taken away (`OneRankMore`, as blocks share no cell). For all ranks these
  are the cells of the window (`SumIsWindowSize`), which `IntervalSize` counts.
* `WindowProofs`, on precipitation. `PrecipTypeCorrect`; `RecordsHoldMeans` and `RainIsCountedOnce` from
  `WindowInv`, for the cadences the properties speak of. It says that the contributions
  from some m on are in the field and those before it in the records (`Window`), what
  separates the clock of the scheme (P3's calls, CLEO's couplings) from the time
  (`Progress`), that the scheme's due time is the driver's (`DuesMeet`), that the records
  so far are means (`Means`), and that they have no contribution in common (`Apart`). The
  two schemes decide on the end of a window in different ways, so the step into the next
  window is a lemma for each (`P3Window`, `CleoWindow`). Neither property is inductive:
  they say nothing of the field that becomes the next record.
* `HistoryRelayProofs`. The invariant `IInv` says that the I/O ranks go through
  five phases together (`Opening`, `Reading`, `Filing`, `Describing`,
  `Described`). In each, `ended[r]` and `stored` tell which record rank r holds
  (it has ended `stored + 1` records while it holds one, `stored` otherwise), and
  every file has all its rows except, while a file is being written, that one, which
  has exactly the rows of the ranks that have put theirs; and once the stream has failed
  all ranks have finished. Metadata may be missing from any finished file. `RelayTypeCorrect`,
  `RanksHoldOneRecord`, `LossIsBounded` and `FilesAreSound` follow, the last with
  `SlabsCover` (the rows of all ranks are the rows). None of the last three is
  inductive: without the phases a rank could be anywhere. `RecordsAreOnDisk` adds
  `FineInv`, which is about the rounded file numbers: under a fine cadence the clock meets
  the due time exactly (dt divides the interval), or by less than half an interval
  (dt at most half of it), or records are more than an interval apart, so that no two
  records round to one number, and `FilesNumbered`: the files are those of the stored
  records and of the one being written. `RelayImplementsLog`:
  initial states map to initial states of `HistoryLog`, every step to a step or a
  stutter.
* `HaloExchangeProofs`, on the exchange. `ExchangeTypeCorrect` and `OneFenceIsEnough` from
  `ExchangeInv`, which has for each rank the operations left of the exchange it is in
  (`Local`). With MPI these pack an axis before they post it and wait for it after that
  (`Orderly`), and while a request is in flight on an axis the wait for it is still to
  come and no packing of that axis before it; the unpacking is behind the wait, and the
  fence of the next post empties the queue. `PlanFull`, `PlanFace` and their
  neighbours show the order for each exchange from its parts. With NCCL nothing is in
  flight outside the stream. `BuffersNotRaced` alone is not inductive: it says nothing of
  what the host is about to do.
  `NoMoreThanOneExchangeAhead` counts messages. It adds for MPI `MpiAhead`, for NCCL
  `NcclAhead`: a channel holds what has left one rank and not come into the other, and each
  rank has sent, and received, one message for every exchange it has entered, but for what
  it still has before it of the present one. With MPI that is an axis not yet posted or a
  request in flight; with NCCL it is counted over the groups in the queue and on the host
  (`Owed`, `Awaited`), each of which sends to a peer once and receives from the same peers
  (`TalkTurn` shows this of every exchange, from `PeersOfAxis`: two ranks that face each
  other on both sides combine their strips into one message). So a rank is never more than one
  message off the neighbour it sends to and hears from, in either direction, which bounds
  the channel by two; and at the end nothing is left. `OneExchangeAhead` alone is not
  inductive: it says nothing of how many messages are still to be sent.
* `HaloExchangeProofs`, on `HaloFill`. `NeighboursWithinOneGeneration` from `FilledBehind`: a
  halo holds what its rank has computed or the generation before, and its neighbours have
  computed that. `halo_exchange` shows on its layouts that both libraries implement
  `HaloFill`, so the theorem is about them.
* `ProcessScheduleProofs`. `StepsInRange`. `HeatingIsNeverStale` from `HeatingInv`, which
  has the property at step 0 too and the present run begin at a step not after its own:
  a step that computes is of this run (`HeldIsEarlier`, `HeldAfterStep`), and a restart
  has passed none. `FluxSurvivesRestarts`: the invariant says of every record on disk what
  the property says of the state, so that a restart re-establishes it, which step the
  fluxes held by a record are of, and the wrap of the unsigned counter at step 0.
  `AreaMeanTarget`: the two views hold the files of the window of the last step, which is
  at most the window of the next one, and the weight is then within the interval, so that
  clipping changes nothing and the interpolation gives the time. `LateralReadsItsFiles`
  from `LateralInv`: until a restart, the field named T1 holds the file of the window of
  the last update and that named T2 the next (`HoldsWindow`), whichever names were cached,
  and the clock is at most one step ahead of that update, so that one swap is enough
  (`LateralUpdated`).
* `ModelStepProofs`. What `ModelStep` claims of a place in a program follows from all that
  ran before it, so its properties are far from inductive. The inductive invariant is an
  annotation of the program: a mark for each place, which says what is known there of the
  state, such that every operation leads from its mark to the next, a branch to the mark
  behind it, and the end of a step to a mark at least as strong as that of its beginning. An
  analysis (`IsAnalysis`) has marks, an order by which one says no more than another, and the
  effect of each operation; `Leads` says that a program can be annotated from one mark to
  another. Programs that meet in a mark make one (`LeadsOn`), so there is one lemma for
  each routine, under the conditions it is called in, and none is about a place by its number.
  - `MeanAnalysis`: the variant of the cached mean wind, or that it is absent, and whether
    the condensates are summed. `MarkInv` gives `MeanWindStaysPresent` and
    `BuoyancySeesTheCondensate`.
  - `GraphInv` adds where zeta is stored when a graph is captured, for
    `GraphsReadPresentState`: a graph is replayed only with the storage of its key.
  - `CopyAnalysis`: which components may be behind their counterpart. `CopyInv` gives
    `CopiesAgree`: a routine that leaves a side behind converts before another reads.
  - `HaloAnalysis`: the layers of each field's halo that follow. Between two routines of
    a step these are `Settled`, in the dynamics `ZetaOpen` (zeta is written and not yet
    exchanged), in initialization `Assigned`; a routine takes them down (`Lower`) where it
    writes, and its exchanges raise them. `HaloInv` gives `StencilsReadFollowingHalos`. That
    one property alone, checked routine by routine, shows which exchange a stencil relies on.
* `TimeSteppingProofs`. `HistoryInv` says of every phase how far the fields are
  (`InStep`) and what each slot holds (`ThermoSlots`, `VorticitySlots`,
  `TopWindSlots`); the property speaks of the moment of use only, so it is not
  inductive. The step from one step to the next is `SlotsAlternate`: the slot of a step
  is the other slot of the next. `P3Previous` needs that no variable P3 reads is
  advanced by ForwardEuler alone.
* `Bp5DatasetProofs`, on the restart clock. `DerivedStepNearest` says what `llround`
  gives; from it `AnswerIsNearest` (all five sources), `StoredTimeStands` and
  `OwnClockResumes` (with `DerivedStepExact`). The sources that a BP5 dataset never
  needs (a step without a time, the opt-ins) are covered by these theorems only; no
  run reaches them.
* `Bp5DatasetProofs`, on the datasets. `StepFollowsTime` is inductive beside the
  types: a run starts at `AnswerIsNearest`, and each step adds dt to both sides.
  `NoHistoryLost` needs `Checked`: a run that has come to `PreparePath` has its codec,
  one that has come to `OpenDataset` and does not append has an empty target.
  `StepsInOrder` needs `Advancing`, which follows the clock from the restart to the
  loop: the resolved time is that of the source's last step (`LoadedIsLast`, which
  rests on `StoredTimeStands`), so no step of an appended target is later, and in the
  loop the target's last step, stored or pending, is before the clock whenever one
  is written. `HistoryAdvances` alone says nothing of the clock.
  `NoHoleLeft` adds `Starting` (a run that appends starts at the time of the target's
  last step) and `Scheduled` (in the loop, `next` is the multiple of the interval that
  follows the last step), to which each written step conforms (`Unbroken`); a crash only
  shortens the sequence (`FrontUnbroken`). `DescriptorKept` from `Promised`: in the loop
  the descriptor promises no more than what is written, the initial record still to come,
  and one step for each multiple of the interval from `next` to the end of the run.

Only model-checked:

* liveness (`RunEnds`, `RelayFinishes`, the fairness part of `ImplementsHistoryLog`),
  which is beyond the prover;
* `StencilReadsFreshHalos` and `ImplementsHaloFill`, which are about what every message
  carries to which cell: a proof follows the values of a strip through every kernel.

## 5. Not modelled

* Values. What a kernel computes, the geometry, the values that bounded axes and
  vertical boundaries get, radiation, land and the interior of P3, CLEO and RRTMGP are
  arithmetic, much of it vendored. `StepProgram` keeps of them what they read, change
  and exchange in the horizontal; columns (radiation, land) exchange nothing.
* Start-up: the split of the ranks, the choice of engine and communicator, and who
  waits for whom when one rank fails (planned). Configuration, input readers and
  `submit.py` are input; timing is measurement.
* Floating-point rounding of the clock, partial writes inside one HDF5 call, and
  failures of MPI itself are outside the models that touch them.
* Growing buffers: a batch resizes the message buffers between exchanges, and an
  exchange may be captured in a CUDA graph with the old ones. The two are not together
  in any model; the restart reader avoids the case by reading field by field.
* WENO5, which reads a third layer, and the harmonic fields of the wind solver beyond
  where they are added.

## 6. Plan

In order of what a mistake would cost:

1. `StartupGate`: `--io-tasks`, engine and communicator split, who waits for whom;
   with it the ranks of a run that fails on one rank only, and the collective close
   in the destructor of the BP5 writer.
2. The HDF5 files of a series of runs: a restarted run that writes its initial
   record over its own checkpoint.
3. Batches in the halo exchange: several fields per message, resized buffers, and
   exchanges captured in CUDA graphs.
4. `TimeStepping` further: the extrapolated potentials of the wind solver (`W3DNM1`,
   `psinm1`, `chinm1`) as histories across restarts; mixed schemes of the vorticity.
5. Proofs: `StencilReadsFreshHalos`, first for one axis over MPI: what each message carries,
   from what the strips and the field hold between two operations of the host.
