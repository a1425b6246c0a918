# Neural-AI: a verification of the firmware's control

The repository holds an accelerator cluster: a RISC-V core with its firmware (`src/sw/lib`,
`src/sw/runtime`), a DMA with two directions, a systolic array with a convolution line buffer, an
AFU, a vector unit, and the interconnect between them (`src/hw/rtl`). A host places a model package
and an *invocation* in external memory, starts the core and waits for an interrupt. The firmware
loads and validates the package, interprets its command section through a small window, and drives
the engines, several of which run while it goes on.

The modules here are about that firmware and about what it relies on in the hardware. TLC checks
them on small instances; TLAPS proves the safety of nine of them (the prefetcher, the asynchronous
runtime, the session of one job, the command interpreter, the loader, the checks of commands, the
engine operations, the shared memory and the matrix job of the systolic controller) for every
instance; of the engine operations all but what they compute.

## The system and its parts

| Part | Source | State | Operations | Works with |
|---|---|---|---|---|
| Firmware entry, model runtime | `sw/runtime/neural_ai/main.c`, `npu_cmd_desc.c`, `npu_model_runtime.c` | progress of the job, staging window, host registers | load invocation/model/bindings, dispatch, finish, report | everything below; host through registers and interrupt |
| Command interpreter | `npu_cmd_desc_v2.c/.h` | offset, window (cursor, bytes), completed count, loop position | refill, header check, execute, affine loop | reads through a callback, calls the runtime operations |
| Stream prefetcher | `npu_stream_prefetch.h` | two slots with their DMA ids, read and fetch offsets | init, read (with refill), finish | DMA direction 0, shared with commands |
| Runtime operations | `npu_runtime_ops.c`, `npu_dma_async_state.h` | queued count and last id per direction, `systolic_pending` | submit, wait, blocking transfers, GEMM, line buffer submit/wait, barrier | DMA and systolic registers |
| DMA helpers | `idma_mm_utils.h`, `idma_transfer_id.h`, `idma_transfer_plan.h` | none (registers) | launch, wait by id, chunked copy, barrier | DMA controller |
| Systolic HAL | `hal_systolic.c` | none (registers) | clear DONE, START, poll DONE, tile loops | systolic controller |
| Loader and resolver | `npu_model_loader.c`, `npu_model_runtime.c` | section table, table of binding addresses | open, validate, sort, resolve | model runtime, interpreter |
| Command checks | `npu_cmd_desc_v2.c`, `npu_layout_ops.c` | none | check a record, resolve its references, call the operation | resolver, runtime operations |
| Engine operations | `npu_runtime_ops.c`, `hal_systolic.c`, `hal_afu.h`, `npu_quant_buffer.c` | command window, loaded parameters, pending job, shadow registers, table banks | stage weights, tables and parameters, configure, start and poll the engines, run vector kernels | DMA helpers, engines |
| Convolution library | `conv2d_packed.c/.h` | none (a plan of copies on the stack) | choose a way, cut into jobs, gather rows, run | HAL, DMA helpers, vector unit; called by hand-written tests only |
| DMA controller | `npu_pulp_idma_ctrl_mm.sv` | a job FIFO, issue and done ids per direction | accept (or stall), move, retire | core, TCDM, external memory |
| Systolic controller | `systolic_controller.sv`, `systolic_job_sequencer.sv`, `systolic_k_tile_scheduler.sv`, `systolic_weight_engine.sv`, `systolic_input_engine.sv`, `npu_systolic_array.sv`, `systolic_output_drain.sv`, `requant_pipeline.sv`, `systolic_ctrl_regs.sv` | state and tile index, counters and FIFOs of each engine, vectors in the array, partial sums | START, load or preload weights, feed, drain, next k-tile, DONE | core, TCDM, line buffer |
| Line buffer | `conv_linebuf_*.sv` | row ring, windows, tile, prefetch | start, hand over rows, prefetch the next k-tile | sequencer, TCDM |
| Host interface | `npu_cmd_ctrl.sv`, `npu_interrupt_ctrl.sv` | command registers; pending and enable bits | host and core accesses, event capture | host, core |
| Shared TCDM | `tcdm_interconnect.sv`, `cluster_sram_bank.sv`, `obi_narrow_to_wide.sv`, `tcdm_to_obi_bridge.sv` | round-robin pointers, response routing, outstanding request of each adapter, the banks | request, grant, response | all masters |
| Host and core bridges | `axi_lite_to_obi.sv`, `obi_demux.sv`, `obi_arbiter.sv` | bridge state, selected port | translate, route, answer | host, core, registers |

What is hard about it: the core, each DMA direction and the engine run at the same time and meet
only in registers; a direction carries blocking, asynchronous and prefetch transfers of three
clients that do not know of each other; ids wrap; a wait may time out and its transfer finish
later; every step may fail and must still end in one consistent report; and most waits have no
limit, so one lost START or DONE hangs the cluster. The hazards in `PROJECT.json` list these at
their lines.

What makes each part correct. The prefetcher must deliver the stream in order, whatever else uses
its direction. Waits, joins and barriers must leave nothing under way that they promise to have
joined, and the host must never read a final status before that. The interpreter must do through
its window what interpretation in place would do. The loader must accept only packages and tables
for which the resolver's unchecked arithmetic stays in bounds, and a command's checks must cover
every byte the operation then touches. An operation must compute what its command says, whatever
the commands before it left in registers, window and tables. A matrix job must write every row once
with all its contributions; the shared memory must behave as one. Beyond what is checked below: a
bridge must hold a request until it is granted and answer it once.

## The modules

`TransferId` is the comparison of DMA ids, with `HalfIds` for 2^31.

`SequentialStream` is what a reader of commands is promised: positions in order, once each, and
nothing after a break. `StreamPrefetch` is `npu_stream_prefetch.h` with its DMA direction and
implements it (`ImplementsStream`). `slots`, `readOffset`, `nextOffset`, `current`, `failed` are
the fields of `nai_stream_prefetch_t`; `pc`, `index`, `want` the locals of the running call; a byte
is represented by its position, and a byte that a job has yet to write by `None`, so that reading
too early shows. `FillSubmit`/`FillNothing`/`FillRefused` are the three exits of
`nai_stream_prefetch_fill`; `Read*` and `CopyChunk` are one turn of the loop of
`nai_stream_prefetch_read`; `Finish*` one turn of the loop of `nai_stream_prefetch_finish`.
`ForeignLaunch` is any other transfer on the direction.

`AsyncRuntime` is the runtime operations that start or join concurrent work. An operation begins
with an action of its own (`Submit`, `Sync`, `Copy`, `Gemm`, `Linebuf`, `SystolicWait`, `DmaWait`,
`Barrier`), which makes the checks the code makes first, and then moves through `pc`: `launch` (the
read of NEXT_ID, which stalls while the FIFO is full), `busy` (the spin on STATUS before a chunk of
a copy), `wait` (the poll of DONE_ID), `clear`/`start`/`poll` (the systolic registers), `join` and
`drain` (the barrier). `Retire` and `EngineDone` are the hardware. Three kinds of jobs share the
FIFO of a direction; the book-keeping knows only of the asynchronous ones. Of STATUS the model
assumes only that a direction with no job at all reads idle (`SurelyIdle`): it does not show jobs
in the FIFO, so the spin may end before the direction is empty.

`RuntimeSession` EXTENDS it with one job of the firmware: the loading reads, the prefetcher's jobs
(the ids only; their bytes are in `StreamPrefetch`), the dispatch, the joins and the registers of
the host. The writes that follow a step are queued in `writes` and done one by one, since the host
may look between any two. Every step is a step of `AsyncRuntime` or leaves its variables alone.
`HostJob` is what the host is promised, and `RuntimeSession` implements it (`ImplementsHostJob`).

`CommandDispatch` is the interpreter: `nai_cmd_dispatch_stream_v2` with `refill_command_window`,
`validate_affine_loop` and `run_affine_loop_buffer`, in the firmware's trusted build. The window
holds copies of units (32 bytes) of the section; what the operations were called with is recorded
in `executed`. `Program` is what the section means, translated from the other interpreter of the
same file, `nai_cmd_dispatch_v2` with `run_affine_loop_direct`, which works in place: the commands of
the record at each offset (`CommandsAt`), then those of the record behind it while `Continues`. A loop
is unrolled from its base, `DeltaAt` being what the patches add to a word in each pass; the other
interpreter adds it to the window's copy pass by pass.

`ModelLoader` is the load of a package: the header, the section table and the binding section are
read one by one through the staging window (`ReadHeader`, `ReadSections`, `ReadBindings`, each with
the size limit of its read and a DMA that may fail), checked in the order of the code (`First` picks
the status of the first check that fails), then the host's table of addresses is validated
(`ValidateTable`) and sorted in place into the order of the model's bindings (`SortSlot`, one turn of
the loop of `validate_runtime_bindings`). `OpenInPlace` is the loader that has the package in memory.
`trusted` is the build: a trusted one skips the reserved fields. `ResolveChecked` is
`nai_resolve_ref_v1`, which searches the table and checks ranges; `ResolveTrusted` is the resolver of
the trusted build, which indexes the sorted table and checks nothing.

`CommandChecks` EXTENDS it with one command. A *plan* (`PlanOf`) has the parts in which the commands'
functions differ: the tests of the record (those of both builds and those the trusted one leaves
out), the references in the order they are resolved with the bytes and the alignment asked for, and
the resolved ranges that must not overlap. `Judgement` runs a plan as `npu_cmd_desc_v2.c` does,
`Execute` records what came of it. `TouchesOf` is what the operation called then reads and writes,
translated from `npu_runtime_ops.c`, `hal_systolic.c` and `npu_layout_ops.c`, not from the checks.

`CommandMeaning` says what a command computes: the cells it writes, as functions of the cells it
reads (`Writes`, `Meaning`). A cell is 32 bytes of TCDM, a row of int8 values or a quarter of a row of
partial sums; a partial sum is the set of the products it is the sum of, each a pair of a weight tile
lane of an input (a byte of a cell), so that a wrong tile, a wrong stride, a doubled or a lost
product shows. Packed convolutions read pixels of any number of channels, so their inputs are counted
in lanes; a row gathered byte by byte is a cell put together from lanes.

`HalCalls` is `hal_systolic.c` and `hal_afu.h` as sequences of steps of the core: register writes,
START, waits; `PackedConv` is `conv2d_packed.c` in terms of them. A function of the library is an
operator from its configuration to such a sequence (`Conv32`, `LinebufConv`, `TilesConv`, ...); which
way it takes is decided by the same tests (`CoalesceSupported`, `KgenShapeSupported`, `PlanOverflow`,
...). `OutputTile` is `make_linebuf_output_tile_cfg`, the part of the picture a tile of the output
needs; `BoxCopy` a copy of the plan, `SegmentedCopy` the same pixels one by one.

`EngineOps` is how the runtime operations compute it. An operation is the sequence of what the core
does (`todo`, built by `Program` from the command and from what the firmware remembers): stage a
block in the window, write shadow registers, START, poll, run a vector kernel. One action per kind of
step takes the next one (`FetchPixels` is a plan of DMA copies, of which any may be refused or late);
`EngineFinish` and `AfuFinish` are the engines beside it, which see the
registers as they were taken at START and the window and memory as they are when the job ends.
Nothing is reset between commands: `regs`, `areg`, the window, the table `banks` of the AFU and the
parameters in `loaded` are what the last command left, which is how the operations differ from their
meaning. `Issue` takes a command or a load of parameters; `expected` is what the memory must be by
the meaning of the commands issued so far. The window is divided into slots of 1 KiB. Between two
commands a refill by the prefetcher may have overwritten it.

`TcdmMemory` is the shared data memory one clock edge at a time. `Raise` is a master that puts up a
request, which it keeps up until it is granted; `Clock` is the edge: every bank grants one of the
contenders of its highest class (`Grantable`), moves the pointer of that class (`NextPointer`),
accesses its array (`BankAccess`) and the response registers note whom to answer (`Responses`). The
32-bit ports of the core and the vector engine go through adapters, which narrow the strobe to
their lane and hold back the next request while one is outstanding (`busy`, `lane`). Byte enables
are modelled per 32-bit lane. The arbiter `rr_arb_tree` is outside the repository: when the pointer
names no contender, any contender may be granted. `AtomicMemory` is what the masters are promised,
one memory that serves a request at once and answers it in the next cycle, and `TcdmMemory`
implements it (`ImplementsAtomicMemory`).

`SystolicJob` is a matrix job of the systolic controller, a clock edge at a time. `Clock` is the
edge; its three parameters say whether the weight port is granted, whether the input has a row (a
grant, or the line buffer's row), and whether the four output ports are granted, which count as
one. Above it stands, engine by engine, what a cycle computes from the registers (`WeightRequest`,
`Feeds`, `WritesRow`, `ReadsPsum`, ...) and then what the engine's registers become
(`WeightEngine`, `InputEngine`, `LineBuffer`, `Drain`, ...). `Sequencer` is the state machine:
`LOAD_WEIGHTS` until `TileStart`, `COMPUTE` until `FeedDone`, `WAIT_DRAIN` until `Overlap` (the next
tile is fed while the last one drains), `Advance` or `Finish`. A row of numbers is the set of the
contributions it is the sum of, so that a lost, doubled or misplaced contribution shows; a product
is good only if each row of the array held the right weight in each of the cycles the vector crossed
it (`Multiply`). FIFOs fall through, as `fifo_v3` is instantiated. The line buffer is known by what
it shows the sequencer; `filled` also stands for a next tile whose rows are already cached.
Pooling, depthwise and binary jobs are not in it. `MatrixJob` is what the firmware is promised, and
`SystolicJob` implements it (`ImplementsMatrixJob`) but for jobs that accumulate, see the runs.

## Runs

| Run | Instance | What it shows |
|---|---|---|
| `prefetch` | 9 bytes, slots of 3, pages of 4, ids modulo 12 from every start, FIFO of 3, 2 foreign transfers | the stream arrives in order, waits do not time out on finished jobs, finish joins, jobs stay in a page, every call returns |
| `async` | 5 operations, 2 queue slots, FIFO of 2, ids modulo 6 from two starts | waits and barriers join what they promise, a pending job can be joined, every operation returns |
| `session` | 7 operations and refills, every load and command may fail | PASS means nothing runs any more, reports are whole, the host is always notified |
| `load` | 16-bit words, up to 5 bindings, a staging window of 256 bytes; packages and tables that are sound and with one thing wrong; one command of each type at and around its limits, both builds | both loaders agree, an opened model is well formed, the sorted table is the host's in the model's order, an accepted command touches only its regions and overwrites no source it still reads, the trusted build calls what the checked one would |
| `hal` | 64 cells of 2 lanes; stripes and partial sums of 2 rows, jobs of 3; any two of 55 commands and convolutions, one more that shows what they left, and any loads of parameters between them | whatever registers, window, tables and parameters hold from before, and whichever way a convolution takes, memory ends up as the commands say; every poll is for a job that ends, given that partial sums are read in time; START finds an idle engine |
| `dispatch` | every sequence of 3 out of 11 records, 3 declared counts, window of 5 units, words modulo 4 | the window is the section, windowed interpretation is interpretation in place, failures are located |
| `tcdm` | 4 ports (core, vector, accelerator, DMA; two behind adapters), 2 banks of 2 lines of 2 lanes | banks, arbiters and adapters are one memory, no accelerator port starves, others only under a higher class |
| `systolic` | array of 2 by 2, FIFOs of 2 rows, PSUM buffer of 3, 3 requantisation stages; jobs of 1 to 3 tiles and 1 to 4 rows, every grant free | weights move only in an empty array, no response finds a full FIFO, the line buffer hears every pulse, each output row is written once with all its contributions, every job ends |
| `psum_row_lost` | a job of one tile that accumulates | a PSUM read granted on the edge that starts the tile is forgotten: row 0 is added to the partial sums of row 1 |
| `accum_hang` | a job of two tiles that accumulates in the PSUM buffer | the overlapped second tile stops the reads the first still needs, and the job hangs |
| `psum_stride` | a GEMM with a partial-sum stride and no output stride | the HAL derives the tile width from the output stride only: the engine reads partial sums without the gaps |
| `end_waits` | a pending line-buffer job and a DMA timeout at END | the barrier gives up before the engine: the host is notified while a job runs |

Bounds. In `prefetch` the stream needs five fillings of the two slots, some cut by a page boundary
and one by the end, so that each slot is reused and the ids pass zero. In `async` five operations
are enough for two asynchronous transfers, a blocking one between them, a line-buffer job and its
join, and the queue limit is reached; the FIFO is as deep as the software limit, so prefetch and
blocking jobs make it overflow into a stall. In `session` the three loading reads and four more
operations leave room for a submit, a pending job and refills in any order. In `dispatch` the
records include a descriptor with a table of patches (two units), a loop that exactly fills the
window, one that is too long, one whose children do not tile its body, an END of a wrong size and
commands that may fail; three in a row put every one of them at every place of the window. In
`tcdm` one line is read through both adapters while the DMA writes it, another is written by two
ports with different strobes, and every pair of ports meets at the first bank in some state; a
second bank is enough for simultaneous grants and for a response from a bank other than the last.
In `systolic` four rows fill the OFM FIFO and stall the array with vectors inside; three and one row
fit the PSUM buffer and four do not; three tiles give a first, a middle and a last one, and the
middle one is entered both by `Overlap` and by `Advance`. Jobs follow one another without end.
Jobs that accumulate are limited to one tile there, and a PSUM read is not granted in the very cycle
in which the tile starts (`GrantAtStart`): the two `violation` runs show what happens without either
limit. With several tiles and more rows than the PSUM buffer holds (which the firmware does not ask
for, `npu_cmd_desc_v2.c:802`) the rows read ahead before the tile start would also be left in the
PSUM FIFO for the next tile.

In `load` an address space of 64 KiB is enough for every sum and product of the checks to wrap: the
packages hold up to five bindings in several orders, and each faulty one has a
single field wrong, so that each check is the first to fail in some run; five bindings of 64 bytes
exceed the staging window, as 65 do that of 4096 bytes (`ReadBindings`); commands have each size,
stride and offset at the limit of its region, one unit beyond and at the end of the address space.
In `hal` the constants stand for 256 (`StripeRows`, `PsumRows`, `AccumTileM`) and 1024 (`TileM`), for 32
(`Lanes`), 5 (`LinebufKMax`), 640 (`LinebufMaxInputW`) and 256 (`MaxPrepareCmds`), and
the rows of the commands are chosen below, at and above each of them where the operation tiles;
pointwise commands have one, three and five channel groups, on both sides of the four that are
staged at once. The convolutions take every way the library has: rows of one pixel, plans that fit and
one that overflows, from the TCDM and from outside; one job, stripes, tap by tap; tiles in both
directions, with padding on every side of a tile and none. What a command leaves behind can spoil only the next command that does not write it:
two commands and a third that reuses something (`Closing`: a table that is kept, a wait, a barrier, a
final line-buffer job, a load of parameters) meet every pair.

Fairness. The core runs whenever it can (`WF` of its steps): it has no scheduler and no interrupt
is enabled. Its spins on STATUS are only assumed to end once the direction holds no job, its reads
of NEXT_ID once the FIFO has room, its polls of DONE_ID time out by themselves. The DMA retires
each job it accepted and the engine finishes each job it started (`WF` of `Retire`, `EngineDone`):
neither is ever blocked by the core. For the DMA this is what the controller does; for the engine it
is a condition on the jobs, which `AsyncRuntime` does not tell apart. `JobEnds` shows that jobs of
run `systolic` end and `PollsEnd` that no operation starts a job its registers keep from ending, but a job
that adds to partial sums over several k-tiles may never end (run `accum_hang`). So `CallsReturn` and
`HostNotified` say: the firmware returns and notifies, if no job of that kind is among the commands or
the ports grant the reads of its partial sums in time. In `TcdmMemory` only the clock is fair; masters may stay silent
and may ask for ever. In `SystolicJob` the clock is fair and a port that asks again and again is
granted again and again (`SF`), which is `HwpeServed` of `TcdmMemory`; for the line buffer it says
that it has its row at last. No fairness is assumed of the host.

Of the model package it is assumed that it lies in L2 and not in the TCDM (`ModelsOutsideScratch`): the
firmware does not look, but gives a DMA its direction by the region a reference names. Only the tables
of a DFL depend on it, which no result is tested against.

Assumed of the command stream, which the command compiler writes:

- no GEMM-like command while a line-buffer job is pending, and no command that touches what the
  pending job reads or writes; the firmware checks this only for line-buffer commands, so
  `PendingJoinable` says nothing of a GEMM that comes in between;
- a job that adds to partial sums over several k-tiles comes only where the ports grant the reads of
  those sums before the second k-tile takes the place of the first (`SumsInTime`). The firmware accepts such jobs
  (`npu_cmd_desc_v2.c:802` limits only their rows), and run `accum_hang` is what happens if a read comes
  later: the job does not end, and the poll for it neither. Run `hal` makes
  the assumption and issues them; without it (`SumsInTime = FALSE`) the model leaves the commands out
  that ask for them (`AccumulatesTiles`), and the theorem `PollsAnswered` covers both;
- in a trusted build, blocks of parameters are sound and the one a command names is the one loaded (the
  other build checks both), and the binding section is in the order inputs, outputs, temporaries, which the resolver
  of that build indexes by (`Ordered`; `npu_cmd_desc_v2.c:50-59`, and the comment at
  `npu_model_runtime.c:154`);
- a command that reuses the AFU's table or chains on it comes when a table is resident
  (`docs/afu_architecture.md:396`);
- no command reads what another left in its scratch area, which includes the partial-sum area of a
  line-buffer job of several k-tiles with more rows than the array keeps;
- a line-buffer job that accumulates has no more rows than the array keeps
  (`npu_cmd_desc_v2.c:802`), and the final job over a single k-tile, for which the HAL writes no
  strides, has its partial sums in rows without gaps;
- a convolution the library is called with has weights and output in the TCDM, a picture in C32 groups
  only where it goes to the line buffer, and a row stride only there (gathered rows and the tap-by-tap
  way ignore `input_row_stride_bytes`); several C32 groups come undivided in height or through `..._tiles_requant`,
  since the other ways take the height of a tile for that of a group; pixels of exactly 32 channels in
  several k-tiles are aligned and 32 bytes apart, since otherwise the library asks for several k-tiles
  without a schedule and the engine ends after the first (`KTiles`);
- a DMA copy that was given up lands before the next k-tile is prepared;
- the caller of `..._tiles` and `..._tiles_requant` switches requantisation itself;
- a GEMM has a partial-sum stride only together with an output stride: run `psum_stride` is what
  happens otherwise.

What an engine computes is ideal in `EngineOps`: a job that adds to partial sums adds to all of them.
The engine can lose one (run `psum_row_lost`), so `CommandsCompute` is a statement about the firmware:
it asks the engines for the right jobs on the right operands.

A copy into the window may fail (`StageWindow`), which is the time-out of a blocking copy; the
operation then ends with its error and nothing is started.

A reset runs one job. `start.S` does not clear `.bss`, which `link.ld` marks NOLOAD; the statics of
the firmware start at zero because the loader that places the ELF zero-fills
(`npu_test_utils.py:333`). A second job started by fetch-enable alone would find what the first left
in them, and is not modelled.

## Proofs

Both modules about DMA transfers begin with three lemmas on identifiers, for every width: retiring and
issuing move `Ahead(done, id)` (the number of transfers that retire up to `id`) by one, and an id with
a positive distance below half the space is not `Completed`.

`StreamPrefetchProofs` proves `TypeOK`, `DeliveredInOrder`, `NeverStarved`, `FinishJoins`,
`JobsWithinPage` and the refinement of `SequentialStream` for every stream, slot size, page size,
FIFO depth and id width, assuming only that the FIFO is shallower than half the id space. The
properties are not inductive: that a byte has arrived follows from its slot having no job in
flight, which follows from the *wait* having seen the job's id, which needs ids in the FIFO to be
consecutive (`IdInv`), each job to be the one its slot remembers (`JobInv`), a slot without a job to
hold its range (`LandedInv`), and the two slots to tile the stream from `readOffset` to
`nextOffset` with the current one first (`WindowInv`). `IInv` is their conjunction; one lemma per
group of actions shows that it is preserved.

`NoFalseTimeout` looks further back: a slot filled ahead may be joined long after its job retired. Two
more conjuncts bound what happens in between. An id that has not retired is in the FIFO (`HeldInv`), and
a slot sees few launches before its join (`AgeInv`): its own, those of others, and the refill of the
other slot once the reader has moved to it; a second refill would have needed the join. The theorem has
the hypothesis `FewForeign`, `MaxForeign + 2 < HalfIds`, which run `prefetch` satisfies (4 < 6) and
which is tight: with `HalfIds = 6` TLC finds a false timeout at `MaxForeign = 4` and none at 3. In the
code `HalfIds` is 2^31, and the launches in question are those of the
commands in two slots of at most 4 KiB (`NAI_STREAM_PREFETCH_MAX_BYTES`).

`RuntimeSessionProofs` first proves `TypeOK`, `PendingJoinable`, `StartTaken`, `WaitJoins` and
`BarrierQuiesces` of `AsyncRuntime` for every queue limit, FIFO depth and id width. The core of the argument is
`CoveredInv`: while nothing has failed, every asynchronous job in flight is the target of the next
wait or lies ahead of it in the FIFO, although blocking and prefetch jobs are interleaved; with
`IdInv` a target that reads as completed has left the FIFO, and everything ahead of it too.
`ArrayInv` says who is going to consume DONE, `BarrierInv` how far a barrier has come.

It then proves that a session is a run of `AsyncRuntime` (`SessionIsRun`), so that the
theorems above hold of it, and from them `PassMeansQuiescent`, `ReportsWhole` and the refinement of
`HostJob`. `SessionInv` adds to the invariant of `AsyncRuntime` the types of the session's own
variables, `SlotInv` (a prefetch job in flight is remembered by a slot with its id, and a slot that
was joined remembers none), `PhaseInv` (which operations run in which phase of the job), `EndInv`
(a dispatch that ended well leaves nothing working and no job pending) and `ReportInv` (which writes
are still queued, and what the registers hold between any two of them). That a PASS is quiescent
needs all of them: it is written several steps after the barrier that justifies it, and the barrier
joins only the asynchronous transfers, the finish of the prefetcher the others.

`CommandDispatchProofs` proves `TypeOK`, `WindowIsSection`, `ExecutesProgram` and `FailureLocated` for
every section, every declared number of commands and every size of the window. `DispatchInv` is what
the steps preserve: each unit of the window is the one `Expected` there, that of the section or, in the
body of a loop, its base plus the passes done times the delta, words wrapping as they do in the code
(`WindowInv`, `WrapsAlike`); what has been found out so far about the record at the offset
(`RecordInv`); the loop under way is valid, lies in the window, and what remains of it fits the
declared count (`LoopInv`); the commands executed are the start of `Program`, and those from the offset
on are the rest (`ProgramInv`); and what a finished dispatch reports (`OutcomeInv`). `ExecutesProgram` alone is far from inductive: it speaks of the end, and the steps
move a window over copies. `Program` and `DeltaAt` are recursive functions; that they satisfy their
equations is proved by descent to a least counterexample (`WFMin`), which takes no operator.

`ModelLoaderProofs` proves `TypeOK`, `CanonicalSlots`, `OpenAgrees` and `OpenedWellFormed` for every set
of packages and invocations. The sort only exchanges entries, each turn puts the entry of one more
binding in its place (`StageInv`), and what it finds there has passed the test of `ValidateTable`.
That the two loaders agree needs each stage to remember what was accepted before it
(`HeaderAccepted`, `SectionsAccepted`, no `BindingsBad`) and what a refusal means (`RefusedAlike`). The
two chains of checks are compared status by status (`FirstOk`: a chain ends well exactly if no check
fails); the limits in which they differ, 6 sections or 64, come to the same because no type may come
twice (`SectionsBounded`, a pigeonhole). That every input is bound follows from counting: the
bindings of a direction have different indices below the count, and there are as many
(`NamesFilled`). `LoaderAssumption` says what a file is: records with words in their fields, as many
as the header and the binding section announce.

`CommandChecksProofs` proves `TrustedCallsAgree`: when the checked build resolves every reference, the
trusted resolver yields the same addresses, for every model whose binding section is in order. It
rests on `OutcomeInv` (an outcome is the verdict on some command of the model that is loaded) and on
the references of a plan being those of the record. `CallsStayInside` proves `TouchesWithinRegions`:
for every kind of command one lemma (`DmaCovered` ... `CopyCovered`) shows that each touch lies in the
bytes its plan asks for, from the tests of the plan (a count is not zero, so that its predecessor does
not wrap) and a few facts on grids of strided rows (`RowsCovered`, `BlocksFit`, `PlaceInGrid`);
`RegionSound` shows that a region ends in memory, `CheckedInside` that a resolved address has all its
bytes in its region. `ResultsSpareSources` proves `SourcesSurvive`: every pair of a source and a result
is among those tested (`PairsTested`), or is a table in the model and a result in the scratch memory
(`TableApart`). The proofs assume of a record that its numbers are words (`CommandAssumption`) and of
the width of a word only that the number of words is a natural number (`LoaderAssumption`; the provers
know no powers).

`EngineOpsProofs` proves `PollsEnd` and `StartFindsIdle` for every program of commands and
convolutions of any size, for both values of `SumsInTime`, and four facts that say why one command may
follow another: `OperationsSettled`, `WindowHeld`, `PassesKept` and `ParametersCurrent`. The properties
speak of one step, but what makes them true is the order of the steps before and behind it, in sequences as long as
the data. The proof therefore takes a sequence for what it does to the engines. A `Phase` says whether
the array is free or busy, whether the weights of the job are in the TCDM, whether the depthwise tap is
set, whether the line buffer is set for several k-tiles and whether the job is sure to end all the same,
whether a submitted job is due and whether a pass of the AFU has yet to be polled; `Takes` says
from which phase to which a step leads, and `Turns(s, p, q)` that the steps of `s` lead from `p` to `q`.
Sequences one after the other turn from the first phase to the last (`TurnsJoin`), so there is one
lemma for each call of the HAL (`TurnsTile`, `TurnsTiled`, ...), for each way of a convolution
(`TurnsConv32`, `TurnsTiles`, ...) and for each operation; a loop over stripes, taps, tiles or groups
whose body turns to where it began turns there as a whole (`TurnsLoop`, by induction on its length, with
a set in the place of the predicate). `TurnsProgram` puts them together: from the
phase any operation leaves, the next one leads to such a phase again. The invariant is that what is
left of the program leads on from where the engines are (`Leads`; `Array` is what a phase says of
registers, job and DONE), or that parameters are being loaded (`Loading`), whose three steps must not
be separated for `ParametersCurrent`. START finds the tap on only together with
requantisation, which is why a depthwise job can end, and finds the line buffer set for several k-tiles
only in a job that adds to no partial sums, or under `SumsInTime`. `CommandsAssumption` says what a command
is: its counts are natural numbers, and a convolution of the library is a record of the fields of its
configuration. Of what the compiler promises (`Scheduled`) the proof uses two parts: while a job is
pending, no other command of the array is issued, and commands that add over several k-tiles only
under `SumsInTime`.

`TcdmMemoryProofs` proves `TypeOK`, `AdaptersInStep` and the refinement of `AtomicMemory` for every
number of ports, banks, lines and lanes and whatever the masters ask. The inductive invariant is
`TypeOK /\ AdaptersInStep`; it is needed because an adapter answers from the lane it noted at the
grant, which is the right one only if no other request of its master is on the way. The step rests
on two lemmas: a line has one place (`OnePlaceEach`, the uniqueness of quotient and remainder), so
that two grants in a cycle never touch the same line, and a master is granted by no bank but the
one of its line (`GrantedBank`), so that one response register per master is enough.

`SystolicJobProofs` proves `TypeOK`, `WeightsFindArrayEmpty`, `NoRowDropped`, `PulseIsTaken` and the
refinement of `MatrixJob` for every size of the array, every depth of the FIFOs and of the requant
pipeline, every number of tiles and rows, and whatever the ports grant. One clock edge moves all the
engines at once, so the proof is by engine: each has a part of the invariant and a lemma that every
edge preserves it (`SeqStep`, `WeightStep`, ... `MemStep`), and `EdgeKinds` sorts the edges by what the
sequencer does. The parts are:

- `SeqInv`: the array is flushed before weights are fetched ahead, and a tile after the first begins
  with its weights there;
- `WeightInv`: outside the two phases of fetching the array holds the weights of one tile, in them the
  rows that came, moved on (`Fetching`, `Holds`);
- `InputInv`, `LineInv`: what is on its way to the array are the rows that follow those fed, and the
  line buffer is at the tile the sequencer is at;
- `PipeInv`: the array holds, in order, exactly the rows fed and not yet pushed, and in `WAIT_DRAIN`
  none so far back that `flush` would end before it comes out;
- `OfmInv`, `RqInv`, `RowsInv`: so do the OFM FIFO and the requant pipeline, and a row is counted off
  when it goes to the PSUM buffer or is written;
- `PsumInv`: the partial sums under way are the rows that follow those taken, and what is still to be
  read has not been written over, although results and partial sums share the region;
- `MemInv`: a row of the output that is written is the whole sum; rows of the PSUM buffer or of the
  region hold the tiles so far.

The array and the requant pipeline are both registers along which rows move with holes between them:
`LinesMove` is the one lemma about that, for any number of registers. The properties are far from
inductive. That a result finds its partial sum at the head of the FIFO, for one, needs the number of
results taken, of rows read ahead and of the read under way to add up over the whole tile.

Two hypotheses restrict the jobs to those of run `systolic`. `OneTile`: a job that accumulates on rows
in memory has one k-tile; with several it waits for a row that never comes, as run `accum_hang` shows.
`Sound`, for the refinement only: no read of a partial sum is granted in the cycle in which an
accumulating job's tile starts; if it is, its row is forgotten, as run `psum_row_lost` shows. Nothing
else is assumed of the jobs (that several tiles come from the line buffer is in
`SystolicAssumption`), and of the values only that they are different from each other
(`ValuesAssumption`).

Model-checked only: the liveness properties (`CallsReturn`, `HostNotified`, `HwpeServed`,
`LowerServed`, `JobEnds`), which are out of this prover's reach, as ENABLED is; and `CommandsCompute`
of `EngineOps`. That the operations compute their meaning is a statement about the data that goes
through them, another one for each kind of command: sums of products over tiles, taps and channel groups
put together by folds. Its proof would follow every command's steps with a lemma for what each engine and
each kernel makes of memory; it has not been done. What such a proof starts from is proved: the steps are
taken in order on engines that are idle (`StartFindsIdle`, `PassesKept`), with the parameters the command
asks for (`ParametersCurrent`), in a window that is kept (`WindowHeld`).

## Not modelled

- The arithmetic of the engines and of the vector kernels: values are uninterpreted, only where they
  come from and go to is checked. So are the layouts of registers and records.
- `npu_graph.c` and the kernels only it calls: it is, like `conv2d_packed.c`, not in the sources of the
  firmware (`runtime/neural_ai/Makefile`) but in those of hand-written tests; no command reaches it. It
  plans where tensors lie and calls the convolution library layer by layer. Of `conv2d_packed.c` the
  cycle counts are left out, and `run_linebuf_kgen_tile_requant`, which nothing calls.
- The calls of `hal_systolic.c` that split a line-buffer job of more than 1024 rows; no command makes
  them, since a job's rows are limited before.
- The AFU's FIFOs and the cycle in which its DONE meets START; pooling, depthwise and binary jobs of
  the systolic controller cycle by cycle (what they compute from which registers is in `EngineOps`);
  the row ring behind the line buffer's face. An engine in `EngineOps` reads its operands when the job
  ends, as one step: what the firmware may change under a running job is the command window, which
  shows in its result whenever it changes before that step, and the shadow registers, which the
  hardware takes at START.
- Transfer plans (`idma_transfer_plan.h`), PMU profiling, the interrupt controller (the firmware polls
  and enables no internal interrupt), the OBI and AXI-lite bridges, the wiring of the top level.
- The DMA midend and backend, the core and the vector unit are submodules outside the repository; the
  FIFO and id behaviour is modelled from the controller that instantiates them and from how the
  firmware uses it.
- Patches of an affine loop are taken to hit payload words, one per unit: that they miss the headers
  is checked by the compiler, as the comment in `validate_affine_loop` says.

## Plan

Done: `TransferId`, `StreamPrefetch`, `AsyncRuntime`, `RuntimeSession`, `CommandDispatch`,
`TcdmMemory`, `SystolicJob`, `ModelLoader`, `CommandChecks`, `CommandMeaning`, `HalCalls`, `PackedConv`,
`EngineOps`; proofs of all of them but for what the engine operations and the convolution library
compute. Left: `npu_graph.c`, the plan of tensors and its calls of `PackedConv`.
