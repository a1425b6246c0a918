---- MODULE SystolicJob ----
(***************************************************************************)
(* A matrix job of the systolic controller, clock edge by clock edge: the  *)
(* job sequencer, the k-tile index, the weight engine, the input engine,   *)
(* the array and the output drain.  Pooling and depthwise jobs, which do   *)
(* not use the array, and the binary operand, which the hardware rejects,  *)
(* are left out.                                                           *)
(*                                                                         *)
(* A row of numbers is the set of the contributions it is the sum of, a    *)
(* product by its tile and row; a sum that takes a contribution twice, or  *)
(* a product with a wrong weight, is Garbled.  A pointer is the region and *)
(* the row it has walked to.  The line buffer is known by the rows it      *)
(* hands over and by its busy signals.  The memory grants as it likes.     *)
(***************************************************************************)
EXTENDS Integers, Sequences

CONSTANTS Jobs,                         \* the register settings jobs are started with
          Dim,                          \* ARRAY_DIM
          InputDepth,                   \* depth of the weight and input FIFOs
          OfmDepth,                     \* depth of the OFM and PSUM FIFOs
          PsumRows,                     \* PSUM_BUF_M
          RequantStages,                \* registers of the requant pipeline
          MaxM,
          GrantAtStart,                 \* a PSUM read may be granted in the cycle a tile starts
          Psum, Quantized, Garbled, None

Job == [tiles : Nat \ {0}, m : 1 .. MaxM, linebuf : BOOLEAN, accum : BOOLEAN, requant : BOOLEAN]

ASSUME SystolicAssumption ==
    /\ Dim \in Nat \ {0} /\ InputDepth \in Nat \ {0} /\ OfmDepth \in Nat \ {0}
    /\ PsumRows \in Nat \ {0} /\ RequantStages \in Nat \ {0} /\ MaxM \in Nat \ {0}
    /\ GrantAtStart \in BOOLEAN
    /\ Jobs \subseteq Job
    /\ \A j \in Jobs : j.tiles > 1 => j.linebuf

Stages == 2 * Dim - 1                   \* VALID_DELAY, ARRAY_FLUSH_CYCLES
ArrayRows == 0 .. (Dim - 1)
OutRows == 0 .. (MaxM - 1)
Tiles == UNION {0 .. (j.tiles - 1) : j \in Jobs}

\* What the data path carries: weights, vectors, rows of numbers, entries of the OFM FIFO.
Weight == Tiles \X ArrayRows
Vector == [tile : Tiles, row : OutRows, ok : BOOLEAN]
Sums == SUBSET (((Tiles \cup {Psum}) \X OutRows) \cup {Quantized, Garbled})
Entry == [val : Sums, row : OutRows, tile : Tiles, ext : BOOLEAN, final : BOOLEAN]

ASSUME ValuesAssumption ==
    /\ Psum \notin Tiles
    /\ None \notin Weight /\ None \notin Vector /\ None \notin Entry
    /\ \A s \in Sums : s # None

VARIABLES job, state, flush, tile,      \* registers, sequencer, k_tile_idx_q
          w,                            \* weight engine
          inp, prefetchReq, lb,         \* input engine, line buffer
          held, pipe,                   \* array: weight of each row, vectors under way
          drain, ofm, psum, rq, buf,    \* output drain: registers, FIFOs, requant, PSUM buffer
          mem                           \* the two regions the job writes

vars == <<job, state, flush, tile, w, inp, prefetchReq, lb, held, pipe, drain, ofm, psum, rq, buf, mem>>

Running == {"LOAD_WEIGHTS", "COMPUTE", "WAIT_DRAIN"}

Init ==
    /\ job \in Jobs /\ state = "IDLE" /\ flush = 0 /\ tile = 0
    /\ w = [req |-> 0, rsp |-> 0, obi |-> 0, active |-> FALSE, done |-> FALSE,
            tile |-> 0, fifo |-> <<>>, rdata |-> None]
    /\ inp = [req |-> 0, rsp |-> 0, fifo |-> <<>>, rdata |-> None]
    /\ prefetchReq = FALSE
    /\ lb = [tile |-> 0, left |-> 0, busy |-> FALSE, filling |-> FALSE, filled |-> FALSE]
    /\ held = [r \in ArrayRows |-> None] /\ pipe = [i \in 1 .. Stages |-> None]
    /\ drain = [rows |-> 0, pushRow |-> 0, region |-> "ofm", oRow |-> 0, aRow |-> 0,
                prefetch |-> 0, read |-> None, sent |-> FALSE]
    /\ ofm = <<>> /\ psum = <<>> /\ rq = [i \in 1 .. RequantStages |-> None]
    /\ buf = [r \in OutRows |-> {Garbled}]
    /\ mem = [g \in {"ofm", "psum"} |-> [r \in OutRows |-> None]]

----
(* What the controller derives from the registers and the k-tile index. *)

\* The partial sums of a job of several tiles fit the PSUM buffer, or go through memory.
Buffered(j) == j.tiles > 1 /\ j.m <= PsumRows
ThroughMemory(j) == j.tiles > 1 /\ ~Buffered(j)

HasNext == tile + 1 < job.tiles
AccumActive == job.accum \/ tile # 0
RequantActive == job.requant /\ ~HasNext
PsumBuf == Buffered(job)
NeedsExternal == PsumBuf /\ job.accum /\ tile = 0

\* array_pipe_ready: the array moves unless a result waits for room.
PipeReady == pipe[Stages] = None \/ Len(ofm) < OfmDepth

\* fifo_v3 that falls through: what its output side sees when x is pushed.
Push(f, x, depth) == IF x = None \/ Len(f) >= depth THEN f ELSE Append(f, x)
Popped(f, pop) == IF pop THEN Tail(f) ELSE f

----
(* Weight engine: the rows of a tile are fetched from the last to the first. *)

Loading == state = "LOAD_WEIGHTS" /\ ~w.done
Preloading == state = "WAIT_DRAIN" /\ w.active

\* Faulty variant: goes on asking after the last row.
WeightRequest_Unbounded == (Loading \/ Preloading) /\ Len(w.fifo) < InputDepth

WeightRequest == (Loading \/ Preloading) /\ w.req # 0 /\ Len(w.fifo) < InputDepth

WeightFifo ==
    IF Loading \/ (Preloading /\ w.obi # 0) THEN Push(w.fifo, w.rdata, InputDepth) ELSE w.fifo

\* weight_load_en
WeightPop == WeightFifo # <<>> /\ (Loading \/ (Preloading /\ PipeReady))
LastWeight == WeightPop /\ w.req = 0 /\ w.rsp = 1
LoadDone == Loading /\ LastWeight

\* Faulty variant: does not wait until the array is flushed.
PreloadAllowed_Early == HasNext /\ ~lb.filling

\* weight_preload_allow
PreloadAllowed == HasNext /\ flush = 0 /\ ~lb.filling

PreloadStarts == state = "WAIT_DRAIN" /\ PreloadAllowed /\ ~w.active /\ ~w.done

----
(* Input engine: rows straight from memory, or from the line buffer. *)

InputRequest ==
    state = "COMPUTE" /\ ~job.linebuf /\ inp.req # 0 /\ Len(inp.fifo) < InputDepth /\ PipeReady

InputFifo == IF state = "COMPUTE" THEN Push(inp.fifo, inp.rdata, InputDepth) ELSE inp.fifo

\* compute_en, with the line buffer showing a row or not.
Feeds(ready) ==
    state = "COMPUTE" /\ PipeReady /\ (IF job.linebuf THEN lb.left # 0 /\ ready ELSE InputFifo # <<>>)
FedRow == IF job.linebuf THEN [tile |-> lb.tile, row |-> job.m - lb.left, ok |-> TRUE]
          ELSE Head(InputFifo)

\* Faulty variant: leaves out the last row.
FeedDone_OneShort(ready) ==
    Feeds(ready) /\ (IF job.linebuf THEN inp.req <= 2 ELSE inp.req = 0 /\ inp.rsp = 1)

\* feed_done_o
FeedDone(ready) ==
    Feeds(ready) /\ (IF job.linebuf THEN inp.req = 1 ELSE inp.req = 0 /\ inp.rsp = 1)

----
(* The array: row r multiplies a vector while it is r to r + Dim - 1 stages old. *)

Multiply(v, age) ==
    IF v = None THEN None
    ELSE [v EXCEPT !.ok = @ /\ \A r \in ArrayRows :
                                 r <= age /\ age <= r + Dim - 1 => held[r] = <<v.tile, r>>]

MovePipe(ready) ==
    pipe' = IF ~PipeReady THEN pipe
            ELSE [i \in 1 .. Stages |->
                    IF i = 1 THEN Multiply(IF Feeds(ready) THEN FedRow ELSE None, 0)
                    ELSE Multiply(pipe[i - 1], i - 1)]

\* A weight that is popped while the array stands still is gone.
MoveWeights ==
    held' = IF WeightPop /\ PipeReady
            THEN [r \in ArrayRows |-> IF r = 0 THEN Head(WeightFifo) ELSE held[r - 1]]
            ELSE held

----
(* Output drain: what it does in a cycle. *)

Plus(a, b) == IF a \cap b = {} THEN a \cup b ELSE {Garbled}

Result == LET v == pipe[Stages]
          IN  IF v = None THEN None
              ELSE [val |-> IF v.ok THEN {<<v.tile, v.row>>} ELSE {Garbled},
                    row |-> drain.pushRow, tile |-> tile, ext |-> NeedsExternal, final |-> ~HasNext]
Ofm == Push(ofm, Result, OfmDepth)
Pushed == Len(Ofm) > Len(ofm)

\* The response of a PSUM read comes in the cycle after its grant.
PsumFifo == Push(psum, drain.read, OfmDepth)

UsesPsum == IF PsumBuf THEN Head(Ofm).ext ELSE AccumActive
HeadReady == Ofm # <<>> /\ (UsesPsum => PsumFifo # <<>>)
GoesOut == PsumBuf => Head(Ofm).final

Sum == LET e == Head(Ofm)
       IN  IF UsesPsum THEN Plus(e.val, Head(PsumFifo))
           ELSE IF PsumBuf /\ (e.tile # 0 \/ job.accum) THEN Plus(e.val, buf[e.row])
           ELSE e.val

QuantizedOut == rq[RequantStages]
RqReady(granted) == granted \/ \E i \in 1 .. RequantStages : rq[i] = None

\* The head of the OFM FIFO goes to the PSUM buffer, to the output ports or to the requant pipeline,
\* where rows with partial sums go one at a time.
ToBuffer == HeadReady /\ ~GoesOut
WritesRow == HeadReady /\ GoesOut /\ ~RequantActive
ToRequant(granted) ==
    HeadReady /\ GoesOut /\ RequantActive /\ RqReady(granted) /\ (PsumBuf \/ AccumActive => ~drain.sent)

Writes == WritesRow \/ QuantizedOut # None

\* Faulty variant: does not look whether its FIFO is full.
ReadsPsum_WhenFull ==
    /\ IF PsumBuf THEN NeedsExternal ELSE AccumActive
    /\ drain.prefetch # 0 /\ drain.read = None
    /\ ~Writes

\* The PSUM rows are fetched ahead, in cycles that write nothing.
ReadsPsum ==
    /\ IF PsumBuf THEN NeedsExternal ELSE AccumActive
    /\ drain.prefetch # 0 /\ drain.read = None /\ Len(psum) < OfmDepth
    /\ ~Writes

OutputRequest == Writes \/ ReadsPsum

Pops(granted) == ToBuffer \/ (WritesRow /\ granted) \/ ToRequant(QuantizedOut # None /\ granted)

\* What a row of the PSUM region reads as.
PsumAt(r) == IF r \in OutRows /\ mem["psum"][r] # None THEN mem["psum"][r] ELSE {Garbled}

\* The drain's registers after the service of a cycle.
Served(granted) ==
    [drain EXCEPT
        !.rows = IF ToBuffer \/ (Writes /\ granted) THEN @ - 1 ELSE @,
        !.oRow = IF Writes /\ granted THEN @ + 1 ELSE @,
        !.pushRow = IF Pushed THEN @ + 1 ELSE @,
        !.sent = IF QuantizedOut # None /\ granted THEN FALSE
                 ELSE @ \/ ((PsumBuf \/ AccumActive) /\ ToRequant(FALSE)),
        !.aRow = IF ReadsPsum /\ granted THEN @ + 1 ELSE @,
        !.prefetch = IF ReadsPsum /\ granted THEN @ - 1 ELSE @,
        !.read = IF ReadsPsum /\ granted THEN PsumAt(drain.aRow) ELSE None]

MoveData(granted) ==
    LET out == QuantizedOut # None /\ granted
        taken == [i \in 1 .. RequantStages |-> out \/ \E k \in i .. RequantStages : rq[k] = None]
        entry == IF ToRequant(out) THEN Sum \cup {Quantized} ELSE None
    IN  /\ ofm' = Popped(Ofm, Pops(granted))
        /\ psum' = Popped(PsumFifo, Pops(granted) /\ UsesPsum)
        /\ rq' = [i \in 1 .. RequantStages |->
                     IF ~taken[i] THEN rq[i] ELSE IF i = 1 THEN entry ELSE rq[i - 1]]
        /\ buf' = IF ToBuffer THEN [buf EXCEPT ![Head(Ofm).row] = Sum] ELSE buf
        /\ mem' = IF Writes /\ granted
                  THEN [mem EXCEPT ![drain.region][drain.oRow] =
                           IF QuantizedOut # None THEN QuantizedOut ELSE Sum]
                  ELSE mem

----
(* The sequencer: what ends the state of this cycle. *)

TileStart == state = "LOAD_WEIGHTS" /\ (w.done \/ LoadDone)

\* The next tile may be fed while the drain still adds the rows of this one to the PSUM buffer.
Overlap ==
    state = "WAIT_DRAIN" /\ PsumBuf /\ HasNext /\ w.done /\ ~lb.filling /\ flush = 0

Drained == drain.rows = 0 /\ Ofm = <<>>
Ends == state = "WAIT_DRAIN" /\ ~Overlap /\ Drained
Advance == Ends /\ HasNext /\ w.done /\ ~lb.filling
Finish == Ends /\ ~HasNext /\ (job.linebuf => ~lb.busy)

FeedStarts == TileStart \/ Overlap

Sequencer(ready) ==
    /\ state' = CASE FeedStarts -> "COMPUTE"
                  [] FeedDone(ready) -> "WAIT_DRAIN"
                  [] Advance -> "LOAD_WEIGHTS"
                  [] Finish -> "DONE"
                  [] OTHER -> state
    /\ flush' = CASE FeedDone(ready) -> Stages
                  [] TileStart -> 0
                  [] state = "WAIT_DRAIN" /\ flush # 0 /\ PipeReady -> flush - 1
                  [] OTHER -> flush
    /\ tile' = IF Overlap \/ Advance THEN tile + 1 ELSE tile

----
(* What each engine does at the edge that ends the cycle. *)

WeightEngine(granted) ==
    w' = IF PreloadStarts
         THEN [w EXCEPT !.active = TRUE, !.req = Dim, !.rsp = Dim, !.obi = Dim, !.tile = tile + 1]
         ELSE [w EXCEPT
                 !.req = IF granted THEN @ - 1 ELSE @,
                 !.rdata = IF granted THEN <<w.tile, w.req - 1>> ELSE None,
                 !.fifo = Popped(WeightFifo, WeightPop),
                 !.obi = IF Preloading /\ Len(WeightFifo) > Len(w.fifo) THEN @ - 1 ELSE @,
                 !.rsp = IF WeightPop THEN @ - 1 ELSE @,
                 !.active = @ /\ ~(Preloading /\ LastWeight),
                 !.done = (@ \/ (Preloading /\ LastWeight)) /\ ~FeedStarts]

InputEngine(ready) ==
    LET granted == ready /\ InputRequest
        fed == Feeds(ready)
    IN  inp' = IF FeedStarts THEN [inp EXCEPT !.req = job.m, !.rsp = job.m]
               ELSE [inp EXCEPT
                       !.req = IF granted \/ (fed /\ job.linebuf) THEN @ - 1 ELSE @,
                       !.rsp = IF fed /\ ~job.linebuf THEN @ - 1 ELSE @,
                       !.rdata = IF granted THEN [tile |-> tile, row |-> job.m - inp.req, ok |-> TRUE]
                                 ELSE None,
                       !.fifo = Popped(InputFifo, fed /\ ~job.linebuf)]

\* input_preload_hold; the drain counts its rows down while the line buffer runs ahead.
Hold == flush # 0 \/ drain.rows # 0 \/ Ofm # <<>>

\* Faulty variant: lets go of the port when the drain is done, with rows still to fetch.
Prefetcher_UntilDrained == prefetchReq' = (state = "WAIT_DRAIN" /\ HasNext /\ Hold)

Prefetcher == prefetchReq' = (state = "WAIT_DRAIN" /\ HasNext /\ (lb.filling \/ Hold))

----
(* The line buffer: m rows for each tile, the first rows of the next tile fetched ahead. *)

LbStart == job.linebuf /\ TileStart /\ ~w.done /\ tile = 0
LbNext == job.linebuf /\ FeedStarts /\ ~LbStart

\* CH_STREAM_DONE, the only state that takes linebuf_next_tile.
LbWaits == lb.busy /\ lb.left = 0 /\ ~lb.filling
LbTile(t) == [tile |-> t, left |-> job.m, busy |-> TRUE, filling |-> FALSE, filled |-> FALSE]
LbFills == state = "WAIT_DRAIN" /\ prefetchReq /\ lb.filling

LbAdvances ==
    /\ LbWaits /\ lb.tile + 1 < job.tiles
    /\ IF LbNext THEN lb' = LbTile(lb.tile + 1)
       ELSE IF state = "WAIT_DRAIN" /\ prefetchReq /\ ~lb.filled
       THEN \E cached \in BOOLEAN : lb' = [lb EXCEPT !.filling = ~cached, !.filled = cached]
       ELSE lb' = lb

\* Rows that come after the tile is fed are thrown away.
LbHandsOver(ready) == Feeds(ready) \/ (state = "WAIT_DRAIN" /\ ready)

LineBuffer(ready) ==
    \/ ~lb.busy /\ lb' = IF LbStart THEN LbTile(0) ELSE lb
    \/ LbAdvances
    \/ LbWaits /\ lb.tile + 1 >= job.tiles /\ lb' = [lb EXCEPT !.busy = FALSE]
    \/ lb.filling /\ lb' = IF LbFills /\ ready
                           THEN [lb EXCEPT !.filling = FALSE, !.filled = TRUE] ELSE lb
    \/ lb.left # 0 /\ lb' = IF LbHandsOver(ready) THEN [lb EXCEPT !.left = @ - 1] ELSE lb

----
(* The lifecycle of the drain's registers, which overrides its service. *)

\* Faulty variant: takes the index before the edge for the one after it.
DrainAdvances_OldIndex(d) ==
    [d EXCEPT !.region = IF ThroughMemory(job) /\ tile + 1 < job.tiles THEN "psum" ELSE "ofm",
              !.oRow = 0, !.aRow = 0,
              !.rows = IF Overlap THEN drain.rows + job.m ELSE @,
              !.pushRow = IF Overlap THEN 0 ELSE @]

DrainAdvances(d) ==
    [d EXCEPT !.region = IF ThroughMemory(job) /\ tile + 2 < job.tiles THEN "psum" ELSE "ofm",
              !.oRow = 0, !.aRow = 0,
              !.rows = IF Overlap THEN drain.rows + job.m ELSE @,
              !.pushRow = IF Overlap THEN 0 ELSE @]

\* The response of a read granted in this cycle is not waited for.
DrainStarts(d) ==
    [d EXCEPT !.sent = FALSE, !.read = None, !.pushRow = 0,
              !.prefetch = IF AccumActive /\ (~PsumBuf \/ NeedsExternal) THEN job.m ELSE 0,
              !.rows = IF PsumBuf /\ HasNext /\ tile # 0 THEN drain.rows + job.m ELSE job.m]

Drain(granted) ==
    drain' = CASE Overlap \/ Advance -> DrainAdvances(Served(granted))
               [] TileStart -> DrainStarts(Served(granted))
               [] OTHER -> Served(granted)

----
(* The next-state relation. *)

Start(j) ==
    /\ state = "IDLE"
    /\ job' = j /\ state' = "LOAD_WEIGHTS" /\ flush' = 0 /\ tile' = 0
    /\ w' = [req |-> Dim, rsp |-> Dim, obi |-> 0, active |-> FALSE, done |-> FALSE,
             tile |-> 0, fifo |-> <<>>, rdata |-> None]
    /\ inp' = [inp EXCEPT !.fifo = <<>>]
    /\ prefetchReq' = FALSE
    /\ drain' = [rows |-> j.m, pushRow |-> 0, region |-> IF ThroughMemory(j) THEN "psum" ELSE "ofm",
                 oRow |-> 0, aRow |-> 0, prefetch |-> IF j.accum THEN j.m ELSE 0,
                 read |-> None, sent |-> FALSE]
    /\ ofm' = <<>> /\ psum' = <<>>
    \* Weights and sums an earlier job left are none of this one's.
    /\ held' = [r \in ArrayRows |-> None]
    /\ buf' = [r \in OutRows |-> {Garbled}]
    /\ mem' = [ofm |-> [r \in OutRows |-> None],
               psum |-> [r \in OutRows |-> IF j.accum /\ r < j.m THEN {<<Psum, r>>} ELSE None]]
    /\ UNCHANGED <<lb, pipe, rq>>

InputAwaited ==
    \/ InputRequest
    \/ job.linebuf /\ state = "COMPUTE" /\ PipeReady /\ lb.left # 0
    \/ LbFills

\* The weight port and the four output ports are granted, or not; the input has a row, or not.
Clock(weight, input, output) ==
    /\ state \in Running
    /\ weight => WeightRequest
    /\ input => InputAwaited
    /\ output => OutputRequest /\ (GrantAtStart \/ ~(ReadsPsum /\ TileStart))
    /\ Sequencer(input)
    /\ WeightEngine(weight)
    /\ InputEngine(input) /\ Prefetcher /\ LineBuffer(input)
    /\ MovePipe(input) /\ MoveWeights
    /\ MoveData(output) /\ Drain(output)
    /\ UNCHANGED job

Tick == \E weight, input, output \in BOOLEAN : Clock(weight, input, output)
WeightServed == \E input, output \in BOOLEAN : Clock(TRUE, input, output)
InputServed == \E weight, output \in BOOLEAN : Clock(weight, TRUE, output)
OutputServed == \E weight, input \in BOOLEAN : Clock(weight, input, TRUE)

\* done_o
Done == /\ state = "DONE" /\ state' = "IDLE"
        /\ UNCHANGED <<job, flush, tile, w, inp, prefetchReq, lb, held, pipe, drain, ofm, psum, rq,
                       buf, mem>>

Next == (\E j \in Jobs : Start(j)) \/ Tick \/ Done

Spec == Init /\ [][Next]_vars

\* The clock runs, and a port that keeps asking is served.
FairSpec ==
    /\ Spec /\ WF_vars(Tick) /\ WF_vars(Done)
    /\ SF_vars(WeightServed) /\ SF_vars(InputServed) /\ SF_vars(OutputServed)

----
(* Correctness. *)

\* The counters stay in their ranges and the FIFOs within their depth: no counter of requests,
\* responses or rows to drain goes below zero (systolic_weight_engine.sv, systolic_output_drain.sv).
TypeOK ==
    /\ job \in Jobs /\ state \in Running \cup {"IDLE", "DONE"}
    /\ flush \in 0 .. Stages /\ tile \in 0 .. (job.tiles - 1)
    /\ w.req \in 0 .. Dim /\ w.rsp \in 0 .. Dim /\ w.obi \in 0 .. Dim
    /\ w.active \in BOOLEAN /\ w.done \in BOOLEAN /\ Len(w.fifo) <= InputDepth
    /\ inp.req \in 0 .. MaxM /\ inp.rsp \in 0 .. MaxM /\ Len(inp.fifo) <= InputDepth
    /\ (lb.busy => lb.tile < job.tiles) /\ lb.left \in 0 .. MaxM
    /\ drain.rows \in 0 .. (2 * MaxM) /\ drain.prefetch \in 0 .. MaxM
    /\ drain.pushRow \in 0 .. MaxM /\ drain.oRow \in 0 .. MaxM
    /\ Len(ofm) <= OfmDepth /\ Len(psum) <= OfmDepth

\* Weights move into the array only while no vector is in it: none
\* is multiplied by a weight of another tile, and no popped weight meets a stalled array
\* (systolic_job_sequencer.sv weight_preload_allow_o, systolic_weight_engine.sv:175).
WeightsFindArrayEmpty ==
    WeightPop => PipeReady /\ \A i \in 1 .. Stages : pipe[i] = None

\* A response of the memory always finds room in its FIFO, though requests look at the room of the
\* cycle before it (the push conditions of the three FIFOs).
NoRowDropped ==
    state \in Running =>
        /\ w.rdata # None => Len(WeightFifo) > Len(w.fifo)
        /\ inp.rdata # None => Len(InputFifo) > Len(inp.fifo)
        /\ drain.read # None => Len(PsumFifo) > Len(psum)

\* The line buffer looks at linebuf_start and linebuf_next_tile in one state each; the sequencer,
\* which goes by the busy signals of the cycle before, pulses them only then.
PulseIsTaken ==
    state \in Running =>
        /\ LbStart => ~lb.busy
        /\ LbNext => LbWaits /\ lb.tile = (IF Overlap THEN tile ELSE tile - 1)

\* The job does what MatrixJob promises: each row of the output is written once with all its
\* contributions, and done follows the last.
Matrix == INSTANCE MatrixJob WITH running <- state # "IDLE", out <- mem["ofm"]
ImplementsMatrixJob == Matrix!Spec

\* A job started ends (the sequencer does not wait for what cannot come).
JobEnds == (state # "IDLE") ~> (state = "IDLE")

\* A row of the output of a job that accumulates is the row of the partial sums plus the product.
RowsAccumulated ==
    \A r \in OutRows : job.accum /\ mem["ofm"][r] # None => mem["ofm"][r] = Matrix!Product(job, r)
====
