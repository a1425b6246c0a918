---- MODULE EngineOps ----
(***************************************************************************)
(* How the runtime operations (sw/lib/npu_runtime_ops.c), the HAL and the  *)
(* convolution library (PackedConv) compute what                           *)
(* CommandMeaning asks for: they stage weights, tables and parameters in   *)
(* the command window, write the shadow registers of the engines, start    *)
(* them tile by tile and wait.  Shadow registers, the window, the banks of *)
(* the AFU and the loaded parameters outlive a command.                    *)
(*                                                                         *)
(* An operation is the sequence of what the core does (todo); the engines  *)
(* run beside it.  Addresses are cells of the TCDM; a weight tile, a table *)
(* or a block of parameters takes a slot (1 KiB) of the window.            *)
(***************************************************************************)
EXTENDS PackedConv

CONSTANTS Commands,     \* the commands a program is made of
          MaxCommands,  \* bound: commands of a program, loads of parameters not counted
          Closing,      \* bound: the commands that may be the last of MaxCommands
          SumsInTime    \* the ports grant the reads of partial sums before the second k-tile starts

ASSUME SumsAssumption == SumsInTime \in BOOLEAN

ASSUME TilesAssumption == StripeRows \in Nat \ {0} /\ StripeRows <= AccumTileM

\* What a command counts is a number; a convolution of the library is a record of numbers and tiles.
ConvCommand == [type : Convs, input : Nat, weights : Nat, im2col : Nat, ofm : Nat, psum : Nat, input_h : Nat,
                input_w : Nat, input_c : Nat, output_h : Nat, output_w : Nat, kernel_h : Nat, kernel_w : Nat,
                stride_h : Nat, stride_w : Nat, pad_h : Nat, pad_w : Nat, dilation : Nat, c_stride : Nat,
                row_stride : Nat, c_base : Nat, accumulate : BOOLEAN,
                tiles : Seq([oh : Nat, ow : Nat, th : Nat, tw : Nat])]

CommandTypes == {"gemm32", "gemm32_accum", "gemm32_requant", "pointwise_c32", "pointwise_call", "depthwise_c32",
                 "maxpool", "linebuf_job", "linebuf_submit", "linebuf_call", "systolic_wait", "barrier", "rq_load",
                 "afu_binary", "afu_binary_quant", "afu_lut", "afu_global_avgpool", "afu_dfl16", "spatz_add",
                 "upsample_nearest"} \cup Convs

ASSUME CommandsAssumption ==
    /\ Lanes \in Nat \ {0} /\ Cells \in Nat
    /\ \A c \in Commands :
          /\ c.type \in CommandTypes /\ (c.type = "linebuf_submit" => c # None)
          /\ c.type \in {"pointwise_c32", "pointwise_call"} => c.rows \in Nat /\ c.groups \in Nat
          /\ c.type = "pointwise_call" => c.output_groups \in Nat
          /\ c.type \in {"maxpool", "upsample_nearest"} => c.groups \in Nat
          /\ c.type = "afu_dfl16" => c.tiles \in Nat
          /\ c.type \in Convs => c \in ConvCommand

VARIABLES mem, window,  \* the TCDM and its command window
          regs, job, done,          \* systolic: shadow registers, running job, DONE
          areg, unit, finished,     \* AFU: shadow registers, running pass, DONE
          banks,        \* AFU: the two table banks, the active one, whether the other was written
          loaded,       \* g_quant_buffer, None unless g_quant_buffer_loaded
          pending,      \* systolic_pending, as the command it is due to
          todo, status, \* what the core has yet to do; "ok" or "failed"
          trusted,      \* built with NAI_TRUSTED_FIRMWARE
          expected, issued          \* history: what the commands so far mean, how many they are

engine == <<regs, job, done>>
afu == <<areg, unit, finished, banks>>
vars == <<mem, window, engine, afu, loaded, pending, todo, status, trusted, expected, issued>>

----
(* The systolic array.                                                     *)

Idle == [engine |-> "idle"]

WeightsAt(j, k) == IF j.w[1] = "slot" THEN window[j.w[2] + k] ELSE Tile(j.w[2] + k)

\* Where the line buffer reads a tap of a row: its base is that of the first, padded, row.
TapAddress(lb, r, k) ==
    (r \div lb.output_w) * lb.oh_step + (k \div lb.kernel_w) * lb.row_stride + lb.base
    + ((r % lb.output_w) * lb.stride_w - lb.pad_w + (k % lb.kernel_w)) * lb.pixel_stride
InPicture(lb, r, k) ==
    /\ (r \div lb.output_w) * lb.stride_h - lb.pad_h + (k \div lb.kernel_w) \in 0 .. lb.input_h - 1
    /\ (r % lb.output_w) * lb.stride_w - lb.pad_w + (k % lb.kernel_w) \in 0 .. lb.input_w - 1
Fetched(lb, r, k) == IF InPicture(lb, r, k) THEN mem[TapAddress(lb, r, k) \div Lanes] ELSE Zero

\* The row of k-tile t: the channels of the taps side by side, from lane_base on.  Only a stationary
\* schedule moves on from tile to tile, group after group.
LinebufRow(lb, r, t) ==
    LET taps  == Cardinality(Taps(lb))
        index(l) == (IF lb.stationary THEN t * Lanes ELSE 0) + l - lb.lane_base
        k(l)  == (index(l) \div lb.channels) % taps
        g(l)  == (index(l) \div (lb.channels * taps)) % lb.groups
        valid(l) == index(l) >= 0 /\ (lb.stationary \/ index(l) < taps * lb.channels) /\ InPicture(lb, r, k(l))
    IN  [l \in 0 .. Lanes - 1 |->
            IF valid(l) THEN LaneOf(mem, TapAddress(lb, r, k(l)) + g(l) * lb.span + (index(l) % lb.channels)) ELSE Zero]
\* Without one the job ends after the first.
KTiles(lb) == IF lb.stationary /\ lb.k_tiles > 1 THEN lb.k_tiles ELSE 1
SeveralTiles(lb) == lb.mode = "conv" /\ KTiles(lb) > 1

\* The columns of a tile are the same for output and partial sums: there is one register.
OutputCell(j, r, cells) == RowAt(j.o, r, j.ostride, j.cols, cells)
PsumCell(j, r) == RowAt(j.psum, r, j.pstride, j.cols, 4)
RhsCell(j, r) == RowAt(j.bin.rhs, r, j.bin.stride, j.bin.cols, 1)

SystolicResult(j) ==
    LET fresh(r) == IF j.lb.mode = "off" THEN Products(WeightsAt(j, 0), RowOf(mem[j.i + r]))
                    ELSE UNION {Products(WeightsAt(j, t), LinebufRow(j.lb, r, t)) : t \in 0 .. KTiles(j.lb) - 1}
        sum(r)   == IF j.lb.mode = "depthwise"
                    THEN {<<<<WeightsAt(j, 0), k>>, Fetched(j.lb, r, k)>> : k \in Taps(j.lb)}
                    ELSE IF j.accum THEN Plus(fresh(r), Wide(mem, PsumCell(j, r))) ELSE fresh(r)
        out(r)   == IF j.lb.mode = "pool" THEN <<"max", {Fetched(j.lb, r, k) : k \in Taps(j.lb)}>>
                    ELSE IF j.bin.on
                         THEN <<"binary", j.bin.params, Quantized(j.table, sum(r)), mem[RhsCell(j, r)]>>
                         ELSE Quantized(j.table, sum(r))
        narrow(r) == OutputCell(j, r, 1)
        wide(r)   == OutputCell(j, r, 4)
        through   == SeveralTiles(j.lb) /\ j.m > PsumRows /\ ~j.accum
    IN  (IF j.rq \/ j.lb.mode = "pool" THEN Rows(j.m, narrow, out) ELSE WideRows(j.m, wide, sum))
        @@ IF through THEN [a \in {PsumCell(j, r) + q : r \in 0 .. j.m - 1, q \in 0 .. 3} |-> Garbage]
           ELSE <<>>

\* A job that adds to partial sums reads them while its first k-tile drains: once the second has taken
\* the place of the first, the reads stop and rows wait for ever (run accum_hang of MCSystolicJob).
AddsOverTiles(j) == j.accum /\ SeveralTiles(j.lb)

\* What the registers of a job let it do; and a depthwise row leaves the array only through requantisation.
CanEnd(j) == /\ j # Idle
             /\ j.lb.mode = "depthwise" => j.rq
             /\ AddsOverTiles(j) => SumsInTime

EngineFinish ==
    /\ CanEnd(job)
    /\ mem' = SystolicResult(job) @@ mem
    /\ job' = Idle /\ done' = TRUE
    /\ UNCHANGED <<window, regs, afu, loaded, pending, todo, status, trusted, expected, issued>>

----
(* The AFU.                                                                *)

\* A bank holds a table, or entries of two.
TableOf(bank) == IF bank.first = bank.rest THEN bank.first ELSE Garbage
ActiveBank == banks.bank[banks.active]

AfuResult(u) ==
    LET at(i) == u.dst + i
        lhs(i) == IF u.mode = "lut_binary_quant" THEN Looked(TableOf(ActiveBank), mem[u.src + i]) ELSE mem[u.src + i]
        out(i) ==
            CASE u.mode = "e8" -> Looked(TableOf(ActiveBank), mem[u.src + i])
              [] u.mode = "add_i8" -> Added(mem[u.src + i], mem[u.src2 + i], u.bias)
              [] u.mode \in {"binary_quant", "lut_binary_quant"} -> Combined(u.params, lhs(i), mem[u.src2 + i])
              [] u.mode \in {"avgpool", "avgpool_requant"} ->
                    Averaged(IF u.mode = "avgpool" THEN ActiveBank.first ELSE <<u.params, u.bias>>,
                             [p \in 1 .. u.src2 |-> mem[u.src + i * u.src2 + p - 1]])
              [] u.mode = "dfl" -> <<"q8", <<TableOf(banks.bank[0]), TableOf(banks.bank[1])>>, mem[u.src + i]>>
        n == IF u.mode \in {"avgpool", "avgpool_requant"} THEN u.length \div u.src2 ELSE u.length
    IN  Rows(n, at, out)

AfuFinish ==
    /\ unit # Idle
    /\ mem' = AfuResult(unit) @@ mem
    /\ unit' = Idle /\ finished' = TRUE
    /\ UNCHANGED <<window, engine, areg, banks, loaded, pending, todo, status, trusted, expected, issued>>

----
(* Commands of the systolic array.                                         *)

GemmProgram(c) ==
    LET requant == c.type = "gemm32_requant"
        accum   == c.type = "gemm32_accum" \/ (requant /\ c.psum # None)
    IN  (IF requant THEN Check(c.block) ELSE <<>>)
        \o Stage(InSlot(0, Tile(c.weights)))
        \o CommandStrided(Slot(0), c.ifm, IF accum THEN c.psum[2] ELSE 0, c.ofm, c.m, accum, requant,
                          c.ofm_stride, IF accum THEN c.psum_stride ELSE 0)

\* Four tiles fit the window and are staged once; of more, three stay and the others take turns.
BatchedGroups == 4
CachedSlots == 3
SlotOf(c, g) == IF c.groups <= BatchedGroups THEN g ELSE IF g < CachedSlots THEN g + 1 ELSE 0

Restaged(c, s, g) == c.groups > BatchedGroups /\ (g < CachedSlots => s = 0)

PointwiseProgram(c) ==
    LET rows(s) == LET rest == c.rows - s * StripeRows IN IF rest < StripeRows THEN rest ELSE StripeRows
        psum == IF c.psum = None THEN 0 ELSE c.psum[2]
        step(s, g) ==
            (IF Restaged(c, s, g) THEN Stage(InSlot(SlotOf(c, g), Tile(c.weights + g))) ELSE <<>>)
            \o GroupProgram(Slot(SlotOf(c, g)), c.ifm + g * c.input_stride + s * StripeRows,
                            psum, c.ofm + s * StripeRows, rows(s), g, c.groups)
        stripe(s) == FlattenSeq([g \in 1 .. c.groups |-> step(s, g - 1)])
    IN  Check(c.block)
        \o (IF c.groups <= BatchedGroups
            THEN Stage([g \in 0 .. c.groups - 1 |-> Tile(c.weights + g)]) ELSE <<>>)
        \o FlattenSeq([s \in 1 .. (c.rows - 1) \div StripeRows + 1 |-> stripe(s - 1)])
        \o Set(Requant(FALSE))

\* systolic_pointwise1x1_c32_multi_requant: whole groups, weights in the TCDM
PointwiseCallProgram(c) ==
    LET psum == IF c.psum = None THEN 0 ELSE c.psum[2]
        step(og, g) == GroupProgram(Local(c.weights + og * c.groups + g), c.ifm + g * c.rows, psum,
                                    c.ofm + og * c.rows, c.rows, g, c.groups)
        group(og) == FlattenSeq([g \in 1 .. c.groups |-> step(og, g - 1)])
    IN  Set(Linebuffer(LinebufOff)) \o FlattenSeq([og \in 1 .. c.output_groups |-> group(og - 1)])

DepthwiseProgram(c) ==
    Check(c.block) \o Stage(InSlot(0, Tile(c.weights)))
    \o Set(Requant(TRUE) ++ Linebuffer(Window("depthwise", c.ifm, c, Lanes, 0)))
    \o TileEx(Preload(Slot(0), 0, 0, c.ofm, c.output_h * c.output_w, FALSE, c.output_w, c.output_w, 0))
    \o Set(Linebuffer(LinebufOff) ++ Requant(FALSE))

MaxpoolProgram(c) ==
    LET n == c.input_h * c.input_w
        group(g) == Set(Requant(FALSE) ++ Linebuffer(Window("pool", c.ifm + g * n, PoolWindow(c), Lanes, 0)))
                    \o TileEx(Preload(Local(0), 0, 0, c.ofm + g * n, n, FALSE, c.input_w, c.input_w, 0))
                    \o Set(Linebuffer(LinebufOff))
    IN  FlattenSeq([g \in 1 .. c.groups |-> group(g - 1)])

FinishLinebuf == Wait \o Set([accum |-> FALSE, lb |-> LinebufOff, bin |-> BinaryOff, rq |-> FALSE])

\* accum_en: 0 neither reads nor leaves partial sums, 1 leaves them, 2 reads them, 3 does both.
AddsPsum(c) == c.accum_en \in {2, 3}

\* Raw partial sums go where the partial sums are: the output of the job is not written.
LinebufProgram(c) ==
    LET raw == c.accum_en \in {1, 3}
        strided == raw \/ c.k_tiles > 1
        binary == IF raw \/ c.binary = None THEN BinaryOff
                  ELSE [on |-> TRUE, rhs |-> c.binary[2].rhs, stride |-> c.binary[2].stride,
                        cols |-> c.binary[2].cols, params |-> c.binary[2].params]
        addresses == {c.input, c.psum, c.ofm} \cup (IF c.binary = None THEN {} ELSE {c.binary[2].rhs})
        req == Preload(Local(c.weights), 0, c.psum, IF raw THEN c.psum ELSE c.ofm, c.rows, AddsPsum(c),
                       IF raw THEN c.psum_stride ELSE IF strided THEN c.ofm_stride ELSE 0,
                       IF strided THEN c.cols ELSE 0,
                       IF strided /\ c.accum_en # 1 THEN c.psum_stride ELSE 0)
    IN  IF pending # None \/ \E a \in addresses : a >= Cells THEN Rejected
        ELSE Set(Linebuffer(Window("conv", c.input, c, c.channels, c.k_tiles)) ++ Requant(~raw) ++ [bin |-> binary] ++ req)
             \o Start
             \o (IF c.type = "linebuf_submit" THEN <<[op |-> "submitted", command |-> c]>> ELSE FinishLinebuf)

\* Faulty variant: leaves systolic_pending set.
SystolicWaitProgram_KeepsPending == IF pending = None THEN Rejected ELSE FinishLinebuf

SystolicWaitProgram ==
    IF pending = None THEN Rejected ELSE FinishLinebuf \o <<[op |-> "submitted", command |-> None]>>
BarrierProgram == IF pending = None THEN <<>> ELSE SystolicWaitProgram

\* systolic_linebuf_config, then one of the systolic_gemm32_linebuf* family
LinebufCallProgram(c) ==
    Set(Linebuffer(Window("conv", c.input, c, c.channels, c.k_tiles)))
    \o LinebufGemm(c.weights, c.psum, c.ofm, c.rows, c.accum, c.requant, c.ofm_stride, c.cols, c.psum_stride)

RqLoadProgram(c) ==
    <<[op |-> "unload"]>> \o Stage(InSlot(0, <<"block", c.block>>))
    \o <<[op |-> "decode", block |-> c.block, sound |-> c.sound]>>

----
(* Commands of the AFU and the vector unit.                                *)

AfuBinaryProgram(c) ==
    AfuSet([src |-> c.lhs, src2 |-> c.rhs, dst |-> c.ofm, length |-> c.length, mode |-> "add_i8", bias |-> c.bias])
    \o Run

AfuBinaryQuantProgram(c) ==
    AfuSet([src |-> c.lhs, src2 |-> c.rhs, dst |-> c.ofm, length |-> c.length, params |-> c.params,
            mode |-> IF c.chain THEN "lut_binary_quant" ELSE "binary_quant"])
    \o Run

AfuLutProgram(c) ==
    LET staged == ~c.reuse /\ c.region = "constants" IN
    (IF staged THEN Stage(InSlot(0, Bins(c.lut))) ELSE <<>>)
    \o AfuSet([src |-> c.ifm, dst |-> c.ofm, length |-> c.length, mode |-> "e8"])
    \o (IF c.reuse THEN <<>> ELSE Load(IF staged THEN <<"window">> ELSE <<"cell", c.lut>>))
    \o Run

AfuGlobalAvgpoolProgram(c) ==
    (IF c.requant
     THEN AfuSet([src |-> c.ifm, src2 |-> c.spatial, dst |-> c.ofm, length |-> c.spatial * c.groups,
                  bias |-> c.offset, params |-> c.params, mode |-> "avgpool_requant"])
     ELSE Load(<<"entry", <<"reciprocal", c.spatial>>>>)
          \o AfuSet([src |-> c.ifm, src2 |-> c.spatial, dst |-> c.ofm, length |-> c.spatial * c.groups,
                     mode |-> "avgpool"]))
    \o Run

\* Tile after tile through the scratch cells: packed, the AFU's distances, converted.
AfuDfl16Program(c) ==
    LET source(side) == IF c.layout = 1 THEN c.source + (side \div 2) * (2 * c.tiles) + (side % 2)
                        ELSE c.source + side * c.tiles
        step(side, t) ==
            Vector("pack", <<source(side) + (IF c.layout = 1 THEN 2 * t ELSE t), c.scratch>>)
            \o AfuSet([src |-> c.scratch, src2 |-> 16, dst |-> c.scratch + 1, length |-> 1, mode |-> "dfl"])
            \o Run
            \o Vector("convert", <<c.scratch + 1, c.destination + side * c.tiles + t>>)
        row(side) == FlattenSeq([t \in 1 .. c.tiles |-> step(side, t - 1)])
    IN  Stage([s \in 0 .. 1 |-> Bins(c.tables + s)]) \o Load(<<"dfl">>)
        \o FlattenSeq([side \in 1 .. 4 |-> row(side - 1)])

UpsampleProgram(c) ==
    LET n == c.input_h * c.input_w
        group(g) == Vector("upsample", <<c.ifm + g * n, c.ofm + g * 4 * n, c.input_h, c.input_w>>)
    IN  FlattenSeq([g \in 1 .. c.groups |-> group(g - 1)])

\* The cells with some lanes copied into them.
Gathered(copy) ==
    [x \in {p[1] \div Lanes : p \in copy} |->
        <<"lanes", [l \in 0 .. Lanes - 1 |->
            IF \E p \in copy : p[1] = x * Lanes + l
            THEN LaneOf(mem, (CHOOSE p \in copy : p[1] = x * Lanes + l)[2]) ELSE Lane(mem[x], l)]>>]

\* What a kernel of the vector unit writes.
VectorResult(kernel, a) ==
    CASE kernel = "pack"    -> a[2] :> mem[a[1]]
      [] kernel = "convert" -> a[2] :> (IF mem[a[1]][1] = "q8" THEN Distance(mem[a[1]][2], mem[a[1]][3]) ELSE Garbage)
      [] kernel = "add"     -> LET at(i)  == a[3] + i
                                   out(i) == Combined(a[5], mem[a[1] + i], mem[a[2] + i])
                               IN  Rows(a[4], at, out)
      [] kernel = "clear"   -> [x \in a[1] .. a[1] + a[2] - 1 |-> Zero]
      [] kernel = "gather"  -> Gathered(a)
      [] kernel = "upsample" ->
            [x \in a[2] .. a[2] + 4 * a[3] * a[4] - 1 |->
                LET y == (x - a[2]) \div (2 * a[4]) IN
                mem[a[1] + (y \div 2) * a[4] + (((x - a[2]) % (2 * a[4])) \div 2)]]

Program(c) ==
    CASE c.type \in {"gemm32", "gemm32_accum", "gemm32_requant"} -> GemmProgram(c)
      [] c.type = "pointwise_c32"      -> PointwiseProgram(c)
      [] c.type = "pointwise_call"     -> PointwiseCallProgram(c)
      [] c.type = "depthwise_c32"      -> DepthwiseProgram(c)
      [] c.type = "maxpool"            -> MaxpoolProgram(c)
      [] c.type \in {"linebuf_job", "linebuf_submit"} -> LinebufProgram(c)
      [] c.type = "linebuf_call"       -> LinebufCallProgram(c)
      [] c.type = "systolic_wait"      -> SystolicWaitProgram
      [] c.type = "barrier"            -> BarrierProgram
      [] c.type = "rq_load"            -> RqLoadProgram(c)
      [] c.type = "afu_binary"         -> AfuBinaryProgram(c)
      [] c.type = "afu_binary_quant"   -> AfuBinaryQuantProgram(c)
      [] c.type = "afu_lut"            -> AfuLutProgram(c)
      [] c.type = "afu_global_avgpool" -> AfuGlobalAvgpoolProgram(c)
      [] c.type = "afu_dfl16"          -> AfuDfl16Program(c)
      [] c.type = "spatz_add"          -> Vector("add", <<c.lhs, c.rhs, c.ofm, c.length, c.params>>)
      [] c.type = "upsample_nearest"   -> UpsampleProgram(c)
      [] c.type \in Convs              -> ConvProgram(c)

----
(* The core.                                                               *)

AtOp(op) == /\ todo # <<>> /\ Head(todo).op = op
             /\ status = "ok"
Done == todo' = Tail(todo) /\ UNCHANGED status
Fail == todo' = <<>> /\ status' = "failed"
Keeps == UNCHANGED <<trusted, expected, issued>>

Overwrite(f, r) == [x \in DOMAIN f |-> IF x \in DOMAIN r THEN r[x] ELSE f[x]]

SetRegs == /\ AtOp("set") /\ Done /\ Keeps
           /\ regs' = Overwrite(regs, Head(todo).r)
           /\ UNCHANGED <<mem, window, job, done, afu, loaded, pending>>

\* START copies the shadow registers, whatever runs.
StartJob == /\ AtOp("start") /\ Done /\ Keeps
            /\ job' = regs /\ done' = FALSE
            /\ UNCHANGED <<mem, window, regs, afu, loaded, pending>>

WaitDone == /\ AtOp("wait") /\ done /\ Done /\ Keeps
            /\ done' = FALSE
            /\ UNCHANGED <<mem, window, regs, job, afu, loaded, pending>>

\* A blocking transfer into the window, which may time out.
StageWindow == /\ AtOp("stage") /\ Keeps
               /\ \/ /\ Done
                     /\ window' = Overwrite(window, Head(todo).content)
                  \/ Fail /\ UNCHANGED window
               /\ UNCHANGED <<mem, engine, afu, loaded, pending>>

CheckBlock == /\ AtOp("check") /\ Keeps
              /\ IF ~trusted /\ loaded # Head(todo).block THEN Fail ELSE Done
              /\ UNCHANGED <<mem, window, engine, afu, loaded, pending>>

Reject == AtOp("reject") /\ Fail /\ Keeps /\ UNCHANGED <<mem, window, engine, afu, loaded, pending>>

Submitted == /\ AtOp("submitted") /\ Done /\ Keeps
             /\ pending' = Head(todo).command
             /\ UNCHANGED <<mem, window, engine, afu, loaded>>

UnloadBlock == /\ AtOp("unload") /\ Done /\ Keeps
               /\ loaded' = None /\ regs' = [regs EXCEPT !.rq = FALSE]
               /\ UNCHANGED <<mem, window, job, done, afu, pending>>

\* The trusted build takes the parameters as they are.
DecodeBlock ==
    /\ AtOp("decode") /\ Keeps
    /\ IF trusted \/ Head(todo).sound
       THEN /\ Done
            /\ loaded' = Head(todo).block
            /\ regs' = [regs EXCEPT !.table = IF window[0][1] = "block" THEN window[0][2] ELSE Garbage, !.rq = TRUE]
       ELSE Fail /\ UNCHANGED <<loaded, regs>>
    /\ UNCHANGED <<mem, window, job, done, afu, pending>>

SetAfu == /\ AtOp("afu_set") /\ Done /\ Keeps
          /\ areg' = Overwrite(areg, Head(todo).r)
          /\ UNCHANGED <<mem, window, engine, unit, finished, banks, loaded, pending>>

\* A table goes into the bank that is not active; those of DFL have a bank each.
LoadTable ==
    /\ AtOp("lut") /\ Done /\ Keeps
    /\ LET what  == Head(todo).what
           table == IF what[1] = "window" THEN window[0] ELSE mem[what[2]]
           staged == 1 - banks.active
       IN  banks' = [banks EXCEPT !.written = TRUE,
                        !.bank = CASE what[1] = "entry" -> [@ EXCEPT ![staged].first = what[2]]
                                   [] what[1] = "dfl"   -> [b \in 0 .. 1 |-> [first |-> window[b], rest |-> window[b]]]
                                   [] OTHER -> [@ EXCEPT ![staged] = [first |-> table, rest |-> table]]]
    /\ UNCHANGED <<mem, window, engine, areg, unit, finished, loaded, pending>>

\* START of a pass, which a busy AFU ignores, takes the registers and, but for DFL, makes a bank that was written the active one.
StartAfu ==
    /\ AtOp("go") /\ Done /\ Keeps
    /\ LET taken == unit = Idle
           switch == taken /\ banks.written /\ areg.mode # "dfl"
       IN  /\ unit' = IF taken THEN areg ELSE unit
           /\ finished' = (finished /\ ~taken)
           /\ banks' = IF switch THEN [banks EXCEPT !.active = 1 - @, !.written = FALSE] ELSE banks
    /\ UNCHANGED <<mem, window, engine, areg, loaded, pending>>

PollAfu == /\ AtOp("poll") /\ Keeps
           /\ IF finished THEN Done ELSE Fail
           /\ UNCHANGED <<mem, window, engine, afu, loaded, pending>>

RunVector == /\ AtOp("vector") /\ Done /\ Keeps
             /\ mem' = VectorResult(Head(todo).kernel, Head(todo).args) @@ mem
             /\ UNCHANGED <<window, engine, afu, loaded, pending>>

\* Transfers of a direction end in order.  One that is refused or late leaves the work to the vector unit.
FetchPixels ==
    /\ AtOp("fetch") /\ Keeps /\ UNCHANGED status
    /\ LET copies == Head(todo).copies IN
       \E n \in 0 .. Len(copies) :
            /\ mem' = Gathered(UNION {copies[i] : i \in 1 .. n}) @@ mem
            /\ \/ n = Len(copies) /\ todo' = Tail(todo)
               \/ todo' = Head(todo).fallback \o Tail(todo)
    /\ UNCHANGED <<window, engine, afu, loaded, pending>>

Core == \/ SetRegs \/ StartJob \/ WaitDone \/ StageWindow \/ CheckBlock \/ Reject \/ Submitted
        \/ UnloadBlock \/ DecodeBlock \/ SetAfu \/ LoadTable \/ StartAfu \/ PollAfu \/ RunVector \/ FetchPixels

----
(* The program: what the compiler promises of it.                          *)

Written(c) == DOMAIN Writes(c, expected)
Independent(c, p) == /\ Written(c) \cap (Reads(p) \cup Written(p)) = {}
                     /\ Reads(c) \cap Written(p) = {}

Systolic == {"gemm32", "gemm32_accum", "gemm32_requant", "pointwise_c32", "pointwise_call",
             "depthwise_c32", "maxpool", "linebuf_job", "linebuf_call", "rq_load"} \cup Convs

\* A convolution that adds to partial sums over several k-tiles in the line buffer.
AccumulatesTiles(c) ==
    \/ c.type \in {"linebuf_job", "linebuf_submit"} /\ c.accum_en \in {2, 3} /\ c.k_tiles > 1
    \/ c.type = "linebuf_call" /\ c.accum /\ c.k_tiles > 1
    \/ /\ c.type \in {"conv_oc32", "conv_linebuf", "conv_tiles", "conv_tile_accum_requant"}
       /\ c.accumulate /\ KgenShapeSupported(c)

Scheduled(c) ==
    /\ AccumulatesTiles(c) => SumsInTime
    /\ \A a \in Reads(c) \cap (0 .. Cells - 1) : expected.mem[a] # Scratch
    /\ pending # None => \/ c.type \in {"systolic_wait", "barrier", "linebuf_submit"}
                         \/ c.type \notin Systolic /\ Independent(c, pending)
    /\ c.type = "afu_lut" => (c.reuse => expected.lut # None)
    /\ c.type = "afu_binary_quant" => (c.chain => expected.lut # None)
    /\ c.type = "rq_load" => c.block # expected.block
    /\ trusted => /\ c.type = "rq_load" => c.sound
                  /\ "block" \in DOMAIN c /\ c.type # "rq_load" => c.block = expected.block

\* Between two commands the interpreter may have refilled the window.
Issue ==
    /\ status = "ok" /\ todo = <<>> /\ issued < MaxCommands
    /\ \E c \in Commands :
        /\ issued = MaxCommands - 1 => c \in Closing
        /\ Scheduled(c)
        /\ issued' = IF c.type = "rq_load" THEN issued ELSE issued + 1
        /\ todo' = Program(c)
        /\ expected' = IF Program(c) = Rejected THEN expected ELSE Meaning(c, expected)
    /\ \/ UNCHANGED window
       \/ window' = [s \in 0 .. 3 |-> Garbage]
    /\ UNCHANGED <<mem, engine, afu, loaded, pending, status, trusted>>

Init ==
    /\ mem = [a \in 0 .. Cells - 1 |-> InputRow(a)]
    /\ window = [s \in 0 .. 3 |-> Garbage]
    /\ regs = Preload(Local(0), 0, 0, 0, 0, FALSE, 0, 0, 0)
              ++ [rq |-> FALSE, table |-> None, lb |-> LinebufOff, bin |-> BinaryOff]
    /\ job = Idle /\ done = FALSE
    /\ areg = [src |-> 0, src2 |-> 0, dst |-> 0, length |-> 0, mode |-> "e8", bias |-> 0, params |-> None]
    /\ unit = Idle /\ finished = FALSE
    /\ banks = [bank |-> [b \in 0 .. 1 |-> [first |-> Garbage, rest |-> Garbage]], active |-> 0, written |-> FALSE]
    /\ loaded = None /\ pending = None
    /\ todo = <<>> /\ status = "ok" /\ trusted \in BOOLEAN
    /\ expected = [mem |-> mem, block |-> None, lut |-> None] /\ issued = 0

Next == Issue \/ Core \/ EngineFinish \/ AfuFinish
Spec == Init /\ [][Next]_vars

----
(* Properties.                                                             *)

\* When no operation is under way and no job is due, memory holds what the commands so far mean, cell
\* by cell: no command inherits a register, a table, a staged tile or a parameter of an earlier one.
CommandsCompute ==
    status = "ok" /\ todo = <<>> /\ pending = None =>
        \A a \in 0 .. Cells - 1 : expected.mem[a] # Scratch => mem[a] = expected.mem[a]

\* The registers of the next tile are written while a tile runs, but START finds the array idle.
StartFindsIdle == [][job' # job /\ job' # Idle => job = Idle]_vars

\* The core polls DONE without a limit: it does so only when DONE is up, or a job runs that ends.  A job
\* that adds over several k-tiles ends only if its sums are read in time, and is run only where they are.
PollsEnd == todo # <<>> /\ Head(todo).op = "wait" => done \/ CanEnd(job)

\* "Byte stride between external PSum rows" (docs/systolic_array_spec.md:574): row r of the partial
\* sums of a GEMM is r strides behind the first.
PsumRowsApart == job # Idle /\ job.accum /\ job.lb.mode = "off" /\ job.pstride # 0 =>
                    \A r \in 0 .. job.m - 1 : PsumCell(job, r) = job.psum + r * job.pstride

====
