---- MODULE CommandChecks ----
(***************************************************************************)
(* One command after the load: run_dma_1d ... run_copy of                  *)
(* sw/lib/npu_cmd_desc_v2.c, which check a record, resolve its references  *)
(* with the bytes and the alignment the operation needs and call it, and   *)
(* the bytes that operation then reads and writes                          *)
(* (sw/lib/npu_runtime_ops.c, hal_systolic.c, npu_layout_ops.c).           *)
(* No command changes what the next one's checks look at, so one command   *)
(* per load shows every one of them.                                       *)
(*                                                                         *)
(* All of them have one shape: tests of the record, some in both builds    *)
(* and some not in the trusted one, then the references in turn, then      *)
(* tests that the resolved ranges do not overlap.  A plan has the parts in *)
(* which they differ.                                                      *)
(***************************************************************************)
EXTENDS ModelLoader

CONSTANT Commands       \* the records a command section may hold

\* The fields of a record that are references.
References(type) ==
    CASE type \in {"dma", "copy_layout"} -> {"source", "destination"}
      [] type \in {"gemm32", "gemm32_accum", "gemm32_requant", "pointwise_c32"} ->
            {"weights", "ifm", "ofm", "psum"}
      [] type = "depthwise_c32" -> {"weights", "ifm", "ofm"}
      [] type \in {"afu_binary", "spatz_add", "afu_binary_quant"} -> {"lhs", "rhs", "ofm"}
      [] type = "afu_lut" -> {"ifm", "ofm", "lut"}
      [] type = "afu_dfl16" -> {"source", "destination", "scratch", "exp_lut"}
      [] type \in {"afu_global_avgpool", "upsample_nearest", "maxpool"} -> {"ifm", "ofm"}
      [] OTHER -> {}

CommandTypes ==
    {"dma", "dma_wait", "rq_load", "gemm32", "gemm32_accum", "gemm32_requant", "pointwise_c32",
     "depthwise_c32", "afu_binary", "spatz_add", "afu_binary_quant", "afu_lut", "afu_dfl16",
     "afu_global_avgpool", "upsample_nearest", "maxpool", "linebuf_job", "linebuf_binary",
     "systolic_wait", "copy_layout"}

\* The fields of a record that are counts, sizes and strides.
Numbers(type) ==
    CASE type \in {"dma", "afu_binary", "spatz_add", "afu_binary_quant", "afu_lut"} -> {"length"}
      [] type = "rq_load" -> {"qparam_index"}
      [] type \in {"gemm32", "gemm32_accum", "gemm32_requant"} -> {"dim_m", "ofm_stride", "psum_stride"}
      [] type = "pointwise_c32" -> {"rows", "groups", "input_stride"}
      [] type = "depthwise_c32" -> {"input_h", "input_w", "output_h", "output_w"}
      [] type = "afu_dfl16" -> {"locations"}
      [] type \in {"afu_global_avgpool", "upsample_nearest", "maxpool"} -> {"input_h", "input_w", "channels"}
      [] type = "copy_layout" -> {"valid_channels"}
      [] OTHER -> {}

ASSUME CommandAssumption ==
    \A c \in Commands :
        /\ c.type \in CommandTypes
        /\ \A field \in References(c.type) : c[field].offset \in Word
        /\ \A field \in Numbers(c.type) : c[field] \in Word
        /\ c.type = "copy_layout" => c.dims \in [1 .. 4 -> Word]
        /\ c.type = "dma" =>
              /\ c.repetitions \in Seq(Word) /\ Len(c.repetitions) \in 0 .. 2
              /\ {c.source_strides, c.destination_strides} \subseteq [1 .. Len(c.repetitions) -> Word]

\* Models lie in L2, none in the scratch memory: only scratch and runtime references are local to
\* a DMA (dma_region_is_local).  The host's part; the firmware does not look.
ASSUME ModelsOutsideScratch ==
    \A i \in Invocations :
        i.model_base + i.model_bytes <= TcdmBase \/ TcdmBase + TcdmLimit <= i.model_base

VARIABLE outcome        \* what came of the command

cvars == <<vars, outcome>>

None == [status |-> "none"]

CInit == Init /\ outcome = None

Need(ref, bytes, alignment) == [ref |-> ref, bytes |-> bytes, alignment |-> alignment]

\* always: tested in both builds; guard: under NAI_TRUSTED_INVALID; apart: pairs of references.
Plan(always, guard, needs, apart) ==
    [always |-> always, guard |-> guard, needs |-> needs, apart |-> apart]

Pred(n) == (n - 1) % Words
RoundUp32(n) == ((n + 31) \div 32) * 32
Scratch(refs) == \A ref \in refs : ref.region = "scratch"

\* dma_region_is_local, validate_dma_direction
LocalRegions == {"scratch", "runtime"}
DirectionOk(source, destination, direction) ==
    /\ source.region # "none" /\ destination.region # "none"
    /\ source.region \in LocalRegions \/ destination.region \in LocalRegions
    /\ direction = IF source.region \in LocalRegions
                   THEN IF destination.region \in LocalRegions THEN "local" ELSE "out"
                   ELSE "in"

\* The bytes from the first byte of the first row to the last of the last: strided rows in one or
\* two dimensions.
Reach(length, strides, counts) ==
    length + strides[1] * Pred(counts[1]) + IF Len(counts) = 2 THEN strides[2] * Pred(counts[2]) ELSE 0

----
(* DMA: dma_1d, dma_2d and dma_3d, blocking or submitted, by the number of *)
(* strides.                                                                *)

DmaPlan(c) ==
    LET n == Len(c.repetitions)
        source == IF n = 0 THEN c.length ELSE Reach(c.length, c.source_strides, c.repetitions)
        target == IF n = 0 THEN c.length ELSE Reach(c.length, c.destination_strides, c.repetitions)
    IN  Plan(TRUE,
             /\ c.length # 0 /\ c.zero /\ \A i \in 1 .. n : c.repetitions[i] # 0
             /\ source < Words /\ target < Words
             /\ DirectionOk(c.source, c.destination, c.direction),
             [source |-> Need(c.source, source, 1), destination |-> Need(c.destination, target, 1)],
             {})

DmaWaitPlan(c) == Plan(TRUE, c.direction \in {"in", "out"} /\ c.zero, <<>>, {})

----
(* Matrix commands.                                                        *)

OrDefault(stride, row) == IF stride # 0 THEN stride ELSE row

GemmPlan(c) ==
    LET requant == c.type = "gemm32_requant"
        direct  == requant /\ c.psum.region = "none"
        partial == c.type = "gemm32_accum" \/ (requant /\ ~direct)
        row     == IF requant THEN 32 ELSE 128
        ostride == OrDefault(c.ofm_stride, row)
        pstride == OrDefault(c.psum_stride, 128)
        ofm     == Reach(row, <<ostride>>, <<c.dim_m>>)
        psum    == Reach(128, <<pstride>>, <<c.dim_m>>)
        inputs3 == [weights |-> Need(c.weights, 1024, 32), ifm |-> Need(c.ifm, c.dim_m * 32, 32),
                    ofm |-> Need(c.ofm, ofm, 32)]
    IN  Plan(Fits(<<c.dim_m, 32>>) /\ ofm < Words /\ psum < Words,
             /\ c.dim_m \in 1 .. 256 /\ c.zero
             /\ ostride >= row /\ ostride % 32 = 0 /\ pstride >= 128 /\ pstride % 32 = 0
             /\ direct => c.psum.index = 0 /\ c.psum.offset = 0,
             IF partial
             THEN [n \in DOMAIN inputs3 \cup {"psum"} |->
                      IF n = "psum" THEN Need(c.psum, psum, 32) ELSE inputs3[n]]
             ELSE inputs3,
             {})

PointwisePlan(c) ==
    LET rows == c.rows * 32
        ifm  == Reach(rows, <<c.input_stride>>, <<c.groups>>)
        psum == (IF c.rows < 256 THEN c.rows ELSE 256) * 128
        inputs3 == [weights |-> Need(c.weights, c.groups * 1024, 32), ifm |-> Need(c.ifm, ifm, 32),
                    ofm |-> Need(c.ofm, rows, 32)]
    IN  Plan(Fits(<<c.groups, 1024>>) /\ rows < Words /\ ifm < Words /\ psum < Words,
             /\ c.rows # 0 /\ c.groups # 0 /\ c.output_groups = 1 /\ c.zero
             /\ Scratch({c.ifm, c.ofm})
             /\ c.input_stride % 32 = 0 /\ c.output_stride % 32 = 0
             /\ c.input_stride >= rows /\ c.output_stride >= rows
             /\ IF c.groups = 1 THEN c.psum.region = "none" /\ c.psum.index = 0 /\ c.psum.offset = 0
                ELSE c.psum.region = "scratch",
             IF c.groups > 1
             THEN [n \in DOMAIN inputs3 \cup {"psum"} |->
                      IF n = "psum" THEN Need(c.psum, psum, 32) ELSE inputs3[n]]
             ELSE inputs3,
             {})

\* The output of a 3x3 window along one axis: with padding that keeps the size, or with none.
SameShape(in, out, stride, pad) ==
    LET expected == (in + stride - 1) \div stride IN
    out = expected /\ pad = (((expected - 1) * stride + 3 - in) % Words) \div 2
ValidShape(in, out, stride, pad) ==
    out = (IF in >= 3 THEN (in - 3) \div stride + 1 ELSE 0) /\ pad = 0

DepthwisePlan(c) ==
    Plan(Fits(<<c.input_h, c.input_w, 32>>) /\ Fits(<<c.output_h, c.output_w, 32>>),
         /\ {c.input_h, c.input_w, c.output_h, c.output_w} \subseteq 1 .. 65535
         /\ c.channels \in 1 .. 32 /\ c.zero /\ Scratch({c.ifm, c.ofm})
         /\ {c.stride_h, c.stride_w} \subseteq {1, 2} /\ {c.pad_h, c.pad_w} \subseteq {0, 1}
         /\ \/ /\ SameShape(c.input_h, c.output_h, c.stride_h, c.pad_h)
               /\ SameShape(c.input_w, c.output_w, c.stride_w, c.pad_w)
            \/ /\ ValidShape(c.input_h, c.output_h, c.stride_h, c.pad_h)
               /\ ValidShape(c.input_w, c.output_w, c.stride_w, c.pad_w),
         [weights |-> Need(c.weights, 288, 32), ifm |-> Need(c.ifm, c.input_h * c.input_w * 32, 32),
          ofm |-> Need(c.ofm, c.output_h * c.output_w * 32, 32)],
         {})

----
(* Elementwise commands: afu_binary, spatz_add, afu_binary_quant, afu_lut. *)
(* c.valid: the tests of modes, scales, shifts, zero points and clamps.    *)

BinaryPlan(c) ==
    Plan(TRUE,
         c.length # 0 /\ c.valid /\ Scratch({c.lhs, c.rhs, c.ofm}),
         [lhs |-> Need(c.lhs, c.length, 32), rhs |-> Need(c.rhs, c.length, 32),
          ofm |-> Need(c.ofm, c.length, 32)],
         {<<"lhs", "ofm">>, <<"rhs", "ofm">>})

LutPlan(c) ==
    Plan(TRUE,
         /\ c.length # 0 /\ c.zero /\ Scratch({c.ifm, c.ofm})
         /\ c.lut.region \in {"constants", "scratch"},
         [ifm |-> Need(c.ifm, c.length, 32), ofm |-> Need(c.ofm, c.length, 32),
          lut |-> Need(c.lut, 256, 1)],
         {<<"ifm", "ofm">>})

\* Both tables are resolved with one reference.
DflPlan(c) ==
    LET source == (IF c.source_layout = 1 THEN 64 ELSE 144) * c.locations IN
    Plan(source < Words,
         /\ c.locations \in 1 .. 2100 /\ c.source_layout \in {0, 1} /\ c.valid
         /\ Scratch({c.source, c.destination, c.scratch})
         /\ c.exp_lut.region = "constants" /\ c.recip_lut.region = "constants"
         /\ c.exp_lut.index = c.recip_lut.index
         /\ c.exp_lut.offset + 1024 < Words /\ c.recip_lut.offset = c.exp_lut.offset + 1024,
         [source |-> Need(c.source, source, 32), destination |-> Need(c.destination, 4 * c.locations, 32),
          scratch |-> Need(c.scratch, 32 * 34, 32), exp_lut |-> Need(c.exp_lut, 2048, 4)],
         {<<"source", "destination">>, <<"source", "scratch">>, <<"destination", "scratch">>})

----
(* Pooling, upsampling and layout copies.                                  *)

AvgpoolPlan(c) ==
    LET groups == RoundUp32(c.channels) \div 32 IN
    Plan(/\ Fits(<<c.input_h, c.input_w>>) /\ c.channels + 31 < Words
         /\ Fits(<<c.input_h, c.input_w, groups, 32>>) /\ Fits(<<groups, 32>>),
         /\ c.input_h # 0 /\ c.input_w # 0 /\ c.channels # 0 /\ c.valid /\ Scratch({c.ifm, c.ofm}),
         [ifm |-> Need(c.ifm, c.input_h * c.input_w * groups * 32, 32),
          ofm |-> Need(c.ofm, groups * 32, 32)],
         {<<"ifm", "ofm">>})

UpsamplePlan(c) ==
    Plan(Fits(<<c.input_h, c.input_w, c.channels, 4>>),
         /\ c.input_h # 0 /\ c.input_w # 0 /\ c.channels \in {32, 128, 256}
         /\ c.scale_h = 2 /\ c.scale_w = 2 /\ c.zero /\ Scratch({c.ifm, c.ofm}),
         [ifm |-> Need(c.ifm, c.input_h * c.input_w * c.channels, 32),
          ofm |-> Need(c.ofm, c.input_h * c.input_w * c.channels * 4, 32)],
         {<<"ifm", "ofm">>})

\* c.valid: kernel 5x5, stride 1, padding 2, reserved words zero.
MaxpoolPlan(c) ==
    LET bytes == c.input_h * c.input_w * c.channels IN
    Plan(Fits(<<c.input_h, c.input_w, c.channels>>),
         /\ c.input_h # 0 /\ c.input_w # 0 /\ c.channels \in {32, 128} /\ c.valid
         /\ Scratch({c.ifm, c.ofm}),
         [ifm |-> Need(c.ifm, bytes, 32), ofm |-> Need(c.ofm, bytes, 32)],
         {<<"ifm", "ofm">>})

CopyElementBytes(c) == CASE c.data_type = "i8" -> 1 [] c.data_type = "i32" -> 4 [] OTHER -> 0
Pixels(c) == c.dims[1] * c.dims[2] * c.dims[3]

\* Faulty variant: the padding of the last channel group is forgotten.
NativeBytes_Unpadded(c) == Pixels(c) * c.valid_channels * CopyElementBytes(c)

NativeBytes(c) == Pixels(c) * RoundUp32(c.valid_channels) * CopyElementBytes(c)

CopyPlan(c) ==
    LET compact == Pixels(c) * c.dims[4] * CopyElementBytes(c)
        native  == NativeBytes(c)
        chw     == c.mode = "c32_to_chw"
        toNative == c.mode \in {"nhwc_to_row32", "nhwc_to_c32"}
    IN  Plan(/\ Fits(c.dims \o <<CopyElementBytes(c)>>) /\ native < Words
             /\ c.mode \in {"c32_to_chw", "nhwc_to_row32", "nhwc_to_c32", "row32_to_nhwc", "c32_to_nhwc"}
             /\ chw => /\ Fits(<<Pixels(c), 32>>) /\ c.source_stride = Pixels(c) * 32
                       /\ c.destination_stride = Pixels(c),
             /\ CopyElementBytes(c) # 0 /\ c.valid_channels # 0 /\ c.valid_channels < Words - 31
             /\ c.zero /\ \A i \in 1 .. 4 : c.dims[i] # 0
             /\ c.valid_channels = c.dims[4]
             /\ chw => /\ c.data_type = "i8" /\ c.dims[1] = 1 /\ c.dims[2] = c.dims[3]
                       /\ c.dims[2] \in {10, 20, 40} /\ c.dims[4] <= 144
                       /\ c.layouts = <<"c32", "nhwc">> /\ Scratch({c.source, c.destination}),
             [source |-> Need(c.source, IF toNative THEN compact ELSE native, 1),
              destination |-> Need(c.destination, IF toNative THEN native ELSE compact, 1)],
             IF chw THEN {<<"source", "destination">>} ELSE {})

----
(* Commands without references of their own.                               *)

\* The address of 32 quantisation records, from the section itself.
RqLoadPlan(c) ==
    LET s == Section(package, "qparams") IN
    Plan(TRUE,
         /\ c.qparam_count = 32 /\ c.zero
         /\ ValidRange(c.qparam_index, c.qparam_count, s.element_count)
         /\ Fits(<<c.qparam_index, 32>>) /\ ValidRange(c.qparam_index * 32, c.qparam_count * 32, s.size),
         [qparams |-> Need([region |-> "qparams", index |-> 0, offset |-> c.qparam_index * 32], 1024, 32)],
         {})

\* The order in which the line buffer generates k-tiles that the job must declare.
KgenSchedule(j) ==
    IF ~(j.coalesce = 1 /\ j.kgen = 1 /\ j.k_tiles > 1) THEN "none"
    ELSE IF j.c32_fast = 1 /\ j.lane_base = 0 /\ j.block_valid_bytes = 32
            /\ j.input_c >= 32 /\ j.input_c % 32 = 0 THEN "c32_group_stationary"
    ELSE IF j.c32_fast = 0 /\ j.input_c = 32 /\ j.pixel_stride = 32 THEN "generic_linear_k32"
    ELSE "none"

\* Addresses of a job are physical and are not looked at.  c.sane: fields that only may not be
\* zero or must be a flag, a multiple of 32 or a scale in range.
LinebufPlan(c) ==
    LET j == c.job IN
    Plan(TRUE,
         /\ j.rows \in 1 .. (IF j.accum_en = 0 THEN 1024 ELSE 256) /\ c.sane
         /\ j.k_tiles \in 1 .. 65535 /\ j.input_c # 0
         /\ {j.kernel_h, j.kernel_w} \subseteq 1 .. 5 /\ {j.stride_h, j.stride_w} \subseteq {1, 2}
         /\ j.pad_h < j.kernel_h /\ j.pad_w < j.kernel_w
         /\ Fits(<<j.input_c, j.kernel_h, j.kernel_w>>)
         /\ j.k_tiles = RoundUp32(j.input_c * j.kernel_h * j.kernel_w) \div 32
         /\ j.dim_m = j.rows /\ j.linebuf_k_tiles = j.k_tiles /\ j.spatial_m = j.rows
         /\ j.block_valid_bytes \in 1 .. 32 /\ j.accum_en \in 0 .. 3
         /\ j.accum_en # 0 => j.psum_stride # 0
         /\ j.schedule = KgenSchedule(j)
         /\ c.type = "linebuf_binary" => j.accum_en \in {0, 2},
         <<>>, {})

\* systolic_wait looks at its reserved words in both builds.
SystolicWaitPlan(c) == Plan(c.zero, TRUE, <<>>, {})

----
(* The common shape.                                                       *)

PlanOf(c) ==
    CASE c.type = "dma" -> DmaPlan(c)
      [] c.type = "dma_wait" -> DmaWaitPlan(c)
      [] c.type = "rq_load" -> RqLoadPlan(c)
      [] c.type \in {"gemm32", "gemm32_accum", "gemm32_requant"} -> GemmPlan(c)
      [] c.type = "pointwise_c32" -> PointwisePlan(c)
      [] c.type = "depthwise_c32" -> DepthwisePlan(c)
      [] c.type \in {"afu_binary", "spatz_add", "afu_binary_quant"} -> BinaryPlan(c)
      [] c.type = "afu_lut" -> LutPlan(c)
      [] c.type = "afu_dfl16" -> DflPlan(c)
      [] c.type = "afu_global_avgpool" -> AvgpoolPlan(c)
      [] c.type = "upsample_nearest" -> UpsamplePlan(c)
      [] c.type = "maxpool" -> MaxpoolPlan(c)
      [] c.type \in {"linebuf_job", "linebuf_binary"} -> LinebufPlan(c)
      [] c.type = "systolic_wait" -> SystolicWaitPlan(c)
      [] c.type = "copy_layout" -> CopyPlan(c)

\* Faulty variant: both ranges are taken to be as long as the one that is nearer to zero.
RangesOverlap_OneSize(lhs, lhs_bytes, rhs, rhs_bytes) ==
    IF lhs < rhs THEN lhs_bytes > rhs - lhs ELSE lhs_bytes > lhs - rhs

\* ranges_overlap_sized; ranges_overlap and the test of run_copy where the sizes are one
RangesOverlap(lhs, lhs_bytes, rhs, rhs_bytes) ==
    IF lhs < rhs THEN lhs_bytes > rhs - lhs ELSE rhs_bytes > lhs - rhs

\* A lookup may be done in place.
MayCoincide(c, lhs, rhs) == c.type = "afu_lut" /\ lhs = rhs

Result(status, at) == [status |-> status, at |-> at]

\* The addresses of a plan's references, by name.
Addresses(c, checked) ==
    [n \in DOMAIN PlanOf(c).needs |->
        LET need == PlanOf(c).needs[n] IN
        IF checked THEN ResolveChecked(need.ref, need.bytes, need.alignment) ELSE ResolveTrusted(need.ref)]

Judgement(c, p, at, checked) ==
    IF ~p.always \/ (checked /\ ~p.guard) THEN Result("bad_command", <<>>)
    ELSE IF \E n \in DOMAIN at : at[n] = NoAddress THEN Result("bad_reference", <<>>)
    ELSE IF checked /\ \E pair \in p.apart :
                /\ ~MayCoincide(c, at[pair[1]], at[pair[2]])
                /\ RangesOverlap(at[pair[1]], p.needs[pair[1]].bytes, at[pair[2]], p.needs[pair[2]].bytes)
         THEN Result("bad_command", <<>>)
    ELSE Result("called", at)

Verdict(c, checked) == Judgement(c, PlanOf(c), Addresses(c, checked), checked)

Execute ==
    /\ stage = "ready" /\ outcome = None
    /\ \E c \in Commands :
          LET v == Verdict(c, ~trusted) IN
          outcome' = [status |-> v.status, at |-> v.at, command |-> c]
    /\ UNCHANGED vars

Load == Next /\ UNCHANGED outcome

CNext == Load \/ Execute

CSpec == CInit /\ [][CNext]_cvars

----
(* What the operations touch, relative to the addresses they are given.    *)

Touch(name, offset, bytes) == [name |-> name, offset |-> offset, bytes |-> bytes]
Whole(name, bytes) == {Touch(name, 0, bytes)}
Rows(name, count, stride, bytes) == {Touch(name, r * stride, bytes) : r \in 0 .. count - 1}
Footprint(reads, writes) == [reads |-> reads, writes |-> writes]

\* idma_L2ToL1, _2d, _3d
DmaTouches(c) ==
    LET rows(name, strides) ==
            CASE Len(c.repetitions) = 0 -> Whole(name, c.length)
              [] Len(c.repetitions) = 1 -> Rows(name, c.repetitions[1], strides[1], c.length)
              [] OTHER -> {Touch(name, i * strides[1] + j * strides[2], c.length) :
                              i \in 0 .. c.repetitions[1] - 1, j \in 0 .. c.repetitions[2] - 1}
    IN  Footprint(rows("source", c.source_strides), rows("destination", c.destination_strides))

\* runtime_gemm32 and systolic_gemm32_command_strided
GemmTouches(c) ==
    LET row == IF c.type = "gemm32_requant" THEN 32 ELSE 128
        partial == c.type = "gemm32_accum" \/ (c.type = "gemm32_requant" /\ c.psum.region # "none")
    IN  Footprint(Whole("weights", 1024) \cup Rows("ifm", c.dim_m, 32, 32)
                    \cup (IF partial THEN Rows("psum", c.dim_m, OrDefault(c.psum_stride, 128), 128) ELSE {}),
                  Rows("ofm", c.dim_m, OrDefault(c.ofm_stride, row), row))

\* runtime_pointwise_c32: stripes of 256 rows share one block of partial sums.
PointwiseTouches(c) ==
    LET psum == IF c.groups = 1 THEN {} ELSE {Touch("psum", (r % 256) * 128, 128) : r \in 0 .. c.rows - 1}
    IN  Footprint({Touch("weights", g * 1024, 1024) : g \in 0 .. c.groups - 1}
                    \cup {Touch("ifm", g * c.input_stride + r * 32, 32) :
                             g \in 0 .. c.groups - 1, r \in 0 .. c.rows - 1} \cup psum,
                  Rows("ofm", c.rows, 32, 32) \cup psum)

\* systolic_depthwise3x3_c32_requant_channels: taps outside the picture are not read.
DepthwiseTouches(c) ==
    LET taps == {<<oh * c.stride_h + kh - c.pad_h, ow * c.stride_w + kw - c.pad_w>> :
                    oh \in 0 .. c.output_h - 1, ow \in 0 .. c.output_w - 1, kh \in 0 .. 2, kw \in 0 .. 2}
        inside == {t \in taps : t[1] \in 0 .. c.input_h - 1 /\ t[2] \in 0 .. c.input_w - 1}
    IN  Footprint(Whole("weights", 288) \cup {Touch("ifm", (t[1] * c.input_w + t[2]) * 32, 32) : t \in inside},
                  Rows("ofm", c.output_h * c.output_w, 32, 32))

BinaryTouches(c) == Footprint(Whole("lhs", c.length) \cup Whole("rhs", c.length), Whole("ofm", c.length))

\* runtime_afu_lut: the table is loaded before the pass begins.
LutTouches(c) == Footprint(Whole("ifm", c.length), Whole("ofm", c.length))

\* runtime_afu_dfl16: four sides, tiles of at most 32 locations, 16 bins each, gathered in the scratch.
DflTouches(c) ==
    LET n == c.locations
        tile == IF n < 32 THEN n ELSE 32
        bins == IF c.source_layout = 1
                THEN {Touch("source", (side \div 2) * n * 32 + (side % 2) * 16 + i * 32, 16) :
                         side \in 0 .. 3, i \in 0 .. n - 1}
                ELSE {Touch("source", side * 16 * n + bin * n, n) : side \in 0 .. 3, bin \in 0 .. 15}
    IN  Footprint(bins \cup Whole("exp_lut", 2048) \cup {Touch("scratch", 0, tile * 32)},
                  Rows("destination", 4, n, n)
                    \cup {Touch("scratch", 0, tile * 32), Touch("scratch", 1024, tile * 2)})

AvgpoolTouches(c) ==
    LET groups == RoundUp32(c.channels) \div 32 IN
    Footprint(Whole("ifm", c.input_h * c.input_w * groups * 32), Whole("ofm", groups * 32))

UpsampleTouches(c) ==
    LET group == c.input_h * c.input_w * 32 IN
    Footprint(Rows("ifm", c.channels \div 32, group, group),
              Rows("ofm", c.channels \div 32, group * 4, group * 4))

MaxpoolTouches(c) ==
    LET group == c.input_h * c.input_w * 32 IN
    Footprint(Rows("ifm", c.channels \div 32, group, group), Rows("ofm", c.channels \div 32, group, group))

\* c32_offset
C32Offset(pixels, pixel, channel, bytes) ==
    (((channel \div 32) * pixels + pixel) * 32 + (channel % 32)) * bytes

\* Element by element: nai_copy_layout_v2 and, in runs, runtime_copy_layout.
CopyTouches(c) ==
    LET n == Pixels(c)  e == CopyElementBytes(c)  ch == c.valid_channels
        elements == ((0 .. n - 1) \X (0 .. ch - 1))
        compact(x) == IF c.mode = "c32_to_chw" THEN x[2] * n + x[1] ELSE (x[1] * ch + x[2]) * e
        native(x)  == IF c.mode \in {"nhwc_to_row32", "row32_to_nhwc"}
                      THEN (x[1] * RoundUp32(ch) + x[2]) * e ELSE C32Offset(n, x[1], x[2], e)
    IN  IF c.mode \in {"nhwc_to_row32", "nhwc_to_c32"}
        THEN Footprint({Touch("source", compact(x), e) : x \in elements},
                       {Touch("destination", native(x), e) : x \in elements}
                         \cup Whole("destination", n * RoundUp32(ch) * e))
        ELSE Footprint({Touch("source", native(x), e) : x \in elements},
                       {Touch("destination", compact(x), e) : x \in elements})

TouchesOf(c) ==
    CASE c.type = "dma" -> DmaTouches(c)
      [] c.type \in {"gemm32", "gemm32_accum", "gemm32_requant"} -> GemmTouches(c)
      [] c.type = "pointwise_c32" -> PointwiseTouches(c)
      [] c.type = "depthwise_c32" -> DepthwiseTouches(c)
      [] c.type \in {"afu_binary", "spatz_add", "afu_binary_quant"} -> BinaryTouches(c)
      [] c.type = "afu_lut" -> LutTouches(c)
      [] c.type = "afu_dfl16" -> DflTouches(c)
      [] c.type = "afu_global_avgpool" -> AvgpoolTouches(c)
      [] c.type = "upsample_nearest" -> UpsampleTouches(c)
      [] c.type = "maxpool" -> MaxpoolTouches(c)
      [] c.type = "copy_layout" -> CopyTouches(c)
      [] c.type = "rq_load" -> Footprint(Whole("qparams", 1024), {})
      [] OTHER -> Footprint({}, {})

----
(* Properties.                                                             *)

\* A command the checked build calls touches no byte outside the regions its references name, nor
\* one past the end of memory: the sizes run_dma_1d ... run_copy compute cover every row, group,
\* tap and tile of the operation.
TouchesWithinRegions ==
    outcome.status = "called" /\ ~trusted =>
        LET c == outcome.command
            f == TouchesOf(c)
            regions == [n \in DOMAIN outcome.at |-> RegionOf(PlanOf(c).needs[n].ref)]
        IN  \A t \in f.reads \cup f.writes :
                LET region == regions[t.name]
                    first  == outcome.at[t.name] + t.offset
                IN  /\ region.base <= first /\ first + t.bytes <= region.base + region.bytes
                    /\ first + t.bytes <= Words

\* The operations that read a source after the first result is written.
Separated == {"afu_binary", "spatz_add", "afu_binary_quant", "afu_lut", "afu_dfl16",
              "afu_global_avgpool", "upsample_nearest", "maxpool"}

\* The addresses of the bytes touched under one name.
Bytes(touches, name) ==
    UNION {LET first == outcome.at[name] + t.offset IN first .. first + t.bytes - 1 :
               t \in {u \in touches : u.name = name}}

\* No result such a command writes lands on a source it still reads, a lookup in place excepted.
SourcesSurvive ==
    /\ outcome.status = "called" /\ ~trusted
    /\ \/ outcome.command.type \in Separated
       \/ outcome.command.type = "copy_layout" /\ outcome.command.mode = "c32_to_chw"
    /\ ~(outcome.command.type = "afu_lut" /\ outcome.at["ifm"] = outcome.at["ofm"])
    => LET f == TouchesOf(outcome.command) IN
       \A m, n \in DOMAIN outcome.at :
           m # n => Bytes(f.reads, m) \cap Bytes(f.writes, n) = {}

\* On a model whose binding section is in order, the trusted build calls the operation with the
\* very addresses the checked build would have resolved, whenever the checked build calls it.
TrustedCallsAgree ==
    outcome.status # "none" /\ trusted /\ Ordered =>
        LET v == Verdict(outcome.command, TRUE) IN
        v.status = "called" => outcome.status = "called" /\ outcome.at = v.at

====
