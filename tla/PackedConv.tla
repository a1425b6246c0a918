---- MODULE PackedConv ----
(***************************************************************************)
(* The convolution library (sw/lib/conv2d_packed.c): which way a           *)
(* convolution takes (the line buffer in one job, in tiles or tap by tap,  *)
(* or rows of pixels gathered by DMA or by the vector unit), how it is cut *)
(* into jobs, and what the core does for each.                             *)
(*                                                                         *)
(* A configuration c counts its input (input, c_stride, row_stride,        *)
(* c_base) in lanes, im2col, ofm and psum in cells.  Weights and outputs   *)
(* are in the TCDM; an input behind it is outside.                         *)
(***************************************************************************)
EXTENDS HalCalls

CONSTANTS LinebufKMax,          \* largest kernel side of the line buffer: 5
          LinebufMaxInputW,     \* widest picture of the line buffer: 640
          MaxPrepareCmds        \* copies a plan has room for: 256

ASSUME ConvAssumption == LinebufKMax \in Nat \ {0} /\ LinebufMaxInputW \in Nat /\ MaxPrepareCmds \in Nat

CeilDiv(n, d) == (n + d - 1) \div d
Least(a, b) == IF a < b THEN a ELSE b
Greatest(a, b) == IF a > b THEN a ELSE b
Minus(a, b) == IF a > b THEN a - b ELSE 0

KTotal(c) == c.kernel_h * c.kernel_w * c.input_c
SpatialRows(c) == c.output_h * c.output_w

----
(* Which way.                                                              *)

IsL1(a) == a < Cells * Lanes

Valid(c) == /\ 0 \notin {c.input_c, c.kernel_h, c.kernel_w, c.output_h, c.output_w}
            /\ c.dilation = 1
            /\ c.c_base + c.input_c <= InputStride(c) \/ Blocked(c)

IsContiguous1x1(c) ==
    /\ c.kernel_h = 1 /\ c.kernel_w = 1 /\ c.stride_h = 1 /\ c.stride_w = 1 /\ c.pad_h = 0 /\ c.pad_w = 0
    /\ c.output_h = c.input_h /\ c.output_w = c.input_w

LinebufSupported(c) == /\ IsL1(c.input)
                       /\ c.kernel_h <= LinebufKMax /\ c.kernel_w <= LinebufKMax
                       /\ c.input_w <= LinebufMaxInputW

CoalesceSupported(c) == LinebufSupported(c) /\ KTotal(c) <= Lanes /\ SpatialRows(c) <= TileM

\* The array takes several tiles of channels only from pictures in groups of C32.
KgenShapeSupported(c) ==
    /\ LinebufSupported(c) /\ KTotal(c) > Lanes
    /\ \/ c.input_c = Lanes
       \/ c.input_c > Lanes /\ c.input_c % Lanes = 0 /\ InputStride(c) = Lanes /\ c.c_base = 0

\* In one job: 1024 rows.
KgenSupported(c) == KgenShapeSupported(c) /\ SpatialRows(c) <= TileM

----
(* Jobs of the line buffer.                                                *)

LinebufConfig(c, kgen, k_tiles) ==
    LET base == c.input + c.c_base - c.pad_h * RowStride(c)
        stationary == /\ kgen /\ InputStride(c) = Lanes /\ c.input_c % Lanes = 0 /\ c.c_base = 0
                      /\ base % Lanes = 0
    IN  [mode |-> "conv", base |-> base, input_h |-> c.input_h, input_w |-> c.input_w, output_w |-> c.output_w,
         stride_h |-> c.stride_h, stride_w |-> c.stride_w, pad_h |-> c.pad_h, pad_w |-> c.pad_w,
         kernel_h |-> c.kernel_h, kernel_w |-> c.kernel_w, row_stride |-> RowStride(c),
         oh_step |-> c.stride_h * RowStride(c), pixel_stride |-> InputStride(c),
         channels |-> Least(c.input_c, Lanes), lane_base |-> 0, stationary |-> stationary,
         groups |-> IF stationary THEN c.input_c \div Lanes ELSE 1,
         span |-> IF stationary THEN c.input_h * RowStride(c) ELSE 0, k_tiles |-> k_tiles]

CoalesceConfig(c) == Set(Linebuffer(LinebufConfig(c, FALSE, 0)))
KgenConfig(c) == Set(Linebuffer(LinebufConfig(c, TRUE, CeilDiv(KTotal(c), Lanes))))

\* Faulty variant: keeps the padding of the whole picture.
PadLeft_Kept(pad, first_in, unpadded) == pad

\* The padding a tile still sees, its first row or column of the picture being first_in.
PadLeft(pad, first_in, unpadded) == Minus(pad + first_in, unpadded)

\* The convolution whose output is th x tw pixels of that of c, from (oh, ow) on.  It reads the part of
\* the picture its windows meet, and keeps the padding they still see.
OutputTile(c, oh, ow, th, tw, cells) ==
    LET inside(at, pad, n) == Least(Minus(at, pad), n - 1)
        first_ih == inside(oh * c.stride_h, c.pad_h, c.input_h)
        last_ih  == inside((oh + th - 1) * c.stride_h + c.kernel_h - 1, c.pad_h, c.input_h)
        first_iw == inside(ow * c.stride_w, c.pad_w, c.input_w)
        last_iw  == inside((ow + tw - 1) * c.stride_w + c.kernel_w - 1, c.pad_w, c.input_w)
    IN  [c EXCEPT !.row_stride = RowStride(c), !.input = @ + first_ih * RowStride(c) + first_iw * InputStride(c),
                  !.input_h = last_ih - first_ih + 1, !.input_w = last_iw - first_iw + 1,
                  !.output_h = th, !.output_w = tw, !.ofm = @ + (oh * c.output_w + ow) * cells,
                  !.pad_h = PadLeft(@, first_ih, oh * c.stride_h), !.pad_w = PadLeft(@, first_iw, ow * c.stride_w)]

\* The picture in stripes of so many output rows.
Stripes(c, step, cells) ==
    [t \in 1 .. CeilDiv(c.output_h, step) |->
        OutputTile(c, (t - 1) * step, 0, Least(step, c.output_h - (t - 1) * step), c.output_w, cells)]

\* As many output rows as a job takes and the row cache holds beyond a window.
DefaultTileOh(c) ==
    LET by_m     == Greatest(TileM \div c.output_w, 1)
        by_cache == IF c.kernel_h <= LinebufKMax /\ c.stride_h # 0
                    THEN (LinebufKMax - c.kernel_h) \div c.stride_h + 1 ELSE 1
    IN  IF c.kernel_h = 1 /\ c.kernel_w = 1 /\ c.pad_h = 0 /\ c.pad_w = 0 THEN by_m ELSE Least(by_m, by_cache)

\* run_linebuf_kgen_tile: partial sums are where the output is.
KgenTile(c) ==
    KgenConfig(c) \o LinebufGemm(c.weights, c.ofm, c.ofm, SpatialRows(c), c.accumulate, FALSE, 0, 0, 0)

----
(* Runs of lanes: a pixel's channels within one k-tile.                    *)

RunStarts(c, t) ==
    {k \in t * Lanes .. Least((t + 1) * Lanes, KTotal(c)) - 1 : k % Lanes = 0 \/ k % c.input_c = 0}
RunLength(c, k) == Least(Lanes - (k % Lanes), c.input_c - (k % c.input_c))
TapH(c, k) == (k \div c.input_c) \div c.kernel_w
TapW(c, k) == (k \div c.input_c) % c.kernel_w

PixelAddress(c, ih, iw, ch) == c.input + (ih * c.input_w + iw) * InputStride(c) + c.c_base + ch

\* output_valid_range: the outputs whose tap is inside.
OutputRange(output_len, stride, offset, pad, input_len) ==
    {o \in 0 .. output_len - 1 : o * stride + offset - pad \in 0 .. input_len - 1}
RangeH(c, k) == OutputRange(c.output_h, c.stride_h, TapH(c, k), c.pad_h, c.input_h)
RangeW(c, k) == OutputRange(c.output_w, c.stride_w, TapW(c, k), c.pad_w, c.input_w)

InOrder(keys) ==
    [i \in 1 .. Cardinality(keys) |-> CHOOSE x \in keys : Cardinality({y \in keys : y < x}) = i - 1]

\* One job per run, output row and chunk; every job adds to the output.
TapByTap(c) ==
    LET window(k, oh, ow, chunk) ==
            [mode |-> "conv", input_h |-> 1, input_w |-> (chunk - 1) * c.stride_w + 1, output_w |-> chunk,
             base |-> PixelAddress(c, oh * c.stride_h + TapH(c, k) - c.pad_h, ow * c.stride_w + TapW(c, k) - c.pad_w,
                                   k % c.input_c),
             stride_h |-> 1, stride_w |-> c.stride_w, pad_h |-> 0, pad_w |-> 0, kernel_h |-> 1, kernel_w |-> 1,
             row_stride |-> RowStride(c), oh_step |-> RowStride(c), pixel_stride |-> InputStride(c),
             channels |-> RunLength(c, k), lane_base |-> k % Lanes, stationary |-> FALSE, groups |-> 1,
             span |-> 0, k_tiles |-> 0]
        job(k, oh, ow, chunk) ==
            LET o == c.ofm + (oh * c.output_w + ow) * 4 IN
            Set(Linebuffer(window(k, oh, ow, chunk)))
            \o LinebufGemm(c.weights + (k \div Lanes), o, o, chunk, TRUE, FALSE, 0, 0, 0)
        row(k, oh) ==
            LET n == Cardinality(RangeW(c, k)) IN
            FlattenSeq([i \in 1 .. CeilDiv(n, AccumTileM) |->
                job(k, oh, Min(RangeW(c, k)) + (i - 1) * AccumTileM, Least(AccumTileM, n - (i - 1) * AccumTileM))])
        run(k) == LET ohs == InOrder(RangeH(c, k)) IN FlattenSeq([i \in DOMAIN ohs |-> row(k, ohs[i])])
        runs == InOrder(UNION {RunStarts(c, t) : t \in 0 .. CeilDiv(KTotal(c), Lanes) - 1})
    IN  (IF c.accumulate THEN <<>> ELSE Vector("clear", <<c.ofm, 4 * SpatialRows(c)>>))
        \o FlattenSeq([i \in DOMAIN runs |-> run(runs[i])])

----
(* Rows of pixels gathered: a copy is a set of <<lane to write, lane read>>. *)

Gather(copy) == Vector("gather", copy)

\* All of the copies by DMA, or else all of it by the vector unit.
Fetch(copies, fallback) == <<[op |-> "fetch", copies |-> copies, fallback |-> fallback]>>

\* The copy of a run for all outputs whose tap is inside: a box of rows and columns.
BoxCopy(c, k) ==
    LET oh == Min(RangeH(c, k))
        ow == Min(RangeW(c, k))
        src == PixelAddress(c, oh * c.stride_h + TapH(c, k) - c.pad_h, ow * c.stride_w + TapW(c, k) - c.pad_w,
                            k % c.input_c)
        dst == (c.im2col + oh * c.output_w + ow) * Lanes + (k % Lanes)
    IN  {<<dst + (i * c.output_w + j) * Lanes + ch,
           src + (i * c.stride_h * c.input_w + j * c.stride_w) * InputStride(c) + ch>> :
            i \in 0 .. Cardinality(RangeH(c, k)) - 1, j \in 0 .. Cardinality(RangeW(c, k)) - 1,
            ch \in 0 .. RunLength(c, k) - 1}

\* build_prepare_plan: the runs of a k-tile that read anything.
PlannedRuns(c, t) == {k \in RunStarts(c, t) : RangeH(c, k) # {} /\ RangeW(c, k) # {}}
PlanOverflow(c) ==
    Cardinality(UNION {PlannedRuns(c, t) : t \in 0 .. CeilDiv(KTotal(c), Lanes) - 1}) > MaxPrepareCmds

\* prepare_spatz_segmented: output after output, run after run.
SegmentedCopy(c, t) ==
    LET ih(r, k) == (r \div c.output_w) * c.stride_h + TapH(c, k) - c.pad_h
        iw(r, k) == (r % c.output_w) * c.stride_w + TapW(c, k) - c.pad_w
        inside == {p \in (0 .. SpatialRows(c) - 1) \X RunStarts(c, t) :
                    ih(p[1], p[2]) \in 0 .. c.input_h - 1 /\ iw(p[1], p[2]) \in 0 .. c.input_w - 1}
    IN  UNION {{<<(c.im2col + p[1]) * Lanes + (p[2] % Lanes) + ch,
                  PixelAddress(c, ih(p[1], p[2]), iw(p[1], p[2]), (p[2] % c.input_c) + ch)>> :
                    ch \in 0 .. RunLength(c, p[2]) - 1} : p \in inside}

PixelsCopy(c, t) ==
    {<<(c.im2col + r) * Lanes + l, c.input + c.c_base + t * Lanes + r * InputStride(c) + l>> :
        r \in 0 .. SpatialRows(c) - 1, l \in 0 .. Least(Lanes, c.input_c - t * Lanes) - 1}

PrepareTile(c, t) ==
    LET cleared   == Vector("clear", <<c.im2col, SpatialRows(c)>>)
        pixels    == Gather(PixelsCopy(c, t))
        segmented == cleared \o Gather(SegmentedCopy(c, t))
        runs == InOrder(PlannedRuns(c, t))
        boxes == [i \in DOMAIN runs |-> BoxCopy(c, runs[i])]
    IN  cleared
        \o CASE IsContiguous1x1(c) -> IF IsL1(c.input + c.c_base + t * Lanes) THEN pixels
                                      ELSE Fetch(<<PixelsCopy(c, t)>>, pixels)
             [] ~IsContiguous1x1(c) /\ (PlanOverflow(c) \/ runs = <<>>) -> segmented
             [] OTHER -> IF IsL1(c.input) THEN FlattenSeq([i \in DOMAIN boxes |-> Gather(boxes[i])])
                         ELSE Fetch(boxes, segmented)

----
(* The calls.                                                              *)

\* npu_conv2d_packed_run_oc32_linebuf
LinebufConv(c) ==
    IF ~Valid(c) \/ ~LinebufSupported(c) THEN Rejected
    ELSE CASE CoalesceSupported(c) ->
                CoalesceConfig(c) \o LinebufGemm(c.weights, IF c.accumulate THEN c.ofm ELSE 0, c.ofm,
                                                 SpatialRows(c), c.accumulate, FALSE, 0, 0, 0)
           [] KgenSupported(c) -> KgenTile(c)
           [] KgenShapeSupported(c) /\ ~KgenSupported(c) ->
                LET stripes == Stripes(c, DefaultTileOh(c), 4)
                IN  FlattenSeq([i \in DOMAIN stripes |-> KgenTile(stripes[i])])
           [] OTHER -> TapByTap(c)

\* npu_conv2d_packed_run_oc32
Conv32(c) ==
    LET step(t) == PrepareTile(c, t)
                   \o IF t = 0 /\ ~c.accumulate THEN Gemm32(Local(c.weights), c.im2col, c.ofm, SpatialRows(c))
                      ELSE Accumulate(Local(c.weights + t), c.im2col, c.ofm, c.ofm, SpatialRows(c))
    IN  CASE ~Valid(c) -> Rejected
          [] Valid(c) /\ LinebufSupported(c) -> LinebufConv(c)
          [] OTHER -> FlattenSeq([t \in 1 .. CeilDiv(KTotal(c), Lanes) |-> step(t - 1)])

\* npu_conv2d_packed_run_oc32_requant: partial sums lie behind the output.
Conv32Requant(c) ==
    LET rows == SpatialRows(c)
        tiles == CeilDiv(KTotal(c), Lanes)
        step(t) == PrepareTile(c, t) \o GroupProgram(Local(c.weights + t), c.im2col, c.ofm + rows, c.ofm, rows, t, tiles)
    IN  IF ~Valid(c) THEN Rejected ELSE FlattenSeq([t \in 1 .. tiles |-> step(t - 1)])

\* npu_conv2d_packed_run_oc32_linebuf_requant
LinebufConvRequant(c) ==
    LET stripes == Stripes(c, Greatest(TileM \div c.output_w, 1), 1)
        step(s) == IF ~CoalesceSupported(s) THEN Rejected
                   ELSE CoalesceConfig(s) \o LinebufGemm(s.weights, 0, s.ofm, SpatialRows(s), FALSE, TRUE, 0, 0, 0)
    IN  IF ~Valid(c) \/ ~LinebufSupported(c) \/ c.accumulate \/ KTotal(c) > Lanes THEN Rejected
        ELSE FlattenSeq([i \in DOMAIN stripes |-> step(stripes[i])])

TileOw(c, tile) == IF tile.tw # 0 THEN tile.tw ELSE c.output_w
TileInside(c, tile) == /\ tile.th # 0 /\ TileOw(c, tile) # 0
                       /\ tile.oh < c.output_h /\ tile.oh + tile.th <= c.output_h
                       /\ tile.ow < c.output_w /\ tile.ow + TileOw(c, tile) <= c.output_w

\* A job is configured while the one before it runs.
LinebufJobs(jobs) ==
    Set(jobs[1]) \o Start
    \o FlattenSeq([i \in 1 .. Len(jobs) - 1 |-> Set(jobs[i + 1]) \o Wait \o Start])
    \o Wait \o Set(Linebuffer(LinebufOff))

\* Gaps lie between the rows of a tile narrower than the picture.
TileJob(c, part, psum, accum, cells) ==
    LET stride == IF part.output_w = c.output_w THEN 0 ELSE c.output_w * cells
    IN  Linebuffer(LinebufConfig(part, TRUE, CeilDiv(KTotal(c), Lanes)))
        ++ Preload(Local(c.weights), 0, psum, part.ofm, SpatialRows(part), accum, stride,
                   IF stride = 0 THEN 0 ELSE part.output_w, IF cells = 4 THEN stride ELSE 0)

\* The groups of a tile lie as far apart as those of the picture.
GroupSpan(c, job) == IF job.lb.stationary THEN [job EXCEPT !.lb.span = c.input_h * RowStride(c)] ELSE job

TilesAccepted(c) == /\ Valid(c) /\ c.tiles # <<>> /\ KgenShapeSupported(c)
                    /\ \A i \in DOMAIN c.tiles : TileInside(c, c.tiles[i])

\* npu_conv2d_packed_run_oc32_linebuf_tiles; requantisation is the caller's to switch.
TilesConv(c) ==
    LET job(tile) == LET part == OutputTile(c, tile.oh, tile.ow, tile.th, TileOw(c, tile), 4)
                     IN  TileJob(c, part, part.ofm, c.accumulate, 4)
    IN  IF ~TilesAccepted(c) THEN Rejected
        ELSE Set(Requant(FALSE)) \o LinebufJobs([i \in DOMAIN c.tiles |-> job(c.tiles[i])])

\* npu_conv2d_packed_run_oc32_linebuf_tiles_requant
TilesConvRequant(c) ==
    LET job(tile) == LET part == OutputTile(c, tile.oh, tile.ow, tile.th, TileOw(c, tile), 1)
                         psum == c.psum + (tile.oh * c.output_w + tile.ow) * 4
                     IN  GroupSpan(c, TileJob(c, part, psum, FALSE, 1))
    IN  IF ~TilesAccepted(c) \/ c.psum = 0 \/ c.accumulate THEN Rejected
        ELSE Set(Requant(TRUE)) \o LinebufJobs([i \in DOMAIN c.tiles |-> job(c.tiles[i])])

\* npu_conv2d_packed_run_oc32_linebuf_tile_accumulate_requant: partial sums of the whole output, the
\* output of one tile.
TileAccumulateRequantConv(c) ==
    LET tile == c.tiles[1]
        tw   == TileOw(c, tile)
        part == OutputTile(c, tile.oh, tile.ow, tile.th, tw, 1)
    IN  IF \/ ~Valid(c) \/ c.psum = 0 \/ c.ofm = 0 \/ ~c.accumulate \/ ~KgenShapeSupported(c)
           \/ ~TileInside(c, tile) \/ SpatialRows(part) > PsumRows
        THEN Rejected
        ELSE KgenConfig(part)
             \o LinebufGemm(c.weights, c.psum + (tile.oh * c.output_w + tile.ow) * 4, c.ofm, SpatialRows(part),
                            TRUE, TRUE, tw, tw, c.output_w * 4)

ConvProgram(c) ==
    CASE c.type = "conv_oc32"            -> Conv32(c)
      [] c.type = "conv_oc32_requant"    -> Conv32Requant(c)
      [] c.type = "conv_linebuf"         -> LinebufConv(c)
      [] c.type = "conv_linebuf_requant" -> LinebufConvRequant(c)
      [] c.type = "conv_tiles"           -> TilesConv(c)
      [] c.type = "conv_tiles_requant"   -> TilesConvRequant(c)
      [] c.type = "conv_tile_accum_requant" -> TileAccumulateRequantConv(c)

====
