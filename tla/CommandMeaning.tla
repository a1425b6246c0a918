---- MODULE CommandMeaning ----
(***************************************************************************)
(* What a command that computes asks for (the records of                   *)
(* sw/lib/npu_cmd_desc_v2.h, the HAL's calls of sw/lib/hal_systolic.h):    *)
(* the cells it writes, as functions of the cells it reads.  Nothing here  *)
(* is about registers, staging or tiles: EngineOps is.                     *)
(*                                                                         *)
(* A cell is 32 bytes of memory: a row of 32 int8 values (lanes), or a     *)
(* quarter of a row of 32 int32 partial sums.  A partial sum is the set of *)
(* the products it is the sum of; a product is a row of a weight tile and  *)
(* the lane it meets.  Strides and lengths are in cells; packed            *)
(* convolutions read pixels that are not cells and count in lanes.         *)
(***************************************************************************)
EXTENDS Integers, SequencesExt

CONSTANTS Cells,        \* size of the TCDM; cells behind it are memory outside, which no one writes
          Lanes,        \* bytes of a cell, rows of a weight tile: 32
          StripeRows,   \* rows of a pointwise stripe: 256
          PsumRows      \* rows of partial sums the array keeps: 256

None    == <<"none">>
Zero    == <<"zero">>       \* a tap outside the picture
Garbage == <<"garbage">>    \* what no one put there on purpose
Scratch == <<"any">>        \* scratch: the command leaves here what it likes

InputRow(a) == <<"in", a>>
Tile(w)     == <<"tile", w>>
Bins(t)     == <<"table", t>>
Quantized(params, sum) == <<"q", params, sum>>

CellOf(M, a) == IF a \in DOMAIN M THEN M[a] ELSE InputRow(a)

\* One byte of a cell; a cell put together from lanes is <<"lanes", row>>.
Lane(cell, l) == IF cell = Zero THEN Zero ELSE IF cell[1] = "lanes" THEN cell[2][l] ELSE <<cell, l>>
RowOf(cell) == [l \in 0 .. Lanes - 1 |-> Lane(cell, l)]
LaneOf(M, a) == Lane(CellOf(M, a \div Lanes), a % Lanes)

\* A lane that is zero adds nothing.
Products(tile, row) == {p \in {<<tile, l, row[l]>> : l \in 0 .. Lanes - 1} : p[3] # Zero}

\* Of n functions with domains of their own, one.
AllOf(n, Row(_)) == FoldFunction(LAMBDA f, g : f @@ g, <<>>, [r \in 0 .. n - 1 |-> Row(r)])

Rows(n, At(_), Of(_)) == LET row(r) == At(r) :> Of(r) IN AllOf(n, row)

WideRows(n, At(_), Of(_)) ==
    LET row(r) == LET sum == Of(r)
                      first == At(r)
                  IN  [a \in first .. first + 3 |-> IF sum = {} THEN Zero ELSE <<"sum", a - first, sum>>]
    IN  AllOf(n, row)

Unspecified(cells) == [a \in cells |-> Scratch]

\* The partial sum whose four parts begin at a.
Wide(M, a) ==
    CASE \A q \in 0 .. 3 : M[a + q] = Zero -> {}
      [] M[a][1] = "sum" /\ \A q \in 0 .. 3 : M[a + q] = <<"sum", q, M[a][3]>> -> M[a][3]
      [] OTHER -> {Garbage}

\* A product counted twice is not the sum.
Plus(s, t) == IF s \cap t = {} /\ Garbage \notin s \cup t THEN s \cup t ELSE {Garbage}

OrDefault(stride, row) == IF stride # 0 THEN stride ELSE row

\* The r-th row of a tile of `cols` columns in a picture.
RowAt(base, r, stride, cols, cells) ==
    IF stride = 0 \/ cols = 0 THEN base + r * cells
    ELSE base + (r \div cols) * stride + (r % cols) * cells

----
(* The picture under a window: output row r, tap k.                        *)

Pixel(M, base, g, r, k) ==
    LET h == (r \div g.output_w) * g.stride_h + (k \div g.kernel_w) - g.pad_h
        w == (r % g.output_w) * g.stride_w + (k % g.kernel_w) - g.pad_w
    IN  IF h \in 0 .. g.input_h - 1 /\ w \in 0 .. g.input_w - 1
        THEN M[base + h * g.input_w + w] ELSE Zero

Taps(g) == 0 .. g.kernel_h * g.kernel_w - 1

\* The first n rows of the tiles from w on, each with the lane In gives it.
Packed(w, n, In(_)) == {p \in {<<Tile(w + k \div Lanes), k % Lanes, In(k)>> : k \in 0 .. n - 1} : p[3] # Zero}

\* Tap by tap, the channels of a pixel side by side.
Conv(M, base, g, w, r) ==
    LET in(k) == Lane(Pixel(M, base, g, r, k \div g.channels), k % g.channels)
    IN  Packed(w, g.kernel_h * g.kernel_w * g.channels, in)

----
(* s.mem: the memory; s.block: the parameters loaded last; s.lut: the      *)
(* table an AFU pass may rely on.                                          *)

Gemm(c, s) ==
    LET requant == c.type = "gemm32_requant"
        sum(r)  == Plus(Products(Tile(c.weights), RowOf(s.mem[c.ifm + r])),
                        IF c.psum = None THEN {}
                        ELSE Wide(s.mem, c.psum[2] + r * OrDefault(c.psum_stride, 4)))
        at(r)   == c.ofm + r * OrDefault(c.ofm_stride, IF requant THEN 1 ELSE 4)
        out(r)  == Quantized(c.block, sum(r))
    IN  IF requant THEN Rows(c.m, at, out) ELSE WideRows(c.m, at, sum)

\* Input groups are `stride` apart, output groups lie one after the other.
PointwiseC32(c, s, stride, stripe, block) ==
    LET product(og, r) == UNION {Products(Tile(c.weights + og * c.groups + g), RowOf(s.mem[c.ifm + g * stride + r])) :
                                    g \in 0 .. c.groups - 1}
        out(x) == Quantized(block, product(x \div c.rows, x % c.rows))
        at(x)  == c.ofm + x
        rows   == IF c.rows < stripe THEN c.rows ELSE stripe
    IN  Rows(c.rows * c.output_groups, at, out)
        @@ IF c.groups = 1 THEN <<>> ELSE Unspecified(c.psum[2] .. c.psum[2] + 4 * rows - 1)

Depthwise(c, s) ==
    LET at(r)  == c.ofm + r
        out(r) == Quantized(c.block, {<<<<Tile(c.weights), k>>, Pixel(s.mem, c.ifm, c, r, k)>> : k \in Taps(c)})
    IN  Rows(c.output_h * c.output_w, at, out)

\* 5x5, stride 1, padding 2, group by group.
PoolWindow(c) == [input_h |-> c.input_h, input_w |-> c.input_w, output_w |-> c.input_w,
                  stride_h |-> 1, stride_w |-> 1, pad_h |-> 2, pad_w |-> 2, kernel_h |-> 5, kernel_w |-> 5]
Maxpool(c, s) ==
    LET n == c.input_h * c.input_w
        g == PoolWindow(c)
        at(x)  == c.ofm + x
        out(x) == <<"max", {Pixel(s.mem, c.ifm + (x \div n) * n, g, x % n, k) : k \in Taps(g)}>>
    IN  Rows(n * c.groups, at, out)

\* accum_en: 0 output, 1 first partial sums, 3 more partial sums, 2 output with them.  Strides are
\* for jobs of several k-tiles; a job of one writes its output without gaps.
Linebuf(j, s) ==
    LET fresh(r) == Conv(s.mem, j.input, j, j.weights, r)
        psum(r)  == RowAt(j.psum, r, j.psum_stride, j.cols, 4)
        sum(r)   == IF j.accum_en \in {2, 3} THEN Plus(fresh(r), Wide(s.mem, psum(r))) ELSE fresh(r)
        at(r)    == IF j.k_tiles > 1 THEN RowAt(j.ofm, r, j.ofm_stride, j.cols, 1) ELSE j.ofm + r
        rhs(r)   == s.mem[RowAt(j.binary[2].rhs, r, j.binary[2].stride, j.binary[2].cols, 1)]
        out(r)   == IF j.binary = None THEN Quantized(s.block, sum(r))
                    ELSE <<"binary", j.binary[2].params, Quantized(s.block, sum(r)), rhs(r)>>
        through  == j.accum_en = 0 /\ j.k_tiles > 1 /\ j.rows > PsumRows
    IN  IF j.accum_en \in {1, 3} THEN WideRows(j.rows, psum, sum)
        ELSE Rows(j.rows, at, out)
             @@ IF through THEN Unspecified({psum(r) + q : r \in 0 .. j.rows - 1, q \in 0 .. 3}) ELSE <<>>

\* A call of the HAL: the sums as they are, or quantized, where the caller says.
LinebufCall(c, s) ==
    LET fresh(r) == Conv(s.mem, c.input, c, c.weights, r)
        psum(r)  == RowAt(c.psum, r, c.psum_stride, c.cols, 4)
        sum(r)   == IF c.accum THEN Plus(fresh(r), Wide(s.mem, psum(r))) ELSE fresh(r)
        narrow(r) == RowAt(c.ofm, r, c.ofm_stride, c.cols, 1)
        wide(r)   == RowAt(c.ofm, r, c.ofm_stride, c.cols, 4)
        out(r)    == Quantized(s.block, sum(r))
        through   == ~c.accum /\ c.k_tiles > 1 /\ c.rows > PsumRows
    IN  (IF c.requant THEN Rows(c.rows, narrow, out) ELSE WideRows(c.rows, wide, sum))
        @@ IF through THEN Unspecified({psum(r) + q : r \in 0 .. c.rows - 1, q \in 0 .. 3}) ELSE <<>>

----
(* Packed convolutions: pixels of any number of channels, or C32 groups of *)
(* a picture one after the other.                                          *)

Convs == {"conv_oc32", "conv_oc32_requant", "conv_linebuf", "conv_linebuf_requant",
          "conv_tiles", "conv_tiles_requant", "conv_tile_accum_requant"}

InputStride(c) == OrDefault(c.c_stride, c.input_c)
RowStride(c)   == OrDefault(c.row_stride, c.input_w * InputStride(c))
Blocked(c)     == c.c_stride = Lanes /\ c.c_base = 0 /\ c.input_c > Lanes /\ c.input_c % Lanes = 0

ConvSum(c, M, r) ==
    LET channels == IF Blocked(c) THEN Lanes ELSE c.input_c
        taps    == c.kernel_h * c.kernel_w
        tap(k)  == (k \div channels) % taps
        group(k) == k \div (channels * taps)
        h(k) == (r \div c.output_w) * c.stride_h + (tap(k) \div c.kernel_w) - c.pad_h
        w(k) == (r % c.output_w) * c.stride_w + (tap(k) % c.kernel_w) - c.pad_w
        in(k) == IF h(k) \in 0 .. c.input_h - 1 /\ w(k) \in 0 .. c.input_w - 1
                 THEN LaneOf(M, c.input + (group(k) * c.input_h + h(k)) * RowStride(c) + w(k) * InputStride(c)
                                + c.c_base + (k % channels))
                 ELSE Zero
    IN  Packed(c.weights, taps * c.input_c, in)

\* The outputs asked for, in the order of the tiles.
TileRows(c) ==
    LET row(t, i) == LET tw == OrDefault(t.tw, c.output_w)
                     IN  (t.oh + i \div tw) * c.output_w + t.ow + (i % tw)
        rows(t) == [i \in 1 .. t.th * OrDefault(t.tw, c.output_w) |-> row(t, i - 1)]
    IN  IF c.tiles = <<>> THEN [i \in 1 .. c.output_h * c.output_w |-> i - 1]
        ELSE FlattenSeq([t \in DOMAIN c.tiles |-> rows(c.tiles[t])])

\* Sums lie where the output is, or row by row from psum on; a requantised tile by itself lies at ofm.
PackedConvolution(c, s) ==
    LET rows == TileRows(c)
        old(r)  == CASE c.type = "conv_tile_accum_requant" -> Wide(s.mem, c.psum + 4 * r)
                     [] c.type # "conv_tile_accum_requant" /\ c.accumulate -> Wide(s.mem, c.ofm + 4 * r)
                     [] OTHER -> {}
        sum(i)  == Plus(ConvSum(c, s.mem, rows[i + 1]), old(rows[i + 1]))
        out(i)  == Quantized(s.block, sum(i))
        wide(i) == c.ofm + 4 * rows[i + 1]
        narrow(i) == c.ofm + IF c.type = "conv_tile_accum_requant" THEN i ELSE rows[i + 1]
        n == c.output_h * c.output_w
    IN  (IF c.type \in {"conv_oc32", "conv_linebuf", "conv_tiles"} THEN WideRows(Len(rows), wide, sum)
         ELSE Rows(Len(rows), narrow, out))
        @@ Unspecified(CASE c.type = "conv_oc32"          -> c.im2col .. c.im2col + n - 1
                         [] c.type = "conv_oc32_requant"  -> (c.im2col .. c.im2col + n - 1) \cup (c.ofm + n .. c.ofm + 5 * n - 1)
                         [] c.type = "conv_tiles_requant" -> c.psum .. c.psum + 4 * n - 1
                         [] OTHER -> {})

----
(* The AFU and the vector unit.                                            *)

Pairwise(c, s, Op(_, _)) ==
    LET at(i)  == c.ofm + i
        out(i) == Op(s.mem[c.lhs + i], s.mem[c.rhs + i])
    IN  Rows(c.length, at, out)

Added(a, b, bias)      == <<"add", a, b, bias>>
Combined(params, a, b) == <<"combined", params, a, b>>
Looked(table, a)       == <<"lut", table, a>>

Table(c, s) == IF c.reuse THEN s.lut ELSE IF c.region = "constants" THEN Bins(c.lut) ELSE s.mem[c.lut]

Lut(c, s) ==
    LET at(i)  == c.ofm + i
        out(i) == Looked(Table(c, s), s.mem[c.ifm + i])
    IN  Rows(c.length, at, out)

\* Mean of each group over the picture: by a reciprocal, or with its own scale.
Averaged(how, cells) == <<"mean", how, cells>>
Avgpool(c, s) ==
    LET at(g)  == c.ofm + g
        out(g) == Averaged(IF c.requant THEN <<c.params, c.offset>> ELSE <<"reciprocal", c.spatial>>,
                           [i \in 1 .. c.spatial |-> s.mem[c.ifm + g * c.spatial + i - 1]])
    IN  Rows(c.groups, at, out)

\* Four sides, each in tiles of 32 locations; a tile of bins is a cell.  Layout 1 interleaves two
\* sides in rows of 32 lanes.
DflSource(c, side, t) ==
    IF c.layout = 1 THEN c.source + (side \div 2) * 2 * c.tiles + 2 * t + (side % 2)
    ELSE c.source + side * c.tiles + t
Distance(tables, bins) == <<"distance", tables, bins>>
Dfl(c, s) ==
    LET at(x)  == c.destination + x
        out(x) == Distance(<<Bins(c.tables), Bins(c.tables + 1)>>,
                           s.mem[DflSource(c, x \div c.tiles, x % c.tiles)])
    IN  Rows(4 * c.tiles, at, out) @@ Unspecified({c.scratch, c.scratch + 1})

Upsample(c, s) ==
    LET wide == 2 * c.input_w
        n == c.input_h * c.input_w
        at(x)  == c.ofm + x
        out(x) == LET p == x % (4 * n) IN
                  s.mem[c.ifm + (x \div (4 * n)) * n + ((p \div wide) \div 2) * c.input_w + (p % wide) \div 2]
    IN  Rows(4 * n * c.groups, at, out)

----
(* The cells a command reads.                                              *)

Block(base, n) == base .. base + n - 1
Picture(base, g) == Block(base, g.input_h * g.input_w)
PsumCells(j) == {RowAt(j.psum, r, j.psum_stride, j.cols, 4) + q : r \in 0 .. j.rows - 1, q \in 0 .. 3}

PackedPicture(c) ==
    LET groups == IF Blocked(c) THEN c.input_c \div Lanes ELSE 1
    IN  c.input \div Lanes .. (c.input + groups * c.input_h * RowStride(c) - 1) \div Lanes

Reads(c) ==
    CASE c.type \in {"gemm32", "gemm32_accum", "gemm32_requant"} ->
            Block(c.ifm, c.m) \cup
            IF c.psum = None THEN {}
            ELSE {c.psum[2] + r * OrDefault(c.psum_stride, 4) + q : r \in 0 .. c.m - 1, q \in 0 .. 3}
      [] c.type = "pointwise_c32" ->
            {c.ifm + g * c.input_stride + r : g \in 0 .. c.groups - 1, r \in 0 .. c.rows - 1}
      [] c.type = "pointwise_call" -> Block(c.ifm, c.groups * c.rows)
      [] c.type = "depthwise_c32" -> Picture(c.ifm, c)
      [] c.type = "maxpool" -> Block(c.ifm, c.input_h * c.input_w * c.groups)
      [] c.type \in {"linebuf_job", "linebuf_submit"} ->
            Picture(c.input, c) \cup (IF c.accum_en \in {2, 3} THEN PsumCells(c) ELSE {})
            \cup IF c.binary = None THEN {}
                 ELSE {RowAt(c.binary[2].rhs, r, c.binary[2].stride, c.binary[2].cols, 1) : r \in 0 .. c.rows - 1}
      [] c.type = "linebuf_call" -> Picture(c.input, c) \cup (IF c.accum THEN PsumCells(c) ELSE {})
      [] c.type \in {"afu_binary", "spatz_add", "afu_binary_quant"} ->
            Block(c.lhs, c.length) \cup Block(c.rhs, c.length)
      [] c.type = "afu_lut" ->
            Block(c.ifm, c.length) \cup IF c.region = "scratch" /\ ~c.reuse THEN {c.lut} ELSE {}
      [] c.type = "afu_global_avgpool" -> Block(c.ifm, c.spatial * c.groups)
      [] c.type = "afu_dfl16" -> Block(c.source, 4 * c.tiles)
      [] c.type = "upsample_nearest" -> Block(c.ifm, c.input_h * c.input_w * c.groups)
      [] c.type \in Convs ->
            PackedPicture(c)
            \cup (IF c.accumulate THEN Block(IF c.psum = 0 THEN c.ofm ELSE c.psum, 4 * c.output_h * c.output_w) ELSE {})
      [] OTHER -> {}

----
Writes(c, s) ==
    CASE c.type \in {"gemm32", "gemm32_accum", "gemm32_requant"} -> Gemm(c, s)
      [] c.type = "pointwise_c32" -> PointwiseC32(c, s, c.input_stride, StripeRows, c.block)
      [] c.type = "pointwise_call" -> PointwiseC32(c, s, c.rows, c.rows, s.block)
      [] c.type = "depthwise_c32" -> Depthwise(c, s)
      [] c.type = "maxpool" -> Maxpool(c, s)
      [] c.type \in {"linebuf_job", "linebuf_submit"} -> Linebuf(c, s)
      [] c.type = "linebuf_call" -> LinebufCall(c, s)
      [] c.type = "afu_binary" -> LET op(a, b) == Added(a, b, c.bias) IN Pairwise(c, s, op)
      [] c.type = "spatz_add"  -> LET op(a, b) == Combined(c.params, a, b) IN Pairwise(c, s, op)
      [] c.type = "afu_binary_quant" ->
            LET op(a, b) == Combined(c.params, IF c.chain THEN Looked(s.lut, a) ELSE a, b) IN Pairwise(c, s, op)
      [] c.type = "afu_lut" -> Lut(c, s)
      [] c.type = "afu_global_avgpool" -> Avgpool(c, s)
      [] c.type = "afu_dfl16" -> Dfl(c, s)
      [] c.type = "upsample_nearest" -> Upsample(c, s)
      [] c.type \in Convs -> PackedConvolution(c, s)
      [] OTHER -> <<>>

\* s after c.  Tables other than that of a lookup go through the banks of the AFU and drive it out.
Meaning(c, s) ==
    [mem   |-> Writes(c, s) @@ s.mem,
     block |-> IF c.type = "rq_load" THEN c.block ELSE s.block,
     lut   |-> IF c.type = "afu_lut" THEN Table(c, s)
               ELSE IF c.type = "afu_dfl16" \/ (c.type = "afu_global_avgpool" /\ ~c.requant) THEN None
               ELSE s.lut]

====
