---- MODULE MCEngineOps ----
(* 64 cells of two lanes: inputs at 0, a second operand at 15, partial sums at 20, outputs at 36, scratch at 58. *)
EXTENDS EngineOps

G(weights, ifm, psum, ofm, m, ofm_stride, psum_stride) ==
    [weights |-> weights, ifm |-> ifm, psum |-> psum, ofm |-> ofm, m |-> m,
     ofm_stride |-> ofm_stride, psum_stride |-> psum_stride, block |-> <<"b1">>]
At(p) == <<"at", p>>
Raw     == [type |-> "gemm32"] @@ G(1, 0, None, 20, 2, 0, 0)
RawWide == [type |-> "gemm32"] @@ G(1, 0, None, 20, 2, 5, 0)
Accum   == {[type |-> "gemm32_accum"] @@ G(2, 2, At(20), 20, 2, 0, 0),
            [type |-> "gemm32_accum"] @@ G(2, 2, At(20), 36, 2, 6, 5)}
Quant   == {[type |-> "gemm32_requant"] @@ G(3, 4, None, 36, 2, 0, 0),
            [type |-> "gemm32_requant"] @@ G(3, 4, At(20), 37, 2, 3, 5)}

P(rows, groups) == [type |-> "pointwise_c32", weights |-> 4, ifm |-> 0, psum |-> At(20), ofm |-> 36, rows |-> rows,
                    groups |-> groups, output_groups |-> 1, input_stride |-> 3, block |-> <<"b1">>]
Pointwises == {P(3, 1), P(3, 3), P(3, 5), [P(3, 5) EXCEPT !.weights = 9, !.ofm = 39, !.block = <<"b2">>]}
PointwiseAll == [P(4, 2) EXCEPT !.type = "pointwise_call", !.output_groups = 2]

Square == [input_h |-> 2, input_w |-> 2]
Depth == [type |-> "depthwise_c32", weights |-> 20, ifm |-> 0, ofm |-> 44, block |-> <<"b1">>, output_h |-> 2,
          output_w |-> 1, stride_h |-> 1, stride_w |-> 2, pad_h |-> 1, pad_w |-> 1, kernel_h |-> 3, kernel_w |-> 3]
         @@ Square
Pool == [type |-> "maxpool", ifm |-> 0, ofm |-> 46, groups |-> 2] @@ Square

Wide3  == [input_h |-> 3, input_w |-> 2, output_w |-> 2, stride_h |-> 1, stride_w |-> 1, pad_h |-> 1, pad_w |-> 0,
           kernel_h |-> 3, kernel_w |-> 1]
Narrow == [Wide3 EXCEPT !.output_w = 1, !.kernel_w = 2]
Short  == [Wide3 EXCEPT !.kernel_h = 2]
Channels(k_tiles) == IF k_tiles > 1 THEN Lanes ELSE 1
J(accum_en, k_tiles, g, rows, psum_stride, ofm_stride, binary) ==
    g @@ [type |-> "linebuf_job", input |-> 4, weights |-> 30, k_tiles |-> k_tiles, channels |-> Channels(k_tiles), rows |-> rows,
          accum_en |-> accum_en, psum |-> 20, ofm |-> 48, ofm_stride |-> ofm_stride, cols |-> g.output_w,
          psum_stride |-> psum_stride, binary |-> binary]
Rhs(cols) == <<"with", [rhs |-> 15, stride |-> 3, cols |-> cols, params |-> "p1"]>>
Jobs == {J(1, 6, Narrow, 2, 5, 3, None), [J(3, 6, Narrow, 2, 5, 3, None) EXCEPT !.weights = 36],
         J(1, 1, Short, 2, 8, 0, Rhs(2)), J(0, 3, Wide3, 3, 9, 3, Rhs(2)), J(0, 1, Short, 3, 0, 3, None)}
Finals == {[J(2, 6, Narrow, 2, 5, 3, Rhs(1)) EXCEPT !.weights = 42],
           [J(2, 1, Short, 2, 8, 3, Rhs(2)) EXCEPT !.weights = 42]}
Submits == {[J(1, 6, Narrow, 2, 5, 3, None) EXCEPT !.type = "linebuf_submit"],
            [J(0, 3, Wide3, 3, 9, 3, Rhs(2)) EXCEPT !.type = "linebuf_submit"]}
Outside == [J(0, 1, Short, 2, 0, 0, None) EXCEPT !.input = Cells]
Call(accum, requant, g, rows, ofm, ofm_stride, psum_stride) ==
    g @@ [type |-> "linebuf_call", input |-> 4, weights |-> 42, channels |-> Lanes,
          k_tiles |-> g.kernel_h * g.kernel_w, rows |-> rows, accum |-> accum,
          requant |-> requant, psum |-> 20, ofm |-> ofm, ofm_stride |-> ofm_stride, cols |-> g.output_w,
          psum_stride |-> psum_stride]
Calls == {Call(FALSE, FALSE, Wide3, 3, 20, 9, 9), Call(TRUE, TRUE, Narrow, 2, 48, 3, 5),
          Call(FALSE, TRUE, Wide3, 2, 48, 0, 0)}

Load1 == [type |-> "rq_load", block |-> <<"b1">>, sound |-> TRUE]
Loads == {Load1, [Load1 EXCEPT !.block = <<"b2">>], [Load1 EXCEPT !.sound = FALSE]}
Simple == {[type |-> "systolic_wait"], [type |-> "barrier"]}

Pair(type) == [type |-> type, lhs |-> 0, rhs |-> 15, ofm |-> 54, length |-> 2]
Adds == {Pair("afu_binary") @@ [bias |-> 0], [Pair("afu_binary") EXCEPT !.ofm = 56] @@ [bias |-> 7],
         Pair("spatz_add") @@ [params |-> "p2"]}
Combine(chain) == Pair("afu_binary_quant") @@ [params |-> "p3", chain |-> chain]
Table1 == [type |-> "afu_lut", ifm |-> 10, ofm |-> 55, length |-> 2, region |-> "constants", lut |-> 50, reuse |-> FALSE]
Table2 == [Table1 EXCEPT !.region = "scratch", !.lut = 12]
Reuse  == [Table1 EXCEPT !.reuse = TRUE, !.ofm = 57]
Mean(requant) == [type |-> "afu_global_avgpool", ifm |-> 0, ofm |-> 54, spatial |-> 2, groups |-> 2,
                  requant |-> requant, params |-> "p4", offset |-> 3]
Distances(layout) == [type |-> "afu_dfl16", source |-> 0, destination |-> 40, scratch |-> 58, tiles |-> 2,
                      layout |-> layout, tables |-> 60]
Bigger == [type |-> "upsample_nearest", ifm |-> 8, ofm |-> 40, groups |-> 2, input_h |-> 1, input_w |-> 2]

\* Packed convolutions, their inputs at lane 0 of the TCDM or of the memory behind it.
K(type, input_c, input_h, input_w, kernel_h, kernel_w, output_h, output_w, ofm) ==
    [type |-> type, input |-> 0, weights |-> 70, im2col |-> 58, ofm |-> ofm, psum |-> 0, input_h |-> input_h,
     input_w |-> input_w, input_c |-> input_c, output_h |-> output_h, output_w |-> output_w,
     kernel_h |-> kernel_h, kernel_w |-> kernel_w, stride_h |-> 1, stride_w |-> 1, pad_h |-> 0, pad_w |-> 0,
     dilation |-> 1, c_stride |-> 0, row_stride |-> 0, c_base |-> 0, accumulate |-> FALSE, tiles |-> <<>>]
Far == Cells * Lanes
Tile4(oh, ow, th, tw) == [oh |-> oh, ow |-> ow, th |-> th, tw |-> tw]
Boxes    == [K("conv_oc32", 3, 2, 2, 1, 2, 2, 2, 20) EXCEPT !.input = Far + 1, !.pad_w = 1]
Pixels   == [K("conv_oc32", 3, 2, 1, 1, 1, 2, 1, 20) EXCEPT !.input = Far, !.c_stride = 5, !.c_base = 2, !.accumulate = TRUE]
Many     == [K("conv_oc32_requant", 1, 3, 3, 2, 3, 2, 1, 36) EXCEPT !.input = 3, !.stride_h = 2, !.pad_h = 1]
Few      == [K("conv_oc32_requant", 3, 3, 2, 1, 1, 2, 1, 36) EXCEPT !.stride_h = 2, !.stride_w = 2]
Coalesced == [K("conv_linebuf", 1, 2, 2, 1, 2, 1, 3, 20) EXCEPT !.input = 5, !.pad_w = 1]
Taps3    == [K("conv_oc32", 3, 2, 4, 2, 1, 1, 4, 20) EXCEPT !.c_stride = 3, !.pad_h = 1, !.stride_h = 2, !.pad_w = 0]
OneJob   == [K("conv_linebuf", 2, 2, 2, 2, 1, 1, 2, 20) EXCEPT !.accumulate = TRUE, !.row_stride = 6]
InStripes == [K("conv_linebuf", 2, 2, 2, 3, 2, 2, 2, 20) EXCEPT !.pad_h = 1, !.pad_w = 1]
Striped  == [K("conv_linebuf_requant", 1, 2, 2, 2, 1, 2, 2, 36) EXCEPT !.pad_h = 1]
Tiled    == [K("conv_tiles", 2, 2, 2, 2, 2, 2, 2, 20) EXCEPT !.pad_h = 1, !.pad_w = 1,
                !.tiles = <<Tile4(0, 0, 2, 1), Tile4(0, 1, 2, 1)>>]
TiledRequant == [K("conv_tiles_requant", 4, 2, 2, 2, 1, 2, 2, 36) EXCEPT !.pad_h = 1, !.c_stride = 2, !.psum = 20,
                !.tiles = <<Tile4(0, 0, 1, 0), Tile4(1, 0, 1, 1), Tile4(1, 1, 1, 1)>>]
LastTile == [K("conv_tile_accum_requant", 4, 2, 2, 2, 1, 2, 2, 44) EXCEPT !.pad_h = 1, !.c_stride = 2, !.psum = 20,
                !.weights = 80, !.accumulate = TRUE, !.tiles = <<Tile4(0, 1, 2, 1)>>]
Wrong    == {[Boxes EXCEPT !.dilation = 2], [Tiled EXCEPT !.tiles[2].th = 3]}
MCConvs == {Boxes, Pixels, Many, Few, Coalesced, Taps3, OneJob, InStripes, Striped, Tiled, TiledRequant, LastTile} \cup Wrong

MCCommands == {Raw, RawWide, PointwiseAll, Depth, Pool, Outside, Bigger, Table1, Table2, Reuse,
               Combine(FALSE), Combine(TRUE), Mean(FALSE), Mean(TRUE), Distances(0), Distances(1)}
              \cup Accum \cup Quant \cup Pointwises \cup Jobs \cup Submits \cup Finals \cup Calls \cup Loads \cup Simple \cup Adds
              \cup MCConvs
MCClosing == {Reuse, Combine(TRUE), [type |-> "systolic_wait"], [type |-> "barrier"]} \cup Finals \cup Loads

\* Partial sums with gaps, an output without.
MCPsumOnly == {RawWide, [type |-> "gemm32_accum"] @@ G(2, 2, At(20), 36, 2, 0, 5)}
====
