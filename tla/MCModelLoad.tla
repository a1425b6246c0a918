---- MODULE MCModelLoad ----
(* A 64 KiB address space: scratch at 4 KiB, the model behind it, bindings at its end. *)
EXTENDS CommandChecks

ScratchBytes == 49152
ModelBase == 53248

----
(* Packages: five good ones and single faults in one of them. *)

S(type, offset, size, count) ==
    [type |-> type, offset |-> offset, size |-> size, alignment |-> 32, element_count |-> count, zero |-> TRUE]
Sections(bindings, n) ==
    <<S("commands", 256, 64, 2), S("constants", 320, 3072, 1), S("qparams", 3392, 1056, 33),
      S("bindings", 4448, 320, n), S("tensors", 4768, 32, 0), S("debug_map", 4800, 32, 0)>>

B(direction, index, layout, type, dims, size) ==
    [direction |-> direction, index |-> index, layout |-> layout, data_type |-> type,
     rank |-> Len(dims), dimensions |-> dims, byte_size |-> size, zero |-> TRUE]
In0  == B("input", 0, "nhwc", "i8", <<1, 2, 2, 3>>, 12)
In1  == B("input", 1, "row32", "i32", <<8>>, 32)
Out0 == B("output", 0, "row32", "i8", <<64>>, 64)
Out1 == B("output", 1, "nhwc", "i8", <<1, 1, 1, 2>>, 2)
Temp == B("temporary", 0, "row32", "i8", <<2, 32>>, 64)

Header(sections, ins, outs) ==
    [magic |-> TRUE, version |-> TRUE, target |-> TRUE, zero |-> TRUE, total_bytes |-> 4832,
     section_count |-> sections, section_table_off |-> 64, entry_command_off |-> 288,
     tcdm_bytes |-> ScratchBytes, tcdm_align |-> 32, input_count |-> ins, output_count |-> outs]

File(bindings, ins, outs) ==
    [header |-> Header(6, ins, outs), sections |-> Sections(bindings, Len(bindings)), bindings |-> bindings]

InOrder   == File(<<In0, In1, Out0, Temp>>, 2, 1)
Unordered == File(<<Out0, In0>>, 1, 1)
TempFirst == File(<<Temp, In0, Out0>>, 1, 1)
TooMany   == File(<<In0, In1, Out0, Out1, Temp>>, 2, 2)
NoBinding == File(<<>>, 0, 0)

WithHeader(field, v) == [InOrder EXCEPT !.header[field] = v]
WithSection(i, field, v) == [InOrder EXCEPT !.sections[i][field] = v]
WithBinding(i, b) == [InOrder EXCEPT !.bindings[i] = b]
Drop(i) == [InOrder EXCEPT !.sections = SubSeq(@, 1, i - 1) \o SubSeq(@, i + 1, Len(@)),
                           !.header.section_count = 5]

MCPackages ==
    {InOrder, Unordered, TempFirst, TooMany, NoBinding}
    \cup {WithHeader(f, FALSE) : f \in {"magic", "version", "target", "zero"}}
    \cup {WithHeader(x[1], x[2]) : x \in {<<"total_bytes", 32>>, <<"total_bytes", 4833>>, <<"total_bytes", 4864>>,
            <<"tcdm_bytes", ScratchBytes + 32>>, <<"tcdm_align", 64>>, <<"section_table_off", 65>>,
            <<"section_table_off", 4800>>, <<"entry_command_off", 224>>, <<"entry_command_off", 320>>,
            <<"entry_command_off", 290>>, <<"input_count", 3>>, <<"input_count", 1>>, <<"output_count", 2>>,
            <<"input_count", Words - 1>>}}
    \cup {WithSection(x[1], x[2], x[3]) : x \in {<<1, "zero", FALSE>>, <<1, "alignment", 16>>,
            <<2, "alignment", 96>>, <<2, "alignment", 128>>, <<3, "size", 1023>>, <<3, "size", 4096>>,
            <<6, "type", "commands">>, <<6, "type", "strange">>, <<4, "element_count", 3>>, <<4, "element_count", 1>>, <<4, "size", 192>>}}
    \cup {[WithSection(4, "element_count", 6) EXCEPT !.bindings = @ \o <<Out1, Out1>>]}
    \cup {Drop(i) : i \in 1 .. 6}
    \cup {[InOrder EXCEPT !.header.section_count = 7,
                          !.sections = Append(@, S("constants", 320, 64, 1))],
          [InOrder EXCEPT !.header.section_count = 0, !.sections = <<>>]}
    \cup {WithBinding(i, b) : i \in 1 .. 4, b \in {In0, Out0, Temp}}
    \cup {WithBinding(2, [In1 EXCEPT ![x[1]] = x[2]]) : x \in {<<"index", 2>>, <<"rank", 0>>, <<"rank", 5>>,
            <<"zero", FALSE>>, <<"data_type", "i16">>, <<"byte_size", 31>>, <<"direction", "unknown">>,
            <<"dimensions", <<0>> >>, <<"dimensions", <<Words - 1>> >>}}
    \cup {WithBinding(1, [In0 EXCEPT !.layout = "c32"]),
          WithBinding(1, [In0 EXCEPT !.dimensions = <<256, 256, 1, 1>>])}

----
(* Invocations. *)

A(direction, index, base, size) ==
    [direction |-> direction, index |-> index, base |-> base, byte_size |-> size, flags |-> FALSE]
I0 == A("input", 0, 60001, 12)
I1 == A("input", 1, 60032, 64)
O0 == A("output", 0, 60160, 64)
O1 == A("output", 1, 60300, 2)
T0 == A("temporary", 0, 60416, 128)

Invocation(t) == [known |-> TRUE, zero |-> TRUE, model_base |-> ModelBase, model_bytes |-> 4832,
                  table_base |-> 65280, table |-> t]
Plain == Invocation(<<I0, I1, O0, T0>>)
With(i, field, v) == Invocation([Plain.table EXCEPT ![i][field] = v])

MCInvocations ==
    {Plain, Invocation(<<T0, O0, I1, I0>>), Invocation(<<I1, T0, I0, O0>>),
     Invocation(<<I0, O0>>), Invocation(<<O0, I0>>), Invocation(<<O0, I0, T0>>), Invocation(<<I0, I1, O0, O1, T0>>),
     Invocation(<<>>), Invocation(<<I0, I1, O0, O1>>), Invocation(<<I0, I1, O0, I0>>),
     Invocation(<<I0, I1, O0, T0, O1, I1>>),
     With(1, "byte_size", 11), With(2, "base", 60033), With(2, "flags", TRUE), With(3, "byte_size", 0),
     With(4, "direction", "unknown"), With(4, "base", Words - 96),
     [Plain EXCEPT !.known = FALSE], [Plain EXCEPT !.zero = FALSE], [Plain EXCEPT !.model_base = 53249],
     [Plain EXCEPT !.model_base = 61440], [Plain EXCEPT !.model_bytes = 32], [Plain EXCEPT !.model_bytes = 4864],
     [Plain EXCEPT !.table_base = 65504]}

----
(* Commands: for every type a good one, its limits and single faults. *)

Ref(region, index, offset) == [region |-> region, index |-> index, offset |-> offset]
X(offset) == Ref("scratch", 0, offset)
K(offset) == Ref("constants", 0, offset)
NoRef == Ref("none", 0, 0)
End == ScratchBytes

Dma(source, target, length, ss, ds, reps, direction) ==
    [type |-> "dma", source |-> source, destination |-> target, length |-> length, source_strides |-> ss,
     destination_strides |-> ds, repetitions |-> reps, direction |-> direction, zero |-> TRUE]

Externals == {Ref("input", 0, 0), Ref("input", 1, 32), Ref("output", 0, 0), Ref("temporary", 0, 64),
              Ref("temporary", 1, 0), K(3060), Ref("constants", 1, 0), Ref("commands", 0, 60), Ref("input", 2, 0)}
Dmas ==
    {Dma(e, X(End - 12), n, <<>>, <<>>, <<>>, d) : e \in Externals, n \in {12, 13}, d \in {"in", "out"}}
    \cup {Dma(X(0), e, 12, <<>>, <<>>, <<>>, "out") : e \in Externals}
    \cup {Dma(X(0), X(End - 8), 8, <<>>, <<>>, <<>>, d) : d \in {"in", "local"}}
    \cup {Dma(K(0), Ref("output", 0, 0), 8, <<>>, <<>>, <<>>, "in"),
          Dma(Ref("runtime", 0, 0), X(0), 8, <<>>, <<>>, <<>>, "local"),
          Dma(NoRef, X(0), 8, <<>>, <<>>, <<>>, "in")}
    \cup {Dma(K(3072 - reach), X(End - reach), 8, <<s>>, <<d>>, <<n>>, "in") :
             s \in {0, 16}, d \in {0, 24}, n \in {0, 1, 3}, reach \in {8, 40, 56}}
    \cup {Dma(K(3072 - reach), X(End - reach), 8, <<8, s>>, <<d, 32>>, <<2, n>>, "in") :
             s \in {16, 4096}, d \in {8, 16}, n \in {1, 2}, reach \in {24, 48, 56}}

Gemm(type, m, os, ps, psum, ofm) ==
    [type |-> type, dim_m |-> m, ofm_stride |-> os, psum_stride |-> ps, psum |-> psum, weights |-> K(0),
     ifm |-> X(0), ofm |-> ofm, zero |-> TRUE]
Gemms ==
    {Gemm(t, m, os, ps, psum, X(ofm)) :
        t \in {"gemm32", "gemm32_accum", "gemm32_requant"}, m \in {0, 2}, os \in {0, 160}, ps \in {0, 256},
        psum \in {NoRef, X(End - 256)}, ofm \in {8192, End - 256, End - 64}}
    \cup {Gemm("gemm32_requant", 2, x[1], x[2], x[3], X(8192)) : x \in {<<16, 0, NoRef>>, <<48, 0, NoRef>>, <<64, 96, X(0)>>,
             <<0, 0, Ref("none", 0, 32)>>}}
    \cup {Gemm("gemm32", m, 0, 0, NoRef, X(8224)) : m \in {256, 257}}
    \cup {[Gemm("gemm32", 1, 0, 0, NoRef, X(128)) EXCEPT !.weights = w] : w \in {K(2048), K(2080), K(16), X(1024)}}

Pointwise(rows, groups, stride, psum, ifm) ==
    [type |-> "pointwise_c32", rows |-> rows, groups |-> groups, output_groups |-> 1, input_stride |-> stride,
     output_stride |-> rows * 32, weights |-> K(0), ifm |-> ifm, ofm |-> X(0), psum |-> psum, zero |-> TRUE]
Pointwises ==
    {Pointwise(2, g, st, psum, X(ifm)) : g \in {1, 2, 3, 4}, st \in {32, 64, 96},
        psum \in {NoRef, X(End - 256), X(End - 128)}, ifm \in {256, End - 128}}
    \cup {Pointwise(257, 2, 8224, X(End - 32768 - o), X(0)) : o \in {0, 32}}
    \cup {Pointwise(257, 2, 8224, X(End - 32736), X(0))}

Depthwise(ih, iw, oh, ow, st, ph, pw) ==
    [type |-> "depthwise_c32", input_h |-> ih, input_w |-> iw, output_h |-> oh, output_w |-> ow, channels |-> 32,
     stride_h |-> st, stride_w |-> st, pad_h |-> ph, pad_w |-> pw, weights |-> K(0),
     ifm |-> X(End - ih * iw * 32), ofm |-> X(0), zero |-> TRUE]
Depthwises ==
    {Depthwise(ih, iw, oh, ow, st, ph, pw) :
        ih \in {3, 4}, iw \in {4, 5}, oh \in {1, 2}, ow \in {2, 3}, st \in {1, 2}, ph \in {0, 1}, pw \in {0, 1}}
    \cup {Depthwise(2, 1, 2, 1, 1, 1, 1), Depthwise(3, 5, 3, 5, 1, 1, 1), Depthwise(1, 1, 0, 0, 1, 0, 0)}
    \cup {[Depthwise(3, 3, 3, 3, 1, 1, 1) EXCEPT ![x[1]] = x[2]] : x \in {<<"channels", 33>>, <<"ofm", X(End - 256)>>,
             <<"weights", K(2816)>>, <<"stride_h", 3>>, <<"ifm", Ref("temporary", 0, 0)>>}}

Binary(type, lhs, rhs, ofm, n) ==
    [type |-> type, lhs |-> X(lhs), rhs |-> X(rhs), ofm |-> X(ofm), length |-> n, valid |-> TRUE]
Binaries ==
    {Binary(t, l, r, o, n) : t \in {"afu_binary", "spatz_add", "afu_binary_quant"}, l \in {0, 32}, r \in {0, 64},
        o \in {32, 96, End - 64}, n \in {0, 32, 33, 65}}
    \cup {[Binary("spatz_add", 0, 64, 128, 32) EXCEPT !.valid = FALSE]}

Lut(ifm, ofm, lut, n) == [type |-> "afu_lut", ifm |-> X(ifm), ofm |-> X(ofm), lut |-> lut, length |-> n, zero |-> TRUE]
Luts == {Lut(i, o, l, n) : i \in {0, 64}, o \in {0, 32, 64}, l \in {K(2816), K(2817), X(1), Ref("input", 0, 0)}, n \in {64, 65}}

Dfl(layout, n, s, d, x) ==
    [type |-> "afu_dfl16", source_layout |-> layout, locations |-> n, source |-> X(s), destination |-> X(d),
     scratch |-> X(x), exp_lut |-> K(1024), recip_lut |-> K(2048), valid |-> TRUE]
Dfls == {Dfl(l, n, s, d, x) : l \in {0, 1}, n \in {2, 33}, s \in {0, 1088}, d \in {0, 128, 2176, 5920},
                              x \in {0, 4768, 6048}}
        \cup {[Dfl(0, 1, 0, 2048, 4096) EXCEPT ![y[1]] = y[2]] :
                y \in {<<"recip_lut", K(2052)>>, <<"exp_lut", K(1028)>>, <<"scratch", X(End - 1056)>>}}

Pool(type, h, w, ch, ifm, ofm) ==
    [type |-> type, input_h |-> h, input_w |-> w, channels |-> ch, ifm |-> X(ifm), ofm |-> X(ofm),
     scale_h |-> 2, scale_w |-> 2, valid |-> TRUE, zero |-> TRUE]
Pools == {Pool(t, h, w, ch, i, o) : t \in {"afu_global_avgpool", "upsample_nearest", "maxpool"}, h \in {1, 2}, w \in {3},
            ch \in {32, 33, 128}, i \in {0, 768}, o \in {32, 192, 384, 768, End - 192, End - 64}}

Copy(mode, type, dims, ss, ds, source, target) ==
    [type |-> "copy_layout", mode |-> mode, data_type |-> type, dims |-> dims, valid_channels |-> dims[4],
     source_stride |-> ss, destination_stride |-> ds, layouts |-> <<"c32", "nhwc">>,
     source |-> source, destination |-> target, zero |-> TRUE]
Copies ==
    {Copy(m, t, <<1, 1, 2, ch>>, 0, 0, s, d) :
        m \in {"nhwc_to_row32", "nhwc_to_c32", "row32_to_nhwc", "c32_to_nhwc", "strange"}, t \in {"i8", "i32"},
        ch \in {3, 33}, s \in {Ref("input", 0, 0), X(0), X(End - 128), X(End - 512)},
        d \in {X(End - 64), X(End - 128), Ref("output", 0, 0)}}
    \cup {Copy("nhwc_to_c32", t, <<1, 1, 2, ch>>, 0, 0, X(0), X(1024)) : t \in {"i16", "i32"}, ch \in {0, 1}}
    \cup {Copy("c32_to_chw", "i8", <<1, 10, 10, ch>>, ss, 100, X(0), X(d)) :
        ch \in {1, 33}, ss \in {3200, 3168}, d \in {0, 3168, 3200, 6400, End - 100}}

Job(rows, accum, ch, kt, coalesce, kgen, fast, pixel, schedule) ==
    [rows |-> rows, dim_m |-> rows, spatial_m |-> rows, accum_en |-> accum, input_c |-> ch, k_tiles |-> kt,
     linebuf_k_tiles |-> kt, kernel_h |-> 3, kernel_w |-> 3, stride_h |-> 1, stride_w |-> 1, pad_h |-> 1, pad_w |-> 1,
     coalesce |-> coalesce, kgen |-> kgen, c32_fast |-> fast, lane_base |-> 0, block_valid_bytes |-> 32,
     pixel_stride |-> pixel, psum_stride |-> 128, schedule |-> schedule]
Linebufs ==
    {[type |-> t, job |-> Job(rows, accum, ch, kt, 1, kgen, fast, 32, sch), sane |-> TRUE] :
        t \in {"linebuf_job", "linebuf_binary"}, rows \in {1024}, accum \in {0, 2}, ch \in {32, 64},
        kt \in {9, 18}, kgen \in {0, 1}, fast \in {0, 1},
        sch \in {"none", "c32_group_stationary", "generic_linear_k32"}}
    \cup {[type |-> t, job |-> Job(256, a, 1, 1, 1, 1, 0, 1, "none"), sane |-> z] :
        t \in {"linebuf_job", "linebuf_binary"}, a \in 0 .. 4, z \in BOOLEAN}

Others == {[type |-> "dma_wait", direction |-> d, zero |-> z] : d \in {"in", "out", "local"}, z \in BOOLEAN}
          \cup {[type |-> "systolic_wait", zero |-> z] : z \in BOOLEAN}
          \cup {[type |-> "rq_load", qparam_index |-> i, qparam_count |-> n, zero |-> TRUE] : i \in {0, 1, 2, 33}, n \in {31, 32}}

MCCommands == Dmas \cup Gemms \cup Pointwises \cup Depthwises \cup Binaries \cup Luts \cup Dfls \cup Pools
              \cup Copies \cup Linebufs \cup Others
====
