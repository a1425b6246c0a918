---- MODULE HalCalls ----
(***************************************************************************)
(* What the core does to the engines, step by step: the calls of the HAL   *)
(* (sw/lib/hal_systolic.c, hal_afu.h) as sequences of register writes,     *)
(* starts and waits.  EngineOps runs such sequences beside the engines.    *)
(*                                                                         *)
(* The line buffer addresses bytes, Lanes of them in a cell; all else      *)
(* addresses cells.                                                        *)
(***************************************************************************)
EXTENDS CommandMeaning

CONSTANTS TileM,        \* rows of a job that accumulates nothing: 1024
          AccumTileM    \* rows of a job that adds to partial sums: 256

ASSUME RowsAssumption == TileM \in Nat \ {0} /\ AccumTileM \in Nat \ {0}

----
Set(r)     == <<[op |-> "set", r |-> r]>>
Start      == <<[op |-> "start"]>>
Wait       == <<[op |-> "wait"]>>
AfuSet(r)  == <<[op |-> "afu_set", r |-> r]>>
Load(what) == <<[op |-> "lut", what |-> what]>>
Run        == <<[op |-> "go"], [op |-> "poll"]>>
Stage(content)       == <<[op |-> "stage", content |-> content]>>
InSlot(n, what)      == [s \in {n} |-> what]
Vector(kernel, args) == <<[op |-> "vector", kernel |-> kernel, args |-> args]>>
Check(block)         == <<[op |-> "check", block |-> block]>>
Rejected             == <<[op |-> "reject"]>>

\* The registers of two records, the first before the second.
r ++ s == [x \in DOMAIN r \cup DOMAIN s |-> IF x \in DOMAIN r THEN r[x] ELSE s[x]]

\* systolic_gemm32_preload
Preload(w, i, psum, o, m, accum, ostride, cols, pstride) ==
    [w |-> w, i |-> i, psum |-> psum, o |-> o, m |-> m, accum |-> accum,
     ostride |-> ostride, cols |-> cols, pstride |-> pstride]
Requant(on) == [rq |-> on]
Linebuffer(lb) == [lb |-> lb]
LinebufOff == [mode |-> "off"]
BinaryOff == [on |-> FALSE, rhs |-> 0, stride |-> 0, cols |-> 0, params |-> None]
Slot(n) == <<"slot", n>>
Local(w) == <<"tcdm", w>>

\* Faulty variant: does not wait for the tile.
TileEx_NoWait(req) == Set(req) \o Start \o Set([accum |-> FALSE])

TileEx(req) == Set(req) \o Start \o Wait \o Set([accum |-> FALSE])

\* The registers of a tile are written while the tile before it runs.
RunShadowTiled(w, i, psum, o, m, accum, requant, tile) ==
    LET rows(t) == LET rest == m - t * tile IN IF rest < tile THEN rest ELSE tile
        req(t)  == Preload(w, i + t * tile, IF psum = 0 THEN 0 ELSE psum + t * tile * 4,
                           o + t * tile * (IF requant THEN 1 ELSE 4), rows(t), accum, 0, 0, 0)
        others  == [t \in 1 .. (m - 1) \div tile |-> Set(req(t)) \o Wait \o Start]
    IN  IF m = 0 THEN <<>>
        ELSE Set(Requant(requant) ++ Linebuffer(LinebufOff) ++ req(0)) \o Start
             \o FlattenSeq(others) \o Wait \o Set([accum |-> FALSE])

Gemm32(w, i, o, m)                     == RunShadowTiled(w, i, 0, o, m, FALSE, FALSE, TileM)
Gemm32Requant(w, i, o, m)              == RunShadowTiled(w, i, 0, o, m, FALSE, TRUE, TileM)
Accumulate(w, i, psum, o, m)           == RunShadowTiled(w, i, psum, o, m, TRUE, FALSE, AccumTileM)
AccumulateRequant(w, i, psum, o, m)    == RunShadowTiled(w, i, psum, o, m, TRUE, TRUE, AccumTileM)

\* One input group after the other adds to the partial sums; the last one quantizes.
GroupProgram(w, ifm, psum, ofm, rows, g, groups) ==
    CASE groups = 1                  -> Gemm32Requant(w, ifm, ofm, rows)
      [] groups > 1 /\ g = 0         -> Gemm32(w, ifm, psum, rows)
      [] groups > 1 /\ g = groups - 1 -> AccumulateRequant(w, ifm, psum, ofm, rows)
      [] OTHER                       -> Accumulate(w, ifm, psum, psum, rows)

CommandStrided(w, i, psum, o, m, accum, requant, ostride, pstride) ==
    Set(Requant(requant) ++ Linebuffer(LinebufOff))
    \o TileEx(Preload(w, i, psum, o, m, accum, ostride, IF ostride # 0 THEN 1 ELSE 0, pstride))

\* systolic_linebuf_config for pixels that are cells; channels of each are used.
Window(mode, base, g, channels, k_tiles) ==
    [mode |-> mode, base |-> (base - g.pad_h * g.input_w) * Lanes, input_h |-> g.input_h, input_w |-> g.input_w,
     output_w |-> g.output_w, stride_h |-> g.stride_h, stride_w |-> g.stride_w, pad_h |-> g.pad_h,
     pad_w |-> g.pad_w, kernel_h |-> g.kernel_h, kernel_w |-> g.kernel_w, row_stride |-> g.input_w * Lanes,
     oh_step |-> g.stride_h * g.input_w * Lanes, pixel_stride |-> Lanes, channels |-> channels, lane_base |-> 0,
     stationary |-> k_tiles > 1, groups |-> 1, span |-> 0, k_tiles |-> k_tiles]

\* A job of the line buffer: the systolic_gemm32_linebuf* family.
LinebufGemm(w, psum, o, m, accum, requant, ostride, cols, pstride) ==
    Set(Requant(requant)) \o TileEx(Preload(Local(w), 0, psum, o, m, accum, ostride, cols, pstride))
    \o Set(Linebuffer(LinebufOff))

====
