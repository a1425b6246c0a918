---- MODULE CommandChecksProofs ----
(***************************************************************************)
(* For every model, every table of addresses and every command: a build    *)
(* that trusts the compiler calls an operation with the addresses a build  *)
(* that checks would have resolved, on models whose binding section is in  *)
(* order.                                                                  *)
(***************************************************************************)
EXTENDS CommandChecks, ModelLoaderProofs

----
(* Loading and executing: the load is that of ModelLoader. *)

\* Executing a command leaves the load alone, so what is proved of the load holds here.
THEOREM ExecutionIsLoad == CSpec => Spec
  <1>1. CInit => Init
    BY DEF CInit
  <1>2. [CNext]_cvars => [Next]_vars
    BY DEF CNext, Load, Execute, cvars
  <1> QED  BY <1>1, <1>2, PTL DEF CSpec, Spec

LEMMA ReadyIsEnd == ASSUME stage = "ready" PROVE ~Next
  BY DEF Next, ReadInvocation, ReadHeader, ReadSections, ReadBindings, ReadTable, ValidateTable, SortSlot, Sorted

----
(* What a verdict depends on stays. *)

LEMMA PlanKept == ASSUME UNCHANGED vars, NEW c PROVE PlanOf(c)' = PlanOf(c)
  <1>1. package' = package
    BY DEF vars, inputs
  <1>2. RqLoadPlan(c)' = RqLoadPlan(c)
    BY <1>1 DEF RqLoadPlan
  <1> QED  BY <1>2 DEF PlanOf

LEMMA CheckedKept ==
    ASSUME UNCHANGED vars, NEW ref, NEW bytes, NEW alignment
    PROVE  ResolveChecked(ref, bytes, alignment)' = ResolveChecked(ref, bytes, alignment)
  <1>1. UNCHANGED <<package, invocation, table>>
    BY DEF vars, inputs
  <1>2. RegionOf(ref)' = RegionOf(ref)
    BY <1>1 DEF RegionOf, InModel, InTable
  <1> QED  BY <1>2 DEF ResolveChecked

LEMMA TrustedKept == ASSUME UNCHANGED vars, NEW ref PROVE ResolveTrusted(ref)' = ResolveTrusted(ref)
  BY DEF vars, inputs, ResolveTrusted, PositionOf

LEMMA AddressesKept ==
    ASSUME UNCHANGED vars, NEW c, NEW checked \in BOOLEAN
    PROVE  Addresses(c, checked)' = Addresses(c, checked)
  <1>1. PICK needs : needs = PlanOf(c).needs
    OBVIOUS
  <1>2. PlanOf(c)'.needs = needs
    BY <1>1, PlanKept
  <1>3. \A n : ResolveChecked(needs[n].ref, needs[n].bytes, needs[n].alignment)'
                = ResolveChecked(needs[n].ref, needs[n].bytes, needs[n].alignment)
    BY CheckedKept
  <1>4. \A n : ResolveTrusted(needs[n].ref)' = ResolveTrusted(needs[n].ref)
    BY TrustedKept
  <1>5. Addresses(c, checked) =
           [n \in DOMAIN needs |->
               IF checked THEN ResolveChecked(needs[n].ref, needs[n].bytes, needs[n].alignment)
               ELSE ResolveTrusted(needs[n].ref)]
    BY <1>1 DEF Addresses
  <1>6. Addresses(c, checked)' =
           [n \in DOMAIN needs |->
               IF checked THEN ResolveChecked(needs[n].ref, needs[n].bytes, needs[n].alignment)'
               ELSE ResolveTrusted(needs[n].ref)']
    BY <1>2 DEF Addresses, ResolveChecked, ResolveTrusted, RegionOf, InModel, InTable, PositionOf
  <1> QED  BY <1>3, <1>4, <1>5, <1>6

LEMMA VerdictKept ==
    ASSUME UNCHANGED vars, NEW c, NEW checked \in BOOLEAN
    PROVE  Verdict(c, checked)' = Verdict(c, checked)
  BY PlanKept, AddressesKept DEF Verdict

----
(* The outcome stands for the command it was computed from. *)

OutcomeInv ==
    outcome.status # "none" =>
        /\ stage = "ready" /\ outcome.command \in Commands
        /\ outcome.status = Verdict(outcome.command, ~trusted).status
        /\ outcome.at = Verdict(outcome.command, ~trusted).at

LEMMA InitOutcome == CInit => OutcomeInv
  BY DEF CInit, OutcomeInv, None

LEMMA NextOutcome == ASSUME OutcomeInv, LoadInv, [CNext]_cvars PROVE OutcomeInv'
  <1>0. trusted \in BOOLEAN
    BY DEF LoadInv, TypeOK
  <1>1. CASE Load
    <2>1. outcome' = outcome
      BY <1>1 DEF Load
    <2>2. outcome.status = "none"
      BY <1>1, ReadyIsEnd DEF Load, OutcomeInv
    <2> QED  BY <2>1, <2>2 DEF OutcomeInv
  <1>2. CASE Execute
    <2>1. PICK c \in Commands :
              outcome' = [status |-> Verdict(c, ~trusted).status, at |-> Verdict(c, ~trusted).at, command |-> c]
      BY <1>2 DEF Execute
    <2>2. UNCHANGED vars /\ stage = "ready" /\ stage' = stage /\ trusted' = trusted
      BY <1>2 DEF Execute, vars, inputs
    <2>3. Verdict(c, ~trusted)' = Verdict(c, ~trusted)
      BY <1>0, <2>2, VerdictKept
    <2> QED  BY <2>1, <2>2, <2>3 DEF OutcomeInv
  <1>3. CASE UNCHANGED cvars
    <2>1. UNCHANGED vars /\ outcome' = outcome /\ stage' = stage /\ trusted' = trusted
      BY <1>3 DEF cvars, vars, inputs
    <2>2. \A c : Verdict(c, ~trusted)' = Verdict(c, ~trusted)
      BY <1>0, <2>1, VerdictKept
    <2> QED  BY <2>1, <2>2 DEF OutcomeInv
  <1> QED  BY <1>1, <1>2, <1>3 DEF CNext

LEMMA OutcomeInvariance == CSpec => []OutcomeInv
  <1>1. OutcomeInv /\ LoadInv /\ [CNext]_cvars => OutcomeInv'
    BY NextOutcome
  <1> QED  BY InitOutcome, <1>1, LoadInvariance, ExecutionIsLoad, PTL DEF CSpec

----
(* The references of a plan are those of the record. *)

\* Each name of a plan is a field of the record, and stands for the reference in it.
Named(c, p) == \A n \in DOMAIN p.needs : n \in References(c.type) /\ p.needs[n].ref = c[n]

LEMMA DmaNamed == ASSUME NEW c, c.type \in {"dma"} PROVE Named(c, DmaPlan(c))
  BY DEF DmaPlan, Named, Plan, Need, References

LEMMA GemmNamed == ASSUME NEW c, c.type \in {"gemm32", "gemm32_accum", "gemm32_requant"} PROVE Named(c, GemmPlan(c))
  BY DEF GemmPlan, Named, Plan, Need, References

LEMMA PointwiseNamed == ASSUME NEW c, c.type \in {"pointwise_c32"} PROVE Named(c, PointwisePlan(c))
  BY DEF PointwisePlan, Named, Plan, Need, References

LEMMA DepthwiseNamed == ASSUME NEW c, c.type \in {"depthwise_c32"} PROVE Named(c, DepthwisePlan(c))
  BY DEF DepthwisePlan, Named, Plan, Need, References

LEMMA BinaryNamed == ASSUME NEW c, c.type \in {"afu_binary", "spatz_add", "afu_binary_quant"} PROVE Named(c, BinaryPlan(c))
  BY DEF BinaryPlan, Named, Plan, Need, References

LEMMA LutNamed == ASSUME NEW c, c.type \in {"afu_lut"} PROVE Named(c, LutPlan(c))
  BY DEF LutPlan, Named, Plan, Need, References

LEMMA DflNamed == ASSUME NEW c, c.type \in {"afu_dfl16"} PROVE Named(c, DflPlan(c))
  BY DEF DflPlan, Named, Plan, Need, References

LEMMA AvgpoolNamed == ASSUME NEW c, c.type \in {"afu_global_avgpool"} PROVE Named(c, AvgpoolPlan(c))
  BY DEF AvgpoolPlan, Named, Plan, Need, References

LEMMA UpsampleNamed == ASSUME NEW c, c.type \in {"upsample_nearest"} PROVE Named(c, UpsamplePlan(c))
  BY DEF UpsamplePlan, Named, Plan, Need, References

LEMMA MaxpoolNamed == ASSUME NEW c, c.type \in {"maxpool"} PROVE Named(c, MaxpoolPlan(c))
  BY DEF MaxpoolPlan, Named, Plan, Need, References

LEMMA CopyNamed == ASSUME NEW c, c.type \in {"copy_layout"} PROVE Named(c, CopyPlan(c))
  BY DEF CopyPlan, Named, Plan, Need, References

LEMMA OffsetsNatural ==
    ASSUME NEW c \in Commands, NEW n \in DOMAIN PlanOf(c).needs
    PROVE  PlanOf(c).needs[n].ref.offset \in Nat
  <1>1. /\ c.type \in CommandTypes
        /\ \A field \in References(c.type) : c[field].offset \in Nat
        /\ c.type = "rq_load" => c.qparam_index \in Nat
    BY CommandAssumption, LoaderAssumption DEF Word, Numbers
  <1>2. Named(c, PlanOf(c)) => PlanOf(c).needs[n].ref.offset \in Nat
    BY <1>1 DEF Named
  <1>3. CASE c.type \in {"dma_wait", "linebuf_job", "linebuf_binary", "systolic_wait"}
    <2>1. PlanOf(c).needs = <<>>
      <3>1. LinebufPlan(c).needs = <<>>
        BY DEF LinebufPlan, Plan
      <3>2. DmaWaitPlan(c).needs = <<>> /\ SystolicWaitPlan(c).needs = <<>>
        BY DEF DmaWaitPlan, SystolicWaitPlan, Plan
      <3>3. PlanOf(c) \in {LinebufPlan(c), DmaWaitPlan(c), SystolicWaitPlan(c)}
        BY <1>3 DEF PlanOf
      <3> QED  BY <3>1, <3>2, <3>3
    <2>2. n \in DOMAIN <<>>
      BY <2>1
    <2>3. DOMAIN <<>> = {}
      OBVIOUS
    <2> QED  BY <2>2, <2>3
  <1>4. CASE c.type = "rq_load"
    BY <1>1, <1>4 DEF PlanOf, RqLoadPlan, Plan, Need
  <1>5. CASE c.type \notin {"dma_wait", "linebuf_job", "linebuf_binary", "systolic_wait", "rq_load"}
    <2>1. Named(c, PlanOf(c))
      BY <1>1, <1>5, DmaNamed, GemmNamed, PointwiseNamed, DepthwiseNamed, BinaryNamed, LutNamed, DflNamed,
         AvgpoolNamed, UpsampleNamed, MaxpoolNamed, CopyNamed DEF PlanOf, CommandTypes
    <2> QED  BY <1>2, <2>1
  <1> QED  BY <1>3, <1>4, <1>5

----
(* The two builds call alike. *)

\* What passes the checks passes without them, at the same addresses.
LEMMA CalledAlike ==
    ASSUME LoadInv, stage = "ready", Ordered, NEW c \in Commands, Verdict(c, TRUE).status = "called"
    PROVE  Verdict(c, FALSE).status = "called" /\ Verdict(c, FALSE).at = Verdict(c, TRUE).at
  <1> DEFINE p == PlanOf(c)
             at == Addresses(c, TRUE)
  <1>1. /\ p.always /\ ~(\E n \in DOMAIN at : at[n] = NoAddress)
        /\ Verdict(c, TRUE).at = at
    BY DEF Verdict, Judgement, Result
  <1>2. \A n \in DOMAIN p.needs : at[n] # NoAddress
    BY <1>1 DEF Addresses
  <1>3. \A n \in DOMAIN p.needs : ResolveTrusted(p.needs[n].ref) = at[n]
    <2> SUFFICES ASSUME NEW n \in DOMAIN p.needs PROVE ResolveTrusted(p.needs[n].ref) = at[n]
      OBVIOUS
    <2>1. at[n] = ResolveChecked(p.needs[n].ref, p.needs[n].bytes, p.needs[n].alignment)
      BY DEF Addresses
    <2>2. p.needs[n].ref.offset \in Nat
      BY OffsetsNatural
    <2> HIDE DEF at, p
    <2> QED  BY <1>2, <2>1, <2>2, ResolversAgree
  <1>4. Addresses(c, FALSE) = at
    BY <1>3 DEF Addresses
  <1> QED  BY <1>1, <1>4 DEF Verdict, Judgement, Result

\* On every model whose binding section is in order, a build that skips the checks calls every
\* operation the checked build would have called, at the very same addresses.
THEOREM BuildsCallAlike == CSpec => []TrustedCallsAgree
  <1>1. LoadInv /\ OutcomeInv => TrustedCallsAgree
    <2> SUFFICES ASSUME LoadInv, OutcomeInv, outcome.status # "none", trusted, Ordered,
                        Verdict(outcome.command, TRUE).status = "called"
                 PROVE  outcome.status = "called" /\ outcome.at = Verdict(outcome.command, TRUE).at
      BY DEF TrustedCallsAgree
    <2>1. PICK c \in Commands : c = outcome.command
      BY DEF OutcomeInv
    <2>2. ~trusted = FALSE
      OBVIOUS
    <2>3. /\ outcome.status = Verdict(c, FALSE).status /\ outcome.at = Verdict(c, FALSE).at
          /\ stage = "ready" /\ Verdict(c, TRUE).status = "called"
      BY <2>1, <2>2 DEF OutcomeInv
    <2> QED  BY <2>1, <2>3, CalledAlike
  <1> QED  BY <1>1, LoadInvariance, OutcomeInvariance, ExecutionIsLoad, PTL

----
(* What an operation touches fits what its command asked for. *)

Covers(p, t) ==
    /\ t.name \in DOMAIN p.needs
    /\ t.offset \in Nat /\ t.bytes \in Nat /\ p.needs[t.name].bytes \in Nat
    /\ t.offset + t.bytes <= p.needs[t.name].bytes

CoversAll(p, f) == \A t \in f.reads \cup f.writes : Covers(p, t)

LEMMA PlanFields ==
    ASSUME NEW always, NEW guard, NEW needs, NEW apart
    PROVE  LET p == Plan(always, guard, needs, apart) IN p.needs = needs /\ p.apart = apart
  BY DEF Plan

LEMMA NeedBytes == ASSUME NEW ref, NEW bytes, NEW alignment PROVE Need(ref, bytes, alignment).bytes = bytes
  BY DEF Need

LEMMA PartsCovered ==
    ASSUME NEW p, NEW reads, NEW writes,
           \A t \in reads : Covers(p, t), \A t \in writes : Covers(p, t)
    PROVE  CoversAll(p, Footprint(reads, writes))
  BY DEF CoversAll, Footprint

LEMMA TouchCovered ==
    ASSUME NEW p, NEW name \in DOMAIN p.needs, NEW offset \in Nat, NEW bytes \in Nat,
           p.needs[name].bytes \in Nat, offset + bytes <= p.needs[name].bytes
    PROVE  Covers(p, Touch(name, offset, bytes))
  BY DEF Covers, Touch

LEMMA WholeCovered ==
    ASSUME NEW p, NEW name \in DOMAIN p.needs, NEW bytes \in Nat,
           p.needs[name].bytes \in Nat, bytes <= p.needs[name].bytes
    PROVE  \A t \in Whole(name, bytes) : Covers(p, t)
  BY TouchCovered DEF Whole

LEMMA TimesMonotone ==
    ASSUME NEW a \in Nat, NEW b \in Nat, NEW s \in Nat, a <= b
    PROVE  a * s \in Nat /\ b * s \in Nat /\ a * s <= b * s
  <1>1. PICK d \in Nat : b = a + d
    <2>1. b - a \in Nat /\ b = a + (b - a)
      OBVIOUS
    <2> QED  BY <2>1
  <1>2. b * s = a * s + d * s /\ d * s \in Nat /\ a * s \in Nat
    BY <1>1
  <1> QED  BY <1>2

LEMMA RowsCovered ==
    ASSUME NEW p, NEW name \in DOMAIN p.needs, NEW count \in Nat, NEW stride \in Nat, NEW bytes \in Nat,
           p.needs[name].bytes \in Nat,
           count > 0 => (count - 1) * stride + bytes <= p.needs[name].bytes
    PROVE  \A t \in Rows(name, count, stride, bytes) : Covers(p, t)
  <1> SUFFICES ASSUME NEW r \in 0 .. count - 1 PROVE Covers(p, Touch(name, r * stride, bytes))
    BY DEF Rows
  <1>1. r * stride \in Nat /\ (count - 1) * stride \in Nat /\ r * stride <= (count - 1) * stride
    BY TimesMonotone
  <1> DEFINE x == r * stride
             y == (count - 1) * stride
  <1>2. x + bytes <= p.needs[name].bytes /\ x \in Nat
    <2>1. count > 0 /\ y + bytes <= p.needs[name].bytes /\ x <= y /\ x \in Nat /\ y \in Nat
      BY <1>1
    <2> HIDE DEF x, y
    <2> QED  BY <2>1
  <1> HIDE DEF x
  <1>3. Covers(p, Touch(name, x, bytes))
    BY <1>2, TouchCovered
  <1> QED  BY <1>3 DEF x

LEMMA PredIs == ASSUME NEW n \in Word, n # 0 PROVE Pred(n) = n - 1 /\ n \in Nat /\ n - 1 \in Nat
  <1>1. Words \in Nat
    BY LoaderAssumption
  <1>2. n \in Nat /\ n - 1 \in 0 .. (Words - 1)
    BY <1>1 DEF Word
  <1> QED  BY <1>1, <1>2 DEF Pred

LEMMA WordsNatural == Word \subseteq Nat /\ Words \in Nat
  BY LoaderAssumption DEF Word

LEMMA NumberTyped == ASSUME NEW c \in Commands, NEW field \in Numbers(c.type) PROVE c[field] \in Word
  BY CommandAssumption

LEMMA BinaryCovered ==
    ASSUME NEW c \in Commands, c.type \in {"afu_binary", "spatz_add", "afu_binary_quant"}
    PROVE  CoversAll(BinaryPlan(c), BinaryTouches(c))
  <1>1. c.length \in Nat
    BY NumberTyped, WordsNatural DEF Numbers
  <1> DEFINE p == BinaryPlan(c)
  <1>2. /\ DOMAIN p.needs = {"lhs", "rhs", "ofm"}
        /\ \A n \in {"lhs", "rhs", "ofm"} : p.needs[n].bytes = c.length
    BY DEF BinaryPlan, Plan, Need
  <1> HIDE DEF p
  <1>3. \A n \in {"lhs", "rhs", "ofm"} : \A t \in Whole(n, c.length) : Covers(p, t)
    BY <1>1, <1>2, WholeCovered
  <1>4. CoversAll(p, BinaryTouches(c))
    BY <1>3 DEF BinaryTouches, CoversAll, Footprint
  <1> QED  BY <1>4 DEF p

LEMMA LutCovered ==
    ASSUME NEW c \in Commands, c.type = "afu_lut" PROVE CoversAll(LutPlan(c), LutTouches(c))
  <1>1. c.length \in Nat
    BY NumberTyped, WordsNatural DEF Numbers
  <1> DEFINE p == LutPlan(c)
  <1>2. /\ DOMAIN p.needs = {"ifm", "ofm", "lut"}
        /\ p.needs.ifm.bytes = c.length /\ p.needs.ofm.bytes = c.length
    BY DEF LutPlan, Plan, Need
  <1> HIDE DEF p
  <1>3. /\ \A t \in Whole("ifm", c.length) : Covers(p, t)
        /\ \A t \in Whole("ofm", c.length) : Covers(p, t)
    BY <1>1, <1>2, WholeCovered
  <1>4. CoversAll(p, LutTouches(c))
    BY <1>3 DEF LutTouches, CoversAll, Footprint
  <1> QED  BY <1>4 DEF p

LEMMA DmaCovered ==
    ASSUME NEW c \in Commands, c.type = "dma", DmaPlan(c).guard
    PROVE  CoversAll(DmaPlan(c), DmaTouches(c))
  <1> DEFINE n == Len(c.repetitions)
             reps == c.repetitions
             s == c.source_strides
             d == c.destination_strides
             l == c.length
             p == DmaPlan(c)
             reach(st) == IF n = 0 THEN l ELSE Reach(l, st, reps)
             rows(name, st) ==
                CASE n = 0 -> Whole(name, l)
                  [] n = 1 -> Rows(name, reps[1], st[1], l)
                  [] OTHER -> {Touch(name, i * st[1] + j * st[2], l) : i \in 0 .. reps[1] - 1, j \in 0 .. reps[2] - 1}
  <1>1. l \in Nat
    BY NumberTyped, WordsNatural DEF Numbers
  <1>2. n \in 0 .. 2 /\ reps \in [1 .. n -> Word] /\ s \in [1 .. n -> Word] /\ d \in [1 .. n -> Word]
    BY CommandAssumption
  <1>3. \A i \in 1 .. n : reps[i] # 0
    BY DEF DmaPlan, Plan
  <1>4. /\ DOMAIN p.needs = {"source", "destination"}
        /\ p.needs.source.bytes = reach(s) /\ p.needs.destination.bytes = reach(d)
    BY DEF DmaPlan, Plan, Need
  <1>5. DmaTouches(c) = Footprint(rows("source", s), rows("destination", d))
    BY DEF DmaTouches
  <1> HIDE DEF n, reps, s, d, l, p
  <1>6. ASSUME NEW name \in DOMAIN p.needs, NEW st \in [1 .. n -> Word], p.needs[name].bytes = reach(st)
        PROVE  \A t \in rows(name, st) : Covers(p, t)
    <2>1. CASE n = 0
      BY <1>1, <1>6, <2>1, WholeCovered
    <2>2. CASE n = 1
      <3>1. reps[1] \in Nat /\ st[1] \in Nat /\ Pred(reps[1]) = reps[1] - 1 /\ reps[1] - 1 \in Nat
        <4>1. reps[1] \in Word /\ reps[1] # 0 /\ st[1] \in Word
          BY <1>2, <1>3, <2>2
        <4> QED  BY <4>1, PredIs, WordsNatural
      <3>2. Len(reps) = 1
        BY <2>2 DEF n, reps
      <3>3. reach(st) = l + st[1] * (reps[1] - 1)
        BY <2>2, <3>1, <3>2, <1>1 DEF Reach
      <3> HIDE DEF reach
      <3>4. (reps[1] - 1) * st[1] + l = p.needs[name].bytes /\ p.needs[name].bytes \in Nat
        BY <1>1, <1>6, <3>1, <3>3
      <3>5. (reps[1] - 1) * st[1] + l <= p.needs[name].bytes
        BY <3>4
      <3>6. \A t \in Rows(name, reps[1], st[1], l) : Covers(p, t)
        BY ONLY RowsCovered, <1>1, <3>1, <3>4, <3>5, name \in DOMAIN p.needs, Zenon
      <3> QED  BY <2>2, <3>6
    <2>3. CASE n = 2
      <3> SUFFICES ASSUME NEW i \in 0 .. reps[1] - 1, NEW j \in 0 .. reps[2] - 1
                   PROVE  Covers(p, Touch(name, i * st[1] + j * st[2], l))
        BY <2>3
      <3>1. \A k \in {1, 2} : /\ reps[k] \in Nat /\ st[k] \in Nat
                               /\ Pred(reps[k]) = reps[k] - 1 /\ reps[k] - 1 \in Nat
        <4> SUFFICES ASSUME NEW k \in {1, 2}
                     PROVE  /\ reps[k] \in Nat /\ st[k] \in Nat
                            /\ Pred(reps[k]) = reps[k] - 1 /\ reps[k] - 1 \in Nat
          OBVIOUS
        <4>1. k \in 1 .. n
          BY <2>3
        <4>2. reps[k] \in Word /\ reps[k] # 0 /\ st[k] \in Word
          BY <1>2, <1>3, <4>1
        <4> QED  BY <4>2, PredIs, WordsNatural
      <3>2. Len(reps) = 2
        BY <2>3 DEF n, reps
      <3> DEFINE a == st[1] * (reps[1] - 1)
                 b == st[2] * (reps[2] - 1)
                 x == i * st[1]
                 y == j * st[2]
      <3>3. reach(st) = l + a + b
        BY <2>3, <3>1, <3>2, <1>1 DEF Reach
      <3>4. x \in Nat /\ x <= a /\ a \in Nat
        <4>1. i * st[1] <= (reps[1] - 1) * st[1] /\ i * st[1] \in Nat /\ (reps[1] - 1) * st[1] \in Nat
          <5>1. i \in Nat /\ reps[1] - 1 \in Nat /\ st[1] \in Nat /\ i <= reps[1] - 1
            BY <3>1
          <5> QED  BY ONLY <5>1, TimesMonotone
        <4>2. (reps[1] - 1) * st[1] = a
          BY <3>1
        <4> QED  BY <4>1, <4>2
      <3>5. y \in Nat /\ y <= b /\ b \in Nat
        <4>1. j * st[2] <= (reps[2] - 1) * st[2] /\ j * st[2] \in Nat /\ (reps[2] - 1) * st[2] \in Nat
          <5>1. j \in Nat /\ reps[2] - 1 \in Nat /\ st[2] \in Nat /\ j <= reps[2] - 1
            BY <3>1
          <5> QED  BY ONLY <5>1, TimesMonotone
        <4>2. (reps[2] - 1) * st[2] = b
          BY <3>1
        <4> QED  BY <4>1, <4>2
      <3> HIDE DEF a, b, x, y, reach
      <3>6. x + y \in Nat /\ x + y + l <= p.needs[name].bytes /\ p.needs[name].bytes \in Nat
        BY <1>1, <1>6, <3>3, <3>4, <3>5
      <3>7. Covers(p, Touch(name, x + y, l))
        BY <1>1, <1>6, <3>6, TouchCovered
      <3> QED  BY <3>7 DEF x, y
    <2> QED  BY <1>2, <2>1, <2>2, <2>3
  <1> HIDE DEF reach, rows
  <1>7. CoversAll(p, DmaTouches(c))
    BY <1>2, <1>4, <1>5, <1>6 DEF CoversAll, Footprint
  <1> QED  BY <1>7 DEF p

\* The last of H blocks of k units ends with the last unit.
LEMMA BlocksFit ==
    ASSUME NEW q \in Nat, NEW H \in Nat, NEW k \in Nat, q < H
    PROVE  q * k \in Nat /\ H * k \in Nat /\ q * k + k <= H * k
  <1>1. (q + 1) * k \in Nat /\ H * k \in Nat /\ (q + 1) * k <= H * k
    <2>1. q + 1 \in Nat /\ q + 1 <= H
      OBVIOUS
    <2> QED  BY ONLY <2>1, H \in Nat, k \in Nat, TimesMonotone
  <1>2. (q + 1) * k = q * k + k /\ q * k \in Nat
    OBVIOUS
  <1> QED  BY <1>1, <1>2

\* A place of a grid, counted row by row.
LEMMA PlaceInGrid ==
    ASSUME NEW h \in Nat, NEW w \in Nat, NEW i \in 0 .. h - 1, NEW j \in 0 .. w - 1
    PROVE  i * w + j \in Nat /\ h * w \in Nat /\ i * w + j < h * w
  <1>1. i * w \in Nat /\ h * w \in Nat /\ i * w + w <= h * w
    BY BlocksFit
  <1> DEFINE x == i * w
             y == h * w
  <1>2. x \in Nat /\ y \in Nat /\ x + w <= y
    BY <1>1
  <1> HIDE DEF x, y
  <1>3. x + j \in Nat /\ y \in Nat /\ x + j < y
    BY <1>2
  <1> QED  BY <1>3 DEF x, y

LEMMA ReachOfRows ==
    ASSUME NEW length \in Nat, NEW stride \in Nat, NEW count \in Word, count # 0
    PROVE  /\ Reach(length, <<stride>>, <<count>>) \in Nat
           /\ (count - 1) * stride + length <= Reach(length, <<stride>>, <<count>>)
  <1>1. Pred(count) = count - 1 /\ count - 1 \in Nat
    BY PredIs
  <1>2. Reach(length, <<stride>>, <<count>>) = length + stride * Pred(count) + 0
    BY DEF Reach
  <1> DEFINE k == count - 1
  <1>3. stride * k \in Nat /\ stride * k = k * stride
    BY <1>1
  <1> QED  BY <1>1, <1>2, <1>3

LEMMA GemmCovered ==
    ASSUME NEW c \in Commands, c.type \in {"gemm32", "gemm32_accum", "gemm32_requant"}, GemmPlan(c).guard
    PROVE  CoversAll(GemmPlan(c), GemmTouches(c))
  <1> DEFINE m == c.dim_m
             direct == c.type = "gemm32_requant" /\ c.psum.region = "none"
             partial == c.type = "gemm32_accum" \/ (c.type = "gemm32_requant" /\ c.psum.region # "none")
             row == IF c.type = "gemm32_requant" THEN 32 ELSE 128
             os == OrDefault(c.ofm_stride, row)
             ps == OrDefault(c.psum_stride, 128)
             ofm == Reach(row, <<os>>, <<m>>)
             psum == Reach(128, <<ps>>, <<m>>)
             p == GemmPlan(c)
  <1>1. m \in Word /\ m \in Nat /\ os \in Nat /\ ps \in Nat /\ row \in Nat
    BY NumberTyped, WordsNatural DEF Numbers, OrDefault
  <1>2. m # 0
    BY DEF GemmPlan, Plan
  <1>3. /\ {"weights", "ifm", "ofm"} \subseteq DOMAIN p.needs
        /\ p.needs.weights.bytes = 1024 /\ p.needs.ifm.bytes = m * 32 /\ p.needs.ofm.bytes = ofm
        /\ partial => "psum" \in DOMAIN p.needs /\ p.needs.psum.bytes = psum
    BY DEF GemmPlan, Plan, Need
  <1>4. GemmTouches(c) =
           Footprint(Whole("weights", 1024) \cup Rows("ifm", m, 32, 32)
                       \cup (IF partial THEN Rows("psum", m, ps, 128) ELSE {}),
                     Rows("ofm", m, os, row))
    BY DEF GemmTouches
  <1> HIDE DEF p, m, partial, row, os, ps
  <1>5. /\ ofm \in Nat /\ (m - 1) * os + row <= ofm
        /\ psum \in Nat /\ (m - 1) * ps + 128 <= psum
    BY <1>1, <1>2, ReachOfRows
  <1> HIDE DEF ofm, psum
  <1>6. \A t \in Whole("weights", 1024) : Covers(p, t)
    BY <1>3, WholeCovered
  <1>7. \A t \in Rows("ifm", m, 32, 32) : Covers(p, t)
    <2>1. m * 32 \in Nat /\ (m - 1) * 32 + 32 <= m * 32 /\ 32 \in Nat
      BY <1>1
    <2>2. /\ "ifm" \in DOMAIN p.needs /\ p.needs["ifm"].bytes \in Nat
          /\ (m - 1) * 32 + 32 <= p.needs["ifm"].bytes
      BY <1>3, <2>1
    <2> QED  BY ONLY <1>1, <2>1, <2>2, RowsCovered, Zenon
  <1>8. \A t \in Rows("ofm", m, os, row) : Covers(p, t)
    BY <1>1, <1>3, <1>5, RowsCovered
  <1>9. partial => \A t \in Rows("psum", m, ps, 128) : Covers(p, t)
    <2> SUFFICES ASSUME partial PROVE \A t \in Rows("psum", m, ps, 128) : Covers(p, t)
      OBVIOUS
    <2>1. /\ "psum" \in DOMAIN p.needs /\ p.needs["psum"].bytes \in Nat
          /\ (m - 1) * ps + 128 <= p.needs["psum"].bytes /\ 128 \in Nat
      BY <1>3, <1>5
    <2> QED  BY ONLY <1>1, <2>1, RowsCovered, Zenon
  <1>10. CoversAll(p, GemmTouches(c))
    BY <1>4, <1>6, <1>7, <1>8, <1>9 DEF CoversAll, Footprint
  <1> QED  BY <1>10 DEF p

LEMMA PointwiseCovered ==
    ASSUME NEW c \in Commands, c.type = "pointwise_c32", PointwisePlan(c).guard
    PROVE  CoversAll(PointwisePlan(c), PointwiseTouches(c))
  <1> DEFINE n == c.rows
             g == c.groups
             s == c.input_stride
             ifm == Reach(n * 32, <<s>>, <<g>>)
             psum == (IF n < 256 THEN n ELSE 256) * 128
             sums == IF g = 1 THEN {} ELSE {Touch("psum", (r % 256) * 128, 128) : r \in 0 .. n - 1}
             p == PointwisePlan(c)
  <1>1. n \in Nat /\ g \in Word /\ g \in Nat /\ s \in Nat
    BY NumberTyped, WordsNatural DEF Numbers
  <1>2. g # 0
    BY DEF PointwisePlan, Plan
  <1>3. /\ {"weights", "ifm", "ofm"} \subseteq DOMAIN p.needs
        /\ p.needs.weights.bytes = g * 1024 /\ p.needs.ifm.bytes = ifm /\ p.needs.ofm.bytes = n * 32
        /\ g > 1 => "psum" \in DOMAIN p.needs /\ p.needs.psum.bytes = psum
    BY DEF PointwisePlan, Plan, Need
  <1>4. PointwiseTouches(c) =
           Footprint({Touch("weights", k * 1024, 1024) : k \in 0 .. g - 1}
                       \cup {Touch("ifm", k * s + r * 32, 32) : k \in 0 .. g - 1, r \in 0 .. n - 1} \cup sums,
                     Rows("ofm", n, 32, 32) \cup sums)
    BY DEF PointwiseTouches
  <1> HIDE DEF p, n, g, s, psum
  <1>5. \A k \in 0 .. g - 1 : Covers(p, Touch("weights", k * 1024, 1024))
    <2>1. \A k \in 0 .. g - 1 : k * 1024 \in Nat /\ k * 1024 + 1024 <= g * 1024
      BY <1>1
    <2>2. g * 1024 \in Nat
      BY <1>1
    <2> QED  BY <1>3, <2>1, <2>2, TouchCovered
  <1>6. \A k \in 0 .. g - 1, r \in 0 .. n - 1 : Covers(p, Touch("ifm", k * s + r * 32, 32))
    <2> SUFFICES ASSUME NEW k \in 0 .. g - 1, NEW r \in 0 .. n - 1
                 PROVE  Covers(p, Touch("ifm", k * s + r * 32, 32))
      OBVIOUS
    <2>1. ifm \in Nat /\ (g - 1) * s + n * 32 <= ifm
      BY <1>1, <1>2, ReachOfRows
    <2>2. k * s <= (g - 1) * s /\ k * s \in Nat /\ (g - 1) * s \in Nat
      <3>1. k \in Nat /\ g - 1 \in Nat /\ k <= g - 1
        BY <1>1
      <3> QED  BY ONLY <1>1, <3>1, TimesMonotone
    <2> DEFINE x == k * s
               y == (g - 1) * s
    <2> HIDE DEF x, y, ifm
    <2>3. x + r * 32 \in Nat /\ x + r * 32 + 32 <= ifm
      <3>1. x \in Nat /\ y \in Nat /\ x <= y /\ y + n * 32 <= ifm /\ ifm \in Nat
        BY <2>1, <2>2 DEF x, y
      <3> QED  BY <1>1, <3>1
    <2>4. Covers(p, Touch("ifm", x + r * 32, 32))
      BY <1>3, <2>1, <2>3, TouchCovered
    <2> QED  BY <2>4 DEF x
  <1>7. \A t \in Rows("ofm", n, 32, 32) : Covers(p, t)
    <2>1. n * 32 \in Nat /\ (n - 1) * 32 + 32 <= n * 32
      BY <1>1
    <2> QED  BY <1>1, <1>3, <2>1, RowsCovered
  <1>8. \A t \in sums : Covers(p, t)
    <2> SUFFICES ASSUME g # 1, NEW r \in 0 .. n - 1 PROVE Covers(p, Touch("psum", (r % 256) * 128, 128))
      OBVIOUS
    <2>1. r % 256 \in 0 .. 255 /\ r % 256 <= r
      BY <1>1
    <2>2. psum \in Nat /\ (r % 256) * 128 \in Nat /\ (r % 256) * 128 + 128 <= psum
      BY <1>1, <2>1 DEF psum
    <2>3. g > 1
      BY <1>1, <1>2
    <2> QED  BY <1>3, <2>2, <2>3, TouchCovered
  <1> HIDE DEF sums
  <1>9. CoversAll(p, PointwiseTouches(c))
    BY <1>4, <1>5, <1>6, <1>7, <1>8 DEF CoversAll, Footprint
  <1> QED  BY <1>9 DEF p

LEMMA DepthwiseCovered ==
    ASSUME NEW c \in Commands, c.type = "depthwise_c32"
    PROVE  CoversAll(DepthwisePlan(c), DepthwiseTouches(c))
  <1> DEFINE h == c.input_h
             w == c.input_w
             oh == c.output_h
             ow == c.output_w
             taps == {<<i * c.stride_h + kh - c.pad_h, j * c.stride_w + kw - c.pad_w>> :
                         i \in 0 .. oh - 1, j \in 0 .. ow - 1, kh \in 0 .. 2, kw \in 0 .. 2}
             inside == {t \in taps : t[1] \in 0 .. h - 1 /\ t[2] \in 0 .. w - 1}
             p == DepthwisePlan(c)
  <1>1. h \in Nat /\ w \in Nat /\ oh \in Nat /\ ow \in Nat
    BY NumberTyped, WordsNatural DEF Numbers
  <1>2. /\ {"weights", "ifm", "ofm"} \subseteq DOMAIN p.needs
        /\ p.needs.weights.bytes = 288 /\ p.needs.ifm.bytes = h * w * 32 /\ p.needs.ofm.bytes = oh * ow * 32
    BY DEF DepthwisePlan, Plan, Need
  <1>3. DepthwiseTouches(c) =
           Footprint(Whole("weights", 288) \cup {Touch("ifm", (t[1] * w + t[2]) * 32, 32) : t \in inside},
                     Rows("ofm", oh * ow, 32, 32))
    BY DEF DepthwiseTouches
  <1> HIDE DEF p, h, w, oh, ow, taps
  <1>4. \A t \in Whole("weights", 288) : Covers(p, t)
    BY <1>2, WholeCovered
  <1>5. \A t \in inside : Covers(p, Touch("ifm", (t[1] * w + t[2]) * 32, 32))
    <2> SUFFICES ASSUME NEW i \in 0 .. h - 1, NEW j \in 0 .. w - 1
                 PROVE  Covers(p, Touch("ifm", (i * w + j) * 32, 32))
      OBVIOUS
    <2> DEFINE q == i * w + j
               H == h * w
    <2>1. q \in Nat /\ H \in Nat /\ q < H
      BY <1>1, PlaceInGrid
    <2>2. p.needs.ifm.bytes = H * 32
      BY <1>2
    <2> HIDE DEF q, H
    <2>3. q * 32 \in Nat /\ H * 32 \in Nat /\ q * 32 + 32 <= H * 32
      BY <2>1
    <2>4. Covers(p, Touch("ifm", q * 32, 32))
      BY <1>2, <2>2, <2>3, TouchCovered
    <2> QED  BY <2>4 DEF q
  <1>6. \A t \in Rows("ofm", oh * ow, 32, 32) : Covers(p, t)
    <2> DEFINE H == oh * ow
    <2>1. H \in Nat /\ p.needs.ofm.bytes = H * 32
      BY <1>1, <1>2
    <2> HIDE DEF H
    <2>2. H * 32 \in Nat /\ (H - 1) * 32 + 32 <= H * 32
      BY <2>1
    <2>3. /\ "ofm" \in DOMAIN p.needs /\ p.needs["ofm"].bytes \in Nat
          /\ (H - 1) * 32 + 32 <= p.needs["ofm"].bytes /\ 32 \in Nat
      BY <1>2, <2>1, <2>2
    <2>4. \A t \in Rows("ofm", H, 32, 32) : Covers(p, t)
      BY ONLY <2>1, <2>3, RowsCovered, Zenon
    <2> QED  BY <2>4 DEF H
  <1> HIDE DEF inside
  <1>7. CoversAll(p, DepthwiseTouches(c))
    BY <1>3, <1>4, <1>5, <1>6 DEF CoversAll, Footprint
  <1> QED  BY <1>7 DEF p

LEMMA RqLoadCovered ==
    ASSUME NEW c PROVE CoversAll(RqLoadPlan(c), Footprint(Whole("qparams", 1024), {}))
  <1> DEFINE p == RqLoadPlan(c)
  <1>1. "qparams" \in DOMAIN p.needs /\ p.needs.qparams.bytes = 1024
    BY DEF RqLoadPlan, Plan, Need
  <1> HIDE DEF p
  <1>2. \A t \in Whole("qparams", 1024) : Covers(p, t)
    BY <1>1, WholeCovered
  <1>3. CoversAll(p, Footprint(Whole("qparams", 1024), {}))
    BY <1>2 DEF CoversAll, Footprint
  <1> QED  BY <1>3 DEF p

LEMMA DflCovered ==
    ASSUME NEW c \in Commands, c.type = "afu_dfl16", DflPlan(c).guard
    PROVE  CoversAll(DflPlan(c), DflTouches(c))
  <1> DEFINE n == c.locations
             tile == IF n < 32 THEN n ELSE 32
             source == (IF c.source_layout = 1 THEN 64 ELSE 144) * n
             interleaved == {Touch("source", (side \div 2) * n * 32 + (side % 2) * 16 + i * 32, 16) :
                                side \in 0 .. 3, i \in 0 .. n - 1}
             planes == {Touch("source", side * 16 * n + bin * n, n) : side \in 0 .. 3, bin \in 0 .. 15}
             bins == IF c.source_layout = 1 THEN interleaved ELSE planes
             p == DflPlan(c)
  <1>1. n \in Nat
    BY NumberTyped, WordsNatural DEF Numbers
  <1>2. /\ DOMAIN p.needs = {"source", "destination", "scratch", "exp_lut"}
        /\ p.needs.source.bytes = source /\ p.needs.destination.bytes = 4 * n
        /\ p.needs.scratch.bytes = 32 * 34 /\ p.needs.exp_lut.bytes = 2048
    BY DEF DflPlan, Plan, Need
  <1>3. DflTouches(c) =
           Footprint(bins \cup Whole("exp_lut", 2048) \cup {Touch("scratch", 0, tile * 32)},
                     Rows("destination", 4, n, n)
                       \cup {Touch("scratch", 0, tile * 32), Touch("scratch", 1024, tile * 2)})
    BY DEF DflTouches
  <1> HIDE DEF p, n
  <1>4. ASSUME c.source_layout = 1, NEW side \in 0 .. 3, NEW i \in 0 .. n - 1
        PROVE  Covers(p, Touch("source", (side \div 2) * n * 32 + (side % 2) * 16 + i * 32, 16))
    <2> DEFINE x == (side \div 2) * n * 32 + (side % 2) * 16 + i * 32
    <2>1. source = 64 * n
      BY <1>4
    <2>2. side = 0 \/ side = 1 \/ side = 2 \/ side = 3
      OBVIOUS
    <2>3. (side \div 2 = 0 \/ side \div 2 = 1) /\ (side % 2 = 0 \/ side % 2 = 1)
      BY <2>2
    <2>4. (side \div 2) * n = 0 \/ (side \div 2) * n = n
      BY <1>1, <2>3
    <2>5. x \in Nat /\ x + 16 <= 64 * n /\ 64 * n \in Nat
      <3> DEFINE a == (side \div 2) * n
                 b == side % 2
      <3>1. (a = 0 \/ a = n) /\ (b = 0 \/ b = 1)
        BY <2>3, <2>4
      <3> HIDE DEF a, b
      <3>2. a * 32 + b * 16 + i * 32 \in Nat /\ a * 32 + b * 16 + i * 32 + 16 <= 64 * n /\ 64 * n \in Nat
        BY <1>1, <3>1
      <3> QED  BY <3>2 DEF a, b
    <2> HIDE DEF x, source
    <2>6. Covers(p, Touch("source", x, 16))
      BY <1>2, <2>1, <2>5, TouchCovered
    <2> QED  BY <2>6 DEF x
  <1>5. ASSUME c.source_layout # 1, NEW side \in 0 .. 3, NEW bin \in 0 .. 15
        PROVE  Covers(p, Touch("source", side * 16 * n + bin * n, n))
    <2> DEFINE k == side * 16 + bin
    <2>1. k \in 0 .. 63
      OBVIOUS
    <2>2. side * 16 * n + bin * n = k * n
      BY <1>1
    <2>3. k * n \in Nat /\ 64 * n \in Nat /\ k * n + n <= 64 * n
      <3> HIDE DEF k
      <3>1. k \in Nat /\ 64 \in Nat /\ k < 64
        BY <2>1
      <3> QED  BY ONLY <1>1, <3>1, BlocksFit
    <2>4. source = 144 * n /\ 64 * n <= 144 * n /\ 144 * n \in Nat
      BY <1>1, <1>5
    <2> DEFINE x == k * n
    <2>5. x \in Nat /\ x + n <= source /\ source \in Nat
      BY <1>1, <2>3, <2>4
    <2> HIDE DEF x, source, k
    <2>6. Covers(p, Touch("source", x, n))
      BY <1>1, <1>2, <2>5, TouchCovered
    <2> QED  BY <2>2, <2>6 DEF x
  <1>6. \A t \in bins : Covers(p, t)
    <2>1. CASE c.source_layout = 1
      BY <1>4, <2>1
    <2>2. CASE c.source_layout # 1
      <3>1. bins = planes
        BY <2>2
      <3> HIDE DEF bins
      <3> QED  BY <1>5, <2>2, <3>1
    <2> QED  BY <2>1, <2>2
  <1>7. \A t \in Whole("exp_lut", 2048) : Covers(p, t)
    BY <1>2, WholeCovered
  <1>8. Covers(p, Touch("scratch", 0, tile * 32)) /\ Covers(p, Touch("scratch", 1024, tile * 2))
    <2>1. tile \in 0 .. 32
      BY <1>1
    <2> HIDE DEF tile
    <2>2. tile * 32 \in Nat /\ tile * 32 <= 1024 /\ tile * 2 \in Nat /\ tile * 2 <= 64
      BY <2>1
    <2>3. p.needs.scratch.bytes = 1088
      BY <1>2
    <2> QED  BY <1>2, <2>2, <2>3, TouchCovered
  <1>9. \A t \in Rows("destination", 4, n, n) : Covers(p, t)
    <2>1. 4 \in Nat /\ 4 * n \in Nat /\ (4 - 1) * n + n <= 4 * n
      BY <1>1
    <2>2. /\ "destination" \in DOMAIN p.needs /\ p.needs["destination"].bytes \in Nat
          /\ (4 - 1) * n + n <= p.needs["destination"].bytes
      BY <1>2, <2>1
    <2> QED  BY ONLY <1>1, <2>1, <2>2, RowsCovered, Zenon
  <1> HIDE DEF bins, tile
  <1>10. CoversAll(p, DflTouches(c))
    BY <1>3, <1>6, <1>7, <1>8, <1>9 DEF CoversAll, Footprint
  <1> QED  BY <1>10 DEF p

LEMMA AvgpoolCovered ==
    ASSUME NEW c \in Commands, c.type = "afu_global_avgpool"
    PROVE  CoversAll(AvgpoolPlan(c), AvgpoolTouches(c))
  <1> DEFINE g == RoundUp32(c.channels) \div 32
             ifm == c.input_h * c.input_w * g * 32
             p == AvgpoolPlan(c)
  <1>1. c.input_h \in Nat /\ c.input_w \in Nat /\ g \in Nat
    BY NumberTyped, WordsNatural DEF Numbers, RoundUp32
  <1>2. /\ {"ifm", "ofm"} \subseteq DOMAIN p.needs
        /\ p.needs.ifm.bytes = ifm /\ p.needs.ofm.bytes = g * 32
    BY DEF AvgpoolPlan, Plan, Need
  <1>3. AvgpoolTouches(c) = Footprint(Whole("ifm", ifm), Whole("ofm", g * 32))
    BY DEF AvgpoolTouches
  <1> HIDE DEF p, g
  <1>4. ifm \in Nat /\ g * 32 \in Nat
    BY <1>1
  <1> HIDE DEF ifm
  <1>5. /\ \A t \in Whole("ifm", ifm) : Covers(p, t)
        /\ \A t \in Whole("ofm", g * 32) : Covers(p, t)
    <2> DEFINE x == g * 32
    <2>1. x \in Nat /\ p.needs.ofm.bytes = x /\ x <= x
      BY <1>2, <1>4
    <2> HIDE DEF x
    <2>2. \A t \in Whole("ofm", x) : Covers(p, t)
      BY <1>2, <2>1, WholeCovered
    <2>3. ifm <= ifm
      BY <1>4
    <2>4. \A t \in Whole("ifm", ifm) : Covers(p, t)
      BY <1>2, <1>4, <2>3, WholeCovered
    <2> QED  BY <2>2, <2>4 DEF x
  <1>6. CoversAll(p, AvgpoolTouches(c))
    BY <1>3, <1>5 DEF CoversAll, Footprint
  <1> QED  BY <1>6 DEF p

\* Channel groups one after the other fill the picture.
LEMMA GroupsFill ==
    ASSUME NEW n \in Nat, NEW channels \in {32, 128, 256}, NEW group, group = n * 32
    PROVE  /\ channels \div 32 \in Nat /\ group \in Nat /\ n * channels \in Nat
           /\ (channels \div 32 - 1) * group + group <= n * channels
  <1>1. CASE channels = 32
    BY <1>1
  <1>2. CASE channels = 128
    BY <1>2
  <1>3. CASE channels = 256
    BY <1>3
  <1> QED  BY <1>1, <1>2, <1>3

LEMMA UpsampleCovered ==
    ASSUME NEW c \in Commands, c.type = "upsample_nearest", UpsamplePlan(c).guard
    PROVE  CoversAll(UpsamplePlan(c), UpsampleTouches(c))
  <1> DEFINE n == c.input_h * c.input_w
             group == n * 32
             k == c.channels \div 32
             bytes == n * c.channels
             p == UpsamplePlan(c)
  <1>1. n \in Nat
    BY NumberTyped, WordsNatural DEF Numbers
  <1>2. c.channels \in {32, 128, 256}
    BY DEF UpsamplePlan, Plan
  <1>3. /\ {"ifm", "ofm"} \subseteq DOMAIN p.needs
        /\ p.needs.ifm.bytes = bytes /\ p.needs.ofm.bytes = bytes * 4
    BY DEF UpsamplePlan, Plan, Need
  <1>4. UpsampleTouches(c) = Footprint(Rows("ifm", k, group, group), Rows("ofm", k, group * 4, group * 4))
    BY DEF UpsampleTouches
  <1> HIDE DEF p, n
  <1>5. k \in Nat /\ group \in Nat /\ bytes \in Nat /\ (k - 1) * group + group <= bytes
    BY <1>1, <1>2, GroupsFill
  <1> HIDE DEF group, k, bytes
  <1>6. group * 4 \in Nat /\ bytes * 4 \in Nat /\ (k - 1) * (group * 4) + group * 4 <= bytes * 4
    <2> DEFINE x == (k - 1) * group
    <2>1. x \in Int /\ (k - 1) * (group * 4) = x * 4
      BY <1>5
    <2>2. x + group <= bytes
      BY <1>5
    <2> HIDE DEF x
    <2>3. x * 4 + group * 4 <= bytes * 4
      BY <1>5, <2>1, <2>2
    <2> QED  BY <1>5, <2>1, <2>3
  <1>7. \A t \in Rows("ifm", k, group, group) : Covers(p, t)
    <2>1. /\ "ifm" \in DOMAIN p.needs /\ p.needs["ifm"].bytes \in Nat
          /\ (k - 1) * group + group <= p.needs["ifm"].bytes
      BY <1>3, <1>5
    <2> QED  BY ONLY <1>5, <2>1, RowsCovered, Zenon
  <1>8. \A t \in Rows("ofm", k, group * 4, group * 4) : Covers(p, t)
    <2> DEFINE quad == group * 4
    <2>1. /\ "ofm" \in DOMAIN p.needs /\ p.needs["ofm"].bytes \in Nat /\ quad \in Nat
          /\ (k - 1) * quad + quad <= p.needs["ofm"].bytes
      BY <1>3, <1>6
    <2> HIDE DEF quad
    <2>2. \A t \in Rows("ofm", k, quad, quad) : Covers(p, t)
      BY ONLY <1>5, <2>1, RowsCovered, Zenon
    <2> QED  BY <2>2 DEF quad
  <1>9. CoversAll(p, UpsampleTouches(c))
    BY <1>4, <1>7, <1>8 DEF CoversAll, Footprint
  <1> QED  BY <1>9 DEF p

LEMMA MaxpoolCovered ==
    ASSUME NEW c \in Commands, c.type = "maxpool", MaxpoolPlan(c).guard
    PROVE  CoversAll(MaxpoolPlan(c), MaxpoolTouches(c))
  <1> DEFINE n == c.input_h * c.input_w
             group == n * 32
             k == c.channels \div 32
             bytes == n * c.channels
             p == MaxpoolPlan(c)
  <1>1. n \in Nat
    BY NumberTyped, WordsNatural DEF Numbers
  <1>2. c.channels \in {32, 128, 256}
    BY DEF MaxpoolPlan, Plan
  <1>3. /\ {"ifm", "ofm"} \subseteq DOMAIN p.needs
        /\ p.needs.ifm.bytes = bytes /\ p.needs.ofm.bytes = bytes
    BY DEF MaxpoolPlan, Plan, Need
  <1>4. MaxpoolTouches(c) = Footprint(Rows("ifm", k, group, group), Rows("ofm", k, group, group))
    BY DEF MaxpoolTouches
  <1> HIDE DEF p, n
  <1>5. k \in Nat /\ group \in Nat /\ bytes \in Nat /\ (k - 1) * group + group <= bytes
    BY <1>1, <1>2, GroupsFill
  <1> HIDE DEF group, k, bytes
  <1>6. ASSUME NEW name \in {"ifm", "ofm"} PROVE \A t \in Rows(name, k, group, group) : Covers(p, t)
    <2>1. /\ name \in DOMAIN p.needs /\ p.needs[name].bytes \in Nat
          /\ (k - 1) * group + group <= p.needs[name].bytes
      BY <1>3, <1>5
    <2> QED  BY ONLY <1>5, <2>1, RowsCovered, Zenon
  <1>7. CoversAll(p, MaxpoolTouches(c))
    BY <1>4, <1>6 DEF CoversAll, Footprint
  <1> QED  BY <1>7 DEF p

\* One element of a copy, on the side without padding and on the padded one.
LEMMA ElementPlaces ==
    ASSUME NEW n \in Nat, NEW ch \in Nat, NEW e \in Nat, NEW i \in 0 .. n - 1, NEW j \in 0 .. ch - 1
    PROVE  /\ (i * ch + j) * e \in Nat /\ n * ch * e \in Nat /\ (i * ch + j) * e + e <= n * ch * e
           /\ j * n + i \in Nat /\ j * n + i + 1 <= n * ch
           /\ n * RoundUp32(ch) * e \in Nat
           /\ (i * RoundUp32(ch) + j) * e \in Nat
           /\ (i * RoundUp32(ch) + j) * e + e <= n * RoundUp32(ch) * e
           /\ C32Offset(n, i, j, e) \in Nat
           /\ C32Offset(n, i, j, e) + e <= n * RoundUp32(ch) * e
  <1>1. ASSUME NEW w \in Nat, j < w
        PROVE  /\ (i * w + j) * e \in Nat /\ n * w * e \in Nat /\ (i * w + j) * e + e <= n * w * e
    <2> DEFINE q == i * w + j
               H == n * w
    <2>1. q \in Nat /\ H \in Nat /\ q < H
      BY <1>1, PlaceInGrid
    <2> HIDE DEF q, H
    <2>2. q * e \in Nat /\ H * e \in Nat /\ q * e + e <= H * e
      BY ONLY <2>1, e \in Nat, BlocksFit
    <2> QED  BY <2>2 DEF q, H
  <1>2. j * n + i \in Nat /\ j * n + i + 1 <= n * ch
    <2> DEFINE q == j * n + i
               H == ch * n
    <2>1. q \in Nat /\ H \in Nat /\ q < H
      BY PlaceInGrid
    <2>2. H = n * ch
      OBVIOUS
    <2> HIDE DEF q, H
    <2>3. q \in Nat /\ q + 1 <= n * ch
      BY <2>1, <2>2
    <2> QED  BY <2>3 DEF q
  <1> DEFINE R == RoundUp32(ch)
             G == (ch + 31) \div 32
             k == j \div 32
             l == j % 32
  <1>3. R = G * 32 /\ G \in Nat /\ R \in Nat /\ ch <= R
    BY DEF RoundUp32
  <1>4. k \in 0 .. G - 1 /\ l \in 0 .. 31
    OBVIOUS
  <1> HIDE DEF R, G, k, l
  <1>5. C32Offset(n, i, j, e) \in Nat /\ C32Offset(n, i, j, e) + e <= n * R * e
    <2> DEFINE place == k * n + i
               places == G * n
               q == place * 32 + l
               H == places * 32
    <2>1. place \in Nat /\ places \in Nat /\ place < places
      BY <1>3, <1>4, PlaceInGrid
    <2>2. H = n * R
      BY <1>3
    <2>3. C32Offset(n, i, j, e) = q * e
      BY DEF C32Offset, k, l
    <2> HIDE DEF place, places
    <2>4. q \in Nat /\ H \in Nat /\ q < H
      BY <1>4, <2>1
    <2> HIDE DEF q, H
    <2>5. q * e \in Nat /\ H * e \in Nat /\ q * e + e <= H * e
      BY ONLY <2>4, e \in Nat, BlocksFit
    <2> QED  BY <2>2, <2>3, <2>5
  <1>6. j < R /\ j < ch
    BY <1>3
  <1>7. /\ (i * R + j) * e \in Nat /\ n * R * e \in Nat /\ (i * R + j) * e + e <= n * R * e
    BY <1>1, <1>3, <1>6
  <1>8. (i * ch + j) * e \in Nat /\ n * ch * e \in Nat /\ (i * ch + j) * e + e <= n * ch * e
    BY <1>1, <1>6
  <1> QED  BY <1>2, <1>5, <1>7, <1>8 DEF R

LEMMA CopyCovered ==
    ASSUME NEW c \in Commands, c.type = "copy_layout", CopyPlan(c).always, CopyPlan(c).guard
    PROVE  CoversAll(CopyPlan(c), CopyTouches(c))
  <1> DEFINE n == Pixels(c)
             e == CopyElementBytes(c)
             ch == c.valid_channels
             toNative == c.mode \in {"nhwc_to_row32", "nhwc_to_c32"}
             chw == c.mode = "c32_to_chw"
             elements == ((0 .. n - 1) \X (0 .. ch - 1))
             compact(x) == IF chw THEN x[2] * n + x[1] ELSE (x[1] * ch + x[2]) * e
             native(x) == IF c.mode \in {"nhwc_to_row32", "row32_to_nhwc"}
                          THEN (x[1] * RoundUp32(ch) + x[2]) * e ELSE C32Offset(n, x[1], x[2], e)
             compactBytes == n * ch * e
             nativeBytes == n * RoundUp32(ch) * e
             p == CopyPlan(c)
  <1>1. n \in Nat /\ ch \in Nat /\ e \in Nat
    <2>1. \A i \in 1 .. 4 : c.dims[i] \in Nat
      BY CommandAssumption, WordsNatural
    <2>2. c.dims[1] * c.dims[2] * c.dims[3] \in Nat
      <3>1. c.dims[1] \in Nat /\ c.dims[2] \in Nat /\ c.dims[3] \in Nat
        BY <2>1
      <3> QED  BY ONLY <3>1
    <2>3. ch \in Nat
      BY NumberTyped, WordsNatural DEF Numbers
    <2> QED  BY <2>2, <2>3 DEF Pixels, CopyElementBytes
  <1>2. c.dims[4] = ch /\ (chw => c.data_type = "i8")
    BY DEF CopyPlan, Plan
  <1>3. chw => e = 1
    BY <1>2 DEF CopyElementBytes
  <1>4. /\ DOMAIN p.needs = {"source", "destination"}
        /\ p.needs.source.bytes = IF toNative THEN compactBytes ELSE nativeBytes
        /\ p.needs.destination.bytes = IF toNative THEN nativeBytes ELSE compactBytes
    BY <1>2 DEF CopyPlan, Plan, Need, NativeBytes
  <1>5. CopyTouches(c) =
           IF toNative
           THEN Footprint({Touch("source", compact(x), e) : x \in elements},
                          {Touch("destination", native(x), e) : x \in elements} \cup Whole("destination", nativeBytes))
           ELSE Footprint({Touch("source", native(x), e) : x \in elements},
                          {Touch("destination", compact(x), e) : x \in elements})
    BY DEF CopyTouches
  <1>6. ASSUME NEW x \in elements
        PROVE  /\ compact(x) \in Nat /\ compact(x) + e <= compactBytes
               /\ native(x) \in Nat /\ native(x) + e <= nativeBytes
               /\ compactBytes \in Nat /\ nativeBytes \in Nat
    <2>1. PICK i \in 0 .. n - 1, j \in 0 .. ch - 1 : x = <<i, j>>
      OBVIOUS
    <2> HIDE DEF n, ch, e
    <2>2. /\ (i * ch + j) * e \in Nat /\ n * ch * e \in Nat /\ (i * ch + j) * e + e <= n * ch * e
          /\ j * n + i \in Nat /\ j * n + i + 1 <= n * ch
          /\ n * RoundUp32(ch) * e \in Nat
          /\ (i * RoundUp32(ch) + j) * e \in Nat
          /\ (i * RoundUp32(ch) + j) * e + e <= n * RoundUp32(ch) * e
          /\ C32Offset(n, i, j, e) \in Nat
          /\ C32Offset(n, i, j, e) + e <= n * RoundUp32(ch) * e
      BY <1>1, ElementPlaces
    <2>3. chw => compactBytes = n * ch
      BY <1>1, <1>3
    <2>4. chw => compact(x) = j * n + i /\ e = 1
      BY <1>3, <2>1
    <2>5. ~chw => compact(x) = (i * ch + j) * e
      BY <2>1
    <2>6. compact(x) \in Nat /\ compact(x) + e <= compactBytes
      <3>1. CASE chw
        BY ONLY <2>2, <2>3, <2>4, <3>1, Zenon
      <3>2. CASE ~chw
        BY ONLY <2>2, <2>5, <3>2, Zenon
      <3> QED  BY ONLY <3>1, <3>2, Zenon
    <2>7. native(x) \in Nat /\ native(x) + e <= nativeBytes
      <3>1. native(x) = (i * RoundUp32(ch) + j) * e \/ native(x) = C32Offset(n, i, j, e)
        BY <2>1
      <3> HIDE DEF native
      <3> QED  BY ONLY <2>2, <3>1, Zenon DEF nativeBytes
    <2> QED  BY ONLY <2>2, <2>6, <2>7, Zenon DEF nativeBytes, compactBytes
  <1>7. \A t \in Whole("destination", nativeBytes) : toNative => Covers(p, t)
    <2> SUFFICES ASSUME toNative PROVE Covers(p, Touch("destination", 0, nativeBytes))
      BY DEF Whole
    <2>1. nativeBytes \in Nat
      <3>1. RoundUp32(ch) \in Nat
        BY <1>1 DEF RoundUp32
      <3> HIDE DEF n, e, ch
      <3> QED  BY <1>1, <3>1
    <2> HIDE DEF nativeBytes, p
    <2>2. 0 \in Nat /\ 0 + nativeBytes <= p.needs["destination"].bytes /\ "destination" \in DOMAIN p.needs
          /\ p.needs["destination"].bytes \in Nat
      BY <1>4, <2>1
    <2> QED  BY ONLY <2>1, <2>2, TouchCovered, Zenon
  <1> HIDE DEF n, ch, e, compact, native, compactBytes, nativeBytes, elements, p
  <1>8. ASSUME NEW name \in {"source", "destination"}, NEW x \in elements,
               p.needs[name].bytes = compactBytes
        PROVE  Covers(p, Touch(name, compact(x), e))
    <2>1. compact(x) \in Nat /\ compact(x) + e <= p.needs[name].bytes /\ p.needs[name].bytes \in Nat
          /\ name \in DOMAIN p.needs
      BY <1>4, <1>6, <1>8
    <2> QED  BY ONLY <1>1, <2>1, TouchCovered, Zenon
  <1>9. ASSUME NEW name \in {"source", "destination"}, NEW x \in elements,
               p.needs[name].bytes = nativeBytes
        PROVE  Covers(p, Touch(name, native(x), e))
    <2>1. native(x) \in Nat /\ native(x) + e <= p.needs[name].bytes /\ p.needs[name].bytes \in Nat
          /\ name \in DOMAIN p.needs
      BY <1>4, <1>6, <1>9
    <2> QED  BY ONLY <1>1, <2>1, TouchCovered, Zenon
  <1>10. CASE toNative
    <2>1. \A x \in elements : Covers(p, Touch("source", compact(x), e))
      BY <1>4, <1>8, <1>10
    <2>2. \A x \in elements : Covers(p, Touch("destination", native(x), e))
      BY <1>4, <1>9, <1>10
    <2>3. CoversAll(p, CopyTouches(c))
      BY <1>5, <1>7, <1>10, <2>1, <2>2 DEF CoversAll, Footprint
    <2> QED  BY <2>3 DEF p
  <1>11. CASE ~toNative
    <2>1. \A x \in elements : Covers(p, Touch("source", native(x), e))
      BY <1>4, <1>9, <1>11
    <2>2. \A x \in elements : Covers(p, Touch("destination", compact(x), e))
      BY <1>4, <1>8, <1>11
    <2>3. CoversAll(p, CopyTouches(c))
      BY <1>5, <1>11, <2>1, <2>2 DEF CoversAll, Footprint
    <2> QED  BY <2>3 DEF p
  <1> QED  BY <1>10, <1>11

LEMMA WholePlanCovered ==
    ASSUME NEW c \in Commands, PlanOf(c).always, PlanOf(c).guard
    PROVE  CoversAll(PlanOf(c), TouchesOf(c))
  <1>1. c.type \in CommandTypes
    BY CommandAssumption
  <1>2. CASE c.type \in {"dma_wait", "linebuf_job", "linebuf_binary", "systolic_wait"}
    <2>1. TouchesOf(c) = Footprint({}, {})
      BY <1>2 DEF TouchesOf
    <2> QED  BY <2>1 DEF CoversAll, Footprint
  <1>3. CASE c.type = "dma"
    BY <1>3, DmaCovered DEF PlanOf, TouchesOf
  <1>4. CASE c.type = "rq_load"
    BY <1>4, RqLoadCovered DEF PlanOf, TouchesOf
  <1>5. CASE c.type \in {"gemm32", "gemm32_accum", "gemm32_requant"}
    <2>1. PlanOf(c) = GemmPlan(c) /\ TouchesOf(c) = GemmTouches(c)
      BY <1>5 DEF PlanOf, TouchesOf
    <2> QED  BY <1>5, <2>1, GemmCovered
  <1>6. CASE c.type = "pointwise_c32"
    BY <1>6, PointwiseCovered DEF PlanOf, TouchesOf
  <1>7. CASE c.type = "depthwise_c32"
    BY <1>7, DepthwiseCovered DEF PlanOf, TouchesOf
  <1>8. CASE c.type \in {"afu_binary", "spatz_add", "afu_binary_quant"}
    <2>1. PlanOf(c) = BinaryPlan(c) /\ TouchesOf(c) = BinaryTouches(c)
      BY <1>8 DEF PlanOf, TouchesOf
    <2> QED  BY <1>8, <2>1, BinaryCovered
  <1>9. CASE c.type = "afu_lut"
    BY <1>9, LutCovered DEF PlanOf, TouchesOf
  <1>10. CASE c.type = "afu_dfl16"
    BY <1>10, DflCovered DEF PlanOf, TouchesOf
  <1>11. CASE c.type = "afu_global_avgpool"
    BY <1>11, AvgpoolCovered DEF PlanOf, TouchesOf
  <1>12. CASE c.type = "upsample_nearest"
    BY <1>12, UpsampleCovered DEF PlanOf, TouchesOf
  <1>13. CASE c.type = "maxpool"
    BY <1>13, MaxpoolCovered DEF PlanOf, TouchesOf
  <1>14. CASE c.type = "copy_layout"
    BY <1>14, CopyCovered DEF PlanOf, TouchesOf
  <1> QED
    BY <1>1, <1>2, <1>3, <1>4, <1>5, <1>6, <1>7, <1>8, <1>9, <1>10, <1>11, <1>12, <1>13, <1>14 DEF CommandTypes

----
(* Addresses that pass the checks. *)

LEMMA ScratchFits ==
    ASSUME Inputs, HeaderAccepted PROVE package.header.tcdm_bytes \in Nat /\ package.header.tcdm_bytes <= TcdmLimit
  <1> DEFINE many == package.header.section_count = 0 \/ package.header.section_count > MaxSections
  <1>1. package.header.tcdm_bytes \in Word
    BY PackageFields DEF ModelHeader
  <1>2. HeaderStatus(package.header, invocation.model_bytes, LooksAtReserved, many) = "ok"
    BY DEF HeaderAccepted
  <1> HIDE DEF many
  <1>3. ~(package.header.tcdm_align # NAI_ALIGNMENT_BYTES \/ package.header.tcdm_bytes > TcdmLimit)
    BY <1>2, HeaderOk
  <1>4. package.header.tcdm_bytes \in Nat /\ TcdmLimit \in Nat
    BY <1>1, LoaderAssumption, WordsNatural
  <1> QED  BY <1>3, <1>4

\* The ranges that references name lie in memory.
LEMMA RegionSound ==
    ASSUME LoadInv, stage = "ready", NEW ref, RegionOf(ref).ok
    PROVE  /\ RegionOf(ref).base \in Nat /\ RegionOf(ref).bytes \in Nat
           /\ RegionOf(ref).base + RegionOf(ref).bytes <= Words
  <1>1. /\ Inputs /\ InvocationValid(invocation) /\ HeaderAccepted /\ SectionsAccepted
        /\ EntriesInMemory /\ table \in Seq(Address)
    BY InputsTyped DEF LoadInv, StageInv, Opened, TypeOK
  <1>2. /\ invocation.model_base \in Nat /\ invocation.model_bytes \in Nat
        /\ invocation.model_base + invocation.model_bytes < Words /\ Words \in Nat
    BY <1>1, WordsNatural, LoaderAssumption DEF InvocationValid, LoadInv, TypeOK
  <1>3. CASE ref.region \in {"constants", "commands", "qparams"}
    <2>1. ref.region \in Required
      BY <1>3 DEF Required, SectionTypes
    <2>2. PICK i \in DOMAIN package.sections : Section(package, ref.region) = package.sections[i]
      BY <1>1, <2>1, SectionThere
    <2> DEFINE s == package.sections[i]
    <2>3. RegionOf(ref) = InModel(ref, s)
      BY <1>3, <2>2 DEF RegionOf, Directions
    <2>4. InModel(ref, s) = Region(invocation.model_base + s.offset, s.size)
      BY <2>3, NoneRefused DEF InModel
    <2>5. s.offset \in Nat /\ s.size \in Nat /\ s.offset + s.size <= package.header.total_bytes
      BY <1>1, SectionFits
    <2>6. package.header.total_bytes \in Nat /\ package.header.total_bytes <= invocation.model_bytes
      BY <1>1, HeaderFits
    <2> HIDE DEF s
    <2> QED  BY <1>2, <2>3, <2>4, <2>5, <2>6, RegionFields
  <1>4. CASE ref.region \in Directions
    <2> DEFINE matches == {i \in DOMAIN table : table[i].direction = ref.region /\ table[i].index = ref.index}
               first == CHOOSE i \in matches : \A j \in matches : i <= j
    <2>1. RegionOf(ref) = InTable(ref)
      BY <1>4 DEF RegionOf, Directions
    <2>2. matches # {} /\ RegionOf(ref) = Region(table[first].base, table[first].byte_size)
      BY <2>1, NoneRefused DEF InTable
    <2>3. first \in matches
      <3>1. matches \subseteq Nat
        BY <1>1
      <3>2. PICK i \in matches : \A j \in matches : ~(<<j, i>> \in Less)
        <4> HIDE DEF matches
        <4> QED  BY <2>2, <3>1, LessWellFounded, WFMin
      <3>3. \A j \in matches : i <= j
        <4> SUFFICES ASSUME NEW j \in matches, ~(i <= j) PROVE FALSE
          OBVIOUS
        <4> HIDE DEF matches
        <4>1. i \in Nat /\ j \in Nat /\ j < i
          BY <3>1
        <4>2. <<j, i>> \in Less
          BY <4>1 DEF Less
        <4> QED  BY <3>2, <4>2
      <3> HIDE DEF matches
      <3> QED  BY <3>3
    <2>4. first \in DOMAIN table
      BY <2>3
    <2> HIDE DEF first, matches
    <2>5. /\ table[first].base \in Nat /\ table[first].byte_size \in Nat
          /\ table[first].base + table[first].byte_size < Words
      <3>1. table[first] \in Address
        BY <1>1, <2>4
      <3>2. table[first].base \in Word /\ table[first].byte_size \in Word
        BY <3>1 DEF Address
      <3> QED  BY <1>1, <2>4, <3>2, WordsNatural DEF EntriesInMemory
    <2> QED  BY <1>2, <2>2, <2>5, RegionFields
  <1>5. CASE ref.region = "scratch"
    <2>1. RegionOf(ref) = Region(TcdmBase, package.header.tcdm_bytes)
      BY <1>5, NoneRefused DEF RegionOf, Directions
    <2>2. package.header.tcdm_bytes \in Nat /\ package.header.tcdm_bytes <= TcdmLimit
      BY <1>1, ScratchFits
    <2> QED  BY <1>2, <2>1, <2>2, LoaderAssumption, RegionFields
  <1>6. CASE ref.region \notin {"constants", "commands", "qparams", "scratch"} \cup Directions
    BY <1>6, NoneRefused DEF RegionOf
  <1> QED  BY <1>3, <1>4, <1>5, <1>6

\* An address that passes the checks has all its bytes in the region of its reference.
LEMMA CheckedInside ==
    ASSUME LoadInv, stage = "ready", NEW ref, NEW bytes \in Nat, NEW alignment, ref.offset \in Nat,
           ResolveChecked(ref, bytes, alignment) # NoAddress
    PROVE  LET at == ResolveChecked(ref, bytes, alignment)
               region == RegionOf(ref)
           IN  /\ at \in Nat /\ region.base \in Nat /\ region.bytes \in Nat
               /\ region.base <= at /\ at + bytes <= region.base + region.bytes
               /\ region.base + region.bytes <= Words
  <1> DEFINE region == RegionOf(ref)
  <1>1. /\ region.ok /\ ValidRange(ref.offset, bytes, region.bytes)
        /\ ResolveChecked(ref, bytes, alignment) = region.base + ref.offset
    BY DEF ResolveChecked
  <1>2. region.base \in Nat /\ region.bytes \in Nat /\ region.base + region.bytes <= Words
    BY <1>1, RegionSound
  <1> HIDE DEF region
  <1>3. ref.offset <= region.bytes /\ bytes <= region.bytes - ref.offset
    BY <1>1 DEF ValidRange
  <1>4. region.base + ref.offset + bytes <= region.base + region.bytes
    BY <1>2, <1>3
  <1> QED  BY <1>1, <1>2, <1>4 DEF region

\* What a checked call went through.
LEMMA CalledChecked ==
    ASSUME NEW c \in Commands, Verdict(c, TRUE).status = "called"
    PROVE  LET p == PlanOf(c)
               at == Verdict(c, TRUE).at
           IN  /\ p.always /\ p.guard /\ DOMAIN at = DOMAIN p.needs
               /\ \A n \in DOMAIN p.needs :
                     /\ at[n] = ResolveChecked(p.needs[n].ref, p.needs[n].bytes, p.needs[n].alignment)
                     /\ at[n] # NoAddress
               /\ \A pair \in p.apart :
                     \/ MayCoincide(c, at[pair[1]], at[pair[2]])
                     \/ ~RangesOverlap(at[pair[1]], p.needs[pair[1]].bytes, at[pair[2]], p.needs[pair[2]].bytes)
  <1> DEFINE p == PlanOf(c)
             at == Addresses(c, TRUE)
  <1>1. /\ p.always /\ p.guard /\ Verdict(c, TRUE).at = at
        /\ \A n \in DOMAIN at : at[n] # NoAddress
        /\ \A pair \in p.apart :
              \/ MayCoincide(c, at[pair[1]], at[pair[2]])
              \/ ~RangesOverlap(at[pair[1]], p.needs[pair[1]].bytes, at[pair[2]], p.needs[pair[2]].bytes)
    <2> HIDE DEF p, at
    <2>1. Verdict(c, TRUE) = Judgement(c, p, at, TRUE)
      BY DEF Verdict, p, at
    <2> DEFINE Meet == \E pair \in p.apart :
                   /\ ~MayCoincide(c, at[pair[1]], at[pair[2]])
                   /\ RangesOverlap(at[pair[1]], p.needs[pair[1]].bytes, at[pair[2]], p.needs[pair[2]].bytes)
               Missing == \E n \in DOMAIN at : at[n] = NoAddress
               Refuse == ~p.always \/ ~p.guard
    <2>2. Verdict(c, TRUE) = IF Refuse THEN Result("bad_command", <<>>)
                             ELSE IF Missing THEN Result("bad_reference", <<>>)
                             ELSE IF Meet THEN Result("bad_command", <<>>)
                             ELSE Result("called", at)
      BY <2>1 DEF Judgement
    <2> HIDE DEF Meet, Missing, Refuse
    <2>3. /\ Result("bad_command", <<>>).status # "called" /\ Result("bad_reference", <<>>).status # "called"
          /\ Result("called", at).at = at
      BY DEF Result
    <2>4. ~Refuse /\ ~Missing /\ ~Meet /\ Verdict(c, TRUE).at = at
      <3>1. CASE Refuse
        BY <2>2, <2>3, <3>1
      <3>2. CASE ~Refuse /\ Missing
        BY <2>2, <2>3, <3>2
      <3>3. CASE ~Refuse /\ ~Missing /\ Meet
        BY <2>2, <2>3, <3>3
      <3>4. CASE ~Refuse /\ ~Missing /\ ~Meet
        BY <2>2, <2>3, <3>4
      <3> QED  BY <3>1, <3>2, <3>3, <3>4
    <2> QED  BY <2>4 DEF Meet, Missing, Refuse
  <1>2. /\ DOMAIN at = DOMAIN p.needs
        /\ \A n \in DOMAIN p.needs :
              at[n] = ResolveChecked(p.needs[n].ref, p.needs[n].bytes, p.needs[n].alignment)
    BY DEF Addresses
  <1> HIDE DEF p, at
  <1>3. Verdict(c, TRUE).at = at
    BY <1>1
  <1> QED  BY <1>1, <1>2, <1>3 DEF p

\* An operation the checked build calls stays inside the regions its references name.
LEMMA TouchInside ==
    ASSUME LoadInv, OutcomeInv, outcome.status = "called", ~trusted,
           NEW t \in TouchesOf(outcome.command).reads \cup TouchesOf(outcome.command).writes
    PROVE  LET need == PlanOf(outcome.command).needs[t.name]
               region == RegionOf(need.ref)
               at == outcome.at[t.name]
           IN  /\ t.name \in DOMAIN outcome.at /\ at \in Nat /\ t.offset \in Nat /\ t.bytes \in Nat
               /\ need.bytes \in Nat /\ t.offset + t.bytes <= need.bytes
               /\ region.base \in Nat /\ region.bytes \in Nat
               /\ region.base <= at /\ at + need.bytes <= region.base + region.bytes
               /\ region.base + region.bytes <= Words
  <1>1. PICK c \in Commands : c = outcome.command
    BY DEF OutcomeInv
  <1>2. /\ stage = "ready" /\ Verdict(c, TRUE).status = "called" /\ outcome.at = Verdict(c, TRUE).at
    <2>1. ~trusted = TRUE
      OBVIOUS
    <2> QED  BY <1>1, <2>1 DEF OutcomeInv
  <1> DEFINE p == PlanOf(c)
             n == t.name
             at == outcome.at
             need == p.needs[n]
  <1>3. /\ p.always /\ p.guard /\ DOMAIN at = DOMAIN p.needs
        /\ \A k \in DOMAIN p.needs :
              /\ at[k] = ResolveChecked(p.needs[k].ref, p.needs[k].bytes, p.needs[k].alignment)
              /\ at[k] # NoAddress
    BY <1>2, CalledChecked
  <1>4. Covers(p, t)
    BY <1>1, <1>3, WholePlanCovered DEF CoversAll
  <1>5. /\ n \in DOMAIN p.needs /\ t.offset \in Nat /\ t.bytes \in Nat /\ need.bytes \in Nat
        /\ t.offset + t.bytes <= need.bytes
    BY <1>4 DEF Covers
  <1>6. need.ref.offset \in Nat
    BY <1>5, OffsetsNatural
  <1>7. at[n] = ResolveChecked(need.ref, need.bytes, need.alignment) /\ at[n] # NoAddress
    BY <1>3, <1>5
  <1> DEFINE region == RegionOf(need.ref)
  <1>8. /\ at[n] \in Nat /\ region.base \in Nat /\ region.bytes \in Nat
        /\ region.base <= at[n] /\ at[n] + need.bytes <= region.base + region.bytes
        /\ region.base + region.bytes <= Words
    <2> HIDE DEF need, at, n
    <2> QED  BY <1>2, <1>5, <1>6, <1>7, CheckedInside
  <1> QED  BY <1>1, <1>3, <1>5, <1>8

\* For every model, every table of addresses and every command: what an operation the checked build
\* calls touches lies inside the regions its references name, all of it below the end of memory.
THEOREM CallsStayInside == CSpec => []TouchesWithinRegions
  <1>1. LoadInv /\ OutcomeInv => TouchesWithinRegions
    <2> DEFINE c == outcome.command
               f == TouchesOf(c)
               regions == [n \in DOMAIN outcome.at |-> RegionOf(PlanOf(c).needs[n].ref)]
    <2> SUFFICES ASSUME LoadInv, OutcomeInv, outcome.status = "called", ~trusted, NEW t \in f.reads \cup f.writes
                 PROVE  LET region == regions[t.name]
                            first  == outcome.at[t.name] + t.offset
                        IN  /\ region.base <= first /\ first + t.bytes <= region.base + region.bytes
                            /\ first + t.bytes <= Words
      BY DEF TouchesWithinRegions
    <2> DEFINE need == PlanOf(c).needs[t.name]
               region == RegionOf(need.ref)
               at == outcome.at[t.name]
    <2>1. /\ t.name \in DOMAIN outcome.at /\ at \in Nat /\ t.offset \in Nat /\ t.bytes \in Nat
          /\ need.bytes \in Nat /\ t.offset + t.bytes <= need.bytes
          /\ region.base \in Nat /\ region.bytes \in Nat
          /\ region.base <= at /\ at + need.bytes <= region.base + region.bytes
          /\ region.base + region.bytes <= Words
      BY TouchInside
    <2>2. regions[t.name] = region
      BY <2>1
    <2> HIDE DEF need, region, at, regions
    <2>3. region.base <= at + t.offset /\ at + t.offset + t.bytes <= region.base + region.bytes
      BY <2>1
    <2>4. at + t.offset + t.bytes <= Words
      BY <2>1, <2>3, WordsNatural
    <2> QED  BY <2>2, <2>3, <2>4 DEF at
  <1> QED  BY <1>1, LoadInvariance, OutcomeInvariance, ExecutionIsLoad, PTL

----
(* Results and sources. *)

LEMMA RangesApart ==
    ASSUME NEW lhs \in Nat, NEW lhs_bytes \in Nat, NEW rhs \in Nat, NEW rhs_bytes \in Nat,
           ~RangesOverlap(lhs, lhs_bytes, rhs, rhs_bytes)
    PROVE  lhs + lhs_bytes <= rhs \/ rhs + rhs_bytes <= lhs
  BY DEF RangesOverlap

\* The commands SourcesSurvive is about test the range of every result against every source, the
\* tables of a lookup apart: those are read from the model.
LEMMA PairsTested ==
    ASSUME NEW c, c.type \in Separated \/ (c.type = "copy_layout" /\ c.mode = "c32_to_chw"),
           NEW t \in TouchesOf(c).reads, NEW u \in TouchesOf(c).writes, t.name # u.name
    PROVE  \/ <<t.name, u.name>> \in PlanOf(c).apart
           \/ <<u.name, t.name>> \in PlanOf(c).apart
           \/ c.type = "afu_dfl16" /\ t.name = "exp_lut" /\ u.name \in {"destination", "scratch"}
  <1>1. CASE c.type \in {"afu_binary", "spatz_add", "afu_binary_quant"}
    <2>1. PlanOf(c) = BinaryPlan(c) /\ TouchesOf(c) = BinaryTouches(c)
      BY <1>1 DEF PlanOf, TouchesOf
    <2>2. t.name \in {"lhs", "rhs"} /\ u.name = "ofm"
      BY <2>1 DEF BinaryTouches, Footprint, Whole, Touch
    <2> QED  BY <2>1, <2>2 DEF BinaryPlan, Plan
  <1>2. CASE c.type = "afu_lut"
    <2>1. PlanOf(c) = LutPlan(c) /\ TouchesOf(c) = LutTouches(c)
      BY <1>2 DEF PlanOf, TouchesOf
    <2>2. t.name = "ifm" /\ u.name = "ofm"
      BY <2>1 DEF LutTouches, Footprint, Whole, Touch
    <2> QED  BY <2>1, <2>2 DEF LutPlan, Plan
  <1>3. CASE c.type = "afu_dfl16"
    <2>1. PlanOf(c) = DflPlan(c) /\ TouchesOf(c) = DflTouches(c)
      BY <1>3 DEF PlanOf, TouchesOf
    <2>2. t.name \in {"source", "exp_lut", "scratch"}
      BY <2>1 DEF DflTouches, Footprint, Whole, Touch
    <2>3. u.name \in {"destination", "scratch"}
      BY <2>1 DEF DflTouches, Footprint, Rows, Touch
    <2>4. PlanOf(c).apart = {<<"source", "destination">>, <<"source", "scratch">>, <<"destination", "scratch">>}
      BY <2>1 DEF DflPlan, Plan
    <2> QED  BY <1>3, <2>2, <2>3, <2>4
  <1>4. CASE c.type = "afu_global_avgpool"
    <2>1. PlanOf(c) = AvgpoolPlan(c) /\ TouchesOf(c) = AvgpoolTouches(c)
      BY <1>4 DEF PlanOf, TouchesOf
    <2>2. t.name = "ifm" /\ u.name = "ofm"
      BY <2>1 DEF AvgpoolTouches, Footprint, Whole, Touch
    <2> QED  BY <2>1, <2>2 DEF AvgpoolPlan, Plan
  <1>5. CASE c.type = "upsample_nearest"
    <2>1. PlanOf(c) = UpsamplePlan(c) /\ TouchesOf(c) = UpsampleTouches(c)
      BY <1>5 DEF PlanOf, TouchesOf
    <2>2. t.name = "ifm" /\ u.name = "ofm"
      BY <2>1 DEF UpsampleTouches, Footprint, Rows, Touch
    <2> QED  BY <2>1, <2>2 DEF UpsamplePlan, Plan
  <1>6. CASE c.type = "maxpool"
    <2>1. PlanOf(c) = MaxpoolPlan(c) /\ TouchesOf(c) = MaxpoolTouches(c)
      BY <1>6 DEF PlanOf, TouchesOf
    <2>2. t.name = "ifm" /\ u.name = "ofm"
      BY <2>1 DEF MaxpoolTouches, Footprint, Rows, Touch
    <2> QED  BY <2>1, <2>2 DEF MaxpoolPlan, Plan
  <1>7. CASE c.type = "copy_layout" /\ c.mode = "c32_to_chw"
    <2>1. PlanOf(c) = CopyPlan(c) /\ TouchesOf(c) = CopyTouches(c)
      BY <1>7 DEF PlanOf, TouchesOf
    <2>2. t.name = "source" /\ u.name = "destination"
      BY <1>7, <2>1 DEF CopyTouches, Footprint, Touch
    <2> QED  BY <1>7, <2>1, <2>2 DEF CopyPlan, Plan
  <1> QED  BY <1>1, <1>2, <1>3, <1>4, <1>5, <1>6, <1>7 DEF Separated

\* The tables of a DFL lie in the model, its results in the scratch memory.
LEMMA TableApart ==
    ASSUME LoadInv, stage = "ready", NEW c, c.type = "afu_dfl16", PlanOf(c).guard,
           NEW n \in {"destination", "scratch"}
    PROVE  LET table_at == RegionOf(PlanOf(c).needs["exp_lut"].ref)
               result == RegionOf(PlanOf(c).needs[n].ref)
           IN  table_at.ok /\ result.ok =>
                  \/ table_at.base + table_at.bytes <= result.base
                  \/ result.base + result.bytes <= table_at.base
  <1> DEFINE lut == PlanOf(c).needs["exp_lut"].ref
             out == PlanOf(c).needs[n].ref
  <1>1. lut = c.exp_lut /\ out = c[n] /\ lut.region = "constants" /\ out.region = "scratch"
    <2>1. PlanOf(c) = DflPlan(c)
      BY DEF PlanOf
    <2>2. lut = c.exp_lut /\ out = c[n]
      BY <2>1 DEF DflPlan, Plan, Need
    <2>3. c.exp_lut.region = "constants" /\ c[n].region = "scratch"
      BY <2>1 DEF DflPlan, Plan, Scratch
    <2> QED  BY <2>2, <2>3
  <1> HIDE DEF lut, out
  <1> SUFFICES ASSUME RegionOf(lut).ok, RegionOf(out).ok
               PROVE  \/ RegionOf(lut).base + RegionOf(lut).bytes <= RegionOf(out).base
                      \/ RegionOf(out).base + RegionOf(out).bytes <= RegionOf(lut).base
    BY DEF lut, out
  <1>2. /\ Inputs /\ HeaderAccepted /\ SectionsAccepted /\ invocation \in Invocations
    BY InputsTyped DEF LoadInv, StageInv, Opened, TypeOK
  <1>3. PICK i \in DOMAIN package.sections : Section(package, "constants") = package.sections[i]
    BY <1>2, SectionThere DEF Required, SectionTypes
  <1> DEFINE s == package.sections[i]
  <1>4. RegionOf(lut).base = invocation.model_base + s.offset /\ RegionOf(lut).bytes = s.size
    <2>1. RegionOf(lut) = InModel(lut, s)
      BY <1>1, <1>3 DEF RegionOf, Directions
    <2>2. InModel(lut, s) = Region(invocation.model_base + s.offset, s.size)
      BY <2>1, NoneRefused DEF InModel
    <2> QED  BY <2>1, <2>2, RegionFields
  <1>5. RegionOf(out).base = TcdmBase /\ RegionOf(out).bytes = package.header.tcdm_bytes
    <2>1. RegionOf(out) = Region(TcdmBase, package.header.tcdm_bytes)
      BY <1>1, NoneRefused DEF RegionOf, Directions
    <2> QED  BY <2>1, RegionFields
  <1>6. s.offset \in Nat /\ s.size \in Nat /\ s.offset + s.size <= invocation.model_bytes
    <2>1. s.offset \in Nat /\ s.size \in Nat /\ s.offset + s.size <= package.header.total_bytes
      BY <1>2, SectionFits
    <2>2. package.header.total_bytes \in Nat /\ package.header.total_bytes <= invocation.model_bytes
      BY <1>2, HeaderFits
    <2>3. invocation.model_bytes \in Nat
      BY <1>2, LoaderAssumption, WordsNatural
    <2> HIDE DEF s
    <2> QED  BY <2>1, <2>2, <2>3
  <1>7. package.header.tcdm_bytes \in Nat /\ package.header.tcdm_bytes <= TcdmLimit
    BY <1>2, ScratchFits
  <1>8. /\ invocation.model_base \in Nat /\ invocation.model_bytes \in Nat /\ TcdmBase \in Nat /\ TcdmLimit \in Nat
        /\ \/ invocation.model_base + invocation.model_bytes <= TcdmBase
           \/ TcdmBase + TcdmLimit <= invocation.model_base
    BY <1>2, LoaderAssumption, WordsNatural, ModelsOutsideScratch
  <1> HIDE DEF s
  <1> QED  BY <1>4, <1>5, <1>6, <1>7, <1>8

\* Nothing a command of this kind writes lands on a source it still reads.
THEOREM ResultsSpareSources == CSpec => []SourcesSurvive
  <1>1. LoadInv /\ OutcomeInv => SourcesSurvive
    <2> DEFINE c == outcome.command
               f == TouchesOf(c)
               p == PlanOf(c)
               at == outcome.at
    <2> SUFFICES ASSUME LoadInv, OutcomeInv, outcome.status = "called", ~trusted,
                        c.type \in Separated \/ (c.type = "copy_layout" /\ c.mode = "c32_to_chw"),
                        ~(c.type = "afu_lut" /\ at["ifm"] = at["ofm"]),
                        NEW m \in DOMAIN at, NEW n \in DOMAIN at, m # n,
                        NEW x \in Bytes(f.reads, m) \cap Bytes(f.writes, n)
                 PROVE  FALSE
      BY DEF SourcesSurvive
    <2>1. PICK t \in f.reads : t.name = m /\ x \in (at[m] + t.offset) .. (at[m] + t.offset + t.bytes - 1)
      BY DEF Bytes
    <2>2. PICK u \in f.writes : u.name = n /\ x \in (at[n] + u.offset) .. (at[n] + u.offset + u.bytes - 1)
      BY DEF Bytes
    <2>3. /\ at[m] \in Nat /\ p.needs[m].bytes \in Nat
          /\ at[m] <= x /\ x < at[m] + p.needs[m].bytes
          /\ RegionOf(p.needs[m].ref).base <= x
          /\ x < RegionOf(p.needs[m].ref).base + RegionOf(p.needs[m].ref).bytes
          /\ RegionOf(p.needs[m].ref).base \in Nat /\ RegionOf(p.needs[m].ref).bytes \in Nat
      <3> DEFINE need == p.needs[m]
                 region == RegionOf(need.ref)
      <3>1. /\ at[m] \in Nat /\ t.offset \in Nat /\ t.bytes \in Nat
            /\ need.bytes \in Nat /\ t.offset + t.bytes <= need.bytes
            /\ region.base \in Nat /\ region.bytes \in Nat
            /\ region.base <= at[m] /\ at[m] + need.bytes <= region.base + region.bytes
        BY <2>1, TouchInside
      <3> HIDE DEF need, region, at
      <3>2. x \in Nat /\ at[m] <= x /\ x < at[m] + need.bytes
        BY <2>1, <3>1
      <3>3. region.base <= x /\ x < region.base + region.bytes
        BY <3>1, <3>2
      <3> QED  BY <3>1, <3>2, <3>3 DEF need, region
    <2>4. /\ at[n] \in Nat /\ p.needs[n].bytes \in Nat
          /\ at[n] <= x /\ x < at[n] + p.needs[n].bytes
          /\ RegionOf(p.needs[n].ref).base <= x
          /\ x < RegionOf(p.needs[n].ref).base + RegionOf(p.needs[n].ref).bytes
          /\ RegionOf(p.needs[n].ref).base \in Nat /\ RegionOf(p.needs[n].ref).bytes \in Nat
      <3> DEFINE need == p.needs[n]
                 region == RegionOf(need.ref)
      <3>1. /\ at[n] \in Nat /\ u.offset \in Nat /\ u.bytes \in Nat
            /\ need.bytes \in Nat /\ u.offset + u.bytes <= need.bytes
            /\ region.base \in Nat /\ region.bytes \in Nat
            /\ region.base <= at[n] /\ at[n] + need.bytes <= region.base + region.bytes
        BY <2>2, TouchInside
      <3> HIDE DEF need, region, at
      <3>2. x \in Nat /\ at[n] <= x /\ x < at[n] + need.bytes
        BY <2>2, <3>1
      <3>3. region.base <= x /\ x < region.base + region.bytes
        BY <3>1, <3>2
      <3> QED  BY <3>1, <3>2, <3>3 DEF need, region
    <2>5. /\ c \in Commands /\ stage = "ready"
          /\ Verdict(c, TRUE).status = "called" /\ at = Verdict(c, TRUE).at
      <3>1. ~trusted = TRUE
        OBVIOUS
      <3> QED  BY <3>1 DEF OutcomeInv
    <2>6. /\ p.guard /\ DOMAIN at = DOMAIN p.needs
          /\ \A k \in DOMAIN p.needs :
                /\ at[k] = ResolveChecked(p.needs[k].ref, p.needs[k].bytes, p.needs[k].alignment)
                /\ at[k] # NoAddress
          /\ \A pair \in p.apart :
                \/ MayCoincide(c, at[pair[1]], at[pair[2]])
                \/ ~RangesOverlap(at[pair[1]], p.needs[pair[1]].bytes, at[pair[2]], p.needs[pair[2]].bytes)
      BY <2>5, CalledChecked
    <2>7. \/ <<m, n>> \in p.apart
          \/ <<n, m>> \in p.apart
          \/ c.type = "afu_dfl16" /\ m = "exp_lut" /\ n \in {"destination", "scratch"}
      BY <2>1, <2>2, PairsTested
    <2>8. ASSUME <<m, n>> \in p.apart \/ <<n, m>> \in p.apart PROVE FALSE
      <3>1. PICK a \in {m, n}, b \in {m, n} : <<a, b>> \in p.apart /\ a # b
        BY <2>8
      <3> DEFINE A == at[a]
                 B == at[b]
                 AB == p.needs[a].bytes
                 BB == p.needs[b].bytes
      <3>2. MayCoincide(c, A, B) \/ ~RangesOverlap(A, AB, B, BB)
        BY <2>6, <3>1
      <3>3. A \in Nat /\ B \in Nat /\ AB \in Nat /\ BB \in Nat /\ A <= x /\ B <= x /\ x < A + AB /\ x < B + BB
        BY <2>3, <2>4
      <3>4. ~MayCoincide(c, A, B)
        <4> SUFFICES ASSUME c.type = "afu_lut", A = B PROVE FALSE
          BY DEF MayCoincide
        <4>1. p.apart = {<<"ifm", "ofm">>}
          BY DEF PlanOf, LutPlan, Plan
        <4> QED  BY <3>1, <4>1
      <3> HIDE DEF A, B, AB, BB
      <3>5. x \in Nat /\ (A + AB <= B \/ B + BB <= A)
        BY <2>1, <3>2, <3>3, <3>4, RangesApart
      <3> QED  BY <3>3, <3>5
    <2>9. ASSUME c.type = "afu_dfl16", m = "exp_lut", n \in {"destination", "scratch"} PROVE FALSE
      <3>1. RegionOf(p.needs[m].ref).ok /\ RegionOf(p.needs[n].ref).ok
        BY <2>6 DEF ResolveChecked
      <3> DEFINE R == RegionOf(p.needs[m].ref)
                 S == RegionOf(p.needs[n].ref)
      <3>2. R.base + R.bytes <= S.base \/ S.base + S.bytes <= R.base
        BY <2>5, <2>6, <2>9, <3>1, TableApart
      <3>3. /\ R.base <= x /\ x < R.base + R.bytes /\ S.base <= x /\ x < S.base + S.bytes
            /\ R.base \in Nat /\ R.bytes \in Nat /\ S.base \in Nat /\ S.bytes \in Nat
        BY <2>3, <2>4
      <3>4. x \in Nat
        <4>1. at[m] \in Nat /\ t.offset \in Nat
          BY <2>1, <2>3, TouchInside
        <4> HIDE DEF at
        <4> QED  BY <2>1, <4>1
      <3> HIDE DEF R, S
      <3> QED  BY <3>2, <3>3, <3>4
    <2> QED  BY <2>7, <2>8, <2>9
  <1> QED  BY <1>1, LoadInvariance, OutcomeInvariance, ExecutionIsLoad, PTL

====
