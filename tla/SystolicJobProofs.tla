---- MODULE SystolicJobProofs ----
(***************************************************************************)
(* Proofs about the matrix job of the systolic controller, for every size  *)
(* of the array, depth of the FIFOs, number of tiles and of rows.          *)
(***************************************************************************)
EXTENDS SystolicJob, SequenceTheorems, TLAPS

\* Jobs that accumulate have one tile: over several the job waits for a row that does not come.
OneTile == \A j \in Jobs : j.accum => j.tiles = 1

\* No PSUM read is forgotten at the start of a tile.
Sound == \A j \in Jobs : j.accum => ~GrantAtStart

----
(* The inductive invariant. *)

\* The job at hand forgets no PSUM read.
Clean == job.accum => ~GrantAtStart

One(x) == IF x = None THEN 0 ELSE 1

\* Rows lo to hi - 1 move along n registers in order, the first of them the furthest; f says the row
\* each register holds, -1 for none.
Lines(f, n, lo, hi) ==
    /\ \A i \in 1 .. n : f[i] \in Int /\ (f[i] # -1 => lo <= f[i] /\ f[i] < hi)
    /\ \A r \in lo .. (hi - 1) : \E i \in 1 .. n : f[i] = r
    /\ \A i, k \in 1 .. n : i < k /\ f[i] # -1 /\ f[k] # -1 => f[k] < f[i]


\* The sequencer: the array is flushed before the weights of the next tile are fetched, and these
\* are there when a tile after the first begins.
SeqInv ==
    /\ job \in Jobs /\ state \in Running \cup {"IDLE", "DONE"}
    /\ flush \in 0 .. Stages /\ tile \in 0 .. (job.tiles - 1)
    /\ state \in {"LOAD_WEIGHTS", "COMPUTE"} => flush = 0
    /\ state = "DONE" => ~HasNext
    /\ state = "LOAD_WEIGHTS" => (w.done <=> tile # 0)
    /\ state = "WAIT_DRAIN" /\ (w.active \/ w.done) => flush = 0 /\ HasNext

\* Every row of the array holds the weight of tile t.
Holds(t) == \A r \in ArrayRows : held[r] = <<t, r>>

\* The weights of tile t are being fetched: the array holds the rows that came, moved on.
Fetching(t) ==
    /\ w.tile = t /\ w.rsp = w.req + One(w.rdata) /\ w.rsp >= 1
    /\ w.rdata # None => w.rdata = <<t, w.req>>
    /\ \A r \in ArrayRows : r < Dim - w.rsp => held[r] = <<t, w.rsp + r>>

\* The weight engine: outside its two phases of fetching the array holds the weights of one tile.
WeightInv ==
    /\ w \in [req : 0 .. Dim, rsp : 0 .. Dim, obi : 0 .. Dim, active : BOOLEAN, done : BOOLEAN,
              tile : Tiles, fifo : {<<>>}, rdata : Weight \cup {None}]
    /\ held \in [ArrayRows -> Weight \cup {None}]
    /\ w.active => state = "WAIT_DRAIN" /\ ~w.done /\ w.obi = w.rsp /\ Fetching(tile + 1)
    /\ w.done => state \in {"LOAD_WEIGHTS", "WAIT_DRAIN"}
    /\ Loading => Fetching(0)
    /\ ~w.active /\ ~Loading => w.rdata = None
    /\ state \in Running /\ ~w.active /\ ~Loading =>
           Holds(IF state = "WAIT_DRAIN" /\ w.done THEN tile + 1 ELSE tile)

\* Rows still to be fed, and rows fed.
ToFeed == IF job.linebuf THEN inp.req ELSE inp.rsp
Fed == job.m - ToFeed

RowIs(v, r) == v = [tile |-> tile, row |-> r, ok |-> TRUE]

\* The input engine: what is on the way from memory are the rows that follow those fed.
InputInv ==
    /\ inp \in [req : 0 .. MaxM, rsp : 0 .. MaxM, fifo : Seq(Vector), rdata : Vector \cup {None}]
    /\ Len(inp.fifo) <= InputDepth
    /\ state # "COMPUTE" \/ job.linebuf => inp.fifo = <<>> /\ inp.rdata = None
    /\ state = "WAIT_DRAIN" => ToFeed = 0
    /\ state = "COMPUTE" => ToFeed \in 1 .. job.m
    /\ state = "COMPUTE" /\ ~job.linebuf =>
           /\ inp.rsp = inp.req + Len(inp.fifo) + One(inp.rdata)
           /\ inp.rdata # None => Len(inp.fifo) < InputDepth /\ RowIs(inp.rdata, Fed + Len(inp.fifo))
           /\ \A i \in 1 .. Len(inp.fifo) : RowIs(inp.fifo[i], Fed + (i - 1))

\* The line buffer: it is busy with the tile the sequencer is at, and waits when a tile begins.
LineInv ==
    /\ prefetchReq \in BOOLEAN
    /\ lb \in [tile : Nat, left : 0 .. MaxM, busy : BOOLEAN, filling : BOOLEAN, filled : BOOLEAN]
    /\ ~lb.busy => lb.left = 0 /\ ~lb.filling
    /\ ~job.linebuf \/ state \in {"IDLE", "DONE"} => ~lb.busy
    /\ lb.busy => lb.tile < job.tiles
    /\ state = "LOAD_WEIGHTS" => IF tile = 0 THEN ~lb.busy ELSE LbWaits /\ lb.tile = tile - 1
    /\ state = "COMPUTE" /\ job.linebuf =>
           lb.busy /\ lb.tile = tile /\ lb.left = inp.req /\ ~lb.filling
    /\ state = "WAIT_DRAIN" =>
           /\ lb.left = 0
           /\ lb.busy => lb.tile = tile
           /\ lb.filling => HasNext
           /\ HasNext => lb.busy /\ (lb.filling \/ lb.filled \/ prefetchReq \/ flush = Stages)
           /\ w.active \/ w.done => lb.filling \/ lb.filled

Busy == state \in {"COMPUTE", "WAIT_DRAIN"}

PipeRow == [i \in 1 .. Stages |-> IF pipe[i] = None THEN -1 ELSE pipe[i].row]

\* The array: it holds the rows fed and not yet pushed, and none that flush would not have moved out.
PipeInv ==
    /\ pipe \in [1 .. Stages -> Vector \cup {None}]
    /\ ~Busy => \A i \in 1 .. Stages : pipe[i] = None
    /\ Busy => drain.pushRow <= Fed /\ Lines(PipeRow, Stages, drain.pushRow, Fed)
    /\ \A i \in 1 .. Stages : pipe[i] # None => RowIs(pipe[i], pipe[i].row)
    /\ state = "WAIT_DRAIN" => \A i \in 1 .. Stages : pipe[i] # None => i + flush > Stages

\* Results taken from the OFM FIFO.
Taken == drain.pushRow - Len(ofm)

\* The OFM FIFO: the results pushed and not yet taken, in order; those of a tile the PSUM buffer adds
\* up do not stay in it.
OfmInv ==
    /\ ofm \in Seq(Entry) /\ Len(ofm) <= OfmDepth
    /\ ~Busy => ofm = <<>>
    /\ Busy =>
           /\ 0 <= Taken
           /\ \A i \in 1 .. Len(ofm) :
                  ofm[i] = [val |-> {<<tile, Taken + (i - 1)>>}, row |-> Taken + (i - 1), tile |-> tile,
                            ext |-> FALSE, final |-> ~HasNext]
           /\ PsumBuf /\ HasNext => ofm = <<>>

\* The counters of the drain: a row is counted off when it goes to the PSUM buffer or is written.
RowsInv ==
    /\ drain \in [rows : 0 .. MaxM, pushRow : 0 .. MaxM, region : {"ofm", "psum"}, oRow : 0 .. MaxM,
                  aRow : Nat, prefetch : 0 .. MaxM, read : Sums \cup {None}, sent : BOOLEAN]
    /\ state = "LOAD_WEIGHTS" => drain.oRow = 0 /\ drain.rows = (IF tile = 0 THEN job.m ELSE 0)
    /\ Busy => IF PsumBuf /\ HasNext THEN drain.oRow = 0 /\ drain.rows = job.m - drain.pushRow
               ELSE drain.rows = job.m - drain.oRow /\ drain.oRow <= Taken
    /\ state \in Running => drain.region = IF ThroughMemory(job) /\ HasNext THEN "psum" ELSE "ofm"
    /\ state = "DONE" => drain.oRow = job.m

\* The requant pipeline: rows taken and not yet written move along it, complete and in order.
RqRows(f) ==
    /\ Lines(f, RequantStages, drain.oRow, Taken)
    /\ \A i \in 1 .. RequantStages : f[i] = -1 <=> rq[i] = None
    /\ Clean => \A i \in 1 .. RequantStages : f[i] # -1 => rq[i] = Matrix!Product(job, f[i])

RqInv ==
    /\ rq \in [1 .. RequantStages -> Sums \cup {None}]
    /\ ~Busy \/ ~RequantActive => \A i \in 1 .. RequantStages : rq[i] = None
    /\ Busy /\ ~(PsumBuf /\ HasNext) => \E f \in [1 .. RequantStages -> Int] : RqRows(f)

\* The tile adds partial sums that are read from memory.
ReadsSums == ~PsumBuf /\ AccumActive

\* The contributions of the tiles below t to row r, and what row r of the PSUM region holds.
UpTo(r, t) == {<<k, r>> : k \in 0 .. (t - 1)}
SumsOf(r) == IF job.accum THEN {<<Psum, r>>} ELSE UpTo(r, tile)

\* The row of the first partial sum on the way.
SumsBase == IF Busy THEN Taken ELSE 0

\* The partial sums on the way are the rows that follow the rows taken, and what is still to be read
\* is not written over.
SumsAhead ==
    /\ drain.aRow = SumsBase + Len(psum) + One(drain.read)
    /\ ~job.accum /\ Busy => drain.aRow + drain.prefetch = job.m
    /\ \A i \in 1 .. Len(psum) : SumsBase + (i - 1) < job.m => psum[i] = SumsOf(SumsBase + (i - 1))
    /\ drain.read # None /\ drain.aRow - 1 < job.m => drain.read = SumsOf(drain.aRow - 1)
    /\ \A r \in 0 .. (job.m - 1) : drain.aRow <= r => mem["psum"][r] = SumsOf(r)

\* Partial sums: there are none without a reader, and a read finds room.
PsumInv ==
    /\ psum \in Seq(Sums) /\ Len(psum) <= OfmDepth
    /\ drain.read # None => Len(psum) < OfmDepth
    /\ state \in Running => drain.prefetch <= job.m
    /\ state \in Running /\ ~ReadsSums => psum = <<>> /\ drain.read = None /\ drain.prefetch = 0
    /\ ~job.accum /\ state = "LOAD_WEIGHTS" =>
           psum = <<>> /\ drain.read = None /\ drain.prefetch = 0 /\ drain.aRow = 0
    /\ ~job.accum /\ state \in Running /\ ~ReadsSums => drain.aRow = 0
    /\ Clean /\ ReadsSums /\ state \in Running => SumsAhead

\* The two memories: a row of the output that is written is the whole sum.
MemInv ==
    /\ mem \in [{"ofm", "psum"} -> [OutRows -> Sums \cup {None}]]
    /\ buf \in [OutRows -> Sums]
    /\ state \in Running \cup {"DONE"} =>
           \A r \in OutRows : mem["ofm"][r] # None <=> ~HasNext /\ r < drain.oRow
    /\ Clean /\ state \in Running \cup {"DONE"} /\ ~HasNext =>
           \A r \in OutRows : r < drain.oRow => mem["ofm"][r] = Matrix!Product(job, r)
    /\ Clean /\ state \in Running /\ ThroughMemory(job) /\ HasNext =>
           \A r \in OutRows : r < drain.oRow => mem["psum"][r] = UpTo(r, tile + 1)
    /\ PsumBuf /\ state = "LOAD_WEIGHTS" => tile = 0
    /\ PsumBuf /\ Busy => \A r \in 0 .. (job.m - 1) :
           IF HasNext /\ r < drain.pushRow THEN buf[r] = UpTo(r, tile + 1)
           ELSE tile # 0 => buf[r] = UpTo(r, tile)

IInv == /\ SeqInv /\ WeightInv /\ InputInv /\ LineInv /\ PipeInv /\ OfmInv /\ RowsInv /\ RqInv
        /\ PsumInv /\ MemInv

----
(* Rows that move along registers. *)

\* The registers in z, the first ones, move on by one, into an empty one or out of the last, and
\* row hi, if h says so, enters the first: rows lo to hi - 1 become rows l to h - 1.
Moves(f, n, lo, hi, z, g, l, h) ==
    /\ z \subseteq 1 .. n
    /\ \A i, k \in 1 .. n : i < k /\ k \in z => i \in z
    /\ \A i \in z : i # n /\ i + 1 \notin z => f[i] = -1
    /\ h = hi \/ (h = hi + 1 /\ 1 \in z)
    /\ \A i \in 1 .. n : g[i] = IF i \notin z THEN f[i]
                                ELSE IF i = 1 THEN (IF h = hi THEN -1 ELSE hi) ELSE f[i - 1]
    /\ l = IF n \in z /\ f[n] # -1 THEN lo + 1 ELSE lo

\* What leaves, if the last moves, is the first row.
LEMMA LinesMove ==
    ASSUME NEW n \in Nat \ {0}, NEW lo \in Nat, NEW hi \in Nat, lo <= hi, NEW f, NEW g, NEW z,
           NEW h, NEW l, Lines(f, n, lo, hi), Moves(f, n, lo, hi, z, g, l, h)
    PROVE  /\ f[n] # -1 => f[n] = lo /\ lo < hi
           /\ Lines(g, n, l, h)
  <1> USE DEF Moves
  <1>1. /\ \A i \in 1 .. n : f[i] \in Int /\ (f[i] # -1 => lo <= f[i] /\ f[i] < hi)
        /\ \A r \in lo .. (hi - 1) : \E i \in 1 .. n : f[i] = r
        /\ \A i, k \in 1 .. n : i < k /\ f[i] # -1 /\ f[k] # -1 => f[k] < f[i]
    BY DEF Lines
  <1>2. f[n] # -1 => f[n] = lo /\ lo < hi
    <2>1. ASSUME f[n] # -1 PROVE f[n] = lo /\ lo < hi
      <3>1. lo <= f[n] /\ f[n] < hi /\ f[n] \in Int
        BY <2>1, <1>1
      <3>2. PICK i \in 1 .. n : f[i] = lo
        BY <3>1, <1>1
      <3> QED  BY <2>1, <3>1, <3>2, <1>1
    <2> QED  BY <2>1
  <1>3. \A i \in 1 .. n : ~(i = n /\ n \in z) /\ f[i] # -1 => l <= f[i] /\ f[i] < hi
    <2> SUFFICES ASSUME NEW i \in 1 .. n, ~(i = n /\ n \in z), f[i] # -1
                 PROVE  l <= f[i] /\ f[i] < hi
      OBVIOUS
    <2>1. lo <= f[i] /\ f[i] < hi /\ f[i] \in Int
      BY <1>1
    <2>2. CASE ~(n \in z /\ f[n] # -1)
      BY <2>1, <2>2
    <2>3. CASE n \in z /\ f[n] # -1
      <3>1. f[n] = lo /\ i < n
        BY <2>3, <1>2
      <3>2. f[n] < f[i]
        BY <3>1, <2>3, <1>1
      <3> QED  BY <3>1, <3>2, <2>1, <2>3
    <2> QED  BY <2>2, <2>3
  <1>4. \A i \in 1 .. n : g[i] \in Int /\ (g[i] # -1 => l <= g[i] /\ g[i] < h)
    <2> SUFFICES ASSUME NEW i \in 1 .. n
                 PROVE  g[i] \in Int /\ (g[i] # -1 => l <= g[i] /\ g[i] < h)
      OBVIOUS
    <2>0. hi <= h /\ l <= hi
      BY <1>2
    <2>1. CASE i \notin z
      <3>1. g[i] = f[i] /\ ~(i = n /\ n \in z)
        BY <2>1
      <3> QED  BY <3>1, <1>3, <1>1, <2>0
    <2>2. CASE i \in z /\ i = 1
      <3>1. g[i] = IF h = hi THEN -1 ELSE hi
        BY <2>2
      <3> QED  BY <3>1, <2>0
    <2>3. CASE i \in z /\ i # 1
      <3>1. g[i] = f[i - 1] /\ i - 1 \in 1 .. n /\ i - 1 # n
        BY <2>3
      <3> QED  BY <3>1, <1>3, <1>1, <2>0
    <2> QED  BY <2>1, <2>2, <2>3
  <1>5. \A r \in l .. (h - 1) : \E i \in 1 .. n : g[i] = r
    <2> SUFFICES ASSUME NEW r \in l .. (h - 1) PROVE \E i \in 1 .. n : g[i] = r
      OBVIOUS
    <2>1. CASE h # hi /\ r = hi
      BY <2>1
    <2>2. CASE ~(h # hi /\ r = hi)
      <3>1. r \in lo .. (hi - 1)
        BY <2>2
      <3>2. PICK i \in 1 .. n : f[i] = r
        BY <3>1, <1>1
      <3>3. f[i] # -1 /\ ~(i = n /\ n \in z)
        <4>1. f[i] # -1
          BY <3>1, <3>2
        <4> QED  BY <3>2, <4>1, <1>2
      <3>4. CASE i \notin z
        BY <3>2, <3>4
      <3>5. CASE i \in z
        <4>1. i # n /\ i + 1 \in 1 .. n /\ i + 1 \in z
          BY <3>3, <3>5
        <4>2. g[i + 1] = f[i]
          BY <4>1
        <4> QED  BY <3>2, <4>1, <4>2
      <3> QED  BY <3>4, <3>5
    <2> QED  BY <2>1, <2>2
  <1>6. ASSUME NEW i \in 1 .. n, NEW k \in 1 .. n, i < k, g[i] # -1, g[k] # -1
        PROVE  g[k] < g[i]
    <2>1. CASE k \notin z /\ i \notin z
      BY <2>1, <1>6, <1>1
    <2>2. CASE k \notin z /\ i \in z /\ i # 1
      <3>1. g[k] = f[k] /\ g[i] = f[i - 1] /\ i - 1 \in 1 .. n /\ i - 1 < k
        BY <2>2, <1>6
      <3> QED  BY <3>1, <1>6, <1>1
    <2>3. CASE k \in z /\ i # 1
      <3>1. i \in z
        BY <2>3, <1>6
      <3>2. g[k] = f[k - 1] /\ g[i] = f[i - 1] /\ i - 1 \in 1 .. n /\ k - 1 \in 1 .. n
        BY <2>3, <3>1, <1>6
      <3> QED  BY <3>2, <1>6, <1>1
    <2>4. CASE i = 1 /\ i \in z
      <3>1. g[i] = hi /\ h = hi + 1
        BY <2>4, <1>6
      <3>2. g[k] = IF k \notin z THEN f[k] ELSE f[k - 1]
        BY <2>4, <1>6
      <3>3. g[k] < hi
        BY <3>2, <1>6, <1>1, <2>4
      <3> QED  BY <3>1, <3>3
    <2> QED  BY <2>1, <2>2, <2>3, <2>4, <1>6
  <1>7. Lines(g, n, l, h)
    BY <1>4, <1>5, <1>6 DEF Lines
  <1> QED  BY <1>2, <1>7

\* The last register holds the first row or none, and without rows all are empty.
LEMMA LinesEnds ==
    ASSUME NEW n \in Nat \ {0}, NEW lo \in Nat, NEW hi \in Nat, NEW f, Lines(f, n, lo, hi)
    PROVE  /\ f[n] # -1 => f[n] = lo /\ lo < hi
           /\ hi <= lo => \A i \in 1 .. n : f[i] = -1
  <1>1. /\ \A i \in 1 .. n : f[i] \in Int /\ (f[i] # -1 => lo <= f[i] /\ f[i] < hi)
        /\ \A r \in lo .. (hi - 1) : \E i \in 1 .. n : f[i] = r
        /\ \A i, k \in 1 .. n : i < k /\ f[i] # -1 /\ f[k] # -1 => f[k] < f[i]
    BY DEF Lines
  <1>2. ASSUME f[n] # -1 PROVE f[n] = lo /\ lo < hi
    <2>1. lo <= f[n] /\ f[n] < hi /\ f[n] \in Int
      BY <1>1, <1>2
    <2>2. PICK i \in 1 .. n : f[i] = lo
      BY <2>1, <1>1
    <2> QED  BY <2>1, <2>2, <1>1, <1>2
  <1>3. ASSUME hi <= lo, NEW i \in 1 .. n PROVE f[i] = -1
    BY <1>1, <1>3
  <1> QED  BY <1>2, <1>3

----
(* FIFOs. *)

\* A FIFO takes an entry that finds room, behind the others.
LEMMA PushFacts ==
    ASSUME NEW S, NEW f \in Seq(S), NEW x, x # None => x \in S, NEW depth \in Nat
    PROVE  /\ Push(f, x, depth) \in Seq(S)
           /\ x = None \/ Len(f) >= depth => Push(f, x, depth) = f
           /\ x # None /\ Len(f) < depth =>
                /\ Len(Push(f, x, depth)) = Len(f) + 1
                /\ Push(f, x, depth)[Len(f) + 1] = x
                /\ \A i \in 1 .. Len(f) : Push(f, x, depth)[i] = f[i]
  BY DEF Push

\* Popped takes the first entry off.
LEMMA PoppedFacts ==
    ASSUME NEW S, NEW f \in Seq(S), NEW pop \in BOOLEAN, pop => f # <<>>
    PROVE  /\ Popped(f, pop) \in Seq(S)
           /\ ~pop => Popped(f, pop) = f
           /\ pop => /\ Len(Popped(f, pop)) = Len(f) - 1
                     /\ \A i \in 1 .. (Len(f) - 1) : Popped(f, pop)[i] = f[i + 1]
  BY DEF Popped

----
(* The kinds of clock edges. *)

LoadGoesOn ==
    /\ state = "LOAD_WEIGHTS" /\ ~TileStart /\ ~Overlap /\ ~Advance /\ ~FeedStarts
    /\ state' = "LOAD_WEIGHTS" /\ flush' = 0 /\ tile' = tile
TileBegins ==
    /\ state = "LOAD_WEIGHTS" /\ TileStart /\ ~Overlap /\ ~Advance /\ FeedStarts
    /\ state' = "COMPUTE" /\ flush' = 0 /\ tile' = tile
FeedGoesOn(ready) ==
    /\ state = "COMPUTE" /\ ~FeedDone(ready) /\ ~TileStart /\ ~Overlap /\ ~Advance /\ ~FeedStarts
    /\ state' = "COMPUTE" /\ flush' = 0 /\ tile' = tile
FeedEnds(ready) ==
    /\ state = "COMPUTE" /\ FeedDone(ready) /\ ~TileStart /\ ~Overlap /\ ~Advance /\ ~FeedStarts
    /\ state' = "WAIT_DRAIN" /\ flush' = Stages /\ tile' = tile
DrainGoesOn ==
    /\ state = "WAIT_DRAIN" /\ ~TileStart /\ ~Overlap /\ ~Advance /\ ~Finish /\ ~FeedStarts
    /\ state' = "WAIT_DRAIN" /\ tile' = tile
    /\ flush' = IF flush # 0 /\ PipeReady THEN flush - 1 ELSE flush
TileOverlaps ==
    /\ state = "WAIT_DRAIN" /\ ~TileStart /\ Overlap /\ ~Advance /\ FeedStarts /\ HasNext
    /\ flush = 0 /\ w.done /\ ~lb.filling
    /\ state' = "COMPUTE" /\ flush' = 0 /\ tile' = tile + 1
TileAdvances ==
    /\ state = "WAIT_DRAIN" /\ ~TileStart /\ ~Overlap /\ Advance /\ ~FeedStarts /\ HasNext
    /\ flush = 0 /\ w.done /\ ~lb.filling
    /\ state' = "LOAD_WEIGHTS" /\ flush' = 0 /\ tile' = tile + 1
JobFinishes ==
    /\ state = "WAIT_DRAIN" /\ ~TileStart /\ ~Overlap /\ ~Advance /\ Finish /\ ~FeedStarts /\ ~HasNext
    /\ state' = "DONE" /\ tile' = tile /\ flush' \in 0 .. Stages

LEMMA StagesFact == Stages \in Nat \ {0} /\ Stages = 2 * Dim - 1
  BY SystolicAssumption DEF Stages

\* What is known of the registers of a job.
LEMMA JobFacts ==
    ASSUME job \in Jobs
    PROVE  /\ job.tiles \in Nat \ {0} /\ job.m \in 1 .. MaxM /\ MaxM \in Nat \ {0}
           /\ job.linebuf \in BOOLEAN /\ job.accum \in BOOLEAN /\ job.requant \in BOOLEAN
           /\ job.tiles > 1 => job.linebuf
           /\ \A t \in 0 .. (job.tiles - 1) : t \in Tiles
  BY SystolicAssumption DEF Job, Tiles

\* Every edge is of one of the kinds.
LEMMA EdgeKinds ==
    ASSUME SeqInv, NEW ready \in BOOLEAN, state \in Running, Sequencer(ready)
    PROVE  \/ LoadGoesOn \/ TileBegins \/ FeedGoesOn(ready) \/ FeedEnds(ready)
           \/ DrainGoesOn \/ TileOverlaps \/ TileAdvances \/ JobFinishes
  <1> USE DEF SeqInv, Sequencer, Running
  <1>1. CASE state = "LOAD_WEIGHTS"
    <2>1. ~Overlap /\ ~Advance /\ ~Finish /\ ~FeedDone(ready) /\ (FeedStarts <=> TileStart)
      BY <1>1 DEF Overlap, Advance, Finish, Ends, FeedDone, Feeds, FeedStarts
    <2> QED  BY <1>1, <2>1 DEF LoadGoesOn, TileBegins
  <1>2. CASE state = "COMPUTE"
    <2>1. ~Overlap /\ ~Advance /\ ~Finish /\ ~TileStart /\ ~FeedStarts
      BY <1>2 DEF Overlap, Advance, Finish, Ends, TileStart, FeedStarts
    <2> QED  BY <1>2, <2>1 DEF FeedGoesOn, FeedEnds
  <1>3. CASE state = "WAIT_DRAIN"
    <2>1. ~TileStart /\ ~FeedDone(ready) /\ (FeedStarts <=> Overlap)
      BY <1>3 DEF FeedDone, Feeds, TileStart, FeedStarts
    <2>2. CASE Overlap
      <3>1. flush = 0 /\ HasNext /\ ~Advance /\ ~Finish /\ w.done /\ ~lb.filling
        BY <2>2 DEF Overlap, Advance, Finish, Ends
      <3> QED  BY <1>3, <2>1, <2>2, <3>1 DEF TileOverlaps
    <2>3. CASE ~Overlap /\ Advance
      <3>1. flush = 0 /\ HasNext /\ w.done /\ ~lb.filling /\ ~Finish
        BY <1>3, <2>3 DEF Advance, Finish
      <3> QED  BY <1>3, <2>1, <2>3, <3>1 DEF TileAdvances
    <2>4. CASE ~Overlap /\ ~Advance /\ Finish
      <3>1. ~HasNext
        BY <2>4 DEF Finish
      <3>2. flush' \in 0 .. Stages
        BY <1>3, <2>1, <2>4, StagesFact
      <3> QED  BY <1>3, <2>1, <2>4, <3>1, <3>2 DEF JobFinishes
    <2>5. CASE ~Overlap /\ ~Advance /\ ~Finish
      BY <1>3, <2>1, <2>5 DEF DrainGoesOn
    <2> QED  BY <2>2, <2>3, <2>4, <2>5
  <1> QED  BY <1>1, <1>2, <1>3

----
(* The sequencer and the weight engine. *)

\* What an edge does to the registers of the weight engine, field by field.
LEMMA WeightFields ==
    ASSUME WeightInv, NEW granted \in BOOLEAN, WeightEngine(granted)
    PROVE  /\ PreloadStarts =>
                /\ w'.active = TRUE /\ w'.done = w.done /\ w'.tile = tile + 1
                /\ w'.req = Dim /\ w'.rsp = Dim /\ w'.obi = Dim
                /\ w'.fifo = w.fifo /\ w'.rdata = w.rdata
           /\ ~PreloadStarts =>
                /\ w'.active = (w.active /\ ~(Preloading /\ LastWeight))
                /\ w'.done = ((w.done \/ (Preloading /\ LastWeight)) /\ ~FeedStarts)
                /\ w'.tile = w.tile
                /\ w'.req = IF granted THEN w.req - 1 ELSE w.req
                /\ w'.rsp = IF WeightPop THEN w.rsp - 1 ELSE w.rsp
                /\ w'.obi = IF Preloading /\ Len(WeightFifo) > Len(w.fifo) THEN w.obi - 1 ELSE w.obi
                /\ w'.fifo = Popped(WeightFifo, WeightPop)
                /\ w'.rdata = IF granted THEN <<w.tile, w.req - 1>> ELSE None
           /\ w' = [req |-> w'.req, rsp |-> w'.rsp, obi |-> w'.obi, active |-> w'.active,
                    done |-> w'.done, tile |-> w'.tile, fifo |-> w'.fifo, rdata |-> w'.rdata]
  BY DEF WeightInv, WeightEngine

LEMMA SeqStep ==
    ASSUME SeqInv, WeightInv, state \in Running, UNCHANGED job,
           NEW granted \in BOOLEAN, NEW ready \in BOOLEAN, Sequencer(ready), WeightEngine(granted)
    PROVE  SeqInv'
  <1>1. /\ job' \in Jobs /\ Stages \in Nat \ {0} /\ job' = job
        /\ job.tiles \in Nat \ {0} /\ tile \in 0 .. (job.tiles - 1) /\ flush \in 0 .. Stages
    BY StagesFact, JobFacts DEF SeqInv
  <1>2. \/ LoadGoesOn \/ TileBegins \/ FeedGoesOn(ready) \/ FeedEnds(ready)
        \/ DrainGoesOn \/ TileOverlaps \/ TileAdvances \/ JobFinishes
    BY EdgeKinds
  <1> DEFINE ended == Preloading /\ LastWeight
  <1>3. /\ PreloadStarts => w'.active = TRUE /\ w'.done = w.done
        /\ ~PreloadStarts => /\ w'.active = (w.active /\ ~ended)
                             /\ w'.done = ((w.done \/ ended) /\ ~FeedStarts)
    BY WeightFields
  <1>4. /\ PreloadStarts => state = "WAIT_DRAIN" /\ flush = 0 /\ HasNext /\ ~w.done
        /\ ended => state = "WAIT_DRAIN" /\ w.active
    BY DEF PreloadStarts, PreloadAllowed, Preloading
  <1>5. /\ w.active => state = "WAIT_DRAIN"
        /\ w.done => state \in {"LOAD_WEIGHTS", "WAIT_DRAIN"}
        /\ state = "LOAD_WEIGHTS" => (w.done <=> tile # 0)
        /\ state = "WAIT_DRAIN" /\ (w.active \/ w.done) => flush = 0 /\ HasNext
        /\ w.active \in BOOLEAN /\ w.done \in BOOLEAN
    BY DEF WeightInv, SeqInv
  <1> HIDE DEF ended
  <1>6. CASE LoadGoesOn
    BY <1>6, <1>1, <1>3, <1>4, <1>5 DEF LoadGoesOn, SeqInv, Running
  <1>7. CASE TileBegins
    BY <1>7, <1>1, <1>3, <1>4, <1>5 DEF TileBegins, SeqInv, Running
  <1>8. CASE FeedGoesOn(ready)
    BY <1>8, <1>1, <1>3, <1>4, <1>5 DEF FeedGoesOn, SeqInv, Running
  <1>9. CASE FeedEnds(ready)
    BY <1>9, <1>1, <1>3, <1>4, <1>5 DEF FeedEnds, SeqInv, Running
  <1>10. CASE DrainGoesOn
    <2>1. flush' \in 0 .. Stages /\ (flush = 0 => flush' = 0)
      BY <1>10, <1>1 DEF DrainGoesOn
    <2>2. (w'.active \/ w'.done) => flush = 0 /\ HasNext
      BY <1>10, <1>3, <1>4, <1>5 DEF DrainGoesOn
    <2> QED  BY <2>1, <2>2, <1>10, <1>1 DEF DrainGoesOn, SeqInv, Running, HasNext
  <1>11. CASE TileOverlaps
    BY <1>11, <1>1, <1>3, <1>4, <1>5 DEF TileOverlaps, SeqInv, Running, HasNext
  <1>12. CASE TileAdvances
    <2>1. w'.done /\ state' = "LOAD_WEIGHTS" /\ flush' = 0 /\ tile' = tile + 1 /\ HasNext
      BY <1>12, <1>3, <1>4 DEF TileAdvances
    <2>2. tile' \in 0 .. (job.tiles - 1) /\ tile' # 0
      BY <2>1, <1>1 DEF HasNext
    <2> QED  BY <2>1, <2>2, <1>1 DEF SeqInv, Running
  <1>13. CASE JobFinishes
    BY <1>13, <1>1, <1>3, <1>4, <1>5 DEF JobFinishes, SeqInv, Running, HasNext
  <1> QED  BY <1>2, <1>6, <1>7, <1>8, <1>9, <1>10, <1>11, <1>12, <1>13

\* While weights are fetched the array is empty, and a weight goes from the port to the array without
\* a stop in the FIFO.
LEMMA WeightFacts ==
    ASSUME SeqInv, WeightInv, PipeInv
    PROVE  /\ w.rdata # None => Loading \/ Preloading
           /\ Loading \/ Preloading => PipeReady /\ \A i \in 1 .. Stages : pipe[i] = None
           /\ WeightPop <=> w.rdata # None
           /\ w.rdata # None => /\ Head(WeightFifo) = w.rdata /\ Len(WeightFifo) > Len(w.fifo)
                                /\ w.rsp = w.req + 1 /\ w.rdata = <<w.tile, w.req>>
           /\ w.rdata = None => WeightFifo = <<>>
           /\ Popped(WeightFifo, WeightPop) = <<>>
  <1>1. Stages \in Nat \ {0} /\ Dim \in Nat \ {0} /\ InputDepth \in Nat \ {0}
    BY StagesFact, SystolicAssumption
  <1>2. w.rdata # None => Loading \/ Preloading
    BY DEF WeightInv, Preloading
  <1>3. ASSUME Loading \/ Preloading PROVE PipeReady /\ \A i \in 1 .. Stages : pipe[i] = None
    <2>1. ASSUME Loading PROVE \A i \in 1 .. Stages : pipe[i] = None
      BY <2>1 DEF Loading, PipeInv, Busy
    <2>2. ASSUME Preloading, NEW i \in 1 .. Stages PROVE pipe[i] = None
      <3>1. state = "WAIT_DRAIN" /\ flush = 0
        BY <2>2 DEF Preloading, SeqInv
      <3> QED  BY <3>1, <1>1 DEF PipeInv
    <2>3. \A i \in 1 .. Stages : pipe[i] = None
      BY <1>3, <2>1, <2>2
    <2> QED  BY <2>3, <1>1 DEF PipeReady
  <1>4. Loading \/ Preloading => /\ w.rsp = w.req + One(w.rdata) /\ w.rsp >= 1
                                 /\ w.rdata # None => w.rdata = <<w.tile, w.req>>
                                 /\ Preloading => w.obi = w.rsp
    BY DEF WeightInv, Fetching, Preloading
  <1>5. w.fifo = <<>> /\ Len(w.fifo) = 0
    BY DEF WeightInv
  <1>6. ASSUME w.rdata # None
        PROVE  WeightFifo = <<w.rdata>> /\ WeightPop
    <2>1. Loading \/ (Preloading /\ w.obi # 0)
      BY <1>6, <1>2, <1>4 DEF WeightInv
    <2>2. WeightFifo = Append(<<>>, w.rdata)
      BY <1>6, <2>1, <1>5, <1>1 DEF WeightFifo, Push
    <2>3. WeightFifo = <<w.rdata>> /\ WeightFifo # <<>>
      BY <2>2
    <2> QED  BY <2>1, <2>3, <1>3 DEF WeightPop
  <1>7. ASSUME w.rdata = None
        PROVE  WeightFifo = <<>> /\ ~WeightPop
    BY <1>7, <1>5 DEF WeightFifo, Push, WeightPop
  <1>8. Popped(WeightFifo, WeightPop) = <<>>
    <2>1. CASE w.rdata # None
      <3>1. Tail(<<w.rdata>>) = <<>>
        OBVIOUS
      <3>2. Popped(WeightFifo, WeightPop) = Tail(WeightFifo)
        BY <2>1, <1>6 DEF Popped
      <3> QED  BY <3>1, <3>2, <2>1, <1>6
    <2>2. CASE w.rdata = None
      BY <2>2, <1>7 DEF Popped
    <2> QED  BY <2>1, <2>2
  <1>9. w.rdata # None => /\ Head(WeightFifo) = w.rdata /\ Len(WeightFifo) > Len(w.fifo)
                          /\ w.rsp = w.req + 1 /\ w.rdata = <<w.tile, w.req>>
    BY <1>2, <1>4, <1>5, <1>6 DEF One
  <1> QED  BY <1>2, <1>3, <1>6, <1>7, <1>8, <1>9

\* An edge while the weights of tile t are fetched: after the last one the array holds them all.
LEMMA FetchStep ==
    ASSUME SeqInv, WeightInv, PipeInv, Loading \/ Preloading, NEW t, Fetching(t),
           NEW granted \in BOOLEAN, granted => WeightRequest, WeightEngine(granted), MoveWeights,
           ~PreloadStarts
    PROVE  /\ w'.tile = t
           /\ LastWeight => w'.rdata = None /\ w'.rsp = 0 /\ \A r \in ArrayRows : held'[r] = <<t, r>>
           /\ ~LastWeight =>
                /\ w'.rsp = w'.req + One(w'.rdata) /\ w'.rsp >= 1
                /\ w'.rdata # None => w'.rdata = <<t, w'.req>>
                /\ \A r \in ArrayRows : r < Dim - w'.rsp => held'[r] = <<t, w'.rsp + r>>
  <1>1. /\ w.tile = t /\ w.req \in 0 .. Dim /\ w.rsp \in 0 .. Dim /\ Dim \in Nat \ {0}
        /\ w.rsp = w.req + One(w.rdata) /\ w.rsp >= 1
        /\ \A r \in ArrayRows : r < Dim - w.rsp => held[r] = <<t, w.rsp + r>>
    BY SystolicAssumption DEF WeightInv, Fetching
  <1>2. /\ WeightPop <=> w.rdata # None
        /\ w.rdata # None => /\ Head(WeightFifo) = w.rdata /\ w.rdata = <<t, w.req>>
        /\ PipeReady
    BY WeightFacts, <1>1
  <1>3. /\ w'.tile = t
        /\ w'.req = IF granted THEN w.req - 1 ELSE w.req
        /\ w'.rsp = IF w.rdata # None THEN w.rsp - 1 ELSE w.rsp
        /\ w'.rdata = IF granted THEN <<t, w.req - 1>> ELSE None
    BY WeightFields, <1>1, <1>2
  <1>4. granted => w.req # 0
    BY DEF WeightRequest
  <1>5. w'.rsp = w.req
    BY <1>1, <1>3 DEF One
  <1>6. granted => w.req - 1 \in ArrayRows /\ t \in Tiles /\ w'.rdata # None
    BY <1>1, <1>3, <1>4, ValuesAssumption DEF WeightInv, ArrayRows, Weight
  <1>7. \A r \in ArrayRows : r < Dim - w'.rsp => held'[r] = <<t, w'.rsp + r>>
    <2>1. CASE w.rdata = None
      <3>1. held' = held
        BY <2>1, <1>2 DEF MoveWeights
      <3> QED  BY <2>1, <3>1, <1>1, <1>3
    <2>2. CASE w.rdata # None
      <3>1. held' = [r \in ArrayRows |-> IF r = 0 THEN <<t, w.req>> ELSE held[r - 1]]
        BY <2>2, <1>2 DEF MoveWeights
      <3>2. w.rsp = w.req + 1
        BY <2>2, <1>1 DEF One
      <3>3. ASSUME NEW r \in ArrayRows, r < Dim - w'.rsp PROVE held'[r] = <<t, w'.rsp + r>>
        <4>1. CASE r = 0
          BY <4>1, <3>1, <1>5, <1>1
        <4>2. CASE r # 0
          <5>1. r - 1 \in ArrayRows /\ r - 1 < Dim - w.rsp /\ w.rsp + (r - 1) = w'.rsp + r
            BY <4>2, <3>2, <3>3, <1>5, <1>1 DEF ArrayRows
          <5> QED  BY <5>1, <4>2, <3>1, <1>1
        <4> QED  BY <4>1, <4>2
      <3> QED  BY <3>3
    <2> QED  BY <2>1, <2>2
  <1>8. LastWeight <=> w.rdata # None /\ w.req = 0
    BY <1>1, <1>2 DEF LastWeight, One
  <1>9. CASE LastWeight
    <2>1. w'.rsp = 0 /\ w'.rdata = None
      BY <1>9, <1>8, <1>5, <1>3, <1>4
    <2>2. \A r \in ArrayRows : held'[r] = <<t, r>>
      BY <2>1, <1>7, <1>1 DEF ArrayRows
    <2> QED  BY <2>1, <2>2, <1>9, <1>3
  <1>10. CASE ~LastWeight
    <2>1. w.req >= 1
      BY <1>10, <1>8, <1>1 DEF One
    <2>2. w'.rsp = w'.req + One(w'.rdata)
      BY <1>3, <1>5, <1>6, <1>1 DEF One
    <2> QED  BY <2>1, <2>2, <1>3, <1>5, <1>7, <1>10
  <1> QED  BY <1>9, <1>10

LEMMA WeightStep ==
    ASSUME SeqInv, WeightInv, PipeInv, state \in Running, UNCHANGED job,
           NEW granted \in BOOLEAN, NEW ready \in BOOLEAN, granted => WeightRequest,
           Sequencer(ready), WeightEngine(granted), MoveWeights
    PROVE  WeightInv'
  <1>0. /\ Dim \in Nat \ {0} /\ job' = job /\ tile \in 0 .. (job.tiles - 1)
        /\ job.tiles \in Nat \ {0} /\ \A t \in 0 .. (job.tiles - 1) : t \in Tiles
    BY SystolicAssumption, JobFacts DEF SeqInv
  <1>1. \/ LoadGoesOn \/ TileBegins \/ FeedGoesOn(ready) \/ FeedEnds(ready)
        \/ DrainGoesOn \/ TileOverlaps \/ TileAdvances \/ JobFinishes
    BY EdgeKinds
  <1>2. /\ w \in [req : 0 .. Dim, rsp : 0 .. Dim, obi : 0 .. Dim, active : BOOLEAN, done : BOOLEAN,
                  tile : Tiles, fifo : {<<>>}, rdata : Weight \cup {None}]
        /\ held \in [ArrayRows -> Weight \cup {None}]
        /\ w.active => state = "WAIT_DRAIN" /\ ~w.done /\ w.obi = w.rsp /\ Fetching(tile + 1)
        /\ w.done => state \in {"LOAD_WEIGHTS", "WAIT_DRAIN"}
        /\ Loading => Fetching(0)
        /\ ~w.active /\ ~Loading => w.rdata = None
        /\ ~w.active /\ ~Loading => Holds(IF state = "WAIT_DRAIN" /\ w.done THEN tile + 1 ELSE tile)
    BY DEF WeightInv
  <1>3. CASE PreloadStarts
    <2>1. state = "WAIT_DRAIN" /\ flush = 0 /\ HasNext /\ ~w.active /\ ~w.done
      BY <1>3 DEF PreloadStarts, PreloadAllowed
    <2>2. DrainGoesOn
      BY <1>1, <2>1 DEF LoadGoesOn, TileBegins, FeedGoesOn, FeedEnds, TileOverlaps, TileAdvances,
                        JobFinishes
    <2>3. state' = "WAIT_DRAIN" /\ tile' = tile
      BY <2>2 DEF DrainGoesOn
    <2>4. w.rdata = None /\ w.done = FALSE /\ w.fifo = <<>>
      BY <2>1, <1>2 DEF Loading
    <2>5. held' = held
      <3>1. ~WeightPop
        BY <2>4, WeightFacts
      <3> QED  BY <3>1 DEF MoveWeights
    <2>6. tile + 1 \in Tiles
      BY <2>1, <1>0 DEF HasNext
    <2>7. /\ w' = [req |-> Dim, rsp |-> Dim, obi |-> Dim, active |-> TRUE, done |-> FALSE,
                   tile |-> tile + 1, fifo |-> <<>>, rdata |-> None]
      BY <1>3, <2>4, WeightFields
    <2>8. Fetching(tile + 1)'
      BY <2>7, <2>3, <1>0 DEF Fetching, One, ArrayRows
    <2>9. ~Loading'
      BY <2>3 DEF Loading
    <2> QED  BY <2>3, <2>5, <2>6, <2>7, <2>8, <2>9, <1>0, <1>2 DEF WeightInv
  <1>4. CASE ~PreloadStarts
    <2> DEFINE ended == Preloading /\ LastWeight
    <2>1. /\ w' = [req |-> w'.req, rsp |-> w'.rsp, obi |-> w'.obi, active |-> w'.active,
                   done |-> w'.done, tile |-> w'.tile, fifo |-> w'.fifo, rdata |-> w'.rdata]
          /\ w'.active = (w.active /\ ~ended)
          /\ w'.done = ((w.done \/ ended) /\ ~FeedStarts)
          /\ w'.tile = w.tile
          /\ w'.req = IF granted THEN w.req - 1 ELSE w.req
          /\ w'.rsp = IF WeightPop THEN w.rsp - 1 ELSE w.rsp
          /\ w'.obi = IF Preloading /\ Len(WeightFifo) > Len(w.fifo) THEN w.obi - 1 ELSE w.obi
          /\ w'.fifo = Popped(WeightFifo, WeightPop)
          /\ w'.rdata = IF granted THEN <<w.tile, w.req - 1>> ELSE None
      BY <1>4, WeightFields
    <2>2. /\ w.rdata # None => Loading \/ Preloading
          /\ WeightPop <=> w.rdata # None
          /\ w.rdata # None => /\ Head(WeightFifo) = w.rdata /\ Len(WeightFifo) > Len(w.fifo)
                               /\ w.rsp = w.req + 1 /\ w.rdata = <<w.tile, w.req>>
          /\ w.rdata = None => WeightFifo = <<>>
          /\ Popped(WeightFifo, WeightPop) = <<>>
      BY WeightFacts
    <2>3. granted => w.req # 0 /\ (Loading \/ Preloading)
      BY DEF WeightRequest
    <2>4. Preloading => (w.rdata # None => w.obi = w.rsp)
      BY <1>2 DEF Preloading
    <2>5. /\ w'.req \in 0 .. Dim /\ w'.rsp \in 0 .. Dim /\ w'.obi \in 0 .. Dim /\ w'.tile \in Tiles
          /\ w'.active \in BOOLEAN /\ w'.done \in BOOLEAN /\ w'.fifo = <<>>
          /\ w'.rdata \in Weight \cup {None}
      <3>0. w.req \in 0 .. Dim /\ w.rsp \in 0 .. Dim
        BY <1>2
      <3>1. w'.req \in 0 .. Dim /\ w'.rsp \in 0 .. Dim
        BY <3>0, <2>1, <2>2, <2>3, <1>0
      <3>2. w'.obi \in 0 .. Dim
        <4>1. CASE w.rdata = None
          <5>1. ~(Len(WeightFifo) > Len(w.fifo))
            BY <4>1, <2>2, <1>2
          <5> QED  BY <5>1, <1>2, <2>1
        <4>2. CASE w.rdata # None
          BY <4>2, <1>2, <2>1, <2>2, <2>4, <1>0
        <4> QED  BY <4>1, <4>2
      <3>3. w'.rdata \in Weight \cup {None}
        BY <1>2, <2>1, <2>3, <1>0 DEF Weight, ArrayRows
      <3> QED  BY <3>1, <3>2, <3>3, <1>2, <2>1, <2>2
    <2>6. w' \in [req : 0 .. Dim, rsp : 0 .. Dim, obi : 0 .. Dim, active : BOOLEAN, done : BOOLEAN,
                  tile : Tiles, fifo : {<<>>}, rdata : Weight \cup {None}]
      BY ONLY <2>1, <2>5
    <2>7. held' \in [ArrayRows -> Weight \cup {None}]
      <3>1. CASE w.rdata = None
        BY <3>1, <2>2, <1>2 DEF MoveWeights
      <3>2. CASE w.rdata # None
        <4>1. held' = held \/ held' = [r \in ArrayRows |-> IF r = 0 THEN w.rdata ELSE held[r - 1]]
          BY <3>2, <2>2 DEF MoveWeights
        <4>2. \A r \in ArrayRows : r # 0 => r - 1 \in ArrayRows
          BY <1>0 DEF ArrayRows
        <4> QED  BY <4>1, <4>2, <1>2
      <3> QED  BY <3>1, <3>2
    <2> HIDE DEF ended
    <2>8. CASE Loading
      <3>1. state = "LOAD_WEIGHTS" /\ ~w.done /\ ~w.active /\ ~ended /\ Fetching(0) /\ tile = 0
        BY <2>8, <1>2 DEF Loading, ended, Preloading, SeqInv
      <3>2. /\ w'.tile = 0
            /\ LastWeight => w'.rdata = None /\ w'.rsp = 0 /\ \A r \in ArrayRows : held'[r] = <<0, r>>
            /\ ~LastWeight =>
                 /\ w'.rsp = w'.req + One(w'.rdata) /\ w'.rsp >= 1
                 /\ w'.rdata # None => w'.rdata = <<0, w'.req>>
                 /\ \A r \in ArrayRows : r < Dim - w'.rsp => held'[r] = <<0, w'.rsp + r>>
        BY <2>8, <3>1, <1>4, FetchStep
      <3>3. ~w'.active /\ ~w'.done
        BY <3>1, <2>1
      <3>4. CASE LastWeight
        <4>1. TileStart
          BY <3>4, <3>1, <2>8 DEF TileStart, LoadDone
        <4>2. state' = "COMPUTE" /\ tile' = tile
          BY <4>1, <1>1, <3>1 DEF LoadGoesOn, TileBegins, FeedGoesOn, FeedEnds, TileOverlaps,
                                  TileAdvances, JobFinishes, DrainGoesOn
        <4>3. Holds(tile)'
          BY <4>2, <3>1, <3>2, <3>4 DEF Holds
        <4> QED  BY <4>2, <4>3, <3>2, <3>3, <3>4, <2>6, <2>7 DEF WeightInv, Loading
      <3>5. CASE ~LastWeight
        <4>1. ~TileStart
          BY <3>5, <3>1 DEF TileStart, LoadDone
        <4>2. state' = "LOAD_WEIGHTS" /\ tile' = tile
          BY <4>1, <1>1, <3>1 DEF LoadGoesOn, TileBegins, FeedGoesOn, FeedEnds, TileOverlaps,
                                  TileAdvances, JobFinishes, DrainGoesOn
        <4>3. Fetching(0)'
          BY <3>2, <3>5 DEF Fetching, One
        <4>4. Loading'
          BY <4>2, <3>3 DEF Loading
        <4> QED  BY <4>2, <4>3, <4>4, <3>3, <2>6, <2>7 DEF WeightInv
      <3> QED  BY <3>4, <3>5
    <2>9. CASE Preloading
      <3>1. state = "WAIT_DRAIN" /\ w.active /\ ~w.done /\ w.obi = w.rsp /\ Fetching(tile + 1)
            /\ HasNext
        BY <2>9, <1>2 DEF Preloading, SeqInv
      <3>2. DrainGoesOn
        BY <3>1, <1>1 DEF LoadGoesOn, TileBegins, FeedGoesOn, FeedEnds, TileOverlaps, TileAdvances,
                          JobFinishes
      <3>3. state' = "WAIT_DRAIN" /\ tile' = tile /\ ~FeedStarts /\ ~Loading'
        BY <3>2 DEF DrainGoesOn, Loading
      <3>4. /\ w'.tile = tile + 1
            /\ LastWeight => /\ w'.rdata = None /\ w'.rsp = 0
                             /\ \A r \in ArrayRows : held'[r] = <<tile + 1, r>>
            /\ ~LastWeight =>
                 /\ w'.rsp = w'.req + One(w'.rdata) /\ w'.rsp >= 1
                 /\ w'.rdata # None => w'.rdata = <<tile + 1, w'.req>>
                 /\ \A r \in ArrayRows : r < Dim - w'.rsp => held'[r] = <<tile + 1, w'.rsp + r>>
        BY <2>9, <3>1, <1>4, FetchStep
      <3>5. CASE LastWeight
        <4>1. ~w'.active /\ w'.done
          BY <3>5, <3>3, <2>9, <2>1 DEF ended
        <4>2. Holds(tile + 1)'
          BY <3>3, <3>4, <3>5 DEF Holds
        <4> QED  BY <4>1, <4>2, <3>3, <3>4, <3>5, <2>6, <2>7 DEF WeightInv
      <3>6. CASE ~LastWeight
        <4>1. w'.active /\ ~w'.done
          BY <3>6, <3>1, <2>1 DEF ended
        <4>2. Fetching(tile + 1)'
          BY <3>3, <3>4, <3>6 DEF Fetching, One
        <4>3. w'.obi = w'.rsp
          <5>1. Len(WeightFifo) > Len(w.fifo) <=> WeightPop
            BY <2>2, <1>2
          <5> QED  BY <5>1, <2>1, <2>9, <3>1
        <4> QED  BY <4>1, <4>2, <4>3, <3>3, <2>6, <2>7 DEF WeightInv
      <3> QED  BY <3>5, <3>6
    <2>10. CASE ~Loading /\ ~Preloading
      <3>1. w.rdata = None /\ ~granted /\ ~WeightPop /\ ~ended /\ ~w.active
        BY <2>10, <2>2, <2>3, <1>2 DEF ended, Preloading
      <3>2. w'.rdata = None /\ ~w'.active /\ w'.done = (w.done /\ ~FeedStarts)
        BY <3>1, <2>1
      <3>3. held' = held
        BY <3>1 DEF MoveWeights
      <3>4. \A t : Holds(t) => \A r \in ArrayRows : held'[r] = <<t, r>>
        BY <3>3 DEF Holds
      <3>5. Holds(IF state = "WAIT_DRAIN" /\ w.done THEN tile + 1 ELSE tile)
        BY <2>10, <3>1, <1>2
      <3>6. state = "LOAD_WEIGHTS" => w.done
        BY <2>10 DEF Loading
      <3>7. CASE LoadGoesOn \/ TileBegins
        <4>1. TileBegins /\ state = "LOAD_WEIGHTS"
          BY <3>6, <3>7 DEF LoadGoesOn, TileBegins, TileStart
        <4>2. state' = "COMPUTE" /\ tile' = tile /\ ~w'.done
          BY <4>1, <3>2 DEF TileBegins
        <4>3. Holds(tile)'
          BY <4>1, <4>2, <3>4, <3>5 DEF Holds
        <4> QED  BY <4>2, <4>3, <3>2, <2>6, <2>7 DEF WeightInv, Loading
      <3>8. CASE FeedGoesOn(ready) \/ FeedEnds(ready)
        <4>1. state = "COMPUTE" /\ state' \in {"COMPUTE", "WAIT_DRAIN"} /\ tile' = tile /\ ~w.done
          BY <3>8, <1>2 DEF FeedGoesOn, FeedEnds
        <4>2. Holds(tile)' /\ ~w'.done
          BY <4>1, <3>2, <3>4, <3>5 DEF Holds
        <4> QED  BY <4>1, <4>2, <3>2, <2>6, <2>7 DEF WeightInv, Loading
      <3>9. CASE DrainGoesOn
        <4>1. state = "WAIT_DRAIN" /\ state' = "WAIT_DRAIN" /\ tile' = tile /\ w'.done = w.done
          BY <3>9, <3>2, <1>2 DEF DrainGoesOn
        <4>2. Holds(IF state = "WAIT_DRAIN" /\ w.done THEN tile + 1 ELSE tile)'
          BY <4>1, <3>4, <3>5 DEF Holds
        <4> QED  BY <4>1, <4>2, <3>2, <2>6, <2>7 DEF WeightInv, Loading
      <3>10. CASE TileOverlaps
        <4>1. state = "WAIT_DRAIN" /\ w.done /\ state' = "COMPUTE" /\ tile' = tile + 1 /\ ~w'.done
          BY <3>10, <3>2 DEF TileOverlaps
        <4>2. Holds(tile)'
          BY <4>1, <3>4, <3>5 DEF Holds
        <4> QED  BY <4>1, <4>2, <3>2, <2>6, <2>7 DEF WeightInv, Loading
      <3>11. CASE TileAdvances
        <4>1. state = "WAIT_DRAIN" /\ w.done /\ state' = "LOAD_WEIGHTS" /\ tile' = tile + 1 /\ w'.done
          BY <3>11, <3>2 DEF TileAdvances
        <4>2. Holds(tile)'
          BY <4>1, <3>4, <3>5 DEF Holds
        <4> QED  BY <4>1, <4>2, <3>2, <2>6, <2>7 DEF WeightInv, Loading
      <3>12. CASE JobFinishes
        <4>1. state' = "DONE" /\ ~w'.done
          <5>1. state = "WAIT_DRAIN" /\ ~HasNext /\ state' = "DONE"
            BY <3>12 DEF JobFinishes
          <5>2. ~w.done
            BY <5>1 DEF SeqInv
          <5> QED  BY <5>1, <5>2, <3>2
        <4> QED  BY <4>1, <3>2, <2>6, <2>7 DEF WeightInv, Loading, Running
      <3> QED  BY <1>1, <3>7, <3>8, <3>9, <3>10, <3>11, <3>12
    <2> QED  BY <2>8, <2>9, <2>10
  <1> QED  BY <1>3, <1>4

----
(* The input engine. *)

\* What an edge does to the registers of the input engine, field by field.
LEMMA InputFields ==
    ASSUME InputInv, NEW ready \in BOOLEAN, InputEngine(ready)
    PROVE  /\ FeedStarts => /\ inp'.req = job.m /\ inp'.rsp = job.m
                            /\ inp'.fifo = inp.fifo /\ inp'.rdata = inp.rdata
           /\ ~FeedStarts =>
                /\ inp'.req = IF (ready /\ InputRequest) \/ (Feeds(ready) /\ job.linebuf)
                              THEN inp.req - 1 ELSE inp.req
                /\ inp'.rsp = IF Feeds(ready) /\ ~job.linebuf THEN inp.rsp - 1 ELSE inp.rsp
                /\ inp'.rdata = IF ready /\ InputRequest
                                THEN [tile |-> tile, row |-> job.m - inp.req, ok |-> TRUE] ELSE None
                /\ inp'.fifo = Popped(InputFifo, Feeds(ready) /\ ~job.linebuf)
           /\ inp' = [req |-> inp'.req, rsp |-> inp'.rsp, fifo |-> inp'.fifo, rdata |-> inp'.rdata]
  BY DEF InputInv, InputEngine

\* The FIFO with the row that arrives: the rows that follow those fed.
LEMMA InputFifoFacts ==
    ASSUME SeqInv, InputInv, state = "COMPUTE", ~job.linebuf
    PROVE  /\ InputFifo \in Seq(Vector)
           /\ Len(InputFifo) = Len(inp.fifo) + One(inp.rdata)
           /\ \A i \in 1 .. Len(InputFifo) : RowIs(InputFifo[i], Fed + (i - 1))
  <1>1. /\ inp.fifo \in Seq(Vector) /\ (inp.rdata # None => inp.rdata \in Vector)
        /\ inp.rdata # None => Len(inp.fifo) < InputDepth /\ RowIs(inp.rdata, Fed + Len(inp.fifo))
        /\ \A i \in 1 .. Len(inp.fifo) : RowIs(inp.fifo[i], Fed + (i - 1))
        /\ InputDepth \in Nat
    BY SystolicAssumption DEF InputInv
  <1>2. InputFifo = Push(inp.fifo, inp.rdata, InputDepth)
    BY DEF InputFifo
  <1> DEFINE f == inp.fifo
             x == inp.rdata
  <1>a. f \in Seq(Vector) /\ (x # None => x \in Vector) /\ InputDepth \in Nat
    BY <1>1
  <1> HIDE DEF f, x
  <1>b. /\ Push(f, x, InputDepth) \in Seq(Vector)
        /\ x = None \/ Len(f) >= InputDepth => Push(f, x, InputDepth) = f
        /\ x # None /\ Len(f) < InputDepth =>
             /\ Len(Push(f, x, InputDepth)) = Len(f) + 1
             /\ Push(f, x, InputDepth)[Len(f) + 1] = x
             /\ \A i \in 1 .. Len(f) : Push(f, x, InputDepth)[i] = f[i]
    BY <1>a DEF Push
  <1>3. /\ InputFifo \in Seq(Vector)
        /\ inp.rdata = None \/ Len(inp.fifo) >= InputDepth => InputFifo = inp.fifo
        /\ inp.rdata # None /\ Len(inp.fifo) < InputDepth =>
             /\ Len(InputFifo) = Len(inp.fifo) + 1
             /\ InputFifo[Len(inp.fifo) + 1] = inp.rdata
             /\ \A i \in 1 .. Len(inp.fifo) : InputFifo[i] = inp.fifo[i]
    BY <1>2, <1>b DEF f, x
  <1>4. CASE inp.rdata = None
    BY <1>1, <1>3, <1>4 DEF One
  <1>5. CASE inp.rdata # None
    <2>1. Len(InputFifo) = Len(inp.fifo) + 1 /\ Len(inp.fifo) \in Nat
      BY <1>1, <1>3, <1>5
    <2>2. ASSUME NEW i \in 1 .. Len(InputFifo) PROVE RowIs(InputFifo[i], Fed + (i - 1))
      <3>1. CASE i = Len(inp.fifo) + 1
        <4>1. i - 1 = Len(inp.fifo) /\ InputFifo[i] = inp.rdata
          BY <3>1, <2>1, <1>1, <1>3, <1>5
        <4> QED  BY <4>1, <1>1, <1>5
      <3>2. CASE i # Len(inp.fifo) + 1
        <4>1. i \in 1 .. Len(inp.fifo)
          BY <3>2, <2>1
        <4> QED  BY <4>1, <1>1, <1>3, <1>5
      <3> QED  BY <3>1, <3>2
    <2> QED  BY <2>1, <2>2, <1>3, <1>5 DEF One
  <1> QED  BY <1>4, <1>5

\* With the line buffer, or outside COMPUTE, nothing is asked of memory or taken from the FIFO.
LEMMA InputIdle ==
    ASSUME SeqInv, InputInv, state # "COMPUTE" \/ job.linebuf, NEW ready \in BOOLEAN
    PROVE  /\ ~InputRequest
           /\ InputFifo = <<>> /\ inp.fifo = <<>> /\ inp.rdata = None
           /\ state # "COMPUTE" => ~Feeds(ready)
           /\ Popped(InputFifo, Feeds(ready) /\ ~job.linebuf) = <<>>
  <1>1. ~InputRequest
    BY DEF InputRequest
  <1>2. inp.fifo = <<>> /\ inp.rdata = None
    BY DEF InputInv
  <1>3. InputFifo = <<>>
    BY <1>2 DEF InputFifo, Push
  <1>4. state # "COMPUTE" => ~Feeds(ready)
    BY DEF Feeds
  <1> QED  BY <1>1, <1>2, <1>3, <1>4 DEF Popped

LEMMA InputStep ==
    ASSUME SeqInv, InputInv, LineInv, state \in Running, UNCHANGED job,
           NEW ready \in BOOLEAN, Sequencer(ready), InputEngine(ready)
    PROVE  InputInv'
  <1>0. /\ job' = job /\ tile \in 0 .. (job.tiles - 1) /\ tile \in Tiles /\ tile \in Nat
        /\ job.m \in 1 .. MaxM /\ MaxM \in Nat \ {0} /\ job.linebuf \in BOOLEAN /\ InputDepth \in Nat
        /\ inp.req \in 0 .. MaxM /\ inp.rsp \in 0 .. MaxM
    BY SystolicAssumption, JobFacts DEF SeqInv, InputInv
  <1>1. \/ LoadGoesOn \/ TileBegins \/ FeedGoesOn(ready) \/ FeedEnds(ready)
        \/ DrainGoesOn \/ TileOverlaps \/ TileAdvances \/ JobFinishes
    BY EdgeKinds
  <1>2. CASE FeedStarts
    <2>1. state # "COMPUTE" /\ state' = "COMPUTE"
      BY <1>1, <1>2 DEF LoadGoesOn, TileBegins, FeedGoesOn, FeedEnds, TileOverlaps, TileAdvances,
                        JobFinishes, DrainGoesOn
    <2>2. /\ inp' = [req |-> inp'.req, rsp |-> inp'.rsp, fifo |-> inp'.fifo, rdata |-> inp'.rdata]
          /\ inp'.req = job.m /\ inp'.rsp = job.m /\ inp'.fifo = <<>> /\ inp'.rdata = None
      BY <1>2, <2>1, InputFields, InputIdle
    <2>3. inp' = [req |-> job.m, rsp |-> job.m, fifo |-> <<>>, rdata |-> None]
      BY <2>2
    <2> QED  BY <2>1, <2>3, <1>0 DEF InputInv, ToFeed, One
  <1>3. CASE ~FeedStarts
    <2>1. /\ inp'.req = IF (ready /\ InputRequest) \/ (Feeds(ready) /\ job.linebuf)
                        THEN inp.req - 1 ELSE inp.req
          /\ inp'.rsp = IF Feeds(ready) /\ ~job.linebuf THEN inp.rsp - 1 ELSE inp.rsp
          /\ inp'.rdata = IF ready /\ InputRequest
                          THEN [tile |-> tile, row |-> job.m - inp.req, ok |-> TRUE] ELSE None
          /\ inp'.fifo = Popped(InputFifo, Feeds(ready) /\ ~job.linebuf)
          /\ inp' = [req |-> inp'.req, rsp |-> inp'.rsp, fifo |-> inp'.fifo, rdata |-> inp'.rdata]
      BY <1>3, InputFields
    <2>2. CASE state # "COMPUTE"
      <3>1. state' # "COMPUTE" /\ (state' = "WAIT_DRAIN" => state = "WAIT_DRAIN")
        BY <1>1, <1>3, <2>2 DEF LoadGoesOn, TileBegins, FeedGoesOn, FeedEnds, TileOverlaps,
                                TileAdvances, JobFinishes, DrainGoesOn
      <3>2. inp' = [req |-> inp.req, rsp |-> inp.rsp, fifo |-> <<>>, rdata |-> None]
        BY <2>1, <2>2, InputIdle
      <3> QED  BY <3>1, <3>2, <1>0 DEF InputInv, ToFeed
    <2>3. CASE state = "COMPUTE"
      <3>0. /\ state' = (IF FeedDone(ready) THEN "WAIT_DRAIN" ELSE "COMPUTE") /\ tile' = tile
            /\ ToFeed \in 1 .. job.m
        BY <1>1, <2>3 DEF LoadGoesOn, TileBegins, FeedGoesOn, FeedEnds, TileOverlaps, TileAdvances,
                          JobFinishes, DrainGoesOn, InputInv
      <3>1. CASE job.linebuf
        <4>1. inp' = [req |-> IF Feeds(ready) THEN inp.req - 1 ELSE inp.req, rsp |-> inp.rsp,
                      fifo |-> <<>>, rdata |-> None]
          BY <2>1, <3>1, InputIdle
        <4>2. inp.req \in 1 .. job.m
          BY <3>0, <3>1 DEF ToFeed
        <4>3. FeedDone(ready) <=> Feeds(ready) /\ inp.req = 1
          BY <3>1 DEF FeedDone
        <4>4. /\ inp'.req \in 0 .. MaxM /\ ToFeed' = inp'.req
              /\ IF FeedDone(ready) THEN inp'.req = 0 ELSE inp'.req \in 1 .. job.m
          BY <4>1, <4>2, <4>3, <3>1, <1>0 DEF ToFeed
        <4>5. inp' \in [req : 0 .. MaxM, rsp : 0 .. MaxM, fifo : Seq(Vector), rdata : Vector \cup {None}]
          BY <4>1, <4>4, <1>0
        <4> QED  BY <4>1, <4>4, <4>5, <3>0, <3>1, <1>0 DEF InputInv
      <3>2. CASE ~job.linebuf
        <4> DEFINE n == Len(inp.fifo)
                   fed == Feeds(ready)
                   granted == ready /\ InputRequest
        <4>1. /\ InputFifo \in Seq(Vector)
              /\ Len(InputFifo) = n + One(inp.rdata)
              /\ \A i \in 1 .. Len(InputFifo) : RowIs(InputFifo[i], Fed + (i - 1))
          BY <2>3, <3>2, InputFifoFacts
        <4>2. /\ n \in Nat /\ n <= InputDepth /\ inp.rsp = inp.req + n + One(inp.rdata)
              /\ inp.rdata # None => n < InputDepth
              /\ inp.rsp \in 1 .. job.m /\ Fed = job.m - inp.rsp
          BY <2>3, <3>0, <3>2 DEF InputInv, ToFeed, Fed
        <4>3. /\ fed <=> PipeReady /\ InputFifo # <<>>
              /\ granted => inp.req # 0 /\ n < InputDepth /\ PipeReady
              /\ FeedDone(ready) <=> fed /\ inp.req = 0 /\ inp.rsp = 1
          BY <2>3, <3>2 DEF Feeds, InputRequest, FeedDone
        <4>4. InputFifo # <<>> <=> Len(InputFifo) # 0
          BY <4>1
        <4>a. fed \in BOOLEAN /\ (fed /\ ~job.linebuf) = fed
          BY <3>2 DEF Feeds
        <4>5. /\ inp'.req = IF granted THEN inp.req - 1 ELSE inp.req
              /\ inp'.rsp = IF fed THEN inp.rsp - 1 ELSE inp.rsp
              /\ inp'.rdata = IF granted THEN [tile |-> tile, row |-> job.m - inp.req, ok |-> TRUE]
                              ELSE None
              /\ inp'.fifo = Popped(InputFifo, fed)
          BY <2>1, <3>2, <4>a
        <4> HIDE DEF fed, granted
        <4>7. /\ inp'.fifo \in Seq(Vector)
              /\ Len(inp'.fifo) = IF fed THEN Len(InputFifo) - 1 ELSE Len(InputFifo)
              /\ \A i \in 1 .. Len(inp'.fifo) :
                   inp'.fifo[i] = IF fed THEN InputFifo[i + 1] ELSE InputFifo[i]
          <5>1. CASE fed
            <6>1. InputFifo # <<>> /\ inp'.fifo = Popped(InputFifo, TRUE)
              BY <5>1, <4>3, <4>5, <4>a
            <6>2. /\ Popped(InputFifo, TRUE) \in Seq(Vector)
                  /\ Len(Popped(InputFifo, TRUE)) = Len(InputFifo) - 1
                  /\ \A i \in 1 .. (Len(InputFifo) - 1) :
                       Popped(InputFifo, TRUE)[i] = InputFifo[i + 1]
              BY <6>1, <4>1, PoppedFacts
            <6> QED  BY <6>1, <6>2, <5>1
          <5>2. CASE ~fed
            BY <5>2, <4>1, <4>5, <4>a, PoppedFacts
          <5> QED  BY <5>1, <5>2
        <4> DEFINE m == Len(inp'.fifo)
        <4>8. inp.req \in 0 .. job.m /\ One(inp.rdata) \in {0, 1}
          BY <4>2, <1>0 DEF One
        <4>9. granted => inp'.rdata # None /\ inp'.rdata \in Vector
          <5>1. ASSUME granted PROVE inp'.rdata \in Vector
            <6>1. job.m - inp.req \in OutRows
              BY <5>1, <4>3, <4>8, <1>0 DEF OutRows
            <6> QED  BY <6>1, <5>1, <4>5, <1>0 DEF Vector
          <5> QED  BY <5>1, ValuesAssumption
        <4>10. One(inp'.rdata) = IF granted THEN 1 ELSE 0
          BY <4>5, <4>9 DEF One
        <4>b. /\ n \in Nat /\ Len(InputFifo) \in Nat /\ m \in Nat
              /\ m = IF fed THEN Len(InputFifo) - 1 ELSE Len(InputFifo)
              /\ fed => Len(InputFifo) # 0 /\ inp.rsp >= 1
          BY <4>1, <4>2, <4>3, <4>4, <4>7
        <4>11. inp'.rsp = inp'.req + m + One(inp'.rdata)
          <5> DEFINE c == Len(InputFifo)
                     o == One(inp.rdata)
          <5>1. c = n + o /\ inp.rsp = inp.req + n + o /\ o \in Int /\ inp.req \in Int /\ c \in Int /\ n \in Int
            BY <4>1, <4>2, <4>8, <4>b
          <5>2. /\ inp'.req = IF granted THEN inp.req - 1 ELSE inp.req
                /\ inp'.rsp = IF fed THEN inp.rsp - 1 ELSE inp.rsp
                /\ m = IF fed THEN c - 1 ELSE c
                /\ One(inp'.rdata) = IF granted THEN 1 ELSE 0
            BY <4>5, <4>7, <4>10
          <5> HIDE DEF c, o, n, m
          <5>3. CASE fed
            BY <5>1, <5>2, <5>3
          <5>4. CASE ~fed
            BY <5>1, <5>2, <5>4
          <5> QED  BY <5>3, <5>4
        <4>12. granted => m < InputDepth
          <5>1. ASSUME granted PROVE m < InputDepth
            <6>1. n < InputDepth /\ PipeReady
              BY <5>1, <4>3
            <6>2. CASE inp.rdata = None
              <7>1. One(inp.rdata) = 0
                BY <6>2 DEF One
              <7>2. Len(InputFifo) = n
                BY <7>1, <4>1, <4>b
              <7> HIDE DEF n, m
              <7> QED  BY <7>2, <6>1, <4>b, <1>0
            <6>3. CASE inp.rdata # None
              <7>1. One(inp.rdata) = 1
                BY <6>3 DEF One
              <7>2. fed
                BY <7>1, <6>1, <4>1, <4>2, <4>3, <4>4
              <7> QED  BY <7>1, <7>2, <6>1, <4>1, <4>2, <4>7
            <6> QED  BY <6>2, <6>3
          <5> QED  BY <5>1
        <4>13. m <= InputDepth
          <5>1. CASE inp.rdata = None
            <6>1. One(inp.rdata) = 0
              BY <5>1 DEF One
            <6> QED  BY <6>1, <4>1, <4>2, <4>7, <1>0
          <5>2. CASE inp.rdata # None
            <6>1. One(inp.rdata) = 1
              BY <5>2 DEF One
            <6> QED  BY <6>1, <5>2, <4>1, <4>2, <4>7, <1>0
          <5> QED  BY <5>1, <5>2
        <4>14. ToFeed' = inp'.rsp /\ Fed' = job.m - inp'.rsp
          BY <3>2, <1>0 DEF ToFeed, Fed
        <4>15. IF FeedDone(ready) THEN inp'.rsp = 0 ELSE inp'.rsp \in 1 .. job.m
          <5>1. CASE fed
            <6>1. n + One(inp.rdata) >= 1
              BY <5>1, <4>1, <4>3, <4>4, <4>2, <4>8
            <6>2. inp.rsp = 1 => inp.req = 0
              BY <6>1, <4>2, <4>8
            <6>3. inp'.rsp = inp.rsp - 1 /\ inp.rsp \in 1 .. job.m
              BY <5>1, <4>2, <4>5
            <6>4. FeedDone(ready) <=> inp.rsp = 1
              BY <5>1, <6>2, <4>3
            <6> QED  BY <6>3, <6>4, <1>0
          <5>2. CASE ~fed
            BY <5>2, <4>2, <4>3, <4>5
          <5> QED  BY <5>1, <5>2
        <4>16. \A i \in 1 .. m : RowIs(inp'.fifo[i], Fed' + (i - 1))
          <5>1. ASSUME NEW i \in 1 .. m PROVE RowIs(inp'.fifo[i], Fed' + (i - 1))
            <6>0. i \in Int /\ inp.rsp \in Int /\ job.m \in Int /\ Len(InputFifo) \in Nat
              BY <4>1, <4>2, <1>0
            <6>1. CASE fed
              <7>1. i + 1 \in 1 .. Len(InputFifo) /\ inp'.fifo[i] = InputFifo[i + 1]
                BY <6>0, <6>1, <4>7
              <7>2. Fed + ((i + 1) - 1) = Fed' + (i - 1)
                BY <6>0, <6>1, <4>2, <4>5, <4>14
              <7>3. RowIs(InputFifo[i + 1], Fed + ((i + 1) - 1))
                BY <7>1, <4>1
              <7> QED  BY ONLY <7>1, <7>2, <7>3
            <6>2. CASE ~fed
              <7>1. i \in 1 .. Len(InputFifo) /\ inp'.fifo[i] = InputFifo[i] /\ Fed' = Fed
                BY <6>2, <4>2, <4>5, <4>7, <4>14
              <7> QED  BY <7>1, <4>1
            <6> QED  BY <6>1, <6>2
          <5> QED  BY <5>1
        <4>17. granted => RowIs(inp'.rdata, Fed' + m)
          <5>1. ASSUME granted PROVE Fed' + m = job.m - inp.req
            <6>1. Fed' = job.m - inp'.rsp /\ inp'.rsp = inp'.req + m + 1 /\ inp'.req = inp.req - 1
              BY <5>1, <4>5, <4>10, <4>11, <4>14
            <6>2. m \in Int /\ inp.req \in Int /\ job.m \in Int
              BY <4>b, <4>8, <1>0
            <6> HIDE DEF m
            <6> QED  BY ONLY <6>1, <6>2, SMT
          <5> QED  BY <5>1, <4>5 DEF RowIs
        <4>18. /\ inp'.req \in 0 .. MaxM /\ inp'.rsp \in 0 .. MaxM
               /\ inp'.rdata \in Vector \cup {None}
          <5>1. inp'.req \in 0 .. MaxM
            BY <4>3, <4>5, <4>8, <1>0
          <5>2. inp'.rsp \in 0 .. MaxM
            BY <4>15, <1>0
          <5>3. inp'.rdata \in Vector \cup {None}
            BY <4>5, <4>9
          <5> QED  BY <5>1, <5>2, <5>3
        <4>19. inp' \in [req : 0 .. MaxM, rsp : 0 .. MaxM, fifo : Seq(Vector), rdata : Vector \cup {None}]
          BY <4>7, <4>18, <2>1
        <4>20. CASE FeedDone(ready)
          <5>1. m = 0 /\ inp'.rdata = None /\ inp'.rsp = 0
            <6>1. ~granted
              BY <4>20, <4>3
            <6>2. inp'.rsp = 0 /\ inp'.req = 0 /\ inp'.rdata = None /\ One(inp'.rdata) = 0
              BY <6>1, <4>3, <4>5, <4>10, <4>15, <4>20
            <6>3. inp'.rsp = inp'.req + m + One(inp'.rdata) /\ m \in Int
              BY <4>11, <4>b
            <6>4. m = 0
              <7> HIDE DEF m
              <7> QED  BY ONLY <6>2, <6>3, SMT
            <6> QED  BY <6>2, <6>4
          <5>2. inp'.fifo = <<>>
            BY <5>1, <4>7
          <5>3. state' = "WAIT_DRAIN" /\ ToFeed' = 0
            BY <5>1, <4>14, <4>20, <3>0
          <5> QED  BY <5>1, <5>2, <5>3, <4>13, <4>19 DEF InputInv
        <4>21. CASE ~FeedDone(ready)
          <5>1. state' = "COMPUTE" /\ tile' = tile /\ ToFeed' \in 1 .. job.m /\ job' = job
            BY <4>21, <4>14, <4>15, <3>0, <1>0
          <5>2. \A v, r : RowIs(v, r)' <=> RowIs(v', r')
            BY <5>1 DEF RowIs
          <5>3. inp'.rdata # None => granted
            BY <4>5
          <5>4. \A i \in 1 .. m : inp'.fifo[i] = [tile |-> tile, row |-> Fed' + (i - 1), ok |-> TRUE]
            BY <4>16 DEF RowIs
          <5>5. granted => inp'.rdata = [tile |-> tile, row |-> Fed' + m, ok |-> TRUE]
            BY <4>17 DEF RowIs
          <5> QED  BY <5>1, <5>3, <5>4, <5>5, <4>11, <4>12, <4>13, <4>19, <3>2 DEF InputInv, RowIs, One
        <4> QED  BY <4>20, <4>21
      <3> QED  BY <3>1, <3>2
    <2> QED  BY <2>2, <2>3
  <1> QED  BY <1>2, <1>3

----
(* The line buffer. *)

LEMMA LineStep ==
    ASSUME SeqInv, SeqInv', WeightInv, InputInv, LineInv, state \in Running, UNCHANGED job,
           NEW granted \in BOOLEAN, NEW ready \in BOOLEAN, Sequencer(ready), WeightEngine(granted),
           InputEngine(ready), Prefetcher, LineBuffer(ready)
    PROVE  LineInv'
  <1>0. /\ job' = job /\ tile \in 0 .. (job.tiles - 1) /\ job.tiles \in Nat \ {0}
        /\ job.m \in 1 .. MaxM /\ MaxM \in Nat \ {0} /\ job.linebuf \in BOOLEAN
        /\ HasNext => job.linebuf
        /\ Stages \in Nat \ {0}
    BY JobFacts, StagesFact DEF SeqInv, HasNext
  <1>1. \/ LoadGoesOn \/ TileBegins \/ FeedGoesOn(ready) \/ FeedEnds(ready)
        \/ DrainGoesOn \/ TileOverlaps \/ TileAdvances \/ JobFinishes
    BY EdgeKinds
  <1>2. /\ prefetchReq \in BOOLEAN
        /\ lb \in [tile : Nat, left : 0 .. MaxM, busy : BOOLEAN, filling : BOOLEAN, filled : BOOLEAN]
        /\ ~lb.busy => lb.left = 0 /\ ~lb.filling
        /\ ~job.linebuf => ~lb.busy
    BY DEF LineInv
  <1>3. prefetchReq' = (state = "WAIT_DRAIN" /\ HasNext /\ (lb.filling \/ Hold))
    BY DEF Prefetcher
  <1>4. /\ LbStart <=> job.linebuf /\ TileStart /\ ~w.done /\ tile = 0
        /\ LbNext <=> job.linebuf /\ FeedStarts /\ ~LbStart
    BY DEF LbStart, LbNext
  <1>5. ~lb.busy => lb' = IF LbStart THEN LbTile(0) ELSE lb
    BY <1>2 DEF LineBuffer, LbAdvances, LbWaits
  <1>6. LbWaits /\ lb.tile + 1 < job.tiles =>
          IF LbNext THEN lb' = LbTile(lb.tile + 1)
          ELSE IF state = "WAIT_DRAIN" /\ prefetchReq /\ ~lb.filled
          THEN \E cached \in BOOLEAN : lb' = [lb EXCEPT !.filling = ~cached, !.filled = cached]
          ELSE lb' = lb
    <2> SUFFICES ASSUME LbWaits, lb.tile + 1 < job.tiles
                 PROVE  IF LbNext THEN lb' = LbTile(lb.tile + 1)
                        ELSE IF state = "WAIT_DRAIN" /\ prefetchReq /\ ~lb.filled
                        THEN \E cached \in BOOLEAN :
                               lb' = [lb EXCEPT !.filling = ~cached, !.filled = cached]
                        ELSE lb' = lb
      OBVIOUS
    <2>1. lb.busy /\ lb.left = 0 /\ ~lb.filling /\ ~(lb.tile + 1 >= job.tiles)
      BY <1>0, <1>2 DEF LbWaits
    <2>2. LbAdvances
      BY <2>1 DEF LineBuffer
    <2> QED  BY <2>2 DEF LbAdvances
  <1>7. LbWaits /\ ~(lb.tile + 1 < job.tiles) => lb' = [lb EXCEPT !.busy = FALSE]
    BY <1>0, <1>2 DEF LineBuffer, LbAdvances, LbWaits
  <1>8. \A t \in Nat : LbTile(t) = [tile |-> t, left |-> job.m, busy |-> TRUE, filling |-> FALSE,
                                    filled |-> FALSE]
    BY DEF LbTile
  <1>9. CASE LoadGoesOn
    <2>1. state = "LOAD_WEIGHTS" /\ state' = "LOAD_WEIGHTS" /\ tile' = tile /\ ~TileStart
      BY <1>9 DEF LoadGoesOn
    <2>2. tile = 0 /\ ~lb.busy
      BY <2>1 DEF TileStart, SeqInv, LineInv
    <2>3. lb' = lb
      BY <2>1, <2>2, <1>4, <1>5
    <2>4. prefetchReq' = FALSE
      BY <1>3, <2>1
    <2> QED  BY <2>1, <2>2, <2>3, <2>4, <1>0, <1>2 DEF LineInv
  <1>10. CASE TileBegins
    <2>1. state = "LOAD_WEIGHTS" /\ TileStart /\ FeedStarts /\ state' = "COMPUTE" /\ tile' = tile
      BY <1>10 DEF TileBegins
    <2>2. inp'.req = job.m
      BY <2>1, InputFields
    <2>3. prefetchReq' = FALSE
      BY <1>3, <2>1
    <2>4. CASE tile = 0
      <3>1. ~w.done /\ ~lb.busy
        BY <2>1, <2>4 DEF SeqInv, LineInv
      <3>2. lb' = IF job.linebuf THEN LbTile(0) ELSE lb
        BY <3>1, <2>1, <2>4, <1>4, <1>5
      <3>3. CASE job.linebuf
        <4>1. lb' = [tile |-> 0, left |-> job.m, busy |-> TRUE, filling |-> FALSE, filled |-> FALSE]
          BY <3>2, <3>3, <1>8
        <4>2. /\ lb' \in [tile : Nat, left : 0 .. MaxM, busy : BOOLEAN, filling : BOOLEAN,
                          filled : BOOLEAN]
              /\ lb'.busy /\ lb'.tile = tile' /\ lb'.left = inp'.req /\ ~lb'.filling
              /\ lb'.tile < job.tiles
          BY <4>1, <2>1, <2>2, <2>4, <1>0
        <4> QED  BY <4>2, <2>1, <2>3, <3>3, <1>0 DEF LineInv
      <3>4. CASE ~job.linebuf
        BY <3>1, <3>2, <3>4, <2>1, <2>3, <1>0, <1>2 DEF LineInv
      <3> QED  BY <3>3, <3>4
    <2>5. CASE tile # 0
      <3>1. LbWaits /\ lb.tile = tile - 1
        BY <2>1, <2>5 DEF LineInv
      <3>2. job.linebuf
        BY <3>1, <1>2 DEF LbWaits
      <3>3. LbNext /\ lb.tile + 1 < job.tiles /\ lb.tile + 1 = tile /\ tile \in Nat
        BY <3>1, <3>2, <2>1, <2>5, <1>0, <1>4
      <3>4. lb' = LbTile(tile)
        BY <3>1, <3>3, <1>6
      <3>5. lb' = [tile |-> tile, left |-> job.m, busy |-> TRUE, filling |-> FALSE, filled |-> FALSE]
        BY <3>3, <3>4, <1>8
      <3>6. /\ lb' \in [tile : Nat, left : 0 .. MaxM, busy : BOOLEAN, filling : BOOLEAN,
                        filled : BOOLEAN]
            /\ lb'.busy /\ lb'.tile = tile' /\ lb'.left = inp'.req /\ ~lb'.filling
            /\ lb'.tile < job.tiles
        BY <3>5, <2>1, <2>2, <3>3, <1>0
      <3> QED  BY <3>6, <2>1, <2>3, <3>2, <1>0 DEF LineInv
    <2> QED  BY <2>4, <2>5
  <1>11. CASE FeedGoesOn(ready) \/ FeedEnds(ready)
    <2>1. /\ state = "COMPUTE" /\ ~FeedStarts /\ ~TileStart /\ tile' = tile
          /\ state' = IF FeedDone(ready) THEN "WAIT_DRAIN" ELSE "COMPUTE"
          /\ FeedDone(ready) => flush' = Stages
      BY <1>11 DEF FeedGoesOn, FeedEnds
    <2>2. prefetchReq' = FALSE
      BY <1>3, <2>1
    <2>3. ~w'.active /\ ~w'.done
      <3>1. ~w.active /\ ~w.done /\ ~PreloadStarts /\ ~Preloading
        BY <2>1 DEF WeightInv, PreloadStarts, Preloading
      <3> QED  BY <3>1, WeightFields
    <2>4. CASE ~job.linebuf
      <3>1. ~lb.busy /\ ~LbStart /\ ~HasNext
        BY <2>4, <1>0, <1>2, <1>4
      <3>2. lb' = lb
        BY <3>1, <1>5
      <3>3. ~HasNext'
        BY <3>1, <2>1, <1>0 DEF HasNext
      <3> QED  BY <3>1, <3>2, <3>3, <2>1, <2>2, <2>3, <2>4, <1>0, <1>2 DEF LineInv
    <2>5. CASE job.linebuf
      <3>1. lb.busy /\ lb.tile = tile /\ lb.left = inp.req /\ ~lb.filling /\ inp.req \in 1 .. job.m
        BY <2>1, <2>5 DEF LineInv, InputInv, ToFeed
      <3>2. lb' = IF Feeds(ready) THEN [lb EXCEPT !.left = @ - 1] ELSE lb
        <4>1. ~LbWaits /\ (LbHandsOver(ready) <=> Feeds(ready))
          BY <3>1, <2>1 DEF LbWaits, LbHandsOver
        <4> QED  BY <4>1, <3>1 DEF LineBuffer, LbAdvances
      <3>3. inp'.req = IF Feeds(ready) THEN inp.req - 1 ELSE inp.req
        <4>1. ~InputRequest
          BY <2>5 DEF InputRequest
        <4> QED  BY <4>1, <2>1, <2>5, InputFields
      <3>4. FeedDone(ready) <=> Feeds(ready) /\ inp.req = 1
        BY <2>5 DEF FeedDone
      <3>5. lb' = [tile |-> tile, left |-> inp'.req, busy |-> TRUE, filling |-> FALSE,
                   filled |-> lb.filled]
        BY <3>1, <3>2, <3>3, <1>2
      <3>6. inp'.req \in 0 .. MaxM /\ (FeedDone(ready) => inp'.req = 0)
        BY <3>1, <3>3, <3>4, <1>0
      <3>7. tile < job.tiles /\ tile \in Nat
        BY <1>0
      <3>8. CASE FeedDone(ready)
        BY <3>5, <3>6, <3>7, <3>8, <2>1, <2>2, <2>3, <2>5, <1>0, <1>2 DEF LineInv
      <3>9. CASE ~FeedDone(ready)
        BY <3>5, <3>6, <3>7, <3>9, <2>1, <2>2, <2>3, <2>5, <1>0, <1>2 DEF LineInv
      <3> QED  BY <3>8, <3>9
    <2> QED  BY <2>4, <2>5
  <1>12. ASSUME state = "WAIT_DRAIN"
         PROVE  /\ lb.left = 0
                /\ lb.busy => lb.tile = tile
                /\ lb.filling => HasNext
                /\ HasNext => lb.busy /\ (lb.filling \/ lb.filled \/ prefetchReq \/ flush = Stages)
                /\ w.active \/ w.done => lb.filling \/ lb.filled
    BY <1>12 DEF LineInv
  <1>13. CASE DrainGoesOn
    <2>1. /\ state = "WAIT_DRAIN" /\ state' = "WAIT_DRAIN" /\ tile' = tile /\ ~FeedStarts /\ ~TileStart
          /\ flush' = IF flush # 0 /\ PipeReady THEN flush - 1 ELSE flush
      BY <1>13 DEF DrainGoesOn
    <2>2. HasNext' <=> HasNext
      BY <2>1, <1>0 DEF HasNext
    <2>3. ~LbStart /\ ~LbNext
      BY <2>1, <1>4
    <2>4. w'.active \/ w'.done => HasNext
      BY <2>1, <2>2 DEF SeqInv
    <2>5. w'.active \/ w'.done => w.active \/ w.done \/ flush = 0
      <3>1. PreloadStarts => flush = 0
        BY DEF PreloadStarts, PreloadAllowed
      <3>2. Preloading => w.active
        BY DEF Preloading
      <3> QED  BY <3>1, <3>2, WeightFields
    <2>6. prefetchReq' \in BOOLEAN
      BY <1>3, <1>2 DEF HasNext, Hold
    <2>7. CASE ~lb.busy
      <3>1. lb' = lb /\ ~HasNext
        BY <2>1, <2>3, <2>7, <1>5, <1>12
      <3> QED  BY <3>1, <2>1, <2>2, <2>4, <2>6, <2>7, <1>0, <1>2, <1>12 DEF LineInv
    <2>8. CASE lb.busy /\ lb.filling
      <3>1. lb' = lb \/ lb' = [lb EXCEPT !.filling = FALSE, !.filled = TRUE]
        <4>1. ~LbWaits /\ lb.left = 0
          BY <2>1, <2>8, <1>12 DEF LbWaits
        <4> QED  BY <4>1, <2>8 DEF LineBuffer, LbAdvances
      <3>2. /\ lb' = [tile |-> lb.tile, left |-> 0, busy |-> TRUE, filling |-> lb'.filling,
                      filled |-> lb'.filled]
            /\ lb'.filling \in BOOLEAN /\ lb'.filled \in BOOLEAN /\ (lb'.filling \/ lb'.filled)
        BY <3>1, <2>1, <2>8, <1>2, <1>12
      <3>3. lb.tile = tile /\ lb.tile \in Nat /\ HasNext /\ tile < job.tiles /\ job.linebuf
        BY <2>1, <2>8, <1>0, <1>2, <1>12
      <3>4. /\ lb' \in [tile : Nat, left : 0 .. MaxM, busy : BOOLEAN, filling : BOOLEAN,
                        filled : BOOLEAN]
            /\ lb'.busy /\ lb'.tile = tile /\ lb'.left = 0 /\ (lb'.filling \/ lb'.filled)
            /\ lb'.tile < job.tiles
        <4>1. lb'.tile = lb.tile /\ lb'.left = 0 /\ lb'.busy = TRUE /\ 0 \in 0 .. MaxM
          BY <3>2, <1>0
        <4> QED  BY <4>1, <3>2, <3>3
      <3> QED  BY <3>3, <3>4, <2>1, <2>2, <2>6, <1>0 DEF LineInv
    <2>9. CASE lb.busy /\ ~lb.filling /\ ~HasNext
      <3>1. LbWaits /\ ~(lb.tile + 1 < job.tiles)
        BY <2>1, <2>9, <1>12 DEF LbWaits, HasNext
      <3>2. lb' = [lb EXCEPT !.busy = FALSE]
        BY <3>1, <1>7
      <3>3. lb' = [tile |-> lb.tile, left |-> 0, busy |-> FALSE, filling |-> FALSE,
                   filled |-> lb.filled]
        BY <3>2, <2>1, <2>9, <1>2, <1>12
      <3> QED  BY <3>3, <2>1, <2>2, <2>4, <2>6, <2>9, <1>0, <1>2 DEF LineInv
    <2>10. CASE lb.busy /\ ~lb.filling /\ HasNext
      <3>1. LbWaits /\ lb.tile + 1 < job.tiles /\ lb.tile = tile
        BY <2>1, <2>10, <1>12 DEF LbWaits, HasNext
      <3>2. IF prefetchReq /\ ~lb.filled
            THEN \E cached \in BOOLEAN : lb' = [lb EXCEPT !.filling = ~cached, !.filled = cached]
            ELSE lb' = lb
        BY <3>1, <2>1, <2>3, <1>6
      <3>3. /\ lb' = [tile |-> tile, left |-> 0, busy |-> TRUE, filling |-> lb'.filling,
                      filled |-> lb'.filled]
            /\ lb'.filling \in BOOLEAN /\ lb'.filled \in BOOLEAN
            /\ prefetchReq \/ lb.filled => lb'.filling \/ lb'.filled
        BY <3>1, <3>2, <2>1, <2>10, <1>2, <1>12
      <3>4. flush = Stages => prefetchReq'
        BY <2>1, <2>10, <1>0, <1>3 DEF Hold
      <3>5. lb'.filling \/ lb'.filled \/ prefetchReq' \/ flush' = Stages
        BY <3>3, <3>4, <2>1, <2>10, <1>12
      <3>6. w'.active \/ w'.done => lb'.filling \/ lb'.filled
        BY <3>3, <2>1, <2>5, <2>10, <1>0, <1>12
      <3>7. /\ lb' \in [tile : Nat, left : 0 .. MaxM, busy : BOOLEAN, filling : BOOLEAN,
                        filled : BOOLEAN]
            /\ lb'.busy /\ lb'.tile = tile /\ lb'.left = 0 /\ lb'.tile < job.tiles
        <4>1. lb'.tile = tile /\ lb'.left = 0 /\ lb'.busy = TRUE /\ 0 \in 0 .. MaxM
              /\ tile \in Nat /\ tile < job.tiles
          BY <3>3, <1>0
        <4> QED  BY <4>1, <3>3
      <3> QED  BY <3>5, <3>6, <3>7, <2>1, <2>2, <2>6, <2>10, <1>0 DEF LineInv
    <2> QED  BY <2>7, <2>8, <2>9, <2>10
  <1>14. CASE TileOverlaps
    <2>1. /\ state = "WAIT_DRAIN" /\ state' = "COMPUTE" /\ tile' = tile + 1 /\ FeedStarts /\ HasNext
          /\ ~lb.filling /\ ~TileStart
      BY <1>14 DEF TileOverlaps
    <2>2. LbWaits /\ lb.tile = tile /\ lb.tile + 1 < job.tiles /\ job.linebuf /\ LbNext
      BY <2>1, <1>0, <1>4, <1>12 DEF LbWaits, HasNext
    <2>3. lb' = LbTile(tile + 1)
      BY <2>2, <1>6
    <2>4. lb' = [tile |-> tile + 1, left |-> job.m, busy |-> TRUE, filling |-> FALSE, filled |-> FALSE]
      BY <2>3 DEF LbTile
    <2>5. inp'.req = job.m
      BY <2>1, InputFields
    <2>6. prefetchReq' \in BOOLEAN
      BY <1>3, <1>2 DEF HasNext, Hold
    <2> QED  BY <2>1, <2>2, <2>4, <2>5, <2>6, <1>0 DEF LineInv
  <1>15. CASE TileAdvances
    <2>1. /\ state = "WAIT_DRAIN" /\ state' = "LOAD_WEIGHTS" /\ tile' = tile + 1 /\ ~FeedStarts
          /\ HasNext /\ ~lb.filling /\ w.done
      BY <1>15 DEF TileAdvances
    <2>2. LbWaits /\ lb.tile = tile /\ lb.tile + 1 < job.tiles /\ ~LbNext /\ lb.filled
      BY <2>1, <1>0, <1>4, <1>12 DEF LbWaits, HasNext
    <2>3. lb' = lb
      BY <2>2, <1>6
    <2>4. prefetchReq' \in BOOLEAN
      BY <1>3, <1>2 DEF HasNext, Hold
    <2>5. job.linebuf /\ LbWaits' /\ lb'.tile = tile' - 1 /\ tile' # 0
      BY <2>1, <2>2, <2>3, <1>0 DEF LbWaits
    <2> QED  BY <2>1, <2>2, <2>3, <2>4, <2>5, <1>0, <1>2 DEF LineInv, LbWaits
  <1>16. CASE JobFinishes
    <2>1. state = "WAIT_DRAIN" /\ state' = "DONE" /\ ~HasNext /\ Finish /\ ~TileStart
      BY <1>16 DEF JobFinishes
    <2>2. ~lb.busy
      BY <2>1, <1>2 DEF Finish
    <2>3. lb' = lb /\ prefetchReq' = FALSE
      BY <2>1, <2>2, <1>3, <1>4, <1>5
    <2> QED  BY <2>1, <2>2, <2>3, <1>0, <1>2 DEF LineInv
  <1> QED  BY <1>1, <1>9, <1>10, <1>11, <1>13, <1>14, <1>15, <1>16

----
(* The output drain: its registers and the end of the array. *)

\* What the service of a cycle does to the registers of the drain, field by field.
LEMMA ServedFields ==
    ASSUME RowsInv, NEW granted \in BOOLEAN
    PROVE  LET d == Served(granted)
               out == Writes /\ granted
               got == ReadsPsum /\ granted
           IN  /\ d = [rows |-> d.rows, pushRow |-> d.pushRow, region |-> d.region, oRow |-> d.oRow,
                       aRow |-> d.aRow, prefetch |-> d.prefetch, read |-> d.read, sent |-> d.sent]
               /\ d.rows = IF ToBuffer \/ out THEN drain.rows - 1 ELSE drain.rows
               /\ d.pushRow = IF Pushed THEN drain.pushRow + 1 ELSE drain.pushRow
               /\ d.region = drain.region
               /\ d.oRow = IF out THEN drain.oRow + 1 ELSE drain.oRow
               /\ d.aRow = IF got THEN drain.aRow + 1 ELSE drain.aRow
               /\ d.prefetch = IF got THEN drain.prefetch - 1 ELSE drain.prefetch
               /\ d.read = IF got THEN PsumAt(drain.aRow) ELSE None
               /\ d.sent \in BOOLEAN
  <1> DEFINE sent == IF QuantizedOut # None /\ granted THEN FALSE
                     ELSE drain.sent \/ ((PsumBuf \/ AccumActive) /\ ToRequant(FALSE))
  <1>1. sent \in BOOLEAN
    BY DEF RowsInv
  <1>2. Served(granted).sent = sent
    BY DEF Served, RowsInv
  <1> HIDE DEF sent
  <1>3. Served(granted).sent \in BOOLEAN
    BY <1>1, <1>2
  <1> DEFINE d == Served(granted)
             out == Writes /\ granted
             got == ReadsPsum /\ granted
  <1>4. drain = [rows |-> drain.rows, pushRow |-> drain.pushRow, region |-> drain.region,
                 oRow |-> drain.oRow, aRow |-> drain.aRow, prefetch |-> drain.prefetch,
                 read |-> drain.read, sent |-> drain.sent]
    BY DEF RowsInv
  <1>5. /\ d = [rows |-> d.rows, pushRow |-> d.pushRow, region |-> d.region, oRow |-> d.oRow,
                aRow |-> d.aRow, prefetch |-> d.prefetch, read |-> d.read, sent |-> d.sent]
        /\ d.region = drain.region
    <2> DEFINE a1 == IF ToBuffer \/ (Writes /\ granted) THEN drain.rows - 1 ELSE drain.rows
               a2 == IF Writes /\ granted THEN drain.oRow + 1 ELSE drain.oRow
               a3 == IF Pushed THEN drain.pushRow + 1 ELSE drain.pushRow
               a4 == IF ReadsPsum /\ granted THEN drain.aRow + 1 ELSE drain.aRow
               a5 == IF ReadsPsum /\ granted THEN drain.prefetch - 1 ELSE drain.prefetch
               a6 == IF ReadsPsum /\ granted THEN PsumAt(drain.aRow) ELSE None
    <2>1. d = [drain EXCEPT !.rows = a1, !.oRow = a2, !.pushRow = a3, !.sent = sent, !.aRow = a4,
                            !.prefetch = a5, !.read = a6]
      BY DEF Served, sent
    <2> HIDE DEF a1, a2, a3, a4, a5, a6, d
    <2> QED  BY <2>1, <1>4
  <1>6. d.rows = IF ToBuffer \/ out THEN drain.rows - 1 ELSE drain.rows
    BY <1>4 DEF Served
  <1>7. d.pushRow = IF Pushed THEN drain.pushRow + 1 ELSE drain.pushRow
    BY <1>4 DEF Served
  <1>8. d.oRow = IF out THEN drain.oRow + 1 ELSE drain.oRow
    BY <1>4 DEF Served
  <1>9. d.aRow = IF got THEN drain.aRow + 1 ELSE drain.aRow
    BY <1>4 DEF Served
  <1>10. d.prefetch = IF got THEN drain.prefetch - 1 ELSE drain.prefetch
    BY <1>4 DEF Served
  <1>11. d.read = IF got THEN PsumAt(drain.aRow) ELSE None
    BY <1>4 DEF Served
  <1> HIDE DEF d, out, got
  <1>12. d.sent \in BOOLEAN
    BY <1>3 DEF d
  <1>13. /\ d = [rows |-> d.rows, pushRow |-> d.pushRow, region |-> d.region, oRow |-> d.oRow,
                 aRow |-> d.aRow, prefetch |-> d.prefetch, read |-> d.read, sent |-> d.sent]
         /\ d.rows = IF ToBuffer \/ out THEN drain.rows - 1 ELSE drain.rows
         /\ d.pushRow = IF Pushed THEN drain.pushRow + 1 ELSE drain.pushRow
         /\ d.region = drain.region
         /\ d.oRow = IF out THEN drain.oRow + 1 ELSE drain.oRow
         /\ d.aRow = IF got THEN drain.aRow + 1 ELSE drain.aRow
         /\ d.prefetch = IF got THEN drain.prefetch - 1 ELSE drain.prefetch
         /\ d.read = IF got THEN PsumAt(drain.aRow) ELSE None
         /\ d.sent \in BOOLEAN
    BY ONLY <1>5, <1>6, <1>7, <1>8, <1>9, <1>10, <1>11, <1>12
  <1> QED  BY <1>13 DEF d, out, got

\* The lifecycle of the drain's registers on each kind of edge.
LEMMA DrainFields ==
    ASSUME RowsInv, NEW granted \in BOOLEAN, Drain(granted), NEW d, d = Served(granted)
    PROVE  /\ ~TileStart /\ ~Overlap /\ ~Advance => drain' = d
           /\ TileStart /\ ~Overlap /\ ~Advance =>
                drain' = [rows |-> IF PsumBuf /\ HasNext /\ tile # 0 THEN drain.rows + job.m ELSE job.m,
                          pushRow |-> 0, region |-> d.region, oRow |-> d.oRow, aRow |-> d.aRow,
                          prefetch |-> IF AccumActive /\ (~PsumBuf \/ NeedsExternal) THEN job.m ELSE 0,
                          read |-> None, sent |-> FALSE]
           /\ ~TileStart /\ (Overlap \/ Advance) =>
                drain' = [rows |-> IF Overlap THEN drain.rows + job.m ELSE d.rows,
                          pushRow |-> IF Overlap THEN 0 ELSE d.pushRow,
                          region |-> IF ThroughMemory(job) /\ tile + 2 < job.tiles THEN "psum" ELSE "ofm",
                          oRow |-> 0, aRow |-> 0,
                          prefetch |-> d.prefetch, read |-> d.read, sent |-> d.sent]
  <1>1. d = [rows |-> d.rows, pushRow |-> d.pushRow, region |-> d.region, oRow |-> d.oRow,
             aRow |-> d.aRow, prefetch |-> d.prefetch, read |-> d.read, sent |-> d.sent]
    BY ServedFields
  <1> QED  BY <1>1 DEF Drain, DrainStarts, DrainAdvances

\* The entry of the OFM FIFO for row r of the tile.
EntryOf(r) == [val |-> {<<tile, r>>}, row |-> r, tile |-> tile, ext |-> FALSE, final |-> ~HasNext]

LEMMA SumFacts ==
    ASSUME job \in Jobs, tile \in 0 .. (job.tiles - 1), NEW r \in 0 .. (job.m - 1)
    PROVE  /\ {<<tile, r>>} \in Sums /\ EntryOf(r) \in Entry /\ EntryOf(r) # None
           /\ r \in OutRows
  <1>1. tile \in Tiles /\ r \in OutRows
    BY JobFacts DEF OutRows
  <1>2. {<<tile, r>>} \in Sums
    BY <1>1 DEF Sums
  <1>3. (~HasNext) \in BOOLEAN
    OBVIOUS
  <1>4. EntryOf(r) \in Entry
    BY <1>1, <1>2, <1>3 DEF EntryOf, Entry
  <1> QED  BY <1>1, <1>2, <1>4, ValuesAssumption

\* The OFM FIFO with the result that leaves the array.
LEMMA OfmFacts ==
    ASSUME OneTile, SeqInv, PipeInv, OfmInv, RowsInv, InputInv
    PROVE  /\ ~Busy => Ofm = <<>> /\ ~Pushed
           /\ Pushed <=> PipeReady /\ pipe[Stages] # None
           /\ pipe[Stages] # None => Busy /\ pipe[Stages].row = drain.pushRow /\ drain.pushRow < Fed
           /\ Ofm \in Seq(Entry) /\ Len(Ofm) <= OfmDepth
           /\ Len(Ofm) = IF Pushed THEN Len(ofm) + 1 ELSE Len(ofm)
           /\ \A i \in 1 .. Len(Ofm) : Ofm[i] = EntryOf(Taken + (i - 1))
  <1>0. /\ Stages \in Nat \ {0} /\ OfmDepth \in Nat \ {0}
        /\ job.m \in 1 .. MaxM /\ MaxM \in Nat /\ job.tiles \in Nat /\ job \in Jobs
        /\ tile \in 0 .. (job.tiles - 1)
    BY SystolicAssumption, StagesFact, JobFacts DEF SeqInv
  <1>1. /\ ofm \in Seq(Entry) /\ Len(ofm) <= OfmDepth /\ Len(ofm) \in Nat
        /\ drain.pushRow \in 0 .. MaxM /\ (~Busy => ofm = <<>>)
        /\ \A i \in 1 .. Len(ofm) : ofm[i] = EntryOf(Taken + (i - 1))
    BY DEF OfmInv, RowsInv, EntryOf
  <1>2. ASSUME pipe[Stages] # None
        PROVE  /\ Busy /\ pipe[Stages].row = drain.pushRow /\ drain.pushRow < Fed
               /\ pipe[Stages].ok /\ pipe[Stages].tile = tile /\ drain.pushRow \in 0 .. (job.m - 1)
    <2>1. Busy /\ Lines(PipeRow, Stages, drain.pushRow, Fed) /\ RowIs(pipe[Stages], pipe[Stages].row)
          /\ pipe[Stages] \in Vector
      BY <1>2, <1>0 DEF PipeInv
    <2>2. PipeRow[Stages] = pipe[Stages].row /\ PipeRow[Stages] # -1
      BY <2>1, <1>0, <1>2 DEF PipeRow, Vector, OutRows
    <2>3. Fed \in Nat /\ Fed <= job.m
      BY <2>1, <1>0 DEF Busy, Fed, InputInv
    <2>4. PipeRow[Stages] = drain.pushRow /\ drain.pushRow < Fed
      <3>1. drain.pushRow \in Nat
        BY <1>1, <1>0
      <3> QED  BY <2>1, <2>2, <2>3, <3>1, <1>0, LinesEnds
    <2> QED  BY <2>1, <2>2, <2>3, <2>4, <1>0, <1>1 DEF RowIs
  <1>3. pipe[Stages] # None => Result = EntryOf(drain.pushRow) /\ Result \in Entry /\ Result # None
    <2>1. ASSUME pipe[Stages] # None PROVE Result = EntryOf(drain.pushRow)
      <3>1. ~NeedsExternal
        BY <1>0 DEF OneTile, NeedsExternal, PsumBuf, Buffered
      <3>2. NeedsExternal = FALSE
        BY <3>1 DEF NeedsExternal
      <3>3. /\ pipe[Stages].ok /\ pipe[Stages].tile = tile
            /\ pipe[Stages].row = drain.pushRow
        BY <2>1, <1>2
      <3> QED  BY <3>2, <3>3, <2>1 DEF Result, EntryOf
    <2> QED  BY <2>1, <1>0, <1>2, SumFacts
  <1>4. pipe[Stages] = None => Result = None
    BY DEF Result
  <1>5. PipeReady <=> pipe[Stages] = None \/ Len(ofm) < OfmDepth
    BY DEF PipeReady
  <1>6. CASE ~(PipeReady /\ pipe[Stages] # None)
    <2>1. Ofm = ofm
      BY <1>6, <1>1, <1>0, <1>4, <1>5 DEF Ofm, Push
    <2>2. ~Pushed
      BY <2>1, <1>1 DEF Pushed
    <2> QED  BY <2>1, <2>2, <1>1, <1>2, <1>6
  <1>7. CASE PipeReady /\ pipe[Stages] # None
    <2>1. Ofm = Append(ofm, Result) /\ Len(ofm) < OfmDepth /\ Result \in Entry
      BY <1>7, <1>1, <1>0, <1>3, <1>5 DEF Ofm, Push
    <2>2. /\ Ofm \in Seq(Entry) /\ Len(Ofm) = Len(ofm) + 1 /\ Pushed
          /\ Ofm[Len(ofm) + 1] = Result /\ \A i \in 1 .. Len(ofm) : Ofm[i] = ofm[i]
      BY <2>1, <1>1 DEF Pushed
    <2>3. ASSUME NEW i \in 1 .. Len(Ofm) PROVE Ofm[i] = EntryOf(Taken + (i - 1))
      <3>1. CASE i = Len(ofm) + 1
        <4>1. Taken + (i - 1) = drain.pushRow
          BY <3>1, <1>1, <1>0 DEF Taken
        <4> QED  BY <3>1, <4>1, <2>2, <1>3, <1>7
      <3>2. CASE i # Len(ofm) + 1
        <4>1. i \in 1 .. Len(ofm)
          BY <3>2, <2>2, <1>1
        <4> QED  BY <4>1, <2>2, <1>1
      <3> QED  BY <3>1, <3>2
    <2> QED  BY <2>1, <2>2, <2>3, <1>0, <1>1, <1>2, <1>7
  <1> QED  BY <1>6, <1>7

----
(* The array. *)

\* A vector is whole again after a stage when every row holds the weight of its tile.
LEMMA MultiplyFacts ==
    ASSUME NEW v, NEW age, NEW t
    PROVE  /\ v = None => Multiply(v, age) = None
           /\ v # None /\ Holds(t) /\ v \in Vector /\ v.tile = t /\ v.ok => Multiply(v, age) = v
  <1>1. ASSUME v # None, Holds(t), v \in Vector, v.tile = t, v.ok PROVE Multiply(v, age) = v
    <2> DEFINE good == \A r \in ArrayRows : r <= age /\ age <= r + Dim - 1 => held[r] = <<v.tile, r>>
    <2>1. good
      BY <1>1 DEF Holds
    <2>2. Multiply(v, age) = [v EXCEPT !.ok = @ /\ good]
      BY <1>1 DEF Multiply
    <2> HIDE DEF good
    <2>3. v = [tile |-> v.tile, row |-> v.row, ok |-> TRUE]
      BY <1>1 DEF Vector
    <2>4. v.ok = TRUE /\ (v.ok /\ good) = TRUE
      BY <2>1, <2>3
    <2>5. Multiply(v, age) = [v EXCEPT !.ok = TRUE]
      BY <2>2, <2>4
    <2> QED  BY <2>3, <2>5
  <1> QED  BY <1>1 DEF Multiply

\* What is fed is the next row of the tile.
LEMMA FedRowFacts ==
    ASSUME SeqInv, InputInv, LineInv, NEW ready \in BOOLEAN, Feeds(ready)
    PROVE  RowIs(FedRow, Fed) /\ FedRow \in Vector /\ FedRow # None /\ Fed \in 0 .. (job.m - 1)
  <1>0. /\ state = "COMPUTE" /\ job.m \in 1 .. MaxM /\ MaxM \in Nat \ {0} /\ tile \in Tiles
        /\ job.linebuf \in BOOLEAN
    BY JobFacts DEF SeqInv, Feeds
  <1>1. ToFeed \in 1 .. job.m
    BY <1>0 DEF InputInv
  <1>2. RowIs(FedRow, Fed)
    <2>1. CASE job.linebuf
      BY <2>1, <1>0 DEF FedRow, RowIs, Fed, ToFeed, LineInv
    <2>2. CASE ~job.linebuf
      <3>1. InputFifo \in Seq(Vector) /\ \A i \in 1 .. Len(InputFifo) : RowIs(InputFifo[i], Fed + (i - 1))
        BY <2>2, <1>0, InputFifoFacts
      <3>2. InputFifo # <<>> /\ FedRow = InputFifo[1] /\ 1 \in 1 .. Len(InputFifo)
        BY <2>2, <3>1 DEF Feeds, FedRow
      <3>3. Fed + (1 - 1) = Fed
        BY <1>0, <1>1 DEF Fed
      <3> QED  BY <3>1, <3>2, <3>3
    <2> QED  BY <2>1, <2>2, <1>0
  <1>3. Fed \in 0 .. (job.m - 1)
    BY <1>0, <1>1 DEF Fed
  <1>4. FedRow \in Vector
    <2>1. Fed \in OutRows
      BY <1>0, <1>3 DEF OutRows
    <2> QED  BY <1>0, <1>2, <2>1 DEF RowIs, Vector
  <1> QED  BY <1>2, <1>3, <1>4, ValuesAssumption

\* An empty array that is not fed stays empty.
LEMMA PipeEmpty ==
    ASSUME \A i \in 1 .. Stages : pipe[i] = None, NEW ready \in BOOLEAN, ~Feeds(ready), MovePipe(ready)
    PROVE  pipe' = [i \in 1 .. Stages |-> None] /\ \A i \in 1 .. Stages : pipe'[i] = None
  <1>1. Stages \in Nat \ {0}
    BY StagesFact
  <1>2. PipeReady
    BY <1>1 DEF PipeReady
  <1>3. pipe' = [i \in 1 .. Stages |->
                    IF i = 1 THEN Multiply(None, 0) ELSE Multiply(pipe[i - 1], i - 1)]
    BY <1>2 DEF MovePipe
  <1>4. \A age : Multiply(None, age) = None
    BY MultiplyFacts
  <1>5. \A i \in 1 .. Stages : pipe'[i] = None
    <2>1. ASSUME NEW i \in 1 .. Stages PROVE pipe'[i] = None
      <3>1. CASE i = 1
        BY <3>1, <1>1, <1>3, <1>4
      <3>2. CASE i # 1
        <4>1. i - 1 \in 1 .. Stages
          BY <3>2, <1>1
        <4> QED  BY <3>2, <4>1, <1>3, <1>4
      <3> QED  BY <3>1, <3>2
    <2> QED  BY <2>1
  <1> QED  BY <1>3, <1>5

\* The array moves on by a stage, or stands still.
LEMMA PipeMoves ==
    ASSUME OneTile, SeqInv, WeightInv, InputInv, LineInv, PipeInv, OfmInv, RowsInv, Busy,
           NEW ready \in BOOLEAN, MovePipe(ready),
           NEW lo, lo = IF Pushed THEN drain.pushRow + 1 ELSE drain.pushRow,
           NEW hi, hi = IF Feeds(ready) THEN Fed + 1 ELSE Fed,
           NEW q, q = [i \in 1 .. Stages |-> IF pipe'[i] = None THEN -1 ELSE pipe'[i].row]
    PROVE  /\ pipe' \in [1 .. Stages -> Vector \cup {None}]
           /\ lo <= hi /\ Lines(q, Stages, lo, hi)
           /\ \A i \in 1 .. Stages : pipe'[i] # None => RowIs(pipe'[i], pipe'[i].row)
           /\ state = "WAIT_DRAIN" => \A i \in 1 .. Stages :
                pipe'[i] # None => i + (IF flush # 0 /\ PipeReady THEN flush - 1 ELSE flush) > Stages
  <1>0. /\ Stages \in Nat \ {0} /\ state \in {"COMPUTE", "WAIT_DRAIN"} /\ flush \in 0 .. Stages
        /\ job.m \in 1 .. MaxM /\ MaxM \in Nat \ {0} /\ tile \in Tiles /\ tile \in Nat
    BY StagesFact, JobFacts DEF SeqInv, Busy
  <1>1. /\ pipe \in [1 .. Stages -> Vector \cup {None}]
        /\ drain.pushRow <= Fed /\ Lines(PipeRow, Stages, drain.pushRow, Fed)
        /\ \A i \in 1 .. Stages : pipe[i] # None => RowIs(pipe[i], pipe[i].row)
        /\ state = "WAIT_DRAIN" => \A i \in 1 .. Stages : pipe[i] # None => i + flush > Stages
    BY DEF PipeInv
  <1>2. drain.pushRow \in Nat /\ Fed \in Nat
    <2>1. ToFeed \in 0 .. job.m
      BY <1>0 DEF InputInv
    <2> QED  BY <2>1, <1>0 DEF Fed, RowsInv
  <1>3. Pushed <=> PipeReady /\ pipe[Stages] # None
    BY OfmFacts
  <1>4. CASE ~PipeReady
    <2>1. pipe' = pipe /\ ~Feeds(ready) /\ ~Pushed
      BY <1>3, <1>4 DEF MovePipe, Feeds
    <2>2. q = PipeRow /\ lo = drain.pushRow /\ hi = Fed
      BY <2>1 DEF PipeRow
    <2> QED  BY <2>1, <2>2, <1>1, <1>4
  <1>5. CASE PipeReady
    <2> DEFINE new == IF Feeds(ready) THEN FedRow ELSE None
    <2>1. pipe' = [i \in 1 .. Stages |->
                     IF i = 1 THEN Multiply(new, 0) ELSE Multiply(pipe[i - 1], i - 1)]
      BY <1>5 DEF MovePipe
    <2>2. new # None => RowIs(new, Fed) /\ new \in Vector /\ Feeds(ready) /\ state = "COMPUTE"
      BY FedRowFacts DEF Feeds
    <2>3. Feeds(ready) => new # None
      BY FedRowFacts
    <2> HIDE DEF new
    <2>4. state = "COMPUTE" => Holds(tile)
      BY DEF WeightInv, Running, Loading
    <2>5. (\E i \in 1 .. Stages : pipe[i] # None) => Holds(tile)
      <3>1. ASSUME NEW i \in 1 .. Stages, pipe[i] # None, state = "WAIT_DRAIN" PROVE Holds(tile)
        <4>1. flush # 0
          BY <3>1, <1>0, <1>1
        <4>2. ~w.active /\ ~w.done
          BY <3>1, <4>1 DEF SeqInv
        <4> QED  BY <3>1, <4>2 DEF WeightInv, Running, Loading
      <3> QED  BY <3>1, <2>4, <1>0
    <2>6. Multiply(new, 0) = new
      <3>1. CASE new = None
        BY <3>1, MultiplyFacts
      <3>2. CASE new # None
        <4>1. new.tile = tile /\ new.ok /\ Holds(tile)
          BY <3>2, <2>2, <2>4 DEF RowIs
        <4> QED  BY <3>2, <4>1, <2>2, MultiplyFacts
      <3> QED  BY <3>1, <3>2
    <2>7. ASSUME NEW i \in 1 .. Stages, NEW age PROVE Multiply(pipe[i], age) = pipe[i]
      <3>1. CASE pipe[i] = None
        BY <3>1, MultiplyFacts
      <3>2. CASE pipe[i] # None
        <4>1. RowIs(pipe[i], pipe[i].row) /\ Holds(tile) /\ pipe[i] \in Vector
          BY <3>2, <1>1, <2>5
        <4>2. pipe[i].tile = tile /\ pipe[i].ok
          BY <4>1 DEF RowIs
        <4> QED  BY <3>2, <4>1, <4>2, MultiplyFacts
      <3> QED  BY <3>1, <3>2
    <2>8. ASSUME NEW i \in 1 .. Stages PROVE pipe'[i] = IF i = 1 THEN new ELSE pipe[i - 1]
      <3>1. CASE i = 1
        BY <3>1, <2>1, <2>6
      <3>2. CASE i # 1
        <4>1. i - 1 \in 1 .. Stages
          BY <3>2, <1>0
        <4> QED  BY <3>2, <4>1, <2>1, <2>7
      <3> QED  BY <3>1, <3>2
    <2>9. \A i \in 1 .. Stages : i # 1 => i - 1 \in 1 .. Stages
      BY <1>0
    <2>10. pipe' \in [1 .. Stages -> Vector \cup {None}]
      <3>1. \A i \in 1 .. Stages : pipe'[i] \in Vector \cup {None}
        BY <2>2, <2>8, <2>9, <1>1
      <3> QED  BY <3>1, <2>1
    <2>11. \A i \in 1 .. Stages : pipe'[i] # None => RowIs(pipe'[i], pipe'[i].row)
      <3>1. new # None => RowIs(new, new.row)
        BY <2>2 DEF RowIs
      <3> QED  BY <3>1, <2>8, <2>9, <1>1
    <2>12. ASSUME state = "WAIT_DRAIN", NEW i \in 1 .. Stages, pipe'[i] # None
           PROVE  i + (IF flush # 0 /\ PipeReady THEN flush - 1 ELSE flush) > Stages
      <3>1. i # 1 /\ pipe[i - 1] # None /\ i - 1 \in 1 .. Stages
        BY <2>12, <2>2, <2>8, <2>9
      <3>2. (i - 1) + flush > Stages /\ i - 1 <= Stages
        BY <3>1, <2>12, <1>1
      <3>3. flush # 0
        BY <3>1, <3>2, <1>0
      <3> QED  BY <3>1, <3>2, <3>3, <1>0, <1>5
    <2>13. lo <= hi /\ Lines(q, Stages, lo, hi)
      <3> DEFINE f == PipeRow
                 z == 1 .. Stages
      <3>1. \A i \in 1 .. Stages : f[i] = IF pipe[i] = None THEN -1 ELSE pipe[i].row
        BY DEF PipeRow
      <3>2. hi = Fed <=> ~Feeds(ready)
        BY <1>2
      <3>3. \A v \in Vector : v.row # -1
        BY DEF Vector, OutRows
      <3>4. \A i \in 1 .. Stages : f[i] = -1 <=> pipe[i] = None
        BY <3>1, <3>3, <1>1
      <3>5. new # None => new.row = Fed
        BY <2>2 DEF RowIs
      <3> DEFINE row == IF hi = Fed THEN -1 ELSE Fed
      <3>6. ASSUME NEW i \in 1 .. Stages
            PROVE  q[i] = IF i \notin z THEN f[i] ELSE IF i = 1 THEN row ELSE f[i - 1]
        <4>1. q[i] = IF pipe'[i] = None THEN -1 ELSE pipe'[i].row
          OBVIOUS
        <4>2. CASE i = 1
          BY <4>1, <4>2, <2>2, <2>3, <2>8, <3>2, <3>5, <1>0
        <4>3. CASE i # 1
          <5>1. i - 1 \in 1 .. Stages /\ pipe'[i] = pipe[i - 1]
            BY <4>3, <2>8, <2>9, <1>0
          <5> QED  BY <5>1, <4>1, <4>3, <3>1
        <4> QED  BY <4>2, <4>3
      <3>7. lo = IF Stages \in z /\ f[Stages] # -1 THEN drain.pushRow + 1 ELSE drain.pushRow
        BY <3>4, <1>0, <1>3, <1>5
      <3>8. hi = Fed \/ (hi = Fed + 1 /\ 1 \in z)
        BY <1>0
      <3>9. Lines(f, Stages, drain.pushRow, Fed) /\ drain.pushRow <= Fed
        BY <1>1
      <3>10. Moves(f, Stages, drain.pushRow, Fed, z, q, lo, hi)
        <4>1. /\ z \subseteq 1 .. Stages
              /\ \A i, k \in 1 .. Stages : i < k /\ k \in z => i \in z
              /\ \A i \in z : i # Stages /\ i + 1 \notin z => f[i] = -1
          BY <1>0
        <4>2. \A i \in 1 .. Stages :
                q[i] = IF i \notin z THEN f[i]
                       ELSE IF i = 1 THEN (IF hi = Fed THEN -1 ELSE Fed) ELSE f[i - 1]
          BY <3>6
        <4> HIDE DEF f, z
        <4> QED  BY ONLY <4>1, <4>2, <3>7, <3>8 DEF Moves
      <3> HIDE DEF f, z
      <3>11. /\ f[Stages] # -1 => f[Stages] = drain.pushRow /\ drain.pushRow < Fed
             /\ Lines(q, Stages, lo, hi)
        BY ONLY <3>9, <3>10, <1>0, <1>2, LinesMove
      <3>12. lo <= hi
        BY <3>7, <3>8, <3>9, <3>11, <1>2
      <3> QED  BY <3>11, <3>12
    <2> QED  BY <2>10, <2>11, <2>12, <2>13
  <1> QED  BY <1>4, <1>5

LEMMA FedNext ==
    ASSUME SeqInv, InputInv, UNCHANGED job, NEW ready \in BOOLEAN, InputEngine(ready)
    PROVE  /\ FeedStarts => Fed' = 0
           /\ ~FeedStarts => Fed' = IF Feeds(ready) THEN Fed + 1 ELSE Fed
           /\ Busy => Fed \in 0 .. job.m
  <1>0. /\ job' = job /\ job.m \in 1 .. MaxM /\ MaxM \in Nat /\ job.linebuf \in BOOLEAN
        /\ inp.req \in 0 .. MaxM /\ inp.rsp \in 0 .. MaxM
    BY JobFacts DEF SeqInv, InputInv
  <1>3. Busy => Fed \in 0 .. job.m
    BY <1>0 DEF Busy, Fed, InputInv
  <1>1. CASE FeedStarts
    <2>1. inp'.req = job.m /\ inp'.rsp = job.m
      BY <1>1, InputFields
    <2>2. Fed' = job.m - job.m
      BY <2>1, <1>0 DEF Fed, ToFeed
    <2> QED  BY <2>2, <1>0, <1>1, <1>3
  <1>2. CASE ~FeedStarts
    <2>1. /\ inp'.req = IF (ready /\ InputRequest) \/ (Feeds(ready) /\ job.linebuf)
                        THEN inp.req - 1 ELSE inp.req
          /\ inp'.rsp = IF Feeds(ready) /\ ~job.linebuf THEN inp.rsp - 1 ELSE inp.rsp
      BY <1>2, InputFields
    <2>2. job.linebuf => ~InputRequest
      BY DEF InputRequest
    <2>3. Fed' = IF job.linebuf THEN job.m - inp'.req ELSE job.m - inp'.rsp
      BY <1>0 DEF Fed, ToFeed
    <2>4. Fed = IF job.linebuf THEN job.m - inp.req ELSE job.m - inp.rsp
      BY <1>0 DEF Fed, ToFeed
    <2>5. CASE Feeds(ready)
      BY <2>1, <2>2, <2>3, <2>4, <2>5, <1>0, <1>2, <1>3
    <2>6. CASE ~Feeds(ready)
      BY <2>1, <2>2, <2>3, <2>4, <2>6, <1>0, <1>2, <1>3
    <2> QED  BY <2>5, <2>6
  <1> QED  BY <1>1, <1>2

\* When the last rows are drained the array and the requant pipeline are empty.
LEMMA DrainedFacts ==
    ASSUME OneTile, SeqInv, PipeInv, OfmInv, RowsInv, InputInv, RqInv, Finish
    PROVE  /\ \A i \in 1 .. Stages : pipe[i] = None
           /\ \A i \in 1 .. RequantStages : rq[i] = None
           /\ drain.oRow = job.m /\ drain.rows = 0 /\ Ofm = <<>> /\ ~Pushed /\ ofm = <<>>
           /\ drain.pushRow = job.m
  <1>0. /\ state = "WAIT_DRAIN" /\ ~HasNext /\ drain.rows = 0 /\ Ofm = <<>> /\ Busy
        /\ job.m \in 1 .. MaxM /\ MaxM \in Nat /\ Stages \in Nat \ {0} /\ RequantStages \in Nat \ {0}
    BY SystolicAssumption, StagesFact, JobFacts DEF SeqInv, Finish, Ends, Drained, Busy
  <1>1. Len(Ofm) = (IF Pushed THEN Len(ofm) + 1 ELSE Len(ofm)) /\ Len(Ofm) = 0 /\ ofm \in Seq(Entry)
    BY <1>0, OfmFacts DEF OfmInv
  <1>2. ~Pushed /\ Len(ofm) = 0 /\ ofm = <<>>
    <2>1. Len(ofm) \in Nat
      BY <1>1
    <2>2. ~Pushed
      <3>1. Pushed => Len(Ofm) = Len(ofm) + 1
        BY <1>1
      <3>2. Len(Ofm) = 0
        BY <1>1
      <3> HIDE DEF Pushed
      <3> QED  BY ONLY <3>1, <3>2, <2>1, SMT
    <2>3. Len(ofm) = 0
      BY <2>2, <1>1
    <2> QED  BY <2>2, <2>3, <1>1
  <1>3. drain.rows = job.m - drain.oRow /\ drain.oRow <= Taken /\ drain.oRow \in 0 .. MaxM
        /\ drain.pushRow \in 0 .. MaxM
    BY <1>0 DEF RowsInv
  <1>4. /\ Fed = job.m /\ drain.pushRow <= Fed /\ Lines(PipeRow, Stages, drain.pushRow, Fed)
        /\ pipe \in [1 .. Stages -> Vector \cup {None}]
    BY <1>0 DEF PipeInv, InputInv, Fed
  <1>5. drain.oRow = job.m /\ Taken = drain.pushRow /\ drain.pushRow = job.m
    BY <1>0, <1>2, <1>3, <1>4 DEF Taken
  <1>6. \A i \in 1 .. Stages : pipe[i] = None
    <2>1. \A i \in 1 .. Stages : PipeRow[i] = -1
      <3>1. drain.pushRow \in Nat /\ Fed \in Nat /\ Fed <= drain.pushRow
        BY <1>0, <1>4, <1>5
      <3> QED  BY <3>1, <1>0, <1>4, LinesEnds
    <2> QED  BY <2>1, <1>4 DEF PipeRow, Vector, OutRows
  <1>7. \A i \in 1 .. RequantStages : rq[i] = None
    <2>1. PICK f \in [1 .. RequantStages -> Int] : RqRows(f)
      BY <1>0 DEF RqInv
    <2>2. Lines(f, RequantStages, drain.oRow, Taken) /\ \A i \in 1 .. RequantStages : f[i] = -1 <=> rq[i] = None
      BY <2>1 DEF RqRows
    <2>3. \A i \in 1 .. RequantStages : f[i] = -1
      <3>1. drain.oRow \in Nat /\ Taken \in Nat /\ Taken <= drain.oRow
        BY <1>0, <1>5
      <3> QED  BY <3>1, <2>2, <1>0, LinesEnds
    <2> QED  BY <2>2, <2>3
  <1> QED  BY <1>0, <1>2, <1>5, <1>6, <1>7

\* With flush at zero the array is empty.
LEMMA Flushed ==
    ASSUME SeqInv, PipeInv, state = "WAIT_DRAIN", flush = 0
    PROVE  \A i \in 1 .. Stages : pipe[i] = None
  BY StagesFact DEF PipeInv

LEMMA LinesNone ==
    ASSUME NEW n \in Nat \ {0}, NEW f, \A i \in 1 .. n : f[i] = -1, NEW lo \in Nat
    PROVE  Lines(f, n, lo, lo)
  BY DEF Lines

LEMMA PipeStep ==
    ASSUME OneTile, SeqInv, WeightInv, InputInv, LineInv, PipeInv, OfmInv, RowsInv, RqInv,
           state \in Running, UNCHANGED job, NEW granted \in BOOLEAN, NEW ready \in BOOLEAN,
           Sequencer(ready), InputEngine(ready), MovePipe(ready), Drain(granted)
    PROVE  PipeInv'
  <1>0. Stages \in Nat \ {0}
    BY StagesFact
  <1>1. \/ LoadGoesOn \/ TileBegins \/ FeedGoesOn(ready) \/ FeedEnds(ready)
        \/ DrainGoesOn \/ TileOverlaps \/ TileAdvances \/ JobFinishes
    BY EdgeKinds
  <1>2. ASSUME \A i \in 1 .. Stages : pipe[i] = None, ~Feeds(ready),
               Busy' => drain'.pushRow = 0 /\ Fed' = 0
        PROVE  PipeInv'
    <2>1. pipe' = [i \in 1 .. Stages |-> None] /\ \A i \in 1 .. Stages : pipe'[i] = None
      BY <1>2, PipeEmpty
    <2>2. PipeRow' = [i \in 1 .. Stages |-> -1]
      BY <2>1 DEF PipeRow
    <2>3. Lines(PipeRow', Stages, 0, 0)
      BY <2>2, <1>0, LinesNone
    <2> QED  BY <2>1, <2>3, <1>2 DEF PipeInv
  <1>3. CASE LoadGoesOn \/ TileBegins
    <2>1. state = "LOAD_WEIGHTS" /\ ~Busy /\ ~Feeds(ready)
      BY <1>3 DEF LoadGoesOn, TileBegins, Busy, Feeds
    <2>2. \A i \in 1 .. Stages : pipe[i] = None
      BY <2>1 DEF PipeInv
    <2>3. Busy' => drain'.pushRow = 0 /\ Fed' = 0
      <3>1. Busy' => TileBegins
        BY <1>3 DEF LoadGoesOn, Busy
      <3>2. TileBegins => FeedStarts /\ TileStart /\ ~Overlap /\ ~Advance
        BY DEF TileBegins
      <3>3. TileBegins => drain'.pushRow = 0
        BY <3>2, DrainFields
      <3> QED  BY <3>1, <3>2, <3>3, FedNext
    <2> QED  BY <2>1, <2>2, <2>3, <1>2
  <1>4. CASE TileOverlaps
    <2>1. state = "WAIT_DRAIN" /\ flush = 0 /\ ~Feeds(ready) /\ Overlap /\ ~TileStart /\ FeedStarts
      BY <1>4 DEF TileOverlaps, Feeds
    <2>2. drain'.pushRow = 0 /\ Fed' = 0
      BY <2>1, DrainFields, FedNext
    <2> QED  BY <2>1, <2>2, <1>2, Flushed
  <1>5. CASE TileAdvances
    <2>1. state = "WAIT_DRAIN" /\ flush = 0 /\ ~Feeds(ready) /\ ~Busy'
      BY <1>5 DEF TileAdvances, Feeds, Busy
    <2> QED  BY <2>1, <1>2, Flushed
  <1>6. CASE JobFinishes
    <2>1. ~Feeds(ready) /\ ~Busy' /\ Finish
      BY <1>6 DEF JobFinishes, Feeds, Busy
    <2> QED  BY <2>1, <1>2, DrainedFacts
  <1>7. CASE FeedGoesOn(ready) \/ FeedEnds(ready) \/ DrainGoesOn
    <2>1. /\ Busy /\ Busy' /\ tile' = tile /\ ~FeedStarts /\ ~TileStart /\ ~Overlap /\ ~Advance
          /\ state = "COMPUTE" /\ state' = "WAIT_DRAIN" => flush' = Stages
          /\ state = "WAIT_DRAIN" =>
               flush' = IF flush # 0 /\ PipeReady THEN flush - 1 ELSE flush
      BY <1>7 DEF FeedGoesOn, FeedEnds, DrainGoesOn, Busy
    <2> DEFINE lo == IF Pushed THEN drain.pushRow + 1 ELSE drain.pushRow
               hi == IF Feeds(ready) THEN Fed + 1 ELSE Fed
    <2>2. drain'.pushRow = lo
      BY <2>1, DrainFields, ServedFields
    <2>3. Fed' = hi
      BY <2>1, FedNext
    <2>4. PipeRow' = [i \in 1 .. Stages |-> IF pipe'[i] = None THEN -1 ELSE pipe'[i].row]
      BY DEF PipeRow
    <2> HIDE DEF lo, hi
    <2>5. /\ pipe' \in [1 .. Stages -> Vector \cup {None}]
          /\ lo <= hi /\ Lines(PipeRow', Stages, lo, hi)
          /\ \A i \in 1 .. Stages : pipe'[i] # None => RowIs(pipe'[i], pipe'[i].row)
          /\ state = "WAIT_DRAIN" => \A i \in 1 .. Stages :
               pipe'[i] # None => i + (IF flush # 0 /\ PipeReady THEN flush - 1 ELSE flush) > Stages
      BY <2>1, <2>4, PipeMoves DEF lo, hi
    <2>6. \A i \in 1 .. Stages : pipe'[i] # None =>
             pipe'[i] = [tile |-> tile', row |-> pipe'[i].row, ok |-> TRUE]
      BY <2>1, <2>5 DEF RowIs
    <2>7. state' = "WAIT_DRAIN" => \A i \in 1 .. Stages : pipe'[i] # None => i + flush' > Stages
      <3>1. CASE state = "COMPUTE"
        BY <3>1, <2>1, <1>0
      <3>2. CASE state = "WAIT_DRAIN"
        BY <3>2, <2>1, <2>5
      <3> QED  BY <3>1, <3>2, <2>1 DEF Busy
    <2> QED  BY <2>1, <2>2, <2>3, <2>5, <2>6, <2>7 DEF PipeInv, RowIs
  <1> QED  BY <1>1, <1>3, <1>4, <1>5, <1>6, <1>7

----
(* The service of a cycle: what leaves the OFM FIFO. *)

\* The head of the OFM FIFO is the first row not taken.
LEMMA HeadFacts ==
    ASSUME OneTile, SeqInv, PipeInv, OfmInv, RowsInv, InputInv
    PROVE  /\ Ofm # <<>> => Busy /\ Head(Ofm) = EntryOf(Taken) /\ Taken \in 0 .. (job.m - 1)
           /\ Busy => Taken \in Nat /\ Taken + Len(Ofm) <= Fed
                      /\ Taken + Len(Ofm) = IF Pushed THEN drain.pushRow + 1 ELSE drain.pushRow
  <1>0. /\ job.m \in 1 .. MaxM /\ MaxM \in Nat /\ drain.pushRow \in 0 .. MaxM
        /\ Len(ofm) \in Nat /\ Len(Ofm) \in Nat /\ Ofm \in Seq(Entry)
    BY OfmFacts, JobFacts DEF SeqInv, RowsInv, OfmInv
  <1>1. /\ ~Busy => Ofm = <<>>
        /\ Pushed => drain.pushRow < Fed
        /\ Len(Ofm) = IF Pushed THEN Len(ofm) + 1 ELSE Len(ofm)
        /\ \A i \in 1 .. Len(Ofm) : Ofm[i] = EntryOf(Taken + (i - 1))
    BY OfmFacts
  <1>2. Busy => drain.pushRow <= Fed /\ 0 <= Taken /\ Fed \in 0 .. job.m
    <2>1. Busy => Fed \in 0 .. job.m
      BY <1>0 DEF Busy, Fed, InputInv
    <2> QED  BY <2>1 DEF PipeInv, OfmInv
  <1>3. Taken = drain.pushRow - Len(ofm) /\ Taken \in Int
    BY <1>0 DEF Taken
  <1>4. ASSUME Busy
        PROVE  /\ Taken \in Nat /\ Taken + Len(Ofm) <= Fed
               /\ Taken + Len(Ofm) = IF Pushed THEN drain.pushRow + 1 ELSE drain.pushRow
    <2>1. CASE Pushed
      BY <2>1, <1>0, <1>1, <1>2, <1>3, <1>4
    <2>2. CASE ~Pushed
      BY <2>2, <1>0, <1>1, <1>2, <1>3, <1>4
    <2> QED  BY <2>1, <2>2
  <1>5. ASSUME Ofm # <<>>
        PROVE  Busy /\ Head(Ofm) = EntryOf(Taken) /\ Taken \in 0 .. (job.m - 1)
    <2>1. Busy /\ Len(Ofm) >= 1 /\ Head(Ofm) = Ofm[1] /\ 1 \in 1 .. Len(Ofm)
      BY <1>5, <1>0, <1>1
    <2>2. Taken + (1 - 1) = Taken
      BY <1>3
    <2>3. Head(Ofm) = EntryOf(Taken)
      BY <2>1, <2>2, <1>1
    <2> QED  BY <2>1, <2>3, <1>0, <1>2, <1>4
  <1> QED  BY <1>4, <1>5

\* With nothing in the FIFO and in the requant pipeline the drain writes nothing.
LEMMA QuietService ==
    ASSUME Ofm = <<>>, \A i \in 1 .. RequantStages : rq[i] = None, NEW granted \in BOOLEAN,
           MoveData(granted)
    PROVE  /\ ~ToBuffer /\ ~WritesRow /\ ~Writes /\ ~Pops(granted)
           /\ ofm' = <<>> /\ rq' = [i \in 1 .. RequantStages |-> None]
           /\ \A i \in 1 .. RequantStages : rq'[i] = None
           /\ buf' = buf /\ mem' = mem /\ psum' = PsumFifo
  <1>1. QuantizedOut = None /\ RequantStages \in Nat \ {0}
    BY SystolicAssumption DEF QuantizedOut
  <1>2. ~HeadReady
    BY DEF HeadReady
  <1>3. ~ToBuffer /\ ~WritesRow /\ ~Writes /\ ~Pops(granted) /\ \A g : ~ToRequant(g)
    BY <1>1, <1>2 DEF ToBuffer, WritesRow, Writes, Pops, ToRequant
  <1>4. ofm' = <<>> /\ buf' = buf /\ mem' = mem /\ psum' = PsumFifo
    BY <1>3 DEF MoveData, Popped
  <1> DEFINE out == QuantizedOut # None /\ granted
             tk == [i \in 1 .. RequantStages |-> out \/ \E k \in i .. RequantStages : rq[k] = None]
             en == IF ToRequant(out) THEN Sum \cup {Quantized} ELSE None
  <1>5. rq' = [i \in 1 .. RequantStages |->
                 IF ~tk[i] THEN rq[i] ELSE IF i = 1 THEN en ELSE rq[i - 1]]
    BY DEF MoveData
  <1>6. en = None
    BY <1>3
  <1> HIDE DEF tk, en
  <1>7. \A i \in 1 .. RequantStages : rq'[i] = None
    <2>1. ASSUME NEW i \in 1 .. RequantStages PROVE rq'[i] = None
      <3>1. i # 1 => i - 1 \in 1 .. RequantStages
        BY <1>1
      <3> QED  BY <3>1, <1>5, <1>6
    <2> QED  BY <2>1
  <1> QED  BY <1>3, <1>4, <1>5, <1>7

\* While the PSUM buffer adds up, the result that comes goes to it at once.
LEMMA BufferService ==
    ASSUME OneTile, SeqInv, PipeInv, OfmInv, RowsInv, RqInv, InputInv, Busy, PsumBuf, HasNext,
           NEW granted \in BOOLEAN, MoveData(granted)
    PROVE  /\ ToBuffer <=> Pushed
           /\ ~WritesRow /\ ~Writes /\ ~ReadsPsum /\ (Pops(granted) <=> Pushed)
           /\ ofm' = <<>> /\ rq' = [i \in 1 .. RequantStages |-> None]
           /\ Pushed => Taken = drain.pushRow /\ Head(Ofm) = EntryOf(drain.pushRow)
                        /\ drain.pushRow \in 0 .. (job.m - 1)
           /\ buf' = IF Pushed THEN [buf EXCEPT ![drain.pushRow] = Sum] ELSE buf
           /\ mem' = mem /\ psum' = PsumFifo
  <1>0. /\ ofm = <<>> /\ \A i \in 1 .. RequantStages : rq[i] = None
        /\ RequantStages \in Nat \ {0} /\ drain.pushRow \in 0 .. MaxM /\ MaxM \in Nat
    BY SystolicAssumption DEF OfmInv, RqInv, RequantActive, RowsInv
  <1>1. /\ Ofm \in Seq(Entry) /\ Len(Ofm) = IF Pushed THEN 1 ELSE 0
        /\ Taken = drain.pushRow
    BY <1>0, OfmFacts DEF Taken
  <1>2. ~NeedsExternal
    BY JobFacts DEF OneTile, SeqInv, NeedsExternal, PsumBuf, Buffered
  <1>3. QuantizedOut = None
    BY <1>0 DEF QuantizedOut
  <1>4. CASE ~Pushed
    <2>1. Ofm = <<>>
      BY <1>1, <1>4
    <2>2. ~ReadsPsum
      BY <1>2 DEF ReadsPsum
    <2> QED  BY <2>1, <2>2, <1>0, <1>4, QuietService
  <1>5. CASE Pushed
    <2>1. Ofm # <<>> /\ Len(Ofm) = 1
      BY <1>1, <1>5
    <2>2. Head(Ofm) = EntryOf(drain.pushRow) /\ drain.pushRow \in 0 .. (job.m - 1)
      BY <2>1, <1>1, HeadFacts
    <2>3. ~UsesPsum /\ ~GoesOut
      <3>1. Head(Ofm).ext = FALSE /\ Head(Ofm).final = (~HasNext)
        BY <2>2 DEF EntryOf
      <3> QED  BY <3>1 DEF UsesPsum, GoesOut
    <2>4. HeadReady /\ ToBuffer /\ ~WritesRow /\ (\A g : ~ToRequant(g)) /\ Pops(granted) /\ ~Writes
      BY <2>1, <2>3, <1>3 DEF HeadReady, ToBuffer, WritesRow, ToRequant, Pops, Writes
    <2>5. ofm' = <<>>
      <3>1. ofm' = Tail(Ofm)
        BY <2>4 DEF MoveData, Popped
      <3> QED  BY <3>1, <2>1, <1>1
    <2>6. /\ buf' = [buf EXCEPT ![drain.pushRow] = Sum] /\ mem' = mem /\ psum' = PsumFifo
      <3>1. Head(Ofm).row = drain.pushRow
        BY <2>2 DEF EntryOf
      <3> QED  BY <3>1, <2>3, <2>4 DEF MoveData, Popped
    <2> DEFINE out == QuantizedOut # None /\ granted
               tk == [i \in 1 .. RequantStages |-> out \/ \E k \in i .. RequantStages : rq[k] = None]
               en == IF ToRequant(out) THEN Sum \cup {Quantized} ELSE None
    <2>7. rq' = [i \in 1 .. RequantStages |->
                   IF ~tk[i] THEN rq[i] ELSE IF i = 1 THEN en ELSE rq[i - 1]]
      BY DEF MoveData
    <2>8. en = None
      BY <2>4
    <2> HIDE DEF tk, en
    <2>9. rq' = [i \in 1 .. RequantStages |-> None]
      <3>1. ASSUME NEW i \in 1 .. RequantStages PROVE rq'[i] = None
        <4>1. i # 1 => i - 1 \in 1 .. RequantStages
          BY <1>0
        <4> QED  BY <4>1, <2>7, <2>8, <1>0
      <3> QED  BY <3>1, <2>7
    <2> QED  BY <2>2, <2>4, <2>5, <2>6, <2>9, <1>1, <1>2, <1>5 DEF ReadsPsum
  <1> QED  BY <1>4, <1>5
----
(* Partial sums and sums. *)

\* The PSUM FIFO with the row that arrives: the rows that follow those taken.
LEMMA PsumFifoFacts ==
    ASSUME SeqInv, RowsInv, PsumInv
    PROVE  /\ PsumFifo \in Seq(Sums) /\ Len(PsumFifo) <= OfmDepth
           /\ Len(PsumFifo) = Len(psum) + One(drain.read)
           /\ state \in Running /\ ~ReadsSums => PsumFifo = <<>>
           /\ Clean /\ ReadsSums /\ state \in Running =>
                \A i \in 1 .. Len(PsumFifo) :
                    SumsBase + (i - 1) < job.m => PsumFifo[i] = SumsOf(SumsBase + (i - 1))
  <1> DEFINE f == psum
             x == drain.read
             base == SumsBase
             held1 == Clean /\ ReadsSums /\ state \in Running
  <1>1. /\ f \in Seq(Sums) /\ (x # None => x \in Sums) /\ OfmDepth \in Nat \ {0} /\ Len(f) <= OfmDepth
        /\ x # None => Len(f) < OfmDepth
    BY SystolicAssumption DEF PsumInv, RowsInv
  <1>2. state \in Running /\ ~ReadsSums => f = <<>> /\ x = None
    BY DEF PsumInv
  <1>3. held1 => /\ drain.aRow = base + Len(f) + One(x)
                 /\ \A i \in 1 .. Len(f) : base + (i - 1) < job.m => f[i] = SumsOf(base + (i - 1))
                 /\ x # None /\ drain.aRow - 1 < job.m => x = SumsOf(drain.aRow - 1)
    BY DEF PsumInv, SumsAhead
  <1>4. base \in Int
    BY DEF Taken, RowsInv, OfmInv, SumsBase
  <1>5. PsumFifo = Push(f, x, OfmDepth)
    BY DEF PsumFifo
  <1> HIDE DEF f, x, base, held1
  <1>6. /\ Push(f, x, OfmDepth) \in Seq(Sums)
        /\ x = None \/ Len(f) >= OfmDepth => Push(f, x, OfmDepth) = f
        /\ x # None /\ Len(f) < OfmDepth =>
             /\ Len(Push(f, x, OfmDepth)) = Len(f) + 1
             /\ Push(f, x, OfmDepth)[Len(f) + 1] = x
             /\ \A i \in 1 .. Len(f) : Push(f, x, OfmDepth)[i] = f[i]
    BY <1>1 DEF Push
  <1>7. CASE x = None
    BY <1>1, <1>2, <1>3, <1>5, <1>6, <1>7 DEF One, f, x, base, held1
  <1>8. CASE x # None
    <2>1. /\ Len(PsumFifo) = Len(f) + 1 /\ Len(f) \in Nat /\ PsumFifo \in Seq(Sums)
          /\ PsumFifo[Len(f) + 1] = x /\ \A i \in 1 .. Len(f) : PsumFifo[i] = f[i]
      BY <1>1, <1>5, <1>6, <1>8
    <2>2. ASSUME held1, NEW i \in 1 .. Len(PsumFifo), base + (i - 1) < job.m
          PROVE  PsumFifo[i] = SumsOf(base + (i - 1))
      <3>1. CASE i = Len(f) + 1
        <4>1. i - 1 = Len(f) /\ PsumFifo[i] = x /\ drain.aRow = base + Len(f) + 1
          BY <3>1, <2>1, <2>2, <1>3, <1>8 DEF One
        <4>2. drain.aRow - 1 = base + (i - 1)
          BY <4>1, <2>1, <1>4
        <4> QED  BY <4>1, <4>2, <2>2, <1>3, <1>8
      <3>2. CASE i # Len(f) + 1
        <4>1. i \in 1 .. Len(f)
          BY <3>2, <2>1
        <4> QED  BY <4>1, <2>1, <2>2, <1>3
      <3> QED  BY <3>1, <3>2
    <2>3. state \in Running /\ ~ReadsSums => PsumFifo = <<>>
      BY <1>2, <1>8
    <2>4. Len(PsumFifo) <= OfmDepth /\ Len(PsumFifo) = Len(f) + One(x)
      BY <2>1, <1>1, <1>8 DEF One
    <2> QED  BY <2>1, <2>2, <2>3, <2>4 DEF f, x, base, held1
  <1> QED  BY <1>7, <1>8

LEMMA PlusFacts ==
    ASSUME NEW a \in Sums, NEW b \in Sums
    PROVE  Plus(a, b) \in Sums /\ (a \cap b = {} => Plus(a, b) = a \cup b)
  BY DEF Plus, Sums

\* The sum of the head of the FIFO: the tiles so far, and the partial sums.
SumAt(r) == IF job.accum THEN {<<tile, r>>, <<Psum, r>>} ELSE UpTo(r, tile + 1)

LEMMA UpToFacts ==
    ASSUME job \in Jobs, tile \in 0 .. (job.tiles - 1), NEW r \in 0 .. (job.m - 1)
    PROVE  /\ UpTo(r, tile) \in Sums /\ UpTo(r, tile + 1) \in Sums /\ SumsOf(r) \in Sums
           /\ SumAt(r) \in Sums
           /\ UpTo(r, tile + 1) = {<<tile, r>>} \cup UpTo(r, tile)
           /\ <<tile, r>> \notin UpTo(r, tile) /\ <<tile, r>> # <<Psum, r>>
           /\ tile = 0 => UpTo(r, tile) = {}
  <1>1. /\ tile \in Nat /\ tile \in Tiles /\ r \in OutRows /\ \A k \in 0 .. tile : k \in Tiles
        /\ tile # Psum
    BY JobFacts, ValuesAssumption DEF OutRows
  <1>2. UpTo(r, tile) \in Sums /\ UpTo(r, tile + 1) \in Sums
    BY <1>1 DEF UpTo, Sums
  <1>3. UpTo(r, tile + 1) = {<<tile, r>>} \cup UpTo(r, tile)
    <2>1. 0 .. ((tile + 1) - 1) = (0 .. (tile - 1)) \cup {tile}
      BY <1>1
    <2> QED  BY <2>1 DEF UpTo
  <1>4. <<tile, r>> \notin UpTo(r, tile) /\ <<tile, r>> # <<Psum, r>>
    <2>1. tile \notin 0 .. (tile - 1)
      BY <1>1
    <2> QED  BY <2>1, <1>1 DEF UpTo
  <1>5. tile = 0 => UpTo(r, tile) = {}
    BY DEF UpTo
  <1>6. SumsOf(r) \in Sums /\ SumAt(r) \in Sums
    BY <1>1, <1>2 DEF SumsOf, SumAt, Sums
  <1> QED  BY <1>2, <1>3, <1>4, <1>5, <1>6
\* What is added to the head of the FIFO are the partial sums of its row.
LEMMA SumValue ==
    ASSUME OneTile, SeqInv, PipeInv, OfmInv, RowsInv, InputInv, PsumInv, MemInv, HeadReady
    PROVE  /\ UsesPsum <=> ReadsSums
           /\ Sum \in Sums
           /\ Clean => Sum = SumAt(Taken)
  <1>0. /\ Busy /\ state \in Running /\ Taken \in 0 .. (job.m - 1) /\ Head(Ofm) = EntryOf(Taken)
        /\ tile \in 0 .. (job.tiles - 1) /\ job \in Jobs /\ job.tiles \in Nat /\ job.accum \in BOOLEAN
        /\ job.m \in 1 .. MaxM /\ MaxM \in Nat /\ (job.accum => tile = 0 /\ ~PsumBuf)
    BY HeadFacts, JobFacts DEF HeadReady, Busy, Running, SeqInv, OneTile, PsumBuf, Buffered
  <1> DEFINE e == Head(Ofm)
  <1>1. /\ e.val = {<<tile, Taken>>} /\ e.row = Taken /\ e.tile = tile /\ e.ext = FALSE
        /\ e.val \in Sums
    <2>1. e.val = {<<tile, Taken>>} /\ e.row = Taken /\ e.tile = tile /\ e.ext = FALSE
      BY <1>0 DEF EntryOf
    <2> QED  BY <2>1, <1>0, SumFacts
  <1> HIDE DEF e
  <1>2. UsesPsum <=> ReadsSums
    BY <1>0, <1>1 DEF UsesPsum, ReadsSums, e
  <1>3. CASE UsesPsum
    <2>1. PsumFifo # <<>> /\ PsumFifo \in Seq(Sums)
      BY <1>3, PsumFifoFacts DEF HeadReady
    <2> DEFINE h == Head(PsumFifo)
    <2>2. h \in Sums /\ h = PsumFifo[1] /\ 1 \in 1 .. Len(PsumFifo)
      BY <2>1
    <2>3. Clean => h = SumsOf(Taken)
      <3>1. Clean => (Taken + (1 - 1) < job.m => PsumFifo[1] = SumsOf(Taken + (1 - 1)))
        BY <2>2, <1>0, <1>2, <1>3, PsumFifoFacts DEF SumsBase
      <3>2. Taken + (1 - 1) = Taken /\ Taken < job.m
        BY <1>0
      <3> QED  BY <3>1, <3>2, <2>2
    <2> HIDE DEF h
    <2>4. Sum = Plus(e.val, h)
      BY <1>3 DEF Sum, e, h
    <2>5. Sum \in Sums /\ (e.val \cap h = {} => Sum = e.val \cup h)
      BY <2>2, <2>4, <1>1, PlusFacts
    <2>6. ASSUME Clean PROVE Sum = SumAt(Taken)
      <3>1. /\ UpTo(Taken, tile + 1) = {<<tile, Taken>>} \cup UpTo(Taken, tile)
            /\ <<tile, Taken>> \notin UpTo(Taken, tile) /\ <<tile, Taken>> # <<Psum, Taken>>
        BY <1>0, UpToFacts
      <3>2. h = IF job.accum THEN {<<Psum, Taken>>} ELSE UpTo(Taken, tile)
        BY <2>3, <2>6 DEF SumsOf
      <3>3. e.val \cap h = {}
        BY <3>1, <3>2, <1>1
      <3> QED  BY <3>1, <3>2, <3>3, <2>5, <1>1 DEF SumAt
    <2> QED  BY <2>5, <2>6, <1>2
  <1>4. CASE ~UsesPsum /\ PsumBuf /\ tile # 0
    <2>1. ~job.accum
      BY <1>0, <1>4
    <2>2. buf[Taken] = UpTo(Taken, tile)
      <3>1. HasNext => Taken = drain.pushRow
        BY <1>0, <1>4 DEF OfmInv, Taken, RowsInv
      <3>2. drain.pushRow \in Int
        BY DEF RowsInv
      <3> QED  BY <3>1, <3>2, <1>0, <1>4 DEF MemInv
    <2>3. Sum = Plus(e.val, UpTo(Taken, tile))
      BY <2>1, <2>2, <1>1, <1>4 DEF Sum, e
    <2>4. /\ UpTo(Taken, tile + 1) = {<<tile, Taken>>} \cup UpTo(Taken, tile)
          /\ <<tile, Taken>> \notin UpTo(Taken, tile) /\ UpTo(Taken, tile) \in Sums
      BY <1>0, UpToFacts
    <2>5. Sum \in Sums /\ Sum = {<<tile, Taken>>} \cup UpTo(Taken, tile)
      <3>1. e.val \cap UpTo(Taken, tile) = {}
        BY <2>4, <1>1
      <3> QED  BY <3>1, <2>3, <2>4, <1>1, PlusFacts
    <2> QED  BY <2>1, <2>4, <2>5, <1>2 DEF SumAt
  <1>5. CASE ~UsesPsum /\ ~(PsumBuf /\ tile # 0)
    <2>1. tile = 0 /\ ~job.accum
      <3>1. ~PsumBuf => ~AccumActive
        BY <1>5, <1>2 DEF ReadsSums
      <3> QED  BY <3>1, <1>0, <1>5 DEF AccumActive
    <2>2. Sum = e.val
      BY <2>1, <1>1, <1>5 DEF Sum, e
    <2>3. UpTo(Taken, tile + 1) = {<<tile, Taken>>} \cup UpTo(Taken, tile) /\ UpTo(Taken, tile) = {}
      BY <2>1, <1>0, UpToFacts
    <2> QED  BY <2>1, <2>2, <2>3, <1>1, <1>2 DEF SumAt
  <1> QED  BY <1>3, <1>4, <1>5

\* On the last tile the sum is the row of the result.
LEMMA ProductFacts ==
    ASSUME OneTile, SeqInv, ~HasNext, NEW r \in 0 .. (job.m - 1)
    PROVE  /\ SumAt(r) \cup {Quantized} \in Sums /\ SumAt(r) \in Sums
           /\ Matrix!Product(job, r) = IF job.requant THEN SumAt(r) \cup {Quantized} ELSE SumAt(r)
  <1>0. /\ job.tiles \in Nat /\ tile \in 0 .. (job.tiles - 1) /\ tile = job.tiles - 1 /\ job \in Jobs
        /\ job.accum => tile = 0
    BY JobFacts DEF SeqInv, HasNext, OneTile
  <1>1. SumAt(r) \in Sums
    BY <1>0, UpToFacts
  <1>2. Matrix!Product(job, r) =
            {<<t, r>> : t \in 0 .. (job.tiles - 1)}
                \cup (IF job.accum THEN {<<Psum, r>>} ELSE {})
                \cup (IF job.requant THEN {Quantized} ELSE {})
    BY DEF Matrix!Product
  <1>3. {<<t, r>> : t \in 0 .. (job.tiles - 1)} = UpTo(r, tile + 1)
    <2>1. job.tiles - 1 = (tile + 1) - 1
      BY <1>0
    <2> QED  BY <2>1 DEF UpTo
  <1>4. job.accum => UpTo(r, tile + 1) = {<<tile, r>>}
    BY <1>0, UpToFacts
  <1>5. {<<t, r>> : t \in 0 .. (job.tiles - 1)} \cup (IF job.accum THEN {<<Psum, r>>} ELSE {}) = SumAt(r)
    BY <1>3, <1>4 DEF SumAt
  <1>6. SumAt(r) \cup {Quantized} \in Sums
    BY <1>1 DEF Sums
  <1> QED  BY <1>1, <1>2, <1>5, <1>6
----
(* The service of a cycle that brings rows out. *)

\* What the drain writes is the first row not written, which is whole on the last tile.
LEMMA OutFacts ==
    ASSUME OneTile, SeqInv, PipeInv, OfmInv, RowsInv, RqInv, InputInv, PsumInv, MemInv, Busy,
           ~(PsumBuf /\ HasNext)
    PROVE  /\ ~ToBuffer /\ (HeadReady => GoesOut)
           /\ ~RequantActive => QuantizedOut = None /\ drain.oRow = Taken /\ \A g : ~ToRequant(g)
           /\ RequantActive => ~WritesRow /\ ~HasNext /\ job.requant
           /\ QuantizedOut # None =>
                /\ RequantActive /\ drain.oRow < Taken /\ drain.oRow \in 0 .. (job.m - 1)
                /\ QuantizedOut \in Sums /\ (Clean => QuantizedOut = Matrix!Product(job, drain.oRow))
           /\ WritesRow => /\ HeadReady /\ ~RequantActive /\ drain.oRow = Taken
                           /\ drain.oRow \in 0 .. (job.m - 1)
           /\ drain.oRow <= Taken /\ drain.oRow \in Nat /\ Taken \in 0 .. job.m
  <1>0. /\ job.m \in 1 .. MaxM /\ MaxM \in Nat /\ RequantStages \in Nat \ {0}
        /\ drain.oRow \in 0 .. MaxM /\ drain.oRow <= Taken
        /\ rq \in [1 .. RequantStages -> Sums \cup {None}]
    BY SystolicAssumption, JobFacts DEF SeqInv, RowsInv, RqInv
  <1>1. Taken \in 0 .. job.m
    <2>1. Taken \in Nat /\ Taken + Len(Ofm) <= Fed
      BY HeadFacts
    <2>2. Len(Ofm) \in Nat
      BY OfmFacts
    <2>3. Fed \in 0 .. job.m
      BY <1>0 DEF Busy, Fed, InputInv
    <2> QED  BY <2>1, <2>2, <2>3, <1>0
  <1>2. HeadReady => GoesOut /\ Taken \in 0 .. (job.m - 1)
    <2>1. ASSUME HeadReady, PsumBuf PROVE Head(Ofm).final
      <3>1. Head(Ofm).final = (~HasNext)
        BY <2>1, HeadFacts DEF HeadReady, EntryOf
      <3> QED  BY <2>1, <3>1
    <2> QED  BY <2>1, HeadFacts DEF HeadReady, GoesOut
  <1>3. ~ToBuffer
    BY <1>2 DEF ToBuffer
  <1>4. PICK f \in [1 .. RequantStages -> Int] : RqRows(f)
    BY DEF RqInv
  <1>5. /\ Lines(f, RequantStages, drain.oRow, Taken)
        /\ \A i \in 1 .. RequantStages : f[i] = -1 <=> rq[i] = None
        /\ Clean => \A i \in 1 .. RequantStages : f[i] # -1 => rq[i] = Matrix!Product(job, f[i])
    BY <1>4 DEF RqRows
  <1>6. ASSUME ~RequantActive
        PROVE  QuantizedOut = None /\ drain.oRow = Taken /\ \A g : ~ToRequant(g)
    <2>1. \A i \in 1 .. RequantStages : rq[i] = None
      BY <1>6 DEF RqInv
    <2>2. drain.oRow = Taken
      <3>1. \A i \in 1 .. RequantStages : f[i] = -1
        BY <2>1, <1>5
      <3>2. \A r \in drain.oRow .. (Taken - 1) : \E i \in 1 .. RequantStages : f[i] = r
        BY <1>5 DEF Lines
      <3> QED  BY <3>1, <3>2, <1>0, <1>1
    <2> QED  BY <2>1, <2>2, <1>0, <1>6 DEF QuantizedOut, ToRequant
  <1>7. ASSUME QuantizedOut # None
        PROVE  /\ drain.oRow < Taken /\ drain.oRow \in 0 .. (job.m - 1)
               /\ QuantizedOut \in Sums /\ (Clean => QuantizedOut = Matrix!Product(job, drain.oRow))
    <2>1. RequantStages \in 1 .. RequantStages /\ f[RequantStages] # -1 /\ QuantizedOut \in Sums
      BY <1>0, <1>5, <1>7 DEF QuantizedOut
    <2>2. f[RequantStages] = drain.oRow /\ drain.oRow < Taken
      <3>1. drain.oRow \in Nat /\ Taken \in Nat
        BY <1>0, <1>1
      <3> QED  BY <3>1, <2>1, <1>0, <1>5, LinesEnds
    <2>3. Clean => QuantizedOut = Matrix!Product(job, drain.oRow)
      BY <2>1, <2>2, <1>5 DEF QuantizedOut
    <2> QED  BY <2>1, <2>2, <2>3, <1>0, <1>1
  <1>8. RequantActive => ~WritesRow /\ ~HasNext /\ job.requant
    BY DEF RequantActive, WritesRow
  <1>9. WritesRow => HeadReady /\ ~RequantActive
    BY DEF WritesRow
  <1>10. QuantizedOut # None => RequantActive
    BY <1>6
  <1> QED  BY <1>0, <1>1, <1>2, <1>3, <1>6, <1>7, <1>8, <1>9, <1>10

\* Rows move along the requant pipeline whole and in order.
LEMMA RqMoves ==
    ASSUME OneTile, SeqInv, PipeInv, OfmInv, RowsInv, RqInv, InputInv, PsumInv, MemInv, Busy,
           ~(PsumBuf /\ HasNext), NEW granted \in BOOLEAN, MoveData(granted),
           NEW taken, taken = IF Pops(granted) THEN Taken + 1 ELSE Taken,
           NEW row, row = IF Writes /\ granted THEN drain.oRow + 1 ELSE drain.oRow
    PROVE  /\ row <= taken
           /\ rq' \in [1 .. RequantStages -> Sums \cup {None}]
           /\ ~RequantActive => \A i \in 1 .. RequantStages : rq'[i] = None
           /\ \E g \in [1 .. RequantStages -> Int] :
                /\ Lines(g, RequantStages, row, taken)
                /\ \A i \in 1 .. RequantStages : g[i] = -1 <=> rq'[i] = None
                /\ Clean => \A i \in 1 .. RequantStages :
                              g[i] # -1 => rq'[i] = Matrix!Product(job, g[i])
  <1> DEFINE R == RequantStages
             out == QuantizedOut # None /\ granted
             tk == [i \in 1 .. R |-> out \/ \E k \in i .. R : rq[k] = None]
             en == IF ToRequant(out) THEN Sum \cup {Quantized} ELSE None
             z == {i \in 1 .. R : tk[i]}
  <1>0. /\ R \in Nat \ {0} /\ drain.oRow \in Nat /\ Taken \in Nat /\ drain.oRow <= Taken
        /\ rq \in [1 .. R -> Sums \cup {None}] /\ Taken \in Int
    BY SystolicAssumption, OutFacts DEF RqInv
  <1>1. /\ rq' = [i \in 1 .. R |-> IF ~tk[i] THEN rq[i] ELSE IF i = 1 THEN en ELSE rq[i - 1]]
        /\ \A i \in 1 .. R : tk[i] <=> out \/ \E k \in i .. R : rq[k] = None
    BY DEF MoveData
  <1>2. Pops(granted) <=> (WritesRow /\ granted) \/ ToRequant(out)
    BY OutFacts DEF Pops
  <1>3. Writes /\ granted <=> (WritesRow /\ granted) \/ out
    BY DEF Writes
  <1>4. ~ToRequant(out) => en = None
    OBVIOUS
  <1>5. ToRequant(out) => /\ en \in Sums /\ (Clean => en = Matrix!Product(job, Taken))
                          /\ RequantActive /\ (out \/ \E k \in 1 .. R : rq[k] = None)
    <2>1. ASSUME ToRequant(out) PROVE en \in Sums /\ (Clean => en = Matrix!Product(job, Taken))
      <3>1. HeadReady /\ RequantActive /\ en = Sum \cup {Quantized}
        BY <2>1 DEF ToRequant
      <3>2. job.requant /\ ~HasNext /\ Taken \in 0 .. (job.m - 1) /\ Sum \in Sums
            /\ (Clean => Sum = SumAt(Taken))
        BY <3>1, SumValue, HeadFacts DEF RequantActive, HeadReady
      <3>3. en \in Sums
        BY <3>1, <3>2 DEF Sums
      <3> QED  BY <3>1, <3>2, <3>3, ProductFacts
    <2>2. ToRequant(out) => RequantActive /\ (out \/ \E k \in 1 .. R : rq[k] = None)
      BY DEF ToRequant, RqReady
    <2> QED  BY <2>1, <2>2
  <1> HIDE DEF en, tk
  <1>6. CASE ~RequantActive
    <2>1. (\A i \in 1 .. R : rq[i] = None) /\ QuantizedOut = None /\ drain.oRow = Taken
          /\ ~ToRequant(out)
      BY <1>6, OutFacts DEF RqInv
    <2>2. \A i \in 1 .. R : rq'[i] = None
      <3>1. ASSUME NEW i \in 1 .. R PROVE rq'[i] = None
        <4>1. i # 1 => i - 1 \in 1 .. R
          BY <1>0
        <4> QED  BY <4>1, <2>1, <1>1, <1>4
      <3> QED  BY <3>1
    <2>3. row = taken /\ row \in Nat
      BY <2>1, <1>0, <1>2, <1>3
    <2> DEFINE g == [i \in 1 .. R |-> -1]
    <2>4. Lines(g, R, row, taken) /\ g \in [1 .. R -> Int]
      <3>1. \A i \in 1 .. R : g[i] = -1
        OBVIOUS
      <3> QED  BY <3>1, <2>3, <1>0, LinesNone
    <2>5. \A i \in 1 .. R : g[i] = -1
      OBVIOUS
    <2> HIDE DEF g
    <2>6. rq' \in [1 .. R -> Sums \cup {None}]
      BY <2>2, <1>1
    <2>7. row <= taken
      BY <2>3
    <2>8. /\ g \in [1 .. R -> Int] /\ Lines(g, R, row, taken)
          /\ \A i \in 1 .. R : g[i] = -1 <=> rq'[i] = None
          /\ Clean => \A i \in 1 .. R : g[i] # -1 => rq'[i] = Matrix!Product(job, g[i])
      BY <2>2, <2>4, <2>5
    <2> QED  BY <2>2, <2>6, <2>7, <2>8
  <1>7. CASE RequantActive
    <2>1. ~WritesRow
      BY <1>7, OutFacts
    <2>2. taken = (IF ToRequant(out) THEN Taken + 1 ELSE Taken)
          /\ row = (IF out THEN drain.oRow + 1 ELSE drain.oRow)
      BY <2>1, <1>2, <1>3
    <2>3. PICK f \in [1 .. R -> Int] : RqRows(f)
      BY DEF RqInv
    <2>4. /\ Lines(f, R, drain.oRow, Taken)
          /\ \A i \in 1 .. R : f[i] = -1 <=> rq[i] = None
          /\ Clean => \A i \in 1 .. R : f[i] # -1 => rq[i] = Matrix!Product(job, f[i])
      BY <2>3 DEF RqRows
    <2> DEFINE g == [i \in 1 .. R |-> IF i \notin z THEN f[i]
                                      ELSE IF i = 1 THEN (IF taken = Taken THEN -1 ELSE Taken)
                                      ELSE f[i - 1]]
    <2>5. \A i \in 1 .. R : i \in z <=> out \/ \E k \in i .. R : rq[k] = None
      BY <1>1
    <2>6. \A i \in 1 .. R : rq'[i] = IF i \notin z THEN rq[i] ELSE IF i = 1 THEN en ELSE rq[i - 1]
      BY <1>1
    <2>7. z \subseteq 1 .. R
      OBVIOUS
    <2>8. \A i \in 1 .. R : i # 1 => i - 1 \in 1 .. R
      BY <1>0
    <2>9. taken = Taken <=> ~ToRequant(out)
      BY <2>2, <1>0
    <2>10. \A i \in 1 .. R : g[i] = IF i \notin z THEN f[i]
                                    ELSE IF i = 1 THEN (IF taken = Taken THEN -1 ELSE Taken)
                                    ELSE f[i - 1]
      OBVIOUS
    <2>11. g \in [1 .. R -> Int]
      BY <2>8, <1>0
    <2>12. R \in z <=> out \/ rq[R] = None
      BY <2>5, <1>0
    <2>13. out => rq[R] # None
      BY DEF QuantizedOut
    <2> HIDE DEF z, g, out
    <2>14. Moves(f, R, drain.oRow, Taken, z, g, row, taken)
      <3>1. \A i, k \in 1 .. R : i < k /\ k \in z => i \in z
        <4> SUFFICES ASSUME NEW i \in 1 .. R, NEW k \in 1 .. R, i < k, k \in z PROVE i \in z
          OBVIOUS
        <4>1. CASE out
          BY <4>1, <2>5
        <4>2. CASE ~out
          <5>1. PICK m \in k .. R : rq[m] = None
            BY <4>2, <2>5
          <5>2. m \in i .. R
            BY <5>1, <1>0
          <5> QED  BY <5>1, <5>2, <2>5
        <4> QED  BY <4>1, <4>2
      <3>2. \A i \in z : i # R /\ i + 1 \notin z => f[i] = -1
        <4> SUFFICES ASSUME NEW i \in z, i # R, i + 1 \notin z PROVE f[i] = -1
          OBVIOUS
        <4>1. i \in 1 .. R /\ i + 1 \in 1 .. R
          BY <2>7, <1>0
        <4>2. ~out /\ \A k \in (i + 1) .. R : rq[k] # None
          BY <4>1, <2>5
        <4>3. PICK k \in i .. R : rq[k] = None
          BY <4>1, <4>2, <2>5
        <4>4. k = i
          BY <4>1, <4>2, <4>3, <1>0
        <4> QED  BY <4>1, <4>3, <4>4, <2>4
      <3>3. taken = Taken \/ (taken = Taken + 1 /\ 1 \in z)
        <4>1. 1 \in 1 .. R
          BY <1>0
        <4>2. ToRequant(out) => 1 \in z
          BY <4>1, <1>5, <2>5
        <4> QED  BY <4>2, <2>2
      <3>4. row = IF R \in z /\ f[R] # -1 THEN drain.oRow + 1 ELSE drain.oRow
        <4>1. R \in 1 .. R
          BY <1>0
        <4> QED  BY <4>1, <2>2, <2>4, <2>12, <2>13
      <3> QED  BY ONLY <2>7, <2>10, <3>1, <3>2, <3>3, <3>4 DEF Moves
    <2>15. Lines(g, R, row, taken) /\ (f[R] # -1 => f[R] = drain.oRow /\ drain.oRow < Taken)
      BY ONLY <2>4, <2>14, <1>0, LinesMove
    <2>16. row <= taken
      <3>1. out => drain.oRow < Taken
        BY <2>4, <2>13, <2>15, <1>0
      <3> QED  BY <3>1, <2>2, <1>0
    <2>17. rq' \in [1 .. R -> Sums \cup {None}]
      <3>1. en \in Sums \cup {None}
        BY <1>4, <1>5
      <3>2. \A i \in 1 .. R : rq'[i] \in Sums \cup {None}
        BY <3>1, <2>6, <2>8, <1>0
      <3> QED  BY <3>2, <1>1
    <2>18. ASSUME NEW i \in 1 .. R
           PROVE  /\ g[i] = -1 <=> rq'[i] = None
                  /\ Clean /\ g[i] # -1 => rq'[i] = Matrix!Product(job, g[i])
      <3>1. CASE i \notin z
        BY <3>1, <2>4, <2>6, <2>10
      <3>2. CASE i \in z /\ i # 1
        <4>1. i - 1 \in 1 .. R /\ g[i] = f[i - 1] /\ rq'[i] = rq[i - 1]
          BY <3>2, <2>6, <2>8, <2>10
        <4> QED  BY <4>1, <2>4
      <3>3. CASE i \in z /\ i = 1
        <4>1. rq'[i] = en /\ g[i] = IF ToRequant(out) THEN Taken ELSE -1
          BY <3>3, <2>6, <2>9, <2>10
        <4>2. en \in Sums => en # None
          BY ValuesAssumption
        <4> QED  BY <4>1, <4>2, <1>0, <1>4, <1>5
      <3> QED  BY <3>1, <3>2, <3>3
    <2> QED  BY <2>11, <2>15, <2>16, <2>17, <2>18, <1>7
  <1> QED  BY <1>6, <1>7
\* What is written, and where.
OutValue == IF QuantizedOut # None THEN QuantizedOut ELSE Sum

LEMMA OutValueFacts ==
    ASSUME OneTile, SeqInv, PipeInv, OfmInv, RowsInv, RqInv, InputInv, PsumInv, MemInv, Busy,
           ~(PsumBuf /\ HasNext), Writes
    PROVE  /\ drain.oRow \in 0 .. (job.m - 1) /\ drain.oRow \in OutRows /\ OutValue \in Sums
           /\ drain.region = IF HasNext THEN "psum" ELSE "ofm"
           /\ HasNext => ThroughMemory(job)
           /\ Clean => OutValue = IF HasNext THEN UpTo(drain.oRow, tile + 1)
                                  ELSE Matrix!Product(job, drain.oRow)
           /\ ReadsSums /\ Clean => drain.oRow < drain.aRow
  <1>0. /\ job.m \in 1 .. MaxM /\ MaxM \in Nat /\ job.tiles \in Nat /\ tile \in 0 .. (job.tiles - 1)
        /\ job \in Jobs /\ (job.accum => ~HasNext) /\ state \in Running
    BY JobFacts DEF SeqInv, OneTile, HasNext, Busy, Running
  <1>1. drain.oRow \in 0 .. (job.m - 1) /\ drain.oRow \in OutRows
    BY <1>0, OutFacts DEF Writes, OutRows
  <1>2. HasNext => ThroughMemory(job)
    BY <1>0 DEF HasNext, ThroughMemory, PsumBuf, Buffered
  <1>3. drain.region = IF HasNext THEN "psum" ELSE "ofm"
    BY <1>0, <1>2 DEF RowsInv
  <1>4. ReadsSums /\ Clean => drain.aRow = Taken + Len(psum) + One(drain.read)
    BY <1>0 DEF PsumInv, SumsAhead, SumsBase
  <1>5. Len(psum) \in Nat /\ One(drain.read) \in {0, 1}
    BY DEF PsumInv, One
  <1>6. CASE QuantizedOut # None
    <2>1. /\ RequantActive /\ drain.oRow < Taken /\ drain.oRow \in Nat /\ Taken \in 0 .. job.m
          /\ QuantizedOut \in Sums /\ (Clean => QuantizedOut = Matrix!Product(job, drain.oRow))
      BY <1>6, OutFacts
    <2>2. ReadsSums /\ Clean => drain.oRow < drain.aRow
      BY <2>1, <1>0, <1>4, <1>5
    <2> QED  BY <2>1, <2>2, <1>1, <1>2, <1>3, <1>6 DEF OutValue, RequantActive
  <1>7. CASE QuantizedOut = None
    <2>1. /\ HeadReady /\ ~RequantActive /\ drain.oRow = Taken /\ drain.oRow \in 0 .. (job.m - 1)
          /\ OutValue = Sum
      BY <1>7, OutFacts DEF Writes, OutValue
    <2>2. (UsesPsum <=> ReadsSums) /\ Sum \in Sums /\ (Clean => Sum = SumAt(Taken))
      BY <2>1, SumValue
    <2>3. ReadsSums /\ Clean => drain.oRow < drain.aRow
      <3>1. ReadsSums => PsumFifo # <<>> /\ PsumFifo \in Seq(Sums)
        BY <2>1, <2>2, PsumFifoFacts DEF HeadReady
      <3>2. Len(PsumFifo) = Len(psum) + One(drain.read)
        BY PsumFifoFacts
      <3>3. ReadsSums => Len(psum) + One(drain.read) >= 1
        BY <3>1, <3>2, <1>5
      <3> QED  BY <3>3, <2>1, <1>0, <1>4, <1>5
    <2>4. HasNext => SumAt(Taken) = UpTo(drain.oRow, tile + 1)
      BY <2>1, <1>0 DEF SumAt
    <2>5. ~HasNext => SumAt(Taken) = Matrix!Product(job, drain.oRow)
      BY <2>1, ProductFacts DEF RequantActive
    <2> QED  BY <2>1, <2>2, <2>3, <2>4, <2>5, <1>1, <1>2, <1>3
  <1> QED  BY <1>6, <1>7

\* The FIFOs and the memories after the service.
LEMMA OutService ==
    ASSUME OneTile, SeqInv, PipeInv, OfmInv, RowsInv, RqInv, InputInv, PsumInv, MemInv, Busy,
           ~(PsumBuf /\ HasNext), NEW granted \in BOOLEAN, MoveData(granted)
    PROVE  /\ Pops(granted) => HeadReady /\ Ofm # <<>>
           /\ ofm' \in Seq(Entry) /\ Len(ofm') = Len(Ofm) - (IF Pops(granted) THEN 1 ELSE 0)
           /\ \A i \in 1 .. Len(ofm') :
                ofm'[i] = EntryOf((IF Pops(granted) THEN Taken + 1 ELSE Taken) + (i - 1))
           /\ psum' = Popped(PsumFifo, Pops(granted) /\ ReadsSums)
           /\ buf' = buf
           /\ mem' = IF Writes /\ granted
                     THEN [mem EXCEPT ![drain.region][drain.oRow] = OutValue] ELSE mem
  <1>0. ~ToBuffer
    BY OutFacts
  <1>1. Pops(granted) => HeadReady /\ Ofm # <<>>
    BY <1>0 DEF Pops, WritesRow, ToRequant, HeadReady
  <1>2. /\ ofm' = Popped(Ofm, Pops(granted)) /\ buf' = buf
        /\ mem' = IF Writes /\ granted
                  THEN [mem EXCEPT ![drain.region][drain.oRow] = OutValue] ELSE mem
    BY <1>0 DEF MoveData, OutValue
  <1>3. psum' = Popped(PsumFifo, Pops(granted) /\ ReadsSums)
    <2>1. psum' = Popped(PsumFifo, Pops(granted) /\ UsesPsum)
      BY DEF MoveData
    <2>2. Pops(granted) => (UsesPsum <=> ReadsSums)
      BY <1>1, SumValue
    <2> QED  BY <2>1, <2>2 DEF Popped
  <1>4. /\ Ofm \in Seq(Entry) /\ Len(Ofm) \in Nat /\ Taken \in Int
        /\ \A i \in 1 .. Len(Ofm) : Ofm[i] = EntryOf(Taken + (i - 1))
    BY OfmFacts, OutFacts
  <1>5. CASE Pops(granted)
    <2>1. ofm' = Tail(Ofm) /\ Ofm # <<>>
      BY <1>1, <1>2, <1>5 DEF Popped
    <2>2. ofm' \in Seq(Entry) /\ Len(ofm') = Len(Ofm) - 1
          /\ \A i \in 1 .. Len(ofm') : ofm'[i] = Ofm[i + 1]
      BY <2>1, <1>4
    <2>3. ASSUME NEW i \in 1 .. Len(ofm') PROVE ofm'[i] = EntryOf((Taken + 1) + (i - 1))
      <3>1. i + 1 \in 1 .. Len(Ofm)
        BY <2>2, <1>4
      <3>2. Taken + ((i + 1) - 1) = (Taken + 1) + (i - 1)
        BY <1>4
      <3>3. ofm'[i] = EntryOf(Taken + ((i + 1) - 1))
        BY <3>1, <2>2, <1>4
      <3> QED  BY <3>2, <3>3
    <2> QED  BY <2>2, <2>3, <1>1, <1>2, <1>3, <1>5
  <1>6. CASE ~Pops(granted)
    <2>1. ofm' = Ofm
      BY <1>2, <1>6 DEF Popped
    <2>2. Len(ofm') = Len(Ofm) - 0 /\ ofm' \in Seq(Entry)
      BY <2>1, <1>4
    <2>3. \A i \in 1 .. Len(ofm') : ofm'[i] = EntryOf(Taken + (i - 1))
      BY <2>1, <1>4
    <2> QED  BY <2>2, <2>3, <1>1, <1>2, <1>3, <1>6
  <1> QED  BY <1>5, <1>6
----
(* The edges on which no row comes out of the array and none leaves the drain. *)

Still == LoadGoesOn \/ TileBegins \/ TileOverlaps \/ TileAdvances \/ JobFinishes

\* The others: a vector may be fed, move on and be taken.
Going == /\ Busy /\ Busy' /\ state \in Running /\ state' \in Running
         /\ tile' = tile /\ ~FeedStarts /\ ~TileStart /\ ~Overlap /\ ~Advance

LEMMA StillOrGoing ==
    ASSUME SeqInv, NEW ready \in BOOLEAN, state \in Running, Sequencer(ready)
    PROVE  Still \/ Going
  <1>1. \/ LoadGoesOn \/ TileBegins \/ FeedGoesOn(ready) \/ FeedEnds(ready)
        \/ DrainGoesOn \/ TileOverlaps \/ TileAdvances \/ JobFinishes
    BY EdgeKinds
  <1>2. FeedGoesOn(ready) \/ FeedEnds(ready) \/ DrainGoesOn => Going
    BY DEF FeedGoesOn, FeedEnds, DrainGoesOn, Going, Busy, Running
  <1> QED  BY <1>1, <1>2 DEF Still

\* An array without vectors has given all the rows of the tile.
LEMMA AllPushed ==
    ASSUME SeqInv, PipeInv, InputInv, RowsInv, state = "WAIT_DRAIN", flush = 0
    PROVE  drain.pushRow = job.m /\ ~Pushed
  <1>0. Stages \in Nat \ {0} /\ job.m \in 1 .. MaxM /\ MaxM \in Nat /\ drain.pushRow \in 0 .. MaxM
    BY StagesFact, JobFacts DEF SeqInv, RowsInv
  <1>1. \A i \in 1 .. Stages : pipe[i] = None
    BY Flushed
  <1>2. Fed = job.m /\ drain.pushRow <= Fed /\ Lines(PipeRow, Stages, drain.pushRow, Fed)
    BY <1>0 DEF PipeInv, InputInv, Fed, Busy
  <1>3. \A i \in 1 .. Stages : PipeRow[i] = -1
    BY <1>1 DEF PipeRow
  <1>4. \A r \in drain.pushRow .. (Fed - 1) : \E i \in 1 .. Stages : PipeRow[i] = r
    BY <1>2 DEF Lines
  <1>5. drain.pushRow = job.m
    BY <1>0, <1>2, <1>3, <1>4
  <1>6. Result = None /\ Ofm = ofm
    BY <1>0, <1>1 DEF Result, Ofm, Push
  <1>7. ~Pushed
    <2>1. ~(Len(ofm) > Len(ofm))
      BY DEF Pushed
    <2> QED  BY <2>1, <1>6 DEF Pushed
  <1> QED  BY <1>5, <1>7

LEMMA StillFacts ==
    ASSUME OneTile, IInv, Still
    PROVE  /\ Ofm = <<>> /\ ofm = <<>> /\ ~Pushed /\ \A i \in 1 .. RequantStages : rq[i] = None
           /\ state = "WAIT_DRAIN" => drain.pushRow = job.m /\ Taken = job.m
  <1> USE DEF IInv
  <1>0. job.m \in 1 .. MaxM /\ MaxM \in Nat /\ drain.pushRow \in 0 .. MaxM
    BY JobFacts DEF SeqInv, RowsInv
  <1>1. CASE LoadGoesOn \/ TileBegins
    <2>1. ~Busy /\ state = "LOAD_WEIGHTS"
      BY <1>1 DEF LoadGoesOn, TileBegins, Busy
    <2> QED  BY <2>1, OfmFacts DEF OfmInv, RqInv
  <1>2. CASE JobFinishes
    <2>1. Finish
      BY <1>2 DEF JobFinishes
    <2>2. ofm = <<>> /\ drain.pushRow = job.m
      BY <2>1, DrainedFacts
    <2>3. Taken = job.m
      BY <2>2, <1>0 DEF Taken
    <2> QED  BY <2>1, <2>2, <2>3, DrainedFacts
  <1>3. CASE TileOverlaps \/ TileAdvances
    <2>1. state = "WAIT_DRAIN" /\ flush = 0 /\ HasNext /\ Busy
      BY <1>3 DEF TileOverlaps, TileAdvances, Busy
    <2>2. drain.pushRow = job.m /\ ~Pushed
      BY <2>1, AllPushed
    <2>3. Len(Ofm) = Len(ofm) /\ Len(ofm) \in Nat /\ ofm \in Seq(Entry) /\ Ofm \in Seq(Entry)
      BY <2>2, OfmFacts DEF OfmInv
    <2>4. ofm = <<>>
      <3>1. CASE TileOverlaps
        <4>1. PsumBuf
          BY <3>1 DEF TileOverlaps, Overlap
        <4> QED  BY <4>1, <2>1 DEF OfmInv
      <3>2. CASE TileAdvances
        <4>1. Ofm = <<>>
          BY <3>2 DEF TileAdvances, Advance, Ends, Drained
        <4> QED  BY <4>1, <2>3
      <3> QED  BY <3>1, <3>2, <1>3
    <2>5. \A i \in 1 .. RequantStages : rq[i] = None
      BY <2>1 DEF RqInv, RequantActive
    <2>6. Ofm = <<>>
      BY <2>3, <2>4
    <2>7. Taken = job.m
      BY <2>2, <2>4, <1>0 DEF Taken
    <2> QED  BY <2>2, <2>4, <2>5, <2>6, <2>7
  <1> QED  BY <1>1, <1>2, <1>3 DEF Still

\* The PSUM buffer never waits for the drain.
LEMMA AdvanceFacts ==
    ASSUME OneTile, IInv, TileAdvances
    PROVE  /\ ~PsumBuf /\ ThroughMemory(job) /\ drain.rows = 0 /\ drain.oRow = job.m /\ ~job.accum
           /\ ~Writes
  <1> USE DEF IInv
  <1>0. /\ job.m \in 1 .. MaxM /\ MaxM \in Nat /\ drain.oRow \in 0 .. MaxM /\ job.tiles \in Nat
        /\ tile \in 0 .. (job.tiles - 1) /\ job \in Jobs
    BY JobFacts DEF SeqInv, RowsInv
  <1>1. /\ state = "WAIT_DRAIN" /\ HasNext /\ flush = 0 /\ w.done /\ ~lb.filling /\ drain.rows = 0
        /\ ~Overlap /\ Busy
    BY DEF TileAdvances, Advance, Ends, Drained, Busy
  <1>2. ~PsumBuf
    BY <1>1 DEF Overlap
  <1>3. ThroughMemory(job) /\ ~job.accum
    BY <1>0, <1>1, <1>2 DEF HasNext, ThroughMemory, PsumBuf, OneTile
  <1>4. drain.oRow = job.m
    <2>1. drain.rows = job.m - drain.oRow
      BY <1>1, <1>2 DEF RowsInv
    <2> QED  BY <2>1, <1>0, <1>1
  <1>5. ~Writes
    <2>1. ~HeadReady /\ QuantizedOut = None
      <3>1. Ofm = <<>> /\ \A i \in 1 .. RequantStages : rq[i] = None
        BY StillFacts DEF Still
      <3>2. RequantStages \in 1 .. RequantStages
        BY SystolicAssumption
      <3> QED  BY <3>1, <3>2 DEF HeadReady, QuantizedOut
    <2> QED  BY <2>1 DEF Writes, WritesRow
  <1> QED  BY <1>1, <1>2, <1>3, <1>4, <1>5
\* On those edges the drain reads ahead at most.
LEMMA StillService ==
    ASSUME OneTile, IInv, Still, NEW granted \in BOOLEAN, MoveData(granted),
           NEW d, d = Served(granted)
    PROVE  /\ ~Writes /\ ~ToBuffer
           /\ ofm' = <<>> /\ rq' \in [1 .. RequantStages -> Sums \cup {None}]
           /\ \A i \in 1 .. RequantStages : rq'[i] = None
           /\ buf' = buf /\ mem' = mem /\ psum' = PsumFifo
           /\ d.rows = drain.rows /\ d.pushRow = drain.pushRow /\ d.oRow = drain.oRow
           /\ d.region = drain.region /\ d.sent \in BOOLEAN
           /\ d.aRow = IF ReadsPsum /\ granted THEN drain.aRow + 1 ELSE drain.aRow
           /\ d.prefetch = IF ReadsPsum /\ granted THEN drain.prefetch - 1 ELSE drain.prefetch
           /\ d.read = IF ReadsPsum /\ granted THEN PsumAt(drain.aRow) ELSE None
  <1>1. Ofm = <<>> /\ ~Pushed /\ \A i \in 1 .. RequantStages : rq[i] = None
    BY StillFacts
  <1>2. /\ ~ToBuffer /\ ~Writes /\ ofm' = <<>> /\ rq' = [i \in 1 .. RequantStages |-> None]
        /\ \A i \in 1 .. RequantStages : rq'[i] = None
        /\ buf' = buf /\ mem' = mem /\ psum' = PsumFifo
    BY <1>1, QuietService
  <1>3. RowsInv
    BY DEF IInv
  <1> QED  BY <1>1, <1>2, <1>3, ServedFields

\* What a read may return.
LEMMA ReadFacts ==
    ASSUME OneTile, IInv, ReadsPsum
    PROVE  /\ ReadsSums /\ drain.prefetch # 0 /\ drain.read = None /\ Len(psum) < OfmDepth /\ ~Writes
           /\ PsumFifo = psum /\ PsumAt(drain.aRow) \in Sums /\ PsumAt(drain.aRow) # None
  <1>1. ~NeedsExternal
    BY JobFacts DEF IInv, OneTile, SeqInv, NeedsExternal, PsumBuf, Buffered
  <1>2. /\ ReadsSums /\ drain.prefetch # 0 /\ drain.read = None /\ Len(psum) < OfmDepth /\ ~Writes
    BY <1>1 DEF ReadsPsum, ReadsSums
  <1>3. PsumFifo = psum
    BY <1>2 DEF PsumFifo, Push
  <1>4. PsumAt(drain.aRow) \in Sums
    <2>1. {Garbled} \in Sums
      BY DEF Sums
    <2>2. mem["psum"] \in [OutRows -> Sums \cup {None}]
      BY DEF IInv, MemInv
    <2>3. drain.aRow \in OutRows => mem["psum"][drain.aRow] \in Sums \cup {None}
      BY <2>2
    <2> QED  BY <2>1, <2>3 DEF PsumAt
  <1> QED  BY <1>2, <1>3, <1>4, ValuesAssumption

\* The fields of the drain after an edge on which rows may come out.
LEMMA GoingService ==
    ASSUME OneTile, IInv, UNCHANGED job, Going, NEW granted \in BOOLEAN, MoveData(granted),
           Drain(granted), ~(PsumBuf /\ HasNext)
    PROVE  LET out == Writes /\ granted
               got == ReadsPsum /\ granted
           IN  /\ Taken' = IF Pops(granted) THEN Taken + 1 ELSE Taken
               /\ Taken' <= drain'.pushRow /\ drain'.pushRow <= job.m
               /\ drain'.pushRow = IF Pushed THEN drain.pushRow + 1 ELSE drain.pushRow
               /\ drain'.rows = IF out THEN drain.rows - 1 ELSE drain.rows
               /\ drain'.oRow = IF out THEN drain.oRow + 1 ELSE drain.oRow
               /\ drain'.aRow = IF got THEN drain.aRow + 1 ELSE drain.aRow
               /\ drain'.prefetch = IF got THEN drain.prefetch - 1 ELSE drain.prefetch
               /\ drain'.read = IF got THEN PsumAt(drain.aRow) ELSE None
               /\ drain'.region = drain.region /\ drain'.sent \in BOOLEAN
               /\ drain' = [rows |-> drain'.rows, pushRow |-> drain'.pushRow,
                            region |-> drain'.region, oRow |-> drain'.oRow, aRow |-> drain'.aRow,
                            prefetch |-> drain'.prefetch, read |-> drain'.read,
                            sent |-> drain'.sent]
  <1>0. /\ SeqInv /\ PipeInv /\ OfmInv /\ RowsInv /\ RqInv /\ InputInv /\ PsumInv /\ MemInv
        /\ Busy /\ ~TileStart /\ ~Overlap /\ ~Advance /\ job.m \in 1 .. MaxM /\ MaxM \in Nat
    BY JobFacts DEF IInv, SeqInv, Going
  <1>1. drain' = Served(granted)
    BY <1>0, DrainFields
  <1>2. ~ToBuffer
    BY <1>0, OutFacts
  <1>3. LET out == Writes /\ granted
            got == ReadsPsum /\ granted
        IN  /\ drain'.pushRow = IF Pushed THEN drain.pushRow + 1 ELSE drain.pushRow
            /\ drain'.rows = IF out THEN drain.rows - 1 ELSE drain.rows
            /\ drain'.oRow = IF out THEN drain.oRow + 1 ELSE drain.oRow
            /\ drain'.aRow = IF got THEN drain.aRow + 1 ELSE drain.aRow
            /\ drain'.prefetch = IF got THEN drain.prefetch - 1 ELSE drain.prefetch
            /\ drain'.read = IF got THEN PsumAt(drain.aRow) ELSE None
            /\ drain'.region = drain.region /\ drain'.sent \in BOOLEAN
            /\ drain' = [rows |-> drain'.rows, pushRow |-> drain'.pushRow,
                         region |-> drain'.region, oRow |-> drain'.oRow, aRow |-> drain'.aRow,
                         prefetch |-> drain'.prefetch, read |-> drain'.read,
                         sent |-> drain'.sent]
    BY <1>0, <1>1, <1>2, ServedFields
  <1>4. /\ Pops(granted) => Ofm # <<>>
        /\ Len(ofm') = Len(Ofm) - (IF Pops(granted) THEN 1 ELSE 0) /\ ofm' \in Seq(Entry)
    BY <1>0, OutService
  <1>5. /\ Len(Ofm) \in Nat /\ Taken \in Nat /\ Len(ofm') \in Nat
        /\ Taken + Len(Ofm) = (IF Pushed THEN drain.pushRow + 1 ELSE drain.pushRow)
        /\ Taken + Len(Ofm) <= Fed
    BY <1>0, <1>4, OfmFacts, HeadFacts
  <1>6. Fed <= job.m /\ Fed \in Int
    BY <1>0 DEF Busy, Fed, InputInv
  <1>7. Taken' = drain'.pushRow - Len(ofm') /\ drain'.pushRow = Taken + Len(Ofm)
    BY <1>3, <1>5 DEF Taken
  <1>8. Taken' = IF Pops(granted) THEN Taken + 1 ELSE Taken
    <2>1. CASE Pops(granted)
      BY <2>1, <1>4, <1>5, <1>7
    <2>2. CASE ~Pops(granted)
      BY <2>2, <1>4, <1>5, <1>7
    <2> QED  BY <2>1, <2>2
  <1>9. Taken' <= drain'.pushRow /\ drain'.pushRow <= job.m
    BY <1>0, <1>5, <1>6, <1>7
  <1> QED  BY <1>3, <1>8, <1>9

LEMMA OfmStep ==
    ASSUME OneTile, IInv, state \in Running, UNCHANGED job, NEW granted \in BOOLEAN,
           NEW ready \in BOOLEAN, Sequencer(ready), MoveData(granted), Drain(granted)
    PROVE  OfmInv'
  <1>0. /\ SeqInv /\ PipeInv /\ OfmInv /\ RowsInv /\ RqInv /\ InputInv /\ PsumInv /\ MemInv
        /\ OfmDepth \in Nat \ {0} /\ drain.pushRow \in 0 .. MaxM /\ MaxM \in Nat
    BY SystolicAssumption, JobFacts DEF IInv, SeqInv, RowsInv
  <1>1. CASE Still
    <2>1. ofm' = <<>>
      BY <1>1, StillService
    <2>2. Busy' => drain'.pushRow = 0
      <3>1. Busy' => TileBegins \/ TileOverlaps
        BY <1>1 DEF Still, LoadGoesOn, TileAdvances, JobFinishes, Busy
      <3>2. TileBegins => TileStart /\ ~Overlap /\ ~Advance
        BY DEF TileBegins
      <3>3. TileOverlaps => Overlap /\ ~TileStart
        BY DEF TileOverlaps
      <3> QED  BY <3>1, <3>2, <3>3, <1>0, DrainFields
    <2>3. Busy' => Taken' = 0
      BY <2>1, <2>2 DEF Taken
    <2> QED  BY <2>1, <2>3, <1>0 DEF OfmInv
  <1>2. CASE Going
    <2>1. /\ Busy /\ Busy' /\ tile' = tile /\ job' = job /\ ~TileStart /\ ~Overlap /\ ~Advance
          /\ (HasNext' <=> HasNext) /\ (PsumBuf' <=> PsumBuf)
      BY <1>2 DEF Going, HasNext, PsumBuf
    <2>2. drain'.pushRow = IF Pushed THEN drain.pushRow + 1 ELSE drain.pushRow
      BY <2>1, <1>0, DrainFields, ServedFields
    <2>3. CASE PsumBuf /\ HasNext
      <3>1. ofm' = <<>>
        BY <2>1, <2>3, <1>0, BufferService
      <3>2. 0 <= Taken'
        BY <3>1, <2>2, <1>0 DEF Taken
      <3> QED  BY <3>1, <3>2, <2>1, <1>0 DEF OfmInv
    <2>4. CASE ~(PsumBuf /\ HasNext)
      <3> DEFINE taken == IF Pops(granted) THEN Taken + 1 ELSE Taken
      <3>1. /\ Pops(granted) => Ofm # <<>>
            /\ ofm' \in Seq(Entry) /\ Len(ofm') = Len(Ofm) - (IF Pops(granted) THEN 1 ELSE 0)
            /\ \A i \in 1 .. Len(ofm') : ofm'[i] = EntryOf(taken + (i - 1))
        BY <2>1, <2>4, <1>0, OutService
      <3>2. Len(Ofm) \in Nat /\ Len(Ofm) <= OfmDepth /\ Taken \in Nat /\ Len(ofm') \in Nat
        BY <3>1, <2>1, <1>0, OfmFacts, HeadFacts
      <3>3. Taken' = taken
        BY <1>2, <2>4, GoingService
      <3>4. Len(ofm') <= OfmDepth /\ 0 <= taken
        BY <3>1, <3>2, <1>0
      <3>5. (~HasNext)' = (~HasNext)
        BY <2>1 DEF HasNext
      <3>6. \A i \in 1 .. Len(ofm') :
              ofm'[i] = [val |-> {<<tile', taken + (i - 1)>>}, row |-> taken + (i - 1), tile |-> tile',
                         ext |-> FALSE, final |-> (~HasNext)']
        BY <3>1, <3>5, <2>1 DEF EntryOf
      <3> HIDE DEF taken
      <3> QED  BY <3>1, <3>3, <3>4, <3>6, <2>1, <2>4 DEF OfmInv
    <2> QED  BY <2>3, <2>4
  <1> QED  BY <1>0, <1>1, <1>2, StillOrGoing
LEMMA NoneTaken ==
    ASSUME ofm' = <<>>, drain'.pushRow = 0
    PROVE  Taken' = 0
  <1>1. Taken' = drain'.pushRow - Len(ofm')
    BY DEF Taken
  <1>2. Len(ofm') = 0
    OBVIOUS
  <1>3. \A a, b \in Int : a = 0 /\ b = 0 => a - b = 0
    OBVIOUS
  <1> QED  BY ONLY <1>1, <1>2, <1>3, drain'.pushRow = 0

LEMMA RowsStep ==
    ASSUME OneTile, IInv, state \in Running, UNCHANGED job, NEW granted \in BOOLEAN,
           NEW ready \in BOOLEAN, Sequencer(ready), MoveData(granted), Drain(granted)
    PROVE  RowsInv'
  <1>0. /\ SeqInv /\ PipeInv /\ OfmInv /\ RowsInv /\ RqInv /\ InputInv /\ PsumInv /\ MemInv
        /\ job.m \in 1 .. MaxM /\ MaxM \in Nat \ {0} /\ job' = job /\ job.tiles \in Nat
        /\ tile \in 0 .. (job.tiles - 1)
    BY JobFacts DEF IInv, SeqInv
  <1>1. drain \in [rows : 0 .. MaxM, pushRow : 0 .. MaxM, region : {"ofm", "psum"}, oRow : 0 .. MaxM,
                   aRow : Nat, prefetch : 0 .. MaxM, read : Sums \cup {None}, sent : BOOLEAN]
    BY <1>0 DEF RowsInv
  <1> DEFINE Type(d) ==
        /\ d.rows \in 0 .. MaxM /\ d.pushRow \in 0 .. MaxM /\ d.region \in {"ofm", "psum"}
        /\ d.oRow \in 0 .. MaxM /\ d.aRow \in Nat /\ d.prefetch \in 0 .. MaxM
        /\ d.read \in Sums \cup {None} /\ d.sent \in BOOLEAN
        /\ d = [rows |-> d.rows, pushRow |-> d.pushRow, region |-> d.region, oRow |-> d.oRow,
                aRow |-> d.aRow, prefetch |-> d.prefetch, read |-> d.read, sent |-> d.sent]
  <1>2. Type(drain')
        => drain' \in [rows : 0 .. MaxM, pushRow : 0 .. MaxM, region : {"ofm", "psum"},
                       oRow : 0 .. MaxM, aRow : Nat, prefetch : 0 .. MaxM,
                       read : Sums \cup {None}, sent : BOOLEAN]
    OBVIOUS
  <1>3. /\ (IF ReadsPsum /\ granted THEN drain.aRow + 1 ELSE drain.aRow) \in Nat
        /\ (IF ReadsPsum /\ granted THEN drain.prefetch - 1 ELSE drain.prefetch) \in 0 .. MaxM
        /\ (IF ReadsPsum /\ granted THEN PsumAt(drain.aRow) ELSE None) \in Sums \cup {None}
    BY <1>0, <1>1, ReadFacts
  <1>4. CASE Going
    <2>1. /\ Busy /\ Busy' /\ tile' = tile /\ ~TileStart /\ ~Overlap /\ ~Advance
          /\ (HasNext' <=> HasNext) /\ (PsumBuf' <=> PsumBuf)
          /\ (ThroughMemory(job)' <=> ThroughMemory(job)) /\ state \in Running
          /\ state' \notin {"LOAD_WEIGHTS", "DONE"}
      BY <1>0, <1>4 DEF Going, HasNext, PsumBuf, Busy
    <2>2. drain.region = IF ThroughMemory(job) /\ HasNext THEN "psum" ELSE "ofm"
      BY <2>1, <1>0 DEF RowsInv
    <2>3. CASE PsumBuf /\ HasNext
      <3>1. /\ ToBuffer <=> Pushed
            /\ ~Writes /\ ~ReadsPsum
            /\ Pushed => drain.pushRow \in 0 .. (job.m - 1)
        BY <2>1, <2>3, <1>0, BufferService
      <3>2. drain.oRow = 0 /\ drain.rows = job.m - drain.pushRow
        BY <2>1, <2>3, <1>0 DEF RowsInv
      <3>3. drain' = Served(granted)
        BY <2>1, <1>0, DrainFields
      <3>4. /\ drain'.rows = IF Pushed THEN drain.rows - 1 ELSE drain.rows
            /\ drain'.pushRow = IF Pushed THEN drain.pushRow + 1 ELSE drain.pushRow
            /\ drain'.region = drain.region /\ drain'.oRow = drain.oRow
            /\ drain'.aRow = drain.aRow /\ drain'.prefetch = drain.prefetch
            /\ drain'.read = None /\ drain'.sent \in BOOLEAN
            /\ drain' = [rows |-> drain'.rows, pushRow |-> drain'.pushRow,
                         region |-> drain'.region, oRow |-> drain'.oRow, aRow |-> drain'.aRow,
                         prefetch |-> drain'.prefetch, read |-> drain'.read,
                         sent |-> drain'.sent]
        BY <3>1, <3>3, <1>0, ServedFields
      <3>5. drain'.rows = job.m - drain'.pushRow /\ drain'.pushRow \in 0 .. job.m
        <4>1. drain.pushRow \in 0 .. MaxM /\ drain.rows \in 0 .. MaxM
          BY <1>1
        <4>2. CASE Pushed
          BY <4>1, <4>2, <3>1, <3>2, <3>4, <1>0
        <4>3. CASE ~Pushed
          BY <4>1, <4>3, <3>1, <3>2, <3>4, <1>0
        <4> QED  BY <4>2, <4>3
      <3>6. drain'.rows \in 0 .. MaxM /\ drain'.pushRow \in 0 .. MaxM
        BY <3>5, <1>0
      <3>7. Type(drain')
        BY <3>4, <3>6, <1>1
      <3> HIDE DEF Type
      <3> QED  BY <3>2, <3>4, <3>5, <3>7, <2>1, <2>2, <2>3, <1>0, <1>2 DEF RowsInv
    <2>4. CASE ~(PsumBuf /\ HasNext)
      <3> DEFINE out == Writes /\ granted
      <3>1. /\ Taken' = IF Pops(granted) THEN Taken + 1 ELSE Taken
            /\ Taken' <= drain'.pushRow /\ drain'.pushRow <= job.m
            /\ drain'.pushRow = IF Pushed THEN drain.pushRow + 1 ELSE drain.pushRow
            /\ drain'.rows = IF out THEN drain.rows - 1 ELSE drain.rows
            /\ drain'.oRow = IF out THEN drain.oRow + 1 ELSE drain.oRow
            /\ drain'.aRow \in Nat /\ drain'.prefetch \in 0 .. MaxM
            /\ drain'.read \in Sums \cup {None}
            /\ drain'.region = drain.region /\ drain'.sent \in BOOLEAN
            /\ drain' = [rows |-> drain'.rows, pushRow |-> drain'.pushRow,
                         region |-> drain'.region, oRow |-> drain'.oRow, aRow |-> drain'.aRow,
                         prefetch |-> drain'.prefetch, read |-> drain'.read,
                         sent |-> drain'.sent]
        BY <2>4, <1>0, <1>3, <1>4, GoingService
      <3>2. drain.rows = job.m - drain.oRow /\ drain.oRow \in 0 .. MaxM /\ drain.pushRow \in 0 .. MaxM
        BY <2>1, <2>4, <1>0, <1>1 DEF RowsInv
      <3>3. drain'.oRow <= Taken'
        <4> DEFINE taken == IF Pops(granted) THEN Taken + 1 ELSE Taken
                   row == IF Writes /\ granted THEN drain.oRow + 1 ELSE drain.oRow
        <4>1. row <= taken
          BY <2>1, <2>4, <1>0, RqMoves
        <4> QED  BY <4>1, <3>1
      <3> HIDE DEF out
      <3>4. drain'.rows = job.m - drain'.oRow
        BY <3>1, <3>2, <1>0
      <3>5. drain'.oRow \in 0 .. MaxM /\ drain'.pushRow \in 0 .. MaxM /\ drain'.rows \in 0 .. MaxM
        <4>1. Taken \in Nat
          BY <2>1, <1>0, HeadFacts
        <4>2. Taken' \in Nat
          BY <4>1, <3>1
        <4>3. drain'.oRow \in Nat /\ drain'.pushRow \in Nat
          BY <3>1, <3>2
        <4> QED  BY <4>2, <4>3, <3>1, <3>3, <3>4, <1>0
      <3>6. Type(drain')
        BY <3>1, <3>5, <1>1
      <3> HIDE DEF Type
      <3> QED  BY <3>1, <3>3, <3>4, <3>6, <2>1, <2>2, <2>4, <1>0, <1>2 DEF RowsInv
    <2> QED  BY <2>3, <2>4
  <1>5. CASE Still
    <2> DEFINE d == Served(granted)
    <2>1. /\ ~Writes /\ ~ToBuffer /\ ofm' = <<>>
          /\ d.rows = drain.rows /\ d.pushRow = drain.pushRow /\ d.oRow = drain.oRow
          /\ d.region = drain.region /\ d.sent \in BOOLEAN
          /\ d.aRow \in Nat /\ d.prefetch \in 0 .. MaxM /\ d.read \in Sums \cup {None}
      BY <1>3, <1>5, StillService
    <2>2. d = [rows |-> d.rows, pushRow |-> d.pushRow, region |-> d.region, oRow |-> d.oRow,
               aRow |-> d.aRow, prefetch |-> d.prefetch, read |-> d.read, sent |-> d.sent]
      BY <1>0, ServedFields
    <2>3. /\ ~TileStart /\ ~Overlap /\ ~Advance => drain' = d
          /\ TileStart /\ ~Overlap /\ ~Advance =>
               drain' = [rows |-> IF PsumBuf /\ HasNext /\ tile # 0 THEN drain.rows + job.m ELSE job.m,
                         pushRow |-> 0, region |-> d.region, oRow |-> d.oRow, aRow |-> d.aRow,
                         prefetch |-> IF AccumActive /\ (~PsumBuf \/ NeedsExternal) THEN job.m ELSE 0,
                         read |-> None, sent |-> FALSE]
          /\ ~TileStart /\ (Overlap \/ Advance) =>
               drain' = [rows |-> IF Overlap THEN drain.rows + job.m ELSE d.rows,
                         pushRow |-> IF Overlap THEN 0 ELSE d.pushRow,
                         region |-> IF ThroughMemory(job) /\ tile + 2 < job.tiles THEN "psum" ELSE "ofm",
                         oRow |-> 0, aRow |-> 0,
                         prefetch |-> d.prefetch, read |-> d.read, sent |-> d.sent]
      BY <1>0, DrainFields
    <2> HIDE DEF d
    <2>4. CASE LoadGoesOn
      <3>1. /\ state = "LOAD_WEIGHTS" /\ state' = "LOAD_WEIGHTS" /\ tile' = tile
            /\ ~TileStart /\ ~Overlap /\ ~Advance /\ state \in Running /\ ~Busy'
        BY <2>4 DEF LoadGoesOn, Running, Busy
      <3>2. drain' = d /\ Type(drain')
        BY <3>1, <2>1, <2>2, <2>3, <1>1
      <3>3. (HasNext' <=> HasNext) /\ (ThroughMemory(job)' <=> ThroughMemory(job))
        BY <3>1, <1>0 DEF HasNext
      <3> HIDE DEF Type
      <3> QED  BY <3>1, <3>2, <3>3, <2>1, <1>0, <1>2 DEF RowsInv
    <2>5. CASE TileBegins
      <3>1. /\ state = "LOAD_WEIGHTS" /\ state' = "COMPUTE" /\ tile' = tile
            /\ TileStart /\ ~Overlap /\ ~Advance /\ state \in Running /\ Busy'
        BY <2>5 DEF TileBegins, Running, Busy
      <3>2. drain.oRow = 0 /\ drain.rows = (IF tile = 0 THEN job.m ELSE 0)
            /\ drain.region = IF ThroughMemory(job) /\ HasNext THEN "psum" ELSE "ofm"
        BY <3>1, <1>0 DEF RowsInv
      <3>3. /\ drain'.rows = job.m /\ drain'.pushRow = 0 /\ drain'.oRow = 0 /\ Type(drain')
            /\ drain'.region = drain.region
        <4> DEFINE pf == IF AccumActive /\ (~PsumBuf \/ NeedsExternal) THEN job.m ELSE 0
        <4>1. (IF PsumBuf /\ HasNext /\ tile # 0 THEN drain.rows + job.m ELSE job.m) = job.m
          BY <3>2, <1>0
        <4>2. pf \in 0 .. MaxM
          BY <1>0
        <4> HIDE DEF pf
        <4>3. drain' = [rows |-> job.m, pushRow |-> 0, region |-> drain.region, oRow |-> 0,
                        aRow |-> d.aRow, prefetch |-> pf, read |-> None, sent |-> FALSE]
          BY <3>1, <3>2, <4>1, <2>1, <2>3 DEF pf
        <4> QED  BY <4>2, <4>3, <2>1, <1>0, <1>1
      <3>4. (HasNext' <=> HasNext) /\ (ThroughMemory(job)' <=> ThroughMemory(job))
        BY <3>1, <1>0 DEF HasNext
      <3>5. Taken' = 0
        <4>1. ofm' = <<>> /\ drain'.pushRow = 0
          BY <3>3, <2>1
        <4> QED  BY <4>1, NoneTaken
      <3>6. state' \notin {"LOAD_WEIGHTS", "DONE"}
        BY <3>1
      <3> HIDE DEF Type
      <3> QED  BY <3>1, <3>2, <3>3, <3>4, <3>5, <3>6, <1>0, <1>2 DEF RowsInv
    <2>6. CASE TileOverlaps
      <3>1. /\ state = "WAIT_DRAIN" /\ state' = "COMPUTE" /\ tile' = tile + 1 /\ HasNext
            /\ ~TileStart /\ Overlap /\ ~Advance /\ Busy /\ Busy' /\ PsumBuf
        BY <2>6 DEF TileOverlaps, Running, Busy, Overlap
      <3>2. drain.pushRow = job.m
        BY <3>1, <1>5, StillFacts
      <3>3. drain.rows = 0
        BY <3>1, <3>2, <1>0 DEF RowsInv
      <3>4. /\ drain'.rows = job.m /\ drain'.pushRow = 0 /\ drain'.oRow = 0 /\ Type(drain')
            /\ drain'.region = IF ThroughMemory(job) /\ tile + 2 < job.tiles THEN "psum" ELSE "ofm"
        BY <3>1, <3>3, <2>1, <2>3, <1>0, <1>1
      <3>5. HasNext' <=> tile + 2 < job.tiles
        BY <3>1, <1>0 DEF HasNext
      <3>6. Taken' = 0 /\ state' \notin {"LOAD_WEIGHTS", "DONE"}
        <4>1. ofm' = <<>> /\ drain'.pushRow = 0
          BY <3>4, <2>1
        <4>2. Taken' = 0
          BY <4>1, NoneTaken
        <4> QED  BY <4>2, <3>1
      <3> HIDE DEF Type
      <3> QED  BY <3>1, <3>4, <3>5, <3>6, <1>0, <1>2 DEF RowsInv
    <2>7. CASE TileAdvances
      <3>1. /\ state' = "LOAD_WEIGHTS" /\ tile' = tile + 1 /\ ~TileStart /\ ~Overlap /\ Advance /\ ~Busy'
        BY <2>7 DEF TileAdvances, Busy
      <3>2. drain.rows = 0
        BY <2>7, AdvanceFacts
      <3>3. /\ drain'.rows = 0 /\ drain'.oRow = 0 /\ Type(drain')
            /\ drain'.region = IF ThroughMemory(job) /\ tile + 2 < job.tiles THEN "psum" ELSE "ofm"
        BY <3>1, <3>2, <2>1, <2>3, <1>0, <1>1
      <3>4. (HasNext' <=> tile + 2 < job.tiles) /\ tile' # 0 /\ state' # "DONE"
        BY <3>1, <1>0 DEF HasNext
      <3> HIDE DEF Type
      <3> QED  BY <3>1, <3>3, <3>4, <1>0, <1>2 DEF RowsInv
    <2>8. CASE JobFinishes
      <3>1. /\ state' = "DONE" /\ tile' = tile /\ ~TileStart /\ ~Overlap /\ ~Advance /\ ~Busy' /\ Finish
            /\ state' \notin Running
        BY <2>8 DEF JobFinishes, Busy, Running
      <3>2. drain' = d /\ Type(drain')
        BY <3>1, <2>1, <2>2, <2>3, <1>1
      <3>3. drain.oRow = job.m
        BY <3>1, <1>0, DrainedFacts
      <3> HIDE DEF Type
      <3> QED  BY <3>1, <3>2, <3>3, <2>1, <1>0, <1>2 DEF RowsInv
    <2> QED  BY <2>4, <2>5, <2>6, <2>7, <2>8, <1>5 DEF Still
  <1> QED  BY <1>0, <1>4, <1>5, StillOrGoing
LEMMA RqStep ==
    ASSUME OneTile, IInv, state \in Running, UNCHANGED job, NEW granted \in BOOLEAN,
           NEW ready \in BOOLEAN, Sequencer(ready), MoveData(granted), Drain(granted)
    PROVE  RqInv'
  <1>0. /\ SeqInv /\ PipeInv /\ OfmInv /\ RowsInv /\ RqInv /\ InputInv /\ PsumInv /\ MemInv
        /\ job' = job /\ RequantStages \in Nat \ {0} /\ (Clean' <=> Clean)
    BY SystolicAssumption DEF IInv, Clean
  <1>1. ASSUME rq' \in [1 .. RequantStages -> Sums \cup {None}],
               \A i \in 1 .. RequantStages : rq'[i] = None,
               Busy' /\ ~(PsumBuf' /\ HasNext') => drain'.oRow = 0 /\ Taken' = 0
        PROVE  RqInv'
    <2> DEFINE g == [i \in 1 .. RequantStages |-> -1]
    <2>1. g \in [1 .. RequantStages -> Int] /\ \A i \in 1 .. RequantStages : g[i] = -1
      OBVIOUS
    <2> HIDE DEF g
    <2>2. Lines(g, RequantStages, 0, 0)
      BY <2>1, <1>0, LinesNone
    <2>3. Busy' /\ ~(PsumBuf' /\ HasNext') => RqRows(g)'
      BY <2>1, <2>2, <1>1 DEF RqRows
    <2> QED  BY <2>1, <2>3, <1>1 DEF RqInv
  <1>2. CASE Still
    <2>1. /\ rq' \in [1 .. RequantStages -> Sums \cup {None}]
          /\ Served(granted).oRow = drain.oRow /\ ofm' = <<>>
          /\ \A i \in 1 .. RequantStages : rq'[i] = None
      BY <1>2, StillService
    <2>2. Busy' => drain'.oRow = 0 /\ drain'.pushRow = 0
      <3>1. Busy' => TileBegins \/ TileOverlaps
        BY <1>2 DEF Still, LoadGoesOn, TileAdvances, JobFinishes, Busy
      <3>2. TileBegins => TileStart /\ ~Overlap /\ ~Advance /\ drain.oRow = 0
        BY <1>0 DEF TileBegins, RowsInv
      <3>3. TileOverlaps => Overlap /\ ~TileStart
        BY DEF TileOverlaps
      <3> QED  BY <3>1, <3>2, <3>3, <2>1, <1>0, DrainFields
    <2>3. Busy' => Taken' = 0
      BY <2>1, <2>2, NoneTaken
    <2> QED  BY <2>1, <2>2, <2>3, <1>1
  <1>3. CASE Going
    <2>1. /\ Busy /\ Busy' /\ tile' = tile /\ job' = job
          /\ (HasNext' <=> HasNext) /\ (PsumBuf' <=> PsumBuf) /\ (RequantActive' <=> RequantActive)
      BY <1>0, <1>3 DEF Going, HasNext, PsumBuf, RequantActive
    <2>2. CASE PsumBuf /\ HasNext
      <3>1. rq' = [i \in 1 .. RequantStages |-> None]
        BY <2>1, <2>2, <1>0, BufferService
      <3> QED  BY <3>1, <2>1, <2>2, <1>1
    <2>3. CASE ~(PsumBuf /\ HasNext)
      <3> DEFINE taken == IF Pops(granted) THEN Taken + 1 ELSE Taken
                 row == IF Writes /\ granted THEN drain.oRow + 1 ELSE drain.oRow
      <3>1. /\ rq' \in [1 .. RequantStages -> Sums \cup {None}]
            /\ ~RequantActive => \A i \in 1 .. RequantStages : rq'[i] = None
            /\ \E g \in [1 .. RequantStages -> Int] :
                /\ Lines(g, RequantStages, row, taken)
                /\ \A i \in 1 .. RequantStages : g[i] = -1 <=> rq'[i] = None
                /\ Clean => \A i \in 1 .. RequantStages :
                              g[i] # -1 => rq'[i] = Matrix!Product(job, g[i])
        BY <2>1, <2>3, <1>0, RqMoves
      <3>2. Taken' = taken /\ drain'.oRow = row
        BY <2>3, <1>0, <1>3, GoingService
      <3> HIDE DEF taken, row
      <3>3. PICK g \in [1 .. RequantStages -> Int] :
                /\ Lines(g, RequantStages, row, taken)
                /\ \A i \in 1 .. RequantStages : g[i] = -1 <=> rq'[i] = None
                /\ Clean => \A i \in 1 .. RequantStages :
                              g[i] # -1 => rq'[i] = Matrix!Product(job, g[i])
        BY <3>1
      <3>4. RqRows(g)'
        BY <3>2, <3>3, <2>1, <1>0 DEF RqRows
      <3> QED  BY <3>1, <3>4, <2>1 DEF RqInv
    <2> QED  BY <2>2, <2>3
  <1> QED  BY <1>0, <1>2, <1>3, StillOrGoing
\* Partial sums while the tile stays the same: a row may be read, arrive and be taken.
LEMMA PsumGoes ==
    ASSUME OneTile, IInv, UNCHANGED <<job, tile>>, state \in Running, state' \in Running,
           Busy' <=> Busy, NEW granted \in BOOLEAN,
           NEW pop \in BOOLEAN, pop => Busy /\ ReadsSums /\ PsumFifo # <<>>,
           psum' = Popped(PsumFifo, pop),
           ReadsSums /\ Busy => Taken' = IF pop THEN Taken + 1 ELSE Taken,
           drain'.aRow = IF ReadsPsum /\ granted THEN drain.aRow + 1 ELSE drain.aRow,
           drain'.prefetch = IF ReadsPsum /\ granted THEN drain.prefetch - 1 ELSE drain.prefetch,
           drain'.read = IF ReadsPsum /\ granted THEN PsumAt(drain.aRow) ELSE None,
           \A r \in OutRows : Clean /\ ReadsSums /\ drain.aRow <= r
                                => mem'["psum"][r] = mem["psum"][r]
    PROVE  PsumInv'
  <1> DEFINE got == ReadsPsum /\ granted
             base == SumsBase
             nbase == IF pop THEN base + 1 ELSE base
  <1>0. /\ SeqInv /\ OfmInv /\ RowsInv /\ PsumInv /\ MemInv
        /\ job' = job /\ tile' = tile /\ job.m \in 1 .. MaxM /\ MaxM \in Nat \ {0}
        /\ OfmDepth \in Nat \ {0} /\ job.accum \in BOOLEAN
        /\ (state = "LOAD_WEIGHTS" <=> ~Busy) /\ (state' = "LOAD_WEIGHTS" <=> ~Busy')
    BY SystolicAssumption, JobFacts DEF IInv, SeqInv, Busy, Running
  <1>1. (ReadsSums' <=> ReadsSums) /\ (Clean' <=> Clean) /\ \A r : SumsOf(r)' = SumsOf(r)
    BY <1>0 DEF ReadsSums, PsumBuf, AccumActive, Clean, SumsOf, UpTo
  <1>2. /\ PsumFifo \in Seq(Sums) /\ Len(PsumFifo) \in Nat /\ Len(PsumFifo) <= OfmDepth
        /\ Len(PsumFifo) = Len(psum) + One(drain.read)
        /\ ~ReadsSums => PsumFifo = <<>>
    BY <1>0, PsumFifoFacts
  <1>3. ASSUME got
        PROVE  /\ ReadsSums /\ drain.prefetch # 0 /\ drain.read = None /\ Len(psum) < OfmDepth
               /\ PsumFifo = psum /\ PsumAt(drain.aRow) # None
    BY <1>3, ReadFacts
  <1>4. /\ psum' \in Seq(Sums) /\ Len(psum') \in Nat
        /\ Len(psum') = Len(PsumFifo) - (IF pop THEN 1 ELSE 0)
        /\ \A i \in 1 .. Len(psum') : psum'[i] = PsumFifo[IF pop THEN i + 1 ELSE i]
    <2> DEFINE f == PsumFifo
    <2>1. f \in Seq(Sums) /\ (pop => f # <<>>) /\ psum' = Popped(f, pop)
      BY <1>2
    <2> HIDE DEF f
    <2>2. CASE pop
      BY <2>1, <2>2 DEF Popped, f
    <2>3. CASE ~pop
      <3>1. psum' = f
        BY <2>1, <2>3 DEF Popped
      <3> QED  BY <3>1, <2>1, <2>3 DEF f
    <2> QED  BY <2>2, <2>3
  <1>5. Len(psum') <= OfmDepth /\ (drain'.read # None => Len(psum') < OfmDepth)
    <2>1. Len(psum') <= Len(PsumFifo)
      BY <1>2, <1>4
    <2>2. drain'.read # None => Len(PsumFifo) < OfmDepth
      BY <1>3
    <2> QED  BY <2>1, <2>2, <1>0, <1>2, <1>4
  <1>6. drain.prefetch \in Nat /\ drain.prefetch <= job.m /\ drain'.prefetch <= job.m /\ drain.aRow \in Nat
    <2>1. drain.prefetch \in 0 .. MaxM /\ drain.prefetch <= job.m /\ drain.aRow \in Nat
      BY <1>0 DEF PsumInv, RowsInv
    <2> QED  BY <2>1, <1>0
  <1>7. ASSUME ~ReadsSums
        PROVE  /\ psum' = <<>> /\ drain'.read = None /\ drain'.prefetch = 0
               /\ ~job.accum => drain'.aRow = 0
    <2>1. ~got /\ ~pop /\ PsumFifo = <<>>
      BY <1>2, <1>3, <1>7
    <2>2. drain.read = None /\ drain.prefetch = 0 /\ (~job.accum => drain.aRow = 0)
      BY <1>0, <1>7 DEF PsumInv
    <2> QED  BY <2>1, <2>2 DEF Popped
  <1>8. ASSUME ~job.accum, ~Busy
        PROVE  psum' = <<>> /\ drain'.read = None /\ drain'.prefetch = 0 /\ drain'.aRow = 0
    <2>1. psum = <<>> /\ drain.read = None /\ drain.prefetch = 0 /\ drain.aRow = 0
      BY <1>0, <1>8 DEF PsumInv
    <2>2. ~got /\ ~pop
      BY <2>1, <1>3, <1>8
    <2>3. PsumFifo = <<>>
      BY <2>1 DEF PsumFifo, Push
    <2> QED  BY <2>1, <2>2, <2>3 DEF Popped
  <1>9. ASSUME Clean, ReadsSums
        PROVE  /\ drain'.aRow = nbase + Len(psum') + One(drain'.read)
               /\ ~job.accum /\ Busy => drain'.aRow + drain'.prefetch = job.m
               /\ \A i \in 1 .. Len(psum') :
                    nbase + (i - 1) < job.m => psum'[i] = SumsOf(nbase + (i - 1))
               /\ drain'.read # None /\ drain'.aRow - 1 < job.m =>
                    drain'.read = SumsOf(drain'.aRow - 1)
               /\ \A r \in 0 .. (job.m - 1) : drain'.aRow <= r => mem'["psum"][r] = SumsOf(r)
    <2>0. base \in Int
      BY <1>0 DEF Taken, OfmInv, RowsInv, SumsBase
    <2>1. /\ drain.aRow = base + Len(psum) + One(drain.read)
          /\ ~job.accum /\ Busy => drain.aRow + drain.prefetch = job.m
          /\ \A r \in 0 .. (job.m - 1) : drain.aRow <= r => mem["psum"][r] = SumsOf(r)
      BY <1>0, <1>9 DEF PsumInv, SumsAhead
    <2>2. \A i \in 1 .. Len(PsumFifo) :
            base + (i - 1) < job.m => PsumFifo[i] = SumsOf(base + (i - 1))
      BY <1>0, <1>9, PsumFifoFacts
    <2> HIDE DEF base
    <2>3. One(drain'.read) = (IF got THEN 1 ELSE 0) /\ One(drain.read) \in {0, 1} /\ Len(psum) \in Nat
      BY <1>0, <1>3 DEF One, PsumInv
    <2>4. drain'.aRow = nbase + Len(psum') + One(drain'.read)
      <3>1. drain.aRow = base + Len(PsumFifo)
        BY <2>0, <2>1, <2>3, <1>2
      <3>2. nbase + Len(psum') = base + Len(PsumFifo)
        BY <2>0, <1>2, <1>4
      <3> QED  BY <3>1, <3>2, <2>0, <2>3, <1>2, <1>4
    <2>5. ~job.accum /\ Busy => drain'.aRow + drain'.prefetch = job.m
      BY <2>1, <1>0, <1>6
    <2>6. ASSUME NEW i \in 1 .. Len(psum'), nbase + (i - 1) < job.m
          PROVE  psum'[i] = SumsOf(nbase + (i - 1))
      <3> DEFINE k == IF pop THEN i + 1 ELSE i
      <3>1. k \in 1 .. Len(PsumFifo) /\ base + (k - 1) = nbase + (i - 1)
        BY <2>0, <1>2, <1>4
      <3>2. psum'[i] = PsumFifo[k]
        BY <1>4
      <3> HIDE DEF k
      <3> QED  BY <3>1, <3>2, <2>2, <2>6
    <2>7. ASSUME drain'.read # None, drain'.aRow - 1 < job.m
          PROVE  drain'.read = SumsOf(drain'.aRow - 1)
      <3>1. got /\ drain'.aRow - 1 = drain.aRow /\ drain'.read = PsumAt(drain.aRow)
        BY <2>7, <1>6
      <3>2. drain.aRow \in 0 .. (job.m - 1) /\ drain.aRow \in OutRows
        BY <3>1, <2>7, <1>0, <1>6 DEF OutRows
      <3>3. mem["psum"][drain.aRow] = SumsOf(drain.aRow)
        BY <3>2, <2>1, <1>6
      <3>4. SumsOf(drain.aRow) \in Sums
        BY <3>2, <1>0, UpToFacts DEF SeqInv
      <3>5. SumsOf(drain.aRow) # None
        BY <3>4, ValuesAssumption
      <3> QED  BY <3>1, <3>2, <3>3, <3>5 DEF PsumAt
    <2>8. ASSUME NEW r \in 0 .. (job.m - 1), drain'.aRow <= r PROVE mem'["psum"][r] = SumsOf(r)
      <3>1. r \in OutRows /\ drain.aRow <= r
        BY <2>8, <1>0, <1>6 DEF OutRows
      <3> QED  BY <3>1, <2>1, <1>9
    <2> QED  BY <2>4, <2>5, <2>6, <2>7, <2>8
  <1>10. ReadsSums => nbase = SumsBase'
    BY DEF Busy, SumsBase
  <1> HIDE DEF base, nbase, got
  <1>11. Clean' /\ ReadsSums' => SumsAhead'
    BY <1>0, <1>1, <1>9, <1>10 DEF SumsAhead
  <1> QED  BY <1>0, <1>1, <1>4, <1>5, <1>6, <1>7, <1>8, <1>11 DEF PsumInv
LEMMA PsumStep ==
    ASSUME OneTile, IInv, state \in Running, UNCHANGED job, NEW granted \in BOOLEAN,
           NEW ready \in BOOLEAN, Sequencer(ready), MoveData(granted), Drain(granted),
           granted => GrantAtStart \/ ~(ReadsPsum /\ TileStart)
    PROVE  PsumInv'
  <1>0. /\ SeqInv /\ PipeInv /\ OfmInv /\ RowsInv /\ RqInv /\ InputInv /\ PsumInv /\ MemInv
        /\ job' = job /\ job.m \in 1 .. MaxM /\ MaxM \in Nat \ {0} /\ job.tiles \in Nat
        /\ OfmDepth \in Nat \ {0} /\ job.accum \in BOOLEAN /\ tile \in 0 .. (job.tiles - 1)
        /\ job \in Jobs /\ (Clean' <=> Clean)
    BY SystolicAssumption, JobFacts DEF IInv, SeqInv, Clean
  <1> DEFINE got == ReadsPsum /\ granted
             d == Served(granted)
  <1>1. CASE Going
    <2>1. /\ Busy /\ Busy' /\ tile' = tile /\ state \in Running /\ state' \in Running
          /\ ~TileStart /\ ~Overlap /\ ~Advance
      BY <1>1 DEF Going
    <2>2. CASE PsumBuf /\ HasNext
      <3>1. ~ReadsPsum /\ psum' = PsumFifo /\ mem' = mem /\ ~ReadsSums
        BY <2>1, <2>2, <1>0, BufferService DEF ReadsSums
      <3>2. drain' = Served(granted)
        BY <2>1, <1>0, DrainFields
      <3>3. /\ drain'.aRow = (IF ReadsPsum /\ granted THEN drain.aRow + 1 ELSE drain.aRow)
            /\ drain'.prefetch = (IF ReadsPsum /\ granted THEN drain.prefetch - 1 ELSE drain.prefetch)
            /\ drain'.read = (IF ReadsPsum /\ granted THEN PsumAt(drain.aRow) ELSE None)
        BY <3>2, <1>0, ServedFields
      <3>4. psum' = Popped(PsumFifo, FALSE)
        BY <3>1 DEF Popped
      <3> QED  BY <3>1, <3>3, <3>4, <2>1, <1>0, PsumGoes
    <2>3. CASE ~(PsumBuf /\ HasNext)
      <3> DEFINE pop == Pops(granted) /\ ReadsSums
      <3>1. /\ Pops(granted) => HeadReady
            /\ psum' = Popped(PsumFifo, pop)
            /\ mem' = IF Writes /\ granted
                      THEN [mem EXCEPT ![drain.region][drain.oRow] = OutValue] ELSE mem
        BY <2>1, <2>3, <1>0, OutService
      <3>2. pop \in BOOLEAN /\ (pop => Busy /\ ReadsSums /\ PsumFifo # <<>>)
        <4>1. pop => UsesPsum
          BY <3>1, <1>0, SumValue
        <4> QED  BY <4>1, <3>1, <2>1 DEF HeadReady, ReadsSums
      <3>3. /\ Taken' = IF Pops(granted) THEN Taken + 1 ELSE Taken
            /\ drain'.aRow = (IF ReadsPsum /\ granted THEN drain.aRow + 1 ELSE drain.aRow)
            /\ drain'.prefetch = (IF ReadsPsum /\ granted THEN drain.prefetch - 1 ELSE drain.prefetch)
            /\ drain'.read = (IF ReadsPsum /\ granted THEN PsumAt(drain.aRow) ELSE None)
        BY <2>3, <1>0, <1>1, GoingService
      <3>4. \A r \in OutRows : Clean /\ ReadsSums /\ drain.aRow <= r
                                 => mem'["psum"][r] = mem["psum"][r]
        <4> SUFFICES ASSUME NEW r \in OutRows, Clean, ReadsSums, drain.aRow <= r
                     PROVE  mem'["psum"][r] = mem["psum"][r]
          OBVIOUS
        <4>1. CASE Writes /\ granted
          <5>1. drain.oRow < drain.aRow /\ drain.region \in {"ofm", "psum"} /\ drain.oRow \in OutRows
            BY <4>1, <2>1, <2>3, <1>0, OutValueFacts
          <5>2. drain.oRow # r
            <6>1. drain.aRow \in Nat /\ drain.oRow \in Int /\ r \in Int
              BY <1>0 DEF RowsInv, OutRows
            <6> QED  BY <5>1, <6>1
          <5>3. mem \in [{"ofm", "psum"} -> [OutRows -> Sums \cup {None}]]
            BY <1>0 DEF MemInv
          <5> QED  BY <4>1, <5>1, <5>2, <5>3, <3>1
        <4>2. CASE ~(Writes /\ granted)
          BY <4>2, <3>1
        <4> QED  BY <4>1, <4>2
      <3>5. ReadsSums /\ Busy => Taken' = IF pop THEN Taken + 1 ELSE Taken
        BY <3>3
      <3> HIDE DEF pop
      <3> QED  BY <3>1, <3>2, <3>3, <3>4, <3>5, <2>1, <1>0, PsumGoes
    <2> QED  BY <2>2, <2>3
  <1>2. CASE Still
    <2>1. /\ psum' = PsumFifo /\ mem' = mem /\ ofm' = <<>>
          /\ d.aRow = IF got THEN drain.aRow + 1 ELSE drain.aRow
          /\ d.prefetch = IF got THEN drain.prefetch - 1 ELSE drain.prefetch
          /\ d.read = IF got THEN PsumAt(drain.aRow) ELSE None
      BY <1>2, StillService
    <2>2. /\ ~TileStart /\ ~Overlap /\ ~Advance => drain' = d
          /\ TileStart /\ ~Overlap /\ ~Advance =>
               drain' = [rows |-> IF PsumBuf /\ HasNext /\ tile # 0 THEN drain.rows + job.m ELSE job.m,
                         pushRow |-> 0, region |-> d.region, oRow |-> d.oRow, aRow |-> d.aRow,
                         prefetch |-> IF AccumActive /\ (~PsumBuf \/ NeedsExternal) THEN job.m ELSE 0,
                         read |-> None, sent |-> FALSE]
          /\ ~TileStart /\ (Overlap \/ Advance) =>
               drain' = [rows |-> IF Overlap THEN drain.rows + job.m ELSE d.rows,
                         pushRow |-> IF Overlap THEN 0 ELSE d.pushRow,
                         region |-> IF ThroughMemory(job) /\ tile + 2 < job.tiles THEN "psum" ELSE "ofm",
                         oRow |-> 0, aRow |-> 0,
                         prefetch |-> d.prefetch, read |-> d.read, sent |-> d.sent]
      BY <1>0, DrainFields
    <2>3. /\ PsumFifo \in Seq(Sums) /\ Len(PsumFifo) \in Nat /\ Len(PsumFifo) <= OfmDepth
          /\ Len(PsumFifo) = Len(psum) + One(drain.read) /\ Len(psum) \in Nat
          /\ One(drain.read) \in {0, 1} /\ (One(drain.read) = 0 <=> drain.read = None)
      BY <1>0, PsumFifoFacts DEF PsumInv, One
    <2>4. got => /\ ReadsSums /\ drain.prefetch # 0 /\ drain.read = None /\ Len(psum) < OfmDepth
                 /\ PsumFifo = psum /\ PsumAt(drain.aRow) # None
      BY ReadFacts
    <2>5. drain.prefetch \in 0 .. MaxM /\ drain.aRow \in Nat
      BY <1>0 DEF RowsInv
    <2> HIDE DEF d, got
    <2>6. CASE LoadGoesOn
      <3>1. /\ state = "LOAD_WEIGHTS" /\ state' = "LOAD_WEIGHTS" /\ tile' = tile /\ ~Busy /\ ~Busy'
            /\ ~TileStart /\ ~Overlap /\ ~Advance /\ state \in Running /\ state' \in Running
        BY <2>6 DEF LoadGoesOn, Busy, Running
      <3>2. /\ drain'.aRow = (IF ReadsPsum /\ granted THEN drain.aRow + 1 ELSE drain.aRow)
            /\ drain'.prefetch = (IF ReadsPsum /\ granted THEN drain.prefetch - 1 ELSE drain.prefetch)
            /\ drain'.read = (IF ReadsPsum /\ granted THEN PsumAt(drain.aRow) ELSE None)
        BY <3>1, <2>1, <2>2 DEF got
      <3>3. psum' = Popped(PsumFifo, FALSE)
        BY <2>1 DEF Popped
      <3> QED  BY <3>1, <3>2, <3>3, <2>1, <1>0, PsumGoes
    <2>7. CASE TileBegins
      <3>1. /\ state = "LOAD_WEIGHTS" /\ state' = "COMPUTE" /\ tile' = tile /\ ~Busy /\ Busy'
            /\ TileStart /\ ~Overlap /\ ~Advance /\ state \in Running /\ state' \in Running
        BY <2>7 DEF TileBegins, Busy, Running
      <3>2. (ReadsSums' <=> ReadsSums) /\ \A r : SumsOf(r)' = SumsOf(r)
        BY <3>1, <1>0 DEF ReadsSums, PsumBuf, AccumActive, SumsOf, UpTo
      <3>3. ~NeedsExternal
        BY <1>0 DEF OneTile, NeedsExternal, PsumBuf, Buffered
      <3>4. /\ drain'.prefetch = (IF ReadsSums THEN job.m ELSE 0) /\ drain'.read = None
            /\ drain'.aRow = d.aRow /\ drain'.pushRow = 0
        BY <3>1, <3>3, <2>2 DEF ReadsSums
      <3>5. Taken' = 0
        BY <3>4, <2>1, NoneTaken
      <3>6. SumsBase = 0 /\ SumsBase' = 0
        BY <3>1, <3>5 DEF SumsBase
      <3>7. ~job.accum => psum = <<>> /\ drain.read = None /\ drain.prefetch = 0 /\ drain.aRow = 0
        BY <3>1, <1>0 DEF PsumInv
      <3>8. Clean => ~got
        <4>1. job.accum /\ Clean => ~got
          BY <3>1 DEF got, Clean
        <4> QED  BY <4>1, <3>7, <2>4
      <3>9. ~ReadsSums => psum' = <<>>
        BY <3>1, <1>0, <2>1, PsumFifoFacts
      <3>10. ~job.accum => drain'.aRow = 0
        BY <3>4, <3>7, <2>1, <2>4
      <3>11. ASSUME Clean, ReadsSums PROVE SumsAhead'
        <4>1. SumsAhead
          BY <3>1, <3>11, <1>0 DEF PsumInv
        <4>2. drain'.aRow = Len(psum') /\ drain'.aRow = drain.aRow
          BY <4>1, <3>4, <3>6, <3>8, <3>11, <2>1, <2>3 DEF SumsAhead
        <4>3. \A i \in 1 .. Len(psum') :
                0 + (i - 1) < job.m => psum'[i] = SumsOf(0 + (i - 1))
          BY <3>1, <3>6, <3>11, <2>1, <1>0, PsumFifoFacts
        <4>4. drain'.aRow = 0 + Len(psum') + One(drain'.read)
          <5>1. One(drain'.read) = 0
            BY <3>4 DEF One
          <5>2. drain'.aRow \in Nat
            BY <4>2, <2>5
          <5> QED  BY ONLY <5>1, <5>2, <4>2
        <4>5. ~job.accum => drain'.aRow + drain'.prefetch = job.m
          BY <3>4, <3>10, <3>11, <1>0
        <4>6. \A r \in 0 .. (job.m - 1) : drain'.aRow <= r => mem'["psum"][r] = SumsOf(r)
          BY <4>1, <4>2, <2>1 DEF SumsAhead
        <4> QED  BY <4>3, <4>4, <4>5, <4>6, <3>2, <3>4, <3>6, <1>0 DEF SumsAhead
      <3>12. drain'.prefetch <= job.m /\ (~ReadsSums => drain'.prefetch = 0) /\ state' # "LOAD_WEIGHTS"
        BY <3>1, <3>4, <1>0
      <3>13. ~ReadsSums /\ ~job.accum => drain'.aRow = 0
        BY <3>10
      <3> QED  BY <3>2, <3>4, <3>9, <3>11, <3>12, <3>13, <2>1, <2>3, <1>0 DEF PsumInv
    <2>8. CASE TileOverlaps
      <3>1. /\ state = "WAIT_DRAIN" /\ state' = "COMPUTE" /\ ~TileStart /\ Overlap /\ ~Advance
            /\ PsumBuf /\ PsumBuf' /\ state \in Running
        BY <2>8, <1>0 DEF TileOverlaps, Overlap, PsumBuf, Running
      <3>2. ~ReadsSums /\ ~ReadsSums'
        BY <3>1 DEF ReadsSums
      <3>3. psum = <<>> /\ drain.read = None /\ drain.prefetch = 0 /\ ~got
        BY <3>1, <3>2, <2>4, <1>0 DEF PsumInv
      <3>4. psum' = <<>> /\ drain'.read = None /\ drain'.prefetch = 0 /\ drain'.aRow = 0
        BY <3>1, <3>3, <2>1, <2>2, <2>3
      <3>5. state' # "LOAD_WEIGHTS"
        BY <3>1
      <3> QED  BY <3>2, <3>4, <3>5, <1>0 DEF PsumInv
    <2>9. CASE TileAdvances
      <3>1. /\ state = "WAIT_DRAIN" /\ state' = "LOAD_WEIGHTS" /\ tile' = tile + 1 /\ Busy /\ ~Busy'
            /\ ~TileStart /\ ~Overlap /\ Advance /\ HasNext /\ state \in Running
        BY <2>9 DEF TileAdvances, Busy, Running
      <3>2. /\ ~PsumBuf /\ ThroughMemory(job) /\ drain.oRow = job.m /\ ~job.accum /\ Clean
        BY <2>9, AdvanceFacts DEF Clean
      <3>3. Taken = job.m
        BY <3>1, <1>2, StillFacts
      <3>4. psum = <<>> /\ drain.read = None /\ drain.prefetch = 0
        <4>1. CASE ~ReadsSums
          BY <4>1, <3>1, <1>0 DEF PsumInv
        <4>2. CASE ReadsSums
          <5>1. SumsAhead
            BY <4>2, <3>1, <3>2, <1>0 DEF PsumInv
          <5>2. /\ drain.aRow = job.m + Len(psum) + One(drain.read)
                /\ drain.aRow + drain.prefetch = job.m
            BY <5>1, <3>1, <3>2, <3>3 DEF SumsAhead, SumsBase
          <5>3. \A a, b, c, x \in Nat : \A n \in Int :
                  a = n + b + c /\ a + x = n => b = 0 /\ c = 0 /\ x = 0
            OBVIOUS
          <5>4. One(drain.read) \in Nat /\ drain.prefetch \in Nat /\ job.m \in Int
            BY <2>3, <2>5, <1>0
          <5>5. Len(psum) = 0 /\ One(drain.read) = 0 /\ drain.prefetch = 0
            BY ONLY <5>2, <5>3, <5>4, <2>3, <2>5
          <5> QED  BY <5>5, <2>3, <1>0 DEF PsumInv
        <4> QED  BY <4>1, <4>2
      <3>5. ~got
        BY <3>4, <2>4
      <3>6. psum' = <<>> /\ drain'.read = None /\ drain'.prefetch = 0 /\ drain'.aRow = 0
        <4>1. PsumFifo = <<>>
          BY <3>4 DEF PsumFifo, Push
        <4> QED  BY <4>1, <3>1, <3>4, <3>5, <2>1, <2>2
      <3>7. ReadsSums'
        <4>1. tile' # 0
          BY <3>1, <1>0
        <4> QED  BY <4>1, <3>2, <1>0 DEF ReadsSums, AccumActive, PsumBuf
      <3>8. SumsAhead'
        <4>1. SumsBase' = 0
          BY <3>1 DEF SumsBase
        <4>2. \A r \in 0 .. (job.m - 1) : mem'["psum"][r] = SumsOf(r)'
          <5>1. \A r \in 0 .. (job.m - 1) : r \in OutRows /\ r < drain.oRow
            BY <3>2, <1>0 DEF OutRows
          <5>2. \A r \in 0 .. (job.m - 1) : mem["psum"][r] = UpTo(r, tile + 1)
            BY <5>1, <3>1, <3>2, <1>0 DEF MemInv
          <5>3. \A r : SumsOf(r)' = UpTo(r, tile + 1)
            BY <3>1, <3>2, <1>0 DEF SumsOf, UpTo
          <5> QED  BY <5>2, <5>3, <2>1
        <4>3. drain'.aRow = 0 + Len(psum') + One(drain'.read) /\ Len(psum') = 0
          <5>1. One(drain'.read) = 0 /\ Len(psum') = 0
            BY <3>6 DEF One
          <5> QED  BY <5>1, <3>6
        <4> QED  BY <4>1, <4>2, <4>3, <3>1, <3>6, <1>0 DEF SumsAhead
      <3>9. drain'.prefetch <= job.m
        BY <3>6, <1>0
      <3> QED  BY <3>6, <3>7, <3>8, <3>9, <1>0 DEF PsumInv
    <2>10. CASE JobFinishes
      <3>1. /\ state' \notin Running /\ state' # "LOAD_WEIGHTS" /\ ~TileStart /\ ~Overlap /\ ~Advance
        BY <2>10 DEF JobFinishes, Running
      <3>2. drain'.read # None => Len(psum') < OfmDepth
        BY <3>1, <2>1, <2>2, <2>4
      <3> QED  BY <3>1, <3>2, <2>1, <2>3 DEF PsumInv
    <2> QED  BY <2>6, <2>7, <2>8, <2>9, <2>10, <1>2 DEF Still
  <1> QED  BY <1>0, <1>1, <1>2, StillOrGoing
\* The memories after an edge that changes neither them nor what the drain has written.
LEMMA MemKept ==
    ASSUME SeqInv, MemInv, UNCHANGED <<job, mem, buf>>,
           state \in Running, state' \in Running \cup {"DONE"},
           drain.oRow \in Nat, drain'.oRow \in Nat,
           \/ HasNext /\ drain'.oRow = 0
           \/ (HasNext' <=> HasNext) /\ tile' = tile /\ drain'.oRow = drain.oRow,
           PsumBuf /\ state' = "LOAD_WEIGHTS" => tile' = 0,
           PsumBuf /\ Busy' => \A r \in 0 .. (job.m - 1) :
               IF HasNext' /\ r < drain'.pushRow THEN buf[r] = UpTo(r, tile' + 1)
               ELSE tile' # 0 => buf[r] = UpTo(r, tile')
    PROVE  MemInv'
  <1>0. /\ (Clean' <=> Clean) /\ (PsumBuf' <=> PsumBuf)
        /\ (ThroughMemory(job)' <=> ThroughMemory(job)) /\ \A r \in OutRows : r \in Nat
    BY DEF Clean, PsumBuf, OutRows
  <1>1. /\ mem' \in [{"ofm", "psum"} -> [OutRows -> Sums \cup {None}]] /\ buf' \in [OutRows -> Sums]
    BY DEF MemInv
  <1>2. \A r \in OutRows : mem'["ofm"][r] # None <=> ~HasNext' /\ r < drain'.oRow
    <2>1. \A r \in OutRows : mem["ofm"][r] # None <=> ~HasNext /\ r < drain.oRow
      BY DEF MemInv
    <2>2. CASE HasNext /\ drain'.oRow = 0
      BY <1>0, <2>1, <2>2
    <2>3. CASE (HasNext' <=> HasNext) /\ tile' = tile /\ drain'.oRow = drain.oRow
      BY <2>1, <2>3
    <2> QED  BY <2>2, <2>3
  <1>3. ASSUME Clean', ~HasNext', NEW r \in OutRows, r < drain'.oRow
        PROVE  mem'["ofm"][r] = Matrix!Product(job', r)
    <2>1. drain'.oRow # 0 /\ ~HasNext /\ drain'.oRow = drain.oRow
      BY <1>0, <1>3
    <2> QED  BY <2>1, <1>0, <1>3 DEF MemInv
  <1>4. ASSUME Clean', state' \in Running, ThroughMemory(job)', HasNext',
               NEW r \in OutRows, r < drain'.oRow
        PROVE  mem'["psum"][r] = UpTo(r, tile' + 1)
    <2>1. drain'.oRow # 0 /\ HasNext /\ drain'.oRow = drain.oRow /\ tile' = tile
      BY <1>0, <1>4
    <2> QED  BY <2>1, <1>0, <1>4 DEF MemInv
  <1>5. /\ PsumBuf' /\ state' = "LOAD_WEIGHTS" => tile' = 0
        /\ PsumBuf' /\ Busy' => \A r \in 0 .. (job'.m - 1) :
               IF HasNext' /\ r < drain'.pushRow THEN buf'[r] = UpTo(r, tile' + 1)
               ELSE tile' # 0 => buf'[r] = UpTo(r, tile')
    BY <1>0
  <1> QED  BY <1>1, <1>2, <1>3, <1>4, <1>5 DEF MemInv, UpTo
LEMMA MemStep ==
    ASSUME OneTile, IInv, state \in Running, UNCHANGED job, NEW granted \in BOOLEAN,
           NEW ready \in BOOLEAN, Sequencer(ready), MoveData(granted), Drain(granted), RowsInv'
    PROVE  MemInv'
  <1>0. /\ SeqInv /\ PipeInv /\ OfmInv /\ RowsInv /\ RqInv /\ InputInv /\ PsumInv /\ MemInv
        /\ job' = job /\ job.m \in 1 .. MaxM /\ MaxM \in Nat \ {0} /\ job.tiles \in Nat
        /\ job.accum \in BOOLEAN /\ tile \in 0 .. (job.tiles - 1) /\ job \in Jobs
        /\ drain.oRow \in Nat /\ drain'.oRow \in Nat /\ drain.pushRow \in Nat
    BY JobFacts DEF IInv, SeqInv, RowsInv
  <1>1. CASE Going
    <2>1. /\ Busy /\ Busy' /\ tile' = tile /\ state' \in Running /\ state' # "LOAD_WEIGHTS"
          /\ ~TileStart /\ ~Overlap /\ ~Advance
      BY <1>1 DEF Going, Busy
    <2>2. (HasNext' <=> HasNext) /\ (PsumBuf' <=> PsumBuf)
      BY <2>1, <1>0 DEF HasNext, PsumBuf
    <2>3. drain'.pushRow = IF Pushed THEN drain.pushRow + 1 ELSE drain.pushRow
      BY <2>1, <1>0, DrainFields, ServedFields
    <2>4. CASE PsumBuf /\ HasNext
      <3>1. /\ mem' = mem /\ (ToBuffer <=> Pushed) /\ ~Writes
            /\ Pushed => Taken = drain.pushRow /\ drain.pushRow \in 0 .. (job.m - 1)
            /\ buf' = IF Pushed THEN [buf EXCEPT ![drain.pushRow] = Sum] ELSE buf
        BY <2>1, <2>4, <1>0, BufferService
      <3>2. drain'.oRow = drain.oRow
        BY <3>1, <2>1, <1>0, DrainFields, ServedFields
      <3>3. Clean /\ ~job.accum
        BY <2>4, <1>0 DEF OneTile, PsumBuf, Buffered, Clean
      <3>4. Pushed => Sum \in Sums /\ Sum = UpTo(drain.pushRow, tile + 1)
        <4>1. ToBuffer => HeadReady
          BY DEF ToBuffer
        <4>2. Pushed => Sum \in Sums /\ Sum = SumAt(drain.pushRow)
          BY <4>1, <3>1, <3>3, <1>0, SumValue
        <4> QED  BY <4>2, <3>3 DEF SumAt
      <3>5. buf' \in [OutRows -> Sums]
        BY <3>1, <3>4, <1>0 DEF MemInv
      <3>6. \A r \in 0 .. (job.m - 1) :
              IF r < drain'.pushRow THEN buf'[r] = UpTo(r, tile + 1)
              ELSE tile # 0 => buf'[r] = UpTo(r, tile)
        <4>1. \A r \in 0 .. (job.m - 1) :
                IF r < drain.pushRow THEN buf[r] = UpTo(r, tile + 1)
                ELSE tile # 0 => buf[r] = UpTo(r, tile)
          BY <2>1, <2>4, <1>0 DEF MemInv
        <4>2. CASE Pushed
          <5>1. \A r \in 0 .. (job.m - 1) :
                  buf'[r] = IF r = drain.pushRow THEN UpTo(r, tile + 1) ELSE buf[r]
            <6>1. \A r \in 0 .. (job.m - 1) : r \in OutRows
              BY <1>0 DEF OutRows
            <6> QED  BY <6>1, <4>2, <3>1, <3>4, <1>0 DEF MemInv
          <5> QED  BY <5>1, <4>1, <4>2, <2>3, <1>0
        <4>3. CASE ~Pushed
          BY <4>1, <4>3, <3>1, <2>3
        <4> QED  BY <4>2, <4>3
      <3>7. ~ThroughMemory(job) /\ ~ThroughMemory(job)'
        BY <2>2, <2>4, <1>0 DEF ThroughMemory, PsumBuf
      <3>8. \A r : UpTo(r, tile + 1)' = UpTo(r, tile + 1) /\ UpTo(r, tile)' = UpTo(r, tile)
        BY <2>1 DEF UpTo
      <3> QED  BY <3>1, <3>2, <3>5, <3>6, <3>7, <3>8, <2>1, <2>2, <2>4, <1>0 DEF MemInv
    <2>5. CASE ~(PsumBuf /\ HasNext)
      <3> DEFINE out == Writes /\ granted
      <3>1. /\ buf' = buf
            /\ mem' = IF out THEN [mem EXCEPT ![drain.region][drain.oRow] = OutValue] ELSE mem
        BY <2>1, <2>5, <1>0, OutService
      <3>2. drain'.oRow = IF out THEN drain.oRow + 1 ELSE drain.oRow
        BY <2>5, <1>0, <1>1, GoingService
      <3>3. PsumBuf => \A r \in 0 .. (job.m - 1) : tile # 0 => buf[r] = UpTo(r, tile)
        BY <2>1, <2>5, <1>0 DEF MemInv
      <3>4. CASE ~out
        <4>1. mem' = mem /\ drain'.oRow = drain.oRow
          BY <3>1, <3>2, <3>4
        <4> QED  BY <4>1, <3>1, <3>3, <2>1, <2>2, <2>5, <1>0, MemKept
      <3>5. CASE out
        <4>1. /\ drain.oRow \in OutRows /\ OutValue \in Sums
              /\ drain.region = IF HasNext THEN "psum" ELSE "ofm"
              /\ Clean => OutValue = IF HasNext THEN UpTo(drain.oRow, tile + 1)
                                     ELSE Matrix!Product(job, drain.oRow)
          BY <3>5, <2>1, <2>5, <1>0, OutValueFacts
        <4>2. /\ mem' \in [{"ofm", "psum"} -> [OutRows -> Sums \cup {None}]]
              /\ \A r \in OutRows : mem'[drain.region][r] =
                   IF r = drain.oRow THEN OutValue ELSE mem[drain.region][r]
              /\ HasNext => mem'["ofm"] = mem["ofm"]
          BY <4>1, <3>1, <3>5, <1>0 DEF MemInv
        <4>3. drain'.oRow = drain.oRow + 1 /\ \A r \in OutRows : r \in Nat
          BY <3>2, <3>5 DEF OutRows
        <4>4. OutValue # None
          BY <4>1, ValuesAssumption
        <4>5. \A r \in OutRows : mem'["ofm"][r] # None <=> ~HasNext /\ r < drain'.oRow
          <5>1. \A r \in OutRows : mem["ofm"][r] # None <=> ~HasNext /\ r < drain.oRow
            BY <1>0 DEF MemInv
          <5>2. CASE HasNext
            BY <5>1, <5>2, <4>2
          <5>3. CASE ~HasNext
            <6>1. \A r \in OutRows : mem'["ofm"][r] = IF r = drain.oRow THEN OutValue ELSE mem["ofm"][r]
              BY <5>3, <4>1, <4>2
            <6> QED  BY <6>1, <5>1, <5>3, <4>1, <4>3, <4>4, <1>0
          <5> QED  BY <5>2, <5>3
        <4>6. ASSUME Clean, ~HasNext
              PROVE  \A r \in OutRows : r < drain'.oRow => mem'["ofm"][r] = Matrix!Product(job, r)
          <5>1. \A r \in OutRows : r < drain.oRow => mem["ofm"][r] = Matrix!Product(job, r)
            BY <4>6, <1>0 DEF MemInv
          <5>2. \A r \in OutRows : mem'["ofm"][r] = IF r = drain.oRow THEN Matrix!Product(job, r)
                                                    ELSE mem["ofm"][r]
            BY <4>6, <4>1, <4>2
          <5> QED  BY <5>1, <5>2, <4>3, <1>0
        <4>7. ASSUME Clean, ThroughMemory(job), HasNext
              PROVE  \A r \in OutRows : r < drain'.oRow => mem'["psum"][r] = UpTo(r, tile + 1)
          <5>1. \A r \in OutRows : r < drain.oRow => mem["psum"][r] = UpTo(r, tile + 1)
            BY <4>7, <2>1, <1>0 DEF MemInv
          <5>2. \A r \in OutRows : mem'["psum"][r] = IF r = drain.oRow THEN UpTo(r, tile + 1)
                                                     ELSE mem["psum"][r]
            BY <4>7, <4>1, <4>2
          <5> QED  BY <5>1, <5>2, <4>3, <1>0
        <4>8. /\ (Clean' <=> Clean) /\ (ThroughMemory(job)' <=> ThroughMemory(job))
              /\ \A r : UpTo(r, tile + 1)' = UpTo(r, tile + 1) /\ UpTo(r, tile)' = UpTo(r, tile)
          BY <2>1, <1>0 DEF Clean, UpTo
        <4>9. buf' \in [OutRows -> Sums]
          BY <3>1, <1>0 DEF MemInv
        <4>10. PsumBuf' /\ Busy' => \A r \in 0 .. (job'.m - 1) :
                 IF HasNext' /\ r < drain'.pushRow THEN buf'[r] = UpTo(r, tile + 1)'
                 ELSE tile' # 0 => buf'[r] = UpTo(r, tile)'
          BY <4>8, <3>1, <3>3, <2>1, <2>2, <2>5, <1>0
        <4> HIDE DEF out
        <4> QED  BY <4>2, <4>5, <4>6, <4>7, <4>8, <4>9, <4>10, <2>1, <2>2, <1>0 DEF MemInv
      <3> QED  BY <3>4, <3>5
    <2> QED  BY <2>4, <2>5
  <1>2. CASE Still
    <2> DEFINE d == Served(granted)
    <2>1. /\ mem' = mem /\ buf' = buf /\ d.pushRow = drain.pushRow /\ d.oRow = drain.oRow
      BY <1>2, StillService
    <2>2. /\ ~TileStart /\ ~Overlap /\ ~Advance => drain' = d
          /\ TileStart /\ ~Overlap /\ ~Advance => drain'.oRow = d.oRow /\ drain'.pushRow = 0
          /\ ~TileStart /\ (Overlap \/ Advance) => drain'.oRow = 0 /\ (Overlap => drain'.pushRow = 0)
      BY <1>0, DrainFields
    <2> HIDE DEF d
    <2>3. CASE LoadGoesOn
      <3>1. /\ state' = "LOAD_WEIGHTS" /\ state' \in Running /\ state = "LOAD_WEIGHTS" /\ ~Busy'
            /\ tile' = tile /\ drain' = d /\ (HasNext' <=> HasNext)
        BY <2>2, <2>3, <1>0 DEF LoadGoesOn, Running, Busy, HasNext
      <3>2. PsumBuf => tile = 0
        BY <3>1, <1>0 DEF MemInv
      <3> QED  BY <3>1, <3>2, <2>1, <1>0, MemKept
    <2>4. CASE TileBegins
      <3>1. /\ state' = "COMPUTE" /\ state' \in Running /\ state = "LOAD_WEIGHTS"
            /\ tile' = tile /\ drain'.oRow = drain.oRow /\ drain'.pushRow = 0 /\ (HasNext' <=> HasNext)
        BY <2>1, <2>2, <2>4, <1>0 DEF TileBegins, Running, HasNext
      <3>2. PsumBuf => tile = 0
        BY <3>1, <1>0 DEF MemInv
      <3> QED  BY <3>1, <3>2, <2>1, <1>0, MemKept
    <2>5. CASE TileOverlaps
      <3>1. /\ state' = "COMPUTE" /\ state' \in Running /\ state = "WAIT_DRAIN" /\ Busy
            /\ tile' = tile + 1 /\ drain'.oRow = 0 /\ drain'.pushRow = 0 /\ HasNext
        BY <2>2, <2>5 DEF TileOverlaps, Running, Busy
      <3>2. drain.pushRow = job.m
        BY <1>2, <3>1, StillFacts
      <3>3. PsumBuf => \A r \in 0 .. (job.m - 1) : buf[r] = UpTo(r, tile + 1)
        BY <3>1, <3>2, <1>0 DEF MemInv
      <3> QED  BY <3>1, <3>3, <2>1, <1>0, MemKept
    <2>6. CASE TileAdvances
      <3>1. /\ state' = "LOAD_WEIGHTS" /\ state' \in Running /\ drain'.oRow = 0 /\ HasNext
        BY <2>2, <2>6 DEF TileAdvances, Running
      <3>2. ~PsumBuf
        BY <2>6, AdvanceFacts
      <3> QED  BY <3>1, <3>2, <2>1, <1>0, MemKept
    <2>7. CASE JobFinishes
      <3>1. /\ state' = "DONE" /\ ~Busy' /\ tile' = tile /\ drain' = d /\ (HasNext' <=> HasNext)
        BY <2>2, <2>7, <1>0 DEF JobFinishes, Busy, HasNext
      <3> QED  BY <3>1, <2>1, <1>0, MemKept
    <2> QED  BY <2>3, <2>4, <2>5, <2>6, <2>7, <1>2 DEF Still
  <1> QED  BY <1>0, <1>1, <1>2, StillOrGoing
----
(* The invariant. *)

LEMMA ClockKeeps ==
    ASSUME OneTile, IInv, NEW weight \in BOOLEAN, NEW input \in BOOLEAN, NEW output \in BOOLEAN,
           Clock(weight, input, output)
    PROVE  IInv'
  <1>1. /\ SeqInv /\ WeightInv /\ InputInv /\ LineInv /\ PipeInv /\ OfmInv /\ RowsInv /\ RqInv
        /\ PsumInv /\ MemInv
    BY DEF IInv
  <1>2. /\ state \in Running /\ UNCHANGED job /\ (weight => WeightRequest)
        /\ (output => GrantAtStart \/ ~(ReadsPsum /\ TileStart))
        /\ Sequencer(input) /\ WeightEngine(weight) /\ InputEngine(input) /\ Prefetcher
        /\ LineBuffer(input) /\ MovePipe(input) /\ MoveWeights /\ MoveData(output) /\ Drain(output)
    BY DEF Clock
  <1>3. SeqInv'
    BY <1>1, <1>2, SeqStep
  <1>4. WeightInv'
    BY <1>1, <1>2, WeightStep
  <1>5. InputInv'
    BY <1>1, <1>2, InputStep
  <1>6. LineInv'
    BY <1>1, <1>2, <1>3, LineStep
  <1>7. PipeInv'
    BY <1>1, <1>2, PipeStep
  <1>8. OfmInv'
    BY <1>2, OfmStep
  <1>9. RowsInv'
    BY <1>2, RowsStep
  <1>10. RqInv'
    BY <1>2, RqStep
  <1>11. PsumInv'
    BY <1>2, PsumStep
  <1>12. MemInv'
    BY <1>2, <1>9, MemStep
  <1> QED  BY <1>3, <1>4, <1>5, <1>6, <1>7, <1>8, <1>9, <1>10, <1>11, <1>12 DEF IInv

\* No state is kept from one job to the next but that the pipelines are empty.
LEMMA StartKeeps ==
    ASSUME OneTile, IInv, NEW j \in Jobs, Start(j)
    PROVE  IInv'
  <1>0. /\ j \in Job /\ j.tiles \in Nat \ {0} /\ j.m \in 1 .. MaxM /\ MaxM \in Nat \ {0}
        /\ j.accum \in BOOLEAN /\ (j.accum => j.tiles = 1) /\ 0 \in Tiles
        /\ Dim \in Nat \ {0} /\ OfmDepth \in Nat \ {0} /\ InputDepth \in Nat \ {0}
        /\ RequantStages \in Nat \ {0} /\ Stages \in Nat \ {0}
    BY SystolicAssumption, StagesFact DEF Job, OneTile, Tiles
  <1>1. /\ SeqInv /\ WeightInv /\ InputInv /\ LineInv /\ PipeInv /\ OfmInv /\ RowsInv /\ RqInv
        /\ PsumInv /\ MemInv /\ state = "IDLE" /\ ~Busy
    BY DEF IInv, Start, Busy
  <1>2. /\ job' = j /\ state' = "LOAD_WEIGHTS" /\ flush' = 0 /\ tile' = 0
        /\ w' = [req |-> Dim, rsp |-> Dim, obi |-> 0, active |-> FALSE, done |-> FALSE,
                 tile |-> 0, fifo |-> <<>>, rdata |-> None]
        /\ inp' = [inp EXCEPT !.fifo = <<>>] /\ prefetchReq' = FALSE
        /\ drain' = [rows |-> j.m, pushRow |-> 0, region |-> IF ThroughMemory(j) THEN "psum" ELSE "ofm",
                     oRow |-> 0, aRow |-> 0, prefetch |-> IF j.accum THEN j.m ELSE 0,
                     read |-> None, sent |-> FALSE]
        /\ ofm' = <<>> /\ psum' = <<>> /\ held' = [r \in ArrayRows |-> None]
        /\ buf' = [r \in OutRows |-> {Garbled}]
        /\ mem' = [ofm |-> [r \in OutRows |-> None],
                   psum |-> [r \in OutRows |-> IF j.accum /\ r < j.m THEN {<<Psum, r>>} ELSE None]]
        /\ lb' = lb /\ pipe' = pipe /\ rq' = rq
    BY DEF Start
  <1>3. ~Busy' /\ state' \in Running
    BY <1>2 DEF Busy, Running
  <1>4. SeqInv'
    BY <1>0, <1>2, <1>3 DEF SeqInv
  <1>5. WeightInv'
    <2>1. Loading' /\ ~w'.active /\ w'.rdata = None
      BY <1>2 DEF Loading
    <2>2. Fetching(0)'
      <3>1. /\ w'.tile = 0 /\ w'.rsp = Dim /\ w'.req = Dim /\ One(w'.rdata) = 0 /\ w'.rdata = None
        BY <1>2 DEF One
      <3>2. w'.rsp = w'.req + One(w'.rdata) /\ w'.rsp >= 1
        BY <3>1, <1>0
      <3>3. \A r \in ArrayRows : ~(r < Dim - w'.rsp)
        BY <3>1, <1>0 DEF ArrayRows
      <3> QED  BY <3>1, <3>2, <3>3 DEF Fetching
    <2> QED  BY <2>1, <2>2, <1>0, <1>2 DEF WeightInv
  <1>6. InputInv'
    <2>1. inp.fifo = <<>> /\ inp.rdata = None
      BY <1>1 DEF InputInv
    <2>2. inp' = inp
      BY <2>1, <1>1, <1>2 DEF InputInv
    <2> QED  BY <2>1, <2>2, <1>1, <1>2 DEF InputInv
  <1>7. LineInv'
    BY <1>1, <1>2 DEF LineInv
  <1>8. PipeInv'
    <2>1. \A i \in 1 .. Stages : pipe'[i] = None
      BY <1>1, <1>2 DEF PipeInv
    <2> QED  BY <2>1, <1>1, <1>2, <1>3 DEF PipeInv
  <1>9. OfmInv'
    BY <1>0, <1>2, <1>3 DEF OfmInv
  <1>10. RowsInv'
    BY <1>0, <1>2, <1>3 DEF RowsInv, ThroughMemory, HasNext
  <1>11. RqInv'
    BY <1>1, <1>2, <1>3 DEF RqInv
  <1>12. (ReadsSums' <=> j.accum) /\ drain'.prefetch <= j.m
    BY <1>0, <1>2 DEF ReadsSums, PsumBuf, Buffered, AccumActive
  <1>13. PsumInv'
    <2>1. ASSUME j.accum PROVE SumsAhead'
      <3>1. SumsBase' = 0
        BY <1>3 DEF SumsBase
      <3>2. \A r \in 0 .. (j.m - 1) : mem'["psum"][r] = {<<Psum, r>>}
        <4>1. \A r \in 0 .. (j.m - 1) : r \in OutRows /\ r < j.m
          BY <1>0 DEF OutRows
        <4> QED  BY <4>1, <2>1, <1>2
      <3> QED  BY <3>1, <3>2, <2>1, <1>0, <1>2, <1>3 DEF SumsAhead, One, SumsOf
    <2>2. psum' \in Seq(Sums) /\ Len(psum') <= OfmDepth
      BY <1>0, <1>2
    <2> QED  BY <2>1, <2>2, <1>0, <1>2, <1>12 DEF PsumInv
  <1>14. MemInv'
    <2>1. \A r \in OutRows : {<<Psum, r>>} \in Sums /\ {Garbled} \in Sums
      BY DEF Sums
    <2>2. /\ mem' \in [{"ofm", "psum"} -> [OutRows -> Sums \cup {None}]] /\ buf' \in [OutRows -> Sums]
      <3> DEFINE o == [r \in OutRows |-> None]
                 p == [r \in OutRows |-> IF j.accum /\ r < j.m THEN {<<Psum, r>>} ELSE None]
      <3>1. o \in [OutRows -> Sums \cup {None}] /\ p \in [OutRows -> Sums \cup {None}]
        BY <2>1
      <3>2. mem' = [ofm |-> o, psum |-> p]
        BY <1>2
      <3> HIDE DEF o, p
      <3>3. mem' \in [{"ofm", "psum"} -> [OutRows -> Sums \cup {None}]]
        BY <3>1, <3>2
      <3>4. buf' \in [OutRows -> Sums]
        BY <2>1, <1>2
      <3> QED  BY <3>3, <3>4
    <2>3. \A r \in OutRows : mem'["ofm"][r] = None /\ ~(r < drain'.oRow)
      BY <1>2 DEF OutRows
    <2> QED  BY <2>2, <2>3, <1>2, <1>3 DEF MemInv
  <1> QED  BY <1>4, <1>5, <1>6, <1>7, <1>8, <1>9, <1>10, <1>11, <1>13, <1>14 DEF IInv

LEMMA DoneKeeps ==
    ASSUME IInv, Done
    PROVE  IInv'
  <1>1. /\ SeqInv /\ WeightInv /\ InputInv /\ LineInv /\ PipeInv /\ OfmInv /\ RowsInv /\ RqInv
        /\ PsumInv /\ MemInv
    BY DEF IInv
  <1>2. /\ state = "DONE" /\ state' = "IDLE" /\ job' = job /\ flush' = flush /\ tile' = tile /\ w' = w
        /\ inp' = inp /\ prefetchReq' = prefetchReq /\ lb' = lb /\ held' = held /\ pipe' = pipe
        /\ drain' = drain /\ ofm' = ofm /\ psum' = psum /\ rq' = rq /\ buf' = buf /\ mem' = mem
    BY DEF Done
  <1>3. /\ ~Busy /\ ~Busy' /\ state' \notin Running /\ ~Loading /\ ~Loading'
    BY <1>2 DEF Busy, Running, Loading
  <1>4. SeqInv'
    BY <1>1, <1>2 DEF SeqInv
  <1>5. WeightInv'
    BY <1>1, <1>2, <1>3 DEF WeightInv
  <1>6. InputInv'
    BY <1>1, <1>2 DEF InputInv
  <1>7. LineInv'
    BY <1>1, <1>2 DEF LineInv
  <1>8. PipeInv'
    BY <1>1, <1>2, <1>3 DEF PipeInv, RowIs
  <1>9. OfmInv'
    BY <1>1, <1>2, <1>3 DEF OfmInv
  <1>10. RowsInv'
    BY <1>1, <1>2, <1>3 DEF RowsInv
  <1>11. RqInv'
    BY <1>1, <1>2, <1>3 DEF RqInv
  <1>12. PsumInv'
    BY <1>1, <1>2, <1>3 DEF PsumInv
  <1>13. MemInv'
    BY <1>1, <1>2, <1>3 DEF MemInv
  <1> QED  BY <1>4, <1>5, <1>6, <1>7, <1>8, <1>9, <1>10, <1>11, <1>12, <1>13 DEF IInv

LEMMA InitInv ==
    ASSUME Init
    PROVE  IInv
  <1>0. /\ job \in Job /\ job.tiles \in Nat \ {0} /\ job.m \in 1 .. MaxM /\ MaxM \in Nat \ {0}
        /\ 0 \in Tiles /\ 0 \in 0 .. (job.tiles - 1) /\ job \in Jobs
        /\ Dim \in Nat \ {0} /\ OfmDepth \in Nat \ {0} /\ InputDepth \in Nat \ {0}
        /\ RequantStages \in Nat \ {0} /\ Stages \in Nat \ {0}
    BY SystolicAssumption, StagesFact DEF Job, Tiles, Init
  <1> USE DEF Init
  <1>1. state = "IDLE" /\ ~Busy /\ state \notin Running /\ ~Loading
    BY DEF Busy, Running, Loading
  <1>2. SeqInv
    BY <1>0, <1>1 DEF SeqInv
  <1>3. WeightInv
    BY <1>0, <1>1 DEF WeightInv
  <1>4. InputInv
    BY <1>0, <1>1 DEF InputInv
  <1>5. LineInv
    <2>1. lb \in [tile : Nat, left : 0 .. MaxM, busy : BOOLEAN, filling : BOOLEAN, filled : BOOLEAN]
      BY <1>0
    <2>2. ~lb.busy /\ lb.left = 0 /\ ~lb.filling /\ prefetchReq \in BOOLEAN
      OBVIOUS
    <2> QED  BY <2>1, <2>2, <1>1 DEF LineInv
  <1>6. PipeInv
    BY <1>0, <1>1 DEF PipeInv
  <1>7. OfmInv
    BY <1>0, <1>1 DEF OfmInv
  <1>8. RowsInv
    BY <1>0, <1>1 DEF RowsInv
  <1>9. RqInv
    BY <1>0, <1>1 DEF RqInv
  <1>10. PsumInv
    BY <1>0, <1>1 DEF PsumInv
  <1>11. MemInv
    <2>1. {Garbled} \in Sums
      BY DEF Sums
    <2> QED  BY <2>1, <1>0, <1>1 DEF MemInv
  <1> QED  BY <1>2, <1>3, <1>4, <1>5, <1>6, <1>7, <1>8, <1>9, <1>10, <1>11 DEF IInv
LEMMA NextKeeps ==
    ASSUME OneTile, IInv, [Next]_vars
    PROVE  IInv'
  <1>1. CASE \E j \in Jobs : Start(j)
    BY <1>1, StartKeeps
  <1>2. CASE Tick
    BY <1>2, ClockKeeps DEF Tick
  <1>3. CASE Done
    BY <1>3, DoneKeeps
  <1>4. CASE UNCHANGED vars
    <2> USE <1>4 DEF vars
    <2>1. (Busy' <=> Busy) /\ (HasNext' <=> HasNext) /\ (PsumBuf' <=> PsumBuf) /\ (Clean' <=> Clean)
      BY DEF Busy, HasNext, PsumBuf, Clean
    <2>2. Fed' = Fed /\ Taken' = Taken /\ ToFeed' = ToFeed /\ PipeRow' = PipeRow
      BY DEF Fed, Taken, ToFeed, PipeRow
    <2>3. SeqInv' /\ WeightInv' /\ InputInv' /\ LineInv'
      BY <2>1, <2>2 DEF IInv, SeqInv, WeightInv, InputInv, LineInv, HasNext, Loading, Fetching, Holds,
                        RowIs, LbWaits
    <2>4. PipeInv' /\ OfmInv' /\ RowsInv'
      BY <2>1, <2>2 DEF IInv, PipeInv, OfmInv, RowsInv, RowIs
    <2>5. RqInv'
      BY <2>1, <2>2 DEF IInv, RqInv, RqRows, RequantActive
    <2>6. PsumInv'
      BY <2>1, <2>2 DEF IInv, PsumInv, ReadsSums, AccumActive, SumsAhead, SumsBase, SumsOf
    <2>7. MemInv'
      BY <2>1, <2>2 DEF IInv, MemInv
    <2> QED  BY <2>3, <2>4, <2>5, <2>6, <2>7 DEF IInv
  <1> QED  BY <1>1, <1>2, <1>3, <1>4 DEF Next

\* The invariant holds in every state of a job sequence.
THEOREM Invariance ==
    OneTile => (Spec => []IInv)
  <1> SUFFICES ASSUME OneTile PROVE Spec => []IInv
    OBVIOUS
  <1>1. Init => IInv
    BY InitInv
  <1>2. IInv /\ [Next]_vars => IInv'
    BY NextKeeps
  <1> QED  BY <1>1, <1>2, PTL DEF Spec

\* No counter of requests, responses or rows goes below zero or past its register, and no FIFO holds
\* more than its depth (systolic_weight_engine.sv, systolic_input_engine.sv,
\* systolic_output_drain.sv).
THEOREM TypeCorrect ==
    OneTile => (Spec => []TypeOK)
  <1> SUFFICES ASSUME OneTile PROVE Spec => []TypeOK
    OBVIOUS
  <1>1. IInv => TypeOK
    <2> SUFFICES ASSUME IInv PROVE TypeOK
      OBVIOUS
    <2>1. /\ SeqInv /\ WeightInv /\ InputInv /\ LineInv /\ OfmInv /\ RowsInv /\ PsumInv
          /\ MaxM \in Nat /\ InputDepth \in Nat
      BY SystolicAssumption DEF IInv
    <2>2. /\ job \in Jobs /\ state \in Running \cup {"IDLE", "DONE"}
          /\ flush \in 0 .. Stages /\ tile \in 0 .. (job.tiles - 1)
      BY <2>1 DEF SeqInv
    <2>3. /\ w.req \in 0 .. Dim /\ w.rsp \in 0 .. Dim /\ w.obi \in 0 .. Dim
          /\ w.active \in BOOLEAN /\ w.done \in BOOLEAN /\ Len(w.fifo) <= InputDepth
      BY <2>1 DEF WeightInv
    <2>4. /\ inp.req \in 0 .. MaxM /\ inp.rsp \in 0 .. MaxM /\ Len(inp.fifo) <= InputDepth
      BY <2>1 DEF InputInv
    <2>5. (lb.busy => lb.tile < job.tiles) /\ lb.left \in 0 .. MaxM
      BY <2>1 DEF LineInv
    <2>6. /\ drain.rows \in 0 .. (2 * MaxM) /\ drain.prefetch \in 0 .. MaxM
          /\ drain.pushRow \in 0 .. MaxM /\ drain.oRow \in 0 .. MaxM
      BY <2>1 DEF RowsInv
    <2>7. Len(ofm) <= OfmDepth /\ Len(psum) <= OfmDepth
      BY <2>1 DEF OfmInv, PsumInv
    <2> QED  BY <2>2, <2>3, <2>4, <2>5, <2>6, <2>7 DEF TypeOK
  <1>2. Spec => []IInv
    BY Invariance
  <1> QED  BY <1>1, <1>2, PTL

\* Weights move into the array only while no vector is in it
\* (systolic_job_sequencer.sv weight_preload_allow_o).
THEOREM WeightsSafe ==
    OneTile => (Spec => []WeightsFindArrayEmpty)
  <1> SUFFICES ASSUME OneTile PROVE Spec => []WeightsFindArrayEmpty
    OBVIOUS
  <1>1. IInv => WeightsFindArrayEmpty
    BY WeightFacts DEF IInv, WeightsFindArrayEmpty
  <1>2. Spec => []IInv
    BY Invariance
  <1> QED  BY <1>1, <1>2, PTL

\* A response of the memory always finds room in its FIFO (the push conditions of the three FIFOs).
THEOREM RowsKept ==
    OneTile => (Spec => []NoRowDropped)
  <1> SUFFICES ASSUME OneTile PROVE Spec => []NoRowDropped
    OBVIOUS
  <1>1. ASSUME IInv, state \in Running PROVE NoRowDropped
    <2>1. SeqInv /\ WeightInv /\ PipeInv /\ InputInv /\ RowsInv /\ PsumInv
      BY <1>1 DEF IInv
    <2>2. w.rdata # None => Len(WeightFifo) > Len(w.fifo)
      BY <2>1, WeightFacts
    <2>3. inp.rdata # None => Len(InputFifo) > Len(inp.fifo)
      <3>1. inp.rdata # None => Len(InputFifo) = Len(inp.fifo) + 1
        BY <2>1, InputFifoFacts DEF InputInv, One
      <3>2. Len(inp.fifo) \in Nat
        BY <2>1 DEF InputInv
      <3> QED  BY <3>1, <3>2
    <2>4. drain.read # None => Len(PsumFifo) > Len(psum)
      <3>1. drain.read # None => Len(PsumFifo) = Len(psum) + 1
        BY <2>1, PsumFifoFacts DEF One
      <3>2. Len(psum) \in Nat
        BY <2>1 DEF PsumInv
      <3> QED  BY <3>1, <3>2
    <2> QED  BY <2>2, <2>3, <2>4 DEF NoRowDropped
  <1>2. IInv => NoRowDropped
    BY <1>1 DEF NoRowDropped
  <1>3. Spec => []IInv
    BY Invariance
  <1> QED  BY <1>2, <1>3, PTL

\* The sequencer pulses linebuf_start and linebuf_next_tile only while the line buffer is in the state
\* that looks at them, and at the tile the sequencer means.
THEOREM PulsesTaken ==
    OneTile => (Spec => []PulseIsTaken)
  <1> SUFFICES ASSUME OneTile PROVE Spec => []PulseIsTaken
    OBVIOUS
  <1>1. ASSUME IInv, state \in Running PROVE PulseIsTaken
    <2>1. SeqInv /\ LineInv
      BY <1>1 DEF IInv
    <2>2. LbStart => ~lb.busy
      BY <2>1 DEF LbStart, TileStart, LineInv
    <2>3. ASSUME LbNext PROVE LbWaits /\ lb.tile = (IF Overlap THEN tile ELSE tile - 1)
      <3>1. CASE Overlap
        <4>1. state = "WAIT_DRAIN" /\ HasNext /\ ~lb.filling
          BY <3>1 DEF Overlap
        <4> QED  BY <3>1, <4>1, <2>1 DEF LineInv, LbWaits
      <3>2. CASE ~Overlap
        <4>1. state = "LOAD_WEIGHTS" /\ tile # 0
          <5>1. TileStart /\ ~LbStart /\ job.linebuf
            BY <2>3, <3>2 DEF LbNext, FeedStarts
          <5>2. state = "LOAD_WEIGHTS" /\ (w.done \/ tile # 0)
            BY <5>1 DEF LbStart, TileStart
          <5> QED  BY <5>2, <2>1 DEF SeqInv
        <4> QED  BY <3>2, <4>1, <2>1 DEF LineInv
      <3> QED  BY <3>1, <3>2
    <2> QED  BY <2>2, <2>3 DEF PulseIsTaken
  <1>2. IInv => PulseIsTaken
    BY <1>1 DEF PulseIsTaken
  <1>3. Spec => []IInv
    BY Invariance
  <1> QED  BY <1>2, <1>3, PTL
\* The job does what MatrixJob promises: a row of the output is written once, with all its
\* contributions, and the job is done only when every row is written.
THEOREM RefinesMatrixJob ==
    OneTile /\ Sound => (Spec => ImplementsMatrixJob)
  <1> SUFFICES ASSUME OneTile, Sound PROVE Spec => ImplementsMatrixJob
    OBVIOUS
  <1>1. Init => Matrix!Init
    BY DEF Init, Matrix!Init, OutRows, Matrix!OutRows
  <1>2. IInv /\ IInv' /\ [Next]_vars => [Matrix!Next]_(Matrix!vars)
    <2> SUFFICES ASSUME IInv, IInv', [Next]_vars
                 PROVE  Matrix!Next \/ UNCHANGED Matrix!vars
      OBVIOUS
    <2>0. /\ SeqInv /\ PipeInv /\ OfmInv /\ RowsInv /\ RqInv /\ InputInv /\ PsumInv /\ MemInv
          /\ Clean /\ job \in Jobs /\ job.m \in 1 .. MaxM /\ MaxM \in Nat
      BY JobFacts DEF IInv, SeqInv, Sound, Clean
    <2>1. CASE \E j \in Jobs : Start(j)
      <3>1. PICK j \in Jobs : Start(j)
        BY <2>1
      <3>2. /\ state = "IDLE" /\ state' # "IDLE" /\ job' = j
            /\ mem'["ofm"] = [r \in OutRows |-> None]
        BY <3>1 DEF Start
      <3>3. Matrix!Start(j)
        BY <3>2 DEF Matrix!Start, OutRows, Matrix!OutRows
      <3> QED  BY <3>3 DEF Matrix!Next
    <2>2. CASE Tick
      <3>1. PICK weight \in BOOLEAN, input \in BOOLEAN, output \in BOOLEAN : Clock(weight, input, output)
        BY <2>2 DEF Tick
      <3>2. /\ state \in Running /\ job' = job /\ Sequencer(input) /\ MoveData(output)
        BY <3>1 DEF Clock
      <3>3. Still \/ Going
        BY <3>2, <2>0, StillOrGoing
      <3>4. state # "IDLE" /\ state' # "IDLE"
        BY <3>2, <3>3 DEF Still, Going, LoadGoesOn, TileBegins, TileOverlaps, TileAdvances,
                          JobFinishes, Running
      <3>5. CASE mem'["ofm"] = mem["ofm"]
        BY <3>2, <3>4, <3>5 DEF Matrix!vars
      <3>6. CASE mem'["ofm"] # mem["ofm"]
        <4>1. Going
          BY <3>2, <3>3, <3>6, StillService
        <4>2. Busy /\ ~(PsumBuf /\ HasNext)
          BY <4>1, <3>2, <3>6, <2>0, BufferService DEF Going
        <4>3. mem' = IF Writes /\ output
                     THEN [mem EXCEPT ![drain.region][drain.oRow] = OutValue] ELSE mem
          BY <4>2, <3>2, <2>0, OutService
        <4>4. Writes
          BY <4>3, <3>6
        <4>5. /\ drain.oRow \in 0 .. (job.m - 1) /\ drain.oRow \in OutRows
              /\ drain.region = IF HasNext THEN "psum" ELSE "ofm"
              /\ OutValue = IF HasNext THEN UpTo(drain.oRow, tile + 1)
                            ELSE Matrix!Product(job, drain.oRow)
          BY <4>2, <4>4, <2>0, OutValueFacts
        <4>6. mem \in [{"ofm", "psum"} -> [OutRows -> Sums \cup {None}]]
          BY <2>0 DEF MemInv
        <4>7. ~HasNext
          BY <4>3, <4>5, <4>6, <3>6
        <4>8. mem'["ofm"] = [mem["ofm"] EXCEPT ![drain.oRow] = Matrix!Product(job, drain.oRow)]
          BY <4>3, <4>5, <4>6, <4>7, <3>6
        <4>9. mem["ofm"][drain.oRow] = None
          BY <4>5, <3>2, <2>0 DEF MemInv, OutRows
        <4>10. Matrix!Write(drain.oRow)
          BY <4>5, <4>8, <4>9, <3>2, <3>4, <2>0 DEF Matrix!Write
        <4> QED  BY <4>5, <4>10 DEF Matrix!Next, OutRows, Matrix!OutRows
      <3> QED  BY <3>5, <3>6
    <2>3. CASE Done
      <3>1. state = "DONE" /\ state' = "IDLE" /\ job' = job /\ mem' = mem
        BY <2>3 DEF Done
      <3>2. ~HasNext /\ drain.oRow = job.m
        BY <3>1, <2>0 DEF SeqInv, RowsInv
      <3>3. \A r \in 0 .. (job.m - 1) : mem["ofm"][r] # None
        <4>1. \A r \in 0 .. (job.m - 1) : r \in OutRows /\ r < drain.oRow
          BY <3>2, <2>0 DEF OutRows
        <4> QED  BY <4>1, <3>1, <3>2, <2>0 DEF MemInv
      <3>4. Matrix!Finish
        BY <3>1, <3>3 DEF Matrix!Finish
      <3> QED  BY <3>4 DEF Matrix!Next
    <2>4. CASE UNCHANGED vars
      BY <2>4 DEF vars, Matrix!vars
    <2> QED  BY <2>1, <2>2, <2>3, <2>4 DEF Next
  <1>3. Spec => []IInv
    BY Invariance
  <1> QED  BY <1>1, <1>2, <1>3, PTL DEF Spec, ImplementsMatrixJob, Matrix!Spec
====
