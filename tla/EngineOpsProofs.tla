---- MODULE EngineOpsProofs ----
(***************************************************************************)
(* Theorems about EngineOps: whatever the commands, the core starts the    *)
(* array only when it is idle, leaves behind what the next command         *)
(* expects, and changes neither the window under a job that reads it nor   *)
(* the parameters taken for loaded; and of the commands whose jobs end     *)
(* (Scheduled, SumsInTime) none polls for a DONE that does not come.       *)
(*                                                                         *)
(* A program is a sequence of steps as long as its data; what matters of   *)
(* it is the phase it leads the engines to from the phase it starts in     *)
(* (Turns).  There is a lemma for each call of the HAL and the library and *)
(* for each operation; the invariant is that what is left of the program   *)
(* leads from where the engines are to where a command may leave them.     *)
(***************************************************************************)
EXTENDS EngineOps, SequenceTheorems, FiniteSetTheorems, WellFoundedInduction, TLAPS

----
(* What the steps of an operation do to the array. *)

\* The array is free, or runs a job; "ready" and "own": the weights of the next or running job are in the
\* TCDM; "tap" and "tapbusy": the depthwise tap is set; "tiles": the line buffer may be set to several
\* k-tiles, and "sure" and "surebusy": it may, but the job of the registers ends.  Also: whether a submitted
\* job is due, and whether the AFU has been started and not yet polled.
Phases == [array : {"free", "busy", "ready", "own", "tap", "tapbusy", "tiles", "sure", "surebusy"},
           due : BOOLEAN, afu : BOOLEAN]
Phase(array, due) == [array |-> array, due |-> due, afu |-> FALSE]

\* Registers that neither set the tap nor replace the parameters.
Tame(r) == ("lb" \in DOMAIN r => r.lb.mode # "depthwise") /\ "table" \notin DOMAIN r

\* Nor do these set several k-tiles.
Harmless(r) == Tame(r) /\ ("lb" \in DOMAIN r => ~SeveralTiles(r.lb))

\* These make the next job one that does not add over several k-tiles, or its sums are read in time.
Fits(r) == \/ SumsInTime
           \/ "accum" \in DOMAIN r /\ ~r.accum
           \/ "lb" \in DOMAIN r /\ ~SeveralTiles(r.lb)

SetTakes(r, p, q) ==
    \/ p.array \in {"free", "busy"} /\ Harmless(r) /\ q = p
    \/ /\ p.array = "free" /\ q = Phase("ready", p.due)
       /\ Tame(r) /\ Fits(r) /\ "w" \in DOMAIN r /\ r.w[1] = "tcdm"
    \/ p.array \in {"free", "tiles"} /\ Tame(r) /\ q = Phase("tiles", p.due)
    \/ p.array \in {"free", "tiles", "sure"} /\ Tame(r) /\ Fits(r) /\ q = Phase("sure", p.due)
    \/ p.array = "surebusy" /\ Tame(r) /\ Fits(r) /\ q = p
    \/ p.array = "sure" /\ "lb" \in DOMAIN r /\ Harmless(r) /\ q = Phase("free", p.due)
    \/ /\ p.array = "free" /\ q = Phase("tap", p.due)
       /\ {"lb", "rq"} \subseteq DOMAIN r /\ r.rq = TRUE /\ "table" \notin DOMAIN r /\ ~SeveralTiles(r.lb)
    \/ p.array \in {"tap", "tapbusy"} /\ DOMAIN r \cap {"lb", "rq", "table"} = {} /\ q = p
    \/ p.array = "tap" /\ "lb" \in DOMAIN r /\ Harmless(r) /\ q = Phase("free", p.due)

IsSequence(s) == \E T : s \in Seq(T)

Still(s) == IsSequence(s) /\ \A i \in 1 .. Len(s) : s[i].op = "vector"

Quiet == {"check", "afu_set", "lut", "vector"}

Moves(op, p, q) ==
    \/ op.op \in Quiet /\ q = p
    \/ op.op = "stage" /\ p.array \in {"free", "own"} /\ q = p
    \/ op.op = "set" /\ SetTakes(op.r, p, q)
    \/ op.op = "start" /\ p.array = "free" /\ q = Phase("busy", p.due)
    \/ op.op = "start" /\ p.array = "ready" /\ q = Phase("own", p.due)
    \/ op.op = "start" /\ p.array = "tap" /\ q = Phase("tapbusy", p.due)
    \/ op.op = "start" /\ p.array = "sure" /\ q = Phase("surebusy", p.due)
    \/ op.op = "wait" /\ p.array = "busy" /\ q = Phase("free", p.due)
    \/ op.op = "wait" /\ p.array \in {"own", "surebusy"} /\ q = Phase("sure", p.due)
    \/ op.op = "wait" /\ p.array = "tapbusy" /\ q = Phase("tap", p.due)
    \/ op.op = "submitted" /\ q = Phase(p.array, op.command # None)
    \/ op.op = "fetch" /\ Still(op.fallback) /\ q = p

\* The step op of the core leads from phase p to phase q.  Once the AFU is started the core polls it.
Takes(op, p, q) ==
    \/ ~p.afu /\ Moves(op, p, q)
    \/ op.op = "go" /\ ~p.afu /\ q = [p EXCEPT !.afu = TRUE]
    \/ op.op = "poll" /\ p.afu /\ q = [p EXCEPT !.afu = FALSE]
    \/ op.op = "reject"

\* The steps s lead from phase p to phase q.
Turns(s, p, q) ==
    /\ IsSequence(s)
    /\ \E ph \in [0 .. Len(s) -> Phases] :
          /\ ph[0] = p /\ ph[Len(s)] = q
          /\ \A i \in 1 .. Len(s) : Takes(s[i], ph[i - 1], ph[i])

\* Sequences one after the other.
LEMMA Joined ==
    ASSUME NEW s, NEW t, IsSequence(s), IsSequence(t)
    PROVE  /\ IsSequence(s \o t) /\ Len(s \o t) = Len(s) + Len(t)
           /\ Len(s) \in Nat /\ Len(t) \in Nat
           /\ \A i \in 1 .. Len(s) : (s \o t)[i] = s[i]
           /\ \A i \in 1 .. Len(t) : (s \o t)[Len(s) + i] = t[i]
  <1>1. PICK S : s \in Seq(S)
    BY DEF IsSequence
  <1>2. PICK T : t \in Seq(T)
    BY DEF IsSequence
  <1>3. s \in Seq(S \cup T) /\ t \in Seq(S \cup T)
    BY <1>1, <1>2
  <1>4. s \o t \in Seq(S \cup T)
    BY <1>3
  <1>5. IsSequence(s \o t)
    BY <1>4 DEF IsSequence
  <1> QED  BY <1>3, <1>5

LEMMA TurnsJoin ==
    ASSUME NEW s, NEW t, NEW p, NEW q, NEW r, Turns(s, p, q), Turns(t, q, r)
    PROVE  Turns(s \o t, p, r)
  <1>1. PICK f \in [0 .. Len(s) -> Phases] :
          /\ f[0] = p /\ f[Len(s)] = q
          /\ \A i \in 1 .. Len(s) : Takes(s[i], f[i - 1], f[i])
    BY DEF Turns
  <1>2. PICK g \in [0 .. Len(t) -> Phases] :
          /\ g[0] = q /\ g[Len(t)] = r
          /\ \A i \in 1 .. Len(t) : Takes(t[i], g[i - 1], g[i])
    BY DEF Turns
  <1> DEFINE m == Len(s)
             n == Len(t)
             u == s \o t
             h == [i \in 0 .. (m + n) |-> IF i <= m THEN f[i] ELSE g[i - m]]
  <1>3. /\ IsSequence(u) /\ Len(u) = m + n /\ m \in Nat /\ n \in Nat
        /\ \A i \in 1 .. m : u[i] = s[i]
        /\ \A i \in 1 .. n : u[m + i] = t[i]
    BY Joined DEF Turns
  <1> HIDE DEF m, n, u
  <1>4. f \in [0 .. m -> Phases] /\ g \in [0 .. n -> Phases]
    BY DEF m, n
  <1>5. h \in [0 .. (m + n) -> Phases]
    BY <1>3, <1>4
  <1>6. \A i \in 0 .. m : h[i] = f[i]
    BY <1>3
  <1>7. \A i \in 0 .. n : h[m + i] = g[i]
    <2> TAKE i \in 0 .. n
    <2>1. CASE i = 0
      <3>1. h[m] = f[m] /\ f[m] = q /\ g[0] = q /\ m + i = m
        BY <2>1, <1>1, <1>2, <1>3, <1>6 DEF m
      <3> QED  BY <2>1, <3>1
    <2>2. CASE i # 0
      BY <2>2, <1>3
    <2> QED  BY <2>1, <2>2
  <1> HIDE DEF h
  <1>8. h[0] = p /\ h[m + n] = r
    BY <1>1, <1>2, <1>3, <1>6, <1>7 DEF n
  <1>9. ASSUME NEW i \in 1 .. (m + n) PROVE Takes(u[i], h[i - 1], h[i])
    <2>1. CASE i <= m
      <3>1. i \in 1 .. m /\ i - 1 \in 0 .. m /\ i \in 0 .. m
        BY <2>1, <1>3
      <3>2. u[i] = s[i] /\ h[i] = f[i] /\ h[i - 1] = f[i - 1]
        BY <3>1, <1>3, <1>6
      <3> QED  BY <3>1, <3>2, <1>1 DEF m
    <2>2. CASE i > m
      <3>1. /\ i - m \in 1 .. n /\ i - m \in 0 .. n /\ (i - m) - 1 \in 0 .. n
            /\ m + (i - m) = i /\ m + ((i - m) - 1) = i - 1
        BY <2>2, <1>3
      <3>2. u[i] = t[i - m] /\ h[i] = g[i - m] /\ h[i - 1] = g[(i - m) - 1]
        BY <3>1, <1>3, <1>7
      <3> QED  BY <3>1, <3>2, <1>2 DEF n
    <2> QED  BY <2>1, <2>2, <1>3
  <1> QED  BY <1>3, <1>5, <1>8, <1>9 DEF Turns, u

LEMMA TurnsNone ==
    ASSUME NEW p \in Phases
    PROVE  Turns(<<>>, p, p)
  <1> DEFINE f == [i \in 0 .. 0 |-> p]
  <1>1. f \in [0 .. Len(<<>>) -> Phases] /\ f[0] = p /\ f[Len(<<>>)] = p
    OBVIOUS
  <1>2. IsSequence(<<>>)
    <2>1. <<>> \in Seq({})
      OBVIOUS
    <2> QED  BY <2>1 DEF IsSequence
  <1>3. \A i \in 1 .. Len(<<>>) : Takes(<<>>[i], f[i - 1], f[i])
    OBVIOUS
  <1> HIDE DEF f
  <1> QED  BY <1>1, <1>2, <1>3 DEF Turns

LEMMA TurnsOne ==
    ASSUME NEW op, NEW p \in Phases, NEW q \in Phases, Takes(op, p, q)
    PROVE  Turns(<<op>>, p, q)
  <1> DEFINE f == [i \in 0 .. 1 |-> IF i = 0 THEN p ELSE q]
             s == <<op>>
  <1>1. s \in Seq({op}) /\ Len(s) = 1 /\ s[1] = op
    OBVIOUS
  <1>2. f \in [0 .. 1 -> Phases] /\ f[0] = p /\ f[1] = q
    OBVIOUS
  <1> HIDE DEF f, s
  <1>3. \A i \in 1 .. 1 : Takes(s[i], f[i - 1], f[i])
    <2> TAKE i \in 1 .. 1
    <2>1. i = 1 /\ i - 1 = 0
      OBVIOUS
    <2> QED  BY <2>1, <1>1, <1>2
  <1>4. IsSequence(s)
    BY <1>1 DEF IsSequence
  <1>5. Turns(s, p, q)
    BY <1>1, <1>2, <1>3, <1>4 DEF Turns
  <1> QED  BY <1>5 DEF s

\* The first step, and the others.
LEMMA TurnsHead ==
    ASSUME NEW s, NEW p, NEW q, Turns(s, p, q), s # <<>>
    PROVE  \E r \in Phases : Takes(Head(s), p, r) /\ Turns(Tail(s), r, q)
  <1>1. PICK f \in [0 .. Len(s) -> Phases] :
          /\ f[0] = p /\ f[Len(s)] = q
          /\ \A i \in 1 .. Len(s) : Takes(s[i], f[i - 1], f[i])
    BY DEF Turns
  <1>2. PICK S : s \in Seq(S)
    BY DEF Turns, IsSequence
  <1> DEFINE n == Len(s)
             t == Tail(s)
             g == [i \in 0 .. (n - 1) |-> f[i + 1]]
  <1>3. /\ n \in Nat \ {0} /\ Head(s) = s[1] /\ t \in Seq(S) /\ Len(t) = n - 1
        /\ \A i \in 1 .. (n - 1) : t[i] = s[i + 1]
    BY <1>2
  <1>4. Takes(Head(s), p, f[1]) /\ f[1] \in Phases
    <2>1. 1 \in 1 .. n /\ 1 - 1 = 0 /\ 1 \in 0 .. n
      BY <1>3
    <2> QED  BY <2>1, <1>1, <1>3
  <1> HIDE DEF t, n
  <1>5. g \in [0 .. Len(t) -> Phases] /\ g[0] = f[1] /\ g[Len(t)] = q
    <2>1. f \in [0 .. n -> Phases] /\ f[n] = q
      BY <1>1 DEF n
    <2> QED  BY <2>1, <1>3
  <1>6. \A i \in 1 .. Len(t) : Takes(t[i], g[i - 1], g[i])
    <2> TAKE i \in 1 .. Len(t)
    <2>1. i + 1 \in 1 .. n /\ (i + 1) - 1 = i /\ i - 1 \in 0 .. (n - 1) /\ i \in 0 .. (n - 1)
          /\ (i - 1) + 1 = i
      BY <1>3
    <2>2. Takes(s[i + 1], f[(i + 1) - 1], f[i + 1])
      BY <2>1, <1>1 DEF n
    <2>3. t[i] = s[i + 1] /\ g[i - 1] = f[i] /\ g[i] = f[i + 1]
      BY <2>1, <1>3
    <2> HIDE DEF g
    <2> QED  BY <2>1, <2>2, <2>3
  <1> HIDE DEF g
  <1>7. Turns(t, f[1], q)
    BY <1>3, <1>5, <1>6 DEF Turns, IsSequence
  <1> QED  BY <1>4, <1>7 DEF t

\* Nothing to do changes nothing.
LEMMA TurnsEnd ==
    ASSUME NEW p, NEW q, Turns(<<>>, p, q)
    PROVE  p = q /\ p \in Phases
  BY DEF Turns

LEMMA TurnsStill ==
    ASSUME NEW s, Still(s), NEW p \in Phases, ~p.afu
    PROVE  Turns(s, p, p)
  <1> DEFINE f == [i \in 0 .. Len(s) |-> p]
  <1>1. Len(s) \in Nat
    BY DEF Still, IsSequence
  <1>2. f \in [0 .. Len(s) -> Phases] /\ f[0] = p /\ f[Len(s)] = p
    BY <1>1
  <1>3. \A i \in 1 .. Len(s) : f[i - 1] = p /\ f[i] = p
    BY <1>1
  <1> HIDE DEF f
  <1>4. \A i \in 1 .. Len(s) : Takes(s[i], f[i - 1], f[i])
    BY <1>3 DEF Still, Takes, Moves, Quiet
  <1> QED  BY <1>2, <1>4 DEF Turns, Still

----
(* Induction and recursion over the integers, with a set in the place of the predicate. *)

Less == {ss \in Nat \X Nat : ss[1] < ss[2]}

LEMMA LessWellFounded == IsWellFoundedOn(Less, Nat)
  BY NatLessThanWellFounded DEF OpToRel, Less

LEMMA Induction ==
    ASSUME NEW G, NEW n \in Nat, 0 \in G, \A k \in 0 .. (n - 1) : k \in G => k + 1 \in G
    PROVE  \A k \in 0 .. n : k \in G
  <1> DEFINE Bad == {k \in 0 .. n : k \notin G}
  <1>1. SUFFICES ASSUME Bad # {} PROVE FALSE
    OBVIOUS
  <1>2. PICK x \in Bad : \A y \in Bad : ~(<<y, x>> \in Less)
    <2>1. Bad \subseteq Nat
      OBVIOUS
    <2> HIDE DEF Bad
    <2> QED  BY <1>1, <2>1, WFMin, LessWellFounded
  <1>3. x \in 0 .. n /\ x \notin G /\ x # 0
    OBVIOUS
  <1>4. x - 1 \in 0 .. n /\ <<x - 1, x>> \in Less
    BY <1>3 DEF Less
  <1>5. x - 1 \in G
    BY <1>2, <1>4
  <1> QED  BY <1>3, <1>4, <1>5

Recurs(f, lo, hi, a, step) ==
    \A i \in lo .. hi : f[i] = IF i = lo THEN a ELSE step[<<i, f[i - 1]>>]

LEMMA Recursion ==
    ASSUME NEW S, NEW lo \in Int, NEW hi \in Int, lo <= hi, NEW a \in S,
           NEW step \in [(lo .. hi) \X S -> S]
    PROVE  \E f \in [lo .. hi -> S] : Recurs(f, lo, hi, a, step)
  <1> USE DEF Recurs
  <1> DEFINE Computes(k, f) == Recurs(f, lo, lo + k, a, step)
             n == hi - lo
             G == {k \in 0 .. n : \E f \in [lo .. (lo + k) -> S] : Computes(k, f)}
  <1>1. 0 \in G
    <2>1. [i \in lo .. lo |-> a] \in [lo .. (lo + 0) -> S] /\ Computes(0, [i \in lo .. lo |-> a])
      OBVIOUS
    <2>2. 0 \in 0 .. n
      OBVIOUS
    <2> HIDE DEF n, Computes
    <2> QED  BY <2>1, <2>2
  <1>2. ASSUME NEW k \in 0 .. (n - 1), k \in G PROVE k + 1 \in G
    <2>1. PICK f \in [lo .. (lo + k) -> S] : Computes(k, f)
      BY <1>2
    <2> DEFINE top == lo + (k + 1)
               g == [i \in lo .. top |-> IF i = top THEN step[<<top, f[lo + k]>>] ELSE f[i]]
    <2>2. top \in lo .. hi /\ top # lo /\ top - 1 = lo + k /\ f[lo + k] \in S
      OBVIOUS
    <2>3. step[<<top, f[lo + k]>>] \in S
      BY <2>2
    <2>4. g \in [lo .. top -> S]
      BY <2>2, <2>3
    <2>5. \A i \in lo .. (lo + k) : g[i] = f[i]
      OBVIOUS
    <2>6. g[top] = step[<<top, g[top - 1]>>]
      <3>1. top \in lo .. top /\ lo + k \in lo .. (lo + k)
        OBVIOUS
      <3>2. g[top] = step[<<top, f[lo + k]>>]
        BY <3>1
      <3> QED  BY <3>1, <3>2, <2>2, <2>5
    <2>7. ASSUME NEW i \in lo .. top PROVE g[i] = IF i = lo THEN a ELSE step[<<i, g[i - 1]>>]
      <3>1. CASE i = top
        BY <3>1, <2>2, <2>6
      <3>2. CASE i # top
        <4>1. i \in lo .. (lo + k) /\ (i # lo => i - 1 \in lo .. (lo + k))
          BY <3>2
        <4> HIDE DEF g
        <4> QED  BY <4>1, <2>1, <2>5
      <3> QED  BY <3>1, <3>2
    <2> HIDE DEF g
    <2>8. Computes(k + 1, g)
      BY <2>7
    <2> QED  BY <2>4, <2>8
  <1>3. n \in G
    <2>1. n \in Nat
      OBVIOUS
    <2> HIDE DEF G
    <2>2. \A k \in 0 .. n : k \in G
      BY <1>1, <1>2, <2>1, Induction
    <2> HIDE DEF n
    <2> QED  BY <2>1, <2>2
  <1>4. lo + n = hi
    OBVIOUS
  <1> QED  BY <1>3, <1>4

LEMMA NoneEmpty ==
    ASSUME NEW s \in Seq({})
    PROVE  s = <<>> /\ Len(s) = 0
  <1>1. Len(s) \in Nat /\ \A i \in 1 .. Len(s) : s[i] \in {}
    OBVIOUS
  <1>2. Len(s) = 0
    <2>1. ~(Len(s) >= 1)
      <3> SUFFICES ASSUME Len(s) >= 1 PROVE FALSE
        OBVIOUS
      <3>1. 1 \in 1 .. Len(s)
        BY <1>1
      <3> QED  BY <3>1, <1>1
    <2> QED  BY <1>1, <2>1
  <1> QED  BY <1>2, EmptySeq

\* A loop of turns is a turn.
LEMMA TurnsLoop ==
    ASSUME NEW x \in Int, NEW seqs, seqs = [i \in 1 .. x |-> seqs[i]], NEW p \in Phases,
           \A i \in 1 .. x : Turns(seqs[i], p, p)
    PROVE  Turns(FlattenSeq(seqs), p, p)
  <1>1. CASE x < 1
    <2>1. 1 .. x = 1 .. 0 /\ seqs \in [1 .. 0 -> {}]
      BY <1>1
    <2>2. seqs \in Seq({})
      <3>1. 0 \in Nat
        OBVIOUS
      <3> QED  BY <2>1, <3>1, SeqDef
    <2>3. seqs = <<>> /\ Len(seqs) = 0
      BY <2>2, NoneEmpty
    <2>4. FlattenSeq(seqs) = <<>>
      BY <2>3 DEF FlattenSeq
    <2> QED  BY <2>4, TurnsNone
  <1>2. CASE x >= 1
    <2> DEFINE n == x
               T == UNION {CHOOSE R : seqs[i] \in Seq(R) : i \in 1 .. n}
               S == Seq(T)
               step == [ix \in (1 .. n) \X S |-> ix[2] \o seqs[ix[1]]]
               next(f) == [i \in 1 .. n |-> IF i = 1 THEN seqs[i] ELSE f[i - 1] \o seqs[i]]
               flatten == CHOOSE f : f = next(f)
    <2>1. n \in Nat /\ 1 \in Int /\ n \in Int /\ 1 <= n /\ 1 \in 1 .. n
      BY <1>2
    <2>2. ASSUME NEW i \in 1 .. n PROVE seqs[i] \in S
      <3>1. \E R : seqs[i] \in Seq(R)
        BY <2>2 DEF Turns, IsSequence
      <3> DEFINE R == CHOOSE R : seqs[i] \in Seq(R)
      <3>2. seqs[i] \in Seq(R)
        BY <3>1
      <3>3. R \subseteq T
        BY <2>2
      <3> HIDE DEF R, T
      <3> QED  BY <3>2, <3>3
    <2>3. Len(seqs) = n
      <3>1. seqs \in [1 .. n -> S]
        BY <2>2
      <3> HIDE DEF S
      <3>2. seqs \in Seq(S)
        BY <2>1, <3>1, SeqDef
      <3> QED  BY <2>1, <3>1, <3>2, LenProperties
    <2>4. FlattenSeq(seqs) = flatten[n]
      BY <2>1, <2>3 DEF FlattenSeq
    <2> HIDE DEF n, T
    <2>5. step \in [(1 .. n) \X S -> S]
      <3>1. \A i \in 1 .. n : seqs[i] \in Seq(T)
        BY <2>2
      <3>2. \A u, v \in Seq(T) : u \o v \in Seq(T)
        OBVIOUS
      <3> QED  BY <3>1, <3>2
    <2>6. PICK f \in [1 .. n -> S] : Recurs(f, 1, n, seqs[1], step)
      <3>1. seqs[1] \in S
        BY <2>1, <2>2
      <3> HIDE DEF step, S
      <3> QED  BY <2>1, <3>1, <2>5, Recursion
    <2>7. \A i \in 1 .. n : f[i] = IF i = 1 THEN seqs[i] ELSE f[i - 1] \o seqs[i]
      <3> TAKE i \in 1 .. n
      <3>1. i # 1 => i - 1 \in 1 .. n /\ f[i - 1] \in S
        BY <2>1, <2>6
      <3> HIDE DEF S
      <3> QED  BY <2>6, <3>1 DEF Recurs
    <2>8. f = next(f)
      <3>1. f = [i \in 1 .. n |-> f[i]]
        OBVIOUS
      <3>2. next(f) = [i \in 1 .. n |-> f[i]]
        BY <2>7
      <3> HIDE DEF next
      <3> QED  BY <3>1, <3>2
    <2>9. flatten = next(flatten)
      BY <2>8
    <2> HIDE DEF flatten
    <2> DEFINE G == {k \in 0 .. (n - 1) : Turns(flatten[k + 1], p, p)}
    <2>10. 0 \in G
      <3>1. flatten[0 + 1] = seqs[1]
        BY <2>1, <2>9
      <3> QED  BY <2>1, <3>1 DEF n
    <2>11. ASSUME NEW k \in 0 .. ((n - 1) - 1), k \in G PROVE k + 1 \in G
      <3>1. k + 1 \in 0 .. (n - 1) /\ (k + 1) + 1 \in 1 .. n /\ (k + 1) + 1 # 1
            /\ ((k + 1) + 1) - 1 = k + 1
        BY <2>1
      <3>2. flatten[(k + 1) + 1] = flatten[k + 1] \o seqs[(k + 1) + 1]
        BY <3>1, <2>9
      <3>3. Turns(flatten[k + 1], p, p) /\ Turns(seqs[(k + 1) + 1], p, p)
        BY <3>1, <2>11 DEF n
      <3>4. Turns(flatten[(k + 1) + 1], p, p)
        BY <3>2, <3>3, TurnsJoin
      <3> QED  BY <3>1, <3>4
    <2>12. \A k \in 0 .. (n - 1) : k \in G
      <3>1. n - 1 \in Nat
        BY <2>1
      <3> HIDE DEF G
      <3> QED  BY <2>10, <2>11, <3>1, Induction
    <2>13. n - 1 \in 0 .. (n - 1) /\ (n - 1) + 1 = n
      BY <2>1
    <2> QED  BY <2>4, <2>12, <2>13
  <1> QED  BY <1>1, <1>2

----
(* The calls of the HAL. *)

Free(due)  == Phase("free", due)
Busy(due)  == Phase("busy", due)
Own(due)   == Phase("own", due)
Tiles(due) == Phase("tiles", due)
Sure(due)  == Phase("sure", due)
SureBusy(due) == Phase("surebusy", due)

LEMMA FreePhase ==
    ASSUME NEW d \in BOOLEAN
    PROVE  /\ Free(d) \in Phases /\ Free(d).array = "free" /\ Free(d).due = d /\ ~Free(d).afu
           /\ Busy(d) \in Phases /\ Busy(d).array = "busy" /\ Busy(d).due = d /\ ~Busy(d).afu
           /\ Own(d) \in Phases /\ Own(d).array = "own" /\ Own(d).due = d /\ ~Own(d).afu
           /\ Tiles(d) \in Phases /\ Tiles(d).array = "tiles" /\ Tiles(d).due = d /\ ~Tiles(d).afu
           /\ Sure(d) \in Phases /\ Sure(d).array = "sure" /\ Sure(d).due = d /\ ~Sure(d).afu
           /\ SureBusy(d) \in Phases /\ SureBusy(d).array = "surebusy" /\ SureBusy(d).due = d /\ ~SureBusy(d).afu
           /\ \A a \in {"ready", "tap", "tapbusy"} :
                 Phase(a, d) \in Phases /\ Phase(a, d).array = a /\ Phase(a, d).due = d /\ ~Phase(a, d).afu
  BY DEF Phases, Phase, Free, Busy, Own, Tiles, Sure, SureBusy

LEMMA TameMerge ==
    ASSUME NEW r, NEW s, Tame(r), Tame(s)
    PROVE  Tame(r ++ s)
  BY DEF Tame, ++

LEMMA HarmlessMerge ==
    ASSUME NEW r, NEW s, Harmless(r), Harmless(s)
    PROVE  Harmless(r ++ s)
  <1>1. Tame(r ++ s)
    BY TameMerge DEF Harmless
  <1>2. "lb" \in DOMAIN (r ++ s) => ~SeveralTiles((r ++ s).lb)
    BY DEF Harmless, ++
  <1> QED  BY <1>1, <1>2 DEF Harmless

LEMMA HarmlessTame ==
    ASSUME NEW r, Harmless(r)
    PROVE  Tame(r)
  BY DEF Harmless

LEMMA HarmlessRegs ==
    /\ \A on : Harmless(Requant(on))
    /\ \A lb : lb.mode # "depthwise" /\ ~SeveralTiles(lb) => Harmless(Linebuffer(lb))
    /\ Harmless(Linebuffer(LinebufOff))
    /\ \A b : Harmless([bin |-> b])
    /\ \A a : Harmless([accum |-> a])
    /\ \A w, i, psum, o, m, accum, os, cols, ps : Harmless(Preload(w, i, psum, o, m, accum, os, cols, ps))
  <1>1. LinebufOff.mode # "depthwise" /\ ~SeveralTiles(LinebufOff)
    BY DEF LinebufOff, SeveralTiles
  <1>2. \A lb : DOMAIN Linebuffer(lb) = {"lb"} /\ Linebuffer(lb).lb = lb
    BY DEF Linebuffer
  <1>3. \A lb : lb.mode # "depthwise" /\ ~SeveralTiles(lb) => Harmless(Linebuffer(lb))
    BY <1>2 DEF Harmless, Tame
  <1>4. \A on : "lb" \notin DOMAIN Requant(on) /\ "table" \notin DOMAIN Requant(on)
    BY DEF Requant
  <1>5. \A w, i, psum, o, m, accum, os, cols, ps :
            /\ "lb" \notin DOMAIN Preload(w, i, psum, o, m, accum, os, cols, ps)
            /\ "table" \notin DOMAIN Preload(w, i, psum, o, m, accum, os, cols, ps)
    BY DEF Preload
  <1>6. \A b : "lb" \notin DOMAIN [bin |-> b] /\ "table" \notin DOMAIN [bin |-> b]
    OBVIOUS
  <1>7. \A a : "lb" \notin DOMAIN [accum |-> a] /\ "table" \notin DOMAIN [accum |-> a]
    OBVIOUS
  <1> QED  BY <1>1, <1>3, <1>4, <1>5, <1>6, <1>7 DEF Harmless, Tame

LEMMA TameLinebuffer ==
    ASSUME NEW lb, lb.mode # "depthwise"
    PROVE  Tame(Linebuffer(lb))
  BY DEF Tame, Linebuffer

LEMMA FitsMerge ==
    ASSUME NEW r, NEW s
    PROVE  /\ Fits(r) => Fits(r ++ s)
           /\ "accum" \notin DOMAIN r /\ "accum" \in DOMAIN s /\ ~s.accum => Fits(r ++ s)
  BY DEF Fits, ++

\* Only a convolution of the line buffer takes several k-tiles, and only where it is asked to.
LEMMA WindowTiles ==
    /\ \A mode, base, g, channels, k : Window(mode, base, g, channels, k).mode = mode
    /\ \A mode, base, g, channels, k :
          mode # "conv" \/ ~(k > 1) => ~SeveralTiles(Window(mode, base, g, channels, k))
  <1> SUFFICES ASSUME NEW mode, NEW base, NEW g, NEW channels, NEW k
               PROVE  /\ Window(mode, base, g, channels, k).mode = mode
                      /\ mode # "conv" \/ ~(k > 1) => ~SeveralTiles(Window(mode, base, g, channels, k))
    OBVIOUS
  <1> DEFINE lb == Window(mode, base, g, channels, k)
  <1>1. lb.mode = mode /\ lb.stationary = (k > 1)
    BY DEF Window
  <1> HIDE DEF lb
  <1>2. ~(k > 1) => KTiles(lb) = 1
    BY <1>1 DEF KTiles
  <1>3. mode # "conv" \/ ~(k > 1) => ~SeveralTiles(lb)
    BY <1>1, <1>2 DEF SeveralTiles
  <1> QED  BY <1>1, <1>3 DEF lb

\* Registers may be written while nothing runs and while a job runs.
LEMMA TurnsSet ==
    ASSUME NEW r, Harmless(r), NEW d \in BOOLEAN
    PROVE  Turns(Set(r), Free(d), Free(d)) /\ Turns(Set(r), Busy(d), Busy(d))
  <1> DEFINE op == [op |-> "set", r |-> r]
  <1>1. op.op = "set" /\ op.r = r
    OBVIOUS
  <1> HIDE DEF op
  <1>2. Takes(op, Free(d), Free(d)) /\ Takes(op, Busy(d), Busy(d))
    BY <1>1, FreePhase DEF Takes, Moves, SetTakes
  <1>3. Turns(<<op>>, Free(d), Free(d)) /\ Turns(<<op>>, Busy(d), Busy(d))
    BY <1>2, FreePhase, TurnsOne
  <1> QED  BY <1>3 DEF Set, op

\* Where the line buffer may be set to several k-tiles.
LEMMA TurnsSetTiles ==
    ASSUME NEW r, Tame(r), NEW d \in BOOLEAN
    PROVE  /\ Turns(Set(r), Free(d), Tiles(d)) /\ Turns(Set(r), Tiles(d), Tiles(d))
           /\ Fits(r) => /\ Turns(Set(r), Free(d), Sure(d)) /\ Turns(Set(r), Tiles(d), Sure(d))
                         /\ Turns(Set(r), Sure(d), Sure(d)) /\ Turns(Set(r), SureBusy(d), SureBusy(d))
           /\ Harmless(r) /\ "lb" \in DOMAIN r => Turns(Set(r), Sure(d), Free(d))
  <1> DEFINE op == [op |-> "set", r |-> r]
  <1>1. op.op = "set" /\ op.r = r
    OBVIOUS
  <1> HIDE DEF op
  <1>2. Takes(op, Free(d), Tiles(d)) /\ Takes(op, Tiles(d), Tiles(d))
    BY <1>1, FreePhase DEF Takes, Moves, SetTakes, Tiles
  <1>3. Fits(r) => /\ Takes(op, Free(d), Sure(d)) /\ Takes(op, Tiles(d), Sure(d)) /\ Takes(op, Sure(d), Sure(d))
    BY <1>1, FreePhase DEF Takes, Moves, SetTakes, Sure
  <1>4. Fits(r) => Takes(op, SureBusy(d), SureBusy(d))
    BY <1>1, FreePhase DEF Takes, Moves, SetTakes
  <1>5. Harmless(r) /\ "lb" \in DOMAIN r => Takes(op, Sure(d), Free(d))
    BY <1>1, FreePhase DEF Takes, Moves, SetTakes, Free
  <1> QED  BY <1>2, <1>3, <1>4, <1>5, FreePhase, TurnsOne DEF Set, op

LEMMA TurnsStart ==
    ASSUME NEW d \in BOOLEAN
    PROVE  /\ Turns(Start, Free(d), Busy(d))
           /\ Turns(Start, Phase("ready", d), Own(d))
           /\ Turns(Start, Phase("tap", d), Phase("tapbusy", d))
           /\ Turns(Start, Sure(d), SureBusy(d))
  <1> DEFINE op == [op |-> "start"]
  <1>1. op.op = "start"
    OBVIOUS
  <1> HIDE DEF op
  <1>2. /\ Takes(op, Free(d), Busy(d)) /\ Takes(op, Phase("ready", d), Own(d))
        /\ Takes(op, Phase("tap", d), Phase("tapbusy", d)) /\ Takes(op, Sure(d), SureBusy(d))
    BY <1>1, FreePhase DEF Takes, Moves, Busy, Own, SureBusy
  <1>3. /\ Turns(<<op>>, Free(d), Busy(d)) /\ Turns(<<op>>, Phase("ready", d), Own(d))
        /\ Turns(<<op>>, Phase("tap", d), Phase("tapbusy", d)) /\ Turns(<<op>>, Sure(d), SureBusy(d))
    BY <1>2, FreePhase, TurnsOne
  <1> QED  BY <1>3 DEF Start, op

LEMMA TurnsWait ==
    ASSUME NEW d \in BOOLEAN
    PROVE  /\ Turns(Wait, Busy(d), Free(d)) /\ Turns(Wait, Own(d), Sure(d))
           /\ Turns(Wait, Phase("tapbusy", d), Phase("tap", d)) /\ Turns(Wait, SureBusy(d), Sure(d))
  <1> DEFINE op == [op |-> "wait"]
  <1>1. op.op = "wait"
    OBVIOUS
  <1> HIDE DEF op
  <1>2. /\ Takes(op, Busy(d), Free(d)) /\ Takes(op, Own(d), Sure(d))
        /\ Takes(op, Phase("tapbusy", d), Phase("tap", d)) /\ Takes(op, SureBusy(d), Sure(d))
    BY <1>1, FreePhase DEF Takes, Moves, Free, Sure
  <1>3. /\ Turns(<<op>>, Busy(d), Free(d)) /\ Turns(<<op>>, Own(d), Sure(d))
        /\ Turns(<<op>>, Phase("tapbusy", d), Phase("tap", d)) /\ Turns(<<op>>, SureBusy(d), Sure(d))
    BY <1>2, FreePhase, TurnsOne
  <1> QED  BY <1>3 DEF Wait, op

\* Checks, the AFU and the vector unit leave the array alone.
LEMMA TurnsQuietOp ==
    ASSUME NEW op, op.op \in Quiet, NEW p \in Phases, ~p.afu
    PROVE  Turns(<<op>>, p, p)
  BY TurnsOne DEF Takes, Moves

LEMMA TurnsQuiet ==
    ASSUME NEW p \in Phases, ~p.afu
    PROVE  /\ \A x : Turns(AfuSet(x), p, p)
           /\ \A x : Turns(Load(x), p, p)
           /\ \A x : Turns(Check(x), p, p)
           /\ \A x, y : Turns(Vector(x, y), p, p)
           /\ Turns(Run, p, p)
  <1>1. ASSUME NEW x PROVE Turns(AfuSet(x), p, p)
    <2>1. [op |-> "afu_set", r |-> x].op \in Quiet
      BY DEF Quiet
    <2> QED  BY ONLY <2>1, TurnsQuietOp, p \in Phases, ~p.afu DEF AfuSet
  <1>2. ASSUME NEW x PROVE Turns(Load(x), p, p)
    <2>1. [op |-> "lut", what |-> x].op \in Quiet
      BY DEF Quiet
    <2> QED  BY ONLY <2>1, TurnsQuietOp, p \in Phases, ~p.afu DEF Load
  <1>4. ASSUME NEW x PROVE Turns(Check(x), p, p)
    <2>1. [op |-> "check", block |-> x].op \in Quiet
      BY DEF Quiet
    <2> QED  BY ONLY <2>1, TurnsQuietOp, p \in Phases, ~p.afu DEF Check
  <1>5. ASSUME NEW x, NEW y PROVE Turns(Vector(x, y), p, p)
    <2>1. [op |-> "vector", kernel |-> x, args |-> y].op \in Quiet
      BY DEF Quiet
    <2> QED  BY ONLY <2>1, TurnsQuietOp, p \in Phases, ~p.afu DEF Vector
  <1>6. Turns(Run, p, p)
    <2> DEFINE go == [op |-> "go"]
               poll == [op |-> "poll"]
               q == [p EXCEPT !.afu = TRUE]
    <2>1. go.op = "go" /\ poll.op = "poll"
      OBVIOUS
    <2>5. q \in Phases /\ q.afu /\ [q EXCEPT !.afu = FALSE] = p
      BY DEF Phases
    <2> HIDE DEF go, poll
    <2>6. Takes(go, p, q)
      BY <2>1 DEF Takes
    <2> HIDE DEF q
    <2>7. Takes(poll, q, p)
      BY <2>1, <2>5 DEF Takes
    <2>2. Turns(<<go>>, p, q) /\ Turns(<<poll>>, q, p)
      BY <2>5, <2>6, <2>7, TurnsOne
    <2>3. Turns(<<go>> \o <<poll>>, p, p)
      BY <2>2, TurnsJoin
    <2>4. <<go>> \o <<poll>> = <<go, poll>>
      <3> DEFINE S == {go, poll}
      <3>1. <<go>> \in Seq(S) /\ <<poll>> \in Seq(S) /\ <<go, poll>> \in Seq(S)
        OBVIOUS
      <3>2. <<go>> \o <<poll>> \in Seq(S) /\ Len(<<go>> \o <<poll>>) = 2 /\ Len(<<go, poll>>) = 2
        BY <3>1
      <3>3. \A i \in 1 .. 2 : (<<go>> \o <<poll>>)[i] = <<go, poll>>[i]
        BY <3>1
      <3> HIDE DEF S
      <3> QED  BY <3>1, <3>2, <3>3, SeqEqual
    <2> QED  BY <2>3, <2>4 DEF Run, go, poll
  <1> QED  BY <1>1, <1>2, <1>4, <1>5, <1>6

\* The window is filled while no job reads it.
LEMMA TurnsStage ==
    ASSUME NEW x, NEW p \in Phases, ~p.afu, p.array \in {"free", "own"}
    PROVE  Turns(Stage(x), p, p)
  <1> DEFINE op == [op |-> "stage", content |-> x]
  <1>1. op.op = "stage"
    OBVIOUS
  <1> HIDE DEF op
  <1>2. Turns(<<op>>, p, p)
    BY <1>1, TurnsOne DEF Takes, Moves
  <1> QED  BY <1>2 DEF Stage, op

LEMMA TurnsJoin3 ==
    ASSUME NEW s, NEW t, NEW u, NEW p, NEW q, NEW r, NEW z, Turns(s, p, q), Turns(t, q, r), Turns(u, r, z)
    PROVE  Turns(s \o t \o u, p, z)
  <1>1. Turns(s \o t, p, r)
    BY TurnsJoin
  <1> QED  BY <1>1, TurnsJoin

LEMMA TurnsTile ==
    ASSUME NEW req, Harmless(req), NEW d \in BOOLEAN
    PROVE  Turns(TileEx(req), Free(d), Free(d))
  <1>1. Turns(Set(req), Free(d), Free(d)) /\ Turns(Set([accum |-> FALSE]), Free(d), Free(d))
    BY TurnsSet, HarmlessRegs
  <1>2. Turns(Start, Free(d), Busy(d)) /\ Turns(Wait, Busy(d), Free(d))
    BY TurnsStart, TurnsWait
  <1>3. Turns(Set(req) \o Start \o Wait, Free(d), Free(d))
    BY <1>1, <1>2, TurnsJoin3
  <1>4. Turns(TileEx(req), Free(d), Free(d))
    BY <1>1, <1>3, TurnsJoin DEF TileEx
  <1> QED  BY <1>4

\* Tile after tile: the registers of the next are written while the one before runs.
LEMMA TurnsTiled ==
    ASSUME NEW w, NEW i, NEW psum, NEW o, NEW m \in Int, NEW accum, NEW requant, NEW tile \in Nat \ {0},
           NEW d \in BOOLEAN
    PROVE  Turns(RunShadowTiled(w, i, psum, o, m, accum, requant, tile), Free(d), Free(d))
  <1> DEFINE rows(t) == LET rest == m - t * tile IN IF rest < tile THEN rest ELSE tile
             req(t)  == Preload(w, i + t * tile, IF psum = 0 THEN 0 ELSE psum + t * tile * 4,
                                o + t * tile * (IF requant THEN 1 ELSE 4), rows(t), accum, 0, 0, 0)
             others  == [t \in 1 .. (m - 1) \div tile |-> Set(req(t)) \o Wait \o Start]
             first   == Requant(requant) ++ Linebuffer(LinebufOff) ++ req(0)
             last    == [accum |-> FALSE]
  <1>1. \A t : Harmless(req(t))
    BY HarmlessRegs
  <1>2. Harmless(first) /\ Harmless(last)
    <2>1. Harmless(Requant(requant) ++ Linebuffer(LinebufOff))
      BY HarmlessRegs, HarmlessMerge
    <2>2. Harmless(req(0))
      BY <1>1
    <2> HIDE DEF req
    <2> QED  BY <2>1, <2>2, HarmlessRegs, HarmlessMerge
  <1> HIDE DEF req, rows, first, last
  <1>3. Turns(FlattenSeq(others), Busy(d), Busy(d))
    <2> DEFINE n == (m - 1) \div tile
    <2>1. n \in Int
      OBVIOUS
    <2>2. ASSUME NEW t \in 1 .. n PROVE Turns(others[t], Busy(d), Busy(d))
      <3>1. Turns(Set(req(t)), Busy(d), Busy(d))
        BY <1>1, TurnsSet
      <3>2. Turns(Set(req(t)) \o Wait \o Start, Busy(d), Busy(d))
        BY <3>1, TurnsStart, TurnsWait, TurnsJoin3
      <3> QED  BY <3>2
    <2>3. others = [t \in 1 .. n |-> others[t]]
      OBVIOUS
    <2> HIDE DEF others, n
    <2> QED  BY <2>1, <2>2, <2>3, FreePhase, TurnsLoop
  <1>4. Turns(Set(first) \o Start \o FlattenSeq(others), Free(d), Busy(d))
    BY <1>2, <1>3, TurnsSet, TurnsStart, TurnsJoin3
  <1>5. Turns(Set(last), Free(d), Free(d))
    BY <1>2, TurnsSet
  <1>6. Turns(Set(first) \o Start \o FlattenSeq(others) \o Wait \o Set(last), Free(d), Free(d))
    BY <1>4, <1>5, TurnsWait, TurnsJoin3
  <1>7. CASE m = 0
    BY <1>7, TurnsNone, FreePhase DEF RunShadowTiled
  <1>8. CASE m # 0
    BY <1>6, <1>8 DEF RunShadowTiled, req, rows, first, last
  <1> QED  BY <1>7, <1>8

LEMMA TurnsGroup ==
    ASSUME NEW w, NEW i, NEW psum, NEW o, NEW m \in Int, NEW d \in BOOLEAN
    PROVE  /\ Turns(Gemm32(w, i, o, m), Free(d), Free(d))
           /\ Turns(Gemm32Requant(w, i, o, m), Free(d), Free(d))
           /\ Turns(Accumulate(w, i, psum, o, m), Free(d), Free(d))
           /\ Turns(AccumulateRequant(w, i, psum, o, m), Free(d), Free(d))
           /\ \A g, groups : Turns(GroupProgram(w, i, psum, o, m, g, groups), Free(d), Free(d))
  <1>1. /\ \A oo, p, a, q : Turns(RunShadowTiled(w, i, p, oo, m, a, q, TileM), Free(d), Free(d))
        /\ \A oo, p, a, q : Turns(RunShadowTiled(w, i, p, oo, m, a, q, AccumTileM), Free(d), Free(d))
    BY TurnsTiled, RowsAssumption
  <1>2. \A oo : /\ Turns(Gemm32(w, i, oo, m), Free(d), Free(d))
                /\ Turns(Gemm32Requant(w, i, oo, m), Free(d), Free(d))
                /\ Turns(Accumulate(w, i, psum, oo, m), Free(d), Free(d))
                /\ Turns(AccumulateRequant(w, i, psum, oo, m), Free(d), Free(d))
    BY <1>1 DEF Gemm32, Gemm32Requant, Accumulate, AccumulateRequant
  <1>3. \A g, groups : Turns(GroupProgram(w, i, psum, o, m, g, groups), Free(d), Free(d))
    <2> TAKE g, groups
    <2>1. CASE groups = 1
      BY <1>2, <2>1 DEF GroupProgram
    <2>2. CASE groups # 1
      BY <1>2, <2>2 DEF GroupProgram
    <2> QED  BY <2>1, <2>2
  <1> QED  BY <1>2, <1>3

LEMMA TurnsStrided ==
    ASSUME NEW w, NEW i, NEW psum, NEW o, NEW m, NEW accum, NEW requant, NEW ostride, NEW pstride, NEW d \in BOOLEAN
    PROVE  Turns(CommandStrided(w, i, psum, o, m, accum, requant, ostride, pstride), Free(d), Free(d))
  <1> DEFINE modes == Requant(requant) ++ Linebuffer(LinebufOff)
             req == Preload(w, i, psum, o, m, accum, ostride, IF ostride # 0 THEN 1 ELSE 0, pstride)
  <1>1. Harmless(modes) /\ Harmless(req)
    BY HarmlessRegs, HarmlessMerge
  <1> HIDE DEF modes, req
  <1>2. Turns(Set(modes) \o TileEx(req), Free(d), Free(d))
    BY <1>1, TurnsSet, TurnsTile, TurnsJoin
  <1> QED  BY <1>2 DEF CommandStrided, modes, req

LEMMA TurnsLinebuf ==
    ASSUME NEW w, NEW psum, NEW o, NEW m, NEW accum, NEW requant, NEW ostride, NEW cols, NEW pstride, NEW d \in BOOLEAN
    PROVE  Turns(LinebufGemm(w, psum, o, m, accum, requant, ostride, cols, pstride), Free(d), Free(d))
  <1> DEFINE mode == Requant(requant)
             req == Preload(Local(w), 0, psum, o, m, accum, ostride, cols, pstride)
             off == Linebuffer(LinebufOff)
  <1>1. Harmless(mode) /\ Harmless(req) /\ Harmless(off)
    BY HarmlessRegs
  <1> HIDE DEF mode, req, off
  <1>2. Turns(Set(mode) \o TileEx(req) \o Set(off), Free(d), Free(d))
    BY <1>1, TurnsSet, TurnsTile, TurnsJoin3
  <1> QED  BY <1>2 DEF LinebufGemm, mode, req, off

\* A job for which the line buffer may be set to several k-tiles.
LEMMA TurnsLinebufTiles ==
    ASSUME NEW w, NEW psum, NEW o, NEW m, NEW accum, NEW requant, NEW ostride, NEW cols, NEW pstride,
           SumsInTime \/ ~accum, NEW d \in BOOLEAN
    PROVE  Turns(LinebufGemm(w, psum, o, m, accum, requant, ostride, cols, pstride), Tiles(d), Free(d))
  <1> DEFINE mode == Requant(requant)
             req == Preload(Local(w), 0, psum, o, m, accum, ostride, cols, pstride)
             end == [accum |-> FALSE]
             off == Linebuffer(LinebufOff)
  <1>1. /\ Tame(mode) /\ Tame(req) /\ Tame(end) /\ Harmless(off)
    BY HarmlessRegs, HarmlessTame
  <1>2. Fits(req) /\ Fits(end)
    <2>1. "accum" \in DOMAIN req /\ req.accum = accum
      BY DEF Preload
    <2>2. "accum" \in DOMAIN end /\ end.accum = FALSE
      OBVIOUS
    <2> HIDE DEF req, end
    <2> QED  BY <2>1, <2>2 DEF Fits
  <1>3. "lb" \in DOMAIN off
    BY DEF Linebuffer
  <1> HIDE DEF mode, req, end, off
  <1>4. Turns(Set(mode), Tiles(d), Tiles(d)) /\ Turns(Set(req), Tiles(d), Sure(d)) /\ Turns(Set(end), Sure(d), Sure(d))
    BY <1>1, <1>2, TurnsSetTiles
  <1>5. Turns(Set(off), Sure(d), Free(d))
    BY <1>1, <1>3, HarmlessTame, TurnsSetTiles
  <1>6. Turns(Start, Sure(d), SureBusy(d)) /\ Turns(Wait, SureBusy(d), Sure(d))
    BY TurnsStart, TurnsWait
  <1>7. Turns(Set(req) \o Start \o Wait, Tiles(d), Sure(d))
    BY <1>4, <1>6, TurnsJoin3
  <1>8. Turns(Set(req) \o Start \o Wait \o Set(end), Tiles(d), Sure(d))
    BY <1>4, <1>7, TurnsJoin
  <1>9. Turns(TileEx(req), Tiles(d), Sure(d))
    BY <1>8 DEF TileEx, end
  <1>10. Turns(Set(mode) \o TileEx(req) \o Set(off), Tiles(d), Free(d))
    BY <1>4, <1>5, <1>9, TurnsJoin3
  <1> QED  BY <1>10 DEF LinebufGemm, mode, req, off

\* Jobs of the line buffer, each configured while the one before it runs.
LEMMA TurnsJobs ==
    ASSUME NEW n \in Nat \ {0}, NEW jobs, jobs = [i \in 1 .. n |-> jobs[i]],
           \A i \in 1 .. n : Tame(jobs[i]) /\ Fits(jobs[i]), NEW d \in BOOLEAN
    PROVE  Turns(LinebufJobs(jobs), Free(d), Free(d))
  <1> DEFINE others == [i \in 1 .. Len(jobs) - 1 |-> Set(jobs[i + 1]) \o Wait \o Start]
             off == Linebuffer(LinebufOff)
  <1>1. Len(jobs) = n
    <2> DEFINE T == {jobs[i] : i \in 1 .. n}
    <2>1. jobs \in [1 .. n -> T]
      OBVIOUS
    <2> HIDE DEF T
    <2>2. jobs \in Seq(T)
      BY <2>1, SeqDef
    <2> QED  BY <2>1, <2>2, LenProperties
  <1>2. Turns(FlattenSeq(others), SureBusy(d), SureBusy(d))
    <2>1. n - 1 \in Int /\ others = [i \in 1 .. n - 1 |-> others[i]]
      BY <1>1
    <2>2. ASSUME NEW i \in 1 .. n - 1 PROVE Turns(others[i], SureBusy(d), SureBusy(d))
      <3>1. i + 1 \in 1 .. n
        OBVIOUS
      <3>2. Turns(Set(jobs[i + 1]), SureBusy(d), SureBusy(d))
        BY <3>1, TurnsSetTiles
      <3>3. Turns(Set(jobs[i + 1]) \o Wait \o Start, SureBusy(d), SureBusy(d))
        BY <3>2, TurnsWait, TurnsStart, TurnsJoin3
      <3> QED  BY <1>1, <3>3
    <2> HIDE DEF others
    <2> QED  BY <2>1, <2>2, FreePhase, TurnsLoop
  <1>3. Harmless(off) /\ Tame(off) /\ "lb" \in DOMAIN off
    BY HarmlessRegs, HarmlessTame DEF Linebuffer
  <1>4. Turns(Set(jobs[1]), Free(d), Sure(d))
    <2>1. 1 \in 1 .. n
      OBVIOUS
    <2> QED  BY <2>1, TurnsSetTiles
  <1> HIDE DEF others, off
  <1>5. Turns(Set(jobs[1]) \o Start \o FlattenSeq(others), Free(d), SureBusy(d))
    BY <1>2, <1>4, TurnsStart, TurnsJoin3
  <1>6. Turns(Set(jobs[1]) \o Start \o FlattenSeq(others) \o Wait \o Set(off), Free(d), Free(d))
    <2>1. Turns(Set(off), Sure(d), Free(d))
      BY <1>3, TurnsSetTiles
    <2> QED  BY <1>5, <2>1, TurnsWait, TurnsJoin3
  <1> QED  BY <1>6 DEF LinebufJobs, others, off

----
(* The operations that leave no job behind. *)

LEMMA TurnsGemm ==
    ASSUME NEW c, NEW d \in BOOLEAN
    PROVE  Turns(GemmProgram(c), Free(d), Free(d))
  <1> DEFINE requant == c.type = "gemm32_requant"
             accum   == c.type = "gemm32_accum" \/ (requant /\ c.psum # None)
             check   == IF requant THEN Check(c.block) ELSE <<>>
             stage   == Stage(InSlot(0, Tile(c.weights)))
             call    == CommandStrided(Slot(0), c.ifm, IF accum THEN c.psum[2] ELSE 0, c.ofm, c.m, accum, requant,
                                       c.ofm_stride, IF accum THEN c.psum_stride ELSE 0)
  <1>1. Turns(check, Free(d), Free(d))
    BY TurnsQuiet, TurnsNone, FreePhase
  <1>2. Turns(stage, Free(d), Free(d))
    BY TurnsStage, FreePhase
  <1>3. Turns(call, Free(d), Free(d))
    BY TurnsStrided
  <1> HIDE DEF check, stage, call
  <1>4. Turns(check \o stage \o call, Free(d), Free(d))
    BY <1>1, <1>2, <1>3, TurnsJoin3
  <1> QED  BY <1>4 DEF GemmProgram, check, stage, call

LEMMA TurnsPointwise ==
    ASSUME NEW c, c.rows \in Nat, c.groups \in Nat, NEW d \in BOOLEAN
    PROVE  Turns(PointwiseProgram(c), Free(d), Free(d))
  <1> DEFINE rows(s) == LET rest == c.rows - s * StripeRows IN IF rest < StripeRows THEN rest ELSE StripeRows
             psum == IF c.psum = None THEN 0 ELSE c.psum[2]
             stage(s, g) == IF Restaged(c, s, g) THEN Stage(InSlot(SlotOf(c, g), Tile(c.weights + g))) ELSE <<>>
             call(s, g) == GroupProgram(Slot(SlotOf(c, g)), c.ifm + g * c.input_stride + s * StripeRows,
                                        psum, c.ofm + s * StripeRows, rows(s), g, c.groups)
             step(s, g) == stage(s, g) \o call(s, g)
             steps(s) == [g \in 1 .. c.groups |-> step(s, g - 1)]
             stripes == [s \in 1 .. (c.rows - 1) \div StripeRows + 1 |-> FlattenSeq(steps(s - 1))]
             check == Check(c.block)
             all == IF c.groups <= BatchedGroups
                    THEN Stage([g \in 0 .. c.groups - 1 |-> Tile(c.weights + g)]) ELSE <<>>
             off == Requant(FALSE)
  <1>1. StripeRows \in Nat \ {0}
    BY TilesAssumption
  <1>2. ASSUME NEW s \in Int, NEW g PROVE Turns(step(s, g), Free(d), Free(d))
    <2>1. rows(s) \in Int
      BY <1>1
    <2>2. Turns(stage(s, g), Free(d), Free(d))
      BY TurnsStage, TurnsNone, FreePhase
    <2> HIDE DEF rows, stage
    <2>3. Turns(call(s, g), Free(d), Free(d))
      BY <2>1, TurnsGroup
    <2> HIDE DEF call
    <2> QED  BY <2>2, <2>3, TurnsJoin
  <1> HIDE DEF step
  <1>3. ASSUME NEW s \in Int PROVE Turns(FlattenSeq(steps(s)), Free(d), Free(d))
    <2>1. \A g \in 1 .. c.groups : Turns(steps(s)[g], Free(d), Free(d))
      BY <1>2
    <2>2. steps(s) = [g \in 1 .. c.groups |-> steps(s)[g]] /\ c.groups \in Int
      OBVIOUS
    <2> HIDE DEF steps
    <2> QED  BY <2>1, <2>2, FreePhase, TurnsLoop
  <1> HIDE DEF steps
  <1>4. Turns(FlattenSeq(stripes), Free(d), Free(d))
    <2> DEFINE n == (c.rows - 1) \div StripeRows + 1
    <2>1. n \in Int
      BY <1>1
    <2>2. \A s \in 1 .. n : Turns(stripes[s], Free(d), Free(d))
      BY <1>3, <2>1
    <2>3. stripes = [s \in 1 .. n |-> stripes[s]]
      OBVIOUS
    <2> HIDE DEF stripes, n
    <2> QED  BY <2>1, <2>2, <2>3, FreePhase, TurnsLoop
  <1>5. Turns(check, Free(d), Free(d)) /\ Turns(all, Free(d), Free(d))
    BY TurnsQuiet, TurnsStage, TurnsNone, FreePhase
  <1>6. Turns(Set(off), Free(d), Free(d))
    BY TurnsSet, HarmlessRegs
  <1> HIDE DEF stripes, check, all, off
  <1>7. Turns(check \o all \o FlattenSeq(stripes) \o Set(off), Free(d), Free(d))
    BY <1>4, <1>5, <1>6, TurnsJoin3, TurnsJoin
  <1> QED  BY <1>7 DEF PointwiseProgram, stripes, check, all, off, steps, step, stage, call, rows, psum

LEMMA TurnsPointwiseCall ==
    ASSUME NEW c, c.rows \in Nat, c.groups \in Nat, c.output_groups \in Nat, NEW d \in BOOLEAN
    PROVE  Turns(PointwiseCallProgram(c), Free(d), Free(d))
  <1> DEFINE psum == IF c.psum = None THEN 0 ELSE c.psum[2]
             step(og, g) == GroupProgram(Local(c.weights + og * c.groups + g), c.ifm + g * c.rows, psum,
                                         c.ofm + og * c.rows, c.rows, g, c.groups)
             steps(og) == [g \in 1 .. c.groups |-> step(og, g - 1)]
             groups == [og \in 1 .. c.output_groups |-> FlattenSeq(steps(og - 1))]
             off == Linebuffer(LinebufOff)
  <1>1. ASSUME NEW og, NEW g PROVE Turns(step(og, g), Free(d), Free(d))
    <2>1. c.rows \in Int
      OBVIOUS
    <2> QED  BY ONLY <2>1, TurnsGroup, d \in BOOLEAN
  <1> HIDE DEF step
  <1>2. ASSUME NEW og PROVE Turns(FlattenSeq(steps(og)), Free(d), Free(d))
    <2>1. \A g \in 1 .. c.groups : Turns(steps(og)[g], Free(d), Free(d))
      BY <1>1
    <2>2. steps(og) = [g \in 1 .. c.groups |-> steps(og)[g]] /\ c.groups \in Int
      OBVIOUS
    <2> HIDE DEF steps
    <2> QED  BY <2>1, <2>2, FreePhase, TurnsLoop
  <1> HIDE DEF steps
  <1>3. Turns(FlattenSeq(groups), Free(d), Free(d))
    <2>1. \A og \in 1 .. c.output_groups : Turns(groups[og], Free(d), Free(d))
      BY <1>2
    <2>2. groups = [og \in 1 .. c.output_groups |-> groups[og]] /\ c.output_groups \in Int
      OBVIOUS
    <2> HIDE DEF groups
    <2> QED  BY <2>1, <2>2, FreePhase, TurnsLoop
  <1>4. Turns(Set(off), Free(d), Free(d))
    BY TurnsSet, HarmlessRegs
  <1> HIDE DEF groups, off
  <1>5. Turns(Set(off) \o FlattenSeq(groups), Free(d), Free(d))
    BY <1>3, <1>4, TurnsJoin
  <1> QED  BY <1>5 DEF PointwiseCallProgram, groups, steps, step, psum, off

\* While the tap is set, the registers that set it are not written.
LEMMA TurnsTap ==
    ASSUME NEW r, DOMAIN r \cap {"lb", "rq", "table"} = {}, NEW d \in BOOLEAN
    PROVE  Turns(Set(r), Phase("tap", d), Phase("tap", d))
  <1> DEFINE op == [op |-> "set", r |-> r]
  <1>1. op.op = "set" /\ op.r = r
    OBVIOUS
  <1> HIDE DEF op
  <1>2. Takes(op, Phase("tap", d), Phase("tap", d))
    BY <1>1, FreePhase DEF Takes, Moves, SetTakes
  <1>3. Turns(<<op>>, Phase("tap", d), Phase("tap", d))
    BY <1>2, FreePhase, TurnsOne
  <1> QED  BY <1>3 DEF Set, op

LEMMA TurnsTapOn ==
    ASSUME NEW r, {"lb", "rq"} \subseteq DOMAIN r, r.rq = TRUE, "table" \notin DOMAIN r, ~SeveralTiles(r.lb),
           NEW d \in BOOLEAN
    PROVE  Turns(Set(r), Free(d), Phase("tap", d))
  <1> DEFINE op == [op |-> "set", r |-> r]
  <1>1. op.op = "set" /\ op.r = r
    OBVIOUS
  <1> HIDE DEF op
  <1>2. Takes(op, Free(d), Phase("tap", d))
    BY <1>1, FreePhase DEF Takes, Moves, SetTakes
  <1>3. Turns(<<op>>, Free(d), Phase("tap", d))
    BY <1>2, FreePhase, TurnsOne
  <1> QED  BY <1>3 DEF Set, op

LEMMA TurnsTapOff ==
    ASSUME NEW r, "lb" \in DOMAIN r, Harmless(r), NEW d \in BOOLEAN
    PROVE  Turns(Set(r), Phase("tap", d), Free(d))
  <1> DEFINE op == [op |-> "set", r |-> r]
  <1>1. op.op = "set" /\ op.r = r
    OBVIOUS
  <1> HIDE DEF op
  <1>2. Takes(op, Phase("tap", d), Free(d))
    BY <1>1, FreePhase DEF Takes, Moves, SetTakes, Free
  <1>3. Turns(<<op>>, Phase("tap", d), Free(d))
    BY <1>2, FreePhase, TurnsOne
  <1> QED  BY <1>3 DEF Set, op

LEMMA TurnsDepthwise ==
    ASSUME NEW c, NEW d \in BOOLEAN
    PROVE  Turns(DepthwiseProgram(c), Free(d), Free(d))
  <1> DEFINE check == Check(c.block)
             stage == Stage(InSlot(0, Tile(c.weights)))
             on    == Requant(TRUE) ++ Linebuffer(Window("depthwise", c.ifm, c, Lanes, 0))
             req   == Preload(Slot(0), 0, 0, c.ofm, c.output_h * c.output_w, FALSE, c.output_w, c.output_w, 0)
             end   == [accum |-> FALSE]
             off   == Linebuffer(LinebufOff) ++ Requant(FALSE)
             tap   == Phase("tap", d)
             busy  == Phase("tapbusy", d)
  <1>1. Turns(check, Free(d), Free(d)) /\ Turns(stage, Free(d), Free(d))
    BY TurnsQuiet, TurnsStage, FreePhase
  <1>2. Turns(Set(on), Free(d), tap)
    <2> DEFINE lb == Window("depthwise", c.ifm, c, Lanes, 0)
    <2>1. ~SeveralTiles(lb)
      BY WindowTiles
    <2> HIDE DEF lb
    <2>2. {"lb", "rq"} \subseteq DOMAIN on /\ on.rq = TRUE /\ "table" \notin DOMAIN on /\ on.lb = lb
      BY DEF ++, Requant, Linebuffer, lb
    <2> HIDE DEF on
    <2> QED  BY <2>1, <2>2, TurnsTapOn
  <1>3. Turns(Set(req), tap, tap) /\ Turns(Set(end), tap, tap)
    <2>1. DOMAIN req \cap {"lb", "rq", "table"} = {} /\ DOMAIN end \cap {"lb", "rq", "table"} = {}
      BY DEF Preload
    <2> HIDE DEF req, end
    <2> QED  BY <2>1, TurnsTap
  <1>4. Turns(Start, tap, busy) /\ Turns(Wait, busy, tap)
    BY TurnsStart, TurnsWait
  <1>5. Turns(Set(off), tap, Free(d))
    <2>1. Harmless(off)
      BY HarmlessRegs, HarmlessMerge
    <2>2. "lb" \in DOMAIN off
      BY DEF ++, Linebuffer
    <2> HIDE DEF off
    <2> QED  BY <2>1, <2>2, TurnsTapOff
  <1> HIDE DEF check, stage, on, req, end, off, tap, busy
  <1>6. Turns(check \o stage \o Set(on), Free(d), tap)
    BY <1>1, <1>2, TurnsJoin3
  <1>7. Turns(TileEx(req), tap, tap)
    <2>1. Turns(Set(req) \o Start \o Wait, tap, tap)
      BY <1>3, <1>4, TurnsJoin3
    <2>2. Turns(Set(req) \o Start \o Wait \o Set(end), tap, tap)
      BY <1>3, <2>1, TurnsJoin
    <2> QED  BY <2>2 DEF TileEx, end
  <1>8. Turns(check \o stage \o Set(on) \o TileEx(req) \o Set(off), Free(d), Free(d))
    BY <1>5, <1>6, <1>7, TurnsJoin3
  <1> QED  BY <1>8 DEF DepthwiseProgram, check, stage, on, req, off

LEMMA TurnsMaxpool ==
    ASSUME NEW c, c.groups \in Nat, NEW d \in BOOLEAN
    PROVE  Turns(MaxpoolProgram(c), Free(d), Free(d))
  <1> DEFINE n == c.input_h * c.input_w
             on(g) == Requant(FALSE) ++ Linebuffer(Window("pool", c.ifm + g * n, PoolWindow(c), Lanes, 0))
             req(g) == Preload(Local(0), 0, 0, c.ofm + g * n, n, FALSE, c.input_w, c.input_w, 0)
             off == Linebuffer(LinebufOff)
             groups == [g \in 1 .. c.groups |-> Set(on(g - 1)) \o TileEx(req(g - 1)) \o Set(off)]
  <1>1. ASSUME NEW g PROVE Harmless(on(g)) /\ Harmless(req(g)) /\ Harmless(off)
    <2>1. /\ Window("pool", c.ifm + g * n, PoolWindow(c), Lanes, 0).mode # "depthwise"
          /\ ~SeveralTiles(Window("pool", c.ifm + g * n, PoolWindow(c), Lanes, 0))
      BY WindowTiles
    <2>2. Harmless(Linebuffer(Window("pool", c.ifm + g * n, PoolWindow(c), Lanes, 0)))
      BY <2>1, HarmlessRegs
    <2> QED  BY <2>2, HarmlessRegs, HarmlessMerge
  <1> HIDE DEF on, req, off
  <1>2. \A g \in 1 .. c.groups : Turns(groups[g], Free(d), Free(d))
    <2> TAKE g \in 1 .. c.groups
    <2>1. Turns(Set(on(g - 1)) \o TileEx(req(g - 1)) \o Set(off), Free(d), Free(d))
      BY <1>1, TurnsSet, TurnsTile, TurnsJoin3
    <2> QED  BY <2>1
  <1>3. groups = [g \in 1 .. c.groups |-> groups[g]]
    OBVIOUS
  <1>5. c.groups \in Int
    OBVIOUS
  <1> HIDE DEF groups
  <1>4. Turns(FlattenSeq(groups), Free(d), Free(d))
    BY <1>2, <1>3, <1>5, FreePhase, TurnsLoop
  <1> QED  BY <1>4 DEF MaxpoolProgram, groups, on, req, off, n

LEMMA TurnsLinebufCall ==
    ASSUME NEW c, c.accum /\ c.k_tiles > 1 => SumsInTime, NEW d \in BOOLEAN
    PROVE  Turns(LinebufCallProgram(c), Free(d), Free(d))
  <1> DEFINE lb == Window("conv", c.input, c, c.channels, c.k_tiles)
             on == Linebuffer(lb)
             call == LinebufGemm(c.weights, c.psum, c.ofm, c.rows, c.accum, c.requant, c.ofm_stride, c.cols, c.psum_stride)
  <1>1. lb.mode # "depthwise" /\ (~(c.k_tiles > 1) => ~SeveralTiles(lb))
    BY WindowTiles
  <1> HIDE DEF lb
  <1>2. CASE ~(c.k_tiles > 1)
    <2>1. Turns(Set(on), Free(d), Free(d))
      BY <1>1, <1>2, HarmlessRegs, TurnsSet
    <2>2. Turns(call, Free(d), Free(d))
      BY TurnsLinebuf
    <2> HIDE DEF on, call
    <2>3. Turns(Set(on) \o call, Free(d), Free(d))
      BY <2>1, <2>2, TurnsJoin
    <2> QED  BY <2>3 DEF LinebufCallProgram, on, call, lb
  <1>3. CASE c.k_tiles > 1
    <2>1. Turns(Set(on), Free(d), Tiles(d))
      BY <1>1, TameLinebuffer, TurnsSetTiles
    <2>2. SumsInTime \/ ~c.accum
      BY <1>3
    <2>3. Turns(call, Tiles(d), Free(d))
      BY <2>2, TurnsLinebufTiles
    <2> HIDE DEF on, call
    <2>4. Turns(Set(on) \o call, Free(d), Free(d))
      BY <2>1, <2>3, TurnsJoin
    <2> QED  BY <2>4 DEF LinebufCallProgram, on, call, lb
  <1> QED  BY <1>2, <1>3

\* A refused operation does nothing more.
LEMMA TurnsRejected ==
    ASSUME NEW p \in Phases, NEW q \in Phases
    PROVE  Turns(Rejected, p, q)
  <1> DEFINE op == [op |-> "reject"]
  <1>1. op.op = "reject"
    OBVIOUS
  <1> HIDE DEF op
  <1>2. Takes(op, p, q)
    BY <1>1 DEF Takes, Moves
  <1>3. Turns(<<op>>, p, q)
    BY <1>2, TurnsOne
  <1> QED  BY <1>3 DEF Rejected, op

LEMMA TurnsSubmitted ==
    ASSUME NEW c, NEW p \in Phases, ~p.afu
    PROVE  Turns(<<[op |-> "submitted", command |-> c]>>, p, Phase(p.array, c # None))
  <1> DEFINE op == [op |-> "submitted", command |-> c]
             q == Phase(p.array, c # None)
  <1>1. op.op = "submitted" /\ op.command = c
    OBVIOUS
  <1>2. q \in Phases
    BY DEF Phases, Phase
  <1> HIDE DEF op
  <1>3. Takes(op, p, q)
    BY <1>1 DEF Takes, Moves
  <1> HIDE DEF q
  <1>4. Turns(<<op>>, p, q)
    BY <1>2, <1>3, TurnsOne
  <1> QED  BY <1>4 DEF op, q

LEMMA TurnsFinish ==
    ASSUME NEW d \in BOOLEAN
    PROVE  Turns(FinishLinebuf, Own(d), Free(d))
  <1> DEFINE r == [accum |-> FALSE, lb |-> LinebufOff, bin |-> BinaryOff, rq |-> FALSE]
  <1>1. Harmless(r) /\ "lb" \in DOMAIN r
    BY DEF Harmless, Tame, SeveralTiles, LinebufOff
  <1> HIDE DEF r
  <1>2. Turns(Set(r), Sure(d), Free(d))
    BY <1>1, HarmlessTame, TurnsSetTiles
  <1>3. Turns(Wait \o Set(r), Own(d), Free(d))
    BY <1>2, TurnsWait, TurnsJoin
  <1> QED  BY <1>3 DEF FinishLinebuf, r

\* The registers of a job whose weights are in the TCDM.
LEMMA TurnsOwn ==
    ASSUME NEW r, Tame(r), Fits(r), "w" \in DOMAIN r, r.w[1] = "tcdm", NEW d \in BOOLEAN
    PROVE  Turns(Set(r), Free(d), Phase("ready", d))
  <1> DEFINE op == [op |-> "set", r |-> r]
  <1>1. op.op = "set" /\ op.r = r
    OBVIOUS
  <1> HIDE DEF op
  <1>2. Takes(op, Free(d), Phase("ready", d))
    BY <1>1, FreePhase DEF Takes, Moves, SetTakes
  <1>3. Turns(<<op>>, Free(d), Phase("ready", d))
    BY <1>2, FreePhase, TurnsOne
  <1> QED  BY <1>3 DEF Set, op

\* A job that is submitted is left to a later command to wait for; nothing else is.
LEMMA TurnsLinebufJob ==
    ASSUME NEW c, pending = None, c.type = "linebuf_submit" => c # None,
           c.accum_en \in {2, 3} /\ c.k_tiles > 1 => SumsInTime
    PROVE  /\ c.type = "linebuf_submit" => Turns(LinebufProgram(c), Free(FALSE), Own(TRUE))
           /\ c.type # "linebuf_submit" => Turns(LinebufProgram(c), Free(FALSE), Free(FALSE))
  <1> DEFINE raw == c.accum_en \in {1, 3}
             strided == raw \/ c.k_tiles > 1
             binary == IF raw \/ c.binary = None THEN BinaryOff
                       ELSE [on |-> TRUE, rhs |-> c.binary[2].rhs, stride |-> c.binary[2].stride,
                             cols |-> c.binary[2].cols, params |-> c.binary[2].params]
             addresses == {c.input, c.psum, c.ofm} \cup (IF c.binary = None THEN {} ELSE {c.binary[2].rhs})
             req == Preload(Local(c.weights), 0, c.psum, IF raw THEN c.psum ELSE c.ofm, c.rows, AddsPsum(c),
                            IF raw THEN c.psum_stride ELSE IF strided THEN c.ofm_stride ELSE 0,
                            IF strided THEN c.cols ELSE 0,
                            IF strided /\ c.accum_en # 1 THEN c.psum_stride ELSE 0)
             regs_ == Linebuffer(Window("conv", c.input, c, c.channels, c.k_tiles)) ++ Requant(~raw)
                      ++ [bin |-> binary] ++ req
             end == IF c.type = "linebuf_submit" THEN <<[op |-> "submitted", command |-> c]>> ELSE FinishLinebuf
             refused == pending # None \/ \E a \in addresses : a >= Cells
  <1>1. Tame(regs_)
    <2>1. Window("conv", c.input, c, c.channels, c.k_tiles).mode # "depthwise"
      BY WindowTiles
    <2>2. /\ Tame(Linebuffer(Window("conv", c.input, c, c.channels, c.k_tiles)))
          /\ Tame(Requant(~raw)) /\ Tame([bin |-> binary]) /\ Tame(req)
      BY <2>1, TameLinebuffer, HarmlessRegs, HarmlessTame
    <2> HIDE DEF binary, req, raw
    <2> QED  BY <2>2, TameMerge
  <1>7. Fits(regs_)
    <2> DEFINE lb == Window("conv", c.input, c, c.channels, c.k_tiles)
               front == Linebuffer(lb) ++ Requant(~raw) ++ [bin |-> binary]
    <2>1. ~(c.k_tiles > 1) => ~SeveralTiles(lb)
      BY WindowTiles
    <2>2. "accum" \in DOMAIN req /\ req.accum = AddsPsum(c)
      BY DEF Preload
    <2>3. "accum" \notin DOMAIN front /\ "lb" \in DOMAIN front /\ front.lb = lb
      <3> HIDE DEF lb, binary, raw
      <3> QED  BY DEF ++, Linebuffer, Requant
    <2>4. regs_ = front ++ req
      OBVIOUS
    <2> HIDE DEF lb, front, req, binary, raw, regs_
    <2>5. CASE AddsPsum(c) /\ c.k_tiles > 1
      BY <2>5 DEF AddsPsum, Fits
    <2>6. CASE ~AddsPsum(c)
      BY <2>2, <2>3, <2>4, <2>6, FitsMerge
    <2>7. CASE ~(c.k_tiles > 1)
      <3>1. Fits(front)
        BY <2>1, <2>3, <2>7 DEF Fits
      <3> QED  BY <2>4, <3>1, FitsMerge
    <2> QED  BY <2>5, <2>6, <2>7
  <1>6. "w" \in DOMAIN regs_ /\ regs_.w[1] = "tcdm"
    <2>1. "w" \in DOMAIN req /\ req.w[1] = "tcdm"
      BY DEF Preload, Local
    <2>2. /\ "w" \notin DOMAIN Linebuffer(Window("conv", c.input, c, c.channels, c.k_tiles))
          /\ "w" \notin DOMAIN Requant(~raw) /\ "w" \notin DOMAIN [bin |-> binary]
      BY DEF Linebuffer, Requant
    <2> HIDE DEF binary, req, raw
    <2> QED  BY <2>1, <2>2 DEF ++
  <1>2. LinebufProgram(c) = IF refused THEN Rejected ELSE Set(regs_) \o Start \o end
    BY DEF LinebufProgram
  <1> HIDE DEF regs_, refused
  <1>3. Turns(Set(regs_) \o Start, Free(FALSE), Own(FALSE))
    BY <1>1, <1>6, <1>7, TurnsOwn, TurnsStart, TurnsJoin
  <1>4. CASE c.type = "linebuf_submit"
    <2>1. Turns(end, Own(FALSE), Phase(Own(FALSE).array, c # None))
      BY <1>4, FreePhase, TurnsSubmitted
    <2>2. Phase(Own(FALSE).array, c # None) = Own(TRUE)
      <3>1. (c # None) = TRUE
        BY <1>4
      <3> QED  BY <3>1 DEF Phase, Own
    <2>3. Turns(Set(regs_) \o Start \o end, Free(FALSE), Own(TRUE))
      BY <1>3, <2>1, <2>2, TurnsJoin
    <2> QED  BY <1>2, <1>4, <2>3, TurnsRejected, FreePhase
  <1>5. CASE c.type # "linebuf_submit"
    <2>1. Turns(end, Own(FALSE), Free(FALSE))
      BY <1>5, TurnsFinish
    <2>2. Turns(Set(regs_) \o Start \o end, Free(FALSE), Free(FALSE))
      BY <1>3, <2>1, TurnsJoin
    <2> QED  BY <1>2, <1>5, <2>2, TurnsRejected, FreePhase
  <1> QED  BY <1>4, <1>5

LEMMA TurnsSystolicWait ==
    /\ pending # None => /\ Turns(SystolicWaitProgram, Own(TRUE), Free(FALSE))
                         /\ Turns(BarrierProgram, Own(TRUE), Free(FALSE))
    /\ pending = None => /\ Turns(SystolicWaitProgram, Free(FALSE), Free(FALSE))
                         /\ Turns(BarrierProgram, Free(FALSE), Free(FALSE))
  <1> DEFINE s == <<[op |-> "submitted", command |-> None]>>
  <1>1. Turns(s, Free(TRUE), Free(FALSE))
    <2>1. Turns(s, Free(TRUE), Phase(Free(TRUE).array, None # None))
      BY FreePhase, TurnsSubmitted
    <2>2. Phase(Free(TRUE).array, None # None) = Free(FALSE)
      BY DEF Phase, Free
    <2> QED  BY <2>1, <2>2
  <1> HIDE DEF s
  <1>2. Turns(FinishLinebuf \o s, Own(TRUE), Free(FALSE))
    BY <1>1, TurnsFinish, TurnsJoin
  <1>3. Turns(Rejected, Free(FALSE), Free(FALSE)) /\ Turns(<<>>, Free(FALSE), Free(FALSE))
    BY TurnsRejected, TurnsNone, FreePhase
  <1> QED  BY <1>2, <1>3 DEF SystolicWaitProgram, BarrierProgram, s

----
(* The operations of the AFU and the vector unit, whether or not a job is due. *)

LEMMA TurnsAfu ==
    ASSUME NEW c, NEW p \in Phases, ~p.afu, p.array \in {"free", "own"}
    PROVE  /\ Turns(AfuBinaryProgram(c), p, p)
           /\ Turns(AfuBinaryQuantProgram(c), p, p)
           /\ Turns(AfuLutProgram(c), p, p)
           /\ Turns(AfuGlobalAvgpoolProgram(c), p, p)
  <1>1. \A r : Turns(AfuSet(r) \o Run, p, p)
    BY TurnsQuiet, TurnsJoin
  <1>2. Turns(AfuBinaryProgram(c), p, p) /\ Turns(AfuBinaryQuantProgram(c), p, p)
    BY <1>1 DEF AfuBinaryProgram, AfuBinaryQuantProgram
  <1>3. Turns(AfuLutProgram(c), p, p)
    <2> DEFINE staged == ~c.reuse /\ c.region = "constants"
               stage == IF staged THEN Stage(InSlot(0, Bins(c.lut))) ELSE <<>>
               set   == AfuSet([src |-> c.ifm, dst |-> c.ofm, length |-> c.length, mode |-> "e8"])
               load  == IF c.reuse THEN <<>> ELSE Load(IF staged THEN <<"window">> ELSE <<"cell", c.lut>>)
    <2>1. Turns(stage, p, p) /\ Turns(set, p, p) /\ Turns(load, p, p) /\ Turns(Run, p, p)
      BY TurnsQuiet, TurnsStage, TurnsNone
    <2> HIDE DEF stage, set, load
    <2>2. Turns(stage \o set \o load \o Run, p, p)
      BY <2>1, TurnsJoin3, TurnsJoin
    <2> QED  BY <2>2 DEF AfuLutProgram, stage, set, load
  <1>4. Turns(AfuGlobalAvgpoolProgram(c), p, p)
    <2> DEFINE own == AfuSet([src |-> c.ifm, src2 |-> c.spatial, dst |-> c.ofm, length |-> c.spatial * c.groups,
                              bias |-> c.offset, params |-> c.params, mode |-> "avgpool_requant"])
               load == Load(<<"entry", <<"reciprocal", c.spatial>>>>)
               set == AfuSet([src |-> c.ifm, src2 |-> c.spatial, dst |-> c.ofm, length |-> c.spatial * c.groups,
                              mode |-> "avgpool"])
               first == IF c.requant THEN own ELSE load \o set
    <2>1. Turns(own, p, p) /\ Turns(load, p, p) /\ Turns(set, p, p) /\ Turns(Run, p, p)
      BY TurnsQuiet
    <2> HIDE DEF own, load, set
    <2>2. Turns(first, p, p)
      BY <2>1, TurnsJoin
    <2> HIDE DEF first
    <2>3. Turns(first \o Run, p, p)
      BY <2>1, <2>2, TurnsJoin
    <2> QED  BY <2>3 DEF AfuGlobalAvgpoolProgram, first, own, load, set
  <1> QED  BY <1>2, <1>3, <1>4

LEMMA TurnsDfl ==
    ASSUME NEW c, c.tiles \in Nat, NEW p \in Phases, ~p.afu, p.array \in {"free", "own"}
    PROVE  Turns(AfuDfl16Program(c), p, p)
  <1> DEFINE source(side) == IF c.layout = 1 THEN c.source + (side \div 2) * (2 * c.tiles) + (side % 2)
                             ELSE c.source + side * c.tiles
             pack(side, t) == Vector("pack", <<source(side) + (IF c.layout = 1 THEN 2 * t ELSE t), c.scratch>>)
             set == AfuSet([src |-> c.scratch, src2 |-> 16, dst |-> c.scratch + 1, length |-> 1, mode |-> "dfl"])
             convert(side, t) == Vector("convert", <<c.scratch + 1, c.destination + side * c.tiles + t>>)
             step(side, t) == pack(side, t) \o set \o Run \o convert(side, t)
             steps(side) == [t \in 1 .. c.tiles |-> step(side, t - 1)]
             sides == [side \in 1 .. 4 |-> FlattenSeq(steps(side - 1))]
             stage == Stage([s \in 0 .. 1 |-> Bins(c.tables + s)])
             load == Load(<<"dfl">>)
  <1>1. ASSUME NEW side, NEW t PROVE Turns(step(side, t), p, p)
    <2>1. Turns(pack(side, t), p, p) /\ Turns(set, p, p) /\ Turns(Run, p, p) /\ Turns(convert(side, t), p, p)
      BY TurnsQuiet
    <2> HIDE DEF pack, set, convert
    <2> QED  BY <2>1, TurnsJoin3, TurnsJoin
  <1> HIDE DEF step
  <1>2. ASSUME NEW side PROVE Turns(FlattenSeq(steps(side)), p, p)
    <2>1. \A t \in 1 .. c.tiles : Turns(steps(side)[t], p, p)
      BY <1>1
    <2>2. steps(side) = [t \in 1 .. c.tiles |-> steps(side)[t]] /\ c.tiles \in Int
      OBVIOUS
    <2> HIDE DEF steps
    <2> QED  BY <2>1, <2>2, TurnsLoop
  <1> HIDE DEF steps
  <1>3. Turns(FlattenSeq(sides), p, p)
    <2>1. \A side \in 1 .. 4 : Turns(sides[side], p, p)
      BY <1>2
    <2>2. sides = [side \in 1 .. 4 |-> sides[side]] /\ 4 \in Int
      OBVIOUS
    <2> HIDE DEF sides
    <2> QED  BY <2>1, <2>2, TurnsLoop
  <1>4. Turns(stage, p, p) /\ Turns(load, p, p)
    BY TurnsQuiet, TurnsStage
  <1> HIDE DEF sides, stage, load
  <1>5. Turns(stage \o load \o FlattenSeq(sides), p, p)
    BY <1>3, <1>4, TurnsJoin3
  <1> QED  BY <1>5 DEF AfuDfl16Program, stage, load, sides, steps, step, pack, set, convert, source

LEMMA TurnsUpsample ==
    ASSUME NEW c, c.groups \in Nat, NEW p \in Phases, ~p.afu
    PROVE  Turns(UpsampleProgram(c), p, p)
  <1> DEFINE n == c.input_h * c.input_w
             groups == [g \in 1 .. c.groups |->
                           Vector("upsample", <<c.ifm + (g - 1) * n, c.ofm + (g - 1) * 4 * n, c.input_h, c.input_w>>)]
  <1>1. \A g \in 1 .. c.groups : Turns(groups[g], p, p)
    BY TurnsQuiet
  <1>2. groups = [g \in 1 .. c.groups |-> groups[g]] /\ c.groups \in Int
    OBVIOUS
  <1> HIDE DEF groups
  <1>3. Turns(FlattenSeq(groups), p, p)
    BY <1>1, <1>2, TurnsLoop
  <1> QED  BY <1>3 DEF UpsampleProgram, groups, n

----
(* The convolution library. *)

LEMMA ConvCounts ==
    ASSUME NEW c \in ConvCommand
    PROVE  /\ KTotal(c) \in Nat /\ SpatialRows(c) \in Nat /\ Lanes \in Nat \ {0}
           /\ CeilDiv(KTotal(c), Lanes) \in Int
  <1>1. /\ c.kernel_h \in Nat /\ c.kernel_w \in Nat /\ c.input_c \in Nat
        /\ c.output_h \in Nat /\ c.output_w \in Nat
    BY DEF ConvCommand
  <1>2. KTotal(c) \in Nat /\ SpatialRows(c) \in Nat
    BY <1>1 DEF KTotal, SpatialRows
  <1>3. Lanes \in Nat \ {0}
    BY CommandsAssumption
  <1> QED  BY <1>2, <1>3 DEF CeilDiv

LEMMA CeilDivInt ==
    ASSUME NEW n \in Int, NEW k \in Nat \ {0}
    PROVE  CeilDiv(n, k) \in Int
  BY DEF CeilDiv

LEMMA OrderCounts ==
    ASSUME NEW keys, IsFiniteSet(keys)
    PROVE  Cardinality(keys) \in Int /\ DOMAIN InOrder(keys) = 1 .. Cardinality(keys)
  BY FS_CardinalityType DEF InOrder

LEMMA RangesFinite ==
    ASSUME NEW c \in ConvCommand, NEW k
    PROVE  IsFiniteSet(RangeH(c, k)) /\ IsFiniteSet(RangeW(c, k))
  <1>1. c.output_h \in Nat /\ c.output_w \in Nat
    BY DEF ConvCommand
  <1>2. IsFiniteSet(0 .. c.output_h - 1) /\ IsFiniteSet(0 .. c.output_w - 1)
    <2>1. 0 \in Int /\ c.output_h - 1 \in Int /\ c.output_w - 1 \in Int
      BY <1>1
    <2> QED  BY ONLY <2>1, FS_Interval
  <1>3. RangeH(c, k) \subseteq 0 .. c.output_h - 1 /\ RangeW(c, k) \subseteq 0 .. c.output_w - 1
    BY DEF RangeH, RangeW, OutputRange
  <1> QED  BY <1>2, <1>3, FS_Subset

LEMMA RunsFinite ==
    ASSUME NEW c \in ConvCommand
    PROVE  /\ \A t \in Int : IsFiniteSet(RunStarts(c, t))
           /\ IsFiniteSet(UNION {RunStarts(c, t) : t \in 0 .. CeilDiv(KTotal(c), Lanes) - 1})
  <1> DEFINE tiles == CeilDiv(KTotal(c), Lanes)
             K == KTotal(c)
  <1>1. K \in Nat /\ Lanes \in Nat \ {0} /\ tiles \in Int
    BY ConvCounts
  <1>2. ASSUME NEW t \in Int PROVE IsFiniteSet(RunStarts(c, t))
    <2> DEFINE lo == t * Lanes
               hi == Least((t + 1) * Lanes, K) - 1
    <2>1. lo \in Int /\ hi \in Int
      BY <1>1 DEF Least
    <2>2. RunStarts(c, t) \subseteq lo .. hi
      BY DEF RunStarts
    <2> HIDE DEF lo, hi
    <2> QED  BY <2>1, <2>2, FS_Interval, FS_Subset
  <1>3. ASSUME NEW t \in 0 .. tiles - 1 PROVE RunStarts(c, t) \subseteq 0 .. K - 1
    <2> SUFFICES ASSUME NEW k \in RunStarts(c, t) PROVE k \in 0 .. K - 1
      OBVIOUS
    <2>1. t \in Nat
      BY <1>1
    <2>2. t * Lanes \in Nat /\ (t + 1) * Lanes \in Nat
      BY <1>1, <2>1
    <2>3. k \in t * Lanes .. Least((t + 1) * Lanes, K) - 1
      BY DEF RunStarts
    <2> HIDE DEF K
    <2>4. Least((t + 1) * Lanes, K) \in Int /\ Least((t + 1) * Lanes, K) <= K
      BY <1>1, <2>2 DEF Least
    <2> QED  BY <1>1, <2>2, <2>3, <2>4
  <1>4. UNION {RunStarts(c, t) : t \in 0 .. tiles - 1} \subseteq 0 .. K - 1
    BY <1>3
  <1>5. IsFiniteSet(0 .. K - 1)
    BY <1>1, FS_Interval
  <1> QED  BY <1>2, <1>4, <1>5, FS_Subset

LEMMA ConfigTame ==
    /\ \A c, k_tiles : Harmless(Linebuffer(LinebufConfig(c, FALSE, k_tiles)))
    /\ \A c, kgen, k_tiles : Tame(Linebuffer(LinebufConfig(c, kgen, k_tiles)))
    /\ \A c, part, psum, accum, cells :
          /\ Tame(TileJob(c, part, psum, accum, cells))
          /\ SumsInTime \/ ~accum => Fits(TileJob(c, part, psum, accum, cells))
    /\ \A c, b, part, psum, cells :
          LET job_ == GroupSpan(b, TileJob(c, part, psum, FALSE, cells)) IN Tame(job_) /\ Fits(job_)
  <1>1. ASSUME NEW c, NEW kgen, NEW k_tiles
        PROVE  /\ "mode" \in DOMAIN LinebufConfig(c, kgen, k_tiles)
               /\ LinebufConfig(c, kgen, k_tiles).mode = "conv"
    BY DEF LinebufConfig
  <1>2. \A c, kgen, k_tiles : Tame(Linebuffer(LinebufConfig(c, kgen, k_tiles)))
    BY <1>1, TameLinebuffer
  <1>3. ASSUME NEW c, NEW k_tiles PROVE Harmless(Linebuffer(LinebufConfig(c, FALSE, k_tiles)))
    <2> DEFINE lb == LinebufConfig(c, FALSE, k_tiles)
    <2>1. lb.stationary = FALSE
      BY DEF LinebufConfig
    <2>2. lb.mode # "depthwise"
      BY <1>1
    <2> HIDE DEF lb
    <2>3. ~SeveralTiles(lb)
      BY <2>1 DEF SeveralTiles, KTiles
    <2> QED  BY <2>2, <2>3, HarmlessRegs DEF lb
  <1> DEFINE fields(c, part, psum, accum, cells) ==
                /\ {"accum", "lb"} \subseteq DOMAIN TileJob(c, part, psum, accum, cells)
                /\ TileJob(c, part, psum, accum, cells).accum = accum
                /\ TileJob(c, part, psum, accum, cells).lb = LinebufConfig(part, TRUE, CeilDiv(KTotal(c), Lanes))
             fits(c, part, psum, accum, cells) ==
                /\ Tame(TileJob(c, part, psum, accum, cells))
                /\ SumsInTime \/ ~accum => Fits(TileJob(c, part, psum, accum, cells))
  <1>4. ASSUME NEW c, NEW part, NEW psum, NEW accum, NEW cells
        PROVE  fits(c, part, psum, accum, cells) /\ fields(c, part, psum, accum, cells)
    <2> DEFINE stride == IF part.output_w = c.output_w THEN 0 ELSE c.output_w * cells
               lb == LinebufConfig(part, TRUE, CeilDiv(KTotal(c), Lanes))
               on == Linebuffer(lb)
               req == Preload(Local(c.weights), 0, psum, part.ofm, SpatialRows(part), accum, stride,
                              IF stride = 0 THEN 0 ELSE part.output_w, IF cells = 4 THEN stride ELSE 0)
    <2>1. TileJob(c, part, psum, accum, cells) = on ++ req
      BY DEF TileJob
    <2>2. Tame(on) /\ Tame(req)
      BY <1>2, HarmlessRegs, HarmlessTame
    <2>3. "accum" \in DOMAIN req /\ req.accum = accum /\ "lb" \notin DOMAIN req
      BY DEF Preload
    <2>4. "accum" \notin DOMAIN on /\ "lb" \in DOMAIN on /\ on.lb = lb
      <3> HIDE DEF lb
      <3> QED  BY DEF Linebuffer
    <2> HIDE DEF on, req
    <2>5. {"accum", "lb"} \subseteq DOMAIN (on ++ req) /\ (on ++ req).accum = accum /\ (on ++ req).lb = lb
      BY <2>3, <2>4 DEF ++
    <2>6. SumsInTime \/ ~accum => Fits(on ++ req)
      BY <2>3, <2>4, FitsMerge DEF Fits
    <2> QED  BY <2>1, <2>2, <2>5, <2>6, TameMerge
  <1>5. ASSUME NEW c, NEW b, NEW part, NEW psum, NEW cells
        PROVE  /\ Tame(GroupSpan(b, TileJob(c, part, psum, FALSE, cells)))
               /\ Fits(GroupSpan(b, TileJob(c, part, psum, FALSE, cells)))
    <2>0. PICK no \in BOOLEAN : no = FALSE
      OBVIOUS
    <2> DEFINE tile == TileJob(c, part, psum, no, cells)
               lb == LinebufConfig(part, TRUE, CeilDiv(KTotal(c), Lanes))
               span == b.input_h * RowStride(b)
    <2>1. {"accum", "lb"} \subseteq DOMAIN tile /\ tile.lb = lb /\ tile.accum = no
      <3> HIDE DEF fits, fields
      <3>1. fields(c, part, psum, no, cells)
        BY <1>4
      <3> QED  BY <3>1 DEF fields
    <2>2. "mode" \in DOMAIN lb /\ lb.mode = "conv"
      BY <1>1
    <2>3. GroupSpan(b, tile) = IF tile.lb.stationary THEN [tile EXCEPT !.lb.span = span] ELSE tile
      BY DEF GroupSpan
    <2>4. Tame(tile) /\ Fits(tile)
      <3> HIDE DEF fits, fields
      <3>1. fits(c, part, psum, no, cells)
        BY <1>4
      <3> QED  BY <3>1, <2>0 DEF fits
    <2> HIDE DEF tile, lb, span
    <2>5. /\ [tile EXCEPT !.lb.span = span].lb = [tile.lb EXCEPT !.span = span]
          /\ [tile EXCEPT !.lb.span = span].accum = no
      BY <2>1
    <2>6. [lb EXCEPT !.span = span].mode = "conv"
      BY <2>2
    <2>7. Tame([tile EXCEPT !.lb.span = span]) /\ Fits([tile EXCEPT !.lb.span = span])
      <3>1. DOMAIN [tile EXCEPT !.lb.span = span] = DOMAIN tile
        OBVIOUS
      <3> QED  BY <2>0, <2>1, <2>4, <2>5, <2>6, <3>1 DEF Tame, Fits
    <2> QED  BY <2>0, <2>3, <2>4, <2>7 DEF tile
  <1> QED  BY <1>2, <1>3, <1>4, <1>5

LEMMA TurnsConfig ==
    ASSUME NEW c, NEW d \in BOOLEAN
    PROVE  /\ Turns(CoalesceConfig(c), Free(d), Free(d)) /\ Turns(KgenConfig(c), Free(d), Tiles(d))
           /\ SumsInTime \/ ~c.accumulate => Turns(KgenTile(c), Free(d), Free(d))
  <1>1. Turns(CoalesceConfig(c), Free(d), Free(d)) /\ Turns(KgenConfig(c), Free(d), Tiles(d))
    BY ConfigTame, TurnsSet, TurnsSetTiles DEF CoalesceConfig, KgenConfig
  <1>2. SumsInTime \/ ~c.accumulate =>
            Turns(LinebufGemm(c.weights, c.ofm, c.ofm, SpatialRows(c), c.accumulate, FALSE, 0, 0, 0), Tiles(d), Free(d))
    BY TurnsLinebufTiles
  <1> QED  BY <1>1, <1>2, TurnsJoin DEF KgenTile

\* Tap by tap: a job for each run of lanes, row and chunk.
LEMMA TurnsTapByTap ==
    ASSUME NEW c \in ConvCommand, NEW d \in BOOLEAN
    PROVE  Turns(TapByTap(c), Free(d), Free(d))
  <1> DEFINE window_(k, oh, ow, chunk) ==
                [mode |-> "conv", input_h |-> 1, input_w |-> (chunk - 1) * c.stride_w + 1, output_w |-> chunk,
                 base |-> PixelAddress(c, oh * c.stride_h + TapH(c, k) - c.pad_h, ow * c.stride_w + TapW(c, k) - c.pad_w,
                                       k % c.input_c),
                 stride_h |-> 1, stride_w |-> c.stride_w, pad_h |-> 0, pad_w |-> 0, kernel_h |-> 1, kernel_w |-> 1,
                 row_stride |-> RowStride(c), oh_step |-> RowStride(c), pixel_stride |-> InputStride(c),
                 channels |-> RunLength(c, k), lane_base |-> k % Lanes, stationary |-> FALSE, groups |-> 1,
                 span |-> 0, k_tiles |-> 0]
             out(oh, ow) == c.ofm + (oh * c.output_w + ow) * 4
             job_(k, oh, ow, chunk) ==
                Set(Linebuffer(window_(k, oh, ow, chunk)))
                \o LinebufGemm(c.weights + (k \div Lanes), out(oh, ow), out(oh, ow), chunk, TRUE, FALSE, 0, 0, 0)
             n(k) == Cardinality(RangeW(c, k))
             chunks(k, oh) ==
                [i \in 1 .. CeilDiv(n(k), AccumTileM) |->
                    job_(k, oh, Min(RangeW(c, k)) + (i - 1) * AccumTileM, Least(AccumTileM, n(k) - (i - 1) * AccumTileM))]
             ohs(k) == InOrder(RangeH(c, k))
             rows(k) == [i \in DOMAIN ohs(k) |-> FlattenSeq(chunks(k, ohs(k)[i]))]
             runs == InOrder(UNION {RunStarts(c, t) : t \in 0 .. CeilDiv(KTotal(c), Lanes) - 1})
             all == [i \in DOMAIN runs |-> FlattenSeq(rows(runs[i]))]
             clear == IF c.accumulate THEN <<>> ELSE Vector("clear", <<c.ofm, 4 * SpatialRows(c)>>)
  <1>1. ASSUME NEW k, NEW oh, NEW ow, NEW chunk PROVE Turns(job_(k, oh, ow, chunk), Free(d), Free(d))
    <2>1. window_(k, oh, ow, chunk).mode # "depthwise" /\ window_(k, oh, ow, chunk).stationary = FALSE
      OBVIOUS
    <2> HIDE DEF window_
    <2>4. ~SeveralTiles(window_(k, oh, ow, chunk))
      BY <2>1 DEF SeveralTiles, KTiles
    <2>2. Turns(Set(Linebuffer(window_(k, oh, ow, chunk))), Free(d), Free(d))
      BY <2>1, <2>4, HarmlessRegs, TurnsSet
    <2>3. Turns(LinebufGemm(c.weights + (k \div Lanes), out(oh, ow), out(oh, ow), chunk, TRUE, FALSE, 0, 0, 0),
                Free(d), Free(d))
      BY TurnsLinebuf
    <2> QED  BY <2>2, <2>3, TurnsJoin
  <1> HIDE DEF job_
  <1>2. ASSUME NEW k, NEW oh PROVE Turns(FlattenSeq(chunks(k, oh)), Free(d), Free(d))
    <2> DEFINE m == CeilDiv(n(k), AccumTileM)
    <2>1. m \in Int
      <3>1. n(k) \in Int
        BY RangesFinite, OrderCounts
      <3> HIDE DEF n
      <3> QED  BY <3>1, RowsAssumption, CeilDivInt
    <2>2. \A i \in 1 .. m : Turns(chunks(k, oh)[i], Free(d), Free(d))
      BY <1>1
    <2>3. chunks(k, oh) = [i \in 1 .. m |-> chunks(k, oh)[i]]
      OBVIOUS
    <2> HIDE DEF chunks, m
    <2> QED  BY <2>1, <2>2, <2>3, FreePhase, TurnsLoop
  <1> HIDE DEF chunks
  <1>3. ASSUME NEW k PROVE Turns(FlattenSeq(rows(k)), Free(d), Free(d))
    <2> DEFINE m == Cardinality(RangeH(c, k))
    <2>1. m \in Int /\ DOMAIN ohs(k) = 1 .. m
      BY RangesFinite, OrderCounts
    <2> HIDE DEF ohs, m
    <2>2. \A i \in 1 .. m : Turns(rows(k)[i], Free(d), Free(d))
      BY <1>2, <2>1
    <2>3. rows(k) = [i \in 1 .. m |-> rows(k)[i]]
      BY <2>1
    <2> HIDE DEF rows
    <2> QED  BY <2>1, <2>2, <2>3, FreePhase, TurnsLoop
  <1> HIDE DEF rows
  <1>4. Turns(FlattenSeq(all), Free(d), Free(d))
    <2> DEFINE keys == UNION {RunStarts(c, t) : t \in 0 .. CeilDiv(KTotal(c), Lanes) - 1}
               m == Cardinality(keys)
    <2>1. m \in Int /\ DOMAIN runs = 1 .. m
      <3>1. IsFiniteSet(keys)
        BY RunsFinite
      <3>2. runs = InOrder(keys) /\ m = Cardinality(keys)
        OBVIOUS
      <3> HIDE DEF keys, runs, m
      <3> QED  BY <3>1, <3>2, OrderCounts
    <2> HIDE DEF runs, keys, m
    <2>2. \A i \in 1 .. m : Turns(all[i], Free(d), Free(d))
      BY <1>3, <2>1
    <2>3. all = [i \in 1 .. m |-> all[i]]
      BY <2>1
    <2> HIDE DEF all
    <2> QED  BY <2>1, <2>2, <2>3, FreePhase, TurnsLoop
  <1>5. Turns(clear, Free(d), Free(d))
    BY TurnsQuiet, TurnsNone, FreePhase
  <1> HIDE DEF all, clear
  <1>6. Turns(clear \o FlattenSeq(all), Free(d), Free(d))
    BY <1>4, <1>5, TurnsJoin
  <1> QED  BY <1>6 DEF TapByTap, clear, all, runs, rows, ohs, chunks, n, job_, out, window_

\* What the vector unit does when a transfer is refused or late.
LEMMA StillJoin ==
    ASSUME NEW s, NEW t, Still(s), Still(t)
    PROVE  Still(s \o t)
  <1>1. /\ IsSequence(s) /\ IsSequence(t)
        /\ \A i \in 1 .. Len(s) : s[i].op = "vector"
        /\ \A i \in 1 .. Len(t) : t[i].op = "vector"
    BY DEF Still
  <1>2. /\ IsSequence(s \o t) /\ Len(s \o t) = Len(s) + Len(t)
        /\ Len(s) \in Nat /\ Len(t) \in Nat
        /\ \A i \in 1 .. Len(s) : (s \o t)[i] = s[i]
        /\ \A i \in 1 .. Len(t) : (s \o t)[Len(s) + i] = t[i]
    BY <1>1, Joined
  <1>3. ASSUME NEW i \in 1 .. Len(s) + Len(t) PROVE (s \o t)[i].op = "vector"
    <2>1. CASE i <= Len(s)
      <3>1. i \in 1 .. Len(s)
        BY <1>2, <2>1
      <3>2. (s \o t)[i] = s[i] /\ s[i].op = "vector"
        BY <1>1, <1>2, <3>1
      <3> QED  BY <3>2
    <2>2. CASE i > Len(s)
      <3>1. i - Len(s) \in 1 .. Len(t) /\ Len(s) + (i - Len(s)) = i
        BY <1>2, <2>2
      <3>2. (s \o t)[i] = t[i - Len(s)] /\ t[i - Len(s)].op = "vector"
        BY <1>1, <1>2, <3>1
      <3> QED  BY <3>2
    <2> QED  BY <1>2, <2>1, <2>2
  <1> QED  BY <1>2, <1>3 DEF Still

LEMMA StillVector ==
    ASSUME NEW x, NEW y
    PROVE  Still(Vector(x, y))
  <1> DEFINE op == [op |-> "vector", kernel |-> x, args |-> y]
  <1>1. op.op = "vector"
    OBVIOUS
  <1> HIDE DEF op
  <1>2. <<op>> \in Seq({op}) /\ Len(<<op>>) = 1 /\ <<op>>[1] = op
    OBVIOUS
  <1>3. \A i \in 1 .. Len(<<op>>) : <<op>>[i].op = "vector"
    BY <1>1, <1>2
  <1>4. Still(<<op>>)
    BY <1>2, <1>3 DEF Still, IsSequence
  <1> QED  BY <1>4 DEF Vector, op

LEMMA TurnsFetch ==
    ASSUME NEW copies, NEW fallback, Still(fallback), NEW p \in Phases, ~p.afu
    PROVE  Turns(Fetch(copies, fallback), p, p)
  <1> DEFINE op == [op |-> "fetch", copies |-> copies, fallback |-> fallback]
  <1>1. op.op = "fetch" /\ op.fallback = fallback
    OBVIOUS
  <1> HIDE DEF op
  <1>2. Takes(op, p, p)
    BY <1>1 DEF Takes, Moves
  <1>3. Turns(<<op>>, p, p)
    BY <1>2, TurnsOne
  <1> QED  BY <1>3 DEF Fetch, op

\* Preparing a tile of channels uses the DMA and the vector unit.
LEMMA TurnsPrepare ==
    ASSUME NEW c \in ConvCommand, NEW t \in Int, NEW p \in Phases, ~p.afu
    PROVE  Turns(PrepareTile(c, t), p, p)
  <1> DEFINE cleared   == Vector("clear", <<c.im2col, SpatialRows(c)>>)
             pixels    == Gather(PixelsCopy(c, t))
             segmented == cleared \o Gather(SegmentedCopy(c, t))
             runs == InOrder(PlannedRuns(c, t))
             boxes == [i \in DOMAIN runs |-> BoxCopy(c, runs[i])]
             copies == [i \in DOMAIN boxes |-> Gather(boxes[i])]
             fill == CASE IsContiguous1x1(c) -> IF IsL1(c.input + c.c_base + t * Lanes) THEN pixels
                                                ELSE Fetch(<<PixelsCopy(c, t)>>, pixels)
                       [] ~IsContiguous1x1(c) /\ (PlanOverflow(c) \/ runs = <<>>) -> segmented
                       [] OTHER -> IF IsL1(c.input) THEN FlattenSeq(copies) ELSE Fetch(boxes, segmented)
  <1>1. Turns(cleared, p, p) /\ Turns(pixels, p, p) /\ Turns(segmented, p, p)
    BY TurnsQuiet, TurnsJoin DEF Gather
  <1>2. Still(pixels) /\ Still(segmented)
    BY StillVector, StillJoin DEF Gather
  <1>3. Turns(FlattenSeq(copies), p, p)
    <2> DEFINE m == Cardinality(PlannedRuns(c, t))
    <2>1. m \in Int /\ DOMAIN runs = 1 .. m
      <3>1. PlannedRuns(c, t) \subseteq RunStarts(c, t)
        BY DEF PlannedRuns
      <3>2. IsFiniteSet(PlannedRuns(c, t))
        BY <3>1, RunsFinite, FS_Subset
      <3> QED  BY <3>2, OrderCounts
    <2> HIDE DEF runs, m
    <2>2. DOMAIN boxes = 1 .. m
      BY <2>1
    <2> HIDE DEF boxes
    <2>3. \A i \in 1 .. m : Turns(copies[i], p, p)
      BY <2>2, TurnsQuiet DEF Gather
    <2>4. copies = [i \in 1 .. m |-> copies[i]]
      BY <2>2
    <2> HIDE DEF copies
    <2> QED  BY <2>1, <2>3, <2>4, TurnsLoop
  <1> HIDE DEF cleared, pixels, segmented, boxes, copies, runs
  <1>4. Turns(Fetch(<<PixelsCopy(c, t)>>, pixels), p, p) /\ Turns(Fetch(boxes, segmented), p, p)
    BY <1>2, TurnsFetch
  <1>5. Turns(fill, p, p)
    <2>1. CASE IsContiguous1x1(c)
      BY <1>1, <1>4, <2>1
    <2>2. CASE ~IsContiguous1x1(c)
      BY <1>1, <1>3, <1>4, <2>2
    <2> QED  BY <2>1, <2>2
  <1> HIDE DEF fill
  <1>6. Turns(cleared \o fill, p, p)
    BY <1>1, <1>5, TurnsJoin
  <1> QED  BY <1>6 DEF PrepareTile, fill, cleared, pixels, segmented, boxes, copies, runs

LEMMA TileOhPositive ==
    ASSUME NEW c \in ConvCommand, c.output_w # 0
    PROVE  DefaultTileOh(c) \in Nat \ {0}
  <1> DEFINE by_m     == Greatest(TileM \div c.output_w, 1)
             by_cache == IF c.kernel_h <= LinebufKMax /\ c.stride_h # 0
                         THEN (LinebufKMax - c.kernel_h) \div c.stride_h + 1 ELSE 1
  <1>1. /\ c.output_w \in Nat \ {0} /\ c.kernel_h \in Nat /\ c.stride_h \in Nat
        /\ TileM \in Nat \ {0} /\ LinebufKMax \in Nat \ {0}
    BY RowsAssumption, ConvAssumption DEF ConvCommand
  <1>2. by_m \in Nat \ {0}
    <2>1. TileM \div c.output_w \in Int
      BY <1>1
    <2> QED  BY <2>1 DEF Greatest
  <1>3. by_cache \in Nat \ {0}
    <2>1. CASE c.kernel_h <= LinebufKMax /\ c.stride_h # 0
      <3> DEFINE a == LinebufKMax - c.kernel_h
                 b == c.stride_h
      <3>1. a \in Nat /\ b \in Nat \ {0}
        BY <1>1, <2>1
      <3>2. \A x \in Nat, y \in Nat \ {0} : x \div y \in Nat
        OBVIOUS
      <3>3. a \div b \in Nat
        BY <3>1, <3>2
      <3> QED  BY <2>1, <3>3
    <2>2. CASE ~(c.kernel_h <= LinebufKMax /\ c.stride_h # 0)
      BY <2>2
    <2> QED  BY <2>1, <2>2
  <1> HIDE DEF by_m, by_cache
  <1>4. Least(by_m, by_cache) \in Nat \ {0}
    BY <1>2, <1>3 DEF Least
  <1> QED  BY <1>2, <1>4 DEF DefaultTileOh, by_m, by_cache

LEMMA StripesMany ==
    ASSUME NEW c \in ConvCommand, NEW step \in Nat \ {0}, NEW cells
    PROVE  CeilDiv(c.output_h, step) \in Int /\ DOMAIN Stripes(c, step, cells) = 1 .. CeilDiv(c.output_h, step)
  <1>1. c.output_h \in Int
    BY DEF ConvCommand
  <1> QED  BY <1>1, CeilDivInt DEF Stripes

\* A stripe accumulates as the whole does.
LEMMA StripesAccumulate ==
    ASSUME NEW c \in ConvCommand, NEW step, NEW cells, NEW i \in DOMAIN Stripes(c, step, cells)
    PROVE  Stripes(c, step, cells)[i].accumulate = c.accumulate
  <1>1. "accumulate" \in DOMAIN c
    BY DEF ConvCommand
  <1>2. ASSUME NEW oh, NEW ow, NEW th, NEW tw PROVE OutputTile(c, oh, ow, th, tw, cells).accumulate = c.accumulate
    BY <1>1 DEF OutputTile
  <1> QED  BY <1>2 DEF Stripes

LEMMA ValidWidth ==
    ASSUME NEW c, Valid(c)
    PROVE  c.output_w # 0
  BY DEF Valid

LEMMA TurnsLinebufConv ==
    ASSUME NEW c \in ConvCommand, c.accumulate /\ KgenShapeSupported(c) => SumsInTime, NEW d \in BOOLEAN
    PROVE  Turns(LinebufConv(c), Free(d), Free(d))
  <1> DEFINE stripes == Stripes(c, DefaultTileOh(c), 4)
             steps == [i \in DOMAIN stripes |-> KgenTile(stripes[i])]
             coalesced == CoalesceConfig(c) \o LinebufGemm(c.weights, IF c.accumulate THEN c.ofm ELSE 0, c.ofm,
                                                           SpatialRows(c), c.accumulate, FALSE, 0, 0, 0)
  <1>1. Turns(Rejected, Free(d), Free(d))
    BY TurnsRejected, FreePhase
  <1>2. Turns(coalesced, Free(d), Free(d))
    BY TurnsConfig, TurnsLinebuf, TurnsJoin
  <1>3. /\ KgenShapeSupported(c) => Turns(KgenTile(c), Free(d), Free(d))
        /\ Turns(TapByTap(c), Free(d), Free(d))
    BY TurnsConfig, TurnsTapByTap
  <1>8. KgenSupported(c) => KgenShapeSupported(c)
    BY DEF KgenSupported
  <1>4. Valid(c) /\ KgenShapeSupported(c) => Turns(FlattenSeq(steps), Free(d), Free(d))
    <2> SUFFICES ASSUME Valid(c), KgenShapeSupported(c) PROVE Turns(FlattenSeq(steps), Free(d), Free(d))
      OBVIOUS
    <2>4. \A i \in DOMAIN stripes : SumsInTime \/ ~stripes[i].accumulate
      BY StripesAccumulate
    <2> DEFINE m == CeilDiv(c.output_h, DefaultTileOh(c))
    <2>1. m \in Int /\ DOMAIN stripes = 1 .. m
      BY ValidWidth, TileOhPositive, StripesMany
    <2> HIDE DEF stripes, m
    <2>2. \A i \in 1 .. m : Turns(steps[i], Free(d), Free(d))
      BY <2>1, <2>4, TurnsConfig
    <2>3. steps = [i \in 1 .. m |-> steps[i]]
      BY <2>1
    <2> HIDE DEF steps
    <2> QED  BY <2>1, <2>2, <2>3, FreePhase, TurnsLoop
  <1> HIDE DEF coalesced, steps
  <1>5. LinebufConv(c) = IF ~Valid(c) \/ ~LinebufSupported(c) THEN Rejected
                         ELSE CASE CoalesceSupported(c) -> coalesced
                                [] KgenSupported(c) -> KgenTile(c)
                                [] KgenShapeSupported(c) /\ ~KgenSupported(c) -> FlattenSeq(steps)
                                [] OTHER -> TapByTap(c)
    BY DEF LinebufConv, coalesced, steps, stripes
  <1>6. CASE ~Valid(c)
    BY <1>1, <1>5, <1>6
  <1>7. CASE Valid(c)
    BY <1>1, <1>2, <1>3, <1>4, <1>5, <1>7, <1>8
  <1> QED  BY <1>6, <1>7

LEMMA TurnsConv32 ==
    ASSUME NEW c \in ConvCommand, c.accumulate /\ KgenShapeSupported(c) => SumsInTime, NEW d \in BOOLEAN
    PROVE  Turns(Conv32(c), Free(d), Free(d))
  <1> DEFINE call(t) == IF t = 0 /\ ~c.accumulate THEN Gemm32(Local(c.weights), c.im2col, c.ofm, SpatialRows(c))
                        ELSE Accumulate(Local(c.weights + t), c.im2col, c.ofm, c.ofm, SpatialRows(c))
             step(t) == PrepareTile(c, t) \o call(t)
             n == CeilDiv(KTotal(c), Lanes)
             steps == [t \in 1 .. n |-> step(t - 1)]
  <1>1. n \in Int /\ SpatialRows(c) \in Int
    BY ConvCounts
  <1>2. ASSUME NEW t \in Int PROVE Turns(step(t), Free(d), Free(d))
    <2>1. Turns(PrepareTile(c, t), Free(d), Free(d))
      BY TurnsPrepare, FreePhase
    <2>2. Turns(call(t), Free(d), Free(d))
      BY <1>1, TurnsGroup
    <2> HIDE DEF call
    <2> QED  BY <2>1, <2>2, TurnsJoin
  <1> HIDE DEF step
  <1>3. Turns(FlattenSeq(steps), Free(d), Free(d))
    <2> HIDE DEF n
    <2>1. \A t \in 1 .. n : Turns(steps[t], Free(d), Free(d))
      BY <1>1, <1>2
    <2>2. steps = [t \in 1 .. n |-> steps[t]]
      OBVIOUS
    <2> HIDE DEF steps
    <2> QED  BY <1>1, <2>1, <2>2, FreePhase, TurnsLoop
  <1>4. Turns(LinebufConv(c), Free(d), Free(d)) /\ Turns(Rejected, Free(d), Free(d))
    BY TurnsLinebufConv, TurnsRejected, FreePhase
  <1> HIDE DEF steps
  <1>5. Conv32(c) = CASE ~Valid(c) -> Rejected
                      [] Valid(c) /\ LinebufSupported(c) -> LinebufConv(c)
                      [] OTHER -> FlattenSeq(steps)
    BY DEF Conv32, steps, step, call, n
  <1> QED  BY <1>3, <1>4, <1>5

LEMMA TurnsConv32Requant ==
    ASSUME NEW c \in ConvCommand, NEW d \in BOOLEAN
    PROVE  Turns(Conv32Requant(c), Free(d), Free(d))
  <1> DEFINE rows == SpatialRows(c)
             n == CeilDiv(KTotal(c), Lanes)
             call(t) == GroupProgram(Local(c.weights + t), c.im2col, c.ofm + rows, c.ofm, rows, t, n)
             step(t) == PrepareTile(c, t) \o call(t)
             steps == [t \in 1 .. n |-> step(t - 1)]
  <1>1. n \in Int /\ rows \in Int
    BY ConvCounts
  <1>2. ASSUME NEW t \in Int PROVE Turns(step(t), Free(d), Free(d))
    <2>1. Turns(PrepareTile(c, t), Free(d), Free(d))
      BY TurnsPrepare, FreePhase
    <2>2. Turns(call(t), Free(d), Free(d))
      BY <1>1, TurnsGroup
    <2> HIDE DEF call
    <2> QED  BY <2>1, <2>2, TurnsJoin
  <1> HIDE DEF step
  <1>3. Turns(FlattenSeq(steps), Free(d), Free(d))
    <2> HIDE DEF n
    <2>1. \A t \in 1 .. n : Turns(steps[t], Free(d), Free(d))
      BY <1>1, <1>2
    <2>2. steps = [t \in 1 .. n |-> steps[t]]
      OBVIOUS
    <2> HIDE DEF steps
    <2> QED  BY <1>1, <2>1, <2>2, FreePhase, TurnsLoop
  <1> HIDE DEF steps
  <1>4. Conv32Requant(c) = IF ~Valid(c) THEN Rejected ELSE FlattenSeq(steps)
    BY DEF Conv32Requant, steps, step, call, n, rows
  <1> QED  BY <1>3, <1>4, TurnsRejected, FreePhase

LEMMA TurnsLinebufRequant ==
    ASSUME NEW c \in ConvCommand, NEW d \in BOOLEAN
    PROVE  Turns(LinebufConvRequant(c), Free(d), Free(d))
  <1> DEFINE height == Greatest(TileM \div c.output_w, 1)
             stripes == Stripes(c, height, 1)
             step(s) == IF ~CoalesceSupported(s) THEN Rejected
                        ELSE CoalesceConfig(s) \o LinebufGemm(s.weights, 0, s.ofm, SpatialRows(s), FALSE, TRUE, 0, 0, 0)
             steps == [i \in DOMAIN stripes |-> step(stripes[i])]
             refused == ~Valid(c) \/ ~LinebufSupported(c) \/ c.accumulate \/ KTotal(c) > Lanes
  <1>1. LinebufConvRequant(c) = IF refused THEN Rejected ELSE FlattenSeq(steps)
    BY DEF LinebufConvRequant
  <1>2. CASE refused
    BY <1>1, <1>2, TurnsRejected, FreePhase
  <1>3. CASE ~refused
    <2> DEFINE m == CeilDiv(c.output_h, height)
    <2>1. height \in Nat \ {0}
      <3>1. c.output_w \in Nat \ {0} /\ TileM \in Nat
        BY <1>3, ValidWidth, RowsAssumption DEF ConvCommand
      <3>2. TileM \div c.output_w \in Int
        BY <3>1
      <3> QED  BY <3>2 DEF Greatest
    <2> HIDE DEF height
    <2>2. m \in Int /\ DOMAIN stripes = 1 .. m
      BY <2>1, StripesMany
    <2>3. ASSUME NEW s PROVE Turns(step(s), Free(d), Free(d))
      <3>1. Turns(CoalesceConfig(s) \o LinebufGemm(s.weights, 0, s.ofm, SpatialRows(s), FALSE, TRUE, 0, 0, 0),
                  Free(d), Free(d))
        BY TurnsConfig, TurnsLinebuf, TurnsJoin
      <3> QED  BY <3>1, TurnsRejected, FreePhase
    <2> HIDE DEF stripes, step, m
    <2>4. \A i \in 1 .. m : Turns(steps[i], Free(d), Free(d))
      BY <2>2, <2>3
    <2>5. steps = [i \in 1 .. m |-> steps[i]]
      BY <2>2
    <2> HIDE DEF steps, refused
    <2>6. Turns(FlattenSeq(steps), Free(d), Free(d))
      BY <2>2, <2>4, <2>5, FreePhase, TurnsLoop
    <2> QED  BY <1>1, <1>3, <2>6
  <1> QED  BY <1>2, <1>3

LEMMA TilesMany ==
    ASSUME NEW c \in ConvCommand, c.tiles # <<>>
    PROVE  \E n \in Nat \ {0} : DOMAIN c.tiles = 1 .. n
  <1>1. PICK T : c.tiles \in Seq(T)
    BY DEF ConvCommand
  <1>2. Len(c.tiles) \in Nat /\ DOMAIN c.tiles = 1 .. Len(c.tiles) /\ Len(c.tiles) # 0
    BY <1>1
  <1> QED  BY <1>2

LEMMA TurnsTiles ==
    ASSUME NEW c \in ConvCommand, c.accumulate /\ KgenShapeSupported(c) => SumsInTime, NEW d \in BOOLEAN
    PROVE  Turns(TilesConv(c), Free(d), Free(d)) /\ Turns(TilesConvRequant(c), Free(d), Free(d))
  <1> DEFINE part(tile) == OutputTile(c, tile.oh, tile.ow, tile.th, TileOw(c, tile), 4)
             job_(tile) == TileJob(c, part(tile), part(tile).ofm, c.accumulate, 4)
             jobs == [i \in DOMAIN c.tiles |-> job_(c.tiles[i])]
             partq(tile) == OutputTile(c, tile.oh, tile.ow, tile.th, TileOw(c, tile), 1)
             psum(tile) == c.psum + (tile.oh * c.output_w + tile.ow) * 4
             jobq(tile) == GroupSpan(c, TileJob(c, partq(tile), psum(tile), FALSE, 1))
             jobsq == [i \in DOMAIN c.tiles |-> jobq(c.tiles[i])]
  <1>1. \A tile : /\ Tame(job_(tile)) /\ (SumsInTime \/ ~c.accumulate => Fits(job_(tile)))
                   /\ Tame(jobq(tile)) /\ Fits(jobq(tile))
    BY ConfigTame
  <1>2. /\ TilesConv(c) = IF ~TilesAccepted(c) THEN Rejected ELSE Set(Requant(FALSE)) \o LinebufJobs(jobs)
        /\ TilesConvRequant(c) = IF ~TilesAccepted(c) \/ c.psum = 0 \/ c.accumulate THEN Rejected
                                 ELSE Set(Requant(TRUE)) \o LinebufJobs(jobsq)
    BY DEF TilesConv, TilesConvRequant
  <1> HIDE DEF job_, jobq
  <1>3. Turns(Rejected, Free(d), Free(d))
    BY TurnsRejected, FreePhase
  <1>4. CASE ~TilesAccepted(c)
    BY <1>2, <1>3, <1>4
  <1>5. CASE TilesAccepted(c)
    <2>6. c.tiles # <<>> /\ KgenShapeSupported(c)
      BY <1>5 DEF TilesAccepted
    <2>1. PICK n \in Nat \ {0} : DOMAIN c.tiles = 1 .. n
      BY <2>6, TilesMany
    <2>2. /\ jobs = [i \in 1 .. n |-> jobs[i]] /\ \A i \in 1 .. n : Tame(jobs[i]) /\ Fits(jobs[i])
          /\ jobsq = [i \in 1 .. n |-> jobsq[i]] /\ \A i \in 1 .. n : Tame(jobsq[i]) /\ Fits(jobsq[i])
      BY <1>1, <2>1, <2>6
    <2> HIDE DEF jobs, jobsq
    <2>3. Turns(LinebufJobs(jobs), Free(d), Free(d)) /\ Turns(LinebufJobs(jobsq), Free(d), Free(d))
      BY <2>1, <2>2, TurnsJobs
    <2>4. Turns(Set(Requant(FALSE)), Free(d), Free(d)) /\ Turns(Set(Requant(TRUE)), Free(d), Free(d))
      BY TurnsSet, HarmlessRegs
    <2>5. /\ Turns(Set(Requant(FALSE)) \o LinebufJobs(jobs), Free(d), Free(d))
          /\ Turns(Set(Requant(TRUE)) \o LinebufJobs(jobsq), Free(d), Free(d))
      BY <2>3, <2>4, TurnsJoin
    <2> QED  BY <1>2, <1>3, <2>5
  <1> QED  BY <1>4, <1>5

LEMMA TurnsTileAccumulate ==
    ASSUME NEW c, c.accumulate /\ KgenShapeSupported(c) => SumsInTime, NEW d \in BOOLEAN
    PROVE  Turns(TileAccumulateRequantConv(c), Free(d), Free(d))
  <1> DEFINE tile == c.tiles[1]
             tw   == TileOw(c, tile)
             part == OutputTile(c, tile.oh, tile.ow, tile.th, tw, 1)
             call == LinebufGemm(c.weights, c.psum + (tile.oh * c.output_w + tile.ow) * 4, c.ofm, SpatialRows(part),
                                 TRUE, TRUE, tw, tw, c.output_w * 4)
             refused == \/ ~Valid(c) \/ c.psum = 0 \/ c.ofm = 0 \/ ~c.accumulate \/ ~KgenShapeSupported(c)
                        \/ ~TileInside(c, tile) \/ SpatialRows(part) > PsumRows
  <1>1. SumsInTime => Turns(KgenConfig(part) \o call, Free(d), Free(d))
    BY TurnsConfig, TurnsLinebufTiles, TurnsJoin
  <1>2. Turns(Rejected, Free(d), Free(d))
    BY TurnsRejected, FreePhase
  <1>3. TileAccumulateRequantConv(c) = IF refused THEN Rejected ELSE KgenConfig(part) \o call
    BY DEF TileAccumulateRequantConv
  <1>4. ~refused => SumsInTime
    OBVIOUS
  <1> HIDE DEF refused, call, part
  <1> QED  BY <1>1, <1>2, <1>3, <1>4

LEMMA TurnsConv ==
    ASSUME NEW c \in ConvCommand, AccumulatesTiles(c) => SumsInTime, NEW d \in BOOLEAN
    PROVE  Turns(ConvProgram(c), Free(d), Free(d))
  <1>1. c.type \in Convs
    BY DEF ConvCommand
  <1>2. Turns(Conv32Requant(c), Free(d), Free(d)) /\ Turns(LinebufConvRequant(c), Free(d), Free(d))
    BY TurnsConv32Requant, TurnsLinebufRequant
  <1>3. CASE c.type \in {"conv_oc32", "conv_linebuf", "conv_tiles", "conv_tile_accum_requant"}
    <2>1. c.accumulate /\ KgenShapeSupported(c) => SumsInTime
      BY <1>3 DEF AccumulatesTiles
    <2>2. /\ Turns(Conv32(c), Free(d), Free(d)) /\ Turns(LinebufConv(c), Free(d), Free(d))
          /\ Turns(TilesConv(c), Free(d), Free(d)) /\ Turns(TileAccumulateRequantConv(c), Free(d), Free(d))
      BY <2>1, TurnsConv32, TurnsLinebufConv, TurnsTiles, TurnsTileAccumulate
    <2> QED  BY <1>3, <2>2 DEF ConvProgram
  <1>4. CASE c.type = "conv_tiles_requant"
    <2>1. Turns(TilesConvRequant(c), Free(d), Free(d))
      <3>1. CASE c.accumulate
        BY <3>1, TurnsRejected, FreePhase DEF TilesConvRequant
      <3>2. CASE ~c.accumulate
        BY <3>2, TurnsTiles
      <3> QED  BY <3>1, <3>2
    <2> QED  BY <1>4, <2>1 DEF ConvProgram
  <1>5. CASE c.type \in {"conv_oc32_requant", "conv_linebuf_requant"}
    BY <1>2, <1>5 DEF ConvProgram
  <1> QED  BY <1>1, <1>3, <1>4, <1>5 DEF Convs

----
(* Every operation, started as the last one left the array. *)

LEMMA TurnsProgram ==
    ASSUME NEW c \in Commands, Scheduled(c), c.type # "rq_load"
    PROVE  /\ pending = None => \E q \in {Free(FALSE), Own(TRUE)} : Turns(Program(c), Free(FALSE), q)
           /\ pending # None => \E q \in {Free(FALSE), Own(TRUE)} : Turns(Program(c), Own(TRUE), q)
  <1>1. /\ c.type \in CommandTypes /\ (c.type = "linebuf_submit" => c # None)
        /\ c.type \in {"pointwise_c32", "pointwise_call"} => c.rows \in Nat /\ c.groups \in Nat
        /\ c.type = "pointwise_call" => c.output_groups \in Nat
        /\ c.type \in {"maxpool", "upsample_nearest"} => c.groups \in Nat
        /\ c.type = "afu_dfl16" => c.tiles \in Nat
        /\ c.type \in Convs => c \in ConvCommand
    BY CommandsAssumption
  <1>7. AccumulatesTiles(c) => SumsInTime
    BY DEF Scheduled
  <1>2. Free(FALSE) \in Phases /\ Own(TRUE) \in Phases
    BY FreePhase
  <1>3. CASE c.type \in {"afu_binary", "afu_binary_quant", "afu_lut", "afu_global_avgpool", "afu_dfl16", "spatz_add",
                         "upsample_nearest"}
    <2>1. ASSUME NEW p \in Phases, ~p.afu, p.array \in {"free", "own"} PROVE Turns(Program(c), p, p)
      <3>1. CASE c.type \in {"afu_binary", "afu_binary_quant", "afu_lut", "afu_global_avgpool"}
        BY <2>1, <3>1, TurnsAfu DEF Program, Convs
      <3>2. CASE c.type = "afu_dfl16"
        BY <1>1, <2>1, <3>2, TurnsDfl DEF Program, Convs
      <3>3. CASE c.type = "spatz_add"
        BY <2>1, <3>3, TurnsQuiet DEF Program, Convs
      <3>4. CASE c.type = "upsample_nearest"
        BY <1>1, <2>1, <3>4, TurnsUpsample DEF Program, Convs
      <3> QED  BY <1>3, <3>1, <3>2, <3>3, <3>4
    <2> QED  BY <1>2, <2>1, FreePhase
  <1>4. CASE c.type \in {"systolic_wait", "barrier"}
    <2>1. Program(c) = IF c.type = "barrier" THEN BarrierProgram ELSE SystolicWaitProgram
      BY <1>4 DEF Program, Convs
    <2> QED  BY <2>1, TurnsSystolicWait
  <1>5. CASE c.type \in {"linebuf_job", "linebuf_submit"}
    <2>1. Program(c) = LinebufProgram(c)
      BY <1>5 DEF Program, Convs
    <2>2. CASE pending = None
      <3>1. c.accum_en \in {2, 3} /\ c.k_tiles > 1 => SumsInTime
        BY <1>5, <1>7 DEF AccumulatesTiles
      <3> QED  BY <1>1, <1>5, <2>1, <2>2, <3>1, TurnsLinebufJob
    <2>3. CASE pending # None
      <3>1. Program(c) = Rejected
        BY <2>1, <2>3 DEF LinebufProgram
      <3> QED  BY <1>2, <2>3, <3>1, TurnsRejected
    <2> QED  BY <2>2, <2>3
  <1>6. CASE c.type \in {"gemm32", "gemm32_accum", "gemm32_requant", "pointwise_c32", "pointwise_call",
                         "depthwise_c32", "maxpool", "linebuf_call"} \cup Convs
    <2>1. Turns(Program(c), Free(FALSE), Free(FALSE))
      <3>1. CASE c.type \in {"gemm32", "gemm32_accum", "gemm32_requant"}
        BY <3>1, TurnsGemm DEF Program, Convs
      <3>2. CASE c.type = "pointwise_c32"
        BY <1>1, <3>2, TurnsPointwise DEF Program, Convs
      <3>3. CASE c.type = "pointwise_call"
        BY <1>1, <3>3, TurnsPointwiseCall DEF Program, Convs
      <3>4. CASE c.type = "depthwise_c32"
        BY <3>4, TurnsDepthwise DEF Program, Convs
      <3>5. CASE c.type = "maxpool"
        BY <1>1, <3>5, TurnsMaxpool DEF Program, Convs
      <3>6. CASE c.type = "linebuf_call"
        <4>1. c.accum /\ c.k_tiles > 1 => SumsInTime
          BY <1>7, <3>6 DEF AccumulatesTiles
        <4> QED  BY <3>6, <4>1, TurnsLinebufCall DEF Program, Convs
      <3>8. CASE c.type \in Convs
        <4>1. Program(c) = ConvProgram(c)
          BY <3>8 DEF Program, Convs
        <4> QED  BY <1>1, <1>7, <3>8, <4>1, TurnsConv
      <3> QED  BY <1>6, <3>1, <3>2, <3>3, <3>4, <3>5, <3>6, <3>8
    <2>2. pending = None
      <3>1. c.type \in Systolic /\ c.type \notin {"systolic_wait", "barrier", "linebuf_submit"}
        BY <1>6 DEF Systolic, Convs
      <3> QED  BY <3>1 DEF Scheduled
    <2> QED  BY <2>1, <2>2
  <1> QED  BY <1>1, <1>3, <1>4, <1>5, <1>6 DEF CommandTypes

----
(* The invariant. *)

\* What phase p says of the registers, the job and DONE.
Array(p) ==
    /\ {"lb", "rq", "table", "w", "accum"} \subseteq DOMAIN regs /\ done \in BOOLEAN
    /\ p.due <=> pending # None
    /\ p.array \in {"tap", "tapbusy"} => regs.rq = TRUE
    /\ p.array \notin {"tap", "tapbusy"} => regs.lb.mode # "depthwise"
    /\ p.array \in {"free", "busy", "tap", "tapbusy"} => ~SeveralTiles(regs.lb)
    /\ p.array \in {"ready", "own", "sure", "surebusy"} => (AddsOverTiles(regs) => SumsInTime)
    /\ p.array = "ready" => regs.w[1] = "tcdm"
    /\ p.array \in {"free", "ready", "tap", "tiles", "sure"} => job = Idle /\ ~done
    /\ p.array \in {"busy", "own", "tapbusy", "surebusy"} => IF done THEN job = Idle ELSE CanEnd(job)
    /\ p.array = "own" => job = Idle \/ job.w[1] = "tcdm"
    /\ ~p.afu \/ finished => unit = Idle

\* The rest of a load of parameters: they are decoded from the window as they were staged.
StageOp(c)  == [op |-> "stage", content |-> InSlot(0, <<"block", c.block>>)]
DecodeOp(c) == [op |-> "decode", block |-> c.block, sound |-> c.sound]
Loads(c) == \/ todo = <<[op |-> "unload"]>> \o <<StageOp(c)>> \o <<DecodeOp(c)>>
            \/ todo = <<StageOp(c)>> \o <<DecodeOp(c)>>
            \/ todo = <<DecodeOp(c)>> /\ window[0] = <<"block", c.block>>

\* The parameters the firmware takes for loaded are those of the requantiser.
ParametersCurrent == loaded # None => regs.table = loaded

\* What the core has yet to do leads from where the array is to where a command may leave it, or loads
\* parameters.
Leads   == \E p \in Phases, q \in {Free(FALSE), Own(TRUE)} : Turns(todo, p, q) /\ Array(p)
Loading == Array(Free(FALSE)) /\ \E c \in Commands : Loads(c)

Inv ==
    /\ status \in {"ok", "failed"}
    /\ status = "failed" => todo = <<>>
    /\ status = "ok" => Leads \/ Loading
    /\ DOMAIN window = 0 .. 3 /\ "table" \in DOMAIN regs /\ ParametersCurrent

LEMMA InitInv == Init => Inv
  <1> SUFFICES ASSUME Init PROVE Inv
    OBVIOUS
  <1>1. Turns(todo, Free(FALSE), Free(FALSE))
    BY FreePhase, TurnsNone DEF Init
  <1>2. Array(Free(FALSE))
    <2>1. {"lb", "rq", "table", "w", "accum"} \subseteq DOMAIN regs /\ regs.lb = LinebufOff
      BY DEF Init, ++, Preload
    <2>2. job = Idle /\ done = FALSE /\ pending = None /\ unit = Idle
      BY DEF Init
    <2>3. regs.lb.mode # "depthwise" /\ ~SeveralTiles(regs.lb)
      BY <2>1 DEF LinebufOff, SeveralTiles
    <2>4. Free(FALSE).array = "free" /\ Free(FALSE).due = FALSE
      BY FreePhase
    <2> HIDE DEF LinebufOff
    <2> QED  BY <2>1, <2>2, <2>3, <2>4 DEF Array
  <1>3. DOMAIN window = 0 .. 3 /\ ParametersCurrent
    BY DEF Init, ParametersCurrent
  <1>4. "table" \in DOMAIN regs
    BY <1>2 DEF Array
  <1>5. status = "ok"
    BY DEF Init
  <1>6. Leads
    BY <1>1, <1>2, FreePhase DEF Leads
  <1> QED  BY <1>3, <1>4, <1>5, <1>6 DEF Inv

LEMMA LoadsSteps ==
    ASSUME NEW c, Loads(c)
    PROVE  /\ todo # <<>> /\ Head(todo).op \in {"unload", "stage", "decode"}
           /\ Head(todo).op = "unload" => Tail(todo) = <<StageOp(c)>> \o <<DecodeOp(c)>>
           /\ Head(todo).op = "stage" => Head(todo) = StageOp(c) /\ Tail(todo) = <<DecodeOp(c)>>
           /\ Head(todo).op = "decode" => /\ Head(todo) = DecodeOp(c) /\ Tail(todo) = <<>>
                                          /\ window[0] = <<"block", c.block>>
  <1> DEFINE unload == [op |-> "unload"]
             stage  == StageOp(c)
             decode == DecodeOp(c)
  <1>1. unload.op = "unload" /\ stage.op = "stage" /\ decode.op = "decode"
    BY DEF StageOp, DecodeOp
  <1>2. \/ todo = <<unload>> \o <<stage>> \o <<decode>>
        \/ todo = <<stage>> \o <<decode>>
        \/ todo = <<decode>> /\ window[0] = <<"block", c.block>>
    BY DEF Loads
  <1> HIDE DEF unload, stage, decode
  <1> DEFINE S == {unload, stage, decode}
  <1>3. <<unload>> \in Seq(S) /\ <<stage>> \in Seq(S) /\ <<decode>> \in Seq(S)
    OBVIOUS
  <1>4. /\ Head(<<unload>> \o <<stage>> \o <<decode>>) = unload
        /\ Tail(<<unload>> \o <<stage>> \o <<decode>>) = <<stage>> \o <<decode>>
        /\ <<unload>> \o <<stage>> \o <<decode>> # <<>>
    BY <1>3
  <1>5. /\ Head(<<stage>> \o <<decode>>) = stage /\ Tail(<<stage>> \o <<decode>>) = <<decode>>
        /\ <<stage>> \o <<decode>> # <<>>
    <2>1. /\ <<stage>> \o <<decode>> \in Seq(S) /\ Len(<<stage>> \o <<decode>>) = 2
          /\ (<<stage>> \o <<decode>>)[1] = stage /\ (<<stage>> \o <<decode>>)[2] = decode
      BY <1>3
    <2>2. Head(<<stage>> \o <<decode>>) = stage /\ <<stage>> \o <<decode>> # <<>>
      BY <2>1
    <2>3. Tail(<<stage>> \o <<decode>>) = <<decode>>
      <3>1. /\ Tail(<<stage>> \o <<decode>>) \in Seq(S) /\ Len(Tail(<<stage>> \o <<decode>>)) = 1
            /\ Tail(<<stage>> \o <<decode>>)[1] = decode
        BY <2>1
      <3>2. <<decode>> \in Seq(S) /\ Len(<<decode>>) = 1 /\ <<decode>>[1] = decode
        BY <1>3
      <3>3. \A i \in 1 .. 1 : Tail(<<stage>> \o <<decode>>)[i] = <<decode>>[i]
        BY <3>1, <3>2
      <3> HIDE DEF S
      <3> QED  BY <3>1, <3>2, <3>3, SeqEqual
    <2> QED  BY <2>2, <2>3
  <1>6. Head(<<decode>>) = decode /\ Tail(<<decode>>) = <<>> /\ <<decode>> # <<>>
    BY <1>3
  <1>7. CASE todo = <<unload>> \o <<stage>> \o <<decode>>
    BY <1>1, <1>4, <1>7 DEF stage, decode
  <1>8. CASE todo = <<stage>> \o <<decode>>
    BY <1>1, <1>5, <1>8 DEF stage, decode
  <1>9. CASE todo = <<decode>> /\ window[0] = <<"block", c.block>>
    BY <1>1, <1>6, <1>9 DEF stage, decode
  <1> QED  BY <1>2, <1>7, <1>8, <1>9

\* The next step of the core, in the phase it takes.
LEMMA AtHead ==
    ASSUME Inv, NEW x, AtOp(x), x \notin {"unload", "stage", "decode"}
    PROVE  \E p \in Phases, r \in Phases, q \in {Free(FALSE), Own(TRUE)} :
              /\ Head(todo).op = x /\ Takes(Head(todo), p, r) /\ Array(p)
              /\ Turns(Tail(todo), r, q)
  <1>1. status = "ok" /\ todo # <<>> /\ Head(todo).op = x
    BY DEF AtOp
  <1>2. ~ \E c \in Commands : Loads(c)
    BY <1>1, LoadsSteps
  <1>3. PICK p \in Phases, q \in {Free(FALSE), Own(TRUE)} : Turns(todo, p, q) /\ Array(p)
    BY <1>1, <1>2 DEF Inv, Leads, Loading
  <1> QED  BY <1>1, <1>3, TurnsHead

\* Nothing loads parameters but an operation that does nothing else.
LEMMA AtLoad ==
    ASSUME Inv, NEW x \in {"unload", "decode"}, AtOp(x)
    PROVE  Array(Free(FALSE)) /\ \E c \in Commands : Loads(c)
  <1>1. status = "ok" /\ todo # <<>> /\ Head(todo).op = x
    BY DEF AtOp
  <1>2. ASSUME NEW p \in Phases, NEW q \in {Free(FALSE), Own(TRUE)}, Turns(todo, p, q)
        PROVE  FALSE
    <2>1. PICK r \in Phases : Takes(Head(todo), p, r)
      BY <1>1, <1>2, TurnsHead
    <2> QED  BY <1>1, <2>1 DEF Takes, Moves, Quiet
  <1> QED  BY <1>1, <1>2 DEF Inv, Leads, Loading

LEMMA DoneInv ==
    ASSUME Inv, status = "ok", Done,
           NEW r \in Phases, NEW q \in {Free(FALSE), Own(TRUE)}, Turns(Tail(todo), r, q), Array(r)',
           DOMAIN window' = 0 .. 3, ParametersCurrent'
    PROVE  Inv'
  <1>1. "table" \in DOMAIN regs'
    BY DEF Array
  <1>2. todo' = Tail(todo) /\ status' = "ok"
    BY DEF Done
  <1>3. Leads'
    BY <1>2 DEF Leads, Free, Own, Phase
  <1> QED  BY <1>1, <1>2, <1>3 DEF Inv

LEMMA FailInv ==
    ASSUME Inv, Fail, UNCHANGED <<regs, window, loaded>>
    PROVE  Inv'
  BY DEF Inv, Fail, ParametersCurrent

\* An operation that leaves the array, its registers and pending alone, while no pass runs.
LEMMA QuietInv ==
    ASSUME Inv, NEW x \in Quiet, AtOp(x), Done \/ Fail,
           UNCHANGED <<regs, window, loaded, job, done, pending, unit, finished>>
    PROVE  Inv' /\ unit = Idle
  <1>3. PICK p \in Phases, r \in Phases, q \in {Free(FALSE), Own(TRUE)} :
            /\ Head(todo).op = x /\ Takes(Head(todo), p, r) /\ Array(p)
            /\ Turns(Tail(todo), r, q)
    BY AtHead DEF Quiet
  <1>4. r = p /\ ~p.afu
    BY <1>3 DEF Takes, Moves, Quiet
  <1>5. unit = Idle
    BY <1>3, <1>4 DEF Array
  <1>1. CASE Fail
    BY <1>1, <1>5, FailInv
  <1>2. CASE Done
    <2>1. Array(p)'
      BY <1>3 DEF Array, CanEnd, AddsOverTiles
    <2>2. DOMAIN window' = 0 .. 3 /\ ParametersCurrent'
      BY DEF Inv, ParametersCurrent
    <2> QED  BY <1>2, <1>3, <1>4, <1>5, <2>1, <2>2, DoneInv DEF AtOp
  <1> QED  BY <1>1, <1>2

\* While the AFU may run a pass the core does nothing but poll it.
LEMMA MovesQuiescent ==
    ASSUME NEW op, NEW p \in Phases, NEW r, Takes(op, p, r), op.op \notin {"go", "poll", "reject"}, Array(p)
    PROVE  unit = Idle /\ ~p.afu /\ ~r.afu
  <1>1. ~p.afu /\ Moves(op, p, r)
    BY DEF Takes
  <1>2. unit = Idle
    BY <1>1 DEF Array
  <1>3. \A a, d : ~Phase(a, d).afu
    BY DEF Phase
  <1>4. ~r.afu
    BY <1>1, <1>3 DEF Moves, SetTakes
  <1> QED  BY <1>1, <1>2, <1>4

LEMMA SetRegsInv ==
    ASSUME Inv, SetRegs
    PROVE  Inv'
  <1>1. /\ AtOp("set") /\ Done /\ regs' = Overwrite(regs, Head(todo).r)
        /\ UNCHANGED <<window, loaded, job, done, pending, unit, finished>>
    BY DEF SetRegs, engine, afu
  <1>2. PICK p \in Phases, r \in Phases, q \in {Free(FALSE), Own(TRUE)} :
            /\ Head(todo).op = "set" /\ Takes(Head(todo), p, r) /\ Array(p)
            /\ Turns(Tail(todo), r, q)
    BY <1>1, AtHead
  <1>3. SetTakes(Head(todo).r, p, r)
    BY <1>2 DEF Takes, Moves, Quiet
  <1> DEFINE s == Head(todo).r
  <1>4. /\ DOMAIN regs' = DOMAIN regs
        /\ {"lb", "rq", "table", "w", "accum"} \subseteq DOMAIN regs
        /\ regs'.lb = (IF "lb" \in DOMAIN s THEN s.lb ELSE regs.lb)
        /\ regs'.rq = (IF "rq" \in DOMAIN s THEN s.rq ELSE regs.rq)
        /\ regs'.w = (IF "w" \in DOMAIN s THEN s.w ELSE regs.w)
        /\ regs'.table = (IF "table" \in DOMAIN s THEN s.table ELSE regs.table)
        /\ regs'.accum = (IF "accum" \in DOMAIN s THEN s.accum ELSE regs.accum)
    BY <1>1, <1>2 DEF Overwrite, Array
  <1>5. UNCHANGED CanEnd(job) /\ unit' = Idle
    BY <1>1, <1>2, MovesQuiescent DEF CanEnd, AddsOverTiles
  <1>9. Tame(s) => (regs'.lb.mode # "depthwise" \/ regs'.lb = regs.lb)
    BY <1>4 DEF Tame
  <1>10. Harmless(s) => Tame(s) /\ (~SeveralTiles(regs.lb) \/ "lb" \in DOMAIN s => ~SeveralTiles(regs.lb)')
    BY <1>4 DEF Harmless
  <1>11. Fits(s) => (AddsOverTiles(regs)' => SumsInTime)
    <2>1. "accum" \in DOMAIN s /\ ~s.accum => ~regs'.accum
      BY <1>4
    <2>2. "lb" \in DOMAIN s /\ ~SeveralTiles(s.lb) => ~SeveralTiles(regs.lb)'
      BY <1>4
    <2>3. AddsOverTiles(regs)' => regs'.accum /\ SeveralTiles(regs.lb)'
      BY DEF AddsOverTiles
    <2> QED  BY <2>1, <2>2, <2>3 DEF Fits
  <1>6. Array(r)'
    <2>1. CASE p.array \in {"free", "busy"} /\ Harmless(s) /\ r = p
      BY <1>1, <1>2, <1>4, <1>5, <1>9, <1>10, <2>1 DEF Array
    <2>2. CASE /\ p.array = "free" /\ r = Phase("tap", p.due)
               /\ {"lb", "rq"} \subseteq DOMAIN s /\ s.rq = TRUE /\ "table" \notin DOMAIN s /\ ~SeveralTiles(s.lb)
      <3>1. r.array = "tap" /\ r.due = p.due
        BY <2>2 DEF Phase
      <3>2. ~SeveralTiles(regs.lb)'
        BY <1>4, <2>2
      <3> QED  BY <1>1, <1>2, <1>4, <1>5, <2>2, <3>1, <3>2 DEF Array
    <2>3. CASE p.array \in {"tap", "tapbusy"} /\ DOMAIN s \cap {"lb", "rq", "table"} = {} /\ r = p
      <3>1. SeveralTiles(regs.lb)' = SeveralTiles(regs.lb)
        BY <1>4, <2>3
      <3> QED  BY <1>1, <1>2, <1>4, <1>5, <2>3, <3>1 DEF Array
    <2>4. CASE p.array \in {"tap", "sure"} /\ "lb" \in DOMAIN s /\ Harmless(s) /\ r = Phase("free", p.due)
      <3>1. r.array = "free" /\ r.due = p.due
        BY <2>4 DEF Phase
      <3>2. regs'.lb.mode # "depthwise"
        BY <1>4, <1>10, <2>4 DEF Tame
      <3> QED  BY <1>1, <1>2, <1>4, <1>5, <1>10, <2>4, <3>1, <3>2 DEF Array
    <2>5. CASE /\ p.array = "free" /\ r = Phase("ready", p.due)
               /\ Tame(s) /\ Fits(s) /\ "w" \in DOMAIN s /\ s.w[1] = "tcdm"
      <3>1. r.array = "ready" /\ r.due = p.due
        BY <2>5 DEF Phase
      <3> QED  BY <1>1, <1>2, <1>4, <1>5, <1>9, <1>11, <2>5, <3>1 DEF Array
    <2>6. CASE p.array \in {"free", "tiles"} /\ Tame(s) /\ r = Phase("tiles", p.due)
      <3>1. r.array = "tiles" /\ r.due = p.due
        BY <2>6 DEF Phase
      <3> QED  BY <1>1, <1>2, <1>4, <1>5, <1>9, <2>6, <3>1 DEF Array
    <2>7. CASE p.array \in {"free", "tiles", "sure"} /\ Tame(s) /\ Fits(s) /\ r = Phase("sure", p.due)
      <3>1. r.array = "sure" /\ r.due = p.due
        BY <2>7 DEF Phase
      <3> QED  BY <1>1, <1>2, <1>4, <1>5, <1>9, <1>11, <2>7, <3>1 DEF Array
    <2>8. CASE p.array = "surebusy" /\ Tame(s) /\ Fits(s) /\ r = p
      BY <1>1, <1>2, <1>4, <1>5, <1>9, <1>11, <2>8 DEF Array
    <2> QED  BY <1>3, <2>1, <2>2, <2>3, <2>4, <2>5, <2>6, <2>7, <2>8 DEF SetTakes
  <1>7. "table" \notin DOMAIN s
    BY <1>3 DEF SetTakes, Harmless, Tame
  <1>8. DOMAIN window' = 0 .. 3 /\ ParametersCurrent'
    BY <1>1, <1>4, <1>7 DEF Inv, ParametersCurrent
  <1> QED  BY <1>1, <1>2, <1>6, <1>8, DoneInv DEF AtOp

\* What a step of START or of WAIT means.
LEMMA StartPhase ==
    ASSUME NEW op, NEW p \in Phases, NEW r, Takes(op, p, r), op.op = "start"
    PROVE  \/ p.array = "free" /\ r.array = "busy" /\ r.due = p.due
           \/ p.array = "ready" /\ r.array = "own" /\ r.due = p.due
           \/ p.array = "tap" /\ r.array = "tapbusy" /\ r.due = p.due
           \/ p.array = "sure" /\ r.array = "surebusy" /\ r.due = p.due
  BY DEF Takes, Moves, Quiet, Phase

LEMMA WaitPhase ==
    ASSUME NEW op, NEW p \in Phases, NEW r, Takes(op, p, r), op.op = "wait"
    PROVE  \/ p.array = "busy" /\ r.array = "free" /\ r.due = p.due
           \/ p.array \in {"own", "surebusy"} /\ r.array = "sure" /\ r.due = p.due
           \/ p.array = "tapbusy" /\ r.array = "tap" /\ r.due = p.due
  BY DEF Takes, Moves, Quiet, Phase

LEMMA StartJobInv ==
    ASSUME Inv, StartJob
    PROVE  Inv' /\ job = Idle
  <1>1. AtOp("start") /\ Done /\ UNCHANGED <<regs, window, loaded, pending, unit, finished>> /\ job' = regs /\ done' = FALSE
    BY DEF StartJob, engine, afu
  <1>2. PICK p \in Phases, r \in Phases, q \in {Free(FALSE), Own(TRUE)} :
            /\ Head(todo).op = "start" /\ Takes(Head(todo), p, r) /\ Array(p)
            /\ Turns(Tail(todo), r, q)
    BY <1>1, AtHead
  <1>3. \/ p.array = "free" /\ r.array = "busy" /\ r.due = p.due
        \/ p.array = "ready" /\ r.array = "own" /\ r.due = p.due
        \/ p.array = "tap" /\ r.array = "tapbusy" /\ r.due = p.due
        \/ p.array = "sure" /\ r.array = "surebusy" /\ r.due = p.due
    BY <1>2, StartPhase
  <1>8. unit' = Idle
    BY <1>1, <1>2, MovesQuiescent
  <1>4. CanEnd(job)'
    <2>1. regs # Idle
      <3>1. "lb" \in DOMAIN regs /\ "lb" \notin DOMAIN Idle
        BY <1>2 DEF Array, Idle
      <3> QED  BY <3>1
    <2>2. regs.lb.mode = "depthwise" => regs.rq
      BY <1>2, <1>3 DEF Array
    <2>3. AddsOverTiles(regs) => SumsInTime
      BY <1>2, <1>3 DEF Array, AddsOverTiles
    <2>4. CanEnd(regs)
      BY <2>1, <2>2, <2>3 DEF CanEnd
    <2>5. CanEnd(job)' <=> CanEnd(regs)
      BY <1>1 DEF CanEnd, AddsOverTiles, Idle
    <2> QED  BY <2>4, <2>5
  <1>5. Array(r)'
    BY <1>1, <1>2, <1>3, <1>4, <1>8 DEF Array
  <1>6. job = Idle
    BY <1>2, <1>3 DEF Array
  <1>7. DOMAIN window' = 0 .. 3 /\ ParametersCurrent'
    BY <1>1 DEF Inv, ParametersCurrent
  <1> QED  BY <1>1, <1>2, <1>5, <1>6, <1>7, DoneInv DEF AtOp

LEMMA WaitDoneInv ==
    ASSUME Inv, WaitDone
    PROVE  Inv'
  <1>1. AtOp("wait") /\ Done /\ UNCHANGED <<regs, window, loaded, job, pending, unit, finished>> /\ done /\ done' = FALSE
    BY DEF WaitDone, engine, afu
  <1>2. PICK p \in Phases, r \in Phases, q \in {Free(FALSE), Own(TRUE)} :
            /\ Head(todo).op = "wait" /\ Takes(Head(todo), p, r) /\ Array(p)
            /\ Turns(Tail(todo), r, q)
    BY <1>1, AtHead
  <1>3. \/ p.array = "busy" /\ r.array = "free" /\ r.due = p.due
        \/ p.array \in {"own", "surebusy"} /\ r.array = "sure" /\ r.due = p.due
        \/ p.array = "tapbusy" /\ r.array = "tap" /\ r.due = p.due
    BY <1>2, WaitPhase
  <1>8. unit' = Idle
    BY <1>1, <1>2, MovesQuiescent
  <1>4. job = Idle
    BY <1>1, <1>2, <1>3 DEF Array
  <1>5. Array(r)'
    BY <1>1, <1>2, <1>3, <1>4, <1>8 DEF Array, Idle
  <1>6. DOMAIN window' = 0 .. 3 /\ ParametersCurrent'
    BY <1>1 DEF Inv, ParametersCurrent
  <1> QED  BY <1>1, <1>2, <1>5, <1>6, DoneInv DEF AtOp

LEMMA SubmittedInv ==
    ASSUME Inv, Submitted
    PROVE  Inv'
  <1>1. /\ AtOp("submitted") /\ Done /\ pending' = Head(todo).command
        /\ UNCHANGED <<regs, window, loaded, job, done, unit, finished>>
    BY DEF Submitted, engine, afu
  <1>2. PICK p \in Phases, r \in Phases, q \in {Free(FALSE), Own(TRUE)} :
            /\ Head(todo).op = "submitted" /\ Takes(Head(todo), p, r) /\ Array(p)
            /\ Turns(Tail(todo), r, q)
    BY <1>1, AtHead
  <1>3. r = Phase(p.array, Head(todo).command # None)
    BY <1>2 DEF Takes, Moves, Quiet
  <1>4. r.array = p.array /\ r.due = (Head(todo).command # None)
    BY <1>3 DEF Phase
  <1>5. (pending # None)' <=> r.due
    BY <1>1, <1>4 DEF None
  <1>8. unit' = Idle
    BY <1>1, <1>2, MovesQuiescent
  <1>6. Array(r)'
    BY <1>1, <1>2, <1>4, <1>5, <1>8 DEF Array, CanEnd, AddsOverTiles, Idle
  <1>7. DOMAIN window' = 0 .. 3 /\ ParametersCurrent'
    BY <1>1 DEF Inv, ParametersCurrent
  <1> QED  BY <1>1, <1>2, <1>6, <1>7, DoneInv DEF AtOp

LEMMA UnloadBlockInv ==
    ASSUME Inv, UnloadBlock
    PROVE  Inv'
  <1>1. /\ AtOp("unload") /\ Done /\ UNCHANGED <<window, job, done, pending, unit, finished>>
        /\ loaded' = None /\ regs' = [regs EXCEPT !.rq = FALSE]
    BY DEF UnloadBlock, engine, afu
  <1>2. Array(Free(FALSE)) /\ \E c \in Commands : Loads(c)
    BY <1>1, AtLoad
  <1>3. PICK c \in Commands : Loads(c)
    BY <1>2
  <1>4. todo' = <<StageOp(c)>> \o <<DecodeOp(c)>>
    BY <1>1, <1>3, LoadsSteps DEF AtOp, Done
  <1>5. Loads(c)'
    BY <1>4 DEF Loads, StageOp, DecodeOp
  <1>6. DOMAIN regs' = DOMAIN regs /\ regs'.lb = regs.lb
    BY <1>1, <1>2 DEF Array
  <1>7. Array(Free(FALSE))'
    BY <1>1, <1>2, <1>6, FreePhase DEF Array, Free, Phase
  <1>8. status' = "ok"
    BY <1>1 DEF Done, AtOp
  <1>9. Loading'
    BY <1>5, <1>7 DEF Loading, Free, Phase
  <1>10. "table" \in DOMAIN regs' /\ DOMAIN window' = 0 .. 3 /\ ParametersCurrent'
    BY <1>1, <1>6 DEF Inv, ParametersCurrent
  <1> QED  BY <1>8, <1>9, <1>10 DEF Inv

\* A transfer into the window finds no job that reads it; the parameters are in it before they are decoded.
LEMMA StageWindowInv ==
    ASSUME Inv, StageWindow
    PROVE  Inv' /\ (job = Idle \/ job.w[1] = "tcdm")
  <1>1. AtOp("stage") /\ UNCHANGED <<regs, job, done, loaded, pending, unit, finished>>
    BY DEF StageWindow, engine, afu
  <1>2. \/ Fail /\ UNCHANGED window
        \/ Done /\ window' = Overwrite(window, Head(todo).content)
    BY DEF StageWindow, engine, afu
  <1>3. status = "ok" /\ todo # <<>> /\ Head(todo).op = "stage"
    BY <1>1 DEF AtOp
  <1>4. DOMAIN window' = 0 .. 3 /\ ParametersCurrent'
    BY <1>1, <1>2 DEF Inv, ParametersCurrent, Overwrite
  <1>5. CASE Leads
    <2>1. PICK p \in Phases, r \in Phases, q \in {Free(FALSE), Own(TRUE)} :
              Takes(Head(todo), p, r) /\ Turns(Tail(todo), r, q) /\ Array(p)
      BY <1>3, <1>5, TurnsHead DEF Leads
    <2>2. p.array \in {"free", "own"} /\ r = p
      BY <1>3, <2>1 DEF Takes, Moves, Quiet
    <2>3. Array(p)'
      BY <1>1, <2>1 DEF Array, CanEnd, AddsOverTiles
    <2>4. job = Idle \/ job.w[1] = "tcdm"
      BY <2>1, <2>2 DEF Array
    <2>5. Done => Inv'
      BY <1>3, <1>4, <2>1, <2>2, <2>3, DoneInv
    <2> QED  BY <1>1, <1>2, <2>4, <2>5, FailInv
  <1>6. CASE Loading
    <2>1. PICK c \in Commands : Loads(c)
      BY <1>6 DEF Loading
    <2>2. Head(todo) = StageOp(c) /\ Tail(todo) = <<DecodeOp(c)>>
      BY <1>3, <2>1, LoadsSteps
    <2>3. job = Idle
      BY <1>6, FreePhase DEF Array, Loading
    <2>4. ASSUME Done, window' = Overwrite(window, Head(todo).content) PROVE Inv'
      <3>1. 0 \in DOMAIN InSlot(0, <<"block", c.block>>) /\ InSlot(0, <<"block", c.block>>)[0] = <<"block", c.block>>
        BY DEF InSlot
      <3>2. Head(todo).content = InSlot(0, <<"block", c.block>>)
        BY <2>2 DEF StageOp
      <3>3. 0 \in DOMAIN window
        BY DEF Inv
      <3>4. window'[0] = <<"block", c.block>>
        BY <2>4, <3>1, <3>2, <3>3 DEF Overwrite
      <3>5. todo' = <<DecodeOp(c)>> /\ status' = "ok"
        BY <1>3, <2>2, <2>4 DEF Done
      <3>6. Loads(c)'
        BY <3>4, <3>5 DEF Loads, DecodeOp
      <3>7. Array(Free(FALSE))'
        BY <1>1, <1>6 DEF Array, CanEnd, AddsOverTiles, Free, Phase, Loading
      <3>9. Loading'
        BY <3>6, <3>7 DEF Loading, Free, Phase
      <3>8. "table" \in DOMAIN regs'
        BY <1>1 DEF Inv
      <3> QED  BY <1>4, <3>5, <3>8, <3>9 DEF Inv
    <2> QED  BY <1>1, <1>2, <2>3, <2>4, FailInv
  <1> QED  BY <1>3, <1>5, <1>6 DEF Inv

LEMMA DecodeBlockInv ==
    ASSUME Inv, DecodeBlock
    PROVE  Inv'
  <1> DEFINE table == IF window[0][1] = "block" THEN window[0][2] ELSE Garbage
  <1>1. AtOp("decode") /\ UNCHANGED <<window, job, done, pending, unit, finished>>
    BY DEF DecodeBlock, engine, afu
  <1>2. CASE Fail /\ UNCHANGED <<loaded, regs>>
    BY <1>1, <1>2, FailInv
  <1>3. CASE Done /\ loaded' = Head(todo).block /\ regs' = [regs EXCEPT !.table = table, !.rq = TRUE]
    <2>1. Array(Free(FALSE)) /\ \E c \in Commands : Loads(c)
      BY <1>1, AtLoad
    <2>2. PICK c \in Commands : Loads(c)
      BY <2>1
    <2>3. Head(todo) = DecodeOp(c) /\ Tail(todo) = <<>> /\ window[0] = <<"block", c.block>>
      BY <1>1, <2>2, LoadsSteps DEF AtOp
    <2>4. Head(todo).block = c.block
      BY <2>3 DEF DecodeOp
    <2>5. table = c.block
      BY <2>3
    <2>6. /\ DOMAIN regs' = DOMAIN regs /\ regs'.lb = regs.lb /\ regs'.table = table
      BY <1>3, <2>1 DEF Array
    <2>7. DOMAIN window' = 0 .. 3 /\ ParametersCurrent'
      BY <1>1, <1>3, <2>4, <2>5, <2>6 DEF Inv, ParametersCurrent
    <2> HIDE DEF table
    <2>8. Array(Free(FALSE))'
      BY <1>1, <2>1, <2>6, FreePhase DEF Array, Free, Phase
    <2>9. Turns(Tail(todo), Free(FALSE), Free(FALSE))
      BY <2>3, FreePhase, TurnsNone
    <2> QED  BY <1>1, <1>3, <2>7, <2>8, <2>9, FreePhase, DoneInv DEF AtOp
  <1> QED  BY <1>2, <1>3 DEF DecodeBlock

\* The vector unit may have to do what a transfer did not.
LEMMA FetchPixelsInv ==
    ASSUME Inv, FetchPixels
    PROVE  Inv'
  <1>1. /\ AtOp("fetch") /\ UNCHANGED <<regs, window, loaded, job, done, pending, unit, finished, status>>
        /\ todo' = Tail(todo) \/ todo' = Head(todo).fallback \o Tail(todo)
    BY DEF FetchPixels, engine, afu
  <1>2. PICK p \in Phases, r \in Phases, q \in {Free(FALSE), Own(TRUE)} :
            /\ Head(todo).op = "fetch" /\ Takes(Head(todo), p, r) /\ Array(p)
            /\ Turns(Tail(todo), r, q)
    BY <1>1, AtHead
  <1>3. r = p /\ Still(Head(todo).fallback)
    BY <1>2 DEF Takes, Moves, Quiet
  <1>4. Turns(Head(todo).fallback \o Tail(todo), p, q)
    BY <1>2, <1>3, MovesQuiescent, TurnsStill, TurnsJoin
  <1>5. Turns(todo', p, q)
    BY <1>1, <1>2, <1>3, <1>4
  <1>6. Array(p)'
    BY <1>1, <1>2 DEF Array, CanEnd, AddsOverTiles, Idle
  <1>7. status' = "ok"
    BY <1>1 DEF AtOp
  <1>8. Leads'
    BY <1>5, <1>6 DEF Leads, Free, Own, Phase
  <1>9. DOMAIN window' = 0 .. 3 /\ "table" \in DOMAIN regs' /\ ParametersCurrent'
    BY <1>1 DEF Inv, ParametersCurrent
  <1> QED  BY <1>7, <1>8, <1>9 DEF Inv

\* Between two commands the interpreter may refill the window: what runs does not read it.
LEMMA IssueInv ==
    ASSUME Inv, Issue
    PROVE  Inv' /\ (job = Idle \/ job.w[1] = "tcdm")
  <1>1. status = "ok" /\ todo = <<>> /\ UNCHANGED <<regs, loaded, job, done, pending, unit, finished, status>>
    BY DEF Issue, engine, afu
  <1>2. PICK c \in Commands : Scheduled(c) /\ todo' = Program(c)
    BY DEF Issue
  <1>3. ~ \E b \in Commands : Loads(b)
    BY <1>1, LoadsSteps
  <1>4. PICK p \in Phases, q \in {Free(FALSE), Own(TRUE)} : Turns(todo, p, q) /\ Array(p)
    BY <1>1, <1>3 DEF Inv, Leads, Loading
  <1>5. p \in {Free(FALSE), Own(TRUE)}
    BY <1>1, <1>4, TurnsEnd
  <1>6. p.due <=> pending # None
    BY <1>4 DEF Array
  <1>7. /\ p = Free(FALSE) => pending = None
        /\ p = Own(TRUE) => pending # None
    BY <1>6, FreePhase
  <1>8. job = Idle \/ job.w[1] = "tcdm"
    BY <1>4, <1>5, FreePhase DEF Array
  <1>9. Array(p)'
    BY <1>1, <1>4 DEF Array, CanEnd, AddsOverTiles
  <1>10. DOMAIN window' = 0 .. 3 /\ "table" \in DOMAIN regs' /\ ParametersCurrent'
    BY <1>1 DEF Inv, Issue, ParametersCurrent
  <1>11. CASE c.type # "rq_load"
    <2>1. \E z \in {Free(FALSE), Own(TRUE)} : Turns(Program(c), p, z)
      BY <1>2, <1>5, <1>7, <1>11, TurnsProgram
    <2>2. Leads'
      BY <1>2, <1>9, <2>1 DEF Leads, Free, Own, Phase
    <2> QED  BY <1>1, <1>8, <1>10, <2>2 DEF Inv
  <1>12. CASE c.type = "rq_load"
    <2>1. pending = None
      BY <1>2, <1>12 DEF Scheduled, Systolic
    <2>2. p = Free(FALSE)
      BY <1>5, <1>7, <2>1
    <2>3. Program(c) = RqLoadProgram(c)
      BY <1>12 DEF Program, Convs
    <2>4. todo' = <<[op |-> "unload"]>> \o <<StageOp(c)>> \o <<DecodeOp(c)>>
      BY <1>2, <2>3 DEF RqLoadProgram, Stage, StageOp, DecodeOp
    <2>5. Loads(c)'
      BY <2>4 DEF Loads, StageOp, DecodeOp
    <2>6. Array(Free(FALSE))'
      BY <1>9, <2>2 DEF Free, Phase
    <2>7. Loading'
      BY <2>5, <2>6 DEF Loading, Free, Phase
    <2> QED  BY <1>1, <1>8, <1>10, <2>7 DEF Inv
  <1> QED  BY <1>11, <1>12

\* A job ends only while one is waited for, and the core finds DONE up.
LEMMA EngineFinishInv ==
    ASSUME Inv, EngineFinish
    PROVE  Inv'
  <1>1. /\ CanEnd(job) /\ job' = Idle /\ done' = TRUE
        /\ UNCHANGED <<regs, window, loaded, pending, unit, finished, todo, status>>
    BY DEF EngineFinish, engine, afu
  <1>2. job # Idle
    BY <1>1 DEF CanEnd
  <1>3. DOMAIN window' = 0 .. 3 /\ "table" \in DOMAIN regs' /\ ParametersCurrent'
    BY <1>1 DEF Inv, ParametersCurrent
  <1>4. CASE status = "ok"
    <2>1. ~Array(Free(FALSE))
      BY <1>2, FreePhase DEF Array
    <2>2. PICK p \in Phases, q \in {Free(FALSE), Own(TRUE)} : Turns(todo, p, q) /\ Array(p)
      BY <1>4, <2>1 DEF Inv, Leads, Loading
    <2>3. p.array \in {"busy", "own", "tapbusy", "surebusy"}
      BY <1>2, <2>2 DEF Array, Phases
    <2>4. Array(p)'
      BY <1>1, <2>2, <2>3 DEF Array
    <2>5. Leads'
      BY <1>1, <2>2, <2>4 DEF Leads, Free, Own, Phase
    <2> QED  BY <1>1, <1>3, <1>4, <2>5 DEF Inv
  <1>5. CASE status = "failed"
    BY <1>1, <1>3, <1>5 DEF Inv
  <1> QED  BY <1>4, <1>5 DEF Inv

\* What neither the core nor the array does: a pass may end.
LEMMA OthersInv ==
    ASSUME Inv, UNCHANGED <<regs, window, loaded, job, done, pending, todo, status>>,
           unit' = Idle \/ UNCHANGED <<unit, finished>>
    PROVE  Inv'
  <1>1. DOMAIN window' = 0 .. 3 /\ "table" \in DOMAIN regs' /\ ParametersCurrent'
    BY DEF Inv, ParametersCurrent
  <1>2. \A p : Array(p) => Array(p)'
    BY DEF Array, CanEnd, AddsOverTiles, Idle
  <1>3. CASE status = "ok" /\ Leads
    <2>1. Leads'
      BY <1>2, <1>3 DEF Leads, Free, Own, Phase
    <2> QED  BY <1>1, <1>3, <2>1 DEF Inv
  <1>4. CASE status = "ok" /\ Loading
    <2>1. PICK c \in Commands : Loads(c)
      BY <1>4 DEF Loading
    <2>2. Loads(c)'
      BY <2>1 DEF Loads, StageOp, DecodeOp
    <2>3. Array(Free(FALSE))'
      BY <1>2, <1>4 DEF Loading, Free, Phase
    <2>4. Loading'
      BY <2>2, <2>3 DEF Loading, Free, Phase
    <2> QED  BY <1>1, <1>4, <2>4 DEF Inv
  <1>5. CASE status = "failed"
    BY <1>1, <1>5 DEF Inv
  <1> QED  BY <1>3, <1>4, <1>5 DEF Inv

\* A pass is started while none runs, and its tables and operands stay until it ends.
LEMMA StartAfuInv ==
    ASSUME Inv, StartAfu
    PROVE  Inv' /\ unit = Idle
  <1>1. AtOp("go") /\ Done /\ UNCHANGED <<regs, window, loaded, job, done, pending>>
    BY DEF StartAfu, engine
  <1>2. PICK p \in Phases, r \in Phases, q \in {Free(FALSE), Own(TRUE)} :
            /\ Head(todo).op = "go" /\ Takes(Head(todo), p, r) /\ Array(p)
            /\ Turns(Tail(todo), r, q)
    BY <1>1, AtHead
  <1>3. ~p.afu /\ r = [p EXCEPT !.afu = TRUE]
    BY <1>2 DEF Takes, Moves, Quiet
  <1>4. r.array = p.array /\ r.due = p.due /\ r.afu
    BY <1>3 DEF Phases
  <1>5. unit = Idle
    BY <1>2, <1>3 DEF Array
  <1>6. finished' = FALSE
    BY <1>5 DEF StartAfu
  <1>7. Array(r)'
    BY <1>1, <1>2, <1>4, <1>6 DEF Array, CanEnd, AddsOverTiles, Idle
  <1>8. DOMAIN window' = 0 .. 3 /\ ParametersCurrent'
    BY <1>1 DEF Inv, ParametersCurrent
  <1> QED  BY <1>1, <1>2, <1>5, <1>7, <1>8, DoneInv DEF AtOp

\* A poll that succeeds has seen the pass end.
LEMMA PollAfuInv ==
    ASSUME Inv, PollAfu
    PROVE  Inv'
  <1>1. AtOp("poll") /\ UNCHANGED <<regs, window, loaded, job, done, pending, unit, finished>>
    BY DEF PollAfu, engine, afu
  <1>2. CASE ~finished
    BY <1>1, <1>2, FailInv DEF PollAfu
  <1>3. CASE finished
    <2>1. PICK p \in Phases, r \in Phases, q \in {Free(FALSE), Own(TRUE)} :
              /\ Head(todo).op = "poll" /\ Takes(Head(todo), p, r) /\ Array(p)
              /\ Turns(Tail(todo), r, q)
      BY <1>1, AtHead
    <2>2. p.afu /\ r = [p EXCEPT !.afu = FALSE]
      BY <2>1 DEF Takes, Moves, Quiet
    <2>3. r.array = p.array /\ r.due = p.due
      BY <2>2 DEF Phases
    <2>4. unit = Idle
      BY <1>3, <2>1 DEF Array
    <2>5. Array(r)'
      BY <1>1, <2>1, <2>3, <2>4 DEF Array, CanEnd, AddsOverTiles, Idle
    <2>6. DOMAIN window' = 0 .. 3 /\ ParametersCurrent'
      BY <1>1 DEF Inv, ParametersCurrent
    <2> QED  BY <1>1, <1>3, <2>1, <2>5, <2>6, DoneInv DEF PollAfu, AtOp
  <1> QED  BY <1>2, <1>3

LEMMA StepInv ==
    ASSUME Inv, [Next]_vars
    PROVE  Inv'
  <1>1. CASE Issue
    BY <1>1, IssueInv
  <1>2. CASE SetRegs
    BY <1>2, SetRegsInv
  <1>3. CASE StartJob
    BY <1>3, StartJobInv
  <1>4. CASE WaitDone
    BY <1>4, WaitDoneInv
  <1>5. CASE StageWindow
    BY <1>5, StageWindowInv
  <1>6. CASE CheckBlock
    <2>1. AtOp("check") /\ UNCHANGED <<regs, window, loaded, job, done, pending, unit, finished>> /\ (Done \/ Fail)
      BY <1>6 DEF CheckBlock, engine, afu
    <2> QED  BY <2>1, QuietInv DEF Quiet
  <1>7. CASE Reject
    BY <1>7, FailInv DEF Reject, engine
  <1>8. CASE Submitted
    BY <1>8, SubmittedInv
  <1>9. CASE UnloadBlock
    BY <1>9, UnloadBlockInv
  <1>10. CASE DecodeBlock
    BY <1>10, DecodeBlockInv
  <1>11. CASE SetAfu
    <2>1. AtOp("afu_set") /\ UNCHANGED <<regs, window, loaded, job, done, pending, unit, finished>> /\ (Done \/ Fail)
      BY <1>11 DEF SetAfu, engine, afu
    <2> QED  BY <2>1, QuietInv DEF Quiet
  <1>12. CASE LoadTable
    <2>1. AtOp("lut") /\ UNCHANGED <<regs, window, loaded, job, done, pending, unit, finished>> /\ (Done \/ Fail)
      BY <1>12 DEF LoadTable, engine, afu
    <2> QED  BY <2>1, QuietInv DEF Quiet
  <1>13. CASE StartAfu
    BY <1>13, StartAfuInv
  <1>14. CASE PollAfu
    BY <1>14, PollAfuInv
  <1>15. CASE RunVector
    <2>1. AtOp("vector") /\ UNCHANGED <<regs, window, loaded, job, done, pending, unit, finished>> /\ (Done \/ Fail)
      BY <1>15 DEF RunVector, engine, afu
    <2> QED  BY <2>1, QuietInv DEF Quiet
  <1>16. CASE FetchPixels
    BY <1>16, FetchPixelsInv
  <1>17. CASE EngineFinish
    BY <1>17, EngineFinishInv
  <1>18. CASE AfuFinish
    <2>1. UNCHANGED <<regs, window, loaded, job, done, pending, todo, status>> /\ unit' = Idle
      BY <1>18 DEF AfuFinish, engine, Idle
    <2> QED  BY <2>1, OthersInv
  <1>19. CASE UNCHANGED vars
    <2>1. UNCHANGED <<regs, window, loaded, job, done, pending, unit, finished, todo, status>>
      BY <1>19 DEF vars, engine, afu
    <2> QED  BY <2>1, OthersInv
  <1> QED
    BY <1>1, <1>2, <1>3, <1>4, <1>5, <1>6, <1>7, <1>8, <1>9, <1>10, <1>11, <1>12, <1>13, <1>14, <1>15, <1>16,
       <1>17, <1>18, <1>19 DEF Next, Core

----
\* When the core polls DONE a job runs that ends, or DONE is up: no operation waits for a job it did not
\* start, none starts a depthwise job without requantisation, and but for the commands the assumption on
\* the ports is about (AccumulatesTiles) none starts a job that adds over several k-tiles.
THEOREM PollsAnswered == Spec => []PollsEnd
  <1>1. Inv => PollsEnd
    <2> SUFFICES ASSUME Inv, todo # <<>>, Head(todo).op = "wait" PROVE done \/ CanEnd(job)
      BY DEF PollsEnd
    <2>1. status = "ok"
      BY DEF Inv
    <2>2. AtOp("wait")
      BY <2>1 DEF AtOp
    <2>3. PICK p \in Phases, r \in Phases, q \in {Free(FALSE), Own(TRUE)} :
              /\ Head(todo).op = "wait" /\ Takes(Head(todo), p, r) /\ Array(p)
              /\ Turns(Tail(todo), r, q)
      BY <2>2, AtHead
    <2>4. p.array \in {"busy", "own", "tapbusy", "surebusy"}
      BY <2>3, WaitPhase
    <2> QED  BY <2>3, <2>4 DEF Array
  <1> QED  BY <1>1, InitInv, StepInv, PTL DEF Spec

\* START copies the shadow registers whatever runs; no operation writes it while a job runs.
THEOREM StartsFindIdle == Spec => StartFindsIdle
  <1>1. ASSUME Inv, [Next]_vars PROVE [job' # job /\ job' # Idle => job = Idle]_vars
    <2>1. CASE StartJob
      BY <1>1, <2>1, StartJobInv
    <2>2. CASE EngineFinish
      BY <2>2 DEF EngineFinish
    <2>3. CASE ~StartJob /\ ~EngineFinish
      <3>1. job' = job
        BY <1>1, <2>3 DEF Next, Core, Issue, SetRegs, WaitDone, StageWindow, CheckBlock, Reject, Submitted,
           UnloadBlock, DecodeBlock, SetAfu, LoadTable, StartAfu, PollAfu, RunVector, FetchPixels, AfuFinish, vars, engine
      <3> QED  BY <3>1
    <2> QED  BY <2>1, <2>2, <2>3
  <1> QED  BY <1>1, InitInv, StepInv, PTL DEF Spec, StartFindsIdle

\* An operation leaves no job behind but the one that was submitted: with none due, the array is idle,
\* DONE has been read, the depthwise tap is off and the line buffer takes one k-tile when the next command
\* is issued.  No pass is left behind.
OperationsSettled ==
    status = "ok" /\ todo = <<>> =>
        /\ unit = Idle
        /\ IF pending = None THEN job = Idle /\ ~done /\ regs.lb.mode # "depthwise" /\ ~SeveralTiles(regs.lb)
           ELSE done \/ CanEnd(job)

\* Every operation of every program leaves the array that way.
THEOREM OperationsSettle == Spec => []OperationsSettled
  <1>1. Inv => OperationsSettled
    <2> SUFFICES ASSUME Inv, status = "ok", todo = <<>>
                 PROVE  /\ unit = Idle
                        /\ IF pending = None
                           THEN job = Idle /\ ~done /\ regs.lb.mode # "depthwise" /\ ~SeveralTiles(regs.lb)
                           ELSE done \/ CanEnd(job)
      BY DEF OperationsSettled
    <2>1. PICK p \in Phases, q \in {Free(FALSE), Own(TRUE)} : Turns(todo, p, q) /\ Array(p)
      BY LoadsSteps DEF Inv, Leads, Loading
    <2>2. p \in {Free(FALSE), Own(TRUE)}
      BY <2>1, TurnsEnd
    <2>3. CASE p = Free(FALSE)
      BY <2>1, <2>3, FreePhase DEF Array
    <2>4. CASE p = Own(TRUE)
      BY <2>1, <2>4, FreePhase DEF Array
    <2> QED  BY <2>2, <2>3, <2>4
  <1> QED  BY <1>1, InitInv, StepInv, PTL DEF Spec

\* Weights, tables and parameters share the window with the interpreter's command stream, and a job
\* whose weights are in it reads them until it ends.
WindowHeld == [][job # Idle /\ job.w[1] = "slot" => UNCHANGED window]_vars

\* Nothing is staged, and the interpreter does not refill the window, while a job reads it.
THEOREM WindowIsHeld == Spec => WindowHeld
  <1>1. ASSUME Inv, [Next]_vars PROVE [job # Idle /\ job.w[1] = "slot" => UNCHANGED window]_vars
    <2>1. CASE StageWindow
      BY <1>1, <2>1, StageWindowInv
    <2>2. CASE Issue
      BY <1>1, <2>2, IssueInv
    <2>3. CASE ~StageWindow /\ ~Issue
      <3>1. UNCHANGED window
        BY <1>1, <2>3 DEF Next, Core, SetRegs, StartJob, WaitDone, CheckBlock, Reject, Submitted, UnloadBlock,
           DecodeBlock, SetAfu, LoadTable, StartAfu, PollAfu, RunVector, FetchPixels, EngineFinish, AfuFinish, vars
      <3> QED  BY <3>1
    <2> QED  BY <2>1, <2>2, <2>3
  <1> QED  BY <1>1, InitInv, StepInv, PTL DEF Spec, WindowHeld

\* A START the AFU ignores would leave a pass undone; and a pass reads its table when it ends.
PassesKept == [][/\ StartAfu => unit = Idle
                 /\ unit # Idle => UNCHANGED <<areg, banks>>]_vars

\* No operation starts a pass, writes the AFU's registers or loads a table while a pass runs.
THEOREM PassesAreKept == Spec => PassesKept
  <1>1. ASSUME Inv, [Next]_vars PROVE [(StartAfu => unit = Idle) /\ (unit # Idle => UNCHANGED <<areg, banks>>)]_vars
    <2>1. StartAfu => unit = Idle
      BY <1>1, StartAfuInv
    <2>2. ASSUME SetAfu \/ LoadTable PROVE unit = Idle
      <3>1. /\ AtOp("afu_set") \/ AtOp("lut")
            /\ UNCHANGED <<regs, window, loaded, job, done, pending, unit, finished>> /\ Done
        BY <2>2 DEF SetAfu, LoadTable, engine
      <3> QED  BY <1>1, <3>1, QuietInv DEF Quiet
    <2>3. CASE ~StartAfu /\ ~SetAfu /\ ~LoadTable
      <3>1. UNCHANGED <<areg, banks>>
        BY <1>1, <2>3 DEF Next, Core, Issue, SetRegs, StartJob, WaitDone, StageWindow, CheckBlock, Reject, Submitted,
           UnloadBlock, DecodeBlock, PollAfu, RunVector, FetchPixels, EngineFinish, AfuFinish, vars, afu
      <3> QED  BY <2>3, <3>1
    <2> QED  BY <2>1, <2>2, <2>3
  <1> QED  BY <1>1, InitInv, StepInv, PTL DEF Spec, PassesKept

\* g_quant_buffer never names parameters other than those the requantiser holds, in either build and
\* whatever failed in between.
THEOREM ParametersAreCurrent == Spec => []ParametersCurrent
  <1>1. Inv => ParametersCurrent
    BY DEF Inv
  <1> QED  BY <1>1, InitInv, StepInv, PTL DEF Spec
====
