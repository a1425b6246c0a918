---- MODULE CommandDispatchProofs ----
(***************************************************************************)
(* Theorems about CommandDispatch, for every set of command sections,      *)
(* every declared count and every size of the window: what the window      *)
(* holds, that the commands executed are those of the section in place,    *)
(* and where a failure is located.                                         *)
(***************************************************************************)
EXTENDS CommandDispatch, WellFoundedInduction, SequenceTheorems, TLAPS

----
(* The inductive invariant. *)

Commands == [type : Types, words : Seq(0 .. (Words - 1))]
Placed == [at : Nat, command : Commands]

\* A unit of the body of a loop after the patches of n passes.
AfterPasses(unit, patches, place, n) == [unit EXCEPT !.val = (@ + n * DeltaAt(patches, place)) % Words]

\* How often the body in the window has been patched.
PassesPatched == IF child = 1 /\ iteration # 0 THEN iteration - 1 ELSE iteration

\* The unit of the window that stands for the unit at distance i of the section: itself, but for
\* the body of the loop that is being run.
Expected(i) ==
    LET loop == section[offset + 1]
        unit == section[offset + i]
    IN IF stage = "body" /\ loop.size < i /\ i <= RecordUnits(offset)
         THEN AfterPasses(unit, loop.patches, i - loop.size - 1, PassesPatched)
         ELSE unit

WindowInv ==
    stage # "returned" =>
        /\ ReadAccepted
        /\ \A i \in 1 .. window.buffered : At(window, i - 1) = Expected(i)

\* What has been found out about the record at the offset.
RecordInv ==
    /\ stage \in {"header", "record", "loop"} => iteration = 0 /\ child = 1
    /\ stage \in {"record", "loop", "body"} =>
         /\ offset < Len(section) /\ window.buffered >= 1
         /\ ValidHeader(section[offset + 1], Remaining)
    /\ stage = "record" => completed <= count
    /\ stage \in {"loop", "body"} =>
         /\ section[offset + 1].type = "loop"
         /\ RecordUnits(offset) <= Remaining

\* What remains of a loop fits the declared count.
LoopInv ==
    stage = "body" =>
        LET loop == section[offset + 1]
        IN /\ window.buffered >= RecordUnits(offset)
           /\ ValidLoop(RecordAt(offset))
           /\ iteration < loop.iterations /\ child <= loop.commands
           /\ completed + (loop.iterations - iteration) * loop.commands <= count + (child - 1)

\* The commands of the record at the offset that were executed already.
InRecord == IF stage = "body" THEN iteration * section[offset + 1].commands + (child - 1) ELSE 0

\* What was executed is the start of the program; what stands from the offset on is the rest of it.
ProgramInv ==
    /\ executed \in Seq(Commands) /\ completed = Len(executed)
    /\ Len(executed) <= Len(Program)
    /\ \A k \in 1 .. Len(executed) : executed[k] = Program[k].command
    /\ stage # "returned" =>
         /\ InRecord <= Len(executed)
         /\ Len(Program) = (Len(executed) - InRecord) + Len(From[offset])
         /\ \A k \in 1 .. Len(From[offset]) : Program[(Len(executed) - InRecord) + k] = From[offset][k]

OutcomeInv ==
    /\ stage # "returned" => status = "none"
    /\ status = "ok" => Len(executed) = Len(Program)
    /\ FailureLocated

DispatchInv == TypeOK /\ WindowInv /\ RecordInv /\ LoopInv /\ ProgramInv /\ OutcomeInv

----
(* Induction and recursion over the integers, with a set in the place of the predicate. *)

Less == {ss \in Nat \X Nat : ss[1] < ss[2]}

LEMMA LessWellFounded == IsWellFoundedOn(Less, Nat)
  BY NatLessThanWellFounded DEF OpToRel, Less

LEMMA Induction ==
    ASSUME NEW G, NEW n \in Nat, 0 \in G, \A k \in 0 .. (n - 1) : k \in G => k + 1 \in G
    PROVE  \A k \in 0 .. n : k \in G
  <1> DEFINE Bad == {k \in 0 .. n : k \notin G}
  <1>1. SUFFICES ASSUME Bad # {} PROVE FALSE
    OBVIOUS
  <1>2. PICK x \in Bad : \A y \in Bad : ~(<<y, x>> \in Less)
    <2>1. Bad \subseteq Nat
      OBVIOUS
    <2> HIDE DEF Bad
    <2> QED  BY <1>1, <2>1, WFMin, LessWellFounded
  <1>3. x \in 0 .. n /\ x \notin G /\ x # 0
    OBVIOUS
  <1>4. x - 1 \in 0 .. n /\ <<x - 1, x>> \in Less
    BY <1>3 DEF Less
  <1>5. x - 1 \in G
    BY <1>2, <1>4
  <1> QED  BY <1>3, <1>4, <1>5

Recurs(f, lo, hi, a, step) ==
    \A i \in lo .. hi : f[i] = IF i = lo THEN a ELSE step[<<i, f[i - 1]>>]

LEMMA Recursion ==
    ASSUME NEW S, NEW lo \in Int, NEW hi \in Int, lo <= hi, NEW a \in S,
           NEW step \in [(lo .. hi) \X S -> S]
    PROVE  \E f \in [lo .. hi -> S] : Recurs(f, lo, hi, a, step)
  <1> USE DEF Recurs
  <1> DEFINE Computes(k, f) == Recurs(f, lo, lo + k, a, step)
             n == hi - lo
             G == {k \in 0 .. n : \E f \in [lo .. (lo + k) -> S] : Computes(k, f)}
  <1>1. 0 \in G
    <2>1. [i \in lo .. lo |-> a] \in [lo .. (lo + 0) -> S] /\ Computes(0, [i \in lo .. lo |-> a])
      OBVIOUS
    <2>2. 0 \in 0 .. n
      OBVIOUS
    <2> HIDE DEF n, Computes
    <2> QED  BY <2>1, <2>2
  <1>2. ASSUME NEW k \in 0 .. (n - 1), k \in G PROVE k + 1 \in G
    <2>1. PICK f \in [lo .. (lo + k) -> S] : Computes(k, f)
      BY <1>2
    <2> DEFINE top == lo + (k + 1)
               g == [i \in lo .. top |-> IF i = top THEN step[<<top, f[lo + k]>>] ELSE f[i]]
    <2>2. top \in lo .. hi /\ top # lo /\ top - 1 = lo + k /\ f[lo + k] \in S
      OBVIOUS
    <2>3. step[<<top, f[lo + k]>>] \in S
      BY <2>2
    <2>4. g \in [lo .. top -> S]
      BY <2>2, <2>3
    <2>5. \A i \in lo .. (lo + k) : g[i] = f[i]
      OBVIOUS
    <2>6. g[top] = step[<<top, g[top - 1]>>]
      <3>1. top \in lo .. top /\ lo + k \in lo .. (lo + k)
        OBVIOUS
      <3>2. g[top] = step[<<top, f[lo + k]>>]
        BY <3>1
      <3> QED  BY <3>1, <3>2, <2>2, <2>5
    <2>7. ASSUME NEW i \in lo .. top PROVE g[i] = IF i = lo THEN a ELSE step[<<i, g[i - 1]>>]
      <3>1. CASE i = top
        BY <3>1, <2>2, <2>6
      <3>2. CASE i # top
        <4>1. i \in lo .. (lo + k) /\ (i # lo => i - 1 \in lo .. (lo + k))
          BY <3>2
        <4> HIDE DEF g
        <4> QED  BY <4>1, <2>1, <2>5
      <3> QED  BY <3>1, <3>2
    <2> HIDE DEF g
    <2>8. Computes(k + 1, g)
      BY <2>7
    <2> QED  BY <2>4, <2>8
  <1>3. n \in G
    <2>1. n \in Nat
      OBVIOUS
    <2> HIDE DEF G
    <2>2. \A k \in 0 .. n : k \in G
      BY <1>1, <1>2, <2>1, Induction
    <2> HIDE DEF n
    <2> QED  BY <2>1, <2>2
  <1>4. lo + n = hi
    OBVIOUS
  <1> QED  BY <1>3, <1>4

----
(* The operators of the model. *)

LEMMA Sizings ==
    /\ Capacity \in Nat /\ Capacity >= 3 /\ MaxBody \in Nat \ {0} /\ MaxPatches \in Nat
    /\ Words \in Nat \ {0} /\ 0 .. (Words - 1) \subseteq Nat
  BY DispatchAssumption

\* The sum of the patches is computed one patch after the other.
LEMMA DeltaFunction ==
    ASSUME NEW patches \in Seq(Patch), NEW place
    PROVE  \E f \in [0 .. Len(patches) -> Nat] :
              /\ DeltaAt(patches, place) = f[Len(patches)]
              /\ f[0] = 0
              /\ \A p \in 1 .. Len(patches) :
                    f[p] = f[p - 1] + (IF patches[p].at = place THEN patches[p].delta ELSE 0)
  <1> DEFINE n == Len(patches)
             amount(p) == IF patches[p].at = place THEN patches[p].delta ELSE 0
             step == [ix \in (0 .. n) \X Nat |-> IF ix[1] = 0 THEN 0 ELSE ix[2] + amount(ix[1])]
             next(f) == [p \in 0 .. n |-> IF p = 0 THEN 0 ELSE f[p - 1] + amount(p)]
             sum == CHOOSE f : f = next(f)
  <1>1. n \in Nat
    OBVIOUS
  <1>2. ASSUME NEW p \in 1 .. n PROVE amount(p) \in Nat
    <2>1. patches[p] \in Patch
      OBVIOUS
    <2> QED  BY <2>1, Sizings DEF Patch
  <1>3. DeltaAt(patches, place) = sum[n]
    BY DEF DeltaAt
  <1> HIDE DEF n, amount
  <1>4. step \in [(0 .. n) \X Nat -> Nat]
    BY <1>1, <1>2
  <1>5. PICK f \in [0 .. n -> Nat] : Recurs(f, 0, n, 0, step)
    <2>1. 0 \in Int /\ n \in Int /\ 0 <= n /\ 0 \in Nat
      BY <1>1
    <2> HIDE DEF step
    <2> QED  BY <1>4, <2>1, Recursion
  <1>6. \A p \in 0 .. n : f[p] = IF p = 0 THEN 0 ELSE f[p - 1] + amount(p)
    <2> TAKE p \in 0 .. n
    <2>1. p # 0 => p - 1 \in 0 .. n /\ f[p - 1] \in Nat
      BY <1>1, <1>5
    <2> QED  BY <1>5, <2>1 DEF Recurs
  <1>7. f = next(f)
    BY <1>6
  <1>8. sum = next(sum)
    BY <1>7
  <1>9. ASSUME NEW g, g = next(g) PROVE g \in [0 .. n -> Nat]
    <2>1. DOMAIN g = 0 .. n /\ g[0] = 0 /\ \A p \in 1 .. n : g[p] = g[p - 1] + amount(p)
      BY <1>1, <1>9
    <2> DEFINE G == {p \in 0 .. n : g[p] \in Nat}
    <2>2. 0 \in G
      BY <1>1, <2>1
    <2>3. ASSUME NEW p \in 0 .. (n - 1), p \in G PROVE p + 1 \in G
      <3>1. p + 1 \in 1 .. n /\ (p + 1) - 1 = p
        BY <1>1
      <3> QED  BY <1>2, <2>1, <2>3, <3>1
    <2> HIDE DEF G
    <2>4. \A p \in 0 .. n : p \in G
      BY <1>1, <2>2, <2>3, Induction
    <2>5. g = [p \in 0 .. n |-> g[p]]
      BY <1>9
    <2> QED  BY <2>4, <2>5 DEF G
  <1>10. sum \in [0 .. n -> Nat]
    <2> HIDE DEF next, sum
    <2> QED  BY <1>8, <1>9
  <1>11. sum[0] = 0 /\ \A p \in 1 .. n : sum[p] = sum[p - 1] + amount(p)
    <2> HIDE DEF sum
    <2> QED  BY <1>1, <1>8
  <1> HIDE DEF sum
  <1> QED  BY <1>3, <1>10, <1>11 DEF n, amount

LEMMA DeltaIsNat ==
    ASSUME NEW patches \in Seq(Patch), NEW place
    PROVE  DeltaAt(patches, place) \in Nat
  <1>1. PICK f \in [0 .. Len(patches) -> Nat] : DeltaAt(patches, place) = f[Len(patches)]
    BY DeltaFunction
  <1>2. Len(patches) \in 0 .. Len(patches)
    OBVIOUS
  <1> QED  BY <1>1, <1>2

\* A word no patch is for stays as it is.
LEMMA NoDelta ==
    ASSUME NEW patches \in Seq(Patch), NEW place, \A p \in 1 .. Len(patches) : patches[p].at # place
    PROVE  DeltaAt(patches, place) = 0
  <1> DEFINE n == Len(patches)
  <1>1. PICK f \in [0 .. n -> Nat] :
           /\ DeltaAt(patches, place) = f[n] /\ f[0] = 0
           /\ \A p \in 1 .. n : f[p] = f[p - 1] + (IF patches[p].at = place THEN patches[p].delta ELSE 0)
    BY DeltaFunction, SMTT(30)
  <1>2. n \in Nat
    OBVIOUS
  <1> DEFINE G == {p \in 0 .. n : f[p] = 0}
  <1> HIDE DEF n
  <1>3. 0 \in G
    BY <1>1, <1>2
  <1>4. ASSUME NEW p \in 0 .. (n - 1), p \in G PROVE p + 1 \in G
    <2>1. p + 1 \in 1 .. n /\ (p + 1) - 1 = p /\ f[p] = 0
      BY <1>2, <1>4
    <2>2. f[p + 1] = f[p] + 0
      BY <1>1, <2>1 DEF n
    <2> QED  BY <2>1, <2>2, <1>2
  <1>5. n \in G
    <2> HIDE DEF G
    <2>1. \A p \in 0 .. n : p \in G
      BY <1>2, <1>3, <1>4, Induction
    <2> QED  BY <1>2, <2>1
  <1> QED  BY <1>1, <1>5

LEMMA OffsetsType ==
    ASSUME NEW sizes \in Seq(Nat), NEW n \in Nat
    PROVE  ChildOffsets(sizes, n) \in [1 .. (n + 1) -> Nat]
  <1> DEFINE m == n + 1
             after(o) == IF o < Len(sizes) THEN o + sizes[o + 1] ELSE Len(sizes) + 1
             step == [ix \in (1 .. m) \X Nat |-> after(ix[2])]
             next(f) == [k \in 1 .. m |-> IF k = 1 THEN 0
                                          ELSE IF f[k - 1] < Len(sizes)
                                                 THEN f[k - 1] + sizes[f[k - 1] + 1]
                                               ELSE Len(sizes) + 1]
             at == CHOOSE f : f = next(f)
  <1>1. m \in Nat /\ 1 \in Int /\ m \in Int /\ 1 <= m /\ 0 \in Nat
    OBVIOUS
  <1>2. \A o \in Nat : after(o) \in Nat
    OBVIOUS
  <1>3. ChildOffsets(sizes, n) = at
    BY DEF ChildOffsets
  <1> HIDE DEF m
  <1>4. \A f : next(f) = [k \in 1 .. m |-> IF k = 1 THEN 0 ELSE after(f[k - 1])]
    OBVIOUS
  <1> HIDE DEF after
  <1>5. step \in [(1 .. m) \X Nat -> Nat]
    BY <1>1, <1>2
  <1>6. PICK f \in [1 .. m -> Nat] : Recurs(f, 1, m, 0, step)
    <2> HIDE DEF step
    <2> QED  BY <1>1, <1>5, Recursion
  <1>7. \A k \in 1 .. m : f[k] = IF k = 1 THEN 0 ELSE after(f[k - 1])
    <2> TAKE k \in 1 .. m
    <2>1. k # 1 => k - 1 \in 1 .. m /\ f[k - 1] \in Nat
      BY <1>1, <1>6
    <2> QED  BY <1>6, <2>1 DEF Recurs
  <1> HIDE DEF next
  <1>8. f = next(f)
    BY <1>4, <1>7
  <1>9. at = next(at)
    BY <1>8
  <1>10. ASSUME NEW g, g = next(g) PROVE g \in [1 .. m -> Nat]
    <2>1. g = [k \in 1 .. m |-> IF k = 1 THEN 0 ELSE after(g[k - 1])]
      BY <1>4, <1>10
    <2> DEFINE G == {p \in 0 .. n : g[p + 1] \in Nat}
    <2>2. 0 \in G
      BY <1>1, <2>1
    <2>3. ASSUME NEW p \in 0 .. (n - 1), p \in G PROVE p + 1 \in G
      <3>1. (p + 1) + 1 \in 1 .. m /\ ((p + 1) + 1) - 1 = p + 1 /\ (p + 1) + 1 # 1
        BY DEF m
      <3>2. g[(p + 1) + 1] = after(g[p + 1])
        BY <2>1, <3>1
      <3>3. g[p + 1] \in Nat /\ p + 1 \in 0 .. n
        BY <2>3
      <3> QED  BY <1>2, <3>2, <3>3
    <2> HIDE DEF G
    <2>4. \A p \in 0 .. n : p \in G
      BY <2>2, <2>3, Induction
    <2>5. \A k \in 1 .. m : g[k] \in Nat
      <3> TAKE k \in 1 .. m
      <3>1. k - 1 \in 0 .. n /\ (k - 1) + 1 = k
        BY DEF m
      <3> QED  BY <2>4, <3>1 DEF G
    <2>6. g = [k \in 1 .. m |-> g[k]]
      BY <2>1
    <2> QED  BY <2>5, <2>6
  <1> HIDE DEF at
  <1>11. at \in [1 .. m -> Nat]
    BY <1>9, <1>10
  <1> QED  BY <1>3, <1>11 DEF m

\* The passes of a loop one after the other: each has its place.
LEMMA Multiples ==
    ASSUME NEW c \in Nat, NEW i \in Nat \ {0}
    PROVE  (i - 1) * c \in Nat /\ i * c \in Nat /\ i * c = (i - 1) * c + c
  OBVIOUS

LEMMA Enumerated ==
    ASSUME NEW T, NEW n \in Nat, NEW s, s = [i \in 1 .. n |-> s[i]], \A i \in 1 .. n : s[i] \in T
    PROVE  s \in Seq(T) /\ Len(s) = n
  <1>1. s \in [1 .. n -> T]
    OBVIOUS
  <1>2. s \in Seq(T)
    BY <1>1, SeqDef
  <1> QED  BY <1>1, <1>2, LenProperties

LEMMA Joined ==
    ASSUME NEW T, NEW s \in Seq(T), NEW t \in Seq(T)
    PROVE  /\ s \o t \in Seq(T) /\ Len(s \o t) = Len(s) + Len(t)
           /\ \A i \in 1 .. Len(s) : (s \o t)[i] = s[i]
           /\ \A i \in 1 .. Len(t) : (s \o t)[Len(s) + i] = t[i]
  OBVIOUS

LEMMA Flattened ==
    ASSUME NEW T, NEW seqs \in Seq(Seq(T)), Len(seqs) # 0,
           NEW c \in Nat, \A i \in 1 .. Len(seqs) : Len(seqs[i]) = c
    PROVE  /\ FlattenSeq(seqs) \in Seq(T) /\ Len(FlattenSeq(seqs)) = Len(seqs) * c
           /\ \A i \in 1 .. Len(seqs) : \A k \in 1 .. c : FlattenSeq(seqs)[(i - 1) * c + k] = seqs[i][k]
  <1> DEFINE n == Len(seqs)
             S == Seq(T)
             step == [ix \in (1 .. n) \X S |-> ix[2] \o seqs[ix[1]]]
             next(f) == [i \in 1 .. n |-> IF i = 1 THEN seqs[i] ELSE f[i - 1] \o seqs[i]]
             flatten == CHOOSE f : f = next(f)
  <1>1. n \in Nat /\ 1 \in Int /\ n \in Int /\ 1 <= n /\ 1 \in 1 .. n
    OBVIOUS
  <1>2. \A i \in 1 .. n : seqs[i] \in S /\ Len(seqs[i]) = c
    OBVIOUS
  <1>3. FlattenSeq(seqs) = flatten[n]
    BY DEF FlattenSeq
  <1> HIDE DEF n
  <1>4. step \in [(1 .. n) \X S -> S]
    BY <1>1, <1>2
  <1>5. PICK f \in [1 .. n -> S] : Recurs(f, 1, n, seqs[1], step)
    <2> HIDE DEF step, S
    <2> QED  BY <1>1, <1>2, <1>4, Recursion
  <1>6. \A i \in 1 .. n : f[i] = IF i = 1 THEN seqs[i] ELSE f[i - 1] \o seqs[i]
    <2> TAKE i \in 1 .. n
    <2>1. i # 1 => i - 1 \in 1 .. n /\ f[i - 1] \in S
      BY <1>1, <1>5
    <2> HIDE DEF S
    <2> QED  BY <1>5, <2>1 DEF Recurs
  <1>7. f = next(f)
    BY <1>6
  <1>8. flatten = next(flatten)
    BY <1>7
  <1> HIDE DEF flatten
  \* After i sequences.
  <1> DEFINE Holds(g, i) == /\ g[i] \in S /\ Len(g[i]) = i * c
                            /\ \A j \in 1 .. i : \A k \in 1 .. c : g[i][(j - 1) * c + k] = seqs[j][k]
             G == {p \in 0 .. (n - 1) : Holds(flatten, p + 1)}
  <1>9. 0 \in G
    <2>1. flatten[1] = seqs[1]
      BY <1>1, <1>8
    <2>2. seqs[1] \in S /\ Len(seqs[1]) = 1 * c
      BY <1>1, <1>2
    <2>3. ASSUME NEW j \in 1 .. 1, NEW k \in 1 .. c PROVE seqs[1][(j - 1) * c + k] = seqs[j][k]
      <3>1. j = 1 /\ (1 - 1) * c + k = k
        OBVIOUS
      <3> QED  BY <3>1
    <2>4. Holds(flatten, 0 + 1)
      BY <2>1, <2>2, <2>3
    <2> HIDE DEF Holds
    <2> QED  BY <1>1, <2>4
  <1>10. ASSUME NEW p \in 0 .. ((n - 1) - 1), p \in G PROVE p + 1 \in G
    <2> DEFINE i == p + 1
               done == flatten[i]
    <2>1. i \in 1 .. n /\ i + 1 \in 1 .. n /\ i + 1 # 1 /\ (i + 1) - 1 = i /\ i \in Nat
      BY <1>1
    <2>2. flatten[i + 1] = done \o seqs[i + 1]
      BY <2>1, <1>8
    <2>3. done \in Seq(T) /\ Len(done) = i * c
      BY <1>10
    <2>4. \A j \in 1 .. i : \A k \in 1 .. c : done[(j - 1) * c + k] = seqs[j][k]
      BY <1>10
    <2>5. seqs[i + 1] \in Seq(T) /\ Len(seqs[i + 1]) = c
      BY <1>2, <2>1
    <2> HIDE DEF done, i
    <2>6. i * c \in Nat /\ (i + 1) * c = i * c + c
      BY <2>1
    <2>7. flatten[i + 1] \in Seq(T) /\ Len(flatten[i + 1]) = (i + 1) * c
      <3>1. flatten[i + 1] \in Seq(T) /\ Len(flatten[i + 1]) = Len(done) + Len(seqs[i + 1])
        <4>1. /\ done \o seqs[i + 1] \in Seq(T)
              /\ Len(done \o seqs[i + 1]) = Len(done) + Len(seqs[i + 1])
          BY <2>3, <2>5, Joined
        <4> QED  BY <2>2, <4>1
      <3> QED  BY <2>3, <2>5, <2>6, <3>1
    <2>8. ASSUME NEW j \in 1 .. (i + 1), NEW k \in 1 .. c
          PROVE  flatten[i + 1][(j - 1) * c + k] = seqs[j][k]
      <3>1. CASE j = i + 1
        <4>1. (j - 1) * c + k = Len(done) + k
          BY <2>1, <2>3, <3>1
        <4>2. (done \o seqs[i + 1])[Len(done) + k] = seqs[i + 1][k]
          BY <2>3, <2>5, Joined, SMTT(30)
        <4> QED  BY <2>2, <3>1, <4>1, <4>2
      <3>2. CASE j # i + 1
        <4>1. j \in 1 .. i /\ j \in Nat /\ j - 1 \in Nat /\ j <= i
          BY <2>1, <3>2
        <4>2. (j - 1) * c \in Nat /\ j * c = (j - 1) * c + c /\ j * c <= i * c
          BY <2>1, <4>1, SMTT(30)
        <4> DEFINE before == (j - 1) * c
        <4>3. before + k \in 1 .. Len(done)
          <5>1. before \in Nat /\ before + c <= Len(done)
            BY <2>3, <2>6, <4>2
          <5> HIDE DEF before
          <5> QED  BY <2>3, <2>6, <5>1
        <4>4. flatten[i + 1][before + k] = done[before + k]
          <5> HIDE DEF before
          <5> QED  BY <2>2, <2>3, <2>5, <4>3, Joined
        <4> QED  BY <2>4, <4>1, <4>4
      <3> QED  BY <3>1, <3>2
    <2>9. Holds(flatten, i + 1)
      BY <2>7, <2>8
    <2>10. i \in 0 .. (n - 1)
      BY <2>1, <1>1
    <2> HIDE DEF Holds
    <2>11. i \in G
      BY <2>9, <2>10
    <2> QED  BY <2>11 DEF i
  <1>11. \A p \in 0 .. (n - 1) : p \in G
    <2>1. n - 1 \in Nat
      BY <1>1
    <2> HIDE DEF G
    <2> QED  BY <1>9, <1>10, <2>1, Induction
  <1>12. Holds(flatten, n)
    <2>1. n - 1 \in 0 .. (n - 1) /\ (n - 1) + 1 = n
      BY <1>1
    <2> HIDE DEF Holds
    <2> QED  BY <1>11, <2>1
  <1> QED  BY <1>3, <1>12 DEF n

----
(* Records of a section. *)

LEMMA UnitFields ==
    ASSUME NEW unit \in Unit
    PROVE  /\ unit.type \in Types /\ unit.size \in Nat /\ unit.val \in 0 .. (Words - 1)
           /\ unit.iterations \in Nat /\ unit.commands \in Nat /\ unit.body \in Nat
           /\ unit.patches \in Seq(Patch)
  BY DEF Unit

LEMMA PatchFields ==
    ASSUME NEW patches \in Seq(Patch), NEW p \in 1 .. Len(patches)
    PROVE  patches[p] \in Patch /\ patches[p].at \in Nat /\ patches[p].delta \in Nat
  <1>1. patches[p] \in Patch
    OBVIOUS
  <1> QED  BY <1>1, Sizings DEF Patch

\* What the operations are called with is a command.
LEMMA CommandType ==
    ASSUME NEW record \in Seq(Unit), Len(record) # 0
    PROVE  Command(record) \in Commands
  <1>1. \A i \in 1 .. Len(record) : record[i].val \in 0 .. (Words - 1)
    BY UnitFields
  <1>2. record[1].type \in Types
    BY UnitFields
  <1>3. DOMAIN record = 1 .. Len(record) /\ Len(record) \in Nat
    OBVIOUS
  <1> HIDE DEF Unit, Types
  <1>4. [i \in DOMAIN record |-> record[i].val] \in Seq(0 .. (Words - 1))
    BY <1>1, <1>3
  <1> QED  BY <1>2, <1>4 DEF Command, Commands

LEMMA Slice ==
    ASSUME NEW T, NEW s \in Seq(T), NEW m \in Nat \ {0}, NEW n \in Nat, n <= Len(s), m <= n + 1
    PROVE  /\ SubSeq(s, m, n) \in Seq(T) /\ Len(SubSeq(s, m, n)) = (n - m) + 1
           /\ \A i \in 1 .. ((n - m) + 1) : SubSeq(s, m, n)[i] = s[(m + i) - 1]
  OBVIOUS

\* The body of a loop after the patches of n passes.
PassBody(record, n) ==
    [i \in 1 .. record[1].body |->
        AfterPasses(record[record[1].size + i], record[1].patches, i - 1, n)]
BodyOf(record) == SubSeq(record, record[1].size + 1, Len(record))
ChildrenOf(record) == ChildOffsets(Sizes(BodyOf(record)), record[1].commands)

LEMMA UnitAfterPasses ==
    ASSUME NEW unit \in Unit, NEW patches \in Seq(Patch), NEW place, NEW n \in Nat
    PROVE  /\ AfterPasses(unit, patches, place, n) \in Unit
           /\ AfterPasses(unit, patches, place, n).size = unit.size
  <1> DEFINE d == DeltaAt(patches, place)
             v == (unit.val + n * d) % Words
  <1>1. unit.val + n * d \in Nat
    BY UnitFields, DeltaIsNat, Sizings
  <1>2. v \in 0 .. (Words - 1)
    <2> HIDE DEF d
    <2> QED  BY <1>1, Sizings
  <1>3. AfterPasses(unit, patches, place, n) = [unit EXCEPT !.val = v]
    BY DEF AfterPasses
  <1> HIDE DEF v
  <1> QED  BY <1>2, <1>3 DEF Unit

LEMMA BodyFacts ==
    ASSUME NEW record \in Seq(Unit), Len(record) # 0, Len(record) = record[1].size + record[1].body
    PROVE  /\ record[1] \in Unit
           /\ BodyOf(record) \in Seq(Unit) /\ Len(BodyOf(record)) = record[1].body
           /\ \A i \in 1 .. record[1].body : BodyOf(record)[i] = record[record[1].size + i]
           /\ Sizes(BodyOf(record)) \in Seq(Nat) /\ Len(Sizes(BodyOf(record))) = record[1].body
           /\ ChildrenOf(record) \in [1 .. (record[1].commands + 1) -> Nat]
  <1> DEFINE loop == record[1]
             body == BodyOf(record)
  <1>1. loop \in Unit /\ loop.size \in Nat /\ loop.body \in Nat /\ loop.commands \in Nat
    <2>1. loop \in Unit
      OBVIOUS
    <2> QED  BY <2>1, UnitFields
  <1>2. Len(record) \in Nat /\ loop.size + 1 \in Nat \ {0} /\ loop.size + 1 <= Len(record) + 1
    BY <1>1, SMTT(30)
  <1>3. (Len(record) - (loop.size + 1)) + 1 = loop.body
    BY <1>1, SMTT(30)
  <1>4. body \in Seq(Unit) /\ Len(body) = loop.body
    BY <1>2, <1>3, Slice DEF BodyOf
  <1>5. \A i \in 1 .. loop.body : body[i] = record[loop.size + i]
    <2> TAKE i \in 1 .. loop.body
    <2>1. body[i] = record[((loop.size + 1) + i) - 1]
      BY <1>2, <1>3, Slice DEF BodyOf
    <2> QED  BY <2>1, <1>1
  <1> HIDE DEF body
  <1>6. Sizes(body) \in Seq(Nat) /\ Len(Sizes(body)) = loop.body
    <2>1. DOMAIN body = 1 .. loop.body /\ \A i \in 1 .. loop.body : body[i].size \in Nat
      BY <1>4, UnitFields
    <2> HIDE DEF loop
    <2> QED  BY <1>1, <2>1 DEF Sizes
  <1>7. ChildrenOf(record) \in [1 .. (loop.commands + 1) -> Nat]
    BY <1>1, <1>6, OffsetsType DEF ChildrenOf, body
  <1> QED  BY <1>1, <1>4, <1>5, <1>6, <1>7 DEF body

\* A valid loop: its children lie in its body, one after the other, and its patches too.
LEMMA LoopFacts ==
    ASSUME NEW record \in Seq(Unit), Len(record) # 0, Len(record) = record[1].size + record[1].body,
           ValidLoop(record)
    PROVE  /\ record[1].iterations \in Nat /\ record[1].iterations >= 2
           /\ record[1].commands \in 1 .. MaxBody /\ record[1].size \in Nat \ {0}
           /\ record[1].patches \in Seq(Patch)
           /\ \A p \in 1 .. Len(record[1].patches) : record[1].patches[p].at < record[1].body
           /\ \A k \in 1 .. record[1].commands :
                 LET o == ChildrenOf(record)[k]
                 IN /\ o \in 0 .. (record[1].body - 1)
                    /\ record[record[1].size + (o + 1)].size \in Nat \ {0}
                    /\ o + record[record[1].size + (o + 1)].size <= record[1].body
  <1> DEFINE loop == record[1]
             body == BodyOf(record)
             at == ChildrenOf(record)
  <1>1. /\ loop \in Unit /\ body \in Seq(Unit) /\ Len(body) = loop.body
        /\ \A i \in 1 .. loop.body : body[i] = record[loop.size + i]
        /\ at \in [1 .. (loop.commands + 1) -> Nat]
    BY BodyFacts
  <1>2. /\ loop.iterations >= 2 /\ loop.commands \in 1 .. MaxBody
        /\ loop.size = DescriptorUnits(loop.patches)
        /\ \A k \in 1 .. loop.commands : /\ at[k] < Len(body)
                                         /\ ValidHeader(body[at[k] + 1], Len(body) - at[k])
        /\ \A p \in DOMAIN loop.patches : loop.patches[p].at < Len(body)
    BY DEF ValidLoop, BodyOf, ChildrenOf
  <1>3. /\ loop.size \in Nat /\ loop.patches \in Seq(Patch) /\ loop.iterations \in Nat
        /\ loop.commands \in Nat /\ loop.body \in Nat
    BY <1>1, UnitFields
  <1>4. loop.size # 0
    <2>1. Len(loop.patches) \in Nat
      BY <1>3
    <2>2. \A n \in Nat : 1 + (n + 3) \div 4 # 0
      OBVIOUS
    <2>3. loop.size = 1 + (Len(loop.patches) + 3) \div 4
      BY <1>2 DEF DescriptorUnits
    <2> HIDE DEF loop
    <2> QED  BY <2>1, <2>2, <2>3
  <1>5. ASSUME NEW k \in 1 .. loop.commands
        PROVE  /\ at[k] \in 0 .. (loop.body - 1)
               /\ record[loop.size + (at[k] + 1)].size \in Nat \ {0}
               /\ at[k] + record[loop.size + (at[k] + 1)].size <= loop.body
    <2>1. at[k] \in Nat /\ at[k] < loop.body /\ loop.body \in Nat
      <3>1. k \in 1 .. (loop.commands + 1) /\ at[k] < Len(body)
        BY <1>2, <1>3
      <3> HIDE DEF at, loop, body
      <3> QED  BY <1>1, <1>3, <3>1
    <2>2. at[k] + 1 \in 1 .. loop.body
      BY <2>1
    <2>3. body[at[k] + 1] = record[loop.size + (at[k] + 1)] /\ body[at[k] + 1] \in Unit
      BY <1>1, <2>2
    <2>4. body[at[k] + 1].size \in Nat
      BY <2>3, UnitFields
    <2>5. body[at[k] + 1].size >= 1 /\ body[at[k] + 1].size <= loop.body - at[k]
      BY <1>1, <1>2 DEF ValidHeader
    <2> QED  BY <2>1, <2>3, <2>4, <2>5
  <1>6. DOMAIN loop.patches = 1 .. Len(loop.patches)
    BY <1>3
  <1> HIDE DEF at, body
  <1> QED  BY <1>1, <1>2, <1>3, <1>4, <1>5, <1>6 DEF at

ChildCommand(body, o) == Command(SubSeq(body, o + 1, o + body[o + 1].size))

\* A pass patches words, so the children stay where they are.
LEMMA PassBodyFacts ==
    ASSUME NEW record \in Seq(Unit), Len(record) # 0, Len(record) = record[1].size + record[1].body,
           ValidLoop(record), NEW n \in Nat
    PROVE  /\ PassBody(record, n) \in Seq(Unit) /\ Len(PassBody(record, n)) = record[1].body
           /\ \A i \in 1 .. record[1].body :
                 PassBody(record, n)[i].size = record[record[1].size + i].size
           /\ Sizes(PassBody(record, n)) = Sizes(BodyOf(record))
           /\ \A k \in 1 .. record[1].commands :
                 ChildCommand(PassBody(record, n), ChildrenOf(record)[k]) \in Commands
  <1> DEFINE loop == record[1]
             body == PassBody(record, n)
             at == ChildrenOf(record)
  <1>1. /\ loop \in Unit /\ BodyOf(record) \in Seq(Unit) /\ Len(BodyOf(record)) = loop.body
        /\ \A i \in 1 .. loop.body : BodyOf(record)[i] = record[loop.size + i]
    BY BodyFacts
  <1>2. loop.size \in Nat \ {0} /\ loop.patches \in Seq(Patch)
    BY LoopFacts
  <1>3. loop.body \in Nat
    BY <1>1, UnitFields
  <1>4. ASSUME NEW i \in 1 .. loop.body
        PROVE  body[i] \in Unit /\ body[i].size = record[loop.size + i].size
    <2>1. record[loop.size + i] \in Unit
      BY <1>1
    <2>2. body[i] = AfterPasses(record[loop.size + i], loop.patches, i - 1, n)
      BY DEF PassBody
    <2> HIDE DEF loop, body
    <2> QED  BY <1>2, <2>1, <2>2, UnitAfterPasses
  <1>5. body \in Seq(Unit) /\ Len(body) = loop.body
    <2>1. DOMAIN body = 1 .. loop.body /\ body = [i \in 1 .. loop.body |-> body[i]]
      BY DEF PassBody
    <2> HIDE DEF body, loop
    <2> QED  BY <1>3, <1>4, <2>1, Enumerated
  <1>6. Sizes(body) = Sizes(BodyOf(record))
    <2>1. DOMAIN body = 1 .. loop.body /\ DOMAIN BodyOf(record) = 1 .. loop.body
      BY <1>1, <1>5
    <2> HIDE DEF body, loop
    <2> QED  BY <1>1, <1>4, <2>1 DEF Sizes
  <1>7. ASSUME NEW k \in 1 .. loop.commands PROVE ChildCommand(body, at[k]) \in Commands
    <2> DEFINE o == at[k]
    <2>1. /\ o \in 0 .. (loop.body - 1)
          /\ record[loop.size + (o + 1)].size \in Nat \ {0}
          /\ o + record[loop.size + (o + 1)].size <= loop.body
      BY LoopFacts
    <2> HIDE DEF o, body
    <2>2. body[o + 1].size = record[loop.size + (o + 1)].size
      BY <1>3, <1>4, <2>1
    <2> DEFINE size == body[o + 1].size
    <2>3. size \in Nat \ {0} /\ o + size <= loop.body /\ o \in Nat
      BY <2>1, <2>2, <1>3
    <2> HIDE DEF loop, size
    <2>4. SubSeq(body, o + 1, o + size) \in Seq(Unit) /\ Len(SubSeq(body, o + 1, o + size)) = size
      <3>1. o + 1 \in Nat \ {0} /\ o + size \in Nat /\ o + size <= Len(body) /\ o + 1 <= (o + size) + 1
        BY <1>5, <2>3
      <3>2. ((o + size) - (o + 1)) + 1 = size
        BY <2>3
      <3> QED  BY <1>5, <3>1, <3>2, Slice, SMTT(30)
    <2> QED  BY <2>3, <2>4, CommandType DEF ChildCommand, size, o
  <1> HIDE DEF body, at
  <1> QED  BY <1>4, <1>5, <1>6, <1>7 DEF body, at

LEMMA PassFacts ==
    ASSUME NEW record \in Seq(Unit), Len(record) # 0, Len(record) = record[1].size + record[1].body,
           ValidLoop(record), NEW place \in Nat, NEW n \in Nat
    PROVE  /\ Pass(record, place, n) \in Seq(Placed) /\ Len(Pass(record, place, n)) = record[1].commands
           /\ \A k \in 1 .. record[1].commands :
                 /\ Pass(record, place, n)[k].at = place + record[1].size + ChildrenOf(record)[k]
                 /\ Pass(record, place, n)[k].command
                      = ChildCommand(PassBody(record, n), ChildrenOf(record)[k])
  <1> DEFINE loop == record[1]
             body == PassBody(record, n)
             at == ChildrenOf(record)
  <1>1. Sizes(body) = Sizes(BodyOf(record)) /\ \A k \in 1 .. loop.commands : ChildCommand(body, at[k]) \in Commands
    BY PassBodyFacts
  <1>2. loop.commands \in Nat /\ loop.size \in Nat /\ \A k \in 1 .. loop.commands : at[k] \in Nat
    BY LoopFacts
  <1>3. at = ChildOffsets(Sizes(body), loop.commands)
    BY <1>1 DEF ChildrenOf
  <1>4. Pass(record, place, n)
          = [k \in 1 .. loop.commands |->
               [at |-> place + loop.size + at[k], command |-> ChildCommand(body, at[k])]]
    BY <1>3 DEF Pass, PassBody, AfterPasses, ChildCommand
  <1> HIDE DEF loop, body, at
  <1>5. \A k \in 1 .. loop.commands :
           [at |-> place + loop.size + at[k], command |-> ChildCommand(body, at[k])] \in Placed
    BY <1>1, <1>2 DEF Placed
  <1>6. Pass(record, place, n) \in Seq(Placed) /\ Len(Pass(record, place, n)) = loop.commands
    <2> DEFINE pass == Pass(record, place, n)
    <2>1. pass = [k \in 1 .. loop.commands |-> pass[k]] /\ \A k \in 1 .. loop.commands : pass[k] \in Placed
      BY <1>4, <1>5
    <2> HIDE DEF pass
    <2>2. pass \in Seq(Placed) /\ Len(pass) = loop.commands
      BY <1>2, <2>1, Enumerated
    <2> QED  BY <2>2 DEF pass
  <1>7. \A k \in 1 .. loop.commands :
           /\ Pass(record, place, n)[k].at = place + loop.size + at[k]
           /\ Pass(record, place, n)[k].command = ChildCommand(body, at[k])
    BY <1>4
  <1> QED  BY <1>6, <1>7 DEF loop, body, at

\* What stands at a place of the section.
LEMMA RecordFacts ==
    ASSUME section \in Seq(Unit), NEW o \in 0 .. (Len(section) - 1), o + RecordUnits(o) <= Len(section),
           RecordUnits(o) # 0
    PROVE  /\ section[o + 1] \in Unit /\ RecordUnits(o) \in Nat \ {0}
           /\ RecordAt(o) \in Seq(Unit) /\ Len(RecordAt(o)) = RecordUnits(o)
           /\ \A i \in 1 .. RecordUnits(o) : RecordAt(o)[i] = section[o + i]
  <1>1. section[o + 1] \in Unit /\ o \in Nat /\ Len(section) \in Nat
    BY o + 1 \in 1 .. Len(section)
  <1>2. RecordUnits(o) \in Nat \ {0}
    BY <1>1, UnitFields DEF RecordUnits
  <1> DEFINE n == RecordUnits(o)
  <1> HIDE DEF n
  <1>3. n \in Nat \ {0} /\ o + n <= Len(section)
    BY <1>2 DEF n
  <1>4. o + 1 \in Nat \ {0} /\ o + n \in Nat /\ o + 1 <= (o + n) + 1 /\ ((o + n) - (o + 1)) + 1 = n
    BY <1>1, <1>3
  <1>5. RecordAt(o) = SubSeq(section, o + 1, o + n)
    BY DEF RecordAt, n
  <1>6. RecordAt(o) \in Seq(Unit) /\ Len(RecordAt(o)) = n
    BY <1>3, <1>4, <1>5, Slice
  <1>7. ASSUME NEW i \in 1 .. n PROVE RecordAt(o)[i] = section[o + i]
    <2> DEFINE last == o + n
               first == o + 1
    <2>1. /\ first \in Nat \ {0} /\ last \in Nat /\ last <= Len(section) /\ first <= last + 1
          /\ i \in 1 .. ((last - first) + 1) /\ (first + i) - 1 = o + i
      BY <1>1, <1>3, <1>4
    <2>2. RecordAt(o) = SubSeq(section, first, last)
      BY <1>5
    <2> HIDE DEF first, last
    <2>3. SubSeq(section, first, last)[i] = section[(first + i) - 1]
      BY <2>1, Slice
    <2> QED  BY <2>1, <2>2, <2>3
  <1> QED  BY <1>1, <1>3, <1>6, <1>7 DEF n

LEMMA ContinuesFacts ==
    ASSUME section \in Seq(Unit), NEW o \in 0 .. Len(section), Continues(o)
    PROVE  /\ o \in 0 .. (Len(section) - 1) /\ RecordUnits(o) \in Nat \ {0}
           /\ o + RecordUnits(o) \in 0 .. Len(section)
           /\ section[o + 1].type = "loop" =>
                /\ RecordAt(o) \in Seq(Unit) /\ Len(RecordAt(o)) # 0 /\ ValidLoop(RecordAt(o))
                /\ RecordAt(o)[1] = section[o + 1]
                /\ Len(RecordAt(o)) = RecordAt(o)[1].size + RecordAt(o)[1].body
  <1> DEFINE unit == section[o + 1]
             n == RecordUnits(o)
  <1>1. o \in 0 .. (Len(section) - 1) /\ unit \in Unit /\ Len(section) \in Nat
    BY DEF Continues
  <1>2. unit.size \in Nat /\ unit.body \in Nat /\ unit.size >= 1 /\ unit.size <= Len(section) - o
    BY <1>1, UnitFields DEF Continues, ValidHeader
  <1>3. n = IF unit.type = "loop" THEN unit.size + unit.body ELSE unit.size
    BY <1>2 DEF RecordUnits
  <1>4. unit.type = "loop" => o + n <= Len(section)
    BY DEF Continues
  <1>5. n \in Nat \ {0} /\ o + n <= Len(section)
    <2> HIDE DEF n, unit
    <2> QED  BY <1>1, <1>2, <1>3, <1>4, SMTT(30)
  <1>6. ASSUME unit.type = "loop"
        PROVE  /\ RecordAt(o) \in Seq(Unit) /\ Len(RecordAt(o)) # 0 /\ ValidLoop(RecordAt(o))
               /\ RecordAt(o)[1] = unit /\ Len(RecordAt(o)) = RecordAt(o)[1].size + RecordAt(o)[1].body
    <2>1. /\ RecordAt(o) \in Seq(Unit) /\ Len(RecordAt(o)) = n
          /\ \A i \in 1 .. n : RecordAt(o)[i] = section[o + i]
      BY <1>1, <1>5, RecordFacts
    <2>2. RecordAt(o)[1] = unit
      BY <1>5, <2>1
    <2>3. ValidLoop(RecordAt(o))
      BY <1>6 DEF Continues
    <2> HIDE DEF n, unit
    <2> QED  BY <1>3, <1>5, <1>6, <2>1, <2>2, <2>3
  <1>7. o + n \in 0 .. Len(section)
    <2> HIDE DEF n
    <2> QED  BY <1>1, <1>5
  <1> QED  BY <1>1, <1>5, <1>6, <1>7

\* The commands of a record: of a loop those of its passes, one after the other.
LEMMA CommandsAtFacts ==
    ASSUME section \in Seq(Unit), NEW o \in 0 .. Len(section), Continues(o)
    PROVE  /\ CommandsAt(o) \in Seq(Placed)
           /\ section[o + 1].type # "loop" =>
                CommandsAt(o) = <<[at |-> o, command |-> Command(RecordAt(o))]>>
           /\ section[o + 1].type = "loop" =>
                LET loop == section[o + 1]
                IN /\ Len(CommandsAt(o)) = loop.iterations * loop.commands
                   /\ \A i \in 1 .. loop.iterations : \A k \in 1 .. loop.commands :
                         CommandsAt(o)[(i - 1) * loop.commands + k] = Pass(RecordAt(o), o, i - 1)[k]
  <1> DEFINE loop == section[o + 1]
             record == RecordAt(o)
  <1>1. o \in Nat /\ o \in 0 .. (Len(section) - 1) /\ RecordUnits(o) \in Nat \ {0}
        /\ o + RecordUnits(o) <= Len(section)
    BY ContinuesFacts
  <1>2. CASE loop.type # "loop"
    <2>1. record \in Seq(Unit) /\ Len(record) # 0
      BY <1>1, RecordFacts
    <2>2. [at |-> o, command |-> Command(record)] \in Placed
      BY <1>1, <2>1, CommandType DEF Placed
    <2>3. CommandsAt(o) = <<[at |-> o, command |-> Command(record)]>>
      BY <1>2 DEF CommandsAt
    <2> HIDE DEF record
    <2> QED  BY <1>2, <2>2, <2>3 DEF record
  <1>3. CASE loop.type = "loop"
    <2> DEFINE passes == [n \in 1 .. loop.iterations |-> Pass(record, o, n - 1)]
    <2>1. /\ record \in Seq(Unit) /\ Len(record) # 0 /\ ValidLoop(record) /\ record[1] = loop
          /\ Len(record) = record[1].size + record[1].body
      BY <1>3, ContinuesFacts
    <2> HIDE DEF record
    <2>2. record[1].iterations \in Nat /\ record[1].iterations >= 2 /\ record[1].commands \in 1 .. MaxBody
      BY <2>1, LoopFacts
    <2> HIDE DEF loop
    <2>3. loop.iterations \in Nat /\ loop.iterations >= 2 /\ loop.commands \in Nat
      BY <2>1, <2>2, Sizings
    <2>4. ASSUME NEW n \in 1 .. loop.iterations
          PROVE  passes[n] \in Seq(Placed) /\ Len(passes[n]) = loop.commands
      <3>1. n - 1 \in Nat /\ passes[n] = Pass(record, o, n - 1)
        BY <2>3
      <3> HIDE DEF passes
      <3>2. /\ Pass(record, o, n - 1) \in Seq(Placed)
            /\ Len(Pass(record, o, n - 1)) = record[1].commands
        BY <1>1, <2>1, <3>1, PassFacts
      <3> QED  BY <2>1, <3>1, <3>2
    <2>5. passes \in Seq(Seq(Placed)) /\ Len(passes) = loop.iterations
      <3>1. passes = [n \in 1 .. loop.iterations |-> passes[n]]
        OBVIOUS
      <3> HIDE DEF passes
      <3> QED  BY <2>3, <2>4, <3>1, Enumerated
    <2>6. \A n \in 1 .. loop.iterations : passes[n] = Pass(record, o, n - 1)
      OBVIOUS
    <2>7. CommandsAt(o) = FlattenSeq(passes)
      BY <1>3 DEF CommandsAt, record, loop
    <2> HIDE DEF passes
    <2>8. /\ FlattenSeq(passes) \in Seq(Placed) /\ Len(FlattenSeq(passes)) = loop.iterations * loop.commands
          /\ \A i \in 1 .. loop.iterations : \A k \in 1 .. loop.commands :
                FlattenSeq(passes)[(i - 1) * loop.commands + k] = passes[i][k]
      <3>1. Len(passes) # 0 /\ \A i \in 1 .. Len(passes) : Len(passes[i]) = loop.commands
        BY <2>3, <2>4, <2>5
      <3>2. /\ FlattenSeq(passes) \in Seq(Placed) /\ Len(FlattenSeq(passes)) = Len(passes) * loop.commands
            /\ \A i \in 1 .. Len(passes) : \A k \in 1 .. loop.commands :
                  FlattenSeq(passes)[(i - 1) * loop.commands + k] = passes[i][k]
        <4>1. loop.commands \in Nat /\ passes \in Seq(Seq(Placed))
          BY <2>3, <2>5
        <4> QED  BY ONLY <3>1, <4>1, Flattened, ZenonT(30)
      <3> QED  BY <2>5, <3>2
    <2> QED  BY <1>3, <2>6, <2>7, <2>8 DEF record, loop
  <1> QED  BY <1>2, <1>3

----
(* The program of a section. *)

\* What From has to be, of the places from the last but k on.
Follows(f, from) ==
    \A o \in from .. Len(section) :
       f[o] = IF Continues(o) THEN CommandsAt(o) \o f[o + RecordUnits(o)] ELSE <<>>

LEMMA ProgramExists ==
    ASSUME section \in Seq(Unit)
    PROVE  \E f \in [0 .. Len(section) -> Seq(Placed)] : Follows(f, 0)
  <1> DEFINE n == Len(section)
             S == Seq(Placed)
             G == {k \in 0 .. n : \E f \in [(n - k) .. n -> S] : Follows(f, n - k)}
  <1>1. n \in Nat
    OBVIOUS
  <1>2. \A o \in 0 .. n : Continues(o) =>
           /\ CommandsAt(o) \in S /\ o + RecordUnits(o) \in (o + 1) .. n
    <2> SUFFICES ASSUME NEW o \in 0 .. n, Continues(o)
                 PROVE  CommandsAt(o) \in S /\ o + RecordUnits(o) \in (o + 1) .. n
      OBVIOUS
    <2>1. RecordUnits(o) \in Nat \ {0} /\ o + RecordUnits(o) \in 0 .. n /\ o \in 0 .. (n - 1)
      BY ContinuesFacts
    <2>2. CommandsAt(o) \in S
      BY CommandsAtFacts
    <2> HIDE DEF n
    <2> QED  BY <1>1, <2>1, <2>2
  <1> HIDE DEF n
  <1>3. <<>> \in S
    OBVIOUS
  <1>4. ~Continues(n)
    BY <1>1 DEF Continues, n
  <1>5. 0 \in G
    <2>1. [o \in n .. n |-> <<>>] \in [n .. n -> S]
      BY <1>3
    <2>2. Follows([o \in n .. n |-> <<>>], n)
      BY <1>1, <1>4 DEF Follows, n
    <2>3. n - 0 = n /\ 0 \in 0 .. n
      BY <1>1
    <2> HIDE DEF S
    <2> QED  BY <2>1, <2>2, <2>3
  <1>6. ASSUME NEW k \in 0 .. (n - 1), k \in G PROVE k + 1 \in G
    <2>1. PICK f \in [(n - k) .. n -> S] : Follows(f, n - k)
      BY <1>6
    <2> DEFINE lo == n - (k + 1)
               first == IF Continues(lo) THEN CommandsAt(lo) \o f[lo + RecordUnits(lo)] ELSE <<>>
               g == [o \in lo .. n |-> IF o = lo THEN first ELSE f[o]]
    <2>2. lo \in 0 .. n /\ lo + 1 = n - k /\ k + 1 \in 0 .. n /\ n - k \in 0 .. n
      BY <1>1
    <2> HIDE DEF lo
    <2>3. first \in S
      <3>1. CASE ~Continues(lo)
        BY <1>3, <3>1
      <3>2. CASE Continues(lo)
        <4>1. CommandsAt(lo) \in S /\ lo + RecordUnits(lo) \in (n - k) .. n
          BY <1>2, <2>2, <3>2
        <4>2. f[lo + RecordUnits(lo)] \in S
          BY <2>1, <4>1
        <4> QED  BY <3>2, <4>1, <4>2, Joined
      <3> QED  BY <3>1, <3>2
    <2> HIDE DEF first
    <2>4. g \in [lo .. n -> S]
      <3>1. \A o \in lo .. n : o = lo \/ o \in (n - k) .. n
        BY <1>1, <2>2
      <3> QED  BY <2>1, <2>3, <3>1
    <2>5. \A o \in (n - k) .. n : g[o] = f[o]
      BY <1>1, <2>2
    <2>6. g[lo] = first
      BY <1>1, <2>2
    <2> HIDE DEF g
    <2>7. ASSUME NEW o \in lo .. n
          PROVE  g[o] = IF Continues(o) THEN CommandsAt(o) \o g[o + RecordUnits(o)] ELSE <<>>
      <3>1. o \in 0 .. n /\ (Continues(o) => o + RecordUnits(o) \in (n - k) .. n)
        <4>1. o \in 0 .. n /\ o >= lo
          BY <1>1, <2>2
        <4>2. Continues(o) => o + RecordUnits(o) \in (o + 1) .. n
          BY <1>2, <4>1
        <4> QED  BY <1>1, <2>2, <4>1, <4>2
      <3>2. CASE o = lo
        BY <2>5, <2>6, <3>1, <3>2 DEF first
      <3>3. CASE o # lo
        <4>1. o \in (n - k) .. n
          BY <1>1, <2>2, <3>3
        <4>2. f[o] = IF Continues(o) THEN CommandsAt(o) \o f[o + RecordUnits(o)] ELSE <<>>
          BY <2>1, <4>1 DEF Follows, n
        <4> QED  BY <2>5, <3>1, <4>1, <4>2
      <3> QED  BY <3>2, <3>3
    <2>8. Follows(g, lo)
      BY <2>7 DEF Follows, n
    <2> QED  BY <2>2, <2>4, <2>8 DEF lo
  <1>7. n \in G
    <2> HIDE DEF G
    <2>1. \A k \in 0 .. n : k \in G
      BY <1>1, <1>5, <1>6, Induction
    <2> QED  BY <1>1, <2>1
  <1>8. n - n = 0
    BY <1>1
  <1> QED  BY <1>7, <1>8 DEF n

LEMMA FromFollows ==
    ASSUME section \in Seq(Unit)
    PROVE  From = [o \in 0 .. Len(section) |->
                     IF Continues(o) THEN CommandsAt(o) \o From[o + RecordUnits(o)] ELSE <<>>]
  <1> DEFINE next(f) == [o \in 0 .. Len(section) |->
                           IF Continues(o) THEN CommandsAt(o) \o f[o + RecordUnits(o)] ELSE <<>>]
  <1>1. PICK f \in [0 .. Len(section) -> Seq(Placed)] : Follows(f, 0)
    BY ProgramExists
  <1>2. f = next(f)
    BY <1>1 DEF Follows
  <1>3. From = CHOOSE g : g = next(g)
    BY DEF From
  <1> HIDE DEF next
  <1>4. From = next(From)
    BY <1>2, <1>3
  <1> QED  BY <1>4 DEF next

\* The commands from a place on are those of its record, then those after it.
LEMMA FromFacts ==
    ASSUME section \in Seq(Unit), NEW o \in 0 .. Len(section)
    PROVE  /\ From[o] \in Seq(Placed)
           /\ From[o] = IF Continues(o) THEN CommandsAt(o) \o From[o + RecordUnits(o)] ELSE <<>>
  <1> DEFINE n == Len(section)
             G == {k \in 0 .. n : \A p \in (n - k) .. n : From[p] \in Seq(Placed)}
  <1>1. n \in Nat
    OBVIOUS
  <1>2. \A p \in 0 .. n : From[p] = IF Continues(p) THEN CommandsAt(p) \o From[p + RecordUnits(p)] ELSE <<>>
    BY FromFollows
  <1>3. \A p \in 0 .. n : Continues(p) =>
           CommandsAt(p) \in Seq(Placed) /\ p + RecordUnits(p) \in (p + 1) .. n
    <2> SUFFICES ASSUME NEW p \in 0 .. n, Continues(p)
                 PROVE  CommandsAt(p) \in Seq(Placed) /\ p + RecordUnits(p) \in (p + 1) .. n
      OBVIOUS
    <2>1. RecordUnits(p) \in Nat \ {0} /\ p + RecordUnits(p) \in 0 .. n /\ p \in 0 .. (n - 1)
      BY ContinuesFacts
    <2>2. CommandsAt(p) \in Seq(Placed)
      BY CommandsAtFacts
    <2> HIDE DEF n
    <2> QED  BY <1>1, <2>1, <2>2
  <1>4. ~Continues(n) /\ <<>> \in Seq(Placed)
    BY <1>1 DEF Continues
  <1> HIDE DEF n
  <1>5. 0 \in G
    <2>1. From[n] \in Seq(Placed)
      <3>1. n \in 0 .. n
        BY <1>1
      <3>2. From[n] = <<>>
        BY <1>2, <1>4, <3>1
      <3> QED  BY <1>4, <3>2
    <2>2. \A p \in (n - 0) .. n : p = n
      BY <1>1
    <2> QED  BY <1>1, <2>1, <2>2
  <1>6. ASSUME NEW k \in 0 .. (n - 1), k \in G PROVE k + 1 \in G
    <2>1. ASSUME NEW p \in (n - (k + 1)) .. n PROVE From[p] \in Seq(Placed)
      <3>1. p \in 0 .. n /\ p + 1 >= n - k
        BY <1>1
      <3>2. CASE ~Continues(p)
        BY <1>2, <1>4, <3>1, <3>2
      <3>3. CASE Continues(p)
        <4>1. CommandsAt(p) \in Seq(Placed) /\ p + RecordUnits(p) \in (n - k) .. n
          BY <1>1, <1>3, <3>1, <3>3
        <4>2. From[p + RecordUnits(p)] \in Seq(Placed)
          BY <1>6, <4>1
        <4>3. From[p] = CommandsAt(p) \o From[p + RecordUnits(p)]
          BY <1>2, <3>1, <3>3
        <4>4. CommandsAt(p) \o From[p + RecordUnits(p)] \in Seq(Placed)
          BY <4>1, <4>2, Joined
        <4> QED  BY <4>3, <4>4
      <3> QED  BY <3>2, <3>3
    <2>2. k + 1 \in 0 .. n
      BY <1>1
    <2> QED  BY <2>1, <2>2
  <1>7. n \in G
    <2> HIDE DEF G
    <2>1. \A k \in 0 .. n : k \in G
      BY <1>1, <1>5, <1>6, Induction
    <2> QED  BY <1>1, <2>1
  <1>8. o \in (n - n) .. n
    BY <1>1 DEF n
  <1> QED  BY <1>2, <1>7, <1>8 DEF n

----
(* The state: what the dispatcher stands at. *)

LEMMA Typed ==
    ASSUME TypeOK
    PROVE  /\ section \in Seq(Unit) /\ Len(section) \in Nat /\ count \in Nat
           /\ offset \in 0 .. Len(section) /\ offset \in Nat /\ completed \in Nat
           /\ window \in Window /\ window.units \in Seq(Unit) /\ Len(window.units) = Capacity
           /\ window.cursor \in Nat /\ window.buffered \in Nat /\ window.next \in Nat
           /\ window.next <= Len(section) /\ window.cursor + window.buffered <= Capacity
           /\ iteration \in Nat /\ child \in Nat \ {0}
  <1>1. section \in Seq(Unit) /\ count \in Nat
    BY DispatchAssumption DEF TypeOK
  <1>2. Len(section) \in Nat
    BY <1>1
  <1> QED  BY <1>1, <1>2, Sizings DEF TypeOK, Window

\* The lookups in the section do not depend on anything else.
LEMMA SectionKept ==
    ASSUME section' = section
    PROVE  /\ From' = From /\ Program' = Program
           /\ \A o : RecordUnits(o)' = RecordUnits(o) /\ RecordAt(o)' = RecordAt(o)
  BY DEF From, Program, Continues, CommandsAt, RecordAt, RecordUnits

\* The next command to be executed is the next of the program.
LEMMA NextCommand ==
    ASSUME TypeOK, ProgramInv, stage # "returned", InRecord \in Nat, InRecord < Len(From[offset])
    PROVE  Len(executed) < Len(Program) /\ Program[Len(executed) + 1] = From[offset][InRecord + 1]
  <1> DEFINE base == Len(executed) - InRecord
             rest == From[offset]
  <1>1. Len(executed) \in Nat /\ InRecord <= Len(executed) /\ Len(Program) = base + Len(rest)
        /\ \A k \in 1 .. Len(rest) : Program[base + k] = rest[k]
    BY DEF ProgramInv
  <1>2. rest \in Seq(Placed)
    BY Typed, FromFacts
  <1>3. Len(rest) \in Nat
    BY <1>2
  <1> HIDE DEF rest
  <1>4. InRecord + 1 \in 1 .. Len(rest) /\ base + (InRecord + 1) = Len(executed) + 1
    BY <1>1, <1>3 DEF rest
  <1>5. Program[base + (InRecord + 1)] = rest[InRecord + 1]
    BY <1>1, <1>4
  <1>6. Len(executed) < Len(Program)
    BY <1>1, <1>3 DEF rest
  <1> QED  BY <1>4, <1>5, <1>6 DEF rest

\* When all commands of a record are executed, what stands behind it is the rest of the program.
LEMMA RecordDone ==
    ASSUME TypeOK, ProgramInv, stage # "returned", Continues(offset)
    PROVE  LET done == (Len(executed) - InRecord) + Len(CommandsAt(offset))
               rest == From[offset + RecordUnits(offset)]
           IN /\ done \in Int
              /\ Len(Program) = done + Len(rest)
              /\ \A k \in 1 .. Len(rest) : Program[done + k] = rest[k]
  <1> DEFINE base == Len(executed) - InRecord
             here == CommandsAt(offset)
             rest == From[offset + RecordUnits(offset)]
             all == From[offset]
  <1>1. Len(Program) = base + Len(all) /\ \A k \in 1 .. Len(all) : Program[base + k] = all[k]
    BY DEF ProgramInv
  <1>2. here \in Seq(Placed) /\ offset + RecordUnits(offset) \in 0 .. Len(section)
    BY Typed, CommandsAtFacts, ContinuesFacts
  <1>3. rest \in Seq(Placed)
    BY <1>2, Typed, FromFacts
  <1>4. all = here \o rest
    BY Typed, FromFacts
  <1>5. base \in Int
    <2>1. Len(executed) \in Nat
      BY DEF ProgramInv
    <2>2. InRecord \in Int
      <3>1. stage = "body" => offset < Len(section)
        BY ContinuesFacts, Typed
      <3>2. section[offset + 1] \in Unit
        <4>1. offset \in 0 .. (Len(section) - 1)
          BY ContinuesFacts, Typed
        <4> QED  BY <4>1, Typed
      <3> QED  BY <3>2, Typed, UnitFields, SMTT(30) DEF InRecord
    <2> QED  BY <2>1, <2>2
  <1> HIDE DEF base, here, rest, all
  <1>6. /\ Len(all) = Len(here) + Len(rest) /\ Len(here) \in Nat /\ Len(rest) \in Nat
        /\ \A k \in 1 .. Len(rest) : all[Len(here) + k] = rest[k]
    <2>1. /\ Len(here \o rest) = Len(here) + Len(rest)
          /\ \A k \in 1 .. Len(rest) : (here \o rest)[Len(here) + k] = rest[k]
      BY <1>2, <1>3, Joined
    <2>2. Len(here) \in Nat /\ Len(rest) \in Nat
      BY <1>2, <1>3
    <2> QED  BY <1>4, <2>1, <2>2
  <1>7. ASSUME NEW k \in 1 .. Len(rest) PROVE Program[(base + Len(here)) + k] = rest[k]
    <2>1. Len(here) + k \in 1 .. Len(all) /\ base + (Len(here) + k) = (base + Len(here)) + k
      BY <1>5, <1>6
    <2>2. Program[base + (Len(here) + k)] = all[Len(here) + k]
      BY <1>1, <2>1
    <2> QED  BY <1>6, <2>1, <2>2
  <1>8. Len(Program) = (base + Len(here)) + Len(rest) /\ base + Len(here) \in Int
    BY <1>1, <1>5, <1>6
  <1> QED  BY <1>7, <1>8 DEF base, here, rest

----
(* The window. *)

WindowType(w) ==
    w \in Window /\ Len(w.units) = Capacity /\ w.next <= Len(section) /\ w.cursor + w.buffered <= Capacity

\* A window that holds what follows the offset, the reader right behind it.
InSection(w) ==
    /\ WindowType(w) /\ offset + w.buffered = w.next
    /\ \A i \in 1 .. w.buffered : At(w, i - 1) = section[offset + i]

LEMMA WindowFields ==
    ASSUME NEW w \in Window
    PROVE  w.units \in Seq(Unit) /\ w.cursor \in Nat /\ w.buffered \in Nat /\ w.next \in Nat
  BY DEF Window

LEMMA WindowRead ==
    ASSUME TypeOK, WindowInv, stage \in {"header", "record", "loop"}
    PROVE  InSection(window)
  BY Typed DEF WindowInv, InSection, WindowType, ReadAccepted, Expected

\* What refill_command_window leaves is again what follows the offset.
LEMMA RefilledFacts ==
    ASSUME TypeOK, InSection(window)
    PROVE  /\ InSection(Refilled)
           /\ Refilled.buffered = IF Remaining < Capacity THEN Remaining ELSE Capacity
  <1> DEFINE tail == MovedTail
             old == window.buffered
             full == IF Remaining < Capacity THEN Remaining ELSE Capacity
             units == [i \in 1 .. Capacity |->
                         IF i \in old + 1 .. full THEN section[window.next + i - old] ELSE tail[i]]
  <1>1. /\ Capacity \in Nat /\ Remaining \in Nat /\ old \in Nat /\ window.cursor \in Nat /\ offset \in Nat
        /\ window.next = offset + old /\ window.next <= Len(section) /\ Len(section) \in Nat
        /\ window.cursor + old <= Capacity /\ section \in Seq(Unit)
        /\ window.units \in Seq(Unit) /\ Len(window.units) = Capacity
    BY Typed, Sizings DEF InSection, Remaining
  <1>2. Remaining = Len(section) - offset
    BY DEF Remaining
  <1>3. old <= full /\ full <= Capacity /\ full \in Nat /\ offset + full <= Len(section)
    <2> HIDE DEF old
    <2> QED  BY <1>1, <1>2
  <1>4. Refilled = [units |-> units, cursor |-> 0, buffered |-> full, next |-> window.next + full - old]
    BY DEF Refilled
  <1>5. \A i \in 1 .. Capacity : tail[i] = IF i <= old THEN window.units[window.cursor + i] ELSE window.units[i]
    BY DEF MovedTail
  <1> HIDE DEF tail, old, full
  <1>6. ASSUME NEW i \in 1 .. Capacity PROVE units[i] \in Unit
    <2>1. CASE i \in old + 1 .. full
      <3>1. window.next + i - old \in 1 .. Len(section)
        BY <1>1, <1>3, <2>1
      <3> QED  BY <1>1, <2>1, <3>1
    <2>2. CASE i \notin old + 1 .. full
      <3>1. i <= old => window.cursor + i \in 1 .. Capacity
        BY <1>1
      <3>2. tail[i] \in Unit
        BY <1>1, <1>5, <3>1, SMTT(30)
      <3> QED  BY <2>2, <3>2
    <2> QED  BY <2>1, <2>2
  <1>7. units \in Seq(Unit) /\ Len(units) = Capacity
    <2>1. units = [i \in 1 .. Capacity |-> units[i]]
      OBVIOUS
    <2> HIDE DEF units
    <2> QED  BY <1>1, <1>6, <2>1, Enumerated
  <1>8. ASSUME NEW i \in 1 .. full PROVE units[i] = section[offset + i]
    <2>1. i \in 1 .. Capacity
      BY <1>1, <1>3
    <2>2. CASE i \in old + 1 .. full
      <3>1. window.next + i - old = offset + i
        BY <1>1
      <3> QED  BY <2>1, <2>2, <3>1
    <2>3. CASE i \notin old + 1 .. full
      <3>1. i \in 1 .. old /\ i <= old /\ window.cursor + 1 + (i - 1) = window.cursor + i
        BY <1>1, <1>3, <2>3
      <3>2. units[i] = window.units[window.cursor + i]
        BY <1>5, <2>1, <2>3, <3>1
      <3>3. At(window, i - 1) = section[offset + i]
        BY <3>1 DEF InSection, old
      <3>4. At(window, i - 1) = window.units[window.cursor + i]
        BY <3>1 DEF At
      <3> QED  BY <3>2, <3>3, <3>4
    <2> QED  BY <2>2, <2>3
  <1> HIDE DEF units
  <1>9. window.next + full - old = offset + full
    BY <1>1, <1>3
  <1>10. WindowType(Refilled)
    BY <1>1, <1>3, <1>4, <1>7, <1>9 DEF WindowType, Window
  <1>11. ASSUME NEW i \in 1 .. full PROVE At(Refilled, i - 1) = section[offset + i]
    <2>1. 0 + 1 + (i - 1) = i
      BY <1>3
    <2>2. At(Refilled, i - 1) = units[i]
      BY <1>4, <2>1 DEF At
    <2> QED  BY <1>8, <2>2
  <1>12. Refilled.buffered = full /\ offset + full = Refilled.next
    BY <1>4, <1>9
  <1>13. InSection(Refilled)
    BY <1>10, <1>11, <1>12 DEF InSection
  <1> QED  BY <1>12, <1>13 DEF full

LEMMA EnsuredFacts ==
    ASSUME TypeOK, InSection(window), NEW required \in Nat, NEW w \in Ensured(required)
    PROVE  InSection(w) /\ w.buffered >= required
  <1>1. CASE window.buffered >= required
    BY <1>1 DEF Ensured
  <1>2. CASE ~(window.buffered >= required)
    <2>1. w = Refilled /\ required <= Capacity /\ required <= Remaining
      BY <1>2 DEF Ensured
    <2>2. InSection(Refilled) /\ Refilled.buffered = IF Remaining < Capacity THEN Remaining ELSE Capacity
      BY RefilledFacts
    <2>3. Remaining \in Int /\ Capacity \in Int
      BY Typed, Sizings DEF Remaining
    <2>4. Refilled.buffered >= required
      BY <2>1, <2>2, <2>3
    <2> QED  BY <2>1, <2>2, <2>4
  <1> QED  BY <1>1, <1>2

\* The record in the window is the record of the section.
LEMMA HeadRead ==
    ASSUME TypeOK, NEW w, InSection(w), w.buffered >= 1
    PROVE  At(w, 0) = section[offset + 1] /\ offset \in 0 .. (Len(section) - 1) /\ At(w, 0) \in Unit
  <1>1. w.buffered \in Nat /\ w.next <= Len(section) /\ offset + w.buffered = w.next
    BY WindowFields DEF InSection, WindowType
  <1>2. 1 \in 1 .. w.buffered /\ 1 - 1 = 0
    BY <1>1
  <1>3. At(w, 0) = section[offset + 1]
    <2>1. At(w, 1 - 1) = section[offset + 1]
      BY <1>2 DEF InSection
    <2> QED  BY <2>1, <1>2
  <1>4. offset \in 0 .. (Len(section) - 1) /\ offset + 1 \in 1 .. Len(section)
    BY <1>1, Typed, SMTT(30)
  <1> QED  BY <1>3, <1>4, Typed

----
(* Steps. *)

LEMMA InitDispatch == Init => DispatchInv
  <1> SUFFICES ASSUME Init PROVE DispatchInv
    OBVIOUS
  <1>1. section \in Seq(Unit) /\ Len(section) \in Nat /\ count \in Nat
    <2>1. section \in Seq(Unit) /\ count \in Nat
      BY DispatchAssumption DEF Init
    <2> QED  BY <2>1
  <1>2. window \in Window /\ Len(window.units) = Capacity
    <2>1. Blank \in Unit
      <3>1. <<>> \in Seq(Patch) /\ 0 \in 0 .. (Words - 1)
        BY Sizings
      <3> QED  BY <3>1 DEF Blank, Unit, Types
    <2> DEFINE units == [i \in 1 .. Capacity |-> Blank]
    <2>2. units = [i \in 1 .. Capacity |-> units[i]] /\ \A i \in 1 .. Capacity : units[i] \in Unit
      BY <2>1
    <2>3. window = [units |-> units, cursor |-> 0, buffered |-> 0, next |-> 0]
      BY DEF Init
    <2> HIDE DEF units
    <2>4. units \in Seq(Unit) /\ Len(units) = Capacity
      BY <2>2, Sizings, Enumerated
    <2> QED  BY <2>3, <2>4 DEF Window
  <1>3. TypeOK
    BY <1>1, <1>2, Sizings DEF Init, TypeOK, NoOffset
  <1>4. WindowInv
    BY <1>1 DEF Init, WindowInv, ReadAccepted
  <1>5. RecordInv /\ LoopInv /\ OutcomeInv
    BY DEF Init, RecordInv, LoopInv, OutcomeInv, FailureLocated
  <1>6. ProgramInv
    <2>1. executed = <<>> /\ Len(executed) = 0 /\ completed = 0 /\ offset = 0 /\ InRecord = 0
      BY DEF Init, InRecord
    <2>2. Program = From[0] /\ From[0] \in Seq(Placed)
      BY <1>1, FromFacts DEF Program
    <2>3. Len(From[0]) \in Nat
      BY <2>2
    <2> QED  BY <2>1, <2>2, <2>3 DEF ProgramInv
  <1> QED  BY <1>3, <1>4, <1>5, <1>6 DEF DispatchInv

\* The dispatcher returns: what it reports agrees with what was executed.
LEMMA Returns ==
    ASSUME DispatchInv, stage # "returned",
           NEW st \in {"ok", "bad_stream", "bad_command", "unsupported", "failed"},
           NEW at \in NoOffset .. Len(section), Return(st, at),
           executed' = executed, WindowType(window'),
           st = "ok" => Len(executed) = Len(Program),
           st \in {"failed", "unsupported"} =>
               Len(executed) < Len(Program) /\ at = Program[Len(executed) + 1].at
    PROVE  DispatchInv'
  <1>1. /\ stage' = "returned" /\ status' = st /\ reported' = completed /\ failure' = at
        /\ section' = section /\ count' = count
        /\ UNCHANGED <<offset, completed, iteration, child>>
    BY DEF Return, model
  <1>2. TypeOK'
    BY <1>1 DEF DispatchInv, TypeOK, WindowType
  <1>3. Program' = Program
    BY <1>1, SectionKept
  <1>4. ProgramInv'
    BY <1>1, <1>3 DEF DispatchInv, ProgramInv
  <1>5. OutcomeInv'
    BY <1>1, <1>3 DEF DispatchInv, ProgramInv, OutcomeInv, FailureLocated
  <1>6. WindowInv' /\ RecordInv' /\ LoopInv'
    BY <1>1 DEF WindowInv, RecordInv, LoopInv
  <1> QED  BY <1>2, <1>4, <1>5, <1>6 DEF DispatchInv

\* The dispatcher goes on with the record it looks at.
LEMMA GoesOn ==
    ASSUME DispatchInv, NEW next \in {"record", "loop"}, stage \in {"header", "record"},
           GoTo(next), InSection(window'), window'.buffered >= 1,
           ValidHeader(section[offset + 1], Remaining), completed <= count,
           next = "loop" => section[offset + 1].type = "loop" /\ RecordUnits(offset) <= Remaining
    PROVE  DispatchInv'
  <1>1. /\ stage' = next /\ section' = section /\ count' = count
        /\ UNCHANGED <<offset, completed, iteration, child, status, reported, failure, executed>>
    BY DEF GoTo, model, result
  <1>2. TypeOK'
    BY <1>1 DEF DispatchInv, TypeOK, InSection, WindowType
  <1>3. WindowInv'
    <2>1. \A i \in 1 .. window'.buffered : At(window, i - 1)' = Expected(i)'
      BY <1>1 DEF InSection, Expected, At
    <2> QED  BY <1>1, <2>1 DEF WindowInv, InSection, ReadAccepted
  <1>4. RecordInv'
    <2>1. offset < Len(section)
      BY HeadRead, Typed DEF DispatchInv
    <2>2. iteration = 0 /\ child = 1
      BY DEF DispatchInv, RecordInv
    <2> QED  BY <1>1, <2>1, <2>2, SectionKept DEF RecordInv, Remaining
  <1>5. LoopInv'
    BY <1>1 DEF LoopInv
  <1>6. ProgramInv'
    BY <1>1, SectionKept DEF DispatchInv, ProgramInv, InRecord
  <1>7. OutcomeInv'
    BY <1>1, SectionKept DEF DispatchInv, OutcomeInv, FailureLocated
  <1> QED  BY <1>2, <1>3, <1>4, <1>5, <1>6, <1>7 DEF DispatchInv

LEMMA OffsetReported ==
    ASSUME TypeOK
    PROVE  offset \in NoOffset .. Len(section) /\ NoOffset \in NoOffset .. Len(section)
  BY Typed DEF NoOffset

LEMMA FallThroughKeeps == ASSUME DispatchInv, FallThrough PROVE DispatchInv'
  <1>1. /\ stage = "header" /\ stage' = "returned" /\ status' = "bad_stream"
        /\ section' = section /\ count' = count
        /\ UNCHANGED <<offset, window, completed, iteration, child, reported, failure, executed>>
    BY DEF FallThrough, model
  <1>2. TypeOK'
    BY <1>1 DEF DispatchInv, TypeOK
  <1>3. ProgramInv' /\ OutcomeInv'
    BY <1>1, SectionKept DEF DispatchInv, ProgramInv, OutcomeInv, FailureLocated
  <1>4. WindowInv' /\ RecordInv' /\ LoopInv'
    BY <1>1 DEF WindowInv, RecordInv, LoopInv
  <1> QED  BY <1>2, <1>3, <1>4 DEF DispatchInv

LEMMA HeaderKeeps == ASSUME DispatchInv, Header PROVE DispatchInv'
  <1>1. TypeOK /\ InSection(window) /\ stage = "header" /\ offset < Len(section) /\ completed <= count
    BY WindowRead DEF DispatchInv, Header
  <1>2. CASE Return("bad_stream", offset) /\ UNCHANGED <<window, executed>>
    BY <1>1, <1>2, OffsetReported, Returns DEF InSection
  <1>3. CASE \E w \in Ensured(1) :
               /\ window' = w
               /\ IF ValidHeader(At(w, 0), Remaining)
                    THEN GoTo("record")
                    ELSE Return("bad_command", offset) /\ UNCHANGED executed
    <2>1. PICK w \in Ensured(1) :
               /\ window' = w
               /\ IF ValidHeader(At(w, 0), Remaining)
                    THEN GoTo("record")
                    ELSE Return("bad_command", offset) /\ UNCHANGED executed
      BY <1>3
    <2>2. InSection(w) /\ w.buffered >= 1
      BY <1>1, EnsuredFacts
    <2>3. At(w, 0) = section[offset + 1]
      BY <1>1, <2>2, HeadRead
    <2>4. CASE ValidHeader(At(w, 0), Remaining)
      BY <1>1, <2>1, <2>2, <2>3, <2>4, GoesOn
    <2>5. CASE ~ValidHeader(At(w, 0), Remaining)
      BY <1>1, <2>1, <2>2, <2>5, OffsetReported, Returns DEF InSection
    <2> QED  BY <2>4, <2>5
  <1> QED  BY <1>2, <1>3 DEF Header

\* A command of the program is executed.
LEMMA ExecutedNext ==
    ASSUME TypeOK, ProgramInv, stage # "returned", InRecord \in Nat, InRecord < Len(From[offset]),
           NEW command \in Commands, command = From[offset][InRecord + 1].command,
           executed' = Append(executed, command), completed' = completed + 1, section' = section
    PROVE  /\ executed' \in Seq(Commands) /\ completed' = Len(executed')
           /\ Len(executed') = Len(executed) + 1 /\ Len(executed) \in Nat
           /\ Len(executed') <= Len(Program')
           /\ \A k \in 1 .. Len(executed') : executed'[k] = Program'[k].command
  <1>1. Len(executed) < Len(Program) /\ Program[Len(executed) + 1] = From[offset][InRecord + 1]
    BY NextCommand
  <1>2. /\ executed \in Seq(Commands) /\ completed = Len(executed)
        /\ \A k \in 1 .. Len(executed) : executed[k] = Program[k].command
    BY DEF ProgramInv
  <1>3. Program' = Program
    BY SectionKept
  <1>4. Len(executed) \in Nat /\ Len(Program) \in Nat
    <2>1. Program \in Seq(Placed)
      BY Typed, FromFacts DEF Program
    <2> QED  BY <1>2, <2>1
  <1>5. /\ executed' \in Seq(Commands) /\ Len(executed') = Len(executed) + 1
        /\ executed'[Len(executed) + 1] = command
        /\ \A k \in 1 .. Len(executed) : executed'[k] = executed[k]
    BY <1>2
  <1>6. ASSUME NEW k \in 1 .. Len(executed') PROVE executed'[k] = Program[k].command
    <2>1. k \in 1 .. Len(executed) \/ k = Len(executed) + 1
      BY <1>4, <1>5
    <2> QED  BY <1>1, <1>2, <1>5, <2>1
  <1> QED  BY <1>1, <1>2, <1>3, <1>4, <1>5, <1>6

\* The last command of a record is executed, and the dispatcher goes on behind the record.
LEMMA Finishes ==
    ASSUME DispatchInv, stage # "returned", Continues(offset), InRecord \in Nat,
           NEW w, WindowType(w), offset + w.buffered = w.next, w.buffered >= RecordUnits(offset),
           \A i \in (RecordUnits(offset) + 1) .. w.buffered : At(w, i - 1) = section[offset + i],
           Advance(w, RecordUnits(offset)),
           NEW command \in Commands, executed' = Append(executed, command),
           completed' = completed + 1, completed <= count,
           InRecord + 1 = Len(CommandsAt(offset)), command = CommandsAt(offset)[InRecord + 1].command,
           iteration' = 0, child' = 1, UNCHANGED <<model, result>>
    PROVE  DispatchInv'
  <1> DEFINE n == RecordUnits(offset)
             here == CommandsAt(offset)
             next == offset + n
             rest == From[next]
  <1>1. /\ section' = section /\ count' = count /\ UNCHANGED <<status, reported, failure>>
        /\ stage' = "header" /\ offset' = next
        /\ window' = [w EXCEPT !.cursor = @ + n, !.buffered = @ - n]
    BY DEF Advance, model, result
  <1>2. n \in Nat \ {0} /\ next \in 0 .. Len(section) /\ here \in Seq(Placed)
    BY Typed, ContinuesFacts, CommandsAtFacts DEF DispatchInv
  <1>3. rest \in Seq(Placed) /\ From[offset] = here \o rest
    BY <1>2, Typed, FromFacts DEF DispatchInv
  <1>4. offset \in Nat /\ count \in Nat /\ completed \in Nat /\ Len(section) \in Nat
    BY Typed DEF DispatchInv
  <1> HIDE DEF n, here, rest
  <1>5. InRecord < Len(From[offset]) /\ From[offset][InRecord + 1] = here[InRecord + 1]
    <2>1. InRecord + 1 \in 1 .. Len(here) /\ Len(here) \in Nat /\ Len(rest) \in Nat
      BY <1>2, <1>3 DEF here
    <2>2. /\ Len(here \o rest) = Len(here) + Len(rest)
          /\ \A i \in 1 .. Len(here) : (here \o rest)[i] = here[i]
      BY <1>2, <1>3, Joined
    <2> QED  BY <1>3, <2>1, <2>2
  <1>6. /\ executed' \in Seq(Commands) /\ completed' = Len(executed')
        /\ Len(executed') = Len(executed) + 1 /\ Len(executed) \in Nat
        /\ Len(executed') <= Len(Program')
        /\ \A k \in 1 .. Len(executed') : executed'[k] = Program'[k].command
    <2>1. command = From[offset][InRecord + 1].command
      BY <1>5 DEF here
    <2> QED  BY <1>1, <1>5, <2>1, ExecutedNext DEF DispatchInv
  <1>7. ProgramInv'
    <2>1. (Len(executed) - InRecord) + Len(here) = Len(executed')
      BY <1>6 DEF here
    <2>2. Len(Program) = Len(executed') + Len(rest) /\ \A k \in 1 .. Len(rest) : Program[Len(executed') + k] = rest[k]
      BY <2>1, RecordDone DEF DispatchInv, here, rest, n
    <2>3. InRecord' = 0
      BY <1>1 DEF InRecord
    <2>4. From[offset]' = rest /\ Program' = Program
      BY <1>1, SectionKept DEF rest
    <2>5. Len(executed)' - InRecord' = Len(executed')
      BY <1>6, <2>3
    <2> QED  BY <1>6, <2>2, <2>3, <2>4, <2>5 DEF ProgramInv
  <1>8. /\ w.buffered \in Nat /\ w.cursor \in Nat /\ w \in Window /\ w.next <= Len(section) /\ w.next \in Nat
        /\ w.cursor + w.buffered <= Capacity /\ Len(w.units) = Capacity /\ w.units \in Seq(Unit)
        /\ w.buffered - n \in Nat
    <2>1. /\ w.buffered \in Nat /\ w.cursor \in Nat /\ w \in Window /\ w.next <= Len(section) /\ w.next \in Nat
          /\ w.cursor + w.buffered <= Capacity /\ Len(w.units) = Capacity /\ w.units \in Seq(Unit)
      BY WindowFields DEF WindowType
    <2> QED  BY <1>2, <2>1 DEF n
  <1>9. window' = [units |-> w.units, cursor |-> w.cursor + n, buffered |-> w.buffered - n, next |-> w.next]
    BY <1>1, <1>8 DEF Window
  <1>10. TypeOK'
    <2>1. window' \in Window
      BY <1>2, <1>8, <1>9, SMTT(30) DEF Window
    <2>2. (w.cursor + n) + (w.buffered - n) = w.cursor + w.buffered
      BY <1>2, <1>8
    <2>3. completed' \in 0 .. count' + 1
      BY <1>1, <1>4
    <2>4. /\ section \in Streams /\ count \in Counts /\ status \in {"none", "ok", "bad_stream", "bad_command", "unsupported", "failed"}
          /\ reported \in 0 .. count + 1 /\ failure \in NoOffset .. Len(section)
      BY DEF DispatchInv, TypeOK
    <2>5. 1 \in 1 .. MaxBody
      BY Sizings
    <2> QED  BY <1>1, <1>2, <1>8, <1>9, <2>1, <2>2, <2>3, <2>4, <2>5 DEF TypeOK
  <1>11. WindowInv'
    <2>1. ReadAccepted'
      BY <1>1, <1>2, <1>4, <1>8, <1>9 DEF ReadAccepted
    <2>2. ASSUME NEW i \in 1 .. (w.buffered - n)
          PROVE  At(window', i - 1) = section[next + i]
      <3>1. n + i \in (n + 1) .. w.buffered /\ offset + (n + i) = next + i
        BY <1>2, <1>4, <1>8
      <3>2. At(w, (n + i) - 1) = section[next + i]
        BY <3>1 DEF n
      <3>3. w.cursor + 1 + ((n + i) - 1) = (w.cursor + n) + 1 + (i - 1)
        BY <1>2, <1>8, SMTT(30)
      <3>4. At(window', i - 1) = At(w, (n + i) - 1)
        BY <1>9, <3>3 DEF At
      <3> QED  BY <3>2, <3>4
    <2>3. ASSUME NEW i \in 1 .. window'.buffered PROVE At(window, i - 1)' = Expected(i)'
      <3>1. Expected(i)' = section[next + i]
        BY <1>1 DEF Expected
      <3>2. At(window, i - 1)' = At(window', i - 1)
        BY DEF At
      <3> QED  BY <1>9, <2>2, <3>1, <3>2
    <2> QED  BY <2>1, <2>3 DEF WindowInv
  <1>12. RecordInv' /\ LoopInv' /\ OutcomeInv'
    BY <1>1 DEF DispatchInv, RecordInv, LoopInv, OutcomeInv, FailureLocated
  <1> QED  BY <1>7, <1>10, <1>11, <1>12 DEF DispatchInv

----
(* One record. *)

\* What is known of the record when its header was accepted.
LEMMA AtRecord ==
    ASSUME DispatchInv, stage = "record"
    PROVE  /\ TypeOK /\ InSection(window) /\ window.buffered >= 1
           /\ offset \in 0 .. (Len(section) - 1) /\ section[offset + 1] \in Unit
           /\ section[offset + 1].size \in Nat /\ section[offset + 1].size >= 1
           /\ section[offset + 1].size <= Len(section) - offset
           /\ ValidHeader(section[offset + 1], Remaining) /\ completed <= count
           /\ At(window, 0) = section[offset + 1] /\ InRecord = 0
  <1>1. TypeOK /\ InSection(window) /\ window.buffered >= 1 /\ completed <= count
        /\ ValidHeader(section[offset + 1], Remaining)
    BY WindowRead DEF DispatchInv, RecordInv
  <1>2. At(window, 0) = section[offset + 1] /\ offset \in 0 .. (Len(section) - 1) /\ section[offset + 1] \in Unit
    BY <1>1, HeadRead
  <1>3. section[offset + 1].size \in Nat
    BY <1>2, UnitFields
  <1>4. InRecord = 0
    BY DEF InRecord
  <1> QED  BY <1>1, <1>2, <1>3, <1>4 DEF ValidHeader, Remaining

LEMMA EndKeeps ==
    ASSUME DispatchInv, stage = "record", NEW w, InSection(w), w.buffered >= 1, End(w)
    PROVE  DispatchInv'
  <1>1. At(w, 0) = section[offset + 1]
    BY AtRecord, HeadRead
  <1>2. CASE At(w, 0).size = 1
    <2>1. ~Continues(offset)
      BY <1>1 DEF Continues, End
    <2>2. From[offset] = <<>>
      BY <2>1, AtRecord, Typed, FromFacts
    <2>3. Len(executed) = Len(Program)
      <3>1. Len(executed) \in Nat /\ InRecord = 0
        BY AtRecord DEF DispatchInv, ProgramInv
      <3>2. Len(Program) = (Len(executed) - InRecord) + Len(<<>>)
        BY <2>2 DEF DispatchInv, ProgramInv
      <3> QED  BY <3>1, <3>2
    <2>4. Return("ok", NoOffset) /\ window' = w /\ executed' = executed
      BY <1>2 DEF End
    <2> QED  BY <2>3, <2>4, AtRecord, OffsetReported, Returns DEF InSection
  <1>3. CASE At(w, 0).size # 1
    <2>1. Return("bad_stream", offset) /\ window' = w /\ executed' = executed
      BY <1>3 DEF End
    <2> QED  BY <2>1, AtRecord, OffsetReported, Returns DEF InSection
  <1> QED  BY <1>2, <1>3

LEMMA LoopDescriptorKeeps ==
    ASSUME DispatchInv, stage = "record", NEW w, InSection(w), w.buffered >= 1, LoopDescriptor(w)
    PROVE  DispatchInv'
  <1>1. At(w, 0) = section[offset + 1]
    BY AtRecord, HeadRead
  <1>2. CASE LoopDescribed(At(w, 0))
    <2>1. GoTo("loop") /\ window' = w /\ section[offset + 1].type = "loop"
      BY <1>1, <1>2 DEF LoopDescriptor
    <2>2. RecordUnits(offset) <= Remaining
      BY <1>1, <1>2, <2>1 DEF LoopDescribed, RecordUnits
    <2> QED  BY <2>1, <2>2, AtRecord, GoesOn
  <1>3. CASE ~LoopDescribed(At(w, 0))
    <2>1. Return("bad_stream", offset) /\ window' = w /\ executed' = executed
      BY <1>3 DEF LoopDescriptor
    <2> QED  BY <2>1, AtRecord, OffsetReported, Returns DEF InSection
  <1> QED  BY <1>2, <1>3

\* The units of the window at the head are the record of the section.
LEMMA RecordRead ==
    ASSUME TypeOK, NEW w, InSection(w), NEW n \in Nat \ {0}, n <= w.buffered, n = RecordUnits(offset)
    PROVE  /\ [i \in 1 .. n |-> At(w, i - 1)] = RecordAt(offset)
           /\ offset \in 0 .. (Len(section) - 1) /\ offset + n <= Len(section)
  <1>1. /\ w.buffered \in Nat /\ offset + w.buffered = w.next /\ w.next <= Len(section)
        /\ \A i \in 1 .. w.buffered : At(w, i - 1) = section[offset + i]
    BY WindowFields DEF InSection, WindowType
  <1>2. offset \in 0 .. (Len(section) - 1) /\ offset + n <= Len(section)
    BY <1>1, Typed, SMTT(30)
  <1>3. /\ RecordAt(offset) \in Seq(Unit) /\ Len(RecordAt(offset)) = n
        /\ \A i \in 1 .. n : RecordAt(offset)[i] = section[offset + i]
    BY <1>2, Typed, RecordFacts
  <1>4. RecordAt(offset) = [i \in 1 .. n |-> RecordAt(offset)[i]]
    BY <1>3
  <1>5. \A i \in 1 .. n : At(w, i - 1) = RecordAt(offset)[i]
    BY <1>1, <1>3
  <1> HIDE DEF RecordAt
  <1> QED  BY <1>2, <1>4, <1>5

LEMMA OneCommandKeeps ==
    ASSUME DispatchInv, stage = "record", NEW w, InSection(w),
           w.buffered >= section[offset + 1].size, OneCommand(w)
    PROVE  DispatchInv'
  <1> DEFINE size == section[offset + 1].size
             command == Command(RecordAt(offset))
  <1>1. /\ size \in Nat /\ size >= 1 /\ size <= Len(section) - offset /\ TypeOK
        /\ offset \in 0 .. (Len(section) - 1) /\ completed <= count /\ InRecord = 0
    BY AtRecord
  <1>2. At(w, 0) = section[offset + 1]
    <2>1. w.buffered \in Nat
      BY WindowFields DEF InSection, WindowType
    <2> QED  BY <1>1, <2>1, HeadRead
  <1>3. section[offset + 1].type \notin {"end", "loop"}
    BY <1>2 DEF OneCommand
  <1>4. RecordUnits(offset) = size
    BY <1>1, <1>3 DEF RecordUnits
  <1>5. Continues(offset)
    BY <1>1, <1>3, AtRecord DEF Continues, Remaining
  <1>6. [i \in 1 .. size |-> At(w, i - 1)] = RecordAt(offset)
    BY <1>1, <1>4, RecordRead
  <1>7. command \in Commands
    <2>1. RecordAt(offset) \in Seq(Unit) /\ Len(RecordAt(offset)) = size
      BY <1>1, <1>4, Typed, RecordFacts, SMTT(30)
    <2> QED  BY <1>1, <2>1, CommandType
  <1>8. CommandsAt(offset) = <<[at |-> offset, command |-> command]>>
    BY <1>1, <1>3, <1>5, Typed, CommandsAtFacts
  <1>9. From[offset][1] = [at |-> offset, command |-> command] /\ 0 < Len(From[offset])
    <2> DEFINE here == CommandsAt(offset)
               rest == From[offset + RecordUnits(offset)]
    <2>1. here \in Seq(Placed) /\ offset + RecordUnits(offset) \in 0 .. Len(section)
      BY <1>1, <1>5, Typed, CommandsAtFacts, ContinuesFacts
    <2>2. rest \in Seq(Placed)
      BY <1>1, <2>1, Typed, FromFacts
    <2>3. From[offset] = here \o rest
      BY <1>1, <1>5, Typed, FromFacts
    <2>4. Len(here) = 1 /\ here[1] = [at |-> offset, command |-> command]
      BY <1>8
    <2> HIDE DEF here, rest
    <2>5. (here \o rest)[1] = here[1] /\ Len(here \o rest) = 1 + Len(rest) /\ Len(rest) \in Nat
      <3>1. /\ Len(here \o rest) = Len(here) + Len(rest)
            /\ \A i \in 1 .. Len(here) : (here \o rest)[i] = here[i]
        BY <2>1, <2>2, Joined
      <3>2. 1 \in 1 .. Len(here) /\ Len(rest) \in Nat
        BY <2>2, <2>4
      <3> QED  BY <2>4, <3>1, <3>2
    <2> QED  BY <2>3, <2>4, <2>5
  <1>10. PICK outcome \in Outcomes(command) :
            /\ Executes(command, outcome)
            /\ IF outcome = "ok"
                 THEN /\ completed' = completed + 1
                      /\ Advance(w, size)
                      /\ UNCHANGED <<model, iteration, child, result>>
                 ELSE window' = w /\ Return(outcome, offset)
    BY <1>2, <1>6 DEF OneCommand
  <1> HIDE DEF command, size
  <1>11. outcome \in {"ok", "failed", "unsupported"}
    BY DEF Outcomes
  <1>12. CASE outcome = "ok"
    <2>1. executed' = Append(executed, command)
      BY <1>10, <1>12 DEF Executes
    <2>2. iteration' = 0 /\ child' = 1
      BY <1>10, <1>12 DEF DispatchInv, RecordInv
    <2>3. /\ WindowType(w) /\ offset + w.buffered = w.next /\ w.buffered >= RecordUnits(offset)
          /\ w.buffered \in Nat /\ \A i \in 1 .. w.buffered : At(w, i - 1) = section[offset + i]
      BY <1>4, WindowFields DEF InSection, WindowType, size
    <2>4. \A i \in (RecordUnits(offset) + 1) .. w.buffered : At(w, i - 1) = section[offset + i]
      BY <1>1, <1>4, <2>3
    <2>5. InRecord + 1 = Len(CommandsAt(offset)) /\ command = CommandsAt(offset)[InRecord + 1].command
      BY <1>1, <1>8
    <2>6. Advance(w, RecordUnits(offset)) /\ completed' = completed + 1 /\ UNCHANGED <<model, result>>
      BY <1>4, <1>10, <1>12
    <2>7. InRecord \in Nat
      BY <1>1
    <2> QED  BY <1>1, <1>5, <1>7, <2>1, <2>2, <2>3, <2>4, <2>5, <2>6, <2>7, Finishes
  <1>13. CASE outcome # "ok"
    <2>1. outcome \in {"failed", "unsupported"} /\ executed' = executed /\ window' = w /\ Return(outcome, offset)
      BY <1>10, <1>11, <1>13 DEF Executes
    <2>2. Len(executed) < Len(Program) /\ offset = Program[Len(executed) + 1].at
      BY <1>1, <1>9, NextCommand DEF DispatchInv
    <2> QED  BY <1>1, <2>1, <2>2, OffsetReported, Returns DEF InSection
  <1> QED  BY <1>12, <1>13

LEMMA RecordKeeps == ASSUME DispatchInv, Record PROVE DispatchInv'
  <1>1. /\ stage = "record" /\ TypeOK /\ InSection(window) /\ At(window, 0) = section[offset + 1]
        /\ section[offset + 1].size \in Nat /\ section[offset + 1].size >= 1
    BY AtRecord DEF Record
  <1> DEFINE size == section[offset + 1].size
  <1>2. CASE Return("bad_stream", offset) /\ UNCHANGED <<window, executed>>
    BY <1>1, <1>2, OffsetReported, Returns DEF InSection
  <1>3. ASSUME NEW w \in Ensured(size), End(w) \/ OneCommand(w) \/ LoopDescriptor(w)
        PROVE  DispatchInv'
    <2>1. InSection(w) /\ w.buffered >= size
      BY <1>1, EnsuredFacts
    <2>2. w.buffered >= 1
      <3>1. w.buffered \in Nat
        BY <2>1, WindowFields DEF InSection, WindowType
      <3> QED  BY <1>1, <2>1, <3>1
    <2> QED  BY <1>1, <1>3, <2>1, <2>2, EndKeeps, OneCommandKeeps, LoopDescriptorKeeps
  <1>4. \/ Return("bad_stream", offset) /\ UNCHANGED <<window, executed>>
        \/ \E w \in Ensured(size) : End(w) \/ OneCommand(w) \/ LoopDescriptor(w)
    BY <1>1 DEF Record
  <1> QED  BY <1>2, <1>3, <1>4

----
(* A loop. *)

\* Before the first pass nothing is patched.
LEMMA FirstPass ==
    ASSUME NEW unit \in Unit, NEW patches \in Seq(Patch), NEW place
    PROVE  AfterPasses(unit, patches, place, 0) = unit
  <1> DEFINE d == DeltaAt(patches, place)
             v == (unit.val + 0 * d) % Words
  <1>1. d \in Nat /\ unit.val \in 0 .. (Words - 1) /\ Words \in Nat \ {0}
    BY UnitFields, DeltaIsNat, Sizings
  <1> HIDE DEF d
  <1>2. v = unit.val
    BY <1>1
  <1>3. AfterPasses(unit, patches, place, 0) = [unit EXCEPT !.val = v]
    BY DEF AfterPasses, d
  <1> HIDE DEF v
  <1>4. [unit EXCEPT !.val = unit.val] = unit
    BY DEF Unit
  <1> QED  BY <1>2, <1>3, <1>4

LEMMA LoopRecordKeeps == ASSUME DispatchInv, LoopRecord PROVE DispatchInv'
  <1> DEFINE loop == section[offset + 1]
             n == RecordUnits(offset)
             record == RecordAt(offset)
  <1>1. /\ stage = "loop" /\ TypeOK /\ InSection(window) /\ window.buffered >= 1 /\ loop.type = "loop"
        /\ iteration = 0 /\ child = 1 /\ ValidHeader(loop, Remaining) /\ n <= Remaining
    BY WindowRead DEF DispatchInv, RecordInv, LoopRecord
  <1>2. At(window, 0) = loop /\ loop \in Unit /\ offset \in 0 .. (Len(section) - 1)
    BY <1>1, HeadRead
  <1>3. loop.size \in Nat /\ loop.body \in Nat /\ loop.size >= 1 /\ n = loop.size + loop.body
    BY <1>1, <1>2, UnitFields DEF ValidHeader, RecordUnits
  <1>4. n \in Nat \ {0} /\ LoopUnits(window) = n
    <2> HIDE DEF loop, n
    <2> QED  BY <1>2, <1>3 DEF LoopUnits
  <1>5. CASE Return("bad_stream", offset) /\ UNCHANGED <<window, executed>>
    BY <1>1, <1>5, OffsetReported, Returns DEF InSection
  <1>6. ASSUME NEW w \in Ensured(n), window' = w,
               IF ValidLoop([i \in 1 .. LoopUnits(w) |-> At(w, i - 1)]) /\ LoopFits(At(w, 0))
                 THEN /\ stage' = "body" /\ iteration' = 0 /\ child' = 1
                      /\ UNCHANGED <<model, offset, completed, result, executed>>
                 ELSE Return("bad_stream", offset) /\ UNCHANGED executed
        PROVE  DispatchInv'
    <2>1. InSection(w) /\ w.buffered >= n
      BY <1>1, <1>4, EnsuredFacts
    <2>2. w.buffered \in Nat /\ w.buffered >= 1
      BY <1>4, <2>1, WindowFields DEF InSection, WindowType
    <2>3. At(w, 0) = loop
      BY <1>1, <2>1, <2>2, HeadRead
    <2>4. LoopUnits(w) = n
      BY <1>3, <2>3 DEF LoopUnits
    <2>5. [i \in 1 .. n |-> At(w, i - 1)] = record
      BY <1>1, <1>4, <2>1, RecordRead
    <2>6. CASE ~(ValidLoop(record) /\ LoopFits(loop))
      <3>1. Return("bad_stream", offset) /\ executed' = executed
        BY <1>6, <2>3, <2>4, <2>5, <2>6
      <3> QED  BY <1>1, <1>6, <2>1, <3>1, OffsetReported, Returns DEF InSection
    <2>7. CASE ValidLoop(record) /\ LoopFits(loop)
      <3>1. /\ stage' = "body" /\ iteration' = 0 /\ child' = 1 /\ section' = section /\ count' = count
            /\ UNCHANGED <<offset, completed, status, reported, failure, executed>>
        BY <1>6, <2>3, <2>4, <2>5, <2>7 DEF model, result
      <3>2. /\ record \in Seq(Unit) /\ Len(record) = n /\ record[1] = loop /\ n \in Nat \ {0}
        <4>1. /\ record \in Seq(Unit) /\ Len(record) = n
              /\ \A i \in 1 .. n : record[i] = section[offset + i]
          <5>1. offset + n <= Len(section)
            BY <1>1, <1>4, Typed DEF Remaining
          <5> QED  BY <1>2, <1>4, <5>1, Typed, <1>1, RecordFacts
        <4> QED  BY <1>4, <4>1
      <3>3. loop.iterations \in Nat /\ loop.iterations >= 2 /\ loop.commands \in 1 .. MaxBody /\ loop.patches \in Seq(Patch)
        <4>1. /\ record[1].iterations \in Nat /\ record[1].iterations >= 2 /\ record[1].commands \in 1 .. MaxBody
              /\ record[1].patches \in Seq(Patch)
          BY <1>3, <2>7, <3>2, LoopFacts
        <4> QED  BY <3>2, <4>1
      <3>4. TypeOK'
        BY <1>1, <1>6, <2>1, <3>1, Sizings DEF TypeOK, InSection, WindowType
      <3>5. WindowInv'
        <4>1. ASSUME NEW i \in 1 .. w.buffered PROVE Expected(i)' = section[offset + i]
          <5>1. section[offset + i] \in Unit
            <6>1. offset + i \in 1 .. Len(section)
              <7>1. w.next \in Nat /\ w.next <= Len(section) /\ offset + w.buffered = w.next
                BY <2>1, WindowFields DEF InSection, WindowType
              <7>2. offset \in Nat /\ Len(section) \in Nat
                BY <1>1, Typed
              <7> QED  BY <2>2, <4>1, <7>1, <7>2
            <6> QED  BY <1>1, <6>1, Typed
          <5>2. AfterPasses(section[offset + i], loop.patches, i - loop.size - 1, 0) = section[offset + i]
            BY <3>3, <5>1, FirstPass
          <5>3. PassesPatched' = 0
            BY <3>1 DEF PassesPatched
          <5>4. Expected(i)' = IF loop.size < i /\ i <= n
                                 THEN AfterPasses(section[offset + i], loop.patches, i - loop.size - 1, 0)
                                 ELSE section[offset + i]
            BY <3>1, <5>3, SectionKept DEF Expected
          <5> QED  BY <5>2, <5>4
        <4>2. \A i \in 1 .. window'.buffered : At(window, i - 1)' = Expected(i)'
          BY <1>6, <2>1, <4>1 DEF InSection, At
        <4>3. ReadAccepted'
          BY <1>6, <2>1, <3>1 DEF InSection, ReadAccepted
        <4> QED  BY <4>2, <4>3 DEF WindowInv
      <3>6. RecordInv'
        BY <1>1, <1>2, <1>6, <2>2, <3>1, SectionKept DEF RecordInv, Remaining
      <3>7. LoopInv'
        <4>1. completed <= count /\ loop.iterations * loop.commands <= count - completed
          BY <2>7 DEF LoopFits
        <4>2. completed + (loop.iterations - 0) * loop.commands <= count + (1 - 1)
          <5>1. loop.iterations - 0 = loop.iterations
            BY <3>3
          <5>2. loop.iterations * loop.commands \in Nat
            BY <3>3, Sizings
          <5> DEFINE m == loop.iterations * loop.commands
          <5> HIDE DEF m
          <5>3. completed + m <= count + (1 - 1)
            BY <1>1, <4>1, <5>2, Typed DEF m
          <5> QED  BY <5>1, <5>3 DEF m
        <4>3. RecordUnits(offset)' = n /\ RecordAt(offset)' = record
          BY <3>1, SectionKept
        <4>4. 0 < loop.iterations /\ 1 <= loop.commands
          BY <3>3, Sizings
        <4> QED  BY <1>6, <2>1, <2>7, <3>1, <4>2, <4>3, <4>4 DEF LoopInv
      <3>8. ProgramInv'
        <4>1. InRecord' = 0 /\ InRecord = 0
          <5>1. loop.commands \in Nat
            BY <3>3, Sizings
          <5>2. 0 * loop.commands + (1 - 1) = 0
            BY <5>1
          <5> QED  BY <1>1, <3>1, <5>2 DEF InRecord
        <4> QED  BY <1>1, <3>1, <4>1, SectionKept DEF DispatchInv, ProgramInv
      <3>9. OutcomeInv'
        BY <1>1, <3>1, SectionKept DEF DispatchInv, OutcomeInv, FailureLocated
      <3> QED  BY <3>4, <3>5, <3>6, <3>7, <3>8, <3>9 DEF DispatchInv
    <2> QED  BY <2>6, <2>7
  <1>7. \/ Return("bad_stream", offset) /\ UNCHANGED <<window, executed>>
        \/ \E w \in Ensured(n) :
             /\ window' = w
             /\ IF ValidLoop([i \in 1 .. LoopUnits(w) |-> At(w, i - 1)]) /\ LoopFits(At(w, 0))
                  THEN /\ stage' = "body" /\ iteration' = 0 /\ child' = 1
                       /\ UNCHANGED <<model, offset, completed, result, executed>>
                  ELSE Return("bad_stream", offset) /\ UNCHANGED executed
    BY <1>4 DEF LoopRecord
  <1> QED  BY <1>5, <1>6, <1>7

LEMMA Division ==
    ASSUME NEW n \in Nat \ {0}, NEW a \in Nat
    PROVE  a % n \in 0 .. (n - 1) /\ a \div n \in Nat /\ a = n * (a \div n) + (a % n)
  BY SMTT(30)

LEMMA Remainder ==
    ASSUME NEW n \in Nat \ {0}, NEW q \in Nat, NEW r \in 0 .. (n - 1), NEW a \in Nat, a = n * q + r
    PROVE  a % n = r
  <1> DEFINE p == a \div n
             s == a % n
  <1>1. s \in 0 .. (n - 1) /\ p \in Nat /\ a = n * p + s
    BY Division
  <1> HIDE DEF p, s
  <1>2. ASSUME NEW x \in Nat, NEW y \in Nat, x < y PROVE n * x + n <= n * y
    <2>1. \A k \in Nat : n * (x + (1 + k)) = n * x + n + n * k /\ n * k \in Nat /\ n * x \in Nat
      BY SMTT(30)
    <2>2. y - (x + 1) \in Nat /\ x + (1 + (y - (x + 1))) = y
      BY <1>2
    <2>3. n * y = n * x + n + n * (y - (x + 1)) /\ n * (y - (x + 1)) \in Nat /\ n * x \in Nat
      BY <2>1, <2>2
    <2> QED  BY <2>3
  <1>3. n * p \in Nat /\ n * q \in Nat
    BY <1>1, SMTT(30)
  <1>4. p = q
    <2>1. ~(p < q)
      <3> SUFFICES ASSUME p < q PROVE FALSE
        OBVIOUS
      <3>1. n * p + n <= n * q
        BY <1>1, <1>2
      <3> QED  BY <1>1, <1>3, <3>1
    <2>2. ~(q < p)
      <3> SUFFICES ASSUME q < p PROVE FALSE
        OBVIOUS
      <3>1. n * q + n <= n * p
        BY <1>1, <1>2
      <3> QED  BY <1>1, <1>3, <3>1
    <2> QED  BY <1>1, <2>1, <2>2
  <1>5. s = r
    BY <1>1, <1>3, <1>4
  <1> QED  BY <1>5 DEF s

\* Words wrap around the same way whether they are patched pass by pass or at once.
LEMMA WrapsAlike ==
    ASSUME NEW n \in Nat \ {0}, NEW a \in Nat, NEW d \in Nat
    PROVE  ((a % n) + d) % n = (a + d) % n
  <1> DEFINE q == a \div n
             r == a % n
             p == (r + d) \div n
             s == (r + d) % n
  <1>1. r \in 0 .. (n - 1) /\ q \in Nat /\ a = n * q + r
    BY Division
  <1> HIDE DEF q, r
  <1>2. r + d \in Nat /\ a + d \in Nat
    BY <1>1
  <1>3. s \in 0 .. (n - 1) /\ p \in Nat /\ r + d = n * p + s
    BY <1>2, Division
  <1> HIDE DEF p, s
  <1>4. q + p \in Nat /\ n * (q + p) = n * q + n * p /\ n * q \in Nat /\ n * p \in Nat
    BY <1>1, <1>3, SMTT(30)
  <1>5. a + d = n * (q + p) + s
    BY <1>1, <1>3, <1>4
  <1>6. (a + d) % n = s
    <2> DEFINE t == q + p
               x == a + d
    <2>1. t \in Nat /\ x \in Nat /\ x = n * t + s
      BY <1>2, <1>4, <1>5
    <2> HIDE DEF t, x
    <2>2. x % n = s
      BY <1>3, <2>1, Remainder
    <2> QED  BY <2>2 DEF x
  <1> QED  BY <1>6 DEF r, s

\* One pass more.
LEMMA NextPass ==
    ASSUME NEW unit \in Unit, NEW patches \in Seq(Patch), NEW place, NEW n \in Nat \ {0}
    PROVE  [AfterPasses(unit, patches, place, n - 1) EXCEPT !.val = (@ + DeltaAt(patches, place)) % Words]
             = AfterPasses(unit, patches, place, n)
  <1> DEFINE d == DeltaAt(patches, place)
             a == unit.val + (n - 1) * d
             before == AfterPasses(unit, patches, place, n - 1)
  <1>1. d \in Nat /\ unit.val \in Nat /\ Words \in Nat \ {0}
    BY UnitFields, DeltaIsNat, Sizings
  <1>2. before = [unit EXCEPT !.val = a % Words]
    BY DEF AfterPasses
  <1>3. AfterPasses(unit, patches, place, n) = [unit EXCEPT !.val = (unit.val + n * d) % Words]
    BY DEF AfterPasses
  <1> HIDE DEF d
  <1>4. a \in Nat /\ a + d = unit.val + n * d
    <2>1. n - 1 \in Nat
      OBVIOUS
    <2>2. (n - 1) * d \in Nat /\ n * d = (n - 1) * d + d
      BY <1>1, <2>1, Multiples, SMTT(30)
    <2> QED  BY <1>1, <2>2
  <1> HIDE DEF a
  <1>5. ((a % Words) + d) % Words = (unit.val + n * d) % Words
    <2>1. ((a % Words) + d) % Words = (a + d) % Words
      BY <1>1, <1>4, WrapsAlike
    <2> QED  BY <1>4, <2>1, Zenon
  <1>6. before.val = a % Words
    <2> HIDE DEF before
    <2> QED  BY <1>2 DEF Unit
  <1> HIDE DEF before
  <1>7. [before EXCEPT !.val = (before.val + d) % Words] = [unit EXCEPT !.val = (before.val + d) % Words]
    BY <1>2 DEF Unit
  <1> QED  BY <1>3, <1>5, <1>6, <1>7 DEF d, before

\* What is known of the loop that is being run.
LEMMA AtBody ==
    ASSUME DispatchInv, stage = "body"
    PROVE  LET loop == section[offset + 1]
               record == RecordAt(offset)
               n == RecordUnits(offset)
           IN /\ TypeOK /\ offset \in 0 .. (Len(section) - 1) /\ Continues(offset)
              /\ loop \in Unit /\ n \in Nat \ {0} /\ n = loop.size + loop.body /\ n <= window.buffered
              /\ offset + n <= Len(section)
              /\ record \in Seq(Unit) /\ Len(record) = n /\ record[1] = loop /\ ValidLoop(record)
              /\ \A i \in 1 .. n : record[i] = section[offset + i]
              /\ loop.size \in Nat \ {0} /\ loop.body \in Nat /\ loop.patches \in Seq(Patch)
              /\ \A p \in 1 .. Len(loop.patches) : loop.patches[p].at < loop.body
              /\ loop.iterations \in Nat /\ loop.commands \in Nat /\ loop.commands <= MaxBody
              /\ iteration \in Nat /\ iteration < loop.iterations
              /\ child \in Nat \ {0} /\ child <= loop.commands
              /\ At(window, 0) = loop
              /\ completed + (loop.iterations - iteration) * loop.commands <= count + (child - 1)
              /\ window.buffered \in Nat /\ offset + window.buffered = window.next
  <1> DEFINE loop == section[offset + 1]
             record == RecordAt(offset)
             n == RecordUnits(offset)
  <1>1. /\ TypeOK /\ offset < Len(section) /\ ValidHeader(loop, Remaining) /\ loop.type = "loop"
        /\ n <= Remaining /\ window.buffered >= n /\ ValidLoop(record) /\ window.buffered >= 1
        /\ iteration < loop.iterations /\ child <= loop.commands
        /\ completed + (loop.iterations - iteration) * loop.commands <= count + (child - 1)
        /\ ReadAccepted /\ \A i \in 1 .. window.buffered : At(window, i - 1) = Expected(i)
    BY DEF DispatchInv, RecordInv, LoopInv, WindowInv
  <1>2. offset \in 0 .. (Len(section) - 1) /\ loop \in Unit
    <2>1. offset \in 0 .. (Len(section) - 1) /\ offset + 1 \in 1 .. Len(section)
      <3>1. offset \in Nat /\ Len(section) \in Nat /\ offset < Len(section)
        BY <1>1, Typed
      <3> QED  BY <3>1
    <2> QED  BY <1>1, <2>1, Typed
  <1>3. loop.size \in Nat /\ loop.body \in Nat /\ loop.size >= 1 /\ n = loop.size + loop.body
    BY <1>1, <1>2, UnitFields DEF ValidHeader, RecordUnits
  <1>4. n \in Nat \ {0} /\ offset + n <= Len(section)
    <2>1. Len(section) \in Nat /\ n <= Len(section) - offset
      BY <1>1, Typed DEF Remaining
    <2> HIDE DEF loop, n
    <2> QED  BY <1>2, <1>3, <2>1
  <1>5. Continues(offset)
    BY <1>1, <1>4 DEF Continues, Remaining
  <1>6. /\ record \in Seq(Unit) /\ Len(record) = n
        /\ \A i \in 1 .. n : record[i] = section[offset + i]
    BY <1>1, <1>2, <1>4, Typed, RecordFacts
  <1>7. record[1] = loop
    BY <1>4, <1>6
  <1>8. /\ loop.iterations \in Nat /\ loop.commands \in 1 .. MaxBody /\ loop.patches \in Seq(Patch)
        /\ \A p \in 1 .. Len(loop.patches) : loop.patches[p].at < loop.body
    <2>1. Len(record) # 0 /\ Len(record) = record[1].size + record[1].body
      BY <1>3, <1>4, <1>6, <1>7
    <2>2. /\ record[1].iterations \in Nat /\ record[1].commands \in 1 .. MaxBody /\ record[1].patches \in Seq(Patch)
          /\ \A p \in 1 .. Len(record[1].patches) : record[1].patches[p].at < record[1].body
      BY <1>1, <1>6, <2>1, LoopFacts
    <2> QED  BY <1>7, <2>2
  <1>9. At(window, 0) = loop
    <2>1. 1 \in 1 .. window.buffered /\ ~(loop.size < 1)
      BY <1>1, <1>3, Typed, SMTT(30)
    <2>2. At(window, 1 - 1) = Expected(1)
      BY <1>1, <2>1
    <2>3. Expected(1) = loop
      BY <2>1 DEF Expected
    <2> QED  BY <2>2, <2>3
  <1>10. child \in Nat \ {0} /\ iteration \in Nat /\ window.buffered \in Nat
    BY <1>1, Typed
  <1>11. loop.commands \in Nat /\ loop.commands <= MaxBody
    BY <1>8, Sizings
  <1>12. loop.size \in Nat \ {0} /\ offset + window.buffered = window.next
    BY <1>1, <1>3 DEF ReadAccepted
  <1> HIDE DEF loop, record, n
  <1>13. /\ TypeOK /\ offset \in 0 .. (Len(section) - 1) /\ Continues(offset)
         /\ loop \in Unit /\ n \in Nat \ {0} /\ n = loop.size + loop.body /\ n <= window.buffered
         /\ offset + n <= Len(section)
         /\ record \in Seq(Unit) /\ Len(record) = n /\ record[1] = loop /\ ValidLoop(record)
         /\ \A i \in 1 .. n : record[i] = section[offset + i]
    BY <1>1, <1>2, <1>3, <1>4, <1>5, <1>6, <1>7, <1>10
  <1> QED  BY <1>1, <1>3, <1>8, <1>9, <1>10, <1>11, <1>12, <1>13 DEF loop, record, n

\* The window after the patches of the pass that begins, if one does.
Current ==
    IF child = 1
      THEN [window EXCEPT !.units = [i \in DOMAIN @ |-> Patched(window, i, iteration)]]
      ELSE window

\* The body in it stands as the pass of this iteration takes it; the rest is as it was.
LEMMA CurrentFacts ==
    ASSUME DispatchInv, stage = "body"
    PROVE  LET loop == section[offset + 1]
               n == RecordUnits(offset)
           IN /\ WindowType(Current) /\ offset + Current.buffered = Current.next
              /\ Current.buffered = window.buffered
              /\ \A j \in 1 .. window.buffered :
                   At(Current, j - 1) =
                     IF loop.size < j /\ j <= n
                       THEN AfterPasses(section[offset + j], loop.patches, j - loop.size - 1, iteration)
                       ELSE section[offset + j]
  <1> DEFINE loop == section[offset + 1]
             n == RecordUnits(offset)
             record == RecordAt(offset)
             b == window.buffered
             c == window.cursor
             stands(j, m) == IF loop.size < j /\ j <= n
                               THEN AfterPasses(section[offset + j], loop.patches, j - loop.size - 1, m)
                               ELSE section[offset + j]
  <1>1. /\ TypeOK /\ loop \in Unit /\ n \in Nat \ {0} /\ n = loop.size + loop.body /\ n <= b
        /\ loop.size \in Nat \ {0} /\ loop.body \in Nat /\ loop.patches \in Seq(Patch)
        /\ \A p \in 1 .. Len(loop.patches) : loop.patches[p].at < loop.body
        /\ iteration \in Nat /\ child \in Nat \ {0} /\ At(window, 0) = loop
        /\ b \in Nat /\ offset + b = window.next
    BY AtBody
  <1>2. /\ window \in Window /\ window.units \in Seq(Unit) /\ Len(window.units) = Capacity
        /\ c \in Nat /\ c + b <= Capacity /\ window.next <= Len(section) /\ Capacity \in Nat
        /\ section \in Seq(Unit) /\ offset \in Nat /\ Len(section) \in Nat
    BY <1>1, Typed, Sizings
  <1>3. WindowType(window)
    BY <1>2 DEF WindowType
  <1>4. ASSUME NEW j \in 1 .. b PROVE At(window, j - 1) = stands(j, PassesPatched)
    <2>1. At(window, j - 1) = Expected(j)
      BY <1>4 DEF DispatchInv, WindowInv
    <2> QED  BY <2>1 DEF Expected
  <1>5. CASE child # 1
    <2>1. Current = window /\ PassesPatched = iteration
      BY <1>5 DEF Current, PassesPatched
    <2> QED  BY <1>1, <1>3, <1>4, <2>1
  <1>6. CASE child = 1
    <2> DEFINE units == [i \in 1 .. Capacity |-> Patched(window, i, iteration)]
               place(i) == i - 1 - c - loop.size
    <2>1. DOMAIN window.units = 1 .. Capacity
      BY <1>2
    <2>2. Current = [window EXCEPT !.units = units]
      BY <1>6, <2>1 DEF Current
    <2>3. \A i : Patched(window, i, iteration) =
                   IF iteration = 0 THEN window.units[i]
                   ELSE [window.units[i] EXCEPT !.val = (@ + DeltaAt(loop.patches, place(i))) % Words]
      BY <1>1 DEF Patched
    <2> HIDE DEF loop, n, c, b, stands, place
    <2>4. ASSUME NEW i \in 1 .. Capacity PROVE units[i] \in Unit
      <3> DEFINE unit == window.units[i]
                 d == DeltaAt(loop.patches, place(i))
                 v == (unit.val + d) % Words
      <3>1. unit \in Unit
        BY <1>2
      <3>2. d \in Nat /\ unit.val \in Nat
        BY <1>1, <3>1, DeltaIsNat, UnitFields, Sizings
      <3> HIDE DEF unit, d
      <3>3. v \in 0 .. (Words - 1)
        BY <3>2, Sizings
      <3> HIDE DEF v
      <3>4. [unit EXCEPT !.val = v] \in Unit
        BY <3>1, <3>3 DEF Unit
      <3>5. units[i] = IF iteration = 0 THEN unit ELSE [unit EXCEPT !.val = v]
        BY <2>3 DEF unit, v, d
      <3> QED  BY <3>1, <3>4, <3>5
    <2>5. units \in Seq(Unit) /\ Len(units) = Capacity
      <3>1. units = [i \in 1 .. Capacity |-> units[i]]
        OBVIOUS
      <3> HIDE DEF units
      <3> QED  BY <1>2, <2>4, <3>1, Enumerated
    <2>6. /\ Current \in Window /\ Current.units = units /\ Current.cursor = window.cursor
          /\ Current.buffered = window.buffered /\ Current.next = window.next
      <3> HIDE DEF units
      <3> QED  BY <1>2, <2>2, <2>5 DEF Window
    <2>7. WindowType(Current)
      BY <1>3, <2>5, <2>6 DEF WindowType
    <2>8. ASSUME NEW j \in 1 .. b PROVE At(Current, j - 1) = stands(j, iteration)
      <3> DEFINE i == c + 1 + (j - 1)
      <3>1. i \in 1 .. Capacity /\ place(i) = j - loop.size - 1
        <4>1. c \in Nat /\ b \in Nat /\ c + b <= Capacity /\ loop.size \in Nat /\ Capacity \in Nat
          BY <1>1, <1>2 DEF b, c
        <4>2. i = c + j
          BY <4>1
        <4>3. place(i) = i - 1 - c - loop.size
          BY DEF place
        <4> HIDE DEF i
        <4> QED  BY <4>1, <4>2, <4>3
      <3>2. At(Current, j - 1) = Patched(window, i, iteration)
        BY <2>6, <3>1 DEF At, c
      <3>3. At(window, j - 1) = window.units[i]
        BY DEF At, c
      <3> HIDE DEF i
      <3>4. At(window, j - 1) = stands(j, PassesPatched)
        BY <1>4
      <3>5. CASE iteration = 0
        BY <1>6, <2>3, <3>2, <3>3, <3>4, <3>5 DEF PassesPatched
      <3>6. CASE iteration # 0
        <4>1. PassesPatched = iteration - 1 /\ iteration \in Nat \ {0} /\ iteration - 1 \in Nat
          BY <1>1, <1>6, <3>6 DEF PassesPatched
        <4>2. section[offset + j] \in Unit
          <5>1. offset + j \in 1 .. Len(section)
            BY <1>1, <1>2 DEF b
          <5> QED  BY <1>2, <5>1
        <4> DEFINE unit == section[offset + j]
                   d == DeltaAt(loop.patches, j - loop.size - 1)
        <4>3. At(Current, j - 1) = [stands(j, iteration - 1) EXCEPT !.val = (@ + d) % Words]
          BY <2>3, <3>1, <3>2, <3>3, <3>4, <3>6, <4>1
        <4>4. CASE loop.size < j /\ j <= n
          <5>1. /\ stands(j, iteration - 1) = AfterPasses(unit, loop.patches, j - loop.size - 1, iteration - 1)
                /\ stands(j, iteration) = AfterPasses(unit, loop.patches, j - loop.size - 1, iteration)
            BY <4>4 DEF stands
          <5> HIDE DEF stands
          <5> QED  BY <1>1, <4>1, <4>2, <4>3, <5>1, NextPass, SMTT(30)
        <4>5. CASE ~(loop.size < j /\ j <= n)
          <5>1. stands(j, iteration - 1) = unit /\ stands(j, iteration) = unit
            BY <4>5 DEF stands
          <5>2. d = 0
            <6>1. \A p \in 1 .. Len(loop.patches) : loop.patches[p].at # j - loop.size - 1
              <7> TAKE p \in 1 .. Len(loop.patches)
              <7>1. loop.patches[p].at \in Nat /\ loop.patches[p].at < loop.body
                BY <1>1, PatchFields
              <7>2. j - loop.size - 1 \notin 0 .. (loop.body - 1)
                BY <1>1, <4>5
              <7> QED  BY <1>1, <7>1, <7>2
            <6> QED  BY <1>1, <6>1, NoDelta
          <5>3. (unit.val + d) % Words = unit.val
            <6>1. unit.val \in 0 .. (Words - 1)
              BY <4>2, UnitFields
            <6> HIDE DEF d, unit
            <6> QED  BY <5>2, <6>1, Sizings
          <5>4. [unit EXCEPT !.val = unit.val] = unit
            BY <4>2 DEF Unit
          <5> HIDE DEF unit, d, stands
          <5> QED  BY <4>3, <5>1, <5>3, <5>4
        <4> QED  BY <4>4, <4>5
      <3> QED  BY <3>5, <3>6
    <2> QED  BY <1>1, <2>6, <2>7, <2>8 DEF b, stands, loop, n
  <1> QED  BY <1>5, <1>6

LEMMA BodyRead ==
    ASSUME DispatchInv, stage = "body"
    PROVE  LET loop == section[offset + 1]
           IN /\ At(Current, 0) = loop
              /\ [i \in 1 .. loop.body |-> At(Current, loop.size + i - 1)]
                    = PassBody(RecordAt(offset), iteration)
  <1> DEFINE loop == section[offset + 1]
             record == RecordAt(offset)
             n == RecordUnits(offset)
  <1>1. /\ n \in Nat \ {0} /\ n = loop.size + loop.body /\ n <= window.buffered
        /\ record[1] = loop /\ \A i \in 1 .. n : record[i] = section[offset + i]
        /\ loop.size \in Nat \ {0} /\ loop.body \in Nat /\ window.buffered \in Nat
    BY AtBody
  <1>2. ASSUME NEW j \in 1 .. window.buffered
        PROVE  At(Current, j - 1) =
                 IF loop.size < j /\ j <= n
                   THEN AfterPasses(section[offset + j], loop.patches, j - loop.size - 1, iteration)
                   ELSE section[offset + j]
    BY CurrentFacts
  <1> HIDE DEF loop, record, n
  <1>3. At(Current, 0) = loop
    <2>1. 1 \in 1 .. window.buffered /\ 1 - 1 = 0 /\ ~(loop.size < 1)
      BY <1>1
    <2>2. At(Current, 1 - 1) = section[offset + 1]
      BY <1>2, <2>1
    <2> QED  BY <2>1, <2>2 DEF loop
  <1>4. ASSUME NEW i \in 1 .. loop.body
        PROVE  At(Current, loop.size + i - 1)
                 = AfterPasses(record[loop.size + i], loop.patches, i - 1, iteration)
    <2> DEFINE j == loop.size + i
    <2>1. /\ j \in 1 .. n /\ j \in 1 .. window.buffered /\ loop.size < j /\ j <= n
          /\ j - loop.size - 1 = i - 1 /\ j - 1 = loop.size + i - 1
      BY <1>1
    <2> HIDE DEF j
    <2>2. At(Current, j - 1) = AfterPasses(section[offset + j], loop.patches, j - loop.size - 1, iteration)
      BY <1>2, <2>1
    <2>3. record[j] = section[offset + j]
      BY <1>1, <2>1
    <2>4. At(Current, loop.size + i - 1) = AfterPasses(record[j], loop.patches, i - 1, iteration)
      BY <2>1, <2>2, <2>3
    <2> QED  BY <2>4 DEF j
  <1>5. PassBody(record, iteration)
          = [i \in 1 .. loop.body |-> AfterPasses(record[loop.size + i], loop.patches, i - 1, iteration)]
    BY <1>1 DEF PassBody
  <1>6. [i \in 1 .. loop.body |-> At(Current, loop.size + i - 1)] = PassBody(record, iteration)
    BY <1>4, <1>5
  <1> QED  BY <1>3, <1>6 DEF loop, record

\* How far the passes of a loop have come.
LEMMA Turns ==
    ASSUME NEW its \in Nat, NEW cmds \in Nat, NEW it \in Nat, it < its, NEW ch \in 1 .. cmds
    PROVE  /\ it * cmds \in Nat /\ its * cmds \in Nat /\ (its - it) * cmds \in Nat
           /\ it * cmds + ch <= its * cmds /\ cmds <= (its - it) * cmds
           /\ (it + 1) * cmds = it * cmds + cmds
           /\ (its - (it + 1)) * cmds + cmds = (its - it) * cmds
           /\ it + 1 = its => it * cmds + cmds = its * cmds
  <1>1. (it + 1) * cmds = it * cmds + cmds /\ it * cmds \in Nat
    BY Multiples, (it + 1) - 1 = it, it + 1 \in Nat \ {0}
  <1>2. \A x \in Nat, y \in Nat : (x + y) * cmds = x * cmds + y * cmds /\ x * cmds \in Nat
    BY SMTT(30)
  <1> DEFINE left == its - (it + 1)
  <1>3. left \in Nat /\ its = (it + 1) + left /\ its - it = left + 1 /\ it + 1 \in Nat
    OBVIOUS
  <1> HIDE DEF left
  <1>4. left * cmds \in Nat /\ its * cmds = (it + 1) * cmds + left * cmds
    BY <1>2, <1>3
  <1>5. (its - it) * cmds = left * cmds + cmds
    <2>1. (left + 1) * cmds = left * cmds + 1 * cmds
      BY <1>2, <1>3
    <2> QED  BY <1>3, <2>1
  <1>6. it + 1 = its => it * cmds + cmds = its * cmds
    BY <1>1
  <1> DEFINE a == it * cmds
             b == left * cmds
             total == its * cmds
  <1>7. a \in Nat /\ b \in Nat /\ total = (a + cmds) + b
    BY <1>1, <1>4
  <1>8. (its - (it + 1)) * cmds = b
    BY DEF left
  <1> HIDE DEF a, b, total
  <1>9. total \in Nat /\ a + ch <= total /\ b + cmds \in Nat /\ cmds <= b + cmds
    BY <1>7
  <1> QED  BY <1>1, <1>5, <1>6, <1>7, <1>8, <1>9 DEF a, b, total

\* The child command that is next, and its place in the program.
LEMMA ChildRead ==
    ASSUME DispatchInv, stage = "body"
    PROVE  LET loop == section[offset + 1]
               at == ChildrenOf(RecordAt(offset))[child]
               command == ChildCommand(PassBody(RecordAt(offset), iteration), at)
           IN /\ command \in Commands /\ offset + loop.size + at \in NoOffset .. Len(section)
              /\ InRecord = iteration * loop.commands + (child - 1) /\ InRecord \in Nat
              /\ Len(CommandsAt(offset)) = loop.iterations * loop.commands
              /\ CommandsAt(offset)[InRecord + 1].at = offset + loop.size + at
              /\ CommandsAt(offset)[InRecord + 1].command = command
              /\ InRecord < Len(From[offset])
              /\ From[offset][InRecord + 1] = CommandsAt(offset)[InRecord + 1]
  <1> DEFINE loop == section[offset + 1]
             record == RecordAt(offset)
             n == RecordUnits(offset)
             at == ChildrenOf(record)[child]
             here == CommandsAt(offset)
             rest == From[offset + n]
             index == iteration * loop.commands + child
  <1>1. /\ TypeOK /\ offset \in 0 .. (Len(section) - 1) /\ Continues(offset)
        /\ n \in Nat \ {0} /\ n = loop.size + loop.body /\ offset + n <= Len(section)
        /\ record \in Seq(Unit) /\ Len(record) = n /\ record[1] = loop /\ ValidLoop(record)
        /\ loop.size \in Nat \ {0} /\ loop.body \in Nat
        /\ loop.iterations \in Nat /\ loop.commands \in Nat
        /\ iteration \in Nat /\ iteration < loop.iterations
        /\ child \in Nat \ {0} /\ child <= loop.commands
    BY AtBody
  <1>2. section \in Seq(Unit) /\ offset \in Nat /\ Len(section) \in Nat /\ loop.type = "loop"
    BY <1>1, Typed DEF DispatchInv, RecordInv
  <1>3. Len(record) # 0 /\ Len(record) = record[1].size + record[1].body
    BY <1>1
  <1>4. child \in 1 .. loop.commands /\ child \in 1 .. record[1].commands
    BY <1>1
  <1>5. at \in 0 .. (loop.body - 1)
    BY <1>1, <1>3, <1>4, LoopFacts
  <1>6. ChildCommand(PassBody(record, iteration), at) \in Commands
    BY <1>1, <1>3, <1>4, PassBodyFacts
  <1>7. offset + loop.size + at \in NoOffset .. Len(section)
    <2>1. /\ offset \in Nat /\ Len(section) \in Nat /\ at \in Nat /\ loop.size \in Nat /\ loop.body \in Nat
          /\ at <= loop.body /\ offset + (loop.size + loop.body) <= Len(section)
      BY <1>1, <1>2, <1>5, SMTT(30)
    <2> HIDE DEF at, n, loop
    <2> QED  BY <2>1 DEF NoOffset
  <1>8. /\ Pass(record, offset, iteration)[child].at = offset + loop.size + at
        /\ Pass(record, offset, iteration)[child].command = ChildCommand(PassBody(record, iteration), at)
    <2> HIDE DEF at, n, record, loop
    <2>1. /\ Pass(record, offset, iteration)[child].at = offset + record[1].size + ChildrenOf(record)[child]
          /\ Pass(record, offset, iteration)[child].command
               = ChildCommand(PassBody(record, iteration), ChildrenOf(record)[child])
      <3>1. \A k \in 1 .. record[1].commands :
               /\ Pass(record, offset, iteration)[k].at = offset + record[1].size + ChildrenOf(record)[k]
               /\ Pass(record, offset, iteration)[k].command
                    = ChildCommand(PassBody(record, iteration), ChildrenOf(record)[k])
        <4>1. /\ record \in Seq(Unit) /\ Len(record) # 0 /\ Len(record) = record[1].size + record[1].body
              /\ ValidLoop(record) /\ offset \in Nat /\ iteration \in Nat
          BY <1>1, <1>2, <1>3
        <4> QED  BY ONLY <4>1, PassFacts, Zenon
      <3> QED  BY <1>4, <3>1
    <2> QED  BY <1>1, <2>1 DEF at
  <1>9. /\ here \in Seq(Placed) /\ Len(here) = loop.iterations * loop.commands
        /\ \A i \in 1 .. loop.iterations : \A k \in 1 .. loop.commands :
              here[(i - 1) * loop.commands + k] = Pass(record, offset, i - 1)[k]
    <2>1. offset \in 0 .. Len(section)
      BY <1>1, <1>2
    <2> QED  BY <1>1, <1>2, <2>1, CommandsAtFacts
  <1>10. here[index] = Pass(record, offset, iteration)[child]
    <2> HIDE DEF here, loop, record
    <2>1. iteration + 1 \in 1 .. loop.iterations /\ (iteration + 1) - 1 = iteration
      BY <1>1
    <2>2. here[((iteration + 1) - 1) * loop.commands + child] = Pass(record, offset, (iteration + 1) - 1)[child]
      BY <1>4, <1>9, <2>1
    <2> QED  BY <2>1, <2>2
  <1>11. /\ iteration * loop.commands \in Nat /\ iteration * loop.commands + child <= loop.iterations * loop.commands
    BY <1>1, <1>4, Turns
  <1>12. InRecord = iteration * loop.commands + (child - 1)
    BY DEF InRecord
  <1> DEFINE done == iteration * loop.commands
             all == loop.iterations * loop.commands
  <1> HIDE DEF done, all
  <1>13. InRecord \in Nat /\ InRecord + 1 = index /\ index \in 1 .. Len(here)
    <2>1. done \in Nat /\ done + child <= all /\ InRecord = done + (child - 1) /\ index = done + child
          /\ Len(here) = all /\ Len(here) \in Nat
      BY <1>9, <1>11, <1>12 DEF done, all
    <2> HIDE DEF here, index
    <2> QED  BY <1>1, <2>1
  <1>14. InRecord < Len(From[offset]) /\ From[offset][InRecord + 1] = here[InRecord + 1]
    <2>1. offset \in 0 .. Len(section) /\ offset + n \in 0 .. Len(section)
      <3> HIDE DEF n
      <3> QED  BY <1>1, <1>2
    <2>2. rest \in Seq(Placed) /\ From[offset] = here \o rest
      BY <1>1, <1>2, <2>1, FromFacts
    <2> HIDE DEF here, rest, index, n
    <2>3. /\ Len(here \o rest) = Len(here) + Len(rest) /\ Len(here) \in Nat /\ Len(rest) \in Nat
          /\ \A i \in 1 .. Len(here) : (here \o rest)[i] = here[i]
      BY <1>9, <2>2, Joined
    <2> QED  BY <1>13, <2>2, <2>3
  <1> QED  BY <1>6, <1>7, <1>8, <1>9, <1>10, <1>12, <1>13, <1>14

\* A child command does what it is, and the dispatcher goes on after it.
LEMMA ChildSteps ==
    ASSUME DispatchInv, Child
    PROVE  LET loop == section[offset + 1]
               at == ChildrenOf(RecordAt(offset))[child]
               command == ChildCommand(PassBody(RecordAt(offset), iteration), at)
           IN \E outcome \in Outcomes(command) :
                /\ Executes(command, outcome)
                /\ IF outcome # "ok"
                     THEN window' = Current /\ Return(outcome, offset + loop.size + at)
                     ELSE /\ completed' = completed + 1
                          /\ \/ /\ child < loop.commands
                                /\ child' = child + 1 /\ window' = Current
                                /\ UNCHANGED <<offset, stage, iteration>>
                             \/ /\ child = loop.commands /\ iteration + 1 < loop.iterations
                                /\ child' = 1 /\ iteration' = iteration + 1 /\ window' = Current
                                /\ UNCHANGED <<offset, stage>>
                             \/ /\ child = loop.commands /\ iteration + 1 = loop.iterations
                                /\ Advance(Current, RecordUnits(offset))
                                /\ child' = 1 /\ iteration' = 0
                          /\ UNCHANGED <<model, result>>
  <1> DEFINE loop == section[offset + 1]
             record == RecordAt(offset)
             body == PassBody(record, iteration)
             at == ChildrenOf(record)[child]
  <1>1. stage = "body"
    BY DEF Child
  <1>2. /\ At(window, 0) = loop /\ At(Current, 0) = loop
        /\ [i \in 1 .. loop.body |-> At(Current, loop.size + i - 1)] = body
    BY <1>1, AtBody, BodyRead
  <1>3. /\ record \in Seq(Unit) /\ ValidLoop(record) /\ record[1] = loop /\ iteration \in Nat
        /\ Len(record) # 0 /\ Len(record) = record[1].size + record[1].body
        /\ RecordUnits(offset) = loop.size + loop.body
    BY <1>1, AtBody
  <1>4. ChildOffsets(Sizes(body), loop.commands) = ChildrenOf(record)
    <2>1. Sizes(body) = Sizes(BodyOf(record))
      BY <1>3, PassBodyFacts
    <2> QED  BY <1>3, <2>1 DEF ChildrenOf
  <1>5. LoopUnits(Current) = RecordUnits(offset)
    BY <1>2, <1>3 DEF LoopUnits
  <1> DEFINE steps(w, place, command, units) ==
               \E outcome \in Outcomes(command) :
                 /\ Executes(command, outcome)
                 /\ IF outcome # "ok"
                      THEN window' = w /\ Return(outcome, offset + loop.size + place)
                      ELSE /\ completed' = completed + 1
                           /\ \/ /\ child < loop.commands
                                 /\ child' = child + 1 /\ window' = w
                                 /\ UNCHANGED <<offset, stage, iteration>>
                              \/ /\ child = loop.commands /\ iteration + 1 < loop.iterations
                                 /\ child' = 1 /\ iteration' = iteration + 1 /\ window' = w
                                 /\ UNCHANGED <<offset, stage>>
                              \/ /\ child = loop.commands /\ iteration + 1 = loop.iterations
                                 /\ Advance(w, units)
                                 /\ child' = 1 /\ iteration' = 0
                           /\ UNCHANGED <<model, result>>
             read == [i \in 1 .. loop.body |-> At(Current, loop.size + i - 1)]
             place == ChildOffsets(Sizes(read), loop.commands)[child]
  <1>6. steps(Current, place, Command(SubSeq(read, place + 1, place + read[place + 1].size)), LoopUnits(Current))
    <2>1. loop = At(window, 0)
      BY <1>2
    <2> HIDE DEF loop
    <2> QED  BY <2>1, ZenonT(30) DEF Child, Current
  <1>7. read = body /\ place = at
    BY <1>2, <1>4
  <1> HIDE DEF steps, read, place
  <1>8. steps(Current, at, ChildCommand(body, at), RecordUnits(offset))
    BY <1>5, <1>6, <1>7 DEF ChildCommand
  <1> QED  BY <1>8 DEF steps

\* A command of the body fails: it is reported where it stands.
LEMMA ChildFails ==
    ASSUME DispatchInv, stage = "body", NEW outcome \in {"failed", "unsupported"},
           executed' = executed, window' = Current,
           Return(outcome, offset + section[offset + 1].size + ChildrenOf(RecordAt(offset))[child])
    PROVE  DispatchInv'
  <1> DEFINE at == offset + section[offset + 1].size + ChildrenOf(RecordAt(offset))[child]
  <1>1. /\ at \in NoOffset .. Len(section) /\ InRecord \in Nat /\ InRecord < Len(From[offset])
        /\ From[offset][InRecord + 1].at = at
    BY ChildRead
  <1>2. WindowType(window')
    BY CurrentFacts
  <1>3. Len(executed) < Len(Program) /\ at = Program[Len(executed) + 1].at
    BY <1>1, NextCommand DEF DispatchInv
  <1> HIDE DEF at
  <1>4. Return(outcome, at)
    BY DEF at
  <1> QED  BY <1>1, <1>2, <1>3, <1>4, Returns

\* The loop goes on with the next command of the body, or with its first one in the next pass.
LEMMA ChildContinues ==
    ASSUME DispatchInv, stage = "body",
           executed' = Append(executed,
                              ChildCommand(PassBody(RecordAt(offset), iteration),
                                           ChildrenOf(RecordAt(offset))[child])),
           completed' = completed + 1, window' = Current,
           UNCHANGED <<offset, stage, model, result>>,
           \/ child < section[offset + 1].commands /\ child' = child + 1 /\ iteration' = iteration
           \/ /\ child = section[offset + 1].commands /\ iteration + 1 < section[offset + 1].iterations
              /\ child' = 1 /\ iteration' = iteration + 1
    PROVE  DispatchInv'
  <1> DEFINE loop == section[offset + 1]
             record == RecordAt(offset)
             n == RecordUnits(offset)
             command == ChildCommand(PassBody(record, iteration), ChildrenOf(record)[child])
  <1>1. /\ TypeOK /\ n <= window.buffered /\ ValidLoop(record)
        /\ loop.iterations \in Nat /\ loop.commands \in Nat /\ loop.commands <= MaxBody
        /\ iteration \in Nat /\ iteration < loop.iterations
        /\ child \in Nat \ {0} /\ child <= loop.commands
    BY AtBody
  <1>fits. completed + (loop.iterations - iteration) * loop.commands <= count + (child - 1)
    BY AtBody
  <1>2. /\ command \in Commands /\ InRecord \in Nat
        /\ InRecord = iteration * loop.commands + (child - 1)
        /\ InRecord < Len(From[offset]) /\ command = From[offset][InRecord + 1].command
    BY ChildRead
  <1>3. /\ stage' = "body" /\ section' = section /\ count' = count /\ offset' = offset
        /\ UNCHANGED <<status, reported, failure>> /\ executed' = Append(executed, command)
    BY DEF model, result
  <1>4. /\ WindowType(Current) /\ offset + Current.buffered = Current.next
        /\ Current.buffered = window.buffered
        /\ \A j \in 1 .. window.buffered :
             At(Current, j - 1) =
               IF loop.size < j /\ j <= n
                 THEN AfterPasses(section[offset + j], loop.patches, j - loop.size - 1, iteration)
                 ELSE section[offset + j]
    BY CurrentFacts
  <1>5. /\ RecordUnits(offset)' = RecordUnits(offset) /\ RecordAt(offset)' = RecordAt(offset)
        /\ Program' = Program /\ From[offset]' = From[offset]
    BY <1>3, SectionKept
  <1> HIDE DEF loop, record, n, command
  <1>6. loop = section[offset + 1] /\ n = RecordUnits(offset) /\ record = RecordAt(offset)
    BY DEF loop, n, record
  <1>7. \/ child < loop.commands /\ child' = child + 1 /\ iteration' = iteration
        \/ /\ child = loop.commands /\ iteration + 1 < loop.iterations
           /\ child' = 1 /\ iteration' = iteration + 1
    BY <1>6
  <1>8. count \in Nat /\ completed \in Nat
    BY <1>1, Typed
  <1>9. child \in 1 .. loop.commands
    BY <1>1
  <1>10. /\ iteration' \in Nat /\ iteration' < loop.iterations /\ child' \in 1 .. loop.commands
         /\ iteration' * loop.commands + (child' - 1) = (iteration * loop.commands + (child - 1)) + 1
         /\ (completed + 1) + (loop.iterations - iteration') * loop.commands <= count + (child' - 1)
         /\ completed + 1 <= count
    <2> DEFINE its == loop.iterations
               cmds == loop.commands
               it2 == iteration'
               ch2 == child'
    <2>1. /\ its \in Nat /\ cmds \in Nat /\ iteration \in Nat /\ iteration < its /\ child \in 1 .. cmds
          /\ count \in Nat /\ completed \in Nat
      BY <1>1, <1>8, <1>9
    <2>2. completed + (its - iteration) * cmds <= count + (child - 1)
      BY <1>fits
    <2>3. \/ child < cmds /\ ch2 = child + 1 /\ it2 = iteration
          \/ child = cmds /\ iteration + 1 < its /\ ch2 = 1 /\ it2 = iteration + 1
      BY <1>7
    <2> HIDE DEF its, cmds, it2, ch2
    <2>4. /\ it2 \in Nat /\ it2 < its /\ ch2 \in 1 .. cmds
          /\ it2 * cmds + (ch2 - 1) = (iteration * cmds + (child - 1)) + 1
          /\ (completed + 1) + (its - it2) * cmds <= count + (ch2 - 1)
          /\ completed + 1 <= count
      <3> DEFINE a == iteration * cmds
                 b == (its - iteration) * cmds
                 next == (iteration + 1) * cmds
                 left == (its - (iteration + 1)) * cmds
      <3>1. a \in Nat /\ b \in Nat /\ cmds <= b /\ next = a + cmds /\ left + cmds = b
        BY <2>1, Turns
      <3>2. completed + b <= count + (child - 1)
        BY <2>2
      <3>3. left \in Int
        <4>1. \A x \in Int, y \in Int : x * y \in Int
          OBVIOUS
        <4> QED  BY <2>1, <4>1
      <3>4. CASE child < cmds /\ ch2 = child + 1 /\ it2 = iteration
        <4>1. it2 * cmds = a /\ (its - it2) * cmds = b
          BY <3>4
        <4> HIDE DEF a, b, next, left
        <4> QED  BY <2>1, <3>1, <3>2, <3>4, <4>1
      <3>5. CASE child = cmds /\ iteration + 1 < its /\ ch2 = 1 /\ it2 = iteration + 1
        <4>1. it2 * cmds = next /\ (its - it2) * cmds = left
          BY <3>5
        <4> HIDE DEF a, b, next, left
        <4> QED  BY <2>1, <3>1, <3>2, <3>3, <3>5, <4>1
      <3> QED  BY <2>3, <3>4, <3>5
    <2> QED  BY <2>4 DEF its, cmds, it2, ch2
  <1>11. child' \in 1 .. MaxBody /\ child' \in Nat \ {0} /\ child' <= loop.commands
    <2>1. child' \in 1 .. loop.commands /\ loop.commands \in Nat /\ loop.commands <= MaxBody /\ MaxBody \in Nat
      BY <1>1, <1>10, Sizings, Zenon
    <2> QED  BY <2>1
  <1>12. completed' \in 0 .. count' + 1
    <2>1. completed + 1 <= count /\ count' = count /\ completed' = completed + 1
      BY <1>3, <1>10
    <2> QED  BY <1>8, <2>1
  <1>13. PassesPatched' = iteration
    <2>1. child \in Nat \ {0} /\ iteration \in Nat
      BY <1>1
    <2> QED  BY <1>7, <2>1 DEF PassesPatched
  <1>14. TypeOK'
    BY <1>1, <1>3, <1>4, <1>10, <1>11, <1>12 DEF TypeOK, WindowType
  <1>15. WindowInv'
    <2>1. ASSUME NEW i \in 1 .. window'.buffered PROVE At(window, i - 1)' = Expected(i)'
      <3>1. Expected(i)' = IF loop.size < i /\ i <= n
                             THEN AfterPasses(section[offset + i], loop.patches, i - loop.size - 1, iteration)
                             ELSE section[offset + i]
        BY <1>3, <1>5, <1>6, <1>13 DEF Expected
      <3>2. At(window, i - 1)' = At(Current, i - 1)
        BY DEF At
      <3> QED  BY <1>4, <3>1, <3>2
    <2>2. ReadAccepted'
      BY <1>3, <1>4 DEF ReadAccepted
    <2> QED  BY <2>1, <2>2 DEF WindowInv
  <1>16. RecordInv'
    <2>1. /\ offset < Len(section) /\ window.buffered >= 1 /\ ValidHeader(section[offset + 1], Remaining)
          /\ section[offset + 1].type = "loop" /\ RecordUnits(offset) <= Remaining
      BY DEF DispatchInv, RecordInv
    <2> QED  BY <1>3, <1>4, <1>5, <1>6, <2>1 DEF RecordInv, Remaining
  <1>17. LoopInv'
    <2>1. completed' + (loop.iterations - iteration') * loop.commands <= count + (child' - 1)
      BY <1>10, Zenon
    <2> QED  BY <1>1, <1>3, <1>4, <1>5, <1>6, <1>10, <1>11, <2>1 DEF LoopInv
  <1>18. InRecord' = InRecord + 1
    <2>1. InRecord' = iteration' * loop.commands + (child' - 1)
      BY <1>3, <1>5, <1>6 DEF InRecord
    <2> QED  BY <1>2, <1>10, <2>1, Zenon
  <1>19. ProgramInv'
    <2>1. /\ executed' \in Seq(Commands) /\ completed' = Len(executed')
          /\ Len(executed') = Len(executed) + 1 /\ Len(executed) \in Nat
          /\ Len(executed') <= Len(Program')
          /\ \A k \in 1 .. Len(executed') : executed'[k] = Program'[k].command
      BY <1>1, <1>2, <1>3, ExecutedNext DEF DispatchInv
    <2>2. /\ InRecord <= Len(executed)
          /\ Len(Program) = (Len(executed) - InRecord) + Len(From[offset])
          /\ \A k \in 1 .. Len(From[offset]) : Program[(Len(executed) - InRecord) + k] = From[offset][k]
      BY DEF DispatchInv, ProgramInv
    <2>3. Len(executed') - InRecord' = Len(executed) - InRecord /\ InRecord' <= Len(executed')
      BY <1>2, <1>18, <2>1, <2>2, SMTT(30)
    <2> QED  BY <1>5, <2>1, <2>2, <2>3 DEF ProgramInv
  <1>20. OutcomeInv'
    BY <1>3 DEF DispatchInv, OutcomeInv, FailureLocated
  <1> QED  BY <1>14, <1>15, <1>16, <1>17, <1>19, <1>20 DEF DispatchInv

\* The last command of the last pass: the dispatcher goes on behind the loop.
LEMMA ChildEnds ==
    ASSUME DispatchInv, stage = "body",
           child = section[offset + 1].commands, iteration + 1 = section[offset + 1].iterations,
           executed' = Append(executed,
                              ChildCommand(PassBody(RecordAt(offset), iteration),
                                           ChildrenOf(RecordAt(offset))[child])),
           completed' = completed + 1, Advance(Current, RecordUnits(offset)),
           child' = 1, iteration' = 0, UNCHANGED <<model, result>>
    PROVE  DispatchInv'
  <1> DEFINE loop == section[offset + 1]
             n == RecordUnits(offset)
             command == ChildCommand(PassBody(RecordAt(offset), iteration),
                                     ChildrenOf(RecordAt(offset))[child])
  <1>1. /\ TypeOK /\ Continues(offset) /\ n \in Nat \ {0} /\ n = loop.size + loop.body /\ n <= window.buffered
        /\ loop.size \in Nat \ {0} /\ loop.body \in Nat /\ window.buffered \in Nat
        /\ loop.iterations \in Nat /\ loop.commands \in Nat
        /\ iteration \in Nat /\ iteration < loop.iterations /\ child \in Nat \ {0}
    BY AtBody
  <1>2. /\ command \in Commands /\ InRecord \in Nat
        /\ InRecord = iteration * loop.commands + (child - 1)
        /\ Len(CommandsAt(offset)) = loop.iterations * loop.commands
        /\ command = CommandsAt(offset)[InRecord + 1].command
    BY ChildRead
  <1>3. /\ WindowType(Current) /\ offset + Current.buffered = Current.next
        /\ Current.buffered = window.buffered
        /\ \A j \in 1 .. window.buffered :
             At(Current, j - 1) =
               IF loop.size < j /\ j <= n
                 THEN AfterPasses(section[offset + j], loop.patches, j - loop.size - 1, iteration)
                 ELSE section[offset + j]
    BY CurrentFacts
  <1>4. completed + (loop.iterations - iteration) * loop.commands <= count + (child - 1)
    BY AtBody
  <1>5. /\ child = loop.commands /\ iteration + 1 = loop.iterations /\ child \in 1 .. loop.commands
        /\ loop.iterations \in Nat /\ loop.commands \in Nat /\ iteration \in Nat
        /\ iteration < loop.iterations
    <2>1. /\ loop.iterations \in Nat /\ loop.commands \in Nat /\ iteration \in Nat /\ child \in Nat \ {0}
          /\ iteration < loop.iterations
      BY <1>1
    <2>2. child = loop.commands /\ iteration + 1 = loop.iterations
      OBVIOUS
    <2> HIDE DEF loop
    <2> QED  BY <2>1, <2>2
  <1> HIDE DEF n, command, loop
  <1>6. ASSUME NEW i \in (n + 1) .. Current.buffered PROVE At(Current, i - 1) = section[offset + i]
    <2>1. i \in 1 .. window.buffered /\ ~(i <= n)
      BY <1>1, <1>3
    <2> QED  BY <1>3, <2>1
  <1>7. completed <= count
    <2>1. completed \in Nat /\ count \in Nat
      BY <1>1, Typed
    <2>2. loop.iterations - iteration = 1 /\ loop.commands \in Nat
      BY ONLY <1>5
    <2>3. (loop.iterations - iteration) * loop.commands = loop.commands
      BY ONLY <2>2
    <2>4. completed + loop.commands <= count + (loop.commands - 1)
      BY ONLY <1>4, <1>5, <2>3, Zenon
    <2> QED  BY ONLY <2>1, <2>2, <2>4
  <1>8. InRecord + 1 = Len(CommandsAt(offset))
    <2> DEFINE a == iteration * loop.commands
    <2>1. a \in Nat /\ (iteration + 1) * loop.commands = a + loop.commands
      BY ONLY <1>5, Turns
    <2> HIDE DEF a
    <2>2. InRecord = a + (loop.commands - 1)
      BY ONLY <1>2, <1>5, Zenon DEF a
    <2>3. Len(CommandsAt(offset)) = a + loop.commands
      BY ONLY <1>2, <1>5, <2>1, Zenon
    <2>4. a \in Nat /\ loop.commands \in Nat
      BY ONLY <1>5, <2>1, Zenon
    <2> HIDE DEF InRecord
    <2> QED  BY ONLY <2>2, <2>3, <2>4
  <1>9. executed' = Append(executed, command)
    BY DEF command
  <1> USE DEF n
  <1>10. Current.buffered >= RecordUnits(offset)
    BY <1>1, <1>3
  <1> QED  BY <1>1, <1>2, <1>3, <1>6, <1>7, <1>8, <1>9, <1>10, Finishes

LEMMA ChildKeeps == ASSUME DispatchInv, Child PROVE DispatchInv'
  <1> DEFINE loop == section[offset + 1]
             at == ChildrenOf(RecordAt(offset))[child]
             command == ChildCommand(PassBody(RecordAt(offset), iteration), at)
  <1>1. stage = "body"
    BY DEF Child
  <1>2. PICK outcome \in Outcomes(command) :
          /\ Executes(command, outcome)
          /\ IF outcome # "ok"
               THEN window' = Current /\ Return(outcome, offset + loop.size + at)
               ELSE /\ completed' = completed + 1
                    /\ \/ /\ child < loop.commands
                          /\ child' = child + 1 /\ window' = Current
                          /\ UNCHANGED <<offset, stage, iteration>>
                       \/ /\ child = loop.commands /\ iteration + 1 < loop.iterations
                          /\ child' = 1 /\ iteration' = iteration + 1 /\ window' = Current
                          /\ UNCHANGED <<offset, stage>>
                       \/ /\ child = loop.commands /\ iteration + 1 = loop.iterations
                          /\ Advance(Current, RecordUnits(offset))
                          /\ child' = 1 /\ iteration' = 0
                    /\ UNCHANGED <<model, result>>
    BY ChildSteps
  <1>3. outcome \in {"ok", "failed", "unsupported"}
    BY DEF Outcomes
  <1>4. executed' = IF outcome = "ok" THEN Append(executed, command) ELSE executed
    BY <1>2 DEF Executes
  <1>5. CASE outcome # "ok"
    BY <1>1, <1>2, <1>3, <1>4, <1>5, ChildFails
  <1>6. CASE outcome = "ok"
    <2>1. executed' = Append(executed, command) /\ completed' = completed + 1 /\ UNCHANGED <<model, result>>
      BY <1>2, <1>4, <1>6
    <2>2. CASE /\ child < loop.commands
               /\ child' = child + 1 /\ window' = Current
               /\ UNCHANGED <<offset, stage, iteration>>
      BY <1>1, <2>1, <2>2, ChildContinues
    <2>3. CASE /\ child = loop.commands /\ iteration + 1 < loop.iterations
               /\ child' = 1 /\ iteration' = iteration + 1 /\ window' = Current
               /\ UNCHANGED <<offset, stage>>
      BY <1>1, <2>1, <2>3, ChildContinues
    <2>4. CASE /\ child = loop.commands /\ iteration + 1 = loop.iterations
               /\ Advance(Current, RecordUnits(offset))
               /\ child' = 1 /\ iteration' = 0
      BY <1>1, <2>1, <2>4, ChildEnds
    <2> QED  BY <1>2, <1>6, <2>2, <2>3, <2>4
  <1> QED  BY <1>5, <1>6

----
(* The theorems. *)

\* Every step of the dispatcher keeps the invariant: what a window holds, what was executed, what
\* was counted and what is reported.
LEMMA NextDispatch == ASSUME DispatchInv, [Next]_vars PROVE DispatchInv'
  <1>1. CASE UNCHANGED vars
    <2>1. /\ UNCHANGED <<section, count, offset, window, completed, stage, iteration, child>>
          /\ UNCHANGED <<status, reported, failure, executed>>
      BY <1>1 DEF vars, model, result
    <2>2. TypeOK'
      BY <2>1 DEF DispatchInv, TypeOK
    <2>3. WindowInv'
      <3>1. \A i : Expected(i)' = Expected(i) /\ At(window, i - 1)' = At(window, i - 1)
        BY <2>1, SectionKept DEF Expected, PassesPatched, At
      <3> QED  BY <2>1, <3>1 DEF DispatchInv, WindowInv, ReadAccepted
    <2>4. RecordInv' /\ LoopInv'
      BY <2>1, SectionKept DEF DispatchInv, RecordInv, LoopInv, Remaining
    <2>5. ProgramInv' /\ OutcomeInv'
      BY <2>1, SectionKept DEF DispatchInv, ProgramInv, InRecord, OutcomeInv, FailureLocated
    <2> QED  BY <2>2, <2>3, <2>4, <2>5 DEF DispatchInv
  <1>2. CASE Returned
    BY <1>1, <1>2 DEF Returned
  <1> QED
    BY <1>1, <1>2, HeaderKeeps, RecordKeeps, LoopRecordKeeps, ChildKeeps, FallThroughKeeps DEF Next

\* The invariant holds of every reachable state.
LEMMA Reachable == Spec => []DispatchInv
  <1>1. Init => DispatchInv
    BY InitDispatch
  <1>2. DispatchInv /\ [Next]_vars => DispatchInv'
    BY NextDispatch
  <1> QED  BY <1>1, <1>2, PTL DEF Spec

\* The dispatcher never reads beyond the section or its window, and never counts further than one
\* command beyond the declared count (nai_cmd_dispatch_stream_v2 and run_affine_loop_buffer).
THEOREM TypeCorrect == Spec => []TypeOK
  <1>1. DispatchInv => TypeOK
    BY DEF DispatchInv
  <1> QED  BY <1>1, Reachable, PTL

\* Whatever the size of the window and the records of the section, the window holds what follows
\* the current offset, and no refill of it is refused (refill_command_window,
\* nai_stream_prefetch_read).
THEOREM WindowHoldsSection == Spec => []WindowIsSection
  <1>1. DispatchInv => WindowIsSection
    <2> SUFFICES ASSUME DispatchInv, stage # "returned"
                 PROVE  /\ ReadAccepted
                        /\ \A i \in 1 .. window.buffered :
                             \/ At(window, i - 1) = section[offset + i]
                             \/ stage = "body" /\ At(window, 0).size < i /\ i <= LoopUnits(window)
      BY DEF WindowIsSection
    <2>1. ReadAccepted /\ \A i \in 1 .. window.buffered : At(window, i - 1) = Expected(i)
      BY DEF DispatchInv, WindowInv
    <2>2. CASE stage # "body"
      BY <2>1, <2>2 DEF Expected
    <2>3. CASE stage = "body"
      <3>1. /\ At(window, 0) = section[offset + 1]
            /\ RecordUnits(offset) = section[offset + 1].size + section[offset + 1].body
        BY <2>3, AtBody
      <3>2. LoopUnits(window) = RecordUnits(offset)
        BY <3>1 DEF LoopUnits
      <3> QED  BY <2>1, <2>3, <3>1, <3>2 DEF Expected
    <2> QED  BY <2>2, <2>3
  <1> QED  BY <1>1, Reachable, PTL

\* Interpreting a section through a window executes the commands that interpreting it in place
\* executes, in the same order and with the same words, and all of them when it succeeds
\* (nai_cmd_dispatch_stream_v2 against nai_cmd_dispatch_v2 and run_affine_loop_direct).
THEOREM WindowedIsInPlace == Spec => []ExecutesProgram
  <1>1. DispatchInv => ExecutesProgram
    <2> SUFFICES ASSUME DispatchInv PROVE ExecutesProgram
      OBVIOUS
    <2>1. /\ executed \in Seq(Commands) /\ Len(executed) <= Len(Program)
          /\ \A k \in 1 .. Len(executed) : executed[k] = Program[k].command
          /\ status = "ok" => Len(executed) = Len(Program)
      BY DEF DispatchInv, ProgramInv, OutcomeInv
    <2>2. executed = [k \in 1 .. Len(executed) |-> executed[k]]
      BY <2>1
    <2>3. executed = [k \in 1 .. Len(executed) |-> Program[k].command]
      BY <2>1, <2>2
    <2> QED  BY <2>1, <2>3 DEF ExecutesProgram
  <1> QED  BY <1>1, Reachable, PTL

\* A command that fails is reported at its place in the section, wherever it stands, with the
\* number of commands that ran before it.
THEOREM FailuresLocated == Spec => []FailureLocated
  <1>1. DispatchInv => FailureLocated
    BY DEF DispatchInv, OutcomeInv
  <1> QED  BY <1>1, Reachable, PTL

====
