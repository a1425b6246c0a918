---- MODULE RuntimeSessionProofs ----
(***************************************************************************)
(* Theorems about AsyncRuntime and RuntimeSession, for every queue limit,  *)
(* hardware depth, size of the identifier space and number of operations:  *)
(* first what holds of the operations, then what the host may conclude     *)
(* from the report.  A session is one of the runs of AsyncRuntime, and     *)
(* what is proved of those holds in it.                                    *)
(***************************************************************************)
EXTENDS RuntimeSession, SequenceTheorems, TLAPS

----
(* Transfer identifiers, for every size of their space. *)

\* Two ids issued one after the other are one step further ahead.
LEMMA AheadNext ==
    ASSUME NEW d \in 0 .. (IdSpace - 1), NEW id \in Ids, Ahead(d, id) < HalfIds
    PROVE  /\ NextTransferId(id) \in Ids
           /\ Ahead(d, NextTransferId(id)) = Ahead(d, id) + 1
  BY HalfIdsAssumption, SMT DEF Ahead, NextTransferId, Ids, IdSpace

\* When the job next in turn retires every other one is one step closer.
LEMMA AheadRetire ==
    ASSUME NEW d \in 0 .. (IdSpace - 1), NEW first \in Ids, NEW id \in Ids,
           Ahead(d, first) = 1, Ahead(d, id) > 1
    PROVE  Ahead(first, id) = Ahead(d, id) - 1
  BY HalfIdsAssumption, SMT DEF Ahead, Ids, IdSpace

\* A job still ahead of DONE_ID never reads as completed, wherever the counters wrap.
LEMMA AheadNotCompleted ==
    ASSUME NEW d \in 0 .. (IdSpace - 1), NEW id \in Ids, Ahead(d, id) < HalfIds
    PROVE  ~Completed(d, id)
  BY HalfIdsAssumption, SMT DEF Ahead, Completed, WordMinus, Ids, IdSpace

----
\* A launch appends one job to its direction and keeps the ids consecutive.
LEMMA LaunchStep ==
    ASSUME TypeOK, IdInv, NEW d \in Directions, NEW kind \in Kinds, Launch(d, kind)
    PROVE  /\ jobs' \in [Directions -> Seq(Job)] /\ \A e \in Directions : Len(jobs'[e]) <= HwDepth
           /\ nextId' \in [Directions -> Ids] /\ doneId' = doneId
           /\ \A e \in Directions : e # d => jobs'[e] = jobs[e]
           /\ Len(jobs[d]) \in Nat /\ DOMAIN jobs[d] = 1 .. Len(jobs[d])
           /\ DOMAIN jobs'[d] = 1 .. (Len(jobs[d]) + 1)
           /\ \A i \in 1 .. Len(jobs[d]) : jobs'[d][i] = jobs[d][i]
           /\ jobs'[d][Len(jobs[d]) + 1] = [id |-> nextId[d], kind |-> kind]
           /\ IdInv'
  <1> DEFINE job == [id |-> nextId[d], kind |-> kind]
  <1>1. job \in Job
    BY DEF TypeOK, Job
  <1>2. jobs[d] \in Seq(Job) /\ Len(jobs[d]) \in Nat /\ Len(jobs[d]) < HwDepth
    BY DEF TypeOK, Launch
  <1>3. /\ jobs' = [jobs EXCEPT ![d] = Append(jobs[d], job)]
        /\ nextId' = [nextId EXCEPT ![d] = NextTransferId(nextId[d])]
        /\ doneId' = doneId
    BY DEF Launch
  <1>4. /\ jobs'[d] = Append(jobs[d], job)
        /\ \A e \in Directions : e # d => jobs'[e] = jobs[e] /\ nextId'[e] = nextId[e]
        /\ nextId'[d] = NextTransferId(nextId[d])
    BY <1>3 DEF TypeOK
  <1>5. /\ jobs'[d] \in Seq(Job) /\ Len(jobs'[d]) = Len(jobs[d]) + 1
        /\ \A i \in 1 .. Len(jobs[d]) : jobs'[d][i] = jobs[d][i]
        /\ jobs'[d][Len(jobs[d]) + 1] = job
    BY <1>1, <1>2, <1>4, AppendProperties
  <1>6. jobs' \in [Directions -> Seq(Job)]
    BY <1>3, <1>4, <1>5 DEF TypeOK
  <1>7. \A e \in Directions : Len(jobs'[e]) <= HwDepth
    BY <1>2, <1>4, <1>5, RuntimeAssumption DEF TypeOK
  <1>8. Ahead(doneId[d], nextId[d]) = Len(jobs[d]) + 1 /\ Len(jobs[d]) + 1 < HalfIds
    BY <1>2, RuntimeAssumption, HalfIdsAssumption DEF IdInv
  <1>9. nextId'[d] \in Ids /\ Ahead(doneId[d], nextId'[d]) = Len(jobs[d]) + 2
    <2>1. doneId[d] \in 0 .. (IdSpace - 1) /\ nextId[d] \in Ids
      BY DEF TypeOK, Words
    <2> QED  BY <2>1, <1>2, <1>4, <1>8, AheadNext
  <1>10. nextId' \in [Directions -> Ids]
    BY <1>3, <1>4, <1>9 DEF TypeOK
  <1>11. DOMAIN jobs[d] = 1 .. Len(jobs[d]) /\ DOMAIN jobs'[d] = 1 .. (Len(jobs[d]) + 1)
    BY <1>2, <1>5
  <1>12. IdInv'
    <2> SUFFICES ASSUME NEW e \in Directions
                 PROVE  /\ \A i \in DOMAIN jobs'[e] : Ahead(doneId'[e], jobs'[e][i].id) = i
                        /\ Ahead(doneId'[e], nextId'[e]) = Len(jobs'[e]) + 1
      BY DEF IdInv
    <2>1. CASE e # d
      BY <2>1, <1>3, <1>4 DEF IdInv
    <2>2. CASE e = d
      <3>1. ASSUME NEW i \in DOMAIN jobs'[d] PROVE Ahead(doneId'[d], jobs'[d][i].id) = i
        <4>1. CASE i \in 1 .. Len(jobs[d])
          BY <4>1, <1>3, <1>5, <1>11 DEF IdInv
        <4>2. CASE i = Len(jobs[d]) + 1
          BY <4>2, <1>3, <1>5, <1>8
        <4> QED  BY <4>1, <4>2, <1>2, <1>11
      <3> QED  BY <2>2, <3>1, <1>2, <1>3, <1>5, <1>9
    <2> QED  BY <2>1, <2>2
  <1> QED  BY <1>2, <1>3, <1>4, <1>5, <1>6, <1>7, <1>10, <1>11, <1>12

\* A retirement drops the oldest job of its direction and keeps the ids consecutive.
LEMMA RetireStep ==
    ASSUME TypeOK, IdInv, NEW d \in Directions, Retire(d)
    PROVE  /\ jobs' \in [Directions -> Seq(Job)] /\ \A e \in Directions : Len(jobs'[e]) <= HwDepth
           /\ doneId' \in [Directions -> Words]
           /\ \A e \in Directions : e # d => jobs'[e] = jobs[e]
           /\ \A i \in DOMAIN jobs'[d] : i + 1 \in DOMAIN jobs[d] /\ jobs'[d][i] = jobs[d][i + 1]
           /\ \A i \in DOMAIN jobs[d] : i # 1 => i - 1 \in DOMAIN jobs'[d]
           /\ \A e \in Directions : DOMAIN jobs[e] \subseteq Nat /\ DOMAIN jobs'[e] \subseteq Nat \ {0}
           /\ IdInv'
  <1>1. /\ jobs[d] \in Seq(Job) /\ jobs[d] # <<>>
        /\ jobs' = [jobs EXCEPT ![d] = Tail(jobs[d])]
        /\ doneId' = [doneId EXCEPT ![d] = Head(jobs[d]).id] /\ nextId' = nextId
    BY DEF TypeOK, Retire
  <1>2. /\ jobs'[d] = Tail(jobs[d]) /\ doneId'[d] = Head(jobs[d]).id
        /\ \A e \in Directions : e # d => jobs'[e] = jobs[e] /\ doneId'[e] = doneId[e]
    BY <1>1 DEF TypeOK
  <1>3. /\ Len(jobs[d]) \in Nat \ {0} /\ DOMAIN jobs[d] = 1 .. Len(jobs[d])
        /\ Head(jobs[d]) = jobs[d][1] /\ jobs[d][1] \in Job
        /\ jobs'[d] \in Seq(Job) /\ Len(jobs'[d]) = Len(jobs[d]) - 1
        /\ \A i \in 1 .. Len(jobs'[d]) : jobs'[d][i] = jobs[d][i + 1]
    <2>1. ASSUME NEW q \in Seq(Job), q # <<>>
          PROVE  /\ Len(q) \in Nat \ {0} /\ DOMAIN q = 1 .. Len(q)
                 /\ Head(q) = q[1] /\ q[1] \in Job
                 /\ Tail(q) \in Seq(Job) /\ Len(Tail(q)) = Len(q) - 1
                 /\ \A i \in 1 .. Len(Tail(q)) : Tail(q)[i] = q[i + 1]
      BY <2>1, HeadTailProperties
    <2>2. jobs[d] \in Seq(Job) /\ jobs[d] # <<>> /\ jobs'[d] = Tail(jobs[d])
      BY <1>1, <1>2
    <2> QED  BY <2>1, <2>2, Zenon
  <1>4. DOMAIN jobs'[d] = 1 .. (Len(jobs[d]) - 1)
    BY <1>3
  <1>5. Len(jobs[d]) <= HwDepth /\ HwDepth \in Nat /\ HwDepth < HalfIds /\ HalfIds \in Nat
    BY RuntimeAssumption, HalfIdsAssumption DEF TypeOK
  <1>6. /\ doneId[d] \in 0 .. (IdSpace - 1) /\ jobs[d][1].id \in Ids
        /\ Ahead(doneId[d], jobs[d][1].id) = 1
    <2>1. 1 \in DOMAIN jobs[d]
      BY <1>3
    <2> QED  BY <2>1, <1>3 DEF TypeOK, IdInv, Job, Words
  <1>7. jobs' \in [Directions -> Seq(Job)] /\ \A e \in Directions : Len(jobs'[e]) <= HwDepth
    BY <1>1, <1>2, <1>3, <1>5 DEF TypeOK
  <1>8. doneId' \in [Directions -> Words]
    <2>1. jobs[d][1].id \in Words
      BY <1>6, HalfIdsAssumption DEF Ids, Words, IdSpace
    <2> QED  BY <2>1, <1>1, <1>3 DEF TypeOK
  <1>9. ASSUME NEW i \in DOMAIN jobs'[d] PROVE Ahead(doneId'[d], jobs'[d][i].id) = i
    <2>1. /\ i + 1 \in DOMAIN jobs[d] /\ i + 1 > 1 /\ i \in Nat
          /\ jobs'[d][i] = jobs[d][i + 1] /\ jobs[d][i + 1] \in Job
      BY <1>1, <1>3, <1>4
    <2>2. jobs[d][i + 1].id \in Ids /\ Ahead(doneId[d], jobs[d][i + 1].id) = i + 1
      BY <2>1 DEF IdInv, Job
    <2>3. Ahead(jobs[d][1].id, jobs[d][i + 1].id) = Ahead(doneId[d], jobs[d][i + 1].id) - 1
      BY <2>1, <2>2, <1>6, AheadRetire
    <2> QED  BY <2>1, <2>2, <2>3, <1>2, <1>3
  <1>10. Ahead(doneId'[d], nextId'[d]) = Len(jobs'[d]) + 1
    <2>1. nextId[d] \in Ids /\ Ahead(doneId[d], nextId[d]) = Len(jobs[d]) + 1
      BY DEF TypeOK, IdInv
    <2>2. Ahead(jobs[d][1].id, nextId[d]) = Len(jobs[d]) + 1 - 1
      BY <2>1, <1>3, <1>6, AheadRetire
    <2> QED  BY <2>2, <1>1, <1>2, <1>3
  <1>11. IdInv'
    <2> SUFFICES ASSUME NEW e \in Directions
                 PROVE  /\ \A i \in DOMAIN jobs'[e] : Ahead(doneId'[e], jobs'[e][i].id) = i
                        /\ Ahead(doneId'[e], nextId'[e]) = Len(jobs'[e]) + 1
      BY DEF IdInv
    <2>1. CASE e # d
      BY <2>1, <1>1, <1>2 DEF IdInv
    <2>2. CASE e = d
      BY <2>2, <1>9, <1>10
    <2> QED  BY <2>1, <2>2
  <1>12. ASSUME NEW e \in Directions
         PROVE  DOMAIN jobs[e] \subseteq Nat /\ DOMAIN jobs'[e] \subseteq Nat \ {0}
    <2>1. jobs[e] \in Seq(Job) /\ jobs'[e] \in Seq(Job)
      BY <1>7 DEF TypeOK
    <2>2. DOMAIN jobs[e] = 1 .. Len(jobs[e]) /\ DOMAIN jobs'[e] = 1 .. Len(jobs'[e])
      BY <2>1
    <2>3. Len(jobs[e]) \in Nat /\ Len(jobs'[e]) \in Nat
      BY <2>1
    <2> QED  BY <2>2, <2>3
  <1> QED  BY <1>2, <1>3, <1>4, <1>7, <1>8, <1>11, <1>12

\* A job in flight never reads as completed.
LEMMA InFlightNotCompleted ==
    ASSUME TypeOK, IdInv, NEW d \in Directions, NEW i \in DOMAIN jobs[d]
    PROVE  ~Completed(doneId[d], jobs[d][i].id)
  <1>1. jobs[d] \in Seq(Job) /\ Len(jobs[d]) <= HwDepth /\ Len(jobs[d]) \in Nat
    BY DEF TypeOK
  <1>2. jobs[d][i] \in Job /\ i \in 1 .. Len(jobs[d])
    BY <1>1
  <1>3. jobs[d][i].id \in Ids /\ Ahead(doneId[d], jobs[d][i].id) = i
    BY <1>2 DEF Job, IdInv
  <1>4. Ahead(doneId[d], jobs[d][i].id) < HalfIds /\ doneId[d] \in 0 .. (IdSpace - 1)
    BY <1>1, <1>2, <1>3, RuntimeAssumption, HalfIdsAssumption DEF TypeOK, Words
  <1> QED  BY <1>3, <1>4, AheadNotCompleted

----
(* Type correctness and the parts of the invariant about the running operation. *)

LocalType ==
    /\ queued' \in [Directions -> 0 .. QueueDepth] /\ last' \in [Directions -> Words]
    /\ pending' \in BOOLEAN
    /\ pc' \in {"idle", "launch", "busy", "wait", "clear", "start", "poll", "join", "drain", "end"}
    /\ op' \in {"none", "submit", "sync", "prefetch", "copy", "gemm", "dma_wait", "linebuf",
                "linebuf_submit", "systolic_wait", "barrier", "final"}
    /\ dir' \in Directions /\ waitId' \in Words /\ left' \in 0 .. MaxPieces
    /\ ret' \in {"ok", "failed"}
    /\ engine' \in {"idle", "busy"} /\ done' \in BOOLEAN
    /\ commands' \in 0 .. MaxCommands

Control == CallInv' /\ BarrierInv' /\ ArrayInv'

\* The steps of the processor inside an operation that leave the DMA alone.
Quiet ==
    \/ SpinBusy \/ ClearDone \/ Start \/ PollDone
    \/ WaitDone \/ WaitTimeout \/ Join \/ Drain

USE DEF Directions

LEMMA QuietStep ==
    ASSUME TypeOK, CallInv, BarrierInv, ArrayInv, Quiet
    PROVE  LocalType /\ Control /\ UNCHANGED dma
  <1> USE RuntimeAssumption, HalfIdsAssumption
          DEF TypeOK, LocalType, Control, CallInv, CanSubmit, BarrierInv, ArrayInv, Inside, Return, GoTo,
              book, call, array, dma, Words, IdSpace
  <1>1. CASE SpinBusy
    BY <1>1 DEF SpinBusy
  <1>2. CASE ClearDone
    BY <1>2 DEF ClearDone
  <1>3. CASE Start
    <2>1. CASE op = "linebuf_submit"
      <3>1. pending' \in BOOLEAN /\ done' \in BOOLEAN
        BY <1>3, <2>1, Zenon DEF Start
      <3>2. LocalType /\ UNCHANGED dma
        BY <1>3, <2>1, <3>1 DEF Start
      <3>3. CallInv' /\ BarrierInv'
        BY <1>3, <2>1 DEF Start
      <3>4. ArrayInv'
        BY <1>3, <2>1 DEF Start
      <3> QED  BY <3>2, <3>3, <3>4
    <2>2. CASE op # "linebuf_submit"
      BY <1>3, <2>2 DEF Start
    <2> QED  BY <2>1, <2>2
  <1>4. CASE PollDone
    <2>1. CASE op = "gemm" /\ left > 1 /\ left' = left - 1 /\ pc' = "clear"
               /\ UNCHANGED <<op, dir, waitId, ret>>
      <3>1. pending' \in BOOLEAN /\ done' \in BOOLEAN
        BY <1>4, <2>1, Zenon DEF PollDone
      <3>2. left' \in 0 .. MaxPieces
        BY <2>1
      <3>3. LocalType /\ UNCHANGED dma
        BY <1>4, <2>1, <3>1, <3>2 DEF PollDone
      <3>4. CallInv' /\ BarrierInv'
        BY <1>4, <2>1 DEF PollDone
      <3>5. ArrayInv'
        BY <1>4, <2>1 DEF PollDone
      <3> QED  BY <3>3, <3>4, <3>5
    <2>2. CASE op \in {"gemm", "linebuf", "systolic_wait"} /\ Return("ok")
      <3>1. pending' \in BOOLEAN /\ done' \in BOOLEAN
        BY <1>4, <2>2, Zenon DEF PollDone
      <3>2. LocalType /\ UNCHANGED dma
        <4>1. /\ queued' = queued /\ last' = last /\ engine' = engine /\ commands' = commands
              /\ UNCHANGED dma
          BY <1>4 DEF PollDone
        <4>2. pc' \in {"idle", "end"} /\ op' = "none" /\ dir' = 0 /\ waitId' = 0 /\ left' = 0
              /\ ret' = "ok"
          BY <2>2
        <4> QED  BY <4>1, <4>2, <3>1
      <3>3. CallInv' /\ BarrierInv'
        BY <1>4, <2>2 DEF PollDone
      <3>4. ArrayInv'
        BY <1>4, <2>2 DEF PollDone
      <3> QED  BY <3>2, <3>3, <3>4
    <2>3. CASE op \in {"barrier", "final"} /\ GoTo("drain")
      <3>1. pending' \in BOOLEAN /\ done' \in BOOLEAN
        BY <1>4, <2>3, Zenon DEF PollDone
      <3>2. LocalType /\ UNCHANGED dma
        BY <1>4, <2>3, <3>1 DEF PollDone
      <3>3. CallInv' /\ BarrierInv'
        BY <1>4, <2>3 DEF PollDone
      <3>4. ArrayInv'
        BY <1>4, <2>3 DEF PollDone
      <3> QED  BY <3>2, <3>3, <3>4
    <2> QED  BY <1>4, <2>1, <2>2, <2>3 DEF PollDone
  <1>5. CASE WaitDone
    <2>1. CASE op \in {"sync", "dma_wait", "copy"} /\ Return("ok")
      BY <1>5, <2>1 DEF WaitDone
    <2>2. CASE op \in {"copy", "gemm"} /\ left > 1 /\ left' = left - 1 /\ pc' = "busy"
               /\ UNCHANGED <<op, dir, waitId, ret>>
      BY <1>5, <2>2 DEF WaitDone
    <2>3. CASE op = "gemm" /\ pc' = "clear" /\ (\E tiles \in 1 .. MaxPieces : left' = tiles)
               /\ UNCHANGED <<op, dir, waitId, ret>>
      BY <1>5, <2>3 DEF WaitDone
    <2>4. CASE op \in {"barrier", "final"} /\ GoTo("join")
      BY <1>5, <2>4 DEF WaitDone
    <2> QED  BY <1>5, <2>1, <2>2, <2>3, <2>4 DEF WaitDone
  <1>6. CASE WaitTimeout
    BY <1>6 DEF WaitTimeout
  <1>7. CASE Join
    <2>1. CASE queued[dir] # 0
      BY <1>7, <2>1 DEF Join, TakeLast
    <2>2. CASE queued[dir] = 0 /\ dir = 0
      BY <1>7, <2>2 DEF Join
    <2>3. CASE queued[dir] = 0 /\ dir = 1
      BY <1>7, <2>3 DEF Join, JoinsSystolic
    <2> QED  BY <2>1, <2>2, <2>3 DEF TypeOK
  <1>8. CASE Drain
    BY <1>8 DEF Drain
  <1> QED  BY <1>1, <1>2, <1>3, <1>4, <1>5, <1>6, <1>7, <1>8 DEF Quiet

\* Calls of an operation; none of them touches the DMA.
LEMMA DispatcherStep ==
    ASSUME TypeOK, CallInv, BarrierInv, ArrayInv, Dispatcher
    PROVE  LocalType /\ Control /\ UNCHANGED dma
  <1> USE RuntimeAssumption, HalfIdsAssumption
          DEF TypeOK, LocalType, Control, CallInv, CanSubmit, BarrierInv, ArrayInv, Inside, Running, Enter,
              Fail, book, call, array, dma, Words, IdSpace
  <1>1. ASSUME NEW d \in Directions, Submit(d) PROVE LocalType /\ Control /\ UNCHANGED dma
    <2>1. CASE CanSubmit(d)
      BY <1>1, <2>1 DEF Submit
    <2>2. CASE ~CanSubmit(d)
      BY <1>1, <2>2 DEF Submit
    <2> QED  BY <2>1, <2>2
  <1>2. ASSUME NEW d \in Directions, Sync(d) PROVE LocalType /\ Control /\ UNCHANGED dma
    BY <1>2 DEF Sync
  <1>3. ASSUME NEW d \in Directions, DmaWait(d) PROVE LocalType /\ Control /\ UNCHANGED dma
    <2>1. CASE queued[d] = 0
      BY <1>3, <2>1 DEF DmaWait
    <2>2. CASE queued[d] # 0
      BY <1>3, <2>2 DEF DmaWait, TakeLast
    <2> QED  BY <2>1, <2>2
  <1>4. CASE Prefetch
    BY <1>4 DEF Prefetch
  <1>5. ASSUME NEW d \in Directions, NEW n \in 1 .. MaxPieces, Copy(d, n)
        PROVE  LocalType /\ Control /\ UNCHANGED dma
    BY <1>5 DEF Copy
  <1>6. ASSUME NEW n \in 1 .. MaxPieces, Gemm(n)
        PROVE  LocalType /\ Control /\ UNCHANGED dma
    BY <1>6 DEF Gemm
  <1>7. ASSUME NEW name \in {"linebuf", "linebuf_submit"}, NEW valid \in BOOLEAN,
               Linebuf(name, valid)
        PROVE  LocalType /\ Control /\ UNCHANGED dma
    <2>1. CASE LinebufRejected(valid)
      BY <1>7, <2>1 DEF Linebuf
    <2>2. CASE ~LinebufRejected(valid)
      <3>1. ~pending
        BY <2>2 DEF LinebufRejected
      <3>2. 1 \in 0 .. MaxPieces
        OBVIOUS
      <3> QED  BY <1>7, <2>2, <3>1, <3>2 DEF Linebuf
    <2> QED  BY <2>1, <2>2
  <1>8. CASE SystolicWait
    <2>1. CASE pending
      BY <1>8, <2>1 DEF SystolicWait
    <2>2. CASE ~pending
      BY <1>8, <2>2 DEF SystolicWait
    <2> QED  BY <2>1, <2>2
  <1>9. CASE Barrier
    BY <1>9 DEF Barrier
  <1>10. CASE FinalBarrier
    BY <1>10 DEF FinalBarrier
  <1>11. CASE CommandFails
    BY <1>11 DEF CommandFails
  <1> QED  BY <1>1, <1>2, <1>3, <1>4, <1>5, <1>6, <1>7, <1>8, <1>9, <1>10, <1>11 DEF Dispatcher

\* The book still has the room it had before the launch.
LEMMA RoomToRecord ==
    ASSUME CallInv, LaunchAsync
    PROVE  Record(dir, nextId[dir]) /\ Return("ok")
  BY DEF CallInv, LaunchAsync

\* The launches, and the hardware, as far as the processor is concerned.
LEMMA LaunchLocal ==
    ASSUME TypeOK, CallInv, BarrierInv, ArrayInv, LaunchAsync \/ LaunchPrefetch \/ LaunchAndWait
    PROVE  LocalType /\ Control
  <1> USE RuntimeAssumption, HalfIdsAssumption
          DEF TypeOK, LocalType, Control, CallInv, CanSubmit, BarrierInv, ArrayInv, Inside, Return,
              book, call, array, Words, IdSpace, Ids
  <1>1. CASE LaunchAsync
    <2>1. queued[dir] < QueueDepth
      BY <1>1 DEF LaunchAsync
    <2>2. Record(dir, nextId[dir]) /\ Return("ok")
      BY <1>1, RoomToRecord
    <2>3. queued' \in [Directions -> 0 .. QueueDepth] /\ last' \in [Directions -> Words] /\ UNCHANGED pending
      BY <2>1, <2>2 DEF Record
    <2> QED  BY <1>1, <2>2, <2>3 DEF LaunchAsync, Record
  <1>2. CASE LaunchPrefetch
    BY <1>2 DEF LaunchPrefetch
  <1>3. CASE LaunchAndWait
    BY <1>3 DEF LaunchAndWait
  <1> QED  BY <1>1, <1>2, <1>3

LEMMA HardwareLocal ==
    ASSUME TypeOK, CallInv, BarrierInv, ArrayInv,
           EngineDone \/ \E d \in Directions : Retire(d)
    PROVE  LocalType /\ Control
  <1> USE DEF TypeOK, LocalType, Control, CallInv, CanSubmit, BarrierInv, ArrayInv, book, call, array, dma
  <1>1. CASE EngineDone
    BY <1>1 DEF EngineDone
  <1>2. ASSUME NEW d \in Directions, Retire(d) PROVE LocalType /\ Control
    BY <1>2 DEF Retire
  <1> QED  BY <1>1, <1>2

LEMMA TypeFromLocal ==
    ASSUME LocalType, jobs' \in [Directions -> Seq(Job)],
           \A d \in Directions : Len(jobs'[d]) <= HwDepth,
           nextId' \in [Directions -> Ids], doneId' \in [Directions -> Words]
    PROVE  TypeOK'
  BY DEF LocalType, TypeOK

----
(* The transfers in flight. *)

\* The steps that leave the DMA alone keep its parts of the invariant, if a wait that begins
\* takes over the target, one that ends has been served, and the others keep the book.
LEMMA QuietTransfers ==
    ASSUME IInv, Quiet
    PROVE  TypeOK' /\ IdInv' /\ CoveredInv' /\ SyncInv'
  <1>0. LocalType /\ Control /\ UNCHANGED dma
    BY QuietStep DEF IInv
  <1>1. jobs' = jobs /\ nextId' = nextId /\ doneId' = doneId
    BY <1>0 DEF dma
  <1>2. TypeOK'
    BY <1>0, <1>1, TypeFromLocal DEF IInv, TypeOK
  <1>3. IdInv'
    BY <1>1 DEF IInv, IdInv
  <1>4. SyncInv'
    <2> SUFFICES ASSUME ret' = "ok", NEW d \in Directions, NEW i \in DOMAIN jobs[d],
                        jobs[d][i].kind = "sync"
                 PROVE  pc' = "wait" /\ op' \in {"sync", "copy", "gemm"} /\ dir' = d
                        /\ jobs[d][i].id = waitId'
      BY <1>1 DEF SyncInv
    <2>1. ret = "ok" /\ (ret = "ok" => pc = "wait" /\ op \in {"sync", "copy", "gemm"} /\ dir = d
                                      /\ jobs[d][i].id = waitId)
      <3>1. ret = "ok"
        BY DEF IInv, CallInv, TypeOK, Quiet, SpinBusy, ClearDone, Start, PollDone, WaitDone,
               WaitTimeout, Join, Drain, Return, GoTo
      <3> QED  BY <3>1 DEF IInv, SyncInv
    <2>2. ~Completed(doneId[d], jobs[d][i].id)
      BY InFlightNotCompleted DEF IInv
    <2>3. FALSE
      BY <2>1, <2>2 DEF Quiet, SpinBusy, ClearDone, Start, PollDone, WaitDone, WaitTimeout, Join,
                        Drain, Return
    <2> QED  BY <2>3
  <1>5. CoveredInv'
    <2> SUFFICES ASSUME ret' = "ok", NEW d \in Directions, NEW i \in DOMAIN jobs[d],
                        jobs[d][i].kind = "async"
                 PROVE  /\ Joining(d)' \/ queued'[d] # 0
                        /\ \E j \in DOMAIN jobs[d] : i <= j /\ jobs[d][j].id = Target(d)'
      BY <1>1 DEF CoveredInv
    <2>1. ret = "ok"
      BY DEF IInv, CallInv, TypeOK, Quiet, SpinBusy, ClearDone, Start, PollDone, WaitDone,
             WaitTimeout, Join, Drain, Return, GoTo
    <2>2. /\ Joining(d) \/ queued[d] # 0
          /\ \E j \in DOMAIN jobs[d] : i <= j /\ jobs[d][j].id = Target(d)
      BY <2>1 DEF IInv, CoveredInv
    <2>3. ASSUME Joining(d), WaitDone PROVE FALSE
      <3>1. PICK j \in DOMAIN jobs[d] : jobs[d][j].id = waitId
        BY <2>2, <2>3 DEF Target
      <3>2. ~Completed(doneId[d], waitId)
        BY <3>1, InFlightNotCompleted DEF IInv
      <3> QED  BY <3>2, <2>3 DEF Joining, WaitDone
    <2>4. CASE Join
      <3>1. ~Joining(d)
        BY <2>4 DEF Join, Joining
      <3>2. queued[d] # 0 /\ Target(d) = last[d]
        BY <3>1, <2>2 DEF Target
      <3>3. CASE queued[dir] # 0
        <4>1. /\ waitId' = last[dir] /\ pc' = "wait" /\ op' = op /\ dir' = dir
              /\ last' = [last EXCEPT ![dir] = 0] /\ queued' = [queued EXCEPT ![dir] = 0]
              /\ op \in {"barrier", "final"}
          BY <2>4, <3>3 DEF Join, TakeLast, IInv, CallInv
        <4>2. CASE dir = d
          BY <4>1, <4>2, <2>2, <3>2 DEF Joining, Target
        <4>3. CASE dir # d
          BY <4>1, <4>3, <2>2, <3>2 DEF Joining, Target, IInv, TypeOK
        <4> QED  BY <4>2, <4>3
      <3>4. CASE queued[dir] = 0
        BY <2>4, <3>1, <3>2, <3>4, <2>2 DEF Join, GoTo, book, Joining, Target
      <3> QED  BY <3>3, <3>4
    <2>5. CASE ~Join
      <3>1. ~Joining(d)
        BY <2>1, <2>3, <2>5 DEF Quiet, Joining, SpinBusy, ClearDone, Start, PollDone, WaitTimeout,
                                Drain, Return
      <3>2. ~Joining(d)' /\ queued' = queued /\ last' = last
        BY <2>5, <3>1 DEF Quiet, Joining, SpinBusy, ClearDone, Start, PollDone, WaitDone,
                          WaitTimeout, Drain, Return, GoTo, book
      <3> QED  BY <3>1, <3>2, <2>2 DEF Target
    <2> QED  BY <2>4, <2>5
  <1> QED  BY <1>2, <1>3, <1>4, <1>5

\* A call leaves the transfers and the book alone, but a DMA_WAIT takes over the target.
LEMMA DispatcherTransfers ==
    ASSUME IInv, Dispatcher
    PROVE  TypeOK' /\ IdInv' /\ CoveredInv' /\ SyncInv'
  <1>0. LocalType /\ Control /\ UNCHANGED dma
    BY DispatcherStep DEF IInv
  <1>1. jobs' = jobs /\ nextId' = nextId /\ doneId' = doneId
    BY <1>0 DEF dma
  <1>2. TypeOK'
    BY <1>0, <1>1, TypeFromLocal DEF IInv, TypeOK
  <1>3. IdInv'
    BY <1>1 DEF IInv, IdInv
  <1>4. pc = "idle" /\ (ret' = "ok" => ret = "ok")
    BY DEF Dispatcher, Submit, Sync, DmaWait, Prefetch, Copy, Gemm, Linebuf, SystolicWait, Barrier,
           FinalBarrier, CommandFails, Inside, Running, Enter, Fail
  <1>5. SyncInv'
    BY <1>1, <1>4 DEF IInv, SyncInv
  <1>6. \/ queued' = queued /\ last' = last /\ ~(pc' = "wait")
        \/ \E d \in Directions : DmaWait(d) /\ queued[d] # 0
    BY <1>4 DEF Dispatcher, Submit, Sync, DmaWait, Prefetch, Copy, Gemm, Linebuf, SystolicWait,
           Barrier, FinalBarrier, CommandFails, Inside, Running, Enter, Fail, book
  <1>7. CoveredInv'
    <2> SUFFICES ASSUME ret' = "ok", NEW d \in Directions, NEW i \in DOMAIN jobs[d],
                        jobs[d][i].kind = "async"
                 PROVE  /\ Joining(d)' \/ queued'[d] # 0
                        /\ \E j \in DOMAIN jobs[d] : i <= j /\ jobs[d][j].id = Target(d)'
      BY <1>1 DEF CoveredInv
    <2>1. /\ ~Joining(d) /\ queued[d] # 0
          /\ \E j \in DOMAIN jobs[d] : i <= j /\ jobs[d][j].id = last[d]
      BY <1>4 DEF IInv, CoveredInv, Joining, Target
    <2>2. CASE queued' = queued /\ last' = last /\ ~(pc' = "wait")
      BY <2>1, <2>2 DEF Joining, Target
    <2>3. ASSUME NEW e \in Directions, DmaWait(e), queued[e] # 0
          PROVE  /\ Joining(d)' \/ queued'[d] # 0
                 /\ \E j \in DOMAIN jobs[d] : i <= j /\ jobs[d][j].id = Target(d)'
      <3>1. /\ waitId' = last[e] /\ pc' = "wait" /\ op' = "dma_wait" /\ dir' = e
            /\ last' = [last EXCEPT ![e] = 0] /\ queued' = [queued EXCEPT ![e] = 0]
        BY <2>3 DEF DmaWait, TakeLast
      <3>2. CASE e = d
        BY <3>1, <3>2, <2>1 DEF Joining, Target
      <3>3. CASE e # d
        BY <3>1, <3>3, <2>1 DEF Joining, Target, IInv, TypeOK
      <3> QED  BY <3>2, <3>3
    <2> QED  BY <2>2, <2>3, <1>6
  <1> QED  BY <1>2, <1>3, <1>5, <1>7

\* A launch: an asynchronous transfer becomes the target of its direction, a blocking one the
\* transfer waited for; neither lies behind the target of another wait.
LEMMA LaunchTransfers ==
    ASSUME IInv, LaunchAsync \/ LaunchPrefetch \/ LaunchAndWait
    PROVE  TypeOK' /\ IdInv' /\ CoveredInv' /\ SyncInv'
  <1>0. LocalType /\ Control
    BY LaunchLocal DEF IInv
  <1>1. dir \in Directions /\ pc = "launch" /\ ret = "ok" /\ ret' = "ok"
    BY DEF IInv, TypeOK, CallInv, LaunchAsync, LaunchPrefetch, LaunchAndWait, Return
  <1>2. PICK kind \in Kinds :
           /\ Launch(dir, kind)
           /\ kind = "async" => LaunchAsync
           /\ kind = "sync" => LaunchAndWait
           /\ kind = "prefetch" => LaunchPrefetch
    BY DEF Kinds, LaunchAsync, LaunchPrefetch, LaunchAndWait
  <1> DEFINE n == Len(jobs[dir])
  <1>3. /\ jobs' \in [Directions -> Seq(Job)] /\ \A e \in Directions : Len(jobs'[e]) <= HwDepth
        /\ nextId' \in [Directions -> Ids] /\ doneId' = doneId
        /\ \A e \in Directions : e # dir => jobs'[e] = jobs[e]
        /\ n \in Nat /\ DOMAIN jobs[dir] = 1 .. n /\ DOMAIN jobs'[dir] = 1 .. (n + 1)
        /\ \A i \in 1 .. n : jobs'[dir][i] = jobs[dir][i]
        /\ jobs'[dir][n + 1] = [id |-> nextId[dir], kind |-> kind]
        /\ IdInv'
    BY <1>1, <1>2, LaunchStep DEF IInv
  <1> HIDE DEF n
  <1>4. TypeOK'
    BY <1>0, <1>3, TypeFromLocal DEF IInv, TypeOK
  <1>5. \A d \in Directions : ~Joining(d) /\ Target(d) = last[d]
    BY <1>1 DEF Joining, Target
  <1>6. \A d \in Directions : ~Joining(d)' /\ Target(d)' = last'[d]
    BY <1>1 DEF Joining, Target, IInv, CallInv, LaunchAsync, LaunchPrefetch, LaunchAndWait, Return
  <1>7. \A d \in Directions : \A i \in DOMAIN jobs[d] : jobs[d][i].kind # "sync"
    BY <1>1 DEF IInv, SyncInv
  <1>8. SyncInv'
    <2> SUFFICES ASSUME NEW d \in Directions, NEW i \in DOMAIN jobs'[d], jobs'[d][i].kind = "sync"
                 PROVE  pc' = "wait" /\ op' \in {"sync", "copy", "gemm"} /\ dir' = d
                        /\ jobs'[d][i].id = waitId'
      BY DEF SyncInv
    <2>1. d = dir /\ i = n + 1
      <3>1. ~(i \in DOMAIN jobs[d] /\ jobs'[d][i] = jobs[d][i])
        BY <1>7
      <3>2. d = dir
        BY <1>3, <3>1
      <3>3. i \in 1 .. (n + 1) /\ i \notin 1 .. n
        BY <1>3, <3>1, <3>2
      <3> QED  BY <1>3, <3>2, <3>3
    <2>2. kind = "sync" /\ jobs'[d][i].id = nextId[dir]
      BY <2>1, <1>3
    <2> QED  BY <2>1, <2>2, <1>2 DEF LaunchAndWait
  <1>9. CoveredInv'
    <2> SUFFICES ASSUME NEW d \in Directions, NEW i \in DOMAIN jobs'[d], jobs'[d][i].kind = "async"
                 PROVE  /\ queued'[d] # 0
                        /\ \E j \in DOMAIN jobs'[d] : i <= j /\ jobs'[d][j].id = last'[d]
      BY <1>6 DEF CoveredInv
    <2>1. CASE d = dir /\ kind = "async"
      <3>1. queued'[d] # 0 /\ last'[d] = nextId[dir]
        BY <2>1, <1>1, <1>2, RoomToRecord DEF Record, IInv, TypeOK
      <3>2. n + 1 \in DOMAIN jobs'[d] /\ jobs'[d][n + 1].id = nextId[dir] /\ i <= n + 1
        BY <2>1, <1>3
      <3> QED  BY <3>1, <3>2
    <2>2. CASE ~(d = dir /\ kind = "async")
      <3>1. queued'[d] = queued[d] /\ last'[d] = last[d]
        BY <2>2, <1>2 DEF Kinds, LaunchAsync, LaunchPrefetch, LaunchAndWait, Record, book, IInv, TypeOK
      <3>2. i \in DOMAIN jobs[d] /\ jobs[d][i].kind = "async"
        BY <2>2, <1>3
      <3>3. queued[d] # 0 /\ \E j \in DOMAIN jobs[d] : i <= j /\ jobs[d][j].id = last[d]
        BY <3>2, <1>1, <1>5 DEF IInv, CoveredInv
      <3>4. \A j \in DOMAIN jobs[d] : j \in DOMAIN jobs'[d] /\ jobs'[d][j] = jobs[d][j]
        BY <1>3
      <3> QED  BY <3>1, <3>3, <3>4
    <2> QED  BY <2>1, <2>2
  <1> QED  BY <1>3, <1>4, <1>8, <1>9

\* The hardware: a direction that retires a job keeps the order of the others.
LEMMA HardwareTransfers ==
    ASSUME IInv, EngineDone \/ \E d \in Directions : Retire(d)
    PROVE  TypeOK' /\ IdInv' /\ CoveredInv' /\ SyncInv'
  <1>0. LocalType /\ Control
    BY HardwareLocal DEF IInv
  <1>1. CASE EngineDone
    <2>1. /\ UNCHANGED <<queued, last, pc, op, dir, waitId, ret, jobs, nextId, doneId>>
      BY <1>1 DEF EngineDone, book, call, dma
    <2>2. TypeOK'
      BY <1>0, <2>1, TypeFromLocal DEF IInv, TypeOK
    <2>3. IdInv'
      BY <2>1 DEF IInv, IdInv
    <2>4. CoveredInv' /\ SyncInv'
      BY <2>1 DEF IInv, CoveredInv, SyncInv, Joining, Target
    <2> QED  BY <2>2, <2>3, <2>4
  <1>2. ASSUME NEW e \in Directions, Retire(e)
        PROVE  TypeOK' /\ IdInv' /\ CoveredInv' /\ SyncInv'
    <2>1. /\ jobs' \in [Directions -> Seq(Job)] /\ \A d \in Directions : Len(jobs'[d]) <= HwDepth
          /\ doneId' \in [Directions -> Words]
          /\ \A d \in Directions : d # e => jobs'[d] = jobs[d]
          /\ \A i \in DOMAIN jobs'[e] : i + 1 \in DOMAIN jobs[e] /\ jobs'[e][i] = jobs[e][i + 1]
          /\ \A i \in DOMAIN jobs[e] : i # 1 => i - 1 \in DOMAIN jobs'[e]
          /\ \A d \in Directions : DOMAIN jobs[d] \subseteq Nat /\ DOMAIN jobs'[d] \subseteq Nat \ {0}
          /\ IdInv'
      BY <1>2, RetireStep DEF IInv
    <2>2. UNCHANGED <<queued, last, pc, op, dir, waitId, ret, nextId>>
      BY <1>2 DEF Retire, book, call
    <2>3. TypeOK'
      BY <1>0, <2>1, <2>2, TypeFromLocal DEF IInv, TypeOK
    <2>4. ASSUME NEW d \in Directions, NEW i \in DOMAIN jobs'[d]
          PROVE  \E k \in DOMAIN jobs[d] :
                    /\ jobs'[d][i] = jobs[d][k]
                    /\ \A j \in DOMAIN jobs[d] : k <= j =>
                         \E m \in DOMAIN jobs'[d] : i <= m /\ jobs'[d][m] = jobs[d][j]
      <3>1. CASE d # e
        <4>1. jobs'[d] = jobs[d] /\ i \in DOMAIN jobs[d]
          BY <2>1, <3>1
        <4> QED  BY <4>1
      <3>2. CASE d = e
        <4>1. i + 1 \in DOMAIN jobs[d] /\ jobs'[d][i] = jobs[d][i + 1] /\ i \in Nat /\ i # 0
          BY <2>1, <3>2
        <4>2. ASSUME NEW j \in DOMAIN jobs[d], i + 1 <= j
              PROVE  \E m \in DOMAIN jobs'[d] : i <= m /\ jobs'[d][m] = jobs[d][j]
          <5>1. j \in Nat /\ j # 1
            BY <2>1, <4>1, <4>2
          <5>2. j - 1 \in DOMAIN jobs'[d]
            BY <2>1, <3>2, <5>1
          <5>3. jobs'[d][j - 1] = jobs[d][(j - 1) + 1] /\ (j - 1) + 1 = j /\ i <= j - 1
            BY <2>1, <3>2, <4>1, <4>2, <5>1, <5>2
          <5> QED  BY <5>2, <5>3
        <4> QED  BY <4>1, <4>2
      <3> QED  BY <3>1, <3>2
    <2>5. SyncInv'
      BY <2>2, <2>4 DEF IInv, SyncInv
    <2>6. CoveredInv'
      <3> SUFFICES ASSUME ret = "ok", NEW d \in Directions, NEW i \in DOMAIN jobs'[d],
                          jobs'[d][i].kind = "async"
                   PROVE  /\ Joining(d) \/ queued[d] # 0
                          /\ \E m \in DOMAIN jobs'[d] : i <= m /\ jobs'[d][m].id = Target(d)
        BY <2>2 DEF CoveredInv, Joining, Target
      <3>1. PICK k \in DOMAIN jobs[d] :
               /\ jobs'[d][i] = jobs[d][k]
               /\ \A j \in DOMAIN jobs[d] : k <= j =>
                    \E m \in DOMAIN jobs'[d] : i <= m /\ jobs'[d][m] = jobs[d][j]
        BY <2>4
      <3>2. /\ Joining(d) \/ queued[d] # 0
            /\ \E j \in DOMAIN jobs[d] : k <= j /\ jobs[d][j].id = Target(d)
        BY <3>1 DEF IInv, CoveredInv
      <3> QED  BY <3>1, <3>2
    <2> QED  BY <2>1, <2>3, <2>5, <2>6
  <1> QED  BY <1>1, <1>2

----
(* The theorems. *)

LEMMA InitInv == Init => IInv
  <1> SUFFICES ASSUME Init PROVE IInv
    OBVIOUS
  <1> USE RuntimeAssumption, HalfIdsAssumption
  <1>1. PICK i \in StartIds : /\ doneId = [d \in Directions |-> i]
                             /\ nextId = [d \in Directions |-> NextTransferId(i)]
    BY DEF Init
  <1>2. i \in Words /\ NextTransferId(i) \in Ids /\ Ahead(i, NextTransferId(i)) = 1
    BY DEF Words, NextTransferId, Ids, IdSpace, Ahead
  <1>3. jobs = [d \in Directions |-> <<>>] /\ \A d \in Directions : jobs[d] = <<>>
    BY DEF Init
  <1>4. jobs \in [Directions -> Seq(Job)] /\ \A d \in Directions : Len(jobs[d]) <= HwDepth
    BY <1>3
  <1>5. TypeOK
    <2>1. /\ queued = [d \in Directions |-> 0] /\ last = [d \in Directions |-> 0]
          /\ queued \in [Directions -> 0 .. QueueDepth] /\ last \in [Directions -> Words]
      BY DEF Init, Words, IdSpace
    <2>2. nextId \in [Directions -> Ids] /\ doneId \in [Directions -> Words]
      BY <1>1, <1>2
    <2>3. pending \in BOOLEAN /\ done \in BOOLEAN
      BY Zenon DEF Init
    <2>4. /\ pc = "idle" /\ op = "none" /\ dir = 0 /\ waitId = 0 /\ left = 0 /\ ret = "ok"
          /\ engine = "idle" /\ commands = 0 /\ waitId \in Words
      BY DEF Init, Words, IdSpace
    <2> QED  BY <1>4, <2>1, <2>2, <2>3, <2>4 DEF TypeOK
  <1>6. IdInv
    BY <1>1, <1>2, <1>3 DEF IdInv
  <1>7. CoveredInv /\ SyncInv
    BY <1>3 DEF CoveredInv, SyncInv
  <1>8. CallInv /\ BarrierInv /\ ArrayInv
    BY DEF Init, CallInv, BarrierInv, ArrayInv
  <1> QED  BY <1>5, <1>6, <1>7, <1>8 DEF IInv

LEMMA NextInv == IInv /\ [Next]_vars => IInv'
  <1> SUFFICES ASSUME IInv, [Next]_vars PROVE IInv'
    OBVIOUS
  <1>1. CASE Quiet
    BY <1>1, QuietStep, QuietTransfers DEF IInv, Control
  <1>2. CASE LaunchAsync \/ LaunchPrefetch \/ LaunchAndWait
    BY <1>2, LaunchLocal, LaunchTransfers DEF IInv, Control
  <1>3. CASE Dispatcher
    BY <1>3, DispatcherStep, DispatcherTransfers DEF IInv, Control
  <1>4. CASE EngineDone \/ \E d \in Directions : Retire(d)
    BY <1>4, HardwareLocal, HardwareTransfers DEF IInv, Control
  <1>5. CASE UNCHANGED vars
    <2>1. UNCHANGED <<queued, last, pending, pc, op, dir, waitId, left, ret, jobs, nextId, doneId,
                      engine, done, commands>>
      BY <1>5 DEF vars, book, call, dma, array
    <2>2. TypeOK'
      BY <2>1 DEF IInv, TypeOK
    <2>3. IdInv' /\ CallInv' /\ BarrierInv' /\ ArrayInv'
      BY <2>1 DEF IInv, IdInv, CallInv, BarrierInv, ArrayInv, CanSubmit
    <2>4. CoveredInv' /\ SyncInv'
      BY <2>1 DEF IInv, CoveredInv, SyncInv, Joining, Target
    <2> QED  BY <2>2, <2>3, <2>4 DEF IInv
  <1> QED  BY <1>1, <1>2, <1>3, <1>4, <1>5 DEF Next, Processor, Quiet, Hardware, Terminated

LEMMA Invariance == Spec => []IInv
  BY InitInv, NextInv, PTL DEF Spec

\* Type correctness of the runtime's book-keeping and of the hardware it drives.
THEOREM TypeCorrect == Spec => []TypeOK
  <1>1. IInv => TypeOK
    BY DEF IInv
  <1> QED  BY <1>1, Invariance, PTL

\* A pending line-buffer job can always be joined, and none is left behind.
THEOREM JobsJoinable == Spec => []PendingJoinable
  <1>1. IInv => PendingJoinable
    BY DEF IInv, ArrayInv, PendingJoinable
  <1> QED  BY <1>1, Invariance, PTL

\* START is never written to a working engine.
THEOREM StartsTaken == Spec => StartTaken
  <1>1. IInv /\ [Next]_vars => [pc = "start" /\ pc' # "start" => engine = "idle"]_vars
    BY DEF IInv, ArrayInv
  <1> QED  BY <1>1, Invariance, PTL DEF Spec, StartTaken

\* A DMA_WAIT that succeeds has joined every asynchronous transfer of its direction.
THEOREM WaitsJoin == Spec => WaitJoins
  <1>1. ASSUME IInv, [Next]_vars, op = "dma_wait", pc' = "idle", ret' = "ok"
        PROVE  Async(dir) = {}
    <2>1. pc = "wait" /\ ret = "ok" /\ dir \in Directions
      BY <1>1 DEF IInv, CallInv, TypeOK
    <2>2. WaitDone
      BY <1>1, <2>1 DEF Next, Processor, Dispatcher, Hardware, Terminated, vars, call, Submit, Sync,
            DmaWait, Prefetch, Copy, Gemm, Linebuf, SystolicWait, Barrier, FinalBarrier,
            CommandFails, Inside, Running, LaunchAsync, LaunchPrefetch, LaunchAndWait, SpinBusy, ClearDone,
            Start, PollDone, WaitTimeout, Join, Drain, EngineDone, Retire, Return
    <2>3. ASSUME NEW i \in DOMAIN jobs[dir], jobs[dir][i].kind = "async" PROVE FALSE
      <3>1. PICK j \in DOMAIN jobs[dir] : jobs[dir][j].id = Target(dir)
        BY <2>1, <2>3, <1>1 DEF IInv, CoveredInv
      <3>2. Target(dir) = waitId
        BY <2>1, <1>1 DEF Target, Joining
      <3>3. ~Completed(doneId[dir], jobs[dir][j].id)
        BY <2>1, <1>1, InFlightNotCompleted DEF IInv
      <3> QED  BY <2>2, <3>1, <3>2, <3>3 DEF WaitDone
    <2> QED  BY <2>3 DEF Async
  <1>2. IInv /\ [Next]_vars =>
          [op = "dma_wait" /\ pc' = "idle" /\ ret' = "ok" => Async(dir) = {}]_vars
    BY <1>1
  <1> QED  BY <1>2, Invariance, PTL DEF Spec, WaitJoins

\* The step that ends a barrier well.
LEMMA BarrierStep ==
    ASSUME IInv, [Next]_vars, BarrierSucceeds
    PROVE  Quiescent'
  <1>1. pc \in {"join", "wait", "poll", "drain"} /\ dir \in Directions
    BY DEF BarrierSucceeds, IInv, CallInv, TypeOK
  <1>2. Drain
    BY <1>1 DEF BarrierSucceeds, Next, Processor, Dispatcher, Hardware, Terminated, vars,
          call, Submit, Sync,
          DmaWait, Prefetch, Copy, Gemm, Linebuf, SystolicWait, Barrier, FinalBarrier,
          CommandFails, Inside, Running, LaunchAsync, LaunchPrefetch, LaunchAndWait, SpinBusy, ClearDone,
          Start, PollDone, WaitDone, WaitTimeout, Join, EngineDone, Retire, Return, GoTo
  <1>3. pc = "drain" /\ ret = "ok" /\ UNCHANGED <<queued, last, pending, jobs, engine, done>>
    BY <1>2 DEF Drain, Return, BarrierSucceeds, book, dma, array
  <1>4. \A d \in Directions : queued[d] = 0
    BY <1>3 DEF IInv, BarrierInv, BarrierSucceeds
  <1>5. ~pending /\ engine = "idle" /\ ~done
    BY <1>3 DEF IInv, ArrayInv
  <1>6. ASSUME NEW d \in Directions, NEW i \in DOMAIN jobs[d] PROVE jobs[d][i].kind = "prefetch"
    <2>1. jobs[d][i].kind \in Kinds
      <3>1. jobs[d] \in Seq(Job)
        BY DEF IInv, TypeOK
      <3>2. jobs[d][i] \in Job
        BY <3>1
      <3> QED  BY <3>2 DEF Job
    <2>2. jobs[d][i].kind # "sync"
      BY <1>3 DEF IInv, SyncInv
    <2>3. jobs[d][i].kind # "async"
      BY <1>3, <1>4 DEF IInv, CoveredInv, Joining
    <2> QED  BY <2>1, <2>2, <2>3 DEF Kinds
  <1> QED  BY <1>3, <1>4, <1>5, <1>6 DEF Quiescent

\* A barrier that succeeds leaves nothing in flight but what the prefetcher launched.
THEOREM BarriersQuiesce == Spec => BarrierQuiesces
  <1>1. IInv /\ [Next]_vars => [BarrierSucceeds => Quiescent']_vars
    BY BarrierStep
  <1> QED  BY <1>1, Invariance, PTL DEF Spec, BarrierQuiesces

----
USE DEF Directions, Slots

----
(* A session is a run of AsyncRuntime. *)

LEMMA StepsOfRuntime == [SessionNext]_allVars => [Next]_vars
  <1> USE DEF Next, Dispatcher
  <1>1. ASSUME Firmware PROVE Processor \/ Dispatcher \/ UNCHANGED vars
    <2>1. ASSUME LoadRead PROVE Dispatcher
      BY <2>1 DEF LoadRead
    <2>2. ASSUME InitFill \/ \E s \in Slots : Refill(s) PROVE Dispatcher
      BY <2>2 DEF InitFill, Refill
    <2>3. ASSUME Command PROVE Dispatcher
      BY <2>3 DEF Command
    <2>4. ASSUME CallBarrier PROVE Dispatcher
      BY <2>4 DEF CallBarrier
    <2>5. ASSUME FinishTimeout \/ \E s \in Slots : ReadTimeout(s) PROVE Dispatcher \/ UNCHANGED vars
      BY <2>5 DEF FinishTimeout, ReadTimeout
    <2>6. ASSUME Fill \/ Operation PROVE Processor
      BY <2>6 DEF Fill, Operation, Processor
    <2>7. ASSUME \/ WriteRegister \/ Booted \/ LoadOk \/ LoadBad \/ InitFilled
                 \/ EndDispatch \/ FinishJoin \/ Report \/ Halt \/ \E s \in Slots : ReadJoin(s)
          PROVE  UNCHANGED vars
      BY <2>7 DEF WriteRegister, Booted, LoadOk, LoadBad, Loaded, InitFilled, EndDispatch, FinishJoin,
                  Report, Halt, ReadJoin
    <2> QED  BY <1>1, <2>1, <2>2, <2>3, <2>4, <2>5, <2>6, <2>7 DEF Firmware
  <1>2. ASSUME Cluster PROVE Hardware
    BY <1>2 DEF Cluster
  <1>3. ASSUME Halted \/ UNCHANGED allVars PROVE UNCHANGED vars
    BY <1>3 DEF Halted, allVars
  <1> QED  BY <1>1, <1>2, <1>3 DEF SessionNext

\* A session runs the operations as AsyncRuntime says, so its theorems hold of a session.
THEOREM SessionIsRun == SessionSpec => Spec
  BY StepsOfRuntime, PTL DEF SessionSpec, Spec, SessionInit

----
(* What a step of AsyncRuntime does to the running operation and to the prefetcher's jobs. *)

LEMMA ProcessorCall ==
    ASSUME IInv, Processor
    PROVE  /\ pc \notin {"idle", "end"} /\ op # "none" /\ op' \in {op, "none"}
           /\ ret' = "ok" => ret = "ok"
           /\ pc' = "end" => op = "final"
           /\ op = "prefetch" /\ pc = "launch" => LaunchPrefetch /\ op' = "none"
  <1> USE DEF IInv, CallInv, TypeOK
  <1>1. CASE LaunchAsync \/ LaunchPrefetch \/ LaunchAndWait
    BY <1>1 DEF LaunchAsync, LaunchPrefetch, LaunchAndWait, Return
  <1>2. CASE SpinBusy \/ ClearDone \/ Start
    BY <1>2 DEF SpinBusy, ClearDone, Start, GoTo, Return
  <1>3. CASE PollDone
    BY <1>3 DEF PollDone, GoTo, Return
  <1>4. CASE WaitDone
    BY <1>4 DEF WaitDone, GoTo, Return
  <1>5. CASE WaitTimeout
    BY <1>5 DEF WaitTimeout, Return
  <1>6. CASE Join
    BY <1>6 DEF Join, GoTo, TakeLast
  <1>7. CASE Drain
    BY <1>7 DEF Drain, Return
  <1> QED  BY <1>1, <1>2, <1>3, <1>4, <1>5, <1>6, <1>7 DEF Processor

LEMMA PrefetchedBefore ==
    ASSUME IInv, [Next]_vars, ~LaunchPrefetch,
           NEW d \in Directions, NEW i \in DOMAIN jobs'[d], jobs'[d][i].kind = "prefetch"
    PROVE  \E k \in DOMAIN jobs[d] : jobs[d][k] = jobs'[d][i]
  <1>1. CASE UNCHANGED dma
    BY <1>1 DEF dma
  <1>2. CASE LaunchAsync \/ LaunchAndWait
    <2>1. PICK kind \in {"async", "sync"} : Launch(dir, kind)
      BY <1>2 DEF LaunchAsync, LaunchAndWait
    <2>2. kind \in Kinds /\ dir \in Directions /\ TypeOK /\ IdInv
      BY <2>1 DEF Kinds, IInv, TypeOK
    <2> DEFINE n == Len(jobs[dir])
    <2>3. /\ \A e \in Directions : e # dir => jobs'[e] = jobs[e]
          /\ n \in Nat /\ DOMAIN jobs[dir] = 1 .. n /\ DOMAIN jobs'[dir] = 1 .. (n + 1)
          /\ \A k \in 1 .. n : jobs'[dir][k] = jobs[dir][k]
          /\ jobs'[dir][n + 1] = [id |-> nextId[dir], kind |-> kind]
      BY <2>1, <2>2, LaunchStep
    <2> HIDE DEF n
    <2>4. CASE d = dir
      <3>1. jobs'[dir][n + 1].kind # "prefetch"
        BY <2>3, <2>1
      <3>2. i \in 1 .. n
        BY <2>3, <2>4, <3>1
      <3> QED  BY <2>3, <2>4, <3>2
    <2>5. CASE d # dir
      BY <2>3, <2>5
    <2> QED  BY <2>4, <2>5
  <1>3. ASSUME NEW e \in Directions, Retire(e)
        PROVE  \E k \in DOMAIN jobs[d] : jobs[d][k] = jobs'[d][i]
    <2>1. /\ \A c \in Directions : c # e => jobs'[c] = jobs[c]
          /\ \A k \in DOMAIN jobs'[e] : k + 1 \in DOMAIN jobs[e] /\ jobs'[e][k] = jobs[e][k + 1]
      BY <1>3, RetireStep DEF IInv
    <2>2. CASE d = e
      BY <2>1, <2>2
    <2>3. CASE d # e
      BY <2>1, <2>3
    <2> QED  BY <2>2, <2>3
  <1>4. Quiet \/ Dispatcher => UNCHANGED dma
    BY QuietStep, DispatcherStep DEF IInv
  <1>5. EngineDone \/ UNCHANGED vars => UNCHANGED dma
    BY DEF EngineDone, vars
  <1> QED  BY <1>1, <1>2, <1>3, <1>4, <1>5 DEF Next, Processor, Quiet, Hardware, Terminated

----
(* The steps of a session, by what they leave alone. *)

\* Register writes and the progress between two operations.
Progress ==
    \/ WriteRegister \/ Booted \/ LoadOk \/ LoadBad \/ InitFilled \/ EndDispatch \/ Report \/ Halt
    \/ Halted \/ UNCHANGED allVars

Joins == FinishJoin \/ FinishTimeout \/ \E s \in Slots : ReadJoin(s)

\* An operation is called, or one fails that has no state here.
Calls ==
    \/ LoadRead \/ InitFill \/ Command \/ CallBarrier
    \/ \E s \in Slots : ReadTimeout(s) \/ Refill(s)

LEMMA StepKinds ==
    [SessionNext]_allVars => Progress \/ Joins \/ Calls \/ Fill \/ Operation \/ Cluster
  BY DEF SessionNext, Firmware, Progress, Joins, Calls

LEMMA ProgressLeaves ==
    ASSUME Progress
    PROVE  UNCHANGED <<vars, slot>>
  BY DEF Progress, WriteRegister, Booted, LoadOk, LoadBad, Loaded, InitFilled, EndDispatch, Report,
         Halt, Halted, allVars, session

\* What a call does to the running operation.
LEMMA CallStep ==
    ASSUME IInv, Calls
    PROVE  /\ Dispatcher /\ UNCHANGED <<dma, slot, regs, writes>> /\ pc = "idle" /\ op = "none"
           /\ ret' = "ok" => ret = "ok"
           /\ pc' \notin {"end"}
           /\ op' = "final" => CallBarrier
           /\ op' = "prefetch" => /\ InitFill \/ \E s \in Slots : Refill(s)
                                  /\ pc' = "launch" /\ dir' = 0
           /\ phase' = phase
           /\ \/ index' = index
              \/ phase = "dispatch" /\ index' \in Slots
           /\ phase \in Loading \cup {"prefetch", "dispatch", "barrier"}
           /\ phase = "barrier" => CallBarrier
  <1> USE DEF IInv, CallInv, TypeOK
  <1>1. CASE LoadRead
    BY <1>1 DEF LoadRead, Copy, Running, Enter, Dispatcher, dma, Loading
  <1>2. CASE InitFill
    BY <1>2 DEF InitFill, Prefetch, Running, Enter, Dispatcher, dma, Ready, session
  <1>3. CASE Command
    <2>1. CASE \E d \in Directions : Submit(d) \/ Sync(d) \/ DmaWait(d)
      BY <1>3, <2>1 DEF Command, Submit, Sync, DmaWait, TakeLast, Running, Enter, Fail, Dispatcher, dma,
                        Ready, session
    <2>2. CASE \E d \in Directions, n \in 1 .. MaxPieces : Copy(d, n)
      BY <1>3, <2>2 DEF Command, Copy, Running, Enter, Dispatcher, dma, Ready, session
    <2>3. CASE \E n \in 1 .. MaxPieces : Gemm(n)
      BY <1>3, <2>3 DEF Command, Gemm, Running, Enter, Dispatcher, dma, Ready, session
    <2>4. CASE \E name \in {"linebuf", "linebuf_submit"}, valid \in BOOLEAN : Linebuf(name, valid)
      BY <1>3, <2>4 DEF Command, Linebuf, Running, Enter, Fail, Dispatcher, dma, Ready, session
    <2>5. CASE SystolicWait \/ Barrier \/ CommandFails
      BY <1>3, <2>5 DEF Command, SystolicWait, Barrier, CommandFails, Running, Enter, Fail, Dispatcher,
                        dma, Ready, session
    <2> QED  BY <1>3, <2>1, <2>2, <2>3, <2>4, <2>5 DEF Command
  <1>4. CASE CallBarrier
    BY <1>4 DEF CallBarrier, FinalBarrier, Enter, Dispatcher, dma, Ready, session
  <1>5. ASSUME NEW s \in Slots, ReadTimeout(s)
        PROVE  /\ CommandFails /\ UNCHANGED session /\ phase = "dispatch"
    BY <1>5 DEF ReadTimeout, Reading, Ready
  <1>6. CASE CommandFails /\ UNCHANGED session /\ phase = "dispatch"
    BY <1>6 DEF CommandFails, Fail, Dispatcher, dma, session
  <1>7. ASSUME NEW s \in Slots, Refill(s)
        PROVE  /\ Prefetch /\ UNCHANGED <<phase, slot, regs, writes>> /\ phase = "dispatch"
               /\ index' \in Slots
    BY <1>7 DEF Refill, Reading, Ready
  <1>8. CASE /\ Prefetch /\ UNCHANGED <<phase, slot, regs, writes>> /\ phase = "dispatch"
             /\ index' \in Slots /\ \E s \in Slots : Refill(s)
    BY <1>8 DEF Prefetch, Running, Enter, Dispatcher, dma
  <1> QED  BY <1>1, <1>2, <1>3, <1>4, <1>5, <1>6, <1>7, <1>8 DEF Calls

----
(* The prefetcher's slots. *)

Remembered ==
    \A d \in Directions : \A i \in DOMAIN jobs[d] : jobs[d][i].kind = "prefetch" =>
        d = 0 /\ \E s \in Slots : slot[s] = jobs[d][i].id

\* A job in flight has an id of its own, never that of a slot without a job or of a retired one.
LEMMA IdInFlight ==
    ASSUME IInv, NEW d \in Directions, NEW i \in DOMAIN jobs[d]
    PROVE  jobs[d][i].id # 0 /\ ~Completed(doneId[d], jobs[d][i].id)
  <1>1. jobs[d] \in Seq(Job)
    BY DEF IInv, TypeOK
  <1>2. jobs[d][i] \in Job
    BY <1>1
  <1>3. jobs[d][i].id # 0
    BY <1>2 DEF Job, Ids
  <1> QED  BY <1>3, InFlightNotCompleted DEF IInv

LEMMA RememberedStays ==
    ASSUME IInv, Remembered, [Next]_vars, ~LaunchPrefetch, UNCHANGED slot
    PROVE  Remembered'
  <1> SUFFICES ASSUME NEW d \in Directions, NEW i \in DOMAIN jobs'[d], jobs'[d][i].kind = "prefetch"
               PROVE  d = 0 /\ \E s \in Slots : slot[s] = jobs'[d][i].id
    BY DEF Remembered
  <1>1. PICK k \in DOMAIN jobs[d] : jobs[d][k] = jobs'[d][i]
    BY PrefetchedBefore
  <1> QED  BY <1>1 DEF Remembered

LEMMA ProgressSlots ==
    ASSUME SessionInv, Progress
    PROVE  SlotInv'
  <1>1. UNCHANGED <<vars, slot>> /\ SlotInv
    BY ProgressLeaves DEF SessionInv
  <1>2. UNCHANGED <<jobs, op, pc, dir, ret, slot>>
    BY <1>1 DEF vars, call, dma
  <1>3. /\ index' \in Slots
        /\ op = "prefetch" => index' = index
        /\ phase' = "barrier" => phase = "barrier"
        /\ phase' = "finish" /\ index' = 1 => phase = "finish" /\ index = 1
    BY DEF Progress, WriteRegister, Booted, LoadOk, LoadBad, Loaded, InitFilled, EndDispatch, Report,
           Halt, Halted, allVars, session, SessionInv, SlotInv, IInv, CallInv, Ready
  <1> QED  BY <1>1, <1>2, <1>3 DEF SlotInv

LEMMA JoinsSlots ==
    ASSUME SessionInv, Joins
    PROVE  SlotInv' /\ UNCHANGED <<pc, op, jobs, pending, engine, regs, writes>>
           /\ (ret' = "ok" => ret = "ok") /\ pc = "idle" /\ op = "none"
           /\ phase \in {"finish", "dispatch"} /\ phase' \in {phase, "barrier"}
  <1> USE DEF SessionInv, SlotInv, PhaseInv, Ready
  <1>1. ASSUME NEW s \in Slots, NEW new,
               slot' = [slot EXCEPT ![s] = 0], slot[s] = 0 \/ Completed(doneId[0], slot[s]),
               UNCHANGED jobs
        PROVE  Remembered' /\ slot' \in [Slots -> Words] /\ slot'[s] = 0
               /\ \A r \in Slots : r # s => slot'[r] = slot[r]
    <2>1. 0 \in Words
      BY HalfIdsAssumption DEF Words, IdSpace
    <2>2. slot' \in [Slots -> Words] /\ slot'[s] = 0 /\ \A r \in Slots : r # s => slot'[r] = slot[r]
      BY <1>1, <2>1
    <2>3. ASSUME NEW d \in Directions, NEW i \in DOMAIN jobs[d], jobs[d][i].kind = "prefetch"
          PROVE  d = 0 /\ \E r \in Slots : slot'[r] = jobs[d][i].id
      <3>1. d = 0
        BY <2>3
      <3>2. PICK r \in Slots : slot[r] = jobs[d][i].id
        BY <2>3
      <3>3. r # s
        BY <3>1, <3>2, <1>1, IdInFlight
      <3> QED  BY <2>2, <3>1, <3>2, <3>3
    <2>4. jobs' = jobs
      BY <1>1
    <2>5. Remembered'
      BY <2>3, <2>4 DEF Remembered
    <2> QED  BY <2>2, <2>5
  <1>2. ASSUME NEW s \in Slots, ReadJoin(s)
        PROVE  /\ slot' = [slot EXCEPT ![s] = 0] /\ Completed(doneId[0], slot[s])
               /\ UNCHANGED <<vars, phase, index, regs, writes>> /\ phase = "dispatch" /\ pc = "idle"
    BY <1>2 DEF ReadJoin, Reading
  <1>3. CASE \E s \in Slots : ReadJoin(s)
    BY <1>1, <1>2, <1>3 DEF vars, call, dma, book, array, Remembered, IInv, CallInv
  <1>4. CASE FinishJoin
    <2>1. /\ slot' = [slot EXCEPT ![index] = 0]
          /\ slot[index] = 0 \/ Completed(doneId[0], slot[index])
          /\ UNCHANGED <<vars, regs, writes>> /\ phase = "finish" /\ pc = "idle" /\ index \in Slots
          /\ NextSlot
      BY <1>4 DEF FinishJoin
    <2>2. UNCHANGED <<pc, op, dir, ret, jobs, pending, engine>>
      BY <2>1 DEF vars, call, dma, book, array
    <2>3. /\ Remembered' /\ slot' \in [Slots -> Words] /\ slot'[index] = 0
          /\ \A r \in Slots : r # index => slot'[r] = slot[r]
      BY <1>1, <2>1, <2>2
    <2> QED  BY <2>1, <2>2, <2>3 DEF NextSlot, Remembered, IInv, CallInv
  <1>5. CASE FinishTimeout
    <2>1. /\ UNCHANGED <<slot, regs, writes>> /\ phase = "finish" /\ pc = "idle" /\ index \in Slots
          /\ NextSlot /\ ret' # "ok"
          /\ UNCHANGED <<pc, op, dir, jobs, pending, engine>>
      BY <1>5 DEF FinishTimeout, CommandFails, Fail, vars, call, dma, book, array
    <2> QED  BY <2>1 DEF NextSlot, IInv, CallInv
  <1> QED  BY <1>3, <1>4, <1>5 DEF Joins

LEMMA CallsSlots ==
    ASSUME SessionInv, Calls
    PROVE  SlotInv'
  <1> USE DEF SessionInv, SlotInv
  <1>1. /\ UNCHANGED <<jobs, slot>> /\ (ret' = "ok" => ret = "ok") /\ phase' = phase
        /\ index' \in Slots /\ (phase = "finish" => index' = index)
    BY CallStep DEF dma
  <1>2. ASSUME op' = "prefetch" PROVE pc' = "launch" /\ dir' = 0 /\ slot[index'] = 0
    <2>1. pc' = "launch" /\ dir' = 0 /\ (InitFill \/ \E s \in Slots : Refill(s))
      BY <1>2, CallStep
    <2> QED  BY <2>1 DEF InitFill, Refill, session
  <1> QED  BY <1>1, <1>2

\* The new job has the id its slot takes over.
LEMMA FillSlots ==
    ASSUME SessionInv, Fill
    PROVE  SlotInv'
  <1> USE DEF SessionInv, SlotInv
  <1>1. /\ LaunchPrefetch /\ slot' = [slot EXCEPT ![index] = nextId[0]] /\ index' = index
        /\ phase' = phase /\ phase \in {"prefetch", "dispatch"} /\ pc = "launch" /\ op = "prefetch"
        /\ dir = 0 /\ slot[index] = 0
    BY DEF Fill
  <1>2. Launch(0, "prefetch") /\ op' = "none"
    BY <1>1 DEF LaunchPrefetch, Return
  <1>3. TypeOK /\ IdInv /\ "prefetch" \in Kinds /\ nextId[0] \in Words
    BY HalfIdsAssumption DEF IInv, Kinds, TypeOK, Ids, Words, IdSpace
  <1>4. slot' \in [Slots -> Words] /\ slot'[index] = nextId[0]
        /\ \A s \in Slots : s # index => slot'[s] = slot[s]
    BY <1>1, <1>3
  <1> DEFINE n == Len(jobs[0])
  <1>5. /\ \A e \in Directions : e # 0 => jobs'[e] = jobs[e]
        /\ n \in Nat /\ DOMAIN jobs[0] = 1 .. n /\ DOMAIN jobs'[0] = 1 .. (n + 1)
        /\ \A k \in 1 .. n : jobs'[0][k] = jobs[0][k]
        /\ jobs'[0][n + 1] = [id |-> nextId[0], kind |-> "prefetch"]
    BY <1>2, <1>3, LaunchStep
  <1> HIDE DEF n
  <1>6. ASSUME NEW d \in Directions, NEW i \in DOMAIN jobs'[d], jobs'[d][i].kind = "prefetch"
        PROVE  d = 0 /\ \E s \in Slots : slot'[s] = jobs'[d][i].id
    <2>1. CASE i \in DOMAIN jobs[d] /\ jobs'[d][i] = jobs[d][i]
      <3>1. d = 0 /\ \E s \in Slots : slot[s] = jobs[d][i].id
        BY <2>1, <1>6
      <3>2. jobs[d][i].id # 0
        BY <2>1, IdInFlight
      <3> QED  BY <1>1, <1>4, <2>1, <3>1, <3>2
    <2>2. CASE d = 0 /\ i = n + 1
      BY <1>1, <1>4, <1>5, <2>2
    <2> QED  BY <1>5, <1>6, <2>1, <2>2
  <1> QED  BY <1>1, <1>2, <1>4, <1>6

LEMMA RuntimeSlots ==
    ASSUME SessionInv, Operation \/ Cluster
    PROVE  SlotInv'
  <1> USE DEF SessionInv, SlotInv
  <1>1. UNCHANGED <<phase, slot, index>> /\ [Next]_vars /\ ~LaunchPrefetch
    <2>1. Cluster => ~LaunchPrefetch
      BY DEF Cluster, Hardware, EngineDone, Retire, LaunchPrefetch, Inside, Return, call, IInv, CallInv, TypeOK
    <2> QED  BY <2>1 DEF Operation, Cluster, session, Next
  <1>2. Remembered'
    BY <1>1, RememberedStays DEF Remembered
  <1>3. /\ ret' = "ok" => ret = "ok"
        /\ op' = "prefetch" => op = "prefetch" /\ UNCHANGED <<pc, dir>>
    <2>1. CASE Operation
      BY <2>1, ProcessorCall DEF Operation
    <2>2. CASE Cluster
      BY <2>2 DEF Cluster, Hardware, EngineDone, Retire, call
    <2> QED  BY <2>1, <2>2
  <1> QED  BY <1>1, <1>2, <1>3 DEF Remembered

LEMMA SlotStep == SessionInv /\ [SessionNext]_allVars => SlotInv'
  BY StepKinds, ProgressSlots, JoinsSlots, CallsSlots, FillSlots, RuntimeSlots

----
(* The phases. *)

LEMMA PhaseStep == SessionInv /\ [SessionNext]_allVars => PhaseInv'
  <1> SUFFICES ASSUME SessionInv, [SessionNext]_allVars PROVE PhaseInv'
    OBVIOUS
  <1> USE DEF SessionInv, PhaseInv
  <1>1. CASE Progress
    <2>1. UNCHANGED <<op, pc>>
      BY <1>1, ProgressLeaves DEF vars, call
    <2>2. pc = "idle" <=> op = "none" /\ pc # "end"
      BY DEF IInv, CallInv
    <2> QED
      BY <1>1, <2>1, <2>2 DEF Progress, WriteRegister, Booted, LoadOk, LoadBad, Loaded, InitFilled, EndDispatch,
         Report, Halt, Halted, allVars, session, Ready, Loading
  <1>2. CASE Joins
    <2>1. UNCHANGED <<op, pc>> /\ pc = "idle" /\ op = "none" /\ phase' \in {phase, "barrier"}
          /\ phase \in {"finish", "dispatch"}
      BY <1>2, JoinsSlots
    <2> QED  BY <2>1
  <1>3. CASE Calls
    <2>1. /\ phase' = phase /\ pc = "idle" /\ pc' # "end"
          /\ phase \in Loading \cup {"prefetch", "dispatch", "barrier"}
      BY <1>3, CallStep
    <2>2. op' = "prefetch" => phase \in {"prefetch", "dispatch"}
      BY <1>3, CallStep DEF InitFill, Refill, Reading, Ready
    <2>3. op' = "final" => phase = "barrier"
      BY <1>3, CallStep DEF CallBarrier, Ready
    <2>4. phase = "barrier" => op' = "final"
      BY <1>3, CallStep DEF CallBarrier, FinalBarrier, Enter
    <2> QED  BY <2>1, <2>2, <2>3, <2>4 DEF Loading
  <1>4. CASE Fill
    <2>1. op' = "none" /\ pc' = "idle" /\ phase' = phase /\ phase \in {"prefetch", "dispatch"}
      BY <1>4 DEF Fill, LaunchPrefetch, Return
    <2> QED  BY <2>1
  <1>5. CASE Operation
    <2>1. Processor /\ phase' = phase
      BY <1>5 DEF Operation, session
    <2>2. pc \notin {"idle", "end"} /\ op \in {op} /\ op' \in {op, "none"} /\ (pc' = "end" => op = "final")
      BY <2>1, ProcessorCall
    <2> QED  BY <2>1, <2>2
  <1>6. CASE Cluster
    BY <1>6 DEF Cluster, Hardware, EngineDone, Retire, call, session
  <1> QED  BY <1>1, <1>2, <1>3, <1>4, <1>5, <1>6, StepKinds

----
(* The end of a dispatch. *)

\* A final barrier that succeeds: everything the commands started has been joined by it, and
\* everything the prefetcher started by nai_stream_prefetch_finish.
LEMMA EndReached ==
    ASSUME SessionInv, [Next]_vars, BarrierSucceeds, Quiescent', Operation, pc' = "end"
    PROVE  EndInv'
  <1>1. op = "final" /\ phase = "barrier" /\ ret = "ok" /\ UNCHANGED slot
    BY ProcessorCall DEF SessionInv, PhaseInv, Operation, session, BarrierSucceeds
  <1>2. \A s \in Slots : slot[s] = 0
    BY <1>1 DEF SessionInv, SlotInv
  <1>3. ASSUME NEW d \in Directions PROVE jobs'[d] = <<>>
    <2>1. IInv'
      BY NextInv DEF SessionInv
    <2>2. jobs'[d] \in Seq(Job)
      BY <2>1 DEF IInv, TypeOK
    <2>3. ASSUME NEW i \in DOMAIN jobs'[d] PROVE FALSE
      <3>1. jobs'[d][i].kind = "prefetch" /\ ~LaunchPrefetch
        BY <2>3 DEF Quiescent, Operation
      <3>2. PICK k \in DOMAIN jobs[d] : jobs[d][k] = jobs'[d][i]
        BY <3>1, PrefetchedBefore DEF SessionInv
      <3>3. \E s \in Slots : slot[s] = jobs[d][k].id
        BY <3>1, <3>2 DEF SessionInv, SlotInv
      <3>4. jobs[d][k].id # 0
        BY <3>2, IdInFlight DEF SessionInv
      <3> QED  BY <1>2, <3>3, <3>4
    <2>4. Len(jobs'[d]) \in Nat /\ DOMAIN jobs'[d] = 1 .. Len(jobs'[d])
      BY <2>2
    <2>5. ASSUME Len(jobs'[d]) # 0 PROVE FALSE
      <3>1. 1 \in DOMAIN jobs'[d]
        BY <2>4, <2>5
      <3> QED  BY <2>3, <3>1
    <2> QED  BY <2>2, <2>5, EmptySeq
  <1>4. engine' = "idle" /\ ~pending'
    BY DEF Quiescent
  <1> QED  BY <1>3, <1>4 DEF EndInv, Working

LEMMA EndStep == SessionInv /\ [SessionNext]_allVars => EndInv'
  <1> SUFFICES ASSUME SessionInv, [SessionNext]_allVars, pc' = "end", ret' = "ok" PROVE EndInv'
    BY DEF EndInv
  <1>1. CASE Progress
    <2>1. UNCHANGED <<pc, ret, engine, jobs, pending>>
      BY <1>1, ProgressLeaves DEF vars, call, array, dma, book
    <2> QED  BY <2>1 DEF SessionInv, EndInv, Working
  <1>2. ~Joins /\ ~Calls
    BY JoinsSlots, CallStep DEF SessionInv
  <1>3. ~Fill
    BY DEF Fill, LaunchPrefetch, Return
  <1>4. CASE Operation
    <2>1. Processor /\ op = "final"
      BY <1>4, ProcessorCall DEF Operation, SessionInv
    <2>2. BarrierSucceeds /\ [Next]_vars
      BY <2>1 DEF BarrierSucceeds, Next
    <2> QED  BY <1>4, <2>2, BarrierStep, EndReached DEF SessionInv
  <1>5. CASE Cluster
    <2>1. pc = "end" /\ ret = "ok"
      BY <1>5 DEF Cluster, Hardware, EngineDone, Retire, call
    <2> QED  BY <1>5, <2>1 DEF SessionInv, EndInv, Working, Cluster, Hardware, EngineDone, Retire
  <1> QED  BY <1>1, <1>2, <1>3, <1>4, <1>5, StepKinds

----
(* The report. *)

LEMMA FiveEntries ==
    ASSUME NEW a \in Entry, NEW b \in Entry, NEW c \in Entry, NEW d \in Entry, NEW e \in Entry
    PROVE  /\ <<a, b, c, d, e>> \in Seq(Entry) /\ Len(<<a, b, c, d, e>>) = 5
           /\ <<a, b, c, d, e>>[1] = a /\ <<a, b, c, d, e>>[2] = b /\ <<a, b, c, d, e>>[3] = c
           /\ <<a, b, c, d, e>>[4] = d /\ <<a, b, c, d, e>>[5] = e
  OBVIOUS

LEMMA WriteFields ==
    ASSUME NEW r \in Registers, NEW v \in Values
    PROVE  Write(r, v) \in Entry /\ Write(r, v).register = r /\ Write(r, v).value = v
  BY DEF Write, Entry

LEMMA SuccessShape ==
    /\ Success \in Seq(Entry) /\ Len(Success) = 5
    /\ Success[1] = Write("count", "completed") /\ Success[2] = Write("code", "none")
    /\ Success[3] = Write("pointer", "zero")
    /\ Success[4] = Write("status", "pass") /\ Success[5] = Write("notify", "pass")
  <1>1. /\ Write("count", "completed") \in Entry /\ Write("code", "none") \in Entry
        /\ Write("pointer", "zero") \in Entry
        /\ Write("status", "pass") \in Entry /\ Write("notify", "pass") \in Entry
    BY WriteFields DEF Registers, Values
  <1> QED  BY <1>1, FiveEntries, Zenon DEF Success

LEMMA FailureShape ==
    ASSUME NEW code \in Values, NEW count \in Values
    PROVE  LET F == Failure(code, count) IN
           /\ F \in Seq(Entry) /\ Len(F) = 5
           /\ F[1] = Write("code", code) /\ F[2] = Write("pointer", "cause")
           /\ F[3] = Write("count", count)
           /\ F[4] = Write("status", "fail") /\ F[5] = Write("notify", "fail")
  <1>1. /\ Write("code", code) \in Entry /\ Write("pointer", "cause") \in Entry
        /\ Write("count", count) \in Entry
        /\ Write("status", "fail") \in Entry /\ Write("notify", "fail") \in Entry
    BY WriteFields DEF Registers, Values
  <1> QED  BY <1>1, FiveEntries, Zenon DEF Failure

LEMMA NotSuccess ==
    ASSUME NEW code \in Values, NEW count \in Values
    PROVE  Failure(code, count) # Success
  <1>1. Failure(code, count)[4] = Write("status", "fail") /\ Success[4] = Write("status", "pass")
    BY FailureShape, SuccessShape, Zenon
  <1>2. Write("status", "fail") # Write("status", "pass")
    BY DEF Write
  <1> QED  BY <1>1, <1>2

LEMMA ReportKinds ==
    ASSUME NEW W \in Reports
    PROVE  \/ W = Success
           \/ \E code \in Loading \cup {"dispatch"}, count \in {"zero", "completed"} :
                 /\ code \in Values /\ count \in Values /\ W = Failure(code, count)
                 /\ count = "zero" <=> code # "dispatch"
  BY DEF Reports, Loading, Values

\* The two final writes of every report are the status and its notification.
LEMMA ReportShape ==
    ASSUME NEW W \in Reports
    PROVE  /\ W \in Seq(Entry) /\ Len(W) = 5
           /\ W[4].register = "status" /\ W[5].register = "notify"
           /\ W[4].value \in {"pass", "fail"} /\ W[5].value = W[4].value
           /\ W[4].value = "pass" <=> W = Success
           /\ \A i, j \in 1 .. 5 : W[i].register = W[j].register => i = j
  <1>1. CASE W = Success
    BY <1>1, SuccessShape, WriteFields DEF Registers, Values
  <1>2. CASE \E code \in Loading \cup {"dispatch"}, count \in {"zero", "completed"} :
                 code \in Values /\ count \in Values /\ W = Failure(code, count)
    <2>1. PICK code \in Values, count \in Values : W = Failure(code, count)
      BY <1>2
    <2>2. /\ W \in Seq(Entry) /\ Len(W) = 5
          /\ W[1].register = "code" /\ W[2].register = "pointer" /\ W[3].register = "count"
          /\ W[4].register = "status" /\ W[5].register = "notify"
          /\ W[4].value = "fail" /\ W[5].value = "fail"
      <3>1. /\ W \in Seq(Entry) /\ Len(W) = 5
            /\ W[1] = Write("code", code) /\ W[2] = Write("pointer", "cause")
            /\ W[3] = Write("count", count)
            /\ W[4] = Write("status", "fail") /\ W[5] = Write("notify", "fail")
        BY <2>1, FailureShape, Zenon
      <3>2. /\ Write("code", code).register = "code" /\ Write("pointer", "cause").register = "pointer"
            /\ Write("count", count).register = "count"
            /\ Write("status", "fail").register = "status" /\ Write("status", "fail").value = "fail"
            /\ Write("notify", "fail").register = "notify" /\ Write("notify", "fail").value = "fail"
        BY WriteFields DEF Registers, Values
      <3> QED  BY <3>1, <3>2
    <2>3. ASSUME NEW i \in 1 .. 5, NEW j \in 1 .. 5, W[i].register = W[j].register PROVE i = j
      BY <2>2, <2>3
    <2>4. W # Success
      BY <2>1, NotSuccess
    <2> QED  BY <2>2, <2>3, <2>4
  <1> QED  BY <1>1, <1>2, ReportKinds

LEMMA WriteStep ==
    ASSUME SessionInv, WriteRegister
    PROVE  ReportInv'
  <1>0. ASSUME NEW q \in Seq(Entry), q # <<>>
        PROVE  /\ Len(q) \in Nat \ {0} /\ DOMAIN q = 1 .. Len(q)
               /\ Head(q) = q[1] /\ q[1] \in Entry
               /\ Tail(q) \in Seq(Entry) /\ Len(Tail(q)) = Len(q) - 1
               /\ DOMAIN Tail(q) = 1 .. (Len(q) - 1)
               /\ \A i \in 1 .. (Len(q) - 1) : Tail(q)[i] = q[i + 1]
    BY <1>0, HeadTailProperties
  <1>1. /\ writes \in Seq(Entry) /\ writes # <<>> /\ regs \in [Registers -> Values]
        /\ regs' = [regs EXCEPT ![Head(writes).register] = Head(writes).value]
        /\ writes' = Tail(writes) /\ UNCHANGED <<phase, pc, ret>>
    BY DEF SessionInv, ReportInv, WriteRegister, vars, call
  <1>2. /\ Len(writes) \in Nat \ {0} /\ DOMAIN writes = 1 .. Len(writes) /\ Head(writes) = writes[1]
        /\ writes[1] \in Entry
        /\ writes' \in Seq(Entry) /\ Len(writes') = Len(writes) - 1
        /\ DOMAIN writes' = 1 .. (Len(writes) - 1)
        /\ \A i \in 1 .. (Len(writes) - 1) : writes'[i] = writes[i + 1]
    BY <1>0, <1>1
  <1>3. /\ regs' \in [Registers -> Values] /\ writes[1].register \in Registers
        /\ regs'[writes[1].register] = writes[1].value
        /\ \A r \in Registers : r # writes[1].register => regs'[r] = regs[r]
    BY <1>1, <1>2 DEF Entry
  <1>4. CASE phase \notin {"report", "halt"}
    <2>1. regs'.status \notin {"pass", "fail"} /\ regs'.notify = "none"
      BY <1>2, <1>3, <1>4 DEF SessionInv, ReportInv, Registers
    <2>2. ASSUME NEW i \in DOMAIN writes'
          PROVE  writes'[i].register # "notify" /\ writes'[i].value \notin {"pass", "fail"}
      <3>1. i + 1 \in DOMAIN writes /\ writes'[i] = writes[i + 1]
        BY <1>2
      <3> QED  BY <3>1, <1>4 DEF SessionInv, ReportInv
    <2> QED  BY <1>1, <1>2, <1>3, <1>4, <2>1, <2>2 DEF ReportInv, Entry
  <1>5. CASE phase \in {"report", "halt"}
    <2>1. PICK W \in Reports : Reporting(W)
      BY <1>5 DEF SessionInv, ReportInv
    <2> DEFINE k == 5 - Len(writes)
    <2>2. k \in 0 .. 4 /\ Len(writes) = 5 - k /\ 5 - Len(writes') = k + 1
      BY <1>2, <2>1 DEF Reporting
    <2>3. /\ writes[1] = W[k + 1]
          /\ \A i \in 1 .. k : regs[W[i].register] = W[i].value
          /\ k < 4 => regs.status \notin {"pass", "fail"}
          /\ regs.notify = "none"
          /\ W = Success => pc = "end" /\ ret = "ok"
          /\ \A i \in 1 .. (5 - k) : writes[i] = W[k + i]
      <3>1. 1 \in DOMAIN writes /\ k + 1 \in 1 .. 5
        BY <1>2, <2>2
      <3> QED  BY <1>2, <2>1, <2>2, <3>1 DEF Reporting
    <2> HIDE DEF k
    <2>4. \A i \in 1 .. (k + 1) : regs'[W[i].register] = W[i].value
      <3>1. ASSUME NEW i \in 1 .. 5 PROVE W[i].register \in Registers
        <4>1. W \in Seq(Entry) /\ Len(W) = 5
          BY ReportShape
        <4>2. W[i] \in Entry
          BY <4>1, ElementOfSeq
        <4> QED  BY <4>2 DEF Entry
      <3>2. writes[1].value = W[k + 1].value /\ writes[1].register = W[k + 1].register
        BY <2>3
      <3>3. ASSUME NEW i \in 1 .. (k + 1) PROVE regs'[W[i].register] = W[i].value
        <4>1. CASE i = k + 1
          BY <1>3, <3>2, <4>1
        <4>2. CASE i # k + 1
          <5>1. i \in 1 .. k /\ i \in 1 .. 5 /\ k + 1 \in 1 .. 5
            BY <2>2, <4>2
          <5>2. W[i].register # W[k + 1].register
            BY <5>1, <4>2, ReportShape
          <5> QED  BY <1>3, <2>3, <3>1, <3>2, <5>1, <5>2
        <4> QED  BY <4>1, <4>2
      <3> QED  BY <3>3
    <2>5. \A i \in DOMAIN writes' : writes'[i] = W[(k + 1) + i]
      BY <1>2, <2>2, <2>3
    <2>6. k + 1 < 4 => regs'.status \notin {"pass", "fail"}
      BY <1>3, <2>2, <2>3, ReportShape DEF Registers
    <2>7. k + 1 < 5 => regs'.notify = "none"
      BY <1>3, <2>2, <2>3, ReportShape DEF Registers
    <2>8. Reporting(W)'
      BY <1>1, <2>2, <2>3, <2>4, <2>5, <2>6, <2>7 DEF Reporting
    <2> QED  BY <1>1, <1>2, <1>3, <1>5, <2>8 DEF ReportInv, Entry
  <1> QED  BY <1>4, <1>5

\* The writes that open a phase are none of the report's.
LEMMA OpeningWrites ==
    /\ \A v \in {"loading", "running"} : <<Write("status", v)>> \in Seq(Entry)
    /\ <<>> \in Seq(Entry)
    /\ Clearing \in Seq(Entry)
    /\ \A i \in DOMAIN Clearing : Clearing[i].register # "notify" /\ Clearing[i].value \notin {"pass", "fail"}
    /\ \A i \in DOMAIN <<Write("status", "running")>> :
          /\ <<Write("status", "running")>>[i].register # "notify"
          /\ <<Write("status", "running")>>[i].value \notin {"pass", "fail"}
  BY DEF Clearing, Write, Entry, Registers, Values

\* A report begins with none of its writes done.
LEMMA ReportBegins ==
    ASSUME NEW W \in Reports, writes' = W, UNCHANGED regs, regs \in [Registers -> Values],
           phase' = "report", regs.status \notin {"pass", "fail"}, regs.notify = "none",
           W = Success => pc' = "end" /\ ret' = "ok"
    PROVE  ReportInv'
  <1>1. writes' \in Seq(Entry) /\ Len(writes') = 5
    BY ReportShape
  <1>2. Reporting(W)'
    BY <1>1 DEF Reporting
  <1> QED  BY <1>1, <1>2 DEF ReportInv

LEMMA ReportStep == SessionInv /\ [SessionNext]_allVars => ReportInv'
  <1> SUFFICES ASSUME SessionInv, [SessionNext]_allVars PROVE ReportInv'
    OBVIOUS
  <1> USE DEF SessionInv
  <1>1. CASE WriteRegister
    BY <1>1, WriteStep
  <1>2. CASE \/ UNCHANGED <<phase, regs, writes, pc, ret>>
             \/ UNCHANGED <<regs, writes>> /\ {phase, phase'} \cap {"report", "halt"} = {}
    BY <1>2 DEF ReportInv, Reporting
  <1>3. CASE Booted \/ InitFilled \/ EndDispatch
    BY <1>2, <1>3 DEF Booted, InitFilled, EndDispatch, Ready
  <1>4. CASE LoadOk
    <2>1. phase \in Loading /\ phase' \in {"model", "bindings", "prefetch"} /\ UNCHANGED regs
          /\ (writes' = writes \/ writes' = <<Write("status", "running")>>)
      BY <1>4 DEF LoadOk, Loaded
    <2> QED  BY <2>1, OpeningWrites DEF ReportInv, Loading
  <1>5. CASE LoadBad
    <2>1. phase \in Loading /\ phase' = "report" /\ UNCHANGED regs /\ writes' = Failure(phase, "zero")
          /\ UNCHANGED vars
      BY <1>5 DEF LoadBad, Loaded
    <2>2. writes' \in Reports /\ writes' # Success
      <3>1. phase \in Values /\ "zero" \in Values
        BY <2>1 DEF Loading, Values
      <3> QED  BY <2>1, <3>1, NotSuccess DEF Reports
    <2> QED  BY <2>1, <2>2, ReportBegins DEF ReportInv, Loading
  <1>6. CASE Report
    <2>1. /\ phase = "barrier" /\ phase' = "report" /\ pc = "end" /\ UNCHANGED <<regs, pc, ret>>
          /\ writes' = IF ret = "ok" THEN Success ELSE Failure("dispatch", "completed")
      BY <1>6 DEF Report, Ready, vars, call
    <2>2. writes' \in Reports
      BY <2>1 DEF Reports
    <2>3. Failure("dispatch", "completed") # Success
      BY NotSuccess DEF Values
    <2>4. writes' = Success => ret' = "ok"
      BY <2>1, <2>3
    <2> QED  BY <2>1, <2>2, <2>4, ReportBegins DEF ReportInv
  <1>7. CASE Halt
    BY <1>7 DEF Halt, Ready, ReportInv, Reporting, vars, call
  <1>8. CASE Halted \/ UNCHANGED allVars
    BY <1>2, <1>8 DEF Halted, allVars, session, vars, call
  <1>9. CASE Joins
    <2>1. /\ UNCHANGED <<regs, writes>>
          /\ phase \in {"finish", "dispatch"} /\ phase' \in {phase, "barrier"}
      BY <1>9, JoinsSlots
    <2> QED  BY <1>2, <2>1
  <1>10. CASE Calls
    <2>1. /\ UNCHANGED <<regs, writes>> /\ phase' = phase
          /\ phase \in Loading \cup {"prefetch", "dispatch", "barrier"}
      BY <1>10, CallStep
    <2> QED  BY <1>2, <2>1 DEF Loading
  <1>11. CASE Fill
    BY <1>2, <1>11 DEF Fill
  <1>12. CASE Operation
    <2>1. UNCHANGED <<phase, regs, writes>> /\ pc \notin {"idle", "end"}
      BY <1>12, ProcessorCall DEF Operation, session
    <2> QED  BY <1>2, <2>1 DEF PhaseInv
  <1>13. CASE Cluster
    BY <1>2, <1>13 DEF Cluster, Hardware, EngineDone, Retire, call, session
  <1> QED  BY <1>1, <1>3, <1>4, <1>5, <1>6, <1>7, <1>8, <1>9, <1>10, <1>11, <1>12, <1>13, StepKinds
           DEF Progress

----
(* The theorems. *)

LEMMA InitSession == SessionInit => SessionInv
  <1> SUFFICES ASSUME SessionInit PROVE SessionInv
    OBVIOUS
  <1>1. IInv /\ Init
    BY InitInv DEF SessionInit
  <1>2. /\ pc = "idle" /\ op = "none" /\ jobs = [d \in Directions |-> <<>>] /\ phase = "boot" /\ index = 0
        /\ slot = [s \in Slots |-> 0] /\ writes = Clearing
    BY <1>1 DEF Init, SessionInit
  <1>3. /\ regs = [status |-> "idle", code |-> "none", pointer |-> "zero", count |-> "zero",
                   notify |-> "none"]
        /\ regs \in [Registers -> Values]
    BY DEF SessionInit, Registers, Values
  <1>4. SlotInv
    <2>1. 0 \in Words
      BY HalfIdsAssumption DEF Words, IdSpace
    <2> QED  BY <1>2, <2>1 DEF SlotInv
  <1>5. PhaseInv /\ EndInv
    BY <1>2 DEF PhaseInv, EndInv
  <1>6. ReportInv
    BY <1>2, <1>3, OpeningWrites DEF ReportInv
  <1>7. SessionTypeOK
    BY <1>1, <1>4, <1>6 DEF SessionInit, SessionTypeOK, IInv, SlotInv, ReportInv, Phases
  <1> QED  BY <1>1, <1>4, <1>5, <1>6, <1>7 DEF SessionInv

LEMMA TypeStep == SessionInv /\ [SessionNext]_allVars => SessionTypeOK'
  <1> SUFFICES ASSUME SessionInv, [SessionNext]_allVars PROVE SessionTypeOK'
    OBVIOUS
  <1>1. IInv' /\ SlotInv' /\ ReportInv'
    BY StepsOfRuntime, NextInv, SlotStep, ReportStep DEF SessionInv
  <1>2. phase' \in Phases
    <2>1. CASE phase' = phase
      BY <2>1 DEF SessionInv, SessionTypeOK
    <2>2. phase' = phase \/ phase' \in Phases
      BY StepKinds, JoinsSlots, CallStep
         DEF Progress, WriteRegister, Booted, LoadOk, LoadBad, InitFilled, EndDispatch, Report, Halt,
             Halted, allVars, session, Fill, Operation, Cluster, SessionInv, Phases, Loading
    <2> QED  BY <2>1, <2>2
  <1>3. fetched' \in BOOLEAN
    <2>1. CASE fetched' = fetched
      BY <2>1 DEF SessionInv, SessionTypeOK
    <2>2. fetched' = fetched \/ fetched' = FALSE \/ fetched' = TRUE
      BY DEF SessionNext, Firmware, WriteRegister, Booted, LoadRead, LoadOk, LoadBad, InitFill,
             InitFilled, Fill, ReadJoin, ReadTimeout, Refill, Command, EndDispatch, FinishJoin,
             FinishTimeout, CallBarrier, Report, Halt, Operation, Cluster, Halted, allVars, session
    <2> QED  BY <2>1, <2>2
  <1> QED  BY <1>1, <1>2, <1>3 DEF SessionTypeOK, IInv, SlotInv, ReportInv

LEMMA NextSession == SessionInv /\ [SessionNext]_allVars => SessionInv'
  BY StepsOfRuntime, NextInv, TypeStep, SlotStep, PhaseStep, EndStep, ReportStep DEF SessionInv

LEMMA SessionInvariance == SessionSpec => []SessionInv
  BY InitSession, NextSession, PTL DEF SessionSpec

\* A status that is there has been written by the report that the other registers belong to.
LEMMA StatusFromReport ==
    ASSUME SessionInv, regs.status \in {"pass", "fail"}
    PROVE  \E W \in Reports :
              /\ Reporting(W) /\ regs.status = W[4].value
              /\ \A i \in 1 .. 4 : regs[W[i].register] = W[i].value
              /\ regs.notify # "none" => regs.notify = W[5].value
  <1>1. PICK W \in Reports : Reporting(W)
    BY DEF SessionInv, ReportInv
  <1>2. 5 - Len(writes) \in {4, 5}
    BY <1>1 DEF Reporting
  <1>3. \A i \in 1 .. 4 : regs[W[i].register] = W[i].value
    BY <1>1, <1>2 DEF Reporting
  <1>4. regs.notify # "none" => regs.notify = W[5].value
    BY <1>1, <1>2, ReportShape DEF Reporting
  <1> QED  BY <1>1, <1>3, <1>4, ReportShape

LEMMA PassImplies == SessionInv => PassMeansQuiescent
  BY StatusFromReport, ReportShape DEF SessionInv, EndInv, Reporting, PassMeansQuiescent

\* Type correctness of a session.
THEOREM SessionTypeCorrect == SessionSpec => []SessionTypeOK
  <1>1. SessionInv => SessionTypeOK
    BY DEF SessionInv
  <1> QED  BY <1>1, SessionInvariance, PTL

\* When the host reads PASS nothing of the job is under way.
THEOREM PassesQuiescent == SessionSpec => []PassMeansQuiescent
  BY PassImplies, SessionInvariance, PTL

\* The host finds the outcome whole whenever it looks.
THEOREM WholeReports == SessionSpec => []ReportsWhole
  <1>1. ASSUME SessionInv PROVE ReportsWhole
    <2>1. ASSUME regs.status \in {"pass", "fail"}
          PROVE  /\ regs.status = "pass" =>
                       regs.code = "none" /\ regs.pointer = "zero" /\ regs.count = "completed"
                 /\ regs.status = "fail" => /\ regs.code # "none" /\ regs.pointer = "cause"
                                            /\ regs.count = "zero" <=> regs.code # "dispatch"
                 /\ regs.notify # "none" => regs.notify = regs.status
      <3>1. PICK W \in Reports :
              /\ Reporting(W) /\ regs.status = W[4].value
              /\ \A i \in 1 .. 4 : regs[W[i].register] = W[i].value
              /\ regs.notify # "none" => regs.notify = W[5].value
        BY <1>1, <2>1, StatusFromReport
      <3>2. regs.notify # "none" => regs.notify = regs.status
        BY <3>1, ReportShape
      <3>3. CASE W = Success
        <4>1. regs.count = "completed" /\ regs.code = "none" /\ regs.pointer = "zero"
          BY <3>1, <3>3, SuccessShape, WriteFields DEF Registers, Values
        <4>2. regs.status = "pass"
          BY <3>1, <3>3, ReportShape
        <4> QED  BY <3>2, <4>1, <4>2
      <3>4. CASE W # Success
        <4>1. PICK code \in Loading \cup {"dispatch"}, count \in {"zero", "completed"} :
                 /\ code \in Values /\ count \in Values /\ W = Failure(code, count)
                 /\ count = "zero" <=> code # "dispatch"
          BY <3>4, ReportKinds
        <4>2. /\ W[1] = Write("code", code) /\ W[2] = Write("pointer", "cause")
              /\ W[3] = Write("count", count)
          BY <4>1, FailureShape, Zenon
        <4>3. /\ Write("code", code).register = "code" /\ Write("code", code).value = code
              /\ Write("pointer", "cause").register = "pointer"
              /\ Write("pointer", "cause").value = "cause"
              /\ Write("count", count).register = "count" /\ Write("count", count).value = count
          BY <4>1, WriteFields DEF Registers, Values
        <4>4. regs.code = code /\ regs.pointer = "cause" /\ regs.count = count
          BY <3>1, <4>2, <4>3
        <4>5. regs.status = "fail"
          BY <3>1, <3>4, ReportShape
        <4> QED  BY <3>2, <4>1, <4>4, <4>5 DEF Loading
      <3> QED  BY <3>3, <3>4
    <2>2. regs.notify # "none" => regs.status \in {"pass", "fail"}
      <3>1. ASSUME regs.notify # "none" PROVE regs.status \in {"pass", "fail"}
        <4>1. PICK W \in Reports : Reporting(W)
          BY <1>1, <3>1 DEF SessionInv, ReportInv
        <4>2. 5 - Len(writes) = 5
          BY <3>1, <4>1 DEF Reporting
        <4>3. regs[W[4].register] = W[4].value
          BY <4>1, <4>2 DEF Reporting
        <4> QED  BY <4>3, ReportShape
      <3> QED  BY <3>1
    <2> QED  BY <2>1, <2>2 DEF ReportsWhole
  <1> QED  BY <1>1, SessionInvariance, PTL

----
(* The host's view of a session. *)

LEMMA InitJob == SessionInit => Job_!Init
  BY DEF SessionInit, Init, Job_!Init, Working

\* The head of `writes`, and what it does to the registers.
LEMMA FirstWrite ==
    ASSUME SessionInv, WriteRegister
    PROVE  /\ 1 \in DOMAIN writes /\ Len(writes) # 0 /\ writes[1].register \in Registers
           /\ regs'[writes[1].register] = writes[1].value
           /\ \A r \in Registers : r # writes[1].register => regs'[r] = regs[r]
  <1>1. writes \in Seq(Entry) /\ writes # <<>> /\ regs \in [Registers -> Values]
    BY DEF SessionInv, ReportInv, WriteRegister
  <1>2. ASSUME NEW q \in Seq(Entry), q # <<>>
        PROVE  1 \in DOMAIN q /\ Len(q) # 0 /\ Head(q) = q[1] /\ q[1] \in Entry
    BY <1>2, HeadTailProperties
  <1>3. 1 \in DOMAIN writes /\ Len(writes) # 0 /\ Head(writes) = writes[1] /\ writes[1] \in Entry
    BY <1>1, <1>2
  <1>4. writes[1].register \in Registers
    BY <1>3 DEF Entry
  <1>5. regs' = [regs EXCEPT ![writes[1].register] = writes[1].value]
    BY <1>3 DEF WriteRegister
  <1> QED  BY <1>1, <1>3, <1>4, <1>5

\* The status is written once, and the notification only after it.
LEMMA WriteEffect ==
    ASSUME SessionInv, WriteRegister
    PROVE  \/ /\ regs.status \notin {"pass", "fail"}
              /\ regs.notify = "none" /\ regs'.notify = "none"
           \/ /\ regs.status \in {"pass", "fail"} /\ regs'.status = regs.status
              /\ regs.notify = "none" /\ regs'.notify # "none"
  <1>1. CASE phase \notin {"report", "halt"}
    BY <1>1, FirstWrite DEF SessionInv, ReportInv, Registers
  <1>2. CASE phase \in {"report", "halt"}
    <2>1. PICK W \in Reports : Reporting(W)
      BY <1>2 DEF SessionInv, ReportInv
    <2> DEFINE k == 5 - Len(writes)
    <2>2. /\ k \in 0 .. 4 /\ writes[1] = W[k + 1] /\ regs.notify = "none"
          /\ k < 4 => regs.status \notin {"pass", "fail"}
          /\ \A i \in 1 .. k : regs[W[i].register] = W[i].value
      <3>1. k \in 0 .. 5
        BY <2>1 DEF Reporting
      <3>2. Len(writes) \in Nat
        BY <2>1 DEF SessionInv, ReportInv
      <3>3. k \in 0 .. 4
        BY <3>1, <3>2, FirstWrite
      <3> QED  BY <2>1, <3>3, FirstWrite DEF Reporting
    <2> HIDE DEF k
    <2>3. CASE k = 4
      <3>1. writes[1].register = "notify" /\ writes[1].value \in {"pass", "fail"}
        BY <2>2, <2>3, ReportShape
      <3>2. regs.status \in {"pass", "fail"}
        BY <2>2, <2>3, ReportShape
      <3> QED  BY <2>2, <3>1, <3>2, FirstWrite DEF Registers
    <2>4. CASE k # 4
      <3>1. k + 1 \in 1 .. 5 /\ k + 1 # 5 /\ W[5].register = "notify"
        BY <2>2, <2>4, ReportShape
      <3>2. writes[1].register # "notify"
        BY <2>2, <3>1, ReportShape
      <3> QED  BY <2>2, <2>4, <3>2, FirstWrite DEF Registers
    <2> QED  BY <2>3, <2>4
  <1> QED  BY <1>1, <1>2

\* Every step of a session is a step of the job the host is promised, or none that it can see.
LEMMA JobStep ==
    ASSUME SessionInv, PassMeansQuiescent, PassMeansQuiescent', [SessionNext]_allVars
    PROVE  [Job_!Next]_(Job_!vars)
  <1> USE DEF Job_!Next, Job_!Work, Job_!Report, Job_!Notify, Job_!vars
  <1>0. Working \in BOOLEAN /\ Working' \in BOOLEAN
    BY DEF Working
  <1>1. CASE UNCHANGED regs
    BY <1>0, <1>1 DEF PassMeansQuiescent
  <1>2. CASE WriteRegister
    <2>1. Working' = Working
      BY <1>2 DEF WriteRegister, vars, array, dma, Working
    <2> QED  BY <1>0, <1>2, <2>1, WriteEffect DEF PassMeansQuiescent
  <1>3. ~WriteRegister => UNCHANGED regs
    BY StepKinds, JoinsSlots, CallStep DEF Progress, Booted, LoadOk, LoadBad, InitFilled, EndDispatch, Report, Halt,
       Halted, allVars, session, Fill, Operation, Cluster, SessionInv
  <1> QED  BY <1>1, <1>2, <1>3

\* Whatever the command stream asks for and wherever it fails, the host sees a job that reports
\* once, notifies after it, and has stopped working on the shared memory if it passed.
THEOREM RefinesHostJob == SessionSpec => ImplementsHostJob
  <1>1. SessionInv /\ PassMeansQuiescent /\ PassMeansQuiescent' /\ [SessionNext]_allVars
            => [Job_!Next]_(Job_!vars)
    BY JobStep
  <1> QED
    BY <1>1, InitJob, SessionInvariance, PassesQuiescent, PTL DEF SessionSpec, ImplementsHostJob, Job_!Spec
====
