---- MODULE AsyncRuntime ----
(***************************************************************************)
(* The asynchronous operations of the firmware: sw/lib/npu_runtime_ops.c   *)
(* over the book-keeping of npu_dma_async_state.h, the blocking helpers of *)
(* idma_mm_utils.h and the start/done protocol of hal_systolic.c, with the *)
(* two DMA directions and the systolic engine running beside the processor.*)
(*                                                                         *)
(* The dispatcher calls one operation at a time and calls no other after   *)
(* one that failed; it ends with a barrier (op = "final").  pc says where  *)
(* the processor stands inside the running operation, whose locals are     *)
(* reset when it returns.                                                  *)
(***************************************************************************)
EXTENDS TransferId, Sequences

CONSTANTS QueueDepth,   \* NPU_DMA_JOB_QUEUE_DEPTH, the software limit (16)
          HwDepth,      \* jobs a direction holds: its FIFO and the job being moved
          StartIds,     \* where the identifiers stand when the dispatch begins
          MaxCommands,  \* bound: operations of one dispatch
          MaxPieces     \* bound: chunks of a blocking copy, tiles of a systolic command

ASSUME RuntimeAssumption ==
    /\ QueueDepth \in Nat \ {0}
    /\ HwDepth \in Nat \ {0} /\ HwDepth < HalfIds
    /\ StartIds \subseteq 0 .. (IdSpace - 1)
    /\ MaxCommands \in Nat /\ MaxPieces \in Nat \ {0}

Directions == 0 .. 1        \* IDMA_DIR_L2_TO_L1, IDMA_DIR_L1_TO_L2
PrefetchSlots == 2
Kinds == {"async", "sync", "prefetch"}

VARIABLES queued, last, pending,        \* nai_dma_async_state_t
          pc, op, dir, waitId, left, ret,   \* the running operation
          jobs, nextId, doneId,             \* the DMA, per direction
          engine, done,                     \* the systolic job FSM, its DONE register
          commands                          \* operations called so far

book  == <<queued, last, pending>>
call  == <<pc, op, dir, waitId, left, ret>>
dma   == <<jobs, nextId, doneId>>
array == <<engine, done>>
vars  == <<book, call, dma, array, commands>>

Words == 0 .. (IdSpace - 1)
Job == [id : Ids, kind : Kinds]

TypeOK ==
    /\ queued \in [Directions -> 0 .. QueueDepth]
    /\ last \in [Directions -> Words]
    /\ pending \in BOOLEAN
    /\ pc \in {"idle", "launch", "busy", "wait", "clear", "start", "poll", "join", "drain", "end"}
    /\ op \in {"none", "submit", "sync", "prefetch", "copy", "gemm", "dma_wait", "linebuf",
               "linebuf_submit", "systolic_wait", "barrier", "final"}
    /\ dir \in Directions
    /\ waitId \in Words
    /\ left \in 0 .. MaxPieces
    /\ ret \in {"ok", "failed"}
    /\ jobs \in [Directions -> Seq(Job)]
    /\ \A d \in Directions : Len(jobs[d]) <= HwDepth
    /\ nextId \in [Directions -> Ids]
    /\ doneId \in [Directions -> Words]
    /\ engine \in {"idle", "busy"}
    /\ done \in BOOLEAN
    /\ commands \in 0 .. MaxCommands

Init ==
    /\ queued = [d \in Directions |-> 0] /\ last = [d \in Directions |-> 0] /\ pending = FALSE
    /\ pc = "idle" /\ op = "none" /\ dir = 0 /\ waitId = 0 /\ left = 0 /\ ret = "ok"
    /\ jobs = [d \in Directions |-> <<>>]
    /\ \E i \in StartIds : /\ doneId = [d \in Directions |-> i]
                          /\ nextId = [d \in Directions |-> NextTransferId(i)]
    /\ engine = "idle" /\ done = FALSE
    /\ commands = 0

----
(* The DMA and the systolic engine. *)

\* The oldest job of the direction has moved its bytes; its id becomes visible in DONE_ID.
Retire(d) ==
    /\ jobs[d] # <<>>
    /\ doneId' = [doneId EXCEPT ![d] = Head(jobs[d]).id]
    /\ jobs' = [jobs EXCEPT ![d] = Tail(@)]
    /\ UNCHANGED <<book, call, nextId, array, commands>>

\* The read of NEXT_ID stalls the processor while the FIFO of the direction is full.
Launch(d, kind) ==
    /\ Len(jobs[d]) < HwDepth
    /\ jobs' = [jobs EXCEPT ![d] = Append(@, [id |-> nextId[d], kind |-> kind])]
    /\ nextId' = [nextId EXCEPT ![d] = NextTransferId(@)]
    /\ UNCHANGED doneId

EngineDone ==
    /\ engine = "busy"
    /\ engine' = "idle" /\ done' = TRUE
    /\ UNCHANGED <<book, call, dma, commands>>

\* STATUS shows the midend and the backend, not a job that still sits in the FIFO: a direction
\* with nothing to do reads idle, one between two jobs may.
SurelyIdle(d) == jobs[d] = <<>>

----
(* Calling an operation and returning from it. *)

Running == pc = "idle" /\ ret = "ok" /\ commands < MaxCommands /\ commands' = commands + 1

Inside == commands' = commands

Enter(name, at, d, pieces) ==
    /\ op' = name /\ pc' = at /\ dir' = d /\ left' = pieces
    /\ UNCHANGED <<waitId, ret>>

Return(value) ==
    /\ pc' = IF op = "final" THEN "end" ELSE "idle"
    /\ ret' = value
    /\ op' = "none" /\ dir' = 0 /\ waitId' = 0 /\ left' = 0

Fail == ret' = "failed" /\ UNCHANGED <<pc, op, dir, waitId, left>>

GoTo(at) == pc' = at /\ UNCHANGED <<op, dir, waitId, left, ret>>

----
(* runtime_dma_*_mode *)

\* Faulty variant: one transfer more than the queue holds.
CanSubmit_OffByOne(d) == queued[d] <= QueueDepth

CanSubmit(d) == queued[d] < QueueDepth

Submit(d) ==
    /\ Running
    /\ IF CanSubmit(d) THEN Enter("submit", "launch", d, 0) ELSE Fail
    /\ UNCHANGED <<book, dma, array>>

Sync(d) ==
    /\ Running
    /\ Enter("sync", "launch", d, 0)
    /\ UNCHANGED <<book, dma, array>>

\* Between two commands the stream reader refills a slot of its own (StreamPrefetch).
Prefetch ==
    /\ Running
    /\ Len(SelectSeq(jobs[0], LAMBDA j : j.kind = "prefetch")) < PrefetchSlots
    /\ Enter("prefetch", "launch", 0, 0)
    /\ UNCHANGED <<book, dma, array>>

\* Faulty variant: remembers the first transfer since the last wait.
Record_First(d, id) ==
    /\ last' = [last EXCEPT ![d] = IF queued[d] = 0 THEN id ELSE @]
    /\ queued' = [queued EXCEPT ![d] = @ + 1]
    /\ UNCHANGED pending

\* nai_dma_async_record
Record(d, id) ==
    /\ last' = [last EXCEPT ![d] = id]
    /\ queued' = [queued EXCEPT ![d] = @ + 1]
    /\ UNCHANGED pending

LaunchAsync ==
    /\ pc = "launch" /\ op = "submit" /\ Inside
    /\ Launch(dir, "async")
    /\ IF CanSubmit(dir)
         THEN Record(dir, nextId[dir]) /\ Return("ok")
         ELSE UNCHANGED book /\ Return("failed")
    /\ UNCHANGED array

LaunchPrefetch ==
    /\ pc = "launch" /\ op = "prefetch" /\ Inside
    /\ Launch(dir, "prefetch")
    /\ Return("ok")
    /\ UNCHANGED <<book, array>>

LaunchAndWait ==
    /\ pc = "launch" /\ op \in {"sync", "copy", "gemm"} /\ Inside
    /\ Launch(dir, "sync")
    /\ waitId' = nextId[dir]
    /\ pc' = "wait"
    /\ UNCHANGED <<book, op, dir, left, ret, array>>

----
(* idma_memcpy_blocking, and the systolic commands that stage their weights with it. *)

Copy(d, chunks) ==
    /\ Running
    /\ Enter("copy", "busy", d, chunks)
    /\ UNCHANGED <<book, dma, array>>

\* No systolic command runs while a line-buffer job is pending: the code of these commands
\* does not look at systolic_pending, it is the command stream that is so scheduled.
Gemm(chunks) ==
    /\ Running /\ ~pending
    /\ Enter("gemm", "busy", 0, chunks)
    /\ UNCHANGED <<book, dma, array>>

SpinBusy ==
    /\ pc = "busy"
    /\ GoTo("launch") /\ Inside
    /\ UNCHANGED <<book, dma, array>>

----
(* runtime_linebuf_job_mode *)

\* Faulty variant: forgets the job that is still pending.
LinebufRejected_Never(valid) == ~valid

LinebufRejected(valid) == pending \/ ~valid

Linebuf(name, valid) ==
    /\ Running
    /\ IF LinebufRejected(valid) THEN Fail ELSE Enter(name, "clear", dir, 1)
    /\ UNCHANGED <<book, dma, array>>

\* systolic_gemm32_start_preloaded: two register writes.
ClearDone ==
    /\ pc = "clear" /\ Inside
    /\ done' = FALSE
    /\ GoTo("start")
    /\ UNCHANGED <<book, dma, engine>>

\* START is taken by an idle engine only; it clears DONE whatever the engine does.
Start ==
    /\ pc = "start" /\ Inside
    /\ engine' = "busy" /\ done' = FALSE
    /\ IF op = "linebuf_submit"
         THEN pending' = TRUE /\ Return("ok")
         ELSE GoTo("poll") /\ UNCHANGED pending
    /\ UNCHANGED <<queued, last, dma>>

\* systolic_gemm32_wait_done and what follows it in the operation.
PollDone ==
    /\ pc = "poll" /\ done /\ Inside
    /\ done' = FALSE
    /\ pending' = IF op \in {"systolic_wait", "barrier", "final"} THEN FALSE ELSE pending
    /\ \/ /\ op = "gemm" /\ left > 1
          /\ left' = left - 1 /\ pc' = "clear" /\ UNCHANGED <<op, dir, waitId, ret>>
       \/ op = "gemm" /\ left = 1 /\ Return("ok")
       \/ op \in {"linebuf", "systolic_wait"} /\ Return("ok")
       \/ op \in {"barrier", "final"} /\ GoTo("drain")
    /\ UNCHANGED <<queued, last, dma, engine>>

SystolicWait ==
    /\ Running
    /\ IF pending THEN Enter("systolic_wait", "poll", dir, 0) ELSE Fail
    /\ UNCHANGED <<book, dma, array>>

----
(* runtime_dma_wait, idma_mm_wait_for_completion, runtime_barrier *)

\* nai_dma_async_take_last
TakeLast(d) ==
    /\ waitId' = last[d]
    /\ last' = [last EXCEPT ![d] = 0]
    /\ queued' = [queued EXCEPT ![d] = 0]
    /\ UNCHANGED pending

DmaWait(d) ==
    /\ Running
    /\ IF queued[d] = 0
         THEN Fail /\ UNCHANGED book
         ELSE /\ TakeLast(d)
              /\ op' = "dma_wait" /\ pc' = "wait" /\ dir' = d /\ UNCHANGED <<left, ret>>
    /\ UNCHANGED <<dma, array>>

\* The transfer waited for has retired.
WaitDone ==
    /\ pc = "wait" /\ Completed(doneId[dir], waitId) /\ Inside
    /\ \/ op \in {"sync", "dma_wait"} /\ Return("ok")
       \/ /\ op \in {"copy", "gemm"} /\ left > 1
          /\ left' = left - 1 /\ pc' = "busy" /\ UNCHANGED <<op, dir, waitId, ret>>
       \/ op = "copy" /\ left = 1 /\ Return("ok")
       \/ /\ op = "gemm" /\ left = 1
          /\ \E tiles \in 1 .. MaxPieces : left' = tiles
          /\ pc' = "clear" /\ UNCHANGED <<op, dir, waitId, ret>>
       \/ op \in {"barrier", "final"} /\ GoTo("join")
    /\ UNCHANGED <<book, dma, array>>

\* The poll of DONE_ID gave up while the transfer was still under way.
WaitTimeout ==
    /\ pc = "wait" /\ ~Completed(doneId[dir], waitId) /\ Inside
    /\ Return("failed")
    /\ UNCHANGED <<book, dma, array>>

Barrier ==
    /\ Running
    /\ Enter("barrier", "join", 0, 0)
    /\ UNCHANGED <<book, dma, array>>

\* The dispatcher has met END or a command that failed.
FinalBarrier ==
    /\ pc = "idle"
    /\ Enter("final", "join", 0, 0) /\ Inside
    /\ UNCHANGED <<book, dma, array>>

\* Faulty variant: the barrier skips the systolic engine.
JoinsSystolic_Never == FALSE

JoinsSystolic == pending

\* The loop over the directions, then the systolic engine.
Join ==
    /\ pc = "join" /\ Inside
    /\ \/ /\ queued[dir] # 0
          /\ TakeLast(dir)
          /\ pc' = "wait" /\ UNCHANGED <<op, dir, left, ret>>
       \/ /\ queued[dir] = 0 /\ dir = 0
          /\ dir' = 1 /\ UNCHANGED <<book, pc, op, waitId, left, ret>>
       \/ /\ queued[dir] = 0 /\ dir = 1
          /\ GoTo(IF JoinsSystolic THEN "poll" ELSE "drain")
          /\ UNCHANGED book
    /\ UNCHANGED <<dma, array>>

\* dma_barrier; ret already tells whether a command failed before a final barrier.
Drain ==
    /\ pc = "drain"
    /\ Return(ret) /\ Inside
    /\ UNCHANGED <<book, dma, array>>

\* A command that touches none of this state (AFU, Spatz), or the read of the next one, fails.
CommandFails ==
    /\ pc = "idle" /\ ret = "ok" /\ Inside
    /\ Fail
    /\ UNCHANGED <<book, dma, array>>

Terminated == pc = "end" /\ (\A d \in Directions : jobs[d] = <<>>) /\ engine = "idle" /\ UNCHANGED vars

----
Processor ==
    \/ LaunchAsync \/ LaunchPrefetch \/ LaunchAndWait \/ SpinBusy
    \/ ClearDone \/ Start \/ PollDone
    \/ WaitDone \/ WaitTimeout \/ Join \/ Drain

Dispatcher ==
    \/ \E d \in Directions : Submit(d) \/ Sync(d) \/ DmaWait(d)
    \/ Prefetch
    \/ \E d \in Directions, n \in 1 .. MaxPieces : Copy(d, n)
    \/ \E n \in 1 .. MaxPieces : Gemm(n)
    \/ \E name \in {"linebuf", "linebuf_submit"}, valid \in BOOLEAN : Linebuf(name, valid)
    \/ SystolicWait \/ Barrier \/ FinalBarrier \/ CommandFails

Hardware == EngineDone \/ \E d \in Directions : Retire(d)

Next == Processor \/ Dispatcher \/ Hardware \/ Terminated

Spec == Init /\ [][Next]_vars

\* The processor never stops inside an operation, but a loop over STATUS is only sure to end
\* once the directions it looks at hold nothing; the hardware finishes what it accepted.  Of the engine
\* that is a condition on the jobs: one that adds to partial sums over several k-tiles may never end (run
\* accum_hang), and the liveness properties speak of programs without such a job.
FairStep ==
    /\ Processor
    /\ pc = "busy" => SurelyIdle(dir)
    /\ pc = "drain" => \A d \in Directions : SurelyIdle(d)

FairSpec ==
    /\ Spec
    /\ WF_vars(FairStep)
    /\ WF_vars(EngineDone)
    /\ \A d \in Directions : WF_vars(Retire(d))

----
(* Properties. *)

Async(d) == {i \in DOMAIN jobs[d] : jobs[d][i].kind = "async"}

\* A DMA_WAIT that succeeds has joined every asynchronous transfer of its direction, though it
\* waits for the identifier of one: the queue of the direction is in order, and other transfers
\* (blocking copies, the prefetcher's) may lie between and after the asynchronous ones.
WaitJoins == [][op = "dma_wait" /\ pc' = "idle" /\ ret' = "ok" => Async(dir) = {}]_vars

\* After a barrier that succeeds, and at the end of a dispatch in which nothing failed, no
\* asynchronous transfer is in flight, the systolic engine is idle, its DONE is consumed, and
\* the book-keeping is empty: the next command, or the host, may use every buffer.
Quiescent ==
    /\ \A d \in Directions : queued[d] = 0
    /\ \A d \in Directions : \A i \in DOMAIN jobs[d] : jobs[d][i].kind = "prefetch"
    /\ engine = "idle" /\ ~done /\ ~pending

BarrierSucceeds == op \in {"barrier", "final"} /\ pc' \in {"idle", "end"} /\ ret' = "ok"

BarrierQuiesces == [][BarrierSucceeds => Quiescent']_vars

\* A pending line-buffer job can be joined (the engine runs, or its DONE is still there for the
\* unbounded poll), and none is left behind when no job is pending.
PendingJoinable ==
    /\ pending => engine = "busy" \/ done
    /\ pc = "idle" /\ ~pending => engine = "idle" /\ ~done

\* START is never written to an engine at work: it would be lost, and the registers of the
\* running job overwritten.
StartTaken == [][pc = "start" /\ pc' # "start" => engine = "idle"]_vars

\* Every operation returns: no busy-wait of the firmware (on STATUS, on the systolic DONE, on
\* room in the FIFO) lasts for ever, whatever is in flight when it begins.
CallsReturn == pc \notin {"idle", "end"} ~> pc \in {"idle", "end"}

----
(* The inductive invariant behind the safety properties. *)

\* The jobs of a direction carry consecutive ids, the oldest right after DONE_ID.
IdInv ==
    \A d \in Directions :
        /\ \A i \in DOMAIN jobs[d] : Ahead(doneId[d], jobs[d][i].id) = i
        /\ Ahead(doneId[d], nextId[d]) = Len(jobs[d]) + 1

Joining(d) == pc = "wait" /\ dir = d /\ op \in {"dma_wait", "barrier", "final"}

\* The transfer a wait on d waits for, or would.
Target(d) == IF Joining(d) THEN waitId ELSE last[d]

\* An asynchronous transfer in flight is the target of the next wait or ahead of it.
CoveredInv ==
    ret = "ok" => \A d \in Directions : \A i \in DOMAIN jobs[d] : jobs[d][i].kind = "async" =>
        /\ Joining(d) \/ queued[d] # 0
        /\ \E j \in DOMAIN jobs[d] : i <= j /\ jobs[d][j].id = Target(d)

\* A blocking transfer in flight is the one being waited for.
SyncInv ==
    ret = "ok" => \A d \in Directions : \A i \in DOMAIN jobs[d] : jobs[d][i].kind = "sync" =>
        pc = "wait" /\ op \in {"sync", "copy", "gemm"} /\ dir = d /\ jobs[d][i].id = waitId

\* Where the running operation stands, and what it knows there.
CallInv ==
    /\ pc \in {"idle", "end"} <=> op = "none"
    /\ op \notin {"none", "final"} => ret = "ok"
    /\ pc \in {"clear", "start"} => op \in {"gemm", "linebuf", "linebuf_submit"}
    /\ pc = "poll" => op \in {"gemm", "linebuf", "systolic_wait", "barrier", "final"}
    /\ pc \in {"join", "drain"} => op \in {"barrier", "final"}
    /\ op \in {"barrier", "final"} => pc \in {"join", "wait", "poll", "drain"}
    /\ op = "linebuf_submit" => pc \in {"clear", "start"}
    /\ op = "submit" => CanSubmit(dir)
    /\ op = "dma_wait" => pc = "wait"

\* How far a barrier has got.
BarrierInv ==
    /\ op \in {"barrier", "final"} /\ dir = 1 => queued[0] = 0
    /\ op \in {"barrier", "final"} /\ pc = "wait" => queued[dir] = 0
    /\ op \in {"barrier", "final"} /\ pc \in {"poll", "drain"} => dir = 1 /\ queued[1] = 0

\* Who is to consume DONE: the pending job's wait, or the poll of a synchronous command.
ArrayInv ==
    /\ engine = "busy" => ~done
    /\ pending => engine = "busy" \/ done
    /\ ~pending /\ pc # "poll" => engine = "idle" /\ ~done
    /\ pc = "poll" => engine = "busy" \/ done
    /\ pc \in {"clear", "start"} \/ op \in {"gemm", "linebuf"} => ~pending
    /\ pc = "poll" /\ op \in {"systolic_wait", "barrier", "final"} => pending
    /\ pc = "drain" => ~pending

IInv == /\ TypeOK /\ IdInv /\ CoveredInv /\ SyncInv /\ CallInv /\ BarrierInv /\ ArrayInv
====
