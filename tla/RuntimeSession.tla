---- MODULE RuntimeSession ----
(***************************************************************************)
(* One job of the firmware, from reset to the interrupt of the host:       *)
(* sw/runtime/neural_ai/main.c, sw/lib/npu_cmd_desc.c and                  *)
(* nai_runtime_dispatch_from_ctrl of sw/lib/npu_model_runtime.c, over the  *)
(* operations of AsyncRuntime.                                             *)
(*                                                                         *)
(* phase says how far the dispatch has got; writes are the register writes *)
(* the firmware has still to do before it goes on, in their order.  slot   *)
(* holds, per slot of the stream prefetcher, the id of the DMA job the     *)
(* slot has not joined yet (StreamPrefetch says what the slots are for).   *)
(***************************************************************************)
EXTENDS AsyncRuntime

VARIABLES phase, fetched,       \* progress; the read of a loading phase has been issued
          slot, index,          \* prefetcher; the slot the firmware fills or joins
          regs, writes          \* registers the host sees; writes still to do

session == <<phase, fetched, slot, index, regs, writes>>
allVars == <<vars, session>>

Slots == 0 .. 1
Loading == {"invocation", "model", "bindings"}
Phases == {"boot", "prefetch", "dispatch", "finish", "barrier", "report", "halt"} \cup Loading

Registers == {"status", "code", "pointer", "count", "notify"}
Values == {"idle", "loading", "running", "pass", "fail", "none", "invocation", "model", "bindings",
           "dispatch", "zero", "cause", "completed"}
Entry == [register : Registers, value : Values]

Write(register, value) == [register |-> register, value |-> value]

\* npu_cmd_dispatch_from_ctrl
Clearing ==
    <<Write("code", "none"), Write("pointer", "zero"), Write("count", "zero"),
      Write("status", "loading")>>

\* Faulty variant: the status is there before what explains it.
Failure_StatusFirst(code, count) ==
    <<Write("status", "fail"), Write("code", code), Write("pointer", "cause"),
      Write("count", count), Write("notify", "fail")>>

\* fail(), then main.
Failure(code, count) ==
    <<Write("code", code), Write("pointer", "cause"), Write("count", count),
      Write("status", "fail"), Write("notify", "fail")>>

Success ==
    <<Write("count", "completed"), Write("code", "none"), Write("pointer", "zero"),
      Write("status", "pass"), Write("notify", "pass")>>

\* The registers hold words they are meant for, and the prefetcher's slots identifiers.
SessionTypeOK ==
    /\ TypeOK
    /\ phase \in Phases
    /\ fetched \in BOOLEAN
    /\ slot \in [Slots -> Words]
    /\ index \in Slots
    /\ regs \in [Registers -> Values]
    /\ writes \in Seq(Entry)

SessionInit ==
    /\ Init
    /\ phase = "boot" /\ fetched = FALSE
    /\ slot = [s \in Slots |-> 0] /\ index = 0
    /\ regs = [status |-> "idle", code |-> "none", pointer |-> "zero", count |-> "zero",
               notify |-> "none"]
    /\ writes = Clearing

----
\* One register write; the host may look between any two.
WriteRegister ==
    /\ writes # <<>>
    /\ regs' = [regs EXCEPT ![Head(writes).register] = Head(writes).value]
    /\ writes' = Tail(writes)
    /\ UNCHANGED <<vars, phase, fetched, slot, index>>

Ready(p) == writes = <<>> /\ phase = p

Booted ==
    /\ Ready("boot")
    /\ phase' = "invocation"
    /\ UNCHANGED <<vars, fetched, slot, index, regs, writes>>

\* l2_read: a blocking copy into the staging window.
LoadRead ==
    /\ writes = <<>> /\ phase \in Loading /\ ~fetched
    /\ \E n \in 1 .. MaxPieces : Copy(0, n)
    /\ fetched' = TRUE
    /\ UNCHANGED <<phase, slot, index, regs, writes>>

Loaded == writes = <<>> /\ phase \in Loading /\ fetched /\ pc = "idle" /\ UNCHANGED vars

\* What was read is valid.  A model without bindings skips the last read.
LoadOk ==
    /\ Loaded /\ ret = "ok"
    /\ \/ phase = "invocation" /\ phase' = "model" /\ UNCHANGED writes
       \/ phase = "model" /\ phase' = "bindings" /\ UNCHANGED writes
       \/ phase \in {"model", "bindings"} /\ phase' = "prefetch"
          /\ writes' = <<Write("status", "running")>>
    /\ fetched' = FALSE
    /\ UNCHANGED <<slot, index, regs>>

\* The read failed, or the validation of what it brought.
LoadBad ==
    /\ Loaded
    /\ phase' = "report"
    /\ writes' = Failure(phase, "zero")
    /\ UNCHANGED <<fetched, slot, index, regs>>

----
(* The prefetcher: nai_stream_prefetch_init, the reads of the dispatcher. *)

\* nai_stream_prefetch_fill; afterwards the slot remembers the job.
Fill ==
    /\ phase \in {"prefetch", "dispatch"} /\ writes = <<>>
    /\ pc = "launch" /\ op = "prefetch"
    /\ LaunchPrefetch
    /\ slot' = [slot EXCEPT ![index] = nextId[0]]
    /\ UNCHANGED <<phase, fetched, index, regs, writes>>

InitFill ==
    /\ Ready("prefetch") /\ slot[index] = 0
    /\ Prefetch
    /\ UNCHANGED session

\* The slot has been filled, or there is nothing (more) to prefetch.
InitFilled ==
    /\ Ready("prefetch") /\ pc = "idle" /\ UNCHANGED vars
    /\ \/ index = 0 /\ index' = 1 /\ UNCHANGED phase
       \/ index' = 0 /\ phase' = "dispatch"
    /\ UNCHANGED <<fetched, slot, regs, writes>>

Reading == Ready("dispatch") /\ pc = "idle" /\ ret = "ok"

\* A read of the command stream joins the slot it comes to ...
ReadJoin(s) ==
    /\ Reading /\ slot[s] # 0 /\ Completed(doneId[0], slot[s])
    /\ slot' = [slot EXCEPT ![s] = 0]
    /\ UNCHANGED <<vars, phase, fetched, index, regs, writes>>

\* ... and the dispatch fails if it cannot ...
ReadTimeout(s) ==
    /\ Reading /\ slot[s] # 0 /\ ~Completed(doneId[0], slot[s])
    /\ CommandFails
    /\ UNCHANGED session

\* ... and fills the slot again that it has read to its end.
Refill(s) ==
    /\ Reading /\ slot[s] = 0
    /\ Prefetch
    /\ index' = s
    /\ UNCHANGED <<phase, fetched, slot, regs, writes>>

----
(* nai_cmd_dispatch_stream_v2 calls the operations; then the prefetcher, the barrier, the report. *)

Command ==
    /\ Ready("dispatch")
    /\ \/ \E d \in Directions : Submit(d) \/ Sync(d) \/ DmaWait(d)
       \/ \E d \in Directions, n \in 1 .. MaxPieces : Copy(d, n)
       \/ \E n \in 1 .. MaxPieces : Gemm(n)
       \/ \E name \in {"linebuf", "linebuf_submit"}, valid \in BOOLEAN : Linebuf(name, valid)
       \/ SystolicWait \/ Barrier \/ CommandFails
    /\ UNCHANGED session

\* END, or a status other than NAI_DISPATCH_OK.
EndDispatch ==
    /\ Ready("dispatch") /\ pc = "idle"
    /\ phase' = "finish" /\ index' = 0
    /\ UNCHANGED <<vars, fetched, slot, regs, writes>>

\* Faulty variant: the first slot only.
NextSlot_First == phase' = "barrier" /\ index' = 0

NextSlot ==
    IF index = 0 THEN index' = 1 /\ UNCHANGED phase ELSE phase' = "barrier" /\ index' = 0

\* nai_stream_prefetch_finish
FinishJoin ==
    /\ Ready("finish")
    /\ slot[index] = 0 \/ Completed(doneId[0], slot[index])
    /\ slot' = [slot EXCEPT ![index] = 0]
    /\ NextSlot
    /\ UNCHANGED <<vars, fetched, regs, writes>>

FinishTimeout ==
    /\ Ready("finish")
    /\ slot[index] # 0 /\ ~Completed(doneId[0], slot[index])
    /\ NextSlot
    /\ IF ret = "ok" THEN CommandFails ELSE UNCHANGED vars
    /\ UNCHANGED <<fetched, slot, regs, writes>>

CallBarrier ==
    /\ Ready("barrier")
    /\ FinalBarrier
    /\ UNCHANGED session

Report ==
    /\ Ready("barrier") /\ pc = "end"
    /\ phase' = "report"
    /\ writes' = IF ret = "ok" THEN Success ELSE Failure("dispatch", "completed")
    /\ UNCHANGED <<vars, fetched, slot, index, regs>>

\* main loops for ever.
Halt ==
    /\ Ready("report")
    /\ phase' = "halt"
    /\ UNCHANGED <<vars, fetched, slot, index, regs, writes>>

Halted == phase = "halt" /\ UNCHANGED allVars

----
\* The processor inside an operation (the prefetcher's launch is Fill).
Operation == (Processor /\ ~LaunchPrefetch) /\ UNCHANGED session

Firmware ==
    \/ WriteRegister \/ Booted \/ LoadRead \/ LoadOk \/ LoadBad
    \/ InitFill \/ InitFilled \/ Fill
    \/ \E s \in Slots : ReadJoin(s) \/ ReadTimeout(s) \/ Refill(s)
    \/ Command \/ EndDispatch \/ FinishJoin \/ FinishTimeout \/ CallBarrier \/ Report \/ Halt
    \/ Operation

Cluster == Hardware /\ UNCHANGED session

SessionNext == Firmware \/ Cluster \/ Halted

SessionSpec == SessionInit /\ [][SessionNext]_allVars

\* The firmware never stops before it halts; the loops over STATUS end as in AsyncRuntime.
FairFirmware ==
    /\ Firmware
    /\ pc = "busy" => SurelyIdle(dir)
    /\ pc = "drain" => \A d \in Directions : SurelyIdle(d)

FairSession ==
    /\ SessionSpec
    /\ WF_allVars(FairFirmware)
    /\ WF_allVars(EngineDone /\ UNCHANGED session)
    /\ \A d \in Directions : WF_allVars(Retire(d) /\ UNCHANGED session)

----
(* Properties. *)

Working == engine = "busy" \/ \E d \in Directions : jobs[d] # <<>>

\* When the host reads PASS nothing of the job is under way: no DMA transfer of a command or
\* of the prefetcher, no systolic job; the outputs it fetches and the scratch it reuses are
\* final, whatever mixture of waits, barriers and END the command stream held.
PassMeansQuiescent == regs.status = "pass" => ~Working /\ ~pending

\* The host finds the outcome whole, in whichever order it reads the registers after STATUS or
\* the interrupt: FAIL_CODE, FAIL_PTR and DONE_COUNT are written before STATUS, STATUS before
\* the notification, and the three agree.
ReportsWhole ==
    /\ regs.status = "pass" => regs.code = "none" /\ regs.pointer = "zero" /\ regs.count = "completed"
    /\ regs.status = "fail" => /\ regs.code # "none" /\ regs.pointer = "cause"
                               /\ regs.count = "zero" <=> regs.code # "dispatch"
    /\ regs.notify # "none" => regs.notify = regs.status

\* The host's view of the session.
Job_ == INSTANCE HostJob WITH
    report <- IF regs.status \in {"pass", "fail"} THEN regs.status ELSE "none",
    notified <- regs.notify # "none",
    working <- Working
ImplementsHostJob == Job_!Spec

\* The host is always notified, after every failure and timeout: no busy-wait of the firmware
\* outlasts the work it waits for.
HostNotified == <>(regs.notify # "none")

----
(* The inductive invariant behind the safety properties, with that of AsyncRuntime. *)

\* A job of the prefetcher is remembered by its slot until the firmware has joined it; a slot
\* that is being filled holds none, and a joined one holds none.
SlotInv ==
    /\ slot \in [Slots -> Words] /\ index \in Slots
    /\ \A d \in Directions : \A i \in DOMAIN jobs[d] : jobs[d][i].kind = "prefetch" =>
          d = 0 /\ \E s \in Slots : slot[s] = jobs[d][i].id
    /\ op = "prefetch" => pc = "launch" /\ dir = 0 /\ slot[index] = 0
    /\ ret = "ok" /\ (phase = "barrier" \/ (phase = "finish" /\ index = 1)) => slot[0] = 0
    /\ ret = "ok" /\ phase = "barrier" => slot[1] = 0

\* Which operations run in which phase.
PhaseInv ==
    /\ op = "prefetch" => phase \in {"prefetch", "dispatch"}
    /\ op = "final" \/ pc = "end" => phase \in {"barrier", "report", "halt"}
    /\ phase = "finish" => pc = "idle"
    /\ phase = "barrier" => op \in {"none", "final"}
    /\ phase \in {"report", "halt"} => pc \in {"idle", "end"}

\* A dispatch that ended well left nothing behind.
EndInv == pc = "end" /\ ret = "ok" => ~Working /\ ~pending

Reports == {Failure(code, "zero") : code \in Loading} \cup {Failure("dispatch", "completed"), Success}

\* The last Len(writes) entries of the report W are still to be written.
Reporting(W) ==
    LET written == 5 - Len(writes) IN
    /\ written \in 0 .. 5
    /\ \A i \in DOMAIN writes : writes[i] = W[written + i]
    /\ \A i \in 1 .. written : regs[W[i].register] = W[i].value
    /\ written < 4 => regs.status \notin {"pass", "fail"}
    /\ written < 5 => regs.notify = "none"
    /\ W = Success => pc = "end" /\ ret = "ok"

ReportInv ==
    /\ regs \in [Registers -> Values]
    /\ writes \in Seq(Entry)
    /\ IF phase \in {"report", "halt"}
       THEN \E W \in Reports : Reporting(W)
       ELSE /\ regs.status \notin {"pass", "fail"} /\ regs.notify = "none"
            /\ \A i \in DOMAIN writes : /\ writes[i].register # "notify"
                                         /\ writes[i].value \notin {"pass", "fail"}

SessionInv == IInv /\ SessionTypeOK /\ SlotInv /\ PhaseInv /\ EndInv /\ ReportInv

----
\* docs/boot_flow.md: on END the firmware waits for pending work before it reports.
EndWaitsForPending == regs.notify # "none" => ~pending
====
