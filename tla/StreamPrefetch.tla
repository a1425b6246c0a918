---- MODULE StreamPrefetch ----
(***************************************************************************)
(* The command-stream prefetcher, sw/lib/npu_stream_prefetch.h: two        *)
(* scratch slots filled ahead of the reader by DMA jobs on the direction   *)
(* external memory -> TCDM, which other transfers of the firmware share.   *)
(*                                                                         *)
(* One processor runs the reader (pc says where it stands inside a call),  *)
(* and the DMA retires jobs on its own, in the order of their launch.  A   *)
(* byte is named by its position in the stream; a byte of a slot that a    *)
(* launched job has yet to write is None.                                  *)
(***************************************************************************)
EXTENDS TransferId, Sequences

CONSTANTS Base,         \* address of position 0 in external memory
          Begin, End,   \* the stream is Begin..End-1
          SlotBytes,    \* capacity of a slot
          Page,         \* a job crosses no multiple of this (4096 in the code)
          MaxRead,      \* longest read the reader asks for
          Depth,        \* jobs the DMA direction holds
          MaxForeign,   \* bound: transfers others launch on the direction
          None

ASSUME StreamAssumption ==
    /\ Base \in Nat /\ Begin \in Nat /\ End \in Nat /\ Begin <= End
    /\ SlotBytes \in Nat \ {0} /\ Page \in Nat \ {0} /\ MaxRead \in Nat \ {0}
    /\ Depth \in Nat \ {0} /\ Depth < HalfIds - 1
    /\ MaxForeign \in Nat
    /\ None \notin Int

SlotIndex == 0 .. 1
Foreign == 2            \* the target of a job that is not the prefetcher's

VARIABLES slots, readOffset, nextOffset, current, failed,   \* nai_stream_prefetch_t
          pc, index, want, ret, joinFailed,                 \* locals of the running call
          mem, out,                                         \* slot contents, what was read
          queue, nextId, doneId, foreign                    \* the DMA direction

state == <<slots, readOffset, nextOffset, current, failed>>
call  == <<pc, index, want, ret, joinFailed>>
dma   == <<queue, nextId, doneId, foreign>>
vars  == <<state, call, mem, out, dma>>

Positions == Begin .. (End - 1)
Bytes == Positions \cup {None}

Slot == [offset : Nat, bytes : 0 .. SlotBytes, used : 0 .. SlotBytes, id : 0 .. (IdSpace - 1)]
Job  == [id : Ids, slot : SlotIndex \cup {Foreign}, offset : Nat, bytes : 0 .. SlotBytes]

TypeOK ==
    /\ slots \in [SlotIndex -> Slot]
    /\ readOffset \in Begin .. End /\ nextOffset \in Begin .. End
    /\ current \in SlotIndex /\ failed \in BOOLEAN
    /\ pc \in {"init", "idle", "read", "refill", "finish", "done"}
    /\ index \in SlotIndex
    /\ want \in 0 .. MaxRead
    /\ ret \in {"none", "ok", "rejected", "starved", "failed"}
    /\ joinFailed \in BOOLEAN
    /\ mem \in [SlotIndex -> [0 .. (SlotBytes - 1) -> Bytes]]
    /\ out \in [Positions -> Bytes]
    /\ queue \in Seq(Job) /\ Len(queue) <= Depth
    /\ nextId \in Ids /\ doneId \in 0 .. (IdSpace - 1)
    /\ foreign \in 0 .. MaxForeign

\* The id counters are wherever earlier dispatches left them; doneId is 0 after reset.
Init ==
    /\ slots = [s \in SlotIndex |-> [offset |-> 0, bytes |-> 0, used |-> 0, id |-> 0]]
    /\ readOffset = Begin /\ nextOffset = Begin
    /\ current = 0 /\ failed = FALSE
    /\ pc = "init" /\ index = 0 /\ want = 0 /\ ret = "none" /\ joinFailed = FALSE
    /\ mem = [s \in SlotIndex |-> [k \in 0 .. (SlotBytes - 1) |-> None]]
    /\ out = [p \in Positions |-> None]
    /\ queue = <<>>
    /\ doneId \in 0 .. (IdSpace - 1) /\ nextId = NextTransferId(doneId)
    /\ foreign = 0

----
(* The DMA direction. *)

InFlight(s) == \E i \in DOMAIN queue : queue[i].slot = s

\* Reading NEXT_ID stalls the processor while the job queue is full.
CanLaunch == Len(queue) < Depth

Launch(slot, offset, bytes) ==
    /\ CanLaunch
    /\ queue' = Append(queue, [id |-> nextId, slot |-> slot, offset |-> offset, bytes |-> bytes])
    /\ nextId' = NextTransferId(nextId)
    /\ UNCHANGED doneId

\* The oldest job has written its target; its id becomes visible in DONE_ID.
Retire ==
    /\ queue # <<>>
    /\ doneId' = Head(queue).id
    /\ mem' = [s \in SlotIndex |->
                 IF s # Head(queue).slot THEN mem[s]
                 ELSE [k \in 0 .. (SlotBytes - 1) |->
                         IF k < Head(queue).bytes THEN Head(queue).offset + k ELSE mem[s][k]]]
    /\ queue' = Tail(queue)
    /\ UNCHANGED <<state, call, out, nextId, foreign>>

\* Between two reads a command launches a transfer of its own.
ForeignLaunch ==
    /\ pc = "idle" /\ foreign < MaxForeign
    /\ Launch(Foreign, 0, 0)
    /\ foreign' = foreign + 1
    /\ UNCHANGED <<state, call, mem, out>>

----
(* nai_stream_prefetch_fill(state, index), called by init and by read.  *)

Minimum(a, b) == IF a <= b THEN a ELSE b

\* Faulty variant: forgets the page boundary.
FillBytes_AcrossPages == Minimum(End - nextOffset, SlotBytes)

\* Faulty variant: takes a full slot past the end of the stream.
FillBytes_PastEnd == Minimum(SlotBytes, Page - ((Base + nextOffset) % Page))

FillBytes ==
    Minimum(Minimum(End - nextOffset, SlotBytes), Page - ((Base + nextOffset) % Page))

\* Where the caller continues after a fill that returned 0.
FillReturns ==
    \/ pc = "init" /\ index = 0 /\ pc' = "init" /\ index' = 1 /\ UNCHANGED <<want, ret>>
    \/ pc = "init" /\ index = 1 /\ pc' = "idle" /\ UNCHANGED <<index, want, ret>>
    \/ pc = "refill" /\ want # 0 /\ pc' = "read" /\ UNCHANGED <<index, want, ret>>
    \/ pc = "refill" /\ want = 0 /\ pc' = "idle" /\ ret' = "ok" /\ UNCHANGED <<index, want>>

FillNothing ==
    /\ pc \in {"init", "refill"}
    /\ nextOffset = End
    /\ FillReturns
    /\ UNCHANGED <<state, joinFailed, mem, out, dma>>

FillSubmit ==
    /\ pc \in {"init", "refill"}
    /\ nextOffset # End
    /\ Launch(index, nextOffset, FillBytes)
    /\ slots' = [slots EXCEPT ![index] =
                   [offset |-> nextOffset, bytes |-> FillBytes, used |-> 0, id |-> nextId]]
    /\ nextOffset' = nextOffset + FillBytes
    /\ mem' = [mem EXCEPT ![index] = [k \in 0 .. (SlotBytes - 1) |->
                                        IF k < FillBytes THEN None ELSE mem[index][k]]]
    /\ FillReturns
    /\ UNCHANGED <<readOffset, current, failed, joinFailed, out, foreign>>

\* The submit callback returned id 0: init and read both give up.
FillRefused ==
    /\ pc \in {"init", "refill"}
    /\ nextOffset # End
    /\ slots' = [slots EXCEPT ![index] =
                   [offset |-> nextOffset, bytes |-> 0, used |-> 0, id |-> 0]]
    /\ failed' = TRUE
    /\ ret' = "failed" /\ want' = 0 /\ index' = 0
    /\ pc' = IF pc = "init" THEN "finish" ELSE "idle"
    /\ UNCHANGED <<readOffset, nextOffset, current, joinFailed, mem, out, dma>>

----
(* nai_stream_prefetch_read *)

cur == slots[current]

ReadAccepted(offset, n) ==
    ~failed /\ offset = readOffset /\ offset <= End /\ n <= End - offset

ReadStart(offset, n) ==
    /\ pc = "idle"
    /\ ReadAccepted(offset, n)
    /\ pc' = "read" /\ want' = n
    /\ UNCHANGED <<state, index, ret, joinFailed, mem, out, dma>>

ReadRejected(offset, n) ==
    /\ pc = "idle"
    /\ ~ReadAccepted(offset, n)
    /\ ret' = "rejected"
    /\ UNCHANGED <<state, pc, index, want, joinFailed, mem, out, dma>>

Readable == cur.bytes # 0 /\ cur.offset + cur.used = readOffset

ReadWaitDone ==
    /\ pc = "read" /\ Readable
    /\ cur.id # 0 /\ Completed(doneId, cur.id)
    /\ slots' = [slots EXCEPT ![current].id = 0]
    /\ UNCHANGED <<readOffset, nextOffset, current, failed, call, mem, out, dma>>

\* The loop gives up: the slot at its head is not readable, or the wait callback polled DONE_ID
\* a bounded number of times in vain.  Only the second breaks the prefetcher.
ReadGivesUp ==
    /\ pc = "read"
    /\ Readable => cur.id # 0 /\ ~Completed(doneId, cur.id)
    /\ failed' = (failed \/ Readable)
    /\ ret' = IF Readable THEN "failed" ELSE "starved"
    /\ pc' = "idle" /\ want' = 0
    /\ UNCHANGED <<slots, readOffset, nextOffset, current, index, joinFailed, mem, out, dma>>

Chunk == Minimum(cur.bytes - cur.used, want)

\* Faulty variant: the slot is never found exhausted.
Exhausted_Never == cur.used + Chunk > cur.bytes

Exhausted == cur.used + Chunk = cur.bytes

OtherSlot == 1 - current

CopyChunk ==
    /\ pc = "read" /\ Readable
    /\ cur.id = 0
    /\ out' = [p \in Positions |->
                 IF p \in readOffset .. (readOffset + Chunk - 1)
                 THEN mem[current][cur.used + (p - readOffset)] ELSE out[p]]
    /\ readOffset' = readOffset + Chunk
    /\ want' = want - Chunk
    /\ IF Exhausted
         THEN /\ slots' = [slots EXCEPT ![current].used = @ + Chunk, ![current].bytes = 0]
              /\ index' = current
              /\ current' = OtherSlot
              /\ pc' = "refill" /\ UNCHANGED ret
         ELSE /\ slots' = [slots EXCEPT ![current].used = @ + Chunk]
              /\ pc' = IF want = Chunk THEN "idle" ELSE "read"
              /\ ret' = IF want = Chunk THEN "ok" ELSE ret
              /\ UNCHANGED <<index, current>>
    /\ UNCHANGED <<nextOffset, failed, joinFailed, mem, dma>>

----
(* nai_stream_prefetch_finish, called on END, on an error and on a failed init. *)

FinishStart ==
    /\ pc = "idle"
    /\ pc' = "finish" /\ index' = 0
    /\ UNCHANGED <<state, want, ret, joinFailed, mem, out, dma>>

\* Faulty variant: joins the first slot only.
FinishAdvances_First == pc' = "done" /\ UNCHANGED index

FinishAdvances ==
    IF index = 0 THEN index' = 1 /\ UNCHANGED pc ELSE pc' = "done" /\ UNCHANGED index

FinishDone ==
    /\ pc = "finish"
    /\ slots[index].id = 0 \/ Completed(doneId, slots[index].id)
    /\ slots' = [slots EXCEPT ![index].id = 0]
    /\ FinishAdvances
    /\ UNCHANGED <<readOffset, nextOffset, current, failed, want, ret, joinFailed, mem, out, dma>>

FinishTimeout ==
    /\ pc = "finish"
    /\ slots[index].id # 0 /\ ~Completed(doneId, slots[index].id)
    /\ joinFailed' = TRUE
    /\ FinishAdvances
    /\ UNCHANGED <<state, want, ret, mem, out, dma>>

Terminated == pc = "done" /\ queue = <<>> /\ UNCHANGED vars

----
Processor ==
    \/ FillNothing \/ FillSubmit \/ FillRefused
    \/ ReadWaitDone \/ ReadGivesUp \/ CopyChunk
    \/ FinishDone \/ FinishTimeout

Caller ==
    \/ \E offset \in Begin .. End, n \in 1 .. MaxRead :
          ReadStart(offset, n) \/ ReadRejected(offset, n)
    \/ ForeignLaunch
    \/ FinishStart

Next == Processor \/ Caller \/ Retire \/ Terminated

Spec == Init /\ [][Next]_vars

\* The processor never stops inside a call: a wait polls a bounded number of times, and a
\* launch stalls only while the queue is full.  The DMA retires every job it accepted.
FairSpec == Spec /\ WF_vars(Processor) /\ WF_vars(Retire)

----
(* Properties. *)

\* A read returns the bytes at the positions it asked for, never a byte that a DMA job in
\* flight has yet to write and never one of an earlier or later slot filling: the wait, the
\* slot hand-over and the refill of nai_stream_prefetch_read keep the stream in order.
DeliveredInOrder ==
    \A p \in Positions : out[p] = IF p < readOffset THEN p ELSE None

\* The test at the head of the read loop (slot empty, or not at read_offset) is a defence: no
\* read that passed the range check ever meets it, wherever the page splits cut the slots.
NeverStarved == ret # "starved"

\* A wait only times out on a job the DMA still holds: between the launch of a slot and the
\* wait for it other transfers retire and the ids wrap, yet DONE_ID never runs so far ahead
\* that the comparison of the ids turns against a finished job.
NoFalseTimeout ==
    \A s \in SlotIndex :
        slots[s].id # 0 /\ ~InFlight(s) => Completed(doneId, slots[s].id)

\* When finish reports success the DMA writes the scratch no more, after a refused submit, a
\* failed wait or an early END as well.
FinishJoins == pc = "done" /\ ~joinFailed => \A s \in SlotIndex : ~InFlight(s)

\* Every job of the prefetcher is one burst range of the bus: not empty, within one page.
JobsWithinPage ==
    \A i \in DOMAIN queue : queue[i].slot # Foreign =>
        /\ queue[i].bytes > 0
        /\ ((Base + queue[i].offset) % Page) + queue[i].bytes <= Page

\* The reader sees a sequential stream: every step delivers the next bytes, breaks the
\* stream, or is invisible.
Stream == INSTANCE SequentialStream WITH pos <- readOffset, out <- out, broken <- failed
ImplementsStream == Stream!Spec

\* Every call of init, read and finish returns, with the queue full and after a timeout too.
CallsReturn ==
    /\ pc \in {"init", "read", "refill"} ~> pc \in {"idle", "finish"}
    /\ pc = "finish" ~> pc = "done"

----
(* The inductive invariant behind the safety properties. *)

\* The jobs carry consecutive ids, the oldest right after DONE_ID: none reads as completed.
IdInv ==
    /\ \A i \in DOMAIN queue : Ahead(doneId, queue[i].id) = i
    /\ Ahead(doneId, nextId) = Len(queue) + 1

\* What a slot stands for is a range of the stream, within a page.
SlotInv ==
    \A s \in SlotIndex :
        /\ slots[s].id # 0 => slots[s].bytes # 0 /\ slots[s].used = 0
        /\ slots[s].bytes # 0 =>
             /\ slots[s].used < slots[s].bytes
             /\ Begin <= slots[s].offset /\ slots[s].offset + slots[s].bytes <= End
             /\ ((Base + slots[s].offset) % Page) + slots[s].bytes <= Page

\* A job in flight is the one its slot remembers.
JobInv ==
    \A i \in DOMAIN queue : queue[i].slot \in SlotIndex =>
        /\ queue[i].id = slots[queue[i].slot].id
        /\ queue[i].offset = slots[queue[i].slot].offset
        /\ queue[i].bytes = slots[queue[i].slot].bytes

\* A slot the DMA is through with holds its range.
LandedInv ==
    \A s \in SlotIndex : slots[s].bytes # 0 /\ ~InFlight(s) =>
        \A k \in 0 .. (slots[s].bytes - 1) : mem[s][k] = slots[s].offset + k

\* The running call: what it has still to read lies in the stream, and the slot it fills or
\* has joined remembers no job.
CallInv ==
    /\ pc \in {"init", "refill"} => slots[index].id = 0 /\ slots[index].bytes = 0
    /\ pc \in {"init", "read", "refill"} => ~failed
    /\ pc = "init" => want = 0
    /\ pc = "read" => want > 0
    /\ readOffset + want <= End
    /\ pc = "finish" /\ index = 1 /\ ~joinFailed => slots[0].id = 0
    /\ pc = "done" /\ ~joinFailed => \A s \in SlotIndex : slots[s].id = 0

\* The slots tile readOffset..nextOffset-1, the current one first; a gap at the end only.
Follows(o, from) ==
    IF o.bytes = 0 THEN from = nextOffset
    ELSE o.offset = from /\ o.used = 0 /\ from + o.bytes = nextOffset

WindowInv ==
    LET c == slots[current]
        o == slots[1 - current]
    IN  /\ pc = "init" => /\ current = 0 /\ slots[1].bytes = 0
                          /\ Follows(c, readOffset)
                          /\ index = 1 /\ c.bytes = 0 => readOffset = End
        /\ pc = "refill" => /\ index = 1 - current
                            /\ Follows(c, readOffset)
                            /\ c.bytes = 0 => readOffset = End
        /\ pc \in {"idle", "read"} /\ ~failed =>
             IF c.bytes = 0
             THEN o.bytes = 0 /\ readOffset = End /\ nextOffset = End
             ELSE /\ c.offset + c.used = readOffset
                  /\ Follows(o, c.offset + c.bytes)
                  /\ o.bytes = 0 => nextOffset = End

IInv == /\ TypeOK /\ IdInv /\ SlotInv /\ JobInv /\ LandedInv /\ CallInv /\ WindowInv
        /\ DeliveredInOrder /\ NeverStarved

\* The launches a slot's job may see, its own included, before the reader joins it: those of
\* others and, once the reader stands at the slot, the refill of the other one.
Launches(s) == foreign + (IF s = current /\ pc \notin {"init", "refill"} THEN 2 ELSE 1)

AgeInv == \A s \in SlotIndex : slots[s].id # 0 => Ahead(slots[s].id, nextId) <= Launches(s)

\* An id a slot remembers is that of a job in flight until it retires.
HeldInv ==
    \A s \in SlotIndex :
        slots[s].id # 0 /\ Ahead(doneId, slots[s].id) <= Len(queue) => InFlight(s)

TimeoutInv == AgeInv /\ HeldInv

\* The ids do not come round before the reader joins a slot: half their space is 2^31 in the code.
FewForeign == MaxForeign + 2 < HalfIds
====
