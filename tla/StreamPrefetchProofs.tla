---- MODULE StreamPrefetchProofs ----
(***************************************************************************)
(* Theorems about StreamPrefetch, for every stream, slot size, queue depth *)
(* and size of the identifier space.                                       *)
(***************************************************************************)
EXTENDS StreamPrefetch, SequenceTheorems, TLAPS

----
(* Transfer identifiers, for every size of their space. *)

\* Two ids issued one after the other are one step further ahead.
LEMMA AheadNext ==
    ASSUME NEW d \in 0 .. (IdSpace - 1), NEW id \in Ids, Ahead(d, id) < HalfIds
    PROVE  /\ NextTransferId(id) \in Ids
           /\ Ahead(d, NextTransferId(id)) = Ahead(d, id) + 1
  BY HalfIdsAssumption, SMT DEF Ahead, NextTransferId, Ids, IdSpace

\* When the job next in turn retires every other one is one step closer.
LEMMA AheadRetire ==
    ASSUME NEW d \in 0 .. (IdSpace - 1), NEW first \in Ids, NEW id \in Ids,
           Ahead(d, first) = 1, Ahead(d, id) > 1
    PROVE  Ahead(first, id) = Ahead(d, id) - 1
  BY HalfIdsAssumption, SMT DEF Ahead, Ids, IdSpace

\* A job still ahead of DONE_ID never reads as completed, wherever the counters wrap.
LEMMA AheadNotCompleted ==
    ASSUME NEW d \in 0 .. (IdSpace - 1), NEW id \in Ids, Ahead(d, id) < HalfIds
    PROVE  ~Completed(d, id)
  BY HalfIdsAssumption, SMT DEF Ahead, Completed, WordMinus, Ids, IdSpace

----
USE DEF SlotIndex, Foreign

\* Remainders modulo a page.
LEMMA ModRange ==
    ASSUME NEW x \in Nat
    PROVE  x % Page \in 0 .. (Page - 1)
  BY StreamAssumption, SMT

----
(* The DMA direction. *)

\* A launch puts the job at the end of the queue and keeps the ids consecutive.
LEMMA LaunchStep ==
    ASSUME TypeOK, IdInv,
           NEW slot \in SlotIndex \cup {Foreign}, NEW offset \in Nat, NEW bytes \in 0 .. SlotBytes,
           Launch(slot, offset, bytes)
    PROVE  /\ queue' \in Seq(Job) /\ Len(queue') <= Depth
           /\ nextId' \in Ids /\ doneId' = doneId
           /\ DOMAIN queue' = 1 .. (Len(queue) + 1)
           /\ \A i \in DOMAIN queue : i \in DOMAIN queue' /\ queue'[i] = queue[i]
           /\ queue'[Len(queue) + 1] =
                [id |-> nextId, slot |-> slot, offset |-> offset, bytes |-> bytes]
           /\ IdInv'
  <1> DEFINE job == [id |-> nextId, slot |-> slot, offset |-> offset, bytes |-> bytes]
  <1>1. job \in Job
    BY DEF TypeOK, Job
  <1>2. queue \in Seq(Job) /\ Len(queue) \in Nat /\ Len(queue) < Depth
    BY DEF TypeOK, Launch, CanLaunch
  <1>3. /\ queue' = Append(queue, job)
        /\ nextId' = NextTransferId(nextId) /\ doneId' = doneId
    BY DEF Launch
  <1>4. /\ queue' \in Seq(Job) /\ Len(queue') = Len(queue) + 1
        /\ \A i \in 1 .. Len(queue) : queue'[i] = queue[i]
        /\ queue'[Len(queue) + 1] = job
    BY <1>1, <1>2, <1>3, AppendProperties
  <1>5. Ahead(doneId, nextId) = Len(queue) + 1 /\ Len(queue) + 1 < HalfIds
    BY <1>2, StreamAssumption, HalfIdsAssumption DEF IdInv
  <1>6. nextId' \in Ids /\ Ahead(doneId', nextId') = Len(queue) + 2
    BY <1>2, <1>3, <1>5, AheadNext DEF TypeOK
  <1>7. IdInv'
    <2>1. ASSUME NEW i \in DOMAIN queue' PROVE Ahead(doneId', queue'[i].id) = i
      <3>1. CASE i \in 1 .. Len(queue)
        BY <3>1, <1>2, <1>3, <1>4 DEF IdInv
      <3>2. CASE i = Len(queue) + 1
        BY <3>2, <1>3, <1>4, <1>5
      <3> QED  BY <3>1, <3>2, <1>2, <1>4
    <2> QED  BY <2>1, <1>2, <1>4, <1>6 DEF IdInv
  <1>8. DOMAIN queue' = 1 .. (Len(queue) + 1) /\ DOMAIN queue = 1 .. Len(queue)
    BY <1>2, <1>4
  <1>9. Len(queue') <= Depth
    BY <1>2, <1>4, StreamAssumption
  <1> QED  BY <1>2, <1>3, <1>4, <1>6, <1>7, <1>8, <1>9

\* A retirement drops the oldest job and keeps the ids consecutive.
LEMMA RetireStep ==
    ASSUME TypeOK, IdInv, Retire
    PROVE  /\ queue' \in Seq(Job) /\ Len(queue') <= Depth
           /\ doneId' = queue[1].id /\ queue[1] \in Job /\ Head(queue) = queue[1]
           /\ 1 \in DOMAIN queue
           /\ DOMAIN queue' = 1 .. (Len(queue) - 1)
           /\ \A i \in DOMAIN queue' : i + 1 \in DOMAIN queue /\ queue'[i] = queue[i + 1]
           /\ IdInv'
  <1>1. queue \in Seq(Job) /\ queue # <<>> /\ queue' = Tail(queue) /\ doneId' = Head(queue).id
    BY DEF TypeOK, Retire
  <1>2. /\ Len(queue) \in Nat \ {0} /\ DOMAIN queue = 1 .. Len(queue)
        /\ Head(queue) = queue[1] /\ queue[1] \in Job
        /\ queue' \in Seq(Job) /\ Len(queue') = Len(queue) - 1
        /\ \A i \in 1 .. Len(queue') : queue'[i] = queue[i + 1]
    BY <1>1, HeadTailProperties
  <1>3. DOMAIN queue' = 1 .. (Len(queue) - 1)
    BY <1>2
  <1>4. Len(queue) <= Depth /\ Depth \in Nat /\ Depth < HalfIds - 1 /\ HalfIds \in Nat
    BY StreamAssumption, HalfIdsAssumption DEF TypeOK
  <1>5. doneId \in 0 .. (IdSpace - 1) /\ queue[1].id \in Ids /\ Ahead(doneId, queue[1].id) = 1
    <2>1. 1 \in DOMAIN queue
      BY <1>2
    <2> QED  BY <2>1, <1>2 DEF TypeOK, IdInv, Job
  <1>6. ASSUME NEW i \in DOMAIN queue' PROVE Ahead(doneId', queue'[i].id) = i
    <2>1. /\ i + 1 \in DOMAIN queue /\ i + 1 > 1 /\ i + 1 < HalfIds
          /\ queue'[i] = queue[i + 1] /\ queue[i + 1] \in Job
      BY <1>1, <1>2, <1>3, <1>4
    <2>2. /\ queue[i + 1].id \in Ids /\ Ahead(doneId, queue[i + 1].id) = i + 1
          /\ Ahead(doneId, queue[i + 1].id) > 1 /\ Ahead(doneId, queue[i + 1].id) < HalfIds
      BY <2>1 DEF IdInv, Job
    <2>3. Ahead(queue[1].id, queue[i + 1].id) = Ahead(doneId, queue[i + 1].id) - 1
      BY <2>2, <1>5, AheadRetire
    <2>4. i \in Nat
      BY <1>2, <1>3
    <2> QED  BY <2>1, <2>2, <2>3, <2>4, <1>1, <1>2
  <1>7. Ahead(doneId', nextId') = Len(queue') + 1
    <2>1. nextId' = nextId /\ nextId \in Ids
      BY DEF Retire, TypeOK
    <2>2. Ahead(doneId, nextId) = Len(queue) + 1
      BY DEF IdInv
    <2>3. Ahead(queue[1].id, nextId) = Len(queue) + 1 - 1
      BY <2>1, <2>2, <1>2, <1>4, <1>5, AheadRetire
    <2> QED  BY <2>1, <2>3, <1>1, <1>2
  <1> QED  BY <1>1, <1>2, <1>3, <1>4, <1>6, <1>7 DEF IdInv

\* No job of a slot is in flight once its id is cleared or reads as completed.
LEMMA JoinedNotInFlight ==
    ASSUME TypeOK, IdInv, JobInv, NEW s \in SlotIndex,
           slots[s].id = 0 \/ Completed(doneId, slots[s].id)
    PROVE  ~InFlight(s)
  <1> SUFFICES ASSUME NEW i \in DOMAIN queue, queue[i].slot = s
               PROVE  FALSE
    BY DEF InFlight
  <1>0. queue \in Seq(Job) /\ queue[i] \in Job
    BY DEF TypeOK
  <1>1. queue[i].id \in Ids /\ queue[i].id = slots[s].id
    BY <1>0 DEF JobInv, Job
  <1>2. Ahead(doneId, queue[i].id) < HalfIds
    BY StreamAssumption, HalfIdsAssumption DEF TypeOK, IdInv
  <1>3. ~Completed(doneId, queue[i].id)
    BY <1>1, <1>2, AheadNotCompleted DEF TypeOK
  <1> QED  BY <1>1, <1>3, HalfIdsAssumption DEF Ids, IdSpace

----
(* The inductive invariant. *)

LEMMA InitInvariant == Init => IInv
  <1> SUFFICES ASSUME Init PROVE IInv
    OBVIOUS
  <1> USE StreamAssumption, HalfIdsAssumption DEF Init
  <1>1. nextId \in Ids /\ Ahead(doneId, nextId) = 1
    BY DEF NextTransferId, Ahead, Ids, IdSpace
  <1>2. TypeOK
    <2>1. slots \in [SlotIndex -> Slot] /\ doneId \in 0 .. (IdSpace - 1)
      BY DEF Slot, IdSpace
    <2>2. mem \in [SlotIndex -> [0 .. (SlotBytes - 1) -> Bytes]] /\ out \in [Positions -> Bytes]
      BY DEF Bytes
    <2>3. queue \in Seq(Job) /\ Len(queue) = 0
      OBVIOUS
    <2>4. /\ readOffset \in Begin .. End /\ nextOffset \in Begin .. End
          /\ want \in 0 .. MaxRead /\ foreign \in 0 .. MaxForeign /\ Len(queue) <= Depth
      BY <2>3
    <2>5. /\ current \in SlotIndex /\ index \in SlotIndex
          /\ pc \in {"init", "idle", "read", "refill", "finish", "done"}
          /\ ret \in {"none", "ok", "rejected", "starved", "failed"}
      OBVIOUS
    <2>6. failed \in BOOLEAN /\ joinFailed \in BOOLEAN
      BY Zenon
    <2> HIDE DEF Init
    <2> QED  BY <2>1, <2>2, <2>3, <2>4, <2>5, <2>6, <1>1 DEF TypeOK
  <1>3. IdInv /\ JobInv
    BY <1>1 DEF IdInv, JobInv
  <1>4. SlotInv /\ LandedInv
    BY DEF SlotInv, LandedInv
  <1>5. CallInv /\ WindowInv
    BY DEF CallInv, WindowInv, Follows
  <1>6. DeliveredInOrder /\ NeverStarved
    BY DEF DeliveredInOrder, NeverStarved, Positions
  <1> QED  BY <1>2, <1>3, <1>4, <1>5, <1>6 DEF IInv

\* Steps that touch neither the slots nor the DMA keep everything said about them.
LEMMA DataUnchanged ==
    ASSUME IInv, UNCHANGED <<slots, mem, out, queue, nextId, doneId, readOffset>>
    PROVE  IdInv' /\ SlotInv' /\ JobInv' /\ LandedInv' /\ DeliveredInOrder'
  BY DEF IInv, IdInv, SlotInv, JobInv, LandedInv, InFlight, DeliveredInOrder

LEMMA FillNothingStep == IInv /\ FillNothing => IInv'
  <1> SUFFICES ASSUME IInv, FillNothing PROVE IInv'
    OBVIOUS
  <1>1. IdInv' /\ SlotInv' /\ JobInv' /\ LandedInv' /\ DeliveredInOrder'
    BY DataUnchanged DEF FillNothing, state, dma
  <1>2. TypeOK'
    BY DEF IInv, TypeOK, FillNothing, FillReturns, state, dma, InFlight
  <1>3. CallInv'
    BY DEF IInv, TypeOK, CallInv, SlotInv, WindowInv, FillNothing, FillReturns, state, dma
  <1>4. WindowInv'
    BY DEF IInv, TypeOK, CallInv, WindowInv, Follows, FillNothing, FillReturns, state, dma
  <1>5. NeverStarved'
    BY DEF IInv, NeverStarved, FillNothing, FillReturns
  <1> QED  BY <1>1, <1>2, <1>3, <1>4, <1>5 DEF IInv

\* A fill asks for at least one byte, within the stream, the slot and the page.
LEMMA FillBytesRange ==
    ASSUME TypeOK, nextOffset # End
    PROVE  /\ FillBytes \in 1 .. SlotBytes
           /\ nextOffset + FillBytes <= End
           /\ ((Base + nextOffset) % Page) + FillBytes <= Page
  <1> DEFINE r == (Base + nextOffset) % Page
  <1>1. r \in 0 .. (Page - 1)
    <2>1. Base + nextOffset \in Nat
      BY StreamAssumption DEF TypeOK
    <2> QED  BY <2>1, ModRange
  <1>2. FillBytes = Minimum(Minimum(End - nextOffset, SlotBytes), Page - r)
    BY DEF FillBytes
  <1> HIDE DEF r
  <1>3. /\ FillBytes \in 1 .. SlotBytes /\ nextOffset + FillBytes <= End
        /\ r + FillBytes <= Page
    BY <1>1, <1>2, StreamAssumption DEF Minimum, TypeOK
  <1> QED  BY <1>3 DEF r

LEMMA FillSubmitStep == IInv /\ FillSubmit => IInv'
  <1> SUFFICES ASSUME IInv, FillSubmit PROVE IInv'
    OBVIOUS
  <1> DEFINE n == FillBytes
             new == [offset |-> nextOffset, bytes |-> n, used |-> 0, id |-> nextId]
  <1>1. /\ n \in 1 .. SlotBytes /\ nextOffset + n <= End /\ n \in Nat
        /\ ((Base + nextOffset) % Page) + n <= Page
    BY FillBytesRange, StreamAssumption DEF IInv, FillSubmit
  <1> HIDE DEF n
  <1>2. /\ TypeOK /\ IdInv /\ index \in SlotIndex /\ nextOffset \in Nat /\ nextId \in Ids
        /\ Begin <= nextOffset
    BY StreamAssumption DEF IInv, TypeOK
  <1>3. Launch(index, nextOffset, n)
    BY DEF FillSubmit, n
  <1>4. /\ queue' \in Seq(Job) /\ Len(queue') <= Depth
        /\ nextId' \in Ids /\ doneId' = doneId
        /\ DOMAIN queue' = 1 .. (Len(queue) + 1)
        /\ \A i \in DOMAIN queue : i \in DOMAIN queue' /\ queue'[i] = queue[i]
        /\ queue'[Len(queue) + 1] =
             [id |-> nextId, slot |-> index, offset |-> nextOffset, bytes |-> n]
        /\ IdInv'
    BY <1>1, <1>2, <1>3, LaunchStep
  <1>5. /\ slots' = [slots EXCEPT ![index] = new]
        /\ nextOffset' = nextOffset + n
        /\ mem' = [mem EXCEPT ![index] = [k \in 0 .. (SlotBytes - 1) |->
                                            IF k < n THEN None ELSE mem[index][k]]]
        /\ UNCHANGED <<readOffset, current, failed, joinFailed, out, foreign>>
        /\ pc \in {"init", "refill"} /\ FillReturns
    BY DEF FillSubmit, n
  <1>6. new \in Slot
    BY <1>1, <1>2, HalfIdsAssumption, StreamAssumption DEF Slot, Ids, IdSpace
  <1>7. /\ slots \in [SlotIndex -> Slot]
        /\ slots'[index] = new
        /\ \A s \in SlotIndex \ {index} : slots'[s] = slots[s] /\ mem'[s] = mem[s]
    BY <1>2, <1>5 DEF TypeOK
  <1>8. DOMAIN queue = 1 .. Len(queue) /\ Len(queue) \in Nat
    BY <1>2 DEF TypeOK
  <1>9. TypeOK'
    <2>0. nextOffset' \in Begin .. End
      BY <1>1, <1>2, <1>5, StreamAssumption
    <2>1. slots' \in [SlotIndex -> Slot]
      BY <1>5, <1>6, <1>7
    <2>2. mem' \in [SlotIndex -> [0 .. (SlotBytes - 1) -> Bytes]]
      BY <1>2, <1>5 DEF TypeOK, Bytes
    <2>3. /\ pc' \in {"init", "idle", "read", "refill", "finish", "done"}
          /\ index' \in SlotIndex /\ want' \in 0 .. MaxRead
          /\ ret' \in {"none", "ok", "rejected", "starved", "failed"}
      BY <1>2, <1>5 DEF TypeOK, FillReturns
    <2> QED  BY <2>0, <2>1, <2>2, <2>3, <1>2, <1>4, <1>5 DEF TypeOK
  <1>10. SlotInv'
    <2> SUFFICES ASSUME NEW s \in SlotIndex
                 PROVE  /\ slots'[s].id # 0 => slots'[s].bytes # 0 /\ slots'[s].used = 0
                        /\ slots'[s].bytes # 0 =>
                             /\ slots'[s].used < slots'[s].bytes
                             /\ Begin <= slots'[s].offset
                             /\ slots'[s].offset + slots'[s].bytes <= End
                             /\ ((Base + slots'[s].offset) % Page) + slots'[s].bytes <= Page
      BY DEF SlotInv
    <2>1. CASE s = index
      BY <2>1, <1>1, <1>2, <1>7
    <2>2. CASE s # index
      BY <2>2, <1>7 DEF IInv, SlotInv
    <2> QED  BY <2>1, <2>2
  <1>11. JobInv'
    <2> SUFFICES ASSUME NEW i \in DOMAIN queue', queue'[i].slot \in SlotIndex
                 PROVE  /\ queue'[i].id = slots'[queue'[i].slot].id
                        /\ queue'[i].offset = slots'[queue'[i].slot].offset
                        /\ queue'[i].bytes = slots'[queue'[i].slot].bytes
      BY DEF JobInv
    <2>1. CASE i \in DOMAIN queue
      <3>1. queue'[i] = queue[i] /\ queue[i] \in Job
        BY <2>1, <1>2, <1>4 DEF TypeOK
      <3>2. /\ queue[i].id = slots[queue[i].slot].id
            /\ queue[i].offset = slots[queue[i].slot].offset
            /\ queue[i].bytes = slots[queue[i].slot].bytes
        BY <2>1, <3>1 DEF IInv, JobInv
      <3>3. slots[index].id = 0
        BY <1>5 DEF IInv, CallInv
      <3>4. queue[i].slot # index
        BY <3>1, <3>2, <3>3 DEF Job, Ids
      <3> QED  BY <3>1, <3>2, <3>4, <1>7
    <2>2. CASE i = Len(queue) + 1
      BY <2>2, <1>2, <1>4, <1>7
    <2> QED  BY <2>1, <2>2, <1>4, <1>8
  <1>12. LandedInv'
    <2> SUFFICES ASSUME NEW s \in SlotIndex, slots'[s].bytes # 0, ~InFlight(s)'
                 PROVE  \A k \in 0 .. (slots'[s].bytes - 1) : mem'[s][k] = slots'[s].offset + k
      BY DEF LandedInv
    <2>1. \A i \in DOMAIN queue' : queue'[i].slot # s
      BY DEF InFlight
    <2>2. s # index
      BY <2>1, <1>4, <1>8
    <2>3. ~InFlight(s)
      BY <2>1, <1>4 DEF InFlight
    <2> QED  BY <2>2, <2>3, <1>7 DEF IInv, LandedInv
  <1>13. CallInv'
    BY <1>2, <1>5, <1>7 DEF IInv, CallInv, SlotInv, WindowInv, FillReturns, TypeOK
  <1>14. WindowInv'
    <2>1. /\ current' = current /\ readOffset' = readOffset /\ failed' = failed
          /\ nextOffset' = nextOffset + n /\ current \in SlotIndex
          /\ slots'[index].offset = nextOffset /\ slots'[index].bytes = n
          /\ slots'[index].used = 0 /\ n # 0 /\ n \in Nat
          /\ index # 1 - current => slots'[1 - current] = slots[1 - current]
          /\ index # current => slots'[current] = slots[current]
      BY <1>1, <1>2, <1>5, <1>7 DEF TypeOK
    <2>2. slots[index].bytes = 0 /\ nextOffset # End
      BY DEF IInv, CallInv, FillSubmit
    <2>a. /\ \A s \in SlotIndex : /\ slots[s].offset \in Nat /\ slots[s].bytes \in Nat
                                 /\ slots[s].used \in Nat
          /\ readOffset \in Nat
      BY StreamAssumption DEF IInv, TypeOK, Slot
    <2>3. CASE pc = "init" /\ index = 0
      BY <2>1, <2>2, <2>3, <1>2, <1>5 DEF IInv, WindowInv, Follows, FillReturns
    <2>4. CASE pc = "init" /\ index = 1
      BY <2>1, <2>2, <2>4, <2>a, <1>2, <1>5 DEF IInv, WindowInv, Follows, FillReturns
    <2>5. CASE pc = "refill"
      <3>1. /\ index = 1 - current /\ Follows(slots[current], readOffset)
            /\ slots[current].bytes = 0 => readOffset = End
        BY <2>5 DEF IInv, WindowInv
      <3>2. /\ slots[current].bytes # 0 /\ slots[current].offset = readOffset
            /\ slots[current].used = 0 /\ readOffset + slots[current].bytes = nextOffset
        BY <3>1, <2>2 DEF Follows
      <3>3. slots'[current] = slots[current] /\ slots'[1 - current].offset = nextOffset
        BY <3>1, <2>1, <1>2
      <3>4. pc' \in {"idle", "read"}
        BY <2>5, <1>5 DEF FillReturns
      <3>5. 1 - current \in SlotIndex
        BY <2>1
      <3>6. Follows(slots[1 - current], slots[current].offset + slots[current].bytes)'
        BY <3>1, <3>2, <3>3, <2>1, <2>a DEF Follows
      <3>7. slots'[1 - current].bytes # 0
        BY <3>1, <2>1
      <3>8. slots[current].offset + slots[current].used = readOffset
        BY <3>2, <2>1, <2>a
      <3> QED  BY <3>2, <3>3, <3>4, <3>6, <3>7, <3>8, <2>1 DEF WindowInv
    <2> QED  BY <2>3, <2>4, <2>5, <1>2, <1>5
  <1>15. DeliveredInOrder' /\ NeverStarved'
    BY <1>5 DEF IInv, DeliveredInOrder, NeverStarved, FillReturns
  <1> QED  BY <1>4, <1>9, <1>10, <1>11, <1>12, <1>13, <1>14, <1>15 DEF IInv

LEMMA FillRefusedStep == IInv /\ FillRefused => IInv'
  <1> SUFFICES ASSUME IInv, FillRefused PROVE IInv'
    OBVIOUS
  <1> DEFINE new == [offset |-> nextOffset, bytes |-> 0, used |-> 0, id |-> 0]
  <1>1. /\ slots' = [slots EXCEPT ![index] = new]
        /\ failed' = TRUE /\ ret' = "failed" /\ want' = 0 /\ index' = 0
        /\ pc' \in {"finish", "idle"} /\ pc \in {"init", "refill"}
        /\ UNCHANGED <<readOffset, nextOffset, current, joinFailed, mem, out, dma>>
    BY DEF FillRefused
  <1>2. /\ slots \in [SlotIndex -> Slot] /\ index \in SlotIndex /\ new \in Slot
    BY HalfIdsAssumption, StreamAssumption DEF IInv, TypeOK, Slot, IdSpace
  <1>3. /\ slots'[index] = new /\ slots' \in [SlotIndex -> Slot]
        /\ \A s \in SlotIndex \ {index} : slots'[s] = slots[s]
    BY <1>1, <1>2
  <1>4. ~InFlight(index)
    BY <1>1, <1>2, JoinedNotInFlight DEF IInv, CallInv
  <1>5. TypeOK'
    BY <1>1, <1>2, <1>3, StreamAssumption DEF IInv, TypeOK, dma
  <1>6. IdInv'
    BY <1>1 DEF IInv, IdInv, dma
  <1>7. SlotInv' /\ LandedInv'
    BY <1>1, <1>3 DEF IInv, SlotInv, LandedInv, InFlight, dma
  <1>8. JobInv'
    BY <1>1, <1>3, <1>4 DEF IInv, JobInv, InFlight, dma
  <1>9. CallInv' /\ WindowInv'
    BY <1>1 DEF IInv, TypeOK, CallInv, WindowInv
  <1>10. DeliveredInOrder' /\ NeverStarved'
    BY <1>1 DEF IInv, DeliveredInOrder, NeverStarved
  <1> QED  BY <1>5, <1>6, <1>7, <1>8, <1>9, <1>10 DEF IInv

LEMMA RetireInvariant == IInv /\ Retire => IInv'
  <1> SUFFICES ASSUME IInv, Retire PROVE IInv'
    OBVIOUS
  <1> DEFINE job == queue[1]
  <1>1. /\ queue' \in Seq(Job) /\ Len(queue') <= Depth
        /\ doneId' = job.id /\ job \in Job /\ Head(queue) = job
        /\ 1 \in DOMAIN queue
        /\ DOMAIN queue' = 1 .. (Len(queue) - 1)
        /\ \A i \in DOMAIN queue' : i + 1 \in DOMAIN queue /\ queue'[i] = queue[i + 1]
        /\ IdInv'
    BY RetireStep DEF IInv
  <1>2. /\ mem' = [s \in SlotIndex |->
                     IF s # job.slot THEN mem[s]
                     ELSE [k \in 0 .. (SlotBytes - 1) |->
                             IF k < job.bytes THEN job.offset + k ELSE mem[s][k]]]
        /\ UNCHANGED <<state, call, out, nextId, foreign>>
    BY <1>1 DEF Retire
  <1>3. job.slot \in SlotIndex =>
          /\ job.offset = slots[job.slot].offset /\ job.bytes = slots[job.slot].bytes
          /\ job.id = slots[job.slot].id
    BY <1>1 DEF IInv, JobInv
  <1>4. /\ slots' = slots /\ readOffset' = readOffset /\ out' = out /\ pc' = pc /\ ret' = ret
        /\ \A s \in SlotIndex : slots[s] \in Slot
    BY <1>2 DEF state, call, IInv, TypeOK
  <1>5. TypeOK'
    <2>1. mem' \in [SlotIndex -> [0 .. (SlotBytes - 1) -> Bytes]]
      <3>1. ASSUME NEW s \in SlotIndex, s = job.slot, NEW k \in 0 .. (SlotBytes - 1), k < job.bytes
            PROVE  job.offset + k \in Bytes
        <4>1. /\ job.offset = slots[s].offset /\ job.bytes = slots[s].bytes
              /\ slots[s].bytes # 0 /\ slots[s] \in Slot
          BY <1>3, <1>1, <1>4, <3>1, StreamAssumption DEF Job
        <4>2. Begin <= slots[s].offset /\ slots[s].offset + slots[s].bytes <= End
          BY <4>1 DEF IInv, SlotInv
        <4> QED  BY <4>1, <4>2, <3>1, StreamAssumption DEF Bytes, Positions, Slot
      <3>2. mem \in [SlotIndex -> [0 .. (SlotBytes - 1) -> Bytes]]
        BY DEF IInv, TypeOK
      <3> HIDE DEF job
      <3> QED  BY <3>1, <3>2, <1>2
    <2>2. doneId' \in 0 .. (IdSpace - 1)
      BY <1>1 DEF Job, Ids
    <2> QED  BY <2>1, <2>2, <1>1, <1>2 DEF IInv, TypeOK, state, call
  <1>6. SlotInv' /\ DeliveredInOrder' /\ NeverStarved'
    BY <1>4 DEF IInv, SlotInv, DeliveredInOrder, NeverStarved
  <1>7. JobInv'
    BY <1>1, <1>4 DEF IInv, JobInv
  <1>8. LandedInv'
    <2> SUFFICES ASSUME NEW s \in SlotIndex, slots[s].bytes # 0, ~InFlight(s)',
                        NEW k \in 0 .. (slots[s].bytes - 1)
                 PROVE  mem'[s][k] = slots[s].offset + k
      BY <1>4 DEF LandedInv
    <2>1. k \in 0 .. (SlotBytes - 1)
      BY <1>4, StreamAssumption DEF Slot
    <2>2. CASE s = job.slot
      <3>1. job.offset = slots[s].offset /\ job.bytes = slots[s].bytes
        BY <2>2, <1>3
      <3>2. k < job.bytes
        BY <3>1, <1>4 DEF Slot
      <3> HIDE DEF job
      <3> QED  BY <2>1, <2>2, <3>1, <3>2, <1>2
    <2>3. CASE s # job.slot
      <3>1. ~InFlight(s)
        <4> SUFFICES ASSUME NEW i \in DOMAIN queue, queue[i].slot = s PROVE FALSE
          BY DEF InFlight
        <4>1. DOMAIN queue = 1 .. Len(queue) /\ Len(queue) \in Nat
          BY DEF IInv, TypeOK
        <4>2. i - 1 \in DOMAIN queue' /\ queue'[i - 1] = queue[i]
          BY <2>3, <4>1, <1>1
        <4> QED  BY <4>2 DEF InFlight
      <3>2. mem'[s] = mem[s]
        BY <2>3, <1>2
      <3> QED  BY <3>1, <3>2 DEF IInv, LandedInv
    <2> QED  BY <2>2, <2>3
  <1>9. CallInv' /\ WindowInv'
    BY <1>2 DEF IInv, CallInv, WindowInv, Follows, state, call
  <1> QED  BY <1>1, <1>5, <1>6, <1>7, <1>8, <1>9 DEF IInv

LEMMA ForeignLaunchStep == IInv /\ ForeignLaunch => IInv'
  <1> SUFFICES ASSUME IInv, ForeignLaunch PROVE IInv'
    OBVIOUS
  <1>1. /\ Launch(Foreign, 0, 0) /\ foreign < MaxForeign /\ foreign' = foreign + 1
        /\ UNCHANGED <<state, call, mem, out>>
    BY DEF ForeignLaunch
  <1>2. /\ queue' \in Seq(Job) /\ Len(queue') <= Depth
        /\ nextId' \in Ids /\ doneId' = doneId
        /\ DOMAIN queue' = 1 .. (Len(queue) + 1)
        /\ \A i \in DOMAIN queue : i \in DOMAIN queue' /\ queue'[i] = queue[i]
        /\ queue'[Len(queue) + 1] = [id |-> nextId, slot |-> Foreign, offset |-> 0, bytes |-> 0]
        /\ IdInv'
    <2>1. 0 \in 0 .. SlotBytes /\ Foreign \in SlotIndex \cup {Foreign} /\ 0 \in Nat
      BY StreamAssumption
    <2>2. TypeOK /\ IdInv
      BY DEF IInv
    <2> HIDE DEF Foreign
    <2> QED  BY <1>1, <2>1, <2>2, LaunchStep
  <1>3. DOMAIN queue = 1 .. Len(queue) /\ Len(queue) \in Nat
    BY DEF IInv, TypeOK
  <1>4. \A i \in DOMAIN queue' : queue'[i].slot \in SlotIndex =>
          i \in DOMAIN queue /\ queue'[i] = queue[i]
    BY <1>2, <1>3
  <1>5. \A s \in SlotIndex : InFlight(s)' <=> InFlight(s)
    BY <1>2, <1>4 DEF InFlight
  <1>6. TypeOK'
    <2>1. foreign' \in 0 .. MaxForeign
      BY <1>1, StreamAssumption DEF IInv, TypeOK
    <2> QED  BY <2>1, <1>1, <1>2 DEF IInv, TypeOK, state, call
  <1>7. SlotInv' /\ DeliveredInOrder' /\ NeverStarved' /\ CallInv' /\ WindowInv'
    BY <1>1 DEF IInv, SlotInv, DeliveredInOrder, NeverStarved, CallInv, WindowInv, Follows,
                state, call
  <1>8. JobInv' /\ LandedInv'
    BY <1>1, <1>4, <1>5 DEF IInv, JobInv, LandedInv, state
  <1> QED  BY <1>2, <1>6, <1>7, <1>8 DEF IInv

LEMMA ReadStartStep ==
    ASSUME IInv, NEW offset \in Begin .. End, NEW n \in 1 .. MaxRead, ReadStart(offset, n)
    PROVE  IInv'
  <1>1. IdInv' /\ SlotInv' /\ JobInv' /\ LandedInv' /\ DeliveredInOrder'
    BY DataUnchanged DEF ReadStart, state, dma
  <1>2. TypeOK'
    BY StreamAssumption DEF IInv, TypeOK, ReadStart, state, dma
  <1>3. CallInv'
    BY StreamAssumption DEF IInv, TypeOK, CallInv, ReadStart, ReadAccepted, state, dma
  <1>4. WindowInv' /\ NeverStarved'
    BY DEF IInv, WindowInv, Follows, NeverStarved, ReadStart, state
  <1> QED  BY <1>1, <1>2, <1>3, <1>4 DEF IInv

LEMMA ReadRejectedStep ==
    ASSUME IInv, NEW offset, NEW n, ReadRejected(offset, n)
    PROVE  IInv'
  <1>1. IdInv' /\ SlotInv' /\ JobInv' /\ LandedInv' /\ DeliveredInOrder'
    BY DataUnchanged DEF ReadRejected, state, dma
  <1>2. TypeOK'
    BY DEF IInv, TypeOK, ReadRejected, state, dma
  <1>3. CallInv' /\ WindowInv' /\ NeverStarved'
    BY DEF IInv, CallInv, WindowInv, Follows, NeverStarved, ReadRejected, state, dma
  <1> QED  BY <1>1, <1>2, <1>3 DEF IInv

\* An accepted read finds its slot readable: the window starts with the current slot.
LEMMA ReadNotStarved == IInv /\ pc = "read" => Readable
  <1> SUFFICES ASSUME IInv, pc = "read" PROVE Readable
    OBVIOUS
  <1>1. ~failed /\ want > 0 /\ readOffset + want <= End /\ want \in Nat
    BY StreamAssumption DEF IInv, CallInv, TypeOK
  <1>2. readOffset # End /\ readOffset \in Nat /\ End \in Nat
    BY <1>1, StreamAssumption DEF IInv, TypeOK
  <1>3. slots[current].bytes # 0
    BY <1>1, <1>2 DEF IInv, WindowInv
  <1> QED  BY <1>1, <1>3 DEF IInv, WindowInv, Readable, cur

LEMMA ReadWaitDoneStep == IInv /\ ReadWaitDone => IInv'
  <1> SUFFICES ASSUME IInv, ReadWaitDone PROVE IInv'
    OBVIOUS
  <1>1. /\ slots' = [slots EXCEPT ![current].id = 0]
        /\ UNCHANGED <<readOffset, nextOffset, current, failed, call, mem, out, dma>>
        /\ current \in SlotIndex /\ slots \in [SlotIndex -> Slot]
    BY DEF ReadWaitDone, IInv, TypeOK
  <1>2. ~InFlight(current)
    BY <1>1, JoinedNotInFlight DEF IInv, ReadWaitDone, cur
  <1>3. /\ slots' \in [SlotIndex -> Slot]
        /\ slots'[current] = [slots[current] EXCEPT !.id = 0]
        /\ \A s \in SlotIndex \ {current} : slots'[s] = slots[s]
    BY <1>1, HalfIdsAssumption DEF Slot, IdSpace
  <1>4. \A s \in SlotIndex : /\ slots'[s].bytes = slots[s].bytes
                             /\ slots'[s].offset = slots[s].offset
                             /\ slots'[s].used = slots[s].used
                             /\ slots'[s].id \in {slots[s].id, 0}
    BY <1>1, <1>3 DEF Slot
  <1>5. TypeOK'
    BY <1>1, <1>3 DEF IInv, TypeOK, call, dma
  <1>6. IdInv'
    BY <1>1 DEF IInv, IdInv, dma
  <1>7. SlotInv' /\ LandedInv'
    BY <1>1, <1>4 DEF IInv, SlotInv, LandedInv, InFlight, dma
  <1>8. JobInv'
    BY <1>1, <1>2, <1>3 DEF IInv, JobInv, InFlight, dma
  <1>9. CallInv'
    <2> USE <1>1, <1>4
    <2> QED  BY DEF IInv, CallInv, call, TypeOK
  <1>10. WindowInv'
    <2>1. 1 - current \in SlotIndex /\ 0 \in SlotIndex /\ 1 \in SlotIndex
      BY <1>1
    <2> QED  BY <2>1, <1>1, <1>4 DEF IInv, WindowInv, Follows, call
  <1>11. DeliveredInOrder' /\ NeverStarved'
    BY <1>1 DEF IInv, DeliveredInOrder, NeverStarved, call
  <1> QED  BY <1>5, <1>6, <1>7, <1>8, <1>9, <1>10, <1>11 DEF IInv

LEMMA ReadGivesUpStep == IInv /\ ReadGivesUp => IInv'
  <1> SUFFICES ASSUME IInv, ReadGivesUp PROVE IInv'
    OBVIOUS
  <1>1. IdInv' /\ SlotInv' /\ JobInv' /\ LandedInv' /\ DeliveredInOrder'
    BY DataUnchanged DEF ReadGivesUp, dma
  <1>2. failed' = TRUE /\ ret' = "failed"
    BY ReadNotStarved DEF ReadGivesUp
  <1>3. TypeOK'
    BY <1>2, StreamAssumption DEF IInv, TypeOK, ReadGivesUp, dma
  <1>4. CallInv' /\ WindowInv' /\ NeverStarved'
    BY <1>2, StreamAssumption DEF IInv, TypeOK, CallInv, WindowInv, NeverStarved, ReadGivesUp
  <1> QED  BY <1>1, <1>3, <1>4 DEF IInv

LEMMA FinishStartStep == IInv /\ FinishStart => IInv'
  <1> SUFFICES ASSUME IInv, FinishStart PROVE IInv'
    OBVIOUS
  <1>1. IdInv' /\ SlotInv' /\ JobInv' /\ LandedInv' /\ DeliveredInOrder'
    BY DataUnchanged DEF FinishStart, state, dma
  <1>2. TypeOK'
    BY DEF IInv, TypeOK, FinishStart, state, dma
  <1>3. CallInv' /\ WindowInv' /\ NeverStarved'
    BY DEF IInv, CallInv, WindowInv, NeverStarved, FinishStart, state
  <1> QED  BY <1>1, <1>2, <1>3 DEF IInv

LEMMA FinishTimeoutStep == IInv /\ FinishTimeout => IInv'
  <1> SUFFICES ASSUME IInv, FinishTimeout PROVE IInv'
    OBVIOUS
  <1>1. IdInv' /\ SlotInv' /\ JobInv' /\ LandedInv' /\ DeliveredInOrder'
    BY DataUnchanged DEF FinishTimeout, state, dma
  <1>2. TypeOK'
    <2>1. joinFailed' \in BOOLEAN
      BY Zenon DEF FinishTimeout
    <2> QED  BY <2>1 DEF IInv, TypeOK, FinishTimeout, FinishAdvances, state, dma
  <1>3. CallInv' /\ WindowInv' /\ NeverStarved'
    BY DEF IInv, CallInv, WindowInv, NeverStarved, FinishTimeout, FinishAdvances, state
  <1> QED  BY <1>1, <1>2, <1>3 DEF IInv

LEMMA FinishDoneStep == IInv /\ FinishDone => IInv'
  <1> SUFFICES ASSUME IInv, FinishDone PROVE IInv'
    OBVIOUS
  <1>1. /\ slots' = [slots EXCEPT ![index].id = 0]
        /\ UNCHANGED <<readOffset, nextOffset, current, failed, want, ret, joinFailed,
                       mem, out, dma>>
        /\ FinishAdvances /\ pc = "finish"
        /\ index \in SlotIndex /\ slots \in [SlotIndex -> Slot]
    BY DEF FinishDone, IInv, TypeOK
  <1>2. ~InFlight(index)
    BY <1>1, JoinedNotInFlight DEF IInv, FinishDone
  <1>3. /\ slots' \in [SlotIndex -> Slot]
        /\ slots'[index] = [slots[index] EXCEPT !.id = 0]
        /\ \A s \in SlotIndex \ {index} : slots'[s] = slots[s]
    BY <1>1, HalfIdsAssumption DEF Slot, IdSpace
  <1>4. \A s \in SlotIndex : /\ slots'[s].bytes = slots[s].bytes
                             /\ slots'[s].offset = slots[s].offset
                             /\ slots'[s].used = slots[s].used
                             /\ slots'[s].id \in {slots[s].id, 0}
                             /\ s = index => slots'[s].id = 0
    BY <1>1, <1>3 DEF Slot
  <1>5. TypeOK'
    BY <1>1, <1>3 DEF IInv, TypeOK, FinishAdvances, dma
  <1>6. IdInv'
    BY <1>1 DEF IInv, IdInv, dma
  <1>7. SlotInv' /\ LandedInv'
    BY <1>1, <1>4 DEF IInv, SlotInv, LandedInv, InFlight, dma
  <1>8. JobInv'
    BY <1>1, <1>2, <1>3 DEF IInv, JobInv, InFlight, dma
  <1>9. CallInv'
    BY <1>1, <1>4 DEF IInv, CallInv, FinishAdvances
  <1>10. WindowInv'
    BY <1>1 DEF IInv, WindowInv, FinishAdvances
  <1>11. DeliveredInOrder' /\ NeverStarved'
    BY <1>1 DEF IInv, DeliveredInOrder, NeverStarved
  <1> QED  BY <1>5, <1>6, <1>7, <1>8, <1>9, <1>10, <1>11 DEF IInv

LEMMA CopyChunkStep == IInv /\ CopyChunk => IInv'
  <1> SUFFICES ASSUME IInv, CopyChunk PROVE IInv'
    OBVIOUS
  <1> DEFINE c == slots[current]
             o == slots[1 - current]
             n == Chunk
  <1>1. /\ pc = "read" /\ c.bytes # 0 /\ c.offset + c.used = readOffset /\ c.id = 0
        /\ UNCHANGED <<nextOffset, failed, joinFailed, mem, dma>>
        /\ readOffset' = readOffset + n /\ want' = want - n
    BY DEF CopyChunk, Readable, cur
  <1>2. /\ current \in SlotIndex /\ 1 - current \in SlotIndex
        /\ slots \in [SlotIndex -> Slot] /\ c \in Slot /\ o \in Slot
        /\ want \in Nat /\ readOffset \in Nat /\ End \in Nat
        /\ want > 0 /\ readOffset + want <= End /\ ~failed
    BY <1>1, StreamAssumption DEF IInv, TypeOK, CallInv
  <1>3. c.bytes \in Nat /\ c.used \in Nat /\ c.offset \in Nat /\ c.used < c.bytes
    BY <1>1, <1>2, StreamAssumption DEF Slot, IInv, SlotInv
  <1>4. n \in Nat /\ n > 0 /\ n <= want /\ c.used + n <= c.bytes
    BY <1>2, <1>3 DEF Chunk, cur, Minimum
  <1>5. ~InFlight(current)
    BY <1>1, <1>2, JoinedNotInFlight DEF IInv
  <1>6. \A p \in readOffset .. (readOffset + n - 1) : mem[current][c.used + (p - readOffset)] = p
    <2> SUFFICES ASSUME NEW p \in readOffset .. (readOffset + n - 1)
                 PROVE  mem[current][c.used + (p - readOffset)] = p
      OBVIOUS
    <2> HIDE DEF n
    <2>1. c.used + (p - readOffset) \in 0 .. (c.bytes - 1)
      BY <1>2, <1>3, <1>4
    <2>2. mem[current][c.used + (p - readOffset)] = c.offset + (c.used + (p - readOffset))
      BY <2>1, <1>1, <1>2, <1>5 DEF IInv, LandedInv
    <2> QED  BY <2>2, <1>1, <1>2, <1>3
  <1>7. out' = [p \in Positions |->
                  IF p \in readOffset .. (readOffset + n - 1)
                  THEN mem[current][c.used + (p - readOffset)] ELSE out[p]]
    BY DEF CopyChunk, cur
  <1>8. \A p \in Positions : out'[p] = IF p < readOffset' THEN p ELSE None
    <2> SUFFICES ASSUME NEW p \in Positions PROVE out'[p] = IF p < readOffset' THEN p ELSE None
      OBVIOUS
    <2> HIDE DEF n, c
    <2>1. out[p] = IF p < readOffset THEN p ELSE None
      BY DEF IInv, DeliveredInOrder
    <2>2. p \in Int
      BY StreamAssumption DEF Positions
    <2>3. CASE p \in readOffset .. (readOffset + n - 1)
      BY <2>3, <1>1, <1>2, <1>4, <1>6, <1>7
    <2>4. CASE p \notin readOffset .. (readOffset + n - 1)
      BY <2>1, <2>2, <2>4, <1>1, <1>2, <1>4, <1>7
    <2> QED  BY <2>3, <2>4
  <1>9. /\ slots' \in [SlotIndex -> Slot]
        /\ slots'[1 - current] = o
        /\ slots'[current].offset = c.offset /\ slots'[current].id = 0
        /\ slots'[current].used = c.used + n
        /\ slots'[current].bytes = IF c.used + n = c.bytes THEN 0 ELSE c.bytes
    <2> HIDE DEF n
    <2>1. slots' = [slots EXCEPT ![current] =
                      [c EXCEPT !.used = c.used + n,
                                !.bytes = IF c.used + n = c.bytes THEN 0 ELSE c.bytes]]
      <3>1. CASE c.used + n = c.bytes
        <4>1. slots' = [slots EXCEPT ![current].used = @ + n, ![current].bytes = 0]
          BY <3>1 DEF CopyChunk, Exhausted, cur, n
        <4> QED  BY <4>1, <3>1, <1>2
      <3>2. CASE c.used + n # c.bytes
        <4>1. slots' = [slots EXCEPT ![current].used = @ + n]
          BY <3>2 DEF CopyChunk, Exhausted, cur, n
        <4>2. [c EXCEPT !.used = c.used + n, !.bytes = c.bytes] = [c EXCEPT !.used = c.used + n]
          BY <1>2 DEF Slot
        <4> QED  BY <4>1, <4>2, <3>2, <1>2
      <3> QED  BY <3>1, <3>2
    <2>2. c.used + n \in 0 .. SlotBytes
      BY <1>2, <1>3, <1>4, StreamAssumption DEF Slot
    <2> DEFINE b == IF c.used + n = c.bytes THEN 0 ELSE c.bytes
    <2>4. b \in 0 .. SlotBytes
      BY <1>2, StreamAssumption DEF Slot
    <2> HIDE DEF b, c
    <2>5. [c EXCEPT !.used = c.used + n, !.bytes = b] \in Slot
      BY <2>2, <2>4, <1>2 DEF Slot
    <2> USE DEF b, c
    <2>3. [c EXCEPT !.used = c.used + n,
                    !.bytes = IF c.used + n = c.bytes THEN 0 ELSE c.bytes] \in Slot
      BY <2>5
    <2> QED  BY <2>1, <2>3, <1>1, <1>2 DEF Slot
  <1>10. IF c.used + n = c.bytes
         THEN index' = current /\ current' = 1 - current /\ pc' = "refill" /\ ret' = ret
         ELSE /\ index' = index /\ current' = current
              /\ pc' = IF want = n THEN "idle" ELSE "read"
              /\ ret' = IF want = n THEN "ok" ELSE ret
    BY DEF CopyChunk, Exhausted, OtherSlot, cur
  <1> HIDE DEF n
  <1>11. TypeOK'
    <2>1. out' \in [Positions -> Bytes]
      BY <1>7, <1>8, StreamAssumption DEF Bytes
    <2>2. readOffset' \in Begin .. End /\ want' \in 0 .. MaxRead
      BY <1>1, <1>2, <1>4, StreamAssumption DEF IInv, TypeOK
    <2>3. /\ pc' \in {"init", "idle", "read", "refill", "finish", "done"}
          /\ ret' \in {"none", "ok", "rejected", "starved", "failed"}
          /\ index' \in SlotIndex /\ current' \in SlotIndex
      BY <1>2, <1>10 DEF IInv, TypeOK
    <2> QED  BY <2>1, <2>2, <2>3, <1>1, <1>9 DEF IInv, TypeOK, dma
  <1>12. IdInv'
    BY <1>1 DEF IInv, IdInv, dma
  <1>13. \A s \in SlotIndex : s = current \/ s = 1 - current
    BY <1>2
  <1>14. SlotInv'
    <2> SUFFICES ASSUME NEW s \in SlotIndex
                 PROVE  /\ slots'[s].id # 0 => slots'[s].bytes # 0 /\ slots'[s].used = 0
                        /\ slots'[s].bytes # 0 =>
                             /\ slots'[s].used < slots'[s].bytes
                             /\ Begin <= slots'[s].offset
                             /\ slots'[s].offset + slots'[s].bytes <= End
                             /\ ((Base + slots'[s].offset) % Page) + slots'[s].bytes <= Page
      BY DEF SlotInv
    <2>1. CASE s = current
      BY <2>1, <1>1, <1>2, <1>3, <1>4, <1>9 DEF IInv, SlotInv
    <2>2. CASE s = 1 - current
      BY <2>2, <1>2, <1>9 DEF IInv, SlotInv
    <2> QED  BY <2>1, <2>2, <1>13
  <1>15. JobInv'
    <2>1. UNCHANGED <<queue, doneId>>
      BY <1>1 DEF dma
    <2>2. \A i \in DOMAIN queue : queue[i].slot # current
      BY <1>5 DEF InFlight
    <2> QED  BY <2>1, <2>2, <1>9, <1>13 DEF IInv, JobInv
  <1>16. LandedInv'
    <2> SUFFICES ASSUME NEW s \in SlotIndex, slots'[s].bytes # 0, ~InFlight(s)'
                 PROVE  \A k \in 0 .. (slots'[s].bytes - 1) : mem'[s][k] = slots'[s].offset + k
      BY DEF LandedInv
    <2>1. ~InFlight(s) /\ mem' = mem
      BY <1>1 DEF InFlight, dma
    <2>2. slots'[s].bytes = slots[s].bytes /\ slots'[s].offset = slots[s].offset
      BY <1>9, <1>13
    <2> QED  BY <2>1, <2>2 DEF IInv, LandedInv
  <1>17. CallInv'
    <2>1. CASE c.used + n = c.bytes
      BY <2>1, <1>1, <1>2, <1>4, <1>9, <1>10 DEF CallInv
    <2>2. CASE c.used + n # c.bytes
      BY <2>2, <1>1, <1>2, <1>4, <1>9, <1>10 DEF CallInv
    <2> QED  BY <2>1, <2>2
  <1>18. WindowInv'
    <2>1. /\ Follows(o, c.offset + c.bytes)
          /\ o.bytes = 0 => nextOffset = End
      BY <1>1, <1>2 DEF IInv, WindowInv
    <2>2. CASE c.used + n = c.bytes
      <3>1. /\ pc' = "refill" /\ index' = current /\ current' = 1 - current
            /\ nextOffset' = nextOffset
            /\ slots'[1 - current] = o
        BY <2>2, <1>1, <1>9, <1>10
      <3>2. readOffset' = c.offset + c.bytes
        BY <2>2, <1>1, <1>2, <1>3, <1>4
      <3>3. Follows(slots[current], readOffset)'
        BY <2>1, <3>1, <3>2 DEF Follows
      <3>4. slots'[current'].bytes = 0 => readOffset' = End
        BY <2>1, <3>1, <3>2, <1>2, <1>3 DEF Follows
      <3>5. index' = 1 - current'
        BY <3>1, <1>2
      <3> QED  BY <3>1, <3>3, <3>4, <3>5 DEF WindowInv
    <2>3. CASE c.used + n # c.bytes
      <3>1. /\ pc' \in {"idle", "read"} /\ current' = current /\ nextOffset' = nextOffset
            /\ slots'[1 - current] = o
            /\ slots'[current].bytes # 0 /\ slots'[current].bytes = c.bytes
            /\ slots'[current].offset = c.offset
        BY <2>3, <1>1, <1>9, <1>10
      <3>2. slots'[current].offset + slots'[current].used = readOffset'
        BY <2>3, <1>1, <1>2, <1>3, <1>4, <1>9
      <3>3. Follows(slots[1 - current], slots[current].offset + slots[current].bytes)'
        BY <2>1, <3>1 DEF Follows
      <3> QED  BY <2>1, <3>1, <3>2, <3>3 DEF WindowInv
    <2> QED  BY <2>2, <2>3
  <1>19. DeliveredInOrder' /\ NeverStarved'
    BY <1>8, <1>10 DEF IInv, DeliveredInOrder, NeverStarved
  <1> QED  BY <1>11, <1>12, <1>14, <1>15, <1>16, <1>17, <1>18, <1>19 DEF IInv

LEMMA StutterStep == IInv /\ UNCHANGED vars => IInv'
  BY DEF IInv, TypeOK, IdInv, SlotInv, JobInv, LandedInv, InFlight, CallInv, WindowInv, Follows,
         DeliveredInOrder, NeverStarved, vars, state, call, dma

LEMMA NextInvariant == IInv /\ [Next]_vars => IInv'
  <1> SUFFICES ASSUME IInv, [Next]_vars PROVE IInv'
    OBVIOUS
  <1>1. CASE Processor
    <2>1. CASE FillNothing  BY <2>1, FillNothingStep
    <2>2. CASE FillSubmit  BY <2>2, FillSubmitStep
    <2>3. CASE FillRefused  BY <2>3, FillRefusedStep
    <2>4. CASE ReadWaitDone  BY <2>4, ReadWaitDoneStep
    <2>5. CASE ReadGivesUp  BY <2>5, ReadGivesUpStep
    <2>6. CASE CopyChunk  BY <2>6, CopyChunkStep
    <2>7. CASE FinishDone  BY <2>7, FinishDoneStep
    <2>8. CASE FinishTimeout  BY <2>8, FinishTimeoutStep
    <2> QED
      BY <1>1, <2>1, <2>2, <2>3, <2>4, <2>5, <2>6, <2>7, <2>8 DEF Processor
  <1>2. CASE Caller
    <2>1. ASSUME NEW offset \in Begin .. End, NEW n \in 1 .. MaxRead,
                 ReadStart(offset, n) \/ ReadRejected(offset, n)
          PROVE  IInv'
      BY <2>1, ReadStartStep, ReadRejectedStep
    <2>2. CASE ForeignLaunch  BY <2>2, ForeignLaunchStep
    <2>3. CASE FinishStart  BY <2>3, FinishStartStep
    <2> QED  BY <1>2, <2>1, <2>2, <2>3 DEF Caller
  <1>3. CASE Retire
    BY <1>3, RetireInvariant
  <1>4. CASE Terminated \/ UNCHANGED vars
    BY <1>4, StutterStep DEF Terminated
  <1> QED  BY <1>1, <1>2, <1>3, <1>4 DEF Next

LEMMA Invariance == Spec => []IInv
  BY InitInvariant, NextInvariant, PTL DEF Spec

----
(* How far DONE_ID runs ahead of a slot that waits for its reader. *)

\* One more launch brings an id one step closer to its return, if it brings it anywhere.
LEMMA AheadGrows ==
    ASSUME NEW id \in Ids, NEW next \in Ids
    PROVE  /\ Ahead(id, NextTransferId(next)) <= Ahead(id, next) + 1
           /\ Ahead(id, NextTransferId(id)) = 1
           /\ Ahead(id, next) >= 1
  BY HalfIdsAssumption, SMT DEF Ahead, NextTransferId, Ids, IdSpace

\* An id less than half the space old is not that of the next launch.
LEMMA YoungIsIssued ==
    ASSUME NEW d \in 0 .. (IdSpace - 1), NEW id \in Ids, NEW next \in Ids,
           Ahead(id, next) < HalfIds
    PROVE  Ahead(d, id) # Ahead(d, next)
  BY HalfIdsAssumption, SMT DEF Ahead, Ids, IdSpace

\* An id less than half the space old that is not ahead of DONE_ID reads as completed.
LEMMA RetiredCompleted ==
    ASSUME NEW d \in 0 .. (IdSpace - 1), NEW id \in Ids, NEW next \in Ids,
           Ahead(id, next) < HalfIds, Ahead(d, id) >= Ahead(d, next)
    PROVE  Completed(d, id)
  BY HalfIdsAssumption, SMT DEF Ahead, Completed, WordMinus, Ids, IdSpace

\* An id that is a few steps ahead once a job has retired was one step further before.
LEMMA AheadUnretire ==
    ASSUME NEW d \in 0 .. (IdSpace - 1), NEW first \in Ids, NEW id \in Ids,
           Ahead(d, first) = 1, Ahead(first, id) < HalfIds
    PROVE  Ahead(d, id) = Ahead(first, id) + 1
  BY HalfIdsAssumption, SMT DEF Ahead, Ids, IdSpace

\* What Ahead counts is at least one and less than the identifiers there are.
LEMMA AheadRange ==
    ASSUME NEW d \in (0 .. (IdSpace - 1)) \cup Ids, NEW id \in Ids
    PROVE  Ahead(d, id) \in 1 .. (IdSpace - 1) /\ Ahead(d, id) \in Int
  BY HalfIdsAssumption, SMT DEF Ahead, Ids, IdSpace

\* No slot remembers an id at first.
LEMMA TimeoutInit == Init => TimeoutInv
  BY DEF Init, TimeoutInv, AgeInv, HeldInv

\* A step that leaves the DMA alone and forgets ids at most, where no slot may see fewer launches.
LEMMA TimeoutKept ==
    ASSUME TimeoutInv, UNCHANGED dma,
           \A s \in SlotIndex : slots'[s].id \in {slots[s].id, 0},
           \A s \in SlotIndex : slots'[s].id # 0 => Launches(s) <= Launches(s)',
           IInv, TypeOK'
    PROVE  TimeoutInv'
  <1>1. /\ queue' = queue /\ nextId' = nextId /\ doneId' = doneId
        /\ \A s \in SlotIndex : InFlight(s)' <=> InFlight(s)
    BY DEF dma, InFlight
  <1>2. AgeInv'
    <2> SUFFICES ASSUME NEW s \in SlotIndex, slots'[s].id # 0
                 PROVE  Ahead(slots'[s].id, nextId') <= Launches(s)'
      BY DEF AgeInv
    <2>1. slots'[s].id = slots[s].id /\ Launches(s) <= Launches(s)'
      OBVIOUS
    <2>2. Ahead(slots[s].id, nextId) <= Launches(s)
      BY <2>1 DEF TimeoutInv, AgeInv
    <2>3. slots[s].id \in 0 .. (IdSpace - 1) /\ nextId \in Ids
      BY DEF IInv, TypeOK, Slot
    <2>4. Ahead(slots[s].id, nextId) \in Int
      BY <2>3, AheadRange
    <2>5. Launches(s) \in Int /\ Launches(s)' \in Int
      BY StreamAssumption DEF Launches, IInv, TypeOK
    <2> HIDE DEF dma
    <2> QED  BY <1>1, <2>1, <2>2, <2>4, <2>5
  <1>3. HeldInv'
    BY <1>1 DEF TimeoutInv, HeldInv
  <1> QED  BY <1>2, <1>3 DEF TimeoutInv

\* A launch leaves the slots that waited before it a step older, and still apart from it.
LEMMA TimeoutLaunch ==
    ASSUME IInv, TimeoutInv, FewForeign,
           NEW slot \in SlotIndex \cup {Foreign}, NEW offset \in Nat, NEW bytes \in 0 .. SlotBytes,
           Launch(slot, offset, bytes),
           NEW s \in SlotIndex, slots[s].id # 0
    PROVE  /\ Ahead(slots[s].id, nextId') <= Ahead(slots[s].id, nextId) + 1
           /\ Ahead(doneId', slots[s].id) <= Len(queue') => InFlight(s)'
  <1>1. /\ TypeOK /\ IdInv /\ nextId \in Ids /\ doneId \in 0 .. (IdSpace - 1)
        /\ slots[s].id \in Ids /\ HalfIds \in Nat /\ MaxForeign \in Nat
        /\ Len(queue) \in Nat /\ DOMAIN queue = 1 .. Len(queue)
    BY HalfIdsAssumption, StreamAssumption DEF IInv, TypeOK, Slot, Ids, IdSpace
  <1>2. /\ DOMAIN queue' = 1 .. (Len(queue) + 1) /\ doneId' = doneId
        /\ queue' \in Seq(Job)
        /\ \A i \in DOMAIN queue : i \in DOMAIN queue' /\ queue'[i] = queue[i]
    BY <1>1, LaunchStep
  <1>3. nextId' = NextTransferId(nextId)
    BY DEF Launch
  <1>4. Ahead(slots[s].id, nextId) <= MaxForeign + 2
    <2>1. Launches(s) \in Int /\ Launches(s) <= MaxForeign + 2
      BY StreamAssumption DEF Launches, IInv, TypeOK
    <2>2. Ahead(slots[s].id, nextId) <= Launches(s)
      BY DEF TimeoutInv, AgeInv
    <2>3. Ahead(slots[s].id, nextId) \in Int
      BY <1>1, AheadRange
    <2>4. \A a, b, c \in Int : a <= b /\ b <= c => a <= c
      OBVIOUS
    <2>5. MaxForeign + 2 \in Int
      BY <1>1
    <2> QED  BY <2>1, <2>2, <2>3, <2>4, <2>5
  <1>5. Ahead(slots[s].id, nextId) < HalfIds
    <2>1. Ahead(slots[s].id, nextId) \in Int
      BY <1>1, AheadRange
    <2>2. HalfIds \in Int /\ MaxForeign + 2 \in Int /\ MaxForeign + 2 < HalfIds
      BY <1>1 DEF FewForeign
    <2>3. \A a, b, c \in Int : a <= b /\ b < c => a < c
      OBVIOUS
    <2> QED  BY <2>1, <2>2, <2>3, <1>4
  <1>6. Ahead(slots[s].id, nextId') <= Ahead(slots[s].id, nextId) + 1
    BY <1>1, <1>3, AheadGrows
  <1>7. ASSUME Ahead(doneId', slots[s].id) <= Len(queue')
        PROVE  InFlight(s)'
    <2>1. Ahead(doneId, nextId) = Len(queue) + 1
      BY <1>1 DEF IdInv
    <2>2. Ahead(doneId, slots[s].id) # Len(queue) + 1
      BY <2>1, <1>1, <1>5, YoungIsIssued
    <2>3. Ahead(doneId, slots[s].id) \in Int
      BY <1>1 DEF Ahead, Ids, IdSpace
    <2>4. Len(queue') = Len(queue) + 1
      BY <1>1, <1>2
    <2>5. Ahead(doneId, slots[s].id) <= Len(queue)
      BY <2>2, <2>3, <2>4, <1>1, <1>2, <1>7
    <2>6. InFlight(s)
      BY <2>5 DEF TimeoutInv, HeldInv
    <2> QED  BY <2>6, <1>2 DEF InFlight
  <1> QED  BY <1>6, <1>7

LEMMA TimeoutFillSubmit == FewForeign /\ IInv /\ TimeoutInv /\ FillSubmit => TimeoutInv'
  <1> SUFFICES ASSUME FewForeign, IInv, TimeoutInv, FillSubmit PROVE TimeoutInv'
    OBVIOUS
  <1>1. /\ FillBytes \in 1 .. SlotBytes /\ FillBytes \in 0 .. SlotBytes
        /\ Launch(index, nextOffset, FillBytes)
    BY FillBytesRange, StreamAssumption DEF IInv, FillSubmit
  <1>2. /\ TypeOK /\ IdInv /\ index \in SlotIndex /\ current \in SlotIndex /\ nextOffset \in Nat
        /\ nextId \in Ids /\ slots \in [SlotIndex -> Slot] /\ foreign \in Nat
    BY StreamAssumption DEF IInv, TypeOK
  <1>3. /\ pc \in {"init", "refill"} /\ FillReturns
        /\ UNCHANGED <<current, foreign>> /\ nextId' = NextTransferId(nextId)
    BY <1>1 DEF FillSubmit, Launch
  <1>4. /\ slots'[index].id = nextId
        /\ \A s \in SlotIndex : s # index => slots'[s] = slots[s]
    BY <1>2 DEF FillSubmit
  <1>5. /\ DOMAIN queue' = 1 .. (Len(queue) + 1)
        /\ queue'[Len(queue) + 1].slot = index
        /\ Len(queue) \in Nat
    <2>1. Len(queue) \in Nat
      BY <1>2 DEF TypeOK
    <2>2. FillBytes \in Nat /\ index \in SlotIndex \cup {Foreign}
      BY <1>1, <1>2, StreamAssumption
    <2>3. /\ DOMAIN queue' = 1 .. (Len(queue) + 1)
          /\ queue'[Len(queue) + 1] =
               [id |-> nextId, slot |-> index, offset |-> nextOffset, bytes |-> FillBytes]
      BY <2>2, <1>1, <1>2, LaunchStep
    <2> QED  BY <2>1, <2>3
  <1> SUFFICES ASSUME NEW s \in SlotIndex, slots'[s].id # 0
               PROVE  /\ Ahead(slots'[s].id, nextId') <= Launches(s)'
                      /\ Ahead(doneId', slots'[s].id) <= Len(queue') => InFlight(s)'
    BY DEF TimeoutInv, AgeInv, HeldInv
  <1>6. Launches(s)' >= 1
    BY <1>2, <1>3 DEF Launches
  <1>7. CASE s = index
    <2>1. Ahead(slots'[s].id, nextId') = 1
      BY <1>7, <1>2, <1>3, <1>4, AheadGrows
    <2>2. InFlight(s)'
      BY <1>7, <1>5 DEF InFlight
    <2> QED  BY <2>1, <2>2, <1>6
  <1>8. CASE s # index
    <2>1. slots'[s] = slots[s] /\ slots[s].id # 0
      BY <1>8, <1>4
    <2>2. /\ Ahead(slots[s].id, nextId') <= Ahead(slots[s].id, nextId) + 1
          /\ Ahead(doneId', slots[s].id) <= Len(queue') => InFlight(s)'
      BY <2>1, <1>1, <1>2, TimeoutLaunch
    <2>3. Ahead(slots[s].id, nextId) <= foreign + 1
      BY <2>1, <1>3 DEF TimeoutInv, AgeInv, Launches
    <2>4. slots[s].bytes # 0
      BY <2>1 DEF IInv, SlotInv
    <2>5. s = current /\ pc' \notin {"init", "refill"}
      BY <2>4, <1>8, <1>2, <1>3 DEF IInv, WindowInv, FillReturns
    <2>6. Launches(s)' = foreign + 2
      BY <2>5, <1>3 DEF Launches
    <2>7. Ahead(slots[s].id, nextId) \in Int /\ Ahead(slots[s].id, nextId') \in Int
      BY <1>2, <1>3, HalfIdsAssumption DEF Ahead, Slot, Ids, IdSpace, NextTransferId
    <2> QED  BY <2>1, <2>2, <2>3, <2>6, <2>7, <1>2
  <1> QED  BY <1>7, <1>8

LEMMA TimeoutForeign == FewForeign /\ IInv /\ TimeoutInv /\ ForeignLaunch => TimeoutInv'
  <1> SUFFICES ASSUME FewForeign, IInv, TimeoutInv, ForeignLaunch PROVE TimeoutInv'
    OBVIOUS
  <1>1. /\ Launch(Foreign, 0, 0) /\ foreign' = foreign + 1 /\ foreign \in Nat
        /\ slots' = slots /\ current' = current /\ pc' = pc
    BY StreamAssumption DEF ForeignLaunch, IInv, TypeOK, state, call
  <1>2. nextId' = NextTransferId(nextId) /\ nextId \in Ids /\ slots \in [SlotIndex -> Slot]
    BY <1>1 DEF Launch, IInv, TypeOK
  <1> SUFFICES ASSUME NEW s \in SlotIndex, slots[s].id # 0
               PROVE  /\ Ahead(slots[s].id, nextId') <= Launches(s)'
                      /\ Ahead(doneId', slots[s].id) <= Len(queue') => InFlight(s)'
    BY <1>1 DEF TimeoutInv, AgeInv, HeldInv
  <1>3. /\ Ahead(slots[s].id, nextId') <= Ahead(slots[s].id, nextId) + 1
        /\ Ahead(doneId', slots[s].id) <= Len(queue') => InFlight(s)'
    <2>1. 0 \in 0 .. SlotBytes /\ Foreign \in SlotIndex \cup {Foreign} /\ 0 \in Nat
      BY StreamAssumption
    <2> HIDE DEF Foreign
    <2> QED  BY <1>1, <2>1, TimeoutLaunch
  <1>4. Ahead(slots[s].id, nextId) <= Launches(s)
    BY DEF TimeoutInv, AgeInv
  <1>5. Launches(s)' = Launches(s) + 1 /\ Launches(s) \in Int
    BY <1>1 DEF Launches
  <1>6. Ahead(slots[s].id, nextId) \in Int /\ Ahead(slots[s].id, nextId') \in Int
    BY <1>2, HalfIdsAssumption DEF Ahead, Slot, Ids, IdSpace, NextTransferId
  <1> QED  BY <1>3, <1>4, <1>5, <1>6

LEMMA TimeoutRetire == IInv /\ TimeoutInv /\ Retire => TimeoutInv'
  <1> SUFFICES ASSUME IInv, TimeoutInv, Retire PROVE TimeoutInv'
    OBVIOUS
  <1>1. /\ doneId' = queue[1].id /\ queue[1] \in Job /\ 1 \in DOMAIN queue
        /\ queue \in Seq(Job) /\ queue' \in Seq(Job)
        /\ DOMAIN queue' = 1 .. (Len(queue) - 1)
        /\ \A i \in DOMAIN queue' : i + 1 \in DOMAIN queue /\ queue'[i] = queue[i + 1]
    BY RetireStep DEF IInv, TypeOK
  <1>2. /\ slots' = slots /\ current' = current /\ pc' = pc /\ foreign' = foreign
        /\ nextId' = nextId /\ slots \in [SlotIndex -> Slot]
    BY DEF Retire, state, call, IInv, TypeOK
  <1>3. AgeInv'
    BY <1>2 DEF TimeoutInv, AgeInv, Launches
  <1>4. HeldInv'
    <2> SUFFICES ASSUME NEW s \in SlotIndex, slots[s].id # 0,
                        Ahead(doneId', slots[s].id) <= Len(queue')
                 PROVE  InFlight(s)'
      BY <1>2 DEF HeldInv
    <2>1. /\ Len(queue) \in Nat \ {0} /\ Len(queue') = Len(queue) - 1
          /\ DOMAIN queue = 1 .. Len(queue)
          /\ Len(queue) <= Depth /\ Depth \in Nat /\ Depth < HalfIds - 1 /\ HalfIds \in Nat
      BY <1>1, StreamAssumption, HalfIdsAssumption DEF IInv, TypeOK
    <2>2. /\ doneId \in 0 .. (IdSpace - 1) /\ queue[1].id \in Ids /\ slots[s].id \in Ids
          /\ Ahead(doneId, queue[1].id) = 1
      <3>1. doneId \in 0 .. (IdSpace - 1) /\ queue[1].id \in Ids
        BY <1>1 DEF IInv, TypeOK, Job
      <3>2. slots[s].id \in Ids
        BY <1>2, HalfIdsAssumption DEF Slot, Ids, IdSpace
      <3>3. Ahead(doneId, queue[1].id) = 1
        BY <1>1 DEF IInv, IdInv
      <3> QED  BY <3>1, <3>2, <3>3
    <2>3. Ahead(queue[1].id, slots[s].id) <= Len(queue) - 1
      BY <1>1, <2>1
    <2>4. Ahead(doneId, slots[s].id) = Ahead(queue[1].id, slots[s].id) + 1
      <3>1. Ahead(queue[1].id, slots[s].id) \in Int
        BY <2>2, AheadRange
      <3>2. Ahead(queue[1].id, slots[s].id) < HalfIds
        BY <3>1, <2>1, <2>3
      <3> QED  BY <3>2, <2>2, AheadUnretire
    <2>5. Ahead(queue[1].id, slots[s].id) \in Nat \ {0}
      <3>1. Ahead(queue[1].id, slots[s].id) \in 1 .. (IdSpace - 1)
        BY <2>2, AheadRange
      <3> QED  BY <3>1, HalfIdsAssumption DEF IdSpace
    <2>6. InFlight(s)
      BY <2>1, <2>3, <2>4, <2>5 DEF TimeoutInv, HeldInv
    <2>7. PICK i \in DOMAIN queue : queue[i].slot = s
      BY <2>6 DEF InFlight
    <2>8. queue[i].id = slots[s].id /\ Ahead(doneId, queue[i].id) = i
      BY <2>7 DEF IInv, JobInv, IdInv
    <2>9. i - 1 \in DOMAIN queue' /\ queue'[i - 1] = queue[i]
      BY <2>1, <2>4, <2>5, <2>7, <2>8, <1>1
    <2> QED  BY <2>7, <2>9 DEF InFlight
  <1> QED  BY <1>3, <1>4 DEF TimeoutInv

\* No other step takes a slot to a state in which it may see fewer launches.
LEMMA TimeoutElse ==
    ASSUME IInv, IInv', TimeoutInv,
           \/ FillNothing \/ FillRefused \/ ReadWaitDone \/ ReadGivesUp \/ CopyChunk
           \/ FinishDone \/ FinishTimeout \/ FinishStart \/ Terminated \/ UNCHANGED vars
           \/ \E offset \in Begin .. End, n \in 1 .. MaxRead :
                 ReadStart(offset, n) \/ ReadRejected(offset, n)
    PROVE  TimeoutInv'
  <1> DEFINE Forgets == \A s \in SlotIndex : slots'[s].id \in {slots[s].id, 0}
             Filling(p) == p \in {"init", "refill"}
  <1>1. TypeOK /\ TypeOK' /\ slots \in [SlotIndex -> Slot] /\ index \in SlotIndex /\ current \in SlotIndex
    BY DEF IInv, TypeOK
  <1>2. ASSUME Forgets, UNCHANGED dma,
               \/ current' = current /\ (~Filling(pc) => ~Filling(pc'))
               \/ slots[current].id = 0 /\ Filling(pc')
        PROVE  TimeoutInv'
    <2>1. foreign \in Nat /\ foreign' = foreign
      BY <1>1, <1>2, StreamAssumption DEF TypeOK, dma
    <2>2. ASSUME NEW s \in SlotIndex, slots'[s].id # 0 PROVE Launches(s) <= Launches(s)'
      BY <1>2, <2>1, <2>2 DEF Launches
    <2> QED  BY <1>1, <1>2, <2>2, TimeoutKept
  <1>3. CASE FillNothing
    BY <1>1, <1>2, <1>3 DEF FillNothing, FillReturns, state
  <1>4. CASE FillRefused
    BY <1>1, <1>2, <1>4 DEF FillRefused
  <1>5. CASE ReadWaitDone
    BY <1>1, <1>2, <1>5 DEF ReadWaitDone, call
  <1>6. CASE ReadGivesUp
    BY <1>1, <1>2, <1>6 DEF ReadGivesUp
  <1>7. CASE CopyChunk
    <2>1. slots[current].id = 0
      BY <1>7 DEF CopyChunk, cur
    <2>2. \/ slots' = [slots EXCEPT ![current].used = @ + Chunk, ![current].bytes = 0]
          \/ slots' = [slots EXCEPT ![current].used = @ + Chunk]
      BY <1>7 DEF CopyChunk
    <2>3. ASSUME NEW s \in SlotIndex PROVE slots'[s].id = slots[s].id
      BY <1>1, <2>2 DEF Slot
    <2>4. Forgets
      BY <2>3
    <2>5. UNCHANGED dma
      BY <1>7 DEF CopyChunk
    <2>6. \/ current' = current /\ ~Filling(pc')
          \/ Filling(pc')
      BY <1>7 DEF CopyChunk
    <2> QED  BY <2>1, <2>4, <2>5, <2>6, <1>2
  <1>8. CASE FinishDone
    BY <1>1, <1>2, <1>8 DEF FinishDone, FinishAdvances
  <1>9. CASE FinishTimeout
    BY <1>1, <1>2, <1>9 DEF FinishTimeout, FinishAdvances, state
  <1>10. CASE FinishStart
    BY <1>1, <1>2, <1>10 DEF FinishStart, state
  <1>11. CASE Terminated \/ UNCHANGED vars
    BY <1>1, <1>2, <1>11 DEF Terminated, vars, state, call
  <1>12. ASSUME NEW offset \in Begin .. End, NEW n \in 1 .. MaxRead,
                ReadStart(offset, n) \/ ReadRejected(offset, n)
         PROVE  TimeoutInv'
    BY <1>1, <1>2, <1>12 DEF ReadStart, ReadRejected, state
  <1> QED
    BY <1>3, <1>4, <1>5, <1>6, <1>7, <1>8, <1>9, <1>10, <1>11, <1>12

LEMMA TimeoutNext == FewForeign /\ IInv /\ TimeoutInv /\ [Next]_vars => TimeoutInv'
  <1> SUFFICES ASSUME FewForeign, IInv, TimeoutInv, [Next]_vars PROVE TimeoutInv'
    OBVIOUS
  <1>1. IInv'
    BY NextInvariant
  <1>2. CASE FillSubmit     BY <1>2, TimeoutFillSubmit
  <1>3. CASE ForeignLaunch  BY <1>3, TimeoutForeign
  <1>4. CASE Retire         BY <1>4, TimeoutRetire
  <1> QED
    BY <1>1, <1>2, <1>3, <1>4, TimeoutElse DEF Next, Processor, Caller

----
(* Theorems. *)

\* The variables of the prefetcher, of the running call and of the DMA keep their types.
THEOREM TypeCorrect == Spec => []TypeOK
  <1>1. IInv => TypeOK
    BY DEF IInv
  <1> QED  BY <1>1, Invariance, PTL

\* What a read returns is the stream, in order and complete, whatever the page splits, the
\* load of the DMA queue and the position of the id counters in their range.
THEOREM ReadsInOrder == Spec => []DeliveredInOrder
  <1>1. IInv => DeliveredInOrder
    BY DEF IInv
  <1> QED  BY <1>1, Invariance, PTL

\* An accepted read never finds its slot empty or out of place.
THEOREM ReadsNeverStarve == Spec => []NeverStarved
  <1>1. IInv => NeverStarved
    BY DEF IInv
  <1> QED  BY <1>1, Invariance, PTL

\* After a finish that reports success no job of the prefetcher is in flight.
THEOREM FinishQuiesces == Spec => []FinishJoins
  <1>1. IInv => FinishJoins
    <2> SUFFICES ASSUME IInv, pc = "done", ~joinFailed, NEW s \in SlotIndex
                 PROVE  ~InFlight(s)
      BY DEF FinishJoins
    <2>1. slots[s].id = 0
      BY DEF IInv, CallInv
    <2> QED  BY <2>1, JoinedNotInFlight DEF IInv
  <1> QED  BY <1>1, Invariance, PTL

\* Every job of the prefetcher is a non-empty range within one page.
THEOREM JobsStayInPage == Spec => []JobsWithinPage
  <1>1. IInv => JobsWithinPage
    <2> SUFFICES ASSUME IInv, NEW i \in DOMAIN queue, queue[i].slot # Foreign
                 PROVE  /\ queue[i].bytes > 0
                        /\ ((Base + queue[i].offset) % Page) + queue[i].bytes <= Page
      BY DEF JobsWithinPage
    <2> DEFINE s == queue[i].slot
    <2>1. queue[i] \in Job /\ queue \in Seq(Job)
      BY DEF IInv, TypeOK
    <2>2. s \in SlotIndex /\ queue[i].id # 0 /\ queue[i].bytes \in Nat
      BY <2>1, StreamAssumption DEF Job, Ids
    <2>3. /\ queue[i].id = slots[s].id /\ queue[i].offset = slots[s].offset
          /\ queue[i].bytes = slots[s].bytes
      BY <2>2 DEF IInv, JobInv
    <2> HIDE DEF s
    <2>4. slots[s].bytes # 0
      BY <2>2, <2>3 DEF IInv, SlotInv
    <2> QED  BY <2>2, <2>3, <2>4 DEF IInv, SlotInv
  <1> QED  BY <1>1, Invariance, PTL

\* A wait times out only on a job the DMA still holds, as long as the transfers that others launch
\* do not take the identifiers half way round: the id of a slot that waits for its reader is at
\* most MaxForeign + 2 launches old, whatever the reader does in between.
THEOREM TimeoutsAreReal == FewForeign => (Spec => []NoFalseTimeout)
  <1> SUFFICES ASSUME FewForeign PROVE Spec => []NoFalseTimeout
    OBVIOUS
  <1>1. IInv /\ TimeoutInv => NoFalseTimeout
    <2> SUFFICES ASSUME IInv, TimeoutInv, NEW s \in SlotIndex, slots[s].id # 0, ~InFlight(s)
                 PROVE  Completed(doneId, slots[s].id)
      BY DEF NoFalseTimeout
    <2> DEFINE id == slots[s].id
    <2>1. doneId \in 0 .. (IdSpace - 1) /\ id \in Ids /\ nextId \in Ids /\ Len(queue) \in Int
      BY HalfIdsAssumption DEF IInv, TypeOK, Slot, Ids, IdSpace
    <2>2. Ahead(id, nextId) \in Int /\ Ahead(doneId, id) \in Int
      BY <2>1, AheadRange
    <2>3. Ahead(id, nextId) < HalfIds
      <3>1. Ahead(id, nextId) <= Launches(s)
        BY DEF TimeoutInv, AgeInv
      <3>2. Launches(s) \in Int /\ Launches(s) < HalfIds
        BY StreamAssumption, HalfIdsAssumption DEF Launches, FewForeign, IInv, TypeOK
      <3>3. HalfIds \in Int /\ \A a, b, c \in Int : a <= b /\ b < c => a < c
        BY HalfIdsAssumption
      <3> QED  BY <2>2, <3>1, <3>2, <3>3
    <2>4. Ahead(doneId, id) >= Ahead(doneId, nextId)
      <3>1. Ahead(doneId, nextId) = Len(queue) + 1
        BY DEF IInv, IdInv
      <3>2. ~(Ahead(doneId, id) <= Len(queue))
        BY DEF TimeoutInv, HeldInv
      <3> QED  BY <2>1, <2>2, <3>1, <3>2
    <2> QED  BY <2>1, <2>3, <2>4, RetiredCompleted
  <1>2. Spec => [](IInv /\ TimeoutInv)
    <2>1. Init => TimeoutInv
      BY TimeoutInit
    <2>2. IInv /\ TimeoutInv /\ [Next]_vars => TimeoutInv'
      BY TimeoutNext
    <2> QED  BY <2>1, <2>2, Invariance, PTL DEF Spec
  <1> QED  BY <1>1, <1>2, PTL

\* The prefetcher is a sequential stream: each step delivers the bytes next in order, breaks
\* the stream for good, or changes nothing the reader can see.
THEOREM RefinesStream == Spec => ImplementsStream
  <1>1. Init => Stream!Init
    BY DEF Init, Stream!Init, Positions, Stream!Positions
  <1>2. IInv /\ IInv' /\ [Next]_vars => [Stream!Next]_(Stream!vars)
    <2> SUFFICES ASSUME IInv, IInv', [Next]_vars
                 PROVE  Stream!Next \/ UNCHANGED Stream!vars
      OBVIOUS
    <2>1. CASE CopyChunk
      <3> DEFINE n == Chunk
      <3>1. pc = "read" /\ readOffset' = readOffset + n /\ failed' = failed
        BY <2>1 DEF CopyChunk
      <3>2. ~failed /\ want \in Nat /\ want > 0 /\ readOffset + want <= End
        BY <3>1, StreamAssumption DEF IInv, CallInv, TypeOK
      <3>3. n \in Nat /\ n > 0 /\ n <= want
        <4>1. current \in SlotIndex /\ slots[current] \in Slot /\ slots[current].bytes # 0
          BY <2>1 DEF CopyChunk, Readable, cur, IInv, TypeOK
        <4>2. slots[current].used < slots[current].bytes
          BY <4>1 DEF IInv, SlotInv
        <4>3. cur.bytes \in Nat /\ cur.used \in Nat /\ cur.used < cur.bytes
          BY <4>1, <4>2, StreamAssumption DEF Slot, cur
        <4> QED  BY <4>3, <3>2 DEF Chunk, Minimum
      <3> HIDE DEF n
      <3>4. /\ readOffset \in Nat /\ Begin <= readOffset /\ Begin \in Nat /\ End \in Nat
        BY StreamAssumption DEF IInv, TypeOK
      <3>5. n \in 1 .. (End - Begin) /\ readOffset + n <= End
        BY <3>2, <3>3, <3>4
      <3>6. out' = [p \in Stream!Positions |->
                      IF p \in readOffset .. (readOffset + n - 1) THEN p ELSE out[p]]
        <4>1. \A p \in Positions : out[p] = IF p < readOffset THEN p ELSE None
          BY DEF IInv, DeliveredInOrder
        <4>2. \A p \in Positions : out'[p] = IF p < readOffset + n THEN p ELSE None
          BY <3>1 DEF IInv, DeliveredInOrder
        <4>3. out' = [p \in Positions |-> out'[p]]
          BY DEF IInv, TypeOK
        <4>4. \A p \in Positions :
                out'[p] = IF p \in readOffset .. (readOffset + n - 1) THEN p ELSE out[p]
          BY <4>1, <4>2, <3>3, <3>4 DEF Positions
        <4> QED  BY <4>3, <4>4 DEF Stream!Positions, Positions
      <3>7. Stream!Deliver(n)
        BY <3>1, <3>2, <3>5, <3>6 DEF Stream!Deliver
      <3> QED  BY <3>5, <3>7 DEF Stream!Next
    <2>2. CASE FillRefused \/ ReadGivesUp
      BY <2>2, ReadNotStarved DEF FillRefused, ReadGivesUp, Stream!Next, Stream!Break
    <2>3. CASE UNCHANGED <<readOffset, out, failed>>
      BY <2>3 DEF Stream!vars
    <2>4. ~CopyChunk /\ ~(FillRefused \/ ReadGivesUp) => UNCHANGED <<readOffset, out, failed>>
      BY DEF Next, Processor, Caller, vars, state, FillNothing, FillSubmit, ReadWaitDone,
             FinishDone, FinishTimeout, ReadStart, ReadRejected, ForeignLaunch, FinishStart,
             Retire, Terminated
    <2> QED  BY <2>1, <2>2, <2>3, <2>4
  <1> QED  BY <1>1, <1>2, Invariance, PTL DEF Spec, ImplementsStream, Stream!Spec
====
