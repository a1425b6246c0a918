---- MODULE TransferId ----
(***************************************************************************)
(* Transfer identifiers of the cluster's DMA, sw/lib/idma_transfer_id.h.   *)
(*                                                                         *)
(* A read of NEXT_ID launches a transfer and returns its identifier, a     *)
(* read of DONE_ID returns that of the last transfer that retired.  Both   *)
(* are machine words (IdSpace is 2^32 in the code), zero is never issued,  *)
(* and each direction of the DMA has its own pair of counters.             *)
(***************************************************************************)
EXTENDS Integers

CONSTANT HalfIds   \* half the identifier space, 0x80000000 in the code

ASSUME HalfIdsAssumption == HalfIds \in Nat /\ HalfIds > 1

IdSpace == 2 * HalfIds

Ids == 1 .. (IdSpace - 1)

\* The issue counter of the DMA front end (external): it wraps past zero.
NextTransferId(id) == IF id = IdSpace - 1 THEN 1 ELSE id + 1

\* (uint32_t)(a - b) for two words.
WordMinus(a, b) == IF a >= b THEN a - b ELSE a - b + IdSpace

\* Faulty variant: forgets that the counters wrap.
Completed_ByOrder(done, id) == id # 0 /\ done >= id

\* idma_mm_transfer_completed
Completed(done, id) == id # 0 /\ WordMinus(done, id) < HalfIds

\* How many transfers retire, after `done` did, up to and including `id`.
Ahead(done, id) == IF id > done THEN id - done ELSE id - done + IdSpace - 1
====
