---- MODULE SequentialStream ----
(***************************************************************************)
(* What a reader of the command stream is promised, whatever fetches the   *)
(* bytes: the positions Begin..End-1 arrive in order, each exactly once,   *)
(* and nothing more arrives once the stream broke.  The blocking reader    *)
(* l2_read and the prefetcher nai_stream_prefetch_read are two             *)
(* implementations of it behind the same callback.                         *)
(***************************************************************************)
EXTENDS Integers

CONSTANTS Begin, End, None

VARIABLES pos,      \* next position to deliver
          out,      \* what was delivered at each position
          broken    \* the stream failed: no further delivery

vars == <<pos, out, broken>>

Positions == Begin .. (End - 1)

Init == /\ pos = Begin
        /\ out = [p \in Positions |-> None]
        /\ broken = FALSE

Deliver(n) ==
    /\ ~broken
    /\ pos + n <= End
    /\ pos' = pos + n
    /\ out' = [p \in Positions |-> IF p \in pos .. (pos + n - 1) THEN p ELSE out[p]]
    /\ UNCHANGED broken

Break == /\ broken' = TRUE
         /\ UNCHANGED <<pos, out>>

Next == (\E n \in 1 .. (End - Begin) : Deliver(n)) \/ Break

Spec == Init /\ [][Next]_vars
====
