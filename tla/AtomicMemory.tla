---- MODULE AtomicMemory ----
(***************************************************************************)
(* What the masters of the shared TCDM are promised: one memory of lines.  *)
(* In a clock cycle the memory serves some of the pending requests, no two *)
(* at the same line; a served request takes effect at once and is answered *)
(* in the following cycle, and only then.                                  *)
(***************************************************************************)
EXTENDS Naturals

CONSTANTS Masters, Narrow,  \* a narrow master sees one lane of a line
          Lines, Lanes, Values, Traffic, None

VARIABLES store,   \* line -> lane -> value
          req,     \* the request a master presents, None if it has none
          resp     \* the answer a master gets in this cycle, None if it gets none

vars == <<store, req, resp>>

Init == /\ store = [a \in Lines |-> [l \in Lanes |-> 0]]
        /\ req = [m \in Masters |-> None]
        /\ resp = [m \in Masters |-> None]

Raise(m) ==
    /\ req[m] = None
    /\ \E r \in Traffic[m] : req' = [req EXCEPT ![m] = r]
    /\ UNCHANGED <<store, resp>>

\* The lanes a master sees of the line it names, and those a request writes.
Seen(m) == IF m \in Narrow THEN {req[m].lane} ELSE Lanes

Written(m) == IF req[m].we THEN req[m].strobe \cap Seen(m) ELSE {}

\* The answer to a read is what it sees; the answer to a write carries no data.
Answer(m) == [l \in (IF req[m].we THEN {} ELSE Seen(m)) |-> store[req[m].line][l]]

Serve(S) ==
    /\ \A m \in S : req[m] # None
    /\ \A m, n \in S : req[m].line = req[n].line => m = n
    /\ store' = [a \in Lines |-> [l \in Lanes |->
                   IF \E m \in S : req[m].line = a /\ l \in Written(m)
                   THEN req[CHOOSE m \in S : req[m].line = a].data[l]
                   ELSE store[a][l]]]
    /\ resp' = [m \in Masters |-> IF m \in S THEN Answer(m) ELSE None]
    /\ req' = [m \in Masters |-> IF m \in S THEN None ELSE req[m]]

Next == (\E m \in Masters : Raise(m)) \/ (\E S \in SUBSET Masters : Serve(S))

Spec == Init /\ [][Next]_vars
====
