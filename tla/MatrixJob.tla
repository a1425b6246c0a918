---- MODULE MatrixJob ----
(***************************************************************************)
(* What the firmware is promised of a matrix job of the systolic           *)
(* controller: once started it writes each row of the output once, with    *)
(* all its contributions, writes no other row, and is done only when every *)
(* row is written.                                                         *)
(***************************************************************************)
EXTENDS Naturals

CONSTANTS Jobs,             \* [tiles, m, linebuf, accum, requant]
          MaxM, Psum, Quantized, None

VARIABLES job, running, out

vars == <<job, running, out>>

OutRows == 0 .. (MaxM - 1)

\* Row r of the result: a product per tile of the inner dimension, the row of the partial sums
\* the job starts from, and whether the sum was brought back to eight bits.
Product(j, r) ==
    {<<t, r>> : t \in 0 .. (j.tiles - 1)}
        \cup (IF j.accum THEN {<<Psum, r>>} ELSE {})
        \cup (IF j.requant THEN {Quantized} ELSE {})

Init == job \in Jobs /\ running = FALSE /\ out = [r \in OutRows |-> None]

Start(j) == /\ ~running
            /\ running' = TRUE /\ job' = j /\ out' = [r \in OutRows |-> None]

Write(r) == /\ running /\ r < job.m /\ out[r] = None
            /\ out' = [out EXCEPT ![r] = Product(job, r)]
            /\ UNCHANGED <<job, running>>

Finish == /\ running /\ \A r \in 0 .. (job.m - 1) : out[r] # None
          /\ running' = FALSE
          /\ UNCHANGED <<job, out>>

Next == (\E j \in Jobs : Start(j)) \/ (\E r \in OutRows : Write(r)) \/ Finish

Spec == Init /\ [][Next]_vars
====
