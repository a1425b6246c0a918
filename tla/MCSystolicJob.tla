---- MODULE MCSystolicJob ----
(* SystolicJob for TLC: an array of two by two, FIFOs of two rows, jobs of up to four rows and
   three tiles, with the PSUM buffer and without it. *)
EXTENDS SystolicJob

MCMatrix(tiles, m, linebuf, requant) ==
    [tiles |-> tiles, m |-> m, linebuf |-> linebuf, accum |-> FALSE, requant |-> requant]
MCAccum(tiles, m, requant) ==
    [tiles |-> tiles, m |-> m, linebuf |-> tiles > 1, accum |-> TRUE, requant |-> requant]

MCJobs ==
    {MCMatrix(1, 4, b, q) : b, q \in BOOLEAN}
        \cup {MCMatrix(tiles, m, TRUE, q) : tiles \in 2 .. 3, m \in {1, 3, 4}, q \in BOOLEAN}
        \cup {MCAccum(1, 4, q) : q \in BOOLEAN}

\* Jobs that accumulate on the rows of an earlier job: of one tile, and of two in the PSUM buffer.
MCOneTile == {MCAccum(1, 3, FALSE)}
MCTwoTiles == {MCAccum(2, 2, FALSE)}
====
