---- MODULE MCTcdmMemory ----
(* TcdmMemory for TLC: the core and a vector port behind adapters, one more accelerator port
   and a DMA port, on two banks of two lines of two lanes. *)
EXTENDS TcdmMemory

MCWord(x, y) == [l \in Lanes |-> IF l = 0 THEN x ELSE y]
MCRead(line, at) == [line |-> line, lane |-> at, we |-> FALSE, strobe |-> Lanes, data |-> Zero]
MCWrite(line, at, strobe, x, y) ==
    [line |-> line, lane |-> at, we |-> TRUE, strobe |-> strobe, data |-> MCWord(x, y)]

MCTraffic ==
    [m \in Masters |->
       CASE m = 0 -> {MCRead(2, 1)}
         [] m = 1 -> {MCRead(2, 0), MCWrite(0, 1, {0, 1}, 1, 1)}
         [] m = 2 -> {MCWrite(2, 0, {0, 1}, 1, 1)}
         [] m = 3 -> {MCRead(1, 0), MCWrite(0, 0, {0}, 1, 0)}]
====
