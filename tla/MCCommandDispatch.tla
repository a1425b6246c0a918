---- MODULE MCCommandDispatch ----
EXTENDS CommandDispatch

MCUnit(type, size, val) == [Blank EXCEPT !.type = type, !.size = size, !.val = val]
MCLoop(size, iterations, commands, body, patches) ==
    [type |-> "loop", size |-> size, val |-> 0, iterations |-> iterations,
     commands |-> commands, body |-> body, patches |-> patches]

Op == <<MCUnit("op", 1, 1)>>
LongOp == <<MCUnit("op", 2, 2), MCUnit("data", 0, 3)>>
Skippable == <<MCUnit("skip", 1, 0)>>
Unsupported == <<MCUnit("unknown", 1, 0)>>
End1 == <<MCUnit("end", 1, 0)>>
End2 == <<MCUnit("end", 2, 0), MCUnit("data", 0, 0)>>

Plain == <<MCLoop(1, 2, 1, 1, <<>>)>> \o Op
Nested == <<MCLoop(1, 2, 2, 2, <<>>)>> \o Op \o Unsupported
Affine == <<MCLoop(2, 3, 2, 3, <<[at |-> 0, delta |-> 3], [at |-> 2, delta |-> 1]>>), MCUnit("data", 0, 0)>>
            \o Op \o LongOp
TooLong == <<MCLoop(1, 2, 1, 6, <<>>)>> \o <<MCUnit("op", 6, 0)>>
Ragged == <<MCLoop(1, 2, 2, 2, <<>>)>> \o LongOp

Records == {Op, LongOp, Skippable, Unsupported, End1, End2, Plain, Nested, Affine, TooLong, Ragged}

MCStreams == {a \o b \o c : a \in Records, b \in Records, c \in Records}
MCCounts == {1, 4, 12}
====
