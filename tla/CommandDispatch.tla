---- MODULE CommandDispatch ----
(***************************************************************************)
(* nai_cmd_dispatch_stream_v2 (sw/lib/npu_cmd_desc_v2.c): the interpreter  *)
(* of a command section that lies outside the core's memory, read through  *)
(* a window of Capacity units, in the firmware's build                     *)
(* (NAI_TRUSTED_FIRMWARE: what NAI_TRUSTED_INVALID guards is not checked). *)
(*                                                                         *)
(* A unit is 32 bytes, the grain of every record size: a record is a unit  *)
(* with its header and payload, then units of payload.  Of the payload     *)
(* only one word per unit is kept (val); the fields of an affine loop and  *)
(* its table of patches stand in the first unit of the descriptor.         *)
(***************************************************************************)
EXTENDS Integers, Sequences, SequencesExt

CONSTANTS Streams,      \* command sections: sequences of units
          Counts,       \* values of header->command_count
          Capacity,     \* command_buffer_bytes, NAI_AFFINE_LOOP_MAX_RECORD_BYTES
          MaxBody,      \* NAI_AFFINE_LOOP_MAX_BODY_COMMANDS
          MaxPatches,   \* NAI_AFFINE_LOOP_MAX_PATCHES
          Words         \* number of values of a word

Types == {"op", "skip", "unknown", "end", "loop", "data"}
Patch == [at : Nat, delta : 0 .. (Words - 1)]
Unit == [type : Types, size : Nat, val : 0 .. (Words - 1),
         iterations : Nat, commands : Nat, body : Nat, patches : Seq(Patch)]
Window == [units : Seq(Unit), cursor : Nat, buffered : Nat, next : Nat]
Blank == [type |-> "data", size |-> 0, val |-> 0,
          iterations |-> 0, commands |-> 0, body |-> 0, patches |-> <<>>]

ASSUME DispatchAssumption ==
    /\ Streams \subseteq Seq(Unit)
    /\ Counts \subseteq Nat
    /\ Capacity \in Nat /\ Capacity >= 3     \* sizeof(nai_cmd_gemm32_v2_t)
    /\ MaxBody \in Nat \ {0} /\ MaxPatches \in Nat /\ Words \in Nat \ {0}

VARIABLES section, count,           \* the package
          offset, window, completed,    \* locals of the dispatcher
          stage, iteration, child,      \* where it stands
          status, reported, failure,    \* what it returns
          executed                      \* the commands the operations were called with

model  == <<section, count>>
result == <<status, reported, failure>>
vars   == <<model, offset, window, completed, stage, iteration, child, result, executed>>

NoOffset == -1      \* *failure_command_offset is still 0

TypeOK ==
    /\ section \in Streams /\ count \in Counts
    /\ offset \in 0 .. Len(section)
    /\ window \in Window /\ Len(window.units) = Capacity /\ window.next <= Len(section)
    /\ window.cursor + window.buffered <= Capacity
    /\ completed \in 0 .. count + 1
    /\ stage \in {"header", "record", "loop", "body", "returned"}
    /\ iteration \in Nat /\ child \in 1 .. MaxBody
    /\ status \in {"none", "ok", "bad_stream", "bad_command", "unsupported", "failed"}
    /\ reported \in 0 .. count + 1 /\ failure \in NoOffset .. Len(section)

Init ==
    /\ section \in Streams /\ count \in Counts
    /\ offset = 0 /\ completed = 0
    /\ window = [units |-> [i \in 1 .. Capacity |-> Blank], cursor |-> 0, buffered |-> 0, next |-> 0]
    /\ stage = "header" /\ iteration = 0 /\ child = 1
    /\ status = "none" /\ reported = 0 /\ failure = NoOffset
    /\ executed = <<>>

----
(* The window. *)

Remaining == Len(section) - offset

\* Faulty variant: the incomplete tail stays where it was.
MovedTail_Not == window.units

\* nai_stream_copy(buffer, buffer + cursor, buffered_bytes)
MovedTail ==
    [i \in 1 .. Capacity |->
        IF i <= window.buffered THEN window.units[window.cursor + i] ELSE window.units[i]]

\* refill_command_window: the reader goes on where it stopped, up to the end of the window.
Refilled ==
    LET tail == MovedTail
        full == IF Remaining < Capacity THEN Remaining ELSE Capacity
    IN [units |-> [i \in 1 .. Capacity |->
                     IF i \in window.buffered + 1 .. full
                       THEN section[window.next + i - window.buffered]
                       ELSE tail[i]],
        cursor |-> 0, buffered |-> full, next |-> window.next + full - window.buffered]

\* nai_stream_prefetch_read takes no offset but the one its last read ended at.
ReadAccepted == offset + window.buffered = window.next

\* ensure_command_window: the windows it can leave when it succeeds.
Ensured(required) ==
    IF window.buffered >= required THEN {window}
    ELSE {w \in {Refilled} : required <= Capacity /\ required <= Remaining /\ ReadAccepted}

\* It fails when the record is too long, and whenever the read does.
CanFail(required) == window.buffered < required

\* The unit at distance i of the record.
At(w, i) == w.units[w.cursor + 1 + i]

----
(* Records. *)

\* valid_executable_header
ValidHeader(unit, available) == unit.size >= 1 /\ unit.size <= available

\* affine_loop_descriptor_bytes: one unit, and one for every four patches.
DescriptorUnits(patches) == 1 + (Len(patches) + 3) \div 4

Sizes(body) == [i \in DOMAIN body |-> body[i].size]

\* Where the child commands of a body begin, of the sizes its units declare; beyond the body once
\* a header does not fit.
ChildOffsets(sizes, n) ==
    LET at[k \in 1 .. n + 1] ==
          IF k = 1 THEN 0
          ELSE IF at[k - 1] < Len(sizes) THEN at[k - 1] + sizes[at[k - 1] + 1]
          ELSE Len(sizes) + 1
    IN at

\* validate_affine_loop, of the units of the record
ValidLoop(record) ==
    LET loop == record[1]
        body == SubSeq(record, loop.size + 1, Len(record))
        at == ChildOffsets(Sizes(body), loop.commands)
    IN /\ loop.iterations >= 2 /\ loop.commands \in 1 .. MaxBody
       /\ loop.size = DescriptorUnits(loop.patches)
       /\ \A k \in 1 .. loop.commands : /\ at[k] < Len(body)
                                        /\ ValidHeader(body[at[k] + 1], Len(body) - at[k])
       /\ at[loop.commands + 1] = Len(body)
       /\ \A p \in DOMAIN loop.patches : loop.patches[p].at < Len(body)

\* The checks made before the whole record is in the window.
LoopDescribed(loop) ==
    /\ Len(loop.patches) <= MaxPatches
    /\ loop.size = DescriptorUnits(loop.patches)
    /\ loop.size + loop.body <= Capacity
    /\ loop.size + loop.body <= Remaining

\* Faulty variant: a loop is begun whatever is left of the declared count.
LoopFits_Always(loop) == TRUE

LoopFits(loop) ==
    completed <= count /\ loop.iterations * loop.commands <= count - completed

\* What an operation sees of a record: its type and its payload.
Command(record) == [type |-> record[1].type, words |-> [i \in DOMAIN record |-> record[i].val]]

\* What run_executable_command can return.
Outcomes(command) ==
    CASE command.type = "op" -> {"ok", "failed"}
      [] command.type = "skip" -> {"ok"}
      [] OTHER -> {"unsupported"}

----
(* Returning. *)

\* Faulty variant: a failing command is counted.
Return_CountsFailure(st, at) ==
    /\ stage' = "returned" /\ status' = st
    /\ reported' = IF st \in {"failed", "unsupported"} THEN completed + 1 ELSE completed
    /\ failure' = at
    /\ UNCHANGED <<model, offset, completed, iteration, child>>

Return(st, at) ==
    /\ stage' = "returned" /\ status' = st /\ reported' = completed /\ failure' = at
    /\ UNCHANGED <<model, offset, completed, iteration, child>>

GoTo(next) ==
    stage' = next /\ UNCHANGED <<model, offset, completed, iteration, child, result, executed>>

\* The loop of the dispatcher ends without END: the counts are left as they were on entry.
FallThrough ==
    /\ stage = "header" /\ ~(offset < Len(section) /\ completed <= count)
    /\ stage' = "returned" /\ status' = "bad_stream"
    /\ UNCHANGED <<model, offset, window, completed, iteration, child, reported, failure, executed>>

----
(* One turn of the dispatcher's loop. *)

Header ==
    /\ stage = "header" /\ offset < Len(section) /\ completed <= count
    /\ \/ /\ CanFail(1)
          /\ Return("bad_stream", offset) /\ UNCHANGED <<window, executed>>
       \/ \E w \in Ensured(1) :
            /\ window' = w
            /\ IF ValidHeader(At(w, 0), Remaining)
                 THEN GoTo("record")
                 ELSE Return("bad_command", offset) /\ UNCHANGED executed

\* The record of size units is done with.
Advance(w, size) ==
    /\ offset' = offset + size
    /\ window' = [w EXCEPT !.cursor = @ + size, !.buffered = @ - size]
    /\ stage' = "header"

Executes(command, outcome) ==
    /\ outcome \in Outcomes(command)
    /\ executed' = IF outcome = "ok" THEN Append(executed, command) ELSE executed

End(w) ==
    /\ At(w, 0).type = "end"
    /\ window' = w
    /\ IF At(w, 0).size = 1 THEN Return("ok", NoOffset) ELSE Return("bad_stream", offset)
    /\ UNCHANGED executed

OneCommand(w) ==
    /\ At(w, 0).type \notin {"end", "loop"}
    /\ LET size == At(w, 0).size
           command == Command([i \in 1 .. size |-> At(w, i - 1)])
       IN \E outcome \in Outcomes(command) :
            /\ Executes(command, outcome)
            /\ IF outcome = "ok"
                 THEN /\ completed' = completed + 1
                      /\ Advance(w, size)
                      /\ UNCHANGED <<model, iteration, child, result>>
                 ELSE window' = w /\ Return(outcome, offset)

LoopDescriptor(w) ==
    /\ At(w, 0).type = "loop"
    /\ window' = w
    /\ IF LoopDescribed(At(w, 0)) THEN GoTo("loop") ELSE Return("bad_stream", offset) /\ UNCHANGED executed

Record ==
    /\ stage = "record"
    /\ LET size == At(window, 0).size
       IN \/ /\ CanFail(size)
             /\ Return("bad_stream", offset) /\ UNCHANGED <<window, executed>>
          \/ \E w \in Ensured(size) : End(w) \/ OneCommand(w) \/ LoopDescriptor(w)

----
(* An affine loop: the body runs in the window, its words patched there before every pass but  *)
(* the first.                                                                                   *)

LoopUnits(w) == At(w, 0).size + At(w, 0).body

\* What the patches of a loop add, one after the other, to the word at a place of its body.
DeltaAt(patches, place) ==
    LET sum[p \in 0 .. Len(patches)] ==
          IF p = 0 THEN 0
          ELSE sum[p - 1] + (IF patches[p].at = place THEN patches[p].delta ELSE 0)
    IN sum[Len(patches)]

LoopRecord ==
    /\ stage = "loop"
    /\ \/ /\ CanFail(LoopUnits(window))
          /\ Return("bad_stream", offset) /\ UNCHANGED <<window, executed>>
       \/ \E w \in Ensured(LoopUnits(window)) :
            /\ window' = w
            /\ IF ValidLoop([i \in 1 .. LoopUnits(w) |-> At(w, i - 1)]) /\ LoopFits(At(w, 0))
                 THEN /\ stage' = "body" /\ iteration' = 0 /\ child' = 1
                      /\ UNCHANGED <<model, offset, completed, result, executed>>
                 ELSE Return("bad_stream", offset) /\ UNCHANGED executed

\* Faulty variant: adds iteration * delta, as the interpreter that copies each child does.
Patched_FromBase(w, i, n) ==
    LET delta == DeltaAt(At(w, 0).patches, i - 1 - w.cursor - At(w, 0).size)
    IN IF n = 0 THEN w.units[i] ELSE [w.units[i] EXCEPT !.val = (@ + n * delta) % Words]

\* The unit at place i of the window, at the start of pass n.
Patched(w, i, n) ==
    LET delta == DeltaAt(At(w, 0).patches, i - 1 - w.cursor - At(w, 0).size)
    IN IF n = 0 THEN w.units[i] ELSE [w.units[i] EXCEPT !.val = (@ + delta) % Words]

\* run_affine_loop_buffer, one child command
Child ==
    /\ stage = "body"
    /\ LET loop == At(window, 0)
           w == IF child = 1
                  THEN [window EXCEPT !.units = [i \in DOMAIN @ |-> Patched(window, i, iteration)]]
                  ELSE window
           body == [i \in 1 .. loop.body |-> At(w, loop.size + i - 1)]
           at == ChildOffsets(Sizes(body), loop.commands)[child]
           command == Command(SubSeq(body, at + 1, at + body[at + 1].size))
       IN \E outcome \in Outcomes(command) :
            /\ Executes(command, outcome)
            /\ IF outcome # "ok"
                 THEN window' = w /\ Return(outcome, offset + loop.size + at)
                 ELSE /\ completed' = completed + 1
                      /\ \/ /\ child < loop.commands
                            /\ child' = child + 1 /\ window' = w
                            /\ UNCHANGED <<offset, stage, iteration>>
                         \/ /\ child = loop.commands /\ iteration + 1 < loop.iterations
                            /\ child' = 1 /\ iteration' = iteration + 1 /\ window' = w
                            /\ UNCHANGED <<offset, stage>>
                         \/ /\ child = loop.commands /\ iteration + 1 = loop.iterations
                            /\ Advance(w, LoopUnits(w))
                            /\ child' = 1 /\ iteration' = 0
                      /\ UNCHANGED <<model, result>>

Returned == stage = "returned" /\ UNCHANGED vars

Next == Header \/ Record \/ LoopRecord \/ Child \/ FallThrough \/ Returned

Spec == Init /\ [][Next]_vars

----
(* What the section means: nai_cmd_dispatch_v2 and run_affine_loop_direct, which see all of it  *)
(* in place and take each word of pass n as base + n * delta.                                   *)

\* One pass of the body of a loop, each command with its place in the section.
Pass(record, place, n) ==
    LET loop == record[1]
        body == [i \in 1 .. loop.body |->
                   [record[loop.size + i] EXCEPT
                      !.val = (@ + n * DeltaAt(loop.patches, i - 1)) % Words]]
        at == ChildOffsets(Sizes(body), loop.commands)
    IN [k \in 1 .. loop.commands |->
          [at |-> place + loop.size + at[k],
           command |-> Command(SubSeq(body, at[k] + 1, at[k] + body[at[k] + 1].size))]]

\* The record at a place of the section: a command, or a loop with its body.
RecordUnits(o) == section[o + 1].size + (IF section[o + 1].type = "loop" THEN section[o + 1].body ELSE 0)
RecordAt(o) == SubSeq(section, o + 1, o + RecordUnits(o))

\* END, or what is not a record, ends the commands.
Continues(o) ==
    /\ o < Len(section)
    /\ ValidHeader(section[o + 1], Len(section) - o) /\ section[o + 1].type # "end"
    /\ section[o + 1].type = "loop" => o + RecordUnits(o) <= Len(section) /\ ValidLoop(RecordAt(o))

CommandsAt(o) ==
    IF section[o + 1].type = "loop"
      THEN FlattenSeq([n \in 1 .. section[o + 1].iterations |-> Pass(RecordAt(o), o, n - 1)])
      ELSE <<[at |-> o, command |-> Command(RecordAt(o))]>>

\* The commands from a place of the section on, and all of them.
From[o \in 0 .. Len(section)] ==
    IF Continues(o) THEN CommandsAt(o) \o From[o + RecordUnits(o)] ELSE <<>>
Program == From[0]

----
(* Properties. *)

\* The window is the section: from the cursor on it holds, unit for unit, what follows the
\* current offset, and the reader stands right behind it, so that no refill is refused.  (The
\* body of the loop being run is excepted: it is patched in place.)
WindowIsSection ==
    stage # "returned" =>
        /\ ReadAccepted
        /\ \A i \in 1 .. window.buffered :
              \/ At(window, i - 1) = section[offset + i]
              \/ stage = "body" /\ At(window, 0).size < i /\ i <= LoopUnits(window)

\* Windowed interpretation is interpretation in place: the operations are called with the
\* commands of the section in order, every pass of a loop with the words it is declared to
\* have, and success means that all of them ran.
ExecutesProgram ==
    LET program == Program
        ran(n) == [k \in 1 .. n |-> program[k].command]
    IN /\ Len(executed) <= Len(program) /\ executed = ran(Len(executed))
       /\ status = "ok" => Len(executed) = Len(program)

\* A command that fails is reported where it stands, in the body of a loop too, with the number
\* of commands that ran before it.
FailureLocated ==
    status \in {"failed", "unsupported"} =>
        /\ reported = Len(executed)
        /\ Len(executed) < Len(Program) /\ failure = Program[Len(executed) + 1].at
====
