---- MODULE ModelLoader ----
(***************************************************************************)
(* nai_model_open_stream_v1 and nai_model_open_v1                          *)
(* (sw/lib/npu_model_loader.c), then validate_runtime_bindings             *)
(* (sw/lib/npu_model_runtime.c), which sorts the table of addresses the    *)
(* host passes into the order of the model's binding section, and the two  *)
(* resolvers of a command's references: nai_resolve_ref_v1 searches that   *)
(* table and checks ranges, the resolver of a build with                   *)
(* NAI_TRUSTED_FIRMWARE (resolve, sw/lib/npu_cmd_desc_v2.c) indexes it.    *)
(*                                                                         *)
(* A package is what the file holds: its header, the records where the     *)
(* header puts the section table and those where the binding section lies. *)
(* A field that is only compared with one right value is a BOOLEAN.        *)
(***************************************************************************)
EXTENDS Integers, Sequences, FiniteSets

CONSTANTS Packages,         \* model files
          Invocations,      \* what the host asks for
          WordBits,         \* width of uint32_t
          MaxBindings,      \* NAI_MAX_BINDINGS_V1
          StagingBytes,     \* NPU_CMD_TCDM_SIZE
          TcdmLimit,        \* 0x0007f000
          TcdmBase          \* NPU_TCDM_BASE

Words == 2 ^ WordBits
NAI_ALIGNMENT_BYTES == 32
HeaderBytes  == 64
SectionBytes == 32
BindingBytes == 64
AddressBytes == 16
MaxSections  == 6           \* NAI_MAX_SECTIONS_V1
SectionTypes == {"commands", "constants", "tensors", "bindings", "qparams", "debug_map"}
Required     == SectionTypes \ {"debug_map"}
Directions   == {"input", "output", "temporary"}
Regions      == {"constants", "commands", "input", "output", "temporary", "scratch", "runtime", "none"}

Word == 0 .. (Words - 1)
Address == [direction : Directions \cup {"unknown"}, index : Nat, base : Word, byte_size : Word, flags : BOOLEAN]

\* nai_model_header_v1_t, nai_section_v1_t, nai_binding_v1_t
ModelHeader ==
    [magic : BOOLEAN, version : BOOLEAN, target : BOOLEAN, zero : BOOLEAN, total_bytes : Word,
     section_count : Word, section_table_off : Word, entry_command_off : Word,
     tcdm_bytes : Word, tcdm_align : Word, input_count : Word, output_count : Word]
ModelSection ==
    [type : STRING, offset : Word, size : Word, alignment : Word, element_count : Word, zero : BOOLEAN]
ModelBinding ==
    [direction : STRING, index : Word, layout : STRING, data_type : STRING, rank : Word,
     dimensions : Seq(Word), byte_size : Word, zero : BOOLEAN]

\* A package has the records its header and its binding section announce (behind the end of the
\* file any records: none is looked at); a section table is smaller than the staging window.
ASSUME LoaderAssumption ==
    /\ WordBits \in Nat /\ MaxBindings \in Nat
    /\ StagingBytes \in Nat /\ StagingBytes >= MaxSections * SectionBytes
    /\ TcdmBase \in Nat /\ TcdmLimit \in Nat /\ TcdmBase + TcdmLimit < Words
    /\ Words \in Nat       \* a power of two, which the provers do not know
    /\ \A p \in Packages :
          /\ p \in [header : ModelHeader, sections : Seq(ModelSection), bindings : Seq(ModelBinding)]
          /\ Len(p.sections) = p.header.section_count
          /\ \A i \in DOMAIN p.sections :
                p.sections[i].type = "bindings" => Len(p.bindings) >= p.sections[i].element_count
    /\ \A i \in Invocations :
          i.table \in Seq(Address) /\ i.model_base \in Word /\ i.model_bytes \in Word

VARIABLES package, invocation,  \* what the host supplies
          trusted,              \* the build: NAI_TRUSTED_FIRMWARE
          stage,                \* where the load stands
          lost,                 \* a read's DMA failed
          table, slot           \* g_binding_addresses, and the loop that sorts it

inputs == <<package, invocation, trusted>>
vars   == <<inputs, stage, lost, table, slot>>

Stages == {"invocation", "header", "sections", "bindings", "table", "validate", "sort", "ready",
           "bad_invocation", "bad_model", "bad_binding"}

Init ==
    /\ package \in Packages /\ invocation \in Invocations /\ trusted \in BOOLEAN
    /\ stage = "invocation" /\ lost = FALSE /\ table = <<>> /\ slot = 1

----
(* Arithmetic on words.                                                    *)

IsPowerOfTwo(value) == value \in {2 ^ k : k \in 0 .. WordBits - 1}
IsAligned(value, alignment) == IsPowerOfTwo(alignment) /\ value % alignment = 0

ValidRange(offset, size, total) == offset <= total /\ size <= total - offset

\* multiply_checked over several factors: the product if no partial product leaves the word.
Product(s) ==
    LET p[i \in 0 .. Len(s)] == IF i = 0 THEN 1 ELSE p[i - 1] * s[i] IN p[Len(s)]
Fits(s) == Product(s) < Words

\* The first check that fails, in the order of the code.
First(checks) ==
    IF \E i \in DOMAIN checks : checks[i][1]
    THEN checks[CHOOSE i \in DOMAIN checks :
                    checks[i][1] /\ \A j \in 1 .. i - 1 : ~checks[j][1]][2]
    ELSE "ok"

----
(* Opening the model.                                                      *)

\* `reserved`: whether the build looks at the reserved fields; `many`: the test of section_count.
HeaderStatus(h, available, reserved, many) ==
    First(<< <<~h.magic, "bad_magic">>, <<~h.version, "bad_version">>, <<~h.target, "bad_target">>,
             <<reserved /\ ~h.zero, "bad_reserved">>,
             <<\/ h.total_bytes < HeaderBytes \/ h.total_bytes > available
               \/ ~IsAligned(h.total_bytes, NAI_ALIGNMENT_BYTES), "bad_size">>,
             <<\/ h.tcdm_align # NAI_ALIGNMENT_BYTES \/ h.tcdm_bytes > TcdmLimit, "bad_alignment">>,
             <<many, "bad_section">>,
             <<\/ ~IsAligned(h.section_table_off, NAI_ALIGNMENT_BYTES)
               \/ ~ValidRange(h.section_table_off, h.section_count * SectionBytes, h.total_bytes),
               "bad_section">> >>)

\* set_section fails: an unknown type, or one seen before.
SetSectionFails(sections, i) ==
    \/ sections[i].type \notin SectionTypes
    \/ \E j \in 1 .. i - 1 : sections[j].type = sections[i].type

SectionStatus(p, i, reserved) ==
    LET s == p.sections[i] IN
    First(<< <<reserved /\ ~s.zero, "bad_reserved">>,
             <<\/ s.alignment < NAI_ALIGNMENT_BYTES \/ ~IsPowerOfTwo(s.alignment)
               \/ ~IsAligned(s.offset, s.alignment)
               \/ ~IsAligned(s.size, NAI_ALIGNMENT_BYTES), "bad_alignment">>,
             <<~ValidRange(s.offset, s.size, p.header.total_bytes), "bad_section">>,
             <<SetSectionFails(p.sections, i), "bad_section">> >>)

Section(p, type) == p.sections[CHOOSE i \in DOMAIN p.sections : p.sections[i].type = type]

EntryOutside(h, commands) ==
    \/ h.entry_command_off < commands.offset
    \/ h.entry_command_off >= commands.offset + commands.size
    \/ ~IsAligned(h.entry_command_off, NAI_ALIGNMENT_BYTES)

\* The loop over the sections and what is asked of them together.
SectionsStatus(p, reserved) ==
    LET each == [i \in DOMAIN p.sections |->
                    <<SectionStatus(p, i, reserved) # "ok", SectionStatus(p, i, reserved)>>]
    IN  IF First(each) # "ok" THEN First(each)
        ELSE IF \E t \in Required : \A i \in DOMAIN p.sections : p.sections[i].type # t
        THEN "missing_section"
        ELSE IF EntryOutside(p.header, Section(p, "commands")) THEN "bad_section"
        ELSE "ok"

----
(* nai_model_validate_bindings_v1                                          *)

CountOf(p, direction) ==
    CASE direction = "input"  -> p.header.input_count
      [] direction = "output" -> p.header.output_count
      [] OTHER -> 1

BindingCount(p) == Section(p, "bindings").element_count

\* public_count wraps as the code's sum does.
CountsBad(p) ==
    LET public == (p.header.input_count + p.header.output_count) % Words IN
    \/ public < p.header.input_count
    \/ BindingCount(p) < public \/ BindingCount(p) > (public + 1) % Words
    \/ BindingCount(p) > MaxBindings
    \/ ~Fits(<<BindingCount(p), BindingBytes>>)
    \/ BindingCount(p) * BindingBytes > Section(p, "bindings").size

ElementBytes(b) == IF b.data_type = "i8" THEN 1 ELSE 4

BindingBad(p, i) ==
    LET b == p.bindings[i]
        shape == SubSeq(b.dimensions, 1, b.rank)
    IN  \/ b.rank \notin 1 .. 4 \/ ~b.zero
        \/ b.direction \notin Directions
        \/ b.index >= CountOf(p, b.direction)
        \/ b.direction # "temporary" /\ b.rank = 4 /\ b.layout # "nhwc"
        \/ b.data_type \notin {"i8", "i32"}
        \/ \E axis \in 1 .. b.rank : shape[axis] = 0 \/ ~Fits(SubSeq(shape, 1, axis))
        \/ ~Fits(shape \o <<ElementBytes(b)>>)
        \/ b.byte_size # Product(shape \o <<ElementBytes(b)>>)

\* Faulty variant: two bindings may have one name.
BindingTwice_Never(p, i) == FALSE

BindingTwice(p, i) ==
    \E j \in 1 .. i - 1 : /\ p.bindings[j].direction = p.bindings[i].direction
                          /\ p.bindings[j].index = p.bindings[i].index

Count(p, direction) == Cardinality({i \in 1 .. BindingCount(p) : p.bindings[i].direction = direction})

BindingsBad(p) ==
    \/ CountsBad(p)
    \/ \E i \in 1 .. BindingCount(p) : BindingBad(p, i) \/ BindingTwice(p, i)
    \/ Count(p, "input") # p.header.input_count
    \/ Count(p, "output") # p.header.output_count

\* nai_model_open_v1: the model lies in memory.
OpenInPlace(p, available) ==
    LET header == HeaderStatus(p.header, available, TRUE, p.header.section_count > 64) IN
    IF header # "ok" THEN header
    ELSE IF SectionsStatus(p, TRUE) # "ok" THEN SectionsStatus(p, TRUE)
    ELSE IF BindingsBad(p) THEN "bad_binding" ELSE "ok"

----
(* nai_runtime_dispatch_from_ctrl up to the dispatch: each read goes       *)
(* through the staging window and may fail.                                *)

\* l2_read outside the file or the staging window; a DMA that fails is the reads' other outcome.
ReadRefused(offset, bytes, limit) ==
    bytes # 0 /\ (offset > limit \/ bytes > limit - offset \/ bytes > StagingBytes)

Go(next) == stage' = next /\ UNCHANGED <<inputs, lost, table, slot>>
Lose(next) == stage' = next /\ lost' = TRUE /\ UNCHANGED <<inputs, table, slot>>

\* Faulty variant: NAI_TRUSTED_INVALID is 0 in every build.
LooksAtReserved_Never == FALSE

\* NAI_TRUSTED_INVALID
LooksAtReserved == ~trusted

\* validate_invocation
InvocationValid(i) ==
    /\ i.known /\ (LooksAtReserved => i.zero)
    /\ i.model_base % NAI_ALIGNMENT_BYTES = 0 /\ i.model_bytes % NAI_ALIGNMENT_BYTES = 0
    /\ i.model_bytes >= HeaderBytes
    /\ i.table_base % NAI_ALIGNMENT_BYTES = 0
    /\ Len(i.table) <= MaxBindings
    /\ i.model_base + i.model_bytes < Words
    /\ Len(i.table) # 0 => i.table_base + Len(i.table) * AddressBytes < Words

ReadInvocation ==
    /\ stage = "invocation"
    /\ \/ Lose("bad_invocation")
       \/ IF InvocationValid(invocation) THEN Go("header") ELSE Go("bad_invocation")

ReadHeader ==
    /\ stage = "header"
    /\ LET h == package.header IN
       \/ Lose("bad_model")
       \/ IF /\ ~ReadRefused(0, HeaderBytes, invocation.model_bytes)
             /\ HeaderStatus(h, invocation.model_bytes, LooksAtReserved,
                             h.section_count = 0 \/ h.section_count > MaxSections) = "ok"
          THEN Go("sections") ELSE Go("bad_model")

ReadSections ==
    /\ stage = "sections"
    /\ LET h == package.header IN
       \/ Lose("bad_model")
       \/ IF /\ ~ReadRefused(h.section_table_off, h.section_count * SectionBytes, invocation.model_bytes)
             /\ SectionsStatus(package, LooksAtReserved) = "ok"
          THEN Go("bindings") ELSE Go("bad_model")

\* No binding, no read: the failure of a read that is not made is not a step.
ReadBindings ==
    /\ stage = "bindings"
    /\ LET s == Section(package, "bindings")
           n == s.element_count
           readable == /\ n <= MaxBindings /\ Fits(<<n, BindingBytes>>) /\ n * BindingBytes <= s.size
                       /\ ~ReadRefused(s.offset, n * BindingBytes, invocation.model_bytes)
       IN \/ readable /\ n # 0 /\ Lose("bad_model")
          \/ IF readable /\ ~BindingsBad(package) THEN Go("table") ELSE Go("bad_model")

ReadTable ==
    /\ stage = "table"
    /\ LET bytes == Len(invocation.table) * AddressBytes IN
       \/ bytes # 0 /\ Lose("bad_binding")
       \/ IF ReadRefused(0, bytes, bytes) THEN Go("bad_binding")
          ELSE /\ stage' = "validate" /\ table' = invocation.table
               /\ UNCHANGED <<inputs, lost, slot>>

----
(* validate_runtime_bindings                                               *)

\* Faulty variant: inputs and outputs are taken for each other.
IsFor_ByIndex(entry, b) == entry.index = b.index

\* The model's binding for an entry of the table, if it has one.
IsFor(entry, b) == entry.direction = b.direction /\ entry.index = b.index

RequiredAlignment(entry) ==
    IF /\ entry.direction # "temporary"
       /\ \E i \in 1 .. BindingCount(package) :
              IsFor(entry, package.bindings[i]) /\ package.bindings[i].layout = "nhwc"
    THEN 1 ELSE NAI_ALIGNMENT_BYTES

EntryBad(i) ==
    LET e == table[i] IN
    \/ e.flags \/ e.base % RequiredAlignment(e) # 0 \/ e.byte_size = 0
    \/ e.base + e.byte_size >= Words \/ e.direction \notin Directions
    \/ \E j \in 1 .. i - 1 : table[j].direction = e.direction /\ table[j].index = e.index

\* Faulty variant: entries behind the last binding are accepted.
CountsMatch_AtLeast == Len(table) >= BindingCount(package)

CountsMatch == Len(table) = BindingCount(package)

ValidateTable ==
    /\ stage = "validate"
    /\ IF \/ ~CountsMatch
          \/ \E i \in DOMAIN table : EntryBad(i)
       THEN Go("bad_binding") ELSE Go("sort")

Swapped(t, i, j) == [t EXCEPT ![i] = t[j], ![j] = t[i]]

\* One turn of the loop that sorts the table.
SortSlot ==
    /\ stage = "sort" /\ slot <= Len(table)
    /\ LET b == package.bindings[slot]
           matches == {i \in slot .. Len(table) : IsFor(table[i], b)}
       IN IF matches = {} THEN Go("bad_binding")
          ELSE \E found \in matches :
               /\ \A j \in matches : found <= j
               /\ IF table[found].byte_size >= b.byte_size
                  THEN /\ table' = Swapped(table, slot, found) /\ slot' = slot + 1
                       /\ UNCHANGED <<inputs, stage, lost>>
                  ELSE Go("bad_binding")

Sorted == stage = "sort" /\ slot > Len(table) /\ Go("ready")

Next == ReadInvocation \/ ReadHeader \/ ReadSections \/ ReadBindings \/ ReadTable
        \/ ValidateTable \/ SortSlot \/ Sorted

Spec == Init /\ [][Next]_vars

----
(* References.                                                             *)

Refused == [ok |-> FALSE, base |-> 0, bytes |-> 0]
Region(base, bytes) == [ok |-> TRUE, base |-> base, bytes |-> bytes]

InModel(ref, section) ==
    IF \/ ref.index # 0 \/ invocation.model_bytes < package.header.total_bytes
       \/ invocation.model_base + section.offset >= Words
    THEN Refused ELSE Region(invocation.model_base + section.offset, section.size)

\* resolve_binding: the first entry of that name.
InTable(ref) ==
    LET matches == {i \in DOMAIN table : table[i].direction = ref.region /\ table[i].index = ref.index}
        first   == CHOOSE i \in matches : \A j \in matches : i <= j
    IN  IF matches = {} THEN Refused ELSE Region(table[first].base, table[first].byte_size)

\* "qparams" is no region of a reference: run_rq_load computes such an address by itself.
RegionOf(ref) ==
    CASE ref.region \in {"constants", "commands", "qparams"} -> InModel(ref, Section(package, ref.region))
      [] ref.region \in Directions -> InTable(ref)
      [] ref.region = "scratch" ->
            IF ref.index # 0 THEN Refused ELSE Region(TcdmBase, package.header.tcdm_bytes)
      [] OTHER -> Refused

NoAddress == -1
Unknown   == -2     \* what a slot behind the table happens to hold

\* nai_resolve_ref_v1
ResolveChecked(ref, bytes, alignment) ==
    LET region == RegionOf(ref) IN
    IF /\ region.ok
       /\ ValidRange(ref.offset, bytes, region.bytes) /\ region.base + ref.offset < Words
       /\ IsAligned(region.base + ref.offset, alignment)
    THEN region.base + ref.offset ELSE NoAddress

\* Faulty variant: outputs are counted from the first slot.
PositionOf_NoInputs(ref) ==
    CASE ref.region \in {"input", "output"} -> ref.index + 1
      [] ref.region = "temporary" -> package.header.input_count + package.header.output_count + 1

\* The slot of a binding when the section lists inputs, outputs and the temporary in this order.
PositionOf(ref) ==
    CASE ref.region = "input"  -> ref.index + 1
      [] ref.region = "output" -> package.header.input_count + ref.index + 1
      [] ref.region = "temporary" -> package.header.input_count + package.header.output_count + 1

\* resolve under NAI_TRUSTED_FIRMWARE
ResolveTrusted(ref) ==
    CASE ref.region \in {"constants", "commands", "qparams"} ->
            (invocation.model_base + Section(package, ref.region).offset + ref.offset) % Words
      [] ref.region \in Directions ->
            IF PositionOf(ref) \in DOMAIN table
            THEN (table[PositionOf(ref)].base + ref.offset) % Words ELSE Unknown
      [] ref.region = "scratch" -> (TcdmBase + ref.offset) % Words
      [] OTHER -> NoAddress

----
(* What the load promises.                                                 *)

\* Words, addresses and the loop stay in range; a table that is sorted has one entry for each
\* binding of the model (validate_runtime_bindings compares the counts first).
TypeOK ==
    /\ package \in Packages /\ invocation \in Invocations /\ trusted \in BOOLEAN
    /\ stage \in Stages /\ lost \in BOOLEAN
    /\ table \in Seq(Address)
    /\ slot \in 1 .. Len(table) + 1
    /\ stage \in {"sort", "ready"} => Len(table) = BindingCount(package)

Opened == stage \in {"table", "validate", "sort", "ready", "bad_binding"}

Cleared(p) == [p EXCEPT !.header.zero = TRUE,
                        !.sections = [i \in DOMAIN p.sections |-> [p.sections[i] EXCEPT !.zero = TRUE]]]

\* The package with the reserved fields as the build sees them.
Shown == IF trusted THEN Cleared(package) ELSE package

InMemory == OpenInPlace(Shown, invocation.model_bytes)

\* The loader of a model in memory refuses it too, or its binding section is larger than the
\* staging window it is read through (l2_read).
RefusedAlike == InMemory # "ok" \/ BindingCount(package) * BindingBytes > StagingBytes

\* The streaming loader accepts what the loader of a model in memory accepts, reserved fields
\* apart in the trusted build; what it refuses, with every read done, the other refuses too,
\* large binding sections apart.
OpenAgrees ==
    /\ Opened => InMemory = "ok"
    /\ stage = "bad_model" /\ ~lost => RefusedAlike

Names(direction) == {<<direction, i>> : i \in 0 .. CountOf(package, direction) - 1}

\* What an opened model may be relied on for: every section once and inside the file, the entry
\* inside the commands, and among the bindings every input and every output exactly once.  The
\* loader only counts inputs and outputs and compares names pairwise.
OpenedWellFormed ==
    Opened =>
        LET S == package.sections
            B == {i \in 1 .. BindingCount(package) : package.bindings[i].direction # "temporary"}
            name == [i \in B |-> <<package.bindings[i].direction, package.bindings[i].index>>]
        IN  /\ \A t \in Required : \E i \in DOMAIN S :
                  S[i].type = t /\ \A j \in DOMAIN S \ {i} : S[j].type # t
            /\ \A i \in DOMAIN S : S[i].offset + S[i].size <= invocation.model_bytes
            /\ LET c == Section(package, "commands") IN
               package.header.entry_command_off \in c.offset .. c.offset + c.size - 1
            /\ \A i, j \in B : name[i] = name[j] => i = j
            /\ {name[i] : i \in B} = Names("input") \cup Names("output")

\* The slots up to n have the names of the model's bindings and are large enough for them.
SlotsMatch(n) ==
    \A i \in 1 .. n :
        LET b == package.bindings[i] IN
        /\ table[i].direction = b.direction /\ table[i].index = b.index
        /\ table[i].byte_size >= b.byte_size

\* The table is the host's table in another order.
Rearranged ==
    /\ Len(table) = Len(invocation.table)
    /\ \E f \in [DOMAIN table -> DOMAIN table] :
          /\ \A i, j \in DOMAIN table : f[i] = f[j] => i = j
          /\ \A i \in DOMAIN table : table[i] = invocation.table[f[i]]

\* The sorted table is the host's table, slot by slot under the name of the model's binding and
\* large enough for it.
CanonicalSlots == stage = "ready" => SlotsMatch(BindingCount(package)) /\ Rearranged

\* The binding section lists the inputs, then the outputs, then the temporary, each by its index.
Ordered ==
    \A i \in 1 .. BindingCount(package) :
        LET b == package.bindings[i] IN
        b.index = i - 1 - CASE b.direction = "input"  -> 0
                            [] b.direction = "output" -> package.header.input_count
                            [] OTHER -> package.header.input_count + package.header.output_count

----
(* The inductive invariant behind the properties of the load.              *)

HeaderAccepted ==
    HeaderStatus(package.header, invocation.model_bytes, LooksAtReserved,
                 package.header.section_count = 0 \/ package.header.section_count > MaxSections) = "ok"
SectionsAccepted == SectionsStatus(package, LooksAtReserved) = "ok"

EntriesInMemory == \A i \in DOMAIN table : table[i].base + table[i].byte_size < Words

\* What each stage may rely on: header, sections and bindings were accepted, the table is as the
\* host wrote it until it is sorted, and the slots the loop has passed are settled.  A model is
\* refused for a reason the loader of a model in memory sees too, or for the staging window.
StageInv ==
    /\ stage \in {"header", "sections", "bindings"} \/ Opened => InvocationValid(invocation)
    /\ stage \in {"sections", "bindings"} \/ Opened => HeaderAccepted
    /\ stage = "bindings" \/ Opened => SectionsAccepted
    /\ Opened => ~BindingsBad(package)
    /\ stage = "bad_model" /\ ~lost => RefusedAlike
    /\ stage \in {"validate", "sort", "ready", "bad_binding"} \/ slot = 1
    /\ stage = "validate" => table = invocation.table /\ slot = 1
    /\ stage \in {"sort", "ready"} => Rearranged /\ EntriesInMemory /\ SlotsMatch(slot - 1)
    /\ stage = "ready" => slot = Len(table) + 1

LoadInv == TypeOK /\ StageInv

====
