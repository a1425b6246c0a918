---- MODULE ModelLoaderProofs ----
(***************************************************************************)
(* Theorems about ModelLoader, for every set of models and invocations,    *)
(* every width of a word and every limit: the table of addresses is well   *)
(* typed and ends up in the order of the model's bindings, and what the    *)
(* resolver of the trusted build makes of it.                              *)
(***************************************************************************)
EXTENDS ModelLoader, SequenceTheorems, FiniteSetTheorems, WellFoundedInduction, NaturalsInduction, TLAPS

----
(* What it means that no check fails. *)

Less == {ss \in Nat \X Nat : ss[1] < ss[2]}

LEMMA LessWellFounded == IsWellFoundedOn(Less, Nat)
  BY NatLessThanWellFounded DEF OpToRel, Less

\* A chain of checks ends well only if none of them fails.
LEMMA FirstOk ==
    ASSUME NEW checks, NEW n \in Nat, DOMAIN checks = 1 .. n,
           \A i \in 1 .. n : checks[i][1] => checks[i][2] # "ok"
    PROVE  First(checks) = "ok" <=> \A i \in 1 .. n : ~checks[i][1]
  <1> DEFINE Fails == {i \in 1 .. n : checks[i][1]}
  <1>1. CASE Fails = {}
    BY <1>1 DEF First
  <1>2. CASE Fails # {}
    <2>1. PICK x \in Fails : \A y \in Fails : ~(<<y, x>> \in Less)
      <3>1. Fails \subseteq Nat
        OBVIOUS
      <3> HIDE DEF Fails
      <3> QED  BY <1>2, <3>1, WFMin, LessWellFounded
    <2>2. \A j \in 1 .. x - 1 : ~checks[j][1]
      <3> SUFFICES ASSUME NEW j \in 1 .. (x - 1), checks[j][1] PROVE FALSE
        OBVIOUS
      <3>1. j \in Fails /\ <<j, x>> \in Less
        BY DEF Less
      <3> QED  BY <2>1, <3>1
    <2> DEFINE c == CHOOSE i \in DOMAIN checks : checks[i][1] /\ \A j \in 1 .. i - 1 : ~checks[j][1]
    <2>3. c \in 1 .. n /\ checks[c][1]
      <3>1. \E i \in DOMAIN checks : checks[i][1] /\ \A j \in 1 .. i - 1 : ~checks[j][1]
        BY <2>1, <2>2
      <3> QED  BY <3>1
    <2>4. First(checks) = checks[c][2]
      BY <2>1 DEF First
    <2> HIDE DEF c
    <2> QED  BY <2>1, <2>3, <2>4
  <1> QED  BY <1>1, <1>2

\* The header is accepted if it passes each test.
LEMMA HeaderOk ==
    ASSUME NEW h, NEW available, NEW reserved, NEW many
    PROVE  HeaderStatus(h, available, reserved, many) = "ok" <=>
              /\ h.magic /\ h.version /\ h.target /\ ~(reserved /\ ~h.zero)
              /\ ~(\/ h.total_bytes < HeaderBytes \/ h.total_bytes > available
                   \/ ~IsAligned(h.total_bytes, NAI_ALIGNMENT_BYTES))
              /\ ~(h.tcdm_align # NAI_ALIGNMENT_BYTES \/ h.tcdm_bytes > TcdmLimit)
              /\ ~many
              /\ ~(\/ ~IsAligned(h.section_table_off, NAI_ALIGNMENT_BYTES)
                   \/ ~ValidRange(h.section_table_off, h.section_count * SectionBytes, h.total_bytes))
  <1> DEFINE size == \/ h.total_bytes < HeaderBytes \/ h.total_bytes > available
                     \/ ~IsAligned(h.total_bytes, NAI_ALIGNMENT_BYTES)
             tcdm == h.tcdm_align # NAI_ALIGNMENT_BYTES \/ h.tcdm_bytes > TcdmLimit
             place == \/ ~IsAligned(h.section_table_off, NAI_ALIGNMENT_BYTES)
                      \/ ~ValidRange(h.section_table_off, h.section_count * SectionBytes, h.total_bytes)
             blank == reserved /\ ~h.zero
             magic == ~h.magic
             version == ~h.version
             target == ~h.target
             checks == << <<magic, "bad_magic">>, <<version, "bad_version">>, <<target, "bad_target">>,
                          <<blank, "bad_reserved">>, <<size, "bad_size">>, <<tcdm, "bad_alignment">>,
                          <<many, "bad_section">>, <<place, "bad_section">> >>
  <1>1. HeaderStatus(h, available, reserved, many) = First(checks)
    BY DEF HeaderStatus
  <1> HIDE DEF size, tcdm, place, blank, magic, version, target
  <1>2. DOMAIN checks = 1 .. 8 /\ \A i \in 1 .. 8 : checks[i][2] # "ok"
    OBVIOUS
  <1>3. (\A i \in 1 .. 8 : ~checks[i][1]) <=>
           ~magic /\ ~version /\ ~target /\ ~blank /\ ~size /\ ~tcdm /\ ~many /\ ~place
    OBVIOUS
  <1> HIDE DEF checks
  <1>4. First(checks) = "ok" <=> \A i \in 1 .. 8 : ~checks[i][1]
    BY <1>2, FirstOk
  <1>5. HeaderStatus(h, available, reserved, many) = "ok" <=>
           ~magic /\ ~version /\ ~target /\ ~blank /\ ~size /\ ~tcdm /\ ~many /\ ~place
    BY <1>1, <1>3, <1>4
  <1> QED  BY <1>5 DEF size, tcdm, place, blank, magic, version, target

\* One section is accepted if it passes each test.
LEMMA SectionOk ==
    ASSUME NEW p, NEW i, NEW reserved
    PROVE  SectionStatus(p, i, reserved) = "ok" <=>
              LET s == p.sections[i] IN
              /\ ~(reserved /\ ~s.zero)
              /\ ~(\/ s.alignment < NAI_ALIGNMENT_BYTES \/ ~IsPowerOfTwo(s.alignment)
                   \/ ~IsAligned(s.offset, s.alignment)
                   \/ ~IsAligned(s.size, NAI_ALIGNMENT_BYTES))
              /\ ValidRange(s.offset, s.size, p.header.total_bytes)
              /\ ~SetSectionFails(p.sections, i)
  <1> DEFINE s == p.sections[i]
             blank == reserved /\ ~s.zero
             crooked == \/ s.alignment < NAI_ALIGNMENT_BYTES \/ ~IsPowerOfTwo(s.alignment)
                        \/ ~IsAligned(s.offset, s.alignment)
                        \/ ~IsAligned(s.size, NAI_ALIGNMENT_BYTES)
             outside == ~ValidRange(s.offset, s.size, p.header.total_bytes)
             refused == SetSectionFails(p.sections, i)
             checks == << <<blank, "bad_reserved">>, <<crooked, "bad_alignment">>,
                          <<outside, "bad_section">>, <<refused, "bad_section">> >>
  <1>1. SectionStatus(p, i, reserved) = First(checks)
    BY DEF SectionStatus
  <1> HIDE DEF blank, crooked, outside, refused
  <1>2. DOMAIN checks = 1 .. 4 /\ \A k \in 1 .. 4 : checks[k][2] # "ok"
    OBVIOUS
  <1>3. (\A k \in 1 .. 4 : ~checks[k][1]) <=> ~blank /\ ~crooked /\ ~outside /\ ~refused
    OBVIOUS
  <1> HIDE DEF checks
  <1>4. First(checks) = "ok" <=> \A k \in 1 .. 4 : ~checks[k][1]
    BY <1>2, FirstOk
  <1>5. SectionStatus(p, i, reserved) = "ok" <=> ~blank /\ ~crooked /\ ~outside /\ ~refused
    BY <1>1, <1>3, <1>4
  <1> QED  BY <1>5 DEF blank, crooked, outside, refused

\* The section table is accepted if each section is, no required one is missing and the entry
\* lies in the commands.
LEMMA SectionsOk ==
    ASSUME NEW p, NEW n \in Nat, DOMAIN p.sections = 1 .. n, NEW reserved
    PROVE  SectionsStatus(p, reserved) = "ok" <=>
              /\ \A i \in 1 .. n : SectionStatus(p, i, reserved) = "ok"
              /\ \A t \in Required : \E i \in 1 .. n : p.sections[i].type = t
              /\ ~EntryOutside(p.header, Section(p, "commands"))
  <1> DEFINE each == [i \in DOMAIN p.sections |->
                        <<SectionStatus(p, i, reserved) # "ok", SectionStatus(p, i, reserved)>>]
  <1>1. First(each) = "ok" <=> \A i \in 1 .. n : ~each[i][1]
    <2>1. DOMAIN each = 1 .. n /\ \A i \in 1 .. n : each[i][1] => each[i][2] # "ok"
      OBVIOUS
    <2> HIDE DEF each
    <2> QED  BY <2>1, FirstOk
  <1>2. (\A i \in 1 .. n : ~each[i][1]) <=> \A i \in 1 .. n : SectionStatus(p, i, reserved) = "ok"
    OBVIOUS
  <1> HIDE DEF each
  <1>3. SectionsStatus(p, reserved) = "ok" <=>
           /\ First(each) = "ok"
           /\ ~(\E t \in Required : \A i \in DOMAIN p.sections : p.sections[i].type # t)
           /\ ~EntryOutside(p.header, Section(p, "commands"))
    BY DEF SectionsStatus, each
  <1> QED  BY <1>1, <1>2, <1>3

----
(* The package with its reserved fields as the build sees them. *)

Inputs == package \in Packages /\ invocation \in Invocations /\ trusted \in BOOLEAN

PackageType == [header : ModelHeader, sections : Seq(ModelSection), bindings : Seq(ModelBinding)]

LEMMA PackageFields ==
    ASSUME Inputs
    PROVE  /\ package \in PackageType
           /\ package.header \in ModelHeader
           /\ DOMAIN package.sections = 1 .. package.header.section_count
           /\ package.header.section_count \in Nat
           /\ \A i \in 1 .. package.header.section_count : package.sections[i] \in ModelSection
           /\ package.bindings \in Seq(ModelBinding)
           /\ invocation.model_bytes \in Nat /\ invocation.model_base \in Nat
           /\ Words \in Nat
  <1>1. package \in PackageType /\ Len(package.sections) = package.header.section_count
    BY LoaderAssumption DEF Inputs, PackageType
  <1>2. /\ package.header \in ModelHeader /\ package.sections \in Seq(ModelSection)
        /\ package.bindings \in Seq(ModelBinding)
    BY <1>1 DEF PackageType
  <1>3. invocation.model_bytes \in Word /\ invocation.model_base \in Word /\ Words \in Nat
    BY LoaderAssumption DEF Inputs
  <1>4. package.header.section_count \in Word
    BY <1>2 DEF ModelHeader
  <1>5. DOMAIN package.sections = 1 .. package.header.section_count
    BY <1>1, <1>2
  <1>6. \A i \in 1 .. package.header.section_count : package.sections[i] \in ModelSection
    BY <1>1, <1>2, ElementOfSeq
  <1> QED  BY <1>1, <1>2, <1>3, <1>4, <1>5, <1>6 DEF Word

\* Clearing the reserved fields changes nothing else.
LEMMA ClearedHeader ==
    ASSUME Inputs
    PROVE  /\ trusted => Shown.header.zero
           /\ ~trusted => Shown.header.zero = package.header.zero
           /\ \A f \in {"magic", "version", "target", "total_bytes", "section_count", "section_table_off",
                        "entry_command_off", "tcdm_bytes", "tcdm_align", "input_count", "output_count"} :
                 Shown.header[f] = package.header[f]
           /\ Shown.bindings = package.bindings
  <1>1. package \in PackageType /\ package.header \in ModelHeader
    BY PackageFields
  <1>2. CASE trusted
    <2>1. Shown = Cleared(package)
      BY <1>2 DEF Shown
    <2>2. Shown.header = [package.header EXCEPT !.zero = TRUE] /\ Shown.bindings = package.bindings
      BY <1>1, <2>1 DEF Cleared, PackageType
    <2> QED  BY <1>1, <1>2, <2>2 DEF ModelHeader
  <1>3. CASE ~trusted
    BY <1>3 DEF Shown
  <1> QED  BY <1>2, <1>3

LEMMA ClearedSections ==
    ASSUME Inputs
    PROVE  /\ DOMAIN Shown.sections = 1 .. package.header.section_count
           /\ \A i \in 1 .. package.header.section_count :
                 /\ trusted => Shown.sections[i].zero
                 /\ ~trusted => Shown.sections[i].zero = package.sections[i].zero
                 /\ \A f \in {"type", "offset", "size", "alignment", "element_count"} :
                       Shown.sections[i][f] = package.sections[i][f]
  <1>1. /\ package \in PackageType /\ DOMAIN package.sections = 1 .. package.header.section_count
        /\ \A i \in 1 .. package.header.section_count : package.sections[i] \in ModelSection
    BY PackageFields
  <1>2. CASE trusted
    <2>1. Shown = Cleared(package)
      BY <1>2 DEF Shown
    <2>2. Shown.sections = [i \in DOMAIN package.sections |-> [package.sections[i] EXCEPT !.zero = TRUE]]
      BY <1>1, <2>1 DEF Cleared, PackageType
    <2>3. \A i \in 1 .. package.header.section_count :
             Shown.sections[i] = [package.sections[i] EXCEPT !.zero = TRUE]
      BY <1>1, <2>2
    <2>4. \A s \in ModelSection :
             /\ [s EXCEPT !.zero = TRUE].zero
             /\ \A f \in {"type", "offset", "size", "alignment", "element_count"} : [s EXCEPT !.zero = TRUE][f] = s[f]
      BY DEF ModelSection
    <2> QED  BY <1>1, <1>2, <2>2, <2>3, <2>4
  <1>3. CASE ~trusted
    BY <1>1, <1>3 DEF Shown
  <1> QED  BY <1>2, <1>3

\* A section is judged alike, with the reserved fields skipped or clear.
LEMMA SectionsAlike ==
    ASSUME Inputs, NEW i \in 1 .. package.header.section_count
    PROVE  SectionStatus(Shown, i, TRUE) = "ok" <=> SectionStatus(package, i, LooksAtReserved) = "ok"
  <1> DEFINE s == package.sections[i]
             t == Shown.sections[i]
             Passes(x, h) == /\ ~(\/ x.alignment < NAI_ALIGNMENT_BYTES \/ ~IsPowerOfTwo(x.alignment)
                                  \/ ~IsAligned(x.offset, x.alignment)
                                  \/ ~IsAligned(x.size, NAI_ALIGNMENT_BYTES))
                             /\ ValidRange(x.offset, x.size, h.total_bytes)
  <1>1. s.alignment = t.alignment /\ s.offset = t.offset /\ s.size = t.size
        /\ package.header.total_bytes = Shown.header.total_bytes
    BY ClearedSections, ClearedHeader
  <1>2. Passes(s, package.header) <=> Passes(t, Shown.header)
    BY <1>1
  <1>3. SetSectionFails(Shown.sections, i) <=> SetSectionFails(package.sections, i)
    <2>1. i \in Nat /\ i >= 1
      BY PackageFields
    <2>2. \A j \in 1 .. i : Shown.sections[j].type = package.sections[j].type
      BY ClearedSections, PackageFields
    <2>3. Shown.sections[i].type = package.sections[i].type
      BY <2>1, <2>2
    <2>4. \A j \in 1 .. i - 1 : Shown.sections[j].type = package.sections[j].type
      BY <2>1, <2>2
    <2> QED  BY <2>3, <2>4 DEF SetSectionFails
  <1>4. TRUE /\ ~t.zero <=> LooksAtReserved /\ ~s.zero
    BY ClearedSections DEF LooksAtReserved, Inputs
  <1>5. SectionStatus(Shown, i, TRUE) = "ok" <=>
           ~(TRUE /\ ~t.zero) /\ Passes(t, Shown.header) /\ ~SetSectionFails(Shown.sections, i)
    BY SectionOk
  <1>6. SectionStatus(package, i, LooksAtReserved) = "ok" <=>
           ~(LooksAtReserved /\ ~s.zero) /\ Passes(s, package.header) /\ ~SetSectionFails(package.sections, i)
    BY SectionOk
  <1> HIDE DEF Passes, s, t
  <1> QED  BY <1>2, <1>3, <1>4, <1>5, <1>6

\* A section that is there is the same one in both.
LEMMA SectionShown ==
    ASSUME Inputs, NEW type, \E i \in 1 .. package.header.section_count : package.sections[i].type = type
    PROVE  \A f \in {"type", "offset", "size", "alignment", "element_count"} :
              Section(Shown, type)[f] = Section(package, type)[f]
  <1> DEFINE n == package.header.section_count
             c == CHOOSE i \in 1 .. n : package.sections[i].type = type
  <1>1. DOMAIN package.sections = 1 .. n /\ DOMAIN Shown.sections = 1 .. n
    BY PackageFields, ClearedSections
  <1>2. \A i \in 1 .. n : Shown.sections[i].type = package.sections[i].type
    BY ClearedSections
  <1>3. c \in 1 .. n /\ Section(package, type) = package.sections[c]
    BY <1>1 DEF Section
  <1>4. Section(Shown, type) = Shown.sections[c]
    <2>1. (CHOOSE i \in DOMAIN Shown.sections : Shown.sections[i].type = type) = c
      BY <1>1, <1>2
    <2> QED  BY <2>1 DEF Section
  <1> HIDE DEF c
  <1> QED  BY <1>3, <1>4, ClearedSections

\* So is the section table.
LEMMA TablesAlike == ASSUME Inputs PROVE SectionsStatus(Shown, TRUE) = "ok" <=> SectionsAccepted
  <1> DEFINE n == package.header.section_count
  <1>1. n \in Nat /\ DOMAIN package.sections = 1 .. n /\ DOMAIN Shown.sections = 1 .. n
    BY PackageFields, ClearedSections
  <1>2. \A i \in 1 .. n : Shown.sections[i].type = package.sections[i].type
    BY ClearedSections
  <1> HIDE DEF n
  <1>3. (\A i \in 1 .. n : SectionStatus(Shown, i, TRUE) = "ok") <=>
        (\A i \in 1 .. n : SectionStatus(package, i, LooksAtReserved) = "ok")
    BY SectionsAlike DEF n
  <1>4. (\A t \in Required : \E i \in 1 .. n : Shown.sections[i].type = t) <=>
        (\A t \in Required : \E i \in 1 .. n : package.sections[i].type = t)
    BY <1>2
  <1>5. ASSUME \A t \in Required : \E i \in 1 .. n : package.sections[i].type = t
        PROVE  EntryOutside(Shown.header, Section(Shown, "commands")) <=>
               EntryOutside(package.header, Section(package, "commands"))
    <2>1. "commands" \in Required
      BY DEF Required, SectionTypes
    <2>2. \E i \in 1 .. package.header.section_count : package.sections[i].type = "commands"
      BY <1>5, <2>1 DEF n
    <2>3. /\ Section(Shown, "commands").offset = Section(package, "commands").offset
          /\ Section(Shown, "commands").size = Section(package, "commands").size
      BY <2>2, SectionShown
    <2>4. Shown.header.entry_command_off = package.header.entry_command_off
      BY ClearedHeader
    <2> QED  BY <2>3, <2>4 DEF EntryOutside
  <1>6. SectionsStatus(Shown, TRUE) = "ok" <=>
           /\ \A i \in 1 .. n : SectionStatus(Shown, i, TRUE) = "ok"
           /\ \A t \in Required : \E i \in 1 .. n : Shown.sections[i].type = t
           /\ ~EntryOutside(Shown.header, Section(Shown, "commands"))
    BY <1>1, SectionsOk
  <1>7. SectionsAccepted <=>
           /\ \A i \in 1 .. n : SectionStatus(package, i, LooksAtReserved) = "ok"
           /\ \A t \in Required : \E i \in 1 .. n : package.sections[i].type = t
           /\ ~EntryOutside(package.header, Section(package, "commands"))
    BY <1>1, SectionsOk DEF SectionsAccepted
  <1> QED  BY <1>3, <1>4, <1>5, <1>6, <1>7

\* A required section of an accepted table is there.
LEMMA RequiredThere ==
    ASSUME Inputs, SectionsAccepted, NEW t \in Required
    PROVE  \E i \in 1 .. package.header.section_count : package.sections[i].type = t
  <1> DEFINE n == package.header.section_count
  <1>1. n \in Nat /\ DOMAIN package.sections = 1 .. n
    BY PackageFields
  <1> HIDE DEF n
  <1>2. \A x \in Required : \E i \in 1 .. n : package.sections[i].type = x
    BY <1>1, SectionsOk DEF SectionsAccepted
  <1> QED  BY <1>2 DEF n

LEMMA BindingsAlike ==
    ASSUME Inputs, SectionsAccepted PROVE BindingsBad(Shown) <=> BindingsBad(package)
  <1>1. \E i \in 1 .. package.header.section_count : package.sections[i].type = "bindings"
    <2>1. "bindings" \in Required
      BY DEF Required, SectionTypes
    <2> QED  BY <2>1, RequiredThere
  <1>2. /\ Section(Shown, "bindings").element_count = Section(package, "bindings").element_count
        /\ Section(Shown, "bindings").size = Section(package, "bindings").size
    BY <1>1, SectionShown
  <1>3. /\ Shown.bindings = package.bindings
        /\ Shown.header.input_count = package.header.input_count
        /\ Shown.header.output_count = package.header.output_count
    BY ClearedHeader
  <1>4. BindingCount(Shown) = BindingCount(package)
    BY <1>2 DEF BindingCount
  <1>5. CountsBad(Shown) <=> CountsBad(package)
    BY <1>2, <1>3, <1>4 DEF CountsBad
  <1>6. \A i : BindingBad(Shown, i) <=> BindingBad(package, i)
    BY <1>3 DEF BindingBad, CountOf
  <1>7. \A i : BindingTwice(Shown, i) <=> BindingTwice(package, i)
    BY <1>3 DEF BindingTwice
  <1>8. \A d : Count(Shown, d) = Count(package, d)
    BY <1>3, <1>4 DEF Count
  <1> QED  BY <1>3, <1>4, <1>5, <1>6, <1>7, <1>8 DEF BindingsBad

----
(* What the loader of a model in memory makes of it. *)

LEMMA InMemoryOk ==
    InMemory = "ok" <=>
       /\ HeaderStatus(Shown.header, invocation.model_bytes, TRUE, Shown.header.section_count > 64) = "ok"
       /\ SectionsStatus(Shown, TRUE) = "ok"
       /\ ~BindingsBad(Shown)
  BY DEF InMemory, OpenInPlace

\* Both loaders ask the same of a header but for the number of sections.
LEMMA HeadersAlike ==
    ASSUME Inputs, Shown.header.section_count > 64 <=>
                   package.header.section_count = 0 \/ package.header.section_count > MaxSections
    PROVE  HeaderStatus(Shown.header, invocation.model_bytes, TRUE, Shown.header.section_count > 64) = "ok"
           <=> HeaderAccepted
  <1> DEFINE h == package.header
             s == Shown.header
             Passes(x) ==
                /\ x.magic /\ x.version /\ x.target
                /\ ~(\/ x.total_bytes < HeaderBytes \/ x.total_bytes > invocation.model_bytes
                     \/ ~IsAligned(x.total_bytes, NAI_ALIGNMENT_BYTES))
                /\ ~(x.tcdm_align # NAI_ALIGNMENT_BYTES \/ x.tcdm_bytes > TcdmLimit)
                /\ ~(\/ ~IsAligned(x.section_table_off, NAI_ALIGNMENT_BYTES)
                     \/ ~ValidRange(x.section_table_off, x.section_count * SectionBytes, x.total_bytes))
  <1>1. /\ s.magic = h.magic /\ s.version = h.version /\ s.target = h.target
        /\ s.total_bytes = h.total_bytes /\ s.section_count = h.section_count
        /\ s.section_table_off = h.section_table_off /\ s.tcdm_align = h.tcdm_align
        /\ s.tcdm_bytes = h.tcdm_bytes
    BY ClearedHeader
  <1>2. Passes(s) <=> Passes(h)
    <2> HIDE DEF s, h
    <2> QED  BY <1>1
  <1>3. TRUE /\ ~s.zero <=> LooksAtReserved /\ ~h.zero
    BY ClearedHeader DEF LooksAtReserved, Inputs
  <1> DEFINE many == h.section_count = 0 \/ h.section_count > MaxSections
             wide == s.section_count > 64
             looks == LooksAtReserved
  <1>4. wide <=> many
    OBVIOUS
  <1>5. HeaderAccepted <=> HeaderStatus(h, invocation.model_bytes, looks, many) = "ok"
    BY DEF HeaderAccepted
  <1> HIDE DEF s, h, many, wide, looks
  <1>6. HeaderStatus(s, invocation.model_bytes, TRUE, wide) = "ok" <=>
           Passes(s) /\ ~(TRUE /\ ~s.zero) /\ ~wide
    BY HeaderOk
  <1>7. HeaderStatus(h, invocation.model_bytes, looks, many) = "ok" <=>
           Passes(h) /\ ~(looks /\ ~h.zero) /\ ~many
    BY HeaderOk
  <1> HIDE DEF Passes
  <1>8. HeaderStatus(s, invocation.model_bytes, TRUE, wide) = "ok" <=> HeaderAccepted
    BY <1>2, <1>3, <1>4, <1>5, <1>6, <1>7 DEF looks
  <1> QED  BY <1>8 DEF s, wide

LEMMA SixTypes == IsFiniteSet(SectionTypes) /\ Cardinality(SectionTypes) <= 6
  <1> DEFINE A == {"commands"}
             B == A \cup {"constants"}
             C == B \cup {"tensors"}
             D == C \cup {"bindings"}
             E == D \cup {"qparams"}
             F == E \cup {"debug_map"}
  <1>1. SectionTypes = F
    BY DEF SectionTypes
  <1>2. IsFiniteSet(A) /\ Cardinality(A) = 1
    BY FS_Singleton
  <1> HIDE DEF A
  <1>3. IsFiniteSet(B) /\ Cardinality(B) \in Nat /\ Cardinality(B) <= 2
    BY <1>2, FS_AddElement
  <1> HIDE DEF B
  <1>4. IsFiniteSet(C) /\ Cardinality(C) \in Nat /\ Cardinality(C) <= 3
    BY <1>3, FS_AddElement
  <1> HIDE DEF C
  <1>5. IsFiniteSet(D) /\ Cardinality(D) \in Nat /\ Cardinality(D) <= 4
    BY <1>4, FS_AddElement
  <1> HIDE DEF D
  <1>6. IsFiniteSet(E) /\ Cardinality(E) \in Nat /\ Cardinality(E) <= 5
    BY <1>5, FS_AddElement
  <1> HIDE DEF E
  <1>7. IsFiniteSet(F) /\ Cardinality(F) \in Nat /\ Cardinality(F) <= 6
    BY <1>6, FS_AddElement
  <1> QED  BY <1>1, <1>7

\* The loader that does not count the sections refuses too many and none: one type comes twice,
\* or the required ones are missing.
LEMMA SectionsBounded ==
    ASSUME Inputs, SectionsAccepted PROVE package.header.section_count \in 1 .. MaxSections
  <1> DEFINE n == package.header.section_count
             type == [i \in 1 .. n |-> package.sections[i].type]
  <1>1. n \in Nat /\ DOMAIN package.sections = 1 .. n
    BY PackageFields
  <1>2. /\ \A i \in 1 .. n : SectionStatus(package, i, LooksAtReserved) = "ok"
        /\ \A t \in Required : \E i \in 1 .. n : package.sections[i].type = t
    <2> HIDE DEF n
    <2> QED  BY <1>1, SectionsOk DEF SectionsAccepted
  <1>3. \A i \in 1 .. n : ~SetSectionFails(package.sections, i)
    BY <1>2, SectionOk
  <1>4. n # 0
    BY <1>2 DEF Required, SectionTypes
  <1>5. type \in [1 .. n -> SectionTypes]
    BY <1>3 DEF SetSectionFails
  <1>6. \A i, j \in 1 .. n : i # j => type[i] # type[j]
    <2>1. \A i \in 1 .. n : \A j \in 1 .. i - 1 : type[i] # type[j]
      <3> HIDE DEF n
      <3> QED  BY <1>1, <1>3 DEF SetSectionFails
    <2> HIDE DEF type, n
    <2> QED  BY <1>1, <2>1
  <1>7. IsFiniteSet(1 .. n) /\ Cardinality(1 .. n) = n
    <2> HIDE DEF n
    <2>1. 1 \in Int /\ n \in Int /\ ~(1 > n) /\ n - 1 + 1 = n
      BY <1>1, <1>4
    <2> QED  BY <2>1, FS_Interval
  <1>8. ~(Cardinality(SectionTypes) < n)
    <2>1. SUFFICES ASSUME Cardinality(SectionTypes) < Cardinality(1 .. n) PROVE FALSE
      BY <1>7
    <2> HIDE DEF type, n
    <2>2. \E i, j \in 1 .. n : i # j /\ type[i] = type[j]
      BY ONLY <2>1, <1>5, <1>7, SixTypes, FS_PigeonHole, Zenon
    <2> QED  BY <1>6, <2>2
  <1> HIDE DEF n
  <1>9. Cardinality(SectionTypes) \in Nat
    BY SixTypes, FS_CardinalityType
  <1> QED  BY <1>1, <1>4, <1>8, <1>9, SixTypes DEF MaxSections, n

LEMMA CountShown == ASSUME Inputs PROVE Shown.header.section_count = package.header.section_count
  BY ClearedHeader

LEMMA AcceptedInMemory ==
    ASSUME Inputs, HeaderAccepted, SectionsAccepted, ~BindingsBad(package) PROVE InMemory = "ok"
  <1>1. package.header.section_count \in 1 .. MaxSections
    BY SectionsBounded
  <1>2. Shown.header.section_count > 64 <=>
           package.header.section_count = 0 \/ package.header.section_count > MaxSections
    BY <1>1, CountShown DEF MaxSections
  <1> QED  BY <1>2, HeadersAlike, TablesAlike, BindingsAlike, InMemoryOk

LEMMA RefusedInMemory ==
    ASSUME Inputs, ~(HeaderAccepted /\ SectionsAccepted /\ ~BindingsBad(package)) PROVE InMemory # "ok"
  <1> SUFFICES ASSUME InMemory = "ok" PROVE FALSE
    OBVIOUS
  <1>1. SectionsAccepted /\ ~BindingsBad(package)
    BY InMemoryOk, TablesAlike, BindingsAlike
  <1>2. package.header.section_count \in 1 .. MaxSections
    BY <1>1, SectionsBounded
  <1>3. Shown.header.section_count > 64 <=>
           package.header.section_count = 0 \/ package.header.section_count > MaxSections
    BY <1>2, CountShown DEF MaxSections
  <1> QED  BY <1>1, <1>3, HeadersAlike, InMemoryOk

----
(* What is accepted can be read through the staging window. *)

LEMMA HeaderRead == ASSUME Inputs, InvocationValid(invocation) PROVE ~ReadRefused(0, HeaderBytes, invocation.model_bytes)
  BY PackageFields, LoaderAssumption DEF InvocationValid, ReadRefused, HeaderBytes, MaxSections, SectionBytes

\* An accepted header puts the section table inside the file.
LEMMA HeaderFits ==
    ASSUME Inputs, HeaderAccepted
    PROVE  /\ package.header.total_bytes \in Nat /\ package.header.total_bytes <= invocation.model_bytes
           /\ package.header.section_count \in 1 .. MaxSections
           /\ ~ReadRefused(package.header.section_table_off, package.header.section_count * SectionBytes,
                           invocation.model_bytes)
  <1> DEFINE h == package.header
  <1> DEFINE many == h.section_count = 0 \/ h.section_count > MaxSections
  <1>1. /\ ~(h.total_bytes > invocation.model_bytes) /\ ~many
        /\ ValidRange(h.section_table_off, h.section_count * SectionBytes, h.total_bytes)
    <2>1. HeaderStatus(h, invocation.model_bytes, LooksAtReserved, many) = "ok"
      BY DEF HeaderAccepted
    <2> HIDE DEF many, h
    <2> QED  BY <2>1, HeaderOk
  <1>2. /\ h.total_bytes \in Nat /\ h.section_table_off \in Nat /\ h.section_count \in Nat
        /\ invocation.model_bytes \in Nat
    BY PackageFields DEF ModelHeader, Word
  <1> HIDE DEF h
  <1>3. h.section_count \in 1 .. MaxSections
    BY <1>1, <1>2 DEF MaxSections
  <1>4. h.section_count * SectionBytes <= StagingBytes /\ StagingBytes \in Nat
    BY <1>3, LoaderAssumption DEF MaxSections, SectionBytes
  <1>5. ~ReadRefused(h.section_table_off, h.section_count * SectionBytes, invocation.model_bytes)
    BY <1>1, <1>2, <1>4 DEF ReadRefused, ValidRange, SectionBytes
  <1> QED  BY <1>1, <1>2, <1>3, <1>5 DEF h

\* Accepted sections lie inside the file.
LEMMA SectionFits ==
    ASSUME Inputs, HeaderAccepted, SectionsAccepted, NEW i \in DOMAIN package.sections
    PROVE  /\ package.sections[i].offset \in Nat /\ package.sections[i].size \in Nat
           /\ package.sections[i].offset + package.sections[i].size <= package.header.total_bytes
           /\ ~SetSectionFails(package.sections, i)
  <1> DEFINE n == package.header.section_count
             s == package.sections[i]
  <1>1. n \in Nat /\ DOMAIN package.sections = 1 .. n /\ s \in ModelSection
    BY PackageFields
  <1>2. SectionStatus(package, i, LooksAtReserved) = "ok"
    <2> HIDE DEF n
    <2> QED  BY <1>1, SectionsOk DEF SectionsAccepted
  <1>3. ValidRange(s.offset, s.size, package.header.total_bytes) /\ ~SetSectionFails(package.sections, i)
    BY <1>2, SectionOk
  <1>4. s.offset \in Nat /\ s.size \in Nat /\ package.header.total_bytes \in Nat
    BY <1>1, HeaderFits DEF ModelSection, Word
  <1> HIDE DEF s
  <1>5. s.offset + s.size <= package.header.total_bytes
    BY <1>3, <1>4 DEF ValidRange
  <1> QED  BY <1>3, <1>4, <1>5 DEF s

\* A required section is there.
LEMMA SectionThere ==
    ASSUME Inputs, SectionsAccepted, NEW t \in Required
    PROVE  \E i \in DOMAIN package.sections :
              Section(package, t) = package.sections[i] /\ package.sections[i].type = t
  <1>1. \E i \in DOMAIN package.sections : package.sections[i].type = t
    BY PackageFields, RequiredThere
  <1> QED  BY <1>1 DEF Section

\* The bindings of an accepted section can be read, or there are too many for the window.
LEMMA BindingsRead ==
    ASSUME Inputs, HeaderAccepted, SectionsAccepted, ~BindingsBad(package)
    PROVE  LET s == Section(package, "bindings")
               n == s.element_count
           IN  /\ n <= MaxBindings /\ Fits(<<n, BindingBytes>>) /\ n * BindingBytes <= s.size
               /\ ReadRefused(s.offset, n * BindingBytes, invocation.model_bytes) => n * BindingBytes > StagingBytes
  <1> DEFINE s == Section(package, "bindings")
             n == s.element_count
  <1>1. PICK i \in DOMAIN package.sections : s = package.sections[i]
    BY SectionThere DEF Required, SectionTypes
  <1>2. s \in ModelSection
    BY <1>1, PackageFields
  <1>3. s.offset \in Nat /\ s.size \in Nat /\ s.offset + s.size <= package.header.total_bytes
    BY <1>1, SectionFits
  <1>4. n \in Nat /\ MaxBindings \in Nat /\ StagingBytes \in Nat /\ invocation.model_bytes \in Nat
    BY <1>2, PackageFields, LoaderAssumption DEF ModelSection, Word
  <1>5. ~(n > MaxBindings) /\ ~(~Fits(<<n, BindingBytes>>)) /\ ~(n * BindingBytes > s.size)
    BY DEF BindingsBad, CountsBad, BindingCount
  <1>6. package.header.total_bytes <= invocation.model_bytes /\ package.header.total_bytes \in Nat
    BY HeaderFits
  <1> HIDE DEF s, n
  <1>7. n <= MaxBindings /\ n * BindingBytes <= s.size
    BY <1>3, <1>4, <1>5 DEF BindingBytes
  <1>8. ReadRefused(s.offset, n * BindingBytes, invocation.model_bytes) => n * BindingBytes > StagingBytes
    BY <1>3, <1>4, <1>6, <1>7 DEF ReadRefused, BindingBytes
  <1>9. Fits(<<n, BindingBytes>>)
    BY <1>5
  <1> QED  BY <1>7, <1>8, <1>9 DEF s, n

----
(* The inductive invariant. *)

LEMMA TableType == ASSUME TypeOK PROVE invocation.table \in Seq(Address) /\ table \in Seq(Address)
  BY LoaderAssumption DEF TypeOK

\* One turn of the sort exchanges two entries.
LEMMA SwapsEntries ==
    ASSUME NEW t \in Seq(Address), NEW i \in 1 .. Len(t), NEW j \in 1 .. Len(t)
    PROVE  /\ Swapped(t, i, j) \in Seq(Address)
           /\ Len(Swapped(t, i, j)) = Len(t)
           /\ \A k \in 1 .. Len(t) :
                 Swapped(t, i, j)[k] = t[IF k = j THEN i ELSE IF k = i THEN j ELSE k]
  BY DEF Swapped

LEMMA InitLoad == Init => LoadInv
  <1> SUFFICES ASSUME Init PROVE LoadInv
    OBVIOUS
  <1>1. table \in Seq(Address) /\ Len(table) = 0
    BY EmptySeq DEF Init
  <1>2. stage = "invocation" /\ slot = 1 /\ lost = FALSE
    BY DEF Init
  <1>3. slot \in 1 .. Len(table) + 1 /\ stage \in Stages
    BY <1>1, <1>2 DEF Stages
  <1>4. TypeOK
    BY <1>1, <1>2, <1>3 DEF Init, TypeOK
  <1>5. StageInv
    BY <1>2 DEF StageInv, Opened
  <1> QED  BY <1>4, <1>5 DEF LoadInv

Early == {"invocation", "header", "sections", "bindings", "table", "validate"}
Failed == {"bad_invocation", "bad_model", "bad_binding"}

LEMMA SectionsKept ==
    ASSUME UNCHANGED inputs
    PROVE  /\ InvocationValid(invocation)' = InvocationValid(invocation)
           /\ HeaderAccepted' = HeaderAccepted
           /\ SectionsAccepted' = SectionsAccepted
           /\ BindingCount(package)' = BindingCount(package)
           /\ BindingsBad(package)' = BindingsBad(package)
           /\ RefusedAlike' = RefusedAlike
  <1>1. UNCHANGED <<package, invocation, trusted>>
    BY DEF inputs
  <1>2. LooksAtReserved' = LooksAtReserved /\ Shown' = Shown
    BY <1>1 DEF LooksAtReserved, Shown
  <1>3. InvocationValid(invocation)' = InvocationValid(invocation)
    BY <1>1, <1>2 DEF InvocationValid
  <1>4. HeaderAccepted' = HeaderAccepted
    BY <1>1, <1>2 DEF HeaderAccepted
  <1>5. SectionsAccepted' = SectionsAccepted
    BY <1>1, <1>2 DEF SectionsAccepted
  <1>6. RefusedAlike' = RefusedAlike
    BY <1>1, <1>2 DEF RefusedAlike, InMemory
  <1> QED  BY <1>1, <1>3, <1>4, <1>5, <1>6

LEMMA InputsTyped == ASSUME TypeOK PROVE Inputs
  BY DEF TypeOK, Inputs

\* The table and the loop stay, the stage moves on or fails.
LEMMA GoKeeps ==
    ASSUME LoadInv, NEW next \in Early \cup Failed, Go(next) \/ Lose(next),
           next # "validate", stage \in Early \/ next \in Failed,
           stage \in Early \ {"validate"} \/ next = "bad_binding",
           next \in {"header", "sections", "bindings", "table"} => InvocationValid(invocation),
           next \in {"sections", "bindings", "table"} => HeaderAccepted,
           next \in {"bindings", "table"} => SectionsAccepted,
           next = "table" => ~BindingsBad(package),
           next = "bad_model" => lost' \/ RefusedAlike,
           next = "bad_binding" => Opened
    PROVE  LoadInv'
  <1>1. UNCHANGED <<inputs, package, invocation, trusted, table, slot>> /\ stage' = next /\ lost' \in BOOLEAN
    BY DEF Go, Lose, LoadInv, TypeOK, inputs
  <1>2. next \in Stages \ {"validate", "sort", "ready"}
    BY DEF Early, Failed, Stages
  <1>3. TypeOK'
    BY <1>1, <1>2 DEF LoadInv, TypeOK
  <1>4. next = "bad_binding" \/ slot = 1
    BY DEF LoadInv, StageInv, Early
  <1>5. Opened' => next \in {"table", "bad_binding"}
    BY <1>1, <1>2 DEF Opened, Stages
  <1>6. next = "bad_binding" => InvocationValid(invocation) /\ HeaderAccepted /\ SectionsAccepted /\ ~BindingsBad(package)
    BY DEF LoadInv, StageInv
  <1>7. StageInv'
    BY <1>1, <1>2, <1>4, <1>5, <1>6, SectionsKept DEF StageInv
  <1> QED  BY <1>3, <1>7 DEF LoadInv

LEMMA ReadInvocationKeeps == ASSUME LoadInv, ReadInvocation PROVE LoadInv'
  <1>1. \/ Go("header") /\ InvocationValid(invocation)
        \/ Go("bad_invocation") \/ Lose("bad_invocation")
    BY DEF ReadInvocation
  <1> QED  BY <1>1, GoKeeps DEF ReadInvocation, Early, Failed

LEMMA ReadHeaderKeeps == ASSUME LoadInv, ReadHeader PROVE LoadInv'
  <1>1. Inputs /\ InvocationValid(invocation) /\ stage = "header"
    BY InputsTyped DEF ReadHeader, LoadInv, StageInv
  <1>2. \/ Lose("bad_model")
        \/ HeaderAccepted /\ Go("sections")
        \/ ~HeaderAccepted /\ Go("bad_model")
    BY <1>1, HeaderRead DEF ReadHeader, HeaderAccepted
  <1>3. ~HeaderAccepted => RefusedAlike
    BY <1>1, RefusedInMemory DEF RefusedAlike
  <1>4. Lose("bad_model") => lost'
    BY DEF Lose
  <1> QED  BY <1>1, <1>2, <1>3, <1>4, GoKeeps DEF Early, Failed

LEMMA ReadSectionsKeep == ASSUME LoadInv, ReadSections PROVE LoadInv'
  <1>1. Inputs /\ InvocationValid(invocation) /\ HeaderAccepted /\ stage = "sections"
    BY InputsTyped DEF ReadSections, LoadInv, StageInv
  <1>2. \/ Lose("bad_model")
        \/ SectionsAccepted /\ Go("bindings")
        \/ ~SectionsAccepted /\ Go("bad_model")
    BY <1>1, HeaderFits DEF ReadSections, SectionsAccepted
  <1>3. ~SectionsAccepted => RefusedAlike
    BY <1>1, RefusedInMemory DEF RefusedAlike
  <1>4. Lose("bad_model") => lost'
    BY DEF Lose
  <1> QED  BY <1>1, <1>2, <1>3, <1>4, GoKeeps DEF Early, Failed

LEMMA ReadBindingsKeep == ASSUME LoadInv, ReadBindings PROVE LoadInv'
  <1>1. /\ Inputs /\ InvocationValid(invocation) /\ stage = "bindings"
        /\ HeaderAccepted /\ SectionsAccepted
    BY InputsTyped DEF ReadBindings, LoadInv, StageInv
  <1> DEFINE s == Section(package, "bindings")
             n == s.element_count
             fits == n <= MaxBindings /\ Fits(<<n, BindingBytes>>) /\ n * BindingBytes <= s.size
             refused == ReadRefused(s.offset, n * BindingBytes, invocation.model_bytes)
  <1>2. \/ Lose("bad_model")
        \/ fits /\ ~refused /\ ~BindingsBad(package) /\ Go("table")
        \/ ~(fits /\ ~refused /\ ~BindingsBad(package)) /\ Go("bad_model")
    BY DEF ReadBindings
  <1>3. BindingsBad(package) => RefusedAlike
    BY <1>1, RefusedInMemory DEF RefusedAlike
  <1>4. ~BindingsBad(package) => fits /\ (refused => n * BindingBytes > StagingBytes)
    BY <1>1, BindingsRead
  <1>5. n = BindingCount(package)
    BY DEF BindingCount
  <1> HIDE DEF n, fits, refused
  <1>6. ~(fits /\ ~refused /\ ~BindingsBad(package)) => RefusedAlike
    BY <1>3, <1>4, <1>5 DEF RefusedAlike
  <1>7. Lose("bad_model") => lost'
    BY DEF Lose
  <1> QED  BY <1>1, <1>2, <1>6, <1>7, GoKeeps DEF Early, Failed

LEMMA ReadTableKeeps == ASSUME LoadInv, ReadTable PROVE LoadInv'
  <1> USE DEF Early, Failed
  <1>1. CASE Lose("bad_binding") \/ Go("bad_binding")
    BY <1>1, GoKeeps DEF ReadTable, Opened
  <1>2. CASE stage' = "validate" /\ table' = invocation.table /\ UNCHANGED <<inputs, lost, slot>>
    <2>1. slot = 1 /\ InvocationValid(invocation) /\ HeaderAccepted /\ SectionsAccepted /\ ~BindingsBad(package)
      BY DEF ReadTable, LoadInv, StageInv, Opened
    <2>2. invocation.table \in Seq(Address)
      BY TableType DEF LoadInv
    <2>3. TypeOK'
      BY <1>2, <2>1, <2>2 DEF LoadInv, TypeOK, Stages, inputs
    <2>4. StageInv'
      BY <1>2, <2>1, SectionsKept DEF StageInv, Opened, inputs
    <2> QED  BY <2>3, <2>4 DEF LoadInv
  <1> QED  BY <1>1, <1>2 DEF ReadTable

LEMMA ValidateKeeps == ASSUME LoadInv, ValidateTable PROVE LoadInv'
  <1>1. CASE Go("bad_binding")
    BY <1>1, GoKeeps DEF ValidateTable, Early, Failed, Opened
  <1>2. CASE Go("sort") /\ CountsMatch /\ \A i \in DOMAIN table : ~EntryBad(i)
    <2>1. UNCHANGED <<inputs, package, invocation, trusted, lost, table, slot>> /\ stage' = "sort"
      BY <1>2 DEF Go, inputs
    <2>2. /\ table = invocation.table /\ slot = 1 /\ InvocationValid(invocation)
          /\ HeaderAccepted /\ SectionsAccepted /\ ~BindingsBad(package)
      BY DEF ValidateTable, LoadInv, StageInv, Opened
    <2>3. TypeOK'
      BY <1>2, <2>1, SectionsKept DEF LoadInv, TypeOK, Stages, CountsMatch
    <2>4. Rearranged
      <3> DEFINE f == [i \in DOMAIN table |-> i]
      <3>1. f \in [DOMAIN table -> DOMAIN table]
        OBVIOUS
      <3> QED  BY <2>2, <3>1 DEF Rearranged
    <2>5. Rearranged'
      BY <2>1, <2>4 DEF Rearranged
    <2>6. SlotsMatch(slot - 1)'
      BY <2>1, <2>2 DEF SlotsMatch
    <2>7. EntriesInMemory'
      <3> SUFFICES ASSUME NEW i \in DOMAIN table PROVE table[i].base + table[i].byte_size < Words
        BY <2>1 DEF EntriesInMemory
      <3>1. table[i] \in Address
        BY ElementOfSeq DEF LoadInv, TypeOK
      <3>2. table[i].base \in Nat /\ table[i].byte_size \in Nat /\ Words \in Nat
        BY <3>1, LoaderAssumption DEF Address, Word
      <3>3. ~(table[i].base + table[i].byte_size >= Words)
        BY <1>2 DEF EntryBad
      <3> QED  BY <3>2, <3>3
    <2>8. StageInv'
      BY <2>1, <2>2, <2>5, <2>6, <2>7, SectionsKept DEF StageInv, Opened
    <2> QED  BY <2>3, <2>8 DEF LoadInv
  <1> QED  BY <1>1, <1>2 DEF ValidateTable

LEMMA SortKeeps == ASSUME LoadInv, SortSlot PROVE LoadInv'
  <1> DEFINE b == package.bindings[slot]
  <1>1. CASE Go("bad_binding")
    BY <1>1, GoKeeps DEF SortSlot, Early, Failed, Opened
  <1>2. ASSUME NEW found \in slot .. Len(table), IsFor(table[found], b),
               table[found].byte_size >= b.byte_size,
               table' = Swapped(table, slot, found), slot' = slot + 1,
               UNCHANGED <<inputs, stage, lost>>
        PROVE  LoadInv'
    <2>1. /\ stage = "sort" /\ slot \in 1 .. Len(table) /\ Rearranged /\ SlotsMatch(slot - 1)
          /\ EntriesInMemory /\ InvocationValid(invocation) /\ HeaderAccepted /\ SectionsAccepted /\ Len(table) = BindingCount(package)
          /\ ~BindingsBad(package)
      BY DEF SortSlot, LoadInv, TypeOK, StageInv, Opened
    <2>2. table \in Seq(Address) /\ Len(table) \in Nat
      BY DEF LoadInv, TypeOK
    <2>3. found \in 1 .. Len(table)
      BY <2>1, <2>2
    <2> DEFINE at(k) == IF k = found THEN slot ELSE IF k = slot THEN found ELSE k
    <2>4. /\ table' \in Seq(Address) /\ Len(table') = Len(table)
          /\ \A k \in 1 .. Len(table) : table'[k] = table[at(k)]
      <3> HIDE DEF b
      <3>1. table \in Seq(Address) /\ slot \in 1 .. Len(table) /\ found \in 1 .. Len(table)
        BY <2>1, <2>2, <2>3
      <3>2. /\ Swapped(table, slot, found) \in Seq(Address)
            /\ Len(Swapped(table, slot, found)) = Len(table)
            /\ \A k \in 1 .. Len(table) : Swapped(table, slot, found)[k] = table[at(k)]
        BY <3>1, SwapsEntries
      <3> QED  BY <1>2, <3>2
    <2>5. UNCHANGED <<inputs, package, invocation, trusted, stage, lost>> /\ slot' = slot + 1
      BY <1>2 DEF inputs
    <2>6. TypeOK'
      <3>1. slot' \in 1 .. Len(table') + 1
        BY <2>1, <2>2, <2>4, <2>5
      <3> QED  BY <2>1, <2>4, <2>5, <3>1, SectionsKept DEF LoadInv, TypeOK
    <2>7. Rearranged'
      <3>1. DOMAIN table = 1 .. Len(table) /\ DOMAIN table' = 1 .. Len(table)
        BY <2>2, <2>4
      <3>2. PICK f \in [1 .. Len(table) -> 1 .. Len(table)] :
                /\ \A i, j \in 1 .. Len(table) : f[i] = f[j] => i = j
                /\ \A i \in 1 .. Len(table) : table[i] = invocation.table[f[i]]
        BY <2>1, <3>1 DEF Rearranged
      <3> DEFINE g == [k \in 1 .. Len(table) |-> f[at(k)]]
      <3>3. \A k \in 1 .. Len(table) : at(k) \in 1 .. Len(table)
        BY <2>1, <2>3
      <3>4. g \in [1 .. Len(table) -> 1 .. Len(table)]
        BY <3>3
      <3>5. \A i, j \in 1 .. Len(table) : g[i] = g[j] => i = j
        BY <3>2, <3>3
      <3>6. \A i \in 1 .. Len(table) : table'[i] = invocation.table[g[i]]
        BY <2>4, <3>2, <3>3
      <3> HIDE DEF g, at
      <3>7. Len(table') = Len(invocation.table)
        BY <2>1, <2>4 DEF Rearranged
      <3> QED  BY <2>5, <3>1, <3>4, <3>5, <3>6, <3>7 DEF Rearranged
    <2>8. SlotsMatch(slot - 1)'
      <3> SUFFICES ASSUME NEW i \in 1 .. slot
                   PROVE  LET e == package.bindings[i] IN
                          /\ table'[i].direction = e.direction /\ table'[i].index = e.index
                          /\ table'[i].byte_size >= e.byte_size
        BY <2>1, <2>2, <2>5 DEF SlotsMatch
      <3>1. i \in 1 .. Len(table) /\ table'[i] = table[at(i)]
        BY <2>1, <2>2, <2>4
      <3>2. CASE i = slot
        BY <1>2, <3>1, <3>2 DEF IsFor
      <3>3. CASE i # slot
        BY <2>1, <2>2, <3>1, <3>3 DEF SlotsMatch
      <3> QED  BY <3>2, <3>3
    <2>9. EntriesInMemory'
      <3>1. \A k \in 1 .. Len(table) : at(k) \in 1 .. Len(table)
        BY <2>1, <2>3
      <3>2. DOMAIN table = 1 .. Len(table) /\ DOMAIN table' = 1 .. Len(table)
        BY <2>2, <2>4
      <3> HIDE DEF at
      <3> QED  BY <2>1, <2>4, <3>1, <3>2 DEF EntriesInMemory
    <2>10. StageInv'
      BY <2>1, <2>5, <2>7, <2>8, <2>9, SectionsKept DEF StageInv, Opened
    <2> QED  BY <2>6, <2>10 DEF LoadInv
  <1> QED  BY <1>1, <1>2 DEF SortSlot

LEMMA SortedKeeps == ASSUME LoadInv, Sorted PROVE LoadInv'
  <1>1. UNCHANGED <<inputs, package, invocation, trusted, lost, table, slot>> /\ stage' = "ready" /\ stage = "sort"
    BY DEF Sorted, Go, inputs
  <1>2. slot = Len(table) + 1 /\ Rearranged /\ EntriesInMemory /\ SlotsMatch(slot - 1)
    BY DEF Sorted, LoadInv, TypeOK, StageInv
  <1>3. TypeOK'
    BY <1>1, SectionsKept DEF LoadInv, TypeOK, Stages
  <1>4. Rearranged' /\ EntriesInMemory' /\ SlotsMatch(slot - 1)'
    BY <1>1, <1>2 DEF Rearranged, EntriesInMemory, SlotsMatch
  <1>5. StageInv'
    BY <1>1, <1>2, <1>4, SectionsKept DEF StageInv, LoadInv, Opened
  <1> QED  BY <1>3, <1>5 DEF LoadInv

LEMMA NextLoad == ASSUME LoadInv, [Next]_vars PROVE LoadInv'
  <1>1. CASE UNCHANGED vars
    <2>1. UNCHANGED <<inputs, package, invocation, trusted, stage, lost, table, slot>>
      BY <1>1 DEF vars, inputs
    <2>2. TypeOK'
      BY <2>1, SectionsKept DEF LoadInv, TypeOK
    <2>3. /\ Rearranged' = Rearranged /\ EntriesInMemory' = EntriesInMemory
          /\ SlotsMatch(slot - 1)' = SlotsMatch(slot - 1)
      BY <2>1 DEF Rearranged, EntriesInMemory, SlotsMatch
    <2>4. StageInv'
      BY <2>1, <2>3, SectionsKept DEF StageInv, LoadInv, Opened
    <2> QED  BY <2>2, <2>4 DEF LoadInv
  <1> QED  BY <1>1, ReadInvocationKeeps, ReadHeaderKeeps, ReadSectionsKeep, ReadBindingsKeep, ReadTableKeeps, ValidateKeeps, SortKeeps, SortedKeeps DEF Next

LEMMA LoadInvariance == Spec => []LoadInv
  <1>1. LoadInv /\ [Next]_vars => LoadInv'
    BY NextLoad
  <1> QED  BY InitLoad, <1>1, PTL DEF Spec

\* The load keeps its types: the loop over the table stays inside it, and a sorted table has one
\* entry for each binding of the model.
THEOREM TypeCorrect == Spec => []TypeOK
  <1>1. LoadInv => TypeOK
    BY DEF LoadInv
  <1> QED  BY <1>1, LoadInvariance, PTL

\* However the host orders its table, the sorted one is the same entries, each under the name of
\* the model's binding and large enough for it.
THEOREM SlotsCanonical == Spec => []CanonicalSlots
  <1>1. LoadInv => CanonicalSlots
    BY DEF LoadInv, StageInv, TypeOK, CanonicalSlots
  <1> QED  BY <1>1, LoadInvariance, PTL

\* What the firmware refuses or accepts while it reads a package piece by piece is what the loader
\* of a package in memory does, up to the size of the staging window: the steps may stop early, but
\* never for a reason of their own.
THEOREM LoadersAgree == Spec => []OpenAgrees
  <1>1. LoadInv => OpenAgrees
    <2> SUFFICES ASSUME LoadInv PROVE OpenAgrees
      OBVIOUS
    <2>1. Inputs
      BY InputsTyped DEF LoadInv
    <2>2. Opened => InMemory = "ok"
      BY <2>1, AcceptedInMemory DEF LoadInv, StageInv
    <2> QED  BY <2>2 DEF LoadInv, StageInv, OpenAgrees
  <1> QED  BY <1>1, LoadInvariance, PTL

----
(* An opened model. *)

\* The bindings the section announces are there.
LEMMA BindingsThere ==
    ASSUME Inputs, SectionsAccepted
    PROVE  /\ BindingCount(package) \in Nat
           /\ \A i \in 1 .. BindingCount(package) : package.bindings[i] \in ModelBinding
  <1>1. PICK j \in DOMAIN package.sections :
            Section(package, "bindings") = package.sections[j] /\ package.sections[j].type = "bindings"
    BY SectionThere DEF Required, SectionTypes
  <1>2. Section(package, "bindings") \in ModelSection /\ package.bindings \in Seq(ModelBinding)
    BY <1>1, PackageFields
  <1>3. Len(package.bindings) >= Section(package, "bindings").element_count
    BY <1>1, LoaderAssumption DEF Inputs
  <1>4. BindingCount(package) \in Nat /\ BindingCount(package) <= Len(package.bindings)
    BY <1>2, <1>3 DEF BindingCount, ModelSection, Word
  <1> QED  BY <1>2, <1>4, ElementOfSeq

\* The bindings of a direction fill its names when there are as many of them as names, no name
\* comes twice and each is in range: the loader only counts and compares.
LEMMA NamesFilled ==
    ASSUME Inputs, HeaderAccepted, SectionsAccepted, ~BindingsBad(package), NEW d \in {"input", "output"},
           NEW k \in 0 .. CountOf(package, d) - 1
    PROVE  \E i \in 1 .. BindingCount(package) :
              package.bindings[i].direction = d /\ package.bindings[i].index = k
  <1> DEFINE n == BindingCount(package)
             c == CountOf(package, d)
             I == {i \in 1 .. n : package.bindings[i].direction = d}
             index == [i \in I |-> package.bindings[i].index]
  <1>1. n \in Nat /\ c \in Nat
    <2>1. c \in Nat
      BY PackageFields DEF CountOf, ModelHeader, Word
    <2> QED  BY <2>1, BindingsThere
  <1>2. Cardinality(I) = c
    BY DEF BindingsBad, Count, CountOf
  <1>3. index \in Injection(I, 0 .. c - 1)
    <2>1. ASSUME NEW i \in I PROVE index[i] \in 0 .. c - 1
      <3>1. ~BindingBad(package, i)
        BY DEF BindingsBad
      <3>2. ~(package.bindings[i].index >= CountOf(package, package.bindings[i].direction))
        BY <3>1 DEF BindingBad
      <3>3. package.bindings[i].index \in Nat
        BY BindingsThere DEF ModelBinding, Word
      <3> QED  BY <1>1, <3>2, <3>3
    <2>2. ASSUME NEW i \in I, NEW j \in I, index[i] = index[j] PROVE i = j
      <3>1. \A x \in I : \A y \in 1 .. x - 1 : y \in I => index[x] # index[y]
        BY <1>1 DEF BindingsBad, BindingTwice
      <3> HIDE DEF index, I
      <3>2. i \in Nat /\ j \in Nat /\ i > 0 /\ j > 0
        BY <1>1 DEF I
      <3> QED  BY <2>2, <3>1, <3>2
    <2>3. index \in [I -> 0 .. c - 1]
      BY <2>1
    <2> HIDE DEF index, I, c
    <2> QED  BY <2>2, <2>3 DEF Injection, IsInjective
  <1>4. IsFiniteSet(0 .. c - 1) /\ Cardinality(0 .. c - 1) = c
    <2>1. 0 \in Int /\ c - 1 \in Int /\ ~(0 > c - 1) /\ (c - 1) - 0 + 1 = c
      BY <1>1
    <2> HIDE DEF c
    <2> QED  BY <2>1, FS_Interval
  <1>5. index \in Surjection(I, 0 .. c - 1)
    <2> HIDE DEF index, I, c
    <2> QED  BY <1>2, <1>3, <1>4, FS_Injection
  <1>6. PICK i \in I : index[i] = k
    <2> HIDE DEF index, I
    <2> QED  BY <1>5 DEF Surjection
  <1> QED  BY <1>6

\* An opened model has every section once and inside the file, its entry inside the commands, and
\* each input and each output under one binding: counting and comparing names is enough.
THEOREM OpenedSound == Spec => []OpenedWellFormed
  <1>1. LoadInv => OpenedWellFormed
    <2> SUFFICES ASSUME LoadInv, Opened PROVE OpenedWellFormed
      BY DEF OpenedWellFormed
    <2> DEFINE S == package.sections
               n == BindingCount(package)
               B == {i \in 1 .. n : package.bindings[i].direction # "temporary"}
               name == [i \in B |-> <<package.bindings[i].direction, package.bindings[i].index>>]
    <2>1. Inputs /\ HeaderAccepted /\ SectionsAccepted /\ ~BindingsBad(package)
      BY InputsTyped DEF LoadInv, StageInv
    <2>2. DOMAIN S \subseteq Nat /\ DOMAIN S = 1 .. package.header.section_count
      BY <2>1, PackageFields
    <2>3. \A t \in Required : \E i \in DOMAIN S :
             S[i].type = t /\ \A j \in DOMAIN S \ {i} : S[j].type # t
      <3> SUFFICES ASSUME NEW t \in Required
                   PROVE  \E i \in DOMAIN S : S[i].type = t /\ \A j \in DOMAIN S \ {i} : S[j].type # t
        OBVIOUS
      <3>1. PICK i \in DOMAIN S : S[i].type = t
        BY <2>1, SectionThere
      <3>2. \A x \in DOMAIN S : \A y \in 1 .. x - 1 : S[y].type # S[x].type
        BY <2>1, SectionFits DEF SetSectionFails
      <3> HIDE DEF S
      <3>3. ASSUME NEW j \in DOMAIN S \ {i}, S[j].type = t PROVE FALSE
        <4>1. j \in 1 .. i - 1 \/ i \in 1 .. j - 1
          BY <2>2
        <4> QED  BY <3>1, <3>2, <3>3, <4>1
      <3> QED  BY <3>1, <3>3
    <2>4. \A i \in DOMAIN S : S[i].offset + S[i].size <= invocation.model_bytes
      <3> SUFFICES ASSUME NEW i \in DOMAIN S PROVE S[i].offset + S[i].size <= invocation.model_bytes
        OBVIOUS
      <3>1. /\ S[i].offset \in Nat /\ S[i].size \in Nat
            /\ S[i].offset + S[i].size <= package.header.total_bytes
        BY <2>1, SectionFits
      <3>2. /\ package.header.total_bytes \in Nat /\ invocation.model_bytes \in Nat
            /\ package.header.total_bytes <= invocation.model_bytes
        BY <2>1, HeaderFits, PackageFields
      <3> HIDE DEF S
      <3> QED  BY <3>1, <3>2
    <2>5. LET c == Section(package, "commands") IN
          package.header.entry_command_off \in c.offset .. c.offset + c.size - 1
      <3> DEFINE c == Section(package, "commands")
                 e == package.header.entry_command_off
      <3>1. ~EntryOutside(package.header, c)
        BY <2>1, PackageFields, SectionsOk DEF SectionsAccepted
      <3>2. c.offset \in Nat /\ c.size \in Nat /\ e \in Nat
        <4>1. PICK i \in DOMAIN S : c = S[i]
          BY <2>1, SectionThere DEF Required, SectionTypes
        <4>2. S[i] \in ModelSection /\ package.header \in ModelHeader
          BY <2>1, PackageFields
        <4> HIDE DEF c
        <4> QED  BY <4>1, <4>2 DEF ModelSection, ModelHeader, Word
      <3>3. ~(e < c.offset) /\ ~(e >= c.offset + c.size)
        BY <3>1 DEF EntryOutside
      <3> HIDE DEF c, e
      <3>4. e \in c.offset .. c.offset + c.size - 1
        BY <3>2, <3>3
      <3> QED  BY <3>4 DEF c, e
    <2>6. n \in Nat /\ \A i \in 1 .. n : package.bindings[i] \in ModelBinding
      BY <2>1, BindingsThere
    <2>7. \A i, j \in B : name[i] = name[j] => i = j
      <3> SUFFICES ASSUME NEW i \in B, NEW j \in B, name[i] = name[j] PROVE i = j
        OBVIOUS
      <3>1. /\ package.bindings[i].direction = package.bindings[j].direction
            /\ package.bindings[i].index = package.bindings[j].index
        OBVIOUS
      <3>2. \A x \in 1 .. n : ~BindingTwice(package, x)
        BY <2>1 DEF BindingsBad
      <3>3. i \notin 1 .. j - 1 /\ j \notin 1 .. i - 1
        BY <3>1, <3>2 DEF BindingTwice
      <3> HIDE DEF name, n
      <3> QED  BY <2>6, <3>3
    <2>8. {name[i] : i \in B} \subseteq Names("input") \cup Names("output")
      <3> SUFFICES ASSUME NEW i \in B PROVE name[i] \in Names("input") \cup Names("output")
        OBVIOUS
      <3> DEFINE d == package.bindings[i].direction
                 k == package.bindings[i].index
      <3>1. d \in Directions /\ ~(k >= CountOf(package, d))
        BY <2>1 DEF BindingsBad, BindingBad
      <3>2. d \in {"input", "output"} /\ name[i] = <<d, k>>
        BY <3>1 DEF Directions
      <3>3. k \in Nat /\ CountOf(package, d) \in Nat
        <4>1. k \in Nat
          BY <2>6 DEF ModelBinding, Word
        <4>2. package.header.input_count \in Nat /\ package.header.output_count \in Nat
          BY <2>1, PackageFields DEF ModelHeader, Word
        <4> QED  BY <3>2, <4>1, <4>2 DEF CountOf
      <3> HIDE DEF d, k, name
      <3>4. k \in 0 .. CountOf(package, d) - 1
        BY <3>1, <3>3
      <3> QED  BY <3>2, <3>4 DEF Names
    <2>9. Names("input") \cup Names("output") \subseteq {name[i] : i \in B}
      <3> SUFFICES ASSUME NEW d \in {"input", "output"}, NEW k \in 0 .. CountOf(package, d) - 1
                   PROVE  <<d, k>> \in {name[i] : i \in B}
        BY DEF Names
      <3>1. PICK i \in 1 .. n : package.bindings[i].direction = d /\ package.bindings[i].index = k
        BY <2>1, NamesFilled
      <3>2. i \in B /\ name[i] = <<d, k>>
        BY <3>1
      <3> HIDE DEF name, B
      <3> QED  BY <3>2
    <2>10. {name[i] : i \in B} = Names("input") \cup Names("output")
      <3> HIDE DEF name, B
      <3> QED  BY <2>8, <2>9
    <2> HIDE DEF n
    <2> QED  BY <2>3, <2>4, <2>5, <2>7, <2>10 DEF OpenedWellFormed, n
  <1> QED  BY <1>1, LoadInvariance, PTL

----
(* The resolvers of the two builds. *)

\* A section the loader asked for is there, at an offset that is a word.
LEMMA SectionOffset ==
    ASSUME LoadInv, stage = "ready", NEW type \in Required
    PROVE  Section(package, type).offset \in Word
  <1>1. Inputs /\ SectionsAccepted
    BY InputsTyped DEF LoadInv, StageInv, Opened
  <1>2. PICK i \in DOMAIN package.sections : Section(package, type) = package.sections[i]
    BY <1>1, SectionThere
  <1>3. package.sections[i] \in ModelSection
    BY <1>1, PackageFields
  <1> QED  BY <1>2, <1>3 DEF ModelSection

LEMMA NoneRefused == ~Refused.ok
  BY DEF Refused

LEMMA RegionFields ==
    ASSUME NEW base, NEW bytes PROVE Region(base, bytes).base = base /\ Region(base, bytes).bytes = bytes
  BY DEF Region

\* On a model whose binding section lists inputs, outputs and the temporary in order, the address
\* the trusted build computes for a reference is the one the checked build resolves.
LEMMA ResolversAgree ==
    ASSUME LoadInv, stage = "ready", Ordered, NEW ref, NEW bytes, NEW alignment, ref.offset \in Nat,
           ResolveChecked(ref, bytes, alignment) # NoAddress
    PROVE  ResolveTrusted(ref) = ResolveChecked(ref, bytes, alignment)
  <1> DEFINE region == RegionOf(ref)
  <1>1. /\ region.ok /\ region.base + ref.offset < Words
        /\ ResolveChecked(ref, bytes, alignment) = region.base + ref.offset
    BY DEF ResolveChecked
  <1>2. \A base \in Nat : base + ref.offset < Words => (base + ref.offset) % Words = base + ref.offset
    BY LoaderAssumption
  <1>3. Words \in Nat /\ invocation.model_base \in Nat
    BY LoaderAssumption DEF LoadInv, TypeOK, Word
  <1>4. CASE ref.region \in {"constants", "commands", "qparams"}
    <2>1. Section(package, ref.region).offset \in Nat
      BY <1>3, <1>4, SectionOffset DEF Required, SectionTypes, Word
    <2>2. region = InModel(ref, Section(package, ref.region))
      BY <1>4 DEF RegionOf, Directions
    <2>3. region.base = invocation.model_base + Section(package, ref.region).offset
      <3> HIDE DEF region
      <3> QED  BY <1>1, <2>2, NoneRefused DEF InModel, Region
    <2>4. ResolveTrusted(ref) = (region.base + ref.offset) % Words
      <3> HIDE DEF region
      <3> QED  BY <1>4, <2>3 DEF ResolveTrusted, Directions
    <2> QED  BY <1>1, <1>2, <1>3, <2>1, <2>3, <2>4
  <1>5. CASE ref.region \in Directions
    <2>1. region = InTable(ref)
      BY <1>5 DEF RegionOf, Directions
    <2> DEFINE matches == {i \in DOMAIN table : table[i].direction = ref.region /\ table[i].index = ref.index}
    <2>2. matches # {}
      <3> HIDE DEF region
      <3> QED  BY <1>1, <2>1, NoneRefused DEF InTable
    <2>3. table \in Seq(Address) /\ Len(table) = BindingCount(package) /\ SlotsMatch(BindingCount(package))
      BY DEF LoadInv, StageInv, TypeOK
    <2>4. \A i \in matches : i = PositionOf(ref)
      <3> SUFFICES ASSUME NEW i \in matches PROVE i = PositionOf(ref)
        OBVIOUS
      <3>1. i \in 1 .. BindingCount(package) /\ i \in Nat
        BY <2>3
      <3>2. package.bindings[i].direction = ref.region /\ package.bindings[i].index = ref.index
        BY <2>3, <3>1 DEF SlotsMatch
      <3>3. package.header.input_count \in Nat /\ package.header.output_count \in Nat
        BY InputsTyped, PackageFields DEF LoadInv, ModelHeader, Word
      <3>4. CASE ref.region = "input"
        <4>1. ref.index = i - 1 - 0
          BY <3>1, <3>2, <3>4 DEF Ordered
        <4> QED  BY <3>1, <3>4, <4>1 DEF PositionOf
      <3>5. CASE ref.region = "output"
        <4>1. ref.index = i - 1 - package.header.input_count
          BY <3>1, <3>2, <3>5 DEF Ordered
        <4> QED  BY <3>1, <3>3, <3>5, <4>1 DEF PositionOf
      <3>6. CASE ref.region = "temporary"
        <4>1. ref.index = i - 1 - (package.header.input_count + package.header.output_count)
          BY <3>1, <3>2, <3>6 DEF Ordered
        <4>2. ~(ref.index >= 1)
          <5>1. ~BindingBad(package, i)
            BY <3>1 DEF LoadInv, StageInv, Opened, BindingsBad
          <5>2. ~(package.bindings[i].index >= CountOf(package, "temporary"))
            BY <3>2, <3>6, <5>1 DEF BindingBad
          <5>3. CountOf(package, "temporary") = 1
            BY DEF CountOf
          <5> QED  BY <3>2, <5>2, <5>3
        <4>3. ref.index \in Nat
          <5>1. table[i] \in Address /\ table[i].index = ref.index
            BY <2>3, <3>1
          <5> QED  BY <5>1 DEF Address
        <4> QED  BY <3>1, <3>3, <3>6, <4>1, <4>2, <4>3 DEF PositionOf
      <3> QED  BY <1>5, <3>4, <3>5, <3>6 DEF Directions
    <2>5. matches = {PositionOf(ref)} /\ PositionOf(ref) \in DOMAIN table /\ DOMAIN table \subseteq Nat
      BY <2>2, <2>3, <2>4
    <2>6. InTable(ref) = Region(table[PositionOf(ref)].base, table[PositionOf(ref)].byte_size)
      <3>1. (CHOOSE i \in matches : \A j \in matches : i <= j) = PositionOf(ref)
        <4> HIDE DEF matches
        <4> QED  BY <2>5
      <3> QED  BY <2>2, <3>1 DEF InTable
    <2>7. region.base = table[PositionOf(ref)].base
      BY <2>1, <2>6, RegionFields
    <2>8. region.base \in Nat
      <3>1. table[PositionOf(ref)] \in Address
        <4> HIDE DEF matches
        <4> QED  BY <2>3, <2>5
      <3>2. table[PositionOf(ref)].base \in Word
        BY <3>1 DEF Address
      <3> HIDE DEF region
      <3> QED  BY <1>3, <2>7, <3>2 DEF Word
    <2>9. ResolveTrusted(ref) = (region.base + ref.offset) % Words
      BY <1>5, <2>5, <2>7 DEF ResolveTrusted, Directions
    <2> QED  BY <1>1, <1>2, <2>8, <2>9
  <1>6. CASE ref.region = "scratch"
    <2>1. region.base = TcdmBase /\ TcdmBase \in Nat
      BY <1>1, <1>6, LoaderAssumption DEF RegionOf, Refused, Region, Directions
    <2>2. ResolveTrusted(ref) = (TcdmBase + ref.offset) % Words
      BY <1>6 DEF ResolveTrusted, Directions
    <2> QED  BY <1>1, <1>2, <2>1, <2>2
  <1>7. CASE ref.region \notin {"constants", "commands", "qparams", "scratch"} \cup Directions
    BY <1>1, <1>7 DEF RegionOf, Refused
  <1> QED  BY <1>4, <1>5, <1>6, <1>7

====
