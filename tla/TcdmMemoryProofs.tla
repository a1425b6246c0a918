---- MODULE TcdmMemoryProofs ----
(***************************************************************************)
(* Theorems about TcdmMemory, for every number of masters, banks, words    *)
(* and lanes and every traffic.                                            *)
(***************************************************************************)
EXTENDS TcdmMemory, Integers, WellFoundedInduction, TLAPS

(* The least element of a set of ports. *)

Less == {ss \in Nat \X Nat : ss[1] < ss[2]}

LEMMA LessWellFounded == IsWellFoundedOn(Less, Nat)
  BY NatLessThanWellFounded DEF OpToRel, Less

LEMMA LeastExists ==
    ASSUME NEW S \in SUBSET Nat, S # {}
    PROVE  Least(S) \in S
  <1>1. PICK x \in S : \A y \in S : ~(<<y, x>> \in Less)
    BY WFMin, LessWellFounded
  <1>2. ASSUME NEW y \in S PROVE x <= y
    <2>1. x \in Nat /\ y \in Nat /\ ~(<<y, x>> \in Less)
      BY <1>1
    <2>2. ~(y < x)
      BY <2>1 DEF Less
    <2> QED  BY <2>1, <2>2
  <1> QED  BY <1>1, <1>2 DEF Least

----
(* Decoding a line into its bank and its word, and back. *)

LEMMA Division ==
    ASSUME NEW n \in Nat \ {0}, NEW a \in Nat
    PROVE  a % n \in 0 .. (n - 1) /\ a \div n \in Nat /\ a = n * (a \div n) + (a % n)
  BY SMTT(30)

LEMMA ProductMonotonic ==
    ASSUME NEW n \in Nat, NEW k \in Nat, NEW q \in Nat, k <= q
    PROVE  n * k <= n * q
  BY SMTT(30)

LEMMA QuotientBelow ==
    ASSUME NEW n \in Nat \ {0}, NEW k \in Nat, NEW a \in 0 .. ((n * k) - 1)
    PROVE  a \div n \in 0 .. (k - 1)
  <1> DEFINE q == a \div n
             r == a % n
  <1>1. q \in Nat /\ r \in Nat /\ a = n * q + r
    BY Division
  <1>2. SUFFICES ASSUME k <= q PROVE FALSE
    BY <1>1
  <1>3. n * k <= n * q /\ n * k \in Nat /\ n * q \in Nat
    BY <1>1, <1>2, ProductMonotonic
  <1> HIDE DEF q, r
  <1> QED  BY <1>1, <1>3

\* Every line has a bank and a word in it, and no two lines have the same place.
LEMMA PlaceOfLine ==
    ASSUME NEW a \in Lines
    PROVE  BankOf(a) \in Banks /\ WordOf(a) \in Words
  <1>1. /\ NumBanks \in Nat \ {0} /\ NumWords \in Nat
        /\ a \in 0 .. ((NumBanks * NumWords) - 1)
    BY TcdmAssumption DEF Lines
  <1>2. a \in Nat
    BY <1>1
  <1>3. a % NumBanks \in 0 .. (NumBanks - 1)
    BY <1>1, <1>2, Division
  <1>4. a \div NumBanks \in 0 .. (NumWords - 1)
    BY <1>1, QuotientBelow
  <1> QED  BY <1>3, <1>4 DEF Banks, Words, BankOf, WordOf

LEMMA OnePlaceEach ==
    ASSUME NEW a \in Lines, NEW b \in Lines, BankOf(a) = BankOf(b), WordOf(a) = WordOf(b)
    PROVE  a = b
  <1>1. a \in Nat /\ b \in Nat /\ NumBanks \in Nat \ {0}
    BY TcdmAssumption DEF Lines
  <1>2. a = NumBanks * (a \div NumBanks) + (a % NumBanks)
    BY <1>1, Division
  <1>3. b = NumBanks * (b \div NumBanks) + (b % NumBanks)
    BY <1>1, Division
  <1> QED  BY <1>2, <1>3, Zenon DEF BankOf, WordOf

----
(* What a grant means. *)

\* A bank grants nobody, or a master that presents a request for it.
LEMMA GrantFacts ==
    ASSUME TypeOK, NEW grant \in Grants, NEW b \in Banks, grant[b] # None
    PROVE  /\ grant[b] \in Masters /\ Presents(grant[b]) /\ req[grant[b]] \in Request
           /\ BankOf(req[grant[b]].line) = b
           /\ grant[b] \in Contenders(b)
  <1>1. grant[b] \in Grantable(b)
    BY DEF Grants
  <1>2. grant[b] \in Contenders(b)
    BY <1>1 DEF Grantable
  <1>3. Members(Selected(b)) \subseteq Masters
    BY TcdmAssumption DEF Members, Selected
  <1> QED  BY <1>2, <1>3 DEF Contenders, Wanting, Presents, TypeOK

\* A granted master is granted by the bank of its request and by no other.
LEMMA GrantedBank ==
    ASSUME TypeOK, NEW grant \in Grants, NEW m \in Masters
    PROVE  /\ Granted(grant, m) =>
                /\ req[m] \in Request /\ Presents(m)
                /\ BankOf(req[m].line) \in Banks /\ WordOf(req[m].line) \in Words
                /\ grant[BankOf(req[m].line)] = m
           /\ \A b \in Banks : grant[b] = m => Granted(grant, m)
  <1>1. m # None
    BY TcdmAssumption
  <1>2. ASSUME Granted(grant, m)
        PROVE  /\ req[m] \in Request /\ Presents(m)
               /\ BankOf(req[m].line) \in Banks /\ WordOf(req[m].line) \in Words
               /\ grant[BankOf(req[m].line)] = m
    <2>1. PICK b \in Banks : grant[b] = m
      BY <1>2 DEF Granted
    <2>2. req[m] \in Request /\ Presents(m) /\ BankOf(req[m].line) = b
      BY <1>1, <2>1, GrantFacts
    <2>3. req[m].line \in Lines
      BY <2>2 DEF Request
    <2> QED  BY <2>1, <2>2, <2>3, PlaceOfLine
  <1> QED  BY <1>2 DEF Granted

----
(* Type correctness. *)

IInv == TypeOK /\ AdaptersInStep

LEMMA InitInv == Init => IInv
  <1> SUFFICES ASSUME Init PROVE IInv
    OBVIOUS
  <1>1. 0 \in Banks /\ Zero \in Data
    BY TcdmAssumption DEF Banks, Zero, Data
  <1> QED  BY <1>1, TcdmAssumption DEF Init, IInv, TypeOK, AdaptersInStep

LEMMA NextPointerType ==
    ASSUME TypeOK, NEW grant \in Grants, NEW b \in Banks, grant[b] # None
    PROVE  NextPointer(b) \in Masters
  <1> DEFINE above == {m \in Contenders(b) : m > rr[b][Selected(b)]}
  <1>1. Contenders(b) \subseteq Masters
    <2>1. Members(Selected(b)) \subseteq Masters
      BY TcdmAssumption DEF Members, Selected
    <2> QED  BY <2>1 DEF Contenders, Wanting
  <1>2. Contenders(b) # {} /\ Contenders(b) \in SUBSET Nat
    BY <1>1, GrantFacts, TcdmAssumption
  <1>3. above \in SUBSET Nat /\ above \subseteq Contenders(b)
    BY <1>2
  <1>4. Least(Contenders(b)) \in Masters
    BY <1>1, <1>2, LeastExists
  <1>5. above # {} => Least(above) \in Masters
    BY <1>1, <1>3, LeastExists
  <1> QED  BY <1>4, <1>5 DEF NextPointer

LEMMA ClockType ==
    ASSUME TypeOK, NEW grant \in Grants,
           BankAccess(grant), Responses(grant), busy' = Busy(grant),
           lane' = [m \in Narrow |-> IF Granted(grant, m) THEN req[m].lane ELSE lane[m]],
           rr' = [b \in Banks |-> IF grant[b] = None THEN rr[b]
                                  ELSE [rr[b] EXCEPT ![Selected(b)] = NextPointer(b)]],
           req' = [m \in Masters |-> IF Granted(grant, m) THEN None ELSE req[m]]
    PROVE  TypeOK'
  <1>1. req' \in [Masters -> Request \cup {None}]
    BY DEF TypeOK
  <1>2. busy' \in [Narrow -> BOOLEAN] /\ lane' \in [Narrow -> Lanes]
    <2>1. ASSUME NEW m \in Narrow, Granted(grant, m) PROVE req[m].lane \in Lanes
      BY <2>1, GrantedBank, TcdmAssumption DEF Request
    <2>2. busy' \in [Narrow -> BOOLEAN]
      BY DEF Busy, Granted, TypeOK
    <2> QED  BY <2>1, <2>2 DEF TypeOK
  <1>3. mem' \in [Banks -> [Words -> Data]] /\ rdata' \in [Banks -> Data]
    <2> SUFFICES ASSUME NEW b \in Banks
                 PROVE  mem'[b] \in [Words -> Data] /\ rdata'[b] \in Data
      BY DEF BankAccess
    <2> DEFINE g == grant[b]
    <2>1. CASE g = None
      BY <2>1 DEF BankAccess, TypeOK
    <2>2. CASE g # None
      <3>1. req[g] \in Request /\ WordOf(req[g].line) \in Words
        BY <2>2, GrantFacts, GrantedBank
      <3>2. req[g].data \in Data /\ mem[b] \in [Words -> Data]
        BY <3>1 DEF Request, TypeOK
      <3>3. [l \in Lanes |-> IF l \in Strobe(g) THEN req[g].data[l]
                             ELSE mem[b][WordOf(req[g].line)][l]] \in Data
        BY <3>1, <3>2 DEF Data
      <3> QED  BY <3>1, <3>2, <3>3 DEF BankAccess, TypeOK
    <2> QED  BY <2>1, <2>2
  <1>4. rr' \in [Banks -> [Classes -> Masters]]
    BY NextPointerType DEF TypeOK
  <1>5. /\ rvalid' \in [Masters -> BOOLEAN] /\ bankSel' \in [Masters -> Banks]
        /\ wrote' \in [Masters -> BOOLEAN]
    <2>1. ASSUME NEW m \in Masters, Granted(grant, m)
          PROVE  req[m].we \in BOOLEAN /\ BankOf(req[m].line) \in Banks
      BY <2>1, GrantedBank DEF Request
    <2>2. rvalid' \in [Masters -> BOOLEAN]
      BY DEF Responses, Granted
    <2> QED  BY <2>1, <2>2 DEF Responses, BankSel, TypeOK
  <1> QED  BY <1>1, <1>2, <1>3, <1>4, <1>5 DEF TypeOK

LEMMA StepInv == IInv /\ [Next]_vars => IInv'
  <1> SUFFICES ASSUME IInv, [Next]_vars PROVE IInv'
    OBVIOUS
  <1> USE DEF IInv
  <1>1. ASSUME NEW m \in Masters, Raise(m) PROVE IInv'
    <2>1. PICK r \in Traffic[m] : req' = [req EXCEPT ![m] = r]
      BY <1>1 DEF Raise
    <2>2. r \in Request
      BY <2>1, TcdmAssumption
    <2>3. req' \in [Masters -> Request \cup {None}]
      BY <2>1, <2>2 DEF TypeOK
    <2> QED  BY <1>1, <2>3 DEF Raise, TypeOK, AdaptersInStep
  <1>2. CASE Clock
    <2>1. PICK grant \in Grants :
            /\ BankAccess(grant) /\ Responses(grant) /\ busy' = Busy(grant)
            /\ lane' = [m \in Narrow |-> IF Granted(grant, m) THEN req[m].lane ELSE lane[m]]
            /\ rr' = [b \in Banks |-> IF grant[b] = None THEN rr[b]
                                      ELSE [rr[b] EXCEPT ![Selected(b)] = NextPointer(b)]]
            /\ req' = [m \in Masters |-> IF Granted(grant, m) THEN None ELSE req[m]]
      BY <1>2 DEF Clock
    <2>2. TypeOK'
      BY <2>1, ClockType
    <2>3. ASSUME NEW m \in Narrow PROVE busy'[m] = rvalid'[m]
      <3>1. m \in Masters /\ busy[m] \in BOOLEAN /\ busy[m] = rvalid[m]
        BY TcdmAssumption DEF AdaptersInStep, TypeOK
      <3>2. /\ busy'[m] = (Granted(grant, m) \/ (busy[m] /\ ~rvalid[m]))
            /\ rvalid'[m] = Granted(grant, m)
        BY <2>1, <3>1 DEF Busy, Responses
      <3>3. (busy[m] /\ ~rvalid[m]) = FALSE
        BY <3>1
      <3> QED  BY <3>2, <3>3 DEF Granted
    <2> QED  BY <2>2, <2>3 DEF AdaptersInStep
  <1>3. CASE UNCHANGED vars
    BY <1>3 DEF vars, TypeOK, AdaptersInStep
  <1> QED  BY <1>1, <1>2, <1>3 DEF Next

LEMMA Invariance == Spec => []IInv
  BY InitInv, StepInv, PTL DEF Spec

\* Registers, banks and pointers hold what they are declared to hold.
THEOREM TypeCorrect == Spec => []TypeOK
  <1>1. IInv => TypeOK
    BY DEF IInv
  <1> QED  BY <1>1, Invariance, PTL

\* An adapter is busy exactly in the cycle in which its response is on the interconnect
\* (outstanding_q of obi_narrow_to_wide, WAIT_RVALID of tcdm_to_obi_bridge).
THEOREM AdaptersFollow == Spec => []AdaptersInStep
  <1>1. IInv => AdaptersInStep
    BY DEF IInv
  <1> QED  BY <1>1, Invariance, PTL

----
(* The refinement. *)

\* A granted write changes the lanes of its line the abstract memory changes, and no others.
LEMMA StoreStep ==
    ASSUME TypeOK, NEW grant \in Grants, BankAccess(grant), NEW a \in Lines, NEW l \in Lanes
    PROVE  LET S == {m \in Masters : Granted(grant, m)}
           IN  mem'[BankOf(a)][WordOf(a)][l] =
                 IF \E m \in S : req[m].line = a /\ l \in Atomic!Written(m)
                 THEN req[CHOOSE m \in S : req[m].line = a].data[l]
                 ELSE mem[BankOf(a)][WordOf(a)][l]
  <1> DEFINE S == {m \in Masters : Granted(grant, m)}
             b == BankOf(a)
             g == grant[b]
  <1>1. b \in Banks /\ WordOf(a) \in Words
    BY PlaceOfLine
  <1>2. ASSUME NEW m \in S, req[m].line = a PROVE g = m /\ g # None
    BY <1>2, GrantedBank, TcdmAssumption
  <1>3. CASE g = None \/ ~req[g].we
    <2>1. mem'[b] = mem[b]
      BY <1>1, <1>3 DEF BankAccess
    <2>2. ASSUME NEW m \in S, req[m].line = a PROVE Atomic!Written(m) = {}
      BY <1>2, <1>3, <2>2 DEF Atomic!Written
    <2> QED  BY <2>1, <2>2
  <1>4. CASE g # None /\ req[g].we
    <2>1. /\ g \in Masters /\ req[g] \in Request /\ BankOf(req[g].line) = b
          /\ Granted(grant, g)
      BY <1>1, <1>4, GrantFacts DEF Granted
    <2>2. req[g].line \in Lines /\ g \in S
      BY <2>1 DEF Request
    <2>3. mem'[b] = [mem[b] EXCEPT ![WordOf(req[g].line)] =
                        [k \in Lanes |-> IF k \in Strobe(g) THEN req[g].data[k] ELSE @[k]]]
      BY <1>1, <1>4 DEF BankAccess
    <2>4. mem[b] \in [Words -> Data]
      BY <1>1 DEF TypeOK
    <2>5. CASE req[g].line = a
      <3>1. mem'[b][WordOf(a)][l] =
              IF l \in Strobe(g) THEN req[g].data[l] ELSE mem[b][WordOf(a)][l]
        BY <1>1, <2>3, <2>4, <2>5
      <3>2. (CHOOSE m \in S : req[m].line = a) = g
        BY <1>2, <2>2, <2>5
      <3>3. l \in Strobe(g) <=> l \in Atomic!Written(g)
        BY <1>4, <2>1 DEF Strobe, Atomic!Written, Atomic!Seen
      <3>4. (\E m \in S : req[m].line = a /\ l \in Atomic!Written(m)) <=> l \in Strobe(g)
        BY <1>2, <2>2, <2>5, <3>3
      <3> QED  BY <3>1, <3>2, <3>4
    <2>6. CASE req[g].line # a
      <3>1. WordOf(req[g].line) # WordOf(a)
        BY <2>1, <2>2, <2>6, OnePlaceEach
      <3>2. mem'[b][WordOf(a)] = mem[b][WordOf(a)]
        BY <1>1, <2>3, <2>4, <3>1
      <3>3. ~\E m \in S : req[m].line = a
        BY <1>2, <2>6
      <3> QED  BY <3>2, <3>3
    <2> QED  BY <2>5, <2>6
  <1> QED  BY <1>3, <1>4

\* The answer of a master, and its absence.
Resp(m) ==
    IF ~rvalid[m] THEN None
    ELSE [l \in (IF wrote[m] THEN {} ELSE IF m \in Narrow THEN {lane[m]} ELSE Lanes) |->
            rdata[bankSel[m]][l]]

LEMMA ResponseStep ==
    ASSUME TypeOK, NEW grant \in Grants, BankAccess(grant), Responses(grant),
           lane' = [m \in Narrow |-> IF Granted(grant, m) THEN req[m].lane ELSE lane[m]],
           NEW m \in Masters
    PROVE  Resp(m)' = IF Granted(grant, m) THEN Atomic!Answer(m) ELSE None
  <1>1. CASE ~Granted(grant, m)
    BY <1>1 DEF Responses, Resp
  <1>2. CASE Granted(grant, m)
    <2> DEFINE b == BankOf(req[m].line)
    <2>1. /\ req[m] \in Request /\ b \in Banks /\ WordOf(req[m].line) \in Words
          /\ grant[b] = m /\ m # None /\ req[m].line \in Lines
      BY <1>2, GrantedBank, TcdmAssumption DEF Request
    <2>2. rvalid'[m] /\ bankSel'[m] = b /\ wrote'[m] = req[m].we
      BY <1>2 DEF Responses, BankSel
    <2>3. CASE req[m].we
      BY <1>2, <2>2, <2>3 DEF Resp, Atomic!Answer
    <2>4. CASE ~req[m].we
      <3>1. rdata'[b] = mem[b][WordOf(req[m].line)]
        BY <2>1, <2>4 DEF BankAccess
      <3>2. (IF m \in Narrow THEN {lane'[m]} ELSE Lanes) = Atomic!Seen(m)
        BY <1>2 DEF Atomic!Seen
      <3>3. Resp(m)' = [l \in Atomic!Seen(m) |-> rdata'[b][l]]
        BY <2>2, <2>4, <3>2 DEF Resp
      <3>4. Atomic!Answer(m) =
              [l \in Atomic!Seen(m) |-> mem[b][WordOf(req[m].line)][l]]
        BY <2>1, <2>4 DEF Atomic!Answer
      <3> QED  BY <1>2, <3>1, <3>3, <3>4
    <2> QED  BY <2>3, <2>4
  <1> QED  BY <1>1, <1>2

LEMMA ClockServes ==
    ASSUME IInv, Clock
    PROVE  \E S \in SUBSET Masters : Atomic!Serve(S)
  <1>1. PICK grant \in Grants :
          /\ BankAccess(grant) /\ Responses(grant)
          /\ lane' = [m \in Narrow |-> IF Granted(grant, m) THEN req[m].lane ELSE lane[m]]
          /\ req' = [m \in Masters |-> IF Granted(grant, m) THEN None ELSE req[m]]
    BY DEF Clock
  <1> DEFINE S == {m \in Masters : Granted(grant, m)}
  <1>2. TypeOK
    BY DEF IInv
  <1>3. \A m \in S : req[m] # None
    BY <1>1, <1>2, GrantedBank DEF Presents
  <1>4. \A m, n \in S : req[m].line = req[n].line => m = n
    <2> SUFFICES ASSUME NEW m \in S, NEW n \in S, req[m].line = req[n].line PROVE m = n
      OBVIOUS
    <2>1. grant[BankOf(req[m].line)] = m /\ grant[BankOf(req[n].line)] = n
      BY <1>1, <1>2, GrantedBank
    <2> QED  BY <2>1
  <1>5. [a \in Lines |-> mem'[BankOf(a)][WordOf(a)]] =
          [a \in Lines |-> [l \in Lanes |->
             IF \E m \in S : req[m].line = a /\ l \in Atomic!Written(m)
             THEN req[CHOOSE m \in S : req[m].line = a].data[l]
             ELSE mem[BankOf(a)][WordOf(a)][l]]]
    <2> SUFFICES ASSUME NEW a \in Lines
                 PROVE  mem'[BankOf(a)][WordOf(a)] =
                          [l \in Lanes |->
                             IF \E m \in S : req[m].line = a /\ l \in Atomic!Written(m)
                             THEN req[CHOOSE m \in S : req[m].line = a].data[l]
                             ELSE mem[BankOf(a)][WordOf(a)][l]]
      OBVIOUS
    <2>1. TypeOK'
      BY StepInv DEF Next, IInv
    <2>2. mem'[BankOf(a)][WordOf(a)] \in Data
      BY <2>1, PlaceOfLine DEF TypeOK
    <2>3. \A l \in Lanes : mem'[BankOf(a)][WordOf(a)][l] =
                 IF \E m \in S : req[m].line = a /\ l \in Atomic!Written(m)
                 THEN req[CHOOSE m \in S : req[m].line = a].data[l]
                 ELSE mem[BankOf(a)][WordOf(a)][l]
      BY <1>1, <1>2, StoreStep
    <2> QED  BY <2>2, <2>3 DEF Data
  <1>6. [m \in Masters |-> Resp(m)'] =
          [m \in Masters |-> IF m \in S THEN Atomic!Answer(m) ELSE None]
    BY <1>1, <1>2, ResponseStep
  <1>7. req' = [m \in Masters |-> IF m \in S THEN None ELSE req[m]]
    BY <1>1
  <1>8. \A a \in Lines, l \in Lanes :
          [x \in Lines |-> mem[BankOf(x)][WordOf(x)]][a][l] = mem[BankOf(a)][WordOf(a)][l]
    OBVIOUS
  <1>9. Atomic!Serve(S)
    BY <1>3, <1>4, <1>5, <1>6, <1>7, <1>8 DEF Atomic!Serve, Resp
  <1> QED  BY <1>9

\* The interconnect, its banks and its adapters are one memory in which a granted request takes
\* effect at once and is answered, to the master that made it, in the next cycle.
THEOREM Refinement == Spec => ImplementsAtomicMemory
  <1>1. Init => Atomic!Init
    <2> SUFFICES ASSUME Init PROVE Atomic!Init
      OBVIOUS
    <2>1. \A a \in Lines : mem[BankOf(a)][WordOf(a)] = [l \in Lanes |-> 0]
      BY PlaceOfLine DEF Init, Zero
    <2> QED  BY <2>1 DEF Init, Atomic!Init
  <1>2. IInv /\ [Next]_vars => [Atomic!Next]_(Atomic!vars)
    <2> SUFFICES ASSUME IInv, [Next]_vars PROVE Atomic!Next \/ UNCHANGED Atomic!vars
      OBVIOUS
    <2>1. ASSUME NEW m \in Masters, Raise(m) PROVE Atomic!Raise(m)
      BY <2>1 DEF Raise, Atomic!Raise
    <2>2. CASE Clock
      BY <2>2, ClockServes DEF Atomic!Next
    <2>3. CASE UNCHANGED vars
      BY <2>3 DEF vars, Atomic!vars
    <2> QED  BY <2>1, <2>2, <2>3 DEF Next, Atomic!Next
  <1> QED  BY <1>1, <1>2, Invariance, PTL DEF Spec, ImplementsAtomicMemory, Atomic!Spec
====
