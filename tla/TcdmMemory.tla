---- MODULE TcdmMemory ----
(***************************************************************************)
(* The shared data TCDM of the cluster: tcdm_interconnect.sv with its      *)
(* cluster_sram_bank.sv banks, and the adapters that put the 32-bit ports  *)
(* of the core (obi_narrow_to_wide.sv) and of the vector engine            *)
(* (tcdm_to_obi_bridge.sv) on the 256-bit interconnect.                    *)
(*                                                                         *)
(* Clock is one clock edge of all of them; between two edges the masters   *)
(* raise requests, and keep them up until they are granted.  A line is one *)
(* interconnect word, named by its number; a lane is 32 bits of it, the    *)
(* smallest piece a byte enable is modelled for.                           *)
(***************************************************************************)
EXTENDS Naturals, FiniteSets

CONSTANTS Masters,              \* port numbers
          Hwpe, Dma, Core,      \* the traffic classes, HWPE_, DMA_, CORE_MASTER_MASK
          Narrow,               \* masters behind a width adapter
          NumBanks, NumWords,   \* banks, lines in a bank
          Lanes, Values,
          Traffic,              \* the requests a master may raise
          None

Lines == 0 .. (NumBanks * NumWords - 1)
Banks == 0 .. (NumBanks - 1)
Words == 0 .. (NumWords - 1)
Data == [Lanes -> Values]

Request == [line : Lines, lane : Lanes, we : BOOLEAN, strobe : SUBSET Lanes, data : Data]

ASSUME TcdmAssumption ==
    /\ Masters \subseteq Nat /\ IsFiniteSet(Masters) /\ 0 \in Masters
    /\ Hwpe \cup Dma \cup Core = Masters
    /\ Hwpe \cap Dma = {} /\ Hwpe \cap Core = {} /\ Dma \cap Core = {}
    /\ Narrow \subseteq Masters
    /\ NumBanks \in Nat \ {0} /\ NumWords \in Nat \ {0}
    /\ 0 \in Values /\ 0 \in Lanes
    /\ Traffic \in [Masters -> SUBSET Request]
    /\ None \notin Request \cup Masters

Classes == {"hwpe", "dma", "core"}

VARIABLES req,                        \* what each master presents
          busy, lane,                 \* adapters: outstanding_q or WAIT_RVALID, and the lane to answer from
          mem, rdata,                 \* banks: the array and the read register
          rr,                         \* bank -> class -> pointer of its round-robin arbiter
          rvalid, bankSel, wrote      \* master_req_q, master_bank_sel_q, master_we_q

vars == <<req, busy, lane, mem, rdata, rr, rvalid, bankSel, wrote>>

TypeOK ==
    /\ req \in [Masters -> Request \cup {None}]
    /\ busy \in [Narrow -> BOOLEAN] /\ lane \in [Narrow -> Lanes]
    /\ mem \in [Banks -> [Words -> Data]] /\ rdata \in [Banks -> Data]
    /\ rr \in [Banks -> [Classes -> Masters]]
    /\ rvalid \in [Masters -> BOOLEAN] /\ bankSel \in [Masters -> Banks]
    /\ wrote \in [Masters -> BOOLEAN]

Zero == [l \in Lanes |-> 0]

Init ==
    /\ req = [m \in Masters |-> None]
    /\ busy = [m \in Narrow |-> FALSE] /\ lane = [m \in Narrow |-> 0]
    /\ mem = [b \in Banks |-> [w \in Words |-> Zero]] /\ rdata = [b \in Banks |-> Zero]
    /\ rr = [b \in Banks |-> [c \in Classes |-> 0]]
    /\ rvalid = [m \in Masters |-> FALSE] /\ bankSel = [m \in Masters |-> 0]
    /\ wrote = [m \in Masters |-> FALSE]

----
(* The adapters: the wide request of a narrow port, held back while one is outstanding. *)

Strobe(m) == IF m \in Narrow THEN req[m].strobe \cap {req[m].lane} ELSE req[m].strobe

Presents(m) == req[m] # None /\ (m \in Narrow => ~busy[m])

----
(* Arbitration of a bank: round-robin inside a class, the classes in strict priority. *)

BankOf(line) == line % NumBanks
WordOf(line) == line \div NumBanks

Wanting(b, class) == {m \in class : Presents(m) /\ BankOf(req[m].line) = b}

\* Faulty variant: the DMA goes before the accelerators.
Selected_DmaFirst(b) ==
    IF Wanting(b, Dma) # {} THEN "dma" ELSE IF Wanting(b, Hwpe) # {} THEN "hwpe" ELSE "core"

Selected(b) ==
    IF Wanting(b, Hwpe) # {} THEN "hwpe" ELSE IF Wanting(b, Dma) # {} THEN "dma" ELSE "core"

Members(class) == CASE class = "hwpe" -> Hwpe [] class = "dma" -> Dma [] class = "core" -> Core

Contenders(b) == Wanting(b, Members(Selected(b)))

\* rr_arb_tree: the master at the pointer if it contends, else some other that does.
Grantable(b) ==
    IF Contenders(b) = {} THEN {None}
    ELSE IF rr[b][Selected(b)] \in Contenders(b) THEN {rr[b][Selected(b)]}
    ELSE Contenders(b)

\* rr_arb_tree with FairArb: after a grant the pointer goes to the next contender in port order.
Least(S) == CHOOSE m \in S : \A n \in S : m <= n

NextPointer(b) ==
    LET above == {m \in Contenders(b) : m > rr[b][Selected(b)]}
    IN  IF above # {} THEN Least(above) ELSE Least(Contenders(b))

----
(* One clock edge, and what the masters raise before the next one. *)

Raise(m) ==
    /\ req[m] = None
    /\ \E r \in Traffic[m] : req' = [req EXCEPT ![m] = r]
    /\ UNCHANGED <<busy, lane, mem, rdata, rr, rvalid, bankSel, wrote>>

Granted(grant, m) == \E b \in Banks : grant[b] = m

\* cluster_sram_bank: a write changes the enabled bytes, a read loads the read register.
BankAccess(grant) ==
    /\ mem' = [b \in Banks |->
                  IF grant[b] = None \/ ~req[grant[b]].we THEN mem[b]
                  ELSE [mem[b] EXCEPT ![WordOf(req[grant[b]].line)] =
                          [l \in Lanes |-> IF l \in Strobe(grant[b])
                                          THEN req[grant[b]].data[l] ELSE @[l]]]]
    /\ rdata' = [b \in Banks |->
                    IF grant[b] = None \/ req[grant[b]].we THEN rdata[b]
                    ELSE mem[b][WordOf(req[grant[b]].line)]]

\* Faulty variant: a granted read keeps the bank of the master's last write.
BankSel_Stale(grant) ==
    [m \in Masters |-> IF Granted(grant, m) /\ ~wrote[m] THEN BankOf(req[m].line) ELSE bankSel[m]]

\* Faulty variant: the line is kept instead of its bank.
BankSel_Line(grant) ==
    [m \in Masters |-> IF Granted(grant, m) THEN req[m].line ELSE bankSel[m]]

BankSel(grant) ==
    [m \in Masters |-> IF Granted(grant, m) THEN BankOf(req[m].line) ELSE bankSel[m]]

Responses(grant) ==
    /\ rvalid' = [m \in Masters |-> Granted(grant, m)]
    /\ bankSel' = BankSel(grant)
    /\ wrote' = [m \in Masters |-> IF Granted(grant, m) THEN req[m].we ELSE wrote[m]]

\* Faulty variant: the adapter never takes the response as the end of its request.
Busy_Stuck(grant) == [m \in Narrow |-> Granted(grant, m) \/ busy[m]]

\* An adapter waits from the grant of its request to the response.
Busy(grant) == [m \in Narrow |-> Granted(grant, m) \/ (busy[m] /\ ~rvalid[m])]

\* One grant per bank at most.
Grants ==
    LET may == [b \in Banks |-> Grantable(b)]
    IN  {grant \in [Banks -> UNION {may[b] : b \in Banks}] : \A b \in Banks : grant[b] \in may[b]}

Clock ==
    \E grant \in Grants :
        /\ BankAccess(grant)
        /\ Responses(grant)
        /\ busy' = Busy(grant)
        /\ lane' = [m \in Narrow |-> IF Granted(grant, m) THEN req[m].lane ELSE lane[m]]
        /\ rr' = [b \in Banks |-> IF grant[b] = None THEN rr[b]
                                 ELSE [rr[b] EXCEPT ![Selected(b)] = NextPointer(b)]]
        /\ req' = [m \in Masters |-> IF Granted(grant, m) THEN None ELSE req[m]]

Next == (\E m \in Masters : Raise(m)) \/ Clock

Spec == Init /\ [][Next]_vars

\* The clock never stops.
FairSpec == Spec /\ WF_vars(Clock)

----
(* Properties. *)

\* The banks, the arbiters and the adapters together are one memory: a line lives in one
\* place, simultaneous accesses to different banks commute, no granted request is lost or
\* taken twice, and every answer goes to the master that asked, in the cycle after its grant,
\* with the lanes it asked for, though other masters use the bank and the read register meanwhile.
Atomic == INSTANCE AtomicMemory WITH
    store <- [a \in Lines |-> mem[BankOf(a)][WordOf(a)]],
    req <- req,
    resp <- [m \in Masters |->
               IF ~rvalid[m] THEN None
               ELSE [l \in (IF wrote[m] THEN {} ELSE IF m \in Narrow THEN {lane[m]} ELSE Lanes) |->
                       rdata[bankSel[m]][l]]]
ImplementsAtomicMemory == Atomic!Spec

\* An adapter waits exactly in the cycle of its response: it cannot hang on a response that
\* has gone by, and it never drops one that belongs to its request.
AdaptersInStep == \A m \in Narrow : busy[m] = rvalid[m]

\* No request of an accelerator starves, whatever the others do: round-robin inside the class
\* that has strict priority.
HwpeServed == \A m \in Hwpe : req[m] # None ~> req[m] = None

\* A DMA or core request waits for ever only if higher classes keep asking for its bank.
LowerServed ==
    \A m \in Dma \cup Core :
        \/ []<>(req[m] # None /\ m \notin Members(Selected(BankOf(req[m].line))))
        \/ req[m] # None ~> req[m] = None
====
