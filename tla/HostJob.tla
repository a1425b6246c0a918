---- MODULE HostJob ----
(***************************************************************************)
(* What the host is promised about one job of the cluster: a report, then  *)
(* one notification, and that a pass is reported only when the accelerator *)
(* has stopped working on the memory they share, for good.                 *)
(***************************************************************************)
VARIABLES report, notified, working

vars == <<report, notified, working>>

Init == report = "none" /\ notified = FALSE /\ working = FALSE

\* DMA transfers and engine jobs begin and end, after a reported failure as well.
Work ==
    /\ report # "pass"
    /\ working' \in BOOLEAN
    /\ UNCHANGED <<report, notified>>

Report ==
    /\ report = "none"
    /\ report' \in {"pass", "fail"}
    /\ report' = "pass" => ~working
    /\ UNCHANGED <<notified, working>>

Notify ==
    /\ report # "none" /\ ~notified
    /\ notified' = TRUE
    /\ UNCHANGED <<report, working>>

Next == Work \/ Report \/ Notify

Spec == Init /\ [][Next]_vars
====
