---- MODULE MCAsyncRuntime ----
(* AsyncRuntime for TLC: a direction holds two jobs, the software queues two. *)
EXTENDS AsyncRuntime
====
