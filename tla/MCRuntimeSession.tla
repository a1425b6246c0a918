---- MODULE MCRuntimeSession ----
(* RuntimeSession for TLC: three loading reads and a handful of commands and refills. *)
EXTENDS RuntimeSession
====
