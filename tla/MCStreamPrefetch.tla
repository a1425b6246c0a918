---- MODULE MCStreamPrefetch ----
(* StreamPrefetch for TLC: five fillings of three bytes at most, some of them cut short by a
   page boundary and one by the end of the stream, with the ids starting anywhere. *)
EXTENDS StreamPrefetch
====
