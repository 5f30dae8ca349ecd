----------------------------- MODULE MCSelection ------------------------------
(* TLC instance of Selection. *)
EXTENDS Selection

MCRequest(among, archived, mode) == [among |-> among, archived |-> archived, mode |-> mode]

\* /history, /history internal, /history archived-all-internal, and a search
\* that finds the threads of this repository.
MCRequests ==
  {MCRequest(Threads, FALSE, "user"), MCRequest(Threads, FALSE, "internal"),
   MCRequest(Threads, TRUE, "all"), MCRequest(Here, FALSE, "user")}
==============================================================================
