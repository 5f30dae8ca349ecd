----------------------------- MODULE MCBoundedRun -----------------------------
(* TLC instance of BoundedRun. *)
EXTENDS BoundedRun

MCPipes == <<"stdout", "stderr">>
==============================================================================
