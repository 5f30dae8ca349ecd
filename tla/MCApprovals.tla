----------------------------- MODULE MCApprovals -----------------------------
(* TLC instances of Approvals. *)
EXTENDS Approvals

Request(id, kind, command, available, ordinary, t) ==
  [id |-> id, kind |-> kind, command |-> command, available |-> available,
   ordinary |-> ordinary, thread |-> t]

\* One command asked about under two ids; changes by the modern and the legacy
\* method, ordinary in every root or in one; and a request that no user decides
\* about.
MCRequests ==
  {Request(1, "command", "c", Decisions, {}, "t1"),
   Request(2, "command", "c", {"accept", "decline"}, {}, "t1"),
   Request(3, "file", "", Decisions, {"r1", "r2"}, "t1"),
   Request(4, "patch", "", Decisions, {"r1"}, "t1"),
   Request(5, "file", "", {"accept", "cancel"}, {"r2"}, "t2"),
   Request(6, "permissions", "", {}, {}, "t1")}
==============================================================================
