---------------------------- MODULE MCFinalAnswer ----------------------------
(* TLC instances of FinalAnswer. *)
EXTENDS FinalAnswer

CONSTANT MaxCandidates    \* longest list of candidates

MCTexts == {<<"a">>, <<"b">>}
MCCandidateLists ==
  UNION {[1 .. n -> [item : Items, text : Texts]] : n \in 0 .. MaxCandidates}
==============================================================================
