---------------------------- MODULE MCTranscript ----------------------------
(* Instances of Transcript for TLC. *)
EXTENDS Transcript, TLC

CONSTANTS p1, p2

MCProcs == Permutations({p1, p2})
==============================================================================
