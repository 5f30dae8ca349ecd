-------------------------------- MODULE Lists ---------------------------------
(* Loops over a list, as functions that a proof can unfold.                *)
EXTENDS Integers, Sequences

(* What a loop over s that keeps the members of S leaves, in the order of  *)
(* s: Python's [x for x in s if x in S].                                   *)
Keep(s, S) ==
  LET kept[i \in 0 .. Len(s)] ==
        IF i = 0 THEN <<>>
        ELSE IF s[i] \in S THEN Append(kept[i - 1], s[i]) ELSE kept[i - 1]
  IN kept[Len(s)]

(* The sum of what f has for the numbers of S, among 1 to n.               *)
Total(f, S, n) ==
  LET sum[k \in 0 .. n] ==
        IF k = 0 THEN 0 ELSE IF k \in S THEN sum[k - 1] + f[k] ELSE sum[k - 1]
  IN sum[n]
=============================================================================
