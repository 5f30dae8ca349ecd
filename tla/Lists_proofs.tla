----------------------------- MODULE Lists_proofs -----------------------------
(***************************************************************************)
(* What a loop over a list leaves, for every list. The induction on the    *)
(* numbers and on the lists is over a set: one that holds 0 and with each  *)
(* number the next one holds them all, for the numbers are well-founded.   *)
(***************************************************************************)
EXTENDS Lists, FiniteSets, FiniteSetTheorems, SequenceTheorems, WellFoundedInduction, TLAPS

(* Induction on the numbers, over a set.                                     *)
LEMMA NumbersInduct ==
  ASSUME NEW G \in SUBSET Nat, 0 \in G, \A n \in G : n + 1 \in G
  PROVE  Nat \subseteq G
<1> DEFINE S == Nat \ G
           Below(n) == {y \in S : y <= n}
           Family == {Below(n) : n \in S}
<1> SUFFICES ASSUME S # {} PROVE FALSE
  OBVIOUS
<1>1. \A n \in S : Below(n) \in SUBSET Nat /\ IsFiniteSet(Below(n))
  BY FS_BoundedSetOfNaturals
<1>2. Family \subseteq FiniteSubsetsOf(Nat) /\ Family # {}
  BY <1>1 DEF FiniteSubsetsOf
<1>3. PICK L \in Family : \A M \in Family : <<M, L>> \notin StrictSubsetOrdering(Nat)
  <2> HIDE DEF Family
  <2> QED BY <1>2, FS_StrictSubsetOrderingWellFounded, WFMin
<1>4. PICK x \in S : L = Below(x)
  BY <1>3
<1>5. x - 1 \in S /\ x \in Nat /\ x - 1 < x
  BY <1>4
<1>6. Below(x - 1) \subseteq Below(x) /\ Below(x) # Below(x - 1)
  BY <1>5
<1>7. <<Below(x - 1), Below(x)>> \in StrictSubsetOrdering(Nat)
  <2>1. Below(x - 1) \in SUBSET Nat /\ Below(x) \in SUBSET Nat
    BY <1>1, <1>5
  <2> HIDE DEF Below
  <2> QED BY <1>6, <2>1 DEF StrictSubsetOrdering
<1> QED BY <1>3, <1>4, <1>5, <1>7

(* A set of numbers with a member has a least one.                           *)
LEMMA LeastExists ==
  ASSUME NEW S \in SUBSET Nat, S # {}
  PROVE  \E n \in S : \A m \in S : n <= m
<1> SUFFICES ASSUME \A n \in S : \E m \in S : ~(n <= m) PROVE FALSE
  OBVIOUS
<1> DEFINE G == {n \in Nat : \A m \in S : n < m}
<1>1. 0 \in G
  OBVIOUS
<1>2. ASSUME NEW n \in G PROVE n + 1 \in G
  <2>1. \A m \in S : n + 1 <= m
    OBVIOUS
  <2> QED BY <2>1
<1>3. G \subseteq Nat
  OBVIOUS
<1>4. Nat \subseteq G
  <2> HIDE DEF G
  <2> QED BY <1>1, <1>2, <1>3, NumbersInduct
<1>5. PICK x \in S : x \in Nat /\ x \in G
  BY <1>4
<1> QED BY <1>5

(* Induction on the sequences, over a set.                                   *)
LEMMA SequencesInduct ==
  ASSUME NEW T, NEW G, <<>> \in G, \A s \in Seq(T), e \in T : s \in G => Append(s, e) \in G
  PROVE  Seq(T) \subseteq G
<1> DEFINE N == {n \in Nat : \A s \in Seq(T) : Len(s) = n => s \in G}
<1>1. 0 \in N
  BY EmptySeq
<1>2. ASSUME NEW n \in N PROVE n + 1 \in N
  <2> SUFFICES ASSUME NEW s \in Seq(T), Len(s) = n + 1 PROVE s \in G
    OBVIOUS
  <2>1. s # <<>>
    BY EmptySeq
  <2>2. PICK r \in Seq(T), e \in T : s = Append(r, e)
    BY <2>1, SequenceEmptyOrAppend
  <2>3. Len(r) = n
    BY <2>2, AppendProperties, LenProperties
  <2> QED BY <2>2, <2>3
<1>3. Nat \subseteq N
  <2> HIDE DEF N
  <2>1. N \subseteq Nat
    BY DEF N
  <2> QED BY <1>1, <1>2, <2>1, NumbersInduct
<1> QED BY <1>3, LenProperties

(* A run of the loop of Keep over the first n members of s.                  *)
Loop(F, s, S, n) ==
  F = [i \in 0 .. n |->
         IF i = 0 THEN <<>>
         ELSE IF s[i] \in S THEN Append(F[i - 1], s[i]) ELSE F[i - 1]]

LEMMA LoopExists ==
  ASSUME NEW s, NEW S, NEW n \in Nat
  PROVE  \E F : Loop(F, s, S, n)
<1> DEFINE G == {m \in Nat : \E F : Loop(F, s, S, m)}
<1>1. 0 \in G
  <2> DEFINE F == [i \in 0 .. 0 |-> <<>>]
  <2>1. Loop(F, s, S, 0)
    BY DEF Loop
  <2> QED BY <2>1
<1>2. ASSUME NEW m \in G PROVE m + 1 \in G
  <2>1. PICK F : Loop(F, s, S, m)
    OBVIOUS
  <2> DEFINE H == [i \in 0 .. m + 1 |->
                     IF i <= m THEN F[i]
                     ELSE IF s[i] \in S THEN Append(F[i - 1], s[i]) ELSE F[i - 1]]
  <2>2. \A i \in 0 .. m : H[i] = F[i]
    OBVIOUS
  <2>3. \A i \in 0 .. m : F[i] = IF i = 0 THEN <<>>
         ELSE IF s[i] \in S THEN Append(F[i - 1], s[i]) ELSE F[i - 1]
    BY <2>1 DEF Loop
  <2>4. ASSUME NEW i \in 0 .. m + 1
        PROVE  H[i] = IF i = 0 THEN <<>>
         ELSE IF s[i] \in S THEN Append(H[i - 1], s[i]) ELSE H[i - 1]
    <3>1. CASE i = 0
      BY <2>2, <2>3, <3>1
    <3>2. CASE i \in 1 .. m
      <4>1. i - 1 \in 0 .. m /\ i \in 0 .. m /\ i # 0
        BY <3>2
      <4>2. H[i - 1] = F[i - 1] /\ H[i] = F[i]
        BY <2>2, <4>1
      <4> HIDE DEF H
      <4> QED BY <2>3, <4>1, <4>2
    <3>3. CASE i = m + 1
      <4>1. i - 1 = m /\ i - 1 \in 0 .. m /\ i # 0 /\ ~(i <= m)
        BY <3>3
      <4>2. H[i - 1] = F[i - 1]
        BY <2>2, <4>1
      <4>3. H[i] = IF s[i] \in S THEN Append(F[i - 1], s[i]) ELSE F[i - 1]
        BY <4>1
      <4> HIDE DEF H
      <4> QED BY <4>1, <4>2, <4>3
    <3> QED BY <3>1, <3>2, <3>3
  <2>5. Loop(H, s, S, m + 1)
    <3>1. H = [i \in 0 .. m + 1 |-> H[i]]
      OBVIOUS
    <3> HIDE DEF H
    <3> QED BY <2>4, <3>1 DEF Loop
  <2> QED BY <2>5
<1>3. G \subseteq Nat
  OBVIOUS
<1> HIDE DEF G
<1>4. n \in G
  BY <1>1, <1>2, <1>3, NumbersInduct
<1> QED BY <1>4 DEF G

(* Two runs agree where their sequences do.                                  *)
LEMMA LoopsAgree ==
  ASSUME NEW s, NEW t, NEW S, NEW n \in Nat, NEW m \in Nat, n <= m,
         \A i \in 1 .. n : s[i] = t[i],
         NEW F, Loop(F, s, S, n), NEW H, Loop(H, t, S, m)
  PROVE  F[n] = H[n]
<1>1. \A i \in 0 .. n : F[i] = IF i = 0 THEN <<>>
         ELSE IF s[i] \in S THEN Append(F[i - 1], s[i]) ELSE F[i - 1]
  BY DEF Loop
<1>2. \A i \in 0 .. m : H[i] = IF i = 0 THEN <<>>
         ELSE IF t[i] \in S THEN Append(H[i - 1], t[i]) ELSE H[i - 1]
  BY DEF Loop
<1> DEFINE G == {i \in Nat : i <= n => F[i] = H[i]}
<1>3. 0 \in G
  BY <1>1, <1>2
<1>4. ASSUME NEW i \in G PROVE i + 1 \in G
  <2> SUFFICES ASSUME i + 1 <= n PROVE F[i + 1] = H[i + 1]
    OBVIOUS
  <2>1. i + 1 \in 0 .. n /\ i + 1 \in 0 .. m /\ i + 1 \in 1 .. n /\ i + 1 # 0
        /\ (i + 1) - 1 = i
    OBVIOUS
  <2>2. F[i] = H[i] /\ s[i + 1] = t[i + 1]
    BY <2>1
  <2> QED BY <1>1, <1>2, <2>1, <2>2
<1>5. G \subseteq Nat
  OBVIOUS
<1> HIDE DEF G
<1>6. n \in G
  BY <1>3, <1>4, <1>5, NumbersInduct
<1> QED BY <1>6 DEF G

LEMMA KeepIsALoop ==
  ASSUME NEW T, NEW s \in Seq(T), NEW S
  PROVE  \E F : Loop(F, s, S, Len(s)) /\ Keep(s, S) = F[Len(s)]
<1>1. Keep(s, S) = (CHOOSE F : Loop(F, s, S, Len(s)))[Len(s)]
  BY Zenon DEF Keep, Loop
<1>2. \E F : Loop(F, s, S, Len(s))
  BY LoopExists, LenProperties
<1> QED BY <1>1, <1>2

LEMMA KeepEmpty ==
  ASSUME NEW S
  PROVE  Keep(<<>>, S) = <<>>
<1>1. <<>> \in Seq({}) /\ Len(<<>>) = 0
  BY EmptySeq
<1>2. PICK F : Loop(F, <<>>, S, 0) /\ Keep(<<>>, S) = F[0]
  BY <1>1, KeepIsALoop
<1> QED BY <1>2 DEF Loop

LEMMA KeepAppend ==
  \A T, S : \A s \in Seq(T), e \in T :
    Keep(Append(s, e), S) = IF e \in S THEN Append(Keep(s, S), e) ELSE Keep(s, S)
<1> TAKE T, S
<1> TAKE s \in Seq(T), e \in T
<1> DEFINE t == Append(s, e)
           n == Len(s)
<1>1. /\ t \in Seq(T) /\ Len(t) = n + 1 /\ t[n + 1] = e /\ n \in Nat
      /\ \A i \in 1 .. n : s[i] = t[i]
  BY AppendProperties, LenProperties
<1> HIDE DEF t
<1>2. PICK F : Loop(F, s, S, n) /\ Keep(s, S) = F[n]
  BY KeepIsALoop
<1>3. PICK H : Loop(H, t, S, n + 1) /\ Keep(t, S) = H[n + 1]
  BY <1>1, KeepIsALoop
<1>4. F[n] = H[n]
  BY <1>1, <1>2, <1>3, LoopsAgree
<1>5. H[n + 1] = IF t[n + 1] \in S THEN Append(H[n], t[n + 1]) ELSE H[n]
  <2>1. n + 1 \in 0 .. n + 1 /\ n + 1 # 0 /\ (n + 1) - 1 = n
    BY <1>1
  <2>2. \A i \in 0 .. n + 1 : H[i] = IF i = 0 THEN <<>>
         ELSE IF t[i] \in S THEN Append(H[i - 1], t[i]) ELSE H[i - 1]
    BY <1>3 DEF Loop
  <2> QED BY <2>1, <2>2
<1> QED BY <1>1, <1>2, <1>3, <1>4, <1>5 DEF t

(* What is kept was there, and belongs to the set.                           *)
LEMMA KeepType ==
  \A T, S : \A s \in Seq(T) : Keep(s, S) \in Seq(T \cap S)
<1> TAKE T, S
<1> TAKE s \in Seq(T)
<1> DEFINE G == {r \in Seq(T) : Keep(r, S) \in Seq(T \cap S)}
<1>1. <<>> \in G
  BY KeepEmpty, EmptySeq
<1>2. ASSUME NEW r \in Seq(T), NEW e \in T, r \in G PROVE Append(r, e) \in G
  <2>1. Keep(Append(r, e), S) = IF e \in S THEN Append(Keep(r, S), e) ELSE Keep(r, S)
    BY KeepAppend
  <2>2. Append(r, e) \in Seq(T)
    BY AppendProperties
  <2>3. Keep(r, S) \in Seq(T \cap S)
    BY <1>2
  <2>4. e \in S => Append(Keep(r, S), e) \in Seq(T \cap S)
    <3> SUFFICES ASSUME e \in T \cap S PROVE Append(Keep(r, S), e) \in Seq(T \cap S)
      OBVIOUS
    <3> QED BY <2>3, AppendProperties
  <2> QED BY <2>1, <2>2, <2>3, <2>4
<1> HIDE DEF G
<1>3. s \in G
  BY <1>1, <1>2, SequencesInduct
<1> QED BY <1>3 DEF G

(* The loop goes through one sequence and then the other.                    *)
LEMMA KeepConcat ==
  \A T, S : \A s, t \in Seq(T) : Keep(s \o t, S) = Keep(s, S) \o Keep(t, S)
<1> TAKE T, S
<1> TAKE s, t \in Seq(T)
<1> DEFINE G == {r \in Seq(T) : Keep(s \o r, S) = Keep(s, S) \o Keep(r, S)}
<1>0. Keep(s, S) \in Seq(T \cap S)
  BY KeepType
<1>1. <<>> \in G
  BY <1>0, KeepEmpty, EmptySeq, ConcatEmptySeq
<1>2. ASSUME NEW r \in Seq(T), NEW e \in T, r \in G PROVE Append(r, e) \in G
  <2>1. s \o Append(r, e) = Append(s \o r, e) /\ s \o r \in Seq(T)
    OBVIOUS
  <2>2. Keep(r, S) \in Seq(T \cap S)
    BY KeepType
  <2>3. ASSUME e \in S
        PROVE  Keep(s, S) \o Append(Keep(r, S), e) = Append(Keep(s, S) \o Keep(r, S), e)
    <3>1. e \in T \cap S
      BY <2>3
    <3> QED BY <1>0, <2>2, <3>1
  <2>4. Keep(Append(r, e), S) = IF e \in S THEN Append(Keep(r, S), e) ELSE Keep(r, S)
    BY KeepAppend
  <2>5. Keep(Append(s \o r, e), S) =
          IF e \in S THEN Append(Keep(s \o r, S), e) ELSE Keep(s \o r, S)
    <3> DEFINE q == s \o r
    <3>1. q \in Seq(T)
      BY <2>1
    <3> HIDE DEF q
    <3>2. Keep(Append(q, e), S) = IF e \in S THEN Append(Keep(q, S), e) ELSE Keep(q, S)
      BY <3>1, KeepAppend
    <3> QED BY <3>2 DEF q
  <2>6. Append(r, e) \in Seq(T) /\ Keep(s \o r, S) = Keep(s, S) \o Keep(r, S)
    BY <1>2, AppendProperties
  <2> QED BY <2>1, <2>3, <2>4, <2>5, <2>6
<1> HIDE DEF G
<1>3. t \in G
  BY <1>1, <1>2, SequencesInduct
<1> QED BY <1>3 DEF G

(* Two loops keep what both would keep.                                      *)
LEMMA KeepKeep ==
  \A T, S, R : \A s \in Seq(T) : Keep(Keep(s, S), R) = Keep(s, S \cap R)
<1> TAKE T, S, R
<1> TAKE s \in Seq(T)
<1> DEFINE G == {r \in Seq(T) : Keep(Keep(r, S), R) = Keep(r, S \cap R)}
<1>1. <<>> \in G
  BY KeepEmpty, EmptySeq
<1>2. ASSUME NEW r \in Seq(T), NEW e \in T, r \in G PROVE Append(r, e) \in G
  <2>1. Keep(r, S) \in Seq(T \cap S)
    BY KeepType
  <2>2. e \in S => Keep(Append(Keep(r, S), e), R) =
                     IF e \in R THEN Append(Keep(Keep(r, S), R), e) ELSE Keep(Keep(r, S), R)
    <3> DEFINE U == T \cap S
               k == Keep(r, S)
    <3>1. SUFFICES ASSUME e \in U
                   PROVE  Keep(Append(k, e), R) =
                            IF e \in R THEN Append(Keep(k, R), e) ELSE Keep(k, R)
      OBVIOUS
    <3>2. k \in Seq(U)
      BY <2>1
    <3> HIDE DEF U, k
    <3> QED BY <3>1, <3>2, KeepAppend
  <2>3. Keep(Append(r, e), S) = IF e \in S THEN Append(Keep(r, S), e) ELSE Keep(r, S)
    BY KeepAppend
  <2>4. Keep(Append(r, e), S \cap R) =
          IF e \in S \cap R THEN Append(Keep(r, S \cap R), e) ELSE Keep(r, S \cap R)
    BY KeepAppend
  <2>5. Append(r, e) \in Seq(T) /\ Keep(Keep(r, S), R) = Keep(r, S \cap R)
    BY <1>2, AppendProperties
  <2>6. Keep(Keep(Append(r, e), S), R) = Keep(Append(r, e), S \cap R)
    <3>1. CASE e \in S
      <4> DEFINE I == S \cap R
                 k == Keep(r, S)
      <4>1. e \in I <=> e \in R
        BY <3>1
      <4>2. Keep(Append(k, e), R) = IF e \in R THEN Append(Keep(k, R), e) ELSE Keep(k, R)
        BY <2>2, <3>1
      <4>3. Keep(Append(r, e), S) = Append(k, e)
        BY <2>3, <3>1
      <4>4. Keep(Append(r, e), I) = IF e \in I THEN Append(Keep(r, I), e) ELSE Keep(r, I)
        BY <2>4
      <4>5. Keep(k, R) = Keep(r, I)
        BY <2>5
      <4> HIDE DEF I, k
      <4>6. Keep(Keep(Append(r, e), S), R) = Keep(Append(r, e), I)
        BY <4>1, <4>2, <4>3, <4>4, <4>5
      <4> QED BY <4>6 DEF I
    <3>2. CASE e \notin S
      BY <2>3, <2>4, <2>5, <3>2
    <3> QED BY <3>1, <3>2
  <2> QED BY <2>5, <2>6
<1> HIDE DEF G
<1>3. s \in G
  BY <1>1, <1>2, SequencesInduct
<1> QED BY <1>3 DEF G

(* A loop that keeps nothing.                                                 *)
LEMMA KeepNone ==
  \A T, S : \A s \in Seq(T) : T \cap S = {} => Keep(s, S) = <<>>
<1> TAKE T, S
<1> TAKE s \in Seq(T)
<1> HAVE T \cap S = {}
<1> DEFINE G == {r \in Seq(T) : Keep(r, S) = <<>>}
<1>1. <<>> \in G
  BY KeepEmpty, EmptySeq
<1>2. ASSUME NEW r \in Seq(T), NEW e \in T, r \in G PROVE Append(r, e) \in G
  <2>1. Keep(Append(r, e), S) = Keep(r, S)
    BY KeepAppend
  <2> QED BY <1>2, <2>1, AppendProperties
<1> HIDE DEF G
<1>3. s \in G
  BY <1>1, <1>2, SequencesInduct
<1> QED BY <1>3 DEF G

------------------------------------------------------------------------------
(* What is kept are the members that are in the set, in the order in which   *)
(* they were.                                                                *)
Members(s) == {s[i] : i \in DOMAIN s}

Ordered(s, R) == \A i, j \in DOMAIN s : i < j => <<s[i], s[j]>> \in R

LEMMA MembersAppend ==
  \A T : \A s \in Seq(T), e \in T : Members(Append(s, e)) = Members(s) \cup {e}
<1> TAKE T
<1> TAKE s \in Seq(T), e \in T
<1> DEFINE t == Append(s, e)
           n == Len(s)
<1>1. /\ DOMAIN t = 1 .. n + 1 /\ t[n + 1] = e /\ n \in Nat /\ DOMAIN s = 1 .. n
      /\ \A i \in 1 .. n : s[i] = t[i]
  BY AppendProperties, LenProperties
<1> HIDE DEF t, n
<1>2. \A x : x \in Members(t) <=> x \in Members(s) \cup {e}
  BY <1>1 DEF Members
<1> QED BY <1>2 DEF t

LEMMA MembersConcat ==
  \A T : \A s, t \in Seq(T) : Members(s \o t) = Members(s) \cup Members(t)
<1> TAKE T
<1> TAKE s, t \in Seq(T)
<1>1. /\ s \o t \in Seq(T) /\ Len(s \o t) = Len(s) + Len(t)
      /\ \A i \in 1 .. Len(s) + Len(t) :
           (s \o t)[i] = IF i <= Len(s) THEN s[i] ELSE t[i - Len(s)]
  BY ConcatProperties
<1>2. /\ DOMAIN s = 1 .. Len(s) /\ DOMAIN t = 1 .. Len(t)
      /\ DOMAIN (s \o t) = 1 .. Len(s) + Len(t)
      /\ Len(s) \in Nat /\ Len(t) \in Nat
  BY <1>1, LenProperties
<1> DEFINE u == s \o t
<1> HIDE DEF u
<1>3. Members(u) \subseteq Members(s) \cup Members(t)
  <2> SUFFICES ASSUME NEW i \in DOMAIN u PROVE u[i] \in Members(s) \cup Members(t)
    BY DEF Members
  <2>1. i \in 1 .. Len(s) + Len(t)
    BY <1>2 DEF u
  <2>2. CASE i <= Len(s)
    BY <1>1, <1>2, <2>1, <2>2 DEF Members, u
  <2>3. CASE ~(i <= Len(s))
    <3>1. i - Len(s) \in 1 .. Len(t) /\ u[i] = t[i - Len(s)]
      BY <1>1, <1>2, <2>1, <2>3 DEF u
    <3> QED BY <1>2, <3>1 DEF Members
  <2> QED BY <2>2, <2>3
<1>4. Members(s) \subseteq Members(u)
  <2> SUFFICES ASSUME NEW i \in DOMAIN s PROVE s[i] \in Members(u)
    BY DEF Members
  <2>1. i \in 1 .. Len(s) + Len(t) /\ u[i] = s[i]
    BY <1>1, <1>2 DEF u
  <2> QED BY <1>2, <2>1 DEF Members, u
<1>5. Members(t) \subseteq Members(u)
  <2> SUFFICES ASSUME NEW i \in DOMAIN t PROVE t[i] \in Members(u)
    BY DEF Members
  <2>1. Len(s) + i \in 1 .. Len(s) + Len(t) /\ ~(Len(s) + i <= Len(s)) /\ (Len(s) + i) - Len(s) = i
    BY <1>2
  <2>2. u[Len(s) + i] = t[i]
    BY <1>1, <2>1 DEF u
  <2> QED BY <1>2, <2>1, <2>2 DEF Members, u
<1> QED BY <1>3, <1>4, <1>5 DEF u

LEMMA OrderedAppend ==
  \A T, R : \A s \in Seq(T), e \in T :
    Ordered(Append(s, e), R) <=> Ordered(s, R) /\ \A x \in Members(s) : <<x, e>> \in R
<1> TAKE T, R
<1> TAKE s \in Seq(T), e \in T
<1> DEFINE t == Append(s, e)
           n == Len(s)
<1>1. /\ DOMAIN t = 1 .. n + 1 /\ t[n + 1] = e /\ n \in Nat /\ DOMAIN s = 1 .. n
      /\ \A i \in 1 .. n : s[i] = t[i]
  BY AppendProperties, LenProperties
<1> HIDE DEF t, n
<1>2. Ordered(t, R) => Ordered(s, R) /\ \A x \in Members(s) : <<x, e>> \in R
  <2> SUFFICES ASSUME Ordered(t, R)
               PROVE  Ordered(s, R) /\ \A x \in Members(s) : <<x, e>> \in R
    OBVIOUS
  <2>1. ASSUME NEW i \in 1 .. n, NEW j \in 1 .. n + 1, i < j
        PROVE  <<s[i], t[j]>> \in R
    BY <1>1, <2>1 DEF Ordered
  <2>2. Ordered(s, R)
    BY <1>1, <2>1 DEF Ordered
  <2>3. \A i \in 1 .. n : <<s[i], e>> \in R
    BY <1>1, <2>1
  <2> QED BY <1>1, <2>2, <2>3 DEF Members
<1>3. ASSUME Ordered(s, R), \A x \in Members(s) : <<x, e>> \in R,
             NEW i \in DOMAIN t, NEW j \in DOMAIN t, i < j
      PROVE  <<t[i], t[j]>> \in R
  <2>1. i \in 1 .. n /\ t[i] = s[i] /\ s[i] \in Members(s)
    BY <1>1, <1>3 DEF Members
  <2>2. CASE j = n + 1
    BY <1>1, <1>3, <2>1, <2>2
  <2>3. CASE j \in 1 .. n
    BY <1>1, <1>3, <2>1, <2>3 DEF Ordered
  <2> QED BY <1>1, <2>2, <2>3
<1>4. Ordered(s, R) /\ (\A x \in Members(s) : <<x, e>> \in R) => Ordered(t, R)
  BY <1>3 DEF Ordered
<1> QED BY <1>2, <1>4 DEF t

LEMMA KeepMembers ==
  \A T, S : \A s \in Seq(T) : Members(Keep(s, S)) = Members(s) \cap S
<1> TAKE T, S
<1> TAKE s \in Seq(T)
<1> DEFINE G == {r \in Seq(T) : Members(Keep(r, S)) = Members(r) \cap S}
<1>1. <<>> \in G
  <2>1. Members(<<>>) = {}
    BY DEF Members
  <2> QED BY <2>1, KeepEmpty, EmptySeq
<1>2. ASSUME NEW r \in Seq(T), NEW e \in T, r \in G PROVE Append(r, e) \in G
  <2> DEFINE k == Keep(r, S)
             a == Append(r, e)
  <2>1. Keep(a, S) = IF e \in S THEN Append(k, e) ELSE k
    BY KeepAppend
  <2>2. k \in Seq(T)
    <3>1. k \in Seq(T \cap S)
      BY KeepType
    <3> HIDE DEF k
    <3> QED BY <3>1, SeqMonotonic
  <2>3. a \in Seq(T) /\ Members(a) = Members(r) \cup {e}
    BY MembersAppend, AppendProperties
  <2>4. Members(k) = Members(r) \cap S
    BY <1>2
  <2> HIDE DEF k, a
  <2>5. Members(Append(k, e)) = Members(k) \cup {e}
    BY <2>2, MembersAppend
  <2>6. Members(Keep(a, S)) = Members(a) \cap S
    BY <2>1, <2>3, <2>4, <2>5
  <2> QED BY <2>3, <2>6 DEF a
<1> HIDE DEF G
<1>3. s \in G
  BY <1>1, <1>2, SequencesInduct
<1> QED BY <1>3 DEF G

LEMMA KeepOrdered ==
  \A T, S, R : \A s \in Seq(T) : Ordered(s, R) => Ordered(Keep(s, S), R)
<1> TAKE T, S, R
<1> TAKE s \in Seq(T)
<1> DEFINE G == {r \in Seq(T) : Ordered(r, R) => Ordered(Keep(r, S), R)}
<1>1. <<>> \in G
  BY KeepEmpty, EmptySeq
<1>2. ASSUME NEW r \in Seq(T), NEW e \in T, r \in G PROVE Append(r, e) \in G
  <2> DEFINE k == Keep(r, S)
             a == Append(r, e)
  <2>1. Keep(a, S) = IF e \in S THEN Append(k, e) ELSE k
    BY KeepAppend
  <2>2. k \in Seq(T)
    <3>1. k \in Seq(T \cap S)
      BY KeepType
    <3> HIDE DEF k
    <3> QED BY <3>1, SeqMonotonic
  <2>3. Ordered(a, R) <=> Ordered(r, R) /\ \A x \in Members(r) : <<x, e>> \in R
    BY OrderedAppend
  <2>4. Members(k) = Members(r) \cap S /\ (Ordered(r, R) => Ordered(k, R))
    BY <1>2, KeepMembers
  <2>5. a \in Seq(T)
    BY AppendProperties
  <2> HIDE DEF k, a
  <2>6. Ordered(Append(k, e), R) <=> Ordered(k, R) /\ \A x \in Members(k) : <<x, e>> \in R
    BY <2>2, OrderedAppend
  <2>7. Ordered(a, R) => Ordered(Keep(a, S), R)
    BY <2>1, <2>3, <2>4, <2>6
  <2> QED BY <2>5, <2>7 DEF a
<1> HIDE DEF G
<1>3. s \in G
  BY <1>1, <1>2, SequencesInduct
<1> QED BY <1>3 DEF G

------------------------------------------------------------------------------
(* Concatenation under a name of its own: the lemmas about it are then cited *)
(* for what they say of it, whatever its members are.                        *)
Join(s, t) == s \o t

LEMMA JoinType == \A T : \A s, t \in Seq(T) : Join(s, t) \in Seq(T)
BY DEF Join

LEMMA JoinAssociative == \A T : \A s, t, u \in Seq(T) : Join(Join(s, t), u) = Join(s, Join(t, u))
BY ConcatAssociative DEF Join

LEMMA JoinEmpty == \A T : \A s \in Seq(T) : Join(s, <<>>) = s /\ Join(<<>>, s) = s
BY ConcatEmptySeq DEF Join

LEMMA JoinAppend ==
  \A T : \A s, t \in Seq(T), e \in T : Join(s, Append(t, e)) = Append(Join(s, t), e)
BY DEF Join

LEMMA KeepJoin == \A T, S : \A s, t \in Seq(T) : Keep(Join(s, t), S) = Join(Keep(s, S), Keep(t, S))
BY KeepConcat DEF Join

LEMMA KeepIn == \A T, S : \A s \in Seq(T) : Keep(s, S) \in Seq(S)
<1> TAKE T, S
<1> TAKE s \in Seq(T)
<1>1. Keep(s, S) \in Seq(T \cap S)
  BY KeepType
<1> QED BY <1>1, SeqMonotonic

(* What is kept of three sequences in a row.                                 *)
LEMMA KeepThree ==
  ASSUME NEW T, NEW S, NEW d \in Seq(T), NEW b \in Seq(T), NEW q \in Seq(T)
  PROVE  Keep(Join(Join(d, b), q), S) = Join(Keep(d, S), Join(Keep(b, S), Keep(q, S)))
<1>1. Join(d, b) \in Seq(T)
  BY JoinType
<1>2. Keep(Join(Join(d, b), q), S) = Join(Join(Keep(d, S), Keep(b, S)), Keep(q, S))
  BY <1>1, KeepJoin
<1>3. Keep(d, S) \in Seq(S) /\ Keep(b, S) \in Seq(S) /\ Keep(q, S) \in Seq(S)
  BY KeepIn
<1> QED BY <1>2, <1>3, JoinAssociative

(* What is not of the set makes no difference to what is kept.               *)
LEMMA KeepSkips ==
  ASSUME NEW T, NEW R, NEW S, R \cap S = {}, NEW d \in Seq(T), NEW m \in Seq(T), m \in Seq(R)
  PROVE  Keep(Join(d, m), S) = Keep(d, S)
<1>1. Keep(m, S) = <<>>
  BY KeepNone
<1>2. Keep(d, S) \in Seq(S)
  BY KeepIn
<1> QED BY <1>1, <1>2, KeepJoin, JoinEmpty

(* What is handed out out of turn, what stays and what is lost.              *)
LEMMA KeepMoved ==
  ASSUME NEW T, NEW S, NEW d \in Seq(T), NEW m \in Seq(T), NEW s \in Seq(T), NEW x \in Seq(T)
  PROVE  Join(Keep(d, S), Join(Keep(m, S), Keep(Join(s, x), S)))
           = Join(Keep(Join(Join(d, m), s), S), Keep(x, S))
<1> DEFINE D == Keep(d, S)
           M == Keep(m, S)
           P == Keep(s, S)
           X == Keep(x, S)
<1>1. D \in Seq(S) /\ M \in Seq(S) /\ P \in Seq(S) /\ X \in Seq(S)
  BY KeepIn
<1>2. Keep(Join(s, x), S) = Join(P, X)
  BY KeepJoin
<1>3. Keep(Join(Join(d, m), s), S) = Join(Join(D, M), P)
  BY JoinType, KeepJoin
<1> HIDE DEF D, M, P, X
<1>4. Join(D, Join(M, Join(P, X))) = Join(Join(Join(D, M), P), X)
  BY <1>1, JoinAssociative, JoinType
<1> QED BY <1>2, <1>3, <1>4 DEF D, M, X
------------------------------------------------------------------------------
(* Sums over the numbers of a set.                                           *)

(* A run of the loop of Total.                                               *)
Summing(F, f, S, n) ==
  F = [k \in 0 .. n |->
         IF k = 0 THEN 0 ELSE IF k \in S THEN F[k - 1] + f[k] ELSE F[k - 1]]

LEMMA SummingExists ==
  ASSUME NEW f, NEW S, NEW n \in Nat
  PROVE  \E F : Summing(F, f, S, n)
<1> DEFINE G == {m \in Nat : \E F : Summing(F, f, S, m)}
<1>1. 0 \in G
  <2> DEFINE F == [k \in 0 .. 0 |-> 0]
  <2>1. Summing(F, f, S, 0)
    BY DEF Summing
  <2> QED BY <2>1
<1>2. ASSUME NEW m \in G PROVE m + 1 \in G
  <2>1. PICK F : Summing(F, f, S, m)
    OBVIOUS
  <2> DEFINE H == [k \in 0 .. m + 1 |->
                     IF k <= m THEN F[k] ELSE IF k \in S THEN F[k - 1] + f[k] ELSE F[k - 1]]
  <2>2. \A k \in 0 .. m : H[k] = F[k]
    OBVIOUS
  <2>3. \A k \in 0 .. m : F[k] = IF k = 0 THEN 0
         ELSE IF k \in S THEN F[k - 1] + f[k] ELSE F[k - 1]
    BY <2>1 DEF Summing
  <2>4. ASSUME NEW k \in 0 .. m + 1
        PROVE  H[k] = IF k = 0 THEN 0 ELSE IF k \in S THEN H[k - 1] + f[k] ELSE H[k - 1]
    <3>1. CASE k = 0
      BY <2>2, <2>3, <3>1
    <3>2. CASE k \in 1 .. m
      <4>1. k - 1 \in 0 .. m /\ k \in 0 .. m /\ k # 0
        BY <3>2
      <4>2. H[k - 1] = F[k - 1] /\ H[k] = F[k]
        BY <2>2, <4>1
      <4> HIDE DEF H
      <4> QED BY <2>3, <4>1, <4>2
    <3>3. CASE k = m + 1
      <4>1. k - 1 \in 0 .. m /\ k # 0 /\ ~(k <= m)
        BY <3>3
      <4>2. H[k - 1] = F[k - 1]
        BY <2>2, <4>1
      <4>3. H[k] = IF k \in S THEN F[k - 1] + f[k] ELSE F[k - 1]
        BY <4>1
      <4> HIDE DEF H
      <4> QED BY <4>1, <4>2, <4>3
    <3> QED BY <3>1, <3>2, <3>3
  <2>5. Summing(H, f, S, m + 1)
    <3>1. H = [k \in 0 .. m + 1 |-> H[k]]
      OBVIOUS
    <3> HIDE DEF H
    <3> QED BY <2>4, <3>1 DEF Summing
  <2> QED BY <2>5
<1>3. G \subseteq Nat
  OBVIOUS
<1> HIDE DEF G
<1>4. n \in G
  BY <1>1, <1>2, <1>3, NumbersInduct
<1> QED BY <1>4 DEF G

LEMMA TotalIsASum ==
  ASSUME NEW f, NEW S, NEW n \in Nat
  PROVE  \E F : /\ \A k \in 0 .. n : F[k] = IF k = 0 THEN 0
                     ELSE IF k \in S THEN F[k - 1] + f[k] ELSE F[k - 1]
                /\ Total(f, S, n) = F[n]
<1>1. Total(f, S, n) = (CHOOSE F : Summing(F, f, S, n))[n]
  BY Zenon DEF Total, Summing
<1>2. \E F : Summing(F, f, S, n)
  BY SummingExists
<1>3. PICK F : Summing(F, f, S, n) /\ Total(f, S, n) = F[n]
  BY <1>1, <1>2
<1>4. \A k \in 0 .. n : F[k] = IF k = 0 THEN 0
         ELSE IF k \in S THEN F[k - 1] + f[k] ELSE F[k - 1]
  BY <1>3 DEF Summing
<1> QED BY <1>3, <1>4

(* More numbers have no smaller sum.                                         *)
LEMMA TotalGrows ==
  ASSUME NEW n \in Nat, NEW f, NEW g, NEW S, NEW R, S \subseteq R,
         \A k \in 1 .. n : g[k] \in Nat /\ (k \in S => f[k] = g[k])
  PROVE  Total(f, S, n) \in Nat /\ Total(g, R, n) \in Nat /\ Total(f, S, n) <= Total(g, R, n)
<1>1. PICK F : /\ \A k \in 0 .. n : F[k] = IF k = 0 THEN 0
                    ELSE IF k \in S THEN F[k - 1] + f[k] ELSE F[k - 1]
               /\ Total(f, S, n) = F[n]
  BY TotalIsASum
<1>2. PICK H : /\ \A k \in 0 .. n : H[k] = IF k = 0 THEN 0
                    ELSE IF k \in R THEN H[k - 1] + g[k] ELSE H[k - 1]
               /\ Total(g, R, n) = H[n]
  BY TotalIsASum
<1> DEFINE G == {i \in Nat : i <= n => F[i] \in Nat /\ H[i] \in Nat /\ F[i] <= H[i]}
<1>3. 0 \in G
  BY <1>1, <1>2
<1>4. ASSUME NEW i \in G PROVE i + 1 \in G
  <2> SUFFICES ASSUME i + 1 <= n
               PROVE  F[i + 1] \in Nat /\ H[i + 1] \in Nat /\ F[i + 1] <= H[i + 1]
    OBVIOUS
  <2>1. i + 1 \in 0 .. n /\ i + 1 \in 1 .. n /\ i + 1 # 0 /\ (i + 1) - 1 = i
    OBVIOUS
  <2>2. F[i] \in Nat /\ H[i] \in Nat /\ F[i] <= H[i]
    BY <2>1
  <2>3. F[i + 1] = IF i + 1 \in S THEN F[i] + f[i + 1] ELSE F[i]
    BY <1>1, <2>1
  <2>4. H[i + 1] = IF i + 1 \in R THEN H[i] + g[i + 1] ELSE H[i]
    BY <1>2, <2>1
  <2>5. g[i + 1] \in Nat /\ (i + 1 \in S => f[i + 1] = g[i + 1] /\ i + 1 \in R)
    BY <2>1
  <2> QED BY <2>2, <2>3, <2>4, <2>5
<1>5. G \subseteq Nat
  OBVIOUS
<1> HIDE DEF G
<1>6. n \in G
  BY <1>3, <1>4, <1>5, NumbersInduct
<1> QED BY <1>1, <1>2, <1>6 DEF G

(* Nothing sums up to nothing.                                               *)
LEMMA TotalOfNone == \A n \in Nat : \A f : Total(f, {}, n) = 0
<1> TAKE n \in Nat
<1> TAKE f
<1>1. PICK F : /\ \A k \in 0 .. n : F[k] = IF k = 0 THEN 0
                    ELSE IF k \in {} THEN F[k - 1] + f[k] ELSE F[k - 1]
               /\ Total(f, {}, n) = F[n]
  BY TotalIsASum
<1> DEFINE G == {i \in Nat : i <= n => F[i] = 0}
<1>2. 0 \in G
  BY <1>1
<1>3. ASSUME NEW i \in G PROVE i + 1 \in G
  <2> SUFFICES ASSUME i + 1 <= n PROVE F[i + 1] = 0
    OBVIOUS
  <2>1. i + 1 \in 0 .. n /\ i + 1 # 0 /\ (i + 1) - 1 = i
    OBVIOUS
  <2> QED BY <1>1, <2>1
<1>4. G \subseteq Nat
  OBVIOUS
<1> HIDE DEF G
<1>5. n \in G
  BY <1>2, <1>3, <1>4, NumbersInduct
<1> QED BY <1>1, <1>5 DEF G
==============================================================================
