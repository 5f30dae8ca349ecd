-------------------------- MODULE FinalAnswer_proofs --------------------------
(***************************************************************************)
(* What holds of a turn's final answer for every set of messages, chunks   *)
(* and texts, every bound on candidates and buffers, and every number of   *)
(* events: types and bounds, that a turn succeeds only on an undisputed    *)
(* answer, that what is decided does not depend on the order of the        *)
(* sources, and that the best source wins.                                 *)
(***************************************************************************)
EXTENDS FinalAnswer, FiniteSetTheorems, SequenceTheorems, WellFoundedInduction, TLAPS

(* Where the run of the turn is bounds what is left to do in it, and a       *)
(* success is a judged one.                                                  *)
PhaseInv ==
  /\ phase \in {"start", "recover", "done"} => todo = <<>>
  /\ phase \in {"start", "started", "turn", "late"} => attempts = 0
  /\ phase = "recover" => attempts < MaxAttempts
  /\ phase \in {"recover", "read"} => observed = "completed"
  /\ Succeeded => observed = "completed" /\ Undisputed(result)

(* Candidates come from payloads and threads; a raw item names no message.   *)
SourceInv ==
  /\ \A i \in DOMAIN todo : todo[i].rank \in {TurnPayload, ThreadRead}
  /\ \A e \in seen : e.rank = RawCompleted <=> e.item = NoItem

TypeInv == TypeOK /\ PhaseInv /\ SourceInv

(* The rest relates a result r to the texts S told so far.                   *)
TextsIn(S, rank) == {e.text : e \in {f \in S : f.rank = rank}}
Told1(x, text, rank) == [item |-> x, text |-> text, rank |-> rank]

(* While nothing is ambiguous, the table of items says of each message the   *)
(* best that was told of it, all agree, and the raw texts are those told.    *)
Recorded(r, e) ==
  /\ r.item[e.item].rank \in 1 .. e.rank
  /\ r.item[e.item].rank = e.rank => r.item[e.item].text = e.text

Witnessed(r, S) ==
  /\ \A x \in Told(r) : Told1(x, r.item[x].text, r.item[x].rank) \in S
  /\ r.raws \subseteq TextsIn(S, RawCompleted)

Complete(r, S) ==
  /\ \A e \in S : e.item # NoItem => Recorded(r, e)
  /\ ~Disputed(r)
  /\ \A u, v \in r.raws : u = v
  /\ TextsIn(S, RawCompleted) \subseteq r.raws
  /\ r.evidence => S # {}

Agrees(r, S) == Witnessed(r, S) /\ (r.ambiguity = "none" => Complete(r, S))

(* What an ambiguity says happened, while only completions and raw items     *)
(* have come.                                                                *)
Early(S) == TextsIn(S, TurnPayload) = {} /\ TextsIn(S, ThreadRead) = {}
TwoTexts(S, rank) == \E u, v \in TextsIn(S, rank) : u # v

Reasoned(r, S) ==
  Early(S) => /\ r.ambiguity = "MULTIPLE_FINAL" => TwoTexts(S, ItemCompleted)
              /\ r.ambiguity = "MULTIPLE_RAW" => TwoTexts(S, RawCompleted)

(* Once a text is told, streaming is over for what is selected, if the       *)
(* server keeps its order.                                                   *)
Quiet(S) == TextsIn(S, RawCompleted) # {} /\ TextsIn(S, ItemCompleted) = {}

Sealed(r) ==
  \A x \in Told(r) : r.item[x].class = "final" /\ r.item[x].buffer = <<>>

Frozen(r, S) ==
  r.ambiguity = "none" =>
    /\ r.source = 0 <=> S = {}
    /\ S # {} => r.id \in Told(r) \/ Quiet(S)

(* The selected source is the best one told, with one message to tell; and   *)
(* with completions alone, the first message is canonical.                   *)
OneTeller(S) == \A e, f \in S : e.item # NoItem /\ f.item # NoItem => e.item = f.item

Best(r, S) ==
  r.ambiguity = "none" /\ S # {} /\ OneTeller(S) =>
    r.text \in TextsIn(S, r.source) /\ \A e \in S : r.source <= e.rank

First(r, S) ==
  r.ambiguity = "none" /\ Early(S) /\ TextsIn(S, ItemCompleted) # {} =>
    /\ r.text \in TextsIn(S, ItemCompleted)
    /\ r.id = Least(Told(r))
    /\ r.source = ItemCompleted

AnswerInv ==
  /\ IsFiniteSet(seen)
  /\ Agrees(result, seen) /\ Reasoned(result, seen)
  /\ ordered => /\ Sealed(result) /\ Frozen(result, seen)
                /\ Best(result, seen) /\ First(result, seen)
------------------------------------------------------------------------------
(* What the reconciliation does to a result.                                 *)

Reasons == {"LIMIT", "MULTIPLE_FINAL", "MULTIPLE_RAW"}

Results == [item : [Items -> ItemStates], text : Seq(Chunks),
            id : Items \cup {NoItem}, source : Ranks \cup {0},
            evidence : BOOLEAN, reconciled : BOOLEAN,
            ambiguity : {"none"} \cup Reasons,
            raws : SUBSET Texts, retained : 0 .. CandidateCap]

(* Whether a result has reserved another candidate, and which entries of its *)
(* table differ from those of another.                                       *)
SameCount(q, r) == q.retained = r.retained
OneMore(q, r) == q.retained = r.retained + 1
Changes(q, r, x) == \A y \in Items \ {x} : q.item[y] = r.item[y]

(* The fields of a result, one by one.                                       *)
LEMMA Fields ==
  ASSUME NEW r \in Results
  PROVE  /\ r.item \in [Items -> ItemStates] /\ r.text \in Seq(Chunks)
         /\ r.id \in Items \cup {NoItem} /\ r.source \in Ranks \cup {0}
         /\ r.evidence \in BOOLEAN /\ r.reconciled \in BOOLEAN
         /\ r.ambiguity \in {"none"} \cup Reasons
         /\ r.raws \in SUBSET Texts /\ r.retained \in 0 .. CandidateCap
BY DEF Results

LEMMA States ==
  ASSUME NEW r \in Results, NEW x \in Items
  PROVE  /\ r.item[x] \in ItemStates
         /\ r.item[x].class \in {"absent", "prestart", "open", "commentary", "final"}
         /\ r.item[x].buffer \in Seq(Chunks) /\ r.item[x].text \in Texts \cup {<<>>}
         /\ r.item[x].rank \in Ranks \cup {0}
BY Fields DEF ItemStates

LEMMA AbsentIsState == Absent \in ItemStates
<1>1. <<>> \in Seq(Chunks)
  OBVIOUS
<1> QED BY <1>1 DEF Absent, ItemStates

LEMMA MarkFacts ==
  ASSUME NEW r \in Results, NEW reason \in Reasons,
         NEW q, q = MarkFailure(r, reason)
  PROVE  /\ q \in Results
         /\ q.item = r.item /\ q.ambiguity = reason
         /\ q.raws = r.raws /\ SameCount(q, r)
<1>1. <<>> \in Seq(Chunks)
  OBVIOUS
<1> QED BY <1>1 DEF MarkFailure, Results, SameCount

(* Selecting and streaming leave the table and the ambiguity alone.          *)
SameTable(q, r) ==
  /\ q.item = r.item /\ q.ambiguity = r.ambiguity
  /\ q.raws = r.raws /\ SameCount(q, r)

(* All but the table and its count.                                          *)
SameChoice(q, r) ==
  /\ q.text = r.text /\ q.id = r.id /\ q.source = r.source
  /\ q.evidence = r.evidence /\ q.reconciled = r.reconciled
  /\ q.ambiguity = r.ambiguity /\ q.raws = r.raws

LEMMA SelectFacts ==
  ASSUME NEW r \in Results, NEW x \in Items \cup {NoItem}, NEW text \in Seq(Chunks),
         NEW rank \in Ranks, NEW q, q = Select(r, x, text, rank)
  PROVE  /\ q \in Results /\ SameTable(q, r)
         /\ r.ambiguity # "none" \/ Outranked(r, rank) => q = r
         /\ r.ambiguity = "none" /\ ~Outranked(r, rank) =>
              /\ q.text = text /\ q.source = rank /\ q.evidence
              /\ x = NoItem => q.id = r.id
              /\ x # NoItem => q.id = x
<1>1. CASE r.ambiguity # "none" \/ Outranked(r, rank)
  BY <1>1 DEF Select, SameTable, SameCount
<1>2. CASE ~(r.ambiguity # "none" \/ Outranked(r, rank))
  <2>1. q = [r EXCEPT !.evidence = TRUE, !.reconciled = TRUE, !.text = text,
                      !.source = rank, !.id = IF x = NoItem THEN r.id ELSE x]
    BY <1>2 DEF Select
  <2> QED BY <1>2, <2>1 DEF Results, SameTable, SameCount
<1> QED BY <1>1, <1>2

LEMMA StreamFacts ==
  ASSUME NEW r \in Results, NEW x \in Items, NEW s \in Seq(Chunks),
         NEW q, q = Stream(r, x, s)
  PROVE  /\ q \in Results /\ SameTable(q, r)
         /\ q.source = r.source /\ q.evidence = r.evidence
         /\ s = <<>> \/ r.id \notin {NoItem, x} => q = r
         /\ q = r \/ q.id = x
<1>1. CASE s # <<>> /\ r.id \in {NoItem, x}
  <2>1. q = [r EXCEPT !.id = x, !.text = r.text \o s] /\ r.text \o s \in Seq(Chunks)
    BY <1>1, Fields DEF Stream
  <2> QED BY <1>1, <2>1 DEF Results, SameTable, SameCount
<1>2. CASE ~(s # <<>> /\ r.id \in {NoItem, x})
  BY <1>2 DEF Stream, SameTable, SameCount
<1> QED BY <1>1, <1>2

Finalized(state) == [state EXCEPT !.class = "final"]

LEMMA ReserveFacts ==
  ASSUME NEW r \in Results, NEW x \in Items, NEW q, q = Reserve(r, x)
  PROVE  /\ q \in Results
         /\ r.item[x].class = "final" => q = r
         /\ Rejected(r, x) =>
              /\ q.ambiguity = "LIMIT" /\ q.raws = r.raws /\ SameCount(q, r)
              /\ q.item = [r.item EXCEPT ![x] = Absent]
         /\ ~Rejected(r, x) =>
              /\ SameChoice(q, r)
              /\ q.item = [r.item EXCEPT ![x] = Finalized(r.item[x])]
         /\ ~Rejected(r, x) /\ r.item[x].class # "final" => OneMore(q, r)
<1>1. CASE r.item[x].class = "final"
  <2>1. q = r /\ ~Rejected(r, x)
    BY <1>1 DEF Reserve, Rejected
  <2>2. r.item[x] = Finalized(r.item[x])
    BY <1>1, States DEF ItemStates, Finalized
  <2>3. r.item = [r.item EXCEPT ![x] = r.item[x]]
    BY Fields
  <2> QED BY <1>1, <2>1, <2>2, <2>3, Fields DEF SameChoice
<1>2. CASE r.item[x].class # "final" /\ Rejected(r, x)
  <2>1. q = MarkFailure([r EXCEPT !.item[x] = Absent], "LIMIT")
    BY <1>2 DEF Reserve
  <2>2. PICK p : p = [r EXCEPT !.item[x] = Absent]
    OBVIOUS
  <2>3. p = [r EXCEPT !.item = [r.item EXCEPT ![x] = Absent], !.retained = r.retained]
    BY <2>2 DEF Results
  <2>4. p \in Results /\ SameChoice(p, r) /\ SameCount(p, r)
          /\ p.item = [r.item EXCEPT ![x] = Absent]
    <3>1. r.retained \in 0 .. CandidateCap
      BY Fields
    <3> QED BY <2>3, <3>1, AbsentIsState, Fields DEF Results, SameChoice, SameCount
  <2>5. q = MarkFailure(p, "LIMIT")
    BY <2>1, <2>2
  <2>6. "LIMIT" \in Reasons
    BY DEF Reasons
  <2> QED BY <1>2, <2>4, <2>5, <2>6, MarkFacts DEF SameChoice, SameCount
<1>3. CASE r.item[x].class # "final" /\ ~Rejected(r, x)
  <2>1. q = [r EXCEPT !.item[x].class = "final", !.retained = @ + 1]
    BY <1>3 DEF Reserve
  <2>2. PICK entry : entry = Finalized(r.item[x])
    OBVIOUS
  <2>3. entry \in ItemStates
    BY <2>2, States DEF ItemStates, Finalized
  <2>4. PICK n : n = r.retained + 1
    OBVIOUS
  <2>5. n \in 0 .. CandidateCap
    BY <1>3, <2>4, Fields, FinalAssumption DEF Rejected
  <2>7. q = [r EXCEPT !.item = [r.item EXCEPT ![x] = entry], !.retained = n]
    BY <2>1, <2>2, <2>4 DEF Results, Finalized
  <2>6. /\ q \in Results /\ SameChoice(q, r) /\ q.retained = n
        /\ q.item = [r.item EXCEPT ![x] = entry]
    <3>1. q.retained = n /\ q.item = [r.item EXCEPT ![x] = entry]
      BY <2>7 DEF Results
    <3>2. SameChoice(q, r)
      BY <2>7 DEF Results, SameChoice
    <3>3. [r.item EXCEPT ![x] = entry] \in [Items -> ItemStates]
      BY <2>3, Fields
    <3>4. q \in Results
      BY <2>5, <2>7, <3>3 DEF Results
    <3> QED BY <3>1, <3>2, <3>4
  <2> QED BY <1>3, <2>2, <2>4, <2>6 DEF OneMore
<1> QED BY <1>1, <1>2, <1>3

(* A set of numbers has a least one.                                         *)
LEMMA LeastIsLeast ==
  ASSUME NEW S \in SUBSET Nat, S # {}
  PROVE  Least(S) \in S /\ \A y \in S : Least(S) <= y
<1> DEFINE Below(n) == {y \in S : y <= n}
           Family == {Below(n) : n \in S}
<1>1. \A n \in S : Below(n) \in SUBSET Nat /\ IsFiniteSet(Below(n))
  BY FS_BoundedSetOfNaturals
<1>2. Family \subseteq FiniteSubsetsOf(Nat) /\ Family # {}
  BY <1>1 DEF FiniteSubsetsOf
<1>3. PICK L \in Family : \A M \in Family : <<M, L>> \notin StrictSubsetOrdering(Nat)
  <2> HIDE DEF Family
  <2> QED BY <1>2, FS_StrictSubsetOrderingWellFounded, WFMin
<1>4. PICK x \in S : L = Below(x)
  BY <1>3
<1>5. ASSUME NEW y \in S, y < x
      PROVE  FALSE
  <2>1. Below(y) \subseteq Below(x) /\ x \in Below(x) /\ x \notin Below(y)
    <3>1. S \subseteq Nat /\ x \in Nat /\ y \in Nat /\ x <= x /\ ~(x <= y)
      BY <1>5
    <3>2. \A z \in S : z <= y => z <= x
      BY <1>5, <3>1
    <3> QED BY <3>1, <3>2
  <2>2. <<Below(y), Below(x)>> \in StrictSubsetOrdering(Nat)
    <3>1. Below(y) \in SUBSET Nat /\ Below(x) \in SUBSET Nat
      BY <1>1
    <3>2. Below(y) # Below(x)
      BY <2>1
    <3> HIDE DEF Below
    <3> QED BY <2>1, <3>1, <3>2 DEF StrictSubsetOrdering
  <2> QED BY <1>3, <1>4, <2>2
<1>6. x \in S /\ \A y \in S : x <= y
  BY <1>5
<1> QED BY <1>6 DEF Least

LEMMA ToldIsItems ==
  ASSUME NEW r \in Results
  PROVE  /\ Told(r) \in SUBSET Nat /\ IsFiniteSet(Told(r)) /\ Told(r) \subseteq Items
         /\ Told(r) # {} => Least(Told(r)) \in Told(r)
<1>1. Told(r) \in SUBSET Nat /\ Told(r) \in SUBSET Items
  BY FinalAssumption DEF Told
<1> QED BY <1>1, LeastIsLeast, FS_Subset, FinalAssumption

(* What of the candidates in place is chosen.                                *)
Chosen(q, p, x, text, rank) ==
  /\ Disputed(p) => q.ambiguity = "MULTIPLE_FINAL"
  /\ ~Disputed(p) /\ Told(p) # {x} =>
       /\ q.ambiguity = p.ambiguity /\ q.evidence /\ q.id = Least(Told(p))
       /\ q.text = p.text /\ q.source = p.source
  /\ ~Disputed(p) /\ Told(p) = {x} => q = Select(p, x, text, rank)

LEMMA ReconcileFacts ==
  ASSUME NEW r \in Results, NEW x \in Told(r), NEW text \in Seq(Chunks),
         NEW rank \in Ranks, NEW q, q = Reconcile(r, x, text, rank)
  PROVE  /\ q \in Results /\ q.item = r.item /\ q.raws = r.raws /\ SameCount(q, r)
         /\ Chosen(q, r, x, text, rank)
<1>0. x \in Items \cup {NoItem} /\ Least(Told(r)) \in Items \cup {NoItem}
  BY ToldIsItems
<1>1. CASE Disputed(r)
  <2>1. q = MarkFailure(r, "MULTIPLE_FINAL") /\ "MULTIPLE_FINAL" \in Reasons
    BY <1>1 DEF Reconcile, Reasons
  <2> QED BY <1>1, <2>1, MarkFacts DEF Chosen
<1>2. CASE ~Disputed(r) /\ Told(r) # {x}
  <2>1. q = [r EXCEPT !.evidence = TRUE, !.reconciled = TRUE, !.id = Least(Told(r))]
    BY <1>2 DEF Reconcile
  <2>2. q \in Results
    BY <1>0, <2>1 DEF Results
  <2>3. /\ q.item = r.item /\ q.raws = r.raws /\ SameCount(q, r)
        /\ q.ambiguity = r.ambiguity /\ q.evidence /\ q.id = Least(Told(r))
        /\ q.text = r.text /\ q.source = r.source
    BY <2>1 DEF Results, SameCount
  <2> QED BY <1>2, <2>2, <2>3 DEF Chosen
<1>3. CASE ~Disputed(r) /\ Told(r) = {x}
  <2>1. q = Select(r, x, text, rank)
    BY <1>3 DEF Reconcile
  <2>2. q \in Results /\ SameTable(q, r)
    BY <1>0, <2>1, SelectFacts
  <2> QED BY <1>3, <2>1, <2>2 DEF SameTable, Chosen
<1> QED BY <1>1, <1>2, <1>3

(* The entry of an item that has just been told.                             *)
Entry(text, rank) == [class |-> "final", buffer |-> <<>>, text |-> text, rank |-> rank]

LEMMA EntryIsState ==
  ASSUME NEW text \in Texts, NEW rank \in Ranks
  PROVE  Entry(text, rank) \in ItemStates
<1>1. <<>> \in Seq(Chunks)
  OBVIOUS
<1> QED BY <1>1 DEF Entry, ItemStates

(* Four things can come of an authoritative text: no room, a better source   *)
(* has told of the item, the same source has told another text, or it counts. *)
Skips(r, x, rank) == r.item[x].rank # 0 /\ rank > r.item[x].rank
Clashes(r, x, text, rank) == r.item[x].rank = rank /\ r.item[x].text # text
Counts(r, x, text, rank) ==
  ~Rejected(r, x) /\ ~Skips(r, x, rank) /\ ~Clashes(r, x, text, rank)

(* What then becomes of the result: it is found over the limit or in         *)
(* conflict, keeps what it had, or is reconciled with the new text in place.  *)
SameRaws(q, r)   == q.raws = r.raws
OverLimit(q, x)  == q.ambiguity = "LIMIT" /\ q.item[x] = Absent
InConflict(q)    == q.ambiguity = "MULTIPLE_FINAL"
KeepsText(q, r, x) == q.item[x] = Finalized(r.item[x])
Reconciled(q, r, x, text, rank) ==
  \E p \in Results : /\ SameChoice(p, r)
                     /\ p.item = [r.item EXCEPT ![x] = Entry(text, rank)]
                     /\ q = Reconcile(p, x, text, rank)
                     /\ q.item = p.item

LEMMA SetFacts ==
  ASSUME NEW r \in Results, NEW x \in Items, NEW text \in Texts,
         NEW rank \in Ranks, NEW q, q = SetAuthoritative(r, x, text, rank)
  PROVE  /\ q \in Results /\ SameRaws(q, r) /\ Changes(q, r, x)
         /\ SameCount(q, r) \/ OneMore(q, r)
         /\ q.item[x].class = "final" => r.item[x].class = "final" \/ OneMore(q, r)
         /\ Rejected(r, x) => OverLimit(q, x)
         /\ ~Rejected(r, x) /\ ~Counts(r, x, text, rank) => KeepsText(q, r, x)
         /\ ~Rejected(r, x) /\ Skips(r, x, rank) => SameChoice(q, r)
         /\ ~Rejected(r, x) /\ Clashes(r, x, text, rank) => InConflict(q)
         /\ Counts(r, x, text, rank) => Reconciled(q, r, x, text, rank)
<1>0. text \in Seq(Chunks) /\ "MULTIPLE_FINAL" \in Reasons
  BY FinalAssumption DEF Reasons
<1>1. PICK s : s = Reserve(r, x)
  OBVIOUS
<1>2. s \in Results
  BY <1>1, ReserveFacts
<1>3. CASE Rejected(r, x)
  <2>1. q = s
    BY <1>1, <1>3 DEF SetAuthoritative
  <2>2. /\ q.ambiguity = "LIMIT" /\ q.raws = r.raws /\ SameCount(q, r)
        /\ q.item = [r.item EXCEPT ![x] = Absent]
    BY <1>1, <1>3, <2>1, ReserveFacts
  <2>3. q.item[x] = Absent /\ Changes(q, r, x)
    BY <2>2, Fields DEF Changes
  <2>4. Absent.class # "final"
    BY DEF Absent
  <2> QED BY <1>2, <1>3, <2>1, <2>2, <2>3, <2>4 DEF Counts, SameRaws, OverLimit
<1>4. CASE ~Rejected(r, x)
  <2>0. r.item[x].class = "final" => s = r
    BY <1>1, ReserveFacts
  <2>1. /\ SameChoice(s, r)
        /\ s.item = [r.item EXCEPT ![x] = Finalized(r.item[x])]
        /\ r.item[x].class # "final" => OneMore(s, r)
    BY <1>1, <1>4, ReserveFacts
  <2>2. s.item[x] = Finalized(r.item[x])
          /\ Changes(s, r, x)
    BY <2>1, Fields DEF Changes
  <2>3. /\ SameCount(s, r) \/ OneMore(s, r)
        /\ r.item[x].class # "final" => OneMore(s, r)
    BY <2>0, <2>1 DEF SameCount
  <2>4. CASE Skips(r, x, rank)
    <3>1. q = s
      BY <1>1, <1>4, <2>4 DEF SetAuthoritative, Skips
    <3>2. ~Clashes(r, x, text, rank)
      BY <2>4, States DEF Skips, Clashes, Ranks
    <3> QED BY <1>2, <1>4, <2>1, <2>2, <2>3, <2>4, <3>1, <3>2
           DEF Counts, SameChoice, SameRaws, KeepsText
  <2>5. CASE ~Skips(r, x, rank) /\ Clashes(r, x, text, rank)
    <3>1. q = MarkFailure(s, "MULTIPLE_FINAL")
      BY <1>1, <1>4, <2>5 DEF SetAuthoritative, Skips, Clashes
    <3>2. /\ q \in Results /\ q.item = s.item /\ q.ambiguity = "MULTIPLE_FINAL"
          /\ q.raws = s.raws /\ SameCount(q, s)
      BY <1>0, <1>2, <3>1, MarkFacts
    <3>3. /\ SameCount(q, r) \/ OneMore(q, r)
          /\ r.item[x].class # "final" => OneMore(q, r)
      BY <2>3, <3>2 DEF SameCount, OneMore
    <3>4. Changes(q, r, x)
      BY <2>2, <3>2 DEF Changes
    <3> QED BY <1>4, <2>1, <2>2, <2>5, <3>2, <3>3, <3>4
           DEF Counts, SameChoice, SameRaws, KeepsText, InConflict
  <2>6. CASE Counts(r, x, text, rank)
    <3>1. PICK p : p = [s EXCEPT !.item[x] = Entry(text, rank)]
      OBVIOUS
    <3>2. q = Reconcile(p, x, text, rank)
      BY <1>1, <1>4, <2>6, <3>1 DEF SetAuthoritative, Skips, Clashes, Counts, Entry
    <3>3. [s.item EXCEPT ![x] = Entry(text, rank)] \in [Items -> ItemStates]
      BY <1>2, EntryIsState, Fields
    <3>4. p = [s EXCEPT !.item = [s.item EXCEPT ![x] = Entry(text, rank)]]
      BY <1>2, <3>1 DEF Results
    <3>5. p \in Results /\ p.item = [s.item EXCEPT ![x] = Entry(text, rank)]
            /\ SameCount(p, s)
      BY <1>2, <3>3, <3>4 DEF Results, SameCount
    <3>6. SameChoice(p, s)
      BY <1>2, <3>4 DEF Results, SameChoice
    <3>7. p.item = [r.item EXCEPT ![x] = Entry(text, rank)]
      BY <2>1, <3>5, Fields
    <3>8. SameChoice(p, r)
      BY <2>1, <3>6 DEF SameChoice
    <3>9. p.item[x] = Entry(text, rank) /\ Changes(p, r, x)
      BY <3>7, Fields DEF Changes
    <3>10. x \in Told(p)
      BY <3>9 DEF Told, Entry, Ranks, ItemCompleted, ThreadRead
    <3>11. q \in Results /\ q.item = p.item /\ q.raws = p.raws /\ SameCount(q, p)
      BY <1>0, <3>2, <3>5, <3>10, ReconcileFacts
    <3>12. /\ SameCount(q, r) \/ OneMore(q, r)
           /\ r.item[x].class # "final" => OneMore(q, r)
      BY <2>3, <3>5, <3>11 DEF SameCount, OneMore
    <3>13. Changes(q, r, x) /\ q.raws = r.raws
      BY <3>8, <3>9, <3>11 DEF Changes, SameChoice
    <3> QED BY <1>4, <2>6, <3>2, <3>5, <3>7, <3>8, <3>11, <3>12, <3>13
           DEF Counts, SameRaws, Reconciled
  <2> QED BY <1>4, <2>4, <2>5, <2>6 DEF Counts
<1> QED BY <1>3, <1>4

LEMMA RawFacts ==
  ASSUME NEW r \in Results, NEW text \in Texts, NEW q, q = SetRaw(r, text)
  PROVE  /\ q \in Results /\ q.item = r.item /\ SameCount(q, r)
         /\ r.raws = {} =>
              /\ q.raws = {text} /\ q.ambiguity = r.ambiguity
              /\ r.ambiguity # "none" \/ Outranked(r, RawCompleted) =>
                   /\ q.text = r.text /\ q.id = r.id /\ q.source = r.source
                   /\ q.evidence = r.evidence
              /\ r.ambiguity = "none" /\ ~Outranked(r, RawCompleted) =>
                   /\ q.text = text /\ q.id = r.id /\ q.source = RawCompleted
         /\ text \in r.raws => q = r
         /\ r.raws # {} /\ text \notin r.raws =>
              q.ambiguity = "MULTIPLE_RAW" /\ q.raws \subseteq r.raws \cup {text}
<1>0. /\ text \in Seq(Chunks) /\ NoItem \in Items \cup {NoItem} /\ RawCompleted \in Ranks
      /\ "MULTIPLE_RAW" \in Reasons
  BY FinalAssumption DEF Reasons, Ranks, RawCompleted, ItemCompleted, ThreadRead
<1>1. CASE r.raws = {}
  <2>1. PICK p : p = [r EXCEPT !.raws = {text}]
    OBVIOUS
  <2>2. q = Select(p, NoItem, text, RawCompleted)
    BY <1>1, <2>1 DEF SetRaw
  <2>3. p \in Results
    BY <2>1 DEF Results
  <2>4. /\ p.raws = {text} /\ p.item = r.item /\ p.text = r.text /\ p.id = r.id
        /\ p.source = r.source /\ p.evidence = r.evidence
        /\ p.ambiguity = r.ambiguity /\ SameCount(p, r)
    BY <2>1 DEF Results, SameCount
  <2>5. Outranked(p, RawCompleted) <=> Outranked(r, RawCompleted)
    BY <2>4 DEF Outranked
  <2>6. q \in Results /\ SameTable(q, p)
    BY <1>0, <2>2, <2>3, SelectFacts
  <2>7. p.ambiguity # "none" \/ Outranked(p, RawCompleted) => q = p
    BY SMTT(30), <1>0, <2>2, <2>3, SelectFacts
  <2>8. p.ambiguity = "none" /\ ~Outranked(p, RawCompleted) =>
          q.text = text /\ q.source = RawCompleted /\ q.id = p.id
    BY <1>0, <2>2, <2>3, SelectFacts
  <2> QED BY <1>1, <2>4, <2>5, <2>6, <2>7, <2>8 DEF SameTable, SameCount
<1>2. CASE text \in r.raws
  BY <1>2 DEF SetRaw, SameCount
<1>3. CASE r.raws # {} /\ text \notin r.raws
  <2>1. PICK p : p = [r EXCEPT !.raws = IF Cardinality(r.raws) = 1 THEN r.raws \cup {text}
                                                                  ELSE r.raws]
    OBVIOUS
  <2>2. q = MarkFailure(p, "MULTIPLE_RAW")
    BY <1>3, <2>1 DEF SetRaw
  <2>3. p \in Results /\ p.raws \subseteq r.raws \cup {text}
    BY <2>1, Fields DEF Results
  <2>4. p.item = r.item /\ SameCount(p, r)
    BY <2>1 DEF Results, SameCount
  <2>5. q \in Results /\ q.item = p.item /\ q.ambiguity = "MULTIPLE_RAW" /\ q.raws = p.raws
    BY <1>0, <2>2, <2>3, MarkFacts
  <2>6. SameCount(q, r)
    BY <1>0, <2>2, <2>3, <2>4, MarkFacts DEF SameCount
  <2> QED BY <1>3, <2>3, <2>4, <2>5, <2>6
<1> QED BY <1>1, <1>2, <1>3

(* What streaming can change besides the table: the text and the id.         *)
SameSource(q, r) ==
  /\ q.source = r.source /\ q.evidence = r.evidence
  /\ q.ambiguity = r.ambiguity /\ q.raws = r.raws

SameStream(q, r) == q.text = r.text /\ q.id = r.id

SameTold(q, r, x) ==
  q.item[x].rank = r.item[x].rank /\ q.item[x].text = r.item[x].text

LEMMA ClassifyFacts ==
  ASSUME NEW r \in Results, NEW x \in Items,
         NEW class \in {"final", "commentary", "open"}, NEW q, q = Classify(r, x, class)
  PROVE  /\ q \in Results /\ Changes(q, r, x) /\ SameRaws(q, r)
         /\ class # "final" =>
              /\ SameChoice(q, r) /\ SameTold(q, r, x) /\ SameCount(q, r)
              /\ q.item[x].class = class
              /\ q.item[x].buffer \in {r.item[x].buffer, <<>>}
         /\ class = "final" /\ Rejected(r, x) =>
              /\ q.ambiguity = "LIMIT" /\ q.item[x] = Absent /\ SameCount(q, r)
         /\ class = "final" /\ ~Rejected(r, x) =>
              /\ SameSource(q, r) /\ SameTold(q, r, x)
              /\ r.item[x].class = "final" => SameCount(q, r)
              /\ r.item[x].class # "final" => OneMore(q, r)
              /\ q.item[x].class = "final" /\ q.item[x].buffer = <<>>
              /\ r.item[x].buffer = <<>> \/ r.id \notin {NoItem, x} => SameStream(q, r)
<1>0. <<>> \in Seq(Chunks)
  OBVIOUS
<1>1. CASE class # "final"
  <2>1. PICK buffer : buffer = IF class = "open" THEN r.item[x].buffer ELSE <<>>
    OBVIOUS
  <2>2. PICK entry : entry = [r.item[x] EXCEPT !.class = class, !.buffer = buffer]
    OBVIOUS
  <2>3. /\ entry \in ItemStates /\ entry.class = class /\ entry.buffer = buffer
        /\ entry.rank = r.item[x].rank /\ entry.text = r.item[x].text
    BY <1>0, <2>1, <2>2, States DEF ItemStates
  <2>4. q = [r EXCEPT !.item = [r.item EXCEPT ![x] = entry]]
    <3>1. q = [r EXCEPT !.item[x].class = class,
                        !.item[x].buffer = IF class = "open" THEN @ ELSE <<>>]
      BY <1>1 DEF Classify
    <3> QED BY ZenonT(60), <2>1, <2>2, <3>1, States, Fields DEF Results, ItemStates
  <2>5. [r.item EXCEPT ![x] = entry] \in [Items -> ItemStates]
    BY <2>3, Fields
  <2>6. q \in Results
    BY <2>4, <2>5 DEF Results
  <2>7. SameChoice(q, r) /\ SameCount(q, r) /\ q.item = [r.item EXCEPT ![x] = entry]
    BY <2>4 DEF Results, SameChoice, SameCount
  <2>8. q.item[x] = entry /\ Changes(q, r, x)
    BY <2>7, Fields DEF Changes
  <2> QED BY <1>1, <2>1, <2>3, <2>6, <2>7, <2>8 DEF SameChoice, SameTold, SameRaws
<1>2. CASE class = "final" /\ Rejected(r, x)
  <2>1. q = Reserve(r, x)
    BY <1>2 DEF Classify
  <2>2. /\ q \in Results /\ q.ambiguity = "LIMIT" /\ q.raws = r.raws
        /\ SameCount(q, r) /\ q.item = [r.item EXCEPT ![x] = Absent]
    BY ZenonT(60), <1>2, <2>1, ReserveFacts
  <2> QED BY <1>2, <2>2, Fields DEF Changes, SameRaws
<1>3. CASE class = "final" /\ ~Rejected(r, x)
  <2>1. PICK s : s = Reserve(r, x)
    OBVIOUS
  <2>2. /\ s \in Results /\ SameChoice(s, r)
        /\ s.item = [r.item EXCEPT ![x] = Finalized(r.item[x])]
    BY <1>3, <2>1, ReserveFacts
  <2>3. /\ r.item[x].class = "final" => s = r
        /\ r.item[x].class # "final" => OneMore(s, r)
    BY ZenonT(60), <1>3, <2>1, ReserveFacts
  <2>4. PICK p : p = [s EXCEPT !.item[x].buffer = <<>>]
    OBVIOUS
  <2>5. q = Stream(p, x, r.item[x].buffer)
    BY <1>3, <2>1, <2>4 DEF Classify
  <2>6. PICK entry : entry = [Finalized(r.item[x]) EXCEPT !.buffer = <<>>]
    OBVIOUS
  <2>7. /\ entry \in ItemStates /\ entry.class = "final" /\ entry.buffer = <<>>
        /\ entry.rank = r.item[x].rank /\ entry.text = r.item[x].text
    BY <1>0, <2>6, States DEF ItemStates, Finalized
  <2>8. s.item[x] = Finalized(r.item[x]) /\ \A y \in Items \ {x} : s.item[y] = r.item[y]
    BY <2>2, Fields
  <2>9. p = [s EXCEPT !.item = [s.item EXCEPT ![x] = entry]]
    BY <2>2, <2>4, <2>6, <2>8 DEF Results
  <2>10. [s.item EXCEPT ![x] = entry] \in [Items -> ItemStates]
    BY <2>2, <2>7, Fields
  <2>11. p \in Results
    BY <2>2, <2>9, <2>10 DEF Results
  <2>12. SameChoice(p, s) /\ SameCount(p, s) /\ p.item = [s.item EXCEPT ![x] = entry]
    BY <2>2, <2>9 DEF Results, SameChoice, SameCount
  <2>13. p.item[x] = entry /\ Changes(p, r, x)
    BY <2>2, <2>8, <2>12, Fields DEF Changes
  <2>14. /\ q \in Results /\ SameTable(q, p) /\ q.source = p.source /\ q.evidence = p.evidence
         /\ r.item[x].buffer = <<>> \/ p.id \notin {NoItem, x} => q = p
    BY <2>5, <2>11, States, StreamFacts
  <2>15. q.item[x] = entry /\ Changes(q, r, x) /\ SameCount(q, s)
    BY <2>12, <2>13, <2>14 DEF SameTable, Changes, SameCount
  <2>16. q.raws = r.raws /\ SameSource(q, r)
    BY <2>2, <2>12, <2>14 DEF SameTable, SameChoice, SameSource
  <2>17. r.item[x].buffer = <<>> \/ r.id \notin {NoItem, x} => SameStream(q, r)
    BY <2>2, <2>12, <2>14 DEF SameChoice, SameStream
  <2>18. /\ r.item[x].class = "final" => SameCount(q, r)
         /\ r.item[x].class # "final" => OneMore(q, r)
    BY <2>3, <2>15 DEF OneMore, SameCount
  <2> QED BY <1>3, <2>7, <2>14, <2>15, <2>16, <2>17, <2>18 DEF SameTold, SameRaws
<1> QED BY <1>1, <1>2, <1>3

LEMMA DeltaFacts ==
  ASSUME NEW r \in Results, NEW x \in Items, NEW s \in Seq(Chunks), NEW q, q = Delta(r, x, s)
  PROVE  /\ q \in Results /\ Changes(q, r, x) /\ SameTold(q, r, x) /\ SameSource(q, r)
         /\ SameCount(q, r)
         /\ q.item[x].class = "final" <=> r.item[x].class = "final"
         /\ q.item[x].buffer = r.item[x].buffer \/ Len(q.item[x].buffer) <= BufferCap
         /\ q.item[x].class = "prestart" =>
              \/ r.item[x].class = "prestart"
              \/ Cardinality({y \in Items : r.item[y].class = "prestart"}) < PrestartCap
         /\ r.item[x].class # "final" \/ r.id \notin {NoItem, x} => SameStream(q, r)
<1> DEFINE class == r.item[x].class
           prestart == {y \in Items : r.item[y].class = "prestart"}
           buffered == IF Len(r.item[x].buffer \o s) <= BufferCap
                         THEN r.item[x].buffer \o s ELSE r.item[x].buffer
<1>0. /\ buffered \in Seq(Chunks)
      /\ buffered = r.item[x].buffer \/ Len(buffered) <= BufferCap
  <2>1. r.item[x].buffer \o s \in Seq(Chunks)
    BY States
  <2> QED BY <2>1, States
<1>1. CASE q = r
  BY <1>1 DEF Changes, SameTold, SameSource, SameStream, SameCount
<1>2. CASE class = "final"
  <2>1. q = Stream(r, x, s)
    BY <1>2 DEF Delta
  <2>2. /\ q \in Results /\ SameTable(q, r) /\ q.source = r.source /\ q.evidence = r.evidence
        /\ r.id \notin {NoItem, x} => q = r
    BY <2>1, StreamFacts
  <2> QED BY <1>2, <2>2 DEF SameTable, Changes, SameTold, SameSource, SameStream
<1>3. ASSUME NEW to \in {class, "prestart"}, to # "final", class # "final",
             to = "prestart" => class = "prestart" \/ Cardinality(prestart) < PrestartCap,
             q = [r EXCEPT !.item = [r.item EXCEPT ![x] =
                    [r.item[x] EXCEPT !.class = to, !.buffer = buffered]]]
      PROVE  /\ q \in Results /\ Changes(q, r, x) /\ SameTold(q, r, x) /\ SameSource(q, r)
             /\ SameCount(q, r) /\ SameStream(q, r)
             /\ q.item[x].class = to /\ q.item[x].buffer = buffered
  <2> HIDE DEF buffered, prestart
  <2>1. PICK entry : entry = [r.item[x] EXCEPT !.class = to, !.buffer = buffered]
    OBVIOUS
  <2>2. /\ entry \in ItemStates /\ entry.class = to /\ entry.buffer = buffered
        /\ entry.rank = r.item[x].rank /\ entry.text = r.item[x].text
    BY <1>0, <2>1, States DEF ItemStates
  <2>3. q = [r EXCEPT !.item = [r.item EXCEPT ![x] = entry]]
    BY <1>3, <2>1
  <2>4. [r.item EXCEPT ![x] = entry] \in [Items -> ItemStates]
    BY <2>2, Fields
  <2>5. q \in Results
    BY <2>3, <2>4 DEF Results
  <2>6. /\ SameChoice(q, r) /\ SameCount(q, r)
        /\ q.item = [r.item EXCEPT ![x] = entry]
    BY <2>3 DEF Results, SameChoice, SameCount
  <2>7. q.item[x] = entry /\ Changes(q, r, x)
    BY <2>6, Fields DEF Changes
  <2> QED BY <2>2, <2>5, <2>6, <2>7 DEF SameChoice, SameTold, SameSource, SameStream
<1>4. CASE class \in {"prestart", "open"}
  <2>1. q = [r EXCEPT !.item[x].buffer = buffered]
    BY <1>4 DEF Delta
  <2>2. q = [r EXCEPT !.item = [r.item EXCEPT ![x] =
               [r.item[x] EXCEPT !.class = class, !.buffer = buffered]]]
    <3> HIDE DEF buffered
    <3> QED BY <2>1, States, Fields DEF Results, ItemStates
  <2>3. /\ q \in Results /\ Changes(q, r, x) /\ SameTold(q, r, x) /\ SameSource(q, r)
        /\ SameCount(q, r) /\ SameStream(q, r)
        /\ q.item[x].class = class /\ q.item[x].buffer = buffered
    <3> HIDE DEF buffered, prestart
    <3> QED BY <1>3, <1>4, <2>2
  <2> QED BY <1>0, <1>4, <2>3
<1>5. CASE class = "absent" /\ q # r
  <2>1. ~(r.ambiguity = "LIMIT" \/ Cardinality(prestart) >= PrestartCap)
    BY <1>5 DEF Delta
  <2>2. Cardinality(prestart) < PrestartCap
    <3>1. IsFiniteSet(prestart)
      BY FS_Subset, FinalAssumption
    <3> QED BY <2>1, <3>1, FS_CardinalityType, FinalAssumption
  <2>3. q = [r EXCEPT !.item[x].class = "prestart", !.item[x].buffer = buffered]
    BY <1>5, <2>1 DEF Delta
  <2>4. q = [r EXCEPT !.item = [r.item EXCEPT ![x] =
               [r.item[x] EXCEPT !.class = "prestart", !.buffer = buffered]]]
    <3> HIDE DEF buffered
    <3> QED BY <2>3, States, Fields DEF Results, ItemStates
  <2>5. /\ q \in Results /\ Changes(q, r, x) /\ SameTold(q, r, x) /\ SameSource(q, r)
        /\ SameCount(q, r) /\ SameStream(q, r)
        /\ q.item[x].class = "prestart" /\ q.item[x].buffer = buffered
    <3> HIDE DEF buffered, prestart
    <3> QED BY <1>3, <1>5, <2>2, <2>4
  <2> QED BY <1>0, <1>5, <2>2, <2>5
<1>6. class = "commentary" => q = r
  BY DEF Delta
<1> QED BY <1>1, <1>2, <1>4, <1>5, <1>6, States
------------------------------------------------------------------------------
(* Types and bounds.                                                         *)

Classed(r, class) == {x \in Items : r.item[x].class = class}

Fits(r) ==
  /\ Cardinality(Classed(r, "prestart")) <= PrestartCap
  /\ Cardinality(Classed(r, "final")) <= r.retained
  /\ \A x \in Items : Len(r.item[x].buffer) <= BufferCap

LEMMA ClassedIsFinite ==
  ASSUME NEW r, NEW class
  PROVE  IsFiniteSet(Classed(r, class)) /\ Cardinality(Classed(r, class)) \in Nat
BY FS_Subset, FS_CardinalityType, FinalAssumption DEF Classed

(* One entry joins a class at most.                                          *)
LEMMA ClassedGrows ==
  ASSUME NEW r, NEW q, NEW x \in Items, Changes(q, r, x), NEW class
  PROVE  /\ Cardinality(Classed(q, class)) <= Cardinality(Classed(r, class)) + 1
         /\ q.item[x].class = class /\ r.item[x].class = class
              => Cardinality(Classed(q, class)) <= Cardinality(Classed(r, class))
         /\ q.item[x].class # class
              => Cardinality(Classed(q, class)) <= Cardinality(Classed(r, class))
<1>1. Classed(q, class) \subseteq Classed(r, class) \cup {x}
  BY DEF Classed, Changes
<1>2. q.item[x].class # class \/ r.item[x].class = class
        => Classed(q, class) \subseteq Classed(r, class)
  BY DEF Classed, Changes
<1>3. /\ IsFiniteSet(Classed(r, class)) /\ Cardinality(Classed(r, class)) \in Nat
      /\ IsFiniteSet(Classed(q, class)) /\ Cardinality(Classed(q, class)) \in Nat
  BY ClassedIsFinite
<1>4. /\ IsFiniteSet(Classed(r, class) \cup {x})
      /\ Cardinality(Classed(r, class) \cup {x}) <= Cardinality(Classed(r, class)) + 1
  <2>1. Cardinality(Classed(r, class) \cup {x}) =
          IF x \in Classed(r, class) THEN Cardinality(Classed(r, class))
                                     ELSE Cardinality(Classed(r, class)) + 1
    BY <1>3, FS_AddElement
  <2> QED BY <1>3, <2>1, FS_AddElement
<1>5. Cardinality(Classed(q, class)) <= Cardinality(Classed(r, class) \cup {x})
  BY <1>1, <1>4, FS_Subset
<1>6. Classed(q, class) \subseteq Classed(r, class)
        => Cardinality(Classed(q, class)) <= Cardinality(Classed(r, class))
  BY <1>3, FS_Subset
<1>7. Cardinality(Classed(r, class) \cup {x}) \in Nat
  BY <1>4, FS_CardinalityType
<1> QED BY <1>2, <1>3, <1>4, <1>5, <1>6, <1>7

LEMMA FitsStep ==
  ASSUME NEW r \in Results, NEW q \in Results, NEW x \in Items, Changes(q, r, x), Fits(r),
         \/ q.item[x].buffer \in {r.item[x].buffer, <<>>}
         \/ Len(q.item[x].buffer) <= BufferCap,
         q.item[x].class = "prestart" =>
           r.item[x].class = "prestart" \/ Cardinality(Classed(r, "prestart")) < PrestartCap,
         q.item[x].class = "final" => r.item[x].class = "final" \/ OneMore(q, r),
         SameCount(q, r) \/ OneMore(q, r)
  PROVE  Fits(q)
<1>0. /\ Cardinality(Classed(r, "prestart")) \in Nat /\ Cardinality(Classed(q, "prestart")) \in Nat
      /\ Cardinality(Classed(r, "final")) \in Nat /\ Cardinality(Classed(q, "final")) \in Nat
      /\ r.retained \in Nat /\ PrestartCap \in Nat /\ BufferCap \in Nat
  BY ClassedIsFinite, Fields, FinalAssumption
<1>1. Cardinality(Classed(q, "prestart")) <= PrestartCap
  <2>1. CASE q.item[x].class = "prestart" /\ r.item[x].class # "prestart"
    <3>1. Cardinality(Classed(q, "prestart")) <= Cardinality(Classed(r, "prestart")) + 1
      BY ClassedGrows
    <3> QED BY <1>0, <2>1, <3>1
  <2>2. CASE q.item[x].class # "prestart" \/ r.item[x].class = "prestart"
    <3>1. Cardinality(Classed(q, "prestart")) <= Cardinality(Classed(r, "prestart"))
      BY <2>2, ClassedGrows
    <3> QED BY <1>0, <3>1 DEF Fits
  <2> QED BY <2>1, <2>2
<1>2. Cardinality(Classed(q, "final")) <= q.retained
  <2>1. CASE q.item[x].class = "final" /\ r.item[x].class # "final"
    <3>1. Cardinality(Classed(q, "final")) <= Cardinality(Classed(r, "final")) + 1
      BY ClassedGrows
    <3>2. q.retained = r.retained + 1 /\ Cardinality(Classed(r, "final")) <= r.retained
      BY <2>1 DEF OneMore, Fits
    <3> QED BY <1>0, <3>1, <3>2
  <2>2. CASE q.item[x].class # "final" \/ r.item[x].class = "final"
    <3>1. Cardinality(Classed(q, "final")) <= Cardinality(Classed(r, "final"))
      BY <2>2, ClassedGrows
    <3>2. (q.retained = r.retained \/ q.retained = r.retained + 1)
            /\ Cardinality(Classed(r, "final")) <= r.retained
      BY DEF OneMore, SameCount, Fits
    <3> QED BY <1>0, <3>1, <3>2
  <2> QED BY <2>1, <2>2
<1>3. \A y \in Items : Len(q.item[y].buffer) <= BufferCap
  <2>1. Len(<<>>) <= BufferCap
    BY <1>0
  <2>2. Len(q.item[x].buffer) <= BufferCap
    BY <2>1 DEF Fits
  <2> QED BY <2>2 DEF Fits, Changes
<1> QED BY <1>1, <1>2, <1>3 DEF Fits

LEMMA SetFits ==
  ASSUME NEW r \in Results, Fits(r), NEW x \in Items, NEW text \in Texts, NEW rank \in Ranks,
         NEW q, q = SetAuthoritative(r, x, text, rank)
  PROVE  q \in Results /\ Fits(q)
<1>1. q \in Results /\ Changes(q, r, x)
  BY SetFacts
<1>3. /\ SameCount(q, r) \/ OneMore(q, r)
      /\ q.item[x].class = "final" => r.item[x].class = "final" \/ OneMore(q, r)
  BY SetFacts
<1>4. q.item[x] \in {Absent, Finalized(r.item[x]), Entry(text, rank)}
  <2>1. CASE Counts(r, x, text, rank)
    <3>1. Reconciled(q, r, x, text, rank)
      BY <2>1, SetFacts
    <3> QED BY <3>1, Fields DEF Reconciled
  <2>2. CASE Rejected(r, x)
    <3>1. OverLimit(q, x)
      BY <2>2, SetFacts
    <3> QED BY <3>1 DEF OverLimit
  <2>3. CASE ~Rejected(r, x) /\ ~Counts(r, x, text, rank)
    <3>1. KeepsText(q, r, x)
      BY <2>3, SetFacts
    <3> QED BY <3>1 DEF KeepsText
  <2> QED BY <2>1, <2>2, <2>3
<1>5. q.item[x].class # "prestart" /\ q.item[x].buffer \in {r.item[x].buffer, <<>>}
  <2>1. Finalized(r.item[x]).class = "final" /\ Finalized(r.item[x]).buffer = r.item[x].buffer
    BY States DEF Finalized, ItemStates
  <2> QED BY <1>4, <2>1 DEF Absent, Entry
<1> QED BY <1>1, <1>3, <1>5, FitsStep

LEMMA RawFits ==
  ASSUME NEW r \in Results, Fits(r), NEW text \in Texts, NEW q, q = SetRaw(r, text)
  PROVE  q \in Results /\ Fits(q)
<1>1. q \in Results /\ q.item = r.item /\ SameCount(q, r)
  BY RawFacts
<1> QED BY <1>1 DEF Fits, Classed, SameCount

LEMMA ClassifyFits ==
  ASSUME NEW r \in Results, Fits(r), NEW x \in Items,
         NEW class \in {"final", "commentary", "open"}, NEW q, q = Classify(r, x, class)
  PROVE  q \in Results /\ Fits(q)
<1>1. q \in Results /\ Changes(q, r, x)
  BY ClassifyFacts
<1>2. CASE class # "final"
  <2>1. /\ SameCount(q, r) /\ q.item[x].class = class
        /\ q.item[x].buffer \in {r.item[x].buffer, <<>>}
    BY SMTT(30), <1>2, ClassifyFacts
  <2> QED BY <1>1, <1>2, <2>1, FitsStep
<1>3. CASE class = "final" /\ Rejected(r, x)
  <2>1. SameCount(q, r) /\ q.item[x] = Absent
    BY <1>3, ClassifyFacts
  <2>2. q.item[x].class = "absent" /\ q.item[x].buffer = <<>>
    BY <2>1 DEF Absent
  <2> QED BY <1>1, <2>1, <2>2, FitsStep
<1>4. CASE class = "final" /\ ~Rejected(r, x)
  <2>1. /\ q.item[x].class = "final" /\ q.item[x].buffer = <<>>
        /\ r.item[x].class = "final" => SameCount(q, r)
        /\ r.item[x].class # "final" => OneMore(q, r)
    BY <1>4, ClassifyFacts
  <2> QED BY <1>1, <2>1, FitsStep
<1> QED BY <1>2, <1>3, <1>4

LEMMA DeltaFits ==
  ASSUME NEW r \in Results, Fits(r), NEW x \in Items, NEW s \in Seq(Chunks),
         NEW q, q = Delta(r, x, s)
  PROVE  q \in Results /\ Fits(q)
<1>1. q \in Results /\ Changes(q, r, x) /\ SameCount(q, r)
  BY DeltaFacts
<1>2. q.item[x].class = "final" <=> r.item[x].class = "final"
  BY DeltaFacts
<1>3. q.item[x].buffer = r.item[x].buffer \/ Len(q.item[x].buffer) <= BufferCap
  BY DeltaFacts
<1>4. q.item[x].class = "prestart" =>
        r.item[x].class = "prestart" \/ Cardinality(Classed(r, "prestart")) < PrestartCap
  BY DeltaFacts DEF Classed
<1> QED BY <1>1, <1>2, <1>3, <1>4, FitsStep

ResultOK == result \in Results /\ Fits(result)

ControlOK ==
  /\ phase \in {"start", "started", "turn", "late", "recover", "read", "done"}
  /\ status \in FinalStatuses \cup {"inProgress"}
  /\ observed \in FinalStatuses \cup {"inProgress"}
  /\ recover \in BOOLEAN /\ attempts \in 0 .. MaxAttempts
  /\ capacity \in BOOLEAN /\ ordered \in Orders
  /\ events \in 0 .. MaxEvents

TodoOK == todo \in Seq([item : Items, text : Texts, rank : Ranks])
SeenOK == seen \subseteq [item : Items \cup {NoItem}, text : Texts, rank : Ranks]

LEMMA TypeParts ==
  ASSUME TypeOK
  PROVE  ResultOK /\ ControlOK /\ TodoOK /\ SeenOK
<1>1. result \in Results
  BY DEF TypeOK, Results, Reasons
<1> QED BY <1>1 DEF TypeOK, ResultOK, ControlOK, TodoOK, SeenOK, Fits, Classed, Having

LEMMA TypeWhole ==
  ASSUME ResultOK', ControlOK', TodoOK', SeenOK'
  PROVE  TypeOK'
<1>1. result' \in Results
  BY DEF ResultOK
<1>2. result' \in [item : [Items -> ItemStates], text : Seq(Chunks),
                   id : Items \cup {NoItem}, source : Ranks \cup {0},
                   evidence : BOOLEAN, reconciled : BOOLEAN,
                   ambiguity : {"none", "LIMIT", "MULTIPLE_FINAL", "MULTIPLE_RAW"},
                   raws : SUBSET Texts, retained : 0 .. CandidateCap]
  BY <1>1 DEF Results, Reasons
<1>3. /\ Cardinality(Having("prestart"))' <= PrestartCap
      /\ Cardinality(Having("final"))' <= result'.retained
      /\ \A x \in Items : Len(result'.item[x].buffer) <= BufferCap
  BY DEF ResultOK, Fits, Classed, Having
<1> QED BY <1>2, <1>3 DEF TypeOK, ControlOK, TodoOK, SeenOK

RankConstants == /\ ItemCompleted \in Ranks /\ RawCompleted \in Ranks
                 /\ TurnPayload \in Ranks /\ ThreadRead \in Ranks

LEMMA RanksAreRanks == RankConstants
BY DEF RankConstants, Ranks, ItemCompleted, RawCompleted, TurnPayload, ThreadRead

LEMMA WithRankType ==
  ASSUME NEW list \in CandidateLists, NEW rank \in Ranks
  PROVE  /\ WithRank(list, rank) \in Seq([item : Items, text : Texts, rank : Ranks])
         /\ \A i \in DOMAIN WithRank(list, rank) : WithRank(list, rank)[i].rank = rank
         /\ list = <<>> => WithRank(list, rank) = <<>>
<1>1. list \in Seq([item : Items, text : Texts])
  BY FinalAssumption
<1>2. Len(list) \in Nat /\ \A i \in 1 .. Len(list) : list[i] \in [item : Items, text : Texts]
  BY <1>1, LenProperties, ElementOfSeq
<1>3. \A i \in 1 .. Len(list) : [item |-> list[i].item, text |-> list[i].text, rank |-> rank]
                                  \in [item : Items, text : Texts, rank : Ranks]
  BY <1>2
<1>4. WithRank(list, rank) \in Seq([item : Items, text : Texts, rank : Ranks])
  BY <1>2, <1>3 DEF WithRank
<1>5. DOMAIN WithRank(list, rank) = 1 .. Len(list)
  BY DEF WithRank
<1>6. list = <<>> => WithRank(list, rank) = <<>>
  <2>1. list = <<>> => Len(WithRank(list, rank)) = 0
    BY <1>2, <1>5, <1>4
  <2> QED BY <1>4, <2>1, EmptySeq
<1> QED BY <1>4, <1>5, <1>6 DEF WithRank

(* What the events and the candidates make of the result.                    *)
LEMMA ResultStep ==
  ASSUME TypeOK, [Next]_vars
  PROVE  ResultOK'
<1>0. ResultOK /\ TodoOK
  BY TypeParts
<1>1. ASSUME UNCHANGED result
      PROVE  ResultOK'
  BY <1>0, <1>1 DEF ResultOK, Fits, Classed
<1>2. ASSUME NEW q \in Results, Fits(q), result' = q
      PROVE  ResultOK'
  BY <1>2 DEF ResultOK, Fits, Classed
<1> USE <1>0 DEF ResultOK
<1>3. ASSUME NEW x \in Items, NEW class \in {"final", "commentary", "open"},
             ItemStarted(x, class) \/ CommentaryCompleted(x)
      PROVE  ResultOK'
  <2>1. PICK c \in {"final", "commentary", "open"} : result' = Classify(result, x, c)
    BY <1>3 DEF ItemStarted, CommentaryCompleted
  <2> QED BY <1>2, <2>1, ClassifyFits
<1>4. ASSUME NEW x \in Items, NEW chunk \in Chunks, AgentDelta(x, chunk)
      PROVE  ResultOK'
  <2>1. result' = Delta(result, x, <<chunk>>) /\ <<chunk>> \in Seq(Chunks)
    BY <1>4 DEF AgentDelta
  <2> QED BY <1>2, <2>1, DeltaFits
<1>5. ASSUME NEW x \in Items, NEW text \in Texts, FinalCompleted(x, text)
      PROVE  ResultOK'
  <2>1. PICK r : r = Classify(result, x, "final")
    OBVIOUS
  <2>2. result' = IF Rejected(result, x) THEN r ELSE SetAuthoritative(r, x, text, ItemCompleted)
    BY <1>5, <2>1 DEF FinalCompleted
  <2>3. r \in Results /\ Fits(r)
    BY <2>1, ClassifyFits
  <2>4. PICK q : q = SetAuthoritative(r, x, text, ItemCompleted)
    OBVIOUS
  <2>5. q \in Results /\ Fits(q)
    BY <2>3, <2>4, SetFits, RanksAreRanks DEF RankConstants
  <2> QED BY <1>2, <2>2, <2>3, <2>4, <2>5
<1>6. ASSUME NEW text \in Texts, RawResponseCompleted(text)
      PROVE  ResultOK'
  <2>1. result' = SetRaw(result, text)
    BY <1>6 DEF RawResponseCompleted
  <2> QED BY <1>2, <2>1, RawFits
<1>7. CASE Candidate
  <2>1. PICK c : c = Head(todo)
    OBVIOUS
  <2>2. c.item \in Items /\ c.text \in Texts /\ c.rank \in Ranks
    <3>1. c \in [item : Items, text : Texts, rank : Ranks]
      BY <1>7, <2>1, HeadTailProperties DEF Candidate, TodoOK
    <3> QED BY <3>1
  <2>3. result' = SetAuthoritative(result, c.item, c.text, c.rank)
    BY <1>7, <2>1 DEF Candidate
  <2> QED BY <1>2, <2>2, <2>3, SetFits
<1>8. ASSUME NEW s, NEW list, TurnCompleted(s, list) \/ StartReturns(s, list) \/ ReadThread(list)
      PROVE  ResultOK'
  BY <1>1, <1>8 DEF TurnCompleted, StartReturns, ReadThread
<1>9. ASSUME NEW s, CapacityExceeded \/ WaitEnds \/ WaitRaises(s) \/ LateDrainEnds
                      \/ ThreadReadEnds
      PROVE  ResultOK'
  BY <1>1, <1>9 DEF CapacityExceeded, WaitEnds, WaitRaises, LateDrainEnds, ThreadReadEnds
<1>10. CASE UNCHANGED vars
  BY <1>1, <1>10 DEF vars
<1>11. CASE Event
  BY <1>3, <1>4, <1>5, <1>6, <1>8, <1>9, <1>11 DEF Event
<1> QED BY <1>7, <1>8, <1>9, <1>10, <1>11 DEF Next

LEMMA ControlStep ==
  ASSUME TypeOK, PhaseInv, [Next]_vars
  PROVE  ControlOK' /\ TodoOK'
<1>0. /\ ControlOK /\ TodoOK /\ PhaseInv /\ RankConstants
      /\ <<>> \in Seq([item : Items, text : Texts, rank : Ranks])
  BY TypeParts, RanksAreRanks
<1> USE <1>0 DEF ControlOK, TodoOK, FinalStatuses
<1>1. ASSUME Handle, UNCHANGED todo, status' \in FinalStatuses \cup {"inProgress"},
             capacity' \in BOOLEAN
      PROVE  ControlOK' /\ TodoOK'
  BY <1>1, FinalAssumption DEF Handle
<1>2. ASSUME NEW x, NEW class, NEW chunk, NEW text,
             \/ ItemStarted(x, class) \/ AgentDelta(x, chunk) \/ CommentaryCompleted(x)
             \/ FinalCompleted(x, text) \/ RawResponseCompleted(text) \/ CapacityExceeded
      PROVE  ControlOK' /\ TodoOK'
  BY <1>1, <1>2 DEF ItemStarted, AgentDelta, CommentaryCompleted, FinalCompleted,
                    RawResponseCompleted, CapacityExceeded
<1>3. ASSUME NEW s \in FinalStatuses, NEW list \in CandidateLists, TurnCompleted(s, list)
      PROVE  ControlOK' /\ TodoOK'
  <2>1. TodoOK'
    BY <1>3, WithRankType DEF TurnCompleted, RankConstants
  <2> QED BY <1>3, <2>1, FinalAssumption DEF TurnCompleted, Handle
<1>4. CASE Candidate
  <2>1. TodoOK'
    BY <1>4 DEF Candidate
  <2> QED BY <1>4, <2>1 DEF Candidate
<1>5. ASSUME NEW s \in FinalStatuses \cup {"inProgress"}, NEW list \in CandidateLists,
             StartReturns(s, list)
      PROVE  ControlOK' /\ TodoOK'
  <2>1. TodoOK'
    BY <1>5, WithRankType DEF StartReturns, RankConstants
  <2> QED BY <1>5, <2>1 DEF StartReturns
<1>6. ASSUME NEW s \in {"interrupted", "failed"}, WaitRaises(s)
      PROVE  ControlOK' /\ TodoOK'
  BY <1>6 DEF WaitRaises
<1>7. CASE WaitEnds \/ LateDrainEnds \/ ThreadReadEnds
  BY <1>7 DEF WaitEnds, LateDrainEnds, ThreadReadEnds, Judge
<1>8. ASSUME NEW list \in CandidateLists, ReadThread(list)
      PROVE  ControlOK' /\ TodoOK'
  <2>1. TodoOK'
    BY <1>8, WithRankType DEF ReadThread, RankConstants
  <2>2. attempts' \in 0 .. MaxAttempts
    BY <1>8, FinalAssumption DEF ReadThread, PhaseInv
  <2> QED BY <1>8, <2>1, <2>2 DEF ReadThread, Judge
<1>9. CASE UNCHANGED vars
  BY <1>9 DEF vars
<1> QED BY <1>2, <1>3, <1>4, <1>5, <1>6, <1>7, <1>8, <1>9 DEF Next, Event

(* The candidates left to be reconciled.                                     *)
LEMMA NextCandidate ==
  ASSUME TodoOK, SourceInv, todo # <<>>
  PROVE  /\ Head(todo).item \in Items /\ Head(todo).text \in Texts
         /\ Head(todo).rank \in {TurnPayload, ThreadRead}
         /\ Tail(todo) \in Seq([item : Items, text : Texts, rank : Ranks])
         /\ \A i \in DOMAIN Tail(todo) : Tail(todo)[i].rank \in {TurnPayload, ThreadRead}
<1> DEFINE S == [item : Items, text : Texts, rank : Ranks]
<1>1. Head(todo) \in S
  <2> HIDE DEF S
  <2>1. todo \in Seq(S)
    BY DEF TodoOK, S
  <2> QED BY <2>1, HeadTailProperties
<1>2. /\ Tail(todo) \in Seq(S) /\ Len(Tail(todo)) = Len(todo) - 1 /\ Len(todo) \in Nat
      /\ \A i \in 1 .. Len(Tail(todo)) : Tail(todo)[i] = todo[i + 1]
      /\ DOMAIN Tail(todo) = 1 .. Len(Tail(todo)) /\ DOMAIN todo = 1 .. Len(todo)
      /\ Head(todo) = todo[1] /\ Len(todo) # 0
  <2> HIDE DEF S
  <2>1. todo \in Seq(S)
    BY DEF TodoOK, S
  <2> QED BY <2>1, HeadTailProperties, LenProperties, EmptySeq
<1>3. \A i \in DOMAIN Tail(todo) : i + 1 \in DOMAIN todo
  BY <1>2
<1>4. 1 \in DOMAIN todo
  BY <1>2
<1> QED BY <1>1, <1>2, <1>3, <1>4 DEF SourceInv

LEMMA SourceStep ==
  ASSUME TypeOK, PhaseInv, SourceInv, [Next]_vars
  PROVE  SeenOK' /\ SourceInv'
<1>0. SeenOK /\ TodoOK /\ RankConstants
  BY TypeParts, RanksAreRanks
<1> USE <1>0 DEF SeenOK, SourceInv
<1>1. ASSUME NEW x \in Items \cup {NoItem}, NEW text \in Texts, NEW rank \in Ranks,
             Tell(x, text, rank), rank = RawCompleted <=> x = NoItem
      PROVE  /\ SeenOK' /\ \A e \in seen' : e.rank = RawCompleted <=> e.item = NoItem
  <2>1. [item |-> x, text |-> text, rank |-> rank]
          \in [item : Items \cup {NoItem}, text : Texts, rank : Ranks]
    OBVIOUS
  <2> QED BY <1>1, <2>1 DEF Tell
<1>2. NoItem \notin Items
  BY FinalAssumption DEF NoItem
<1>3. ASSUME NEW x, NEW class, NEW chunk, NEW text,
             \/ ItemStarted(x, class) \/ AgentDelta(x, chunk) \/ CommentaryCompleted(x)
             \/ CapacityExceeded
      PROVE  SeenOK' /\ SourceInv'
  BY <1>3 DEF ItemStarted, AgentDelta, CommentaryCompleted, CapacityExceeded
<1>4. ASSUME NEW x \in Items, NEW text \in Texts, FinalCompleted(x, text)
      PROVE  SeenOK' /\ SourceInv'
  <2>1. Tell(x, text, ItemCompleted) /\ ItemCompleted # RawCompleted
    BY <1>4 DEF FinalCompleted, ItemCompleted, RawCompleted
  <2>2. UNCHANGED todo
    BY <1>4 DEF FinalCompleted
  <2>3. SeenOK' /\ \A e \in seen' : e.rank = RawCompleted <=> e.item = NoItem
    BY <1>1, <1>2, <2>1 DEF RankConstants
  <2> QED BY <2>2, <2>3
<1>5. ASSUME NEW text \in Texts, RawResponseCompleted(text)
      PROVE  SeenOK' /\ SourceInv'
  <2>1. Tell(NoItem, text, RawCompleted) /\ UNCHANGED todo
    BY <1>5 DEF RawResponseCompleted
  <2>2. SeenOK' /\ \A e \in seen' : e.rank = RawCompleted <=> e.item = NoItem
    BY <1>1, <2>1 DEF RankConstants
  <2> QED BY <2>1, <2>2
<1>6. CASE Candidate
  <2>1. /\ todo # <<>> /\ todo' = Tail(todo)
        /\ Tell(Head(todo).item, Head(todo).text, Head(todo).rank)
    BY <1>6 DEF Candidate
  <2>2. /\ Head(todo).item \in Items /\ Head(todo).text \in Texts
        /\ Head(todo).rank \in {TurnPayload, ThreadRead}
        /\ \A i \in DOMAIN Tail(todo) : Tail(todo)[i].rank \in {TurnPayload, ThreadRead}
    BY <2>1, NextCandidate
  <2>3. Head(todo).rank \in Ranks /\ Head(todo).rank # RawCompleted
    BY <2>2 DEF RankConstants, TurnPayload, ThreadRead, RawCompleted
  <2>4. SeenOK' /\ \A e \in seen' : e.rank = RawCompleted <=> e.item = NoItem
    BY <1>1, <1>2, <2>1, <2>2, <2>3
  <2> QED BY <2>1, <2>2, <2>4
<1>7. ASSUME NEW s, NEW list \in CandidateLists,
             TurnCompleted(s, list) \/ StartReturns(s, list) \/ ReadThread(list)
      PROVE  SeenOK' /\ SourceInv'
  <2>1. UNCHANGED seen /\ todo' \in {<<>>, WithRank(list, TurnPayload), WithRank(list, ThreadRead)}
    BY <1>7 DEF TurnCompleted, StartReturns, ReadThread
  <2>2. DOMAIN <<>> = {}
    OBVIOUS
  <2>3. \A i \in DOMAIN todo' : todo'[i].rank \in {TurnPayload, ThreadRead}
    <3>1. CASE todo' = <<>>
      BY <2>2, <3>1
    <3>2. ASSUME NEW rank \in {TurnPayload, ThreadRead}, todo' = WithRank(list, rank)
          PROVE  \A i \in DOMAIN todo' : todo'[i].rank \in {TurnPayload, ThreadRead}
      BY <3>2, WithRankType DEF RankConstants
    <3> QED BY <2>1, <3>1, <3>2
  <2> QED BY <2>1, <2>3
<1>8. ASSUME NEW s, WaitEnds \/ WaitRaises(s) \/ LateDrainEnds \/ ThreadReadEnds
      PROVE  SeenOK' /\ SourceInv'
  BY <1>8 DEF WaitEnds, WaitRaises, LateDrainEnds, ThreadReadEnds
<1>9. CASE UNCHANGED vars
  BY <1>9 DEF vars
<1> QED BY <1>3, <1>4, <1>5, <1>6, <1>7, <1>8, <1>9 DEF Next, Event

LEMMA PhaseStep ==
  ASSUME TypeOK, PhaseInv, SourceInv, [Next]_vars
  PROVE  PhaseInv'
<1>0. ControlOK /\ TodoOK /\ RankConstants
  BY TypeParts, RanksAreRanks
<1> USE <1>0 DEF PhaseInv
<1>1. ASSUME phase \in {"turn", "late"}, UNCHANGED <<phase, attempts>>
      PROVE  PhaseInv'
  BY <1>1 DEF Succeeded
<1>2. CASE Event
  <2>1. Handle
    BY <1>2 DEF Event, ItemStarted, AgentDelta, CommentaryCompleted, FinalCompleted,
                RawResponseCompleted, TurnCompleted, CapacityExceeded
  <2> QED BY <1>1, <2>1 DEF Handle
<1>3. CASE Candidate
  <2>1. todo # <<>> /\ UNCHANGED <<phase, attempts, observed>>
    BY <1>3 DEF Candidate
  <2> QED BY <2>1 DEF Succeeded
<1>4. ASSUME NEW s, NEW list, StartReturns(s, list)
      PROVE  PhaseInv'
  BY <1>4 DEF StartReturns, Succeeded
<1>5. ASSUME NEW s, WaitEnds \/ WaitRaises(s)
      PROVE  PhaseInv'
  BY <1>5 DEF WaitEnds, WaitRaises, Succeeded
<1>6. CASE LateDrainEnds
  <2>1. /\ phase = "late" /\ todo = <<>>
        /\ UNCHANGED <<observed, attempts, todo, result>>
    BY <1>6 DEF LateDrainEnds
  <2>2. CASE observed # "completed"
    BY <1>6, <2>1, <2>2 DEF LateDrainEnds, Succeeded
  <2>3. CASE observed = "completed" /\ status # "completed"
    BY <1>6, <2>1, <2>3 DEF LateDrainEnds, Succeeded
  <2>4. CASE observed = "completed" /\ status = "completed"
    <3>1. CASE phase' = "recover"
      <4>1. attempts < MaxAttempts
        BY <2>1, FinalAssumption
      <4> QED BY <2>1, <2>4, <3>1, <4>1 DEF Succeeded
    <3>2. CASE Judge
      BY <2>1, <2>4, <3>2 DEF Judge, Succeeded, Undisputed
    <3> QED BY <1>6, <2>4, <3>1, <3>2 DEF LateDrainEnds
  <2> QED BY <2>2, <2>3, <2>4
<1>7. CASE ThreadReadEnds
  BY <1>7 DEF ThreadReadEnds, Judge, Succeeded, Undisputed
<1>8. ASSUME NEW list \in CandidateLists, ReadThread(list)
      PROVE  PhaseInv'
  <2>1. /\ phase = "recover" /\ observed = "completed" /\ UNCHANGED <<observed, result>>
        /\ attempts' = attempts + 1 /\ todo' = WithRank(list, ThreadRead)
    BY <1>8 DEF ReadThread
  <2>2. CASE list # <<>> /\ phase' = "read"
    BY <2>1, <2>2 DEF Succeeded
  <2>3. CASE list = <<>> /\ attempts' < MaxAttempts /\ UNCHANGED phase
    <3>1. todo' = <<>>
      BY <2>1, <2>3, WithRankType DEF RankConstants
    <3> QED BY <2>1, <2>3, <3>1 DEF Succeeded
  <2>4. CASE list = <<>> /\ Judge
    <3>1. todo' = <<>>
      BY <2>1, <2>4, WithRankType DEF RankConstants
    <3> QED BY <2>1, <2>4, <3>1 DEF Judge, Succeeded, Undisputed
  <2> QED BY <1>8, <2>2, <2>3, <2>4 DEF ReadThread
<1>9. CASE UNCHANGED vars
  BY <1>9 DEF vars, Succeeded
<1> QED BY <1>2, <1>3, <1>4, <1>5, <1>6, <1>7, <1>8, <1>9 DEF Next

(* A turn stays within its bounds: every variable has its type, no more      *)
(* candidates are kept than the limit, no more items wait for their phase,   *)
(* no buffer is overrun and thread/read is not attempted more often than it  *)
(* may be.                                                                   *)
THEOREM TypeCorrect == Spec => []TypeInv
<1>1. Init => TypeInv
  <2>1. ASSUME Init
        PROVE  result \in Results
    <3>1. <<>> \in Seq(Chunks) /\ 0 \in 0 .. CandidateCap
      BY FinalAssumption
    <3>2. [x \in Items |-> Absent] \in [Items -> ItemStates]
      BY AbsentIsState
    <3> QED BY <2>1, <3>1, <3>2 DEF Init, Results
  <2>2. ASSUME Init
        PROVE  /\ Cardinality(Having("prestart")) <= PrestartCap
               /\ Cardinality(Having("final")) <= result.retained
               /\ \A x \in Items : Len(result.item[x].buffer) <= BufferCap
    <3>1. \A x \in Items : result.item[x] = Absent
      BY <2>2 DEF Init
    <3>2. Having("prestart") = {} /\ Having("final") = {}
      BY <3>1 DEF Having, Absent
    <3>3. Len(<<>>) = 0 /\ result.retained = 0
      BY <2>2 DEF Init
    <3>4. Cardinality(Having("prestart")) = 0 /\ Cardinality(Having("final")) = 0
      BY <3>2, FS_EmptySet
    <3>5. \A x \in Items : Len(result.item[x].buffer) = 0
      BY <3>1, <3>3 DEF Absent
    <3> QED BY <3>3, <3>4, <3>5, FinalAssumption
  <2>3. <<>> \in Seq([item : Items, text : Texts, rank : Ranks]) /\ DOMAIN <<>> = {}
    OBVIOUS
  <2>4. Init => TypeOK
    <3>1. ASSUME Init
          PROVE  /\ status \in FinalStatuses \cup {"inProgress"}
                 /\ observed \in FinalStatuses \cup {"inProgress"}
                 /\ recover \in BOOLEAN /\ attempts \in 0 .. MaxAttempts
                 /\ todo \in Seq([item : Items, text : Texts, rank : Ranks])
                 /\ capacity \in BOOLEAN /\ ordered \in Orders
                 /\ seen \subseteq [item : Items \cup {NoItem}, text : Texts, rank : Ranks]
                 /\ events \in 0 .. MaxEvents
                 /\ phase \in {"start", "started", "turn", "late", "recover", "read", "done"}
      <4>1. seen = {} /\ todo = <<>> /\ ordered \in Orders /\ attempts = 0 /\ events = 0
        BY <3>1 DEF Init
      <4>2. attempts \in 0 .. MaxAttempts /\ events \in 0 .. MaxEvents
        BY <4>1, FinalAssumption
      <4>3. /\ status = "inProgress" /\ observed = "inProgress" /\ recover = TRUE
            /\ capacity = FALSE /\ phase = "start"
        BY <3>1 DEF Init
      <4> QED BY <2>3, <4>1, <4>2, <4>3
    <3> QED BY <2>1, <2>2, <3>1 DEF TypeOK, Results, Reasons
  <2>5. Init => PhaseInv /\ SourceInv
    BY <2>3 DEF Init, PhaseInv, SourceInv, Succeeded
  <2> QED BY <2>4, <2>5 DEF TypeInv
<1>2. TypeInv /\ [Next]_vars => TypeInv'
  <2>1. ASSUME TypeInv, [Next]_vars
        PROVE  TypeOK'
    BY <2>1, ResultStep, ControlStep, SourceStep, TypeWhole DEF TypeInv
  <2> QED BY <2>1, SourceStep, PhaseStep DEF TypeInv
<1> QED BY <1>1, <1>2, PTL DEF Spec
------------------------------------------------------------------------------
(* What is told, and one text more.                                          *)

Heard(S) ==
  /\ S \subseteq [item : Items \cup {NoItem}, text : Texts, rank : Ranks]
  /\ \A e \in S : e.rank = RawCompleted <=> e.item = NoItem

Grown(T, S, text, rank) ==
  /\ S \subseteq T /\ T # {}
  /\ TextsIn(T, rank) = TextsIn(S, rank) \cup {text}
  /\ \A k : k # rank => TextsIn(T, k) = TextsIn(S, k)

LEMMA TextsGrow ==
  ASSUME NEW S, NEW x, NEW text, NEW rank, NEW T,
         T = S \cup {Told1(x, text, rank)}
  PROVE  Grown(T, S, text, rank)
<1>1. Told1(x, text, rank).rank = rank /\ Told1(x, text, rank).text = text
  BY DEF Told1
<1>2. PICK e : e = Told1(x, text, rank)
  OBVIOUS
<1>3. ASSUME NEW k
      PROVE  TextsIn(T, k) = IF k = rank THEN TextsIn(S, k) \cup {text} ELSE TextsIn(S, k)
  BY <1>1, <1>2 DEF TextsIn
<1> QED BY <1>3 DEF Grown

LEMMA Monotone ==
  ASSUME NEW S, NEW T, S \subseteq T
  PROVE  /\ \A k : TextsIn(S, k) \subseteq TextsIn(T, k)
         /\ \A k : TwoTexts(S, k) => TwoTexts(T, k)
         /\ Early(T) => Early(S)
         /\ OneTeller(T) => OneTeller(S)
         /\ \A r : Witnessed(r, S) => Witnessed(r, T)
<1>1. \A k : TextsIn(S, k) \subseteq TextsIn(T, k)
  BY DEF TextsIn
<1>2. \A k : TwoTexts(S, k) => TwoTexts(T, k)
  BY <1>1 DEF TwoTexts
<1>3. Early(T) => Early(S)
  BY <1>1 DEF Early
<1>4. OneTeller(T) => OneTeller(S)
  BY DEF OneTeller
<1>5. \A r : Witnessed(r, S) => Witnessed(r, T)
  BY <1>1 DEF Witnessed
<1> QED BY <1>1, <1>2, <1>3, <1>4, <1>5

(* What the table says of a message was told of it, by a source that names   *)
(* messages.                                                                 *)
LEMMA ToldWasHeard ==
  ASSUME NEW r \in Results, NEW S, Heard(S), Witnessed(r, S), NEW y \in Told(r)
  PROVE  /\ y \in Items /\ y # NoItem
         /\ r.item[y].rank \in Ranks /\ r.item[y].rank # RawCompleted
         /\ r.item[y].text \in TextsIn(S, r.item[y].rank)
         /\ \E e \in S : e.item = y /\ e.rank = r.item[y].rank /\ e.text = r.item[y].text
         /\ Early(S) => r.item[y].rank = ItemCompleted
<1>1. PICK e : e = Told1(y, r.item[y].text, r.item[y].rank)
  OBVIOUS
<1>2. e \in S
  BY <1>1 DEF Witnessed
<1>3. e.item = y /\ e.text = r.item[y].text /\ e.rank = r.item[y].rank
  BY <1>1 DEF Told1
<1>4. y \in Items /\ NoItem \notin Items
  BY FinalAssumption DEF Told, NoItem
<1>5. e.rank \in Ranks /\ e.rank # RawCompleted
  BY <1>2, <1>3, <1>4 DEF Heard
<1>6. e.text \in TextsIn(S, e.rank)
  BY <1>2 DEF TextsIn
<1>7. Early(S) => e.rank \notin {TurnPayload, ThreadRead}
  BY <1>6 DEF Early
<1> QED BY <1>2, <1>3, <1>4, <1>5, <1>6, <1>7
        DEF Ranks, ItemCompleted, RawCompleted, TurnPayload, ThreadRead

(* A result whose table says the same of every message.                      *)
LEMMA SameToldFacts ==
  ASSUME NEW r \in Results, NEW q \in Results, NEW x \in Items,
         Changes(q, r, x), SameTold(q, r, x)
  PROVE  /\ \A y \in Items : SameTold(q, r, y)
         /\ Told(q) = Told(r) /\ Disputed(q) = Disputed(r)
<1>1. \A y \in Items : SameTold(q, r, y)
  BY DEF Changes, SameTold
<1>2. Told(q) = Told(r)
  BY <1>1 DEF Told, SameTold
<1>3. \A y \in Told(r) : q.item[y].text = r.item[y].text
  BY <1>1 DEF Told, SameTold
<1>4. Disputed(q) <=> Disputed(r)
  BY <1>2, <1>3 DEF Disputed
<1>5. Disputed(q) \in BOOLEAN /\ Disputed(r) \in BOOLEAN
  BY DEF Disputed
<1> QED BY <1>1, <1>2, <1>4, <1>5

LEMMA SameAgrees ==
  ASSUME NEW r \in Results, NEW q \in Results, NEW x \in Items, NEW S, Heard(S),
         Changes(q, r, x), SameTold(q, r, x), SameSource(q, r),
         Agrees(r, S), Reasoned(r, S)
  PROVE  Agrees(q, S) /\ Reasoned(q, S)
<1>1. /\ \A y \in Items : SameTold(q, r, y)
      /\ Told(q) = Told(r) /\ Disputed(q) = Disputed(r)
  BY SameToldFacts
<1>2. q.ambiguity = r.ambiguity /\ q.raws = r.raws /\ q.evidence = r.evidence
  BY DEF SameSource
<1>3. Witnessed(q, S)
  <2>1. \A y \in Told(q) : q.item[y].rank = r.item[y].rank /\ q.item[y].text = r.item[y].text
    BY <1>1 DEF Told, SameTold
  <2>2. \A y \in Told(q) : Told1(y, q.item[y].text, q.item[y].rank) \in S
    BY <1>1, <2>1 DEF Agrees, Witnessed
  <2> QED BY <1>2, <2>2 DEF Agrees, Witnessed
<1>4. ASSUME q.ambiguity = "none"
      PROVE  Complete(q, S)
  <2>1. Complete(r, S)
    BY <1>2, <1>4 DEF Agrees
  <2>2. \A e \in S : e.item # NoItem => Recorded(q, e)
    <3>1. ASSUME NEW e \in S, e.item # NoItem
          PROVE  Recorded(q, e)
      <4>1. e.item \in Items /\ SameTold(q, r, e.item) /\ Recorded(r, e)
        BY <1>1, <2>1, <3>1 DEF Complete, Heard
      <4> QED BY <4>1 DEF Recorded, SameTold
    <3> QED BY <3>1
  <2> QED BY <1>1, <1>2, <2>1, <2>2 DEF Complete
<1>5. Reasoned(q, S)
  BY <1>2 DEF Reasoned
<1> QED BY <1>3, <1>4, <1>5 DEF Agrees

(* A result over the limit has lost its answer and the entry in question.    *)
LEMMA LimitAgrees ==
  ASSUME NEW r \in Results, NEW q \in Results, NEW x \in Items, NEW S, NEW T, S \subseteq T,
         Changes(q, r, x), SameRaws(q, r), OverLimit(q, x), Agrees(r, S)
  PROVE  /\ Agrees(q, T) /\ Reasoned(q, T)
         /\ Sealed(r) => Sealed(q)
         /\ Frozen(q, T) /\ Best(q, T) /\ First(q, T)
<1>1. Told(q) \subseteq Told(r) /\ \A y \in Told(q) : q.item[y] = r.item[y]
  <2>1. Absent.rank = 0
    BY DEF Absent
  <2> QED BY <2>1 DEF Told, Changes, OverLimit
<1>2. Witnessed(q, S)
  <2>1. \A y \in Told(q) : Told1(y, q.item[y].text, q.item[y].rank) \in S
    BY <1>1 DEF Agrees, Witnessed
  <2> QED BY <2>1 DEF Agrees, Witnessed, SameRaws
<1>3. q.ambiguity = "LIMIT"
  BY DEF OverLimit
<1>4. Sealed(r) => Sealed(q)
  BY <1>1 DEF Sealed
<1> QED BY <1>2, <1>3, <1>4, Monotone DEF Agrees, Reasoned, Frozen, Best, First
(* Streaming of a message that is not told yet leaves what is settled alone. *)
LEMMA StreamSettles ==
  ASSUME NEW r \in Results, NEW q \in Results, NEW x \in Items, NEW S, Heard(S),
         Changes(q, r, x), SameTold(q, r, x), SameSource(q, r),
         r.id \notin {NoItem, x} => SameStream(q, r),
         \A e \in S : e.item # x,
         \A e \in S : e.rank = RawCompleted => \E f \in S : f.rank = ItemCompleted,
         Agrees(r, S), Sealed(r), Frozen(r, S), Best(r, S), First(r, S)
  PROVE  Sealed(q) /\ Frozen(q, S) /\ Best(q, S) /\ First(q, S)
<1>1. Told(q) = Told(r)
  BY SameToldFacts
<1>2. /\ q.ambiguity = r.ambiguity /\ q.source = r.source
  BY DEF SameSource
<1>3. Witnessed(r, S)
  BY DEF Agrees
<1>4. x \notin Told(r)
  BY <1>3, ToldWasHeard
<1>5. Sealed(q)
  <2>1. \A y \in Told(r) : q.item[y] = r.item[y]
    BY <1>4 DEF Told, Changes
  <2> QED BY <1>1, <2>1 DEF Sealed
<1>6. ~Quiet(S)
  BY DEF Quiet, TextsIn
<1>7. q.ambiguity = "none" /\ S # {} => r.id \in Told(r) /\ SameStream(q, r)
  <2>1. ASSUME q.ambiguity = "none", S # {}
        PROVE  r.id \in Told(r) /\ SameStream(q, r)
    <3>1. r.id \in Told(r)
      BY <1>2, <1>6, <2>1 DEF Frozen
    <3>2. r.id \notin {NoItem, x}
      BY <1>3, <1>4, <3>1, ToldWasHeard
    <3> QED BY <3>1, <3>2
  <2> QED BY <2>1
<1>8. Frozen(q, S)
  BY <1>1, <1>2, <1>7 DEF Frozen, SameStream
<1>9. Best(q, S)
  BY <1>2, <1>7 DEF Best, SameStream
<1>10. First(q, S)
  <2>1. TextsIn(S, ItemCompleted) # {} => S # {}
    BY DEF TextsIn
  <2> QED BY <1>1, <1>2, <1>7, <2>1 DEF First, SameStream
<1> QED BY <1>5, <1>8, <1>9, <1>10

(* The three things that can come of a raw text.                             *)
RawCases(q, r, text) ==
  \/ /\ r.raws = {} /\ q.raws = {text} /\ q.ambiguity = r.ambiguity
     /\ \/ /\ r.ambiguity # "none" \/ Outranked(r, RawCompleted)
           /\ q.text = r.text /\ q.id = r.id /\ q.source = r.source
        \/ /\ ~Outranked(r, RawCompleted)
           /\ q.text = text /\ q.id = r.id /\ q.source = RawCompleted
  \/ text \in r.raws /\ q = r
  \/ /\ r.raws # {} /\ text \notin r.raws
     /\ q.ambiguity = "MULTIPLE_RAW" /\ q.raws \subseteq r.raws \cup {text}

LEMMA RawAgrees ==
  ASSUME NEW r \in Results, NEW text \in Texts, NEW q, q = SetRaw(r, text),
         NEW S, Heard(S), NEW T, T = S \cup {Told1(NoItem, text, RawCompleted)},
         Agrees(r, S), Reasoned(r, S)
  PROVE  Agrees(q, T) /\ Reasoned(q, T)
<1>1. q \in Results /\ q.item = r.item
  BY RawFacts
<1>2. RawCases(q, r, text)
  BY RawFacts DEF RawCases
<1>3. Told(q) = Told(r) /\ (Disputed(q) <=> Disputed(r))
  BY <1>1 DEF Told, Disputed
<1>4. /\ S \subseteq T /\ T # {}
      /\ TextsIn(T, RawCompleted) = TextsIn(S, RawCompleted) \cup {text}
  BY TextsGrow DEF Grown
<1>5. Witnessed(r, S) /\ Witnessed(r, T)
  BY <1>4, Monotone DEF Agrees
<1>6. Witnessed(q, T)
  <2>1. q.raws \subseteq r.raws \cup {text}
    BY <1>2 DEF RawCases
  <2>2. r.raws \subseteq TextsIn(S, RawCompleted)
    BY <1>5 DEF Witnessed
  <2> QED BY <1>1, <1>3, <1>4, <1>5, <2>1, <2>2 DEF Witnessed
<1>7. ASSUME q.ambiguity = "none"
      PROVE  Complete(q, T)
  <2>1. r.ambiguity = "none"
    BY <1>2, <1>7 DEF RawCases
  <2>2. Complete(r, S)
    BY <2>1 DEF Agrees
  <2>3. \A e \in T : e.item # NoItem => Recorded(q, e)
    <3>1. Told1(NoItem, text, RawCompleted).item = NoItem
      BY DEF Told1
    <3>2. \A e \in T : e.item # NoItem => e \in S
      BY <3>1
    <3>3. \A e \in S : e.item # NoItem => Recorded(q, e)
      BY <1>1, <2>2 DEF Complete, Recorded
    <3> QED BY <3>2, <3>3
  <2>4. TextsIn(S, RawCompleted) \subseteq r.raws /\ \A u, v \in r.raws : u = v
    BY <2>2 DEF Complete
  <2>5. /\ TextsIn(T, RawCompleted) \subseteq q.raws
        /\ \A u, v \in q.raws : u = v
    <3>1. CASE r.raws = {} /\ q.raws = {text}
      BY <1>4, <2>4, <3>1
    <3>2. CASE text \in r.raws /\ q = r
      BY <1>4, <2>4, <3>2
    <3> QED BY <1>2, <1>7, <3>1, <3>2 DEF RawCases
  <2>6. ~Disputed(q)
    BY <1>3, <2>2 DEF Complete
  <2> QED BY <1>4, <2>3, <2>5, <2>6 DEF Complete
<1>8. Reasoned(q, T)
  <2>1. ASSUME Early(T), q.ambiguity = "MULTIPLE_FINAL"
        PROVE  TwoTexts(T, ItemCompleted)
    <3>1. r.ambiguity = "MULTIPLE_FINAL"
      BY <1>2, <2>1 DEF RawCases
    <3> QED BY <1>4, <2>1, <3>1, Monotone DEF Reasoned
  <2>2. ASSUME Early(T), q.ambiguity = "MULTIPLE_RAW"
        PROVE  TwoTexts(T, RawCompleted)
    <3>1. CASE r.ambiguity = "MULTIPLE_RAW"
      BY <1>4, <2>2, <3>1, Monotone DEF Reasoned
    <3>2. CASE r.raws # {} /\ text \notin r.raws
      <4>1. PICK u \in r.raws : u # text
        BY <3>2
      <4>2. u \in TextsIn(T, RawCompleted) /\ text \in TextsIn(T, RawCompleted)
        BY <1>4, <1>5, <4>1 DEF Witnessed
      <4> QED BY <4>1, <4>2 DEF TwoTexts
    <3> QED BY <1>2, <2>2, <3>1, <3>2 DEF RawCases
  <2> QED BY <2>1, <2>2 DEF Reasoned
<1> QED BY <1>6, <1>7, <1>8 DEF Agrees

LEMMA RawSettles ==
  ASSUME NEW r \in Results, NEW text \in Texts, NEW q, q = SetRaw(r, text),
         NEW S, Heard(S), NEW T, T = S \cup {Told1(NoItem, text, RawCompleted)},
         Agrees(r, S), Sealed(r), Frozen(r, S), Best(r, S), First(r, S)
  PROVE  Sealed(q) /\ Frozen(q, T) /\ Best(q, T) /\ First(q, T)
<1>1. q \in Results /\ q.item = r.item
  BY RawFacts
<1>2. RawCases(q, r, text)
  BY RawFacts DEF RawCases
<1>3. Told(q) = Told(r)
  BY <1>1 DEF Told
<1>4. /\ S \subseteq T /\ T # {}
      /\ TextsIn(T, RawCompleted) = TextsIn(S, RawCompleted) \cup {text}
      /\ \A k : k # RawCompleted => TextsIn(T, k) = TextsIn(S, k)
  <2>1. Grown(T, S, text, RawCompleted)
    BY TextsGrow
  <2> QED BY <2>1 DEF Grown
<1>5. Sealed(q)
  BY <1>1, <1>3 DEF Sealed
<1>6. CASE q.ambiguity # "none"
  BY <1>5, <1>6 DEF Frozen, Best, First
<1>7. CASE q.ambiguity = "none"
  <2>1. r.ambiguity = "none" /\ Complete(r, S) /\ Witnessed(r, S)
    BY <1>2, <1>7 DEF RawCases, Agrees
  <2>2. q.id = r.id
    BY <1>2, <1>7 DEF RawCases
  <2>3. Quiet(S) => Quiet(T)
    BY <1>4 DEF Quiet, ItemCompleted, RawCompleted
  <2>4. q.id \in Told(q) \/ Quiet(T)
    <3>1. CASE S # {}
      BY <1>3, <2>1, <2>2, <2>3, <3>1 DEF Frozen
    <3>2. CASE S = {}
      BY <1>4, <3>2 DEF Quiet, TextsIn, ItemCompleted, RawCompleted
    <3> QED BY <3>1, <3>2
  <2>5. text \in r.raws => S # {} /\ \E e \in S : e.rank = RawCompleted
    BY <2>1 DEF Witnessed, TextsIn
  <2>6. r.source = 0 <=> S = {}
    BY <2>1 DEF Frozen
  <2>7. q.source # 0
    <3>1. Outranked(r, RawCompleted) => r.source # 0
      BY DEF Outranked
    <3> QED BY <1>2, <1>7, <2>1, <2>5, <2>6, <3>1 DEF RawCases, RawCompleted
  <2>8. Frozen(q, T)
    BY <1>4, <2>4, <2>7 DEF Frozen
  <2>9. ASSUME OneTeller(T)
        PROVE  q.text \in TextsIn(T, q.source) /\ \A e \in T : q.source <= e.rank
    <3>1. OneTeller(S)
      BY <1>4, <2>9, Monotone
    <3>2. S # {} => r.text \in TextsIn(S, r.source) /\ \A e \in S : r.source <= e.rank
      BY <2>1, <3>1 DEF Best
    <3>3. \A e \in T : e \in S \/ e.rank = RawCompleted
      BY DEF Told1
    <3>4. \A e \in S : e.rank \in Nat
      BY DEF Heard, Ranks, ItemCompleted, ThreadRead
    <3>5. r.source \in Nat /\ RawCompleted \in Nat
      BY Fields DEF Ranks, ItemCompleted, ThreadRead, RawCompleted
    <3>6. CASE /\ ~Outranked(r, RawCompleted)
               /\ q.text = text /\ q.source = RawCompleted
      <4>1. S # {} => RawCompleted <= r.source
        BY <2>6, <3>5, <3>6 DEF Outranked
      <4>2. \A e \in S : RawCompleted <= e.rank
        BY <3>2, <3>4, <3>5, <4>1
      <4> QED BY <1>4, <3>3, <3>5, <3>6, <4>2
    <3>7. CASE /\ Outranked(r, RawCompleted)
               /\ q.text = r.text /\ q.source = r.source
      <4>1. S # {} /\ r.source <= RawCompleted
        BY <2>6, <3>5, <3>7 DEF Outranked
      <4>2. r.text \in TextsIn(T, r.source)
        BY <1>4, <3>2, <4>1, Monotone
      <4> QED BY <3>2, <3>3, <3>7, <4>1, <4>2
    <3>8. CASE text \in r.raws /\ q = r
      <4>1. S # {} /\ r.source <= RawCompleted
        BY <2>5, <3>2, <3>8
      <4>2. r.text \in TextsIn(T, r.source)
        BY <1>4, <3>2, <4>1, Monotone
      <4> QED BY <3>2, <3>3, <3>8, <4>1, <4>2
    <3> QED BY <1>2, <1>7, <2>1, <3>6, <3>7, <3>8 DEF RawCases
  <2>10. ASSUME Early(T), TextsIn(T, ItemCompleted) # {}
         PROVE  /\ q.text \in TextsIn(T, ItemCompleted) /\ q.id = Least(Told(q))
                /\ q.source = ItemCompleted
    <3>1. TextsIn(T, ItemCompleted) = TextsIn(S, ItemCompleted) /\ Early(S)
      BY <1>4, <2>10, Monotone DEF ItemCompleted, RawCompleted
    <3>2. /\ r.text \in TextsIn(S, ItemCompleted) /\ r.id = Least(Told(r))
          /\ r.source = ItemCompleted
      BY <2>1, <2>10, <3>1 DEF First
    <3>3. Outranked(r, RawCompleted)
      BY <3>2 DEF Outranked, RawCompleted, ItemCompleted
    <3>4. q.text = r.text /\ q.source = r.source
      BY <1>2, <1>7, <3>3 DEF RawCases
    <3> QED BY <1>3, <2>2, <3>1, <3>2, <3>4
  <2> QED BY <1>5, <2>8, <2>9, <2>10 DEF Best, First
<1> QED BY <1>6, <1>7
(* The entry just told, among those of before.                               *)
LEMMA EntryPlaced ==
  ASSUME NEW r \in Results, NEW p \in Results, NEW x \in Items, NEW text, NEW rank \in Ranks,
         p.item = [r.item EXCEPT ![x] = Entry(text, rank)]
  PROVE  /\ p.item[x].rank = rank /\ p.item[x].text = text
         /\ p.item[x].class = "final" /\ p.item[x].buffer = <<>>
         /\ Changes(p, r, x) /\ Told(p) = Told(r) \cup {x}
<1>1. p.item[x] = Entry(text, rank) /\ Changes(p, r, x)
  BY Fields DEF Changes
<1>2. rank # 0
  BY DEF Ranks, ItemCompleted, ThreadRead
<1>3. p.item[x].rank = rank
  BY <1>1 DEF Entry
<1>4. Told(p) = Told(r) \cup {x}
  BY <1>1, <1>2, <1>3 DEF Told, Changes
<1> QED BY <1>1, <1>3, <1>4 DEF Entry

(* A message told again keeps its entry: a better source has told of it, or  *)
(* the same source something else.                                           *)
LEMMA EntryKept ==
  ASSUME NEW r \in Results, NEW q \in Results, NEW x \in Items, NEW text, NEW rank \in Ranks,
         Changes(q, r, x), KeepsText(q, r, x), Skips(r, x, rank) \/ Clashes(r, x, text, rank)
  PROVE  /\ SameTold(q, r, x) /\ x \in Told(r)
         /\ q.item[x].class = "final" /\ q.item[x].buffer = r.item[x].buffer
<1>1. q.item[x] = Finalized(r.item[x]) /\ r.item[x] \in ItemStates
  BY States DEF KeepsText
<1>2. /\ SameTold(q, r, x)
      /\ q.item[x].class = "final" /\ q.item[x].buffer = r.item[x].buffer
  BY <1>1 DEF Finalized, ItemStates, SameTold
<1>3. rank # 0
  BY DEF Ranks, ItemCompleted, ThreadRead
<1>4. r.item[x].rank # 0
  BY <1>3 DEF Skips, Clashes
<1> QED BY <1>2, <1>4 DEF Told

(* A new entry that counts tells of its message no worse than all before.    *)
LEMMA CompleteGrows ==
  ASSUME NEW r \in Results, NEW q \in Results, NEW x \in Items, NEW text \in Texts,
         NEW rank \in Ranks, rank # RawCompleted, Counts(r, x, text, rank),
         q.item = [r.item EXCEPT ![x] = Entry(text, rank)], SameRaws(q, r),
         NEW S, Heard(S), NEW T, T = S \cup {Told1(x, text, rank)},
         Complete(r, S), ~Disputed(q)
  PROVE  Complete(q, T)
<1>1. /\ q.item[x].rank = rank /\ q.item[x].text = text /\ Changes(q, r, x)
  BY SMTT(30), EntryPlaced
<1>2. \A k \in Ranks : k \in Nat /\ k > 0
  BY DEF Ranks, ItemCompleted, ThreadRead
<1>3. ASSUME NEW e \in S, e.item # NoItem
      PROVE  Recorded(q, e)
  <2>1. e.item \in Items /\ e.rank \in Ranks /\ Recorded(r, e)
    BY <1>3 DEF Complete, Heard
  <2>2. CASE e.item # x
    BY <1>1, <2>1, <2>2 DEF Changes, Recorded
  <2>3. CASE e.item = x
    <3>1. r.item[x].rank \in 1 .. e.rank
      BY <2>1, <2>3 DEF Recorded
    <3>2. rank <= r.item[x].rank
      BY <1>2, <3>1 DEF Counts, Skips
    <3>3. q.item[x].rank \in 1 .. e.rank
      BY <1>1, <1>2, <2>1, <3>1, <3>2
    <3>4. ASSUME rank = e.rank
          PROVE  text = e.text
      <4>1. r.item[x].rank = rank
        BY <1>2, <2>1, <3>1, <3>2, <3>4
      <4>2. r.item[x].text = e.text
        BY <2>1, <2>3, <3>4, <4>1 DEF Recorded
      <4> QED BY <4>1, <4>2 DEF Counts, Clashes
    <3> QED BY <1>1, <2>3, <3>3, <3>4 DEF Recorded
  <2> QED BY <2>2, <2>3
<1>4. ASSUME NEW e, e = Told1(x, text, rank)
      PROVE  Recorded(q, e)
  <2>1. e.item = x /\ e.text = text /\ e.rank = rank
    BY <1>4 DEF Told1
  <2>2. rank \in 1 .. rank
    BY <1>2
  <2> QED BY <1>1, <2>1, <2>2 DEF Recorded
<1>5. \A e \in T : e.item # NoItem => Recorded(q, e)
  BY <1>3, <1>4
<1>6. /\ T # {} /\ TextsIn(T, RawCompleted) = TextsIn(S, RawCompleted)
  <2>1. Grown(T, S, text, rank)
    BY TextsGrow
  <2> QED BY <2>1 DEF Grown
<1> QED BY <1>5, <1>6 DEF Complete, SameRaws

LEMMA SetAgrees ==
  ASSUME NEW r \in Results, NEW x \in Items, NEW text \in Texts,
         NEW rank \in Ranks, rank # RawCompleted,
         NEW q, q = SetAuthoritative(r, x, text, rank),
         NEW S, Heard(S), NEW T, Heard(T), T = S \cup {Told1(x, text, rank)},
         Agrees(r, S), Reasoned(r, S)
  PROVE  Agrees(q, T) /\ Reasoned(q, T)
<1>1. q \in Results /\ SameRaws(q, r) /\ Changes(q, r, x)
  BY SetFacts
<1>2. Grown(T, S, text, rank) /\ S \subseteq T
  BY TextsGrow
<1>3. Witnessed(r, S) /\ Witnessed(r, T)
  BY <1>2, Monotone DEF Agrees
<1>4. CASE Rejected(r, x)
  <2>1. OverLimit(q, x)
    BY <1>4, SetFacts
  <2> QED BY <1>1, <1>2, <2>1, LimitAgrees
<1>5. CASE ~Rejected(r, x) /\ (Skips(r, x, rank) \/ Clashes(r, x, text, rank))
  <2>1. KeepsText(q, r, x)
    <3>1. ~Counts(r, x, text, rank)
      BY <1>5 DEF Counts
    <3> QED BY <1>5, <3>1, SetFacts
  <2>2. SameTold(q, r, x) /\ x \in Told(r)
    BY <1>1, <1>5, <2>1, EntryKept
  <2>3. /\ Told(q) = Told(r) /\ Disputed(q) = Disputed(r)
        /\ \A y \in Items : SameTold(q, r, y)
    BY <1>1, <2>2, SameToldFacts
  <2>4. Witnessed(q, T)
    <3>1. \A y \in Told(q) : q.item[y].rank = r.item[y].rank /\ q.item[y].text = r.item[y].text
      BY <2>3 DEF Told, SameTold
    <3>2. \A y \in Told(q) : Told1(y, q.item[y].text, q.item[y].rank) \in T
      BY <1>3, <2>3, <3>1 DEF Witnessed
    <3> QED BY <1>1, <1>3, <3>2 DEF Witnessed, SameRaws
  <2>5. r.item[x].rank \in Ranks
    BY <2>2, States DEF Told
  <2>6. CASE Skips(r, x, rank)
    <3>1. SameChoice(q, r)
      BY <1>5, <2>6, SetFacts
    <3>2. SameSource(q, r)
      BY <3>1 DEF SameChoice, SameSource
    <3>3. Agrees(q, S)
      BY <1>1, <2>2, <3>2, SameAgrees
    <3>4. ASSUME q.ambiguity = "none"
          PROVE  Complete(q, T)
      <4>1. Complete(q, S)
        BY <3>3, <3>4 DEF Agrees
      <4>2. q.item[x].rank < rank /\ q.item[x].rank >= 1 /\ rank \in Nat /\ q.item[x].rank \in Nat
        BY <2>2, <2>5, <2>6 DEF SameTold, Skips, Ranks, ItemCompleted, ThreadRead
      <4>3. ASSUME NEW e, e = Told1(x, text, rank)
            PROVE  Recorded(q, e)
        <5>1. e.item = x /\ e.rank = rank
          BY <4>3 DEF Told1
        <5> QED BY <4>2, <5>1 DEF Recorded
      <4>4. \A e \in T : e.item # NoItem => Recorded(q, e)
        BY <4>1, <4>3 DEF Complete
      <4>5. T # {} /\ TextsIn(T, RawCompleted) = TextsIn(S, RawCompleted)
        BY <1>2 DEF Grown
      <4> QED BY <4>1, <4>4, <4>5 DEF Complete
    <3>5. ~Early(T)
      <4>1. rank \in {TurnPayload, ThreadRead}
        BY <2>5, <2>6 DEF Skips, Ranks, ItemCompleted, RawCompleted, TurnPayload, ThreadRead
      <4>2. TextsIn(T, rank) # {}
        BY <1>2 DEF Grown
      <4> QED BY <4>1, <4>2 DEF Early
    <3> QED BY <2>4, <3>4, <3>5 DEF Agrees, Reasoned
  <2>7. CASE Clashes(r, x, text, rank)
    <3>1. q.ambiguity = "MULTIPLE_FINAL"
      BY <1>5, <2>7, SetFacts DEF InConflict
    <3>2. ASSUME Early(T)
          PROVE  TwoTexts(T, ItemCompleted)
      <4>1. r.item[x].rank = ItemCompleted /\ r.item[x].text \in TextsIn(T, ItemCompleted)
        BY <1>3, <2>2, <3>2, ToldWasHeard
      <4>2. rank = ItemCompleted /\ text # r.item[x].text
        BY <2>7, <4>1 DEF Clashes
      <4>3. text \in TextsIn(T, ItemCompleted)
        BY <1>2, <4>2 DEF Grown
      <4> QED BY <4>1, <4>2, <4>3 DEF TwoTexts
    <3> QED BY <2>4, <3>1, <3>2 DEF Agrees, Reasoned
  <2> QED BY <1>5, <2>6, <2>7
<1>6. CASE Counts(r, x, text, rank)
  <2>1. PICK p \in Results :
          /\ SameChoice(p, r) /\ p.item = [r.item EXCEPT ![x] = Entry(text, rank)]
          /\ q = Reconcile(p, x, text, rank) /\ q.item = p.item
    BY <1>6, SetFacts DEF Reconciled
  <2>2. /\ p.item[x].rank = rank /\ p.item[x].text = text /\ Changes(p, r, x)
        /\ Told(p) = Told(r) \cup {x}
    BY <2>1, EntryPlaced
  <2>3. Told(q) = Told(p) /\ (Disputed(q) <=> Disputed(p))
    BY <2>1 DEF Told, Disputed
  <2>4. Witnessed(q, T)
    <3>1. \A y \in Told(q) : y = x \/ (y \in Told(r) /\ q.item[y] = r.item[y])
      BY <2>1, <2>2, <2>3 DEF Changes, Told
    <3>2. q.item[x].rank = rank /\ q.item[x].text = text
      BY <2>1, <2>2
    <3>3. \A y \in Told(q) : Told1(y, q.item[y].text, q.item[y].rank) \in T
      BY <1>3, <3>1, <3>2 DEF Witnessed
    <3> QED BY <1>1, <1>3, <3>3 DEF Witnessed, SameRaws
  <2>5. text \in Seq(Chunks)
    BY FinalAssumption
  <2>6. x \in Told(p)
    BY <2>2
  <2>7. Chosen(q, p, x, text, rank)
    BY <2>1, <2>5, <2>6, ReconcileFacts
  <2>8. Disputed(p) => q.ambiguity = "MULTIPLE_FINAL"
    BY <2>7 DEF Chosen
  <2>9. ~Disputed(p) => q.ambiguity = r.ambiguity
    <3>1. CASE Told(p) # {x}
      <4>1. ~Disputed(p) => q.ambiguity = p.ambiguity
        BY <2>7, <3>1 DEF Chosen
      <4> QED BY <2>1, <4>1 DEF SameChoice
    <3>2. CASE Told(p) = {x}
      <4>1. ~Disputed(p) => q = Select(p, x, text, rank)
        BY <2>7, <3>2 DEF Chosen
      <4>2. ~Disputed(p) => q.ambiguity = p.ambiguity
        BY <2>5, <4>1, SelectFacts DEF SameTable
      <4> QED BY <2>1, <4>2 DEF SameChoice
    <3> QED BY <3>1, <3>2
  <2>10. ASSUME q.ambiguity = "none"
        PROVE  Complete(q, T)
    <3>1. ~Disputed(q) /\ r.ambiguity = "none"
      BY <2>3, <2>8, <2>9, <2>10
    <3>2. Complete(r, S)
      BY <3>1 DEF Agrees
    <3>3. q.item = [r.item EXCEPT ![x] = Entry(text, rank)]
      BY <2>1
    <3> QED BY <1>1, <1>6, <3>1, <3>2, <3>3, CompleteGrows
  <2>11. ASSUME Early(T), q.ambiguity = "MULTIPLE_FINAL"
        PROVE  TwoTexts(T, ItemCompleted)
    <3>1. CASE Disputed(p)
      <4>1. PICK y \in Told(q), z \in Told(q) : q.item[y].text # q.item[z].text
        BY <2>3, <3>1 DEF Disputed
      <4>2. /\ q.item[y].text \in TextsIn(T, ItemCompleted)
            /\ q.item[z].text \in TextsIn(T, ItemCompleted)
        BY <1>1, <2>4, <2>11, ToldWasHeard
      <4> QED BY <4>1, <4>2 DEF TwoTexts
    <3>2. CASE ~Disputed(p)
      <4>1. r.ambiguity = "MULTIPLE_FINAL"
        BY <2>9, <2>11, <3>2
      <4> QED BY <1>2, <2>11, <4>1, Monotone DEF Reasoned
    <3> QED BY <3>1, <3>2
  <2>12. ASSUME Early(T), q.ambiguity = "MULTIPLE_RAW"
         PROVE  TwoTexts(T, RawCompleted)
    <3>1. r.ambiguity = "MULTIPLE_RAW"
      BY <2>8, <2>9, <2>12
    <3> QED BY <1>2, <2>12, <3>1, Monotone DEF Reasoned
  <2> QED BY <2>4, <2>10, <2>11, <2>12 DEF Agrees, Reasoned
<1> QED BY <1>4, <1>5, <1>6 DEF Counts
LEMMA SetSettles ==
  ASSUME NEW r \in Results, NEW x \in Items, NEW text \in Texts,
         NEW rank \in Ranks, rank # RawCompleted,
         NEW q, q = SetAuthoritative(r, x, text, rank),
         NEW S, Heard(S), NEW T, Heard(T), T = S \cup {Told1(x, text, rank)},
         Agrees(r, S), Sealed(r), Frozen(r, S), First(r, S),
         rank = ItemCompleted \/ Best(r, S)
  PROVE  Sealed(q) /\ Frozen(q, T) /\ Best(q, T) /\ First(q, T)
<1>1. q \in Results /\ SameRaws(q, r) /\ Changes(q, r, x)
  BY SetFacts
<1>2. Grown(T, S, text, rank) /\ S \subseteq T /\ Told1(x, text, rank) \in T
  BY TextsGrow
<1>3. Witnessed(r, S)
  BY DEF Agrees
<1>4. /\ \A k \in Ranks : k \in Nat /\ 1 <= k
      /\ ItemCompleted = 1
  BY DEF Ranks, ItemCompleted, ThreadRead
<1>5. x # NoItem /\ Told1(x, text, rank).item = x
  BY FinalAssumption DEF NoItem, Told1
<1>6. Early(T) => rank = ItemCompleted
  <2>1. TextsIn(T, rank) # {}
    BY <1>2 DEF Grown
  <2>2. Early(T) => rank \notin {TurnPayload, ThreadRead}
    BY <2>1 DEF Early
  <2> QED BY <2>2 DEF Ranks, ItemCompleted, RawCompleted, TurnPayload, ThreadRead
<1>7. rank # ItemCompleted => (Quiet(S) => Quiet(T))
  BY <1>2 DEF Grown, Quiet
<1>8. Told(r) # {} => S # {}
  BY <1>3, ToldWasHeard
<1>9. \A e \in T : e \in S \/ e.rank = rank
  BY DEF Told1
<1>10. r.source \in Nat /\ rank \in Nat
  BY <1>4, Fields DEF Ranks, ItemCompleted, ThreadRead
<1>11. CASE Rejected(r, x)
  <2>1. OverLimit(q, x)
    BY <1>11, SetFacts
  <2> QED BY <1>1, <1>2, <2>1, LimitAgrees
<1>12. CASE ~Rejected(r, x) /\ (Skips(r, x, rank) \/ Clashes(r, x, text, rank))
  <2>1. KeepsText(q, r, x)
    <3>1. ~Counts(r, x, text, rank)
      BY <1>12 DEF Counts
    <3> QED BY <1>12, <3>1, SetFacts
  <2>2. /\ SameTold(q, r, x) /\ x \in Told(r)
        /\ q.item[x].class = "final" /\ q.item[x].buffer = r.item[x].buffer
    BY <1>1, <1>12, <2>1, EntryKept
  <2>3. Told(q) = Told(r)
    BY <1>1, <2>2, SameToldFacts
  <2>4. Sealed(q)
    <3>1. r.item[x].buffer = <<>>
      BY <2>2 DEF Sealed
    <3>2. \A y \in Told(r) : y = x \/ q.item[y] = r.item[y]
      BY <1>1 DEF Told, Changes
    <3> QED BY <2>2, <2>3, <3>1, <3>2 DEF Sealed
  <2>5. CASE Skips(r, x, rank)
    <3>1. SameChoice(q, r)
      BY <1>12, <2>5, SetFacts
    <3>2. PICK e \in S : e.item = x /\ e.rank = r.item[x].rank
      BY <1>3, <2>2, ToldWasHeard
    <3>3. e.rank < rank /\ e.rank \in Ranks
      <4>1. r.item[x].rank \in Ranks
        BY <1>3, <2>2, ToldWasHeard
      <4> QED BY <1>4, <2>5, <3>2, <4>1 DEF Skips
    <3>4. rank # ItemCompleted
      BY <1>4, <3>3
    <3>5. ASSUME q.ambiguity = "none"
          PROVE  Frozen(q, T) /\ Best(q, T)
      <4>1. r.ambiguity = "none" /\ q.source = r.source /\ q.id = r.id /\ q.text = r.text
        BY <3>1, <3>5 DEF SameChoice
      <4>2. q.source # 0 /\ (q.id \in Told(q) \/ Quiet(T))
        BY <1>7, <2>3, <3>2, <3>4, <4>1 DEF Frozen
      <4>3. ASSUME OneTeller(T)
            PROVE  q.text \in TextsIn(T, q.source) /\ \A f \in T : q.source <= f.rank
        <5>1. OneTeller(S)
          BY <1>2, <4>3, Monotone
        <5>2. r.text \in TextsIn(S, r.source) /\ \A f \in S : r.source <= f.rank
          BY <3>2, <3>4, <4>1, <5>1 DEF Best
        <5>3. r.source <= rank
          <6>1. r.source <= e.rank /\ e.rank \in Nat
            BY <1>4, <3>2, <3>3, <5>2
          <6> QED BY <1>10, <3>3, <6>1
        <5>4. r.text \in TextsIn(T, r.source)
          BY <1>2, <5>2, Monotone
        <5> QED BY <1>9, <4>1, <5>2, <5>3, <5>4
      <4> QED BY <1>2, <4>2, <4>3 DEF Frozen, Best
    <3>6. First(q, T)
      BY <1>6, <3>4 DEF First
    <3> QED BY <2>4, <3>5, <3>6 DEF Frozen, Best
  <2>6. CASE Clashes(r, x, text, rank)
    <3>1. q.ambiguity = "MULTIPLE_FINAL"
      BY <1>12, <2>6, SetFacts DEF InConflict
    <3> QED BY <2>4, <3>1 DEF Frozen, Best, First
  <2> QED BY <1>12, <2>5, <2>6
<1>13. CASE Counts(r, x, text, rank)
  <2>1. PICK p \in Results :
          /\ SameChoice(p, r) /\ p.item = [r.item EXCEPT ![x] = Entry(text, rank)]
          /\ q = Reconcile(p, x, text, rank) /\ q.item = p.item
    BY <1>13, SetFacts DEF Reconciled
  <2>2. /\ p.item[x].class = "final" /\ p.item[x].buffer = <<>>
        /\ Changes(p, r, x) /\ Told(p) = Told(r) \cup {x} /\ x \in Told(p)
    BY SMTT(30), <2>1, EntryPlaced
  <2>3. Told(q) = Told(p) /\ Told(p) \subseteq Items
    BY <2>1 DEF Told
  <2>4. Sealed(q)
    <3>1. \A y \in Told(q) : y = x \/ (y \in Told(r) /\ q.item[y] = r.item[y])
      BY <2>1, <2>2, <2>3 DEF Changes
    <3> QED BY <2>1, <2>2, <3>1 DEF Sealed
  <2>5. text \in Seq(Chunks)
    BY FinalAssumption
  <2>6. Chosen(q, p, x, text, rank)
    BY <2>1, <2>2, <2>5, ReconcileFacts
  <2>7. CASE Disputed(p)
    <3>1. q.ambiguity = "MULTIPLE_FINAL"
      BY <2>6, <2>7 DEF Chosen
    <3> QED BY <2>4, <3>1 DEF Frozen, Best, First
  <2>8. CASE ~Disputed(p) /\ Told(p) # {x}
    <3>1. /\ q.ambiguity = p.ambiguity /\ q.id = Least(Told(p))
          /\ q.text = p.text /\ q.source = p.source
      BY <2>6, <2>8 DEF Chosen
    <3>2. q.ambiguity = r.ambiguity /\ q.text = r.text /\ q.source = r.source
      BY <2>1, <3>1 DEF SameChoice
    <3>3. PICK y \in Told(r) : y # x
      BY <2>2, <2>8
    <3>4. PICK e \in S : e.item = y /\ e.rank = r.item[y].rank
      BY <1>3, <3>3, ToldWasHeard
    <3>5. q.id \in Told(q)
      <4>1. Told(p) # {}
        BY <2>2
      <4> QED BY <2>1, <2>3, <3>1, <4>1, ToldIsItems
    <3>6. Frozen(q, T)
      <4>1. q.ambiguity = "none" => q.source # 0
        BY <3>2, <3>4 DEF Frozen
      <4> QED BY <1>2, <3>5, <4>1 DEF Frozen
    <3>7. ~OneTeller(T)
      <4>1. y # NoItem
        BY <1>3, <3>3, ToldWasHeard
      <4> QED BY <1>2, <1>5, <3>3, <3>4, <4>1 DEF OneTeller
    <3>8. ASSUME q.ambiguity = "none", Early(T)
          PROVE  q.text \in TextsIn(T, ItemCompleted) /\ q.source = ItemCompleted
      <4>1. Early(S)
        BY <1>2, <3>8, Monotone
      <4>2. r.item[y].rank = ItemCompleted /\ r.item[y].text \in TextsIn(S, r.item[y].rank)
        BY <1>3, <3>3, <4>1, ToldWasHeard
      <4>3. r.text \in TextsIn(S, ItemCompleted) /\ r.source = ItemCompleted
        BY <3>2, <3>8, <4>1, <4>2 DEF First
      <4>4. r.text \in TextsIn(T, ItemCompleted)
        BY <1>2, <4>3, Monotone
      <4> QED BY <3>2, <4>3, <4>4
    <3> QED BY <2>3, <2>4, <3>1, <3>6, <3>7, <3>8 DEF Best, First
  <2>9. CASE ~Disputed(p) /\ Told(p) = {x}
    <3>1. q = Select(p, x, text, rank)
      BY <2>6, <2>9 DEF Chosen
    <3>2. q.ambiguity = r.ambiguity
      <4>1. q.ambiguity = p.ambiguity
        BY <2>5, <3>1, SelectFacts DEF SameTable
      <4> QED BY <2>1, <4>1 DEF SameChoice
    <3>3. CASE q.ambiguity # "none"
      BY <2>4, <3>3 DEF Frozen, Best, First
    <3>4. p.ambiguity = r.ambiguity /\ p.source = r.source /\ p.text = r.text /\ p.id = r.id
      BY <2>1 DEF SameChoice
    <3>5. CASE q.ambiguity = "none" /\ ~Outranked(p, rank)
      <4>1. q.text = text /\ q.source = rank /\ q.id = x
        BY <1>5, <2>5, <3>1, <3>2, <3>4, <3>5, SelectFacts
      <4>2. Frozen(q, T)
        BY <1>2, <1>4, <2>3, <2>9, <4>1 DEF Frozen
      <4>3. text \in TextsIn(T, rank)
        BY <1>2 DEF Grown
      <4>4. ASSUME OneTeller(T), NEW e \in S
            PROVE  rank <= e.rank
        <5>1. e.rank \in Ranks
          BY DEF Heard
        <5>2. CASE rank = ItemCompleted
          BY <1>4, <5>1, <5>2
        <5>3. CASE Best(r, S)
          <6>1. OneTeller(S)
            BY <1>2, <4>4, Monotone
          <6>2. r.source <= e.rank /\ r.source # 0
            BY <3>2, <3>5, <4>4, <5>3, <6>1 DEF Best, Frozen
          <6>3. rank <= r.source
            BY <1>10, <3>4, <3>5, <6>2 DEF Outranked
          <6>4. e.rank \in Nat
            BY <1>4, <5>1
          <6> QED BY <1>10, <6>2, <6>3, <6>4
        <5> QED BY <5>2, <5>3
      <4>5. Best(q, T)
        <5>1. rank <= rank
          BY <1>10
        <5> QED BY <1>9, <4>1, <4>3, <4>4, <5>1 DEF Best
      <4>6. First(q, T)
        <5>1. Least(Told(q)) = x
          BY <2>1, <2>3, <2>9, ToldIsItems
        <5> QED BY <1>6, <4>1, <4>3, <5>1 DEF First
      <4> QED BY <2>4, <4>2, <4>5, <4>6
    <3>6. CASE q.ambiguity = "none" /\ Outranked(p, rank)
      <4>1. q = p
        BY <1>5, <2>5, <3>1, <3>6, SelectFacts
      <4>2. /\ q.text = r.text /\ q.source = r.source /\ q.id = r.id
            /\ r.source # 0 /\ rank > r.source
        BY <3>4, <3>6, <4>1 DEF Outranked
      <4>3. rank # ItemCompleted
        BY <1>4, <1>10, <4>2
      <4>4. S # {} /\ (r.id \in Told(r) \/ Quiet(S))
        BY <3>2, <3>6, <4>2 DEF Frozen
      <4>5. Frozen(q, T)
        BY <1>2, <1>7, <2>2, <2>3, <4>2, <4>3, <4>4 DEF Frozen
      <4>6. ASSUME OneTeller(T)
            PROVE  q.text \in TextsIn(T, q.source) /\ \A e \in T : q.source <= e.rank
        <5>1. OneTeller(S)
          BY <1>2, <4>6, Monotone
        <5>2. r.text \in TextsIn(S, r.source) /\ \A e \in S : r.source <= e.rank
          BY <3>2, <3>6, <4>3, <4>4, <5>1 DEF Best
        <5>3. r.text \in TextsIn(T, r.source)
          BY <1>2, <5>2, Monotone
        <5>4. r.source <= rank
          BY <1>10, <4>2
        <5> QED BY <1>9, <4>2, <5>2, <5>3, <5>4
      <4>7. First(q, T)
        BY <1>6, <4>3 DEF First
      <4> QED BY <2>4, <4>5, <4>6, <4>7 DEF Best
    <3> QED BY <3>3, <3>5, <3>6
  <2> QED BY <2>7, <2>8, <2>9
<1> QED BY <1>11, <1>12, <1>13 DEF Counts
------------------------------------------------------------------------------
(* The steps of the turn.                                                    *)

Settled(r, S) == Sealed(r) /\ Frozen(r, S) /\ Best(r, S) /\ First(r, S)

(* The server still streams of x.                                            *)
Streams(x, S) ==
  /\ \A e \in S : e.item # x
  /\ \A e \in S : e.rank = RawCompleted => \E f \in S : f.rank = ItemCompleted

LEMMA ClassifyAnswer ==
  ASSUME NEW r \in Results, NEW x \in Items,
         NEW class \in {"final", "commentary", "open"}, NEW q, q = Classify(r, x, class),
         NEW S, Heard(S), Agrees(r, S), Reasoned(r, S)
  PROVE  /\ Agrees(q, S) /\ Reasoned(q, S)
         /\ Streams(x, S) /\ Settled(r, S) => Settled(q, S)
<1>1. q \in Results /\ Changes(q, r, x) /\ SameRaws(q, r)
  BY ClassifyFacts
<1>2. CASE class = "final" /\ Rejected(r, x)
  <2>1. OverLimit(q, x)
    BY <1>2, ClassifyFacts DEF OverLimit
  <2> QED BY <1>1, <2>1, LimitAgrees DEF Settled
<1>3. CASE ~(class = "final" /\ Rejected(r, x))
  <2>1. SameTold(q, r, x) /\ SameSource(q, r)
    BY <1>3, ClassifyFacts DEF SameChoice, SameSource
  <2>2. Agrees(q, S) /\ Reasoned(q, S)
    BY <1>1, <2>1, SameAgrees
  <2>3. r.id \notin {NoItem, x} => SameStream(q, r)
    BY <1>3, ClassifyFacts DEF SameChoice, SameStream
  <2>4. Streams(x, S) /\ Settled(r, S) => Settled(q, S)
    BY <1>1, <2>1, <2>3, StreamSettles DEF Streams, Settled
  <2> QED BY <2>2, <2>4
<1> QED BY <1>2, <1>3

LEMMA DeltaAnswer ==
  ASSUME NEW r \in Results, NEW x \in Items, NEW s \in Seq(Chunks), NEW q, q = Delta(r, x, s),
         NEW S, Heard(S), Agrees(r, S), Reasoned(r, S)
  PROVE  /\ Agrees(q, S) /\ Reasoned(q, S)
         /\ Streams(x, S) /\ Settled(r, S) => Settled(q, S)
<1>1. q \in Results /\ Changes(q, r, x) /\ SameTold(q, r, x) /\ SameSource(q, r)
  BY DeltaFacts
<1>2. r.id \notin {NoItem, x} => SameStream(q, r)
  BY DeltaFacts
<1>3. Agrees(q, S) /\ Reasoned(q, S)
  BY <1>1, SameAgrees
<1>4. Streams(x, S) /\ Settled(r, S) => Settled(q, S)
  BY <1>1, <1>2, StreamSettles DEF Streams, Settled
<1> QED BY <1>3, <1>4

(* A completed message is classified and then told, all in one step: what is *)
(* streamed in between is overwritten by the text.                           *)
LEMMA FinalAnswer ==
  ASSUME NEW r \in Results, NEW x \in Items, NEW text \in Texts, NEW p, NEW q,
         p = Classify(r, x, "final"),
         q = IF Rejected(r, x) THEN p ELSE SetAuthoritative(p, x, text, ItemCompleted),
         NEW S, Heard(S), NEW T, Heard(T), T = S \cup {Told1(x, text, ItemCompleted)},
         Agrees(r, S), Reasoned(r, S)
  PROVE  /\ Agrees(q, T) /\ Reasoned(q, T)
         /\ Settled(r, S) => Settled(q, T)
<1>1. p \in Results /\ Changes(p, r, x) /\ SameRaws(p, r)
  BY ClassifyFacts
<1>2. CASE Rejected(r, x)
  <2>1. OverLimit(p, x) /\ q = p /\ S \subseteq T
    BY <1>2, ClassifyFacts DEF OverLimit
  <2> QED BY <1>1, <2>1, LimitAgrees DEF Settled
<1>3. CASE ~Rejected(r, x)
  <2>1. SameTold(p, r, x) /\ SameSource(p, r)
    BY <1>3, ClassifyFacts
  <2>2. Agrees(p, S) /\ Reasoned(p, S)
    BY <1>1, <2>1, SameAgrees
  <2>3. q = SetAuthoritative(p, x, text, ItemCompleted)
    BY <1>3
  <2>4. ItemCompleted \in Ranks /\ ItemCompleted # RawCompleted
    BY DEF Ranks, ItemCompleted, RawCompleted, ThreadRead
  <2>5. Agrees(q, T) /\ Reasoned(q, T)
    BY <1>1, <2>2, <2>3, <2>4, SetAgrees
  <2>6. ASSUME Settled(r, S)
        PROVE  Sealed(p) /\ Frozen(p, S) /\ First(p, S)
    <3>1. Told(p) = Told(r)
      BY <1>1, <2>1, SameToldFacts
    <3>2. p.ambiguity = r.ambiguity /\ p.source = r.source
      BY <2>1 DEF SameSource
    <3>3. /\ p.item[x].class = "final" /\ p.item[x].buffer = <<>>
          /\ r.item[x].buffer = <<>> \/ r.id \notin {NoItem, x} => SameStream(p, r)
      BY <1>3, ClassifyFacts
    <3>4. Sealed(p)
      <4>1. \A y \in Told(r) : y = x \/ p.item[y] = r.item[y]
        BY <1>1 DEF Told, Changes
      <4> QED BY <2>6, <3>1, <3>3, <4>1 DEF Settled, Sealed
    <3>5. SameStream(p, r) \/ r.id \notin Told(r)
      <4>1. x \in Told(r) => r.item[x].buffer = <<>>
        BY <2>6 DEF Settled, Sealed
      <4>2. NoItem \notin Told(r)
        BY FinalAssumption DEF Told, NoItem
      <4> QED BY <3>3, <4>1, <4>2
    <3>6. CASE SameStream(p, r)
      BY <2>6, <3>1, <3>2, <3>4, <3>6 DEF Settled, Frozen, First, SameStream
    <3>7. CASE r.id \notin Told(r)
      <4>1. r.ambiguity = "none" => (r.source = 0 <=> S = {}) /\ (S = {} \/ Quiet(S))
        BY <2>6, <3>7 DEF Settled, Frozen
      <4>2. S = {} \/ Quiet(S) => TextsIn(S, ItemCompleted) = {}
        BY DEF Quiet, TextsIn
      <4> QED BY <3>2, <3>4, <4>1, <4>2 DEF Frozen, First
    <3> QED BY <3>5, <3>6, <3>7
  <2>7. Settled(r, S) => Settled(q, T)
    BY <1>1, <2>2, <2>3, <2>4, <2>6, SetSettles DEF Settled
  <2> QED BY <2>5, <2>7
<1> QED BY <1>2, <1>3

LEMMA FiniteStep ==
  ASSUME AnswerInv, [Next]_vars
  PROVE  IsFiniteSet(seen)'
<1>1. UNCHANGED seen \/ \E e : seen' = seen \cup {e}
  <2>1. ASSUME NEW x, NEW class, NEW chunk, NEW s, NEW list,
               \/ ItemStarted(x, class) \/ AgentDelta(x, chunk) \/ CommentaryCompleted(x)
               \/ TurnCompleted(s, list) \/ StartReturns(s, list) \/ ReadThread(list)
               \/ CapacityExceeded \/ WaitEnds \/ WaitRaises(s) \/ LateDrainEnds
               \/ ThreadReadEnds \/ UNCHANGED vars
        PROVE  UNCHANGED seen
    BY <2>1 DEF ItemStarted, AgentDelta, CommentaryCompleted, TurnCompleted, StartReturns,
                ReadThread, CapacityExceeded, WaitEnds, WaitRaises, LateDrainEnds,
                ThreadReadEnds, vars
  <2>2. ASSUME NEW x, NEW text,
               FinalCompleted(x, text) \/ RawResponseCompleted(text) \/ Candidate
        PROVE  \E e : seen' = seen \cup {e}
    BY <2>2 DEF FinalCompleted, RawResponseCompleted, Candidate, Tell
  <2> QED BY <2>1, <2>2 DEF Next, Event
<1> QED BY <1>1, FS_AddElement DEF AnswerInv

LEMMA AnswerStep ==
  ASSUME TypeInv, AnswerInv, [Next]_vars
  PROVE  AnswerInv'
<1>1. /\ result \in Results /\ Heard(seen) /\ Agrees(result, seen) /\ Reasoned(result, seen)
      /\ ordered => Settled(result, seen)
  BY TypeParts DEF TypeInv, ResultOK, SeenOK, SourceInv, Heard, AnswerInv, Settled
<1>2. SeenOK' /\ SourceInv'
  BY SourceStep DEF TypeInv
<1>3. Heard(seen')
  BY <1>2 DEF SeenOK, SourceInv, Heard
<1>4. ASSUME NEW q, result' = q, ordered' = ordered, Agrees(q, seen'), Reasoned(q, seen'),
             ordered => Settled(q, seen')
      PROVE  AnswerInv'
  BY <1>4, FiniteStep DEF AnswerInv, Settled
<1>5. ASSUME UNCHANGED <<result, ordered, seen>>
      PROVE  AnswerInv'
  BY <1>1, <1>4, <1>5
<1>6. ASSUME NEW x, Handle, Streaming(x), ordered
      PROVE  Streams(x, seen)
  BY <1>6 DEF Streaming, Streams
<1>7. ASSUME NEW x \in Items, NEW class \in {"final", "commentary", "open"},
             ItemStarted(x, class) \/ CommentaryCompleted(x)
      PROVE  AnswerInv'
  <2>1. PICK c \in {"final", "commentary", "open"} : result' = Classify(result, x, c)
    BY <1>7 DEF ItemStarted, CommentaryCompleted
  <2>2. Handle /\ Streaming(x) /\ UNCHANGED <<ordered, seen>>
    BY <1>7 DEF ItemStarted, CommentaryCompleted, Handle
  <2>3. PICK q : q = Classify(result, x, c)
    OBVIOUS
  <2>4. /\ Agrees(q, seen) /\ Reasoned(q, seen)
        /\ Streams(x, seen) /\ Settled(result, seen) => Settled(q, seen)
    BY <1>1, <2>3, ClassifyAnswer
  <2> QED BY <1>1, <1>4, <1>6, <2>1, <2>2, <2>3, <2>4
<1>8. ASSUME NEW x \in Items, NEW chunk \in Chunks, AgentDelta(x, chunk)
      PROVE  AnswerInv'
  <2>1. result' = Delta(result, x, <<chunk>>) /\ <<chunk>> \in Seq(Chunks)
    BY <1>8 DEF AgentDelta
  <2>2. Handle /\ Streaming(x) /\ UNCHANGED <<ordered, seen>>
    BY <1>8 DEF AgentDelta, Handle
  <2>3. PICK q : q = Delta(result, x, <<chunk>>)
    OBVIOUS
  <2>4. /\ Agrees(q, seen) /\ Reasoned(q, seen)
        /\ Streams(x, seen) /\ Settled(result, seen) => Settled(q, seen)
    BY <1>1, <2>1, <2>3, DeltaAnswer
  <2> QED BY <1>1, <1>4, <1>6, <2>1, <2>2, <2>3, <2>4
<1>9. ASSUME NEW x \in Items, NEW text \in Texts, FinalCompleted(x, text)
      PROVE  AnswerInv'
  <2>1. PICK p : p = Classify(result, x, "final")
    OBVIOUS
  <2>2. PICK q : q = IF Rejected(result, x) THEN p
                     ELSE SetAuthoritative(p, x, text, ItemCompleted)
    OBVIOUS
  <2>3. result' = q /\ UNCHANGED ordered
    BY <1>9, <2>1, <2>2 DEF FinalCompleted, Handle
  <2>4. PICK T : T = seen'
    OBVIOUS
  <2>5. T = seen \cup {Told1(x, text, ItemCompleted)} /\ Heard(T)
    BY <1>3, <1>9, <2>4 DEF FinalCompleted, Tell, Told1
  <2>6. /\ Agrees(q, T) /\ Reasoned(q, T)
        /\ Settled(result, seen) => Settled(q, T)
    BY <1>1, <2>1, <2>2, <2>5, FinalAnswer
  <2> QED BY <1>1, <1>4, <2>3, <2>4, <2>6
<1>10. ASSUME NEW text \in Texts, RawResponseCompleted(text)
       PROVE  AnswerInv'
  <2>1. PICK q : q = SetRaw(result, text)
    OBVIOUS
  <2>2. result' = q /\ UNCHANGED ordered
    BY <1>10, <2>1 DEF RawResponseCompleted, Handle
  <2>3. PICK T : T = seen'
    OBVIOUS
  <2>4. T = seen \cup {Told1(NoItem, text, RawCompleted)}
    BY <1>10, <2>3 DEF RawResponseCompleted, Tell, Told1
  <2>5. Agrees(q, T) /\ Reasoned(q, T)
    BY <1>1, <2>1, <2>4, RawAgrees
  <2>6. Settled(result, seen) => Settled(q, T)
    BY <1>1, <2>1, <2>4, RawSettles DEF Settled
  <2> QED BY <1>1, <1>4, <2>2, <2>3, <2>5, <2>6
<1>11. CASE Candidate
  <2>1. PICK c : c = Head(todo)
    OBVIOUS
  <2>2. /\ c.item \in Items /\ c.text \in Texts
        /\ c.rank \in {TurnPayload, ThreadRead}
    BY <1>11, <2>1, TypeParts, NextCandidate DEF TypeInv, Candidate
  <2>3. c.rank \in Ranks /\ c.rank # RawCompleted
    BY <2>2, RanksAreRanks DEF RankConstants, TurnPayload, ThreadRead, RawCompleted
  <2>4. PICK q : q = SetAuthoritative(result, c.item, c.text, c.rank)
    OBVIOUS
  <2>5. result' = q /\ UNCHANGED ordered
    BY <1>11, <2>1, <2>4 DEF Candidate
  <2>6. PICK T : T = seen'
    OBVIOUS
  <2>7. T = seen \cup {Told1(c.item, c.text, c.rank)} /\ Heard(T)
    BY <1>3, <1>11, <2>1, <2>6 DEF Candidate, Tell, Told1
  <2>8. Agrees(q, T) /\ Reasoned(q, T)
    BY <1>1, <2>2, <2>3, <2>4, <2>7, SetAgrees
  <2>9. Settled(result, seen) => Settled(q, T)
    BY <1>1, <2>2, <2>3, <2>4, <2>7, SetSettles DEF Settled
  <2> QED BY <1>1, <1>4, <2>5, <2>6, <2>8, <2>9
<1>12. ASSUME NEW s, NEW list,
              \/ TurnCompleted(s, list) \/ StartReturns(s, list) \/ ReadThread(list)
              \/ CapacityExceeded \/ WaitEnds \/ WaitRaises(s) \/ LateDrainEnds
              \/ ThreadReadEnds
       PROVE  AnswerInv'
  BY <1>5, <1>12 DEF TurnCompleted, StartReturns, ReadThread, CapacityExceeded, WaitEnds,
                     WaitRaises, LateDrainEnds, ThreadReadEnds, Handle
<1>13. CASE UNCHANGED vars
  BY <1>5, <1>13 DEF vars
<1> QED BY <1>7, <1>8, <1>9, <1>10, <1>11, <1>12, <1>13 DEF Next, Event

LEMMA AnswerInvHolds == Spec => [](TypeInv /\ AnswerInv)
<1>1. Init => AnswerInv
  <2>1. ASSUME Init
        PROVE  AnswerInv
    <3>1. /\ seen = {} /\ result.ambiguity = "none" /\ result.raws = {}
          /\ result.evidence = FALSE /\ result.source = 0
          /\ \A x \in Items : result.item[x].rank = 0
      BY <2>1 DEF Init, Absent
    <3>2. Told(result) = {} /\ \A k : TextsIn(seen, k) = {}
      BY <3>1 DEF Told, TextsIn
    <3>3. ~Disputed(result)
      BY <3>2 DEF Disputed
    <3>4. Witnessed(result, seen) /\ Complete(result, seen)
      BY <3>1, <3>2, <3>3 DEF Witnessed, Complete
    <3>5. Agrees(result, seen) /\ Reasoned(result, seen)
      BY <3>1, <3>4 DEF Agrees, Reasoned
    <3>6. /\ Sealed(result) /\ Frozen(result, seen)
          /\ Best(result, seen) /\ First(result, seen)
      BY <3>1, <3>2 DEF Sealed, Frozen, Best, First
    <3>7. IsFiniteSet(seen)
      BY <3>1, FS_EmptySet
    <3> QED BY <3>5, <3>6, <3>7 DEF AnswerInv
  <2> QED BY <2>1
<1>2. TypeInv /\ AnswerInv /\ [Next]_vars => AnswerInv'
  BY AnswerStep
<1> QED BY <1>1, <1>2, TypeCorrect, PTL DEF Spec
------------------------------------------------------------------------------
(* What the invariants say of a turn.                                        *)

LEMMA MoreThanOne ==
  ASSUME NEW A, IsFiniteSet(A)
  PROVE  Cardinality(A) \in Nat /\ (Cardinality(A) > 1 <=> \E u, v \in A : u # v)
<1>1. Cardinality(A) \in Nat
  BY FS_CardinalityType
<1>2. ASSUME NEW u \in A, NEW v \in A, u # v
      PROVE  Cardinality(A) > 1
  <2>1. /\ IsFiniteSet({u}) /\ Cardinality({u}) = 1
    BY FS_Singleton
  <2>2. Cardinality({u} \cup {v}) = 2
    BY <1>2, <2>1, FS_AddElement
  <2>3. {u} \cup {v} \subseteq A
    OBVIOUS
  <2>4. Cardinality({u} \cup {v}) <= Cardinality(A)
    BY <2>3, FS_Subset
  <2> QED BY <1>1, <2>2, <2>4
<1>3. ASSUME \A u, v \in A : u = v
      PROVE  Cardinality(A) <= 1
  <2>1. CASE A = {}
    BY <2>1, FS_EmptySet
  <2>2. ASSUME NEW u \in A
        PROVE  Cardinality(A) <= 1
    <3>1. A = {u}
      BY <1>3, <2>2
    <3> QED BY <3>1, FS_Singleton
  <2> QED BY <2>1, <2>2
<1> QED BY <1>1, <1>2, <1>3

(* Whether the texts of one source dispute each other.                       *)
LEMMA TextsOfIsTextsIn ==
  ASSUME AnswerInv, NEW rank
  PROVE  /\ TextsOf(rank) = TextsIn(seen, rank)
         /\ Cardinality(TextsOf(rank)) \in Nat
         /\ Cardinality(TextsOf(rank)) > 1 <=> TwoTexts(seen, rank)
<1> DEFINE F == {f \in seen : f.rank = rank}
<1>1. IsFiniteSet(F)
  <2>1. IsFiniteSet(seen) /\ F \subseteq seen
    BY DEF AnswerInv
  <2> QED BY <2>1, FS_Subset
<1>2. IsFiniteSet({e.text : e \in F})
  <2> DEFINE G == [e \in F |-> e.text]
  <2> HIDE DEF F
  <2>1. G \in Surjection(F, {e.text : e \in F})
    BY DEF Surjection
  <2> QED BY <1>1, <2>1, FS_Surjection
<1>3. TextsOf(rank) = {e.text : e \in F} /\ TextsIn(seen, rank) = {e.text : e \in F}
  BY DEF TextsOf, TextsIn
<1>4. TextsOf(rank) = TextsIn(seen, rank) /\ IsFiniteSet(TextsOf(rank))
  <2> HIDE DEF F
  <2> QED BY <1>2, <1>3
<1> QED BY <1>4, MoreThanOne DEF TwoTexts

LEMMA CompleteAgrees ==
  ASSUME NEW r \in Results, NEW S, Heard(S), Complete(r, S)
  PROVE  ~TwoTexts(S, ItemCompleted) /\ ~TwoTexts(S, RawCompleted)
<1>1. ASSUME NEW e \in S, e.rank = ItemCompleted
      PROVE  e.item \in Told(r) /\ r.item[e.item].text = e.text
  <2>1. e.item \in Items /\ e.item # NoItem
    BY <1>1, FinalAssumption DEF Heard, ItemCompleted, RawCompleted, NoItem
  <2>2. Recorded(r, e)
    BY <2>1 DEF Complete
  <2>3. r.item[e.item].rank = 1 /\ e.rank = 1
    BY <1>1, <2>2 DEF Recorded, ItemCompleted
  <2> QED BY <2>1, <2>2, <2>3 DEF Recorded, Told
<1>2. \A u, v \in TextsIn(S, ItemCompleted) : u = v
  <2>1. ASSUME NEW e \in S, NEW f \in S, e.rank = ItemCompleted, f.rank = ItemCompleted
        PROVE  e.text = f.text
    BY <1>1, <2>1 DEF Complete, Disputed
  <2> QED BY <2>1 DEF TextsIn
<1>3. \A u, v \in TextsIn(S, RawCompleted) : u = v
  BY DEF Complete
<1> QED BY <1>2, <1>3 DEF TwoTexts

(* turn_runner.py:3172, _finalize_terminal_result: a turn that succeeds had  *)
(* completed before the late drain, was told an answer, and no two completed *)
(* messages and no two raw items told it different ones.                     *)
THEOREM SuccessNeedsAgreement == Spec => []SuccessIsUndisputed
<1>1. ASSUME TypeInv, AnswerInv, Succeeded
      PROVE  /\ observed = "completed" /\ seen # {}
             /\ Cardinality(TextsOf(ItemCompleted)) <= 1
             /\ Cardinality(TextsOf(RawCompleted)) <= 1
  <2>1. observed = "completed" /\ Undisputed(result)
    BY <1>1 DEF TypeInv, PhaseInv
  <2>2. result \in Results /\ Heard(seen)
    BY <1>1, TypeParts DEF TypeInv, ResultOK, SeenOK, SourceInv, Heard
  <2>3. Complete(result, seen)
    BY <1>1, <2>1 DEF AnswerInv, Agrees, Undisputed
  <2>4. seen # {}
    BY <2>1, <2>3 DEF Complete, Undisputed
  <2>5. ~TwoTexts(seen, ItemCompleted) /\ ~TwoTexts(seen, RawCompleted)
    BY <2>2, <2>3, CompleteAgrees
  <2>6. Cardinality(TextsOf(ItemCompleted)) <= 1
    BY <1>1, <2>5, TextsOfIsTextsIn
  <2>7. Cardinality(TextsOf(RawCompleted)) <= 1
    BY <1>1, <2>5, TextsOfIsTextsIn
  <2> QED BY <2>1, <2>4, <2>6, <2>7
<1>2. TypeInv /\ AnswerInv => SuccessIsUndisputed
  BY <1>1 DEF SuccessIsUndisputed
<1> QED BY <1>2, AnswerInvHolds, PTL

LEMMA TellersFinite ==
  ASSUME AnswerInv
  PROVE  IsFiniteSet(Tellers)
<1>1. IsFiniteSet({e.item : e \in seen})
  <2> DEFINE G == [e \in seen |-> e.item]
  <2>1. G \in Surjection(seen, {e.item : e \in seen})
    BY DEF Surjection
  <2> QED BY <2>1, FS_Surjection DEF AnswerInv
<1>2. Tellers \subseteq {e.item : e \in seen}
  BY DEF Tellers
<1> QED BY <1>1, <1>2, FS_Subset

(* tests/test_final_answer_lifecycle.py:674, _set_authoritative_final: with  *)
(* one message to tell, and a server that streams before it tells, the       *)
(* answer of a turn that succeeds is what the best source told.              *)
THEOREM BestSourceWins == Spec => []SuccessUsesBestSource
<1>1. ASSUME TypeInv, AnswerInv, Succeeded, ordered, Cardinality(Tellers) <= 1
      PROVE  result.text \in TextsOf(BestRank)
  <2>1. Undisputed(result)
    BY <1>1 DEF TypeInv, PhaseInv
  <2>2. result \in Results /\ Heard(seen)
    BY <1>1, TypeParts DEF TypeInv, ResultOK, SeenOK, SourceInv, Heard
  <2>3. seen # {}
    BY <1>1, <2>1 DEF AnswerInv, Agrees, Undisputed, Complete
  <2>4. OneTeller(seen)
    <3>1. \A x, y \in Tellers : x = y
      <4>1. Cardinality(Tellers) \in Nat /\ ~(Cardinality(Tellers) > 1)
        BY <1>1, TellersFinite, FS_CardinalityType
      <4> QED BY <1>1, <4>1, TellersFinite, MoreThanOne
    <3>2. \A e \in seen : e.item # NoItem => e.item \in Tellers
      BY DEF Tellers
    <3> QED BY <3>1, <3>2 DEF OneTeller
  <2>5. /\ result.text \in TextsIn(seen, result.source)
        /\ \A e \in seen : result.source <= e.rank
    BY <1>1, <2>1, <2>3, <2>4 DEF AnswerInv, Best, Undisputed
  <2>6. result.source \in Ranks
    <3>1. result.source # 0
      BY <1>1, <2>1, <2>3 DEF AnswerInv, Frozen, Undisputed
    <3> QED BY <2>2, <3>1, Fields
  <2>7. \A k : TextsOf(k) = TextsIn(seen, k)
    BY DEF TextsOf, TextsIn
  <2>8. TextsOf(result.source) # {}
    BY <2>5, <2>7
  <2>9. \A j \in Ranks : TextsOf(j) # {} => result.source <= j
    BY <2>5 DEF TextsOf
  <2>10. /\ BestRank \in Ranks /\ TextsOf(BestRank) # {}
         /\ \A j \in Ranks : TextsOf(j) # {} => BestRank <= j
    BY <2>6, <2>8, <2>9 DEF BestRank
  <2>11. BestRank <= result.source /\ result.source <= BestRank
    BY <2>6, <2>8, <2>9, <2>10
  <2>12. BestRank = result.source
    BY <2>6, <2>10, <2>11 DEF Ranks, ItemCompleted, ThreadRead
  <2> QED BY <2>5, <2>7, <2>12
<1>2. TypeInv /\ AnswerInv => SuccessUsesBestSource
  BY <1>1 DEF SuccessUsesBestSource
<1> QED BY <1>2, AnswerInvHolds, PTL

(* tests/test_final_answer_lifecycle.py:426, :603, :640, :674: while only    *)
(* completed messages and raw items have come, and none beyond the limit,    *)
(* what is decided is a function of which have come.                         *)
THEOREM OrderDoesNotMatter == Spec => []OrderIndependent
<1>1. ASSUME TypeInv, AnswerInv, TextsOf(TurnPayload) = {}, TextsOf(ThreadRead) = {},
             seen # {}, result.ambiguity # "LIMIT"
      PROVE  LET items == TextsOf(ItemCompleted)
                 raws == TextsOf(RawCompleted)
                 disputed == Cardinality(items) > 1 \/ Cardinality(raws) > 1
                 decided == ~disputed /\ ordered
             IN /\ (result.ambiguity # "none") <=> disputed
                /\ decided /\ items # {} => /\ result.text \in items
                                            /\ result.id = Least(Tellers)
                /\ decided /\ items = {} => result.text \in raws
  <2> DEFINE disputed == TwoTexts(seen, ItemCompleted) \/ TwoTexts(seen, RawCompleted)
  <2>1. result \in Results /\ Heard(seen)
    BY <1>1, TypeParts DEF TypeInv, ResultOK, SeenOK, SourceInv, Heard
  <2>2. \A k : TextsOf(k) = TextsIn(seen, k)
    BY DEF TextsOf, TextsIn
  <2>3. Early(seen)
    BY <1>1, <2>2 DEF Early
  <2>4. Witnessed(result, seen) /\ (result.ambiguity = "none" => Complete(result, seen))
    BY <1>1 DEF AnswerInv, Agrees
  <2>5. result.ambiguity # "none" <=> disputed
    <3>1. result.ambiguity = "none" => ~disputed
      BY <2>1, <2>4, CompleteAgrees
    <3>2. result.ambiguity # "none" => disputed
      <4>1. result.ambiguity \in {"none", "MULTIPLE_FINAL", "MULTIPLE_RAW"}
        BY <1>1, <2>1, Fields DEF Reasons
      <4> QED BY <1>1, <2>3, <4>1 DEF AnswerInv, Reasoned
    <3> QED BY <3>1, <3>2
  <2>6. /\ Cardinality(TextsOf(ItemCompleted)) > 1 <=> TwoTexts(seen, ItemCompleted)
        /\ Cardinality(TextsOf(RawCompleted)) > 1 <=> TwoTexts(seen, RawCompleted)
    BY <1>1, TextsOfIsTextsIn
  <2>7. ASSUME ~disputed, ordered, TextsOf(ItemCompleted) # {}
        PROVE  result.text \in TextsOf(ItemCompleted) /\ result.id = Least(Tellers)
    <3>1. result.ambiguity = "none" /\ Complete(result, seen)
      BY <2>4, <2>5, <2>7
    <3>2. result.text \in TextsIn(seen, ItemCompleted) /\ result.id = Least(Told(result))
      BY <1>1, <2>2, <2>3, <2>7, <3>1 DEF AnswerInv, First
    <3>3. Told(result) \subseteq Tellers
      <4>1. \A y \in Told(result) : y # NoItem /\ \E e \in seen : e.item = y
        BY <2>1, <2>4, ToldWasHeard
      <4> QED BY <4>1 DEF Tellers
    <3>4. Tellers \subseteq Told(result)
      <4>1. ASSUME NEW e \in seen, e.item # NoItem
            PROVE  e.item \in Told(result)
        <5>1. e.item \in Items /\ Recorded(result, e)
          BY <2>1, <3>1, <4>1 DEF Heard, Complete
        <5>2. result.item[e.item].rank # 0
          BY <5>1 DEF Recorded
        <5> QED BY <5>1, <5>2 DEF Told
      <4> QED BY <4>1 DEF Tellers
    <3>5. Told(result) = Tellers
      BY <3>3, <3>4
    <3> QED BY <2>2, <3>2, <3>5
  <2>8. ASSUME ~disputed, ordered, TextsOf(ItemCompleted) = {}
        PROVE  result.text \in TextsOf(RawCompleted)
    <3>1. result.ambiguity = "none"
      BY <2>5, <2>8
    <3>2. \A e \in seen : e.rank = RawCompleted
      <4>1. \A e \in seen : e.rank \in Ranks /\ TextsIn(seen, e.rank) # {}
        BY <2>1 DEF Heard, TextsIn
      <4>2. \A k \in Ranks : k # RawCompleted => TextsIn(seen, k) = {}
        BY <1>1, <2>2, <2>8
           DEF Ranks, ItemCompleted, RawCompleted, TurnPayload, ThreadRead
      <4> QED BY <4>1, <4>2
    <3>3. OneTeller(seen)
      BY <2>1, <3>2 DEF OneTeller, Heard
    <3>4. result.text \in TextsIn(seen, result.source)
      BY <1>1, <2>8, <3>1, <3>3 DEF AnswerInv, Best
    <3>5. result.source = RawCompleted
      BY <3>2, <3>4 DEF TextsIn
    <3> QED BY <2>2, <3>4, <3>5
  <2> HIDE DEF disputed
  <2>9. disputed <=> \/ Cardinality(TextsOf(ItemCompleted)) > 1
                     \/ Cardinality(TextsOf(RawCompleted)) > 1
    BY <2>6 DEF disputed
  <2> QED BY <2>5, <2>7, <2>8, <2>9
<1>2. TypeInv /\ AnswerInv => OrderIndependent
  BY <1>1 DEF OrderIndependent
<1> QED BY <1>2, AnswerInvHolds, PTL
==============================================================================
