--------------------------- MODULE Approvals_proofs ---------------------------
(***************************************************************************)
(* Proofs about Approvals: the runner accepts nothing on its own account,  *)
(* keeps no grant past its thread and workspace, and sticks to what was    *)
(* decided in a turn - for any requests, limits and numbers of turns.      *)
(***************************************************************************)
EXTENDS Approvals, FiniteSetTheorems, TLAPS

Answers    == [id : {q.id : q \in Requests}, decision : Decisions]
Identities == {Identity(q) : q \in Requests}
Memories   == [answers : SUBSET Answers, accepted : SUBSET Identities,
               declined : SUBSET Identities, prompts : Nat, failed : BOOLEAN]

(* A batch is there only inside of a turn, whose context is the active one. *)
TypeInv ==
  /\ TypeOK
  /\ memory \in Memories /\ IsFiniteSet(memory.answers)
  /\ batch # <<>> => running
  /\ running => turn >= 1 /\ context = <<thread, root>>

(* How the handler answers a request q: with an error, without remembering it; *)
(* as before; or with a decision, which it remembers.                          *)
Refuses(q) ==
  /\ q.kind \in OtherKinds \/ ~Answered(q)
  /\ memory' = memory \/ memory' = [memory EXCEPT !.failed = TRUE]
       \/ memory' = [memory EXCEPT !.prompts = @ + 1]
  /\ grants' = grants

Replays(q, d, by) ==
  /\ by = "replay" /\ [id |-> q.id, decision |-> d] \in memory.answers
  /\ UNCHANGED <<memory, grants>>

Decides(q, d, by) ==
  /\ Fresh(q) /\ d \in Decisions
  /\ memory' = Remember(memory, q, d)
       \/ memory' = Remember([memory EXCEPT !.prompts = @ + 1], q, d)
  /\ \/ /\ by = "memory" /\ Remembered(q) /\ grants' = grants
        /\ d \in Accepting => Identity(q) \in memory.accepted
     \/ by = "grant" /\ Granted(q) /\ grants' = grants
     \/ by \in {"limit", "default"} /\ d \in Denying /\ ~Remembered(q) /\ grants' = grants
     \/ by = "user" /\ ~Remembered(q) /\ grants' = GrantsAfter(q, d)

Handled(q, d, by) ==
  /\ batch # <<>> /\ batch' = Tail(batch) /\ log' = Append(log, Entry(q, d, by))
  /\ \/ d = "error" /\ by # "user" /\ Refuses(q)
     \/ Replays(q, d, by)
     \/ Decides(q, d, by)
  /\ UNCHANGED <<interactive, queue, running, turn, thread, root, context,
                 started, epoch, arrivals, interrupts>>

(* What the session may still accept on has been accepted by the user, in this
   turn or since the grants were cleared. *)
Standing(q, d) == \E i \in 1 .. Len(log) : Covers(log[i], Entry(q, d, "replay"))

AcceptedStands ==
  running =>
    /\ \A q \in Requests, d \in Accepting :
         [id |-> q.id, decision |-> d] \in memory.answers => Standing(q, d)
    /\ \A k \in memory.accepted : \E i \in 1 .. Len(log) :
         /\ log[i].by = "user" /\ log[i].decision = "acceptForSession"
         /\ log[i].turn = turn /\ log[i].request.kind \in CommandKinds
         /\ Identity(log[i].request) = k
GrantsStand ==
  \A g \in 1 .. Len(grants) : \E i \in 1 .. Len(log) :
    /\ log[i].by = "user" /\ log[i].decision = "acceptForSession"
    /\ log[i].epoch = epoch /\ log[i].request.kind \in FileKinds
    /\ log[i].thread = grants[g].thread /\ log[i].root = grants[g].root

UserInv == AcceptedStands /\ GrantsStand /\ AcceptIsUsers

(* The memory of the turn is what its log says, one answer to a request; and a
   command the user declined is not among the accepted. *)
TurnsPast == \A i \in 1 .. Len(log) : log[i].turn <= turn
LogRemembered ==
  \A i \in 1 .. Len(log) : log[i].turn = turn /\ log[i].decision # "error" =>
    [id |-> log[i].request.id, decision |-> log[i].decision] \in memory.answers
AnswersLogged ==
  \A a \in memory.answers : \E i \in 1 .. Len(log) :
    log[i].turn = turn /\ log[i].request.id = a.id /\ log[i].decision = a.decision
OneAnswer == \A a, b \in memory.answers : a.id = b.id => a = b
OthersRefused ==
  \A i \in 1 .. Len(log) : log[i].request.kind \in OtherKinds => log[i].decision = "error"
DeclinedStays ==
  \A i \in 1 .. Len(log) :
    log[i].turn = turn /\ log[i].by = "user" /\ log[i].decision \in Denying
      /\ log[i].request.kind \in CommandKinds
    => Identity(log[i].request) \in memory.declined \ memory.accepted

MemoryInv ==
  /\ TurnsPast /\ LogRemembered /\ AnswersLogged /\ OneAnswer /\ OthersRefused
  /\ DeclinedStays /\ DecisionsStick
------------------------------------------------------------------------------
(* A preference list yields the first of its members that is offered. *)
LEMMA FirstOfTwo ==
  ASSUME NEW a, NEW b, NEW offered
  PROVE  FirstOf(<<a, b>>, offered)
           = IF a \in offered THEN a ELSE IF b \in offered THEN b ELSE "error"
<1> DEFINE list == <<a, b>>
           hits == {i \in 1 .. Len(list) : list[i] \in offered}
<1>1. Len(list) = 2 /\ list[1] = a /\ list[2] = b
  OBVIOUS
<1>2. hits = {i \in {1, 2} : list[i] \in offered}
  BY <1>1
<1>3. CASE a \in offered
  <2>1. 1 \in hits /\ \A i \in hits : 1 <= i
    BY <1>1, <1>2, <1>3
  <2>2. (CHOOSE i \in hits : \A j \in hits : i <= j) = 1
    <3>1. \A i \in hits : (\A j \in hits : i <= j) => i = 1
      BY <1>2, <2>1
    <3> HIDE DEF hits
    <3> QED BY <2>1, <3>1
  <2> QED BY <1>1, <1>3, <2>1, <2>2 DEF FirstOf
<1>4. CASE a \notin offered /\ b \in offered
  <2>1. hits = {2}
    BY <1>1, <1>2, <1>4
  <2>2. (CHOOSE i \in hits : \A j \in hits : i <= j) = 2
    BY <2>1
  <2> QED BY <1>1, <1>4, <2>1, <2>2 DEF FirstOf
<1>5. CASE a \notin offered /\ b \notin offered
  <2>1. hits = {}
    BY <1>1, <1>2, <1>5
  <2> QED BY <1>5, <2>1 DEF FirstOf
<1> QED BY <1>3, <1>4, <1>5

LEMMA FirstOfFour ==
  ASSUME NEW a, NEW b, NEW c, NEW d, NEW offered
  PROVE  FirstOf(<<a, b, c, d>>, offered) \in offered \cup {"error"}
<1> DEFINE list == <<a, b, c, d>>
           hits == {i \in 1 .. Len(list) : list[i] \in offered}
<1>1. hits \subseteq {1, 2, 3, 4}
  <2>1. Len(list) = 4
    OBVIOUS
  <2> QED BY <2>1
<1>2. CASE hits = {}
  BY <1>2 DEF FirstOf
<1>3. CASE hits # {}
  <2>1. \E i \in hits : \A j \in hits : i <= j
    <3> HIDE DEF hits
    <3>1. CASE 1 \in hits
      BY <1>1, <3>1
    <3>2. CASE 1 \notin hits /\ 2 \in hits
      BY <1>1, <3>2
    <3>3. CASE 1 \notin hits /\ 2 \notin hits /\ 3 \in hits
      BY <1>1, <3>3
    <3>4. CASE 1 \notin hits /\ 2 \notin hits /\ 3 \notin hits
      <4>1. hits = {4}
        BY <1>1, <1>3, <3>4
      <4> QED BY <4>1
    <3> QED BY <3>1, <3>2, <3>3, <3>4
  <2>2. (CHOOSE i \in hits : \A j \in hits : i <= j) \in hits
    <3> HIDE DEF hits
    <3> QED BY <2>1
  <2>3. FirstOf(list, offered) = list[CHOOSE i \in hits : \A j \in hits : i <= j]
    BY <1>3 DEF FirstOf
  <2>4. \A i \in hits : list[i] \in offered
    OBVIOUS
  <2> HIDE DEF list, hits
  <2>5. FirstOf(list, offered) \in offered
    BY <2>2, <2>3, <2>4
  <2> QED BY <2>5 DEF list
<1> QED BY <1>2, <1>3

LEMMA OfferedDecisions ==
  ASSUME NEW q \in Requests
  PROVE  Offered(q) \subseteq Decisions
<1>1. q.available \subseteq Decisions
  BY ApprovalsAssumption
<1> QED BY <1>1 DEF Offered, CommandKinds, FileKinds

(* The answers the runner gives on its own account. *)
LEMMA OwnAnswers ==
  ASSUME NEW q \in Requests
  PROVE  /\ RememberedAnswer(q) \in Decisions
         /\ RememberedAnswer(q) \in Accepting => Identity(q) \in memory.accepted
         /\ GrantedAnswer(q) \in Decisions \cup {"error"}
         /\ LimitAnswer(q) \in Denying \cup {"error"}
         /\ Default(Offered(q)) \in Denying \cup {"error"}
<1>1. Offered(q) \subseteq Decisions
  BY OfferedDecisions
<1>2. FirstOf(<<"acceptForSession", "accept">>, Offered(q))
        \in {"acceptForSession", "accept", "error"}
  BY FirstOfTwo
<1>3. Default(Offered(q)) \in Denying \cup {"error"}
  BY FirstOfTwo DEF Default, Denying
<1>4. GrantedAnswer(q) \in Decisions \cup {"error"}
  BY <1>1, FirstOfFour DEF GrantedAnswer
<1> QED BY <1>2, <1>3, <1>4 DEF RememberedAnswer, LimitAnswer, Decisions, Denying, Accepting

LEMMA TypeParts ==
  ASSUME TypeInv
  PROVE  /\ queue \in Seq(Requests) /\ batch \in Seq(Requests)
         /\ memory \in Memories /\ IsFiniteSet(memory.answers)
         /\ grants \in Seq([thread : Threads, root : Roots]) /\ Len(grants) <= GrantCap
         /\ log \in Seq(Entries) /\ turn \in 0 .. MaxTurns /\ epoch \in Nat
         /\ thread \in Threads /\ root \in Roots
         /\ batch # <<>> => running /\ turn >= 1 /\ context = <<thread, root>>
BY DEF TypeInv, TypeOK

(* Each branch of _handle_server_request answers in one of the three ways. *)
LEMMA HandleAnswers ==
  ASSUME TypeInv, Handle
  PROVE  \E q \in Requests, d \in Decisions \cup {"error"},
            by \in {"policy", "capacity", "replay", "memory", "grant", "limit",
                    "default", "user"} : q = Head(batch) /\ Handled(q, d, by)
<1> DEFINE q == Head(batch)
<1>1. batch # <<>> /\ batch \in Seq(Requests)
  BY TypeParts DEF Handle, HandleOther, HandleOverCapacity, HandleReplay, HandleRemembered,
     HandleGranted, HandleLimit, HandleDefault, HandlePrompt, Handling
<1>2. q \in Requests
  BY <1>1
<1>3. UNCHANGED <<interactive, queue, running, turn, thread, root, context,
                  started, epoch, arrivals, interrupts>>
  BY DEF Handle, HandleOther, HandleOverCapacity, HandleReplay, HandleRemembered,
     HandleGranted, HandleLimit, HandleDefault, HandlePrompt, Handling
<1>4. memory.answers \subseteq Answers
  BY TypeParts DEF Memories
<1>5. CASE HandleOther
  <2>1. Handled(q, "error", "policy")
    BY <1>1, <1>3, <1>5 DEF HandleOther, Handled, Refuses
  <2> QED BY <1>2, <2>1
<1>6. CASE HandleOverCapacity
  <2>1. Handled(q, "error", "capacity")
    BY <1>1, <1>3, <1>6 DEF HandleOverCapacity, Answer, Handled, Refuses
  <2> QED BY <1>2, <2>1
<1>7. CASE HandleReplay
  <2>1. PICK a \in memory.answers :
          a.id = q.id /\ log' = Append(log, Entry(q, a.decision, "replay"))
    BY <1>7 DEF HandleReplay
  <2>2. a = [id |-> q.id, decision |-> a.decision] /\ a.decision \in Decisions
    BY <1>4, <2>1 DEF Answers
  <2>3. Handled(q, a.decision, "replay")
    BY <1>1, <1>3, <1>7, <2>1, <2>2 DEF HandleReplay, Handled, Replays
  <2> QED BY <1>2, <2>2, <2>3
<1>8. CASE HandleRemembered
  <2>1. Handled(q, RememberedAnswer(q), "memory") /\ RememberedAnswer(q) \in Decisions
    <3>1. RememberedAnswer(q) # "error"
      BY <1>2, OwnAnswers DEF Decisions
    <3> QED BY <1>1, <1>2, <1>3, <1>8, <3>1, OwnAnswers
            DEF HandleRemembered, Answer, Handled, Decides
  <2> QED BY <1>2, <2>1
<1>9. ASSUME NEW d \in Decisions \cup {"error"}, NEW by \in {"grant", "limit", "default"},
             Answer(memory, q, d, by), Fresh(q), grants' = grants,
             by = "grant" => Granted(q),
             by # "grant" => ~Remembered(q) /\ d \in Denying \cup {"error"}
      PROVE  Handled(q, d, by)
  <2>1. CASE d = "error"
    BY <1>1, <1>3, <1>9, <2>1 DEF Answer, Handled, Refuses, Fresh
  <2>2. CASE d # "error"
    BY <1>1, <1>3, <1>9, <2>2 DEF Answer, Handled, Decides
  <2> QED BY <2>1, <2>2
<1>10. CASE HandleGranted
  <2>1. Handled(q, GrantedAnswer(q), "grant")
    BY <1>2, <1>9, <1>10, OwnAnswers DEF HandleGranted
  <2> QED BY <1>2, <2>1, OwnAnswers
<1>11. CASE HandleLimit
  <2>1. LimitAnswer(q) \in Denying \cup {"error"} /\ LimitAnswer(q) \in Decisions \cup {"error"}
    BY <1>2, OwnAnswers DEF Denying, Decisions
  <2>2. Handled(q, LimitAnswer(q), "limit")
    BY <1>9, <1>11, <2>1 DEF HandleLimit
  <2> QED BY <1>2, <2>1, <2>2
<1>12. CASE HandleDefault
  <2>1. Default(Offered(q)) \in Denying \cup {"error"}
        /\ Default(Offered(q)) \in Decisions \cup {"error"}
    BY <1>2, OwnAnswers DEF Denying, Decisions
  <2>2. Handled(q, Default(Offered(q)), "default")
    BY <1>9, <1>12, <2>1 DEF HandleDefault, Asking
  <2> QED BY <1>2, <2>1, <2>2
<1>13. ASSUME NEW d \in Decisions, HandlePrompt(d)
       PROVE  Handled(q, d, "user")
  <2>1. d # "error"
    BY DEF Decisions
  <2> QED BY <1>1, <1>3, <1>13, <2>1 DEF HandlePrompt, Asking, Answer, Handled, Decides
<1> HIDE DEF q
<1> QED BY <1>2, <1>5, <1>6, <1>7, <1>8, <1>10, <1>11, <1>12, <1>13 DEF Handle, q
------------------------------------------------------------------------------
(* What the memory and the grants are after an answer. *)
LEMMA MemoryUpdates ==
  ASSUME NEW m \in Memories
  PROVE  /\ [m EXCEPT !.failed = TRUE] \in Memories
         /\ [m EXCEPT !.failed = TRUE].answers = m.answers
         /\ [m EXCEPT !.prompts = @ + 1] \in Memories
         /\ [m EXCEPT !.prompts = @ + 1].answers = m.answers
         /\ [m EXCEPT !.failed = TRUE].accepted = m.accepted
         /\ [m EXCEPT !.failed = TRUE].declined = m.declined
         /\ [m EXCEPT !.prompts = @ + 1].accepted = m.accepted
         /\ [m EXCEPT !.prompts = @ + 1].declined = m.declined
<1> DEFINE n == m.prompts + 1
<1>1. m.prompts \in Nat
  BY DEF Memories
<1>2. n \in Nat
  BY <1>1
<1> HIDE DEF n
<1>3. /\ [m EXCEPT !.prompts = n] \in Memories
      /\ [m EXCEPT !.prompts = n].answers = m.answers
      /\ [m EXCEPT !.prompts = n].accepted = m.accepted
      /\ [m EXCEPT !.prompts = n].declined = m.declined
  BY <1>2 DEF Memories
<1>4. [m EXCEPT !.prompts = @ + 1] = [m EXCEPT !.prompts = n]
  BY DEF n
<1>5. /\ [m EXCEPT !.failed = TRUE] \in Memories
      /\ [m EXCEPT !.failed = TRUE].answers = m.answers
      /\ [m EXCEPT !.failed = TRUE].accepted = m.accepted
      /\ [m EXCEPT !.failed = TRUE].declined = m.declined
  BY DEF Memories
<1> QED BY <1>3, <1>4, <1>5

LEMMA RememberTypes ==
  ASSUME NEW m \in Memories, IsFiniteSet(m.answers), NEW q \in Requests, NEW d \in Decisions,
         Cardinality(m.answers) < IdentityCap
  PROVE  /\ Remember(m, q, d) \in Memories
         /\ IsFiniteSet(Remember(m, q, d).answers)
         /\ Cardinality(Remember(m, q, d).answers) <= IdentityCap
         /\ Remember(m, q, d).answers = m.answers \cup {[id |-> q.id, decision |-> d]}
<1> DEFINE a == [id |-> q.id, decision |-> d]
<1>1. a \in Answers /\ Identity(q) \in Identities
  BY DEF Answers, Identities
<1>2. Remember(m, q, d).answers = m.answers \cup {a}
  BY DEF Remember, Memories
<1>3. Remember(m, q, d) \in Memories
  BY <1>1 DEF Remember, Memories
<1>4. /\ IsFiniteSet(m.answers \cup {a})
      /\ Cardinality(m.answers \cup {a}) =
           IF a \in m.answers THEN Cardinality(m.answers) ELSE Cardinality(m.answers) + 1
  BY FS_AddElement
<1>5. Cardinality(m.answers) \in Nat
  BY FS_CardinalityType
<1>6. Cardinality(m.answers \cup {a}) <= IdentityCap
  BY <1>4, <1>5, ApprovalsAssumption
<1> QED BY <1>2, <1>3, <1>4, <1>6

LEMMA GrantsAfterTypes ==
  ASSUME TypeInv, NEW q, NEW d
  PROVE  /\ GrantsAfter(q, d) \in Seq([thread : Threads, root : Roots])
         /\ Len(GrantsAfter(q, d)) <= GrantCap
         /\ \A g \in 1 .. Len(GrantsAfter(q, d)) :
              \/ \E h \in 1 .. Len(grants) : GrantsAfter(q, d)[g] = grants[h]
              \/ /\ GrantsAfter(q, d)[g] = [thread |-> thread, root |-> root]
                 /\ q.kind \in FileKinds /\ d = "acceptForSession"
<1> DEFINE key == [thread |-> thread, root |-> root]
           kept == IF Len(grants) >= GrantCap THEN Tail(grants) ELSE grants
<1>1. /\ grants \in Seq([thread : Threads, root : Roots]) /\ Len(grants) <= GrantCap
      /\ key \in [thread : Threads, root : Roots] /\ GrantCap \in Nat \ {0}
  BY TypeParts, ApprovalsAssumption
<1> HIDE DEF key
<1>2. CASE GrantsAfter(q, d) = grants
  BY <1>1, <1>2
<1>3. CASE /\ GrantsAfter(q, d) = Append(kept, key)
           /\ q.kind \in FileKinds /\ d = "acceptForSession"
  <2>1. /\ kept \in Seq([thread : Threads, root : Roots]) /\ Len(kept) < GrantCap
        /\ \A g \in 1 .. Len(kept) : \E h \in 1 .. Len(grants) : kept[g] = grants[h]
    <3>1. CASE kept = grants /\ Len(grants) < GrantCap
      BY <1>1, <3>1
    <3>2. CASE kept = Tail(grants) /\ Len(grants) >= GrantCap
      <4>1. grants # <<>> /\ Len(kept) = Len(grants) - 1
            /\ \A g \in 1 .. Len(kept) : g + 1 \in 1 .. Len(grants) /\ kept[g] = grants[g + 1]
            /\ kept \in Seq([thread : Threads, root : Roots])
        BY <1>1, <3>2
      <4> QED BY <1>1, <4>1
    <3> QED BY <1>1, <3>1, <3>2
  <2> HIDE DEF kept
  <2> DEFINE new == Append(kept, key)
  <2>2. /\ new \in Seq([thread : Threads, root : Roots]) /\ Len(new) = Len(kept) + 1
        /\ \A g \in 1 .. Len(kept) : new[g] = kept[g]
        /\ new[Len(kept) + 1] = key /\ Len(kept) \in Nat
    BY <1>1, <2>1
  <2> HIDE DEF new
  <2>3. \A g \in 1 .. Len(new) : new[g] = key \/ \E h \in 1 .. Len(grants) : new[g] = grants[h]
    <3> TAKE g \in 1 .. Len(new)
    <3>1. g = Len(kept) + 1 \/ g \in 1 .. Len(kept)
      BY <2>2
    <3> QED BY <2>1, <2>2, <3>1
  <2>4. Len(new) <= GrantCap
    BY <1>1, <2>1, <2>2
  <2> QED BY <1>3, <2>2, <2>3, <2>4 DEF new, key
<1> QED BY <1>2, <1>3 DEF GrantsAfter, WithGrant, key

LEMMA HandleTypes ==
  ASSUME TypeInv, Handle
  PROVE  TypeInv'
<1>1. PICK q \in Requests, d \in Decisions \cup {"error"},
           by \in {"policy", "capacity", "replay", "memory", "grant", "limit",
                   "default", "user"} : q = Head(batch) /\ Handled(q, d, by)
  BY HandleAnswers
<1>2. /\ batch # <<>> /\ batch' = Tail(batch) /\ log' = Append(log, Entry(q, d, by))
      /\ UNCHANGED <<interactive, queue, running, turn, thread, root, context,
                     started, epoch, arrivals, interrupts>>
  BY <1>1 DEF Handled
<1>3. running /\ turn \in 1 .. MaxTurns
  BY <1>2, TypeParts
<1>4. log' \in Seq(Entries)
  <2>1. Entry(q, d, by) \in Entries
    BY <1>3, TypeParts DEF Entry, Entries
  <2> QED BY <1>2, <2>1, TypeParts
<1>5. batch' \in Seq(Requests)
  BY <1>2, TypeParts
<1>6. /\ memory' \in Memories /\ IsFiniteSet(memory'.answers)
      /\ Cardinality(memory'.answers) <= IdentityCap
  <2>1. Cardinality(memory.answers) <= IdentityCap /\ Cardinality(memory.answers) \in Nat
    BY TypeParts, FS_CardinalityType DEF TypeInv, TypeOK
  <2>2. CASE Refuses(q) \/ Replays(q, d, by)
    <3>1. memory' \in Memories /\ memory'.answers = memory.answers
      BY <2>2, TypeParts, MemoryUpdates DEF Refuses, Replays
    <3> QED BY <2>1, <3>1, TypeParts
  <2>3. CASE Decides(q, d, by)
    <3>1. /\ [memory EXCEPT !.prompts = @ + 1] \in Memories
          /\ [memory EXCEPT !.prompts = @ + 1].answers = memory.answers
      BY TypeParts, MemoryUpdates
    <3>2. Cardinality(memory.answers) < IdentityCap /\ d \in Decisions
      BY <2>1, <2>3, ApprovalsAssumption DEF Decides, Fresh, Over
    <3>3. PICK m \in Memories : memory' = Remember(m, q, d) /\ m.answers = memory.answers
      BY <2>3, <3>1, TypeParts DEF Decides
    <3>4. IsFiniteSet(m.answers) /\ Cardinality(m.answers) < IdentityCap
      BY <3>2, <3>3, TypeParts
    <3> QED BY <3>2, <3>3, <3>4, RememberTypes
  <2> QED BY <1>1, <2>2, <2>3 DEF Handled
<1>7. grants' \in Seq([thread : Threads, root : Roots]) /\ Len(grants') <= GrantCap
  <2>1. grants' = grants \/ grants' = GrantsAfter(q, d)
    BY <1>1 DEF Handled, Refuses, Replays, Decides
  <2> QED BY <2>1, TypeParts, GrantsAfterTypes
<1>8. /\ memory'.answers \subseteq [id : {r.id : r \in Requests}, decision : Decisions]
      /\ memory'.accepted \cup memory'.declined \subseteq {Identity(r) : r \in Requests}
      /\ memory'.prompts \in Nat /\ memory'.failed \in BOOLEAN
  BY <1>6 DEF Memories, Answers, Identities
<1>9. running' /\ turn' >= 1 /\ context' = <<thread', root'>>
  BY <1>2, <1>3, TypeParts
<1>10. TypeOK'
  BY <1>2, <1>4, <1>5, <1>6, <1>7, <1>8 DEF TypeInv, TypeOK
<1> QED BY <1>6, <1>9, <1>10 DEF TypeInv

LEMMA NoMemoryTypes == NoMemory \in Memories /\ NoMemory.answers = {}
BY DEF NoMemory, Memories

LEMMA TypeStep ==
  ASSUME TypeInv, [Next]_vars
  PROVE  TypeInv'
<1> USE ApprovalsAssumption
<1>1. CASE UNCHANGED vars
  BY <1>1 DEF vars, TypeInv, TypeOK
<1>2. CASE Handle
  BY <1>2, HandleTypes
<1>3. CASE VerificationOffer
  <2>1. memory' = [memory EXCEPT !.prompts = @ + 1] /\ running /\ batch = <<>>
        /\ UNCHANGED <<interactive, queue, batch, running, turn, thread, root, context,
                       grants, started, epoch, log, arrivals, interrupts>>
    BY <1>3 DEF VerificationOffer
  <2>2. memory' \in Memories /\ memory'.answers = memory.answers
    BY <2>1, TypeParts, MemoryUpdates
  <2>3. /\ memory'.answers \subseteq [id : {r.id : r \in Requests}, decision : Decisions]
        /\ memory'.accepted \cup memory'.declined \subseteq {Identity(r) : r \in Requests}
        /\ memory'.prompts \in Nat /\ memory'.failed \in BOOLEAN
    BY <2>2 DEF Memories, Answers, Identities
  <2> QED BY <2>1, <2>2, <2>3 DEF TypeInv, TypeOK
<1>4. ASSUME NEW q \in Requests, Arrive(q)
      PROVE  TypeInv'
  <2>1. queue' \in Seq(Requests) /\ arrivals' \in 0 .. MaxArrivals
    BY SMTT(30), <1>4 DEF Arrive, TypeInv, TypeOK
  <2> QED BY <1>4, <2>1 DEF Arrive, TypeInv, TypeOK
<1>5. CASE Drain \/ Interrupt
  <2>1. batch' \in Seq(Requests) /\ queue' \in Seq(Requests) /\ interrupts' \in 0 .. MaxInterrupts
    <3>1. <<>> \in Seq(Requests)
      OBVIOUS
    <3>2. batch' \in Seq(Requests) /\ queue' \in Seq(Requests)
      BY <1>5, <3>1, TypeParts DEF Drain, Interrupt
    <3>3. interrupts' \in 0 .. MaxInterrupts
      <4>1. interrupts \in 0 .. MaxInterrupts
        BY DEF TypeInv, TypeOK
      <4>2. interrupts' = interrupts \/ (interrupts' = interrupts + 1 /\ interrupts < MaxInterrupts)
        <5>1. CASE Drain
          BY <5>1 DEF Drain
        <5>2. CASE Interrupt
          BY <5>2 DEF Interrupt
        <5> QED BY <1>5, <5>1, <5>2
      <4> QED BY <4>1, <4>2
    <3> QED BY <3>2, <3>3
  <2> QED BY <1>5, <2>1 DEF Drain, Interrupt, TypeInv, TypeOK
<1>6. ASSUME NEW t \in Threads, NEW r \in Roots, StartTurn(t, r)
      PROVE  TypeInv'
  <2>1. /\ running' = TRUE /\ turn' = turn + 1 /\ turn < MaxTurns
        /\ started' = started \cup {t} /\ thread' = t /\ root' = r /\ context' = <<t, r>>
        /\ memory' = NoMemory
        /\ UNCHANGED <<interactive, queue, batch, log, arrivals, interrupts>>
    BY <1>6 DEF StartTurn
  <2>2. turn' \in 1 .. MaxTurns
    BY <2>1, TypeParts
  <2>3. epoch' \in Nat
    BY <1>6, TypeParts DEF StartTurn
  <2>4. grants' \in Seq([thread : Threads, root : Roots]) /\ Len(grants') <= GrantCap
    <3>1. grants' = grants \/ grants' = <<>>
      BY <1>6 DEF StartTurn
    <3>2. Len(<<>>) = 0 /\ 0 <= GrantCap /\ <<>> \in Seq([thread : Threads, root : Roots])
      OBVIOUS
    <3> QED BY <3>1, <3>2, TypeParts
  <2>5. /\ memory' \in Memories /\ IsFiniteSet(memory'.answers)
        /\ Cardinality(memory'.answers) <= IdentityCap
    BY <2>1, NoMemoryTypes, FS_EmptySet
  <2>6. /\ memory'.answers \subseteq [id : {x.id : x \in Requests}, decision : Decisions]
        /\ memory'.accepted \cup memory'.declined \subseteq {Identity(x) : x \in Requests}
        /\ memory'.prompts \in Nat /\ memory'.failed \in BOOLEAN
    BY <2>5 DEF Memories, Answers, Identities
  <2>7. context' \in Threads \X Roots /\ started' \subseteq Threads
    BY <2>1 DEF TypeInv, TypeOK
  <2>8. TypeOK'
    BY <2>1, <2>2, <2>3, <2>4, <2>5, <2>6, <2>7 DEF TypeInv, TypeOK
  <2> QED BY <2>1, <2>2, <2>5, <2>8 DEF TypeInv
<1>7. CASE TurnEnds \/ TurnFails \/ NewSession
  <2>1. /\ UNCHANGED <<interactive, queue, turn, thread, root, memory, started, log,
                       arrivals, interrupts>>
        /\ running' = FALSE \/ (running' = running /\ ~running)
        /\ batch' = batch \/ batch' = <<>>
        /\ grants' = grants \/ grants' = <<>>
        /\ context' = context \/ context' = NoContext
        /\ epoch' = epoch \/ epoch' = epoch + 1
    BY <1>7 DEF TurnEnds, TurnFails, NewSession, Reset
  <2>2. batch' = <<>>
    BY <1>7, TypeParts DEF TurnEnds, TurnFails, NewSession
  <2>3. /\ grants' \in Seq([thread : Threads, root : Roots]) /\ Len(grants') <= GrantCap
        /\ epoch' \in Nat /\ running' \in BOOLEAN /\ ~running'
    <3>1. Len(<<>>) = 0 /\ 0 <= GrantCap /\ <<>> \in Seq([thread : Threads, root : Roots])
      OBVIOUS
    <3>2. epoch' \in Nat
      BY <2>1, TypeParts
    <3>3. running' \in BOOLEAN /\ ~running'
      <4>1. running \in BOOLEAN
        BY DEF TypeInv, TypeOK
      <4>2. CASE running' = FALSE
        BY <4>2
      <4>3. CASE running' = running /\ ~running
        BY <4>1, <4>3, Zenon
      <4> QED BY <2>1, <4>2, <4>3
    <3> QED BY <2>1, <3>1, <3>2, <3>3, TypeParts
  <2>4. batch' \in Seq(Requests) /\ (context' = NoContext \/ context' \in Threads \X Roots)
    <3>1. <<>> \in Seq(Requests)
      OBVIOUS
    <3> QED BY <2>1, <2>2, <3>1 DEF TypeInv, TypeOK
  <2>5. TypeOK'
    BY <2>1, <2>3, <2>4 DEF TypeInv, TypeOK
  <2> QED BY <2>1, <2>2, <2>3, <2>5 DEF TypeInv
<1> QED BY <1>1, <1>2, <1>3, <1>4, <1>5, <1>6, <1>7 DEF Next

(* _handle_server_request and the registry: in every reachable state the       *)
(* memory of the turn is within its limits, and a batch is handled only inside *)
(* of a turn and for its thread and workspace.                                 *)
THEOREM TypeCorrect == Spec => []TypeInv
<1>1. Init => TypeInv
  <2> SUFFICES ASSUME Init PROVE TypeInv
    OBVIOUS
  <2>1. memory \in Memories /\ memory.answers = {}
    BY NoMemoryTypes DEF Init
  <2>2. IsFiniteSet(memory.answers) /\ Cardinality(memory.answers) = 0
    BY <2>1, FS_EmptySet
  <2>3. /\ memory.answers \subseteq [id : {x.id : x \in Requests}, decision : Decisions]
        /\ memory.accepted \cup memory.declined \subseteq {Identity(x) : x \in Requests}
        /\ memory.prompts \in Nat /\ memory.failed \in BOOLEAN
    BY <2>1 DEF Memories, Answers, Identities
  <2>4. 0 \in 0 .. MaxTurns /\ 0 \in 0 .. MaxArrivals /\ 0 \in 0 .. MaxInterrupts
        /\ 0 <= IdentityCap /\ Len(<<>>) <= GrantCap
    BY ApprovalsAssumption
  <2>5. TypeOK
    <3>1. /\ queue = <<>> /\ batch = <<>> /\ grants = <<>> /\ log = <<>> /\ context = NoContext
          /\ turn = 0 /\ arrivals = 0 /\ interrupts = 0 /\ epoch = 0 /\ started = {}
      BY DEF Init
    <3>2. /\ <<>> \in Seq(Requests) /\ <<>> \in Seq([thread : Threads, root : Roots])
          /\ <<>> \in Seq(Entries)
      OBVIOUS
    <3>3. interactive \in BOOLEAN /\ running \in BOOLEAN /\ thread \in Threads /\ root \in Roots
      BY DEF Init
    <3> QED BY <2>2, <2>3, <2>4, <3>1, <3>2, <3>3 DEF TypeOK
  <2> QED BY <2>1, <2>2, <2>5 DEF Init, TypeInv
<1>2. TypeInv /\ [Next]_vars => TypeInv'
  BY TypeStep
<1> QED BY <1>1, <1>2, PTL DEF Spec

(* file_write_grants.py and _activate_runtime_context: the registry never      *)
(* holds a grant for another thread or workspace than the active ones.         *)
THEOREM NoStaleGrant == Spec => []GrantsAreCurrent
<1>1. Init => GrantsAreCurrent
  BY DEF Init, GrantsAreCurrent
<1>2. TypeInv /\ GrantsAreCurrent /\ [Next]_vars => GrantsAreCurrent'
  <2> SUFFICES ASSUME TypeInv, GrantsAreCurrent, [Next]_vars
               PROVE  GrantsAreCurrent'
    OBVIOUS
  <2>1. CASE Handle
    <3>1. PICK q \in Requests, d \in Decisions \cup {"error"},
               by \in {"policy", "capacity", "replay", "memory", "grant", "limit",
                       "default", "user"} : q = Head(batch) /\ Handled(q, d, by)
      BY <2>1, HandleAnswers
    <3>2. batch # <<>> /\ context' = context /\ (grants' = grants \/ grants' = GrantsAfter(q, d))
      BY <3>1 DEF Handled, Refuses, Replays, Decides
    <3>3. context = <<thread, root>>
      BY <3>2, TypeParts
    <3> QED BY <3>2, <3>3, GrantsAfterTypes DEF GrantsAreCurrent
  <2>2. ASSUME NEW t \in Threads, NEW r \in Roots, StartTurn(t, r)
        PROVE  GrantsAreCurrent'
    <3>1. \/ grants' = <<>>
          \/ grants' = grants /\ context' = <<t, r>> /\ context \in {NoContext, <<t, r>>}
      BY <2>2 DEF StartTurn, ContextChanges
    <3>2. context = NoContext => grants = <<>>
      BY TypeParts DEF GrantsAreCurrent, NoContext
    <3> QED BY <3>1, <3>2 DEF GrantsAreCurrent
  <2>3. CASE UNCHANGED <<grants, context>> \/ grants' = <<>>
    BY <2>3 DEF GrantsAreCurrent
  <2>4. ASSUME NEW q \in Requests, Arrive(q)
        PROVE  UNCHANGED <<grants, context>>
    BY <2>4 DEF Arrive
  <2>5. CASE VerificationOffer \/ Drain \/ Interrupt \/ TurnEnds \/ TurnFails \/ NewSession
             \/ UNCHANGED vars
    BY <2>3, <2>5 DEF VerificationOffer, Drain, Interrupt, TurnEnds, TurnFails, NewSession,
                      Reset, vars
  <2> QED BY <2>1, <2>2, <2>3, <2>4, <2>5 DEF Next
<1> QED BY <1>1, <1>2, TypeCorrect, PTL DEF Spec
------------------------------------------------------------------------------
(* An answer is the last entry of the log. *)
LEMMA AnswerLogged ==
  ASSUME TypeInv, NEW q \in Requests, NEW d \in Decisions \cup {"error"},
         NEW by, Handled(q, d, by)
  PROVE  /\ Len(log) \in Nat /\ Len(log') = Len(log) + 1
         /\ \A i \in 1 .. Len(log) : i \in 1 .. Len(log') /\ log'[i] = log[i] /\ log[i] \in Entries
         /\ Len(log) + 1 \in 1 .. Len(log') /\ log'[Len(log) + 1] = Entry(q, d, by)
         /\ \A i \in 1 .. Len(log') : i \in 1 .. Len(log) \/ i = Len(log) + 1
         /\ running /\ running' = running
         /\ UNCHANGED <<turn, thread, root, context, epoch>>
<1>1. /\ log \in Seq(Entries) /\ log' = Append(log, Entry(q, d, by)) /\ batch # <<>>
      /\ UNCHANGED <<running, turn, thread, root, context, epoch>>
  BY TypeParts DEF Handled
<1> DEFINE e == Entry(q, d, by)
<1> HIDE DEF e
<1>2. /\ Len(log) \in Nat /\ Len(Append(log, e)) = Len(log) + 1
      /\ \A i \in 1 .. Len(log) : Append(log, e)[i] = log[i] /\ log[i] \in Entries
      /\ Append(log, e)[Len(log) + 1] = e
  BY <1>1
<1> QED BY <1>1, <1>2, TypeParts DEF e

LEMMA EntryFields ==
  ASSUME NEW q, NEW d, NEW by
  PROVE  LET e == Entry(q, d, by) IN
         /\ e.turn = turn /\ e.request = q /\ e.thread = thread /\ e.root = root
         /\ e.epoch = epoch /\ e.decision = d /\ e.by = by
BY DEF Entry

LEMMA CoversAnyway ==
  ASSUME NEW e, NEW q, NEW d, NEW by, Covers(e, Entry(q, d, "replay"))
  PROVE  Covers(e, Entry(q, d, by))
BY EntryFields DEF Covers

(* What an answer adds to the memory of the turn. *)
LEMMA AnswerRemembered ==
  ASSUME TypeInv, NEW q \in Requests, NEW d \in Decisions \cup {"error"},
         NEW by, Handled(q, d, by)
  PROVE  /\ Refuses(q) \/ Replays(q, d, by) =>
            /\ memory'.answers = memory.answers /\ memory'.accepted = memory.accepted
            /\ memory'.declined = memory.declined /\ grants' = grants
         /\ Decides(q, d, by) =>
            /\ memory'.answers = memory.answers \cup {[id |-> q.id, decision |-> d]}
            /\ memory'.accepted = memory.accepted \cup
                 (IF q.kind \in CommandKinds /\ d = "acceptForSession"
                    THEN {Identity(q)} ELSE {})
            /\ memory'.declined = memory.declined \cup
                 (IF q.kind \in CommandKinds /\ d \in Denying THEN {Identity(q)} ELSE {})
<1>1. ASSUME Refuses(q) \/ Replays(q, d, by)
      PROVE  /\ memory'.answers = memory.answers /\ memory'.accepted = memory.accepted
             /\ memory'.declined = memory.declined /\ grants' = grants
  BY <1>1, TypeParts, MemoryUpdates DEF Refuses, Replays
<1>2. ASSUME Decides(q, d, by)
      PROVE  /\ memory'.answers = memory.answers \cup {[id |-> q.id, decision |-> d]}
             /\ memory'.accepted = memory.accepted \cup
                  (IF q.kind \in CommandKinds /\ d = "acceptForSession"
                     THEN {Identity(q)} ELSE {})
             /\ memory'.declined = memory.declined \cup
                  (IF q.kind \in CommandKinds /\ d \in Denying THEN {Identity(q)} ELSE {})
  <2>1. PICK m \in Memories :
          /\ memory' = Remember(m, q, d) /\ m.answers = memory.answers
          /\ m.accepted = memory.accepted /\ m.declined = memory.declined
    BY <1>2, TypeParts, MemoryUpdates DEF Decides
  <2>2. /\ Remember(m, q, d).answers = m.answers \cup {[id |-> q.id, decision |-> d]}
        /\ Remember(m, q, d).accepted = m.accepted \cup
             (IF q.kind \in CommandKinds /\ d = "acceptForSession" THEN {Identity(q)} ELSE {})
        /\ Remember(m, q, d).declined = m.declined \cup
             (IF q.kind \in CommandKinds /\ d \in Denying THEN {Identity(q)} ELSE {})
    BY DEF Remember, Memories
  <2> QED BY <1>2, <2>1, <2>2
<1> QED BY <1>1, <1>2

LEMMA UserHandle ==
  ASSUME TypeInv, UserInv, Handle
  PROVE  UserInv'
<1>1. PICK q \in Requests, d \in Decisions \cup {"error"},
           by \in {"policy", "capacity", "replay", "memory", "grant", "limit",
                   "default", "user"} : Handled(q, d, by)
  BY HandleAnswers
<1> DEFINE n == Len(log) + 1
<1>2. /\ \A i \in 1 .. Len(log) : i \in 1 .. Len(log') /\ log'[i] = log[i]
      /\ n \in 1 .. Len(log') /\ log'[n] = Entry(q, d, by)
      /\ \A i \in 1 .. Len(log') : i \in 1 .. Len(log) \/ i = n
      /\ running /\ UNCHANGED <<turn, thread, root, context, epoch>>
  BY <1>1, AnswerLogged
<1>8. \A i \in 1 .. Len(log) : i < n /\ 1 .. i \subseteq 1 .. Len(log)
  BY <1>1, AnswerLogged
<1>9. 1 .. n = 1 .. Len(log')
  BY <1>1, AnswerLogged
<1> HIDE DEF n
<1>3. ASSUME NEW r, NEW x, Standing(r, x) PROVE Standing(r, x)'
  BY <1>2, <1>3 DEF Standing, Entry
<1>4. d \in Accepting => Standing(q, d)'
  <2> SUFFICES ASSUME d \in Accepting PROVE \E i \in 1 .. Len(log') : Covers(log'[i], Entry(q, d, "replay"))
    BY <1>2 DEF Standing, Entry
  <2>1. CASE Replays(q, d, by)
    BY <1>2, <2>1 DEF Replays, UserInv, AcceptedStands, Standing
  <2>2. CASE Decides(q, d, by) /\ by = "user"
    BY <1>2, <2>2, EntryFields DEF Covers
  <2>3. CASE Decides(q, d, by) /\ by = "memory"
    <3>1. Identity(q) \in memory.accepted /\ q.kind \in CommandKinds
      BY <2>3 DEF Decides, Remembered
    <3>2. PICK i \in 1 .. Len(log) :
            /\ log[i].by = "user" /\ log[i].decision = "acceptForSession"
            /\ log[i].turn = turn /\ log[i].request.kind \in CommandKinds
            /\ Identity(log[i].request) = Identity(q)
      BY <1>2, <3>1 DEF UserInv, AcceptedStands
    <3>3. Covers(log[i], Entry(q, d, "replay"))
      BY <3>1, <3>2, EntryFields DEF Covers, Accepting
    <3> QED BY <1>2, <3>3
  <2>4. CASE Decides(q, d, by) /\ by = "grant"
    <3>1. q.kind \in FileKinds /\ root \in q.ordinary
      BY <2>4 DEF Decides, Granted, Ordinary
    <3>2. PICK g \in 1 .. Len(grants) : grants[g] = [thread |-> thread, root |-> root]
      BY <2>4 DEF Decides, Granted, HasGrant
    <3>3. PICK i \in 1 .. Len(log) :
            /\ log[i].by = "user" /\ log[i].decision = "acceptForSession"
            /\ log[i].epoch = epoch /\ log[i].request.kind \in FileKinds
            /\ log[i].thread = thread /\ log[i].root = root
      BY <3>2 DEF UserInv, GrantsStand
    <3>4. Covers(log[i], Entry(q, d, "replay"))
      BY <3>1, <3>3, EntryFields DEF Covers, Accepting
    <3> QED BY <1>2, <3>4
  <2>5. ~Refuses(q) \/ d # "error"
    BY DEF Accepting
  <2>6. d \notin Denying
    BY DEF Accepting, Denying
  <2> QED BY <1>1, <2>1, <2>2, <2>3, <2>4, <2>5, <2>6 DEF Handled, Decides
<1>5. AcceptedStands'
  <2>1. ASSUME NEW r \in Requests, NEW x \in Accepting,
               [id |-> r.id, decision |-> x] \in memory'.answers
        PROVE  Standing(r, x)'
    <3>1. CASE [id |-> r.id, decision |-> x] \in memory.answers
      BY <1>2, <1>3, <3>1 DEF UserInv, AcceptedStands
    <3>2. CASE [id |-> r.id, decision |-> x] = [id |-> q.id, decision |-> d]
      <4>1. r = q /\ x = d
        BY <3>2, ApprovalsAssumption
      <4> QED BY <1>4, <4>1
    <3>3. \/ memory'.answers = memory.answers
          \/ memory'.answers = memory.answers \cup {[id |-> q.id, decision |-> d]}
      BY <1>1, AnswerRemembered DEF Handled
    <3> QED BY <2>1, <3>1, <3>2, <3>3
  <2>2. ASSUME NEW k \in memory'.accepted
        PROVE  \E i \in 1 .. Len(log') :
                 /\ log'[i].by = "user" /\ log'[i].decision = "acceptForSession"
                 /\ log'[i].turn = turn' /\ log'[i].request.kind \in CommandKinds
                 /\ Identity(log'[i].request) = k
    <3>1. CASE k \in memory.accepted
      BY <1>2, <3>1 DEF UserInv, AcceptedStands
    <3>2. CASE /\ k \notin memory.accepted
               /\ Decides(q, d, by) /\ q.kind \in CommandKinds /\ d = "acceptForSession"
               /\ k = Identity(q)
      <4>1. by = "user"
        BY <3>2 DEF Decides, Granted, CommandKinds, FileKinds, Accepting, Denying
      <4> QED BY <1>2, <3>2, <4>1, EntryFields
    <3>3. \/ memory'.accepted = memory.accepted
          \/ /\ Decides(q, d, by)
             /\ memory'.accepted = memory.accepted \cup
                  (IF q.kind \in CommandKinds /\ d = "acceptForSession"
                     THEN {Identity(q)} ELSE {})
      BY <1>1, AnswerRemembered DEF Handled
    <3> QED BY <2>2, <3>1, <3>2, <3>3
  <2> QED BY <2>1, <2>2 DEF AcceptedStands
<1>6. GrantsStand'
  <2>1. ASSUME NEW g \in 1 .. Len(grants'), NEW h \in 1 .. Len(grants), grants'[g] = grants[h]
        PROVE  \E i \in 1 .. Len(log') :
                 /\ log'[i].by = "user" /\ log'[i].decision = "acceptForSession"
                 /\ log'[i].epoch = epoch' /\ log'[i].request.kind \in FileKinds
                 /\ log'[i].thread = grants'[g].thread /\ log'[i].root = grants'[g].root
    BY SMTT(30), <1>2, <2>1 DEF UserInv, GrantsStand
  <2>2. CASE grants' = grants
    BY <2>1, <2>2 DEF GrantsStand
  <2>3. CASE by = "user" /\ grants' = GrantsAfter(q, d)
    <3>1. ASSUME NEW g \in 1 .. Len(grants'), grants'[g] = [thread |-> thread, root |-> root],
                 q.kind \in FileKinds, d = "acceptForSession"
          PROVE  \E i \in 1 .. Len(log') :
                 /\ log'[i].by = "user" /\ log'[i].decision = "acceptForSession"
                 /\ log'[i].epoch = epoch' /\ log'[i].request.kind \in FileKinds
                 /\ log'[i].thread = grants'[g].thread /\ log'[i].root = grants'[g].root
      BY <1>2, <2>3, <3>1, EntryFields
    <3>2. ASSUME NEW g \in 1 .. Len(grants')
          PROVE  \E i \in 1 .. Len(log') :
                 /\ log'[i].by = "user" /\ log'[i].decision = "acceptForSession"
                 /\ log'[i].epoch = epoch' /\ log'[i].request.kind \in FileKinds
                 /\ log'[i].thread = grants'[g].thread /\ log'[i].root = grants'[g].root
      <4>1. \/ \E h \in 1 .. Len(grants) : grants'[g] = grants[h]
            \/ /\ grants'[g] = [thread |-> thread, root |-> root]
               /\ q.kind \in FileKinds /\ d = "acceptForSession"
        BY <2>3, <3>2, GrantsAfterTypes
      <4> QED BY <2>1, <3>1, <4>1
    <3> QED BY <3>2 DEF GrantsStand
  <2> QED BY <1>1, <2>2, <2>3 DEF Handled, Refuses, Replays, Decides
<1>7. AcceptIsUsers'
  <2> SUFFICES ASSUME NEW j \in 1 .. Len(log'), log'[j].decision \in Accepting
               PROVE  \E i \in 1 .. j : Covers(log'[i], log'[j])
    BY DEF AcceptIsUsers
  <2>1. CASE j \in 1 .. Len(log)
    <3>1. PICK i \in 1 .. j : Covers(log[i], log[j])
      BY <1>2, <2>1 DEF UserInv, AcceptIsUsers
    <3>2. i \in 1 .. Len(log)
      BY <1>8, <2>1
    <3> QED BY <1>2, <2>1, <3>1, <3>2
  <2>2. CASE j = n
    <3>1. d \in Accepting
      BY <1>2, <2>2, EntryFields
    <3>2. PICK i \in 1 .. Len(log') : Covers(log'[i], Entry(q, d, "replay")')
      BY <1>4, <3>1 DEF Standing
    <3>3. Entry(q, d, "replay")' = Entry(q, d, "replay")
      BY <1>2 DEF Entry
    <3>4. Covers(log'[i], Entry(q, d, by))
      BY <3>2, <3>3, CoversAnyway
    <3> QED BY <1>2, <1>9, <2>2, <3>4
  <2> QED BY <1>2, <2>1, <2>2
<1> QED BY <1>5, <1>6, <1>7 DEF UserInv

LEMMA UserStep ==
  ASSUME TypeInv, UserInv, [Next]_vars
  PROVE  UserInv'
<1>1. CASE Handle
  BY <1>1, UserHandle
<1>2. ASSUME NEW t \in Threads, NEW r \in Roots, StartTurn(t, r)
      PROVE  UserInv'
  <2>1. memory' = NoMemory /\ log' = log
    BY <1>2 DEF StartTurn
  <2>2. AcceptedStands'
    BY <2>1 DEF AcceptedStands, NoMemory
  <2>3. \/ grants' = <<>>
        \/ grants' = grants /\ epoch' = epoch
    BY <1>2 DEF StartTurn, ContextChanges
  <2>4. GrantsStand'
    BY <2>1, <2>3 DEF GrantsStand, UserInv
  <2> QED BY <2>1, <2>2, <2>4 DEF UserInv, AcceptIsUsers
<1>3. CASE TurnEnds \/ TurnFails \/ NewSession
  <2>1. log' = log /\ ~running'
    BY <1>3 DEF TurnEnds, TurnFails, NewSession
  <2>2. grants' = <<>> \/ UNCHANGED <<grants, epoch>>
    BY <1>3 DEF TurnEnds, TurnFails, NewSession, Reset
  <2>3. GrantsStand'
    BY SMTT(30), <2>1, <2>2 DEF GrantsStand, UserInv
  <2> QED BY <2>1, <2>3 DEF UserInv, AcceptedStands, AcceptIsUsers
<1>4. CASE /\ UNCHANGED <<running, turn, thread, root, grants, epoch, log>>
           /\ memory'.answers = memory.answers /\ memory'.accepted = memory.accepted
  BY <1>4 DEF UserInv, AcceptedStands, GrantsStand, AcceptIsUsers, Standing, Entry
<1>5. CASE VerificationOffer
  BY <1>4, <1>5, TypeParts, MemoryUpdates DEF VerificationOffer
<1>6. ASSUME NEW q \in Requests, Arrive(q)
      PROVE  UserInv'
  BY <1>4, <1>6 DEF Arrive
<1>7. CASE Drain \/ Interrupt \/ UNCHANGED vars
  BY <1>4, <1>7 DEF Drain, Interrupt, vars
<1> QED BY <1>1, <1>2, <1>3, <1>5, <1>6, <1>7 DEF Next

(* docs/security-model.md:17: whatever the requests, the answers given before, *)
(* the limits and the turns, nothing is accepted that the user has not         *)
(* accepted: this request, the same command in this turn, or ordinary edits of *)
(* this thread's workspace since the grants were last cleared.                 *)
THEOREM OnlyUserAccepts == Spec => []AcceptIsUsers
<1>1. Init => UserInv
  BY DEF Init, UserInv, AcceptedStands, GrantsStand, AcceptIsUsers
<1>2. TypeInv /\ UserInv /\ [Next]_vars => UserInv'
  BY UserStep
<1>3. UserInv => AcceptIsUsers
  BY DEF UserInv
<1> QED BY <1>1, <1>2, <1>3, TypeCorrect, PTL DEF Spec
------------------------------------------------------------------------------
(* DecisionsStick for two entries of a log. *)
Stick(l, i, j) ==
  /\ l[i].request.id = l[j].request.id /\ l[i].decision # "error" =>
       l[j].decision = l[i].decision /\ l[j].by # "user"
  /\ /\ l[i].by = "user" /\ l[i].decision \in Denying
     /\ {l[i].request.kind, l[j].request.kind} \subseteq CommandKinds
     /\ Identity(l[i].request) = Identity(l[j].request)
     => \/ l[j].decision \notin Accepting
        \/ \E k \in 1 .. i : l[k].turn = l[j].turn /\ l[k].request.id = l[j].request.id

LEMMA MemoryHandle ==
  ASSUME TypeInv, MemoryInv, Handle
  PROVE  MemoryInv'
<1>1. PICK q \in Requests, d \in Decisions \cup {"error"},
           by \in {"policy", "capacity", "replay", "memory", "grant", "limit",
                   "default", "user"} : Handled(q, d, by)
  BY HandleAnswers
<1> DEFINE n == Len(log) + 1
<1>2. /\ \A i \in 1 .. Len(log) : i \in 1 .. Len(log') /\ log'[i] = log[i] /\ log[i] \in Entries
      /\ n \in 1 .. Len(log') /\ log'[n] = Entry(q, d, by)
      /\ \A i \in 1 .. Len(log') : i \in 1 .. Len(log) \/ i = n
      /\ turn' = turn
  BY <1>1, AnswerLogged
<1>3. \A i \in 1 .. Len(log) : i < n /\ 1 .. i \subseteq 1 .. Len(log)
  BY <1>1, AnswerLogged
<1>4. \A i, j \in 1 .. Len(log') : i < j => i \in 1 .. Len(log)
  BY <1>1, AnswerLogged
<1>5. turn <= turn /\ \A i, j \in 1 .. Len(log) : i < j \/ j <= i
  BY TypeParts
<1> HIDE DEF n
<1> DEFINE e == Entry(q, d, by)
<1>6. e.turn = turn /\ e.request = q /\ e.decision = d /\ e.by = by
  BY EntryFields
<1> HIDE DEF e
<1>7. log'[n] = e
  BY <1>2 DEF e
<1>8. \A i \in 1 .. Len(log) : log[i].request \in Requests
  BY <1>2 DEF Entries
<1>9. \A i \in 1 .. Len(log) : log[i].request.id = q.id => log[i].request = q
  BY <1>8, ApprovalsAssumption
<1>10. ASSUME NEW i \in 1 .. Len(log), NEW j \in 1 .. Len(log), i < j,
              log'[i].turn = log'[j].turn
       PROVE  Stick(log', i, j)
  <2>1. log'[i] = log[i] /\ log'[j] = log[j] /\ \A k \in 1 .. i : log'[k] = log[k]
    BY <1>2, <1>3
  <2>2. Stick(log, i, j)
    BY <1>10, <2>1 DEF MemoryInv, DecisionsStick, Stick
  <2> QED BY <2>1, <2>2 DEF Stick
<1>11. CASE d = "error" /\ by # "user" /\ Refuses(q)
  <2>1. /\ memory'.answers = memory.answers /\ memory'.accepted = memory.accepted
        /\ memory'.declined = memory.declined
    BY <1>1, <1>11, AnswerRemembered
  <2>2. TurnsPast'
    BY <1>2, <1>5, <1>6, <1>7 DEF MemoryInv, TurnsPast
  <2>3. LogRemembered' /\ AnswersLogged' /\ OneAnswer'
    <3>1. LogRemembered'
      BY <1>2, <1>6, <1>7, <1>11, <2>1 DEF MemoryInv, LogRemembered
    <3>2. AnswersLogged'
      BY <1>2, <2>1 DEF MemoryInv, AnswersLogged
    <3> QED BY <2>1, <3>1, <3>2 DEF MemoryInv, OneAnswer
  <2>4. OthersRefused' /\ DeclinedStays'
    <3>1. OthersRefused'
      BY <1>2, <1>6, <1>7, <1>11 DEF MemoryInv, OthersRefused
    <3>2. DeclinedStays'
      BY <1>2, <1>6, <1>7, <1>11, <2>1 DEF MemoryInv, DeclinedStays
    <3> QED BY <3>1, <3>2
  <2>5. ASSUME NEW i \in 1 .. Len(log), log[i].turn = turn, log[i].request.id = q.id
        PROVE  log[i].decision = "error"
    <3>1. log[i].request = q
      BY <1>9, <2>5
    <3>2. CASE q.kind \in OtherKinds
      BY <3>1, <3>2 DEF MemoryInv, OthersRefused
    <3>3. CASE ~Answered(q)
      BY <2>5, <3>3 DEF MemoryInv, LogRemembered, Answered
    <3> QED BY <1>11, <3>2, <3>3 DEF Refuses
  <2>6. d \notin Accepting
    BY <1>11 DEF Accepting
  <2>7. DecisionsStick'
    <3> SUFFICES ASSUME NEW i \in 1 .. Len(log'), NEW j \in 1 .. Len(log'),
                        i < j, log'[i].turn = log'[j].turn
                 PROVE  Stick(log', i, j)
      BY DEF DecisionsStick, Stick
    <3>1. i \in 1 .. Len(log)
      BY <1>4
    <3>2. CASE j \in 1 .. Len(log)
      BY <1>10, <3>1, <3>2
    <3>3. CASE j = n
      BY <1>2, <1>6, <1>7, <2>5, <2>6, <3>1, <3>3 DEF Stick
    <3> QED BY <1>2, <3>2, <3>3
  <2> QED BY <2>2, <2>3, <2>4, <2>7 DEF MemoryInv
<1>12. CASE Replays(q, d, by)
  <2>1. /\ memory'.answers = memory.answers /\ memory'.accepted = memory.accepted
        /\ memory'.declined = memory.declined
    BY <1>1, <1>12, AnswerRemembered
  <2>2. by = "replay" /\ [id |-> q.id, decision |-> d] \in memory.answers
    BY <1>12 DEF Replays
  <2>3. PICK m \in 1 .. Len(log) :
          log[m].turn = turn /\ log[m].request.id = q.id /\ log[m].decision = d
    BY <2>2 DEF MemoryInv, AnswersLogged
  <2>4. log[m].request = q
    BY <1>9, <2>3
  <2>5. TurnsPast' /\ LogRemembered' /\ AnswersLogged' /\ OneAnswer'
    <3>1. TurnsPast'
      BY <1>2, <1>5, <1>6, <1>7 DEF MemoryInv, TurnsPast
    <3>2. LogRemembered'
      BY <1>2, <1>6, <1>7, <2>1, <2>2 DEF MemoryInv, LogRemembered
    <3>3. AnswersLogged'
      BY <1>2, <2>1 DEF MemoryInv, AnswersLogged
    <3> QED BY <2>1, <3>1, <3>2, <3>3 DEF MemoryInv, OneAnswer
  <2>6. OthersRefused'
    BY <1>2, <1>6, <1>7, <2>3, <2>4 DEF MemoryInv, OthersRefused
  <2>7. DeclinedStays'
    BY <1>2, <1>6, <1>7, <2>1, <2>2 DEF MemoryInv, DeclinedStays
  <2>8. DecisionsStick'
    <3> SUFFICES ASSUME NEW i \in 1 .. Len(log'), NEW j \in 1 .. Len(log'),
                        i < j, log'[i].turn = log'[j].turn
                 PROVE  Stick(log', i, j)
      BY DEF DecisionsStick, Stick
    <3>1. i \in 1 .. Len(log)
      BY <1>4
    <3>2. CASE j \in 1 .. Len(log)
      BY <1>10, <3>1, <3>2
    <3>3. CASE j = n
      <4>1. log'[i] = log[i] /\ log'[j] = e /\ log[i].turn = turn
        BY <1>2, <1>6, <1>7, <3>1, <3>3
      <4>2. log[i].request.id = q.id /\ log[i].decision # "error" =>
              log[i].decision = d /\ by # "user"
        BY <2>2, <3>1, <4>1 DEF MemoryInv, LogRemembered, OneAnswer
      <4>3. ASSUME log[i].by = "user", log[i].decision \in Denying,
                   {log[i].request.kind, q.kind} \subseteq CommandKinds,
                   Identity(log[i].request) = Identity(q), d \in Accepting
            PROVE  \E k \in 1 .. i : log[k].turn = turn /\ log[k].request.id = q.id
        <5>1. CASE m <= i
          BY <2>3, <3>1, <5>1
        <5>2. CASE i < m
          BY <2>3, <2>4, <3>1, <4>1, <4>3, <5>2 DEF MemoryInv, DecisionsStick
        <5> QED BY <1>5, <3>1, <5>1, <5>2
      <4>4. \A k \in 1 .. i : log'[k] = log[k]
        BY <1>2, <1>3, <3>1
      <4> QED BY <1>6, <4>1, <4>2, <4>3, <4>4 DEF Stick
    <3> QED BY <1>2, <3>2, <3>3
  <2> QED BY <2>5, <2>6, <2>7, <2>8 DEF MemoryInv
<1>13. CASE Decides(q, d, by)
  <2> DEFINE a == [id |-> q.id, decision |-> d]
  <2>1. /\ memory'.answers = memory.answers \cup {a}
        /\ memory'.accepted = memory.accepted \cup
             (IF q.kind \in CommandKinds /\ d = "acceptForSession" THEN {Identity(q)} ELSE {})
        /\ memory'.declined = memory.declined \cup
             (IF q.kind \in CommandKinds /\ d \in Denying THEN {Identity(q)} ELSE {})
    BY <1>1, <1>13, AnswerRemembered
  <2>2. /\ q.kind \notin OtherKinds /\ ~Answered(q) /\ d # "error"
        /\ \A b \in memory.answers : b.id # q.id
    BY <1>13 DEF Decides, Fresh, Answered, Decisions
  <2>3. TurnsPast' /\ LogRemembered' /\ AnswersLogged'
    <3>1. TurnsPast'
      BY <1>2, <1>5, <1>6, <1>7 DEF MemoryInv, TurnsPast
    <3>2. LogRemembered'
      BY <1>2, <1>6, <1>7, <2>1 DEF MemoryInv, LogRemembered
    <3>3. AnswersLogged'
      BY <1>2, <1>6, <1>7, <2>1 DEF MemoryInv, AnswersLogged
    <3> QED BY <3>1, <3>2, <3>3
  <2>4. OneAnswer'
    BY <2>1, <2>2 DEF MemoryInv, OneAnswer
  <2>5. OthersRefused'
    BY <1>2, <1>6, <1>7, <2>2 DEF MemoryInv, OthersRefused
  <2>6. Identity(q) \in memory.declined \ memory.accepted /\ q.kind \in CommandKinds
          => d \notin Accepting /\ by # "user"
    BY <1>13 DEF Decides, Remembered, Granted, CommandKinds, FileKinds, Accepting, Denying
  <2>7. DeclinedStays'
    <3> SUFFICES ASSUME NEW i \in 1 .. Len(log'), log'[i].turn = turn, log'[i].by = "user",
                        log'[i].decision \in Denying, log'[i].request.kind \in CommandKinds
                 PROVE  Identity(log'[i].request) \in memory'.declined \ memory'.accepted
      BY <1>2 DEF DeclinedStays
    <3>1. CASE i \in 1 .. Len(log)
      <4>1. Identity(log[i].request) \in memory.declined \ memory.accepted
        BY <1>2, <3>1 DEF MemoryInv, DeclinedStays
      <4>2. Identity(log[i].request) # Identity(q)
              \/ ~(q.kind \in CommandKinds /\ d = "acceptForSession")
        BY <2>6, <4>1 DEF Accepting
      <4> QED BY <1>2, <2>1, <3>1, <4>1, <4>2
    <3>2. CASE i = n
      <4>1. by = "user" /\ d \in Denying /\ q.kind \in CommandKinds /\ log'[i].request = q
        BY <1>6, <1>7, <3>2
      <4>2. Identity(q) \notin memory.accepted
        BY <1>13, <4>1 DEF Decides, Remembered
      <4>3. d # "acceptForSession"
        BY <4>1 DEF Denying
      <4> QED BY <2>1, <4>1, <4>2, <4>3
    <3> QED BY <1>2, <3>1, <3>2
  <2>8. DecisionsStick'
    <3> SUFFICES ASSUME NEW i \in 1 .. Len(log'), NEW j \in 1 .. Len(log'),
                        i < j, log'[i].turn = log'[j].turn
                 PROVE  Stick(log', i, j)
      BY DEF DecisionsStick, Stick
    <3>1. i \in 1 .. Len(log)
      BY <1>4
    <3>2. CASE j \in 1 .. Len(log)
      BY <1>10, <3>1, <3>2
    <3>3. CASE j = n
      <4>1. log'[i] = log[i] /\ log'[j] = e /\ log[i].turn = turn
        BY <1>2, <1>6, <1>7, <3>1, <3>3
      <4>2. ~(log[i].request.id = q.id /\ log[i].decision # "error")
        BY <2>2, <3>1, <4>1 DEF MemoryInv, LogRemembered
      <4>3. log[i].by = "user" /\ log[i].decision \in Denying
              /\ {log[i].request.kind, q.kind} \subseteq CommandKinds
              /\ Identity(log[i].request) = Identity(q) => d \notin Accepting
        BY <2>6, <3>1, <4>1 DEF MemoryInv, DeclinedStays
      <4> QED BY <1>6, <4>1, <4>2, <4>3 DEF Stick
    <3> QED BY <1>2, <3>2, <3>3
  <2> QED BY <2>3, <2>4, <2>5, <2>7, <2>8 DEF MemoryInv
<1> QED BY <1>1, <1>11, <1>12, <1>13 DEF Handled

LEMMA MemoryStep ==
  ASSUME TypeInv, MemoryInv, [Next]_vars
  PROVE  MemoryInv'
<1>1. CASE Handle
  BY <1>1, MemoryHandle
<1>2. ASSUME NEW t \in Threads, NEW r \in Roots, StartTurn(t, r)
      PROVE  MemoryInv'
  <2>1. memory'.answers = {} /\ log' = log /\ turn' = turn + 1
    BY <1>2 DEF StartTurn, NoMemory
  <2>2. \A i \in 1 .. Len(log) : log[i].turn \in Nat /\ log[i].turn <= turn
    <3>1. log \in Seq(Entries) /\ MaxTurns \in Nat
      BY TypeParts, ApprovalsAssumption
    <3>2. \A i \in 1 .. Len(log) : log[i] \in Entries
      BY <3>1
    <3>3. \A i \in 1 .. Len(log) : log[i].turn \in 1 .. MaxTurns
      BY <3>2 DEF Entries
    <3> QED BY <3>1, <3>3 DEF MemoryInv, TurnsPast
  <2>3. \A i \in 1 .. Len(log) : log[i].turn # turn + 1 /\ log[i].turn <= turn + 1
    BY <2>2, TypeParts
  <2> QED BY <2>1, <2>3 DEF MemoryInv, TurnsPast, LogRemembered, AnswersLogged, OneAnswer,
          OthersRefused, DeclinedStays, DecisionsStick
<1>3. CASE /\ UNCHANGED <<turn, log>>
           /\ memory'.answers = memory.answers /\ memory'.accepted = memory.accepted
           /\ memory'.declined = memory.declined
  BY <1>3 DEF MemoryInv, TurnsPast, LogRemembered, AnswersLogged, OneAnswer,
          OthersRefused, DeclinedStays, DecisionsStick
<1>4. CASE VerificationOffer
  BY <1>3, <1>4, TypeParts, MemoryUpdates DEF VerificationOffer
<1>5. ASSUME NEW q \in Requests, Arrive(q)
      PROVE  MemoryInv'
  BY <1>3, <1>5 DEF Arrive
<1>6. CASE Drain \/ Interrupt \/ TurnEnds \/ TurnFails \/ NewSession \/ UNCHANGED vars
  BY <1>3, <1>6 DEF Drain, Interrupt, TurnEnds, TurnFails, NewSession, vars
<1> QED BY <1>1, <1>2, <1>4, <1>5, <1>6 DEF Next

(* CHANGELOG.md:157, tests/test_approval_state_machine.py:71: within a turn a   *)
(* request delivered again gets the answer it got, without a prompt, and a      *)
(* command the user declined is accepted under no new id - for any requests,    *)
(* limits and orders of arrival.                                                *)
THEOREM DecisionsHold == Spec => []DecisionsStick
<1>1. Init => MemoryInv
  BY DEF Init, MemoryInv, TurnsPast, LogRemembered, AnswersLogged, OneAnswer, OthersRefused,
         DeclinedStays, DecisionsStick, NoMemory
<1>2. TypeInv /\ MemoryInv /\ [Next]_vars => MemoryInv'
  BY MemoryStep
<1>3. MemoryInv => DecisionsStick
  BY DEF MemoryInv
<1> QED BY <1>1, <1>2, <1>3, TypeCorrect, PTL DEF Spec
==============================================================================
