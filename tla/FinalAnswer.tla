----------------------------- MODULE FinalAnswer -----------------------------
(***************************************************************************)
(* runtime/cx2/turn_runner.py: how one turn arrives at its canonical final *)
(* answer.  The App Server tells of the answer several times over: streamed *)
(* deltas, the completion of the agent message, the raw response item, the  *)
(* items of turn/start and turn/completed, and thread/read as a last        *)
(* resort.  StreamingTurnRunner reconciles them and lets a turn succeed     *)
(* only on one undisputed answer.                                          *)
(*                                                                         *)
(* Texts are sequences of chunks, so that a delta and an authoritative text *)
(* can run into each other; a text's bytes and digest are the text itself.  *)
(* Left out: rendering, the spill file of texts beyond 16 MiB, diagnostics. *)
(***************************************************************************)
EXTENDS Naturals, Sequences, FiniteSets

CONSTANTS
  Items,            \* agentMessage item ids, numbers ordered as the strings are
  Chunks,           \* contents of a delta
  Texts,            \* authoritative texts, sequences of chunks
  CandidateLists,   \* final candidates a turn or a thread can list, in order
  CandidateCap,     \* MAX_FINAL_ANSWER_CANDIDATES
  PrestartCap,      \* MAX_UNRESOLVED_PRESTART_ITEMS
  BufferCap,        \* UNRESOLVED_ITEM_MAX_BYTES, in chunks
  MaxAttempts,      \* attempts of thread/read
  MaxEvents,        \* bound: events handled
  Orders            \* values of ordered

ASSUME FinalAssumption ==
  /\ Items \subseteq Nat \ {0} /\ IsFiniteSet(Items)
  /\ Texts \subseteq Seq(Chunks)
  /\ CandidateLists \subseteq Seq([item : Items, text : Texts])
  /\ <<>> \in CandidateLists
  /\ CandidateCap \in Nat /\ PrestartCap \in Nat /\ BufferCap \in Nat
  /\ MaxAttempts \in Nat \ {0} /\ MaxEvents \in Nat
  /\ Orders \subseteq BOOLEAN

\* _source_rank; 0 stands for no source.
ItemCompleted == 1
RawCompleted  == 2
TurnPayload   == 3
ThreadRead    == 4
Ranks == ItemCompleted .. ThreadRead

NoItem == 0
FinalStatuses == {"completed", "interrupted", "failed"}

VARIABLES
  phase,      \* where run_turn is: "start", "started" (turn/start already told
              \* the end), "turn" (wait_for_turn), "late" (the drain of late
              \* final events), "recover" and "read" (thread/read), "done"
  status,     \* result.status
  observed,   \* observed_status of _finalize_terminal_result
  recover,    \* allow_recovery
  attempts,   \* thread/read attempts made
  todo,       \* candidates of a payload still to be reconciled, with their rank
  result,     \* the rest of TurnRunResult that decides the answer
  capacity,   \* _fail_capacity was called
  ordered,    \* the server streams a message before telling its final text,
              \* as its own event order does; never changes
  seen,       \* history: authoritative texts told so far
  events      \* history: events handled

vars == <<phase, status, observed, recover, attempts, todo, result, capacity,
          ordered, seen, events>>

\* AgentMessageItemState: "absent" is no entry, "prestart" an entry made by a
\* delta, "open" one whose phase is still null.
Absent == [class |-> "absent", buffer |-> <<>>, text |-> <<>>, rank |-> 0]

Init ==
  /\ phase = "start" /\ status = "inProgress" /\ observed = "inProgress"
  /\ recover = TRUE /\ attempts = 0 /\ todo = <<>>
  /\ result = [item |-> [x \in Items |-> Absent],
               text |-> <<>>,         \* agent_text
               id |-> NoItem,         \* canonical_final_item_id
               source |-> 0,          \* rank of canonical_final_source
               evidence |-> FALSE,    \* authoritative_final_evidence
               reconciled |-> FALSE,  \* canonical_final_reconciled
               ambiguity |-> "none",  \* final_ambiguity_reason
               raws |-> {},           \* raw_final_text and its conflict
               retained |-> 0]        \* final_candidates_retained
  /\ capacity = FALSE /\ ordered \in Orders /\ seen = {} /\ events = 0
------------------------------------------------------------------------------
(* The reconciliation, as functions from one result to the next *)

\* _mark_final_protocol_failure
MarkFailure(r, reason) ==
  [r EXCEPT !.evidence = TRUE, !.reconciled = FALSE, !.ambiguity = reason,
            !.text = <<>>, !.id = NoItem, !.source = 0]

\* _reserve_final_candidate_state: the entry becomes a final candidate, or the
\* candidate is rejected at the limit and its entry discarded.
Rejected(r, x) ==
  r.item[x].class # "final" /\ r.retained >= CandidateCap

Reserve(r, x) ==
  IF r.item[x].class = "final" THEN r
  ELSE IF Rejected(r, x)
    THEN MarkFailure([r EXCEPT !.item[x] = Absent], "LIMIT")
    ELSE [r EXCEPT !.item[x].class = "final", !.retained = @ + 1]

\* Mutant: the later source wins.
Outranked_Never(r, rank) == FALSE

\* A source of better rank has been selected already.
Outranked(r, rank) == r.source # 0 /\ rank > r.source

\* The end of _set_authoritative_final.
Select(r, x, text, rank) ==
  IF r.ambiguity # "none" \/ Outranked(r, rank) THEN r
  ELSE [r EXCEPT !.evidence = TRUE, !.reconciled = TRUE, !.text = text,
                 !.source = rank, !.id = IF x = NoItem THEN @ ELSE x]

Told(r) == {x \in Items : r.item[x].rank # 0}

Least(S) == CHOOSE x \in S : \A y \in S : x <= y

\* Mutant: only texts of different sources dispute each other.
Disputed_OtherSource(r) ==
  \E x, y \in Told(r) : /\ r.item[x].rank # r.item[y].rank
                        /\ r.item[x].text # r.item[y].text

\* More than one digest among the candidates.
Disputed(r) == \E x, y \in Told(r) : r.item[x].text # r.item[y].text

\* Mutant: the last of several equivalent duplicates is canonical.
Reconcile_LastId(r, x, text, rank) ==
  IF Disputed(r) THEN MarkFailure(r, "MULTIPLE_FINAL")
  ELSE IF Told(r) # {x}
    THEN [r EXCEPT !.evidence = TRUE, !.reconciled = TRUE, !.id = x]
    ELSE Select(r, x, text, rank)

\* The candidates in place: dispute, equivalent duplicates, or one candidate.
Reconcile(r, x, text, rank) ==
  IF Disputed(r) THEN MarkFailure(r, "MULTIPLE_FINAL")
  ELSE IF Told(r) # {x}
    THEN [r EXCEPT !.evidence = TRUE, !.reconciled = TRUE, !.id = Least(Told(r))]
    ELSE Select(r, x, text, rank)

\* _set_authoritative_final for an item.
SetAuthoritative(r, x, text, rank) ==
  LET held == r.item[x]
      reserved == Reserve(r, x)
  IN IF Rejected(r, x) THEN reserved
     ELSE IF held.rank # 0 /\ rank > held.rank THEN reserved
     ELSE IF held.rank = rank /\ held.text # text
       THEN MarkFailure(reserved, "MULTIPLE_FINAL")
     ELSE Reconcile([reserved EXCEPT !.item[x] =
                       [class |-> "final", buffer |-> <<>>, text |-> text,
                        rank |-> rank]],
                    x, text, rank)

\* _set_raw_authoritative_final: the raw item names no agentMessage.
SetRaw(r, text) ==
  IF r.raws = {} THEN Select([r EXCEPT !.raws = {text}], NoItem, text, RawCompleted)
  ELSE IF text \in r.raws THEN r
  ELSE MarkFailure([r EXCEPT !.raws = IF Cardinality(@) = 1 THEN @ \cup {text}
                                                            ELSE @],
                   "MULTIPLE_RAW")

\* Streamed text goes to agent_text while no other item is canonical.
Stream(r, x, s) ==
  IF s # <<>> /\ r.id \in {NoItem, x}
    THEN [r EXCEPT !.id = x, !.text = @ \o s] ELSE r

\* _classify_agent_item: text buffered before the phase was known is streamed
\* when the item turns out to be the final answer.
Classify(r, x, class) ==
  IF class # "final"
    THEN [r EXCEPT !.item[x].class = class,
                   !.item[x].buffer = IF class = "open" THEN @ ELSE <<>>]
  ELSE IF Rejected(r, x) THEN Reserve(r, x)
  ELSE Stream([Reserve(r, x) EXCEPT !.item[x].buffer = <<>>], x, r.item[x].buffer)

\* _handle_agent_delta and _buffer_unresolved_delta.
Delta(r, x, s) ==
  LET class == r.item[x].class
      prestart == {y \in Items : r.item[y].class = "prestart"}
      buffered == IF Len(r.item[x].buffer \o s) <= BufferCap
                    THEN r.item[x].buffer \o s ELSE r.item[x].buffer
  IN CASE class = "final" -> Stream(r, x, s)
       [] class = "commentary" -> r
       [] class \in {"prestart", "open"} -> [r EXCEPT !.item[x].buffer = buffered]
       [] class = "absent" ->
            IF r.ambiguity = "LIMIT" \/ Cardinality(prestart) >= PrestartCap
              THEN r
              ELSE [r EXCEPT !.item[x].class = "prestart",
                             !.item[x].buffer = buffered]
------------------------------------------------------------------------------
(* The events _handle_notification handles, for exactly this turn *)

Tell(x, text, rank) == seen' = seen \cup {[item |-> x, text |-> text, rank |-> rank]}

\* The server has more to stream of x: its final text is not told yet, and a
\* raw item told is that of a message already completed.
Streaming(x) ==
  ordered =>
    /\ \A e \in seen : e.item # x
    /\ \A e \in seen : e.rank = RawCompleted =>
         \E f \in seen : f.rank = ItemCompleted

Handle ==
  /\ phase \in {"turn", "late"} /\ todo = <<>> /\ events < MaxEvents
  /\ events' = events + 1
  /\ UNCHANGED <<phase, observed, recover, attempts, ordered>>

ItemStarted(x, class) ==
  /\ Handle /\ Streaming(x)
  /\ result' = Classify(result, x, class)
  /\ UNCHANGED <<status, todo, capacity, seen>>

AgentDelta(x, chunk) ==
  /\ Handle /\ Streaming(x)
  /\ result' = Delta(result, x, <<chunk>>)
  /\ UNCHANGED <<status, todo, capacity, seen>>

CommentaryCompleted(x) ==
  /\ Handle /\ Streaming(x)
  /\ result' = Classify(result, x, "commentary")
  /\ UNCHANGED <<status, todo, capacity, seen>>

FinalCompleted(x, text) ==
  /\ Handle
  /\ result' = LET r == Classify(result, x, "final")
               IN IF Rejected(result, x) THEN r
                  ELSE SetAuthoritative(r, x, text, ItemCompleted)
  /\ Tell(x, text, ItemCompleted)
  /\ UNCHANGED <<status, todo, capacity>>

RawResponseCompleted(text) ==
  /\ Handle
  /\ result' = SetRaw(result, text)
  /\ Tell(NoItem, text, RawCompleted)
  /\ UNCHANGED <<status, todo, capacity>>

WithRank(list, rank) ==
  [i \in 1 .. Len(list) |-> [item |-> list[i].item, text |-> list[i].text,
                             rank |-> rank]]

\* turn/completed: the status, then the candidates of a completed turn.
TurnCompleted(s, list) ==
  /\ Handle
  /\ status' = s
  /\ todo' = IF s = "completed" THEN WithRank(list, TurnPayload) ELSE <<>>
  /\ UNCHANGED <<result, capacity, seen>>

\* The next candidate of turn/start, turn/completed or thread/read.
Candidate ==
  /\ todo # <<>>
  /\ LET c == Head(todo) IN
     /\ result' = SetAuthoritative(result, c.item, c.text, c.rank)
     /\ Tell(c.item, c.text, c.rank)
  /\ todo' = Tail(todo)
  /\ UNCHANGED <<phase, status, observed, recover, attempts, capacity, ordered, events>>

\* _fail_capacity, by any handler of the batch that is over a bound.
CapacityExceeded ==
  /\ Handle /\ phase = "turn"
  /\ status' = "failed" /\ capacity' = TRUE
  /\ UNCHANGED <<todo, result, seen>>
------------------------------------------------------------------------------
(* run_turn and _finalize_terminal_result *)

StartReturns(s, list) ==
  /\ phase = "start"
  /\ status' = s
  /\ IF s \in FinalStatuses THEN phase' = "started" ELSE phase' = "turn"
  /\ todo' = IF s = "completed" THEN WithRank(list, TurnPayload) ELSE <<>>
  /\ UNCHANGED <<observed, recover, attempts, result, capacity, ordered, seen, events>>

\* A final status at the end of a batch of events ends the wait.
WaitEnds ==
  /\ phase \in {"started", "turn"} /\ todo = <<>> /\ status \in FinalStatuses
  /\ phase' = "late" /\ observed' = status
  /\ UNCHANGED <<status, recover, attempts, todo, result, capacity, ordered, seen, events>>

\* A timeout, Ctrl+C or a dead process ends the wait with an exception.
WaitRaises(s) ==
  /\ phase = "turn" /\ todo = <<>>
  /\ status' = IF status \in FinalStatuses THEN status ELSE s
  /\ observed' = status' /\ recover' = FALSE
  /\ phase' = "late"
  /\ UNCHANGED <<attempts, todo, result, capacity, ordered, seen, events>>

\* The last check of _finalize_terminal_result.
Undisputed(r) == r.ambiguity = "none" /\ r.evidence /\ r.reconciled

Judge ==
  /\ phase' = "done"
  /\ status' = IF Undisputed(result) THEN status ELSE "failed"

\* A status that was not a success before the late drain stands.
LateDrainEnds ==
  /\ phase = "late" /\ todo = <<>>
  /\ \/ /\ observed # "completed"
        /\ phase' = "done" /\ status' = observed
     \/ /\ observed = "completed" /\ status # "completed"
        /\ phase' = "done" /\ UNCHANGED status
     \/ /\ observed = "completed" /\ status = "completed"
        /\ IF recover /\ ~result.evidence /\ result.ambiguity = "none"
             THEN phase' = "recover" /\ UNCHANGED status
             ELSE Judge
  /\ UNCHANGED <<observed, recover, attempts, todo, result, capacity, ordered, seen, events>>

\* _recover_final_answer_from_thread: one attempt; an error or a thread without
\* candidates of this turn is the empty list.
ReadThread(list) ==
  /\ phase = "recover"
  /\ attempts' = attempts + 1
  /\ todo' = WithRank(list, ThreadRead)
  /\ \/ list # <<>> /\ phase' = "read" /\ UNCHANGED status
     \/ list = <<>> /\ attempts' < MaxAttempts /\ UNCHANGED <<phase, status>>
     \/ list = <<>> /\ attempts' = MaxAttempts /\ Judge
  /\ UNCHANGED <<observed, recover, result, capacity, ordered, seen, events>>

ThreadReadEnds ==
  /\ phase = "read" /\ todo = <<>>
  /\ Judge
  /\ UNCHANGED <<observed, recover, attempts, todo, result, capacity, ordered, seen, events>>
------------------------------------------------------------------------------
Event ==
  \/ \E x \in Items :
       \/ \E class \in {"final", "commentary", "open"} : ItemStarted(x, class)
       \/ \E chunk \in Chunks : AgentDelta(x, chunk)
       \/ CommentaryCompleted(x)
       \/ \E text \in Texts : FinalCompleted(x, text)
  \/ \E text \in Texts : RawResponseCompleted(text)
  \/ \E s \in FinalStatuses, list \in CandidateLists : TurnCompleted(s, list)
  \/ CapacityExceeded

Next ==
  \/ Event \/ Candidate
  \/ \E s \in FinalStatuses \cup {"inProgress"}, list \in CandidateLists :
       StartReturns(s, list)
  \/ WaitEnds \/ LateDrainEnds \/ ThreadReadEnds
  \/ \E s \in {"interrupted", "failed"} : WaitRaises(s)
  \/ \E list \in CandidateLists : ReadThread(list)

Spec == Init /\ [][Next]_vars
------------------------------------------------------------------------------
(* Properties *)

Having(class) == {x \in Items : result.item[x].class = class}

ItemStates == [class : {"absent", "prestart", "open", "commentary", "final"},
               buffer : Seq(Chunks), text : Texts \cup {<<>>},
               rank : Ranks \cup {0}]

TypeOK ==
  /\ phase \in {"start", "started", "turn", "late", "recover", "read", "done"}
  /\ status \in FinalStatuses \cup {"inProgress"}
  /\ observed \in FinalStatuses \cup {"inProgress"}
  /\ recover \in BOOLEAN /\ attempts \in 0 .. MaxAttempts
  /\ todo \in Seq([item : Items, text : Texts, rank : Ranks])
  /\ result \in [item : [Items -> ItemStates], text : Seq(Chunks),
                 id : Items \cup {NoItem}, source : Ranks \cup {0},
                 evidence : BOOLEAN, reconciled : BOOLEAN,
                 ambiguity : {"none", "LIMIT", "MULTIPLE_FINAL", "MULTIPLE_RAW"},
                 raws : SUBSET Texts, retained : 0 .. CandidateCap]
  /\ Cardinality(Having("prestart")) <= PrestartCap
  /\ Cardinality(Having("final")) <= result.retained
  /\ \A x \in Items : Len(result.item[x].buffer) <= BufferCap
  /\ capacity \in BOOLEAN /\ ordered \in Orders
  /\ seen \subseteq [item : Items \cup {NoItem}, text : Texts, rank : Ranks]
  /\ events \in 0 .. MaxEvents

Succeeded == phase = "done" /\ status = "completed"
TextsOf(rank) == {e.text : e \in {f \in seen : f.rank = rank}}
BestRank == CHOOSE k \in Ranks : /\ TextsOf(k) # {}
                                 /\ \A j \in Ranks : TextsOf(j) # {} => k <= j

\* turn_runner.py:3172 "one strictly reconciled authoritative final answer": a
\* turn succeeds only if all completed messages agreed, and all raw items did,
\* and only if it had completed before the late drain, whatever that brings
\* (tests/test_final_answer_lifecycle.py:1005, :1188).
SuccessIsUndisputed ==
  Succeeded => /\ observed = "completed" /\ seen # {}
               /\ Cardinality(TextsOf(ItemCompleted)) <= 1
               /\ Cardinality(TextsOf(RawCompleted)) <= 1

\* turn_runner.py:3172: whatever a turn succeeds with is a text that some
\* source told as authoritative. Not so of the code, which appends a delta that
\* comes late to the text it belongs to.
AnswerIsTold == Succeeded => result.text \in {e.text : e \in seen}

Tellers == {e.item : e \in seen} \ {NoItem}

\* tests/test_final_answer_lifecycle.py:674: with one message, the answer of a
\* successful turn is the text of the best source that told one, however the
\* sources' events were ordered among each other.
SuccessUsesBestSource ==
  Succeeded /\ ordered /\ Cardinality(Tellers) <= 1 =>
    result.text \in TextsOf(BestRank)

\* tests/test_final_answer_lifecycle.py:426, :603, :640, :674: while only
\* message completions and raw items have come, and none was beyond the limit,
\* what has been decided depends on which have come and not on their order.
OrderIndependent ==
  LET items == TextsOf(ItemCompleted)
      raws == TextsOf(RawCompleted)
      disputed == Cardinality(items) > 1 \/ Cardinality(raws) > 1
      decided == ~disputed /\ ordered
      early == TextsOf(TurnPayload) = {} /\ TextsOf(ThreadRead) = {}
  IN early /\ seen # {} /\ result.ambiguity # "LIMIT" =>
       /\ (result.ambiguity # "none") <=> disputed
       /\ decided /\ items # {} => /\ result.text \in items
                                   /\ result.id = Least(Tellers)
       /\ decided /\ items = {} => result.text \in raws

\* tests/test_2014_remediation.py:637: exceeding a bound of the turn's state
\* fails the turn instead of losing what did not fit. Not so of the code:
\* TurnCompleted overwrites the failure.
CapacityFails == capacity => ~Succeeded
==============================================================================
