------------------------------ MODULE Approvals ------------------------------
(***************************************************************************)
(* runtime/cx2/turn_runner.py, _handle_server_request, and                 *)
(* runtime/cx2/file_write_grants.py: how the runner answers the server's   *)
(* approval requests - from the memory of the turn, from a file-write      *)
(* grant of the session, by refusing past a limit, or by asking the user.  *)
(*                                                                         *)
(* The legacy decisions approved, approved_for_session, denied and abort   *)
(* go by their modern names.  Whether a change is an ordinary edit inside  *)
(* a workspace is part of the request (ordinary: the roots it is ordinary  *)
(* in), as is the thread the server asks for.                              *)
(***************************************************************************)
EXTENDS Naturals, Sequences, FiniteSets

CONSTANTS
  Threads, Roots,   \* App Server threads and workspace roots
  Requests,         \* what the server may ask
  MaxPrompts,       \* max_approval_prompts_per_turn
  IdentityCap,      \* MAX_APPROVAL_REQUEST_IDENTITIES
  GrantCap,         \* MAX_RUNTIME_GRANTS
  MaxTurns,         \* bound: turns
  MaxArrivals,      \* bound: requests delivered, replays included
  MaxInterrupts     \* bound: Ctrl+C during the handling of a batch

CommandKinds == {"command", "exec"}   \* requestApproval, execCommandApproval
FileKinds    == {"file", "patch"}     \* requestApproval, applyPatchApproval
OtherKinds   == {"permissions", "userInput"}
Decisions    == {"accept", "acceptForSession", "decline", "cancel"}
Accepting    == {"accept", "acceptForSession"}
Denying      == {"decline", "cancel"}

ASSUME ApprovalsAssumption ==
  /\ \A q \in Requests :
       /\ q.kind \in CommandKinds \cup FileKinds \cup OtherKinds
       /\ q.available \subseteq Decisions
       /\ q.ordinary \subseteq Roots /\ q.thread \in Threads
  /\ \A q, r \in Requests : q.id = r.id => q = r
  /\ MaxPrompts \in Nat \ {0}
  /\ IdentityCap \in Nat /\ GrantCap \in Nat \ {0}
  /\ MaxTurns \in Nat /\ MaxArrivals \in Nat /\ MaxInterrupts \in Nat

VARIABLES
  interactive,  \* live and can_prompt
  queue,        \* client._server_requests
  batch,        \* drained, still to be handled
  running,      \* a turn is in wait_for_turn
  turn,         \* number of the turn
  thread, root, \* result.thread_id and current_cwd
  context,      \* _active_runtime_context
  memory,       \* TurnApprovalState and the counters of TurnRunResult
  grants,       \* FileWriteGrantRegistry._grants, oldest first
  started,      \* history: threads a turn was started in
  epoch,        \* history: times the grants were cleared
  log,          \* history: answers given
  arrivals, interrupts

vars == <<interactive, queue, batch, running, turn, thread, root, context,
          memory, grants, started, epoch, log, arrivals, interrupts>>

NoContext == <<>>

\* TurnApprovalState()
NoMemory == [answers |-> {},      \* request_id_responses
             accepted |-> {},     \* session_accepted_identities
             declined |-> {},     \* declined_identities
             prompts |-> 0,       \* interactive_approval_prompt_count
             failed |-> FALSE]    \* _fail_capacity was called

Init ==
  /\ interactive \in BOOLEAN
  /\ queue = <<>> /\ batch = <<>> /\ running = FALSE /\ turn = 0
  /\ thread \in Threads /\ root \in Roots /\ context = NoContext
  /\ memory = NoMemory /\ grants = <<>>
  /\ started = {} /\ epoch = 0 /\ log = <<>>
  /\ arrivals = 0 /\ interrupts = 0
------------------------------------------------------------------------------
(* What the runner decides from *)

Ordinary(q) == root \in q.ordinary

\* The identity of a command: its method, cwd and text.
Identity(q) == [kind |-> q.kind, command |-> q.command]

\* The decisions the server advertises and, for files, the boundary allows.
Offered(q) ==
  CASE q.kind = "exec" -> Decisions
    [] q.kind = "command" -> q.available
    [] q.kind \in FileKinds ->
         q.available \cap IF Ordinary(q) THEN Decisions ELSE Denying
    [] OTHER -> {}

\* The first decision of a preference list that is offered.
FirstOf(list, offered) ==
  LET hits == {i \in 1 .. Len(list) : list[i] \in offered}
  IN IF hits = {} THEN "error"
     ELSE list[CHOOSE i \in hits : \A j \in hits : i <= j]

\* safe_default of _safe_approval_prompt; "error" when nothing denies.
Default(offered) == FirstOf(<<"decline", "cancel">>, offered)

Answered(q) == \E a \in memory.answers : a.id = q.id
HasGrant == \E i \in 1 .. Len(grants) : grants[i] = [thread |-> thread, root |-> root]

Over == Cardinality(memory.answers) >= IdentityCap

AtLimit == memory.prompts >= MaxPrompts

\* Mutant: an identity declined before may be asked about again.
Remembered_SessionOnly(q) ==
  q.kind \in CommandKinds /\ Identity(q) \in memory.accepted

\* The turn has decided about this identity already.
Remembered(q) ==
  q.kind \in CommandKinds /\ Identity(q) \in memory.accepted \cup memory.declined

\* A change inside the workspace that the session's grant covers.
Granted(q) == q.kind \in FileKinds /\ Ordinary(q) /\ HasGrant

\* Modern requests outside the boundary go to the user before the limit is
\* looked at.
OutsideBoundary(q) == q.kind = "file" /\ ~Ordinary(q)

RememberedAnswer(q) ==
  IF Identity(q) \in memory.accepted
    THEN LET d == FirstOf(<<"acceptForSession", "accept">>, Offered(q))
         IN IF d = "error" THEN "decline" ELSE d
    ELSE IF "decline" \in Offered(q) THEN "decline" ELSE "cancel"

GrantedAnswer(q) ==
  FirstOf(<<"acceptForSession", "accept", "decline", "cancel">>, Offered(q))

\* Past the limit a command is refused with or without an offer to refuse it.
LimitAnswer(q) ==
  IF q.kind \in CommandKinds
    THEN IF "decline" \in Offered(q) THEN "decline" ELSE "cancel"
    ELSE Default(Offered(q))
------------------------------------------------------------------------------
(* Answering *)

Entry(q, d, by) ==
  [turn |-> turn, request |-> q, thread |-> thread, root |-> root,
   epoch |-> epoch, decision |-> d, by |-> by]

\* FileWriteGrantRegistry.grant: a new grant evicts the oldest at the limit.
WithGrant(g, key) ==
  IF \E i \in 1 .. Len(g) : g[i] = key THEN g
  ELSE Append(IF Len(g) >= GrantCap THEN Tail(g) ELSE g, key)

\* Mutant: a one-shot accept is remembered for the session.
Remember_AcceptStays(m, q, d) ==
  [m EXCEPT
     !.answers = @ \cup {[id |-> q.id, decision |-> d]},
     !.accepted = IF q.kind \in CommandKinds /\ d \in Accepting
                    THEN @ \cup {Identity(q)} ELSE @,
     !.declined = IF q.kind \in CommandKinds /\ d \in Denying
                    THEN @ \cup {Identity(q)} ELSE @]

\* The memory of send_decision.  An identity is added with a request id, so
\* the identities' own limit is never the first to be met.
Remember(m, q, d) ==
  [m EXCEPT
     !.answers = @ \cup {[id |-> q.id, decision |-> d]},
     !.accepted = IF q.kind \in CommandKinds /\ d = "acceptForSession"
                    THEN @ \cup {Identity(q)} ELSE @,
     !.declined = IF q.kind \in CommandKinds /\ d \in Denying
                    THEN @ \cup {Identity(q)} ELSE @]

\* send_decision, or respond_error for the decision "error".
Answer(m, q, d, by) ==
  /\ memory' = IF d = "error" THEN m ELSE Remember(m, q, d)
  /\ log' = Append(log, Entry(q, d, by))
  /\ batch' = Tail(batch)

Handling ==
  /\ batch # <<>>
  /\ UNCHANGED <<interactive, queue, running, turn, thread, root, context,
                 started, epoch, arrivals, interrupts>>

\* A request that is neither a command nor a file approval.
HandleOther ==
  LET q == Head(batch) IN
  /\ Handling /\ q.kind \in OtherKinds
  /\ log' = Append(log, Entry(q, "error", "policy")) /\ batch' = Tail(batch)
  /\ IF Over THEN memory' = [memory EXCEPT !.failed = TRUE] ELSE UNCHANGED memory
  /\ UNCHANGED grants

HandleOverCapacity ==
  LET q == Head(batch) IN
  /\ Handling /\ q.kind \notin OtherKinds /\ ~Answered(q) /\ Over
  /\ Answer([memory EXCEPT !.failed = TRUE], q, "error", "capacity")
  /\ UNCHANGED grants

HandleReplay ==
  LET q == Head(batch) IN
  /\ Handling /\ Answered(q)
  /\ \E a \in memory.answers : a.id = q.id /\ log' = Append(log, Entry(q, a.decision, "replay"))
  /\ batch' = Tail(batch)
  /\ UNCHANGED <<memory, grants>>

\* The requests the rest of the handler decides about.
Fresh(q) == q.kind \notin OtherKinds /\ ~Answered(q) /\ ~Over

HandleRemembered ==
  LET q == Head(batch) IN
  /\ Handling /\ Fresh(q) /\ Remembered(q)
  /\ Answer(memory, q, RememberedAnswer(q), "memory")
  /\ UNCHANGED grants

HandleGranted ==
  LET q == Head(batch) IN
  /\ Handling /\ Fresh(q) /\ Granted(q)
  /\ Answer(memory, q, GrantedAnswer(q), "grant")
  /\ UNCHANGED grants

HandleLimit ==
  LET q == Head(batch) IN
  /\ Handling /\ Fresh(q) /\ ~Remembered(q) /\ ~Granted(q) /\ ~OutsideBoundary(q)
  /\ AtLimit
  /\ Answer(memory, q, LimitAnswer(q), "limit")
  /\ UNCHANGED grants

Asking(q) ==
  /\ Fresh(q) /\ ~Remembered(q) /\ ~Granted(q)
  /\ OutsideBoundary(q) \/ ~AtLimit

\* _safe_approval_prompt without a user: the safe default, or an error.
HandleDefault ==
  LET q == Head(batch) IN
  /\ Handling /\ Asking(q)
  /\ ~interactive \/ Default(Offered(q)) = "error"
  /\ Answer(memory, q, Default(Offered(q)), "default")
  /\ UNCHANGED grants

\* The grants after the user has chosen d: recorded before the answer is sent.
GrantsAfter(q, d) ==
  IF q.kind \in FileKinds /\ d = "acceptForSession"
    THEN WithGrant(grants, [thread |-> thread, root |-> root]) ELSE grants

\* The user is asked and chooses; Ctrl+C or end of input is the default.
HandlePrompt(d) ==
  LET q == Head(batch) IN
  /\ Handling /\ Asking(q) /\ interactive
  /\ Default(Offered(q)) # "error" /\ d \in Offered(q)
  /\ Answer([memory EXCEPT !.prompts = @ + 1], q, d, "user")
  /\ grants' = GrantsAfter(q, d)

\* _handle_bounded_verification_offer asks the user too, out of the same count.
VerificationOffer ==
  /\ running /\ batch = <<>> /\ interactive /\ ~AtLimit
  /\ memory' = [memory EXCEPT !.prompts = @ + 1]
  /\ UNCHANGED <<interactive, queue, batch, running, turn, thread, root, context,
                 grants, started, epoch, log, arrivals, interrupts>>
------------------------------------------------------------------------------
(* The client, the turns and the session *)

Arrive(q) ==
  /\ arrivals < MaxArrivals /\ q.thread \in started
  /\ queue' = Append(queue, q) /\ arrivals' = arrivals + 1
  /\ UNCHANGED <<interactive, batch, running, turn, thread, root, context, memory,
                 grants, started, epoch, log, interrupts>>

\* drain_server_requests by _drain_turn_events.
Drain ==
  /\ running /\ batch = <<>> /\ queue # <<>>
  /\ batch' = queue /\ queue' = <<>>
  /\ UNCHANGED <<interactive, running, turn, thread, root, context, memory, grants,
                 started, epoch, log, arrivals, interrupts>>

\* Ctrl+C between two requests: wait_for_turn goes on, the batch is gone.
Interrupt ==
  /\ batch # <<>> /\ interrupts < MaxInterrupts
  /\ batch' = <<>> /\ interrupts' = interrupts + 1
  /\ UNCHANGED <<interactive, queue, running, turn, thread, root, context, memory,
                 grants, started, epoch, log, arrivals>>

\* reset_memory_session
Reset ==
  /\ grants' = <<>> /\ epoch' = epoch + 1 /\ context' = NoContext

\* Mutant: only a change of thread clears the grants.
ContextChanges_ThreadOnly(new) == context # NoContext /\ context[1] # new[1]

\* _activate_runtime_context finds another thread or workspace.
ContextChanges(new) == context # NoContext /\ context # new

\* execute_prompt: the context is activated and run_turn makes a new result.
StartTurn(t, r) ==
  /\ ~running /\ turn < MaxTurns
  /\ running' = TRUE /\ turn' = turn + 1 /\ started' = started \cup {t}
  /\ thread' = t /\ root' = r /\ context' = <<t, r>>
  /\ memory' = NoMemory
  /\ grants' = IF ContextChanges(<<t, r>>) THEN <<>> ELSE grants
  /\ epoch' = IF context \notin {NoContext, <<t, r>>} THEN epoch + 1 ELSE epoch
  /\ UNCHANGED <<interactive, queue, batch, log, arrivals, interrupts>>

TurnEnds ==
  /\ running /\ batch = <<>>
  /\ running' = FALSE
  /\ UNCHANGED <<interactive, queue, batch, turn, thread, root, context, memory,
                 grants, started, epoch, log, arrivals, interrupts>>

\* A timeout, a failed answer or a dead process: the CLI resets the session
\* (and, but for the timeout, closes the client, whose queues stay).
TurnFails ==
  /\ running
  /\ running' = FALSE /\ batch' = <<>>
  /\ Reset
  /\ UNCHANGED <<interactive, queue, turn, thread, root, memory, started, log,
                 arrivals, interrupts>>

\* /new
NewSession ==
  /\ ~running /\ context # NoContext
  /\ Reset
  /\ UNCHANGED <<interactive, queue, batch, running, turn, thread, root, memory,
                 started, log, arrivals, interrupts>>

Handle ==
  \/ HandleOther \/ HandleOverCapacity \/ HandleReplay \/ HandleRemembered
  \/ HandleGranted \/ HandleLimit \/ HandleDefault
  \/ \E d \in Decisions : HandlePrompt(d)

Next ==
  \/ Handle \/ VerificationOffer
  \/ \E q \in Requests : Arrive(q)
  \/ Drain \/ Interrupt
  \/ \E t \in Threads, r \in Roots : StartTurn(t, r)
  \/ TurnEnds \/ TurnFails \/ NewSession

Spec == Init /\ [][Next]_vars
------------------------------------------------------------------------------
(* Properties *)

Entries == [turn : 1 .. MaxTurns, request : Requests, thread : Threads,
            root : Roots, epoch : Nat, decision : Decisions \cup {"error"},
            by : {"policy", "capacity", "replay", "memory", "grant", "limit",
                  "default", "user"}]

TypeOK ==
  /\ interactive \in BOOLEAN /\ running \in BOOLEAN
  /\ queue \in Seq(Requests) /\ batch \in Seq(Requests)
  /\ turn \in 0 .. MaxTurns /\ thread \in Threads /\ root \in Roots
  /\ context = NoContext \/ context \in Threads \X Roots
  /\ memory.answers \subseteq [id : {q.id : q \in Requests}, decision : Decisions]
  /\ Cardinality(memory.answers) <= IdentityCap
  /\ memory.accepted \cup memory.declined \subseteq {Identity(q) : q \in Requests}
  /\ memory.prompts \in Nat /\ memory.failed \in BOOLEAN
  /\ started \subseteq Threads
  /\ grants \in Seq([thread : Threads, root : Roots]) /\ Len(grants) <= GrantCap
  /\ epoch \in Nat /\ log \in Seq(Entries)
  /\ arrivals \in 0 .. MaxArrivals /\ interrupts \in 0 .. MaxInterrupts

\* The user was asked with e, and chose a decision that covers f.
Covers(e, f) ==
  /\ e.by = "user" /\ e.decision \in Accepting
  /\ \/ /\ e.turn = f.turn /\ e.request.id = f.request.id
        /\ e.decision = f.decision
     \/ /\ e.decision = "acceptForSession" /\ e.turn = f.turn
        /\ {e.request.kind, f.request.kind} \subseteq CommandKinds
        /\ Identity(e.request) = Identity(f.request)
     \/ /\ e.decision = "acceptForSession" /\ e.epoch = f.epoch
        /\ {e.request.kind, f.request.kind} \subseteq FileKinds
        /\ e.thread = f.thread /\ e.root = f.root /\ f.root \in f.request.ordinary

\* docs/security-model.md:17: nothing is accepted that the user has not
\* accepted: this request itself, the same command for the rest of the turn, or
\* ordinary edits of this workspace for as long as the grant lasts.
AcceptIsUsers ==
  \A j \in 1 .. Len(log) :
    log[j].decision \in Accepting => \E i \in 1 .. j : Covers(log[i], log[j])

\* The registry holds no grant but that of the current thread and workspace
\* (so its limit of MAX_RUNTIME_GRANTS is never met).
GrantsAreCurrent ==
  \A i \in 1 .. Len(grants) : context = <<grants[i].thread, grants[i].root>>

\* CHANGELOG.md:157, tests/test_approval_state_machine.py:71: a decision holds
\* for the rest of the turn. A request delivered again is answered as it was
\* the first time, without asking; and a command the user declined stays
\* declined whatever ids and decisions later requests for it come with,
\* unless the request is one that had been accepted before.
DecisionsStick ==
  \A i, j \in 1 .. Len(log) :
    i < j /\ log[i].turn = log[j].turn =>
      /\ log[i].request.id = log[j].request.id /\ log[i].decision # "error" =>
           log[j].decision = log[i].decision /\ log[j].by # "user"
      /\ /\ log[i].by = "user" /\ log[i].decision \in Denying
         /\ {log[i].request.kind, log[j].request.kind} \subseteq CommandKinds
         /\ Identity(log[i].request) = Identity(log[j].request)
         => \/ log[j].decision \notin Accepting
            \/ \E k \in 1 .. i : /\ log[k].turn = log[j].turn
                                 /\ log[k].request.id = log[j].request.id

\* docs/security-model.md:29 "Interactive approval escalation attempts are
\* bounded per turn (maximum 6 prompts per turn)". Not so of the code.
PromptsBounded == memory.prompts <= MaxPrompts

\* README.md:335: a grant is good "only for the current runtime, App Server
\* thread and canonical workspace root": it answers no other thread's request.
\* Not so of the code, which looks at no thread but the runner's own.
GrantIsOfThread ==
  \A i \in 1 .. Len(log) :
    log[i].by = "grant" /\ log[i].decision \in Accepting =>
      log[i].request.thread = log[i].thread
==============================================================================
