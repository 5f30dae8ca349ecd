------------------------------- MODULE TurnLoop -------------------------------
(***************************************************************************)
(* runtime/cx2/turn_runner.py, wait_for_turn: the loop that follows one    *)
(* turn from the answer to `turn/start` to its end: the server's verdict,  *)
(* an idle or hard timeout, the death of the App Server, an overflow of    *)
(* the transport, or the user's Ctrl+C.                                    *)
(*                                                                         *)
(* The server, the pipe and the dispatcher thread run concurrently with    *)
(* the loop; they are what Transport models in detail, reduced to what the *)
(* loop can see. One action of the loop is one stretch between two points  *)
(* where it reads shared state, handles one message or lets time pass.     *)
(*                                                                         *)
(* Time is counted in ticks of the poll interval: it passes while the loop *)
(* sleeps, while it waits for `turn/interrupt`, while a prompt is open and *)
(* while a verification command runs on the host. What the content of a    *)
(* message does to the result is in FinalAnswer and Approvals; here a      *)
(* message is what it means to the loop.                                   *)
(***************************************************************************)
EXTENDS Integers, Sequences, FiniteSets

CONSTANTS
  Work,           \* command executions, numbers
  WorkCap,        \* MAX_TURN_COMMANDS
  Idle, Hard,     \* the resolved idle and hard timeouts, in ticks
  Grace,          \* timeout_reconciliation_grace
  Cancel,         \* the 15 seconds a turn has left after Ctrl+C
  RpcTime,        \* bound: what `turn/interrupt` may take
  HumanTime,      \* bound: how long a prompt may stay open
  MaxPrompts,     \* max_approval_prompts_per_turn
  HostTime,       \* bound: the longest run of a verification command on the host
  MaxLines,       \* bound: messages of the server in this turn
  MaxInterrupts,  \* bound: Ctrl+C pressed
  SurvivorPossible \* whether a descendant may keep the server's stdout open

ASSUME TurnLoopAssumption ==
  /\ Work \subseteq Nat /\ Idle \in Nat \ {0} /\ Hard \in Nat /\ Hard >= Idle
  /\ WorkCap \in Nat \ {0} /\ Grace \in Nat /\ Cancel \in Nat
  /\ RpcTime \in Nat /\ HumanTime \in Nat
  /\ MaxPrompts \in Nat \ {0} /\ HostTime \in Nat
  /\ MaxLines \in Nat /\ MaxInterrupts \in Nat
  /\ SurvivorPossible \in BOOLEAN

VARIABLES
  \* the App Server, its stdout and the dispatcher thread
  alive, writerOpen, pipe, reading,
  begun,            \* commands the server has started and not completed
  serverDone,       \* turn/completed is written
  lines,            \* messages written
  \* the client's queues and transport_failure
  notes, asks, overflowed,
  \* wait_for_turn
  pc,
  from,             \* where the current drain was called from
  batch,            \* drained and not yet handled
  activity,         \* activity_categories is not empty
  active_work_items, interrupted_once, interrupt_requested, status,
  timeout_kind,
  dispatcher_alive_after_join,
  prompts,          \* interactive_approval_prompt_count, up to MaxPrompts
  how,              \* the way the wait ended
  \* clocks
  active,           \* active_elapsed
  idle,             \* idle_elapsed, up to Idle
  graceLeft,
  cancelLeft,       \* to user_interrupt_deadline, -1 without one
  \* history, for the properties and the bounds
  quiet,            \* as idle, without the time of prompts
  running,          \* commands started and not completed, as far as queued
  finalQueued,      \* turn/completed has reached the client's queue
  boundary,         \* both, when the drain before a timeout was done
  stranger,         \* the user was asked for an earlier turn's request
  lost,             \* a Ctrl+C has thrown drained messages away
  sent,             \* turn/interrupt requests
  presses           \* Ctrl+C pressed

server == <<alive, writerOpen, pipe, reading, begun, serverDone, lines>>
queues == <<notes, asks, overflowed>>
memo   == <<active_work_items, interrupted_once, interrupt_requested,
            dispatcher_alive_after_join, prompts>>
loop   == <<pc, from, batch, activity, memo, status, timeout_kind, how>>
clocks == <<active, idle, graceLeft, cancelLeft, quiet>>
hist   == <<running, finalQueued, boundary, lost, stranger, sent, presses>>
vars   == <<server, queues, loop, clocks, hist>>

NoBoundary == [final |-> FALSE, running |-> {}]

Init ==
  /\ alive = TRUE /\ writerOpen = TRUE /\ pipe = <<>> /\ reading = TRUE
  /\ begun = {} /\ serverDone = FALSE /\ lines = 0
  /\ notes = <<>> /\ asks = <<>> /\ overflowed = FALSE
  /\ pc = "drain" /\ from = "top" /\ batch = <<>> /\ activity = FALSE
  /\ active_work_items = {} /\ interrupted_once = FALSE
  /\ interrupt_requested = FALSE /\ status = "inProgress"
  /\ timeout_kind = "none" /\ how = "waiting"
  /\ dispatcher_alive_after_join = FALSE /\ prompts = 0
  /\ active = 0 /\ idle = 0 /\ graceLeft = 0 /\ cancelLeft = -1 /\ quiet = 0
  /\ running = {} /\ finalQueued = FALSE /\ boundary = NoBoundary
  /\ lost = FALSE /\ stranger = FALSE /\ sent = 0 /\ presses = 0

Waiting == how = "waiting"
------------------------------------------------------------------------------
(* The App Server, external: a command starts once and completes once, and  *)
(* turn/completed comes last; "note" is any other meaningful event of the   *)
(* turn, "noise" one that is not, "ask" an approval request.                *)

Write(line) ==
  /\ Waiting /\ alive /\ writerOpen /\ ~serverDone /\ lines < MaxLines
  /\ pipe' = Append(pipe, line) /\ lines' = lines + 1
  /\ serverDone' = (line.t = "completed")
  /\ UNCHANGED <<alive, writerOpen, reading, queues, loop, clocks, hist>>

\* Commands are interchangeable: the next to start is the least not running.
StartsCommand(w) ==
  /\ w \notin begun /\ \A v \in Work \ begun : w <= v
  /\ Write([t |-> "start", w |-> w]) /\ begun' = begun \cup {w}
EndsCommand(w) ==
  w \in begun /\ Write([t |-> "stop", w |-> w]) /\ begun' = begun \ {w}
Says(t) == Write([t |-> t]) /\ UNCHANGED begun
Asks(own) == Write([t |-> "ask", own |-> own]) /\ UNCHANGED begun

ServerWrites ==
  \/ \E w \in Work : StartsCommand(w) \/ EndsCommand(w)
  \/ Says("note") \/ Says("noise") \/ Says("completed")
  \/ \E own \in BOOLEAN : Asks(own)

\* The process exits or, alive, closes its stdout; a descendant may keep it.
ServerExits ==
  /\ Waiting /\ alive
  /\ \/ alive' = FALSE /\ writerOpen' = FALSE
     \/ alive' = FALSE /\ SurvivorPossible /\ UNCHANGED writerOpen
     \/ writerOpen /\ writerOpen' = FALSE /\ UNCHANGED alive
  /\ UNCHANGED <<pipe, reading, begun, serverDone, lines, queues, loop,
                 clocks, hist>>

\* The dispatcher thread puts a line into its queue, or finds the queue full
\* and records the failure.
Route ==
  /\ Waiting /\ reading /\ pipe # <<>>
  /\ pipe' = Tail(pipe)
  /\ LET line == Head(pipe) IN
     /\ IF line.t = "ask"
          THEN asks' = Append(asks, line) /\ UNCHANGED notes
          ELSE notes' = Append(notes, line) /\ UNCHANGED asks
     /\ running' = CASE line.t = "start" -> running \cup {line.w}
                     [] line.t = "stop"  -> running \ {line.w}
                     [] OTHER            -> running
     /\ finalQueued' = (finalQueued \/ line.t = "completed")
  /\ UNCHANGED <<alive, writerOpen, reading, begun, serverDone, lines,
                 overflowed, loop, clocks, boundary, lost, stranger, sent,
                 presses>>

RouteOverflow ==
  /\ Waiting /\ reading /\ pipe # <<>> /\ ~overflowed
  /\ pipe' = Tail(pipe) /\ overflowed' = TRUE
  /\ UNCHANGED <<alive, writerOpen, reading, begun, serverDone, lines, notes,
                 asks, loop, clocks, hist>>

DispatcherEnds ==
  /\ Waiting /\ reading /\ pipe = <<>> /\ ~writerOpen
  /\ reading' = FALSE
  /\ UNCHANGED <<alive, writerOpen, pipe, begun, serverDone, lines, queues,
                 loop, clocks, hist>>
------------------------------------------------------------------------------
(* Pieces of the loop *)

GoTo(to) == pc' = to

\* The clocks after d ticks of running, and after d ticks at a prompt, whose
\* time human_approval_wait_seconds takes out of active_elapsed alone.
UpTo(x, cap) == IF x > cap THEN cap ELSE x
DownBy(x, d) == IF x < 0 THEN x ELSE IF x > d THEN x - d ELSE 0

\* Bound: active_elapsed is told apart up to one past HardBound.
ActiveCap == Hard + RpcTime + 2 * Grace + HostTime * MaxPrompts + 1

CancelPasses(d) == cancelLeft' = DownBy(cancelLeft, d)
Run(d) ==
  /\ active' = UpTo(active + d, ActiveCap)
  /\ idle' = UpTo(idle + d, Idle) /\ quiet' = UpTo(quiet + d, Idle)
  /\ CancelPasses(d)
Prompt(d) ==
  /\ idle' = UpTo(idle + d, Idle) /\ CancelPasses(d)
  /\ graceLeft' = DownBy(graceLeft, d)
  /\ UNCHANGED <<active, quiet>>

Final == status # "inProgress"

\* Out of the loop; run_turn gives a turn without a final status one.
End(way, verdict) ==
  /\ how' = way /\ GoTo("done")
  /\ status' = IF Final THEN status ELSE verdict
------------------------------------------------------------------------------
(* _drain_turn_events *)

\* The transport's failure first, then the server's requests. _fail_capacity
\* overwrites the status.
DrainRequests ==
  /\ pc = "drain"
  /\ activity' = FALSE
  /\ \/ /\ overflowed
        /\ status' = "failed" /\ how' = "overflow" /\ GoTo("done")
        /\ UNCHANGED <<batch, asks>>
     \/ /\ ~overflowed
        /\ batch' = asks /\ asks' = <<>> /\ GoTo("requests")
        /\ UNCHANGED <<status, how>>
  /\ UNCHANGED <<server, memo, notes, overflowed, from, timeout_kind, clocks,
                 hist>>

\* Mutant: no request counts as activity.
RequestActivity_None(r) == FALSE

\* _server_request_activity: a request of this turn.
RequestActivity(r) == r.own

\* _handle_server_request asks the user, whatever turn the request is of and
\* for d ticks, or answers without a prompt; then it sends the answer. A full
\* table of identities fails the turn. With the server's stdin broken the answer
\* raises: the drain ends there, and so does the wait.
HandleRequest ==
  /\ pc = "requests" /\ batch # <<>>
  /\ batch' = Tail(batch)
  /\ activity' = (activity \/ RequestActivity(Head(batch)))
  /\ \E d \in {0, HumanTime} :
       /\ \/ d = 0 /\ prompts' = prompts
          \/ prompts' = UpTo(prompts + 1, MaxPrompts)
       /\ Prompt(d)
       /\ stranger' = (stranger \/ (d > 0 /\ ~Head(batch).own))
  /\ status' \in {status, "failed"}
  /\ \/ UNCHANGED <<pc, how>>
     \/ GoTo("done") /\ how' = "unanswered" /\ status' # "inProgress"
  /\ UNCHANGED <<server, active_work_items, interrupted_once,
                 interrupt_requested, dispatcher_alive_after_join, queues,
                 from, timeout_kind, running, finalQueued, boundary, lost, sent,
                 presses>>

DrainNotes ==
  /\ pc = "requests" /\ batch = <<>>
  /\ batch' = notes /\ notes' = <<>> /\ GoTo("notes")
  /\ boundary' = IF from = "boundary"
                   THEN [final |-> finalQueued, running |-> running]
                   ELSE boundary
  /\ UNCHANGED <<server, memo, asks, overflowed, from, activity, status,
                 timeout_kind, how, clocks, running, finalQueued, lost,
                 stranger, sent, presses>>

\* _notification_activity: a start past the capacity is no activity.
TooMuch(e) == /\ e.t = "start" /\ e.w \notin active_work_items
              /\ Cardinality(active_work_items) >= WorkCap
\* Mutant: a completed command stays active.
WorkAfter_Kept(e) ==
  IF e.t = "start" /\ ~TooMuch(e) THEN active_work_items \cup {e.w}
                                  ELSE active_work_items

Meaningful(e) == e.t \in {"note", "stop"} \/ (e.t = "start" /\ ~TooMuch(e))
WorkAfter(e) ==
  IF e.t = "start" /\ ~TooMuch(e) THEN active_work_items \cup {e.w}
  ELSE IF e.t = "stop" THEN active_work_items \ {e.w} ELSE active_work_items

\* _handle_bounded_verification_offer: a prompt of h ticks and, accepted, a run
\* of d ticks on the host, which counts as the turn's.
OfferHostRun(h, d) ==
  /\ prompts < MaxPrompts /\ prompts' = prompts + 1
  /\ active' = UpTo(active + d, ActiveCap)
  /\ idle' = UpTo(idle + h + d, Idle) /\ quiet' = UpTo(quiet + d, Idle)
  /\ CancelPasses(h + d) /\ graceLeft' = DownBy(graceLeft, h + d)

\* _notification_activity and what _handle_notification does to the status; a
\* completed command may be offered to the user as a host run.
HandleNote ==
  /\ pc = "notes" /\ batch # <<>>
  /\ LET e == Head(batch) IN
     /\ batch' = Tail(batch)
     /\ activity' = (activity \/ Meaningful(e))
     /\ active_work_items' = WorkAfter(e)
     /\ status' = IF e.t = "completed" THEN "completed"
                    ELSE IF TooMuch(e) THEN "failed" ELSE status
     /\ \/ UNCHANGED <<clocks, prompts>>
        \/ /\ e.t = "stop"
           /\ \E h \in {0, HumanTime}, d \in 0 .. HostTime : OfferHostRun(h, d)
  /\ UNCHANGED <<server, dispatcher_alive_after_join, queues, pc, from,
                 interrupted_once, interrupt_requested, timeout_kind, how,
                 hist>>
------------------------------------------------------------------------------
(* wait_for_turn, after a drain *)

Drained(f) == pc = "notes" /\ batch = <<>> /\ from = f

\* last_meaningful_activity := now.
Heard == idle' = 0 /\ quiet' = 0 /\ UNCHANGED <<active, graceLeft, cancelLeft>>

AfterTop ==
  /\ Drained("top")
  /\ IF activity THEN Heard ELSE UNCHANGED clocks
  /\ \/ Final /\ End("returned", "none")
     \/ ~Final /\ GoTo("liveness") /\ UNCHANGED <<status, how>>
  /\ activity' = FALSE
  /\ UNCHANGED <<server, memo, queues, from, batch, timeout_kind, hist>>

\* _reconcile_transport_liveness: the poll and the dispatcher.
Stopped == ~alive \/ ~reading

\* Where a drain goes on that a stopped transport has interrupted.
AfterLiveness ==
  /\ pc = "liveness"
  /\ \/ Stopped /\ GoTo("join")
     \/ ~Stopped /\ GoTo(IF from = "top" THEN "decide" ELSE "grace")
  /\ UNCHANGED <<server, memo, queues, from, batch, activity, status,
                 timeout_kind, how, clocks, hist>>

\* Mutant: the queues are not looked at again.
JoinAndDrain_NoDrain ==
  /\ pc = "join"
  /\ from' = IF from = "top" THEN "topDead" ELSE "graceDead"
  /\ GoTo("notes") /\ activity' = FALSE
  /\ dispatcher_alive_after_join' = reading
  /\ UNCHANGED <<server, queues, batch, active_work_items, interrupted_once,
                 interrupt_requested, prompts, status, timeout_kind, how,
                 clocks, hist>>

\* Mutant: the join has no timeout.
JoinAndDrain_Unbounded ==
  /\ pc = "join" /\ ~reading
  /\ from' = IF from = "top" THEN "topDead" ELSE "graceDead"
  /\ GoTo("drain") /\ dispatcher_alive_after_join' = FALSE
  /\ UNCHANGED <<server, queues, batch, activity, active_work_items,
                 interrupted_once, interrupt_requested, prompts, status,
                 timeout_kind, how, clocks, hist>>

\* join(timeout=1.0): the dispatcher is dead, or the second is over.
JoinAndDrain ==
  /\ pc = "join"
  /\ from' = IF from = "top" THEN "topDead" ELSE "graceDead"
  /\ GoTo("drain")
  /\ dispatcher_alive_after_join' = reading
  /\ UNCHANGED <<server, queues, batch, activity, active_work_items,
                 interrupted_once, interrupt_requested, prompts, status,
                 timeout_kind, how, clocks, hist>>

AfterDead ==
  /\ Drained("topDead") \/ Drained("graceDead")
  /\ \/ Final /\ from = "topDead" /\ End("returned", "none")
     \/ Final /\ from = "graceDead" /\ GoTo("raise") /\ UNCHANGED <<status, how>>
     \/ ~Final /\ End("died", "failed")
  /\ UNCHANGED <<server, memo, queues, from, batch, activity, timeout_kind,
                 clocks, hist>>

\* Mutant: no timeout at all while a command is active.
TimeoutDue_WorkHoldsAll(kind) ==
  /\ active_work_items = {}
  /\ \/ kind = "hard" /\ active >= Hard
     \/ kind = "idle" /\ active < Hard /\ idle >= Idle

TimeoutDue(kind) ==
  \/ kind = "hard" /\ active >= Hard
  \/ /\ kind = "idle" /\ active < Hard
     /\ active_work_items = {} /\ idle >= Idle

NoTimeoutDue == \A kind \in {"idle", "hard"} : ~TimeoutDue(kind)

Decide ==
  /\ pc = "decide"
  /\ \/ \E kind \in {"idle", "hard"} :
          /\ TimeoutDue(kind)
          /\ timeout_kind' = kind /\ from' = "boundary" /\ GoTo("drain")
          /\ UNCHANGED <<status, how>>
     \/ /\ NoTimeoutDue /\ cancelLeft = 0
        /\ End("keyboard", "interrupted") /\ UNCHANGED <<timeout_kind, from>>
     \/ /\ NoTimeoutDue /\ cancelLeft # 0
        /\ GoTo("sleep") /\ UNCHANGED <<timeout_kind, from, status, how>>
  /\ UNCHANGED <<server, memo, queues, batch, activity, clocks, hist>>

Sleep ==
  /\ pc = "sleep"
  /\ Run(1) /\ UNCHANGED graceLeft
  /\ GoTo("drain") /\ from' = "top"
  /\ UNCHANGED <<server, memo, queues, batch, activity, status, timeout_kind,
                 how, hist>>

\* Mutant: the boundary drain saves no turn.
AfterBoundary_NoReprieve ==
  /\ Drained("boundary")
  /\ UNCHANGED clocks
  /\ \/ Final /\ End("returned", "none")
     \/ ~Final /\ GoTo("interrupt") /\ UNCHANGED <<status, how>>
  /\ UNCHANGED <<server, memo, queues, from, batch, activity, timeout_kind,
                 hist>>

\* The drain before a timeout: a completion wins, activity saves an idle turn.
AfterBoundary ==
  /\ Drained("boundary")
  /\ \/ /\ Final /\ End("returned", "none")
        /\ UNCHANGED <<clocks, from, timeout_kind, boundary>>
     \/ /\ ~Final /\ activity /\ timeout_kind = "idle"
        /\ Heard /\ GoTo("drain") /\ from' = "top"
        /\ timeout_kind' = "none" /\ boundary' = NoBoundary
        /\ UNCHANGED <<status, how>>
     \/ /\ ~Final /\ ~(activity /\ timeout_kind = "idle")
        /\ GoTo("interrupt")
        /\ UNCHANGED <<clocks, from, timeout_kind, boundary, status, how>>
  /\ UNCHANGED <<server, memo, queues, batch, activity, running, finalQueued,
                 lost, stranger, sent, presses>>
------------------------------------------------------------------------------
(* The interrupt and the grace of a timeout *)

\* _request_interrupt_once, which takes d and whose errors are swallowed.
AskServerToStop(d) ==
  \/ /\ interrupt_requested /\ d = 0
     /\ UNCHANGED <<interrupt_requested, sent>>
  \/ /\ ~interrupt_requested /\ d \in {0, RpcTime}
     /\ interrupt_requested' = TRUE /\ sent' = sent + 1

TimeoutInterrupts ==
  /\ pc = "interrupt"
  /\ \E d \in {0, RpcTime} : AskServerToStop(d) /\ Run(d)
  /\ graceLeft' = Grace /\ GoTo("grace")
  /\ UNCHANGED <<server, queues, from, batch, activity, active_work_items,
                 interrupted_once, dispatcher_alive_after_join, prompts, status,
                 timeout_kind, how, running, finalQueued, boundary, lost,
                 stranger, presses>>

GraceSleep ==
  /\ pc = "grace" /\ graceLeft > 0
  /\ Run(1) /\ graceLeft' = graceLeft - 1
  /\ GoTo("drain") /\ from' = "grace"
  /\ UNCHANGED <<server, memo, queues, batch, activity, status, timeout_kind,
                 how, hist>>

AfterGrace ==
  /\ Drained("grace")
  /\ GoTo("liveness")
  /\ UNCHANGED <<server, memo, queues, from, batch, activity, status,
                 timeout_kind, how, clocks, hist>>

RaiseTimeout ==
  /\ pc = "raise" \/ (pc = "grace" /\ graceLeft = 0)
  /\ End(timeout_kind, "failed")
  /\ UNCHANGED <<server, memo, queues, from, batch, activity, timeout_kind,
                 clocks, hist>>
------------------------------------------------------------------------------
(* Ctrl+C, at any point of the loop. What was drained and not yet handled is *)
(* gone with the frame that held it.                                         *)

CtrlC ==
  /\ Waiting /\ presses < MaxInterrupts
  /\ presses' = presses + 1
  /\ \/ /\ interrupted_once
        /\ End("keyboard", "interrupted")
        /\ UNCHANGED <<interrupted_once, batch, activity, lost>>
     \/ /\ ~interrupted_once
        /\ interrupted_once' = TRUE /\ GoTo("cancel")
        /\ lost' = (lost \/ batch # <<>>) /\ batch' = <<>>
        /\ activity' = FALSE
        /\ UNCHANGED <<status, how>>
  /\ UNCHANGED <<server, dispatcher_alive_after_join, prompts, queues, from,
                 active_work_items, interrupt_requested, timeout_kind,
                 clocks, running, finalQueued, boundary, stranger, sent>>

\* The handler of the first Ctrl+C: turn/interrupt, and a deadline.
FirstInterrupt ==
  /\ pc = "cancel"
  /\ \E d \in {0, RpcTime} :
       AskServerToStop(d) /\ active' = UpTo(active + d, ActiveCap)
  /\ idle' = 0 /\ quiet' = 0 /\ cancelLeft' = Cancel
  /\ GoTo("drain") /\ from' = "top"
  /\ UNCHANGED <<server, dispatcher_alive_after_join, prompts, queues, batch,
                 activity, active_work_items, interrupted_once, status,
                 timeout_kind, how, graceLeft, running, finalQueued,
                 boundary, lost, stranger, presses>>
------------------------------------------------------------------------------
Dispatcher == Route \/ DispatcherEnds
Loop == \/ DrainRequests \/ HandleRequest \/ DrainNotes \/ HandleNote
        \/ AfterTop \/ AfterLiveness \/ JoinAndDrain \/ AfterDead
        \/ Decide \/ Sleep \/ AfterBoundary \/ TimeoutInterrupts
        \/ GraceSleep \/ AfterGrace \/ RaiseTimeout \/ FirstInterrupt

Next == ServerWrites \/ ServerExits \/ RouteOverflow \/ Dispatcher \/ CtrlC \/ Loop

Spec == Init /\ [][Next]_vars

\* The loop's own thread runs, time passes with it and the user answers.
FairSpec == Spec /\ WF_vars(Loop)
------------------------------------------------------------------------------
(* Properties *)

TypeOK ==
  /\ alive \in BOOLEAN /\ writerOpen \in BOOLEAN /\ reading \in BOOLEAN
  /\ begun \subseteq Work /\ serverDone \in BOOLEAN /\ lines \in 0 .. MaxLines
  /\ Len(pipe) + Len(notes) + Len(asks) + Len(batch) <= MaxLines
  /\ overflowed \in BOOLEAN
  /\ pc \in {"drain", "requests", "notes", "liveness", "join", "decide",
              "sleep", "interrupt", "grace", "raise", "cancel", "done"}
  /\ from \in {"top", "boundary", "grace", "topDead", "graceDead"}
  /\ activity \in BOOLEAN
  /\ active_work_items \subseteq Work
  /\ Cardinality(active_work_items) <= WorkCap
  /\ interrupted_once \in BOOLEAN /\ interrupt_requested \in BOOLEAN
  /\ status \in {"inProgress", "completed", "failed", "interrupted"}
  /\ timeout_kind \in {"none", "idle", "hard"}
  /\ dispatcher_alive_after_join \in BOOLEAN /\ prompts \in 0 .. MaxPrompts
  /\ how \in {"waiting", "returned", "idle", "hard", "died", "overflow",
               "keyboard", "unanswered"}
  /\ idle \in 0 .. Idle /\ quiet \in 0 .. idle
  /\ graceLeft \in 0 .. Grace /\ cancelLeft \in -1 .. Cancel
  /\ running \subseteq Work /\ finalQueued \in BOOLEAN /\ lost \in BOOLEAN
  /\ stranger \in BOOLEAN
  /\ presses \in 0 .. MaxInterrupts

\* CHANGELOG.md:55 "a final completion-winning drain" and
\* tests/test_app_server_liveness.py:168: a turn whose turn/completed was in
\* the queue when the drain before the timeout took it is never reported as
\* timed out, nor as died when the dispatcher has delivered it, whatever the
\* order of the exit, the delivery and the poll - unless a Ctrl+C threw it
\* away. A drain that breaks off at an answer it cannot send is none of these
\* (`unanswered`): it may leave a turn/completed in the queue, and the turn
\* failed.
CompletionWins ==
  ~lost => /\ how \in {"idle", "hard"} => ~boundary.final
           /\ how = "died" /\ ~dispatcher_alive_after_join => ~finalQueued

\* docs/configuration.md:61 "A currently active command suppresses idle
\* timeout", also one whose start arrives between the decision and the
\* interrupt.
WorkingIsNotIdle ==
  how = "idle" /\ ~lost => boundary.running = {}

\* docs/configuration.md:63 "No configuration produces an unlimited turn":
\* events, commands and a Ctrl+C put off the end of the wait by no more than
\* one interrupt request, two graces and the host runs the user may be asked
\* for in one turn.
HardBound == active <= Hard + RpcTime + 2 * Grace + HostTime * MaxPrompts

\* Once nothing meaningful has been heard for the idle timeout, only a command
\* that really runs keeps the loop going: neither noise nor a command long
\* completed does.
OnlyWorkOutlastsIdle ==
  pc = "sleep" /\ quiet >= Idle /\ ~lost => running # {} \/ notes # <<>>

\* docs/known-limitations.md:20 "Blocking human interaction time at approval
\* prompts is compensated and excluded from turn execution timeouts." Not so of
\* the prompt of a late request of an earlier turn.
HumanTimeIsFree == how = "idle" /\ ~stranger => quiet >= Idle

\* Every wait ends.
TurnEnds == <>(how # "waiting")
==============================================================================
