--------------------------- MODULE TurnLoop_proofs ---------------------------
(***************************************************************************)
(* Proofs about TurnLoop: the bound of the hard timeout, that what had     *)
(* arrived before a verdict is not ignored by it, and what the idle        *)
(* timeout counts as idle - for any number of commands, messages and       *)
(* interrupts and any lengths of the timeouts.                             *)
(***************************************************************************)
EXTENDS TurnLoop, FiniteSetTheorems, TLAPS

AskLines == [t : {"ask"}, own : BOOLEAN]
Lines == [t : {"start", "stop"}, w : Work] \cup [t : {"note", "noise", "completed"}]
           \cup AskLines

(* The queues hold the server's lines, and no more of them than it wrote; a
   batch is there only while it is being handled. *)
QueuesOK ==
  /\ pipe \in Seq(Lines) /\ notes \in Seq(Lines) /\ batch \in Seq(Lines)
  /\ asks \in Seq(AskLines)
  /\ pc = "requests" => batch \in Seq(AskLines)
  /\ pc \notin {"requests", "notes", "done"} => batch = <<>>
  /\ Len(pipe) + Len(notes) + Len(asks) + Len(batch) <= lines

(* Which drain a place in the loop belongs to. *)
Flow ==
  /\ how = "waiting" <=> pc # "done"
  /\ pc \in {"decide", "sleep"} => from = "top"
  /\ pc \in {"liveness", "join"} => from \in {"top", "grace"}
  /\ pc = "interrupt" => from = "boundary"
  /\ pc = "grace" => from \in {"boundary", "grace"}
  /\ pc = "raise" => from = "graceDead"
  /\ from \in {"boundary", "grace", "graceDead"} => timeout_kind # "none"

TypeInv ==
  /\ TypeOK /\ QueuesOK /\ Flow
  /\ IsFiniteSet(active_work_items) /\ active \in Nat
  /\ boundary \in [final : BOOLEAN, running : SUBSET Work]
------------------------------------------------------------------------------
(* What a line does to the commands that run, and to those taken to run. *)
LEMMA RouteRuns ==
  ASSUME Route
  PROVE  /\ Head(pipe).t = "start" => running' = running \cup {Head(pipe).w}
         /\ Head(pipe).t = "stop" => running' = running \ {Head(pipe).w}
         /\ Head(pipe).t \notin {"start", "stop"} => running' = running
<1>1. CASE Head(pipe).t = "start"
  BY <1>1 DEF Route
<1>2. CASE Head(pipe).t = "stop"
  BY <1>2 DEF Route
<1>3. CASE Head(pipe).t \notin {"start", "stop"}
  BY <1>3 DEF Route
<1> QED BY <1>1, <1>2, <1>3

LEMMA WorkAfterNote ==
  ASSUME NEW e
  PROVE  /\ e.t = "start" /\ ~TooMuch(e) => WorkAfter(e) = active_work_items \cup {e.w}
         /\ e.t = "stop" => WorkAfter(e) = active_work_items \ {e.w}
         /\ e.t \notin {"start", "stop"} \/ TooMuch(e) => WorkAfter(e) = active_work_items
BY DEF WorkAfter, TooMuch

LEMMA LineFields ==
  ASSUME NEW e \in Lines
  PROVE  /\ e.t \in {"start", "stop", "note", "noise", "completed", "ask"}
         /\ e.t \in {"start", "stop"} => e.w \in Work
         /\ e.t = "ask" <=> e \in AskLines
BY DEF Lines, AskLines

(* The App Server and the dispatcher thread keep the types. *)
LEMMA ServerTypes ==
  ASSUME TypeInv, ServerWrites \/ ServerExits \/ RouteOverflow \/ Dispatcher
  PROVE  TypeInv'
<1> USE TurnLoopAssumption DEF TypeInv, TypeOK, QueuesOK
<1>1. ASSUME NEW line \in Lines, Write(line), begun' \subseteq Work
      PROVE  TypeInv'
  <2>1. /\ UNCHANGED <<alive, writerOpen, reading, queues, loop, clocks, hist>>
        /\ pipe' = Append(pipe, line) /\ lines' = lines + 1 /\ lines < MaxLines
        /\ serverDone' \in BOOLEAN
    BY <1>1 DEF Write
  <2>2. pipe' \in Seq(Lines) /\ Len(pipe') = Len(pipe) + 1
    BY <2>1
  <2>3. Flow'
    BY <2>1 DEF Flow, loop
  <2> QED BY <1>1, <2>1, <2>2, <2>3 DEF queues, loop, memo, clocks, hist
<1>2. ASSUME ServerWrites
      PROVE  TypeInv'
  <2>1. ASSUME NEW w \in Work, StartsCommand(w) \/ EndsCommand(w)
        PROVE  TypeInv'
    <3>1. [t |-> "start", w |-> w] \in Lines /\ [t |-> "stop", w |-> w] \in Lines
      BY DEF Lines
    <3> QED BY <1>1, <2>1, <3>1 DEF StartsCommand, EndsCommand
  <2>2. ASSUME NEW t \in {"note", "noise", "completed"}, Says(t)
        PROVE  TypeInv'
    <3>1. [t |-> t] \in Lines
      BY DEF Lines
    <3> QED BY <1>1, <2>2, <3>1 DEF Says
  <2>3. ASSUME NEW own \in BOOLEAN, Asks(own)
        PROVE  TypeInv'
    <3>1. [t |-> "ask", own |-> own] \in Lines
      BY DEF Lines, AskLines
    <3> QED BY <1>1, <2>3, <3>1 DEF Asks
  <2> QED BY <1>2, <2>1, <2>2, <2>3 DEF ServerWrites
<1>3. CASE ServerExits \/ DispatcherEnds
  <2>1. /\ UNCHANGED <<pipe, begun, serverDone, lines, queues, loop, clocks, hist>>
        /\ alive' \in BOOLEAN /\ writerOpen' \in BOOLEAN /\ reading' \in BOOLEAN
    BY <1>3 DEF ServerExits, DispatcherEnds
  <2>2. Flow'
    BY <2>1 DEF Flow, loop
  <2> QED BY <2>1, <2>2 DEF queues, loop, memo, clocks, hist
<1>4. CASE RouteOverflow
  <2>1. /\ UNCHANGED <<alive, writerOpen, reading, begun, serverDone, lines, notes,
                       asks, loop, clocks, hist>>
        /\ pipe' = Tail(pipe) /\ pipe # <<>> /\ overflowed' = TRUE
    BY <1>4 DEF RouteOverflow
  <2>2. pipe' \in Seq(Lines) /\ Len(pipe') <= Len(pipe)
    BY <2>1
  <2>3. Flow'
    BY <2>1 DEF Flow, loop
  <2> QED BY <2>1, <2>2, <2>3 DEF loop, memo, clocks, hist
<1>5. CASE Route
  <2>1. /\ UNCHANGED <<alive, writerOpen, reading, begun, serverDone, lines,
                       overflowed, loop, clocks, boundary, lost, stranger, presses>>
        /\ pipe' = Tail(pipe) /\ pipe # <<>>
    BY <1>5 DEF Route
  <2>2. pipe' \in Seq(Lines) /\ Len(pipe') = Len(pipe) - 1 /\ Head(pipe) \in Lines
    BY <2>1
  <2>3. \/ /\ asks' = Append(asks, Head(pipe)) /\ Head(pipe) \in AskLines
           /\ notes' = notes
        \/ notes' = Append(notes, Head(pipe)) /\ asks' = asks
    BY <1>5, <2>2, LineFields DEF Route
  <2>4. /\ notes' \in Seq(Lines) /\ asks' \in Seq(AskLines)
        /\ Len(notes') + Len(asks') = Len(notes) + Len(asks) + 1
    <3> DEFINE line == Head(pipe)
    <3> HIDE DEF line
    <3>1. CASE asks' = Append(asks, line) /\ line \in AskLines /\ notes' = notes
      BY <3>1
    <3>2. CASE notes' = Append(notes, line) /\ line \in Lines /\ asks' = asks
      BY <3>2
    <3> QED BY <2>2, <2>3, <3>1, <3>2 DEF line
  <2>5. finalQueued' \in BOOLEAN
    BY <1>5 DEF Route
  <2>7. running' \subseteq Work
    <3>1. Head(pipe).t \in {"start", "stop"} => Head(pipe).w \in Work
      BY <2>2, LineFields
    <3>2. \/ running' = running \/ running' = running \ {Head(pipe).w}
          \/ Head(pipe).t = "start" /\ running' = running \cup {Head(pipe).w}
      BY <1>5, RouteRuns
    <3> QED BY <3>1, <3>2
  <2>6. Flow'
    BY <2>1 DEF Flow, loop
  <2> QED BY <2>1, <2>2, <2>4, <2>5, <2>6, <2>7 DEF loop, memo, clocks
<1> QED BY <1>2, <1>3, <1>4, <1>5 DEF Dispatcher

(* What the prompts of the turn may cost in host runs, in all and from now on. *)
HostBudget == HostTime * MaxPrompts
HostDue == HostTime * (MaxPrompts - prompts)

LEMMA CapType == ActiveCap \in Nat /\ HostBudget \in Nat
<1>1. \A m, n \in Nat : m * n \in Nat
  OBVIOUS
<1>2. HostTime * MaxPrompts \in Nat
  BY <1>1, TurnLoopAssumption
<1> QED BY <1>2, TurnLoopAssumption DEF ActiveCap, HostBudget

LEMMA HostDueFacts ==
  ASSUME prompts \in 0 .. MaxPrompts
  PROVE  /\ HostDue \in 0 .. HostBudget
         /\ prompts' \in prompts .. MaxPrompts => HostDue' \in 0 .. HostDue
         /\ prompts' = prompts + 1 /\ prompts < MaxPrompts
              => HostDue' \in Nat /\ HostDue = HostDue' + HostTime
<1>1. \A m, n \in Nat : m * n \in Nat
  OBVIOUS
<1>2. \A h, x, y \in Nat : x <= y => h * x <= h * y
  <2> SUFFICES ASSUME NEW h \in Nat, NEW x \in Nat, NEW y \in Nat, x <= y
               PROVE  h * x <= h * y
    OBVIOUS
  <2>1. /\ h * (y - x) \in Nat /\ h * y = h * x + h * (y - x)
        /\ h * x \in Nat /\ h * y \in Nat
    BY <1>1
  <2> QED BY <2>1
<1>3. \A h \in Nat : \A x \in Int : h * x = h * (x - 1) + h
  OBVIOUS
<1>4. HostTime \in Nat /\ MaxPrompts \in Nat
  BY TurnLoopAssumption
<1>5. HostDue \in 0 .. HostBudget
  BY <1>1, <1>2, <1>4 DEF HostDue, HostBudget
<1>6. ASSUME prompts' \in prompts .. MaxPrompts
      PROVE  HostDue' \in 0 .. HostDue
  <2>1. PICK p \in prompts .. MaxPrompts : prompts' = p
    BY <1>6
  <2>2. /\ MaxPrompts - p \in Nat /\ MaxPrompts - prompts \in Nat
        /\ MaxPrompts - p <= MaxPrompts - prompts
    BY <1>4
  <2>3. /\ HostTime * (MaxPrompts - p) \in Nat
        /\ HostTime * (MaxPrompts - p) <= HostTime * (MaxPrompts - prompts)
        /\ HostTime * (MaxPrompts - prompts) \in Nat
    BY <1>1, <1>2, <1>4, <2>2
  <2>4. HostDue' = HostTime * (MaxPrompts - p)
    BY <2>1 DEF HostDue
  <2> QED BY <2>3, <2>4 DEF HostDue
<1>7. ASSUME prompts' = prompts + 1, prompts < MaxPrompts
      PROVE  HostDue' \in Nat /\ HostDue = HostDue' + HostTime
  <2>1. HostDue' \in Nat
    BY <1>4, <1>6, <1>7, <1>5
  <2>2. MaxPrompts - prompts' = (MaxPrompts - prompts) - 1 /\ MaxPrompts - prompts \in Int
    BY <1>4, <1>7
  <2> QED BY <1>3, <1>4, <2>1, <2>2 DEF HostDue
<1> QED BY <1>5, <1>6, <1>7

(* The clocks keep their ranges, and none runs backwards or too far. *)
LEMMA RunTypes ==
  ASSUME active \in Nat, idle \in 0 .. Idle, quiet \in 0 .. idle,
         cancelLeft \in -1 .. Cancel, NEW d \in Nat, Run(d)
  PROVE  /\ active' \in Nat /\ active' <= active + d
         /\ idle' \in 0 .. Idle /\ quiet' \in 0 .. idle' /\ quiet <= quiet'
         /\ idle = quiet => idle' = quiet'
         /\ cancelLeft' \in -1 .. Cancel
BY TurnLoopAssumption, CapType DEF Run, UpTo, DownBy, CancelPasses

LEMMA OfferTypes ==
  ASSUME active \in Nat, idle \in 0 .. Idle, quiet \in 0 .. idle,
         cancelLeft \in -1 .. Cancel, graceLeft \in 0 .. Grace,
         prompts \in 0 .. MaxPrompts, NEW h \in Nat, NEW d \in Nat, OfferHostRun(h, d)
  PROVE  /\ active' \in Nat /\ active' <= active + d
         /\ idle' \in 0 .. Idle /\ quiet' \in 0 .. idle'
         /\ cancelLeft' \in -1 .. Cancel /\ graceLeft' \in 0 .. graceLeft
         /\ prompts' \in 0 .. MaxPrompts /\ prompts' = prompts + 1
         /\ prompts < MaxPrompts
<1>1. h + d \in Nat
  OBVIOUS
<1>2. /\ prompts < MaxPrompts /\ prompts' = prompts + 1
      /\ active' = UpTo(active + d, ActiveCap)
      /\ idle' = UpTo(idle + h + d, Idle) /\ quiet' = UpTo(quiet + d, Idle)
      /\ cancelLeft' = DownBy(cancelLeft, h + d) /\ graceLeft' = DownBy(graceLeft, h + d)
  BY DEF OfferHostRun, CancelPasses
<1>3. active' \in Nat /\ active' <= active + d
  BY <1>2, CapType DEF UpTo
<1>4. idle' \in 0 .. Idle /\ quiet' \in 0 .. idle'
  BY <1>2, TurnLoopAssumption DEF UpTo
<1>5. cancelLeft' \in -1 .. Cancel /\ graceLeft' \in 0 .. graceLeft
  BY <1>1, <1>2, TurnLoopAssumption DEF DownBy
<1> QED BY <1>2, <1>3, <1>4, <1>5, TurnLoopAssumption

LEMMA EndStatus ==
  ASSUME NEW way, NEW verdict, End(way, verdict), TypeInv,
         Final \/ verdict \in {"failed", "interrupted"}
  PROVE  /\ status' \in {"completed", "failed", "interrupted"}
         /\ Final => status' = status
         /\ how' = way /\ pc' = "done"
BY DEF End, GoTo, Final, TypeInv, TypeOK

(* A drain keeps the types. *)
LEMMA DrainTypes ==
  ASSUME TypeInv, DrainRequests \/ HandleRequest \/ DrainNotes \/ HandleNote
  PROVE  TypeInv'
<1> USE TurnLoopAssumption DEF TypeInv, TypeOK, QueuesOK, Flow
<1>1. CASE DrainRequests
  <2>1. /\ UNCHANGED <<server, memo, notes, overflowed, from, timeout_kind, clocks, hist>>
        /\ pc = "drain" /\ activity' = FALSE
        /\ \/ /\ status' = "failed" /\ how' = "overflow" /\ pc' = "done"
              /\ UNCHANGED <<batch, asks>>
           \/ /\ batch' = asks /\ asks' = <<>> /\ pc' = "requests"
              /\ UNCHANGED <<status, how>>
    BY <1>1 DEF DrainRequests, GoTo
  <2>2. /\ batch' \in Seq(Lines) /\ asks' \in Seq(AskLines)
        /\ pc' = "requests" => batch' \in Seq(AskLines)
        /\ Len(batch') + Len(asks') <= Len(batch) + Len(asks)
    <3>1. Seq(AskLines) \subseteq Seq(Lines)
      BY DEF Lines
    <3>2. CASE UNCHANGED <<batch, asks>> /\ pc' = "done"
      BY <3>2
    <3>3. CASE batch' = asks /\ asks' = <<>>
      BY <3>1, <3>3
    <3> QED BY <2>1, <3>2, <3>3
  <2>3. Flow'
    BY <2>1
  <2>4. QueuesOK'
    BY <2>1, <2>2 DEF server
  <2>5. Len(pipe') + Len(notes') + Len(asks') + Len(batch') <= MaxLines
    BY <2>1, <2>2 DEF server
  <2>6. TypeOK'
    <3>1. /\ UNCHANGED <<alive, writerOpen, reading, begun, serverDone, lines,
                         active_work_items, interrupted_once, interrupt_requested,
                         dispatcher_alive_after_join, prompts, overflowed, from,
                         timeout_kind, idle, graceLeft, cancelLeft, quiet, running,
                         finalQueued, lost, stranger, presses>>
          /\ activity' = FALSE
      BY <2>1 DEF server, memo, clocks, hist
    <3>2. /\ pc' \in {"drain", "requests", "notes", "liveness", "join", "decide",
                      "sleep", "interrupt", "grace", "raise", "cancel", "done"}
          /\ status' \in {"inProgress", "completed", "failed", "interrupted"}
          /\ how' \in {"waiting", "returned", "idle", "hard", "died", "overflow",
                       "keyboard", "unanswered"}
      BY <2>1
    <3>3. /\ alive' \in BOOLEAN /\ writerOpen' \in BOOLEAN /\ reading' \in BOOLEAN
          /\ begun' \subseteq Work /\ serverDone' \in BOOLEAN /\ lines' \in 0 .. MaxLines
      BY <3>1
    <3>4. /\ overflowed' \in BOOLEAN /\ active_work_items' \subseteq Work
          /\ Cardinality(active_work_items') <= WorkCap
          /\ from' \in {"top", "boundary", "grace", "topDead", "graceDead"}
          /\ activity' \in BOOLEAN
      BY <3>1
    <3>5. /\ interrupted_once' \in BOOLEAN /\ interrupt_requested' \in BOOLEAN
          /\ timeout_kind' \in {"none", "idle", "hard"}
          /\ dispatcher_alive_after_join' \in BOOLEAN /\ prompts' \in 0 .. MaxPrompts
      BY <3>1
    <3>6. /\ idle' \in 0 .. Idle /\ quiet' \in 0 .. idle'
          /\ graceLeft' \in 0 .. Grace /\ cancelLeft' \in -1 .. Cancel
      BY <3>1
    <3>7. /\ running' \subseteq Work /\ finalQueued' \in BOOLEAN /\ lost' \in BOOLEAN
          /\ stranger' \in BOOLEAN /\ presses' \in 0 .. MaxInterrupts
      BY <3>1
    <3> QED BY <2>5, <3>2, <3>3, <3>4, <3>5, <3>6, <3>7
  <2> QED BY <2>1, <2>3, <2>4, <2>6 DEF memo, clocks, hist
<1>2. CASE HandleRequest
  <2>1. /\ UNCHANGED <<server, active_work_items, interrupted_once,
                       interrupt_requested, dispatcher_alive_after_join, queues,
                       from, timeout_kind, running, finalQueued, boundary, lost, sent,
                       presses>>
        /\ pc = "requests" /\ batch # <<>> /\ batch' = Tail(batch)
        /\ activity' = (activity \/ RequestActivity(Head(batch)))
    BY <1>2 DEF HandleRequest
  <2>9. /\ status' \in {"inProgress", "completed", "failed", "interrupted"}
        /\ \/ pc' = pc /\ how' = how
           \/ pc' = "done" /\ how' = "unanswered"
    BY <1>2 DEF HandleRequest, GoTo
  <2>2. PICK d \in {0, HumanTime} :
          /\ Prompt(d) /\ prompts' \in {prompts, UpTo(prompts + 1, MaxPrompts)}
          /\ stranger' = (stranger \/ (d > 0 /\ ~Head(batch).own))
    BY <1>2 DEF HandleRequest
  <2>8. d \in Nat
    OBVIOUS
  <2>3. /\ batch' \in Seq(Lines) /\ batch' \in Seq(AskLines)
        /\ Len(batch') <= Len(batch)
    <3>1. batch \in Seq(Lines) /\ batch \in Seq(AskLines)
      BY <2>1
    <3> QED BY <2>1, <3>1
  <2>4. /\ idle' \in 0 .. Idle /\ quiet' \in 0 .. idle' /\ cancelLeft' \in -1 .. Cancel
        /\ UNCHANGED active
    <3> HIDE DEF QueuesOK, Flow
    <3> QED BY <2>2, <2>8 DEF Prompt, UpTo, DownBy, CancelPasses
  <2>5. graceLeft' \in 0 .. Grace
    BY <2>2, <2>8 DEF Prompt, DownBy
  <2>6. activity' \in BOOLEAN /\ stranger' \in BOOLEAN
    BY <2>1, <2>2
  <2>10. prompts' \in 0 .. MaxPrompts
    BY <2>2 DEF UpTo
  <2>7. Flow'
    BY <2>1, <2>9
  <2>11. QueuesOK'
    BY <2>1, <2>3, <2>9 DEF server, queues
  <2>13. Len(pipe') + Len(notes') + Len(asks') + Len(batch') <= MaxLines
    BY <2>1, <2>3 DEF server, queues
  <2> HIDE DEF QueuesOK, Flow
  <2>12. TypeOK'
    <3>1. /\ alive' \in BOOLEAN /\ writerOpen' \in BOOLEAN /\ reading' \in BOOLEAN
          /\ begun' \subseteq Work /\ serverDone' \in BOOLEAN /\ lines' \in 0 .. MaxLines
      BY <2>1 DEF server
    <3>2. /\ overflowed' \in BOOLEAN /\ active_work_items' \subseteq Work
          /\ Cardinality(active_work_items') <= WorkCap
          /\ from' \in {"top", "boundary", "grace", "topDead", "graceDead"}
      BY <2>1 DEF queues
    <3>3. /\ interrupted_once' \in BOOLEAN /\ interrupt_requested' \in BOOLEAN
          /\ timeout_kind' \in {"none", "idle", "hard"}
          /\ dispatcher_alive_after_join' \in BOOLEAN
      BY <2>1
    <3>4. /\ running' \subseteq Work /\ finalQueued' \in BOOLEAN /\ lost' \in BOOLEAN
          /\ presses' \in 0 .. MaxInterrupts
      BY <2>1
    <3>5. /\ pc' \in {"drain", "requests", "notes", "liveness", "join", "decide",
                      "sleep", "interrupt", "grace", "raise", "cancel", "done"}
          /\ how' \in {"waiting", "returned", "idle", "hard", "died", "overflow",
                       "keyboard", "unanswered"}
      BY <2>9
    <3> HIDE DEF TypeInv
    <3> QED BY <2>4, <2>5, <2>6, <2>9, <2>10, <2>13, <3>1, <3>2, <3>3, <3>4, <3>5
  <2>14. /\ IsFiniteSet(active_work_items') /\ active' \in Nat
         /\ boundary' \in [final : BOOLEAN, running : SUBSET Work]
    BY <2>1, <2>4
  <2> HIDE DEF TypeOK
  <2> QED BY <2>7, <2>11, <2>12, <2>14
<1>3. CASE DrainNotes
  <2>1. /\ UNCHANGED <<server, memo, asks, overflowed, from, activity, status,
                       timeout_kind, how, clocks, running, finalQueued, lost,
                       stranger, sent, presses>>
        /\ pc = "requests" /\ batch = <<>> /\ batch' = notes /\ notes' = <<>>
        /\ pc' = "notes"
    BY <1>3 DEF DrainNotes, GoTo
  <2>2. boundary' \in [final : BOOLEAN, running : SUBSET Work]
    BY <1>3 DEF DrainNotes
  <2>3. Flow'
    BY <2>1
  <2>4. Len(pipe') + Len(notes') + Len(asks') + Len(batch') <= MaxLines
    BY <2>1 DEF server
  <2>5. QueuesOK'
    BY <2>1 DEF server
  <2> HIDE DEF QueuesOK, Flow
  <2>6. TypeOK'
    <3>1. /\ alive' \in BOOLEAN /\ writerOpen' \in BOOLEAN /\ reading' \in BOOLEAN
          /\ begun' \subseteq Work /\ serverDone' \in BOOLEAN /\ lines' \in 0 .. MaxLines
      BY <2>1 DEF server
    <3>2. /\ overflowed' \in BOOLEAN /\ active_work_items' \subseteq Work
          /\ Cardinality(active_work_items') <= WorkCap
          /\ interrupted_once' \in BOOLEAN /\ interrupt_requested' \in BOOLEAN
          /\ dispatcher_alive_after_join' \in BOOLEAN /\ prompts' \in 0 .. MaxPrompts
      BY <2>1 DEF memo
    <3>3. /\ from' \in {"top", "boundary", "grace", "topDead", "graceDead"}
          /\ activity' \in BOOLEAN
          /\ status' \in {"inProgress", "completed", "failed", "interrupted"}
          /\ timeout_kind' \in {"none", "idle", "hard"}
          /\ how' \in {"waiting", "returned", "idle", "hard", "died", "overflow",
                       "keyboard", "unanswered"}
          /\ pc' = "notes"
      BY <2>1
    <3>4. /\ idle' \in 0 .. Idle /\ quiet' \in 0 .. idle'
          /\ graceLeft' \in 0 .. Grace /\ cancelLeft' \in -1 .. Cancel
      BY <2>1 DEF clocks
    <3>5. /\ running' \subseteq Work /\ finalQueued' \in BOOLEAN /\ lost' \in BOOLEAN
          /\ stranger' \in BOOLEAN /\ presses' \in 0 .. MaxInterrupts
      BY <2>1
    <3> HIDE DEF TypeInv
    <3> QED BY <2>4, <3>1, <3>2, <3>3, <3>4, <3>5
  <2>7. IsFiniteSet(active_work_items') /\ active' \in Nat
    BY <2>1 DEF memo, clocks
  <2> HIDE DEF TypeOK
  <2> QED BY <2>2, <2>3, <2>5, <2>6, <2>7
<1>4. CASE HandleNote
  <2>1. /\ UNCHANGED <<server, dispatcher_alive_after_join, queues, pc, from,
                       interrupted_once, interrupt_requested, timeout_kind, how,
                       hist>>
        /\ pc = "notes" /\ batch # <<>> /\ batch' = Tail(batch)
        /\ activity' = (activity \/ Meaningful(Head(batch)))
        /\ active_work_items' = WorkAfter(Head(batch))
        /\ status' \in {"completed", "failed", status}
    BY <1>4 DEF HandleNote
  <2>6. /\ active' \in Nat /\ idle' \in 0 .. Idle /\ quiet' \in 0 .. idle'
        /\ cancelLeft' \in -1 .. Cancel /\ graceLeft' \in 0 .. Grace
        /\ prompts' \in 0 .. MaxPrompts
    <3>1. CASE UNCHANGED <<clocks, prompts>>
      BY <3>1 DEF clocks
    <3>2. CASE \E h \in {0, HumanTime}, d \in 0 .. HostTime : OfferHostRun(h, d)
      <4>1. PICK h \in {0, HumanTime}, d \in 0 .. HostTime : OfferHostRun(h, d)
        BY <3>2
      <4> HIDE DEF QueuesOK, Flow
      <4>2. h \in Nat /\ d \in Nat
        OBVIOUS
      <4>3. /\ active \in Nat /\ idle \in 0 .. Idle /\ quiet \in 0 .. idle
            /\ cancelLeft \in -1 .. Cancel /\ graceLeft \in 0 .. Grace
            /\ prompts \in 0 .. MaxPrompts
        OBVIOUS
      <4> HIDE DEF TypeInv, TypeOK
      <4>4. /\ active' \in Nat /\ idle' \in 0 .. Idle /\ quiet' \in 0 .. idle'
            /\ cancelLeft' \in -1 .. Cancel /\ graceLeft' \in 0 .. graceLeft
            /\ prompts' \in 0 .. MaxPrompts
        BY <4>1, <4>2, <4>3, OfferTypes
      <4> QED BY <4>3, <4>4, TurnLoopAssumption
    <3> QED BY <1>4, <3>1, <3>2 DEF HandleNote
  <2>2. batch' \in Seq(Lines) /\ Len(batch') <= Len(batch) /\ Head(batch) \in Lines
    BY <2>1
  <2>3. /\ active_work_items' \subseteq Work /\ IsFiniteSet(active_work_items')
        /\ Cardinality(active_work_items') <= WorkCap
    <3> DEFINE e == Head(batch)
    <3>0. Cardinality(active_work_items) \in Nat
      BY FS_CardinalityType
    <3>1. CASE e.t = "start" /\ ~TooMuch(e)
      <4>1. active_work_items' = active_work_items \cup {e.w} /\ e.w \in Work
        BY <2>1, <2>2, <3>1, WorkAfterNote, LineFields
      <4>2. /\ IsFiniteSet(active_work_items \cup {e.w})
            /\ Cardinality(active_work_items \cup {e.w}) =
                 IF e.w \in active_work_items THEN Cardinality(active_work_items)
                                              ELSE Cardinality(active_work_items) + 1
        BY FS_AddElement
      <4>3. e.w \in active_work_items \/ Cardinality(active_work_items) < WorkCap
        BY <3>0, <3>1 DEF TooMuch
      <4> HIDE DEF e, TypeInv, TypeOK, QueuesOK, Flow
      <4>4. Cardinality(active_work_items \cup {e.w}) <= WorkCap
        BY <3>0, <4>2, <4>3, TurnLoopAssumption DEF TypeInv, TypeOK
      <4> QED BY <4>1, <4>2, <4>4 DEF TypeInv, TypeOK
    <3>2. CASE e.t = "stop"
      <4>1. active_work_items' = active_work_items \ {e.w}
        BY <2>1, <3>2, WorkAfterNote
      <4>2. active_work_items' \in SUBSET active_work_items
        BY <4>1
      <4>3. /\ IsFiniteSet(active_work_items')
            /\ Cardinality(active_work_items') <= Cardinality(active_work_items)
        BY <4>2, FS_Subset
      <4>4. Cardinality(active_work_items') \in Nat
        BY <4>3, FS_CardinalityType
      <4> QED BY <3>0, <4>2, <4>3, <4>4
    <3>3. CASE e.t \notin {"start", "stop"} \/ TooMuch(e)
      BY <2>1, <3>3, WorkAfterNote
    <3> QED BY <3>1, <3>2, <3>3 DEF TooMuch
  <2>4. activity' \in BOOLEAN
    BY <2>1
  <2>5. Flow'
    BY <2>1
  <2>7. QueuesOK'
    BY <2>1, <2>2 DEF server, queues
  <2>8. Len(pipe') + Len(notes') + Len(asks') + Len(batch') <= MaxLines
    BY <2>1, <2>2 DEF server, queues
  <2> HIDE DEF QueuesOK, Flow
  <2>9. TypeOK'
    BY SMTT(30), <2>1, <2>3, <2>4, <2>6, <2>8 DEF server, queues, hist
  <2> QED BY <2>1, <2>3, <2>5, <2>6, <2>7, <2>9 DEF hist
<1> QED BY <1>1, <1>2, <1>3, <1>4

(* What the loop does outside of its drains leaves the queues alone, and its  *)
(* batch but for a Ctrl+C; the rest is where it goes, what it has decided and *)
(* its clocks.                                                                *)
PlaceOK ==
  /\ pc \in {"drain", "requests", "notes", "liveness", "join", "decide",
              "sleep", "interrupt", "grace", "raise", "cancel", "done"}
  /\ from \in {"top", "boundary", "grace", "topDead", "graceDead"}
  /\ activity \in BOOLEAN
  /\ timeout_kind \in {"none", "idle", "hard"}
VerdictOK ==
  /\ status \in {"inProgress", "completed", "failed", "interrupted"}
  /\ how \in {"waiting", "returned", "idle", "hard", "died", "overflow", "keyboard",
               "unanswered"}
  /\ boundary \in [final : BOOLEAN, running : SUBSET Work]
StopOK ==
  /\ interrupted_once \in BOOLEAN /\ interrupt_requested \in BOOLEAN
  /\ dispatcher_alive_after_join \in BOOLEAN /\ prompts \in 0 .. MaxPrompts
  /\ lost \in BOOLEAN /\ presses \in 0 .. MaxInterrupts
ClocksOK ==
  /\ active \in Nat /\ idle \in 0 .. Idle /\ quiet \in 0 .. idle
  /\ graceLeft \in 0 .. Grace /\ cancelLeft \in -1 .. Cancel

LEMMA TypeParts ==
  ASSUME TypeInv
  PROVE  PlaceOK /\ VerdictOK /\ StopOK /\ ClocksOK /\ Flow
BY DEF TypeInv, TypeOK, PlaceOK, VerdictOK, StopOK, ClocksOK

LEMMA LoopFrame ==
  ASSUME TypeInv,
         UNCHANGED <<server, queues, active_work_items, running, finalQueued, stranger>>,
         batch' = batch \/ batch' = <<>>, pc' # "requests",
         pc' = "done" \/ batch' = <<>>,
         PlaceOK', VerdictOK', StopOK', ClocksOK', Flow'
  PROVE  TypeInv'
<1>1. /\ pipe' = pipe /\ notes' = notes /\ asks' = asks /\ lines' = lines
  BY DEF server, queues
<1>2. /\ batch' \in Seq(Lines) /\ Len(batch') <= Len(batch)
      /\ Len(batch') \in Nat /\ Len(batch) \in Nat
  <2>1. batch \in Seq(Lines)
    BY DEF TypeInv, QueuesOK
  <2>2. CASE batch' = batch
    BY <2>1, <2>2
  <2>3. CASE batch' = <<>>
    BY <2>1, <2>3
  <2> QED BY <2>2, <2>3
<1>3. /\ Len(pipe') + Len(notes') + Len(asks') + Len(batch') <= lines'
      /\ Len(pipe') + Len(notes') + Len(asks') + Len(batch') <= MaxLines
  <2>1. /\ Len(pipe) \in Nat /\ Len(notes) \in Nat /\ Len(asks) \in Nat
        /\ Len(pipe) + Len(notes) + Len(asks) + Len(batch) <= lines
        /\ lines \in Nat /\ lines <= MaxLines
    BY TurnLoopAssumption DEF TypeInv, TypeOK, QueuesOK
  <2> QED BY <1>1, <1>2, <2>1, TurnLoopAssumption
<1>6. QueuesOK'
  BY <1>1, <1>2, <1>3 DEF TypeInv, QueuesOK
<1>4. /\ alive' \in BOOLEAN /\ writerOpen' \in BOOLEAN /\ reading' \in BOOLEAN
      /\ begun' \subseteq Work /\ serverDone' \in BOOLEAN /\ lines' \in 0 .. MaxLines
      /\ overflowed' \in BOOLEAN /\ active_work_items' \subseteq Work
      /\ Cardinality(active_work_items') <= WorkCap
      /\ IsFiniteSet(active_work_items')
      /\ running' \subseteq Work /\ finalQueued' \in BOOLEAN /\ stranger' \in BOOLEAN
  BY DEF TypeInv, TypeOK, server, queues
<1>5. TypeOK'
  BY <1>3, <1>4 DEF TypeOK, PlaceOK, VerdictOK, StopOK, ClocksOK
<1> QED BY <1>4, <1>5, <1>6 DEF TypeInv, VerdictOK, ClocksOK

(* Every other step of the loop keeps the types. *)
LEMMA LoopTypes ==
  ASSUME TypeInv, Loop \/ CtrlC
  PROVE  TypeInv'
<1> DEFINE Kept == /\ UNCHANGED <<server, queues, active_work_items, running,
                                  finalQueued, stranger>>
                   /\ batch' = batch \/ batch' = <<>>
                   /\ pc' # "requests" /\ (pc' = "done" \/ batch' = <<>>)
<1>1. PlaceOK /\ VerdictOK /\ StopOK /\ ClocksOK /\ Flow
  BY TypeParts
<1>2. pc \notin {"requests", "notes", "done"} => batch = <<>>
  BY DEF TypeInv, QueuesOK
<1> SUFFICES ASSUME ~(DrainRequests \/ HandleRequest \/ DrainNotes \/ HandleNote)
             PROVE  Kept /\ PlaceOK' /\ VerdictOK' /\ StopOK' /\ ClocksOK' /\ Flow'
  BY LoopFrame, DrainTypes
<1> USE TurnLoopAssumption
<1>3. CASE AfterTop
  <2>1. Kept
    BY <1>2, <1>3 DEF AfterTop, GoTo, End, Drained, Heard, Final, memo, hist, Kept
  <2>2. PlaceOK'
    BY <1>1, <1>3 DEF AfterTop, GoTo, End, Drained, Heard, Final, memo, hist, PlaceOK
  <2>3. VerdictOK'
    BY <1>1, <1>3 DEF AfterTop, GoTo, End, Drained, Heard, Final, memo, hist, VerdictOK, PlaceOK, Flow
  <2>4. StopOK'
    BY <1>1, <1>3 DEF AfterTop, GoTo, End, Drained, Heard, Final, memo, hist, StopOK
  <2>5. ClocksOK'
    BY <1>1, <1>3 DEF AfterTop, GoTo, End, Drained, Heard, Final, clocks, ClocksOK
  <2>6. Flow'
    BY <1>1, <1>3 DEF AfterTop, GoTo, End, Drained, Heard, Final, memo, Flow, PlaceOK
  <2> QED BY <2>1, <2>2, <2>3, <2>4, <2>5, <2>6
<1>4. CASE AfterLiveness
  <2>1. Kept
    BY <1>2, <1>4 DEF AfterLiveness, GoTo, memo, hist, Kept
  <2>2. PlaceOK'
    BY <1>1, <1>4 DEF AfterLiveness, GoTo, memo, hist, PlaceOK
  <2>3. VerdictOK'
    BY <1>1, <1>4 DEF AfterLiveness, GoTo, memo, hist, VerdictOK, PlaceOK, Flow
  <2>4. StopOK'
    BY <1>1, <1>4 DEF AfterLiveness, GoTo, memo, hist, StopOK
  <2>5. ClocksOK'
    BY <1>1, <1>4 DEF AfterLiveness, GoTo, clocks, ClocksOK
  <2>6. Flow'
    BY <1>1, <1>4 DEF AfterLiveness, GoTo, memo, Flow, PlaceOK
  <2> QED BY <2>1, <2>2, <2>3, <2>4, <2>5, <2>6
<1>5. CASE JoinAndDrain
  <2>1. Kept
    BY <1>2, <1>5 DEF JoinAndDrain, GoTo, memo, hist, Kept
  <2>2. PlaceOK'
    BY <1>1, <1>5 DEF JoinAndDrain, GoTo, memo, hist, PlaceOK
  <2>3. VerdictOK'
    BY <1>1, <1>5 DEF JoinAndDrain, GoTo, memo, hist, VerdictOK, PlaceOK, Flow
  <2>4. StopOK'
    <3>1. reading \in BOOLEAN
      BY DEF TypeInv, TypeOK
    <3> QED BY <1>1, <1>5, <3>1 DEF JoinAndDrain, memo, hist, StopOK
  <2>5. ClocksOK'
    BY <1>1, <1>5 DEF JoinAndDrain, GoTo, clocks, ClocksOK
  <2>6. Flow'
    BY <1>1, <1>5 DEF JoinAndDrain, GoTo, memo, Flow, PlaceOK
  <2> QED BY <2>1, <2>2, <2>3, <2>4, <2>5, <2>6
<1>6. CASE AfterDead
  <2>1. Kept
    BY <1>2, <1>6 DEF AfterDead, GoTo, End, Drained, Final, memo, hist, Kept
  <2>2. PlaceOK'
    BY <1>1, <1>6 DEF AfterDead, GoTo, End, Drained, Final, memo, hist, PlaceOK
  <2>3. VerdictOK'
    BY <1>1, <1>6 DEF AfterDead, GoTo, End, Drained, Final, memo, hist, VerdictOK, PlaceOK, Flow
  <2>4. StopOK'
    BY <1>1, <1>6 DEF AfterDead, GoTo, End, Drained, Final, memo, hist, StopOK
  <2>5. ClocksOK'
    BY <1>1, <1>6 DEF AfterDead, GoTo, End, Drained, Final, clocks, ClocksOK
  <2>6. Flow'
    BY <1>1, <1>6 DEF AfterDead, GoTo, End, Drained, Final, memo, Flow, PlaceOK
  <2> QED BY <2>1, <2>2, <2>3, <2>4, <2>5, <2>6
<1>7. CASE Decide
  <2>1. Kept
    BY <1>2, <1>7 DEF Decide, GoTo, End, Final, memo, hist, Kept
  <2>2. PlaceOK'
    BY <1>1, <1>7 DEF Decide, GoTo, End, Final, memo, hist, PlaceOK
  <2>3. VerdictOK'
    BY <1>1, <1>7 DEF Decide, GoTo, End, Final, memo, hist, VerdictOK, PlaceOK, Flow
  <2>4. StopOK'
    BY <1>1, <1>7 DEF Decide, GoTo, End, Final, memo, hist, StopOK
  <2>5. ClocksOK'
    BY <1>1, <1>7 DEF Decide, GoTo, End, Final, clocks, ClocksOK
  <2>6. Flow'
    BY <1>1, <1>7 DEF Decide, GoTo, End, Final, memo, Flow, PlaceOK
  <2> QED BY <2>1, <2>2, <2>3, <2>4, <2>5, <2>6
<1>8. CASE AfterBoundary
  <2>1. Kept
    BY <1>2, <1>8 DEF AfterBoundary, GoTo, End, Drained, Heard, Final, NoBoundary, memo, hist, Kept
  <2>2. PlaceOK'
    BY <1>1, <1>8 DEF AfterBoundary, GoTo, End, Drained, Heard, Final, NoBoundary, memo, hist, PlaceOK
  <2>3. VerdictOK'
    <3>1. boundary' \in {boundary, NoBoundary}
      BY <1>8 DEF AfterBoundary
    <3>2. NoBoundary \in [final : BOOLEAN, running : SUBSET Work]
      BY DEF NoBoundary
    <3>3. /\ how' \in {how, "returned"}
          /\ status' = status
      BY <1>8 DEF AfterBoundary, End, Final
    <3> HIDE DEF NoBoundary
    <3> QED BY <1>1, <3>1, <3>2, <3>3 DEF VerdictOK
  <2>4. StopOK'
    BY <1>1, <1>8 DEF AfterBoundary, GoTo, End, Drained, Heard, Final, NoBoundary, memo, hist, StopOK
  <2>5. ClocksOK'
    BY <1>1, <1>8 DEF AfterBoundary, GoTo, End, Drained, Heard, Final, NoBoundary, clocks, ClocksOK
  <2>6. Flow'
    BY <1>1, <1>8 DEF AfterBoundary, GoTo, End, Drained, Heard, Final, NoBoundary, memo, Flow, PlaceOK
  <2> QED BY <2>1, <2>2, <2>3, <2>4, <2>5, <2>6
<1>9. CASE AfterGrace
  <2>1. Kept
    BY <1>2, <1>9 DEF AfterGrace, GoTo, Drained, memo, hist, Kept
  <2>2. PlaceOK'
    BY <1>1, <1>9 DEF AfterGrace, GoTo, Drained, memo, hist, PlaceOK
  <2>3. VerdictOK'
    BY <1>1, <1>9 DEF AfterGrace, GoTo, Drained, memo, hist, VerdictOK, PlaceOK, Flow
  <2>4. StopOK'
    BY <1>1, <1>9 DEF AfterGrace, GoTo, Drained, memo, hist, StopOK
  <2>5. ClocksOK'
    BY <1>1, <1>9 DEF AfterGrace, GoTo, Drained, clocks, ClocksOK
  <2>6. Flow'
    BY <1>1, <1>9 DEF AfterGrace, GoTo, Drained, memo, Flow, PlaceOK
  <2> QED BY <2>1, <2>2, <2>3, <2>4, <2>5, <2>6
<1>10. CASE RaiseTimeout
  <2>1. Kept
    BY <1>2, <1>10 DEF RaiseTimeout, GoTo, End, Final, memo, hist, Kept
  <2>2. PlaceOK'
    BY <1>1, <1>10 DEF RaiseTimeout, GoTo, End, Final, memo, hist, PlaceOK
  <2>3. VerdictOK'
    BY <1>1, <1>10 DEF RaiseTimeout, GoTo, End, Final, memo, hist, VerdictOK, PlaceOK, Flow
  <2>4. StopOK'
    BY <1>1, <1>10 DEF RaiseTimeout, GoTo, End, Final, memo, hist, StopOK
  <2>5. ClocksOK'
    BY <1>1, <1>10 DEF RaiseTimeout, GoTo, End, Final, clocks, ClocksOK
  <2>6. Flow'
    BY <1>1, <1>10 DEF RaiseTimeout, GoTo, End, Final, memo, Flow, PlaceOK
  <2> QED BY <2>1, <2>2, <2>3, <2>4, <2>5, <2>6
<1>11. CASE CtrlC
  <2>1. Kept
    BY <1>2, <1>11 DEF CtrlC, GoTo, End, Final, Waiting, memo, hist, Kept
  <2>2. PlaceOK'
    BY <1>1, <1>11 DEF CtrlC, GoTo, End, Final, Waiting, memo, hist, PlaceOK
  <2>3. VerdictOK'
    BY <1>1, <1>11 DEF CtrlC, GoTo, End, Final, Waiting, memo, hist, VerdictOK, PlaceOK, Flow
  <2>4. StopOK'
    <3>1. /\ presses < MaxInterrupts /\ presses' = presses + 1
          /\ interrupted_once' \in {interrupted_once, TRUE}
          /\ UNCHANGED <<interrupt_requested, dispatcher_alive_after_join, prompts>>
      BY <1>11 DEF CtrlC
    <3>2. lost' \in BOOLEAN
      BY <1>1, <1>11 DEF CtrlC, StopOK
    <3>3. presses' \in 0 .. MaxInterrupts
      BY <1>1, <3>1 DEF StopOK
    <3> QED BY <1>1, <3>1, <3>2, <3>3 DEF StopOK
  <2>5. ClocksOK'
    BY <1>1, <1>11 DEF CtrlC, GoTo, End, Final, Waiting, clocks, ClocksOK
  <2>6. Flow'
    BY <1>1, <1>11 DEF CtrlC, GoTo, End, Final, Waiting, memo, Flow, PlaceOK
  <2> QED BY <2>1, <2>2, <2>3, <2>4, <2>5, <2>6
<1>12. CASE Sleep
  <2>1. Kept
    BY <1>2, <1>12 DEF Sleep, GoTo, AskServerToStop, memo, hist, Kept
  <2>2. PlaceOK'
    BY <1>1, <1>12 DEF Sleep, GoTo, AskServerToStop, memo, hist, PlaceOK
  <2>3. VerdictOK'
    BY <1>1, <1>12 DEF Sleep, GoTo, AskServerToStop, memo, hist, VerdictOK, PlaceOK
  <2>4. StopOK'
    BY <1>1, <1>12 DEF Sleep, GoTo, AskServerToStop, memo, hist, StopOK
  <2>5. ClocksOK'
    <3>1. Run(1) /\ UNCHANGED graceLeft
      BY <1>12 DEF Sleep
    <3> QED BY <1>1, <3>1, RunTypes DEF ClocksOK
  <2>6. Flow'
    BY <1>1, <1>12 DEF Sleep, GoTo, AskServerToStop, memo, Flow, PlaceOK
  <2> QED BY <2>1, <2>2, <2>3, <2>4, <2>5, <2>6
<1>13. CASE TimeoutInterrupts
  <2>1. Kept
    BY <1>2, <1>13 DEF TimeoutInterrupts, GoTo, AskServerToStop, memo, hist, Kept
  <2>2. PlaceOK'
    BY <1>1, <1>13 DEF TimeoutInterrupts, GoTo, AskServerToStop, memo, hist, PlaceOK
  <2>3. VerdictOK'
    BY <1>1, <1>13 DEF TimeoutInterrupts, GoTo, AskServerToStop, memo, hist, VerdictOK, PlaceOK
  <2>4. StopOK'
    BY <1>1, <1>13 DEF TimeoutInterrupts, GoTo, AskServerToStop, memo, hist, StopOK
  <2>5. ClocksOK'
    <3>1. PICK d \in {0, RpcTime} : Run(d)
      BY <1>13 DEF TimeoutInterrupts
    <3>2. d \in Nat /\ graceLeft' = Grace
      BY <1>13 DEF TimeoutInterrupts
    <3> QED BY <1>1, <3>1, <3>2, RunTypes DEF ClocksOK
  <2>6. Flow'
    BY <1>1, <1>13 DEF TimeoutInterrupts, GoTo, AskServerToStop, memo, Flow, PlaceOK
  <2> QED BY <2>1, <2>2, <2>3, <2>4, <2>5, <2>6
<1>14. CASE GraceSleep
  <2>1. Kept
    BY <1>2, <1>14 DEF GraceSleep, GoTo, AskServerToStop, memo, hist, Kept
  <2>2. PlaceOK'
    BY <1>1, <1>14 DEF GraceSleep, GoTo, AskServerToStop, memo, hist, PlaceOK
  <2>3. VerdictOK'
    BY <1>1, <1>14 DEF GraceSleep, GoTo, AskServerToStop, memo, hist, VerdictOK, PlaceOK
  <2>4. StopOK'
    BY <1>1, <1>14 DEF GraceSleep, GoTo, AskServerToStop, memo, hist, StopOK
  <2>5. ClocksOK'
    <3>1. Run(1) /\ graceLeft > 0 /\ graceLeft' = graceLeft - 1
      BY <1>14 DEF GraceSleep
    <3> QED BY <1>1, <3>1, RunTypes DEF ClocksOK
  <2>6. Flow'
    BY <1>1, <1>14 DEF GraceSleep, GoTo, AskServerToStop, memo, Flow, PlaceOK
  <2> QED BY <2>1, <2>2, <2>3, <2>4, <2>5, <2>6
<1>15. CASE FirstInterrupt
  <2>1. Kept
    BY <1>2, <1>15 DEF FirstInterrupt, GoTo, AskServerToStop, memo, hist, Kept
  <2>2. PlaceOK'
    BY <1>1, <1>15 DEF FirstInterrupt, GoTo, AskServerToStop, memo, hist, PlaceOK
  <2>3. VerdictOK'
    BY <1>1, <1>15 DEF FirstInterrupt, GoTo, AskServerToStop, memo, hist, VerdictOK, PlaceOK
  <2>4. StopOK'
    BY <1>1, <1>15 DEF FirstInterrupt, GoTo, AskServerToStop, memo, hist, StopOK
  <2>5. ClocksOK'
    <3>1. PICK d \in {0, RpcTime} : active' = UpTo(active + d, ActiveCap)
      BY <1>15 DEF FirstInterrupt
    <3>2. /\ d \in Nat /\ idle' = 0 /\ quiet' = 0 /\ cancelLeft' = Cancel
          /\ graceLeft' = graceLeft
      BY <1>15 DEF FirstInterrupt
    <3> QED BY <1>1, <3>1, <3>2, CapType DEF ClocksOK, UpTo
  <2>6. Flow'
    BY <1>1, <1>15 DEF FirstInterrupt, GoTo, AskServerToStop, memo, Flow, PlaceOK
  <2> QED BY <2>1, <2>2, <2>3, <2>4, <2>5, <2>6
<1> HIDE DEF Kept
<1> QED BY <1>3, <1>4, <1>5, <1>6, <1>7, <1>8, <1>9, <1>10,
           <1>11, <1>12, <1>13, <1>14, <1>15 DEF Loop

LEMMA TypeStep ==
  ASSUME TypeInv, [Next]_vars
  PROVE  TypeInv'
<1>1. CASE UNCHANGED vars
  BY <1>1 DEF vars, server, queues, memo, loop, clocks, hist, TypeInv, TypeOK, QueuesOK,
              Flow
<1>2. CASE Next
  BY <1>2, ServerTypes, LoopTypes DEF Next
<1> QED BY <1>1, <1>2

(* wait_for_turn: in every reachable state the variables are of their types, *)
(* and the place in the loop fits the drain it came from.                    *)
THEOREM TypeCorrect == Spec => []TypeInv
<1>1. Init => TypeInv
  <2> SUFFICES ASSUME Init PROVE TypeInv
    OBVIOUS
  <2>1. IsFiniteSet(active_work_items) /\ Cardinality(active_work_items) = 0
    BY FS_EmptySet DEF Init
  <2>2. boundary \in [final : BOOLEAN, running : SUBSET Work]
    BY DEF Init, NoBoundary
  <2>3. TypeOK
    <3>1. Len(pipe) + Len(notes) + Len(asks) + Len(batch) = 0
      BY DEF Init
    <3>2. PlaceOK
      BY DEF Init, PlaceOK
    <3>7. status = "inProgress" /\ how = "waiting"
      BY DEF Init
    <3>8. VerdictOK
      BY <2>2, <3>7 DEF VerdictOK
    <3>9. StopOK
      <4>1. presses = 0 /\ 0 \in 0 .. MaxInterrupts
        BY TurnLoopAssumption DEF Init
      <4>2. /\ interrupted_once = FALSE /\ interrupt_requested = FALSE
            /\ dispatcher_alive_after_join = FALSE /\ lost = FALSE
        BY DEF Init
      <4>3. prompts \in 0 .. MaxPrompts
        BY TurnLoopAssumption DEF Init
      <4> QED BY <4>1, <4>2, <4>3 DEF StopOK
    <3>3. ClocksOK
      BY TurnLoopAssumption DEF Init, ClocksOK
    <3>4. /\ alive \in BOOLEAN /\ writerOpen \in BOOLEAN /\ reading \in BOOLEAN
          /\ serverDone \in BOOLEAN /\ overflowed \in BOOLEAN
          /\ finalQueued \in BOOLEAN /\ stranger \in BOOLEAN
      BY DEF Init
    <3>10. begun = {} /\ active_work_items = {} /\ running = {} /\ lines = 0
      BY DEF Init
    <3>11. begun \subseteq Work /\ active_work_items \subseteq Work /\ running \subseteq Work
      BY <3>10
    <3>12. lines \in 0 .. MaxLines
      BY <3>10, TurnLoopAssumption
    <3>5. Len(pipe) + Len(notes) + Len(asks) + Len(batch) <= MaxLines
      BY <3>1, TurnLoopAssumption
    <3>6. Cardinality(active_work_items) <= WorkCap
      BY <2>1, TurnLoopAssumption
    <3> QED BY <3>2, <3>3, <3>4, <3>5, <3>6, <3>8, <3>9, <3>11, <3>12
            DEF TypeOK, PlaceOK, VerdictOK, StopOK, ClocksOK
  <2>4. QueuesOK /\ Flow
    BY DEF Init, QueuesOK, Flow
  <2> QED BY <2>1, <2>2, <2>3, <2>4 DEF Init, TypeInv
<1>2. TypeInv /\ [Next]_vars => TypeInv'
  BY TypeStep
<1> QED BY <1>1, <1>2, PTL DEF Spec
------------------------------------------------------------------------------
(* From the interrupt request of a timeout to its raise. *)
TimedOut == pc \in {"interrupt", "grace"} \/ from \in {"grace", "graceDead"}

(* What the clock of the hard timeout may still gain once it has run out: one
   interrupt request, what is left of a grace that runs or else a whole one,
   one more after the first Ctrl+C, and the host runs yet to be asked for. *)
RequestDue == IF interrupt_requested THEN 0 ELSE RpcTime
GraceOn == pc # "cancel" /\ (pc = "grace" \/ from \in {"grace", "graceDead"})
GraceDue == IF pc = "done" THEN 0
            ELSE (IF interrupted_once THEN 0 ELSE Grace)
                   + (IF GraceOn THEN graceLeft ELSE Grace)

BudgetInv ==
  /\ pc = "sleep" => active < Hard
  /\ active + RequestDue + GraceDue + HostDue
       <= Hard + RpcTime + 2 * Grace + HostBudget

LEMMA DueTypes ==
  ASSUME TypeInv
  PROVE  /\ active \in Nat /\ graceLeft \in 0 .. Grace
         /\ RequestDue \in 0 .. RpcTime /\ GraceDue \in 0 .. 2 * Grace
         /\ HostDue \in Nat /\ HostBudget \in Nat
<1>1. prompts \in 0 .. MaxPrompts
  BY DEF TypeInv, TypeOK
<1>2. HostDue \in Nat /\ HostBudget \in Nat
  BY <1>1, HostDueFacts, CapType
<1> QED BY <1>2, TurnLoopAssumption DEF TypeInv, TypeOK, RequestDue, GraceDue

(* What a drain does to the budget: host runs are paid for by their prompts. *)
LEMMA BudgetInDrain ==
  ASSUME BudgetInv, pc \in {"requests", "notes"}, pc' \in {"requests", "notes", "done"},
         UNCHANGED <<from, interrupted_once, interrupt_requested>>,
         active \in Nat, active' \in Nat, graceLeft \in 0 .. Grace,
         graceLeft' \in 0 .. graceLeft, HostDue \in Nat, HostDue' \in Nat,
         active' + HostDue' <= active + HostDue,
         interrupted_once \in BOOLEAN, interrupt_requested \in BOOLEAN
  PROVE  BudgetInv'
<1>1. PICK a \in Nat : active' = a
  OBVIOUS
<1>2. PICK h \in Nat : HostDue' = h
  OBVIOUS
<1>3. PICK g \in 0 .. graceLeft : graceLeft' = g
  OBVIOUS
<1>4. a + h <= active + HostDue
  BY <1>1, <1>2
<1>5. /\ RequestDue \in Nat /\ RequestDue' = RequestDue
      /\ Hard \in Nat /\ RpcTime \in Nat /\ Grace \in Nat /\ HostBudget \in Nat
  BY CapType, TurnLoopAssumption DEF RequestDue
<1>6. PICK n \in Nat : GraceDue' = n /\ n <= GraceDue
  <2>1. GraceOn' <=> from \in {"grace", "graceDead"}
    BY DEF GraceOn
  <2>2. GraceOn <=> from \in {"grace", "graceDead"}
    BY DEF GraceOn
  <2>3. pc # "done" /\ interrupted_once' = interrupted_once
    OBVIOUS
  <2> DEFINE N == IF pc' = "done" THEN 0
                  ELSE (IF interrupted_once THEN 0 ELSE Grace)
                         + (IF GraceOn THEN g ELSE Grace)
  <2>4. N \in Nat /\ N <= GraceDue
    BY <1>5, <2>3 DEF GraceDue
  <2>5. GraceDue' = N
    <3>1. (IF interrupted_once' THEN 0 ELSE Grace) = (IF interrupted_once THEN 0 ELSE Grace)
      BY <2>3
    <3>2. (IF GraceOn' THEN graceLeft' ELSE Grace) = (IF GraceOn THEN g ELSE Grace)
      BY <1>3, <2>1, <2>2
    <3> QED BY <3>1, <3>2, Zenon DEF GraceDue
  <2> QED BY <2>4, <2>5
<1>7. GraceDue \in Nat
  BY <1>5 DEF GraceDue
<1>8. active + RequestDue + GraceDue + HostDue <= Hard + RpcTime + 2 * Grace + HostBudget
  BY DEF BudgetInv
<1>9. a + RequestDue + n + h <= Hard + RpcTime + 2 * Grace + HostBudget
  BY <1>4, <1>5, <1>6, <1>7, <1>8
<1> QED BY <1>1, <1>2, <1>5, <1>6, <1>9 DEF BudgetInv

(* No step but Sleep spends time that is not in the budget, and Sleep runs    *)
(* only while the hard timeout has not passed.                               *)
LEMMA BudgetStep ==
  ASSUME TypeInv, BudgetInv, Next
  PROVE  BudgetInv'
<1> USE TurnLoopAssumption
<1> USE DEF BudgetInv, RequestDue, GraceDue
<1>1. /\ active \in Nat /\ graceLeft \in 0 .. Grace
      /\ interrupted_once \in BOOLEAN /\ interrupt_requested \in BOOLEAN
      /\ prompts \in 0 .. MaxPrompts
  BY DEF TypeInv, TypeOK
<1>2. HostDue \in 0 .. HostBudget /\ HostBudget \in Nat
  BY <1>1, HostDueFacts, CapType
<1>3. prompts' = prompts => HostDue' = HostDue
  BY DEF HostDue
<1>4. ASSUME UNCHANGED <<active, pc, from, graceLeft, interrupted_once,
                         interrupt_requested, prompts>>
      PROVE  BudgetInv'
  BY <1>3, <1>4 DEF BudgetInv, RequestDue, GraceDue, GraceOn
<1>5. CASE ServerWrites \/ ServerExits \/ RouteOverflow \/ Dispatcher
  BY <1>4, <1>5 DEF ServerWrites, StartsCommand, EndsCommand, Says, Asks, Write,
                    ServerExits, RouteOverflow, Dispatcher, Route, DispatcherEnds,
                    loop, memo, clocks
<1>6. CASE DrainRequests \/ DrainNotes \/ AfterTop \/ AfterDead
           \/ Decide \/ AfterBoundary
  <2>1. /\ active' = active /\ graceLeft' = graceLeft
        /\ UNCHANGED <<interrupted_once, interrupt_requested, prompts>>
    BY <1>6 DEF DrainRequests, DrainNotes, AfterTop, AfterDead, Decide,
                AfterBoundary, Heard, memo, clocks
  <2>2. pc \notin {"cancel", "grace", "done"} /\ pc' \notin {"cancel", "grace"}
    BY <1>6 DEF DrainRequests, DrainNotes, AfterTop, AfterDead, Decide,
                AfterBoundary, Drained, End, GoTo
  <2>3. from' \in {"grace", "graceDead"} <=> from \in {"grace", "graceDead"}
    BY <1>6 DEF DrainRequests, DrainNotes, AfterTop, AfterDead, Decide,
                AfterBoundary, Drained, TypeInv, Flow
  <2>4. pc' = "sleep" => active < Hard
    BY <1>1, <1>6
       DEF DrainRequests, DrainNotes, AfterTop, AfterDead, Decide,
           AfterBoundary, Drained, End, GoTo, NoTimeoutDue, TimeoutDue
  <2> QED BY <1>1, <1>2, <1>3, <2>1, <2>2, <2>3, <2>4 DEF GraceOn
<1>7. CASE HandleRequest
  <2>1. /\ UNCHANGED <<active, from, interrupted_once, interrupt_requested>>
        /\ pc = "requests" /\ pc' \in {"requests", "done"}
    BY <1>7 DEF HandleRequest, Prompt, GoTo
  <2>2. graceLeft' \in 0 .. graceLeft
    <3>1. PICK d \in {0, HumanTime} : graceLeft' = DownBy(graceLeft, d)
      BY <1>7 DEF HandleRequest, Prompt
    <3>2. d \in Nat
      OBVIOUS
    <3> QED BY <1>1, <3>1, <3>2 DEF DownBy
  <2>3. HostDue' \in 0 .. HostDue
    <3>1. prompts' \in {prompts, UpTo(prompts + 1, MaxPrompts)}
      BY <1>7 DEF HandleRequest
    <3>2. prompts' \in prompts .. MaxPrompts
      BY <1>1, <3>1 DEF UpTo
    <3> QED BY <1>1, <3>2, HostDueFacts
  <2>4. HostDue' \in Nat /\ active' + HostDue' <= active + HostDue
    <3>1. PICK h \in 0 .. HostDue : HostDue' = h
      BY <2>3
    <3>2. h \in Nat /\ active + h <= active + HostDue
      BY <1>1, <1>2
    <3> QED BY <2>1, <3>1, <3>2
  <2>5. /\ pc \in {"requests", "notes"} /\ pc' \in {"requests", "notes", "done"}
        /\ UNCHANGED <<from, interrupted_once, interrupt_requested>>
        /\ active' \in Nat /\ HostDue \in Nat
    BY <1>1, <1>2, <2>1
  <2> HIDE DEF BudgetInv
  <2> QED BY <1>1, <2>2, <2>4, <2>5, BudgetInDrain, Zenon
<1>16. CASE HandleNote
  <2>1. /\ pc' = pc /\ from' = from /\ pc = "notes"
        /\ UNCHANGED <<interrupted_once, interrupt_requested>>
    BY <1>16 DEF HandleNote
  <2>2. CASE UNCHANGED <<clocks, prompts>>
    BY <1>4, <2>1, <2>2 DEF clocks
  <2>3. CASE \E h \in {0, HumanTime}, d \in 0 .. HostTime : OfferHostRun(h, d)
    <3>1. PICK h \in {0, HumanTime}, d \in 0 .. HostTime : OfferHostRun(h, d)
      BY <2>3
    <3>2. h \in Nat /\ d \in Nat /\ d <= HostTime /\ HostTime \in Nat
      OBVIOUS
    <3>3. /\ active' \in Nat /\ active' <= active + d /\ graceLeft' \in 0 .. graceLeft
          /\ prompts' = prompts + 1 /\ prompts < MaxPrompts
      <4>1. idle \in 0 .. Idle /\ quiet \in 0 .. idle /\ cancelLeft \in -1 .. Cancel
        BY DEF TypeInv, TypeOK
      <4> QED BY <1>1, <3>1, <3>2, <4>1, OfferTypes
    <3>4. HostDue' \in Nat /\ HostDue = HostDue' + HostTime
      BY <1>1, <3>3, HostDueFacts
    <3>5. active' + HostDue' <= active + HostDue
      <4>1. PICK a \in Nat : active' = a /\ a <= active + d
        BY <3>3
      <4>2. PICK k \in Nat : HostDue' = k /\ HostDue = k + HostTime
        BY <3>4
      <4>3. a + k <= active + (k + HostTime)
        BY <1>1, <3>2, <4>1
      <4> QED BY <4>1, <4>2, <4>3
    <3>6. /\ pc \in {"requests", "notes"} /\ pc' \in {"requests", "notes", "done"}
          /\ UNCHANGED <<from, interrupted_once, interrupt_requested>>
          /\ HostDue \in Nat
      BY <1>1, <1>2, <2>1
    <3> HIDE DEF BudgetInv
    <3> QED BY <1>1, <3>3, <3>4, <3>5, <3>6, BudgetInDrain, Zenon
  <2> QED BY <1>16, <2>2, <2>3 DEF HandleNote
<1>8. CASE AfterLiveness \/ JoinAndDrain \/ AfterGrace \/ RaiseTimeout
  <2>1. /\ active' = active /\ graceLeft' = graceLeft
        /\ UNCHANGED <<interrupted_once, interrupt_requested, prompts>>
    BY <1>8 DEF AfterLiveness, JoinAndDrain, AfterGrace, RaiseTimeout, memo, clocks
  <2>2. pc # "cancel" /\ pc' \notin {"cancel", "sleep"}
    BY <1>8 DEF AfterLiveness, JoinAndDrain, AfterGrace, RaiseTimeout, Drained, End, GoTo
  <2>3. pc' = "grace" \/ from' \in {"grace", "graceDead"} => GraceOn
    BY <1>8, <2>2 DEF AfterLiveness, JoinAndDrain, AfterGrace, RaiseTimeout, Drained,
                      GoTo, End, GraceOn, TypeInv, Flow
  <2>4. pc # "done" /\ (pc' # "done" /\ GraceOn => GraceOn')
    BY <1>8, <2>2 DEF AfterLiveness, JoinAndDrain, AfterGrace, RaiseTimeout, Drained,
                      GoTo, End, GraceOn, TypeInv, Flow
  <2> QED
    BY <1>1, <1>2, <1>3, <2>1, <2>2, <2>3, <2>4 DEF GraceOn
<1>9. CASE Sleep
  <2>1. PICK n \in Nat : active' = n /\ n <= active + 1
    BY <1>1, <1>9, CapType DEF Sleep, Run, UpTo
  <2>2. /\ active < Hard /\ pc' = "drain" /\ from' = "top"
        /\ UNCHANGED <<interrupted_once, interrupt_requested, graceLeft, prompts>>
    BY <1>9 DEF Sleep, GoTo, memo
  <2> QED BY <1>1, <1>2, <1>3, <2>1, <2>2 DEF GraceOn
<1>10. CASE TimeoutInterrupts
  <2>1. PICK d \in {0, RpcTime} : AskServerToStop(d) /\ active' = UpTo(active + d, ActiveCap)
    BY <1>10 DEF TimeoutInterrupts, Run
  <2>2. PICK n \in Nat : active' = n /\ n <= active + d
    BY <1>1, <2>1, CapType DEF UpTo
  <2>3. interrupt_requested' = TRUE /\ (interrupt_requested => d = 0)
    BY <1>1, <2>1 DEF AskServerToStop
  <2>4. /\ from = "boundary" /\ pc = "interrupt" /\ pc' = "grace" /\ from' = from
        /\ graceLeft' = Grace /\ UNCHANGED <<interrupted_once, prompts>>
    BY <1>10 DEF TimeoutInterrupts, TypeInv, Flow, GoTo
  <2> QED BY <1>1, <1>2, <1>3, <2>2, <2>3, <2>4 DEF GraceOn
<1>11. CASE GraceSleep
  <2>1. PICK n \in Nat : active' = n /\ n <= active + 1
    BY <1>1, <1>11, CapType DEF GraceSleep, Run, UpTo
  <2>2. /\ pc = "grace" /\ pc' = "drain" /\ from' = "grace"
        /\ graceLeft' = graceLeft - 1
        /\ UNCHANGED <<interrupted_once, interrupt_requested, prompts>>
    BY <1>11 DEF GraceSleep, GoTo, memo
  <2> QED BY <1>1, <1>2, <1>3, <2>1, <2>2 DEF GraceOn
<1>12. CASE CtrlC
  <2>1. /\ active' = active /\ graceLeft' = graceLeft /\ from' = from
        /\ interrupt_requested' = interrupt_requested /\ prompts' = prompts
    BY <1>12 DEF CtrlC, clocks
  <2>4. pc # "done"
    BY <1>12 DEF CtrlC, Waiting, TypeInv, Flow
  <2>2. CASE interrupted_once
    <3>1. pc' = "done" /\ interrupted_once' = interrupted_once
      BY <1>12, <2>2 DEF CtrlC, End, GoTo
    <3> QED BY <1>1, <1>2, <1>3, <2>1, <2>2, <2>4, <3>1 DEF GraceOn
  <2>3. CASE ~interrupted_once
    <3>1. pc' = "cancel" /\ interrupted_once' = TRUE
      BY <1>12, <2>3 DEF CtrlC, GoTo
    <3> QED BY <1>1, <1>2, <1>3, <2>1, <2>3, <2>4, <3>1 DEF GraceOn
  <2> QED BY <2>2, <2>3
<1>13. CASE FirstInterrupt
  <2>1. PICK d \in {0, RpcTime} : AskServerToStop(d) /\ active' = UpTo(active + d, ActiveCap)
    BY <1>13 DEF FirstInterrupt
  <2>2. PICK n \in Nat : active' = n /\ n <= active + d
    BY <1>1, <2>1, CapType DEF UpTo
  <2>3. interrupt_requested' = TRUE /\ (interrupt_requested => d = 0)
    BY <1>1, <2>1 DEF AskServerToStop
  <2>4. /\ pc = "cancel" /\ pc' = "drain" /\ from' = "top"
        /\ UNCHANGED <<interrupted_once, graceLeft, prompts>>
    BY <1>13 DEF FirstInterrupt, GoTo
  <2> QED BY <1>1, <1>2, <1>3, <2>2, <2>3, <2>4 DEF GraceOn
<1> QED BY <1>5, <1>6, <1>7, <1>8, <1>9, <1>10, <1>11, <1>12, <1>13, <1>16
        DEF Next, Loop

(* docs/configuration.md:63 "No configuration produces an unlimited turn":   *)
(* whatever the events, the commands, the prompts and the interrupts, a turn *)
(* runs one interrupt request, two graces and the host runs it may ask for   *)
(* past its hard timeout at most.                                            *)
THEOREM TurnIsBounded == Spec => []HardBound
<1>1. Init => BudgetInv
  <2> SUFFICES ASSUME Init PROVE BudgetInv
    OBVIOUS
  <2>1. HostDue = HostBudget /\ HostBudget \in Nat
    BY CapType, TurnLoopAssumption DEF Init, HostDue, HostBudget
  <2> QED BY <2>1, TurnLoopAssumption DEF Init, BudgetInv, RequestDue, GraceDue, GraceOn
<1>2. TypeInv /\ BudgetInv /\ [Next]_vars => BudgetInv'
  <2>1. ASSUME BudgetInv, UNCHANGED vars PROVE BudgetInv'
    BY <2>1 DEF BudgetInv, RequestDue, GraceDue, GraceOn, HostDue, vars, loop, memo,
                clocks
  <2> QED BY <2>1, BudgetStep
<1>3. TypeInv /\ BudgetInv => HardBound
  <2>1. HardBound <=> active <= Hard + RpcTime + 2 * Grace + HostBudget
    BY DEF HardBound, HostBudget
  <2> QED BY <2>1, DueTypes, TurnLoopAssumption DEF BudgetInv
<1> QED BY <1>1, <1>2, <1>3, TypeCorrect, PTL DEF Spec
------------------------------------------------------------------------------
(* The messages of the client not yet handled, in order. *)
Pending == (IF pc = "notes" THEN batch ELSE <<>>) \o notes

HasFinal(s) == \E i \in 1 .. Len(s) : s[i].t = "completed"
StartAt(s, i, w) == s[i].t = "start" /\ s[i].w = w
StopAt(s, i, w) == s[i].t = "stop" /\ s[i].w = w

(* No step is taken once the wait is over, a verdict stays, and so does the   *)
(* memory of a Ctrl+C that threw messages away or of a late prompt.          *)
LEMMA WaitGoesOn ==
  ASSUME TypeInv, Next
  PROVE  pc # "done" /\ how = "waiting"
<1>1. pc # "done" \/ Waiting
  BY DEF Next, ServerWrites, StartsCommand, EndsCommand, Says, Asks, Write, ServerExits,
         RouteOverflow, Dispatcher, Route, DispatcherEnds, CtrlC, Loop, DrainRequests,
         HandleRequest, DrainNotes, HandleNote, AfterTop, AfterLiveness, JoinAndDrain,
         AfterDead, Decide, Sleep, AfterBoundary, TimeoutInterrupts, GraceSleep,
         AfterGrace, RaiseTimeout, FirstInterrupt, Drained
<1> QED BY <1>1 DEF Waiting, TypeInv, Flow

LEMMA Outer ==
  ASSUME ServerWrites \/ ServerExits \/ RouteOverflow \/ Dispatcher
  PROVE  /\ UNCHANGED <<loop, clocks, boundary, lost, stranger>>
         /\ Route \/ UNCHANGED <<notes, running, finalQueued>>
BY DEF ServerWrites, StartsCommand, EndsCommand, Says, Asks, Write, ServerExits,
       RouteOverflow, Dispatcher, Route, DispatcherEnds, queues, hist

LEMMA MemoryStays ==
  ASSUME TypeInv, Next
  PROVE  /\ lost => lost'
         /\ stranger => stranger'
         /\ Final => Final'
         /\ pc' = "done" => Final'
<1>1. CASE ServerWrites \/ ServerExits \/ RouteOverflow \/ Dispatcher
  BY <1>1, Outer, WaitGoesOn DEF loop, Final
<1>2. CASE CtrlC \/ Loop
  <2>1. (lost => lost') /\ (stranger => stranger')
    <3>1. CASE CtrlC
      <4>1. lost' = lost \/ lost' = (lost \/ batch # <<>>)
        BY <3>1 DEF CtrlC
      <4>2. stranger' = stranger
        BY <3>1 DEF CtrlC
      <4>3. lost \in BOOLEAN
        BY DEF TypeInv, TypeOK
      <4>4. lost => lost'
        BY <4>1, <4>3, Zenon
      <4> QED BY <4>2, <4>4
    <3>2. CASE HandleRequest
      BY <3>2 DEF HandleRequest
    <3>3. CASE Loop /\ ~HandleRequest
      <4>1. UNCHANGED <<lost, stranger>>
        BY <3>3 DEF Loop, DrainRequests, DrainNotes, HandleNote, AfterTop,
             AfterLiveness, JoinAndDrain, AfterDead, Decide, Sleep, AfterBoundary,
             TimeoutInterrupts, GraceSleep, AfterGrace, RaiseTimeout, FirstInterrupt,
             hist
      <4> QED BY <4>1
    <3> QED BY <1>2, <3>1, <3>2, <3>3
  <2>2. Final => Final'
    BY <1>2 DEF CtrlC, Loop, DrainRequests, HandleRequest, DrainNotes, HandleNote,
         AfterTop, AfterLiveness, JoinAndDrain, AfterDead, Decide, Sleep, AfterBoundary,
         TimeoutInterrupts, GraceSleep, AfterGrace, RaiseTimeout, FirstInterrupt, End,
         Final
  <2>3. pc' = "done" => Final'
    BY <1>2, WaitGoesOn
       DEF CtrlC, Loop, DrainRequests, HandleRequest, DrainNotes, HandleNote,
         AfterTop, AfterLiveness, JoinAndDrain, AfterDead, Decide, Sleep, AfterBoundary,
         TimeoutInterrupts, GraceSleep, AfterGrace, RaiseTimeout, FirstInterrupt, End,
         GoTo, Final
  <2> QED BY <2>1, <2>2, <2>3
<1> QED BY <1>1, <1>2 DEF Next

(* What a step does to the messages not yet handled: routing adds one at the *)
(* end, handling takes one from the front, and nothing else touches them but *)
(* a Ctrl+C, which forgets them, and the end of the wait.                    *)
LEMMA PendingRouted ==
  ASSUME TypeInv, Route
  PROVE  /\ Pending \in Seq(Lines) /\ Head(pipe) \in Lines
         /\ \/ Pending' = Append(Pending, Head(pipe))
            \/ Pending' = Pending /\ Head(pipe).t = "ask"
<1>1. /\ pipe \in Seq(Lines) /\ pipe # <<>> /\ notes \in Seq(Lines) /\ batch \in Seq(Lines)
      /\ UNCHANGED <<pc, batch>>
  BY DEF TypeInv, QueuesOK, Route, loop
<1>2. Head(pipe) \in Lines
  BY <1>1
<1>3. CASE Head(pipe).t = "ask"
  BY <1>1, <1>2, <1>3 DEF Route, Pending
<1>4. CASE Head(pipe).t # "ask"
  <2>1. notes' = Append(notes, Head(pipe))
    BY <1>4 DEF Route
  <2>2. batch \o Append(notes, Head(pipe)) = Append(batch \o notes, Head(pipe))
    BY <1>1, <1>2
  <2>3. <<>> \o Append(notes, Head(pipe)) = Append(<<>> \o notes, Head(pipe))
    BY <1>1, <1>2
  <2>4. Pending \in Seq(Lines)
    BY <1>1 DEF Pending
  <2>5. CASE pc = "notes"
    <3>1. pc' = "notes" /\ batch' = batch
      BY <1>1, <2>5
    <3> QED BY <1>2, <2>1, <2>2, <2>4, <2>5, <3>1 DEF Pending
  <2>6. CASE pc # "notes"
    <3>1. pc' # "notes"
      BY <1>1, <2>6
    <3> QED BY <1>2, <2>1, <2>3, <2>4, <2>6, <3>1 DEF Pending
  <2> QED BY <2>5, <2>6
<1> QED BY <1>3, <1>4

LEMMA PendingHandled ==
  ASSUME TypeInv, HandleNote
  PROVE  /\ Pending \in Seq(Lines) /\ Pending # <<>> /\ Pending' = Tail(Pending)
         /\ batch \in Seq(Lines) /\ batch # <<>> /\ batch' = Tail(batch)
         /\ Head(batch) = Pending[1] /\ Head(batch) = batch[1] /\ Head(batch) \in Lines
<1>1. /\ notes \in Seq(Lines) /\ batch \in Seq(Lines) /\ batch # <<>>
      /\ batch' = Tail(batch) /\ notes' = notes /\ pc = "notes" /\ pc' = pc
  BY DEF TypeInv, QueuesOK, HandleNote, queues
<1>2. Tail(batch) \o notes = Tail(batch \o notes)
  BY <1>1
<1>3. (batch \o notes)[1] = batch[1] /\ batch \o notes # <<>> /\ Head(batch) = batch[1]
  BY <1>1
<1> QED BY <1>1, <1>2, <1>3 DEF Pending

LEMMA PendingKept ==
  ASSUME TypeInv, Next, ~Route, ~HandleNote, ~lost', pc' # "done"
  PROVE  Pending' = Pending /\ UNCHANGED <<running, finalQueued, active_work_items>>
<1>1. /\ notes \in Seq(Lines) /\ batch \in Seq(Lines)
      /\ pc \notin {"requests", "notes", "done"} => batch = <<>>
  BY DEF TypeInv, QueuesOK
<1>2. CASE ServerWrites \/ ServerExits \/ RouteOverflow \/ Dispatcher
  BY <1>2, Outer DEF Pending, loop, memo
<1>3. CASE CtrlC \/ Loop
  <2>1. UNCHANGED <<running, finalQueued, active_work_items>>
    BY <1>3 DEF CtrlC, Loop, DrainRequests, HandleRequest, DrainNotes,
         AfterTop, AfterLiveness, JoinAndDrain, AfterDead, Decide, Sleep, AfterBoundary,
         TimeoutInterrupts, GraceSleep, AfterGrace, RaiseTimeout, FirstInterrupt, hist,
         memo
  <2>2. CASE DrainNotes
    <3>1. pc = "requests" /\ batch' = notes /\ notes' = <<>> /\ pc' = "notes"
      BY <2>2 DEF DrainNotes, GoTo
    <3>2. notes \o <<>> = notes /\ <<>> \o notes = notes
      BY <1>1
    <3> QED BY <2>1, <3>1, <3>2 DEF Pending
  <2>3. CASE ~DrainNotes
    <3>1. notes' = notes /\ pc' # "notes"
      BY <1>3, <2>3 DEF CtrlC, Loop, DrainRequests, HandleRequest,
         AfterTop, AfterLiveness, JoinAndDrain, AfterDead, Decide, Sleep, AfterBoundary,
         TimeoutInterrupts, GraceSleep, AfterGrace, RaiseTimeout, FirstInterrupt, End,
         GoTo, Drained, queues
    <3>2. pc = "notes" => batch = <<>>
      BY <1>3, <2>3 DEF CtrlC, Loop, DrainRequests, HandleRequest,
         AfterTop, AfterLiveness, JoinAndDrain, AfterDead, Decide, Sleep, AfterBoundary,
         TimeoutInterrupts, GraceSleep, AfterGrace, RaiseTimeout, FirstInterrupt, End,
         GoTo, Drained
    <3> QED BY <2>1, <3>1, <3>2 DEF Pending
  <2> QED BY <2>2, <2>3
<1> QED BY <1>2, <1>3 DEF Next
------------------------------------------------------------------------------
(* A turn/completed in the client's queue is not forgotten: not by the loop, *)
(* not by the drain before a timeout, and not by a dispatcher that has ended.*)
FinalKnown == ~lost /\ finalQueued => Final \/ HasFinal(Pending)
FinalAtBoundary ==
  /\ ~lost /\ boundary.final => Final \/ (pc = "notes" /\ HasFinal(batch))
  /\ ~lost /\ TimedOut => ~boundary.final
DeadIsDrained ==
  from \in {"topDead", "graceDead"} /\ ~dispatcher_alive_after_join =>
    /\ pc \in {"drain", "requests", "notes"} => ~reading
    /\ pc = "notes" => notes = <<>>

LEMMA FinalKnownStep ==
  ASSUME TypeInv, FinalKnown, Next
  PROVE  FinalKnown'
<1> SUFFICES ASSUME ~lost', finalQueued', ~Final'
             PROVE  HasFinal(Pending')
  BY DEF FinalKnown, HasFinal
<1>1. ~lost /\ ~Final /\ pc' # "done"
  BY MemoryStays
<1>2. finalQueued => HasFinal(Pending)
  BY <1>1 DEF FinalKnown
<1>3. CASE Route
  <2>1. finalQueued \/ Head(pipe).t = "completed"
    BY <1>3 DEF Route
  <2>2. CASE Pending' = Pending /\ Head(pipe).t = "ask"
    BY <1>2, <2>1, <2>2
  <2>3. CASE Pending' = Append(Pending, Head(pipe))
    <3>1. Pending \in Seq(Lines) /\ Head(pipe) \in Lines
      BY <1>3, PendingRouted
    <3>2. /\ Len(Pending') = Len(Pending) + 1 /\ Len(Pending) \in Nat
          /\ \A i \in 1 .. Len(Pending) : Pending'[i] = Pending[i]
          /\ Pending'[Len(Pending) + 1] = Head(pipe)
      BY <2>3, <3>1
    <3> QED BY <1>2, <2>1, <3>2 DEF HasFinal
  <2> QED BY <1>3, <2>2, <2>3, PendingRouted
<1>4. CASE HandleNote
  <2>1. /\ Pending \in Seq(Lines) /\ Pending # <<>> /\ Pending' = Tail(Pending)
        /\ Head(batch) = Pending[1]
    BY <1>4, PendingHandled
  <2>2. finalQueued /\ Pending[1].t # "completed"
    BY <1>4, <2>1 DEF HandleNote, Final, hist
  <2>3. /\ Len(Pending') = Len(Pending) - 1 /\ Len(Pending) \in Nat
        /\ \A i \in 1 .. Len(Pending') : Pending'[i] = Pending[i + 1]
    BY <2>1
  <2>4. PICK i \in 1 .. Len(Pending) : Pending[i].t = "completed"
    BY <1>2, <2>2 DEF HasFinal
  <2>5. i # 1 /\ i - 1 \in 1 .. Len(Pending') /\ Pending'[i - 1] = Pending[i]
    BY <2>2, <2>3, <2>4
  <2> QED BY <2>4, <2>5 DEF HasFinal
<1>5. CASE ~Route /\ ~HandleNote
  BY <1>1, <1>2, <1>5, PendingKept
<1> QED BY <1>3, <1>4, <1>5

(* At the end of a drain the batch is empty, and nothing final was in it. *)
LEMMA FinalAtBoundaryStep ==
  ASSUME TypeInv, FinalKnown, FinalAtBoundary, Next
  PROVE  FinalAtBoundary'
<1>1. CASE ServerWrites \/ ServerExits \/ RouteOverflow \/ Dispatcher
  BY <1>1, Outer DEF FinalAtBoundary, TimedOut, HasFinal, Final, loop
<1>2. CASE HandleNote
  <2>1. /\ UNCHANGED <<pc, from, boundary, lost>> /\ pc = "notes"
        /\ status' = status \/ Final'
        /\ Head(batch).t = "completed" => Final'
    BY <1>2 DEF HandleNote, hist, Final
  <2>2. ASSUME ~Final', HasFinal(batch)
        PROVE  HasFinal(batch')
    <3>1. batch \in Seq(Lines) /\ batch # <<>> /\ batch' = Tail(batch) /\ Head(batch) = batch[1]
      BY <1>2, PendingHandled
    <3>2. PICK i \in 1 .. Len(batch) : batch[i].t = "completed"
      BY <2>2 DEF HasFinal
    <3>3. i # 1 /\ i - 1 \in 1 .. Len(batch') /\ batch'[i - 1] = batch[i]
      BY <2>1, <2>2, <3>1, <3>2
    <3> QED BY <3>2, <3>3 DEF HasFinal
  <2> QED BY <2>1, <2>2, MemoryStays DEF FinalAtBoundary, TimedOut
<1>3. CASE DrainNotes
  <2>1. /\ pc = "requests" /\ pc' = "notes" /\ batch' = notes /\ UNCHANGED <<from, status, lost>>
        /\ boundary' = boundary \/ (boundary'.final = finalQueued /\ from = "boundary")
    BY <1>3 DEF DrainNotes, GoTo
  <2>2. Pending = notes
    BY <2>1 DEF Pending, TypeInv, QueuesOK
  <2>3. ~TimedOut' \/ boundary' = boundary
    BY <2>1 DEF TimedOut
  <2>4. ~lost' /\ boundary'.final /\ ~Final' => HasFinal(batch')
    BY <2>1, <2>2 DEF FinalAtBoundary, FinalKnown, Final, HasFinal
  <2> QED BY <2>1, <2>3, <2>4 DEF FinalAtBoundary, TimedOut
<1>4. CASE CtrlC \/ (Loop /\ ~HandleNote /\ ~DrainNotes)
  <2>1. boundary' = boundary \/ boundary' = NoBoundary
    BY <1>4 DEF CtrlC, Loop, DrainRequests, HandleRequest,
         AfterTop, AfterLiveness, JoinAndDrain, AfterDead, Decide, Sleep, AfterBoundary,
         TimeoutInterrupts, GraceSleep, AfterGrace, RaiseTimeout, FirstInterrupt, hist
  <2>2. batch = <<>> \/ lost' \/ pc # "notes" \/ pc' = "done"
    BY <1>4 DEF CtrlC, Loop, DrainRequests, HandleRequest,
         AfterTop, AfterLiveness, JoinAndDrain, AfterDead, Decide, Sleep, AfterBoundary,
         TimeoutInterrupts, GraceSleep, AfterGrace, RaiseTimeout, FirstInterrupt, Drained,
         End, GoTo
  <2>3. ~HasFinal(<<>>)
    BY DEF HasFinal
  <2>4. ~NoBoundary.final
    BY DEF NoBoundary
  <2>5. ~lost' /\ boundary'.final => Final'
    <3>1. SUFFICES ASSUME ~lost', boundary'.final, ~Final'
                   PROVE  FALSE
      OBVIOUS
    <3>2. ~lost /\ ~Final /\ pc' # "done" /\ boundary.final
      BY <2>1, <2>4, <3>1, MemoryStays
    <3> QED BY <2>2, <2>3, <3>1, <3>2 DEF FinalAtBoundary
  <2>6. TimedOut' => TimedOut \/ (~Final /\ pc = "notes" /\ batch = <<>>)
    BY <1>4, WaitGoesOn
       DEF CtrlC, Loop, DrainRequests, HandleRequest,
         AfterTop, AfterLiveness, JoinAndDrain, AfterDead, Decide, Sleep, AfterBoundary,
         TimeoutInterrupts, GraceSleep, AfterGrace, RaiseTimeout, FirstInterrupt, Drained,
         End, GoTo, TimedOut, Final, TypeInv, Flow
  <2>7. ~lost' /\ TimedOut' => ~boundary'.final
    <3>1. SUFFICES ASSUME ~lost', TimedOut', boundary'.final
                   PROVE  FALSE
      OBVIOUS
    <3>2. ~lost /\ boundary.final
      BY <2>1, <2>4, <3>1, MemoryStays
    <3>3. ~Final /\ batch = <<>>
      BY <2>6, <3>1, <3>2 DEF FinalAtBoundary
    <3> QED BY <2>3, <3>2, <3>3 DEF FinalAtBoundary
  <2> QED BY <2>5, <2>7 DEF FinalAtBoundary
<1> QED BY <1>1, <1>2, <1>3, <1>4 DEF Next

(* A dispatcher that had ended when it was joined has left what it read. *)
LEMMA DeadIsDrainedStep ==
  ASSUME TypeInv, DeadIsDrained, Next
  PROVE  DeadIsDrained'
<1>1. CASE ServerWrites \/ ServerExits \/ RouteOverflow \/ Dispatcher
  <2>1. UNCHANGED <<pc, from, dispatcher_alive_after_join>>
    BY <1>1, Outer DEF loop, memo
  <2>2. reading' => reading
    BY <1>1 DEF ServerWrites, StartsCommand, EndsCommand, Says, Asks, Write, ServerExits,
                RouteOverflow, Dispatcher, Route, DispatcherEnds
  <2>3. ~reading => notes' = notes
    BY <1>1, Outer DEF Route
  <2> QED BY <2>1, <2>2, <2>3 DEF DeadIsDrained
<1>2. CASE CtrlC \/ (Loop /\ ~DrainNotes /\ ~JoinAndDrain)
  <2>1. UNCHANGED <<reading, notes, dispatcher_alive_after_join>>
    BY <1>2 DEF CtrlC, Loop, DrainRequests, HandleRequest, HandleNote,
         AfterTop, AfterLiveness, AfterDead, Decide, Sleep, AfterBoundary,
         TimeoutInterrupts, GraceSleep, AfterGrace, RaiseTimeout, FirstInterrupt,
         server, queues, memo
  <2>2. \/ from' \notin {"topDead", "graceDead"} \/ pc' \notin {"drain", "requests", "notes"}
        \/ /\ from' = from /\ pc' \in {pc, "requests"}
           /\ pc \in {"drain", "requests", "notes"}
    BY <1>2 DEF CtrlC, Loop, DrainRequests, HandleRequest, HandleNote,
         AfterTop, AfterLiveness, AfterDead, Decide, Sleep, AfterBoundary,
         TimeoutInterrupts, GraceSleep, AfterGrace, RaiseTimeout, FirstInterrupt,
         End, GoTo, Drained
  <2> QED BY <2>1, <2>2 DEF DeadIsDrained
<1>3. CASE DrainNotes
  BY <1>3 DEF DrainNotes, GoTo, DeadIsDrained, server, memo
<1>4. CASE JoinAndDrain
  BY <1>4 DEF JoinAndDrain, GoTo, DeadIsDrained, server
<1> QED BY <1>1, <1>2, <1>3, <1>4 DEF Next

LEMMA CompletionWinsStep ==
  ASSUME TypeInv, FinalKnown, FinalAtBoundary, DeadIsDrained, Next
  PROVE  CompletionWins'
<1>1. how = "waiting" /\ pc # "done"
  BY WaitGoesOn
<1>2. CASE ServerWrites \/ ServerExits \/ RouteOverflow \/ Dispatcher
  <2>1. how' = "waiting"
    BY <1>1, <1>2, Outer DEF loop
  <2> QED BY <2>1 DEF CompletionWins
<1>3. CASE RaiseTimeout
  <2>1. UNCHANGED <<boundary, lost>> /\ TimedOut /\ how' # "died"
    BY <1>3 DEF RaiseTimeout, TimedOut, End, TypeInv, TypeOK, Flow, hist
  <2> QED BY <2>1 DEF CompletionWins, FinalAtBoundary
<1>4. CASE AfterDead
  <2>1. /\ how' \in {"waiting", "returned", "died"}
        /\ how' = "died" => ~Final
        /\ UNCHANGED <<dispatcher_alive_after_join, finalQueued, lost>>
        /\ pc = "notes" /\ batch = <<>> /\ from \in {"topDead", "graceDead"}
    BY <1>1, <1>4 DEF AfterDead, End, Drained, memo, hist
  <2>2. ~dispatcher_alive_after_join => notes = <<>>
    BY <2>1 DEF DeadIsDrained
  <2>3. Pending = batch \o notes
    BY <2>1 DEF Pending
  <2>4. ~dispatcher_alive_after_join => Pending = <<>>
    BY <2>1, <2>2, <2>3
  <2>5. ~HasFinal(<<>>)
    BY DEF HasFinal
  <2>6. ~lost /\ ~Final /\ ~dispatcher_alive_after_join => ~finalQueued
    BY <2>4, <2>5 DEF FinalKnown
  <2> QED BY <2>1, <2>6 DEF CompletionWins
<1>5. CASE CtrlC \/ (Loop /\ ~RaiseTimeout /\ ~AfterDead)
  <2>1. how' \in {"waiting", "returned", "overflow", "keyboard", "unanswered"}
    BY <1>1, <1>5 DEF CtrlC, Loop, DrainRequests, HandleRequest, DrainNotes, HandleNote,
         AfterTop, AfterLiveness, JoinAndDrain, Decide, Sleep, AfterBoundary,
         TimeoutInterrupts, GraceSleep, AfterGrace, FirstInterrupt, End
  <2> QED BY <2>1 DEF CompletionWins
<1> QED BY <1>2, <1>3, <1>4, <1>5 DEF Next

(* CHANGELOG.md:55 "a final completion-winning drain": a turn/completed that *)
(* is in the client's queue when the verdict is drawn up is never overruled  *)
(* by a timeout, nor by the death of a server whose dispatcher has ended. A  *)
(* wait that an unsendable answer ends has drawn up no such verdict.         *)
THEOREM CompletionDecides == Spec => []CompletionWins
<1> DEFINE IInv == FinalKnown /\ FinalAtBoundary /\ DeadIsDrained /\ CompletionWins
<1>1. Init => IInv
  BY DEF Init, FinalKnown, FinalAtBoundary, DeadIsDrained, CompletionWins, TimedOut,
         NoBoundary
<1>2. TypeInv /\ IInv /\ [Next]_vars => IInv'
  <2>1. ASSUME IInv, UNCHANGED vars PROVE IInv'
    BY <2>1 DEF FinalKnown, FinalAtBoundary, DeadIsDrained, CompletionWins, TimedOut,
                Final, Pending, HasFinal, vars, server, queues, loop, memo, hist
  <2> QED BY <2>1, FinalKnownStep, FinalAtBoundaryStep, DeadIsDrainedStep,
             CompletionWinsStep
<1>3. IInv => CompletionWins
  OBVIOUS
<1> HIDE DEF IInv
<1> QED BY <1>1, <1>2, <1>3, TypeCorrect, PTL DEF Spec
------------------------------------------------------------------------------
(* From its place i on, a queue holds the stop of a command. *)
StopFrom(s, i, w) == \E j \in i .. Len(s) : StopAt(s, j, w)
StartsLast(s, w) == \E i \in 1 .. Len(s) : StartAt(s, i, w) /\ ~StopFrom(s, i + 1, w)

(* The loop knows of each command that runs, or is about to: its start is
   among the messages not yet handled, and its stop is not. *)
WorkKnown ==
  ~lost /\ ~Final =>
    \A w \in running : \/ StartsLast(Pending, w)
                       \/ w \in active_work_items /\ ~StopFrom(Pending, 1, w)

(* And what it takes for work is running, or about to be known not to be. *)
WorkReal ==
  Waiting /\ ~lost =>
    /\ \A w \in active_work_items : w \in running \/ StopFrom(Pending, 1, w)
    /\ \A w \in Work : \A i \in 1 .. Len(Pending) :
         StartAt(Pending, i, w) => w \in running \/ StopFrom(Pending, i + 1, w)

(* A message is either the start or the stop of a command. *)
LEMMA QueueGrows ==
  ASSUME NEW s \in Seq(Lines), NEW e \in Lines, NEW w
  PROVE  LET s2 == Append(s, e)
             n == Len(s) + 1
         IN /\ Len(s2) = n /\ n \in Nat \ {0}
            /\ s2 \in Seq(Lines)
            /\ \A i \in 1 .. Len(s) : StartAt(s2, i, w) <=> StartAt(s, i, w)
            /\ StartAt(s2, n, w) <=> e.t = "start" /\ e.w = w
            /\ \A i \in 1 .. n : StopFrom(s2, i, w)
                                   <=> StopFrom(s, i, w) \/ (e.t = "stop" /\ e.w = w)
            /\ ~StopFrom(s2, n + 1, w)
<1> DEFINE s2 == Append(s, e)
<1>1. /\ s2 \in Seq(Lines) /\ Len(s) \in Nat /\ Len(s2) = Len(s) + 1
      /\ \A i \in 1 .. Len(s) : s2[i] = s[i]
      /\ s2[Len(s) + 1] = e
  OBVIOUS
<1> HIDE DEF s2
<1>2. \A i \in 1 .. Len(s) + 1 :
        StopFrom(s2, i, w) <=> StopFrom(s, i, w) \/ (e.t = "stop" /\ e.w = w)
  <2> TAKE i \in 1 .. Len(s) + 1
  <2>1. ASSUME StopFrom(s2, i, w) PROVE StopFrom(s, i, w) \/ (e.t = "stop" /\ e.w = w)
    <3>1. PICK j \in i .. Len(s2) : StopAt(s2, j, w)
      BY <2>1 DEF StopFrom
    <3>2. CASE j \in i .. Len(s)
      <4>1. s2[j] = s[j]
        BY <1>1, <3>2
      <4> QED BY <3>1, <3>2, <4>1 DEF StopFrom, StopAt
    <3>3. CASE j = Len(s) + 1
      BY <1>1, <3>1, <3>3 DEF StopAt
    <3> QED BY <1>1, <3>1, <3>2, <3>3
  <2>2. ASSUME StopFrom(s, i, w) PROVE StopFrom(s2, i, w)
    <3>1. PICK j \in i .. Len(s) : StopAt(s, j, w)
      BY <2>2 DEF StopFrom
    <3>2. j \in i .. Len(s2) /\ s2[j] = s[j]
      BY <1>1, <3>1
    <3> QED BY <3>1, <3>2 DEF StopFrom, StopAt
  <2>3. ASSUME e.t = "stop", e.w = w PROVE StopFrom(s2, i, w)
    <3>1. Len(s) + 1 \in i .. Len(s2)
      BY <1>1
    <3> QED BY <1>1, <2>3, <3>1 DEF StopFrom, StopAt
  <2> QED BY <2>1, <2>2, <2>3
<1>3. ~StopFrom(s2, Len(s) + 1 + 1, w)
  BY <1>1 DEF StopFrom
<1>4. /\ \A i \in 1 .. Len(s) : StartAt(s2, i, w) <=> StartAt(s, i, w)
      /\ StartAt(s2, Len(s) + 1, w) <=> e.t = "start" /\ e.w = w
  BY <1>1 DEF StartAt
<1> QED BY <1>1, <1>2, <1>3, <1>4 DEF s2

LEMMA QueueShrinks ==
  ASSUME NEW s \in Seq(Lines), s # <<>>, NEW w
  PROVE  /\ Len(Tail(s)) = Len(s) - 1 /\ Len(s) \in Nat \ {0}
         /\ \A i \in 1 .. Len(s) - 1 : StartAt(Tail(s), i, w) <=> StartAt(s, i + 1, w)
         /\ \A i \in 1 .. Len(s) : StopFrom(Tail(s), i, w) <=> StopFrom(s, i + 1, w)
         /\ StopFrom(s, 1, w) <=> StopFrom(s, 2, w) \/ (s[1].t = "stop" /\ s[1].w = w)
<1> DEFINE r == Tail(s)
<1>1. /\ Len(s) \in Nat \ {0} /\ Len(r) = Len(s) - 1
      /\ \A i \in 1 .. Len(s) - 1 : r[i] = s[i + 1]
  OBVIOUS
<1> HIDE DEF r
<1>2. \A i \in 1 .. Len(s) : StopFrom(r, i, w) <=> StopFrom(s, i + 1, w)
  <2> TAKE i \in 1 .. Len(s)
  <2>1. ASSUME StopFrom(r, i, w) PROVE StopFrom(s, i + 1, w)
    <3>1. PICK j \in i .. Len(r) : StopAt(r, j, w)
      BY <2>1 DEF StopFrom
    <3>2. j + 1 \in i + 1 .. Len(s) /\ s[j + 1] = r[j]
      BY <1>1, <3>1
    <3> QED BY <3>1, <3>2 DEF StopFrom, StopAt
  <2>2. ASSUME StopFrom(s, i + 1, w) PROVE StopFrom(r, i, w)
    <3>1. PICK j \in i + 1 .. Len(s) : StopAt(s, j, w)
      BY <2>2 DEF StopFrom
    <3>2. j - 1 \in i .. Len(r) /\ j - 1 \in 1 .. Len(s) - 1 /\ (j - 1) + 1 = j
      BY <1>1, <3>1
    <3>3. s[j] = r[j - 1]
      BY <1>1, <3>2
    <3> QED BY <3>1, <3>2, <3>3 DEF StopFrom, StopAt
  <2> QED BY <2>1, <2>2
<1>3. StopFrom(s, 1, w) <=> StopFrom(s, 2, w) \/ StopAt(s, 1, w)
  <2>1. 1 .. Len(s) = {1} \cup (2 .. Len(s))
    BY <1>1
  <2> QED BY <2>1 DEF StopFrom
<1>4. \A i \in 1 .. Len(s) - 1 : StartAt(r, i, w) <=> StartAt(s, i + 1, w)
  BY <1>1 DEF StartAt
<1> QED BY <1>1, <1>2, <1>3, <1>4 DEF r, StopAt

LEMMA WorkKnownStep ==
  ASSUME TypeInv, WorkKnown, Next
  PROVE  WorkKnown'
<1> SUFFICES ASSUME ~lost', ~Final', NEW w \in running'
             PROVE  \/ StartsLast(Pending', w)
                    \/ w \in active_work_items' /\ ~StopFrom(Pending', 1, w)
  BY DEF WorkKnown, StartsLast, StopFrom, StartAt, StopAt
<1>1. ~lost /\ ~Final /\ pc' # "done"
  BY MemoryStays
<1>2. w \in running => \/ StartsLast(Pending, w)
                       \/ w \in active_work_items /\ ~StopFrom(Pending, 1, w)
  BY <1>1 DEF WorkKnown
<1>3. CASE Route
  <2> DEFINE e == Head(pipe)
  <2>1. /\ Pending \in Seq(Lines) /\ e \in Lines
        /\ Pending' = Append(Pending, e) \/ (Pending' = Pending /\ e.t = "ask")
    BY <1>3, PendingRouted
  <2>2. active_work_items' = active_work_items
    BY <1>3 DEF Route, loop, memo
  <2>3. /\ w \in running \/ (e.t = "start" /\ e.w = w)
        /\ ~(e.t = "stop" /\ e.w = w)
    BY <1>3, RouteRuns
  <2> HIDE DEF e
  <2>4. CASE Pending' = Pending /\ e.t = "ask"
    BY <1>2, <2>2, <2>3, <2>4
  <2>5. CASE Pending' = Append(Pending, e)
    <3> DEFINE n == Len(Pending) + 1
    <3>1. /\ Len(Pending') = n /\ n \in Nat \ {0}
          /\ \A i \in 1 .. Len(Pending) : StartAt(Pending', i, w) <=> StartAt(Pending, i, w)
          /\ StartAt(Pending', n, w) <=> e.t = "start" /\ e.w = w
          /\ \A i \in 1 .. n : StopFrom(Pending', i, w)
                                 <=> StopFrom(Pending, i, w) \/ (e.t = "stop" /\ e.w = w)
          /\ ~StopFrom(Pending', n + 1, w)
      BY <2>1, <2>5, QueueGrows
    <3>2. CASE e.t = "start" /\ e.w = w
      <4>1. n \in 1 .. Len(Pending')
        BY <3>1
      <4> HIDE DEF n
      <4> QED BY <3>1, <3>2, <4>1 DEF StartsLast
    <3>3. CASE StartsLast(Pending, w)
      <4>1. PICK i \in 1 .. Len(Pending) : StartAt(Pending, i, w) /\ ~StopFrom(Pending, i + 1, w)
        BY <3>3 DEF StartsLast
      <4>2. i \in 1 .. Len(Pending') /\ i + 1 \in 1 .. n
        BY <3>1
      <4>3. StartAt(Pending', i, w) /\ ~StopFrom(Pending', i + 1, w)
        BY <2>3, <3>1, <4>1, <4>2
      <4> QED BY <4>2, <4>3 DEF StartsLast
    <3>4. CASE w \in active_work_items /\ ~StopFrom(Pending, 1, w)
      <4>1. 1 \in 1 .. n
        BY <3>1
      <4>2. ~StopFrom(Pending', 1, w)
        BY <2>3, <3>1, <3>4, <4>1
      <4> QED BY <2>2, <3>4, <4>2
    <3> QED BY <1>2, <2>3, <3>2, <3>3, <3>4
  <2> QED BY <2>1, <2>4, <2>5
<1>4. CASE HandleNote
  <2> DEFINE e == Head(batch)
  <2>1. /\ Pending \in Seq(Lines) /\ Pending # <<>> /\ Pending' = Tail(Pending)
        /\ e = Pending[1] /\ e \in Lines
    BY <1>4, PendingHandled
  <2>2. w \in running /\ active_work_items' = WorkAfter(e)
    BY <1>4 DEF HandleNote, hist
  <2>3. ~TooMuch(e)
    BY <1>4 DEF HandleNote, Final
  <2>4. /\ e.t = "start" => active_work_items' = active_work_items \cup {e.w}
        /\ e.t = "stop" => active_work_items' = active_work_items \ {e.w}
        /\ e.t \notin {"start", "stop"} => active_work_items' = active_work_items
    BY <2>2, <2>3, WorkAfterNote
  <2> HIDE DEF e
  <2>5. /\ Len(Pending') = Len(Pending) - 1 /\ Len(Pending) \in Nat \ {0}
        /\ \A i \in 1 .. Len(Pending) - 1 : StartAt(Pending', i, w) <=> StartAt(Pending, i + 1, w)
        /\ \A i \in 1 .. Len(Pending) : StopFrom(Pending', i, w) <=> StopFrom(Pending, i + 1, w)
        /\ StopFrom(Pending, 1, w) <=> StopFrom(Pending, 2, w) \/ (e.t = "stop" /\ e.w = w)
    BY <2>1, QueueShrinks
  <2>6. StopFrom(Pending', 1, w) <=> StopFrom(Pending, 2, w)
    BY <2>5
  <2>7. CASE w \in active_work_items /\ ~StopFrom(Pending, 1, w)
    BY <2>4, <2>5, <2>6, <2>7, LineFields, <2>1
  <2>8. CASE StartsLast(Pending, w)
    <3>1. PICK i \in 1 .. Len(Pending) : StartAt(Pending, i, w) /\ ~StopFrom(Pending, i + 1, w)
      BY <2>8 DEF StartsLast
    <3>2. CASE i = 1
      <4>1. e.t = "start" /\ e.w = w
        BY <2>1, <3>1, <3>2 DEF StartAt
      <4> QED BY <2>4, <2>6, <3>1, <3>2, <4>1
    <3>3. CASE i # 1
      <4>1. i - 1 \in 1 .. Len(Pending) - 1 /\ (i - 1) + 1 = i /\ i \in 1 .. Len(Pending)
            /\ i - 1 \in 1 .. Len(Pending')
        BY <2>5, <3>3
      <4>2. StartAt(Pending', i - 1, w) <=> StartAt(Pending, i, w)
        BY <2>5, <4>1
      <4>3. StopFrom(Pending', i, w) <=> StopFrom(Pending, i + 1, w)
        BY <2>5, <4>1
      <4> QED BY <3>1, <4>1, <4>2, <4>3 DEF StartsLast
    <3> QED BY <3>2, <3>3
  <2> QED BY <1>2, <2>2, <2>7, <2>8
<1>5. CASE ~Route /\ ~HandleNote
  BY <1>1, <1>2, <1>5, PendingKept
<1> QED BY <1>3, <1>4, <1>5

LEMMA WorkRealStep ==
  ASSUME TypeInv, WorkReal, Next
  PROVE  WorkReal'
<1> SUFFICES ASSUME Waiting', ~lost', NEW w \in Work
             PROVE  /\ w \in active_work_items' =>
                         w \in running' \/ StopFrom(Pending', 1, w)
                    /\ \A i \in 1 .. Len(Pending') : StartAt(Pending', i, w) =>
                         w \in running' \/ StopFrom(Pending', i + 1, w)
  <2>1. TypeInv'
    BY TypeStep
  <2>2. active_work_items' \subseteq Work
    BY <2>1 DEF TypeInv, TypeOK
  <2> QED BY <2>2 DEF WorkReal, StopFrom, StartAt, StopAt
<1>1. ~lost /\ Waiting /\ pc' # "done"
  <2>1. TypeInv'
    BY TypeStep
  <2> QED BY <2>1, MemoryStays, WaitGoesOn DEF Waiting, TypeInv, Flow
<1>2. /\ w \in active_work_items => w \in running \/ StopFrom(Pending, 1, w)
      /\ \A i \in 1 .. Len(Pending) : StartAt(Pending, i, w) =>
           w \in running \/ StopFrom(Pending, i + 1, w)
  BY <1>1 DEF WorkReal
<1>3. CASE Route
  <2> DEFINE e == Head(pipe)
  <2>1. /\ Pending \in Seq(Lines) /\ e \in Lines
        /\ Pending' = Append(Pending, e) \/ (Pending' = Pending /\ e.t = "ask")
    BY <1>3, PendingRouted
  <2>2. active_work_items' = active_work_items
    BY <1>3 DEF Route, loop, memo
  <2>3. /\ w \in running /\ ~(e.t = "stop" /\ e.w = w) => w \in running'
        /\ e.t = "start" /\ e.w = w => w \in running'
    BY <1>3, RouteRuns
  <2> HIDE DEF e
  <2>4. CASE Pending' = Pending /\ e.t = "ask"
    BY <1>2, <2>2, <2>3, <2>4
  <2>5. CASE Pending' = Append(Pending, e)
    <3> DEFINE n == Len(Pending) + 1
    <3>1. /\ Len(Pending') = n /\ n \in Nat \ {0}
          /\ \A i \in 1 .. Len(Pending) : StartAt(Pending', i, w) <=> StartAt(Pending, i, w)
          /\ StartAt(Pending', n, w) <=> e.t = "start" /\ e.w = w
          /\ \A i \in 1 .. n : StopFrom(Pending', i, w)
                                 <=> StopFrom(Pending, i, w) \/ (e.t = "stop" /\ e.w = w)
      BY <2>1, <2>5, QueueGrows
    <3>2. ASSUME w \in active_work_items'
          PROVE  w \in running' \/ StopFrom(Pending', 1, w)
      <4>1. 1 \in 1 .. n
        BY <3>1
      <4> QED BY <1>2, <2>2, <2>3, <3>1, <3>2, <4>1
    <3>3. ASSUME NEW i \in 1 .. Len(Pending'), StartAt(Pending', i, w)
          PROVE  w \in running' \/ StopFrom(Pending', i + 1, w)
      <4>1. CASE i = n
        BY <2>3, <3>1, <3>3, <4>1
      <4>2. CASE i # n
        <5>1. i \in 1 .. Len(Pending) /\ i + 1 \in 1 .. n
          BY <3>1, <4>2
        <5> QED BY <1>2, <2>3, <3>1, <3>3, <5>1
      <4> QED BY <4>1, <4>2
    <3> QED BY <3>2, <3>3
  <2> QED BY <2>1, <2>4, <2>5
<1>4. CASE HandleNote
  <2> DEFINE e == Head(batch)
  <2>1. /\ Pending \in Seq(Lines) /\ Pending # <<>> /\ Pending' = Tail(Pending)
        /\ e = Pending[1] /\ e \in Lines
    BY <1>4, PendingHandled
  <2>2. running' = running /\ active_work_items' = WorkAfter(e)
    BY <1>4 DEF HandleNote, hist
  <2>3. /\ e.t = "start" => active_work_items' \subseteq active_work_items \cup {e.w}
        /\ e.t = "stop" => active_work_items' = active_work_items \ {e.w}
        /\ e.t \notin {"start", "stop"} => active_work_items' = active_work_items
    BY <2>2, WorkAfterNote DEF TooMuch
  <2> HIDE DEF e
  <2>4. /\ Len(Pending') = Len(Pending) - 1 /\ Len(Pending) \in Nat \ {0}
        /\ \A i \in 1 .. Len(Pending) - 1 : StartAt(Pending', i, w) <=> StartAt(Pending, i + 1, w)
        /\ \A i \in 1 .. Len(Pending) : StopFrom(Pending', i, w) <=> StopFrom(Pending, i + 1, w)
        /\ StopFrom(Pending, 1, w) <=> StopFrom(Pending, 2, w) \/ (e.t = "stop" /\ e.w = w)
    BY <2>1, QueueShrinks
  <2>5. StopFrom(Pending', 1, w) <=> StopFrom(Pending, 2, w)
    BY <2>4
  <2>6. ASSUME w \in active_work_items'
        PROVE  w \in running' \/ StopFrom(Pending', 1, w)
    <3>1. CASE e.t = "start" /\ e.w = w
      <4>1. StartAt(Pending, 1, w) /\ 1 \in 1 .. Len(Pending)
        BY <2>1, <2>4, <3>1 DEF StartAt
      <4>2. w \in running \/ StopFrom(Pending, 2, w)
        BY <1>2, <4>1
      <4> QED BY <2>2, <2>5, <4>2
    <3>2. CASE ~(e.t = "start" /\ e.w = w)
      <4>1. w \in active_work_items /\ ~(e.t = "stop" /\ e.w = w)
        BY <2>3, <2>6, <3>2
      <4> QED BY <1>2, <2>2, <2>4, <2>5, <4>1
    <3> QED BY <3>1, <3>2
  <2>7. ASSUME NEW i \in 1 .. Len(Pending'), StartAt(Pending', i, w)
        PROVE  w \in running' \/ StopFrom(Pending', i + 1, w)
    <3>1. i + 1 \in 1 .. Len(Pending) /\ i \in 1 .. Len(Pending) - 1
      BY <2>4
    <3>2. StartAt(Pending, i + 1, w)
      BY <2>4, <2>7, <3>1
    <3>3. StopFrom(Pending', i + 1, w) <=> StopFrom(Pending, (i + 1) + 1, w)
      BY <2>4, <3>1
    <3> QED BY <1>2, <2>2, <3>1, <3>2, <3>3
  <2> QED BY <2>6, <2>7
<1>5. CASE ~Route /\ ~HandleNote
  BY <1>1, <1>2, <1>5, PendingKept
<1> QED BY <1>3, <1>4, <1>5

(* The drain before an idle timeout finds no active command, and a command   *)
(* that runs all the same has its start in that drain, where it is activity. *)
WorkAtBoundary ==
  /\ timeout_kind = "idle" /\ from = "boundary" /\ pc \in {"drain", "requests"}
       => active_work_items = {}
  /\ timeout_kind = "idle" /\ from = "boundary" /\ pc = "notes"
       /\ ~lost /\ ~Final /\ ~activity /\ boundary.running # {}
       => \E i \in 1 .. Len(batch) : batch[i].t = "start"
  /\ timeout_kind = "idle" /\ TimedOut /\ ~lost => boundary.running = {}
  /\ pc = "sleep" /\ quiet >= Idle => active_work_items # {}

LEMMA WorkAtBoundaryStep ==
  ASSUME TypeInv, WorkKnown, WorkAtBoundary, Next
  PROVE  WorkAtBoundary'
<1>1. CASE ServerWrites \/ ServerExits \/ RouteOverflow \/ Dispatcher
  BY <1>1, Outer DEF WorkAtBoundary, TimedOut, Final, loop, memo, clocks
<1>2. CASE DrainNotes
  <2>1. /\ pc = "requests" /\ pc' = "notes" /\ batch' = notes
        /\ UNCHANGED <<from, status, lost, timeout_kind, running, active_work_items>>
        /\ from = "boundary" => boundary'.running = running
        /\ from # "boundary" => boundary' = boundary
    BY <1>2 DEF DrainNotes, GoTo, memo
  <2>2. Pending = notes
    BY <2>1 DEF Pending, TypeInv, QueuesOK
  <2>3. ASSUME timeout_kind' = "idle", from' = "boundary", ~lost', ~Final',
               boundary'.running # {}
        PROVE  \E i \in 1 .. Len(batch') : batch'[i].t = "start"
    <3>1. active_work_items = {}
      BY <2>1, <2>3 DEF WorkAtBoundary
    <3>2. PICK w \in running : TRUE
      BY <2>1, <2>3
    <3>3. StartsLast(Pending, w)
      BY <2>1, <2>3, <3>1, <3>2 DEF WorkKnown, Final
    <3> QED BY <2>1, <2>2, <3>3 DEF StartsLast, StartAt
  <2>4. TimedOut' => TimedOut /\ boundary' = boundary
    BY <2>1 DEF TimedOut
  <2> QED BY <2>1, <2>3, <2>4 DEF WorkAtBoundary
<1>3. CASE HandleNote
  <2> DEFINE e == Head(batch)
  <2>1. /\ UNCHANGED <<pc, from, boundary, lost, timeout_kind>> /\ pc = "notes"
        /\ activity' = (activity \/ Meaningful(e))
        /\ status' = status \/ Final'
        /\ TooMuch(e) => Final'
    BY <1>3 DEF HandleNote, hist, Final
  <2>2. /\ batch \in Seq(Lines) /\ batch # <<>> /\ batch' = Tail(batch) /\ e = batch[1]
        /\ activity \in BOOLEAN
    BY <1>3, PendingHandled DEF TypeInv, TypeOK
  <2>3. ASSUME ~Final', ~activity', NEW i \in 1 .. Len(batch), batch[i].t = "start"
        PROVE  \E k \in 1 .. Len(batch') : batch'[k].t = "start"
    <3>1. ~Meaningful(e) /\ ~TooMuch(e)
      BY <2>1, <2>3
    <3>2. i # 1
      BY <2>2, <2>3, <3>1 DEF Meaningful
    <3>3. i - 1 \in 1 .. Len(batch') /\ batch'[i - 1] = batch[i]
      BY <2>2, <3>2
    <3> QED BY <2>3, <3>3
  <2>4. ~Final' => ~Final
    BY <1>3, MemoryStays
  <2>5. ~activity' => ~activity
    BY <2>1, <2>2
  <2> QED BY <2>1, <2>3, <2>4, <2>5 DEF WorkAtBoundary, TimedOut
<1>4. CASE Decide
  <2>1. /\ pc = "decide" /\ from = "top" /\ UNCHANGED <<active_work_items, quiet, boundary, lost>>
        /\ quiet \in 0 .. idle /\ idle \in 0 .. Idle /\ Idle \in Nat
        /\ active \in Nat /\ Hard \in Nat
    BY <1>4, TurnLoopAssumption DEF Decide, memo, clocks, hist, TypeInv, TypeOK, Flow
  <2>2. CASE \E kind \in {"idle", "hard"} :
               TimeoutDue(kind) /\ timeout_kind' = kind /\ from' = "boundary" /\ pc' = "drain"
    BY <2>1, <2>2 DEF TimeoutDue, WorkAtBoundary, TimedOut
  <2>3. CASE NoTimeoutDue /\ from' = from /\ pc' \in {"done", "sleep"}
    <3>1. pc' = "sleep" /\ quiet >= Idle => active_work_items # {}
      <4>1. quiet >= Idle => idle >= Idle
        BY <2>1
      <4>2. ~(active >= Hard) => active < Hard
        BY <2>1
      <4> QED BY <2>3, <4>1, <4>2 DEF NoTimeoutDue, TimeoutDue
    <3> QED BY <2>1, <2>3, <3>1 DEF WorkAtBoundary, TimedOut
  <2> QED BY <1>4, <2>2, <2>3 DEF Decide, End, GoTo
<1>5. CASE AfterBoundary
  <2>1. pc = "notes" /\ batch = <<>> /\ from = "boundary" /\ UNCHANGED <<active_work_items, lost>>
    BY <1>5 DEF AfterBoundary, Drained, memo
  <2>2. CASE pc' \in {"done", "drain"} /\ (from' = "top" \/ (pc' = "done" /\ from' = from))
    BY <2>1, <2>2 DEF WorkAtBoundary, TimedOut
  <2>3. CASE /\ pc' = "interrupt" /\ UNCHANGED <<from, timeout_kind, boundary>>
             /\ ~Final /\ ~(activity /\ timeout_kind = "idle")
    <3>1. ~(\E i \in 1 .. Len(batch) : batch[i].t = "start")
      BY <2>1
    <3>2. timeout_kind = "idle" /\ ~lost => boundary.running = {}
      BY <2>1, <2>3, <3>1 DEF WorkAtBoundary
    <3> QED BY <2>1, <2>3, <3>2 DEF WorkAtBoundary
  <2> QED BY <1>5, <2>2, <2>3 DEF AfterBoundary, End, GoTo
<1>6. CASE CtrlC \/ DrainRequests \/ HandleRequest \/ AfterTop \/ AfterLiveness
           \/ JoinAndDrain \/ AfterDead \/ Sleep \/ TimeoutInterrupts \/ GraceSleep
           \/ AfterGrace \/ RaiseTimeout \/ FirstInterrupt
  <2>1. UNCHANGED <<boundary, timeout_kind, active_work_items>>
    BY <1>6 DEF CtrlC, DrainRequests, HandleRequest, AfterTop, AfterLiveness, JoinAndDrain,
         AfterDead, Sleep, TimeoutInterrupts, GraceSleep, AfterGrace, RaiseTimeout,
         FirstInterrupt, hist, memo
  <2>2. pc' \notin {"notes", "sleep"}
    BY <1>6, WaitGoesOn
       DEF CtrlC, DrainRequests, HandleRequest, AfterTop, AfterLiveness, JoinAndDrain,
         AfterDead, Sleep, TimeoutInterrupts, GraceSleep, AfterGrace, RaiseTimeout,
         FirstInterrupt, End, GoTo
  <2>3. from' = "boundary" /\ pc' \in {"drain", "requests"} =>
          from = "boundary" /\ pc \in {"drain", "requests"}
    BY <1>6
       DEF CtrlC, DrainRequests, HandleRequest, AfterTop, AfterLiveness, JoinAndDrain,
         AfterDead, Sleep, TimeoutInterrupts, GraceSleep, AfterGrace, RaiseTimeout,
         FirstInterrupt, End, GoTo, Drained
  <2>4. TimedOut' => TimedOut
    BY <1>6
       DEF CtrlC, DrainRequests, HandleRequest, AfterTop, AfterLiveness, JoinAndDrain,
         AfterDead, Sleep, TimeoutInterrupts, GraceSleep, AfterGrace, RaiseTimeout,
         FirstInterrupt, End, GoTo, Drained, TimedOut, TypeInv, Flow
  <2>5. ~lost' => ~lost
    BY MemoryStays
  <2> QED BY <2>1, <2>2, <2>3, <2>4, <2>5 DEF WorkAtBoundary
<1> QED BY <1>1, <1>2, <1>3, <1>4, <1>5, <1>6 DEF Next, Loop

LEMMA WorkingIsNotIdleStep ==
  ASSUME TypeInv, WorkAtBoundary, Next
  PROVE  WorkingIsNotIdle'
<1>1. how = "waiting" /\ pc # "done"
  BY WaitGoesOn
<1>2. CASE ServerWrites \/ ServerExits \/ RouteOverflow \/ Dispatcher
  BY <1>1, <1>2, Outer DEF WorkingIsNotIdle, loop
<1>3. CASE RaiseTimeout
  BY <1>3 DEF RaiseTimeout, TimedOut, End, TypeInv, Flow, hist, WorkingIsNotIdle,
              WorkAtBoundary
<1>4. CASE CtrlC \/ (Loop /\ ~RaiseTimeout)
  BY <1>1, <1>4 DEF CtrlC, Loop, DrainRequests, HandleRequest, DrainNotes, HandleNote,
       AfterTop, AfterLiveness, JoinAndDrain, AfterDead, Decide, Sleep, AfterBoundary,
       TimeoutInterrupts, GraceSleep, AfterGrace, FirstInterrupt, End, WorkingIsNotIdle
<1> QED BY <1>2, <1>3, <1>4 DEF Next

(* What the loop knows of the commands that run. *)
WorkInv == WorkKnown /\ WorkReal /\ WorkAtBoundary /\ WorkingIsNotIdle

(* The loop's view of the commands is right up to the messages not yet       *)
(* handled (_notification_activity).                                         *)
THEOREM WorkInvHolds == Spec => []WorkInv
<1>1. Init => WorkInv
  BY DEF Init, WorkInv, WorkKnown, WorkReal, WorkAtBoundary, WorkingIsNotIdle, TimedOut,
         Pending, StartAt, StopFrom, StopAt
<1>2. TypeInv /\ WorkInv /\ [Next]_vars => WorkInv'
  <2>1. ASSUME WorkInv, UNCHANGED vars PROVE WorkInv'
    BY <2>1 DEF WorkInv, WorkKnown, WorkReal, WorkAtBoundary, WorkingIsNotIdle, TimedOut,
                Final, Waiting, Pending, StartsLast, StopFrom, StartAt, StopAt,
                vars, server, queues, loop, memo, clocks, hist
  <2> QED BY <2>1, WorkKnownStep, WorkRealStep, WorkAtBoundaryStep, WorkingIsNotIdleStep
             DEF WorkInv
<1> QED BY <1>1, <1>2, TypeCorrect, PTL DEF Spec

(* docs/configuration.md:61: a turn whose command runs when the timeout is    *)
(* decided is not ended as idle, also when the start of the command is still  *)
(* in the client's queue.                                                     *)
THEOREM WorkSuppressesIdle == Spec => []WorkingIsNotIdle
BY WorkInvHolds, PTL DEF WorkInv

(* And only a command that runs does: noise and a command long completed keep *)
(* no silent turn waiting.                                                    *)
THEOREM SilenceIsWork == Spec => []OnlyWorkOutlastsIdle
<1>1. TypeInv /\ WorkInv => OnlyWorkOutlastsIdle
  <2> SUFFICES ASSUME TypeInv, WorkInv, pc = "sleep", quiet >= Idle, ~lost,
                      running = {}, notes = <<>>
               PROVE  FALSE
    BY DEF OnlyWorkOutlastsIdle
  <2>1. PICK w \in active_work_items : TRUE
    BY DEF WorkInv, WorkAtBoundary
  <2>2. Pending = <<>>
    BY DEF Pending
  <2>3. Waiting
    BY DEF TypeInv, Flow, Waiting
  <2>4. StopFrom(Pending, 1, w)
    BY <2>1, <2>3 DEF WorkInv, WorkReal
  <2> QED BY <2>2, <2>4 DEF StopFrom
<1> QED BY <1>1, TypeCorrect, WorkInvHolds, PTL
------------------------------------------------------------------------------
(* The idle clock differs from the one without prompts only while the request
   whose prompt it was is still to be counted as activity. *)
QuietInv ==
  ~stranger =>
    /\ from = "top" /\ pc \notin {"cancel", "done"} =>
         idle = quiet \/ (pc \in {"requests", "notes"} /\ activity)
    /\ timeout_kind = "idle" /\ from \in {"boundary", "grace", "graceDead"}
         => quiet >= Idle
    /\ how = "idle" => quiet >= Idle

LEMMA QuietInvStep ==
  ASSUME TypeInv, QuietInv, Next
  PROVE  QuietInv'
<1> USE TurnLoopAssumption
<1>1. /\ how = "waiting" /\ pc # "done"
      /\ idle \in 0 .. Idle /\ quiet \in 0 .. idle /\ active \in Nat
      /\ cancelLeft \in -1 .. Cancel /\ activity \in BOOLEAN /\ stranger \in BOOLEAN
  BY WaitGoesOn DEF TypeInv, TypeOK
<1>2. ~stranger' => ~stranger
  BY MemoryStays
<1>3. CASE ServerWrites \/ ServerExits \/ RouteOverflow \/ Dispatcher
  BY <1>3, Outer DEF QuietInv, loop, clocks
<1>4. CASE HandleRequest
  <2>1. /\ UNCHANGED <<from, timeout_kind, quiet>> /\ pc = "requests"
        /\ \/ pc' = pc /\ how' = how
           \/ pc' = "done" /\ how' = "unanswered"
        /\ activity' = (activity \/ RequestActivity(Head(batch)))
    BY <1>4 DEF HandleRequest, Prompt, GoTo
  <2>2. PICK d \in {0, HumanTime} :
          Prompt(d) /\ stranger' = (stranger \/ (d > 0 /\ ~Head(batch).own))
    BY <1>4 DEF HandleRequest
  <2>3. d \in Nat
    OBVIOUS
  <2>4. d = 0 => idle' = idle
    BY <1>1, <2>2 DEF Prompt, UpTo
  <2>5. ~stranger' => d = 0 \/ activity'
    <3>1. d = 0 \/ d > 0
      BY <2>3
    <3>2. d > 0 /\ ~stranger' => Head(batch).own
      BY <2>2, Zenon
    <3>3. Head(batch).own => activity'
      BY <2>1, Zenon DEF RequestActivity
    <3> QED BY <3>1, <3>2, <3>3
  <2>6. activity => activity'
    BY <2>1
  <2> QED BY <1>1, <1>2, <2>1, <2>4, <2>5, <2>6 DEF QuietInv
<1>5. CASE AfterTop
  <2>1. /\ pc = "notes" /\ from = "top" /\ from' = from /\ how' # "idle"
        /\ timeout_kind' = timeout_kind
        /\ idle' = quiet' \/ (~activity /\ UNCHANGED <<idle, quiet>>)
    BY <1>1, <1>5 DEF AfterTop, Drained, Heard, End, clocks
  <2> QED BY <1>2, <2>1 DEF QuietInv
<1>6. CASE Decide
  <2>1. /\ pc = "decide" /\ from = "top" /\ UNCHANGED <<idle, quiet>> /\ how' # "idle"
        /\ \/ from' = from
           \/ from' = "boundary" /\ (timeout_kind' = "idle" => idle >= Idle)
    BY <1>1, <1>6 DEF Decide, End, clocks, TimeoutDue, TypeInv, Flow
  <2> QED BY <1>2, <2>1 DEF QuietInv
<1>7. CASE Sleep \/ FirstInterrupt
  <2>1. from' = "top" /\ how' = how /\ (~stranger' => idle' = quiet')
    <3>1. CASE Sleep
      <4>1. from = "top" /\ pc = "sleep" /\ Run(1) /\ from' = "top" /\ how' = how
        BY <3>1 DEF Sleep, TypeInv, Flow
      <4>2. idle = quiet => idle' = quiet'
        BY <4>1 DEF Run
      <4> QED BY <1>2, <4>1, <4>2 DEF QuietInv
    <3>2. CASE FirstInterrupt
      BY <3>2 DEF FirstInterrupt
    <3> QED BY <1>7, <3>1, <3>2
  <2> QED BY <1>1, <2>1 DEF QuietInv
<1>8. CASE AfterBoundary
  <2>1. /\ from = "boundary" /\ how' # "idle"
        /\ \/ UNCHANGED <<from, timeout_kind, quiet>>
           \/ from' = "top" /\ idle' = quiet'
    BY <1>1, <1>8 DEF AfterBoundary, Drained, Heard, End, clocks
  <2> QED BY <1>2, <2>1 DEF QuietInv
<1>9. CASE TimeoutInterrupts \/ GraceSleep
  <2>1. /\ from \in {"boundary", "grace"} /\ from' \in {"boundary", "grace"}
        /\ UNCHANGED <<timeout_kind, how, stranger>>
    BY <1>9 DEF TimeoutInterrupts, GraceSleep, TypeInv, Flow, hist
  <2>2. PICK d \in Nat : Run(d)
    BY <1>9 DEF TimeoutInterrupts, GraceSleep
  <2>3. quiet >= Idle => quiet' >= Idle
    BY <1>1, <2>2 DEF Run, UpTo
  <2> QED BY <1>1, <2>1, <2>3 DEF QuietInv
<1>10. CASE RaiseTimeout
  <2>1. /\ UNCHANGED <<from, timeout_kind, quiet>> /\ how' = timeout_kind /\ pc' = "done"
        /\ from \in {"boundary", "grace", "graceDead"}
    BY <1>10 DEF RaiseTimeout, End, GoTo, clocks, TypeInv, Flow
  <2> QED BY <1>2, <2>1 DEF QuietInv
<1>12. CASE HandleNote
  <2>1. /\ pc = "notes" /\ UNCHANGED <<pc, from, timeout_kind, how, stranger>>
        /\ activity' = (activity \/ Meaningful(Head(batch)))
    BY <1>12 DEF HandleNote, hist
  <2>2. CASE UNCHANGED <<clocks, prompts>>
    BY <1>1, <2>1, <2>2 DEF QuietInv, clocks
  <2>3. CASE /\ Head(batch).t = "stop"
             /\ \E h \in {0, HumanTime}, d \in 0 .. HostTime : OfferHostRun(h, d)
    <3>1. activity'
      BY <2>1, <2>3 DEF Meaningful
    <3>2. PICK d \in 0 .. HostTime : quiet' = UpTo(quiet + d, Idle)
      BY <2>3 DEF OfferHostRun
    <3>3. quiet >= Idle => quiet' >= Idle
      BY <1>1, <3>2 DEF UpTo
    <3> QED BY <1>1, <2>1, <3>1, <3>3 DEF QuietInv
  <2> QED BY <1>12, <2>2, <2>3 DEF HandleNote
<1>11. CASE CtrlC \/ DrainRequests \/ DrainNotes \/ AfterLiveness
            \/ JoinAndDrain \/ AfterDead \/ AfterGrace
  <2>1. /\ UNCHANGED <<idle, quiet, timeout_kind, stranger>> /\ how' # "idle"
        /\ from' \in {from, "topDead"} \/ (from = "grace" /\ from' = "graceDead")
    BY <1>1, <1>11
       DEF CtrlC, DrainRequests, DrainNotes, AfterLiveness, JoinAndDrain,
           AfterDead, AfterGrace, End, clocks, hist, TypeInv, Flow
  <2>2. from' = "top" /\ pc' \notin {"cancel", "done"} =>
          /\ pc \notin {"cancel", "done"}
          /\ pc \in {"requests", "notes"} /\ activity
               => pc' \in {"requests", "notes"} /\ activity'
    BY <1>1, <1>11
       DEF CtrlC, DrainRequests, DrainNotes, AfterLiveness, JoinAndDrain,
           AfterDead, AfterGrace, End, GoTo, Drained
  <2>3. from' = "top" => from = "top"
    BY <2>1
  <2> QED BY <2>1, <2>2, <2>3 DEF QuietInv
<1> QED BY <1>3, <1>4, <1>5, <1>6, <1>7, <1>8, <1>9, <1>10, <1>11,
           <1>12 DEF Next, Loop

(* docs/known-limitations.md:20: a turn that is ended as idle has been silent *)
(* for the idle timeout without the time the user had a prompt of the turn    *)
(* before them.                                                               *)
THEOREM PromptsAreFree == Spec => []HumanTimeIsFree
<1>1. Init => QuietInv
  BY DEF Init, QuietInv
<1>2. TypeInv /\ QuietInv /\ [Next]_vars => QuietInv'
  <2>1. ASSUME QuietInv, UNCHANGED vars PROVE QuietInv'
    BY <2>1 DEF QuietInv, vars, loop, clocks, hist
  <2> QED BY <2>1, QuietInvStep
<1>3. QuietInv => HumanTimeIsFree
  BY DEF QuietInv, HumanTimeIsFree
<1> QED BY <1>1, <1>2, <1>3, TypeCorrect, PTL DEF Spec
==============================================================================
