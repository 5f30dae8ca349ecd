------------------------------ MODULE Transport ------------------------------
(***************************************************************************)
(* runtime/cx2/client.py, class AppServerClient: the newline-delimited     *)
(* request/response transport between CX2 and one `codex app-server`       *)
(* child process at a time.                                                *)
(*                                                                         *)
(* Threads: the callers (Owner, the runtime's own thread, also starts and  *)
(* closes the client; request() is locked so that other threads may call   *)
(* it too), and one dispatcher thread per started process, which may       *)
(* outlive the process because close() joins it for one second only.       *)
(*                                                                         *)
(* One action is one stretch of code between two points where another      *)
(* thread can be noticed: a lock taken, a queue touched, a pipe touched.   *)
(***************************************************************************)
EXTENDS Integers, Sequences, FiniteSets, Lists

CONSTANTS
  Callers,            \* threads that call request() and the drains
  Owner,              \* the caller that also calls start() and close()
  Kinds,              \* what the predicate of a drain can tell apart
  PendingCap,         \* MAX_PENDING_REQUESTS
  QueueCap,           \* [Queues -> Nat], the MAX_*_QUEUE of client.py
  BacklogCap,         \* MAX_NOTIFICATION_BACKLOG
  MaxCalls,           \* bound: calls of request()
  MaxLines,           \* bound: lines the servers write
  MaxStarts,          \* bound: processes started
  SurvivorPossible    \* whether the process or a descendant may outlive the
                      \* shutdown and keep the stdout pipe open

Queues == {"note", "ask", "unknown"}
Gens   == 1 .. MaxStarts    \* a process and its dispatcher, by start order
Ids    == 1 .. MaxCalls     \* request ids

ASSUME TransportAssumption ==
  /\ Owner \in Callers
  /\ PendingCap \in Nat \ {0} /\ BacklogCap \in Nat \ {0}
  /\ QueueCap \in [Queues -> Nat \ {0}]
  /\ MaxCalls \in Nat /\ MaxLines \in Nat /\ MaxStarts \in Nat
  /\ SurvivorPossible \in BOOLEAN

\* What a waiter queue (maxsize 1) can hold: nothing, the answer to call k > 0
\* or a __cx2_transport_error__.
Empty == 0
Failed == -1

VARIABLES
  \* the client object
  process,            \* generation of self.process, 0 for None
  starts,             \* generations started so far
  transport_failure,  \* 0 for None, else the generation it was set in
  request_id,         \* self._request_id
  pending,            \* keys of self._pending
  waiter,             \* content of the waiter queue of each request id
  queue,              \* notifications, server_requests, unknown_messages
  backlog,            \* self._notification_backlog
  \* per generation: the process and its pipes
  alive, written, stdinOpen, stdout,
  writerOpen,         \* some process holds the write end of stdout
  readerOpen,         \* close() has not closed the read end
  \* per generation: the dispatcher thread
  dpc, dline, dsnap,
  \* per caller: the program point inside request(), a drain or close()
  pc, rid, got, snap,
  \* history, for the properties and the bounds
  calls, call,        \* calls of request() so far; the one a caller is in
  lines,              \* lines written so far
  routed,             \* lines taken from a pipe, in order
  drained             \* messages handed to the caller of a drain, in order

client == <<process, starts, transport_failure, request_id, pending, waiter,
            queue, backlog>>
server == <<alive, written, stdinOpen, stdout, writerOpen, readerOpen>>
disp   == <<dpc, dline, dsnap>>
caller == <<pc, rid, got, snap>>
hist   == <<calls, call, lines, routed, drained>>
vars   == <<client, server, disp, caller, hist>>

Init ==
  /\ process = 0 /\ starts = 0 /\ transport_failure = 0 /\ request_id = 0
  /\ pending = {} /\ waiter = [i \in Ids |-> Empty]
  /\ queue = [q \in Queues |-> <<>>] /\ backlog = <<>>
  /\ alive = [g \in Gens |-> FALSE] /\ written = [g \in Gens |-> {}]
  /\ stdinOpen = [g \in Gens |-> FALSE] /\ stdout = [g \in Gens |-> <<>>]
  /\ writerOpen = [g \in Gens |-> FALSE] /\ readerOpen = [g \in Gens |-> FALSE]
  /\ dpc = [g \in Gens |-> "none"] /\ dsnap = [g \in Gens |-> {}]
  /\ dline = [g \in Gens |-> [id |-> 0, call |-> 0]]
  /\ pc = [c \in Callers |-> "idle"] /\ rid = [c \in Callers |-> 0]
  /\ got = [c \in Callers |-> Empty] /\ snap = [c \in Callers |-> {}]
  /\ calls = 0 /\ call = [c \in Callers |-> 0]
  /\ lines = 0 /\ routed = <<>> /\ drained = <<>>
------------------------------------------------------------------------------
(* Pieces of several actions *)

\* The lines of the servers, by what the client does with them.
Notes(K) == [t : {"note"}, kind : K, n : Nat]
Requests == [t : {"ask"}, n : Nat]
Lines == [t : {"answer"}, id : Ids, call : Ids] \cup Notes(Kinds)
           \cup Requests \cup [t : {"unknown"}]

GoTo(c, to) == pc' = [pc EXCEPT ![c] = to]
DispatcherGoTo(g, to) == dpc' = [dpc EXCEPT ![g] = to]

\* waiter.put_nowait(error) on each waiter of a snapshot; a full one keeps
\* what it holds.
WakeAll(S) ==
  waiter' = [i \in Ids |-> IF i \in S /\ waiter[i] = Empty
                             THEN Failed ELSE waiter[i]]

\* Mutant: an overflow nobody records.
RecordFailure_Lost(g) == UNCHANGED transport_failure

\* _set_transport_failure up to its snapshot: the first reason stays.
RecordFailure(g) ==
  transport_failure' = IF transport_failure = 0 THEN g ELSE transport_failure
------------------------------------------------------------------------------
(* The App Server process of generation g, external *)

Emit(g, line) ==
  /\ alive[g] /\ lines < MaxLines
  /\ stdout' = [stdout EXCEPT ![g] = Append(@, line)]
  /\ lines' = lines + 1
  /\ UNCHANGED <<client, alive, written, stdinOpen, writerOpen, readerOpen,
                 disp, caller, calls, call, routed, drained>>

\* An answer, possibly late, possibly the second one to its request.
ServerAnswers(g) ==
  \E m \in written[g] : Emit(g, [t |-> "answer", id |-> m.id, call |-> m.call])
ServerNotifies(g) ==
  \E k \in Kinds : Emit(g, [t |-> "note", kind |-> k, n |-> lines])
ServerAsks(g) == Emit(g, [t |-> "ask", n |-> lines])
ServerWritesJunk(g) == Emit(g, [t |-> "unknown"])

\* The process is gone; a descendant may still hold its stdout.
Exit(g) ==
  /\ alive' = [alive EXCEPT ![g] = FALSE]
  /\ \/ writerOpen' = [writerOpen EXCEPT ![g] = FALSE]
     \/ SurvivorPossible /\ UNCHANGED writerOpen

ServerExits(g) ==
  /\ alive[g] /\ Exit(g)
  /\ UNCHANGED <<client, written, stdinOpen, stdout, readerOpen,
                 disp, caller, hist>>
------------------------------------------------------------------------------
(* The dispatcher thread of generation g *)

\* _put_transport_event: a full queue drops the message and records the
\* failure, whose snapshot of the waiters is the thread's next step.
PutTransportEvent(g, q, line) ==
  \/ /\ Len(queue[q]) < QueueCap[q]
     /\ queue' = [queue EXCEPT ![q] = Append(@, line)]
     /\ UNCHANGED <<dpc, transport_failure>>
  \/ /\ Len(queue[q]) >= QueueCap[q]
     /\ RecordFailure(g) /\ DispatcherGoTo(g, "snap")
     /\ UNCHANGED queue

\* One line: a response to a pending request finds its waiter under
\* _pending_lock; anything else goes to the queue of its type, a response
\* nobody waits for to unknown_messages.
RouteMessage(g) ==
  /\ dpc[g] = "read" /\ readerOpen[g] /\ stdout[g] # <<>>
  /\ stdout' = [stdout EXCEPT ![g] = Tail(@)]
  /\ LET line == Head(stdout[g]) IN
     /\ routed' = Append(routed, line)
     /\ \/ /\ line.t = "answer" /\ line.id \in pending
           /\ dline' = [dline EXCEPT ![g] = [id |-> line.id, call |-> line.call]]
           /\ DispatcherGoTo(g, "deliver")
           /\ UNCHANGED <<queue, transport_failure>>
        \/ /\ line.t = "answer" /\ line.id \notin pending
           /\ PutTransportEvent(g, "unknown", line)
           /\ UNCHANGED dline
        \/ /\ line.t # "answer"
           /\ PutTransportEvent(g, line.t, line)
           /\ UNCHANGED dline
  /\ UNCHANGED <<process, starts, request_id, pending, waiter, backlog, alive,
                 written, stdinOpen, writerOpen, readerOpen, dsnap, caller,
                 calls, call, lines, drained>>

\* waiter.put_nowait(message), outside the lock: the caller may have left.
Deliver(g) ==
  /\ dpc[g] = "deliver"
  /\ LET line == dline[g] IN
     \/ /\ waiter[line.id] = Empty
        /\ waiter' = [waiter EXCEPT ![line.id] = line.call]
        /\ DispatcherGoTo(g, "read") /\ UNCHANGED transport_failure
     \/ /\ waiter[line.id] # Empty
        /\ RecordFailure(g)
        /\ DispatcherGoTo(g, "snap") /\ UNCHANGED waiter
  /\ UNCHANGED <<process, starts, request_id, pending, queue, backlog, server,
                 dline, dsnap, caller, hist>>

\* Mutant: the failure is recorded and the waiters are left alone.
DispatcherSnapshot_None(g) ==
  /\ dpc[g] = "snap"
  /\ dsnap' = [dsnap EXCEPT ![g] = {}]
  /\ DispatcherGoTo(g, "wake")
  /\ UNCHANGED <<client, server, dline, caller, hist>>

\* _set_transport_failure: the snapshot of the waiters, then the puts.
DispatcherSnapshot(g) ==
  /\ dpc[g] = "snap"
  /\ dsnap' = [dsnap EXCEPT ![g] = pending]
  /\ DispatcherGoTo(g, "wake")
  /\ UNCHANGED <<client, server, dline, caller, hist>>

DispatcherWake(g) ==
  /\ dpc[g] = "wake"
  /\ WakeAll(dsnap[g])
  /\ dsnap' = [dsnap EXCEPT ![g] = {}]
  /\ DispatcherGoTo(g, "read")
  /\ UNCHANGED <<process, starts, transport_failure, request_id, pending,
                 queue, backlog, server, dline, caller, hist>>

\* End of stdout, or a read of a closed pipe: the finally block. It records no
\* transport_failure.
EndOfStdout(g) ==
  /\ dpc[g] = "read"
  /\ ~readerOpen[g] \/ (stdout[g] = <<>> /\ ~writerOpen[g])
  /\ dsnap' = [dsnap EXCEPT ![g] = pending]
  /\ DispatcherGoTo(g, "eofwake")
  /\ UNCHANGED <<client, server, dline, caller, hist>>

EofWake(g) ==
  /\ dpc[g] = "eofwake"
  /\ WakeAll(dsnap[g])
  /\ dsnap' = [dsnap EXCEPT ![g] = {}]
  /\ DispatcherGoTo(g, "dead")
  /\ UNCHANGED <<process, starts, transport_failure, request_id, pending,
                 queue, backlog, server, dline, caller, hist>>

Dispatcher(g) ==
  \/ RouteMessage(g) \/ Deliver(g) \/ DispatcherSnapshot(g)
  \/ DispatcherWake(g) \/ EndOfStdout(g) \/ EofWake(g)
------------------------------------------------------------------------------
(* request() *)

\* Mutant: an id taken from the number of open requests.
NextRequestId_Reused == Cardinality(pending) + 1

NextRequestId == request_id + 1

\* The id, the waiter and its registration under _pending_lock.
Register(c) ==
  /\ pc[c] = "idle" /\ calls < MaxCalls
  /\ request_id' = request_id + 1
  /\ calls' = calls + 1
  /\ \/ /\ Cardinality(pending) < PendingCap
        /\ pending' = pending \cup {NextRequestId}
        /\ waiter' = [waiter EXCEPT ![NextRequestId] = Empty]
        /\ rid' = [rid EXCEPT ![c] = NextRequestId]
        /\ call' = [call EXCEPT ![c] = calls + 1]
        /\ GoTo(c, "check")
     \/ /\ Cardinality(pending) >= PendingCap     \* refused: raises
        /\ UNCHANGED <<pending, waiter, rid, call, pc>>
  /\ UNCHANGED <<process, starts, transport_failure, queue, backlog, server,
                 disp, got, snap, lines, routed, drained>>

\* request() leaves its try with v: an answer, an error, or a timeout (Empty).
Return(c, v) ==
  /\ got' = [got EXCEPT ![c] = v]
  /\ GoTo(c, "finally")

\* Mutant: the failure is looked at before the registration only.
CheckFailure_Early(c) ==
  /\ pc[c] = "check" /\ GoTo(c, "send")
  /\ UNCHANGED <<client, server, disp, rid, got, snap, hist>>

CheckFailure(c) ==
  /\ pc[c] = "check"
  /\ \/ transport_failure # 0 /\ Return(c, Failed)
     \/ transport_failure = 0 /\ GoTo(c, "send") /\ UNCHANGED got
  /\ UNCHANGED <<client, server, disp, rid, snap, hist>>

\* send(): raises without a process, on a closed stdin or on a broken pipe.
CanWrite == process # 0 /\ stdinOpen[process] /\ alive[process]

\* Mutant: a write that fails is taken for one that went out.
Send_Hopes(c) ==
  /\ pc[c] = "send"
  /\ written' = IF ~CanWrite THEN written
                  ELSE [written EXCEPT ![process] =
                          @ \cup {[id |-> rid[c], call |-> call[c]]}]
  /\ GoTo(c, "wait")
  /\ UNCHANGED <<client, alive, stdinOpen, stdout, writerOpen, readerOpen,
                 disp, rid, got, snap, hist>>

Send(c) ==
  /\ pc[c] = "send"
  /\ \/ /\ CanWrite
        /\ written' = [written EXCEPT ![process] =
                          @ \cup {[id |-> rid[c], call |-> call[c]]}]
        /\ GoTo(c, "wait") /\ UNCHANGED got
     \/ /\ ~CanWrite
        /\ Return(c, Failed) /\ UNCHANGED written
  /\ UNCHANGED <<client, alive, stdinOpen, stdout, writerOpen, readerOpen,
                 disp, rid, snap, hist>>

Wake(c) ==
  /\ pc[c] = "wait" /\ waiter[rid[c]] # Empty
  /\ waiter' = [waiter EXCEPT ![rid[c]] = Empty]
  /\ Return(c, waiter[rid[c]])
  /\ UNCHANGED <<process, starts, transport_failure, request_id, pending,
                 queue, backlog, server, disp, rid, snap, hist>>

Timeout(c) ==
  /\ pc[c] = "wait" /\ waiter[rid[c]] = Empty
  /\ Return(c, Empty)
  /\ UNCHANGED <<client, server, disp, rid, snap, hist>>

\* Mutant: a request that timed out stays registered.
PendingWithout_Answered(c) ==
  IF got[c] = Empty THEN pending ELSE pending \ {rid[c]}

PendingWithout(c) == pending \ {rid[c]}

\* The finally of request(): the waiter leaves _pending.
Unregister(c) ==
  /\ pc[c] = "finally"
  /\ pending' = PendingWithout(c)
  /\ rid' = [rid EXCEPT ![c] = 0] /\ call' = [call EXCEPT ![c] = 0]
  /\ got' = [got EXCEPT ![c] = Empty]
  /\ GoTo(c, "idle")
  /\ UNCHANGED <<process, starts, transport_failure, request_id, waiter, queue,
                 backlog, server, disp, snap, calls, lines, routed, drained>>
------------------------------------------------------------------------------
(* The drains *)

\* Mutant: the queue before the events set aside earlier.
Available_QueueFirst == queue["note"] \o backlog

Available == backlog \o queue["note"]

\* drain_notifications: the backlog first.
DrainNotifications(c) ==
  /\ pc[c] = "idle" /\ Available # <<>>
  /\ drained' = drained \o Available
  /\ backlog' = <<>> /\ queue' = [queue EXCEPT !["note"] = <<>>]
  /\ UNCHANGED <<process, starts, transport_failure, request_id, pending,
                 waiter, server, disp, caller, calls, call, lines, routed>>

\* drain_matching_notifications: what does not match is kept in the backlog;
\* past its capacity it is dropped and the failure recorded.
DrainMatching(c, K) ==
  LET matched == Keep(Available, Notes(K))
      rest == Keep(Available, Notes(Kinds \ K))
  IN
  /\ pc[c] = "idle" /\ Available # <<>>
  /\ drained' = drained \o matched
  /\ queue' = [queue EXCEPT !["note"] = <<>>]
  /\ \/ /\ Len(rest) <= BacklogCap
        /\ backlog' = rest
        /\ UNCHANGED <<transport_failure, pc>>
     \/ /\ Len(rest) > BacklogCap
        /\ backlog' = SubSeq(rest, 1, BacklogCap)
        /\ RecordFailure(starts) /\ GoTo(c, "snap")
  /\ UNCHANGED <<process, starts, request_id, pending, waiter, server, disp,
                 rid, got, snap, calls, call, lines, routed>>

\* drain_server_requests.
DrainServerRequests(c) ==
  /\ pc[c] = "idle" /\ queue["ask"] # <<>>
  /\ drained' = drained \o queue["ask"]
  /\ queue' = [queue EXCEPT !["ask"] = <<>>]
  /\ UNCHANGED <<process, starts, transport_failure, request_id, pending,
                 waiter, backlog, server, disp, caller, calls, call, lines,
                 routed>>

DrainUnknown(c) ==
  /\ pc[c] = "idle" /\ queue["unknown"] # <<>>
  /\ queue' = [queue EXCEPT !["unknown"] = <<>>]
  /\ UNCHANGED <<process, starts, transport_failure, request_id, pending,
                 waiter, backlog, server, disp, caller, hist>>

\* The snapshot and the puts of a failure recorded by a drain.
CallerSnapshot(c) ==
  /\ pc[c] = "snap"
  /\ snap' = [snap EXCEPT ![c] = pending]
  /\ GoTo(c, "wake")
  /\ UNCHANGED <<client, server, disp, rid, got, hist>>

CallerWake(c) ==
  /\ pc[c] = "wake"
  /\ WakeAll(snap[c])
  /\ snap' = [snap EXCEPT ![c] = {}]
  /\ GoTo(c, "idle")
  /\ UNCHANGED <<process, starts, transport_failure, request_id, pending,
                 queue, backlog, server, disp, rid, got, hist>>
------------------------------------------------------------------------------
(* start() and close(), by the Owner *)

Start ==
  /\ pc[Owner] = "idle" /\ process = 0 /\ starts < MaxStarts
  /\ LET g == starts + 1 IN
     /\ process' = g /\ starts' = g
     /\ alive' = [alive EXCEPT ![g] = TRUE]
     /\ stdinOpen' = [stdinOpen EXCEPT ![g] = TRUE]
     /\ writerOpen' = [writerOpen EXCEPT ![g] = TRUE]
     /\ readerOpen' = [readerOpen EXCEPT ![g] = TRUE]
     /\ DispatcherGoTo(g, "read")
  /\ UNCHANGED <<transport_failure, request_id, pending, waiter, queue, backlog,
                 written, stdout, dline, dsnap, caller, hist>>

\* close() without a process only wakes the waiters; with one it first closes
\* the child's stdin.
CloseBegin ==
  /\ pc[Owner] = "idle"
  /\ \/ /\ process = 0 /\ pending # {}
        /\ GoTo(Owner, "snap") /\ UNCHANGED stdinOpen
     \/ /\ process # 0
        /\ stdinOpen' = [stdinOpen EXCEPT ![process] = FALSE]
        /\ GoTo(Owner, "stopping")
  /\ UNCHANGED <<client, alive, written, stdout, writerOpen, readerOpen, disp,
                 rid, got, snap, hist>>

\* Mutant: wait without the kill.
StopProcess_WaitsOnly ==
  /\ pc[Owner] = "stopping"
  /\ GoTo(Owner, "join")
  /\ UNCHANGED <<client, server, disp, rid, got, snap, hist>>

\* wait, taskkill or terminate, wait, kill, wait: bounded, so that the process
\* may have survived them.
StopProcess ==
  /\ pc[Owner] = "stopping"
  /\ GoTo(Owner, "join")
  /\ \/ alive[process] /\ Exit(process)
     \/ /\ ~alive[process] \/ SurvivorPossible
        /\ UNCHANGED <<alive, writerOpen>>
  /\ UNCHANGED <<client, written, stdinOpen, stdout, readerOpen, disp, rid, got,
                 snap, hist>>

\* join(timeout=1.0): the dispatcher is dead, or the second is over.
JoinDispatcher ==
  /\ pc[Owner] = "join"
  /\ GoTo(Owner, "closing")
  /\ UNCHANGED <<client, server, disp, rid, got, snap, hist>>

\* process.stdout.close() takes the lock of the buffered reader, which a
\* dispatcher blocked in a read holds until a line or the end of file comes.
ReaderBlocked(g) == dpc[g] = "read" /\ stdout[g] = <<>> /\ writerOpen[g]

CloseStdout ==
  /\ pc[Owner] = "closing" /\ ~ReaderBlocked(process)
  /\ readerOpen' = [readerOpen EXCEPT ![process] = FALSE]
  /\ GoTo(Owner, "closesnap")
  /\ UNCHANGED <<client, alive, written, stdinOpen, stdout, writerOpen, disp,
                 rid, got, snap, hist>>

CloseSnapshot ==
  /\ pc[Owner] = "closesnap"
  /\ snap' = [snap EXCEPT ![Owner] = pending]
  /\ GoTo(Owner, "closewake")
  /\ UNCHANGED <<client, server, disp, rid, got, hist>>

CloseWake ==
  /\ pc[Owner] = "closewake"
  /\ WakeAll(snap[Owner])
  /\ snap' = [snap EXCEPT ![Owner] = {}]
  /\ GoTo(Owner, "closed")
  /\ UNCHANGED <<process, starts, transport_failure, request_id, pending,
                 queue, backlog, server, disp, rid, got, hist>>

CloseEnd ==
  /\ pc[Owner] = "closed"
  /\ process' = 0
  /\ GoTo(Owner, "idle")
  /\ UNCHANGED <<starts, transport_failure, request_id, pending, waiter, queue,
                 backlog, server, disp, rid, got, snap, hist>>
------------------------------------------------------------------------------
Server(g) == \/ ServerAnswers(g) \/ ServerNotifies(g) \/ ServerAsks(g)
             \/ ServerWritesJunk(g) \/ ServerExits(g)

\* What a caller's thread does without being asked and without a timer.
Proceed(c) == \/ CheckFailure(c) \/ Send(c) \/ Wake(c) \/ Unregister(c)
              \/ CallerSnapshot(c) \/ CallerWake(c)

Closing == \/ StopProcess \/ JoinDispatcher \/ CloseStdout
           \/ CloseSnapshot \/ CloseWake \/ CloseEnd

Drain(c) == \/ DrainNotifications(c) \/ DrainServerRequests(c) \/ DrainUnknown(c)
            \/ \E K \in SUBSET Kinds : DrainMatching(c, K)

Next == \/ \E g \in Gens : Server(g) \/ Dispatcher(g)
        \/ \E c \in Callers : Register(c) \/ Proceed(c) \/ Timeout(c) \/ Drain(c)
        \/ Start \/ CloseBegin \/ Closing

Spec == Init /\ [][Next]_vars

\* The threads are scheduled; no timer, no server and no user has to act.
ThreadFairness == /\ \A g \in Gens : WF_vars(Dispatcher(g))
                  /\ \A c \in Callers : WF_vars(Proceed(c))
                  /\ WF_vars(Closing)
FairSpec == Spec /\ ThreadFairness
------------------------------------------------------------------------------
(* Properties *)

\* The client but for its event queues, the processes and the threads.
CoreTypeOK ==
  /\ process \in 0 .. MaxStarts /\ starts \in 0 .. MaxStarts
  /\ transport_failure \in 0 .. MaxStarts
  /\ request_id \in 0 .. MaxCalls
  /\ pending \subseteq Ids
  /\ waiter \in [Ids -> {Empty, Failed} \cup Ids]
  /\ alive \in [Gens -> BOOLEAN]
  /\ written \in [Gens -> SUBSET [id : Ids, call : Ids]]
  /\ stdinOpen \in [Gens -> BOOLEAN] /\ stdout \in [Gens -> Seq(Lines)]
  /\ writerOpen \in [Gens -> BOOLEAN] /\ readerOpen \in [Gens -> BOOLEAN]
  /\ dpc \in [Gens -> {"none", "read", "deliver", "snap", "wake", "eofwake",
                        "dead"}]
  /\ dline \in [Gens -> [id : 0 .. MaxCalls, call : 0 .. MaxCalls]]
  /\ dsnap \in [Gens -> SUBSET Ids]
  /\ pc \in [Callers -> {"idle", "check", "send", "wait", "finally", "snap",
                          "wake", "stopping", "join", "closing", "closesnap",
                          "closewake", "closed"}]
  /\ rid \in [Callers -> 0 .. MaxCalls]
  /\ got \in [Callers -> {Empty, Failed} \cup Ids]
  /\ snap \in [Callers -> SUBSET Ids]
  /\ calls \in 0 .. MaxCalls /\ call \in [Callers -> 0 .. MaxCalls]
  /\ lines \in 0 .. MaxLines

EventsTypeOK ==
  /\ queue \in [Queues -> Seq(Lines)] /\ backlog \in Seq(Lines)
  /\ routed \in Seq(Lines) /\ drained \in Seq(Lines)

TypeOK == CoreTypeOK /\ EventsTypeOK

InRequest(c) == pc[c] \in {"check", "send", "wait", "finally"}

\* Something that ends the wait of request i is there or on its way.
Woken(i) ==
  \/ waiter[i] # Empty
  \/ \E g \in Gens : \/ dpc[g] = "snap"
                     \/ dpc[g] = "deliver" /\ dline[g].id = i
                     \/ dpc[g] \in {"wake", "eofwake"} /\ i \in dsnap[g]
  \/ \E c \in Callers : \/ pc[c] = "snap"
                        \/ pc[c] \in {"wake", "closewake"} /\ i \in snap[c]

\* README.md "pending request cleanup": _pending holds exactly the requests
\* that some thread is inside of, on every way out of request().
PendingIsInFlight == pending = {rid[c] : c \in {d \in Callers : InRequest(d)}}

\* A caller never gets the answer to another call, however late an answer to
\* a timed-out request, of this process or an earlier one, comes.
AnswerIsOwn ==
  \A c \in Callers : pc[c] = "finally" /\ got[c] > 0 => got[c] = call[c]

\* No lost wakeup between request(), which registers and then looks at
\* transport_failure, and _set_transport_failure, which records the failure
\* and then takes the waiters; nor between request() and the routing of its
\* answer; nor between request() and close(): whoever waits on a failed
\* transport, for an answer already read, or for a process that is no longer
\* the running one, is about to be woken.
NoWaiterStranded ==
  \A c \in Callers :
    /\ pc[c] = "wait"
    /\ \/ transport_failure # 0
       \/ \E i \in 1 .. Len(routed) :
            routed[i].t = "answer" /\ routed[i].call = call[c]
       \/ process = 0
       \/ [id |-> rid[c], call |-> call[c]] \notin written[process]
    => Woken(rid[c])

\* What one consumer sees of the events of one kind: those handed out, then
\* those it will be handed.
NotesOf(k) == Keep(drained \o backlog \o queue["note"], Notes({k}))
Asks == Keep(drained \o queue["ask"], Requests)

Increasing(s) == \A i, j \in 1 .. Len(s) : i < j => s[i].n < s[j].n

\* Selective drains put other events aside and later drains pick them up, yet
\* the events of a kind are handed out in the order they came, none twice,
\* and so are the server's requests, even past an overflow.
EventsInOrder == (\A k \in Kinds : Increasing(NotesOf(k))) /\ Increasing(Asks)

\* tests/test_2014_remediation.py:629 "transport overflow is explicit": an
\* event taken from the pipe is never missing unless the failure is recorded.
NothingLostSilently ==
  transport_failure = 0 =>
    /\ \A k \in Kinds : NotesOf(k) = Keep(routed, Notes({k}))
    /\ Asks = Keep(routed, Requests)

\* cx2_cli.py:891 tells the user that the App Server will be restarted on the
\* next request: a process just started is not held to a failure of the one
\* before it.
RestartRecovers == process # 0 => transport_failure \in {0, process}

\* What a caller can tell of its call, and the calls whose request was written.
PhaseOf(c) ==
  IF pc[c] \in {"check", "send"} THEN "begun"
  ELSE IF pc[c] = "wait" THEN "asked"
  ELSE IF pc[c] = "finally" THEN "returned" ELSE "idle"

Phases == [c \in Callers |-> PhaseOf(c)]

Asked == {m.call : m \in UNION {written[g] : g \in Gens}}

Promise == INSTANCE Rpc WITH
             Cap <- PendingCap, Nothing <- Empty, Error <- Failed,
             begun <- calls, phase <- Phases,
             asked <- Asked, outcome <- got

\* Whatever threads, dispatchers, closes and restarts do in between, request()
\* is the call that Rpc describes: refused only when the table is full,
\* written at most once, over every process, and answered by its own answer
\* or not at all.
ImplementsRpc == Promise!Spec

\* A failed transport frees its callers without the help of their timers.
FailureReleasesCallers ==
  \A c \in Callers : pc[c] = "wait" /\ transport_failure # 0 ~> pc[c] = "idle"

\* client.py:324 "bounded shutdown attempts": close() comes to its end.
CloseTerminates == pc[Owner] = "stopping" ~> pc[Owner] = "idle"
==============================================================================
