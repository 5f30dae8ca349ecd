--------------------------- MODULE Transport_proofs ---------------------------
(***************************************************************************)
(* What holds of the client for every number of callers, calls, lines and  *)
(* processes, and every capacity of its queues: its types, that a caller   *)
(* never gets the answer to another call, that _pending holds exactly the  *)
(* requests some thread is inside of, that nobody waits for a wakeup that  *)
(* will not come, that the client implements Rpc, that the events of a     *)
(* kind are handed out in order and that none is lost without a trace.     *)
(***************************************************************************)
EXTENDS Transport, Lists_proofs

(* A request is numbered by the calls of request() so far, and a thread is
   inside of request() with the number of its own call. *)
CallsNumbered ==
  /\ request_id = calls
  /\ \A c \in Callers : InRequest(c) => rid[c] \in 1 .. request_id /\ call[c] = rid[c]

TypeInv == CoreTypeOK /\ CallsNumbered

(* A line that answers has the ids of a request. *)
LEMMA AnswerLine ==
  ASSUME NEW line \in Lines, line.t = "answer"
  PROVE  line.id \in Ids /\ line.call \in Ids
BY DEF Lines, Requests, Notes

(* Waking a snapshot leaves waiters that hold what waiters can hold. *)
LEMMA WakeAllType ==
  ASSUME waiter \in [Ids -> {Empty, Failed} \cup Ids], NEW S, WakeAll(S)
  PROVE  waiter' \in [Ids -> {Empty, Failed} \cup Ids]
BY DEF WakeAll

(* Every step of a server keeps the types. *)
LEMMA ServerType ==
  ASSUME TypeInv, NEW g \in Gens, Server(g)
  PROVE  TypeInv'
<1> USE TransportAssumption DEF TypeInv, CoreTypeOK, CallsNumbered, InRequest
<1>1. ASSUME NEW line \in Lines, Emit(g, line)
      PROVE  TypeInv'
  <2>1. stdout' \in [Gens -> Seq(Lines)]
    BY <1>1 DEF Emit
  <2>2. lines' \in 0 .. MaxLines
    BY <1>1 DEF Emit
  <2> QED BY <1>1, <2>1, <2>2 DEF Emit, client, disp, caller
<1>2. CASE ServerAnswers(g)
  <2>1. PICK m \in written[g] : Emit(g, [t |-> "answer", id |-> m.id, call |-> m.call])
    BY <1>2 DEF ServerAnswers
  <2>2. [t |-> "answer", id |-> m.id, call |-> m.call] \in Lines
    BY <2>1 DEF Lines
  <2> QED BY <1>1, <2>1, <2>2
<1>3. CASE ServerNotifies(g)
  <2>1. PICK k \in Kinds : Emit(g, [t |-> "note", kind |-> k, n |-> lines])
    BY <1>3 DEF ServerNotifies
  <2>2. [t |-> "note", kind |-> k, n |-> lines] \in Lines
    BY DEF Lines, Requests, Notes
  <2> QED BY <1>1, <2>1, <2>2
<1>4. CASE ServerAsks(g)
  <2>1. [t |-> "ask", n |-> lines] \in Lines
    BY DEF Lines, Requests, Notes
  <2> QED BY <1>1, <1>4, <2>1 DEF ServerAsks
<1>5. CASE ServerWritesJunk(g)
  <2>1. [t |-> "unknown"] \in Lines
    BY DEF Lines, Requests, Notes
  <2> QED BY <1>1, <1>5, <2>1 DEF ServerWritesJunk
<1>6. CASE ServerExits(g)
  BY <1>6 DEF ServerExits, Exit, client, disp, caller, hist
<1> QED BY <1>2, <1>3, <1>4, <1>5, <1>6 DEF Server

(* Every step of a dispatcher keeps the types. *)
LEMMA DispatcherType ==
  ASSUME TypeInv, NEW g \in Gens, Dispatcher(g)
  PROVE  TypeInv'
<1> USE TransportAssumption DEF TypeInv, CoreTypeOK, CallsNumbered, InRequest
<1>1. CASE RouteMessage(g)
  <2> DEFINE line == Head(stdout[g])
  <2>1. line \in Lines /\ stdout' \in [Gens -> Seq(Lines)]
    BY <1>1 DEF RouteMessage
  <2>2. dline' \in [Gens -> [id : 0 .. MaxCalls, call : 0 .. MaxCalls]]
    <3>1. CASE line.t = "answer" /\ line.id \in pending
      <4>1. line.id \in 0 .. MaxCalls /\ line.call \in 0 .. MaxCalls
        BY <2>1, <3>1, AnswerLine DEF Ids
      <4>2. dline' = [dline EXCEPT ![g] = [id |-> line.id, call |-> line.call]]
        BY <1>1, <3>1 DEF RouteMessage
      <4> QED BY <4>1, <4>2
    <3>2. CASE ~(line.t = "answer" /\ line.id \in pending)
      BY <1>1, <3>2 DEF RouteMessage
    <3> QED BY <3>1, <3>2
  <2>3. g \in 0 .. MaxStarts
    BY DEF Gens
  <2>4. /\ dpc' \in [Gens -> {"none", "read", "deliver", "snap", "wake",
                               "eofwake", "dead"}]
        /\ transport_failure' \in 0 .. MaxStarts
    BY <1>1, <2>3 DEF RouteMessage, PutTransportEvent, RecordFailure,
                      DispatcherGoTo
  <2> QED BY <1>1, <2>1, <2>2, <2>4 DEF RouteMessage, caller
<1>2. CASE Deliver(g)
  <2>1. dline[g].call \in {Empty, Failed} \cup Ids
    BY DEF Ids, Empty
  <2>2. waiter' \in [Ids -> {Empty, Failed} \cup Ids]
    <3>1. \/ waiter' = waiter
          \/ waiter' = [waiter EXCEPT ![dline[g].id] = dline[g].call]
      BY <1>2 DEF Deliver
    <3> QED BY <2>1, <3>1
  <2>3. g \in 0 .. MaxStarts
    BY DEF Gens
  <2>4. transport_failure' \in 0 .. MaxStarts
    BY <1>2, <2>3 DEF Deliver, RecordFailure
  <2> QED BY <1>2, <2>2, <2>4 DEF Deliver, DispatcherGoTo, server, caller, hist
<1>3. CASE DispatcherSnapshot(g)
  BY <1>3 DEF DispatcherSnapshot, DispatcherGoTo, client, server, caller, hist
<1>4. CASE DispatcherWake(g)
  <2>1. waiter' \in [Ids -> {Empty, Failed} \cup Ids]
    BY <1>4, WakeAllType DEF DispatcherWake
  <2> QED BY <1>4, <2>1 DEF DispatcherWake, DispatcherGoTo, server, caller, hist
<1>5. CASE EndOfStdout(g)
  BY <1>5 DEF EndOfStdout, DispatcherGoTo, client, server, caller, hist
<1>6. CASE EofWake(g)
  <2>1. waiter' \in [Ids -> {Empty, Failed} \cup Ids]
    BY <1>6, WakeAllType DEF EofWake
  <2> QED BY <1>6, <2>1 DEF EofWake, DispatcherGoTo, server, caller, hist
<1> QED BY <1>1, <1>2, <1>3, <1>4, <1>5, <1>6 DEF Dispatcher

(* Every step of a caller inside request() or a drain keeps the types. *)
LEMMA CallerType ==
  ASSUME TypeInv, NEW c \in Callers,
         Register(c) \/ Proceed(c) \/ Timeout(c) \/ Drain(c)
  PROVE  TypeInv'
<1> USE TransportAssumption DEF TypeInv, CoreTypeOK, CallsNumbered, InRequest
<1>1. CASE Register(c)
  <2>1. request_id + 1 \in Ids
    BY <1>1 DEF Register, Ids
  <2>2. /\ pending' \subseteq Ids
        /\ waiter' \in [Ids -> {Empty, Failed} \cup Ids]
    BY <1>1, <2>1 DEF Register, NextRequestId
  <2>5. request_id + 1 \in 0 .. MaxCalls /\ calls + 1 \in 0 .. MaxCalls
    BY <2>1 DEF Ids
  <2>6. /\ rid' \in [Callers -> 0 .. MaxCalls]
        /\ call' \in [Callers -> 0 .. MaxCalls]
    <3>1. \/ rid' = rid /\ call' = call
          \/ /\ rid' = [rid EXCEPT ![c] = request_id + 1]
             /\ call' = [call EXCEPT ![c] = calls + 1]
      BY <1>1 DEF Register, NextRequestId
    <3>2. CASE rid' = rid /\ call' = call
      BY <3>2
    <3>3. CASE /\ rid' = [rid EXCEPT ![c] = request_id + 1]
               /\ call' = [call EXCEPT ![c] = calls + 1]
      <4> DEFINE i == request_id + 1
                 k == calls + 1
      <4> HIDE DEF i, k
      <4>1. i \in 0 .. MaxCalls /\ k \in 0 .. MaxCalls
        BY <2>5 DEF i, k
      <4>2. rid' = [rid EXCEPT ![c] = i] /\ call' = [call EXCEPT ![c] = k]
        BY <3>3 DEF i, k
      <4> QED BY <4>1, <4>2
    <3> QED BY <3>1, <3>2, <3>3
  <2>3. request_id' = calls' /\ request_id' \in 0 .. MaxCalls
    BY <1>1, <2>1 DEF Register
  <2>4. \A d \in Callers : InRequest(d)' =>
          rid'[d] \in 1 .. request_id' /\ call'[d] = rid'[d]
    BY <1>1 DEF Register, NextRequestId, GoTo
  <2> QED BY <1>1, <2>2, <2>3, <2>4, <2>6 DEF Register, GoTo, server, disp
<1>2. CASE CheckFailure(c)
  BY <1>2 DEF CheckFailure, Return, GoTo, client, server, disp, hist
<1>3. CASE Send(c)
  <2>1. rid[c] \in Ids /\ call[c] \in Ids
    BY <1>3 DEF Send, Ids
  <2>2. written' \in [Gens -> SUBSET [id : Ids, call : Ids]]
    <3>1. [id |-> rid[c], call |-> call[c]] \in [id : Ids, call : Ids]
      BY <2>1
    <3>2. CASE CanWrite
      <4>1. written' = [written EXCEPT ![process] =
                          @ \cup {[id |-> rid[c], call |-> call[c]]}]
        BY <1>3, <3>2 DEF Send
      <4> QED BY <3>1, <4>1
    <3>3. CASE ~CanWrite
      BY <1>3, <3>3 DEF Send
    <3> QED BY <3>2, <3>3
  <2> QED BY <1>3, <2>2 DEF Send, Return, GoTo, client, disp, hist
<1>4. CASE Wake(c)
  <2>1. rid[c] \in Ids
    BY <1>4 DEF Wake, Ids
  <2> QED BY <1>4, <2>1 DEF Wake, Return, GoTo, server, disp, hist
<1>5. CASE Unregister(c)
  BY <1>5 DEF Unregister, PendingWithout, GoTo, server, disp
<1>6. CASE CallerSnapshot(c)
  BY <1>6 DEF CallerSnapshot, GoTo, client, server, disp, hist
<1>7. CASE CallerWake(c)
  <2>1. waiter' \in [Ids -> {Empty, Failed} \cup Ids]
    BY <1>7, WakeAllType DEF CallerWake
  <2> QED BY <1>7, <2>1 DEF CallerWake, GoTo, server, disp, hist
<1>8. CASE Timeout(c)
  BY <1>8 DEF Timeout, Return, GoTo, client, server, disp, hist
<1>9. CASE Drain(c)
  BY <1>9 DEF Drain, DrainNotifications, DrainServerRequests, DrainUnknown,
              DrainMatching, RecordFailure, GoTo, server, disp, caller, hist
<1> QED BY <1>1, <1>2, <1>3, <1>4, <1>5, <1>6, <1>7, <1>8, <1>9 DEF Proceed

(* Every step of start() and close() keeps the types. *)
LEMMA OwnerType ==
  ASSUME TypeInv, Start \/ CloseBegin \/ Closing
  PROVE  TypeInv'
<1> USE TransportAssumption DEF TypeInv, CoreTypeOK, CallsNumbered, InRequest
<1>1. CASE Start
  BY SMTT(30), <1>1 DEF Start, DispatcherGoTo, Gens, caller, hist
<1>2. CASE CloseBegin
  BY ZenonT(60), <1>2 DEF CloseBegin, GoTo, client, disp, hist
<1>3. CASE StopProcess
  BY <1>3 DEF StopProcess, Exit, GoTo, client, disp, hist
<1>4. CASE JoinDispatcher
  BY <1>4 DEF JoinDispatcher, GoTo, client, server, disp, hist
<1>5. CASE CloseStdout
  BY <1>5 DEF CloseStdout, GoTo, client, disp, hist
<1>6. CASE CloseSnapshot
  BY <1>6 DEF CloseSnapshot, GoTo, client, server, disp, hist
<1>7. CASE CloseWake
  <2>1. waiter' \in [Ids -> {Empty, Failed} \cup Ids]
    BY <1>7, WakeAllType DEF CloseWake
  <2> QED BY <1>7, <2>1 DEF CloseWake, GoTo, server, disp, hist
<1>8. CASE CloseEnd
  BY <1>8 DEF CloseEnd, GoTo, server, disp, hist
<1> QED BY <1>1, <1>2, <1>3, <1>4, <1>5, <1>6, <1>7, <1>8 DEF Closing

(* The types are kept by every step. *)
LEMMA TypeStep ==
  ASSUME TypeInv, [Next]_vars
  PROVE  TypeInv'
<1>1. CASE UNCHANGED vars
  BY <1>1 DEF TypeInv, CoreTypeOK, CallsNumbered, InRequest, vars, client,
              server, disp, caller, hist
<1>2. CASE Next
  BY <1>2, ServerType, DispatcherType, CallerType, OwnerType DEF Next
<1> QED BY <1>1, <1>2

(* client.py's state stays well typed, and a thread is inside of request()  *)
(* under the number of its own call: request_id never lags behind.          *)
THEOREM TypeCorrect == Spec => []TypeInv
<1>1. Init => TypeInv
  BY TransportAssumption DEF Init, TypeInv, CoreTypeOK, CallsNumbered, InRequest,
                             Ids, Gens, Empty
<1>2. TypeInv /\ [Next]_vars => TypeInv'
  BY TypeStep
<1> QED BY <1>1, <1>2, PTL DEF Spec
------------------------------------------------------------------------------
(* An answer carries the number of the call it answers all the way: in the
   server, in the pipe, in the dispatcher's hands, in the waiter, in the
   caller's. *)
ServersAnswerOwn ==
  /\ \A g \in Gens : \A m \in written[g] : m.id = m.call
  /\ \A g \in Gens : \A i \in 1 .. Len(stdout[g]) :
       stdout[g][i].t = "answer" => stdout[g][i].id = stdout[g][i].call
  /\ \A g \in Gens : dline[g].id = dline[g].call

CallersHoldOwn ==
  /\ \A i \in Ids : waiter[i] \in {Empty, Failed, i}
  /\ \A c \in Callers : got[c] \in {Empty, Failed, rid[c]}
  /\ \A c \in Callers : pc[c] # "finally" => got[c] = Empty

OwnInv == ServersAnswerOwn /\ CallersHoldOwn

LEMMA WakeAllOwn ==
  ASSUME \A i \in Ids : waiter[i] \in {Empty, Failed, i}, NEW S, WakeAll(S)
  PROVE  \A i \in Ids : waiter'[i] \in {Empty, Failed, i}
BY DEF WakeAll

(* What the servers and the pipes hold stays the answer to its own call. *)
LEMMA ServersAnswerOwnStep ==
  ASSUME TypeInv, OwnInv, Next
  PROVE  ServersAnswerOwn'
<1> USE DEF TypeInv, CoreTypeOK, OwnInv, ServersAnswerOwn
<1>1. ASSUME NEW g \in Gens, NEW line \in Lines, Emit(g, line),
             line.t = "answer" => line.id = line.call
      PROVE  ServersAnswerOwn'
  <2>1. stdout' = [stdout EXCEPT ![g] = Append(stdout[g], line)]
    BY <1>1 DEF Emit
  <2>2. \A h \in Gens : \A i \in 1 .. Len(stdout'[h]) :
          stdout'[h][i].t = "answer" => stdout'[h][i].id = stdout'[h][i].call
    <3> SUFFICES ASSUME NEW h \in Gens, NEW i \in 1 .. Len(stdout'[h])
                 PROVE  stdout'[h][i].t = "answer" =>
                          stdout'[h][i].id = stdout'[h][i].call
      OBVIOUS
    <3>1. CASE h # g
      BY <2>1, <3>1
    <3>2. CASE h = g
      <4>1. stdout'[h] = Append(stdout[g], line) /\ stdout[g] \in Seq(Lines)
        BY <2>1, <3>2
      <4>2. \/ i \in 1 .. Len(stdout[g]) /\ stdout'[h][i] = stdout[g][i]
            \/ stdout'[h][i] = line
        BY <4>1
      <4> QED BY <1>1, <4>2
    <3> QED BY <3>1, <3>2
  <2> QED BY <1>1, <2>2 DEF Emit, disp
<1>2. ASSUME NEW g \in Gens, Server(g)
      PROVE  ServersAnswerOwn'
  <2>1. CASE ServerAnswers(g)
    <3>1. PICK m \in written[g] : Emit(g, [t |-> "answer", id |-> m.id, call |-> m.call])
      BY <2>1 DEF ServerAnswers
    <3>2. [t |-> "answer", id |-> m.id, call |-> m.call] \in Lines /\ m.id = m.call
      BY <3>1 DEF Lines
    <3> QED BY <1>1, <3>1, <3>2
  <2>2. CASE ServerNotifies(g)
    <3>1. PICK k \in Kinds : Emit(g, [t |-> "note", kind |-> k, n |-> lines])
      BY <2>2 DEF ServerNotifies
    <3>2. [t |-> "note", kind |-> k, n |-> lines] \in Lines
      BY TransportAssumption DEF Lines, Requests, Notes
    <3> QED BY <1>1, <3>1, <3>2
  <2>3. CASE ServerAsks(g)
    <3>1. [t |-> "ask", n |-> lines] \in Lines
      BY TransportAssumption DEF Lines, Requests, Notes
    <3> QED BY <1>1, <2>3, <3>1 DEF ServerAsks
  <2>4. CASE ServerWritesJunk(g)
    <3>1. [t |-> "unknown"] \in Lines
      BY DEF Lines, Requests, Notes
    <3> QED BY <1>1, <2>4, <3>1 DEF ServerWritesJunk
  <2>5. CASE ServerExits(g)
    BY <2>5 DEF ServerExits, disp
  <2> QED BY <1>2, <2>1, <2>2, <2>3, <2>4, <2>5 DEF Server
<1>3. ASSUME NEW g \in Gens, Dispatcher(g)
      PROVE  ServersAnswerOwn'
  <2>1. CASE RouteMessage(g)
    <3>1. /\ stdout[g] \in Seq(Lines) /\ stdout[g] # <<>>
          /\ stdout' = [stdout EXCEPT ![g] = Tail(stdout[g])]
          /\ UNCHANGED written
      BY <2>1 DEF RouteMessage
    <3>2. \A h \in Gens : \A i \in 1 .. Len(stdout'[h]) :
            stdout'[h][i].t = "answer" => stdout'[h][i].id = stdout'[h][i].call
      <4> SUFFICES ASSUME NEW h \in Gens, NEW i \in 1 .. Len(stdout'[h])
                   PROVE  stdout'[h][i].t = "answer" =>
                            stdout'[h][i].id = stdout'[h][i].call
        OBVIOUS
      <4>1. CASE h # g
        BY <3>1, <4>1
      <4>2. CASE h = g
        <5>1. i + 1 \in 1 .. Len(stdout[g]) /\ stdout'[h][i] = stdout[g][i + 1]
          BY <3>1, <4>2
        <5> QED BY <5>1
      <4> QED BY <4>1, <4>2
    <3>3. \A h \in Gens : dline'[h].id = dline'[h].call
      <4>1. \/ UNCHANGED dline
            \/ /\ Head(stdout[g]).t = "answer"
               /\ dline' = [dline EXCEPT ![g] = [id |-> Head(stdout[g]).id,
                                                 call |-> Head(stdout[g]).call]]
        BY <2>1 DEF RouteMessage
      <4>2. Head(stdout[g]) = stdout[g][1] /\ 1 \in 1 .. Len(stdout[g])
        BY <3>1
      <4>3. Head(stdout[g]).t = "answer" =>
              Head(stdout[g]).id = Head(stdout[g]).call
        BY <4>2
      <4> DEFINE held == [id |-> Head(stdout[g]).id, call |-> Head(stdout[g]).call]
      <4>4. CASE UNCHANGED dline
        BY <4>4
      <4>5. CASE /\ Head(stdout[g]).t = "answer"
                 /\ dline' = [dline EXCEPT ![g] = held]
        <5>1. held.id = held.call
          BY <4>3, <4>5
        <5> HIDE DEF held
        <5> QED BY <4>5, <5>1
      <4> QED BY <4>1, <4>4, <4>5
    <3> QED BY <3>1, <3>2, <3>3
  <2>2. CASE ~RouteMessage(g)
    BY <1>3, <2>2 DEF Dispatcher, Deliver, DispatcherSnapshot, DispatcherWake,
                      EndOfStdout, EofWake, server
  <2> QED BY <2>1, <2>2
<1>4. ASSUME NEW c \in Callers, Send(c)
      PROVE  ServersAnswerOwn'
  <2>1. rid[c] = call[c]
    BY <1>4 DEF Send, CallsNumbered, InRequest
  <2>2. \A g \in Gens : \A m \in written'[g] : m.id = m.call
    <3>1. CASE CanWrite
      <4>1. written' = [written EXCEPT ![process] =
                          @ \cup {[id |-> rid[c], call |-> call[c]]}]
        BY <1>4, <3>1 DEF Send
      <4> QED BY <2>1, <4>1
    <3>2. CASE ~CanWrite
      BY <1>4, <3>2 DEF Send
    <3> QED BY <3>1, <3>2
  <2> QED BY <1>4, <2>2 DEF Send, disp
<1>5. ASSUME NEW c \in Callers,
             Register(c) \/ Proceed(c) \/ Timeout(c) \/ Drain(c), ~Send(c)
      PROVE  ServersAnswerOwn'
  <2>1. CASE Drain(c)
    <3>1. UNCHANGED <<written, stdout, dline>>
      BY <2>1 DEF Drain, DrainNotifications, DrainServerRequests, DrainUnknown,
                  DrainMatching, server, disp
    <3> QED BY <3>1
  <2>2. CASE ~Drain(c)
    <3>1. UNCHANGED <<written, stdout, dline>>
      BY <1>5, <2>2 DEF Register, Proceed, CheckFailure, Wake, Unregister,
                        CallerSnapshot, CallerWake, Timeout, server, disp
    <3> QED BY <3>1
  <2> QED BY <2>1, <2>2
<1>6. ASSUME Start \/ CloseBegin \/ Closing
      PROVE  ServersAnswerOwn'
  BY <1>6 DEF Start, CloseBegin, Closing, StopProcess, JoinDispatcher, CloseStdout,
              CloseSnapshot, CloseWake, CloseEnd, server, disp
<1> QED BY <1>2, <1>3, <1>4, <1>5, <1>6 DEF Next, Proceed

(* What the callers and their waiters hold stays their own answer. *)
LEMMA CallersHoldOwnStep ==
  ASSUME TypeInv, OwnInv, Next
  PROVE  CallersHoldOwn'
<1> USE DEF TypeInv, CoreTypeOK, OwnInv, ServersAnswerOwn, CallersHoldOwn
<1>1. ASSUME NEW g \in Gens, Server(g)
      PROVE  CallersHoldOwn'
  BY <1>1 DEF Server, ServerAnswers, ServerNotifies, ServerAsks, ServerWritesJunk,
              ServerExits, Emit, client, caller
<1>2. ASSUME NEW g \in Gens, Dispatcher(g)
      PROVE  CallersHoldOwn'
  <2>1. CASE Deliver(g)
    <3>1. \/ waiter' = waiter
          \/ waiter' = [waiter EXCEPT ![dline[g].id] = dline[g].call]
      BY <2>1 DEF Deliver
    <3>2. \A i \in Ids : waiter'[i] \in {Empty, Failed, i}
      BY <3>1
    <3> QED BY <2>1, <3>2 DEF Deliver, caller
  <2>2. CASE DispatcherWake(g) \/ EofWake(g)
    BY <2>2, WakeAllOwn DEF DispatcherWake, EofWake, caller
  <2>3. CASE RouteMessage(g) \/ DispatcherSnapshot(g) \/ EndOfStdout(g)
    BY <2>3 DEF RouteMessage, DispatcherSnapshot, EndOfStdout, client, caller
  <2> QED BY <1>2, <2>1, <2>2, <2>3 DEF Dispatcher
<1>3. ASSUME NEW c \in Callers, Register(c)
      PROVE  CallersHoldOwn'
  <2>1. got[c] = Empty
    BY <1>3 DEF Register
  <2>2. \A d \in Callers : got'[d] \in {Empty, Failed, rid'[d]}
    BY <1>3, <2>1 DEF Register
  <2>3. \A i \in Ids : waiter'[i] \in {Empty, Failed, i}
    BY <1>3 DEF Register
  <2>4. \A d \in Callers : pc'[d] # "finally" => got'[d] = Empty
    BY <1>3, <2>1 DEF Register, GoTo
  <2> QED BY <2>2, <2>3, <2>4
<1>4. ASSUME NEW c \in Callers, Wake(c)
      PROVE  CallersHoldOwn'
  <2>1. rid[c] \in Ids
    BY <1>4, TransportAssumption DEF Wake, CallsNumbered, InRequest, Ids
  <2>2. waiter[rid[c]] \in {Empty, Failed, rid[c]}
    BY <2>1
  <2> QED BY <1>4, <2>1, <2>2 DEF Wake, Return, GoTo
<1>5. ASSUME NEW c \in Callers, CheckFailure(c) \/ Send(c) \/ Timeout(c)
      PROVE  CallersHoldOwn'
  BY ZenonT(60), <1>5 DEF CheckFailure, Send, Timeout, Return, GoTo, client
<1>6. ASSUME NEW c \in Callers, Unregister(c)
      PROVE  CallersHoldOwn'
  BY <1>6 DEF Unregister, GoTo
<1>7. ASSUME NEW c \in Callers, CallerSnapshot(c) \/ CallerWake(c) \/ Drain(c)
      PROVE  CallersHoldOwn'
  <2>1. CASE CallerWake(c)
    BY <2>1, WakeAllOwn DEF CallerWake, GoTo
  <2>2. CASE CallerSnapshot(c) \/ Drain(c)
    BY <2>2 DEF CallerSnapshot, Drain, DrainNotifications, DrainServerRequests,
                DrainUnknown, DrainMatching, GoTo, client, caller
  <2> QED BY <1>7, <2>1, <2>2
<1>8. ASSUME Start \/ CloseBegin \/ Closing
      PROVE  CallersHoldOwn'
  <2>1. CASE CloseWake
    BY <2>1, WakeAllOwn, TransportAssumption DEF CloseWake, GoTo
  <2>2. CASE ~CloseWake
    BY <1>8, <2>2, TransportAssumption
       DEF Start, CloseBegin, Closing, StopProcess, JoinDispatcher, CloseStdout,
           CloseSnapshot, CloseEnd, GoTo, client, caller
  <2> QED BY <2>1, <2>2
<1> QED BY <1>1, <1>2, <1>3, <1>4, <1>5, <1>6, <1>7, <1>8 DEF Next, Proceed

LEMMA OwnAlways == Spec => []OwnInv
<1>1. Init => OwnInv
  BY DEF Init, OwnInv, ServersAnswerOwn, CallersHoldOwn
<1>2. TypeInv /\ OwnInv /\ [Next]_vars => OwnInv'
  <2>1. ASSUME OwnInv, UNCHANGED vars
        PROVE  OwnInv'
    BY <2>1 DEF OwnInv, ServersAnswerOwn, CallersHoldOwn, vars, client, server,
                disp, caller, hist
  <2> QED BY <2>1, ServersAnswerOwnStep, CallersHoldOwnStep DEF OwnInv
<1> QED BY <1>1, <1>2, TypeCorrect, PTL DEF Spec

(* tests of client.py time requests out; whatever arrives afterwards, from   *)
(* this process or the next: a caller never gets the answer to another call. *)
THEOREM AnswersAreOwn == Spec => []AnswerIsOwn
<1>1. TypeInv /\ OwnInv => AnswerIsOwn
  BY DEF TypeInv, CallsNumbered, InRequest, OwnInv, CallersHoldOwn, AnswerIsOwn,
         Empty, Failed
<1> QED BY <1>1, OwnAlways, TypeCorrect, PTL
------------------------------------------------------------------------------
(* Two threads are never inside of request() under the same number. *)
RequestsApart ==
  \A c, d \in Callers : InRequest(c) /\ InRequest(d) /\ rid[c] = rid[d] => c = d

PendingInv == RequestsApart /\ PendingIsInFlight

(* A step that moves no thread into or out of request() leaves _pending as   *)
(* exact as it was.                                                          *)
LEMMA PendingKept ==
  ASSUME PendingInv, UNCHANGED <<pending, rid>>,
         \A c \in Callers : InRequest(c)' <=> InRequest(c)
  PROVE  PendingInv'
BY DEF PendingInv, RequestsApart, PendingIsInFlight

(* Both inclusions of PendingIsInFlight, in the next state. *)
LEMMA PendingExact ==
  ASSUME \A i \in pending' : \E d \in Callers : InRequest(d)' /\ i = rid'[d],
         \A d \in Callers : InRequest(d)' => rid'[d] \in pending'
  PROVE  PendingIsInFlight'
<1>1. pending' \subseteq {rid'[c] : c \in {d \in Callers : InRequest(d)'}}
  OBVIOUS
<1>2. {rid'[c] : c \in {d \in Callers : InRequest(d)'}} \subseteq pending'
  OBVIOUS
<1> QED BY <1>1, <1>2 DEF PendingIsInFlight

LEMMA PendingStep ==
  ASSUME TypeInv, PendingInv, Next
  PROVE  PendingInv'
<1> USE DEF TypeInv, CoreTypeOK
<1>1. ASSUME NEW c \in Callers, Register(c)
      PROVE  PendingInv'
  <2>1. CASE pending' = pending
    <3>1. \A d \in Callers : InRequest(d) => rid[d] # request_id + 1
      BY TransportAssumption DEF CallsNumbered
    <3>2. request_id + 1 \notin pending
      BY <3>1 DEF PendingInv, PendingIsInFlight
    <3>3. UNCHANGED <<pending, rid, pc>>
      BY <1>1, <2>1, <3>2 DEF Register, NextRequestId
    <3> QED BY <3>3, PendingKept DEF InRequest
  <2>2. CASE pending' # pending
    <3>1. /\ pending' = pending \cup {request_id + 1}
          /\ rid' = [rid EXCEPT ![c] = request_id + 1]
          /\ pc' = [pc EXCEPT ![c] = "check"]
          /\ ~InRequest(c)
      BY <1>1, <2>2 DEF Register, NextRequestId, GoTo, InRequest
    <3>2. \A d \in Callers : d # c =>
            rid'[d] = rid[d] /\ (InRequest(d)' <=> InRequest(d))
      BY <3>1 DEF InRequest
    <3>3. rid'[c] = request_id + 1 /\ InRequest(c)'
      BY <3>1 DEF InRequest
    <3>4. \A d \in Callers : InRequest(d) => rid[d] # request_id + 1
      BY TransportAssumption DEF CallsNumbered
    <3>5. RequestsApart'
      BY <3>2, <3>3, <3>4 DEF PendingInv, RequestsApart
    <3>6. \A i \in pending' : \E d \in Callers : InRequest(d)' /\ i = rid'[d]
      BY <3>1, <3>2, <3>3 DEF PendingInv, PendingIsInFlight
    <3>7. \A d \in Callers : InRequest(d)' => rid'[d] \in pending'
      BY <3>1, <3>2, <3>3 DEF PendingInv, PendingIsInFlight
    <3>8. PendingIsInFlight'
      BY <3>6, <3>7, PendingExact
    <3> QED BY <3>5, <3>8 DEF PendingInv
  <2> QED BY <2>1, <2>2
<1>2. ASSUME NEW c \in Callers, Unregister(c)
      PROVE  PendingInv'
  <2>1. /\ pending' = pending \ {rid[c]}
        /\ rid' = [rid EXCEPT ![c] = 0]
        /\ pc' = [pc EXCEPT ![c] = "idle"]
        /\ InRequest(c)
    BY <1>2 DEF Unregister, PendingWithout, GoTo, InRequest
  <2>2. \A d \in Callers : d # c =>
          rid'[d] = rid[d] /\ (InRequest(d)' <=> InRequest(d))
    BY <2>1 DEF InRequest
  <2>3. ~InRequest(c)'
    BY <2>1 DEF InRequest
  <2>4. \A d \in Callers : InRequest(d) /\ d # c => rid[d] # rid[c]
    BY <2>1 DEF PendingInv, RequestsApart
  <2>5. RequestsApart'
    BY <2>2, <2>3 DEF PendingInv, RequestsApart
  <2>6. \A i \in pending' : \E d \in Callers : InRequest(d)' /\ i = rid'[d]
    BY <2>1, <2>2 DEF PendingInv, PendingIsInFlight
  <2>7. \A d \in Callers : InRequest(d)' => rid'[d] \in pending'
    BY <2>1, <2>2, <2>3, <2>4 DEF PendingInv, PendingIsInFlight
  <2>8. PendingIsInFlight'
    BY <2>6, <2>7, PendingExact
  <2> QED BY <2>5, <2>8 DEF PendingInv
<1>3. ASSUME NEW c \in Callers,
             CheckFailure(c) \/ Send(c) \/ Wake(c) \/ Timeout(c)
      PROVE  PendingInv'
  <2>1. UNCHANGED <<pending, rid>>
    BY <1>3 DEF CheckFailure, Send, Wake, Timeout, client
  <2>2. \A d \in Callers : InRequest(d)' <=> InRequest(d)
    BY <1>3 DEF CheckFailure, Send, Wake, Timeout, Return, GoTo, InRequest
  <2> QED BY <2>1, <2>2, PendingKept
<1>4. ASSUME NEW c \in Callers, CallerSnapshot(c) \/ CallerWake(c) \/ Drain(c)
      PROVE  PendingInv'
  <2>1. UNCHANGED <<pending, rid>>
    BY <1>4 DEF CallerSnapshot, CallerWake, Drain, DrainNotifications,
                DrainServerRequests, DrainUnknown, DrainMatching, client, caller
  <2>2. \A d \in Callers : InRequest(d)' <=> InRequest(d)
    BY <1>4 DEF CallerSnapshot, CallerWake, Drain, DrainNotifications,
                DrainServerRequests, DrainUnknown, DrainMatching, GoTo, InRequest,
                caller
  <2> QED BY <2>1, <2>2, PendingKept
<1>5. ASSUME Start \/ CloseBegin \/ Closing
      PROVE  PendingInv'
  <2>1. UNCHANGED <<pending, rid>>
    BY <1>5 DEF Start, CloseBegin, Closing, StopProcess, JoinDispatcher,
                CloseStdout, CloseSnapshot, CloseWake, CloseEnd, client, caller
  <2>2. \A d \in Callers : InRequest(d)' <=> InRequest(d)
    BY <1>5, TransportAssumption
       DEF Start, CloseBegin, Closing, StopProcess, JoinDispatcher, CloseStdout,
           CloseSnapshot, CloseWake, CloseEnd, GoTo, InRequest, caller
  <2> QED BY <2>1, <2>2, PendingKept
<1>6. ASSUME NEW g \in Gens, Server(g) \/ Dispatcher(g)
      PROVE  PendingInv'
  <2>1. UNCHANGED <<pending, rid, pc>>
    BY <1>6 DEF Server, ServerAnswers, ServerNotifies, ServerAsks,
                ServerWritesJunk, ServerExits, Emit, Dispatcher, RouteMessage,
                Deliver, DispatcherSnapshot, DispatcherWake, EndOfStdout, EofWake,
                client, caller
  <2> QED BY <2>1, PendingKept DEF InRequest
<1> QED BY <1>1, <1>2, <1>3, <1>4, <1>5, <1>6 DEF Next, Proceed

LEMMA PendingAlways == Spec => []PendingInv
<1>1. Init => PendingInv
  BY DEF Init, PendingInv, RequestsApart, PendingIsInFlight, InRequest
<1>2. TypeInv /\ PendingInv /\ [Next]_vars => PendingInv'
  <2>1. ASSUME PendingInv, UNCHANGED vars
        PROVE  PendingInv'
    BY <2>1, PendingKept DEF InRequest, vars, client, caller
  <2> QED BY <2>1, PendingStep
<1> QED BY <1>1, <1>2, TypeCorrect, PTL DEF Spec

(* README.md "pending request cleanup": on every way out of request() the    *)
(* waiter is taken back, and nobody else's with it.                          *)
THEOREM PendingIsExact == Spec => []PendingIsInFlight
<1>1. PendingInv => PendingIsInFlight
  BY DEF PendingInv
<1> QED BY <1>1, PendingAlways, PTL
------------------------------------------------------------------------------
(* What is written is the request of a call that has begun, and a call that  *)
(* has not come to its write has not been written.                           *)
AskedInv ==
  /\ Asked \subseteq 1 .. calls
  /\ \A c \in Callers : pc[c] \in {"check", "send"} => call[c] \notin Asked

(* A write to the running process adds its call to those asked. *)
LEMMA AskedGrows ==
  ASSUME TypeInv, NEW m \in [id : Ids, call : Ids], process \in Gens,
         written' = [written EXCEPT ![process] = @ \cup {m}]
  PROVE  Asked' = Asked \cup {m.call}
<1> USE DEF TypeInv, CoreTypeOK
<1>1. \A g \in Gens : written'[g] = IF g = process THEN written[g] \cup {m}
                                                   ELSE written[g]
  OBVIOUS
<1>2. \A n \in Asked' : n \in Asked \cup {m.call}
  BY <1>1 DEF Asked
<1>3. \A n \in Asked \cup {m.call} : n \in Asked'
  BY <1>1 DEF Asked
<1> QED BY <1>2, <1>3

(* Only a successful Send changes what is asked. *)
LEMMA SendAsks ==
  ASSUME TypeInv, NEW c \in Callers, Send(c), CanWrite
  PROVE  Asked' = Asked \cup {call[c]}
<1> DEFINE m == [id |-> rid[c], call |-> call[c]]
<1>1. m \in [id : Ids, call : Ids] /\ m.call = call[c]
  BY DEF Send, TypeInv, CoreTypeOK, CallsNumbered, InRequest, Ids
<1>2. process \in Gens
  BY TransportAssumption DEF CanWrite, TypeInv, CoreTypeOK, Gens
<1>3. written' = [written EXCEPT ![process] = @ \cup {m}]
  BY DEF Send
<1> HIDE DEF m
<1> QED BY <1>1, <1>2, <1>3, AskedGrows

(* No step outside of request() touches what Rpc describes. *)
Outside ==
  \/ \E g \in Gens : Server(g) \/ Dispatcher(g)
  \/ \E c \in Callers : CallerSnapshot(c) \/ CallerWake(c) \/ Drain(c)
  \/ Start \/ CloseBegin \/ Closing

LEMMA OutsideStays ==
  ASSUME TypeInv, Outside
  PROVE  /\ UNCHANGED <<written, calls, call, got>>
         /\ \A d \in Callers : PhaseOf(d)' = PhaseOf(d)
<1> USE DEF TypeInv, CoreTypeOK
<1>1. ASSUME NEW g \in Gens, Server(g) \/ Dispatcher(g)
      PROVE  UNCHANGED <<written, calls, call, got, pc>>
  BY <1>1 DEF Server, ServerAnswers, ServerNotifies, ServerAsks,
              ServerWritesJunk, ServerExits, Emit, Dispatcher, RouteMessage,
              Deliver, DispatcherSnapshot, DispatcherWake, EndOfStdout, EofWake,
              client, server, caller, hist
<1>2. ASSUME NEW c \in Callers, CallerSnapshot(c) \/ CallerWake(c) \/ Drain(c)
      PROVE  /\ UNCHANGED <<written, calls, call, got>>
             /\ \A d \in Callers : PhaseOf(d)' = PhaseOf(d)
  BY <1>2 DEF CallerSnapshot, CallerWake, Drain, DrainNotifications,
              DrainServerRequests, DrainUnknown, DrainMatching, GoTo, PhaseOf,
              server, caller, hist
<1>3. ASSUME Start \/ CloseBegin \/ Closing
      PROVE  /\ UNCHANGED <<written, calls, call, got>>
             /\ \A d \in Callers : PhaseOf(d)' = PhaseOf(d)
  BY <1>3, TransportAssumption
     DEF Start, CloseBegin, Closing, StopProcess, JoinDispatcher, CloseStdout,
         CloseSnapshot, CloseWake, CloseEnd, GoTo, PhaseOf, server, caller, hist
<1> QED BY <1>1, <1>2, <1>3 DEF Outside, PhaseOf

(* What is asked is of calls that have begun, and never too early. *)
LEMMA AskedStep ==
  ASSUME TypeInv, PendingInv, AskedInv, Next
  PROVE  AskedInv'
<1> USE DEF AskedInv
<1>1. ASSUME UNCHANGED written
      PROVE  Asked' = Asked
  BY <1>1 DEF Asked
<1>2. ASSUME NEW c \in Callers, Register(c)
      PROVE  AskedInv'
  <2>1. UNCHANGED written /\ calls' = calls + 1 /\ calls \in Nat
    BY <1>2, TransportAssumption DEF Register, server, TypeInv, CoreTypeOK
  <2>2. Asked' = Asked
    BY <2>1, <1>1
  <2>3. calls + 1 \notin Asked /\ Asked' \subseteq 1 .. calls'
    BY <2>1, <2>2
  <2>4. ASSUME NEW d \in Callers, pc'[d] \in {"check", "send"}
        PROVE  call'[d] \notin Asked'
    <3>1. \/ pc'[d] = pc[d] /\ call'[d] = call[d]
          \/ call'[d] = calls + 1
      BY <1>2 DEF Register, GoTo, TypeInv, CoreTypeOK
    <3> QED BY <2>2, <2>3, <2>4, <3>1
  <2> QED BY <2>3, <2>4
<1>3. ASSUME NEW c \in Callers, Send(c)
      PROVE  AskedInv'
  <2>1. /\ UNCHANGED <<calls, call>> /\ InRequest(c)
        /\ \A d \in Callers : d # c => pc'[d] = pc[d]
        /\ pc'[c] \in {"wait", "finally"}
    BY <1>3 DEF Send, Return, GoTo, hist, InRequest, TypeInv, CoreTypeOK
  <2>2. CASE CanWrite
    <3>1. Asked' = Asked \cup {call[c]} /\ call[c] \in 1 .. calls
      BY <1>3, <2>1, <2>2, SendAsks DEF TypeInv, CallsNumbered
    <3>2. ASSUME NEW d \in Callers, pc'[d] \in {"check", "send"}
          PROVE  call'[d] \notin Asked'
      <4>1. d # c /\ pc[d] \in {"check", "send"} /\ InRequest(d)
        BY <2>1, <3>2 DEF InRequest
      <4>2. call[d] # call[c]
        BY <2>1, <4>1 DEF PendingInv, RequestsApart, TypeInv, CallsNumbered
      <4> QED BY <2>1, <3>1, <4>1, <4>2
    <3> QED BY <2>1, <3>1, <3>2
  <2>3. CASE ~CanWrite
    <3>1. Asked' = Asked
      BY <1>1, <1>3, <2>3 DEF Send
    <3> QED BY <2>1, <3>1
  <2> QED BY <2>2, <2>3
<1>4. ASSUME NEW c \in Callers,
             CheckFailure(c) \/ Wake(c) \/ Timeout(c) \/ Unregister(c)
      PROVE  AskedInv'
  <2>1. /\ UNCHANGED <<written, calls>>
        /\ \A d \in Callers : pc'[d] \in {"check", "send"} =>
             pc[d] \in {"check", "send"} /\ call'[d] = call[d]
    BY <1>4 DEF CheckFailure, Wake, Timeout, Unregister, Return, GoTo, server, hist,
                TypeInv, CoreTypeOK
  <2> QED BY <1>1, <2>1
<1>5. ASSUME /\ UNCHANGED <<written, calls, call>>
             /\ \A d \in Callers : PhaseOf(d)' = PhaseOf(d)
      PROVE  AskedInv'
  <2>1. \A d \in Callers : pc'[d] \in {"check", "send"} <=> pc[d] \in {"check", "send"}
    BY <1>5 DEF PhaseOf
  <2> QED BY <1>1, <1>5, <2>1
<1>6. CASE Outside
  BY <1>5, <1>6, OutsideStays
<1> QED BY <1>2, <1>3, <1>4, <1>6 DEF Next, Proceed, Outside

LEMMA AskedAlways == Spec => []AskedInv
<1>1. Init => AskedInv
  BY DEF Init, AskedInv, Asked
<1>2. TypeInv /\ PendingInv /\ AskedInv /\ [Next]_vars => AskedInv'
  <2>1. ASSUME AskedInv, UNCHANGED vars PROVE AskedInv'
    BY <2>1 DEF AskedInv, Asked, vars, server, caller, hist
  <2> QED BY <2>1, AskedStep
<1> QED BY <1>1, <1>2, TypeCorrect, PendingAlways, PTL DEF Spec
------------------------------------------------------------------------------
(* The threads and pipes as far as a wakeup depends on them: an answer read
   or still in a pipe is of a call that was written; close() has closed the
   stdin it found; a dispatcher runs once its process is started, and what it
   delivers has the number of a request. *)
AnswersAsked ==
  /\ routed \in Seq(Lines)
  /\ \A g \in Gens : \A i \in 1 .. Len(stdout[g]) :
       stdout[g][i].t = "answer" => stdout[g][i].call \in Asked
  /\ \A i \in 1 .. Len(routed) : routed[i].t = "answer" => routed[i].call \in Asked

ClosingIsDeaf ==
  pc[Owner] \in {"stopping", "join", "closing", "closesnap", "closewake", "closed"} =>
    process # 0 /\ ~stdinOpen[process]

DispatchersReal ==
  /\ \A g \in Gens : g > starts => dpc[g] = "none"
  /\ \A g \in Gens : dpc[g] = "deliver" => dline[g].id \in Ids

(* The reasons for which c must be woken. They begin before it waits: the    *)
(* failure may come between its look at transport_failure and its write; and *)
(* close() owes a wakeup from its snapshot on.                               *)
Owed(c) ==
  \/ pc[c] \in {"send", "wait"} /\ transport_failure # 0
  \/ /\ pc[c] = "wait"
     /\ \/ \E i \in 1 .. Len(routed) :
             routed[i].t = "answer" /\ routed[i].call = call[c]
        \/ process = 0 \/ pc[Owner] \in {"closewake", "closed"}
        \/ [id |-> rid[c], call |-> call[c]] \notin written[process]

OwedWoken == \A c \in Callers : Owed(c) => Woken(rid[c])

FactsInv == TypeInv /\ OwnInv /\ PendingInv /\ AskedInv
StrandedInv == AnswersAsked /\ ClosingIsDeaf /\ DispatchersReal /\ OwedWoken

(* Puts empty no waiter and reach everyone in the snapshot. *)
LEMMA WakeAllReaches ==
  ASSUME NEW S, WakeAll(S), NEW i \in Ids,
         waiter[i] # Empty \/ i \in S
  PROVE  waiter'[i] # Empty
BY DEF WakeAll, Empty, Failed

(* What ends the wait of a registered request stays there or on its way: no  *)
(* step but the owner's own takes it back.                                   *)
LEMMA WokenStays ==
  ASSUME FactsInv, DispatchersReal, Next, NEW c \in Callers,
         pc[c] \in {"send", "wait"}, pc'[c] \in {"send", "wait"},
         Woken(rid[c])
  PROVE  Woken(rid[c])'
<1> DEFINE i == rid[c]
<1> USE DEF FactsInv, TypeInv, CoreTypeOK
<1>1. i \in Ids /\ i \in pending /\ i <= request_id
  BY TransportAssumption DEF CallsNumbered, InRequest, Ids, PendingInv, PendingIsInFlight
<1>2. ASSUME NEW g \in Gens, Server(g)
      PROVE  Woken(i)' /\ rid' = rid
  BY <1>2 DEF Server, ServerAnswers, ServerNotifies, ServerAsks, ServerWritesJunk,
              ServerExits, Emit, client, disp, caller, Woken
<1>3. ASSUME NEW g \in Gens, Dispatcher(g)
      PROVE  Woken(i)' /\ rid' = rid
  <2>1. CASE RouteMessage(g)
    <3>1. /\ dpc[g] = "read" /\ UNCHANGED <<waiter, dsnap, caller>>
          /\ \A h \in Gens : h # g => dpc'[h] = dpc[h] /\ dline'[h] = dline[h]
      BY <2>1 DEF RouteMessage, PutTransportEvent, DispatcherGoTo
    <3> QED BY <3>1 DEF Woken, caller
  <2>2. CASE Deliver(g)
    <3>1. dline[g].id = i => dline[g].call # Empty
      BY <1>1 DEF OwnInv, ServersAnswerOwn, Ids, Empty
    <3>2. /\ dpc[g] = "deliver" /\ UNCHANGED <<dsnap, dline, caller>>
          /\ \A h \in Gens : h # g => dpc'[h] = dpc[h]
      BY <2>2 DEF Deliver, DispatcherGoTo
    <3>3. \/ waiter' = [waiter EXCEPT ![dline[g].id] = dline[g].call]
          \/ waiter' = waiter /\ waiter[dline[g].id] # Empty
      BY <2>2 DEF Deliver
    <3>4. waiter[i] # Empty \/ dline[g].id = i => waiter'[i] # Empty
      BY <1>1, <2>2, <3>1, <3>3 DEF OwnInv, ServersAnswerOwn, DispatchersReal, Ids, Empty, Deliver
    <3> QED BY <3>2, <3>4 DEF Woken, caller
  <2>3. CASE DispatcherSnapshot(g)
    BY <1>1, <2>3 DEF DispatcherSnapshot, DispatcherGoTo, client, caller, Woken
  <2>4. CASE DispatcherWake(g) \/ EofWake(g)
    <3>1. /\ dpc[g] \in {"wake", "eofwake"} /\ UNCHANGED <<dline, caller>>
          /\ \A h \in Gens : h # g => dpc'[h] = dpc[h] /\ dsnap'[h] = dsnap[h]
          /\ WakeAll(dsnap[g])
      BY <2>4 DEF DispatcherWake, EofWake, DispatcherGoTo
    <3>2. waiter[i] # Empty \/ i \in dsnap[g] => waiter'[i] # Empty
      BY <1>1, <3>1, WakeAllReaches
    <3> QED BY <3>1, <3>2 DEF Woken, caller
  <2>5. CASE EndOfStdout(g)
    BY <1>1, <2>5 DEF EndOfStdout, DispatcherGoTo, client, caller, Woken
  <2> QED BY <1>3, <2>1, <2>2, <2>3, <2>4, <2>5 DEF Dispatcher
<1>4. ASSUME NEW d \in Callers, Register(d)
      PROVE  Woken(i)' /\ rid'[c] = rid[c]
  <2>1. pc[d] = "idle" /\ UNCHANGED <<disp, snap>> /\ d # c
    BY <1>4 DEF Register
  <2>2. \A e \in Callers : e # d => pc'[e] = pc[e] /\ rid'[e] = rid[e]
    BY <1>4 DEF Register, GoTo
  <2>3. waiter'[i] = waiter[i]
    <3>1. i # request_id + 1
      BY <1>1 DEF Ids
    <3> QED BY <1>1, <1>4, <3>1 DEF Register, NextRequestId
  <2> QED BY <2>1, <2>2, <2>3 DEF Woken, disp
<1>5. ASSUME NEW d \in Callers, Wake(d)
      PROVE  Woken(i)' /\ rid' = rid
  <2>1. pc[d] = "wait" /\ d # c /\ UNCHANGED <<disp, snap, rid>>
    BY <1>5 DEF Wake, Return, GoTo
  <2>2. rid[d] # i
    BY <2>1 DEF PendingInv, RequestsApart, InRequest
  <2>3. waiter'[i] = waiter[i] /\ \A e \in Callers : e # d => pc'[e] = pc[e]
    BY <1>1, <1>5, <2>2 DEF Wake, Return, GoTo
  <2> QED BY <2>1, <2>3 DEF Woken, disp
<1>6. ASSUME NEW d \in Callers,
             CheckFailure(d) \/ Send(d) \/ Timeout(d) \/ Unregister(d)
      PROVE  Woken(i)' /\ rid'[c] = rid[c]
  <2>1. /\ pc[d] \in {"check", "send", "wait", "finally"}
        /\ UNCHANGED <<waiter, disp, snap>>
        /\ \A e \in Callers : e # d => pc'[e] = pc[e]
    BY <1>6 DEF CheckFailure, Send, Timeout, Unregister, Return, GoTo, client
  <2>2. rid'[c] = rid[c]
    BY <1>6 DEF CheckFailure, Send, Timeout, Unregister, GoTo
  <2> QED BY <2>1, <2>2 DEF Woken, disp
<1>7. ASSUME NEW d \in Callers, CallerSnapshot(d) \/ CallerWake(d) \/ Drain(d)
      PROVE  Woken(i)' /\ rid' = rid
  <2>1. CASE CallerSnapshot(d)
    BY <1>1, <2>1 DEF CallerSnapshot, GoTo, client, disp, Woken
  <2>2. CASE CallerWake(d)
    <3>1. /\ pc[d] = "wake" /\ UNCHANGED <<disp, rid>> /\ WakeAll(snap[d])
          /\ \A e \in Callers : e # d => pc'[e] = pc[e] /\ snap'[e] = snap[e]
      BY <2>2 DEF CallerWake, GoTo
    <3>2. waiter[i] # Empty \/ i \in snap[d] => waiter'[i] # Empty
      BY <1>1, <3>1, WakeAllReaches
    <3> QED BY <3>1, <3>2 DEF Woken, disp
  <2>3. CASE Drain(d)
    <3>1. /\ pc[d] = "idle" /\ UNCHANGED <<waiter, disp, rid, snap>>
          /\ \A e \in Callers : e # d => pc'[e] = pc[e]
      BY <2>3 DEF Drain, DrainNotifications, DrainServerRequests, DrainUnknown,
                  DrainMatching, GoTo, caller
    <3> QED BY <3>1 DEF Woken, disp
  <2> QED BY <1>7, <2>1, <2>2, <2>3
<1>8. CASE Start
  <2>1. starts + 1 \in Gens /\ dpc[starts + 1] = "none"
    BY <1>8, TransportAssumption DEF Start, Gens, DispatchersReal
  <2>2. /\ UNCHANGED <<waiter, dline, dsnap, caller>>
        /\ \A h \in Gens : h # starts + 1 => dpc'[h] = dpc[h]
    BY <1>8 DEF Start, DispatcherGoTo
  <2> QED BY <2>1, <2>2 DEF Woken, caller
<1>9. CASE CloseBegin \/ Closing
  <2>1. CASE CloseSnapshot
    BY <1>1, <2>1, TransportAssumption DEF CloseSnapshot, GoTo, client, disp, Woken
  <2>2. CASE CloseWake
    <3>1. /\ pc[Owner] = "closewake" /\ UNCHANGED <<disp, rid>> /\ WakeAll(snap[Owner])
          /\ \A e \in Callers : e # Owner => pc'[e] = pc[e] /\ snap'[e] = snap[e]
      BY <2>2 DEF CloseWake, GoTo
    <3>2. waiter[i] # Empty \/ i \in snap[Owner] => waiter'[i] # Empty
      BY <1>1, <3>1, WakeAllReaches
    <3> QED BY <3>1, <3>2 DEF Woken, disp
  <2>3. CASE CloseBegin \/ StopProcess \/ JoinDispatcher \/ CloseStdout \/ CloseEnd
    <3>1. /\ pc[Owner] \in {"idle", "stopping", "join", "closing", "closed"}
          /\ UNCHANGED <<waiter, disp, rid, snap>>
          /\ \A e \in Callers : e # Owner => pc'[e] = pc[e]
      BY <2>3 DEF CloseBegin, StopProcess, JoinDispatcher, CloseStdout, CloseEnd,
                  GoTo, client, caller
    <3> QED BY <3>1 DEF Woken, disp
  <2> QED BY <1>9, <2>1, <2>2, <2>3 DEF Closing
<1> QED BY <1>2, <1>3, <1>4, <1>5, <1>6, <1>7, <1>8, <1>9 DEF Next, Proceed, Woken

(* Whatever is written stays asked. *)
LEMMA AskedStays ==
  ASSUME FactsInv, Next
  PROVE  Asked \subseteq Asked'
<1> USE DEF FactsInv
<1>1. ASSUME UNCHANGED written
      PROVE  Asked' = Asked
  BY <1>1 DEF Asked
<1>2. ASSUME NEW c \in Callers, Send(c)
      PROVE  Asked \subseteq Asked'
  BY <1>1, <1>2, SendAsks DEF Send
<1>3. ASSUME NEW c \in Callers,
             Register(c) \/ CheckFailure(c) \/ Wake(c) \/ Timeout(c) \/ Unregister(c)
      PROVE  UNCHANGED written
  BY <1>3 DEF Register, CheckFailure, Wake, Timeout, Unregister, server
<1> QED BY <1>1, <1>2, <1>3, OutsideStays DEF Next, Proceed, Outside

(* An answer is read or in a pipe only once its call has been written. *)
LEMMA AnswersAskedStep ==
  ASSUME FactsInv, AnswersAsked, Next
  PROVE  AnswersAsked'
<1> USE DEF FactsInv, TypeInv, CoreTypeOK, AnswersAsked
<1>0. Asked \subseteq Asked'
  BY AskedStays
<1>1. ASSUME NEW g \in Gens, NEW line \in Lines, Emit(g, line),
             line.t = "answer" => line.call \in Asked
      PROVE  AnswersAsked'
  <2>1. stdout' = [stdout EXCEPT ![g] = Append(stdout[g], line)] /\ UNCHANGED routed
    BY <1>1 DEF Emit
  <2>2. ASSUME NEW h \in Gens, NEW i \in 1 .. Len(stdout'[h]),
               stdout'[h][i].t = "answer"
        PROVE  stdout'[h][i].call \in Asked
    <3>1. CASE h # g
      BY <2>1, <2>2, <3>1
    <3>2. CASE h = g
      <4>1. stdout'[h] = Append(stdout[g], line) /\ stdout[g] \in Seq(Lines)
        BY <2>1, <3>2
      <4>2. \/ i \in 1 .. Len(stdout[g]) /\ stdout'[h][i] = stdout[g][i]
            \/ stdout'[h][i] = line
        BY SMTT(30), <4>1
      <4> QED BY <1>1, <2>2, <4>2
    <3> QED BY <3>1, <3>2
  <2> QED BY <1>0, <2>1, <2>2
<1>2. ASSUME NEW g \in Gens, ServerAnswers(g)
      PROVE  AnswersAsked'
  <2>1. PICK m \in written[g] : Emit(g, [t |-> "answer", id |-> m.id, call |-> m.call])
    BY <1>2 DEF ServerAnswers
  <2>2. [t |-> "answer", id |-> m.id, call |-> m.call] \in Lines /\ m.call \in Asked
    BY <2>1 DEF Lines, Asked
  <2> QED BY <1>1, <2>1, <2>2
<1>3. ASSUME NEW g \in Gens, ServerNotifies(g) \/ ServerAsks(g) \/ ServerWritesJunk(g)
      PROVE  AnswersAsked'
  <2>1. PICK line \in Lines : Emit(g, line) /\ line.t # "answer"
    <3>1. ASSUME NEW k \in Kinds
          PROVE  [t |-> "note", kind |-> k, n |-> lines] \in Lines
      BY TransportAssumption DEF Lines, Requests, Notes
    <3>2. [t |-> "ask", n |-> lines] \in Lines /\ [t |-> "unknown"] \in Lines
      BY TransportAssumption DEF Lines, Requests, Notes
    <3> QED BY <1>3, <3>1, <3>2 DEF ServerNotifies, ServerAsks, ServerWritesJunk
  <2> QED BY <1>1, <2>1
<1>4. ASSUME NEW g \in Gens, RouteMessage(g)
      PROVE  AnswersAsked'
  <2>1. /\ stdout[g] \in Seq(Lines) /\ stdout[g] # <<>>
        /\ stdout' = [stdout EXCEPT ![g] = Tail(stdout[g])]
        /\ routed' = Append(routed, Head(stdout[g]))
    BY <1>4 DEF RouteMessage
  <2>2. ASSUME NEW h \in Gens, NEW i \in 1 .. Len(stdout'[h]),
               stdout'[h][i].t = "answer"
        PROVE  stdout'[h][i].call \in Asked
    <3>1. CASE h # g
      BY <2>1, <2>2, <3>1
    <3>2. CASE h = g
      <4>1. i + 1 \in 1 .. Len(stdout[g]) /\ stdout'[h][i] = stdout[g][i + 1]
        BY <2>1, <3>2
      <4> QED BY <2>2, <4>1
    <3> QED BY <3>1, <3>2
  <2>3. ASSUME NEW i \in 1 .. Len(routed'), routed'[i].t = "answer"
        PROVE  routed'[i].call \in Asked
    <3>1. Head(stdout[g]) = stdout[g][1] /\ 1 \in 1 .. Len(stdout[g])
      BY <2>1
    <3>2. routed \in Seq(Lines) /\ Head(stdout[g]) \in Lines
      BY <2>1, <3>1
    <3>3. \/ i \in 1 .. Len(routed) /\ routed'[i] = routed[i]
          \/ routed'[i] = Head(stdout[g])
      BY <2>1, <3>2
    <3> QED BY <2>3, <3>1, <3>3
  <2>4. routed' \in Seq(Lines)
    BY <2>1
  <2> QED BY <1>0, <2>2, <2>3, <2>4
<1>5. ASSUME UNCHANGED <<stdout, routed>>
      PROVE  AnswersAsked'
  BY <1>0, <1>5
<1>6. ASSUME NEW g \in Gens, ServerExits(g) \/ (Dispatcher(g) /\ ~RouteMessage(g))
      PROVE  UNCHANGED <<stdout, routed>>
  BY <1>6 DEF ServerExits, Dispatcher, Deliver, DispatcherSnapshot, DispatcherWake,
              EndOfStdout, EofWake, server, hist
<1>7. ASSUME NEW c \in Callers, Register(c) \/ Proceed(c) \/ Timeout(c) \/ Drain(c)
      PROVE  UNCHANGED <<stdout, routed>>
  BY <1>7 DEF Register, Proceed, CheckFailure, Send, Wake, Unregister, CallerSnapshot,
              CallerWake, Timeout, Drain, DrainNotifications, DrainServerRequests,
              DrainUnknown, DrainMatching, server, hist
<1>8. ASSUME Start \/ CloseBegin \/ Closing
      PROVE  UNCHANGED <<stdout, routed>>
  BY <1>8 DEF Start, CloseBegin, Closing, StopProcess, JoinDispatcher, CloseStdout,
              CloseSnapshot, CloseWake, CloseEnd, server, hist
<1> QED BY <1>2, <1>3, <1>4, <1>5, <1>6, <1>7, <1>8 DEF Next, Server

(* From CloseBegin to CloseEnd the process is one nobody can write to. *)
LEMMA ClosingIsDeafStep ==
  ASSUME TypeInv, ClosingIsDeaf, Next
  PROVE  ClosingIsDeaf'
<1> USE TransportAssumption DEF TypeInv, CoreTypeOK, ClosingIsDeaf
<1>1. ASSUME NEW g \in Gens, Server(g) \/ Dispatcher(g)
      PROVE  UNCHANGED <<pc, process, stdinOpen>>
  BY <1>1 DEF Server, ServerAnswers, ServerNotifies, ServerAsks, ServerWritesJunk,
              ServerExits, Emit, Dispatcher, RouteMessage, Deliver,
              DispatcherSnapshot, DispatcherWake, EndOfStdout, EofWake, client,
              server, caller
<1>2. ASSUME NEW c \in Callers, Register(c) \/ Proceed(c) \/ Timeout(c) \/ Drain(c)
      PROVE  ClosingIsDeaf'
  <2>1. UNCHANGED <<process, stdinOpen>>
    BY <1>2 DEF Register, Proceed, CheckFailure, Send, Wake, Unregister,
                CallerSnapshot, CallerWake, Timeout, Drain, DrainNotifications,
                DrainServerRequests, DrainUnknown, DrainMatching, client, server
  <2>2. pc'[Owner] = pc[Owner] \/ pc'[Owner] \in {"idle", "check", "send", "wait",
                                                  "finally", "snap", "wake"}
    BY <1>2 DEF Register, Proceed, CheckFailure, Send, Wake, Unregister,
                CallerSnapshot, CallerWake, Timeout, Drain, DrainNotifications,
                DrainServerRequests, DrainUnknown, DrainMatching, Return, GoTo, caller
  <2> QED BY <2>1, <2>2
<1>3. CASE Start
  BY <1>3 DEF Start, GoTo, caller
<1>4. CASE CloseBegin
  BY <1>4 DEF CloseBegin, GoTo, Gens, client
<1>5. CASE Closing
  <2>1. UNCHANGED stdinOpen /\ (process' = process \/ pc'[Owner] = "idle")
    BY <1>5 DEF Closing, StopProcess, JoinDispatcher, CloseStdout, CloseSnapshot,
                CloseWake, CloseEnd, GoTo, client, server
  <2>2. pc[Owner] \in {"stopping", "join", "closing", "closesnap", "closewake", "closed"}
    BY <1>5 DEF Closing, StopProcess, JoinDispatcher, CloseStdout, CloseSnapshot,
                CloseWake, CloseEnd
  <2> QED BY <2>1, <2>2
<1> QED BY <1>1, <1>2, <1>3, <1>4, <1>5 DEF Next

(* A dispatcher exists once started, and delivers answers to requests. *)
LEMMA DispatchersRealStep ==
  ASSUME TypeInv, DispatchersReal, Next
  PROVE  DispatchersReal'
<1> USE DEF TypeInv, CoreTypeOK, DispatchersReal
<1>1. ASSUME NEW g \in Gens, Dispatcher(g)
      PROVE  DispatchersReal'
  <2>1. UNCHANGED starts /\ dpc[g] # "none"
    BY <1>1 DEF Dispatcher, RouteMessage, Deliver, DispatcherSnapshot,
                DispatcherWake, EndOfStdout, EofWake, client
  <2>2. \A h \in Gens : h # g => dpc'[h] = dpc[h] /\ dline'[h] = dline[h]
    BY <1>1 DEF Dispatcher, RouteMessage, PutTransportEvent, Deliver,
                DispatcherSnapshot, DispatcherWake, EndOfStdout, EofWake,
                DispatcherGoTo
  <2>3. dpc'[g] = "deliver" => dline'[g].id \in Ids
    <3>1. CASE RouteMessage(g)
      <4> DEFINE line == Head(stdout[g])
      <4>1. CASE line.t = "answer" /\ line.id \in pending
        BY <3>1, <4>1 DEF RouteMessage
      <4>2. CASE ~(line.t = "answer" /\ line.id \in pending)
        <5>1. dline' = dline /\ \E q : PutTransportEvent(g, q, line)
          BY <3>1, <4>2 DEF RouteMessage
        <5>2. dpc' = dpc \/ dpc' = [dpc EXCEPT ![g] = "snap"]
          BY <5>1 DEF PutTransportEvent, DispatcherGoTo
        <5>3. dpc[g] = "read"
          BY <3>1 DEF RouteMessage
        <5> QED BY <5>1, <5>2, <5>3
      <4> QED BY <4>1, <4>2
    <3>2. CASE ~RouteMessage(g)
      BY <1>1, <3>2 DEF Dispatcher, Deliver, DispatcherSnapshot, DispatcherWake,
                        EndOfStdout, EofWake, DispatcherGoTo
    <3> QED BY <3>1, <3>2
  <2> QED BY <2>1, <2>2, <2>3
<1>2. CASE Start
  BY SMTT(30), <1>2, TransportAssumption DEF Start, DispatcherGoTo, Gens
<1>3. ASSUME UNCHANGED <<starts, dpc, dline>>
      PROVE  DispatchersReal'
  BY <1>3
<1>4. ASSUME NEW g \in Gens, Server(g)
      PROVE  UNCHANGED <<starts, dpc, dline>>
  BY <1>4 DEF Server, ServerAnswers, ServerNotifies, ServerAsks, ServerWritesJunk,
              ServerExits, Emit, client, disp
<1>5. ASSUME NEW c \in Callers, Register(c) \/ Proceed(c) \/ Timeout(c) \/ Drain(c)
      PROVE  UNCHANGED <<starts, dpc, dline>>
  BY <1>5 DEF Register, Proceed, CheckFailure, Send, Wake, Unregister, CallerSnapshot,
              CallerWake, Timeout, Drain, DrainNotifications, DrainServerRequests,
              DrainUnknown, DrainMatching, client, disp
<1>6. ASSUME CloseBegin \/ Closing
      PROVE  UNCHANGED <<starts, dpc, dline>>
  BY <1>6 DEF CloseBegin, Closing, StopProcess, JoinDispatcher, CloseStdout,
              CloseSnapshot, CloseWake, CloseEnd, client, disp
<1> QED BY <1>1, <1>2, <1>3, <1>4, <1>5, <1>6 DEF Next

(* Where a wakeup is not owed from before, the step that makes it owed is    *)
(* one that has the wakeup on its way: the record of a failure, the reading  *)
(* of the answer, the snapshot of close().                                   *)
LEMMA NewlyOwed ==
  ASSUME FactsInv, AnswersAsked, ClosingIsDeaf, Next, NEW c \in Callers, Owed(c)'
  PROVE  \/ Owed(c) /\ pc[c] \in {"send", "wait"} /\ rid'[c] = rid[c]
         \/ Woken(rid[c])' /\ rid'[c] = rid[c]
<1> USE TransportAssumption DEF FactsInv, TypeInv, CoreTypeOK
<1>1. ASSUME NEW g \in Gens, Server(g)
      PROVE  Owed(c)
  <2>1. UNCHANGED <<process, transport_failure, written, pc, rid, call, routed>>
    BY <1>1 DEF Server, ServerAnswers, ServerNotifies, ServerAsks, ServerWritesJunk,
                ServerExits, Emit, client, caller, hist
  <2> QED BY <2>1 DEF Owed
<1>2. ASSUME NEW g \in Gens, Dispatcher(g)
      PROVE  UNCHANGED rid /\ (Owed(c) \/ Woken(rid[c])')
  <2>1. CASE RouteMessage(g)
    <3>1. /\ UNCHANGED <<process, written, caller, call>>
          /\ routed' = Append(routed, Head(stdout[g])) /\ stdout[g] # <<>>
      BY <2>1 DEF RouteMessage
    <3>2. CASE transport_failure' # transport_failure
      <4>1. dpc'[g] = "snap"
        BY <2>1, <3>2 DEF RouteMessage, PutTransportEvent, DispatcherGoTo
      <4> QED BY <3>1, <4>1 DEF Woken, caller
    <3>3. ASSUME pc[c] = "wait", Head(stdout[g]).t = "answer",
                 Head(stdout[g]).call = call[c]
          PROVE  Woken(rid[c])'
      <4>1. stdout[g] \in Seq(Lines) /\ Head(stdout[g]) = stdout[g][1]
            /\ 1 \in 1 .. Len(stdout[g])
        BY <3>1
      <4>2. Head(stdout[g]).id = call[c]
        BY <3>3, <4>1 DEF OwnInv, ServersAnswerOwn
      <4>3. rid[c] = call[c] /\ rid[c] \in pending
        BY <3>3 DEF CallsNumbered, InRequest, PendingInv, PendingIsInFlight
      <4>4. dpc'[g] = "deliver" /\ dline'[g].id = rid[c]
        BY <2>1, <3>3, <4>2, <4>3 DEF RouteMessage, DispatcherGoTo
      <4> QED BY <3>1, <4>4 DEF Woken, caller
    <3>4. stdout[g] \in Seq(Lines) /\ routed \in Seq(Lines)
      BY DEF AnswersAsked
    <3>5. ASSUME NEW i \in 1 .. Len(routed'), routed'[i].t = "answer",
                 routed'[i].call = call[c]
          PROVE  \/ \E j \in 1 .. Len(routed) :
                      routed[j].t = "answer" /\ routed[j].call = call[c]
                 \/ Head(stdout[g]).t = "answer" /\ Head(stdout[g]).call = call[c]
      <4>1. /\ Len(routed') = Len(routed) + 1 /\ Len(routed) \in Nat
            /\ \A j \in 1 .. Len(routed) : routed'[j] = routed[j]
            /\ routed'[Len(routed) + 1] = Head(stdout[g])
        BY <3>1, <3>4
      <4>2. i \in 1 .. Len(routed) \/ i = Len(routed) + 1
        BY <4>1
      <4> HIDE DEF FactsInv
      <4> QED BY <3>5, <4>1, <4>2
    <3> QED BY <3>1, <3>2, <3>3, <3>5 DEF Owed, caller
  <2>2. CASE Deliver(g)
    <3>1. CASE transport_failure' # transport_failure
      <4>1. dpc'[g] = "snap" /\ UNCHANGED rid
        BY <2>2, <3>1 DEF Deliver, DispatcherGoTo, caller
      <4> QED BY <4>1 DEF Woken
    <3>2. CASE transport_failure' = transport_failure
      BY <2>2, <3>2 DEF Deliver, server, caller, hist, Owed
    <3> QED BY <3>1, <3>2
  <2>3. CASE ~RouteMessage(g) /\ ~Deliver(g)
    BY <1>2, <2>3 DEF Dispatcher, DispatcherSnapshot, DispatcherWake, EndOfStdout,
                      EofWake, client, server, caller, hist, Owed
  <2> QED BY <2>1, <2>2, <2>3
<1>3. ASSUME NEW d \in Callers, Register(d) \/ Unregister(d)
      PROVE  Owed(c) /\ rid'[c] = rid[c]
  <2>1. c # d
    BY <1>3 DEF Register, Unregister, GoTo, Owed
  <2>2. /\ pc'[c] = pc[c] /\ rid'[c] = rid[c] /\ call'[c] = call[c]
        /\ pc'[Owner] \in {"closewake", "closed"} => pc[Owner] \in {"closewake", "closed"}
        /\ UNCHANGED <<process, transport_failure, routed, written>>
    BY ZenonT(60), <1>3, <2>1 DEF Register, Unregister, GoTo, server
  <2> QED BY <2>2 DEF Owed
<1>4. ASSUME NEW d \in Callers,
             CheckFailure(d) \/ Wake(d) \/ Timeout(d) \/ CallerSnapshot(d) \/ CallerWake(d)
      PROVE  Owed(c) /\ UNCHANGED rid
  <2>1. UNCHANGED <<process, transport_failure, routed, written, call, rid>>
    BY <1>4 DEF CheckFailure, Wake, Timeout, CallerSnapshot, CallerWake, client,
                server, hist
  <2>2. \A e \in Callers : pc'[e] = pc[e] \/ (e = d /\ pc'[e] \in {"send", "finally", "wake", "idle"})
    BY <1>4 DEF CheckFailure, Wake, Timeout, CallerSnapshot, CallerWake, Return, GoTo
  <2>3. pc[d] = "check" /\ pc'[d] = "send" => transport_failure = 0
    BY <1>4 DEF CheckFailure, Wake, Timeout, CallerSnapshot, CallerWake, Return, GoTo
  <2>4. pc'[d] = "send" => pc[d] \in {"send", "check"}
    BY <1>4 DEF CheckFailure, Wake, Timeout, CallerSnapshot, CallerWake, Return, GoTo
  <2> QED BY <2>1, <2>2, <2>3, <2>4 DEF Owed
<1>5. ASSUME NEW d \in Callers, Send(d)
      PROVE  Owed(c) /\ UNCHANGED rid
  <2>1. /\ UNCHANGED <<process, transport_failure, routed, call, rid>>
        /\ pc[d] = "send" /\ pc'[d] \in {"wait", "finally"}
        /\ \A e \in Callers : e # d => pc'[e] = pc[e]
    BY <1>5 DEF Send, Return, GoTo, client, hist
  <2>2. CASE c = d
    <3>1. CanWrite
      BY <1>5, <2>1, <2>2 DEF Send, Return, GoTo, Owed
    <3>2. process \in Gens /\ pc[Owner] \notin {"closewake", "closed"}
      BY <3>1 DEF CanWrite, ClosingIsDeaf, Gens
    <3>3. written'[process] = written[process] \cup {[id |-> rid[c], call |-> call[c]]}
      BY <1>5, <2>2, <3>1, <3>2 DEF Send
    <3>4. call[c] \notin Asked
      BY <2>1, <2>2 DEF AskedInv
    <3>5. pc'[Owner] \notin {"closewake", "closed"}
      BY <2>1, <3>2
    <3>6. process # 0
      BY <3>2 DEF Gens
    <3> QED BY <2>1, <2>2, <3>3, <3>4, <3>5, <3>6 DEF Owed, AnswersAsked
  <2>3. CASE c # d
    <3>1. \A g \in Gens : written[g] \subseteq written'[g]
      BY ZenonT(60), <1>5 DEF Send
    <3>2. process # 0 => process \in Gens
      BY DEF Gens
    <3> QED BY <2>1, <2>3, <3>1, <3>2 DEF Owed
  <2> QED BY <2>2, <2>3
<1>6. ASSUME NEW d \in Callers, Drain(d)
      PROVE  UNCHANGED rid /\ (Owed(c) \/ Woken(rid[c])')
  <2>1. /\ UNCHANGED <<process, routed, written, call, rid>>
        /\ \A e \in Callers : pc'[e] = pc[e] \/ (e = d /\ pc'[e] = "snap")
        /\ transport_failure' # transport_failure => pc'[d] = "snap"
    BY <1>6 DEF Drain, DrainNotifications, DrainServerRequests, DrainUnknown,
                DrainMatching, GoTo, server, caller, hist
  <2>2. CASE transport_failure' # transport_failure
    BY <2>1, <2>2 DEF Woken
  <2>3. CASE transport_failure' = transport_failure
    BY <2>1, <2>3 DEF Owed
  <2> QED BY <2>2, <2>3
<1>7. CASE Start
  BY <1>7 DEF Start, caller, hist, Owed
<1>8. CASE CloseSnapshot
  <2>1. /\ UNCHANGED <<process, transport_failure, routed, written, call, rid, pending>>
        /\ pc'[Owner] = "closewake" /\ snap'[Owner] = pending
        /\ \A e \in Callers : e # Owner => pc'[e] = pc[e]
    BY <1>8 DEF CloseSnapshot, GoTo, client, server, hist
  <2>2. c # Owner /\ pc[c] \in {"send", "wait"}
    BY <2>1 DEF Owed
  <2>3. rid[c] \in pending
    BY <2>2 DEF InRequest, PendingInv, PendingIsInFlight
  <2> QED BY <2>1, <2>3 DEF Woken
<1>9. CASE CloseBegin \/ StopProcess \/ JoinDispatcher \/ CloseStdout \/ CloseWake
           \/ CloseEnd
  <2>1. /\ UNCHANGED <<transport_failure, routed, written, call, rid>>
        /\ \A e \in Callers : e # Owner => pc'[e] = pc[e]
        /\ pc'[Owner] \in {"snap", "stopping", "join", "closing", "closesnap", "closed", "idle"}
        /\ pc'[Owner] = "closed" => pc[Owner] = "closewake"
        /\ process' = process \/ pc[Owner] = "closed"
    BY <1>9 DEF CloseBegin, StopProcess, JoinDispatcher, CloseStdout, CloseWake,
                CloseEnd, GoTo, client, server, hist
  <2> QED BY <2>1 DEF Owed
<1>10. Owed(c) => pc[c] \in {"send", "wait"}
  BY DEF Owed
<1> QED BY <1>1, <1>2, <1>3, <1>4, <1>5, <1>6, <1>7, <1>8, <1>9, <1>10
        DEF Next, Proceed, Closing, Server, ServerAnswers, ServerNotifies, ServerAsks,
            ServerWritesJunk, ServerExits, Emit, caller, Start

LEMMA OwedWokenStep ==
  ASSUME FactsInv, StrandedInv, Next
  PROVE  OwedWoken'
<1> SUFFICES ASSUME NEW c \in Callers, Owed(c)'
             PROVE  Woken(rid[c])'
  BY DEF OwedWoken
<1>1. CASE Owed(c) /\ pc[c] \in {"send", "wait"} /\ rid'[c] = rid[c]
  <2>1. Woken(rid[c]) /\ pc'[c] \in {"send", "wait"}
    BY <1>1 DEF StrandedInv, OwedWoken, Owed
  <2>2. \A i : i = rid[c] => Woken(rid[c])'
    BY <1>1, <2>1, WokenStays DEF StrandedInv
  <2> QED BY <2>2
<1> QED BY <1>1, NewlyOwed DEF StrandedInv

(* request() against _set_transport_failure, against the routing of its      *)
(* answer, against close() and start(): no thread waits on for what cannot   *)
(* come any more, or has come already.                                       *)
THEOREM NobodyStranded == Spec => []NoWaiterStranded
<1>1. Init => StrandedInv
  BY TransportAssumption DEF Init, StrandedInv, AnswersAsked, ClosingIsDeaf,
                             DispatchersReal, OwedWoken, Owed
<1>2. FactsInv /\ StrandedInv /\ [Next]_vars => StrandedInv'
  <2>1. ASSUME StrandedInv, UNCHANGED vars
        PROVE  StrandedInv'
    BY <2>1 DEF StrandedInv, AnswersAsked, ClosingIsDeaf, DispatchersReal, OwedWoken,
                Owed, Woken, Asked, vars, client, server, disp, caller, hist
  <2> QED BY <2>1, AnswersAskedStep, ClosingIsDeafStep, DispatchersRealStep,
             OwedWokenStep DEF StrandedInv, FactsInv
<1>3. StrandedInv => NoWaiterStranded
  BY DEF StrandedInv, OwedWoken, Owed, NoWaiterStranded
<1> QED BY <1>1, <1>2, <1>3, TypeCorrect, OwnAlways, PendingAlways, AskedAlways, PTL
        DEF Spec, FactsInv
-------------------------------------------------------------------------------
(* The client implements Rpc.                                              *)

MapInv == TypeInv /\ OwnInv /\ PendingInv /\ AskedInv

(* What Rpc calls open is what is registered. *)
LEMMA OpenIsPending ==
  ASSUME TypeInv, PendingInv
  PROVE  Promise!Open = pending
<1>1. \A c \in Callers : Phases[c] # "idle" <=> InRequest(c)
  BY DEF Phases, PhaseOf, InRequest, TypeInv, CoreTypeOK
<1>2. \A c \in Callers : InRequest(c) => call[c] = rid[c]
  BY DEF TypeInv, CallsNumbered
<1>3. \A n \in Promise!Open : n \in pending
  BY <1>1, <1>2 DEF Promise!Open, PendingInv, PendingIsInFlight
<1>4. \A n \in pending : n \in Promise!Open
  BY <1>1, <1>2 DEF Promise!Open, PendingInv, PendingIsInFlight
<1> QED BY <1>3, <1>4

(* Rpc and the client count alike. *)
LEMMA SameCount ==
  ASSUME NEW S
  PROVE  Promise!Cardinality(S) = Cardinality(S)
BY DEF Promise!Cardinality, Cardinality

(* A thread that moves changes its own phase only. *)
LEMMA PhaseMoves ==
  ASSUME TypeInv, NEW c \in Callers, NEW to, GoTo(c, to)
  PROVE  Phases' = [Phases EXCEPT ![c] = PhaseOf(c)'] /\ pc'[c] = to
<1>1. \A d \in Callers : d # c => PhaseOf(d)' = PhaseOf(d)
  BY DEF GoTo, PhaseOf, TypeInv, CoreTypeOK
<1>2. pc'[c] = to
  BY DEF GoTo, TypeInv, CoreTypeOK
<1> QED BY <1>1, <1>2 DEF Phases

(* The steps of request() are the steps of a call. *)
LEMMA RequestMaps ==
  ASSUME MapInv, NEW c \in Callers,
         \/ Register(c) \/ CheckFailure(c) \/ Send(c) \/ Wake(c) \/ Timeout(c)
         \/ Unregister(c)
  PROVE  Promise!Next \/ UNCHANGED Promise!vars
<1> USE DEF MapInv
<1>0. Phases[c] = PhaseOf(c)
  BY DEF Phases
<1>1. ASSUME NEW v, Return(c, v), UNCHANGED <<written, calls, call>>,
             pc[c] \in {"check", "send", "wait"},
             v = Failed \/ (pc[c] = "wait" /\ v \in {Empty, call[c]})
      PROVE  Promise!Next
  <2>1. Phases' = [Phases EXCEPT ![c] = "returned"]
    BY <1>0, <1>1, PhaseMoves DEF Return, PhaseOf
  <2>2. Phases[c] \in {"begun", "asked"} /\ v \in Promise!Outcomes(c)
    BY <1>0, <1>1 DEF PhaseOf, Promise!Outcomes
  <2>3. UNCHANGED Asked
    BY <1>1 DEF Asked
  <2>4. got' = [got EXCEPT ![c] = v]
    BY <1>1 DEF Return
  <2> QED BY <1>1, <2>1, <2>2, <2>3, <2>4 DEF Promise!Return, Promise!Next
<1>2. CASE Register(c)
  <2>1. /\ Phases[c] = "idle" /\ calls < MaxCalls /\ calls' = calls + 1
        /\ UNCHANGED got
    BY <1>0, <1>2 DEF Register, PhaseOf
  <2>2. UNCHANGED Asked
    BY <1>2 DEF Register, server, Asked
  <2>3. ASSUME Cardinality(pending) < PendingCap, GoTo(c, "check"),
               call' = [call EXCEPT ![c] = calls + 1]
        PROVE  Promise!Next
    <3>1. Phases' = [Phases EXCEPT ![c] = "begun"]
      BY <1>0, <2>3, PhaseMoves DEF PhaseOf
    <3> QED BY <2>1, <2>2, <2>3, <3>1, OpenIsPending, SameCount DEF Promise!Begin, Promise!Next
  <2>4. ASSUME Cardinality(pending) >= PendingCap, UNCHANGED <<call, pc>>
        PROVE  Promise!Next
    <3>1. UNCHANGED Phases
      BY <2>4 DEF Phases, PhaseOf
    <3> QED BY <2>1, <2>2, <2>4, <3>1, OpenIsPending, SameCount DEF Promise!Refuse, Promise!Next
  <2> QED BY <1>2, <2>3, <2>4 DEF Register
<1>3. CASE CheckFailure(c)
  <2>1. CASE transport_failure # 0
    BY <1>1, <1>3, <2>1 DEF CheckFailure, server, hist
  <2>2. CASE transport_failure = 0
    <3>1. pc[c] = "check" /\ GoTo(c, "send") /\ UNCHANGED <<written, calls, call, got>>
      BY <1>3, <2>2 DEF CheckFailure, server, hist
    <3>2. UNCHANGED Phases
      BY ZenonT(60), <1>0, <3>1, PhaseMoves DEF PhaseOf, Phases
    <3> QED BY <3>1, <3>2 DEF Promise!vars, Asked
  <2> QED BY <2>1, <2>2
<1>4. CASE Send(c)
  <2>1. CASE CanWrite
    <3>1. pc[c] = "send" /\ GoTo(c, "wait") /\ UNCHANGED <<calls, call, got>>
      BY <1>4, <2>1 DEF Send, hist
    <3>2. Phases' = [Phases EXCEPT ![c] = "asked"] /\ Phases[c] = "begun"
      BY <1>0, <3>1, PhaseMoves DEF PhaseOf
    <3>3. Asked' = Asked \cup {call[c]} /\ call[c] \notin Asked
      BY <1>4, <2>1, <3>1, SendAsks DEF AskedInv
    <3> QED BY <3>1, <3>2, <3>3 DEF Promise!Ask, Promise!Next
  <2>2. CASE ~CanWrite
    BY <1>1, <1>4, <2>2 DEF Send, hist
  <2> QED BY <2>1, <2>2
<1>5. CASE Wake(c)
  <2>1. /\ pc[c] = "wait" /\ waiter[rid[c]] # Empty /\ Return(c, waiter[rid[c]])
        /\ UNCHANGED <<written, calls, call>>
    BY <1>5 DEF Wake, server, hist
  <2>2. rid[c] = call[c] /\ rid[c] \in Ids
    BY <2>1, TransportAssumption DEF TypeInv, CoreTypeOK, CallsNumbered, InRequest, Ids
  <2>3. waiter[rid[c]] \in {Failed, call[c]}
    BY <2>1, <2>2 DEF OwnInv, CallersHoldOwn
  <2> QED BY <1>1, <2>1, <2>3
<1>6. CASE Timeout(c)
  BY <1>1, <1>6 DEF Timeout, server, hist
<1>7. CASE Unregister(c)
  <2>1. /\ pc[c] = "finally" /\ GoTo(c, "idle") /\ UNCHANGED <<written, calls>>
        /\ call' = [call EXCEPT ![c] = 0] /\ got' = [got EXCEPT ![c] = Empty]
    BY <1>7 DEF Unregister, server
  <2>2. Phases' = [Phases EXCEPT ![c] = "idle"] /\ Phases[c] = "returned"
    BY <1>0, <2>1, PhaseMoves DEF PhaseOf
  <2> QED BY <2>1, <2>2 DEF Promise!Leave, Promise!Next, Asked
<1> QED BY <1>2, <1>3, <1>4, <1>5, <1>6, <1>7

(* The client implements Rpc: a call is refused only when the table is full, *)
(* its request is written at most once, over every process, and it is        *)
(* answered by its own answer or not at all.                                 *)
THEOREM TransportImplementsRpc == Spec => ImplementsRpc
<1>1. Init => Promise!Init
  BY DEF Init, Promise!Init, Phases, PhaseOf, Asked
<1>2. MapInv /\ [Next]_vars => [Promise!Next]_(Promise!vars)
  <2>1. CASE Outside
    <3>1. ASSUME MapInv PROVE UNCHANGED Promise!vars
      BY <2>1, <3>1, OutsideStays DEF MapInv, Promise!vars, Phases, Asked
    <3> QED BY <3>1
  <2>2. ASSUME UNCHANGED vars PROVE UNCHANGED Promise!vars
    BY <2>2 DEF vars, server, caller, hist, Promise!vars, Phases, PhaseOf, Asked
  <2> QED BY <2>1, <2>2, RequestMaps DEF Next, Proceed, Outside
<1>3. Spec => []MapInv
  BY TypeCorrect, OwnAlways, PendingAlways, AskedAlways, PTL DEF MapInv
<1> QED BY <1>1, <1>2, <1>3, PTL DEF Spec, ImplementsRpc, Promise!Spec
------------------------------------------------------------------------------
(* The events: what a drain hands out, and what numbers are given to.        *)
Events == Notes(Kinds) \cup Requests

LEMMA EventLines ==
  /\ Events \subseteq Lines
  /\ \A m \in Lines : m.t \in {"note", "ask"} => m \in Events
  /\ \A m \in Events : m.t \in {"note", "ask"} /\ m.n \in Nat
  /\ \A m \in Notes(Kinds) : m.t = "note" /\ m.kind \in Kinds
  /\ \A m \in Requests : m.t = "ask"
BY DEF Events, Lines, Notes, Requests

(* The queues and the history hold lines, and each queue lines of its type.  *)
QueuesTyped ==
  /\ queue["note"] \in Seq(Notes(Kinds)) /\ backlog \in Seq(Notes(Kinds))
  /\ queue["ask"] \in Seq(Requests)

(* What is not started has written nothing and is not read.                  *)
UnstartedSilent ==
  /\ process <= starts
  /\ \A g \in Gens : g > starts => stdout[g] = <<>> /\ ~alive[g] /\ ~readerOpen[g]
  /\ starts = 0 => queue["note"] = <<>> /\ backlog = <<>>

(* Only the stdout of the running process is read: close() has closed the    *)
(* read end before it lets go of the process.                                *)
ReadsCurrent ==
  /\ \A g \in Gens : readerOpen[g] => g = process
  /\ pc[Owner] \in {"closesnap", "closewake", "closed"} => ~readerOpen[process]

EventsInv == EventsTypeOK /\ QueuesTyped /\ UnstartedSilent /\ ReadsCurrent

LEMMA EventsInit == Init => EventsInv
<1> SUFFICES ASSUME Init PROVE EventsInv
  OBVIOUS
<1>1. EventsTypeOK
  BY EmptySeq DEF Init, EventsTypeOK, Queues
<1>2. QueuesTyped
  BY EmptySeq DEF Init, QueuesTyped, Queues
<1>3. UnstartedSilent
  BY DEF Init, UnstartedSilent, Queues
<1>4. ReadsCurrent
  BY TransportAssumption DEF Init, ReadsCurrent
<1> QED BY <1>1, <1>2, <1>3, <1>4 DEF EventsInv

(* What no step of a server, of the Owner's or of a request touches.         *)
LEMMA EventsStill ==
  ASSUME Next,
         ~\E g \in Gens : RouteMessage(g), ~\E c \in Callers : Drain(c)
  PROVE  UNCHANGED <<queue, backlog, routed, drained>>
<1>1. ASSUME NEW g \in Gens, Server(g)
      PROVE  UNCHANGED <<queue, backlog, routed, drained>>
  BY <1>1 DEF Server, ServerAnswers, ServerNotifies, ServerAsks, ServerWritesJunk,
              ServerExits, Emit, client, hist
<1>2. ASSUME NEW g \in Gens, Dispatcher(g)
      PROVE  UNCHANGED <<queue, backlog, routed, drained>>
  BY <1>2 DEF Dispatcher, Deliver, DispatcherSnapshot, DispatcherWake, EndOfStdout,
              EofWake, client, hist
<1>3. ASSUME NEW c \in Callers, Register(c) \/ Proceed(c) \/ Timeout(c)
      PROVE  UNCHANGED <<queue, backlog, routed, drained>>
  BY <1>3 DEF Register, Proceed, CheckFailure, Send, Wake, Unregister, CallerSnapshot,
              CallerWake, Timeout, client, hist
<1>4. ASSUME Start \/ CloseBegin \/ Closing
      PROVE  UNCHANGED <<queue, backlog, routed, drained>>
  BY <1>4 DEF Start, CloseBegin, Closing, StopProcess, JoinDispatcher, CloseStdout,
              CloseSnapshot, CloseWake, CloseEnd, client, hist
<1> QED BY <1>1, <1>2, <1>3, <1>4 DEF Next

(* One line taken from a pipe: the queue of its type has it last, or it is   *)
(* dropped and the failure is on record.                                     *)
LEMMA RouteFacts ==
  ASSUME TypeInv, EventsInv, NEW g \in Gens, RouteMessage(g)
  PROVE  LET line == Head(stdout[g]) IN
         /\ line \in Lines /\ stdout[g] # <<>> /\ readerOpen[g]
         /\ stdout' = [stdout EXCEPT ![g] = Tail(@)]
         /\ routed' = Append(routed, line)
         /\ UNCHANGED <<backlog, drained>>
         /\ \/ queue' = queue /\ (line \in Events => transport_failure' # 0)
            \/ /\ line \notin Events
               /\ queue' = [queue EXCEPT !["unknown"] = Append(@, line)]
            \/ /\ line \in Notes(Kinds)
               /\ queue' = [queue EXCEPT !["note"] = Append(@, line)]
            \/ /\ line \in Requests
               /\ queue' = [queue EXCEPT !["ask"] = Append(@, line)]
<1> DEFINE line == Head(stdout[g])
<1>1. line \in Lines
  BY HeadTailProperties DEF RouteMessage, TypeInv, CoreTypeOK
<1>2. line.t \in {"answer", "note", "ask", "unknown"}
  BY <1>1 DEF Lines, Notes, Requests
<1>3. /\ stdout[g] # <<>> /\ readerOpen[g]
      /\ stdout' = [stdout EXCEPT ![g] = Tail(@)]
      /\ routed' = Append(routed, line)
      /\ UNCHANGED <<backlog, drained>>
  BY DEF RouteMessage
<1>4. ASSUME NEW q, PutTransportEvent(g, q, line)
      PROVE  \/ queue' = [queue EXCEPT ![q] = Append(@, line)]
             \/ queue' = queue /\ transport_failure' # 0
  BY <1>4 DEF PutTransportEvent, RecordFailure, Gens
<1>5. \/ line.t = "answer" /\ queue' = queue
      \/ line.t = "answer" /\ PutTransportEvent(g, "unknown", line)
      \/ line.t # "answer" /\ PutTransportEvent(g, line.t, line)
  BY DEF RouteMessage
<1>6. /\ line.t \in {"answer", "unknown"} => line \notin Events
      /\ line.t = "note" => line \in Notes(Kinds)
      /\ line.t = "ask" => line \in Requests
  BY <1>1, EventLines DEF Events
<1> HIDE DEF line
<1>7. \/ queue' = queue /\ (line \in Events => transport_failure' # 0)
      \/ /\ line \notin Events
         /\ queue' = [queue EXCEPT !["unknown"] = Append(@, line)]
      \/ /\ line \in Notes(Kinds)
         /\ queue' = [queue EXCEPT !["note"] = Append(@, line)]
      \/ /\ line \in Requests
         /\ queue' = [queue EXCEPT !["ask"] = Append(@, line)]
  <2>1. CASE line.t = "answer"
    BY <1>4, <1>5, <1>6, <2>1
  <2>2. CASE line.t = "note"
    BY <1>4, <1>5, <1>6, <2>2
  <2>3. CASE line.t = "ask"
    BY <1>4, <1>5, <1>6, <2>3
  <2>4. CASE line.t = "unknown"
    BY <1>4, <1>5, <1>6, <2>4
  <2> QED BY <1>2, <2>1, <2>2, <2>3, <2>4
<1> QED BY <1>1, <1>3, <1>7 DEF line

(* What one drain leaves: of the notifications those that do not match, or a *)
(* prefix of them and the failure on record.                                 *)
LEMMA DrainFacts ==
  ASSUME TypeInv, EventsInv, NEW c \in Callers, Drain(c)
  PROVE  /\ UNCHANGED routed
         /\ \/ /\ UNCHANGED <<drained, backlog>>
               /\ queue' = [queue EXCEPT !["unknown"] = <<>>]
            \/ /\ drained' = drained \o queue["ask"] /\ UNCHANGED backlog
               /\ queue' = [queue EXCEPT !["ask"] = <<>>]
            \/ /\ queue' = [queue EXCEPT !["note"] = <<>>]
               /\ drained' = drained \o (backlog \o queue["note"]) /\ backlog' = <<>>
            \/ /\ queue' = [queue EXCEPT !["note"] = <<>>]
               /\ \E K \in SUBSET Kinds :
                    LET rest == Keep(backlog \o queue["note"], Notes(Kinds \ K)) IN
                    /\ drained' = drained \o Keep(backlog \o queue["note"], Notes(K))
                    /\ \/ backlog' = rest
                       \/ /\ Len(rest) > BacklogCap /\ backlog' = SubSeq(rest, 1, BacklogCap)
                          /\ transport_failure' # 0
<1>1. CASE DrainUnknown(c)
  BY <1>1 DEF DrainUnknown, hist
<1>2. CASE DrainServerRequests(c)
  BY <1>2 DEF DrainServerRequests
<1>3. CASE DrainNotifications(c)
  BY <1>3 DEF DrainNotifications, Available
<1>4. ASSUME NEW K \in SUBSET Kinds, DrainMatching(c, K)
      PROVE  /\ UNCHANGED routed /\ queue' = [queue EXCEPT !["note"] = <<>>]
             /\ LET rest == Keep(backlog \o queue["note"], Notes(Kinds \ K)) IN
                /\ drained' = drained \o Keep(backlog \o queue["note"], Notes(K))
                /\ \/ backlog' = rest
                   \/ /\ Len(rest) > BacklogCap /\ backlog' = SubSeq(rest, 1, BacklogCap)
                      /\ transport_failure' # 0
  <2>1. starts # 0
    <3>1. ~(backlog = <<>> /\ queue["note"] = <<>>)
      BY <1>4 DEF DrainMatching, Available
    <3> QED BY <3>1 DEF EventsInv, UnstartedSilent
  <2>2. RecordFailure(starts) => transport_failure' # 0
    BY <2>1 DEF RecordFailure
  <2> QED BY <1>4, <2>2 DEF DrainMatching, Available
<1> QED BY <1>1, <1>2, <1>3, <1>4 DEF Drain

(* A drain leaves what it was, or part of it.                                *)
LEMMA Parted ==
  ASSUME TypeInv, EventsInv, NEW K \in SUBSET Kinds
  PROVE  LET rest == Keep(backlog \o queue["note"], Notes(Kinds \ K)) IN
         /\ Keep(backlog \o queue["note"], Notes(K)) \in Seq(Notes(Kinds))
         /\ rest \in Seq(Notes(Kinds))
         /\ Len(rest) > BacklogCap => SubSeq(rest, 1, BacklogCap) \in Seq(Notes(Kinds))
<1> DEFINE all == backlog \o queue["note"]
           rest == Keep(all, Notes(Kinds \ K))
<1>1. all \in Seq(Notes(Kinds))
  BY ConcatProperties DEF EventsInv, QueuesTyped
<1> HIDE DEF all
<1>2. /\ Keep(all, Notes(K)) \in Seq(Notes(Kinds) \cap Notes(K))
      /\ rest \in Seq(Notes(Kinds) \cap Notes(Kinds \ K))
  BY <1>1, KeepType
<1>3. Keep(all, Notes(K)) \in Seq(Notes(Kinds)) /\ rest \in Seq(Notes(Kinds))
  BY <1>2, SeqMonotonic
<1> HIDE DEF rest
<1>4. Len(rest) > BacklogCap => SubSeq(rest, 1, BacklogCap) \in Seq(Notes(Kinds))
  <2> SUFFICES ASSUME Len(rest) > BacklogCap
               PROVE  SubSeq(rest, 1, BacklogCap) \in Seq(Notes(Kinds))
    OBVIOUS
  <2>1. BacklogCap \in Int /\ \A i \in 1 .. BacklogCap : rest[i] \in Notes(Kinds)
    BY <1>3, ElementOfSeq, LenProperties, TransportAssumption
  <2> QED BY <2>1, SubSeqProperties
<1> QED BY <1>3, <1>4 DEF all, rest

LEMMA EventsTyped ==
  ASSUME TypeInv, EventsInv, Next
  PROVE  EventsTypeOK' /\ QueuesTyped'
<1> SUFFICES /\ queue' \in [Queues -> Seq(Lines)] /\ QueuesTyped'
             /\ routed' \in Seq(Lines) /\ drained' \in Seq(Lines)
  <2>1. Notes(Kinds) \subseteq Lines
    BY EventLines DEF Events
  <2>2. QueuesTyped' => backlog' \in Seq(Lines)
    BY <2>1, SeqMonotonic DEF QueuesTyped
  <2> QED BY <2>2 DEF EventsTypeOK
<1>0. /\ queue \in [Queues -> Seq(Lines)] /\ Queues = {"note", "ask", "unknown"}
      /\ backlog \in Seq(Lines) /\ routed \in Seq(Lines) /\ drained \in Seq(Lines)
      /\ queue["note"] \in Seq(Notes(Kinds)) /\ backlog \in Seq(Notes(Kinds))
      /\ queue["ask"] \in Seq(Requests)
      /\ Notes(Kinds) \subseteq Lines /\ Requests \subseteq Lines
  BY EventLines DEF EventsInv, EventsTypeOK, QueuesTyped, Queues, Events
<1>1. ASSUME NEW g \in Gens, RouteMessage(g)
      PROVE  /\ queue' \in [Queues -> Seq(Lines)] /\ QueuesTyped'
             /\ routed' \in Seq(Lines) /\ drained' \in Seq(Lines)
  <2> DEFINE line == Head(stdout[g])
  <2>1. /\ line \in Lines /\ routed' = Append(routed, line)
        /\ UNCHANGED <<backlog, drained>>
        /\ \/ queue' = queue
           \/ queue' = [queue EXCEPT !["unknown"] = Append(@, line)]
           \/ /\ line \in Notes(Kinds)
              /\ queue' = [queue EXCEPT !["note"] = Append(@, line)]
           \/ /\ line \in Requests
              /\ queue' = [queue EXCEPT !["ask"] = Append(@, line)]
    BY <1>1, RouteFacts
  <2> HIDE DEF line
  <2>2. routed' \in Seq(Lines)
    BY <1>0, <2>1, AppendProperties
  <2>3. \A q \in Queues : Append(queue[q], line) \in Seq(Lines)
    BY <1>0, <2>1, AppendProperties
  <2>4. queue' \in [Queues -> Seq(Lines)]
    BY <1>0, <2>1, <2>3
  <2>5. /\ line \in Notes(Kinds) => Append(queue["note"], line) \in Seq(Notes(Kinds))
        /\ line \in Requests => Append(queue["ask"], line) \in Seq(Requests)
    BY <1>0, AppendProperties
  <2>6. QueuesTyped'
    BY <1>0, <2>1, <2>5 DEF QueuesTyped
  <2> QED BY <1>0, <2>1, <2>2, <2>4, <2>6
<1>2. ASSUME NEW c \in Callers, Drain(c)
      PROVE  /\ queue' \in [Queues -> Seq(Lines)] /\ QueuesTyped'
             /\ routed' \in Seq(Lines) /\ drained' \in Seq(Lines)
  <2>1. PICK q \in Queues : queue' = [queue EXCEPT ![q] = <<>>]
    BY <1>2, DrainFacts DEF Queues
  <2>2. <<>> \in Seq(Lines) /\ <<>> \in Seq(Notes(Kinds)) /\ <<>> \in Seq(Requests)
    BY EmptySeq
  <2>3. /\ queue' \in [Queues -> Seq(Lines)]
        /\ queue'["note"] \in Seq(Notes(Kinds)) /\ queue'["ask"] \in Seq(Requests)
    BY <1>0, <2>1, <2>2
  <2>4. routed' = routed
    BY <1>2, DrainFacts
  <2>5. queue["ask"] \in Seq(Lines) /\ backlog \o queue["note"] \in Seq(Lines)
    <3>1. queue["note"] \in Seq(Lines) /\ queue["ask"] \in Seq(Lines)
      BY <1>0
    <3> QED BY <1>0, <3>1, ConcatProperties
  <2>6. \A s \in Seq(Lines) : drained \o s \in Seq(Lines)
    BY <1>0, ConcatProperties
  <2>7. \A s \in Seq(Notes(Kinds)) : s \in Seq(Lines)
    BY <1>0, SeqMonotonic
  <2>8. drained' \in Seq(Lines) /\ backlog' \in Seq(Notes(Kinds))
    <3>1. \/ UNCHANGED <<drained, backlog>>
          \/ drained' = drained \o queue["ask"] /\ UNCHANGED backlog
          \/ drained' = drained \o (backlog \o queue["note"]) /\ backlog' = <<>>
          \/ \E K \in SUBSET Kinds :
               LET rest == Keep(backlog \o queue["note"], Notes(Kinds \ K)) IN
               /\ drained' = drained \o Keep(backlog \o queue["note"], Notes(K))
               /\ \/ backlog' = rest
                  \/ /\ Len(rest) > BacklogCap
                     /\ backlog' = SubSeq(rest, 1, BacklogCap)
      BY <1>2, DrainFacts
    <3>2. CASE UNCHANGED <<drained, backlog>>
      BY <1>0, <3>2
    <3>3. CASE drained' = drained \o queue["ask"] /\ UNCHANGED backlog
      BY <1>0, <2>5, <2>6, <3>3
    <3>4. CASE drained' = drained \o (backlog \o queue["note"]) /\ backlog' = <<>>
      BY <2>2, <2>5, <2>6, <3>4
    <3>5. ASSUME NEW K \in SUBSET Kinds,
                 LET rest == Keep(backlog \o queue["note"], Notes(Kinds \ K)) IN
                 /\ drained' = drained \o Keep(backlog \o queue["note"], Notes(K))
                 /\ \/ backlog' = rest
                    \/ /\ Len(rest) > BacklogCap
                       /\ backlog' = SubSeq(rest, 1, BacklogCap)
          PROVE  drained' \in Seq(Lines) /\ backlog' \in Seq(Notes(Kinds))
      BY <2>6, <2>7, <3>5, Parted
    <3> QED BY <3>1, <3>2, <3>3, <3>4, <3>5
  <2> QED BY <1>0, <2>3, <2>4, <2>8 DEF QueuesTyped
<1>3. ASSUME UNCHANGED <<queue, backlog, routed, drained>>
      PROVE  /\ queue' \in [Queues -> Seq(Lines)] /\ QueuesTyped'
             /\ routed' \in Seq(Lines) /\ drained' \in Seq(Lines)
  BY <1>0, <1>3 DEF QueuesTyped
<1> QED BY <1>1, <1>2, <1>3, EventsStill

(* The pipes: one step reads a line from one, or writes one to it, or opens  *)
(* the empty one of a process that is started.                               *)
Reads(g) == readerOpen[g] /\ stdout[g] # <<>> /\ stdout' = [stdout EXCEPT ![g] = Tail(@)]
            /\ UNCHANGED lines
Writes(g) == \E line \in Lines :
               /\ alive[g] /\ (line \in Events => line.n = lines) /\ lines' = lines + 1
               /\ stdout' = [stdout EXCEPT ![g] = Append(@, line)]

LEMMA PipeSteps ==
  ASSUME TypeInv, Next
  PROVE  \/ \E g \in Gens : (Reads(g) \/ Writes(g)) /\ UNCHANGED <<readerOpen, starts>>
         \/ UNCHANGED <<stdout, lines>>
<1>0. lines \in Nat
  BY TransportAssumption DEF TypeInv, CoreTypeOK
<1>1. ASSUME NEW g \in Gens, RouteMessage(g)
      PROVE  Reads(g) /\ UNCHANGED <<readerOpen, starts>>
  BY <1>1 DEF RouteMessage, Reads
<1>2. ASSUME NEW g \in Gens, Server(g)
      PROVE  \/ UNCHANGED <<stdout, lines>>
             \/ Writes(g) /\ UNCHANGED <<readerOpen, starts>>
  <2>1. ASSUME NEW line \in Lines, Emit(g, line), line \in Events => line.n = lines
        PROVE  Writes(g) /\ UNCHANGED <<readerOpen, starts>>
    BY <2>1 DEF Emit, Writes, client
  <2>2. CASE ServerAnswers(g)
    <3>1. PICK m \in written[g] : Emit(g, [t |-> "answer", id |-> m.id, call |-> m.call])
      BY <2>2 DEF ServerAnswers
    <3>2. /\ [t |-> "answer", id |-> m.id, call |-> m.call] \in Lines
          /\ [t |-> "answer", id |-> m.id, call |-> m.call] \notin Events
      BY <3>1 DEF Lines, Events, Notes, Requests, TypeInv, CoreTypeOK
    <3> QED BY <2>1, <3>1, <3>2
  <2>3. CASE ServerNotifies(g)
    <3>1. PICK k \in Kinds : Emit(g, [t |-> "note", kind |-> k, n |-> lines])
      BY <2>3 DEF ServerNotifies
    <3>2. [t |-> "note", kind |-> k, n |-> lines] \in Lines
      BY <1>0 DEF Lines, Notes
    <3> QED BY <2>1, <3>1, <3>2
  <2>4. CASE ServerAsks(g)
    <3>1. [t |-> "ask", n |-> lines] \in Lines
      BY <1>0 DEF Lines, Requests
    <3> QED BY <2>1, <2>4, <3>1 DEF ServerAsks
  <2>5. CASE ServerWritesJunk(g)
    <3>1. [t |-> "unknown"] \in Lines /\ [t |-> "unknown"] \notin Events
      BY DEF Lines, Requests, Notes, Events
    <3> QED BY <2>1, <2>5, <3>1 DEF ServerWritesJunk
  <2>6. CASE ServerExits(g)
    BY <2>6 DEF ServerExits, hist
  <2> QED BY <1>2, <2>2, <2>3, <2>4, <2>5, <2>6 DEF Server
<1>3. ASSUME NEW g \in Gens, Dispatcher(g), ~RouteMessage(g)
      PROVE  UNCHANGED <<stdout, lines>>
  BY <1>3 DEF Dispatcher, Deliver, DispatcherSnapshot, DispatcherWake, EndOfStdout,
              EofWake, server, hist
<1>4. ASSUME NEW c \in Callers, Register(c) \/ Proceed(c) \/ Timeout(c) \/ Drain(c)
      PROVE  UNCHANGED <<stdout, lines>>
  BY <1>4 DEF Register, Proceed, CheckFailure, Send, Wake, Unregister, CallerSnapshot,
              CallerWake, Timeout, Drain, DrainNotifications, DrainServerRequests,
              DrainUnknown, DrainMatching, server, hist
<1>5. ASSUME Start \/ CloseBegin \/ Closing
      PROVE  UNCHANGED <<stdout, lines>>
  BY <1>5 DEF Start, CloseBegin, Closing, StopProcess, JoinDispatcher, CloseStdout,
              CloseSnapshot, CloseWake, CloseEnd, server, hist
<1> QED BY <1>1, <1>2, <1>3, <1>4, <1>5 DEF Next

LEMMA SilenceKept ==
  ASSUME TypeInv, EventsInv, Next
  PROVE  UnstartedSilent'
<1> USE DEF TypeInv, CoreTypeOK, EventsInv, UnstartedSilent
<1>1. CASE Start
  <2>1. /\ process' = starts + 1 /\ starts' = starts + 1
        /\ UNCHANGED <<stdout, queue, backlog>>
        /\ \A g \in Gens : g > starts + 1 =>
             alive'[g] = alive[g] /\ readerOpen'[g] = readerOpen[g]
    <3>1. /\ process' = starts + 1 /\ starts' = starts + 1
          /\ UNCHANGED <<stdout, queue, backlog>>
          /\ alive' = [alive EXCEPT ![starts + 1] = TRUE]
          /\ readerOpen' = [readerOpen EXCEPT ![starts + 1] = TRUE]
      BY ONLY <1>1 DEF Start
    <3>2. \A g \in Gens : g > starts + 1 => g # starts + 1
      BY DEF Gens
    <3> QED BY <3>1, <3>2
  <2>2. \A g \in Gens : g > starts + 1 => g > starts
    BY DEF Gens
  <2>3. starts + 1 # 0 /\ starts + 1 <= starts + 1
    OBVIOUS
  <2> QED BY <2>1, <2>2, <2>3
<1>2. CASE ~Start
  <2>1. starts' = starts
    BY ZenonT(60), <1>2 DEF Next, Server, ServerAnswers, ServerNotifies, ServerAsks, ServerWritesJunk,
                ServerExits, Emit, Dispatcher, RouteMessage, Deliver, DispatcherSnapshot,
                DispatcherWake, EndOfStdout, EofWake, Register, Proceed, CheckFailure,
                Send, Wake, Unregister, CallerSnapshot, CallerWake, Timeout, Drain,
                DrainNotifications, DrainServerRequests, DrainUnknown, DrainMatching,
                CloseBegin, Closing, StopProcess, JoinDispatcher, CloseStdout,
                CloseSnapshot, CloseWake, CloseEnd, client
  <2>2. process' \in {process, 0}
    BY ZenonT(60), <1>2 DEF Next, Server, ServerAnswers, ServerNotifies, ServerAsks, ServerWritesJunk,
                ServerExits, Emit, Dispatcher, RouteMessage, Deliver, DispatcherSnapshot,
                DispatcherWake, EndOfStdout, EofWake, Register, Proceed, CheckFailure,
                Send, Wake, Unregister, CallerSnapshot, CallerWake, Timeout, Drain,
                DrainNotifications, DrainServerRequests, DrainUnknown, DrainMatching,
                CloseBegin, Closing, StopProcess, JoinDispatcher, CloseStdout,
                CloseSnapshot, CloseWake, CloseEnd, client
  <2>3. \A g \in Gens : alive'[g] => alive[g]
    BY ZenonT(60), <1>2 DEF Next, Server, ServerAnswers, ServerNotifies, ServerAsks, ServerWritesJunk,
                ServerExits, Emit, Exit, Dispatcher, RouteMessage, Deliver,
                DispatcherSnapshot, DispatcherWake, EndOfStdout, EofWake, Register, Proceed,
                CheckFailure, Send, Wake, Unregister, CallerSnapshot, CallerWake, Timeout,
                Drain, DrainNotifications, DrainServerRequests, DrainUnknown, DrainMatching,
                CloseBegin, Closing, StopProcess, JoinDispatcher, CloseStdout,
                CloseSnapshot, CloseWake, CloseEnd, server
  <2>4. \A g \in Gens : readerOpen'[g] => readerOpen[g]
    BY ZenonT(60), <1>2 DEF Next, Server, ServerAnswers, ServerNotifies, ServerAsks, ServerWritesJunk,
                ServerExits, Emit, Exit, Dispatcher, RouteMessage, Deliver,
                DispatcherSnapshot, DispatcherWake, EndOfStdout, EofWake, Register, Proceed,
                CheckFailure, Send, Wake, Unregister, CallerSnapshot, CallerWake, Timeout,
                Drain, DrainNotifications, DrainServerRequests, DrainUnknown, DrainMatching,
                CloseBegin, Closing, StopProcess, JoinDispatcher, CloseStdout,
                CloseSnapshot, CloseWake, CloseEnd, server
  <2>5. \A g \in Gens : g > starts => stdout'[g] = <<>>
    <3>1. CASE UNCHANGED stdout
      BY <3>1
    <3>2. ASSUME NEW h \in Gens, Reads(h) \/ Writes(h)
          PROVE  \A g \in Gens : g > starts => stdout'[g] = <<>>
      BY <3>2 DEF Reads, Writes
    <3> QED BY <3>1, <3>2, PipeSteps
  <2>6. starts = 0 => queue'["note"] = <<>> /\ backlog' = <<>>
    <3> SUFFICES ASSUME starts = 0 PROVE queue'["note"] = <<>> /\ backlog' = <<>>
      OBVIOUS
    <3>1. ~\E g \in Gens : RouteMessage(g)
      BY DEF RouteMessage, Gens
    <3>2. ASSUME NEW c \in Callers, Drain(c)
          PROVE  queue'["note"] = <<>> /\ backlog' = <<>>
      <4>1. \A K \in SUBSET Kinds : ~DrainMatching(c, K)
        BY DEF DrainMatching, Available
      <4> QED BY <3>2, <4>1 DEF Drain, DrainNotifications, DrainServerRequests,
                                DrainUnknown, Available, EventsTypeOK, Queues
    <3> QED BY <3>1, <3>2, EventsStill
  <2> QED BY <2>1, <2>2, <2>3, <2>4, <2>5, <2>6
<1> QED BY <1>1, <1>2

(* The running process is the only one read, until close() closes the pipe.  *)
LEMMA ReadsKept ==
  ASSUME TypeInv, ClosingIsDeaf, EventsInv, Next
  PROVE  ReadsCurrent'
<1> USE TransportAssumption DEF TypeInv, CoreTypeOK, EventsInv, ReadsCurrent
<1>1. CASE Start
  <2>1. /\ pc[Owner] = "idle" /\ process = 0 /\ UNCHANGED pc
        /\ process' = starts + 1
        /\ readerOpen' = [readerOpen EXCEPT ![starts + 1] = TRUE]
    BY <1>1 DEF Start, caller
  <2>2. \A g \in Gens : ~readerOpen[g]
    BY <2>1 DEF Gens
  <2> QED BY <2>1, <2>2
<1>2. CASE CloseStdout
  <2>1. /\ process' = process /\ process # 0
        /\ readerOpen' = [readerOpen EXCEPT ![process] = FALSE]
    BY <1>2 DEF CloseStdout, client, ClosingIsDeaf
  <2> QED BY <2>1 DEF Gens
<1>3. CASE CloseEnd
  <2>1. /\ process' = 0 /\ UNCHANGED readerOpen /\ pc[Owner] = "closed"
        /\ pc'[Owner] = "idle"
    BY <1>3 DEF CloseEnd, GoTo, server
  <2> QED BY <2>1
<1>4. ASSUME UNCHANGED <<process, readerOpen>>,
             pc'[Owner] \in {"closesnap", "closewake", "closed"} =>
               pc[Owner] \in {"closesnap", "closewake", "closed"}
      PROVE  ReadsCurrent'
  BY <1>4
<1>5. ASSUME NEW g \in Gens, Server(g) \/ Dispatcher(g)
      PROVE  UNCHANGED <<pc, process, readerOpen>>
  BY <1>5 DEF Server, ServerAnswers, ServerNotifies, ServerAsks, ServerWritesJunk,
              ServerExits, Emit, Dispatcher, RouteMessage, Deliver,
              DispatcherSnapshot, DispatcherWake, EndOfStdout, EofWake, client,
              server, caller
<1>6. ASSUME NEW c \in Callers, Register(c) \/ Proceed(c) \/ Timeout(c) \/ Drain(c)
      PROVE  /\ UNCHANGED <<process, readerOpen>>
             /\ pc'[Owner] = pc[Owner] \/ pc'[Owner] \notin {"closesnap", "closewake", "closed"}
  BY ZenonT(60), <1>6 DEF Register, Proceed, CheckFailure, Send, Wake, Unregister,
              CallerSnapshot, CallerWake, Timeout, Drain, DrainNotifications,
              DrainServerRequests, DrainUnknown, DrainMatching, Return, GoTo, client,
              server, caller
<1>7. ASSUME CloseBegin \/ StopProcess \/ JoinDispatcher \/ CloseSnapshot \/ CloseWake
      PROVE  /\ UNCHANGED <<process, readerOpen>>
             /\ pc'[Owner] \in {"closesnap", "closewake", "closed"} =>
                  pc[Owner] \in {"closesnap", "closewake", "closed"}
  BY <1>7 DEF CloseBegin, StopProcess, JoinDispatcher, CloseSnapshot, CloseWake, GoTo,
              client, server
<1> QED BY <1>1, <1>2, <1>3, <1>4, <1>5, <1>6, <1>7 DEF Next, Closing

------------------------------------------------------------------------------
(* The numbers of the events in a pipe grow, and so do those of the events   *)
(* taken from the pipes: what is still to be read is numbered higher.        *)
PipesOrdered ==
  \A g \in Gens : \A j \in 1 .. Len(stdout[g]) : stdout[g][j] \in Events =>
    /\ stdout[g][j].n < lines
    /\ \A i \in 1 .. Len(stdout[g]) :
         i < j /\ stdout[g][i] \in Events => stdout[g][i].n < stdout[g][j].n

Ahead(E, l, open, pipe) ==
  \A i \in 1 .. Len(E) :
    /\ E[i].n < l
    /\ \A g \in Gens : open[g] => \A j \in 1 .. Len(pipe[g]) :
         pipe[g][j] \in Events => E[i].n < pipe[g][j].n

InOrder(E) == Increasing(E) /\ Ahead(E, lines, readerOpen, stdout)

OrderInv == PipesOrdered /\ (\A k \in Kinds : InOrder(NotesOf(k))) /\ InOrder(Asks)

LEMMA TailFacts ==
  ASSUME NEW T, NEW s \in Seq(T), s # <<>>
  PROVE  /\ Tail(s) \in Seq(T) /\ Head(s) = s[1] /\ 1 \in 1 .. Len(s)
         /\ \A j \in 1 .. Len(Tail(s)) :
              j \in Nat /\ j + 1 \in 1 .. Len(s) /\ 1 < j + 1 /\ Tail(s)[j] = s[j + 1]
<1>1. Len(s) \in Nat \ {0} /\ Len(Tail(s)) = Len(s) - 1
  BY HeadTailProperties, EmptySeq
<1> QED BY <1>1, HeadTailProperties

LEMMA AppendFacts ==
  ASSUME NEW T, NEW s \in Seq(T), NEW e \in T
  PROVE  /\ Append(s, e) \in Seq(T)
         /\ \A j \in 1 .. Len(Append(s, e)) :
              \/ j \in 1 .. Len(s) /\ Append(s, e)[j] = s[j]
              \/ /\ j = Len(s) + 1 /\ Append(s, e)[j] = e
                 /\ \A i \in 1 .. Len(s) : i < j
         /\ Len(s) \in Nat /\ Len(Append(s, e)) = Len(s) + 1
<1>1. Len(s) \in Nat
  BY LenProperties
<1> QED BY <1>1, AppendProperties

LEMMA PipesStayOrdered ==
  ASSUME TypeInv, PipesOrdered, Next
  PROVE  PipesOrdered'
<1>0. lines \in Nat /\ stdout \in [Gens -> Seq(Lines)]
  BY TransportAssumption DEF TypeInv, CoreTypeOK
<1>1. CASE UNCHANGED <<stdout, lines>>
  BY <1>1 DEF PipesOrdered
<1>2. ASSUME NEW g \in Gens, Reads(g)
      PROVE  PipesOrdered'
  <2>1. /\ stdout'[g] = Tail(stdout[g]) /\ stdout[g] # <<>> /\ lines' = lines
        /\ \A h \in Gens : h # g => stdout'[h] = stdout[h]
    BY <1>0, <1>2 DEF Reads
  <2>2. \A j \in 1 .. Len(stdout'[g]) :
           j \in Nat /\ j + 1 \in 1 .. Len(stdout[g]) /\ stdout'[g][j] = stdout[g][j + 1]
    BY <1>0, <2>1, TailFacts
  <2>3. ASSUME NEW j \in 1 .. Len(stdout'[g]), stdout'[g][j] \in Events
        PROVE  /\ stdout'[g][j].n < lines
               /\ \A i \in 1 .. Len(stdout'[g]) :
                    i < j /\ stdout'[g][i] \in Events => stdout'[g][i].n < stdout'[g][j].n
    <3>1. \A i \in 1 .. Len(stdout'[g]) : i < j => i + 1 < j + 1
      OBVIOUS
    <3> QED BY <2>2, <2>3, <3>1 DEF PipesOrdered
  <2> QED BY <2>1, <2>3 DEF PipesOrdered
<1>3. ASSUME NEW g \in Gens, Writes(g)
      PROVE  PipesOrdered'
  <2>1. PICK line \in Lines :
          /\ line \in Events => line.n = lines
          /\ lines' = lines + 1 /\ stdout' = [stdout EXCEPT ![g] = Append(@, line)]
    BY <1>3 DEF Writes
  <2>2. /\ stdout'[g] = Append(stdout[g], line)
        /\ \A h \in Gens : h # g => stdout'[h] = stdout[h]
    BY <1>0, <2>1
  <2>3. \A j \in 1 .. Len(stdout'[g]) :
           \/ j \in 1 .. Len(stdout[g]) /\ stdout'[g][j] = stdout[g][j]
           \/ /\ stdout'[g][j] = line /\ j = Len(stdout[g]) + 1
    BY <1>0, <2>2, AppendFacts
  <2>4. \A h \in Gens : \A j \in 1 .. Len(stdout[h]) :
          stdout[h][j] \in Events => stdout[h][j].n < lines + 1 /\ stdout[h][j].n < lines
    <3> SUFFICES ASSUME NEW h \in Gens, NEW j \in 1 .. Len(stdout[h]), stdout[h][j] \in Events
                 PROVE  stdout[h][j].n < lines + 1 /\ stdout[h][j].n < lines
      OBVIOUS
    <3>1. stdout[h][j].n \in Nat
      BY EventLines
    <3> QED BY <1>0, <3>1 DEF PipesOrdered
  <2>5. ASSUME NEW j \in 1 .. Len(stdout'[g]), stdout'[g][j] \in Events
        PROVE  /\ stdout'[g][j].n < lines + 1
               /\ \A i \in 1 .. Len(stdout'[g]) :
                    i < j /\ stdout'[g][i] \in Events => stdout'[g][i].n < stdout'[g][j].n
    <3>1. CASE stdout'[g][j] = line /\ j = Len(stdout[g]) + 1
      <4>1. \A i \in 1 .. Len(stdout'[g]) : i < j => i # Len(stdout[g]) + 1
        BY <3>1
      <4>2. stdout'[g][j].n = lines
        BY <2>1, <2>5, <3>1
      <4>3. ASSUME NEW i \in 1 .. Len(stdout'[g]), i < j, stdout'[g][i] \in Events
            PROVE  stdout'[g][i].n < lines
        <5>1. i \in 1 .. Len(stdout[g]) /\ stdout'[g][i] = stdout[g][i]
          BY <2>3, <4>1, <4>3
        <5> QED BY <2>4, <4>3, <5>1
      <4> QED BY <1>0, <4>2, <4>3
    <3>2. CASE j \in 1 .. Len(stdout[g]) /\ stdout'[g][j] = stdout[g][j]
      <4>0. Len(stdout[g]) \in Nat
        BY <1>0, LenProperties
      <4>1. \A i \in 1 .. Len(stdout'[g]) : i < j => i # Len(stdout[g]) + 1
        BY <3>2, <4>0
      <4> QED BY <2>3, <2>4, <2>5, <3>2, <4>1 DEF PipesOrdered
    <3> QED BY <2>3, <3>1, <3>2
  <2>6. ASSUME NEW h \in Gens, h # g
        PROVE \A j \in 1 .. Len(stdout'[h]) : stdout'[h][j] \in Events =>
               /\ stdout'[h][j].n < lines + 1
               /\ \A i \in 1 .. Len(stdout'[h]) :
                    i < j /\ stdout'[h][i] \in Events => stdout'[h][i].n < stdout'[h][j].n
    BY <2>2, <2>4, <2>6 DEF PipesOrdered
  <2> QED BY <2>1, <2>5, <2>6 DEF PipesOrdered
<1> QED BY <1>1, <1>2, <1>3, PipeSteps

LEMMA ReaderOpens ==
  ASSUME TypeInv, Next, NEW g \in Gens, readerOpen'[g]
  PROVE  readerOpen[g] \/ g > starts
<1> USE DEF TypeInv, CoreTypeOK
<1>1. CASE Start
  <2>1. readerOpen' = [readerOpen EXCEPT ![starts + 1] = TRUE]
    BY <1>1 DEF Start
  <2> QED BY <2>1
<1>2. CASE ~Start
  BY ZenonT(60), <1>2 DEF Next, Server, ServerAnswers, ServerNotifies, ServerAsks, ServerWritesJunk,
              ServerExits, Emit, Exit, Dispatcher, RouteMessage, Deliver,
              DispatcherSnapshot, DispatcherWake, EndOfStdout, EofWake, Register, Proceed,
              CheckFailure, Send, Wake, Unregister, CallerSnapshot, CallerWake, Timeout,
              Drain, DrainNotifications, DrainServerRequests, DrainUnknown, DrainMatching,
              CloseBegin, Closing, StopProcess, JoinDispatcher, CloseStdout,
              CloseSnapshot, CloseWake, CloseEnd, server
<1> QED BY <1>1, <1>2

(* Events already taken stay ahead of those still to be read.                *)
LEMMA StaysAhead ==
  ASSUME TypeInv, EventsInv, Next, NEW E \in Seq(Events),
         Ahead(E, lines, readerOpen, stdout)
  PROVE  Ahead(E, lines', readerOpen', stdout')
<1>0. lines \in Nat /\ stdout \in [Gens -> Seq(Lines)]
  BY TransportAssumption DEF TypeInv, CoreTypeOK
<1> SUFFICES ASSUME NEW i \in 1 .. Len(E)
             PROVE  /\ E[i].n < lines'
                    /\ \A g \in Gens : readerOpen'[g] => \A j \in 1 .. Len(stdout'[g]) :
                         stdout'[g][j] \in Events => E[i].n < stdout'[g][j].n
  BY DEF Ahead
<1>1. /\ E[i].n < lines /\ E[i].n \in Nat
      /\ \A g \in Gens : readerOpen[g] => \A j \in 1 .. Len(stdout[g]) :
           stdout[g][j] \in Events => E[i].n < stdout[g][j].n
  BY ElementOfSeq, EventLines DEF Ahead
<1>2. CASE UNCHANGED <<stdout, lines>>
  <2>1. \A g \in Gens : readerOpen'[g] => readerOpen[g] \/ Len(stdout[g]) = 0
    BY ReaderOpens, EmptySeq DEF EventsInv, UnstartedSilent
  <2> QED BY <1>1, <1>2, <2>1
<1>3. ASSUME NEW g \in Gens, Reads(g), UNCHANGED readerOpen
      PROVE  /\ E[i].n < lines'
             /\ \A h \in Gens : readerOpen'[h] => \A j \in 1 .. Len(stdout'[h]) :
                  stdout'[h][j] \in Events => E[i].n < stdout'[h][j].n
  <2>1. /\ stdout'[g] = Tail(stdout[g]) /\ stdout[g] # <<>> /\ lines' = lines
        /\ \A h \in Gens : h # g => stdout'[h] = stdout[h]
    BY <1>0, <1>3 DEF Reads
  <2>2. \A j \in 1 .. Len(stdout'[g]) :
           j + 1 \in 1 .. Len(stdout[g]) /\ stdout'[g][j] = stdout[g][j + 1]
    BY <1>0, <2>1, TailFacts
  <2>3. ASSUME NEW h \in Gens, readerOpen'[h], NEW j \in 1 .. Len(stdout'[h]),
               stdout'[h][j] \in Events
        PROVE  E[i].n < stdout'[h][j].n
    <3>1. readerOpen[h]
      BY <1>3, <2>3
    <3>2. CASE h = g
      BY <1>1, <2>2, <2>3, <3>1, <3>2
    <3>3. CASE h # g
      BY <1>1, <2>1, <2>3, <3>1, <3>3
    <3> QED BY <3>2, <3>3
  <2> QED BY <1>1, <2>1, <2>3
<1>4. ASSUME NEW g \in Gens, Writes(g), UNCHANGED readerOpen
      PROVE  /\ E[i].n < lines'
             /\ \A h \in Gens : readerOpen'[h] => \A j \in 1 .. Len(stdout'[h]) :
                  stdout'[h][j] \in Events => E[i].n < stdout'[h][j].n
  <2>1. PICK line \in Lines :
          /\ line \in Events => line.n = lines
          /\ lines' = lines + 1 /\ stdout' = [stdout EXCEPT ![g] = Append(@, line)]
    BY <1>4 DEF Writes
  <2>2. /\ stdout'[g] = Append(stdout[g], line)
        /\ \A h \in Gens : h # g => stdout'[h] = stdout[h]
    BY <1>0, <2>1
  <2>3. \A j \in 1 .. Len(stdout'[g]) :
           \/ j \in 1 .. Len(stdout[g]) /\ stdout'[g][j] = stdout[g][j]
           \/ stdout'[g][j] = line
    BY <1>0, <2>2, AppendFacts
  <2>4. E[i].n < lines + 1
    BY <1>0, <1>1
  <2>5. ASSUME readerOpen'[g], NEW j \in 1 .. Len(stdout'[g]), stdout'[g][j] \in Events
        PROVE  E[i].n < stdout'[g][j].n
    <3>1. CASE j \in 1 .. Len(stdout[g]) /\ stdout'[g][j] = stdout[g][j]
      BY <1>1, <1>4, <2>5, <3>1
    <3>2. CASE stdout'[g][j] = line
      BY <1>1, <2>1, <2>5, <3>2
    <3> QED BY <2>3, <3>1, <3>2
  <2>6. ASSUME NEW h \in Gens, h # g, readerOpen'[h], NEW j \in 1 .. Len(stdout'[h]),
               stdout'[h][j] \in Events
        PROVE  E[i].n < stdout'[h][j].n
    BY <1>1, <1>4, <2>2, <2>6
  <2>7. ASSUME NEW h \in Gens, readerOpen'[h], NEW j \in 1 .. Len(stdout'[h]),
               stdout'[h][j] \in Events
        PROVE  E[i].n < stdout'[h][j].n
    BY <2>5, <2>6, <2>7
  <2>8. E[i].n < lines'
    BY <2>1, <2>4
  <2> QED BY <2>7, <2>8
<1> QED BY <1>2, <1>3, <1>4, PipeSteps

(* The event a dispatcher takes is the next one.                             *)
LEMMA TakenIsNext ==
  ASSUME TypeInv, EventsInv, PipesOrdered, NEW E \in Seq(Events), InOrder(E),
         NEW g \in Gens, Reads(g), UNCHANGED readerOpen, Head(stdout[g]) \in Events
  PROVE  /\ Increasing(Append(E, Head(stdout[g])))
         /\ Ahead(Append(E, Head(stdout[g])), lines', readerOpen', stdout')
<1> DEFINE line == Head(stdout[g])
           F == Append(E, line)
<1>0. lines \in Nat /\ stdout \in [Gens -> Seq(Lines)]
  BY TransportAssumption DEF TypeInv, CoreTypeOK
<1>1. /\ stdout'[g] = Tail(stdout[g]) /\ stdout[g] # <<>> /\ lines' = lines
      /\ \A h \in Gens : h # g => ~readerOpen[h]
      /\ readerOpen[g]
  BY <1>0 DEF Reads, EventsInv, ReadsCurrent
<1>2. /\ line = stdout[g][1] /\ 1 \in 1 .. Len(stdout[g])
      /\ \A j \in 1 .. Len(stdout'[g]) :
           /\ j + 1 \in 1 .. Len(stdout[g]) /\ stdout'[g][j] = stdout[g][j + 1]
           /\ 1 < j + 1
  BY <1>0, <1>1, TailFacts
<1>3. line.n < lines
  BY <1>2 DEF PipesOrdered
<1>4. \A j \in 1 .. Len(stdout'[g]) : stdout'[g][j] \in Events => line.n < stdout'[g][j].n
  BY <1>2 DEF PipesOrdered
<1>5. \A i \in 1 .. Len(E) :
        /\ E[i].n < lines /\ E[i].n < line.n
        /\ \A j \in 1 .. Len(stdout'[g]) : stdout'[g][j] \in Events => E[i].n < stdout'[g][j].n
  BY <1>1, <1>2 DEF InOrder, Ahead
<1> HIDE DEF line
<1>6. \A i \in 1 .. Len(F) : \/ i \in 1 .. Len(E) /\ F[i] = E[i]
                             \/ /\ i = Len(E) + 1 /\ F[i] = line
                                /\ \A j \in 1 .. Len(E) : j < i
  <2>1. line \in Events
    BY DEF line
  <2> QED BY <2>1, AppendFacts
<1>7. Increasing(F)
  <2> HIDE DEF F
  <2>1. ASSUME NEW i \in 1 .. Len(F), NEW j \in 1 .. Len(F), i < j
        PROVE  F[i].n < F[j].n
    <3>1. Len(E) \in Nat
      BY LenProperties
    <3>2. i \in 1 .. Len(E) /\ F[i] = E[i]
      <4>1. ~(i = Len(E) + 1)
        BY <1>6, <2>1, <3>1
      <4> QED BY <1>6, <4>1
    <3> QED BY <1>5, <1>6, <2>1, <3>2 DEF InOrder, Increasing
  <2> QED BY <2>1 DEF Increasing
<1>8. Ahead(F, lines', readerOpen', stdout')
  <2> HIDE DEF F
  <2> QED BY <1>1, <1>3, <1>4, <1>5, <1>6 DEF Ahead
<1> QED BY <1>7, <1>8 DEF line

(* What is left of a sequence of events by a loss at its end is in order.    *)
LEMMA PrefixInOrder ==
  ASSUME NEW E \in Seq(Events), NEW F \in Seq(Events), NEW G \in Seq(Events), E = F \o G,
         InOrder(E)
  PROVE  InOrder(F)
<1>1. \A i \in 1 .. Len(F) : i \in 1 .. Len(E) /\ E[i] = F[i]
  BY ConcatProperties, LenProperties
<1> QED BY <1>1 DEF InOrder, Increasing, Ahead

------------------------------------------------------------------------------
(* What is handed out and kept of one class of events, and what of it has    *)
(* been taken from the pipes: both grow by the same event, or neither does,  *)
(* or the failure is on record.                                              *)
Grows(S, old, new, was, is) ==
  \/ new = old /\ (is = was \/ transport_failure' # 0)
  \/ \E g \in Gens :
       /\ Reads(g) /\ UNCHANGED readerOpen /\ Head(stdout[g]) \in S
       /\ new = Append(old, Head(stdout[g])) /\ is = Append(was, Head(stdout[g]))
  \/ transport_failure' # 0 /\ \E lost \in Seq(S) : old = Join(new, lost)

LEMMA NotesAreEvents ==
  ASSUME NEW k \in Kinds
  PROVE  /\ Notes({k}) \subseteq Notes(Kinds) /\ Notes({k}) \subseteq Events
         /\ Notes({k}) \cap Requests = {} /\ Notes(Kinds) \cap Requests = {}
         /\ Events \subseteq Lines /\ Notes(Kinds) \subseteq Lines /\ Requests \subseteq Lines
         /\ Requests \subseteq Events
         /\ \A K \in SUBSET Kinds :
              /\ k \in K => Notes(K) \cap Notes({k}) = Notes({k})
              /\ k \notin K => Notes(K) \cap Notes({k}) = {}
BY DEF Notes, Requests, Events, Lines

(* A split of the events into those that match and the others loses none.    *)
LEMMA SplitKeepsAll ==
  ASSUME NEW all \in Seq(Notes(Kinds)), NEW K \in SUBSET Kinds, NEW k \in Kinds
  PROVE  Join(Keep(Keep(all, Notes(K)), Notes({k})),
              Keep(Keep(all, Notes(Kinds \ K)), Notes({k})))
           = Keep(all, Notes({k}))
<1> DEFINE S == Notes({k})
           A == Notes(K)
           B == Notes(Kinds \ K)
<1>0. \/ A \cap S = S /\ B \cap S = {}
      \/ A \cap S = {} /\ B \cap S = S
  BY DEF Notes
<1> HIDE DEF S, A, B
<1>1. Keep(Keep(all, A), S) = Keep(all, A \cap S) /\ Keep(Keep(all, B), S) = Keep(all, B \cap S)
  <2>1. Keep(Keep(all, A), S) = Keep(all, A \cap S)
    BY KeepKeep
  <2>2. Keep(Keep(all, B), S) = Keep(all, B \cap S)
    BY KeepKeep
  <2> QED BY <2>1, <2>2
<1>2. Keep(all, {}) = <<>>
  BY KeepNone
<1>3. Keep(all, S) \in Seq(S)
  BY KeepIn
<1>4. Join(Keep(all, S), <<>>) = Keep(all, S) /\ Join(<<>>, Keep(all, S)) = Keep(all, S)
  BY <1>3, JoinEmpty
<1>5. Join(Keep(Keep(all, A), S), Keep(Keep(all, B), S)) = Keep(all, S)
  <2>1. CASE A \cap S = S /\ B \cap S = {}
    BY <1>1, <1>2, <1>4, <2>1
  <2>2. CASE A \cap S = {} /\ B \cap S = S
    BY <1>1, <1>2, <1>4, <2>2
  <2> QED BY <1>0, <2>1, <2>2
<1> QED BY <1>5 DEF S, A, B

LEMMA NotesGrow ==
  ASSUME TypeInv, EventsInv, Next, NEW k \in Kinds
  PROVE  Grows(Notes({k}), NotesOf(k), NotesOf(k)', Keep(routed, Notes({k})),
               Keep(routed', Notes({k})))
<1> DEFINE S == Notes({k})
           q == queue["note"]
           a == queue["ask"]
<1>0. /\ queue \in [Queues -> Seq(Lines)] /\ Queues = {"note", "ask", "unknown"}
      /\ backlog \in Seq(Lines) /\ q \in Seq(Lines) /\ drained \in Seq(Lines)
      /\ routed \in Seq(Lines) /\ a \in Seq(Requests) /\ a \in Seq(Lines)
      /\ backlog \in Seq(Notes(Kinds)) /\ q \in Seq(Notes(Kinds))
      /\ <<>> \in Seq(Lines)
  BY EmptySeq DEF EventsInv, EventsTypeOK, QueuesTyped, Queues
<1>1. NotesOf(k) = Keep(Join(Join(drained, backlog), q), S)
  BY DEF NotesOf, Join
<1>2. NotesOf(k)' = Keep(Join(Join(drained', backlog'), queue'["note"]), S)
  BY DEF NotesOf, Join
<1>3. S \subseteq Events /\ S \cap Requests = {} /\ Requests \cap S = {} /\ S \subseteq Notes(Kinds)
  BY NotesAreEvents
<1>9. \A i \in {"ask", "unknown"} : \A s : queue' = [queue EXCEPT ![i] = s] => queue'["note"] = q
  BY <1>0
<1>10. \A s : queue' = [queue EXCEPT !["note"] = s] => queue'["note"] = s
  BY <1>0
<1>4. ASSUME NEW g \in Gens, RouteMessage(g)
      PROVE  Grows(S, NotesOf(k), NotesOf(k)', Keep(routed, S), Keep(routed', S))
  <2> DEFINE line == Head(stdout[g])
  <2>1. /\ line \in Lines /\ routed' = Append(routed, line)
        /\ UNCHANGED <<backlog, drained>>
        /\ \/ queue' = queue /\ (line \in Events => transport_failure' # 0)
           \/ /\ line \notin Events
              /\ queue' = [queue EXCEPT !["unknown"] = Append(@, line)]
           \/ /\ line \in Notes(Kinds)
              /\ queue' = [queue EXCEPT !["note"] = Append(@, line)]
           \/ /\ line \in Requests
              /\ queue' = [queue EXCEPT !["ask"] = Append(@, line)]
    BY <1>4, RouteFacts
  <2>2. Reads(g) /\ UNCHANGED readerOpen
    BY <1>4 DEF RouteMessage, Reads
  <2>3. \/ queue'["note"] = q /\ (line \in S => transport_failure' # 0)
        \/ line \in Notes(Kinds) /\ queue'["note"] = Append(q, line)
    BY <1>3, <1>9, <1>10, <2>1
  <2> HIDE DEF line, S, q
  <2>4. Keep(routed', S) = IF line \in S THEN Append(Keep(routed, S), line) ELSE Keep(routed, S)
    BY <1>0, <2>1, KeepAppend
  <2>5. CASE queue'["note"] = q /\ (line \in S => transport_failure' # 0)
    BY <1>1, <1>2, <2>1, <2>4, <2>5 DEF Grows
  <2>6. CASE line \in Notes(Kinds) /\ queue'["note"] = Append(q, line)
    <3> DEFINE seen == Join(Join(drained, backlog), q)
    <3>0. Join(drained, backlog) \in Seq(Lines)
      BY <1>0, JoinType
    <3>1. Join(Join(drained, backlog), Append(q, line)) = Append(seen, line)
      <4> DEFINE z == Join(drained, backlog)
      <4>1. z \in Seq(Lines)
        BY <3>0
      <4> HIDE DEF z
      <4>2. Join(z, Append(q, line)) = Append(Join(z, q), line)
        BY <1>0, <2>1, <4>1, JoinAppend
      <4> QED BY <4>2 DEF z
    <3>2. seen \in Seq(Lines)
      BY <1>0, <3>0, JoinType
    <3> HIDE DEF seen
    <3>3. Keep(Append(seen, line), S) = IF line \in S THEN Append(Keep(seen, S), line) ELSE Keep(seen, S)
      BY <2>1, <3>2, KeepAppend
    <3>4. NotesOf(k)' = IF line \in S THEN Append(NotesOf(k), line) ELSE NotesOf(k)
      BY <1>1, <1>2, <2>1, <2>6, <3>1, <3>3 DEF seen
    <3>5. CASE line \in S
      BY <2>2, <2>4, <3>4, <3>5 DEF Grows, line
    <3>6. CASE line \notin S
      BY <2>4, <3>4, <3>6 DEF Grows
    <3> QED BY <3>5, <3>6
  <2> QED BY <2>3, <2>5, <2>6
<1>5. ASSUME NEW c \in Callers, Drain(c)
      PROVE  Grows(S, NotesOf(k), NotesOf(k)', Keep(routed, S), Keep(routed', S))
  <2>0. routed' = routed
    BY <1>5, DrainFacts
  <2> SUFFICES \/ NotesOf(k)' = NotesOf(k)
               \/ transport_failure' # 0 /\ \E lost \in Seq(S) : NotesOf(k) = Join(NotesOf(k)', lost)
    BY <2>0 DEF Grows
  <2>1. CASE UNCHANGED <<drained, backlog>> /\ queue' = [queue EXCEPT !["unknown"] = <<>>]
    BY <1>1, <1>2, <1>9, <2>1
  <2>2. CASE /\ drained' = drained \o a /\ UNCHANGED backlog
             /\ queue' = [queue EXCEPT !["ask"] = <<>>]
    <3>1. queue'["note"] = q
      BY <1>9, <2>2
    <3> HIDE DEF S, q, a
    <3>2. Keep(Join(drained, a), S) = Keep(drained, S) /\ Join(drained, a) \in Seq(Lines)
      BY <1>0, <1>3, KeepSkips, JoinType
    <3>3. /\ Keep(Join(Join(drained, a), backlog), S) = Keep(Join(drained, backlog), S)
          /\ Join(Join(drained, a), backlog) \in Seq(Lines)
          /\ Join(drained, backlog) \in Seq(Lines)
      BY <1>0, <3>2, KeepJoin, JoinType
    <3>4. Keep(Join(Join(Join(drained, a), backlog), q), S) = Keep(Join(Join(drained, backlog), q), S)
      BY <1>0, <3>3, KeepJoin
    <3>5. drained' = Join(drained, a) /\ backlog' = backlog
      BY <2>2 DEF Join
    <3> QED BY <1>1, <1>2, <3>1, <3>4, <3>5
  <2> DEFINE all == backlog \o q
  <2>a. all \in Seq(Lines) /\ all \in Seq(Notes(Kinds))
    BY <1>0, ConcatProperties
  <2>b. NotesOf(k) = Join(Keep(drained, S), Keep(all, S))
    <3>0. all = Join(backlog, q)
      BY DEF Join
    <3> HIDE DEF S, q, all
    <3>1. Keep(Join(Join(drained, backlog), q), S)
            = Join(Keep(drained, S), Join(Keep(backlog, S), Keep(q, S)))
      BY <1>0, KeepThree
    <3>2. Keep(all, S) = Join(Keep(backlog, S), Keep(q, S))
      BY <1>0, <3>0, KeepJoin
    <3> QED BY <1>1, <3>1, <3>2
  <2>3. CASE /\ queue' = [queue EXCEPT !["note"] = <<>>]
             /\ drained' = drained \o all /\ backlog' = <<>>
    <3>1. queue'["note"] = <<>>
      BY <1>10, <2>3
    <3> HIDE DEF S, all
    <3>2. drained' = Join(drained, all) /\ Join(drained, all) \in Seq(Lines)
      BY <1>0, <2>a, <2>3, JoinType DEF Join
    <3>3. Join(Join(drained', backlog'), queue'["note"]) = Join(drained, all)
      BY <2>3, <3>1, <3>2, JoinEmpty
    <3>4. Keep(Join(drained, all), S) = Join(Keep(drained, S), Keep(all, S))
      BY <1>0, <2>a, KeepJoin
    <3> QED BY <1>2, <2>b, <3>3, <3>4
  <2>4. ASSUME NEW K \in SUBSET Kinds, queue' = [queue EXCEPT !["note"] = <<>>],
               drained' = drained \o Keep(all, Notes(K)),
               LET rest == Keep(all, Notes(Kinds \ K)) IN
               \/ backlog' = rest
               \/ /\ Len(rest) > BacklogCap /\ backlog' = SubSeq(rest, 1, BacklogCap)
                  /\ transport_failure' # 0
        PROVE  \/ NotesOf(k)' = NotesOf(k)
               \/ transport_failure' # 0 /\ \E lost \in Seq(S) : NotesOf(k) = Join(NotesOf(k)', lost)
    <3> DEFINE matched == Keep(all, Notes(K))
               rest == Keep(all, Notes(Kinds \ K))
    <3>0. queue'["note"] = <<>>
      BY <1>10, <2>4
    <3>1. /\ matched \in Seq(Notes(Kinds)) /\ rest \in Seq(Notes(Kinds))
          /\ Len(rest) > BacklogCap => SubSeq(rest, 1, BacklogCap) \in Seq(Notes(Kinds))
      BY Parted
    <3>2. Join(Keep(matched, S), Keep(rest, S)) = Keep(all, S)
      <4> HIDE DEF all
      <4> QED BY <2>a, SplitKeepsAll
    <3>3. /\ drained' = Join(drained, matched)
          /\ \/ backlog' = rest
             \/ /\ Len(rest) > BacklogCap /\ backlog' = SubSeq(rest, 1, BacklogCap)
                /\ transport_failure' # 0
      BY <2>4 DEF Join
    <3> HIDE DEF rest, matched, all, S
    <3>4. \A s \in Seq(Notes(Kinds)) : s \in Seq(Lines)
      BY NotesAreEvents, SeqMonotonic
    <3>4a. matched \in Seq(Lines) /\ Join(drained, matched) \in Seq(Lines)
      BY <1>0, <3>1, <3>4, JoinType
    <3>5. ASSUME NEW s \in Seq(Lines), NEW x \in Seq(Lines), backlog' = s, rest = Join(s, x)
          PROVE  NotesOf(k) = Join(NotesOf(k)', Keep(x, S)) /\ Keep(x, S) \in Seq(S)
      <4>1. Join(Keep(drained, S), Join(Keep(matched, S), Keep(Join(s, x), S)))
              = Join(Keep(Join(Join(drained, matched), s), S), Keep(x, S))
        BY <1>0, <3>4a, KeepMoved
      <4>2. Keep(x, S) \in Seq(S)
        BY KeepIn
      <4>3. Join(Join(drained', backlog'), queue'["note"]) = Join(Join(drained, matched), s)
        <5>1. Join(Join(drained, matched), s) \in Seq(Lines)
          BY <3>4a, JoinType
        <5> QED BY <3>0, <3>3, <3>5, <5>1, JoinEmpty
      <4> QED BY <1>2, <2>b, <3>2, <3>5, <4>1, <4>2, <4>3
    <3>6. CASE backlog' = rest
      <4>1. rest \in Seq(Lines) /\ rest = Join(rest, <<>>)
        BY <3>1, <3>4, JoinEmpty
      <4>2. NotesOf(k) = Join(NotesOf(k)', <<>>)
        BY <1>0, <3>5, <3>6, <4>1, KeepEmpty
      <4>3. NotesOf(k)' \in Seq(S)
        <5>1. Join(Join(drained, matched), rest) \in Seq(Lines)
          BY <3>4a, <4>1, JoinType
        <5>2. Join(Join(Join(drained, matched), rest), <<>>) \in Seq(Lines)
          BY <1>0, <5>1, JoinType
        <5> QED BY <1>2, <3>0, <3>3, <3>6, <5>2, KeepIn
      <4> QED BY <4>2, <4>3, JoinEmpty
    <3>7. CASE /\ Len(rest) > BacklogCap /\ backlog' = SubSeq(rest, 1, BacklogCap)
               /\ transport_failure' # 0
      <4> DEFINE kept == SubSeq(rest, 1, BacklogCap)
                 gone == SubSeq(rest, BacklogCap + 1, Len(rest))
      <4>1. Len(rest) \in Nat /\ BacklogCap \in Nat \ {0}
        BY <3>1, LenProperties, TransportAssumption
      <4>2. kept \o gone = rest
        <5>1. /\ 1 \in 1 .. Len(rest) + 1 /\ BacklogCap \in 1 - 1 .. Len(rest)
              /\ Len(rest) \in BacklogCap .. Len(rest)
          BY <3>7, <4>1
        <5>2. kept \o gone = SubSeq(rest, 1, Len(rest))
          BY <3>1, <5>1, ConcatAdjacentSubSeq
        <5> QED BY <3>1, <5>2, SubSeqFull
      <4>3. kept \in Seq(Lines)
        BY <3>1, <3>4, <3>7
      <4>4. gone \in Seq(Lines)
        <5>1. \A i \in BacklogCap + 1 .. Len(rest) : rest[i] \in Notes(Kinds)
          BY <3>1, <4>1, ElementOfSeq
        <5>2. gone \in Seq(Notes(Kinds))
          BY <4>1, <5>1, SubSeqProperties
        <5> QED BY <3>4, <5>2
      <4>5. backlog' = kept /\ rest = Join(kept, gone)
        BY <3>7, <4>2 DEF Join
      <4> HIDE DEF kept, gone
      <4>6. NotesOf(k) = Join(NotesOf(k)', Keep(gone, S)) /\ Keep(gone, S) \in Seq(S)
        BY <3>5, <4>3, <4>4, <4>5
      <4> QED BY <3>7, <4>6
    <3> QED BY <3>3, <3>6, <3>7
  <2> QED BY <1>5, <2>1, <2>2, <2>3, <2>4, DrainFacts
<1>6. ASSUME UNCHANGED <<queue, backlog, routed, drained>>
      PROVE  Grows(S, NotesOf(k), NotesOf(k)', Keep(routed, S), Keep(routed', S))
  BY <1>6 DEF NotesOf, Grows
<1> QED BY <1>4, <1>5, <1>6, EventsStill

LEMMA AsksGrow ==
  ASSUME TypeInv, EventsInv, Next
  PROVE  Grows(Requests, Asks, Asks', Keep(routed, Requests), Keep(routed', Requests))
<1> DEFINE S == Requests
           a == queue["ask"]
<1>0. /\ queue \in [Queues -> Seq(Lines)] /\ Queues = {"note", "ask", "unknown"}
      /\ drained \in Seq(Lines) /\ routed \in Seq(Lines) /\ a \in Seq(Lines)
      /\ backlog \in Seq(Notes(Kinds)) /\ queue["note"] \in Seq(Notes(Kinds))
      /\ <<>> \in Seq(Lines)
  BY EmptySeq DEF EventsInv, EventsTypeOK, QueuesTyped, Queues
<1>1. Asks = Keep(Join(drained, a), S)
  BY DEF Asks, Join
<1>2. Asks' = Keep(Join(drained', queue'["ask"]), S)
  BY DEF Asks, Join
<1>3. /\ S \subseteq Events /\ Notes(Kinds) \cap S = {} /\ Notes(Kinds) \subseteq Lines
  BY DEF Notes, Requests, Events, Lines
<1>9. \A i \in {"note", "unknown"} : \A s : queue' = [queue EXCEPT ![i] = s] => queue'["ask"] = a
  BY <1>0
<1>10. \A s : queue' = [queue EXCEPT !["ask"] = s] => queue'["ask"] = s
  BY <1>0
<1>4. ASSUME NEW g \in Gens, RouteMessage(g)
      PROVE  Grows(S, Asks, Asks', Keep(routed, S), Keep(routed', S))
  <2> DEFINE line == Head(stdout[g])
  <2>1. /\ line \in Lines /\ routed' = Append(routed, line) /\ UNCHANGED drained
        /\ \/ queue' = queue /\ (line \in Events => transport_failure' # 0)
           \/ /\ line \notin Events
              /\ queue' = [queue EXCEPT !["unknown"] = Append(@, line)]
           \/ /\ line \in Notes(Kinds)
              /\ queue' = [queue EXCEPT !["note"] = Append(@, line)]
           \/ /\ line \in Requests
              /\ queue' = [queue EXCEPT !["ask"] = Append(@, line)]
    BY <1>4, RouteFacts
  <2>2. Reads(g) /\ UNCHANGED readerOpen
    BY <1>4 DEF RouteMessage, Reads
  <2>3. \/ queue'["ask"] = a /\ (line \in S => transport_failure' # 0)
        \/ line \in S /\ queue'["ask"] = Append(a, line)
    BY <1>3, <1>9, <1>10, <2>1
  <2> HIDE DEF line, S, a
  <2>4. Keep(routed', S) = IF line \in S THEN Append(Keep(routed, S), line) ELSE Keep(routed, S)
    BY <1>0, <2>1, KeepAppend
  <2>5. CASE queue'["ask"] = a /\ (line \in S => transport_failure' # 0)
    BY <1>1, <1>2, <2>1, <2>4, <2>5 DEF Grows
  <2>6. CASE line \in S /\ queue'["ask"] = Append(a, line)
    <3> DEFINE seen == Join(drained, a)
    <3>0. drained \in Seq(Lines) /\ a \in Seq(Lines) /\ line \in Lines
      BY <1>0, <2>1
    <3>a. seen \in Seq(Lines)
      BY <3>0, JoinType
    <3>1. Join(drained, Append(a, line)) = Append(seen, line)
      BY <3>0, JoinAppend
    <3> HIDE DEF seen
    <3>2. Keep(Append(seen, line), S) = Append(Keep(seen, S), line)
      BY <2>6, <3>0, <3>a, KeepAppend
    <3>3. Asks' = Append(Asks, line)
      BY <1>1, <1>2, <2>1, <2>6, <3>1, <3>2 DEF seen
    <3> QED BY <2>2, <2>4, <2>6, <3>3 DEF Grows, line
  <2> QED BY <2>3, <2>5, <2>6
<1>5. ASSUME NEW c \in Callers, Drain(c)
      PROVE  Grows(S, Asks, Asks', Keep(routed, S), Keep(routed', S))
  <2>0. routed' = routed
    BY <1>5, DrainFacts
  <2> SUFFICES Asks' = Asks
    BY <2>0 DEF Grows
  <2>1. CASE UNCHANGED drained /\ queue' = [queue EXCEPT !["unknown"] = <<>>]
    BY <1>1, <1>2, <1>9, <2>1
  <2>2. CASE drained' = drained \o a /\ queue' = [queue EXCEPT !["ask"] = <<>>]
    <3>1. drained' = Join(drained, a) /\ Join(drained, a) \in Seq(Lines)
      BY <1>0, <2>2, JoinType DEF Join
    <3>2. queue'["ask"] = <<>>
      BY <1>10, <2>2
    <3> QED BY <1>1, <1>2, <3>1, <3>2, JoinEmpty
  <2>3. ASSUME NEW m \in Seq(Notes(Kinds)), drained' = drained \o m,
               queue' = [queue EXCEPT !["note"] = <<>>]
        PROVE  Asks' = Asks
    <3>1. queue'["ask"] = a /\ drained' = Join(drained, m)
      BY <1>9, <2>3 DEF Join
    <3>2. m \in Seq(Lines)
      BY <1>3, SeqMonotonic
    <3> HIDE DEF S, a
    <3>3. Keep(Join(drained, m), S) = Keep(drained, S) /\ Join(drained, m) \in Seq(Lines)
      BY <1>0, <1>3, <3>2, KeepSkips, JoinType
    <3>4. Keep(Join(Join(drained, m), a), S) = Keep(Join(drained, a), S)
      BY <1>0, <3>3, KeepJoin
    <3> QED BY <1>1, <1>2, <3>1, <3>4
  <2>4. CASE /\ queue' = [queue EXCEPT !["note"] = <<>>]
             /\ drained' = drained \o (backlog \o queue["note"])
    <3>1. backlog \o queue["note"] \in Seq(Notes(Kinds))
      BY <1>0, ConcatProperties
    <3> QED BY <2>3, <2>4, <3>1
  <2>5. ASSUME NEW K \in SUBSET Kinds, queue' = [queue EXCEPT !["note"] = <<>>],
               drained' = drained \o Keep(backlog \o queue["note"], Notes(K))
        PROVE  Asks' = Asks
    <3>1. Keep(backlog \o queue["note"], Notes(K)) \in Seq(Notes(Kinds))
      BY Parted
    <3> QED BY <2>3, <2>5, <3>1
  <2> QED BY <1>5, <2>1, <2>2, <2>4, <2>5, DrainFacts
<1>6. ASSUME UNCHANGED <<queue, backlog, routed, drained>>
      PROVE  Grows(S, Asks, Asks', Keep(routed, S), Keep(routed', S))
  BY <1>6 DEF Asks, Grows
<1> QED BY <1>4, <1>5, <1>6, EventsStill
------------------------------------------------------------------------------
LEMMA FailureStays ==
  ASSUME TypeInv, Next, transport_failure # 0
  PROVE  transport_failure' # 0
BY ZenonT(60) DEF Next, Server, ServerAnswers, ServerNotifies, ServerAsks, ServerWritesJunk,
       ServerExits, Emit, Dispatcher, RouteMessage, PutTransportEvent, Deliver,
       RecordFailure, DispatcherSnapshot, DispatcherWake, EndOfStdout, EofWake, Register,
       Proceed, CheckFailure, Send, Wake, Unregister, CallerSnapshot, CallerWake, Timeout,
       Drain, DrainNotifications, DrainServerRequests, DrainUnknown, DrainMatching, Start,
       CloseBegin, Closing, StopProcess, JoinDispatcher, CloseStdout, CloseSnapshot,
       CloseWake, CloseEnd, client

(* One class of events stays in order, whichever way it grows.               *)
LEMMA StaysInOrder ==
  ASSUME TypeInv, EventsInv, PipesOrdered, Next, NEW S, S \subseteq Events,
         NEW E, E \in Seq(S), NEW F, F \in Seq(S), NEW was, NEW is, Grows(S, E, F, was, is), InOrder(E)
  PROVE  Increasing(F) /\ Ahead(F, lines', readerOpen', stdout')
<1>0. E \in Seq(Events) /\ F \in Seq(Events)
  BY SeqMonotonic
<1>1. CASE F = E
  BY <1>0, <1>1, StaysAhead DEF InOrder
<1>2. ASSUME NEW g \in Gens, Reads(g), UNCHANGED readerOpen, Head(stdout[g]) \in S,
             F = Append(E, Head(stdout[g]))
      PROVE  Increasing(F) /\ Ahead(F, lines', readerOpen', stdout')
  BY <1>0, <1>2, TakenIsNext
<1>3. ASSUME NEW lost \in Seq(S), E = Join(F, lost)
      PROVE  Increasing(F) /\ Ahead(F, lines', readerOpen', stdout')
  <2>1. lost \in Seq(Events)
    BY SeqMonotonic
  <2>2. E = F \o lost
    BY <1>3 DEF Join
  <2>3. InOrder(F)
    BY <1>0, <2>1, <2>2, PrefixInOrder
  <2> QED BY <1>0, <2>3, StaysAhead DEF InOrder
<1> QED BY <1>1, <1>2, <1>3 DEF Grows

Flows ==
  /\ Asks \in Seq(Requests)
  /\ \A k \in Kinds : NotesOf(k) \in Seq(Notes({k}))

LEMMA FlowsTyped ==
  ASSUME EventsInv
  PROVE  Flows
<1>1. /\ queue["note"] \in Seq(Lines) /\ queue["ask"] \in Seq(Lines)
      /\ backlog \in Seq(Lines) /\ drained \in Seq(Lines)
  BY DEF EventsInv, EventsTypeOK, Queues
<1>2. /\ drained \o queue["ask"] \in Seq(Lines)
      /\ drained \o backlog \o queue["note"] \in Seq(Lines)
  BY <1>1
<1>3. Asks \in Seq(Requests)
  BY <1>2, KeepIn DEF Asks
<1>4. ASSUME NEW k \in Kinds PROVE NotesOf(k) \in Seq(Notes({k}))
  BY <1>2, KeepIn DEF NotesOf
<1> QED BY <1>3, <1>4 DEF Flows

LEMMA FlowsTypedNext ==
  ASSUME EventsInv'
  PROVE  Flows'
<1>1. /\ queue'["note"] \in Seq(Lines) /\ queue'["ask"] \in Seq(Lines)
      /\ backlog' \in Seq(Lines) /\ drained' \in Seq(Lines)
  BY DEF EventsInv, EventsTypeOK, Queues
<1>2. /\ drained' \o queue'["ask"] \in Seq(Lines)
      /\ drained' \o backlog' \o queue'["note"] \in Seq(Lines)
  BY <1>1
<1>3. Asks' \in Seq(Requests)
  BY <1>2, KeepIn DEF Asks
<1>4. ASSUME NEW k \in Kinds PROVE NotesOf(k)' \in Seq(Notes({k}))
  BY <1>2, KeepIn DEF NotesOf
<1> QED BY <1>3, <1>4 DEF Flows

LEMMA OrderStep ==
  ASSUME TypeInv, EventsInv, EventsInv', OrderInv, Next
  PROVE  OrderInv'
<1>a. Flows /\ Flows' /\ Requests \subseteq Events
  BY FlowsTyped, FlowsTypedNext DEF Events
<1>b. \A k \in Kinds : Notes({k}) \subseteq Events
  BY NotesAreEvents DEF Events
<1>0. /\ Asks \in Seq(Requests) /\ Asks' \in Seq(Requests) /\ Requests \subseteq Events
      /\ \A k \in Kinds : /\ NotesOf(k) \in Seq(Notes({k})) /\ NotesOf(k)' \in Seq(Notes({k}))
                          /\ Notes({k}) \subseteq Events
  BY <1>a, <1>b DEF Flows
<1>1. PipesOrdered'
  BY PipesStayOrdered DEF OrderInv
<1>2. ASSUME NEW k \in Kinds PROVE InOrder(NotesOf(k))'
  <2>1. InOrder(NotesOf(k)) /\ PipesOrdered
    BY DEF OrderInv
  <2> DEFINE S == Notes({k})
             was == Keep(routed, S)
             is == Keep(routed', S)
  <2>2. Grows(S, NotesOf(k), NotesOf(k)', was, is)
    BY NotesGrow
  <2>3. S \subseteq Events /\ NotesOf(k) \in Seq(S) /\ NotesOf(k)' \in Seq(S)
    BY <1>0
  <2> HIDE DEF S, was, is
  <2>4. Increasing(NotesOf(k)') /\ Ahead(NotesOf(k)', lines', readerOpen', stdout')
    BY <2>1, <2>2, <2>3, StaysInOrder
  <2> QED BY <2>4 DEF InOrder
<1>3. InOrder(Asks)'
  <2>1. InOrder(Asks) /\ PipesOrdered
    BY DEF OrderInv
  <2> DEFINE was == Keep(routed, Requests)
             is == Keep(routed', Requests)
  <2>2. Grows(Requests, Asks, Asks', was, is)
    BY AsksGrow
  <2> HIDE DEF was, is
  <2>4. Increasing(Asks') /\ Ahead(Asks', lines', readerOpen', stdout')
    BY <1>0, <2>1, <2>2, StaysInOrder
  <2> QED BY <2>4 DEF InOrder
<1> QED BY <1>1, <1>2, <1>3 DEF OrderInv

LEMMA LossStep ==
  ASSUME TypeInv, EventsInv, Next, NothingLostSilently
  PROVE  NothingLostSilently'
<1> SUFFICES ASSUME transport_failure' = 0
             PROVE  /\ \A k \in Kinds : NotesOf(k)' = Keep(routed', Notes({k}))
                    /\ Asks' = Keep(routed', Requests)
  BY DEF NothingLostSilently
<1>1. transport_failure = 0
  BY FailureStays
<1>2. ASSUME NEW k \in Kinds PROVE NotesOf(k)' = Keep(routed', Notes({k}))
  <2>1. NotesOf(k) = Keep(routed, Notes({k}))
    BY <1>1 DEF NothingLostSilently
  <2>2. Grows(Notes({k}), NotesOf(k), NotesOf(k)', Keep(routed, Notes({k})), Keep(routed', Notes({k})))
    BY NotesGrow
  <2> QED BY <2>1, <2>2 DEF Grows
<1>3. Asks' = Keep(routed', Requests)
  <2>1. Asks = Keep(routed, Requests)
    BY <1>1 DEF NothingLostSilently
  <2>2. Grows(Requests, Asks, Asks', Keep(routed, Requests), Keep(routed', Requests))
    BY AsksGrow
  <2> QED BY <2>1, <2>2 DEF Grows
<1> QED BY <1>2, <1>3

LEMMA FlowsInit ==
  ASSUME Init
  PROVE  OrderInv /\ NothingLostSilently
<1>1. /\ \A S : Keep(<<>>, S) = <<>> /\ Len(<<>>) = 0 /\ <<>> \o <<>> = <<>>
      /\ \A i : i \in 1 .. 0 => FALSE
  BY KeepEmpty
<1>2. /\ drained = <<>> /\ backlog = <<>> /\ routed = <<>>
      /\ queue["note"] = <<>> /\ queue["ask"] = <<>>
      /\ \A g \in Gens : stdout[g] = <<>>
  BY DEF Init, Queues
<1>3. Asks = <<>> /\ \A k \in Kinds : NotesOf(k) = <<>>
  BY <1>1, <1>2 DEF Asks, NotesOf
<1>4. InOrder(<<>>) /\ PipesOrdered
  BY <1>2 DEF InOrder, Increasing, Ahead, PipesOrdered
<1>5. NothingLostSilently
  BY <1>1, <1>2, <1>3 DEF NothingLostSilently
<1> QED BY <1>3, <1>4, <1>5 DEF OrderInv

LEMMA EventsStep ==
  ASSUME TypeInv, ClosingIsDeaf, EventsInv, [Next]_vars
  PROVE  EventsInv'
<1>1. CASE UNCHANGED vars
  BY <1>1 DEF vars, client, server, hist, caller, EventsInv, EventsTypeOK, QueuesTyped,
              UnstartedSilent, ReadsCurrent
<1>2. CASE Next
  BY <1>2, EventsTyped, SilenceKept, ReadsKept DEF EventsInv
<1> QED BY <1>1, <1>2

LEMMA ClosingIsDeafAlways == Spec => []ClosingIsDeaf
<1>1. Init => ClosingIsDeaf
  BY TransportAssumption DEF Init, ClosingIsDeaf
<1>2. TypeInv /\ ClosingIsDeaf /\ [Next]_vars => ClosingIsDeaf'
  <2>1. ASSUME ClosingIsDeaf, UNCHANGED vars PROVE ClosingIsDeaf'
    BY <2>1 DEF ClosingIsDeaf, vars, client, server, caller
  <2> QED BY <2>1, ClosingIsDeafStep
<1> QED BY <1>1, <1>2, TypeCorrect, PTL DEF Spec

(* client.py's queues, backlog and pipes stay well typed, whatever is lost,  *)
(* and only the running process is ever read.                                *)
THEOREM EventsCorrect == Spec => [](TypeOK /\ EventsInv)
<1>1. Init => EventsInv
  BY EventsInit
<1>2. TypeInv /\ ClosingIsDeaf /\ EventsInv /\ [Next]_vars => EventsInv'
  BY EventsStep
<1>3. TypeInv /\ EventsInv => TypeOK
  BY DEF TypeInv, EventsInv, TypeOK
<1> QED BY <1>1, <1>2, <1>3, TypeCorrect, ClosingIsDeafAlways, PTL DEF Spec

(* Whatever selective drains put aside, however many processes come and go   *)
(* and however often a capacity is passed, the events of a kind are handed   *)
(* out in the order they were written, none twice, and so are the requests   *)
(* of the server.                                                            *)
THEOREM EventsStayInOrder == Spec => []EventsInOrder
<1>1. Init => OrderInv
  BY FlowsInit
<1>2. TypeInv /\ EventsInv /\ EventsInv' /\ OrderInv /\ [Next]_vars => OrderInv'
  <2>1. ASSUME OrderInv, UNCHANGED vars PROVE OrderInv'
    BY <2>1 DEF OrderInv, InOrder, PipesOrdered, NotesOf, Asks, vars, client, server, hist
  <2> QED BY <2>1, OrderStep
<1>3. OrderInv => EventsInOrder
  BY DEF OrderInv, InOrder, EventsInOrder
<1> QED BY <1>1, <1>2, <1>3, TypeCorrect, EventsCorrect, PTL DEF Spec

(* An event taken from a pipe is handed out or still there, in its place,    *)
(* unless the failure of the transport is on record.                         *)
THEOREM LossIsRecorded == Spec => []NothingLostSilently
<1>1. Init => NothingLostSilently
  BY FlowsInit
<1>2. TypeInv /\ EventsInv /\ NothingLostSilently /\ [Next]_vars => NothingLostSilently'
  <2>1. ASSUME NothingLostSilently, UNCHANGED vars PROVE NothingLostSilently'
    BY <2>1 DEF NothingLostSilently, NotesOf, Asks, vars, client, hist
  <2> QED BY <2>1, LossStep
<1> QED BY <1>1, <1>2, TypeCorrect, EventsCorrect, PTL DEF Spec
==============================================================================
