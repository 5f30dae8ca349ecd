------------------------------ MODULE Transcript ------------------------------
(***************************************************************************)
(* runtime/cx2/transcript_store.py: the durable store of visible responses *)
(* (SQLite, shared by every CX2 process of a home) and the sink that       *)
(* streams one response into it through a writer thread and a queue of one *)
(* flush; with the calls that turn_runner.py and cx2_runtime.py make.      *)
(*                                                                         *)
(* A `with self._db` block is one transaction and one action, and needs    *)
(* the lock of the process's TranscriptStore, which is waited for without  *)
(* a timeout; a writer thread holds it from one action to the next. A      *)
(* process may be killed between any two actions; the database survives. A *)
(* wait of the sink has a timeout, which may come at any time.             *)
(*                                                                         *)
(* A text is a sequence of bytes. The k-th byte a turn streams is k, those *)
(* of an authoritative text that replaces the streamed one are 0. A turn   *)
(* has one response, named by the turn: App Server turn ids do not recur,  *)
(* so that the branch of start_response for a known turn is not taken.     *)
(***************************************************************************)
EXTENDS Lists, FiniteSets

CONSTANTS
  Procs,          \* CX2 processes with one home
  FlushBytes,     \* FLUSH_BYTES
  MaxResponse,    \* MAX_RESPONSE_BYTES
  MaxCompleted,   \* MAX_COMPLETED_RESPONSES
  MaxLogical,     \* MAX_LOGICAL_BYTES
  PendingFlushes, \* MAX_PENDING_FLUSHES
  Fresh,          \* whether the first process creates the database
  MaxTurns,       \* bound: turns
  MaxBytes,       \* bound: bytes a turn streams
  MaxCrashes,     \* bound: processes killed
  MaxClears       \* bound: `/transcript clear`

Turns == 1 .. MaxTurns

ASSUME TranscriptAssumption ==
  /\ FlushBytes \in Nat \ {0} /\ PendingFlushes \in Nat \ {0}
  /\ MaxResponse \in Nat /\ MaxCompleted \in Nat \ {0}
  /\ MaxLogical \in Nat /\ MaxResponse <= MaxLogical
  /\ Fresh \in BOOLEAN
  /\ MaxTurns \in Nat /\ MaxBytes \in Nat
  /\ MaxCrashes \in Nat /\ MaxClears \in Nat

VARIABLES
  \* the database
  schema,         \* whether schema_metadata has its version
  rows,           \* responses, of each turn
  chunks,         \* the text of its response_chunks, in chunk order
  recency,        \* the rows by updated_at, the latest last
  \* per process
  store,          \* whether its TranscriptStore is open
  foreign_keys,   \* the pragma of its connection
  pc, turn,       \* where its main thread is, and its turn
  item,           \* what it is about to put into the flush queue
  canonical,      \* the text the turn ends with
  \* per turn: its sink
  owner,          \* the process that streams the turn
  buffer, flush_queue,
  writing,        \* what the writer thread has taken
  writer_error, writer,
  lock,           \* TranscriptStore._lock of each process: the turn whose writer
                  \* holds it, or 0
  \* history, for the properties and the bounds
  started, streamed, crashes, clears,
  unpruned        \* a prune has failed or was cut off, and none done since

db   == <<schema, rows, chunks, recency>>
proc == <<store, foreign_keys, pc, turn, item, canonical>>
sink == <<owner, buffer, flush_queue, writing, writer_error, writer, lock>>
hist == <<started, streamed, crashes, clears, unpruned>>
vars == <<db, proc, sink, hist>>

NoRow == [state |-> "none", retained |-> 0, total |-> 0, dropped |-> 0]
NoItem == [kind |-> "none", text |-> <<>>]
Stop == [kind |-> "stop", text |-> <<>>]
Flush(text) == [kind |-> "flush", text |-> text]
Nobody == "nobody"

Init ==
  /\ schema = ~Fresh /\ rows = [t \in Turns |-> NoRow]
  /\ chunks = [t \in Turns |-> <<>>] /\ recency = <<>>
  /\ store = [p \in Procs |-> FALSE] /\ foreign_keys = [p \in Procs |-> FALSE]
  /\ pc = [p \in Procs |-> "idle"] /\ turn = [p \in Procs |-> 0]
  /\ item = [p \in Procs |-> NoItem] /\ canonical = [p \in Procs |-> <<>>]
  /\ owner = [t \in Turns |-> Nobody] /\ buffer = [t \in Turns |-> <<>>]
  /\ flush_queue = [t \in Turns |-> <<>>] /\ writing = [t \in Turns |-> NoItem]
  /\ writer_error = [t \in Turns |-> FALSE]
  /\ writer = [t \in Turns |-> "none"] /\ lock = [p \in Procs |-> 0]
  /\ started = 0 /\ streamed = [t \in Turns |-> 0] /\ crashes = 0 /\ clears = 0
  /\ unpruned = FALSE
------------------------------------------------------------------------------
(* Pieces of several actions *)

GoTo(p, to) == pc' = [pc EXCEPT ![p] = to]
LeaveTurn(p) == /\ GoTo(p, "idle") /\ turn' = [turn EXCEPT ![p] = 0]
                /\ canonical' = [canonical EXCEPT ![p] = <<>>]

\* No writer is inside of the store of p.
Free(p) == lock[p] = 0

\* _bounded_utf8_prefix.
Prefix(text, limit) == SubSeq(text, 1, IF Len(text) < limit THEN Len(text)
                                                            ELSE limit)

Rows == {t \in Turns : rows[t].state # "none"}
Stored == {t \in Turns : rows[t].state \notin {"none", "ACTIVE"}}

Without(s, S) == Keep(s, Turns \ S)

\* updated_at = now.
Touched(t) == Append(Without(recency, {t}), t)

\* Rows that share one updated_at, in the order of their random ids.
Orders(S) == {s \in [1 .. Cardinality(S) -> S] : \A t \in S : \E i \in DOMAIN s : s[i] = t}
------------------------------------------------------------------------------
(* TranscriptStore.__init__, prune, clear_scope, close *)

\* PRAGMA foreign_keys does nothing inside of a transaction, which the INSERT
\* of the schema version has begun on a fresh database.
PragmaWorks == schema

Recovered(row) == IF row.retained > 0 THEN "PARTIAL" ELSE "INTERRUPTED"

\* _initialize: every active row is taken for a stale one.
Open(p) ==
  /\ pc[p] = "idle" /\ ~store[p]
  /\ LET stale == {t \in Turns : rows[t].state = "ACTIVE"} IN
     /\ rows' = [t \in Turns |->
                   IF t \in stale
                     THEN [rows[t] EXCEPT !.state = Recovered(rows[t])]
                     ELSE rows[t]]
     /\ \E s \in Orders(stale) : recency' = Without(recency, stale) \o s
  /\ schema' = TRUE
  /\ foreign_keys' = [foreign_keys EXCEPT ![p] = PragmaWorks]
  /\ store' = [store EXCEPT ![p] = TRUE]
  /\ GoTo(p, "openprune")
  /\ UNCHANGED <<chunks, turn, item, canonical, sink, hist>>

\* The rank of a stored row from the latest, and the bytes down to it.
Later(t) == {u \in Stored : \E i, j \in 1 .. Len(recency) :
                              i <= j /\ recency[i] = t /\ recency[j] = u}
BytesOf(S) == Total([t \in Turns |-> rows[t].retained], S, MaxTurns)

\* Mutant: only the rows are limited.
Surplus_RowsOnly(t) == Cardinality(Later(t)) > MaxCompleted

Surplus(t) ==
  Cardinality(Later(t)) > MaxCompleted \/ BytesOf(Later(t)) > MaxLogical

\* prune: what is past its age, of which a clock decides, then what is past
\* the limits. Chunks are deleted first.
Prune(p) ==
  /\ pc[p] \in {"openprune", "prune"} /\ (pc[p] = "prune" => Free(p))
  /\ \E oldest \in {{}} \cup {Stored \ Later(t) : t \in Stored} :
       LET gone == oldest \cup {t \in Stored : Surplus(t)} IN
       /\ rows' = [t \in Turns |-> IF t \in gone THEN NoRow ELSE rows[t]]
       /\ chunks' = [t \in Turns |-> IF t \in gone THEN <<>> ELSE chunks[t]]
       /\ recency' = Without(recency, gone)
  /\ LeaveTurn(p) /\ unpruned' = FALSE
  /\ UNCHANGED <<schema, store, foreign_keys, item, sink, started, streamed,
                 crashes, clears>>

\* clear_scope deletes rows; their chunks go by ON DELETE CASCADE, if the
\* connection enforces it.
ClearScope(p) ==
  /\ pc[p] = "idle" /\ store[p] /\ Free(p) /\ Rows # {} /\ clears < MaxClears
  /\ clears' = clears + 1
  /\ rows' = [t \in Turns |-> NoRow] /\ recency' = <<>>
  /\ chunks' = [t \in Turns |-> IF foreign_keys[p] /\ t \in Rows
                                  THEN <<>> ELSE chunks[t]]
  /\ UNCHANGED <<schema, proc, sink, started, streamed, crashes, unpruned>>

CloseStore(p) ==
  /\ pc[p] = "idle" /\ store[p] /\ Free(p)
  /\ store' = [store EXCEPT ![p] = FALSE]
  /\ foreign_keys' = [foreign_keys EXCEPT ![p] = FALSE]
  /\ UNCHANGED <<db, pc, turn, item, canonical, sink, hist>>
------------------------------------------------------------------------------
(* The sink: start_response, append *)

StartResponse(p) ==
  /\ pc[p] = "idle" /\ store[p] /\ Free(p) /\ started < MaxTurns
  /\ LET t == started + 1 IN
     /\ started' = t
     /\ rows' = [rows EXCEPT ![t] = [NoRow EXCEPT !.state = "ACTIVE"]]
     /\ recency' = Touched(t)
     /\ turn' = [turn EXCEPT ![p] = t] /\ owner' = [owner EXCEPT ![t] = p]
     /\ writer' = [writer EXCEPT ![t] = "runs"]
  /\ GoTo(p, "stream")
  /\ UNCHANGED <<schema, chunks, store, foreign_keys, item, canonical, buffer,
                 flush_queue, writing, writer_error, lock, streamed, crashes,
                 clears, unpruned>>

\* append, of one byte; a full buffer is flushed. A failed writer disables the
\* sink, which is aborted.
AppendDelta(p) ==
  /\ pc[p] = "stream" /\ streamed[turn[p]] < MaxBytes
  /\ LET t == turn[p]
         text == Append(buffer[t], streamed[t] + 1)
     IN
     /\ streamed' = [streamed EXCEPT ![t] = @ + 1]
     /\ \/ /\ Len(text) < FlushBytes
           /\ buffer' = [buffer EXCEPT ![t] = text]
           /\ UNCHANGED <<pc, item>>
        \/ /\ Len(text) >= FlushBytes
           /\ buffer' = [buffer EXCEPT ![t] = <<>>]
           /\ GoTo(p, IF writer_error[t] THEN "abort" ELSE "put")
           /\ item' = [item EXCEPT ![p] = Flush(text)]
  /\ UNCHANGED <<db, store, foreign_keys, turn, canonical, owner, flush_queue,
                 writing, writer_error, writer, lock, started, crashes, clears,
                 unpruned>>

Room(t) == Len(flush_queue[t]) < PendingFlushes

\* Where each put goes on: back to streaming, or to the wait of finalize.
AfterPut == [put |-> "stream", flushput |-> "flushwait", stopput |-> "stopwait"]

Put(p) ==
  /\ pc[p] \in DOMAIN AfterPut /\ Room(turn[p])
  /\ flush_queue' = [flush_queue EXCEPT ![turn[p]] = Append(@, item[p])]
  /\ item' = [item EXCEPT ![p] = NoItem]
  /\ GoTo(p, AfterPut[pc[p]])
  /\ UNCHANGED <<db, store, foreign_keys, turn, canonical, owner, buffer,
                 writing, writer_error, writer, lock, hist>>

\* Mutant: a wait without a timeout.
WaitTimesOut_PutsOnly(p) ==
  /\ pc[p] \in DOMAIN AfterPut /\ ~Room(turn[p])
  /\ GoTo(p, "abort")
  /\ UNCHANGED <<db, store, foreign_keys, turn, item, canonical, sink, hist>>

\* Each wait of the main thread is given up after five seconds.
WaitTimesOut(p) ==
  /\ \/ pc[p] \in DOMAIN AfterPut /\ ~Room(turn[p])
     \/ pc[p] \in {"flushwait", "stopwait"}
  /\ GoTo(p, "abort")
  /\ UNCHANGED <<db, store, foreign_keys, turn, item, canonical, sink, hist>>
------------------------------------------------------------------------------
(* The writer thread of turn t *)

WriterTakes(t) ==
  /\ writer[t] = "runs" /\ writing[t] = NoItem /\ flush_queue[t] # <<>>
  /\ LET next == Head(flush_queue[t]) IN
     \/ /\ next.kind = "stop"
        /\ writer' = [writer EXCEPT ![t] = "stopped"] /\ UNCHANGED writing
     \/ /\ next.kind # "stop"
        /\ writing' = [writing EXCEPT ![t] = next] /\ UNCHANGED writer
  /\ flush_queue' = [flush_queue EXCEPT ![t] = Tail(@)]
  /\ UNCHANGED <<db, proc, owner, buffer, writer_error, lock, hist>>

\* Mutant: chunks are added to a row whatever its state.
Appendable_Any(t) == rows[t].state # "none"

Appendable(t) == rows[t].state = "ACTIVE"

\* Mutant: the writer goes on after an error.
Disabled_Never(t) == FALSE

\* After an error the writer only acknowledges.
Disabled(t) == writer_error[t]

\* `with self._lock` of _append_chunk, which a text without bytes and a failed
\* writer do not come to.
WriterEnters(t) ==
  /\ writer[t] = "runs" /\ writing[t] # NoItem
  /\ ~Disabled(t) /\ writing[t].text # <<>>
  /\ Free(owner[t]) /\ lock' = [lock EXCEPT ![owner[t]] = t]
  /\ UNCHANGED <<db, proc, owner, buffer, flush_queue, writing, writer_error,
                 writer, hist>>

Inside(t) == writer[t] = "runs" /\ lock[owner[t]] = t

\* _append_chunk, within the limit of a response; it raises for a row that is
\* no longer active, for a closed store, or for a locked database.
WriterAppends(t) ==
  /\ writer[t] = "runs" /\ writing[t] # NoItem
  /\ LET text == writing[t].text
         row == rows[t]
         accepted == Prefix(text, MaxResponse - row.retained)
         retained == row.retained + Len(accepted)
         total == row.total + Len(text)
     IN
     \/ /\ Disabled(t) \/ text = <<>>
        /\ UNCHANGED <<rows, chunks, recency, writer_error, lock>>
     \/ /\ ~Disabled(t) /\ text # <<>>
        /\ Inside(t) /\ lock' = [lock EXCEPT ![owner[t]] = 0]
        /\ \/ /\ store[owner[t]] /\ Appendable(t)
              /\ rows' = [rows EXCEPT ![t].retained = retained, ![t].total = total,
                                      ![t].dropped = total - retained]
              /\ chunks' = [chunks EXCEPT ![t] = @ \o accepted]
              /\ recency' = Touched(t) /\ UNCHANGED writer_error
           \/ /\ writer_error' = [writer_error EXCEPT ![t] = TRUE]
              /\ UNCHANGED <<rows, chunks, recency>>
  /\ writing' = [writing EXCEPT ![t] = NoItem]
  /\ UNCHANGED <<schema, proc, owner, buffer, flush_queue, writer, hist>>
------------------------------------------------------------------------------
(* The sink: finalize, abort *)

\* The texts a turn may end with: what it streamed, or an authoritative text.
Finals(t) == {[k \in 1 .. streamed[t] |-> k], [k \in 1 .. MaxBytes |-> 0]}

\* finalize: the buffer is flushed, or a marker, and its write awaited.
FinalizeBegins(p) ==
  /\ pc[p] = "stream"
  /\ LET t == turn[p] IN
     /\ \E text \in Finals(t) : canonical' = [canonical EXCEPT ![p] = text]
     /\ item' = [item EXCEPT ![p] = Flush(buffer[t])]
     /\ buffer' = [buffer EXCEPT ![t] = <<>>]
     /\ GoTo(p, IF buffer[t] # <<>> /\ writer_error[t] THEN "abort" ELSE "flushput")
  /\ UNCHANGED <<db, store, foreign_keys, turn, owner, flush_queue, writing,
                 writer_error, writer, lock, hist>>

\* The writer has acknowledged all it was given.
Acknowledged(t) == flush_queue[t] = <<>> /\ writing[t] = NoItem

FlushAcknowledged(p) ==
  /\ pc[p] = "flushwait" /\ Acknowledged(turn[p])
  /\ \/ writer_error[turn[p]] /\ GoTo(p, "abort") /\ UNCHANGED item
     \/ /\ ~writer_error[turn[p]]
        /\ item' = [item EXCEPT ![p] = Stop] /\ GoTo(p, "stopput")
  /\ UNCHANGED <<db, store, foreign_keys, turn, canonical, sink, hist>>

WriterStopped(p) ==
  /\ pc[p] = "stopwait" /\ writer[turn[p]] = "stopped"
  /\ GoTo(p, "replace")
  /\ UNCHANGED <<db, store, foreign_keys, turn, item, canonical, sink, hist>>

\* Mutant: a text past the limit is stored as completed.
FinalState_Plain(outcome, text) == outcome

FinalState(outcome, text) ==
  IF outcome = "COMPLETED" /\ Len(text) > MaxResponse THEN "TRUNCATED" ELSE outcome

\* _finalize replaces the chunks and completes the row, whatever its state; it
\* raises if the row is gone or the database is locked.
Replace(p) ==
  /\ pc[p] = "replace" /\ Free(p)
  /\ LET t == turn[p]
         text == canonical[p]
         kept == Prefix(text, MaxResponse)
     IN
     \/ /\ rows[t].state # "none"
        /\ \E outcome \in {"COMPLETED", "FAILED"} :
             rows' = [rows EXCEPT ![t] =
                        [state |-> FinalState(outcome, text),
                         retained |-> Len(kept), total |-> Len(text),
                         dropped |-> Len(text) - Len(kept)]]
        /\ chunks' = [chunks EXCEPT ![t] = kept]
        /\ recency' = Touched(t)
        /\ GoTo(p, "prune")
     \/ GoTo(p, "abort") /\ UNCHANGED <<rows, chunks, recency>>
  /\ UNCHANGED <<schema, store, foreign_keys, turn, item, canonical, sink, hist>>

\* A prune that fails ends finalize like any other error of the sink.
PruneFails(p) ==
  /\ pc[p] = "prune" /\ Free(p) /\ GoTo(p, "abort") /\ unpruned' = TRUE
  /\ UNCHANGED <<db, store, foreign_keys, turn, item, canonical, sink, started,
                 streamed, crashes, clears>>

\* _disable_transcript_sink and abort: the writer is told to stop, if the
\* queue lets in the message within five seconds; the turn goes on without it.
Abort(p) ==
  /\ pc[p] = "abort"
  /\ LET t == turn[p] IN
     /\ buffer' = [buffer EXCEPT ![t] = <<>>]
     /\ \/ /\ writer[t] = "runs" /\ Room(t)
           /\ flush_queue' = [flush_queue EXCEPT ![t] = Append(@, Stop)]
        \/ /\ writer[t] # "runs" \/ ~Room(t)
           /\ UNCHANGED flush_queue
  /\ item' = [item EXCEPT ![p] = NoItem]
  /\ LeaveTurn(p)
  /\ UNCHANGED <<db, store, foreign_keys, owner, writing, writer_error, writer,
                 lock, hist>>
------------------------------------------------------------------------------
(* The process is killed, with its threads. *)
Crash(p) ==
  /\ crashes < MaxCrashes /\ store[p]
  /\ crashes' = crashes + 1
  /\ unpruned' = (unpruned \/ pc[p] \in {"prune", "openprune"})
  /\ store' = [store EXCEPT ![p] = FALSE]
  /\ foreign_keys' = [foreign_keys EXCEPT ![p] = FALSE]
  /\ item' = [item EXCEPT ![p] = NoItem] /\ LeaveTurn(p)
  /\ LET mine == {t \in Turns : owner[t] = p} IN
     /\ buffer' = [t \in Turns |-> IF t \in mine THEN <<>> ELSE buffer[t]]
     /\ flush_queue' = [t \in Turns |-> IF t \in mine THEN <<>>
                                                      ELSE flush_queue[t]]
     /\ writing' = [t \in Turns |-> IF t \in mine THEN NoItem ELSE writing[t]]
     /\ writer' = [t \in Turns |-> IF t \in mine THEN "stopped" ELSE writer[t]]
  /\ lock' = [lock EXCEPT ![p] = 0]
  /\ UNCHANGED <<db, owner, writer_error, started, streamed, clears>>

Writer(t) == WriterTakes(t) \/ WriterEnters(t) \/ WriterAppends(t)

\* What the main thread does in a sink, without being asked again.
Sinking(p) == \/ Put(p) \/ WaitTimesOut(p) \/ FlushAcknowledged(p)
              \/ WriterStopped(p) \/ Replace(p) \/ Prune(p) \/ PruneFails(p)
              \/ Abort(p)

Next ==
  \/ \E p \in Procs : \/ Open(p) \/ ClearScope(p) \/ CloseStore(p)
                      \/ StartResponse(p) \/ AppendDelta(p)
                      \/ FinalizeBegins(p) \/ Sinking(p) \/ Crash(p)
  \/ \E t \in Turns : Writer(t)

Spec == Init /\ [][Next]_vars

\* The main threads run and their timers fire. A writer may hang for good, but
\* not with the lock: there it only calls SQLite, which gives a busy database up
\* after five seconds (`timeout=5.0`).
FairSpec ==
  /\ Spec
  /\ \A p \in Procs : WF_vars(Sinking(p))
  /\ \A t \in Turns : WF_vars(Inside(t) /\ WriterAppends(t))
------------------------------------------------------------------------------
(* Properties *)

TypeOK ==
  /\ schema \in BOOLEAN
  /\ rows \in [Turns -> [state : {"none", "ACTIVE", "PARTIAL", "INTERRUPTED",
                                   "COMPLETED", "TRUNCATED", "FAILED"},
                         retained : 0 .. MaxResponse, total : 0 .. MaxBytes,
                         dropped : 0 .. MaxBytes]]
  /\ {recency[i] : i \in DOMAIN recency} = Rows /\ Len(recency) = Cardinality(Rows)
  /\ store \in [Procs -> BOOLEAN] /\ foreign_keys \in [Procs -> BOOLEAN]
  /\ turn \in [Procs -> 0 .. MaxTurns] /\ lock \in [Procs -> 0 .. MaxTurns]
  /\ \A t \in Turns : /\ Len(buffer[t]) < FlushBytes
                      /\ Len(flush_queue[t]) <= PendingFlushes
  /\ \A p \in Procs : pc[p] # "idle" => store[p]

\* docs/security-model.md:21 "`/transcript clear` [...] deletes visible
\* transcript rows for the current workspace": no text stays behind.
NoOrphans == \A t \in Turns : chunks[t] # <<>> => t \in Rows

\* What `/last` reports of a response is true of the text it shows: the bytes
\* retained, dropped and in total, and that a completed one is complete, at
\* every commit, however the writer, finalize, another process or a crash cut
\* in; and the text of a response that has been cleared or pruned is gone.
RowsAddUp ==
  /\ NoOrphans
  /\ \A t \in Rows :
       /\ rows[t].retained = Len(chunks[t])
       /\ rows[t].total = rows[t].retained + rows[t].dropped
       /\ rows[t].state = "COMPLETED" => rows[t].dropped = 0

\* docs/terminal-ux.md:76: what is stored of a response that never got its
\* final text is a prefix of what was shown, with no chunk missing inside, out
\* of order or written twice.
StoredIsPrefix ==
  \A t \in Rows :
    \/ chunks[t] = [k \in 1 .. Len(chunks[t]) |-> 0]
    \/ /\ chunks[t] = [k \in 1 .. Len(chunks[t]) |-> k]
       /\ Len(chunks[t]) <= streamed[t] /\ rows[t].total <= streamed[t]

\* A response once taken for stale or completed is not written to by the writer
\* of its sink, which may still be running: only finalize rewrites it. One whose
\* sink was aborted is not stored in this sense: it stays active, and its writer
\* may go on (StoredIsPrefix), until a store that is opened takes it for stale.
StoredStaysPut ==
  [][\A t \in Turns :
       t \in Stored /\ t \in Stored' /\ rows'[t] # rows[t]
         => \E p \in Procs : pc[p] = "replace" /\ turn[p] = t]_vars

\* docs/terminal-ux.md:77 "200 completed responses and 64 MiB of logical
\* retained payload": the limits hold whenever no process is about to prune,
\* unless a prune has failed or was cut off and none was done since.
RetentionBounded ==
  ~unpruned /\ (\A p \in Procs : pc[p] \notin {"openprune", "prune"})
    => Cardinality(Stored) <= MaxCompleted /\ BytesOf(Stored) <= MaxLogical

\* docs/terminal-ux.md:75 "The runtime stores UTF-8 chunks as they arrive": a
\* response that is being streamed is active. Not so of the code when another
\* process opens the store.
LiveIsActive ==
  \A p \in Procs : pc[p] = "stream" /\ ~writer_error[turn[p]] /\ clears = 0
                     => rows[turn[p]].state = "ACTIVE"

\* docs/terminal-ux.md:80 "A failed transcript database produces a bounded
\* warning and does not fail the turn": the end of a turn is not held up for
\* good by a writer that hangs - as long as it does not hang with the lock of
\* the store, for which finalize waits without a timeout.
SinkLetsGo ==
  \A p \in Procs : pc[p] \notin {"idle", "stream"} ~> pc[p] \in {"idle", "stream"}
==============================================================================
