------------------------------- MODULE Session --------------------------------
(***************************************************************************)
(* How a prompt finds its Codex thread and what it leaves behind: the row  *)
(* of the table `sessions` that one Git repository has and every CX2       *)
(* process in it shares (src/cx.py, session_adapter.py), the thread that a *)
(* process outside Git keeps in memory, the prompt that uses them          *)
(* (cx2_runtime.py execute_prompt), and the commands that move them        *)
(* (/new, /resume, /archive, /delete of cx2_cli.py and history_cli.py).    *)
(*                                                                         *)
(* Every statement that commits is one action: nothing in the code holds a *)
(* transaction over a read and the write that depends on it. Reading the   *)
(* row and asking Git for the branch is one action, and so is the read     *)
(* inside save_repo_session with its upsert. A turn (run_turn, modules     *)
(* TurnLoop and FinalAnswer) is one action with its outcome.               *)
(*                                                                         *)
(* A process stays where it was started: in the repository or in one       *)
(* directory without Git.                                                  *)
(***************************************************************************)
EXTENDS CodexThreads, Naturals, FiniteSets

CONSTANTS
  Procs,          \* CX2 processes
  Outside,        \* threads of some other repository
  Branches,       \* branches of the repository
  NoRow,
  MaxAttempts,    \* escalation.max_attempts
  MaxPrompts,     \* bound: prompts
  MaxEvents       \* bound: deaths of servers, expiries, checkouts, ends

Places   == {"repo", "dir"}
Statuses == {"completed", "failed", "interrupted"}
Fresh    == "a new thread"
Free     == "any thread"
Rows     == [thread : Threads, branch : Branches, recent : BOOLEAN, turns : Nat]

ASSUME SessionAssumption ==
  /\ Outside \subseteq Threads /\ NoThread \notin Threads
  /\ {Fresh, Free} \cap Threads = {}
  /\ Branches # {}
  /\ NoRow \notin Rows
  /\ MaxAttempts \in Nat \ {0} /\ MaxPrompts \in Nat /\ MaxEvents \in Nat

VARIABLES
  row,            \* the repository's row of `sessions`; recent: within the TTL
  branch,         \* what is checked out
  home,           \* of each thread: where it was started, "none" if not yet
  deleted,        \* threads the App Server has deleted
  \* per process
  pc, cwd,
  server,         \* its App Server: "down", "up" (initialized), "dead"
  memory,         \* active_non_git_thread_id
  thread, began,  \* the prompt's thread, and whether the prompt started it
  left, used,     \* attempts left of the plan; attempts_used
  base,           \* base_turns of save_session
  stopped,        \* whether a turn of the prompt ended "interrupted"
  \* history, for the properties and the bounds
  choice,         \* what its next prompt is to use, if nobody interferes
  ran,            \* turns that returned, of each thread
  lost,           \* threads with turns that no save counts
  overlap,        \* whether two processes ever worked on the row at once
  prompts, events

locals  == <<thread, began, left, used, base, stopped>>
history == <<choice, ran, lost, overlap, prompts, events>>
vars    == <<row, branch, home, deleted, pc, cwd, server, memory, locals,
             history>>

Idle     == {"gone", "idle"}
Turning  == {"turn", "verify"}
Saving   == {"save", "upsert", "count"}
Points   == Idle \cup Turning \cup Saving
              \cup {"evaluate", "resume", "start", "unbind"}

TypeOK ==
  /\ row \in Rows \cup {NoRow} /\ branch \in Branches
  /\ home \in [Threads -> Places \cup {"other", "none"}]
  /\ deleted \subseteq Threads
  /\ pc \in [Procs -> Points] /\ cwd \in [Procs -> Places]
  /\ server \in [Procs -> {"down", "up", "dead"}]
  /\ memory \in [Procs -> Threads \cup {NoThread}]
  /\ thread \in [Procs -> Threads \cup {NoThread}]
  /\ began \in [Procs -> BOOLEAN] /\ stopped \in [Procs -> BOOLEAN]
  /\ left \in [Procs -> 0 .. MaxAttempts]
  /\ used \in [Procs -> 0 .. MaxAttempts + 1] /\ base \in [Procs -> Nat]
  /\ choice \in [Procs -> Threads \cup {Fresh, Free}]
  /\ ran \in [Threads -> Nat] /\ lost \subseteq Threads
  /\ overlap \in BOOLEAN
  /\ prompts \in 0 .. MaxPrompts /\ events \in 0 .. MaxEvents

Init ==
  /\ row = NoRow /\ branch \in Branches
  /\ home = [t \in Threads |-> IF t \in Outside THEN "other" ELSE "none"]
  /\ deleted = {}
  /\ pc = [p \in Procs |-> "gone"] /\ cwd = [p \in Procs |-> "repo"]
  /\ server = [p \in Procs |-> "down"]
  /\ memory = [p \in Procs |-> NoThread]
  /\ thread = [p \in Procs |-> NoThread]
  /\ began = [p \in Procs |-> FALSE] /\ stopped = [p \in Procs |-> FALSE]
  /\ left = [p \in Procs |-> 0] /\ used = [p \in Procs |-> 0]
  /\ base = [p \in Procs |-> 0]
  /\ choice = [p \in Procs |-> Free]
  /\ ran = [t \in Threads |-> 0] /\ lost = {} /\ overlap = FALSE
  /\ prompts = 0 /\ events = 0

-----------------------------------------------------------------------------
(* Helpers.                                                                *)

Git(p)   == cwd[p] = "repo"
Busy(p)  == Git(p) /\ pc[p] \notin Idle
At(p, s) == pc[p] = s
Goto(p, s) == pc' = [pc EXCEPT ![p] = s]

Names(t) == row # NoRow /\ row.thread = t

\* session_reusable, under the default policy: no resume across branches.
Reusable == row # NoRow /\ row.recent /\ row.branch = branch

\* What save_repo_session and bind_repo_session put into the row.
RowOf(t, n) == [thread |-> t, branch |-> branch, recent |-> TRUE, turns |-> n]

\* A process wrote the row: the others' next prompts follow it.
Chosen(p, c) ==
  choice' = [q \in Procs |-> IF q = p THEN c
                             ELSE IF cwd[q] = "repo" THEN Free ELSE choice[q]]

\* Without Git the next prompt has no thread once the memory is cleared.
ForgetChoice(p) ==
  choice' = IF Git(p) THEN choice ELSE [choice EXCEPT ![p] = Fresh]

Overlaps(p) ==
  overlap' = (overlap \/ (Git(p) /\ \E q \in Procs \ {p} : Busy(q)))

\* The prompt is over and its locals are gone; a prompt that is not saved
\* loses the turns it ran.
DropLocals(p) ==
  /\ thread' = [thread EXCEPT ![p] = NoThread]
  /\ began' = [began EXCEPT ![p] = FALSE]
  /\ left' = [left EXCEPT ![p] = 0] /\ used' = [used EXCEPT ![p] = 0]
  /\ base' = [base EXCEPT ![p] = 0]
  /\ stopped' = [stopped EXCEPT ![p] = FALSE]

Unsaved(p) == lost' = IF used[p] > 0 THEN lost \cup {thread[p]} ELSE lost

\* CX2Runtime.start: the client of a dead App Server is closed first, which
\* also resets the memory of the session.
Restart(p) ==
  /\ server' = [server EXCEPT ![p] = "up"]
  /\ IF server[p] = "dead"
     THEN memory' = [memory EXCEPT ![p] = NoThread] /\ ForgetChoice(p)
     ELSE UNCHANGED <<memory, choice>>

Happens == events < MaxEvents /\ events' = events + 1

-----------------------------------------------------------------------------
(* The world around a process.                                             *)

\* main: a process in the repository or elsewhere, with a new CX2Runtime.
Launch(p, w) ==
  /\ At(p, "gone") /\ Goto(p, "idle")
  /\ cwd' = [cwd EXCEPT ![p] = w]
  /\ choice' = [choice EXCEPT ![p] = IF w = "repo" THEN Free ELSE Fresh]
  /\ UNCHANGED <<row, branch, home, deleted, server, memory, locals, ran, lost,
                 overlap, prompts, events>>

\* /exit, the end of a one-shot run, or a kill at any point.
Ends(p) ==
  /\ ~ At(p, "gone") /\ Goto(p, "gone")
  /\ Happens
  /\ server' = [server EXCEPT ![p] = "down"]
  /\ memory' = [memory EXCEPT ![p] = NoThread]
  /\ cwd' = [cwd EXCEPT ![p] = "repo"]
  /\ choice' = [choice EXCEPT ![p] = Free]
  /\ DropLocals(p) /\ Unsaved(p)
  /\ UNCHANGED <<row, branch, home, deleted, ran, overlap, prompts>>

ServerDies(p) ==
  /\ server[p] = "up" /\ Happens
  /\ server' = [server EXCEPT ![p] = "dead"]
  /\ UNCHANGED <<row, branch, home, deleted, pc, cwd, memory, locals, choice,
                 ran, lost, overlap, prompts>>

\* resume_ttl_minutes pass.
Expires ==
  /\ row # NoRow /\ row.recent /\ Happens
  /\ row' = [row EXCEPT !.recent = FALSE]
  /\ choice' = [q \in Procs |-> IF cwd[q] = "repo" THEN Free ELSE choice[q]]
  /\ UNCHANGED <<branch, home, deleted, pc, cwd, server, memory, locals, ran,
                 lost, overlap, prompts>>

\* The user checks out another branch.
Checkout(b) ==
  /\ b # branch /\ Happens
  /\ branch' = b
  /\ choice' = [q \in Procs |-> IF cwd[q] = "repo" THEN Free ELSE choice[q]]
  /\ UNCHANGED <<row, home, deleted, pc, cwd, server, memory, locals, ran,
                 lost, overlap, prompts>>

-----------------------------------------------------------------------------
(* A prompt: acquire the thread.                                           *)

\* The compatibility check, `initialize`, the quota or the plan fails: the
\* command line closes the runtime, or only resets its memory if that was a
\* timeout of the quota.
StartFails(p) ==
  /\ At(p, "idle") /\ prompts < MaxPrompts
  /\ prompts' = prompts + 1
  /\ \E s \in {"down", "up"} : server' = [server EXCEPT ![p] = s]
  /\ memory' = [memory EXCEPT ![p] = NoThread] /\ ForgetChoice(p)
  /\ UNCHANGED <<row, branch, home, deleted, pc, cwd, locals, ran, lost,
                 overlap, events>>

\* The plan is blocked, or the user interrupts: no thread and no turn.
Blocked(p) ==
  /\ At(p, "idle") /\ prompts < MaxPrompts
  /\ prompts' = prompts + 1
  /\ Restart(p)
  /\ UNCHANGED <<row, branch, home, deleted, pc, cwd, locals, ran, lost,
                 overlap, events>>

\* A plan of n attempts. In Git the row decides, elsewhere the memory.
Prompt(p, n) ==
  /\ At(p, "idle") /\ prompts < MaxPrompts
  /\ prompts' = prompts + 1
  /\ Restart(p)
  /\ left' = [left EXCEPT ![p] = n]
  /\ IF Git(p) THEN Goto(p, "evaluate") /\ UNCHANGED thread
     ELSE IF memory'[p] # NoThread
          THEN Goto(p, "resume") /\ thread' = [thread EXCEPT ![p] = memory'[p]]
          ELSE Goto(p, "start") /\ UNCHANGED thread
  /\ Overlaps(p)
  /\ UNCHANGED <<row, branch, home, deleted, cwd, began, used, base, stopped,
                 ran, lost, events>>

\* evaluate_session.
Evaluate(p) ==
  /\ At(p, "evaluate")
  /\ IF Reusable
     THEN Goto(p, "resume") /\ thread' = [thread EXCEPT ![p] = row.thread]
     ELSE Goto(p, "start") /\ UNCHANGED thread
  /\ UNCHANGED <<row, branch, home, deleted, cwd, server, memory, began, left,
                 used, base, stopped, history>>

\* thread/resume answers with the thread it was asked for.
Resumes(p) ==
  /\ At(p, "resume") /\ server[p] = "up" /\ thread[p] \notin deleted
  /\ Goto(p, "turn")
  /\ UNCHANGED <<row, branch, home, deleted, cwd, server, memory, locals,
                 history>>

\* Any exception of thread/resume: in Git the row is cleared, whatever it
\* names by now, and the prompt goes on with a new thread.
ResumeFails(p) ==
  /\ At(p, "resume") /\ Goto(p, "start")
  /\ row' = IF Git(p) THEN NoRow ELSE row
  /\ IF Git(p) THEN Chosen(p, Free) ELSE choice' = [choice EXCEPT ![p] = Free]
  /\ UNCHANGED <<branch, home, deleted, cwd, server, memory, locals, ran, lost,
                 overlap, prompts, events>>

\* thread/start: the new thread is not saved yet.
Starts(p, t) ==
  /\ At(p, "start") /\ server[p] = "up" /\ home[t] = "none"
  /\ home' = [home EXCEPT ![t] = cwd[p]]
  /\ thread' = [thread EXCEPT ![p] = t] /\ began' = [began EXCEPT ![p] = TRUE]
  /\ Goto(p, "turn")
  /\ UNCHANGED <<row, branch, deleted, cwd, server, memory, left, used, base,
                 stopped, history>>

-----------------------------------------------------------------------------
(* A prompt: run its turns.                                                *)

Returned(p, status) ==
  /\ server[p] = "up"
  /\ used' = [used EXCEPT ![p] = @ + 1]
  /\ ran' = [ran EXCEPT ![thread[p]] = @ + 1]
  /\ stopped' = [stopped EXCEPT ![p] = @ \/ status = "interrupted"]

\* escalation_reason: a failed turn, one without a final response whatever
\* its status, or an answer that says it is unresolved. Each status may have
\* a reason and may have none.
Escalates(p, status) ==
  /\ At(p, "turn") /\ left[p] > 1
  /\ Returned(p, status)
  /\ left' = [left EXCEPT ![p] = @ - 1]
  /\ UNCHANGED <<row, branch, home, deleted, pc, cwd, server, memory, thread,
                 began, base, choice, lost, overlap, prompts, events>>

\* The last attempt, or one with no reason to escalate. A completed turn may
\* need one more, to verify what it changed.
Settles(p, status) ==
  /\ At(p, "turn")
  /\ Returned(p, status)
  /\ \/ Goto(p, "save")
     \/ status = "completed" /\ Goto(p, "verify")
  /\ left' = [left EXCEPT ![p] = 0]
  /\ UNCHANGED <<row, branch, home, deleted, cwd, server, memory, thread,
                 began, base, choice, lost, overlap, prompts, events>>

\* The continuation that verifies: there is never a second one.
Verified(p, status) ==
  /\ At(p, "verify") /\ Goto(p, "save")
  /\ Returned(p, status)
  /\ UNCHANGED <<row, branch, home, deleted, cwd, server, memory, thread,
                 began, left, base, choice, lost, overlap, prompts, events>>

\* What execute_prompt may raise, by its point: KeyboardInterrupt, the
\* TimeoutError of a request or a turn, or any other exception (SQLite's in
\* evaluate_session and record_escalation, the assessment's before the save).
\* thread/resume swallows all but the first.
Raisable(s) ==
  CASE s \in {"evaluate", "save"} -> {"interrupt", "error"}
    [] s = "resume"   -> {"interrupt"}
    [] s \in Turning \cup {"start"} -> {"interrupt", "timeout", "error"}
    [] OTHER -> {}

\* execute_interactive_prompt: an interrupt changes nothing, a timeout resets
\* the memory, and anything else closes the runtime. Nothing is saved.
Raises(p, how) ==
  /\ how \in Raisable(pc[p])
  /\ Goto(p, "idle")
  /\ DropLocals(p) /\ Unsaved(p)
  /\ server' = IF how = "error" THEN [server EXCEPT ![p] = "down"] ELSE server
  /\ IF how = "interrupt"
     THEN UNCHANGED <<memory, choice>>
     ELSE memory' = [memory EXCEPT ![p] = NoThread] /\ ForgetChoice(p)
  /\ UNCHANGED <<row, branch, home, deleted, cwd, ran, overlap, prompts,
                 events>>

-----------------------------------------------------------------------------
(* A prompt: save what it did.                                             *)

\* Without Git save_session writes nothing; the runtime remembers.
Remember(p) ==
  /\ At(p, "save") /\ ~ Git(p) /\ Goto(p, "idle")
  /\ memory' = [memory EXCEPT ![p] = thread[p]]
  /\ choice' = [choice EXCEPT ![p] = thread[p]]
  /\ DropLocals(p)
  /\ UNCHANGED <<row, branch, home, deleted, cwd, server, ran, lost, overlap,
                 prompts, events>>

\* Mutant: the count of an earlier thread goes on.
BaseTurns_OfAnyThread(p) == IF row # NoRow THEN row.turns ELSE 0

\* save_session: the turns the row has for this thread. The row of another
\* thread is cleared.
BaseTurns(p) == IF Names(thread[p]) THEN row.turns ELSE 0

SaveReads(p) ==
  /\ At(p, "save") /\ Git(p) /\ Goto(p, "upsert")
  /\ base' = [base EXCEPT ![p] = BaseTurns(p)]
  /\ IF row # NoRow /\ ~ Names(thread[p])
     THEN row' = NoRow /\ Chosen(p, choice[p])
     ELSE UNCHANGED <<row, choice>>
  /\ UNCHANGED <<branch, home, deleted, cwd, server, memory, thread, began,
                 left, used, stopped, ran, lost, overlap, prompts, events>>

\* save_repo_session: one turn more than the row has, for any thread.
Upserts(p) ==
  /\ At(p, "upsert") /\ Goto(p, "count")
  /\ row' = RowOf(thread[p], IF row = NoRow THEN 1 ELSE row.turns + 1)
  /\ Chosen(p, thread[p])
  /\ UNCHANGED <<branch, home, deleted, cwd, server, memory, locals, ran, lost,
                 overlap, prompts, events>>

\* The UPDATE that sets the count: it names the repository, not the thread.
Counts(p) ==
  /\ At(p, "count") /\ Goto(p, "idle")
  /\ row' = IF row = NoRow THEN NoRow
            ELSE [row EXCEPT !.turns = base[p] + used[p]]
  /\ DropLocals(p)
  /\ UNCHANGED <<branch, home, deleted, cwd, server, memory, history>>

\* SQLite refuses a statement, which only warns, or the user interrupts.
SaveFails(p) ==
  /\ pc[p] \in Saving /\ Git(p) /\ Goto(p, "idle")
  /\ DropLocals(p) /\ Unsaved(p)
  /\ UNCHANGED <<row, branch, home, deleted, cwd, server, memory, choice, ran,
                 overlap, prompts, events>>

-----------------------------------------------------------------------------
(* Commands at the prompt of a process.                                    *)

\* Mutant: the row stays.
NewSession_OnlyMemory(p) ==
  /\ At(p, "idle")
  /\ memory' = [memory EXCEPT ![p] = NoThread]
  /\ IF Git(p) THEN Chosen(p, Fresh) ELSE choice' = [choice EXCEPT ![p] = Fresh]
  /\ Overlaps(p)
  /\ UNCHANGED <<row, branch, home, deleted, pc, cwd, server, locals, ran,
                 lost, prompts, events>>

\* /new.
NewSession(p) ==
  /\ At(p, "idle")
  /\ memory' = [memory EXCEPT ![p] = NoThread]
  /\ row' = IF Git(p) THEN NoRow ELSE row
  /\ IF Git(p) THEN Chosen(p, Fresh) ELSE choice' = [choice EXCEPT ![p] = Fresh]
  /\ Overlaps(p)
  /\ UNCHANGED <<branch, home, deleted, pc, cwd, server, locals, ran, lost,
                 prompts, events>>

\* Mutant: no comparison of the paths.
Bindable_Anywhere(t) == home[t] # "none" /\ t \notin deleted

\* The thread exists and its cwd is the repository's root.
Bindable(t) == home[t] = "repo" /\ t \notin deleted

\* /resume: bind_repo_session, with a count that starts again.
Binds(p, t) ==
  /\ At(p, "idle") /\ Git(p) /\ Bindable(t)
  /\ row' = RowOf(t, 0)
  /\ server' = [server EXCEPT ![p] = "up"]
  /\ memory' = [memory EXCEPT ![p] = NoThread]
  /\ Chosen(p, t)
  /\ lost' = lost \cup {t}
  /\ Overlaps(p)
  /\ UNCHANGED <<branch, home, deleted, pc, cwd, locals, ran, prompts, events>>

\* /archive and /delete: once the App Server has done it, a row that names
\* the thread is to go.
Removes(p, t, forGood) ==
  /\ At(p, "idle") /\ home[t] # "none" /\ t \notin deleted
  /\ Restart(p)
  /\ deleted' = IF forGood THEN deleted \cup {t} ELSE deleted
  /\ pc' = IF Git(p) /\ Names(t) THEN [pc EXCEPT ![p] = "unbind"] ELSE pc
  /\ Overlaps(p)
  /\ UNCHANGED <<row, branch, home, cwd, locals, ran, lost, prompts, events>>

\* unbind_repo_session, of whatever the row names by now.
Unbinds(p) ==
  /\ At(p, "unbind") /\ Goto(p, "idle")
  /\ row' = NoRow
  /\ Chosen(p, Fresh)
  /\ UNCHANGED <<branch, home, deleted, cwd, server, memory, locals, ran, lost,
                 overlap, prompts, events>>

-----------------------------------------------------------------------------
Acquire(p) == \/ Evaluate(p) \/ Resumes(p) \/ ResumeFails(p)
              \/ \E t \in Threads : Starts(p, t)

RunTurns(p) == \E status \in Statuses : \/ Escalates(p, status)
                                        \/ Settles(p, status)
                                        \/ Verified(p, status)

Save(p) == \/ Remember(p) \/ SaveReads(p) \/ Upserts(p) \/ Counts(p)
           \/ SaveFails(p)

Command(p) == \/ NewSession(p) \/ Unbinds(p)
              \/ \E t \in Threads : \/ Binds(p, t)
                                    \/ \E g \in BOOLEAN : Removes(p, t, g)

World(p) == \/ \E w \in Places : Launch(p, w)
            \/ Ends(p) \/ ServerDies(p)

Next ==
  \/ \E p \in Procs :
       \/ World(p)
       \/ StartFails(p) \/ Blocked(p)
       \/ \E n \in 1 .. MaxAttempts : Prompt(p, n)
       \/ Acquire(p) \/ RunTurns(p)
       \/ \E how \in {"interrupt", "timeout", "error"} : Raises(p, how)
       \/ Save(p) \/ Command(p)
  \/ Expires
  \/ \E b \in Branches : Checkout(b)

Spec == Init /\ [][Next]_vars

-----------------------------------------------------------------------------
(* Properties.                                                             *)

\* A prompt follows what was chosen last: the thread its last prompt used or
\* /resume bound, the new one /new announced, nothing a process without Git
\* has not just used. It may differ only after another process wrote the
\* row, a failed resume, an expiry or a checkout.
FollowsChoice ==
  \A p \in Procs : pc[p] \in Turning =>
    /\ choice[p] = Fresh => began[p]
    /\ choice[p] \in Threads => thread[p] = choice[p]

\* A turn runs where its thread was started, even with several processes on
\* the row: the conversation of one place never reaches another.
TurnAtHome ==
  \A p \in Procs : pc[p] \in Turning => home[thread[p]] = cwd[p]

\* While processes take turns, the row never counts more turns than its
\* thread ran, and exactly these if every prompt of it was saved: escalations
\* and continuations count, the turns of an earlier thread do not.
TurnsAccurate ==
  row # NoRow /\ ~ overlap =>
    /\ row.turns <= ran[row.thread]
    /\ (\A p \in Procs : ~ Busy(p)) /\ row.thread \notin lost =>
         row.turns = ran[row.thread]

\* src/cx.py:1819: a prompt whose turn the user stopped runs no other turn. Not
\* so of the code, which escalates a stopped turn that brought no answer.
StopStops == \A p \in Procs : pc[p] \in Turning => ~ stopped[p]
=============================================================================
