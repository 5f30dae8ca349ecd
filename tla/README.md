# CX2: specifications, model checking and proofs

CX2 supervises OpenAI's `codex app-server`: it starts the server as a child
process, talks newline-delimited JSON-RPC with it over pipes, runs turns of a
thread, answers the server's approval requests from the user's decisions,
reconciles the final answer, checks what the turn verified, and keeps a record
of the visible responses. This directory holds TLA+ models of the parts where
order, concurrency, failure and limits decide, the TLC runs that check them on
small instances, and proofs, checked by TLAPS, of what holds for every size.

`tlc -config X.cfg Module` repeats a run (`PROJECT.json`, "runs", names both);
`tlapm X_proofs.tla` checks proofs; section 2 names the module that holds those
about each component. `PROJECT.json` maps every definition that models code to the lines it
translates.

## 1. The system

| Part | Source | State it keeps | Operations | Hard behaviour |
|---|---|---|---|---|
| App Server transport | `client.py` | the process, `_pending`, one waiter queue per request, three event queues, a backlog, `transport_failure` | `start`, `close`, `request`, `notify`, the drains; the dispatcher thread | callers against the dispatcher against `close()`; late answers; full queues; processes that outlive their shutdown |
| Turn loop | `turn_runner.py` `wait_for_turn` | clocks, active commands, interrupt flags, status | drain, liveness check, timeout decision, interrupt, grace | everything that arrives between a decision and the action on it |
| Final answer | `turn_runner.py` reconciliation | per-item buffers, candidates, the canonical text, its source, ambiguity | handlers of deltas, items, raw items, payloads, `thread/read` | four sources of one text, in any order |
| Approvals, grants | `turn_runner.py` `_handle_server_request`, `file_write_grants.py` | decisions of the turn by request and by command, prompts made, grants of the session | answer from memory, from a grant, by refusal, by prompt | replays, limits, contexts that change under a grant |
| Transcript | `transcript_store.py` | SQLite rows and chunks; per response a buffer, a queue of one, a writer thread | open, append, finalize, abort, prune, clear | several processes, kills, a writer left behind |
| Session binding | `session_adapter.py`, `src/cx.py` | table `sessions`: repository to thread, branch, time, turns | evaluate, resume or start, save, clear, bind | several processes on one row; failed resumes |
| Runtime, CLI | `cx2_runtime.py`, `cx2_cli.py` | started, initialized, memory of the non-git thread, grants context | `execute_prompt`: plan, acquire, attempts, continuation, save; commands | which of the state survives which error |
| Verification gate | `verification_gate.py`, `required_verification.py` | none; per turn the commands and mutations, numbered | assess a turn, cover the demanded gates, one continuation | evidence before and after the last change, hidden exit codes, two turns judged as one |
| Bounded execution | `bounded_verification_runner.py`, `test_env.py` | a process, its job or group, two readers, a temporary profile | offer, start, wait, kill, settle, report | a process tree with a deadline, full pipes, processes that stay |
| Router, budget | `src/cx.py`, `router_adapter.py`, `budget_adapter.py` | none; the policy and a quota snapshot | classify, chain of attempts, budget guard, escalation | points, thresholds and guards that interact |
| Installer | `scripts/install.ps1` | files, virtual environment, backups | backup, install, verify, commit, rollback | a failure at any step |
| History, selection | `history_manager.py`, `history_cli.py`, `selection_context.py` | the last numbered listing | list, search, resume, rename, archive, delete | numbers that outlive what they name; pages cut short; bindings of removed threads |
| Presentation, input, launcher, compatibility, telemetry | the rest | screen state | formatting and parsing | none that a model would show |

How they interact. The CLI loop calls `execute_prompt`, which starts the client
if need be, acquires a thread, gives its runner the grants and the transcript
store, and runs up to three attempts and one continuation. The runner shares
two queues with the dispatcher thread of the client, which it polls; all it
handles, approvals and their prompts included, happens inside of its own loop.
The transcript's writer thread shares one queue with the runner. The only state
shared by processes is on disk: the transcript and the sessions database, and
the App Server's own threads.

What makes each part correct is stated by the properties below; the hazards
they answer to, each at its line, are in `PROJECT.json`.

## 2. Modules

| Module | Models | Checked by |
|---|---|---|
| `Rpc` | what `request()` promises its callers, and nothing else: the abstract specification of `Transport` | through `Transport` |
| `Transport` | `AppServerClient`: any number of callers, one dispatcher per process started, the server and the pipe | `MCTransport`, `Transport_proofs` |
| `FinalAnswer` | the events of one turn as far as its answer goes, from `turn/start` to the return of `run_turn` | `MCFinalAnswer`, `FinalAnswer_proofs` |
| `Approvals` | the answers to approval requests over several turns, threads and workspaces | `MCApprovals`, `Approvals_proofs` |
| `TurnLoop` | `wait_for_turn` against the server, the pipe and the dispatcher, with time in ticks | directly, `TurnLoop_proofs` |
| `Transcript` | the database, and the store, sink and writer thread of each process | `MCTranscript`, `Transcript_proofs` |
| `Session` | the row that the processes of a repository share, the thread that one outside keeps in memory, `execute_prompt` and the commands that move them | `MCSession`, `Session_proofs` |
| `Routing` | operators: the score of a prompt, the quota states, the chain of models and its guards, the route | through `Prompt` |
| `Verification` | operators: what a command counts for, which outcome it had, which gates a prompt demands, the verdict | through `Prompt` |
| `Prompt` | `execute_prompt` from the plan to the verdict: attempts, what their turns report, host runs, the continuation | `MCPrompt`, `Prompt_proofs` |
| `BoundedRun` | one command run on the host: its processes, pipes, two readers and the caller | `MCBoundedRun`, `Prompt_proofs` |
| `Selection` | the history commands of one process while others change the App Server's state | `MCSelection`, `Session_proofs` |
| `CodexThreads` | the threads the App Server keeps, as `Session` and `Selection` name them | through both |
| `Lists` | what a loop over a list keeps, and what it sums up to, as recursive functions | `Lists_proofs` |

The same server appears three times at the detail its consumer can tell apart:
in `Transport` as lines with ids, in `TurnLoop` as messages with a meaning for
the loop, in `FinalAnswer` and `Approvals` as events and requests handed over.
`TurnLoop` takes from `Transport` that events keep their order per kind and are
not lost without a recorded failure, which `EventsInOrder` and
`NothingLostSilently` check there. In the same way `execute_prompt` appears twice:
`Session` follows the thread it works on, `Prompt` (which composes `Routing` and
`Verification`) what it decides to run and how it judges that; and `Prompt` sees of
`BoundedRun` only the result of a host run. The proofs about `BoundedRun` stand
beside those about `Prompt`, which starts such runs, and those about `Selection`
beside those about `Session`, whose threads it names; each has variables of its
own, and a specification with a name of its own (`RunSpec`, `HistorySpec`).

### Transport

One action is one stretch of code between two points at which another thread
can be noticed. A caller inside of `request()` goes through `check` (registered,
about to look at `transport_failure`), `send`, `wait` and `finally`; the
dispatcher of each process through `read`, `deliver`, and the two halves of a
wakeup, `snap` and `wake`; `close()` through termination, the join, the closing
of the pipes, and its own snapshot and wakeup. A waiter queue of size one holds
nothing, a failure or the answer to a call; an answer carries the number of the
call it was made for, which the code does not have and the property needs.

`Rpc` has five steps: a call begins or is refused, its request goes out, it
returns with an outcome, it is left. `Transport!ImplementsRpc` maps a caller's
program point to the phase of its call and the lines written, over all
processes, to the calls asked; everything else the client does - dispatchers,
drains, failures, `close()`, `start()` - is a stutter.

### FinalAnswer

Texts are sequences of chunks. `result.item` has the class, the buffered deltas
and the told text of each agent message; `Reconcile` is the ranking of
candidates. Phases follow `run_turn`: the answer to `turn/start`, the turn, the
drain of late final events, up to two `thread/read`, and the final decision.

### Approvals

A request is a record with all the handler looks at. `memory` is
`TurnApprovalState` of the turn; `grants`, `context` belong to the session. The
log of answers, with what decided each, is a history variable that the
properties read.

### TurnLoop

One tick is the poll interval; time passes while the loop sleeps, while it
waits for `turn/interrupt`, while a prompt is open, and while a blocked check runs
on the host, which is offered inside of a drain (`OfferHostRun`) and counts as the
turn's own time. `from` remembers which of the five calls of the drain is under
way; a drain that breaks off at an answer it cannot send ends as `unanswered`.
`boundary`, `quiet`, `running` and
`finalQueued` are history: what was in the queue when the last drain before a
verdict took it, and how long it has been quiet without the user's own time.

### Transcript

A `with self._db` block is one transaction and one action; a process may be
killed between any two. `lock` is the lock of a process's store: an action of the
main thread that takes it holds it for that action only and needs it free
(`Free`), a writer takes it in one action and writes in the next, so that the main
thread may find it taken. The k-th streamed byte is k and a byte of an
authoritative text is 0, so that the stored text tells where it comes from. A
write may fail at any time, as when the database is locked. Opening and the
prune that follows are two actions, as are the replacement of the text and the
prune of `finalize`.

### Session

Every statement that commits is one action: the code never holds a transaction
over a read and the write that depends on it. So `save_session` is three
(`SaveReads`, with the clear of another thread's row, `Upserts`, `Counts`), and
between any two of them another process may write the row, the server may die,
or the process be killed. A turn is one action with its outcome; what happens
inside of it is `TurnLoop`'s and `FinalAnswer`'s. `Raises` is what
`execute_prompt` may raise at each point with what the command line does about
it. A process lives in the repository or in one directory without Git, where the
memory takes the place of the row. `choice`, `ran`, `lost` and `overlap` are
history: the thread the next prompt is to use as far as this process can know,
the turns that each thread ran, the threads whose turns some failed save, kill
or `/resume` left uncounted, and whether two processes ever worked on the row
at once.

### Routing, Verification, Prompt

A prompt is the set of signals that the regular expressions of `cx.py` find in it
and the lines that demand checks; a command is a sequence of segments with
their operators, each with the categories its words give it. The models begin
where the patterns end: what the points of several signals add up to, which
segment decides the exit code, which outcome an exit code and a text have. The
policy is that of `config/policy.example.json`.

`Prompt!MakePlan` reads the quota and builds the plan; a turn then is a sequence
of notifications, each of which advances `event_sequence` as the handlers of
`turn_runner.py` do, ends with a status, and is escalated, judged, or raises.
The summaries of items and the records of commands have the limits of
`turn_runner.py` (`Room`, `RoomForCommand`): beyond them a change or a command gets a
number and nothing else.
What a line of segments does is the shell's part (`AfterSegment`, `Runs`): an
operator decides from the success so far whether the next segment runs, what is
piped into runs with what is piped, and what hands on an exit code ends the line.
Behind `&` that exit code is any (`Unawaited`): `cmd` puts `%errorlevel%` into the
line before it runs, the other shells do not wait.
`tested` and `passedGates` are history, computed from what the commands really
did and not from the records: whether a test passed after the last change, and
which demanded gates passed in their newest run. `blind` is history, too: whether
the judged turns hold something that the records cannot show, which is a change or
a command past the limits, or a line that loses an exit code where the masking
rules do not look (`ExitsSurvive`).

### BoundedRun

The caller goes through `pc` as `execute_bounded_verification_command` does: spawn, job
object (Windows), feed of the launcher, readers, the long wait, termination,
drain, reap, readers, handle, directory, profile, report. The command is a parent
and at most one process it leaves behind, which may hold the pipes and may be
in the parent's group or not. A pipe holds chunks up to `PipeCap`; a writer
blocks on a full one. Which waits end by their bound is a choice of the model, and
so is whom SIGKILL reaches: the group, the parent alone when that fails, or nobody
(`Recipients`).

### Selection

A listing is one action for each page, so that others act in between. `ctx` is
`ACTIVE_SELECTION_CONTEXT`; `screen` is history: the rows the user saw last, and
whether a command of this process has removed one since. The row of the repository
is read in the step that archives or deletes, and cleared in another (`Unbind`);
`rebound` is history: whether another process has bound the repository in
between. Listings may contain an entry without an id, and pages may hold any
number of entries.

## 3. Runs

Passing runs, one or two per module, each as large as a few minutes allow:

| Run | Instance | Shows |
|---|---|---|
| `transport_calls` | two threads, two calls, two processes in turn, the first dispatcher possibly alive beside the second, overflow, `close()` | registrations are cleaned up (`PendingIsInFlight`), nobody misses a wakeup, by a failure, an answer or a close (`NoWaiterStranded`), a late answer never reaches another call (`AnswerIsOwn`), and all of it is the call of `Rpc` (`ImplementsRpc`) |
| `transport_events` | three lines of two kinds, queues and backlog of one, full and selective drains, one call; fair threads | `EventsInOrder`, `NothingLostSilently`; a failure frees the callers (`FailureReleasesCallers`), `close()` ends when the child's pipe does (`CloseTerminates`) |
| `final_answer` | two messages, raw items, payloads, `thread/read`; five events in any order, every bound at its smallest, streams in the server's order or in any | `SuccessIsUndisputed`, `SuccessUsesBestSource`, `OrderIndependent` |
| `approvals` | six requests - one command under two ids, changes by the modern and the legacy method, ordinary in two roots or in one, a request nobody decides - three of them delivered, replays included, over two turns, threads and workspaces, a Ctrl+C, the limits of prompts and identities met | `AcceptIsUsers`, `GrantsAreCurrent`, `DecisionsStick` |
| `turn_loop` | two messages out of two commands of which one fits the table, notes, noise and approval requests; one question of a tick, which may be the offer of a host run of another; a full table of identities, an answer that cannot be sent; both timeouts, Ctrl+C twice, the server's death, a pipe that stays open, an overflow; a fair loop | `CompletionWins`, `WorkingIsNotIdle`, `OnlyWorkOutlastsIdle`, `HumanTimeIsFree`, `HardBound`, `TurnEnds` |
| `transcript_sink` | one process, two turns, a crash, a clear, failing writes, timed-out waits; a writer that may hang for good, but not with the store's lock | `StoredIsPrefix`, `SinkLetsGo` |
| `transcript_shared` | two processes, rows and bytes limited, a clear, in a database that was there before | `RowsAddUp` (with `NoOrphans`), `RetentionBounded`, `StoredStaysPut` |
| `session` | two processes, each in the repository or outside; two new threads and one of another repository; two prompts of up to two attempts and a continuation; one expiry, checkout, kill or death of a server; every command, failed resumes and saves | `FollowsChoice`, `TurnAtHome`, `TurnsAccurate` |
| `prompt` | some 260 prompts by their signals under six answers of the quota service are planned; of two of them - a risky write, free or with a demanded test in `web` - the turns are run, with four notifications and questions among all turns, two summaries of items and two records for each, two commands (a test whose exit is passed on behind it, one whose exit `or true` hides), failures by assertion or by the sandbox | `VerifiedIsEarned`, `OneContinuation`, `HostRunsAreAsked`, `PlansClimb`, `MoreRiskNeverCheaper` |
| `bounded` | both platforms, two pipes of one chunk, two chunks, readers that keep one, a process left behind, every failing step, a SIGKILL that reaches the group, the parent or nobody, a Ctrl+C at the long wait; a fair caller and readers | `VerifiedMeansReleased`, `OutputAccounted`, `NeverStuckOnOutput`, `CallReturns` |
| `selection` | five threads, two of them internal, and a bad entry; rows and pages of two, two rounds; two changes by this process or others, bindings among them; four kinds of listing | `NumbersMeanRows`, `ListingIsPrefix`, `BindingFollows` |

`transport_restart_fails` is violated, and its trace reproduces against the code:
after an overflow every restarted server is refused at `initialize` (`findings`).

Types are proved and not among the runs' properties: `TypeCorrect` states them for
each module with a state (`EventsCorrect` the lists of `Transport`,
`RunTypeCorrect` and `NumbersTypeCorrect` those of `BoundedRun` and `Selection`),
strengthened as the other proofs need. Every `TypeOK` holds under the
configurations, too, and can be added to any of them.

Bounds. Two callers, two processes and two calls make every pair race; a second
call of the same thread adds nothing to a race of two. Queues of one are full
after one message. Five events let each of the four sources come first, last
and twice. Three ticks separate idle from hard, with a grace of one; of two
messages one can decide and the other arrive while it is acted upon. Two
processes and two responses suffice for each limit of the transcript to be met.
Two prompts are one that binds a thread and one that follows it, or two at
once; each may run a turn more than its plan has attempts. One event is one
disturbance between any two steps; two in one run meet only by way of failures
of the calls themselves, which are not counted.
Four notifications of a prompt are a change, a test and its repetition, and a
question; or three items, of which the last is past a limit of two; or a change and a test in each of two turns, for which the numbers of
the second are shifted past those of the first. All the patterns of prompts are
planned but only two run, as the plan enters a run by its length and its
permissions only. The demanded gate makes the surface and the category decide;
changes to documentation or build files alone do not occur among `MCFiles`.
A chunk in a pipe of one blocks the writer, and a reader that keeps one chunk has
its limit exactly met by the first and exceeded by the second. One process left
behind is enough to hold a pipe, the job, the directory. A listing of two rows
over pages of two can end by its rows, its rounds, or the end of the list, in
the middle of a page or between two.
Runs without deadlock checking are of systems that stop: the turn is over, the
calls used up.

Fairness. `Transport!FairSpec` and `TurnLoop!FairSpec` assume that threads that
can run do run, and in `TurnLoop` that time passes; nothing is assumed of the
server, of the user, or of the threads of a hung dispatcher.
`Transcript!FairSpec` assumes it of the main threads, whose waits have timers,
and of a writer only while it holds the store's lock: there it calls SQLite and
nothing else, which gives a locked database up after five seconds (`timeout=5.0`).
That a disk does not hang is an assumption about the machine. `TurnLoop!FairSpec`
likewise takes it that a write to the server's stdin fails or returns. `BoundedRun` assumes that the caller's short waits end -
each has a bound in the code - and that a reader with something to read reads;
the command may do nothing at all, and only `CallReturns` assumes, in its own
text, that the timeout of the long wait comes.

## 4. Disagreements

Where the code does not do what its documents or comments say. The first is a
run of its own (`findings`); the others were met while modelling and, but for
those marked *read*, confirmed by a counterexample in the model; each names what
to add to a configuration to see it. A property of a passing run that would be
false on account of one of them excepts it by name, in its text or its comment.

Transport and turns:

- A failure outlives its process: `transport_restart_fails`.
- With `SurvivorPossible = TRUE`, `CloseTerminates` fails: `close()` calls
  `stdout.close()` (`client.py:342`) while the dispatcher may be inside of a
  blocked read of it, as it is when a descendant keeps the pipe open, and waits
  for the lock of the reader; `client.py:325` speaks of bounded shutdown attempts.
- `AnswerIsTold` fails in `FinalAnswer` with `Items = {1}`: a delta that arrives after an
  authoritative text is appended to `agent_text` (`turn_runner.py:2344`), and the
  turn completes with a text no source told; `turn_runner.py:3172` requires "one
  strictly reconciled authoritative final answer".
- With two messages of equal text the source that came first stays although a
  better one has come (`turn_runner.py:2152` returns before the ranking): without
  its premise on `Tellers`, `SuccessUsesBestSource` fails.
- `CapacityFails` fails in any instance of `FinalAnswer`: `turn/completed` assigns
  the status (`turn_runner.py:5248`) and overwrites the failure that an exceeded
  bound has left, against `tests/test_2014_remediation.py:637`.
- Without `~stranger`, `HumanTimeIsFree` fails: the prompt of a late request
  of an earlier turn counts as idle time of this one (`turn_runner.py:2796`),
  against `docs/known-limitations.md:20`.
- A host run takes up to a minute and its cleanup, inside of a drain
  (`turn_runner.py:3388`), and counts as the turn's time; nothing looks at the
  timeouts meanwhile, so that the hard timeout may be exceeded by as many of them
  as a turn may ask for. `HardBound` says so; without `HostTime * MaxPrompts` in it,
  it fails.
- `CompletionWins` fails when it is extended to `how = "unanswered"`: server
  requests are handled before notifications (`turn_runner.py:3043`), and an answer
  to one that cannot be sent raises (`turn_runner.py:3555` and `:3583`,
  `client.py:600`), so that the drain never comes to a `turn/completed` that is
  already in the queue and the turn fails; `CHANGELOG.md:55` "a final
  completion-winning drain".

Approvals and transcript:

- `PromptsBounded` fails in `Approvals`: a change outside of the workspace takes a
  branch that prompts without looking at the limit (`turn_runner.py:3850`),
  against `docs/security-model.md:29`.
- `GrantIsOfThread` fails in `Approvals`: a late request of another thread is
  answered by the grant of the current one (`turn_runner.py:3417`), against
  `README.md:335`.
- Without fairness of a writer that holds the store's lock, `SinkLetsGo` fails: the
  lock is waited for without a timeout (`transcript_store.py:260` and `:335`), so
  that a write that hangs holds `finalize`, and with it the turn, for good, although
  every wait of the sink itself is bounded (`transcript_store.py:629`, "boundedly").
- *Read:* the row of a response whose sink was aborted stays `ACTIVE`
  (`transcript_store.py:628`), and its writer, which may still have a flush to do,
  goes on appending to it until a store that is opened takes it for stale.
  `StoredStaysPut` is about the others; what such a row holds is a prefix all the
  same (`StoredIsPrefix`).
- `LiveIsActive` fails with two processes: opening the store ends the response
  that another process is streaming (`transcript_store.py:184`).
- With `Fresh = TRUE`, `NoOrphans` fails: `PRAGMA foreign_keys` is issued inside of
  the transaction that the `INSERT` of the schema version has begun
  (`transcript_store.py:182`), where SQLite ignores it, so that the process that
  created the database has no cascade and a clear leaves the text behind;
  `docs/security-model.md:21` "deletes visible transcript rows".

Session:

- `StopStops` fails: `escalation_reason` (`src/cx.py:1880`) returns
  "missing-final-response" for any status, and a turn that Ctrl+C ended before its
  answer is followed by the next attempt; `src/cx.py:1819` "only when another model
  can plausibly help".
- Without `~ overlap`, `TurnsAccurate` fails: the `UPDATE` of the count names the
  repository and not the thread (`session_adapter.py:200`), so that of two
  prompts at once the count of one ends up at the thread of the other, against
  the docstring of `save_session`, which speaks of the actual turns executed.
- Without the case of a failed resume in `Chosen`, `FollowsChoice` fails when the
  server dies during `thread/resume`: any exception clears the row
  (`session_adapter.py:614`), and a thread that is alive loses its binding.

Verification and routing:

- A test earns VERIFIED whatever its exit where the masking rules do not look, against
  `SECURITY.md:49` and `docs/security-model.md:13`: piped into another program, as
  only the programs on a list count as hiding the exit of what is piped into them
  (`verification_gate.py:1189-1205`, so that `is_command_masked("npm test | cat")` is
  False); in `npm test & exit %errorlevel%`, which is held to hand the exit on
  (`verification_gate.py:1179-1186`) although `cmd` has read `%errorlevel%` before the
  test runs; left behind by a trailing `&`; or behind an exit that was handed on.
  Add to `MCCommands` a line of a test segment with `op |-> "|"` and a second segment
  of kind `other`, or with `op |-> "&"` and one of kind `handsOn`: without `~blind`,
  `VerifiedIsEarned` fails.
- A change past the limit of a turn's item summaries returns before it is counted
  (`turn_runner.py:4824-4829`, `:4924-4929`), and so does a command past the limit of
  records (`:4947-4952`). Either fails the turn, but a `turn/completed` of the same
  batch puts its own status over that (`turn_runner.py:5248`), and the test that ran
  before such a change is taken for one after the last. Without `~blind`,
  `VerifiedIsEarned` fails under `Prompt.cfg`.
- *Read:* a masked exit is BLOCKED in the code and INCONCLUSIVE in
  `docs/verification-assurance.md`; several surfaces weigh otherwise than
  `docs/routing-model.md` says.
- *Read:* demanded gates are met by runs before the last change, a gate of the
  root by a run in a directory below it, and a test that failed after the one
  that passed does not take the verdict back; the changes of an attempt that was
  escalated are not judged; a failed gate lowers the status and leaves
  `requires_continuation` as it was; `QUOTA_HARD_STOP` cannot be reached; an
  escalation may choose the same model again when the stronger one is hidden.
  `VerifiedIsEarned` is stated so that none of these counts as a violation.

Host runs:

- *Read:* a POSIX command that ends in time and leaves a process behind is
  reported with `resource_cleanup_verified` (`bounded_verification_runner.py:780`),
  against its docstring; `VerifiedMeansReleased` excepts it by name.
- When the group cannot be signalled, `kill_process_tree` signals the parent alone
  and reports that as verified all the same (`bounded_verification_runner.py:456-459`),
  although others of the group live on; `SECURITY.md:51` "Any uncertainty remains an
  explicit cleanup failure". The diagnostic "SIGKILL sent to process" tells the two
  apart: without `termination.to = "process"`, `VerifiedMeansReleased` fails.
- *Read:* a reader that is asked to stop loses what it has not read without a
  mark, which `OutputAccounted` excepts (`~asked`); Ctrl+C is no `Exception` and
  leaves the tree, the readers and the profile (`Interrupted`).

Selection:

- `/archive` and `/delete` read the row of the repository (`history_cli.py:509`) and
  then clear it, whichever thread it names by then (`history_cli.py:520`): a
  binding that another process has made in between is lost. Without `rebound`,
  `BindingFollows` fails.
- *Read:* a listing that fails on a malformed entry has printed rows with new
  numbers while the numbers still mean the listing before
  (`selection_context.py:22`, "most recently rendered"); `screen` is the last one
  printed to its end.
- *Read:* an empty listing says that there are no threads even when its ten
  rounds met internal ones only and more follow; a full one that was cut in the
  middle of the last page does not say that there are more. `ListingIsPrefix`
  excepts both.
- *Read:* the schema of the database is looked at before the user confirms
  `/delete` and not again (`history_cli.py:1423`), against
  `history_manager.py:970`; and when the answer to an archive is lost, binding and
  numbers stay.

## 5. Proofs

A theorem says of every value of the constants - any number of callers,
processes, threads, messages, commands, texts and pages, any limit and timeout -
what a run shows for one. Each is proved in the same way: an invariant that is
stronger than the property, because it also says of the places that lead to the
property's what they must hold for it, is true at first and kept by each action,
and implies the property.

`Transport_proofs`:

- `TypeCorrect`: `CoreTypeOK` with `CallsNumbered`: requests are numbered by the
  calls of `request()` so far, and a thread inside of it has the number of its
  own call.
- `AnswersAreOwn` (`AnswerIsOwn`). The property says something of the last moment
  only. It is inductive once every place an answer can be in agrees on its call
  (`OwnInv`): what the server has read, the lines in its pipe, the line in the
  hands of a dispatcher, the waiter queues. That holds because numbers are not
  reused, not even over a restart.
- `PendingIsExact` (`PendingIsInFlight`), from `CallsNumbered`, which makes the
  numbers of two threads inside of `request()` different, so that the removal by
  one cannot take away the entry of the other.
- `NobodyStranded` (`NoWaiterStranded`). The reasons for which a caller must be
  woken begin before it waits: the failure may come between its look at
  `transport_failure` and its write, and `close()` owes the wakeup from its
  snapshot on (`OwedWoken`). With that go that answers are of calls that were
  written (`AnswersAsked`), that the process `close()` has found takes no more
  requests (`ClosingIsDeaf`), and that what a dispatcher delivers has the number of
  a request (`DispatchersReal`), or it could empty no waiter and still be done.
- `TransportImplementsRpc` (`ImplementsRpc`), the refinement. A step of `request()` is
  a step of `Rpc`, any other leaves what `Rpc` describes as it is (`OutsideStays`).
  The steps need the invariants above - the answer that `Wake` takes is the call's
  own, what `Rpc` calls open is `pending` - and `AskedInv`: what has been written is
  of calls that have begun, and a call that has not come to its write is not among
  it, or a request could go out twice.
- `EventsStayInOrder` (`EventsInOrder`). What was handed out, what a selective drain
  put aside, and what is queued are, kind by kind, one sequence of growing
  numbers (`InOrder`), and what is still to be read is numbered higher
  (`PipesOrdered`, `Ahead`). It needs that only the pipe of the running process is
  read (`ReadsCurrent`) and that the queues hold lines of their type
  (`EventsCorrect`).
- `LossIsRecorded` (`NothingLostSilently`), by the same cases: a step hands on, puts
  aside or queues exactly what it takes, or records a failure.

`TurnLoop_proofs`:

- `TypeCorrect`, with the place in the loop fitting the drain it came from.
- `TurnIsBounded` (`HardBound`), by a budget (`BudgetInv`): what the clock may still
  gain after the hard timeout - an interrupt request unless it was made, the rest
  of a grace or a whole one, one more for a first Ctrl+C, a host run for each
  question the turn may still ask - and the clock itself never exceed the bound
  together, and the loop sleeps only before the timeout.
- `CompletionDecides` (`CompletionWins`). A `turn/completed` that is in the client's
  queue is still in it, in the batch, or taken note of (`FinalKnown`,
  `FinalAtBoundary`); and a dispatcher that has ended has left nothing unread
  (`DeadIsDrained`). The property speaks of a wait that ends by a timeout or the
  server's death; a drain that breaks off is neither (section 4).
- `WorkSuppressesIdle` (`WorkingIsNotIdle`) and `SilenceIsWork`
  (`OnlyWorkOutlastsIdle`). What the loop takes to run and what does run are the
  same up to the messages it has not handled (`WorkKnown`, `WorkReal`): a command
  that runs is active with no stop under way, or its last start has no stop behind
  it. `WorkAtBoundary` carries that through the drain before an idle verdict.
- `PromptsAreFree` (`HumanTimeIsFree`), from `QuietInv`: the idle clock and the time
  of quiet without prompts differ only until the request is counted as activity.

`FinalAnswer_proofs`, where `AnswerInv` relates the result to the set of texts told:

- `TypeCorrect`, with what each phase of the turn leaves to do.
- `SuccessNeedsAgreement` (`SuccessIsUndisputed`). `Agrees`: what the table holds of a
  message was told, and while nothing is ambiguous it is the best that was told of
  it, no two differ, and the raw texts are those told. So a difference that came
  is never forgotten.
- `OrderDoesNotMatter` (`OrderIndependent`), from `Agrees`, what each kind of
  ambiguity says has happened (`Reasoned`), and, for streams in order, that nothing
  is appended to a text once told (`Sealed`, `Frozen`) and the canonical message is
  the least of those that completed (`First`).
- `BestSourceWins` (`SuccessUsesBestSource`), from the same and `Best`: with one
  message, the text is one that the selected source told, and no source told is
  better.

`Approvals_proofs`:

- `TypeCorrect`, and `NoStaleGrant` (`GrantsAreCurrent`): the context changes only together
  with the grants, and without a context there are none.
- `OnlyUserAccepts` (`AcceptIsUsers`). The log alone is not inductive: whatever the
  memory of the turn or a grant still stands for must have been accepted by the
  user within its scope (`AcceptedStands`, `GrantsStand`).
- `DecisionsHold` (`DecisionsStick`). The memory is the log of this turn: every
  answer of it is remembered (`LogRemembered`), nothing else is (`AnswersLogged`),
  with one answer for a request (`OneAnswer`); and an identity that was declined is
  among the declined and not among the accepted (`DeclinedStays`).

`Transcript_proofs`, all from one invariant, `StoreInv`:

- `TypeCorrect`: types, and that no buffer reaches the size of a flush, no queue or
  row its limit, and whoever is in a turn has the store open.
- `StoredIsAPrefix` (`StoredIsPrefix`), the longest of the proofs. For each response
  that its writer may still add to, the bytes counted by the row, held by the
  writer, in the queue, in the hands of the main thread and in the buffer are
  consecutive, from the first to the last one streamed (`Flow`, `Parts`, `Queued`);
  a response nobody may add to is a prefix or a replaced text for good (`Kept`).
  What stops the writer - an error, another process taking the response for stale,
  a timed-out stop - therefore loses a suffix and nothing inside.
- `RowsSayTheTruth` (`RowsAddUp`), from `Sums` and, for `NoOrphans`, that every
  connection cascades (`Cascades`). It assumes `~Fresh`, a database that some earlier
  process created; otherwise the property is false (section 4).
- `StoredIsLeftAlone` (`StoredStaysPut`), an action property: only an `ACTIVE` row is
  appended to or marked, and only `finalize` of its own process rewrites another. The
  row of an aborted sink is still `ACTIVE` and not among those (section 4).
- `RetentionHolds` (`RetentionBounded`). The limits hold or a prune is due
  (`WithinLimits`, `PruneDue`); what a prune ranks is every row there is (`Listed`), and
  what it leaves is within the limits because a sum over fewer rows is no larger
  (`TotalGrows`).

`Session_proofs`:

- `TypeCorrect`: the type of `used` is its content: no prompt runs more than the
  attempts of its plan and one continuation. `Planned` carries it: the turns run
  and the attempts left never exceed the plan, and only the last attempt can lead
  to `verify`, which leads to no turn.
- `TurnsStayHome` (`TurnAtHome`). `Placed` follows the thread of a running turn to
  where it may come from: a row names a thread of the repository whoever wrote it,
  and only a process outside of it has a memory, of a thread that was started
  where it runs.
- `PromptsFollow` (`FollowsChoice`). A choice is what the row or the memory leads to
  (`Leads`), and a prompt under way holds to it (`Follows`); whatever another process
  does to the row makes the choices of the others free.
- `TurnsCounted` (`TurnsAccurate`). The row is short of the turns of the one prompt
  under way and of nothing else (`RowCounts`, `PromptCounts`), before, between and
  after the three statements of a save, as long as one process works on the row
  at a time (`OneWorker`, which holds until `overlap`).

Of `Selection`, in the same module:

- `NumbersTypeCorrect`, `NumbersAreRows` (`NumbersMeanRows`; the numbers are the rows on
  the screen, or there are none), and `BindingIsOwn` (`BindingFollows`, an action
  property). The row that is cleared is the one that was read, and the thread it named
  then is archived or deleted, unless another process has bound the repository since
  (`RowWasRead`).
- `ListingsAreWhole` (`ListingIsPrefix`, an action property). While nobody changes
  anything, the rows taken so far are what the entries read so far leave
  (`ReadSoFar`): what is kept of two parts of a list is what is kept of each
  (`PageExtends`, from `KeepConcat`), so a page leaves no gap (`PageShows`).

`Prompt_proofs`, for any policy file, any prompts and any commands:

- `RiskIsNeverCheaper` (`MoreRiskNeverCheaper`), for every prompt that the rules can
  tell apart and any thresholds. A prompt with one more sign of risk has as many
  points and floors in each part of the score (`MoreSigns`, `MoreSum`), and a cap no
  lower (`MoreDominates`).
- `TypeCorrect`, and `HostRunsNeedConsent` (`HostRunsAreAsked`), an action property: the
  cases of a turn's notifications show both at once.
- `TurnsAreBounded` (`OneContinuation`), from `Accounted`: every turn that was asked for
  has returned, runs, or was given up; it is one of the plan's attempts or the one
  beyond them; and what waits for that one, or is it, follows a change.
- `EveryPlanClimbs` (`PlansClimb`) assumes `PolicyClimbs`: each chain in the policy file
  starts with its tier and climbs, and a worse quota state leaves no tier that a
  better one does not. That is the user's to get right; `ShippedPolicyClimbs`
  proves it of the file the program comes with.
- `VerdictsAreEarned` (`VerifiedIsEarned`), of all lines of commands; what the records
  cannot show (section 4) sets `blind`. By induction over the segments of a line that
  keeps its exits (`ExitsSurvive`), of what the masking rules then accept a success is
  one of every check
  (`UnmaskedIsHonest`). The records alone say too little: `EvidenceInv` relates them to
  what happened. Within each turn they are numbered as they came (`Numbered`); a
  test recorded as passed after the last change did pass, in the first turn too
  as long as the second has changed nothing (`TestKnown`); and the newest run of a
  gate, which is in the second turn if that has one, passed if it is recorded so
  (`GateKnown`). `BothKnown` carries that over to the two turns judged as one, whose
  numbers are shifted to follow each other.

Of `BoundedRun`, in the same module:

- `RunTypeCorrect`, and `ReportIsTrue` (`VerifiedMeansReleased`), from `CleanupInv`: the
  steps come in their order (`InOrder`), what is verified is so and stays so
  (`VerifiedHolds`), a reader not settled is still in line or spoils the verdict
  (`ReadersInLine`), the Job Object holds the whole tree until it is ended
  (`JobHoldsTree`), and a signal to the group has reached all of it, which grows no
  more (`GroupSignalled`).
- `OutputIsAccounted` (`OutputAccounted`): what was written is in the pipe or counted
  (`ChunksAddUp`), and a reader that ended by itself has left the pipe empty.

`Lists_proofs` holds what these proofs say of loops over lists. The provers cannot
instantiate an induction theorem over formulas, so the induction is over a set:
a set of numbers that holds 0, and with each number the next, holds them all
(`NumbersInduct`), because the numbers are well-founded; likewise for sequences
(`SequencesInduct`). The loops are recursive functions (`Lists!Keep`, `Lists!Total`,
`Prompt!Runs`): that there is one such function is the first thing proved of each
(`LoopExists`, `SummingExists`, `RunningExists`).

Leaves that take a prover more than a second or two name it and allow it more
time (`SMTT`, `ZenonT`), so that the proofs also check on a busy machine.

The proofs rest on the assumptions that the modules state of their constants:
`TransportAssumption`, `TurnLoopAssumption`, `FinalAssumption`,
`ApprovalsAssumption`, `TranscriptAssumption`, `SessionAssumption`,
`PolicyAssumption`, `PromptAssumption`, `BoundsAssumption` and `PipesAssumption`,
`LimitAssumption` and `ThreadAssumption`.
They say that limits are numbers, those that the code fixes above zero are not
zero, `MAX_RESPONSE_BYTES` is not above the limit of the whole store, the idle
timeout not above the hard one, the values which stand for none are none of the
others, the App Server lists finitely many threads, a policy has chains of tiers
and thresholds in their order, and a command line is one (`WellFormed`: only its
last segment has no operator behind it, and a wrapper shows no check that the
wrapped does not have). TLC evaluates all of them in the runs. Two theorems have a hypothesis of their own, each named above:
`RowsSayTheTruth` and `EveryPlanClimbs`. The instances that TLC
checks satisfy them.

Model-checked only are the liveness properties (`TurnEnds`, `SinkLetsGo`,
`FailureReleasesCallers`, `CloseTerminates`, `NeverStuckOnOutput`, `CallReturns`): fairness
and `ENABLED` are not within the provers' reach.

## 6. Not modelled

Text: what makes a change ordinary, a prompt risky or a command a test is a
pattern over paths and words, given to the models as data. Presentation,
parsing of input, the launcher and telemetry keep no state that the rest depends
on. Scripts that patched earlier installations are not part of the product.
`thread/read` and `turn/start` answers are events of `FinalAnswer`; their transport is
`Transport`'s `request()`. Of the records of commands, the length of their texts is
unbounded in the model and bounded in the code; so is the number of changed files,
whose limit can only lower what a turn is taken to have changed. The installer
is PowerShell whose every line acts on files, shortcuts and the registry outside
of the repository; what those lines do is not defined by the source, and a model
would be one of Windows. Its one structural hazard (a failure after the backups
are gone) is listed in `PROJECT.json`.

## 7. Plan

Done: every component with state of its own but the installer; the refinement of
`Transport`; a theorem for every safety and action property that the runs check.
What could follow: the hazards of `PROJECT.json` without a property, of which a bound
exceeded in the middle of a turn and Ctrl+C between the messages of one batch are
within the reach of `FinalAnswer` and `TurnLoop`.
