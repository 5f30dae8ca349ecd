------------------------------ MODULE BoundedRun ------------------------------
(* A check that runs on the host for a limited time                        *)
(* (runtime/cx2/bounded_verification_runner.py:                            *)
(* execute_bounded_verification_command): the command and what it starts,  *)
(* one reader thread for each output pipe, and the caller, who waits, ends *)
(* the tree after a timeout, takes everything back and reports whether it  *)
(* could.                                                                  *)
(*                                                                         *)
(* On Windows the parent is a launcher that reads the command from its     *)
(* standard input once it is in a kill-on-close Job Object; on POSIX it is *)
(* a shell that leads a process group of its own.                          *)
EXTENDS Integers, Sequences, SequencesExt, FiniteSetsExt

CONSTANTS
  Platforms,   \* "win32", "posix"
  Pipes,       \* the output pipes, in the order their readers are settled
  PipeCap,     \* chunks a pipe holds
  MaxWrites,   \* bound: chunks written to all pipes
  MaxBytes     \* chunks a reader keeps (max_stdout_bytes, max_stderr_bytes)

ASSUME BoundsAssumption ==
  /\ Platforms \subseteq {"win32", "posix"}
  /\ PipeCap \in Nat \ {0} /\ MaxWrites \in Nat /\ MaxBytes \in Nat

Streams == ToSet(Pipes)

ASSUME PipesAssumption == Pipes \in Seq(Streams)

VARIABLES
  platform,
  pc,           \* where the caller is
  (* the machine *)
  parent,       \* none, held (waits for its input), live, killed, exited
  child,        \* [state, grouped, attached]: a process the command leaves
  code,         \* the exit code of the parent
  pipe,         \* chunks in each pipe
  written,      \* chunks written to each
  (* the readers *)
  rd,           \* none, reading, done, failed
  asked,        \* stop_requested
  kept,         \* chunks in the buffer
  total,        \* total_bytes
  truncated,
  (* what the caller holds and has learnt *)
  job,          \* none, held, closed
  profile,      \* none, exists, removed: the disposable environment
  termination,  \* [attempted, verified, to]; to: who was signalled on POSIX
  timedOut, exitCode, failed,
  verified,     \* what is verified of: wait, readers, handle, cwd, profile
  left,         \* readers that are not settled
  result        \* [exit, cleanup, total, truncated]

runVars == <<platform, pc, parent, child, code, pipe, written, rd, asked, kept,
             total, truncated, job, profile, termination, timedOut, exitCode, failed,
             verified, left, result>>

processes == <<parent, child, code>>
readers   == <<rd, kept, total, truncated>>
learnt    == <<termination, timedOut, exitCode, failed>>

Alive == {"held", "live", "killed"}   \* killed: the signal is on its way

Writers   == (IF parent \in Alive THEN {"parent"} ELSE {})
               \cup (IF child.state \in Alive /\ child.attached THEN {"child"} ELSE {})
NoChild   == [state |-> "none", grouped |-> FALSE, attached |-> FALSE]
NoResult  == [exit |-> "none", cleanup |-> FALSE, total |-> [s \in Streams |-> 0],
              truncated |-> [s \in Streams |-> FALSE]]

RunInit ==
  /\ platform \in Platforms /\ pc = "start"
  /\ parent = "none" /\ child = NoChild /\ code = "none"
  /\ pipe = [s \in Streams |-> 0] /\ written = [s \in Streams |-> 0]
  /\ rd = [s \in Streams |-> "none"] /\ asked = [s \in Streams |-> FALSE]
  /\ kept = [s \in Streams |-> 0] /\ total = [s \in Streams |-> 0]
  /\ truncated = [s \in Streams |-> FALSE]
  /\ job = "none" /\ profile = "none"
  /\ termination = [attempted |-> FALSE, verified |-> FALSE, to |-> "none"]
  /\ timedOut = FALSE /\ exitCode = "-1" /\ failed = FALSE
  /\ verified = {} /\ left = <<>> /\ result = NoResult

-------------------------------------------------------------------------------
(* The model ends with the call.                                           *)
Over == pc \in {"done", "raised"}

(* The command.                                                            *)
Process ==
  ~Over /\ UNCHANGED <<platform, pc, asked, job, profile, learnt, verified, left, result>>

(* It starts another process, which may leave the group (on Windows nothing *)
(* leaves the Job Object) and may keep no pipe and no directory of its      *)
(* parent.                                                                  *)
Fork(grouped, attached) ==
  /\ Process
  /\ parent = "live" /\ child.state = "none"
  /\ platform = "win32" => grouped
  /\ child' = [state |-> "live", grouped |-> grouped, attached |-> attached]
  /\ UNCHANGED <<parent, code, pipe, written, readers>>

(* A full pipe blocks its writer; one whose reader is gone takes nothing.  *)
Write(s) ==
  /\ Process
  /\ parent = "live" \/ (child.state = "live" /\ child.attached)
  /\ rd[s] \in {"none", "reading"}
  /\ pipe[s] < PipeCap /\ MapThenSumSet(LAMBDA t : written[t], Streams) < MaxWrites
  /\ pipe' = [pipe EXCEPT ![s] = @ + 1] /\ written' = [written EXCEPT ![s] = @ + 1]
  /\ UNCHANGED <<processes, readers>>

ParentExits(ok) ==
  /\ Process
  /\ parent = "live"
  /\ parent' = "exited" /\ code' = IF ok THEN "0" ELSE "1"
  /\ UNCHANGED <<child, pipe, written, readers>>

(* A launcher whose input is closed without a command exits as well.       *)
LauncherExits ==
  /\ Process
  /\ parent = "held" /\ failed
  /\ parent' = "exited" /\ code' = "0"
  /\ UNCHANGED <<child, pipe, written, readers>>

ChildExits ==
  /\ Process
  /\ child.state = "live"
  /\ child' = [child EXCEPT !.state = "exited"]
  /\ UNCHANGED <<parent, code, pipe, written, readers>>

(* What was killed is gone after a while.                                  *)
Dies ==
  /\ Process
  /\ \/ parent = "killed" /\ parent' = "exited" /\ code' = "killed" /\ UNCHANGED child
     \/ child.state = "killed" /\ child' = [child EXCEPT !.state = "exited"]
          /\ UNCHANGED <<parent, code>>
  /\ UNCHANGED <<pipe, written, readers>>

-------------------------------------------------------------------------------
(* A reader thread. Past its limit it goes on reading and throws away what *)
(* it reads.                                                               *)
Reader == ~Over /\ UNCHANGED <<platform, pc, processes, written, asked, job, profile,
                                learnt, verified, left, result>>

(* Mutant: at its limit the reader stops reading.                          *)
ReadsToLimit(s) == rd[s] = "reading" /\ pipe[s] > 0 /\ kept[s] < MaxBytes

Reads(s) == rd[s] = "reading" /\ pipe[s] > 0

(* Mutant: what does not fit is dropped without a mark.                    *)
Unmarked(s) == truncated

Marked(s) == [truncated EXCEPT ![s] = @ \/ kept[s] >= MaxBytes]

(* A read it was asked to stop in the middle of is its last.               *)
Read(s) ==
  /\ Reader
  /\ Reads(s)
  /\ pipe' = [pipe EXCEPT ![s] = @ - 1]
  /\ total' = [total EXCEPT ![s] = @ + 1]
  /\ kept' = [kept EXCEPT ![s] = IF @ < MaxBytes THEN @ + 1 ELSE @]
  /\ truncated' = Marked(s)
  /\ rd' = IF asked[s] THEN [rd EXCEPT ![s] = "done"] ELSE rd

(* The pipe ends when nothing that could write to it is left.              *)
EndOfPipe(s) ==
  /\ Reader
  /\ rd[s] = "reading" /\ pipe[s] = 0 /\ Writers = {}
  /\ rd' = [rd EXCEPT ![s] = "done"]
  /\ UNCHANGED <<pipe, kept, total, truncated>>

(* It sees the request, or its read was cancelled, or its pipe closed under *)
(* it: an error that counts for nothing then, and one of its own otherwise. *)
ReaderStops(s) ==
  /\ Reader
  /\ rd[s] = "reading"
  /\ rd' = [rd EXCEPT ![s] = IF asked[s] THEN "done" ELSE "failed"]
  /\ UNCHANGED <<pipe, kept, total, truncated>>

-------------------------------------------------------------------------------
(* The caller.                                                             *)
Caller == UNCHANGED <<platform, code, pipe, written, kept, total, truncated>>

(* An empty command, or a directory that is not one: nothing is started.   *)
Refuse ==
  /\ Caller
  /\ pc = "start" /\ pc' = "done"
  /\ result' = [NoResult EXCEPT !.exit = "-1", !.cleanup = TRUE]
  /\ UNCHANGED <<parent, child, rd, asked, job, profile, learnt, verified, left>>

BuildEnvironment(ok) ==
  /\ Caller
  /\ pc = "start" /\ pc' = IF ok THEN "spawn" ELSE "raised"
  /\ profile' = "exists"
  /\ UNCHANGED <<parent, child, rd, asked, job, learnt, verified, left, result>>

(* The command, or on Windows its launcher.                                *)
Spawn ==
  /\ Caller
  /\ pc = "spawn"
  /\ IF platform = "win32" THEN parent' = "held" /\ pc' = "assign"
                           ELSE parent' = "live" /\ pc' = "readers"
  /\ UNCHANGED <<child, rd, asked, job, profile, learnt, verified, left, result>>

(* The Job Object is there before the command is.                          *)
Assign ==
  /\ Caller
  /\ pc = "assign" /\ pc' = "feed"
  /\ job' = "held"
  /\ UNCHANGED <<parent, child, rd, asked, profile, learnt, verified, left, result>>

Feed ==
  /\ Caller
  /\ pc = "feed" /\ pc' = "readers"
  /\ parent' = "live"
  /\ UNCHANGED <<child, rd, asked, job, profile, learnt, verified, left, result>>

(* Any of these fails: what is alive is ended, with or without a Job.      *)
Fails ==
  /\ Caller
  /\ pc \in {"spawn", "assign", "feed"}
  /\ pc' = IF parent = "none" THEN "handle" ELSE "failing"
  /\ failed' = TRUE
  /\ UNCHANGED <<parent, child, rd, asked, job, profile, termination, timedOut, exitCode,
                 verified, left, result>>

(* ... unless it is seen to have exited.                                   *)
FailedAlready ==
  /\ Caller
  /\ pc = "failing" /\ parent = "exited"
  /\ pc' = "handle"
  /\ UNCHANGED <<parent, child, rd, asked, job, profile, learnt, verified, left, result>>

StartReaders ==
  /\ Caller
  /\ pc = "readers" /\ pc' = "waiting"
  /\ rd' = [s \in Streams |-> "reading"] /\ left' = Pipes
  /\ UNCHANGED <<parent, child, asked, job, profile, learnt, verified, result>>

(* The command ends in time. On Windows what it leaves is ended.           *)
WaitReturns ==
  /\ Caller
  /\ pc = "waiting" /\ parent = "exited"
  /\ exitCode' = code /\ verified' = verified \cup {"wait"}
  /\ pc' = IF job = "held" THEN "draining" ELSE "settle"
  /\ UNCHANGED <<parent, child, rd, asked, job, profile, termination, timedOut, failed,
                 left, result>>

Timeout ==
  /\ Caller
  /\ pc = "waiting"
  /\ pc' = "killing" /\ timedOut' = TRUE
  /\ UNCHANGED <<parent, child, rd, asked, job, profile, termination, exitCode, failed,
                 verified, left, result>>

Killed(state) == IF state \in Alive THEN "killed" ELSE state
Ended(state)  == IF state \in Alive THEN "exited" ELSE state

(* The Job Object ends its members; drained: none is left in time.         *)
Terminate(drained, sure) ==
  /\ IF drained
     THEN parent' = Ended(parent) /\ child' = [child EXCEPT !.state = Ended(@)]
     ELSE parent' = Killed(parent) /\ child' = [child EXCEPT !.state = Killed(@)]
  /\ job' = "closed"
  /\ termination' = [attempted |-> TRUE, verified |-> drained /\ sure, to |-> "none"]

(* taskkill, which fails for a parent that is gone, and the Job Object;    *)
(* without one taskkill alone, which verifies nothing.                     *)
TerminateWindows(taskkill, drained) ==
  /\ Caller
  /\ platform = "win32" /\ pc \in {"killing", "failing"}
  /\ taskkill => parent \in Alive
  /\ IF job = "held"
     THEN Terminate(drained, taskkill)
     ELSE /\ parent' = IF taskkill THEN Killed(parent) ELSE parent
          /\ termination' = [attempted |-> TRUE, verified |-> FALSE, to |-> "none"]
          /\ UNCHANGED <<child, job>>
  /\ pc' = "reaping"
  /\ UNCHANGED <<rd, asked, profile, timedOut, exitCode, failed, verified, left, result>>

(* SIGKILL for the group, which reaches no process that has left it; when  *)
(* that fails, for the parent alone; when that fails, for nobody. Whoever  *)
(* it was sent to, a signal that was sent counts as verified.              *)
Recipients == {"group", "process", "none"}

TerminateGroup(to) ==
  /\ Caller
  /\ platform = "posix" /\ pc = "killing"
  /\ parent' = IF to = "none" THEN parent ELSE Killed(parent)
  /\ child' = IF to = "group" /\ child.grouped
              THEN [child EXCEPT !.state = Killed(@)] ELSE child
  /\ termination' = [attempted |-> TRUE, verified |-> to # "none", to |-> to]
  /\ pc' = "reaping"
  /\ UNCHANGED <<rd, asked, job, profile, timedOut, exitCode, failed, verified, left, result>>

(* After a normal end on Windows: the Job Object alone.                    *)
Drain(drained) ==
  /\ Caller
  /\ pc = "draining" /\ pc' = "reaping"
  /\ Terminate(drained, TRUE)
  /\ UNCHANGED <<rd, asked, profile, timedOut, exitCode, failed, verified, left, result>>

(* The parent has exited, or is given up after PROCESS_CLEANUP_TIMEOUT.    *)
Reap ==
  /\ Caller
  /\ pc = "reaping" /\ pc' = IF left = <<>> THEN "handle" ELSE "settle"
  /\ verified' = IF parent = "exited" THEN verified \cup {"wait"} ELSE verified \ {"wait"}
  /\ UNCHANGED <<parent, child, rd, asked, job, profile, learnt, left, result>>

(* The readers, one after the other. The first that is not well makes all  *)
(* of it unverified.                                                       *)
Settling(pcs) == pc \in pcs /\ left # <<>>

Settled(ok) ==
  /\ left' = Tail(left)
  /\ verified' = IF ok THEN verified ELSE verified \cup {"notReaders"}
  /\ pc' = IF Len(left) = 1 THEN "handle" ELSE "settle"

ReaderDone ==
  /\ Caller
  /\ Settling({"settle", "joining"}) /\ rd[Head(left)] \in {"done", "failed"}
  /\ Settled(rd[Head(left)] = "done")
  /\ UNCHANGED <<parent, child, rd, asked, job, profile, learnt, result>>

(* It is asked to stop: its read is cancelled, or its pipe closed.         *)
AskToStop(ok) ==
  /\ Caller
  /\ Settling({"settle"}) /\ rd[Head(left)] = "reading"
  /\ pc' = "joining"
  /\ asked' = [asked EXCEPT ![Head(left)] = TRUE]
  /\ verified' = IF ok THEN verified ELSE verified \cup {"notReaders"}
  /\ UNCHANGED <<parent, child, rd, job, profile, learnt, left, result>>

(* Mutant: a reader is waited for as long as it takes.                     *)
NeverGiveUp == FALSE /\ UNCHANGED runVars

(* ... and left behind when it does not.                                   *)
GiveUpReader ==
  /\ Caller
  /\ Settling({"joining"}) /\ rd[Head(left)] = "reading"
  /\ Settled(FALSE)
  /\ UNCHANGED <<parent, child, rd, asked, job, profile, learnt, result>>

(* The handle of the process is kept while the process lives. A Job Object *)
(* still held is closed, which ends its members.                           *)
CloseHandle(ok) ==
  /\ Caller
  /\ pc = "handle" /\ pc' = "cwd"
  /\ ok => platform = "posix" \/ parent \in {"none", "exited"}
  /\ ~ok => platform = "win32" /\ parent # "none"
  /\ verified' = IF ok THEN verified \cup {"handle"} ELSE verified
  /\ IF job = "held"
     THEN /\ job' = "closed"
          /\ parent' = Killed(parent) /\ child' = [child EXCEPT !.state = Killed(@)]
     ELSE UNCHANGED <<job, parent, child>>
  /\ UNCHANGED <<rd, asked, profile, learnt, left, result>>

(* On Windows a directory some process stands in cannot be deleted.        *)
CheckDirectory(ok) ==
  /\ Caller
  /\ pc = "cwd" /\ pc' = "profile"
  /\ ok => platform = "posix" \/ Writers = {}
  /\ ~ok => platform = "win32"
  /\ verified' = IF ok THEN verified \cup {"cwd"} ELSE verified
  /\ UNCHANGED <<parent, child, rd, asked, job, profile, learnt, left, result>>

RemoveProfile(ok) ==
  /\ Caller
  /\ pc = "profile" /\ pc' = "report"
  /\ IF ok THEN profile' = "removed" /\ verified' = verified \cup {"profile"}
           ELSE UNCHANGED <<profile, verified>>
  /\ UNCHANGED <<parent, child, rd, asked, job, learnt, left, result>>

(* Mutant: the parent's end is taken for the end of its tree.              *)
ParentIsTree == "wait" \in verified

TreeVerified == IF termination.attempted THEN termination.verified ELSE ~timedOut

CleanupVerified ==
  /\ {"wait", "handle", "cwd", "profile"} \subseteq verified
  /\ "notReaders" \notin verified
  /\ TreeVerified
  /\ ~failed

ReportedExit == IF failed \/ timedOut THEN "-1" ELSE exitCode

Report ==
  /\ Caller
  /\ pc = "report" /\ pc' = "done"
  /\ result' = [exit |-> ReportedExit, cleanup |-> CleanupVerified,
                total |-> total, truncated |-> truncated]
  /\ UNCHANGED <<parent, child, rd, asked, job, profile, learnt, verified, left>>

(* Ctrl+C while the caller waits is no Exception: nothing is taken back.   *)
(* (In the short waits of the cleanup it would leave out the rest of it.)  *)
Interrupted ==
  /\ Caller
  /\ pc = "waiting" /\ pc' = "raised"
  /\ UNCHANGED <<parent, child, rd, asked, job, profile, learnt, verified, left, result>>

-------------------------------------------------------------------------------
ProcessStep ==
  \/ \E g, a \in BOOLEAN : Fork(g, a)
  \/ \E s \in Streams : Write(s)
  \/ \E ok \in BOOLEAN : ParentExits(ok)
  \/ LauncherExits
  \/ ChildExits
  \/ Dies

ReaderStep == \E s \in Streams : Read(s) \/ EndOfPipe(s) \/ ReaderStops(s)

CallerStep ==
  \/ Refuse
  \/ \E ok \in BOOLEAN : BuildEnvironment(ok)
  \/ Spawn \/ Assign \/ Feed \/ Fails \/ FailedAlready
  \/ StartReaders
  \/ WaitReturns
  \/ \E t, d \in BOOLEAN : TerminateWindows(t, d)
  \/ \E to \in Recipients : TerminateGroup(to)
  \/ \E d \in BOOLEAN : Drain(d)
  \/ Reap
  \/ ReaderDone \/ GiveUpReader
  \/ \E ok \in BOOLEAN : AskToStop(ok)
  \/ \E ok \in BOOLEAN : CloseHandle(ok) \/ CheckDirectory(ok) \/ RemoveProfile(ok)
  \/ Report

RunNext == ProcessStep \/ ReaderStep \/ CallerStep \/ Timeout \/ Interrupted

(* The caller's short waits all end, by an event or by their bound, and a  *)
(* thread with something to read gets to run. The command may do nothing,  *)
(* and its timeout is a minute away: see CallReturns.                      *)
Fairness == WF_runVars(CallerStep) /\ \A s \in Streams : WF_runVars(Read(s))

RunSpec == RunInit /\ [][RunNext]_runVars /\ Fairness

-------------------------------------------------------------------------------
(* Properties.                                                             *)

(* A cleanup reported as verified has happened: the parent is gone, so are *)
(* its readers and its environment, no Job Object is held; on Windows      *)
(* nothing the command has started is left, and on POSIX, after a timeout, *)
(* nothing of its process group is, unless the diagnostic says that only   *)
(* the process was signalled. (SECURITY.md, evidence-based process         *)
(* cleanup. A POSIX command that ends in time may leave others running.)   *)
VerifiedMeansReleased ==
  pc = "done" /\ result.cleanup =>
    /\ parent \in {"none", "exited"} /\ job # "held" /\ profile # "exists"
    /\ \A s \in Streams : rd[s] \in {"none", "done"}
    /\ child.state \in Alive =>
         /\ platform = "posix"
         /\ timedOut => \/ ~child.grouped \/ child.state = "killed"
                        \/ termination.to = "process"

(* Output that is left out is marked: what a reader that ran to its end    *)
(* reports is all that was written, and it is marked as cut exactly when   *)
(* that is more than the reader keeps. (BoundedStreamReader.)              *)
OutputAccounted ==
  pc = "done" /\ result.cleanup =>
    \A s \in Streams : rd[s] = "done" /\ ~asked[s] =>
      /\ result.total[s] = written[s]
      /\ result.truncated[s] <=> written[s] > MaxBytes

(* However much it writes, and to whichever pipe first, the command is not *)
(* left blocked on a full pipe while the caller waits for it.              *)
NeverStuckOnOutput ==
  \A s \in Streams : (pc = "waiting" /\ rd[s] = "reading" /\ pipe[s] = PipeCap)
                       ~> (pipe[s] < PipeCap \/ pc # "waiting" \/ rd[s] = "failed")

(* Once its time is up the call returns, whatever the command leaves       *)
(* behind: no join and no wait of the cleanup lasts for ever.              *)
CallReturns == WF_runVars(Timeout) => <>Over
===============================================================================
