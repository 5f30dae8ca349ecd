-------------------------------- MODULE Prompt --------------------------------
(* One prompt from the user's enter key to its verdict                     *)
(* (runtime/cx2/cx2_runtime.py: execute_prompt): the quota is read, a plan *)
(* made, its attempts run one after the other until one needs no stronger  *)
(* model, what the last one did to the files is judged by the commands it  *)
(* ran, and a first verdict without evidence is worth one more turn.       *)
(*                                                                         *)
(* The turns are seen as turn_runner.py sees them: file changes, diffs and *)
(* commands arrive as notifications, each with a number, and a check that  *)
(* the sandbox stopped is offered to the user to run outside of it. How a  *)
(* turn is waited for, and how its answer is found, is in TurnLoop and     *)
(* FinalAnswer; which thread it runs in, in Session.                       *)
EXTENDS Routing, Verification

CONSTANTS
  Prompts,       \* what users ask: [signals, lines, skip]
  Explored,      \* bound: the <<prompt, quota state>> whose turns are run
  QuotaAnswers,  \* what account/rateLimits/read may say
  Catalogs,      \* the sets of models an account may show
  Files,         \* the traits of a file that may change
  Commands,      \* what the model may run: [line, inner, name, cd, cwd]
  Texts,         \* what may be found in the output of a failing command
  CanPrompt,     \* the terminal can ask the user
  MaxAsks,       \* max_approval_prompts_per_turn
  MaxItems,      \* MAX_TURN_ITEM_SUMMARIES
  MaxCommands,   \* MAX_TURN_COMMANDS
  MaxEvents,     \* bound: notifications and questions of all turns
  NoPrompt       \* no prompt

(* The parts of a line. Handing on an exit code is no check, only the last *)
(* part has no operator behind it, and a wrapper's words are a shell's and *)
(* those that it wraps.                                                    *)
Segments ==
  [checks : SUBSET Categories, kind : {"check", "handsOn", "filter", "other"},
   op : {"&&", "||", ";", "&", "|", "none"}]

WellFormed(command) ==
  /\ command.inner \in Seq(Segments)
  /\ \A i \in DOMAIN command.inner :
       /\ command.inner[i].kind = "handsOn" => command.inner[i].checks = {}
       /\ command.inner[i].op = "none" => i = Len(command.inner)
  /\ LineCategories(command.line) \subseteq LineCategories(command.inner)

ASSUME PromptAssumption ==
  /\ \A p \in Prompts : p.signals \in Signals
  /\ \A c \in Commands : WellFormed(c)
  /\ MaxAsks \in Nat /\ MaxItems \in Nat /\ MaxCommands \in Nat /\ MaxEvents \in Nat

VARIABLES
  phase,         \* where execute_prompt is
  prompt,        \* the prompt, until its plan is made
  task,          \* what is kept of it: [skip, gates]
  quota,         \* the budget state it was planned under
  plan,          \* what build_execution_plan made
  attempt,       \* the attempt that runs, counted from 1
  second,        \* the turn is the one that asks for evidence
  turn,          \* the TurnRunResult of the turn
  first,         \* that of the turn before it, when second
  used,          \* attempts_used
  verdict,       \* verification_assessment
  (* observation only *)
  events,        \* notifications and questions so far
  tested,        \* a test has passed since the last change of judged turns
  passedGates,   \* gates whose newest run has passed
  blind,         \* the judged turns hold what the runtime cannot see (see Blinds)
  turnsRun       \* turns the server has been asked for

vars == <<phase, prompt, task, quota, plan, attempt, second, turn, first, used,
          verdict, events, tested, passedGates, blind, turnsRun>>

request  == <<prompt, task, quota, plan>>
progress == <<attempt, second, used>>
observed == <<events, tested, passedGates, blind, turnsRun>>

-------------------------------------------------------------------------------
(* The shell, as far as exit codes go. codes[i] is whether segment i, when *)
(* it is run, succeeds. What is piped into runs when the piped does; what  *)
(* hands on an exit code ends the shell. Behind & it hands on another one  *)
(* (codes[0]): cmd puts %errorlevel% in before the line runs, the others   *)
(* do not wait. Nor do they for a line that ends in &.                     *)
Unawaited(line, i) ==
  \/ line[i].kind = "handsOn" /\ i > 1 /\ line[i - 1].op = "&"
  \/ line[i].op = "&" /\ i = Len(line)

AfterSegment(line, codes, i, before) ==
  LET op   == IF i = 1 THEN ";" ELSE line[i - 1].op
      runs == /\ ~before.out
              /\ \/ op = "&&" /\ before.ok
                 \/ op = "||" /\ ~before.ok
                 \/ op = "|" /\ before.ran
                 \/ op \in {";", "&"}
  IN  IF ~runs THEN [before EXCEPT !.ran = FALSE]
      ELSE [ok     |-> IF Unawaited(line, i) THEN codes[0]
                       ELSE IF line[i].kind = "handsOn" THEN before.ok ELSE codes[i],
            ran    |-> TRUE,
            out    |-> line[i].kind = "handsOn",
            passed |-> before.passed \cup (IF codes[i] THEN line[i].checks ELSE {}),
            failed |-> before.failed \cup (IF codes[i] THEN {} ELSE line[i].checks)]

Runs(line, codes) ==
  LET after[i \in 0 .. Len(line)] ==
        IF i = 0 THEN [ok |-> TRUE, ran |-> TRUE, out |-> FALSE, passed |-> {}, failed |-> {}]
        ELSE AfterSegment(line, codes, i, after[i - 1])
  IN  after[Len(line)]

(* Only checks fail.                                                       *)
Codes(line) ==
  {c \in [0 .. Len(line) -> BOOLEAN] :
     /\ \A i \in DOMAIN line : line[i].checks = {} => c[i]
     /\ (\A i \in DOMAIN line : line[i].op # "&") => c[0]}

(* The line's exit code is that of its checks, if the masking rules accept *)
(* it: no check is piped into another program, nothing follows the exit    *)
(* code that is handed on, and nothing is left behind with &. The rules    *)
(* do not look for any of this.                                            *)
ExitsSurvive(line) ==
  \A i \in DOMAIN line :
    /\ line[i].op = "|" => line[i].checks = {} /\ line[i].kind # "handsOn"
    /\ line[i].kind = "handsOn" => i = Len(line)
    /\ line[i].op # "&"

-------------------------------------------------------------------------------
(* The summaries of items a turn keeps: of their starts and of their ends. *)
Sides == {"started", "completed"}

NewTurn ==
  [seq |-> 0, lastMutation |-> 0, changed |-> {}, records |-> <<>>, asks |-> 0,
   declined |-> {}, host |-> <<>>, items |-> [s \in Sides |-> 0]]

NoVerdict == Assessed("none", "none")
NoPlan    == [route |-> [permissions |-> "none"], blocked |-> FALSE, attempts |-> <<>>]

Init ==
  /\ phase = "idle" /\ prompt = NoPrompt /\ task = [skip |-> FALSE, gates |-> {}]
  /\ quota = "unknown" /\ plan = NoPlan
  /\ attempt = 0 /\ second = FALSE /\ used = 0
  /\ turn = NewTurn /\ first = NewTurn /\ verdict = NoVerdict
  /\ events = 0 /\ tested = FALSE /\ passedGates = {} /\ blind = FALSE /\ turnsRun = 0

(* The quota is read, the plan made. Without a model in the cached catalog *)
(* both raise; a reached quota or spend limit ends the prompt here.        *)
MakePlan(p, answer, visible) ==
  LET state == QuotaState(answer)
      made  == BuildExecutionPlan(p.signals, state, visible)
  IN  /\ phase = "idle"
      /\ prompt' = p /\ quota' = state
      /\ task' = [skip |-> p.skip, gates |-> RequiredGates(p.lines)]
      /\ IF RouteExists(visible)
         THEN /\ plan' = made
              /\ phase' = IF made.blocked THEN "blocked" ELSE "planned"
         ELSE phase' = "raised" /\ UNCHANGED plan
      /\ UNCHANGED <<progress, turn, first, verdict, observed>>

(* A turn is started for the next attempt. The runner makes a new result   *)
(* for each.                                                               *)
StartTurn ==
  /\ phase' = "turn"
  /\ turn' = NewTurn
  /\ turnsRun' = turnsRun + 1

FirstAttempt ==
  /\ phase = "planned" /\ <<prompt, quota>> \in Explored
  /\ StartTurn
  /\ attempt' = 1
  /\ prompt' = NoPrompt
  /\ UNCHANGED <<task, quota, plan, second, first, used, verdict, events, tested, passedGates,
                 blind>>

(* run_turn raises: the transport fails, a timeout strikes, the user       *)
(* presses Ctrl+C twice. Nothing is judged.                                *)
TurnRaises ==
  /\ phase = "turn"
  /\ phase' = "raised" /\ turn' = NewTurn /\ first' = NewTurn
  /\ UNCHANGED <<request, progress, verdict, observed>>

-------------------------------------------------------------------------------
(* Notifications of a turn.                                                *)

Event ==
  /\ phase = "turn" /\ events < MaxEvents
  /\ events' = events + 1
  /\ UNCHANGED <<phase, request, progress, first, verdict, turnsRun>>

(* The turn after one more numbered notification, and after a change.      *)
Counted == [turn EXCEPT !.seq = @ + 1]

Changed(counted, files) ==
  /\ turn' = [counted EXCEPT !.changed = @ \cup files, !.lastMutation = turn.seq + 1]
  /\ tested' = FALSE

(* An item is summarised while there is room. Without room the turn fails, *)
(* and the item gets a number and nothing else - but the notifications     *)
(* taken with it are handled, and the end of the turn may be one of them.  *)
Room(side) == turn.items[side] < MaxItems

Listed(side) == [Counted EXCEPT !.items[side] = @ + 1]

(* A file change is started or completed: both count as a change, whether  *)
(* or not the change was allowed.                                          *)
FileItem(side, file) ==
  /\ Event
  /\ \/ Room(side) /\ Changed(Listed(side), {file}) /\ UNCHANGED blind
     \/ ~Room(side) /\ turn' = Counted /\ tested' = FALSE /\ blind' = TRUE
  /\ UNCHANGED passedGates

(* The diff of the turn is told anew; an empty one changes nothing.        *)
DiffUpdated(files) ==
  /\ Event
  /\ IF files = {} THEN turn' = Counted /\ UNCHANGED tested ELSE Changed(Counted, files)
  /\ UNCHANGED <<passedGates, blind>>

(* Anything else with a number: a message, which is summarised once, the   *)
(* start of a command.                                                     *)
OtherItem(side) ==
  /\ Event
  /\ turn' = Counted \/ (Room(side) /\ turn' = Listed(side))
  /\ UNCHANGED <<tested, passedGates, blind>>

(* Another approval is asked for in the turn.                              *)
OtherApproval ==
  /\ Event /\ CanPrompt /\ turn.asks < MaxAsks
  /\ turn' = [turn EXCEPT !.asks = @ + 1]
  /\ UNCHANGED <<tested, passedGates, blind>>

(* What the runtime cannot see: a change or a command past the limits of a *)
(* turn, and how a check ended whose exit code the shell has not kept.     *)
Blinds(command) == ~ExitsSurvive(command.inner)

(* What observers learn when a command has really run: which gates its     *)
(* run passes or fails, and whether a test has passed.                     *)
Observe(command, ran, finished) ==
  LET met == {g \in task.gates : g.name = command.name
                                   /\ SurfaceMatches(g.surface, ObservedSurface(command))}
      good == finished /\ ran.ok /\ ran.failed = {}
  IN  /\ passedGates' = IF good THEN passedGates \cup met ELSE passedGates \ met
      /\ tested' = (tested \/ (finished /\ "TEST" \in ran.passed))

Record(command, exit, text) ==
  [name |-> command.name, surface |-> ObservedSurface(command),
   cats |-> CommandCategories(command), masked |-> IsCommandMasked(command),
   exit |-> exit, text |-> text, stream |-> text, seq |-> turn.seq + 1]

(* A command that has ended is kept if there is room for it.               *)
RoomForCommand == Room("completed") /\ Len(turn.records) < MaxCommands

Append1(record) == [Listed("completed") EXCEPT !.records = Append(@, record)]

ExitOf(ran) == IF ran.ok THEN "zero" ELSE "nonzero"

(* A failing command leaves something in its output, one that succeeds     *)
(* nothing that matters.                                                   *)
TextsOf(ran) == IF ran.failed = {} THEN {{}} ELSE Texts

(* Mutant: what the user has refused is offered again.                     *)
OfferDueAgain(record, command) ==
  Eligible(record, plan.route.permissions) /\ turn.asks < MaxAsks

(* item/completed of a command. A check the sandbox stopped is offered to  *)
(* the user, unless the user has been asked too often or has refused this  *)
(* command in this turn.                                                   *)
OfferDue(record, command) ==
  /\ Eligible(record, plan.route.permissions)
  /\ turn.asks < MaxAsks
  /\ command \notin turn.declined

CommandCompleted(command, codes, text) ==
  LET ran    == Runs(command.inner, codes)
      record == Record(command, ExitOf(ran), text)
  IN  /\ Event
      /\ RoomForCommand /\ ~OfferDue(record, command)
      /\ turn' = Append1(record)
      /\ Observe(command, ran, TRUE) /\ blind' = (blind \/ Blinds(command))

(* Past the limits nothing is kept, and nobody asked.                      *)
CommandDropped(command, codes, finished) ==
  /\ Event
  /\ ~RoomForCommand
  /\ turn' = IF Room("completed") THEN Listed("completed") ELSE Counted
  /\ Observe(command, Runs(command.inner, codes), finished) /\ blind' = TRUE

(* One that ended without an exit code.                                    *)
CommandCutShort(command) ==
  /\ Event
  /\ RoomForCommand
  /\ turn' = Append1(Record(command, "none", {}))
  /\ Observe(command, Runs(<<>>, <<>>), FALSE) /\ UNCHANGED blind

OfferDeclined(command, codes, text) ==
  LET ran    == Runs(command.inner, codes)
      record == Record(command, ExitOf(ran), text)
  IN  /\ Event
      /\ RoomForCommand /\ OfferDue(record, command)
      /\ turn' = [Append1(record) EXCEPT !.declined = @ \cup {command},
                                         !.asks = IF CanPrompt THEN @ + 1 ELSE @]
      /\ Observe(command, ran, TRUE) /\ blind' = (blind \/ Blinds(command))

(* What the command does on the host replaces the exit code and the text   *)
(* of the record, which keeps its number. Cut short there, it counts as    *)
(* failed, with a note in place of an output that is empty.                *)
OfferAccepted(command, codes, text, again, finished, newText) ==
  LET record == Record(command, ExitOf(Runs(command.inner, codes)), text)
      host   == Runs(command.inner, again)
      rerun  == [record EXCEPT !.exit = IF finished THEN ExitOf(host) ELSE "nonzero",
                               !.text = newText]
  IN  /\ Event /\ CanPrompt
      /\ RoomForCommand /\ OfferDue(record, command)
      /\ turn' = [Append1(rerun) EXCEPT !.asks = @ + 1, !.host = Append(@, command)]
      /\ Observe(command, host, finished) /\ blind' = (blind \/ Blinds(command))

(* Output that arrives after item/completed: the record gets what the      *)
(* stream has shown, whatever its text has been replaced by.               *)
LateDelta(i, more) ==
  /\ Event
  /\ turn' = [turn EXCEPT !.records[i].stream = @ \cup more,
                          !.records[i].text = turn.records[i].stream \cup more]
  /\ UNCHANGED <<tested, passedGates, blind>>

-------------------------------------------------------------------------------
(* run_turn returns: the turn has a status, and the user may have pressed  *)
(* Ctrl+C once in it whatever that is. What follows up to the next turn is *)
(* one step: nothing else happens meanwhile.                               *)
Statuses == {"completed", "failed", "interrupted"}
Answers  == {"none", "given", "unresolved"}

Returns(status, stop) ==
  /\ phase = "turn"
  /\ used' = used + 1

(* Why there should be another attempt, given what the answer and the      *)
(* error may be.                                                           *)
Reasons(status) == {EscalationReason(status, a, i) : a \in Answers, i \in BOOLEAN}

MoreAttempts(reason) == reason # "none" /\ attempt < Len(plan.attempts)

(* Nothing is kept of the turn but its files.                              *)
Escalate(status, stop, reason) ==
  /\ Returns(status, stop) /\ ~second
  /\ MoreAttempts(reason)
  /\ attempt' = attempt + 1
  /\ StartTurn
  /\ tested' = FALSE /\ passedGates' = {} /\ blind' = FALSE
  /\ UNCHANGED <<request, second, first, verdict, events>>

Stopped(status, stop) == status = "interrupted" \/ stop

Assessment(changed, records, lastMutation, stopped) ==
  IF stopped
  THEN ApplyRequired(Assessed("INTERRUPTED", "INTERRUPTED"), task.gates, records)
  ELSE AssessTurn(changed, records, lastMutation, second, task.skip, quota, task.gates)

(* What a stopped turn has shown counts for nothing.                       *)
ObserveEnd(stopped) ==
  /\ tested' = (tested /\ ~stopped)
  /\ UNCHANGED <<events, passedGates, blind, turnsRun>>

(* The prompt is through; nothing reads the turns' results any more.       *)
Finish == phase' = "done" /\ turn' = NewTurn /\ first' = NewTurn

(* The last attempt is judged. A completed turn that lacks evidence is     *)
(* worth another one.                                                      *)
Judge(status, stop, reason) ==
  LET made == Assessment(turn.changed, turn.records, turn.lastMutation, Stopped(status, stop))
  IN  /\ Returns(status, stop) /\ ~second
      /\ ~MoreAttempts(reason)
      /\ verdict' = made
      /\ IF made.continue /\ status = "completed" /\ quota \notin {"reached", "hard_stop", "stop"}
         THEN phase' = "unproven" /\ UNCHANGED <<turn, first>>
         ELSE Finish
      /\ ObserveEnd(Stopped(status, stop))
      /\ UNCHANGED <<request, attempt, second>>

(* Mutant: the second turn is judged as a first one.                       *)
ContinueAsFirst ==
  /\ phase = "unproven"
  /\ StartTurn
  /\ first' = turn
  /\ UNCHANGED <<request, attempt, second, used, verdict, events, tested, passedGates,
                 blind>>

(* One more turn, in the same thread, that asks for the evidence.          *)
Continue ==
  /\ phase = "unproven"
  /\ StartTurn
  /\ second' = TRUE
  /\ first' = turn
  /\ UNCHANGED <<request, attempt, used, verdict, events, tested, passedGates,
                 blind>>

(* Both turns are judged as one: the numbers of the second follow those of *)
(* the first.                                                              *)
Shifted(records) == [i \in DOMAIN records |-> [records[i] EXCEPT !.seq = @ + first.seq]]

CombinedMutation ==
  IF turn.lastMutation > 0 THEN turn.lastMutation + first.seq ELSE first.lastMutation

JudgeBoth(status, stop) ==
  /\ Returns(status, stop) /\ second
  /\ verdict' = Assessment(first.changed \cup turn.changed,
                           first.records \o Shifted(turn.records), CombinedMutation,
                           Stopped(status, stop))
  /\ Finish
  /\ ObserveEnd(Stopped(status, stop))
  /\ UNCHANGED <<request, attempt, second>>

Notification ==
  \/ \E s \in Sides, f \in Files : FileItem(s, f)
  \/ \E fs \in {{}, Files} : DiffUpdated(fs)
  \/ \E s \in Sides : OtherItem(s)
  \/ OtherApproval
  \/ \E c \in Commands : CommandCutShort(c)
  \/ \E c \in Commands, finished \in BOOLEAN : \E codes \in Codes(c.inner) :
       CommandDropped(c, codes, finished)
  \/ \E c \in Commands : \E codes \in Codes(c.inner) : \E text \in TextsOf(Runs(c.inner, codes)) :
       \/ CommandCompleted(c, codes, text)
       \/ OfferDeclined(c, codes, text)
       \/ \E again \in Codes(c.inner), finished \in BOOLEAN :
            \E new \in IF finished THEN TextsOf(Runs(c.inner, again)) ELSE Texts \cup {{"TIMEOUT"}} :
              OfferAccepted(c, codes, text, again, finished, new)
  \/ \E i \in DOMAIN turn.records, more \in Texts : LateDelta(i, more)

TurnEnds ==
  \/ TurnRaises
  \/ \E s \in Statuses, stop \in BOOLEAN :
       \/ JudgeBoth(s, stop)
       \/ \E reason \in Reasons(s) :
            \/ Escalate(s, stop, reason)
            \/ Judge(s, stop, reason)

Execute ==
  \/ \E p \in Prompts, a \in QuotaAnswers, m \in Catalogs : MakePlan(p, a, m)
  \/ FirstAttempt
  \/ Continue

Next == Execute \/ Notification \/ TurnEnds

Spec == Init /\ [][Next]_vars

-------------------------------------------------------------------------------
(* Properties.                                                             *)

(* VERIFIED is earned: after the last change of the judged turns a test    *)
(* has really passed, the newest run of every demanded gate has passed,    *)
(* and neither turn was interrupted - unless a change or a command went    *)
(* past the limits of a turn, or a command ran whose line loses an exit    *)
(* code where the masking rules do not look: of these the code knows       *)
(* nothing. (verification_gate.py: masked exit codes, evidence strictly    *)
(* after the last mutation; cx2_runtime.py: the numbers of two turns made  *)
(* one.)                                                                   *)
VerifiedIsEarned ==
  verdict.status = "VERIFIED" /\ phase = "done" /\ ~blind =>
    tested /\ task.gates \subseteq passedGates

(* Turns are bounded and accounted for: every turn that returned is        *)
(* counted, there is at most one beyond the plan's attempts, and that one  *)
(* follows the last attempt, and a change. (execute_prompt: MAX 1.)        *)
OneContinuation ==
  /\ turnsRun = used + (IF phase = "turn" \/ (phase = "raised" /\ turnsRun > 0) THEN 1 ELSE 0)
  /\ turnsRun <= Len(plan.attempts) + 1
  /\ second => turnsRun = attempt + 1
  /\ second /\ phase = "turn" => first.changed # {}

(* What runs outside the sandbox is asked for, each time: a host run is    *)
(* the user's answer to one more question, within the turn's limit of      *)
(* questions, for a command this user has not refused in this turn.        *)
(* (turn_runner.py: _handle_bounded_verification_offer.)                   *)
HostRunsAreAsked ==
  [][Len(turn'.host) > Len(turn.host) =>
       /\ plan.route.permissions = ":read-only"
       /\ turn'.asks = turn.asks + 1 /\ turn'.asks <= MaxAsks
       /\ Last(turn'.host) \notin turn.declined]_vars

(* A plan climbs: each attempt is of a stronger tier than the one before,  *)
(* none is one the unrestricted chain lacks, and a worse quota state never *)
(* adds one. A spent quota plans nothing. (budget_adapter.py.)             *)
PlansClimb ==
  phase \in {"planned", "blocked"} =>
    LET tier      == plan.route.tier
        tiers     == ToSet([i \in DOMAIN plan.attempts |-> plan.attempts[i].tier])
        chain(st) == ToSet(BudgetGuardChain(tier, EscalationChain(tier), st))
        states    == <<"normal", "conserve", "critical", "emergency">>
    IN  /\ (phase = "blocked") <=> plan.attempts = <<>>
        /\ \A i, j \in DOMAIN plan.attempts :
             i < j => TierRank[plan.attempts[i].tier] < TierRank[plan.attempts[j].tier]
        /\ tiers \subseteq ToSet(EscalationChain(tier))
        /\ \A i \in DOMAIN states :
             quota = states[i] => \A j \in 1..i : tiers \subseteq chain(states[j])

(* One more sign of risk in a prompt.                                      *)
Riskier(s) ==
  {[s EXCEPT !.critical = @ + 1], [s EXCEPT !.structural = @ + 1], [s EXCEPT !.rootCause = @ + 1],
   [s EXCEPT !.refactor = TRUE], [s EXCEPT !.write = TRUE], [s EXCEPT !.broad = TRUE],
   [s EXCEPT !.defect = TRUE], [s EXCEPT !.planMarker = TRUE], [s EXCEPT !.dirty = TRUE]}
    \cup {[s EXCEPT !.sensitive = @ \cup {l}] : l \in DOMAIN SensitiveWeight}
    \cup {[s EXCEPT !.surfaces = @ \cup {x}] : x \in {"backend", "mobile"}}
    \cup {[s EXCEPT !.gates = @ \cup {x}] : x \in {"test", "lint"}}

(* The rules interact (one replaces another, a dominating sign raises the  *)
(* score, a harmless question caps it): still, one more sign of risk never *)
(* gets a prompt a weaker model to begin with. (cx.py: classify.)          *)
MoreRiskNeverCheaper ==
  phase \in {"planned", "blocked"} =>
    \A s \in Riskier(prompt.signals) :
      TierRank[Classify(s).tier] >= TierRank[plan.route.tier]
=============================================================================
