----------------------------- MODULE Verification -----------------------------
(* What the runtime concludes from the commands and file changes of a      *)
(* turn: runtime/cx2/verification_gate.py (kinds of files and commands,    *)
(* masked exit codes, the outcome of one command, the assessment of one or *)
(* two turns) and runtime/cx2/required_verification.py (the gates a prompt *)
(* demands and what the commands make of them).                            *)
(*                                                                         *)
(* The functions are pure. A text is the set of pattern classes the code's *)
(* patterns find in it; a path is a sequence of names.                     *)
EXTENDS Integers, Sequences, FiniteSets, SequencesExt

NoOne == "none"

(* The categories in the order in which the code asks for them.            *)
CategoryOrder == <<"TEST", "TYPECHECK", "LINT", "BUILD">>
Categories    == ToSet(CategoryOrder)

(* Signs of an obstacle outside the project, in the code's order.          *)
BlockOrder == <<"ENVIRONMENT_INIT_FAILED", "WORKSPACE_WRITE_REQUIRED",
                "EXECUTABLE_NOT_FOUND", "SANDBOX_DENIED", "TIMEOUT">>

(* The first of an order that is in a set.                                 *)
FirstIn(order, set, default) ==
  LET found == {i \in DOMAIN order : order[i] \in set}
  IN  IF found = {} THEN default ELSE order[CHOOSE i \in found : \A j \in found : i <= j]

-------------------------------------------------------------------------------
(* Files.                                                                  *)

(* What a path can show, in the order in which it counts: a test directory *)
(* before a build file's name, that before the extension.                  *)
FileTraits == <<"TEST_CODE", "CONFIG_BUILD", "DOCS_ONLY", "SOURCE_CODE">>

FileCategory(traits) == FirstIn(FileTraits, traits, "OTHER")

DominantCategory(kinds) ==
  IF kinds = {"DOCS_ONLY"} THEN "DOCS_ONLY"
  ELSE FirstIn(<<"SOURCE_CODE", "TEST_CODE", "CONFIG_BUILD">>, kinds, "OTHER")

-------------------------------------------------------------------------------
(* Commands. A line is a sequence of segments [checks, kind, op]: the      *)
(* categories its words match, whether it is a word the masking rules look *)
(* for, and the operator that follows it.                                  *)

(* The kinds of segment are "check"; "handsOn", which is exit $LASTEXITCODE
   and its kin; "filter", a pipe target on the code's list (head, tail, grep,
   tee-object, true, ...; exit is on it as well); and "other".              *)
LineMasked(line) ==
  \E i \in DOMAIN line :
    \/ line[i].op = "||"
    \/ /\ line[i].op \in {";", "&"} /\ i < Len(line)
       /\ line[i + 1].kind # "handsOn"
    \/ /\ line[i].op = "|" /\ i < Len(line)
       /\ line[i + 1].kind \in {"filter", "handsOn"}

(* Mutant: a wrapped command is not looked into.                           *)
OuterMasked(command) == LineMasked(command.line)

(* A command is the line the server runs, which may wrap another one       *)
(* (bash -c "..."): inner is that one, or the line itself. Both are        *)
(* searched.                                                               *)
IsCommandMasked(command) == LineMasked(command.line) \/ LineMasked(command.inner)

LineCategories(line) == UNION {line[i].checks : i \in DOMAIN line}

CommandCategories(command) == LineCategories(command.line) \cup LineCategories(command.inner)

(* The outcome of a recorded command: [cats, exit, masked, text, ...].     *)
Primary(record) == FirstIn(CategoryOrder, record.cats, "OTHER")

Judged(category, outcome, reason) ==
  [category |-> category, outcome |-> outcome, reason |-> reason]

(* An exit code of zero counts unless the line can hide another one; none  *)
(* is a timeout if the output says so and otherwise an interruption.       *)
ExitOutcome(record) ==
  IF record.exit = "zero"
  THEN IF record.masked THEN Judged(Primary(record), "BLOCKED", "MASKED_EXIT_CODE")
       ELSE Judged(Primary(record), "PASSED", "EXIT_SUCCESS")
  ELSE IF "TIMEOUT" \in record.text THEN Judged(Primary(record), "BLOCKED", "TIMEOUT")
       ELSE Judged(Primary(record), "INTERRUPTED", "NO_EXIT_CODE")

(* A conclusive failure in the output, looked for first in the command's   *)
(* own categories and then in the others.                                  *)
FailureOutcome(record) ==
  LET own   == FirstIn(CategoryOrder, record.text \cap record.cats, NoOne)
      other == FirstIn(CategoryOrder, record.text, NoOne)
  IN  IF own # NoOne THEN Judged(own, "FAILED", own) ELSE Judged(Primary(record), "FAILED", other)

ObstacleOutcome(record) ==
  LET obstacle == FirstIn(BlockOrder, record.text, NoOne)
  IN  IF obstacle # NoOne THEN Judged(Primary(record), "BLOCKED", obstacle)
      ELSE Judged(Primary(record), "INCONCLUSIVE", "INCONCLUSIVE_NON_ZERO_EXIT")

(* Failures count before obstacles.                                        *)
Outcome(record) ==
  IF record.exit # "nonzero" THEN ExitOutcome(record)
  ELSE IF record.text \cap Categories # {} THEN FailureOutcome(record)
  ELSE ObstacleOutcome(record)

(* Whether the user is asked to run a blocked check outside the sandbox.   *)
Eligible(record, permissions) ==
  /\ permissions = ":read-only"
  /\ Outcome(record).outcome = "BLOCKED"
  /\ Outcome(record).reason \in {"SANDBOX_DENIED", "WORKSPACE_WRITE_REQUIRED"}
  /\ record.cats # {}

-------------------------------------------------------------------------------
(* The gates a prompt demands. A prompt's lines are                        *)
(*   [is |-> "section"], [is |-> "header"] (another heading),              *)
(*   [is |-> "surface", name], [is |-> "command", ...], [is |-> "run", ...]*)
(* ("run: <command>"), [is |-> "prose"]; a command line has a name (its    *)
(* canonical identity), a category, and whether it is refused as unsafe or *)
(* as an example.                                                          *)

Demanded(line) == ~line.refused /\ line.category \in Categories

Gate(surface, line) == [surface |-> surface, name |-> line.name]

ReadLine(state, line) ==
  LET takes(surface) ==
        IF Demanded(line) THEN [state EXCEPT !.gates = @ \cup {Gate(surface, line)}] ELSE state
  IN  CASE line.is = "section" -> [state EXCEPT !.inside = TRUE, !.surface = <<"root">>]
        [] line.is = "header"  -> [state EXCEPT !.inside = FALSE]
        [] line.is = "surface" -> IF state.inside THEN [state EXCEPT !.surface = line.name] ELSE state
        [] line.is = "command" -> IF state.inside THEN takes(state.surface) ELSE state
        [] line.is = "run"     -> IF state.inside THEN state ELSE takes(<<"root">>)
        [] OTHER               -> state

RequiredGates(lines) ==
  FoldLeft(ReadLine, [inside |-> FALSE, surface |-> <<"root">>, gates |-> {}], lines).gates

(* Where a command ran: the last name of a directory it changes to, or the *)
(* first name below the repository root of the directory the server gives. *)
ObservedSurface(command) ==
  IF command.cd # <<>> THEN Last(command.cd)
  ELSE IF command.cwd # <<>> THEN command.cwd[1] ELSE "root"

(* A demanded surface is a sequence of names: mobile/root is               *)
(* <<"mobile", "root">>. Its first name is enough, and the root's gates    *)
(* are met in the mobile directory as well.                                *)
SurfaceMatches(required, observed) ==
  \/ required[1] = observed
  \/ /\ required \in {<<"mobile", "root">>, <<"root">>, <<".">>, <<"all">>}
     /\ observed \in {"root", "mobile"}

(* What the commands make of a gate: the newest that matches decides.      *)
GateOutcome(gate, records) ==
  LET runs == {i \in DOMAIN records :
                 /\ records[i].name = gate.name
                 /\ SurfaceMatches(gate.surface, records[i].surface)}
      newest == CHOOSE i \in runs :
                  \A j \in runs : \/ records[j].seq < records[i].seq
                                  \/ records[j].seq = records[i].seq /\ j <= i
  IN  IF runs = {} THEN "MISSING" ELSE Outcome(records[newest]).outcome

CoverageOrder == <<"INTERRUPTED", "FAILED", "BLOCKED", "INCONCLUSIVE">>

(* The worst of the gates; missing ones count last.                        *)
Coverage(gates, records, interrupted) ==
  LET outcomes == {GateOutcome(g, records) : g \in gates}
      worst    == FirstIn(CoverageOrder, outcomes, NoOne)
  IN  IF interrupted THEN "INTERRUPTED"
      ELSE IF worst # NoOne THEN worst
      ELSE IF outcomes = {"MISSING"} THEN "UNVERIFIED"
      ELSE IF "MISSING" \in outcomes THEN "PARTIALLY_PASSED" ELSE "ALL_PASSED"

-------------------------------------------------------------------------------
(* The assessment: [status, reason, continue, audit].                      *)

Assessed(status, reason) ==
  [status |-> status, reason |-> reason, continue |-> FALSE, audit |-> "none"]

(* The demanded gates can only lower a verdict. (An exception in their     *)
(* evaluation is swallowed; the model has none.)                           *)
ApplyRequired(base, gates, records) ==
  LET coverage == Coverage(gates, records, base.status = "INTERRUPTED")
      lowered(status, reason) == [base EXCEPT !.status = status, !.reason = reason]
  IN  IF gates = {} THEN base
      ELSE CASE coverage = "FAILED" -> lowered("FAILED", "REQUIRED_GATE_FAILED")
             [] coverage = "BLOCKED" /\ base.status # "FAILED" ->
                  lowered("BLOCKED", "REQUIRED_GATE_BLOCKED")
             [] coverage = "INTERRUPTED" -> lowered("INTERRUPTED", "INTERRUPTED")
             [] coverage \in {"PARTIALLY_PASSED", "INCONCLUSIVE", "UNVERIFIED"}
                  /\ base.status = "VERIFIED" ->
                  lowered("PARTIALLY_VERIFIED", "REQUIRED_GATES_INCOMPLETE")
             [] OTHER -> base

(* Commands that count as evidence: those after the last change.           *)
Evidence(records, lastMutation) ==
  {Outcome(records[i]) : i \in {j \in DOMAIN records : records[j].seq > lastMutation}}

Passed(evidence, cats) == \E o \in evidence : o.outcome = "PASSED" /\ o.category \in cats
Shows(evidence, outcome) == \E o \in evidence : o.outcome = outcome

(* A second turn is the last word: what it lacks is said, not asked for.   *)
FinalVerdict(evidence) ==
  IF Shows(evidence, "FAILED") THEN Assessed("FAILED", "TEST_FAILED_AFTER_CONTINUATION")
  ELSE IF Shows(evidence, "BLOCKED")
       THEN Assessed("BLOCKED", "VERIFICATION_BLOCKED_AFTER_CONTINUATION")
  ELSE IF Shows(evidence, "INCONCLUSIVE") THEN Assessed("UNVERIFIED", "INCONCLUSIVE_VERIFICATION")
  ELSE Assessed("UNVERIFIED", "NO_VALIDATION_IN_CONTINUATION")

(* A first turn without a passing test asks for a second one.              *)
FirstVerdict(quotaState) ==
  IF quotaState \in {"reached", "hard_stop", "stop"} THEN Assessed("UNVERIFIED", "QUOTA_HARD_STOP")
  ELSE [Assessed("UNVERIFIED", "CONTINUATION_REQUIRED") EXCEPT !.continue = TRUE]

(* The verdict on changed code.                                            *)
JudgeChange(kind, evidence, second, quotaState) ==
  LET static == Passed(evidence, {"TYPECHECK", "BUILD"})
  IN  IF Passed(evidence, {"TEST"}) THEN Assessed("VERIFIED", "VERIFIED_TEST_PASSED")
      ELSE IF static /\ kind = "CONFIG_BUILD"
           THEN Assessed("PARTIALLY_VERIFIED", "PARTIALLY_VERIFIED_BUILD_PASSED")
      ELSE IF static /\ second
           THEN Assessed("PARTIALLY_VERIFIED", "PARTIALLY_VERIFIED_STATIC_PASSED")
      ELSE IF second THEN FinalVerdict(evidence) ELSE FirstVerdict(quotaState)

(* What a turn that changed nothing says of the project: no check open,    *)
(* some conclusive, or none. A check cut short counts for neither.         *)
AuditStatus(records) ==
  LET checks     == {i \in DOMAIN records : records[i].cats # {}}
      of(outs)   == {i \in checks : Outcome(records[i]).outcome \in outs}
      conclusive == of({"PASSED", "FAILED"})
      open       == of({"BLOCKED", "INCONCLUSIVE"})
  IN  IF conclusive = {} THEN "UNVERIFIED"
      ELSE IF open # {} THEN "PARTIAL" ELSE "COMPLETE"

AssessCore(changed, records, lastMutation, second, skip, quotaState) ==
  LET kind == DominantCategory({FileCategory(f) : f \in changed})
  IN  IF skip THEN Assessed("UNVERIFIED", "USER_REQUESTED_SKIP")
      ELSE IF changed = {} THEN [Assessed("NOT_APPLICABLE", "NO_MUTATION") EXCEPT !.audit = AuditStatus(records)]
      ELSE IF kind = "DOCS_ONLY" THEN Assessed("NOT_APPLICABLE", "DOCS_ONLY_MUTATION")
      ELSE JudgeChange(kind, Evidence(records, lastMutation), second, quotaState)

AssessTurn(changed, records, lastMutation, second, skip, quotaState, gates) ==
  ApplyRequired(AssessCore(changed, records, lastMutation, second, skip, quotaState),
                gates, records)
=============================================================================
