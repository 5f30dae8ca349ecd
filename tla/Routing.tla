------------------------------- MODULE Routing --------------------------------
(* From a prompt to the attempts it may take: the risk engine              *)
(* (src/src/cx.py: classify), the budget guard on the account's quota      *)
(* (quota_budget_state, budget_guard_chain), the choice of a model, the    *)
(* sandbox compatibility rule and the plan the runtime executes            *)
(* (router_adapter.build_route, budget_adapter.build_execution_plan).      *)
(*                                                                         *)
(* The functions are pure. A prompt is what the rules' patterns find in    *)
(* it (a record of flags, counts and label sets), never its text.          *)
EXTENDS Integers, Sequences, FiniteSets, FiniteSetsExt, SequencesExt, Lists

CONSTANTS
  Policy,        \* the parsed policy file
  Slugs,         \* every model slug there is, in the order sorted() gives
  FragileHost    \* win32 with the validated Codex CLI version

Tiers == {"routine", "standard", "deep"}

TierRank == [routine |-> 1, standard |-> 2, deep |-> 3]

(* The policy file shipped with the repository.                            *)
ExamplePolicy ==
  [models    |-> [routine  |-> <<"luna", "terra", "sol">>,
                  standard |-> <<"terra", "sol", "luna">>,
                  deep     |-> <<"sol", "terra", "luna">>],
   routineMax |-> 1, deepMin |-> 7,
   escalate   |-> {"turn-failed", "missing-final-response", "explicit-unresolved"},
   maxAttempts |-> 3, budgetOn |-> TRUE,
   chains     |-> [routine |-> <<"routine", "standard", "deep">>,
                   standard |-> <<"standard", "deep">>, deep |-> <<"deep">>],
   thresholds |-> [conserve |-> 70, critical |-> 85, emergency |-> 95, reached |-> 100],
   guard |->
     [normal    |-> [routine |-> <<"routine", "standard", "deep">>,
                     standard |-> <<"standard", "deep">>, deep |-> <<"deep">>],
      conserve  |-> [routine |-> <<"routine", "standard">>,
                     standard |-> <<"standard", "deep">>, deep |-> <<"deep">>],
      critical  |-> [routine |-> <<"routine">>, standard |-> <<"standard">>, deep |-> <<"deep">>],
      emergency |-> [routine |-> <<"routine">>, standard |-> <<"standard">>, deep |-> <<"deep">>]]]

ASSUME PolicyAssumption ==
  /\ Policy.routineMax \in Int /\ Policy.deepMin \in Int /\ Policy.maxAttempts \in Int
  /\ Policy.routineMax < Policy.deepMin
  /\ \A t \in Tiers : Policy.chains[t] \in Seq(Tiers) /\ Policy.chains[t] # <<>>
  /\ \A s \in DOMAIN Policy.guard : \A t \in Tiers : Policy.guard[s][t] \in Seq(Tiers)

-------------------------------------------------------------------------------
(* The prompt, as the rules see it.                                        *)

SensitiveWeight ==
  [auth |-> 2, productionMigration |-> 5, migration |-> 3, deployment |-> 3,
   secret |-> 2, dependency |-> 1]

(* What the rules can find in a prompt: a count is of the rules that match. *)
Signals ==
  [readOnly : BOOLEAN, write : BOOLEAN,
   critical : Nat, structural : Nat, refactor : BOOLEAN, rootCause : Nat,
   analysis : BOOLEAN, domains : Nat, length : Nat,
   broad : BOOLEAN, audit : BOOLEAN, defect : BOOLEAN, routine : Nat,
   sensitive : SUBSET DOMAIN SensitiveWeight, surfaces : SUBSET {"backend", "mobile", "web"},
   planMarker : BOOLEAN, implVerb : BOOLEAN,
   gates : SUBSET {"test", "lint", "typecheck", "build"}, verify : BOOLEAN,
   verifyNegated : BOOLEAN, docContext : BOOLEAN, formatting : BOOLEAN,
   monorepo : BOOLEAN, size : {"small", "medium", "large"}, dirty : BOOLEAN]

(* A prompt in which no rule finds anything, in a small clean repository.  *)
PlainPrompt ==
  [readOnly |-> FALSE, write |-> FALSE,
   critical |-> 0, structural |-> 0, refactor |-> FALSE, rootCause |-> 0,
   analysis |-> FALSE, domains |-> 0, length |-> 0,
   broad |-> FALSE, audit |-> FALSE, defect |-> FALSE, routine |-> 0,
   sensitive |-> {}, surfaces |-> {}, planMarker |-> FALSE, implVerb |-> FALSE,
   gates |-> {}, verify |-> FALSE, verifyNegated |-> FALSE, docContext |-> FALSE,
   formatting |-> FALSE,
   monorepo |-> FALSE, size |-> "small", dirty |-> FALSE]

FirstOr(seq, default) == IF seq = <<>> THEN default ELSE seq[1]

If(cond, n) == IF cond THEN n ELSE 0

(* Write intent: a global read-only phrase beats every write verb.         *)
Mutating(p) == ~p.readOnly /\ p.write

(* Mutant: the refactoring rule replaces the structural one.               *)
RefactorFirst(p) ==
  4 * p.critical + (IF p.refactor THEN 2 ELSE 3 * p.structural)
    + 2 * p.rootCause + If(p.analysis, 2) + Min({3, p.domains}) + p.length

LexicalPoints(p) ==
  4 * p.critical + 3 * p.structural + If(p.refactor /\ p.structural = 0, 2)
    + 2 * p.rootCause + If(p.analysis, 2) + Min({3, p.domains}) + p.length

(* A whole-project audit: broad, looking for something, nothing routine.   *)
BroadAudit(p) == p.broad /\ (p.audit \/ p.defect) /\ p.routine = 0

ScopePoints(p) == If(p.broad, 3) + If(BroadAudit(p), 4)

(* A production migration is not counted once more as a migration.         *)
SensitivePoints(p) ==
  LET labels == IF "productionMigration" \in p.sensitive
                THEN p.sensitive \ {"migration"} ELSE p.sensitive
      weight(l) == If(l \in labels, SensitiveWeight[l])
  IN  IF Mutating(p)
      THEN weight("auth") + weight("productionMigration") + weight("migration")
             + weight("deployment") + weight("secret") + weight("dependency")
      ELSE 0

MultiSurface(p)  == Cardinality(p.surfaces) >= 2
PlanReconcile(p) == p.planMarker /\ p.implVerb /\ Mutating(p)
Matrix(p) ==
  Cardinality(p.gates) >= 2 /\ p.verify /\ ~p.verifyNegated /\ ~p.docContext

SurfaceVerification(p) == MultiSurface(p) /\ Matrix(p) /\ Mutating(p)

RepoWide(p) ==
  /\ p.broad /\ Mutating(p) /\ ~p.formatting
  /\ MultiSurface(p) \/ PlanReconcile(p) \/ Matrix(p)

ShapePoints(p) ==
  If(MultiSurface(p), IF Mutating(p) THEN 2 ELSE 1) + If(PlanReconcile(p), 2)
    + If(Matrix(p), 2) + If(SurfaceVerification(p), 2) + If(RepoWide(p), 2)

CompositeDeep(p) == SurfaceVerification(p) \/ RepoWide(p)

RepoPoints(p) ==
  If(p.monorepo, 1) + If(p.size = "large", 2) + If(p.size = "medium", 1) + If(p.dirty, 1)

RoutineReduction(p) == Min({3, p.routine})

(* The sum, never below zero, raised by a dominating signal to the deep    *)
(* threshold and, for a harmless question, capped below it.                *)
Score(p) ==
  LET sum == LexicalPoints(p) + ScopePoints(p) + SensitivePoints(p) + ShapePoints(p)
               + RepoPoints(p) - RoutineReduction(p)
      dominated == p.critical > 0 \/ BroadAudit(p) \/ CompositeDeep(p)
      raised == Max({0, sum} \cup (IF dominated THEN {Policy.deepMin} ELSE {}))
  IN  IF ~Mutating(p) /\ p.critical = 0 /\ ~BroadAudit(p)
      THEN Min({raised, Policy.deepMin - 1}) ELSE raised

Classify(p) ==
  [tier     |-> IF Score(p) <= Policy.routineMax THEN "routine"
                ELSE IF Score(p) >= Policy.deepMin THEN "deep" ELSE "standard",
   mutating |-> Mutating(p),
   sandbox  |-> IF Mutating(p) THEN "workspace-write" ELSE "read-only"]

(* What the sandbox is in effect: on the host where workspace-write hangs, *)
(* a write task runs read-only and asks for each change.                   *)
EffectiveSandbox(sandbox) ==
  IF FragileHost /\ sandbox = "workspace-write" THEN "read-only" ELSE sandbox

PermissionProfile(sandbox) == IF sandbox = "read-only" THEN ":read-only" ELSE ":workspace"

-------------------------------------------------------------------------------
(* Quota.                                                                  *)

Windows == {"primary", "secondary"}

(* The state of a bucket: used is the percentage used, or -1 when the      *)
(* server does not say; reached, that it names a limit that is reached or  *)
(* says the spend control is.                                              *)
BudgetState(used, reached) ==
  LET met == SelectSeq(<<"reached", "emergency", "critical", "conserve">>,
                       LAMBDA s : used >= Policy.thresholds[s])
  IN  IF ~Policy.budgetOn THEN "normal"
      ELSE IF reached THEN "reached"
      ELSE IF used < 0 THEN "unknown"
      ELSE FirstOr(met, "normal")

(* What the runtime makes of account/rateLimits/read: the fullest window   *)
(* counts. A call that fails, or an answer without a bucket, is unknown.   *)
QuotaState(answer) ==
  IF ~answer.bucket THEN "unknown"
  ELSE BudgetState(Max({answer.used[w] : w \in Windows}), answer.reached)

(* The tiers an unrestricted prompt may climb through.                     *)
EscalationChain(tier) ==
  LET chain == Policy.chains[tier]
  IN  SubSeq(chain, 1, Min({Len(chain), Max({1, Policy.maxAttempts})}))

(* Mutant: a guard's chain of one tier is taken for an empty one.          *)
LooseGuardChain(tier, base, state) ==
  IF state \in {"unknown", "reached"} THEN base
  ELSE LET left == Keep(Policy.guard[state][tier], ToSet(base))
       IN  IF Len(left) <= 1 THEN base ELSE left

(* The same under a quota state: what the guard's chain leaves of it.      *)
BudgetGuardChain(tier, base, state) ==
  IF state \in {"unknown", "reached"} \/ state \notin DOMAIN Policy.guard THEN base
  ELSE LET left == Keep(Policy.guard[state][tier], ToSet(base))
       IN  IF left = <<>> THEN <<base[1]>> ELSE left

(* The first preferred model the account shows, else the first it shows.   *)
ChooseModel(tier, visible) ==
  LET shown(m) == m \in visible
  IN  FirstOr(SelectSeq(Policy.models[tier], shown), SelectSeq(Slugs, shown)[1])

(* A route needs a model, blocked or not: the cached catalog is not empty. *)
RouteExists(visible) == visible # {}

BuildRoute(p) ==
  LET class == Classify(p)
  IN  [tier        |-> class.tier,
       sandbox     |-> class.sandbox,
       mutating    |-> class.mutating,
       permissions |-> PermissionProfile(EffectiveSandbox(class.sandbox))]

(* The plan of a prompt: blocked, or the attempts in order. What an        *)
(* attempt may touch is the route's, whatever its tier.                    *)
BuildExecutionPlan(p, state, visible) ==
  LET route == BuildRoute(p)
      chain == BudgetGuardChain(route.tier, EscalationChain(route.tier), state)
  IN  [route    |-> route,
       blocked  |-> state = "reached",
       attempts |-> IF state = "reached" THEN <<>>
                    ELSE [i \in DOMAIN chain |->
                           [tier |-> chain[i], model |-> ChooseModel(chain[i], visible),
                            permissions |-> route.permissions]]]

-------------------------------------------------------------------------------
(* Why the next attempt is made. status is the turn's, answer its final    *)
(* text: none, one, one that says the work is not done; infrastructure,    *)
(* that error or answer speak of a sandbox, a permission, a quota, ...     *)
EscalationReason(status, answer, infrastructure) ==
  LET reasons == <<"turn-failed", "missing-final-response", "explicit-unresolved">>
      holds   == (IF status = "failed" THEN {reasons[1]} ELSE {})
                   \cup (IF answer = "none" THEN {reasons[2]} ELSE {})
                   \cup (IF answer = "unresolved" THEN {reasons[3]} ELSE {})
  IN  IF infrastructure THEN "none"
      ELSE FirstOr(SelectSeq(reasons, LAMBDA r : r \in holds \cap Policy.escalate), "none")
=============================================================================
