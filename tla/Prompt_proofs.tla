---------------------------- MODULE Prompt_proofs ----------------------------
(***************************************************************************)
(* What holds of every prompt, whatever is asked, whatever the policy file *)
(* says, whatever the model runs and the user answers: that more risk gets *)
(* no weaker model, the types of a turn, that the host is used only with   *)
(* consent, that turns are bounded, that plans climb, and that a verdict   *)
(* of VERIFIED is earned. At the end, the run on the host that such a      *)
(* consent starts.                                                         *)
(***************************************************************************)
EXTENDS Prompt, BoundedRun, Lists_proofs

-------------------------------------------------------------------------------
(* The score of a prompt.                                                  *)

LEMMA MinOfTwo ==
  ASSUME NEW a \in Int, NEW b \in Int
  PROVE  Min({a, b}) = IF a <= b THEN a ELSE b
<1> DEFINE m == IF a <= b THEN a ELSE b
<1>1. m \in {a, b} /\ \A y \in {a, b} : m <= y
  OBVIOUS
<1>2. \A x \in {a, b} : (\A y \in {a, b} : x <= y) => x = m
  OBVIOUS
<1> QED BY <1>1, <1>2 DEF Min

LEMMA MaxOfSome ==
  ASSUME NEW S \in SUBSET Int, NEW m \in S, \A y \in S : m >= y
  PROVE  Max(S) = m
<1>1. \A x \in S : (\A y \in S : x >= y) => x = m
  OBVIOUS
<1> QED BY <1>1 DEF Max

(* The parts of Score. *)
Sum(p) ==
  LexicalPoints(p) + ScopePoints(p) + SensitivePoints(p) + ShapePoints(p) + RepoPoints(p)
    - RoutineReduction(p)

Dominated(p) == p.critical > 0 \/ BroadAudit(p) \/ CompositeDeep(p)

Harmless(p) == ~Mutating(p) /\ p.critical = 0 /\ ~BroadAudit(p)

LEMMA SumType ==
  ASSUME NEW p \in Signals
  PROVE  /\ LexicalPoints(p) \in Int /\ ScopePoints(p) \in Int /\ SensitivePoints(p) \in Int
         /\ ShapePoints(p) \in Int /\ RepoPoints(p) \in Int /\ RoutineReduction(p) \in Int
         /\ Sum(p) \in Int
<1>1. /\ p.critical \in Nat /\ p.structural \in Nat /\ p.rootCause \in Nat /\ p.domains \in Nat
      /\ p.length \in Nat /\ p.routine \in Nat
  BY DEF Signals
<1>2. Min({3, p.domains}) \in Int /\ RoutineReduction(p) \in Int
  BY <1>1, MinOfTwo DEF RoutineReduction
<1>3. LexicalPoints(p) \in Int
  BY <1>1, <1>2 DEF LexicalPoints, If
<1>4. ScopePoints(p) \in Int /\ RepoPoints(p) \in Int /\ ShapePoints(p) \in Int
  BY DEF ScopePoints, RepoPoints, ShapePoints, If
<1>5. SensitivePoints(p) \in Int
  BY DEF SensitivePoints, SensitiveWeight, If
<1> QED BY <1>2, <1>3, <1>4, <1>5 DEF Sum

(* Score without its sets: the sum, raised and capped.                     *)
LEMMA ScoreIs ==
  ASSUME NEW p \in Signals
  PROVE  LET sum    == IF Sum(p) >= 0 THEN Sum(p) ELSE 0
             raised == IF Dominated(p) /\ Policy.deepMin >= sum THEN Policy.deepMin ELSE sum
         IN  Score(p) = IF Harmless(p) /\ raised > Policy.deepMin - 1
                        THEN Policy.deepMin - 1 ELSE raised
<1> DEFINE sum    == IF Sum(p) >= 0 THEN Sum(p) ELSE 0
           raised == IF Dominated(p) /\ Policy.deepMin >= sum THEN Policy.deepMin ELSE sum
           all    == {0, Sum(p)} \cup (IF Dominated(p) THEN {Policy.deepMin} ELSE {})
<1>0. Sum(p) \in Int /\ Policy.deepMin \in Int
  BY SumType, PolicyAssumption
<1>1. Max(all) = raised
  <2>1. all \in SUBSET Int /\ raised \in all /\ \A y \in all : raised >= y
    BY <1>0
  <2> HIDE DEF all, raised
  <2> QED BY <2>1, MaxOfSome
<1>2. Score(p) = IF Harmless(p) THEN Min({Max(all), Policy.deepMin - 1}) ELSE Max(all)
  BY DEF Score, Sum, Dominated, Harmless
<1>3. raised \in Int
  BY <1>0
<1> HIDE DEF raised, all
<1>4. Min({raised, Policy.deepMin - 1}) =
        IF raised <= Policy.deepMin - 1 THEN raised ELSE Policy.deepMin - 1
  BY <1>0, <1>3, MinOfTwo
<1>5. Score(p) = IF Harmless(p) /\ raised > Policy.deepMin - 1
                 THEN Policy.deepMin - 1 ELSE raised
  BY <1>0, <1>1, <1>2, <1>3, <1>4
<1> QED BY <1>5 DEF raised

(* q has every sign of risk that p has, and is like p otherwise.           *)
SameRest(p, q) ==
  /\ p.readOnly = q.readOnly /\ p.analysis = q.analysis /\ p.domains = q.domains
  /\ p.length = q.length /\ p.audit = q.audit /\ p.routine = q.routine
  /\ p.implVerb = q.implVerb /\ p.verify = q.verify /\ p.verifyNegated = q.verifyNegated
  /\ p.docContext = q.docContext /\ p.formatting = q.formatting
  /\ p.monorepo = q.monorepo /\ p.size = q.size

MoreCounts(p, q) ==
  p.critical <= q.critical /\ p.structural <= q.structural /\ p.rootCause <= q.rootCause

MoreFlags(p, q) ==
  /\ p.refactor => q.refactor
  /\ p.write => q.write
  /\ p.broad => q.broad
  /\ p.defect => q.defect
  /\ p.planMarker => q.planMarker
  /\ p.dirty => q.dirty

MoreLabels(p, q) ==
  p.sensitive \subseteq q.sensitive /\ p.surfaces \subseteq q.surfaces /\ p.gates \subseteq q.gates

MoreSigns(p, q) == SameRest(p, q) /\ MoreCounts(p, q) /\ MoreFlags(p, q) /\ MoreLabels(p, q)

LEMMA RiskierHasMore ==
  ASSUME NEW p \in Signals, NEW q \in Riskier(p)
  PROVE  q \in Signals /\ MoreSigns(p, q)
<1>1. CASE q \in {[p EXCEPT !.critical = @ + 1], [p EXCEPT !.structural = @ + 1],
                  [p EXCEPT !.rootCause = @ + 1]}
  BY <1>1 DEF Signals, MoreSigns, SameRest, MoreCounts, MoreFlags, MoreLabels
<1>2. CASE q \in {[p EXCEPT !.refactor = TRUE], [p EXCEPT !.write = TRUE],
                  [p EXCEPT !.broad = TRUE], [p EXCEPT !.defect = TRUE],
                  [p EXCEPT !.planMarker = TRUE], [p EXCEPT !.dirty = TRUE]}
  <2>1. q \in Signals
    <3> DEFINE yes == TRUE
    <3>1. /\ yes \in BOOLEAN
          /\ q \in {[p EXCEPT !.refactor = yes], [p EXCEPT !.write = yes],
                    [p EXCEPT !.broad = yes], [p EXCEPT !.defect = yes],
                    [p EXCEPT !.planMarker = yes], [p EXCEPT !.dirty = yes]}
      BY <1>2
    <3> HIDE DEF yes
    <3> QED BY <3>1 DEF Signals
  <2>2. SameRest(p, q)
    BY <1>2 DEF Signals, SameRest
  <2>3. MoreCounts(p, q)
    BY <1>2 DEF Signals, MoreCounts
  <2>4. MoreFlags(p, q)
    BY <1>2 DEF Signals, MoreFlags
  <2>5. MoreLabels(p, q)
    BY <1>2 DEF Signals, MoreLabels
  <2> QED BY <2>1, <2>2, <2>3, <2>4, <2>5 DEF MoreSigns
<1>4. ASSUME NEW l \in DOMAIN SensitiveWeight, q = [p EXCEPT !.sensitive = @ \cup {l}]
      PROVE  q \in Signals /\ MoreSigns(p, q)
  <2> DEFINE all == p.sensitive \cup {l}
  <2>1. p.sensitive \subseteq all /\ all \in SUBSET DOMAIN SensitiveWeight
    BY DEF Signals
  <2>2. q = [p EXCEPT !.sensitive = all]
    BY <1>4
  <2> HIDE DEF all
  <2> QED BY <2>1, <2>2 DEF Signals, MoreSigns, SameRest, MoreCounts, MoreFlags, MoreLabels
<1>5. ASSUME NEW x \in {"backend", "mobile"}, q = [p EXCEPT !.surfaces = @ \cup {x}]
      PROVE  q \in Signals /\ MoreSigns(p, q)
  <2> DEFINE all == p.surfaces \cup {x}
  <2>1. p.surfaces \subseteq all /\ all \in SUBSET {"backend", "mobile", "web"}
    BY DEF Signals
  <2>2. q = [p EXCEPT !.surfaces = all]
    BY <1>5
  <2> HIDE DEF all
  <2> QED BY <2>1, <2>2 DEF Signals, MoreSigns, SameRest, MoreCounts, MoreFlags, MoreLabels
<1>6. ASSUME NEW x \in {"test", "lint"}, q = [p EXCEPT !.gates = @ \cup {x}]
      PROVE  q \in Signals /\ MoreSigns(p, q)
  <2> DEFINE all == p.gates \cup {x}
  <2>1. p.gates \subseteq all /\ all \in SUBSET {"test", "lint", "typecheck", "build"}
    BY DEF Signals
  <2>2. q = [p EXCEPT !.gates = all]
    BY <1>6
  <2> HIDE DEF all
  <2> QED BY <2>1, <2>2 DEF Signals, MoreSigns, SameRest, MoreCounts, MoreFlags, MoreLabels
<1> QED BY <1>1, <1>2, <1>4, <1>5, <1>6 DEF Riskier

LEMMA MoreShape ==
  ASSUME NEW p \in Signals, NEW q \in Signals, MoreSigns(p, q)
  PROVE  /\ Mutating(p) => Mutating(q)
         /\ BroadAudit(p) => BroadAudit(q)
         /\ MultiSurface(p) => MultiSurface(q)
         /\ PlanReconcile(p) => PlanReconcile(q)
         /\ Matrix(p) => Matrix(q)
<1>1. Mutating(p) => Mutating(q)
  BY DEF Mutating, MoreSigns, SameRest, MoreCounts, MoreFlags, MoreLabels
<1>2. BroadAudit(p) => BroadAudit(q)
  BY DEF BroadAudit, MoreSigns, SameRest, MoreCounts, MoreFlags, MoreLabels
<1>3. PlanReconcile(p) => PlanReconcile(q)
  BY <1>1 DEF PlanReconcile, MoreSigns, SameRest, MoreCounts, MoreFlags, MoreLabels
<1>4. IsFiniteSet({"backend", "mobile", "web"})
      /\ IsFiniteSet({"test", "lint", "typecheck", "build"})
  <2>1. \A a, b, c, d : IsFiniteSet(((({} \cup {a}) \cup {b}) \cup {c}) \cup {d})
    BY FS_EmptySet, FS_AddElement
  <2>2. \A a, b, c, d : ((({} \cup {a}) \cup {b}) \cup {c}) \cup {d} = {a, b, c, d}
    OBVIOUS
  <2>3. ASSUME NEW a, NEW b, NEW c, NEW d PROVE IsFiniteSet({a, b, c, d})
    <3> DEFINE S == ((({} \cup {a}) \cup {b}) \cup {c}) \cup {d}
               U == {a, b, c, d}
    <3>1. IsFiniteSet(S)
      BY <2>1
    <3>2. S = U
      BY <2>2
    <3> HIDE DEF S, U
    <3>3. IsFiniteSet(U)
      BY <3>1, <3>2
    <3> QED BY <3>3 DEF U
  <2>4. {"backend", "mobile", "web"} = {"backend", "mobile", "web", "web"}
    OBVIOUS
  <2>5. IsFiniteSet({"backend", "mobile", "web", "web"})
    BY <2>3
  <2>6. IsFiniteSet({"test", "lint", "typecheck", "build"})
    BY <2>3
  <2> QED BY <2>4, <2>5, <2>6
<1>5. /\ Cardinality(p.surfaces) \in Nat /\ Cardinality(q.surfaces) \in Nat
      /\ Cardinality(p.surfaces) <= Cardinality(q.surfaces)
  <2>1. IsFiniteSet(q.surfaces) /\ p.surfaces \in SUBSET q.surfaces
    BY <1>4, FS_Subset DEF Signals, MoreSigns, SameRest, MoreCounts, MoreFlags, MoreLabels
  <2> QED BY <2>1, FS_Subset, FS_CardinalityType
<1>6. /\ Cardinality(p.gates) \in Nat /\ Cardinality(q.gates) \in Nat
      /\ Cardinality(p.gates) <= Cardinality(q.gates)
  <2>1. IsFiniteSet(q.gates) /\ p.gates \in SUBSET q.gates
    BY <1>4, FS_Subset DEF Signals, MoreSigns, SameRest, MoreCounts, MoreFlags, MoreLabels
  <2> QED BY <2>1, FS_Subset, FS_CardinalityType
<1>7. MultiSurface(p) => MultiSurface(q)
  BY <1>5 DEF MultiSurface
<1>8. Matrix(p) => Matrix(q)
  BY <1>6 DEF Matrix, MoreSigns, SameRest, MoreCounts, MoreFlags, MoreLabels
<1> QED BY <1>1, <1>2, <1>3, <1>7, <1>8

LEMMA MoreDominates ==
  ASSUME NEW p \in Signals, NEW q \in Signals, MoreSigns(p, q)
  PROVE  /\ Dominated(p) => Dominated(q)
         /\ Harmless(q) => Harmless(p)
<1>1. p.critical \in Nat /\ q.critical \in Nat /\ p.critical <= q.critical
  BY DEF Signals, MoreSigns, SameRest, MoreCounts, MoreFlags, MoreLabels
<1>2. SurfaceVerification(p) => SurfaceVerification(q)
  BY MoreShape DEF SurfaceVerification
<1>3. RepoWide(p) => RepoWide(q)
  BY MoreShape DEF RepoWide, MoreSigns, SameRest, MoreCounts, MoreFlags, MoreLabels
<1>4. Dominated(p) => Dominated(q)
  BY <1>1, <1>2, <1>3, MoreShape DEF Dominated, CompositeDeep
<1>5. Harmless(q) => Harmless(p)
  BY <1>1, MoreShape DEF Harmless
<1> QED BY <1>4, <1>5

LEMMA MoreSum ==
  ASSUME NEW p \in Signals, NEW q \in Signals, MoreSigns(p, q)
  PROVE  Sum(p) <= Sum(q)
<1>0. /\ p.critical \in Nat /\ p.structural \in Nat /\ p.rootCause \in Nat /\ p.domains \in Nat
      /\ p.length \in Nat /\ p.refactor \in BOOLEAN
      /\ q.critical \in Nat /\ q.structural \in Nat /\ q.rootCause \in Nat
      /\ q.refactor \in BOOLEAN
  BY DEF Signals
<1>1. LexicalPoints(p) <= LexicalPoints(q)
  <2> DEFINE m == Min({3, p.domains})
             a == If(p.refactor /\ p.structural = 0, 2)
             b == If(q.refactor /\ q.structural = 0, 2)
             c == If(q.analysis, 2)
  <2>1. m \in Int /\ a \in Int /\ b \in Int /\ c \in Int
    BY <1>0, MinOfTwo DEF If
  <2>2. /\ p.analysis = q.analysis /\ m = Min({3, q.domains}) /\ p.length = q.length
        /\ p.critical <= q.critical /\ p.structural <= q.structural
        /\ p.rootCause <= q.rootCause /\ (p.refactor => q.refactor)
    BY DEF MoreSigns, SameRest, MoreCounts, MoreFlags, MoreLabels
  <2>3. LexicalPoints(q) =
          4 * q.critical + 3 * q.structural + b + 2 * q.rootCause + c + m + q.length
    BY <2>2 DEF LexicalPoints
  <2>4. LexicalPoints(p) =
          4 * p.critical + 3 * p.structural + a + 2 * p.rootCause + c + m + q.length
    BY <2>2 DEF LexicalPoints
  <2>5. 3 * p.structural + a <= 3 * q.structural + b
    BY <1>0, <2>2 DEF If
  <2>6. q.length \in Nat
    BY <1>0, <2>2
  <2>7. \A x, y \in Int : x <= y => 4 * x <= 4 * y /\ 2 * x <= 2 * y
    OBVIOUS
  <2>8. 4 * p.critical <= 4 * q.critical /\ 2 * p.rootCause <= 2 * q.rootCause
    BY <1>0, <2>2, <2>7
  <2> DEFINE x1 == 4 * p.critical
             y1 == 4 * q.critical
             x2 == 3 * p.structural
             y2 == 3 * q.structural
             x3 == 2 * p.rootCause
             y3 == 2 * q.rootCause
             r  == q.length
  <2>9. /\ x1 \in Int /\ x2 \in Int /\ x3 \in Int
        /\ y1 \in Int /\ y2 \in Int /\ y3 \in Int /\ r \in Int
    BY <1>0, <2>6
  <2>10. /\ x1 <= y1 /\ x2 + a <= y2 + b /\ x3 <= y3
         /\ LexicalPoints(p) = x1 + x2 + a + x3 + c + m + r
         /\ LexicalPoints(q) = y1 + y2 + b + y3 + c + m + r
    BY <2>2, <2>3, <2>4, <2>5, <2>8
  <2> HIDE DEF m, a, b, c, x1, y1, x2, y2, x3, y3, r
  <2> QED BY <2>1, <2>9, <2>10
<1>2. ScopePoints(p) <= ScopePoints(q)
  BY MoreShape DEF ScopePoints, If, MoreSigns, SameRest, MoreCounts, MoreFlags, MoreLabels
<1>3. SensitivePoints(p) <= SensitivePoints(q)
  <2>1. p.sensitive \subseteq q.sensitive
    BY DEF MoreSigns, SameRest, MoreCounts, MoreFlags, MoreLabels
  <2> QED BY <2>1, MoreShape DEF SensitivePoints, SensitiveWeight, If
<1>4. ShapePoints(p) <= ShapePoints(q)
  <2>1. SurfaceVerification(p) => SurfaceVerification(q)
    BY MoreShape DEF SurfaceVerification
  <2>2. RepoWide(p) => RepoWide(q)
    BY MoreShape DEF RepoWide, MoreSigns, SameRest, MoreCounts, MoreFlags, MoreLabels
  <2> QED BY <2>1, <2>2, MoreShape DEF ShapePoints, If
<1>5. RepoPoints(p) <= RepoPoints(q)
  BY DEF RepoPoints, If, MoreSigns, SameRest, MoreCounts, MoreFlags, MoreLabels
<1>6. RoutineReduction(p) = RoutineReduction(q)
  BY DEF RoutineReduction, MoreSigns, SameRest, MoreCounts, MoreFlags, MoreLabels
<1> QED BY <1>1, <1>2, <1>3, <1>4, <1>5, <1>6, SumType DEF Sum

(* More signs of risk, no lower score.                                     *)
LEMMA MoreScore ==
  ASSUME NEW p \in Signals, NEW q \in Signals, MoreSigns(p, q)
  PROVE  Score(p) \in Int /\ Score(q) \in Int /\ Score(p) <= Score(q)
<1>1. /\ Sum(p) \in Int /\ Sum(q) \in Int /\ Sum(p) <= Sum(q)
      /\ Policy.deepMin \in Int
  BY MoreSum, SumType, PolicyAssumption
<1>2. (Dominated(p) => Dominated(q)) /\ (Harmless(q) => Harmless(p))
  BY MoreDominates
<1> QED BY <1>1, <1>2, ScoreIs

(* The tier of a riskier prompt is not weaker, whatever the thresholds.    *)
LEMMA RiskierTier ==
  ASSUME NEW p \in Signals, NEW q \in Riskier(p)
  PROVE  TierRank[Classify(q).tier] >= TierRank[Classify(p).tier]
<1>1. Score(p) \in Int /\ Score(q) \in Int /\ Score(p) <= Score(q)
  BY RiskierHasMore, MoreScore
<1>2. \A s : Classify(s).tier = IF Score(s) <= Policy.routineMax THEN "routine"
                ELSE IF Score(s) >= Policy.deepMin THEN "deep" ELSE "standard"
  BY DEF Classify
<1>3. TierRank["routine"] = 1 /\ TierRank["standard"] = 2 /\ TierRank["deep"] = 3
  BY DEF TierRank
<1>4. Policy.routineMax \in Int /\ Policy.deepMin \in Int /\ Policy.routineMax < Policy.deepMin
  BY PolicyAssumption
<1> QED BY <1>1, <1>2, <1>3, <1>4

(* While a plan waits, it is the plan of the prompt that waits.            *)
PlanIsPrompts ==
  phase \in {"planned", "blocked"} =>
    prompt \in Prompts /\ plan.route.tier = Classify(prompt.signals).tier

(* What all notifications leave alone.                                     *)
LEMMA NotificationIsEvent ==
  ASSUME Notification
  PROVE  Event
<1>1. CASE \/ \E s \in Sides, f \in Files : FileItem(s, f)
           \/ \E fs \in {{}, Files} : DiffUpdated(fs)
           \/ \E s \in Sides : OtherItem(s)
           \/ OtherApproval
           \/ \E c \in Commands : CommandCutShort(c)
           \/ \E i \in DOMAIN turn.records, more \in Texts : LateDelta(i, more)
  BY <1>1 DEF FileItem, DiffUpdated, OtherItem, OtherApproval, CommandCutShort, LateDelta
<1>2. ASSUME NEW c, NEW codes, NEW text,
             CommandCompleted(c, codes, text) \/ OfferDeclined(c, codes, text)
      PROVE  Event
  BY <1>2 DEF CommandCompleted, OfferDeclined
<1>3. ASSUME NEW c, NEW codes, NEW text, NEW again, NEW finished, NEW new,
             OfferAccepted(c, codes, text, again, finished, new)
      PROVE  Event
  BY <1>3 DEF OfferAccepted
<1>4. ASSUME NEW c, NEW codes, NEW finished, CommandDropped(c, codes, finished)
      PROVE  Event
  BY <1>4 DEF CommandDropped
<1> QED BY <1>1, <1>2, <1>3, <1>4 DEF Notification

LEMMA PlanIsPromptsStep ==
  ASSUME PlanIsPrompts, [Next]_vars
  PROVE  PlanIsPrompts'
<1>1. ASSUME NEW p \in Prompts, NEW a \in QuotaAnswers, NEW m \in Catalogs, MakePlan(p, a, m)
      PROVE  PlanIsPrompts'
  BY <1>1 DEF MakePlan, BuildExecutionPlan, BuildRoute, PlanIsPrompts
<1>2. CASE FirstAttempt \/ Continue
  BY <1>2 DEF FirstAttempt, Continue, StartTurn, PlanIsPrompts
<1>4. CASE Notification
  <2>1. Event
    BY <1>4, NotificationIsEvent
  <2> QED BY <2>1 DEF Event, PlanIsPrompts
<1>5. CASE TurnEnds
  <2>1. phase' \in {"raised", "done", "turn", "unproven"}
    BY <1>5 DEF TurnEnds, TurnRaises, JudgeBoth, Escalate, Judge, StartTurn, Finish
  <2> QED BY <2>1 DEF PlanIsPrompts
<1>3. CASE UNCHANGED vars
  BY <1>3 DEF vars, PlanIsPrompts, request
<1> QED BY <1>1, <1>2, <1>3, <1>4, <1>5 DEF Next, Execute

(* One more sign of risk in a prompt never gets it a weaker model to begin *)
(* with, whatever the prompt and the policy's thresholds. (cx.py:          *)
(* classify.)                                                              *)
THEOREM RiskIsNeverCheaper == Spec => []MoreRiskNeverCheaper
<1>1. Init => PlanIsPrompts
  BY DEF Init, PlanIsPrompts
<1>2. PlanIsPrompts /\ [Next]_vars => PlanIsPrompts'
  BY PlanIsPromptsStep
<1>3. PlanIsPrompts => MoreRiskNeverCheaper
  <2> SUFFICES ASSUME PlanIsPrompts, phase \in {"planned", "blocked"},
                      NEW s \in Riskier(prompt.signals)
               PROVE  TierRank[Classify(s).tier] >= TierRank[plan.route.tier]
    BY DEF MoreRiskNeverCheaper
  <2>1. prompt.signals \in Signals /\ plan.route.tier = Classify(prompt.signals).tier
    BY PromptAssumption DEF PlanIsPrompts
  <2> QED BY <2>1, RiskierTier
<1> QED BY <1>1, <1>2, <1>3, PTL DEF Spec

-------------------------------------------------------------------------------
(* Types.                                                                  *)

Exits == {"zero", "nonzero", "none"}

(* What the output of a command can show. *)
Signs == (UNION Texts) \cup {"TIMEOUT"}

Records ==
  [name : {c.name : c \in Commands}, surface : {ObservedSurface(c) : c \in Commands},
   cats : {CommandCategories(c) : c \in Commands}, masked : BOOLEAN, exit : Exits,
   text : SUBSET Signs, stream : SUBSET Signs, seq : Nat]

Turns ==
  [seq : Nat, lastMutation : Nat, changed : SUBSET Files, records : Seq(Records),
   asks : 0 .. MaxAsks, declined : SUBSET Commands, host : Seq(Commands),
   items : [Sides -> Nat]]

Attempts ==
  [tier : Tiers,
   model : {ChooseModel(t, m) : t \in Tiers, m \in {c \in Catalogs : RouteExists(c)}},
   permissions : {":read-only", ":workspace"}]

Phases == {"idle", "planned", "blocked", "turn", "unproven", "done", "raised"}

TypeInv ==
  /\ phase \in Phases
  /\ plan.attempts \in Seq(Attempts)
  /\ attempt \in Nat /\ second \in BOOLEAN /\ used \in Nat /\ turnsRun \in Nat
  /\ turn \in Turns /\ first \in Turns
  /\ events \in 0 .. MaxEvents

LEMMA NewTurnType == NewTurn \in Turns /\ NewTurn.host = <<>> /\ NewTurn.asks = 0
BY PromptAssumption, EmptySeq DEF NewTurn, Turns

LEMMA InitTypes == Init => TypeInv
<1> SUFFICES ASSUME Init PROVE TypeInv
  OBVIOUS
<1>1. plan.attempts \in Seq(Attempts)
  BY EmptySeq DEF Init, NoPlan
<1>2. turn \in Turns /\ first \in Turns
  BY NewTurnType DEF Init
<1>3. phase \in Phases /\ second \in BOOLEAN
  BY DEF Init, Phases
<1>4. attempt \in Nat /\ used \in Nat /\ turnsRun \in Nat /\ events \in 0 .. MaxEvents
  BY PromptAssumption DEF Init
<1> QED BY <1>1, <1>2, <1>3, <1>4 DEF TypeInv

(* The chain of tiers that a plan is made of is never empty.               *)
LEMMA EscalationLength ==
  ASSUME NEW tier \in Tiers
  PROVE  LET c == Policy.chains[tier] IN
         c \in Seq(Tiers) /\ Min({Len(c), Max({1, Policy.maxAttempts})}) \in 1 .. Len(c)
<1> DEFINE c == Policy.chains[tier]
           n == Min({Len(c), Max({1, Policy.maxAttempts})})
<1>1. c \in Seq(Tiers) /\ Len(c) >= 1 /\ Len(c) \in Nat
  BY PolicyAssumption, EmptySeq, LenProperties
<1>2. Max({1, Policy.maxAttempts}) \in Int /\ Max({1, Policy.maxAttempts}) >= 1
  <2> DEFINE x == IF Policy.maxAttempts >= 1 THEN Policy.maxAttempts ELSE 1
  <2>1. /\ {1, Policy.maxAttempts} \in SUBSET Int /\ x \in {1, Policy.maxAttempts}
        /\ \A y \in {1, Policy.maxAttempts} : x >= y
    BY PolicyAssumption
  <2>2. Max({1, Policy.maxAttempts}) = x
    <3> HIDE DEF x
    <3> QED BY <2>1, MaxOfSome
  <2> QED BY <2>1, <2>2
<1>3. n \in 1 .. Len(c)
  <2> DEFINE m == Max({1, Policy.maxAttempts})
  <2>1. m \in Int /\ m >= 1
    BY <1>2
  <2> HIDE DEF m, c
  <2>2. Min({Len(c), m}) = IF Len(c) <= m THEN Len(c) ELSE m
    BY <1>1, <2>1, MinOfTwo
  <2> QED BY <1>1, <2>1, <2>2 DEF m
<1> QED BY <1>1, <1>3

LEMMA EscalationChainType ==
  ASSUME NEW tier \in Tiers
  PROVE  EscalationChain(tier) \in Seq(Tiers) /\ Len(EscalationChain(tier)) >= 1
<1> DEFINE c == Policy.chains[tier]
           n == Min({Len(c), Max({1, Policy.maxAttempts})})
<1>1. c \in Seq(Tiers) /\ n \in 1 .. Len(c) /\ EscalationChain(tier) = SubSeq(c, 1, n)
  BY EscalationLength DEF EscalationChain
<1> HIDE DEF n, c
<1>2. SubSeq(c, 1, n) \in Seq(Tiers) /\ Len(SubSeq(c, 1, n)) = n
  BY <1>1, SubSeqProperties
<1> QED BY <1>1, <1>2, LenProperties

LEMMA GuardChainType ==
  ASSUME NEW tier \in Tiers, NEW state, NEW base \in Seq(Tiers), Len(base) >= 1
  PROVE  /\ BudgetGuardChain(tier, base, state) \in Seq(Tiers)
         /\ Len(BudgetGuardChain(tier, base, state)) >= 1
<1> DEFINE stays == Keep(Policy.guard[state][tier], ToSet(base))
<1>1. CASE state \in {"unknown", "reached"} \/ state \notin DOMAIN Policy.guard
  BY <1>1 DEF BudgetGuardChain
<1>2. CASE ~(state \in {"unknown", "reached"} \/ state \notin DOMAIN Policy.guard)
  <2>1. Policy.guard[state][tier] \in Seq(Tiers)
    BY <1>2, PolicyAssumption
  <2>2. stays \in Seq(Tiers)
    <3>1. stays \in Seq(Tiers \cap ToSet(base))
      BY <2>1, KeepType
    <3> HIDE DEF stays
    <3> QED BY <3>1, SeqMonotonic
  <2>3. <<base[1]>> \in Seq(Tiers) /\ Len(<<base[1]>>) = 1
    OBVIOUS
  <2>4. stays # <<>> => Len(stays) >= 1
    <3> HIDE DEF stays
    <3> QED BY <2>2, EmptySeq, LenProperties
  <2>5. BudgetGuardChain(tier, base, state) = IF stays = <<>> THEN <<base[1]>> ELSE stays
    BY <1>2 DEF BudgetGuardChain
  <2> HIDE DEF stays
  <2> QED BY <2>2, <2>3, <2>4, <2>5
<1> QED BY <1>1, <1>2

LEMMA PlanType ==
  ASSUME NEW p, NEW state, NEW m \in Catalogs, RouteExists(m)
  PROVE  LET made == BuildExecutionPlan(p, state, m) IN
         /\ made.attempts \in Seq(Attempts)
         /\ ~made.blocked => Len(made.attempts) >= 1
<1> DEFINE route == BuildRoute(p)
           chain == BudgetGuardChain(route.tier, EscalationChain(route.tier), state)
           list  == [i \in DOMAIN chain |->
                       [tier |-> chain[i], model |-> ChooseModel(chain[i], m),
                        permissions |-> route.permissions]]
           made  == BuildExecutionPlan(p, state, m)
<1>1. route.tier \in Tiers /\ route.permissions \in {":read-only", ":workspace"}
  BY DEF BuildRoute, Classify, PermissionProfile, Tiers
<1>2. chain \in Seq(Tiers) /\ Len(chain) >= 1
  <2> HIDE DEF route
  <2> QED BY <1>1, EscalationChainType, GuardChainType
<1>3. /\ made.blocked = (state = "reached")
      /\ made.attempts = IF state = "reached" THEN <<>> ELSE list
  BY DEF BuildExecutionPlan
<1>4. list \in Seq(Attempts) /\ Len(list) >= 1
  <2> HIDE DEF chain, route
  <2>1. \A i \in DOMAIN chain : chain[i] \in Tiers
    BY <1>2
  <2>2. \A i \in DOMAIN chain : list[i] \in Attempts
    BY <1>1, <2>1 DEF Attempts
  <2>3. DOMAIN list = 1 .. Len(chain) /\ Len(chain) \in Nat
    BY <1>2, LenProperties
  <2>4. list = [i \in 1 .. Len(chain) |-> list[i]]
    BY <2>3
  <2> HIDE DEF list
  <2>5. \A i \in 1 .. Len(chain) : list[i] \in Attempts
    BY <2>2, <2>3
  <2> QED BY <1>2, <2>3, <2>4, <2>5
<1> HIDE DEF list, made
<1>5. made.attempts \in Seq(Attempts) /\ (~made.blocked => Len(made.attempts) >= 1)
  BY <1>3, <1>4, EmptySeq
<1> QED BY <1>5 DEF made

LEMMA RecordType ==
  ASSUME TypeInv, NEW c \in Commands, NEW e \in Exits, NEW text \in SUBSET Signs
  PROVE  Record(c, e, text) \in Records
<1>1. IsCommandMasked(c) \in BOOLEAN
  BY DEF IsCommandMasked
<1>2. turn.seq + 1 \in Nat
  BY DEF TypeInv, Turns
<1> QED BY <1>1, <1>2 DEF Record, Records

(* What a change of the turn must keep to keep its type.                   *)
LEMMA CountedType ==
  ASSUME TypeInv
  PROVE  Counted \in Turns /\ Counted.host = turn.host /\ Counted.records = turn.records
           /\ Counted.asks = turn.asks /\ Counted.declined = turn.declined
           /\ Counted.changed = turn.changed /\ Counted.items = turn.items
<1> DEFINE n == turn.seq + 1
<1>1. turn \in Turns
  BY DEF TypeInv
<1>2. turn \in Turns /\ n \in Nat
  BY <1>1 DEF Turns
<1>3. Counted = [turn EXCEPT !.seq = n]
  BY DEF Counted
<1> HIDE DEF n
<1> QED BY <1>2, <1>3 DEF Turns

LEMMA OneMoreAsk ==
  ASSUME TypeInv, turn.asks < MaxAsks
  PROVE  turn.asks + 1 \in 0 .. MaxAsks
<1>1. turn.asks \in 0 .. MaxAsks
  BY DEF TypeInv, Turns
<1> QED BY <1>1, PromptAssumption

(* An item that is summarised changes nothing but the counts.              *)
LEMMA ListedType ==
  ASSUME TypeInv, NEW s \in Sides
  PROVE  Listed(s) \in Turns /\ Listed(s).host = turn.host /\ Listed(s).records = turn.records
           /\ Listed(s).asks = turn.asks /\ Listed(s).declined = turn.declined
           /\ Listed(s).changed = turn.changed
           /\ Listed(s).seq = Counted.seq /\ Listed(s).lastMutation = Counted.lastMutation
<1>1. Counted \in Turns /\ Counted.items \in [Sides -> Nat]
  BY CountedType DEF Turns
<1> DEFINE n   == Counted.items[s] + 1
           all == [Counted.items EXCEPT ![s] = n]
<1>2. n \in Nat
  BY <1>1
<1>3. all \in [Sides -> Nat]
  <2> HIDE DEF n
  <2> QED BY <1>1, <1>2
<1>4. Listed(s) = [Counted EXCEPT !.items = all]
  BY <1>1 DEF Listed, Turns
<1> HIDE DEF all
<1>5. /\ Listed(s) \in Turns /\ Listed(s).host = Counted.host
      /\ Listed(s).records = Counted.records /\ Listed(s).asks = Counted.asks
      /\ Listed(s).declined = Counted.declined /\ Listed(s).changed = Counted.changed
      /\ Listed(s).seq = Counted.seq /\ Listed(s).lastMutation = Counted.lastMutation
  BY <1>1, <1>3, <1>4 DEF Turns
<1> QED BY <1>5, CountedType

LEMMA AppendedType ==
  ASSUME TypeInv, NEW record \in Records
  PROVE  /\ Append1(record) \in Turns /\ Append1(record).host = turn.host
         /\ Append1(record).asks = turn.asks /\ Append1(record).declined = turn.declined
<1> DEFINE now  == Listed("completed")
           more == Append(turn.records, record)
<1>1. /\ now \in Turns /\ now.host = turn.host /\ now.records = turn.records
      /\ now.asks = turn.asks /\ now.declined = turn.declined
  BY ListedType DEF Sides
<1>2. more \in Seq(Records)
  BY AppendProperties DEF TypeInv, Turns
<1>3. Append1(record) = [now EXCEPT !.records = more]
  BY <1>1 DEF Append1
<1> HIDE DEF now, more
<1> QED BY <1>1, <1>2, <1>3 DEF Turns

LEMMA ChangedType ==
  ASSUME TypeInv, NEW counted \in {Counted} \cup {Listed(s) : s \in Sides},
         NEW files \in SUBSET Files, Changed(counted, files)
  PROVE  turn' \in Turns /\ turn'.host = turn.host
<1> DEFINE n == turn.seq + 1
           c == counted.changed \cup files
<1>1. turn \in Turns /\ counted \in Turns /\ counted.host = turn.host
  BY CountedType, ListedType DEF TypeInv
<1>2. n \in Nat
  BY <1>1 DEF Turns
<1>3. c \in SUBSET Files
  BY <1>1 DEF Turns
<1>4. turn' = [counted EXCEPT !.changed = c, !.lastMutation = n]
  BY <1>1 DEF Changed
<1> HIDE DEF n, c
<1> QED BY <1>1, <1>2, <1>3, <1>4 DEF Turns

LEMMA TextsType ==
  ASSUME NEW ran, NEW text \in TextsOf(ran)
  PROVE  text \in SUBSET Signs
BY DEF TextsOf, Signs

(* A step of a turn keeps its type, and makes it run a command on the host *)
(* only when the user has said so.                                         *)
HostAsked ==
  Len(turn'.host) > Len(turn.host) =>
    /\ plan.route.permissions = ":read-only"
    /\ turn'.asks = turn.asks + 1 /\ turn'.asks <= MaxAsks
    /\ Last(turn'.host) \notin turn.declined

LEMMA ItemSteps ==
  ASSUME TypeInv,
         \/ \E s \in Sides, f \in Files : FileItem(s, f)
         \/ \E fs \in {{}, Files} : DiffUpdated(fs)
         \/ \E s \in Sides : OtherItem(s)
         \/ OtherApproval
  PROVE  turn' \in Turns /\ turn'.host = turn.host
<1>1. ASSUME NEW s \in Sides, NEW f \in Files, FileItem(s, f)
      PROVE  turn' \in Turns /\ turn'.host = turn.host
  BY <1>1, ChangedType, CountedType DEF FileItem
<1>2. ASSUME NEW fs \in {{}, Files}, DiffUpdated(fs)
      PROVE  turn' \in Turns /\ turn'.host = turn.host
  BY <1>2, ChangedType, CountedType DEF DiffUpdated
<1>3. ASSUME NEW s \in Sides, OtherItem(s)
      PROVE  turn' \in Turns /\ turn'.host = turn.host
  BY <1>3, CountedType, ListedType DEF OtherItem
<1>4. CASE OtherApproval
  <2>1. turn.asks + 1 \in 0 .. MaxAsks
    BY <1>4, OneMoreAsk DEF OtherApproval
  <2> QED BY <1>4, <2>1 DEF OtherApproval, TypeInv, Turns
<1> QED BY <1>1, <1>2, <1>3, <1>4

LEMMA OfferAcceptedStep ==
  ASSUME TypeInv, NEW c \in Commands, NEW codes \in Codes(c.inner),
         NEW text \in TextsOf(Runs(c.inner, codes)), NEW again, NEW finished \in BOOLEAN,
         NEW new \in SUBSET Signs, OfferAccepted(c, codes, text, again, finished, new)
  PROVE  turn' \in Turns /\ HostAsked
<1> DEFINE record == Record(c, ExitOf(Runs(c.inner, codes)), text)
           e      == IF finished THEN ExitOf(Runs(c.inner, again)) ELSE "nonzero"
           rerun  == [record EXCEPT !.exit = e, !.text = new]
<1>1. record \in Records
  BY RecordType, TextsType DEF ExitOf, Exits
<1>2. e \in Exits
  BY DEF ExitOf, Exits
<1>3. /\ OfferDue(record, c)
      /\ turn' = [Append1(rerun) EXCEPT !.asks = @ + 1, !.host = Append(@, c)]
  BY DEF OfferAccepted
<1> HIDE DEF record, e
<1>4. rerun \in Records
  BY <1>1, <1>2 DEF Records
<1> HIDE DEF rerun
<1>5. /\ Append1(rerun) \in Turns /\ Append1(rerun).host = turn.host
      /\ Append1(rerun).asks = turn.asks
  BY <1>4, AppendedType
<1>6. Append(turn.host, c) \in Seq(Commands) /\ Last(Append(turn.host, c)) = c
  <2>1. turn.host \in Seq(Commands)
    BY DEF TypeInv, Turns
  <2> QED BY <2>1, AppendProperties DEF Last
<1>7. turn.asks + 1 \in 0 .. MaxAsks /\ c \notin turn.declined
      /\ plan.route.permissions = ":read-only"
  BY <1>3, OneMoreAsk DEF OfferDue, Eligible
<1> DEFINE longer == Append(turn.host, c)
           t      == Append1(rerun)
           asks   == turn.asks + 1
<1>8. turn' = [t EXCEPT !.asks = asks, !.host = longer]
  BY <1>3, <1>5
<1>9. longer \in Seq(Commands) /\ asks \in 0 .. MaxAsks /\ t \in Turns
  BY <1>5, <1>6, <1>7
<1> HIDE DEF longer, t, asks
<1>10. turn' \in Turns /\ turn'.host = longer /\ turn'.asks = asks
  BY <1>8, <1>9 DEF Turns
<1> QED BY <1>6, <1>7, <1>9, <1>10 DEF HostAsked, longer, asks

LEMMA CommandSteps ==
  ASSUME TypeInv, NEW c \in Commands, NEW codes \in Codes(c.inner),
         NEW text \in TextsOf(Runs(c.inner, codes)),
         CommandCompleted(c, codes, text) \/ OfferDeclined(c, codes, text)
  PROVE  turn' \in Turns /\ turn'.host = turn.host
<1> DEFINE record == Record(c, ExitOf(Runs(c.inner, codes)), text)
<1>1. record \in Records
  BY RecordType, TextsType DEF ExitOf, Exits
<1>2. CASE CommandCompleted(c, codes, text)
  <2>1. turn' = Append1(record)
    BY <1>2 DEF CommandCompleted
  <2> HIDE DEF record
  <2> QED BY <1>1, <2>1, AppendedType
<1>3. CASE OfferDeclined(c, codes, text)
  <2> DEFINE asks == IF CanPrompt THEN turn.asks + 1 ELSE turn.asks
             no    == turn.declined \cup {c}
             t     == Append1(record)
  <2>1. /\ OfferDue(record, c)
        /\ turn' = [t EXCEPT !.declined = @ \cup {c},
                             !.asks = IF CanPrompt THEN @ + 1 ELSE @]
    BY <1>3 DEF OfferDeclined
  <2> HIDE DEF record
  <2>2. t \in Turns /\ t.host = turn.host /\ t.asks = turn.asks /\ t.declined = turn.declined
    BY <1>1, AppendedType
  <2>3. asks \in 0 .. MaxAsks /\ no \in SUBSET Commands
    <3>1. turn.asks < MaxAsks
      BY <2>1 DEF OfferDue
    <3>2. turn.asks \in 0 .. MaxAsks /\ turn.declined \in SUBSET Commands
      BY DEF TypeInv, Turns
    <3> QED BY <3>1, <3>2, OneMoreAsk
  <2>4. turn' = [t EXCEPT !.declined = no, !.asks = asks]
    BY <2>1, <2>2
  <2> HIDE DEF t, asks, no
  <2> QED BY <2>2, <2>3, <2>4 DEF Turns
<1> QED BY <1>2, <1>3

LEMMA CutShortStep ==
  ASSUME TypeInv, NEW c \in Commands, CommandCutShort(c)
  PROVE  turn' \in Turns /\ turn'.host = turn.host
<1>1. Record(c, "none", {}) \in Records
  BY RecordType DEF Exits
<1> QED BY <1>1, AppendedType DEF CommandCutShort

LEMMA DroppedStep ==
  ASSUME TypeInv, NEW c, NEW codes, NEW finished, CommandDropped(c, codes, finished)
  PROVE  turn' \in Turns /\ turn'.host = turn.host
<1>1. "completed" \in Sides
  BY DEF Sides
<1>2. turn' = Listed("completed") \/ turn' = Counted
  BY DEF CommandDropped
<1> QED BY <1>1, <1>2, CountedType, ListedType

LEMMA LateDeltaStep ==
  ASSUME TypeInv, NEW i \in DOMAIN turn.records, NEW more \in Texts, LateDelta(i, more)
  PROVE  turn' \in Turns /\ turn'.host = turn.host
<1> DEFINE r    == turn.records[i]
           said == r.stream \cup more
           new  == [r EXCEPT !.stream = said, !.text = said]
           all  == [turn.records EXCEPT ![i] = new]
<1>1. turn.records \in Seq(Records) /\ r \in Records
  BY DEF TypeInv, Turns
<1>2. said \in SUBSET Signs
  BY <1>1 DEF Records, Signs
<1>3. new \in Records
  <2> HIDE DEF r, said
  <2> QED BY <1>1, <1>2 DEF Records
<1>4. turn' = [turn EXCEPT !.records = all]
  <2>1. turn' = [turn EXCEPT !.records[i].stream = @ \cup more,
                             !.records[i].text = turn.records[i].stream \cup more]
    BY DEF LateDelta
  <2> QED BY <2>1, <1>1 DEF TypeInv, Turns, Records
<1>5. all \in Seq(Records)
  <2> HIDE DEF new, r
  <2> QED BY <1>1, <1>3
<1> HIDE DEF all
<1> QED BY <1>4, <1>5 DEF TypeInv, Turns

LEMMA NewTextType ==
  ASSUME NEW finished \in BOOLEAN, NEW ran,
         NEW new \in IF finished THEN TextsOf(ran) ELSE Texts \cup {{"TIMEOUT"}}
  PROVE  new \in SUBSET Signs
<1>1. CASE finished
  BY <1>1, TextsType
<1>2. CASE ~finished
  <2>1. new \in Texts \/ new = {"TIMEOUT"}
    BY <1>2
  <2>2. ASSUME NEW x \in new PROVE x \in Signs
    <3>1. CASE new \in Texts
      BY <2>2, <3>1 DEF Signs
    <3>2. CASE new = {"TIMEOUT"}
      BY <2>2, <3>2 DEF Signs
    <3> QED BY <2>1, <3>1, <3>2
  <2> QED BY <2>2
<1> QED BY <1>1, <1>2

LEMMA NotificationStep ==
  ASSUME TypeInv, Notification
  PROVE  turn' \in Turns /\ HostAsked
<1>1. turn' \in Turns /\ turn'.host = turn.host => turn' \in Turns /\ HostAsked
  <2>1. turn.host \in Seq(Commands)
    BY DEF TypeInv, Turns
  <2> QED BY <2>1, LenProperties DEF HostAsked
<1>2. ASSUME NEW c \in Commands, NEW codes \in Codes(c.inner),
             NEW text \in TextsOf(Runs(c.inner, codes)), NEW again \in Codes(c.inner),
             NEW finished \in BOOLEAN,
             NEW new \in IF finished THEN TextsOf(Runs(c.inner, again))
                         ELSE Texts \cup {{"TIMEOUT"}},
             OfferAccepted(c, codes, text, again, finished, new)
      PROVE  turn' \in Turns /\ HostAsked
  <2>1. new \in SUBSET Signs
    BY NewTextType
  <2> QED BY <1>2, <2>1, OfferAcceptedStep
<1> QED BY <1>1, <1>2, ItemSteps, CommandSteps, CutShortStep, DroppedStep, LateDeltaStep
        DEF Notification

LEMMA TurnStep ==
  ASSUME TypeInv, [Next]_vars
  PROVE  turn' \in Turns /\ first' \in Turns /\ HostAsked
<1> DEFINE Good == turn' \in Turns /\ first' \in Turns /\ HostAsked
<1>1. turn.host \in Seq(Commands) /\ turn \in Turns /\ first \in Turns
  BY DEF TypeInv, Turns
<1>2. turn' \in {turn, NewTurn} /\ first' \in {turn, first, NewTurn} => Good
  <2>1. Len(turn.host) \in Nat /\ Len(<<>>) = 0
    BY <1>1, LenProperties
  <2> QED BY <1>1, <2>1, NewTurnType DEF HostAsked
<1>3. CASE Execute
  <2>1. turn' \in {turn, NewTurn} /\ first' \in {turn, first, NewTurn}
    BY <1>3 DEF Execute, MakePlan, FirstAttempt, Continue, StartTurn
  <2> QED BY <1>2, <2>1
<1>4. CASE Notification
  <2>1. first' = first
    BY <1>4, NotificationIsEvent DEF Event
  <2> QED BY <1>1, <1>4, <2>1, NotificationStep
<1>5. CASE TurnEnds
  <2>1. turn' \in {turn, NewTurn} /\ first' \in {turn, first, NewTurn}
    BY <1>5 DEF TurnEnds, TurnRaises, JudgeBoth, Escalate, Judge, StartTurn, Finish
  <2> QED BY <1>2, <2>1
<1>6. CASE UNCHANGED vars
  BY <1>2, <1>6 DEF vars
<1> QED BY <1>3, <1>4, <1>5, <1>6 DEF Next

LEMMA TypeStep ==
  ASSUME TypeInv, [Next]_vars
  PROVE  TypeInv'
<1>1. turn' \in Turns /\ first' \in Turns
  BY TurnStep
<1>2. plan' = plan => plan'.attempts \in Seq(Attempts)
  BY DEF TypeInv
<1>3. second' \in {second, TRUE} => second' \in BOOLEAN
  BY DEF TypeInv
<1>4. /\ attempt' \in {attempt, 1, attempt + 1} => attempt' \in Nat
      /\ used' \in {used, used + 1} => used' \in Nat
      /\ turnsRun' \in {turnsRun, turnsRun + 1} => turnsRun' \in Nat
  BY DEF TypeInv
<1>5. Event \/ events' = events => events' \in 0 .. MaxEvents
  BY PromptAssumption DEF TypeInv, Event
<1>6. phase' = phase => phase' \in Phases
  BY DEF TypeInv
<1> DEFINE Rest ==
      /\ phase' \in Phases
      /\ plan' = plan \/ plan'.attempts \in Seq(Attempts)
      /\ second' \in {second, TRUE}
      /\ attempt' \in {attempt, 1, attempt + 1} /\ used' \in {used, used + 1}
      /\ turnsRun' \in {turnsRun, turnsRun + 1}
      /\ Event \/ events' = events
<1>7. Rest
  <2>1. ASSUME NEW p \in Prompts, NEW a \in QuotaAnswers, NEW m \in Catalogs, MakePlan(p, a, m)
        PROVE  Rest
    <3>1. plan' = plan \/ plan'.attempts \in Seq(Attempts)
      BY <2>1, PlanType DEF MakePlan
    <3>2. phase' \in Phases
      BY <2>1 DEF MakePlan, Phases
    <3>3. UNCHANGED <<attempt, second, used, turnsRun, events>>
      BY <2>1 DEF MakePlan, progress, observed
    <3> QED BY <3>1, <3>2, <3>3
  <2>2. CASE FirstAttempt \/ Continue
    BY <2>2 DEF FirstAttempt, Continue, StartTurn, Phases, request
  <2>3. CASE Notification
    <3>1. Event
      BY <2>3, NotificationIsEvent
    <3> QED BY <1>6, <3>1 DEF Event, request, progress
  <2>4. CASE TurnEnds
    <3>1. UNCHANGED <<plan, second, events>>
      BY <2>4 DEF TurnEnds, TurnRaises, JudgeBoth, Escalate, Judge, ObserveEnd, request, progress,
                  observed
    <3>2. phase' \in Phases
      BY <2>4 DEF TurnEnds, TurnRaises, JudgeBoth, Escalate, Judge, StartTurn, Finish, Phases
    <3>3. attempt' \in {attempt, attempt + 1} /\ used' \in {used, used + 1}
            /\ turnsRun' \in {turnsRun, turnsRun + 1}
      BY <2>4 DEF TurnEnds, TurnRaises, JudgeBoth, Escalate, Judge, Returns, StartTurn,
                  ObserveEnd, progress, observed
    <3> QED BY <3>1, <3>2, <3>3
  <2>5. CASE UNCHANGED vars
    BY <1>6, <2>5 DEF vars
  <2> QED BY <2>1, <2>2, <2>3, <2>4, <2>5 DEF Next, Execute
<1> QED BY <1>1, <1>2, <1>3, <1>4, <1>5, <1>7 DEF TypeInv

(* A turn's result, the plan and the counters have their types, whatever   *)
(* is asked, run and answered.                                             *)
THEOREM TypeCorrect == Spec => []TypeInv
<1>1. TypeInv /\ [Next]_vars => TypeInv'
  BY TypeStep
<1> QED BY InitTypes, <1>1, PTL DEF Spec

(* What runs outside the sandbox is asked for, each time, in every turn of *)
(* every prompt. (turn_runner.py: _handle_bounded_verification_offer.)     *)
THEOREM HostRunsNeedConsent == Spec => HostRunsAreAsked
<1>1. TypeInv /\ [Next]_vars => [HostAsked]_vars
  BY TurnStep
<1> QED BY <1>1, TypeCorrect, PTL DEF Spec, HostRunsAreAsked, HostAsked

-------------------------------------------------------------------------------
(* Turns.                                                                  *)

(* Only a verdict on a change asks for another turn.                       *)
LEMMA RequiredKeepsContinue ==
  ASSUME NEW s, NEW r, NEW c, NEW a, NEW gates, NEW records
  PROVE  ApplyRequired([status |-> s, reason |-> r, continue |-> c, audit |-> a], gates, records)
           .continue = c
<1> DEFINE base == [status |-> s, reason |-> r, continue |-> c, audit |-> a]
<1>1. \A x, y : [base EXCEPT !.status = x, !.reason = y].continue = c
  OBVIOUS
<1>2. base.continue = c
  OBVIOUS
<1>3. ApplyRequired(base, gates, records) = base
        \/ \E x, y : ApplyRequired(base, gates, records) = [base EXCEPT !.status = x, !.reason = y]
  <2> HIDE DEF base
  <2> QED BY DEF ApplyRequired
<1> HIDE DEF base
<1>4. ApplyRequired(base, gates, records).continue = c
  BY <1>1, <1>2, <1>3
<1> QED BY <1>4 DEF base

LEMMA ContinueNeedsChange ==
  ASSUME NEW records, NEW last, NEW stopped
  PROVE  Assessment({}, records, last, stopped).continue = FALSE
<1>1. CASE stopped
  BY <1>1, RequiredKeepsContinue DEF Assessment, Assessed
<1>2. CASE ~stopped
  <2> DEFINE core == AssessCore({}, records, last, second, task.skip, quota)
  <2>1. \/ core = Assessed("UNVERIFIED", "USER_REQUESTED_SKIP")
        \/ core = [Assessed("NOT_APPLICABLE", "NO_MUTATION") EXCEPT !.audit = AuditStatus(records)]
    BY DEF AssessCore
  <2>2. \E s, r, a : core = [status |-> s, reason |-> r, continue |-> FALSE, audit |-> a]
    <3> HIDE DEF core
    <3> QED BY <2>1 DEF Assessed
  <2>3. Assessment({}, records, last, stopped) = ApplyRequired(core, task.gates, records)
    BY <1>2 DEF Assessment, AssessTurn
  <2> HIDE DEF core
  <2> QED BY <2>2, <2>3, RequiredKeepsContinue
<1> QED BY <1>1, <1>2
(* Every turn that was asked for returned, runs, or was given up; it is    *)
(* one of the plan's attempts or the one beyond them; and what waits for   *)
(* that one, or is it, follows a change.                                   *)
TurnCounted ==
  turnsRun = used + (IF phase = "turn" \/ (phase = "raised" /\ turnsRun > 0) THEN 1 ELSE 0)

Accounted ==
  /\ TurnCounted
  /\ turnsRun = attempt + (IF second THEN 1 ELSE 0)
  /\ attempt <= Len(plan.attempts)
  /\ phase = "planned" => Len(plan.attempts) >= 1
  /\ phase \in {"idle", "planned", "blocked"} => turnsRun = 0
  /\ phase = "unproven" => turn.changed # {} /\ ~second
  /\ second /\ phase = "turn" => first.changed # {}

LEMMA InitAccounted == Init => Accounted
BY DEF Init, NoPlan, Accounted, TurnCounted

LEMMA PlanAccounted ==
  ASSUME TypeInv, Accounted, NEW p \in Prompts, NEW a \in QuotaAnswers, NEW m \in Catalogs,
         MakePlan(p, a, m)
  PROVE  Accounted'
<1>1. /\ phase = "idle" /\ phase' \in {"blocked", "planned", "raised"}
      /\ UNCHANGED <<attempt, second, used, turnsRun>>
  BY DEF MakePlan, progress, observed
<1>2. turnsRun = 0 /\ attempt = 0 /\ ~second /\ used = 0
  BY <1>1 DEF Accounted, TurnCounted, TypeInv
<1>3. plan'.attempts \in Seq(Attempts) /\ (phase' = "planned" => Len(plan'.attempts) >= 1)
  <2> DEFINE made == BuildExecutionPlan(p.signals, QuotaState(a), m)
  <2>1. RouteExists(m) =>
          made.attempts \in Seq(Attempts) /\ (~made.blocked => Len(made.attempts) >= 1)
    BY PlanType
  <2>2. \/ RouteExists(m) /\ plan' = made /\ phase' = IF made.blocked THEN "blocked" ELSE "planned"
        \/ plan' = plan /\ phase' = "raised"
    BY DEF MakePlan
  <2> HIDE DEF made
  <2> QED BY <2>1, <2>2 DEF TypeInv
<1>4. Len(plan'.attempts) \in Nat
  BY <1>3, LenProperties
<1> QED BY <1>1, <1>2, <1>3, <1>4 DEF Accounted, TurnCounted

LEMMA JudgeAccounted ==
  ASSUME TypeInv, Accounted, NEW s \in Statuses, NEW stop \in BOOLEAN, NEW r, Judge(s, stop, r)
  PROVE  Accounted'
<1>1. /\ phase = "turn" /\ used' = used + 1 /\ ~second
      /\ UNCHANGED <<plan, attempt, second, turnsRun>>
  BY DEF Judge, Returns, ObserveEnd, request
<1> DEFINE made == Assessment(turn.changed, turn.records, turn.lastMutation, Stopped(s, stop))
<1>2. \/ phase' = "unproven" /\ made.continue /\ turn' = turn
      \/ phase' = "done"
  BY DEF Judge, Finish
<1>3. made.continue => turn.changed # {}
  <2> SUFFICES ASSUME turn.changed = {} PROVE ~made.continue
    OBVIOUS
  <2> DEFINE out == Assessment({}, turn.records, turn.lastMutation, Stopped(s, stop))
  <2>1. out.continue = FALSE
    BY ContinueNeedsChange
  <2>2. made = out
    OBVIOUS
  <2> HIDE DEF made, out
  <2> QED BY <2>1, <2>2
<1> HIDE DEF made
<1> QED BY <1>1, <1>2, <1>3 DEF Accounted, TurnCounted, TypeInv

LEMMA TurnEndAccounted ==
  ASSUME TypeInv, Accounted, TurnEnds
  PROVE  Accounted'
<1>1. Len(plan.attempts) \in Nat
  BY LenProperties DEF TypeInv
<1>2. CASE TurnRaises
  BY <1>1, <1>2 DEF TurnRaises, Accounted, TurnCounted, TypeInv, request, progress, observed
<1>3. ASSUME NEW s \in Statuses, NEW stop \in BOOLEAN, JudgeBoth(s, stop)
      PROVE  Accounted'
  BY <1>1, <1>3 DEF JudgeBoth, Returns, Finish, ObserveEnd, request, Accounted, TurnCounted, TypeInv
<1>4. ASSUME NEW s \in Statuses, NEW stop \in BOOLEAN, NEW r, Escalate(s, stop, r)
      PROVE  Accounted'
  BY <1>1, <1>4 DEF Escalate, Returns, MoreAttempts, StartTurn, request, Accounted, TurnCounted,
                    TypeInv
<1> QED BY <1>2, <1>3, <1>4, JudgeAccounted DEF TurnEnds

LEMMA AccountedStep ==
  ASSUME TypeInv, Accounted, [Next]_vars
  PROVE  Accounted'
<1>1. CASE FirstAttempt
  BY <1>1 DEF FirstAttempt, StartTurn, Accounted, TurnCounted, TypeInv
<1>2. CASE Continue
  BY <1>2 DEF Continue, StartTurn, request, Accounted, TurnCounted, TypeInv
<1>3. CASE Notification
  <2>1. Event
    BY <1>3, NotificationIsEvent
  <2>2. /\ phase = "turn"
        /\ UNCHANGED <<phase, plan, attempt, second, used, first, turnsRun>>
    BY <2>1 DEF Event, request, progress
  <2> QED BY <2>2 DEF Accounted, TurnCounted
<1>4. CASE UNCHANGED vars
  BY <1>4 DEF vars, Accounted, TurnCounted
<1> QED BY <1>1, <1>2, <1>3, <1>4, PlanAccounted, TurnEndAccounted DEF Next, Execute

(* However a prompt's turns end, none is forgotten, none is beyond the     *)
(* plan but one, and that one follows a change. (cx2_runtime.py:           *)
(* execute_prompt.)                                                        *)
THEOREM TurnsAreBounded == Spec => []OneContinuation
<1>1. TypeInv /\ Accounted /\ [Next]_vars => Accounted'
  BY AccountedStep
<1>2. TypeInv /\ Accounted => OneContinuation
  <2> SUFFICES ASSUME TypeInv, Accounted PROVE OneContinuation
    OBVIOUS
  <2>1. Len(plan.attempts) \in Nat
    BY LenProperties DEF TypeInv
  <2> QED BY <2>1 DEF Accounted, TurnCounted, OneContinuation, TypeInv
<1> QED BY InitAccounted, <1>1, <1>2, TypeCorrect, PTL DEF Spec
-------------------------------------------------------------------------------
(* Plans. The policy file is the user's: what a plan climbs through is as  *)
(* good as its chains. Those that make sense start with the tier they are  *)
(* for, climb, and leave less the less quota is left.                      *)

Climbs == {p \in Tiers \X Tiers : TierRank[p[1]] < TierRank[p[2]]}

States == <<"normal", "conserve", "critical", "emergency">>

Sensible(chain, tier) == chain # <<>> /\ chain[1] = tier /\ Ordered(chain, Climbs)

PolicyClimbs ==
  \A t \in Tiers :
    /\ Sensible(Policy.chains[t], t)
    /\ \A s \in DOMAIN Policy.guard : Sensible(Policy.guard[s][t], t)
    /\ \A i, j \in DOMAIN States :
         /\ States[i] \in DOMAIN Policy.guard
         /\ j <= i =>
              Members(Policy.guard[States[i]][t]) \subseteq Members(Policy.guard[States[j]][t])

(* The policy file that comes with the program is such a one.              *)
LEMMA ShippedPolicyClimbs == Policy = ExamplePolicy => PolicyClimbs
<1> SUFFICES ASSUME Policy = ExamplePolicy PROVE PolicyClimbs
  OBVIOUS
<1>6. /\ Sensible(<<"routine">>, "routine") /\ Members(<<"routine">>) = {"routine"}
      /\ Sensible(<<"standard">>, "standard") /\ Members(<<"standard">>) = {"standard"}
      /\ Sensible(<<"deep">>, "deep")
  BY DEF Sensible, Ordered, Members
<1>7. /\ Sensible(<<"routine", "standard">>, "routine")
      /\ Members(<<"routine", "standard">>) = {"routine", "standard"}
      /\ Sensible(<<"standard", "deep">>, "standard")
      /\ Members(<<"standard", "deep">>) = {"standard", "deep"}
  BY DEF Sensible, Ordered, Members, Climbs, Tiers, TierRank
<1>8. /\ Sensible(<<"routine", "standard", "deep">>, "routine")
      /\ Members(<<"routine", "standard", "deep">>) = {"routine", "standard", "deep"}
  BY SMTT(30) DEF Sensible, Ordered, Members, Climbs, Tiers, TierRank
<1> DEFINE c(t) == Policy.chains[t]
<1>14. /\ c("routine") = <<"routine", "standard", "deep">>
       /\ c("standard") = <<"standard", "deep">> /\ c("deep") = <<"deep">>
  BY DEF ExamplePolicy
<1> HIDE DEF c
<1>15. \A t \in Tiers : Sensible(c(t), t)
  BY <1>6, <1>7, <1>8, <1>14 DEF Tiers
<1>1. \A t \in Tiers : Sensible(Policy.chains[t], t)
  BY <1>15 DEF c
<1>2. DOMAIN Policy.guard = {"normal", "conserve", "critical", "emergency"}
  BY DEF ExamplePolicy
<1> DEFINE g(s, t) == Policy.guard[s][t]
<1>9. /\ g("normal", "routine") = <<"routine", "standard", "deep">>
      /\ g("normal", "standard") = <<"standard", "deep">> /\ g("normal", "deep") = <<"deep">>
  BY DEF ExamplePolicy
<1>10. /\ g("conserve", "routine") = <<"routine", "standard">>
       /\ g("conserve", "standard") = <<"standard", "deep">> /\ g("conserve", "deep") = <<"deep">>
  BY DEF ExamplePolicy
<1>11. \A s \in {"critical", "emergency"} :
         /\ g(s, "routine") = <<"routine">>
         /\ g(s, "standard") = <<"standard">> /\ g(s, "deep") = <<"deep">>
  BY DEF ExamplePolicy
<1> HIDE DEF g
<1>12. \A s \in {"normal", "conserve", "critical", "emergency"} :
         /\ Sensible(g(s, "routine"), "routine")
         /\ Sensible(g(s, "standard"), "standard")
         /\ Sensible(g(s, "deep"), "deep")
  BY <1>6, <1>7, <1>8, <1>9, <1>10, <1>11
<1>13. \A t \in Tiers, s \in {"normal", "conserve", "critical", "emergency"} : Sensible(g(s, t), t)
  BY <1>12 DEF Tiers
<1>3. \A t \in Tiers, s \in DOMAIN Policy.guard : Sensible(Policy.guard[s][t], t)
  BY <1>2, <1>13 DEF g
<1>4. \A t \in Tiers :
        /\ Members(g("conserve", t)) \subseteq Members(g("normal", t))
        /\ Members(g("critical", t)) \subseteq Members(g("conserve", t))
        /\ Members(g("emergency", t)) \subseteq Members(g("critical", t))
  BY <1>6, <1>7, <1>8, <1>9, <1>10, <1>11 DEF Tiers
<1>5. DOMAIN States = 1 .. 4 /\ States[1] = "normal" /\ States[2] = "conserve"
        /\ States[3] = "critical" /\ States[4] = "emergency"
  BY DEF States
<1> QED BY <1>1, <1>2, <1>3, <1>4, <1>5 DEF PolicyClimbs, g

(* The tiers of a plan: those of the unrestricted chain that the guard     *)
(* leaves, in that order.                                                  *)
LEMMA EscalationClimbs ==
  ASSUME PolicyClimbs, NEW tier \in Tiers
  PROVE  LET base == EscalationChain(tier) IN
         base \in Seq(Tiers) /\ Sensible(base, tier)
<1> DEFINE c == Policy.chains[tier]
           n == Min({Len(c), Max({1, Policy.maxAttempts})})
           s == SubSeq(c, 1, n)
<1>1. c \in Seq(Tiers) /\ Sensible(c, tier)
  BY PolicyAssumption DEF PolicyClimbs
<1>2. n \in 1 .. Len(c)
  BY EscalationLength
<1>3. EscalationChain(tier) = s
  BY DEF EscalationChain
<1> HIDE DEF c, n
<1>4. /\ s \in Seq(Tiers) /\ DOMAIN s = 1 .. n /\ DOMAIN c = 1 .. Len(c) /\ Len(c) \in Nat
      /\ \A i \in 1 .. n : s[i] = c[i]
  BY <1>1, <1>2, SubSeqProperties, LenProperties
<1> HIDE DEF s
<1>5. Sensible(s, tier)
  <2>1. s # <<>> /\ s[1] = tier
    BY <1>1, <1>2, <1>4, EmptySeq DEF Sensible
  <2>2. Ordered(s, Climbs)
    BY <1>1, <1>2, <1>4 DEF Sensible, Ordered
  <2> QED BY <2>1, <2>2 DEF Sensible
<1> QED BY <1>3, <1>4, <1>5

LEMMA GuardedChain ==
  ASSUME PolicyClimbs, NEW tier \in Tiers, NEW state,
         NEW base \in Seq(Tiers), Sensible(base, tier)
  PROVE  LET chain == BudgetGuardChain(tier, base, state)
             guarded == state \in DOMAIN Policy.guard /\ state \notin {"unknown", "reached"} IN
         /\ chain \in Seq(Tiers) /\ Ordered(chain, Climbs)
         /\ chain # <<>>
         /\ Members(chain) = IF guarded THEN Members(Policy.guard[state][tier]) \cap Members(base)
                             ELSE Members(base)
<1> DEFINE guarded == state \in DOMAIN Policy.guard /\ state \notin {"unknown", "reached"}
           guard   == Policy.guard[state][tier]
           stays   == Keep(guard, ToSet(base))
<1>1. CASE ~guarded
  BY <1>1 DEF BudgetGuardChain, Sensible
<1>2. CASE guarded
  <2>1. guard \in Seq(Tiers) /\ Sensible(guard, tier)
    BY <1>2, PolicyAssumption DEF PolicyClimbs
  <2>2. ToSet(base) = Members(base) /\ tier \in Members(base)
    BY EmptySeq, LenProperties DEF ToSet, Members, Sensible
  <2>3. BudgetGuardChain(tier, base, state) = IF stays = <<>> THEN <<base[1]>> ELSE stays
    BY <1>2 DEF BudgetGuardChain
  <2> HIDE DEF guard, guarded
  <2>4. tier \in Members(guard)
    BY <2>1, EmptySeq, LenProperties DEF Members, Sensible
  <2>5. stays \in Seq(Tiers)
    <3>1. stays \in Seq(Tiers \cap ToSet(base))
      BY <2>1, KeepType
    <3> HIDE DEF stays
    <3> QED BY <3>1, SeqMonotonic
  <2>6. Members(stays) = Members(guard) \cap Members(base)
    BY <2>1, <2>2, KeepMembers
  <2>7. Ordered(stays, Climbs)
    BY <2>1, KeepOrdered DEF Sensible
  <2> HIDE DEF stays
  <2>8. stays # <<>>
    <3>1. Members(<<>>) = {}
      BY DEF Members
    <3> QED BY <2>2, <2>4, <2>6, <3>1
  <2> QED BY <1>2, <2>3, <2>5, <2>6, <2>7, <2>8 DEF guard, guarded
<1> QED BY <1>1, <1>2

(* The attempts of a plan, tier by tier.                                   *)
LEMMA PlanTiers ==
  ASSUME PolicyClimbs, NEW p, NEW state, NEW m
  PROVE  LET made  == BuildExecutionPlan(p, state, m)
             tier  == made.route.tier
             chain == BudgetGuardChain(tier, EscalationChain(tier), state) IN
         /\ tier \in Tiers
         /\ made.blocked <=> state = "reached"
         /\ state = "reached" => made.attempts = <<>>
         /\ state # "reached" =>
              /\ made.attempts # <<>> /\ DOMAIN made.attempts = DOMAIN chain
              /\ \A i \in DOMAIN chain : made.attempts[i].tier = chain[i]
<1> DEFINE route == BuildRoute(p)
           tier  == route.tier
           chain == BudgetGuardChain(tier, EscalationChain(tier), state)
           list  == [i \in DOMAIN chain |->
                       [tier |-> chain[i], model |-> ChooseModel(chain[i], m),
                        permissions |-> route.permissions]]
           made  == BuildExecutionPlan(p, state, m)
<1>1. /\ made.blocked = (state = "reached") /\ made.route = route
      /\ made.attempts = IF state = "reached" THEN <<>> ELSE list
  BY DEF BuildExecutionPlan
<1>2. tier \in Tiers
  BY DEF BuildRoute, Classify, Tiers
<1>3. chain \in Seq(Tiers) /\ chain # <<>>
  <2> HIDE DEF route
  <2> QED BY <1>2, EscalationClimbs, GuardedChain
<1> HIDE DEF chain, route, made
<1>4. DOMAIN list = DOMAIN chain /\ \A i \in DOMAIN chain : list[i].tier = chain[i]
  OBVIOUS
<1>5. list # <<>>
  <2>1. DOMAIN chain = 1 .. Len(chain) /\ Len(chain) >= 1 /\ Len(chain) \in Nat
    BY <1>3, EmptySeq, LenProperties
  <2>2. DOMAIN list # {} /\ DOMAIN <<>> = {}
    BY <1>4, <2>1
  <2> HIDE DEF list
  <2> QED BY <2>2
<1> HIDE DEF list
<1> QED BY <1>1, <1>2, <1>4, <1>5 DEF chain, made

(* While a plan waits, it is the one made for the quota state.             *)
PlanIsMade ==
  phase \in {"planned", "blocked"} =>
    /\ \E p, m : plan = BuildExecutionPlan(p, quota, m)
    /\ phase = "blocked" <=> plan.blocked

LEMMA PlanIsMadeStep ==
  ASSUME PlanIsMade, [Next]_vars
  PROVE  PlanIsMade'
<1>1. ASSUME NEW p \in Prompts, NEW a \in QuotaAnswers, NEW m \in Catalogs, MakePlan(p, a, m)
      PROVE  PlanIsMade'
  <2> DEFINE made == BuildExecutionPlan(p.signals, QuotaState(a), m)
  <2>1. \/ phase' = "raised"
        \/ plan' = made /\ quota' = QuotaState(a)
             /\ phase' = IF made.blocked THEN "blocked" ELSE "planned"
    BY <1>1 DEF MakePlan
  <2>2. plan' = made /\ quota' = QuotaState(a) =>
          \E q, n : plan' = BuildExecutionPlan(q, quota', n)
    OBVIOUS
  <2>3. made.blocked \in BOOLEAN
    BY DEF BuildExecutionPlan
  <2> HIDE DEF made
  <2> QED BY <2>1, <2>2, <2>3 DEF PlanIsMade
<1>2. CASE FirstAttempt \/ Continue
  BY <1>2 DEF FirstAttempt, Continue, StartTurn, PlanIsMade
<1>4. CASE Notification
  <2>1. Event
    BY <1>4, NotificationIsEvent
  <2> QED BY <2>1 DEF Event, PlanIsMade
<1>5. CASE TurnEnds
  <2>1. phase' \in {"raised", "done", "turn", "unproven"}
    BY <1>5 DEF TurnEnds, TurnRaises, JudgeBoth, Escalate, Judge, StartTurn, Finish
  <2> QED BY <2>1 DEF PlanIsMade
<1>3. CASE UNCHANGED vars
  BY <1>3 DEF vars, PlanIsMade
<1> QED BY <1>1, <1>2, <1>3, <1>4, <1>5 DEF Next, Execute

LEMMA MadePlansClimb ==
  ASSUME PolicyClimbs, PlanIsMade
  PROVE  PlansClimb
<1> SUFFICES ASSUME phase \in {"planned", "blocked"} PROVE PlansClimb
  BY DEF PlansClimb
<1> DEFINE tier      == plan.route.tier
           tiers     == ToSet([i \in DOMAIN plan.attempts |-> plan.attempts[i].tier])
           base      == EscalationChain(tier)
           chain(st) == BudgetGuardChain(tier, base, st)
<1>1. /\ tier \in Tiers /\ (phase = "blocked" <=> quota = "reached")
      /\ quota = "reached" => plan.attempts = <<>>
      /\ quota # "reached" =>
           /\ plan.attempts # <<>> /\ DOMAIN plan.attempts = DOMAIN chain(quota)
           /\ \A i \in DOMAIN chain(quota) : plan.attempts[i].tier = chain(quota)[i]
  BY PlanTiers DEF PlanIsMade
<1>2. base \in Seq(Tiers) /\ Sensible(base, tier)
  BY <1>1, EscalationClimbs
<1> DEFINE guard(st)   == Policy.guard[st][tier]
           guarded(st) == st \in DOMAIN Policy.guard /\ st \notin {"unknown", "reached"}
<1>3. \A st : /\ chain(st) \in Seq(Tiers) /\ Ordered(chain(st), Climbs)
              /\ Members(chain(st)) = IF guarded(st) THEN Members(guard(st)) \cap Members(base)
                                      ELSE Members(base)
  <2> HIDE DEF base, tier
  <2> QED BY <1>1, <1>2, GuardedChain
<1>4. \A s : ToSet(s) = Members(s)
  BY DEF ToSet, Members
<1>5. quota = "reached" => tiers = {}
  BY <1>1, <1>4 DEF Members
<1>6. quota # "reached" => tiers = Members(chain(quota))
  <2> SUFFICES ASSUME quota # "reached" PROVE tiers = Members(chain(quota))
    OBVIOUS
  <2> DEFINE f == [i \in DOMAIN plan.attempts |-> plan.attempts[i].tier]
             c == chain(quota)
  <2>1. DOMAIN f = DOMAIN c /\ \A i \in DOMAIN c : f[i] = c[i]
    BY <1>1
  <2>2. tiers = ToSet(f)
    OBVIOUS
  <2> HIDE DEF f, c, tiers
  <2> QED BY <1>4, <2>1, <2>2 DEF Members, c
<1>7. /\ DOMAIN States = 1 .. 4
      /\ \A i \in 1 .. 4 : States[i] \notin {"unknown", "reached"}
  BY DEF States
<1>8. \A i \in 1 .. 4, j \in 1 .. 4 :
        /\ guarded(States[i])
        /\ j <= i => Members(guard(States[i])) \subseteq Members(guard(States[j]))
  BY <1>1, <1>7 DEF PolicyClimbs
<1> HIDE DEF tiers, chain, base, guard, guarded
<1>9. phase = "blocked" <=> plan.attempts = <<>>
  BY <1>1
<1>10. \A i, j \in DOMAIN plan.attempts :
         i < j => TierRank[plan.attempts[i].tier] < TierRank[plan.attempts[j].tier]
  <2> SUFFICES ASSUME NEW i \in DOMAIN plan.attempts, NEW j \in DOMAIN plan.attempts, i < j
               PROVE  TierRank[plan.attempts[i].tier] < TierRank[plan.attempts[j].tier]
    OBVIOUS
  <2> DEFINE c == chain(quota)
  <2>1. i \in DOMAIN c /\ j \in DOMAIN c /\ plan.attempts[i].tier = c[i]
          /\ plan.attempts[j].tier = c[j]
    BY <1>1
  <2>2. Ordered(c, Climbs)
    BY <1>3
  <2> HIDE DEF c
  <2>3. <<c[i], c[j]>> \in Climbs
    BY <2>1, <2>2 DEF Ordered
  <2> QED BY <2>1, <2>3 DEF Climbs
<1>11. tiers \subseteq ToSet(EscalationChain(tier))
  BY <1>3, <1>4, <1>5, <1>6 DEF base
<1>12. \A i \in 1 .. 4 : quota = States[i] =>
         \A j \in 1 .. i : tiers \subseteq ToSet(chain(States[j]))
  BY <1>3, <1>4, <1>6, <1>7, <1>8
<1>13. \A i \in DOMAIN States : quota = States[i] =>
         \A j \in 1 .. i :
           tiers \subseteq ToSet(BudgetGuardChain(tier, EscalationChain(tier), States[j]))
  BY <1>7, <1>12 DEF chain, base
<1> QED BY <1>9, <1>10, <1>11, <1>13 DEF PlansClimb, States, tiers

(* With a policy that climbs, every plan climbs, and leaves less the less  *)
(* quota is left. (budget_adapter.py: build_execution_plan; cx.py:         *)
(* budget_guard_chain.)                                                    *)
THEOREM EveryPlanClimbs ==
  ASSUME PolicyClimbs
  PROVE  Spec => []PlansClimb
<1>1. Init => PlanIsMade
  BY DEF Init, PlanIsMade
<1>2. PlanIsMade /\ [Next]_vars => PlanIsMade'
  BY PlanIsMadeStep
<1>3. PlanIsMade => PlansClimb
  BY MadePlansClimb
<1> QED BY <1>1, <1>2, <1>3, PTL DEF Spec

-------------------------------------------------------------------------------
(* Verdicts. What a shell line shows, what a verdict rests on, and that    *)
(* the records of a prompt's turns tell what happened.                     *)

(* What is run is run segment by segment: a recursive function, that there *)
(* is one of.                                                              *)
NothingRan == [ok |-> TRUE, ran |-> TRUE, out |-> FALSE, passed |-> {}, failed |-> {}]

OneThatRan(F, line, codes, n) ==
  F = [i \in 0 .. n |-> IF i = 0 THEN NothingRan ELSE AfterSegment(line, codes, i, F[i - 1])]

LEMMA RunningExists ==
  ASSUME NEW line, NEW codes, NEW n \in Nat
  PROVE  \E F : OneThatRan(F, line, codes, n)
<1> DEFINE G == {m \in Nat : \E F : OneThatRan(F, line, codes, m)}
<1>1. 0 \in G
  <2> DEFINE F == [i \in 0 .. 0 |-> NothingRan]
  <2>1. OneThatRan(F, line, codes, 0)
    BY DEF OneThatRan
  <2> QED BY <2>1
<1>2. ASSUME NEW m \in G PROVE m + 1 \in G
  <2>1. PICK F : OneThatRan(F, line, codes, m)
    OBVIOUS
  <2> DEFINE H == [i \in 0 .. m + 1 |->
                     IF i <= m THEN F[i] ELSE AfterSegment(line, codes, i, F[i - 1])]
  <2>2. \A i \in 0 .. m : H[i] = F[i]
    OBVIOUS
  <2>3. \A i \in 0 .. m :
          F[i] = IF i = 0 THEN NothingRan ELSE AfterSegment(line, codes, i, F[i - 1])
    BY <2>1 DEF OneThatRan
  <2>4. ASSUME NEW i \in 0 .. m + 1
        PROVE  H[i] = IF i = 0 THEN NothingRan ELSE AfterSegment(line, codes, i, H[i - 1])
    <3>1. CASE i = 0
      BY <2>2, <2>3, <3>1
    <3>2. CASE i \in 1 .. m
      <4>1. i - 1 \in 0 .. m /\ i \in 0 .. m /\ i # 0
        BY <3>2
      <4>2. H[i - 1] = F[i - 1] /\ H[i] = F[i]
        BY <2>2, <4>1
      <4> HIDE DEF H
      <4> QED BY <2>3, <4>1, <4>2
    <3>3. CASE i = m + 1
      <4>1. i - 1 = m /\ i - 1 \in 0 .. m /\ i # 0 /\ ~(i <= m)
        BY <3>3
      <4>2. H[i - 1] = F[i - 1]
        BY <2>2, <4>1
      <4>3. H[i] = AfterSegment(line, codes, i, F[i - 1])
        BY <4>1
      <4> HIDE DEF H
      <4> QED BY <4>1, <4>2, <4>3
    <3> QED BY <3>1, <3>2, <3>3
  <2>5. OneThatRan(H, line, codes, m + 1)
    <3>1. H = [i \in 0 .. m + 1 |-> H[i]]
      OBVIOUS
    <3> HIDE DEF H
    <3> QED BY <2>4, <3>1 DEF OneThatRan
  <2> QED BY <2>5
<1>3. G \subseteq Nat
  OBVIOUS
<1> HIDE DEF G
<1>4. n \in G
  BY <1>1, <1>2, <1>3, NumbersInduct
<1> QED BY <1>4 DEF G

LEMMA RunsIsRunning ==
  ASSUME NEW line \in Seq(Segments), NEW codes
  PROVE  \E F : /\ F[0] = NothingRan
                /\ \A i \in 1 .. Len(line) : F[i] = AfterSegment(line, codes, i, F[i - 1])
                /\ Runs(line, codes) = F[Len(line)]
<1>0. Len(line) \in Nat
  BY LenProperties
<1>1. Runs(line, codes) = (CHOOSE F : OneThatRan(F, line, codes, Len(line)))[Len(line)]
  BY Zenon DEF Runs, OneThatRan, NothingRan
<1>2. \E F : OneThatRan(F, line, codes, Len(line))
  BY <1>0, RunningExists
<1>3. PICK F : OneThatRan(F, line, codes, Len(line)) /\ Runs(line, codes) = F[Len(line)]
  BY <1>1, <1>2
<1>4. \A i \in 0 .. Len(line) :
        F[i] = IF i = 0 THEN NothingRan ELSE AfterSegment(line, codes, i, F[i - 1])
  BY <1>3 DEF OneThatRan
<1>5. F[0] = NothingRan /\ \A i \in 1 .. Len(line) : F[i] = AfterSegment(line, codes, i, F[i - 1])
  BY <1>0, <1>4
<1> QED BY <1>3, <1>5

(* Of what the masking rules accept, a success is one of every check.      *)
LEMMA UnmaskedIsHonest ==
  ASSUME NEW c \in Commands, ExitsSurvive(c.inner), ~LineMasked(c.inner),
         NEW codes \in Codes(c.inner), Runs(c.inner, codes).ok
  PROVE  /\ Runs(c.inner, codes).failed = {}
         /\ LineCategories(c.inner) \subseteq Runs(c.inner, codes).passed
<1> DEFINE line == c.inner
           n    == Len(line)
<1>0. /\ line \in Seq(Segments) /\ n \in Nat /\ DOMAIN line = 1 .. n
      /\ \A i \in 1 .. n : line[i] \in Segments
      /\ \A i \in 1 .. n : line[i].kind = "handsOn" => line[i].checks = {}
      /\ \A i \in 1 .. n : line[i].op = "none" => i = n
  BY PromptAssumption, LenProperties DEF WellFormed
<1>1. /\ \A i \in 1 .. n : codes[i] \in BOOLEAN
      /\ \A i \in 1 .. n : line[i].checks = {} => codes[i]
  BY <1>0 DEF Codes
<1>2. /\ \A i \in 1 .. n : line[i].op # "||" /\ line[i].op # "&"
      /\ \A i \in 1 .. n : i < n /\ line[i].op = ";" => line[i + 1].kind = "handsOn"
      /\ \A i \in 1 .. n : line[i].op = "|" => line[i].checks = {} /\ line[i].kind # "handsOn"
      /\ \A i \in 1 .. n : line[i].kind = "handsOn" => i = n
  BY <1>0 DEF LineMasked, ExitsSurvive
<1>3. PICK F : /\ F[0] = NothingRan
               /\ \A i \in 1 .. n : F[i] = AfterSegment(line, codes, i, F[i - 1])
               /\ Runs(line, codes) = F[n]
  BY <1>0, RunsIsRunning
<1> DEFINE Ran     == [ok : BOOLEAN, ran : BOOLEAN, out : BOOLEAN, passed : SUBSET Categories,
                       failed : SUBSET Categories]
           Good(i) ==
             /\ F[i] \in Ran
             /\ F[i].ok => F[i].failed = {} /\ \A j \in 1 .. i : line[j].checks \subseteq F[i].passed
             /\ F[i].ran /\ i > 0 /\ line[i].kind # "handsOn" => F[i].ok = codes[i]
             /\ ~F[i].ran => ~F[i].ok
             /\ i < n => ~F[i].out
           G == {i \in Nat : i <= n => Good(i)}
<1>4. 0 \in G
  <2>1. /\ NothingRan \in Ran /\ NothingRan.failed = {} /\ NothingRan.ran
        /\ ~NothingRan.out
    BY DEF NothingRan
  <2>2. \A j \in 1 .. 0 : FALSE
    OBVIOUS
  <2> HIDE DEF Ran
  <2> QED BY <1>3, <2>1, <2>2
<1>5. ASSUME NEW k \in G PROVE k + 1 \in G
  <2> SUFFICES ASSUME k + 1 <= n PROVE Good(k + 1)
    OBVIOUS
  <2> DEFINE i  == k + 1
             b  == F[k]
             s  == line[i]
             op == IF i = 1 THEN ";" ELSE line[i - 1].op
             runs == \/ op = "&&" /\ b.ok
                     \/ op = "||" /\ ~b.ok
                     \/ op = "|" /\ b.ran
                     \/ op \in {";", "&"}
             p == b.passed \cup (IF codes[i] THEN s.checks ELSE {})
             f == b.failed \cup (IF codes[i] THEN {} ELSE s.checks)
  <2>1. i \in 1 .. n /\ i - 1 = k /\ k <= n /\ k \in Nat
    BY <1>0
  <2>2. k # n
    <3> HIDE DEF n
    <3> QED BY <1>0
  <2>3. Good(k)
    BY <2>1
  <2>4. F[i] = IF ~runs THEN [b EXCEPT !.ran = FALSE]
               ELSE [ok     |-> IF s.kind = "handsOn" THEN b.ok ELSE codes[i],
                     ran    |-> TRUE, out |-> s.kind = "handsOn", passed |-> p, failed |-> f]
    <3>1. F[i] = AfterSegment(line, codes, i, F[i - 1])
      BY <1>3, <2>1
    <3>2. ~b.out
      BY <2>1, <2>3, <2>2
    <3>3. ~Unawaited(line, i)
      <4>1. i > 1 => i - 1 \in 1 .. n
        BY <1>0, <2>1
      <4> QED BY <1>2, <2>1, <4>1 DEF Unawaited
    <3> QED BY <2>1, <3>1, <3>2, <3>3 DEF AfterSegment
  <2>5. /\ s \in Segments /\ codes[i] \in BOOLEAN /\ (s.checks = {} => codes[i])
        /\ s.kind = "handsOn" => s.checks = {}
    BY <1>0, <1>1, <2>1
  <2>6. /\ b \in Ran
        /\ b.ok => b.failed = {} /\ \A j \in 1 .. k : line[j].checks \subseteq b.passed
        /\ ~b.ran => ~b.ok
    BY <2>3
  <2>7. p \in SUBSET Categories /\ f \in SUBSET Categories
    BY <2>5, <2>6 DEF Segments
  <2>8. CASE ~runs
    <3>1. ~b.ok
      <4>1. CASE i = 1
        BY <2>8, <4>1
      <4>2. CASE i # 1
        <5>1. k \in 1 .. n /\ k < n /\ op = line[k].op
          BY <2>1, <4>2
        <5>2. line[k].op \in {"&&", ";", "&", "|"}
          <6>1. line[k] \in Segments /\ line[k].op # "||"
            BY <1>0, <1>2, <5>1
          <6>2. line[k].op = "none" => k = n
            BY <1>0, <5>1
          <6> QED BY <2>2, <6>1, <6>2 DEF Segments
        <5> QED BY <2>6, <2>8, <5>1, <5>2
      <4> QED BY <4>1, <4>2
    <3>2. F[i] = [b EXCEPT !.ran = FALSE]
      BY <2>4, <2>8
    <3>3. F[i] \in Ran /\ ~F[i].ok /\ ~F[i].ran /\ ~F[i].out
      <4>1. ~b.out
        BY <2>1, <2>2, <2>3
      <4> HIDE DEF b, runs
      <4> QED BY <2>6, <3>1, <3>2, <4>1
    <3> HIDE DEF Ran
    <3> QED BY <3>3
  <2>9. CASE runs
    <3>1. F[i] = [ok |-> IF s.kind = "handsOn" THEN b.ok ELSE codes[i], ran |-> TRUE,
                  out |-> s.kind = "handsOn", passed |-> p, failed |-> f]
      BY <2>4, <2>9
    <3>2. F[i] \in Ran /\ F[i].ran /\ F[i].ok = (IF s.kind = "handsOn" THEN b.ok ELSE codes[i])
            /\ F[i].out = (s.kind = "handsOn") /\ F[i].passed = p /\ F[i].failed = f
      <4>1. (IF s.kind = "handsOn" THEN b.ok ELSE codes[i]) \in BOOLEAN
        BY <2>5, <2>6
      <4> HIDE DEF p, f, b, s
      <4> QED BY <2>7, <3>1, <4>1
    <3>3. F[i].ok => b.ok /\ codes[i]
      <4> SUFFICES ASSUME F[i].ok PROVE b.ok /\ codes[i]
        OBVIOUS
      <4>1. CASE s.kind = "handsOn"
        BY <2>5, <3>2, <4>1
      <4>2. CASE s.kind # "handsOn" /\ i = 1
        <5>1. k = 0
          BY <2>1, <4>2
        <5> QED BY <1>3, <3>2, <4>2, <5>1 DEF NothingRan
      <4>3. CASE s.kind # "handsOn" /\ i # 1
        <5>1. k \in 1 .. n /\ k < n /\ op = line[k].op /\ k > 0
          BY <2>1, <4>3
        <5>2. line[k].op \notin {";", "&"} /\ op # "||"
          BY <1>2, <4>3, <5>1
        <5>3. CASE op = "&&"
          BY <2>9, <3>2, <4>3, <5>3
        <5>4. CASE op = "|"
          <6>1. b.ran /\ line[k].checks = {} /\ line[k].kind # "handsOn"
            BY <1>2, <2>9, <5>1, <5>4
          <6>2. b.ok = codes[k] /\ codes[k]
            BY <1>1, <2>3, <5>1, <6>1
          <6> QED BY <3>2, <4>3, <6>2
        <5> QED BY <2>9, <5>1, <5>2, <5>3, <5>4
      <4> QED BY <4>1, <4>2, <4>3
    <3>4. F[i].ok => F[i].failed = {} /\ \A j \in 1 .. i : line[j].checks \subseteq F[i].passed
      <4> SUFFICES ASSUME F[i].ok
                   PROVE  F[i].failed = {} /\ \A j \in 1 .. i : line[j].checks \subseteq F[i].passed
        OBVIOUS
      <4>1. b.ok /\ codes[i]
        BY <3>3
      <4>2. p = b.passed \cup s.checks /\ f = {}
        BY <2>6, <4>1
      <4>3. ASSUME NEW j \in 1 .. i PROVE line[j].checks \subseteq p
        <5>1. j \in 1 .. k \/ j = i
          BY <2>1
        <5> QED BY <2>6, <4>1, <4>2, <5>1
      <4> QED BY <3>2, <4>2, <4>3
    <3>5. i < n => ~F[i].out
      <4>1. s.kind = "handsOn" => i = n
        BY <1>2, <2>1
      <4> QED BY <1>0, <2>1, <3>2, <4>1
    <3> HIDE DEF Ran, p, f, b
    <3> QED BY <3>2, <3>4, <3>5
  <2> QED BY <2>8, <2>9
<1>6. G \subseteq Nat
  OBVIOUS
<1>7. n \in G
  <2> HIDE DEF G
  <2> QED BY <1>0, <1>4, <1>5, <1>6, NumbersInduct
<1>8. Runs(line, codes).ok
  OBVIOUS
<1>9. F[n].failed = {} /\ \A j \in 1 .. n : line[j].checks \subseteq F[n].passed
  <2>1. Good(n)
    BY <1>0, <1>7
  <2> QED BY <1>3, <1>8, <2>1
<1> QED BY <1>0, <1>3, <1>9 DEF LineCategories

(* What a record shows.                                                    *)
Passes(r) == r.exit = "zero" /\ ~r.masked
Tests(r)  == Passes(r) /\ "TEST" \in r.cats

Wants(g, r) == r.name = g.name /\ SurfaceMatches(g.surface, r.surface)

(* Record i is the last that a gate wants.                                 *)
Newest(g, records, i) ==
  Wants(g, records[i]) /\ \A j \in DOMAIN records : Wants(g, records[j]) => j <= i

Ascending(records) ==
  \A i, j \in DOMAIN records : i < j => records[i].seq < records[j].seq

LEMMA FirstInIs ==
  ASSUME NEW n \in Nat, NEW T, NEW order \in [1 .. n -> T], NEW set, NEW default
  PROVE  /\ (\E i \in 1 .. n : order[i] \in set) => FirstIn(order, set, default) \in set
         /\ FirstIn(order, set, default) \in T \cup {default}
<1> DEFINE found == {i \in DOMAIN order : order[i] \in set}
           least == CHOOSE i \in found : \A j \in found : i <= j
<1>1. FirstIn(order, set, default) = IF found = {} THEN default ELSE order[least]
  BY DEF FirstIn
<1>2. CASE found = {}
  BY <1>1, <1>2
<1>3. CASE found # {}
  <2>1. found \in SUBSET Nat
    OBVIOUS
  <2>2. \E i \in found : \A j \in found : i <= j
    <3> HIDE DEF found
    <3> QED BY <1>3, <2>1, LeastExists
  <2>3. least \in found
    <3> HIDE DEF found
    <3> QED BY <2>2
  <2> HIDE DEF least
  <2> QED BY <1>1, <1>3, <2>3
<1> QED BY <1>2, <1>3

(* A record passes when its exit code counts; only a test's is a pass of a *)
(* test.                                                                   *)
LEMMA PassingOutcome ==
  ASSUME NEW r, Outcome(r).outcome = "PASSED"
  PROVE  Passes(r) /\ (Outcome(r).category = "TEST" => "TEST" \in r.cats)
<1>1. r.exit = "zero"
  BY DEF Outcome, ExitOutcome, FailureOutcome, ObstacleOutcome, Judged
<1>2. ~r.masked /\ Outcome(r).category = Primary(r)
  BY <1>1 DEF Outcome, ExitOutcome, Judged
<1>3. Primary(r) = "TEST" => "TEST" \in r.cats
  <2>1. CategoryOrder \in [1 .. 4 -> {"TEST", "TYPECHECK", "LINT", "BUILD"}]
    BY DEF CategoryOrder
  <2>4. 4 \in Nat
    OBVIOUS
  <2> SUFFICES ASSUME FirstIn(CategoryOrder, r.cats, "OTHER") = "TEST" PROVE "TEST" \in r.cats
    BY DEF Primary
  <2>2. CASE \E i \in 1 .. 4 : CategoryOrder[i] \in r.cats
    <3>1. FirstIn(CategoryOrder, r.cats, "OTHER") \in r.cats
      BY <2>1, <2>2, <2>4, FirstInIs, Zenon
    <3> QED BY <3>1
  <2>3. CASE ~(\E i \in 1 .. 4 : CategoryOrder[i] \in r.cats)
    <3>1. FirstIn(CategoryOrder, r.cats, "OTHER") = "OTHER"
      <4>1. DOMAIN CategoryOrder = 1 .. 4
        BY <2>1
      <4>2. {i \in DOMAIN CategoryOrder : CategoryOrder[i] \in r.cats} = {}
        BY <2>3, <4>1
      <4> QED BY <4>2 DEF FirstIn
    <3> QED BY <3>1
  <2> QED BY <2>2, <2>3
<1> QED BY <1>1, <1>2, <1>3 DEF Passes

LEMMA OutcomeType ==
  ASSUME NEW r
  PROVE  Outcome(r).outcome \in {"PASSED", "BLOCKED", "INTERRUPTED", "FAILED", "INCONCLUSIVE"}
BY DEF Outcome, ExitOutcome, FailureOutcome, ObstacleOutcome, Judged

(* A change is verified by a test that passed after it.                    *)
LEMMA CoreEarned ==
  ASSUME NEW changed, NEW records, NEW last, NEW snd, NEW skip, NEW q,
         AssessCore(changed, records, last, snd, skip, q).status = "VERIFIED"
  PROVE  \E i \in DOMAIN records : records[i].seq > last /\ Tests(records[i])
<1> DEFINE kind == DominantCategory({FileCategory(f) : f \in changed})
           ev   == Evidence(records, last)
<1>1. JudgeChange(kind, ev, snd, q).status = "VERIFIED"
  <2>1. \A s, r : /\ Assessed(s, r).status = s
                  /\ [Assessed(s, r) EXCEPT !.audit = AuditStatus(records)].status = s
    BY DEF Assessed
  <2> DEFINE core == AssessCore(changed, records, last, snd, skip, q)
             none == [Assessed("NOT_APPLICABLE", "NO_MUTATION") EXCEPT !.audit = AuditStatus(records)]
  <2>2. core \in {JudgeChange(kind, ev, snd, q), Assessed("UNVERIFIED", "USER_REQUESTED_SKIP"),
                  none, Assessed("NOT_APPLICABLE", "DOCS_ONLY_MUTATION")}
    BY DEF AssessCore
  <2>3. core.status = "VERIFIED" /\ none.status = "NOT_APPLICABLE"
    BY <2>1
  <2> HIDE DEF core, none
  <2> QED BY <2>1, <2>2, <2>3
<1>2. Passed(ev, {"TEST"})
  <2> HIDE DEF ev, kind
  <2> QED BY <1>1 DEF JudgeChange, FinalVerdict, FirstVerdict, Assessed
<1>3. PICK i \in DOMAIN records : /\ records[i].seq > last
                                  /\ Outcome(records[i]).outcome = "PASSED"
                                  /\ Outcome(records[i]).category = "TEST"
  BY <1>2 DEF Passed, Evidence
<1> QED BY <1>3, PassingOutcome DEF Tests

(* A gate is passed by the newest record that it wants.                    *)
LEMMA GateEarned ==
  ASSUME NEW T, NEW records \in Seq(T), \A i \in DOMAIN records : records[i].seq \in Nat,
         Ascending(records), NEW g, GateOutcome(g, records) = "PASSED"
  PROVE  \E i \in DOMAIN records : Newest(g, records, i) /\ Passes(records[i])
<1> DEFINE runs == {i \in DOMAIN records : Wants(g, records[i])}
           Last1(i) == \A j \in runs : \/ records[j].seq < records[i].seq
                                       \/ records[j].seq = records[i].seq /\ j <= i
           newest == CHOOSE i \in runs : Last1(i)
<1>1. GateOutcome(g, records) = IF runs = {} THEN "MISSING" ELSE Outcome(records[newest]).outcome
  BY DEF GateOutcome, Wants
<1>2. runs # {} /\ Outcome(records[newest]).outcome = "PASSED"
  BY <1>1
<1>3. \E i \in runs : \A j \in runs : j <= i
  <2> DEFINE n == Len(records)
             S == {n - i : i \in runs}
  <2>1. n \in Nat /\ DOMAIN records = 1 .. n
    BY LenProperties
  <2>2. S \in SUBSET Nat /\ S # {}
    BY <1>2, <2>1
  <2>3. PICK m \in S : \A k \in S : m <= k
    <3> HIDE DEF S
    <3> QED BY <2>2, LeastExists
  <2>4. PICK i \in runs : m = n - i
    OBVIOUS
  <2>5. ASSUME NEW j \in runs PROVE j <= i
    <3>1. n - i <= n - j
      BY <2>3, <2>4
    <3>2. i \in Nat /\ j \in Nat
      BY <2>1
    <3> QED BY <2>1, <3>1, <3>2
  <2> QED BY <2>5
<1>4. PICK i \in runs : \A j \in runs : j <= i
  BY <1>3
<1>5. Last1(i)
  <2> SUFFICES ASSUME NEW j \in runs
               PROVE  \/ records[j].seq < records[i].seq
                      \/ records[j].seq = records[i].seq /\ j <= i
    OBVIOUS
  <2>1. j <= i /\ i \in DOMAIN records /\ j \in DOMAIN records
    BY <1>4
  <2>2. i \in Nat /\ j \in Nat
    BY <2>1, LenProperties
  <2>3. j < i \/ j = i
    BY <2>1, <2>2
  <2> QED BY <2>1, <2>3 DEF Ascending
<1>6. newest \in runs /\ Last1(newest)
  <2> HIDE DEF runs, Last1
  <2> QED BY <1>5
<1> HIDE DEF newest
<1>7. Newest(g, records, newest)
  <2>1. ASSUME NEW j \in runs PROVE j <= newest
    <3>1. j \in DOMAIN records /\ newest \in DOMAIN records
      BY <1>6
    <3>2. j \in Nat /\ newest \in Nat /\ records[j].seq \in Nat /\ records[newest].seq \in Nat
      BY <3>1, LenProperties
    <3>3. records[j].seq <= records[newest].seq
      BY <1>6, <3>2
    <3>4. newest < j => records[newest].seq < records[j].seq
      BY <3>1 DEF Ascending
    <3> QED BY <3>2, <3>3, <3>4
  <2> QED BY <1>6, <2>1 DEF Newest
<1> QED BY <1>2, <1>6, <1>7, PassingOutcome

Bad == {"INTERRUPTED", "FAILED", "BLOCKED", "INCONCLUSIVE"}

LEMMA WorstIs ==
  ASSUME NEW outcomes
  PROVE  /\ FirstIn(CoverageOrder, outcomes, NoOne) \in Bad \cup {NoOne}
         /\ (\E x \in Bad : x \in outcomes) => FirstIn(CoverageOrder, outcomes, NoOne) \in outcomes
<1>1. CoverageOrder \in [1 .. 4 -> Bad] /\ \A x \in Bad : \E i \in 1 .. 4 : CoverageOrder[i] = x
  BY DEF CoverageOrder, Bad
<1> DEFINE none == NoOne
<1>2. 4 \in Nat
  OBVIOUS
<1> HIDE DEF none
<1>3. /\ FirstIn(CoverageOrder, outcomes, none) \in Bad \cup {none}
      /\ (\E i \in 1 .. 4 : CoverageOrder[i] \in outcomes) =>
           FirstIn(CoverageOrder, outcomes, none) \in outcomes
  BY <1>1, <1>2, FirstInIs, Zenon
<1> QED BY <1>1, <1>3 DEF none

LEMMA CoverageType ==
  ASSUME NEW gates, NEW records
  PROVE  Coverage(gates, records, FALSE)
           \in Bad \cup {"UNVERIFIED", "PARTIALLY_PASSED", "ALL_PASSED"}
<1> DEFINE outcomes == {GateOutcome(g, records) : g \in gates}
           worst    == FirstIn(CoverageOrder, outcomes, NoOne)
<1>1. Coverage(gates, records, FALSE) =
        IF worst # NoOne THEN worst
        ELSE IF outcomes = {"MISSING"} THEN "UNVERIFIED"
        ELSE IF "MISSING" \in outcomes THEN "PARTIALLY_PASSED" ELSE "ALL_PASSED"
  BY DEF Coverage
<1>2. worst \in Bad \cup {NoOne}
  BY WorstIs
<1> HIDE DEF outcomes, worst
<1> QED BY <1>1, <1>2

LEMMA CoverageEarned ==
  ASSUME NEW gates, NEW records, Coverage(gates, records, FALSE) = "ALL_PASSED"
  PROVE  \A g \in gates : GateOutcome(g, records) = "PASSED"
<1> DEFINE outcomes == {GateOutcome(g, records) : g \in gates}
           worst    == FirstIn(CoverageOrder, outcomes, NoOne)
<1>1. Coverage(gates, records, FALSE) =
        IF worst # NoOne THEN worst
        ELSE IF outcomes = {"MISSING"} THEN "UNVERIFIED"
        ELSE IF "MISSING" \in outcomes THEN "PARTIALLY_PASSED" ELSE "ALL_PASSED"
  BY DEF Coverage
<1>2. worst \in Bad \cup {NoOne} /\ ((\E x \in Bad : x \in outcomes) => worst \in outcomes)
  BY WorstIs
<1>3. \A g : GateOutcome(g, records) \in {"MISSING", "PASSED"} \cup Bad
  BY OutcomeType DEF GateOutcome, Bad
<1>4. worst = NoOne /\ "MISSING" \notin outcomes
  <2> HIDE DEF outcomes, worst
  <2> QED BY <1>1, <1>2 DEF NoOne, Bad
<1>5. \A x \in outcomes : x \in {"MISSING", "PASSED"} \cup Bad
  BY <1>3
<1>6. NoOne \notin {"MISSING", "PASSED"} \cup Bad
  BY DEF NoOne, Bad
<1>7. \A x \in outcomes : x = "PASSED"
  <2> HIDE DEF outcomes, worst
  <2> QED BY <1>2, <1>4, <1>5, <1>6
<1> QED BY <1>7

IsAssessment(base) ==
  \E s, r, c, a : base = [status |-> s, reason |-> r, continue |-> c, audit |-> a]

(* No demanded gate, or all passed, leaves a verdict as it is.             *)
LEMMA RequiredEarned ==
  ASSUME NEW base, IsAssessment(base), NEW gates, NEW records,
         ApplyRequired(base, gates, records).status = "VERIFIED"
  PROVE  base.status = "VERIFIED" /\ \A g \in gates : GateOutcome(g, records) = "PASSED"
<1> DEFINE coverage == Coverage(gates, records, base.status = "INTERRUPTED")
           lowered(status, reason) == [base EXCEPT !.status = status, !.reason = reason]
<1>1. CASE gates = {}
  BY <1>1 DEF ApplyRequired
<1>2. CASE gates # {}
  <2> DEFINE out == ApplyRequired(base, gates, records)
  <2>1. \A x, y : lowered(x, y).status = x
    BY DEF IsAssessment
  <2>2. out = base
        \/ \E x \in {"FAILED", "BLOCKED", "INTERRUPTED", "PARTIALLY_VERIFIED"} : \E y :
             out = lowered(x, y)
    BY <1>2 DEF ApplyRequired
  <2>3. base.status = "VERIFIED" /\ out = base
    <3> HIDE DEF lowered
    <3> QED BY <2>1, <2>2
  <2>4. coverage \notin {"FAILED", "BLOCKED", "INTERRUPTED", "PARTIALLY_PASSED", "INCONCLUSIVE",
                         "UNVERIFIED"}
    <3>1. lowered("FAILED", "REQUIRED_GATE_FAILED") # base
            /\ lowered("BLOCKED", "REQUIRED_GATE_BLOCKED") # base
            /\ lowered("INTERRUPTED", "INTERRUPTED") # base
            /\ lowered("PARTIALLY_VERIFIED", "REQUIRED_GATES_INCOMPLETE") # base
      BY <2>1, <2>3
    <3>2. out = CASE coverage = "FAILED" -> lowered("FAILED", "REQUIRED_GATE_FAILED")
             [] coverage = "BLOCKED" /\ base.status # "FAILED" ->
                  lowered("BLOCKED", "REQUIRED_GATE_BLOCKED")
             [] coverage = "INTERRUPTED" -> lowered("INTERRUPTED", "INTERRUPTED")
             [] coverage \in {"PARTIALLY_PASSED", "INCONCLUSIVE", "UNVERIFIED"}
                  /\ base.status = "VERIFIED" ->
                  lowered("PARTIALLY_VERIFIED", "REQUIRED_GATES_INCOMPLETE")
             [] OTHER -> base
      BY <1>2 DEF ApplyRequired
    <3> HIDE DEF out, lowered, coverage
    <3> QED BY <2>3, <3>1, <3>2
  <2>5. coverage = Coverage(gates, records, FALSE)
    <3>1. (base.status = "INTERRUPTED") = FALSE
      BY <2>3
    <3> QED BY <3>1
  <2>6. coverage = "ALL_PASSED"
    <3> HIDE DEF coverage
    <3> QED BY <2>4, <2>5, CoverageType DEF Bad
  <2> QED BY <2>3, <2>5, <2>6, CoverageEarned
<1> QED BY <1>1, <1>2

(* Every verdict before the gates are looked at has the fields of one.     *)
LEMMA CoreType ==
  ASSUME NEW changed, NEW records, NEW last, NEW snd, NEW skip, NEW q
  PROVE  IsAssessment(AssessCore(changed, records, last, snd, skip, q))
<1> DEFINE kind == DominantCategory({FileCategory(f) : f \in changed})
           ev   == Evidence(records, last)
           core == AssessCore(changed, records, last, snd, skip, q)
           none == [Assessed("NOT_APPLICABLE", "NO_MUTATION") EXCEPT !.audit = AuditStatus(records)]
<1>1. core \in {JudgeChange(kind, ev, snd, q), Assessed("UNVERIFIED", "USER_REQUESTED_SKIP"),
                none, Assessed("NOT_APPLICABLE", "DOCS_ONLY_MUTATION")}
  BY DEF AssessCore
<1>2. \A s, r : IsAssessment(Assessed(s, r))
  BY DEF Assessed, IsAssessment
<1>3. IsAssessment(none)
  <2>1. \A s, r, c, a, b :
          [[status |-> s, reason |-> r, continue |-> c, audit |-> a] EXCEPT !.audit = b]
            = [status |-> s, reason |-> r, continue |-> c, audit |-> b]
    OBVIOUS
  <2>2. \A b : [Assessed("NOT_APPLICABLE", "NO_MUTATION") EXCEPT !.audit = b]
              = [status |-> "NOT_APPLICABLE", reason |-> "NO_MUTATION", continue |-> FALSE,
                 audit |-> b]
    BY <2>1 DEF Assessed
  <2>3. \A b : IsAssessment([Assessed("NOT_APPLICABLE", "NO_MUTATION") EXCEPT !.audit = b])
    BY <2>2, Zenon DEF IsAssessment
  <2> QED BY <2>3
<1>4. IsAssessment(JudgeChange(kind, ev, snd, q))
  <2>1. IsAssessment(FirstVerdict(q))
    BY DEF FirstVerdict, Assessed, IsAssessment
  <2>2. IsAssessment(FinalVerdict(ev))
    <3> HIDE DEF ev
    <3> QED BY <1>2 DEF FinalVerdict
  <2> HIDE DEF kind, ev
  <2> QED BY <1>2, <2>1, <2>2 DEF JudgeChange
<1> HIDE DEF core, none, kind, ev
<1>5. IsAssessment(core)
  BY <1>1, <1>2, <1>3, <1>4
<1> QED BY <1>5 DEF core

(* What an assessment of VERIFIED rests on.                                *)
LEMMA AssessmentEarned ==
  ASSUME NEW changed, NEW T, NEW records \in Seq(T),
         \A i \in DOMAIN records : records[i].seq \in Nat, Ascending(records),
         NEW last, NEW stopped \in BOOLEAN,
         Assessment(changed, records, last, stopped).status = "VERIFIED"
  PROVE  /\ ~stopped
         /\ \E i \in DOMAIN records : records[i].seq > last /\ Tests(records[i])
         /\ \A g \in task.gates : \E i \in DOMAIN records :
              Newest(g, records, i) /\ Passes(records[i])
<1>1. CASE stopped
  <2> DEFINE base == Assessed("INTERRUPTED", "INTERRUPTED")
  <2>1. IsAssessment(base) /\ base.status # "VERIFIED"
    BY DEF Assessed, IsAssessment
  <2>2. ApplyRequired(base, task.gates, records).status = "VERIFIED"
    BY <1>1 DEF Assessment
  <2> HIDE DEF base
  <2> QED BY <2>1, <2>2, RequiredEarned
<1>2. CASE ~stopped
  <2> DEFINE core == AssessCore(changed, records, last, second, task.skip, quota)
  <2>1. IsAssessment(core)
    BY CoreType
  <2>2. ApplyRequired(core, task.gates, records).status = "VERIFIED"
    BY <1>2 DEF Assessment, AssessTurn
  <2>3. core.status = "VERIFIED" /\ \A g \in task.gates : GateOutcome(g, records) = "PASSED"
    <3> HIDE DEF core
    <3> QED BY <2>1, <2>2, RequiredEarned
  <2>4. \E i \in DOMAIN records : records[i].seq > last /\ Tests(records[i])
    BY <2>3, CoreEarned
  <2>5. ASSUME NEW g \in task.gates
        PROVE  \E i \in DOMAIN records : Newest(g, records, i) /\ Passes(records[i])
    <3>1. GateOutcome(g, records) = "PASSED"
      BY <2>3
    <3> QED BY <3>1, GateEarned
  <2> QED BY <1>2, <2>4, <2>5
<1> QED BY <1>1, <1>2

-------------------------------------------------------------------------------
(* The records of a turn are numbered in their order, within the turn.     *)
Numbered(t) ==
  /\ t.lastMutation <= t.seq
  /\ \A i \in DOMAIN t.records : t.records[i].seq \in 1 .. t.seq
  /\ Ascending(t.records)

(* Records that would make a verdict tell what happened: a test after the  *)
(* last change, and the newest run of a gate, which is of the second turn  *)
(* if that has one. They do unless a turn holds what the runtime cannot    *)
(* see.                                                                    *)
TestKnown ==
  /\ \A i \in DOMAIN turn.records :
       turn.records[i].seq > turn.lastMutation /\ Tests(turn.records[i]) => tested
  /\ turn.lastMutation = 0 =>
       \A i \in DOMAIN first.records :
         first.records[i].seq > first.lastMutation /\ Tests(first.records[i]) => tested

GateKnown(g) ==
  /\ \A i \in DOMAIN turn.records :
       Newest(g, turn.records, i) /\ Passes(turn.records[i]) => g \in passedGates
  /\ (\A i \in DOMAIN turn.records : ~Wants(g, turn.records[i])) =>
       \A i \in DOMAIN first.records :
         Newest(g, first.records, i) /\ Passes(first.records[i]) => g \in passedGates

EvidenceInv ==
  /\ Numbered(turn) /\ Numbered(first)
  /\ ~second => first = NewTurn
  /\ phase \in {"turn", "unproven"} /\ ~blind =>
       TestKnown /\ \A g \in task.gates : GateKnown(g)

LEMMA NewTurnKnown == Numbered(NewTurn) /\ DOMAIN NewTurn.records = {} /\ NewTurn.lastMutation = 0
BY DEF NewTurn, Numbered, Ascending

(* A command that ran tells what its record shows.                         *)
LEMMA ObservedTrue ==
  ASSUME NEW c \in Commands, NEW ran, NEW finished \in BOOLEAN, NEW r,
         Observe(c, ran, finished),
         r.name = c.name, r.surface = ObservedSurface(c), r.cats = CommandCategories(c),
         r.masked = IsCommandMasked(c),
         Passes(r) =>
           /\ finished /\ ExitsSurvive(c.inner)
           /\ \E codes \in Codes(c.inner) : ran = Runs(c.inner, codes) /\ ran.ok
  PROVE  /\ tested => tested'
         /\ Tests(r) => tested'
         /\ \A g \in task.gates : IF Wants(g, r) THEN Passes(r) => g \in passedGates'
                                  ELSE g \in passedGates => g \in passedGates'
<1>1. Passes(r) => finished /\ ran.ok /\ ran.failed = {}
                     /\ LineCategories(c.inner) \subseteq ran.passed
  <2> SUFFICES ASSUME Passes(r)
               PROVE  finished /\ ran.ok /\ ran.failed = {}
                        /\ LineCategories(c.inner) \subseteq ran.passed
    OBVIOUS
  <2>1. PICK codes \in Codes(c.inner) : ran = Runs(c.inner, codes) /\ ran.ok
    OBVIOUS
  <2>2. ~LineMasked(c.inner) /\ ExitsSurvive(c.inner)
    BY DEF Passes, IsCommandMasked
  <2> QED BY <2>1, <2>2, UnmaskedIsHonest
<1>2. r.cats \subseteq LineCategories(c.inner)
  BY PromptAssumption DEF WellFormed, CommandCategories
<1> DEFINE met == {g \in task.gates : g.name = c.name
                                        /\ SurfaceMatches(g.surface, ObservedSurface(c))}
<1>3. tested' = (tested \/ (finished /\ "TEST" \in ran.passed))
  BY DEF Observe
<1>4. passedGates' = IF finished /\ ran.ok /\ ran.failed = {}
                     THEN passedGates \cup met ELSE passedGates \ met
  BY DEF Observe
<1>5. \A g \in task.gates : g \in met <=> Wants(g, r)
  BY DEF Wants
<1> HIDE DEF met
<1>6. (tested => tested') /\ (Tests(r) => tested')
  BY <1>1, <1>2, <1>3 DEF Tests
<1>7. \A g \in task.gates : IF Wants(g, r) THEN Passes(r) => g \in passedGates'
                            ELSE g \in passedGates => g \in passedGates'
  BY <1>1, <1>4, <1>5
<1> QED BY <1>6, <1>7

(* One more record.                                                        *)
LEMMA RecordKnown ==
  ASSUME TypeInv, EvidenceInv, phase = "turn", UNCHANGED <<phase, task, second, first>>,
         NEW r \in Records, r.seq = turn.seq + 1,
         turn'.records = Append(turn.records, r), turn'.seq = turn.seq + 1,
         turn'.lastMutation = turn.lastMutation,
         ~blind' =>
           /\ ~blind /\ (tested => tested') /\ (Tests(r) => tested')
           /\ \A g \in task.gates : IF Wants(g, r) THEN Passes(r) => g \in passedGates'
                                    ELSE g \in passedGates => g \in passedGates'
  PROVE  EvidenceInv'
<1> DEFINE n   == Len(turn.records)
           all == Append(turn.records, r)
<1>1. /\ turn.records \in Seq(Records) /\ n \in Nat /\ DOMAIN turn.records = 1 .. n
      /\ DOMAIN all = 1 .. n + 1 /\ all[n + 1] = r
      /\ \A i \in 1 .. n : all[i] = turn.records[i]
      /\ turn.seq \in Nat /\ turn.lastMutation \in Nat
  BY AppendProperties, LenProperties DEF TypeInv, Turns
<1>2. turn'.records = all
  OBVIOUS
<1> HIDE DEF n, all
<1>3. \A i \in 1 .. n + 1 : i \in 1 .. n \/ i = n + 1
  BY <1>1
<1>4. Numbered(turn')
  <2>1. \A i \in 1 .. n : all[i].seq \in 1 .. turn.seq
    BY <1>1 DEF EvidenceInv, Numbered
  <2>2. \A i \in 1 .. n + 1 : all[i].seq \in 1 .. turn.seq + 1
    BY <1>1, <1>3, <2>1
  <2>3. ASSUME NEW i \in 1 .. n + 1, NEW j \in 1 .. n + 1, i < j
        PROVE  all[i].seq < all[j].seq
    <3>1. i \in 1 .. n
      BY <1>1, <2>3
    <3>2. CASE j \in 1 .. n
      <4>1. turn.records[i].seq < turn.records[j].seq
        BY <1>1, <2>3, <3>1, <3>2 DEF EvidenceInv, Numbered, Ascending
      <4> QED BY <1>1, <3>1, <3>2, <4>1
    <3>3. CASE j = n + 1
      <4>1. all[j].seq = turn.seq + 1 /\ all[i].seq \in 1 .. turn.seq
        BY <1>1, <2>1, <3>1, <3>3
      <4> QED BY <1>1, <4>1
    <3> QED BY <1>3, <3>2, <3>3
  <2>4. turn'.lastMutation <= turn'.seq
    BY <1>1 DEF EvidenceInv, Numbered
  <2> QED BY <1>1, <1>2, <2>2, <2>3, <2>4 DEF Numbered, Ascending
<1>5. ASSUME ~blind' PROVE TestKnown'
  <2>1. ASSUME NEW i \in 1 .. n + 1, all[i].seq > turn.lastMutation, Tests(all[i])
        PROVE  tested'
    <3>1. CASE i \in 1 .. n
      BY <1>1, <1>5, <2>1, <3>1 DEF EvidenceInv, TestKnown
    <3>2. CASE i = n + 1
      BY <1>1, <1>5, <2>1, <3>2
    <3> QED BY <1>3, <3>1, <3>2
  <2>2. ASSUME turn.lastMutation = 0, NEW i \in DOMAIN first.records,
               first.records[i].seq > first.lastMutation, Tests(first.records[i])
        PROVE  tested'
    BY <1>5, <2>2 DEF EvidenceInv, TestKnown
  <2> QED BY <1>1, <1>2, <2>1, <2>2 DEF TestKnown
<1>6. ASSUME ~blind', NEW g \in task.gates PROVE GateKnown(g)'
  <2>0. /\ GateKnown(g)
        /\ IF Wants(g, r) THEN Passes(r) => g \in passedGates'
                          ELSE g \in passedGates => g \in passedGates'
    BY <1>6 DEF EvidenceInv
  <2>1. ASSUME NEW i \in 1 .. n + 1, Newest(g, all, i), Passes(all[i])
        PROVE  g \in passedGates'
    <3>1. CASE i = n + 1
      BY <1>1, <2>0, <2>1, <3>1 DEF Newest
    <3>2. CASE i \in 1 .. n
      <4>1. Wants(g, all[i]) /\ \A j \in 1 .. n + 1 : Wants(g, all[j]) => j <= i
        BY <1>1, <2>1 DEF Newest
      <4>2. all[i] = turn.records[i]
              /\ \A j \in 1 .. n : j \in 1 .. n + 1 /\ all[j] = turn.records[j]
        BY <1>1, <3>2
      <4>3. n + 1 \in 1 .. n + 1 /\ ~(n + 1 <= i)
        BY <1>1, <3>2
      <4>4. ~Wants(g, r)
        BY <1>1, <4>1, <4>3
      <4>5. Wants(g, turn.records[i]) /\ \A j \in 1 .. n : Wants(g, turn.records[j]) => j <= i
        BY <4>1, <4>2
      <4>6. Newest(g, turn.records, i) /\ Passes(turn.records[i])
        BY <1>1, <2>1, <4>2, <4>5 DEF Newest
      <4> QED BY <1>1, <2>0, <3>2, <4>4, <4>6 DEF GateKnown
    <3> QED BY <1>3, <3>1, <3>2
  <2>2. ASSUME \A i \in 1 .. n + 1 : ~Wants(g, all[i]), NEW i \in DOMAIN first.records,
               Newest(g, first.records, i), Passes(first.records[i])
        PROVE  g \in passedGates'
    <3>1. ~Wants(g, r) /\ \A j \in DOMAIN turn.records : ~Wants(g, turn.records[j])
      BY <1>1, <2>2
    <3> QED BY <2>0, <2>2, <3>1 DEF GateKnown
  <2> QED BY <1>1, <1>2, <2>1, <2>2 DEF GateKnown
<1> QED BY <1>4, <1>5, <1>6 DEF EvidenceInv

(* Records that say the same, but for their output.                        *)
Alike(r, s) ==
  /\ r.name = s.name /\ r.surface = s.surface /\ r.cats = s.cats
  /\ r.masked = s.masked /\ r.exit = s.exit

LEMMA AlikeShows ==
  ASSUME NEW r, NEW s, Alike(r, s)
  PROVE  /\ Tests(r) <=> Tests(s)
         /\ Passes(r) <=> Passes(s)
         /\ \A g : Wants(g, r) <=> Wants(g, s)
BY DEF Alike, Tests, Passes, Wants

LEMMA CountedIs ==
  ASSUME TypeInv
  PROVE  Counted.seq = turn.seq + 1 /\ Counted.lastMutation = turn.lastMutation
<1> DEFINE n == turn.seq + 1
<1>1. turn \in Turns
  BY DEF TypeInv
<1>2. Counted = [turn EXCEPT !.seq = n]
  BY DEF Counted
<1> HIDE DEF n
<1>3. Counted.seq = n /\ Counted.lastMutation = turn.lastMutation
  BY <1>1, <1>2 DEF Turns
<1> QED BY <1>3 DEF n

(* The same records, perhaps with more output.                             *)
LEMMA SameKnown ==
  ASSUME TypeInv, EvidenceInv, UNCHANGED <<phase, task, second, first>>,
         ~blind' => ~blind /\ UNCHANGED <<tested, passedGates>>,
         phase = "turn", turn' \in Turns, turn'.lastMutation = turn.lastMutation,
         turn'.seq >= turn.seq, DOMAIN turn'.records = DOMAIN turn.records,
         \A i \in DOMAIN turn.records : /\ Alike(turn'.records[i], turn.records[i])
                                        /\ turn'.records[i].seq = turn.records[i].seq
  PROVE  EvidenceInv'
<1>1. turn.seq \in Nat /\ turn'.seq \in Nat /\ turn.lastMutation \in Nat
  BY DEF TypeInv, Turns
<1>2. \A i \in DOMAIN turn.records :
        /\ Tests(turn'.records[i]) <=> Tests(turn.records[i])
        /\ Passes(turn'.records[i]) <=> Passes(turn.records[i])
        /\ \A g : Wants(g, turn'.records[i]) <=> Wants(g, turn.records[i])
  BY AlikeShows
<1>3. Numbered(turn')
  BY <1>1 DEF EvidenceInv, Numbered, Ascending
<1>4. ASSUME ~blind' PROVE TestKnown'
  BY <1>2, <1>4 DEF EvidenceInv, TestKnown
<1>5. ASSUME ~blind', NEW g \in task.gates PROVE GateKnown(g)'
  <2>1. \A i \in DOMAIN turn.records :
          Newest(g, turn'.records, i) <=> Newest(g, turn.records, i)
    BY <1>2 DEF Newest
  <2>2. GateKnown(g)
    BY <1>5 DEF EvidenceInv
  <2> QED BY <1>2, <1>5, <2>1, <2>2 DEF GateKnown
<1> QED BY <1>3, <1>4, <1>5 DEF EvidenceInv

(* A change leaves no test after it.                                       *)
LEMMA ChangeKnown ==
  ASSUME TypeInv, EvidenceInv, UNCHANGED <<phase, task, second, first, passedGates, blind>>,
         phase = "turn", NEW counted \in {Counted} \cup {Listed(s) : s \in Sides},
         NEW files \in SUBSET Files, Changed(counted, files)
  PROVE  EvidenceInv'
<1> DEFINE n == turn.seq + 1
           c == counted.changed \cup files
<1>1. turn.seq \in Nat /\ turn.lastMutation \in Nat /\ n \in Nat
  BY DEF TypeInv, Turns
<1>2. counted \in Turns /\ counted.records = turn.records /\ counted.seq = n
  BY CountedIs, CountedType, ListedType
<1>3. turn' = [counted EXCEPT !.changed = c, !.lastMutation = n]
  BY <1>2 DEF Changed, Turns
<1>4. turn'.records = turn.records /\ turn'.seq = n /\ turn'.lastMutation = n
  <2> HIDE DEF c, n
  <2> QED BY <1>2, <1>3 DEF Turns
<1>5. Numbered(turn')
  BY <1>1, <1>4 DEF EvidenceInv, Numbered
<1>6. TestKnown'
  <2>1. \A i \in DOMAIN turn.records : ~(turn.records[i].seq > n)
    BY <1>1 DEF EvidenceInv, Numbered
  <2>2. n # 0
    BY <1>1
  <2> HIDE DEF n
  <2> QED BY <1>4, <2>1, <2>2 DEF TestKnown
<1>7. ~blind' => \A g \in task.gates : GateKnown(g)'
  BY <1>4 DEF EvidenceInv, GateKnown
<1> QED BY <1>5, <1>6, <1>7 DEF EvidenceInv

LEMMA Append1Is ==
  ASSUME TypeInv, NEW r \in Records
  PROVE  /\ Append1(r).records = Append(turn.records, r) /\ Append1(r).seq = turn.seq + 1
         /\ Append1(r).lastMutation = turn.lastMutation
         /\ Append1(r) \in Turns
<1> DEFINE now  == Listed("completed")
           more == Append(turn.records, r)
<1>1. /\ now \in Turns /\ now.records = turn.records /\ now.seq = turn.seq + 1
      /\ now.lastMutation = turn.lastMutation /\ Append1(r) \in Turns
  BY AppendedType, CountedIs, ListedType DEF Sides
<1>2. Append1(r) = [now EXCEPT !.records = more]
  BY <1>1 DEF Append1
<1> HIDE DEF now, more
<1>3. Append1(r).records = more /\ Append1(r).seq = now.seq
        /\ Append1(r).lastMutation = now.lastMutation
  BY <1>1, <1>2 DEF Turns
<1> QED BY <1>1, <1>3 DEF more

(* A record of a command that tells how the command ended.                 *)
RecordOf(r, c) ==
  /\ r \in Records
  /\ r.name = c.name /\ r.surface = ObservedSurface(c) /\ r.cats = CommandCategories(c)
  /\ r.masked = IsCommandMasked(c) /\ r.seq = turn.seq + 1

LEMMA RecordIs ==
  ASSUME TypeInv, NEW c \in Commands, NEW e \in Exits, NEW text \in SUBSET Signs
  PROVE  RecordOf(Record(c, e, text), c) /\ Record(c, e, text).exit = e
BY RecordType DEF Record, RecordOf

LEMMA CommandKnown ==
  ASSUME TypeInv, EvidenceInv, Event, NEW c \in Commands, NEW ran,
         NEW finished \in BOOLEAN, Observe(c, ran, finished),
         NEW r, RecordOf(r, c),
         ~blind' => ~blind /\ (r.exit = "zero" => ExitsSurvive(c.inner)),
         r.exit = "zero" => finished /\ \E codes \in Codes(c.inner) :
                                          ran = Runs(c.inner, codes) /\ ran.ok,
         turn'.records = Append1(r).records, turn'.seq = Append1(r).seq,
         turn'.lastMutation = Append1(r).lastMutation
  PROVE  EvidenceInv'
<1>1. /\ turn'.records = Append(turn.records, r) /\ turn'.seq = turn.seq + 1
      /\ turn'.lastMutation = turn.lastMutation
  BY Append1Is DEF RecordOf
<1>2. ASSUME ~blind'
      PROVE  /\ tested => tested'
             /\ Tests(r) => tested'
             /\ \A g \in task.gates : IF Wants(g, r) THEN Passes(r) => g \in passedGates'
                                      ELSE g \in passedGates => g \in passedGates'
  BY <1>2, ObservedTrue DEF Passes, RecordOf
<1>3. phase = "turn" /\ UNCHANGED <<phase, task, second, first>>
  BY DEF Event, request, progress
<1> QED BY <1>1, <1>2, <1>3, RecordKnown DEF RecordOf

LEMMA LateKnown ==
  ASSUME TypeInv, EvidenceInv, NEW i \in DOMAIN turn.records, NEW more \in Texts,
         LateDelta(i, more)
  PROVE  EvidenceInv'
<1> DEFINE r    == turn.records[i]
           said == r.stream \cup more
           new  == [r EXCEPT !.stream = said, !.text = said]
           all  == [turn.records EXCEPT ![i] = new]
<1>1. turn.records \in Seq(Records) /\ r \in Records /\ turn \in Turns /\ turn.seq \in Nat
  BY DEF TypeInv, Turns
<1>2. Alike(new, r) /\ new.seq = r.seq
  <2> HIDE DEF r, said
  <2> QED BY <1>1 DEF Records, Alike
<1>3. turn' = [turn EXCEPT !.records = all]
  <2>1. turn' = [turn EXCEPT !.records[i].stream = @ \cup more,
                             !.records[i].text = turn.records[i].stream \cup more]
    BY DEF LateDelta
  <2> QED BY <2>1, <1>1 DEF Turns, Records
<1>4. DOMAIN all = DOMAIN turn.records
        /\ \A j \in DOMAIN turn.records :
             Alike(all[j], turn.records[j]) /\ all[j].seq = turn.records[j].seq
  <2>1. \A j \in DOMAIN turn.records : all[j] = IF j = i THEN new ELSE turn.records[j]
    BY <1>1
  <2> HIDE DEF new, all
  <2>2. ASSUME NEW j \in DOMAIN turn.records
        PROVE  Alike(all[j], turn.records[j]) /\ all[j].seq = turn.records[j].seq
    <3>1. CASE j = i
      BY <1>2, <2>1, <3>1
    <3>2. CASE j # i
      BY <2>1, <3>2 DEF Alike
    <3> QED BY <3>1, <3>2
  <2> QED BY <2>2 DEF all
<1>5. turn' \in Turns
  BY LateDeltaStep
<1> HIDE DEF all
<1>6. turn'.records = all /\ turn'.seq = turn.seq /\ turn'.lastMutation = turn.lastMutation
  BY <1>1, <1>3 DEF Turns
<1>7. phase = "turn" /\ UNCHANGED <<phase, task, second, first, tested, passedGates, blind>>
  BY DEF LateDelta, Event, request, progress
<1> QED BY <1>1, <1>4, <1>5, <1>6, <1>7, SameKnown

(* One more number, and perhaps one more summary.                          *)
LEMMA CountKnown ==
  ASSUME TypeInv, EvidenceInv, Event, turn' \in {Counted} \cup {Listed(s) : s \in Sides},
         ~blind' => ~blind /\ UNCHANGED <<tested, passedGates>>
  PROVE  EvidenceInv'
<1>1. /\ turn \in Turns /\ turn' \in Turns /\ turn'.seq = turn.seq + 1
      /\ turn'.lastMutation = turn.lastMutation /\ turn'.records = turn.records
  BY CountedIs, CountedType, ListedType DEF TypeInv
<1>2. turn'.seq >= turn.seq
  BY <1>1 DEF Turns
<1>3. \A i \in DOMAIN turn.records : /\ Alike(turn'.records[i], turn.records[i])
                                     /\ turn'.records[i].seq = turn.records[i].seq
  BY <1>1 DEF Alike
<1>4. phase = "turn" /\ UNCHANGED <<phase, task, second, first>>
  BY DEF Event, request, progress
<1> QED BY <1>1, <1>2, <1>3, <1>4, SameKnown

LEMMA DroppedKnown ==
  ASSUME TypeInv, EvidenceInv, NEW c, NEW codes, NEW finished, CommandDropped(c, codes, finished)
  PROVE  EvidenceInv'
<1>1. Event /\ blind' /\ turn' \in {Counted} \cup {Listed(s) : s \in Sides}
  BY DEF CommandDropped, Sides
<1> QED BY <1>1, CountKnown

(* What changes files, or nothing.                                         *)
LEMMA ItemKnown ==
  ASSUME TypeInv, EvidenceInv,
         \/ \E s \in Sides, f \in Files : FileItem(s, f)
         \/ \E fs \in {{}, Files} : DiffUpdated(fs)
         \/ \E s \in Sides : OtherItem(s)
         \/ OtherApproval
  PROVE  EvidenceInv'
<1>1. Event => phase = "turn" /\ UNCHANGED <<phase, task, second, first>>
  BY DEF Event, request, progress
<1>2. turn \in Turns /\ turn' \in Turns
  BY ItemSteps DEF TypeInv
<1>3. ASSUME NEW s \in Sides, NEW f \in Files, FileItem(s, f) PROVE EvidenceInv'
  <2>1. CASE Changed(Listed(s), {f}) /\ UNCHANGED blind
    BY <1>1, <1>3, <2>1, ChangeKnown DEF FileItem
  <2>2. CASE turn' = Counted /\ blind' = TRUE
    BY <1>3, <2>2, CountKnown DEF FileItem
  <2> QED BY <1>3, <2>1, <2>2 DEF FileItem
<1>4. ASSUME NEW fs \in {{}, Files}, DiffUpdated(fs) PROVE EvidenceInv'
  <2>1. CASE fs = {}
    BY <1>4, <2>1, CountKnown DEF DiffUpdated
  <2>2. CASE fs # {}
    BY <1>1, <1>4, <2>2, ChangeKnown DEF DiffUpdated
  <2> QED BY <2>1, <2>2
<1>5. ASSUME NEW s \in Sides, OtherItem(s) PROVE EvidenceInv'
  BY <1>5, CountKnown DEF OtherItem
<1>6. CASE OtherApproval
  <2>1. /\ turn'.records = turn.records /\ turn'.seq = turn.seq
        /\ turn'.lastMutation = turn.lastMutation
    BY <1>2, <1>6 DEF OtherApproval, Turns
  <2>2. UNCHANGED <<tested, passedGates, blind>> /\ Event
    BY <1>6 DEF OtherApproval
  <2>3. \A i \in DOMAIN turn.records : Alike(turn'.records[i], turn.records[i])
    BY <2>1 DEF Alike
  <2>4. turn'.seq >= turn.seq
    BY <1>2, <2>1 DEF Turns
  <2> QED BY <1>1, <1>2, <2>1, <2>2, <2>3, <2>4, SameKnown
<1> QED BY <1>3, <1>4, <1>5, <1>6

LEMMA RunKnown ==
  ASSUME TypeInv, EvidenceInv, NEW c \in Commands,
         NEW codes \in Codes(c.inner), NEW text \in TextsOf(Runs(c.inner, codes)),
         CommandCompleted(c, codes, text) \/ OfferDeclined(c, codes, text)
  PROVE  EvidenceInv'
<1> DEFINE ran == Runs(c.inner, codes)
           r   == Record(c, ExitOf(ran), text)
           yes == TRUE
<1>1. ExitOf(ran) \in Exits /\ (ExitOf(ran) = "zero" => ran.ok)
  BY DEF ExitOf, Exits
<1>2. RecordOf(r, c) /\ r.exit = ExitOf(ran)
  BY <1>1, TextsType, RecordIs
<1>3. Event /\ Observe(c, ran, yes) /\ yes \in BOOLEAN
  BY DEF CommandCompleted, OfferDeclined
<1>6. ~blind' => ~blind /\ ExitsSurvive(c.inner)
  BY DEF CommandCompleted, OfferDeclined, Blinds
<1>4. /\ turn'.records = Append1(r).records /\ turn'.seq = Append1(r).seq
      /\ turn'.lastMutation = Append1(r).lastMutation
  <2>1. CASE CommandCompleted(c, codes, text)
    BY <2>1 DEF CommandCompleted
  <2>2. CASE OfferDeclined(c, codes, text)
    <3>1. turn' = [Append1(r) EXCEPT !.declined = @ \cup {c},
                                     !.asks = IF CanPrompt THEN @ + 1 ELSE @]
      BY <2>2 DEF OfferDeclined
    <3>2. Append1(r) \in Turns
      BY <1>2, Append1Is DEF RecordOf
    <3> HIDE DEF r
    <3> QED BY <3>1, <3>2 DEF Turns
  <2> QED BY <2>1, <2>2
<1>5. r.exit = "zero" => yes /\ \E k \in Codes(c.inner) : ran = Runs(c.inner, k) /\ ran.ok
  BY <1>1, <1>2
<1> HIDE DEF ran, r, yes
<1> QED BY <1>2, <1>3, <1>4, <1>5, <1>6, CommandKnown

LEMMA HostKnown ==
  ASSUME TypeInv, EvidenceInv, NEW c \in Commands,
         NEW codes \in Codes(c.inner), NEW text \in TextsOf(Runs(c.inner, codes)),
         NEW again \in Codes(c.inner), NEW finished \in BOOLEAN, NEW new \in SUBSET Signs,
         OfferAccepted(c, codes, text, again, finished, new)
  PROVE  EvidenceInv'
<1> DEFINE record == Record(c, ExitOf(Runs(c.inner, codes)), text)
           host   == Runs(c.inner, again)
           exit   == IF finished THEN ExitOf(host) ELSE "nonzero"
           r      == [record EXCEPT !.exit = exit, !.text = new]
<1>1. exit \in Exits /\ (exit = "zero" => finished /\ host.ok)
  BY DEF ExitOf, Exits
<1>2. RecordOf(record, c)
  BY TextsType, RecordIs DEF ExitOf, Exits
<1>3. RecordOf(r, c) /\ r.exit = exit
  <2> HIDE DEF record, exit
  <2> QED BY <1>1, <1>2 DEF RecordOf, Records
<1>4. /\ Event /\ Observe(c, host, finished)
      /\ turn' = [Append1(r) EXCEPT !.asks = @ + 1, !.host = Append(@, c)]
  BY DEF OfferAccepted
<1>5. exit = "zero" =>
        finished /\ \E k \in Codes(c.inner) : host = Runs(c.inner, k) /\ host.ok
  BY <1>1
<1>7. ~blind' => ~blind /\ ExitsSurvive(c.inner)
  BY DEF OfferAccepted, Blinds
<1> HIDE DEF r, host, exit
<1>6. /\ turn'.records = Append1(r).records /\ turn'.seq = Append1(r).seq
      /\ turn'.lastMutation = Append1(r).lastMutation
  <2>1. Append1(r) \in Turns
    BY <1>3, Append1Is DEF RecordOf
  <2> QED BY <1>4, <2>1 DEF Turns
<1> QED BY <1>3, <1>4, <1>5, <1>6, <1>7, CommandKnown

LEMMA CutShortKnown ==
  ASSUME TypeInv, EvidenceInv, NEW c \in Commands, CommandCutShort(c)
  PROVE  EvidenceInv'
<1> DEFINE r   == Record(c, "none", {})
           ran == Runs(<<>>, <<>>)
           no  == FALSE
<1>1. RecordOf(r, c) /\ r.exit # "zero" /\ no \in BOOLEAN
  BY RecordIs DEF Exits
<1>2. Event /\ Observe(c, ran, no) /\ turn' = Append1(r) /\ blind' = blind
  BY DEF CommandCutShort
<1> HIDE DEF ran, r, no
<1> QED BY <1>1, <1>2, CommandKnown

LEMMA NotificationKnown ==
  ASSUME TypeInv, EvidenceInv, Notification
  PROVE  EvidenceInv'
<1>1. ASSUME NEW c \in Commands, NEW codes \in Codes(c.inner),
             NEW text \in TextsOf(Runs(c.inner, codes)), NEW again \in Codes(c.inner),
             NEW finished \in BOOLEAN,
             NEW new \in IF finished THEN TextsOf(Runs(c.inner, again))
                         ELSE Texts \cup {{"TIMEOUT"}},
             OfferAccepted(c, codes, text, again, finished, new)
      PROVE  EvidenceInv'
  <2>1. new \in SUBSET Signs
    BY NewTextType
  <2> QED BY <1>1, <2>1, HostKnown
<1> QED BY <1>1, ItemKnown, RunKnown, CutShortKnown, DroppedKnown, LateKnown DEF Notification

(* all is s, n long, followed by t, m long.                                *)
Joined(all, s, t, n, m) ==
  /\ DOMAIN all = 1 .. n + m
  /\ \A i \in 1 .. n : i \in 1 .. n + m /\ all[i] = s[i]
  /\ \A k \in 1 .. m : n + k \in 1 .. n + m /\ all[n + k] = t[k]
  /\ \A i \in 1 .. n + m : i \in 1 .. n \/ \E k \in 1 .. m : i = n + k

LEMMA ConcatParts ==
  ASSUME NEW T, NEW s \in Seq(T), NEW t \in Seq(T), NEW n, NEW m, n = Len(s), m = Len(t),
         NEW all, all = s \o t
  PROVE  all \in Seq(T) /\ Joined(all, s, t, n, m)
<1>1. n \in Nat /\ m \in Nat
  BY LenProperties
<1>2. /\ all \in Seq(T) /\ Len(all) = n + m
      /\ \A i \in 1 .. n + m : all[i] = IF i <= n THEN s[i] ELSE t[i - n]
  BY ConcatProperties
<1>3. DOMAIN all = 1 .. n + m
  BY <1>2, LenProperties
<1>4. \A i \in 1 .. n : i \in 1 .. n + m /\ all[i] = s[i]
  BY <1>1, <1>2
<1>5. ASSUME NEW k \in 1 .. m PROVE n + k \in 1 .. n + m /\ all[n + k] = t[k]
  <2>1. n + k \in 1 .. n + m /\ ~(n + k <= n) /\ (n + k) - n = k
    BY <1>1
  <2> QED BY <1>2, <2>1
<1>6. ASSUME NEW i \in 1 .. n + m, i \notin 1 .. n PROVE \E k \in 1 .. m : i = n + k
  <2>1. i - n \in 1 .. m /\ i = n + (i - n)
    BY <1>1, <1>6
  <2> QED BY <2>1
<1> QED BY <1>2, <1>3, <1>4, <1>5, <1>6 DEF Joined

(* The turns that a verdict is given on, taken together.                   *)
LEMMA BothKnown ==
  ASSUME TypeInv, EvidenceInv, phase = "turn", ~blind, NEW all, NEW last,
         all = first.records \o Shifted(turn.records), last = CombinedMutation
  PROVE  /\ all \in Seq(Records) /\ Ascending(all)
         /\ \A i \in DOMAIN all : all[i].seq > last /\ Tests(all[i]) => tested
         /\ \A g \in task.gates : \A i \in DOMAIN all :
              Newest(g, all, i) /\ Passes(all[i]) => g \in passedGates
<1> DEFINE s    == first.records
           t    == turn.records
           u    == Shifted(turn.records)
           n    == Len(s)
           m    == Len(t)
           base == first.seq
<1>1. /\ s \in Seq(Records) /\ t \in Seq(Records)
      /\ n \in Nat /\ m \in Nat /\ base \in Nat /\ turn.seq \in Nat
      /\ DOMAIN s = 1 .. n /\ DOMAIN t = 1 .. m
      /\ first.lastMutation \in Nat /\ turn.lastMutation \in Nat
  BY LenProperties DEF TypeInv, Turns
<1>2. \A k \in 1 .. m : /\ u[k] \in Records /\ Alike(u[k], t[k])
                        /\ u[k].seq = t[k].seq + base
  <2> TAKE k \in 1 .. m
  <2> DEFINE r == t[k]
             x == r.seq + base
  <2>1. r \in Records
    BY <1>1
  <2>2. r.seq \in Nat /\ base \in Nat
    BY <1>1, <2>1 DEF Records
  <2>3. x \in Nat
    BY <2>2
  <2>4. u[k] = [r EXCEPT !.seq = x]
    BY <1>1 DEF Shifted
  <2> HIDE DEF r, x, u
  <2>5. u[k] \in Records /\ Alike(u[k], r) /\ u[k].seq = x
    BY <2>1, <2>3, <2>4 DEF Records, Alike
  <2> QED BY <2>5 DEF r, x
<1>3. u \in Seq(Records) /\ Len(u) = m
  <2>1. u = [k \in 1 .. m |-> u[k]]
    BY <1>1 DEF Shifted
  <2>2. \A k \in 1 .. m : u[k] \in Records
    BY <1>2
  <2>3. m \in Nat
    BY <1>1
  <2> HIDE DEF u, m
  <2> QED BY <2>1, <2>2, <2>3
<1>4. all = s \o u /\ n = Len(s)
  OBVIOUS
<1>5. /\ \A i \in 1 .. n : s[i].seq \in 1 .. base
      /\ \A k \in 1 .. m : t[k].seq \in 1 .. turn.seq
      /\ first.lastMutation <= base
      /\ \A i, j \in 1 .. n : i < j => s[i].seq < s[j].seq
      /\ \A i, j \in 1 .. m : i < j => t[i].seq < t[j].seq
  BY <1>1 DEF EvidenceInv, Numbered, Ascending
<1>6. /\ TestKnown
      /\ last = IF turn.lastMutation > 0 THEN turn.lastMutation + base ELSE first.lastMutation
  BY DEF EvidenceInv, CombinedMutation
<1>7. /\ \A i \in 1 .. m : t[i].seq > turn.lastMutation /\ Tests(t[i]) => tested
      /\ turn.lastMutation = 0 =>
           \A i \in 1 .. n : s[i].seq > first.lastMutation /\ Tests(s[i]) => tested
  BY <1>1, <1>6 DEF TestKnown
<1>8. \A g \in task.gates : GateKnown(g)
  BY DEF EvidenceInv
<1> HIDE DEF s, t, u, n, m, base
<1>9. /\ all \in Seq(Records) /\ DOMAIN all = 1 .. n + m
      /\ \A i \in 1 .. n : i \in 1 .. n + m /\ all[i] = s[i]
      /\ \A k \in 1 .. m : n + k \in 1 .. n + m /\ all[n + k] = u[k]
      /\ \A i \in 1 .. n + m : i \in 1 .. n \/ \E k \in 1 .. m : i = n + k
  <2>1. all = s \o u /\ s \in Seq(Records) /\ u \in Seq(Records) /\ n = Len(s) /\ m = Len(u)
    BY <1>1, <1>3, <1>4
  <2>2. all \in Seq(Records) /\ Joined(all, s, u, n, m)
    BY <2>1, ConcatParts
  <2> QED BY <2>2 DEF Joined
<1>10. Ascending(all)
  <2> SUFFICES ASSUME NEW i \in 1 .. n + m, NEW j \in 1 .. n + m, i < j
               PROVE  all[i].seq < all[j].seq
    BY <1>9 DEF Ascending
  <2>1. CASE i \in 1 .. n /\ j \in 1 .. n
    BY <1>5, <1>9, <2>1
  <2>2. ASSUME i \in 1 .. n, NEW k \in 1 .. m, j = n + k
        PROVE  all[i].seq < all[j].seq
    <3>1. all[i].seq = s[i].seq /\ all[j].seq = t[k].seq + base
      BY <1>2, <1>9, <2>2
    <3>2. s[i].seq \in 1 .. base /\ t[k].seq \in 1 .. turn.seq
      BY <1>5, <2>2
    <3> QED BY <1>1, <3>1, <3>2
  <2>3. ASSUME NEW k \in 1 .. m, i = n + k, NEW l \in 1 .. m, j = n + l
        PROVE  all[i].seq < all[j].seq
    <3>1. all[i].seq = t[k].seq + base /\ all[j].seq = t[l].seq + base
      BY <1>2, <1>9, <2>3
    <3>2. k < l
      BY <1>1, <2>3
    <3>3. t[k].seq < t[l].seq /\ t[k].seq \in 1 .. turn.seq /\ t[l].seq \in 1 .. turn.seq
      BY <1>5, <3>2
    <3> QED BY <1>1, <3>1, <3>3
  <2>4. ASSUME NEW k \in 1 .. m, i = n + k, j \in 1 .. n
        PROVE  FALSE
    BY <1>1, <2>4
  <2> QED BY <1>9, <2>1, <2>2, <2>3, <2>4
<1>11. ASSUME NEW i \in 1 .. n + m, all[i].seq > last, Tests(all[i]) PROVE tested
  <2>1. CASE i \in 1 .. n
    <3>1. all[i] = s[i] /\ s[i].seq \in 1 .. base
      BY <1>5, <1>9, <2>1
    <3>2. turn.lastMutation = 0
      BY <1>1, <1>6, <1>11, <3>1
    <3> QED BY <1>6, <1>7, <1>11, <2>1, <3>1, <3>2
  <2>2. ASSUME NEW k \in 1 .. m, i = n + k PROVE tested
    <3>1. all[i] = u[k]
      BY <1>9, <2>2
    <3>2. all[i].seq = t[k].seq + base /\ Tests(t[k]) /\ t[k].seq \in 1 .. turn.seq
      BY <1>2, <1>5, <1>11, <3>1, AlikeShows
    <3>3. t[k].seq > turn.lastMutation
      BY <1>1, <1>6, <1>11, <3>2
    <3> QED BY <1>7, <3>2, <3>3
  <2> QED BY <1>9, <2>1, <2>2
<1>12. ASSUME NEW g \in task.gates, NEW i \in 1 .. n + m, Newest(g, all, i), Passes(all[i])
       PROVE  g \in passedGates
  <2>1. /\ \A j \in 1 .. m : Newest(g, t, j) /\ Passes(t[j]) => g \in passedGates
        /\ (\A j \in 1 .. m : ~Wants(g, t[j])) =>
             \A j \in 1 .. n : Newest(g, s, j) /\ Passes(s[j]) => g \in passedGates
    BY <1>1, <1>8 DEF GateKnown, s, t
  <2>2. Wants(g, all[i]) /\ \A j \in 1 .. n + m : Wants(g, all[j]) => j <= i
    BY <1>9, <1>12 DEF Newest
  <2>3. \A k \in 1 .. m : Wants(g, t[k]) => n + k <= i
    BY <1>2, <1>9, <2>2, AlikeShows
  <2>4. CASE i \in 1 .. n
    <3>1. \A k \in 1 .. m : ~(n + k <= i)
      BY <1>1, <2>4
    <3>2. Newest(g, s, i) /\ Passes(s[i])
      BY <1>1, <1>9, <1>12, <2>2, <2>4 DEF Newest
    <3> QED BY <2>1, <2>3, <2>4, <3>1, <3>2
  <2>5. ASSUME NEW k \in 1 .. m, i = n + k PROVE g \in passedGates
    <3>1. all[i] = u[k]
      BY <1>9, <2>5
    <3>2. Wants(g, t[k]) /\ Passes(t[k])
      BY <1>2, <1>12, <2>2, <3>1, AlikeShows
    <3>3. \A j \in 1 .. m : n + j <= i => j <= k
      BY <1>1, <2>5
    <3>4. Newest(g, t, k)
      BY <1>1, <2>3, <3>2, <3>3 DEF Newest
    <3> QED BY <2>1, <3>2, <3>4
  <2> QED BY <1>9, <2>4, <2>5
<1> QED BY <1>9, <1>10, <1>11, <1>12

(* A verdict on records that tell what happened is true.                   *)
LEMMA JudgedTrue ==
  ASSUME NEW changed, NEW all \in Seq(Records), Ascending(all), NEW last, NEW stopped \in BOOLEAN,
         \A i \in DOMAIN all : all[i].seq > last /\ Tests(all[i]) => tested,
         \A g \in task.gates : \A i \in DOMAIN all :
           Newest(g, all, i) /\ Passes(all[i]) => g \in passedGates,
         verdict' = Assessment(changed, all, last, stopped),
         ObserveEnd(stopped), task' = task
  PROVE  VerifiedIsEarned'
<1> SUFFICES ASSUME Assessment(changed, all, last, stopped).status = "VERIFIED"
             PROVE  tested' /\ task.gates \subseteq passedGates'
  BY DEF VerifiedIsEarned
<1>1. \A i \in DOMAIN all : all[i].seq \in Nat
  <2>1. \A i \in DOMAIN all : all[i] \in Records
    BY LenProperties
  <2> QED BY <2>1 DEF Records
<1>2. /\ ~stopped
      /\ \E i \in DOMAIN all : all[i].seq > last /\ Tests(all[i])
      /\ \A g \in task.gates : \E i \in DOMAIN all : Newest(g, all, i) /\ Passes(all[i])
  BY <1>1, AssessmentEarned
<1>3. tested /\ task.gates \subseteq passedGates
  BY <1>2
<1> QED BY <1>2, <1>3 DEF ObserveEnd

(* A single turn is a second one without a first.                          *)
LEMMA OneKnown ==
  ASSUME TypeInv, EvidenceInv, phase = "turn", ~blind
  PROVE  /\ turn.records \in Seq(Records) /\ Ascending(turn.records)
         /\ \A i \in DOMAIN turn.records :
              turn.records[i].seq > turn.lastMutation /\ Tests(turn.records[i]) => tested
         /\ \A g \in task.gates : \A i \in DOMAIN turn.records :
              Newest(g, turn.records, i) /\ Passes(turn.records[i]) => g \in passedGates
BY DEF TypeInv, Turns, EvidenceInv, Numbered, TestKnown, GateKnown

LEMMA JudgeKnown ==
  ASSUME TypeInv, EvidenceInv, NEW s \in Statuses, NEW stop \in BOOLEAN, NEW r, Judge(s, stop, r)
  PROVE  EvidenceInv' /\ VerifiedIsEarned'
<1> DEFINE stopped == Stopped(s, stop)
           made    == Assessment(turn.changed, turn.records, turn.lastMutation, stopped)
<1>1. /\ phase = "turn" /\ ~second /\ UNCHANGED <<task, second>>
      /\ verdict' = made /\ ObserveEnd(stopped)
  BY DEF Judge, Returns, request
<1>2. \/ phase' = "unproven" /\ made.continue /\ UNCHANGED <<turn, first>>
      \/ phase' = "done" /\ turn' = NewTurn /\ first' = NewTurn
  BY DEF Judge, Finish
<1>3. stopped \in BOOLEAN
  BY DEF Stopped
<1>8. blind' = blind
  BY <1>1 DEF ObserveEnd
<1>4. VerifiedIsEarned'
  <2> HIDE DEF stopped
  <2>1. CASE ~blind
    BY <1>1, <1>3, <2>1, OneKnown, JudgedTrue
  <2>2. CASE blind
    BY <1>8, <2>2 DEF VerifiedIsEarned
  <2> QED BY <2>1, <2>2
<1>5. made.continue => ~stopped
  <2> SUFFICES ASSUME stopped PROVE made.continue = FALSE
    OBVIOUS
  <2> QED BY RequiredKeepsContinue DEF Assessment, Assessed
<1>6. CASE phase' = "unproven"
  <2>1. ~stopped /\ UNCHANGED <<turn, first>>
    BY <1>2, <1>5, <1>6
  <2>2. (tested => tested') /\ passedGates' = passedGates
    BY <1>1, <2>1 DEF ObserveEnd
  <2>3. ~blind => TestKnown /\ \A g \in task.gates : GateKnown(g)
    BY <1>1 DEF EvidenceInv
  <2>4. ~blind' => TestKnown' /\ \A g \in task.gates : GateKnown(g)'
    BY <1>8, <2>1, <2>2, <2>3 DEF TestKnown, GateKnown
  <2> QED BY <1>1, <1>4, <2>1, <2>4 DEF EvidenceInv
<1>7. CASE phase' = "done"
  BY <1>1, <1>2, <1>4, <1>7, NewTurnKnown DEF EvidenceInv
<1> QED BY <1>2, <1>6, <1>7

LEMMA BothJudgedKnown ==
  ASSUME TypeInv, EvidenceInv, NEW s \in Statuses, NEW stop \in BOOLEAN, JudgeBoth(s, stop)
  PROVE  EvidenceInv' /\ VerifiedIsEarned'
<1> DEFINE all     == first.records \o Shifted(turn.records)
           last    == CombinedMutation
           stopped == Stopped(s, stop)
           changed == first.changed \cup turn.changed
<1>1. /\ phase = "turn" /\ UNCHANGED task
      /\ verdict' = Assessment(changed, all, last, stopped) /\ ObserveEnd(stopped)
      /\ phase' = "done" /\ turn' = NewTurn /\ first' = NewTurn
  BY DEF JudgeBoth, Returns, request, Finish
<1>2. stopped \in BOOLEAN
  BY DEF Stopped
<1>3. ASSUME ~blind PROVE VerifiedIsEarned'
  <2>1. /\ all \in Seq(Records) /\ Ascending(all)
        /\ \A i \in DOMAIN all : all[i].seq > last /\ Tests(all[i]) => tested
        /\ \A g \in task.gates : \A i \in DOMAIN all :
             Newest(g, all, i) /\ Passes(all[i]) => g \in passedGates
    BY <1>1, <1>3, BothKnown
  <2> HIDE DEF stopped, all, last, changed
  <2> QED BY <1>1, <1>2, <2>1, JudgedTrue
<1>5. VerifiedIsEarned'
  <2>1. CASE blind
    <3>1. blind'
      BY <1>1, <2>1 DEF ObserveEnd
    <3> QED BY <3>1 DEF VerifiedIsEarned
  <2>2. CASE ~blind
    BY <1>3, <2>2
  <2> QED BY <2>1, <2>2
<1> QED BY <1>1, <1>5, NewTurnKnown DEF EvidenceInv

LEMMA EvidenceStep ==
  ASSUME TypeInv, Accounted, EvidenceInv, VerifiedIsEarned, [Next]_vars
  PROVE  EvidenceInv' /\ VerifiedIsEarned'
<1>1. ASSUME NEW p \in Prompts, NEW a \in QuotaAnswers, NEW m \in Catalogs, MakePlan(p, a, m)
      PROVE  EvidenceInv' /\ VerifiedIsEarned'
  <2>1. phase' \in {"blocked", "planned", "raised"} /\ UNCHANGED <<second, turn, first>>
    BY <1>1 DEF MakePlan, progress
  <2> QED BY <2>1 DEF EvidenceInv, VerifiedIsEarned
<1>2. ASSUME phase' = "turn", turn' = NewTurn, first' = NewTurn
      PROVE  EvidenceInv' /\ VerifiedIsEarned'
  BY <1>2, NewTurnKnown DEF EvidenceInv, VerifiedIsEarned, TestKnown, GateKnown
<1>3. CASE FirstAttempt
  <2>1. phase = "planned" /\ phase' = "turn" /\ turn' = NewTurn /\ first' = first
    BY <1>3 DEF FirstAttempt, StartTurn
  <2>2. ~second
    BY <2>1 DEF Accounted, TypeInv
  <2> QED BY <1>2, <2>1, <2>2 DEF EvidenceInv
<1>4. CASE Continue
  <2>1. /\ phase = "unproven" /\ phase' = "turn" /\ turn' = NewTurn /\ first' = turn
        /\ second' /\ UNCHANGED <<task, tested, passedGates, blind>>
    BY <1>4 DEF Continue, StartTurn, request
  <2>2. ~blind => TestKnown /\ \A g \in task.gates : GateKnown(g)
    BY <2>1 DEF EvidenceInv
  <2>3. ~blind' => TestKnown' /\ \A g \in task.gates : GateKnown(g)'
    BY <2>1, <2>2, NewTurnKnown DEF TestKnown, GateKnown
  <2> QED BY <2>1, <2>3, NewTurnKnown DEF EvidenceInv, VerifiedIsEarned
<1>5. CASE Notification
  <2>1. phase' = "turn"
    BY <1>5, NotificationIsEvent DEF Event
  <2> QED BY <1>5, <2>1, NotificationKnown DEF VerifiedIsEarned
<1>6. CASE TurnRaises
  <2>1. phase' = "raised" /\ turn' = NewTurn /\ first' = NewTurn
    BY <1>6 DEF TurnRaises
  <2> QED BY <2>1, NewTurnKnown DEF EvidenceInv, VerifiedIsEarned
<1>7. ASSUME NEW s, NEW stop, NEW r, Escalate(s, stop, r)
      PROVE  EvidenceInv' /\ VerifiedIsEarned'
  <2>1. ~second /\ phase' = "turn" /\ turn' = NewTurn /\ first' = first
    BY <1>7 DEF Escalate, StartTurn
  <2> QED BY <1>2, <2>1 DEF EvidenceInv
<1>8. CASE UNCHANGED vars
  BY <1>8 DEF vars, request, EvidenceInv, VerifiedIsEarned, TestKnown, GateKnown
<1> QED BY <1>1, <1>3, <1>4, <1>5, <1>6, <1>7, <1>8, JudgeKnown, BothJudgedKnown
        DEF Next, Execute, TurnEnds

(* VERIFIED is earned, whatever the commands, the gates, the limits and the *)
(* notifications of the turns, unless one of them went past the limits or  *)
(* hid an exit code where the masking rules do not look.                   *)
(* (verification_gate.py: masked exit codes, evidence strictly after the   *)
(* last mutation; cx2_runtime.py: the numbers of two turns made one.)      *)
THEOREM VerdictsAreEarned == Spec => []VerifiedIsEarned
<1>1. Init => EvidenceInv /\ VerifiedIsEarned
  BY NewTurnKnown DEF Init, EvidenceInv, VerifiedIsEarned
<1>2. TypeInv /\ Accounted /\ EvidenceInv /\ VerifiedIsEarned /\ [Next]_vars
        => EvidenceInv' /\ VerifiedIsEarned'
  BY EvidenceStep
<1>3. TypeInv /\ Accounted /\ [Next]_vars => Accounted'
  BY AccountedStep
<1> QED BY <1>1, <1>2, <1>3, InitAccounted, TypeCorrect, PTL DEF Spec

-------------------------------------------------------------------------------
(***************************************************************************)
(* The run on the host that an accepted offer stands for: what its report  *)
(* may be trusted for, for any pipes, any capacity of theirs, any output   *)
(* and any limit on what is kept of it. Module BoundedRun has a state of   *)
(* its own.                                                                *)
(***************************************************************************)

(* Types.                                                                  *)

(* Where the caller is before the command is known to run, and after.      *)
Launching == {"start", "spawn", "assign", "feed"}
Running   == {"readers", "waiting"}
Ending    == {"reaping", "settle", "joining", "handle", "cwd", "profile", "report"}
Points    == Launching \cup Running \cup {"failing", "draining", "killing"} \cup Ending
               \cup {"done", "raised"}

Children == [state : {"none", "live", "killed", "exited"}, grouped : BOOLEAN, attached : BOOLEAN]
Ends == [attempted : BOOLEAN, verified : BOOLEAN, to : Recipients]

CallerTypes ==
  /\ platform \in {"win32", "posix"} /\ pc \in Points
  /\ job \in {"none", "held", "closed"} /\ profile \in {"none", "exists", "removed"}
  /\ termination \in Ends
  /\ timedOut \in BOOLEAN /\ failed \in BOOLEAN
  /\ verified \subseteq {"wait", "notReaders", "handle", "cwd", "profile"}
  /\ left \in Seq(Streams)

ProcessTypes ==
  /\ parent \in {"none", "held", "live", "killed", "exited"}
  /\ child \in Children

StreamTypes ==
  /\ pipe \in [Streams -> Nat] /\ written \in [Streams -> Nat]
  /\ kept \in [Streams -> Nat] /\ total \in [Streams -> Nat]
  /\ rd \in [Streams -> {"none", "reading", "done", "failed"}]
  /\ asked \in [Streams -> BOOLEAN] /\ truncated \in [Streams -> BOOLEAN]

RunTyped == CallerTypes /\ ProcessTypes /\ StreamTypes

LEMMA InitRunTyped == RunInit => RunTyped
<1> SUFFICES ASSUME RunInit PROVE RunTyped
  OBVIOUS
<1>1. left \in Seq(Streams)
  BY DEF RunInit
<1> QED
  BY <1>1, BoundsAssumption
     DEF RunInit, RunTyped, CallerTypes, ProcessTypes, StreamTypes,
         Points, Launching, Children, Ends, Recipients, NoChild

(* What a step of the command, or of what it has left, may change.         *)
ParentMoves ==
  \/ parent' = parent
  \/ parent \in {"live", "killed"} /\ parent' = "exited"
  \/ parent = "held" /\ failed /\ parent' = "exited"

ChildMoves ==
  \/ child' = child
  \/ /\ parent = "live" /\ child.state = "none" /\ child'.state = "live"
  \/ /\ child.state \in {"live", "killed"} /\ child'.state = "exited"

CallerWaits ==
  UNCHANGED <<platform, pc, asked, job, profile, learnt, verified, left, result>>

LEMMA ProcessMoves ==
  ASSUME RunTyped, ProcessStep
  PROVE  /\ ~Over /\ CallerWaits /\ rd' = rd
         /\ ParentMoves /\ ChildMoves /\ child' \in Children
<1>1. /\ ~Over /\ CallerWaits /\ rd' = rd
  BY
     DEF ProcessStep, Fork, Write, ParentExits, LauncherExits, ChildExits, Dies,
         Process, CallerWaits, readers
<1>2. child \in Children
  BY DEF RunTyped, ProcessTypes
<1>3. ParentMoves
  BY
     DEF ProcessStep, Fork, Write, ParentExits, LauncherExits, ChildExits, Dies,
         ParentMoves, processes
<1>4. ChildMoves /\ child' \in Children
  <2>1. ASSUME NEW g \in BOOLEAN, NEW a \in BOOLEAN, Fork(g, a)
        PROVE  ChildMoves /\ child' \in Children
    BY <2>1 DEF Fork, ChildMoves, Children
  <2>2. CASE ChildExits \/ Dies
    BY <1>2, <2>2 DEF ChildExits, Dies, ChildMoves, Children
  <2>3. CASE (\E s \in Streams : Write(s)) \/ (\E ok \in BOOLEAN : ParentExits(ok)) \/ LauncherExits
    BY <1>2, <2>3 DEF Write, ParentExits, LauncherExits, processes, ChildMoves
  <2> QED
    BY <2>1, <2>2, <2>3 DEF ProcessStep
<1> QED
  BY <1>1, <1>3, <1>4

LEMMA ProcessTypesHold ==
  ASSUME RunTyped, ProcessStep
  PROVE  RunTyped'
<1>1. /\ CallerWaits /\ rd' = rd
      /\ ParentMoves /\ child' \in Children
  BY ProcessMoves
<1>2. CallerTypes'
  BY <1>1 DEF CallerWaits, learnt, RunTyped, CallerTypes
<1>3. ProcessTypes'
  BY <1>1 DEF ParentMoves, RunTyped, ProcessTypes
<1>4. StreamTypes'
  <2>1. UNCHANGED <<rd, asked, kept, total, truncated>>
    BY <1>1
       DEF CallerWaits, ProcessStep, Fork, Write, ParentExits, LauncherExits,
           ChildExits, Dies, readers
  <2>2. pipe' \in [Streams -> Nat] /\ written' \in [Streams -> Nat]
    <3>1. ASSUME NEW s \in Streams, Write(s)
          PROVE  pipe' \in [Streams -> Nat] /\ written' \in [Streams -> Nat]
      <4>1. /\ pipe' = [pipe EXCEPT ![s] = @ + 1]
            /\ written' = [written EXCEPT ![s] = @ + 1]
        BY <3>1 DEF Write
      <4> QED
        BY <4>1 DEF RunTyped, StreamTypes
    <3>2. CASE ~\E s \in Streams : Write(s)
      BY <3>2
         DEF ProcessStep, Fork, ParentExits, LauncherExits, ChildExits, Dies,
             RunTyped, StreamTypes
    <3> QED
      BY <3>1, <3>2
  <2> QED
    BY <2>1, <2>2 DEF RunTyped, StreamTypes
<1> QED
  BY <1>2, <1>3, <1>4 DEF RunTyped

LEMMA ReaderTypesHold ==
  ASSUME RunTyped, ReaderStep
  PROVE  RunTyped'
<1>1. Reader
  BY DEF ReaderStep, Read, EndOfPipe, ReaderStops
<1>2. CallerTypes' /\ ProcessTypes'
  BY <1>1 DEF Reader, processes, learnt, RunTyped, CallerTypes, ProcessTypes
<1>3. StreamTypes'
  <2>1. asked' = asked /\ written' = written
    BY <1>1 DEF Reader
  <2>2. ASSUME NEW s \in Streams, Read(s)
        PROVE  StreamTypes'
    <3>1. /\ pipe' \in [Streams -> Nat] /\ total' \in [Streams -> Nat]
          /\ kept' \in [Streams -> Nat]
      BY <2>2 DEF Read, Reads, RunTyped, StreamTypes
    <3>2. rd' \in [Streams -> {"none", "reading", "done", "failed"}]
      BY <2>2 DEF Read, RunTyped, StreamTypes
    <3>3. truncated' \in [Streams -> BOOLEAN]
      BY <2>2 DEF Read, Marked, RunTyped, StreamTypes
    <3> QED
      BY <2>1, <3>1, <3>2, <3>3 DEF RunTyped, StreamTypes
  <2>3. ASSUME NEW s \in Streams, EndOfPipe(s) \/ ReaderStops(s)
        PROVE  StreamTypes'
    <3>1. rd' \in [Streams -> {"none", "reading", "done", "failed"}]
      BY <2>3 DEF EndOfPipe, ReaderStops, RunTyped, StreamTypes
    <3> QED
      BY <2>1, <2>3, <3>1 DEF EndOfPipe, ReaderStops, RunTyped, StreamTypes
  <2> QED
    BY <2>2, <2>3 DEF ReaderStep
<1> QED
  BY <1>2, <1>3 DEF RunTyped

LEMMA CallerStreamTypes ==
  ASSUME RunTyped, CallerStep \/ Timeout \/ Interrupted
  PROVE  StreamTypes'
<1>1. UNCHANGED <<pipe, written, kept, total, truncated>>
  BY
     DEF CallerStep, Timeout, Interrupted, Refuse, BuildEnvironment, Spawn, Assign,
         Feed, Fails, FailedAlready, StartReaders, WaitReturns, TerminateWindows,
         TerminateGroup, Drain, Reap, ReaderDone, GiveUpReader, AskToStop,
         CloseHandle, CheckDirectory, RemoveProfile, Report, Caller
<1>2. rd' \in [Streams -> {"none", "reading", "done", "failed"}]
  BY
     DEF CallerStep, Timeout, Interrupted, Refuse, BuildEnvironment, Spawn, Assign,
         Feed, Fails, FailedAlready, StartReaders, WaitReturns, TerminateWindows,
         TerminateGroup, Drain, Reap, ReaderDone, GiveUpReader, AskToStop,
         CloseHandle, CheckDirectory, RemoveProfile, Report, RunTyped, StreamTypes
<1>3. asked' \in [Streams -> BOOLEAN]
  BY
     DEF CallerStep, Timeout, Interrupted, Refuse, BuildEnvironment, Spawn, Assign,
         Feed, Fails, FailedAlready, StartReaders, WaitReturns, TerminateWindows,
         TerminateGroup, Drain, Reap, ReaderDone, GiveUpReader, AskToStop,
         CloseHandle, CheckDirectory, RemoveProfile, Report, RunTyped, StreamTypes
<1> QED
  BY <1>1, <1>2, <1>3 DEF RunTyped, StreamTypes

(* What ending a process makes of it.                                      *)
LEMMA EndOfProcess ==
  ASSUME NEW state \in {"none", "held", "live", "killed", "exited"}
  PROVE  /\ Killed(state) \in {"none", "killed", "exited"}
         /\ Ended(state) \in {"none", "exited"}
         /\ state \notin Alive => Killed(state) = state /\ Ended(state) = state
  BY DEF Killed, Ended, Alive

LEMMA EndOfChild ==
  ASSUME child \in Children
  PROVE  /\ [child EXCEPT !.state = Killed(@)] \in Children
         /\ [child EXCEPT !.state = Ended(@)] \in Children
  BY DEF Children, Killed, Ended, Alive

LEMMA CallerProcessTypes ==
  ASSUME RunTyped, CallerStep \/ Timeout \/ Interrupted
  PROVE  ProcessTypes'
<1>1. /\ Killed(parent) \in {"none", "killed", "exited"}
      /\ Ended(parent) \in {"none", "exited"}
  BY EndOfProcess DEF RunTyped, ProcessTypes
<1>2. /\ [child EXCEPT !.state = Killed(@)] \in Children
      /\ [child EXCEPT !.state = Ended(@)] \in Children
  BY EndOfChild DEF RunTyped, ProcessTypes
<1>3. parent' \in {parent, "held", "live", Killed(parent), Ended(parent)}
  BY
     DEF CallerStep, Timeout, Interrupted, Refuse, BuildEnvironment, Spawn, Assign,
         Feed, Fails, FailedAlready, StartReaders, WaitReturns, TerminateWindows,
         TerminateGroup, Drain, Reap, ReaderDone, GiveUpReader, AskToStop,
         CloseHandle, CheckDirectory, RemoveProfile, Report, Terminate
<1>4. child' \in {child, [child EXCEPT !.state = Killed(@)], [child EXCEPT !.state = Ended(@)]}
  BY
     DEF CallerStep, Timeout, Interrupted, Refuse, BuildEnvironment, Spawn, Assign,
         Feed, Fails, FailedAlready, StartReaders, WaitReturns, TerminateWindows,
         TerminateGroup, Drain, Reap, ReaderDone, GiveUpReader, AskToStop,
         CloseHandle, CheckDirectory, RemoveProfile, Report, Terminate
<1> QED
  BY <1>1, <1>2, <1>3, <1>4 DEF RunTyped, ProcessTypes

LEMMA LaunchTypes ==
  ASSUME RunTyped,
         \/ Refuse \/ (\E ok \in BOOLEAN : BuildEnvironment(ok)) \/ Spawn \/ Assign \/ Feed
         \/ Fails \/ FailedAlready \/ StartReaders \/ WaitReturns \/ Timeout \/ Interrupted
  PROVE  CallerTypes'
<1>1. Pipes \in Seq(Streams)
  BY PipesAssumption
<1> QED
  BY ZenonT(60), <1>1
     DEF Refuse, BuildEnvironment, Spawn, Assign, Feed, Fails, FailedAlready,
         StartReaders, WaitReturns, Timeout, Interrupted, Caller, learnt, RunTyped,
         CallerTypes, Points, Launching, Running, Ending

LEMMA TerminateTypes ==
  ASSUME RunTyped,
         \/ \E t, d \in BOOLEAN : TerminateWindows(t, d)
         \/ \E to \in Recipients : TerminateGroup(to)
         \/ \E d \in BOOLEAN : Drain(d)
  PROVE  CallerTypes'
<1>1. termination' \in Ends
  <2>1. ASSUME NEW d \in BOOLEAN, NEW t \in BOOLEAN, Terminate(d, t)
        PROVE  termination' \in Ends
    <3>1. (d /\ t) \in BOOLEAN
      OBVIOUS
    <3> QED
      BY <2>1, <3>1 DEF Terminate, Ends, Recipients
  <2>2. ASSUME NEW t \in BOOLEAN, NEW d \in BOOLEAN, TerminateWindows(t, d)
        PROVE  termination' \in Ends
    <3>1. CASE job = "held"
      <4>1. Terminate(d, t)
        BY <2>2, <3>1 DEF TerminateWindows
      <4> QED
        BY <2>1, <4>1
    <3>2. CASE job # "held"
      <4>1. termination' = [attempted |-> TRUE, verified |-> FALSE, to |-> "none"]
        BY <2>2, <3>2 DEF TerminateWindows
      <4> QED
        BY <4>1 DEF Ends, Recipients
    <3> QED
      BY <3>1, <3>2
  <2>3. ASSUME NEW to \in Recipients, TerminateGroup(to)
        PROVE  termination' \in Ends
    BY <2>3 DEF TerminateGroup, Ends
  <2>4. ASSUME NEW d \in BOOLEAN, Drain(d)
        PROVE  termination' \in Ends
    BY <2>1, <2>4 DEF Drain
  <2> QED
    BY <2>2, <2>3, <2>4
<1>2. /\ pc' = "reaping" /\ job' \in {job, "closed"}
      /\ UNCHANGED <<platform, profile, timedOut, failed, verified, left>>
  BY DEF TerminateWindows, TerminateGroup, Drain, Terminate, Caller
<1> QED
  BY <1>1, <1>2 DEF RunTyped, CallerTypes, Points, Ending

LEMMA CleanupTypes ==
  ASSUME RunTyped,
         \/ Reap \/ ReaderDone \/ GiveUpReader
         \/ \E ok \in BOOLEAN :
              AskToStop(ok) \/ CloseHandle(ok) \/ CheckDirectory(ok) \/ RemoveProfile(ok)
         \/ Report
  PROVE  CallerTypes'
<1>1. left' \in Seq(Streams)
  <2>1. left \in Seq(Streams)
    BY DEF RunTyped, CallerTypes
  <2>2. left' = left \/ (left # <<>> /\ left' = Tail(left))
    BY
       DEF Reap, ReaderDone, GiveUpReader, Settling, Settled, AskToStop,
           CloseHandle, CheckDirectory, RemoveProfile, Report
  <2> QED
    BY <2>1, <2>2
<1>2. /\ pc' \in Points /\ job' \in {job, "closed"} /\ profile' \in {profile, "removed"}
      /\ verified' \subseteq {"wait", "notReaders", "handle", "cwd", "profile"}
      /\ UNCHANGED <<platform, termination, timedOut, failed>>
  BY
     DEF Reap, ReaderDone, GiveUpReader, Settling, Settled, AskToStop, CloseHandle,
         CheckDirectory, RemoveProfile, Report, Caller, learnt, RunTyped, CallerTypes,
         Points, Ending
<1> QED
  BY <1>1, <1>2 DEF RunTyped, CallerTypes

LEMMA RunTypedStep ==
  ASSUME RunTyped, [RunNext]_runVars
  PROVE  RunTyped'
<1>1. CASE CallerStep \/ Timeout \/ Interrupted
  <2>1. CallerTypes'
    BY <1>1, LaunchTypes, TerminateTypes, CleanupTypes DEF CallerStep
  <2> QED
    BY <1>1, <2>1, CallerProcessTypes, CallerStreamTypes DEF RunTyped
<1>2. CASE UNCHANGED runVars
  BY <1>2
     DEF runVars, processes, readers, learnt, RunTyped, CallerTypes, ProcessTypes,
         StreamTypes
<1> QED
  BY <1>1, <1>2, ProcessTypesHold, ReaderTypesHold DEF RunNext

(* The states are of the types the model gives them, the readers' line     *)
(* included. (bounded_verification_runner.py:                              *)
(* execute_bounded_verification_command.)                                  *)
THEOREM RunTypeCorrect == RunSpec => []RunTyped
<1>1. RunTyped /\ [RunNext]_runVars => RunTyped'
  BY RunTypedStep
<1> QED
  BY InitRunTyped, <1>1, PTL DEF RunSpec

-------------------------------------------------------------------------------
(* What is taken back.                                                     *)

(* The call takes its steps in order: what it has not come to has not      *)
(* happened.                                                               *)
InOrder ==
  /\ pc = "start" => profile = "none" /\ job = "none" /\ \A s \in Streams : rd[s] = "none"
  /\ pc \in {"start", "spawn"} => parent = "none"
  /\ pc \in {"assign", "feed"} => parent = "held"
  /\ parent \in {"none", "held"} => child.state = "none"
  /\ pc \in Launching \cup Running \cup {"failing", "killing"} => verified = {}
  /\ pc \in Launching \cup Running \cup {"failing", "killing", "draining"} =>
       ~termination.verified
  /\ pc = "failing" => failed
  /\ failed => pc \in Ending \cup {"failing", "done"}
  /\ timedOut => pc \in Ending \cup {"killing", "done"}

(* What is verified is so, and stays so.                                   *)
VerifiedHolds ==
  /\ "wait" \in verified => parent = "exited"
  /\ "profile" \in verified => profile = "removed"
  /\ pc \in {"cwd", "profile", "report"} => job # "held"

(* A reader that is not settled is still in line, or known not to be well. *)
ReadersInLine ==
  /\ pc \in Launching \cup {"readers", "failing", "handle", "cwd", "profile", "report"} =>
       left = <<>>
  /\ "notReaders" \notin verified =>
       \A s \in Streams : rd[s] \in {"none", "done"} \/ s \in ToSet(left)

(* On Windows the Job Object holds the tree until it is ended, and without *)
(* a failure it is ended; a verified end leaves nobody.                    *)
JobHoldsTree ==
  platform = "win32" =>
    /\ pc \in Running \cup {"feed", "draining", "killing"} => job = "held"
    /\ pc \in Ending /\ ~failed => termination.attempted
    /\ termination.verified => parent \notin Alive /\ child.state \notin Alive

(* On POSIX an end is attempted after a timeout. A signal to the group has *)
(* reached all of it, and it grows no more; any other verified signal is   *)
(* known to be one to the process.                                         *)
GroupSignalled ==
  platform = "posix" /\ timedOut /\ pc # "killing" =>
    /\ termination.attempted
    /\ termination.verified => termination.to \in {"group", "process"}
    /\ termination.to = "group" =>
         /\ parent \notin {"held", "live"}
         /\ child.state = "live" => ~child.grouped

(* The report says so of nothing else.                                     *)
Released ==
  /\ parent \in {"none", "exited"} /\ job # "held" /\ profile # "exists"
  /\ \A s \in Streams : rd[s] \in {"none", "done"}
  /\ child.state \in Alive =>
       /\ platform = "posix"
       /\ timedOut => \/ ~child.grouped \/ child.state = "killed"
                      \/ termination.to = "process"

ReportStands == pc = "done" /\ result.cleanup => Released

CleanupInv ==
  InOrder /\ VerifiedHolds /\ ReadersInLine /\ JobHoldsTree /\ GroupSignalled /\ ReportStands

LEMMA InitCleanup == RunInit => CleanupInv
<1> SUFFICES ASSUME RunInit PROVE CleanupInv
  OBVIOUS
<1> QED
  BY DEF RunInit, NoChild, CleanupInv, InOrder, VerifiedHolds, ReadersInLine, JobHoldsTree,
         GroupSignalled, ReportStands, Launching, Running, Ending

(* The command and what it leaves: they end, or there is one more of the   *)
(* tree.                                                                   *)
LEMMA ProcessCleanup ==
  ASSUME RunTyped, CleanupInv, ProcessStep
  PROVE  CleanupInv'
<1>1. /\ ~Over /\ CallerWaits /\ rd' = rd
      /\ ParentMoves /\ ChildMoves /\ child' \in Children
  BY ProcessMoves
<1>3. InOrder'
  <2>1. parent' \in {"none", "held"} => parent' = parent /\ child'.state = "none"
    BY <1>1 DEF ParentMoves, ChildMoves, CleanupInv, InOrder
  <2>2. pc \in {"start", "spawn"} => parent' = "none"
    BY <1>1 DEF ParentMoves, CleanupInv, InOrder
  <2>3. pc \in {"assign", "feed"} => parent' = "held"
    BY <1>1 DEF ParentMoves, CleanupInv, InOrder, Ending
  <2> QED
    BY <1>1, <2>1, <2>2, <2>3 DEF CallerWaits, learnt, CleanupInv, InOrder
<1>4. VerifiedHolds' /\ ReadersInLine'
  BY <1>1 DEF CallerWaits, ParentMoves, CleanupInv, VerifiedHolds, ReadersInLine
<1>5. JobHoldsTree'
  <2>1. platform = "win32" /\ termination.verified =>
          parent' \notin Alive /\ child'.state \notin Alive
    BY <1>1 DEF ParentMoves, ChildMoves, CleanupInv, JobHoldsTree, Alive
  <2> QED
    BY <1>1, <2>1 DEF CallerWaits, learnt, CleanupInv, JobHoldsTree
<1>6. GroupSignalled'
  <2>1. platform = "posix" /\ timedOut /\ pc # "killing" /\ termination.to = "group" =>
          /\ parent' \notin {"held", "live"}
          /\ child'.state = "live" => ~child'.grouped
    BY <1>1 DEF ParentMoves, ChildMoves, CleanupInv, GroupSignalled
  <2> QED
    BY <1>1, <2>1 DEF CallerWaits, learnt, CleanupInv, GroupSignalled
<1>7. ReportStands'
  BY <1>1 DEF CallerWaits, Over, ReportStands
<1> QED
  BY <1>3, <1>4, <1>5, <1>6, <1>7 DEF CleanupInv

(* A reader that reads is still in line, and may only end.                 *)
LEMMA ReaderCleanup ==
  ASSUME RunTyped, CleanupInv, ReaderStep
  PROVE  CleanupInv'
<1>1. Reader
  BY DEF ReaderStep, Read, EndOfPipe, ReaderStops
<1>2. \A s \in Streams : rd'[s] = rd[s] \/ rd[s] = "reading"
  <2>1. ASSUME NEW t \in Streams, Read(t) \/ EndOfPipe(t) \/ ReaderStops(t)
        PROVE  \A s \in Streams : rd'[s] = rd[s] \/ rd[s] = "reading"
    <3>1. /\ rd[t] = "reading"
          /\ rd' = rd \/ \E e : rd' = [rd EXCEPT ![t] = e]
      BY <2>1 DEF Read, Reads, EndOfPipe, ReaderStops
    <3> QED
      BY <3>1 DEF RunTyped, StreamTypes
  <2> QED
    BY <2>1 DEF ReaderStep
<1>3. InOrder' /\ VerifiedHolds'
  BY <1>1, <1>2 DEF Reader, processes, learnt, CleanupInv, InOrder, VerifiedHolds
<1>4. ReadersInLine'
  BY <1>1, <1>2 DEF Reader, CleanupInv, ReadersInLine
<1>5. JobHoldsTree' /\ GroupSignalled'
  BY <1>1 DEF Reader, processes, learnt, CleanupInv, JobHoldsTree, GroupSignalled
<1>6. ReportStands'
  BY <1>1 DEF Reader, Over, ReportStands
<1> QED
  BY <1>3, <1>4, <1>5, <1>6 DEF CleanupInv

(* Nothing has been verified, and nothing was started that is left.        *)
LEMMA LaunchCleanup ==
  ASSUME RunTyped, CleanupInv,
         \/ Refuse \/ (\E ok \in BOOLEAN : BuildEnvironment(ok)) \/ Spawn \/ Assign \/ Feed
         \/ Fails \/ FailedAlready \/ StartReaders
  PROVE  CleanupInv'
<1>1. CASE Refuse
  <2>1. /\ pc = "start" /\ pc' = "done"
        /\ UNCHANGED <<platform, parent, child, rd, asked, job, profile, learnt, verified, left>>
    BY <1>1 DEF Refuse, Caller
  <2>2. InOrder' /\ VerifiedHolds' /\ ReadersInLine' /\ JobHoldsTree' /\ GroupSignalled'
    BY <2>1 DEF learnt, Launching, Running, Ending, CleanupInv, InOrder, VerifiedHolds,
                ReadersInLine, JobHoldsTree, GroupSignalled
  <2>3. Released'
    BY <2>1 DEF learnt, Alive, CleanupInv, InOrder, Released
  <2> QED
    BY <2>2, <2>3 DEF CleanupInv, ReportStands
<1>2. CASE \E ok \in BOOLEAN : BuildEnvironment(ok)
  BY <1>2
     DEF BuildEnvironment, Caller, learnt, Launching, Running, Ending, CleanupInv, InOrder,
         VerifiedHolds, ReadersInLine, JobHoldsTree, GroupSignalled, ReportStands
<1>3. CASE Spawn
  BY <1>3
     DEF RunTyped, CallerTypes, Spawn, Caller, learnt, Launching, Running, Ending, Alive,
         CleanupInv, InOrder, VerifiedHolds, ReadersInLine, JobHoldsTree, GroupSignalled,
         ReportStands
<1>4. CASE Assign \/ Feed
  BY <1>4
     DEF Assign, Feed, Caller, learnt, Launching, Running, Ending, Alive, CleanupInv,
         InOrder, VerifiedHolds, ReadersInLine, JobHoldsTree, GroupSignalled, ReportStands
<1>5. CASE Fails \/ FailedAlready
  BY <1>5
     DEF Fails, FailedAlready, Caller, learnt, Launching, Running, Ending, CleanupInv,
         InOrder, VerifiedHolds, ReadersInLine, JobHoldsTree, GroupSignalled, ReportStands
<1>6. CASE StartReaders
  <2>1. /\ pc = "readers" /\ pc' = "waiting" /\ left' = Pipes
        /\ UNCHANGED <<platform, parent, child, job, profile, learnt, verified, result>>
    BY <1>6 DEF StartReaders, Caller
  <2>2. ReadersInLine'
    BY <2>1 DEF Launching, ReadersInLine, Streams
  <2>3. InOrder' /\ VerifiedHolds' /\ JobHoldsTree' /\ GroupSignalled' /\ ReportStands'
    BY <2>1 DEF learnt, Launching, Running, Ending, CleanupInv, InOrder, VerifiedHolds,
                JobHoldsTree, GroupSignalled, ReportStands
  <2> QED
    BY <2>2, <2>3 DEF CleanupInv
<1> QED
  BY <1>1, <1>2, <1>3, <1>4, <1>5, <1>6

LEMMA WaitCleanup ==
  ASSUME RunTyped, CleanupInv, WaitReturns \/ Timeout \/ Interrupted
  PROVE  CleanupInv'
<1>1. CASE WaitReturns
  BY <1>1
     DEF WaitReturns, Caller, RunTyped, CallerTypes, Launching, Running, Ending, CleanupInv,
         InOrder, VerifiedHolds, ReadersInLine, JobHoldsTree, GroupSignalled, ReportStands
<1>2. CASE Timeout \/ Interrupted
  BY <1>2
     DEF Timeout, Interrupted, Caller, learnt, Launching, Running, Ending, CleanupInv,
         InOrder, VerifiedHolds, ReadersInLine, JobHoldsTree, GroupSignalled, ReportStands
<1> QED
  BY <1>1, <1>2

(* The end of the tree. What ends, ends for good; a verified end leaves    *)
(* nobody, and the group's signal nobody of the group.                     *)
LEMMA TerminateCleanup ==
  ASSUME RunTyped, CleanupInv,
         \/ \E t, d \in BOOLEAN : TerminateWindows(t, d)
         \/ \E to \in Recipients : TerminateGroup(to)
         \/ \E d \in BOOLEAN : Drain(d)
  PROVE  CleanupInv'
<1>1. /\ pc' = "reaping" /\ pc \in {"killing", "failing", "draining"}
      /\ job' \in {job, "closed"}
      /\ UNCHANGED <<platform, rd, profile, timedOut, failed, verified, left>>
  BY DEF TerminateWindows, TerminateGroup, Drain, Terminate, Caller
<1>2. parent' \in {parent, Killed(parent), Ended(parent)}
  BY DEF TerminateWindows, TerminateGroup, Drain, Terminate
<1>3. child'.state \in {child.state, Killed(child.state), Ended(child.state)}
  BY
     DEF TerminateWindows, TerminateGroup, Drain, Terminate, RunTyped, ProcessTypes,
         Children
<1>4. /\ parent' \in {"none", "held"} => parent' = parent
      /\ parent = "exited" => parent' = "exited"
  BY <1>2 DEF Killed, Ended, Alive
<1>5. child.state = "none" => child'.state = "none"
  BY <1>3 DEF Killed, Ended, Alive
<1>6. InOrder' /\ VerifiedHolds' /\ ReadersInLine' /\ ReportStands'
  BY <1>1, <1>4, <1>5 DEF Launching, Running, Ending, CleanupInv, InOrder, VerifiedHolds,
                          ReadersInLine, ReportStands
<1>7. JobHoldsTree'
  <2>1. termination'.attempted
    BY DEF TerminateWindows, TerminateGroup, Drain, Terminate
  <2>2. ASSUME platform = "win32", termination'.verified
        PROVE  parent' \notin Alive /\ child'.state \notin Alive
    <3>1. parent' = Ended(parent) /\ child' = [child EXCEPT !.state = Ended(@)]
      BY <2>2 DEF TerminateWindows, TerminateGroup, Drain, Terminate
    <3> QED
      BY <3>1 DEF Ended, Alive, RunTyped, ProcessTypes, Children
  <2> QED
    BY <1>1, <2>1, <2>2 DEF Running, JobHoldsTree
<1>8. GroupSignalled'
  <2>1. ASSUME NEW to \in Recipients, TerminateGroup(to)
        PROVE  GroupSignalled'
    <3>1. termination' = [attempted |-> TRUE, verified |-> to # "none", to |-> to]
      BY <2>1 DEF TerminateGroup
    <3>2. ASSUME to = "group"
          PROVE  parent' \notin {"held", "live"} /\ (child'.state = "live" => ~child'.grouped)
      <4>1. /\ parent' = Killed(parent)
            /\ child' = IF child.grouped THEN [child EXCEPT !.state = Killed(@)] ELSE child
        BY <2>1, <3>2 DEF TerminateGroup
      <4> QED
        BY <4>1 DEF Killed, Alive, RunTyped, ProcessTypes, Children
    <3> QED
      BY <3>1, <3>2 DEF GroupSignalled, Recipients
  <2>2. CASE platform = "posix" /\ \E d \in BOOLEAN : Drain(d)
    BY <1>1, <2>2 DEF Drain, Ending, CleanupInv, InOrder, GroupSignalled
  <2> QED
    BY <1>1, <2>1, <2>2 DEF TerminateWindows, GroupSignalled
<1> QED
  BY <1>6, <1>7, <1>8 DEF CleanupInv

(* The line of readers gets shorter from its head.                         *)
LEMMA LineMoves ==
  ASSUME left \in Seq(Streams), left # <<>>
  PROVE  /\ Head(left) \in Streams /\ Tail(left) \in Seq(Streams)
         /\ \A s \in ToSet(left) : s = Head(left) \/ s \in ToSet(Tail(left))
         /\ Len(left) = 1 => Tail(left) = <<>>
<1>1. Head(left) \in Streams /\ Tail(left) \in Seq(Streams)
  OBVIOUS
<1>2. ASSUME NEW i \in DOMAIN left
      PROVE  left[i] = Head(left) \/ left[i] \in ToSet(Tail(left))
  <2>1. CASE i = 1
    BY <2>1
  <2>2. CASE i # 1
    <3>1. i - 1 \in DOMAIN Tail(left) /\ Tail(left)[i - 1] = left[i]
      BY <2>2
    <3> QED
      BY <3>1 DEF ToSet
  <2> QED
    BY <2>1, <2>2
<1>3. \A s \in ToSet(left) : s = Head(left) \/ s \in ToSet(Tail(left))
  BY <1>2 DEF ToSet
<1>4. Len(left) = 1 => Tail(left) = <<>>
  <2>1. Len(left) = 1 => Len(Tail(left)) = 0
    OBVIOUS
  <2> QED
    BY <1>1, <2>1, EmptySeq
<1> QED
  BY <1>1, <1>3, <1>4

LEMMA SettledCleanup ==
  ASSUME RunTyped, CleanupInv, NEW ok \in BOOLEAN,
         pc \in {"settle", "joining"}, left # <<>>, Settled(ok),
         ok => rd[Head(left)] = "done",
         UNCHANGED <<platform, parent, child, rd, job, profile, learnt, result>>
  PROVE  CleanupInv'
<1>1. /\ \A s \in ToSet(left) : s = Head(left) \/ s \in ToSet(Tail(left))
      /\ Len(left) = 1 => Tail(left) = <<>>
  BY LineMoves DEF RunTyped, CallerTypes
<1>2. /\ left' = Tail(left) /\ pc' = IF Len(left) = 1 THEN "handle" ELSE "settle"
      /\ verified \subseteq verified' /\ verified' \subseteq verified \cup {"notReaders"}
      /\ "notReaders" \notin verified' => ok /\ "notReaders" \notin verified
  BY DEF Settled
<1>3. ReadersInLine'
  <2>1. pc' = "handle" => left' = <<>>
    BY <1>1, <1>2
  <2>2. ASSUME "notReaders" \notin verified', NEW s \in Streams
        PROVE  rd'[s] \in {"none", "done"} \/ s \in ToSet(left)'
    BY <1>1, <1>2, <2>2 DEF CleanupInv, ReadersInLine
  <2> QED
    BY <1>2, <2>1, <2>2 DEF Launching, ReadersInLine
<1>4. VerifiedHolds'
  BY <1>2 DEF CleanupInv, VerifiedHolds
<1>5. InOrder' /\ JobHoldsTree' /\ GroupSignalled' /\ ReportStands'
  BY <1>2 DEF learnt, Launching, Running, Ending, CleanupInv, InOrder, JobHoldsTree,
              GroupSignalled, ReportStands
<1> QED
  BY <1>3, <1>4, <1>5 DEF CleanupInv

LEMMA SettleCleanup ==
  ASSUME RunTyped, CleanupInv,
         \/ Reap \/ ReaderDone \/ GiveUpReader
         \/ \E ok \in BOOLEAN : AskToStop(ok)
  PROVE  CleanupInv'
<1>1. CASE Reap
  <2>1. /\ pc = "reaping" /\ pc' = IF left = <<>> THEN "handle" ELSE "settle"
        /\ verified' \subseteq verified \cup {"wait"}
        /\ verified \subseteq verified' \cup {"wait"}
        /\ "wait" \in verified' => parent = "exited"
        /\ UNCHANGED <<platform, parent, child, rd, job, profile, learnt, left, result>>
    BY <1>1 DEF Reap, Caller
  <2>2. VerifiedHolds' /\ ReadersInLine'
    BY <2>1 DEF Launching, CleanupInv, VerifiedHolds, ReadersInLine
  <2>3. InOrder' /\ JobHoldsTree' /\ GroupSignalled' /\ ReportStands'
    BY <2>1 DEF learnt, Launching, Running, Ending, CleanupInv, InOrder, JobHoldsTree,
                GroupSignalled, ReportStands
  <2> QED
    BY <2>2, <2>3 DEF CleanupInv
<1>2. CASE ReaderDone
  <2>1. (rd[Head(left)] = "done") \in BOOLEAN
    OBVIOUS
  <2> QED
    BY <1>2, <2>1, SettledCleanup DEF ReaderDone, Settling, Caller
<1>3. CASE GiveUpReader
  BY <1>3, SettledCleanup DEF GiveUpReader, Settling, Caller
<1>4. ASSUME NEW ok \in BOOLEAN, AskToStop(ok)
      PROVE  CleanupInv'
  <2>1. /\ pc = "settle" /\ pc' = "joining"
        /\ verified \subseteq verified' /\ verified' \subseteq verified \cup {"notReaders"}
        /\ UNCHANGED <<platform, parent, child, rd, job, profile, learnt, left, result>>
    BY <1>4 DEF AskToStop, Settling, Caller
  <2>2. VerifiedHolds' /\ ReadersInLine'
    BY <2>1 DEF Launching, CleanupInv, VerifiedHolds, ReadersInLine
  <2>3. InOrder' /\ JobHoldsTree' /\ GroupSignalled' /\ ReportStands'
    BY <2>1 DEF learnt, Launching, Running, Ending, CleanupInv, InOrder, JobHoldsTree,
                GroupSignalled, ReportStands
  <2> QED
    BY <2>2, <2>3 DEF CleanupInv
<1> QED
  BY <1>1, <1>2, <1>3, <1>4

LEMMA ReleaseCleanup ==
  ASSUME RunTyped, CleanupInv,
         \E ok \in BOOLEAN : CloseHandle(ok) \/ CheckDirectory(ok) \/ RemoveProfile(ok)
  PROVE  CleanupInv'
<1>1. ASSUME NEW ok \in BOOLEAN, CloseHandle(ok)
      PROVE  CleanupInv'
  <2>1. /\ pc = "handle" /\ pc' = "cwd"
        /\ job' # "held"
        /\ verified \subseteq verified' /\ verified' \subseteq verified \cup {"handle"}
        /\ UNCHANGED <<platform, rd, profile, learnt, left, result>>
    BY <1>1 DEF CloseHandle, Caller
  <2>2. parent' \in {parent, Killed(parent)}
    BY <1>1 DEF CloseHandle
  <2>3. child'.state \in {child.state, Killed(child.state)} /\ child'.grouped = child.grouped
    BY <1>1 DEF CloseHandle, RunTyped, ProcessTypes, Children
  <2>4. /\ parent' \in {"none", "held"} => parent' = parent
        /\ parent \in {"none", "exited", "killed"} => parent' = parent
        /\ parent' = "live" => parent = "live"
    BY <2>2 DEF Killed, Alive
  <2>5. /\ child'.state = "live" => child.state = "live"
        /\ child.state \notin Alive => child'.state = child.state
    BY <2>3 DEF Killed, Alive
  <2>6. InOrder'
    BY <2>1, <2>4, <2>5 DEF learnt, Launching, Running, Ending, Alive, CleanupInv, InOrder
  <2>7. VerifiedHolds' /\ ReadersInLine'
    BY <2>1, <2>4 DEF Launching, CleanupInv, VerifiedHolds, ReadersInLine
  <2>8. JobHoldsTree'
    <3>1. parent \notin Alive => parent' \notin Alive
      BY <2>2 DEF Killed
    <3> QED
      BY <2>1, <2>5, <3>1 DEF learnt, Running, Ending, CleanupInv, JobHoldsTree
  <2>9. GroupSignalled' /\ ReportStands'
    BY <2>1, <2>3, <2>4, <2>5 DEF learnt, CleanupInv, GroupSignalled, ReportStands
  <2> QED
    BY <2>6, <2>7, <2>8, <2>9 DEF CleanupInv
<1>2. ASSUME NEW ok \in BOOLEAN, CheckDirectory(ok)
      PROVE  CleanupInv'
  <2>1. /\ pc = "cwd" /\ pc' = "profile"
        /\ verified \subseteq verified' /\ verified' \subseteq verified \cup {"cwd"}
        /\ UNCHANGED <<platform, parent, child, rd, job, profile, learnt, left, result>>
    BY <1>2 DEF CheckDirectory, Caller
  <2> QED
    BY <2>1 DEF learnt, Launching, Running, Ending, CleanupInv, InOrder, VerifiedHolds,
                ReadersInLine, JobHoldsTree, GroupSignalled, ReportStands
<1>3. ASSUME NEW ok \in BOOLEAN, RemoveProfile(ok)
      PROVE  CleanupInv'
  <2>1. /\ pc = "profile" /\ pc' = "report"
        /\ verified \subseteq verified' /\ verified' \subseteq verified \cup {"profile"}
        /\ UNCHANGED <<platform, parent, child, rd, job, learnt, left, result>>
    BY <1>3 DEF RemoveProfile, Caller
  <2>2. "profile" \in verified' => profile' = "removed"
    BY <1>3 DEF RemoveProfile, CleanupInv, VerifiedHolds
  <2> QED
    BY <2>1, <2>2 DEF learnt, Launching, Running, Ending, CleanupInv, InOrder, VerifiedHolds,
                ReadersInLine, JobHoldsTree, GroupSignalled, ReportStands
<1> QED
  BY <1>1, <1>2, <1>3

(* What is verified when the report is made has happened.                  *)
LEMMA VerifiedReleases ==
  ASSUME RunTyped, CleanupInv, pc = "report", CleanupVerified
  PROVE  Released
<1>1. /\ "wait" \in verified /\ "profile" \in verified /\ "notReaders" \notin verified
      /\ TreeVerified /\ ~failed
  BY DEF CleanupVerified
<1>2. parent = "exited" /\ job # "held" /\ profile = "removed"
  BY <1>1 DEF CleanupInv, VerifiedHolds
<1>3. \A s \in Streams : rd[s] \in {"none", "done"}
  <2>1. ToSet(left) = {}
    BY DEF CleanupInv, ReadersInLine, ToSet
  <2> QED
    BY <1>1, <2>1 DEF CleanupInv, ReadersInLine
<1>4. platform = "win32" => child.state \notin Alive
  BY <1>1 DEF TreeVerified, Ending, CleanupInv, JobHoldsTree
<1>5. platform = "posix" /\ timedOut /\ child.state \in Alive =>
        ~child.grouped \/ child.state = "killed" \/ termination.to = "process"
  BY <1>1
     DEF Alive, TreeVerified, RunTyped, ProcessTypes, Children, CleanupInv, GroupSignalled
<1> QED
  BY <1>2, <1>3, <1>4, <1>5 DEF Released, RunTyped, CallerTypes

LEMMA ReportCleanup ==
  ASSUME RunTyped, CleanupInv, Report
  PROVE  CleanupInv'
<1>1. /\ pc = "report" /\ pc' = "done" /\ result'.cleanup = CleanupVerified
      /\ UNCHANGED <<platform, parent, child, rd, job, profile, learnt, verified, left>>
  BY DEF Report, Caller
<1>2. InOrder' /\ VerifiedHolds' /\ ReadersInLine' /\ JobHoldsTree' /\ GroupSignalled'
  BY <1>1 DEF learnt, Launching, Running, Ending, CleanupInv, InOrder, VerifiedHolds,
              ReadersInLine, JobHoldsTree, GroupSignalled
<1>3. ReportStands'
  <2>1. CASE CleanupVerified
    <3>1. Released
      BY <1>1, <2>1, VerifiedReleases
    <3> QED
      BY <1>1, <3>1 DEF learnt, Released, ReportStands
  <2>2. CASE ~CleanupVerified
    BY <1>1, <2>2 DEF ReportStands
  <2> QED
    BY <2>1, <2>2
<1> QED
  BY <1>2, <1>3 DEF CleanupInv

LEMMA NextCleanup ==
  ASSUME RunTyped, CleanupInv, [RunNext]_runVars
  PROVE  CleanupInv'
<1>1. CASE CallerStep \/ Timeout \/ Interrupted
  BY <1>1, LaunchCleanup, WaitCleanup, TerminateCleanup, SettleCleanup, ReleaseCleanup,
     ReportCleanup DEF CallerStep
<1>2. CASE UNCHANGED runVars
  BY <1>2 DEF runVars, processes, readers, learnt, CleanupInv, InOrder, VerifiedHolds,
              ReadersInLine, JobHoldsTree, GroupSignalled, ReportStands, Released
<1> QED
  BY <1>1, <1>2, ProcessCleanup, ReaderCleanup DEF RunNext

(* The cleanup takes its steps in order, and what it has verified stays so. *)
THEOREM CleanupInvHolds == RunSpec => []CleanupInv
<1>1. RunTyped /\ CleanupInv /\ [RunNext]_runVars => CleanupInv'
  BY NextCleanup
<1> QED
  BY InitCleanup, <1>1, RunTypeCorrect, PTL DEF RunSpec

(* A cleanup reported as verified has happened.                            *)
(* (bounded_verification_runner.py: cleanup_verified; SECURITY.md,         *)
(* evidence-based process cleanup.)                                        *)
THEOREM ReportIsTrue == RunSpec => []VerifiedMeansReleased
<1>1. CleanupInv => VerifiedMeansReleased
  BY DEF CleanupInv, ReportStands, Released, VerifiedMeansReleased
<1> QED
  BY <1>1, CleanupInvHolds, PTL

(* Output. A chunk that was written is in the pipe or was counted.         *)
ChunksAddUp ==
  \A s \in Streams :
    /\ written[s] = total[s] + pipe[s]
    /\ kept[s] = IF total[s] <= MaxBytes THEN total[s] ELSE MaxBytes
    /\ truncated[s] <=> total[s] > MaxBytes

(* A reader that ended by itself has left nothing in its pipe.             *)
EndedIsEmpty ==
  \A s \in Streams : rd[s] = "done" /\ ~asked[s] => pipe[s] = 0

(* The report is of the counts that stand when it is made, unless nothing  *)
(* was started.                                                            *)
CountsReported ==
  /\ pc = "done" => \/ \A s \in Streams : rd[s] = "none"
                    \/ result.total = total /\ result.truncated = truncated

OutputInv == ChunksAddUp /\ EndedIsEmpty /\ CountsReported
LEMMA InitOutput == RunInit => OutputInv
<1> SUFFICES ASSUME RunInit PROVE OutputInv
  OBVIOUS
<1> QED
  BY BoundsAssumption DEF RunInit, OutputInv, ChunksAddUp, EndedIsEmpty, CountsReported

LEMMA WriteOutput ==
  ASSUME RunTyped, OutputInv, NEW s \in Streams, Write(s)
  PROVE  OutputInv'
<1>1. /\ ~Over /\ pc' = pc /\ rd[s] \in {"none", "reading"}
      /\ pipe' = [pipe EXCEPT ![s] = @ + 1] /\ written' = [written EXCEPT ![s] = @ + 1]
      /\ UNCHANGED <<rd, asked, kept, total, truncated>>
  BY DEF Write, Process, readers
<1>2. ChunksAddUp'
  <2>1. ASSUME NEW t \in Streams
        PROVE  written'[t] = total'[t] + pipe'[t]
    BY <1>1 DEF RunTyped, StreamTypes, OutputInv, ChunksAddUp
  <2> QED
    BY <1>1, <2>1 DEF OutputInv, ChunksAddUp
<1>3. EndedIsEmpty'
  BY <1>1 DEF RunTyped, StreamTypes, OutputInv, EndedIsEmpty
<1>4. CountsReported'
  BY <1>1 DEF Over, CountsReported
<1> QED
  BY <1>2, <1>3, <1>4 DEF OutputInv

LEMMA ReadOutput ==
  ASSUME RunTyped, OutputInv, NEW s \in Streams, Read(s)
  PROVE  OutputInv'
<1>1. /\ ~Over /\ pc' = pc /\ written' = written /\ asked' = asked
      /\ rd[s] = "reading" /\ pipe[s] > 0
      /\ pipe' = [pipe EXCEPT ![s] = @ - 1] /\ total' = [total EXCEPT ![s] = @ + 1]
      /\ kept' = [kept EXCEPT ![s] = IF @ < MaxBytes THEN @ + 1 ELSE @]
      /\ truncated' = [truncated EXCEPT ![s] = @ \/ kept[s] >= MaxBytes]
      /\ rd' = IF asked[s] THEN [rd EXCEPT ![s] = "done"] ELSE rd
  BY DEF Read, Reader, Reads, Marked
<1>2. /\ pipe[s] \in Nat /\ total[s] \in Nat /\ kept[s] \in Nat /\ MaxBytes \in Nat
      /\ written[s] = total[s] + pipe[s]
      /\ kept[s] = IF total[s] <= MaxBytes THEN total[s] ELSE MaxBytes
      /\ truncated[s] <=> total[s] > MaxBytes
  BY BoundsAssumption DEF RunTyped, StreamTypes, OutputInv, ChunksAddUp
<1>3. /\ pipe'[s] = pipe[s] - 1 /\ total'[s] = total[s] + 1
      /\ kept'[s] = IF kept[s] < MaxBytes THEN kept[s] + 1 ELSE kept[s]
      /\ truncated'[s] <=> (truncated[s] \/ kept[s] >= MaxBytes)
  BY <1>1 DEF RunTyped, StreamTypes
<1>4. /\ written[s] = total'[s] + pipe'[s]
      /\ kept'[s] = IF total'[s] <= MaxBytes THEN total'[s] ELSE MaxBytes
      /\ truncated'[s] <=> total'[s] > MaxBytes
  BY <1>2, <1>3
<1>5. ChunksAddUp'
  <2>1. ASSUME NEW t \in Streams, t # s
        PROVE  /\ pipe'[t] = pipe[t] /\ total'[t] = total[t] /\ kept'[t] = kept[t]
               /\ truncated'[t] = truncated[t]
    BY <1>1, <2>1 DEF RunTyped, StreamTypes
  <2> QED
    BY <1>1, <1>4, <2>1 DEF OutputInv, ChunksAddUp
<1>6. EndedIsEmpty'
  BY <1>1 DEF RunTyped, StreamTypes, OutputInv, EndedIsEmpty
<1>7. CountsReported'
  BY <1>1 DEF Over, CountsReported
<1> QED
  BY <1>5, <1>6, <1>7 DEF OutputInv

(* Only the end of the pipe ends a reader that nobody has asked to stop.   *)
LEMMA EndOutput ==
  ASSUME RunTyped, OutputInv, NEW s \in Streams, EndOfPipe(s) \/ ReaderStops(s)
  PROVE  OutputInv'
<1>1. /\ ~Over /\ pc' = pc
      /\ UNCHANGED <<asked, written, pipe, kept, total, truncated>>
  BY DEF EndOfPipe, ReaderStops, Reader
<1>2. \E e : /\ rd' = [rd EXCEPT ![s] = e]
             /\ e = "done" => asked[s] \/ pipe[s] = 0
  BY DEF EndOfPipe, ReaderStops
<1>3. EndedIsEmpty'
  BY <1>1, <1>2 DEF RunTyped, StreamTypes, OutputInv, EndedIsEmpty
<1> QED
  BY <1>1, <1>3 DEF Over, OutputInv, ChunksAddUp, CountsReported

(* The caller counts nothing: it starts the readers, asks them to stop and *)
(* reports.                                                                *)
LEMMA CallerOutput ==
  ASSUME RunTyped, InOrder, OutputInv, CallerStep \/ Timeout \/ Interrupted
  PROVE  OutputInv'
<1>1. UNCHANGED <<pipe, written, kept, total, truncated>>
  BY
     DEF CallerStep, Timeout, Interrupted, Refuse, BuildEnvironment, Spawn, Assign,
         Feed, Fails, FailedAlready, StartReaders, WaitReturns, TerminateWindows,
         TerminateGroup, Drain, Reap, ReaderDone, GiveUpReader, AskToStop,
         CloseHandle, CheckDirectory, RemoveProfile, Report, Caller
<1>2. ChunksAddUp'
  BY <1>1 DEF OutputInv, ChunksAddUp
<1>3. EndedIsEmpty'
  <2>1. CASE StartReaders
    BY <2>1 DEF StartReaders, EndedIsEmpty
  <2>2. ASSUME NEW ok \in BOOLEAN, AskToStop(ok)
        PROVE  EndedIsEmpty'
    BY <1>1, <2>2 DEF AskToStop, RunTyped, StreamTypes, OutputInv, EndedIsEmpty
  <2>3. CASE UNCHANGED <<rd, asked>>
    BY <1>1, <2>3 DEF OutputInv, EndedIsEmpty
  <2> QED
    BY <2>1, <2>2, <2>3
       DEF CallerStep, Timeout, Interrupted, Refuse, BuildEnvironment, Spawn,
           Assign, Feed, Fails, FailedAlready, WaitReturns, TerminateWindows,
           TerminateGroup, Drain, Reap, ReaderDone, GiveUpReader, CloseHandle,
           CheckDirectory, RemoveProfile, Report
<1>4. CountsReported'
  <2>1. CASE Refuse
    BY <2>1 DEF Refuse, InOrder, CountsReported
  <2>2. CASE Report
    BY <2>2 DEF Report, Caller, CountsReported
  <2>3. CASE ~Refuse /\ ~Report
    <3>1. pc' # "done"
      BY <2>3
         DEF CallerStep, Timeout, Interrupted, BuildEnvironment, Spawn, Assign,
             Feed, Fails, FailedAlready, StartReaders, WaitReturns, TerminateWindows,
             TerminateGroup, Drain, Reap, ReaderDone, GiveUpReader, Settled,
             AskToStop, CloseHandle, CheckDirectory, RemoveProfile
    <3> QED
      BY <3>1 DEF CountsReported
  <2> QED
    BY <2>1, <2>2, <2>3
<1> QED
  BY <1>2, <1>3, <1>4 DEF OutputInv

LEMMA NextOutput ==
  ASSUME RunTyped, InOrder, OutputInv, [RunNext]_runVars
  PROVE  OutputInv'
<1>1. CASE ProcessStep
  <2>1. CASE \E s \in Streams : Write(s)
    BY <2>1, WriteOutput
  <2>2. CASE ~\E s \in Streams : Write(s)
    <3>1. ~Over /\ UNCHANGED <<pc, rd, asked, kept, total, truncated, pipe, written>>
      BY <1>1, <2>2
         DEF ProcessStep, Fork, ParentExits, LauncherExits, ChildExits, Dies,
             Process, readers
    <3> QED
      BY <3>1 DEF Over, OutputInv, ChunksAddUp, EndedIsEmpty, CountsReported
  <2> QED
    BY <2>1, <2>2
<1>2. CASE ReaderStep
  BY <1>2, ReadOutput, EndOutput DEF ReaderStep
<1>3. CASE UNCHANGED runVars
  BY <1>3 DEF runVars, readers, OutputInv, ChunksAddUp, EndedIsEmpty, CountsReported
<1> QED
  BY <1>1, <1>2, <1>3, CallerOutput DEF RunNext

(* Output is accounted for: the counts of a reader that ran to its end are *)
(* of all that was written, and what it cut is marked.                     *)
(* (bounded_verification_runner.py: BoundedStreamReader.)                  *)
THEOREM OutputIsAccounted == RunSpec => []OutputAccounted
<1>1. RunTyped /\ CleanupInv /\ OutputInv /\ [RunNext]_runVars => OutputInv'
  BY NextOutput DEF CleanupInv
<1>2. RunTyped /\ OutputInv => OutputAccounted
  <2> SUFFICES ASSUME RunTyped, OutputInv, pc = "done", NEW s \in Streams, rd[s] = "done",
                      ~asked[s]
               PROVE  /\ result.total[s] = written[s]
                      /\ result.truncated[s] <=> written[s] > MaxBytes
    BY DEF OutputAccounted
  <2>1. result.total = total /\ result.truncated = truncated
    BY DEF OutputInv, CountsReported
  <2>2. pipe[s] = 0 /\ written[s] = total[s] + pipe[s] /\ total[s] \in Nat
    BY DEF RunTyped, StreamTypes, OutputInv, EndedIsEmpty, ChunksAddUp
  <2>3. truncated[s] <=> total[s] > MaxBytes
    BY DEF OutputInv, ChunksAddUp
  <2>4. written[s] = total[s]
    BY <2>2
  <2> QED
    BY <2>1, <2>3, <2>4
<1> QED
  BY InitOutput, <1>1, <1>2, RunTypeCorrect, CleanupInvHolds, PTL DEF RunSpec
==============================================================================
