---------------------------- MODULE AutonomousPlans ----------------------------
(***************************************************************************)
(* The engines of autonomous planning, all of them pure: the plan made     *)
(* from the recommendations, its evolution from the last recorded cycle,   *)
(* the patterns in recent cycles, the readiness of each item, and the      *)
(* sequence and schedule it is put in.                                     *)
(*                                                                         *)
(* A plan is the set of its items: the order they are shown in decides     *)
(* nothing, the sequence has its own. Several tasks that fail give several *)
(* items of one key and one here: that each is new then counts as flapping *)
(* and costs them 30 of 100 points, which leaves their level as it is.     *)
(***************************************************************************)
EXTENDS Integers, Sequences, FiniteSets, Recommendations

CONSTANTS
  Repositories, \* in the order of their ids
  CHRONIC_CYCLE_THRESHOLD,
  None

ASSUME AutonomousPlansAssumption ==
  /\ Repositories # <<>>
  /\ \A i, j \in DOMAIN Repositories : Repositories[i] = Repositories[j] => i = j
  /\ \A i \in DOMAIN Repositories : Repositories[i] # None
  /\ CHRONIC_CYCLE_THRESHOLD \in Nat \ {0}

Repository == {Repositories[i] : i \in DOMAIN Repositories}

Index(s, x) == CHOOSE i \in DOMAIN s : s[i] = x

\* PRIORITY_ORDER, CATEGORY_ORDER and the order of localeCompare.
PriorityOrder == <<"critical", "high", "medium", "low">>
CategoryOrder == <<"blocking", "advisory", "informational">>
KindOrder     == <<"ContinueSession", "PullRequired", "RepeatedFailures",
                   "RepositoryReadyToShip", "ReviewChanges", "ReviewPullRequest">>

-----------------------------------------------------------------------------
(* AutonomousPlanningEngine                                                *)

Item(r, advice) ==
  [repository |-> r, kind |-> advice.kind,
   category |-> advice.category, priority |-> advice.priority]

\* facts: of the repositories whose recommendations could be had.
BuildPlan(facts) ==
  UNION {{Item(r, advice) : advice \in Recommend(facts[r])} : r \in DOMAIN facts}

Key(x) == <<x.repository, x.kind>>
Keys(items) == {Key(x) : x \in items}

-----------------------------------------------------------------------------
(* AutonomousPlanEvolutionEngine                                           *)

IsWorse(item, transition) ==
  LET byPriority == Index(PriorityOrder, item.priority) - Index(PriorityOrder, transition.priority)
  IN  \/ byPriority < 0
      \/ /\ byPriority = 0
         /\ Index(CategoryOrder, item.category) < Index(CategoryOrder, transition.category)

Transition(item, change, count) ==
  [repository |-> item.repository, kind |-> item.kind, change |-> change,
   count |-> count, priority |-> item.priority, category |-> item.category]

\* The transitions that go on; a resolved one ends its streak.
Tracked(transitions) == {t \in transitions : t.change # "resolved"}

ToTransition(item, tracked) ==
  IF Key(item) \notin Keys(tracked) THEN Transition(item, "new", 1)
  ELSE LET t == CHOOSE u \in tracked : Key(u) = Key(item)
       IN  Transition(item, IF IsWorse(item, t) THEN "escalating" ELSE "recurring", t.count + 1)

\* Mutant of Evolution: a resolved transition is still counted from.
EvolutionOfAll(transitions, items) ==
  {ToTransition(item, transitions) : item \in items}
  \cup {Transition(t, "resolved", t.count) : t \in {u \in Tracked(transitions) : Key(u) \notin Keys(items)}}

Evolution(transitions, items) ==
  {ToTransition(item, Tracked(transitions)) : item \in items}
  \cup {Transition(t, "resolved", t.count) : t \in {u \in Tracked(transitions) : Key(u) \notin Keys(items)}}

-----------------------------------------------------------------------------
(* AutonomousPlanningAnalysisEngine, over cycles from the newest back.     *)

At(cycles, i, key) == {t \in cycles[i].transitions : Key(t) = key}
SeenAt(cycles, key) == {i \in DOMAIN cycles : At(cycles, i, key) # {}}

\* The cycles of the window, newest first, in which the key escalates without
\* a break.
ConsecutiveEscalations(cycles, key) ==
  Cardinality({n \in DOMAIN cycles :
    \A i \in 1..n : \E t \in At(cycles, i, key) : t.change = "escalating"})

IsPresent(cycles, key) ==
  \E t \in cycles[1].transitions : Key(t) = key /\ t.change # "resolved"

Flaps(cycles, key) ==
  Cardinality({i \in SeenAt(cycles, key) : \E t \in At(cycles, i, key) : t.change = "new"})

CycleCount(cycles, key) ==
  LET newest == CHOOSE i \in SeenAt(cycles, key) : \A j \in SeenAt(cycles, key) : i \leq j
  IN  (CHOOSE t \in At(cycles, newest, key) : TRUE).count

\* SUSTAINED_ESCALATION_THRESHOLD and FLAP_THRESHOLD
Patterns(cycles, key) ==
  IF SeenAt(cycles, key) = {} THEN {}
  ELSE {p \in {"chronic", "sustained-escalation", "flapping"} :
          \/ p = "chronic" /\ IsPresent(cycles, key)
               /\ CycleCount(cycles, key) >= CHRONIC_CYCLE_THRESHOLD
          \/ p = "sustained-escalation" /\ ConsecutiveEscalations(cycles, key) >= 2
          \/ p = "flapping" /\ Flaps(cycles, key) - 1 >= 1}

-----------------------------------------------------------------------------
(* AutonomousPlanReadinessEngine                                           *)

\* CONFIDENCE_BASE_SCORE of the confidence a category gives
BaseScore(category) == IF category = "blocking" THEN 100 ELSE IF category = "advisory" THEN 60 ELSE 20

Deduction(patterns) ==
  (IF "flapping" \in patterns THEN 30 ELSE 0)
  + (IF "sustained-escalation" \in patterns THEN 20 ELSE 0)
  + (IF "chronic" \in patterns THEN 10 ELSE 0)

Score(item, patterns) ==
  LET score == BaseScore(item.category) - Deduction(patterns)
  IN  IF score < 0 THEN 0 ELSE score

\* LEVEL_ORDER is the order of the sequence: the least ready first.
Level(score) == IF score >= 70 THEN 2 ELSE IF score >= 40 THEN 1 ELSE 0

\* A key without a pattern has no analysis, and counts as seen never.
Assess(item, cycles) ==
  LET patterns == Patterns(cycles, Key(item))
  IN  [repository |-> item.repository, kind |-> item.kind,
       level |-> Level(Score(item, patterns)),
       cycleCount |-> IF patterns = {} THEN 0 ELSE CycleCount(cycles, Key(item))]

-----------------------------------------------------------------------------
(* AutonomousPlanSequencingEngine and AutonomousPlanSchedulingEngine       *)

Compare(a, b) ==
  LET before(x, y) == Index(Repositories, x.repository) < Index(Repositories, y.repository)
                        \/ /\ x.repository = y.repository
                           /\ Index(KindOrder, x.kind) < Index(KindOrder, y.kind)
  IN  \/ a.level < b.level
      \/ a.level = b.level /\ a.cycleCount > b.cycleCount
      \/ a.level = b.level /\ a.cycleCount = b.cycleCount /\ before(a, b)

\* The first entry of the schedule of a live plan, or None.
TopEntry(items, cycles) ==
  LET entries == {Assess(item, cycles) : item \in items}
  IN  IF entries = {} THEN None
      ELSE CHOOSE e \in entries : \A f \in entries \ {e} : Compare(e, f)

=============================================================================
