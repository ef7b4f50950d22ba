------------------------------- MODULE Pipeline -------------------------------
(***************************************************************************)
(* ExecutionPipeline over one repository, and the engines it decides with: *)
(* RepositoryIntelligenceService's snapshot, DecisionEngine's insights,    *)
(* StrategyEngine, PlanningEngine and ExecutionCoordinator, with the       *)
(* session of ClaudeSessionManager and the failure counts they read.       *)
(*                                                                         *)
(* A request is decided on a snapshot that is old by then, and its outcome *)
(* is counted some time after it was answered; others work on the same     *)
(* repository meanwhile. The approval, the slots and the recording are     *)
(* those of ExecutionStack, TaskPlanner and FailureState, cut down to what *)
(* they let through. Of each set of task types that are treated alike one  *)
(* or two stand for all.                                                   *)
(***************************************************************************)
EXTENDS Naturals, Sequences, FiniteSets, Recommendations

CONSTANTS
  Request,     \* the requests that may be in flight
  Ask,         \* what they may ask for
  OutsideFact, \* the facts that others change: users, remotes
  FAILURE_BLOCK_THRESHOLD,
  CONSECUTIVE_FAILURE_WARNING_THRESHOLD,
  REPEATED_FAILURE_THRESHOLD,
  MaxJobs,     \* max_concurrent_jobs
  MaxFailures, \* bounds of the counts: more failures than that read like that
  MaxShipFailures, \* many
  MaxSlips,    \* bound: how often the counts of a task that is blocked are misread
  Counted      \* bound: what is counted; all but these have no outcomes

TaskType == {"implement-feature", "explain-code", "verify-git-status",
             "create-commit", "push-changes", "create-pull-request",
             "switch-branch"}

\* BYPASS_TASK_TYPES and READ_ONLY_TASK_TYPES; the rest edits with claude.
Bypass     == {"create-commit", "push-changes", "create-pull-request", "switch-branch"}
ReadOnly   == {"explain-code", "verify-git-status"}
ClaudeTask == {"implement-feature", "explain-code"}

\* shipWorkflow
ShipSteps == <<"verify-git-status", "create-commit", "push-changes",
               "create-pull-request">>

\* What is not said of a repository: it is on its default branch, clean,
\* published, recent.
Fact == {"feature", "dirty", "ahead", "behind", "reviewable", "stale"}

ASSUME PipelineAssumption ==
  /\ IsFiniteSet(Request) /\ Request # {}
  /\ Ask \subseteq [kind : {"task", "pipeline"}, task : TaskType]
  /\ \A a \in Ask : a.kind = "pipeline" => a.task = "create-commit"
  /\ OutsideFact \subseteq Fact
  /\ FAILURE_BLOCK_THRESHOLD \in Nat \ {0}
  /\ CONSECUTIVE_FAILURE_WARNING_THRESHOLD \in 0..FAILURE_BLOCK_THRESHOLD
  /\ REPEATED_FAILURE_THRESHOLD \in Nat
  /\ MaxJobs \in Nat /\ MaxFailures \in Nat /\ MaxShipFailures \in Nat /\ MaxSlips \in Nat
  /\ Counted \subseteq TaskType \cup {"ship"}

VARIABLES
  repo,         \* what is true of the repository
  failures,     \* the consecutive failures of each task type
  shipFailures, \* the failed ships among the recent events
  session,      \* the session of the repository
  request,      \* what each request is doing
  slips         \* history: how often a task was let through by a half-written
                \* file, against counts that block it, since its count was zero

vars == <<repo, failures, shipFailures, session, request, slips>>

-----------------------------------------------------------------------------
(* The snapshot. A status that cannot be read makes it a directory that is *)
(* no repository, on an unknown branch, with a tree that is not clean.     *)

Snapshot == [readable : BOOLEAN, facts : SUBSET Fact]

Unreadable(facts) ==
  [readable |-> FALSE, facts |-> {"dirty", "feature"} \cup (facts \cap {"reviewable"})]

CanShip(s) == s.readable /\ s.facts \cap {"dirty", "ahead"} # {}

-----------------------------------------------------------------------------
(* DecisionEngine, on the failure counts it has read. Insights that are    *)
(* mere information only show.                                             *)

Insight(kind, severity, task, nth) ==
  [kind |-> kind, severity |-> severity, task |-> task, nth |-> nth]

StateInsights(s) ==
  (IF "dirty" \in s.facts THEN {Insight("unclean-working-tree", "warning", "", 0)} ELSE {})
  \cup (IF "stale" \in s.facts THEN {Insight("stale-branch", "warning", "", 0)} ELSE {})

UnfinishedWorkflows ==
  {Insight("unfinished-workflow", "warning", "", i) : i \in 1..shipFailures}

RepeatedTaskFailures(counts) ==
  {Insight("repeated-failures",
           IF counts[t] >= FAILURE_BLOCK_THRESHOLD THEN "critical" ELSE "warning", t, 0) :
     t \in {u \in TaskType : counts[u] >= CONSECUTIVE_FAILURE_WARNING_THRESHOLD}}

RepeatedWorkflowFailures ==
  IF shipFailures < REPEATED_FAILURE_THRESHOLD THEN {}
  ELSE {Insight("repeated-failures",
                IF shipFailures >= 2 * REPEATED_FAILURE_THRESHOLD
                THEN "critical" ELSE "warning", "", 0)}

Insights(s, counts) ==
  StateInsights(s) \cup UnfinishedWorkflows \cup RepeatedTaskFailures(counts)
    \cup RepeatedWorkflowFailures

\* RISKY_SITUATION_MIN_WARNINGS
Risky(s, counts) == Cardinality(Insights(s, counts)) >= 2

\* What the recommendations are made from.
FactsOf(s, counts) ==
  {f \in RepositoryFact :
     \/ f = "failing" /\ \E i \in Insights(s, counts) : i.kind = "repeated-failures" /\ i.severity = "critical"
     \/ f = "risky" /\ Risky(s, counts)
     \/ f = "unclean" /\ "dirty" \in s.facts
     \/ f = "behind" /\ "behind" \in s.facts
     \/ f = "reviewable" /\ "reviewable" \in s.facts
     \/ f = "shippable" /\ CanShip(s)
     \/ f = "session" /\ session = "active"}

-----------------------------------------------------------------------------
(* StrategyEngine, PlanningEngine and ExecutionCoordinator. A request that *)
(* expects an approval, or whose task is in Bypass, never comes here but   *)
(* as a "pipeline" request to create-commit.                               *)

\* Mutant of Blocked: any critical insight but its own blocks.
BlockedByOthers(task, s, counts) ==
  \/ ~s.readable
  \/ /\ task \notin ReadOnly
     /\ \E i \in Insights(s, counts) : /\ i.kind = "repeated-failures" /\ i.severity = "critical"
                               /\ i.task # task

\* buildExecutionReadiness
Blocked(task, s, counts) ==
  \/ ~s.readable
  \/ /\ task \notin ReadOnly
     /\ \E i \in Insights(s, counts) : /\ i.kind = "repeated-failures" /\ i.severity = "critical"
                               /\ i.task = task

\* Mutant of RecommendedAction: it is not asked where the work would go.
ActionAnywhere(task, s, counts) ==
  IF Blocked(task, s, counts) THEN "ReviewRepository"
  ELSE CASE task = "create-commit"     -> "ShipChanges"
         [] task \in ReadOnly          -> "AnalyzeFirst"
         [] task = "implement-feature" -> "ContinueCurrentTask"

RecommendedAction(task, s, counts) ==
  IF Blocked(task, s, counts) THEN "ReviewRepository"
  ELSE CASE task = "create-commit"     -> "ShipChanges"
         [] task \in ReadOnly          -> "AnalyzeFirst"
         [] task = "implement-feature" ->
              IF session = "active" \/ "feature" \in s.facts
              THEN "ContinueCurrentTask" ELSE "CreateFeatureBranch"

\* The capabilities of the plan's steps, by goal.
Program(action) ==
  CASE action = "ReviewRepository"    -> <<"HumanReview">>
    [] action = "ShipChanges"         -> <<"IntegratedDelivery">>
    [] action = "AnalyzeFirst"        -> <<"VerifyRepository">>
    [] action = "ContinueCurrentTask" -> <<"ContinueImplementation">>
    [] action = "CreateFeatureBranch" -> <<"BranchManagement", "ContinueImplementation">>

\* What dispatch() has the controller do; nothing when the first step blocks.
Dispatch(program, task) ==
  CASE program[1] \in {"HumanReview", "BranchManagement"} -> <<>>
    [] program[1] = "IntegratedDelivery" -> ShipSteps
    [] program[1] \in {"VerifyRepository", "ContinueImplementation"} -> <<task>>

-----------------------------------------------------------------------------
(* The requests.                                                           *)

NoSnapshot == [readable |-> FALSE, facts |-> {}]
Idle == [at |-> "idle", ask |-> [kind |-> "task", task |-> "verify-git-status"],
         snapshot |-> NoSnapshot, session |-> "none", todo |-> <<>>, records |-> {}]

\* records: outcomes that are not yet counted; "ship" is the workflow's.
Record == [task : TaskType \cup {"ship"}, ok : BOOLEAN]

TypeOK ==
  /\ repo \in SUBSET Fact
  /\ failures \in [TaskType -> 0..MaxFailures]
  /\ shipFailures \in 0..MaxShipFailures
  /\ session \in {"none", "active", "expired"}
  /\ request \in [Request ->
       [at : {"idle", "submitted", "seen", "queued", "running", "answered"},
        ask : [kind : {"task", "pipeline"}, task : TaskType],
        snapshot : Snapshot, session : {"none", "active", "expired"},
        todo : Seq(TaskType), records : SUBSET Record]]
  /\ slips \in [TaskType -> 0..MaxSlips]
  /\ \A q \in Request : request[q].at \in {"queued", "running"} <=> request[q].todo # <<>>

NoFailures == [t \in TaskType |-> 0]

Init ==
  /\ repo \in SUBSET OutsideFact
  /\ failures = NoFailures /\ shipFailures = 0
  /\ session = "none" /\ slips = NoFailures
  /\ request = [q \in Request |-> Idle]

Update(q, new) == request' = [request EXCEPT ![q] = new]
Answer(q, records) == Update(q, [Idle EXCEPT !.at = "answered", !.records = records])
Running == {q \in Request : request[q].at = "running"}
Task(q) == Head(request[q].todo)
IsShip(q) == request[q].ask.kind = "pipeline"

Submit(q, a) ==
  /\ request[q].at = "idle"
  /\ Update(q, [Idle EXCEPT !.at = "submitted", !.ask = a])
  /\ UNCHANGED <<repo, failures, shipFailures, session, slips>>

\* buildContext; a literal task of Bypass goes to the controller at once.
TakeSnapshot(q) ==
  /\ request[q].at = "submitted"
  /\ \E s \in {[readable |-> TRUE, facts |-> repo], Unreadable(repo)} :
       LET seen == [request[q] EXCEPT !.snapshot = s]
       IN  IF ~IsShip(q) /\ seen.ask.task \in Bypass
           THEN Update(q, [seen EXCEPT !.at = "queued", !.todo = <<seen.ask.task>>])
           ELSE Update(q, [seen EXCEPT !.at = "seen"])
  /\ UNCHANGED <<repo, failures, shipFailures, session, slips>>

\* recommend, buildPlan, buildProgram and the first step of dispatch; a request
\* that is blocked is answered, which leaves the failures as they are. The counts
\* are read without waiting for the queue of their updates: while the file is
\* being written, for whatever repository, it parses as no failures. Of the
\* snapshot only the branch is remembered, for the property that is about it.
Decide(q) ==
  /\ request[q].at = "seen"
  /\ \E counts \in {failures, NoFailures} :
       LET task == request[q].ask.task
           todo == Dispatch(Program(RecommendedAction(task, request[q].snapshot, counts)), task)
           slip == /\ counts # failures /\ todo # <<>>
                   /\ task \notin ReadOnly /\ failures[task] >= FAILURE_BLOCK_THRESHOLD
       IN  /\ IF todo = <<>> THEN Answer(q, {})
              ELSE Update(q, [request[q] EXCEPT !.at = "queued", !.session = session, !.todo = todo,
                                                !.snapshot.facts = @ \cap {"feature"}])
           /\ slip => slips[task] < MaxSlips
           /\ slips' = IF slip THEN [slips EXCEPT ![task] = @ + 1] ELSE slips
  /\ UNCHANGED <<repo, failures, shipFailures, session>>

\* The context, the history or the failure counts cannot be read.
RequestFails(q) ==
  /\ request[q].at \in {"submitted", "seen"}
  /\ Answer(q, {})
  /\ UNCHANGED <<repo, failures, shipFailures, session, slips>>

\* The task at the head of todo has ended: its outcome is on its way to the
\* counts, and the workflow goes on, or ends with an outcome of its own.
Ended(q, ok) ==
  LET over    == ~ok \/ Len(request[q].todo) = 1
      new     == {[task |-> Task(q), ok |-> ok]}
                 \cup (IF over /\ IsShip(q) THEN {[task |-> "ship", ok |-> ok]} ELSE {})
      records == request[q].records \cup {r \in new : r.task \in Counted}
  IN  IF over THEN Answer(q, records)
      ELSE Update(q, [request[q] EXCEPT !.at = "queued", !.todo = Tail(@), !.records = records])

\* A push or a pull request that is not approved, or no slot.
Reject(q) ==
  /\ request[q].at = "queued"
  /\ \/ Task(q) \in {"push-changes", "create-pull-request"}
     \/ Cardinality(Running) >= MaxJobs
  /\ Ended(q, FALSE)
  /\ UNCHANGED <<repo, failures, shipFailures, session, slips>>

\* TaskPlanner.run, whose workflow of a claude task resolves the session.
Begin(q) ==
  /\ request[q].at = "queued"
  /\ Cardinality(Running) < MaxJobs
  /\ session' = IF Task(q) \in ClaudeTask THEN "active" ELSE session
  /\ Update(q, [request[q] EXCEPT !.at = "running"])
  /\ UNCHANGED <<repo, failures, shipFailures, slips>>

\* PreflightValidationPolicy.validate, and the check of the base branch.
Preflight(task) ==
  CASE task = "create-commit"       -> "dirty" \in repo
    [] task = "push-changes"        -> "behind" \notin repo
    [] task = "switch-branch"       -> "dirty" \notin repo
    [] task = "create-pull-request" -> "feature" \in repo
    [] task \in ClaudeTask \cup {"verify-git-status"} -> TRUE

Refuse(q) ==
  /\ request[q].at = "running" /\ ~Preflight(Task(q))
  /\ Ended(q, FALSE)
  /\ UNCHANGED <<repo, failures, shipFailures, session, slips>>

Effect(task) ==
  CASE task = "create-commit"       -> (repo \ {"dirty"}) \cup {"ahead"}
    [] task = "push-changes"        -> repo \ {"ahead"}
    [] task = "create-pull-request" -> repo \cup {"reviewable"}
    [] task = "switch-branch"       -> IF "feature" \in repo THEN repo \ {"feature"}
                                       ELSE repo \cup {"feature"}
    [] task = "implement-feature"   -> repo \cup {"dirty"}
    [] task \in ReadOnly            -> repo

Perform(q) ==
  /\ request[q].at = "running" /\ Preflight(Task(q))
  /\ repo' = Effect(Task(q))
  /\ Ended(q, TRUE)
  /\ UNCHANGED <<failures, shipFailures, session, slips>>

\* An error, a timeout or a cancellation; only claude leaves something behind.
Fail(q) ==
  /\ request[q].at = "running"
  /\ repo' \in {repo, IF Task(q) = "implement-feature" THEN repo \cup {"dirty"} ELSE repo}
  /\ Ended(q, FALSE)
  /\ UNCHANGED <<failures, shipFailures, session, slips>>

\* One more, up to the bound.
Count(n, bound) == IF n < bound THEN n + 1 ELSE n

\* A count that is zero begins anew.
ForgetSlips == slips' = [t \in TaskType |-> IF failures'[t] = 0 THEN 0 ELSE slips[t]]

\* ProjectMemoryService.record, which nobody waits for. It may fail before the
\* outcome is counted, or when the file of all counts has been truncated.
Save(q, r) ==
  /\ r \in request[q].records
  /\ Update(q, [request[q] EXCEPT !.records = @ \ {r}])
  /\ IF r.task = "ship"
     THEN /\ shipFailures' \in {shipFailures,
                               IF r.ok THEN shipFailures ELSE Count(shipFailures, MaxShipFailures)}
          /\ UNCHANGED failures
     ELSE /\ failures' \in {failures, NoFailures,
                           [failures EXCEPT ![r.task] = IF r.ok THEN 0 ELSE Count(@, MaxFailures)]}
          /\ UNCHANGED shipFailures
  /\ ForgetSlips
  /\ UNCHANGED <<repo, session>>

\* The identity of an answered request stands for a later one.
Forget(q) ==
  /\ request[q].at = "answered" /\ request[q].records = {}
  /\ Update(q, Idle)
  /\ UNCHANGED <<repo, failures, shipFailures, session, slips>>

-----------------------------------------------------------------------------
(* Others.                                                                 *)

\* A user in the working tree, or the remote.
Change(f) ==
  /\ repo' = IF f \in repo THEN repo \ {f} ELSE repo \cup {f}
  /\ UNCHANGED <<failures, shipFailures, session, request, slips>>

\* Failed ships leave the recent events as others come.
ShipFailureAges ==
  /\ shipFailures > 0 /\ shipFailures' = shipFailures - 1
  /\ UNCHANGED <<repo, failures, session, request, slips>>

ClearFailures(t) ==
  /\ failures[t] # 0 /\ failures' = [failures EXCEPT ![t] = 0]
  /\ ForgetSlips
  /\ UNCHANGED <<repo, shipFailures, session, request>>

\* All of them are cleared, or a write of the file they share ends half way.
LoseFailures ==
  /\ failures # NoFailures /\ failures' = NoFailures
  /\ ForgetSlips
  /\ UNCHANGED <<repo, shipFailures, session, request>>

SessionExpires ==
  /\ session = "active" /\ session' = "expired"
  /\ UNCHANGED <<repo, failures, shipFailures, request, slips>>

ResetSession ==
  /\ session # "none" /\ session' = "none"
  /\ UNCHANGED <<repo, failures, shipFailures, request, slips>>

-----------------------------------------------------------------------------
Step(q) ==
  \/ TakeSnapshot(q) \/ Decide(q) \/ RequestFails(q) \/ Reject(q) \/ Begin(q)
  \/ Refuse(q) \/ Perform(q) \/ Fail(q)
  \/ \E r \in request[q].records : Save(q, r)
  \/ Forget(q)

Next ==
  \/ \E q \in Request : Step(q) \/ \E a \in Ask : Submit(q, a)
  \/ \E f \in OutsideFact : Change(f)
  \/ ShipFailureAges \/ SessionExpires \/ ResetSession
  \/ \E t \in TaskType : ClearFailures(t)
  \/ LoseFailures

Spec == Init /\ [][Next]_vars

-----------------------------------------------------------------------------
\* The requests that will, or may, count an outcome of the task.
Trying(task) ==
  {q \in Request : \/ \E i \in DOMAIN request[q].todo : request[q].todo[i] = task
                   \/ \E r \in request[q].records : r.task = task}

\* What is only ever done on a decision of the pipeline: a literal commit is
\* not, and a ship is decided on the failures of its commit alone.
Guarded ==
  {"implement-feature"} \cup
  (IF [kind |-> "task", task |-> "create-commit"] \in Ask THEN {} ELSE {"create-commit"})

\* The circuit breaker is read long before the outcome it lets through is
\* counted, and sometimes from a file that is half written. However requests
\* overlap, a task that keeps failing fails no more often than the threshold and
\* the requests in flight allow, and once more for each such misreading since its
\* count began.
BreakerHolds ==
  \A t \in Guarded :
    failures[t] + Cardinality(Trying(t))
      < FAILURE_BLOCK_THRESHOLD + Cardinality(Request) + slips[t]

\* Known not to hold, see the README. SYSTEM_DESIGN.md:156: "Five consecutive
\* `sync` failures block `sync`". Beyond the requests that were already let
\* through no failure is counted past the threshold.
NothingSlipsThrough ==
  \A t \in Guarded :
    failures[t] + Cardinality(Trying(t)) < FAILURE_BLOCK_THRESHOLD + Cardinality(Request)

\* An implementation starts on the default branch only if a session was active
\* when it was decided, or somebody has left the feature branch since.
ImplementsOffDefault ==
  [][\A q \in Request : Begin(q) /\ Task(q) = "implement-feature" /\ "feature" \notin repo
       => request[q].session = "active" \/ "feature" \in request[q].snapshot.facts]_vars

\* Known not to hold, see the README. RecommendationEngine.ts:142: "The
\* repository has unshipped changes and no blockers prevent shipping." What is
\* said to be ready to ship is not refused for want of anything to commit.
ReadyToShipShips ==
  [][\A q \in Request : Refuse(q) /\ IsShip(q) /\ Task(q) = "create-commit"
       => "RepositoryReadyToShip" \notin
            {a.kind : a \in Recommend(FactsOf([readable |-> TRUE, facts |-> repo], failures))}]_vars

=============================================================================
