---------------------------- MODULE PipelineProofs ----------------------------
(***************************************************************************)
(* What Pipeline promises, for any number of requests, whatever they ask   *)
(* for, and for every choice of the thresholds and bounds.                 *)
(*                                                                         *)
(* The argument for the circuit breaker: a request counts among those that *)
(* try a task from the decision that lets it through until its outcome is  *)
(* counted. It is let through while the count is below the threshold, or   *)
(* by a misreading that is itself counted; and each outcome that is        *)
(* counted takes its request out of those that try. So count and trying    *)
(* requests together stay below what they may be at a decision: the        *)
(* threshold, all requests and the misreadings. Where a count is lost, all *)
(* requests may try at most.                                               *)
(***************************************************************************)
EXTENDS Pipeline, FiniteSetTheorems, SequenceTheorems, TLAPS

Requests ==
  [at : {"idle", "submitted", "seen", "queued", "running", "answered"},
   ask : [kind : {"task", "pipeline"}, task : TaskType],
   snapshot : Snapshot, session : {"none", "active", "expired"},
   todo : Seq(TaskType), records : SUBSET Record]

HasTask(w, t) == \E i \in DOMAIN w.todo : w.todo[i] = t
HasRecord(w, t) == \E r \in w.records : r.task = t
Tries(w, t) == HasTask(w, t) \/ HasRecord(w, t)

\* Each task of a request is to be done once, or has its one outcome.
Shape(w) ==
  /\ w \in Requests
  /\ w.at \in {"queued", "running"} <=> w.todo # <<>>
  /\ w.at \in {"idle", "submitted", "seen"} => w.records = {}
  /\ w.at \in {"submitted", "seen"} => w.ask \in Ask
  /\ w.at = "seen" => w.ask.kind = "pipeline" \/ w.ask.task \notin Bypass
  /\ \A i, j \in DOMAIN w.todo : w.todo[i] = w.todo[j] => i = j
  /\ \A t \in TaskType \cup {"ship"} : HasTask(w, t) => ~HasRecord(w, t)
  /\ \A r, s \in w.records : r.task = s.task => r = s
  /\ w.at \in {"queued", "running"} => ~HasRecord(w, "ship")
  /\ HasTask(w, "implement-feature") => w.session = "active" \/ "feature" \in w.snapshot.facts

Shapes ==
  /\ request \in [Request -> Requests]
  /\ \A q \in Request : Shape(request[q])

Rest ==
  /\ repo \in SUBSET Fact
  /\ failures \in [TaskType -> 0..MaxFailures]
  /\ shipFailures \in 0..MaxShipFailures
  /\ session \in {"none", "active", "expired"}
  /\ slips \in [TaskType -> 0..MaxSlips]

-----------------------------------------------------------------------------
LEMMA NothingToDo ==
    ASSUME NEW w, w.todo = <<>> PROVE \A t : ~HasTask(w, t)
  BY DOMAIN <<>> = {} DEF HasTask

LEMMA IdleShape == Shape(Idle) /\ \A t : ~Tries(Idle, t)
  <1>1. Idle.todo = <<>> /\ Idle.records = {} /\ Idle.at = "idle"
    BY DEF Idle
  <1>2. Idle \in Requests
    <2>1. <<>> \in Seq(TaskType) /\ {} \in SUBSET Record
      OBVIOUS
    <2>2. NoSnapshot \in Snapshot
      BY DEF NoSnapshot, Snapshot
    <2>3. [kind |-> "task", task |-> "verify-git-status"] \in [kind : {"task", "pipeline"}, task : TaskType]
      BY DEF TaskType
    <2> QED BY <2>1, <2>2, <2>3 DEF Idle, Requests
  <1>3. (\A t : ~HasTask(Idle, t)) /\ (\A t : ~HasRecord(Idle, t))
    BY <1>1, NothingToDo DEF HasRecord
  <1>4. DOMAIN Idle.todo = {}
    BY <1>1
  <1> QED BY <1>1, <1>2, <1>3, <1>4 DEF Shape, Tries

LEMMA FirstOf ==
    ASSUME NEW S, NEW s \in Seq(S), s # <<>>
    PROVE  /\ DOMAIN s = 1..Len(s) /\ Len(s) \in Nat /\ 1 \in DOMAIN s
           /\ Head(s) = s[1] /\ s[1] \in S
  <1>1. DOMAIN s = 1..Len(s) /\ Len(s) \in Nat
    BY LenProperties
  <1>2. Len(s) # 0
    BY EmptySeq
  <1> QED BY <1>1, <1>2, ElementOfSeq

LEMMA RestOf ==
    ASSUME NEW S, NEW s \in Seq(S), s # <<>>, Len(s) # 1
    PROVE  /\ Tail(s) \in Seq(S) /\ Tail(s) # <<>>
           /\ \A i \in DOMAIN Tail(s) : i + 1 \in DOMAIN s /\ i # 0 /\ i \in Nat /\ Tail(s)[i] = s[i + 1]
  <1>1. Tail(s) \in Seq(S) /\ Len(Tail(s)) = Len(s) - 1
        /\ \A i \in 1..Len(Tail(s)) : Tail(s)[i] = s[i + 1]
    BY HeadTailProperties
  <1>2. DOMAIN s = 1..Len(s) /\ Len(s) \in Nat /\ DOMAIN Tail(s) = 1..Len(Tail(s))
    BY <1>1, LenProperties
  <1>3. Len(s) # 0
    BY EmptySeq
  <1>4. Len(Tail(s)) # 0
    BY <1>1, <1>2
  <1>5. Tail(s) # <<>>
    BY <1>4, Len(<<>>) = 0
  <1> QED BY <1>1, <1>2, <1>3, <1>5

\* The end of a task turns it into its outcome, and a request tries no more
\* than it did.
LEMMA EndedKeeps ==
    ASSUME Shapes, NEW q \in Request, NEW ok \in BOOLEAN,
           request[q].at \in {"queued", "running"}, Ended(q, ok)
    PROVE  \E v : /\ request' = [request EXCEPT ![q] = v]
                  /\ Shape(v) /\ \A t \in TaskType : Tries(v, t) => Tries(request[q], t)
  <1> DEFINE w       == request[q]
             over    == ~ok \/ Len(w.todo) = 1
             new     == {[task |-> Head(w.todo), ok |-> ok]}
                        \cup (IF over /\ IsShip(q) THEN {[task |-> "ship", ok |-> ok]} ELSE {})
             records == w.records \cup {r \in new : r.task \in Counted}
  <1>1. Shape(w) /\ w \in Requests /\ w.todo \in Seq(TaskType) /\ w.records \subseteq Record
    BY DEF Shapes, Shape, Requests
  <1>2. w.todo # <<>>
    BY <1>1 DEF Shape
  <1>3. DOMAIN w.todo = 1..Len(w.todo) /\ 1 \in DOMAIN w.todo /\ Head(w.todo) = w.todo[1]
        /\ Head(w.todo) \in TaskType
    BY <1>1, <1>2, FirstOf
  <1>4. ~HasRecord(w, Head(w.todo)) /\ ~HasRecord(w, "ship") /\ Head(w.todo) # "ship"
    BY <1>1, <1>3 DEF Shape, HasTask, TaskType
  <1>5. new \subseteq Record
    BY <1>3 DEF Record
  <1>6. records \subseteq Record
    BY <1>1, <1>5
  <1>7. \A r \in records : r \in w.records \/ r = [task |-> Head(w.todo), ok |-> ok]
                           \/ (over /\ r = [task |-> "ship", ok |-> ok])
    OBVIOUS
  <1>8. \A r, s \in records : r.task = s.task => r = s
    BY <1>1, <1>4, <1>7 DEF Shape, HasRecord
  <1>9. \A t \in TaskType : (\E r \in records : r.task = t) => Tries(w, t)
    BY <1>3, <1>7 DEF Tries, HasTask, HasRecord, TaskType
  <1>10. CASE over
    <2> DEFINE v == [Idle EXCEPT !.at = "answered", !.records = records]
    <2>1. request' = [request EXCEPT ![q] = v]
      BY <1>10 DEF Ended, Answer, Update, Task
    <2>2. Idle \in Requests /\ Idle.todo = <<>>
      BY IdleShape DEF Shape, Idle
    <2>3. v \in Requests /\ v.todo = <<>> /\ v.records = records /\ v.at = "answered"
      BY <1>6, <2>2 DEF Requests
    <2> HIDE DEF v
    <2>4. (\A t : ~HasTask(v, t)) /\ DOMAIN v.todo = {}
      BY <2>3, NothingToDo
    <2>5. Shape(v)
      BY <1>8, <2>3, <2>4 DEF Shape
    <2>6. \A t \in TaskType : Tries(v, t) => Tries(w, t)
      BY <1>9, <2>3, <2>4 DEF Tries, HasRecord
    <2> QED BY <2>1, <2>5, <2>6
  <1>11. CASE ~over
    <2> DEFINE v == [w EXCEPT !.at = "queued", !.todo = Tail(@), !.records = records]
    <2>1. request' = [request EXCEPT ![q] = v]
      BY <1>11 DEF Ended, Update, Task
    <2>2. /\ Tail(w.todo) \in Seq(TaskType) /\ Tail(w.todo) # <<>>
          /\ \A i \in DOMAIN Tail(w.todo) : i + 1 \in DOMAIN w.todo /\ i # 0 /\ i \in Nat
                                           /\ Tail(w.todo)[i] = w.todo[i + 1]
      BY <1>1, <1>2, <1>11, RestOf
    <2>3. /\ v \in Requests /\ v.todo = Tail(w.todo) /\ v.records = records /\ v.at = "queued"
          /\ v.session = w.session /\ v.snapshot = w.snapshot
      BY <1>1, <1>6, <2>2 DEF Requests
    <2>4. \A t : HasTask(v, t) => HasTask(w, t) /\ t # Head(w.todo)
      <3> SUFFICES ASSUME NEW i \in DOMAIN Tail(w.todo)
                   PROVE  /\ i + 1 \in DOMAIN w.todo /\ Tail(w.todo)[i] = w.todo[i + 1]
                          /\ w.todo[i + 1] # w.todo[1]
        BY <1>3, <2>3 DEF HasTask
      <3>1. i + 1 # 1
        BY <2>2
      <3> QED BY <1>1, <1>3, <2>2, <3>1 DEF Shape
    <2>5. \A r \in records : r \in w.records \/ r.task = Head(w.todo)
      BY <1>7, <1>11
    <2>6. \A t \in TaskType \cup {"ship"} : HasTask(v, t) => ~HasRecord(v, t)
      BY <1>1, <2>3, <2>4, <2>5 DEF Shape, HasRecord
    <2>7. ~HasRecord(v, "ship")
      BY <1>4, <2>3, <2>5 DEF HasRecord
    <2>8. \A i, j \in DOMAIN v.todo : v.todo[i] = v.todo[j] => i = j
      <3> SUFFICES ASSUME NEW i \in DOMAIN Tail(w.todo), NEW j \in DOMAIN Tail(w.todo),
                          w.todo[i + 1] = w.todo[j + 1]
          PROVE  i = j
        BY <2>2, <2>3
      <3>1. i + 1 = j + 1
        BY <1>1, <2>2 DEF Shape
      <3> QED BY <2>2, <3>1
    <2>9. HasTask(v, "implement-feature") => v.session = "active" \/ "feature" \in v.snapshot.facts
      BY <1>1, <2>3, <2>4 DEF Shape
    <2>10. Shape(v)
      BY <1>8, <2>2, <2>3, <2>6, <2>7, <2>8, <2>9 DEF Shape
    <2>11. \A t \in TaskType : Tries(v, t) => Tries(w, t)
      BY <1>9, <2>3, <2>4 DEF Tries, HasRecord
    <2> HIDE DEF v
    <2> QED BY <2>1, <2>10, <2>11
  <1> QED BY <1>10, <1>11

-----------------------------------------------------------------------------
\* What the pipeline decides on a snapshot: nothing, the task that is asked
\* for, or a ship; and while a task that edits has failed as often as the
\* threshold, nothing.
LEMMA Decision ==
    ASSUME NEW task \in {"implement-feature", "create-commit"} \cup ReadOnly, NEW s \in Snapshot,
           NEW counts, NEW todo,
           todo = Dispatch(Program(RecommendedAction(task, s, counts)), task), todo # <<>>
    PROVE  /\ ~Blocked(task, s, counts)
           /\ \/ task \in ReadOnly /\ todo = <<task>>
              \/ /\ task = "implement-feature" /\ todo = <<task>>
                 /\ session = "active" \/ "feature" \in s.facts
              \/ task = "create-commit" /\ todo = ShipSteps
  <1>1. Program("ReviewRepository")[1] = "HumanReview" /\ Program("CreateFeatureBranch")[1] = "BranchManagement"
        /\ Program("ShipChanges")[1] = "IntegratedDelivery" /\ Program("AnalyzeFirst")[1] = "VerifyRepository"
        /\ Program("ContinueCurrentTask")[1] = "ContinueImplementation"
    BY DEF Program
  <1>2. ~Blocked(task, s, counts)
    BY <1>1 DEF RecommendedAction, Dispatch
  <1>3. CASE task \in ReadOnly
    <2>1. RecommendedAction(task, s, counts) = "AnalyzeFirst"
      BY <1>2, <1>3 DEF RecommendedAction, ReadOnly
    <2> QED BY <1>1, <1>2, <1>3, <2>1 DEF Dispatch
  <1>4. CASE task = "create-commit"
    <2>1. RecommendedAction(task, s, counts) = "ShipChanges"
      BY <1>2, <1>4 DEF RecommendedAction, ReadOnly
    <2> QED BY <1>1, <1>2, <1>4, <2>1 DEF Dispatch
  <1>5. CASE task = "implement-feature"
    <2>1. RecommendedAction(task, s, counts) = IF session = "active" \/ "feature" \in s.facts
                                       THEN "ContinueCurrentTask" ELSE "CreateFeatureBranch"
      BY <1>2, <1>5 DEF RecommendedAction, ReadOnly
    <2> QED BY <1>1, <1>2, <1>5, <2>1 DEF Dispatch
  <1> QED BY <1>3, <1>4, <1>5

LEMMA BlockedAtThreshold ==
    ASSUME Rest, NEW task \in TaskType \ ReadOnly, NEW s,
           failures[task] >= FAILURE_BLOCK_THRESHOLD
    PROVE  Blocked(task, s, failures)
  <1>1. failures[task] \in Nat
    BY PipelineAssumption DEF Rest
  <1>2. failures[task] >= CONSECUTIVE_FAILURE_WARNING_THRESHOLD
    BY <1>1, PipelineAssumption
  <1>3. Insight("repeated-failures", "critical", task, 0) \in RepeatedTaskFailures(failures)
    BY <1>2 DEF RepeatedTaskFailures
  <1>4. Insight("repeated-failures", "critical", task, 0) \in Insights(s, failures)
    BY <1>3 DEF Insights
  <1> QED BY <1>4 DEF Blocked, Insight

\* A request that has just been let through.
LEMMA ShipShape ==
    /\ ShipSteps \in Seq(TaskType) /\ ShipSteps # <<>> /\ DOMAIN ShipSteps = 1..4
    /\ \A i, j \in DOMAIN ShipSteps : ShipSteps[i] = ShipSteps[j] => i = j
    /\ \A i \in DOMAIN ShipSteps : ShipSteps[i] \notin {"implement-feature", "ship"} \cup ClaudeTask
  <1>1. DOMAIN ShipSteps = 1..4 /\ ShipSteps \in Seq(TaskType) /\ ShipSteps # <<>>
    BY DEF ShipSteps, TaskType
  <1>2. 1..4 = {1, 2, 3, 4}
    OBVIOUS
  <1> QED BY <1>1, <1>2 DEF ShipSteps, ClaudeTask

LEMMA LetThrough ==
    ASSUME NEW w \in Requests, w.records = {}, w.at = "queued",
           \/ \E task \in TaskType : /\ w.todo = <<task>>
                                     /\ task = "implement-feature" =>
                                          w.session = "active" \/ "feature" \in w.snapshot.facts
           \/ w.todo = ShipSteps
    PROVE  Shape(w)
  <1>1. \A t : ~HasRecord(w, t)
    BY DEF HasRecord
  <1>2. ASSUME NEW task \in TaskType, w.todo = <<task>>,
               task = "implement-feature" => w.session = "active" \/ "feature" \in w.snapshot.facts
        PROVE  Shape(w)
    <2>1. DOMAIN w.todo = {1} /\ w.todo[1] = task /\ w.todo # <<>>
      BY <1>2
    <2> QED BY <1>1, <1>2, <2>1 DEF Shape, HasTask
  <1>3. ASSUME w.todo = ShipSteps PROVE Shape(w)
    BY <1>1, <1>3, ShipShape DEF Shape, HasTask
  <1> QED BY <1>2, <1>3

-----------------------------------------------------------------------------
\* What one step of a request makes of it: it has its shape again, and tries
\* only what it tried, unless it has just been let through.
LetIn(q, v) ==
  \A t \in Guarded : HasTask(v, t) =>
    failures[t] < FAILURE_BLOCK_THRESHOLD \/ slips'[t] = slips[t] + 1

LEMMA StepShape ==
    ASSUME Shapes, Rest, NEW q \in Request,
           \/ \E a \in Ask : Submit(q, a)
           \/ Step(q)
    PROVE  \E v : /\ request' = [request EXCEPT ![q] = v] /\ Shape(v)
                  /\ \/ \A t \in Guarded : Tries(v, t) => Tries(request[q], t)
                     \/ Decide(q) /\ LetIn(q, v) /\ v.records = {}
  <1> DEFINE w == request[q]
  <1>1. Shape(w) /\ w \in Requests
    BY DEF Shapes, Shape
  <1>2. Guarded \subseteq TaskType
    BY DEF Guarded, TaskType
  <1>3. Idle \in Requests /\ Idle.todo = <<>> /\ Idle.records = {} /\ Idle.at = "idle"
    BY IdleShape DEF Shape, Idle
  <1>4. ASSUME NEW v \in Requests, v.todo = <<>>, v.records = {},
               v.at \in {"idle", "answered"} \/ (v.at \in {"submitted", "seen"} /\ v.ask \in Ask),
               v.at = "seen" => v.ask.kind = "pipeline" \/ v.ask.task \notin Bypass
        PROVE  Shape(v) /\ \A t : ~Tries(v, t)
    <2>1. (\A t : ~HasTask(v, t)) /\ DOMAIN v.todo = {} /\ \A t : ~HasRecord(v, t)
      BY <1>4, NothingToDo DEF HasRecord
    <2> QED BY <1>4, <2>1 DEF Shape, Tries
  <1>5. ASSUME NEW a \in Ask, Submit(q, a)
        PROVE  \E v : /\ request' = [request EXCEPT ![q] = v] /\ Shape(v)
                      /\ \A t : ~Tries(v, t)
    <2> DEFINE v == [Idle EXCEPT !.at = "submitted", !.ask = a]
    <2>1. request' = [request EXCEPT ![q] = v]
      BY <1>5 DEF Submit, Update
    <2>2. v \in Requests /\ v.todo = <<>> /\ v.records = {} /\ v.at = "submitted" /\ v.ask = a
      BY <1>3, PipelineAssumption DEF Requests
    <2> HIDE DEF v
    <2>3. Shape(v) /\ \A t : ~Tries(v, t)
      BY <1>4, <2>2
    <2> QED BY <2>1, <2>3
  <1>6. ASSUME NEW v, v = [Idle EXCEPT !.at = "answered", !.records = {}]
        PROVE  Shape(v) /\ \A t : ~Tries(v, t)
    <2>1. v \in Requests /\ v.todo = <<>> /\ v.records = {} /\ v.at = "answered"
      BY <1>3, <1>6 DEF Requests
    <2> QED BY <1>4, <2>1
  <1>7. CASE TakeSnapshot(q)
    <2>1. PICK s \in {[readable |-> TRUE, facts |-> repo], Unreadable(repo)} :
            LET seen == [request[q] EXCEPT !.snapshot = s]
            IN  IF ~IsShip(q) /\ seen.ask.task \in Bypass
                THEN Update(q, [seen EXCEPT !.at = "queued", !.todo = <<seen.ask.task>>])
                ELSE Update(q, [seen EXCEPT !.at = "seen"])
      BY <1>7 DEF TakeSnapshot
    <2>2. s \in Snapshot
      <3>1. repo \subseteq Fact /\ {"dirty", "feature"} \cup (repo \cap {"reviewable"}) \subseteq Fact
        BY DEF Rest, Fact
      <3>2. \A f \in SUBSET Fact : \A b \in BOOLEAN : [readable |-> b, facts |-> f] \in Snapshot
        BY DEF Snapshot
      <3> QED BY <3>1, <3>2 DEF Unreadable
    <2>3. w.at = "submitted" /\ w.records = {} /\ w.todo = <<>> /\ w.ask \in Ask
      BY <1>1, <1>7 DEF TakeSnapshot, Shape
    <2> DEFINE seen == [w EXCEPT !.snapshot = s]
    <2>4. seen \in Requests /\ seen.ask = w.ask /\ seen.records = {} /\ seen.todo = <<>> /\ seen.snapshot = s
      BY <1>1, <2>2, <2>3 DEF Requests
    <2> HIDE DEF seen
    <2>5. CASE ~IsShip(q) /\ w.ask.task \in Bypass
      <3> DEFINE v == [seen EXCEPT !.at = "queued", !.todo = <<w.ask.task>>]
      <3>1. request' = [request EXCEPT ![q] = v]
        BY <2>1, <2>4, <2>5 DEF Update, seen
      <3>2. w.ask.task \in TaskType /\ w.ask.task # "implement-feature"
        BY <2>5 DEF Bypass, TaskType
      <3>3. /\ v \in Requests /\ v.todo = <<w.ask.task>> /\ v.records = {} /\ v.at = "queued"
        <4>1. <<w.ask.task>> \in Seq(TaskType)
          BY <3>2
        <4> QED BY <2>4, <4>1 DEF Requests
      <3> HIDE DEF v
      <3>4. Shape(v)
        BY <3>2, <3>3, LetThrough
      <3>5. ASSUME NEW t \in Guarded PROVE ~Tries(v, t)
        <4>1. ~HasRecord(v, t)
          BY <3>3 DEF HasRecord
        <4>2. w.ask.task # t
          <5>1. CASE w.ask.task = "create-commit"
            <6>1. w.ask.kind = "task" /\ w.ask \in [kind : {"task", "pipeline"}, task : TaskType]
              BY <1>1, <2>5 DEF IsShip, Requests
            <6>2. w.ask = [kind |-> "task", task |-> "create-commit"]
              BY <5>1, <6>1
            <6> QED BY <2>3, <5>1, <6>2 DEF Guarded
          <5>2. CASE w.ask.task # "create-commit"
            BY <3>2, <5>2 DEF Guarded
          <5> QED BY <5>1, <5>2
        <4>3. DOMAIN v.todo = {1} /\ v.todo[1] = w.ask.task
          BY <3>3
        <4> QED BY <4>1, <4>2, <4>3 DEF Tries, HasTask
      <3> QED BY <3>1, <3>4, <3>5
    <2>6. CASE ~(~IsShip(q) /\ w.ask.task \in Bypass)
      <3> DEFINE v == [seen EXCEPT !.at = "seen"]
      <3>1. request' = [request EXCEPT ![q] = v]
        BY <2>1, <2>4, <2>6 DEF Update, seen
      <3>2. v \in Requests /\ v.todo = <<>> /\ v.records = {} /\ v.at = "seen" /\ v.ask = w.ask
        BY <2>4 DEF Requests
      <3> HIDE DEF v
      <3>3. v.ask.kind = "pipeline" \/ v.ask.task \notin Bypass
        BY <2>6, <3>2 DEF IsShip
      <3>4. Shape(v) /\ \A t : ~Tries(v, t)
        BY <1>4, <2>3, <3>2, <3>3
      <3> QED BY <3>1, <3>4
    <2> QED BY <2>5, <2>6
  <1>8. CASE Decide(q)
    <2> DEFINE task == w.ask.task
    <2>5. PICK counts \in {failures, NoFailures} :
            LET todo == Dispatch(Program(RecommendedAction(task, w.snapshot, counts)), task)
                slip == /\ counts # failures /\ todo # <<>>
                        /\ task \notin ReadOnly /\ failures[task] >= FAILURE_BLOCK_THRESHOLD
            IN  /\ IF todo = <<>> THEN Answer(q, {})
                   ELSE Update(q, [w EXCEPT !.at = "queued", !.session = session, !.todo = todo,
                                            !.snapshot.facts = @ \cap {"feature"}])
                /\ slip => slips[task] < MaxSlips
                /\ slips' = IF slip THEN [slips EXCEPT ![task] = @ + 1] ELSE slips
      BY <1>8 DEF Decide
    <2> DEFINE todo == Dispatch(Program(RecommendedAction(task, w.snapshot, counts)), task)
    <2>1. w.at = "seen" /\ w.records = {} /\ w.todo = <<>> /\ w.ask \in Ask
          /\ (w.ask.kind = "pipeline" \/ task \notin Bypass)
      BY <1>1, <1>8 DEF Decide, Shape
    <2>2. task \in {"implement-feature", "create-commit"} \cup ReadOnly /\ w.snapshot \in Snapshot
      <3>1. w.ask.kind = "pipeline" => task = "create-commit"
        BY <2>1, PipelineAssumption
      <3>2. task \in TaskType /\ w.snapshot \in Snapshot
        BY <1>1 DEF Requests
      <3> QED BY <2>1, <3>1, <3>2 DEF TaskType, Bypass, ReadOnly
    <2>3. CASE todo = <<>>
      <3>1. request' = [request EXCEPT ![q] = [Idle EXCEPT !.at = "answered", !.records = {}]]
        BY <2>3, <2>5 DEF Answer, Update
      <3> QED BY <1>6, <3>1
    <2>4. CASE todo # <<>>
      <3> DEFINE v == [w EXCEPT !.at = "queued", !.session = session, !.todo = todo,
                                !.snapshot.facts = @ \cap {"feature"}]
      <3>1. request' = [request EXCEPT ![q] = v]
        BY <2>4, <2>5 DEF Update
      <3>2. /\ ~Blocked(task, w.snapshot, counts)
            /\ \/ task \in ReadOnly /\ todo = <<task>>
               \/ /\ task = "implement-feature" /\ todo = <<task>>
                  /\ session = "active" \/ "feature" \in w.snapshot.facts
               \/ task = "create-commit" /\ todo = ShipSteps
        <4> DEFINE c == counts
        <4>1. ASSUME NEW td, td = Dispatch(Program(RecommendedAction(task, w.snapshot, c)), task), td # <<>>
              PROVE  /\ ~Blocked(task, w.snapshot, c)
                     /\ \/ task \in ReadOnly /\ td = <<task>>
                        \/ /\ task = "implement-feature" /\ td = <<task>>
                           /\ session = "active" \/ "feature" \in w.snapshot.facts
                        \/ task = "create-commit" /\ td = ShipSteps
          <5> HIDE DEF task, c
          <5> QED BY <2>2, <4>1, Decision
        <4> QED BY <2>4, <4>1
      <3>3. todo \in Seq(TaskType)
        <4>1. task \in TaskType
          BY <1>1 DEF Requests
        <4>2. <<task>> \in Seq(TaskType)
          BY <4>1
        <4> QED BY <3>2, <4>2, ShipShape
      <3> HIDE DEF todo
      <3>4. /\ v \in Requests /\ v.todo = todo /\ v.records = {} /\ v.at = "queued"
            /\ v.session = session /\ v.snapshot.facts = w.snapshot.facts \cap {"feature"}
        BY <1>1, <2>1, <2>2, <3>3 DEF Requests, Rest, Snapshot
      <3> HIDE DEF v
      <3>5. Shape(v)
        <4>1. task \in TaskType /\ "implement-feature" \notin ReadOnly
          BY <1>1 DEF Requests, ReadOnly
        <4>2. CASE todo = ShipSteps
          BY <3>4, <4>2, LetThrough
        <4>3. CASE todo = <<task>> /\ (task = "implement-feature" => session = "active" \/ "feature" \in w.snapshot.facts)
          BY <3>4, <4>1, <4>3, LetThrough
        <4> QED BY <3>2, <4>1, <4>2, <4>3
      <3>6. LetIn(q, v)
        <4> SUFFICES ASSUME NEW t \in Guarded, HasTask(v, t), failures[t] >= FAILURE_BLOCK_THRESHOLD
                     PROVE  slips'[t] = slips[t] + 1
          <5>1. \A t \in Guarded : failures[t] \in Nat
            BY PipelineAssumption DEF Rest, Guarded, TaskType
          <5> QED BY <5>1, PipelineAssumption DEF LetIn
        <4>1. t \in TaskType \ ReadOnly
          BY DEF Guarded, TaskType, ReadOnly
        <4>2. t = task
          <5>1. CASE todo = <<task>>
            <6>1. DOMAIN v.todo = {1} /\ v.todo[1] = task
              BY <3>4, <5>1
            <6> QED BY <6>1 DEF HasTask
          <5>2. CASE todo = ShipSteps /\ task = "create-commit"
            BY <3>4, <5>2, ShipShape DEF HasTask, Guarded
          <5> QED BY <3>2, <5>1, <5>2
        <4>3. counts # failures
          BY <3>2, <4>1, <4>2, BlockedAtThreshold
        <4>4. slips' = [slips EXCEPT ![task] = @ + 1]
          BY <2>4, <2>5, <4>1, <4>2, <4>3 DEF todo
        <4> QED BY <4>1, <4>2, <4>4 DEF Rest
      <3> QED BY <1>8, <3>1, <3>4, <3>5, <3>6
    <2> QED BY <2>3, <2>4
  <1>9. CASE RequestFails(q)
    <2>1. request' = [request EXCEPT ![q] = [Idle EXCEPT !.at = "answered", !.records = {}]]
      BY <1>9 DEF RequestFails, Answer, Update
    <2> QED BY <1>6, <2>1
  <1>10. CASE Reject(q) \/ Refuse(q) \/ Perform(q) \/ Fail(q)
    <2>1. PICK ok \in BOOLEAN : Ended(q, ok)
      BY <1>10 DEF Reject, Refuse, Perform, Fail
    <2>2. w.at \in {"queued", "running"}
      BY <1>10 DEF Reject, Refuse, Perform, Fail
    <2> QED BY <1>2, <2>1, <2>2, EndedKeeps
  <1>11. CASE Begin(q)
    <2> DEFINE v == [w EXCEPT !.at = "running"]
    <2>1. request' = [request EXCEPT ![q] = v] /\ w.at = "queued"
      BY <1>11 DEF Begin, Update
    <2>2. /\ v \in Requests /\ v.at = "running" /\ v.todo = w.todo /\ v.records = w.records
          /\ v.session = w.session /\ v.snapshot = w.snapshot
      BY <1>1 DEF Requests
    <2> HIDE DEF v
    <2>3. Shape(v) /\ \A t : Tries(v, t) => Tries(w, t)
      BY <1>1, <2>1, <2>2 DEF Shape, Tries, HasTask, HasRecord
    <2> QED BY <2>1, <2>3
  <1>12. ASSUME NEW r \in w.records, Save(q, r)
         PROVE  \E v : /\ request' = [request EXCEPT ![q] = v] /\ Shape(v)
                       /\ \A t : Tries(v, t) => Tries(w, t)
    <2> DEFINE v == [w EXCEPT !.records = @ \ {r}]
    <2>1. request' = [request EXCEPT ![q] = v]
      BY <1>12 DEF Save, Update
    <2>2. /\ v \in Requests /\ v.at = w.at /\ v.todo = w.todo /\ v.records = w.records \ {r}
          /\ v.session = w.session /\ v.snapshot = w.snapshot /\ v.ask = w.ask
      BY <1>1 DEF Requests
    <2> HIDE DEF v
    <2>3. Shape(v) /\ \A t : Tries(v, t) => Tries(w, t)
      BY <1>1, <2>2 DEF Shape, Tries, HasTask, HasRecord
    <2> QED BY <2>1, <2>3
  <1>13. CASE Forget(q)
    <2>1. request' = [request EXCEPT ![q] = Idle]
      BY <1>13 DEF Forget, Update
    <2> QED BY <2>1, IdleShape
  <1> QED BY <1>5, <1>7, <1>8, <1>9, <1>10, <1>11, <1>12, <1>13 DEF Step

-----------------------------------------------------------------------------
IInv == Shapes /\ Rest /\ BreakerHolds

LEMMA TryingIs ==
    /\ \A t : Trying(t) = {q \in Request : Tries(request[q], t)}
    /\ \A t : Trying(t)' = {q \in Request : Tries(request'[q], t)}
    /\ \A t : IsFiniteSet(Trying(t)) /\ Cardinality(Trying(t)) \in Nat
    /\ \A t : IsFiniteSet(Trying(t)') /\ Cardinality(Trying(t)') \in Nat
    /\ Cardinality(Request) \in Nat
  <1>1. /\ \A t : Trying(t) = {q \in Request : Tries(request[q], t)}
        /\ \A t : Trying(t)' = {q \in Request : Tries(request'[q], t)}
    BY DEF Trying, Tries, HasTask, HasRecord
  <1>2. \A t : Trying(t) \subseteq Request /\ Trying(t)' \subseteq Request
    BY <1>1
  <1>3. IsFiniteSet(Request)
    BY PipelineAssumption
  <1> QED BY <1>1, <1>2, <1>3, FS_Subset, FS_CardinalityType

\* The bound, for n failures and k misreadings.
Bounded(t, n, k) ==
  n + Cardinality(Trying(t)) < FAILURE_BLOCK_THRESHOLD + Cardinality(Request) + k

LEMMA BoundedIs ==
    /\ BreakerHolds <=> \A t \in Guarded : Bounded(t, failures[t], slips[t])
    /\ BreakerHolds' <=> \A t \in Guarded : Bounded(t, failures[t], slips[t])'
  BY DEF BreakerHolds, Bounded, Guarded

\* Where nothing is counted the requests stay below the bound by themselves.
LEMMA BelowAtZero ==
    ASSUME NEW t, failures'[t] = 0, slips'[t] \in Nat
    PROVE  Bounded(t, failures[t], slips[t])'
  <1>1. Trying(t)' \subseteq Request
    BY TryingIs
  <1>2. Cardinality(Trying(t)') <= Cardinality(Request)
    BY <1>1, PipelineAssumption, FS_Subset
  <1>3. FAILURE_BLOCK_THRESHOLD \in Nat /\ FAILURE_BLOCK_THRESHOLD > 0
    BY PipelineAssumption
  <1>4. Cardinality(Trying(t)') < FAILURE_BLOCK_THRESHOLD + Cardinality(Request) + slips'[t]
    BY <1>2, <1>3, TryingIs
  <1> QED BY <1>4, TryingIs DEF Bounded

LEMMA BelowNumbers ==
    ASSUME NEW t, failures[t] \in Nat, slips[t] \in Nat, slips'[t] \in Nat,
           failures'[t] = failures[t], slips[t] <= slips'[t],
           Bounded(t, failures[t], slips[t]), Trying(t)' \subseteq Trying(t)
    PROVE  Bounded(t, failures[t], slips[t])'
  <1>1. Cardinality(Trying(t)') <= Cardinality(Trying(t))
    BY TryingIs, FS_Subset
  <1> QED BY <1>1, TryingIs, PipelineAssumption DEF Bounded

\* A count only rises with the outcome of a request that had tried, and that
\* tries no more.
LEMMA SaveKeepsBreaker ==
    ASSUME IInv, NEW q \in Request, NEW r \in request[q].records, Save(q, r)
    PROVE  BreakerHolds'
  <1> DEFINE w == request[q]
             v == [w EXCEPT !.records = @ \ {r}]
  <1>1. w \in Requests /\ Shape(w) /\ request \in [Request -> Requests]
    BY DEF IInv, Shapes, Shape
  <1>2. request' = [request EXCEPT ![q] = v]
    BY DEF Save, Update
  <1>3. v.todo = w.todo /\ v.records = w.records \ {r}
    BY <1>1 DEF Requests
  <1> HIDE DEF v
  <1> SUFFICES ASSUME NEW t \in Guarded
      PROVE  Bounded(t, failures[t], slips[t])'
    BY BoundedIs
  <1>4. t \in TaskType /\ t # "ship"
    BY DEF Guarded, TaskType
  <1>5. failures[t] \in Nat /\ slips[t] \in Nat
    BY <1>4, PipelineAssumption DEF IInv, Rest
  <1>6. Bounded(t, failures[t], slips[t])
    BY BoundedIs DEF IInv
  <1>7. Trying(t)' \subseteq Trying(t)
    BY <1>1, <1>2, <1>3, TryingIs DEF Tries, HasTask, HasRecord
  <1>8. slips'[t] = IF failures'[t] = 0 THEN 0 ELSE slips[t]
    BY <1>4 DEF Save, ForgetSlips
  <1>9. \/ failures'[t] = 0
        \/ failures'[t] = failures[t]
        \/ r.task = t /\ failures'[t] = Count(failures[t], MaxFailures)
    BY <1>4 DEF Save, IInv, Rest, NoFailures
  <1>10. CASE failures'[t] = 0
    BY <1>8, <1>10, BelowAtZero
  <1>11. CASE failures'[t] = failures[t] /\ failures'[t] # 0
    BY <1>5, <1>6, <1>7, <1>8, <1>11, BelowNumbers
  <1>12. CASE r.task = t /\ failures'[t] = Count(failures[t], MaxFailures) /\ failures'[t] # 0
    <2>1. failures'[t] \in Nat /\ failures'[t] <= failures[t] + 1
      BY <1>5, <1>12 DEF Count
    <2>2. q \in Trying(t) /\ q \notin Trying(t)'
      <3>1. HasRecord(w, t) /\ ~HasRecord(v, t)
        BY <1>1, <1>3, <1>12 DEF Shape, HasRecord
      <3>2. ~HasTask(v, t)
        BY <1>1, <1>3, <1>4, <3>1 DEF Shape, HasTask
      <3>3. request'[q] = v
        BY <1>1, <1>2
      <3> QED BY <3>1, <3>2, <3>3, TryingIs DEF Tries
    <2>3. Cardinality(Trying(t)') <= Cardinality(Trying(t)) - 1
      <3>1. Trying(t)' \subseteq Trying(t) \ {q}
        BY <1>7, <2>2
      <3>2. IsFiniteSet(Trying(t) \ {q}) /\ Cardinality(Trying(t) \ {q}) = Cardinality(Trying(t)) - 1
        BY <2>2, TryingIs, FS_RemoveElement
      <3> QED BY <3>1, <3>2, FS_Subset
    <2>4. slips'[t] = slips[t]
      BY <1>8, <1>12
    <2> QED BY <1>5, <1>6, <2>1, <2>3, <2>4, TryingIs, PipelineAssumption DEF Bounded
  <1> QED BY <1>9, <1>10, <1>11, <1>12

\* A request is let through while the count is below the threshold, when no
\* more than all requests try, or by a misreading, which the bound allows for.
LEMMA StepKeepsBreaker ==
    ASSUME IInv, NEW q \in Request, UNCHANGED failures,
           slips' \in [TaskType -> 0..MaxSlips], \A t \in TaskType : slips[t] <= slips'[t],
           (\E a \in Ask : Submit(q, a)) \/ Step(q)
    PROVE  BreakerHolds'
  <1>1. PICK v : /\ request' = [request EXCEPT ![q] = v] /\ Shape(v)
                 /\ \/ \A t \in Guarded : Tries(v, t) => Tries(request[q], t)
                    \/ Decide(q) /\ LetIn(q, v) /\ v.records = {}
    BY StepShape DEF IInv
  <1> SUFFICES ASSUME NEW t \in Guarded
      PROVE  Bounded(t, failures[t], slips[t])'
    BY BoundedIs
  <1>2. t \in TaskType /\ failures[t] \in Nat /\ slips[t] \in Nat /\ slips'[t] \in Nat
    BY PipelineAssumption DEF IInv, Rest, Guarded, TaskType
  <1>3. Bounded(t, failures[t], slips[t])
    BY BoundedIs DEF IInv
  <1>4. \A p \in Request : request'[p] = IF p = q THEN v ELSE request[p]
    BY <1>1 DEF IInv, Shapes
  <1>5. CASE Tries(v, t) => Tries(request[q], t)
    <2>1. Trying(t)' \subseteq Trying(t)
      BY <1>4, <1>5, TryingIs
    <2> QED BY <1>2, <1>3, <2>1, BelowNumbers
  <1>6. CASE LetIn(q, v) /\ v.records = {} /\ Tries(v, t)
    <2>1. HasTask(v, t)
      BY <1>6 DEF Tries, HasRecord
    <2>2. CASE failures[t] < FAILURE_BLOCK_THRESHOLD
      <3>1. Cardinality(Trying(t)') <= Cardinality(Request)
        <4>1. Trying(t)' \subseteq Request
          BY TryingIs
        <4> QED BY <4>1, PipelineAssumption, FS_Subset
      <3> QED BY <1>2, <2>2, <3>1, TryingIs, PipelineAssumption DEF Bounded
    <2>3. CASE slips'[t] = slips[t] + 1
      <3>1. Cardinality(Trying(t)') <= Cardinality(Trying(t)) + 1
        <4>1. Trying(t)' \subseteq Trying(t) \cup {q}
          BY <1>4, TryingIs
        <4>2. IsFiniteSet(Trying(t) \cup {q}) /\ Cardinality(Trying(t) \cup {q}) <= Cardinality(Trying(t)) + 1
              /\ Cardinality(Trying(t) \cup {q}) \in Nat
          BY TryingIs, FS_AddElement, FS_CardinalityType
        <4>3. Cardinality(Trying(t)') <= Cardinality(Trying(t) \cup {q})
          BY <4>1, <4>2, FS_Subset
        <4> QED BY <4>2, <4>3, TryingIs
      <3> QED BY <1>2, <1>3, <2>3, <3>1, TryingIs, PipelineAssumption DEF Bounded
    <2> QED BY <1>6, <2>1, <2>2, <2>3 DEF LetIn
  <1> QED BY <1>1, <1>5, <1>6

-----------------------------------------------------------------------------
LEMMA SlipsForgotten ==
    ASSUME slips \in [TaskType -> 0..MaxSlips], ForgetSlips
    PROVE  slips' \in [TaskType -> 0..MaxSlips]
  BY PipelineAssumption DEF ForgetSlips

LEMMA Inductive == Spec => []IInv
  <1>1. Init => IInv
    <2> SUFFICES ASSUME Init PROVE IInv
      OBVIOUS
    <2>1. Shapes
      BY IdleShape DEF Init, Shapes, Shape
    <2>2. Rest
      BY PipelineAssumption DEF Init, NoFailures, Rest
    <2>3. ASSUME NEW t \in Guarded PROVE Bounded(t, failures[t], slips[t])
      <3>1. failures[t] = 0 /\ slips[t] = 0
        BY DEF Init, NoFailures, Guarded, TaskType
      <3>2. Trying(t) = {}
        BY IdleShape, TryingIs DEF Init
      <3>3. Cardinality(Trying(t)) = 0
        BY <3>2, FS_EmptySet
      <3> QED BY <3>1, <3>3, TryingIs, PipelineAssumption DEF Bounded
    <2> QED BY <2>1, <2>2, <2>3, BoundedIs DEF IInv
  <1>2. IInv /\ [Next]_vars => IInv'
    <2> SUFFICES ASSUME IInv, [Next]_vars PROVE IInv'
      OBVIOUS
    <2>1. Shapes /\ Rest
      BY DEF IInv
    <2>5. ASSUME NEW q \in Request, Perform(q) PROVE repo' \in SUBSET Fact
      <3>1. request[q].todo # <<>> /\ request[q].todo \in Seq(TaskType)
        BY <2>1, <2>5 DEF Perform, Shapes, Shape, Requests
      <3>2. Task(q) \in TaskType
        BY <3>1, FirstOf DEF Task
      <3>3. repo' = Effect(Task(q)) /\ repo \subseteq Fact
        BY <2>1, <2>5 DEF Perform, Rest
      <3>4. ASSUME NEW t \in TaskType PROVE Effect(t) \subseteq Fact
        BY <3>3 DEF Effect, TaskType, ReadOnly, Fact
      <3> QED BY <3>2, <3>3, <3>4
    <2>2. CASE \E q \in Request : Step(q) \/ \E a \in Ask : Submit(q, a)
      <3>1. PICK q \in Request : (\E a \in Ask : Submit(q, a)) \/ Step(q)
        BY <2>2
      <3>2. Shapes'
        <4>1. PICK v : request' = [request EXCEPT ![q] = v] /\ Shape(v)
          BY <2>1, <3>1, StepShape
        <4>2. v \in Requests
          BY <4>1 DEF Shape
        <4> QED BY <2>1, <4>1, <4>2 DEF Shapes
      <3>3. CASE ~\E r \in request[q].records : Save(q, r)
        <4>1. repo' \in SUBSET Fact
          <5>1. UNCHANGED repo \/ Perform(q) \/ Fail(q)
            BY <3>1, <3>3 DEF Step, Submit, TakeSnapshot, Decide, RequestFails, Reject, Begin,
               Refuse, Forget
          <5>2. CASE Perform(q)
            BY <2>1, <5>2, <2>5
          <5>3. CASE Fail(q)
            BY <2>1, <5>3 DEF Fail, Rest, Fact
          <5> QED BY <2>1, <5>1, <5>2, <5>3 DEF Rest
        <4>2. session' \in {"none", "active", "expired"}
          BY <2>1, <3>1, <3>3 DEF Rest, Step, Submit, TakeSnapshot, Decide, RequestFails, Reject, Begin,
             Refuse, Perform, Fail, Forget
        <4>3. UNCHANGED <<failures, shipFailures>>
          BY <3>1, <3>3 DEF Step, Submit, TakeSnapshot, Decide, RequestFails, Reject, Begin,
             Refuse, Perform, Fail, Forget
        <4>4. UNCHANGED slips \/ \E t \in TaskType : slips[t] < MaxSlips /\ slips' = [slips EXCEPT ![t] = @ + 1]
          <5>1. UNCHANGED slips \/ Decide(q)
            BY <3>1, <3>3 DEF Step, Submit, TakeSnapshot, RequestFails, Reject, Begin,
               Refuse, Perform, Fail, Forget
          <5>2. CASE Decide(q)
            <6>1. request[q].ask.task \in TaskType
              BY <2>1 DEF Shapes, Shape, Requests
            <6>2. UNCHANGED slips \/ (slips[request[q].ask.task] < MaxSlips
                                     /\ slips' = [slips EXCEPT ![request[q].ask.task] = @ + 1])
              BY <5>2 DEF Decide
            <6> QED BY <6>1, <6>2
          <5> QED BY <5>1, <5>2
        <4>5. slips' \in [TaskType -> 0..MaxSlips] /\ \A t \in TaskType : slips[t] <= slips'[t]
          BY <2>1, <4>4, PipelineAssumption DEF Rest
        <4>6. Rest'
          BY <2>1, <4>1, <4>2, <4>3, <4>5 DEF Rest
        <4> QED BY <3>1, <3>2, <4>3, <4>5, <4>6, StepKeepsBreaker DEF IInv
      <3>4. CASE \E r \in request[q].records : Save(q, r)
        <4>1. PICK r \in request[q].records : Save(q, r)
          BY <3>4
        <4>2. UNCHANGED <<repo, session>>
          BY <4>1 DEF Save
        <4>3. failures' \in [TaskType -> 0..MaxFailures] /\ shipFailures' \in 0..MaxShipFailures
          BY <2>1, <4>1, PipelineAssumption DEF Rest, Save, Count, NoFailures
        <4>4. ForgetSlips
          BY <4>1 DEF Save
        <4>5. Rest'
          BY <2>1, <4>2, <4>3, <4>4, SlipsForgotten DEF Rest
        <4> QED BY <3>2, <4>1, <4>5, SaveKeepsBreaker DEF IInv
      <3> QED BY <3>3, <3>4
    <2>3. CASE \/ \E f \in OutsideFact : Change(f)
               \/ ShipFailureAges \/ SessionExpires \/ ResetSession \/ UNCHANGED vars
      <3>1. UNCHANGED <<request, failures, slips>>
        BY <2>3 DEF Change, ShipFailureAges, SessionExpires, ResetSession, vars
      <3>2. repo' \in SUBSET Fact
        BY <2>1, <2>3, PipelineAssumption
        DEF Rest, Change, ShipFailureAges, SessionExpires, ResetSession, vars
      <3>3. shipFailures' \in 0..MaxShipFailures
        BY <2>1, <2>3, PipelineAssumption
        DEF Rest, Change, ShipFailureAges, SessionExpires, ResetSession, vars
      <3>4. session' \in {"none", "active", "expired"}
        BY <2>1, <2>3 DEF Rest, Change, ShipFailureAges, SessionExpires, ResetSession, vars
      <3>5. Rest'
        BY <2>1, <3>1, <3>2, <3>3, <3>4 DEF Rest
      <3> QED BY <2>1, <3>1, <3>5 DEF IInv, Shapes, BreakerHolds, Trying, Guarded
    <2>4. CASE LoseFailures \/ \E c \in TaskType : ClearFailures(c)
      <3>1. /\ UNCHANGED <<request, repo, shipFailures, session>> /\ ForgetSlips
            /\ \/ failures' = NoFailures
               \/ \E c \in TaskType : failures' = [failures EXCEPT ![c] = 0]
        BY <2>4 DEF ClearFailures, LoseFailures
      <3>2. failures' \in [TaskType -> 0..MaxFailures]
        BY <2>1, <3>1, PipelineAssumption DEF Rest, NoFailures
      <3>3. Rest'
        BY <2>1, <3>1, <3>2, SlipsForgotten DEF Rest
      <3>4. ASSUME NEW t \in Guarded PROVE Bounded(t, failures[t], slips[t])'
        <4>1. t \in TaskType
          BY DEF Guarded, TaskType
        <4>2. failures[t] \in Nat /\ slips[t] \in Nat
          BY <2>1, <4>1, PipelineAssumption DEF Rest
        <4>3. failures'[t] = 0 \/ failures'[t] = failures[t]
          BY <2>1, <3>1, <4>1 DEF NoFailures, Rest
        <4>4. slips'[t] = IF failures'[t] = 0 THEN 0 ELSE slips[t]
          BY <3>1, <4>1 DEF ForgetSlips
        <4>5. Trying(t)' \subseteq Trying(t)
          BY <3>1 DEF Trying
        <4>6. Bounded(t, failures[t], slips[t])
          BY BoundedIs DEF IInv
        <4>7. CASE failures'[t] = 0
          BY <4>4, <4>7, BelowAtZero
        <4>8. CASE failures'[t] = failures[t] /\ failures'[t] # 0
          BY <4>2, <4>4, <4>5, <4>6, <4>8, BelowNumbers
        <4> QED BY <4>3, <4>7, <4>8
      <3>5. BreakerHolds'
        BY <3>4, BoundedIs
      <3> QED BY <2>1, <3>1, <3>3, <3>5 DEF IInv, Shapes
    <2> QED
      BY <2>2, <2>3, <2>4 DEF Next
  <1> QED BY <1>1, <1>2, PTL DEF Spec

\* Every variable holds what it is declared to hold, and exactly the requests
\* that are queued or running have something to do.
THEOREM TypeCorrect == Spec => []TypeOK
  <1>1. IInv => TypeOK
    BY DEF IInv, Shapes, Shape, Rest, TypeOK, Requests
  <1> QED BY <1>1, Inductive, PTL

\* However many requests are decided on old counts, or on a file that is half
\* written, a task that keeps failing fails no more often than the threshold and
\* the requests in flight allow, and once more for each such misreading.
THEOREM TheBreakerHolds == Spec => []BreakerHolds
  BY Inductive, PTL DEF IInv

\* An implementation starts on the default branch only if a session was active
\* when it was decided, or somebody has left the feature branch since.
THEOREM ImplementationsAreOffDefault == Spec => ImplementsOffDefault
  <1>1. IInv /\ [Next]_vars =>
          [\A q \in Request : Begin(q) /\ Task(q) = "implement-feature" /\ "feature" \notin repo
             => request[q].session = "active" \/ "feature" \in request[q].snapshot.facts]_vars
    <2> SUFFICES ASSUME IInv, NEW q \in Request, Begin(q), Task(q) = "implement-feature"
        PROVE  request[q].session = "active" \/ "feature" \in request[q].snapshot.facts
      OBVIOUS
    <2>1. Shape(request[q]) /\ request[q].todo \in Seq(TaskType)
      BY DEF IInv, Shapes, Shape, Requests
    <2>2. request[q].todo # <<>>
      BY <2>1 DEF Begin, Shape
    <2>3. HasTask(request[q], "implement-feature")
      BY <2>1, <2>2, FirstOf DEF Task, HasTask
    <2> QED BY <2>1, <2>3 DEF Shape
  <1> QED BY <1>1, Inductive, PTL DEF Spec, ImplementsOffDefault
=============================================================================
