--------------------------- MODULE ExecutionStack ---------------------------
(***************************************************************************)
(* What src/index.ts binds to controllerEntryPoint,                        *)
(*                                                                         *)
(*   ExecutionStateTracker (MemoryRecordingControllerCore                  *)
(*      (ApprovalEngine (ControllerCore))),                                *)
(*                                                                         *)
(* with WorkflowOrchestrator, whose steps re-enter the stack at the top    *)
(* under the correlationId of the workflow, and with                       *)
(* ApplicationService.cancelCurrentTask. The approval provider and the     *)
(* planner are present as what they promise: ApprovalGate and JobSlots.    *)
(*                                                                         *)
(* The continuations of a settled promise run to completion: an event      *)
(* (message, tap, timer, exit of a child) is handled only when no          *)
(* execution is in the middle of one, see Quiet.                           *)
(***************************************************************************)
EXTENDS Naturals, Sequences, FiniteSets, SequencesExt

CONSTANTS Execution,    \* requests; the correlationId is the identity
          Repository,
          Repo,         \* the repository of each execution
          Workflow,     \* the executions whose request is a workflow
          Steps,        \* the task types each execution goes through
          Gated,        \* types ApprovalPolicy.requiresApproval
          Cancellable,  \* CANCELLABLE_TASK_TYPES
          Asking,       \* types whose workflow may ask for an approval itself
          MaxJobs,
          Nobody

ASSUME StackAssumption ==
    /\ IsFiniteSet(Execution)
    /\ Nobody \notin Execution
    /\ Workflow \subseteq Execution
    /\ Repo \in [Execution -> Repository]
    /\ \A e \in Execution : Len(Steps[e]) \in Nat \ {0}
    /\ \A e \in Execution \ Workflow : Len(Steps[e]) = 1
    /\ Asking \intersect Cancellable = {}
    /\ \A e \in Workflow : \A i \in 1..Len(Steps[e]) : Steps[e][i] \notin Asking
    /\ MaxJobs \in Nat

VARIABLES at,         \* where the execution is, see Place
          step,       \* the step the orchestrator has reached, 0 before any
          depth,      \* CurrentTaskSnapshot.depth, 0 when there is no record
          registered, \* the keys of the tracker's map, in insertion order
          outcomes,   \* results of the steps that left the stack, in order
          events,     \* Project Memory events recorded for the execution
          granted,    \* steps whose approval was granted
          answer,     \* what the last /task cancel was told, and about whom
          within,     \* the approval the task's own workflow may ask for
          job, verdict, abort,
          gate

Jobs == INSTANCE JobSlots WITH Run <- Execution
Gate == INSTANCE ApprovalGate WITH Correlation <- Execution

planner == <<job, verdict, abort>>
tracker == <<depth, registered>>
vars == <<at, step, tracker, outcomes, events, granted, answer, within, planner, gate>>

\* Suspended places, where the execution waits for an event, and the places
\* its continuation runs through.
Suspended == {"idle", "awaiting", "working", "done"}
Running   == {"entering", "planning", "leaving", "closing"}
Place     == Suspended \union Running

Quiet == \A e \in Execution : at[e] \in Suspended

Outcome == {"success", "failed", "timedOut", "cancelled", "refused", "rejected"}
Answer  == {"none", "nothing-running", "cancelled-approval", "not-cancellable",
            "cancelled", "already-cancelling"}

CurrentType(e) == Steps[e][step[e]]
InWorkflow(e) == IF e \in Workflow THEN 1 ELSE 0

TypeOK ==
    /\ at \in [Execution -> Place]
    /\ step \in [Execution -> Nat]
    /\ \A e \in Execution : step[e] \leq Len(Steps[e])
    /\ depth \in [Execution -> 0..2]
    /\ registered \in Seq(Execution)
    /\ outcomes \in [Execution -> Seq(Outcome)]
    /\ events \in [Execution -> Nat]
    /\ granted \in [Execution -> SUBSET Nat]
    /\ answer \in [kind : Answer, of : Execution \union {Nobody}]
    /\ within \in [Execution -> {"none", "mayAsk", "asking"}]
    /\ job \in [Execution -> {"idle", "running", "unwinding", "returned"}]
    /\ verdict \in [Execution -> Outcome \union {"none"}]
    /\ abort \in [Execution -> {"none", "timedOut", "cancelled"}]
    /\ gate \in [Execution -> {"idle", "asked", "approved", "denied"}]

Init ==
    /\ at = [e \in Execution |-> "idle"]
    /\ step = [e \in Execution |-> 0]
    /\ depth = [e \in Execution |-> 0]
    /\ registered = <<>>
    /\ outcomes = [e \in Execution |-> <<>>]
    /\ events = [e \in Execution |-> 0]
    /\ granted = [e \in Execution |-> {}]
    /\ answer = [kind |-> "none", of |-> Nobody]
    /\ within = [e \in Execution |-> "none"]
    /\ Jobs!Init
    /\ Gate!Init

-----------------------------------------------------------------------------
Enter(e) ==
    /\ depth' = [depth EXCEPT ![e] = @ + 1]
    /\ registered' = IF depth[e] = 0 THEN Append(registered, e) ELSE registered

\* Mutant of Exit: the record goes with the first call that leaves.
ExitAtOnce(e) ==
    /\ depth' = [depth EXCEPT ![e] = 0]
    /\ registered' = RemoveFirst(registered, e)

Exit(e) ==
    /\ depth' = [depth EXCEPT ![e] = @ - 1]
    /\ registered' = IF depth[e] = 1 THEN RemoveFirst(registered, e) ELSE registered

GoTo(e, place) == at' = [at EXCEPT ![e] = place]

\* A request reaches the stack. A workflow is entered as a whole, is never
\* gated, and goes on to the orchestrator; a task is its own only step.
Submit(e) ==
    /\ Quiet
    /\ at[e] = "idle"
    /\ GoTo(e, "entering")
    /\ IF e \in Workflow THEN Enter(e) ELSE UNCHANGED tracker
    /\ UNCHANGED <<step, outcomes, events, granted, answer, within, planner, gate>>

\* WorkflowRegistry.get knows no such workflow: run() throws before a step.
UnknownWorkflow(e) ==
    /\ at[e] = "entering"
    /\ e \in Workflow
    /\ step[e] = 0
    /\ GoTo(e, "closing")
    /\ UNCHANGED <<step, tracker, outcomes, events, granted, answer, within, planner, gate>>

\* Mutant of NeedsApproval: no step of a workflow is gated.
NeedsApprovalAlone(e, type) == type \in Gated /\ e \notin Workflow

\* ApprovalEngine gates a task by its own type, whoever submitted it.
NeedsApproval(e, type) == type \in Gated

\* The next step crosses the tracker and the memory and is gated by its own
\* type. A prompt that cannot be asked is a denial at once.
EnterStep(e) ==
    /\ at[e] = "entering"
    /\ step' = [step EXCEPT ![e] = @ + 1]
    /\ Enter(e)
    /\ \/ /\ ~NeedsApproval(e, Steps[e][step[e] + 1])
          /\ GoTo(e, "planning")
          /\ UNCHANGED gate
       \/ /\ NeedsApproval(e, Steps[e][step[e] + 1])
          /\ Gate!Ask(e)
          /\ GoTo(e, IF gate'[e] = "asked" THEN "awaiting" ELSE "leaving")
    /\ UNCHANGED <<outcomes, events, granted, answer, within, planner>>

\* The approval above the planner lets the step pass or sends it back.
PassGate(e, d) ==
    /\ at[e] = "awaiting"
    /\ GoTo(e, IF d = "approved" THEN "planning" ELSE "leaving")
    /\ granted' = IF d = "approved"
                  THEN [granted EXCEPT ![e] = @ \union {step[e]}]
                  ELSE granted
    /\ UNCHANGED within

\* The workflow has its answer and goes on to its end with it, or to its end
\* without it (a declined sync is a success, a declined rebase a failure).
AnswerWorkflow(e) ==
    /\ within[e] = "asking"
    /\ within' = [within EXCEPT ![e] = "none"]
    /\ UNCHANGED <<at, granted>>

GateDecides(e) ==
    /\ Quiet
    /\ \E d \in {"approved", "denied"} :
          /\ Gate!Decide(e, d)
          /\ PassGate(e, d) \/ AnswerWorkflow(e)
    /\ UNCHANGED <<step, tracker, outcomes, events, answer, planner>>

\* ControllerCore.execute: run() takes a slot, or throws (no slot, no workflow
\* for the type, no such repository).
Plan(e) ==
    /\ at[e] = "planning"
    /\ \/ /\ Jobs!Admit(e)
          /\ GoTo(e, "working")
          /\ within' = [within EXCEPT ![e] = IF CurrentType(e) \in Asking THEN "mayAsk" ELSE "none"]
       \/ /\ Jobs!Refuse(e)
          /\ GoTo(e, "leaving")
          /\ UNCHANGED within
    /\ UNCHANGED <<step, tracker, outcomes, events, granted, answer, gate>>

\* CommandOrchestrator (a rebase) or IntelligentSyncEngine (a diverged branch)
\* asks from within run(), under the same correlationId: the slot is held, and
\* the task's timer runs. A workflow that was given up asks all the same.
AskWithin(e) ==
    /\ Quiet
    /\ within[e] = "mayAsk" /\ at[e] \in {"working", "done"}
    /\ Gate!Ask(e)
    /\ within' = [within EXCEPT ![e] = IF gate'[e] = "asked" THEN "asking" ELSE "none"]
    /\ UNCHANGED <<at, step, tracker, outcomes, events, granted, answer, planner>>

\* Where a change of the planner's state leaves the execution.
FollowJob(e) == GoTo(e, IF job'[e] = "returned" THEN "leaving" ELSE "working")

\* The job ends by its workflow, which has nothing to ask any more then, by
\* its timer, or by the cancellation that came before the workflow.
JobProgress(e) ==
    /\ Quiet
    /\ at[e] = "working"
    /\ Jobs!Progress(e)
    /\ abort'[e] = "cancelled" => abort[e] = "cancelled"
    /\ IF verdict'[e] \in {"success", "failed"}
       THEN within[e] # "asking" /\ within' = [within EXCEPT ![e] = "none"]
       ELSE UNCHANGED within
    /\ FollowJob(e)
    /\ UNCHANGED <<step, tracker, outcomes, events, granted, answer, gate>>

\* What the step comes back with: the rejection of ApprovalEngine, which never
\* called run(), or what run() returned or threw.
StepOutcome(e) == IF job[e] = "returned" THEN verdict[e] ELSE "rejected"

\* Mutant of RecordStep: a result without a run() of the planner is not recorded.
RecordStepRun(e) ==
    events' = [events EXCEPT ![e] = IF job[e] = "returned" THEN @ + 1 ELSE @]

\* MemoryRecordingControllerCore.recordSafely for a result and for an error.
RecordStep(e) == events' = [events EXCEPT ![e] = @ + 1]

\* Mutant of GoesOn: the orchestrator goes on after a failed step.
GoesOnRegardless(e) == step[e] < Len(Steps[e])

\* The loop of WorkflowOrchestrator.run: a failure returns, an exception throws.
GoesOn(e) == StepOutcome(e) = "success" /\ step[e] < Len(Steps[e])

LeaveStep(e) ==
    /\ at[e] = "leaving"
    /\ outcomes' = [outcomes EXCEPT ![e] = Append(@, StepOutcome(e))]
    /\ RecordStep(e)
    /\ Exit(e)
    /\ IF job[e] = "returned" THEN Jobs!Forget(e) ELSE UNCHANGED planner
    /\ GoTo(e, IF GoesOn(e) THEN "entering"
               ELSE IF e \in Workflow THEN "closing" ELSE "done")
    /\ UNCHANGED <<step, granted, answer, within, gate>>

\* The workflow's own crossing is recorded and leaves the tracker.
CloseWorkflow(e) ==
    /\ at[e] = "closing"
    /\ events' = [events EXCEPT ![e] = @ + 1]
    /\ Exit(e)
    /\ GoTo(e, "done")
    /\ UNCHANGED <<step, outcomes, granted, answer, within, planner, gate>>

-----------------------------------------------------------------------------
\* ExecutionStateTracker.getCurrent: the repository's oldest record.
Current(repo) ==
    LET first == SelectInSeq(registered, LAMBDA e : Repo[e] = repo)
    IN  IF first = 0 THEN Nobody ELSE registered[first]

Tell(kind, e) == answer' = [kind |-> kind, of |-> e]

\* Mutant of CanAbort: the controller goes once the race is settled.
CanAbortRunning(e) == job[e] = "running" /\ abort[e] = "none"

\* TaskPlanner.cancel finds a controller that is not aborted yet.
CanAbort(e) == e \in Jobs!Holding /\ abort[e] = "none"

CancelNothing(repo) ==
    /\ Current(repo) = Nobody
    /\ Tell("nothing-running", Nobody)
    /\ UNCHANGED <<at, within, planner, gate>>

\* Mutant of CancelApproval: the entry goes, its promise is never resolved.
CancelApprovalUnresolved(e) ==
    /\ gate[e] = "asked"
    /\ Gate!Decide(e, "denied")
    /\ Tell("cancelled-approval", e)
    /\ UNCHANGED <<at, granted, within, planner>>

\* A pending approval is rejected, whoever asked for it: the step above the
\* planner goes back, the workflow in the planner goes on with the answer.
CancelApproval(e) ==
    /\ gate[e] = "asked"
    /\ Gate!Decide(e, "denied")
    /\ PassGate(e, "denied") \/ AnswerWorkflow(e)
    /\ Tell("cancelled-approval", e)
    /\ UNCHANGED planner

CancelJob(e) ==
    /\ gate[e] # "asked"
    /\ CurrentType(e) \in Cancellable
    /\ CanAbort(e)
    /\ Jobs!Abort(e, "cancelled")
    /\ FollowJob(e)
    /\ Tell("cancelled", e)
    /\ UNCHANGED <<within, gate>>

CancelRefused(e) ==
    /\ gate[e] # "asked"
    /\ IF CurrentType(e) \notin Cancellable THEN Tell("not-cancellable", e)
       ELSE ~CanAbort(e) /\ Tell("already-cancelling", e)
    /\ UNCHANGED <<at, within, planner, gate>>

\* ApplicationService.cancelCurrentTask.
Cancel(repo) ==
    /\ Quiet
    /\ \/ CancelNothing(repo)
       \/ \E e \in Execution :
             /\ Current(repo) = e
             /\ CancelApproval(e) \/ CancelJob(e) \/ CancelRefused(e)
    /\ UNCHANGED <<step, tracker, outcomes, events, granted>>

Continue(e) ==
    UnknownWorkflow(e) \/ EnterStep(e) \/ Plan(e) \/ LeaveStep(e) \/ CloseWorkflow(e)

Next ==
    \/ \E e \in Execution : \/ Submit(e) \/ Continue(e) \/ GateDecides(e)
                           \/ AskWithin(e) \/ JobProgress(e)
    \/ \E repo \in Repository : Cancel(repo)

Spec == Init /\ [][Next]_vars

\* Continuations run, the provider decides (at the latest by its timer, see
\* ApprovalProvider) and run() returns (see TaskPlanner).
FairSpec ==
    /\ Spec
    /\ \A e \in Execution : /\ WF_vars(Continue(e))
                            /\ WF_vars(GateDecides(e))
                            /\ WF_vars(JobProgress(e))

-----------------------------------------------------------------------------
\* Whenever an event can look at the stack, the tracker has a record of an
\* execution exactly while it awaits the approval above the planner or a job
\* runs for it, and only the second occupies a slot. A pending approval, which
\* is all that /task and /task cancel are told, has one asker under its
\* correlationId: the step above the planner, the workflow in its slot, or the
\* workflow of a job that the timer ended, of which nothing is tracked.
TrackedAwaitsOrWorks ==
    Quiet =>
      \A e \in Execution :
        /\ (depth[e] > 0) <=> (at[e] \in {"awaiting", "working"})
        /\ depth[e] > 0 => depth[e] = 1 + InWorkflow(e)
        /\ (e \in Jobs!Holding) <=> (at[e] = "working")
        /\ (gate[e] = "asked") <=> (at[e] = "awaiting" \/ within[e] = "asking")
        /\ within[e] = "asking" =>
              \/ at[e] = "working"
              \/ at[e] = "done" /\ outcomes[e][Len(outcomes[e])] = "timedOut"

\* A step of a gated type reached the planner only if the provider granted the
\* request of this very step, whether it came alone or in a workflow, and one
\* that was granted is never reported rejected.
NoUnapprovedWork ==
    \A e \in Execution :
      /\ \A i \in 1..Len(outcomes[e]) :
            Steps[e][i] \in Gated => (i \in granted[e] <=> outcomes[e][i] # "rejected")
      /\ at[e] = "working" /\ CurrentType(e) \in Gated => step[e] \in granted[e]

\* The orchestrator runs no step after one that did not succeed, and a step is
\* run once.
StopsAtFirstFailure ==
    \A e \in Execution :
      /\ \A i \in 1..Len(outcomes[e]) - 1 : outcomes[e][i] = "success"
      /\ at[e] \in {"entering", "awaiting", "planning", "working"} =>
            \A i \in 1..Len(outcomes[e]) : outcomes[e][i] = "success"
      /\ at[e] = "leaving" => step[e] = Len(outcomes[e]) + 1

\* Every crossing of the stack leaves one event: one for each step, and one
\* for the workflow around them, however each ends.
RecordedOncePerCrossing ==
    \A e \in Execution :
      events[e] = Len(outcomes[e]) + (IF at[e] = "done" THEN InWorkflow(e) ELSE 0)

\* What is submitted ends: no order of grants, refusals, cancellations and
\* timeouts leaves an execution in the stack.
SubmittedFinishes ==
    \A e \in Execution : (at[e] = "entering") ~> (at[e] = "done")

\* "already-cancelling" is told only of a task whose abort is under way, though
\* not always by a cancellation: the tracker, the policy and the planner, asked
\* one after the other, speak of the same execution in the same state.
AlreadyMeansAborted ==
    [][answer'.kind = "already-cancelling" => abort[answer'.of] # "none"]_answer
=============================================================================
