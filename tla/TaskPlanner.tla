---------------------------- MODULE TaskPlanner ----------------------------
(***************************************************************************)
(* src/planner/TaskPlanner.ts: one run() call per member of Run, admitted  *)
(* while a slot is free, raced against an AbortSignal that a timer or      *)
(* cancel() fires, bracketed by two snapshots of the working tree when the *)
(* task is undoable.                                                       *)
(*                                                                         *)
(* A step is what the event loop runs without interruption: everything     *)
(* between two awaits of run(), one timer or cancel() call with the        *)
(* continuation of the race it settles, or one action of the workflow that *)
(* runs in another process (the claude child, a git child).                *)
(***************************************************************************)
EXTENDS Naturals, FiniteSets

CONSTANTS Run,        \* run() calls; a call's correlationId is its identity
          MaxJobs,    \* ControllerConfig.task.max_concurrent_jobs
          MaxEdits,   \* bound on the edits made to the working tree
          NoTree      \* no snapshot was taken

ASSUME PlannerAssumption ==
    /\ MaxJobs \in Nat
    /\ MaxEdits \in Nat
    /\ NoTree \notin Nat
    /\ IsFiniteSet(Run)

VARIABLES phase,            \* where run() is suspended
          kind,             \* what the task is
          runningTaskCount,
          abortControllers, \* correlationIds with a registered controller
          reason,           \* why the run's signal was aborted
          workflow,         \* the workflow's own process
          result,           \* the TaskResult the race produced
          tree,             \* version of the working tree: edits made to it
          lastEdit,         \* version the run's own last edit produced, or 0
          before, after     \* the snapshots of the run's checkpoint

vars == <<phase, kind, runningTaskCount, abortControllers, reason, workflow,
          result, tree, lastEdit, before, after>>

\* "edit": implement-feature and fix-bug, cancellable and undoable;
\* "read": the other claude-backed types, cancellable only;
\* "git": every type whose workflow ignores its signal.
Kind        == {"edit", "read", "git"}
Undoable    == {"edit"}
Cancellable == {"edit", "read"}

Active  == {"before", "executing", "after", "artifacts"}
Phase   == {"idle", "returned"} \union Active
Aborts  == {"timedOut", "cancelled"}
Results == {"none", "refused", "success", "failed"} \union Aborts
Version == 0..MaxEdits

InFlight == {r \in Run : phase[r] \in Active}

TypeOK ==
    /\ phase \in [Run -> Phase]
    /\ kind \in [Run -> Kind]
    /\ runningTaskCount \in Nat
    /\ abortControllers \subseteq Run
    /\ reason \in [Run -> {"none"} \union Aborts]
    /\ workflow \in [Run -> {"none", "working", "ended"}]
    /\ result \in [Run -> Results]
    /\ tree \in Version
    /\ lastEdit \in [Run -> Version]
    /\ before \in [Run -> Version \union {NoTree}]
    /\ after \in [Run -> Version \union {NoTree}]

Init ==
    /\ phase = [r \in Run |-> "idle"]
    /\ kind \in [Run -> Kind]
    /\ runningTaskCount = 0
    /\ abortControllers = {}
    /\ reason = [r \in Run |-> "none"]
    /\ workflow = [r \in Run |-> "none"]
    /\ result = [r \in Run |-> "none"]
    /\ tree = 0
    /\ lastEdit = [r \in Run |-> 0]
    /\ before = [r \in Run |-> NoTree]
    /\ after = [r \in Run |-> NoTree]

-----------------------------------------------------------------------------
\* Mutant of Leave: the controller of a returned call stays registered.
LeaveRegistered(r) ==
    /\ phase' = [phase EXCEPT ![r] = "returned"]
    /\ runningTaskCount' = runningTaskCount - 1
    /\ UNCHANGED abortControllers

\* The finally block, and the value run() returns.
Leave(r) ==
    /\ phase' = [phase EXCEPT ![r] = "returned"]
    /\ runningTaskCount' = runningTaskCount - 1
    /\ abortControllers' = abortControllers \ {r}

\* The race settles with outcome res while the "before" snapshot is snap: an
\* "after" snapshot is due if there is a "before" one, artifacts are recorded
\* for a success only.
Settle(r, res, snap) ==
    /\ result' = [result EXCEPT ![r] = res]
    /\ \/ /\ snap # NoTree
          /\ phase' = [phase EXCEPT ![r] = "after"]
          /\ UNCHANGED <<runningTaskCount, abortControllers>>
       \/ /\ snap = NoTree /\ res = "success"
          /\ phase' = [phase EXCEPT ![r] = "artifacts"]
          /\ UNCHANGED <<runningTaskCount, abortControllers>>
       \/ /\ snap = NoTree /\ res # "success"
          /\ Leave(r)

\* TaskConcurrencyLimitExceededError: thrown before any state is touched.
RefuseOverLimit(r) ==
    /\ phase[r] = "idle"
    /\ runningTaskCount >= MaxJobs
    /\ phase' = [phase EXCEPT ![r] = "returned"]
    /\ result' = [result EXCEPT ![r] = "refused"]
    /\ UNCHANGED <<kind, runningTaskCount, abortControllers, reason, workflow,
                   tree, lastEdit, before, after>>

\* workflowFactory.create() throws: no slot was taken yet.
FactoryThrows(r) ==
    /\ phase[r] = "idle"
    /\ runningTaskCount < MaxJobs
    /\ phase' = [phase EXCEPT ![r] = "returned"]
    /\ result' = [result EXCEPT ![r] = "refused"]
    /\ UNCHANGED <<kind, runningTaskCount, abortControllers, reason, workflow,
                   tree, lastEdit, before, after>>

\* Mutant of Start: one slot more than there are.
StartOverLimit(r) ==
    /\ phase[r] = "idle"
    /\ runningTaskCount <= MaxJobs
    /\ runningTaskCount' = runningTaskCount + 1
    /\ abortControllers' = abortControllers \union {r}
    /\ kind[r] \notin Undoable
    /\ phase' = [phase EXCEPT ![r] = "executing"]
    /\ workflow' = [workflow EXCEPT ![r] = "working"]
    /\ UNCHANGED <<kind, reason, result, tree, lastEdit, before, after>>

\* The slot, the controller and the timer are taken in one step; an undoable
\* task then awaits its "before" snapshot, any other starts its workflow.
Start(r) ==
    /\ phase[r] = "idle"
    /\ runningTaskCount < MaxJobs
    /\ runningTaskCount' = runningTaskCount + 1
    /\ abortControllers' = abortControllers \union {r}
    /\ \/ /\ kind[r] \in Undoable
          /\ phase' = [phase EXCEPT ![r] = "before"]
          /\ UNCHANGED workflow
       \/ /\ kind[r] \notin Undoable
          /\ phase' = [phase EXCEPT ![r] = "executing"]
          /\ workflow' = [workflow EXCEPT ![r] = "working"]
    /\ UNCHANGED <<kind, reason, result, tree, lastEdit, before, after>>

\* The "before" snapshot is there, or failed and was given up. The workflow
\* starts even under an aborted signal; rejectOnAbort then rejects at once.
BeforeSnapshot(r) ==
    /\ phase[r] = "before"
    /\ \E snap \in {tree, NoTree} :
          /\ before' = [before EXCEPT ![r] = snap]
          /\ workflow' = [workflow EXCEPT ![r] = "working"]
          /\ \/ /\ reason[r] \in Aborts
                /\ Settle(r, reason[r], snap)
             \/ /\ reason[r] = "none"
                /\ phase' = [phase EXCEPT ![r] = "executing"]
                /\ UNCHANGED <<runningTaskCount, abortControllers, result>>
    /\ UNCHANGED <<kind, reason, tree, lastEdit, after>>

\* The workflow's process changes a file, whether or not run() still waits.
Edit(r) ==
    /\ workflow[r] = "working"
    /\ kind[r] # "read"
    /\ tree < MaxEdits
    /\ tree' = tree + 1
    /\ lastEdit' = [lastEdit EXCEPT ![r] = tree + 1]
    /\ UNCHANGED <<phase, kind, runningTaskCount, abortControllers, reason,
                   workflow, result, before, after>>

\* Mutants of WorkflowEnds: the promise settles before the process exits; a
\* late end overwrites the result.
WorkflowSettlesEarly(r) ==
    /\ workflow[r] = "working"
    /\ phase[r] = "executing"
    /\ Settle(r, "failed", before[r])
    /\ UNCHANGED <<kind, reason, workflow, tree, lastEdit, before, after>>

WorkflowEndsLate(r) ==
    /\ workflow[r] = "working"
    /\ phase[r] \in {"executing", "after"}
    /\ workflow' = [workflow EXCEPT ![r] = "ended"]
    /\ Settle(r, "failed", before[r])
    /\ UNCHANGED <<kind, reason, tree, lastEdit, before, after>>

\* The workflow's promise settles once its process has exited: it decides the
\* race if nothing did before, and is unobserved otherwise.
WorkflowEnds(r) ==
    /\ workflow[r] = "working"
    /\ workflow' = [workflow EXCEPT ![r] = "ended"]
    /\ \/ /\ phase[r] = "executing"
          /\ \E res \in {"success", "failed"} : Settle(r, res, before[r])
       \/ /\ phase[r] # "executing"
          /\ UNCHANGED <<phase, runningTaskCount, abortControllers, result>>
    /\ UNCHANGED <<kind, reason, tree, lastEdit, before, after>>

\* Mutant of Abort: the last reason stays.
AbortAgain(r, why) ==
    /\ reason' = [reason EXCEPT ![r] = why]
    /\ \/ /\ phase[r] = "executing"
          /\ Settle(r, why, before[r])
       \/ /\ phase[r] # "executing"
          /\ UNCHANGED <<phase, runningTaskCount, abortControllers, result>>
    /\ UNCHANGED <<kind, workflow, tree, lastEdit, before, after>>

\* abort(): the first reason stays. While the race is on it settles it; the
\* claude child is sent SIGTERM, which does not end it within this step.
Abort(r, why) ==
    /\ reason[r] = "none"
    /\ reason' = [reason EXCEPT ![r] = why]
    /\ \/ /\ phase[r] = "executing"
          /\ Settle(r, why, before[r])
       \/ /\ phase[r] # "executing"
          /\ UNCHANGED <<phase, runningTaskCount, abortControllers, result>>
    /\ UNCHANGED <<kind, workflow, tree, lastEdit, before, after>>

\* Mutant of Timeout: the timer, too, spares what cannot be cancelled.
TimeoutCancellable(r) ==
    /\ phase[r] \in Active
    /\ kind[r] \in Cancellable
    /\ Abort(r, "timedOut")

\* The timer, armed from Start to Leave.
Timeout(r) ==
    /\ phase[r] \in Active
    /\ Abort(r, "timedOut")

\* cancel() returns true, and the user is told "Cancelled".
Cancel(r) ==
    /\ r \in abortControllers
    /\ kind[r] \in Cancellable
    /\ Abort(r, "cancelled")

\* buildCheckpoint(): the snapshot is there, or failed and leaves the run
\* without a checkpoint.
AfterSnapshot(r) ==
    /\ phase[r] = "after"
    /\ \E snap \in {tree, NoTree} : after' = [after EXCEPT ![r] = snap]
    /\ \/ /\ result[r] = "success"
          /\ phase' = [phase EXCEPT ![r] = "artifacts"]
          /\ UNCHANGED <<runningTaskCount, abortControllers>>
       \/ /\ result[r] # "success"
          /\ Leave(r)
    /\ UNCHANGED <<kind, reason, workflow, result, tree, lastEdit, before>>

\* recordArtifactsSafely() is over, with or without artifacts.
RecordArtifacts(r) ==
    /\ phase[r] = "artifacts"
    /\ Leave(r)
    /\ UNCHANGED <<kind, reason, workflow, result, tree, lastEdit, before,
                   after>>

\* Nothing of a returned call is left once its process has ended: the
\* identity stands for a later call.
Forget(r) ==
    /\ phase[r] = "returned"
    /\ workflow[r] # "working"
    /\ phase' = [phase EXCEPT ![r] = "idle"]
    /\ \E k \in Kind : kind' = [kind EXCEPT ![r] = k]
    /\ reason' = [reason EXCEPT ![r] = "none"]
    /\ workflow' = [workflow EXCEPT ![r] = "none"]
    /\ result' = [result EXCEPT ![r] = "none"]
    /\ lastEdit' = [lastEdit EXCEPT ![r] = 0]
    /\ before' = [before EXCEPT ![r] = NoTree]
    /\ after' = [after EXCEPT ![r] = NoTree]
    /\ UNCHANGED <<runningTaskCount, abortControllers, tree>>

Next ==
    \E r \in Run :
        \/ RefuseOverLimit(r)
        \/ FactoryThrows(r)
        \/ Start(r)
        \/ BeforeSnapshot(r)
        \/ Edit(r)
        \/ WorkflowEnds(r)
        \/ Timeout(r)
        \/ Cancel(r)
        \/ AfterSnapshot(r)
        \/ RecordArtifacts(r)
        \/ Forget(r)

Spec == Init /\ [][Next]_vars

\* Timers fire, snapshots and artifact records complete or fail, and a claude
\* child that was sent SIGTERM exits. Nothing makes a workflow end otherwise.
Fairness ==
    \A r \in Run :
        /\ WF_vars(Timeout(r))
        /\ WF_vars(BeforeSnapshot(r))
        /\ WF_vars(AfterSnapshot(r))
        /\ WF_vars(RecordArtifacts(r))
        /\ WF_vars(reason[r] # "none" /\ kind[r] \in Cancellable
                     /\ WorkflowEnds(r))

FairSpec == Spec /\ Fairness

-----------------------------------------------------------------------------
\* The callers' view of a call: running until the race is settled.
CallerView ==
    [r \in Run |-> CASE phase[r] \in {"before", "executing"} -> "running"
                     [] phase[r] \in {"after", "artifacts"} -> "unwinding"
                     [] OTHER -> phase[r]]

Slots == INSTANCE JobSlots
            WITH job <- CallerView, verdict <- result, abort <- reason

\* run() keeps the promise of JobSlots, its progress included.
ImplementsJobSlots == Slots!FairSpec

\* runningTaskCount (a counter moved in two places) and the controller map (a
\* set moved in two others) never drift from the calls really in flight, on
\* any of the paths out of run(): no slot leaks and none is freed twice.
SlotsMatchRuns ==
    /\ runningTaskCount = Cardinality(InFlight)
    /\ abortControllers = InFlight

\* The limit holds however starts, refusals, aborts and returns interleave.
LimitRespected == Cardinality(InFlight) <= MaxJobs

\* A result that reports an abort reports the one that happened: a cancelled
\* run whose timer also fires is never reported as timed out, nor the reverse.
AbortReportedTruthfully ==
    \A r \in Run : result[r] \in Aborts => result[r] = reason[r]

\* A settled race is final: cancel(), the timer and the workflow's own late
\* end may all still happen while the call unwinds, and none changes it.
ResultIsFinal ==
    [][\A r \in Run : result[r] # "none" /\ phase[r] # "returned"
                         => result'[r] = result[r]]_vars

\* The run's own last edit lies between the two snapshots of its checkpoint.
CheckpointCovers(r) ==
    lastEdit[r] = 0 \/ (before[r] < lastEdit[r] /\ lastEdit[r] <= after[r])

\* The checkpoint of a run whose workflow ended by itself covers every edit
\* the run made: /undo of it restores the tree as it was.
EndedRunIsUndoable ==
    \A r \in Run :
        after[r] # NoTree /\ result[r] \in {"success", "failed"}
            => CheckpointCovers(r)

\* Known not to hold, see the README.
\* TaskPlanner.ts:94-97 says the same of a cancelled or timed-out run.
AbortedRunIsUndoable ==
    \A r \in Run :
        after[r] # NoTree /\ result[r] \in Aborts => CheckpointCovers(r)

\* Every admitted call returns, even one whose workflow hangs, and also when
\* the abort comes before the race it has to settle exists.
AdmittedRunReturns ==
    \A r \in Run : phase[r] \in Active ~> phase[r] = "returned"

=============================================================================
