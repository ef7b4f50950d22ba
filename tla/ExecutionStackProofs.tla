------------------------ MODULE ExecutionStackProofs ------------------------
(***************************************************************************)
(* Safety of what executes tasks, and of what takes them back.             *)
(*                                                                         *)
(* ExecutionStack, for every set of requests, every workflow and every     *)
(* number of slots. The invariant speaks of one execution at a time: Ok    *)
(* ties the place of an execution to its depth in the tracker, to its      *)
(* pending request and to its job, also in the middle of a continuation,   *)
(* where the properties, which events observe, say nothing. What the       *)
(* tracker's map holds, and what /task cancel reads from it, follows from  *)
(* the depths: the keys are the executions that have one.                  *)
(*                                                                         *)
(* TaskUndo, in the second half, for any tasks, commits, files and undo    *)
(* requests. Its invariants are layered by the disturbances they tolerate: *)
(* who wrote what (OwnWrites), the order of the log (LogOrder), and the    *)
(* chain of snapshots that undos unwind (Chain).                           *)
(***************************************************************************)
EXTENDS ExecutionStack, TaskUndo, SequenceTheorems, WellFoundedInduction, TLAPS

Typed ==
    /\ at \in [Execution -> Place]
    /\ step \in [Execution -> Nat]
    /\ depth \in [Execution -> Nat]
    /\ outcomes \in [Execution -> Seq(Outcome)]
    /\ events \in [Execution -> Nat]
    /\ granted \in [Execution -> SUBSET Nat]
    /\ job \in [Execution -> {"idle", "running", "unwinding", "returned"}]
    /\ verdict \in [Execution -> (Outcome \ {"rejected"}) \union {"none"}]
    /\ abort \in [Execution -> {"none", "timedOut", "cancelled"}]
    /\ within \in [Execution -> {"none", "mayAsk", "asking"}]
    /\ gate \in [Execution -> {"idle", "asked", "approved", "denied"}]

InStep == {"awaiting", "planning", "working", "leaving"}

\* Where an execution is says what is tracked, asked and running for it.
Placed(e) ==
    /\ at[e] \in {"idle", "done"} => depth[e] = 0
    /\ at[e] = "idle" => step[e] = 0 /\ outcomes[e] = <<>>
    /\ at[e] = "entering" => /\ depth[e] = InWorkflow(e)
                             /\ step[e] = Len(outcomes[e])
                             /\ step[e] < Len(Steps[e])
    /\ at[e] \in InStep => /\ depth[e] = 1 + InWorkflow(e)
                           /\ step[e] = Len(outcomes[e]) + 1
                           /\ step[e] \leq Len(Steps[e])
    /\ at[e] = "closing" => e \in Workflow /\ depth[e] = 1
    /\ at[e] \in {"closing", "done"} => /\ step[e] = Len(outcomes[e])
                                       /\ step[e] \leq Len(Steps[e])
    /\ gate[e] = "asked" <=> at[e] = "awaiting" \/ within[e] = "asking"
    /\ job[e] \in {"running", "unwinding"} <=> at[e] = "working"
    /\ job[e] = "returned" => at[e] = "leaving"
    /\ job[e] \in {"unwinding", "returned"} => verdict[e] # "none"
    /\ job[e] = "idle" => verdict[e] = "none" /\ abort[e] = "none"

\* Only a task that cannot be cancelled asks within its run(), and outside of
\* it only after its timer.
Asks(e) ==
    within[e] # "none" =>
      /\ e \notin Workflow
      /\ at[e] \in {"working", "leaving", "done"}
      /\ CurrentType(e) \in Asking
      /\ verdict[e] \in {"none", "timedOut"} /\ abort[e] # "cancelled"
      /\ at[e] = "leaving" => job[e] = "returned"
      /\ at[e] = "done" => outcomes[e][Len(outcomes[e])] = "timedOut"

Allowed(e, i) == Steps[e][i] \in Gated => i \in granted[e]

Approved(e) ==
    /\ granted[e] \subseteq 1..step[e]
    /\ \A i \in 1..Len(outcomes[e]) :
          Steps[e][i] \in Gated => (i \in granted[e] <=> outcomes[e][i] # "rejected")
    /\ at[e] \in {"planning", "working"} => Allowed(e, step[e])
    /\ at[e] = "leaving" /\ job[e] = "returned" => Allowed(e, step[e])
    /\ at[e] = "leaving" /\ job[e] # "returned" => step[e] \notin granted[e]
    /\ at[e] = "awaiting" => step[e] \notin granted[e]

Stopped(e) ==
    /\ \A i \in 1..Len(outcomes[e]) - 1 : outcomes[e][i] = "success"
    /\ at[e] \in InStep \union {"entering"} =>
          \A i \in 1..Len(outcomes[e]) : outcomes[e][i] = "success"

Recorded(e) ==
    events[e] = Len(outcomes[e]) + (IF at[e] = "done" THEN InWorkflow(e) ELSE 0)

Ok(e) == Placed(e) /\ Asks(e) /\ Approved(e) /\ Stopped(e) /\ Recorded(e)

IInv == Typed /\ \A e \in Execution : Ok(e)

USE StackAssumption DEF Place, Suspended, Running, Outcome, InStep, InWorkflow

\* Execution f keeps everything the invariant says of it.
Untouched(f) ==
    /\ at'[f] = at[f] /\ step'[f] = step[f] /\ depth'[f] = depth[f]
    /\ outcomes'[f] = outcomes[f] /\ events'[f] = events[f]
    /\ granted'[f] = granted[f] /\ job'[f] = job[f]
    /\ verdict'[f] = verdict[f] /\ abort'[f] = abort[f]
    /\ within'[f] = within[f] /\ gate'[f] = gate[f]

LEMMA Frame ==
    ASSUME NEW f \in Execution, Ok(f), Untouched(f)
    PROVE  Ok(f)'
  BY DEF Untouched, Ok, Placed, Asks, CurrentType, Approved, Allowed, Stopped, Recorded

\* The state of the planner and of the provider stays typed, and at other
\* executions the same, whatever the stack asks of them.
PlannerStep(e) ==
    \/ Jobs!Admit(e) \/ Jobs!Refuse(e) \/ Jobs!Progress(e)
    \/ Jobs!Abort(e, "cancelled") \/ Jobs!Forget(e)

PlannerTyped ==
    /\ job \in [Execution -> {"idle", "running", "unwinding", "returned"}]
    /\ verdict \in [Execution -> (Outcome \ {"rejected"}) \union {"none"}]
    /\ abort \in [Execution -> {"none", "timedOut", "cancelled"}]

LEMMA PlannerFrame ==
    ASSUME PlannerTyped, NEW e \in Execution, PlannerStep(e)
    PROVE  /\ PlannerTyped'
           /\ \A f \in Execution \ {e} :
                 job'[f] = job[f] /\ verdict'[f] = verdict[f] /\ abort'[f] = abort[f]
  BY DEF PlannerTyped, PlannerStep, Jobs!Admit, Jobs!Refuse, Jobs!Progress,
         Jobs!Decide, Jobs!Abort, Jobs!Return, Jobs!Conclude, Jobs!Forget, Jobs!Holding

\* What a job of a call in flight becomes: it is still held, or it returned
\* with a verdict.
LEMMA JobMoves ==
    ASSUME PlannerTyped, NEW e \in Execution,
           job[e] = "unwinding" => verdict[e] # "none",
           Jobs!Progress(e) \/ Jobs!Abort(e, "cancelled")
    PROVE  /\ job[e] \in {"running", "unwinding"}
           /\ job'[e] \in {"running", "unwinding", "returned"}
           /\ job'[e] \in {"unwinding", "returned"} => verdict'[e] # "none"
           /\ verdict'[e] \in {verdict[e], "success", "failed", abort'[e]}
  BY DEF PlannerTyped, Jobs!Progress,
         Jobs!Decide, Jobs!Abort, Jobs!Return, Jobs!Conclude, Jobs!Holding

-----------------------------------------------------------------------------
LEMMA InitHolds == Init => IInv
  BY DEF Init, IInv, Typed, Ok, Placed, Asks, Approved, Allowed, Stopped, Recorded,
         Jobs!Init, Gate!Init

LEMMA SubmitKeeps ==
    ASSUME IInv, NEW e \in Execution, Submit(e)
    PROVE  IInv'
  <1>1. Typed'
    <2>1. depth' \in [Execution -> Nat]
      <3>1. CASE e \in Workflow
        <4>1. depth' = [depth EXCEPT ![e] = @ + 1] BY <3>1 DEF Submit, Enter
        <4> QED BY <4>1 DEF IInv, Typed
      <3>2. CASE e \notin Workflow BY <3>2 DEF IInv, Typed, Submit, tracker
      <3> QED BY <3>1, <3>2
    <2> QED BY <2>1 DEF IInv, Typed, Submit, GoTo, planner
  <1>2. Ok(e)'
    <2>1. Asks(e)'
      BY DEF IInv, Ok, Asks, Submit
    <2>2. Placed(e)'
      BY DEF IInv, Typed, Ok, Placed, Asks, Submit, Enter, GoTo, tracker, planner
    <2>3. Approved(e)' /\ Stopped(e)' /\ Recorded(e)'
      BY DEF IInv, Typed, Ok, Placed, Approved, Allowed, Stopped, Recorded, Submit, GoTo
    <2> QED BY <2>1, <2>2, <2>3 DEF Ok
  <1>3. ASSUME NEW f \in Execution, f # e PROVE Ok(f)'
    BY <1>3, Frame DEF IInv, Typed, Untouched, Submit, Enter, GoTo, tracker, planner
  <1> QED BY <1>1, <1>2, <1>3 DEF IInv

LEMMA UnknownWorkflowKeeps ==
    ASSUME IInv, NEW e \in Execution, UnknownWorkflow(e)
    PROVE  IInv'
  <1>1. Typed' BY DEF IInv, Typed, UnknownWorkflow, GoTo, tracker, planner
  <1>2. Ok(e)'
    BY DEF IInv, Typed, Ok, Placed, Asks, CurrentType, Approved, Allowed, Stopped, Recorded,
           UnknownWorkflow, GoTo, tracker, planner
  <1>3. ASSUME NEW f \in Execution, f # e PROVE Ok(f)'
    BY <1>3, Frame DEF IInv, Typed, Untouched, UnknownWorkflow, GoTo, tracker, planner
  <1> QED BY <1>1, <1>2, <1>3 DEF IInv

LEMMA EnterStepKeeps ==
    ASSUME IInv, NEW e \in Execution, EnterStep(e)
    PROVE  IInv'
  <1>1. Typed'
    <2>1. /\ step' \in [Execution -> Nat]
          /\ depth' \in [Execution -> Nat]
      BY DEF IInv, Typed, EnterStep, Enter
    <2>2. at' \in [Execution -> Place]
      <3>1. \E p \in Place : at' = [at EXCEPT ![e] = p]
        BY DEF EnterStep, GoTo
      <3> QED BY <3>1 DEF IInv, Typed
    <2>3. gate' \in [Execution -> {"idle", "asked", "approved", "denied"}]
      BY DEF IInv, Typed, EnterStep, Gate!Ask
    <2> QED BY <2>1, <2>2, <2>3 DEF IInv, Typed, EnterStep, planner
  <1>2. Placed(e)' /\ Asks(e)'
    <2>1. within[e] = "none" /\ within' = within
      BY DEF IInv, Ok, Asks, EnterStep
    <2> QED
      BY <2>1 DEF IInv, Typed, Ok, Placed, Asks, EnterStep, Enter, GoTo, planner, Gate!Ask
  <1>3. Approved(e)'
    BY DEF IInv, Typed, Ok, Placed, Approved, Allowed, NeedsApproval,
           EnterStep, Enter, GoTo, planner, Gate!Ask
  <1>4. Stopped(e)' /\ Recorded(e)'
    BY DEF IInv, Typed, Ok, Placed, Stopped, Recorded, EnterStep, GoTo, Gate!Ask
  <1>5. ASSUME NEW f \in Execution, f # e PROVE Ok(f)'
    BY <1>5, Frame DEF IInv, Typed, Untouched, EnterStep, Enter, GoTo, planner, Gate!Ask
  <1> QED BY <1>1, <1>2, <1>3, <1>4, <1>5 DEF IInv, Ok

LEMMA PassGateKeeps ==
    ASSUME IInv, NEW e \in Execution, NEW d \in {"approved", "denied"},
           Gate!Decide(e, d), PassGate(e, d),
           UNCHANGED <<step, depth, outcomes, events, planner>>
    PROVE  IInv'
  <1>1. at[e] = "awaiting" /\ within' = within
    BY DEF PassGate
  <1>2. Typed' BY DEF IInv, Typed, PassGate, GoTo, Gate!Decide, planner
  <1>3. Placed(e)' /\ Asks(e)'
    <2>1. within[e] = "none"
      BY <1>1 DEF IInv, Ok, Asks
    <2> QED BY <1>1, <2>1 DEF IInv, Typed, Ok, Placed, Asks, PassGate, GoTo, Gate!Decide, planner
  <1>4. Approved(e)'
    BY DEF IInv, Typed, Ok, Placed, Approved, Allowed, PassGate, GoTo, Gate!Decide, planner
  <1>5. Stopped(e)' /\ Recorded(e)'
    BY DEF IInv, Typed, Ok, Placed, Stopped, Recorded, PassGate, GoTo
  <1>6. ASSUME NEW f \in Execution, f # e PROVE Ok(f)'
    BY <1>6, Frame DEF IInv, Typed, Untouched, PassGate, GoTo, Gate!Decide, planner
  <1> QED BY <1>2, <1>3, <1>4, <1>5, <1>6 DEF IInv, Ok

\* What a workflow is answered, or asks, moves neither the execution nor its job.
LEMMA AskingKeeps ==
    ASSUME IInv, NEW e \in Execution,
           NEW w \in {"none", "asking"}, NEW g \in {"asked", "approved", "denied"},
           within[e] # "none", w = "asking" <=> g = "asked",
           within' = [within EXCEPT ![e] = w], gate' = [gate EXCEPT ![e] = g],
           UNCHANGED <<at, step, depth, outcomes, events, granted, planner>>
    PROVE  IInv'
  <1>1. Typed' BY DEF IInv, Typed, planner
  <1>2. Placed(e)' /\ Asks(e)'
    <2>1. at[e] # "awaiting" /\ within'[e] = w /\ gate'[e] = g
      <3>1. at[e] # "awaiting"
        BY DEF IInv, Ok, Asks
      <3>2. within'[e] = w /\ gate'[e] = g
        BY DEF IInv, Typed
      <3> QED BY <3>1, <3>2
    <2>2. Placed(e)'
      BY <2>1 DEF IInv, Ok, Placed, planner
    <2>3. Asks(e)'
      <3>1. Asks(e) /\ CurrentType(e)' = CurrentType(e)
        BY DEF IInv, Ok, CurrentType
      <3> QED BY <3>1 DEF Asks, planner
    <2> QED BY <2>2, <2>3
  <1>3. Approved(e)' /\ Stopped(e)' /\ Recorded(e)'
    <2>1. Approved(e) /\ Stopped(e) /\ Recorded(e)
      BY DEF IInv, Ok
    <2> QED BY <2>1 DEF Approved, Allowed, Stopped, Recorded, planner
  <1>4. ASSUME NEW f \in Execution, f # e PROVE Ok(f)'
    BY <1>4, Frame DEF IInv, Typed, Untouched, planner
  <1> QED BY <1>1, <1>2, <1>3, <1>4 DEF IInv, Ok

LEMMA AnswerWorkflowKeeps ==
    ASSUME IInv, NEW e \in Execution, NEW d \in {"approved", "denied"},
           Gate!Decide(e, d), AnswerWorkflow(e),
           UNCHANGED <<step, depth, outcomes, events, planner>>
    PROVE  IInv'
  BY AskingKeeps DEF AnswerWorkflow, Gate!Decide

LEMMA GateDecidesKeeps ==
    ASSUME IInv, NEW e \in Execution, GateDecides(e)
    PROVE  IInv'
  <1>1. PICK d \in {"approved", "denied"} : Gate!Decide(e, d) /\ (PassGate(e, d) \/ AnswerWorkflow(e))
    BY DEF GateDecides
  <1>2. UNCHANGED <<step, depth, outcomes, events, planner>>
    BY DEF GateDecides, tracker
  <1> QED BY <1>1, <1>2, PassGateKeeps, AnswerWorkflowKeeps

LEMMA AskWithinKeeps ==
    ASSUME IInv, NEW e \in Execution, AskWithin(e)
    PROVE  IInv'
  <1>1. PICK g \in {"asked", "denied"} : gate' = [gate EXCEPT ![e] = g]
    BY DEF AskWithin, Gate!Ask
  <1>2. gate'[e] = g
    BY <1>1 DEF IInv, Typed
  <1>3. /\ within[e] # "none"
        /\ within' = [within EXCEPT ![e] = IF g = "asked" THEN "asking" ELSE "none"]
        /\ UNCHANGED <<at, step, depth, outcomes, events, granted, planner>>
    BY <1>2 DEF AskWithin, tracker
  <1>4. CASE g = "asked"
    BY <1>1, <1>3, <1>4, AskingKeeps
  <1>5. CASE g = "denied"
    BY <1>1, <1>3, <1>5, AskingKeeps
  <1> QED BY <1>4, <1>5

LEMMA PlanKeeps ==
    ASSUME IInv, NEW e \in Execution, Plan(e)
    PROVE  IInv'
  <1>1. PlannerTyped'
    BY PlannerFrame DEF IInv, Typed, PlannerTyped, PlannerStep, Plan
  <1>2. Typed'
    <2>1. at' \in [Execution -> Place]
      <3>1. \E p \in Place : at' = [at EXCEPT ![e] = p]
        BY DEF Plan, GoTo
      <3> QED BY <3>1 DEF IInv, Typed
    <2>2. within' \in [Execution -> {"none", "mayAsk", "asking"}]
      BY DEF IInv, Typed, Plan
    <2> QED BY <1>1, <2>1, <2>2 DEF IInv, Typed, PlannerTyped, Plan, tracker
  <1>3. Placed(e)' /\ Asks(e)'
    <2>1. /\ within[e] = "none" /\ step' = step /\ outcomes' = outcomes
          /\ at[e] = "planning" /\ job[e] = "idle" /\ gate[e] # "asked" /\ gate' = gate
      BY DEF IInv, Typed, Ok, Placed, Asks, Plan, Jobs!Admit, Jobs!Refuse
    <2>2. CASE Jobs!Admit(e)
      <3>1. /\ at'[e] = "working" /\ job'[e] = "running" /\ verdict' = verdict /\ abort' = abort
            /\ within'[e] = IF CurrentType(e) \in Asking THEN "mayAsk" ELSE "none"
        BY <2>1, <2>2 DEF IInv, Typed, Plan, GoTo, Jobs!Admit, Jobs!Refuse
      <3>2. e \in Workflow => CurrentType(e) \notin Asking
        BY <2>1 DEF IInv, Typed, Ok, Placed, CurrentType
      <3> QED BY <2>1, <3>1, <3>2 DEF IInv, Typed, Ok, Placed, Asks, CurrentType, Plan, tracker
    <2>3. CASE Jobs!Refuse(e)
      <3>1. at'[e] = "leaving" /\ within'[e] = "none" /\ job'[e] = "returned" /\ verdict'[e] # "none"
        BY <2>1, <2>3 DEF IInv, Typed, Plan, GoTo, Jobs!Refuse, Jobs!Admit
      <3> QED BY <2>1, <3>1 DEF IInv, Typed, Ok, Placed, Asks, Plan, tracker
    <2> QED BY <2>2, <2>3 DEF Plan
  <1>4. Approved(e)'
    BY DEF IInv, Typed, Ok, Placed, Approved, Allowed, Plan, GoTo, tracker,
           Jobs!Admit, Jobs!Refuse
  <1>5. Stopped(e)' /\ Recorded(e)'
    BY DEF IInv, Typed, Ok, Stopped, Recorded, Plan, GoTo
  <1>6. ASSUME NEW f \in Execution, f # e PROVE Ok(f)'
    <2>1. job'[f] = job[f] /\ verdict'[f] = verdict[f] /\ abort'[f] = abort[f]
      BY <1>6, PlannerFrame DEF IInv, Typed, PlannerTyped, PlannerStep, Plan
    <2> QED BY <2>1, <1>6, Frame DEF IInv, Typed, Untouched, Plan, GoTo, tracker
  <1> QED BY <1>2, <1>3, <1>4, <1>5, <1>6 DEF IInv, Ok

\* A step of the planner that the execution follows: JobProgress and CancelJob.
LEMMA FollowJobKeeps ==
    ASSUME IInv, NEW e \in Execution, at[e] = "working",
           Jobs!Progress(e) \/ Jobs!Abort(e, "cancelled"),
           FollowJob(e),
           within' \in [Execution -> {"none", "mayAsk", "asking"}],
           \A f \in Execution \ {e} : within'[f] = within[f],
           within[e] = "asking" <=> within'[e] = "asking",
           within'[e] # "none" => /\ within[e] # "none" /\ abort'[e] # "cancelled"
                                  /\ verdict'[e] \notin {"success", "failed"},
           UNCHANGED <<step, depth, outcomes, events, granted, gate>>
    PROVE  IInv'
  <1>1. PlannerTyped' /\ \A f \in Execution \ {e} :
                 job'[f] = job[f] /\ verdict'[f] = verdict[f] /\ abort'[f] = abort[f]
    BY PlannerFrame DEF IInv, Typed, PlannerTyped, PlannerStep
  <1>2. /\ job'[e] \in {"running", "unwinding", "returned"}
        /\ job'[e] \in {"unwinding", "returned"} => verdict'[e] # "none"
        /\ verdict'[e] \in {verdict[e], "success", "failed", abort'[e]}
    BY JobMoves DEF IInv, Typed, PlannerTyped, Ok, Placed
  <1>3. Typed' BY <1>1 DEF IInv, Typed, PlannerTyped, FollowJob, GoTo
  <1>4. Placed(e)' BY <1>2 DEF IInv, Typed, Ok, Placed, FollowJob, GoTo
  <1>8. Asks(e)'
    <2>1. abort'[e] \in {"none", "timedOut", "cancelled"}
      BY <1>1 DEF PlannerTyped
    <2>2. at'[e] \in {"working", "leaving"} /\ (at'[e] = "leaving" => job'[e] = "returned")
      BY DEF IInv, Typed, FollowJob, GoTo
    <2> QED BY <1>2, <2>1, <2>2 DEF IInv, Ok, Asks, CurrentType
  <1>5. Approved(e)'
    BY <1>2 DEF IInv, Typed, Ok, Approved, Allowed, FollowJob, GoTo
  <1>6. Stopped(e)' /\ Recorded(e)'
    BY DEF IInv, Typed, Ok, Stopped, Recorded, FollowJob, GoTo
  <1>7. ASSUME NEW f \in Execution, f # e PROVE Ok(f)'
    BY <1>1, <1>7, Frame DEF IInv, Typed, Untouched, FollowJob, GoTo
  <1> QED BY <1>3, <1>4, <1>5, <1>6, <1>7, <1>8 DEF IInv, Ok

LEMMA JobProgressKeeps ==
    ASSUME IInv, NEW e \in Execution, JobProgress(e)
    PROVE  IInv'
  <1>1. /\ at[e] = "working" /\ Jobs!Progress(e) /\ FollowJob(e)
        /\ UNCHANGED <<step, depth, outcomes, events, granted, gate>>
    BY DEF JobProgress, tracker
  <1>2. CASE verdict'[e] \in {"success", "failed"}
    <2>1. within[e] # "asking" /\ within' = [within EXCEPT ![e] = "none"]
      BY <1>2 DEF JobProgress
    <2>2. within \in [Execution -> {"none", "mayAsk", "asking"}]
      BY DEF IInv, Typed
    <2> QED BY <1>1, <2>1, <2>2, FollowJobKeeps
  <1>3. CASE verdict'[e] \notin {"success", "failed"}
    <2>1. within' = within /\ (abort'[e] = "cancelled" => abort[e] = "cancelled")
      BY <1>3 DEF JobProgress
    <2>2. within[e] # "none" => abort[e] # "cancelled"
      BY DEF IInv, Ok, Asks
    <2> QED BY <1>1, <1>3, <2>1, <2>2, FollowJobKeeps DEF IInv, Typed
  <1> QED BY <1>2, <1>3

LEMMA LeaveStepKeeps ==
    ASSUME IInv, NEW e \in Execution, LeaveStep(e)
    PROVE  IInv'
  <1> DEFINE out == StepOutcome(e)
  <1>1. /\ out \in Outcome
        /\ outcomes' = [outcomes EXCEPT ![e] = Append(@, out)]
        /\ Len(outcomes'[e]) = Len(outcomes[e]) + 1
        /\ outcomes'[e][Len(outcomes[e]) + 1] = out
        /\ \A i \in 1..Len(outcomes[e]) : outcomes'[e][i] = outcomes[e][i]
    BY DEF IInv, Typed, Ok, Placed, LeaveStep, StepOutcome
  <1>2. PlannerTyped' /\ \A f \in Execution \ {e} :
                 job'[f] = job[f] /\ verdict'[f] = verdict[f] /\ abort'[f] = abort[f]
    BY PlannerFrame DEF IInv, Typed, PlannerTyped, PlannerStep, LeaveStep, planner
  <1>3. job'[e] = "idle"
    BY DEF IInv, Typed, Ok, Placed, LeaveStep, planner, Jobs!Forget
  <1>4. Typed'
    <2>1. depth' \in [Execution -> Nat]
      BY DEF IInv, Typed, Ok, Placed, LeaveStep, Exit
    <2>2. outcomes' \in [Execution -> Seq(Outcome)]
      BY <1>1 DEF IInv, Typed
    <2>3. at' \in [Execution -> Place]
      BY DEF IInv, Typed, LeaveStep, GoTo
    <2>4. events' \in [Execution -> Nat]
      BY DEF IInv, Typed, LeaveStep, RecordStep
    <2> QED BY <1>2, <2>1, <2>2, <2>3, <2>4 DEF IInv, Typed, PlannerTyped, LeaveStep
  <1>5. Placed(e)'
    <2>1. verdict'[e] = "none" /\ abort'[e] = "none"
      BY DEF IInv, Typed, Ok, Placed, LeaveStep, planner, Jobs!Forget
    <2> QED
      BY <1>1, <1>3, <2>1 DEF IInv, Typed, Ok, Placed, LeaveStep, Exit, GoTo, GoesOn
  <1>10. Asks(e)'
    <2> SUFFICES ASSUME within[e] # "none" PROVE Asks(e)'
      BY DEF Asks, LeaveStep
    <2>1. e \notin Workflow /\ job[e] = "returned" /\ verdict[e] = "timedOut"
      BY DEF IInv, Ok, Placed, Asks, LeaveStep
    <2>2. out = "timedOut" /\ at'[e] = "done"
      BY <2>1 DEF IInv, Typed, LeaveStep, StepOutcome, GoesOn, GoTo
    <2>3. verdict'[e] = "none" /\ abort'[e] = "none" /\ CurrentType(e)' = CurrentType(e)
      BY <2>1 DEF IInv, Typed, LeaveStep, Jobs!Forget, CurrentType
    <2>4. Len(outcomes'[e]) = Len(outcomes[e]) + 1 /\ outcomes'[e][Len(outcomes'[e])] = "timedOut"
      BY <1>1, <2>2
    <2> QED BY <2>1, <2>2, <2>3, <2>4 DEF IInv, Ok, Asks
  <1>6. Approved(e)'
    <2>1. /\ granted' = granted /\ step' = step /\ step[e] = Len(outcomes[e]) + 1
          /\ at'[e] \in {"entering", "closing", "done"}
      BY DEF IInv, Typed, Ok, Placed, LeaveStep, GoTo
    <2>2. Steps[e][step[e]] \in Gated => (step[e] \in granted[e] <=> out # "rejected")
      BY DEF IInv, Typed, Ok, Placed, Approved, Allowed, LeaveStep, StepOutcome
    <2> QED BY <1>1, <2>1, <2>2 DEF IInv, Typed, Ok, Approved, Allowed
  <1>7. Stopped(e)'
    <2>1. at'[e] \in InStep \union {"entering"} => out = "success"
      BY DEF IInv, Typed, LeaveStep, GoTo, GoesOn
    <2>2. \A i \in 1..Len(outcomes[e]) : outcomes[e][i] = "success"
      BY DEF IInv, Ok, Stopped, LeaveStep
    <2> QED BY <1>1, <2>1, <2>2 DEF IInv, Typed, Stopped
  <1>8. Recorded(e)'
    BY <1>1 DEF IInv, Typed, Ok, Recorded, LeaveStep, RecordStep, GoTo
  <1>9. ASSUME NEW f \in Execution, f # e PROVE Ok(f)'
    BY <1>2, <1>9, Frame DEF IInv, Typed, Untouched, LeaveStep, RecordStep, Exit, GoTo
  <1> QED BY <1>4, <1>5, <1>6, <1>7, <1>8, <1>9, <1>10 DEF IInv, Ok

LEMMA CloseWorkflowKeeps ==
    ASSUME IInv, NEW e \in Execution, CloseWorkflow(e)
    PROVE  IInv'
  <1>1. Typed'
    BY DEF IInv, Typed, Ok, Placed, CloseWorkflow, Exit, GoTo, planner
  <1>2. Ok(e)'
    BY DEF IInv, Typed, Ok, Placed, Asks, CurrentType, Approved, Allowed, Stopped, Recorded,
           CloseWorkflow, Exit, GoTo, planner
  <1>3. ASSUME NEW f \in Execution, f # e PROVE Ok(f)'
    BY <1>3, Frame DEF IInv, Typed, Untouched, CloseWorkflow, Exit, GoTo, planner
  <1> QED BY <1>1, <1>2, <1>3 DEF IInv

\* Only a held job is aborted, and a held job is one the execution works on.
LEMMA CancelKeeps ==
    ASSUME IInv, NEW repo \in Repository, Cancel(repo)
    PROVE  IInv'
  <1>1. UNCHANGED <<step, depth, outcomes, events, granted>>
    BY DEF Cancel, tracker
  <1>2. CASE UNCHANGED <<at, within, planner, gate>>
    <2>1. Typed' BY <1>1, <1>2 DEF IInv, Typed, planner
    <2>2. ASSUME NEW f \in Execution PROVE Ok(f)'
      BY <1>1, <1>2, <2>2, Frame DEF IInv, Untouched, planner
    <2> QED BY <2>1, <2>2 DEF IInv
  <1>3. ASSUME NEW e \in Execution, CancelApproval(e) PROVE IInv'
    BY <1>1, <1>3, PassGateKeeps, AnswerWorkflowKeeps DEF CancelApproval
  <1>4. ASSUME NEW e \in Execution, CancelJob(e) PROVE IInv'
    <2>1. at[e] = "working"
      BY <1>4 DEF IInv, Typed, Ok, Placed, CancelJob, CanAbort, Jobs!Holding
    <2>2. within[e] = "none"
      BY <1>4 DEF IInv, Ok, Asks, CancelJob
    <2> QED BY <1>1, <1>4, <2>1, <2>2, FollowJobKeeps DEF CancelJob, IInv, Typed
  <1> QED BY <1>2, <1>3, <1>4 DEF Cancel, CancelNothing, CancelRefused

-----------------------------------------------------------------------------
LEMMA NextKeeps == IInv /\ [Next]_vars => IInv'
  <1> SUFFICES ASSUME IInv, [Next]_vars PROVE IInv'
    OBVIOUS
  <1>1. CASE UNCHANGED vars
    <2>1. Typed' BY <1>1 DEF IInv, Typed, vars, planner, tracker
    <2>2. ASSUME NEW f \in Execution PROVE Ok(f)'
      BY <1>1, <2>2, Frame DEF IInv, Untouched, vars, planner, tracker
    <2> QED BY <2>1, <2>2 DEF IInv
  <1>2. ASSUME NEW repo \in Repository, Cancel(repo) PROVE IInv'
    BY <1>2, CancelKeeps
  <1>3. ASSUME NEW e \in Execution, Continue(e) PROVE IInv'
    BY <1>3, UnknownWorkflowKeeps, EnterStepKeeps, PlanKeeps, LeaveStepKeeps,
       CloseWorkflowKeeps DEF Continue
  <1>4. ASSUME NEW e \in Execution,
               Submit(e) \/ GateDecides(e) \/ AskWithin(e) \/ JobProgress(e)
        PROVE  IInv'
    BY <1>4, SubmitKeeps, GateDecidesKeeps, AskWithinKeeps, JobProgressKeeps
  <1> QED BY <1>1, <1>2, <1>3, <1>4 DEF Next

THEOREM Invariance == Spec => []IInv
  BY InitHolds, NextKeeps, PTL DEF Spec

\* What /task and /task cancel read between two events is true: a record is
\* kept exactly while the execution awaits the approval above the planner or
\* works in its slot, and a pending approval is that of a step that awaits it,
\* of a job in its slot, or of one that timed out.
THEOREM TrackingIsTruthful == Spec => []TrackedAwaitsOrWorks
  <1>1. IInv => TrackedAwaitsOrWorks
    <2> SUFFICES ASSUME IInv, Quiet, NEW e \in Execution
        PROVE  /\ (depth[e] > 0) <=> (at[e] \in {"awaiting", "working"})
               /\ depth[e] > 0 => depth[e] = 1 + InWorkflow(e)
               /\ (e \in Jobs!Holding) <=> (at[e] = "working")
               /\ (gate[e] = "asked") <=> (at[e] = "awaiting" \/ within[e] = "asking")
               /\ within[e] = "asking" =>
                     \/ at[e] = "working"
                     \/ at[e] = "done" /\ outcomes[e][Len(outcomes[e])] = "timedOut"
      BY DEF TrackedAwaitsOrWorks
    <2>1. Placed(e) /\ Asks(e) /\ at[e] \in Suspended
      BY DEF IInv, Ok, Quiet
    <2>2. within[e] = "asking" =>
            \/ at[e] = "working"
            \/ at[e] = "done" /\ outcomes[e][Len(outcomes[e])] = "timedOut"
      BY <2>1 DEF Asks
    <2>3. (gate[e] = "asked") <=> (at[e] = "awaiting" \/ within[e] = "asking")
      BY <2>1 DEF Placed
    <2>4. (e \in Jobs!Holding) <=> (at[e] = "working")
      BY <2>1 DEF Placed, Jobs!Holding
    <2>5. /\ (depth[e] > 0) <=> (at[e] \in {"awaiting", "working"})
          /\ depth[e] > 0 => depth[e] = 1 + InWorkflow(e)
      BY <2>1 DEF IInv, Typed, Placed
    <2> QED BY <2>2, <2>3, <2>4, <2>5
  <1> QED BY <1>1, Invariance, PTL

\* No step of a gated type reaches the planner without the provider having
\* granted the request of that step.
THEOREM GatingIsComplete == Spec => []NoUnapprovedWork
  <1>1. IInv => NoUnapprovedWork
    BY DEF IInv, Typed, Ok, Placed, Approved, Allowed, NoUnapprovedWork, CurrentType
  <1> QED BY <1>1, Invariance, PTL

\* A workflow of any length stops at its first step without success.
THEOREM WorkflowsStop == Spec => []StopsAtFirstFailure
  <1>1. IInv => StopsAtFirstFailure
    BY DEF IInv, Typed, Ok, Placed, Stopped, StopsAtFirstFailure
  <1> QED BY <1>1, Invariance, PTL

\* Project Memory receives one event for each crossing of the stack.
THEOREM CrossingsAreRecorded == Spec => []RecordedOncePerCrossing
  <1>1. IInv => RecordedOncePerCrossing
    BY DEF IInv, Ok, Recorded, RecordedOncePerCrossing
  <1> QED BY <1>1, Invariance, PTL
-----------------------------------------------------------------------------
(* The tracker's map.                                                      *)

\* A set of naturals that is not empty has a least element: what the recursive
\* functions of the model compute is proved by the least counterexample.
LEMMA LeastNatural ==
    ASSUME NEW T, T \subseteq Nat, T # {}
    PROVE  \E n \in T : \A m \in T : n <= m
  <1> DEFINE R == {p \in Nat \X Nat : p[1] < p[2]}
  <1>1. IsWellFoundedOn(R, Nat)
    BY NatLessThanWellFounded DEF OpToRel
  <1> HIDE DEF R
  <1>2. PICK n \in T : \A m \in T : ~ (<<m, n>> \in R)
    BY <1>1, WFMin
  <1>3. ASSUME NEW m \in T PROVE n <= m
    <2>1. m \in Nat /\ n \in Nat
      OBVIOUS
    <2>2. <<m, n>> \notin R
      BY <1>2
    <2> QED BY <2>1, <2>2 DEF R
  <1> QED BY <1>3

LEMMA MinIsLeast ==
    ASSUME NEW T, T \subseteq Nat, T # {}
    PROVE  Min(T) \in T /\ \A m \in T : Min(T) <= m
  BY LeastNatural DEF Min

\* A call that enters the map becomes its last key.
LEMMA KeyAdded ==
    ASSUME NEW s \in Seq(Execution), NEW e \in Execution
    PROVE  /\ Append(s, e) \in Seq(Execution)
           /\ ToSet(Append(s, e)) = ToSet(s) \union {e}
  <1> DEFINE r == Append(s, e)
  <1>1. /\ r \in Seq(Execution) /\ Len(r) = Len(s) + 1 /\ Len(s) \in Nat
        /\ r[Len(s) + 1] = e /\ \A i \in 1..Len(s) : r[i] = s[i]
    OBVIOUS
  <1>2. ToSet(r) = {r[i] : i \in 1..Len(r)} /\ ToSet(s) = {s[i] : i \in 1..Len(s)}
    BY DEF ToSet
  <1> HIDE DEF r
  <1>3. ToSet(r) = ToSet(s) \union {e}
    BY <1>1, <1>2
  <1> QED BY <1>1, <1>3 DEF r

\* A map has a key once.
NoTwice(s) == \A i, j \in 1..Len(s) : s[i] = s[j] => i = j

LEMMA KeyAddedOnce ==
    ASSUME NEW s \in Seq(Execution), NEW e \in Execution, NoTwice(s), e \notin ToSet(s)
    PROVE  NoTwice(Append(s, e))
  <1> DEFINE r == Append(s, e)
  <1>1. /\ r \in Seq(Execution) /\ Len(r) = Len(s) + 1 /\ Len(s) \in Nat
        /\ r[Len(s) + 1] = e /\ \A i \in 1..Len(s) : r[i] = s[i]
    OBVIOUS
  <1>2. \A i \in 1..Len(s) : s[i] # e
    BY DEF ToSet
  <1> HIDE DEF r
  <1>3. NoTwice(r)
    BY <1>1, <1>2 DEF NoTwice
  <1> QED BY <1>3 DEF r

\* delete() of a key takes it and nothing else.
LEMMA KeyDeleted ==
    ASSUME NEW s \in Seq(Execution), NEW e \in Execution, NoTwice(s), e \in ToSet(s)
    PROVE  /\ RemoveFirst(s, e) \in Seq(Execution)
           /\ NoTwice(RemoveFirst(s, e))
           /\ ToSet(RemoveFirst(s, e)) = ToSet(s) \ {e}
  <1> DEFINE I == {i \in 1..Len(s) : s[i] = e}
             k == Min(I)
             r == SubSeq(s, 1, k - 1) \o SubSeq(s, k + 1, Len(s))
  <1>1. I # {} /\ I \subseteq Nat
    BY DEF ToSet
  <1>2. RemoveFirst(s, e) = r
    BY <1>1 DEF RemoveFirst, RemoveAt, SelectInSeq
  <1>3. k \in I
    <2> HIDE DEF I
    <2> QED BY <1>1, MinIsLeast
  <1> HIDE DEF k
  <1>4. k \in 1..Len(s) /\ s[k] = e /\ Len(s) \in Nat
    BY <1>3
  <1> DEFINE a == SubSeq(s, 1, k - 1)
             b == SubSeq(s, k + 1, Len(s))
  <1>a. a \in Seq(Execution) /\ Len(a) = k - 1 /\ \A i \in 1..(k - 1) : a[i] = s[i]
    BY <1>4
  <1>b. /\ b \in Seq(Execution) /\ Len(b) = Len(s) - k
        /\ \A i \in 1..(Len(s) - k) : b[i] = s[k + i]
    BY <1>4
  <1>r. r = a \o b
    OBVIOUS
  <1> HIDE DEF a, b, r
  <1>5. r \in Seq(Execution) /\ Len(r) = Len(s) - 1
    <2>1. r \in Seq(Execution) /\ Len(r) = Len(a) + Len(b)
      BY <1>a, <1>b, <1>r, ConcatProperties
    <2>2. Len(a) = k - 1 /\ Len(b) = Len(s) - k /\ k \in Nat /\ Len(s) \in Nat
      BY <1>4, <1>a, <1>b
    <2>3. Len(a) + Len(b) = Len(s) - 1
      BY <2>2
    <2> QED BY <2>1, <2>3
  <1>6. ASSUME NEW i \in 1..Len(r)
        PROVE  r[i] = IF i < k THEN s[i] ELSE s[i + 1]
    <2>1. r[i] = IF i <= Len(a) THEN a[i] ELSE b[i - Len(a)]
      <3>1. i \in 1..(Len(a) + Len(b))
        BY <1>4, <1>5, <1>a, <1>b
      <3> QED BY <1>a, <1>b, <1>r, <3>1, ConcatProperties
    <2>2. CASE i < k
      <3>1. i \in 1..(k - 1) /\ i <= Len(a)
        BY <1>4, <1>5, <1>a, <2>2
      <3> QED BY <1>a, <2>1, <2>2, <3>1
    <2>3. CASE ~(i < k)
      <3>1. ~(i <= Len(a)) /\ i - Len(a) \in 1..(Len(s) - k) /\ k + (i - Len(a)) = i + 1
        BY <1>4, <1>5, <1>a, <2>3
      <3> QED BY <1>b, <2>1, <2>3, <3>1
    <2> QED BY <2>2, <2>3
  <1> HIDE DEF I
  <1>7. NoTwice(r)
    <2>1. ASSUME NEW i \in 1..Len(r), NEW j \in 1..Len(r), r[i] = r[j] PROVE i = j
      <3>1. PICK m \in 1..Len(s) : r[i] = s[m] /\ m = IF i < k THEN i ELSE i + 1
        BY <1>4, <1>5, <1>6
      <3>2. PICK n \in 1..Len(s) : r[j] = s[n] /\ n = IF j < k THEN j ELSE j + 1
        BY <1>4, <1>5, <1>6
      <3>3. m = n
        BY <2>1, <3>1, <3>2 DEF NoTwice
      <3> QED BY <1>4, <1>5, <3>1, <3>2, <3>3
    <2> QED BY <2>1 DEF NoTwice
  <1>8. ToSet(s) = {s[i] : i \in 1..Len(s)} /\ ToSet(r) = {r[i] : i \in 1..Len(r)}
    <2>1. DOMAIN s = 1..Len(s) /\ DOMAIN r = 1..Len(r)
      BY <1>5, LenProperties
    <2> QED BY <2>1 DEF ToSet
  <1>9. ASSUME NEW x \in ToSet(r) PROVE x \in ToSet(s) \ {e}
    <2>1. PICK i \in 1..Len(r) : x = IF i < k THEN s[i] ELSE s[i + 1]
      BY <1>6, <1>8
    <2>2. PICK j \in 1..Len(s) : x = s[j] /\ j # k
      <3>1. i \in 1..Len(s) /\ i + 1 \in 1..Len(s) /\ i + 1 # i /\ (i >= k => i + 1 # k)
        BY <1>4, <1>5
      <3>2. CASE i < k
        BY <2>1, <3>1, <3>2
      <3>3. CASE ~(i < k)
        <4>1. x = s[i + 1] /\ i + 1 # k
          BY <1>4, <1>5, <2>1, <3>1, <3>3
        <4> QED BY <3>1, <4>1
      <3> QED BY <3>2, <3>3
    <2>3. s[j] # s[k]
      BY <1>4, <2>2 DEF NoTwice
    <2> QED BY <1>4, <1>8, <2>2, <2>3
  <1>10. ASSUME NEW x \in ToSet(s), x # e PROVE x \in ToSet(r)
    <2>1. PICK j \in 1..Len(s) : x = s[j] /\ j # k
      BY <1>4, <1>8, <1>10
    <2>2. CASE j < k
      <3>1. j \in 1..Len(r) /\ r[j] = x
        BY <1>4, <1>5, <1>6, <2>1, <2>2
      <3> QED BY <1>8, <3>1
    <2>3. CASE j > k
      <3>1. j - 1 \in 1..Len(r) /\ r[j - 1] = x
        BY <1>4, <1>5, <1>6, <2>1, <2>3
      <3> QED BY <1>8, <3>1
    <2> QED BY <1>4, <2>1, <2>2, <2>3
  <1> QED BY <1>2, <1>5, <1>7, <1>9, <1>10 DEF r

Map == registered \in Seq(Execution) /\ NoTwice(registered)
Keys == ToSet(registered) = {e \in Execution : depth[e] > 0}
Answered == answer \in [kind : Answer, of : Execution \union {Nobody}]

RInv == IInv /\ Map /\ Keys /\ Answered

LEMMA EnterKeepsKeys ==
    ASSUME RInv, NEW e \in Execution, Enter(e)
    PROVE  Map' /\ Keys'
  <1>1. depth \in [Execution -> Nat]
    BY DEF RInv, IInv, Typed
  <1>2. CASE depth[e] = 0
    <2>1. registered' = Append(registered, e) /\ e \notin ToSet(registered)
      BY <1>2 DEF RInv, Keys, Enter
    <2>2. Map' /\ ToSet(registered') = ToSet(registered) \union {e}
      BY <2>1, KeyAdded, KeyAddedOnce DEF RInv, Map
    <2> QED BY <1>1, <1>2, <2>2 DEF RInv, Keys, Enter
  <1>3. CASE depth[e] # 0
    BY <1>1, <1>3 DEF RInv, Map, Keys, NoTwice, Enter
  <1> QED BY <1>2, <1>3

LEMMA ExitKeepsKeys ==
    ASSUME RInv, NEW e \in Execution, depth[e] > 0, Exit(e)
    PROVE  Map' /\ Keys'
  <1>1. depth \in [Execution -> Nat]
    BY DEF RInv, IInv, Typed
  <1>2. CASE depth[e] = 1
    <2>1. registered' = RemoveFirst(registered, e) /\ e \in ToSet(registered)
      BY <1>2 DEF RInv, Keys, Exit
    <2>2. Map' /\ ToSet(registered') = ToSet(registered) \ {e}
      BY <2>1, KeyDeleted DEF RInv, Map
    <2> QED BY <1>1, <1>2, <2>2 DEF RInv, Keys, Exit
  <1>3. CASE depth[e] # 1
    BY <1>1, <1>3 DEF RInv, Map, Keys, NoTwice, Exit
  <1> QED BY <1>2, <1>3

LEMMA KeysUnchanged ==
    ASSUME RInv, UNCHANGED tracker
    PROVE  Map' /\ Keys'
  BY DEF RInv, Map, Keys, NoTwice, tracker

LEMMA NextKeepsKeys == RInv /\ [Next]_vars => Map' /\ Keys'
  <1> SUFFICES ASSUME RInv, [Next]_vars PROVE Map' /\ Keys'
    OBVIOUS
  <1>1. ASSUME NEW e \in Execution, Submit(e) \/ EnterStep(e) PROVE Map' /\ Keys'
    BY <1>1, EnterKeepsKeys, KeysUnchanged DEF Submit, EnterStep
  <1>2. ASSUME NEW e \in Execution, LeaveStep(e) \/ CloseWorkflow(e) PROVE Map' /\ Keys'
    <2>1. depth[e] > 0
      BY <1>2 DEF RInv, IInv, Typed, Ok, Placed, LeaveStep, CloseWorkflow
    <2> QED BY <1>2, <2>1, ExitKeepsKeys DEF LeaveStep, CloseWorkflow
  <1>3. ASSUME NEW e \in Execution,
               UnknownWorkflow(e) \/ Plan(e) \/ GateDecides(e) \/ AskWithin(e) \/ JobProgress(e)
        PROVE  Map' /\ Keys'
    BY <1>3, KeysUnchanged DEF UnknownWorkflow, Plan, GateDecides, AskWithin, JobProgress
  <1>4. ASSUME NEW repo \in Repository, Cancel(repo) PROVE Map' /\ Keys'
    BY <1>4, KeysUnchanged DEF Cancel
  <1>5. CASE UNCHANGED vars
    BY <1>5, KeysUnchanged DEF vars
  <1> QED BY <1>1, <1>2, <1>3, <1>4, <1>5 DEF Next, Continue

LEMMA NextAnswers == RInv /\ [Next]_vars => Answered'
  <1> SUFFICES ASSUME RInv, [Next]_vars PROVE Answered'
    OBVIOUS
  <1>1. CASE answer' = answer
    BY <1>1 DEF RInv, Answered
  <1>2. ASSUME NEW repo \in Repository, Cancel(repo) PROVE Answered'
    <2>1. \E k \in Answer, e \in Execution \union {Nobody} : Tell(k, e)
      BY <1>2 DEF Cancel, CancelNothing, CancelApproval, CancelJob, CancelRefused, Answer
    <2> QED BY <2>1 DEF Answered, Tell
  <1> QED BY <1>1, <1>2 DEF Next, Continue, Submit, UnknownWorkflow, EnterStep, Plan, LeaveStep,
                            CloseWorkflow, GateDecides, AskWithin, JobProgress, vars

LEMMA InitRInv == Init => RInv
  <1> SUFFICES ASSUME Init PROVE RInv
    OBVIOUS
  <1>1. <<>> \in Seq(Execution) /\ NoTwice(<<>>) /\ ToSet(<<>>) = {}
    BY DEF NoTwice, ToSet
  <1> QED BY <1>1, InitHolds DEF Init, RInv, Map, Keys, Answered, Answer

LEMMA SpecRInv == Spec => []RInv
  <1>1. RInv /\ [Next]_vars => RInv'
    BY NextKeeps, NextKeepsKeys, NextAnswers DEF RInv
  <1> QED BY <1>1, InitRInv, PTL DEF Spec

\* The depth of a tracked execution never passes two, the orchestrator never
\* its last step, and the map holds executions only.
THEOREM TypeCorrect == Spec => []TypeOK
  <1>1. RInv => TypeOK
    <2> SUFFICES ASSUME RInv PROVE TypeOK
      OBVIOUS
    <2>1. ASSUME NEW e \in Execution
          PROVE  step[e] \leq Len(Steps[e]) /\ depth[e] \in 0..2
      BY <2>1 DEF RInv, IInv, Typed, Ok, Placed
    <2>2. depth \in [Execution -> 0..2]
      BY <2>1 DEF RInv, IInv, Typed
    <2> QED BY <2>1, <2>2 DEF RInv, IInv, Typed, Map, Answered, TypeOK
  <1> QED BY <1>1, SpecRInv, PTL

\* getCurrent() returns a tracked execution of the repository or none.
LEMMA CurrentIsTracked ==
    ASSUME RInv, NEW repo \in Repository, Current(repo) \in Execution
    PROVE  depth[Current(repo)] > 0 /\ Repo[Current(repo)] = repo
  <1> DEFINE I == {i \in 1..Len(registered) : Repo[registered[i]] = repo}
             k == Min(I)
  <1>1. CASE I = {}
    BY <1>1 DEF Current, SelectInSeq
  <1>2. CASE I # {}
    <2>1. I \subseteq Nat
      OBVIOUS
    <2>2. k \in I
      <3> HIDE DEF I
      <3> QED BY <1>2, <2>1, MinIsLeast
    <2>3. Current(repo) = registered[k]
      BY <1>2, <2>2 DEF Current, SelectInSeq
    <2> HIDE DEF k
    <2>4. registered[k] \in ToSet(registered) /\ Repo[registered[k]] = repo
      BY <2>2 DEF RInv, Map, ToSet
    <2> QED BY <2>3, <2>4 DEF RInv, Keys
  <1> QED BY <1>1, <1>2

\* /task cancel says "already cancelling" only of an execution whose job was
\* aborted, whatever happened between its look at the tracker and the planner.
THEOREM AlreadyIsTrue == Spec => AlreadyMeansAborted
  <1>1. RInv /\ [Next]_vars =>
          [answer'.kind = "already-cancelling" => abort[answer'.of] # "none"]_answer
    <2> SUFFICES ASSUME RInv, [Next]_vars, answer' # answer,
                        answer'.kind = "already-cancelling"
                 PROVE  abort[answer'.of] # "none"
      OBVIOUS
    <2>1. PICK repo \in Repository : Cancel(repo)
      BY DEF Next, Continue, Submit, UnknownWorkflow, EnterStep, Plan, LeaveStep,
             CloseWorkflow, GateDecides, AskWithin, JobProgress, vars
    <2>2. PICK e \in Execution : Current(repo) = e /\ CancelRefused(e) /\ ~CanAbort(e)
                                 /\ answer'.of = e
      BY <2>1 DEF Cancel, CancelNothing, CancelApproval, CancelJob, CancelRefused, Tell
    <2>3. depth[e] > 0 /\ gate[e] # "asked" /\ Quiet
      BY <2>1, <2>2, CurrentIsTracked DEF CancelRefused, Cancel
    <2>4. at[e] = "working"
      BY <2>3 DEF RInv, IInv, Typed, Ok, Placed, Quiet
    <2>5. e \in Jobs!Holding
      BY <2>4 DEF RInv, IInv, Typed, Ok, Placed, Jobs!Holding
    <2> QED BY <2>2, <2>5 DEF CanAbort
  <1> QED BY <1>1, SpecRInv, PTL DEF Spec, AlreadyMeansAborted
-----------------------------------------------------------------------------
(* TaskUndo for every set of files, tasks, requests and commits and every  *)
(* number of slots. What holds of a history depends on what has disturbed  *)
(* it, and so each part of the invariant names the disturbances it cannot  *)
(* bear: UndoInv none at all, OwnWrites a foreign hand among the task's    *)
(* own, LogOrder an append that is lost or overtaken, Chain anything.      *)

Ordered == Run \union Commit

\* The runs that have a checkpoint, and those of them that no undo took back.
Checkpoints  == Run \intersect ToSet(order)
StandingRuns == Run \intersect Standing
Results == {i \in DOMAIN log : log[i].kind = "result"}

AtWork(u)   == undo[u] \in {"ready", "restored", "deleted"}
HalfDone(u) == undo[u] \in {"restored", "deleted"}

\* The await a task is at says which snapshots it has, and the snapshot
\* "after" whether it is ordered.
Kept(r) ==
    /\ run[r] \in {"idle", "tracked"} => before[r] = None
    /\ run[r] # "ended" => after[r] = None /\ r \notin appending
    /\ r \in child => run[r] \in {"after", "ended"}
    /\ after[r] # None => before[r] # None
    /\ r \in ToSet(order) <=> after[r] # None

Once == \A i, j \in DOMAIN order : order[i] = order[j] => i = j

\* A task is logged once, after it has ended, and the undos in the log are
\* those of the tasks that are undone.
Logged ==
    /\ \A i \in Results : run[log[i].id] = "ended" /\ log[i].id \notin appending
    /\ \A i, j \in Results : log[i].id = log[j].id => i = j
    /\ \A i \in DOMAIN log \ Results : log[i].id \in undone
    /\ \A r \in Run \intersect undone : \E i \in DOMAIN log \ Results : log[i].id = r

Targets == \A u \in Request :
    /\ undo[u] \in {"idle", "checked"} => target[u] = None
    /\ AtWork(u) => target[u] # None

UndoInv == UndoTypeOK /\ (\A r \in Run : Kept(r)) /\ Once /\ Logged /\ Targets

\* Without an overlap an undo has the repository to itself.
Alone == "overlap" \notin past =>
    /\ Undoing = {} \/ Tracked = {}
    /\ \A u, v \in Undoing : u = v

\* While a task is between its snapshots the tree differs from the first by
\* its own writes, and so does the second.
OwnEdits ==
    /\ \A r, s \in InPlanner : r = s
    /\ \A r \in InPlanner : before[r] # None =>
          \A f \in File : tree[f] # before[r][f] => tree[f] \in {r, None}

OwnSnapshots ==
    \A r \in Run : after[r] # None => \A f \in Changed(r) : after[r][f] \in {r, None}

\* What an undo has compared is as the task left it, or was written since.
Undrifted == \A u \in Request :
    /\ undo[u] = "ready" =>
          \A f \in Changed(target[u]) \ crossed[u] : tree[f] = after[target[u]][f]
    /\ undo[u] = "restored" =>
          \A f \in ToDelete(target[u]) \ crossed[u] : tree[f] = after[target[u]][f]

OwnWrites == "mixed" \notin past => OwnEdits /\ OwnSnapshots

\* The log has the checkpoints in their order, but for the newest, which are
\* on their way.
LogOrder == past \intersect {"missing", "broken"} = {} =>
    /\ \A r \in InPlanner : before[r] # None
    /\ appending \subseteq ToSet(order)
    /\ \A i \in Results : log[i].id \in ToSet(order)
    /\ \A r \in Checkpoints : r \in appending \/ \E i \in Results : log[i].id = r
    /\ \A i, j \in Results : i < j => LaterThan(log[j].id, log[i].id)
    /\ \A i \in Results : \A r \in appending : LaterThan(r, log[i].id)

TargetIsNewest == past \subseteq {"foreign", "mixed"} =>
    \A u \in Request : undo[u] = "found" \/ AtWork(u) =>
        IF target[u] = None THEN StandingRuns = {} ELSE target[u] \in Latest(StandingRuns)

\* content is what the newest of the tasks S left, or what the first task of
\* all found when there is none in S.
LeftBy(S, content) ==
    /\ \A r \in Latest(S) : content = after[r]
    /\ S = {} => \A r \in Checkpoints :
                    (\A s \in Checkpoints : s = r \/ LaterThan(s, r)) => content = before[r]

\* Each standing task has found what the one below it left, so does the one
\* at work, and the tree is what the last one left, or half way back.
Below(r) == {s \in StandingRuns \ {r} : LaterThan(r, s)}
Links  == \A r \in StandingRuns : LeftBy(Below(r), before[r])
Starts == \A r \in InPlanner : LeftBy(StandingRuns, before[r])
Ends   == InPlanner = {} /\ (\A u \in Request : ~HalfDone(u)) => LeftBy(StandingRuns, tree)
Halfway == \A u \in Request : LET r == target[u] IN
    /\ undo[u] = "restored" =>
          \A f \in File : tree[f] = IF f \in ToDelete(r) THEN after[r][f] ELSE before[r][f]
    /\ undo[u] = "deleted" => tree = before[r]

Chain == past = {} => Links /\ Starts /\ Ends /\ Halfway

SparesInv == UndoInv /\ OwnWrites /\ Undrifted
NewestInv == UndoInv /\ Alone /\ LogOrder /\ TargetIsNewest
ChainInv  == NewestInv /\ OwnWrites /\ Chain

\* LaterThan is a strict total order of what is ordered.
LEMMA OrderIsTotal ==
    ASSUME order \in Seq(Ordered), Once
    PROVE  /\ \A x, y \in ToSet(order) : x = y \/ LaterThan(x, y) \/ LaterThan(y, x)
           /\ \A x, y \in ToSet(order) : LaterThan(x, y) => x # y /\ ~LaterThan(y, x)
           /\ \A x, y, z \in ToSet(order) :
                 LaterThan(x, y) /\ LaterThan(y, z) => LaterThan(x, z)
  <1>1. DOMAIN order = 1..Len(order) /\ Len(order) \in Nat
    OBVIOUS
  <1>2. PICK place \in [ToSet(order) -> 1..Len(order)] :
              \A x \in ToSet(order) : \A i \in DOMAIN order : order[i] = x <=> i = place[x]
    <2> DEFINE spot == [x \in ToSet(order) |-> CHOOSE i \in 1..Len(order) : order[i] = x]
    <2>1. ASSUME NEW x \in ToSet(order)
          PROVE  spot[x] \in 1..Len(order) /\ order[spot[x]] = x
      <3>1. \E i \in 1..Len(order) : order[i] = x
        BY <1>1 DEF ToSet
      <3> QED BY <3>1
    <2>2. spot \in [ToSet(order) -> 1..Len(order)]
      BY <2>1
    <2>3. ASSUME NEW x \in ToSet(order), NEW i \in DOMAIN order
          PROVE  order[i] = x <=> i = spot[x]
      <3> HIDE DEF spot
      <3> QED BY <1>1, <2>1 DEF Once
    <2> HIDE DEF spot
    <2> QED BY <2>2, <2>3
  <1>3. \A x, y \in ToSet(order) : LaterThan(x, y) <=> place[x] > place[y]
    <2>1. ASSUME NEW x \in ToSet(order), NEW y \in ToSet(order)
          PROVE  LaterThan(x, y) <=> place[x] > place[y]
      <3>1. place[x] \in DOMAIN order /\ place[y] \in DOMAIN order
        BY <1>1, <1>2
      <3>2. order[place[x]] = x /\ order[place[y]] = y
        BY <1>2, <3>1
      <3> QED BY <1>2, <3>1, <3>2 DEF LaterThan
    <2> QED BY <2>1
  <1>4. \A x, y \in ToSet(order) : place[x] \in Nat /\ (place[x] = place[y] => x = y)
    <2>1. ASSUME NEW x \in ToSet(order) PROVE place[x] \in 1..Len(order) /\ order[place[x]] = x
      <3>1. place[x] \in 1..Len(order)
        BY <1>2
      <3> QED BY <1>1, <1>2, <3>1
    <2> QED BY <1>1, <2>1
  <1> QED BY <1>3, <1>4

\* Of some ordered tasks and commits one is the newest.
LEMMA NewestExists ==
    ASSUME order \in Seq(Ordered), Once, NEW S, S \subseteq ToSet(order)
    PROVE  /\ S # {} => Latest(S) # {}
           /\ \A x, y \in Latest(S) : x = y
  <1>1. DOMAIN order = 1..Len(order) /\ Len(order) \in Nat
    OBVIOUS
  <1>2. ASSUME S # {} PROVE Latest(S) # {}
    <2> DEFINE T == {n \in Nat : n < Len(order) /\ order[Len(order) - n] \in S}
    <2>1. T # {}
      <3>1. PICK i \in 1..Len(order) : order[i] \in S
        BY <1>1, <1>2 DEF ToSet
      <3>2. Len(order) - i \in Nat /\ Len(order) - i < Len(order) /\ Len(order) - (Len(order) - i) = i
        BY <1>1
      <3>3. Len(order) - i \in T
        BY <3>1, <3>2
      <3> QED BY <3>3
    <2>2. PICK n \in T : \A m \in T : n <= m
      <3>1. T \subseteq Nat
        OBVIOUS
      <3> HIDE DEF T
      <3> QED BY <2>1, <3>1, LeastNatural
    <2> DEFINE k == Len(order) - n
    <2>3. k \in 1..Len(order) /\ order[k] \in S
      BY <1>1
    <2>4. ASSUME NEW y \in S \ {order[k]} PROVE LaterThan(order[k], y)
      <3>1. ASSUME NEW i \in DOMAIN order, NEW j \in DOMAIN order,
                   order[i] = order[k], order[j] = y
            PROVE  i > j
        <4>1. i = k
          BY <1>1, <2>3, <3>1 DEF Once
        <4>2. Len(order) - j \in T
          <5>1. Len(order) - j \in Nat /\ Len(order) - j < Len(order) /\ Len(order) - (Len(order) - j) = j
            BY <1>1
          <5> QED BY <3>1, <5>1
        <4>3. n <= Len(order) - j /\ n \in Nat
          BY <2>2, <4>2
        <4>4. j # k
          BY <2>4, <3>1
        <4> QED BY <1>1, <4>1, <4>3, <4>4
      <3> QED BY <3>1 DEF LaterThan
    <2>5. order[k] \in Latest(S)
      BY <2>3, <2>4 DEF Latest
    <2> QED BY <2>5
  <1>3. \A x, y \in Latest(S) : x = y
    <2>1. ASSUME NEW x \in Latest(S), NEW y \in Latest(S), x # y PROVE FALSE
      <3>1. x \in S /\ y \in S /\ LaterThan(x, y) /\ LaterThan(y, x)
        BY <2>1 DEF Latest
      <3> QED BY <3>1, OrderIsTotal
    <2> QED BY <2>1
  <1> QED BY <1>2, <1>3

\* What joins the order is later than all the rest, whose order stays.
LEMMA OrderGrows ==
    ASSUME order \in Seq(Ordered), Once, NEW x \in Ordered, x \notin ToSet(order),
           order' = Append(order, x)
    PROVE  /\ order' \in Seq(Ordered) /\ Once'
           /\ ToSet(order)' = ToSet(order) \union {x}
           /\ \A y, z \in ToSet(order) : LaterThan(y, z)' <=> LaterThan(y, z)
           /\ \A y \in ToSet(order) : LaterThan(x, y)' /\ ~LaterThan(y, x)'
  <1>1. /\ DOMAIN order = 1..Len(order) /\ Len(order) \in Nat
        /\ order' \in Seq(Ordered) /\ DOMAIN order' = 1..Len(order) + 1
        /\ \A i \in 1..Len(order) : order'[i] = order[i]
        /\ order'[Len(order) + 1] = x
    OBVIOUS
  <1>2. \A i \in DOMAIN order : order[i] # x
    BY DEF ToSet
  <1>3. Once'
    BY <1>1, <1>2 DEF Once
  <1>4. ToSet(order)' = ToSet(order) \union {x}
    <2>1. ToSet(order)' = {order'[i] : i \in DOMAIN order'} /\ ToSet(order) = {order[i] : i \in DOMAIN order}
      BY DEF ToSet
    <2> QED BY <1>1, <2>1
  <1>5. ASSUME NEW y \in ToSet(order)
        PROVE  /\ \E i \in 1..Len(order) : order[i] = y
               /\ \A i \in DOMAIN order' : order'[i] = y => i \in 1..Len(order)
    <2>1. y # x /\ \E i \in 1..Len(order) : order[i] = y
      BY <1>1 DEF ToSet
    <2> QED BY <1>1, <2>1
  <1>6. ASSUME NEW y \in ToSet(order), NEW z \in ToSet(order)
        PROVE  LaterThan(y, z)' <=> LaterThan(y, z)
    <2>1. ASSUME LaterThan(y, z)', NEW i \in DOMAIN order, NEW j \in DOMAIN order,
                 order[i] = y, order[j] = z
          PROVE  i > j
      <3>1. i \in DOMAIN order' /\ j \in DOMAIN order' /\ order'[i] = y /\ order'[j] = z
        BY <1>1, <2>1
      <3> QED BY <2>1, <3>1 DEF LaterThan
    <2>2. ASSUME LaterThan(y, z), NEW i \in DOMAIN order', NEW j \in DOMAIN order',
                 order'[i] = y, order'[j] = z
          PROVE  i > j
      <3>1. i \in DOMAIN order /\ j \in DOMAIN order /\ order[i] = y /\ order[j] = z
        BY <1>1, <1>5, <2>2
      <3> QED BY <2>2, <3>1 DEF LaterThan
    <2> QED BY <2>1, <2>2 DEF LaterThan
  <1>7. ASSUME NEW y \in ToSet(order) PROVE LaterThan(x, y)' /\ ~LaterThan(y, x)'
    <2>1. \A i \in DOMAIN order' : order'[i] = x => i = Len(order) + 1
      BY <1>1, <1>2
    <2>2. LaterThan(x, y)'
      <3>1. \A j \in DOMAIN order' : order'[j] = y => j <= Len(order)
        BY <1>1, <1>5
      <3>2. DOMAIN order' \subseteq Nat
        BY <1>1
      <3> QED BY <1>1, <2>1, <3>1, <3>2 DEF LaterThan
    <2>3. ~LaterThan(y, x)'
      <3>1. PICK i \in 1..Len(order) : order[i] = y
        BY <1>5
      <3>2. /\ i \in DOMAIN order' /\ order'[i] = y
            /\ Len(order) + 1 \in DOMAIN order' /\ ~(i > Len(order) + 1)
        BY <1>1, <3>1
      <3> QED BY <1>1, <3>2 DEF LaterThan
    <2> QED BY <2>2, <2>3
  <1> QED BY <1>1, <1>3, <1>4, <1>6, <1>7

\* A log with one entry more.
LEMMA Appended ==
    ASSUME NEW T, NEW s \in Seq(T), NEW x \in T
    PROVE  /\ Append(s, x) \in Seq(T) /\ DOMAIN Append(s, x) = DOMAIN s \union {Len(s) + 1}
           /\ DOMAIN s = 1..Len(s) /\ Len(s) \in Nat
           /\ Append(s, x)[Len(s) + 1] = x
           /\ \A i \in DOMAIN s : Append(s, x)[i] = s[i] /\ i # Len(s) + 1 /\ i \in Nat
  OBVIOUS

\* getMostRecentUndoableExecution returns a task with a checkpoint, or none.
LEMMA LatestIsEvent ==
    ASSUME log \in Seq(Event)
    PROVE  LatestUndoable \in Run \union {None} /\ (LatestUndoable # None => after[LatestUndoable] # None)
  <1> DEFINE taken == {log[i].id : i \in {j \in DOMAIN log : log[j].kind = "undo"}}
             found == {i \in DOMAIN log : /\ log[i].kind = "result" /\ after[log[i].id] # None
                                        /\ log[i].id \notin taken}
  <1>1. CASE found = {}
    BY <1>1 DEF LatestUndoable
  <1>2. CASE found # {}
    <2>1. PICK k \in found : \A j \in found : j <= k
      <3> DEFINE T == {n \in Nat : n < Len(log) /\ Len(log) - n \in found}
      <3>0. DOMAIN log = 1..Len(log) /\ Len(log) \in Nat
        OBVIOUS
      <3>1. \A i \in found : i \in 1..Len(log)
        BY <3>0
      <3> HIDE DEF found
      <3>2. \A i \in found : Len(log) - i \in T
        BY <3>0, <3>1
      <3>3. T # {} /\ T \subseteq Nat
        BY <1>2, <3>2
      <3> HIDE DEF T
      <3>4. PICK n \in T : \A m \in T : n <= m
        BY <3>3, LeastNatural
      <3>5. n \in Nat /\ Len(log) - n \in found
        BY <3>4 DEF T
      <3>6. \A j \in found : j <= Len(log) - n
        BY <3>0, <3>1, <3>2, <3>4, <3>5
      <3> QED BY <3>5, <3>6
    <2> DEFINE newest == CHOOSE i \in found : \A j \in found : j <= i
    <2>2. newest \in found
      <3> HIDE DEF found
      <3> QED BY <2>1
    <2>3. LatestUndoable = log[newest].id
      BY <1>2 DEF LatestUndoable
    <2>4. log[newest] \in Event /\ after[log[newest].id] # None
      <3> HIDE DEF newest
      <3> QED BY <2>2
    <2> HIDE DEF newest, found
    <2> QED BY <2>3, <2>4 DEF Event
  <1> QED BY <1>1, <1>2

\* Every step keeps the types.
LEMMA TypeKept == UndoInv /\ [UndoNext]_undoVars => UndoTypeOK'
  <1> SUFFICES ASSUME UndoInv, [UndoNext]_undoVars PROVE UndoTypeOK'
    OBVIOUS
  <1> USE TaskUndoAssumption
  <1>0. UndoTypeOK /\ (\A r \in Run : Kept(r)) /\ Once /\ order \in Seq(Ordered)
    BY DEF UndoInv, UndoTypeOK, Ordered
  <1>a. ASSUME NEW files \in SUBSET File, NEW requests, Cross(files, requests)
        PROVE  crossed' \in [Request -> SUBSET File]
    BY <1>0, <1>a DEF UndoTypeOK, Cross
  <1>b. ASSUME NEW f \in File, NEW who \in Run \union {User}, Write(f, who) PROVE tree' \in Tree
    BY <1>0, <1>b DEF UndoTypeOK, Write, Tree, Content
  <1>c. Foreign => past' \subseteq Disturbance
    BY <1>0 DEF UndoTypeOK, Foreign, Disturb, Disturbance
  <1>1. ASSUME NEW r \in Run, Track(r) PROVE UndoTypeOK'
    BY <1>0, <1>1 DEF request, UndoTypeOK, Track, Goto, Disturb, When, Disturbance
  <1>2. ASSUME NEW r \in Run, Withdraw(r) PROVE UndoTypeOK'
    BY <1>0, <1>2 DEF request, UndoTypeOK, Withdraw, Goto
  <1>3. ASSUME NEW r \in Run, Start(r) PROVE UndoTypeOK'
    <2>1. before' \in [Run -> Tree \union {None}] /\ faults' \in 0..MaxFaults
      BY <1>0, <1>3 DEF request, UndoTypeOK, Start, Snapshot, Fault
    <2>2. past' \subseteq Disturbance
      BY <1>0, <1>3 DEF request, UndoTypeOK, Start, Snapshot, Disturb, When, Disturbance
    <2>3. run' \in [Run -> {"idle", "tracked", "executing", "after", "ended"}]
      BY <1>0, <1>3 DEF request, UndoTypeOK, Start, Goto
    <2> QED BY <1>0, <1>3, <2>1, <2>2, <2>3 DEF request, UndoTypeOK, Start
  <1>4. ASSUME NEW r \in Run, Settle(r) PROVE UndoTypeOK'
    BY <1>0, <1>4 DEF request, UndoTypeOK, Settle, Goto
  <1>5. ASSUME NEW r \in Run, ChildExits(r) PROVE UndoTypeOK'
    BY <1>0, <1>5 DEF request, UndoTypeOK, ChildExits
  <1>6. ASSUME NEW r \in Run, AfterSnapshot(r) PROVE UndoTypeOK'
    <2>a. past' \subseteq Disturbance /\ faults' \in 0..MaxFaults
      BY <1>0, <1>6 DEF UndoTypeOK, AfterSnapshot, Snapshot, Disturb, When, Disturbance, Fault
    <2>b. after' \in [Run -> Tree \union {None}]
      BY <1>0, <1>6 DEF UndoTypeOK, AfterSnapshot, Snapshot
    <2>c. \A s \in Run : after[s] # None => after'[s] # None
      BY <1>0, <1>6 DEF UndoTypeOK, AfterSnapshot, Snapshot, Kept
    <2>1. after' \in [Run -> Tree \union {None}] /\ past' \subseteq Disturbance /\ faults' \in 0..MaxFaults
          /\ \A s \in Run : after[s] # None => after'[s] # None
      BY <2>a, <2>b, <2>c
    <2>2. order' \in Seq(Ordered) /\ ToSet(order) \subseteq ToSet(order)'
      <3>1. r \notin ToSet(order)
        BY <1>0, <1>6 DEF request, AfterSnapshot, Kept
      <3>2. CASE after'[r] = None
        BY <1>0, <1>6, <3>2 DEF request, AfterSnapshot, ToSet
      <3>3. CASE after'[r] # None
        <4>1. order' = Append(order, r) /\ r \in Ordered
          BY <1>6, <3>3 DEF request, AfterSnapshot, Ordered
        <4> QED BY <1>0, <3>1, <4>1, OrderGrows
      <3> QED BY <3>2, <3>3
    <2>3. run' \in [Run -> {"idle", "tracked", "executing", "after", "ended"}] /\ appending' \subseteq Run
      BY <1>0, <1>6 DEF request, UndoTypeOK, AfterSnapshot, Goto
    <2> QED BY <1>0, <1>6, <2>1, <2>2, <2>3 DEF request, UndoTypeOK, AfterSnapshot, Ordered
  <1>7. ASSUME NEW r \in Run, LogResult(r) PROVE UndoTypeOK'
    <2>1. [kind |-> "result", id |-> r] \in Event
      BY DEF Event
    <2>2. log' \in Seq(Event)
      <3>1. log' = log \/ log' = Append(log, [kind |-> "result", id |-> r])
        BY <1>7 DEF request, LogResult
      <3>2. log \in Seq(Event)
        BY <1>0 DEF UndoTypeOK
      <3> QED BY <2>1, <3>1, <3>2
    <2> QED BY <1>0, <1>7, <2>2 DEF request, UndoTypeOK, LogResult, Fault, Disturb, When, Disturbance
  <1>8. ASSUME NEW r \in Run, NEW f \in File, Edit(r, f) PROVE UndoTypeOK'
    <2>1. tree' \in Tree /\ crossed' \in [Request -> SUBSET File] /\ past' \subseteq Disturbance
      BY <1>0, <1>8, <1>a, <1>b, <1>c DEF UndoTypeOK, Edit
    <2> QED BY <1>0, <1>8, <2>1 DEF UndoTypeOK, Edit, task
  <1>9. ASSUME NEW f \in File, UserEdit(f) PROVE UndoTypeOK'
    <2>1. tree' \in Tree /\ crossed' \in [Request -> SUBSET File] /\ past' \subseteq Disturbance
      BY <1>9, <1>a, <1>b, <1>c DEF UserEdit
    <2> QED BY <1>0, <1>9, <2>1 DEF UndoTypeOK, UserEdit, task
  <1>10. ASSUME NEW c \in Commit, MakeCommit(c) PROVE UndoTypeOK'
    <2>1. order' \in Seq(Ordered) /\ ToSet(order)' = ToSet(order) \union {c}
      <3>1. c \in Ordered /\ c \notin ToSet(order) /\ order' = Append(order, c)
        BY <1>10 DEF request, MakeCommit, Ordered
      <3> QED BY <1>0, <3>1, OrderGrows
    <2> QED BY <1>0, <1>10, <2>1 DEF request, UndoTypeOK, MakeCommit, task, Disturb, When, Disturbance, Ordered
  <1>11. ASSUME NEW u \in Request, Check(u) PROVE UndoTypeOK'
    BY <1>0, <1>11 DEF UndoTypeOK, Check, Step, task, Disturb, When, Disturbance
  <1>12. ASSUME NEW u \in Request, Find(u) PROVE UndoTypeOK'
    <2>1. PICK found \in Run \union {None} : found = LatestUndoable /\ (found # None => after[found] # None)
      BY <1>0, LatestIsEvent DEF UndoTypeOK
    <2> QED BY <1>0, <1>12, <2>1 DEF UndoTypeOK, Find, Step, task, Disturb, When, Disturbance
  <1>13. ASSUME NEW u \in Request, Decide(u) PROVE UndoTypeOK'
    <2>1. LatestCommit \subseteq ToSet(order)
      BY DEF LatestCommit, Latest, Standing
    <2>2. undone' \subseteq ToSet(order)
      BY <1>0, <1>13, <2>1 DEF UndoTypeOK, Decide
    <2>3. CASE AnswerRequest(u)
      BY <1>0, <1>13, <2>2, <2>3 DEF UndoTypeOK, Decide, AnswerRequest, Step, task
    <2>4. CASE Step(u, "ready") /\ UNCHANGED <<target, crossed>>
      BY <1>0, <1>13, <2>2, <2>4 DEF UndoTypeOK, Decide, Step, task
    <2> QED BY <1>13, <2>3, <2>4 DEF Decide
  <1>14. ASSUME NEW u \in Request, AtWork(u), NEW files \in SUBSET File,
                tree' = RestoreTo(target[u], files)
         PROVE  tree' \in Tree
    <2>1. target[u] # None
      BY <1>14 DEF UndoInv, Targets
    <2>2. before[target[u]] \in Tree
      BY <1>0, <2>1 DEF UndoTypeOK, Kept
    <2> QED BY <1>0, <1>14, <2>2 DEF UndoTypeOK, RestoreTo, Tree
  <1>15. ASSUME NEW u \in Request, Restore(u) PROVE UndoTypeOK'
    <2>1. tree' \in Tree
      <3>1. ToRestore(target[u]) \in SUBSET File
        BY DEF ToRestore, Changed
      <3> QED BY <1>14, <1>15, <3>1 DEF PutBack, Restore, AtWork
    <2>2. crossed' \in [Request -> SUBSET File]
      BY <1>15, <1>a DEF Restore, PutBack, ToRestore, ToDelete, Changed
    <2>3. past' \subseteq Disturbance
      BY <1>0, <1>15 DEF UndoTypeOK, Restore, PutBack, Disturb, When, Disturbance
    <2> QED BY <1>0, <1>15, <2>1, <2>2, <2>3 DEF UndoTypeOK, Restore, Step, task
  <1>16. ASSUME NEW u \in Request, Delete(u) PROVE UndoTypeOK'
    <2>1. tree' \in Tree
      <3>1. ToDelete(target[u]) \in SUBSET File
        BY DEF ToDelete, Changed
      <3> QED BY <1>14, <1>16, <3>1 DEF PutBack, Delete, AtWork
    <2>2. crossed' \in [Request -> SUBSET File]
      BY <1>16, <1>a DEF Delete, PutBack, ToDelete, Changed
    <2>3. past' \subseteq Disturbance
      BY <1>0, <1>16 DEF UndoTypeOK, Delete, PutBack, Disturb, When, Disturbance
    <2> QED BY <1>0, <1>16, <2>1, <2>2, <2>3 DEF UndoTypeOK, Delete, Step, task
  <1>17. ASSUME NEW u \in Request, RecordUndo(u) PROVE UndoTypeOK'
    <2>1. target[u] \in Run /\ target[u] \in ToSet(order)
      BY <1>0, <1>17 DEF UndoInv, UndoTypeOK, Targets, Kept, RecordUndo, AtWork
    <2>2. [kind |-> "undo", id |-> target[u]] \in Event
      BY <2>1 DEF Event
    <2>3. log' \in Seq(Event)
      BY <1>0, <1>17, <2>2 DEF UndoTypeOK, RecordUndo
    <2>4. undo' \in [Request -> {"idle", "checked", "found", "ready", "restored", "deleted"}]
          /\ target' \in [Request -> Run \union {None}] /\ crossed' \in [Request -> SUBSET File]
          /\ \A v \in Request : target'[v] # None => target'[v] = target[v]
      BY <1>0, <1>17 DEF UndoTypeOK, RecordUndo, AnswerRequest, Step
    <2> QED BY <1>0, <1>17, <2>1, <2>3, <2>4 DEF UndoTypeOK, RecordUndo, task
  <1>18. ASSUME NEW u \in Request, UndoFails(u) PROVE UndoTypeOK'
    BY <1>0, <1>18 DEF UndoTypeOK, UndoFails, AnswerRequest, Step, task, Fault, Disturb, When, Disturbance
  <1>19. ASSUME Crash PROVE UndoTypeOK'
    BY <1>0, <1>19 DEF UndoTypeOK, Crash, Fault, Disturb, Disturbance
  <1>20. ASSUME UNCHANGED undoVars PROVE UndoTypeOK'
    BY <1>0, <1>20 DEF request, UndoTypeOK, undoVars, task
  <1> QED BY <1>1, <1>2, <1>3, <1>4, <1>5, <1>6, <1>7, <1>8, <1>9, <1>10, <1>11, <1>12,
             <1>13, <1>15, <1>16, <1>17, <1>18, <1>19, <1>20 DEF UndoNext

\* What a step leaves of the runs.
LEMMA RunsKept == UndoInv /\ [UndoNext]_undoVars => (\A r \in Run : Kept(r))' /\ Once'
  <1> SUFFICES ASSUME UndoInv, [UndoNext]_undoVars PROVE (\A r \in Run : Kept(r))' /\ Once'
    OBVIOUS
  <1> USE TaskUndoAssumption
  <1>0. UndoTypeOK /\ (\A r \in Run : Kept(r)) /\ Once /\ order \in Seq(Ordered)
    BY DEF UndoInv, UndoTypeOK, Ordered
  <1> DEFINE Same(r) == run'[r] = run[r] /\ before'[r] = before[r] /\ after'[r] = after[r]
                        /\ (r \in child' => r \in child) /\ (r \in appending' => r \in appending)
                        /\ (r \in ToSet(order)' <=> r \in ToSet(order))
  <1>1. ASSUME NEW r \in Run, Same(r) PROVE Kept(r)'
    BY <1>0, <1>1 DEF Kept
  <1> DEFINE Others(r) == \A s \in Run \ {r} : Same(s)
  <1>2. ASSUME NEW r \in Run, Track(r) \/ Withdraw(r) \/ Start(r) \/ Settle(r) \/ ChildExits(r) PROVE (\A s \in Run : Kept(s))' /\ Once'
    <2>1. Others(r) /\ Once' /\ UNCHANGED <<order, after, appending>>
      BY <1>0, <1>2 DEF request, UndoTypeOK, Track, Withdraw, Start, Snapshot, Settle, ChildExits, Goto, Once
    <2>2. Kept(r)'
      <3>1. Kept(r) /\ UNCHANGED <<ToSet(order), after, appending>>
        BY <1>0, <2>1
      <3>2. CASE Track(r)
        BY <1>0, <3>1, <3>2 DEF request, UndoTypeOK, Track, Goto, Kept
      <3>3. CASE Withdraw(r)
        BY <1>0, <3>1, <3>3 DEF request, UndoTypeOK, Withdraw, Goto, Kept
      <3>4. CASE Start(r)
        BY <1>0, <3>1, <3>4 DEF request, UndoTypeOK, Start, Snapshot, Goto, Kept
      <3>5. CASE Settle(r)
        BY <1>0, <3>1, <3>5 DEF request, UndoTypeOK, Settle, Goto, Kept
      <3>6. CASE ChildExits(r)
        BY <1>0, <3>1, <3>6 DEF request, UndoTypeOK, ChildExits, Kept
      <3> QED BY <1>2, <3>2, <3>3, <3>4, <3>5, <3>6
    <2> HIDE DEF Same
    <2> QED BY <1>1, <2>1, <2>2
  <1>3. ASSUME NEW r \in Run, AfterSnapshot(r) PROVE (\A s \in Run : Kept(s))' /\ Once'
    <2>1. r \notin ToSet(order) /\ r \in Ordered /\ before[r] = before'[r] /\ (after'[r] # None => before[r] # None)
          /\ run'[r] = "ended" /\ \A s \in Run \ {r} : after'[s] = after[s]
      BY <1>0, <1>3 DEF request, UndoTypeOK, AfterSnapshot, Snapshot, Kept, Ordered, Goto
    <2>2. Once' /\ ToSet(order)' = ToSet(order) \union (IF after'[r] = None THEN {} ELSE {r})
      <3>1. CASE after'[r] = None
        BY <1>0, <1>3, <3>1 DEF request, AfterSnapshot, Once, ToSet
      <3>2. CASE after'[r] # None
        <4>1. order' = Append(order, r)
          BY <1>3, <3>2 DEF request, AfterSnapshot
        <4> QED BY <1>0, <2>1, <3>2, <4>1, OrderGrows
      <3> QED BY <3>1, <3>2
    <2>3. Kept(r)'
      BY <2>1, <2>2 DEF Kept
    <2>4. Others(r)
      BY <1>0, <1>3, <2>1, <2>2 DEF request, UndoTypeOK, AfterSnapshot, Goto
    <2> HIDE DEF Same
    <2> QED BY <1>1, <2>2, <2>3, <2>4
  <1>4. ASSUME NEW c \in Commit, MakeCommit(c) PROVE (\A s \in Run : Kept(s))' /\ Once'
    <2>1. Once' /\ ToSet(order)' = ToSet(order) \union {c}
      <3>1. c \in Ordered /\ c \notin ToSet(order) /\ order' = Append(order, c)
        BY <1>4 DEF request, MakeCommit, Ordered
      <3> QED BY <1>0, <3>1, OrderGrows
    <2>2. \A s \in Run : Same(s)
      BY <1>4, <2>1 DEF request, MakeCommit, task
    <2> HIDE DEF Same
    <2> QED BY <1>1, <2>1, <2>2
  <1>5. ASSUME UNCHANGED <<run, before, after, child, order>>, appending' \subseteq appending
        PROVE  (\A s \in Run : Kept(s))' /\ Once'
    <2>1. \A s \in Run : Same(s)
      BY <1>5 DEF ToSet
    <2>2. Once'
      BY <1>0, <1>5 DEF Once
    <2> HIDE DEF Same
    <2> QED BY <1>1, <2>1, <2>2
  <1>6. ASSUME Crash PROVE (\A s \in Run : Kept(s))' /\ Once'
    BY <1>0, <1>6 DEF UndoTypeOK, Crash, Kept, Once
  <1>7. ASSUME NEW u \in Request, \/ Check(u) \/ Find(u) \/ Decide(u) \/ Restore(u) \/ Delete(u)
                                  \/ RecordUndo(u) \/ UndoFails(u)
        PROVE  UNCHANGED <<run, before, after, child, order>> /\ appending' \subseteq appending
    BY <1>7 DEF PutBack, Check, Find, Decide, Restore, Delete, RecordUndo, UndoFails, task
  <1>8. ASSUME NEW r \in Run, NEW f \in File, LogResult(r) \/ Edit(r, f) \/ UserEdit(f)
        PROVE  UNCHANGED <<run, before, after, child, order>> /\ appending' \subseteq appending
    BY <1>8 DEF request, Foreign, LogResult, Edit, UserEdit, task
  <1>9. ASSUME NEW r \in Run, LogResult(r)
        PROVE  UNCHANGED <<run, before, after, child, order>> /\ appending' \subseteq appending
    BY <1>9 DEF request, LogResult
  <1>10. ASSUME NEW f \in File, UserEdit(f)
        PROVE  UNCHANGED <<run, before, after, child, order>> /\ appending' \subseteq appending
    BY <1>10 DEF Foreign, UserEdit, task
  <1>11. CASE UNCHANGED undoVars
    <2>1. UNCHANGED <<run, before, after, child, order>> /\ appending' \subseteq appending
      BY <1>11 DEF request, undoVars, task
    <2> QED BY <1>5, <2>1
  <1> HIDE DEF Same, Others
  <1> QED BY <1>2, <1>3, <1>4, <1>5, <1>6, <1>7, <1>8, <1>9, <1>10, <1>11 DEF UndoNext

\* What a step leaves of the log.
LEMMA LogKept == UndoInv /\ [UndoNext]_undoVars => Logged'
  <1> SUFFICES ASSUME UndoInv, [UndoNext]_undoVars PROVE Logged'
    OBVIOUS
  <1> USE TaskUndoAssumption
  <1>0. UndoTypeOK /\ (\A r \in Run : Kept(r)) /\ Logged
    BY DEF UndoInv
  <1>a. \A i \in DOMAIN log : log[i].id \in Run
    <2>1. ASSUME NEW i \in DOMAIN log PROVE log[i].id \in Run
      <3>1. log \in Seq(Event)
        BY <1>0 DEF UndoTypeOK
      <3>2. log[i] \in Event
        BY <3>1
      <3> QED BY <3>2 DEF Event
    <2> QED BY <2>1
  <1>1. ASSUME UNCHANGED <<log, undone>>, \A r \in Run : run[r] = "ended" => run'[r] = "ended",
               \A r \in Run : r \in appending' => r \in appending \/ run[r] # "ended"
        PROVE  Logged'
    <2>1. Results' = Results
      BY <1>1 DEF Results
    <2> QED BY <1>0, <1>1, <1>a, <2>1 DEF Logged, Results
  <1>2. ASSUME NEW r \in Run, LogResult(r) PROVE Logged'
    <2>1. run[r] = "ended" /\ \A i \in Results : log[i].id # r
      BY <1>0, <1>2 DEF request, LogResult, Kept, Logged
    <2>2. CASE UNCHANGED log
      BY <1>1, <1>2, <2>2 DEF request, LogResult
    <2>3. CASE log' = Append(log, [kind |-> "result", id |-> r])
      <3>1. PICK e \in Event : e.kind = "result" /\ e.id = r /\ log' = Append(log, e)
        BY <2>3 DEF Event
      <3>2. PICK n \in Nat : /\ DOMAIN log' = DOMAIN log \union {n} /\ n \notin DOMAIN log /\ log'[n] = e
                            /\ \A i \in DOMAIN log : log'[i] = log[i]
        BY <1>0, <3>1, Appended DEF UndoTypeOK
      <3>3. Results' = Results \union {n} /\ DOMAIN log' \ Results' = DOMAIN log \ Results
        BY <3>1, <3>2 DEF Results
      <3>4. UNCHANGED <<run, undone>> /\ appending' = appending \ {r}
        BY <1>2 DEF request, LogResult
      <3>5. Results \subseteq DOMAIN log
        BY DEF Results
      <3> QED BY <1>0, <2>1, <3>1, <3>2, <3>3, <3>4, <3>5 DEF Logged
    <2> QED BY <1>2, <2>2, <2>3 DEF request, LogResult
  <1>3. ASSUME NEW u \in Request, RecordUndo(u) PROVE Logged'
    <2>1. target[u] \in Run
      BY <1>0, <1>3 DEF UndoInv, UndoTypeOK, Targets, RecordUndo, AtWork
    <2>2. PICK e \in Event : e.kind = "undo" /\ e.id = target[u] /\ log' = Append(log, e)
      BY <1>3, <2>1 DEF RecordUndo, Event
    <2>3. PICK n \in Nat : /\ DOMAIN log' = DOMAIN log \union {n} /\ n \notin DOMAIN log /\ log'[n] = e
                          /\ \A i \in DOMAIN log : log'[i] = log[i]
      BY <1>0, <2>2, Appended DEF UndoTypeOK
    <2>4. Results' = Results /\ DOMAIN log' \ Results' = (DOMAIN log \ Results) \union {n}
      BY <2>2, <2>3 DEF Results
    <2>5. UNCHANGED <<run, appending>> /\ undone' = undone \union {target[u]}
      BY <1>3 DEF RecordUndo, task
    <2>6. Results \subseteq DOMAIN log
      BY DEF Results
    <2>7. \A i \in Results' : run'[log'[i].id] = "ended" /\ log'[i].id \notin appending'
      BY <1>0, <2>3, <2>4, <2>5, <2>6 DEF Logged
    <2>8. \A i, j \in Results' : log'[i].id = log'[j].id => i = j
      BY <1>0, <2>3, <2>4, <2>6 DEF Logged
    <2>9. \A i \in DOMAIN log' \ Results' : log'[i].id \in undone'
      BY <1>0, <2>2, <2>3, <2>4, <2>5 DEF Logged
    <2>10. \A r \in Run \intersect undone' : \E i \in DOMAIN log' \ Results' : log'[i].id = r
      <3>1. ASSUME NEW r \in Run \intersect undone' PROVE \E i \in DOMAIN log' \ Results' : log'[i].id = r
        <4>1. CASE r = target[u]
          BY <2>2, <2>3, <2>4, <4>1
        <4>2. CASE r \in undone
          <5>1. PICK i \in DOMAIN log \ Results : log[i].id = r
            BY <1>0, <4>2 DEF Logged
          <5> QED BY <2>3, <2>4, <5>1
        <4> QED BY <2>5, <4>1, <4>2
      <3> QED BY <3>1
    <2> QED BY <2>7, <2>8, <2>9, <2>10 DEF Logged
  <1>4. ASSUME NEW u \in Request, Decide(u) PROVE Logged'
    <2>1. UNCHANGED <<log, run, appending>> /\ Run \intersect undone' = Run \intersect undone
      BY <1>4 DEF Decide, task, LatestCommit, Latest
    <2>2. undone \subseteq undone'
      BY <1>4 DEF Decide
    <2>3. Results' = Results
      BY <2>1 DEF Results
    <2> QED BY <1>0, <2>1, <2>2, <2>3 DEF Logged, Results
  <1>5. ASSUME NEW r \in Run, Track(r) \/ Withdraw(r) \/ Start(r) \/ Settle(r) \/ ChildExits(r)
        PROVE  Logged'
    BY <1>0, <1>1, <1>5 DEF request, UndoTypeOK, Track, Withdraw, Start, Settle, ChildExits, Goto
  <1>6. ASSUME NEW r \in Run, AfterSnapshot(r) PROVE Logged'
    BY <1>0, <1>1, <1>6 DEF request, UndoTypeOK, AfterSnapshot, Goto
  <1>7. ASSUME UNCHANGED <<log, undone, run, appending>> PROVE Logged'
    BY <1>1, <1>7
  <1>8. ASSUME NEW u \in Request, Check(u) \/ Find(u) \/ Restore(u) \/ Delete(u) \/ UndoFails(u)
        PROVE  UNCHANGED <<log, undone, run, appending>>
    BY <1>8 DEF PutBack, Check, Find, Restore, Delete, UndoFails, task
  <1>9. ASSUME NEW r \in Run, NEW f \in File, Edit(r, f) PROVE UNCHANGED <<log, undone, run, appending>>
    BY <1>9 DEF Foreign, Edit, task
  <1>10. ASSUME NEW f \in File, UserEdit(f) PROVE UNCHANGED <<log, undone, run, appending>>
    BY <1>10 DEF Foreign, UserEdit, task
  <1>11. ASSUME NEW c \in Commit, MakeCommit(c) PROVE UNCHANGED <<log, undone, run, appending>>
    BY <1>11 DEF request, MakeCommit, task
  <1>12. CASE Crash
    BY <1>1, <1>12 DEF Crash
  <1>13. CASE UNCHANGED undoVars
    BY <1>7, <1>13 DEF request, undoVars, task
  <1> QED BY <1>2, <1>3, <1>4, <1>5, <1>6, <1>7, <1>8, <1>9, <1>10, <1>11, <1>12, <1>13 DEF UndoNext

\* What a step leaves of the plans.
LEMMA TargetsKept == UndoInv /\ [UndoNext]_undoVars => Targets'
  <1> SUFFICES ASSUME UndoInv, [UndoNext]_undoVars, NEW v \in Request
               PROVE  (undo'[v] \in {"idle", "checked"} => target'[v] = None) /\ (AtWork(v)' => target'[v] # None)
    BY DEF Targets
  <1>0. UndoTypeOK /\ Targets
    BY DEF UndoInv
  <1>1. CASE UNCHANGED <<undo, target>>
    BY <1>0, <1>1 DEF Targets, AtWork
  <1>2. CASE \E u \in Request : AnswerRequest(u)
    BY <1>0, <1>2 DEF UndoTypeOK, Targets, AtWork, AnswerRequest, Step
  <1>3. ASSUME NEW u \in Request, Check(u) \/ Find(u) \/ Restore(u) \/ Delete(u)
        PROVE  undo' = [undo EXCEPT ![u] = undo'[u]] /\ \A w \in Request \ {u} : target'[w] = target[w]
    BY <1>0, <1>3 DEF PutBack, UndoTypeOK, Check, Find, Restore, Delete, Step
  <1>4. ASSUME NEW u \in Request, Check(u) \/ Find(u) \/ Restore(u) \/ Delete(u)
        PROVE (undo'[v] \in {"idle", "checked"} => target'[v] = None) /\ (AtWork(v)' => target'[v] # None)
    BY <1>0, <1>4 DEF PutBack, UndoTypeOK, Targets, AtWork, Check, Find, Restore, Delete, Step
  <1>5. ASSUME NEW u \in Request, Decide(u)
        PROVE (undo'[v] \in {"idle", "checked"} => target'[v] = None) /\ (AtWork(v)' => target'[v] # None)
    <2>1. CASE AnswerRequest(u)
      BY <1>2, <2>1
    <2>2. CASE target[u] # None /\ Step(u, "ready") /\ UNCHANGED target
      BY <1>0, <2>2 DEF UndoTypeOK, Targets, AtWork, Step
    <2> QED BY <1>5, <2>1, <2>2 DEF Decide
  <1>6. CASE Crash
    BY <1>0, <1>6 DEF Crash, AtWork
  <1>7. ASSUME NEW r \in Run, \/ Track(r) \/ Withdraw(r) \/ Start(r) \/ Settle(r) \/ ChildExits(r)
                             \/ AfterSnapshot(r) \/ LogResult(r) \/ \E f \in File : Edit(r, f)
        PROVE  UNCHANGED <<undo, target>>
    BY <1>7 DEF request, Foreign, Track, Withdraw, Start, Settle, ChildExits, AfterSnapshot, LogResult, Edit
  <1>8. ASSUME NEW f \in File, UserEdit(f) PROVE UNCHANGED <<undo, target>>
    BY <1>8 DEF Foreign, UserEdit
  <1>9. ASSUME NEW c \in Commit, MakeCommit(c) PROVE UNCHANGED <<undo, target>>
    BY <1>9 DEF request, MakeCommit
  <1>10. ASSUME NEW u \in Request, RecordUndo(u) \/ UndoFails(u) PROVE AnswerRequest(u)
    BY <1>10 DEF RecordUndo, UndoFails
  <1>11. CASE UNCHANGED undoVars
    BY <1>1, <1>11 DEF request, undoVars
  <1> QED BY <1>1, <1>2, <1>4, <1>5, <1>6, <1>7, <1>8, <1>9, <1>10, <1>11 DEF UndoNext

\* The types, the snapshots and the log are kept by every step.
LEMMA UndoInvKept == UndoInv /\ [UndoNext]_undoVars => UndoInv'
  BY TypeKept, RunsKept, LogKept, TargetsKept DEF UndoInv

\* They hold before anything has run.
LEMMA InitUndoInv == UndoInit => UndoInv
  <1> SUFFICES ASSUME UndoInit PROVE UndoInv
    OBVIOUS
  <1> USE TaskUndoAssumption
  <1>1. UndoTypeOK
    BY DEF UndoInit, UndoTypeOK, Tree, Content
  <1>2. ToSet(order) = {} /\ DOMAIN log = {} /\ DOMAIN order = {}
    BY DEF UndoInit, ToSet
  <1>3. \A r \in Run : Kept(r)
    BY <1>2 DEF UndoInit, Kept
  <1>4. Once /\ Logged /\ Targets
    BY <1>2 DEF UndoInit, Once, Logged, Results, Targets, AtWork
  <1> QED BY <1>1, <1>3, <1>4 DEF UndoInv

\* The variables have their types: every plan is of a task with a checkpoint,
\* and what is undone has been ordered.
THEOREM UndoTypeCorrect == UndoSpec => []UndoTypeOK
  <1>1. UndoInv => UndoTypeOK
    BY DEF UndoInv
  <1> QED BY <1>1, InitUndoInv, UndoInvKept, PTL DEF UndoSpec

-----------------------------------------------------------------------------
\* What has disturbed a history is not forgotten.
LEMMA PastGrows == [UndoNext]_undoVars => past \subseteq past'
  BY DEF request, Foreign, PutBack, UndoNext, undoVars, Track, Withdraw, Start, Snapshot, Settle, ChildExits, AfterSnapshot,
         LogResult, Edit, UserEdit, MakeCommit, Check, Find, Decide, Restore, Delete, RecordUndo,
         UndoFails, Crash, Disturb

\* A task, a commit or an undo that begins beside an undo is an overlap.
LEMMA AloneKept == UndoInv /\ Alone /\ [UndoNext]_undoVars => Alone'
  <1> SUFFICES ASSUME UndoInv, Alone, [UndoNext]_undoVars, "overlap" \notin past'
               PROVE  (Undoing' = {} \/ Tracked' = {}) /\ \A u, v \in Undoing' : u = v
    BY DEF Alone
  <1>0. UndoTypeOK /\ (Undoing = {} \/ Tracked = {}) /\ \A u, v \in Undoing : u = v
    BY PastGrows DEF UndoInv, Alone
  <1> DEFINE Goal == (Undoing' = {} \/ Tracked' = {}) /\ \A u, v \in Undoing' : u = v
  <1>1. CASE Undoing' \subseteq Undoing /\ Tracked' \subseteq Tracked
    BY <1>0, <1>1
  <1>2. ASSUME NEW r \in Run, Track(r) PROVE Undoing' = {}
    BY <1>2 DEF request, Track, Disturb, When, Undoing
  <1>3. ASSUME NEW r \in Run, Withdraw(r) \/ Start(r) \/ Settle(r) \/ AfterSnapshot(r)
        PROVE  Undoing' \subseteq Undoing /\ Tracked' \subseteq Tracked
    BY <1>0, <1>3 DEF request, UndoTypeOK, Withdraw, Start, Settle, AfterSnapshot, Goto, Undoing, Tracked
  <1>4. ASSUME UNCHANGED run, UNCHANGED undo PROVE Undoing' \subseteq Undoing /\ Tracked' \subseteq Tracked
    BY <1>4 DEF Undoing, Tracked
  <1>5. ASSUME NEW r \in Run, ChildExits(r) \/ LogResult(r) \/ \E f \in File : Edit(r, f)
        PROVE  UNCHANGED run /\ UNCHANGED undo
    BY <1>5 DEF request, Foreign, ChildExits, LogResult, Edit, task
  <1>6. ASSUME NEW f \in File, UserEdit(f) PROVE UNCHANGED run /\ UNCHANGED undo
    BY <1>6 DEF Foreign, UserEdit, task
  <1>7. ASSUME NEW c \in Commit, MakeCommit(c) PROVE UNCHANGED run /\ UNCHANGED undo
    BY <1>7 DEF request, MakeCommit, task
  <1>8. ASSUME NEW u \in Request, Check(u) PROVE Goal
    BY <1>0, <1>8 DEF UndoTypeOK, Check, Step, Disturb, When, Undoing, Tracked, task
  <1>9. ASSUME NEW u \in Request, \/ Find(u) \/ Decide(u) \/ Restore(u) \/ Delete(u)
                                  \/ RecordUndo(u) \/ UndoFails(u)
        PROVE  Undoing' \subseteq Undoing /\ Tracked' \subseteq Tracked
    BY <1>0, <1>9 DEF PutBack, UndoTypeOK, Find, Decide, Restore, Delete, RecordUndo, UndoFails, AnswerRequest,
                      Step, Undoing, Tracked, task
  <1>10. CASE Crash
    BY <1>10 DEF Crash, Undoing
  <1>11. CASE UNCHANGED undoVars
    BY <1>1, <1>4, <1>11 DEF request, undoVars, task
  <1>12. Undoing' = {} => Goal
    OBVIOUS
  <1> QED BY <1>1, <1>2, <1>3, <1>4, <1>5, <1>6, <1>7, <1>8, <1>9, <1>10, <1>11, <1>12 DEF UndoNext

\* Whoever else writes between the snapshots of a task is a disturbance.
LEMMA OwnWritesKept == UndoInv /\ OwnWrites /\ [UndoNext]_undoVars => OwnWrites'
  <1> SUFFICES ASSUME UndoInv, OwnWrites, [UndoNext]_undoVars, "mixed" \notin past'
               PROVE  OwnEdits' /\ OwnSnapshots'
    BY DEF OwnWrites, OwnEdits, OwnSnapshots
  <1>0. UndoTypeOK /\ OwnEdits /\ OwnSnapshots /\ Targets /\ "mixed" \notin past'
    BY PastGrows DEF UndoInv, OwnWrites, OwnEdits, OwnSnapshots
  <1> DEFINE Goal == OwnEdits' /\ OwnSnapshots'
  <1>1. ASSUME UNCHANGED <<tree, before, after>>, InPlanner' \subseteq InPlanner
        PROVE  Goal
    BY <1>0, <1>1 DEF OwnEdits, OwnSnapshots, Changed
  <1>2. ASSUME UNCHANGED <<before, after>>, InPlanner' = {} PROVE Goal
    BY <1>0, <1>2 DEF OwnEdits, OwnSnapshots, Changed
  <1>3. ASSUME NEW r \in Run, Track(r) \/ Withdraw(r) \/ Settle(r) \/ ChildExits(r) \/ LogResult(r) PROVE Goal
    <2>1. UNCHANGED <<tree, before, after>>
      BY <1>3 DEF Track, Withdraw, Settle, ChildExits, LogResult
    <2>2. InPlanner' \subseteq InPlanner
      BY <1>0, <1>3 DEF UndoTypeOK, Track, Withdraw, Settle, ChildExits, LogResult, Goto, InPlanner
    <2> QED BY <1>1, <2>1, <2>2
  <1>4. ASSUME NEW r \in Run, Start(r) PROVE Goal
    <2>1. InPlanner \subseteq {r} /\ InPlanner' \subseteq {r}
      BY <1>0, <1>4 DEF UndoTypeOK, Start, Snapshot, Disturb, When, Goto, InPlanner
    <2>2. before'[r] \in {before[r], tree} /\ UNCHANGED <<tree, after>>
          /\ \A s \in Run \ {r} : before'[s] = before[s]
      BY <1>0, <1>4 DEF UndoTypeOK, Start, Snapshot
    <2>3. before[r] = None /\ after[r] = None
      BY <1>4 DEF UndoInv, Kept, Start
    <2>4. OwnEdits'
      BY <1>0, <2>1, <2>2, <2>3 DEF OwnEdits
    <2>5. OwnSnapshots'
      BY <1>0, <2>2, <2>3 DEF OwnSnapshots, Changed
    <2> QED BY <2>4, <2>5
  <1>5. ASSUME NEW r \in Run, AfterSnapshot(r) PROVE Goal
    <2>1. InPlanner' \subseteq InPlanner /\ r \in InPlanner
      BY <1>0, <1>5 DEF UndoTypeOK, AfterSnapshot, Goto, InPlanner
    <2>2. UNCHANGED <<tree, before>> /\ (after'[r] \in {after[r], tree}) /\ (after'[r] # None => before[r] # None)
          /\ after[r] = None /\ \A s \in Run \ {r} : after'[s] = after[s]
      BY <1>0, <1>5 DEF UndoInv, UndoTypeOK, AfterSnapshot, Snapshot, Kept
    <2>3. OwnEdits'
      BY <1>0, <2>1, <2>2 DEF OwnEdits
    <2>4. OwnSnapshots'
      BY <1>0, <2>1, <2>2 DEF OwnSnapshots, OwnEdits, Changed
    <2> QED BY <2>3, <2>4
  <1>6. ASSUME NEW r \in Run, NEW f \in File, Edit(r, f) PROVE Goal
    <2>1. UNCHANGED <<run, before, after>>
      BY <1>6 DEF Edit, task
    <2>2. r \in InPlanner \/ InPlanner' = {}
      BY <1>0, <1>6, <2>1 DEF UndoInv, Kept, Edit, Foreign, Disturb, InPlanner
    <2>3. PICK content \in {r, None} : tree' = [tree EXCEPT ![f] = content]
      BY <1>6 DEF Edit, Write
    <2>4. CASE r \in InPlanner
      <3>1. OwnEdits'
        BY <1>0, <2>1, <2>3, <2>4 DEF OwnEdits, InPlanner, UndoTypeOK, Tree
      <3>2. OwnSnapshots'
        BY <1>0, <2>1 DEF OwnSnapshots, Changed
      <3> QED BY <3>1, <3>2
    <2> QED BY <1>2, <2>1, <2>2, <2>4
  <1>7. ASSUME NEW f \in File, UserEdit(f) PROVE Goal
    <2>1. InPlanner = {} /\ UNCHANGED <<run, before, after>>
      BY <1>0, <1>7 DEF UserEdit, Foreign, Disturb, task
    <2> QED BY <1>2, <2>1 DEF InPlanner
  <1>8. ASSUME NEW c \in Commit, MakeCommit(c) PROVE Goal
    BY <1>1, <1>8 DEF MakeCommit, task, InPlanner
  <1>9. ASSUME NEW u \in Request, Check(u) \/ Find(u) \/ Decide(u) \/ RecordUndo(u) \/ UndoFails(u) PROVE Goal
    <2>1. UNCHANGED <<tree, run, before, after>>
      BY <1>9 DEF Check, Find, Decide, RecordUndo, UndoFails, task
    <2> QED BY <1>1, <2>1 DEF InPlanner
  <1>10. ASSUME NEW u \in Request, Restore(u) \/ Delete(u) PROVE Goal
    <2>1. InPlanner = {} /\ UNCHANGED <<run, before, after>>
      BY <1>0, <1>10 DEF Restore, Delete, PutBack, Disturb, When, task
    <2> QED BY <1>2, <2>1 DEF InPlanner
  <1>11. CASE Crash
    <2>1. InPlanner' = {} /\ UNCHANGED <<before, after>>
      BY <1>11 DEF Crash, InPlanner
    <2> QED BY <1>2, <2>1
  <1>12. CASE UNCHANGED undoVars
    <2>1. UNCHANGED <<tree, run, before, after>>
      BY <1>12 DEF undoVars, task
    <2> QED BY <1>1, <2>1 DEF InPlanner
  <1> QED BY <1>3, <1>4, <1>5, <1>6, <1>7, <1>8, <1>9, <1>10, <1>11, <1>12 DEF UndoNext

\* Whoever writes to a file that an undo has compared crosses it; the undo
\* itself does not write to what it is still to delete.
LEMMA UndriftedKept == UndoInv /\ Undrifted /\ [UndoNext]_undoVars => Undrifted'
  <1> SUFFICES ASSUME UndoInv, Undrifted, [UndoNext]_undoVars PROVE Undrifted'
    OBVIOUS
  <1>0. UndoTypeOK /\ Undrifted /\ Targets /\ \A r \in Run : Kept(r)
    BY DEF UndoInv
  <1>a. \A u \in Compared : target[u] \in Run /\ after[target[u]] # None /\ before[target[u]] # None
    BY <1>0 DEF Compared, Targets, AtWork, UndoTypeOK, Kept
  <1> DEFINE Went(u) == undo'[u] \in {"ready", "restored"} => undo'[u] = undo[u] /\ target'[u] = target[u]
             Same(r) == before'[r] = before[r] /\ after'[r] = after[r]
             Wrote(u, files) == /\ \A f \in File \ files : tree'[f] = tree[f]
                                /\ crossed[u] \union files \subseteq crossed'[u]
  <1>1. ASSUME \A u \in Request : Went(u),
               \A u \in Compared : Same(target[u]) /\ \E files \in SUBSET File : Wrote(u, files)
        PROVE  Undrifted'
    <2> SUFFICES ASSUME NEW u \in Request, undo'[u] \in {"ready", "restored"},
                        NEW f \in Changed(target[u])' \ crossed'[u],
                        undo'[u] = "restored" => f \in ToDelete(target[u])'
                 PROVE  tree'[f] = after'[target'[u]][f]
      BY DEF Undrifted, ToDelete
    <2>1. u \in Compared /\ undo'[u] = undo[u] /\ target'[u] = target[u] /\ Same(target[u])
      BY <1>1 DEF Compared
    <2>2. f \in Changed(target[u]) /\ (undo[u] = "restored" => f \in ToDelete(target[u])) /\ f \in File
      BY <2>1 DEF Changed, ToDelete
    <2>3. PICK files \in SUBSET File : Wrote(u, files)
      BY <1>1, <2>1
    <2>4. tree'[f] = tree[f] /\ f \notin crossed[u]
      BY <2>2, <2>3
    <2> QED BY <1>0, <2>1, <2>2, <2>4 DEF Undrifted
  <1>2. ASSUME UNCHANGED <<tree, crossed>>, \A u \in Request : Went(u), \A u \in Compared : Same(target[u])
        PROVE  Undrifted'
    <2>1. \A u \in Compared : Wrote(u, {})
      BY <1>2
    <2> QED BY <1>1, <1>2, <2>1
  <1>3. ASSUME NEW r \in Run, Track(r) \/ Withdraw(r) \/ Settle(r) \/ ChildExits(r) \/ LogResult(r) PROVE Undrifted'
    <2>1. UNCHANGED <<tree, before, after, undo, target, crossed>>
      BY <1>3 DEF Track, Withdraw, Settle, ChildExits, LogResult, request
    <2> QED BY <1>2, <2>1
  <1>4. ASSUME NEW r \in Run, Start(r) \/ AfterSnapshot(r) PROVE Undrifted'
    <2>1. UNCHANGED <<tree, undo, target, crossed>>
      BY <1>4 DEF Start, AfterSnapshot, request
    <2>2. after[r] = None /\ \A s \in Run \ {r} : Same(s)
      BY <1>0, <1>4 DEF UndoTypeOK, Start, AfterSnapshot, Snapshot, Kept
    <2>3. \A u \in Compared : Same(target[u])
      BY <1>a, <2>2
    <2> QED BY <1>2, <2>1, <2>3
  <1>5. ASSUME NEW f \in File, UserEdit(f) \/ \E r \in Run : Edit(r, f) PROVE Undrifted'
    <2>1. UNCHANGED <<before, after, undo, target>> /\ Cross({f}, Compared)
      BY <1>5 DEF UserEdit, Edit, task
    <2>2. \A u \in Compared : Wrote(u, {f})
      <3>1. \E content : tree' = [tree EXCEPT ![f] = content]
        BY <1>5 DEF UserEdit, Edit, Write
      <3>2. \A g \in File \ {f} : tree'[g] = tree[g]
        BY <1>0, <3>1 DEF UndoTypeOK, Tree
      <3>3. \A u \in Compared : crossed[u] \union {f} \subseteq crossed'[u]
        BY <2>1 DEF Cross, Compared
      <3> QED BY <3>2, <3>3
    <2> QED BY <1>1, <2>1, <2>2
  <1>6. ASSUME NEW c \in Commit, MakeCommit(c) PROVE Undrifted'
    <2>1. UNCHANGED <<tree, before, after, undo, target, crossed>>
      BY <1>6 DEF MakeCommit, task, request
    <2> QED BY <1>2, <2>1
  <1>7. ASSUME NEW u \in Request, Check(u) \/ Find(u) PROVE Undrifted'
    <2>1. UNCHANGED <<tree, before, after, crossed>>
      BY <1>7 DEF Check, Find, task
    <2>2. \A v \in Request : Went(v)
      BY <1>0, <1>7 DEF UndoTypeOK, Check, Find, Step
    <2> QED BY <1>2, <1>a, <2>1, <2>2
  <1>8. ASSUME NEW u \in Request, AnswerRequest(u), UNCHANGED <<tree, before, after>> PROVE Undrifted'
    <2>1. /\ undo'[u] = "idle"
          /\ \A v \in Request \ {u} : undo'[v] = undo[v] /\ target'[v] = target[v] /\ crossed'[v] = crossed[v]
      BY <1>0, <1>8 DEF UndoTypeOK, AnswerRequest, Step
    <2> QED BY <1>0, <1>8, <2>1 DEF Undrifted, Changed, ToDelete
  <1>9. ASSUME NEW u \in Request, Decide(u) PROVE Undrifted'
    <2>1. UNCHANGED <<tree, before, after>>
      BY <1>9 DEF Decide, task
    <2>2. CASE AnswerRequest(u)
      BY <1>8, <2>1, <2>2
    <2>3. CASE ~Drifted(target[u]) /\ Step(u, "ready") /\ UNCHANGED <<target, crossed>>
      <3>1. undo'[u] = "ready" /\ \A v \in Request \ {u} : undo'[v] = undo[v]
        BY <1>0, <2>3 DEF UndoTypeOK, Step
      <3>2. \A f \in Changed(target[u]) : tree[f] = after[target[u]][f]
        BY <2>3 DEF Drifted
      <3> QED BY <1>0, <2>1, <2>3, <3>1, <3>2 DEF Undrifted, Changed, ToDelete
    <2> QED BY <1>9, <2>2, <2>3 DEF Decide
  <1>10. ASSUME NEW u \in Request, Restore(u) \/ Delete(u) PROVE Undrifted'
    <2>1. UNCHANGED <<before, after, target>> /\ u \in Compared
      BY <1>10 DEF Restore, Delete, task, Compared
    <2>2. PICK files \in SUBSET File : PutBack(u, files) /\ (Restore(u) => files = ToRestore(target[u]))
      BY <1>10 DEF Restore, Delete, ToRestore, ToDelete, Changed
    <2>3. \A v \in Compared \ {u} : Wrote(v, files)
      BY <2>2 DEF PutBack, Cross, RestoreTo, Compared
    <2>4. \A v \in Request \ {u} : undo'[v] = undo[v]
      BY <1>0, <1>10 DEF UndoTypeOK, Restore, Delete, Step
    <2>5. undo'[u] \in {"restored", "deleted"} /\ (undo'[u] = "restored" => Restore(u))
      BY <1>0, <1>10 DEF UndoTypeOK, Restore, Delete, Step
    <2>6. ASSUME undo'[u] = "restored", NEW f \in ToDelete(target[u])' \ crossed'[u]
          PROVE  tree'[f] = after'[target'[u]][f]
      <3>1. f \in ToDelete(target[u]) /\ f \in Changed(target[u]) /\ f \in File
        BY <2>1, <2>6 DEF ToDelete, Changed
      <3>2. undo[u] = "ready" /\ files = ToRestore(target[u])
        BY <2>2, <2>5, <2>6 DEF Restore
      <3>3. tree'[f] = tree[f]
        BY <2>2, <3>1, <3>2 DEF PutBack, RestoreTo, ToRestore
      <3>4. crossed'[u] = crossed[u]
        BY <2>1, <2>2 DEF PutBack, Cross, Compared
      <3>5. tree[f] = after[target[u]][f]
        BY <1>0, <2>6, <3>1, <3>2, <3>4 DEF Undrifted
      <3> QED BY <2>1, <3>3, <3>5
    <2>7. ASSUME NEW v \in Request \ {u}, undo'[v] \in {"ready", "restored"},
                 NEW f \in Changed(target[v])' \ crossed'[v],
                 undo'[v] = "restored" => f \in ToDelete(target[v])'
          PROVE  tree'[f] = after'[target'[v]][f]
      <3>1. v \in Compared /\ undo'[v] = undo[v]
        BY <2>4, <2>7 DEF Compared
      <3>2. f \in Changed(target[v]) /\ (undo[v] = "restored" => f \in ToDelete(target[v])) /\ f \in File
        BY <2>1, <2>7, <3>1 DEF Changed, ToDelete
      <3>3. tree'[f] = tree[f] /\ f \notin crossed[v]
        BY <2>3, <2>7, <3>1, <3>2
      <3> QED BY <1>0, <2>1, <3>1, <3>2, <3>3 DEF Undrifted, Compared
    <2> QED BY <2>4, <2>5, <2>6, <2>7 DEF Undrifted, ToDelete
  <1>11. ASSUME NEW u \in Request, RecordUndo(u) \/ UndoFails(u) PROVE Undrifted'
    BY <1>8, <1>11 DEF RecordUndo, UndoFails, task
  <1>12. CASE Crash
    BY <1>12 DEF Crash, Undrifted
  <1>13. CASE UNCHANGED undoVars
    <2>1. UNCHANGED <<tree, before, after, undo, target, crossed>>
      BY <1>13 DEF undoVars, task, request
    <2> QED BY <1>2, <2>1
  <1> QED BY <1>3, <1>4, <1>5, <1>6, <1>7, <1>9, <1>10, <1>11, <1>12, <1>13 DEF UndoNext

\* Nothing has been written yet.
LEMMA InitSparesInv == UndoInit => SparesInv
  <1> SUFFICES ASSUME UndoInit PROVE SparesInv
    OBVIOUS
  <1>1. InPlanner = {} /\ Undoing = {} /\ \A r \in Run : after[r] = None
    BY DEF UndoInit, InPlanner, Undoing
  <1>2. \A u \in Request : undo[u] = "idle"
    BY DEF UndoInit
  <1> QED BY <1>1, <1>2, InitUndoInv DEF SparesInv, OwnWrites, OwnEdits, OwnSnapshots, Undrifted

\* UndoService never takes back what the user, another task or another undo has
\* written to a file, unless it was written between the two snapshots of the
\* task or after the undo had compared the files.
THEOREM UndosSpareOthers == UndoSpec => UndoSparesOthers
  <1>1. SparesInv /\ [UndoNext]_undoVars => SparesInv'
    BY UndoInvKept, OwnWritesKept, UndriftedKept DEF SparesInv
  <1>2. ASSUME SparesInv
        PROVE  \A u \in Request : Restore(u) \/ Delete(u) =>
                  "mixed" \in past \/ \A f \in File \ crossed[u] : Attributed(u, f)
    <2> SUFFICES ASSUME NEW u \in Request, Restore(u) \/ Delete(u), "mixed" \notin past,
                        NEW f \in File \ crossed[u], tree'[f] # tree[f], tree[f] # None
                 PROVE  tree[f] = target[u]
      BY DEF Attributed
    <2> DEFINE r == target[u]
    <2>1. r \in Run /\ after[r] # None
      BY <1>2 DEF PutBack, SparesInv, UndoInv, UndoTypeOK, Targets, AtWork, Restore, Delete
    <2>2. f \in Changed(r) /\ tree[f] = after[r][f]
      <3>1. CASE Restore(u)
        <4>1. tree' = RestoreTo(r, ToRestore(r)) /\ undo[u] = "ready"
          BY <3>1 DEF Restore, PutBack
        <4>2. f \in ToRestore(r)
          BY <4>1 DEF RestoreTo
        <4> QED BY <1>2, <4>1, <4>2 DEF SparesInv, Undrifted, ToRestore
      <3>2. CASE Delete(u)
        <4>1. tree' = RestoreTo(r, ToDelete(r)) /\ undo[u] = "restored"
          BY <3>2 DEF Delete, PutBack
        <4>2. f \in ToDelete(r)
          BY <4>1 DEF RestoreTo
        <4> QED BY <1>2, <4>1, <4>2 DEF SparesInv, Undrifted, ToDelete
      <3> QED BY <3>1, <3>2
    <2>3. after[r][f] \in {r, None}
      BY <1>2, <2>1, <2>2 DEF SparesInv, OwnWrites, OwnSnapshots
    <2> QED BY <2>2, <2>3
  <1>3. SparesInv => [\A u \in Request : Restore(u) \/ Delete(u) =>
                       "mixed" \in past \/ \A f \in File \ crossed[u] : Attributed(u, f)]_undoVars
    BY <1>2
  <1> QED BY <1>1, <1>3, InitSparesInv, PTL DEF UndoSpec, UndoSparesOthers

-----------------------------------------------------------------------------
\* Appends that end in the order of their snapshots keep the log in order.
LEMMA LogOrderKept == UndoInv /\ LogOrder /\ [UndoNext]_undoVars => LogOrder'
  <1> SUFFICES ASSUME UndoInv, LogOrder, [UndoNext]_undoVars, (past \intersect {"missing", "broken"})' = {}
               PROVE  LogOrder'
    BY DEF LogOrder
  <1>0. /\ UndoTypeOK /\ (\A r \in Run : Kept(r)) /\ Once /\ Logged /\ order \in Seq(Ordered)
        /\ \A r \in InPlanner : before[r] # None
        /\ appending \subseteq ToSet(order)
        /\ \A i \in Results : log[i].id \in ToSet(order)
        /\ \A r \in Checkpoints : r \in appending \/ \E i \in Results : log[i].id = r
        /\ \A i, j \in Results : i < j => LaterThan(log[j].id, log[i].id)
        /\ \A i \in Results : \A r \in appending : LaterThan(r, log[i].id)
        /\ "missing" \notin past' /\ "broken" \notin past'
    BY PastGrows DEF UndoInv, UndoTypeOK, LogOrder, Ordered
  <1>1. ASSUME UNCHANGED <<log, order, appending>>, \A r \in InPlanner' : before'[r] # None
        PROVE  LogOrder'
    BY <1>0, <1>1 DEF LogOrder, Results, LaterThan, ToSet, Checkpoints
  <1>2. ASSUME UNCHANGED <<run, before>> PROVE \A r \in InPlanner' : before'[r] # None
    BY <1>0, <1>2 DEF InPlanner
  <1>3. ASSUME NEW r \in Run, Track(r) \/ Withdraw(r) \/ Start(r) \/ Settle(r) \/ ChildExits(r) PROVE LogOrder'
    <2>1. UNCHANGED <<log, order, appending>>
      BY <1>3 DEF request, Track, Withdraw, Start, Settle, ChildExits
    <2>2. ASSUME Start(r) PROVE \A s \in InPlanner' : before'[s] # None
      BY <1>0, <2>2 DEF request, UndoTypeOK, Start, Snapshot, Disturb, When, Goto, InPlanner
    <2>3. ASSUME ~Start(r) PROVE InPlanner' \subseteq InPlanner /\ UNCHANGED before
      BY <1>0, <1>3, <2>3 DEF request, UndoTypeOK, Track, Withdraw, Settle, ChildExits, Goto, InPlanner
    <2> QED BY <1>0, <1>1, <2>1, <2>2, <2>3
  <1>4. ASSUME NEW x \in Ordered, x \notin ToSet(order), order' = Append(order, x), UNCHANGED log,
               \A r \in InPlanner' : before'[r] # None,
               appending' = appending \union (Run \intersect {x})
        PROVE  LogOrder'
    <2>1. /\ ToSet(order)' = ToSet(order) \union {x}
          /\ \A y, z \in ToSet(order) : LaterThan(y, z)' <=> LaterThan(y, z)
          /\ \A y \in ToSet(order) : LaterThan(x, y)'
      BY <1>0, <1>4, OrderGrows
    <2>2. Results' = Results
      BY <1>4 DEF Results
    <2>3. \A i \in Results : \A r \in appending' : LaterThan(r, log[i].id)'
      BY <1>0, <1>4, <2>1
    <2>4. \A i, j \in Results : i < j => LaterThan(log[j].id, log[i].id)'
      <3>1. ASSUME NEW i \in Results, NEW j \in Results, i < j PROVE LaterThan(log[j].id, log[i].id)'
        <4>1. PICK y \in ToSet(order), z \in ToSet(order) : y = log[j].id /\ z = log[i].id /\ LaterThan(y, z)
          BY <1>0, <3>1
        <4>2. LaterThan(y, z)'
          BY <2>1, <4>1
        <4> QED BY <1>4, <4>1, <4>2
      <3> QED BY <3>1
    <2>5. \A r \in Checkpoints' : r \in appending' \/ \E i \in Results : log[i].id = r
      BY <1>0, <1>4, <2>1 DEF Checkpoints
    <2> HIDE DEF Results, LaterThan
    <2> QED BY <1>0, <1>4, <2>1, <2>2, <2>3, <2>4, <2>5 DEF LogOrder
  <1>5. ASSUME NEW r \in Run, AfterSnapshot(r) PROVE LogOrder'
    <2>1. r \in InPlanner /\ before[r] # None /\ r \notin ToSet(order)
      BY <1>0, <1>5 DEF request, AfterSnapshot, InPlanner, Kept
    <2>2. order' = Append(order, r) /\ UNCHANGED <<log, before>> /\ appending' = appending \union {r}
      BY <1>0, <1>5, <2>1 DEF request, AfterSnapshot, Snapshot, Disturb, When
    <2>3. InPlanner' \subseteq InPlanner
      BY <1>0, <1>5 DEF request, UndoTypeOK, AfterSnapshot, Goto, InPlanner
    <2> QED BY <1>0, <1>4, <2>1, <2>2, <2>3 DEF Ordered
  <1>6. ASSUME NEW c \in Commit, MakeCommit(c) PROVE LogOrder'
    <2>1. order' = Append(order, c) /\ UNCHANGED <<log, run, before, appending>> /\ c \notin ToSet(order)
      BY <1>6 DEF request, MakeCommit, task
    <2>2. c \in Ordered /\ c \notin Run
      BY TaskUndoAssumption DEF Ordered
    <2> QED BY <1>2, <1>4, <2>1, <2>2
  <1>7. ASSUME NEW r \in Run, LogResult(r) PROVE LogOrder'
    <2>1. PICK e \in Event : e.kind = "result" /\ e.id = r /\ log' = Append(log, e)
      BY <1>0, <1>7 DEF request, LogResult, Disturb, Event
    <2>2. PICK n \in Nat : /\ DOMAIN log' = DOMAIN log \union {n} /\ n \notin DOMAIN log /\ log'[n] = e
                          /\ \A i \in DOMAIN log : log'[i] = log[i] /\ i < n /\ i \in Nat
      <3>1. log \in Seq(Event)
        BY <1>0 DEF UndoTypeOK
      <3>2. \A i \in DOMAIN log : i < Len(log) + 1
        BY <3>1
      <3> QED BY <2>1, <3>1, <3>2, Appended
    <2>3. Results' = Results \union {n}
      BY <2>1, <2>2 DEF Results
    <2>4. Results \subseteq DOMAIN log
      BY DEF Results
    <2>5. UNCHANGED <<run, before, order>> /\ r \in appending /\ appending' = appending \ {r}
      BY <1>7 DEF request, LogResult
    <2>6. \A x \in appending' : LaterThan(x, r)
      <3>1. \A x \in appending : x # r => ~LaterThan(r, x)
        BY <1>0, <1>7, <2>1, <2>2 DEF request, LogResult, Disturb, When, UndoTypeOK
      <3> QED BY <1>0, <2>5, <3>1, OrderIsTotal
    <2>7. ToSet(order)' = ToSet(order) /\ \A x, y : LaterThan(x, y)' <=> LaterThan(x, y)
      BY <2>5 DEF ToSet, LaterThan
    <2>8. \A x \in Checkpoints' : x \in appending' \/ \E i \in Results' : log'[i].id = x
      <3>1. ASSUME NEW x \in Checkpoints, x \notin appending' PROVE \E i \in Results' : log'[i].id = x
        <4>1. CASE x = r
          BY <2>1, <2>2, <2>3, <4>1
        <4>2. CASE x # r
          <5>1. PICK i \in Results : log[i].id = x
            BY <1>0, <2>5, <3>1, <4>2
          <5> QED BY <2>2, <2>3, <2>4, <5>1
        <4> QED BY <4>1, <4>2
      <3> QED BY <2>7, <3>1 DEF Checkpoints
    <2>9. \A i, j \in Results' : i < j => LaterThan(log'[j].id, log'[i].id)
      <3>1. ASSUME NEW i \in Results', NEW j \in Results', i < j PROVE LaterThan(log'[j].id, log'[i].id)
        <4>1. i \in Results /\ log'[i] = log[i]
          BY <2>2, <2>3, <2>4, <3>1
        <4>2. CASE j = n
          BY <1>0, <2>1, <2>2, <2>5, <4>1, <4>2
        <4>3. CASE j \in Results
          BY <1>0, <2>2, <2>4, <3>1, <4>1, <4>3
        <4> QED BY <2>3, <4>2, <4>3
      <3> QED BY <3>1
    <2>10. \A i \in Results' : log'[i].id \in ToSet(order) /\ \A x \in appending' : LaterThan(x, log'[i].id)
      BY <1>0, <2>1, <2>2, <2>3, <2>4, <2>5, <2>6
    <2>11. (\A x \in InPlanner' : before'[x] # None) /\ appending' \subseteq ToSet(order)
      BY <1>0, <1>2, <2>5
    <2> HIDE DEF LaterThan, Results
    <2> QED BY <2>7, <2>8, <2>9, <2>10, <2>11 DEF LogOrder
  <1>8. ASSUME NEW u \in Request, RecordUndo(u) PROVE LogOrder'
    <2>1. target[u] \in Run
      BY <1>0, <1>8 DEF UndoInv, UndoTypeOK, Targets, RecordUndo, AtWork
    <2>2. PICK e \in Event : e.kind = "undo" /\ log' = Append(log, e)
      BY <1>8, <2>1 DEF RecordUndo, Event
    <2>3. PICK n \in Nat : /\ DOMAIN log' = DOMAIN log \union {n} /\ n \notin DOMAIN log /\ log'[n] = e
                          /\ \A i \in DOMAIN log : log'[i] = log[i]
      BY <1>0, <2>2, Appended DEF UndoTypeOK
    <2>4. Results' = Results /\ \A i \in Results : log'[i] = log[i]
      BY <2>2, <2>3 DEF Results
    <2>5. UNCHANGED <<run, before, order, appending>>
      BY <1>8 DEF RecordUndo, task
    <2>6. ToSet(order)' = ToSet(order) /\ \A x, y : LaterThan(x, y)' <=> LaterThan(x, y)
      BY <2>5 DEF ToSet, LaterThan
    <2>7. (\A x \in InPlanner' : before'[x] # None) /\ Checkpoints' = Checkpoints
      BY <1>0, <1>2, <2>5, <2>6 DEF Checkpoints
    <2> HIDE DEF LaterThan, Results, Checkpoints
    <2> QED BY <1>0, <2>4, <2>5, <2>6, <2>7 DEF LogOrder
  <1>9. ASSUME UNCHANGED <<log, order, appending, run, before>> PROVE LogOrder'
    BY <1>1, <1>2, <1>9
  <1>10. ASSUME NEW u \in Request, \/ Check(u) \/ Find(u) \/ Decide(u) \/ Restore(u) \/ Delete(u) \/ UndoFails(u)
         PROVE  UNCHANGED <<log, order, appending, run, before>>
    BY <1>10 DEF PutBack, Check, Find, Decide, Restore, Delete, UndoFails, task
  <1>11. ASSUME NEW r \in Run, NEW f \in File, Edit(r, f) PROVE UNCHANGED <<log, order, appending, run, before>>
    BY <1>11 DEF Foreign, Edit, task
  <1>12. ASSUME NEW f \in File, UserEdit(f) PROVE UNCHANGED <<log, order, appending, run, before>>
    BY <1>12 DEF Foreign, UserEdit, task
  <1>13. ~Crash
    BY <1>0 DEF Crash, Disturb
  <1>14. CASE UNCHANGED undoVars
    BY <1>9, <1>14 DEF request, undoVars, task
  <1> QED BY <1>3, <1>5, <1>6, <1>7, <1>8, <1>9, <1>10, <1>11, <1>12, <1>13, <1>14 DEF UndoNext

\* When no append is on its way, the newest standing run is what the log says.
LEMMA FindsNewest ==
    ASSUME UndoInv, LogOrder, past \intersect {"missing", "broken"} = {}, appending = {}
    PROVE  IF LatestUndoable = None THEN StandingRuns = {} ELSE LatestUndoable \in Latest(StandingRuns)
  <1> DEFINE taken == {log[i].id : i \in {j \in DOMAIN log : log[j].kind = "undo"}}
             found == {i \in DOMAIN log : /\ log[i].kind = "result" /\ after[log[i].id] # None
                                        /\ log[i].id \notin taken}
  <1>0. /\ UndoTypeOK /\ (\A r \in Run : Kept(r)) /\ Once /\ Logged /\ order \in Seq(Ordered)
        /\ \A i \in Results : log[i].id \in ToSet(order)
        /\ \A r \in Checkpoints : \E i \in Results : log[i].id = r
        /\ \A i, j \in Results : i < j => LaterThan(log[j].id, log[i].id)
    BY DEF UndoInv, UndoTypeOK, LogOrder, Ordered
  <1>a. \A i \in DOMAIN log : log[i].id \in Run /\ log[i].kind \in {"result", "undo"} /\ i \in Nat
    <2>1. ASSUME NEW i \in DOMAIN log
          PROVE  log[i].id \in Run /\ log[i].kind \in {"result", "undo"} /\ i \in Nat
      <3>1. log \in Seq(Event)
        BY <1>0 DEF UndoTypeOK
      <3>2. log[i] \in Event /\ i \in Nat
        BY <3>1
      <3> QED BY <3>2 DEF Event
    <2> QED BY <2>1
  <1>1. taken = Run \intersect undone
    <2>1. {j \in DOMAIN log : log[j].kind = "undo"} = DOMAIN log \ Results
      BY <1>a DEF Results
    <2>2. \A j \in DOMAIN log \ Results : log[j].id \in Run \intersect undone
      BY <1>0, <1>a DEF Logged
    <2>3. \A r \in Run \intersect undone : \E j \in DOMAIN log \ Results : log[j].id = r
      BY <1>0 DEF Logged
    <2> HIDE DEF Results
    <2> QED BY <2>1, <2>2, <2>3
  <1>2. found = {i \in Results : log[i].id \in StandingRuns}
    <2> HIDE DEF taken
    <2>1. \A i \in Results : after[log[i].id] # None /\ log[i].id \in ToSet(order) /\ log[i].id \in Run
      BY <1>0, <1>a DEF Kept, Results
    <2>2. \A i \in Results : log[i].id \notin taken <=> log[i].id \in StandingRuns
      BY <1>1, <2>1 DEF StandingRuns, Standing
    <2> QED BY <2>1, <2>2 DEF Results
  <1>3. \A r \in StandingRuns : \E i \in found : log[i].id = r
    BY <1>0, <1>2 DEF Checkpoints, StandingRuns, Standing
  <1>4. CASE found = {}
    <2>1. LatestUndoable = None
      BY <1>4 DEF LatestUndoable
    <2>2. StandingRuns = {}
      <3> HIDE DEF found
      <3> QED BY <1>3, <1>4
    <2> QED BY <2>1, <2>2
  <1>5. CASE found # {}
    <2>1. PICK k \in found : \A j \in found : j <= k
      <3>1. \E x \in StandingRuns : x \in Latest(StandingRuns)
        <4>1. StandingRuns # {} /\ StandingRuns \subseteq ToSet(order)
          <5> HIDE DEF found
          <5> QED BY <1>2, <1>5 DEF StandingRuns, Standing
        <4>2. Latest(StandingRuns) \subseteq StandingRuns
          BY DEF Latest
        <4> QED BY <1>0, <4>1, <4>2, NewestExists
      <3>2. PICK i \in found : log[i].id \in Latest(StandingRuns)
        <4> HIDE DEF found
        <4> QED BY <1>3, <3>1
      <3>3. ASSUME NEW j \in found PROVE j <= i
        <4> HIDE DEF found
        <4>1. i \in Results /\ j \in Results /\ i \in Nat /\ j \in Nat
          BY <1>2, <1>a DEF Results
        <4>2. ASSUME i < j PROVE FALSE
          <5>1. LaterThan(log[j].id, log[i].id) /\ log[i].id \in ToSet(order) /\ log[j].id \in ToSet(order)
            BY <1>0, <4>1, <4>2
          <5>2. log[j].id = log[i].id \/ LaterThan(log[i].id, log[j].id)
            BY <1>2, <3>2 DEF Latest
          <5> QED BY <1>0, <5>1, <5>2, OrderIsTotal
        <4> QED BY <4>1, <4>2
      <3> QED BY <3>3
    <2> DEFINE newest == CHOOSE i \in found : \A j \in found : j <= i
    <2>2. newest \in found /\ \A j \in found : j <= newest
      <3> HIDE DEF found
      <3> QED BY <2>1
    <2>3. LatestUndoable = log[newest].id
      BY <1>5 DEF LatestUndoable
    <2> HIDE DEF newest, found
    <2>4. newest \in Results /\ log[newest].id \in StandingRuns /\ newest \in Nat
      BY <1>2, <1>a, <2>2 DEF Results
    <2>5. ASSUME NEW s \in StandingRuns \ {log[newest].id} PROVE LaterThan(log[newest].id, s)
      <3>1. PICK j \in found : log[j].id = s
        BY <1>3
      <3>2. j \in Results /\ j \in Nat /\ j <= newest /\ j # newest
        BY <1>2, <1>a, <2>2, <2>5, <3>1 DEF Results
      <3> QED BY <1>0, <2>4, <3>1, <3>2
    <2>6. log[newest].id # None
      BY <2>4, TaskUndoAssumption DEF StandingRuns
    <2> QED BY <2>3, <2>4, <2>5, <2>6 DEF Latest
  <1> QED BY <1>4, <1>5

\* Nothing joins or leaves the order while an undo holds its plan.
LEMMA TargetKeptNewest == UndoInv /\ Alone /\ LogOrder /\ TargetIsNewest /\ [UndoNext]_undoVars => TargetIsNewest'
  <1> SUFFICES ASSUME UndoInv, Alone, LogOrder, TargetIsNewest, [UndoNext]_undoVars, past' \subseteq {"foreign", "mixed"},
                      NEW v \in Request, undo'[v] = "found" \/ AtWork(v)'
               PROVE  IF target'[v] = None THEN StandingRuns' = {} ELSE target'[v] \in Latest(StandingRuns)'
    BY DEF TargetIsNewest
  <1>0. /\ UndoTypeOK /\ (Undoing = {} \/ Tracked = {}) /\ (\A u, w \in Undoing : u = w)
        /\ \A d \in {"missing", "broken", "overlap"} : d \notin past /\ d \notin past'
        /\ (undo[v] = "found" \/ AtWork(v) =>
               IF target[v] = None THEN StandingRuns = {} ELSE target[v] \in Latest(StandingRuns))
    BY PastGrows DEF UndoInv, Alone, TargetIsNewest
  <1>1. ASSUME UNCHANGED <<order, undone>>
        PROVE  StandingRuns' = StandingRuns /\ Latest(StandingRuns)' = Latest(StandingRuns)
    BY <1>1 DEF StandingRuns, Standing, Latest, LaterThan, ToSet
  <1>2. ASSUME UNCHANGED <<order, undone>>, target'[v] = target[v], undo[v] = "found" \/ AtWork(v)
        PROVE  IF target'[v] = None THEN StandingRuns' = {} ELSE target'[v] \in Latest(StandingRuns)'
    BY <1>0, <1>1, <1>2
  <1>3. v \in Undoing'
    BY DEF Undoing, AtWork
  <1>4. ASSUME UNCHANGED <<undo, target, order, undone>>
        PROVE  IF target'[v] = None THEN StandingRuns' = {} ELSE target'[v] \in Latest(StandingRuns)'
    BY <1>2, <1>4 DEF AtWork
  <1>5. ASSUME NEW r \in Run, \/ Track(r) \/ Withdraw(r) \/ Start(r) \/ Settle(r) \/ ChildExits(r) \/ LogResult(r)
                             \/ \E f \in File : Edit(r, f)
        PROVE  UNCHANGED <<undo, target, order, undone>>
    BY <1>5 DEF request, Foreign, Track, Withdraw, Start, Settle, ChildExits, LogResult, Edit, task
  <1>6. ASSUME NEW f \in File, UserEdit(f) PROVE UNCHANGED <<undo, target, order, undone>>
    BY <1>6 DEF Foreign, UserEdit, task
  <1>7. ASSUME NEW r \in Run, AfterSnapshot(r) PROVE FALSE
    BY <1>0, <1>3, <1>7 DEF request, AfterSnapshot, Undoing, Tracked
  <1>8. ASSUME NEW c \in Commit, MakeCommit(c) PROVE FALSE
    BY <1>0, <1>3, <1>8 DEF request, MakeCommit, Undoing, Disturb, When
  <1>9. ASSUME NEW u \in Undoing, undo' = [undo EXCEPT ![u] = "idle"] PROVE FALSE
    BY <1>0, <1>3, <1>9 DEF Undoing, UndoTypeOK
  <1>10. ASSUME NEW u \in Request, Check(u)
         PROVE  UNCHANGED <<target, order, undone>> /\ (undo[v] = "found" \/ AtWork(v))
    BY <1>0, <1>10 DEF Check, Step, UndoTypeOK, AtWork, task
  <1>11. ASSUME NEW u \in Request, Find(u)
         PROVE  IF target'[v] = None THEN StandingRuns' = {} ELSE target'[v] \in Latest(StandingRuns)'
    <2>1. v = u /\ UNCHANGED <<order, undone>> /\ appending = {}
      BY <1>0, <1>3, <1>11 DEF Find, Step, UndoTypeOK, Undoing, Disturb, When, task
    <2>2. target'[v] = LatestUndoable
      BY <1>0, <1>11, <2>1 DEF Find, UndoTypeOK
    <2> QED BY <1>0, <1>1, <2>1, <2>2, FindsNewest
  <1>12. ASSUME NEW u \in Request, Decide(u), ~AnswerRequest(u)
         PROVE  UNCHANGED <<target, order, undone>> /\ (undo[v] = "found" \/ AtWork(v))
    BY <1>0, <1>12 DEF Decide, Step, UndoTypeOK, AtWork, task
  <1>13. ASSUME NEW u \in Request, Restore(u) \/ Delete(u)
         PROVE  UNCHANGED <<target, order, undone>> /\ (undo[v] = "found" \/ AtWork(v))
    BY <1>0, <1>13 DEF PutBack, Restore, Delete, Step, UndoTypeOK, AtWork, task
  <1>14. ASSUME NEW u \in Request, Decide(u) \/ RecordUndo(u) \/ UndoFails(u), AnswerRequest(u) PROVE FALSE
    BY <1>9, <1>14 DEF Decide, RecordUndo, UndoFails, AnswerRequest, Step, Undoing
  <1>15. ~Crash
    BY <1>0 DEF Crash, Disturb
  <1>16. ASSUME NEW u \in Request, RecordUndo(u) \/ UndoFails(u) PROVE AnswerRequest(u)
    BY <1>16 DEF RecordUndo, UndoFails
  <1>17. CASE UNCHANGED undoVars
    BY <1>4, <1>17 DEF request, undoVars
  <1> QED BY <1>2, <1>4, <1>5, <1>6, <1>7, <1>8, <1>10, <1>11, <1>12, <1>13, <1>14, <1>15, <1>16, <1>17 DEF UndoNext

\* The log and the order are empty at first.
LEMMA InitNewestInv == UndoInit => NewestInv
  <1> SUFFICES ASSUME UndoInit PROVE NewestInv
    OBVIOUS
  <1>1. InPlanner = {} /\ Undoing = {} /\ appending = {} /\ Results = {} /\ Checkpoints = {}
    BY DEF UndoInit, InPlanner, Undoing, Results, Checkpoints, ToSet
  <1>2. \A u \in Request : undo[u] = "idle"
    BY DEF UndoInit
  <1>3. LogOrder
    BY <1>1 DEF LogOrder
  <1> QED BY <1>1, <1>2, <1>3, InitUndoInv DEF NewestInv, Alone, TargetIsNewest, AtWork

\* The log and the plans follow the order of the snapshots.
LEMMA NewestInvKept == NewestInv /\ [UndoNext]_undoVars => NewestInv'
  BY UndoInvKept, AloneKept, LogOrderKept, TargetKeptNewest DEF NewestInv

\* ApplicationService undoes the newest of all tasks and commits that stand,
\* whichever file it is recorded in.
THEOREM UndosGoBackwards == UndoSpec => UndoIsOfTheNewest
  <1>1. NewestInv =>
           [\A u \in Request : Decide(u) /\ past \subseteq {"foreign", "mixed"} =>
              /\ undone' \subseteq undone \union Latest(Standing)
              /\ undo'[u] = "ready" => target[u] \in Latest(Standing)]_undoVars
    <2> SUFFICES ASSUME NewestInv, NEW u \in Request, Decide(u), past \subseteq {"foreign", "mixed"}
                 PROVE  /\ undone' \subseteq undone \union Latest(Standing)
                        /\ undo'[u] = "ready" => target[u] \in Latest(Standing)
      OBVIOUS
    <2>0. UndoTypeOK /\ Once /\ order \in Seq(Ordered)
      BY DEF NewestInv, UndoInv, UndoTypeOK, Ordered
    <2>1. IF target[u] = None THEN StandingRuns = {} ELSE target[u] \in Latest(StandingRuns)
      BY DEF NewestInv, TargetIsNewest, Decide
    <2>2. Standing \subseteq ToSet(order) /\ Standing = StandingRuns \union (Commit \intersect Standing)
      <3>1. ToSet(order) \subseteq Ordered
        BY <2>0 DEF ToSet
      <3> QED BY <3>1 DEF Standing, StandingRuns, Ordered
    <2>3. ASSUME NEW c \in LatestCommit, PrefersCommit(c, target[u]) PROVE c \in Latest(Standing)
      <3>1. c \in Standing /\ \A d \in (Commit \intersect Standing) \ {c} : LaterThan(c, d)
        BY DEF LatestCommit, Latest
      <3>2. ASSUME NEW y \in StandingRuns PROVE LaterThan(c, y)
        <4>1. target[u] \in Standing /\ (y = target[u] \/ LaterThan(target[u], y)) /\ y \in Standing
          BY <2>1, <2>2 DEF Latest
        <4>2. LaterThan(c, target[u])
          BY <2>3 DEF PrefersCommit
        <4> QED BY <2>0, <2>2, <3>1, <4>1, <4>2, OrderIsTotal
      <3> QED BY <2>2, <3>1, <3>2 DEF Latest
    <2>4. ASSUME \A c \in LatestCommit : ~PrefersCommit(c, target[u]), target[u] # None
          PROVE  target[u] \in Latest(Standing)
      <3> DEFINE t == target[u]
      <3>1. t \in StandingRuns /\ \A y \in StandingRuns \ {t} : LaterThan(t, y)
        BY <2>1, <2>4 DEF Latest
      <3>2. ASSUME NEW d \in Commit \intersect Standing PROVE LaterThan(t, d)
        <4>1. PICK c \in LatestCommit : TRUE
          <5>1. LatestCommit # {}
            BY <2>0, <2>2, NewestExists DEF LatestCommit
          <5> QED BY <5>1
        <4>2. c \in Commit /\ c \in Standing /\ (c = d \/ LaterThan(c, d))
          BY DEF LatestCommit, Latest
        <4>3. ~LaterThan(c, t) /\ c # t
          BY <2>4, <3>1, <4>2, TaskUndoAssumption DEF PrefersCommit, StandingRuns
        <4>4. LaterThan(t, c)
          BY <2>0, <2>2, <3>1, <4>2, <4>3, OrderIsTotal
        <4> HIDE DEF t
        <4> QED BY <2>0, <2>2, <3>1, <4>2, <4>4, OrderIsTotal
      <3> QED BY <2>2, <3>1, <3>2 DEF Latest
    <2>5. CASE \E c \in LatestCommit : PrefersCommit(c, target[u]) /\ undone' = undone \union {c} /\ AnswerRequest(u)
      BY <2>0, <2>3, <2>5 DEF UndoTypeOK, AnswerRequest, Step
    <2>6. CASE (\A c \in LatestCommit : ~PrefersCommit(c, target[u])) /\ UNCHANGED undone
                  /\ (AnswerRequest(u) \/ target[u] # None)
      BY <2>0, <2>4, <2>6 DEF UndoTypeOK, AnswerRequest, Step
    <2> QED BY <2>5, <2>6 DEF Decide
  <1> QED BY <1>1, InitNewestInv, NewestInvKept, PTL DEF UndoSpec, UndoIsOfTheNewest
-----------------------------------------------------------------------------
\* What a run left stays so while the runs and their order do.
LEMMA LeftBySame ==
    ASSUME NEW S, NEW content, LeftBy(S, content), S \subseteq Checkpoints, Checkpoints' = Checkpoints,
           \A r \in Checkpoints : before'[r] = before[r] /\ after'[r] = after[r],
           \A x, y \in Checkpoints : LaterThan(x, y)' <=> LaterThan(x, y)
    PROVE  LeftBy(S, content)'
  <1> HIDE DEF LaterThan, Checkpoints
  <1>1. Latest(S)' = Latest(S)
    BY DEF Latest
  <1>2. Latest(S) \subseteq Checkpoints
    BY DEF Latest
  <1>3. \A r \in Latest(S)' : content = after'[r]
    BY <1>1, <1>2 DEF LeftBy
  <1>4. ASSUME S = {}, NEW r \in Checkpoints', \A s \in Checkpoints' : s = r \/ LaterThan(s, r)'
        PROVE  content = before'[r]
    BY <1>4 DEF LeftBy
  <1> QED BY <1>3, <1>4 DEF LeftBy

\* A run at the end of the order is not what the others found.
LEMMA LeftByGrows ==
    ASSUME NEW S, NEW content, LeftBy(S, content), S \subseteq Checkpoints,
           NEW r \in Run, Checkpoints' = Checkpoints \union {r}, r \notin Checkpoints,
           \A s \in Checkpoints : before'[s] = before[s] /\ after'[s] = after[s],
           \A x, y \in Checkpoints : LaterThan(x, y)' <=> LaterThan(x, y),
           \A y \in Checkpoints : ~LaterThan(y, r)',
           Checkpoints = {} => content = before'[r]
    PROVE  LeftBy(S, content)'
  <1> HIDE DEF LaterThan, Checkpoints
  <1>1. Latest(S)' = Latest(S)
    BY DEF Latest
  <1>2. Latest(S) \subseteq Checkpoints
    BY DEF Latest
  <1>3. \A s \in Latest(S)' : content = after'[s]
    BY <1>1, <1>2 DEF LeftBy
  <1>4. ASSUME S = {}, NEW x \in Checkpoints', \A s \in Checkpoints' : s = x \/ LaterThan(s, x)'
        PROVE  content = before'[x]
    <2>1. CASE x = r
      BY <1>4, <2>1
    <2>2. CASE x \in Checkpoints
      BY <1>4, <2>2 DEF LeftBy
    <2> QED BY <2>1, <2>2
  <1> QED BY <1>3, <1>4 DEF LeftBy

\* Each step of a task adds a link at the end, each step of an undo goes back
\* over the last, and nothing else touches the chain.
LEMMA ChainKept == ChainInv /\ [UndoNext]_undoVars => Chain'
  <1> SUFFICES ASSUME ChainInv, [UndoNext]_undoVars, past' = {}
               PROVE  Links' /\ Starts' /\ Ends' /\ Halfway'
    BY DEF Chain
  <1> DEFINE Goal == Links' /\ Starts' /\ Ends' /\ Halfway'
  <1>0. /\ past = {} /\ UndoTypeOK /\ (\A r \in Run : Kept(r)) /\ Once /\ order \in Seq(Ordered)
        /\ Links /\ Starts /\ Ends /\ Halfway
        /\ (Undoing = {} \/ Tracked = {}) /\ (\A u, v \in Undoing : u = v)
        /\ \A r, s \in InPlanner : r = s
        /\ \A r \in InPlanner : before[r] # None
        /\ \A u \in Request : AtWork(u) => target[u] \in Latest(StandingRuns)
    BY PastGrows DEF ChainInv, NewestInv, UndoInv, UndoTypeOK, Ordered, Alone, OwnWrites, OwnEdits, LogOrder, Chain,
                     TargetIsNewest, Targets
  <1>a. StandingRuns \subseteq Checkpoints /\ (\A r : Below(r) \subseteq Checkpoints) /\ InPlanner \subseteq Tracked
    BY DEF StandingRuns, Standing, Checkpoints, Below, InPlanner, Tracked
  <1>b. \A u \in Request : HalfDone(u) => u \in Undoing
    BY DEF HalfDone, Undoing
  <1>1. ASSUME StandingRuns' = StandingRuns, Checkpoints' = Checkpoints,
               \A r \in Checkpoints : before'[r] = before[r] /\ after'[r] = after[r],
               \A x, y \in Checkpoints : LaterThan(x, y)' <=> LaterThan(x, y)
        PROVE  Links' /\ \A content : LeftBy(StandingRuns, content) => LeftBy(StandingRuns, content)'
    <2>1. ASSUME NEW r \in StandingRuns' PROVE LeftBy(Below(r), before[r])'
      <3>1. Below(r)' = Below(r) /\ before'[r] = before[r] /\ r \in StandingRuns
        BY <1>1, <1>a DEF Below
      <3>2. PICK S, content : S = Below(r) /\ content = before[r]
        OBVIOUS
      <3>3. LeftBy(S, content) /\ S \subseteq Checkpoints
        BY <1>0, <1>a, <3>1, <3>2 DEF Links
      <3>4. LeftBy(S, content)'
        BY <1>1, <3>3, LeftBySame
      <3> QED BY <3>1, <3>2, <3>4
    <2>2. ASSUME NEW content, LeftBy(StandingRuns, content) PROVE LeftBy(StandingRuns, content)'
      <3>1. PICK S : S = StandingRuns
        OBVIOUS
      <3>2. LeftBy(S, content)'
        BY <1>1, <1>a, <2>2, <3>1, LeftBySame
      <3> QED BY <1>1, <3>1, <3>2
    <2> QED BY <2>1, <2>2 DEF Links
  <1>2. ASSUME UNCHANGED <<order, before, after>> 
        PROVE  Checkpoints' = Checkpoints /\ \A x, y : LaterThan(x, y)' <=> LaterThan(x, y)
    BY <1>2 DEF Checkpoints, LaterThan, ToSet
  <1>3. ASSUME UNCHANGED <<tree, before, after, order>>, StandingRuns' = StandingRuns, InPlanner' = InPlanner,
               \A u \in Request : HalfDone(u)' \/ HalfDone(u) => undo'[u] = undo[u] /\ target'[u] = target[u]
        PROVE  Goal
    <2>1. Links' /\ \A content : LeftBy(StandingRuns, content) => LeftBy(StandingRuns, content)'
      BY <1>1, <1>2, <1>3
    <2>2. Starts'
      <3>1. ASSUME NEW r \in InPlanner' PROVE LeftBy(StandingRuns, before[r])'
        <4>1. PICK content : content = before[r]
          OBVIOUS
        <4>2. LeftBy(StandingRuns, content)
          BY <1>0, <1>3, <3>1, <4>1 DEF Starts
        <4>3. LeftBy(StandingRuns, content)' /\ before'[r] = content
          BY <1>3, <2>1, <4>1, <4>2
        <4> QED BY <4>3
      <3> QED BY <3>1 DEF Starts
    <2>3. Ends'
      <3>1. ASSUME InPlanner' = {}, \A u \in Request : ~HalfDone(u)' PROVE LeftBy(StandingRuns, tree)'
        <4>1. PICK content : content = tree
          OBVIOUS
        <4>2. LeftBy(StandingRuns, content)
          <5>1. \A u \in Request : ~HalfDone(u)
            BY <1>3, <3>1 DEF HalfDone
          <5> QED BY <1>0, <1>3, <3>1, <4>1, <5>1 DEF Ends
        <4>3. LeftBy(StandingRuns, content)' /\ tree' = content
          BY <1>3, <2>1, <4>1, <4>2
        <4> QED BY <4>3
      <3> QED BY <3>1 DEF Ends
    <2>4. Halfway'
      BY <1>0, <1>3 DEF Halfway, HalfDone, ToDelete, Changed
    <2> QED BY <2>1, <2>2, <2>3, <2>4
  <1>4. ASSUME UNCHANGED <<order, undone>> PROVE StandingRuns' = StandingRuns
    BY <1>4 DEF StandingRuns, Standing, ToSet
  <1>5. ASSUME NEW r \in Run, Track(r) \/ Withdraw(r) \/ Settle(r) \/ ChildExits(r) \/ LogResult(r) PROVE Goal
    <2>1. UNCHANGED <<tree, before, after, order, undone, undo, target>>
      BY <1>5 DEF request, Track, Withdraw, Settle, ChildExits, LogResult
    <2>2. InPlanner' = InPlanner
      BY <1>0, <1>5 DEF request, UndoTypeOK, Track, Withdraw, Settle, ChildExits, LogResult, Goto, InPlanner
    <2> QED BY <1>3, <1>4, <2>1, <2>2
  <1>6. ASSUME NEW u \in Request, Check(u) \/ Find(u) \/ Decide(u) \/ UndoFails(u) PROVE Goal
    <2>1. UNCHANGED <<tree, run, before, after, order>>
      BY <1>6 DEF Check, Find, Decide, UndoFails, task
    <2>2. StandingRuns' = StandingRuns
      BY <1>4, <1>6, TaskUndoAssumption DEF Check, Find, Decide, UndoFails, StandingRuns, Standing, LatestCommit, Latest, ToSet
    <2>3. ~HalfDone(u) /\ ~HalfDone(u)'
      BY <1>0, <1>6 DEF UndoTypeOK, Check, Find, Decide, UndoFails, AnswerRequest, Step, Disturb, When, HalfDone
    <2>4. \A v \in Request \ {u} : undo'[v] = undo[v] /\ target'[v] = target[v]
      BY <1>0, <1>6 DEF UndoTypeOK, Check, Find, Decide, UndoFails, AnswerRequest, Step
    <2> QED BY <1>3, <2>1, <2>2, <2>3, <2>4 DEF InPlanner
  <1>7. ASSUME NEW r \in Run, Start(r) PROVE Goal
    <2>a. run[r] = "tracked" /\ before[r] = None /\ after[r] = None /\ r \notin InPlanner /\ r \in Tracked
      BY <1>0, <1>7 DEF request, Start, Kept, InPlanner, Tracked
    <2>b. before'[r] # None /\ InPlanner \ {r} = {}
      BY <1>7 DEF request, Start, Snapshot, Disturb, When
    <2>1. InPlanner = {} /\ InPlanner' = {r} /\ Undoing = {} /\ r \notin Checkpoints
      <3>1. run' = [run EXCEPT ![r] = "executing"]
        BY <1>7 DEF request, Start, Goto
      <3>2. InPlanner' = InPlanner \union {r}
        BY <1>0, <3>1 DEF UndoTypeOK, InPlanner
      <3>3. r \notin Checkpoints
        BY <1>0, <2>a DEF Kept, Checkpoints
      <3> QED BY <1>0, <2>a, <2>b, <3>2, <3>3
    <2>2. before'[r] = tree /\ UNCHANGED <<order, undone, tree, after, undo, target>> /\ \A s \in Run \ {r} : before'[s] = before[s]
      BY <1>0, <1>7, <2>a, <2>b DEF request, UndoTypeOK, Start, Snapshot
    <2>3. Checkpoints' = Checkpoints /\ (\A x, y : LaterThan(x, y)' <=> LaterThan(x, y)) /\ StandingRuns' = StandingRuns
      BY <1>4, <2>2 DEF Checkpoints, LaterThan, ToSet
    <2>4. \A s \in Checkpoints : before'[s] = before[s] /\ after'[s] = after[s]
      BY <2>1, <2>2 DEF Checkpoints
    <2>5. Links' /\ \A content : LeftBy(StandingRuns, content) => LeftBy(StandingRuns, content)'
      BY <1>1, <2>3, <2>4
    <2>6. PICK content : content = tree
      OBVIOUS
    <2>7. LeftBy(StandingRuns, content)
      BY <1>0, <1>b, <2>1, <2>6 DEF Ends
    <2>8. LeftBy(StandingRuns, content)' /\ before'[r] = content
      BY <2>2, <2>5, <2>6, <2>7
    <2>9. Starts'
      BY <2>1, <2>8 DEF Starts
    <2>10. Ends' /\ Halfway'
      BY <2>1, <2>2 DEF Ends, Halfway, Undoing
    <2> QED BY <2>5, <2>9, <2>10
  <1>8. ASSUME NEW r \in Run, NEW f \in File, Edit(r, f) PROVE Goal
    <2>1. r \in InPlanner
      BY <1>0, <1>8 DEF Foreign, Kept, Edit, Disturb, When, InPlanner
    <2>2. Undoing = {} /\ UNCHANGED <<run, before, after, order, undone, undo, target>>
      BY <1>0, <1>8, <1>a, <2>1 DEF Foreign, Edit, task
    <2>3. Links' /\ \A content : LeftBy(StandingRuns, content) => LeftBy(StandingRuns, content)'
      BY <1>1, <1>2, <1>4, <2>2
    <2>4. InPlanner' = InPlanner
      BY <2>2 DEF InPlanner
    <2>5. Starts'
      <3>1. ASSUME NEW s \in InPlanner' PROVE LeftBy(StandingRuns, before[s])'
        <4>1. PICK content : content = before[s]
          OBVIOUS
        <4>2. LeftBy(StandingRuns, content)
          BY <1>0, <2>4, <3>1, <4>1 DEF Starts
        <4>3. LeftBy(StandingRuns, content)' /\ before'[s] = content
          BY <2>2, <2>3, <4>1, <4>2
        <4> QED BY <4>3
      <3> QED BY <3>1 DEF Starts
    <2>6. Ends' /\ Halfway'
      BY <2>1, <2>2, <2>4 DEF Ends, Halfway, Undoing
    <2> QED BY <2>3, <2>5, <2>6
  <1>9. ASSUME NEW f \in File, UserEdit(f) PROVE FALSE
    BY <1>9 DEF Foreign, UserEdit, Disturb
  <1>10. ASSUME NEW r \in Run, AfterSnapshot(r) PROVE Goal
    <2>1. r \in InPlanner /\ before[r] # None /\ r \notin Checkpoints /\ r \notin ToSet(order) /\ Undoing = {}
      BY <1>0, <1>10 DEF request, AfterSnapshot, InPlanner, Kept, Checkpoints, Tracked
    <2>2. after'[r] = tree /\ after'[r] # None /\ UNCHANGED <<tree, before, undone, undo, target>> /\ \A s \in Run \ {r} : after'[s] = after[s]
      <3>1. after[r] = None
        BY <1>0, <1>10 DEF request, AfterSnapshot, Kept
      <3>2. Snapshot(r, after)
        BY <1>10, <2>1 DEF request, AfterSnapshot
      <3>3. after'[r] # None
        BY <3>2 DEF Snapshot, Disturb, When
      <3> QED BY <1>0, <1>10, <3>1, <3>2, <3>3 DEF request, UndoTypeOK, AfterSnapshot, Snapshot
    <2>3. order' = Append(order, r) /\ r \in Ordered
      BY <1>10, <2>2 DEF request, AfterSnapshot, Ordered
    <2>4. /\ ToSet(order)' = ToSet(order) \union {r}
          /\ \A y, z \in ToSet(order) : LaterThan(y, z)' <=> LaterThan(y, z)
          /\ \A y \in ToSet(order) : LaterThan(r, y)' /\ ~LaterThan(y, r)'
      BY <1>0, <2>1, <2>3, OrderGrows
    <2>5. Checkpoints' = Checkpoints \union {r} /\ StandingRuns' = StandingRuns \union {r} /\ Checkpoints \subseteq ToSet(order)
      BY <1>0, <2>1, <2>2, <2>4 DEF Checkpoints, StandingRuns, Standing, UndoTypeOK
    <2>6. InPlanner' = {}
      BY <1>0, <1>10, <2>1 DEF request, UndoTypeOK, AfterSnapshot, Goto, InPlanner
    <2>7. \A s \in Checkpoints : before'[s] = before[s] /\ after'[s] = after[s]
      BY <2>1, <2>2 DEF Checkpoints
    <2>8. ASSUME NEW S, NEW content, LeftBy(S, content), S \subseteq Checkpoints, Checkpoints = {} => content = before'[r]
          PROVE  LeftBy(S, content)'
      <3> HIDE DEF LeftBy, LaterThan, Checkpoints
      <3> QED BY <2>1, <2>4, <2>5, <2>7, <2>8, LeftByGrows
    <2>9. Links'
      <3>1. ASSUME NEW s \in StandingRuns' PROVE LeftBy(Below(s), before[s])'
        <4>1. PICK content : content = before[s] /\ content = before'[s]
          BY <2>2
        <4>2. CASE s = r
          <5>1. Below(r)' = StandingRuns
            BY <1>a, <2>1, <2>4, <2>5 DEF Below
          <5>2. PICK S : S = StandingRuns
            OBVIOUS
          <5>3. LeftBy(S, content)
            BY <1>0, <2>1, <4>1, <4>2, <5>2 DEF Starts
          <5>4. LeftBy(S, content)'
            BY <1>a, <2>8, <4>1, <4>2, <5>2, <5>3
          <5> QED BY <4>1, <4>2, <5>1, <5>2, <5>4
        <4>3. CASE s # r
          <5>1. s \in StandingRuns /\ Below(s)' = Below(s)
            BY <1>a, <2>1, <2>4, <2>5, <4>3 DEF Below
          <5>2. PICK S : S = Below(s)
            OBVIOUS
          <5>3. LeftBy(S, content)
            BY <1>0, <4>1, <5>1, <5>2 DEF Links
          <5>4. LeftBy(S, content)'
            BY <1>a, <2>8, <5>1, <5>2, <5>3
          <5> QED BY <4>1, <5>1, <5>2, <5>4
        <4> QED BY <4>2, <4>3
      <3> QED BY <3>1 DEF Links
    <2>10. Starts' /\ Halfway'
      BY <2>1, <2>2, <2>6 DEF Starts, Halfway, Undoing
    <2>11. Ends'
      <3>1. \A x \in Latest(StandingRuns)' : x = r
        <4>1. ASSUME NEW x \in Latest(StandingRuns)', x # r PROVE FALSE
          <5>1. LaterThan(x, r)' /\ x \in StandingRuns'
            BY <2>5, <4>1 DEF Latest
          <5> QED BY <1>a, <2>4, <2>5, <4>1, <5>1
        <4> QED BY <4>1
      <3>2. StandingRuns' # {}
        BY <2>5
      <3>3. LeftBy(StandingRuns, tree)'
        BY <2>2, <3>1, <3>2 DEF LeftBy
      <3> QED BY <3>3 DEF Ends
    <2> QED BY <2>9, <2>10, <2>11
  <1>11. ASSUME NEW c \in Commit, MakeCommit(c) PROVE Goal
    <2>1. order' = Append(order, c) /\ c \in Ordered /\ c \notin ToSet(order) /\ c \notin Run
      BY <1>11, TaskUndoAssumption DEF request, MakeCommit, Ordered
    <2>2. /\ ToSet(order)' = ToSet(order) \union {c}
          /\ \A y, z \in ToSet(order) : LaterThan(y, z)' <=> LaterThan(y, z)
      BY <1>0, <2>1, OrderGrows
    <2>3. UNCHANGED <<tree, run, before, after, undone, undo, target>>
      BY <1>11 DEF request, MakeCommit, task
    <2>4. Checkpoints' = Checkpoints /\ StandingRuns' = StandingRuns /\ InPlanner' = InPlanner
          /\ Checkpoints \subseteq ToSet(order)
      BY <2>1, <2>2, <2>3 DEF Checkpoints, StandingRuns, Standing, InPlanner
    <2>5. Links' /\ \A content : LeftBy(StandingRuns, content) => LeftBy(StandingRuns, content)'
      <3> HIDE DEF LaterThan
      <3> QED BY <1>1, <2>2, <2>3, <2>4
    <2>6. Starts'
      <3>1. ASSUME NEW r \in InPlanner' PROVE LeftBy(StandingRuns, before[r])'
        <4>1. PICK content : content = before[r]
          OBVIOUS
        <4>2. LeftBy(StandingRuns, content)
          BY <1>0, <2>4, <3>1, <4>1 DEF Starts
        <4>3. LeftBy(StandingRuns, content)' /\ before'[r] = content
          BY <2>3, <2>5, <4>1, <4>2
        <4> QED BY <4>3
      <3> QED BY <3>1 DEF Starts
    <2>7. Ends'
      <3>1. ASSUME InPlanner' = {}, \A u \in Request : ~HalfDone(u)' PROVE LeftBy(StandingRuns, tree)'
        <4>1. PICK content : content = tree
          OBVIOUS
        <4>2. LeftBy(StandingRuns, content)
          BY <1>0, <2>3, <2>4, <3>1, <4>1 DEF Ends, HalfDone
        <4>3. LeftBy(StandingRuns, content)' /\ tree' = content
          BY <2>3, <2>5, <4>1, <4>2
        <4> QED BY <4>3
      <3> QED BY <3>1 DEF Ends
    <2>8. Halfway'
      BY <1>0, <2>3 DEF Halfway, ToDelete, Changed
    <2> QED BY <2>5, <2>6, <2>7, <2>8
  <1>12. ASSUME NEW u \in Undoing PROVE InPlanner = {} /\ \A v \in Request \ {u} : undo[v] = "idle"
    BY <1>0, <1>a DEF Undoing
  <1>13. ASSUME NEW u \in Request, Restore(u) \/ Delete(u) PROVE Goal
    <2>1. u \in Undoing /\ UNCHANGED <<run, before, after, order, undone, target>> /\ target[u] \in Latest(StandingRuns) /\ HalfDone(u)'
      BY <1>0, <1>13 DEF PutBack, UndoTypeOK, Restore, Delete, Step, Undoing, AtWork, task, HalfDone
    <2>2. InPlanner = {} /\ InPlanner' = {} /\ \A v \in Request \ {u} : undo[v] = "idle" /\ undo'[v] = "idle"
      BY <1>0, <1>12, <1>13, <2>1 DEF PutBack, UndoTypeOK, Restore, Delete, Step, InPlanner
    <2>3. Links' /\ Starts' /\ Ends'
      BY <1>1, <1>2, <1>4, <2>1, <2>2 DEF Starts, Ends
    <2> DEFINE r == target[u]
    <2>4. r \in Run /\ before[r] \in Tree /\ after[r] \in Tree
      <3>1. r \in Checkpoints
        BY <1>a, <2>1 DEF Latest
      <3> QED BY <1>0, <3>1 DEF Checkpoints, Kept, UndoTypeOK
    <2>5. CASE Restore(u)
      <3>1. tree = after[r]
        BY <1>0, <2>1, <2>2, <2>5 DEF PutBack, Ends, LeftBy, HalfDone, Restore
      <3>2. tree' = RestoreTo(r, ToRestore(r)) /\ undo'[u] = "restored"
        BY <1>0, <2>5 DEF PutBack, UndoTypeOK, Restore, Step
      <3>3. ASSUME NEW f \in File PROVE tree'[f] = IF f \in ToDelete(r) THEN after[r][f] ELSE before[r][f]
        <4>1. tree'[f] = IF f \in ToRestore(r) THEN before[r][f] ELSE after[r][f]
          BY <3>1, <3>2 DEF RestoreTo
        <4> QED BY <4>1 DEF ToRestore, ToDelete, Changed
      <3> QED BY <2>1, <2>2, <2>3, <3>2, <3>3 DEF Halfway, ToDelete, Changed
    <2>6. CASE Delete(u)
      <3>1. \A f \in File : tree[f] = IF f \in ToDelete(r) THEN after[r][f] ELSE before[r][f]
        BY <1>0, <2>6 DEF PutBack, Halfway, Delete
      <3>2. tree' = RestoreTo(r, ToDelete(r)) /\ undo'[u] = "deleted"
        BY <1>0, <2>6 DEF PutBack, UndoTypeOK, Delete, Step
      <3>3. tree' = before[r]
        <4>1. tree' = [f \in File |-> before[r][f]]
          BY <3>1, <3>2 DEF RestoreTo
        <4> QED BY <2>4, <4>1 DEF Tree
      <3> QED BY <2>1, <2>2, <2>3, <3>2, <3>3 DEF Halfway
    <2> QED BY <1>13, <2>5, <2>6
  <1>14. ASSUME NEW u \in Request, RecordUndo(u) PROVE Goal
    <2> DEFINE t == target[u]
    <2>1. u \in Undoing /\ UNCHANGED <<tree, run, before, after, order>> /\ t \in Latest(StandingRuns) /\ tree = before[t]
          /\ undone' = undone \union {t}
      BY <1>0, <1>14 DEF RecordUndo, Undoing, AtWork, task, Halfway
    <2>2. InPlanner = {} /\ InPlanner' = {} /\ \A v \in Request : undo'[v] = "idle"
      BY <1>0, <1>12, <1>14, <2>1 DEF UndoTypeOK, RecordUndo, AnswerRequest, Step, InPlanner
    <2>3. t \in StandingRuns /\ StandingRuns' = StandingRuns \ {t} /\ StandingRuns' = Below(t)
      BY <2>1 DEF StandingRuns, Standing, Latest, Below, ToSet
    <2>4. Checkpoints' = Checkpoints /\ \A x, y : LaterThan(x, y)' <=> LaterThan(x, y)
      BY <1>2, <2>1
    <2>5. ASSUME NEW S, NEW content, LeftBy(S, content), S \subseteq Checkpoints
          PROVE  LeftBy(S, content)'
      <3> HIDE DEF LaterThan, t
      <3> QED BY <2>1, <2>4, <2>5, LeftBySame
    <2>6. Links'
      <3>1. ASSUME NEW s \in StandingRuns' PROVE LeftBy(Below(s), before[s])'
        <4>1. s \in StandingRuns /\ LaterThan(t, s)
          BY <2>1, <2>3 DEF Latest
        <4>2. ~LaterThan(s, t)
          <5>1. StandingRuns \subseteq ToSet(order)
            BY DEF StandingRuns, Standing
          <5> HIDE DEF LaterThan, t
          <5> QED BY <1>0, <2>3, <4>1, <5>1, OrderIsTotal
        <4>3. Below(s)' = Below(s)
          BY <2>3, <2>4, <4>2 DEF Below
        <4>4. PICK S, content : S = Below(s) /\ content = before[s]
          OBVIOUS
        <4>5. LeftBy(S, content)
          BY <1>0, <4>1, <4>4 DEF Links
        <4>6. LeftBy(S, content)'
          BY <1>a, <2>5, <4>4, <4>5
        <4> QED BY <2>1, <4>3, <4>4, <4>6
      <3> QED BY <3>1 DEF Links
    <2>7. Ends'
      <3>1. PICK S, content : S = Below(t) /\ content = tree
        OBVIOUS
      <3>2. LeftBy(S, content)
        BY <1>0, <2>1, <2>3, <3>1 DEF Links
      <3>3. LeftBy(S, content)'
        BY <1>a, <2>5, <3>1, <3>2
      <3>4. LeftBy(StandingRuns, tree)'
        BY <2>1, <2>3, <3>1, <3>3
      <3> QED BY <3>4 DEF Ends
    <2>8. Starts' /\ Halfway'
      BY <2>2 DEF Starts, Halfway
    <2> QED BY <2>6, <2>7, <2>8
  <1>15. ~Crash
    BY DEF Crash, Disturb
  <1>16. CASE UNCHANGED undoVars
    <2>1. UNCHANGED <<tree, run, before, after, order, undone, undo, target>>
      BY <1>16 DEF request, undoVars, task
    <2> QED BY <1>3, <1>4, <2>1 DEF InPlanner
  <1> QED BY <1>5, <1>6, <1>7, <1>8, <1>9, <1>10, <1>11, <1>13, <1>14, <1>15, <1>16 DEF UndoNext

\* When nothing is at work the tree is what the last standing task left, after
\* any number of tasks, commits and undos.
THEOREM TreeUnwinds == UndoSpec => []TreeIsUnwound
  <1>1. UndoInit => ChainInv
    <2> SUFFICES ASSUME UndoInit PROVE ChainInv
      OBVIOUS
    <2>1. NewestInv /\ OwnWrites
      BY InitNewestInv, InitSparesInv DEF SparesInv
    <2>2. InPlanner = {} /\ Checkpoints = {} /\ StandingRuns = {} /\ Latest({}) = {} /\ \A u \in Request : undo[u] = "idle"
      BY DEF UndoInit, InPlanner, Checkpoints, StandingRuns, Standing, ToSet, Latest
    <2>3. LeftBy(StandingRuns, tree)
      BY <2>2 DEF LeftBy
    <2> QED BY <2>1, <2>2, <2>3 DEF ChainInv, Chain, Links, Starts, Ends, Halfway
  <1>2. ChainInv /\ [UndoNext]_undoVars => ChainInv'
    BY NewestInvKept, OwnWritesKept, ChainKept DEF ChainInv, NewestInv
  <1>3. ChainInv => TreeIsUnwound
    <2> SUFFICES ASSUME ChainInv, AtRest, past = {} PROVE TreeIsUnwound
      BY DEF TreeIsUnwound
    <2>1. InPlanner = {} /\ \A u \in Request : ~HalfDone(u)
      BY DEF AtRest, InPlanner, Tracked, Undoing, HalfDone
    <2>2. LeftBy(StandingRuns, tree)
      BY <2>1 DEF ChainInv, Chain, Ends
    <2> QED BY <2>2 DEF LeftBy, TreeIsUnwound, StandingRuns, Checkpoints
  <1> QED BY <1>1, <1>2, <1>3, PTL DEF UndoSpec
=============================================================================
