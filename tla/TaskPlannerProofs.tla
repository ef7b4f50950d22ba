------------------------- MODULE TaskPlannerProofs -------------------------
(***************************************************************************)
(* Safety of TaskPlanner for any set of calls and any limit, that it       *)
(* implements JobSlots, and safety of the artifacts its tasks leave        *)
(* behind. Inv adds to the type what each suspension point of run() knows  *)
(* of the call, and to the counter the set it counts; StoreInv, in the     *)
(* second half, says where an artifact may be while saves, deletions and   *)
(* rebuilds are at work.                                                   *)
(***************************************************************************)
EXTENDS TaskPlanner, Artifacts, FiniteSetTheorems, WellFoundedInduction, TLAPS

\* What holds of a call by where it is suspended: nothing happened before its
\* workflow starts, and a race that is still on has seen neither an abort nor
\* the end of the workflow.
PhaseInv(r) ==
    /\ phase[r] \in {"idle", "before"} =>
          workflow[r] = "none" /\ lastEdit[r] = 0 /\ before[r] = NoTree
    /\ phase[r] \in {"idle", "before", "executing"} =>
          result[r] = "none" /\ after[r] = NoTree
    /\ phase[r] = "executing" => reason[r] = "none" /\ workflow[r] = "working"
    /\ phase[r] = "idle" => reason[r] = "none"

\* A reported abort happened; a workflow that decided the race has exited.
ResultInv(r) ==
    /\ result[r] \in Aborts => result[r] = reason[r]
    /\ result[r] \in {"success", "failed"} => workflow[r] = "ended"

\* Snapshots and edits are ordered by the version of the tree.
WindowInv(r) ==
    /\ lastEdit[r] <= tree
    /\ before[r] # NoTree => before[r] <= tree
    /\ before[r] # NoTree /\ lastEdit[r] # 0 => before[r] < lastEdit[r]
    /\ after[r] # NoTree => before[r] # NoTree
    /\ after[r] # NoTree => phase[r] \in {"artifacts", "returned"}
    /\ phase[r] = "after" => before[r] # NoTree
    /\ after[r] # NoTree /\ result[r] \in {"success", "failed"} =>
          lastEdit[r] <= after[r]

Inv ==
    /\ TypeOK
    /\ SlotsMatchRuns
    /\ LimitRespected
    /\ \A r \in Run : PhaseInv(r) /\ ResultInv(r) /\ WindowInv(r)

-----------------------------------------------------------------------------
LEMMA InFlightFinite == IsFiniteSet(InFlight) /\ Cardinality(InFlight) \in Nat
<1>1. InFlight \in SUBSET Run
  BY DEF InFlight
<1>2. IsFiniteSet(InFlight)
  BY <1>1, PlannerAssumption, FS_Subset
<1>3. QED
  BY <1>2, FS_CardinalityType

\* A step of r moves the set of calls in flight at r only.
LEMMA InFlightStep ==
    ASSUME TypeOK, NEW r \in Run, NEW p \in Phase,
           phase' = [phase EXCEPT ![r] = p]
    PROVE  InFlight' = IF p \in Active THEN InFlight \union {r}
                                       ELSE InFlight \ {r}
  BY DEF TypeOK, InFlight

\* Taking a slot below the limit, keeping it, and giving it back all leave
\* counter and map equal to the calls in flight.
LEMMA TakeSlot ==
    ASSUME Inv, NEW r \in Run, NEW p \in Active, phase[r] = "idle",
           runningTaskCount < MaxJobs,
           phase' = [phase EXCEPT ![r] = p],
           runningTaskCount' = runningTaskCount + 1,
           abortControllers' = abortControllers \union {r}
    PROVE  /\ SlotsMatchRuns' /\ LimitRespected'
           /\ runningTaskCount' \in Nat /\ abortControllers' \subseteq Run
<1>1. InFlight' = InFlight \union {r}
  BY InFlightStep DEF Inv, Phase
<1>2. r \notin InFlight
  BY DEF Inv, TypeOK, InFlight, Active
<1>3. Cardinality(InFlight') = Cardinality(InFlight) + 1
  BY <1>1, <1>2, InFlightFinite, FS_AddElement
<1>4. QED
  BY <1>1, <1>3, InFlightFinite, PlannerAssumption
  DEF Inv, TypeOK, SlotsMatchRuns, LimitRespected

LEMMA KeepSlot ==
    ASSUME Inv, NEW r \in Run, NEW p \in Phase,
           phase[r] \in Active <=> p \in Active,
           phase' = [phase EXCEPT ![r] = p],
           runningTaskCount' = runningTaskCount,
           abortControllers' = abortControllers
    PROVE  /\ SlotsMatchRuns' /\ LimitRespected'
           /\ runningTaskCount' \in Nat /\ abortControllers' \subseteq Run
<1>1. InFlight' = InFlight
  BY InFlightStep DEF Inv, TypeOK, InFlight
<1>2. QED
  BY <1>1 DEF Inv, TypeOK, SlotsMatchRuns, LimitRespected

LEMMA GiveSlotBack ==
    ASSUME Inv, NEW r \in Run, phase[r] \in Active, Leave(r)
    PROVE  /\ SlotsMatchRuns' /\ LimitRespected'
           /\ runningTaskCount' \in Nat /\ abortControllers' \subseteq Run
<1>1. InFlight' = InFlight \ {r}
  BY InFlightStep DEF Inv, Phase, Leave, Active
<1>2. r \in InFlight
  BY DEF InFlight
<1>3. Cardinality(InFlight') = Cardinality(InFlight) - 1
  BY <1>1, <1>2, InFlightFinite, FS_RemoveElement
<1>4. Cardinality(InFlight) # 0
  BY <1>2, InFlightFinite, FS_EmptySet
<1>5. QED
  BY <1>1, <1>3, <1>4, InFlightFinite, PlannerAssumption
  DEF Inv, TypeOK, SlotsMatchRuns, LimitRespected, Leave

\* A settled race either keeps the slot or gives it back.
LEMMA SettleSlot ==
    ASSUME Inv, NEW r \in Run, phase[r] \in Active, NEW res, NEW snap,
           Settle(r, res, snap)
    PROVE  /\ SlotsMatchRuns' /\ LimitRespected'
           /\ runningTaskCount' \in Nat /\ abortControllers' \subseteq Run
<1>1. CASE Leave(r)
  BY <1>1, GiveSlotBack
<1>2. CASE \E p \in {"after", "artifacts"} :
              /\ phase' = [phase EXCEPT ![r] = p]
              /\ UNCHANGED <<runningTaskCount, abortControllers>>
  BY <1>2, KeepSlot DEF Active, Phase
<1>3. QED
  BY <1>1, <1>2 DEF Settle

-----------------------------------------------------------------------------
LEMMA InitInv == Init => Inv
<1>1. SUFFICES ASSUME Init PROVE Inv
  OBVIOUS
<1>2. TypeOK
  BY <1>1, PlannerAssumption
  DEF Init, TypeOK, Phase, Kind, Results, Version
<1>3. InFlight = {}
  BY <1>1 DEF Init, InFlight, Active
<1>4. SlotsMatchRuns /\ LimitRespected
  BY <1>1, <1>3, FS_EmptySet, PlannerAssumption
  DEF Init, SlotsMatchRuns, LimitRespected
<1>5. \A r \in Run : PhaseInv(r) /\ ResultInv(r) /\ WindowInv(r)
  BY <1>1 DEF Init, PhaseInv, ResultInv, WindowInv, Aborts
<1>6. QED
  BY <1>2, <1>4, <1>5 DEF Inv

LEMMA NextInv == Inv /\ [Next]_vars => Inv'
<1> SUFFICES ASSUME Inv, [Next]_vars PROVE Inv'
  OBVIOUS
<1> USE PlannerAssumption
<1> DEFINE SlotFacts == /\ SlotsMatchRuns' /\ LimitRespected'
                        /\ runningTaskCount' \in Nat /\ abortControllers' \subseteq Run
<1>1. ASSUME NEW r \in Run, RefuseOverLimit(r) \/ FactoryThrows(r)
      PROVE  Inv'
  <2>1. SlotFacts
    BY <1>1, KeepSlot DEF RefuseOverLimit, FactoryThrows, Phase, Active
  <2>2. QED
    BY <1>1, <2>1 DEF RefuseOverLimit, FactoryThrows, Inv, TypeOK, PhaseInv,
       ResultInv, WindowInv, Phase, Active, Results, Aborts
<1>2. ASSUME NEW r \in Run, Start(r)
      PROVE  Inv'
  <2>1. SlotFacts
    BY <1>2, TakeSlot DEF Start, Active
  <2>2. QED
    BY <1>2, <2>1 DEF Start, Inv, TypeOK, PhaseInv, ResultInv, WindowInv, Phase,
       Active, Results, Aborts
<1>3. ASSUME NEW r \in Run, BeforeSnapshot(r)
      PROVE  Inv'
  <2>1. SlotFacts
    BY <1>3, KeepSlot, SettleSlot DEF BeforeSnapshot, Active, Phase
  <2>2. QED
    BY <1>3, <2>1 DEF BeforeSnapshot, Settle, Leave, Inv, TypeOK, PhaseInv,
       ResultInv, WindowInv, Phase, Active, Results, Aborts, Version
<1>4. ASSUME NEW r \in Run, Edit(r)
      PROVE  Inv'
  <2>1. InFlight' = InFlight
    BY <1>4 DEF Edit, InFlight
  <2>2. QED
    BY <1>4, <2>1 DEF Edit, Inv, TypeOK, SlotsMatchRuns, LimitRespected,
       PhaseInv, ResultInv, WindowInv, Version
<1>5. ASSUME NEW r \in Run, WorkflowEnds(r)
      PROVE  Inv'
  <2>1. SlotFacts
    <3>1. CASE phase[r] = "executing"
      BY <1>5, <3>1, SettleSlot DEF WorkflowEnds, Active
    <3>2. CASE phase[r] # "executing"
      BY <1>5, <3>2 DEF WorkflowEnds, Inv, TypeOK, SlotsMatchRuns,
         LimitRespected, InFlight
    <3>3. QED
      BY <3>1, <3>2
  <2>2. QED
    BY <1>5, <2>1 DEF WorkflowEnds, Settle, Leave, Inv, TypeOK, PhaseInv,
       ResultInv, WindowInv, Phase, Active, Results, Aborts
<1>6. ASSUME NEW r \in Run, NEW why \in Aborts, phase[r] \in Active,
             Abort(r, why)
      PROVE  Inv'
  <2>1. SlotFacts
    <3>1. CASE phase[r] = "executing"
      BY <1>6, <3>1, SettleSlot DEF Abort, Active
    <3>2. CASE phase[r] # "executing"
      BY <1>6, <3>2 DEF Abort, Inv, TypeOK, SlotsMatchRuns, LimitRespected,
         InFlight
    <3>3. QED
      BY <3>1, <3>2
  <2>2. QED
    BY <1>6, <2>1 DEF Abort, Settle, Leave, Inv, TypeOK, PhaseInv, ResultInv,
       WindowInv, Phase, Active, Results, Aborts
<1>7. ASSUME NEW r \in Run, AfterSnapshot(r)
      PROVE  Inv'
  <2>1. SlotFacts
    <3>1. CASE result[r] = "success"
      BY <1>7, <3>1, KeepSlot DEF AfterSnapshot, Active, Phase
    <3>2. CASE result[r] # "success"
      BY <1>7, <3>2, GiveSlotBack DEF AfterSnapshot, Active
    <3>3. QED
      BY <3>1, <3>2
  <2>2. QED
    BY <1>7, <2>1 DEF AfterSnapshot, Leave, Inv, TypeOK, PhaseInv, ResultInv,
       WindowInv, Phase, Active, Aborts, Version
<1>8. ASSUME NEW r \in Run, RecordArtifacts(r)
      PROVE  Inv'
  <2>1. SlotFacts
    BY <1>8, GiveSlotBack DEF RecordArtifacts, Active
  <2>2. QED
    BY <1>8, <2>1 DEF RecordArtifacts, Leave, Inv, TypeOK, PhaseInv, ResultInv,
       WindowInv, Phase, Active
<1>9. ASSUME NEW r \in Run, Forget(r)
      PROVE  Inv'
  <2>1. SlotFacts
    BY <1>9, KeepSlot DEF Forget, Phase, Active
  <2>2. QED
    BY <1>9, <2>1 DEF Forget, Inv, TypeOK, PhaseInv, ResultInv, WindowInv,
       Phase, Results, Aborts, Version
<1>10. CASE UNCHANGED vars
  BY <1>10 DEF vars, Inv, TypeOK, SlotsMatchRuns, LimitRespected, InFlight,
     PhaseInv, ResultInv, WindowInv
<1>11. ASSUME NEW r \in Run, Timeout(r) \/ Cancel(r)
       PROVE  Inv'
  BY <1>6, <1>11 DEF Timeout, Cancel, Aborts, Inv, SlotsMatchRuns, InFlight
<1>12. QED
  BY <1>1, <1>2, <1>3, <1>4, <1>5, <1>7, <1>8, <1>9, <1>10, <1>11 DEF Next

LEMMA SpecInv == Spec => []Inv
  BY InitInv, NextInv, PTL DEF Spec

-----------------------------------------------------------------------------
\* No slot of run() leaks and none is freed twice, for any number of calls.
THEOREM SlotsAccounted == Spec => [](TypeOK /\ SlotsMatchRuns)
<1>1. Inv => TypeOK /\ SlotsMatchRuns
  BY DEF Inv
<1>2. QED
  BY <1>1, SpecInv, PTL

\* Never more than MaxJobs calls of run() are in flight.
THEOREM LimitHolds == Spec => []LimitRespected
<1>1. Inv => LimitRespected
  BY DEF Inv
<1>2. QED
  BY <1>1, SpecInv, PTL

\* A result that reports an abort names the abort that came first.
THEOREM AbortsAreTruthful == Spec => []AbortReportedTruthfully
<1>1. Inv => AbortReportedTruthfully
  BY DEF Inv, ResultInv, AbortReportedTruthfully
<1>2. QED
  BY <1>1, SpecInv, PTL

\* The checkpoint of a run whose workflow ended by itself covers its edits.
THEOREM EndedRunsAreUndoable == Spec => []EndedRunIsUndoable
<1>1. Inv => EndedRunIsUndoable
  BY DEF Inv, WindowInv, EndedRunIsUndoable, CheckpointCovers
<1>2. QED
  BY <1>1, SpecInv, PTL

\* What the caller is told does not change once the race is settled.
THEOREM ResultsAreFinal == Spec => ResultIsFinal
<1>1. Inv /\ [Next]_vars =>
        [\A r \in Run : result[r] # "none" /\ phase[r] # "returned"
                           => result'[r] = result[r]]_vars
  BY DEF Next, vars, Inv, TypeOK, PhaseInv, RefuseOverLimit, FactoryThrows,
     Start, BeforeSnapshot, Edit, WorkflowEnds, Timeout, Cancel, Abort,
     AfterSnapshot, RecordArtifacts, Forget, Settle, Leave, Active
<1>2. QED
  BY <1>1, SpecInv, PTL DEF Spec, ResultIsFinal
-----------------------------------------------------------------------------
\* What a caller sees of a call suspended in p.
Seen(p) == IF p \in {"before", "executing"} THEN "running"
           ELSE IF p \in {"after", "artifacts"} THEN "unwinding" ELSE p

LEMMA ViewIs == CallerView = [r \in Run |-> Seen(phase[r])]
  BY DEF CallerView, Seen

LEMMA ViewIsPrimed == CallerView' = [r \in Run |-> Seen(phase'[r])]
  BY DEF CallerView, Seen

\* A step that moves one call moves the view at that call only.
LEMMA ViewStep ==
    ASSUME TypeOK, NEW r \in Run, NEW p, phase' = [phase EXCEPT ![r] = p]
    PROVE  CallerView' = [CallerView EXCEPT ![r] = Seen(p)]
  BY ViewIs, ViewIsPrimed DEF TypeOK

LEMMA HoldingIsInFlight == TypeOK => Slots!Holding = InFlight
  BY ViewIs DEF Slots!Holding, InFlight, Seen, TypeOK, Phase, Active

\* Both modules count with the one operator of FiniteSets.
LEMMA SameCardinality ==
    ASSUME NEW S PROVE Slots!Cardinality(S) = Cardinality(S)
  BY DEF Cardinality, Slots!Cardinality

LEMMA SettleConcludes ==
    ASSUME TypeOK, NEW r \in Run, NEW res, NEW snap, Settle(r, res, snap)
    PROVE  Slots!Conclude(r, res)
  BY ViewStep DEF Settle, Leave, Slots!Conclude, Seen

LEMMA InitSlots == Init => Slots!Init
  BY ViewIs DEF Init, Slots!Init, Seen

LEMMA NextSlots == Inv /\ [Next]_vars => [Slots!Next]_(Slots!jobVars)
<1> SUFFICES ASSUME Inv, [Next]_vars
             PROVE  Slots!Next \/ UNCHANGED Slots!jobVars
  OBVIOUS
<1>t. TypeOK
  BY DEF Inv
<1> USE <1>t
<1>1. ASSUME NEW r \in Run, RefuseOverLimit(r) \/ FactoryThrows(r)
      PROVE  Slots!Refuse(r)
  BY <1>1, ViewIs, ViewStep
  DEF RefuseOverLimit, FactoryThrows, Slots!Refuse, Seen
<1>2. ASSUME NEW r \in Run, Start(r)
      PROVE  Slots!Admit(r)
  <2>1. Cardinality(Slots!Holding) < MaxJobs
    BY <1>2, HoldingIsInFlight DEF Start, Inv, SlotsMatchRuns
  <2>2. PICK p \in {"before", "executing"} : phase' = [phase EXCEPT ![r] = p]
    BY <1>2 DEF Start
  <2>3. CallerView' = [CallerView EXCEPT ![r] = "running"]
    BY <2>2, ViewStep DEF Seen
  <2>4. CallerView[r] = "idle"
    BY <1>2, ViewIs DEF Start, Seen
  <2>5. UNCHANGED <<result, reason>>
    BY <1>2 DEF Start
  <2>6. QED
    BY <2>1, <2>3, <2>4, <2>5, SameCardinality DEF Slots!Admit
<1>3. ASSUME NEW r \in Run, BeforeSnapshot(r)
      PROVE  (\E res \in Aborts : Slots!Decide(r, res)) \/ UNCHANGED Slots!jobVars
  <2>1. CallerView[r] = "running"
    BY <1>3, ViewIs DEF BeforeSnapshot, Seen
  <2>2. CASE reason[r] \in Aborts
    <3>1. Slots!Conclude(r, reason[r])
      BY <1>3, <2>2, SettleConcludes DEF BeforeSnapshot, Aborts
    <3>2. QED
      BY <1>3, <2>1, <2>2, <3>1 DEF BeforeSnapshot, Slots!Decide, Aborts
  <2>3. CASE reason[r] = "none"
    <3>1. phase' = [phase EXCEPT ![r] = "executing"] /\ UNCHANGED <<result, reason>>
      BY <1>3, <2>3 DEF BeforeSnapshot, Aborts
    <3>2. CallerView' = [CallerView EXCEPT ![r] = CallerView[r]]
      BY <2>1, <3>1, ViewStep DEF Seen
    <3>3. CallerView' = CallerView
      BY <3>2, ViewIs
    <3>4. QED
      BY <3>1, <3>3 DEF Slots!jobVars
  <2>4. QED
    BY <2>2, <2>3 DEF TypeOK
<1>4. ASSUME NEW r \in Run, WorkflowEnds(r)
      PROVE  (\E res \in {"success", "failed"} : Slots!Decide(r, res))
                \/ UNCHANGED Slots!jobVars
  <2>1. CASE phase[r] = "executing"
    <3>1. PICK res \in {"success", "failed"} : Settle(r, res, before[r])
      BY <1>4, <2>1 DEF WorkflowEnds
    <3>2. CallerView[r] = "running" /\ reason[r] = "none"
      BY <2>1, ViewIs DEF Seen, Inv, PhaseInv
    <3>3. Slots!Conclude(r, res)
      BY <3>1, SettleConcludes
    <3>4. QED
      BY <1>4, <3>2, <3>3 DEF WorkflowEnds, Slots!Decide
  <2>2. CASE phase[r] # "executing"
    BY <1>4, <2>2, ViewIs, ViewIsPrimed DEF WorkflowEnds, Slots!jobVars
  <2>3. QED
    BY <2>1, <2>2
<1>5. ASSUME NEW r \in Run, NEW why \in Aborts, phase[r] \in Active, Abort(r, why)
      PROVE  Slots!Abort(r, why)
  <2>1. r \in Slots!Holding
    BY <1>5, HoldingIsInFlight DEF InFlight
  <2>2. CASE phase[r] = "executing"
    <3>1. CallerView[r] = "running"
      BY <2>2, ViewIs DEF Seen
    <3>2. Slots!Conclude(r, why)
      BY <1>5, <2>2, SettleConcludes DEF Abort
    <3>3. QED
      BY <1>5, <2>1, <3>1, <3>2 DEF Abort, Slots!Abort
  <2>3. CASE phase[r] # "executing"
    <3>1. CallerView' = CallerView /\ result' = result
      BY <1>5, <2>3, ViewIs, ViewIsPrimed DEF Abort
    <3>2. QED
      BY <1>5, <2>1, <3>1 DEF Abort, Slots!Abort
  <2>4. QED
    BY <2>2, <2>3
<1>6. ASSUME NEW r \in Run, Timeout(r) \/ Cancel(r)
      PROVE  \E why \in Aborts : Slots!Abort(r, why)
  BY <1>5, <1>6 DEF Timeout, Cancel, Aborts, Inv, SlotsMatchRuns, InFlight
<1>7. ASSUME NEW r \in Run, AfterSnapshot(r) \/ RecordArtifacts(r)
      PROVE  Slots!Return(r) \/ UNCHANGED Slots!jobVars
  <2>1. CallerView[r] = "unwinding"
    BY <1>7, ViewIs DEF AfterSnapshot, RecordArtifacts, Seen
  <2>2. PICK p \in {"artifacts", "returned"} :
           phase' = [phase EXCEPT ![r] = p] /\ UNCHANGED <<result, reason>>
    BY <1>7 DEF AfterSnapshot, RecordArtifacts, Leave
  <2>3. CallerView' = [CallerView EXCEPT ![r] = Seen(p)]
    BY <2>2, ViewStep
  <2>4. CASE p = "artifacts"
    <3>1. CallerView' = CallerView
      BY <2>1, <2>3, <2>4, ViewIs DEF Seen
    <3>2. QED
      BY <2>2, <3>1 DEF Slots!jobVars
  <2>5. CASE p = "returned"
    BY <2>1, <2>2, <2>3, <2>5 DEF Seen, Slots!Return
  <2>6. QED
    BY <2>4, <2>5
<1>8. ASSUME NEW r \in Run, Forget(r)
      PROVE  Slots!Forget(r)
  BY <1>8, ViewIs, ViewStep DEF Forget, Slots!Forget, Seen
<1>9. ASSUME NEW r \in Run, Edit(r)
      PROVE  UNCHANGED Slots!jobVars
  BY <1>9, ViewIs, ViewIsPrimed DEF Edit, Slots!jobVars
<1>10. CASE UNCHANGED vars
  BY <1>10, ViewIs, ViewIsPrimed DEF vars, Slots!jobVars
<1>11. QED
  BY <1>1, <1>2, <1>3, <1>4, <1>6, <1>7, <1>8, <1>9, <1>10
  DEF Next, Slots!Next, Slots!Progress, Aborts

\* run() keeps what JobSlots promises its callers: every step of it is a step
\* of JobSlots or invisible to them.
THEOREM PlannerImplementsSlots == Spec => Slots!Spec
<1>1. QED
  BY InitSlots, NextSlots, SpecInv, PTL DEF Spec, Slots!Spec

-----------------------------------------------------------------------------
(* Artifacts                                                               *)

\* No call survives the process.
Down == ~up => Saving = {} /\ Deleting = {} /\ Rebuilding = {}

\* What is asked for is known, and what a deletion has still to do was asked for.
AskedInv ==
  /\ \A a \in asked : save[a] # "none"
  /\ \A d \in Deleter : \A i \in DOMAIN deletion[d].todo : deletion[d].todo[i] \in asked

Held(a) == \E r \in Rebuilder : rebuild[r].held = a

\* Nobody but the save() knows the artifact before its sidecar is whole.
SaveInv(a) ==
  /\ save[a] \in {"none", "content"} => sidecar[a] = "none"
  /\ save[a] = "sidecar" => sidecar[a] # "whole"
  /\ save[a] = "adding" => sidecar[a] = "whole" \/ a \in asked
  /\ save[a] \in {"none", "content", "sidecar"} => a \notin index /\ ~Held(a)

\* Wherever the artifact shows, its content is there unless its deletion was asked for.
ContentInv(a) ==
  a \in asked \/ content[a] = "whole" \/
    /\ sidecar[a] = "none" /\ save[a] \notin {"sidecar", "adding"}
    /\ a \notin index /\ ~Held(a)

\* A rebuild has still to come to the artifact.
AwaitsRead(a) == \E r \in Rebuilder :
  rebuild[r].at = "list" \/ a \in rebuild[r].keys \/ rebuild[r].held = a

AwaitsRemoval(a) == \E d \in Deleter : deletion[d].at = "index" /\ Id(d) = a

\* The index holds what is on disk, but for what is on its way.
Kept(a) ==
  /\ a \in index => sidecar[a] = "whole" \/ AwaitsRemoval(a)
  /\ sidecar[a] = "whole" /\ a \notin Saving => a \in index \/ AwaitsRead(a)

\* What past = {} stands for.
Undisturbed ==
  /\ Saving \cap asked = {}
  /\ Rebuilding = {} \/ Deleting = {}
  /\ \A d \in Deleter : deletion[d].at = "index" => sidecar[Id(d)] = "none"
  /\ \A r \in Rebuilder : rebuild[r].at = "put" => sidecar[rebuild[r].held] = "whole"
  /\ up => \A a \in Artifact : Kept(a)


Todos == Seq(Artifact) \ {<<>>}
DeletionState == [at : {"content", "sidecar", "index"}, todo : Todos] \cup {NoDeletion}

LEMMA LeastNatural ==
    ASSUME NEW T, T \subseteq Nat, T # {}
    PROVE  \E n \in T : \A m \in T : n <= m
  <1> DEFINE R == {p \in Nat \X Nat : p[1] < p[2]}
  <1>1. IsWellFoundedOn(R, Nat)
    BY NatLessThanWellFounded DEF OpToRel
  <1> HIDE DEF R
  <1>2. PICK n \in T : \A m \in T : ~ (<<m, n>> \in R)
    BY <1>1, WFMin
  <1>3. ASSUME NEW m \in T PROVE n <= m
    <2>1. m \in Nat /\ n \in Nat
      OBVIOUS
    <2>2. <<m, n>> \notin R
      BY <1>2
    <2> QED BY <2>1, <2>2 DEF R
  <1> QED BY <1>3

\* deleteMany goes on with the first id the index knows.
LEMMA GoesOn ==
    ASSUME StoreTypeOK, NEW d \in Deleter, NEW ids \in Seq(Artifact), NEW known,
           GoOn(d, ids, known)
    PROVE  \E next \in DeletionState :
             /\ deletion' = [deletion EXCEPT ![d] = next]
             /\ next = NoDeletion \/ next.at = "content"
             /\ \A i \in DOMAIN next.todo : \E j \in DOMAIN ids : next.todo[i] = ids[j]
<1> DEFINE found == {i \in DOMAIN ids : ids[i] \in known}
<1>1. CASE found = {}
  <2>1. deletion' = [deletion EXCEPT ![d] = NoDeletion]
    BY <1>1 DEF GoOn
  <2>2. NoDeletion \in DeletionState /\ DOMAIN NoDeletion.todo = {}
    BY DEF DeletionState, NoDeletion
  <2>3. QED
    BY <2>1, <2>2
<1>2. CASE found # {}
  <2> DEFINE first == CHOOSE i \in found : \A j \in found : i <= j
             next == [at |-> "content", todo |-> SubSeq(ids, first, Len(ids))]
  <2>1. first \in found
    <3>1. found \subseteq Nat
      OBVIOUS
    <3>2. \E i \in found : \A j \in found : i <= j
      BY <1>2, <3>1, LeastNatural
    <3>3. QED
      BY <3>2
  <2>2. deletion' = [deletion EXCEPT ![d] = next]
    BY <1>2 DEF GoOn
  <2> HIDE DEF found
  <2>3. first \in 1..Len(ids)
    BY <2>1 DEF found
  <2> HIDE DEF first
  <2>4. /\ next.todo \in Seq(Artifact) /\ Len(next.todo) = Len(ids) - first + 1
        /\ \A i \in 1..Len(next.todo) : next.todo[i] = ids[first + i - 1]
    BY <2>3
  <2>5. next \in DeletionState
    <3>1. next.todo # <<>>
      <4>1. Len(next.todo) # 0
        BY <2>3, <2>4
      <4>2. Len(<<>>) = 0
        OBVIOUS
      <4>3. QED
        BY <4>1, <4>2
    <3>2. next.todo \in Todos /\ next.at = "content"
      BY <2>4, <3>1 DEF Todos
    <3>3. QED
      BY <3>2 DEF DeletionState
  <2>6. \A i \in DOMAIN next.todo : \E j \in DOMAIN ids : next.todo[i] = ids[j]
    <3>1. ASSUME NEW i \in DOMAIN next.todo PROVE \E j \in DOMAIN ids : next.todo[i] = ids[j]
      <4>1. i \in 1..Len(next.todo)
        BY <2>4
      <4>2. first + i - 1 \in DOMAIN ids
        BY <2>3, <2>4, <4>1
      <4>3. QED
        BY <2>4, <4>1, <4>2
    <3>2. QED
      BY <3>1
  <2>7. next.at = "content"
    OBVIOUS
  <2> HIDE DEF next
  <2>8. QED
    BY <2>2, <2>5, <2>6, <2>7
<1>3. QED
  BY <1>1, <1>2

LEMMA RequestsAreLists == ASSUME NEW ids \in Requests PROVE ids \in Seq(Artifact)
<1>1. PICK n \in 1..Cardinality(Artifact) : ids \in [1..n -> Artifact]
  BY DEF Requests
<1>2. n \in Nat
  BY <1>1
<1>3. QED
  BY <1>1, <1>2

\* What a deletion at work has still to do.
LEMMA Remaining ==
    ASSUME StoreTypeOK, NEW d \in Deleter, deletion[d].at # "idle"
    PROVE  /\ deletion[d].todo \in Seq(Artifact) /\ deletion[d].todo # <<>>
           /\ deletion[d].at \in {"content", "sidecar", "index"}
           /\ Id(d) \in Artifact /\ Id(d) = deletion[d].todo[1] /\ 1 \in DOMAIN deletion[d].todo
           /\ Tail(deletion[d].todo) \in Seq(Artifact)
           /\ \A i \in DOMAIN Tail(deletion[d].todo) :
                \E j \in DOMAIN deletion[d].todo : Tail(deletion[d].todo)[i] = deletion[d].todo[j]
<1> DEFINE todo == deletion[d].todo
<1>1. todo \in Seq(Artifact) /\ todo # <<>> /\ deletion[d].at \in {"content", "sidecar", "index"}
  BY DEF StoreTypeOK, NoDeletion
<1>2. Id(d) = Head(todo)
  BY DEF Id
<1> HIDE DEF todo
<1>3. /\ Head(todo) \in Artifact /\ Head(todo) = todo[1] /\ 1 \in DOMAIN todo
      /\ Tail(todo) \in Seq(Artifact)
  BY <1>1
<1>4. ASSUME NEW i \in DOMAIN Tail(todo)
      PROVE  \E j \in DOMAIN todo : Tail(todo)[i] = todo[j]
  <2>1. i + 1 \in DOMAIN todo /\ Tail(todo)[i] = todo[i + 1]
    BY <1>1, <1>4
  <2>2. QED
    BY <2>1
<1>5. QED
  BY <1>1, <1>2, <1>3, <1>4 DEF todo

\* The same of a deletion that goes from one step to the next of an id.
LEMMA StepOn ==
    ASSUME StoreTypeOK, NEW d \in Deleter, NEW at \in {"content", "sidecar", "index"},
           deletion[d].at # "idle", deletion' = [deletion EXCEPT ![d].at = at]
    PROVE  /\ deletion' = [deletion EXCEPT ![d] = [at |-> at, todo |-> deletion[d].todo]]
           /\ [at |-> at, todo |-> deletion[d].todo] \in DeletionState
<1>1. deletion[d] \in [at : {"content", "sidecar", "index"}, todo : Todos]
  BY DEF StoreTypeOK, NoDeletion, Todos
<1>2. [deletion[d] EXCEPT !.at = at] = [at |-> at, todo |-> deletion[d].todo]
  BY <1>1
<1>3. QED
  BY <1>1, <1>2 DEF DeletionState

RebuildState == [at : {"list", "read", "put"}, keys : SUBSET Artifact,
                 held : Artifact \cup {None}] \cup {NoRebuild}

LEMMA ToReadTyped ==
    ASSUME NEW keys \in SUBSET Artifact
    PROVE  /\ ToRead(keys) \in RebuildState
           /\ ToRead(keys).at \in {"idle", "read"} /\ ToRead(keys).held = None
           /\ ToRead(keys).keys = keys
           /\ ToRead(keys).at = "idle" <=> ToRead(keys) = NoRebuild
           /\ ToRead(keys).at = "idle" <=> keys = {}
  BY DEF ToRead, RebuildState, NoRebuild

LEMMA StoreTypeInit == StoreInit => StoreTypeOK
  BY ArtifactsAssumption DEF StoreInit, StoreTypeOK, File, NoRebuild, Disturbance

\* A step of the deletions or of the rebuilds that leaves the others alone.
LEMMA DeletionTyped ==
    ASSUME StoreTypeOK, NEW d \in Deleter, NEW next \in DeletionState,
           deletion' = [deletion EXCEPT ![d] = next]
    PROVE  deletion' \in [Deleter -> DeletionState]
  BY DEF StoreTypeOK, DeletionState, Todos

LEMMA RebuildTyped ==
    ASSUME StoreTypeOK, NEW r \in Rebuilder, NEW next \in RebuildState,
           next.at = "put" <=> next.held # None,
           rebuild' = [rebuild EXCEPT ![r] = next]
    PROVE  /\ rebuild' \in [Rebuilder -> RebuildState]
           /\ \A q \in Rebuilder : rebuild'[q].at = "put" <=> rebuild'[q].held # None
  BY DEF StoreTypeOK, RebuildState

\* Every action keeps the types.
LEMMA StoreTypeNext ==
    ASSUME StoreTypeOK, [StoreNext]_storeVars
    PROVE  StoreTypeOK'
<1> USE ArtifactsAssumption
<1>1. ASSUME NEW a \in Artifact,
             StartSave(a) \/ ContentWritten(a) \/ SidecarWritten(a) \/ AddToIndex(a)
               \/ SaveFails(a) \/ RemoveTorn(a)
      PROVE  StoreTypeOK'
  BY <1>1
  DEF StoreTypeOK, File, StartSave, ContentWritten, SidecarWritten, AddToIndex, SaveFails,
      RemoveTorn, Fault, disk, calls
<1>2. ASSUME NEW d \in Deleter, NEW ids \in Requests, StartDelete(d, ids)
      PROVE  StoreTypeOK'
  <2>1. ids \in Seq(Artifact)
    BY RequestsAreLists
  <2>2. deletion' \in [Deleter -> DeletionState]
    BY <1>2, <2>1, GoesOn, DeletionTyped DEF StartDelete
  <2>3. asked' \subseteq Artifact
    BY <1>2, <2>1 DEF StartDelete, StoreTypeOK
  <2>4. past' \subseteq Disturbance
    BY <1>2 DEF StartDelete, StoreTypeOK, Disturb, Disturbance
  <2>5. QED
    BY <1>2, <2>2, <2>3, <2>4 DEF StartDelete, StoreTypeOK, DeletionState, Todos, disk
<1>3. ASSUME NEW d \in Deleter, RemoveContent(d) \/ RemoveSidecar(d)
      PROVE  StoreTypeOK'
  <2>1. deletion[d].at # "idle"
    BY <1>3 DEF RemoveContent, RemoveSidecar
  <2>2. deletion' \in [Deleter -> DeletionState]
    BY <1>3, <2>1, StepOn, DeletionTyped DEF RemoveContent, RemoveSidecar
  <2>3. Id(d) \in Artifact
    BY <2>1, Remaining
  <2>4. QED
    BY <1>3, <2>2, <2>3
    DEF RemoveContent, RemoveSidecar, StoreTypeOK, File, DeletionState, Todos
<1>4. ASSUME NEW d \in Deleter, RemoveFromIndex(d) \/ RemoveFails(d)
      PROVE  StoreTypeOK'
  <2>1. Tail(deletion[d].todo) \in Seq(Artifact)
    BY <1>4, Remaining DEF RemoveFromIndex, RemoveFails
  <2>2. deletion' \in [Deleter -> DeletionState]
    BY <1>4, <2>1, GoesOn, DeletionTyped DEF RemoveFromIndex, RemoveFails
  <2>3. QED
    BY <1>4, <2>2
    DEF RemoveFromIndex, RemoveFails, StoreTypeOK, DeletionState, Todos, Fault, disk
<1>5. ASSUME NEW r \in Rebuilder, StartRebuild(r)
      PROVE  StoreTypeOK'
  <2>1. rebuild' = [rebuild EXCEPT ![r] = [at |-> "list", keys |-> {}, held |-> None]]
    <3>1. [NoRebuild EXCEPT !.at = "list"] = [at |-> "list", keys |-> {}, held |-> None]
      BY DEF NoRebuild
    <3>2. QED
      BY <1>5, <3>1 DEF StartRebuild, Begin
  <2>2. /\ rebuild' \in [Rebuilder -> RebuildState]
        /\ \A q \in Rebuilder : rebuild'[q].at = "put" <=> rebuild'[q].held # None
    <3>1. [at |-> "list", keys |-> {}, held |-> None] \in RebuildState
      BY DEF RebuildState
    <3>2. QED
      BY <2>1, <3>1, RebuildTyped
  <2>3. QED
    BY <1>5, <2>2
    DEF StartRebuild, Begin, StoreTypeOK, RebuildState, Disturbance, disk
<1>6. ASSUME NEW r \in Rebuilder, ListKeys(r) \/ PutRecord(r)
      PROVE  StoreTypeOK'
  <2>1. rebuild[r].keys \in SUBSET Artifact
    BY DEF StoreTypeOK, NoRebuild
  <2>2. /\ rebuild' \in [Rebuilder -> RebuildState]
        /\ \A q \in Rebuilder : rebuild'[q].at = "put" <=> rebuild'[q].held # None
    <3>1. PICK keys \in SUBSET Artifact : rebuild' = [rebuild EXCEPT ![r] = ToRead(keys)]
      BY <1>6, <2>1 DEF ListKeys, PutRecord
    <3>2. QED
      BY <3>1, ToReadTyped, RebuildTyped
  <2>3. index' \subseteq Artifact
    BY <1>6 DEF ListKeys, PutRecord, StoreTypeOK, NoRebuild
  <2>4. QED
    BY <1>6, <2>2, <2>3 DEF ListKeys, PutRecord, StoreTypeOK, RebuildState, disk
<1>7. ASSUME NEW r \in Rebuilder, NEW a \in Artifact, ReadSidecar(r, a)
      PROVE  StoreTypeOK'
  <2>1. rebuild[r].keys \in SUBSET Artifact
    BY DEF StoreTypeOK, NoRebuild
  <2> DEFINE next == [at |-> "put", keys |-> rebuild[r].keys \ {a}, held |-> a]
  <2>2. rebuild' = [rebuild EXCEPT ![r] = next]
    BY <1>7 DEF ReadSidecar
  <2>3. next \in RebuildState /\ next.at = "put" /\ next.held # None
    BY <2>1 DEF RebuildState
  <2> HIDE DEF next
  <2>4. /\ rebuild' \in [Rebuilder -> RebuildState]
        /\ \A q \in Rebuilder : rebuild'[q].at = "put" <=> rebuild'[q].held # None
    BY <2>2, <2>3, RebuildTyped
  <2>5. QED
    BY <1>7, <2>4 DEF ReadSidecar, StoreTypeOK, RebuildState, disk
<1>8. ASSUME NEW r \in Rebuilder, RebuildFails(r)
      PROVE  StoreTypeOK'
  BY <1>8 DEF RebuildFails, Fault, StoreTypeOK, NoRebuild, Disturbance, disk
<1>9. CASE Crash
  <2>1. save' \in [Artifact -> {"none", "content", "sidecar", "adding", "over"}]
    BY <1>9 DEF Crash, StoreTypeOK
  <2>2. deletion' = [d \in Deleter |-> NoDeletion] /\ rebuild' = [r \in Rebuilder |-> NoRebuild]
    BY <1>9 DEF Crash
  <2>3. /\ UNCHANGED <<content, sidecar, asked, past>>
        /\ index' = {} /\ up' = FALSE /\ faults' = faults + 1 /\ faults < MaxFaults
    BY <1>9 DEF Crash, Fault, disk
  <2>4. NoRebuild.at # "put" /\ NoRebuild.held = None
    BY DEF NoRebuild
  <2>5. faults' \in 0..MaxFaults
    BY <2>3 DEF StoreTypeOK
  <2>6. \A r \in Rebuilder : rebuild'[r].at = "put" <=> rebuild'[r].held # None
    BY <2>2, <2>4
  <2>7. /\ deletion' \in [Deleter -> DeletionState]
        /\ rebuild' \in [Rebuilder -> RebuildState]
    BY <2>2 DEF DeletionState, RebuildState
  <2>8. QED
    BY <2>1, <2>3, <2>5, <2>6, <2>7 DEF StoreTypeOK, DeletionState, RebuildState, Todos
<1>10. CASE StartUp
  BY <1>10 DEF StartUp, StoreTypeOK, disk, calls
<1>11. CASE UNCHANGED storeVars
  BY <1>11 DEF StoreTypeOK, storeVars, disk, calls
<1>12. QED
  BY <1>1, <1>2, <1>3, <1>4, <1>5, <1>6, <1>7, <1>8, <1>9, <1>10, <1>11 DEF StoreNext

\* Store and index keep their types (ArtifactService and ArtifactIndex).
THEOREM StoreTypeCorrect == StoreSpec => []StoreTypeOK
<1>1. StoreInit => StoreTypeOK
  BY StoreTypeInit
<1>2. StoreTypeOK /\ [StoreNext]_storeVars => StoreTypeOK'
  BY StoreTypeNext
<1>3. QED
  BY <1>1, <1>2, PTL DEF StoreSpec

-----------------------------------------------------------------------------
\* A process that is down has no call at work.
LEMMA DownNext ==
    ASSUME StoreTypeOK, Down, [StoreNext]_storeVars
    PROVE  Down'
<1> SUFFICES ASSUME ~up' PROVE Saving' = {} /\ Deleting' = {} /\ Rebuilding' = {}
  BY DEF Down
<1>1. CASE Crash
  BY <1>1 DEF Crash, Saving, Deleting, Rebuilding
<1>2. CASE ~up
  <2>1. Saving = {} /\ Deleting = {} /\ Rebuilding = {}
    BY <1>2 DEF Down
  <2>2. /\ \A d \in Deleter : deletion[d].at = "idle"
        /\ \A r \in Rebuilder : rebuild[r].at = "idle"
    BY <2>1 DEF Deleting, Rebuilding, NoDeletion, NoRebuild
  <2>3. UNCHANGED calls
    BY <1>2, <2>1, <2>2
    DEF StoreNext, StartSave, ContentWritten, SidecarWritten, AddToIndex, SaveFails, RemoveTorn,
        StartDelete, RemoveContent, RemoveSidecar, RemoveFromIndex, RemoveFails,
        StartRebuild, Begin, ListKeys, PutRecord, RebuildFails, ReadSidecar,
        Crash, StartUp, Saving, storeVars
  <2>4. QED
    BY <2>1, <2>3 DEF calls, Saving, Deleting, Rebuilding
<1>3. CASE up /\ ~Crash
  BY <1>3
  DEF StoreNext, StartSave, ContentWritten, SidecarWritten, AddToIndex, SaveFails, RemoveTorn,
      StartDelete, RemoveContent, RemoveSidecar, RemoveFromIndex, RemoveFails,
      StartRebuild, Begin, ListKeys, PutRecord, RebuildFails, ReadSidecar, StartUp, storeVars
<1>4. QED
  BY <1>1, <1>2, <1>3

\* What holds whatever overlaps and fails.
FilesInv ==
  /\ StoreTypeOK /\ Down /\ AskedInv
  /\ \A a \in Artifact : SaveInv(a) /\ ContentInv(a)

\* Deletions only ask for artifacts that exist, and only work on what was asked for.
LEMMA AskedNext ==
    ASSUME StoreTypeOK, AskedInv, [StoreNext]_storeVars
    PROVE  AskedInv'
<1>1. \A a \in Artifact : save[a] # "none" => save'[a] # "none"
  BY DEF StoreTypeOK, StoreNext, StartSave, ContentWritten, SidecarWritten, AddToIndex, SaveFails,
        RemoveTorn, StartDelete, RemoveContent, RemoveSidecar, RemoveFromIndex, RemoveFails,
        StartRebuild, ListKeys, PutRecord, RebuildFails, ReadSidecar,
        Crash, StartUp, calls, storeVars
<1>2. ASSUME NEW d \in Deleter, NEW ids \in Requests, StartDelete(d, ids)
      PROVE  AskedInv'
  <2>1. ids \in Seq(Artifact)
    BY RequestsAreLists
  <2>2. PICK next \in DeletionState :
          /\ deletion' = [deletion EXCEPT ![d] = next]
          /\ \A i \in DOMAIN next.todo : \E j \in DOMAIN ids : next.todo[i] = ids[j]
    BY <1>2, <2>1, GoesOn DEF StartDelete
  <2>3. asked' = asked \cup {ids[i] : i \in DOMAIN ids} /\ save' = save
    BY <1>2 DEF StartDelete
  <2>4. \A i \in DOMAIN next.todo : next.todo[i] \in asked'
    BY <2>2, <2>3
  <2>5. \A a \in asked' : save'[a] # "none"
    BY <1>2, <2>3 DEF StartDelete, AskedInv
  <2>6. \A e \in Deleter : deletion'[e] = IF e = d THEN next ELSE deletion[e]
    BY <2>2 DEF StoreTypeOK
  <2>7. QED
    BY <2>3, <2>4, <2>5, <2>6 DEF AskedInv
<1>3. ASSUME NEW d \in Deleter, RemoveContent(d) \/ RemoveSidecar(d)
      PROVE  AskedInv'
  <2>1. deletion[d].at # "idle"
    BY <1>3 DEF RemoveContent, RemoveSidecar
  <2>2. PICK at \in {"sidecar", "index"} :
          deletion' = [deletion EXCEPT ![d] = [at |-> at, todo |-> deletion[d].todo]]
    BY <1>3, <2>1, StepOn DEF RemoveContent, RemoveSidecar
  <2>3. \A e \in Deleter : deletion'[e].todo = deletion[e].todo
    BY <2>2 DEF StoreTypeOK
  <2>4. QED
    BY <1>3, <2>3 DEF RemoveContent, RemoveSidecar, AskedInv
<1>4. ASSUME NEW d \in Deleter, RemoveFromIndex(d) \/ RemoveFails(d)
      PROVE  AskedInv'
  <2>1. PICK rest \in Seq(Artifact) :
          /\ rest = Tail(deletion[d].todo)
          /\ \A i \in DOMAIN rest : \E j \in DOMAIN deletion[d].todo : rest[i] = deletion[d].todo[j]
    BY <1>4, Remaining DEF RemoveFromIndex, RemoveFails
  <2>2. PICK known : GoOn(d, rest, known)
    BY <1>4, <2>1 DEF RemoveFromIndex, RemoveFails
  <2>3. PICK next \in DeletionState :
          /\ deletion' = [deletion EXCEPT ![d] = next]
          /\ \A i \in DOMAIN next.todo : \E j \in DOMAIN rest : next.todo[i] = rest[j]
    BY <2>2, GoesOn
  <2>4. \A i \in DOMAIN next.todo : next.todo[i] \in asked
    BY <2>1, <2>3 DEF AskedInv
  <2>5. \A e \in Deleter : deletion'[e] = IF e = d THEN next ELSE deletion[e]
    BY <2>3 DEF StoreTypeOK
  <2>6. UNCHANGED <<asked, save>>
    BY <1>4 DEF RemoveFromIndex, RemoveFails
  <2>7. QED
    BY <2>4, <2>5, <2>6 DEF AskedInv
<1>5. CASE Crash
  BY <1>1, <1>5 DEF Crash, AskedInv, NoDeletion, StoreTypeOK
<1>6. CASE UNCHANGED <<asked, deletion>>
  BY <1>1, <1>6 DEF AskedInv, StoreTypeOK
<1>7. QED
  <2>1. \/ \E d \in Deleter : \/ \E ids \in Requests : StartDelete(d, ids)
                            \/ RemoveContent(d) \/ RemoveSidecar(d)
                            \/ RemoveFromIndex(d) \/ RemoveFails(d)
        \/ Crash \/ UNCHANGED <<asked, deletion>>
    BY DEF StoreNext, StartSave, ContentWritten, SidecarWritten, AddToIndex, SaveFails,
        RemoveTorn, StartRebuild, ListKeys, PutRecord, RebuildFails, ReadSidecar,
        StartUp, calls, storeVars
  <2>2. QED
    BY <1>2, <1>3, <1>4, <1>5, <1>6, <2>1

\* What the actions of a rebuild do to the record it holds.
LEMMA HeldStep ==
    ASSUME StoreTypeOK, NEW r \in Rebuilder, NEW b \in Artifact
    PROVE  /\ StartRebuild(r) \/ ListKeys(r) \/ PutRecord(r) \/ RebuildFails(r) => (Held(b)' => Held(b))
           /\ PutRecord(r) => Held(rebuild[r].held) /\ rebuild[r].held \in Artifact
           /\ \A a \in Artifact : ReadSidecar(r, a) => (Held(b)' => Held(b) \/ b = a)
<1>1. rebuild[r].keys \in SUBSET Artifact /\ None \notin Artifact
  BY ArtifactsAssumption DEF StoreTypeOK, NoRebuild
<1>2. ToRead({a \in Artifact : sidecar[a] # "none"}).held = None /\ ToRead(rebuild[r].keys).held = None
  BY <1>1, ToReadTyped
<1>3. StartRebuild(r) \/ ListKeys(r) \/ PutRecord(r) \/ RebuildFails(r) =>
        \E next : next.held = None /\ rebuild' = [rebuild EXCEPT ![r] = next]
  <2>1. StartRebuild(r) => rebuild' = [rebuild EXCEPT ![r] = [at |-> "list", keys |-> {}, held |-> None]]
    <3>1. [NoRebuild EXCEPT !.at = "list"] = [at |-> "list", keys |-> {}, held |-> None]
      BY DEF NoRebuild
    <3>2. QED
      BY <3>1 DEF StartRebuild, Begin
  <2>2. NoRebuild.held = None
    BY DEF NoRebuild
  <2>3. QED
    BY <1>2, <2>1, <2>2 DEF ListKeys, PutRecord, RebuildFails
<1>4. StartRebuild(r) \/ ListKeys(r) \/ PutRecord(r) \/ RebuildFails(r) => (Held(b)' => Held(b))
  <2> SUFFICES ASSUME NEW next, next.held = None, rebuild' = [rebuild EXCEPT ![r] = next], Held(b)'
               PROVE  Held(b)
    BY <1>3
  <2>1. PICK q \in Rebuilder : rebuild'[q].held = b
    BY DEF Held
  <2>2. q # r /\ rebuild'[q] = rebuild[q]
    BY <1>1, <2>1 DEF StoreTypeOK
  <2>3. QED
    BY <2>1, <2>2 DEF Held
<1>5. PutRecord(r) => Held(rebuild[r].held) /\ rebuild[r].held \in Artifact
  BY DEF PutRecord, StoreTypeOK, NoRebuild, Held
<1>6. ASSUME NEW a \in Artifact, ReadSidecar(r, a), Held(b)'
      PROVE  Held(b) \/ b = a
  BY <1>6 DEF ReadSidecar, Held, StoreTypeOK
<1>7. QED
  BY <1>4, <1>5, <1>6

LEMMA FilesNext ==
    ASSUME FilesInv, [StoreNext]_storeVars, NEW b \in Artifact
    PROVE  SaveInv(b)' /\ ContentInv(b)'
<1> USE DEF FilesInv
<1>1. SaveInv(b) /\ ContentInv(b)
  OBVIOUS
<1>2. ASSUME NEW a \in Artifact,
             StartSave(a) \/ ContentWritten(a) \/ SidecarWritten(a) \/ AddToIndex(a)
               \/ SaveFails(a) \/ RemoveTorn(a)
      PROVE  SaveInv(b)' /\ ContentInv(b)'
  <2>1. Held(b)' <=> Held(b)
    BY <1>2 DEF StartSave, ContentWritten, SidecarWritten, AddToIndex, SaveFails, RemoveTorn, Held, calls
  <2>2. asked' = asked /\ save[a] \in {"none", "content", "sidecar", "adding", "over"}
    BY <1>2 DEF StartSave, ContentWritten, SidecarWritten, AddToIndex, SaveFails, RemoveTorn, StoreTypeOK
  <2>3. CASE a = b
    BY <1>1, <1>2, <2>1, <2>2, <2>3
    DEF StartSave, ContentWritten, SidecarWritten, AddToIndex, SaveFails, RemoveTorn,
        SaveInv, ContentInv, StoreTypeOK, File, disk, calls
  <2>4. CASE a # b
    BY <1>1, <1>2, <2>1, <2>2, <2>4
    DEF StartSave, ContentWritten, SidecarWritten, AddToIndex, SaveFails, RemoveTorn,
        SaveInv, ContentInv, StoreTypeOK, disk, calls
  <2>5. QED
    BY <2>3, <2>4
<1>3. ASSUME NEW d \in Deleter,
             \/ \E ids \in Requests : StartDelete(d, ids)
             \/ RemoveContent(d) \/ RemoveSidecar(d) \/ RemoveFromIndex(d) \/ RemoveFails(d)
      PROVE  SaveInv(b)' /\ ContentInv(b)'
  <2>1. (Held(b)' <=> Held(b)) /\ save' = save
    BY <1>3 DEF StartDelete, RemoveContent, RemoveSidecar, RemoveFromIndex, RemoveFails, Held
  <2>2. index' \subseteq index /\ asked \subseteq asked'
    BY <1>3 DEF StartDelete, RemoveContent, RemoveSidecar, RemoveFromIndex, RemoveFails
  <2>3. sidecar'[b] = sidecar[b] \/ (sidecar'[b] = "none" /\ b \in asked)
    <3>1. CASE RemoveSidecar(d)
      <4>1. Id(d) \in asked
        BY <3>1, Remaining DEF RemoveSidecar, AskedInv
      <4>2. QED
        BY <3>1, <4>1 DEF RemoveSidecar, StoreTypeOK
    <3>2. CASE ~RemoveSidecar(d)
      BY <1>3, <3>2 DEF StartDelete, RemoveContent, RemoveFromIndex, RemoveFails, disk
    <3>3. QED
      BY <3>1, <3>2
  <2>4. content'[b] = content[b] \/ b \in asked
    <3>1. CASE RemoveContent(d)
      <4>1. Id(d) \in asked
        BY <3>1, Remaining DEF RemoveContent, AskedInv
      <4>2. QED
        BY <3>1, <4>1 DEF RemoveContent, StoreTypeOK
    <3>2. CASE ~RemoveContent(d)
      BY <1>3, <3>2 DEF StartDelete, RemoveSidecar, RemoveFromIndex, RemoveFails, disk
    <3>3. QED
      BY <3>1, <3>2
  <2>5. QED
    BY <1>1, <2>1, <2>2, <2>3, <2>4 DEF SaveInv, ContentInv
<1>4. ASSUME NEW r \in Rebuilder,
             StartRebuild(r) \/ ListKeys(r) \/ PutRecord(r) \/ RebuildFails(r)
      PROVE  SaveInv(b)' /\ ContentInv(b)'
  <2>1. Held(b)' => Held(b)
    BY <1>4, HeldStep
  <2>2. UNCHANGED <<content, sidecar, save, asked>>
    BY <1>4 DEF StartRebuild, Begin, ListKeys, PutRecord, RebuildFails, disk
  <2>3. b \in index' => b \in index \/ Held(b)
    BY <1>4, HeldStep DEF StartRebuild, ListKeys, PutRecord, RebuildFails
  <2>4. QED
    BY <1>1, <2>1, <2>2, <2>3 DEF SaveInv, ContentInv
<1>5. ASSUME NEW r \in Rebuilder, NEW a \in Artifact, ReadSidecar(r, a)
      PROVE  SaveInv(b)' /\ ContentInv(b)'
  <2>1. Held(b)' => Held(b) \/ b = a
    BY <1>5, HeldStep
  <2>2. UNCHANGED <<content, sidecar, save, asked, index>> /\ sidecar[a] = "whole"
    BY <1>5 DEF ReadSidecar, disk
  <2>3. QED
    BY <1>1, <2>1, <2>2 DEF SaveInv, ContentInv
<1>6. CASE Crash
  <2>1. ~Held(b)'
    BY <1>6, ArtifactsAssumption DEF Crash, Held, NoRebuild
  <2>2. save'[b] = save[b] \/ save'[b] = "over"
    BY <1>6 DEF Crash, StoreTypeOK
  <2>3. QED
    BY <1>1, <1>6, <2>1, <2>2 DEF Crash, SaveInv, ContentInv, disk
<1>7. CASE StartUp
  <2>1. ~Held(b)' /\ save[b] \notin {"content", "sidecar", "adding"}
    BY <1>7, ArtifactsAssumption DEF StartUp, Down, Held, Saving, Rebuilding, NoRebuild, calls
  <2>2. QED
    BY <1>1, <1>7, <2>1 DEF StartUp, SaveInv, ContentInv, disk, calls
<1>8. CASE UNCHANGED storeVars
  BY <1>1, <1>8 DEF storeVars, disk, calls, SaveInv, ContentInv, Held
<1>9. QED
  BY <1>2, <1>3, <1>4, <1>5, <1>6, <1>7, <1>8 DEF StoreNext

LEMMA FilesInvInit == StoreInit => FilesInv
<1> SUFFICES ASSUME StoreInit PROVE FilesInv
  OBVIOUS
<1>1. StoreTypeOK
  BY StoreTypeInit
<1>2. Down /\ AskedInv
  BY DEF StoreInit, Down, AskedInv, NoDeletion
<1>3. ASSUME NEW a \in Artifact PROVE SaveInv(a) /\ ContentInv(a)
  BY ArtifactsAssumption DEF StoreInit, SaveInv, ContentInv, Held, NoRebuild
<1>4. QED
  BY <1>1, <1>2, <1>3 DEF FilesInv

LEMMA FilesInvNext == FilesInv /\ [StoreNext]_storeVars => FilesInv'
<1> SUFFICES ASSUME FilesInv, [StoreNext]_storeVars PROVE FilesInv'
  OBVIOUS
<1>1. StoreTypeOK' /\ Down' /\ AskedInv'
  BY StoreTypeNext, DownNext, AskedNext DEF FilesInv
<1>2. \A b \in Artifact : SaveInv(b)' /\ ContentInv(b)'
  BY FilesNext
<1>3. QED
  BY <1>1, <1>2 DEF FilesInv

\* What is listed can be fetched, unless its deletion was asked for.
THEOREM ListedCanBeFetched == StoreSpec => []ListedIsFetchable
<1>1. FilesInv => ListedIsFetchable
  BY DEF FilesInv, ContentInv, ListedIsFetchable, StoreTypeOK
<1>2. QED
  BY <1>1, FilesInvInit, FilesInvNext, PTL DEF StoreSpec

-----------------------------------------------------------------------------
StoreInv == FilesInv /\ (past = {} => Undisturbed)

\* One deletion moves from a place to another, or to its next id.
LEMMA OneDeletion ==
    ASSUME StoreTypeOK, NEW d \in Deleter, NEW next \in DeletionState,
           deletion' = [deletion EXCEPT ![d] = next], next.at # "index", NEW a \in Artifact
    PROVE  /\ AwaitsRemoval(a)' <=> \E e \in Deleter \ {d} : deletion[e].at = "index" /\ Id(e) = a
           /\ \A e \in Deleter : deletion'[e].at = "index" => deletion[e].at = "index" /\ Id(e)' = Id(e)
  BY DEF StoreTypeOK, AwaitsRemoval, Id

\* Saves may interleave with whatever else is at work.
LEMMA SavesUndisturbed ==
    ASSUME FilesInv, Undisturbed, NEW a \in Artifact,
           StartSave(a) \/ ContentWritten(a) \/ SidecarWritten(a) \/ AddToIndex(a)
             \/ SaveFails(a) \/ RemoveTorn(a)
    PROVE  Undisturbed'
<1>1. UNCHANGED <<deletion, rebuild, asked, up>>
  BY DEF StartSave, ContentWritten, SidecarWritten, AddToIndex, SaveFails, RemoveTorn, calls
<1>2. Saving' \cap asked' = {}
  BY <1>1 DEF StartSave, ContentWritten, SidecarWritten, AddToIndex, SaveFails, RemoveTorn, calls,
        Saving, FilesInv, AskedInv, StoreTypeOK, Undisturbed
<1>3. Rebuilding' = {} \/ Deleting' = {}
  BY <1>1 DEF Undisturbed, Rebuilding, Deleting
<1>4. ASSUME NEW d \in Deleter, deletion'[d].at = "index" PROVE sidecar'[Id(d)'] = "none"
  <2>1. Id(d)' = Id(d) /\ deletion[d].at = "index"
    BY <1>1, <1>4 DEF Id
  <2>2. Id(d) \in asked /\ Id(d) \in Artifact /\ sidecar[Id(d)] = "none"
    BY <2>1, Remaining DEF FilesInv, AskedInv, Undisturbed
  <2>3. save[Id(d)] \notin {"content", "sidecar", "adding"}
    BY <2>2 DEF Undisturbed, Saving
  <2>4. QED
    BY <2>1, <2>2, <2>3
    DEF StartSave, ContentWritten, SidecarWritten, AddToIndex, SaveFails, RemoveTorn, disk,
        FilesInv, StoreTypeOK
<1>5. ASSUME NEW b \in Artifact, sidecar[b] = "whole" PROVE sidecar'[b] = "whole"
  BY <1>5 DEF StartSave, ContentWritten, SidecarWritten, AddToIndex, SaveFails, RemoveTorn, disk,
        FilesInv, StoreTypeOK, SaveInv
<1>6. \A r \in Rebuilder : rebuild'[r].at = "put" => sidecar'[rebuild'[r].held] = "whole"
  <2>1. \A r \in Rebuilder : rebuild[r].at = "put" => rebuild[r].held \in Artifact
    BY DEF FilesInv, StoreTypeOK, NoRebuild
  <2>2. QED
    BY <1>1, <1>5, <2>1 DEF Undisturbed
<1>7. ASSUME up', NEW b \in Artifact PROVE Kept(b)'
  <2>1. Kept(b) /\ ~RemoveTorn(a)
    BY <1>1, <1>7 DEF Undisturbed, RemoveTorn
  <2>2. (AwaitsRead(b)' <=> AwaitsRead(b)) /\ (AwaitsRemoval(b)' <=> AwaitsRemoval(b))
    BY <1>1 DEF AwaitsRead, AwaitsRemoval, Id
  <2>3. SaveInv(b) /\ (b \in Saving => b \notin asked)
    BY DEF FilesInv, Undisturbed
  <2>4. CASE b = a
    BY <2>1, <2>2, <2>3, <2>4
    DEF StartSave, ContentWritten, SidecarWritten, AddToIndex, SaveFails, disk,
        FilesInv, StoreTypeOK, SaveInv, Kept, Saving, File
  <2>5. CASE b # a
    BY <2>1, <2>2, <2>5
    DEF StartSave, ContentWritten, SidecarWritten, AddToIndex, SaveFails, disk,
        FilesInv, StoreTypeOK, Kept, Saving
  <2>6. QED
    BY <2>4, <2>5
<1>8. QED
  BY <1>2, <1>3, <1>4, <1>6, <1>7 DEF Undisturbed

\* Deletions keep it so; no rebuild is at work meanwhile.
LEMMA DeletionsUndisturbed ==
    ASSUME FilesInv, Undisturbed, past' = {}, NEW d \in Deleter,
           \/ \E ids \in Requests : StartDelete(d, ids)
           \/ RemoveContent(d) \/ RemoveSidecar(d) \/ RemoveFromIndex(d) \/ RemoveFails(d)
    PROVE  Undisturbed'
<1>1. UNCHANGED <<save, rebuild, up>> /\ Saving' = Saving
  BY DEF StartDelete, RemoveContent, RemoveSidecar, RemoveFromIndex, RemoveFails, Saving
<1>2. Rebuilding = {}
  <2>1. CASE \E ids \in Requests : StartDelete(d, ids)
    BY <2>1 DEF StartDelete, Disturb
  <2>2. CASE ~\E ids \in Requests : StartDelete(d, ids)
    <3>1. d \in Deleting
      BY <2>2 DEF RemoveContent, RemoveSidecar, RemoveFromIndex, RemoveFails, Deleting, NoDeletion
    <3>2. QED
      BY <3>1 DEF Undisturbed
  <2>3. QED
    BY <2>1, <2>2
<1>3. Rebuilding' = {}
  BY <1>1, <1>2 DEF Rebuilding
<1>4. Saving' \cap asked' = {}
  <2>1. CASE \E ids \in Requests : StartDelete(d, ids)
    BY <1>1, <2>1 DEF StartDelete, Disturb, Undisturbed
  <2>2. CASE ~\E ids \in Requests : StartDelete(d, ids)
    BY <1>1, <2>2 DEF RemoveContent, RemoveSidecar, RemoveFromIndex, RemoveFails, Undisturbed
  <2>3. QED
    BY <2>1, <2>2
<1>5. \A r \in Rebuilder : rebuild'[r].at # "put"
  BY <1>3 DEF Rebuilding, NoRebuild
<1>6. \A b \in Artifact : ~AwaitsRead(b)
  BY <1>2, ArtifactsAssumption DEF Rebuilding, NoRebuild, AwaitsRead
<1>7. SUFFICES /\ \A e \in Deleter : deletion'[e].at = "index" => sidecar'[Id(e)'] = "none"
               /\ up => \A b \in Artifact : Kept(b)'
  BY <1>1, <1>3, <1>4, <1>5 DEF Undisturbed
<1>8. (\A e \in Deleter : deletion[e].at = "index" => sidecar[Id(e)] = "none")
      /\ (up => \A b \in Artifact : Kept(b))
  BY DEF Undisturbed
<1>9. StoreTypeOK
  BY DEF FilesInv
<1>10. CASE RemoveSidecar(d)
  <2>1. UNCHANGED <<index, content>> /\ Id(d) \in Artifact
    BY <1>9, <1>10, Remaining DEF RemoveSidecar
  <2>2. sidecar' = [sidecar EXCEPT ![Id(d)] = "none"]
    BY <1>10 DEF RemoveSidecar
  <2>3. \A e \in Deleter : /\ Id(e)' = Id(e)
                          /\ deletion'[e].at = IF e = d THEN "index" ELSE deletion[e].at
    <3>1. deletion' = [deletion EXCEPT ![d] = [at |-> "index", todo |-> deletion[d].todo]]
      BY <1>9, <1>10, StepOn DEF RemoveSidecar
    <3>2. QED
      BY <1>9, <3>1 DEF Id, StoreTypeOK
  <2>4. \A b \in Artifact : AwaitsRemoval(b)' <=> AwaitsRemoval(b) \/ b = Id(d)
    BY <1>10, <2>3 DEF AwaitsRemoval, RemoveSidecar
  <2>5. \A b \in Artifact : sidecar'[b] = IF b = Id(d) THEN "none" ELSE sidecar[b]
    BY <1>9, <2>2 DEF StoreTypeOK
  <2>6. \A e \in Deleter : deletion'[e].at = "index" => Id(e) \in Artifact
    BY <1>9, <2>1, <2>3, Remaining
  <2>7. QED
    BY <1>1, <1>6, <1>8, <2>1, <2>3, <2>4, <2>5, <2>6 DEF Kept
<1>11. CASE ~RemoveSidecar(d)
  <2>1. PICK next \in DeletionState : next.at # "index" /\ deletion' = [deletion EXCEPT ![d] = next]
    <3>1. CASE RemoveContent(d)
      <4>1. deletion[d].at # "idle" /\ deletion' = [deletion EXCEPT ![d].at = "sidecar"]
        BY <3>1 DEF RemoveContent
      <4>2. QED
        BY <1>9, <4>1, StepOn
    <3>2. ASSUME NEW ids \in Requests, StartDelete(d, ids)
          PROVE  \E next \in DeletionState : next.at # "index" /\ deletion' = [deletion EXCEPT ![d] = next]
      <4>1. ids \in Seq(Artifact) /\ GoOn(d, ids, index)
        BY <3>2, RequestsAreLists DEF StartDelete
      <4>2. QED
        BY <1>9, <4>1, GoesOn DEF NoDeletion
    <3>3. CASE RemoveFromIndex(d) \/ RemoveFails(d)
      <4>1. PICK rest \in Seq(Artifact) : rest = Tail(deletion[d].todo)
        BY <1>9, <3>3, Remaining DEF RemoveFromIndex, RemoveFails
      <4>2. PICK known : GoOn(d, rest, known)
        BY <3>3, <4>1 DEF RemoveFromIndex, RemoveFails
      <4>3. QED
        BY <1>9, <4>2, GoesOn DEF NoDeletion
    <3>4. QED
      BY <1>11, <3>1, <3>2, <3>3
  <2>2. sidecar' = sidecar
    BY <1>11 DEF StartDelete, RemoveContent, RemoveFromIndex, RemoveFails, disk
  <2>3. \A e \in Deleter : deletion'[e].at = "index" => sidecar'[Id(e)'] = "none"
    BY <1>8, <1>9, <2>1, <2>2 DEF StoreTypeOK, Id
  <2>4. \A b \in Artifact :
          AwaitsRemoval(b)' <=> \E e \in Deleter \ {d} : deletion[e].at = "index" /\ Id(e) = b
    BY <1>9, <2>1, OneDeletion
  <2>5. CASE RemoveFromIndex(d)
    <3>1. index' = index \ {Id(d)} /\ deletion[d].at = "index"
      BY <2>5 DEF RemoveFromIndex
    <3>2. sidecar[Id(d)] = "none"
      BY <1>8, <3>1
    <3>3. QED
      BY <1>1, <1>6, <1>8, <2>2, <2>3, <2>4, <3>1, <3>2 DEF Kept, AwaitsRemoval
  <2>6. CASE ~RemoveFromIndex(d)
    <3>1. index' = index /\ deletion[d].at # "index"
      BY <1>11, <2>6 DEF StartDelete, RemoveContent, RemoveFails, NoDeletion
    <3>2. QED
      BY <1>1, <1>6, <1>8, <2>2, <2>3, <2>4, <3>1 DEF Kept, AwaitsRemoval
  <2>7. QED
    BY <2>5, <2>6
<1>12. QED
  BY <1>10, <1>11

\* A rebuild that begins in quiet knows nothing yet and has all to read.
LEMMA RebuildBegins ==
    ASSUME FilesInv, past' = {}, NEW r \in Rebuilder, StartRebuild(r)
    PROVE  Undisturbed'
<1>1. /\ UNCHANGED <<sidecar, save, deletion, up, asked>> /\ index' = {}
      /\ Rebuilding = {} /\ Deleting = {} /\ Saving \cap asked = {}
  BY DEF StartRebuild, Begin, disk
<1>2. Saving' \cap asked' = {} /\ Deleting' = {}
  BY <1>1 DEF Saving, Deleting
<1>3. \A d \in Deleter : deletion'[d].at # "index"
  BY <1>2 DEF Deleting, NoDeletion
<1>4. rebuild' = [rebuild EXCEPT ![r] = [at |-> "list", keys |-> {}, held |-> None]]
  <2>1. [NoRebuild EXCEPT !.at = "list"] = [at |-> "list", keys |-> {}, held |-> None]
    BY DEF NoRebuild
  <2>2. QED
    BY <2>1 DEF StartRebuild, Begin
<1>5. \A q \in Rebuilder : rebuild'[q].at # "put"
  BY <1>1, <1>4 DEF Rebuilding, NoRebuild, FilesInv, StoreTypeOK
<1>6. \A b \in Artifact : AwaitsRead(b)'
  BY <1>4 DEF AwaitsRead, FilesInv, StoreTypeOK
<1>7. QED
  BY <1>1, <1>2, <1>3, <1>5, <1>6 DEF Undisturbed, Kept

\* A rebuild reads every file that nothing else is at work on.
LEMMA RebuildsUndisturbed ==
    ASSUME FilesInv, Undisturbed, past' = {}, NEW r \in Rebuilder,
           \/ ListKeys(r) \/ PutRecord(r) \/ RebuildFails(r)
           \/ \E a \in Artifact : ReadSidecar(r, a)
    PROVE  Undisturbed'
<1>1. UNCHANGED <<sidecar, save, deletion, up, asked>> /\ ~RebuildFails(r)
  BY DEF ListKeys, PutRecord, ReadSidecar, RebuildFails, disk
<1>2. rebuild[r].at # "idle" /\ rebuild[r] # NoRebuild /\ r \in Rebuilding
  BY <1>1 DEF ListKeys, PutRecord, ReadSidecar, NoRebuild, Rebuilding
<1>3. Saving' \cap asked' = {} /\ Deleting' = {}
  BY <1>1, <1>2 DEF Undisturbed, Saving, Deleting
<1>4. \A d \in Deleter : deletion'[d].at # "index" /\ deletion[d].at # "index"
  BY <1>1, <1>3 DEF Deleting, NoDeletion
<1>5. StoreTypeOK /\ None \notin Artifact
  BY ArtifactsAssumption DEF FilesInv
<1>6. rebuild[r].keys \in SUBSET Artifact
  BY <1>5 DEF StoreTypeOK, NoRebuild
<1>7. /\ \A b \in index : sidecar[b] = "whole"
      /\ \A b \in Artifact : up /\ sidecar[b] = "whole" /\ b \notin Saving =>
           b \in index \/ AwaitsRead(b)
      /\ \A q \in Rebuilder : rebuild[q].at = "put" => sidecar[rebuild[q].held] = "whole"
  <2>1. up
    BY <1>2 DEF FilesInv, Down
  <2>2. QED
    BY <1>4, <1>5, <2>1 DEF Undisturbed, Kept, AwaitsRemoval, StoreTypeOK
<1>8. ASSUME NEW next \in RebuildState, rebuild' = [rebuild EXCEPT ![r] = next],
             next.at = "put" => sidecar[next.held] = "whole",
             \A b \in index' : sidecar[b] = "whole",
             index \subseteq index',
             \A b \in Artifact :
               /\ sidecar[b] = "whole"
               /\ rebuild[r].at = "list" \/ b \in rebuild[r].keys \/ rebuild[r].held = b
               => b \in index' \/ b \in next.keys \/ next.held = b
      PROVE  Undisturbed'
  <2>1. \A q \in Rebuilder : rebuild'[q] = IF q = r THEN next ELSE rebuild[q]
    BY <1>5, <1>8 DEF StoreTypeOK
  <2>2. \A q \in Rebuilder : rebuild'[q].at = "put" => sidecar'[rebuild'[q].held] = "whole"
    BY <1>1, <1>7, <1>8, <2>1
  <2>3. ASSUME NEW b \in Artifact, sidecar[b] = "whole", b \in index \/ AwaitsRead(b)
        PROVE  b \in index' \/ AwaitsRead(b)'
    <3>1. CASE b \in index
      BY <1>8, <3>1
    <3>2. ASSUME NEW q \in Rebuilder,
                 rebuild[q].at = "list" \/ b \in rebuild[q].keys \/ rebuild[q].held = b
          PROVE  b \in index' \/ AwaitsRead(b)'
      BY <1>8, <2>1, <2>3, <3>2 DEF AwaitsRead
    <3>3. QED
      BY <2>3, <3>1, <3>2 DEF AwaitsRead
  <2>4. up' => \A b \in Artifact : Kept(b)'
    BY <1>1, <1>7, <1>8, <2>3 DEF Kept, Saving
  <2>5. QED
    BY <1>3, <1>4, <2>2, <2>4 DEF Undisturbed
<1>9. CASE ListKeys(r)
  <2> DEFINE keys == {a \in Artifact : sidecar[a] # "none"}
  <2>1. rebuild' = [rebuild EXCEPT ![r] = ToRead(keys)] /\ index' = index
    BY <1>9 DEF ListKeys
  <2>2. /\ ToRead(keys) \in RebuildState /\ ToRead(keys).keys = keys
        /\ ToRead(keys).at # "put"
    BY ToReadTyped
  <2>3. \A b \in Artifact : sidecar[b] = "whole" => b \in keys
    OBVIOUS
  <2> HIDE DEF keys
  <2>4. QED
    BY <1>7, <1>8, <2>1, <2>2, <2>3
<1>10. CASE PutRecord(r)
  <2> DEFINE keys == rebuild[r].keys
  <2>1. /\ rebuild' = [rebuild EXCEPT ![r] = ToRead(keys)]
        /\ index' = index \cup {rebuild[r].held} /\ rebuild[r].at = "put"
    BY <1>10 DEF PutRecord
  <2>2. /\ ToRead(keys) \in RebuildState /\ ToRead(keys).keys = keys
        /\ ToRead(keys).at # "put"
    BY <1>6, ToReadTyped
  <2>3. QED
    BY <1>7, <1>8, <2>1, <2>2
<1>11. ASSUME NEW a \in Artifact, ReadSidecar(r, a)
       PROVE  Undisturbed'
  <2> DEFINE next == [at |-> "put", keys |-> rebuild[r].keys \ {a}, held |-> a]
  <2>1. /\ rebuild' = [rebuild EXCEPT ![r] = next] /\ index' = index
        /\ rebuild[r].at = "read" /\ sidecar[a] = "whole"
    BY <1>11 DEF ReadSidecar
  <2>2. next \in RebuildState /\ next.held = a /\ next.keys = rebuild[r].keys \ {a}
    BY <1>6 DEF RebuildState
  <2>3. rebuild[r].held = None
    BY <1>5, <2>1 DEF StoreTypeOK
  <2> HIDE DEF next
  <2>4. QED
    BY <1>5, <1>7, <1>8, <2>1, <2>2, <2>3
<1>12. QED
  BY <1>1, <1>9, <1>10, <1>11

LEMMA StoreInvNext == StoreInv /\ [StoreNext]_storeVars => StoreInv'
<1> SUFFICES ASSUME StoreInv, [StoreNext]_storeVars, past' = {} PROVE Undisturbed'
  BY FilesInvNext DEF StoreInv
<1>1. FilesInv /\ (past = {} => Undisturbed)
  BY DEF StoreInv
<1>2. ASSUME NEW a \in Artifact,
             StartSave(a) \/ ContentWritten(a) \/ SidecarWritten(a) \/ AddToIndex(a)
               \/ SaveFails(a) \/ RemoveTorn(a)
      PROVE  Undisturbed'
  <2>1. past = {}
    BY <1>2 DEF StartSave, ContentWritten, SidecarWritten, AddToIndex, SaveFails, RemoveTorn
  <2>2. QED
    BY <1>1, <1>2, <2>1, SavesUndisturbed
<1>3. ASSUME NEW d \in Deleter,
             \/ \E ids \in Requests : StartDelete(d, ids)
             \/ RemoveContent(d) \/ RemoveSidecar(d) \/ RemoveFromIndex(d) \/ RemoveFails(d)
      PROVE  Undisturbed'
  <2>1. past = {}
    BY <1>3 DEF StartDelete, Disturb, RemoveContent, RemoveSidecar, RemoveFromIndex, RemoveFails
  <2>2. QED
    BY <1>1, <1>3, <2>1, DeletionsUndisturbed
<1>4. ASSUME NEW r \in Rebuilder,
             \/ StartRebuild(r) \/ ListKeys(r) \/ PutRecord(r) \/ RebuildFails(r)
             \/ \E a \in Artifact : ReadSidecar(r, a)
      PROVE  Undisturbed'
  <2>1. StartRebuild(r) \/ past = {}
    BY <1>4 DEF ListKeys, PutRecord, RebuildFails, ReadSidecar
  <2>2. QED
    BY <1>1, <1>4, <2>1, RebuildBegins, RebuildsUndisturbed
<1>5. CASE Crash \/ StartUp
  <2>1. Saving' = {} /\ Deleting' = {} /\ Rebuilding' = {}
    BY <1>1, <1>5 DEF Crash, StartUp, FilesInv, Down, Saving, Deleting, Rebuilding, calls
  <2>2. /\ \A d \in Deleter : deletion'[d].at # "index"
        /\ \A r \in Rebuilder : rebuild'[r].at # "put"
    BY <2>1 DEF Deleting, Rebuilding, NoDeletion, NoRebuild
  <2>3. up' => \A b \in Artifact : Kept(b)'
    BY <1>5 DEF Crash, StartUp, Kept, disk
  <2>4. QED
    BY <2>1, <2>2, <2>3 DEF Undisturbed
<1>6. CASE UNCHANGED storeVars
  BY <1>1, <1>6
  DEF storeVars, disk, calls, Undisturbed, Kept, AwaitsRead, AwaitsRemoval, Saving, Rebuilding,
      Deleting, Id
<1>7. QED
  BY <1>2, <1>3, <1>4, <1>5, <1>6 DEF StoreNext

LEMMA StoreInvInit == StoreInit => StoreInv
<1> SUFFICES ASSUME StoreInit PROVE Undisturbed
  BY FilesInvInit DEF StoreInv
<1>1. Saving = {} /\ Deleting = {} /\ Rebuilding = {}
  BY DEF StoreInit, Saving, Deleting, Rebuilding
<1>2. /\ \A d \in Deleter : deletion[d].at # "index"
      /\ \A r \in Rebuilder : rebuild[r].at # "put"
  BY <1>1 DEF Deleting, Rebuilding, NoDeletion, NoRebuild
<1>3. QED
  BY <1>1, <1>2 DEF StoreInit, Undisturbed, Kept

\* At rest the index holds what is on disk, unless a rebuild met a deletion.
THEOREM IndexIsTrue == StoreSpec => []IndexAgrees
<1>1. StoreInv => IndexAgrees
  <2> SUFFICES ASSUME StoreInv, up, Saving = {}, Deleting = {}, Rebuilding = {}, past = {}
               PROVE  index = {a \in Artifact : sidecar[a] = "whole"}
    BY DEF IndexAgrees
  <2>1. index \subseteq Artifact /\ \A a \in Artifact : Kept(a)
    BY DEF StoreInv, FilesInv, StoreTypeOK, Undisturbed
  <2>2. \A a \in Artifact : ~AwaitsRead(a) /\ ~AwaitsRemoval(a)
    BY ArtifactsAssumption DEF AwaitsRead, AwaitsRemoval, Rebuilding, Deleting, NoRebuild, NoDeletion
  <2>3. QED
    BY <2>1, <2>2 DEF Kept
<1>2. QED
  BY <1>1, StoreInvInit, StoreInvNext, PTL DEF StoreSpec
=============================================================================
