---------------------------- MODULE RecoveryProofs ----------------------------
(***************************************************************************)
(* The promises of Recovery, for whatever operations are offered or begun  *)
(* from a terminal, and for any number of faults.                          *)
(***************************************************************************)
EXTENDS Recovery, SequenceTheorems, TLAPS

\* The kinds of operations in progress, spelt out.
LEMMA MarkersAreFive ==
    /\ Marker = {"merge", "rebase", "cherry-pick", "revert", "bisect"}
    /\ DOMAIN MarkerOrder = 1..5
    /\ \A i \in 1..5 : MarkerOrder[i] \in Marker
    /\ \A k \in Marker : \E i \in 1..5 : MarkerOrder[i] = k
  <1>1. DOMAIN MarkerOrder = 1..5
    BY DEF MarkerOrder
  <1>2. 1..5 = {1, 2, 3, 4, 5}
    OBVIOUS
  <1>3. /\ MarkerOrder[1] = "merge" /\ MarkerOrder[2] = "rebase"
        /\ MarkerOrder[3] = "cherry-pick" /\ MarkerOrder[4] = "revert"
        /\ MarkerOrder[5] = "bisect"
    BY DEF MarkerOrder
  <1>4. Marker = {"merge", "rebase", "cherry-pick", "revert", "bisect"}
    BY <1>1, <1>2, <1>3 DEF Marker
  <1> QED BY <1>1, <1>2, <1>3, <1>4

\* Of the operations with a file in the git directory, one is taken for the
\* one in progress.
LEMMA InProgressIsMarked ==
    ASSUME NEW ms \in SUBSET Marker, ms # {}
    PROVE  InProgress(ms) \in ms
  <1> DEFINE First(i) == /\ MarkerOrder[i] \in ms
                         /\ \A j \in 1..i - 1 : MarkerOrder[j] \notin ms
  <1>1. \E i \in 1..5 : First(i)
    <2>1. \E i \in 1..5 : MarkerOrder[i] \in ms
      <3>1. PICK k \in ms : k \in Marker
        OBVIOUS
      <3>2. PICK i \in 1..5 : MarkerOrder[i] = k
        BY <3>1, MarkersAreFive
      <3> QED BY <3>1, <3>2
    <2>2. CASE MarkerOrder[1] \in ms
      BY <2>2
    <2>3. CASE MarkerOrder[1] \notin ms /\ MarkerOrder[2] \in ms
      <3>1. First(2)
        BY <2>3
      <3> QED BY <3>1
    <2>4. CASE (\A j \in 1..2 : MarkerOrder[j] \notin ms) /\ MarkerOrder[3] \in ms
      <3>1. First(3)
        BY <2>4
      <3> QED BY <3>1
    <2>5. CASE (\A j \in 1..3 : MarkerOrder[j] \notin ms) /\ MarkerOrder[4] \in ms
      <3>1. First(4)
        BY <2>5
      <3> QED BY <3>1
    <2>6. CASE (\A j \in 1..4 : MarkerOrder[j] \notin ms) /\ MarkerOrder[5] \in ms
      <3>1. First(5)
        BY <2>6
      <3> QED BY <3>1
    <2> QED BY <2>1, <2>2, <2>3, <2>4, <2>5, <2>6
  <1>2. \E i \in DOMAIN MarkerOrder : First(i)
    BY <1>1, MarkersAreFive
  <1>3. InProgress(ms) = MarkerOrder[CHOOSE i \in DOMAIN MarkerOrder : First(i)]
    BY DEF InProgress
  <1> QED BY <1>2, <1>3

LEMMA InProgressType ==
    ASSUME NEW ms \in SUBSET Marker
    PROVE  /\ InProgress(ms) \in ms \cup {None}
           /\ InProgress(ms) = None => ms = {}
  BY InProgressIsMarked, RepositoryStatesAssumption DEF InProgress

-----------------------------------------------------------------------------
\* The entry of a killed operation stays the newest of the journal: until its
\* marker is gone only a fetch is let through.
EntryIsKept ==
  killed # None =>
    /\ killed \in markers
    /\ newest # None /\ newest.kind = killed
    /\ command = NoCommand \/ (command.at = "running" /\ command.op = "fetch")

Steps == [command : {"abort", "create-branch", "remove-stale-lock"},
          on : Marker \cup LockFile \cup {None}]

\* What both calls are made of.
Commands == [at : {"idle", "asking", "running"}, op : Offered \cup {None}, prompted : BOOLEAN]

LEMMA CommandsAre ==
    ASSUME NEW at \in {"idle", "asking", "running"}, NEW op \in Offered \cup {None},
           NEW prompted \in BOOLEAN
    PROVE  [at |-> at, op |-> op, prompted |-> prompted] \in Commands
  BY DEF Commands

Records ==
  /\ command \in Commands
  /\ recovery \in [at : {"idle", "planned", "stepping", "asking"},
                   state : RepositoryState \cup {None},
                   steps : Seq(Steps), prompted : BOOLEAN]

IInv == TypeOK /\ Records /\ EntryIsKept

LEMMA RecoveryInit == Init => IInv
  <1> SUFFICES ASSUME Init PROVE IInv
    OBVIOUS
  <1>1. TypeOK
    <2>1. 0 \in 0..MaxFaults
      BY RecoveryAssumption
    <2>2. lock \in [LockFile -> LockState]
      BY DEF Init, LockState
    <2>3. /\ command.at = "idle" /\ command.op = None
          /\ recovery.at = "idle" /\ recovery.steps = <<>>
      BY DEF Init, NoCommand, NoRecovery
    <2> QED BY <2>1, <2>2, <2>3 DEF Init, TypeOK
  <1>2. <<>> \in Seq(Steps)
    OBVIOUS
  <1>3. Records
    BY <1>2 DEF Init, Records, Commands, NoCommand, NoRecovery
  <1>4. EntryIsKept
    BY DEF Init, EntryIsKept
  <1> QED BY <1>1, <1>3, <1>4 DEF IInv

\* A plan is a few steps of the known kinds.
LEMMA PlanType ==
    ASSUME TypeOK PROVE Plan(Health) \in Seq(Steps)
  <1> DEFINE kind == InProgress(markers)
  <1>1. kind \in Marker \cup {None}
    BY InProgressType DEF TypeOK
  <1>2. Health.inProgress = kind /\ Health.interrupted \in {kind, None}
    BY DEF Health, Interrupted
  <1>3. RemoveLock(Health) \in Seq(Steps)
    <2>1. Step("remove-stale-lock", "index") \in Steps /\ Step("remove-stale-lock", "head") \in Steps
      BY DEF Step, Steps, LockFile
    <2> QED BY <2>1 DEF RemoveLock
  <1>4. CASE Classify(Health) \in Normal
    BY <1>4 DEF Plan
  <1>5. CASE Classify(Health) \notin Normal
    <2>1. Repair(Health) \in Steps
      BY <1>1, <1>2, <1>5 DEF Repair, Classify, Normal, Step, Steps
    <2> QED BY <1>3, <1>5, <2>1 DEF Plan
  <1> QED BY <1>4, <1>5

LEMMA ClassifyType ==
    ASSUME TypeOK PROVE Classify(Health) \in RepositoryState
  <1>1. InProgress(markers) \in Marker \cup {None}
    BY InProgressType DEF TypeOK
  <1> QED BY <1>1 DEF Classify, Health, Interrupted, RepositoryState, Normal

\* Whichever entry an operation opens, it is a fresh one of its own kind.
LEMMA OpenType ==
    ASSUME NEW op, NEW e \in Open(op), TypeOK
    PROVE  e \in [kind : {"merge", "rebase"}, old : BOOLEAN] \cup {None}
  <1>1. CASE op = "fetch"
    BY <1>1 DEF Open, TypeOK
  <1>2. CASE op # "fetch"
    <2>1. Conflicts(op) \subseteq {"merge", "rebase"}
      BY DEF Conflicts
    <2>2. e = None \/ \E k \in Conflicts(op) : e = [kind |-> k, old |-> FALSE]
      BY <1>2 DEF Open
    <2>3. ASSUME NEW k \in {"merge", "rebase"}, e = [kind |-> k, old |-> FALSE]
          PROVE  e \in [kind : {"merge", "rebase"}, old : BOOLEAN]
      BY <2>3
    <2> QED BY <2>1, <2>2, <2>3
  <1> QED BY <1>1, <1>2

LEMMA TailType ==
    ASSUME NEW S, NEW s \in Seq(S), s # <<>>, Len(s) # 1
    PROVE  Tail(s) \in Seq(S) /\ Tail(s) # <<>>
  <1>1. Tail(s) \in Seq(S) /\ Len(Tail(s)) = Len(s) - 1
    BY HeadTailProperties
  <1>2. Len(s) \in Nat
    BY LenProperties
  <1>3. Len(Tail(s)) # 0
    BY <1>1, <1>2
  <1>4. Tail(s) # <<>>
    BY <1>3, Len(<<>>) = 0
  <1> QED BY <1>1, <1>4

\* A finished step leaves the rest of the plan.
LEMMA StepDoneType ==
    ASSUME Records, UNCHANGED command, recovery.steps # <<>>, StepDone
    PROVE  /\ Records'
           /\ recovery'.at \in {"idle", "planned", "stepping", "asking"}
           /\ recovery'.at = "idle" <=> recovery'.steps = <<>>
  <1>1. CASE Len(recovery.steps) = 1
    <2>1. <<>> \in Seq(Steps)
      OBVIOUS
    <2> QED BY <1>1, <2>1 DEF StepDone, NoRecovery, Records
  <1>2. CASE Len(recovery.steps) # 1
    <2>1. Tail(recovery.steps) \in Seq(Steps) /\ Tail(recovery.steps) # <<>>
      BY <1>2, TailType DEF Records
    <2> QED BY <1>2, <2>1 DEF StepDone, Records
  <1> QED BY <1>1, <1>2

-----------------------------------------------------------------------------
LEMMA RecoveryNext == IInv /\ [Next]_vars => IInv'
  <1> SUFFICES ASSUME IInv, [Next]_vars PROVE IInv'
    OBVIOUS
  <1> USE DEF IInv
  <1>1. ASSUME NEW op \in Offered, NEW input \in Input, Execute(op, input)
        PROVE  IInv'
    <2>2. newest' = newest \/ newest' \in Open(op)
      BY <1>1 DEF Execute, Start
    <2>3. newest' \in [kind : {"merge", "rebase"}, old : BOOLEAN] \cup {None}
      BY <2>2, OpenType DEF TypeOK
    <2>1. \/ command' = [at |-> "asking", op |-> op, prompted |-> TRUE]
          \/ command' = [at |-> "running", op |-> op, prompted |-> FALSE]
      BY <1>1 DEF Execute, Start, HasChat
    <2>4. UNCHANGED <<markers, lock, detached, dirty, upstream, torn, killed, recovery, faults>>
      BY <1>1 DEF Execute, git
    <2>5. Records'
      <3>1. command' \in Commands
        BY <1>1, <2>1, CommandsAre
      <3> QED BY <2>4, <3>1 DEF Records
    <2>7. TypeOK'
      BY <2>1, <2>3, <2>4 DEF TypeOK
    <2>6. EntryIsKept'
      <3> SUFFICES ASSUME killed # None PROVE EntryIsKept'
        BY <2>4 DEF EntryIsKept
      <3>1. markers # {} /\ InProgress(markers) # None
        BY InProgressType DEF EntryIsKept, TypeOK
      <3>2. op = "fetch"
        BY <1>1, <3>1 DEF Execute, RecommendsRecovery, Health
      <3>3. command' = [at |-> "running", op |-> "fetch", prompted |-> FALSE] /\ newest' = newest
        BY <1>1, <3>2 DEF Execute, RequestsApproval, Start, Open
      <3> QED BY <2>4, <3>3 DEF EntryIsKept
    <2> QED BY <2>5, <2>6, <2>7
  <1>2. ASSUME Decided PROVE IInv'
    <2>1. killed = None
      BY <1>2 DEF Decided, EntryIsKept, NoCommand
    <2>2. command.op \in Offered \cup {None} /\ command.at = "asking"
      BY <1>2 DEF Decided, TypeOK
    <2>3. newest' = newest \/ newest' \in Open(command.op)
      BY <1>2 DEF Decided, Start, Decisions
    <2>4. newest' \in [kind : {"merge", "rebase"}, old : BOOLEAN] \cup {None}
      BY <2>3, OpenType DEF TypeOK
    <2>5. \/ command' = NoCommand
          \/ command' = [at |-> "running", op |-> command.op, prompted |-> FALSE]
      BY <1>2 DEF Decided, Start, Decisions
    <2>7. UNCHANGED <<markers, lock, detached, dirty, upstream, torn, killed, recovery, faults>>
      BY <1>2 DEF Decided, git
    <2>6. Records'
      <3>1. command' \in Commands
        BY <2>2, <2>5, CommandsAre DEF NoCommand
      <3> QED BY <2>7, <3>1 DEF Records
    <2>8. TypeOK'
      BY <2>2, <2>4, <2>5, <2>7 DEF TypeOK, NoCommand
    <2> QED BY <2>1, <2>6, <2>7, <2>8 DEF EntryIsKept
  <1>3. ASSUME StopsAtConflict PROVE IInv'
    <2>1. newest \in [kind : {"merge", "rebase"}, old : BOOLEAN]
      BY <1>3 DEF StopsAtConflict, TypeOK
    <2>2. markers' \subseteq Marker /\ detached' \in BOOLEAN /\ dirty' \in BOOLEAN
      BY <1>3, <2>1, MarkersAreFive DEF StopsAtConflict
    <2>3. killed = None
      BY <1>3 DEF StopsAtConflict, TypeOK, EntryIsKept
    <2>4. command' = NoCommand /\ UNCHANGED <<lock, upstream, newest, torn, killed, recovery, faults>>
      BY <1>3 DEF StopsAtConflict, journal
    <2>5. TypeOK' /\ Records'
      BY <2>2, <2>3, <2>4 DEF TypeOK, Records, Commands, NoCommand
    <2> QED BY <2>3, <2>4, <2>5 DEF EntryIsKept
  <1>4. ASSUME Succeeds PROVE IInv'
    <2>1. dirty' \in BOOLEAN /\ detached' \in BOOLEAN
      BY <1>4 DEF Succeeds, Performed, TypeOK
    <2>2. upstream' \subseteq {"ahead", "behind"}
      BY <1>4 DEF Succeeds, Performed, TypeOK
    <2>3. /\ command.at = "running" /\ command' = NoCommand
          /\ newest' = IF command.op = "fetch" THEN newest ELSE None
          /\ UNCHANGED <<markers, lock, torn, killed, recovery, faults>>
      BY <1>4 DEF Succeeds
    <2>4. TypeOK' /\ Records'
      BY <2>1, <2>2, <2>3 DEF TypeOK, Records, Commands, NoCommand
    <2> QED BY <2>3, <2>4 DEF EntryIsKept, NoCommand
  <1>5. ASSUME Fails PROVE IInv'
    <2>1. /\ command.at = "running" /\ command' = NoCommand
          /\ newest' = IF command.op = "fetch" THEN newest ELSE None
          /\ UNCHANGED <<markers, lock, detached, dirty, upstream, torn, killed, recovery, faults>>
      BY <1>5 DEF Fails, git
    <2>2. TypeOK' /\ Records'
      BY <2>1 DEF TypeOK, Records, Commands, NoCommand
    <2> QED BY <2>1, <2>2 DEF EntryIsKept, NoCommand
  <1>6. ASSUME UNCHANGED <<markers, lock, detached, dirty, upstream, newest, torn, killed, command, faults>>,
               Records',
               recovery'.at \in {"idle", "planned", "stepping", "asking"},
               recovery'.at = "idle" <=> recovery'.steps = <<>>
        PROVE  IInv'
    BY <1>6 DEF TypeOK, EntryIsKept
  <1>7. ASSUME Recover PROVE IInv'
    <2>1. Plan(Health) \in Seq(Steps) /\ Plan(Health) # <<>>
      BY <1>7, PlanType DEF Recover
    <2>2. recovery' = [NoRecovery EXCEPT !.at = "planned", !.state = Classify(Health), !.steps = Plan(Health)]
      BY <1>7 DEF Recover
    <2>3. Classify(Health) \in RepositoryState
      BY ClassifyType
    <2>4. Records' /\ recovery'.at = "planned" /\ recovery'.steps # <<>>
      BY <1>7, <2>1, <2>2, <2>3 DEF Recover, Records, NoRecovery
    <2> QED BY <1>6, <1>7, <2>4 DEF Recover, git, journal
  <1>8. ASSUME Validate PROVE IInv'
    <2>1. recovery' = NoRecovery \/ recovery' = [recovery EXCEPT !.at = "stepping"]
      BY <1>8 DEF Validate
    <2>2. Records' /\ recovery'.at \in {"idle", "stepping"}
          /\ (recovery'.at = "idle" <=> recovery'.steps = <<>>)
      BY <1>8, <2>1, EmptySeq DEF Validate, Records, NoRecovery, TypeOK
    <2> QED BY <1>6, <1>8, <2>2 DEF Validate, git, journal
  <1>9. ASSUME AskForStep PROVE IInv'
    <2>1. recovery' = [recovery EXCEPT !.at = "asking", !.prompted = FALSE]
      BY <1>9 DEF AskForStep, HasChat
    <2>2. Records' /\ recovery'.at = "asking" /\ recovery'.steps # <<>>
      BY <1>9, <2>1 DEF AskForStep, Records, TypeOK
    <2> QED BY <1>6, <1>9, <2>2 DEF AskForStep, git, journal
  <1>10. ASSUME StepDecided PROVE IInv'
    <2>1. recovery' = NoRecovery /\ UNCHANGED lock
      BY <1>10 DEF StepDecided, Decisions, HasChat
    <2>2. Records' /\ recovery'.at = "idle" /\ recovery'.steps = <<>>
      BY <1>10, <2>1, EmptySeq DEF StepDecided, Records, NoRecovery
    <2> QED BY <1>6, <1>10, <2>1, <2>2 DEF StepDecided, journal
  <1>11. ASSUME NEW k \in Marker, Ended(k), Records', UNCHANGED <<lock, upstream, newest, torn, command, faults>>,
                recovery'.at \in {"idle", "planned", "stepping", "asking"},
                recovery'.at = "idle" <=> recovery'.steps = <<>>
         PROVE  IInv'
    <2>1. markers' = markers \ {k} /\ killed' = IF killed = k THEN None ELSE killed
      BY <1>11 DEF Ended
    <2>2. detached' \in BOOLEAN /\ dirty' \in BOOLEAN
      BY <1>11 DEF Ended, TypeOK
    <2> QED BY <1>11, <2>1, <2>2 DEF TypeOK, EntryIsKept
  <1>12. ASSUME RunStep PROVE IInv'
    <2>1. /\ Records'
          /\ recovery'.at \in {"idle", "planned", "stepping", "asking"}
          /\ recovery'.at = "idle" <=> recovery'.steps = <<>>
      BY <1>12, StepDoneType DEF RunStep, TypeOK
    <2>2. CASE Head(recovery.steps).on \in markers /\ Ended(Head(recovery.steps).on)
      BY <1>11, <1>12, <2>1, <2>2 DEF RunStep, TypeOK
    <2>3. CASE detached' = FALSE /\ UNCHANGED <<markers, killed, dirty>>
      <3>1. UNCHANGED <<lock, upstream, newest, torn, command, faults>>
        BY <1>12 DEF RunStep
      <3> QED BY <2>1, <2>3, <3>1 DEF TypeOK, EntryIsKept
    <2> QED BY <1>12, <2>2, <2>3 DEF RunStep
  <1>13. ASSUME StepFails PROVE IInv'
    <2>1. recovery' = NoRecovery
      BY <1>13 DEF StepFails
    <2>2. Records' /\ recovery'.at = "idle" /\ recovery'.steps = <<>>
      BY <1>13, <2>1, EmptySeq DEF StepFails, Records, NoRecovery
    <2> QED BY <1>6, <1>13, <2>2 DEF StepFails, git, journal
  <1>14. ASSUME Abort PROVE IInv'
    <2>1. InProgress(markers) \in Marker
      BY <1>14, InProgressType DEF Abort, TypeOK
    <2> QED BY <1>11, <1>14, <2>1 DEF Abort, Records, TypeOK
  <1>15. ASSUME NEW f \in LockFile,
                TakeLock(f) \/ ReleaseLock(f) \/ KillGit(f) \/ LockAges(f) \/ RemoveByHand(f)
         PROVE  IInv'
    <2>1. lock' \in [LockFile -> LockState]
      BY <1>15 DEF TakeLock, ReleaseLock, KillGit, LockAges, RemoveByHand, LockState, TypeOK
    <2>2. faults' \in 0..MaxFaults
      BY <1>15, RecoveryAssumption
      DEF TakeLock, ReleaseLock, KillGit, LockAges, RemoveByHand, Fault, TypeOK
    <2>3. UNCHANGED <<markers, detached, dirty, upstream, newest, torn, killed, command, recovery>>
      BY <1>15 DEF TakeLock, ReleaseLock, KillGit, LockAges, RemoveByHand, journal
    <2> QED BY <2>1, <2>2, <2>3 DEF TypeOK, Records, EntryIsKept
  <1>16. ASSUME EntryAges PROVE IInv'
    <2>1. /\ newest # None /\ newest' = [newest EXCEPT !.old = TRUE]
          /\ newest \in [kind : {"merge", "rebase"}, old : BOOLEAN]
      BY <1>16 DEF EntryAges, TypeOK
    <2>2. newest' \in [kind : {"merge", "rebase"}, old : BOOLEAN] /\ newest'.kind = newest.kind
      BY <2>1
    <2>3. newest' # None
      BY <2>2, RecoveryAssumption
    <2>4. UNCHANGED <<markers, lock, detached, dirty, upstream, torn, killed, command, recovery, faults>>
      BY <1>16 DEF EntryAges, git
    <2> QED BY <2>2, <2>3, <2>4 DEF TypeOK, Records, EntryIsKept
  <1>17. ASSUME NEW k \in Foreign, BeginForeign(k) PROVE IInv'
    <2>1. markers' \subseteq Marker /\ dirty' \in BOOLEAN /\ detached' \in BOOLEAN
      BY <1>17, RecoveryAssumption DEF BeginForeign, TypeOK
    <2>2. markers \subseteq markers'
          /\ UNCHANGED <<lock, upstream, newest, torn, killed, command, recovery, faults>>
      BY <1>17 DEF BeginForeign, journal
    <2> QED BY <2>1, <2>2 DEF TypeOK, Records, EntryIsKept
  <1>18. ASSUME NEW k \in Foreign, EndForeign(k) PROVE IInv'
    BY <1>11, <1>18, RecoveryAssumption DEF EndForeign, Records, TypeOK
  <1>19. ASSUME Edit \/ Detach \/ UNCHANGED vars PROVE IInv'
    BY <1>19 DEF Edit, Detach, vars, git, journal, TypeOK, Records, EntryIsKept
  <1>20. ASSUME Crash PROVE IInv'
    <2>1. lock' \in [LockFile -> LockState]
      BY <1>20 DEF Crash, LockState, TypeOK
    <2>2. faults' \in 0..MaxFaults
      BY <1>20, RecoveryAssumption DEF Crash, Fault, TypeOK
    <2>3. command' = NoCommand /\ recovery' = NoRecovery /\ UNCHANGED <<upstream, newest>>
      BY <1>20 DEF Crash
    <2>4. Records' /\ recovery'.at = "idle" /\ recovery'.steps = <<>>
      BY <2>3, EmptySeq DEF Records, Commands, NoCommand, NoRecovery
    <2>5. CASE torn' \in BOOLEAN /\ UNCHANGED <<markers, killed, dirty, detached>>
      BY <2>1, <2>2, <2>3, <2>4, <2>5 DEF TypeOK, EntryIsKept, NoCommand
    <2>6. CASE /\ newest # None /\ markers = {}
               /\ markers' = {newest.kind} /\ killed' = newest.kind
               /\ dirty' \in {dirty, TRUE} /\ detached' = (newest.kind = "rebase")
               /\ UNCHANGED torn
      <3>1. newest.kind \in Marker
        BY <2>6, MarkersAreFive DEF TypeOK
      <3> QED BY <2>1, <2>2, <2>3, <2>4, <2>6, <3>1 DEF TypeOK, EntryIsKept, NoCommand
    <2> QED BY <1>20, <2>5, <2>6 DEF Crash, TypeOK
  <1> QED
    BY <1>1, <1>2, <1>3, <1>4, <1>5, <1>7, <1>8, <1>9, <1>10, <1>12, <1>13, <1>14,
       <1>15, <1>16, <1>17, <1>18, <1>19, <1>20 DEF Next

LEMMA Inductive == Spec => []IInv
  BY RecoveryInit, RecoveryNext, PTL DEF Spec

\* Every variable holds what it is declared to hold.
THEOREM TypeCorrect == Spec => []TypeOK
  BY Inductive, PTL DEF IInv

-----------------------------------------------------------------------------
\* Whoever is refused an operation for a recovery is given a plan that ends
\* what is in progress, and the recovery is a legal transition.
LEMMA ReportHasAPlan == TypeOK => RefusalHasAPlan
  <1> SUFFICES ASSUME TypeOK, NEW op \in Operation, RecommendsRecovery(op, Health)
      PROVE  /\ Plan(Health) # <<>>
             /\ Plan(Health)[Len(Plan(Health))] = Step("abort", InProgress(markers))
             /\ Classify(Health) # "recovering" => CanTransition(Classify(Health), "recovering")
    BY DEF RefusalHasAPlan
  <1> DEFINE kind == InProgress(markers)
  <1>1. Health.inProgress = kind /\ Health.interrupted \in {kind, None}
    BY DEF Health, Interrupted
  <1>2. kind \in Marker
    BY <1>1, InProgressType DEF RecommendsRecovery, TypeOK
  <1>3. kind # None
    BY <1>2, RepositoryStatesAssumption
  <1>4. Classify(Health) = IF Health.interrupted # None THEN "recovering" ELSE kind
    BY <1>1, <1>3 DEF Classify
  <1>5. Classify(Health) \notin Normal
    BY <1>2, <1>4, MarkersAreFive DEF Normal
  <1>6. Repair(Health) = Step("abort", kind)
    <2>1. kind \notin {"recovering", "detached"}
      BY <1>2, MarkersAreFive
    <2> QED BY <1>1, <1>4, <2>1 DEF Repair
  <1>7. RemoveLock(Health) \in Seq(Steps) /\ Repair(Health) \in Steps
    <2>1. /\ Step("remove-stale-lock", "index") \in Steps
          /\ Step("remove-stale-lock", "head") \in Steps
          /\ Step("abort", kind) \in Steps
      BY <1>2 DEF Step, Steps, LockFile
    <2> QED BY <1>6, <2>1 DEF RemoveLock
  <1>8. Plan(Health) = Append(RemoveLock(Health), Repair(Health))
    BY <1>5 DEF Plan
  <1>9. /\ Len(Plan(Health)) = Len(RemoveLock(Health)) + 1
        /\ Plan(Health)[Len(RemoveLock(Health)) + 1] = Repair(Health)
    BY <1>7, <1>8, AppendProperties
  <1>10. Plan(Health) # <<>>
    BY <1>7, <1>9, LenProperties, Len(<<>>) = 0
  <1>11. Classify(Health) # "recovering" => CanTransition(Classify(Health), "recovering")
    <2>1. ASSUME NEW k \in Marker PROVE CanTransition(k, "recovering")
      BY MarkersAreFive DEF CanTransition, LegalTransitions, RepositoryState
    <2> QED BY <1>2, <1>4, <2>1
  <1> QED BY <1>6, <1>9, <1>10, <1>11

THEOREM RefusalsHaveAPlan == Spec => []RefusalHasAPlan
  BY TypeCorrect, ReportHasAPlan, PTL

\* An operation whose process was killed is found out once its entry is old:
\* that is still the newest entry, because until the marker is gone nothing but
\* a fetch is let through, which opens no entry of its own that counts.
THEOREM KilledAreRecovering == Spec => []KilledIsRecovering
  <1>1. IInv => KilledIsRecovering
    <2> SUFFICES ASSUME IInv, killed # None, killed = InProgress(markers),
                        newest # None => newest.old
        PROVE  Classify(Health) = "recovering"
      BY DEF KilledIsRecovering
    <2>1. newest \in [kind : {"merge", "rebase"}, old : BOOLEAN] /\ newest.kind = killed
      BY DEF IInv, EntryIsKept, TypeOK
    <2>2. newest = [kind |-> killed, old |-> TRUE]
      BY <2>1, RecoveryAssumption
    <2>3. Health.interrupted = killed
      BY <2>2 DEF Health, Interrupted
    <2> QED BY <2>3 DEF Classify
  <1> QED BY <1>1, Inductive, PTL
=============================================================================
