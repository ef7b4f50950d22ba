------------------------------- MODULE Recovery -------------------------------
(***************************************************************************)
(* /recover of a repository beside the git command that is at work in it:  *)
(* RepositoryRecoveryWorkflow and CommandOrchestrator over the reports of  *)
(* GitHealthService, and the approvals they ask for.                       *)
(*                                                                         *)
(* The files of the git directory are what the report is read from. What a *)
(* git command does is here as far as it changes them; its place in the    *)
(* journal is GitJournal's, and only the newest entry is kept here.        *)
(***************************************************************************)
EXTENDS RepositoryStates

CONSTANTS
  Offered,  \* the operations that are asked for
  Foreign,  \* what is begun and ended from a terminal
  MaxFaults \* bound: crashes, and git commands that are killed

ASSUME RecoveryAssumption ==
  /\ Offered \subseteq Operation /\ Foreign \subseteq Marker /\ MaxFaults \in Nat
  /\ None \notin [kind : {"merge", "rebase"}, old : BOOLEAN]

VARIABLES
  markers,  \* operations with their file in the git directory
  lock,     \* of index.lock and HEAD.lock: the process that left it
  detached, dirty,
  upstream, \* the branch is ahead of it, or behind it
  newest,   \* the newest journal entry, while it is open, see Interrupted
  torn,     \* a line of the journal is incomplete
  killed,   \* the marker left by an operation whose process was killed
  command,  \* the operation that is orchestrated
  recovery, \* the /recover that is under way
  faults

git == <<markers, lock, detached, dirty, upstream>>
journal == <<newest, torn, killed>>
vars == <<git, journal, command, recovery, faults>>

LockFile == {"index", "head"}

\* orphan: its process is dead. After five minutes it counts as stale.
LockState == {"none", "live", "orphan", "stale"}

NoCommand == [at |-> "idle", op |-> None, prompted |-> FALSE]
NoRecovery == [at |-> "idle", state |-> None, steps |-> <<>>, prompted |-> FALSE]

\* The operations that stop at conflicts, and what they leave then.
Conflicts(op) ==
  CASE op = "merge" -> {"merge"} [] op = "rebase" -> {"rebase"}
    [] op = "sync" -> {"merge", "rebase"} [] OTHER -> {}

TypeOK ==
  /\ markers \subseteq Marker
  /\ lock \in [LockFile -> LockState]
  /\ detached \in BOOLEAN /\ dirty \in BOOLEAN
  /\ upstream \subseteq {"ahead", "behind"}
  /\ newest \in [kind : {"merge", "rebase"}, old : BOOLEAN] \cup {None}
  /\ torn \in BOOLEAN
  /\ killed \in markers \cup {None}
  /\ command.at \in {"idle", "asking", "running"}
  /\ command.op \in Offered \cup {None}
  /\ recovery.at \in {"idle", "planned", "stepping", "asking"}
  /\ recovery.at = "idle" <=> recovery.steps = <<>>
  /\ faults \in 0..MaxFaults

Init ==
  /\ markers = {} /\ lock = [f \in LockFile |-> "none"]
  /\ detached = FALSE /\ dirty = FALSE /\ upstream = {}
  /\ newest = None /\ torn = FALSE /\ killed = None
  /\ command = NoCommand /\ recovery = NoRecovery
  /\ faults = 0

Fault == faults < MaxFaults /\ faults' = faults + 1

\* getHealth, which fails if the journal cannot be read
Health ==
  LET stale == \E f \in LockFile : lock[f] = "stale"
      kind  == InProgress(markers)
  IN  [inProgress |-> kind, interrupted |-> Interrupted(kind, stale, newest),
       detached |-> detached, diverged |-> ~detached /\ upstream = {"ahead", "behind"},
       behind |-> ~detached /\ "behind" \in upstream, clean |-> ~dirty,
       indexLocked |-> lock["index"] # "none", staleLock |-> stale]

\* No git command changes anything while there is a lock.
Unlocked == \A f \in LockFile : lock[f] = "none"

-----------------------------------------------------------------------------
(* TelegramApprovalProvider.requestGateApproval. It finds the chat in the  *)
(* correlation id: that of a command is the chat's, that of a recovery     *)
(* step the id of the repository.                                          *)

HasChat(correlation) == correlation = "chat"

Decisions(correlation) == IF HasChat(correlation) THEN BOOLEAN ELSE {FALSE}

-----------------------------------------------------------------------------
(* CommandOrchestrator                                                     *)

\* The entry that is open while an operation runs; of other operations than
\* these it never counts.
Open(op) ==
  IF op = "fetch" THEN {newest}
  ELSE {[kind |-> k, old |-> FALSE] : k \in Conflicts(op)} \cup (IF Conflicts(op) = {} THEN {None} ELSE {})

Start(op) ==
  /\ command' = [at |-> "running", op |-> op, prompted |-> FALSE]
  /\ newest' \in Open(op)

\* Everything up to run(): with a plan it is over, and if a check fails.
Execute(op, input) ==
  /\ command = NoCommand /\ ~torn
  /\ ~RecommendsRecovery(op, Health)
  /\ Passes(op, Health, input)
  /\ IF RequestsApproval(op)
     THEN /\ command' = [at |-> "asking", op |-> op, prompted |-> HasChat("chat")]
          /\ UNCHANGED newest
     ELSE Start(op)
  /\ UNCHANGED <<git, torn, killed, recovery, faults>>

Decided ==
  /\ command.at = "asking"
  /\ \E approved \in Decisions("chat") :
       IF approved THEN Start(command.op) ELSE command' = NoCommand /\ UNCHANGED newest
  /\ UNCHANGED <<git, torn, killed, recovery, faults>>

\* git has stopped at a conflict, and the entry stays open.
StopsAtConflict ==
  /\ command.at = "running" /\ newest # None /\ newest.kind \in Conflicts(command.op)
  /\ Unlocked /\ markers = {}
  /\ markers' = {newest.kind} /\ dirty' = TRUE
  /\ detached' = (newest.kind = "rebase")
  /\ command' = NoCommand
  /\ UNCHANGED <<lock, upstream, journal, recovery, faults>>

Performed(op) ==
  /\ dirty' = IF op \in {"commit", "discard"} THEN FALSE ELSE dirty
  /\ detached' = IF op \in {"switch", "create"} THEN FALSE ELSE detached
  /\ upstream' \in CASE op = "fetch" -> {upstream, upstream \cup {"behind"}}
                     [] op \in {"sync", "merge", "rebase"} -> {upstream, upstream \ {"behind"}}
                     [] op = "commit" -> {upstream \cup {"ahead"}}
                     [] op = "push" -> {upstream \ {"ahead"}}
                     [] OTHER -> {upstream}

Succeeds ==
  /\ command.at = "running" /\ Unlocked
  /\ Performed(command.op)
  /\ newest' = IF command.op = "fetch" THEN newest ELSE None
  /\ command' = NoCommand
  /\ UNCHANGED <<markers, lock, torn, killed, recovery, faults>>

Fails ==
  /\ command.at = "running"
  /\ newest' = IF command.op = "fetch" THEN newest ELSE None
  /\ command' = NoCommand
  /\ UNCHANGED <<git, torn, killed, recovery, faults>>

-----------------------------------------------------------------------------
(* ApplicationService.recoverRepository and RepositoryRecoveryWorkflow     *)

Recover ==
  /\ recovery = NoRecovery /\ ~torn
  /\ Plan(Health) # <<>>
  /\ recovery' = [NoRecovery EXCEPT !.at = "planned", !.state = Classify(Health), !.steps = Plan(Health)]
  /\ UNCHANGED <<git, journal, command, faults>>

\* A plan made in another state is stale.
Validate ==
  /\ recovery.at = "planned"
  /\ recovery' = IF torn \/ Classify(Health) # recovery.state THEN NoRecovery
                 ELSE [recovery EXCEPT !.at = "stepping"]
  /\ UNCHANGED <<git, journal, command, faults>>

StepDone ==
  recovery' = IF Len(recovery.steps) = 1 THEN NoRecovery
              ELSE [recovery EXCEPT !.at = "stepping", !.steps = Tail(@), !.prompted = FALSE]

AskForStep ==
  /\ recovery.at = "stepping" /\ RequiresApproval(Head(recovery.steps))
  /\ recovery' = [recovery EXCEPT !.at = "asking", !.prompted = HasChat("repository")]
  /\ UNCHANGED <<git, journal, command, faults>>

StepDecided ==
  /\ recovery.at = "asking"
  /\ \E approved \in Decisions("repository") :
       IF approved
       THEN lock' = [lock EXCEPT ![Head(recovery.steps).on] = "none"] /\ StepDone
       ELSE UNCHANGED lock /\ recovery' = NoRecovery
  /\ UNCHANGED <<markers, detached, dirty, upstream, journal, command, faults>>

\* git's abort puts back what was before the operation.
Ended(kind) ==
  /\ markers' = markers \ {kind}
  /\ killed' = IF killed = kind THEN None ELSE killed
  /\ detached' = IF kind \in {"rebase", "bisect"} THEN FALSE ELSE detached
  /\ dirty' \in IF kind = "bisect" THEN {dirty} ELSE {dirty, FALSE}

\* A safe step; the entry of an operation that is aborted stays open.
RunStep ==
  /\ recovery.at = "stepping" /\ ~RequiresApproval(Head(recovery.steps))
  /\ Unlocked
  /\ \/ /\ Head(recovery.steps).command = "abort"
        /\ Head(recovery.steps).on \in markers
        /\ Ended(Head(recovery.steps).on)
     \/ /\ Head(recovery.steps).command = "create-branch"
        /\ detached' = FALSE
        /\ UNCHANGED <<markers, killed, dirty>>
  /\ StepDone
  /\ UNCHANGED <<lock, upstream, newest, torn, command, faults>>

\* git refuses: there is a lock, or nothing to abort any more.
StepFails ==
  /\ recovery.at = "stepping" /\ ~RequiresApproval(Head(recovery.steps))
  /\ \/ ~Unlocked
     \/ Head(recovery.steps).command = "abort" /\ Head(recovery.steps).on \notin markers
  /\ recovery' = NoRecovery
  /\ UNCHANGED <<git, journal, command, faults>>

\* /abort; ApplicationService.abortRepositoryOperation
Abort ==
  /\ ~torn /\ InProgress(markers) # None /\ Unlocked
  /\ Ended(InProgress(markers))
  /\ UNCHANGED <<lock, upstream, newest, torn, command, recovery, faults>>

-----------------------------------------------------------------------------
(* git beside the controller, and time                                     *)

\* A git command begins to write, of a terminal or of the operation at work.
TakeLock(f) ==
  /\ lock[f] = "none" /\ lock' = [lock EXCEPT ![f] = "live"]
  /\ UNCHANGED <<markers, detached, dirty, upstream, journal, command, recovery, faults>>

ReleaseLock(f) ==
  /\ lock[f] = "live" /\ lock' = [lock EXCEPT ![f] = "none"]
  /\ UNCHANGED <<markers, detached, dirty, upstream, journal, command, recovery, faults>>

KillGit(f) ==
  /\ Fault
  /\ lock[f] = "live" /\ lock' = [lock EXCEPT ![f] = "orphan"]
  /\ UNCHANGED <<markers, detached, dirty, upstream, journal, command, recovery>>

LockAges(f) ==
  /\ lock[f] = "orphan" /\ lock' = [lock EXCEPT ![f] = "stale"]
  /\ UNCHANGED <<markers, detached, dirty, upstream, journal, command, recovery, faults>>

\* Nothing the controller offers comes to this.
RemoveByHand(f) ==
  /\ lock[f] \in {"orphan", "stale"} /\ lock' = [lock EXCEPT ![f] = "none"]
  /\ UNCHANGED <<markers, detached, dirty, upstream, journal, command, recovery, faults>>

EntryAges ==
  /\ newest # None /\ ~newest.old /\ command.at # "running"
  /\ newest' = [newest EXCEPT !.old = TRUE]
  /\ UNCHANGED <<git, torn, killed, command, recovery, faults>>

BeginForeign(k) ==
  /\ Unlocked /\ k \notin markers
  /\ markers' = markers \cup {k} /\ dirty' = (k # "bisect" \/ dirty)
  /\ detached' = (detached \/ k \in {"rebase", "bisect"})
  /\ UNCHANGED <<lock, upstream, journal, command, recovery, faults>>

EndForeign(k) ==
  /\ Unlocked /\ k \in markers /\ Ended(k)
  /\ UNCHANGED <<lock, upstream, newest, torn, command, recovery, faults>>

Edit ==
  /\ ~dirty /\ dirty' = TRUE
  /\ UNCHANGED <<markers, lock, detached, upstream, journal, command, recovery, faults>>

Detach ==
  /\ Unlocked /\ ~detached /\ detached' = TRUE
  /\ UNCHANGED <<markers, lock, dirty, upstream, journal, command, recovery, faults>>

\* The controller's process is killed, with or without the git command it runs.
Crash ==
  /\ Fault
  /\ command' = NoCommand /\ recovery' = NoRecovery
  /\ \/ UNCHANGED <<markers, killed, torn, dirty, detached>>
     \/ /\ command.at = "running" /\ command.op # "fetch" /\ torn' = TRUE
        /\ UNCHANGED <<markers, killed, dirty, detached>>
     \/ /\ command.at = "running" /\ newest # None /\ newest.kind \in Conflicts(command.op)
        /\ markers = {}
        /\ markers' = {newest.kind} /\ killed' = newest.kind
        /\ dirty' \in {dirty, TRUE} /\ detached' = (newest.kind = "rebase")
        /\ UNCHANGED torn
  /\ lock' \in {lock, [f \in LockFile |-> IF lock[f] = "live" THEN "orphan" ELSE lock[f]]}
  /\ UNCHANGED <<upstream, newest>>

Next ==
  \/ \E op \in Offered, input \in Input : Execute(op, input)
  \/ Decided \/ StopsAtConflict \/ Succeeds \/ Fails
  \/ Recover \/ Validate \/ AskForStep \/ StepDecided \/ RunStep \/ StepFails \/ Abort
  \/ \E f \in LockFile : TakeLock(f) \/ ReleaseLock(f) \/ KillGit(f) \/ LockAges(f) \/ RemoveByHand(f)
  \/ \E k \in Foreign : BeginForeign(k) \/ EndForeign(k)
  \/ EntryAges \/ Edit \/ Detach \/ Crash

Spec == Init /\ [][Next]_vars

-----------------------------------------------------------------------------
\* Nobody is sent away without a way on: whenever CommandOrchestrator refuses
\* an operation for a recovery, there is a plan, its last step ends what is in
\* progress, and assertTransition does not throw instead of offering it.
RefusalHasAPlan ==
  \A op \in Operation : RecommendsRecovery(op, Health) =>
    /\ Plan(Health) # <<>>
    /\ Plan(Health)[Len(Plan(Health))] = Step("abort", InProgress(markers))
    /\ Classify(Health) # "recovering" => CanTransition(Classify(Health), "recovering")

\* An operation whose process was killed is found out five minutes later, for
\* as long as it is the one in progress: other commands are refused meanwhile,
\* so that its entry stays the newest (GitHealthService.detectInterrupted).
KilledIsRecovering ==
  killed # None /\ killed = InProgress(markers) /\ (newest # None => newest.old) =>
    Classify(Health) = "recovering"

\* Known not to hold: of the lock that a plan removes, its description says
\* "the stale git lock file left by an interrupted process"
\* (RecoveryPlanner.ts:44). It is index.lock whenever there is one (:47), of a
\* command at work too if HEAD.lock is stale. That it stays in place is owed
\* only to the approval of its step, which is never given.
StaleLocksAreRemoved ==
  Health.staleLock => \A f \in LockFile : RemoveLock(Health)[1].on = f => lock[f] = "stale"

\* requestGateApproval is for the steps of a recovery as for commands: whoever
\* waits for an approval has had it put to a chat. TELEGRAM_COMMANDS.md says of
\* /recover that individual steps may prompt for approval.
ApprovalsReachAChat ==
  /\ command.at = "asking" => command.prompted
  /\ recovery.at = "asking" => recovery.prompted
=============================================================================
