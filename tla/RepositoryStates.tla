--------------------------- MODULE RepositoryStates ---------------------------
(***************************************************************************)
(* What is decided from a health report, all of it pure: the state a       *)
(* repository is in, the states it may go to, the plan to recover it, and  *)
(* whether an operation may run.                                           *)
(*                                                                         *)
(* A kind of operation in progress names its state too: "merge" stands for *)
(* MergeInProgress. A report is a record; what no decision looks at is     *)
(* left out of it.                                                         *)
(***************************************************************************)
EXTENDS Integers, Sequences

CONSTANT None

Operation == {"fetch", "sync", "merge", "rebase", "commit", "push", "switch", "create", "discard"}

\* In the order GitHealthService looks for their files.
MarkerOrder == <<"merge", "rebase", "cherry-pick", "revert", "bisect">>
Marker == {MarkerOrder[i] : i \in DOMAIN MarkerOrder}

ASSUME RepositoryStatesAssumption == None \notin Marker

Normal == {"clean", "dirty", "diverged"}
RepositoryState == Normal \cup Marker \cup {"detached", "recovering", "unrecoverable"}

\* input: a commit without a message and a merge of the branch into itself are
\* "useless".
Input == {"fine", "useless"}

Report ==
  [inProgress : Marker \cup {None}, interrupted : Marker \cup {None},
   detached : BOOLEAN, diverged : BOOLEAN, behind : BOOLEAN, clean : BOOLEAN,
   indexLocked : BOOLEAN, staleLock : BOOLEAN]

-----------------------------------------------------------------------------
(* GitHealthService                                                        *)

InProgress(markers) ==
  IF markers = {} THEN None
  ELSE MarkerOrder[CHOOSE i \in DOMAIN MarkerOrder :
         /\ MarkerOrder[i] \in markers
         /\ \A j \in 1..i - 1 : MarkerOrder[j] \notin markers]

\* Mutant of Interrupted: only a stale lock tells.
InterruptedByLock(kind, staleLock, newest) == IF kind # None /\ staleLock THEN kind ELSE None

\* newest: the kind of the newest journal entry if that is still open, and
\* whether it is older than five minutes.
Interrupted(kind, staleLock, newest) ==
  IF kind # None /\ (staleLock \/ newest = [kind |-> kind, old |-> TRUE]) THEN kind ELSE None

-----------------------------------------------------------------------------
(* RepositoryStateAnalyzer and GitStateMachine                             *)

Classify(r) ==
  IF r.interrupted # None THEN "recovering"
  ELSE IF r.inProgress # None THEN r.inProgress
  ELSE IF r.detached THEN "detached"
  ELSE IF r.diverged THEN "diverged"
  ELSE IF ~r.clean THEN "dirty" ELSE "clean"

\* Mutant of LegalTransitions: a bisect can only end.
LegalTransitionsOfFour ==
  [s \in RepositoryState |->
     IF s = "clean" THEN RepositoryState \ {"clean", "unrecoverable"}
     ELSE IF s \in Marker \ {"bisect"} THEN {"clean", "recovering"}
     ELSE IF s = "recovering" THEN {"clean", "unrecoverable"}
     ELSE IF s = "unrecoverable" THEN {} ELSE {"clean"}]

LegalTransitions ==
  [s \in RepositoryState |->
     IF s = "clean" THEN RepositoryState \ {"clean", "unrecoverable"}
     ELSE IF s \in Marker THEN {"clean", "recovering"}
     ELSE IF s = "recovering" THEN {"clean", "unrecoverable"}
     ELSE IF s = "unrecoverable" THEN {} ELSE {"clean"}]

CanTransition(from, to) == to \in LegalTransitions[from]

-----------------------------------------------------------------------------
(* RecoveryPlanner                                                         *)

Step(command, on) == [command |-> command, on |-> on]

RemoveLock(r) ==
  IF r.staleLock THEN <<Step("remove-stale-lock", IF r.indexLocked THEN "index" ELSE "head")>>
  ELSE <<>>

\* What the plan ends with.
Repair(r) ==
  IF Classify(r) = "recovering" THEN Step("abort", r.interrupted)
  ELSE IF Classify(r) = "detached" THEN Step("create-branch", None)
  ELSE Step("abort", Classify(r))

\* No steps: there is nothing to recover.
Plan(r) == IF Classify(r) \in Normal THEN <<>> ELSE Append(RemoveLock(r), Repair(r))

RequiresApproval(step) == step.command = "remove-stale-lock"

-----------------------------------------------------------------------------
(* AutomaticSafetyPolicies and PreflightValidationPolicy                   *)

RecommendsRecovery(op, r) == op # "fetch" /\ (r.inProgress # None \/ r.interrupted # None)
RequestsApproval(op) == op = "rebase"

Passes(op, r, input) ==
  /\ op # "fetch" => r.inProgress = None
  /\ op \in {"sync", "rebase", "merge"} => ~r.detached
  /\ op \in {"sync", "rebase", "merge", "switch"} => r.clean
  /\ op = "merge" => input # "useless"
  /\ op = "commit" => input # "useless" /\ ~r.clean
  /\ op = "push" => ~r.behind

=============================================================================
