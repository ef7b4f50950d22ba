------------------------------ MODULE TaskUndo ------------------------------
(***************************************************************************)
(* /undo of what the coding tasks did to one repository: UndoService and   *)
(* its two phases, the checkpoints that TaskPlanner takes and              *)
(* ProjectMemoryService logs, and the choice ApplicationService makes      *)
(* between the newest checkpoint and the newest git operation.             *)
(*                                                                         *)
(* A file's content is who wrote it last, None when there is no such file. *)
(* Of git operations only commits are here, which change no file;          *)
(* GitJournal has their undo. A step is what runs between two awaits, or   *)
(* one write of a process beside the controller.                           *)
(***************************************************************************)
EXTENDS Naturals, Sequences, FiniteSets, SequencesExt

CONSTANTS File,
          Run,       \* undoable tasks
          Request,   \* "/undo confirm" requests
          Commit,    \* git operations in the journal
          User,      \* whoever else writes to the working tree
          MaxRunning, MaxFaults,
          Base,      \* what the tree holds at first
          None

ASSUME TaskUndoAssumption ==
    /\ IsFiniteSet(Run)
    /\ Run \intersect Commit = {}
    /\ User \notin Run /\ Base \notin Run
    /\ None \notin Run \union Commit \union {User, Base} \union [File -> Run \union {User, Base, None}]
    /\ MaxRunning \in Nat /\ MaxFaults \in Nat

VARIABLES tree,      \* the working tree
          run,       \* the await each task is suspended at
          child,     \* tasks whose process outlives their abort
          before, after, \* the snapshots of each task
          appending, \* results on their way to events.jsonl
          log,       \* events.jsonl: results and undos of this repository
          order,     \* the snapshots "after" and the commits, by their time
          undone,    \* what the journal or the log says is undone
          undo, target, \* the await each request is suspended at, and its plan
          crossed,   \* what others have written since it compared the files
          past,      \* what has disturbed the history, see Disturbance
          faults

task == <<run, child, before, after, appending>>
request == <<undo, target, crossed>>
undoVars == <<tree, task, log, order, undone, request, past, faults>>

Content == Run \union {User, Base, None}
Tree    == [File -> Content]
Event   == [kind : {"result", "undo"}, id : Run]

\* foreign: the user, or an aborted task after its last snapshot, wrote to the
\*          tree while no task was between its snapshots
\* mixed:   one of them or an undo did while a task was between its snapshots,
\*          or two tasks were between theirs at once
\* missing: a snapshot or an append failed, an append was overtaken by another
\*          or by the undo that looked for it
\* overlap: a task, a commit or an undo began while an undo was at work
\* broken:  an undo failed half way, or the process died
Disturbance == {"foreign", "mixed", "missing", "overlap", "broken"}

InPlanner == {r \in Run : run[r] \in {"executing", "after"}}
Tracked   == {r \in Run : run[r] \notin {"idle", "ended"}}
Undoing   == {u \in Request : undo[u] # "idle"}
Compared  == {u \in Request : undo[u] \in {"ready", "restored"}}

UndoTypeOK ==
    /\ tree \in Tree
    /\ run \in [Run -> {"idle", "tracked", "executing", "after", "ended"}]
    /\ child \subseteq Run /\ appending \subseteq Run
    /\ before \in [Run -> Tree \union {None}]
    /\ after \in [Run -> Tree \union {None}]
    /\ log \in Seq(Event)
    /\ order \in Seq(Run \union Commit)
    /\ undone \subseteq ToSet(order)
    /\ undo \in [Request -> {"idle", "checked", "found", "ready", "restored", "deleted"}]
    /\ target \in [Request -> Run \union {None}]
    /\ \A u \in Request : target[u] # None => after[target[u]] # None
    /\ crossed \in [Request -> SUBSET File]
    /\ past \subseteq Disturbance
    /\ faults \in 0..MaxFaults

\* Some files may not be there.
UndoInit ==
    /\ tree \in [File -> {Base, None}]
    /\ run = [r \in Run |-> "idle"]
    /\ child = {} /\ appending = {}
    /\ before = [r \in Run |-> None]
    /\ after = [r \in Run |-> None]
    /\ log = <<>>
    /\ order = <<>>
    /\ undone = {}
    /\ undo = [u \in Request |-> "idle"]
    /\ target = [u \in Request |-> None]
    /\ crossed = [u \in Request |-> {}]
    /\ past = {}
    /\ faults = 0

-----------------------------------------------------------------------------
Goto(r, place) == run' = [run EXCEPT ![r] = place]
Step(u, place) == undo' = [undo EXCEPT ![u] = place]

\* The answer to a request; its identity stands for a later one.
AnswerRequest(u) ==
    /\ Step(u, "idle")
    /\ target' = [target EXCEPT ![u] = None]
    /\ crossed' = [crossed EXCEPT ![u] = {}]

Disturb(ds) == past' = past \union ds
When(d, condition) == IF condition THEN {d} ELSE {}
Foreign == Disturb({IF InPlanner = {} THEN "foreign" ELSE "mixed"})
Fault == faults < MaxFaults /\ faults' = faults + 1

LaterThan(x, y) == \A i, j \in DOMAIN order : order[i] = x /\ order[j] = y => i > j

\* ExecutionStateTracker.enter; the task may wait for an approval.
Track(r) ==
    /\ run[r] = "idle"
    /\ Goto(r, "tracked")
    /\ Disturb(When("overlap", Undoing # {}))
    /\ UNCHANGED <<tree, child, before, after, appending, log, order, undone,
                   request, faults>>

\* Denied, refused for want of a slot, or an error: there is no result.
Withdraw(r) ==
    /\ run[r] = "tracked"
    /\ Goto(r, "idle")
    /\ UNCHANGED <<tree, child, before, after, appending, log, order, undone,
                   request, past, faults>>

\* A snapshot that fails leaves the task without a checkpoint.
Snapshot(r, snapshots) ==
    /\ \/ snapshots' = [snapshots EXCEPT ![r] = tree] /\ UNCHANGED faults
       \/ Fault /\ UNCHANGED snapshots
    /\ Disturb(When("missing", snapshots'[r] = None)
               \union When("mixed", InPlanner \ {r} # {}))

\* run() takes a slot, then its first snapshot, and starts the workflow.
Start(r) ==
    /\ run[r] = "tracked"
    /\ Cardinality(InPlanner) < MaxRunning
    /\ Snapshot(r, before)
    /\ Goto(r, "executing")
    /\ UNCHANGED <<tree, child, after, appending, log, order, undone, request>>

\* A write, or the removal of a file.
Write(f, who) ==
    \E content \in {who, None} \ {tree[f]} : tree' = [tree EXCEPT ![f] = content]

\* What is written now the requests that have compared the files do not know.
Cross(files, requests) ==
    crossed' = [u \in Request |-> IF u \in requests THEN crossed[u] \union files ELSE crossed[u]]

Edit(r, f) ==
    /\ run[r] = "executing" \/ r \in child
    /\ Write(f, r)
    /\ IF run[r] = "ended" THEN Foreign ELSE UNCHANGED past
    /\ Cross({f}, Compared)
    /\ UNCHANGED <<task, log, order, undone, undo, target, faults>>

UserEdit(f) ==
    /\ Write(f, User)
    /\ Foreign
    /\ Cross({f}, Compared)
    /\ UNCHANGED <<task, log, order, undone, undo, target, faults>>

\* The workflow ends by itself, or is cancelled or timed out and may write on.
Settle(r) ==
    /\ run[r] = "executing"
    /\ Goto(r, "after")
    /\ child' \in {child, child \union {r}}
    /\ UNCHANGED <<tree, before, after, appending, log, order, undone,
                   request, past, faults>>

ChildExits(r) ==
    /\ child' = child \ {r} /\ r \in child
    /\ UNCHANGED <<tree, run, before, after, appending, log, order, undone,
                   request, past, faults>>

\* run() returns a result, with a checkpoint if it has both snapshots.
\* MemoryRecordingControllerCore starts the append and does not wait for it,
\* so that the tracker forgets the task first.
AfterSnapshot(r) ==
    /\ run[r] = "after"
    /\ IF before[r] = None
       THEN UNCHANGED <<after, past, faults>>
       ELSE Snapshot(r, after)
    /\ order' = IF after'[r] = None THEN order ELSE Append(order, r)
    /\ appending' = appending \union {r}
    /\ Goto(r, "ended")
    /\ UNCHANGED <<tree, child, before, log, undone, request>>

\* The append is over, with the event in the log or without it.
LogResult(r) ==
    /\ r \in appending
    /\ appending' = appending \ {r}
    /\ \/ /\ log' = Append(log, [kind |-> "result", id |-> r])
          /\ Disturb(When("missing", \E x \in appending : x # r /\ LaterThan(r, x)))
          /\ UNCHANGED faults
       \/ UNCHANGED log /\ Fault /\ Disturb({"missing"})
    /\ UNCHANGED <<tree, run, child, before, after, order, undone, request>>

\* A commit is a task too, which TaskPlanner runs in the slot.
MakeCommit(c) ==
    /\ c \notin ToSet(order)
    /\ Cardinality(InPlanner) < MaxRunning
    /\ order' = Append(order, c)
    /\ Disturb(When("overlap", Undoing # {}))
    /\ UNCHANGED <<tree, task, log, undone, request, faults>>

-----------------------------------------------------------------------------
\* buildUndoPlan: refused while a task of the repository is tracked.
Check(u) ==
    /\ undo[u] = "idle"
    /\ Tracked = {}
    /\ Step(u, "checked")
    /\ Disturb(When("overlap", Undoing # {}))
    /\ UNCHANGED <<tree, task, log, order, undone, target, crossed, faults>>

\* ProjectMemoryService.getMostRecentUndoableExecution.
LatestUndoable ==
    LET taken == {log[i].id : i \in {j \in DOMAIN log : log[j].kind = "undo"}}
        found == {i \in DOMAIN log : /\ log[i].kind = "result" /\ after[log[i].id] # None
                                     /\ log[i].id \notin taken}
    IN  IF found = {} THEN None ELSE log[CHOOSE i \in found : \A j \in found : j \leq i].id

Find(u) ==
    /\ undo[u] = "checked"
    /\ target' = [target EXCEPT ![u] = LatestUndoable]
    /\ Step(u, "found")
    /\ Disturb(When("missing", appending # {}))
    /\ UNCHANGED <<tree, task, log, order, undone, crossed, faults>>

Changed(r) == {f \in File : before[r][f] # after[r][f]}
ToDelete(r) == {f \in Changed(r) : before[r][f] = None}
ToRestore(r) == Changed(r) \ ToDelete(r)

\* Mutant of Drifted: the live snapshot is not compared.
DriftIgnored(r) == FALSE

Drifted(r) == \E f \in Changed(r) : tree[f] # after[r][f]

\* Mutant of PrefersCommit: any commit goes before the tasks.
PrefersAnyCommit(c, r) == TRUE

\* gitPlan.recordedAt > taskPlan.capturedAt.
PrefersCommit(c, r) == LaterThan(c, r)

Latest(S) == {x \in S : \A y \in S \ {x} : LaterThan(x, y)}
Standing  == ToSet(order) \ undone
LatestCommit == Latest(Commit \intersect Standing)

\* The live snapshot is compared with the checkpoint; the newer of the two
\* plans is taken, and only then does it matter that the task's is not ready.
Decide(u) ==
    /\ undo[u] = "found"
    /\ \/ \E c \in LatestCommit :
            /\ PrefersCommit(c, target[u])
            /\ undone' = undone \union {c}
            /\ AnswerRequest(u)
       \/ /\ \A c \in LatestCommit : ~PrefersCommit(c, target[u])
          /\ IF target[u] = None \/ Drifted(target[u])
             THEN AnswerRequest(u)
             ELSE Step(u, "ready") /\ UNCHANGED <<target, crossed>>
          /\ UNCHANGED undone
    /\ UNCHANGED <<tree, task, log, order, past, faults>>

\* Mutant of RestoreTo: files the task added stay.
RestoreChanged(r, files) == [f \in File |-> IF f \in files \ ToDelete(r) THEN before[r][f] ELSE tree[f]]

RestoreTo(r, files) == [f \in File |-> IF f \in files THEN before[r][f] ELSE tree[f]]

\* GitAdapter.restorePaths: git restore of the files there were, then the
\* removal of those there were not.
PutBack(u, files) ==
    /\ tree' = RestoreTo(target[u], files)
    /\ Cross(files, Compared \ {u})
    /\ Disturb(When("mixed", InPlanner # {}))

Restore(u) ==
    /\ undo[u] = "ready"
    /\ PutBack(u, ToRestore(target[u]))
    /\ Step(u, "restored")
    /\ UNCHANGED <<task, log, order, undone, target, faults>>

Delete(u) ==
    /\ undo[u] = "restored"
    /\ PutBack(u, ToDelete(target[u]))
    /\ Step(u, "deleted")
    /\ UNCHANGED <<task, log, order, undone, target, faults>>

RecordUndo(u) ==
    /\ undo[u] = "deleted"
    /\ log' = Append(log, [kind |-> "undo", id |-> target[u]])
    /\ undone' = undone \union {target[u]}
    /\ AnswerRequest(u)
    /\ UNCHANGED <<tree, task, order, past, faults>>

\* A snapshot, git restore or the append fails: the request ends there.
UndoFails(u) ==
    /\ Fault
    /\ u \in Undoing
    /\ AnswerRequest(u)
    /\ Disturb(When("broken", undo[u] \in {"restored", "deleted"}))
    /\ UNCHANGED <<tree, task, log, order, undone>>

Crash ==
    /\ Fault
    /\ child' \in SUBSET (child \union {r \in Run : run[r] = "executing"})
    /\ run' = [r \in Run |-> IF run[r] = "idle" THEN "idle" ELSE "ended"]
    /\ appending' = {}
    /\ undo' = [u \in Request |-> "idle"] /\ target' = [u \in Request |-> None]
    /\ crossed' = [u \in Request |-> {}]
    /\ Disturb({"broken"})
    /\ UNCHANGED <<tree, before, after, log, order, undone>>

UndoNext ==
    \/ \E r \in Run : \/ Track(r) \/ Withdraw(r) \/ Start(r)
                      \/ Settle(r) \/ ChildExits(r) \/ AfterSnapshot(r) \/ LogResult(r)
                      \/ \E f \in File : Edit(r, f)
    \/ \E f \in File : UserEdit(f)
    \/ \E c \in Commit : MakeCommit(c)
    \/ \E u \in Request : \/ Check(u) \/ Find(u) \/ Decide(u) \/ Restore(u) \/ Delete(u)
                          \/ RecordUndo(u) \/ UndoFails(u)
    \/ Crash

UndoSpec == UndoInit /\ [][UndoNext]_undoVars

-----------------------------------------------------------------------------
AtRest == Tracked = {} /\ Undoing = {} /\ child = {}

\* Undos unwind the tasks one by one: when nothing is at work the tree is what
\* the last task that is not undone has left, whichever tasks, commits and
\* undos there were, unless something that past names has come between.
TreeIsUnwound ==
    AtRest /\ past = {} =>
        /\ \A r \in Latest(Run \intersect Standing) : tree = after[r]
        /\ Run \intersect Standing = {} =>
              \A r \in Run \intersect ToSet(order) :
                 (\A s \in Run \intersect ToSet(order) : s = r \/ LaterThan(s, r))
                 => tree = before[r]

\* An undo takes back the newest of all tasks and commits that stand, though
\* the two are found in different files and compared by their time.
UndoIsOfTheNewest ==
    [][\A u \in Request : Decide(u) /\ past \subseteq {"foreign", "mixed"} =>
          /\ undone' \subseteq undone \union Latest(Standing)
          /\ undo'[u] = "ready" => target[u] \in Latest(Standing)]_undoVars

Attributed(u, f) ==
    tree'[f] # tree[f] /\ tree[f] # None => tree[f] = target[u]

\* An undo changes no file but those the task wrote last: what the user, another
\* task or another undo has written to them since is kept, however they overlap,
\* if it was written before the undo compared the files. Only what was written
\* to a file between the two snapshots of the task counts as the task's.
UndoSparesOthers ==
    [][\A u \in Request : Restore(u) \/ Delete(u) =>
          "mixed" \in past \/ \A f \in File \ crossed[u] : Attributed(u, f)]_undoVars

\* Known not to hold, see the README.
\* SYSTEM_DESIGN has an undo blocked if anything the task touched has changed.
DriftBlocksUndo ==
    [][\A u \in Request : Restore(u) \/ Delete(u) =>
          "mixed" \in past \/ \A f \in File : Attributed(u, f)]_undoVars

=============================================================================
